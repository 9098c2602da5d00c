------------------------------- MODULE Network ------------------------------
(***************************************************************************)
(* The network (internal/network): regions, operating units with a parent, *)
(* a status and capabilities, the franchises that run some of them and     *)
(* their agreements.  The handlers run single statements, not one          *)
(* transaction: deactivating a unit reads the unit, then counts what hangs *)
(* on it, then writes, and another administrator may act in between.       *)
(*                                                                         *)
(* Left out: names, addresses, contact data, effective dates of units and  *)
(* of agreements, security deposits.                                       *)
(***************************************************************************)
EXTENDS Integers, FiniteSets

CONSTANTS
    Units, UnitType,      \* operating units, and the unit_type of each
    Regions, Franchises, Agreements,
    Admins,               \* administrators at their screens
    NoUnit                \* a null reference

HubTypes == {"DELIVERY_HUB", "TRANSIT_HUB", "REGIONAL_HUB"}
UnitTypes == HubTypes \cup {"BRANCH", "FRANCHISE_BRANCH"}
Capabilities == {"BOOKING", "DELIVERY"}
FranchiseStatuses == {"ONBOARDING", "ACTIVE", "SUSPENDED", "TERMINATED"}

ASSUME NetworkAssumption ==
    /\ UnitType \in [Units -> UnitTypes]
    /\ NoUnit \notin Units \cup Regions \cup Franchises
    /\ Units \cap Franchises = {}

VARIABLES
    unit,       \* unit[u]: the operating_units row
    region,     \* region[g]: status and parent
    capable,    \* capable[u]: the enabled operating_unit_capabilities
    opening,    \* opening[u]: the capabilities createUnit has still to write
    franchise,  \* franchise[f]: the franchises row
    agreement,  \* agreement[a]: the franchise_agreements row
    screen      \* screen[a]: what administrator a last read, and acts on

UnitRow == [status : {"NONE", "ACTIVE", "SUSPENDED", "INACTIVE"},
            parent : Units \cup {NoUnit}, version : Nat]
RegionRow == [status : {"NONE", "ACTIVE", "INACTIVE"}, parent : Regions \cup {NoUnit}]
FranchiseRow == [status : {"NONE"} \cup FranchiseStatuses, unit : Units \cup {NoUnit},
                 version : Nat]
AgreementRow == [status : {"NONE", "DRAFT", "ACTIVE", "EXPIRED", "TERMINATED"}, of : Franchises \cup {NoUnit}]
NoScreen == [about |-> NoUnit, seen |-> NoUnit, clear |-> FALSE]

NetworkInit ==
    /\ unit = [u \in Units |-> [status |-> "NONE", parent |-> NoUnit, version |-> 0]]
    /\ region = [g \in Regions |-> [status |-> "NONE", parent |-> NoUnit]]
    /\ capable = [u \in Units |-> {}] /\ opening = [u \in Units |-> {}]
    /\ franchise = [f \in Franchises |-> [status |-> "NONE", unit |-> NoUnit, version |-> 0]]
    /\ agreement = [a \in Agreements |-> [status |-> "NONE", of |-> NoUnit]]
    /\ screen = [a \in Admins |-> NoScreen]

networkVars == <<unit, region, capable, opening, franchise, agreement, screen>>

-----------------------------------------------------------------------------
(***************************************************************************)
(* The statements.                                                         *)
(***************************************************************************)
GetOperatingUnitByPublicID(u) == u \in Units /\ unit[u].status # "NONE"
GetRegionByPublicID(g) == g \in Regions /\ region[g].status # "NONE"
GetFranchiseByPublicID(f) == franchise[f].status # "NONE"

GetFranchiseByOperatingUnit(u) ==
    {f \in Franchises : GetFranchiseByPublicID(f) /\ franchise[f].unit = u}

CreateRegion(g, parent) ==
    /\ region[g].status = "NONE"
    /\ region' = [region EXCEPT ![g] = [status |-> "ACTIVE", parent |-> parent]]

UpdateRegion(g, status, parent) ==
    /\ GetRegionByPublicID(g)
    /\ region' = [region EXCEPT ![g] = [status |-> status,
                    parent |-> IF parent = NoUnit THEN @.parent ELSE parent]]

CreateOperatingUnit(u, parent) ==
    /\ unit[u].status = "NONE"
    /\ unit' = [unit EXCEPT ![u] = [status |-> "ACTIVE", parent |-> parent, version |-> 1]]

\* Mutant: whatever the version is.
UpdateOperatingUnitLastWins(u, expected, status, parent) ==
    unit' = [unit EXCEPT ![u] = [status |-> status, parent |-> parent,
                                 version |-> @.version + 1]]

\* Only the version the caller read; the trigger counts the versions.
UpdateOperatingUnit(u, expected, status, parent) ==
    /\ unit[u].version = expected
    /\ unit' = [unit EXCEPT ![u] = [status |-> status, parent |-> parent,
                                    version |-> @.version + 1]]

DeactivateOperatingUnit(u) ==
    /\ unit[u].status # "INACTIVE"
    /\ unit' = [unit EXCEPT ![u].status = "INACTIVE", ![u].version = @ + 1]

\* Children of any status; linked are the units of active service areas and
\* routes.
CountOperatingUnitReferences(u, linked) ==
    [children |-> Cardinality({c \in Units : unit[c].parent = u}), active |-> u \in linked]

SetOperatingUnitCapability(u, c, enabled) ==
    capable' = [capable EXCEPT ![u] = IF enabled THEN @ \cup {c} ELSE @ \ {c}]

HasOperatingUnitCapability(u, c) == c \in capable[u]

\* The chain of parents from u: at most MaxDepth steps, so a cycle ends too.
MaxDepth == 10
Chain(u) ==
    LET up[d \in 0 .. MaxDepth] ==
          IF d = 0 THEN u
          ELSE IF up[d - 1] = NoUnit THEN NoUnit ELSE unit[up[d - 1]].parent
    IN  up

\* The nearest hub, whatever its status; the unit itself counts.
ResolveAncestorHub(u) ==
    LET up == Chain(u)
        at == {d \in 0 .. MaxDepth : up[d] # NoUnit /\ UnitType[up[d]] \in HubTypes}
    IN  IF at = {} THEN NoUnit ELSE up[CHOOSE d \in at : \A e \in at : d <= e]

\* From a root down, at most depth steps, never through a unit twice.
GetOperatingUnitHierarchy(root) ==
    {u \in Units : unit[u].status # "NONE" /\ \E d \in 0 .. MaxDepth : Chain(u)[d] = root}

\* franchises_operating_unit_id_key.
CreateFranchise(f, u, status) ==
    /\ franchise[f].status = "NONE"
    /\ GetFranchiseByOperatingUnit(u) = {}
    /\ franchise' = [franchise EXCEPT ![f] = [status |-> status, unit |-> u, version |-> 1]]

UpdateFranchise(f, expected, status) ==
    /\ franchise[f].version = expected
    /\ franchise' = [franchise EXCEPT ![f].status = status, ![f].version = @ + 1]

\* franchise_agreements_active_idx.
CreateFranchiseAgreement(a, f, status) ==
    /\ agreement[a].status = "NONE"
    /\ status = "ACTIVE" =>
         ~\E b \in Agreements : agreement[b].of = f /\ agreement[b].status = "ACTIVE"
    /\ agreement' = [agreement EXCEPT ![a] = [status |-> status, of |-> f]]

-----------------------------------------------------------------------------
(***************************************************************************)
(* Regions and units.                                                      *)
(***************************************************************************)
createRegion(g, parent) ==
    /\ parent # NoUnit => GetRegionByPublicID(parent)
    /\ CreateRegion(g, parent)
    /\ UNCHANGED <<unit, capable, opening, franchise, agreement, screen>>

\* No version, and any existing region may be the parent; without one the
\* parent stays.
updateRegion(g, status, parent) ==
    /\ parent # NoUnit => GetRegionByPublicID(parent)
    /\ UpdateRegion(g, status, parent)
    /\ UNCHANGED <<unit, capable, opening, franchise, agreement, screen>>

\* The parent must exist; it may be inactive.  The unit is there, for everybody,
\* before its capabilities are.
createUnit(u, parent, caps) ==
    /\ parent # NoUnit => GetOperatingUnitByPublicID(parent)
    /\ CreateOperatingUnit(u, parent)
    /\ opening' = [opening EXCEPT ![u] = caps]
    /\ UNCHANGED <<region, capable, franchise, agreement, screen>>

\* createUnit, one statement for each capability.
createUnitCapability(u, c) ==
    /\ c \in opening[u]
    /\ SetOperatingUnitCapability(u, c, TRUE)
    /\ opening' = [opening EXCEPT ![u] = @ \ {c}]
    /\ UNCHANGED <<unit, region, franchise, agreement, screen>>

\* A statement fails or the server stops: the unit stays, without the rest.
createUnitFails(u) ==
    /\ opening[u] # {}
    /\ opening' = [opening EXCEPT ![u] = {}]
    /\ UNCHANGED <<unit, region, capable, franchise, agreement, screen>>

\* A screen shows a unit (or a franchise) and remembers the row.
readUnit(a, u) ==
    /\ screen[a] = NoScreen /\ GetOperatingUnitByPublicID(u)
    /\ screen' = [screen EXCEPT ![a] = [about |-> u, seen |-> unit[u],
                                        clear |-> FALSE]]
    /\ UNCHANGED <<unit, region, capable, opening, franchise, agreement>>

\* Any other existing unit may be the parent: cycles of two and more can be
\* made.  An INACTIVE unit can be made ACTIVE again, and is edited as it is by a
\* form without a status.
updateUnit(a, status, parent) ==
    LET u == screen[a].about IN
    /\ u \in Units /\ parent # u
    /\ parent # NoUnit => GetOperatingUnitByPublicID(parent)
    /\ status \in {"ACTIVE", "SUSPENDED", unit[u].status}
    /\ UpdateOperatingUnit(u, screen[a].seen.version, status, parent)
    /\ screen' = [screen EXCEPT ![a] = NoScreen]
    /\ UNCHANGED <<region, capable, opening, franchise, agreement>>

\* deactivateUnit, up to the count of references.
deactivateUnit(a, linked) ==
    LET u == screen[a].about
        refs == CountOperatingUnitReferences(u, linked)
    IN  /\ u \in Units /\ ~screen[a].clear
        /\ refs.children = 0 /\ ~refs.active
        /\ screen' = [screen EXCEPT ![a].clear = TRUE]
        /\ UNCHANGED <<unit, region, capable, opening, franchise, agreement>>

\* deactivateUnit, the last statement.
deactivateUnitWrite(a) ==
    /\ screen[a].clear
    /\ DeactivateOperatingUnit(screen[a].about)
    /\ screen' = [screen EXCEPT ![a] = NoScreen]
    /\ UNCHANGED <<region, capable, opening, franchise, agreement>>

\* A conflict, or the administrator leaves the screen.
closeScreen(a) ==
    /\ screen[a] # NoScreen
    /\ screen' = [screen EXCEPT ![a] = NoScreen]
    /\ UNCHANGED <<unit, region, capable, opening, franchise, agreement>>

setCapability(u, c, enabled) ==
    /\ GetOperatingUnitByPublicID(u)
    /\ SetOperatingUnitCapability(u, c, enabled)
    /\ UNCHANGED <<unit, region, opening, franchise, agreement, screen>>

-----------------------------------------------------------------------------
(***************************************************************************)
(* Franchises.                                                             *)
(***************************************************************************)
createFranchise(f, u, status) ==
    /\ GetOperatingUnitByPublicID(u) /\ UnitType[u] = "FRANCHISE_BRANCH"
    /\ CreateFranchise(f, u, status)
    /\ UNCHANGED <<unit, region, capable, opening, agreement, screen>>

readFranchise(a, f) ==
    /\ screen[a] = NoScreen /\ GetFranchiseByPublicID(f)
    /\ screen' = [screen EXCEPT ![a] = [about |-> f, seen |-> franchise[f],
                                        clear |-> FALSE]]
    /\ UNCHANGED <<unit, region, capable, opening, franchise, agreement>>

\* Any status to any status, TERMINATED included.
updateFranchise(a, status) ==
    /\ screen[a].about \in Franchises
    /\ UpdateFranchise(screen[a].about, screen[a].seen.version, status)
    /\ screen' = [screen EXCEPT ![a] = NoScreen]
    /\ UNCHANGED <<unit, region, capable, opening, agreement>>

createAgreement(a, f, status) ==
    /\ GetFranchiseByPublicID(f)
    /\ CreateFranchiseAgreement(a, f, status)
    /\ UNCHANGED <<unit, region, capable, opening, franchise, screen>>

-----------------------------------------------------------------------------
NetworkNext(linked) ==
    \/ \E g \in Regions, parent \in Regions \cup {NoUnit} :
          createRegion(g, parent) \/ \E s \in {"ACTIVE", "INACTIVE"} : updateRegion(g, s, parent)
    \/ \E u \in Units, parent \in Units \cup {NoUnit} : createUnit(u, parent, {"DELIVERY"})
    \/ \E u \in Units, c \in Capabilities :
          createUnitCapability(u, c) \/ \E on \in BOOLEAN : setCapability(u, c, on)
    \/ \E u \in Units : createUnitFails(u)
    \/ \E a \in Admins :
          \/ \E u \in Units : readUnit(a, u)
          \/ \E s \in {"ACTIVE", "SUSPENDED", "INACTIVE"}, parent \in Units \cup {NoUnit} :
                updateUnit(a, s, parent)
          \/ deactivateUnit(a, linked) \/ deactivateUnitWrite(a) \/ closeScreen(a)
          \/ \E f \in Franchises : readFranchise(a, f)
          \/ \E s \in FranchiseStatuses : updateFranchise(a, s)
    \/ \E f \in Franchises, u \in Units : createFranchise(f, u, "ONBOARDING")
    \/ \E a \in Agreements, f \in Franchises, s \in {"DRAFT", "ACTIVE"} :
          createAgreement(a, f, s)

\* The type invariant of the network.
NetworkTypeOK ==
    /\ unit \in [Units -> UnitRow] /\ region \in [Regions -> RegionRow]
    /\ capable \in [Units -> SUBSET Capabilities] /\ opening \in [Units -> SUBSET Capabilities]
    /\ franchise \in [Franchises -> FranchiseRow]
    /\ agreement \in [Agreements -> AgreementRow]

\* "This unit was modified by someone else" (updateUnit): a form that is saved
\* overwrites nothing its administrator has not seen, a deactivation that was
\* committed in the meantime included; the same for a franchise.
StaleFormRefused ==
    [][\A a \in Admins :
          screen[a] # NoScreen /\ screen'[a] = NoScreen /\ ~screen[a].clear =>
            /\ \A u \in Units : screen[a].about = u =>
                 unit'[u] = unit[u] \/ unit[u] = screen[a].seen
            /\ \A f \in Franchises : screen[a].about = f =>
                 franchise'[f] = franchise[f] \/ franchise[f] = screen[a].seen]_networkVars

-----------------------------------------------------------------------------
(***************************************************************************)
(* Courier products (internal/product): created, edited with optimistic    *)
(* locking, withdrawn.  A withdrawn product keeps its rates, routes and    *)
(* shipments; it only stops being found for new bookings.                  *)
(*                                                                         *)
(* Left out: limits of size, weight and value, the effective dates.        *)
(***************************************************************************)
CONSTANT Products

VARIABLE product      \* product[p]: the courier_services row

ProductRow == [status : {"NONE", "ACTIVE", "INACTIVE"}, version : Nat]

ProductInit == product = [p \in Products |-> [status |-> "NONE", version |-> 0]]

GetCourierServiceByCode(p) == product[p].status # "NONE"
GetActiveCourierServiceByCode(p) == product[p].status = "ACTIVE"

\* courier_services_code_unique.
CreateCourierService(p) ==
    /\ product[p].status = "NONE"
    /\ product' = [product EXCEPT ![p] = [status |-> "ACTIVE", version |-> 1]]

UpdateCourierService(p, expected, status) ==
    /\ product[p].version = expected
    /\ product' = [product EXCEPT ![p].status = status, ![p].version = @ + 1]

DeactivateCourierService(p) ==
    /\ product[p].status = "ACTIVE"
    /\ product' = [product EXCEPT ![p].status = "INACTIVE", ![p].version = @ + 1]

GetActiveByCode(p) == GetActiveCourierServiceByCode(p)

createProduct(p) == CreateCourierService(p)

\* The version of the form; an INACTIVE product may be made ACTIVE again.
updateProduct(p, expected, status) ==
    /\ GetCourierServiceByCode(p)
    /\ UpdateCourierService(p, expected, status)

\* The references are counted for the answer; none of them refuses.
deactivateProduct(p) ==
    /\ GetCourierServiceByCode(p)
    /\ DeactivateCourierService(p)

\* A form is sent with the version it shows or an older one.
ProductNext ==
    \E p \in Products :
        \/ createProduct(p) \/ deactivateProduct(p)
        \/ \E status \in {"ACTIVE", "INACTIVE"}, seen \in 0 .. product[p].version :
              updateProduct(p, seen, status)

=============================================================================
