--------------------------- MODULE Serviceability ---------------------------
(***************************************************************************)
(* Serviceability and routing (internal/serviceability): service areas,    *)
(* allow and deny rules, routes with their legs, overrides and closures,   *)
(* and the resolver that turns an origin, a destination and a product into *)
(* a plan.  Resolve is a row of separate reads: administrators may change  *)
(* the network between any two of them.                                    *)
(*                                                                         *)
(* Rows have ids in the order they were created; a resolution query is     *)
(* ordered and ends in the id.  Left out: effective dates and windows (a   *)
(* row is in force while it is ACTIVE), zones and states as scopes of a    *)
(* rule, hours and the promised time, the stored explanation.              *)
(***************************************************************************)
EXTENDS Network, Sequences

CONSTANTS
    Places,        \* PIN codes of the platform's data set
    Unlisted,      \* something that is typed as a PIN code and is not one
    AreaForms, RuleForms, RouteForms, OverrideForms, ClosureForms,
                   \* the rows administrators may ask for
    MaxRows,       \* bound: rows of each table
    Lanes,         \* <<origin, destination>> that customers ask about
    Asks           \* requests

NoScope == "any"          \* a null scope column

VARIABLES areas, rules, routes, overrides, closures,
          ask      \* ask[r]: a resolution under way

config == <<areas, rules, routes, overrides, closures>>
serviceVars == <<networkVars, product, config, ask>>

ServiceArea == [unit : Units, pin : Places, type : {"PICKUP", "DELIVERY", "BOTH"},
                priority : Nat]
ServiceabilityRule == [type : {"ALLOW", "DENY"}, product : Products \cup {NoScope},
                       from : Places \cup {NoScope}, to : Places \cup {NoScope}]
RouteDefinition == [origin : Units, destination : Units, product : Products \cup {NoScope},
                    fallback : BOOLEAN, priority : Nat, legs : Seq(Units \X Units)]
RoutingOverride == [from : Places, to : Places, product : Products \cup {NoScope},
                    priority : Nat, route : Nat]
TemporaryClosure == [at : Units \cup Places, type : {"FULL", "PICKUP_ONLY", "DELIVERY_ONLY"}]

ASSUME ServiceAssumption ==
    /\ AreaForms \subseteq ServiceArea /\ RuleForms \subseteq ServiceabilityRule
    /\ RouteForms \subseteq RouteDefinition /\ OverrideForms \subseteq RoutingOverride
    /\ ClosureForms \subseteq TemporaryClosure
    /\ MaxRows \in Nat /\ Lanes \subseteq (Places \cup {Unlisted}) \X (Places \cup {Unlisted})

\* The Result while it is put together; known is the number of closures when
\* the request came in, blind says that the lookup of closures failed.
NoAsk == [stage |-> "idle", from |-> Unlisted, to |-> Unlisted, product |-> NoScope,
          origin |-> NoUnit, dest |-> NoUnit, source |-> "", route |-> 0,
          legs |-> << >>, known |-> 0, blind |-> FALSE]

ServiceInit ==
    /\ areas = << >> /\ rules = << >> /\ routes = << >> /\ overrides = << >>
    /\ closures = << >>
    /\ ask = [r \in Asks |-> NoAsk]

-----------------------------------------------------------------------------
(***************************************************************************)
(* The statements that write.                                              *)
(***************************************************************************)
Row(form) == [form |-> form, status |-> "ACTIVE"]
InForce(table) == {i \in DOMAIN table : table[i].status = "ACTIVE"}

\* service_areas_unique_active_idx: one ACTIVE row of a unit, place and type.
SameArea(f, g) == f.unit = g.unit /\ f.pin = g.pin /\ f.type = g.type

CreateServiceArea(f) ==
    /\ ~\E i \in InForce(areas) : SameArea(areas[i].form, f)
    /\ areas' = Append(areas, Row(f))

UpdateServiceArea(i, status, priority) ==
    /\ status = "ACTIVE" =>
         ~\E k \in InForce(areas) \ {i} : SameArea(areas[k].form, areas[i].form)
    /\ areas' = [areas EXCEPT ![i].status = status, ![i].form.priority = priority]

CreateServiceabilityRule(f) == rules' = Append(rules, Row(f))
SetServiceabilityRuleStatus(i, status) == rules' = [rules EXCEPT ![i].status = status]

\* The n-th leg of the form is the row with sequence number n.
CreateRouteLeg(f, n) == f.legs[n]

CreateRouteDefinition(f) ==
    /\ f.origin # f.destination
    /\ routes' = Append(routes, Row([f EXCEPT !.legs = [n \in DOMAIN @ |-> CreateRouteLeg(f, n)]]))

UpdateRouteDefinition(i, status) == routes' = [routes EXCEPT ![i].status = status]
CreateRoutingOverride(f) == overrides' = Append(overrides, Row(f))
SetRoutingOverrideStatus(i) == overrides' = [overrides EXCEPT ![i].status = "INACTIVE"]
CreateTemporaryClosure(f) == closures' = Append(closures, Row(f))

CancelTemporaryClosure(i) ==
    /\ closures[i].status = "ACTIVE"
    /\ closures' = [closures EXCEPT ![i].status = "CANCELLED"]

\* What CountOperatingUnitReferences sees.
LinkedUnits ==
    {areas[i].form.unit : i \in InForce(areas)} \cup
    UNION {{routes[i].form.origin, routes[i].form.destination} : i \in InForce(routes)}

-----------------------------------------------------------------------------
(***************************************************************************)
(* Administration.                                                         *)
(***************************************************************************)
\* A unit of any status will do.
createServiceArea(f) ==
    /\ Len(areas) < MaxRows /\ GetOperatingUnitByPublicID(f.unit)
    /\ CreateServiceArea(f)
    /\ UNCHANGED <<rules, routes, overrides, closures>>

updateServiceArea(i, status, priority) ==
    /\ UpdateServiceArea(i, status, priority)
    /\ UNCHANGED <<rules, routes, overrides, closures>>

\* A rule without any scope is refused.
createRule(f) ==
    /\ Len(rules) < MaxRows
    /\ f.product # NoScope \/ f.from # NoScope \/ f.to # NoScope
    /\ f.product # NoScope => GetCourierServiceByCode(f.product)
    /\ CreateServiceabilityRule(f)
    /\ UNCHANGED <<areas, routes, overrides, closures>>

setRuleStatus(i, status) ==
    /\ SetServiceabilityRuleStatus(i, status)
    /\ UNCHANGED <<areas, routes, overrides, closures>>

\* At least one leg; that they follow one another is not looked at.
createRoute(f) ==
    /\ Len(routes) < MaxRows /\ f.legs # << >>
    /\ \A u \in {f.origin, f.destination} : GetOperatingUnitByPublicID(u)
    /\ f.product # NoScope => GetCourierServiceByCode(f.product)
    /\ CreateRouteDefinition(f)
    /\ UNCHANGED <<areas, rules, overrides, closures>>

updateRoute(i, status) ==
    /\ UpdateRouteDefinition(i, status)
    /\ UNCHANGED <<areas, rules, overrides, closures>>

\* Any route, between any facilities, of any status.
createOverride(f) ==
    /\ Len(overrides) < MaxRows /\ f.route \in DOMAIN routes
    /\ CreateRoutingOverride(f)
    /\ UNCHANGED <<areas, rules, routes, closures>>

cancelOverride(i) ==
    /\ SetRoutingOverrideStatus(i)
    /\ UNCHANGED <<areas, rules, routes, closures>>

createClosure(f) ==
    /\ Len(closures) < MaxRows
    /\ f.at \in Units => GetOperatingUnitByPublicID(f.at)
    /\ CreateTemporaryClosure(f)
    /\ UNCHANGED <<areas, rules, routes, overrides>>

cancelClosure(i) ==
    /\ CancelTemporaryClosure(i)
    /\ UNCHANGED <<areas, rules, routes, overrides>>

-----------------------------------------------------------------------------
(***************************************************************************)
(* The statements that read.  A query's order is a key per row: the rows   *)
(* are compared by the key's numbers, smaller first, and then by id.       *)
(***************************************************************************)
Before(j, k) ==      \* sequences of numbers of one length
    \E n \in DOMAIN j : j[n] < k[n] /\ \A m \in 1 .. n - 1 : j[m] = k[m]

First(found, Key(_)) ==
    IF found = {} THEN 0
    ELSE CHOOSE i \in found : \A k \in found \ {i} : Before(Append(Key(i), i), Append(Key(k), k))

Flag(b) == IF b THEN 0 ELSE 1

ResolveServingUnits(p, type) ==
    LET found == {i \in InForce(areas) :
                     LET f == areas[i].form IN
                     f.pin = p /\ f.type \in {type, "BOTH"} /\ unit[f.unit].status = "ACTIVE"}
        Key(i) == <<-areas[i].form.priority, Flag(areas[i].form.type = type)>>
        i == First(found, Key)
    IN  IF i = 0 THEN NoUnit ELSE areas[i].form.unit

FindActiveClosures(ats) == {i \in InForce(closures) : closures[i].form.at \in ats}

MatchServiceabilityRules(from, to, p) ==
    {i \in InForce(rules) : /\ rules[i].form.product \in {NoScope, p}
                            /\ rules[i].form.from \in {NoScope, from}
                            /\ rules[i].form.to \in {NoScope, to}}

MatchRoutingOverride(from, to, p) ==
    LET found == {i \in InForce(overrides) :
                     LET f == overrides[i].form IN
                     /\ f.from = from /\ f.to = to /\ f.product \in {NoScope, p}
                     /\ f.route \in InForce(routes)}
        Key(i) == <<Flag(overrides[i].form.product # NoScope), -overrides[i].form.priority>>
        i == First(found, Key)
    IN  IF i = 0 THEN 0 ELSE overrides[i].form.route

MatchRoutes(origin, destination, p) ==
    LET found == {i \in InForce(routes) :
                     LET f == routes[i].form IN
                     f.origin = origin /\ f.destination = destination /\ f.product \in {NoScope, p}}
        Key(i) == LET f == routes[i].form
                  IN  <<Flag(f.product # NoScope), Flag(~f.fallback), -f.priority>>
    IN  First(found, Key)

GetRouteDefinitionByID(i) == routes[i].form
ListRouteLegs(i) == routes[i].form.legs

-----------------------------------------------------------------------------
(***************************************************************************)
(* Resolve: one action per read, each with its own way out.                *)
(***************************************************************************)
notServiceable(r) == ask' = [ask EXCEPT ![r].stage = "refused"]

Resolve(r, lane, p) ==
    /\ ask[r].stage = "idle"
    /\ LET q == [NoAsk EXCEPT !.from = lane[1], !.to = lane[2], !.product = p,
                              !.known = Len(closures), !.stage =
                 IF lane[1] \in Places /\ lane[2] \in Places /\ GetActiveByCode(p)
                 THEN "origin" ELSE "refused"]
       IN  ask' = [ask EXCEPT ![r] = q]

resolveServingUnit(r) ==
    LET q == ask[r]
        u == IF q.stage = "origin" THEN ResolveServingUnits(q.from, "PICKUP")
                                   ELSE ResolveServingUnits(q.to, "DELIVERY")
    IN  /\ q.stage \in {"origin", "destination"}
        /\ IF u = NoUnit THEN notServiceable(r)
           ELSE ask' = [ask EXCEPT ![r] = IF q.stage = "origin"
                            THEN [q EXCEPT !.stage = "destination", !.origin = u]
                            ELSE [q EXCEPT !.stage = "closures", !.dest = u]]

\* Does closure c stop this lane?
Stops(c, q) ==
    LET f == closures[c].form IN
    \/ f.at \in {q.origin, q.from} /\ f.type \in {"FULL", "PICKUP_ONLY"}
    \/ f.at \in {q.dest, q.to} /\ f.type \in {"FULL", "DELIVERY_ONLY"}

LaneOpen(r) == ask' = [ask EXCEPT ![r].stage = "rules"]

\* "closure lookup failed; treating lane as open": Resolve goes on.
LookupFailed(r) == ask' = [ask EXCEPT ![r].stage = "rules", ![r].blind = TRUE]

\* Mutant: only a FULL closure counts.
checkFullClosures(r) ==
    LET q == ask[r] IN
    /\ q.stage = "closures"
    /\ \/ IF \E c \in FindActiveClosures({q.origin, q.dest, q.from, q.to}) :
                closures[c].form.type = "FULL"
          THEN notServiceable(r) ELSE LaneOpen(r)
       \/ LookupFailed(r)

checkClosures(r) ==
    LET q == ask[r] IN
    /\ q.stage = "closures"
    /\ \/ IF \E c \in FindActiveClosures({q.origin, q.dest, q.from, q.to}) : Stops(c, q)
          THEN notServiceable(r) ELSE LaneOpen(r)
       \/ LookupFailed(r)

\* Any other read that fails ends the request with an error.
resolveFails(r) ==
    /\ ask[r].stage \in {"origin", "destination", "rules", "override", "hubs", "detail"}
    /\ notServiceable(r)

\* Any DENY refuses; an ALLOW only adds restrictions.
applyRules(r) ==
    LET q == ask[r] IN
    /\ q.stage = "rules"
    /\ IF \E i \in MatchServiceabilityRules(q.from, q.to, q.product) : rules[i].form.type = "DENY"
       THEN notServiceable(r)
       ELSE ask' = [ask EXCEPT ![r].stage = "override"]

resolveOverride(r) ==
    LET q == ask[r]
        i == MatchRoutingOverride(q.from, q.to, q.product)
    IN  /\ q.stage = "override"
        /\ ask' = [ask EXCEPT ![r] =
              IF i = 0 THEN [q EXCEPT !.stage = "hubs"]
              ELSE [q EXCEPT !.stage = "detail", !.source = "OVERRIDE", !.route = i]]

sourceOf(i) == IF routes[i].form.fallback THEN "FALLBACK"
               ELSE IF routes[i].form.product # NoScope THEN "SERVICE_ROUTE" ELSE "GENERIC_ROUTE"

\* ResolveHub twice, then the routes between the hubs.
resolveRoute(r) ==
    LET q == ask[r]
        from == ResolveAncestorHub(q.origin)
        to == ResolveAncestorHub(q.dest)
        i == MatchRoutes(from, to, q.product)
    IN  /\ q.stage = "hubs"
        /\ IF from # NoUnit /\ from = to
           THEN ask' = [ask EXCEPT ![r] = [q EXCEPT !.stage = "answered", !.source = "LOCAL",
                                                    !.legs = <<<<q.origin, q.dest>>>>]]
           ELSE IF from = NoUnit \/ to = NoUnit \/ i = 0 THEN notServiceable(r)
           ELSE ask' = [ask EXCEPT ![r] = [q EXCEPT !.stage = "detail", !.source = sourceOf(i),
                                                    !.route = i]]

\* A first and a last mile where the route does not start or end at the branch.
attachRouteDetail(r) ==
    LET q == ask[r]
        legs == ListRouteLegs(q.route)
        head == IF legs[1][1] # q.origin THEN <<<<q.origin, legs[1][1]>>>> ELSE << >>
        end == legs[Len(legs)][2]
        tail == IF end # q.dest THEN <<<<end, q.dest>>>> ELSE << >>
    IN  /\ q.stage = "detail"
        /\ ask' = [ask EXCEPT ![r].stage = "answered", ![r].legs = head \o legs \o tail]

\* The customer has the answer.
Answered(r) ==
    /\ ask[r].stage \in {"answered", "refused"}
    /\ ask' = [ask EXCEPT ![r] = NoAsk]

ResolvePickupBranch(p) == ResolveServingUnits(p, "PICKUP")
ResolveDeliveryBranch(p) == ResolveServingUnits(p, "DELIVERY")

-----------------------------------------------------------------------------
AdminNext ==
    \/ \E f \in AreaForms : createServiceArea(f)
    \/ \E i \in DOMAIN areas, s \in {"ACTIVE", "INACTIVE"} :
          updateServiceArea(i, s, areas[i].form.priority)
    \/ \E f \in RuleForms : createRule(f)
    \/ \E i \in DOMAIN rules, s \in {"ACTIVE", "INACTIVE"} : setRuleStatus(i, s)
    \/ \E f \in RouteForms : createRoute(f)
    \/ \E i \in DOMAIN routes, s \in {"ACTIVE", "INACTIVE"} : updateRoute(i, s)
    \/ \E f \in OverrideForms : createOverride(f)
    \/ \E i \in DOMAIN overrides : cancelOverride(i)
    \/ \E f \in ClosureForms : createClosure(f)
    \/ \E i \in DOMAIN closures : cancelClosure(i)

AskNext ==
    \E r \in Asks :
        \/ \E lane \in Lanes, p \in Products : Resolve(r, lane, p)
        \/ resolveServingUnit(r) \/ checkClosures(r) \/ applyRules(r) \/ resolveFails(r)
        \/ resolveOverride(r) \/ resolveRoute(r) \/ attachRouteDetail(r) \/ Answered(r)

ServiceNext ==
    \/ AdminNext /\ UNCHANGED <<networkVars, product, ask>>
    \/ AskNext /\ UNCHANGED <<networkVars, product, config>>
    \/ NetworkNext(LinkedUnits) /\ UNCHANGED <<product, config, ask>>
    \/ ProductNext /\ UNCHANGED <<networkVars, config, ask>>

ServiceSpec == NetworkInit /\ ProductInit /\ ServiceInit /\ [][ServiceNext]_serviceVars

\* "A PICKUP_ONLY closure blocks the origin; DELIVERY_ONLY blocks the
\* destination; FULL blocks either end it touches" (checkClosures): whatever
\* administrators do between the reads of Resolve, no closure that stands from
\* the question to the answer stops an end of a plan that is given out, unless
\* the lookup of closures failed.  The facilities in between are not looked at.
PlanHonoursClosures ==
    \A r \in Asks : ask[r].stage = "answered" /\ ~ask[r].blind =>
        \A c \in 1 .. ask[r].known : closures[c].status = "ACTIVE" => ~Stops(c, ask[r])

=============================================================================
