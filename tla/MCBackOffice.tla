---------------------------- MODULE MCBackOffice ----------------------------
(***************************************************************************)
(* What the back office keeps in order: the hub's counts (HubOps), the PIN *)
(* code and zone data (Geography), facilities and products (Network),      *)
(* routes (Serviceability) and prices (Pricing).  The parts share no row:  *)
(* their steps only interleave, and a behaviour of this instance works on  *)
(* one of them.  Routing starts from a network that the network's own      *)
(* operations can set up, two hubs with a branch each, and changes little  *)
(* of it.                                                                  *)
(***************************************************************************)
EXTENDS HubOps, Geography, Serviceability, Pricing

CONSTANT MaxEdits        \* bound: edits of units, franchises and products

VARIABLE part            \* the part this behaviour works on

vars == <<hubVars, geographyVars, serviceVars, pricingVars>>

HubStep == HubNext /\ UNCHANGED <<geographyVars, serviceVars, pricingVars>>
GeographyStep == GeographyNext /\ UNCHANGED <<hubVars, serviceVars, pricingVars>>
PricingStep == PricingNext /\ UNCHANGED <<hubVars, geographyVars, serviceVars>>

-----------------------------------------------------------------------------
\* Hub operations: a bag of two parcels and a manifest of one.
MCDeclared == [x \in {"bag", "manifest"} |-> IF x = "bag" THEN {"c1", "c2"} ELSE {"c3"}]

\* Geography: a file of PIN codes with a bad row, and one of mappings.
Record(p, z, ok) == [pin |-> p, zone |-> z, remote |-> FALSE, valid |-> ok]
MCImportType == [i \in {"pins", "zones"} |-> IF i = "pins" THEN "PINCODE" ELSE "ZONE_MAPPING"]
MCFileRows == [i \in {"pins", "zones"} |->
    IF i = "pins" THEN <<Record("p1", "z1", TRUE), Record("p1", "z1", FALSE), Record("p2", "z1", TRUE)>>
                  ELSE <<Record("p1", "z1", TRUE), Record("p2", "z1", TRUE)>>]

\* Network and routing.
MCUnitType == [u \in {"h1", "h2", "b1", "b2"} |->
    CASE u \in {"h1", "h2"} -> "TRANSIT_HUB" [] u = "b2" -> "FRANCHISE_BRANCH" [] OTHER -> "BRANCH"]
Area(u, p, t, n) == [unit |-> u, pin |-> p, type |-> t, priority |-> n]
MCAreaForms == {Area("b1", "p1", "BOTH", 1), Area("b2", "p2", "DELIVERY", 1), Area("b2", "p1", "PICKUP", 1)}
MCRuleForms == {[type |-> "DENY", product |-> "express", from |-> "p1", to |-> NoScope]}
Route(from, to, p, fallback, legs) ==
    [origin |-> from, destination |-> to, product |-> p, fallback |-> fallback,
     priority |-> 1, legs |-> legs]
MCRouteForms == {Route("h1", "h2", NoScope, FALSE, <<<<"h1", "h2">>>>),
                 Route("h1", "h2", "express", TRUE, <<<<"h1", "b1">>, <<"b1", "h2">>>>)}
MCOverrideForms == {[from |-> "p1", to |-> "p2", product |-> NoScope, priority |-> 1, route |-> 1]}
MCClosureForms == {[at |-> "b2", type |-> "DELIVERY_ONLY"], [at |-> "p1", type |-> "PICKUP_ONLY"]}
MCLanes == {<<"p1", "p2">>, <<"p1", "nowhere">>}

Facility(parent) == [status |-> "ACTIVE", parent |-> parent, version |-> 1]
RoutingInit ==
    /\ unit = [u \in Units |-> Facility(CASE u = "b1" -> "h1" [] u = "b2" -> "h2" [] OTHER -> NoUnit)]
    /\ region = [g \in Regions |-> [status |-> "NONE", parent |-> NoUnit]]
    /\ capable = [u \in Units |-> {"DELIVERY"}] /\ opening = [u \in Units |-> {}]
    /\ franchise = [f \in Franchises |-> [status |-> "NONE", unit |-> NoUnit, version |-> 0]]
    /\ agreement = [a \in Agreements |-> [status |-> "NONE", of |-> NoUnit]]
    /\ screen = [a \in Admins |-> NoScreen]
    /\ product = [p \in Products |-> [status |-> "ACTIVE", version |-> 1]]

\* Pricing: the default card and a customer's own.
MCCardForm == [c \in {"retail", "acme"} |->
    IF c = "retail" THEN [scope |-> "RETAIL", owner |-> "nobody", default |-> TRUE]
                    ELSE [scope |-> "BUSINESS", owner |-> "acme", default |-> FALSE]]
MCRateForms == {[grams |-> 500, price |-> 100, step |-> 500, stepPrice |-> 30, minimum |-> 500]}
MCSlabForms == {[from |-> 0, to |-> 1000, price |-> 80]}
Charge(type, calc, value, basis, taxable, when) ==
    [type |-> type, calc |-> calc, value |-> value, basis |-> basis, taxable |-> taxable,
     when |-> when, min |-> 0, max |-> 500, priority |-> 1]
MCSurchargeForms ==
    {Charge("INSURANCE", "PERCENTAGE", 200, "DECLARED_VALUE", TRUE, << >>),
     Charge("COD", "PERCENTAGE", 200, "COD_AMOUNT", TRUE, [f \in {"cod"} |-> TRUE]),
     Charge("REMOTE", "PER_KG", 25, "FREIGHT", FALSE, [f \in {"remote"} |-> TRUE])}
MCDiscountForms ==
    {[calc |-> "FIXED", value |-> 400, basis |-> "FREIGHT_PLUS_SURCHARGES", minimum |-> 0,
      cap |-> 1000, stackable |-> FALSE, priority |-> 1]}
MCStateRates == {[grams |-> 500, price |-> 60, step |-> 500, stepPrice |-> 20, minimum |-> 0]}
MCTaxForms == {[code |-> "CGST", bp |-> 900], [code |-> "SGST", bp |-> 900]}
Parcel(grams, insured, value, owner, kind, conceded) ==
    [packages |-> <<[grams |-> grams, mm3 |-> 2000000]>>, value |-> value, cod |-> 5000,
     insured |-> insured, features |-> {"remote", "cod"}, owners |-> {owner},
     concession |-> [kind |-> kind, value |-> conceded]]
MCParcels == {Parcel(600, TRUE, 10000, "acme", "FIXED", 250),
              Parcel(1600, TRUE, 10000, "other", "PERCENTAGE", 1000),
              Parcel(600, FALSE, 0, "acme", "NONE", 0), Parcel(600, TRUE, 0, "other", "NONE", 0)}

-----------------------------------------------------------------------------
MCInit ==
    /\ HubInit /\ GeographyInit /\ PricingInit /\ ServiceInit
    /\ part \in {"hub", "geography", "network", "routing", "prices", "dates"}
    /\ IF part = "routing" THEN RoutingInit ELSE NetworkInit /\ ProductInit

\* Edits of units, franchises and products after their creation.
Later(n) == IF n > 1 THEN n - 1 ELSE 0
Edits ==
    MapThenSumSet(LAMBDA u : Later(unit[u].version), Units)
    + MapThenSumSet(LAMBDA f : Later(franchise[f].version), Franchises)
    + MapThenSumSet(LAMBDA p : Later(product[p].version), Products)

\* A count, and the first of its exceptions worked on.
HubOnly == HubStep /\ \A i \in DOMAIN exc \ {1} : exc'[i] = exc[i]

\* Lookups and the administration of the first PIN code.  One import at a time
\* is under way: lookups wait for its handlers, all the rest for its upload.
Uploading == \E i \in Imports : job[i].upload \in {"staging", "staged", "counted"}
Running == \E h \in Handlers : walk[h] # NotRunning
GeographyOnly ==
    /\ GeographyStep
    /\ Uploading => UNCHANGED <<tables, cached, reader, walk>>
    /\ Running => UNCHANGED <<zone, reader>> /\ \A i \in Imports : job'[i].upload = job[i].upload
    /\ job["pins"].upload = "none" => job'["zones"].upload = "none"
    /\ job["zones"].upload # "none" => \A h \in Handlers : walk'[h].import # "pins"
    /\ \A r \in Readers : reader'[r] # Idle =>
         (reader'[r].what = "zone" <=> job["zones"].upload = "over")
    /\ job'["zones"].upload # "none" => pin'["p1"].status # "INACTIVE" /\ cached'["p1"].status = Absent
    /\ \A r \in Readers : reader'[r].pin # "p2"
    /\ pin'["p2"].status # "INACTIVE"
    /\ walk'["w2"] # walk["w2"] => walk["w1"] # NotRunning \/ walk["w2"] # NotRunning

\* The network alone: one hub, the franchise's branch and what hangs on them;
\* what no form shows is changed before a form is opened.  While a unit waits for
\* its capabilities other units and capabilities are written.
NetworkOnly ==
    /\ NetworkNext(LinkedUnits) /\ UNCHANGED <<product, config, ask>>
    /\ \A u \in {"h2", "b1"} : unit'[u].status = "NONE"
    /\ Edits' <= MaxEdits
    /\ unit' # unit => \A g \in Regions : region[g].status = "INACTIVE"
    /\ \A g \in Regions : region'[g].parent = NoUnit
    /\ unit'["h1"].parent = NoUnit /\ unit'["b2"].parent # "b2"
    /\ (\E u \in Units : unit[u].version > 1) => UNCHANGED <<capable, opening, agreement>>
    /\ \A u \in Units : capable'[u] \in {{}, {"DELIVERY"}}
    /\ capable["b2"] # {} => capable'["b2"] # {}
    /\ (\E u \in Units : opening[u] # {}) => UNCHANGED <<region, franchise, agreement, screen>>
    /\ unit'["b2"].status # "NONE" => capable'["h1"] # {}
    /\ \A f \in Franchises : franchise'[f].status \notin {"SUSPENDED", "TERMINATED"}

\* Routing: of the network, only the first branch is edited, by one
\* administrator, and at most one row is out of force.
RoutingOnly ==
    /\ ServiceNext
    /\ Edits' < MaxEdits
    /\ Len(rules') + Len(overrides') <= 1 /\ Len(closures') <= 1
    /\ Cardinality(InForce(areas')) + Cardinality(InForce(routes')) + 1
         >= Len(areas') + Len(routes')
    /\ (areas # << >> \/ routes # << >>) => UNCHANGED <<unit, screen, product>>
    /\ (\E a \in Admins : screen'[a] # NoScreen) => UNCHANGED config
    /\ routes' # << >> => Len(areas') = MaxRows
    /\ overrides' \o rules' \o closures' # << >> => routes' # << >>
    /\ rules' # << >> \/ Edits' > 0 => closures' = << >>
    /\ \A i \in DOMAIN routes' : routes'[i].form.fallback <=> i = 2
    /\ Edits' > 0 => unit'["b1"].status = "INACTIVE" \/ \E p \in Products : product'[p].status = "INACTIVE"
    /\ UNCHANGED <<region, capable, opening, franchise, agreement>>
    /\ \A u \in Units : unit'[u].parent = unit[u].parent
    /\ \A u \in Units \ {"b1"} : unit'[u] = unit[u] /\ \A a \in Admins : screen'[a].about # u
    /\ screen'["m2"] = NoScreen

\* Prices: one version of the default card, quoted on its first day.
PricesOnly ==
    /\ PricingStep /\ UNCHANGED today
    /\ Len(version') <= 1 /\ card'["acme"] = "NONE"
    /\ \A v \in DOMAIN version' : version'[v].from = 1 /\ version'[v].to = Forever

\* Dates: up to three versions of the two cards, that differ in their dates.
DatesOnly ==
    /\ PricingStep /\ UNCHANGED <<tax, stateRate>>
    /\ \A v \in DOMAIN tariff' : tariff'[v] = [NoRows EXCEPT !.rate = tariff'[v].rate]
    /\ card'["acme"] # "NONE" => version' # << >>
    /\ quote # NoQuote => UNCHANGED <<card, version, tariff>>

MCNext ==
    /\ UNCHANGED part
    /\ \/ part = "hub" /\ HubOnly
       \/ part = "geography" /\ GeographyOnly
       \/ part = "network" /\ NetworkOnly /\ UNCHANGED <<hubVars, geographyVars, pricingVars>>
       \/ part = "routing" /\ RoutingOnly /\ UNCHANGED <<hubVars, geographyVars, pricingVars>>
       \/ part = "prices" /\ PricesOnly
       \/ part = "dates" /\ DatesOnly

MCSpec == MCInit /\ [][MCNext]_<<vars, part>>

=============================================================================
