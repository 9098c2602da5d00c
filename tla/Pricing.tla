------------------------------- MODULE Pricing ------------------------------
(***************************************************************************)
(* Pricing (internal/pricing): rate cards, their dated versions with the   *)
(* rates, slabs, surcharges and discounts of each, tax rules, and the      *)
(* engine that quotes a parcel.  Every handler writes with one statement,  *)
(* activation with two in one transaction.                                 *)
(*                                                                         *)
(* One lane and one product; amounts are small numbers of minor units and  *)
(* percentages are basis points.  Left out: several currencies, tax rules  *)
(* by state, the domestic tariff tables that only migrations load,         *)
(* package types, line items and explanations.                             *)
(***************************************************************************)
EXTENDS Integers, Sequences, FiniteSets, SequencesExt

CONSTANTS
    Cards, CardForm,      \* rate cards, and scope, owner and isDefault of each
    Dates,                \* 1 .. n
    MaxVersions,          \* bound: rate_card_versions
    RateForms, SlabForms, SurchargeForms, DiscountForms,  \* rows of a version
    TaxForms, StateRates, \* tax rules: code and percent; base rates of the state
    MaxRowsOf,            \* bound: rows of a version
    Parcels,              \* what is quoted: packages, declared value, wishes
    Rounding, Divisor,    \* of the product: granularity, volumetric divisor,
    MinWeight,            \*   least weight and
    InsuranceAllowed,     \*   whether it may be insured,
    InsurableUpTo         \*   to which declared value

VARIABLES
    today,
    card,        \* card[c]: rate_cards.status
    version,     \* rate_card_versions, in order of their ids
    tariff,      \* tariff[v]: the pricing rows of version v
    tax,         \* tax_rules, in order of their ids
    stateRate,   \* the state's base rate, or NoRate
    quote        \* the last quote

NoRate == << >>          \* a rate is a sequence of one row, or none
NoQuote == [charges |-> 0, discount |-> 0, premium |-> 0, taxed |-> 0, total |-> 0, version |-> 0]
VersionStatuses == {"DRAFT", "ACTIVE", "SUPERSEDED", "ARCHIVED"}
Forever == Cardinality(Dates) + 1      \* a null effective_to

RateCardVersion == [card : Cards, status : VersionStatuses, from : Dates,
                    to : 1 .. Forever, activated : BOOLEAN]
NoRows == [rate |-> NoRate, slabs |-> << >>, surcharges |-> << >>, discounts |-> << >>]

\* A zone's or a state's rate.
BaseRate == [grams : Nat, price : Nat, step : Nat \ {0}, stepPrice : Nat, minimum : Nat]

\* What the desk may concede on a quote (InquiryDiscount).
Concessions == {"NONE", "PERCENTAGE", "FIXED"}

ASSUME PricingAssumption ==
    /\ IsFiniteSet(Dates) /\ Dates = 1 .. Cardinality(Dates)
    /\ MaxVersions \in Nat /\ MaxRowsOf \in Nat
    /\ Rounding \in Nat \ {0} /\ Divisor \in Nat \ {0}
    /\ RateForms \subseteq BaseRate /\ StateRates \subseteq BaseRate
    /\ SlabForms \subseteq [from : Nat, to : Nat, price : Nat]
    /\ \A f \in SurchargeForms : /\ f.value \in Nat /\ f.min \in Nat /\ f.max \in Nat
                                 /\ f.priority \in Nat /\ f.taxable \in BOOLEAN
    /\ \A f \in DiscountForms : /\ f.value \in Nat /\ f.minimum \in Nat /\ f.cap \in Nat
                                /\ f.priority \in Nat /\ f.stackable \in BOOLEAN
    /\ \A f \in TaxForms : f.bp \in Nat
    /\ MinWeight \in Nat /\ InsuranceAllowed \in BOOLEAN /\ InsurableUpTo \in Nat
    /\ \A p \in Parcels : /\ p.packages \in Seq([grams : Nat, mm3 : Nat])
                          /\ p.value \in Nat /\ p.cod \in Nat /\ p.insured \in BOOLEAN
                          /\ p.concession \in [kind : Concessions, value : Nat]

PricingInit ==
    /\ today = 1 /\ card = [c \in Cards |-> "NONE"] /\ version = << >> /\ tariff = << >>
    /\ tax = << >> /\ stateRate = NoRate /\ quote = NoQuote

pricingVars == <<today, card, version, tariff, tax, stateRate, quote>>

-----------------------------------------------------------------------------
(***************************************************************************)
(* The statements.                                                         *)
(***************************************************************************)
\* rate_cards_default_idx: one ACTIVE default retail card.
CreateRateCard(c) ==
    /\ card[c] = "NONE"
    /\ CardForm[c].default => ~\E d \in Cards : card[d] = "ACTIVE" /\ CardForm[d].default
    /\ card' = [card EXCEPT ![c] = "ACTIVE"]

CreateRateCardVersion(c, from, to) ==
    /\ version' = Append(version, [card |-> c, status |-> "DRAFT", from |-> from, to |-> to,
                                   activated |-> FALSE])
    /\ tariff' = Append(tariff, NoRows)

\* The trigger of the child tables: rows of a DRAFT only.
rate_card_child_guard(v) == version[v].status = "DRAFT"

UpsertZoneRate(v, f) ==
    rate_card_child_guard(v) /\ tariff' = [tariff EXCEPT ![v].rate = <<f>>]

\* weight_slabs_no_overlap, over half-open ranges.
CreateWeightSlab(v, f) ==
    /\ rate_card_child_guard(v)
    /\ \A i \in DOMAIN tariff[v].slabs :
          LET g == tariff[v].slabs[i] IN f.to <= g.from \/ g.to <= f.from
    /\ tariff' = [tariff EXCEPT ![v].slabs = Append(@, f)]

CreateSurchargeRule(v, f) ==
    rate_card_child_guard(v) /\ tariff' = [tariff EXCEPT ![v].surcharges = Append(@, f)]

CreateDiscountRule(v, f) ==
    rate_card_child_guard(v) /\ tariff' = [tariff EXCEPT ![v].discounts = Append(@, f)]

CountVersionPricingRows(v) ==
    Len(tariff[v].slabs) + Len(tariff[v].rate)

SupersedeActiveVersion(vs, c, to) ==
    [v \in DOMAIN vs |-> IF vs[v].card = c /\ vs[v].status = "ACTIVE"
                         THEN [vs[v] EXCEPT !.status = "SUPERSEDED", !.to = to] ELSE vs[v]]

ActivateRateCardVersion(vs, v) ==
    [vs EXCEPT ![v].status = "ACTIVE", ![v].activated = TRUE]

\* rate_card_versions_range: a version ends after it starts.
VersionRange(vs) == \A v \in DOMAIN vs : vs[v].to > vs[v].from

\* A DRAFT is refused by rate_card_versions_activation_recorded.
ArchiveRateCardVersion(v) ==
    /\ version[v].status \in {"DRAFT", "SUPERSEDED"} /\ version[v].activated
    /\ version' = [version EXCEPT ![v].status = "ARCHIVED"]

\* tax_rules_code_unique: a code is used once, whatever became of its rule.
CreateTaxRule(f) ==
    /\ \A i \in DOMAIN tax : tax[i].form.code # f.code
    /\ tax' = Append(tax, [form |-> f, active |-> TRUE])
SetTaxRuleStatus(i) == tax' = [tax EXCEPT ![i].active = FALSE]

-----------------------------------------------------------------------------
(***************************************************************************)
(* Administration.                                                         *)
(***************************************************************************)
createRateCard(c) ==
    /\ CreateRateCard(c)
    /\ UNCHANGED <<today, version, tariff, tax, stateRate, quote>>

createVersion(c, from, to) ==
    /\ Len(version) < MaxVersions /\ card[c] # "NONE" /\ from < to
    /\ CreateRateCardVersion(c, from, to)
    /\ UNCHANGED <<today, card, tax, stateRate, quote>>

RowsOf(v) == CountVersionPricingRows(v) + Len(tariff[v].surcharges) + Len(tariff[v].discounts)

loadDraftVersion(v) == v \in DOMAIN version /\ version[v].status = "DRAFT"

upsertZoneRate(v, f) == loadDraftVersion(v) /\ UpsertZoneRate(v, f)
createWeightSlab(v, f) == loadDraftVersion(v) /\ CreateWeightSlab(v, f)
createSurcharge(v, f) == loadDraftVersion(v) /\ CreateSurchargeRule(v, f)
createDiscount(v, f) == loadDraftVersion(v) /\ CreateDiscountRule(v, f)

editVersion(v) ==
    /\ v \in DOMAIN version /\ RowsOf(v) < MaxRowsOf
    /\ \/ \E f \in RateForms : upsertZoneRate(v, f)
       \/ \E f \in SlabForms : createWeightSlab(v, f)
       \/ \E f \in SurchargeForms : createSurcharge(v, f)
       \/ \E f \in DiscountForms : createDiscount(v, f)
    /\ UNCHANGED <<today, card, version, tax, stateRate, quote>>

\* Rows are never deleted, so what was counted before the transaction holds.
\* A start that is not after the active version's fails its range and nothing
\* is changed.
activateVersion(v) ==
    /\ loadDraftVersion(v) /\ CountVersionPricingRows(v) > 0
    /\ LET vs == SupersedeActiveVersion(version, version[v].card, version[v].from)
       IN  VersionRange(vs) /\ version' = ActivateRateCardVersion(vs, v)
    /\ UNCHANGED <<today, card, tariff, tax, stateRate, quote>>

archiveVersion(v) ==
    /\ ArchiveRateCardVersion(v)
    /\ UNCHANGED <<today, card, tariff, tax, stateRate, quote>>

createTaxRule(f) ==
    /\ CreateTaxRule(f)
    /\ UNCHANGED <<today, card, version, tariff, stateRate, quote>>

deactivateTaxRule(i) ==
    /\ SetTaxRuleStatus(i)
    /\ UNCHANGED <<today, card, version, tariff, stateRate, quote>>

\* Not versioned: the next quote uses it.
upsertStateBaseRate(f) ==
    /\ stateRate' = <<f>>
    /\ UNCHANGED <<today, card, version, tariff, tax, quote>>

-----------------------------------------------------------------------------
(***************************************************************************)
(* The engine.                                                             *)
(***************************************************************************)
DivRoundHalfUp(n, d) == (2 * n + d) \div (2 * d)
ApplyBP(base, bp) == DivRoundHalfUp(base * bp, 10000)
ApplyPerUnit(rate, units) == rate * units
Clamp(x, lo, hi) == IF x < lo THEN lo ELSE IF x > hi THEN hi ELSE x
Larger(a, b) == IF a > b THEN a ELSE b
Smaller(a, b) == IF a < b THEN a ELSE b

\* Steps that have been started.
Started(grams, step) == (grams + step - 1) \div step

ComputeChargeableWeight(packages, laneMinimum) ==
    LET actual == SumFunction([i \in DOMAIN packages |-> packages[i].grams])
        volumetric == SumFunction([i \in DOMAIN packages |-> DivRoundHalfUp(packages[i].mm3, Divisor)])
    IN  Started(Larger(Larger(actual, volumetric), Larger(laneMinimum, MinWeight)),
                Rounding) * Rounding

\* BUSINESS, then FRANCHISE, then the default RETAIL card.
Rank(c) == CASE CardForm[c].scope = "BUSINESS" -> 0 [] CardForm[c].scope = "FRANCHISE" -> 1
             [] OTHER -> 2

ResolveRateCardForBooking(owners, asOf) ==
    {v \in DOMAIN version :
        /\ version[v].status = "ACTIVE" /\ card[version[v].card] = "ACTIVE"
        /\ version[v].from <= asOf /\ asOf < version[v].to
        /\ LET f == CardForm[version[v].card]
           IN  IF f.scope = "RETAIL" THEN f.default ELSE f.owner \in owners}

resolveRateCard(owners, asOf) ==
    LET found == ResolveRateCardForBooking(owners, asOf)
    IN  IF found = {} THEN 0
        ELSE CHOOSE v \in found : \A k \in found : Rank(version[v].card) <= Rank(version[k].card)

FindZoneRate(v) == tariff[v].rate

\* At most one, by weight_slabs_no_overlap.
FindWeightSlab(v, grams) ==
    {i \in DOMAIN tariff[v].slabs :
        tariff[v].slabs[i].from <= grams /\ grams < tariff[v].slabs[i].to}

Stepped(rate, grams) ==
    rate.price + IF grams > rate.grams
                 THEN ApplyPerUnit(rate.stepPrice, Started(grams - rate.grams, rate.step)) ELSE 0

\* A slab's price is flat: the branch for weight beyond the slab cannot be
\* taken, the slab has been chosen by the weight.
computeFreight(v, grams) ==
    LET slab == FindWeightSlab(v, grams) IN
    IF slab # {} THEN tariff[v].slabs[CHOOSE i \in slab : TRUE].price
    ELSE IF FindZoneRate(v) # NoRate THEN Stepped(FindZoneRate(v)[1], grams)
    ELSE IF stateRate # NoRate THEN Stepped(stateRate[1], grams) ELSE -1

\* ORDER BY priority, id: the last of the rows S.
LastOf(rs, S) ==
    CHOOSE i \in S : \A j \in S : \/ rs[j].priority < rs[i].priority
                                  \/ rs[j].priority = rs[i].priority /\ j <= i

\* The engine's loop over rows in that order: add applied to each in turn.
InOrder(add(_, _), start, rs) ==
    MapThenFoldSet(LAMBDA rule, sum : add(sum, rule), start,
                   LAMBDA i : rs[i], LAMBDA S : LastOf(rs, S), DOMAIN rs)

ListSurchargeRulesForVersion(v) == tariff[v].surcharges
ListDiscountRulesForVersion(v) == tariff[v].discounts

\* Conditions: the features a rule asks about, with the answer it wants.
matchesConditions(when, features) == \A f \in DOMAIN when : when[f] = (f \in features)

surchargeBasis(rule, freight, running, parcel) ==
    CASE rule.basis = "FREIGHT_PLUS_SURCHARGES" -> running
      [] rule.basis = "DECLARED_VALUE" -> parcel.value
      [] rule.basis = "COD_AMOUNT" -> parcel.cod
      [] OTHER -> freight

applyCalc(rule, basis, grams) ==
    CASE rule.calc = "PERCENTAGE" -> ApplyBP(basis, rule.value)
      [] rule.calc = "PER_KG" -> ApplyPerUnit(rule.value, Started(grams, 1000))
      [] OTHER -> rule.value

\* The running sums: taxable, exempt, premium, and how many premiums there are.
AddSurcharge(sum, rule, freight, parcel, grams) ==
    LET running == freight + sum.taxable + sum.exempt
        insures == rule.type = "INSURANCE"
        amount == Clamp(applyCalc(rule, surchargeBasis(rule, freight, running, parcel), grams),
                        rule.min, rule.max)
    IN  IF (insures /\ ~parcel.insured) \/ ~matchesConditions(rule.when, parcel.features)
        THEN sum
        ELSE [taxable |-> sum.taxable + (IF rule.taxable THEN amount ELSE 0),
              exempt |-> sum.exempt + (IF rule.taxable THEN 0 ELSE amount),
              premium |-> sum.premium + (IF insures THEN amount ELSE 0),
              offers |-> sum.offers + (IF insures THEN 1 ELSE 0)]

computeSurcharges(v, freight, parcel, grams) ==
    InOrder(LAMBDA sum, rule : AddSurcharge(sum, rule, freight, parcel, grams),
            [taxable |-> 0, exempt |-> 0, premium |-> 0, offers |-> 0],
            ListSurchargeRulesForVersion(v))

\* total so far, and whether an exclusive rule has ended the evaluation.
AddDiscount(d, rule, freight, surcharges) ==
    LET basis == IF rule.basis = "FREIGHT_PLUS_SURCHARGES" THEN freight + surcharges ELSE freight
        wanted == IF rule.calc = "PERCENTAGE" THEN ApplyBP(basis, rule.value) ELSE rule.value
        amount == Smaller(Smaller(wanted, rule.cap), basis - d.total)
    IN  IF d.ended \/ basis < rule.minimum \/ amount <= 0 THEN d
        ELSE [total |-> d.total + amount, ended |-> ~rule.stackable]

computeDiscounts(v, freight, surcharges) ==
    InOrder(LAMBDA d, rule : AddDiscount(d, rule, freight, surcharges),
            [total |-> 0, ended |-> FALSE], ListDiscountRulesForVersion(v)).total

\* A concession of the desk, on what the card's own discounts leave.
computeInquiryDiscount(parcel, eligible, configured) ==
    LET remaining == Larger(eligible - configured, 0)
        given == parcel.concession
        wanted == CASE given.kind = "PERCENTAGE" -> ApplyBP(remaining, given.value)
                    [] given.kind = "FIXED" -> given.value
                    [] OTHER -> 0
    IN  Clamp(wanted, 0, remaining)

ListApplicableTaxRules == {i \in DOMAIN tax : tax[i].active}
computeTax(taxable) ==
    SumFunction([i \in ListApplicableTaxRules |-> ApplyBP(taxable, tax[i].form.bp)])

\* Mutant: the premium is discounted with the rest.
discountableAll(sum) == sum.taxable + sum.exempt

discountableSurcharges(sum) == sum.taxable + sum.exempt - sum.premium

validateInsuranceRequest(parcel) ==
    parcel.insured => InsuranceAllowed /\ 0 < parcel.value /\ parcel.value <= InsurableUpTo

\* Quote, under version v, or nothing when no rate or no insurance rate applies.
priced(v, parcel) ==
    LET rate == FindZoneRate(v)
        grams == ComputeChargeableWeight(parcel.packages, IF rate = NoRate THEN 0 ELSE rate[1].minimum)
        freight == computeFreight(v, grams)
        sum == computeSurcharges(v, freight, parcel, grams)
        configured == computeDiscounts(v, freight, discountableSurcharges(sum))
        discount == configured
            + computeInquiryDiscount(parcel, freight + discountableSurcharges(sum), configured)
        charges == freight + sum.taxable + sum.exempt
        taxed == computeTax(Larger(freight + sum.taxable - discount, 0))
    IN  IF freight < 0 \/ (parcel.insured /\ sum.offers = 0) THEN NoQuote
        ELSE [charges |-> charges, discount |-> discount, premium |-> sum.premium, taxed |-> taxed,
              total |-> Larger(charges - discount + taxed, 0), version |-> v]

Quote(parcel) ==
    LET v == resolveRateCard(parcel.owners, today) IN
    /\ quote' = IF parcel.packages = << >> \/ ~validateInsuranceRequest(parcel) \/ v = 0
                THEN NoQuote ELSE priced(v, parcel)
    /\ UNCHANGED <<today, card, version, tariff, tax, stateRate>>

NextDay ==
    /\ today < Cardinality(Dates) /\ today' = today + 1
    /\ UNCHANGED <<card, version, tariff, tax, stateRate, quote>>

-----------------------------------------------------------------------------
PricingNext ==
    \/ \E c \in Cards : createRateCard(c)
    \/ \E c \in Cards, from \in Dates, to \in Dates \cup {Forever} : createVersion(c, from, to)
    \/ \E v \in DOMAIN version : editVersion(v) \/ activateVersion(v) \/ archiveVersion(v)
    \/ \E f \in TaxForms : createTaxRule(f)
    \/ \E i \in DOMAIN tax : deactivateTaxRule(i)
    \/ \E f \in StateRates : upsertStateBaseRate(f)
    \/ \E parcel \in Parcels : Quote(parcel)
    \/ NextDay

PricingSpec == PricingInit /\ [][PricingNext]_pricingVars

\* "There is never a gap or an overlap in effective dates" (activateVersion):
\* the effective dates on record of the versions a card has published, whatever
\* became of them and whatever end they were created with, run on from the first
\* one's start to the active one's end.  It is about the record: only the ACTIVE
\* version prices a booking (CardAlwaysPriced).
DatesCoveredOnce ==
    \A c \in Cards :
        LET published == {v \in DOMAIN version : version[v].card = c /\ version[v].activated}
            active == {v \in published : version[v].status = "ACTIVE"}
        IN  published # {} =>
              /\ Cardinality(active) = 1
              /\ \E first \in Dates : \A d \in Dates, v \in active :
                   Cardinality({k \in published : version[k].from <= d /\ d < version[k].to})
                     = IF first <= d /\ d < version[v].to THEN 1 ELSE 0

\* What a quote charges is what its lines say, and insurance is not sold at a
\* discount (Quote takes the premium out of what discounts are computed from):
\* whatever rules, caps, stacking, concessions and rounding are configured, the
\* discounts stay within the freight and the other surcharges, so the floor of
\* the total never hides a discount larger than the bill.
PricedInFull ==
    /\ quote.total = (quote.charges - quote.discount) + quote.taxed
    /\ quote.discount <= quote.charges - quote.premium

\* "There is never a moment where a card has two active versions or none"
\* (activateVersion): while one of the versions it has published covers today,
\* the card prices today's bookings.
CardAlwaysPriced ==
    \A c \in {d \in Cards : CardForm[d].scope = "RETAIL" => CardForm[d].default} :
        (\E v \in DOMAIN version : /\ version[v].card = c /\ version[v].activated
                                   /\ version[v].from <= today /\ today < version[v].to) =>
        \E v \in ResolveRateCardForBooking({CardForm[c].owner}, today) : version[v].card = c

=============================================================================
