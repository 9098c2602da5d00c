------------------------------ MODULE Booking -------------------------------
(***************************************************************************)
(* Booking a shipment (internal/shipment: booking, commercial, correction, *)
(* service, awb).  A booking is made in two phases: Prepare reads and      *)
(* validates everything outside any transaction and allocates the airway   *)
(* bill number with one statement of its own; Commit only writes, in one   *)
(* transaction.  Everything Prepare read may have changed when Commit      *)
(* runs, or the booking may never be committed.  A booked shipment can be  *)
(* corrected by an editor who read an earlier version, and cancelled.      *)
(*                                                                         *)
(* What a customer asks for is an order: who pays, how, how much, the      *)
(* reference and paper waybill numbers, insurance, and the customs lines.  *)
(* The insurance quote is the version of the tariff in force (tariff): its *)
(* fingerprint is equal exactly when the tariff is.  Left out: weights,    *)
(* addresses and routing (the order's route is Route[s]), the snapshots'   *)
(* text.  An airway bill number is prefix, day and counter: here only the  *)
(* counter, the series of one day.                                         *)
(***************************************************************************)
EXTENDS Scanning, Integers

-----------------------------------------------------------------------------
(***************************************************************************)
(* Customers (internal/customer): the account and its credit profile, with *)
(* the history of what was reserved and released.  Each operation is one   *)
(* statement or one transaction; credit moves only under the lock of the   *)
(* profile's row.  Left out: names, tax numbers, payment terms and the     *)
(* address book.                                                           *)
(***************************************************************************)
CONSTANTS
    Customers,     \* customers that may be created
    Limits         \* bound: the credit limits an administrator may set

VARIABLES
    cust,      \* cust[c]: the account: status, kind, version
    credit,    \* credit[c]: the credit profile
    entries    \* the credit history: customer, shipment, amount, balance after

CustomerStatus == {"ACTIVE", "SUSPENDED", "CLOSED"}
CreditStatuses == {"GOOD", "WARNING", "ON_HOLD", "BLOCKED"}

CustomerRow == [status : {"NONE"} \cup CustomerStatus, kind : {"RETAIL", "BUSINESS"},
                version : Nat]
CreditRow == [status : {"NONE"} \cup CreditStatuses, limit : Nat, used : Nat]

CustomerInit ==
    /\ cust = [c \in Customers |-> [status |-> "NONE", kind |-> "RETAIL", version |-> 0]]
    /\ credit = [c \in Customers |-> [status |-> "NONE", limit |-> 0, used |-> 0]]
    /\ entries = {}

-----------------------------------------------------------------------------
(***************************************************************************)
(* The statements.                                                         *)
(***************************************************************************)
CreateCustomer(c, kind) ==
    cust' = [cust EXCEPT ![c] = [status |-> "ACTIVE", kind |-> kind, version |-> 1]]

\* A new profile has nothing used; an existing one keeps what it has used.
UpsertCreditProfile(c, limit, status) ==
    credit' = [credit EXCEPT ![c].limit = limit, ![c].status = status]

GetCreditProfileByCustomer(c) == credit[c].status # "NONE"

AdjustCreditUsage(c, delta) == credit' = [credit EXCEPT ![c].used = @ + delta]

InsertCreditEntry(c, s, delta) ==
    entries' = entries \cup {[cust |-> c, ship |-> s, amount |-> delta,
                              balance |-> credit[c].used + delta]}

\* Only the version the caller read; the trigger counts versions.
UpdateCustomer(c, expected) ==
    /\ cust[c].status # "NONE" /\ cust[c].version = expected
    /\ cust' = [cust EXCEPT ![c].version = @ + 1]

SetCustomerStatus(c, to) ==
    cust' = [cust EXCEPT ![c].status = to, ![c].version = @ + 1]

-----------------------------------------------------------------------------
(***************************************************************************)
(* Credit, inside the booking's and the cancellation's transaction.  The   *)
(* shipment s is only the reference of the history row.                    *)
(***************************************************************************)

ReserveCredit(c, s, amount) ==
    IF amount <= 0 THEN UNCHANGED <<credit, entries>>
    ELSE /\ GetCreditProfileByCustomer(c)
         /\ credit[c].status \notin {"BLOCKED", "ON_HOLD"}
         /\ credit[c].used + amount <= credit[c].limit
         /\ AdjustCreditUsage(c, amount)
         /\ InsertCreditEntry(c, s, amount)

\* Never more than is outstanding; without a profile nothing was reserved.
ReleaseCredit(c, s, amount) ==
    LET back == IF amount > credit[c].used THEN credit[c].used ELSE amount
    IN  IF ~GetCreditProfileByCustomer(c) \/ back <= 0
        THEN UNCHANGED <<credit, entries>>
        ELSE AdjustCreditUsage(c, -back) /\ InsertCreditEntry(c, s, -back)

-----------------------------------------------------------------------------
(***************************************************************************)
(* Administration.                                                         *)
(***************************************************************************)

\* A business account comes with a credit profile in good standing.
create(c, kind, limit) ==
    /\ cust[c].status = "NONE"
    /\ CreateCustomer(c, kind)
    /\ IF kind = "BUSINESS" THEN UpsertCreditProfile(c, limit, "GOOD")
                            ELSE UNCHANGED credit
    /\ UNCHANGED entries

update(c, expected) ==
    /\ UpdateCustomer(c, expected)
    /\ UNCHANGED <<credit, entries>>

setStatus(c, to) ==
    /\ cust[c].status # "NONE"
    /\ SetCustomerStatus(c, to)
    /\ UNCHANGED <<credit, entries>>

setCredit(c, limit, status) ==
    /\ cust[c].status # "NONE"
    /\ UpsertCreditProfile(c, limit, status)
    /\ UNCHANGED <<cust, entries>>

-----------------------------------------------------------------------------
(***************************************************************************)
(* Shipments.                                                              *)
(***************************************************************************)
CONSTANTS
    Orders,      \* Orders[s]: the orders that may be booked as shipment s
    Editors,     \* people who may have the correction form open
    MaxAWB,      \* awbMaxPerPeriod
    MaxMinor,    \* maxCommercialMinor, the largest commercial amount
    MaxTariffs,  \* bound: tariff versions
    MaxEdits     \* bound: corrections in all

ASSUME BookingLimits == MaxAWB \in Nat /\ MaxMinor \in Nat /\ Limits \subseteq Nat

\* An order names accounts that exist or may be created, and costs no less than
\* nothing; there are finitely many shipments.
ASSUME OrdersAssumption ==
    /\ \A s \in Shipments : \A o \in Orders[s] :
          /\ o.cust \in Customers /\ o.payer \in Customers \cup {"SHIPPER", Nil} /\ o.total \in Nat
          /\ o.unit \in Units \cup {Nil}
    /\ IsFiniteSet(Shipments)

VARIABLES
    awbSeq,    \* awb_sequences.current_value
    tariff,    \* the tariff in force, by version
    offer,     \* offer[s]: the premium the customer saw and accepted, or Nil
    prep,      \* prep[s]: what Prepare resolved and Commit will write, or Nil
    book,      \* book[s]: the booked shipment's commercial columns
    form       \* form[u]: the shipment and version an editor has on the screen

PaymentModes == {"PREPAID", "COD", "CREDIT"}

\* The columns of the shipment, its two snapshots that matter here, the overlay
\* of corrections on its addresses, and its timeline.
NotBooked == [awb |-> 0, unit |-> Nil, cust |-> Nil, mode |-> Nil, total |-> 0, ref |-> Nil,
              manual |-> Nil, version |-> 0, charge |-> Nil, commercial |-> Nil,
              corrections |-> << >>, events |-> << >>]

Booked(s) == book[s].awb # 0

BookingInit ==
    /\ ShipInit
    /\ CustomerInit
    /\ awbSeq = 0 /\ tariff = 1
    /\ offer = [s \in Shipments |-> Nil]
    /\ prep = [s \in Shipments |-> Nil]
    /\ book = [s \in Shipments |-> NotBooked]
    /\ form = [u \in Editors |-> Nil]

-----------------------------------------------------------------------------
(***************************************************************************)
(* Customs valuation: lines of quantity and unit value, a discount and the *)
(* charges on top, every amount kept within MaxMinor without overflow.     *)
(***************************************************************************)

\* The goods total, or -1 when a line is refused.  The cap is compared before
\* the multiplication, with an integer division.
goodsTotal(lines) ==
    LET sum[i \in 0 .. Len(lines)] ==
            IF i = 0 THEN 0
            ELSE IF sum[i-1] = -1 \/ lines[i].unit > (MaxMinor - sum[i-1]) \div lines[i].qty
            THEN -1
            ELSE sum[i-1] + lines[i].qty * lines[i].unit
    IN  sum[Len(lines)]

\* The order is refused, or its declared value is the goods less the discount.
validateCommercial(o) ==
    o.customs # Nil => /\ goodsTotal(o.customs.lines) # -1
                       /\ o.customs.discount <= goodsTotal(o.customs.lines)

declaredValue(o) ==
    IF o.customs = Nil THEN 0 ELSE goodsTotal(o.customs.lines) - o.customs.discount

\* The invoice: each charge is compared with what is left before it is added.
calculateCustomsSummary(o) ==
    o.customs # Nil =>
        /\ o.customs.freight <= MaxMinor - declaredValue(o)
        /\ o.customs.other <= MaxMinor - declaredValue(o) - o.customs.freight

-----------------------------------------------------------------------------
(***************************************************************************)
(* The statements.                                                         *)
(***************************************************************************)
\* One atomic statement outside every transaction.
AllocateAWBNumber(s) == awbSeq' = awbSeq + 1

\* What Commit writes besides the row: the price and the tariff it came from,
\* the payer and the accepted premium, and nothing corrected yet.
CreateChargeSnapshot(o, version) == [total |-> o.total, tariff |-> version]

CreateShipmentCommercialSnapshot(payer, premium, declared) ==
    [payer |-> payer, premium |-> premium, declared |-> declared]

ListLatestShipmentAddressCorrections(s) == book[s].corrections

CreateShipmentAddressCorrection(b, text) ==
    [b EXCEPT !.corrections = Append(@, text)]

\* The event takes the next number of the shipment's timeline.
AppendShipmentEvent(b, type) == [b EXCEPT !.events = Append(@, type)]

\* The unique columns of shipments: the number, a live customer reference,
\* the paper waybill number.
CreateShipment(s, b) ==
    /\ \A q \in Shipments \ {s} : Booked(q) =>
           /\ book[q].awb # b.awb
           /\ b.manual # Nil => book[q].manual # b.manual
           /\ b.ref # Nil /\ ship[q].status # "CANCELLED"
                  => <<book[q].cust, book[q].ref>> # <<b.cust, b.ref>>
    /\ book' = [book EXCEPT ![s] = AppendShipmentEvent(b, "BOOKED")]
    /\ ship' = [ship EXCEPT ![s] = [status |-> "BOOKED", dir |-> "FORWARD", held |-> FALSE,
                                    unit |-> b.unit, user |-> Nil,
                                    bag |-> Nil, trip |-> Nil]]

\* Only a shipment that is BOOKED and in the version the editor read.
CorrectBookedShipment(s, expected, ref, text) ==
    /\ ship[s].status = "BOOKED" /\ book[s].version = expected
    /\ ref # Nil => \A q \in Shipments \ {s} :
           Booked(q) /\ ship[q].status # "CANCELLED"
               => <<book[q].cust, book[q].ref>> # <<book[s].cust, ref>>
    /\ book' = [book EXCEPT ![s] =
          AppendShipmentEvent(
              CreateShipmentAddressCorrection(
                  [book[s] EXCEPT !.ref = ref, !.version = book[s].version + 1], text),
              "REMARK")]

GetShipmentCommercialSnapshot(s) == book[s].commercial

\* Tracking and every scan look a shipment up by its number or its paper number.
GetPublicTrackingShipment(id) ==
    {s \in Shipments : Booked(s) /\ (book[s].awb = id \/ book[s].manual = id)}

-----------------------------------------------------------------------------
(***************************************************************************)
(* Preview and Prepare: no transaction.                                    *)
(***************************************************************************)
Payer(o) == IF o.payer = "SHIPPER" THEN o.cust ELSE o.payer

\* Who pays: the shipper, another account, or the receiver in person (Nil).
prepareCommercial(o) ==
    /\ o.payer \in Customers => cust[o.payer].status = "ACTIVE"
    /\ o.mode = "CREDIT" => Payer(o) # Nil
    /\ calculateCustomsSummary(o)

ResolveForBooking(c) == cust[c].status # "NONE"

\* prepare: everything that can fail on business grounds.
resolved(o) ==
    /\ validateCommercial(o)
    /\ ResolveForBooking(o.cust) /\ cust[o.cust].status = "ACTIVE"
    /\ prepareCommercial(o)
    /\ o.mode = "CREDIT" => GetCreditProfileByCustomer(Payer(o))

\* The customer sees the premium and accepts it.
Preview(s, o) ==
    /\ ~Booked(s) /\ prep[s] = Nil /\ o.insured /\ resolved(o)
    /\ offer' = [offer EXCEPT ![s] = tariff]
    /\ UNCHANGED <<ship, cust, credit, entries, awbSeq, tariff, prep, book, form>>

\* The premium that was accepted is the premium that is quoted now.
acceptInsurance(s, o) == o.insured => offer[s] = tariff

\* The series of the day has an end; past it the counter still moves.
Allocate(s) == AllocateAWBNumber(s) /\ awbSeq' <= MaxAWB

\* The facility that takes custody: the one the request names, or the origin
\* branch that routing resolved.
bookingUnit(s, o) == IF o.unit = Nil THEN Route[s].originBranch ELSE o.unit

\* What Commit will write.
buildShipmentParams(s, o, awb) ==
    [NotBooked EXCEPT !.awb = awb, !.unit = bookingUnit(s, o), !.cust = o.cust, !.mode = o.mode, !.total = o.total,
                      !.ref = o.ref, !.manual = o.manual, !.version = 1,
                      !.charge = CreateChargeSnapshot(o, tariff),
                      !.commercial = CreateShipmentCommercialSnapshot(
                           Payer(o), IF o.insured THEN tariff ELSE Nil, declaredValue(o))]

Prepare(s, o) ==
    /\ ~Booked(s) /\ prep[s] = Nil
    /\ resolved(o) /\ acceptInsurance(s, o)
    /\ Allocate(s)
    /\ prep' = [prep EXCEPT ![s] =
          buildShipmentParams(s, o, awbSeq')]
    /\ UNCHANGED <<ship, cust, credit, entries, tariff, offer, book, form>>

\* The day's series is used up: the number is taken and the booking refused.
PrepareExhausted(s, o) ==
    /\ ~Booked(s) /\ prep[s] = Nil
    /\ resolved(o) /\ acceptInsurance(s, o)
    /\ awbSeq = MaxAWB /\ awbSeq' = awbSeq + 1
    /\ UNCHANGED <<ship, cust, credit, entries, tariff, offer, prep, book, form>>

-----------------------------------------------------------------------------
\* Commit: shipment, packages, snapshots, the payer's credit, the event.
Commit(s) ==
    /\ prep[s] # Nil
    /\ CreateShipment(s, prep[s])
    /\ IF prep[s].mode = "CREDIT" THEN ReserveCredit(prep[s].commercial.payer, s, prep[s].total)
                                  ELSE UNCHANGED <<credit, entries>>
    /\ prep' = [prep EXCEPT ![s] = Nil]
    /\ UNCHANGED <<cust, awbSeq, tariff, offer, form>>

\* The process dies, or the transaction is refused: the number is a gap.
Abandon(s) ==
    /\ prep[s] # Nil
    /\ prep' = [prep EXCEPT ![s] = Nil]
    /\ UNCHANGED <<ship, cust, credit, entries, awbSeq, tariff, offer, book, form>>

\* An editor opens the shipment.
Open(u, s) ==
    /\ Booked(s) /\ form[u] = Nil
    /\ form' = [form EXCEPT ![u] = [ship |-> s, version |-> book[s].version,
                                    text |-> ListLatestShipmentAddressCorrections(s)]]
    /\ UNCHANGED <<ship, cust, credit, entries, awbSeq, tariff, offer, prep, book>>

Corrections ==
    Cardinality(UNION {{s} \X DOMAIN book[s].corrections : s \in Shipments})

\* Mutant: the last editor to save wins.
CorrectLastWins(u, ref) ==
    /\ form[u] # Nil /\ ship[form[u].ship].status = "BOOKED"
    /\ Corrections < MaxEdits
    /\ CorrectBookedShipment(form[u].ship, book[form[u].ship].version, ref, u)
    /\ form' = [form EXCEPT ![u] = Nil]
    /\ UNCHANGED <<ship, cust, credit, entries, awbSeq, tariff, offer, prep>>

\* The editor saves; a shipment that was changed since is refused.
Correct(u, ref) ==
    /\ form[u] # Nil
    /\ Corrections < MaxEdits
    /\ CorrectBookedShipment(form[u].ship, form[u].version, ref, u)
    /\ form' = [form EXCEPT ![u] = Nil]
    /\ UNCHANGED <<ship, cust, credit, entries, awbSeq, tariff, offer, prep>>

\* The editor closes the form, or is told to reload.
Close(u) ==
    /\ form[u] # Nil /\ form' = [form EXCEPT ![u] = Nil]
    /\ UNCHANGED <<ship, cust, credit, entries, awbSeq, tariff, offer, prep, book>>

\* Mutant: the credit goes back to the customer who booked.
CancelToShipper(s) ==
    /\ Booked(s)
    /\ CancelShipment(s)
    /\ book' = [book EXCEPT ![s] =
          AppendShipmentEvent([book[s] EXCEPT !.version = book[s].version + 1], "CANCELLED")]
    /\ IF book[s].mode = "CREDIT" THEN ReleaseCredit(book[s].cust, s, book[s].total)
                                  ELSE UNCHANGED <<credit, entries>>
    /\ UNCHANGED <<cust, awbSeq, tariff, offer, prep, form>>

\* Booker.Cancel: the row, the event, the payer's credit.
Cancelled(s) ==
    /\ Booked(s)
    /\ CancelShipment(s)
    /\ book' = [book EXCEPT ![s] =
          AppendShipmentEvent([book[s] EXCEPT !.version = book[s].version + 1], "CANCELLED")]
    /\ IF book[s].mode = "CREDIT" THEN ReleaseCredit(GetShipmentCommercialSnapshot(s).payer, s, book[s].total)
                                  ELSE UNCHANGED <<credit, entries>>
    /\ UNCHANGED <<cust, awbSeq, tariff, offer, prep, form>>

\* A new tariff comes into force (internal/pricing).
NewTariff ==
    /\ tariff < MaxTariffs /\ tariff' = tariff + 1
    /\ UNCHANGED <<ship, cust, credit, entries, awbSeq, offer, prep, book, form>>

=============================================================================
