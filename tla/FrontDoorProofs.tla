-------------------------- MODULE FrontDoorProofs ---------------------------
(***************************************************************************)
(* Proofs about the front door, for any customers, orders, editors,        *)
(* requests and agents: no correction is lost, a parcel is collected once, *)
(* and what a customer has used of the credit is what its live bookings    *)
(* cost and what the history adds up to.                                   *)
(***************************************************************************)
EXTENDS FrontDoor, SumTheorems

-----------------------------------------------------------------------------
(***************************************************************************)
(* The booked rows, the rows Prepare resolved, and the open forms.         *)
(***************************************************************************)
BookColumns == {"awb", "unit", "cust", "mode", "total", "ref", "manual", "version", "charge",
                "commercial", "corrections", "events"}

IsBook(b) ==
    /\ b = [c \in BookColumns |-> b[c]]
    /\ b.awb \in Nat /\ b.total \in Nat /\ b.version \in Nat
    /\ b.corrections \in Seq(Editors)

Columns ==
    /\ awbSeq \in Nat
    /\ book = [s \in Shipments |-> book[s]] /\ \A s \in Shipments : IsBook(book[s])
    /\ prep = [s \in Shipments |-> prep[s]]
    /\ form = [u \in Editors |-> form[u]]

\* Who pays for a credit booking has an account.
PayerKnown(b) == b.mode = "CREDIT" => b.commercial.payer \in Customers

Prepared ==
    \A s \in Shipments : prep[s] # Nil =>
        /\ ~Booked(s) /\ IsBook(prep[s])
        /\ prep[s].awb # 0 /\ prep[s].corrections = << >> /\ PayerKnown(prep[s])

Payers == \A s \in Shipments : Booked(s) => PayerKnown(book[s])

\* An open form is of a booked shipment, and shows its corrections unless the
\* shipment has been changed since.
Forms ==
    \A u \in Editors : form[u] # Nil =>
        /\ form[u].ship \in Shipments /\ Booked(form[u].ship)
        /\ form[u].version \in Nat /\ form[u].version <= book[form[u].ship].version
        /\ form[u].version = book[form[u].ship].version => form[u].text = book[form[u].ship].corrections

Desk == Columns /\ Prepared /\ Payers /\ Forms

-----------------------------------------------------------------------------
\* The row Prepare builds.
LEMMA ParamsLemma ==
    ASSUME Columns, NEW s \in Shipments, NEW o \in Orders[s], resolved(o)
    PROVE  LET b == buildShipmentParams(s, o, awbSeq + 1)
           IN  IsBook(b) /\ b.awb # 0 /\ b.corrections = << >> /\ PayerKnown(b)
<1> DEFINE b == buildShipmentParams(s, o, awbSeq + 1)
           at == bookingUnit(s, o)
           ch == CreateChargeSnapshot(o, tariff)
           cm == CreateShipmentCommercialSnapshot(Payer(o), IF o.insured THEN tariff ELSE Nil, declaredValue(o))
<1>1. b = [awb |-> awbSeq + 1, unit |-> at, cust |-> o.cust, mode |-> o.mode, total |-> o.total, ref |-> o.ref,
           manual |-> o.manual, version |-> 1, charge |-> ch, commercial |-> cm,
           corrections |-> << >>, events |-> << >>]
  <2> HIDE DEF ch, cm, at
  <2>1. b = [NotBooked EXCEPT !.awb = awbSeq + 1, !.unit = at, !.cust = o.cust, !.mode = o.mode, !.total = o.total,
                      !.ref = o.ref, !.manual = o.manual, !.version = 1,
                      !.charge = ch, !.commercial = cm]
    BY DEF buildShipmentParams, ch, cm, at
  <2>2. QED BY <2>1, ZenonT(60) DEF NotBooked
<1>2. cm.payer = Payer(o)
  BY DEF CreateShipmentCommercialSnapshot
<1>3. o.mode = "CREDIT" => Payer(o) \in Customers
  BY OrdersAssumption DEF resolved, prepareCommercial, Payer
<1> HIDE DEF b, ch, cm, at
<1>4. b = [c \in BookColumns |-> b[c]]
  BY <1>1 DEF BookColumns
<1>5. /\ b.awb = awbSeq + 1 /\ b.total = o.total /\ b.version = 1 /\ b.corrections = << >>
      /\ b.mode = o.mode /\ b.commercial = cm
  BY <1>1
<1>6. awbSeq + 1 \in Nat /\ awbSeq + 1 # 0 /\ o.total \in Nat
  BY OrdersAssumption DEF Columns
<1>7. << >> \in Seq(Editors)
  OBVIOUS
<1>8. IsBook(b)
  <2>1. b.awb \in Nat /\ b.total \in Nat /\ b.version \in Nat /\ b.corrections \in Seq(Editors)
    BY <1>5, <1>6, <1>7
  <2>2. QED BY <1>4, <2>1 DEF IsBook
<1>9. PayerKnown(b) BY <1>2, <1>3, <1>5 DEF PayerKnown
<1>10. b.awb # 0 /\ b.corrections = << >> BY <1>5, <1>6
<1>11. QED BY <1>8, <1>9, <1>10 DEF b

\* What a write of some columns leaves of the others.
LEMMA EventLemma ==
    ASSUME NEW b, IsBook(b), NEW type
    PROVE  LET q == AppendShipmentEvent(b, type)
           IN  /\ IsBook(q) /\ q.awb = b.awb /\ q.total = b.total /\ q.version = b.version
               /\ q.mode = b.mode /\ q.commercial = b.commercial /\ q.corrections = b.corrections
<1> DEFINE q == [b EXCEPT !.events = Append(b.events, type)]
<1>1. q = [c \in BookColumns |-> IF c = "events" THEN Append(b.events, type) ELSE b[c]]
  BY DEF IsBook, BookColumns
<1>2. q = AppendShipmentEvent(b, type) BY DEF AppendShipmentEvent
<1> HIDE DEF q
<1>3. /\ q = [c \in BookColumns |-> q[c]]
      /\ q.awb = b.awb /\ q.total = b.total /\ q.version = b.version
      /\ q.mode = b.mode /\ q.commercial = b.commercial /\ q.corrections = b.corrections
  BY <1>1 DEF BookColumns
<1>4. QED BY <1>2, <1>3 DEF IsBook

LEMMA VersionLemma ==
    ASSUME NEW b, IsBook(b)
    PROVE  LET q == [b EXCEPT !.version = b.version + 1]
           IN  /\ IsBook(q) /\ q.awb = b.awb /\ q.total = b.total /\ q.version = b.version + 1
               /\ q.mode = b.mode /\ q.commercial = b.commercial /\ q.corrections = b.corrections
<1> DEFINE q == [b EXCEPT !.version = b.version + 1]
<1>1. q = [c \in BookColumns |-> IF c = "version" THEN b.version + 1 ELSE b[c]]
  BY DEF IsBook, BookColumns
<1> HIDE DEF q
<1>2. /\ q = [c \in BookColumns |-> q[c]]
      /\ q.awb = b.awb /\ q.total = b.total /\ q.version = b.version + 1
      /\ q.mode = b.mode /\ q.commercial = b.commercial /\ q.corrections = b.corrections
  BY <1>1 DEF BookColumns
<1>3. b.version + 1 \in Nat BY DEF IsBook
<1>4. IsBook(q) BY <1>2, <1>3 DEF IsBook
<1>5. QED BY <1>2, <1>4 DEF q

LEMMA CorrectionLemma ==
    ASSUME NEW b, IsBook(b), NEW ref, NEW u \in Editors, NEW p, NEW q,
           p = [c \in BookColumns |-> IF c = "version" THEN b.version + 1 ELSE IF c = "ref" THEN ref ELSE b[c]],
           q = CreateShipmentAddressCorrection(p, u)
    PROVE  /\ IsBook(q) /\ q.awb = b.awb /\ q.total = b.total /\ q.version = b.version + 1
           /\ q.mode = b.mode /\ q.commercial = b.commercial
<1>2. p.corrections = b.corrections
  BY DEF BookColumns
<1>3. q = [c \in BookColumns |-> IF c = "corrections" THEN Append(b.corrections, u)
                                 ELSE IF c = "version" THEN b.version + 1
                                 ELSE IF c = "ref" THEN ref ELSE b[c]]
  <2>1. q = [p EXCEPT !.corrections = Append(p.corrections, u)]
    BY DEF CreateShipmentAddressCorrection
  <2>2. QED BY <1>2, <2>1 DEF BookColumns
<1>5. /\ q = [c \in BookColumns |-> q[c]]
      /\ q.awb = b.awb /\ q.total = b.total /\ q.version = b.version + 1
      /\ q.mode = b.mode /\ q.commercial = b.commercial
      /\ q.corrections = Append(b.corrections, u)
  BY <1>3 DEF BookColumns
<1>6. b.version + 1 \in Nat /\ Append(b.corrections, u) \in Seq(Editors) BY DEF IsBook
<1>7. IsBook(q) BY <1>5, <1>6 DEF IsBook
<1>8. QED BY <1>5, <1>7

-----------------------------------------------------------------------------
(***************************************************************************)
(* The steps that touch the desk's rows.                                   *)
(***************************************************************************)
bookKept == UNCHANGED <<awbSeq, prep, book, form>>

\* Neither accounts, nor collections, nor the counter write them.
LEMMA DeskOthers ==
    ASSUME \/ \E c \in Customers : Account(c)
           \/ Price \/ Collect
           \/ \E s \in Shipments, at \in Units : Counter(s, at)
           \/ \E s \in Shipments : \E o \in Orders[s] : Preview(s, o)
    PROVE  bookKept
<1>1. ASSUME NEW c \in Customers, Account(c) PROVE bookKept
  BY <1>1 DEF Account, bookKept
<1>2. CASE Price BY <1>2 DEF Price, NewTariff, bookKept
<1>3. CASE Collect BY <1>3 DEF Collect, bookVars, bookKept
<1>4. ASSUME NEW s \in Shipments, NEW at \in Units, Counter(s, at) PROVE bookKept
  BY <1>4 DEF Counter, bookVars, bookKept
<1>5. ASSUME NEW s \in Shipments, NEW o \in Orders[s], Preview(s, o) PROVE bookKept
  BY <1>5 DEF Preview, bookKept
<1>6. QED BY <1>1, <1>2, <1>3, <1>4, <1>5

LEMMA DeskKept == Desk /\ bookKept => Desk'
  BY DEF Desk, Columns, Prepared, Payers, Forms, Booked, bookKept

\* Commit turns the prepared row into the booked one.
LEMMA CommitLemma ==
    ASSUME Desk, NEW s \in Shipments, Commit(s)
    PROVE  /\ ~Booked(s) /\ Booked(s)' /\ IsBook(book'[s]) /\ IsBook(prep[s]) /\ PayerKnown(prep[s])
           /\ book'[s].total = prep[s].total /\ book'[s].mode = prep[s].mode
           /\ book'[s].commercial = prep[s].commercial /\ book'[s].corrections = << >>
           /\ book' = [q \in Shipments |-> IF q = s THEN book'[s] ELSE book[q]]
           /\ prep' = [q \in Shipments |-> IF q = s THEN Nil ELSE prep[q]]
           /\ UNCHANGED <<awbSeq, form>>
<1>1. /\ ~Booked(s) /\ IsBook(prep[s]) /\ PayerKnown(prep[s]) /\ prep[s].awb # 0
      /\ prep[s].corrections = << >>
  BY DEF Desk, Prepared, Commit
<1> DEFINE b == AppendShipmentEvent(prep[s], "BOOKED")
<1>2. /\ IsBook(b) /\ b.awb = prep[s].awb /\ b.total = prep[s].total /\ b.mode = prep[s].mode
      /\ b.commercial = prep[s].commercial /\ b.corrections = prep[s].corrections
  BY <1>1, EventLemma
<1>3. book' = [book EXCEPT ![s] = b] /\ prep' = [prep EXCEPT ![s] = Nil] /\ UNCHANGED <<awbSeq, form>>
  BY DEF Commit, CreateShipment
<1> HIDE DEF b
<1>4. book'[s] = b /\ book' = [q \in Shipments |-> IF q = s THEN b ELSE book[q]]
      /\ prep' = [q \in Shipments |-> IF q = s THEN Nil ELSE prep[q]]
  BY <1>3 DEF Desk, Columns
<1>5. QED BY <1>1, <1>2, <1>3, <1>4 DEF Booked

\* A cancellation and a correction change the version of one booked row.
LEMMA CancelledLemma ==
    ASSUME Desk, NEW s \in Shipments, Cancelled(s)
    PROVE  /\ Booked(s) /\ IsBook(book'[s]) /\ book'[s].awb = book[s].awb
           /\ book'[s].version = book[s].version + 1
           /\ book'[s].total = book[s].total /\ book'[s].mode = book[s].mode
           /\ book'[s].commercial = book[s].commercial /\ book'[s].corrections = book[s].corrections
           /\ book' = [q \in Shipments |-> IF q = s THEN book'[s] ELSE book[q]]
           /\ UNCHANGED <<awbSeq, prep, form>>
<1> DEFINE p == [book[s] EXCEPT !.version = book[s].version + 1]
           b == AppendShipmentEvent(p, "CANCELLED")
<1>1. IsBook(book[s]) BY DEF Desk, Columns
<1>2. /\ IsBook(p) /\ p.awb = book[s].awb /\ p.total = book[s].total
      /\ p.version = book[s].version + 1 /\ p.mode = book[s].mode
      /\ p.commercial = book[s].commercial /\ p.corrections = book[s].corrections
  BY <1>1, VersionLemma
<1>3. Booked(s) /\ book' = [book EXCEPT ![s] = b] /\ UNCHANGED <<awbSeq, prep, form>>
  BY DEF Cancelled
<1> HIDE DEF p
<1>4. /\ IsBook(b) /\ b.awb = p.awb /\ b.total = p.total /\ b.version = p.version /\ b.mode = p.mode
      /\ b.commercial = p.commercial /\ b.corrections = p.corrections
  BY <1>2, EventLemma
<1> HIDE DEF b
<1>5. book'[s] = b /\ book' = [q \in Shipments |-> IF q = s THEN b ELSE book[q]]
  BY <1>3 DEF Desk, Columns
<1>6. QED BY <1>2, <1>3, <1>4, <1>5

LEMMA CorrectLemma ==
    ASSUME Desk, NEW u \in Editors, NEW ref, Correct(u, ref), NEW s, s = form[u].ship
    PROVE  /\ form[u] # Nil /\ s \in Shipments /\ Booked(s)
           /\ form[u].version = book[s].version
           /\ IsBook(book'[s]) /\ book'[s].awb = book[s].awb
           /\ book'[s].version = book[s].version + 1
           /\ book'[s].total = book[s].total /\ book'[s].mode = book[s].mode
           /\ book'[s].commercial = book[s].commercial
           /\ book' = [q \in Shipments |-> IF q = s THEN book'[s] ELSE book[q]]
           /\ form' = [v \in Editors |-> IF v = u THEN Nil ELSE form[v]]
           /\ UNCHANGED <<awbSeq, prep>>
<1>1. form[u] # Nil /\ s \in Shipments /\ Booked(s)
  BY DEF Desk, Forms, Correct
<1> DEFINE r == [book[s] EXCEPT !.ref = ref, !.version = book[s].version + 1]
           p == CreateShipmentAddressCorrection(r, u)
           b == AppendShipmentEvent(p, "REMARK")
<1>2. IsBook(book[s]) BY <1>1 DEF Desk, Columns
<1>3. /\ IsBook(p) /\ p.awb = book[s].awb /\ p.total = book[s].total
      /\ p.version = book[s].version + 1 /\ p.mode = book[s].mode
      /\ p.commercial = book[s].commercial
  <2>1. r = [c \in BookColumns |-> IF c = "version" THEN book[s].version + 1
                                   ELSE IF c = "ref" THEN ref ELSE book[s][c]]
    BY <1>2 DEF IsBook, BookColumns
  <2> HIDE DEF r
  <2>2. QED BY <1>2, <2>1, CorrectionLemma
<1>4. /\ form[u].version = book[s].version
      /\ book' = [book EXCEPT ![s] = b] /\ form' = [form EXCEPT ![u] = Nil] /\ UNCHANGED <<awbSeq, prep>>
  BY DEF Correct, CorrectBookedShipment
<1> HIDE DEF p, r
<1>5. /\ IsBook(b) /\ b.awb = p.awb /\ b.total = p.total /\ b.version = p.version /\ b.mode = p.mode
      /\ b.commercial = p.commercial
  BY <1>3, EventLemma
<1> HIDE DEF b
<1>6. /\ book'[s] = b /\ book' = [q \in Shipments |-> IF q = s THEN b ELSE book[q]]
      /\ form' = [v \in Editors |-> IF v = u THEN Nil ELSE form[v]]
  BY <1>1, <1>4 DEF Desk, Columns
<1>7. QED BY <1>1, <1>3, <1>4, <1>5, <1>6

\* A booked shipment stays booked, and a row's terms stay as they were booked.
LEMMA DeskFate ==
    ASSUME Desk, NEW s \in Shipments, NEW t \in Shipments, IsBook(book'[s]),
           book'[s].awb = book[s].awb, book'[s].mode = book[s].mode,
           book'[s].commercial = book[s].commercial,
           book' = [q \in Shipments |-> IF q = s THEN book'[s] ELSE book[q]]
    PROVE  /\ Booked(t)' <=> Booked(t)
           /\ IsBook(book'[t])
           /\ PayerKnown(book[t]) => PayerKnown(book'[t])
<1>1. CASE t = s BY <1>1 DEF Booked, PayerKnown
<1>2. CASE t # s
  <2>1. book'[t] = book[t] BY <1>2
  <2>2. QED BY <2>1 DEF Booked, Desk, Columns
<1>3. QED BY <1>1, <1>2

LEMMA DeskStep == Desk /\ [Next]_vars => Desk'
<1> SUFFICES ASSUME Desk, [Next]_vars PROVE Desk'
  OBVIOUS
<1>1. ASSUME bookKept PROVE Desk' BY <1>1, DeskKept
<1>2. ASSUME NEW s \in Shipments, NEW o \in Orders[s], Prepare(s, o) PROVE Desk'
  <2> DEFINE b == buildShipmentParams(s, o, awbSeq + 1)
  <2>1. /\ ~Booked(s) /\ awbSeq' = awbSeq + 1 /\ prep' = [prep EXCEPT ![s] = b]
        /\ UNCHANGED <<book, form>>
    BY <1>2 DEF Prepare, Allocate, AllocateAWBNumber
  <2>2. IsBook(b) /\ b.awb # 0 /\ b.corrections = << >> /\ PayerKnown(b)
    BY <1>2, ParamsLemma DEF Prepare, Desk
  <2> HIDE DEF b
  <2>3. awbSeq' \in Nat /\ prep' = [q \in Shipments |-> IF q = s THEN b ELSE prep[q]]
    BY <2>1 DEF Desk, Columns
  <2>4. Columns' BY <2>1, <2>3 DEF Desk, Columns
  <2>5. Prepared' BY <2>1, <2>2, <2>3 DEF Desk, Prepared, Booked
  <2>6. QED BY <2>1, <2>4, <2>5 DEF Desk, Payers, Forms, Booked
<1>3. ASSUME NEW s \in Shipments, NEW o \in Orders[s], PrepareExhausted(s, o) PROVE Desk'
  <2>1. awbSeq' \in Nat /\ UNCHANGED <<prep, book, form>>
    BY <1>3 DEF PrepareExhausted, Desk, Columns
  <2>2. QED BY <2>1 DEF Desk, Columns, Prepared, Payers, Forms, Booked
<1>4. ASSUME NEW s \in Shipments, Commit(s) PROVE Desk'
  <2> DEFINE b == book'[s]
  <2>1. /\ ~Booked(s) /\ Booked(s)' /\ IsBook(b) /\ PayerKnown(prep[s])
        /\ b.mode = prep[s].mode /\ b.commercial = prep[s].commercial
        /\ book' = [q \in Shipments |-> IF q = s THEN b ELSE book[q]]
        /\ prep' = [q \in Shipments |-> IF q = s THEN Nil ELSE prep[q]]
        /\ UNCHANGED <<awbSeq, form>>
    BY <1>4, CommitLemma
  <2>2. b.awb # 0 BY <2>1 DEF Booked
  <2> HIDE DEF b
  <2>3. Columns' BY <2>1 DEF Desk, Columns
  <2>4. Prepared' BY <2>1 DEF Desk, Prepared, Booked
  <2>5. Payers' BY <2>1 DEF Desk, Payers, PayerKnown, Booked
  <2>6. Forms'
    <3>1. ASSUME NEW u \in Editors, form[u] # Nil PROVE form[u].ship # s
      BY <2>1, <3>1 DEF Desk, Forms
    <3>2. QED BY <2>1, <3>1 DEF Desk, Forms, Booked
  <2>7. QED BY <2>3, <2>4, <2>5, <2>6 DEF Desk
<1>5. ASSUME NEW s \in Shipments, Abandon(s) PROVE Desk'
  <2>1. UNCHANGED <<awbSeq, book, form>> /\ prep' = [q \in Shipments |-> IF q = s THEN Nil ELSE prep[q]]
    BY <1>5 DEF Abandon, Desk, Columns
  <2>2. QED BY <2>1 DEF Desk, Columns, Prepared, Payers, Forms, Booked
<1>6. ASSUME NEW s \in Shipments, Cancelled(s) PROVE Desk'
  <2> DEFINE b == book'[s]
  <2>1. /\ IsBook(b) /\ b.awb = book[s].awb /\ b.version = book[s].version + 1 /\ b.mode = book[s].mode
        /\ b.commercial = book[s].commercial /\ b.corrections = book[s].corrections
        /\ book' = [q \in Shipments |-> IF q = s THEN b ELSE book[q]]
        /\ UNCHANGED <<awbSeq, prep, form>>
    BY <1>6, CancelledLemma
  <2>2. \A q \in Shipments : /\ Booked(q)' <=> Booked(q)
                             /\ IsBook(book'[q]) /\ (PayerKnown(book[q]) => PayerKnown(book'[q]))
    BY <2>1, DeskFate
  <2>3. book[s].version \in Nat BY DEF Desk, Columns, IsBook
  <2> HIDE DEF b
  <2>4. Columns'
    <3>1. book' = [q \in Shipments |-> book'[q]] BY <2>1
    <3>2. QED BY <2>1, <2>2, <3>1 DEF Desk, Columns
  <2>5. Prepared' BY <2>1, <2>2 DEF Desk, Prepared
  <2>6. Payers' BY <2>2 DEF Desk, Payers
  <2>7. Forms' BY <2>1, <2>2, <2>3 DEF Desk, Forms
  <2>8. QED BY <2>4, <2>5, <2>6, <2>7 DEF Desk
<1>7. ASSUME NEW u \in Editors, NEW s \in Shipments, Open(u, s) PROVE Desk'
  <2>1. /\ Booked(s) /\ UNCHANGED <<awbSeq, prep, book>>
        /\ form' = [v \in Editors |-> IF v = u THEN [ship |-> s, version |-> book[s].version,
                                                     text |-> book[s].corrections] ELSE form[v]]
    BY <1>7 DEF Open, ListLatestShipmentAddressCorrections, Desk, Columns
  <2>2. book[s].version \in Nat BY DEF Desk, Columns, IsBook
  <2>3. Forms' BY <2>1, <2>2 DEF Desk, Forms, Booked
  <2>4. QED BY <2>1, <2>3 DEF Desk, Columns, Prepared, Payers, Booked
<1>8. ASSUME NEW u \in Editors, NEW ref, Correct(u, ref) PROVE Desk'
  <2> DEFINE s == form[u].ship
             b == book'[s]
  <2>1. /\ s \in Shipments /\ IsBook(b) /\ b.awb = book[s].awb /\ b.version = book[s].version + 1
        /\ b.mode = book[s].mode /\ b.commercial = book[s].commercial
        /\ book' = [q \in Shipments |-> IF q = s THEN b ELSE book[q]]
        /\ form' = [v \in Editors |-> IF v = u THEN Nil ELSE form[v]]
        /\ UNCHANGED <<awbSeq, prep>>
    BY <1>8, CorrectLemma
  <2>2. \A q \in Shipments : /\ Booked(q)' <=> Booked(q)
                             /\ IsBook(book'[q]) /\ (PayerKnown(book[q]) => PayerKnown(book'[q]))
    BY <2>1, DeskFate
  <2>3. book[s].version \in Nat BY <2>1 DEF Desk, Columns, IsBook
  <2> HIDE DEF b, s
  <2>4. Columns'
    <3>1. book' = [q \in Shipments |-> book'[q]] BY <2>1
    <3>2. form' = [v \in Editors |-> form'[v]] BY <2>1
    <3>3. QED BY <2>1, <2>2, <3>1, <3>2 DEF Desk, Columns
  <2>5. Prepared' BY <2>1, <2>2 DEF Desk, Prepared
  <2>6. Payers' BY <2>2 DEF Desk, Payers
  <2>7. Forms' BY <2>1, <2>2, <2>3 DEF Desk, Forms
  <2>8. QED BY <2>4, <2>5, <2>6, <2>7 DEF Desk
<1>9. ASSUME NEW u \in Editors, Close(u) PROVE Desk'
  <2>1. UNCHANGED <<awbSeq, prep, book>> /\ form' = [v \in Editors |-> IF v = u THEN Nil ELSE form[v]]
    BY <1>9 DEF Close, Desk, Columns
  <2>2. QED BY <2>1 DEF Desk, Columns, Prepared, Payers, Forms, Booked
<1>10. CASE UNCHANGED vars
  BY <1>1, <1>10 DEF vars, bookVars, bookKept
<1>11. ASSUME NEW s \in Shipments, Book(s) PROVE Desk'
  BY <1>1, <1>2, <1>3, <1>4, <1>5, <1>6, <1>11, DeskOthers DEF Book
<1>12. ASSUME NEW u \in Editors, Edit(u) PROVE Desk'
  BY <1>7, <1>8, <1>9, <1>12 DEF Edit
<1>13. QED
  BY <1>1, <1>10, <1>11, <1>12, DeskOthers DEF Next

LEMMA DeskInit == Init => Desk
<1> SUFFICES ASSUME Init PROVE Desk
  OBVIOUS
<1>1. IsBook(NotBooked)
  BY DEF IsBook, NotBooked, BookColumns
<1>2. NotBooked.awb = 0 BY DEF NotBooked
<1>3. QED
  BY <1>1, <1>2
  DEF Init, BookingInit, Desk, Columns, Prepared, Payers, Forms, Booked

THEOREM DeskInvariant == Spec => []Desk
  BY DeskInit, DeskStep, PTL DEF Spec

\* A correction is saved only by an editor whose form shows every earlier one.
THEOREM NoCorrectionLost == Spec => NoLostCorrection
<1> DEFINE Seen(s) ==
        Len(book'[s].corrections) > Len(book[s].corrections) =>
              \E u \in Editors : /\ form[u] # Nil /\ form[u].ship = s
                                 /\ form[u].text = book[s].corrections
                                 /\ form'[u] = Nil
<1>1. Desk /\ [Next]_vars => [\A s \in Shipments : Seen(s)]_vars
  <2> SUFFICES ASSUME Desk, Next, NEW s \in Shipments PROVE Seen(s)
    OBVIOUS
  <2>1. book[s].corrections \in Seq(Editors) /\ Len(book[s].corrections) \in Nat
    BY DEF Desk, Columns, IsBook
  <2>2. CASE book'[s].corrections = book[s].corrections BY <2>1, <2>2
  <2>3. CASE book'[s].corrections = << >> BY <2>1, <2>3
  <2>4. CASE UNCHANGED book BY <2>2, <2>4
  <2>5. ASSUME NEW t \in Shipments, Book(t) PROVE Seen(s)
    <3>1. CASE Commit(t)
      <4>1. book'[t].corrections = << >> /\ book' = [q \in Shipments |-> IF q = t THEN book'[t] ELSE book[q]]
        BY <3>1, CommitLemma
      <4>2. QED BY <2>2, <2>3, <4>1
    <3>2. CASE Cancelled(t)
      <4>1. /\ book'[t].corrections = book[t].corrections
            /\ book' = [q \in Shipments |-> IF q = t THEN book'[t] ELSE book[q]]
        BY <3>2, CancelledLemma
      <4>2. QED BY <2>2, <4>1
    <3>3. CASE UNCHANGED book BY <2>4, <3>3
    <3>4. QED BY <2>5, <3>1, <3>2, <3>3 DEF Book, Preview, Prepare, PrepareExhausted, Abandon
  <2>6. ASSUME NEW u \in Editors, Edit(u) PROVE Seen(s)
    <3>1. ASSUME NEW ref, Correct(u, ref) PROVE Seen(s)
      <4>1. /\ form[u] # Nil /\ form[u].ship \in Shipments
            /\ form[u].version = book[form[u].ship].version
            /\ book' = [q \in Shipments |-> IF q = form[u].ship THEN book'[form[u].ship] ELSE book[q]]
            /\ form' = [v \in Editors |-> IF v = u THEN Nil ELSE form[v]]
        BY <3>1, CorrectLemma
      <4>2. form[u].text = book[form[u].ship].corrections
        BY <4>1 DEF Desk, Forms
      <4>3. CASE form[u].ship = s BY <4>1, <4>2, <4>3
      <4>4. CASE form[u].ship # s BY <2>2, <4>1, <4>4
      <4>5. QED BY <4>3, <4>4
    <3>2. CASE UNCHANGED book BY <2>4, <3>2
    <3>3. QED BY <2>6, <3>1, <3>2 DEF Edit, Open, Close
  <2>7. QED BY <2>4, <2>5, <2>6, DeskOthers DEF Next, bookKept
<1>2. QED BY <1>1, DeskInvariant, PTL DEF Spec, NoLostCorrection

-----------------------------------------------------------------------------
(***************************************************************************)
(* Collections.  A parcel is on a request only after it was booked, and it *)
(* is written PICKED_UP on a request only by the step that takes it out of *)
(* PICKUP_ASSIGNED; nothing brings a collected parcel back to waiting.     *)
(***************************************************************************)
Waiting == {"BOOKED", "PICKUP_SCHEDULED", "PICKUP_ASSIGNED"}

ShipColumns == {"status", "dir", "held", "unit", "user", "bag", "trip"}

IsShip(r) == r = [c \in ShipColumns |-> r[c]]

Parcels ==
    /\ ship = [s \in Shipments |-> ship[s]] /\ \A s \in Shipments : IsShip(ship[s])
    /\ seen = [r \in Requests |-> seen[r]]
    /\ \A r \in Requests : \A s \in DOMAIN seen[r] : s \in Shipments /\ Booked(s)
    /\ link = [r \in Requests |-> [s \in Shipments |-> link[r][s]]]
    /\ \A r \in Requests, s \in Shipments : link[r][s] # "NONE" => Booked(s)

OneRequest ==
    \A s \in Shipments : \A r \in Requests : link[r][s] = "PICKED_UP" =>
        /\ ship[s].status \notin Waiting \cup {"CANCELLED"}
        /\ \A q \in Requests : link[q][s] = "PICKED_UP" => q = r

\* The rows of the table around a collection.
LEMMA WaitingTable ==
    ASSUME NEW f
    PROVE  /\ Find(f, "PICKED_UP") => f = "PICKUP_ASSIGNED"
           /\ \A to \in Waiting \cup {"CANCELLED"} : Find(f, to) => f \in Waiting
           /\ \A to \in {"ORIGIN_BRANCH_RECEIVED", "TRANSIT_HUB_RECEIVED",
                         "DESTINATION_HUB_RECEIVED", "DESTINATION_BRANCH_RECEIVED"} :
                 Find(f, to) => f # "CANCELLED"
  BY DEF Find, transitions, CustodyNone, CustodyHolder, CustodyDestinationBranch,
         CustodyAgent, CustodyAnyFacility, Waiting

\* What the engine writes.
LEMMA MovedShip ==
    ASSUME NEW r, IsShip(r), NEW q, q.dir = Nil
    PROVE  IsShip(Moved(r, q)) /\ Moved(r, q).status = q.to
<1>1. Moved(r, q) = [r EXCEPT !.status = q.to, !.dir = r.dir]
  BY DEF Moved
<1> DEFINE m == [r EXCEPT !.status = q.to, !.dir = r.dir]
<1>2. m = [c \in ShipColumns |-> IF c = "status" THEN q.to ELSE IF c = "dir" THEN r.dir ELSE r[c]]
  BY DEF IsShip, ShipColumns
<1> HIDE DEF m
<1>3. IsShip(m) /\ m.status = q.to BY <1>2 DEF IsShip, ShipColumns
<1>4. QED BY <1>1, <1>3 DEF m

LEMMA RequestLemma ==
    ASSUME NEW to, NEW at
    PROVE  Request(to, at).to = to /\ Request(to, at).dir = Nil
  BY DEF Request

\* What a step on the collections may do to a parcel.
Carried(s) ==
    /\ IsShip(ship'[s])
    /\ \/ ship'[s] = ship[s]
       \/ ship[s].status \in Waiting /\ ship'[s].status # "CANCELLED"

AllCarried == ship' = [s \in Shipments |-> ship'[s]] /\ \A s \in Shipments : Carried(s)

LEMMA FollowLemma ==
    ASSUME Parcels, NEW r, NEW to \in Waiting, moveLinkedShipments(r, to)
    PROVE  AllCarried
<1> DEFINE q == Request(to, preq[r].branch)
           F == Followers(r, to)
<1>1. ship' = [s \in Shipments |-> IF s \in F THEN Moved(ship[s], q) ELSE ship[s]]
  BY DEF moveLinkedShipments
<1>2. \A s \in F : s \in Shipments /\ ship[s].status \in Waiting
  BY WaitingTable DEF Followers, Pending, ListPickupRequestShipments
<1>3. q.to = to /\ q.dir = Nil BY RequestLemma
<1> HIDE DEF q, F
<1>4. ASSUME NEW s \in Shipments PROVE Carried(s)
  <2>1. IsShip(ship[s]) BY DEF Parcels
  <2>2. CASE s \in F
    <3>1. ship'[s] = Moved(ship[s], q) BY <1>1, <2>2
    <3>2. IsShip(ship'[s]) /\ ship'[s].status = to BY <1>3, <2>1, <3>1, MovedShip
    <3>3. QED BY <1>2, <2>2, <3>2 DEF Carried, Waiting
  <2>3. CASE s \notin F
    <3>1. ship'[s] = ship[s] BY <1>1, <2>3
    <3>2. QED BY <2>1, <3>1 DEF Carried
  <2>4. QED BY <2>2, <2>3
<1>5. QED BY <1>1, <1>4 DEF AllCarried

LEMMA ShipKept ==
    ASSUME Parcels, UNCHANGED ship
    PROVE  AllCarried
  BY DEF Parcels, AllCarried, Carried

LEMMA CreateLemma ==
    ASSUME Parcels, NEW r \in Requests, NEW type, NEW at, Create(r, type, at)
    PROVE  AllCarried
<1> DEFINE q == Request("PICKUP_SCHEDULED", at)
           M == {s \in DOMAIN seen[r] : seen[r][s] = "BOOKED"}
<1>1. ship' = [s \in Shipments |-> IF s \in M THEN Moved(ship[s], q) ELSE ship[s]]
  BY DEF Create
<1>2. \A s \in M : ship[s].status = "BOOKED"
  BY DEF Create, scheduled
<1>3. q.to = "PICKUP_SCHEDULED" /\ q.dir = Nil BY RequestLemma
<1> HIDE DEF q, M
<1>4. ASSUME NEW s \in Shipments PROVE Carried(s)
  <2>1. IsShip(ship[s]) BY DEF Parcels
  <2>2. CASE s \in M
    <3>1. ship'[s] = Moved(ship[s], q) BY <1>1, <2>2
    <3>2. IsShip(ship'[s]) /\ ship'[s].status = "PICKUP_SCHEDULED" BY <1>3, <2>1, <3>1, MovedShip
    <3>3. QED BY <1>2, <2>2, <3>2 DEF Carried, Waiting
  <2>3. CASE s \notin M
    <3>1. ship'[s] = ship[s] BY <1>1, <2>3
    <3>2. QED BY <2>1, <3>1 DEF Carried
  <2>4. QED BY <2>2, <2>3
<1>5. QED BY <1>1, <1>4 DEF AllCarried

LEMMA HandoverLemma ==
    ASSUME Parcels, NEW r \in Requests, NEW C, NEW outcome, NEW by, NEW e,
           applyCollection(r, C, outcome, by, e)
    PROVE  /\ AllCarried
           /\ \A s \in C : /\ s \in Shipments /\ link[r][s] = "PENDING"
                           /\ ship[s].status = "PICKUP_ASSIGNED" /\ ship'[s].status = "PICKED_UP"
<1> DEFINE q == Request("PICKED_UP", preq[r].branch)
<1>1. /\ C \subseteq Pending(r) /\ \A s \in C : CanApply(s, ship[s], q)
      /\ ship' = [s \in Shipments |->
                    IF s \in C THEN [Moved(ship[s], q) EXCEPT !.user = by, !.unit = preq[r].branch]
                    ELSE ship[s]]
  BY DEF applyCollection
<1>2. \A s \in C : s \in Shipments /\ link[r][s] = "PENDING"
  BY <1>1 DEF Pending, ListPickupRequestShipments
<1>3. q.to = "PICKED_UP" /\ q.dir = Nil BY RequestLemma
<1>4. \A s \in C : ship[s].status = "PICKUP_ASSIGNED"
  BY <1>1, <1>3, WaitingTable DEF CanApply, ValidateDirection
<1> HIDE DEF q
<1>5. ASSUME NEW s \in Shipments, s \in C PROVE IsShip(ship'[s]) /\ ship'[s].status = "PICKED_UP"
  <2> DEFINE m == Moved(ship[s], q)
  <2>1. IsShip(ship[s]) BY DEF Parcels
  <2>2. IsShip(m) /\ m.status = "PICKED_UP" BY <1>3, <2>1, MovedShip
  <2>3. ship'[s] = [m EXCEPT !.user = by, !.unit = preq[r].branch] BY <1>1, <1>5
  <2> HIDE DEF m
  <2>4. ship'[s] = [c \in ShipColumns |-> IF c = "unit" THEN preq[r].branch
                                         ELSE IF c = "user" THEN by ELSE m[c]]
    BY <2>2, <2>3 DEF IsShip, ShipColumns
  <2>5. QED BY <2>2, <2>4 DEF IsShip, ShipColumns
<1>6. ASSUME NEW s \in Shipments PROVE Carried(s)
  <2>1. CASE s \in C BY <1>4, <1>5, <2>1 DEF Carried, Waiting
  <2>2. CASE s \notin C
    <3>1. ship'[s] = ship[s] BY <1>1, <2>2
    <3>2. QED BY <3>1 DEF Carried, Parcels
  <2>3. QED BY <2>1, <2>2
<1>7. QED BY <1>1, <1>2, <1>4, <1>5, <1>6 DEF AllCarried

\* What a step on the collections may do to what Create has read, and to the
\* requests' lines.
Read ==
    /\ seen' = [r \in Requests |-> seen'[r]]
    /\ \A r \in Requests : \A s \in DOMAIN seen'[r] : s \in Shipments /\ Booked(s)

Lined ==
    /\ Read
    /\ link' = [r \in Requests |-> [s \in Shipments |-> link'[r][s]]]
    /\ \A r \in Requests, s \in Shipments :
          /\ link'[r][s] # "NONE" => Booked(s)
          /\ link'[r][s] = "PICKED_UP" =>
                \/ link[r][s] = "PICKED_UP"
                \/ ship[s].status = "PICKUP_ASSIGNED" /\ ship'[s].status = "PICKED_UP"
    /\ \A r, q \in Requests, s \in Shipments :
          link'[r][s] = "PICKED_UP" /\ link'[q][s] = "PICKED_UP" /\ r # q =>
              link[r][s] = "PICKED_UP" \/ link[q][s] = "PICKED_UP"

LEMMA ReadKept ==
    ASSUME Parcels, \/ UNCHANGED seen
                    \/ \E r \in Requests : seen' = [seen EXCEPT ![r] = NotRead]
    PROVE  Read
<1>1. CASE UNCHANGED seen BY <1>1 DEF Parcels, Read
<1>2. ASSUME NEW r \in Requests, seen' = [seen EXCEPT ![r] = NotRead] PROVE Read
  <2>1. DOMAIN NotRead = {} BY DEF NotRead
  <2>2. seen' = [q \in Requests |-> IF q = r THEN NotRead ELSE seen[q]]
    BY <1>2 DEF Parcels
  <2>3. QED BY <2>1, <2>2 DEF Parcels, Read
<1>3. QED BY <1>1, <1>2

LEMMA LinesKept == ASSUME Parcels, UNCHANGED link, Read PROVE Lined
  BY DEF Lined, Parcels

\* The step reads the shipments: they must be booked.
LEMMA ReadLemma ==
    ASSUME Parcels, NEW r \in Requests, NEW S \in SUBSET {s \in Shipments : Booked(s)},
           loadLinkableShipments(r, S)
    PROVE  Lined
<1> DEFINE f == [s \in S |-> ship[s].status]
<1>1. seen' = [q \in Requests |-> IF q = r THEN f ELSE seen[q]] /\ UNCHANGED link
  BY DEF loadLinkableShipments, Parcels
<1>2. DOMAIN f = S OBVIOUS
<1> HIDE DEF f
<1>3. Read BY <1>1, <1>2 DEF Parcels, Read
<1>4. QED BY <1>1, <1>3, LinesKept

\* The lines of one request are rewritten, some as PICKED_UP.
LEMMA LineLemma ==
    ASSUME Parcels, NEW r \in Requests, NEW new,
           link' = [link EXCEPT ![r] = [s \in Shipments |-> new[s]]],
           \A s \in Shipments :
               /\ new[s] # "NONE" => Booked(s)
               /\ new[s] = "PICKED_UP" =>
                     \/ link[r][s] = "PICKED_UP"
                     \/ ship[s].status = "PICKUP_ASSIGNED" /\ ship'[s].status = "PICKED_UP",
           Read
    PROVE  Lined
<1>2. link' = [q \in Requests |-> [s \in Shipments |-> IF q = r THEN new[s] ELSE link[q][s]]]
  BY DEF Parcels
<1>3. \A q \in Requests, s \in Shipments : link'[q][s] = IF q = r THEN new[s] ELSE link[q][s]
  BY <1>2
<1>4. link' = [q \in Requests |-> [s \in Shipments |-> link'[q][s]]]
  BY <1>2
<1>5. \A q \in Requests, s \in Shipments :
          /\ link'[q][s] # "NONE" => Booked(s)
          /\ link'[q][s] = "PICKED_UP" =>
                \/ link[q][s] = "PICKED_UP"
                \/ ship[s].status = "PICKUP_ASSIGNED" /\ ship'[s].status = "PICKED_UP"
  BY <1>3 DEF Parcels
<1>6. \A p, q \in Requests, s \in Shipments :
          link'[p][s] = "PICKED_UP" /\ link'[q][s] = "PICKED_UP" /\ p # q =>
              link[p][s] = "PICKED_UP" \/ link[q][s] = "PICKED_UP"
  BY <1>3
<1>7. QED BY <1>4, <1>5, <1>6 DEF Lined

LEMMA CollectLemma ==
    ASSUME Parcels, Collect
    PROVE  AllCarried /\ Lined
<1>1. ASSUME NEW r \in Requests, NEW S \in SUBSET {s \in Shipments : Booked(s)},
             loadLinkableShipments(r, S)
      PROVE  AllCarried /\ Lined
  BY <1>1, ShipKept, ReadLemma DEF loadLinkableShipments
<1>2. ASSUME NEW r \in Requests, NEW type, NEW at, Create(r, type, at) PROVE AllCarried /\ Lined
  <2>1. AllCarried BY <1>2, CreateLemma
  <2> DEFINE new == [s \in Shipments |-> IF s \in DOMAIN seen[r] THEN "PENDING" ELSE link[r][s]]
  <2>2. link' = [link EXCEPT ![r] = [s \in Shipments |-> new[s]]]
    BY <1>2 DEF Create, AddShipmentToPickupRequest
  <2>3. Read BY <1>2, ReadKept DEF Create
  <2>4. \A s \in Shipments : /\ new[s] # "NONE" => Booked(s)
                             /\ new[s] = "PICKED_UP" => link[r][s] = "PICKED_UP"
    BY DEF Parcels
  <2> HIDE DEF new
  <2>5. \A s \in Shipments :
           /\ new[s] # "NONE" => Booked(s)
           /\ new[s] = "PICKED_UP" =>
                 \/ link[r][s] = "PICKED_UP"
                 \/ ship[s].status = "PICKUP_ASSIGNED" /\ ship'[s].status = "PICKED_UP"
    BY <2>4
  <2>6. Lined BY <2>2, <2>3, <2>5, LineLemma
  <2>7. QED BY <2>1, <2>6
<1>3. ASSUME NEW r \in Requests, CreateRefused(r) PROVE AllCarried /\ Lined
  BY <1>3, ShipKept, ReadKept, LinesKept DEF CreateRefused
<1>4. ASSUME NEW r \in Requests, NEW a, NEW u, NEW k, NEW stop, Assign(r, a, u, k, stop)
      PROVE  AllCarried /\ Lined
  <2>1. moveLinkedShipments(r, "PICKUP_ASSIGNED") /\ UNCHANGED <<seen, link>>
    BY <1>4 DEF Assign
  <2>2. QED BY <2>1, FollowLemma, ReadKept, LinesKept DEF Waiting
<1>5. ASSUME NEW r \in Requests, NEW outcome, NEW C, NEW u, NEW e, Complete(r, outcome, C, u, e)
      PROVE  AllCarried /\ Lined
  <2>1. applyCollection(r, C, outcome, u, e) /\ UNCHANGED seen BY <1>5 DEF Complete
  <2>2. /\ AllCarried
        /\ \A s \in C : /\ link[r][s] = "PENDING"
                        /\ ship[s].status = "PICKUP_ASSIGNED" /\ ship'[s].status = "PICKED_UP"
    BY <2>1, HandoverLemma
  <2> DEFINE new == [s \in Shipments |->
                        IF s \in C THEN "PICKED_UP"
                        ELSE IF outcome \in {"COMPLETED", "PARTIAL"} /\ s \in Pending(r)
                        THEN "NOT_AVAILABLE" ELSE link[r][s]]
  <2>3. link' = [link EXCEPT ![r] = [s \in Shipments |-> new[s]]]
    BY <2>1 DEF applyCollection
  <2>4. \A s \in Shipments :
           /\ new[s] # "NONE" => Booked(s)
           /\ new[s] = "PICKED_UP" =>
                 \/ link[r][s] = "PICKED_UP"
                 \/ ship[s].status = "PICKUP_ASSIGNED" /\ ship'[s].status = "PICKED_UP"
    BY <2>2 DEF Parcels, Pending
  <2> HIDE DEF new
  <2>5. Read BY <2>1, ReadKept
  <2>6. QED BY <2>2, <2>3, <2>4, <2>5, LineLemma, ZenonT(60)
<1>6. ASSUME NEW r \in Requests, Cancel(r) PROVE AllCarried /\ Lined
  <2>1. AllCarried
    BY <1>6, FollowLemma DEF Cancel, Waiting
  <2> DEFINE new == [s \in Shipments |-> IF s \in Pending(r) THEN "CANCELLED" ELSE link[r][s]]
  <2>2. link' = [link EXCEPT ![r] = [s \in Shipments |-> new[s]]] /\ UNCHANGED seen
    BY <1>6 DEF Cancel, UpdatePickupRequestShipmentStatus
  <2>3. \A s \in Shipments : /\ new[s] # "NONE" => Booked(s)
                             /\ new[s] = "PICKED_UP" => link[r][s] = "PICKED_UP"
    BY DEF Parcels, Pending
  <2> HIDE DEF new
  <2>4. Read BY <2>2, ReadKept
  <2>5. QED BY <2>1, <2>2, <2>3, <2>4, LineLemma
<1>7. ASSUME NEW a, NEW accept \in BOOLEAN, Respond(a, accept) PROVE AllCarried /\ Lined
  <2>1. UNCHANGED <<seen, link>> /\ (UNCHANGED ship \/ moveLinkedShipments(asg[a].req, "PICKUP_SCHEDULED"))
    BY <1>7 DEF Respond
  <2>2. QED BY <2>1, ShipKept, FollowLemma, ReadKept, LinesKept DEF Waiting
<1>8. ASSUME NEW a, Arrive(a) PROVE AllCarried /\ Lined
  BY <1>8, ShipKept, ReadKept, LinesKept DEF Arrive
<1>9. ASSUME NEW k, NEW u, CreateRun(k, u) PROVE AllCarried /\ Lined
  BY <1>9, ShipKept, ReadKept, LinesKept DEF CreateRun
<1>10. QED
  BY <1>1, <1>2, <1>3, <1>4, <1>5, <1>6, <1>7, <1>8, <1>9 DEF Collect

\* A booked shipment stays booked.
LEMMA BookedStays ==
    ASSUME Desk, [Next]_vars, NEW s \in Shipments, Booked(s)
    PROVE  Booked(s)'
<1>1. CASE UNCHANGED book BY <1>1 DEF Booked
<1>2. ASSUME NEW t \in Shipments, Book(t) PROVE Booked(s)'
  <2>1. CASE Commit(t)
    <3>1. Booked(t)' /\ book' = [q \in Shipments |-> IF q = t THEN book'[t] ELSE book[q]]
      BY <2>1, CommitLemma
    <3>2. QED BY <3>1 DEF Booked
  <2>2. CASE Cancelled(t)
    <3>1. /\ book'[t].awb = book[t].awb
          /\ book' = [q \in Shipments |-> IF q = t THEN book'[t] ELSE book[q]]
      BY <2>2, CancelledLemma
    <3>2. QED BY <3>1 DEF Booked
  <2>3. CASE UNCHANGED book BY <1>1, <2>3
  <2>4. QED BY <1>2, <2>1, <2>2, <2>3 DEF Book, Preview, Prepare, PrepareExhausted, Abandon
<1>3. ASSUME NEW u \in Editors, Edit(u) PROVE Booked(s)'
  <2>1. ASSUME NEW ref, Correct(u, ref) PROVE Booked(s)'
    <3> DEFINE t == form[u].ship
    <3>1. /\ t \in Shipments /\ book'[t].awb = book[t].awb
          /\ book' = [q \in Shipments |-> IF q = t THEN book'[t] ELSE book[q]]
      BY <2>1, CorrectLemma
    <3> HIDE DEF t
    <3>2. QED BY <3>1 DEF Booked
  <2>2. CASE UNCHANGED book BY <1>1, <2>2
  <2>3. QED BY <1>3, <2>1, <2>2 DEF Edit, Open, Close
<1>4. CASE UNCHANGED vars BY <1>1, <1>4 DEF vars, bookVars
<1>5. QED BY <1>1, <1>2, <1>3, <1>4, DeskOthers DEF Next, bookKept

\* What any step may do to a parcel's row: a commit starts it, a cancellation
\* takes it from waiting, and a collected parcel goes on.
Gone(st) == st \notin Waiting \cup {"CANCELLED"}

Fated(s) ==
    /\ IsShip(ship'[s])
    /\ Booked(s) /\ Gone(ship[s].status) => Gone(ship'[s].status)

AllFated == ship' = [s \in Shipments |-> ship'[s]] /\ \A s \in Shipments : Fated(s)

\* The row of one parcel is written.
LEMMA OneFated ==
    ASSUME Parcels, NEW s \in Shipments, NEW r, IsShip(r), ship' = [ship EXCEPT ![s] = r],
           Booked(s) /\ Gone(ship[s].status) => Gone(r.status)
    PROVE  AllFated
<1>1. ship' = [t \in Shipments |-> IF t = s THEN r ELSE ship[t]] BY DEF Parcels
<1>2. ASSUME NEW t \in Shipments PROVE Fated(t)
  <2>1. CASE t = s
    <3>1. ship'[t] = r BY <1>1, <2>1
    <3>2. QED BY <2>1, <3>1 DEF Fated
  <2>2. CASE t # s
    <3>1. ship'[t] = ship[t] BY <1>1, <2>2
    <3>2. QED BY <3>1 DEF Fated, Parcels
  <2>3. QED BY <2>1, <2>2
<1>3. QED BY <1>1, <1>2 DEF AllFated

LEMMA CommitFated ==
    ASSUME Desk, Parcels, NEW s \in Shipments, Commit(s)
    PROVE  AllFated /\ ship'[s].status = "BOOKED"
<1> DEFINE r == [status |-> "BOOKED", dir |-> "FORWARD", held |-> FALSE,
                 unit |-> prep[s].unit, user |-> Nil, bag |-> Nil, trip |-> Nil]
<1>1. ship' = [ship EXCEPT ![s] = r] BY DEF Commit, CreateShipment
<1>2. IsShip(r) /\ r.status = "BOOKED" BY DEF IsShip, ShipColumns
<1>3. ~Booked(s) BY CommitLemma
<1> HIDE DEF r
<1>4. ship'[s] = r BY <1>1 DEF Parcels
<1>5. QED BY <1>1, <1>2, <1>3, <1>4, OneFated

LEMMA CancelledFated ==
    ASSUME Parcels, NEW s \in Shipments, Cancelled(s)
    PROVE  AllFated /\ ship[s].status \in Waiting /\ ship'[s].status = "CANCELLED"
           /\ \A t \in Shipments : t # s => ship'[t] = ship[t]
<1> DEFINE r == [ship[s] EXCEPT !.status = "CANCELLED"]
<1>1. ship' = [ship EXCEPT ![s] = r] /\ Find(ship[s].status, "CANCELLED")
  BY DEF Cancelled, CancelShipment
<1>2. ship[s].status \in Waiting BY <1>1, WaitingTable
<1>3. IsShip(r) /\ r.status = "CANCELLED"
  <2>1. r = [c \in ShipColumns |-> IF c = "status" THEN "CANCELLED" ELSE ship[s][c]]
    BY DEF Parcels, IsShip, ShipColumns
  <2> HIDE DEF r
  <2>2. QED BY <2>1 DEF IsShip, ShipColumns
<1> HIDE DEF r
<1>4. ship'[s] = r /\ \A t \in Shipments : t # s => ship'[t] = ship[t]
  BY <1>1 DEF Parcels
<1>5. QED BY <1>1, <1>2, <1>3, <1>4, OneFated DEF Gone

\* The counter receives what is waiting or in an agent's hands.
LEMMA CounterFated ==
    ASSUME Parcels, NEW s \in Shipments, NEW at \in Units, Counter(s, at)
    PROVE  AllFated /\ ship'[s].status # "CANCELLED" /\ ship[s].status # "CANCELLED"
           /\ \A t \in Shipments : t # s => ship'[t] = ship[t]
<1> DEFINE q(to) == [Request(to, at) EXCEPT !.reason = TRUE, !.override = FALSE]
<1>1. PICK to \in Statuses :
        /\ receiveTarget(s, at, to)
        /\ ship' = [ship EXCEPT ![s] =
              [ReceivedAt(Moved(ship[s], q(to)), at) EXCEPT !.user = Nil, !.bag = Nil]]
  BY DEF Counter, Receive
<1> DEFINE m == Moved(ship[s], q(to))
           r == [ReceivedAt(m, at) EXCEPT !.user = Nil, !.bag = Nil]
<1>2. to \in {"ORIGIN_BRANCH_RECEIVED", "TRANSIT_HUB_RECEIVED",
              "DESTINATION_HUB_RECEIVED", "DESTINATION_BRANCH_RECEIVED"}
  BY <1>1 DEF receiveTarget, receiveCandidates
<1>3. q(to).to = to /\ q(to).dir = Nil BY DEF Request
<1>4. IsShip(m) /\ m.status = to
  <2> HIDE DEF q
  <2>1. QED BY <1>3, MovedShip DEF Parcels
<1>5. ship' = [ship EXCEPT ![s] = r] BY <1>1
<1> HIDE DEF m
<1>6. IsShip(r) /\ r.status = to
  <2>1. r = [c \in ShipColumns |-> IF c = "unit" THEN at
                                   ELSE IF c \in {"trip", "user", "bag"} THEN Nil ELSE m[c]]
    BY <1>4 DEF IsShip, ShipColumns, ReceivedAt
  <2> HIDE DEF r
  <2>2. QED BY <1>4, <2>1 DEF IsShip, ShipColumns
<1> HIDE DEF r
<1>7. ship'[s] = r /\ \A t \in Shipments : t # s => ship'[t] = ship[t]
  BY <1>5 DEF Parcels
<1>8. to # "CANCELLED" /\ Gone(to) BY <1>2 DEF Gone, Waiting
<1>9. ship[s].status # "CANCELLED" BY DEF Counter
<1>10. QED BY <1>5, <1>6, <1>7, <1>8, <1>9, OneFated

LEMMA CarriedFated == AllCarried => AllFated
  BY DEF AllCarried, Carried, AllFated, Fated, Gone

LEMMA ParcelsFrom ==
    ASSUME Parcels, OneRequest, Lined, AllFated,
           \A s \in Shipments : Booked(s) => Booked(s)'
    PROVE  Parcels' /\ OneRequest'
<1>1. Parcels' BY DEF Parcels, Lined, Read, AllFated, Fated
<1>2. ASSUME NEW s \in Shipments, NEW r \in Requests, link'[r][s] = "PICKED_UP"
      PROVE  Gone(ship'[s].status)
  <2>1. CASE link[r][s] = "PICKED_UP"
    <3>1. Booked(s) /\ Gone(ship[s].status) BY <2>1 DEF Parcels, OneRequest, Gone
    <3>2. QED BY <3>1 DEF AllFated, Fated
  <2>2. CASE ship'[s].status = "PICKED_UP" BY <2>2 DEF Gone, Waiting
  <2>3. QED BY <1>2, <2>1, <2>2 DEF Lined
<1>3. ASSUME NEW s \in Shipments, NEW r \in Requests, NEW q \in Requests,
             link[r][s] = "PICKED_UP", link'[q][s] = "PICKED_UP"
      PROVE  link[q][s] = "PICKED_UP" /\ q = r
  <2>1. ship[s].status # "PICKUP_ASSIGNED" BY <1>3 DEF OneRequest, Waiting
  <2>2. QED BY <1>3, <2>1 DEF Lined, OneRequest
<1>4. ASSUME NEW s \in Shipments, NEW r \in Requests, NEW q \in Requests,
             link'[r][s] = "PICKED_UP", link'[q][s] = "PICKED_UP"
      PROVE  q = r
  <2>1. q # r => link[r][s] = "PICKED_UP" \/ link[q][s] = "PICKED_UP" BY <1>4 DEF Lined
  <2>2. QED BY <1>3, <1>4, <2>1
<1>5. QED BY <1>1, <1>2, <1>4 DEF OneRequest, Gone

LEMMA ParcelsStep ==
    ASSUME Desk, Parcels, OneRequest, [Next]_vars
    PROVE  Parcels' /\ OneRequest'
<1>1. \A s \in Shipments : Booked(s) => Booked(s)' BY BookedStays
<1>2. CASE UNCHANGED <<seen, link>> /\ AllFated
  BY <1>1, <1>2, ReadKept, LinesKept, ParcelsFrom
<1>3. CASE UNCHANGED <<ship, seen, link>> BY <1>2, <1>3, ShipKept, CarriedFated
<1>4. CASE Collect BY <1>1, <1>4, CollectLemma, CarriedFated, ParcelsFrom
<1>5. ASSUME NEW s \in Shipments, NEW at \in Units, Counter(s, at) PROVE Parcels' /\ OneRequest'
  BY <1>2, <1>5, CounterFated DEF Counter, pickupVars
<1>6. ASSUME NEW s \in Shipments, Book(s) PROVE Parcels' /\ OneRequest'
  <2>1. UNCHANGED <<seen, link>> BY <1>6 DEF Book, pickupVars
  <2>2. CASE Commit(s) BY <1>2, <2>1, <2>2, CommitFated
  <2>3. CASE Cancelled(s) BY <1>2, <2>1, <2>3, CancelledFated
  <2>4. CASE UNCHANGED ship BY <1>3, <2>1, <2>4
  <2>5. QED BY <1>6, <2>2, <2>3, <2>4 DEF Book, Preview, Prepare, PrepareExhausted, Abandon
<1>7. ASSUME NEW u \in Editors, Edit(u) PROVE Parcels' /\ OneRequest'
  <2>1. UNCHANGED <<ship, seen, link>>
    BY <1>7 DEF Edit, Open, Correct, Close, pickupVars
  <2>2. QED BY <1>3, <2>1
<1>8. ASSUME NEW c \in Customers, Account(c) PROVE Parcels' /\ OneRequest'
  BY <1>3, <1>8 DEF Account, pickupVars
<1>9. CASE Price BY <1>3, <1>9 DEF Price, NewTariff, pickupVars
<1>10. CASE UNCHANGED vars BY <1>3, <1>10 DEF vars, pickupVars
<1>11. QED BY <1>4, <1>5, <1>6, <1>7, <1>8, <1>9, <1>10 DEF Next

LEMMA ParcelsInit == ASSUME Init PROVE Parcels /\ OneRequest
<1>1. PICK at \in [Shipments -> BookingUnits] :
        ship = [s \in Shipments |->
                   [status |-> "BOOKED", dir |-> "FORWARD", held |-> FALSE,
                    unit |-> at[s], user |-> Nil, bag |-> Nil, trip |-> Nil]]
  BY DEF Init, BookingInit, ShipInit
<1>2. \A s \in Shipments : IsShip(ship[s]) BY <1>1 DEF IsShip, ShipColumns
<1>3. DOMAIN NotRead = {} BY DEF NotRead
<1>4. Parcels BY <1>1, <1>2, <1>3 DEF Parcels, Init, PickupInit
<1>5. OneRequest BY DEF OneRequest, Init, PickupInit
<1>6. QED BY <1>4, <1>5

LEMMA ParcelsInvariant == Spec => [](Desk /\ Parcels /\ OneRequest)
<1>1. Init => Desk /\ Parcels /\ OneRequest BY DeskInit, ParcelsInit
<1>2. Desk /\ Parcels /\ OneRequest /\ [Next]_vars => (Desk /\ Parcels /\ OneRequest)'
  BY DeskStep, ParcelsStep
<1>3. QED BY <1>1, <1>2, PTL DEF Spec

\* A parcel is collected on one request, and is then neither waiting nor cancelled.
THEOREM CollectedOnceCorrect == Spec => []CollectedOnce
<1>1. OneRequest => CollectedOnce
  <2> SUFFICES ASSUME OneRequest, NEW s \in Shipments,
                      NEW on, on = {r \in Requests : link[r][s] = "PICKED_UP"}
               PROVE  /\ Cardinality(on) <= 1
                      /\ on # {} => ship[s].status \notin {"BOOKED", "PICKUP_SCHEDULED",
                                                 "PICKUP_ASSIGNED", "CANCELLED"}
    BY DEF CollectedOnce
  <2>1. CASE on = {} BY <2>1, FS_EmptySet
  <2>2. CASE on # {}
    <3>1. PICK r \in Requests : r \in on BY <2>2
    <3>2. on = {r} BY <3>1 DEF OneRequest
    <3>3. Cardinality(on) = 1 BY <3>2, FS_Singleton
    <3>4. QED BY <3>1, <3>3 DEF OneRequest, Waiting
  <2>3. QED BY <2>1, <2>2
<1>2. QED BY <1>1, ParcelsInvariant, PTL

-----------------------------------------------------------------------------
(***************************************************************************)
(* Credit.  The live credit bookings of a payer, and the entries of its    *)
(* history.  A history row is new when it is written because a shipment    *)
(* has at most a reservation, from its booking on, and a release, once it  *)
(* is cancelled.                                                           *)
(***************************************************************************)
OnCredit(s, c) ==
    /\ Booked(s) /\ ship[s].status # "CANCELLED"
    /\ book[s].mode = "CREDIT" /\ book[s].commercial.payer = c

Live(c) == {s \in Shipments : OnCredit(s, c)}
Mine(c) == {e \in entries : e.cust = c}

Totals == [s \in Shipments |-> book[s].total]
Amounts == [e \in entries |-> e.amount]

Backed(c) ==
    /\ credit[c].used = SumFunctionOnSet(Totals, Live(c))
    /\ credit[c].used = SumFunctionOnSet(Amounts, Mine(c))

IsCredit(p) == p.status \in {"NONE"} \cup CreditStatuses /\ p.used \in Nat
               /\ p = [c \in {"status", "limit", "used"} |-> p[c]]

Profiles ==
    /\ credit = [c \in Customers |-> credit[c]]
    /\ \A c \in Customers : IsCredit(credit[c]) /\ (credit[c].status = "NONE" => credit[c].used = 0)

History ==
    /\ IsFiniteSet(entries)
    /\ \A e \in entries : /\ e.amount \in Int /\ e.amount # 0
                          /\ e.ship \in Shipments /\ Booked(e.ship)
                          /\ e.amount < 0 => ship[e.ship].status = "CANCELLED"

Books == Profiles /\ History /\ \A c \in Customers : Backed(c)

\* The property in these terms.
LEMMA BackedLemma ==
    ASSUME History, NEW c \in Customers
    PROVE  /\ SumFunction([s \in Live(c) |-> book[s].total]) = SumFunctionOnSet(Totals, Live(c))
           /\ SumFunction([e \in Mine(c) |-> e.amount]) = SumFunctionOnSet(Amounts, Mine(c))
<1> DEFINE f == [s \in Live(c) |-> book[s].total]
           g == [e \in Mine(c) |-> e.amount]
<1>1. IsFiniteSet(Live(c)) /\ IsFiniteSet(Mine(c))
  BY OrdersAssumption, FS_Subset DEF Live, Mine, History
<1>2. \A s \in Live(c) : f[s] = Totals[s] BY DEF Live, Totals
<1>3. \A e \in Mine(c) : g[e] = Amounts[e] BY DEF Mine, Amounts
<1>4. SumFunction(f) = SumFunctionOnSet(f, Live(c)) /\ SumFunction(g) = SumFunctionOnSet(g, Mine(c))
  BY DEF SumFunction
<1> HIDE DEF f, g
<1>5. SumFunctionOnSet(f, Live(c)) = SumFunctionOnSet(Totals, Live(c)) BY <1>1, <1>2, SumSame
<1>6. SumFunctionOnSet(g, Mine(c)) = SumFunctionOnSet(Amounts, Mine(c)) BY <1>1, <1>3, SumSame
<1>7. QED BY <1>4, <1>5, <1>6 DEF f, g

LEMMA LiveLemma ==
    ASSUME Desk, History, NEW c
    PROVE  /\ IsFiniteSet(Live(c)) /\ IsFiniteSet(Mine(c))
           /\ \A s \in Shipments : Totals[s] \in Nat
           /\ \A e \in entries : Amounts[e] \in Int
           /\ SumFunctionOnSet(Totals, Live(c)) \in Nat /\ SumFunctionOnSet(Amounts, Mine(c)) \in Int
<1>1. IsFiniteSet(Live(c)) /\ IsFiniteSet(Mine(c))
  BY OrdersAssumption, FS_Subset DEF Live, Mine, History
<1>2. \A s \in Shipments : Totals[s] \in Nat BY DEF Totals, Desk, Columns, IsBook
<1>3. \A e \in entries : Amounts[e] \in Int BY DEF Amounts, History
<1>4. Live(c) \subseteq Shipments /\ Mine(c) \subseteq entries BY DEF Live, Mine
<1>5. SumFunctionOnSet(Totals, Live(c)) \in Nat BY <1>1, <1>2, <1>4, SumNat
<1>6. SumFunctionOnSet(Amounts, Mine(c)) \in Int BY <1>1, <1>3, <1>4, SumType
<1>7. QED BY <1>1, <1>2, <1>3, <1>5, <1>6

\* A step that changes the live bookings of nobody.
LEMMA LiveKept ==
    ASSUME \A s \in Shipments : /\ Booked(s)' <=> Booked(s)
                                /\ book'[s].mode = book[s].mode /\ book'[s].total = book[s].total
                                /\ book'[s].commercial = book[s].commercial
                                /\ Booked(s) => (ship'[s].status = "CANCELLED" <=> ship[s].status = "CANCELLED")
    PROVE  \A c : SumFunctionOnSet(Totals, Live(c))' = SumFunctionOnSet(Totals, Live(c))
<1>1. Totals' = Totals BY DEF Totals
<1>2. ASSUME NEW c, NEW s \in Shipments PROVE OnCredit(s, c)' <=> OnCredit(s, c)
  BY DEF OnCredit
<1>3. ASSUME NEW c PROVE Live(c)' = Live(c)
  BY <1>2 DEF Live
<1>4. QED BY <1>1, <1>3

\* What a step does to shipments that are booked, and to cancelled ones.
Onward == \A s \in Shipments : /\ Booked(s) => Booked(s)'
                               /\ Booked(s) /\ ship[s].status = "CANCELLED" => ship'[s].status = "CANCELLED"

\* A step that leaves what is used alone.
LEMMA BooksKept ==
    ASSUME Books, Onward, UNCHANGED entries,
           \A c \in Customers : SumFunctionOnSet(Totals, Live(c))' = SumFunctionOnSet(Totals, Live(c)),
           credit' = [c \in Customers |-> credit'[c]],
           \A c \in Customers : /\ IsCredit(credit'[c]) /\ credit'[c].used = credit[c].used
                                /\ credit'[c].status = "NONE" => credit[c].status = "NONE"
    PROVE  Books'
<1>1. Profiles' BY DEF Books, Profiles
<1>2. History' BY DEF Books, History, Onward
<1>3. Amounts' = Amounts /\ \A c : Mine(c)' = Mine(c) BY DEF Amounts, Mine
<1>4. ASSUME NEW c \in Customers PROVE Backed(c)'
  <2>1. Mine(c)' = Mine(c) /\ credit'[c].used = credit[c].used BY <1>3
  <2>2. Backed(c) BY DEF Books
  <2>3. SumFunctionOnSet(Amounts, Mine(c))' = SumFunctionOnSet(Amounts, Mine(c)) BY <1>3, <2>1
  <2>4. QED BY <2>1, <2>2, <2>3 DEF Backed
<1>5. QED BY <1>1, <1>2, <1>4 DEF Books

LEMMA CreditKept ==
    ASSUME Books, Onward, UNCHANGED <<credit, entries>>,
           \A c \in Customers : SumFunctionOnSet(Totals, Live(c))' = SumFunctionOnSet(Totals, Live(c))
    PROVE  Books'
<1>1. /\ credit' = [c \in Customers |-> credit'[c]]
      /\ \A c \in Customers : /\ IsCredit(credit'[c]) /\ credit'[c].used = credit[c].used
                              /\ credit'[c].status = "NONE" => credit[c].status = "NONE"
  BY DEF Books, Profiles
<1>2. QED BY <1>1, BooksKept

\* A reservation or a release of d, with its row of the history.
LEMMA UsedLemma ==
    ASSUME Desk, Books, Onward, NEW p \in Customers, NEW s \in Shipments, NEW d \in Int, d # 0,
           credit[p].status # "NONE", credit[p].used + d >= 0,
           AdjustCreditUsage(p, d), InsertCreditEntry(p, s, d),
           Booked(s)', d < 0 => ship'[s].status = "CANCELLED",
           \A e \in entries : e.ship = s => e.amount # d
    PROVE  /\ Profiles' /\ History'
           /\ \A c \in Customers :
                 /\ credit'[c].used = SumFunctionOnSet(Amounts, Mine(c))'
                 /\ credit'[c].used = IF c = p THEN credit[p].used + d ELSE credit[c].used
<1> DEFINE n == [cust |-> p, ship |-> s, amount |-> d, balance |-> credit[p].used + d]
           row == [credit[p] EXCEPT !.used = credit[p].used + d]
<1>1. entries' = entries \cup {n} BY DEF InsertCreditEntry
<1>2. n.cust = p /\ n.ship = s /\ n.amount = d OBVIOUS
<1>3. credit' = [c \in Customers |-> IF c = p THEN row ELSE credit[c]]
  BY DEF AdjustCreditUsage, Books, Profiles
<1>4. IsCredit(credit[p]) BY DEF Books, Profiles
<1>5. row = [c \in {"status", "limit", "used"} |-> IF c = "used" THEN credit[p].used + d ELSE credit[p][c]]
  BY <1>4 DEF IsCredit
<1> HIDE DEF n, row
<1>6. row.used = credit[p].used + d /\ row.status = credit[p].status
      /\ row = [c \in {"status", "limit", "used"} |-> row[c]]
  BY <1>5
<1>7. credit[p].used + d \in Nat BY <1>4 DEF IsCredit
<1>8. IsCredit(row) BY <1>4, <1>6, <1>7 DEF IsCredit
<1>9. Profiles'
  <2>1. credit' = [c \in Customers |-> credit'[c]] BY <1>3
  <2>2. ASSUME NEW c \in Customers
        PROVE  IsCredit(credit'[c]) /\ (credit'[c].status = "NONE" => credit'[c].used = 0)
    BY <1>3, <1>6, <1>8 DEF Books, Profiles
  <2>3. QED BY <2>1, <2>2 DEF Profiles
<1>10. n \notin entries BY <1>2
<1>11. History'
  <2>1. IsFiniteSet(entries') BY <1>1, FS_AddElement DEF Books, History
  <2>2. QED BY <1>1, <1>2, <2>1 DEF Books, History, Onward
<1>12. \A c \in Customers : credit'[c].used = IF c = p THEN credit[p].used + d ELSE credit[c].used
  BY <1>3, <1>6
<1>13. \A e \in entries : Amounts'[e] = Amounts[e] BY <1>1 DEF Amounts
<1>14. Amounts'[n] = d BY <1>1, <1>2 DEF Amounts
<1>15. ASSUME NEW c \in Customers PROVE credit'[c].used = SumFunctionOnSet(Amounts, Mine(c))'
  <2>1. IsFiniteSet(Mine(c)) /\ SumFunctionOnSet(Amounts, Mine(c)) \in Int
        /\ \A e \in Mine(c) : Amounts[e] \in Int
    BY LiveLemma DEF Books, Mine
  <2>2. \A e \in Mine(c) : Amounts'[e] = Amounts[e] BY <1>13 DEF Mine
  <2>3. SumFunctionOnSet(Amounts', Mine(c)) = SumFunctionOnSet(Amounts, Mine(c))
    BY <2>1, <2>2, SumSame
  <2>4. credit[c].used = SumFunctionOnSet(Amounts, Mine(c)) BY DEF Books, Backed
  <2>5. CASE c = p
    <3>1. Mine(c)' = Mine(c) \cup {n} BY <1>1, <1>2, <2>5 DEF Mine
    <3>2. n \notin Mine(c) BY <1>10 DEF Mine
    <3>3. \A e \in Mine(c) \cup {n} : Amounts'[e] \in Int BY <1>14, <2>1, <2>2
    <3>4. SumFunctionOnSet(Amounts', Mine(c) \cup {n}) = SumFunctionOnSet(Amounts', Mine(c)) + Amounts'[n]
      BY <2>1, <3>2, <3>3, SumAdd
    <3>5. QED BY <1>12, <1>14, <2>3, <2>4, <2>5, <3>1, <3>4
  <2>6. CASE c # p
    <3>1. Mine(c)' = Mine(c) BY <1>1, <1>2, <2>6 DEF Mine
    <3>2. QED BY <1>12, <2>3, <2>4, <2>6, <3>1
  <2>7. QED BY <2>5, <2>6
<1>16. QED BY <1>9, <1>11, <1>12, <1>15

\* A commit adds its shipment to the live bookings of its payer.
LEMMA CommitLive ==
    ASSUME Desk, Parcels, Books, NEW s \in Shipments, Commit(s), NEW c \in Customers
    PROVE  SumFunctionOnSet(Totals, Live(c))' =
              SumFunctionOnSet(Totals, Live(c))
              + (IF prep[s].mode = "CREDIT" /\ prep[s].commercial.payer = c THEN prep[s].total ELSE 0)
<1>1. /\ ~Booked(s) /\ Booked(s)' /\ book'[s].total = prep[s].total /\ book'[s].mode = prep[s].mode
      /\ book'[s].commercial = prep[s].commercial /\ IsBook(prep[s])
      /\ book' = [q \in Shipments |-> IF q = s THEN book'[s] ELSE book[q]]
  BY CommitLemma
<1>2. ship'[s].status = "BOOKED" /\ \A q \in Shipments : q # s => ship'[q] = ship[q]
  BY CommitFated DEF Commit, CreateShipment, Parcels
<1>3. \A q \in Shipments : q # s => (OnCredit(q, c)' <=> OnCredit(q, c))
  BY <1>1, <1>2 DEF OnCredit, Booked
<1>4. s \notin Live(c) BY <1>1 DEF Live, OnCredit
<1>5. OnCredit(s, c)' <=> prep[s].mode = "CREDIT" /\ prep[s].commercial.payer = c
  BY <1>1, <1>2 DEF OnCredit
<1>6. /\ IsFiniteSet(Live(c)) /\ SumFunctionOnSet(Totals, Live(c)) \in Nat
      /\ \A q \in Live(c) : Totals[q] \in Nat
  BY LiveLemma DEF Live, Books
<1>7. prep[s].total \in Nat BY <1>1 DEF IsBook
<1>8. Totals'[s] = prep[s].total /\ \A q \in Live(c) : Totals'[q] = Totals[q]
  BY <1>1, <1>4 DEF Totals, Live
<1>9. SumFunctionOnSet(Totals', Live(c)) = SumFunctionOnSet(Totals, Live(c))
  BY <1>6, <1>8, SumSame
<1>10. CASE prep[s].mode = "CREDIT" /\ prep[s].commercial.payer = c
  <2>1. Live(c)' = Live(c) \cup {s} BY <1>3, <1>5, <1>10 DEF Live
  <2>2. \A q \in Live(c) \cup {s} : Totals'[q] \in Int BY <1>6, <1>7, <1>8
  <2>3. SumFunctionOnSet(Totals', Live(c) \cup {s}) = SumFunctionOnSet(Totals', Live(c)) + Totals'[s]
    BY <1>4, <1>6, <2>2, SumAdd
  <2>4. QED BY <1>8, <1>9, <1>10, <2>1, <2>3
<1>11. CASE ~(prep[s].mode = "CREDIT" /\ prep[s].commercial.payer = c)
  <2>1. Live(c)' = Live(c) BY <1>3, <1>4, <1>5, <1>11 DEF Live
  <2>2. QED BY <1>6, <1>9, <1>11, <2>1
<1>12. QED BY <1>10, <1>11

\* A cancellation takes its shipment out of them.
LEMMA CancelledLive ==
    ASSUME Desk, Parcels, Books, NEW s \in Shipments, Cancelled(s), NEW c \in Customers
    PROVE  /\ SumFunctionOnSet(Totals, Live(c)) =
                 SumFunctionOnSet(Totals, Live(c))'
                 + (IF book[s].mode = "CREDIT" /\ book[s].commercial.payer = c THEN book[s].total ELSE 0)
           /\ SumFunctionOnSet(Totals, Live(c))' \in Nat
<1>1. /\ Booked(s) /\ book'[s].awb = book[s].awb
      /\ book'[s].total = book[s].total /\ book'[s].mode = book[s].mode
      /\ book'[s].commercial = book[s].commercial
      /\ book' = [q \in Shipments |-> IF q = s THEN book'[s] ELSE book[q]]
  BY CancelledLemma
<1>2. /\ ship[s].status # "CANCELLED" /\ ship'[s].status = "CANCELLED"
      /\ \A q \in Shipments : q # s => ship'[q] = ship[q]
  BY CancelledFated DEF Waiting
<1>3. \A q \in Shipments : q # s => (OnCredit(q, c)' <=> OnCredit(q, c))
  BY <1>1, <1>2 DEF OnCredit, Booked
<1>4. s \notin Live(c)' BY <1>2 DEF Live, OnCredit
<1>5. OnCredit(s, c) <=> book[s].mode = "CREDIT" /\ book[s].commercial.payer = c
  BY <1>1, <1>2 DEF OnCredit
<1>6. IsFiniteSet(Live(c)) /\ Live(c) \subseteq Shipments /\ \A q \in Shipments : Totals[q] \in Nat
  BY LiveLemma DEF Live, Books
<1>7. Totals' = Totals BY <1>1 DEF Totals
<1>8. Live(c)' = Live(c) \ {s} BY <1>3, <1>4 DEF Live
<1>9. IsFiniteSet(Live(c) \ {s}) BY <1>6, FS_Subset
<1>10. SumFunctionOnSet(Totals, Live(c) \ {s}) \in Nat BY <1>6, <1>9, SumNat
<1>11. CASE book[s].mode = "CREDIT" /\ book[s].commercial.payer = c
  <2>1. s \in Live(c) BY <1>5, <1>11 DEF Live
  <2>2. \A q \in Live(c) : Totals[q] \in Int BY <1>6
  <2>3. SumFunctionOnSet(Totals, Live(c)) = Totals[s] + SumFunctionOnSet(Totals, Live(c) \ {s})
    BY <1>6, <2>1, <2>2, SumRemove
  <2>4. Totals[s] = book[s].total /\ Totals[s] \in Nat BY <1>6 DEF Totals
  <2>5. QED BY <1>7, <1>8, <1>10, <1>11, <2>3, <2>4
<1>12. CASE ~(book[s].mode = "CREDIT" /\ book[s].commercial.payer = c)
  <2>1. Live(c) \ {s} = Live(c) BY <1>5, <1>12 DEF Live
  <2>2. QED BY <1>7, <1>8, <1>10, <1>12, <2>1
<1>13. QED BY <1>11, <1>12

LEMMA CommitBooks ==
    ASSUME Desk, Parcels, Books, Onward, NEW s \in Shipments, Commit(s)
    PROVE  Books'
<1> DEFINE p == prep[s].commercial.payer
           d == prep[s].total
<1>1. /\ ~Booked(s) /\ Booked(s)' /\ PayerKnown(prep[s]) /\ d \in Nat
  BY CommitLemma DEF IsBook
<1>2. \A c \in Customers : SumFunctionOnSet(Totals, Live(c))' =
              SumFunctionOnSet(Totals, Live(c))
              + (IF prep[s].mode = "CREDIT" /\ p = c THEN d ELSE 0)
  BY CommitLive
<1>3. \A c \in Customers : /\ SumFunctionOnSet(Totals, Live(c)) \in Nat
                           /\ credit[c].used = SumFunctionOnSet(Totals, Live(c))
  BY LiveLemma DEF Books, Backed
<1>4. CASE prep[s].mode = "CREDIT" /\ d > 0
  <2>1. p \in Customers BY <1>1, <1>4 DEF PayerKnown
  <2>2. ReserveCredit(p, s, d) BY <1>4 DEF Commit
  <2>3. credit[p].status # "NONE" /\ AdjustCreditUsage(p, d) /\ InsertCreditEntry(p, s, d)
    BY <1>1, <1>4, <2>2 DEF ReserveCredit, GetCreditProfileByCustomer
  <2> HIDE DEF p, d
  <2>4. d \in Int /\ d # 0 /\ ~(d < 0) /\ credit[p].used + d >= 0 BY <1>1, <1>3, <1>4, <2>1
  <2>5. \A e \in entries : e.ship # s BY <1>1 DEF Books, History
  <2>6. /\ Profiles' /\ History'
        /\ \A c \in Customers :
              /\ credit'[c].used = SumFunctionOnSet(Amounts, Mine(c))'
              /\ credit'[c].used = IF c = p THEN credit[p].used + d ELSE credit[c].used
    BY <1>1, <2>1, <2>3, <2>4, <2>5, UsedLemma
  <2>7. \A c \in Customers : credit'[c].used = SumFunctionOnSet(Totals, Live(c))'
    BY <1>1, <1>2, <1>3, <1>4, <2>6
  <2>8. QED BY <2>6, <2>7 DEF Books, Backed
<1>5. CASE ~(prep[s].mode = "CREDIT" /\ d > 0)
  <2>1. UNCHANGED <<credit, entries>> BY <1>1, <1>5 DEF Commit, ReserveCredit
  <2> HIDE DEF p, d
  <2>2. \A c \in Customers : SumFunctionOnSet(Totals, Live(c))' = SumFunctionOnSet(Totals, Live(c))
    BY <1>1, <1>2, <1>3, <1>5
  <2>3. QED BY <2>1, <2>2, CreditKept
<1>6. QED BY <1>4, <1>5

LEMMA CancelledBooks ==
    ASSUME Desk, Parcels, Books, Onward, NEW s \in Shipments, Cancelled(s)
    PROVE  Books'
<1> DEFINE p == book[s].commercial.payer
           d == book[s].total
<1>1. Booked(s) /\ Booked(s)' /\ PayerKnown(book[s]) /\ d \in Nat
  BY CancelledLemma DEF Desk, Payers, Columns, IsBook, Onward
<1>2. ship[s].status # "CANCELLED" /\ ship'[s].status = "CANCELLED"
  BY CancelledFated DEF Waiting
<1>3. \A c \in Customers : /\ SumFunctionOnSet(Totals, Live(c)) =
                                 SumFunctionOnSet(Totals, Live(c))'
                                 + (IF book[s].mode = "CREDIT" /\ p = c THEN d ELSE 0)
                           /\ SumFunctionOnSet(Totals, Live(c))' \in Nat
  BY CancelledLive
<1>4. \A c \in Customers : /\ SumFunctionOnSet(Totals, Live(c)) \in Nat
                           /\ credit[c].used = SumFunctionOnSet(Totals, Live(c))
  BY LiveLemma DEF Books, Backed
<1>5. CASE book[s].mode = "CREDIT" /\ d > 0
  <2>1. p \in Customers BY <1>1, <1>5 DEF PayerKnown
  <2>2. ReleaseCredit(p, s, d) BY <1>5 DEF Cancelled, GetShipmentCommercialSnapshot
  <2> HIDE DEF p, d
  <2>3. credit[p].used >= d /\ credit[p].used \in Nat BY <1>1, <1>3, <1>4, <1>5, <2>1
  <2>4. credit[p].status # "NONE" BY <1>1, <1>5, <2>1, <2>3 DEF Books, Profiles
  <2>5. AdjustCreditUsage(p, -d) /\ InsertCreditEntry(p, s, -d)
    BY <1>1, <1>5, <2>2, <2>3, <2>4 DEF ReleaseCredit, GetCreditProfileByCustomer
  <2>6. -d \in Int /\ -d # 0 /\ -d < 0 /\ credit[p].used + (-d) >= 0
        /\ credit[p].used + (-d) = credit[p].used - d
    BY <1>1, <1>5, <2>3
  <2>7. \A e \in entries : e.ship = s => e.amount # -d
    BY <1>2, <2>6 DEF Books, History
  <2>8. /\ Profiles' /\ History'
        /\ \A c \in Customers :
              /\ credit'[c].used = SumFunctionOnSet(Amounts, Mine(c))'
              /\ credit'[c].used = IF c = p THEN credit[p].used + (-d) ELSE credit[c].used
    BY <1>1, <1>2, <2>1, <2>4, <2>5, <2>6, <2>7, UsedLemma
  <2>9. \A c \in Customers : credit'[c].used = SumFunctionOnSet(Totals, Live(c))'
    BY <1>1, <1>3, <1>4, <1>5, <2>6, <2>8
  <2>10. QED BY <2>8, <2>9 DEF Books, Backed
<1>6. CASE ~(book[s].mode = "CREDIT" /\ d > 0)
  <2> HIDE DEF d, p
  <2>1. \A c \in Customers : SumFunctionOnSet(Totals, Live(c))' = SumFunctionOnSet(Totals, Live(c))
    BY <1>1, <1>3, <1>6
  <2>2. UNCHANGED <<credit, entries>>
    <3>1. CASE book[s].mode # "CREDIT" BY <3>1 DEF Cancelled
    <3>2. CASE book[s].mode = "CREDIT"
      <4>1. p \in Customers /\ d = 0 BY <1>1, <1>6, <3>2 DEF PayerKnown, p
      <4>2. ReleaseCredit(p, s, d) BY <3>2 DEF Cancelled, GetShipmentCommercialSnapshot, p, d
      <4>3. credit[p].used \in Nat BY <1>4, <4>1
      <4>4. QED BY <4>1, <4>2, <4>3 DEF ReleaseCredit
    <3>3. QED BY <3>1, <3>2
  <2>3. QED BY <2>1, <2>2, CreditKept
<1>7. QED BY <1>5, <1>6

\* Accounts: an administrator changes the limit and the standing, never what is
\* used; a profile is never taken away.
LEMMA AccountBooks ==
    ASSUME Books, Onward, NEW c \in Customers, Account(c),
           \A d \in Customers : SumFunctionOnSet(Totals, Live(d))' = SumFunctionOnSet(Totals, Live(d))
    PROVE  Books'
<1>1. CASE UNCHANGED <<credit, entries>> BY <1>1, CreditKept
<1>2. ASSUME NEW limit, NEW status \in CreditStatuses, UpsertCreditProfile(c, limit, status),
             UNCHANGED entries
      PROVE  Books'
  <2> DEFINE row == [credit[c] EXCEPT !.limit = limit, !.status = status]
  <2>1. IsCredit(credit[c]) BY DEF Books, Profiles
  <2>2. credit' = [d \in Customers |-> IF d = c THEN row ELSE credit[d]]
    BY <1>2 DEF UpsertCreditProfile, Books, Profiles
  <2>3. row = [k \in {"status", "limit", "used"} |->
                  IF k = "status" THEN status ELSE IF k = "limit" THEN limit ELSE credit[c][k]]
    BY <2>1 DEF IsCredit
  <2> HIDE DEF row
  <2>4. /\ row.used = credit[c].used /\ row.status = status
        /\ row = [k \in {"status", "limit", "used"} |-> row[k]]
    BY <2>3
  <2>5. IsCredit(row) /\ row.status # "NONE" BY <2>1, <2>4 DEF IsCredit, CreditStatuses
  <2>6. credit' = [d \in Customers |-> credit'[d]] BY <2>2
  <2>7. \A d \in Customers : /\ IsCredit(credit'[d]) /\ credit'[d].used = credit[d].used
                             /\ credit'[d].status = "NONE" => credit[d].status = "NONE"
    BY <2>2, <2>4, <2>5 DEF Books, Profiles
  <2>8. QED BY <1>2, <2>6, <2>7, BooksKept
<1>3. ASSUME NEW kind, NEW limit, create(c, kind, limit) PROVE Books'
  BY <1>1, <1>2, <1>3 DEF create, CreditStatuses
<1>4. ASSUME NEW to, setStatus(c, to) PROVE Books' BY <1>1, <1>4 DEF setStatus
<1>5. ASSUME NEW limit, NEW status \in CreditChanges, setCredit(c, limit, status) PROVE Books'
  BY <1>2, <1>5, CreditChangesAssumption DEF setCredit
<1>6. ASSUME NEW expected, update(c, expected) PROVE Books' BY <1>1, <1>6 DEF update
<1>7. QED BY <1>3, <1>4, <1>5, <1>6 DEF Account

\* No step but a commit and a cancellation changes what anybody owes.
LEMMA SameLive ==
    ASSUME Desk, Parcels, [Next]_vars, \A s \in Shipments : ~Commit(s) /\ ~Cancelled(s)
    PROVE  \A s \in Shipments :
              /\ Booked(s)' <=> Booked(s)
              /\ book'[s].mode = book[s].mode /\ book'[s].total = book[s].total
              /\ book'[s].commercial = book[s].commercial
              /\ Booked(s) => (ship'[s].status = "CANCELLED" <=> ship[s].status = "CANCELLED")
<1> DEFINE Same(s) ==
              /\ Booked(s)' <=> Booked(s)
              /\ book'[s].mode = book[s].mode /\ book'[s].total = book[s].total
              /\ book'[s].commercial = book[s].commercial
              /\ Booked(s) => (ship'[s].status = "CANCELLED" <=> ship[s].status = "CANCELLED")
<1> SUFFICES ASSUME NEW s \in Shipments PROVE Same(s)
  OBVIOUS
<1>1. CASE UNCHANGED <<ship, book>> BY <1>1 DEF Booked
<1>2. CASE Collect
  <2>1. UNCHANGED book BY <1>2 DEF Collect, bookVars
  <2>2. ship'[s] = ship[s] \/ (ship[s].status \in Waiting /\ ship'[s].status # "CANCELLED")
    BY <1>2, CollectLemma DEF AllCarried, Carried
  <2>3. QED BY <2>1, <2>2 DEF Booked, Waiting
<1>3. ASSUME NEW t \in Shipments, NEW at \in Units, Counter(t, at) PROVE Same(s)
  <2>1. UNCHANGED book BY <1>3 DEF Counter, bookVars
  <2>2. /\ ship'[t].status # "CANCELLED" /\ ship[t].status # "CANCELLED"
        /\ s # t => ship'[s] = ship[s]
    BY <1>3, CounterFated
  <2>3. QED BY <2>1, <2>2 DEF Booked
<1>4. ASSUME NEW t \in Shipments, Book(t) PROVE Same(s)
  BY <1>1, <1>4 DEF Book, Preview, Prepare, PrepareExhausted, Abandon
<1>5. ASSUME NEW u \in Editors, Edit(u) PROVE Same(s)
  <2>1. ASSUME NEW ref, Correct(u, ref) PROVE Same(s)
    <3> DEFINE t == form[u].ship
    <3>1. /\ t \in Shipments /\ book'[t].awb = book[t].awb
          /\ book'[t].total = book[t].total /\ book'[t].mode = book[t].mode
          /\ book'[t].commercial = book[t].commercial
          /\ book' = [q \in Shipments |-> IF q = t THEN book'[t] ELSE book[q]]
      BY <2>1, CorrectLemma
    <3>2. UNCHANGED ship BY <2>1 DEF Correct
    <3> HIDE DEF t
    <3>3. CASE s = t BY <3>1, <3>2, <3>3 DEF Booked
    <3>4. CASE s # t
      <4>1. book'[s] = book[s] BY <3>1, <3>4
      <4>2. QED BY <3>2, <4>1 DEF Booked
    <3>5. QED BY <3>3, <3>4
  <2>2. CASE UNCHANGED <<ship, book>> BY <1>1, <2>2
  <2>3. QED BY <1>5, <2>1, <2>2 DEF Edit, Open, Close
<1>6. ASSUME NEW c \in Customers, Account(c) PROVE Same(s) BY <1>1, <1>6 DEF Account
<1>7. CASE Price BY <1>1, <1>7 DEF Price, NewTariff
<1>8. CASE UNCHANGED vars BY <1>1, <1>8 DEF vars, bookVars
<1> HIDE DEF Same
<1>9. QED BY <1>2, <1>3, <1>4, <1>5, <1>6, <1>7, <1>8 DEF Next

LEMMA BooksStep ==
    ASSUME Desk, Parcels, Books, [Next]_vars
    PROVE  Books'
<1>1. \A s \in Shipments : Booked(s) => Booked(s)' BY BookedStays
<1>2. ASSUME NEW s \in Shipments, Commit(s) PROVE Books'
  <2>1. ~Booked(s) /\ \A q \in Shipments : q # s => ship'[q] = ship[q]
    BY <1>2, CommitLemma DEF Commit, CreateShipment, Parcels
  <2>2. Onward BY <1>1, <2>1 DEF Onward
  <2>3. QED BY <1>2, <2>2, CommitBooks
<1>3. ASSUME NEW s \in Shipments, Cancelled(s) PROVE Books'
  <2>1. ship'[s].status = "CANCELLED" /\ \A q \in Shipments : q # s => ship'[q] = ship[q]
    BY <1>3, CancelledFated
  <2>2. Onward BY <1>1, <2>1 DEF Onward
  <2>3. QED BY <1>3, <2>2, CancelledBooks
<1>4. CASE \A s \in Shipments : ~Commit(s) /\ ~Cancelled(s)
  <2>1. \A s \in Shipments :
              /\ Booked(s)' <=> Booked(s)
              /\ book'[s].mode = book[s].mode /\ book'[s].total = book[s].total
              /\ book'[s].commercial = book[s].commercial
              /\ Booked(s) => (ship'[s].status = "CANCELLED" <=> ship[s].status = "CANCELLED")
    BY <1>4, SameLive
  <2>2. Onward BY <1>1, <2>1 DEF Onward
  <2>3. \A c \in Customers : SumFunctionOnSet(Totals, Live(c))' = SumFunctionOnSet(Totals, Live(c))
    BY <2>1, LiveKept
  <2>4. ASSUME NEW c \in Customers, Account(c) PROVE Books' BY <2>2, <2>3, <2>4, AccountBooks
  <2>5. CASE UNCHANGED <<credit, entries>> BY <2>2, <2>3, <2>5, CreditKept
  <2>6. ASSUME NEW s \in Shipments, Book(s) PROVE Books'
    BY <1>4, <2>5, <2>6 DEF Book, Preview, Prepare, PrepareExhausted, Abandon
  <2>7. ASSUME NEW u \in Editors, Edit(u) PROVE Books'
    BY <2>5, <2>7 DEF Edit, Open, Correct, Close
  <2>8. ASSUME NEW s \in Shipments, NEW at \in Units, Counter(s, at) PROVE Books'
    BY <2>5, <2>8 DEF Counter, bookVars
  <2>9. CASE Price BY <2>5, <2>9 DEF Price, NewTariff
  <2>10. CASE Collect BY <2>5, <2>10 DEF Collect, bookVars
  <2>11. CASE UNCHANGED vars BY <2>5, <2>11 DEF vars, bookVars
  <2>12. QED BY <2>4, <2>6, <2>7, <2>8, <2>9, <2>10, <2>11 DEF Next
<1>5. QED BY <1>2, <1>3, <1>4

LEMMA BooksInit == ASSUME Init PROVE Books
<1>1. Profiles BY DEF Init, BookingInit, CustomerInit, Profiles, IsCredit
<1>2. History BY FS_EmptySet DEF Init, BookingInit, CustomerInit, History
<1>3. \A s \in Shipments : ~Booked(s) BY DEF Init, BookingInit, Booked, NotBooked
<1>4. ASSUME NEW c \in Customers PROVE Backed(c)
  <2>1. Live(c) = {} BY <1>3 DEF Live, OnCredit
  <2>2. Mine(c) = {} BY DEF Mine, Init, BookingInit, CustomerInit
  <2>3. credit[c].used = 0 BY DEF Init, BookingInit, CustomerInit
  <2>4. QED BY <2>1, <2>2, <2>3, SumEmpty DEF Backed
<1>5. QED BY <1>1, <1>2, <1>4 DEF Books

\* What a customer has used is what its live credit bookings cost, and what the
\* history adds up to.
THEOREM CreditBackedCorrect == Spec => []CreditBacked
<1>1. Init => Desk /\ Parcels /\ OneRequest /\ Books BY DeskInit, ParcelsInit, BooksInit
<1>2. Desk /\ Parcels /\ OneRequest /\ Books /\ [Next]_vars
         => (Desk /\ Parcels /\ OneRequest /\ Books)'
  BY DeskStep, ParcelsStep, BooksStep
<1>3. Books => CreditBacked
  <2> SUFFICES ASSUME Books PROVE CreditBacked
    OBVIOUS
  <2>1. ASSUME NEW c \in Customers
        PROVE  /\ credit[c].used = SumFunction([s \in Live(c) |-> book[s].total])
               /\ credit[c].used = SumFunction([e \in Mine(c) |-> e.amount])
    BY BackedLemma DEF Books, Backed
  <2>2. QED BY <2>1 DEF CreditBacked, Live, OnCredit, Mine
<1>4. QED BY <1>1, <1>2, <1>3, PTL DEF Spec

=============================================================================
