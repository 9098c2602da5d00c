-------------------------- MODULE BackOfficeProofs --------------------------
(***************************************************************************)
(* Theorems about the back office: for every value of the constants, a hub *)
(* count loses no parcel (HubOps), an import survives its worker           *)
(* (Geography), a stale form is refused (Network), a plan honours the      *)
(* closures (Serviceability), and a date has one price that no discount    *)
(* takes the premium from (Pricing).                                       *)
(***************************************************************************)
EXTENDS HubOps, Geography, Serviceability, Pricing, SumTheorems, SequenceTheorems

-----------------------------------------------------------------------------
(***************************************************************************)
(* Greatest numbers.                                                       *)
(***************************************************************************)

\* A set of numbers up to n has a greatest one.
LEMMA GreatestNumber ==
    ASSUME NEW n \in Nat, NEW S \in SUBSET (0 .. n), S # {}
    PROVE  \E m \in S : \A k \in S : k <= m
<1> DEFINE T == {n - k : k \in S}
<1>1. T \in SUBSET Nat /\ T # {}
  <2>1. PICK s \in S : TRUE OBVIOUS
  <2>2. n - s \in T BY <2>1
  <2>3. QED BY <2>2
<1> HIDE DEF T
<1>2. PICK t \in T : \A x \in T : t <= x BY <1>1, LeastNumber
<1> USE DEF T
<1>3. PICK m \in S : t = n - m BY <1>2
<1>4. \A k \in S : k <= m BY <1>2, <1>3
<1>5. QED BY <1>4

\* A finite set has a member on which a function into the integers is least.
LEMMA LeastImage ==
    ASSUME NEW S, IsFiniteSet(S), S # {}, NEW f \in [S -> Int]
    PROVE  \E i \in S : \A k \in S : f[i] <= f[k]
<1> DEFINE Least(A, i) == i \in A /\ \A k \in A : f[i] <= f[k]
           Bad(n) == \E A \in SUBSET S :
                        A # {} /\ Cardinality(A) = n /\ \A i \in A : ~Least(A, i)
           T == {n \in Nat : Bad(n)}
<1>1. SUFFICES ASSUME T # {} PROVE FALSE
  <2>1. T = {} BY <1>1
  <2>2. Cardinality(S) \in Nat BY FS_CardinalityType
  <2>3. ~Bad(Cardinality(S)) BY <2>1, <2>2
  <2>4. QED BY <2>3
<1> HIDE DEF T
<1>2. PICK m \in T : \A k \in T : m <= k BY <1>1, LeastNumber DEF T
<1> USE DEF T
<1>3. m \in Nat /\ Bad(m) BY <1>2
<1>4. PICK A \in SUBSET S : A # {} /\ Cardinality(A) = m /\ \A i \in A : ~Least(A, i)
  BY <1>3
<1>5. IsFiniteSet(A) BY FS_Subset
<1>6. PICK a \in A : TRUE BY <1>4
<1> DEFINE B == A \ {a}
<1>7. IsFiniteSet(B) /\ Cardinality(B) = m - 1 BY <1>4, <1>5, <1>6, FS_RemoveElement
<1>8. CASE B = {}
  <2>1. A = {a} BY <1>6, <1>8
  <2>2. Least(A, a) BY <1>6, <2>1
  <2>3. QED BY <1>4, <1>6, <2>2
<1>9. CASE B # {}
  <2>1. Cardinality(B) \in Nat BY <1>7, FS_CardinalityType
  <2>2. m - 1 \notin T BY <1>2, <1>3
  <2>3. PICK b \in B : Least(B, b) BY <1>7, <1>9, <2>1, <2>2
  <2>4. f[a] \in Int /\ f[b] \in Int /\ \A k \in A : f[k] \in Int BY <1>6, <2>3
  <2>5. Least(A, a) \/ Least(A, b) BY <1>6, <2>3, <2>4
  <2>6. QED BY <1>4, <1>6, <2>3, <2>5
<1>10. QED BY <1>8, <1>9

\* Of the rows of a query ordered by three columns and then by id, one is first.
Leads(i, S, f, g, h) ==
    \A k \in S \ {i} : \/ f[i] < f[k]
                       \/ f[i] = f[k] /\ g[i] < g[k]
                       \/ f[i] = f[k] /\ g[i] = g[k] /\ h[i] < h[k]
                       \/ f[i] = f[k] /\ g[i] = g[k] /\ h[i] = h[k] /\ i < k

LEMMA FirstRow ==
    ASSUME NEW S \in SUBSET Nat, IsFiniteSet(S), S # {},
           NEW f \in [S -> Int], NEW g \in [S -> Int], NEW h \in [S -> Int]
    PROVE  \E i \in S : Leads(i, S, f, g, h)
<1>1. PICK a \in S : \A k \in S : f[a] <= f[k] BY LeastImage
<1> DEFINE A == {k \in S : f[k] = f[a]}
<1>2. IsFiniteSet(A) /\ A # {} /\ [k \in A |-> g[k]] \in [A -> Int] BY <1>1, FS_Subset
<1>3. PICK b \in A : \A k \in A : g[b] <= g[k]
  <2>1. PICK b \in A : \A k \in A : [x \in A |-> g[x]][b] <= [x \in A |-> g[x]][k]
    BY <1>2, LeastImage
  <2>2. QED BY <2>1
<1> DEFINE B == {k \in A : g[k] = g[b]}
<1>4. IsFiniteSet(B) /\ B # {} /\ [k \in B |-> h[k]] \in [B -> Int] BY <1>2, <1>3, FS_Subset
<1>5. PICK c \in B : \A k \in B : h[c] <= h[k]
  <2>1. PICK c \in B : \A k \in B : [x \in B |-> h[x]][c] <= [x \in B |-> h[x]][k]
    BY <1>4, LeastImage, ZenonT(60)
  <2>2. QED BY <2>1
<1> DEFINE C == {k \in B : h[k] = h[c]}
<1>6. C \in SUBSET Nat /\ C # {} BY <1>5
<1>7. PICK i \in C : \A k \in C : i <= k BY <1>6, LeastNumber
<1>8. i \in S /\ f[i] = f[a] /\ g[i] = g[b] /\ h[i] = h[c] BY <1>7
<1>9. ASSUME NEW k \in S \ {i}
      PROVE  \/ f[i] < f[k]
             \/ f[i] = f[k] /\ g[i] < g[k]
             \/ f[i] = f[k] /\ g[i] = g[k] /\ h[i] < h[k]
             \/ f[i] = f[k] /\ g[i] = g[k] /\ h[i] = h[k] /\ i < k
  <2>1. f[i] <= f[k] /\ f[i] \in Int /\ f[k] \in Int BY <1>1, <1>8
  <2>2. f[k] = f[i] => g[i] <= g[k] /\ g[i] \in Int /\ g[k] \in Int BY <1>3, <1>8
  <2>3. f[k] = f[i] /\ g[k] = g[i] => h[i] <= h[k] /\ h[i] \in Int /\ h[k] \in Int
    BY <1>5, <1>8
  <2>4. f[k] = f[i] /\ g[k] = g[i] /\ h[k] = h[i] => i < k
    <3>1. f[k] = f[i] /\ g[k] = g[i] /\ h[k] = h[i] => k \in C BY <1>8
    <3>2. i \in Nat /\ k \in Nat /\ k # i BY <1>8
    <3>3. k \in C => i <= k BY <1>7
    <3>4. QED BY <3>1, <3>2, <3>3
  <2>5. QED BY <2>1, <2>2, <2>3, <2>4
<1>10. QED BY <1>8, <1>9 DEF Leads

-----------------------------------------------------------------------------
(***************************************************************************)
(* Hub counts.  While a count goes on, what was declared has not been      *)
(* given up and is scanned or still expected, and everything else that was *)
(* scanned has its exception; completion turns what is still expected into *)
(* shortages.                                                              *)
(***************************************************************************)
Surplus == {"EXCESS", "UNKNOWN_BARCODE"}
Kinds == SUBSET ({"MISSING"} \cup Surplus)

Tallied(r, c) ==
    LET l == line[r][c] IN
    IF c \in Declared[count[r].of]
    THEN /\ l.outcome \in {"EXPECTED", "MATCHED", "DAMAGED"}
         /\ l.scanned <=> l.outcome # "EXPECTED"
         /\ ~Owned(r, c, {"MISSING"})
    ELSE /\ l.outcome \notin {"EXPECTED", "MISSING"}
         /\ l.outcome # "NONE" <=> Owned(r, c, Surplus)

\* What DifferencesOwned says of one count and one barcode.
Settles(r, c) ==
    /\ c \in Declared[count[r].of] => (line[r][c].scanned <=> ~Owned(r, c, {"MISSING"}))
    /\ c \notin Declared[count[r].of] => (line[r][c].outcome # "NONE" <=> Owned(r, c, Surplus))
    /\ count[r].status = "COMPLETED" /\ c \in Declared[count[r].of] => line[r][c].scanned

\* One count: not started, it has no exception; started, it is of a subject.
Kept(r) ==
    /\ count[r].status = "NONE" => \A c \in Barcodes, types \in Kinds : ~Owned(r, c, types)
    /\ count[r].status # "NONE" => count[r].of \in Subjects
    /\ count[r].status = "IN_PROGRESS" => \A c \in Barcodes : Tallied(r, c)
    /\ count[r].status \in Finished => \A c \in Barcodes : Settles(r, c)

HubInv == HubTypeOK /\ \A r \in Counts : Kept(r)

\* An exception that is added owns what it names and nothing else.
LEMMA OwnedAppend ==
    ASSUME HubTypeOK, NEW e \in ExceptionRow, exc' = Append(exc, e), NEW r, NEW c, NEW types
    PROVE  Owned(r, c, types)' <=> (Owned(r, c, types) \/ (e.of = r /\ e.barcode = c /\ e.type \in types))
<1>1. /\ exc \in Seq(ExceptionRow) /\ Len(exc) \in Nat
      /\ DOMAIN exc = 1 .. Len(exc) /\ DOMAIN exc' = 1 .. (Len(exc) + 1)
      /\ exc'[Len(exc) + 1] = e /\ \A i \in DOMAIN exc : exc'[i] = exc[i]
  BY DEF HubTypeOK
<1>2. DOMAIN exc' = DOMAIN exc \cup {Len(exc) + 1} BY <1>1
<1>3. QED BY <1>1, <1>2 DEF Owned

\* What a count says of its barcodes stays when neither its row, its lines nor
\* the exceptions about it change.
LEMMA KeptAlone ==
    ASSUME NEW r \in Counts, Kept(r), count'[r] = count[r], line'[r] = line[r],
           \A c \in Barcodes, types \in Kinds :
              Owned(r, c, types)' <=> Owned(r, c, types)
    PROVE  Kept(r)'
<1>1. \A c \in Barcodes : /\ (Owned(r, c, {"MISSING"})' <=> Owned(r, c, {"MISSING"}))
                          /\ (Owned(r, c, Surplus)' <=> Owned(r, c, Surplus))
  BY DEF Surplus, Kinds
<1>2. \A c \in Barcodes : (Tallied(r, c)' <=> Tallied(r, c)) /\ (Settles(r, c)' <=> Settles(r, c))
  BY <1>1 DEF Tallied, Settles, Surplus
<1>3. QED BY <1>2 DEF Kept

LEMMA HubStart ==
    ASSUME HubInv, NEW r \in Counts, NEW x \in Subjects, StartReconciliation(r, x)
    PROVE  HubInv'
<1>1. /\ count[r].status = "NONE" /\ exc' = exc /\ subject' = subject
      /\ count' = [count EXCEPT ![r].status = "IN_PROGRESS", ![r].of = x]
      /\ line' = [line EXCEPT ![r] = declaredItems(x)]
  BY DEF StartReconciliation, CreateReconciliation
<1>2. HubTypeOK BY DEF HubInv
<1>3. declaredItems(x) \in [Barcodes -> ItemRow]
  BY DEF declaredItems, ItemRow, NoItem, Outcomes
<1>4. HubTypeOK'
  BY <1>1, <1>2, <1>3 DEF HubTypeOK, ReconciliationRow
<1>5. \A k \in Counts, c \in Barcodes, types \in Kinds : Owned(k, c, types)' <=> Owned(k, c, types)
  BY <1>1 DEF Owned
<1>6. ASSUME NEW k \in Counts \ {r} PROVE Kept(k)'
  <2>1. count'[k] = count[k] /\ line'[k] = line[k] BY <1>1, <1>2 DEF HubTypeOK
  <2>2. Kept(k) BY DEF HubInv
  <2>3. QED BY <1>5, <2>1, <2>2, KeptAlone
<1>7. Kept(r)'
  <2>1. count'[r].status = "IN_PROGRESS" /\ count'[r].of = x /\ line'[r] = declaredItems(x)
    BY <1>1, <1>2 DEF HubTypeOK, ReconciliationRow
  <2>2. \A c \in Barcodes : ~Owned(r, c, {"MISSING"})' /\ ~Owned(r, c, Surplus)'
    BY <1>1, <1>5 DEF HubInv, Kept, Surplus, Kinds
  <2>3. \A c \in Barcodes : Tallied(r, c)'
    BY <2>1, <2>2 DEF Tallied, declaredItems, NoItem
  <2>4. QED BY <2>1, <2>3 DEF Kept, Finished
<1>8. QED BY <1>4, <1>6, <1>7 DEF HubInv

LEMMA ListSize ==
    ASSUME NEW its, NEW o
    PROVE  /\ IsFiniteSet(ListReconciliationItems(its, o))
           /\ Cardinality(ListReconciliationItems(its, o)) \in Nat
<1>1. ListReconciliationItems(its, o) \in SUBSET Barcodes BY DEF ListReconciliationItems
<1>2. IsFiniteSet(ListReconciliationItems(its, o))
  <2>1. IsFiniteSet(Barcodes) BY HubAssumption
  <2>2. QED BY <1>1, <2>1, FS_Subset
<1>3. QED BY <1>2, FS_CardinalityType

LEMMA HubScan ==
    ASSUME HubInv, NEW r \in Counts, NEW c \in Barcodes, NEW damaged \in BOOLEAN, Scan(r, c, damaged)
    PROVE  HubInv'
<1> DEFINE new == line[r][c].outcome = "NONE"
           type == IF new THEN exceptionTypeFor(c) ELSE "DAMAGED"
           e == CreateOperationalException(type, r, c)
           outcome == IF new THEN "EXCESS" ELSE IF damaged THEN "DAMAGED" ELSE "MATCHED"
<1>1. HubTypeOK BY DEF HubInv
<1>2. count[r].status = "IN_PROGRESS" /\ subject' = subject
  BY DEF Scan, LockReconciliationForUpdate
<1>3. /\ line' = [line EXCEPT ![r] = line'[r]] /\ line'[r] \in [Barcodes -> ItemRow]
      /\ \A d \in Barcodes \ {c} : line'[r][d] = line[r][d]
      /\ line'[r][c].outcome = outcome
      /\ line'[r][c].scanned = ~new
  <2>1. line[r] \in [Barcodes -> ItemRow] BY <1>1 DEF HubTypeOK
  <2>2. CASE new
    <3>1. line' = [line EXCEPT ![r] = CreateReconciliationItem(@, c, "EXCESS", FALSE)]
      BY <2>2 DEF Scan, recordExcess
    <3>2. QED BY <1>1, <2>1, <2>2, <3>1 DEF HubTypeOK, CreateReconciliationItem, ItemRow, Outcomes
  <2>3. CASE ~new
    <3>1. line' = [line EXCEPT ![r] = MarkReconciliationItemScanned(@, c,
                                         IF damaged THEN "DAMAGED" ELSE "MATCHED")]
      BY <2>3 DEF Scan
    <3>2. QED BY <1>1, <2>1, <2>3, <3>1 DEF HubTypeOK, MarkReconciliationItemScanned, ItemRow, Outcomes
  <2>4. QED BY <2>2, <2>3
<1>4. exc' = Append(exc, e) \/ (~new /\ exc' = exc)
  BY DEF Scan, recordExcess, raiseItemException
<1>5. new => exc' = Append(exc, e)
  BY DEF Scan, recordExcess
<1>6. e \in ExceptionRow /\ e.of = r /\ e.barcode = c /\ e.type = type /\ type # "MISSING"
      /\ (type \in Surplus <=> new)
  BY DEF CreateOperationalException, ExceptionRow, exceptionTypeFor, Surplus
<1>7. \A k \in Counts, d \in Barcodes, types \in Kinds :
         Owned(k, d, types)' <=> (Owned(k, d, types) \/ (k = r /\ d = c /\ type \in types /\ exc' # exc))
  <2>1. CASE exc' = exc BY <2>1 DEF Owned
  <2>2. CASE exc' # exc
    <3>1. exc' = Append(exc, e) BY <1>4, <2>2
    <3>2. QED BY <1>1, <1>6, <2>2, <3>1, OwnedAppend
  <2>3. QED BY <2>1, <2>2
<1>t. {"MISSING"} \in Kinds /\ Surplus \in Kinds BY DEF Kinds
<1>8. new => exc' # exc
  BY <1>1, <1>5, <1>6 DEF HubTypeOK
<1>9. /\ count' = [count EXCEPT ![r] = count'[r]] /\ count'[r] \in ReconciliationRow
      /\ count'[r].status = "IN_PROGRESS" /\ count'[r].of = count[r].of
  <2>1. count' = [count EXCEPT ![r] = RecalculateReconciliationCounters(@, line'[r])] BY DEF Scan
  <2>2. \A o : Cardinality(ListReconciliationItems(line'[r], o)) \in Nat
    BY ListSize
  <2>3. count[r] \in ReconciliationRow BY <1>1 DEF HubTypeOK
  <2> DEFINE counted == RecalculateReconciliationCounters(count[r], line'[r])
  <2>4. counted \in ReconciliationRow /\ counted.status = count[r].status /\ counted.of = count[r].of
    BY <2>2, <2>3 DEF RecalculateReconciliationCounters, ReconciliationRow
  <2>5. count'[r] = counted /\ count' = [count EXCEPT ![r] = counted] BY <1>1, <2>1 DEF HubTypeOK
  <2>6. QED BY <1>2, <2>4, <2>5
<1>10. HubTypeOK'
  <2>1. exc' \in Seq(ExceptionRow) BY <1>1, <1>4, <1>6 DEF HubTypeOK
  <2>2. line' \in [Counts -> [Barcodes -> ItemRow]] BY <1>1, <1>3 DEF HubTypeOK
  <2>3. count' \in [Counts -> ReconciliationRow] BY <1>1, <1>9 DEF HubTypeOK
  <2>4. QED BY <1>1, <1>2, <2>1, <2>2, <2>3 DEF HubTypeOK
<1>11. ASSUME NEW k \in Counts \ {r} PROVE Kept(k)'
  <2>1. count'[k] = count[k] /\ line'[k] = line[k] BY <1>1, <1>3, <1>9 DEF HubTypeOK
  <2>2. Kept(k) BY DEF HubInv
  <2>3. QED BY <1>7, <2>1, <2>2, KeptAlone
<1>12. Kept(r)'
  <2>1. \A d \in Barcodes : Tallied(r, d) BY <1>2 DEF HubInv, Kept
  <2>2. ASSUME NEW d \in Barcodes PROVE Tallied(r, d)'
    <3>1. Owned(r, d, {"MISSING"})' <=> Owned(r, d, {"MISSING"}) BY <1>6, <1>7, <1>t
    <3>2. Owned(r, d, Surplus)' <=> (Owned(r, d, Surplus) \/ (d = c /\ new))
      BY <1>6, <1>7, <1>8, <1>t
    <3>3. CASE d # c
      BY <1>3, <1>9, <2>1, <3>1, <3>2, <3>3 DEF Tallied, Surplus
    <3>4. CASE d = c /\ new
      BY <1>3, <1>9, <2>1, <3>1, <3>2, <3>4 DEF Tallied, Surplus
    <3>5. CASE d = c /\ ~new
      BY <1>3, <1>9, <2>1, <3>1, <3>2, <3>5 DEF Tallied, Surplus
    <3>6. QED BY <3>3, <3>4, <3>5
  <2>3. QED BY <1>2, <1>9, <2>2 DEF HubInv, Kept, Finished
<1>13. QED BY <1>10, <1>11, <1>12 DEF HubInv

\* Shortages are added after the exceptions there are, one for each barcode.
LEMMA OwnedShortages ==
    ASSUME HubTypeOK, NEW r \in Counts, NEW missing \in SUBSET Barcodes, IsFiniteSet(missing),
           NEW es \in Shortages(r, missing), exc' = exc \o es
    PROVE  /\ exc' \in Seq(ExceptionRow)
           /\ \A k \in Counts, c \in Barcodes, types \in Kinds :
                 Owned(k, c, types)' <=>
                   (Owned(k, c, types) \/ (k = r /\ c \in missing /\ "MISSING" \in types))
<1> DEFINE n == Cardinality(missing)
           E == [type : {"MISSING"}, of : {r}, barcode : missing, status : {"OPEN"},
                 explained : {FALSE}]
<1>1. n \in Nat BY FS_CardinalityType
<1>2. es \in [1 .. n -> E] /\ {es[i].barcode : i \in DOMAIN es} = missing BY DEF Shortages
<1>3. E \subseteq ExceptionRow BY DEF ExceptionRow
<1>4. es \in Seq(ExceptionRow) /\ Len(es) = n
  <2>1. es \in [1 .. n -> ExceptionRow] BY <1>2, <1>3
  <2> HIDE DEF n
  <2>2. QED BY <1>1, <2>1
<1>5. exc \in Seq(ExceptionRow) /\ Len(exc) \in Nat /\ DOMAIN exc = 1 .. Len(exc)
  BY DEF HubTypeOK
<1>6. /\ exc' \in Seq(ExceptionRow) /\ DOMAIN exc' = 1 .. (Len(exc) + n)
      /\ \A i \in DOMAIN exc : exc'[i] = exc[i]
      /\ \A i \in 1 .. n : exc'[Len(exc) + i] = es[i]
  BY <1>1, <1>4, <1>5
<1>7. \A i \in DOMAIN exc' : i \in DOMAIN exc \/ \E j \in 1 .. n : i = Len(exc) + j
  <2> SUFFICES ASSUME NEW i \in DOMAIN exc', i \notin DOMAIN exc
               PROVE  \E j \in 1 .. n : i = Len(exc) + j
    OBVIOUS
  <2>1. i - Len(exc) \in 1 .. n /\ i = Len(exc) + (i - Len(exc)) BY <1>1, <1>5, <1>6
  <2>2. QED BY <2>1
<1>8. ASSUME NEW k \in Counts, NEW c \in Barcodes, NEW types \in Kinds
      PROVE  Owned(k, c, types)' <=>
                (Owned(k, c, types) \/ (k = r /\ c \in missing /\ "MISSING" \in types))
  <2>1. ASSUME Owned(k, c, types)'
        PROVE  Owned(k, c, types) \/ (k = r /\ c \in missing /\ "MISSING" \in types)
    <3>1. PICK i \in DOMAIN exc' : exc'[i].of = k /\ exc'[i].barcode = c /\ exc'[i].type \in types
      BY <2>1 DEF Owned
    <3>2. CASE i \in DOMAIN exc BY <1>6, <3>1, <3>2 DEF Owned
    <3>3. CASE i \notin DOMAIN exc
      <4>1. PICK j \in 1 .. n : i = Len(exc) + j BY <1>7, <3>3
      <4>2. exc'[i] = es[j] /\ es[j] \in E BY <1>2, <1>6, <4>1
      <4>3. QED BY <3>1, <4>2
    <3>4. QED BY <3>2, <3>3
  <2>2. ASSUME Owned(k, c, types) PROVE Owned(k, c, types)'
    <3>1. PICK i \in DOMAIN exc : exc[i].of = k /\ exc[i].barcode = c /\ exc[i].type \in types
      BY <2>2 DEF Owned
    <3>2. i \in DOMAIN exc' /\ exc'[i] = exc[i] BY <1>1, <1>5, <1>6
    <3>3. QED BY <3>1, <3>2 DEF Owned
  <2>3. ASSUME k = r, c \in missing, "MISSING" \in types PROVE Owned(k, c, types)'
    <3>1. PICK j \in 1 .. n : es[j].barcode = c BY <1>2, <2>3
    <3>2. exc'[Len(exc) + j] = es[j] /\ es[j] \in E BY <1>2, <1>6
    <3>3. Len(exc) + j \in DOMAIN exc' BY <1>1, <1>5, <1>6
    <3>4. QED BY <2>3, <3>1, <3>2, <3>3 DEF Owned
  <2>4. QED BY <2>1, <2>2, <2>3
<1>9. QED BY <1>6, <1>8

LEMMA HubComplete ==
    ASSUME HubInv, NEW r \in Counts, Complete(r)
    PROVE  HubInv'
<1> DEFINE its == MarkUnscannedItemsMissing(line[r])
           counted == RecalculateReconciliationCounters(count[r], its)
           missing == ListReconciliationItems(its, "MISSING")
           status == IF counted.missing > 0 \/ counted.excess > 0 \/ counted.damaged > 0
                     THEN "COMPLETED_WITH_EXCEPTIONS" ELSE "COMPLETED"
<1>1. HubTypeOK BY DEF HubInv
<1>2. /\ count[r].status = "IN_PROGRESS"
      /\ line' = [line EXCEPT ![r] = its]
      /\ count' = [count EXCEPT ![r] = CompleteReconciliation(counted, status)]
      /\ subject' = [subject EXCEPT ![count[r].of] = "RECONCILED"] \/ subject' = subject
  BY DEF Complete, LockReconciliationForUpdate, reconciledSubject
<1>3. PICK es \in Shortages(r, missing) : exc' = exc \o es BY DEF Complete
<1>4. IsFiniteSet(missing) /\ Cardinality(missing) \in Nat /\ missing \in SUBSET Barcodes
  BY ListSize DEF ListReconciliationItems
<1>5. line[r] \in [Barcodes -> ItemRow] BY <1>1 DEF HubTypeOK
<1>6. its \in [Barcodes -> ItemRow] /\ \A c \in Barcodes :
         its[c].scanned = line[r][c].scanned
         /\ its[c].outcome = IF line[r][c].outcome = "EXPECTED" /\ ~line[r][c].scanned
                             THEN "MISSING" ELSE line[r][c].outcome
  BY <1>5 DEF MarkUnscannedItemsMissing, ItemRow, Outcomes
<1>7. /\ counted \in ReconciliationRow /\ counted.of = count[r].of
      /\ counted.missing = Cardinality(missing)
  <2>1. count[r] \in ReconciliationRow BY <1>1 DEF HubTypeOK
  <2>2. \A o : Cardinality(ListReconciliationItems(its, o)) \in Nat BY ListSize
  <2> HIDE DEF its
  <2>3. QED BY <2>1, <2>2 DEF RecalculateReconciliationCounters, ReconciliationRow
<1> HIDE DEF its, counted, missing
<1>8. /\ count'[r] = CompleteReconciliation(counted, status)
      /\ CompleteReconciliation(counted, status) \in ReconciliationRow
      /\ count'[r].status = status /\ count'[r].of = count[r].of
      /\ \A k \in Counts \ {r} : count'[k] = count[k]
  BY <1>1, <1>2, <1>7 DEF HubTypeOK, CompleteReconciliation, ReconciliationRow, Finished
<1>9. \A k \in Counts, c \in Barcodes, types \in Kinds :
         Owned(k, c, types)' <=>
           (Owned(k, c, types) \/ (k = r /\ c \in missing /\ "MISSING" \in types))
  BY <1>1, <1>3, <1>4, OwnedShortages
<1>10. HubTypeOK'
  <2>1. exc' \in Seq(ExceptionRow) BY <1>1, <1>3, <1>4, OwnedShortages
  <2>2. line' \in [Counts -> [Barcodes -> ItemRow]] BY <1>1, <1>2, <1>6 DEF HubTypeOK
  <2>3. count' \in [Counts -> ReconciliationRow] BY <1>1, <1>2, <1>8 DEF HubTypeOK
  <2>4. subject' \in [Subjects -> SubjectStatuses] BY <1>1, <1>2 DEF HubTypeOK, SubjectStatuses
  <2>5. QED BY <2>1, <2>2, <2>3, <2>4 DEF HubTypeOK
<1>11. ASSUME NEW k \in Counts \ {r} PROVE Kept(k)'
  <2>1. count'[k] = count[k] /\ line'[k] = line[k] BY <1>1, <1>2, <1>8 DEF HubTypeOK
  <2>2. Kept(k) BY DEF HubInv
  <2>3. QED BY <1>9, <2>1, <2>2, KeptAlone
<1>12. ASSUME NEW c \in Barcodes PROVE Settles(r, c)'
  <2>1. Tallied(r, c) BY <1>2 DEF HubInv, Kept
  <2>2. line'[r] = its BY <1>1, <1>2 DEF HubTypeOK
  <2>3. {"MISSING"} \in Kinds /\ Surplus \in Kinds /\ "MISSING" \notin Surplus
    BY DEF Kinds, Surplus
  <2>4. /\ Owned(r, c, {"MISSING"})' <=> (Owned(r, c, {"MISSING"}) \/ c \in missing)
        /\ Owned(r, c, Surplus)' <=> Owned(r, c, Surplus)
    BY <1>9, <2>3
  <2>5. c \in missing <=> its[c].outcome = "MISSING" BY DEF missing, ListReconciliationItems
  <2>6. status = "COMPLETED" => c \notin missing
    <3>1. status = "COMPLETED" => ~(counted.missing > 0) OBVIOUS
    <3>2. status = "COMPLETED" => Cardinality(missing) = 0 BY <1>4, <1>7, <3>1
    <3>3. Cardinality(missing) = 0 => missing = {} BY <1>4, FS_EmptySet
    <3>4. QED BY <3>2, <3>3
  <2> HIDE DEF status
  <2>7. CASE c \in Declared[count[r].of]
    <3>1. c \in missing <=> ~line[r][c].scanned BY <1>6, <2>1, <2>5, <2>7 DEF Tallied
    <3>2. QED BY <1>6, <1>8, <2>1, <2>2, <2>4, <2>6, <2>7, <3>1 DEF Tallied, Settles
  <2>8. CASE c \notin Declared[count[r].of]
    BY <1>6, <1>8, <2>1, <2>2, <2>4, <2>8 DEF Tallied, Settles
  <2>9. QED BY <2>7, <2>8
<1>13. Kept(r)'
  <2>1. count[r].of \in Subjects BY <1>2 DEF HubInv, Kept
  <2>2. status \in Finished BY DEF Finished
  <2>3. QED BY <1>8, <1>12, <2>1, <2>2 DEF Kept, Finished
<1>14. QED BY <1>10, <1>11, <1>13 DEF HubInv

\* Whatever else happens to exceptions and subjects, no count is touched.
LEMMA HubOther ==
    ASSUME HubInv, count' = count, line' = line, HubTypeOK',
           \A k \in Counts, c \in Barcodes, types \in Kinds :
              Owned(k, c, types)' <=> Owned(k, c, types)
    PROVE  HubInv'
<1>1. ASSUME NEW k \in Counts PROVE Kept(k)'
  <2>1. Kept(k) BY DEF HubInv
  <2>2. QED BY <2>1, KeptAlone
<1>2. QED BY <1>1 DEF HubInv

LEMMA HubRaise ==
    ASSUME HubInv, NEW c \in Barcodes, Raise(c)
    PROVE  HubInv'
<1> DEFINE e == CreateOperationalException("OTHER", NoSubject, c)
<1>1. HubTypeOK BY DEF HubInv
<1>2. exc' = Append(exc, e) /\ count' = count /\ line' = line /\ subject' = subject
  BY DEF Raise
<1>3. e \in ExceptionRow /\ e.type = "OTHER"
  BY DEF CreateOperationalException, ExceptionRow
<1>4. HubTypeOK' BY <1>1, <1>2, <1>3 DEF HubTypeOK
<1>5. \A k \in Counts, d \in Barcodes, types \in Kinds :
         Owned(k, d, types)' <=> Owned(k, d, types)
  <2>1. \A types \in Kinds : "OTHER" \notin types BY DEF Kinds, Surplus
  <2>2. QED BY <1>1, <1>2, <1>3, <2>1, OwnedAppend
<1>6. QED BY <1>2, <1>4, <1>5, HubOther

LEMMA HubResolve ==
    ASSUME HubInv, NEW i \in DOMAIN exc, NEW to \in {"INVESTIGATING"} \cup Closed,
           NEW explained \in BOOLEAN, ResolveException(i, to, explained)
    PROVE  HubInv'
<1>1. HubTypeOK BY DEF HubInv
<1>2. /\ exc' = [exc EXCEPT ![i].status = to, ![i].explained = @ \/ explained]
      /\ count' = count /\ line' = line /\ subject' = subject
  BY DEF ResolveException, UpdateExceptionStatus
<1>3. /\ exc \in Seq(ExceptionRow) /\ DOMAIN exc' = DOMAIN exc
      /\ \A j \in DOMAIN exc : exc[j] \in ExceptionRow
  BY <1>1, <1>2 DEF HubTypeOK
<1>4. \A j \in DOMAIN exc : /\ exc'[j] \in ExceptionRow
                            /\ exc'[j].of = exc[j].of /\ exc'[j].type = exc[j].type
                            /\ exc'[j].barcode = exc[j].barcode
  BY <1>2, <1>3 DEF ExceptionRow, Closed
<1>5. HubTypeOK'
  <2>1. exc' \in [1 .. Len(exc) -> ExceptionRow] /\ Len(exc) \in Nat
    BY <1>2, <1>3, <1>4
  <2>2. exc' \in Seq(ExceptionRow) BY <2>1
  <2>3. QED BY <1>1, <1>2, <2>2 DEF HubTypeOK
<1>6. \A k \in Counts, d \in Barcodes, types \in Kinds :
         Owned(k, d, types)' <=> Owned(k, d, types)
  BY <1>3, <1>4 DEF Owned
<1>7. QED BY <1>2, <1>5, <1>6, HubOther

LEMMA HubStep == HubInv /\ [HubNext]_hubVars => HubInv'
<1> SUFFICES ASSUME HubInv, [HubNext]_hubVars PROVE HubInv' OBVIOUS
<1>1. HubTypeOK BY DEF HubInv
<1>2. CASE \E r \in Counts, x \in Subjects : StartReconciliation(r, x) BY <1>2, HubStart
<1>3. CASE \E r \in Counts, c \in Barcodes, damaged \in BOOLEAN : Scan(r, c, damaged)
  BY <1>3, HubScan
<1>4. CASE \E r \in Counts : Complete(r) BY <1>4, HubComplete
<1>5. CASE \E x \in Subjects : OpenSubject(x)
  <2>1. PICK x \in Subjects : OpenSubject(x) BY <1>5
  <2>2. HubTypeOK' /\ count' = count /\ line' = line /\ exc' = exc
    BY <1>1, <2>1 DEF OpenSubject, HubTypeOK, SubjectStatuses
  <2>3. QED BY <2>2, HubOther DEF Owned
<1>6. CASE \E c \in Barcodes : Raise(c) BY <1>6, HubRaise
<1>7. CASE \E i \in DOMAIN exc, to \in {"INVESTIGATING"} \cup Closed, explained \in BOOLEAN :
              ResolveException(i, to, explained)
  BY <1>7, HubResolve
<1>8. CASE UNCHANGED hubVars
  <2>1. HubTypeOK' /\ count' = count /\ line' = line /\ exc' = exc
    BY <1>1, <1>8 DEF hubVars, HubTypeOK
  <2>2. QED BY <2>1, HubOther DEF Owned
<1>9. QED BY <1>2, <1>3, <1>4, <1>5, <1>6, <1>7, <1>8 DEF HubNext

LEMMA HubStarts == HubInit => HubInv
<1> SUFFICES ASSUME HubInit PROVE HubInv OBVIOUS
<1>1. HubTypeOK
  BY DEF HubInit, HubTypeOK, SubjectStatuses, ReconciliationRow, ItemRow, NoItem
<1>2. \A r \in Counts : Kept(r)
  BY DEF HubInit, Kept, Owned, Finished
<1>3. QED BY <1>1, <1>2 DEF HubInv

\* Subjects, counts, their lines and the exceptions always have their types.
THEOREM HubTypeCorrect == HubSpec => []HubTypeOK
<1>1. HubInv => HubTypeOK BY DEF HubInv
<1>2. QED BY <1>1, HubStarts, HubStep, PTL DEF HubSpec

\* No count closes silently (hubops.go, Complete): for any bags, manifests,
\* barcodes and clerks, what was declared was scanned or is a shortage somebody
\* owns, and what was scanned beyond it is an exception.
THEOREM NothingLostInACount == HubSpec => []DifferencesOwned
<1>1. HubInv => DifferencesOwned
  <2> SUFFICES ASSUME HubInv, NEW r \in Counts, count[r].status \in Finished, NEW c \in Barcodes
               PROVE  /\ c \in Declared[count[r].of] =>
                           (line[r][c].scanned # Owned(r, c, {"MISSING"}))
                      /\ c \notin Declared[count[r].of] =>
                           (line[r][c].outcome # "NONE") = Owned(r, c, {"EXCESS", "UNKNOWN_BARCODE"})
                      /\ count[r].status = "COMPLETED" /\ c \in Declared[count[r].of] =>
                           line[r][c].scanned
    BY DEF DifferencesOwned
  <2>1. Settles(r, c) BY DEF HubInv, Kept
  <2>2. line[r][c].scanned \in BOOLEAN BY DEF HubInv, HubTypeOK, ItemRow
  <2>3. Owned(r, c, {"MISSING"}) \in BOOLEAN /\ Owned(r, c, Surplus) \in BOOLEAN BY DEF Owned
  <2>4. QED BY <2>1, <2>2, <2>3 DEF Settles, Surplus
<1>2. QED BY <1>1, HubStarts, HubStep, PTL DEF HubSpec

-----------------------------------------------------------------------------
(***************************************************************************)
(* Forms of the network.  Every write of a unit or a franchise counts its  *)
(* version up, so that a row whose version is the one on the screen is the *)
(* row on the screen.                                                      *)
(***************************************************************************)
ScreenRow == [about : Units \cup Franchises \cup {NoUnit},
              seen : UnitRow \cup FranchiseRow \cup {NoUnit}, clear : BOOLEAN]

\* What a screen shows of a row that is now `row'.
Shows(shown, row) ==
    /\ row.status # "NONE" /\ shown.version \in Nat /\ shown.version <= row.version
    /\ shown.version = row.version => shown = row

FormInv ==
    /\ NetworkTypeOK /\ screen \in [Admins -> ScreenRow]
    /\ \A a \in Admins, u \in Units : screen[a].about = u => Shows(screen[a].seen, unit[u])
    /\ \A a \in Admins, f \in Franchises :
          screen[a].about = f => Shows(screen[a].seen, franchise[f])

\* A row that is written again has a newer version, or is the one there was.
Newer(old, new) == old.status = "NONE" \/ new = old
                   \/ (new.status # "NONE" /\ new.version = old.version + 1)

LEMMA ShowsNewer ==
    ASSUME NEW shown, NEW old, NEW new, Shows(shown, old), Newer(old, new), old.version \in Nat
    PROVE  Shows(shown, new)
BY DEF Shows, Newer

\* A step that writes units and franchises with new versions and opens no
\* screen, or closes some, keeps the forms.
LEMMA FormsKept ==
    ASSUME FormInv, NetworkTypeOK', screen' \in [Admins -> ScreenRow],
           \A u \in Units : Newer(unit[u], unit'[u]),
           \A f \in Franchises : Newer(franchise[f], franchise'[f]),
           \A a \in Admins : \/ screen'[a].about = NoUnit
                             \/ /\ screen'[a].about = screen[a].about
                                /\ screen'[a].seen = screen[a].seen
    PROVE  FormInv'
<1>1. \A u \in Units : unit[u].version \in Nat /\ u # NoUnit
  BY NetworkAssumption DEF FormInv, NetworkTypeOK, UnitRow
<1>2. \A f \in Franchises : franchise[f].version \in Nat /\ f # NoUnit
  BY NetworkAssumption DEF FormInv, NetworkTypeOK, FranchiseRow
<1>3. ASSUME NEW a \in Admins, NEW u \in Units, screen'[a].about = u
      PROVE  Shows(screen'[a].seen, unit'[u])
  <2>1. screen[a].about = u /\ screen'[a].seen = screen[a].seen BY <1>1, <1>3
  <2>2. Shows(screen[a].seen, unit[u]) BY <2>1 DEF FormInv
  <2>3. QED BY <1>1, <2>1, <2>2, ShowsNewer
<1>4. ASSUME NEW a \in Admins, NEW f \in Franchises, screen'[a].about = f
      PROVE  Shows(screen'[a].seen, franchise'[f])
  <2>1. screen[a].about = f /\ screen'[a].seen = screen[a].seen BY <1>2, <1>4
  <2>2. Shows(screen[a].seen, franchise[f]) BY <2>1 DEF FormInv
  <2>3. QED BY <1>2, <2>1, <2>2, ShowsNewer
<1>5. QED BY <1>3, <1>4 DEF FormInv

\* Regions, capabilities and agreements: no row with a version is written.
LEMMA FormOther ==
    ASSUME FormInv, NetworkTypeOK', UNCHANGED <<unit, franchise, screen>>
    PROVE  FormInv'
<1>1. screen' \in [Admins -> ScreenRow] BY DEF FormInv
<1>2. QED BY <1>1, FormsKept DEF Newer

LEMMA FormRegions ==
    ASSUME FormInv, NEW g \in Regions, NEW parent \in Regions \cup {NoUnit},
           createRegion(g, parent) \/ \E s \in {"ACTIVE", "INACTIVE"} : updateRegion(g, s, parent)
    PROVE  FormInv'
<1>1. region \in [Regions -> RegionRow] BY DEF FormInv, NetworkTypeOK
<1>2. region' \in [Regions -> RegionRow] /\ UNCHANGED <<unit, capable, opening, franchise, agreement, screen>>
  <2>1. CASE createRegion(g, parent)
    BY <1>1, <2>1 DEF createRegion, CreateRegion, RegionRow
  <2>2. CASE \E s \in {"ACTIVE", "INACTIVE"} : updateRegion(g, s, parent)
    <3>1. PICK s \in {"ACTIVE", "INACTIVE"} : updateRegion(g, s, parent) BY <2>2
    <3>2. region[g].parent \in Regions \cup {NoUnit} BY <1>1 DEF RegionRow
    <3>3. QED BY <1>1, <3>1, <3>2 DEF updateRegion, UpdateRegion, RegionRow
  <2>3. QED BY <2>1, <2>2
<1>3. NetworkTypeOK' BY <1>2 DEF FormInv, NetworkTypeOK
<1>4. QED BY <1>2, <1>3, FormOther

LEMMA FormAgreements ==
    ASSUME FormInv, NEW a \in Agreements, NEW f \in Franchises, NEW s \in {"DRAFT", "ACTIVE"},
           createAgreement(a, f, s)
    PROVE  FormInv'
<1>1. /\ agreement' = [agreement EXCEPT ![a] = [status |-> s, of |-> f]]
      /\ UNCHANGED <<unit, region, capable, opening, franchise, screen>>
  BY DEF createAgreement, CreateFranchiseAgreement
<1>2. NetworkTypeOK' BY <1>1 DEF FormInv, NetworkTypeOK, AgreementRow
<1>3. QED BY <1>1, <1>2, FormOther

LEMMA FormCapabilities ==
    ASSUME FormInv, NEW u \in Units, NEW c \in Capabilities,
           \/ createUnitCapability(u, c) \/ createUnitFails(u)
           \/ \E on \in BOOLEAN : setCapability(u, c, on)
    PROVE  FormInv' /\ UNCHANGED screen
<1>1. /\ capable \in [Units -> SUBSET Capabilities] /\ opening \in [Units -> SUBSET Capabilities]
  BY DEF FormInv, NetworkTypeOK
<1>2. UNCHANGED <<unit, region, franchise, agreement, screen>>
  BY DEF setCapability, createUnitCapability, createUnitFails
<1>3. capable' \in [Units -> SUBSET Capabilities]
  BY <1>1 DEF setCapability, createUnitCapability, createUnitFails, SetOperatingUnitCapability
<1>4. opening' \in [Units -> SUBSET Capabilities]
  BY <1>1 DEF setCapability, createUnitCapability, createUnitFails
<1>5. NetworkTypeOK' BY <1>2, <1>3, <1>4 DEF FormInv, NetworkTypeOK
<1>6. QED BY <1>2, <1>5, FormOther

\* The step of StaleFormRefused.
Refuses ==
    \A a \in Admins :
        screen[a] # NoScreen /\ screen'[a] = NoScreen /\ ~screen[a].clear =>
            /\ \A u \in Units : screen[a].about = u =>
                 unit'[u] = unit[u] \/ unit[u] = screen[a].seen
            /\ \A f \in Franchises : screen[a].about = f =>
                 franchise'[f] = franchise[f] \/ franchise[f] = screen[a].seen

LEMMA NoScreenRow == NoScreen \in ScreenRow /\ NoScreen.about = NoUnit
BY DEF NoScreen, ScreenRow

LEMMA FormCreate ==
    ASSUME FormInv, NEW u \in Units, NEW parent \in Units \cup {NoUnit},
           createUnit(u, parent, {"DELIVERY"})
    PROVE  FormInv' /\ Refuses
<1>1. /\ unit[u].status = "NONE" /\ UNCHANGED <<region, franchise, agreement, screen>>
      /\ unit' = [unit EXCEPT ![u] = [status |-> "ACTIVE", parent |-> parent, version |-> 1]]
      /\ opening' = [opening EXCEPT ![u] = {"DELIVERY"}] /\ UNCHANGED capable
  BY DEF createUnit, CreateOperatingUnit
<1>2. NetworkTypeOK /\ screen \in [Admins -> ScreenRow] BY DEF FormInv
<1>3. NetworkTypeOK' BY <1>1, <1>2 DEF NetworkTypeOK, UnitRow, Capabilities
<1>4. \A v \in Units : Newer(unit[v], unit'[v]) BY <1>1, <1>2 DEF NetworkTypeOK, Newer
<1>5. FormInv' BY <1>1, <1>2, <1>3, <1>4, FormsKept DEF Newer
<1>6. QED BY <1>1, <1>5 DEF Refuses

LEMMA FormFranchise ==
    ASSUME FormInv, NEW f \in Franchises, NEW u \in Units, createFranchise(f, u, "ONBOARDING")
    PROVE  FormInv' /\ Refuses
<1>1. /\ franchise[f].status = "NONE" /\ UNCHANGED <<unit, region, capable, opening, agreement, screen>>
      /\ franchise' = [franchise EXCEPT ![f] = [status |-> "ONBOARDING", unit |-> u, version |-> 1]]
  BY DEF createFranchise, CreateFranchise
<1>2. NetworkTypeOK /\ screen \in [Admins -> ScreenRow] BY DEF FormInv
<1>3. NetworkTypeOK' BY <1>1, <1>2 DEF NetworkTypeOK, FranchiseRow, FranchiseStatuses
<1>4. \A g \in Franchises : Newer(franchise[g], franchise'[g])
  BY <1>1, <1>2 DEF NetworkTypeOK, Newer
<1>5. FormInv' BY <1>1, <1>2, <1>3, <1>4, FormsKept DEF Newer
<1>6. QED BY <1>1, <1>5 DEF Refuses

\* A screen that is opened shows the row as it is.
LEMMA FormRead ==
    ASSUME FormInv, NEW a \in Admins,
           (\E u \in Units : readUnit(a, u)) \/ \E f \in Franchises : readFranchise(a, f)
    PROVE  FormInv' /\ Refuses
<1>1. NetworkTypeOK /\ screen \in [Admins -> ScreenRow] BY DEF FormInv
<1>2. UNCHANGED <<unit, region, capable, opening, franchise, agreement>>
  BY DEF readUnit, readFranchise
<1>3. PICK row \in ScreenRow :
         /\ screen' = [screen EXCEPT ![a] = row] /\ row.about # NoUnit
         /\ \A u \in Units : row.about = u => Shows(row.seen, unit[u])
         /\ \A f \in Franchises : row.about = f => Shows(row.seen, franchise[f])
  <2>1. CASE \E u \in Units : readUnit(a, u)
    <3>1. PICK u \in Units : readUnit(a, u) BY <2>1
    <3> DEFINE row == [about |-> u, seen |-> unit[u], clear |-> FALSE]
    <3>2. unit[u] \in UnitRow /\ unit[u].version \in Nat /\ unit[u].status # "NONE"
      BY <1>1, <3>1 DEF NetworkTypeOK, UnitRow, readUnit, GetOperatingUnitByPublicID
    <3>3. screen' = [screen EXCEPT ![a] = row] BY <3>1 DEF readUnit
    <3>4. u # NoUnit /\ u \notin Franchises BY NetworkAssumption
    <3>5. row \in ScreenRow BY <3>2 DEF ScreenRow
    <3>6. Shows(unit[u], unit[u]) BY <3>2 DEF Shows
    <3>7. QED BY <3>3, <3>4, <3>5, <3>6
  <2>2. CASE \E f \in Franchises : readFranchise(a, f)
    <3>1. PICK f \in Franchises : readFranchise(a, f) BY <2>2
    <3> DEFINE row == [about |-> f, seen |-> franchise[f], clear |-> FALSE]
    <3>2. franchise[f] \in FranchiseRow /\ franchise[f].version \in Nat /\ franchise[f].status # "NONE"
      BY <1>1, <3>1 DEF NetworkTypeOK, FranchiseRow, readFranchise, GetFranchiseByPublicID
    <3>3. screen' = [screen EXCEPT ![a] = row] BY <3>1 DEF readFranchise
    <3>4. f # NoUnit /\ f \notin Units BY NetworkAssumption
    <3>5. row \in ScreenRow BY <3>2 DEF ScreenRow
    <3>6. Shows(franchise[f], franchise[f]) BY <3>2 DEF Shows
    <3>7. QED BY <3>3, <3>4, <3>5, <3>6
  <2>3. QED BY <2>1, <2>2
<1>4. FormInv'
  <2>1. NetworkTypeOK' BY <1>1, <1>2 DEF NetworkTypeOK
  <2>2. screen' \in [Admins -> ScreenRow] BY <1>1, <1>3
  <2>3. \A b \in Admins : screen'[b] = IF b = a THEN row ELSE screen[b] BY <1>1, <1>3
  <2>4. QED BY <1>2, <1>3, <2>1, <2>2, <2>3 DEF FormInv
<1>5. Refuses
  <2>1. screen'[a] # NoScreen BY <1>1, <1>3, NoScreenRow
  <2>2. QED BY <1>2, <2>1 DEF Refuses
<1>6. QED BY <1>4, <1>5

\* A step that closes a screen, or marks it, after a write of what it shows.
LEMMA FormSave ==
    ASSUME FormInv, NEW a \in Admins,
           \/ \E s \in {"ACTIVE", "SUSPENDED", "INACTIVE"}, parent \in Units \cup {NoUnit} :
                 updateUnit(a, s, parent)
           \/ \E s \in FranchiseStatuses : updateFranchise(a, s)
    PROVE  FormInv' /\ Refuses
<1>1. NetworkTypeOK /\ screen \in [Admins -> ScreenRow] BY DEF FormInv
<1>2. screen' = [screen EXCEPT ![a] = NoScreen] BY DEF updateUnit, updateFranchise
<1>3. screen' \in [Admins -> ScreenRow]
  BY <1>1, <1>2, NoScreenRow
<1>4. \A b \in Admins : screen'[b] = IF b = a THEN NoScreen ELSE screen[b]
  BY <1>1, <1>2
<1>5. /\ NetworkTypeOK'
      /\ \A u \in Units : Newer(unit[u], unit'[u])
      /\ \A f \in Franchises : Newer(franchise[f], franchise'[f])
      /\ \A u \in Units : screen[a].about = u => unit'[u] = unit[u] \/ unit[u] = screen[a].seen
      /\ \A f \in Franchises :
            screen[a].about = f => franchise'[f] = franchise[f] \/ franchise[f] = screen[a].seen
  <2>1. CASE \E s \in {"ACTIVE", "SUSPENDED", "INACTIVE"}, parent \in Units \cup {NoUnit} :
                updateUnit(a, s, parent)
    <3>1. PICK s \in {"ACTIVE", "SUSPENDED", "INACTIVE"}, parent \in Units \cup {NoUnit} :
              updateUnit(a, s, parent) BY <2>1
    <3> DEFINE u == screen[a].about
    <3>2. /\ u \in Units /\ unit[u].version = screen[a].seen.version
          /\ unit' = [unit EXCEPT ![u] = [status |-> s, parent |-> parent,
                                          version |-> @.version + 1]]
          /\ UNCHANGED <<region, capable, opening, franchise, agreement>>
      BY <3>1 DEF updateUnit, UpdateOperatingUnit
    <3>3. unit[u] \in UnitRow /\ unit[u].version \in Nat BY <1>1, <3>2 DEF NetworkTypeOK, UnitRow
    <3>4. unit' \in [Units -> UnitRow]
      BY <1>1, <3>2, <3>3 DEF NetworkTypeOK, UnitRow
    <3>5. NetworkTypeOK' BY <1>1, <3>2, <3>4 DEF NetworkTypeOK
    <3>6. \A v \in Units : unit'[v] = IF v = u
             THEN [status |-> s, parent |-> parent, version |-> unit[u].version + 1] ELSE unit[v]
      BY <1>1, <3>2 DEF NetworkTypeOK
    <3>7. \A v \in Units : Newer(unit[v], unit'[v]) BY <3>6 DEF Newer
    <3>8. Shows(screen[a].seen, unit[u]) BY <3>2 DEF FormInv
    <3>9. unit[u] = screen[a].seen BY <3>2, <3>8 DEF Shows
    <3>10. QED BY <3>2, <3>5, <3>7, <3>9 DEF Newer
  <2>2. CASE \E s \in FranchiseStatuses : updateFranchise(a, s)
    <3>1. PICK s \in FranchiseStatuses : updateFranchise(a, s) BY <2>2
    <3> DEFINE f == screen[a].about
    <3>2. /\ f \in Franchises /\ franchise[f].version = screen[a].seen.version
          /\ franchise' = [franchise EXCEPT ![f].status = s, ![f].version = @ + 1]
          /\ UNCHANGED <<unit, region, capable, opening, agreement>>
      BY <3>1 DEF updateFranchise, UpdateFranchise
    <3>3. franchise[f] \in FranchiseRow /\ franchise[f].version \in Nat
      BY <1>1, <3>2 DEF NetworkTypeOK, FranchiseRow
    <3>6. \A g \in Franchises : franchise'[g] = IF g = f
             THEN [status |-> s, unit |-> franchise[f].unit, version |-> franchise[f].version + 1]
             ELSE franchise[g]
      BY <1>1, <3>2, <3>3 DEF NetworkTypeOK, FranchiseRow
    <3>4. franchise' \in [Franchises -> FranchiseRow]
      <4>1. franchise' = [g \in Franchises |-> franchise'[g]] BY <1>1, <3>2 DEF NetworkTypeOK
      <4>2. \A g \in Franchises : franchise'[g] \in FranchiseRow
        BY <1>1, <3>3, <3>6 DEF NetworkTypeOK, FranchiseRow
      <4>3. QED BY <4>1, <4>2
    <3>5. NetworkTypeOK' BY <1>1, <3>2, <3>4 DEF NetworkTypeOK
    <3>7. \A g \in Franchises : Newer(franchise[g], franchise'[g])
      BY <3>6 DEF Newer, FranchiseStatuses
    <3>8. Shows(screen[a].seen, franchise[f]) BY <3>2 DEF FormInv
    <3>9. franchise[f] = screen[a].seen BY <3>2, <3>8 DEF Shows
    <3>10. QED BY <3>2, <3>5, <3>7, <3>9 DEF Newer
  <2>3. QED BY <2>1, <2>2
<1>6. FormInv'
  <2>1. \A b \in Admins : \/ screen'[b].about = NoUnit
                          \/ /\ screen'[b].about = screen[b].about
                             /\ screen'[b].seen = screen[b].seen
    BY <1>4, NoScreenRow
  <2>2. QED BY <1>3, <1>5, <2>1, FormsKept
<1>7. Refuses BY <1>4, <1>5 DEF Refuses
<1>8. QED BY <1>6, <1>7

LEMMA FormLeave ==
    ASSUME FormInv, NEW a \in Admins, NEW linked,
           deactivateUnit(a, linked) \/ deactivateUnitWrite(a) \/ closeScreen(a)
    PROVE  FormInv' /\ Refuses
<1>1. NetworkTypeOK /\ screen \in [Admins -> ScreenRow] BY DEF FormInv
<1>2. screen[a] \in ScreenRow BY <1>1
<1>3. CASE deactivateUnit(a, linked)
  <2>1. /\ screen' = [screen EXCEPT ![a].clear = TRUE] /\ screen[a].about \in Units
        /\ UNCHANGED <<unit, region, capable, opening, franchise, agreement>>
    BY <1>3 DEF deactivateUnit
  <2>2. screen' \in [Admins -> ScreenRow] BY <1>1, <1>2, <2>1 DEF ScreenRow
  <2>3. \A b \in Admins : screen'[b].about = screen[b].about /\ screen'[b].seen = screen[b].seen
    BY <1>1, <1>2, <2>1 DEF ScreenRow
  <2>4. NetworkTypeOK' BY <1>1, <2>1 DEF NetworkTypeOK
  <2>5. FormInv' BY <2>1, <2>2, <2>3, <2>4, FormsKept DEF Newer
  <2>6. QED BY <2>1, <2>5 DEF Refuses
<1>4. CASE deactivateUnitWrite(a)
  <2> DEFINE u == screen[a].about
  <2>1. /\ screen' = [screen EXCEPT ![a] = NoScreen] /\ screen[a].clear
        /\ unit' = [unit EXCEPT ![u].status = "INACTIVE", ![u].version = @ + 1]
        /\ UNCHANGED <<region, capable, opening, franchise, agreement>>
    BY <1>4 DEF deactivateUnitWrite, DeactivateOperatingUnit
  <2>2. screen' \in [Admins -> ScreenRow] BY <1>1, <2>1, NoScreenRow
  <2>3. \A b \in Admins : screen'[b] = IF b = a THEN NoScreen ELSE screen[b] BY <1>1, <2>1
  <2>4. \A v \in Units : unit[v] \in UnitRow /\ unit[v].version \in Nat
    BY <1>1 DEF NetworkTypeOK, UnitRow
  <2>5. \A v \in Units : unit'[v] = IF v = u
           THEN [status |-> "INACTIVE", parent |-> unit[v].parent, version |-> unit[v].version + 1]
           ELSE unit[v]
    BY <1>1, <2>1, <2>4 DEF NetworkTypeOK, UnitRow
  <2>6. unit' \in [Units -> UnitRow]
    <3>1. unit' = [v \in Units |-> unit'[v]] BY <1>1, <2>1 DEF NetworkTypeOK
    <3>2. ASSUME NEW v \in Units PROVE unit'[v] \in UnitRow
      <4>1. unit[v] \in UnitRow /\ unit[v].version + 1 \in Nat BY <2>4
      <4>2. [status |-> "INACTIVE", parent |-> unit[v].parent, version |-> unit[v].version + 1]
               \in UnitRow
        BY <4>1 DEF UnitRow
      <4>3. QED BY <2>5, <4>1, <4>2
    <3>3. QED BY <3>1, <3>2
  <2>7. NetworkTypeOK' BY <1>1, <2>1, <2>6 DEF NetworkTypeOK
  <2>8. ASSUME NEW v \in Units PROVE Newer(unit[v], unit'[v])
    <3>1. CASE v = u
      <4>1. unit'[v] = [status |-> "INACTIVE", parent |-> unit[v].parent,
                        version |-> unit[v].version + 1]
        BY <2>5, <3>1
      <4>2. unit'[v].status = "INACTIVE" /\ unit'[v].version = unit[v].version + 1 BY <4>1
      <4>3. QED BY <4>2 DEF Newer
    <3>2. CASE v # u BY <2>5, <3>2 DEF Newer
    <3>3. QED BY <3>1, <3>2
  <2>9. \A b \in Admins : \/ screen'[b].about = NoUnit
                          \/ /\ screen'[b].about = screen[b].about
                             /\ screen'[b].seen = screen[b].seen
    BY <2>3, NoScreenRow
  <2>10. FormInv' BY <2>1, <2>2, <2>7, <2>8, <2>9, FormsKept DEF Newer
  <2>11. \A b \in Admins : screen[b] # NoScreen /\ screen'[b] = NoScreen => b = a BY <2>3
  <2>12. QED BY <2>1, <2>10, <2>11 DEF Refuses
<1>5. CASE closeScreen(a)
  <2>1. /\ screen' = [screen EXCEPT ![a] = NoScreen]
        /\ UNCHANGED <<unit, region, capable, opening, franchise, agreement>>
    BY <1>5 DEF closeScreen
  <2>2. screen' \in [Admins -> ScreenRow] BY <1>1, <2>1, NoScreenRow
  <2>3. \A b \in Admins : screen'[b] = IF b = a THEN NoScreen ELSE screen[b] BY <1>1, <2>1
  <2>4. NetworkTypeOK' BY <1>1, <2>1 DEF NetworkTypeOK
  <2>5. \A b \in Admins : \/ screen'[b].about = NoUnit
                          \/ /\ screen'[b].about = screen[b].about
                             /\ screen'[b].seen = screen[b].seen
    BY <2>3, NoScreenRow
  <2>6. FormInv' BY <2>1, <2>2, <2>4, <2>5, FormsKept DEF Newer
  <2>7. QED BY <2>1, <2>6 DEF Refuses
<1>6. QED BY <1>3, <1>4, <1>5

LEMMA FormStep ==
    ASSUME FormInv, [ServiceNext]_serviceVars PROVE FormInv' /\ Refuses
<1>1. CASE UNCHANGED networkVars
  <2>1. UNCHANGED <<unit, region, capable, opening, franchise, agreement, screen>> BY <1>1 DEF networkVars
  <2>2. NetworkTypeOK' BY <2>1 DEF FormInv, NetworkTypeOK
  <2>3. FormInv' BY <2>1, <2>2, FormOther
  <2>4. QED BY <2>1, <2>3 DEF Refuses
<1>2. CASE NetworkNext(LinkedUnits)
  <2>1. CASE UNCHANGED screen /\ FormInv' BY <2>1 DEF Refuses
  <2>2. CASE \E g \in Regions, parent \in Regions \cup {NoUnit} :
                \/ createRegion(g, parent)
                \/ \E s \in {"ACTIVE", "INACTIVE"} : updateRegion(g, s, parent)
    <3>1. FormInv' BY <2>2, FormRegions
    <3>2. UNCHANGED screen BY <2>2 DEF createRegion, updateRegion
    <3>3. QED BY <2>1, <3>1, <3>2
  <2>3. CASE \/ \E u \in Units, c \in Capabilities :
                  createUnitCapability(u, c) \/ \E on \in BOOLEAN : setCapability(u, c, on)
             \/ \E u \in Units : createUnitFails(u)
    <3>1. "DELIVERY" \in Capabilities BY DEF Capabilities
    <3>2. FormInv' /\ UNCHANGED screen BY <2>3, <3>1, FormCapabilities
    <3>3. QED BY <2>1, <3>2
  <2>4. CASE \E a \in Agreements, f \in Franchises, s \in {"DRAFT", "ACTIVE"} :
                createAgreement(a, f, s)
    <3>1. FormInv' BY <2>4, FormAgreements
    <3>2. UNCHANGED screen BY <2>4 DEF createAgreement
    <3>3. QED BY <2>1, <3>1, <3>2
  <2>5. CASE \E u \in Units, parent \in Units \cup {NoUnit} : createUnit(u, parent, {"DELIVERY"})
    BY <2>5, FormCreate
  <2>6. CASE \E f \in Franchises, u \in Units : createFranchise(f, u, "ONBOARDING")
    BY <2>6, FormFranchise
  <2>7. ASSUME NEW a \in Admins,
               \/ \E u \in Units : readUnit(a, u)
               \/ \E s \in {"ACTIVE", "SUSPENDED", "INACTIVE"}, parent \in Units \cup {NoUnit} :
                     updateUnit(a, s, parent)
               \/ deactivateUnit(a, LinkedUnits) \/ deactivateUnitWrite(a) \/ closeScreen(a)
               \/ \E f \in Franchises : readFranchise(a, f)
               \/ \E s \in FranchiseStatuses : updateFranchise(a, s)
        PROVE  FormInv' /\ Refuses
    BY <2>7, FormRead, FormSave, FormLeave
  <2>8. QED BY <1>2, <2>2, <2>3, <2>4, <2>5, <2>6, <2>7 DEF NetworkNext
<1>3. QED BY <1>1, <1>2 DEF ServiceNext, serviceVars

LEMMA FormStart == NetworkInit => FormInv
<1> SUFFICES ASSUME NetworkInit PROVE FormInv OBVIOUS
<1>1. NetworkTypeOK
  BY DEF NetworkInit, NetworkTypeOK, UnitRow, RegionRow, FranchiseRow, AgreementRow
<1>2. \A a \in Admins : screen[a] = NoScreen BY DEF NetworkInit
<1>3. screen \in [Admins -> ScreenRow] BY NoScreenRow DEF NetworkInit
<1>4. NoUnit \notin Units /\ NoUnit \notin Franchises BY NetworkAssumption
<1>5. QED BY <1>1, <1>2, <1>3, <1>4, NoScreenRow DEF FormInv

\* In every behaviour of the network's administration and of routing, for any
\* facilities, franchises and administrators, a form that is saved (updateUnit,
\* updateFranchise) overwrites nothing that its administrator has not seen.
THEOREM StaleFormsRefused == ServiceSpec => StaleFormRefused
<1>1. FormInv /\ [ServiceNext]_serviceVars => FormInv' BY FormStep
<1>2. FormInv /\ [ServiceNext]_serviceVars => [Refuses]_networkVars BY FormStep
<1>3. ServiceSpec => []FormInv BY FormStart, <1>1, PTL DEF ServiceSpec
<1>4. ServiceSpec => [][Refuses]_networkVars BY <1>2, <1>3, PTL DEF ServiceSpec
<1>5. QED BY <1>4 DEF StaleFormRefused, Refuses

-----------------------------------------------------------------------------
(***************************************************************************)
(* Imports.  A handler's cursor is only a shortcut: at any time the rows   *)
(* up to it are done, and so are those that the batch it has claimed jumps *)
(* over.  No row goes back to PENDING, so this stands whatever a second    *)
(* handler does, and a handler that claims nothing has left nothing.  What *)
(* needs a handler to be alone is the count: only then is a claimed row    *)
(* still PENDING when it is marked.                                        *)
(***************************************************************************)
Done(rs, n) == rs[n] # "PENDING"
Ended == {"COMPLETED", "COMPLETED_WITH_ERRORS"}

RowKept(i) ==
    /\ job[i].status = "NONE" <=> job[i].upload = "none"
    /\ job[i].queued => job[i].upload = "over"
    /\ job[i].queued \/ job[i].upload \in {"staged", "counted"} =>
         Len(rows[i]) = Len(FileRows[i])
    /\ ~job[i].queued => /\ \A n \in 1 .. Len(rows[i]) : rows[i][n] = "PENDING"
                         /\ job[i].success = 0 /\ job[i].failed = 0 /\ job[i].processed = 0
                         /\ job[i].status \in {"NONE", "PENDING", "FAILED"}
    /\ job[i].status \in Ended => \A n \in 1 .. Len(rows[i]) : Done(rows[i], n)
    /\ job[i].success >= RowsThat(i, "SUCCEEDED") /\ job[i].failed >= RowsThat(i, "FAILED")
    /\ job[i].processed = job[i].success + job[i].failed
    /\ i \notin overlapped => /\ job[i].success = RowsThat(i, "SUCCEEDED")
                              /\ job[i].failed = RowsThat(i, "FAILED")

Claimed(rs, batch) ==
    /\ batch \in SUBSET (1 .. Len(rs)) /\ batch # {}
    /\ \A n \in 1 .. Len(rs), k \in batch : n \notin batch /\ n <= k => Done(rs, n)

HandlerKept(h) ==
    LET i == walk[h].import IN
    walk[h].step # "idle" =>
      /\ i \in Imports /\ job[i].queued
      /\ \A n \in 1 .. Len(rows[i]) : n <= walk[h].cursor => Done(rows[i], n)
      /\ walk[h].step = "apply" => Claimed(rows[i], walk[h].batch)
      /\ walk[h].step = "apply" /\ i \notin overlapped =>
           \A n \in walk[h].batch : rows[i][n] = "PENDING"
      /\ walk[h].step = "end" => \A n \in 1 .. Len(rows[i]) : Done(rows[i], n)

HandlerRow == [step : {"idle", "read", "claim", "apply", "end"}, import : Imports \cup {Absent},
               cursor : Nat, failed : Nat, batch : SUBSET Nat]

ImportTypeOK ==
    /\ job \in [Imports -> ImportJobRow] /\ walk \in [Handlers -> HandlerRow]
    /\ rows \in [Imports -> Seq(ImportRowStatus)]

OneEach == \A i \in Imports \ overlapped : \A g \in Busy(i), h \in Busy(i) : g = h

ImportInv ==
    /\ ImportTypeOK
    /\ \A i \in Imports : RowKept(i)
    /\ \A h \in Handlers : HandlerKept(h)
    /\ OneEach

\* Cardinalities of an interval, of a union, of the rows in a status.
LEMMA UpTo == \A n \in Nat : IsFiniteSet(1 .. n) /\ Cardinality(1 .. n) = n
<1> SUFFICES ASSUME NEW n \in Nat PROVE IsFiniteSet(1 .. n) /\ Cardinality(1 .. n) = n OBVIOUS
<1>1. n \in Int /\ 1 \in Int OBVIOUS
<1>2. IsFiniteSet(1 .. n) /\ Cardinality(1 .. n) = IF 1 > n THEN 0 ELSE n - 1 + 1
  BY <1>1, FS_Interval
<1>3. QED BY <1>2

LEMMA CountBoth ==
    ASSUME NEW S, NEW T, IsFiniteSet(S), IsFiniteSet(T)
    PROVE  /\ IsFiniteSet(S \cup T) /\ Cardinality(S \cup T) \in Nat
           /\ Cardinality(S \cup T) <= Cardinality(S) + Cardinality(T)
           /\ S \cap T = {} => Cardinality(S \cup T) = Cardinality(S) + Cardinality(T)
<1>1. /\ IsFiniteSet(S \cup T)
      /\ Cardinality(S \cup T) = Cardinality(S) + Cardinality(T) - Cardinality(S \cap T)
  BY FS_Union
<1>2. IsFiniteSet(S \cap T) BY FS_Intersection
<1>3. S \cap T = {} => Cardinality(S \cap T) = 0 BY FS_EmptySet
<1>4. /\ Cardinality(S) \in Nat /\ Cardinality(T) \in Nat
      /\ Cardinality(S \cap T) \in Nat /\ Cardinality(S \cup T) \in Nat
  BY <1>1, <1>2, FS_CardinalityType
<1>5. QED BY <1>1, <1>3, <1>4

LEMMA RowsFinite ==
    ASSUME NEW rs \in Seq(ImportRowStatus), NEW s
    PROVE  IsFiniteSet({n \in DOMAIN rs : rs[n] = s})
<1>1. DOMAIN rs = 1 .. Len(rs) /\ Len(rs) \in Nat OBVIOUS
<1>2. IsFiniteSet(1 .. Len(rs)) BY <1>1, UpTo
<1>3. {n \in DOMAIN rs : rs[n] = s} \in SUBSET (1 .. Len(rs)) BY <1>1
<1>4. QED BY <1>2, <1>3, FS_Subset

\* The rows of a batch are numbers of PENDING rows after the cursor; a row that
\* is left out comes after all of them; no batch means no such row.
LEMMA BatchIsFirst ==
    ASSUME NEW N \in Nat, NEW ns \in SUBSET (1 .. N)
    PROVE  /\ FirstOf(ns) \in SUBSET ns
           /\ FirstOf(ns) = {} => ns = {}
           /\ \A n \in ns \ FirstOf(ns), c \in FirstOf(ns) : c < n
<1> DEFINE Under(n) == {k \in ns : k < n}
<1>1. IsFiniteSet(ns)
  <2>1. IsFiniteSet(1 .. N) BY FS_Interval
  <2>2. QED BY <2>1, FS_Subset
<1>2. \A n \in ns : IsFiniteSet(Under(n)) /\ Cardinality(Under(n)) \in Nat
  BY <1>1, FS_Subset, FS_CardinalityType
<1>3. BatchSize \in Nat \ {0} BY GeographyAssumption
<1>4. ASSUME ns # {} PROVE FirstOf(ns) # {}
  <2>1. ns \in SUBSET Nat OBVIOUS
  <2>2. PICK m \in ns : \A k \in ns : m <= k BY <1>4, <2>1, LeastNumber
  <2>3. Under(m) = {}
    <3>1. \A k \in ns : k \in Nat BY <2>1
    <3>2. \A k \in ns : ~(k < m) BY <2>2, <3>1
    <3>3. QED BY <3>2
  <2>4. Cardinality(Under(m)) = 0 BY <2>3, FS_EmptySet
  <2>5. m \in FirstOf(ns) BY <1>3, <2>4 DEF FirstOf
  <2>6. QED BY <2>5
<1>5. ASSUME NEW n \in ns \ FirstOf(ns), NEW c \in FirstOf(ns) PROVE c < n
  <2>1. c \in ns /\ Cardinality(Under(c)) < BatchSize BY DEF FirstOf
  <2>2. ~(Cardinality(Under(n)) < BatchSize) BY DEF FirstOf
  <2>3. ASSUME n <= c PROVE FALSE
    <3>0. n \in Nat /\ c \in Nat /\ \A k \in ns : k \in Nat BY <2>1
    <3>1. Under(n) \in SUBSET Under(c)
      <4>1. \A k \in ns : k < n => k < c BY <2>3, <3>0
      <4>2. QED BY <4>1
    <3>2. Cardinality(Under(n)) <= Cardinality(Under(c)) BY <1>2, <2>1, <3>1, FS_Subset
    <3>3. QED BY <1>2, <1>3, <2>1, <2>2, <3>2
  <2>4. n \in Nat /\ c \in Nat BY <2>1
  <2>5. QED BY <2>3, <2>4
<1>6. QED BY <1>4, <1>5 DEF FirstOf

\* A step of one import leaves the other imports as they are.
LEMMA KeptElsewhere ==
    ASSUME ImportInv, NEW i \in Imports, NEW row \in ImportJobRow,
           NEW rs \in Seq(ImportRowStatus),
           job' = [job EXCEPT ![i] = row], rows' = [rows EXCEPT ![i] = rs],
           overlapped \subseteq overlapped', RowKept(i)'
    PROVE  /\ job' \in [Imports -> ImportJobRow] /\ rows' \in [Imports -> Seq(ImportRowStatus)]
           /\ \A j \in Imports : RowKept(j)'
<1>1. job' \in [Imports -> ImportJobRow] /\ rows' \in [Imports -> Seq(ImportRowStatus)]
  BY DEF ImportInv, ImportTypeOK
<1>2. ASSUME NEW j \in Imports, j # i PROVE RowKept(j)'
  <2>1. job'[j] = job[j] /\ rows'[j] = rows[j]
    <3>1. job'[j] = job[j] BY <1>2 DEF ImportInv, ImportTypeOK
    <3>2. rows'[j] = rows[j] BY <1>2 DEF ImportInv, ImportTypeOK
    <3>3. QED BY <3>1, <3>2
  <2>2. RowKept(j) BY DEF ImportInv
  <2>3. \A s : RowsThat(j, s)' = RowsThat(j, s) BY <2>1 DEF RowsThat
  <2>4. j \notin overlapped' => j \notin overlapped OBVIOUS
  <2>5. QED BY <2>1, <2>2, <2>3, <2>4 DEF RowKept
<1>3. QED BY <1>1, <1>2

\* A handler that does not move keeps what it knows while no row goes back to
\* PENDING; the rows it has claimed stay PENDING unless it is not alone.
LEMMA HandlerStays ==
    ASSUME NEW g \in Handlers, NEW i, i = walk[g].import,
           HandlerKept(g), walk'[g] = walk[g], overlapped \subseteq overlapped',
           walk[g].step # "idle" =>
             /\ job[i].queued => job'[i].queued
             /\ Len(rows'[i]) = Len(rows[i])
             /\ \A n \in 1 .. Len(rows[i]) : Done(rows[i], n) => Done(rows'[i], n)
             /\ rows'[i] = rows[i] \/ i \in overlapped'
    PROVE  HandlerKept(g)'
<1> SUFFICES ASSUME walk[g].step # "idle" PROVE HandlerKept(g)' BY DEF HandlerKept
<1>1. walk'[g].import = i /\ walk'[g].step = walk[g].step /\ walk'[g].cursor = walk[g].cursor
      /\ walk'[g].batch = walk[g].batch
  OBVIOUS
<1>2. /\ i \in Imports /\ job'[i].queued
      /\ \A n \in 1 .. Len(rows[i]) : n <= walk[g].cursor => Done(rows'[i], n)
      /\ walk[g].step = "end" => \A n \in 1 .. Len(rows[i]) : Done(rows'[i], n)
  BY DEF HandlerKept
<1>3. walk[g].step = "apply" => Claimed(rows'[i], walk[g].batch)
  BY DEF HandlerKept, Claimed
<1>4. walk[g].step = "apply" /\ i \notin overlapped' =>
        \A n \in walk[g].batch : rows'[i][n] = "PENDING"
  <2>1. i \notin overlapped' => i \notin overlapped /\ rows'[i] = rows[i] OBVIOUS
  <2>2. QED BY <2>1 DEF HandlerKept
<1>5. QED BY <1>1, <1>2, <1>3, <1>4 DEF HandlerKept

LEMMA ImportSame ==
    ASSUME ImportInv, UNCHANGED import PROVE ImportInv'
<1>1. UNCHANGED <<job, rows, walk, overlapped>> BY DEF import
<1>2. \A i \in Imports : RowKept(i) => RowKept(i)' BY <1>1 DEF RowKept, RowsThat
<1>3. \A h \in Handlers : HandlerKept(h) => HandlerKept(h)' BY <1>1 DEF HandlerKept
<1>4. OneEach' BY <1>1 DEF ImportInv, OneEach, Busy, On
<1>5. QED BY <1>1, <1>2, <1>3, <1>4 DEF ImportInv, ImportTypeOK

\* The steps of the upload, which end before the job is in the queue.
LEMMA ImportUpload ==
    ASSUME ImportInv, NEW i \in Imports,
           NEW row \in ImportJobRow, NEW rs \in Seq(ImportRowStatus),
           job' = [job EXCEPT ![i] = row], rows' = [rows EXCEPT ![i] = rs],
           UNCHANGED <<walk, overlapped>>, ~job[i].queued,
           row.status = "NONE" <=> row.upload = "none",
           row.queued => row.upload = "over",
           row.queued \/ row.upload \in {"staged", "counted"} => Len(rs) = Len(FileRows[i]),
           \A n \in 1 .. Len(rs) : rs[n] = "PENDING",
           row.status \in {"NONE", "PENDING", "FAILED"},
           row.success = job[i].success, row.failed = job[i].failed,
           row.processed = job[i].processed
    PROVE  ImportInv'
<1>1. job'[i] = row /\ rows'[i] = rs BY DEF ImportInv, ImportTypeOK
<1>2. job[i].success = 0 /\ job[i].failed = 0 /\ job[i].processed = 0 BY DEF ImportInv, RowKept
<1>3. RowsThat(i, "SUCCEEDED")' = 0 /\ RowsThat(i, "FAILED")' = 0
  <2>1. DOMAIN rs = 1 .. Len(rs) OBVIOUS
  <2>2. {n \in DOMAIN rs : rs[n] = "SUCCEEDED"} = {} /\ {n \in DOMAIN rs : rs[n] = "FAILED"} = {}
    BY <2>1
  <2>3. QED BY <1>1, <2>2, FS_EmptySet DEF RowsThat
<1>4. RowKept(i)' BY <1>1, <1>2, <1>3 DEF RowKept, Ended
<1>5. /\ job' \in [Imports -> ImportJobRow] /\ rows' \in [Imports -> Seq(ImportRowStatus)]
      /\ \A j \in Imports : RowKept(j)'
  BY <1>4, KeptElsewhere
<1>6. ASSUME NEW g \in Handlers PROVE HandlerKept(g)'
  <2>1. HandlerKept(g) BY DEF ImportInv
  <2>2. PICK j : j = walk[g].import OBVIOUS
  <2>3. walk[g].step # "idle" => job'[j] = job[j] /\ rows'[j] = rows[j]
    <3>1. walk[g].step # "idle" => j \in Imports /\ j # i BY <2>1, <2>2 DEF HandlerKept
    <3>2. \A k \in Imports : k # i => job'[k] = job[k] BY DEF ImportInv, ImportTypeOK
    <3>3. \A k \in Imports : k # i => rows'[k] = rows[k] BY DEF ImportInv, ImportTypeOK
    <3>4. QED BY <3>1, <3>2, <3>3
  <2>4. QED BY <2>1, <2>2, <2>3, HandlerStays
<1>7. OneEach' BY DEF ImportInv, OneEach, Busy, On
<1>8. QED BY <1>5, <1>6, <1>7 DEF ImportInv, ImportTypeOK

LEMMA ImportBegin ==
    ASSUME ImportInv, NEW i \in Imports,
           upload(i) \/ stage(i) \/ setTotals(i) \/ enqueue(i) \/ failJob(i) \/ uploadDies(i)
    PROVE  ImportInv'
<1>1. job[i] \in ImportJobRow /\ rows[i] \in Seq(ImportRowStatus) /\ RowKept(i)
  BY DEF ImportInv, ImportTypeOK
<1>2. UNCHANGED <<walk, overlapped>>
  BY DEF upload, stage, setTotals, enqueue, failJob, uploadDies
<1>3. ~job[i].queued /\ \A n \in 1 .. Len(rows[i]) : rows[i][n] = "PENDING"
  <2>1. job[i].upload # "over"
    BY <1>1 DEF RowKept, upload, CreateImportJob, stage, setTotals, enqueue, failJob, uploadDies
  <2>2. QED BY <1>1, <2>1 DEF RowKept
<1>4. job[i].status \in {"NONE", "PENDING", "FAILED"} BY <1>1, <1>3 DEF RowKept
<1> DEFINE Next(st, up, q, t) == [job[i] EXCEPT !.status = st, !.upload = up, !.queued = q,
                                                !.total = t]
           L == Len(FileRows[i])
<1>5. L \in Nat
  <2>1. FileRows[i] \in Seq(ImportRecord) BY GeographyAssumption
  <2>2. QED BY <2>1
<1>6. ASSUME NEW st \in {"PENDING", "FAILED"}, NEW up \in UploadSteps \ {"none"},
             NEW q \in BOOLEAN, NEW t \in Nat, NEW rs \in Seq(ImportRowStatus),
             job' = [job EXCEPT ![i] = Next(st, up, q, t)], rows' = [rows EXCEPT ![i] = rs],
             \A n \in 1 .. Len(rs) : rs[n] = "PENDING",
             q => up = "over",
             q \/ up \in {"staged", "counted"} => Len(rs) = L
      PROVE  ImportInv'
  <2>1. PICK row : row = Next(st, up, q, t) OBVIOUS
  <2>2. row \in ImportJobRow BY <1>1, <2>1 DEF ImportJobRow, ImportStatuses
  <2>3. /\ row.status = st /\ row.upload = up /\ row.queued = q
        /\ row.success = job[i].success /\ row.failed = job[i].failed
        /\ row.processed = job[i].processed
    BY <1>1, <2>1 DEF ImportJobRow
  <2>4. job' = [job EXCEPT ![i] = row] BY <1>6, <2>1
  <2> HIDE DEF Next
  <2>5. QED BY <1>2, <1>3, <1>6, <2>2, <2>3, <2>4, ImportUpload
<1>7. ASSUME rows' = rows PROVE rows' = [rows EXCEPT ![i] = rows[i]]
  BY <1>7 DEF ImportInv, ImportTypeOK
<1>8. CASE upload(i)
  <2>1. job' = [job EXCEPT ![i] = Next("PENDING", "staging", job[i].queued, job[i].total)]
    BY <1>1, <1>8 DEF upload, CreateImportJob, ImportInv, ImportTypeOK, ImportJobRow
  <2>2. rows' = rows BY <1>8 DEF upload
  <2>3. job[i].queued \in BOOLEAN /\ job[i].total \in Nat BY <1>1 DEF ImportJobRow
  <2> HIDE DEF Next
  <2>4. QED BY <1>1, <1>3, <1>6, <1>7, <2>1, <2>2, <2>3 DEF UploadSteps
<1>9. CASE stage(i)
  <2>1. job[i].upload = "staging" BY <1>9 DEF stage
  <2>2. PICK rs : rs = [n \in 1 .. Staged(i) |-> "PENDING"] OBVIOUS
  <2>3. Staged(i) \in Nat
    <3>1. Len(rows[i]) \in Nat BY <1>1
    <3>2. Len(rows[i]) + StagingBatch \in Nat BY <3>1, GeographyAssumption
    <3>3. QED BY <1>5, <3>2 DEF Staged
  <2>4. /\ rs \in Seq(ImportRowStatus) /\ Len(rs) = Staged(i)
        /\ \A n \in 1 .. Len(rs) : rs[n] = "PENDING"
    <3>1. rs \in [1 .. Staged(i) -> ImportRowStatus] BY <2>2 DEF ImportRowStatus
    <3>2. rs \in Seq(ImportRowStatus) /\ Len(rs) = Staged(i) BY <2>2, <2>3, <3>1
    <3>3. QED BY <2>2, <2>3, <3>2
  <2>5. rows' = [rows EXCEPT ![i] = rs] BY <1>9, <2>2 DEF stage, InsertImportRows
  <2>6. PICK up \in {"staging", "staged"} :
           /\ job' = [job EXCEPT ![i] = Next(job[i].status, up, job[i].queued, job[i].total)]
           /\ up = "staged" => Staged(i) = L
    BY <1>1, <1>9, <2>1 DEF stage, ImportInv, ImportTypeOK, ImportJobRow
  <2>7. job[i].queued \in BOOLEAN /\ job[i].total \in Nat /\ job[i].status \in {"PENDING", "FAILED"}
    BY <1>1, <1>4, <2>1 DEF ImportJobRow, RowKept
  <2> HIDE DEF Next, L
  <2>8. QED BY <1>3, <1>6, <2>4, <2>5, <2>6, <2>7 DEF UploadSteps
<1>10. CASE setTotals(i) \/ enqueue(i) \/ failJob(i) \/ uploadDies(i)
  <2>1. rows' = rows BY <1>10 DEF setTotals, enqueue, failJob, uploadDies
  <2>2. /\ job[i].queued \in BOOLEAN /\ job[i].total \in Nat
        /\ job[i].status \in {"PENDING", "FAILED"}
    <3>1. job[i].upload # "none" BY <1>10 DEF setTotals, enqueue, failJob, uploadDies
    <3>2. QED BY <1>1, <1>4, <3>1 DEF ImportJobRow, RowKept
  <2>3. CASE setTotals(i)
    <3>1. /\ job' = [job EXCEPT ![i] = Next(job[i].status, "counted", job[i].queued, L)]
          /\ job[i].upload = "staged"
      BY <1>1, <2>3 DEF setTotals, SetImportJobTotals, ImportInv, ImportTypeOK, ImportJobRow
    <3>2. Len(rows[i]) = L BY <1>1, <3>1 DEF RowKept
    <3> HIDE DEF Next, L
    <3>3. QED BY <1>1, <1>3, <1>5, <1>6, <1>7, <2>1, <2>2, <3>1, <3>2 DEF UploadSteps
  <2>4. CASE enqueue(i)
    <3>1. /\ job' = [job EXCEPT ![i] = Next(job[i].status, "over", TRUE, job[i].total)]
          /\ job[i].upload = "counted"
      BY <1>1, <2>4 DEF enqueue, ImportInv, ImportTypeOK, ImportJobRow
    <3>2. Len(rows[i]) = L BY <1>1, <3>1 DEF RowKept
    <3> HIDE DEF Next, L
    <3>3. QED BY <1>1, <1>3, <1>6, <1>7, <2>1, <2>2, <3>1, <3>2 DEF UploadSteps
  <2>5. CASE failJob(i)
    <3>1. job' = [job EXCEPT ![i] = Next("FAILED", "over", job[i].queued, job[i].total)]
      BY <1>1, <2>5 DEF failJob, FinishImportJob, ImportInv, ImportTypeOK, ImportJobRow
    <3> HIDE DEF Next
    <3>2. QED BY <1>1, <1>3, <1>6, <1>7, <2>1, <2>2, <3>1 DEF UploadSteps
  <2>6. CASE uploadDies(i)
    <3>1. job' = [job EXCEPT ![i] = Next(job[i].status, "over", job[i].queued, job[i].total)]
      BY <1>1, <2>6 DEF uploadDies, ImportInv, ImportTypeOK, ImportJobRow
    <3> HIDE DEF Next
    <3>2. QED BY <1>1, <1>3, <1>6, <1>7, <2>1, <2>2, <3>1 DEF UploadSteps
  <2>7. QED BY <1>10, <2>3, <2>4, <2>5, <2>6
<1>11. QED BY <1>8, <1>9, <1>10

\* Steps of a handler that touch no row: it begins, marks the import, claims,
\* fails or finishes.
LEMMA HandlerMoves ==
    ASSUME ImportInv, NEW h \in Handlers, NEW w \in HandlerRow,
           walk' = [walk EXCEPT ![h] = w],
           NEW i \in Imports, NEW row \in ImportJobRow,
           job' = [job EXCEPT ![i] = row], UNCHANGED rows,
           overlapped \subseteq overlapped', HandlerKept(h)', OneEach', job[i].queued,
           /\ row.queued = job[i].queued /\ row.upload = job[i].upload
           /\ row.success = job[i].success /\ row.failed = job[i].failed
           /\ row.processed = job[i].processed,
           row.status = job[i].status
             \/ row.status = "PROCESSING"
             \/ (row.status \in Ended /\ \A n \in 1 .. Len(rows[i]) : Done(rows[i], n))
    PROVE  ImportInv'
<1>1. job'[i] = row /\ rows' = [rows EXCEPT ![i] = rows[i]] /\ rows[i] \in Seq(ImportRowStatus)
  BY DEF ImportInv, ImportTypeOK
<1>2. RowKept(i)'
  <2>1. RowKept(i) BY DEF ImportInv
  <2>2. \A s : RowsThat(i, s)' = RowsThat(i, s) BY DEF RowsThat
  <2>3. i \notin overlapped' => i \notin overlapped OBVIOUS
  <2>4. row.status = "NONE" <=> row.upload = "none" BY <2>1 DEF RowKept, Ended
  <2>5. row.status \in Ended => \A n \in 1 .. Len(rows[i]) : Done(rows[i], n)
    BY <2>1 DEF RowKept, Ended
  <2>6. QED BY <1>1, <2>1, <2>2, <2>3, <2>4, <2>5 DEF RowKept
<1>3. /\ job' \in [Imports -> ImportJobRow] /\ rows' \in [Imports -> Seq(ImportRowStatus)]
      /\ \A j \in Imports : RowKept(j)'
  BY <1>1, <1>2, KeptElsewhere
<1>4. ASSUME NEW g \in Handlers, g # h PROVE HandlerKept(g)'
  <2>1. HandlerKept(g) BY DEF ImportInv
  <2>2. walk'[g] = walk[g] BY <1>4 DEF ImportInv, ImportTypeOK
  <2>3. PICK j : j = walk[g].import OBVIOUS
  <2>4. walk[g].step # "idle" => (job[j].queued => job'[j].queued)
    <3>1. walk[g].step # "idle" => j \in Imports BY <2>1, <2>3 DEF HandlerKept
    <3>2. \A k \in Imports : job[k].queued => job'[k].queued BY <1>1 DEF ImportInv, ImportTypeOK
    <3>3. QED BY <3>1, <3>2
  <2>5. QED BY <2>1, <2>2, <2>3, <2>4, HandlerStays
<1>5. walk' \in [Handlers -> HandlerRow] BY DEF ImportInv, ImportTypeOK
<1>6. QED BY <1>3, <1>4, <1>5 DEF ImportInv, ImportTypeOK

\* A handler that goes on with its import, or leaves it, joins no other.
LEMMA StillOneEach ==
    ASSUME ImportInv, NEW h \in Handlers, NEW w \in HandlerRow,
           walk' = [walk EXCEPT ![h] = w], overlapped' = overlapped,
           w.step = "idle" \/ (w.import = walk[h].import /\ walk[h].step # "idle")
    PROVE  OneEach'
<1>1. ASSUME NEW i \in Imports PROVE Busy(i)' \subseteq Busy(i)
  <2> SUFFICES ASSUME NEW g \in Handlers, walk'[g].step # "idle", walk'[g].import = i
               PROVE  walk[g].step # "idle" /\ walk[g].import = i
    BY DEF Busy, On
  <2>1. CASE g = h BY <2>1 DEF ImportInv, ImportTypeOK
  <2>2. CASE g # h BY <2>2 DEF ImportInv, ImportTypeOK
  <2>3. QED BY <2>1, <2>2
<1>2. QED BY <1>1 DEF ImportInv, OneEach

LEMMA ImportAttempt ==
    ASSUME ImportInv, NEW h \in Handlers, NEW i \in Imports, Process(h, i)
    PROVE  ImportInv'
<1>1. job[i] \in ImportJobRow BY DEF ImportInv, ImportTypeOK
<1>2. PICK row : row = [job[i] EXCEPT !.attempts = job[i].attempts + 1] OBVIOUS
<1>3. PICK w : w = [step |-> "read", import |-> i, cursor |-> 0, failed |-> 0, batch |-> {}] OBVIOUS
<1>4. /\ job' = [job EXCEPT ![i] = row] /\ walk' = [walk EXCEPT ![h] = w] /\ job[i].queued
      /\ UNCHANGED rows /\ walk[h].step = "idle"
      /\ overlapped' = IF Busy(i) = {} THEN overlapped ELSE overlapped \cup {i}
  <2>1. [NotRunning EXCEPT !.step = "read", !.import = i] = w
    <3>1. [NotRunning EXCEPT !.step = "read"] =
             [step |-> "read", import |-> Absent, cursor |-> 0, failed |-> 0, batch |-> {}]
      BY DEF NotRunning
    <3>2. [NotRunning EXCEPT !.step = "read", !.import = i] =
             [[step |-> "read", import |-> Absent, cursor |-> 0, failed |-> 0, batch |-> {}]
                EXCEPT !.import = i]
      BY <3>1
    <3>3. QED BY <1>3, <3>2
  <2>2. /\ job' = [job EXCEPT ![i].attempts = @ + 1] /\ walk' = [walk EXCEPT ![h] = w]
        /\ job[i].queued /\ UNCHANGED rows /\ walk[h].step = "idle"
        /\ overlapped' = IF Busy(i) = {} THEN overlapped ELSE overlapped \cup {i}
    BY <2>1 DEF Process, On
  <2>3. job' = [job EXCEPT ![i] = row]
    BY <1>1, <1>2, <2>2 DEF ImportInv, ImportTypeOK, ImportJobRow
  <2>4. QED BY <2>2, <2>3
<1>5. row \in ImportJobRow
  <2>1. job[i].attempts + 1 \in Nat BY <1>1 DEF ImportJobRow
  <2>2. QED BY <1>1, <1>2, <2>1 DEF ImportJobRow
<1>6. w \in HandlerRow /\ w.step = "read" /\ w.import = i /\ w.cursor = 0 BY <1>3 DEF HandlerRow
<1>7. /\ row.queued = job[i].queued /\ row.upload = job[i].upload
      /\ row.success = job[i].success /\ row.failed = job[i].failed
      /\ row.processed = job[i].processed /\ row.status = job[i].status
  BY <1>1, <1>2 DEF ImportJobRow
<1>8. walk'[h] = w /\ job'[i] = row BY <1>4 DEF ImportInv, ImportTypeOK
<1>9. HandlerKept(h)'
  <2>1. \A n \in 1 .. Len(rows[i]) : ~(n <= 0)
    <3>1. Len(rows[i]) \in Nat BY DEF ImportInv, ImportTypeOK
    <3>2. QED BY <3>1
  <2>2. QED BY <1>4, <1>6, <1>7, <1>8, <2>1 DEF HandlerKept
<1>10. OneEach'
  <2> SUFFICES ASSUME NEW j \in Imports, j \notin overlapped',
                      NEW f \in Busy(j)', NEW g \in Busy(j)'
               PROVE  f = g
    BY DEF OneEach
  <2>1. j \notin overlapped BY <1>4
  <2>2. \A k \in Handlers : k # h => walk'[k] = walk[k] BY <1>4 DEF ImportInv, ImportTypeOK
  <2>3. CASE j = i
    <3>1. Busy(i) = {} BY <1>4, <2>3
    <3>2. \A k \in Handlers : k # h => k \notin Busy(i)' BY <2>2, <3>1 DEF Busy, On
    <3>3. QED BY <2>3, <3>2 DEF Busy
  <2>4. CASE j # i
    <3>1. h \notin Busy(j)' BY <1>6, <1>8, <2>4 DEF Busy
    <3>2. \A k \in Busy(j)' : k \in Busy(j) BY <2>2, <3>1 DEF Busy, On
    <3>3. QED BY <2>1, <3>2 DEF ImportInv, OneEach
  <2>5. QED BY <2>3, <2>4
<1>11. overlapped \subseteq overlapped' BY <1>4
<1>12. QED BY <1>4, <1>5, <1>6, <1>7, <1>9, <1>10, <1>11, HandlerMoves

LEMMA ImportMark ==
    ASSUME ImportInv, NEW h \in Handlers, StartImportJob(h)
    PROVE  ImportInv'
<1>1. PICK i : i = walk[h].import OBVIOUS
<1>2. /\ walk[h].step = "read" /\ walk[h] \in HandlerRow /\ HandlerKept(h)
      /\ UNCHANGED <<rows, overlapped>>
  BY DEF StartImportJob, ImportInv, ImportTypeOK, On
<1>3. i \in Imports /\ job[i].queued BY <1>1, <1>2 DEF HandlerKept
<1>4. job[i] \in ImportJobRow BY <1>3 DEF ImportInv, ImportTypeOK
<1>5. PICK row : row = [job[i] EXCEPT !.status = "PROCESSING"] OBVIOUS
<1>6. PICK w : w = [walk[h] EXCEPT !.step = "claim"] OBVIOUS
<1>7. job' = [job EXCEPT ![i] = row] /\ walk' = [walk EXCEPT ![h] = w]
  BY <1>1, <1>2, <1>3, <1>4, <1>5, <1>6
     DEF StartImportJob, ImportInv, ImportTypeOK, ImportJobRow, HandlerRow
<1>8. row \in ImportJobRow BY <1>4, <1>5 DEF ImportJobRow, ImportStatuses
<1>9. /\ row.queued = job[i].queued /\ row.upload = job[i].upload
      /\ row.success = job[i].success /\ row.failed = job[i].failed
      /\ row.processed = job[i].processed /\ row.status = "PROCESSING"
  BY <1>4, <1>5 DEF ImportJobRow
<1>10. w \in HandlerRow /\ w.step = "claim" /\ w.import = i /\ w.cursor = walk[h].cursor
  BY <1>1, <1>2, <1>6 DEF HandlerRow
<1>11. walk'[h] = w /\ job'[i] = row BY <1>3, <1>7 DEF ImportInv, ImportTypeOK
<1>12. HandlerKept(h)' BY <1>1, <1>2, <1>3, <1>9, <1>10, <1>11 DEF HandlerKept
<1>13. OneEach' BY <1>1, <1>2, <1>7, <1>10, StillOneEach
<1>14. QED BY <1>2, <1>3, <1>7, <1>8, <1>9, <1>10, <1>12, <1>13, HandlerMoves

LEMMA ImportFails ==
    ASSUME ImportInv, NEW h \in Handlers, ProcessFails(h)
    PROVE  ImportInv'
<1>1. PICK i : i = walk[h].import OBVIOUS
<1>2. walk[h].step # "idle" /\ HandlerKept(h) /\ UNCHANGED <<job, rows, overlapped>>
  BY DEF ProcessFails, ImportInv, On
<1>3. i \in Imports /\ job[i].queued BY <1>1, <1>2 DEF HandlerKept
<1>4. NotRunning \in HandlerRow /\ NotRunning.step = "idle" BY DEF NotRunning, HandlerRow
<1>5. walk' = [walk EXCEPT ![h] = NotRunning] /\ job' = [job EXCEPT ![i] = job[i]]
  BY <1>2, <1>3 DEF ProcessFails, ImportInv, ImportTypeOK
<1>6. walk'[h] = NotRunning BY <1>5 DEF ImportInv, ImportTypeOK
<1>7. HandlerKept(h)' BY <1>4, <1>6 DEF HandlerKept
<1>8. OneEach' BY <1>2, <1>4, <1>5, StillOneEach
<1>9. job[i] \in ImportJobRow BY <1>3 DEF ImportInv, ImportTypeOK
<1>10. QED BY <1>2, <1>3, <1>4, <1>5, <1>7, <1>8, <1>9, HandlerMoves

LEMMA ImportDone ==
    ASSUME ImportInv, NEW h \in Handlers, ProcessDone(h)
    PROVE  ImportInv'
<1>1. PICK i : i = walk[h].import OBVIOUS
<1>2. walk[h].step = "end" /\ HandlerKept(h) /\ UNCHANGED <<rows, overlapped>>
  BY DEF ProcessDone, ImportInv, On
<1>3. i \in Imports /\ job[i].queued /\ \A n \in 1 .. Len(rows[i]) : Done(rows[i], n)
  BY <1>1, <1>2 DEF HandlerKept
<1>4. NotRunning \in HandlerRow /\ NotRunning.step = "idle" BY DEF NotRunning, HandlerRow
<1>5. PICK s \in Ended : job' = [job EXCEPT ![i] = [job[i] EXCEPT !.status = s]]
  BY <1>1, <1>3 DEF ProcessDone, FinishImportJob, Ended, ImportInv, ImportTypeOK
<1>6. PICK row : row = [job[i] EXCEPT !.status = s] OBVIOUS
<1>7. job[i] \in ImportJobRow BY <1>3 DEF ImportInv, ImportTypeOK
<1>8. row \in ImportJobRow BY <1>6, <1>7 DEF ImportJobRow, ImportStatuses, Ended
<1>9. /\ row.queued = job[i].queued /\ row.upload = job[i].upload
      /\ row.success = job[i].success /\ row.failed = job[i].failed
      /\ row.processed = job[i].processed /\ row.status = s
  BY <1>6, <1>7 DEF ImportJobRow
<1>10. walk' = [walk EXCEPT ![h] = NotRunning] /\ walk'[h] = NotRunning
  BY DEF ProcessDone, ImportInv, ImportTypeOK
<1>11. HandlerKept(h)' BY <1>4, <1>10 DEF HandlerKept
<1>12. OneEach' BY <1>2, <1>4, <1>10, StillOneEach
<1>13. job' = [job EXCEPT ![i] = row] BY <1>5, <1>6
<1>14. QED BY <1>2, <1>3, <1>4, <1>8, <1>9, <1>10, <1>11, <1>12, <1>13, HandlerMoves

\* What is claimed is the next of what is left: nothing before it is passed over.
LEMMA ImportClaim ==
    ASSUME ImportInv, NEW h \in Handlers, Claim(h)
    PROVE  ImportInv'
<1>1. PICK i : i = walk[h].import OBVIOUS
<1>2. /\ walk[h].step = "claim" /\ walk[h] \in HandlerRow /\ HandlerKept(h)
      /\ UNCHANGED <<job, rows, overlapped>>
  BY DEF Claim, ImportInv, ImportTypeOK, On
<1>3. i \in Imports /\ job[i].queued BY <1>1, <1>2 DEF HandlerKept
<1>4. job[i] \in ImportJobRow /\ rows[i] \in Seq(ImportRowStatus)
  BY <1>3 DEF ImportInv, ImportTypeOK
<1> DEFINE L == Len(rows[i])
           ns == {n \in DOMAIN rows[i] : rows[i][n] = "PENDING" /\ n > walk[h].cursor}
           batch == FirstOf(ns)
           step == IF batch = {} THEN "end" ELSE "apply"
<1>5. ClaimImportRowBatch(h) = batch BY <1>1 DEF ClaimImportRowBatch
<1>6. L \in Nat /\ DOMAIN rows[i] = 1 .. L /\ walk[h].cursor \in Nat
  BY <1>2, <1>4 DEF HandlerRow
<1>7. ns \in SUBSET (1 .. L) BY <1>6
<1> HIDE DEF ns
<1>8. /\ batch \in SUBSET ns /\ (batch = {} => ns = {})
      /\ \A n \in ns \ batch, c \in batch : c < n
  BY <1>6, <1>7, BatchIsFirst
<1>9. PICK w : w = [walk[h] EXCEPT !.batch = batch, !.step = step] OBVIOUS
<1>10. walk' = [walk EXCEPT ![h] = w]
  <2> HIDE DEF batch
  <2>1. walk' = [walk EXCEPT ![h].batch = batch, ![h].step = step] BY <1>5 DEF Claim
  <2>2. QED BY <1>2, <1>9, <2>1 DEF ImportInv, ImportTypeOK, HandlerRow
<1> HIDE DEF batch
<1>11. batch \in SUBSET Nat BY <1>7, <1>8
<1>12. /\ w \in HandlerRow /\ w.step = step /\ w.import = i /\ w.cursor = walk[h].cursor
       /\ w.batch = batch
  BY <1>1, <1>2, <1>9, <1>11 DEF HandlerRow
<1>13. walk'[h] = w BY <1>10 DEF ImportInv, ImportTypeOK
<1>14. \A n \in 1 .. L : n <= walk[h].cursor => Done(rows[i], n) BY <1>1, <1>2 DEF HandlerKept
<1>15. \A n \in 1 .. L : n \notin ns => Done(rows[i], n) BY <1>6, <1>14 DEF ns, Done
<1>16. \A n \in batch : rows[i][n] = "PENDING" BY <1>8 DEF ns
<1>17. \A n \in 1 .. L, k \in batch : n \notin batch /\ n <= k => Done(rows[i], n)
  <2> SUFFICES ASSUME NEW n \in 1 .. L, NEW k \in batch, n \notin batch, n <= k
               PROVE  Done(rows[i], n)
    OBVIOUS
  <2>1. n \in Nat /\ k \in Nat BY <1>11
  <2>2. n \in ns => k < n BY <1>8
  <2>3. n \notin ns BY <2>1, <2>2
  <2>4. QED BY <1>15, <2>3
<1>18. HandlerKept(h)'
  <2>1. step = "apply" => Claimed(rows[i], batch)
    <3>1. step = "apply" => batch # {} OBVIOUS
    <3>2. batch \in SUBSET (1 .. L) BY <1>7, <1>8
    <3>3. QED BY <1>17, <3>1, <3>2 DEF Claimed
  <2>2. step = "end" => \A n \in 1 .. L : Done(rows[i], n)
    <3>1. step = "end" => ns = {} BY <1>8
    <3>2. QED BY <1>15, <3>1
  <2> HIDE DEF step
  <2>3. QED BY <1>2, <1>3, <1>12, <1>13, <1>14, <1>16, <2>1, <2>2 DEF HandlerKept
<1>19. OneEach'
  <2>1. walk[h].step # "idle" BY <1>2
  <2>2. w.import = walk[h].import BY <1>1, <1>12
  <2>3. QED BY <1>2, <1>10, <1>12, <2>1, <2>2, StillOneEach
<1>20. job' = [job EXCEPT ![i] = job[i]] BY <1>2, <1>3 DEF ImportInv, ImportTypeOK
<1>21. QED BY <1>2, <1>3, <1>4, <1>10, <1>12, <1>18, <1>19, <1>20, HandlerMoves

\* One batch: its rows are done, and what it adds to the progress is what it
\* marks; if the handler is alone they were PENDING, and nothing is added twice.
LEMMA ImportBatch ==
    ASSUME ImportInv, NEW h \in Handlers, ApplyBatch(h)
    PROVE  ImportInv'
<1>1. PICK i : i = walk[h].import OBVIOUS
<1>2. PICK batch : batch = walk[h].batch OBVIOUS
<1> DEFINE L == Len(rows[i])
           bad == {n \in batch : ~Applies(i, FileRows[i][n])}
           top == CHOOSE n \in batch : \A k \in batch : k <= n
           rs == [n \in DOMAIN rows[i] |->
                    IF n \notin batch THEN rows[i][n]
                    ELSE IF Applies(i, FileRows[i][n]) THEN "SUCCEEDED" ELSE "FAILED"]
           row == [job[i] EXCEPT !.processed = @ + Cardinality(batch),
                                 !.failed = @ + Cardinality(bad),
                                 !.success = @ + (Cardinality(batch) - Cardinality(bad))]
           w == [walk[h] EXCEPT !.cursor = top, !.failed = @ + Cardinality(bad),
                                !.step = "claim", !.batch = {}]
<1>3. walk[h].step = "apply" /\ walk[h] \in HandlerRow /\ HandlerKept(h)
  BY DEF ApplyBatch, ImportInv, ImportTypeOK, On
<1>4. i \in Imports /\ job[i].queued /\ Claimed(rows[i], batch)
      /\ (i \notin overlapped => \A n \in batch : rows[i][n] = "PENDING")
  BY <1>1, <1>2, <1>3 DEF HandlerKept
<1>5. job[i] \in ImportJobRow /\ rows[i] \in Seq(ImportRowStatus) /\ RowKept(i)
  BY <1>4 DEF ImportInv, ImportTypeOK
<1>6. /\ rows' = [rows EXCEPT ![i] = rs]
      /\ job' = [job EXCEPT ![i] = row]
      /\ walk' = [walk EXCEPT ![h] = w]
      /\ overlapped' = overlapped
  <2>1. /\ rows' = MarkImportRows(i, batch)
        /\ RecordImportProgress(i, Cardinality(batch), Cardinality(bad))
        /\ walk' = [walk EXCEPT ![h].cursor = top, ![h].failed = @ + Cardinality(bad),
                                ![h].step = "claim", ![h].batch = {}]
        /\ overlapped' = overlapped
    BY <1>1, <1>2 DEF ApplyBatch
  <2> HIDE DEF bad, top
  <2>2. rows' = [rows EXCEPT ![i] = rs] BY <2>1 DEF MarkImportRows
  <2>3. job' = [job EXCEPT ![i] = row]
    BY <1>4, <1>5, <2>1 DEF RecordImportProgress, ImportInv, ImportTypeOK, ImportJobRow
  <2>4. walk' = [walk EXCEPT ![h] = w] BY <1>3, <2>1 DEF ImportInv, ImportTypeOK, HandlerRow
  <2>5. QED BY <2>1, <2>2, <2>3, <2>4
<1>7. L \in Nat /\ DOMAIN rows[i] = 1 .. L BY <1>5
<1>8. \A n \in 1 .. L : rows[i][n] \in ImportRowStatus BY <1>5, <1>7
<1>9. batch \in SUBSET (1 .. L) /\ batch # {} BY <1>4 DEF Claimed
<1>10. top \in batch /\ \A k \in batch : k <= top
  <2>1. batch \in SUBSET (0 .. L)
    <3>1. 1 .. L \subseteq 0 .. L BY <1>7
    <3>2. QED BY <1>9, <3>1
  <2>2. \E n \in batch : \A k \in batch : k <= n BY <1>7, <1>9, <2>1, GreatestNumber
  <2>3. QED BY <2>2
<1> HIDE DEF top
<1>11. IsFiniteSet(batch) /\ Cardinality(batch) \in Nat
  <2>1. IsFiniteSet(1 .. L) BY <1>7, UpTo
  <2>2. QED BY <1>9, <2>1, FS_Subset, FS_CardinalityType
<1>12. /\ IsFiniteSet(bad) /\ Cardinality(bad) \in Nat /\ bad \in SUBSET batch
       /\ Cardinality(batch \ bad) = Cardinality(batch) - Cardinality(bad)
       /\ IsFiniteSet(batch \ bad) /\ Cardinality(batch \ bad) \in Nat
  <2>1. bad \in SUBSET batch OBVIOUS
  <2> HIDE DEF bad
  <2>2. IsFiniteSet(bad) /\ Cardinality(bad) \in Nat BY <1>11, <2>1, FS_Subset, FS_CardinalityType
  <2>3. batch \cap bad = bad BY <2>1
  <2>4. IsFiniteSet(batch \ bad) /\ Cardinality(batch \ bad) = Cardinality(batch) - Cardinality(bad)
    BY <1>11, <2>3, FS_Difference
  <2>5. QED BY <2>1, <2>2, <2>4, FS_CardinalityType
<1>13. \A n \in 1 .. L : rs[n] = IF n \in bad THEN "FAILED"
                                 ELSE IF n \in batch THEN "SUCCEEDED" ELSE rows[i][n]
  BY <1>7
<1>14. rs \in Seq(ImportRowStatus) /\ Len(rs) = L /\ DOMAIN rs = 1 .. L
  <2>1. DOMAIN rs = 1 .. L BY <1>7
  <2>2. \A n \in 1 .. L : rs[n] \in ImportRowStatus BY <1>8, <1>13 DEF ImportRowStatus
  <2>3. rs = [n \in 1 .. L |-> rs[n]] BY <2>1
  <2> HIDE DEF rs
  <2>4. rs \in [1 .. L -> ImportRowStatus] BY <2>2, <2>3
  <2>5. rs \in Seq(ImportRowStatus) BY <1>7, <2>4
  <2>6. QED BY <1>7, <2>1, <2>5
<1> DEFINE Of(f, s) == {n \in DOMAIN f : f[n] = s}
<1>15. ASSUME NEW s \in {"SUCCEEDED", "FAILED"}, NEW more \in SUBSET batch, IsFiniteSet(more),
              Of(rs, s) \subseteq Of(rows[i], s) \cup more,
              i \notin overlapped => Of(rs, s) = Of(rows[i], s) \cup more
       PROVE  /\ Cardinality(Of(rs, s)) <= Cardinality(Of(rows[i], s)) + Cardinality(more)
              /\ i \notin overlapped =>
                   Cardinality(Of(rs, s)) = Cardinality(Of(rows[i], s)) + Cardinality(more)
              /\ Cardinality(Of(rs, s)) \in Nat /\ Cardinality(Of(rows[i], s)) \in Nat
  <2>1. IsFiniteSet(Of(rows[i], s)) BY <1>5, RowsFinite
  <2>2. i \notin overlapped => Of(rows[i], s) \cap more = {} BY <1>4, <1>15
  <2>3. IsFiniteSet(Of(rs, s)) BY <1>14, RowsFinite
  <2> HIDE DEF Of, rs
  <2>4. PICK U : U = Of(rows[i], s) \cup more OBVIOUS
  <2>5. /\ IsFiniteSet(U) /\ Cardinality(U) \in Nat
        /\ Cardinality(U) <= Cardinality(Of(rows[i], s)) + Cardinality(more)
        /\ Of(rows[i], s) \cap more = {} =>
             Cardinality(U) = Cardinality(Of(rows[i], s)) + Cardinality(more)
    BY <1>15, <2>1, <2>4, CountBoth
  <2>6. Cardinality(Of(rs, s)) <= Cardinality(U) BY <1>15, <2>4, <2>5, FS_Subset
  <2>7. /\ Cardinality(Of(rs, s)) \in Nat /\ Cardinality(Of(rows[i], s)) \in Nat
        /\ Cardinality(more) \in Nat
    BY <1>15, <2>1, <2>3, FS_CardinalityType
  <2>8. QED BY <1>15, <2>2, <2>4, <2>5, <2>6, <2>7
<1>16. /\ Cardinality(Of(rs, "FAILED")) <= Cardinality(Of(rows[i], "FAILED")) + Cardinality(bad)
       /\ i \notin overlapped => Cardinality(Of(rs, "FAILED"))
                                   = Cardinality(Of(rows[i], "FAILED")) + Cardinality(bad)
       /\ Cardinality(Of(rs, "FAILED")) \in Nat /\ Cardinality(Of(rows[i], "FAILED")) \in Nat
  <2>1. \A n \in 1 .. L : /\ rs[n] = "FAILED" => n \in bad \/ rows[i][n] = "FAILED"
                          /\ n \in bad => rs[n] = "FAILED"
                          /\ n \notin batch => rs[n] = rows[i][n]
    BY <1>12, <1>13
  <2>2. DOMAIN rs = 1 .. L /\ DOMAIN rows[i] = 1 .. L /\ bad \in SUBSET (1 .. L)
    BY <1>7, <1>9, <1>12, <1>14
  <2> HIDE DEF rs, bad
  <2>3. Of(rs, "FAILED") \subseteq Of(rows[i], "FAILED") \cup bad BY <2>1, <2>2
  <2>4. i \notin overlapped => Of(rs, "FAILED") = Of(rows[i], "FAILED") \cup bad
    <3>1. ASSUME i \notin overlapped, NEW n \in 1 .. L, rows[i][n] = "FAILED" PROVE rs[n] = "FAILED"
      <4>1. n \notin batch BY <1>4, <3>1
      <4>2. QED BY <2>1, <3>1, <4>1
    <3>2. QED BY <2>1, <2>2, <2>3, <3>1
  <2>5. QED BY <1>12, <1>15, <2>3, <2>4
<1>17. /\ Cardinality(Of(rs, "SUCCEEDED"))
            <= Cardinality(Of(rows[i], "SUCCEEDED")) + (Cardinality(batch) - Cardinality(bad))
       /\ i \notin overlapped => Cardinality(Of(rs, "SUCCEEDED"))
            = Cardinality(Of(rows[i], "SUCCEEDED")) + (Cardinality(batch) - Cardinality(bad))
       /\ Cardinality(Of(rs, "SUCCEEDED")) \in Nat /\ Cardinality(Of(rows[i], "SUCCEEDED")) \in Nat
  <2> DEFINE good == batch \ bad
  <2>1. \A n \in 1 .. L : /\ rs[n] = "SUCCEEDED" => n \in good \/ rows[i][n] = "SUCCEEDED"
                          /\ n \in good => rs[n] = "SUCCEEDED"
                          /\ n \notin batch => rs[n] = rows[i][n]
    BY <1>12, <1>13
  <2>2. DOMAIN rs = 1 .. L /\ DOMAIN rows[i] = 1 .. L /\ good \in SUBSET (1 .. L)
        /\ good \in SUBSET batch /\ IsFiniteSet(good)
        /\ Cardinality(good) = Cardinality(batch) - Cardinality(bad)
    BY <1>7, <1>9, <1>12, <1>14
  <2> HIDE DEF rs, bad, good
  <2>3. Of(rs, "SUCCEEDED") \subseteq Of(rows[i], "SUCCEEDED") \cup good BY <2>1, <2>2
  <2>4. i \notin overlapped => Of(rs, "SUCCEEDED") = Of(rows[i], "SUCCEEDED") \cup good
    <3>1. ASSUME i \notin overlapped, NEW n \in 1 .. L, rows[i][n] = "SUCCEEDED"
          PROVE  rs[n] = "SUCCEEDED"
      <4>1. n \notin batch BY <1>4, <3>1
      <4>2. QED BY <2>1, <3>1, <4>1
    <3>2. QED BY <2>1, <2>2, <2>3, <3>1
  <2>5. /\ Cardinality(Of(rs, "SUCCEEDED"))
             <= Cardinality(Of(rows[i], "SUCCEEDED")) + Cardinality(good)
        /\ i \notin overlapped => Cardinality(Of(rs, "SUCCEEDED"))
             = Cardinality(Of(rows[i], "SUCCEEDED")) + Cardinality(good)
        /\ Cardinality(Of(rs, "SUCCEEDED")) \in Nat /\ Cardinality(Of(rows[i], "SUCCEEDED")) \in Nat
    BY <1>15, <2>2, <2>3, <2>4
  <2> HIDE DEF Of
  <2>6. QED BY <2>2, <2>5
<1>18. \A n \in 1 .. L : Done(rows[i], n) => Done(rs, n) BY <1>13 DEF Done
<1>19. \A n \in 1 .. L : n <= top => Done(rs, n)
  <2> SUFFICES ASSUME NEW n \in 1 .. L, n <= top PROVE Done(rs, n) OBVIOUS
  <2>1. CASE n \in batch BY <1>13, <2>1 DEF Done
  <2>2. CASE n \notin batch
    <3>1. Done(rows[i], n) BY <1>4, <1>10, <2>2 DEF Claimed
    <3>2. QED BY <1>18, <3>1
  <2>3. QED BY <2>1, <2>2
<1>20. top \in Nat BY <1>9, <1>10
<1> HIDE DEF bad, rs
<1>21. w \in HandlerRow /\ w.cursor = top /\ w.step = "claim" /\ w.import = i
  <2>1. walk[h].failed \in Nat BY <1>3 DEF HandlerRow
  <2>2. walk[h].failed + Cardinality(bad) \in Nat BY <1>12, <2>1
  <2>3. QED BY <1>1, <1>3, <1>20, <2>2 DEF HandlerRow
<1>22. /\ row.processed = job[i].processed + Cardinality(batch)
       /\ row.failed = job[i].failed + Cardinality(bad)
       /\ row.success = job[i].success + (Cardinality(batch) - Cardinality(bad))
       /\ row.queued = job[i].queued /\ row.status = job[i].status /\ row.upload = job[i].upload
  BY <1>5 DEF ImportJobRow
<1>23. job[i].success \in Nat /\ job[i].failed \in Nat /\ job[i].processed \in Nat
  BY <1>5 DEF ImportJobRow
<1>24. row \in ImportJobRow
  <2>1. Cardinality(batch) - Cardinality(bad) \in Nat BY <1>12
  <2>2. /\ job[i].processed + Cardinality(batch) \in Nat
        /\ job[i].failed + Cardinality(bad) \in Nat
        /\ job[i].success + (Cardinality(batch) - Cardinality(bad)) \in Nat
    BY <1>11, <1>12, <1>23, <2>1
  <2>3. QED BY <1>5, <2>2 DEF ImportJobRow
<1> HIDE DEF row, w
<1>25. job'[i] = row /\ rows'[i] = rs /\ walk'[h] = w BY <1>4, <1>6 DEF ImportInv, ImportTypeOK
<1>26. RowKept(i)'
  <2>1. /\ RowsThat(i, "SUCCEEDED") = Cardinality(Of(rows[i], "SUCCEEDED"))
        /\ RowsThat(i, "FAILED") = Cardinality(Of(rows[i], "FAILED"))
        /\ RowsThat(i, "SUCCEEDED")' = Cardinality(Of(rs, "SUCCEEDED"))
        /\ RowsThat(i, "FAILED")' = Cardinality(Of(rs, "FAILED"))
    BY <1>25 DEF RowsThat
  <2> HIDE DEF Of
  <2>2. /\ row.success >= Cardinality(Of(rs, "SUCCEEDED"))
        /\ row.failed >= Cardinality(Of(rs, "FAILED"))
    <3>1. /\ job[i].success >= Cardinality(Of(rows[i], "SUCCEEDED"))
          /\ job[i].failed >= Cardinality(Of(rows[i], "FAILED"))
      BY <1>5, <2>1 DEF RowKept
    <3>2. QED BY <1>11, <1>12, <1>16, <1>17, <1>22, <1>23, <3>1
  <2>3. row.processed = row.success + row.failed
    <3>1. job[i].processed = job[i].success + job[i].failed BY <1>5 DEF RowKept
    <3>2. QED BY <1>11, <1>12, <1>22, <1>23, <3>1
  <2>4. i \notin overlapped => /\ row.success = Cardinality(Of(rs, "SUCCEEDED"))
                               /\ row.failed = Cardinality(Of(rs, "FAILED"))
    <3>1. i \notin overlapped => /\ job[i].success = Cardinality(Of(rows[i], "SUCCEEDED"))
                                 /\ job[i].failed = Cardinality(Of(rows[i], "FAILED"))
      BY <1>5, <2>1 DEF RowKept
    <3>2. QED BY <1>11, <1>12, <1>16, <1>17, <1>22, <1>23, <3>1
  <2>5. row.status \in Ended => \A n \in 1 .. L : Done(rs, n)
    BY <1>5, <1>18, <1>22 DEF RowKept
  <2>6. QED BY <1>4, <1>5, <1>6, <1>14, <1>22, <1>25, <2>1, <2>2, <2>3, <2>4, <2>5 DEF RowKept
<1>27. /\ job' \in [Imports -> ImportJobRow] /\ rows' \in [Imports -> Seq(ImportRowStatus)]
       /\ \A j \in Imports : RowKept(j)'
  BY <1>4, <1>6, <1>14, <1>24, <1>26, KeptElsewhere
<1>28. ASSUME NEW g \in Handlers, g # h PROVE HandlerKept(g)'
  <2>1. HandlerKept(g) BY DEF ImportInv
  <2>2. walk'[g] = walk[g] BY <1>6, <1>28 DEF ImportInv, ImportTypeOK
  <2>3. PICK j : j = walk[g].import OBVIOUS
  <2>4. walk[g].step # "idle" =>
          /\ job[j].queued => job'[j].queued
          /\ Len(rows'[j]) = Len(rows[j])
          /\ \A n \in 1 .. Len(rows[j]) : Done(rows[j], n) => Done(rows'[j], n)
          /\ rows'[j] = rows[j] \/ j \in overlapped'
    <3> SUFFICES ASSUME walk[g].step # "idle"
                 PROVE  /\ job[j].queued => job'[j].queued
                        /\ Len(rows'[j]) = Len(rows[j])
                        /\ \A n \in 1 .. Len(rows[j]) : Done(rows[j], n) => Done(rows'[j], n)
                        /\ rows'[j] = rows[j] \/ j \in overlapped'
      OBVIOUS
    <3>1. j \in Imports BY <2>1, <2>3 DEF HandlerKept
    <3>2. CASE j # i
      <4>1. job'[j] = job[j] BY <1>6, <3>1, <3>2 DEF ImportInv, ImportTypeOK
      <4>2. rows'[j] = rows[j] BY <1>6, <3>1, <3>2 DEF ImportInv, ImportTypeOK
      <4>3. QED BY <4>1, <4>2
    <3>3. CASE j = i
      <4>1. g \in Busy(i) /\ h \in Busy(i) BY <1>1, <1>3, <2>3, <3>3 DEF Busy, On
      <4>2. i \in overlapped BY <1>4, <1>28, <4>1 DEF ImportInv, OneEach
      <4>3. QED BY <1>6, <1>14, <1>18, <1>22, <1>25, <3>3, <4>2
    <3>4. QED BY <3>2, <3>3
  <2>5. overlapped \subseteq overlapped' BY <1>6
  <2>6. QED BY <2>1, <2>2, <2>3, <2>4, <2>5, HandlerStays
<1>29. HandlerKept(h)' BY <1>4, <1>14, <1>19, <1>21, <1>22, <1>25 DEF HandlerKept
<1>30. OneEach'
  <2>1. walk[h].step # "idle" /\ w.import = walk[h].import BY <1>1, <1>3, <1>21
  <2>2. QED BY <1>6, <1>21, <2>1, StillOneEach
<1>31. walk' \in [Handlers -> HandlerRow] BY <1>6, <1>21 DEF ImportInv, ImportTypeOK
<1>32. QED BY <1>27, <1>28, <1>29, <1>30, <1>31 DEF ImportInv, ImportTypeOK

LEMMA ImportStep == ImportInv /\ [GeographyNext]_geographyVars => ImportInv'
<1> SUFFICES ASSUME ImportInv, [GeographyNext]_geographyVars PROVE ImportInv' OBVIOUS
<1>1. CASE UNCHANGED import BY <1>1, ImportSame
<1>2. CASE \E i \in Imports :
              \/ upload(i) \/ stage(i) \/ setTotals(i) \/ enqueue(i) \/ failJob(i) \/ uploadDies(i)
              \/ \E h \in Handlers : Process(h, i)
  BY <1>2, ImportBegin, ImportAttempt
<1>3. CASE \/ \E r \in Readers, p \in Pins : LookupPincode(r, p) \/ ResolveZone(r, p)
           \/ \E r \in Readers : SetJSON(r)
  BY <1>1, <1>3 DEF LookupPincode, ResolveZone, SetJSON
<1>4. CASE \/ \E p \in Pins, to \in {"ACTIVE", "INACTIVE"} : setPincodeStatus(p, to)
           \/ \E z \in Zones : createZone(z) \/ \E to \in {"ACTIVE", "INACTIVE"} : updateZone(z, to)
           \/ \E p \in Pins : deleteZoneMapping(p) \/ \E z \in Zones : upsertZoneMapping(p, z)
  BY <1>1, <1>4 DEF setPincodeStatus, createZone, updateZone, deleteZoneMapping, upsertZoneMapping
<1>5. CASE \E h \in Handlers :
              StartImportJob(h) \/ Claim(h) \/ ApplyBatch(h) \/ ProcessFails(h) \/ ProcessDone(h)
  BY <1>5, ImportMark, ImportClaim, ImportBatch, ImportFails, ImportDone
<1>6. CASE UNCHANGED geographyVars BY <1>1, <1>6 DEF geographyVars, import
<1>7. QED BY <1>2, <1>3, <1>4, <1>5, <1>6 DEF GeographyNext

LEMMA ImportStart == GeographyInit => ImportInv
<1> SUFFICES ASSUME GeographyInit PROVE ImportInv OBVIOUS
<1>1. job \in [Imports -> ImportJobRow]
  BY DEF GeographyInit, ImportJobRow, ImportStatuses, UploadSteps
<1>2. walk \in [Handlers -> HandlerRow] /\ \A h \in Handlers : walk[h].step = "idle"
  BY DEF GeographyInit, HandlerRow, NotRunning
<1>3. rows \in [Imports -> Seq(ImportRowStatus)] /\ \A i \in Imports : rows[i] = << >>
  BY DEF GeographyInit
<1>4. ASSUME NEW i \in Imports PROVE RowKept(i)
  <2>1. /\ job[i].success = 0 /\ job[i].failed = 0 /\ job[i].processed = 0
        /\ ~job[i].queued /\ job[i].status = "NONE" /\ job[i].upload = "none"
    BY DEF GeographyInit
  <2>2. \A s : {n \in DOMAIN rows[i] : rows[i][n] = s} = {} BY <1>3
  <2>3. \A s : RowsThat(i, s) = 0 BY <2>2, FS_EmptySet DEF RowsThat
  <2>4. \A n \in 1 .. Len(rows[i]) : FALSE BY <1>3
  <2>5. QED BY <2>1, <2>3, <2>4 DEF RowKept, Ended
<1>5. \A h \in Handlers : HandlerKept(h) BY <1>2 DEF HandlerKept
<1>6. OneEach BY <1>2 DEF OneEach, Busy, On
<1>7. QED BY <1>1, <1>2, <1>3, <1>4, <1>5, <1>6 DEF ImportInv, ImportTypeOK

LEMMA ImportCounted == ImportInv => ImportResumable
<1> SUFFICES ASSUME ImportInv, NEW i \in Imports
             PROVE  /\ job[i].status \in Ended =>
                         RowsThat(i, "PENDING") = 0 /\ Len(rows[i]) = Len(FileRows[i])
                    /\ job[i].success >= RowsThat(i, "SUCCEEDED")
                    /\ job[i].failed >= RowsThat(i, "FAILED")
                    /\ i \notin overlapped =>
                         /\ job[i].success = RowsThat(i, "SUCCEEDED")
                         /\ job[i].failed = RowsThat(i, "FAILED")
                         /\ job[i].processed = RowsThat(i, "SUCCEEDED") + RowsThat(i, "FAILED")
  BY DEF ImportResumable, Ended
<1>1. RowKept(i) /\ rows[i] \in Seq(ImportRowStatus) BY DEF ImportInv, ImportTypeOK
<1>2. ASSUME job[i].status \in Ended
      PROVE  RowsThat(i, "PENDING") = 0 /\ Len(rows[i]) = Len(FileRows[i])
  <2>1. job[i].queued BY <1>1, <1>2 DEF RowKept, Ended
  <2>2. {n \in DOMAIN rows[i] : rows[i][n] = "PENDING"} = {}
    <3>1. DOMAIN rows[i] = 1 .. Len(rows[i]) BY <1>1
    <3>2. QED BY <1>1, <1>2, <3>1 DEF RowKept, Done
  <2>3. QED BY <1>1, <2>1, <2>2, FS_EmptySet DEF RowKept, RowsThat
<1>3. QED BY <1>1, <1>2 DEF RowKept

\* In every behaviour of geography, for any files, batch sizes, attempts and
\* handlers, a finished import (ProcessDone) has no row left to do and nothing
\* done is left out of its progress, whatever attempts died or ran together;
\* and attempts that follow one another count, and so apply, every row once.
THEOREM ImportsResume == GeographySpec => []ImportResumable
BY ImportStart, ImportStep, ImportCounted, PTL DEF GeographySpec

-----------------------------------------------------------------------------
(***************************************************************************)
(* Plans.  Closures are only added to and cancelled, and a resolution      *)
(* keeps the ends it has found: a closure that was there when the question *)
(* came is looked at by checkClosures, or has been cancelled before, or    *)
(* the lookup failed.                                                      *)
(***************************************************************************)
ClosureRow == [form : TemporaryClosure, status : {"ACTIVE", "CANCELLED"}]

ConfigOK == closures \in Seq(ClosureRow)

\* Stages after checkClosures.
Checked == {"rules", "override", "hubs", "detail", "answered"}

Clear(q) == \A c \in 1 .. q.known : closures[c].status = "ACTIVE" => ~Stops(c, q)

\* Requests are records with these columns, whatever is in them.
Columns == {"stage", "from", "to", "product", "origin", "dest", "source", "route", "legs",
            "known", "blind"}
AskRow(q) == q = [c \in Columns |-> q[c]]

Sound(q) ==
    /\ AskRow(q) /\ q.known \in Nat /\ q.known <= Len(closures)
    /\ q.stage \in Checked => q.blind \/ Clear(q)

PlanInv ==
    /\ ConfigOK /\ ask = [r \in Asks |-> ask[r]]
    /\ \A r \in Asks : Sound(ask[r])

LEMMA SeqMark ==
    ASSUME NEW S, NEW s \in Seq(S), NEW i \in DOMAIN s, NEW x \in S
    PROVE  /\ [s EXCEPT ![i] = x] \in Seq(S) /\ Len([s EXCEPT ![i] = x]) = Len(s)
           /\ DOMAIN [s EXCEPT ![i] = x] = DOMAIN s
           /\ \A k \in DOMAIN s : [s EXCEPT ![i] = x][k] = IF k = i THEN x ELSE s[k]
<1> DEFINE t == [s EXCEPT ![i] = x]
<1>1. Len(s) \in Nat /\ DOMAIN s = 1 .. Len(s) /\ \A k \in 1 .. Len(s) : s[k] \in S OBVIOUS
<1>2. DOMAIN t = DOMAIN s /\ \A k \in DOMAIN s : t[k] = IF k = i THEN x ELSE s[k] OBVIOUS
<1>3. t = [k \in 1 .. Len(s) |-> t[k]] BY <1>1, <1>2
<1> HIDE DEF t
<1>4. t \in [1 .. Len(s) -> S] BY <1>1, <1>2, <1>3
<1>5. t \in Seq(S) /\ Len(t) = Len(s) BY <1>1, <1>4
<1>6. QED BY <1>2, <1>5 DEF t

LEMMA SeqAdd ==
    ASSUME NEW S, NEW s \in Seq(S), NEW x \in S
    PROVE  /\ Append(s, x) \in Seq(S) /\ Len(Append(s, x)) = Len(s) + 1
           /\ DOMAIN s \subseteq DOMAIN Append(s, x) /\ Len(s) \in Nat
           /\ \A k \in DOMAIN s : Append(s, x)[k] = s[k]
           /\ \A k \in DOMAIN Append(s, x) : Append(s, x)[k] = x \/ k \in DOMAIN s
OBVIOUS

\* A configuration that only grows and is marked keeps the requests sound.
LEMMA PlanConfig ==
    ASSUME PlanInv, ConfigOK', UNCHANGED ask,
           Len(closures) <= Len(closures'),
           \A c \in 1 .. Len(closures) :
              /\ closures'[c].form = closures[c].form
              /\ closures'[c].status = "ACTIVE" => closures[c].status = "ACTIVE"
    PROVE  PlanInv'
<1>1. Len(closures) \in Nat /\ Len(closures') \in Nat BY DEF PlanInv, ConfigOK
<1>2. ASSUME NEW q, Sound(q) PROVE Sound(q)'
  <2>1. q.known \in Nat /\ q.known <= Len(closures) BY <1>2 DEF Sound
  <2>2. q.known <= Len(closures') BY <1>1, <2>1
  <2>3. \A c \in 1 .. q.known : c \in 1 .. Len(closures) BY <1>1, <2>1
  <2>4. Clear(q) => Clear(q)' BY <2>3 DEF Clear, Stops
  <2>5. QED BY <1>2, <2>2, <2>4 DEF Sound, AskRow
<1>3. \A r \in Asks : Sound(ask[r])' BY <1>2 DEF PlanInv
<1>4. QED BY <1>3 DEF PlanInv

LEMMA PlanClosures ==
    ASSUME PlanInv, UNCHANGED ask,
           \/ \E f \in ClosureForms : createClosure(f)
           \/ \E i \in DOMAIN closures : cancelClosure(i)
    PROVE  PlanInv'
<1>1. ConfigOK BY DEF PlanInv
<1>3. closures \in Seq(ClosureRow) /\ DOMAIN closures = 1 .. Len(closures) /\ Len(closures) \in Nat
  BY <1>1 DEF ConfigOK
<1>4. /\ closures' \in Seq(ClosureRow) /\ Len(closures) <= Len(closures')
      /\ \A c \in 1 .. Len(closures) :
            /\ closures'[c].form = closures[c].form
            /\ closures'[c].status = "ACTIVE" => closures[c].status = "ACTIVE"
  <2>1. CASE \E f \in ClosureForms : createClosure(f)
    <3>1. PICK f \in ClosureForms : createClosure(f) BY <2>1
    <3>2. f \in TemporaryClosure BY ServiceAssumption
    <3>3. closures' = Append(closures, Row(f))
      BY <3>1 DEF createClosure, CreateTemporaryClosure
    <3>4. Row(f) \in ClosureRow BY <3>2 DEF Row, ClosureRow
    <3>5. QED BY <1>3, <3>3, <3>4, SeqAdd
  <2>2. CASE \E i \in DOMAIN closures : cancelClosure(i)
    <3>1. PICK i \in DOMAIN closures : cancelClosure(i) BY <2>2
    <3> DEFINE x == [closures[i] EXCEPT !.status = "CANCELLED"]
    <3>2. closures' = [closures EXCEPT ![i] = x]
      BY <3>1 DEF cancelClosure, CancelTemporaryClosure
    <3>3. closures[i] \in ClosureRow BY <1>3
    <3>4. x \in ClosureRow /\ x.form = closures[i].form /\ x.status = "CANCELLED"
      BY <3>3 DEF ClosureRow
    <3> HIDE DEF x
    <3>5. QED BY <1>3, <3>2, <3>4, SeqMark
  <2>3. QED BY <2>1, <2>2
<1>5. ConfigOK' BY <1>4 DEF ConfigOK
<1>6. QED BY <1>4, <1>5, PlanConfig

LEMMA PlanOther ==
    ASSUME PlanInv, UNCHANGED <<ask, closures>>
    PROVE  PlanInv'
<1>1. ConfigOK' BY DEF PlanInv, ConfigOK
<1>2. Len(closures) \in Nat BY DEF PlanInv, ConfigOK
<1>3. QED BY <1>1, <1>2, PlanConfig

LEMMA PlanAdmin ==
    ASSUME PlanInv, UNCHANGED ask, AdminNext
    PROVE  PlanInv'
<1>1. CASE \/ \E f \in AreaForms : createServiceArea(f)
           \/ \E i \in DOMAIN areas, s \in {"ACTIVE", "INACTIVE"} :
                 updateServiceArea(i, s, areas[i].form.priority)
           \/ \E f \in RuleForms : createRule(f)
           \/ \E i \in DOMAIN rules, s \in {"ACTIVE", "INACTIVE"} : setRuleStatus(i, s)
  BY <1>1, PlanOther DEF createServiceArea, updateServiceArea, createRule, setRuleStatus
<1>2. CASE \/ \E f \in RouteForms : createRoute(f)
           \/ \E i \in DOMAIN routes, s \in {"ACTIVE", "INACTIVE"} : updateRoute(i, s)
           \/ \E f \in OverrideForms : createOverride(f)
           \/ \E i \in DOMAIN overrides : cancelOverride(i)
  BY <1>2, PlanOther DEF createRoute, updateRoute, createOverride, cancelOverride
<1>3. QED BY <1>1, <1>2, PlanClosures DEF AdminNext

-----------------------------------------------------------------------------
\* Resolve, read by read.
LEMMA AskAlone ==
    ASSUME PlanInv, UNCHANGED config, NEW r \in Asks, NEW x, Sound(x),
           ask' = [ask EXCEPT ![r] = x]
    PROVE  PlanInv'
<1>1. closures' = closures BY DEF config
<1>2. ConfigOK' BY <1>1 DEF PlanInv, ConfigOK
<1>3. ASSUME NEW y, Sound(y) PROVE Sound(y)'
  <2>1. Clear(y) => Clear(y)' BY <1>1 DEF Clear, Stops
  <2>2. QED BY <1>1, <1>3, <2>1 DEF Sound, AskRow
<1>4. ask' = [s \in Asks |-> ask'[s]] BY DEF PlanInv
<1>5. ASSUME NEW s \in Asks PROVE Sound(ask[s])'
  <2>1. ask'[s] = IF s = r THEN x ELSE ask[s] BY DEF PlanInv
  <2>2. Sound(ask[s]) BY DEF PlanInv
  <2>3. Sound(ask'[s])
    BY <2>1, <2>2
  <2>4. Sound(ask'[s]) => Sound(ask[s])'
    <3>1. Clear(ask'[s]) => Clear(ask[s])' BY <1>1 DEF Clear, Stops
    <3>2. QED BY <1>1, <3>1 DEF Sound, AskRow
  <2>5. QED BY <2>3, <2>4
<1>6. QED BY <1>2, <1>4, <1>5 DEF PlanInv

\* Later stages change nothing that checkClosures looked at.
Onward(q, x) ==
    /\ AskRow(x) /\ x.known = q.known /\ x.from = q.from /\ x.to = q.to
    /\ x.origin = q.origin /\ x.dest = q.dest /\ (q.blind => x.blind)

LEMMA OnwardSound ==
    ASSUME NEW q, NEW x, Sound(q), Onward(q, x),
           q.stage \in Checked \/ x.stage \notin Checked \/ x.blind \/ Clear(q)
    PROVE  Sound(x)
<1>1. Clear(q) => Clear(x) BY DEF Onward, Clear, Stops
<1>2. QED BY <1>1 DEF Sound, Onward

\* A way out.
LEMMA AskRefused ==
    ASSUME PlanInv, UNCHANGED config, NEW r \in Asks, notServiceable(r) PROVE PlanInv'
<1> DEFINE x == [ask[r] EXCEPT !.stage = "refused"]
<1>1. Sound(ask[r]) BY DEF PlanInv
<1>2. AskRow(ask[r]) BY <1>1 DEF Sound
<1>3. Onward(ask[r], x) /\ x.stage = "refused" BY <1>2 DEF AskRow, Columns, Onward
<1>4. ask' = [ask EXCEPT ![r] = x] BY DEF notServiceable
<1> HIDE DEF x
<1>5. Sound(x) BY <1>1, <1>3, OnwardSound DEF Checked
<1>6. QED BY <1>4, <1>5, AskAlone

LEMMA NoAskSound == Len(closures) \in Nat => Sound(NoAsk)
<1>1. AskRow(NoAsk) BY DEF AskRow, Columns, NoAsk
<1>2. NoAsk.stage = "idle" /\ NoAsk.known = 0 BY DEF NoAsk
<1>3. QED BY <1>1, <1>2 DEF Sound, Checked

LEMMA AskBegin ==
    ASSUME PlanInv, UNCHANGED config, NEW r \in Asks,
           (\E lane \in Lanes, p \in Products : Resolve(r, lane, p)) \/ Answered(r)
    PROVE  PlanInv'
<1>1. Len(closures) \in Nat BY DEF PlanInv, ConfigOK
<1>2. CASE Answered(r)
  <2>1. ask' = [ask EXCEPT ![r] = NoAsk] BY <1>2 DEF Answered
  <2>2. Sound(NoAsk) BY <1>1, NoAskSound
  <2>3. QED BY <2>1, <2>2, AskAlone
<1>3. CASE \E lane \in Lanes, p \in Products : Resolve(r, lane, p)
  <2>1. PICK lane \in Lanes, p \in Products : Resolve(r, lane, p) BY <1>3
  <2> DEFINE next == IF lane[1] \in Places /\ lane[2] \in Places /\ GetActiveByCode(p)
                     THEN "origin" ELSE "refused"
             x == [NoAsk EXCEPT !.from = lane[1], !.to = lane[2], !.product = p,
                                !.known = Len(closures), !.stage = next]
  <2>2. ask' = [ask EXCEPT ![r] = x] BY <2>1 DEF Resolve
  <2>3. next \in {"origin", "refused"} OBVIOUS
  <2> HIDE DEF next
  <2>4. AskRow(x) /\ x.stage = next /\ x.known = Len(closures)
    <3>1. AskRow(NoAsk) BY DEF AskRow, Columns, NoAsk
    <3>2. QED BY <3>1 DEF AskRow, Columns
  <2> HIDE DEF x
  <2>5. Sound(x) BY <1>1, <2>3, <2>4 DEF Sound, Checked
  <2>6. QED BY <2>2, <2>5, AskAlone
<1>4. QED BY <1>2, <1>3

LEMMA AskUnits ==
    ASSUME PlanInv, UNCHANGED config, NEW r \in Asks, resolveServingUnit(r) PROVE PlanInv'
<1> DEFINE q == ask[r]
           u == IF q.stage = "origin" THEN ResolveServingUnits(q.from, "PICKUP")
                                      ELSE ResolveServingUnits(q.to, "DELIVERY")
           x == IF q.stage = "origin" THEN [q EXCEPT !.stage = "destination", !.origin = u]
                                      ELSE [q EXCEPT !.stage = "closures", !.dest = u]
<1>1. CASE notServiceable(r) BY <1>1, AskRefused
<1>2. CASE ask' = [ask EXCEPT ![r] = x]
  <2>1. Sound(q) BY DEF PlanInv
  <2>2. AskRow(q) BY <2>1 DEF Sound
  <2> HIDE DEF u
  <2>3. AskRow(x) /\ x.stage \in {"destination", "closures"} /\ x.known = q.known
    BY <2>2 DEF AskRow, Columns
  <2> HIDE DEF x
  <2>4. Sound(x) BY <2>1, <2>3 DEF Sound, Checked
  <2>5. QED BY <1>2, <2>4, AskAlone
<1>3. QED BY <1>1, <1>2 DEF resolveServingUnit

LEMMA AskClosures ==
    ASSUME PlanInv, UNCHANGED config, NEW r \in Asks, checkClosures(r) PROVE PlanInv'
<1> DEFINE q == ask[r]
           x == [q EXCEPT !.stage = "rules"]
           none == ~\E c \in FindActiveClosures({q.origin, q.dest, q.from, q.to}) : Stops(c, q)
<1>1. CASE notServiceable(r) BY <1>1, AskRefused
<1>2. CASE ask' = [ask EXCEPT ![r] = x] /\ none
  <2>1. Sound(q) BY DEF PlanInv
  <2>2. AskRow(q) BY <2>1 DEF Sound
  <2>3. Onward(q, x) /\ x.stage = "rules" BY <2>2 DEF AskRow, Columns, Onward
  <2>4. Clear(q)
    <3> SUFFICES ASSUME NEW c \in 1 .. q.known, closures[c].status = "ACTIVE", Stops(c, q)
                 PROVE  FALSE
      BY DEF Clear
    <3>1. q.known \in Nat /\ q.known <= Len(closures) BY <2>1 DEF Sound
    <3>2. closures \in Seq(ClosureRow) BY DEF PlanInv, ConfigOK
    <3>3. c \in DOMAIN closures BY <3>1, <3>2
    <3>4. closures[c].form.at \in {q.origin, q.dest, q.from, q.to} BY DEF Stops
    <3>5. c \in FindActiveClosures({q.origin, q.dest, q.from, q.to})
      BY <3>3, <3>4 DEF FindActiveClosures, InForce
    <3>6. QED BY <1>2, <3>5
  <2> HIDE DEF x
  <2>5. Sound(x) BY <2>1, <2>3, <2>4, OnwardSound DEF Checked
  <2>6. QED BY <1>2, <2>5, AskAlone
<1>3. CASE LookupFailed(r)
  <2> DEFINE y == [q EXCEPT !.stage = "rules", !.blind = TRUE]
  <2>1. Sound(q) BY DEF PlanInv
  <2>2. AskRow(q) BY <2>1 DEF Sound
  <2>3. Onward(q, y) /\ y.stage = "rules" /\ y.blind BY <2>2 DEF AskRow, Columns, Onward
  <2>4. ask' = [ask EXCEPT ![r] = y] BY <1>3, <2>2 DEF LookupFailed, PlanInv, AskRow
  <2> HIDE DEF y
  <2>5. Sound(y) BY <2>1, <2>3, OnwardSound DEF Checked
  <2>6. QED BY <2>4, <2>5, AskAlone
<1>4. QED BY <1>1, <1>2, <1>3 DEF checkClosures, LaneOpen

LEMMA AskRules ==
    ASSUME PlanInv, UNCHANGED config, NEW r \in Asks, applyRules(r) PROVE PlanInv'
<1> DEFINE q == ask[r]
           x == [q EXCEPT !.stage = "override"]
<1>1. CASE notServiceable(r) BY <1>1, AskRefused
<1>2. CASE ask' = [ask EXCEPT ![r] = x] /\ q.stage = "rules"
  <2>1. Sound(q) BY DEF PlanInv
  <2>2. AskRow(q) BY <2>1 DEF Sound
  <2>3. Onward(q, x) /\ x.stage = "override" BY <2>2 DEF AskRow, Columns, Onward
  <2> HIDE DEF x
  <2>4. Sound(x) BY <1>2, <2>1, <2>3, OnwardSound DEF Checked
  <2>5. QED BY <1>2, <2>4, AskAlone
<1>3. QED BY <1>1, <1>2 DEF applyRules

LEMMA AskOverride ==
    ASSUME PlanInv, UNCHANGED config, NEW r \in Asks, resolveOverride(r) PROVE PlanInv'
<1> DEFINE q == ask[r]
           i == MatchRoutingOverride(q.from, q.to, q.product)
           x == IF i = 0 THEN [q EXCEPT !.stage = "hubs"]
                ELSE [q EXCEPT !.stage = "detail", !.source = "OVERRIDE", !.route = i]
<1>1. ask' = [ask EXCEPT ![r] = x] /\ q.stage = "override" BY DEF resolveOverride
<1>2. Sound(q) BY DEF PlanInv
<1>3. AskRow(q) BY <1>2 DEF Sound
<1> HIDE DEF i
<1>4. Onward(q, x) BY <1>3 DEF AskRow, Columns, Onward
<1> HIDE DEF x
<1>5. Sound(x) BY <1>1, <1>2, <1>4, OnwardSound DEF Checked
<1>6. QED BY <1>1, <1>5, AskAlone

LEMMA AskRoute ==
    ASSUME PlanInv, UNCHANGED config, NEW r \in Asks, resolveRoute(r) PROVE PlanInv'
<1> DEFINE q == ask[r]
           i == MatchRoutes(ResolveAncestorHub(q.origin), ResolveAncestorHub(q.dest), q.product)
           x == [q EXCEPT !.stage = "answered", !.source = "LOCAL",
                          !.legs = <<<<q.origin, q.dest>>>>]
           y == [q EXCEPT !.stage = "detail", !.source = sourceOf(i), !.route = i]
<1>1. Sound(q) BY DEF PlanInv
<1>2. AskRow(q) BY <1>1 DEF Sound
<1>3. CASE notServiceable(r) BY <1>3, AskRefused
<1>4. CASE ask' = [ask EXCEPT ![r] = x] /\ q.stage = "hubs"
  <2>1. Onward(q, x) BY <1>2 DEF AskRow, Columns, Onward
  <2> HIDE DEF x
  <2>2. Sound(x) BY <1>1, <1>4, <2>1, OnwardSound DEF Checked
  <2>3. QED BY <1>4, <2>2, AskAlone
<1>5. CASE ask' = [ask EXCEPT ![r] = y] /\ q.stage = "hubs"
  <2> HIDE DEF i
  <2>1. Onward(q, y) BY <1>2 DEF AskRow, Columns, Onward
  <2> HIDE DEF y
  <2>2. Sound(y) BY <1>1, <1>5, <2>1, OnwardSound DEF Checked
  <2>3. QED BY <1>5, <2>2, AskAlone
<1>6. QED BY <1>3, <1>4, <1>5 DEF resolveRoute

LEMMA AskDetail ==
    ASSUME PlanInv, UNCHANGED config, NEW r \in Asks, attachRouteDetail(r) PROVE PlanInv'
<1> DEFINE q == ask[r]
<1>1. Sound(q) BY DEF PlanInv
<1>2. AskRow(q) BY <1>1 DEF Sound
<1>3. PICK all : /\ ask' = [ask EXCEPT ![r].stage = "answered", ![r].legs = all]
                 /\ q.stage = "detail"
  BY DEF attachRouteDetail
<1> DEFINE x == [q EXCEPT !.stage = "answered", !.legs = all]
<1>4. ask' = [ask EXCEPT ![r] = x] BY <1>2, <1>3 DEF PlanInv, AskRow
<1>5. Onward(q, x) BY <1>2 DEF AskRow, Columns, Onward
<1> HIDE DEF x
<1>6. Sound(x) BY <1>1, <1>3, <1>5, OnwardSound DEF Checked
<1>7. QED BY <1>4, <1>6, AskAlone

LEMMA PlanStep == PlanInv /\ [ServiceNext]_serviceVars => PlanInv'
<1> SUFFICES ASSUME PlanInv, [ServiceNext]_serviceVars PROVE PlanInv' OBVIOUS
<1>1. CASE UNCHANGED <<config, ask>>
  BY <1>1, PlanOther DEF config
<1>2. CASE AdminNext /\ UNCHANGED ask BY <1>2, PlanAdmin
<1>3. CASE AskNext /\ UNCHANGED config
  BY <1>3, AskBegin, AskUnits, AskClosures, AskRules, AskOverride, AskRoute, AskDetail,
     AskRefused DEF AskNext, resolveFails
<1>4. QED BY <1>1, <1>2, <1>3 DEF ServiceNext, serviceVars

LEMMA PlanStart == ServiceInit => PlanInv
<1> SUFFICES ASSUME ServiceInit PROVE PlanInv OBVIOUS
<1>1. ConfigOK /\ Len(closures) = 0 BY DEF ServiceInit, ConfigOK
<1>2. \A r \in Asks : ask[r] = NoAsk BY DEF ServiceInit
<1>3. Sound(NoAsk) BY <1>1, NoAskSound
<1>4. ask = [r \in Asks |-> ask[r]] BY DEF ServiceInit
<1>5. QED BY <1>1, <1>2, <1>3, <1>4 DEF PlanInv

\* In every behaviour of routing, for any network, tables and requests, and
\* whatever administrators do between two reads of Resolve, no closure in force
\* from the question to the answer stops either end of a plan that is given out,
\* unless the lookup of closures failed (checkClosures).
THEOREM PlansHonourClosures == ServiceSpec => []PlanHonoursClosures
<1>1. PlanInv => PlanHonoursClosures
  BY DEF PlanInv, Sound, Clear, Checked, PlanHonoursClosures
<1>2. QED BY <1>1, PlanStart, PlanStep, PTL DEF ServiceSpec

-----------------------------------------------------------------------------
(***************************************************************************)
(* Prices.  The engine's sums and loops are over the rows of a version in  *)
(* the order of their priorities; what a loop keeps is shown with          *)
(* LoopsExists and LoopKeeps.                                              *)
(***************************************************************************)
TariffRow == [rate : Seq(RateForms), slabs : Seq(SlabForms),
              surcharges : Seq(SurchargeForms), discounts : Seq(DiscountForms)]

\* A loop's order: any nonempty set of rows has a last one.
NotAfter(rs, j, i) == rs[j].priority < rs[i].priority \/ (rs[j].priority = rs[i].priority /\ j <= i)

LEMMA LastExists ==
    ASSUME NEW D \in SUBSET Nat, IsFiniteSet(D), NEW rs, \A i \in D : rs[i].priority \in Nat
    PROVE  \A S \in SUBSET D : S # {} => \E i \in S : \A j \in S : NotAfter(rs, j, i)
<1> DEFINE C == {S \in SUBSET D : S # {} /\ ~ \E i \in S : \A j \in S : NotAfter(rs, j, i)}
<1>1. SUFFICES ASSUME C # {} PROVE FALSE
  OBVIOUS
<1>2. \A S \in C : IsFiniteSet(S) BY FS_Subset
<1> HIDE DEF C
<1>3. PICK S \in C : \A T \in C : Cardinality(S) <= Cardinality(T)
  BY <1>1, <1>2, SmallestSet
<1>4. S \subseteq D /\ S # {} /\ IsFiniteSet(S) /\ ~ \E i \in S : \A j \in S : NotAfter(rs, j, i)
  BY <1>2, <1>3 DEF C
<1>5. PICK x \in S : TRUE BY <1>4
<1>6. IsFiniteSet(S \ {x}) /\ Cardinality(S \ {x}) < Cardinality(S) BY <1>4, <1>5, OneLess
<1>7. S \ {x} \notin C
  <2>1. Cardinality(S) \in Nat /\ Cardinality(S \ {x}) \in Nat BY <1>4, <1>6, FS_CardinalityType
  <2>2. QED BY <1>3, <1>6, <2>1
<1>8. \A i, j, k \in D : /\ NotAfter(rs, i, i)
                         /\ NotAfter(rs, i, j) \/ NotAfter(rs, j, i)
                         /\ NotAfter(rs, i, j) /\ NotAfter(rs, j, k) => NotAfter(rs, i, k)
  <2> SUFFICES ASSUME NEW i \in D, NEW j \in D, NEW k \in D
               PROVE  /\ NotAfter(rs, i, i)
                      /\ NotAfter(rs, i, j) \/ NotAfter(rs, j, i)
                      /\ NotAfter(rs, i, j) /\ NotAfter(rs, j, k) => NotAfter(rs, i, k)
    OBVIOUS
  <2>1. /\ rs[i].priority \in Nat /\ rs[j].priority \in Nat /\ rs[k].priority \in Nat
        /\ i \in Nat /\ j \in Nat /\ k \in Nat
    OBVIOUS
  <2>2. QED BY <2>1 DEF NotAfter
<1>9. CASE S \ {x} = {}
  <2>1. S = {x} BY <1>5, <1>9
  <2>2. QED BY <1>4, <1>5, <1>8, <2>1
<1>10. CASE S \ {x} # {}
  <2>1. PICK m \in S \ {x} : \A j \in S \ {x} : NotAfter(rs, j, m) BY <1>4, <1>7, <1>10 DEF C
  <2>2. CASE NotAfter(rs, x, m) BY <1>4, <2>1, <2>2
  <2>3. CASE NotAfter(rs, m, x)
    <3>1. \A j \in S \ {x} : NotAfter(rs, j, x) BY <1>4, <1>5, <1>8, <2>1, <2>3
    <3>2. \A j \in S : NotAfter(rs, j, x) BY <1>4, <1>5, <1>8, <3>1
    <3>3. QED BY <1>4, <1>5, <3>2
  <2>4. QED BY <1>4, <1>5, <1>8, <2>1, <2>2, <2>3
<1>11. QED BY <1>9, <1>10

LEMMA LastIn ==
    ASSUME NEW D \in SUBSET Nat, IsFiniteSet(D), NEW rs, \A i \in D : rs[i].priority \in Nat,
           NEW S \in SUBSET D, S # {}
    PROVE  LastOf(rs, S) \in S
<1>1. \E i \in S : \A j \in S : NotAfter(rs, j, i) BY LastExists
<1>2. \E i \in S : \A j \in S : \/ rs[j].priority < rs[i].priority
                                \/ rs[j].priority = rs[i].priority /\ j <= i
  BY <1>1 DEF NotAfter
<1>3. QED BY <1>2 DEF LastOf

\* Arithmetic of the engine.
LEMMA Divided ==
    ASSUME NEW n \in Int, NEW d \in Nat \ {0}
    PROVE  DivRoundHalfUp(n, d) \in Int /\ (n \in Nat => DivRoundHalfUp(n, d) \in Nat)
  BY DEF DivRoundHalfUp

LEMMA Percentage ==
    ASSUME NEW b \in Int, NEW p \in Nat
    PROVE  ApplyBP(b, p) \in Int
<1>1. b * p \in Int OBVIOUS
<1>2. 10000 \in Nat \ {0} OBVIOUS
<1>3. QED BY <1>1, <1>2, Divided DEF ApplyBP

LEMMA StepsStarted ==
    ASSUME NEW g \in Nat, NEW s \in Nat \ {0}
    PROVE  Started(g, s) \in Nat
  BY DEF Started

LEMMA WeightType ==
    ASSUME NEW q, q \in Seq([grams : Nat, mm3 : Nat]), NEW n \in Nat
    PROVE  ComputeChargeableWeight(q, n) \in Nat
<1> DEFINE D == DOMAIN q
           f == [i \in D |-> q[i].grams]
           h == [i \in D |-> DivRoundHalfUp(q[i].mm3, Divisor)]
           w == Larger(Larger(SumFunction(f), SumFunction(h)), Larger(n, MinWeight))
<1>1. D = 1 .. Len(q) /\ Len(q) \in Nat BY LenProperties
<1>2. IsFiniteSet(D)
  <2>1. Len(q) \in Int /\ 1 \in Int BY <1>1
  <2>2. QED BY <1>1, <2>1, FS_Interval
<1>3. \A i \in D : q[i] \in [grams : Nat, mm3 : Nat]
  <2>1. q \in [1 .. Len(q) -> [grams : Nat, mm3 : Nat]] BY LenProperties
  <2>2. QED BY <1>1, <2>1
<1>4. \A i \in D : f[i] \in Nat BY <1>3
<1>5. \A i \in D : h[i] \in Nat
  <2>1. Divisor \in Nat \ {0} BY PricingAssumption
  <2>2. \A i \in D : q[i].mm3 \in Nat BY <1>3
  <2>3. ASSUME NEW i \in D PROVE DivRoundHalfUp(q[i].mm3, Divisor) \in Nat
    <3>1. q[i].mm3 \in Nat /\ q[i].mm3 \in Int BY <2>2
    <3>2. QED BY <2>1, <3>1, Divided
  <2>4. QED BY <2>3
<1>6. SumFunction(f) = SumFunctionOnSet(f, D) /\ SumFunction(h) = SumFunctionOnSet(h, D)
  BY DEF SumFunction
<1>7. ComputeChargeableWeight(q, n) = Started(w, Rounding) * Rounding
  BY DEF ComputeChargeableWeight
<1> HIDE DEF D, f, h
<1>8. SumFunctionOnSet(f, D) \in Nat /\ SumFunctionOnSet(h, D) \in Nat BY <1>2, <1>4, <1>5, SumNat
<1>9. w \in Nat
  <2>1. MinWeight \in Nat BY PricingAssumption
  <2>2. QED BY <1>6, <1>8, <2>1 DEF Larger
<1> HIDE DEF w
<1>10. Rounding \in Nat \ {0} BY PricingAssumption
<1>11. Started(w, Rounding) \in Nat BY <1>9, <1>10, StepsStarted
<1>12. QED BY <1>7, <1>10, <1>11

\* A freight charge, or -1 when there is none.
LEMMA FreightType ==
    ASSUME NEW v, tariff[v] \in TariffRow, stateRate \in Seq(StateRates), NEW grams \in Nat
    PROVE  computeFreight(v, grams) \in Int
<1> DEFINE slab == FindWeightSlab(v, grams)
<1>1. ASSUME NEW r \in BaseRate PROVE Stepped(r, grams) \in Int
  <2>1. r.price \in Nat /\ r.grams \in Nat /\ r.step \in Nat \ {0} /\ r.stepPrice \in Nat
    BY DEF BaseRate
  <2>2. CASE grams > r.grams
    <3>1. grams - r.grams \in Nat BY <2>1, <2>2
    <3>2. Started(grams - r.grams, r.step) \in Nat BY <2>1, <3>1, StepsStarted
    <3>3. r.stepPrice * Started(grams - r.grams, r.step) \in Int BY <2>1, <3>2
    <3>4. QED BY <2>1, <2>2, <3>3 DEF Stepped, ApplyPerUnit
  <2>3. CASE ~(grams > r.grams) BY <2>1, <2>3 DEF Stepped
  <2>4. QED BY <2>2, <2>3
<1>2. ASSUME NEW Forms, Forms \subseteq BaseRate, NEW s \in Seq(Forms), s # << >>
      PROVE  s[1] \in BaseRate
  BY <1>2
<1>3. CASE slab # {}
  <2>1. PICK i \in DOMAIN tariff[v].slabs : i = CHOOSE k \in slab : TRUE BY <1>3 DEF FindWeightSlab
  <2>2. tariff[v].slabs \in Seq(SlabForms) BY DEF TariffRow
  <2>3. tariff[v].slabs[i] \in SlabForms BY <2>1, <2>2
  <2>4. tariff[v].slabs[i].price \in Nat BY <2>3, PricingAssumption
  <2>5. QED BY <1>3, <2>1, <2>4 DEF computeFreight
<1>4. CASE slab = {} /\ FindZoneRate(v) # NoRate
  <2>1. FindZoneRate(v) \in Seq(RateForms) BY DEF FindZoneRate, TariffRow
  <2>2. RateForms \subseteq BaseRate BY PricingAssumption
  <2>3. FindZoneRate(v)[1] \in BaseRate BY <1>2, <1>4, <2>1, <2>2 DEF NoRate
  <2>4. QED BY <1>1, <1>4, <2>3 DEF computeFreight
<1>5. CASE slab = {} /\ FindZoneRate(v) = NoRate /\ stateRate # NoRate
  <2>1. StateRates \subseteq BaseRate BY PricingAssumption
  <2>2. stateRate[1] \in BaseRate BY <1>2, <1>5, <2>1 DEF NoRate
  <2>3. QED BY <1>1, <1>5, <2>2 DEF computeFreight
<1>6. CASE slab = {} /\ FindZoneRate(v) = NoRate /\ stateRate = NoRate
  BY <1>6 DEF computeFreight
<1>7. QED BY <1>3, <1>4, <1>5, <1>6

\* The sums of the surcharges: all of the premium is among them.
Sums == {s \in [taxable : Nat, exempt : Nat, premium : Nat, offers : Nat] :
            s.premium <= s.taxable + s.exempt}

LEMMA SurchargeAdded ==
    ASSUME NEW s \in Sums, NEW rule \in SurchargeForms, NEW freight \in Int, NEW parcel \in Parcels,
           NEW grams \in Nat
    PROVE  AddSurcharge(s, rule, freight, parcel, grams) \in Sums
<1> DEFINE running == freight + s.taxable + s.exempt
           basis == surchargeBasis(rule, freight, running, parcel)
           x == applyCalc(rule, basis, grams)
           amount == Clamp(x, rule.min, rule.max)
           insures == rule.type = "INSURANCE"
           r == [taxable |-> s.taxable + (IF rule.taxable THEN amount ELSE 0),
                 exempt |-> s.exempt + (IF rule.taxable THEN 0 ELSE amount),
                 premium |-> s.premium + (IF insures THEN amount ELSE 0),
                 offers |-> s.offers + (IF insures THEN 1 ELSE 0)]
<1>1. /\ s.taxable \in Nat /\ s.exempt \in Nat /\ s.premium \in Nat /\ s.offers \in Nat
      /\ s.premium <= s.taxable + s.exempt
  BY DEF Sums
<1>2. rule.value \in Nat /\ rule.min \in Nat /\ rule.max \in Nat /\ rule.taxable \in BOOLEAN
  BY PricingAssumption
<1>3. running \in Int BY <1>1
<1>4. AddSurcharge(s, rule, freight, parcel, grams) \in {s, r} BY DEF AddSurcharge
<1> HIDE DEF running
<1>5. basis \in Int
  <2>1. parcel.value \in Int /\ parcel.cod \in Int BY PricingAssumption
  <2>2. QED BY <1>3, <2>1 DEF surchargeBasis
<1> HIDE DEF basis
<1>6. x \in Int
  <2>1. ApplyBP(basis, rule.value) \in Int BY <1>2, <1>5, Percentage
  <2>2. Started(grams, 1000) \in Nat
    <3>1. 1000 \in Nat \ {0} OBVIOUS
    <3>2. QED BY <3>1, StepsStarted
  <2>3. ApplyPerUnit(rule.value, Started(grams, 1000)) \in Int BY <1>2, <2>2 DEF ApplyPerUnit
  <2>4. QED BY <1>2, <2>1, <2>3 DEF applyCalc
<1> HIDE DEF x
<1>7. amount \in Nat BY <1>2, <1>6 DEF Clamp
<1> HIDE DEF amount
<1>8. r \in Sums
  <2> DEFINE a == s.taxable + (IF rule.taxable THEN amount ELSE 0)
             b == s.exempt + (IF rule.taxable THEN 0 ELSE amount)
             p == s.premium + (IF insures THEN amount ELSE 0)
             o == s.offers + (IF insures THEN 1 ELSE 0)
  <2>1. a \in Nat /\ b \in Nat /\ p \in Nat /\ o \in Nat BY <1>1, <1>2, <1>7
  <2>2. p <= a + b BY <1>1, <1>2, <1>7
  <2>3. r = [taxable |-> a, exempt |-> b, premium |-> p, offers |-> o] OBVIOUS
  <2> HIDE DEF a, b, p, o, r
  <2>4. QED BY <2>1, <2>2, <2>3 DEF Sums
<1>9. QED BY <1>4, <1>8

LEMMA SurchargesKept ==
    ASSUME NEW v, tariff[v] \in TariffRow, NEW freight \in Int, NEW parcel \in Parcels, NEW grams \in Nat
    PROVE  computeSurcharges(v, freight, parcel, grams) \in Sums
<1> DEFINE rs == tariff[v].surcharges
           D == DOMAIN rs
           start == [taxable |-> 0, exempt |-> 0, premium |-> 0, offers |-> 0]
           add(s, rule) == AddSurcharge(s, rule, freight, parcel, grams)
           Loop(g) == g = [T \in SUBSET D |-> IF T = {} THEN start
                                              ELSE add(g[T \ {LastOf(rs, T)}], rs[LastOf(rs, T)])]
           c == [T \in SUBSET D |-> LastOf(rs, T)]
           h == [p \in D \X Sums |-> add(p[2], rs[p[1]])]
<1>1. computeSurcharges(v, freight, parcel, grams) = (CHOOSE g : Loop(g))[D]
  BY DEF computeSurcharges, InOrder, MapThenFoldSet, ListSurchargeRulesForVersion
<1>2. rs \in Seq(SurchargeForms) BY DEF TariffRow
<1>3. D = 1 .. Len(rs) /\ Len(rs) \in Nat /\ \A i \in D : rs[i] \in SurchargeForms
  <2>1. D = 1 .. Len(rs) /\ Len(rs) \in Nat /\ rs \in [1 .. Len(rs) -> SurchargeForms]
    BY <1>2, LenProperties
  <2>2. QED BY <2>1
<1>4. D \in SUBSET Nat /\ IsFiniteSet(D)
  <2>1. Len(rs) \in Int /\ 1 \in Int BY <1>3
  <2>2. QED BY <1>3, <2>1, FS_Interval
<1>5. \A i \in D : rs[i].priority \in Nat BY <1>3, PricingAssumption
<1> HIDE DEF rs, D
<1>6. \A T \in SUBSET D : T # {} => LastOf(rs, T) \in T BY <1>4, <1>5, LastIn
<1>7. \A T \in SUBSET D : c[T] = LastOf(rs, T) OBVIOUS
<1>8. start \in Sums BY DEF Sums
<1>9. \A i \in D, s \in Sums : add(s, rs[i]) \in Sums BY <1>3, SurchargeAdded
<1>10. \A i \in D, s \in Sums : h[<<i, s>>] = add(s, rs[i]) OBVIOUS
<1> HIDE DEF c, h, start, add
<1>11. \A T \in SUBSET D : T # {} => c[T] \in T BY <1>6, <1>7
<1>12. PICK g : Loops(g, h, c, start, D) BY <1>4, <1>11, LoopsExists
<1>13. \A T \in SUBSET D : g[T] \in Sums
  <2>1. g[{}] \in Sums BY <1>8, <1>12 DEF Loops
  <2>2. ASSUME NEW U \in SUBSET D, U # {}, g[U \ {c[U]}] \in Sums PROVE g[U] \in Sums
    <3>1. g[U] = h[<<c[U], g[U \ {c[U]}]>>] BY <1>12, <2>2 DEF Loops
    <3>2. c[U] \in D BY <1>11, <2>2
    <3>3. QED BY <1>9, <1>10, <2>2, <3>1, <3>2
  <2>3. QED BY <1>4, <1>11, <2>1, <2>2, LoopKeeps
<1>14. Loop(g)
  <2>1. ASSUME NEW T \in SUBSET D, T # {}
        PROVE  h[<<c[T], g[T \ {c[T]}]>>] = add(g[T \ {LastOf(rs, T)}], rs[LastOf(rs, T)])
    <3>1. c[T] = LastOf(rs, T) /\ c[T] \in D BY <1>7, <1>11, <2>1
    <3>2. g[T \ {c[T]}] \in Sums BY <1>13
    <3>3. QED BY <1>10, <3>1, <3>2
  <2>2. g = [T \in SUBSET D |-> IF T = {} THEN start ELSE h[<<c[T], g[T \ {c[T]}]>>]]
    BY <1>12 DEF Loops
  <2>3. QED BY <2>1, <2>2
<1>15. PICK k : k = CHOOSE x : Loop(x) OBVIOUS
<1>16. Loop(k) BY <1>14, <1>15
<1>17. \A T \in SUBSET D : k[T] \in Sums
  <2>1. k[{}] \in Sums BY <1>8, <1>16
  <2>2. ASSUME NEW U \in SUBSET D, U # {}, k[U \ {c[U]}] \in Sums PROVE k[U] \in Sums
    <3>1. k[U] = add(k[U \ {LastOf(rs, U)}], rs[LastOf(rs, U)]) BY <1>16, <2>2
    <3>2. c[U] = LastOf(rs, U) /\ c[U] \in D BY <1>7, <1>11, <2>2
    <3>3. QED BY <1>9, <2>2, <3>1, <3>2
  <2>3. QED BY <1>4, <1>11, <2>1, <2>2, LoopKeeps
<1>18. QED BY <1>1, <1>15, <1>17

\* What is discounted so far: never more than what may be.
Discounts(most) == {d \in [total : Int, ended : BOOLEAN] : d.total <= most}

LEMMA DiscountAdded ==
    ASSUME NEW freight \in Nat, NEW surcharges \in Nat, NEW d \in Discounts(freight + surcharges),
           NEW rule \in DiscountForms
    PROVE  AddDiscount(d, rule, freight, surcharges) \in Discounts(freight + surcharges)
<1> DEFINE most == freight + surcharges
           basis == IF rule.basis = "FREIGHT_PLUS_SURCHARGES" THEN freight + surcharges ELSE freight
           wanted == IF rule.calc = "PERCENTAGE" THEN ApplyBP(basis, rule.value) ELSE rule.value
           amount == Smaller(Smaller(wanted, rule.cap), basis - d.total)
           r == [total |-> d.total + amount, ended |-> ~rule.stackable]
<1>1. AddDiscount(d, rule, freight, surcharges) \in {d, r} BY DEF AddDiscount
<1>2. rule.value \in Nat /\ rule.cap \in Nat /\ rule.stackable \in BOOLEAN BY PricingAssumption
<1>3. most \in Int /\ basis \in Int /\ basis <= most OBVIOUS
<1>4. d.total \in Int BY DEF Discounts
<1> HIDE DEF most, basis
<1>5. wanted \in Int
  <2>1. ApplyBP(basis, rule.value) \in Int BY <1>2, <1>3, Percentage
  <2>2. QED BY <1>2, <2>1
<1> HIDE DEF wanted
<1>6. amount \in Int /\ amount <= basis - d.total BY <1>2, <1>3, <1>4, <1>5 DEF Smaller
<1> HIDE DEF amount
<1>7. d.total + amount \in Int /\ d.total + amount <= most BY <1>3, <1>4, <1>6
<1>8. r \in Discounts(most) BY <1>2, <1>7 DEF Discounts
<1>9. QED BY <1>1, <1>8 DEF most

LEMMA DiscountsBounded ==
    ASSUME NEW v, tariff[v] \in TariffRow, NEW freight \in Nat, NEW surcharges \in Nat
    PROVE  /\ computeDiscounts(v, freight, surcharges) \in Int
           /\ computeDiscounts(v, freight, surcharges) <= freight + surcharges
<1> DEFINE rs == tariff[v].discounts
           D == DOMAIN rs
           Good == Discounts(freight + surcharges)
           start == [total |-> 0, ended |-> FALSE]
           add(s, rule) == AddDiscount(s, rule, freight, surcharges)
           Loop(g) == g = [T \in SUBSET D |-> IF T = {} THEN start
                                              ELSE add(g[T \ {LastOf(rs, T)}], rs[LastOf(rs, T)])]
           c == [T \in SUBSET D |-> LastOf(rs, T)]
           h == [p \in D \X Good |-> add(p[2], rs[p[1]])]
<1>1. computeDiscounts(v, freight, surcharges) = (CHOOSE g : Loop(g))[D].total
  BY DEF computeDiscounts, InOrder, MapThenFoldSet, ListDiscountRulesForVersion
<1>2. rs \in Seq(DiscountForms) BY DEF TariffRow
<1>3. D = 1 .. Len(rs) /\ Len(rs) \in Nat /\ \A i \in D : rs[i] \in DiscountForms
  <2>1. D = 1 .. Len(rs) /\ Len(rs) \in Nat /\ rs \in [1 .. Len(rs) -> DiscountForms]
    BY <1>2, LenProperties
  <2>2. QED BY <2>1
<1>4. D \in SUBSET Nat /\ IsFiniteSet(D)
  <2>1. Len(rs) \in Int /\ 1 \in Int BY <1>3
  <2>2. QED BY <1>3, <2>1, FS_Interval
<1>5. \A i \in D : rs[i].priority \in Nat BY <1>3, PricingAssumption
<1> HIDE DEF rs, D
<1>6. \A T \in SUBSET D : T # {} => LastOf(rs, T) \in T BY <1>4, <1>5, LastIn
<1>7. \A T \in SUBSET D : c[T] = LastOf(rs, T) OBVIOUS
<1>8. start \in Good BY DEF Discounts
<1>9. \A i \in D, s \in Good : add(s, rs[i]) \in Good BY <1>3, DiscountAdded
<1>10. \A i \in D, s \in Good : h[<<i, s>>] = add(s, rs[i]) OBVIOUS
<1> HIDE DEF c, h, start, add, Good
<1>11. \A T \in SUBSET D : T # {} => c[T] \in T BY <1>6, <1>7
<1>12. PICK g : Loops(g, h, c, start, D) BY <1>4, <1>11, LoopsExists
<1>13. \A T \in SUBSET D : g[T] \in Good
  <2>1. g[{}] \in Good BY <1>8, <1>12 DEF Loops
  <2>2. ASSUME NEW U \in SUBSET D, U # {}, g[U \ {c[U]}] \in Good PROVE g[U] \in Good
    <3>1. g[U] = h[<<c[U], g[U \ {c[U]}]>>] BY <1>12, <2>2 DEF Loops
    <3>2. c[U] \in D BY <1>11, <2>2
    <3>3. QED BY <1>9, <1>10, <2>2, <3>1, <3>2
  <2>3. QED BY <1>4, <1>11, <2>1, <2>2, LoopKeeps
<1>14. Loop(g)
  <2>1. ASSUME NEW T \in SUBSET D, T # {}
        PROVE  h[<<c[T], g[T \ {c[T]}]>>] = add(g[T \ {LastOf(rs, T)}], rs[LastOf(rs, T)])
    <3>1. c[T] = LastOf(rs, T) /\ c[T] \in D BY <1>7, <1>11, <2>1
    <3>2. g[T \ {c[T]}] \in Good BY <1>13
    <3>3. QED BY <1>10, <3>1, <3>2
  <2>2. g = [T \in SUBSET D |-> IF T = {} THEN start ELSE h[<<c[T], g[T \ {c[T]}]>>]]
    BY <1>12 DEF Loops
  <2>3. QED BY <2>1, <2>2
<1>15. PICK k : k = CHOOSE x : Loop(x) OBVIOUS
<1>16. Loop(k) BY <1>14, <1>15
<1>17. \A T \in SUBSET D : k[T] \in Good
  <2>1. k[{}] \in Good BY <1>8, <1>16
  <2>2. ASSUME NEW U \in SUBSET D, U # {}, k[U \ {c[U]}] \in Good PROVE k[U] \in Good
    <3>1. k[U] = add(k[U \ {LastOf(rs, U)}], rs[LastOf(rs, U)]) BY <1>16, <2>2
    <3>2. c[U] = LastOf(rs, U) /\ c[U] \in D BY <1>7, <1>11, <2>2
    <3>3. QED BY <1>9, <2>2, <3>1, <3>2
  <2>3. QED BY <1>4, <1>11, <2>1, <2>2, LoopKeeps
<1>18. k[D] \in Discounts(freight + surcharges) BY <1>17 DEF Good
<1>19. QED BY <1>1, <1>15, <1>18 DEF Discounts

TaxRow == [form : TaxForms, active : BOOLEAN]

LEMMA TaxedNat ==
    ASSUME tax \in Seq(TaxRow), NEW n \in Nat
    PROVE  computeTax(n) \in Nat
<1> DEFINE D == ListApplicableTaxRules
           f == [i \in D |-> ApplyBP(n, tax[i].form.bp)]
<1>1. DOMAIN tax = 1 .. Len(tax) /\ Len(tax) \in Nat /\ tax \in [1 .. Len(tax) -> TaxRow]
  BY LenProperties
<1>2. IsFiniteSet(D)
  <2>1. Len(tax) \in Int /\ 1 \in Int BY <1>1
  <2>2. IsFiniteSet(DOMAIN tax) BY <1>1, <2>1, FS_Interval
  <2>3. D \subseteq DOMAIN tax BY DEF ListApplicableTaxRules
  <2>4. QED BY <2>2, <2>3, FS_Subset
<1>3. \A i \in D : tax[i].form.bp \in Nat
  <2>1. \A i \in D : tax[i] \in TaxRow BY <1>1 DEF ListApplicableTaxRules
  <2>2. QED BY <2>1, PricingAssumption DEF TaxRow
<1>4. \A i \in D : f[i] \in Nat
  <2>1. ASSUME NEW i \in D PROVE ApplyBP(n, tax[i].form.bp) \in Nat
    <3>1. PICK b \in Nat : b = tax[i].form.bp BY <1>3
    <3>2. n * b \in Nat OBVIOUS
    <3>3. PICK m \in Nat : m = n * b BY <3>2
    <3>4. 10000 \in Nat \ {0} /\ m \in Int OBVIOUS
    <3>5. DivRoundHalfUp(m, 10000) \in Nat BY <3>4, Divided
    <3>6. ApplyBP(n, b) = DivRoundHalfUp(m, 10000) BY <3>3 DEF ApplyBP
    <3>7. QED BY <3>1, <3>5, <3>6
  <2>2. QED BY <2>1
<1>5. computeTax(n) = SumFunctionOnSet(f, D) BY DEF computeTax, SumFunction
<1> HIDE DEF f, D
<1>6. QED BY <1>2, <1>4, <1>5, SumNat

LEMMA Charged ==
    ASSUME NEW f \in Int, NEW t \in Int, NEW e \in Int, NEW p \in Int, NEW g \in Int, g + p = t + e
    PROVE  f + t + e = (f + g) + p
  OBVIOUS

\* A quote charges what its lines say, and its premium in full.
LEMMA QuoteInFull ==
    ASSUME NEW v, tariff[v] \in TariffRow, stateRate \in Seq(StateRates), tax \in Seq(TaxRow),
           NEW parcel \in Parcels
    PROVE  LET q == priced(v, parcel)
           IN  q.total = (q.charges - q.discount) + q.taxed /\ q.discount <= q.charges - q.premium
<1> DEFINE rate == FindZoneRate(v)
           least == IF rate = NoRate THEN 0 ELSE rate[1].minimum
           grams == ComputeChargeableWeight(parcel.packages, least)
           freight == computeFreight(v, grams)
           sum == computeSurcharges(v, freight, parcel, grams)
           eligible == discountableSurcharges(sum)
           configured == computeDiscounts(v, freight, eligible)
           conceded == computeInquiryDiscount(parcel, freight + eligible, configured)
           discount == configured + conceded
           taxed == computeTax(Larger(freight + sum.taxable - discount, 0))
           charges == freight + sum.taxable + sum.exempt
           full == Larger(charges - discount + taxed, 0)
<1>1. priced(v, parcel) = IF freight < 0 \/ (parcel.insured /\ sum.offers = 0) THEN NoQuote
                          ELSE [charges |-> charges, discount |-> discount, premium |-> sum.premium,
                                taxed |-> taxed, total |-> full, version |-> v]
  BY DEF priced
<1>2. least \in Nat
  <2>1. rate \in Seq(RateForms) BY DEF FindZoneRate, TariffRow
  <2>2. RateForms \subseteq BaseRate BY PricingAssumption
  <2>3. rate # NoRate => rate[1] \in BaseRate BY <2>1, <2>2 DEF NoRate
  <2>4. rate # NoRate => rate[1].minimum \in Nat BY <2>3 DEF BaseRate
  <2>5. QED BY <2>4
<1> HIDE DEF least
<1>3. grams \in Nat
  <2>1. parcel.packages \in Seq([grams : Nat, mm3 : Nat]) BY PricingAssumption
  <2>2. QED BY <1>2, <2>1, WeightType
<1> HIDE DEF grams, rate
<1>4. freight \in Int BY <1>3, FreightType
<1> HIDE DEF freight
<1>5. sum \in Sums BY <1>3, <1>4, SurchargesKept
<1> HIDE DEF sum
<1>6. CASE freight < 0 \/ (parcel.insured /\ sum.offers = 0)
  <2>1. priced(v, parcel) = NoQuote BY <1>1, <1>6
  <2>2. QED BY <2>1 DEF NoQuote
<1>7. CASE ~(freight < 0 \/ (parcel.insured /\ sum.offers = 0))
  <2>1. freight \in Nat BY <1>4, <1>7
  <2>2. /\ sum.taxable \in Nat /\ sum.exempt \in Nat /\ sum.premium \in Nat
        /\ sum.premium <= sum.taxable + sum.exempt
    BY <1>5 DEF Sums
  <2>3. eligible \in Nat /\ eligible + sum.premium = sum.taxable + sum.exempt
    BY <2>2 DEF discountableSurcharges
  <2> HIDE DEF eligible
  <2>4. configured \in Int /\ configured <= freight + eligible BY <2>1, <2>3, DiscountsBounded
  <2> HIDE DEF configured
  <2>5. conceded \in Int /\ conceded <= (freight + eligible) - configured
    <3> DEFINE rest == Larger((freight + eligible) - configured, 0)
               given == parcel.concession
               x == CASE given.kind = "PERCENTAGE" -> ApplyBP(rest, given.value)
                      [] given.kind = "FIXED" -> given.value
                      [] OTHER -> 0
    <3>1. rest \in Nat /\ rest = (freight + eligible) - configured BY <2>1, <2>3, <2>4 DEF Larger
    <3>2. conceded = Clamp(x, 0, rest) BY DEF computeInquiryDiscount
    <3>3. x \in Int
      <4>1. given.value \in Nat BY PricingAssumption
      <4>2. rest \in Int BY <3>1
      <4> HIDE DEF rest, given
      <4>3. ApplyBP(rest, given.value) \in Int BY <4>1, <4>2, Percentage
      <4>4. QED BY <4>1, <4>3
    <3> HIDE DEF x, rest, conceded
    <3>4. QED BY <3>1, <3>2, <3>3 DEF Clamp
  <2> HIDE DEF conceded
  <2>6. discount \in Int /\ discount <= freight + eligible BY <2>1, <2>3, <2>4, <2>5
  <2> HIDE DEF discount
  <2>7. taxed \in Nat
    <3>1. Larger(freight + sum.taxable - discount, 0) \in Nat BY <2>1, <2>2, <2>6 DEF Larger
    <3>2. QED BY <3>1, TaxedNat
  <2> HIDE DEF taxed
  <2>8. charges \in Nat /\ discount <= charges - sum.premium
    <3>1. charges = (freight + eligible) + sum.premium
      <4>1. /\ freight \in Int /\ sum.taxable \in Int /\ sum.exempt \in Int /\ sum.premium \in Int
            /\ eligible \in Int /\ eligible + sum.premium = sum.taxable + sum.exempt
        BY <2>1, <2>2, <2>3
      <4> HIDE DEF full, charges
      <4>2. PICK t \in Int, e \in Int, p \in Int : t = sum.taxable /\ e = sum.exempt /\ p = sum.premium
        BY <4>1
      <4>3. PICK f \in Int, g \in Int : f = freight /\ g = eligible BY <4>1
      <4>4. g + p = t + e BY <4>1, <4>2, <4>3
      <4>5. f + t + e = (f + g) + p BY <4>4, Charged
      <4>6. charges = f + t + e BY <4>2, <4>3 DEF charges
      <4>7. QED BY <4>2, <4>3, <4>5, <4>6
    <3>2. charges \in Nat BY <2>1, <2>2
    <3> HIDE DEF charges
    <3>3. QED BY <2>1, <2>2, <2>3, <2>6, <3>1, <3>2
  <2> HIDE DEF charges
  <2>9. full = (charges - discount) + taxed BY <2>2, <2>6, <2>7, <2>8 DEF Larger
  <2> HIDE DEF full
  <2>10. priced(v, parcel) = [charges |-> charges, discount |-> discount, premium |-> sum.premium,
                              taxed |-> taxed, total |-> full, version |-> v]
    BY <1>1, <1>7
  <2>11. QED BY <2>8, <2>9, <2>10
<1>8. QED BY <1>6, <1>7


-----------------------------------------------------------------------------
(***************************************************************************)
(* The versions of a card form a chain: those that have been published     *)
(* follow one another, and the active one is the last.                     *)
(***************************************************************************)
Published(vs, c) == {k \in DOMAIN vs : vs[k].card = c /\ vs[k].activated}
Covers(vs, k, d) == vs[k].from <= d /\ d < vs[k].to

\* a is the only active version and starts after the others have ended;
\* every date from first to its start is covered once, no date before first.
OneByOne(vs, c, a, first) ==
    /\ a \in Published(vs, c) /\ vs[a].status = "ACTIVE"
    /\ first \in Dates /\ first <= vs[a].from
    /\ \A k \in Published(vs, c) \ {a} : vs[k].status # "ACTIVE" /\ vs[k].to <= vs[a].from
    /\ \A k \in Published(vs, c) : first <= vs[k].from
    /\ \A d \in Dates : first <= d /\ d < vs[a].from =>
          \E k \in Published(vs, c) : /\ Covers(vs, k, d)
                                      /\ \A j \in Published(vs, c) : Covers(vs, j, d) => j = k

InSuccession(vs, c) == Published(vs, c) # {} => \E a \in DOMAIN vs, first \in Dates : OneByOne(vs, c, a, first)

\* A DRAFT has not been published, the ACTIVE version has; none is empty.
RowsKept(vs) ==
    \A k \in DOMAIN vs : /\ vs[k].from < vs[k].to
                         /\ vs[k].status = "DRAFT" => ~vs[k].activated
                         /\ vs[k].status = "ACTIVE" => vs[k].activated

DatesInv == RowsKept(version) /\ \A c \in Cards : InSuccession(version, c)

LEMMA DateTypes == Dates \subseteq Int /\ 1 .. Forever \subseteq Int /\ Forever \in Nat
<1>1. Cardinality(Dates) \in Nat /\ Dates = 1 .. Cardinality(Dates)
  BY PricingAssumption, FS_CardinalityType
<1>2. Dates \subseteq Int
  <2> SUFFICES ASSUME NEW n \in Nat, Dates = 1 .. n PROVE Dates \subseteq Int BY <1>1
  <2> QED OBVIOUS
<1>3. QED BY <1>1, <1>2 DEF Forever

\* What is published of a card, and its dates, are all that matters.
LEMMA SuccessionKept ==
    ASSUME NEW c, NEW vs, NEW ws, DOMAIN vs \subseteq DOMAIN ws, InSuccession(vs, c),
           Published(ws, c) = Published(vs, c),
           \A k \in Published(vs, c) : /\ ws[k].from = vs[k].from /\ ws[k].to = vs[k].to
                                       /\ ws[k].status = "ACTIVE" <=> vs[k].status = "ACTIVE"
    PROVE  InSuccession(ws, c)
<1>1. SUFFICES ASSUME Published(vs, c) # {}
               PROVE  \E a \in DOMAIN ws, first \in Dates : OneByOne(ws, c, a, first)
  BY DEF InSuccession
<1>2. PICK a \in DOMAIN vs, first \in Dates : OneByOne(vs, c, a, first)
  BY <1>1 DEF InSuccession
<1>3. a \in Published(vs, c) BY <1>2 DEF OneByOne
<1>4. \A d : \A k \in Published(vs, c) : Covers(ws, k, d) <=> Covers(vs, k, d) BY DEF Covers
<1>5. OneByOne(ws, c, a, first) BY <1>2, <1>3, <1>4 DEF OneByOne
<1>6. QED BY <1>2, <1>5

\* An activation puts the draft at the end: the version it replaces ends where
\* the draft starts.
LEMMA SuccessionGrows ==
    ASSUME NEW vs, NEW c, NEW v \in DOMAIN vs, NEW ws, DOMAIN ws = DOMAIN vs,
           \A k \in DOMAIN vs : vs[k].from \in Dates /\ vs[k].to \in 1 .. Forever,
           RowsKept(vs), InSuccession(vs, c), vs[v].card = c, vs[v].status = "DRAFT",
           ws[v].from = vs[v].from, ws[v].to = vs[v].to, ws[v].card = c,
           ws[v].status = "ACTIVE", ws[v].activated,
           \A k \in DOMAIN vs \ {v} :
              /\ ws[k].card = vs[k].card /\ ws[k].from = vs[k].from
              /\ ws[k].activated <=> vs[k].activated
              /\ IF vs[k].card = c /\ vs[k].status = "ACTIVE"
                 THEN ws[k].status = "SUPERSEDED" /\ ws[k].to = vs[v].from /\ vs[k].from < vs[v].from
                 ELSE ws[k].status = vs[k].status /\ ws[k].to = vs[k].to
    PROVE  InSuccession(ws, c)
<1>1. v \notin Published(vs, c) BY DEF Published, RowsKept
<1>2. Published(ws, c) = Published(vs, c) \cup {v} BY DEF Published
<1>3. Dates \subseteq Int /\ \A k \in DOMAIN vs : vs[k].from \in Int /\ vs[k].to \in Int
  BY DateTypes
<1>4. CASE Published(vs, c) = {}
  <2>1. Published(ws, c) = {v} BY <1>2, <1>4
  <2>2. OneByOne(ws, c, v, vs[v].from) BY <1>3, <2>1 DEF OneByOne
  <2>3. QED BY <2>2 DEF InSuccession
<1>5. CASE Published(vs, c) # {}
  <2>1. PICK a \in DOMAIN vs, first \in Dates : OneByOne(vs, c, a, first)
    BY <1>5 DEF InSuccession
  <2>2. /\ a \in Published(vs, c) /\ vs[a].status = "ACTIVE" /\ vs[a].card = c /\ a # v
        /\ first <= vs[a].from
    BY <1>1, <2>1 DEF OneByOne, Published
  <2>3. /\ ws[a].from = vs[a].from /\ ws[a].to = vs[v].from /\ vs[a].from < vs[v].from
        /\ ws[a].status # "ACTIVE"
    BY <2>2
  <2>4. \A k \in Published(vs, c) \ {a} :
           /\ k \in DOMAIN vs /\ k # v /\ k # a
           /\ ws[k].from = vs[k].from /\ ws[k].to = vs[k].to /\ ws[k].status # "ACTIVE"
           /\ vs[k].to <= vs[a].from /\ first <= vs[k].from
    BY <1>1, <2>1, <2>2 DEF OneByOne, Published
  <2>5. \A k \in Published(ws, c) \ {v} : ws[k].status # "ACTIVE" /\ ws[k].to <= ws[v].from
    BY <1>2, <1>3, <2>2, <2>3, <2>4
  <2>6. \A k \in Published(ws, c) : first <= ws[k].from
    BY <1>2, <1>3, <2>2, <2>3, <2>4
  <2>7. ASSUME NEW d \in Dates, first <= d, d < ws[v].from
        PROVE  \E k \in Published(ws, c) : /\ Covers(ws, k, d)
                                           /\ \A j \in Published(ws, c) : Covers(ws, j, d) => j = k
    <3>1. ~ Covers(ws, v, d) BY <1>3, <2>7 DEF Covers
    <3>2. CASE d < vs[a].from
      <4>1. PICK k \in Published(vs, c) : /\ Covers(vs, k, d)
                                          /\ \A j \in Published(vs, c) : Covers(vs, j, d) => j = k
        BY <2>1, <2>7, <3>2 DEF OneByOne
      <4>2. ~ Covers(ws, a, d) /\ ~ Covers(vs, a, d) BY <1>3, <2>2, <2>3, <3>2 DEF Covers
      <4>3. \A j \in Published(vs, c) \ {a} : Covers(ws, j, d) <=> Covers(vs, j, d)
        BY <2>4 DEF Covers
      <4>4. QED BY <1>2, <3>1, <4>1, <4>2, <4>3
    <3>3. CASE vs[a].from <= d
      <4>1. Covers(ws, a, d) BY <2>3, <2>7, <3>3 DEF Covers
      <4>2. \A j \in Published(vs, c) \ {a} : ~ Covers(ws, j, d)
        BY <1>3, <2>2, <2>4, <3>3 DEF Covers
      <4>3. QED BY <1>2, <2>2, <3>1, <4>1, <4>2
    <3>4. QED BY <1>3, <2>2, <3>2, <3>3
  <2>8. first <= ws[v].from BY <1>3, <2>2, <2>3
  <2>9. OneByOne(ws, c, v, first) BY <1>2, <2>1, <2>5, <2>6, <2>7, <2>8 DEF OneByOne
  <2>10. QED BY <2>1, <2>9 DEF InSuccession
<1>6. QED BY <1>4, <1>5

\* Dates in succession are covered once.
LEMMA DatesCovered ==
    ASSUME DatesInv, \A k \in DOMAIN version : version[k].from \in Dates /\ version[k].to \in 1 .. Forever
    PROVE  DatesCoveredOnce
<1> SUFFICES ASSUME NEW c \in Cards, Published(version, c) # {}
    PROVE  LET published == Published(version, c)
               active == {v \in published : version[v].status = "ACTIVE"}
           IN  /\ Cardinality(active) = 1
               /\ \E first \in Dates : \A d \in Dates, v \in active :
                   Cardinality({k \in published : version[k].from <= d /\ d < version[k].to})
                     = IF first <= d /\ d < version[v].to THEN 1 ELSE 0
  BY DEF DatesCoveredOnce, Published
<1> DEFINE published == Published(version, c)
           active == {v \in published : version[v].status = "ACTIVE"}
           covering(d) == {k \in published : version[k].from <= d /\ d < version[k].to}
<1>1. PICK a \in DOMAIN version, first \in Dates : OneByOne(version, c, a, first)
  BY DEF DatesInv, InSuccession
<1>2. active = {a} BY <1>1 DEF OneByOne
<1>3. Dates \subseteq Int /\ \A k \in DOMAIN version : version[k].from \in Int /\ version[k].to \in Int
  BY DateTypes
<1>4. published \subseteq DOMAIN version /\ a \in published /\ first <= version[a].from
  BY <1>1 DEF OneByOne, Published
<1>5. \A k \in published \ {a} : version[k].to <= version[a].from BY <1>1 DEF OneByOne
<1>6. \A k \in published : first <= version[k].from BY <1>1 DEF OneByOne
<1>7. version[a].from < version[a].to BY DEF DatesInv, RowsKept
<1>8. ASSUME NEW d \in Dates
      PROVE  Cardinality(covering(d)) = IF first <= d /\ d < version[a].to THEN 1 ELSE 0
  <2>1. CASE ~ (first <= d /\ d < version[a].to)
    <3>1. covering(d) = {} BY <1>3, <1>4, <1>5, <1>6, <1>7, <2>1
    <3>2. QED BY <2>1, <3>1, FS_EmptySet
  <2>2. CASE first <= d /\ d < version[a].to
    <3>1. CASE d < version[a].from
      <4>1. PICK k \in published : /\ Covers(version, k, d)
                                   /\ \A j \in published : Covers(version, j, d) => j = k
        BY <1>1, <2>2, <3>1 DEF OneByOne
      <4>2. covering(d) = {k} BY <4>1 DEF Covers
      <4>3. QED BY <2>2, <4>2, FS_Singleton
    <3>2. CASE version[a].from <= d
      <4>1. covering(d) = {a} BY <1>3, <1>4, <1>5, <2>2, <3>2
      <4>2. QED BY <2>2, <4>1, FS_Singleton
    <3>3. QED BY <1>3, <1>4, <3>1, <3>2
  <2>3. QED BY <2>1, <2>2
<1>9. Cardinality(active) = 1 BY <1>2, FS_Singleton
<1>10. QED BY <1>2, <1>8, <1>9

-----------------------------------------------------------------------------
(***************************************************************************)
(* The inductive invariant of the price tables, action by action.          *)
(***************************************************************************)
PricingRows ==
    /\ version \in Seq(RateCardVersion) /\ tariff \in Seq(TariffRow) /\ Len(tariff) = Len(version)
    /\ tax \in Seq(TaxRow) /\ stateRate \in Seq(StateRates)

PricingInv == PricingRows /\ DatesInv /\ PricedInFull

LEMMA VersionTypes ==
    ASSUME PricingRows
    PROVE  /\ \A k \in DOMAIN version : /\ version[k] \in RateCardVersion
                                        /\ version[k].from \in Dates /\ version[k].to \in 1 .. Forever
           /\ DOMAIN tariff = DOMAIN version
<1>1. \A k \in DOMAIN version : version[k] \in RateCardVersion BY DEF PricingRows
<1>2. \A k \in DOMAIN version : version[k].from \in Dates /\ version[k].to \in 1 .. Forever
  BY <1>1 DEF RateCardVersion
<1>3. DOMAIN tariff = DOMAIN version BY DEF PricingRows
<1>4. QED BY <1>1, <1>2, <1>3

LEMMA PricingStart == PricingInit => PricingInv
<1> SUFFICES ASSUME PricingInit PROVE PricingInv OBVIOUS
<1>1. PricingRows BY DEF PricingInit, PricingRows, NoRate
<1>2. DOMAIN version = {} BY DEF PricingInit
<1>3. DatesInv BY <1>2 DEF DatesInv, RowsKept, InSuccession, Published
<1>4. PricedInFull BY DEF PricingInit, NoQuote, PricedInFull
<1>5. QED BY <1>1, <1>3, <1>4 DEF PricingInv

LEMMA PricingVersion ==
    ASSUME PricingInv, NEW c \in Cards, NEW from \in Dates, NEW to \in Dates \cup {Forever},
           createVersion(c, from, to)
    PROVE  PricingInv'
<1>1. PICK r : r = [card |-> c, status |-> "DRAFT", from |-> from, to |-> to, activated |-> FALSE]
  OBVIOUS
<1>2. version' = Append(version, r) /\ tariff' = Append(tariff, NoRows) /\ from < to
      /\ UNCHANGED <<tax, stateRate, quote>>
  BY <1>1 DEF createVersion, CreateRateCardVersion
<1>3. to \in 1 .. Forever
  <2>1. Cardinality(Dates) \in Nat /\ Dates = 1 .. Cardinality(Dates)
    BY PricingAssumption, FS_CardinalityType
  <2> SUFFICES ASSUME NEW n \in Nat, to \in (1 .. n) \cup {n + 1} PROVE to \in 1 .. (n + 1)
    BY <2>1 DEF Forever
  <2> QED OBVIOUS
<1>4. r \in RateCardVersion BY <1>1, <1>3 DEF RateCardVersion, VersionStatuses
<1>5. NoRows \in TariffRow BY DEF NoRows, TariffRow, NoRate
<1>6. version \in Seq(RateCardVersion) /\ tariff \in Seq(TariffRow) /\ Len(tariff) = Len(version)
  BY DEF PricingInv, PricingRows
<1>7. /\ version' \in Seq(RateCardVersion) /\ Len(version') = Len(version) + 1
      /\ DOMAIN version \subseteq DOMAIN version'
      /\ \A k \in DOMAIN version : version'[k] = version[k]
      /\ \A k \in DOMAIN version' : version'[k] = r \/ k \in DOMAIN version
  BY <1>2, <1>4, <1>6, SeqAdd
<1>8. tariff' \in Seq(TariffRow) /\ Len(tariff') = Len(tariff) + 1 BY <1>2, <1>5, <1>6, SeqAdd
<1>9. PricingRows' BY <1>2, <1>6, <1>7, <1>8 DEF PricingInv, PricingRows
<1>10. r.status = "DRAFT" /\ r.activated = FALSE /\ r.from < r.to BY <1>1, <1>2
<1>11. RowsKept(version') BY <1>7, <1>10 DEF PricingInv, DatesInv, RowsKept
<1>12. ASSUME NEW d \in Cards PROVE InSuccession(version', d)
  <2>1. Published(version', d) = Published(version, d) BY <1>7, <1>10 DEF Published
  <2>2. Published(version, d) \subseteq DOMAIN version BY DEF Published
  <2>3. InSuccession(version, d) BY DEF PricingInv, DatesInv
  <2>4. QED BY <1>7, <2>1, <2>2, <2>3, SuccessionKept
<1>13. PricedInFull' BY <1>2 DEF PricingInv, PricedInFull
<1>14. QED BY <1>9, <1>11, <1>12, <1>13 DEF PricingInv, DatesInv

LEMMA PricingEdit ==
    ASSUME PricingInv, NEW v \in DOMAIN version, editVersion(v)
    PROVE  PricingInv'
<1>1. UNCHANGED <<version, tax, stateRate, quote>> BY DEF editVersion
<1>2. /\ version \in Seq(RateCardVersion) /\ tariff \in Seq(TariffRow) /\ Len(tariff) = Len(version)
      /\ DOMAIN tariff = DOMAIN version
  BY VersionTypes DEF PricingInv, PricingRows
<1>3. tariff[v] \in TariffRow BY <1>2
<1>4. /\ tariff[v].rate \in Seq(RateForms) /\ tariff[v].slabs \in Seq(SlabForms)
      /\ tariff[v].surcharges \in Seq(SurchargeForms) /\ tariff[v].discounts \in Seq(DiscountForms)
  BY <1>3 DEF TariffRow
<1>5. \E t \in TariffRow : tariff' = [tariff EXCEPT ![v] = t]
  <2>1. CASE \E f \in RateForms : upsertZoneRate(v, f)
    <3>1. PICK f \in RateForms : tariff' = [tariff EXCEPT ![v].rate = <<f>>]
      BY <2>1 DEF upsertZoneRate, UpsertZoneRate
    <3>2. <<f>> \in Seq(RateForms) OBVIOUS
    <3>3. [tariff[v] EXCEPT !.rate = <<f>>] \in TariffRow BY <1>3, <3>2 DEF TariffRow
    <3>4. tariff' = [tariff EXCEPT ![v] = [tariff[v] EXCEPT !.rate = <<f>>]] BY <1>2, <3>1
    <3>5. QED BY <3>3, <3>4
  <2>2. CASE \E f \in SlabForms : createWeightSlab(v, f)
    <3>1. PICK f \in SlabForms : tariff' = [tariff EXCEPT ![v].slabs = Append(@, f)]
      BY <2>2 DEF createWeightSlab, CreateWeightSlab
    <3>2. PICK s : s = Append(tariff[v].slabs, f) OBVIOUS
    <3>3. s \in Seq(SlabForms) BY <1>4, <3>2
    <3>4. [tariff[v] EXCEPT !.slabs = s] \in TariffRow BY <1>3, <3>3 DEF TariffRow
    <3>5. tariff' = [tariff EXCEPT ![v] = [tariff[v] EXCEPT !.slabs = s]] BY <1>2, <3>1, <3>2
    <3>6. QED BY <3>4, <3>5
  <2>3. CASE \E f \in SurchargeForms : createSurcharge(v, f)
    <3>1. PICK f \in SurchargeForms : tariff' = [tariff EXCEPT ![v].surcharges = Append(@, f)]
      BY <2>3 DEF createSurcharge, CreateSurchargeRule
    <3>2. PICK s : s = Append(tariff[v].surcharges, f) OBVIOUS
    <3>3. s \in Seq(SurchargeForms) BY <1>4, <3>2
    <3>4. [tariff[v] EXCEPT !.surcharges = s] \in TariffRow BY <1>3, <3>3 DEF TariffRow
    <3>5. tariff' = [tariff EXCEPT ![v] = [tariff[v] EXCEPT !.surcharges = s]] BY <1>2, <3>1, <3>2
    <3>6. QED BY <3>4, <3>5
  <2>4. CASE \E f \in DiscountForms : createDiscount(v, f)
    <3>1. PICK f \in DiscountForms : tariff' = [tariff EXCEPT ![v].discounts = Append(@, f)]
      BY <2>4 DEF createDiscount, CreateDiscountRule
    <3>2. PICK s : s = Append(tariff[v].discounts, f) OBVIOUS
    <3>3. s \in Seq(DiscountForms) BY <1>4, <3>2
    <3>4. [tariff[v] EXCEPT !.discounts = s] \in TariffRow BY <1>3, <3>3 DEF TariffRow
    <3>5. tariff' = [tariff EXCEPT ![v] = [tariff[v] EXCEPT !.discounts = s]] BY <1>2, <3>1, <3>2
    <3>6. QED BY <3>4, <3>5
  <2>5. QED BY <2>1, <2>2, <2>3, <2>4 DEF editVersion
<1>6. PICK t \in TariffRow : tariff' = [tariff EXCEPT ![v] = t] BY <1>5
<1>7. tariff' \in Seq(TariffRow) /\ Len(tariff') = Len(tariff) BY <1>2, <1>6, SeqMark
<1>8. PricingRows' BY <1>1, <1>2, <1>7 DEF PricingInv, PricingRows
<1>9. DatesInv' BY <1>1 DEF PricingInv, DatesInv
<1>10. PricedInFull' BY <1>1 DEF PricingInv, PricedInFull
<1>11. QED BY <1>8, <1>9, <1>10 DEF PricingInv

\* A function over the places of a list is a list.
LEMMA MappedList ==
    ASSUME NEW S, NEW s \in Seq(S), NEW t, t = [k \in DOMAIN s |-> t[k]], \A k \in DOMAIN s : t[k] \in S
    PROVE  t \in Seq(S) /\ Len(t) = Len(s)
<1>1. Len(s) \in Nat /\ DOMAIN s = 1 .. Len(s) OBVIOUS
<1>2. t \in [1 .. Len(s) -> S] BY <1>1
<1>3. QED BY <1>1, <1>2

LEMMA PricingActivate ==
    ASSUME PricingInv, NEW v \in DOMAIN version, activateVersion(v)
    PROVE  PricingInv'
<1> DEFINE c == version[v].card
           vs == SupersedeActiveVersion(version, c, version[v].from)
<1>1. /\ version[v].status = "DRAFT" /\ VersionRange(vs) /\ version' = ActivateRateCardVersion(vs, v)
      /\ UNCHANGED <<tariff, tax, stateRate, quote>>
  BY DEF activateVersion, loadDraftVersion
<1>2. /\ version \in Seq(RateCardVersion) /\ tariff \in Seq(TariffRow) /\ Len(tariff) = Len(version)
      /\ \A k \in DOMAIN version : /\ version[k] \in RateCardVersion
                                   /\ version[k].from \in Dates /\ version[k].to \in 1 .. Forever
  BY VersionTypes DEF PricingInv, PricingRows
<1>3. /\ DOMAIN vs = DOMAIN version /\ vs = [k \in DOMAIN version |-> vs[k]]
      /\ \A k \in DOMAIN version :
            vs[k] = IF version[k].card = c /\ version[k].status = "ACTIVE"
                    THEN [version[k] EXCEPT !.status = "SUPERSEDED", !.to = version[v].from]
                    ELSE version[k]
  BY DEF SupersedeActiveVersion
<1> HIDE DEF vs
<1>4. \A k \in DOMAIN version : vs[k].from < vs[k].to
  <2>1. ASSUME NEW k \in DOMAIN version
        PROVE  vs[k].from \in Int /\ vs[k].to \in Int
    <3>1. version[k].from \in Int /\ version[k].to \in Int /\ version[v].from \in Int
      BY <1>2, DateTypes
    <3>2. /\ vs[k].from = version[k].from
          /\ vs[k].to = version[k].to \/ vs[k].to = version[v].from
      BY <1>2, <1>3 DEF RateCardVersion
    <3>3. QED BY <3>1, <3>2
  <2>2. QED BY <1>1, <1>3, <2>1 DEF VersionRange
<1>5. vs[v] = version[v] BY <1>1, <1>3
<1>6. /\ DOMAIN version' = DOMAIN version /\ version' = [k \in DOMAIN version |-> version'[k]]
      /\ version'[v] = [version[v] EXCEPT !.status = "ACTIVE", !.activated = TRUE]
      /\ \A k \in DOMAIN version \ {v} : version'[k] = vs[k]
  BY <1>1, <1>3, <1>5 DEF ActivateRateCardVersion
<1>7. /\ version'[v].from = version[v].from /\ version'[v].to = version[v].to /\ version'[v].card = c
      /\ version'[v].status = "ACTIVE" /\ version'[v].activated = TRUE
      /\ version'[v] \in RateCardVersion
  BY <1>2, <1>6 DEF RateCardVersion, VersionStatuses
<1>8. version[v].from \in 1 .. Forever
  <2>1. Cardinality(Dates) \in Nat /\ version[v].from \in 1 .. Cardinality(Dates)
    BY <1>2, PricingAssumption, FS_CardinalityType
  <2> SUFFICES ASSUME NEW n \in Nat, NEW d \in 1 .. n PROVE d \in 1 .. (n + 1)
    BY <2>1 DEF Forever
  <2> QED OBVIOUS
<1>9. ASSUME NEW k \in DOMAIN version \ {v}
      PROVE  /\ version'[k].card = version[k].card /\ version'[k].from = version[k].from
             /\ version'[k].activated <=> version[k].activated
             /\ IF version[k].card = c /\ version[k].status = "ACTIVE"
                THEN /\ version'[k].status = "SUPERSEDED" /\ version'[k].to = version[v].from
                     /\ version[k].from < version[v].from
                ELSE version'[k].status = version[k].status /\ version'[k].to = version[k].to
             /\ version'[k] \in RateCardVersion
  <2>1. CASE version[k].card = c /\ version[k].status = "ACTIVE"
    <3>1. version'[k] = [version[k] EXCEPT !.status = "SUPERSEDED", !.to = version[v].from]
      BY <1>3, <1>6, <2>1
    <3>2. version[k] \in RateCardVersion BY <1>2
    <3>3. /\ version'[k].card = version[k].card /\ version'[k].from = version[k].from
          /\ version'[k].activated = version[k].activated /\ version'[k].status = "SUPERSEDED"
          /\ version'[k].to = version[v].from /\ version'[k] \in RateCardVersion
      BY <1>8, <3>1, <3>2 DEF RateCardVersion, VersionStatuses
    <3>4. version[k].from < version[v].from BY <1>4, <1>6, <3>3
    <3>5. QED BY <2>1, <3>3, <3>4
  <2>2. CASE ~ (version[k].card = c /\ version[k].status = "ACTIVE")
    <3>1. version'[k] = version[k] BY <1>3, <1>6, <2>2
    <3>2. QED BY <1>2, <2>2, <3>1
  <2>3. QED BY <2>1, <2>2
<1>10. version' \in Seq(RateCardVersion) /\ Len(version') = Len(version)
  <2>1. \A k \in DOMAIN version : version'[k] \in RateCardVersion BY <1>7, <1>9
  <2>2. QED BY <1>2, <1>6, <2>1, MappedList
<1>11. PricingRows' BY <1>1, <1>2, <1>10 DEF PricingInv, PricingRows
<1>12. RowsKept(version) BY DEF PricingInv, DatesInv
<1>13. RowsKept(version')
  <2> SUFFICES ASSUME NEW k \in DOMAIN version
               PROVE  /\ version'[k].from < version'[k].to
                      /\ version'[k].status = "DRAFT" => ~version'[k].activated
                      /\ version'[k].status = "ACTIVE" => version'[k].activated
    BY <1>6 DEF RowsKept
  <2>1. CASE k = v BY <1>7, <1>12, <2>1 DEF RowsKept
  <2>2. CASE k # v
    <3>1. version'[k].from < version'[k].to BY <1>4, <1>6, <2>2
    <3>2. QED BY <1>9, <1>12, <2>2, <3>1 DEF RowsKept
  <2>3. QED BY <2>1, <2>2
<1>14. ASSUME NEW e \in Cards PROVE InSuccession(version', e)
  <2>1. InSuccession(version, e) BY DEF PricingInv, DatesInv
  <2>2. CASE e = c
    <3>1. InSuccession(version, c) BY <2>1, <2>2
    <3> HIDE DEF c
    <3>2. version[v].card = c BY DEF c
    <3>3. PICK w : w = version' OBVIOUS
    <3>4. /\ DOMAIN w = DOMAIN version
          /\ \A k \in DOMAIN version : version[k].from \in Dates /\ version[k].to \in 1 .. Forever
          /\ version[v].status = "DRAFT" /\ w[v].from = version[v].from /\ w[v].to = version[v].to
          /\ w[v].card = c /\ w[v].status = "ACTIVE" /\ w[v].activated
      BY <1>1, <1>2, <1>6, <1>7, <3>3
    <3>5. \A k \in DOMAIN version \ {v} :
             /\ w[k].card = version[k].card /\ w[k].from = version[k].from
             /\ w[k].activated <=> version[k].activated
             /\ IF version[k].card = c /\ version[k].status = "ACTIVE"
                THEN /\ w[k].status = "SUPERSEDED" /\ w[k].to = version[v].from
                     /\ version[k].from < version[v].from
                ELSE w[k].status = version[k].status /\ w[k].to = version[k].to
      BY <1>9, <3>3
    <3>6. InSuccession(w, c) BY <1>12, <3>1, <3>2, <3>4, <3>5, SuccessionGrows
    <3>7. QED BY <2>2, <3>3, <3>6
  <2>3. CASE e # c
    <3>1. v \notin Published(version, e) /\ v \notin Published(version', e)
      BY <1>7, <2>3 DEF Published
    <3>2. \A k \in DOMAIN version \ {v} : version[k].card = e =>
             /\ version'[k].card = e /\ version'[k].activated <=> version[k].activated
             /\ version'[k].from = version[k].from /\ version'[k].to = version[k].to
             /\ version'[k].status = version[k].status
      BY <1>9, <2>3
    <3>3. \A k \in DOMAIN version \ {v} : version'[k].card = e <=> version[k].card = e BY <1>9
    <3>4. Published(version', e) = Published(version, e) BY <1>6, <3>1, <3>2, <3>3 DEF Published
    <3>5. \A k \in Published(version, e) :
             /\ version'[k].from = version[k].from /\ version'[k].to = version[k].to
             /\ version'[k].status = "ACTIVE" <=> version[k].status = "ACTIVE"
      BY <3>1, <3>2 DEF Published
    <3>6. QED BY <1>6, <2>1, <3>4, <3>5, SuccessionKept
  <2>4. QED BY <2>2, <2>3
<1>15. PricedInFull' BY <1>1 DEF PricingInv, PricedInFull
<1>16. QED BY <1>11, <1>13, <1>14, <1>15 DEF PricingInv, DatesInv

LEMMA PricingArchive ==
    ASSUME PricingInv, NEW v \in DOMAIN version, archiveVersion(v)
    PROVE  PricingInv'
<1>1. RowsKept(version) BY DEF PricingInv, DatesInv
<1>2. /\ version[v].status = "SUPERSEDED" /\ version[v].activated
      /\ version' = [version EXCEPT ![v].status = "ARCHIVED"]
      /\ UNCHANGED <<tariff, tax, stateRate, quote>>
  BY <1>1 DEF archiveVersion, ArchiveRateCardVersion, RowsKept
<1>3. version \in Seq(RateCardVersion) /\ version[v] \in RateCardVersion
  BY VersionTypes DEF PricingInv, PricingRows
<1>4. PICK r : r = [version[v] EXCEPT !.status = "ARCHIVED"] OBVIOUS
<1>5. /\ r \in RateCardVersion /\ r.card = version[v].card /\ r.from = version[v].from
      /\ r.to = version[v].to /\ r.activated = version[v].activated /\ r.status = "ARCHIVED"
  BY <1>3, <1>4 DEF RateCardVersion, VersionStatuses
<1>6. version' = [version EXCEPT ![v] = r] BY <1>2, <1>4
<1>7. /\ version' \in Seq(RateCardVersion) /\ Len(version') = Len(version)
      /\ DOMAIN version' = DOMAIN version
      /\ \A k \in DOMAIN version : version'[k] = IF k = v THEN r ELSE version[k]
  BY <1>3, <1>5, <1>6, SeqMark
<1>8. PricingRows' BY <1>2, <1>7 DEF PricingInv, PricingRows
<1>9. RowsKept(version') BY <1>1, <1>5, <1>7 DEF RowsKept
<1>10. ASSUME NEW e \in Cards PROVE InSuccession(version', e)
  <2>1. InSuccession(version, e) BY DEF PricingInv, DatesInv
  <2>2. Published(version', e) = Published(version, e) BY <1>5, <1>7 DEF Published
  <2>3. \A k \in Published(version, e) :
           /\ version'[k].from = version[k].from /\ version'[k].to = version[k].to
           /\ version'[k].status = "ACTIVE" <=> version[k].status = "ACTIVE"
    BY <1>2, <1>5, <1>7 DEF Published
  <2>4. QED BY <1>7, <2>1, <2>2, <2>3, SuccessionKept
<1>11. PricedInFull' BY <1>2 DEF PricingInv, PricedInFull
<1>12. QED BY <1>8, <1>9, <1>10, <1>11 DEF PricingInv, DatesInv

LEMMA PricingTax ==
    ASSUME PricingInv, NEW i \in DOMAIN tax, deactivateTaxRule(i)
    PROVE  PricingInv'
<1>1. tax' = [tax EXCEPT ![i].active = FALSE] /\ UNCHANGED <<version, tariff, stateRate, quote>>
  BY DEF deactivateTaxRule, SetTaxRuleStatus
<1>2. tax \in Seq(TaxRow) /\ tax[i] \in TaxRow BY DEF PricingInv, PricingRows
<1>3. PICK r : r = [tax[i] EXCEPT !.active = FALSE] OBVIOUS
<1>4. r \in TaxRow /\ tax' = [tax EXCEPT ![i] = r] BY <1>1, <1>2, <1>3 DEF TaxRow
<1>5. tax' \in Seq(TaxRow) BY <1>2, <1>4, SeqMark
<1>6. PricingRows' BY <1>1, <1>5 DEF PricingInv, PricingRows
<1>7. QED BY <1>1, <1>6 DEF PricingInv, DatesInv, PricedInFull

\* The card that prices a booking: one of those found.
LEMMA CardResolved ==
    ASSUME NEW owners, NEW d
    PROVE  resolveRateCard(owners, d) = 0 \/ resolveRateCard(owners, d) \in DOMAIN version
<1> DEFINE found == ResolveRateCardForBooking(owners, d)
           ranks == {Rank(version[v].card) : v \in found}
<1>1. found \subseteq DOMAIN version BY DEF ResolveRateCardForBooking
<1> HIDE DEF found
<1>2. CASE found = {} BY <1>2 DEF resolveRateCard, found
<1>3. CASE found # {}
  <2>1. \A c : Rank(c) \in Nat BY DEF Rank
  <2>2. ranks \in SUBSET Nat /\ ranks # {} BY <1>3, <2>1
  <2>3. PICK m \in ranks : \A r \in ranks : m <= r BY <2>2, LeastNumber
  <2>4. \E v \in found : \A k \in found : Rank(version[v].card) <= Rank(version[k].card) BY <2>3
  <2>5. resolveRateCard(owners, d)
          = CHOOSE v \in found : \A k \in found : Rank(version[v].card) <= Rank(version[k].card)
    BY <1>3 DEF resolveRateCard, found
  <2>6. resolveRateCard(owners, d) \in found BY <2>4, <2>5
  <2>7. QED BY <1>1, <2>6
<1>4. QED BY <1>2, <1>3

LEMMA PricingQuote ==
    ASSUME PricingInv, NEW parcel \in Parcels, Quote(parcel)
    PROVE  PricingInv'
<1>1. PICK v : v = resolveRateCard(parcel.owners, today) OBVIOUS
<1>2. /\ quote' = NoQuote \/ (v # 0 /\ quote' = priced(v, parcel))
      /\ UNCHANGED <<version, tariff, tax, stateRate>>
  BY <1>1 DEF Quote
<1>3. v = 0 \/ v \in DOMAIN version BY <1>1, CardResolved
<1>4. PricedInFull'
  <2>1. CASE quote' = NoQuote
    <3>1. QED BY <2>1 DEF PricedInFull, NoQuote
  <2>2. CASE v # 0 /\ quote' = priced(v, parcel)
    <3>1. quote' = priced(v, parcel) BY <2>2
    <3>2. /\ tariff \in Seq(TariffRow) /\ v \in DOMAIN tariff
          /\ stateRate \in Seq(StateRates) /\ tax \in Seq(TaxRow)
      BY <1>3, <2>2, VersionTypes DEF PricingInv, PricingRows
    <3>3. tariff[v] \in TariffRow BY <3>2
    <3>4. LET q == priced(v, parcel)
          IN  q.total = (q.charges - q.discount) + q.taxed /\ q.discount <= q.charges - q.premium
      BY <3>2, <3>3, QuoteInFull
    <3>5. QED BY <3>1, <3>4 DEF PricedInFull
  <2>3. QED BY <1>2, <2>1, <2>2
<1>5. QED BY <1>2, <1>4 DEF PricingInv, PricingRows, DatesInv

LEMMA PricingSteps == PricingInv /\ [PricingNext]_pricingVars => PricingInv'
<1> SUFFICES ASSUME PricingInv, [PricingNext]_pricingVars PROVE PricingInv' OBVIOUS
<1>1. ASSUME UNCHANGED <<version, tariff, tax, stateRate, quote>> PROVE PricingInv'
  BY <1>1 DEF PricingInv, PricingRows, DatesInv, PricedInFull
<1>2. CASE \E c \in Cards : createRateCard(c) BY <1>1, <1>2 DEF createRateCard
<1>3. CASE \E c \in Cards, from \in Dates, to \in Dates \cup {Forever} : createVersion(c, from, to)
  BY <1>3, PricingVersion
<1>4. CASE \E v \in DOMAIN version : editVersion(v) \/ activateVersion(v) \/ archiveVersion(v)
  BY <1>4, PricingEdit, PricingActivate, PricingArchive
<1>5. CASE \E f \in TaxForms : createTaxRule(f)
  <2>1. PICK f \in TaxForms : /\ tax' = Append(tax, [form |-> f, active |-> TRUE])
                              /\ UNCHANGED <<version, tariff, stateRate, quote>>
    BY <1>5 DEF createTaxRule, CreateTaxRule
  <2>2. tax' \in Seq(TaxRow)
    <3>1. PICK r : r = [form |-> f, active |-> TRUE] OBVIOUS
    <3>2. r \in TaxRow BY <3>1 DEF TaxRow
    <3>3. QED BY <2>1, <3>1, <3>2 DEF PricingInv, PricingRows
  <2>3. QED BY <2>1, <2>2 DEF PricingInv, PricingRows, DatesInv, PricedInFull
<1>6. CASE \E i \in DOMAIN tax : deactivateTaxRule(i) BY <1>6, PricingTax
<1>7. CASE \E f \in StateRates : upsertStateBaseRate(f)
  <2>1. PICK f \in StateRates : stateRate' = <<f>> /\ UNCHANGED <<version, tariff, tax, quote>>
    BY <1>7 DEF upsertStateBaseRate
  <2>2. stateRate' \in Seq(StateRates) BY <2>1
  <2>3. QED BY <2>1, <2>2 DEF PricingInv, PricingRows, DatesInv, PricedInFull
<1>8. CASE \E parcel \in Parcels : Quote(parcel) BY <1>8, PricingQuote
<1>9. CASE NextDay BY <1>1, <1>9 DEF NextDay
<1>10. CASE UNCHANGED pricingVars BY <1>1, <1>10 DEF pricingVars
<1>11. QED BY <1>2, <1>3, <1>4, <1>5, <1>6, <1>7, <1>8, <1>9, <1>10 DEF PricingNext

\* The effective dates on record of a card's published versions never gap or
\* overlap, whatever versions are created, activated and archived and in
\* whichever order (activateVersion).
THEOREM DatesOnRecord == PricingSpec => []DatesCoveredOnce
<1>1. PricingInv => DatesCoveredOnce
  <2> SUFFICES ASSUME PricingInv PROVE DatesCoveredOnce OBVIOUS
  <2>1. \A k \in DOMAIN version : version[k].from \in Dates /\ version[k].to \in 1 .. Forever
    BY VersionTypes DEF PricingInv
  <2>2. QED BY <2>1, DatesCovered DEF PricingInv
<1>2. QED BY <1>1, PricingStart, PricingSteps, PTL DEF PricingSpec

\* Whatever rules, caps, stacking, concessions and taxes are configured, a quote
\* totals its lines and its discounts leave the premium alone: neither the floor
\* of the taxable amount nor that of the total hides anything (Quote).
THEOREM QuotesInFull == PricingSpec => []PricedInFull
<1>1. PricingInv => PricedInFull BY DEF PricingInv
<1>2. QED BY <1>1, PricingStart, PricingSteps, PTL DEF PricingSpec

\* The price tables keep the shapes their columns and checks give them
\* (db/migrations/0009_pricing.up.sql).
THEOREM PricesTypeCorrect == PricingSpec => []PricingRows
<1>1. PricingInv => PricingRows BY DEF PricingInv
<1>2. QED BY <1>1, PricingStart, PricingSteps, PTL DEF PricingSpec

=============================================================================
