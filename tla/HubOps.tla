------------------------------- MODULE HubOps -------------------------------
(***************************************************************************)
(* Hub operations (internal/hubops): a received bag or manifest is counted *)
(* against the declaration frozen when it was closed, by several clerks in *)
(* several scans, and every difference becomes an operational exception    *)
(* that somebody has to close.  Each operation is one transaction under    *)
(* the lock of the count's (or the exception's) row.                       *)
(*                                                                         *)
(* Left out: facilities and who is in scope, codes, severities, texts, the *)
(* workload summaries.  How a bag gets to RECEIVED is module Bagging.      *)
(***************************************************************************)
EXTENDS Integers, Sequences, FiniteSets

CONSTANTS
    Subjects,     \* bags and manifests that arrive at the hub
    BagSubjects,  \* those of them that are bags
    Declared,     \* Declared[x]: the barcodes of x's closure snapshot
    Barcodes,     \* whatever a scanner can read
    Known,        \* the barcodes ResolveScanBarcode finds a shipment for
    Counts,       \* reconciliations that may be started
    MaxExceptions \* bound: exceptions raised

ASSUME HubAssumption ==
    /\ Declared \in [Subjects -> SUBSET Barcodes]
    /\ BagSubjects \subseteq Subjects /\ Known \subseteq Barcodes
    /\ IsFiniteSet(Barcodes) /\ MaxExceptions \in Nat

VARIABLES
    subject,   \* subject[x]: bags.status or manifests.status
    count,     \* count[r]: the reconciliations row
    line,      \* line[r][c]: the reconciliation_items row of barcode c
    exc        \* operational_exceptions, in the order they were raised

SubjectStatuses == {"RECEIVED", "OPENED", "RECONCILED"}
Outcomes == {"EXPECTED", "MATCHED", "MISSING", "EXCESS", "DAMAGED"}
Finished == {"COMPLETED", "COMPLETED_WITH_EXCEPTIONS"}
Closed == {"RESOLVED", "WRITTEN_OFF", "CANCELLED"}
NoSubject == "no subject"

ReconciliationRow ==
    [status : {"NONE", "IN_PROGRESS"} \cup Finished, of : Subjects \cup {NoSubject},
     matched : Nat, missing : Nat, excess : Nat, damaged : Nat]
ItemRow == [outcome : {"NONE"} \cup Outcomes, declared : BOOLEAN, scanned : BOOLEAN]
ExceptionRow ==
    [type : {"MISSING", "EXCESS", "UNKNOWN_BARCODE", "DAMAGED", "OTHER"},
     of : Counts \cup {NoSubject}, barcode : Barcodes,
     status : {"OPEN", "INVESTIGATING"} \cup Closed, explained : BOOLEAN]

NoItem == [outcome |-> "NONE", declared |-> FALSE, scanned |-> FALSE]

HubInit ==
    /\ subject = [x \in Subjects |-> "RECEIVED"]
    /\ count = [r \in Counts |-> [status |-> "NONE", of |-> NoSubject, matched |-> 0,
                                  missing |-> 0, excess |-> 0, damaged |-> 0]]
    /\ line = [r \in Counts |-> [c \in Barcodes |-> NoItem]]
    /\ exc = << >>

hubVars == <<subject, count, line, exc>>

-----------------------------------------------------------------------------
(***************************************************************************)
(* The statements.  Those that a transaction runs one after another on the *)
(* same rows are functions of the rows.                                    *)
(***************************************************************************)
LockReconciliationForUpdate(r) == count[r].status = "IN_PROGRESS"

\* reconciliations_active_bag_idx and reconciliations_active_manifest_idx.
CreateReconciliation(r, x) ==
    /\ count[r].status = "NONE"
    /\ ~\E k \in Counts : count[k].status = "IN_PROGRESS" /\ count[k].of = x
    /\ count' = [count EXCEPT ![r].status = "IN_PROGRESS", ![r].of = x]

CreateReconciliationItem(rows, c, outcome, declared) ==
    [rows EXCEPT ![c] = [outcome |-> outcome, declared |-> declared, scanned |-> FALSE]]

\* Any row with the barcode, whatever its outcome is.
MarkReconciliationItemScanned(rows, c, outcome) ==
    [rows EXCEPT ![c].outcome = outcome, ![c].scanned = TRUE]

\* Mutant: an item somebody scanned is missing too.
MarkAllItemsMissing(rows) ==
    [c \in Barcodes |-> IF rows[c].declared THEN [rows[c] EXCEPT !.outcome = "MISSING"]
                                            ELSE rows[c]]

MarkUnscannedItemsMissing(rows) ==
    [c \in Barcodes |-> IF rows[c].outcome = "EXPECTED" /\ ~rows[c].scanned
                        THEN [rows[c] EXCEPT !.outcome = "MISSING"] ELSE rows[c]]

ListReconciliationItems(rows, outcome) == {c \in Barcodes : rows[c].outcome = outcome}

RecalculateReconciliationCounters(row, rows) ==
    LET N(outcome) == Cardinality(ListReconciliationItems(rows, outcome))
    IN  [row EXCEPT !.matched = N("MATCHED"), !.missing = N("MISSING"),
                    !.excess = N("EXCESS"), !.damaged = N("DAMAGED")]

CompleteReconciliation(row, status) == [row EXCEPT !.status = status]

CreateOperationalException(type, r, c) ==
    [type |-> type, of |-> r, barcode |-> c, status |-> "OPEN", explained |-> FALSE]

LockExceptionForUpdate(i) == exc[i].status \notin Closed

UpdateExceptionStatus(i, to, explained) ==
    exc' = [exc EXCEPT ![i].status = to, ![i].explained = @ \/ explained]

-----------------------------------------------------------------------------
(***************************************************************************)
(* The count.                                                              *)
(***************************************************************************)

\* The expected list is the closure snapshot at this moment.
declaredItems(x) ==
    [c \in Barcodes |-> IF c \in Declared[x]
                        THEN [outcome |-> "EXPECTED", declared |-> TRUE, scanned |-> FALSE]
                        ELSE NoItem]

\* A bag is RECEIVED or OPENED, a manifest RECEIVED, when it is counted.
Countable(x) == subject[x] = "RECEIVED" \/ (x \in BagSubjects /\ subject[x] = "OPENED")

StartReconciliation(r, x) ==
    /\ Countable(x)
    /\ CreateReconciliation(r, x)
    /\ line' = [line EXCEPT ![r] = declaredItems(x)]
    /\ UNCHANGED <<subject, exc>>

exceptionTypeFor(c) == IF c \in Known THEN "EXCESS" ELSE "UNKNOWN_BARCODE"

\* A barcode without a row is an excess item, with its exception.
recordExcess(r, c) ==
    /\ line' = [line EXCEPT ![r] = CreateReconciliationItem(@, c, "EXCESS", FALSE)]
    /\ exc' = Append(exc, CreateOperationalException(exceptionTypeFor(c), r, c))

raiseItemException(r, c, type) == Append(exc, CreateOperationalException(type, r, c))

\* One barcode of Scan; the barcodes of a request are scanned one after another
\* under the count's lock, each the same way.
Scan(r, c, damaged) ==
    /\ LockReconciliationForUpdate(r)
    /\ IF line[r][c].outcome = "NONE"
       THEN recordExcess(r, c)
       ELSE /\ line' = [line EXCEPT ![r] = MarkReconciliationItemScanned(@, c,
                                       IF damaged THEN "DAMAGED" ELSE "MATCHED")]
            /\ exc' = IF damaged THEN raiseItemException(r, c, "DAMAGED") ELSE exc
    /\ Len(exc') <= MaxExceptions
    /\ count' = [count EXCEPT ![r] = RecalculateReconciliationCounters(@, line'[r])]
    /\ UNCHANGED subject

\* One exception for each shortage, in any order of the rows.
Shortages(r, missing) ==
    {es \in [1 .. Cardinality(missing) -> [type : {"MISSING"}, of : {r}, barcode : missing,
                                           status : {"OPEN"}, explained : {FALSE}]] :
        {es[i].barcode : i \in DOMAIN es} = missing}

\* A subject that is anything else by now keeps its status.
reconciledSubject(x) == IF Countable(x) THEN [subject EXCEPT ![x] = "RECONCILED"] ELSE subject

Complete(r) ==
    LET rows == MarkUnscannedItemsMissing(line[r])
        counted == RecalculateReconciliationCounters(count[r], rows)
        missing == ListReconciliationItems(rows, "MISSING")
        status == IF counted.missing > 0 \/ counted.excess > 0 \/ counted.damaged > 0
                  THEN "COMPLETED_WITH_EXCEPTIONS" ELSE "COMPLETED"
    IN  /\ LockReconciliationForUpdate(r)
        /\ line' = [line EXCEPT ![r] = rows]
        /\ \E es \in Shortages(r, missing) : exc' = exc \o es
        /\ count' = [count EXCEPT ![r] = CompleteReconciliation(counted, status)]
        /\ subject' = reconciledSubject(count[r].of)

\* Meanwhile a clerk opens the bag (internal/bagging).
OpenSubject(x) ==
    /\ x \in BagSubjects /\ subject[x] = "RECEIVED"
    /\ subject' = [subject EXCEPT ![x] = "OPENED"]
    /\ UNCHANGED <<count, line, exc>>

-----------------------------------------------------------------------------
(***************************************************************************)
(* Exceptions.                                                             *)
(***************************************************************************)
Raise(c) ==
    /\ Len(exc) < MaxExceptions
    /\ exc' = Append(exc, CreateOperationalException("OTHER", NoSubject, c))
    /\ UNCHANGED <<subject, count, line>>

\* RESOLVED and WRITTEN_OFF need an action and a note; CANCELLED does not.
ResolveException(i, to, explained) ==
    /\ i \in DOMAIN exc
    /\ LockExceptionForUpdate(i)
    /\ to \in {"RESOLVED", "WRITTEN_OFF"} => explained
    /\ UpdateExceptionStatus(i, to, explained)
    /\ UNCHANGED <<subject, count, line>>

-----------------------------------------------------------------------------
(***************************************************************************)
(* What the count promises.                                                *)
(***************************************************************************)

HubNext ==
    \/ \E r \in Counts, x \in Subjects : StartReconciliation(r, x)
    \/ \E r \in Counts, c \in Barcodes, damaged \in BOOLEAN : Scan(r, c, damaged)
    \/ \E r \in Counts : Complete(r)
    \/ \E x \in Subjects : OpenSubject(x)
    \/ \E c \in Barcodes : Raise(c)
    \/ \E i \in DOMAIN exc, to \in {"INVESTIGATING"} \cup Closed, explained \in BOOLEAN :
          ResolveException(i, to, explained)

HubSpec == HubInit /\ [][HubNext]_hubVars

\* The type invariant of the counts.
HubTypeOK ==
    /\ subject \in [Subjects -> SubjectStatuses]
    /\ count \in [Counts -> ReconciliationRow]
    /\ line \in [Counts -> [Barcodes -> ItemRow]]
    /\ exc \in Seq(ExceptionRow)

Owned(r, c, types) ==
    \E i \in DOMAIN exc : exc[i].of = r /\ exc[i].barcode = c /\ exc[i].type \in types

\* "A shortage without an owner is how parcels quietly disappear from a network,
\* so the workflow refuses to let the count close silently" (Complete): in a
\* finished count every declared barcode was scanned by somebody or has a
\* shortage that somebody must close, everything else that was scanned has an
\* exception too, and a count without a shortage found all of the declaration.
DifferencesOwned ==
    \A r \in Counts : count[r].status \in Finished =>
        \A c \in Barcodes :
            /\ c \in Declared[count[r].of] =>
                 (line[r][c].scanned # Owned(r, c, {"MISSING"}))
            /\ c \notin Declared[count[r].of] =>
                 (line[r][c].outcome # "NONE") = Owned(r, c, {"EXCESS", "UNKNOWN_BARCODE"})
            /\ count[r].status = "COMPLETED" /\ c \in Declared[count[r].of] =>
                 line[r][c].scanned

=============================================================================
