------------------------------ MODULE Geography -----------------------------
(***************************************************************************)
(* Geography (internal/geography): PIN codes, a tenant's pricing zones and *)
(* the mapping between them, the cache in front of both, and the bulk      *)
(* import that fills them from staged rows, batch by batch, in a job that  *)
(* may die and be tried again.                                             *)
(*                                                                         *)
(* Left out: states, districts, cities and localities as rows of their own *)
(* (the import writes them with the PIN code they belong to), effective    *)
(* dates of mappings, the cache's expiry, several countries and tenants.   *)
(***************************************************************************)
EXTENDS Integers, Sequences, FiniteSets

CONSTANTS
    Pins, Zones,
    Imports,         \* uploads
    ImportType,      \* ImportType[i]: "PINCODE" or "ZONE_MAPPING"
    FileRows,        \* FileRows[i]: the records of the CSV: pin, zone, remote, valid
    StagingBatch,    \* stagingBatchSize
    BatchSize,       \* processBatchSize
    MaxAttempts,     \* of the import's job in the queue
    Handlers,        \* goroutines of the workers
    Readers          \* requests that look something up

NoZone == "no zone"
Absent == "absent"

ImportRecord == [pin : Pins, zone : Zones, remote : BOOLEAN, valid : BOOLEAN]

ASSUME GeographyAssumption ==
    /\ ImportType \in [Imports -> {"PINCODE", "ZONE_MAPPING"}]
    /\ \A i \in Imports : FileRows[i] \in Seq(ImportRecord)
    /\ StagingBatch \in Nat \ {0} /\ BatchSize \in Nat \ {0} /\ MaxAttempts \in Nat

VARIABLES
    pin,        \* pin[p]: status and is_remote
    zone,       \* zone[z]: status
    mapping,    \* mapping[p]: the ACTIVE zone of p
    cached,     \* cached[p]: the cached zone of p, and the cached status
    reader,     \* reader[r]: a lookup between its read and its fill
    job,        \* job[i]: the import_jobs row, its upload and its attempts
    rows,       \* rows[i]: the import_rows, in order
    walk,       \* walk[h]: what handler h works on, and how far it is
    overlapped  \* history: imports that have had two handlers at once

ImportStatuses == {"NONE", "PENDING", "PROCESSING", "COMPLETED", "COMPLETED_WITH_ERRORS",
                   "FAILED"}
\* The request that uploads the file: rows going in, all in, counted, over.
UploadSteps == {"none", "staging", "staged", "counted", "over"}
ImportJobRow == [status : ImportStatuses, upload : UploadSteps, queued : BOOLEAN,
                 attempts : Nat, total : Nat, processed : Nat, success : Nat, failed : Nat]
ImportRowStatus == {"PENDING", "SUCCEEDED", "FAILED"}
PincodeRow == [status : {"NONE", "ACTIVE", "INACTIVE"}, remote : BOOLEAN]
NoEntry == [zone |-> Absent, status |-> Absent]
Idle == [pin |-> Absent, what |-> "none", value |-> Absent]
NotRunning == [step |-> "idle", import |-> Absent, cursor |-> 0, failed |-> 0, batch |-> {}]

GeographyInit ==
    /\ pin = [p \in Pins |-> [status |-> "NONE", remote |-> FALSE]]
    /\ zone = [z \in Zones |-> "NONE"]
    /\ mapping = [p \in Pins |-> NoZone]
    /\ cached = [p \in Pins |-> NoEntry]
    /\ reader = [r \in Readers |-> Idle]
    /\ job = [i \in Imports |-> [status |-> "NONE", upload |-> "none", queued |-> FALSE,
                                 attempts |-> 0, total |-> 0, processed |-> 0, success |-> 0, failed |-> 0]]
    /\ rows = [i \in Imports |-> << >>]
    /\ walk = [h \in Handlers |-> NotRunning]
    /\ overlapped = {}

geographyVars == <<pin, zone, mapping, cached, reader, job, rows, walk, overlapped>>
tables == <<pin, zone, mapping>>
import == <<job, rows, walk, overlapped>>

-----------------------------------------------------------------------------
(***************************************************************************)
(* The statements and the cache.                                           *)
(***************************************************************************)
LookupPincodeRow(p) == pin[p].status # "NONE"
GetZoneByCode(z) == zone[z] # "NONE"

\* Whatever the zone's own status is.
ResolveZoneForPincode(p) == mapping[p]

UpsertPincode(pins, p, remote) ==
    [pins EXCEPT ![p] = [status |-> "ACTIVE", remote |-> remote]]

SetPincodeStatus(p, to) == pin' = [pin EXCEPT ![p].status = to]
CreateZone(z) == zone[z] = "NONE" /\ zone' = [zone EXCEPT ![z] = "ACTIVE"]
UpdateZone(z, to) == GetZoneByCode(z) /\ zone' = [zone EXCEPT ![z] = to]
UpsertPincodeZoneMapping(maps, p, z) == [maps EXCEPT ![p] = z]

DeactivatePincodeZoneMapping(p) ==
    /\ mapping[p] # NoZone
    /\ mapping' = [mapping EXCEPT ![p] = NoZone]

CountZoneReferences(z) == Cardinality({p \in Pins : mapping[p] = z})

InvalidatePincode(p) == [cached EXCEPT ![p].status = Absent]
InvalidateZoneMapping(p) == [cached EXCEPT ![p].zone = Absent]
InvalidateOrganizationZones == [p \in Pins |-> [cached[p] EXCEPT !.zone = Absent]]
InvalidatePincodes == [p \in Pins |-> [cached[p] EXCEPT !.status = Absent]]

-----------------------------------------------------------------------------
(***************************************************************************)
(* Lookups: a miss reads the row, and fills the cache later.               *)
(***************************************************************************)
LookupPincode(r, p) ==
    /\ reader[r] = Idle
    /\ cached[p].status = Absent /\ LookupPincodeRow(p)
    /\ reader' = [reader EXCEPT ![r] = [pin |-> p, what |-> "status", value |-> pin[p].status]]
    /\ UNCHANGED <<tables, cached, import>>

ResolveZone(r, p) ==
    /\ reader[r] = Idle
    /\ cached[p].zone = Absent /\ ResolveZoneForPincode(p) # NoZone
    /\ reader' = [reader EXCEPT ![r] = [pin |-> p, what |-> "zone",
                                        value |-> ResolveZoneForPincode(p)]]
    /\ UNCHANGED <<tables, cached, import>>

SetJSON(r) ==
    LET l == reader[r] IN
    /\ l # Idle
    /\ cached' = IF l.what = "zone" THEN [cached EXCEPT ![l.pin].zone = l.value]
                                    ELSE [cached EXCEPT ![l.pin].status = l.value]
    /\ reader' = [reader EXCEPT ![r] = Idle]
    /\ UNCHANGED <<tables, import>>

\* What a booking is told: the cached status if there is one.
RequireActivePincode(p) ==
    LET status == IF cached[p].status = Absent THEN pin[p].status ELSE cached[p].status
    IN  status = "ACTIVE"

-----------------------------------------------------------------------------
(***************************************************************************)
(* Administration.  The statement, then the key.                           *)
(***************************************************************************)
setPincodeStatus(p, to) ==
    /\ LookupPincodeRow(p)
    /\ SetPincodeStatus(p, to)
    /\ cached' = InvalidatePincode(p)
    /\ UNCHANGED <<zone, mapping, reader, import>>

createZone(z) ==
    /\ CreateZone(z)
    /\ UNCHANGED <<pin, mapping, cached, reader, import>>

updateZone(z, to) ==
    /\ UpdateZone(z, to)
    /\ cached' = InvalidateOrganizationZones
    /\ UNCHANGED <<pin, mapping, reader, import>>

upsertZoneMapping(p, z) ==
    /\ LookupPincodeRow(p) /\ zone[z] = "ACTIVE"
    /\ mapping' = UpsertPincodeZoneMapping(mapping, p, z)
    /\ cached' = InvalidateZoneMapping(p)
    /\ UNCHANGED <<pin, zone, reader, import>>

deleteZoneMapping(p) ==
    /\ DeactivatePincodeZoneMapping(p)
    /\ cached' = InvalidateOrganizationZones
    /\ UNCHANGED <<pin, zone, reader, import>>

-----------------------------------------------------------------------------
(***************************************************************************)
(* The import: upload and staging, in the steps of one request.            *)
(***************************************************************************)
CreateImportJob(i) ==
    /\ job[i].status = "NONE"
    /\ job' = [job EXCEPT ![i].status = "PENDING", ![i].upload = "staging"]

\* One COPY: the rows of the file up to the end of the next batch.
Staged(i) ==
    IF Len(rows[i]) + StagingBatch < Len(FileRows[i]) THEN Len(rows[i]) + StagingBatch
                                                      ELSE Len(FileRows[i])
InsertImportRows(i) == rows' = [rows EXCEPT ![i] = [n \in 1 .. Staged(i) |-> "PENDING"]]

SetImportJobTotals(i) ==
    job' = [job EXCEPT ![i].total = Len(FileRows[i]), ![i].upload = "counted"]
FinishImportJob(row, status) == [row EXCEPT !.status = status]

upload(i) ==
    /\ CreateImportJob(i)
    /\ UNCHANGED <<tables, cached, reader, rows, walk, overlapped>>

stage(i) ==
    /\ job[i].upload = "staging" /\ FileRows[i] # << >>
    /\ InsertImportRows(i)
    /\ job' = IF Staged(i) = Len(FileRows[i]) THEN [job EXCEPT ![i].upload = "staged"] ELSE job
    /\ UNCHANGED <<tables, cached, reader, walk, overlapped>>

setTotals(i) ==
    /\ job[i].upload = "staged"
    /\ SetImportJobTotals(i)
    /\ UNCHANGED <<tables, cached, reader, rows, walk, overlapped>>

enqueue(i) ==
    /\ job[i].upload = "counted"
    /\ job' = [job EXCEPT ![i].queued = TRUE, ![i].upload = "over"]
    /\ UNCHANGED <<tables, cached, reader, rows, walk, overlapped>>

\* The rest of the file cannot be read or staged, or the queue refuses the job.
failJob(i) ==
    /\ job[i].upload \in {"staging", "counted"}
    /\ job' = [job EXCEPT ![i] = [FinishImportJob(@, "FAILED") EXCEPT !.upload = "over"]]
    /\ UNCHANGED <<tables, cached, reader, rows, walk, overlapped>>

\* The request ends between two statements, or SetImportJobTotals fails: the
\* row stays PENDING and nothing takes it up again.
uploadDies(i) ==
    /\ job[i].upload \in {"staging", "staged", "counted"}
    /\ job' = [job EXCEPT ![i].upload = "over"]
    /\ UNCHANGED <<tables, cached, reader, rows, walk, overlapped>>

-----------------------------------------------------------------------------
(***************************************************************************)
(* The import: the worker's handler.  Nothing keeps two handlers off one   *)
(* import: the queue hands a job out again once its lock is older than     *)
(* StuckAfter (module Jobs), whether its handler lives or not.             *)
(***************************************************************************)
On(h, step) == walk[h].step = step
Busy(i) == {h \in Handlers : ~On(h, "idle") /\ walk[h].import = i}

\* The handler is called, and reads the import's row.
Process(h, i) ==
    /\ On(h, "idle") /\ job[i].queued /\ job[i].attempts < MaxAttempts
    /\ job[i].status \notin {"COMPLETED", "COMPLETED_WITH_ERRORS"}
    /\ job' = [job EXCEPT ![i].attempts = @ + 1]
    /\ walk' = [walk EXCEPT ![h] = [NotRunning EXCEPT !.step = "read", !.import = i]]
    /\ overlapped' = IF Busy(i) = {} THEN overlapped ELSE overlapped \cup {i}
    /\ UNCHANGED <<tables, cached, reader, rows>>

StartImportJob(h) ==
    /\ On(h, "read")
    /\ job' = [job EXCEPT ![walk[h].import].status = "PROCESSING"]
    /\ walk' = [walk EXCEPT ![h].step = "claim"]
    /\ UNCHANGED <<tables, cached, reader, rows, overlapped>>

\* The first BatchSize numbers of a set of row numbers.
FirstOf(ns) == {n \in ns : Cardinality({k \in ns : k < n}) < BatchSize}

ClaimImportRowBatch(h) ==
    LET of == rows[walk[h].import]
    IN  FirstOf({n \in DOMAIN of : of[n] = "PENDING" /\ n > walk[h].cursor})

\* A SELECT that locks nothing, before the batch's transaction.
Claim(h) ==
    /\ On(h, "claim")
    /\ walk' = [walk EXCEPT ![h].batch = ClaimImportRowBatch(h),
                            ![h].step = IF ClaimImportRowBatch(h) = {} THEN "end" ELSE "apply"]
    /\ UNCHANGED <<tables, cached, reader, job, rows, overlapped>>

\* A PIN code row is good if it is well formed; a mapping row needs its PIN
\* code and its zone, of any status.
applyPincodeRow(pins, r) == IF r.valid THEN UpsertPincode(pins, r.pin, r.remote) ELSE pins
applyZoneMappingRow(maps, pins, r) ==
    IF r.valid /\ pins[r.pin].status # "NONE" /\ GetZoneByCode(r.zone)
    THEN UpsertPincodeZoneMapping(maps, r.pin, r.zone) ELSE maps

Applies(i, r) ==
    r.valid /\ (ImportType[i] = "ZONE_MAPPING" =>
                  pin[r.pin].status # "NONE" /\ GetZoneByCode(r.zone))

\* The rows of a batch in order: a later row of the same PIN code wins.
LastRow(i, batch, p) ==
    {n \in batch : /\ FileRows[i][n].pin = p /\ Applies(i, FileRows[i][n])
                   /\ \A k \in batch : k > n /\ FileRows[i][k].pin = p =>
                        ~Applies(i, FileRows[i][k])}

\* Mutant: the bad rows of a batch are counted and not marked.
MarkGoodRows(i, batch) ==
    [rows EXCEPT ![i] = [n \in DOMAIN @ |->
        IF n \in batch /\ Applies(i, FileRows[i][n]) THEN "SUCCEEDED" ELSE @[n]]]

MarkImportRows(i, batch) ==
    [rows EXCEPT ![i] = [n \in DOMAIN @ |->
        IF n \notin batch THEN @[n]
        ELSE IF Applies(i, FileRows[i][n]) THEN "SUCCEEDED" ELSE "FAILED"]]

RecordImportProgress(i, processed, failed) ==
    job' = [job EXCEPT ![i].processed = @ + processed, ![i].failed = @ + failed,
                       ![i].success = @ + (processed - failed)]

\* The rows claimed, in one transaction that looks at no row's status again.
ApplyBatch(h) ==
    LET i == walk[h].import
        batch == walk[h].batch
        bad == {n \in batch : ~Applies(i, FileRows[i][n])}
    IN  /\ On(h, "apply")
        /\ IF ImportType[i] = "PINCODE"
           THEN /\ pin' = [p \in Pins |-> IF LastRow(i, batch, p) = {} THEN pin[p]
                     ELSE applyPincodeRow(pin, FileRows[i][CHOOSE n \in LastRow(i, batch, p) : TRUE])[p]]
                /\ UNCHANGED mapping
           ELSE /\ mapping' = [p \in Pins |-> IF LastRow(i, batch, p) = {} THEN mapping[p]
                     ELSE applyZoneMappingRow(mapping, pin,
                              FileRows[i][CHOOSE n \in LastRow(i, batch, p) : TRUE])[p]]
                /\ UNCHANGED pin
        /\ rows' = MarkImportRows(i, batch)
        /\ RecordImportProgress(i, Cardinality(batch), Cardinality(bad))
        /\ walk' = [walk EXCEPT ![h].cursor = CHOOSE n \in batch : \A k \in batch : k <= n,
                                ![h].failed = @ + Cardinality(bad),
                                ![h].step = "claim", ![h].batch = {}]
        /\ UNCHANGED <<zone, cached, reader, overlapped>>

\* The process dies, or a statement fails: nothing of a batch under way stays,
\* and the queue tries again.
ProcessFails(h) ==
    /\ ~On(h, "idle")
    /\ walk' = [walk EXCEPT ![h] = NotRunning]
    /\ UNCHANGED <<tables, cached, reader, job, rows, overlapped>>

\* The caches are dropped, then the import is finished with the failures this
\* attempt has seen.
ProcessDone(h) ==
    LET i == walk[h].import IN
    /\ On(h, "end")
    /\ cached' = IF ImportType[i] = "PINCODE" THEN InvalidatePincodes
                                              ELSE InvalidateOrganizationZones
    /\ job' = [job EXCEPT ![i] = FinishImportJob(@,
                  IF walk[h].failed > 0 THEN "COMPLETED_WITH_ERRORS" ELSE "COMPLETED")]
    /\ walk' = [walk EXCEPT ![h] = NotRunning]
    /\ UNCHANGED <<tables, reader, rows, overlapped>>

-----------------------------------------------------------------------------
GeographyNext ==
    \/ \E r \in Readers, p \in Pins : LookupPincode(r, p) \/ ResolveZone(r, p)
    \/ \E r \in Readers : SetJSON(r)
    \/ \E p \in Pins, to \in {"ACTIVE", "INACTIVE"} : setPincodeStatus(p, to)
    \/ \E z \in Zones : createZone(z) \/ \E to \in {"ACTIVE", "INACTIVE"} : updateZone(z, to)
    \/ \E p \in Pins : deleteZoneMapping(p) \/ \E z \in Zones : upsertZoneMapping(p, z)
    \/ \E i \in Imports :
          \/ upload(i) \/ stage(i) \/ setTotals(i) \/ enqueue(i) \/ failJob(i) \/ uploadDies(i)
          \/ \E h \in Handlers : Process(h, i)
    \/ \E h \in Handlers :
          StartImportJob(h) \/ Claim(h) \/ ApplyBatch(h) \/ ProcessFails(h) \/ ProcessDone(h)

GeographySpec == GeographyInit /\ [][GeographyNext]_geographyVars

RowsThat(i, s) == Cardinality({n \in DOMAIN rows[i] : rows[i][n] = s})

\* "The job is resumable rather than all-or-nothing" (Process): whatever
\* attempts die, and even when two of them run at once, a finished import has
\* no row of its file left to do, and no row done is missing from the progress
\* shown.  While attempts follow one another the progress is exactly what the
\* rows say: every row is applied once.
ImportResumable ==
    \A i \in Imports :
        /\ job[i].status \in {"COMPLETED", "COMPLETED_WITH_ERRORS"} =>
             RowsThat(i, "PENDING") = 0 /\ Len(rows[i]) = Len(FileRows[i])
        /\ job[i].success >= RowsThat(i, "SUCCEEDED") /\ job[i].failed >= RowsThat(i, "FAILED")
        /\ i \notin overlapped =>
             /\ job[i].success = RowsThat(i, "SUCCEEDED") /\ job[i].failed = RowsThat(i, "FAILED")
             /\ job[i].processed = RowsThat(i, "SUCCEEDED") + RowsThat(i, "FAILED")

\* "A retried job must not double-apply" (Process): no import processes more
\* rows than it has.  It does when a job is handed out again under a handler
\* that is slow but alive: both pass the check of the status, and both may claim
\* the rows of one batch.
AppliedOnce == \A i \in Imports : job[i].processed <= Len(rows[i])

=============================================================================
