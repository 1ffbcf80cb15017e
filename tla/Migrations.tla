------------------------------ MODULE Migrations ------------------------------
(***************************************************************************)
(* db/migrations.py: several `silkroute db migrate` processes may run on   *)
(* one database.  Each lists the pending files once, without a lock, then  *)
(* runs them in order, every one in a transaction of its own that also     *)
(* inserts the version; the primary key of schema_migrations is all that   *)
(* two runners have between them.  A runner, its SQL or its connection may *)
(* fail at any point.                                                      *)
(***************************************************************************)
EXTENDS Naturals

CONSTANTS
  MigRunners,   \* processes that call apply_migrations
  MigCount      \* the files are numbered 1..MigCount

ASSUME MigAssumption == MigCount \in Nat

VARIABLES
  migRecorded,   \* the versions in schema_migrations
  migRan,        \* how often each file's SQL was committed
  migPc,         \* where each runner is
  migAt,         \* the file it is at
  migPending     \* the files it has left to run

migVars == <<migRecorded, migRan, migPc, migAt, migPending>>

MigFiles == 1..MigCount

MigInit ==
  /\ migRecorded = {}
  /\ migRan = [v \in MigFiles |-> 0]
  /\ migPc = [r \in MigRunners |-> "idle"]
  /\ migAt = [r \in MigRunners |-> 0]
  /\ migPending = [r \in MigRunners |-> {}]

MigGo(r, pc) == migPc' = [migPc EXCEPT ![r] = pc]

\* list_pending_migrations: create the table if need be, and read it.
MigList(r) ==
  /\ migPc[r] = "idle"
  /\ migPending' = [migPending EXCEPT ![r] = MigFiles \ migRecorded]
  /\ MigGo(r, "listed")
  /\ UNCHANGED <<migRecorded, migRan, migAt>>

MigFirst(pending) == CHOOSE v \in pending : \A w \in pending : v <= w

\* BEGIN and the file's SQL: nobody else sees it yet.
MigExecute(r) ==
  /\ migPc[r] = "listed"
  /\ migPending[r] # {}
  /\ migAt' = [migAt EXCEPT ![r] = MigFirst(migPending[r])]
  /\ migPending' = [migPending EXCEPT ![r] = @ \ {MigFirst(@)}]
  /\ MigGo(r, "executed")
  /\ UNCHANGED <<migRecorded, migRan>>

\* Mutated form of MigInsert: ON CONFLICT DO NOTHING.
MigInsertLenient(r) ==
  /\ migPc[r] = "executed"
  /\ \A q \in MigRunners : ~(migPc[q] = "inserted" /\ migAt[q] = migAt[r])
  /\ MigGo(r, "inserted")
  /\ UNCHANGED <<migRecorded, migRan, migAt, migPending>>

\* The INSERT waits while another transaction holds the same key, and raises
\* if the key is there (MigFail).
MigInsert(r) ==
  /\ migPc[r] = "executed"
  /\ \A q \in MigRunners : ~(migPc[q] = "inserted" /\ migAt[q] = migAt[r])
  /\ migAt[r] \notin migRecorded
  /\ MigGo(r, "inserted")
  /\ UNCHANGED <<migRecorded, migRan, migAt, migPending>>

\* COMMIT makes the SQL and the version visible together.
MigCommit(r) ==
  /\ migPc[r] = "inserted"
  /\ migRecorded' = migRecorded \cup {migAt[r]}
  /\ migRan' = [migRan EXCEPT ![migAt[r]] = @ + 1]
  /\ MigGo(r, "listed")
  /\ UNCHANGED <<migAt, migPending>>

\* Mutated form of MigFail: the runner goes on with the next file.
MigFailOn(r) ==
  /\ migPc[r] \in {"executed", "inserted"}
  /\ MigGo(r, "listed")
  /\ UNCHANGED <<migRecorded, migRan, migAt, migPending>>

\* The SQL or the INSERT raises, or the process dies: the transaction is
\* rolled back and "migrations after the failing one are not attempted".
MigFail(r) ==
  /\ migPc[r] \in {"executed", "inserted"}
  /\ MigGo(r, "idle")
  /\ UNCHANGED <<migRecorded, migRan, migAt, migPending>>

MigDone(r) ==
  /\ migPc[r] = "listed"
  /\ migPending[r] = {}
  /\ MigGo(r, "idle")
  /\ UNCHANGED <<migRecorded, migRan, migAt, migPending>>

MigStep(r) ==
  \/ MigList(r)
  \/ MigExecute(r)
  \/ MigInsert(r)
  \/ MigCommit(r)
  \/ MigFail(r)
  \/ MigDone(r)

MigNext == \E r \in MigRunners : MigStep(r)

MigSpec == MigInit /\ [][MigNext]_migVars

--------------------------------------------------------------------------------
MigTypeOK ==
  /\ migRecorded \in SUBSET MigFiles
  /\ migRan \in [MigFiles -> Nat]
  /\ migPc \in [MigRunners -> {"idle", "listed", "executed", "inserted"}]
  /\ migAt \in [MigRunners -> 0..MigCount]
  /\ migPending \in [MigRunners -> SUBSET MigFiles]

\* "tracked in schema_migrations so it never re-runs": the SQL of a file takes
\* effect once, however many runners found it pending, and exactly if its
\* version is recorded, wherever a runner stopped.
MigOnce == \A v \in MigFiles : migRan[v] = IF v \in migRecorded THEN 1 ELSE 0

\* "applied in order": what is applied is always an initial stretch of the
\* files, although each runner works from a list it read before the others' work.
MigInOrder == \A v \in migRecorded : \A w \in 1..v : w \in migRecorded

\* What the migrations of one database promise, however many processes run them.
MigSafe == MigTypeOK /\ MigOnce /\ MigInOrder
================================================================================
