-------------------------------- MODULE Memories -------------------------------
(***************************************************************************)
(* The memory that outlives a session (db/repositories/memories.py and     *)
(* agent/memory.py): the rows of agent_memories, what runs remember and    *)
(* what a new run recalls under its token budget.  Every SQL statement is  *)
(* one step.  Left out: the kind of a memory; recall_count, which nothing  *)
(* reads back; and a database that fails, on which a recall is empty and a *)
(* remember an error text.                                                 *)
(***************************************************************************)
EXTENDS Naturals, FiniteSets, Tally

CONSTANTS
  MemProjects,      \* projects; MemGlobal stands for NULL
  MemGlobal,
  MemCut,           \* [content |-> its first 500 characters]
  MemTokens,        \* [cut content |-> token_estimate]
  MemImportances,
  MemLimit,         \* recall_limit
  MemMaxTokens,     \* recall_max_tokens
  MemMaxRows        \* model bound: rows ever inserted

ASSUME MemAssumption ==
  /\ MemGlobal \notin MemProjects
  /\ MemCut \in [DOMAIN MemCut -> DOMAIN MemTokens]
  /\ MemTokens \in [DOMAIN MemTokens -> Nat]
  /\ MemImportances \subseteq Nat \ {0}
  /\ {MemLimit, MemMaxTokens, MemMaxRows} \subseteq Nat

VARIABLES
  memRows,     \* the table; ids are given in the order of created_at
  memNext,     \* the last id given
  memLast,     \* the last recall: [project, rows], which are shown in MemBetter's order
  memGiven     \* [<<scope, content>> |-> the highest importance given to it, or 0]

memVars == <<memRows, memNext, memLast, memGiven>>

MemScopes == MemProjects \cup {MemGlobal}
MemContents == DOMAIN MemTokens

MemInit ==
  /\ memRows = {}
  /\ memNext = 0
  /\ memLast = [project |-> MemGlobal, rows |-> {}]
  /\ memGiven = [k \in MemScopes \X MemContents |-> 0]

\* Mutated form of MemBumped: the last importance counts.
MemBumpedLast(row, importance) == [row EXCEPT !.importance = importance]

\* The DO UPDATE of the insert: GREATEST of the two.
MemBumped(row, importance) ==
  [row EXCEPT !.importance = IF @ >= importance THEN @ ELSE importance]

\* insert_memory, for the remember tool, the CLI and autoresearch: one row for a
\* scope and a content.
MemRemember(scope, text, importance) ==
  LET content == MemCut[text]
      there == {m \in memRows : m.scope = scope /\ m.content = content}
  IN /\ \/ /\ there # {}
           /\ memRows' = (memRows \ there) \cup {MemBumped(m, importance) : m \in there}
           /\ UNCHANGED memNext
        \/ /\ there = {} /\ memNext < MemMaxRows
           /\ memNext' = memNext + 1
           /\ memRows' = memRows \cup {[id |-> memNext + 1, scope |-> scope, content |-> content,
                                       importance |-> importance]}
     /\ memGiven' = [memGiven EXCEPT ![<<scope, content>>] =
                       IF @ >= importance THEN @ ELSE importance]
     /\ UNCHANGED memLast

\* ORDER BY importance DESC, created_at DESC.
MemBetter(m, n) ==
  m.importance > n.importance \/ (m.importance = n.importance /\ m.id > n.id)
MemAbove(rows, m) == {n \in rows : MemBetter(n, m)}

\* recall_memories: the first rows of the project and the global ones.
MemSeen(project) == {m \in memRows : m.scope \in {project, MemGlobal}}
MemTop(project) ==
  {m \in MemSeen(project) : Cardinality(MemAbove(MemSeen(project), m)) < MemLimit}

MemWeight(rows) == Total(rows, [m \in rows |-> MemTokens[m.content]])

\* Mutated form of MemFitting: a row that does not fit is passed over.
MemFittingAny(rows) ==
  CHOOSE kept \in SUBSET rows :
    kept = {m \in rows : MemWeight({m} \cup MemAbove(kept, m)) <= MemMaxTokens}

\* The rows up to the first that does not fit any more.
MemFitting(rows) ==
  {m \in rows : MemWeight({m} \cup MemAbove(rows, m)) <= MemMaxTokens}

\* recall_for_session.
MemRecall(project) ==
  /\ memLast' = [project |-> project, rows |-> MemFitting(MemTop(project))]
  /\ UNCHANGED <<memRows, memNext, memGiven>>

\* delete_memory.
MemForget(id) ==
  LET gone == {m \in memRows : m.id = id}
  IN /\ gone # {}
     /\ memRows' = memRows \ gone
     /\ memGiven' = [k \in DOMAIN memGiven |->
                       IF \E m \in gone : <<m.scope, m.content>> = k THEN 0 ELSE memGiven[k]]
     /\ UNCHANGED <<memNext, memLast>>

MemNext ==
  \/ \E scope \in MemScopes, text \in DOMAIN MemCut, importance \in MemImportances :
       MemRemember(scope, text, importance)
  \/ \E project \in MemProjects : MemRecall(project)
  \/ \E id \in 1..memNext : MemForget(id)

MemSpec == MemInit /\ [][MemNext]_memVars

--------------------------------------------------------------------------------
\* What was remembered in a scope and not forgotten is there once, with the
\* highest importance it was ever given there, however often and in whatever
\* order it was said again, and although long texts are cut to the same memory.
MemKeepsBest ==
  \A k \in DOMAIN memGiven :
    LET rows == {m \in memRows : <<m.scope, m.content>> = k}
    IN IF memGiven[k] = 0 THEN rows = {}
       ELSE \E m \in rows : rows = {m} /\ m.importance = memGiven[k]

\* A recall fits its budget and "the top memories" are the top ones: nothing of
\* the project or of all that is left out is more important than what is in.
MemTopOnly(project) ==
  LET in == memLast'.rows
      out == MemSeen(project) \ in
  IN /\ MemWeight(in) <= MemMaxTokens
     /\ in \subseteq MemSeen(project)
     /\ \A m \in in, n \in out : m.importance >= n.importance

MemRecalled ==
  memLast' # memLast => \A project \in MemProjects : MemRecall(project) => MemTopOnly(project)

MemRecallsTop == [][MemRecalled]_memVars

\* The memory's promise, of what is kept and of what is recalled.
MemSound == []MemKeepsBest /\ MemRecallsTop
================================================================================
