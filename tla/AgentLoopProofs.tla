---------------------------- MODULE AgentLoopProofs ----------------------------
(***************************************************************************)
(* Theorems about AgentLoop, for any number of callers, any limits and any *)
(* costs, and about the model a run gets.                                  *)
(***************************************************************************)
EXTENDS AgentLoop, ModelRouter, Sums, SequenceTheorems, WellFoundedInduction

\* What one caller's run may do.
RunStep(r) ==
  \/ Start(r) \/ CreateSession(r) \/ ReadSpend(r) \/ Admit(r) \/ Refuse(r)
  \/ CloseRefused(r) \/ DbInitFails(r)
  \/ CallLLM(r) \/ BudgetStops(r) \/ Exhausted(r)
  \/ LLMFails(r) \/ LLMMalformed(r) \/ FinalAnswer(r) \/ ToolCalls(r) \/ ToolsDone(r)
  \/ Write(r)
  \/ Flush(r) \/ BridgeFails(r) \/ CloseSession(r) \/ CloseFails(r) \/ PutSentinel(r)
  \/ Get(r) \/ ConsumerLeaves(r) \/ CallerCancels(r)

\* The money: inside an iteration the session still has room for the estimate.
SpendInv ==
  \A r \in Callers :
    /\ spent[r] <= SessionCap
    /\ pc[r] \in {"llm", "tools"} => spent[r] + Estimate <= SessionLimit /\ n[r] < MaxIterations

\* The row: before the loop and after the flush nothing is under way, and
\* only then has the row a final status, which is the session's.
RowInv ==
  \A r \in Callers :
    /\ pc[r] \in {"create", "read", "judge", "refuse", "refused", "close", "sentinel", "done"} =>
         Settled(r)
    /\ pool[r] /\ row[r].status \notin {"none", "active"} =>
         /\ Settled(r)
         /\ pc[r] \in {"refused", "raised", "cancelled", "sentinel", "done"}
         /\ row[r] = [status |-> DbStatus(status[r]), count |-> n[r]]

\* The stream: the sentinel is put by a run that is done, after every event.
StreamInv ==
  \A r \in Callers :
    /\ consumer[r] = "ended" => pc[r] = "done"
    /\ \A i \in 1..Len(queue[r]) : queue[r][i] = "end" => pc[r] = "done"
    /\ r \in Streamed /\ pc[r] = "done" /\ consumer[r] = "reading" =>
         queue[r] # <<>> /\ queue[r][Len(queue[r])] = "end"

LEMMA NextIsRunStep ==
  ASSUME [Next]_vars PROVE UNCHANGED vars \/ \E r \in Callers : RunStep(r)
BY DEF Next, RunStep

(***************************************************************************)
(* What the helpers keep of the types.                                      *)
(***************************************************************************)
RowType == [Callers -> [status : Statuses \cup {"none"}, count : 0..MaxIterations]]

LEMMA RowStaysTyped ==
  ASSUME TypeOK, NEW r \in Callers, Written(r, "active", 0) \/ Closed(r) \/ UNCHANGED row
  PROVE  row' \in RowType
<1>0. row \in RowType /\ n[r] \in 0..MaxIterations /\ DbStatus(status[r]) \in Statuses
  BY DEF TypeOK, RowType, DbStatus, Statuses
<1>1. CASE Written(r, "active", 0)
  <2>1. 0 \in 0..MaxIterations BY AgentLoopAssumption
  <2>. QED BY <1>0, <1>1, <2>1 DEF Written, RowType, Statuses
<1>2. CASE Closed(r)
  BY <1>0, <1>2 DEF Closed, Written, RowType, Statuses
<1>3. CASE UNCHANGED row
  BY <1>0, <1>3
<1>. QED BY <1>1, <1>2, <1>3

LEMMA QueueStaysTyped ==
  ASSUME TypeOK, NEW r \in Callers, Push(r)
  PROVE  /\ queue' \in [Callers -> Seq({"event", "end"})]
         /\ \A q \in Callers : Len(queue'[q]) <= QueueSize
BY AgentLoopAssumption DEF TypeOK, Push

LEMMA SessionStaysTyped ==
  ASSUME TypeOK, NEW r \in Callers, n[r] < MaxIterations, NEW c \in Costs, AddIteration(r, c)
  PROVE  /\ n' \in [Callers -> 0..MaxIterations]
         /\ spent' \in [Callers -> Nat]
         /\ updates' \in [Callers -> SUBSET Iterations]
         /\ logs' \in [Callers -> SUBSET (Iterations \X Costs)]
<1>1. c \in Nat /\ n[r] + 1 \in Iterations /\ n[r] + 1 \in 0..MaxIterations
  BY AgentLoopAssumption DEF TypeOK, Iterations
<1>2. n' \in [Callers -> 0..MaxIterations] /\ spent' \in [Callers -> Nat]
  BY <1>1 DEF TypeOK, AddIteration
<1>3. updates' \in [Callers -> SUBSET Iterations]
  BY <1>1 DEF TypeOK, AddIteration
<1>4. <<n[r] + 1, c>> \in Iterations \X Costs
  BY <1>1
<1>5. logs' \in [Callers -> SUBSET (Iterations \X Costs)]
  BY <1>4 DEF TypeOK, AddIteration
<1>. QED BY <1>2, <1>3, <1>5

LEMMA CancelledStaysTyped ==
  ASSUME TypeOK, NEW r \in Callers, Cancelled(r), queue' = queue,
         consumer' \in [Callers -> {"none", "reading", "ended", "left"}]
  PROVE  TypeOK'
<1>1. row' \in RowType
  BY RowStaysTyped DEF Cancelled
<1>2. updates' \in [Callers -> SUBSET Iterations] /\ logs' \in [Callers -> SUBSET (Iterations \X Costs)]
  <2>1. CASE pc[r] = "flush"
    <3>1. \E left \in SUBSET updates[r] : updates' = [updates EXCEPT ![r] = left]
      BY <2>1 DEF Cancelled
    <3>2. updates' \in [Callers -> SUBSET Iterations]
      BY <3>1 DEF TypeOK
    <3>3. \E left \in SUBSET logs[r] : logs' = [logs EXCEPT ![r] = left]
      BY <2>1 DEF Cancelled
    <3>4. logs' \in [Callers -> SUBSET (Iterations \X Costs)]
      BY <3>3 DEF TypeOK
    <3>. QED BY <3>2, <3>4
  <2>2. CASE pc[r] # "flush"
    BY <2>2 DEF Cancelled, TypeOK
  <2>. QED BY <2>1, <2>2
<1>3. pc' \in [Callers -> Stops \cup Awaits \cup {"loop"}] /\ seen' \in [Callers -> Nat]
  BY DEF TypeOK, Cancelled, Goto, Forget, Stops
<1>. QED BY <1>1, <1>2, <1>3 DEF TypeOK, Cancelled, sessionVars, RowType

(***************************************************************************)
(* Every step keeps the types.                                              *)
(***************************************************************************)
LEMMA TypeStep ==
  ASSUME TypeOK, SpendInv, [Next]_vars PROVE TypeOK'
<1>1. CASE UNCHANGED vars
  BY <1>1 DEF vars, sessionVars, dbVars, streamVars, TypeOK, Stops, Awaits, Statuses,
        Iterations, NoRow, DbStatus, SpendInv
<1>2. ASSUME NEW r \in Callers, RunStep(r) PROVE TypeOK'
  <2>1. CASE Start(r)
    BY <2>1, AgentLoopAssumption DEF Start, Goto, Settled, NoRow, sessionVars, dbVars,
        streamVars, TypeOK, Stops, Awaits, Statuses, Iterations, DbStatus, SpendInv
  <2>2. CASE CreateSession(r)
    BY <2>2, AgentLoopAssumption DEF CreateSession, Goto, Written, sessionVars, dbVars,
        streamVars, TypeOK, Stops, Awaits, Statuses, Iterations, NoRow, DbStatus, SpendInv
  <2>3. CASE ReadSpend(r)
    BY <2>3, AgentLoopAssumption DEF ReadSpend, Goto, sessionVars, dbVars, streamVars, TypeOK,
        Stops, Awaits, Statuses, Iterations, NoRow, DbStatus, SpendInv
  <2>4. CASE Admit(r)
    BY <2>4, AgentLoopAssumption DEF Admit, Goto, Forget, sessionVars, dbVars, streamVars,
        TypeOK, Stops, Awaits, Statuses, Iterations, NoRow, DbStatus, SpendInv
  <2>5. CASE Refuse(r)
    BY <2>5, AgentLoopAssumption DEF Refuse, Goto, Forget, sessionVars, dbVars, streamVars,
        TypeOK, Stops, Awaits, Statuses, Iterations, NoRow, DbStatus, SpendInv
  <2>6. CASE CloseRefused(r)
    BY <2>6, AgentLoopAssumption DEF CloseRefused, Goto, Closed, Written, sessionVars, dbVars,
        streamVars, TypeOK, Stops, Awaits, Statuses, Iterations, NoRow, DbStatus, SpendInv
  <2>7. CASE DbInitFails(r)
    <3>1. row' \in RowType
      BY <2>7, RowStaysTyped DEF DbInitFails
    <3>. QED BY <2>7, <3>1 DEF DbInitFails, Goto, Forget, TypeOK, RowType, sessionVars, streamVars
  <2>8. CASE CallLLM(r)
    BY <2>8, AgentLoopAssumption DEF CallLLM, Goto, Affordable, sessionVars, dbVars, streamVars,
        TypeOK, Stops, Awaits, Statuses, Iterations, NoRow, DbStatus, SpendInv
  <2>9. CASE BudgetStops(r)
    BY <2>9, AgentLoopAssumption DEF BudgetStops, Goto, Push, Affordable, sessionVars, dbVars,
        streamVars, TypeOK, Stops, Awaits, Statuses, Iterations, NoRow, DbStatus, SpendInv
  <2>10. CASE Exhausted(r)
    BY <2>10, AgentLoopAssumption DEF Exhausted, Goto, sessionVars, dbVars, streamVars, TypeOK,
        Stops, Awaits, Statuses, Iterations, NoRow, DbStatus, SpendInv
  <2>11. CASE LLMFails(r)
    BY <2>11, AgentLoopAssumption DEF LLMFails, Goto, Push, sessionVars, dbVars, streamVars,
        TypeOK, Stops, Awaits, Statuses, Iterations, NoRow, DbStatus, SpendInv
  <2>12. CASE LLMMalformed(r)
    BY <2>12, AgentLoopAssumption DEF LLMMalformed, Goto, sessionVars, dbVars, streamVars,
        TypeOK, Stops, Awaits, Statuses, Iterations, NoRow, DbStatus, SpendInv
  <2>13. CASE FinalAnswer(r)
    <3>1. PICK c \in Costs : AddIteration(r, c)
      BY <2>13 DEF FinalAnswer
    <3>2. n[r] < MaxIterations
      BY <2>13 DEF FinalAnswer, SpendInv
    <3>3. Push(r)
      BY <2>13 DEF FinalAnswer
    <3>4. pc' \in [Callers -> Stops \cup Awaits \cup {"loop"}] /\ status' \in [Callers -> Statuses]
      BY <2>13 DEF FinalAnswer, Goto, TypeOK, Awaits, Statuses
    <3>. QED
      BY <2>13, <3>1, <3>2, <3>3, <3>4, SessionStaysTyped, QueueStaysTyped DEF FinalAnswer, TypeOK
  <2>14. CASE ToolCalls(r)
    BY <2>14, AgentLoopAssumption DEF ToolCalls, Goto, sessionVars, dbVars, streamVars, TypeOK,
        Stops, Awaits, Statuses, Iterations, NoRow, DbStatus, SpendInv
  <2>15. CASE ToolsDone(r)
    <3>1. PICK c \in Costs : AddIteration(r, c)
      BY <2>15 DEF ToolsDone
    <3>2. n[r] < MaxIterations
      BY <2>15 DEF ToolsDone, SpendInv
    <3>3. Push(r)
      BY <2>15 DEF ToolsDone
    <3>4. pc' \in [Callers -> Stops \cup Awaits \cup {"loop"}]
      BY <2>15 DEF ToolsDone, Goto, TypeOK
    <3>. QED
      BY <2>15, <3>1, <3>2, <3>3, <3>4, SessionStaysTyped, QueueStaysTyped DEF ToolsDone, TypeOK
  <2>16. CASE \E k \in Iterations : UpdateEnds(r, k)
    <3>1. PICK k \in Iterations : UpdateEnds(r, k)
      BY <2>16
    <3>2. k \in 0..MaxIterations
      BY AgentLoopAssumption DEF Iterations
    <3>3. row' \in RowType
      <4>1. CASE row' = row
        BY <4>1 DEF TypeOK, RowType
      <4>2. CASE row' = [row EXCEPT ![r].count = k]
        BY <3>2, <4>2 DEF TypeOK, RowType
      <4>. QED BY <3>1, <4>1, <4>2 DEF UpdateEnds
    <3>4. updates' \in [Callers -> SUBSET Iterations]
      BY <3>1 DEF UpdateEnds, TypeOK
    <3>. QED BY <3>1, <3>3, <3>4 DEF UpdateEnds, TypeOK, RowType, sessionVars, streamVars
  <2>17. CASE \E k \in Iterations, c \in Costs : LogEnds(r, k, c)
    <3>1. PICK k \in Iterations, c \in Costs : LogEnds(r, k, c)
      BY <2>17
    <3>2. c \in Nat /\ logged \in Nat /\ logged' \in {logged, logged + c}
      BY <3>1, AgentLoopAssumption DEF LogEnds, TypeOK
    <3>3. logged' \in Nat
      BY <3>2
    <3>4. logs' \in [Callers -> SUBSET (Iterations \X Costs)]
      BY <3>1 DEF LogEnds, TypeOK
    <3>. QED BY <3>1, <3>3, <3>4 DEF LogEnds, TypeOK, sessionVars, streamVars
  <2>18. CASE Flush(r)
    BY <2>18, AgentLoopAssumption DEF Flush, Goto, Settled, sessionVars, dbVars, streamVars,
        TypeOK, Stops, Awaits, Statuses, Iterations, NoRow, DbStatus, SpendInv
  <2>19. CASE CloseSession(r)
    BY <2>19, AgentLoopAssumption DEF CloseSession, Goto, Closed, Written, sessionVars, dbVars,
        streamVars, TypeOK, Stops, Awaits, Statuses, Iterations, NoRow, DbStatus, SpendInv
  <2>20. CASE CloseFails(r)
    <3>1. row' \in RowType
      BY <2>20, RowStaysTyped DEF CloseFails
    <3>2. pc' \in [Callers -> Stops \cup Awaits \cup {"loop"}]
      BY <2>20 DEF CloseFails, Goto, TypeOK, Stops, Awaits
    <3>. QED BY <2>20, <3>1, <3>2 DEF CloseFails, TypeOK, RowType, sessionVars, streamVars
  <2>21. CASE PutSentinel(r)
    BY <2>21, AgentLoopAssumption DEF PutSentinel, Goto, sessionVars, dbVars, streamVars,
        TypeOK, Stops, Awaits, Statuses, Iterations, NoRow, DbStatus, SpendInv
  <2>22. CASE Get(r)
    BY <2>22, AgentLoopAssumption DEF Get, sessionVars, dbVars, streamVars, TypeOK, Stops,
        Awaits, Statuses, Iterations, NoRow, DbStatus, SpendInv
  <2>23. CASE ConsumerLeaves(r)
    <3>1. consumer' \in [Callers -> {"none", "reading", "ended", "left"}] /\ queue' = queue
      BY <2>23 DEF ConsumerLeaves, TypeOK
    <3>2. CASE Cancelled(r)
      BY <3>1, <3>2, CancelledStaysTyped
    <3>3. CASE UNCHANGED <<pc, sessionVars, pool, seen, dbVars>>
      BY <3>1, <3>3 DEF TypeOK, sessionVars, dbVars
    <3>. QED BY <2>23, <3>2, <3>3 DEF ConsumerLeaves
  <2>24. CASE CallerCancels(r)
    BY <2>24, CancelledStaysTyped DEF CallerCancels, TypeOK, streamVars
  <2>25. CASE BridgeFails(r)
    BY <2>25 DEF BridgeFails, Goto, sessionVars, dbVars, streamVars,
        TypeOK, Stops, Awaits, Statuses, Iterations
  <2>. QED
    BY <1>2, <2>1, <2>2, <2>3, <2>4, <2>5, <2>6, <2>7, <2>8, <2>9, <2>10, <2>11, <2>12, <2>13, <2>14, <2>15, <2>16, <2>17, <2>18, <2>19, <2>20, <2>21, <2>22, <2>23, <2>24, <2>25 DEF
        RunStep, Write
<1>. QED BY <1>1, <1>2, NextIsRunStep

(***************************************************************************)
(* Every step keeps the money invariant.                                    *)
(***************************************************************************)
LEMMA SpendStep ==
  ASSUME TypeOK, SpendInv, [Next]_vars PROVE SpendInv'
<1>1. CASE UNCHANGED vars
  BY <1>1 DEF vars, sessionVars, dbVars, streamVars, TypeOK, Stops, Awaits, Statuses,
        Iterations, SpendInv, SessionCap
<1>2. ASSUME NEW r \in Callers, RunStep(r) PROVE SpendInv'
  <2>1. CASE Start(r)
    BY <2>1, AgentLoopAssumption DEF Start, Goto, Settled, NoRow, sessionVars, dbVars,
        streamVars, TypeOK, Stops, Awaits, Statuses, Iterations, SpendInv, SessionCap
  <2>2. CASE CreateSession(r)
    BY <2>2, AgentLoopAssumption DEF CreateSession, Goto, Written, sessionVars, dbVars,
        streamVars, TypeOK, Stops, Awaits, Statuses, Iterations, SpendInv, SessionCap
  <2>3. CASE ReadSpend(r)
    BY <2>3, AgentLoopAssumption DEF ReadSpend, Goto, sessionVars, dbVars, streamVars, TypeOK,
        Stops, Awaits, Statuses, Iterations, SpendInv, SessionCap
  <2>4. CASE Admit(r)
    BY <2>4, AgentLoopAssumption DEF Admit, Goto, Forget, sessionVars, dbVars, streamVars,
        TypeOK, Stops, Awaits, Statuses, Iterations, SpendInv, SessionCap
  <2>5. CASE Refuse(r)
    BY <2>5, AgentLoopAssumption DEF Refuse, Goto, Forget, sessionVars, dbVars, streamVars,
        TypeOK, Stops, Awaits, Statuses, Iterations, SpendInv, SessionCap
  <2>6. CASE CloseRefused(r)
    BY <2>6, AgentLoopAssumption DEF CloseRefused, Goto, Closed, Written, sessionVars, dbVars,
        streamVars, TypeOK, Stops, Awaits, Statuses, Iterations, SpendInv, SessionCap
  <2>7. CASE DbInitFails(r)
    BY <2>7, AgentLoopAssumption DEF DbInitFails, Goto, Forget, Closed, Written, sessionVars,
        dbVars, streamVars, TypeOK, Stops, Awaits, Statuses, Iterations, SpendInv, SessionCap
  <2>8. CASE CallLLM(r)
    BY <2>8, AgentLoopAssumption DEF CallLLM, Goto, Affordable, sessionVars, dbVars, streamVars,
        TypeOK, Stops, Awaits, Statuses, Iterations, SpendInv, SessionCap
  <2>9. CASE BudgetStops(r)
    BY <2>9, AgentLoopAssumption DEF BudgetStops, Goto, Push, Affordable, sessionVars, dbVars,
        streamVars, TypeOK, Stops, Awaits, Statuses, Iterations, SpendInv, SessionCap
  <2>10. CASE Exhausted(r)
    BY <2>10, AgentLoopAssumption DEF Exhausted, Goto, sessionVars, dbVars, streamVars, TypeOK,
        Stops, Awaits, Statuses, Iterations, SpendInv, SessionCap
  <2>11. CASE LLMFails(r)
    BY <2>11, AgentLoopAssumption DEF LLMFails, Goto, Push, sessionVars, dbVars, streamVars,
        TypeOK, Stops, Awaits, Statuses, Iterations, SpendInv, SessionCap
  <2>12. CASE LLMMalformed(r)
    BY <2>12, AgentLoopAssumption DEF LLMMalformed, Goto, sessionVars, dbVars, streamVars,
        TypeOK, Stops, Awaits, Statuses, Iterations, SpendInv, SessionCap
  <2>13. CASE FinalAnswer(r)
    <3>1. PICK c \in Costs : AddIteration(r, c)
      BY <2>13 DEF FinalAnswer
    <3>2. c \in Nat /\ c <= MaxCost
      BY AgentLoopAssumption
    <3>3. pc[r] = "llm" /\ pc' = [pc EXCEPT ![r] = "flush"]
      BY <2>13 DEF FinalAnswer, Goto
    <3>4. spent[r] + Estimate <= SessionLimit /\ spent[r] \in Nat
      BY <3>3 DEF SpendInv, TypeOK
    <3>5. spent[r] + c <= SessionCap
      BY <3>2, <3>4, AgentLoopAssumption DEF SessionCap
    <3>6. /\ spent'[r] = spent[r] + c
          /\ \A q \in Callers \ {r} : spent'[q] = spent[q] /\ n'[q] = n[q]
      BY <3>1 DEF AddIteration, TypeOK
    <3>7. pc'[r] = "flush" /\ \A q \in Callers \ {r} : pc'[q] = pc[q]
      BY <3>3 DEF TypeOK
    <3>8. spent'[r] <= SessionCap /\ pc'[r] \notin {"llm", "tools"}
      BY <3>5, <3>6, <3>7
    <3>9. \A q \in Callers \ {r} :
            /\ spent'[q] <= SessionCap
            /\ pc'[q] \in {"llm", "tools"} => spent'[q] + Estimate <= SessionLimit /\ n'[q] < MaxIterations
      BY <3>6, <3>7 DEF SpendInv
    <3>. QED BY <3>8, <3>9 DEF SpendInv, SessionCap
  <2>14. CASE ToolCalls(r)
    BY <2>14, AgentLoopAssumption DEF ToolCalls, Goto, sessionVars, dbVars, streamVars, TypeOK,
        Stops, Awaits, Statuses, Iterations, SpendInv, SessionCap
  <2>15. CASE ToolsDone(r)
    <3>1. PICK c \in Costs : AddIteration(r, c)
      BY <2>15 DEF ToolsDone
    <3>2. c \in Nat /\ c <= MaxCost
      BY AgentLoopAssumption
    <3>3. pc[r] = "tools" /\ pc' = [pc EXCEPT ![r] = "loop"]
      BY <2>15 DEF ToolsDone, Goto
    <3>4. spent[r] + Estimate <= SessionLimit /\ spent[r] \in Nat
      BY <3>3 DEF SpendInv, TypeOK
    <3>5. spent[r] + c <= SessionCap
      BY <3>2, <3>4, AgentLoopAssumption DEF SessionCap
    <3>6. /\ spent'[r] = spent[r] + c
          /\ \A q \in Callers \ {r} : spent'[q] = spent[q] /\ n'[q] = n[q]
      BY <3>1 DEF AddIteration, TypeOK
    <3>7. pc'[r] = "loop" /\ \A q \in Callers \ {r} : pc'[q] = pc[q]
      BY <3>3 DEF TypeOK
    <3>8. spent'[r] <= SessionCap /\ pc'[r] \notin {"llm", "tools"}
      BY <3>5, <3>6, <3>7
    <3>9. \A q \in Callers \ {r} :
            /\ spent'[q] <= SessionCap
            /\ pc'[q] \in {"llm", "tools"} => spent'[q] + Estimate <= SessionLimit /\ n'[q] < MaxIterations
      BY <3>6, <3>7 DEF SpendInv
    <3>. QED BY <3>8, <3>9 DEF SpendInv, SessionCap
  <2>16. CASE \E k \in Iterations : UpdateEnds(r, k)
    BY <2>16, AgentLoopAssumption DEF UpdateEnds, sessionVars, dbVars, streamVars, TypeOK,
        Stops, Awaits, Statuses, Iterations, SpendInv, SessionCap
  <2>17. CASE \E k \in Iterations, c \in Costs : LogEnds(r, k, c)
    BY <2>17, AgentLoopAssumption DEF LogEnds, sessionVars, dbVars, streamVars, TypeOK, Stops,
        Awaits, Statuses, Iterations, SpendInv, SessionCap
  <2>18. CASE Flush(r)
    BY <2>18, AgentLoopAssumption DEF Flush, Goto, Settled, sessionVars, dbVars, streamVars,
        TypeOK, Stops, Awaits, Statuses, Iterations, SpendInv, SessionCap
  <2>19. CASE CloseSession(r)
    BY <2>19, AgentLoopAssumption DEF CloseSession, Goto, Closed, Written, sessionVars, dbVars,
        streamVars, TypeOK, Stops, Awaits, Statuses, Iterations, SpendInv, SessionCap
  <2>20. CASE CloseFails(r)
    BY <2>20, AgentLoopAssumption DEF CloseFails, Goto, Closed, Written, sessionVars, dbVars,
        streamVars, TypeOK, Stops, Awaits, Statuses, Iterations, SpendInv, SessionCap
  <2>21. CASE PutSentinel(r)
    BY <2>21, AgentLoopAssumption DEF PutSentinel, Goto, sessionVars, dbVars, streamVars,
        TypeOK, Stops, Awaits, Statuses, Iterations, SpendInv, SessionCap
  <2>22. CASE Get(r)
    BY <2>22, AgentLoopAssumption DEF Get, sessionVars, dbVars, streamVars, TypeOK, Stops,
        Awaits, Statuses, Iterations, SpendInv, SessionCap
  <2>23. CASE ConsumerLeaves(r)
    BY <2>23, AgentLoopAssumption DEF ConsumerLeaves, Goto, Cancelled, Forget, Closed, Written,
        sessionVars, dbVars, streamVars, TypeOK, Stops, Awaits, Statuses, Iterations, SpendInv,
        SessionCap
  <2>24. CASE CallerCancels(r)
    BY <2>24, AgentLoopAssumption DEF CallerCancels, Goto, Cancelled, Forget, Closed, Written,
        sessionVars, dbVars, streamVars, TypeOK, Stops, Awaits, Statuses, Iterations, SpendInv,
        SessionCap
  <2>25. CASE BridgeFails(r)
    BY <2>25 DEF BridgeFails, Goto, sessionVars, dbVars, streamVars,
        TypeOK, Stops, Awaits, Statuses, Iterations, SpendInv
  <2>. QED
    BY <1>2, <2>1, <2>2, <2>3, <2>4, <2>5, <2>6, <2>7, <2>8, <2>9, <2>10, <2>11, <2>12, <2>13, <2>14, <2>15, <2>16, <2>17, <2>18, <2>19, <2>20, <2>21, <2>22, <2>23, <2>24, <2>25 DEF
        RunStep, Write
<1>. QED BY <1>1, <1>2, NextIsRunStep

(***************************************************************************)
(* Every step keeps the row invariant: UpdateEnds needs that a row with a   *)
(* final status has no update under way.                                    *)
(***************************************************************************)
LEMMA RowStep ==
  ASSUME TypeOK, RowInv, [Next]_vars PROVE RowInv'
<1>1. CASE UNCHANGED vars
  BY <1>1 DEF vars, sessionVars, dbVars, streamVars, TypeOK, Stops, Awaits, Statuses,
        Iterations, RowInv, Settled, NoRow, DbStatus
<1>2. ASSUME NEW r \in Callers, RunStep(r) PROVE RowInv'
  <2>1. CASE Start(r)
    BY <2>1, AgentLoopAssumption DEF Start, Goto, Settled, NoRow, sessionVars, dbVars,
        streamVars, TypeOK, Stops, Awaits, Statuses, Iterations, RowInv, DbStatus
  <2>2. CASE CreateSession(r)
    BY <2>2, AgentLoopAssumption DEF CreateSession, Goto, Written, sessionVars, dbVars,
        streamVars, TypeOK, Stops, Awaits, Statuses, Iterations, RowInv, Settled, NoRow,
        DbStatus
  <2>3. CASE ReadSpend(r)
    BY <2>3, AgentLoopAssumption DEF ReadSpend, Goto, sessionVars, dbVars, streamVars, TypeOK,
        Stops, Awaits, Statuses, Iterations, RowInv, Settled, NoRow, DbStatus
  <2>4. CASE Admit(r)
    BY <2>4, AgentLoopAssumption DEF Admit, Goto, Forget, sessionVars, dbVars, streamVars,
        TypeOK, Stops, Awaits, Statuses, Iterations, RowInv, Settled, NoRow, DbStatus
  <2>5. CASE Refuse(r)
    BY <2>5, AgentLoopAssumption DEF Refuse, Goto, Forget, sessionVars, dbVars, streamVars,
        TypeOK, Stops, Awaits, Statuses, Iterations, RowInv, Settled, NoRow, DbStatus
  <2>6. CASE CloseRefused(r)
    BY <2>6, AgentLoopAssumption DEF CloseRefused, Goto, Closed, Written, sessionVars, dbVars,
        streamVars, TypeOK, Stops, Awaits, Statuses, Iterations, RowInv, Settled, NoRow,
        DbStatus
  <2>7. CASE DbInitFails(r)
    BY <2>7, AgentLoopAssumption DEF DbInitFails, Goto, Forget, Closed, Written, sessionVars,
        dbVars, streamVars, TypeOK, Stops, Awaits, Statuses, Iterations, RowInv, Settled, NoRow,
        DbStatus
  <2>8. CASE CallLLM(r)
    BY <2>8, AgentLoopAssumption DEF CallLLM, Goto, Affordable, sessionVars, dbVars, streamVars,
        TypeOK, Stops, Awaits, Statuses, Iterations, RowInv, Settled, NoRow, DbStatus
  <2>9. CASE BudgetStops(r)
    <3>1. /\ pc[r] = "loop" /\ pc' = [pc EXCEPT ![r] = "flush"]
          /\ status' = [status EXCEPT ![r] = "budget_exceeded"]
          /\ UNCHANGED <<n, pool, row, updates, logs>>
      BY <2>9 DEF BudgetStops, Goto, dbVars
    <3>2. pool[r] => row[r].status \in {"none", "active"}
      BY <3>1 DEF RowInv
    <3> QED
      BY <3>1, <3>2 DEF TypeOK, RowInv, Settled, DbStatus
  <2>10. CASE Exhausted(r)
    BY <2>10, AgentLoopAssumption DEF Exhausted, Goto, sessionVars, dbVars, streamVars, TypeOK,
        Stops, Awaits, Statuses, Iterations, RowInv, Settled, NoRow, DbStatus
  <2>11. CASE LLMFails(r)
    BY <2>11, AgentLoopAssumption DEF LLMFails, Goto, Push, sessionVars, dbVars, streamVars,
        TypeOK, Stops, Awaits, Statuses, Iterations, RowInv, Settled, NoRow, DbStatus
  <2>12. CASE LLMMalformed(r)
    BY <2>12, AgentLoopAssumption DEF LLMMalformed, Goto, sessionVars, dbVars, streamVars,
        TypeOK, Stops, Awaits, Statuses, Iterations, RowInv, Settled, NoRow, DbStatus
  <2>13. CASE FinalAnswer(r)
    <3>1. pc[r] = "llm" /\ pc' = [pc EXCEPT ![r] = "flush"]
      BY <2>13 DEF FinalAnswer, Goto
    <3>2. ~(pool[r] /\ row[r].status \notin {"none", "active"})
      BY <3>1 DEF RowInv
    <3>3. pc'[r] = "flush" /\ \A q \in Callers \ {r} : pc'[q] = pc[q]
      BY <3>1 DEF TypeOK
    <3>4. /\ pool' = pool /\ row' = row
          /\ \A q \in Callers \ {r} :
               status'[q] = status[q] /\ n'[q] = n[q] /\ updates'[q] = updates[q] /\ logs'[q] = logs[q]
      BY <2>13 DEF FinalAnswer, AddIteration, TypeOK
    <3>. QED BY <3>2, <3>3, <3>4 DEF RowInv, Settled
  <2>14. CASE ToolCalls(r)
    BY <2>14, AgentLoopAssumption DEF ToolCalls, Goto, sessionVars, dbVars, streamVars, TypeOK,
        Stops, Awaits, Statuses, Iterations, RowInv, Settled, NoRow, DbStatus
  <2>15. CASE ToolsDone(r)
    <3>1. pc[r] = "tools" /\ pc' = [pc EXCEPT ![r] = "loop"]
      BY <2>15 DEF ToolsDone, Goto
    <3>2. ~(pool[r] /\ row[r].status \notin {"none", "active"})
      BY <3>1 DEF RowInv
    <3>3. pc'[r] = "loop" /\ \A q \in Callers \ {r} : pc'[q] = pc[q]
      BY <3>1 DEF TypeOK
    <3>4. /\ pool' = pool /\ row' = row /\ status' = status
          /\ \A q \in Callers \ {r} :
               n'[q] = n[q] /\ updates'[q] = updates[q] /\ logs'[q] = logs[q]
      BY <2>15 DEF ToolsDone, AddIteration, TypeOK
    <3>. QED BY <3>2, <3>3, <3>4 DEF RowInv, Settled
  <2>16. CASE \E k \in Iterations : UpdateEnds(r, k)
    <3>1. PICK k \in Iterations : UpdateEnds(r, k)
      BY <2>16
    <3>2. /\ k \in updates[r] /\ row' \in {row, [row EXCEPT ![r].count = k]}
          /\ updates' = [updates EXCEPT ![r] = @ \ {k}]
          /\ pc' = pc /\ status' = status /\ n' = n /\ pool' = pool /\ logs' = logs
      BY <3>1 DEF UpdateEnds, sessionVars
    <3>3. ~Settled(r)
      BY <3>2 DEF Settled
    <3>4. row'[r].status = row[r].status /\ \A q \in Callers \ {r} : row'[q] = row[q]
      BY <3>2 DEF TypeOK
    <3>5. \A q \in Callers \ {r} : updates'[q] = updates[q]
      BY <3>2 DEF TypeOK
    <3>6. /\ pc[r] \notin {"create", "read", "judge", "refuse", "refused", "close", "sentinel", "done"}
          /\ ~(pool'[r] /\ row'[r].status \notin {"none", "active"})
      BY <3>2, <3>3, <3>4 DEF RowInv
    <3>. QED BY <3>2, <3>4, <3>5, <3>6 DEF RowInv, Settled
  <2>17. CASE \E k \in Iterations, c \in Costs : LogEnds(r, k, c)
    <3>1. /\ UNCHANGED <<pc, status, n, pool, row, updates>>
          /\ \E x : logs' = [logs EXCEPT ![r] = @ \ {x}]
      BY <2>17 DEF LogEnds, sessionVars
    <3>2. \A q \in Callers : Settled(q) => Settled(q)'
      BY <3>1 DEF Settled, TypeOK
    <3> QED
      BY <3>1, <3>2 DEF RowInv
  <2>18. CASE Flush(r)
    BY <2>18, AgentLoopAssumption DEF Flush, Goto, Settled, sessionVars, dbVars, streamVars,
        TypeOK, Stops, Awaits, Statuses, Iterations, RowInv, NoRow, DbStatus
  <2>19. CASE CloseSession(r)
    BY <2>19, AgentLoopAssumption DEF CloseSession, Goto, Closed, Written, sessionVars, dbVars,
        streamVars, TypeOK, Stops, Awaits, Statuses, Iterations, RowInv, Settled, NoRow,
        DbStatus
  <2>20. CASE CloseFails(r)
    BY <2>20, AgentLoopAssumption DEF CloseFails, Goto, Closed, Written, sessionVars, dbVars,
        streamVars, TypeOK, Stops, Awaits, Statuses, Iterations, RowInv, Settled, NoRow,
        DbStatus
  <2>21. CASE PutSentinel(r)
    BY <2>21, AgentLoopAssumption DEF PutSentinel, Goto, sessionVars, dbVars, streamVars,
        TypeOK, Stops, Awaits, Statuses, Iterations, RowInv, Settled, NoRow, DbStatus
  <2>22. CASE Get(r)
    BY <2>22, AgentLoopAssumption DEF Get, sessionVars, dbVars, streamVars, TypeOK, Stops,
        Awaits, Statuses, Iterations, RowInv, Settled, NoRow, DbStatus
  <2>23. CASE ConsumerLeaves(r)
    BY <2>23, AgentLoopAssumption DEF ConsumerLeaves, Goto, Cancelled, Forget, Closed, Written,
        sessionVars, dbVars, streamVars, TypeOK, Stops, Awaits, Statuses, Iterations, RowInv,
        Settled, NoRow, DbStatus
  <2>24. CASE CallerCancels(r)
    BY <2>24, AgentLoopAssumption DEF CallerCancels, Goto, Cancelled, Forget, Closed, Written,
        sessionVars, dbVars, streamVars, TypeOK, Stops, Awaits, Statuses, Iterations, RowInv,
        Settled, NoRow, DbStatus
  <2>25. CASE BridgeFails(r)
    BY <2>25 DEF BridgeFails, Goto, sessionVars, dbVars, streamVars,
        TypeOK, Stops, Awaits, Statuses, Iterations, RowInv, Settled
  <2>. QED
    BY <1>2, <2>1, <2>2, <2>3, <2>4, <2>5, <2>6, <2>7, <2>8, <2>9, <2>10, <2>11, <2>12, <2>13, <2>14, <2>15, <2>16, <2>17, <2>18, <2>19, <2>20, <2>21, <2>22, <2>23, <2>24, <2>25 DEF
        RunStep, Write
<1>. QED BY <1>1, <1>2, NextIsRunStep

\* Taking the first of a queue leaves its last, unless that is the first.
LEMMA TailKeepsLast ==
  ASSUME NEW S, NEW q \in Seq(S), q # <<>>, NEW e, q[1] # e, q[Len(q)] = e
  PROVE  Tail(q) # <<>> /\ Tail(q)[Len(Tail(q))] = e
<1>1. Len(q) \in Nat /\ Len(q) # 0
  OBVIOUS
<1>2. Len(q) # 1
  <2>. SUFFICES ASSUME Len(q) = 1 PROVE FALSE OBVIOUS
  <2>1. q[Len(q)] = q[1] OBVIOUS
  <2>. QED BY <2>1
<1>3. Len(Tail(q)) = Len(q) - 1 /\ Len(Tail(q)) \in Nat \ {0}
  BY <1>1, <1>2
<1>4. Tail(q)[Len(Tail(q))] = q[Len(Tail(q)) + 1]
  BY <1>3
<1>5. Tail(q) # <<>>
  <2>. SUFFICES ASSUME Tail(q) = <<>> PROVE FALSE OBVIOUS
  <2>1. Len(Tail(q)) = 0 BY EmptySeq
  <2>. QED BY <2>1, <1>3
<1>6. Len(Tail(q)) + 1 = Len(q)
  BY <1>1, <1>3
<1>7. Tail(q)[Len(Tail(q))] = q[Len(q)]
  BY <1>4, <1>6
<1>. QED BY <1>5, <1>7

(***************************************************************************)
(* Every step keeps the stream invariant: the sentinel is the last thing    *)
(* put, so taking anything before it leaves it last.                        *)
(***************************************************************************)
LEMMA StreamStep ==
  ASSUME TypeOK, StreamInv, [Next]_vars PROVE StreamInv'
<1>1. CASE UNCHANGED vars
  BY <1>1 DEF vars, sessionVars, dbVars, streamVars, TypeOK, Stops, Awaits, Statuses,
        Iterations, StreamInv
<1>2. ASSUME NEW r \in Callers, RunStep(r) PROVE StreamInv'
  <2>1. CASE Start(r)
    BY <2>1, AgentLoopAssumption DEF Start, Goto, Settled, NoRow, sessionVars, dbVars,
        streamVars, TypeOK, Stops, Awaits, Statuses, Iterations, StreamInv
  <2>2. CASE CreateSession(r)
    BY <2>2, AgentLoopAssumption DEF CreateSession, Goto, Written, sessionVars, dbVars,
        streamVars, TypeOK, Stops, Awaits, Statuses, Iterations, StreamInv
  <2>3. CASE ReadSpend(r)
    BY <2>3, AgentLoopAssumption DEF ReadSpend, Goto, sessionVars, dbVars, streamVars, TypeOK,
        Stops, Awaits, Statuses, Iterations, StreamInv
  <2>4. CASE Admit(r)
    BY <2>4, AgentLoopAssumption DEF Admit, Goto, Forget, sessionVars, dbVars, streamVars,
        TypeOK, Stops, Awaits, Statuses, Iterations, StreamInv
  <2>5. CASE Refuse(r)
    BY <2>5, AgentLoopAssumption DEF Refuse, Goto, Forget, sessionVars, dbVars, streamVars,
        TypeOK, Stops, Awaits, Statuses, Iterations, StreamInv
  <2>6. CASE CloseRefused(r)
    BY <2>6, AgentLoopAssumption DEF CloseRefused, Goto, Closed, Written, sessionVars, dbVars,
        streamVars, TypeOK, Stops, Awaits, Statuses, Iterations, StreamInv
  <2>7. CASE DbInitFails(r)
    BY <2>7, AgentLoopAssumption DEF DbInitFails, Goto, Forget, Closed, Written, sessionVars,
        dbVars, streamVars, TypeOK, Stops, Awaits, Statuses, Iterations, StreamInv
  <2>8. CASE CallLLM(r)
    BY <2>8, AgentLoopAssumption DEF CallLLM, Goto, Affordable, sessionVars, dbVars, streamVars,
        TypeOK, Stops, Awaits, Statuses, Iterations, StreamInv
  <2>9. CASE BudgetStops(r)
    <3>1. /\ pc[r] = "loop" /\ pc' = [pc EXCEPT ![r] = "flush"]
          /\ Push(r) /\ UNCHANGED consumer
      BY <2>9 DEF BudgetStops, Goto
    <3>2. pc'[r] = "flush" /\ \A q \in Callers : q # r => pc'[q] = pc[q] /\ queue'[q] = queue[q]
      BY <3>1 DEF Push, TypeOK
    <3>3. \A i \in 1..Len(queue'[r]) : queue'[r][i] # "end"
      BY <3>1 DEF Push, TypeOK, StreamInv
    <3> QED
      BY <3>1, <3>2, <3>3 DEF StreamInv
  <2>10. CASE Exhausted(r)
    BY <2>10, AgentLoopAssumption DEF Exhausted, Goto, sessionVars, dbVars, streamVars, TypeOK,
        Stops, Awaits, Statuses, Iterations, StreamInv
  <2>11. CASE LLMFails(r)
    BY <2>11, AgentLoopAssumption DEF LLMFails, Goto, Push, sessionVars, dbVars, streamVars,
        TypeOK, Stops, Awaits, Statuses, Iterations, StreamInv
  <2>12. CASE LLMMalformed(r)
    BY <2>12, AgentLoopAssumption DEF LLMMalformed, Goto, sessionVars, dbVars, streamVars,
        TypeOK, Stops, Awaits, Statuses, Iterations, StreamInv
  <2>13. CASE FinalAnswer(r)
    <3>1. Push(r) /\ consumer' = consumer /\ pc[r] = "llm" /\ pc' = [pc EXCEPT ![r] = "flush"]
      BY <2>13 DEF FinalAnswer, Goto
    <3>. QED
      BY <3>1, AgentLoopAssumption DEF Push, TypeOK, Stops, Awaits, StreamInv
  <2>14. CASE ToolCalls(r)
    BY <2>14, AgentLoopAssumption DEF ToolCalls, Goto, sessionVars, dbVars, streamVars, TypeOK,
        Stops, Awaits, Statuses, Iterations, StreamInv
  <2>15. CASE ToolsDone(r)
    <3>1. Push(r) /\ consumer' = consumer /\ pc[r] = "tools" /\ pc' = [pc EXCEPT ![r] = "loop"]
      BY <2>15 DEF ToolsDone, Goto
    <3>. QED
      BY <3>1, AgentLoopAssumption DEF Push, TypeOK, Stops, Awaits, StreamInv
  <2>16. CASE \E k \in Iterations : UpdateEnds(r, k)
    BY <2>16, AgentLoopAssumption DEF UpdateEnds, sessionVars, dbVars, streamVars, TypeOK,
        Stops, Awaits, Statuses, Iterations, StreamInv
  <2>17. CASE \E k \in Iterations, c \in Costs : LogEnds(r, k, c)
    BY <2>17, AgentLoopAssumption DEF LogEnds, sessionVars, dbVars, streamVars, TypeOK, Stops,
        Awaits, Statuses, Iterations, StreamInv
  <2>18. CASE Flush(r)
    BY <2>18, AgentLoopAssumption DEF Flush, Goto, Settled, sessionVars, dbVars, streamVars,
        TypeOK, Stops, Awaits, Statuses, Iterations, StreamInv
  <2>19. CASE CloseSession(r)
    BY <2>19, AgentLoopAssumption DEF CloseSession, Goto, Closed, Written, sessionVars, dbVars,
        streamVars, TypeOK, Stops, Awaits, Statuses, Iterations, StreamInv
  <2>20. CASE CloseFails(r)
    BY <2>20, AgentLoopAssumption DEF CloseFails, Goto, Closed, Written, sessionVars, dbVars,
        streamVars, TypeOK, Stops, Awaits, Statuses, Iterations, StreamInv
  <2>21. CASE PutSentinel(r)
    <3>1. /\ pc[r] = "sentinel" /\ pc' = [pc EXCEPT ![r] = "done"] /\ consumer' = consumer
          /\ queue' = IF r \in Streamed THEN [queue EXCEPT ![r] = Append(@, "end")] ELSE queue
      BY <2>21 DEF PutSentinel, Goto
    <3>2. pc'[r] = "done" /\ \A q \in Callers \ {r} : pc'[q] = pc[q] /\ queue'[q] = queue[q]
      BY <3>1 DEF TypeOK
    <3>3. r \in Streamed => queue'[r] # <<>> /\ queue'[r][Len(queue'[r])] = "end"
      BY <3>1 DEF TypeOK
    <3>. QED BY <3>1, <3>2, <3>3 DEF StreamInv
  <2>22. CASE Get(r)
    <3>1. queue[r] \in Seq({"event", "end"}) /\ queue[r] # <<>>
      BY <2>22 DEF Get, TypeOK
    <3>2. /\ Len(Tail(queue[r])) = Len(queue[r]) - 1
          /\ \A i \in 1..Len(Tail(queue[r])) : Tail(queue[r])[i] = queue[r][i + 1]
          /\ Head(queue[r]) = queue[r][1]
      BY <3>1
    <3>3. queue'[r] = Tail(queue[r]) /\ \A q \in Callers \ {r} : queue'[q] = queue[q]
      BY <2>22 DEF Get, TypeOK
    <3>4. /\ consumer'[r] = IF queue[r][1] = "end" THEN "ended" ELSE consumer[r]
          /\ \A q \in Callers \ {r} : consumer'[q] = consumer[q]
          /\ pc' = pc /\ consumer[r] = "reading"
      BY <2>22, <3>2 DEF Get, TypeOK
    <3>5. Len(queue[r]) \in Nat \ {0}
      BY <3>1
    <3>6. \A i \in 1..Len(queue'[r]) : queue'[r][i] = "end" => pc'[r] = "done"
      BY <3>2, <3>3, <3>4, <3>5 DEF StreamInv
    <3>7. consumer'[r] = "ended" => pc'[r] = "done"
      BY <3>4, <3>5 DEF StreamInv
    <3>8. r \in Streamed /\ pc'[r] = "done" /\ consumer'[r] = "reading" =>
            queue'[r] # <<>> /\ queue'[r][Len(queue'[r])] = "end"
      <4>. SUFFICES ASSUME r \in Streamed, pc'[r] = "done", consumer'[r] = "reading"
                    PROVE  queue'[r] # <<>> /\ queue'[r][Len(queue'[r])] = "end"
        OBVIOUS
      <4>1. queue[r][Len(queue[r])] = "end" /\ queue[r][1] # "end"
        BY <3>4 DEF StreamInv
      <4>2. Tail(queue[r]) # <<>> /\ Tail(queue[r])[Len(Tail(queue[r]))] = "end"
        BY ONLY <3>1, <4>1, TailKeepsLast
      <4>. QED BY <3>3, <4>2
    <3>9. ASSUME NEW q \in Callers \ {r}
          PROVE  /\ consumer'[q] = "ended" => pc'[q] = "done"
                 /\ \A i \in 1..Len(queue'[q]) : queue'[q][i] = "end" => pc'[q] = "done"
                 /\ q \in Streamed /\ pc'[q] = "done" /\ consumer'[q] = "reading" =>
                      queue'[q] # <<>> /\ queue'[q][Len(queue'[q])] = "end"
      <4>1. queue'[q] = queue[q] /\ consumer'[q] = consumer[q] /\ pc' = pc
        BY <3>3, <3>4
      <4>. QED BY <4>1 DEF StreamInv
    <3>. QED BY <3>6, <3>7, <3>8, <3>9 DEF StreamInv
  <2>23. CASE ConsumerLeaves(r)
    BY <2>23, AgentLoopAssumption DEF ConsumerLeaves, Goto, Cancelled, Forget, Closed, Written,
        sessionVars, dbVars, streamVars, TypeOK, Stops, Awaits, Statuses, Iterations, StreamInv
  <2>24. CASE CallerCancels(r)
    BY <2>24, AgentLoopAssumption DEF CallerCancels, Goto, Cancelled, Forget, Closed, Written,
        sessionVars, dbVars, streamVars, TypeOK, Stops, Awaits, Statuses, Iterations, StreamInv
  <2>25. CASE BridgeFails(r)
    BY <2>25 DEF BridgeFails, Goto, sessionVars, dbVars, streamVars,
        TypeOK, Stops, Awaits, Statuses, Iterations, StreamInv
  <2>. QED
    BY <1>2, <2>1, <2>2, <2>3, <2>4, <2>5, <2>6, <2>7, <2>8, <2>9, <2>10, <2>11, <2>12, <2>13, <2>14, <2>15, <2>16, <2>17, <2>18, <2>19, <2>20, <2>21, <2>22, <2>23, <2>24, <2>25 DEF
        RunStep, Write
<1>. QED BY <1>1, <1>2, NextIsRunStep

(***************************************************************************)
(* The theorems.                                                            *)
(***************************************************************************)
Inv == TypeOK /\ SpendInv /\ RowInv /\ StreamInv

LEMMA InvHolds == Spec => []Inv
<1>1. Init => Inv
  BY AgentLoopAssumption DEF Init, Inv, TypeOK, SpendInv, RowInv, StreamInv, SessionCap, Settled,
        NoRow, Stops, Awaits, Statuses, Iterations
<1>2. Inv /\ [Next]_vars => Inv'
  BY TypeStep, SpendStep, RowStep, StreamStep DEF Inv
<1>. QED BY <1>1, <1>2, PTL DEF Spec

\* The types, which say that iterations and stream queues stay within bounds
\* (loop.py's for, put_nowait's QueueFull).
THEOREM TypeCorrect == Spec => []TypeOK
BY InvHolds, PTL DEF Inv

\* check_budget keeps every session within its limit, less the estimate, plus
\* one call, whatever calls cost.
THEOREM SessionSpendIsBounded == Spec => []SessionSpendBounded
<1>1. Inv => SessionSpendBounded
  BY DEF Inv, SpendInv, SessionSpendBounded
<1>. QED BY InvHolds, <1>1, PTL

\* close_session has the last word on the row, whatever the order in which
\* the updates of the iterations land.
THEOREM RowIsHonest == Spec => []RowTellsSession
<1>1. Inv => RowTellsSession
  BY DEF Inv, RowInv, RowTellsSession
<1>. QED BY InvHolds, <1>1, PTL

\* The sentinel comes after the flush and the close.
THEOREM StreamEndIsLast == Spec => []StreamEndMeansSettled
<1>1. Inv => StreamEndMeansSettled
  BY DEF Inv, RowInv, StreamInv, StreamEndMeansSettled
<1>. QED BY InvHolds, <1>1, PTL

\* The sentinel is never dropped, whatever the size of the queue.
THEOREM SentinelIsDelivered == Spec => []SentinelDelivered
<1>1. Inv => SentinelDelivered
  BY AgentLoopAssumption DEF Inv, StreamInv, SentinelDelivered
<1>. QED BY InvHolds, <1>1, PTL

\* A client that reads to the sentinel gets it, and finds the session settled.
THEOREM StreamEndIsSound == Spec => []StreamEndSound
<1>1. StreamEndMeansSettled /\ SentinelDelivered => StreamEndSound
  BY DEF StreamEndSound
<1> QED
  BY <1>1, StreamEndIsLast, SentinelIsDelivered, PTL
-----------------------------------------------------------------------------
(***************************************************************************)
(* The project's money.  A run may still log what it may still spend, once  *)
(* the project's budget has let it in, and the costs it has under way: that *)
(* is what it owes.  A read that lets a run in shows logged costs below the *)
(* budget; from there on what is logged and what is owed only trade places. *)
(***************************************************************************)
Entries == Iterations \X Costs

Amounts(L) == [e \in Entries |-> IF e \in L THEN e[2] ELSE 0]

\* The sum of a set of costs under way.
Open(L) == Total(Entries, Amounts(L))

Room(r) ==
  IF pool[r] /\ pc[r] \in {"loop", "llm", "tools"} THEN SessionCap - spent[r]
  ELSE IF pc[r] = "judge" /\ seen[r] < ProjectBudget THEN SessionCap
  ELSE 0

Owed == [r \in Callers |-> Room(r) + Open(logs[r])]

BillInv ==
  \A r \in Callers : /\ \A e \in logs[r] : e[1] <= n[r]
                     /\ Open(logs[r]) <= spent[r]

MoneyInv ==
  logged + Total(Callers, Owed) <=
    (IF ProjectBudget = 0 THEN 0 ELSE ProjectBudget - 1 + Cardinality(Callers) * SessionCap)

LEMMA CapIsNumber == SessionCap \in Nat
BY AgentLoopAssumption DEF SessionCap

LEMMA EntriesAreFinite == IsFiniteSet(Entries) /\ \A e \in Entries : e[2] \in 0..MaxCost
<1>1. IsFiniteSet(1..MaxIterations) /\ IsFiniteSet(0..MaxCost)
  BY AgentLoopAssumption, FS_Interval
<1>2. IsFiniteSet(Costs)
  BY <1>1, AgentLoopAssumption, FS_Subset
<1> QED
  BY <1>1, <1>2, AgentLoopAssumption, FS_Product DEF Entries, Iterations

LEMMA AmountsAreNumbers ==
  ASSUME NEW L PROVE \A e \in Entries : Amounts(L)[e] \in Nat
BY EntriesAreFinite, AgentLoopAssumption DEF Amounts

LEMMA OpenIsNumber == ASSUME NEW L PROVE Open(L) \in Nat
BY EntriesAreFinite, AmountsAreNumbers, TotalIsNat DEF Open

LEMMA OpenOfNone == Open({}) = 0
BY TotalOfZeros DEF Open, Amounts

LEMMA OpenAdds ==
  ASSUME NEW L, NEW e \in Entries, e \notin L
  PROVE  Open(L \cup {e}) = Open(L) + e[2]
<1> DEFINE f == Amounts(L)
           g == Amounts(L \cup {e})
<1>1. f[e] = 0 /\ g[e] = e[2] /\ \A x \in Entries \ {e} : f[x] = g[x]
  BY DEF Amounts
<1>2. (\A x \in Entries : f[x] \in Nat) /\ (\A x \in Entries : g[x] \in Nat)
  BY AmountsAreNumbers
<1> HIDE DEF f, g
<1>3. Total(Entries, f) + g[e] = Total(Entries, g) + f[e]
  BY <1>1, <1>2, EntriesAreFinite, TotalMoves
<1>4. Total(Entries, f) \in Nat /\ Total(Entries, g) \in Nat
  BY <1>2, EntriesAreFinite, TotalIsNat
<1>5. Total(Entries, g) = Total(Entries, f) + e[2]
  BY <1>1, <1>3, <1>4, EntriesAreFinite
<1> QED
  BY <1>5 DEF Open, f, g

LEMMA OpenRemoves ==
  ASSUME NEW L, NEW e \in Entries, e \in L
  PROVE  Open(L \ {e}) + e[2] = Open(L)
<1>1. (L \ {e}) \cup {e} = L
  OBVIOUS
<1>2. Open((L \ {e}) \cup {e}) = Open(L \ {e}) + e[2]
  BY OpenAdds
<1> QED
  BY <1>1, <1>2

LEMMA OpenShrinks ==
  ASSUME NEW L, NEW K, K \subseteq L
  PROVE  Open(K) <= Open(L)
<1>1. \A e \in Entries : /\ Amounts(K)[e] \in Nat /\ Amounts(L)[e] \in Nat
                         /\ Amounts(K)[e] <= Amounts(L)[e]
  BY EntriesAreFinite, AgentLoopAssumption DEF Amounts
<1> QED
  BY <1>1, EntriesAreFinite, AgentLoopAssumption, TotalIsMonotone DEF Open

(***************************************************************************)
(* What a step does to the money of its run, and to nobody else's.          *)
(***************************************************************************)
SessionStays(q) == /\ n'[q] = n[q] /\ spent'[q] = spent[q]
                   /\ pc'[q] = pc[q] /\ pool'[q] = pool[q] /\ seen'[q] = seen[q]

\* No cost is added and no room is made.
Quiet(r) ==
  /\ logged' = logged /\ logs'[r] \subseteq logs[r]
  /\ n'[r] = n[r] /\ spent'[r] = spent[r]
  /\ Room(r)' = Room(r) \/ Room(r)' = 0

\* A new run: nothing is under way and there is no room yet.
Fresh(r) ==
  /\ logged' = logged /\ logs[r] = {} /\ logs'[r] = {}
  /\ n'[r] = 0 /\ spent'[r] = 0 /\ Room(r)' = 0

\* A read that will let the run in.
LetIn(r) ==
  /\ logged' = logged /\ logs' = logs /\ n' = n /\ spent' = spent
  /\ logged < ProjectBudget /\ pc'[r] = "judge"

Admitted(r) ==
  /\ logged' = logged /\ logs' = logs /\ n' = n /\ spent' = spent
  /\ Room(r) = SessionCap /\ Room(r)' \in {SessionCap - spent[r], 0}

Iterates(r) ==
  /\ logged' = logged
  /\ pc[r] \in {"llm", "tools"} /\ pc'[r] \in {"loop", "flush"} /\ pool' = pool
  /\ \E c \in Costs : AddIteration(r, c)

Lands(r) ==
  \E k \in Iterations, c \in Costs :
    /\ <<k, c>> \in logs[r] /\ logs'[r] = logs[r] \ {<<k, c>>}
    /\ logged' \in {logged, logged + c}
    /\ SessionStays(r)

LEMMA MoneySteps ==
  ASSUME TypeOK, NEW r \in Callers, RunStep(r)
  PROVE  /\ \A q \in Callers \ {r} : SessionStays(q) /\ logs'[q] = logs[q]
         /\ \/ Quiet(r) \/ Fresh(r) \/ LetIn(r) \/ Admitted(r) \/ Iterates(r) \/ Lands(r)
<1> DEFINE Alone == \A q \in Callers \ {r} : SessionStays(q) /\ logs'[q] = logs[q]
<1> USE DEF SessionStays
<1>0. /\ pc \in [Callers -> Stops \cup Awaits \cup {"loop"}]
      /\ n \in [Callers -> 0..MaxIterations] /\ spent \in [Callers -> Nat]
      /\ pool \in [Callers -> BOOLEAN] /\ seen \in [Callers -> Nat]
      /\ logs \in [Callers -> SUBSET (Iterations \X Costs)] /\ logged \in Nat
  BY DEF TypeOK
<1>1. CASE Start(r)
  BY <1>0, <1>1 DEF Start, Goto, Settled, Fresh, Room
<1>2. CASE CreateSession(r) \/ CloseRefused(r) \/ Exhausted(r) \/ LLMFails(r)
             \/ LLMMalformed(r) \/ BudgetStops(r)
  BY <1>0, <1>2 DEF CreateSession, CloseRefused, Exhausted, LLMFails, LLMMalformed,
       BudgetStops, Goto, sessionVars, dbVars, Quiet, Room
<1>3. CASE ReadSpend(r)
  <2>1. Alone
    BY <1>0, <1>3 DEF ReadSpend, Goto, sessionVars, dbVars
  <2>2. CASE logged < ProjectBudget
    BY <1>0, <1>3, <2>1, <2>2 DEF ReadSpend, Goto, sessionVars, dbVars, LetIn
  <2>3. CASE ~(logged < ProjectBudget)
    BY <1>0, <1>3, <2>1, <2>3 DEF ReadSpend, Goto, sessionVars, dbVars, Quiet, Room
  <2> QED
    BY <2>2, <2>3
<1>4. CASE Admit(r)
  <2>1. Alone
    BY <1>0, <1>4 DEF Admit, Goto, Forget, sessionVars, dbVars
  <2>2. Room(r) = SessionCap
    BY <1>4 DEF Admit, WithinProject, Room
  <2>3. Room(r)' \in {SessionCap - spent[r], 0}
    BY <1>0, <1>4 DEF Admit, Goto, Forget, sessionVars, Room, SessionCap
  <2> QED
    BY <1>4, <2>1, <2>2, <2>3 DEF Admit, sessionVars, dbVars, Admitted
<1>5. CASE Refuse(r)
  BY <1>0, <1>5 DEF Refuse, Goto, Forget, dbVars, Quiet, Room
<1>6. CASE DbInitFails(r)
  BY <1>0, <1>6 DEF DbInitFails, Goto, Forget, sessionVars, Quiet, Room
<1>7. CASE CallLLM(r) \/ ToolCalls(r)
  BY <1>0, <1>7 DEF CallLLM, ToolCalls, Goto, sessionVars, dbVars, Quiet, Room, SessionCap
<1>8. CASE FinalAnswer(r) \/ ToolsDone(r)
  <2>1. /\ pc[r] \in {"llm", "tools"} /\ pool' = pool /\ seen' = seen /\ logged' = logged
        /\ pc' \in {[pc EXCEPT ![r] = "loop"], [pc EXCEPT ![r] = "flush"]}
    BY <1>8 DEF FinalAnswer, ToolsDone, Goto
  <2>2. PICK c \in Costs : AddIteration(r, c)
    BY <1>8 DEF FinalAnswer, ToolsDone
  <2>3. Alone
    BY <1>0, <2>1, <2>2 DEF AddIteration
  <2> QED
    BY <1>0, <2>1, <2>2, <2>3 DEF Iterates
<1>9. ASSUME NEW k \in Iterations, UpdateEnds(r, k)
      PROVE  Alone /\ Quiet(r)
  BY <1>9 DEF UpdateEnds, sessionVars, Quiet, Room, SessionCap
<1>10. ASSUME NEW k \in Iterations, NEW c \in Costs, LogEnds(r, k, c)
       PROVE  Alone /\ Lands(r)
  <2>1. /\ <<k, c>> \in logs[r] /\ logs'[r] = logs[r] \ {<<k, c>>}
        /\ logged' \in {logged, logged + c}
    BY <1>0, <1>10 DEF LogEnds
  <2>2. SessionStays(r)
    BY <1>10 DEF LogEnds, sessionVars
  <2>3. Alone
    BY <1>0, <1>10 DEF LogEnds, sessionVars
  <2> QED
    BY <2>1, <2>2, <2>3 DEF Lands
<1>11. CASE Flush(r) \/ BridgeFails(r) \/ CloseSession(r) \/ CloseFails(r) \/ PutSentinel(r)
  BY <1>0, <1>11 DEF Flush, BridgeFails, CloseSession, CloseFails, PutSentinel, Goto,
       sessionVars, dbVars, Quiet, Room
<1>12. CASE Get(r) \/ (ConsumerLeaves(r) /\ UNCHANGED <<pc, sessionVars, pool, seen, dbVars>>)
  BY <1>12 DEF Get, sessionVars, dbVars, Quiet, Room, SessionCap
<1>13. CASE Cancelled(r)
  <2>1. Alone /\ logs'[r] \subseteq logs[r]
    <3>1. CASE pc[r] = "flush"
      <4>1. PICK left \in SUBSET logs[r] : logs' = [logs EXCEPT ![r] = left]
        BY <1>13, <3>1 DEF Cancelled
      <4> QED
        BY <1>0, <1>13, <4>1 DEF Cancelled, Goto, Forget, sessionVars
    <3>2. CASE pc[r] # "flush"
      BY <1>0, <1>13, <3>2 DEF Cancelled, Goto, Forget, sessionVars
    <3> QED
      BY <3>1, <3>2
  <2> QED
    BY <1>0, <1>13, <2>1 DEF Cancelled, Goto, sessionVars, Quiet, Room
<1>14. CASE ConsumerLeaves(r) \/ CallerCancels(r)
  BY <1>12, <1>13, <1>14 DEF ConsumerLeaves, CallerCancels
<1> QED
  BY <1>1, <1>2, <1>3, <1>4, <1>5, <1>6, <1>7, <1>8, <1>9, <1>10, <1>11, <1>12, <1>14
     DEF RunStep, Write
\* What an iteration adds to the costs under way: its own, which is new.
LEMMA IterationOpens ==
  ASSUME TypeOK, SpendInv, BillInv, NEW r \in Callers, NEW c \in Costs,
         pc[r] \in {"llm", "tools"}, AddIteration(r, c)
  PROVE  /\ n'[r] = n[r] + 1 /\ spent'[r] = spent[r] + c
         /\ logs'[r] \in SUBSET Entries /\ \A e \in logs'[r] : e[1] <= n[r] + 1
         /\ IF pool[r] THEN Open(logs'[r]) = Open(logs[r]) + c ELSE logs'[r] = logs[r]
<1>0. /\ n \in [Callers -> 0..MaxIterations] /\ spent \in [Callers -> Nat]
      /\ logs \in [Callers -> SUBSET Entries] /\ n[r] < MaxIterations
  BY DEF TypeOK, Entries, SpendInv
<1>1. n'[r] = n[r] + 1 /\ spent'[r] = spent[r] + c
  BY <1>0 DEF AddIteration
<1> DEFINE e == <<n[r] + 1, c>>
<1>2. e \in Entries /\ e[2] = c /\ e[1] = n[r] + 1
  BY <1>0, AgentLoopAssumption DEF Entries, Iterations
<1>3. \A d \in logs[r] : d \in Entries /\ d[1] \in Nat /\ d[1] <= n[r]
  BY <1>0, AgentLoopAssumption DEF BillInv, Entries, Iterations
<1>4. e \notin logs[r]
  BY <1>0, <1>2, <1>3
<1> HIDE DEF e
<1>5. Open(logs[r] \cup {e}) = Open(logs[r]) + c
  BY <1>2, <1>4, OpenAdds
<1>6. logs'[r] = IF pool[r] THEN logs[r] \cup {e} ELSE logs[r]
  BY <1>0 DEF AddIteration, e
<1>7. \A d \in logs'[r] : d \in Entries /\ d[1] <= n[r] + 1
  BY <1>0, <1>2, <1>3, <1>6
<1> QED
  BY <1>1, <1>5, <1>6, <1>7

LEMMA LandingCloses ==
  ASSUME TypeOK, NEW r \in Callers, NEW k \in Iterations, NEW c \in Costs,
         <<k, c>> \in logs[r], logs'[r] = logs[r] \ {<<k, c>>}
  PROVE  Open(logs'[r]) + c = Open(logs[r])
BY OpenRemoves DEF Entries

\* A cost under way is that of an iteration the session has counted.
LEMMA BillStep ==
  ASSUME TypeOK, SpendInv, BillInv, [Next]_vars PROVE BillInv'
<1> DEFINE Bill(q) == (\A e \in logs[q] : e[1] <= n[q]) /\ Open(logs[q]) <= spent[q]
<1>0. \A q \in Callers : /\ n[q] \in Nat /\ spent[q] \in Nat /\ Open(logs[q]) \in Nat
                         /\ logs[q] \in SUBSET Entries
  BY OpenIsNumber DEF TypeOK, Entries
<1>1. CASE UNCHANGED vars
  BY <1>1 DEF vars, sessionVars, dbVars, BillInv
<1>2. ASSUME NEW r \in Callers, RunStep(r) PROVE BillInv'
  <2>1. \A q \in Callers \ {r} : Bill(q)'
    BY <1>2, MoneySteps DEF BillInv, SessionStays
  <2>2. CASE Quiet(r) \/ LetIn(r) \/ Admitted(r)
    <3>1. n'[r] = n[r] /\ spent'[r] = spent[r] /\ logs'[r] \subseteq logs[r]
      BY <2>2 DEF Quiet, LetIn, Admitted
    <3>2. Open(logs'[r]) <= Open(logs[r]) /\ Open(logs'[r]) \in Nat
      BY <3>1, OpenShrinks, OpenIsNumber
    <3>3. Bill(r)'
      BY <1>0, <3>1, <3>2 DEF BillInv
    <3> QED
      BY <2>1, <3>3 DEF BillInv
  <2>3. CASE Fresh(r)
    <3>1. Bill(r)'
      BY <2>3, OpenOfNone DEF Fresh
    <3> QED
      BY <2>1, <3>1 DEF BillInv
  <2>4. CASE Iterates(r)
    <3>1. PICK c \in Costs : AddIteration(r, c)
      BY <2>4 DEF Iterates
    <3>2. c \in Nat
      BY AgentLoopAssumption
    <3>3. Open(logs[r]) <= spent[r]
      BY DEF BillInv
    <3>4. /\ n'[r] = n[r] + 1 /\ spent'[r] = spent[r] + c
          /\ \A e \in logs'[r] : e[1] <= n[r] + 1
          /\ IF pool[r] THEN Open(logs'[r]) = Open(logs[r]) + c ELSE logs'[r] = logs[r]
      BY <2>4, <3>1, IterationOpens DEF Iterates
    <3>5. Open(logs'[r]) <= spent'[r]
      BY <1>0, <3>2, <3>3, <3>4
    <3> QED
      BY <2>1, <3>4, <3>5 DEF BillInv
  <2>5. CASE Lands(r)
    <3>1. PICK k \in Iterations, c \in Costs :
            <<k, c>> \in logs[r] /\ logs'[r] = logs[r] \ {<<k, c>>} /\ SessionStays(r)
      BY <2>5 DEF Lands
    <3>2. Open(logs'[r]) <= Open(logs[r]) /\ Open(logs'[r]) \in Nat
      BY <3>1, OpenShrinks, OpenIsNumber
    <3>3. Bill(r)'
      BY <1>0, <3>1, <3>2 DEF BillInv, SessionStays
    <3> QED
      BY <2>1, <3>3 DEF BillInv
  <2> QED
    BY <1>2, <2>2, <2>3, <2>4, <2>5, MoneySteps
<1> QED
  BY <1>1, <1>2, NextIsRunStep

\* Nobody owes more than a session may cost.
OwedBounded ==
  \A r \in Callers : Room(r) + Open(logs[r]) \in 0..SessionCap /\ Room(r) \in Nat

LEMMA OwedIsBounded ==
  TypeOK /\ SpendInv /\ RowInv /\ BillInv => OwedBounded
<1> SUFFICES ASSUME TypeOK, SpendInv, RowInv, BillInv, NEW r \in Callers
             PROVE  Room(r) + Open(logs[r]) \in 0..SessionCap /\ Room(r) \in Nat
  BY DEF OwedBounded
<1>0. /\ spent[r] \in Nat /\ spent[r] <= SessionCap /\ Open(logs[r]) \in Nat
      /\ Open(logs[r]) <= spent[r] /\ SessionCap \in Nat
  BY OpenIsNumber, CapIsNumber DEF TypeOK, SpendInv, BillInv
<1> HIDE DEF SessionCap
<1>1. CASE pool[r] /\ pc[r] \in {"loop", "llm", "tools"}
  BY <1>0, <1>1 DEF Room
<1>2. CASE pc[r] = "judge"
  <2>1. Open(logs[r]) = 0
    BY <1>2, OpenOfNone DEF RowInv, Settled
  <2> QED
    BY <1>0, <1>2, <2>1 DEF Room
<1>3. CASE ~(pool[r] /\ pc[r] \in {"loop", "llm", "tools"}) /\ pc[r] # "judge"
  BY <1>0, <1>3 DEF Room
<1> QED
  BY <1>1, <1>2, <1>3

\* A step of a run lets its debt fall, or logs what the debt falls by, or is
\* the read that lets it in.
LEMMA DebtSteps ==
  ASSUME TypeOK, SpendInv, RowInv, BillInv, BillInv', NEW r \in Callers, RunStep(r)
  PROVE  \/ logged' = logged /\ Room(r)' + Open(logs'[r]) <= Room(r) + Open(logs[r])
         \/ logged' + Room(r)' + Open(logs'[r]) = logged + Room(r) + Open(logs[r])
         \/ logged' = logged /\ logged < ProjectBudget
<1>0. /\ Room(r) \in Nat /\ Open(logs[r]) \in Nat /\ Open(logs'[r]) \in Nat /\ logged \in Nat
      /\ spent[r] \in Nat /\ spent[r] <= SessionCap /\ SessionCap \in Nat
  BY OwedIsBounded, OpenIsNumber, CapIsNumber DEF OwedBounded, TypeOK, SpendInv
<1>1. CASE Quiet(r)
  <2>1. Open(logs'[r]) <= Open(logs[r])
    BY <1>1, OpenShrinks DEF Quiet
  <2> QED
    BY <1>0, <1>1, <2>1 DEF Quiet
<1>2. CASE Fresh(r)
  BY <1>0, <1>2, OpenOfNone DEF Fresh
<1>3. CASE LetIn(r)
  BY <1>3 DEF LetIn
<1>4. CASE Admitted(r)
  <2>1. logged' = logged /\ logs' = logs /\ Room(r) = SessionCap
        /\ (Room(r)' = SessionCap - spent[r] \/ Room(r)' = 0)
    BY <1>4 DEF Admitted
  <2> QED
    BY <1>0, <2>1
<1>5. CASE Iterates(r)
  <2>1. PICK c \in Costs : AddIteration(r, c)
    BY <1>5 DEF Iterates
  <2>2. /\ spent'[r] = spent[r] + c /\ c \in Nat
        /\ IF pool[r] THEN Open(logs'[r]) = Open(logs[r]) + c ELSE logs'[r] = logs[r]
    BY <1>5, <2>1, IterationOpens, AgentLoopAssumption DEF Iterates
  <2>3. logged' = logged /\ Room(r) = IF pool[r] THEN SessionCap - spent[r] ELSE 0
    BY <1>5 DEF Iterates, Room
  <2>4. Room(r)' \in {IF pool[r] THEN SessionCap - spent'[r] ELSE 0, 0}
    BY <1>5 DEF Iterates, Room, SessionCap
  <2>5. pool[r] => SessionCap - spent[r] - c + Open(logs[r]) + c = SessionCap - spent[r] + Open(logs[r])
    BY <1>0, <2>2
  <2>6. CASE pool[r] /\ Room(r)' = SessionCap - spent'[r]
    BY <1>0, <2>2, <2>3, <2>6
  <2>7. CASE pool[r] /\ Room(r)' = 0
    <3>1. spent[r] + c <= SessionCap
      BY <1>0, <1>5, <2>2, AgentLoopAssumption DEF Iterates, SpendInv, SessionCap
    <3> QED
      BY <1>0, <2>2, <2>3, <2>7, <3>1
  <2>8. CASE ~pool[r]
    BY <1>0, <2>2, <2>3, <2>4, <2>8
  <2> QED
    BY <2>4, <2>6, <2>7, <2>8
<1>6. CASE Lands(r)
  <2>1. PICK k \in Iterations, c \in Costs :
          /\ <<k, c>> \in logs[r] /\ logs'[r] = logs[r] \ {<<k, c>>}
          /\ logged' \in {logged, logged + c} /\ SessionStays(r)
    BY <1>6 DEF Lands
  <2>2. c \in Nat
    BY AgentLoopAssumption
  <2>3. Open(logs'[r]) + c = Open(logs[r])
    BY <2>1, LandingCloses
  <2>4. Room(r)' = Room(r)
    BY <2>1 DEF SessionStays, Room, SessionCap
  <2> QED
    BY <1>0, <2>1, <2>2, <2>3, <2>4
<1> QED
  BY <1>1, <1>2, <1>3, <1>4, <1>5, <1>6, MoneySteps

LEMMA Trade ==
  ASSUME NEW a \in Nat, NEW b \in Nat, NEW c \in Nat, NEW d \in Nat, NEW e \in Nat,
         NEW f \in Nat, a + d = b + c, e + d = f + c
  PROVE  e + b = f + a
OBVIOUS

LEMMA MoneyStep ==
  ASSUME TypeOK, SpendInv, RowInv, BillInv, MoneyInv, [Next]_vars,
         TypeOK', SpendInv', RowInv', BillInv'
  PROVE  MoneyInv'
<1>0. /\ IsFiniteSet(Callers) /\ SessionCap \in Nat /\ logged \in Nat /\ logged' \in Nat
      /\ ProjectBudget \in Nat /\ Cardinality(Callers) \in Nat
  BY AgentLoopAssumption, CapIsNumber, FS_CardinalityType DEF TypeOK
<1>1. \A q \in Callers : Owed[q] \in 0..SessionCap
  BY OwedIsBounded DEF Owed, OwedBounded
<1>2. /\ \A q \in Callers : Owed'[q] \in 0..SessionCap
      /\ \A q \in Callers : Room(q)' \in Nat
  <2>1. OwedBounded'
    BY OwedIsBounded, PTL
  <2> QED
    BY <2>1 DEF OwedBounded, Owed, SessionCap
<1> DEFINE T == Total(Callers, Owed)
           U == Total(Callers, Owed')
<1>3. T \in Nat /\ U \in Nat /\ U <= Cardinality(Callers) * SessionCap
  BY <1>0, <1>1, <1>2, TotalIsNat, TotalIsBounded
<1>4. MoneyInv' <=> logged' + U <=
        (IF ProjectBudget = 0 THEN 0 ELSE ProjectBudget - 1 + Cardinality(Callers) * SessionCap)
  BY DEF MoneyInv, SessionCap
<1>5. Owed = [q \in Callers |-> Owed[q]] /\ \A q \in Callers : Owed[q] = Room(q) + Open(logs[q])
  BY DEF Owed
<1>6. \A q \in Callers : Owed'[q] = Room(q)' + Open(logs'[q])
  BY DEF Owed
<1>7. CASE UNCHANGED vars
  <2>1. \A q \in Callers : Owed'[q] = Owed[q]
    BY <1>7 DEF vars, sessionVars, dbVars, Owed, Room, SessionCap
  <2>2. U <= T
    BY <1>0, <1>1, <2>1, TotalIsMonotone
  <2>3. logged' = logged
    BY <1>7 DEF vars, dbVars
  <2> QED
    BY <1>0, <1>3, <1>4, <2>2, <2>3 DEF MoneyInv
<1>8. ASSUME NEW r \in Callers, RunStep(r) PROVE MoneyInv'
  <2>1. \A q \in Callers \ {r} : Owed'[q] = Owed[q]
    <3>1. ASSUME NEW q \in Callers \ {r} PROVE Room(q)' = Room(q) /\ logs'[q] = logs[q]
      BY <1>8, MoneySteps DEF SessionStays, Room, SessionCap
    <3> QED
      BY <1>5, <1>6, <3>1
  <2>2. CASE logged' = logged /\ Room(r)' + Open(logs'[r]) <= Room(r) + Open(logs[r])
    <3>1. \A q \in Callers : Owed'[q] <= Owed[q]
      BY <1>1, <1>5, <1>6, <2>1, <2>2, <1>0
    <3>2. U <= T
      BY <1>0, <1>1, <1>2, <3>1, TotalIsMonotone
    <3> QED
      BY <1>0, <1>3, <1>4, <2>2, <3>2 DEF MoneyInv
  <2>3. CASE logged' + Room(r)' + Open(logs'[r]) = logged + Room(r) + Open(logs[r])
    <3>1. T + Owed'[r] = U + Owed[r]
      BY <1>0, <1>1, <1>2, <2>1, TotalMoves
    <3>2. logged' + Owed'[r] = logged + Owed[r]
      <4>1. /\ Room(r) \in Nat /\ Open(logs[r]) \in Nat
        BY OwedIsBounded, OpenIsNumber DEF OwedBounded
      <4>2. Room(r)' \in Nat /\ Open(logs'[r]) \in Nat
        BY <1>2, OpenIsNumber
      <4> QED
        BY <1>0, <1>5, <1>6, <2>3, <4>1, <4>2
    <3>3. Owed[r] \in Nat /\ Owed'[r] \in Nat
      BY <1>0, <1>1, <1>2
    <3>4. logged' + U = logged + T
      BY <1>0, <1>3, <3>1, <3>2, <3>3, Trade
    <3> QED
      BY <1>0, <1>3, <1>4, <3>4 DEF MoneyInv
  <2>4. CASE logged' = logged /\ logged < ProjectBudget
    BY <1>0, <1>3, <1>4, <2>4
  <2> QED
    BY <1>8, <2>2, <2>3, <2>4, DebtSteps
<1> QED
  BY <1>7, <1>8, NextIsRunStep

\* The project's budget is overshot by the sessions under way at a time, and
\* no further, however late their costs are logged.
THEOREM ProjectIsSound == Spec => []ProjectSound
<1> DEFINE AllInv == Inv /\ BillInv /\ MoneyInv
<1>1. Init => AllInv
  <2> SUFFICES ASSUME Init PROVE AllInv
    OBVIOUS
  <2>1. Inv
    BY AgentLoopAssumption DEF Init, Inv, TypeOK, SpendInv, RowInv, StreamInv, SessionCap,
         Settled, NoRow, Stops, Awaits, Statuses, Iterations
  <2>2. \A r \in Callers : /\ logs[r] = {} /\ Open(logs[r]) = 0 /\ spent[r] = 0
                           /\ Room(r) = 0
    BY OpenOfNone DEF Init, Room
  <2>3. BillInv
    BY <2>2 DEF BillInv
  <2>4. Total(Callers, Owed) = 0
    BY <2>2, CapIsNumber, TotalOfZeros DEF Owed
  <2>5. MoneyInv
    <3>1. Cardinality(Callers) * SessionCap \in Nat
      BY AgentLoopAssumption, CapIsNumber, FS_CardinalityType
    <3> QED
      BY <2>4, <3>1, AgentLoopAssumption DEF MoneyInv, Init
  <2> QED
    BY <2>1, <2>3, <2>5
<1>2. AllInv /\ [Next]_vars => AllInv'
  <2> SUFFICES ASSUME AllInv, [Next]_vars PROVE AllInv'
    OBVIOUS
  <2>1. Inv'
    BY TypeStep, SpendStep, RowStep, StreamStep DEF Inv
  <2>2. BillInv'
    BY BillStep DEF Inv
  <2>3. MoneyInv'
    BY <2>1, <2>2, MoneyStep DEF Inv
  <2> QED
    BY <2>1, <2>2, <2>3
<1>3. AllInv => ProjectSound
  <2> SUFFICES ASSUME AllInv PROVE ProjectSound
    OBVIOUS
  <2>1. Total(Callers, Owed) \in Nat /\ logged \in Nat
    <3>1. \A q \in Callers : Owed[q] \in Nat
      BY CapIsNumber, OwedIsBounded DEF Inv, Owed, OwedBounded
    <3> QED
      BY <3>1, AgentLoopAssumption, TotalIsNat DEF Inv, TypeOK
  <2>2. Cardinality(Callers) * SessionCap \in Nat
    BY AgentLoopAssumption, CapIsNumber, FS_CardinalityType
  <2>3. ProjectSpendBounded
    BY <2>1, <2>2, AgentLoopAssumption DEF MoneyInv, ProjectSpendBounded
  <2> QED
    BY <2>3 DEF Inv, ProjectSound
<1> QED
  BY <1>1, <1>2, <1>3, PTL DEF Spec
-------------------------------------------------------------------------------
(***************************************************************************)
(* The model of a run (ModelRouter).  First Python's max.                  *)
(***************************************************************************)
\* The first of the best places is one of them.
LEMMA FirstBestIsFirstBest ==
  ASSUME NEW places \in SUBSET Nat, places # {}, NEW B \in Nat, NEW rank,
         \A i \in places : rank[i] \in 0..B
  PROVE  /\ FirstBest(places, rank) \in places
         /\ \A j \in places :
              /\ rank[j] <= rank[FirstBest(places, rank)]
              /\ j < FirstBest(places, rank) => rank[j] < rank[FirstBest(places, rank)]
<1> DEFINE worse == {B - rank[i] : i \in places}
<1>1. worse \in SUBSET Nat /\ worse # {}
  <2>1. ASSUME NEW i \in places PROVE B - rank[i] \in Nat
    <3>1. rank[i] \in Nat /\ rank[i] <= B
      OBVIOUS
    <3> QED
      BY <3>1
  <2> QED
    BY <2>1
<1>2. PICK w \in worse : \A v \in worse : w <= v
  BY <1>1, LeastNumber
<1> DEFINE best == {i \in places : B - rank[i] = w}
<1>3. best \in SUBSET Nat /\ best # {}
  OBVIOUS
<1>4. PICK i \in best : \A j \in best : i <= j
  BY <1>3, LeastNumber
<1>5. ASSUME NEW j \in places
      PROVE  rank[j] <= rank[i] /\ (j < i => rank[j] < rank[i])
  <2>1. /\ rank[i] \in Nat /\ rank[j] \in Nat /\ i \in Nat /\ j \in Nat
        /\ B - rank[i] <= B - rank[j]
    BY <1>2
  <2>2. CASE j \in best
    BY <1>4, <2>1, <2>2
  <2>3. CASE j \notin best
    BY <2>1, <2>3
  <2> QED
    BY <2>2, <2>3
<1> HIDE DEF best
<1>6. i \in places
  BY DEF best
<1> DEFINE First(k) ==
             \A j \in places : rank[j] <= rank[k] /\ (j < k => rank[j] < rank[k])
<1>7. First(i)
  BY <1>5
<1>8. FirstBest(places, rank) = CHOOSE k \in places : First(k)
  BY DEF FirstBest
<1> HIDE DEF First
<1>9. FirstBest(places, rank) \in places /\ First(FirstBest(places, rank))
  BY <1>6, <1>7, <1>8
<1> QED
  BY <1>9 DEF First

(***************************************************************************)
(* The table: every model is of one of the three kinds, and every list     *)
(* names the Chinese models before the western ones.                       *)
(***************************************************************************)
LEMMA TheTables ==
  /\ \A m \in DOMAIN FreeModels : FreeModels[m].provider \in KeyedProviders
  /\ \A m \in DOMAIN StandardModels : StandardModels[m].provider \in KeyedProviders
  /\ \A m \in DOMAIN PremiumModels : PremiumModels[m].provider \in KeyedProviders
  /\ \A m \in DOMAIN WesternModels : WesternModels[m].provider \in Western
  /\ \A m \in DOMAIN LocalModels : /\ LocalModels[m].provider = "OLLAMA"
                                   /\ LocalModels[m].ram \in Nat \ {0}
<1>1. \A m \in DOMAIN FreeModels : FreeModels[m].provider \in KeyedProviders
  BY DEF FreeModels, Spec4, KeyedProviders, DirectProviders
<1>2. \A m \in DOMAIN StandardModels : StandardModels[m].provider \in KeyedProviders
  BY DEF StandardModels, Spec4, KeyedProviders, DirectProviders
<1>3. \A m \in DOMAIN PremiumModels : PremiumModels[m].provider \in KeyedProviders
  BY DEF PremiumModels, Spec4, KeyedProviders, DirectProviders
<1>4. \A m \in DOMAIN WesternModels : WesternModels[m].provider \in Western
  BY DEF WesternModels, Spec4, Western
<1>5. \A m \in DOMAIN LocalModels : /\ LocalModels[m].provider = "OLLAMA"
                                    /\ LocalModels[m].ram \in Nat \ {0}
  BY DEF LocalModels, Spec4
<1> QED
  BY <1>1, <1>2, <1>3, <1>4, <1>5

LEMMA TheKinds ==
  /\ \A m \in Chinese : m \in DOMAIN Models /\ Models[m].provider \in KeyedProviders
  /\ \A m \in DOMAIN WesternModels : m \in DOMAIN Models /\ Models[m].provider \in Western
  /\ \A m \in DOMAIN LocalModels : /\ m \in DOMAIN Models /\ Models[m].provider = "OLLAMA"
                                   /\ Models[m].ram \in Nat \ {0}
  /\ \A m \in DOMAIN Models : m \in Chinese \/ m \in DOMAIN WesternModels \/ m \in DOMAIN LocalModels
<1>1. /\ Chinese \cap DOMAIN LocalModels = {} /\ Chinese \cap DOMAIN WesternModels = {}
      /\ DOMAIN LocalModels \cap DOMAIN WesternModels = {}
      /\ DOMAIN FreeModels \cap DOMAIN StandardModels = {}
      /\ DOMAIN FreeModels \cap DOMAIN PremiumModels = {}
      /\ DOMAIN StandardModels \cap DOMAIN PremiumModels = {}
  BY DEF Chinese, LocalModels, WesternModels, FreeModels, StandardModels, PremiumModels
<1>2. DOMAIN Models = Chinese \cup DOMAIN WesternModels \cup DOMAIN LocalModels
  BY DEF Models
<1>3. ASSUME NEW m \in Chinese PROVE Models[m].provider \in KeyedProviders
  <2>1. CASE m \in DOMAIN FreeModels
    <3>1. Models[m] = FreeModels[m]
      BY <1>1, <2>1 DEF Models, Chinese
    <3> QED
      BY <2>1, <3>1, TheTables
  <2>2. CASE m \in DOMAIN StandardModels
    <3>1. Models[m] = StandardModels[m]
      BY <1>1, <2>2 DEF Models, Chinese
    <3> QED
      BY <2>2, <3>1, TheTables
  <2>3. CASE m \in DOMAIN PremiumModels
    <3>1. Models[m] = PremiumModels[m]
      BY <1>1, <2>3 DEF Models, Chinese
    <3> QED
      BY <2>3, <3>1, TheTables
  <2> QED
    BY <2>1, <2>2, <2>3 DEF Chinese
<1>4. ASSUME NEW m \in DOMAIN WesternModels PROVE Models[m].provider \in Western
  <2>1. Models[m] = WesternModels[m]
    BY <1>1 DEF Models, Chinese
  <2> QED
    BY <2>1, TheTables
<1>5. ASSUME NEW m \in DOMAIN LocalModels
      PROVE  Models[m].provider = "OLLAMA" /\ Models[m].ram \in Nat \ {0}
  <2>1. Models[m] = LocalModels[m]
    BY <1>1 DEF Models, Chinese
  <2> QED
    BY <2>1, TheTables
<1> QED
  BY <1>2, <1>3, <1>4, <1>5

LEMMA ProvidersApart ==
  /\ KeyedProviders \cap Western = {}
  /\ "OLLAMA" \notin KeyedProviders \cup Western
  /\ DirectProviders \subseteq KeyedProviders
BY DEF KeyedProviders, DirectProviders, Western

LEMMA TheLists ==
  /\ \A i \in DOMAIN ModelsByTier("free") :
       ModelsByTier("free")[i] \in Chinese \cup DOMAIN LocalModels
  /\ \A m \in DOMAIN LocalModels : \E i \in DOMAIN ModelsByTier("free") :
       ModelsByTier("free")[i] = m
  /\ \A i \in DOMAIN ModelsByTier("standard") :
       ModelsByTier("standard")[i] \in IF i <= 4 THEN Chinese ELSE DOMAIN WesternModels
  /\ \A i \in DOMAIN ModelsByTier("premium") :
       ModelsByTier("premium")[i] \in IF i <= 4 THEN Chinese ELSE DOMAIN WesternModels
  /\ \A t \in RouteTiers : /\ DOMAIN ModelsByTier(t) \in SUBSET Nat /\ 1 \in DOMAIN ModelsByTier(t)
                           /\ ModelsByTier(t)[1] \in Chinese
<1>1. \A i \in DOMAIN ModelsByTier("free") :
        ModelsByTier("free")[i] \in Chinese \cup DOMAIN LocalModels
  BY DEF ModelsByTier, Chinese, FreeModels, LocalModels
<1>2. \A m \in DOMAIN LocalModels : \E i \in DOMAIN ModelsByTier("free") :
        ModelsByTier("free")[i] = m
  BY DEF ModelsByTier, LocalModels
<1>3. \A i \in DOMAIN ModelsByTier("standard") :
        ModelsByTier("standard")[i] \in IF i <= 4 THEN Chinese ELSE DOMAIN WesternModels
  BY DEF ModelsByTier, Chinese, StandardModels, WesternModels
<1>4. \A i \in DOMAIN ModelsByTier("premium") :
        ModelsByTier("premium")[i] \in IF i <= 4 THEN Chinese ELSE DOMAIN WesternModels
  BY DEF ModelsByTier, Chinese, PremiumModels, WesternModels
<1>5. \A t \in RouteTiers : /\ DOMAIN ModelsByTier(t) \in SUBSET Nat
                            /\ 1 \in DOMAIN ModelsByTier(t)
                            /\ ModelsByTier(t)[1] \in Chinese
  BY DEF ModelsByTier, RouteTiers, Chinese, FreeModels, StandardModels, PremiumModels
<1> QED
  BY <1>1, <1>2, <1>3, <1>4, <1>5

LEMMA TheChains ==
  ASSUME NEW t \in RouteTiers
  PROVE  /\ DOMAIN DefaultRouting(t) \in SUBSET Nat /\ 1 \in DOMAIN DefaultRouting(t)
         /\ DefaultRouting(t)[1] = ModelsByTier(t)[1]
         /\ \A i \in DOMAIN DefaultRouting(t) : i >= 1
BY DEF DefaultRouting, ModelsByTier, RouteTiers

(***************************************************************************)
(* The two picks.                                                          *)
(***************************************************************************)
Asks == [tier : RouteTiers, caps : SUBSET KeywordCapabilities,
         profile : {NoProfile} \cup DOMAIN ProfileRam, ollama : BOOLEAN,
         override : {NoModel} \cup DOMAIN Models]

MaxScore == 3 * Cardinality(KeywordCapabilities)

LEMMA CapabilitiesFinite == IsFiniteSet(KeywordCapabilities)
<1>1. IsFiniteSet({"code"} \cup {"reason"}) /\ IsFiniteSet({"tools"} \cup {"agentic"})
      /\ IsFiniteSet({"math"} \cup {"creative"})
  BY FS_Singleton, FS_Union
<1>2. IsFiniteSet(({"code"} \cup {"reason"}) \cup ({"tools"} \cup {"agentic"}))
  BY <1>1, FS_Union
<1>3. IsFiniteSet((({"code"} \cup {"reason"}) \cup ({"tools"} \cup {"agentic"}))
                  \cup ({"math"} \cup {"creative"}))
  BY <1>1, <1>2, FS_Union
<1>4. KeywordCapabilities = (({"code"} \cup {"reason"}) \cup ({"tools"} \cup {"agentic"}))
                            \cup ({"math"} \cup {"creative"})
  BY DEF KeywordCapabilities
<1> QED
  BY <1>3, <1>4

\* A score is a number, bounded by the number of capabilities asked for.
LEMMA ScoreIsNumber ==
  ASSUME NEW m, NEW caps, IsFiniteSet(caps)
  PROVE  /\ Cardinality(caps) \in Nat
         /\ ScoreModel(m, caps) \in 0..(3 * Cardinality(caps))
         /\ caps = {} => ScoreModel(m, caps) = 0
<1> DEFINE met == caps \cap Models[m].caps
           agentic == caps \cap Models[m].caps \cap {"agentic"}
<1>1. Cardinality(met) \in Nat /\ Cardinality(met) <= Cardinality(caps)
  <2>1. met \in SUBSET caps
    OBVIOUS
  <2> HIDE DEF met
  <2> QED
    BY <2>1, FS_Subset, FS_CardinalityType
<1>2. Cardinality(agentic) \in Nat /\ Cardinality(agentic) <= Cardinality(caps)
  <2>1. agentic \in SUBSET caps
    OBVIOUS
  <2> HIDE DEF agentic
  <2> QED
    BY <2>1, FS_Subset, FS_CardinalityType
<1>3. Cardinality(caps) \in Nat /\ (caps = {} => Cardinality(caps) = 0)
  BY FS_CardinalityType, FS_EmptySet
<1>4. ScoreModel(m, caps) = 2 * Cardinality(met) + Cardinality(agentic)
  BY DEF ScoreModel
<1> HIDE DEF met, agentic
<1> QED
  BY <1>1, <1>2, <1>3, <1>4

LEMMA ScoreOfAsk ==
  ASSUME NEW m, NEW caps \in SUBSET KeywordCapabilities
  PROVE  /\ MaxScore \in Nat /\ ScoreModel(m, caps) \in 0..MaxScore
         /\ caps = {} => ScoreModel(m, caps) = 0
<1>1. /\ IsFiniteSet(caps) /\ Cardinality(caps) \in Nat
      /\ Cardinality(KeywordCapabilities) \in Nat
      /\ Cardinality(caps) <= Cardinality(KeywordCapabilities)
  BY CapabilitiesFinite, FS_Subset, FS_CardinalityType
<1>2. /\ ScoreModel(m, caps) \in 0..(3 * Cardinality(caps))
      /\ caps = {} => ScoreModel(m, caps) = 0
  BY <1>1, ScoreIsNumber
<1> QED
  BY <1>1, <1>2 DEF MaxScore

\* The cascade's cloud model is one of the tier's, no local one, and western
\* only if it beats every other model there.
LEMMA CloudPickSound ==
  ASSUME NEW ask \in Asks
  PROVE  /\ CloudPick(ask) \in DOMAIN Models /\ Models[CloudPick(ask)].provider # "OLLAMA"
         /\ \E i \in DOMAIN ModelsByTier(ask.tier) : ModelsByTier(ask.tier)[i] = CloudPick(ask)
         /\ Models[CloudPick(ask)].provider \in Western =>
              \A j \in DOMAIN ModelsByTier(ask.tier) :
                Models[ModelsByTier(ask.tier)[j]].provider \notin Western
                => ScoreModel(ModelsByTier(ask.tier)[j], ask.caps)
                     < ScoreModel(CloudPick(ask), ask.caps)
<1> DEFINE list == IF ask.caps # {} THEN ModelsByTier(ask.tier) ELSE DefaultRouting(ask.tier)
           places == CloudPlaces(list)
           rank == [i \in places |-> ScoreModel(list[i], ask.caps)]
           k == FirstBest(places, rank)
<1>1. ask.tier \in RouteTiers /\ ask.caps \in SUBSET KeywordCapabilities
  BY DEF Asks
<1>2. CloudPick(ask) = list[k]
  BY DEF CloudPick
<1>3. /\ DOMAIN list \in SUBSET Nat /\ 1 \in DOMAIN list /\ list[1] \in Chinese
  BY <1>1, TheLists, TheChains
<1>4. places \in SUBSET Nat /\ 1 \in places /\ places \in SUBSET DOMAIN list
  BY <1>3, TheKinds, ProvidersApart DEF CloudPlaces
<1>5. MaxScore \in Nat /\ \A i \in places : rank[i] \in 0..MaxScore
  BY <1>1, ScoreOfAsk
<1>6. /\ k \in places
      /\ \A j \in places : rank[j] <= rank[k] /\ (j < k => rank[j] < rank[k])
  <2> HIDE DEF places, rank
  <2> QED
    BY <1>4, <1>5, FirstBestIsFirstBest
<1>7. Models[list[k]].provider # "OLLAMA"
  BY <1>6 DEF CloudPlaces
<1>8. CASE ask.caps = {}
  <2>1. k = 1
    <3>1. \A i \in places : rank[i] = 0
      BY <1>1, <1>8, ScoreOfAsk
    <3>2. \A i \in places : i >= 1
      BY <1>1, <1>4, <1>8, TheChains
    <3> HIDE DEF rank, places, list, k
    <3>3. ~(1 < k)
      BY <1>4, <1>6, <3>1
    <3> QED
      BY <1>4, <1>6, <3>2, <3>3
  <2>2. CloudPick(ask) = ModelsByTier(ask.tier)[1] /\ 1 \in DOMAIN ModelsByTier(ask.tier)
    BY <1>1, <1>2, <1>8, <2>1, TheLists, TheChains
  <2>3. CloudPick(ask) \in Chinese
    BY <1>1, <2>2, TheLists
  <2> HIDE DEF list, places, rank, k
  <2> QED
    BY <2>2, <2>3, TheKinds, ProvidersApart
<1>9. CASE ask.caps # {}
  <2>1. list = ModelsByTier(ask.tier)
    BY <1>9
  <2>2. k \in DOMAIN ModelsByTier(ask.tier) /\ ModelsByTier(ask.tier)[k] = CloudPick(ask)
    BY <1>2, <1>4, <1>6, <2>1
  <2>3. CASE ask.tier = "free"
    <3> HIDE DEF list, places, rank, k
    <3>1. CloudPick(ask) \in Chinese
      <4>1. CloudPick(ask) \in Chinese \cup DOMAIN LocalModels
        <5>1. \A i \in DOMAIN ModelsByTier("free") :
                ModelsByTier("free")[i] \in Chinese \cup DOMAIN LocalModels
          BY TheLists
        <5> QED
          BY <2>2, <2>3, <5>1
      <4>2. Models[CloudPick(ask)].provider # "OLLAMA"
        BY <1>2, <1>7
      <4> QED
        BY <4>1, <4>2, TheKinds
    <3> QED
      BY <2>2, <3>1, TheKinds, ProvidersApart
  <2>4. CASE ask.tier \in {"standard", "premium"}
    <3> DEFINE all == ModelsByTier(ask.tier)
    <3>1. \A i \in DOMAIN all : all[i] \in IF i <= 4 THEN Chinese ELSE DOMAIN WesternModels
      BY <2>4, TheLists
    <3>2. CloudPick(ask) \in Chinese \cup DOMAIN WesternModels
      BY <2>2, <3>1
    <3>3. places = DOMAIN all
      <4>1. \A i \in DOMAIN all : Models[all[i]].provider # "OLLAMA"
        BY <3>1, TheKinds, ProvidersApart
      <4>2. places = {i \in DOMAIN all : Models[all[i]].provider # "OLLAMA"}
        BY <2>1 DEF CloudPlaces
      <4> QED
        BY <4>1, <4>2
    <3>4. ASSUME Models[CloudPick(ask)].provider \in Western,
                 NEW j \in DOMAIN all, Models[all[j]].provider \notin Western
          PROVE  ScoreModel(all[j], ask.caps) < ScoreModel(CloudPick(ask), ask.caps)
      <4>1. ~(k <= 4) /\ j <= 4
        BY <2>2, <3>1, <3>4, TheKinds, ProvidersApart
      <4>2. j \in Nat /\ k \in Nat /\ j < k /\ j \in places
        BY <1>4, <1>6, <3>3, <4>1
      <4>3. rank[j] < rank[k]
        BY <1>6, <4>2
      <4>4. rank[j] = ScoreModel(list[j], ask.caps) /\ rank[k] = ScoreModel(list[k], ask.caps)
        BY <1>6, <4>2
      <4> QED
        BY <1>2, <2>1, <4>3, <4>4
    <3> HIDE DEF list, places, rank, k
    <3> QED
      BY <2>2, <3>2, <3>4, TheKinds, ProvidersApart
  <2> QED
    BY <1>1, <2>3, <2>4 DEF RouteTiers
<1> QED
  BY <1>8, <1>9

\* The box's model is local, fits, and no bigger one would.
LEMMA BestLocalModelSound ==
  ASSUME NEW ram \in Nat, BestLocalModel(ram) # NoModel
  PROVE  /\ BestLocalModel(ram) \in DOMAIN LocalModels
         /\ Models[BestLocalModel(ram)].ram <= ram
         /\ \A m \in DOMAIN LocalModels :
              Models[m].ram <= ram => Models[m].ram <= Models[BestLocalModel(ram)].ram
<1> DEFINE list == ModelsByTier("free")
           fitting == {i \in DOMAIN list : FitsRam(list[i], ram)}
           score(i) == ScoreModel(list[i], {"tools", "agentic"})
           rank == [i \in fitting |-> 100 * Models[list[i]].ram + score(i)]
           k == FirstBest(fitting, rank)
<1>1. fitting # {} /\ BestLocalModel(ram) = list[k]
  BY DEF BestLocalModel
<1>2. fitting \in SUBSET Nat
  BY TheLists DEF RouteTiers
<1>3. \A i \in fitting : score(i) \in 0..6
  <2>1. IsFiniteSet({"tools", "agentic"}) /\ Cardinality({"tools", "agentic"}) = 2
    <3>1. IsFiniteSet({"tools"}) /\ Cardinality({"tools"}) = 1
      BY FS_Singleton
    <3>2. /\ IsFiniteSet({"tools"} \cup {"agentic"})
          /\ Cardinality({"tools"} \cup {"agentic"}) = 2
      BY <3>1, FS_AddElement
    <3>3. {"tools"} \cup {"agentic"} = {"tools", "agentic"}
      OBVIOUS
    <3> QED
      BY <3>2, <3>3
  <2>2. \A i \in fitting : score(i) \in 0..(3 * Cardinality({"tools", "agentic"}))
    BY <2>1, ScoreIsNumber
  <2> HIDE DEF score, fitting
  <2> QED
    BY <2>1, <2>2
<1>4. \A i \in fitting : Models[list[i]].ram \in 1..ram
  BY DEF FitsRam
<1>5. \A i \in fitting : rank[i] \in 0..(100 * ram + 6)
  <2>1. ASSUME NEW i \in fitting PROVE rank[i] \in 0..(100 * ram + 6)
    <3>1. rank[i] = 100 * Models[list[i]].ram + score(i)
      OBVIOUS
    <3>2. Models[list[i]].ram \in 1..ram /\ score(i) \in 0..6
      BY <1>3, <1>4, <2>1
    <3> HIDE DEF rank, score, list
    <3> QED
      BY <3>1, <3>2
  <2> QED
    BY <2>1
<1>6. k \in fitting /\ \A j \in fitting : rank[j] <= rank[k]
  <2>1. 100 * ram + 6 \in Nat
    OBVIOUS
  <2> HIDE DEF fitting, rank
  <2> QED
    BY <1>1, <1>2, <1>5, <2>1, FirstBestIsFirstBest
<1>7. Models[list[k]].provider = "OLLAMA" /\ list[k] \in Chinese \cup DOMAIN LocalModels
  BY <1>6, TheLists DEF FitsRam
<1>8. ASSUME NEW m \in DOMAIN LocalModels, Models[m].ram <= ram
      PROVE  Models[m].ram <= Models[list[k]].ram
  <2>1. PICK j \in DOMAIN list : list[j] = m
    BY TheLists
  <2>2. Models[m].provider = "OLLAMA" /\ Models[m].ram \in Nat \ {0}
    BY TheKinds
  <2>3. j \in fitting
    BY <1>8, <2>1, <2>2 DEF FitsRam
  <2>4. /\ rank[j] = 100 * Models[m].ram + score(j)
        /\ rank[k] = 100 * Models[list[k]].ram + score(k)
    BY <1>6, <2>1, <2>3
  <2> HIDE DEF rank, score, list, k, fitting
  <2>5. /\ rank[j] <= rank[k] /\ score(j) \in 0..6 /\ score(k) \in 0..6
        /\ Models[list[k]].ram \in Nat
    BY <1>3, <1>4, <1>6, <2>3
  <2> QED
    BY <2>2, <2>4, <2>5
<1> HIDE DEF list, fitting, rank, k
<1> QED
  BY <1>1, <1>4, <1>6, <1>7, <1>8, TheKinds, ProvidersApart

(***************************************************************************)
(* The invariant: the model chosen is the cascade's for what was asked, and *)
(* what was sent is what the three functions resolve for it.               *)
(***************************************************************************)
Environments == [proxy : BOOLEAN, keys : SUBSET KeyedProviders]

Sent(m, env) == [env |-> env, via |-> Transport(m, env), base |-> ApiBase(m),
                 key |-> ApiKey(m, env)]

RouteInv ==
  /\ routeAsk = Nothing \/ routeAsk \in Asks
  /\ routeAsk # Nothing => routeModel \in {NoModel, SelectModel(routeAsk)}
  /\ routeSent # Nothing =>
       /\ routeModel \in DOMAIN Models
       /\ \E env \in Environments : routeSent = Sent(routeModel, env)

\* NoModel is a word of the cascade's, and names no model.
LEMMA NoModelIsNone == NoModel \notin DOMAIN Models
BY DEF NoModel, Models, Chinese, FreeModels, StandardModels, PremiumModels, WesternModels,
       LocalModels

\* What the cascade returns is a model.
LEMMA SelectIsModel ==
  ASSUME NEW ask \in Asks
  PROVE  SelectModel(ask) \in DOMAIN Models
<1>1. ask.override # NoModel => ask.override \in DOMAIN Models
  BY DEF Asks
<1>2. CloudPick(ask) \in DOMAIN Models
  BY CloudPickSound
<1>3. ASSUME LocalPick(ask) # NoModel PROVE LocalPick(ask) \in DOMAIN Models
  <2>1. /\ LocalPick(ask) = BestLocalModel(ProfileRam[ask.profile])
        /\ ProfileRam[ask.profile] \in Nat
    BY <1>3 DEF LocalPick, Asks, ProfileRam
  <2> QED
    BY <1>3, <2>1, BestLocalModelSound, TheKinds
<1> QED
  BY <1>1, <1>2, <1>3 DEF SelectModel

LEMMA RouteInvHolds == RouteSpec => []RouteInv
<1>1. RouteInit => RouteInv
  BY DEF RouteInit, RouteInv
<1>2. RouteInv /\ [RouteNext]_routeVars => RouteInv'
  <2> SUFFICES ASSUME RouteInv, [RouteNext]_routeVars PROVE RouteInv'
    OBVIOUS
  <2>1. CASE RouteTask
    <3>1. routeModel' = NoModel /\ routeModel = NoModel /\ routeSent' = routeSent
      BY <2>1 DEF RouteTask
    <3>2. routeAsk' \in Asks
      <4>1. PICK triggers \in SUBSET RouteTiers, found \in SUBSET KeywordCapabilities :
              \E tier \in {ClassifiedTier(triggers)}, caps \in {DetectedCapabilities(found), {}} :
                \/ \E profile \in {NoProfile} \cup DOMAIN ProfileRam, ollama \in BOOLEAN :
                     routeAsk' = [tier |-> tier, caps |-> caps, profile |-> profile,
                                  ollama |-> ollama, override |-> NoModel]
                \/ \E m \in DOMAIN Models :
                     routeAsk' = [tier |-> tier, caps |-> {}, profile |-> NoProfile,
                                  ollama |-> FALSE, override |-> m]
        BY <2>1 DEF RouteTask
      <4>2. PICK tier \in {ClassifiedTier(triggers)}, caps \in {DetectedCapabilities(found), {}} :
              \/ \E profile \in {NoProfile} \cup DOMAIN ProfileRam, ollama \in BOOLEAN :
                   routeAsk' = [tier |-> tier, caps |-> caps, profile |-> profile,
                                ollama |-> ollama, override |-> NoModel]
              \/ \E m \in DOMAIN Models :
                   routeAsk' = [tier |-> tier, caps |-> {}, profile |-> NoProfile,
                                ollama |-> FALSE, override |-> m]
        BY <4>1
      <4>3. tier \in RouteTiers /\ caps \in SUBSET KeywordCapabilities
        BY DEF ClassifiedTier, DetectedCapabilities, RouteTiers, KeywordCapabilities
      <4>4. CASE \E profile \in {NoProfile} \cup DOMAIN ProfileRam, ollama \in BOOLEAN :
                   routeAsk' = [tier |-> tier, caps |-> caps, profile |-> profile,
                                ollama |-> ollama, override |-> NoModel]
        BY <4>3, <4>4 DEF Asks
      <4>5. CASE \E m \in DOMAIN Models :
                   routeAsk' = [tier |-> tier, caps |-> {}, profile |-> NoProfile,
                                ollama |-> FALSE, override |-> m]
        BY <4>3, <4>5 DEF Asks
      <4> QED
        BY <4>2, <4>4, <4>5
    <3> QED
      BY <3>1, <3>2, NoModelIsNone DEF RouteInv
  <2>2. CASE RouteSelect
    BY <2>2, NoModelIsNone DEF RouteSelect, RouteInv
  <2>3. CASE RouteResolve
    <3>1. /\ routeAsk # Nothing /\ routeModel # NoModel /\ routeModel' = routeModel
          /\ routeAsk' = Nothing
          /\ \E env \in Environments : routeSent' = Sent(routeModel, env)
      <4>1. PICK proxy \in BOOLEAN, keys \in SUBSET KeyedProviders :
              routeSent' = Sent(routeModel, [proxy |-> proxy, keys |-> keys])
        BY <2>3 DEF RouteResolve, Sent
      <4>2. [proxy |-> proxy, keys |-> keys] \in Environments
        BY DEF Environments
      <4> QED
        BY <2>3, <4>1, <4>2 DEF RouteResolve, RouteChosen
    <3>2. routeModel \in DOMAIN Models
      BY <3>1, SelectIsModel DEF RouteInv
    <3> QED
      BY <3>1, <3>2 DEF RouteInv
  <2>4. CASE UNCHANGED routeVars
    BY <2>4 DEF routeVars, RouteInv, Sent, Transport, ApiBase, ApiKey, HasDirect
  <2> QED
    BY <2>1, <2>2, <2>3, <2>4 DEF RouteNext
<1> QED
  BY <1>1, <1>2, PTL DEF RouteSpec

\* The model a run gets is the local one that the box holds, or one of the tier
\* asked for and western only where it is the better one; and its calls carry
\* the key and the base of the transport they take.
THEOREM RouteIsSound == RouteSpec => []RouteSound
<1>1. ASSUME RouteInv PROVE RouteWesternLast /\ RouteServesTier
  <2> SUFFICES ASSUME RouteChosen, routeAsk.override = NoModel
               PROVE  RouteWesternLast /\ RouteServesTier
    BY DEF RouteWesternLast, RouteServesTier
  <2>1. /\ routeAsk \in Asks
        /\ routeModel = IF LocalPick(routeAsk) # NoModel THEN LocalPick(routeAsk)
                        ELSE CloudPick(routeAsk)
    BY <1>1 DEF RouteChosen, RouteInv, SelectModel
  <2>2. CASE LocalPick(routeAsk) # NoModel
    <3>1. /\ routeAsk.ollama /\ routeAsk.tier # "premium"
          /\ LocalPick(routeAsk) = BestLocalModel(ProfileRam[routeAsk.profile])
          /\ ProfileRam[routeAsk.profile] \in Nat
      BY <2>1, <2>2 DEF LocalPick, Asks, ProfileRam
    <3>2. /\ routeModel \in DOMAIN LocalModels
          /\ Models[routeModel].ram <= ProfileRam[routeAsk.profile]
          /\ \A m \in DOMAIN LocalModels :
               Models[m].ram <= ProfileRam[routeAsk.profile]
                 => Models[m].ram <= Models[routeModel].ram
      BY <2>1, <2>2, <3>1, BestLocalModelSound
    <3>3. Models[routeModel].provider = "OLLAMA" /\ "OLLAMA" \notin Western
      BY <3>2, TheKinds, ProvidersApart
    <3> QED
      BY <3>1, <3>2, <3>3 DEF RouteWesternLast, RouteServesTier
  <2>3. CASE LocalPick(routeAsk) = NoModel
    <3>1. routeModel = CloudPick(routeAsk)
      BY <2>1, <2>3
    <3> QED
      BY <2>1, <3>1, CloudPickSound DEF RouteWesternLast, RouteServesTier
  <2> QED
    BY <2>2, <2>3
<1>2. ASSUME RouteInv PROVE RouteKeyFits
  <2> SUFFICES ASSUME routeSent # Nothing PROVE RouteKeyFits
    BY DEF RouteKeyFits
  <2>1. PICK env \in Environments : routeSent = Sent(routeModel, env)
    BY <1>2 DEF RouteInv
  <2>2. /\ routeSent.env = env /\ routeSent.via = Transport(routeModel, env)
        /\ routeSent.base = ApiBase(routeModel) /\ routeSent.key = ApiKey(routeModel, env)
    BY <2>1 DEF Sent
  <2>3. routeModel \in DOMAIN Models /\ env.proxy \in BOOLEAN
    BY <1>2 DEF RouteInv, Environments
  <2>4. /\ routeModel \in ProxyModels => Models[routeModel].provider # "OLLAMA"
        /\ routeModel \in DOMAIN LocalModels => Models[routeModel].provider = "OLLAMA"
    BY TheKinds, ProvidersApart DEF ProxyModels
  <2>5. HasDirect(routeModel, env) => Models[routeModel].provider \in DirectProviders
    BY DEF HasDirect
  <2>6. "proxy" \notin DirectProviders /\ "ollama" \notin DirectProviders
        /\ "OLLAMA" \notin DirectProviders
    BY DEF DirectProviders
  <2>7. CASE env.proxy /\ routeModel \in ProxyModels
    BY <2>2, <2>4, <2>7 DEF RouteKeyFits, Transport, ApiBase, ApiKey, KeyOf
  <2>8. CASE ~(env.proxy /\ routeModel \in ProxyModels) /\ Models[routeModel].provider = "OLLAMA"
    <3>1. Transport(routeModel, env) = "ollama"
      BY <2>5, <2>6, <2>8 DEF Transport
    <3>2. ApiBase(routeModel) = "ollama" /\ ApiKey(routeModel, env) = "none"
      BY <2>5, <2>6, <2>8 DEF ApiBase, ApiKey
    <3> QED
      BY <2>2, <3>1, <3>2 DEF RouteKeyFits, KeyOf
  <2>9. CASE /\ ~(env.proxy /\ routeModel \in ProxyModels)
             /\ Models[routeModel].provider # "OLLAMA"
    <3>1. Transport(routeModel, env) = IF HasDirect(routeModel, env)
                                       THEN Models[routeModel].provider ELSE "OPENROUTER"
      BY <2>9 DEF Transport
    <3>2. Transport(routeModel, env) \notin {"proxy", "ollama"}
      BY <2>5, <2>6, <3>1
    <3>3. ApiBase(routeModel) # "ollama"
      BY <2>9 DEF ApiBase
    <3>4. ~env.proxy => ApiKey(routeModel, env) = Transport(routeModel, env)
      BY <2>9, <3>1 DEF ApiKey
    <3>5. env.proxy => routeModel \notin ProxyModels \cup DOMAIN LocalModels
      BY <2>4, <2>9
    <3> QED
      BY <2>2, <2>3, <3>2, <3>3, <3>4, <3>5 DEF RouteKeyFits, KeyOf
  <2> QED
    BY <2>7, <2>8, <2>9
<1>3. RouteInv => RouteSound
  BY <1>1, <1>2 DEF RouteSound
<1> QED
  BY <1>3, RouteInvHolds, PTL
=============================================================================
