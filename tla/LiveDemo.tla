------------------------------- MODULE LiveDemo -------------------------------
(***************************************************************************)
(* GET /demo/stream?live=true (api/routes/demo.py): a stream takes one of  *)
(* the semaphore's slots, starts run_agent as a task of its own, and turns *)
(* the events of its queue into frames until the sentinel, the timeout, or *)
(* the client's departure.  A step is the code between two awaits or       *)
(* yields.  The queue holds 100 events and a run makes at most five, so it *)
(* is never full.  A client that stops reading its frames is one that has  *)
(* left: the generator is closed at the yield where it stands.             *)
(***************************************************************************)
EXTENDS Naturals, Sequences, FiniteSets

CONSTANTS
  LiveStreams,     \* requests to /demo/stream?live=true
  LiveSlots,       \* the value _LIVE_DEMO_SEMAPHORE starts with
  LiveIterations   \* max_iterations of the runs

ASSUME LiveAssumption ==
  /\ IsFiniteSet(LiveStreams)
  /\ LiveSlots \in Nat \ {0}
  /\ LiveIterations \in Nat \ {0}

VARIABLES
  liveFree,    \* the semaphore's value
  liveStage,   \* where the generator of each request is
  liveAgent,   \* the task run_agent runs in
  liveQueue,   \* the events its stream_queue holds
  liveSteps,   \* iterations the run has made
  liveSent,    \* the frames yielded so far
  liveLeft     \* the requests whose client has left

liveVars ==
  <<liveFree, liveStage, liveAgent, liveQueue, liveSteps, liveSent, liveLeft>>

\* "open" has started the agent but is still outside the inner try block.
LiveStages == {"new", "open", "reading", "cleanup", "ended"}
LiveHolders == {s \in LiveStreams : liveStage[s] \in {"open", "reading", "cleanup"}}

\* Frames by kind; DONE and ERROR are the two that end a stream.
LiveEnding == {"DONE", "ERROR"}
LiveEvents == {"iteration", "completed", "failed", "sentinel"}

LiveInit ==
  /\ liveFree = LiveSlots
  /\ liveStage = [s \in LiveStreams |-> "new"]
  /\ liveAgent = [s \in LiveStreams |-> "none"]
  /\ liveQueue = [s \in LiveStreams |-> <<>>]
  /\ liveSteps = [s \in LiveStreams |-> 0]
  /\ liveSent = [s \in LiveStreams |-> <<>>]
  /\ liveLeft = {}

LiveYield(s, frames) == liveSent' = [liveSent EXCEPT ![s] = @ \o frames]
LiveGo(s, stage) == liveStage' = [liveStage EXCEPT ![s] = stage]

(***************************************************************************)
(* The request: wait_for(acquire, 1), then create_task, then the first     *)
(* frame.                                                                  *)
(***************************************************************************)
LiveAdmit(s) ==
  /\ liveStage[s] = "new"
  /\ liveFree > 0
  /\ liveFree' = liveFree - 1
  /\ liveAgent' = [liveAgent EXCEPT ![s] = "running"]
  /\ LiveYield(s, <<"session_start">>)
  /\ LiveGo(s, "open")
  /\ UNCHANGED <<liveQueue, liveSteps, liveLeft>>

\* Mutated form of LiveBusy: the refusal goes through the outer finally.
LiveBusyReleases(s) ==
  /\ liveStage[s] = "new"
  /\ liveFree = 0
  /\ liveFree' = 1
  /\ LiveYield(s, <<"ERROR">>)
  /\ LiveGo(s, "ended")
  /\ UNCHANGED <<liveAgent, liveQueue, liveSteps, liveLeft>>

\* The slot stays taken for the second that wait_for gives.
LiveBusy(s) ==
  /\ liveStage[s] = "new"
  /\ liveFree = 0
  /\ LiveYield(s, <<"ERROR">>)
  /\ LiveGo(s, "ended")
  /\ UNCHANGED <<liveFree, liveAgent, liveQueue, liveSteps, liveLeft>>

\* The client has taken the first frame: the generator enters the loop.
LiveTaken(s) ==
  /\ liveStage[s] = "open"
  /\ LiveGo(s, "reading")
  /\ UNCHANGED <<liveFree, liveAgent, liveQueue, liveSteps, liveSent, liveLeft>>

(***************************************************************************)
(* run_agent, as its queue shows it: an iteration that called tools, or a  *)
(* last event (an answer, or a model error or budget stop).  Then it closes*)
(* what it has opened and puts the sentinel.  At max_iterations there is no*)
(* last event; a refused or broken run ends without a sentinel.            *)
(***************************************************************************)
LiveAgentPushes(s, events, state) ==
  /\ liveQueue' = [liveQueue EXCEPT ![s] = @ \o events]
  /\ liveAgent' = [liveAgent EXCEPT ![s] = state]
  /\ UNCHANGED <<liveFree, liveStage, liveSent, liveLeft>>

LiveIterate(s) ==
  /\ liveAgent[s] = "running"
  /\ liveSteps[s] < LiveIterations
  /\ liveSteps' = [liveSteps EXCEPT ![s] = @ + 1]
  /\ LiveAgentPushes(s, <<"iteration">>, "running")

LiveConclude(s) ==
  /\ liveAgent[s] = "running"
  /\ liveSteps[s] < LiveIterations
  /\ \E last \in {"completed", "failed"} : LiveAgentPushes(s, <<last>>, "closing")
  /\ UNCHANGED liveSteps

LiveRunOut(s) ==
  /\ liveAgent[s] = "running"
  /\ liveSteps[s] = LiveIterations
  /\ LiveAgentPushes(s, <<>>, "closing")
  /\ UNCHANGED liveSteps

\* The MCP bridges are closed and the row is written: now the sentinel.
LiveAgentEnds(s) ==
  /\ liveAgent[s] = "closing"
  /\ LiveAgentPushes(s, <<"sentinel">>, "done")
  /\ UNCHANGED liveSteps

LiveAgentBreaks(s) ==
  /\ liveAgent[s] \in {"running", "closing"}
  /\ LiveAgentPushes(s, <<>>, "done")
  /\ UNCHANGED liveSteps

\* A cancelled task ends once the CancelledError has unwound it.
LiveAgentStops(s) ==
  /\ liveAgent[s] = "cancelling"
  /\ liveAgent' = [liveAgent EXCEPT ![s] = "done"]
  /\ UNCHANGED <<liveFree, liveStage, liveQueue, liveSteps, liveSent, liveLeft>>

(***************************************************************************)
(* The loop over the queue.  Every way out runs the inner finally, which   *)
(* cancels the agent if it is not done and waits for it.                   *)
(***************************************************************************)
\* Mutated form of LiveWindDown: the agent is left to end by itself.
LiveWindDownLets(s) ==
  /\ LiveGo(s, "cleanup")
  /\ UNCHANGED liveAgent

LiveWindDown(s) ==
  /\ LiveGo(s, "cleanup")
  /\ liveAgent' = [liveAgent EXCEPT ![s] = IF @ \in {"running", "closing"} THEN "cancelling" ELSE @]

LiveConcluded(s) == \E i \in DOMAIN liveSent[s] : liveSent[s][i] = "answer"

\* Mutated form of LiveFrames: a failed run is left to its sentinel.
LiveFramesQuietFailure(s, event) ==
  CASE event = "iteration" -> <<"thought">>
    [] event = "completed" -> <<"answer", "session_complete">>
    [] event = "failed" -> <<"ERROR">>
    [] event = "sentinel" -> IF LiveConcluded(s) THEN <<"DONE">> ELSE <<>>

\* The frames an event becomes ("thought" stands for thought and tool_call);
\* the sentinel of a run without an answer becomes the inconclusive answer.
LiveFrames(s, event) ==
  CASE event = "iteration" -> <<"thought">>
    [] event = "completed" -> <<"answer", "session_complete">>
    [] event = "failed" -> <<"ERROR">>
    [] event = "sentinel" ->
         IF LiveConcluded(s) THEN <<"DONE">>
                             ELSE <<"answer", "session_complete", "DONE">>

LiveRead(s) ==
  /\ liveStage[s] = "reading"
  /\ liveQueue[s] # <<>>
  /\ LET event == Head(liveQueue[s]) IN
       /\ LiveYield(s, LiveFrames(s, event))
       /\ IF event \in {"failed", "sentinel"}
          THEN LiveWindDown(s)
          ELSE UNCHANGED <<liveStage, liveAgent>>
  /\ liveQueue' = [liveQueue EXCEPT ![s] = Tail(@)]
  /\ UNCHANGED <<liveFree, liveSteps, liveLeft>>

\* asyncio.timeout(120) fires in queue.get().
LiveTimeout(s) ==
  /\ liveStage[s] = "reading"
  /\ LiveYield(s, <<"ERROR">>)
  /\ LiveWindDown(s)
  /\ UNCHANGED <<liveFree, liveQueue, liveSteps, liveLeft>>

\* The client leaves while the generator is in the loop.
LiveLeave(s) ==
  /\ liveStage[s] = "reading"
  /\ liveLeft' = liveLeft \cup {s}
  /\ LiveWindDown(s)
  /\ UNCHANGED <<liveFree, liveQueue, liveSteps, liveSent>>

\* It leaves before it has taken the first frame: the generator is closed at
\* the yield before the inner try, so only the outer finally runs.
LiveLeaveEarly(s) ==
  /\ liveStage[s] = "open"
  /\ liveLeft' = liveLeft \cup {s}
  /\ liveFree' = liveFree + 1
  /\ LiveGo(s, "ended")
  /\ UNCHANGED <<liveAgent, liveQueue, liveSteps, liveSent>>

\* Mutated form of LiveEnd: the slot is given back before the agent is done.
LiveEndEarly(s) ==
  /\ liveStage[s] = "cleanup"
  /\ liveFree' = liveFree + 1
  /\ LiveGo(s, "ended")
  /\ UNCHANGED <<liveAgent, liveQueue, liveSteps, liveSent, liveLeft>>

\* await agent_task returns and the outer finally releases the slot.  When the
\* client has left, the response's own cancellation may cut that await short.
LiveEnd(s) ==
  /\ liveStage[s] = "cleanup"
  /\ liveAgent[s] = "done" \/ s \in liveLeft
  /\ liveFree' = liveFree + 1
  /\ LiveGo(s, "ended")
  /\ UNCHANGED <<liveAgent, liveQueue, liveSteps, liveSent, liveLeft>>

LiveNext == \E s \in LiveStreams :
  \/ LiveAdmit(s)
  \/ LiveBusy(s)
  \/ LiveTaken(s)
  \/ LiveIterate(s)
  \/ LiveConclude(s)
  \/ LiveRunOut(s)
  \/ LiveAgentEnds(s)
  \/ LiveAgentBreaks(s)
  \/ LiveAgentStops(s)
  \/ LiveRead(s)
  \/ LiveTimeout(s)
  \/ LiveLeave(s)
  \/ LiveLeaveEarly(s)
  \/ LiveEnd(s)

LiveSpec == LiveInit /\ [][LiveNext]_liveVars

(***************************************************************************)
(* What the endpoint promises.                                             *)
(***************************************************************************)
\* The slots (_LIVE_DEMO_SEMAPHORE, acquired under wait_for and released in
\* the outer finally): none is lost and none is given back twice, whichever
\* way the streams end.
LiveSlotsConserved == liveFree + Cardinality(LiveHolders) = LiveSlots

\* Each stream "spawns a real subprocess + a real local model call" and the
\* semaphore is the guard: a run at work holds a slot, or its client has left
\* and it was cancelled, or its client left before the first frame.
LiveAgentsHeld == \A s \in LiveStreams :
  /\ liveAgent[s] = "cancelling" => s \in LiveHolders \cup liveLeft
  /\ liveAgent[s] \in {"running", "closing"} =>
       s \in LiveHolders \/ (s \in liveLeft /\ liveSent[s] = <<"session_start">>)

\* The SSE contract ("never break the SSE contract"): a stream whose client
\* stays ends with one ending frame and nothing after it, and DONE comes right
\* after a session_complete.
LiveContract == \A s \in LiveStreams :
  /\ \A i \in DOMAIN liveSent[s] :
       liveSent[s][i] \in LiveEnding => i = Len(liveSent[s])
  /\ \A i \in DOMAIN liveSent[s] :
       liveSent[s][i] = "DONE" => i > 1 /\ liveSent[s][i - 1] = "session_complete"
  /\ liveStage[s] \in {"cleanup", "ended"} /\ s \notin liveLeft =>
       liveSent[s] # <<>> /\ liveSent[s][Len(liveSent[s])] \in LiveEnding

\* A slot comes back although the model may never answer (the timeout) and
\* although the agent may have to be cancelled.
LiveFairness == \A s \in LiveStreams :
  /\ WF_liveVars(LiveTaken(s) \/ LiveLeaveEarly(s))
  /\ WF_liveVars(LiveTimeout(s))
  /\ WF_liveVars(LiveAgentStops(s))
  /\ WF_liveVars(LiveEnd(s))

LiveSlotComesBack == \A s \in LiveStreams : s \in LiveHolders ~> s \notin LiveHolders

\* The endpoint's promise: its slots, its agents and its stream stay sound, and
\* every slot that is taken comes back.
LiveKept ==
  [](LiveSlotsConserved /\ LiveAgentsHeld /\ LiveContract) /\ LiveSlotComesBack
===============================================================================
