------------------------------ MODULE TaskLedger ------------------------------
(***************************************************************************)
(* What the task queue promises to those who submit to it, with neither    *)
(* Redis nor processes: a request is accepted once, leaves the queue once, *)
(* in the order of arrival, runs at most once, and its result, once        *)
(* stored, stays.  A request may be dropped while it waits (the drain at   *)
(* shutdown) or while it runs (the daemon dies): the ledger allows that,   *)
(* and allows nothing to bring a dropped or finished request back.         *)
(***************************************************************************)
EXTENDS Naturals, Sequences

CONSTANT Task

VARIABLES
  queue,     \* accepted requests, oldest first
  running,   \* requests a worker is executing
  finished,  \* requests with a stored result
  dropped    \* accepted requests that will never have a result

ledgerVars == <<queue, running, finished, dropped>>

Waiting == {queue[i] : i \in DOMAIN queue}

Init ==
  /\ queue = <<>>
  /\ running = {}
  /\ finished = {}
  /\ dropped = {}

Accept(t) ==
  /\ t \notin Waiting \cup running \cup finished \cup dropped
  /\ queue' = Append(queue, t)
  /\ UNCHANGED <<running, finished, dropped>>

Begin ==
  /\ queue # <<>>
  /\ running' = running \cup {Head(queue)}
  /\ queue' = Tail(queue)
  /\ UNCHANGED <<finished, dropped>>

Finish(t) ==
  /\ t \in running
  /\ running' = running \ {t}
  /\ finished' = finished \cup {t}
  /\ UNCHANGED <<queue, dropped>>

\* One popped request whose reply never reached its worker.
DropHead ==
  /\ queue # <<>>
  /\ queue' = Tail(queue)
  /\ dropped' = dropped \cup {Head(queue)}
  /\ UNCHANGED <<running, finished>>

\* The process stops: what it was running, and perhaps what was waiting.
Drop(S) ==
  /\ S \subseteq running
  /\ running' = running \ S
  /\ \/ queue' = queue /\ dropped' = dropped \cup S
     \/ queue' = <<>> /\ dropped' = dropped \cup S \cup Waiting
  /\ UNCHANGED finished

Next ==
  \/ \E t \in Task : Accept(t) \/ Finish(t)
  \/ Begin
  \/ DropHead
  \/ \E S \in SUBSET Task : Drop(S)

Spec == Init /\ [][Next]_ledgerVars
===============================================================================
