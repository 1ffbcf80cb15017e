------------------------------ MODULE MCDaemon ------------------------------
(* Daemon for TLC: the submitters are named so that one connection, one cron *)
(* job and one API handler race; the workers are interchangeable.            *)
EXTENDS Daemon, TLC

WorkerSymmetry == Permutations(Workers)
=============================================================================
