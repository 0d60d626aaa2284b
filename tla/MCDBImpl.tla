------------------------------ MODULE MCDBImpl ------------------------------
(* Instances of DBImpl for TLC: see the MCDBImpl*.cfg files.                *)
EXTENDS DBImpl, TLC

(* Threads are interchangeable; used by the run without liveness.           *)
Symmetry == Permutations(Threads)

\* The calls of the run with liveness: two of any kind, and a third that
\* writes, once level 0 is no longer above kL0_StopWritesTrigger, where it may
\* be when the DB is opened.
FewCalls ==
  calls # calls' /\ calls' = 3 =>
    /\ ~seek' /\ l0 <= StopTrigger
    /\ \E t \in Threads, b \in Batches, s \in SyncModes : CallWrite(t, b, s)

LivenessNext == Next /\ FewCalls

LivenessSpec == Init /\ [][LivenessNext]_vars /\ Fairness
=============================================================================
