---------------------------- MODULE MCWritePaths ----------------------------
(* The write paths of two engines, each on its own: LevelDB with threads    *)
(* that all write, LevelDB with two threads that make every kind of call,   *)
(* and PebblesDB.                                                           *)
EXTENDS WritePaths, TLC

(* Threads are interchangeable.                                             *)
Symmetry == Permutations(Threads)

(* One entry, and two at once.                                              *)
MixedBatches == {<<1>>, <<1, 2>>}

VARIABLES
  part,    \* which of the three this is
  callers  \* the threads that make calls

-----------------------------------------------------------------------------
MCInit ==
  /\ \/ part \in {"writes", "pebblesdb"} /\ callers = Threads
     \/ part = "calls" /\ callers \in SUBSET Threads /\ Cardinality(callers) = 2
  /\ Init /\ Pebbles!Init
  /\ l0 \in {1, 3} /\ (l0 = 3 => part = "calls")

\* The calls that begin: one write by each thread, two of any sort and then
\* a small one that is not sync, or two calls of any kind, the writes large
\* and sync, and a read that uses up seeks.
Begins ==
  LET new == {t \in Threads : pc[t] = "idle" /\ pc'[t] = "call"}
  IN  /\ \A t \in Threads \ callers : pc'[t] = pc[t]
      /\ part = "writes" /\ calls' # calls =>
           /\ new # {}
           /\ \A t \in new :
                /\ op'[t] = "write" /\ ret[t] = "none"
                /\ calls' = 3 => batch'[t] = 1 /\ t \notin sync'
      /\ part = "calls" =>
           /\ \A t \in new : op'[t] = "write" => batch'[t] = 2 /\ t \in sync'
           /\ calls' = 3 => new = {}

LevelDBStep ==
  /\ part \in {"writes", "calls"} /\ Next
  /\ Begins
  /\ UNCHANGED <<part, callers, pebblesVars>>

PebblesStep ==
  part = "pebblesdb" /\ Pebbles!Next /\ UNCHANGED <<part, callers, vars>>

MCNext == LevelDBStep \/ PebblesStep

MCSpec == MCInit /\ [][MCNext]_<<part, callers, vars, pebblesVars>>
=============================================================================
