----------------------------- MODULE MCLSMStore -----------------------------
(* Instances of LSMStore for model checking, see the MCLSMStore*.cfg files: *)
(* the store as it runs, and a store that stops, is damaged and repaired.   *)
EXTENDS Repair

CONSTANT Parts  \* which of "store" and "repair" are looked at

Put(key) == [k |-> key, t |-> "value"]
Del(key) == [k |-> key, t |-> "deletion"]

\* One key is written and deleted; the other is written in the same batch.
BatchAndDelete == {<<Del(1)>>, <<Put(1), Put(2)>>}

\* Every range, those with their ends swapped included.
AllRanges == Keys \X Keys

\* One update at a time, and ranges that reach over keys no input holds.
SingleUpdates == {<<Put(key)>> : key \in Keys}
WideRanges == {<<lo, hi>> \in Keys \X Keys : lo < hi}

\* A key that is written, kept by a snapshot and deleted, in files that it
\* shares with another key.
DeleteSharedKey == {<<Put(2)>>, <<Del(2), Put(1)>>, <<Put(1)>>}

VARIABLE part

-----------------------------------------------------------------------------
MCInit == part \in Parts /\ RepairInit

\* What the Repairer takes next of a list of files: the one with the lowest
\* number.
InOrder(numbers) == \A n \in numbers \ numbers' : \A m \in numbers : n <= m

\* One file is left, or there are two with those in lost/.
FewLeft ==
  \/ Cardinality(dir \union logs) <= 1
  \/ Cardinality(dir \union logs \union lost) <= 2

\* A store that is going to be repaired has no readers, makes two updates and
\* writes at most three tables.  The Repairer meets the files in order, and is
\* interrupted in a run that is not the last, where it leaves few files.
Small ==
  /\ snapshots' = snapshots /\ iters' = iters
  /\ nextFile' <= 4 /\ lastSeq' + pending' <= 2
  /\ IF phase' = "stopped"
     THEN repairs < MaxRepairs /\ (repairs = 0 \/ FewLeft)
     ELSE InOrder(toConvert) /\ InOrder(toScan)

MCNext ==
  /\ \/ part = "store" /\ Run
     \/ part = "repair" /\ RepairNext /\ Small
  /\ UNCHANGED part

MCSpec == MCInit /\ [][MCNext]_<<part, vars, repairVars>>
=============================================================================
