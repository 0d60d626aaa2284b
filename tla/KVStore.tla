------------------------------ MODULE KVStore ------------------------------
(***************************************************************************)
(* What LevelDB promises to a caller (include/leveldb/db.h, snapshot.h,    *)
(* iterator.h): a map from keys to values that changes one WriteBatch at a *)
(* time, snapshots that keep showing the map as it was when they were      *)
(* taken, and iterators that keep showing the map they were opened on.     *)
(* Memtables, tables, levels and compactions are not visible here.         *)
(*                                                                         *)
(* A value is named by the sequence number of the update that wrote it, so *)
(* that no two writes store the same value; Absent is the missing value.   *)
(***************************************************************************)
EXTENDS Integers, Sequences

CONSTANTS
  Keys,     \* user keys
  Batches,  \* the WriteBatches the callers use: sequences of updates
  MaxSeq,   \* bound on the number of updates
  Snaps,    \* handles for snapshots
  Iters     \* handles for iterators

Absent == 0       \* the answer NotFound
Unused == <<>>    \* a handle that is not open shows no key

VARIABLES
  seq,   \* updates made so far
  store, \* the map
  snap,  \* for each snapshot the map it shows
  iter   \* for each iterator the map it walks over

vars == <<seq, store, snap, iter>>

\* The map after the first n updates of batch b.
After(b, n) ==
  [k \in Keys |->
     LET hits == {i \in 1..n : b[i].k = k}
         i == CHOOSE j \in hits : \A h \in hits : h <= j
     IN  IF hits = {} THEN store[k]
         ELSE IF b[i].t = "value" THEN seq + i ELSE Absent]

Init ==
  /\ seq = 0
  /\ store = [k \in Keys |-> Absent]
  /\ snap = [i \in Snaps |-> Unused]
  /\ iter = [j \in Iters |-> Unused]

\* DB::Put, DB::Delete and DB::Write: the whole batch takes effect at once.
Write(b) ==
  /\ seq' = seq + Len(b)
  /\ store' = After(b, Len(b))
  /\ UNCHANGED <<snap, iter>>

GetSnapshot(i) ==
  /\ snap[i] = Unused
  /\ snap' = [snap EXCEPT ![i] = store]
  /\ UNCHANGED <<seq, store, iter>>

ReleaseSnapshot(i) ==
  /\ snap[i] # Unused
  /\ snap' = [snap EXCEPT ![i] = Unused]
  /\ UNCHANGED <<seq, store, iter>>

\* NewIterator with ReadOptions::snapshot null, or set to snapshot i.
NewIterator(j) ==
  /\ iter[j] = Unused
  /\ iter' = [iter EXCEPT ![j] = store]
  /\ UNCHANGED <<seq, store, snap>>

NewIteratorAt(j, i) ==
  /\ iter[j] = Unused
  /\ snap[i] # Unused
  /\ iter' = [iter EXCEPT ![j] = snap[i]]
  /\ UNCHANGED <<seq, store, snap>>

DeleteIterator(j) ==
  /\ iter[j] # Unused
  /\ iter' = [iter EXCEPT ![j] = Unused]
  /\ UNCHANGED <<seq, store, snap>>

Next ==
  \/ \E b \in Batches : Write(b)
  \/ \E i \in Snaps : GetSnapshot(i) \/ ReleaseSnapshot(i)
  \/ \E j \in Iters : NewIterator(j) \/ DeleteIterator(j)
  \/ \E j \in Iters, i \in Snaps : NewIteratorAt(j, i)

Spec == Init /\ [][Next]_vars
=============================================================================
