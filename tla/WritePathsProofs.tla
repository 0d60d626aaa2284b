-------------------------- MODULE WritePathsProofs --------------------------
(***************************************************************************)
(* Invariants of DBImpl, for any number of threads, batches and triggers,  *)
(* and what PebblesDB's write path promises.                               *)
(***************************************************************************)
EXTENDS WritePaths, FiniteSetTheorems, TLAPS

(* The number of updates in a group is a natural number. *)
LEMMA OpsInType ==
  ASSUME NEW q, NEW n \in Nat
  PROVE  OpsIn(q, n) \in Nat
<1> DEFINE S == {x \in (1..n) \X (1..MaxOps) : x[2] <= batch[q[x[1]]]}
<1>0. MaxOps \in Nat
  BY BatchAssumption
<1>1. IsFiniteSet((1..n) \X (1..MaxOps))
  <2>1. IsFiniteSet(1..n)
    BY FS_Interval
  <2>2. IsFiniteSet(1..MaxOps)
    BY <1>0, FS_Interval
  <2> QED BY <2>1, <2>2, FS_Product
<1>2. IsFiniteSet(S)
  BY <1>1, FS_Subset
<1> QED BY <1>2, FS_CardinalityType DEF OpsIn

(* A group has at least one writer and at most the whole queue. *)
LEMMA GroupSize ==
  ASSUME NEW q \in Seq(Threads), q # <<>>
  PROVE  BuildBatchGroup(q) \in 1..Len(q)
<1> DEFINE S == {n \in 1..Len(q) : \A i \in 2..n : Joins(q, i)}
<1>1. Len(q) \in Nat /\ Len(q) >= 1
  OBVIOUS
<1>2. IsFiniteSet(1..Len(q)) /\ Cardinality(1..Len(q)) = Len(q)
  BY <1>1, FS_Interval
<1>3. /\ IsFiniteSet(S)
      /\ Cardinality(S) <= Len(q)
  BY <1>2, FS_Subset
<1>4. 1 \in S
  BY <1>1
<1>5. Cardinality(S) \in Nat /\ Cardinality(S) # 0
  BY <1>3, <1>4, FS_CardinalityType, FS_EmptySet
<1> QED BY <1>3, <1>5, <1>1 DEF BuildBatchGroup

(* What ties a manual compaction to the thread that asked for it, and the   *)
(* inputs of a compaction to the level they were taken from.                *)
ManualInv ==
  /\ manual # Owner => pc[manual] = "manual" /\ manual \notin mdone
  /\ comp.manual /\ manual # Owner => left[manual] > 0
  /\ comp.manual /\ manual = Owner => bg_error \/ shutting_down
  /\ bg \notin {"cleanup", "crashed"} => comp.files <= l0

(* The scheduling state: background_compaction_scheduled_ counts the one    *)
(* task queued or running, work that appears has a task, sleepers have a    *)
(* task that wakes them, and the destructor runs alone.                     *)
TaskInv ==
  /\ tasks + (IF bg = "idle" THEN 0 ELSE 1) = (IF scheduled THEN 1 ELSE 0)
  /\ WorkScheduled
  /\ SleepersHaveWaker
  /\ shutting_down <=> life # "open"
  /\ life # "open" => \A t \in Threads : pc[t] = "idle"
  /\ life = "closed" => ~scheduled

(* A flush works on an immutable memtable, which was frozen with room for   *)
(* one more level-0 file.                                                   *)
FlushInv ==
  /\ bg \in {"build", "apply"} => has_imm
  /\ has_imm => l0 < StopTrigger

(* MaybeScheduleCompaction and BackgroundCallEnd keep the types of the      *)
(* scheduling state.                                                        *)
LEMMA ScheduleType ==
  ASSUME NEW already \in BOOLEAN, NEW n \in Nat,
         MaybeScheduleCompaction(already, n)
  PROVE  scheduled' \in BOOLEAN /\ tasks' \in Nat
<1>1. scheduled' \in BOOLEAN
  BY Zenon DEF MaybeScheduleCompaction
<1>2. tasks' \in Nat
  BY DEF MaybeScheduleCompaction
<1> QED BY <1>1, <1>2


(* A call that returns keeps the types. *)
LEMMA ReturnType ==
  ASSUME TypeOK, NEW t \in Threads, NEW s \in {"none", "ok", "err"},
         NEW p \in PCs, Return(t, s, p)
  PROVE  /\ pc' \in [Threads -> PCs]
         /\ ret' \in [Threads -> {"none", "ok", "err"}]
         /\ batch' \in [Threads -> Batches \cup {NoBatch}]
         /\ sync' \subseteq Threads
BY DEF TypeOK, TypeThreads, TypeQueue, Return

(* A Write that returns leads to a state of its caller.                     *)
LEMMA AfterWriteType ==
  ASSUME TypeOK, NEW t \in Threads, NEW s \in {"ok", "err"}
  PROVE  AfterWrite(t, s) \in PCs
BY DEF TypeOK, TypeThreads, AfterWrite, PCs

(* Popping a group of writers keeps the types.                              *)
LEMMA PopGroupType ==
  ASSUME TypeOK, NEW t \in Threads, NEW q \in Seq(Threads), NEW n \in Nat,
         n <= Len(q), NEW s \in {"ok", "err"}, PopGroup(t, q, n, s)
  PROVE  /\ pc' \in [Threads -> PCs]
         /\ ret' \in [Threads -> {"none", "ok", "err"}]
         /\ batch' \in [Threads -> Batches \cup {NoBatch}]
         /\ sync' \subseteq Threads
         /\ writers' \in Seq(Threads)
         /\ done' \subseteq Threads
         /\ wstatus' \in [Threads -> {"ok", "err"}]
         /\ cvwait' \subseteq Threads
<1> DEFINE members == {q[i] : i \in 1..n}
<1>1. members \subseteq Threads
  OBVIOUS
<1>2. writers' \in Seq(Threads)
  BY DEF PopGroup
<1>3. done' \subseteq Threads /\ cvwait' \subseteq Threads
  BY <1>1 DEF PopGroup, TypeOK, TypeQueue
<1>4. wstatus' \in [Threads -> {"ok", "err"}]
  BY <1>1 DEF PopGroup, TypeOK, TypeQueue
<1>5. Return(t, s, AfterWrite(t, s))
  BY DEF PopGroup
<1> QED BY <1>2, <1>3, <1>4, <1>5, AfterWriteType, ReturnType

(* Forming a group of writers keeps the types.                              *)
LEMMA StartGroupType ==
  ASSUME TypeOK, NEW t \in Threads, NEW q \in Seq(Threads), q # <<>>,
         StartGroup(t, q)
  PROVE  /\ pc' \in [Threads -> PCs]
         /\ ret' \in [Threads -> {"none", "ok", "err"}]
         /\ batch' \in [Threads -> Batches \cup {NoBatch}]
         /\ sync' \subseteq Threads
         /\ writers' \in Seq(Threads)
         /\ done' \subseteq Threads
         /\ wstatus' \in [Threads -> {"ok", "err"}]
         /\ cvwait' \subseteq Threads
         /\ group' \in Nat /\ last' \in Nat
<1>1. CASE batch[t] = NoBatch
  <2>1. PopGroup(t, q, 1, "ok") /\ group' = group /\ last' = last
    BY <1>1 DEF StartGroup
  <2>2. 1 <= Len(q)
    OBVIOUS
  <2> QED BY <2>1, <2>2, PopGroupType DEF TypeOK, TypeQueue
<1>2. CASE batch[t] # NoBatch
  <2>1. BuildBatchGroup(q) \in Nat
    BY GroupSize
  <2>2. OpsIn(q, BuildBatchGroup(q)) \in Nat
    BY <2>1, OpsInType
  <2>3. lastSeq + OpsIn(q, BuildBatchGroup(q)) \in Nat
    BY <2>2 DEF TypeOK, TypeStore
  <2> QED BY <1>2, <2>1, <2>3 DEF StartGroup, TypeOK, TypeThreads, TypeQueue, PCs
<1> QED BY <1>1, <1>2

(* The queue a writer in MakeRoomForWrite sees holds at least itself. *)
LEMMA QueueType ==
  ASSUME TypeOK, NEW t \in Threads
  PROVE  /\ Queue(t) \in Seq(Threads)
         /\ pc[t] = "call" => Queue(t) # <<>>
         /\ pc[t] # "call" => Queue(t) = writers
BY DEF TypeOK, TypeQueue, Queue

(* What the end of a background task does to the types. *)
LEMMA BackgroundCallEndType ==
  ASSUME NEW n \in Nat, BackgroundCallEnd(n)
  PROVE  /\ waiting' \subseteq Threads \cup {Owner}
         /\ bg' \in BGs /\ comp' \in Compactions
         /\ scheduled' \in BOOLEAN /\ tasks' \in Nat
<1>1. MaybeScheduleCompaction(FALSE, n)
  BY DEF BackgroundCallEnd
<1>2. scheduled' \in BOOLEAN /\ tasks' \in Nat
  BY <1>1, ScheduleType
<1> QED BY <1>2 DEF BackgroundCallEnd, BGs, Compactions, NoCompaction


-----------------------------------------------------------------------------
(* The queue *)

(* The writer at the front in MakeRoomForWrite or committing its group.     *)
Committing == {"append", "sync", "insert", "addfail", "syncfail"}
Leading == {"delay", "roomwait"} \cup Committing

(* writers_ holds every pending writer once; only its front makes room and  *)
(* commits; whoever must act next is awake.                                 *)
QueueInv ==
  /\ \A i \in 1..Len(writers) :
       pc[writers[i]] \in Leading \cup {"queued"} /\ writers[i] \notin done
  /\ \A i, j \in 1..Len(writers) : writers[i] = writers[j] => i = j
  /\ \A t \in Threads : pc[t] \in Leading => writers # <<>> /\ t = Head(writers)
  /\ \A t \in Threads : pc[t] \in Committing => group \in 1..Len(writers)
  /\ \A t \in done : pc[t] = "queued" /\ t \notin cvwait
  /\ \A t \in cvwait : pc[t] = "queued"
  /\ writers # <<>> => Head(writers) \notin cvwait

(* Thread t is at the front of the queue q, alone in leading it.            *)
Front(t, q) ==
  /\ q \in Seq(Threads) /\ q # <<>> /\ q[1] = t
  /\ \A i, j \in 1..Len(q) : q[i] = q[j] => i = j
  /\ \A i \in 2..Len(q) : pc[q[i]] = "queued" /\ q[i] \notin done
  /\ t \notin done
  /\ \A u \in Threads \ {t} : pc[u] \notin Leading

(* The front of writers_ leads it, and nobody else does.                    *)
LEMMA LeaderIsFront ==
  ASSUME TypeOK, QueueInv, NEW t \in Threads, writers # <<>>, t = Head(writers)
  PROVE  Front(t, writers)
<1>1. writers \in Seq(Threads) /\ Len(writers) \in Nat /\ Len(writers) >= 1
  BY DEF TypeOK, TypeQueue
<1>2. writers[1] = t /\ 1 \in 1..Len(writers)
  BY <1>1
<1>3. \A i \in 2..Len(writers) : writers[i] \in Threads /\ writers[i] # t
  BY <1>1, <1>2 DEF QueueInv
<1>4. \A u \in Threads \ {t} : pc[u] \notin Leading
  BY DEF QueueInv
<1>5. \A i \in 2..Len(writers) : pc[writers[i]] = "queued" /\ writers[i] \notin done
  BY <1>1, <1>3, <1>4 DEF QueueInv
<1>6. t \notin done
  BY <1>1, <1>2 DEF QueueInv
<1> QED BY <1>1, <1>2, <1>4, <1>5, <1>6 DEF Front, QueueInv

(* A thread in MakeRoomForWrite is at the front of the queue.               *)
LEMMA InRoomIsFront ==
  ASSUME TypeOK, QueueInv, NEW t \in Threads, InRoom(t)
  PROVE  Front(t, Queue(t)) /\ pc[t] \in {"call", "queued", "delay", "roomwait"}
<1>1. CASE pc[t] = "call"
  <2>1. writers = <<>> /\ Queue(t) = <<t>>
    BY <1>1 DEF InRoom, At, Queue
  <2>2. \A u \in Threads : pc[u] \notin Leading
    BY <2>1 DEF QueueInv
  <2>3. t \notin done
    BY <1>1 DEF QueueInv
  <2> QED BY <1>1, <2>1, <2>2, <2>3 DEF Front
<1>2. CASE pc[t] # "call"
  <2>1. writers # <<>> /\ t = Head(writers)
    BY <1>2 DEF InRoom, At, QueueInv, Leading
  <2> QED BY <1>2, <2>1, LeaderIsFront DEF Queue, InRoom, At
<1> QED BY <1>1, <1>2

(* What remains of a queue when its first n elements are dropped.           *)
LEMMA RestOf ==
  ASSUME NEW S, NEW q \in Seq(S), NEW n \in 1..Len(q)
  PROVE  /\ SubSeq(q, n + 1, Len(q)) \in Seq(S)
         /\ Len(SubSeq(q, n + 1, Len(q))) = Len(q) - n
         /\ \A i \in 1..Len(SubSeq(q, n + 1, Len(q))) :
              SubSeq(q, n + 1, Len(q))[i] = q[n + i] /\ n + i \in 2..Len(q)
<1> DEFINE rest == SubSeq(q, n + 1, Len(q))
<1>1. Len(q) \in Nat /\ n \in Nat /\ n >= 1 /\ n <= Len(q)
  OBVIOUS
<1>2. n + 1 \in 1..(Len(q) + 1)
  BY <1>1
<1>3. rest \in Seq(S)
  OBVIOUS
<1>4. Len(rest) = Len(q) - n
  BY <1>1
<1>5. \A i \in 1..Len(rest) : rest[i] = q[n + i]
  BY <1>1
<1>6. \A i \in 1..Len(rest) : n + i \in 2..Len(q)
  BY <1>1, <1>4
<1> QED BY <1>3, <1>4, <1>5, <1>6

(* Popping a group keeps the queue in order and wakes whom it must.         *)
LEMMA PopGroupQueue ==
  ASSUME TypeOK, QueueInv, NEW t \in Threads, NEW q, Front(t, q),
         NEW n \in 1..Len(q), NEW s \in {"ok", "err"}, PopGroup(t, q, n, s)
  PROVE  QueueInv'
<1> DEFINE members == {q[i] : i \in 1..n}
           rest == SubSeq(q, n + 1, Len(q))
<1>1. /\ q \in Seq(Threads) /\ Len(q) \in Nat /\ n \in Nat
      /\ \A i \in 1..Len(q) : q[i] \in Threads
      /\ q[1] = t
  BY DEF Front
<1>2. /\ rest \in Seq(Threads) /\ Len(rest) = Len(q) - n
      /\ \A i \in 1..Len(rest) : rest[i] = q[n + i] /\ n + i \in 2..Len(q)
  BY <1>1, RestOf
<1>3. /\ writers' = rest
      /\ done' = done \cup (members \ {t})
      /\ cvwait' = cvwait \ Signalled(members, rest)
      /\ pc' = [pc EXCEPT ![t] = AfterWrite(t, s)]
  BY DEF PopGroup, Return
<1>4. AfterWrite(t, s) \notin Leading \cup {"queued"}
  BY DEF AfterWrite, Leading, Committing, TypeOK, TypeThreads
<1>5. \A u \in Threads : pc'[u] = IF u = t THEN AfterWrite(t, s) ELSE pc[u]
  BY <1>3 DEF TypeOK, TypeThreads
<1>6. \A i \in 1..Len(rest) : /\ rest[i] \in Threads \ {t}
                              /\ rest[i] \notin members
                              /\ rest[i] \notin done
                              /\ pc[rest[i]] = "queued"
  <2> SUFFICES ASSUME NEW i \in 1..Len(rest)
               PROVE  /\ rest[i] \in Threads \ {t}
                      /\ rest[i] \notin members
                      /\ rest[i] \notin done
                      /\ pc[rest[i]] = "queued"
    OBVIOUS
  <2>1. rest[i] = q[n + i] /\ n + i \in 2..Len(q) /\ i >= 1
    BY <1>2
  <2>2. \A j \in 1..n : q[j] # q[n + i]
    BY <1>1, <2>1 DEF Front
  <2>3. 1 \in 1..n
    BY <1>1
  <2>4. q[n + i] \in Threads \ {t}
    BY <1>1, <2>1, <2>2, <2>3
  <2>5. rest[i] \notin members
    BY <2>1, <2>2
  <2>6. pc[q[n + i]] = "queued" /\ q[n + i] \notin done
    BY <2>1 DEF Front
  <2> QED BY <2>1, <2>4, <2>5, <2>6
<1>7. \A u \in members \ {t} : u \in Threads /\ pc[u] = "queued"
  <2> SUFFICES ASSUME NEW j \in 1..n, q[j] # t
               PROVE  q[j] \in Threads /\ pc[q[j]] = "queued"
    OBVIOUS
  <2>1. j \in 2..Len(q)
    BY <1>1
  <2> QED BY <1>1, <2>1 DEF Front
<1>8. \A u \in Threads : pc'[u] \notin Leading
  BY <1>4, <1>5 DEF Front
<1>9. \A u \in done' : pc'[u] = "queued" /\ u \notin cvwait'
  <2> SUFFICES ASSUME NEW u \in done'
               PROVE  pc'[u] = "queued" /\ u \notin cvwait'
    OBVIOUS
  <2>1. CASE u \in done
    <3>1. u \in Threads /\ u # t /\ pc[u] = "queued" /\ u \notin cvwait
      BY <2>1 DEF QueueInv, TypeOK, TypeQueue, Front
    <3> QED BY <3>1, <1>3, <1>5
  <2>2. CASE u \in members \ {t}
    BY <2>2, <1>3, <1>5, <1>7 DEF Signalled
  <2> QED BY <2>1, <2>2, <1>3
<1>10. writers' # <<>> => Head(writers') \notin cvwait'
  BY <1>3 DEF Signalled
<1>11. \A i \in 1..Len(writers') :
         pc'[writers'[i]] \in Leading \cup {"queued"} /\ writers'[i] \notin done'
  BY <1>3, <1>5, <1>6
<1>12. \A i, j \in 1..Len(writers') : writers'[i] = writers'[j] => i = j
  <2> SUFFICES ASSUME NEW i \in 1..Len(rest), NEW j \in 1..Len(rest),
                      rest[i] = rest[j]
               PROVE  i = j
    BY <1>3
  <2>1. q[n + i] = q[n + j] /\ n + i \in 1..Len(q) /\ n + j \in 1..Len(q)
    <3>1. rest[i] = q[n + i] /\ n + i \in 2..Len(q)
      BY <1>2
    <3>2. rest[j] = q[n + j] /\ n + j \in 2..Len(q)
      BY <1>2
    <3>3. q[n + i] = q[n + j]
      BY <3>1, <3>2
    <3>4. 2..Len(q) \subseteq 1..Len(q)
      BY <1>1
    <3> QED BY <3>1, <3>2, <3>3, <3>4, Zenon
  <2>2. n + i = n + j
    BY <2>1 DEF Front
  <2> QED BY <1>1, <2>2
<1>13. \A u \in Threads : pc'[u] \notin Committing
  BY <1>8 DEF Leading
<1>14. \A u \in cvwait' : pc'[u] = "queued"
  <2>1. t \in members
    BY <1>1
  <2> QED BY <1>3, <1>5, <2>1 DEF QueueInv, Signalled, TypeOK, TypeQueue
<1> QED BY <1>8, <1>9, <1>10, <1>11, <1>12, <1>13, <1>14 DEF QueueInv

(* A step that moves t among the states of a leader.                        *)
LEMMA LeaderMoves ==
  ASSUME TypeOK, QueueInv, NEW t \in Threads, pc[t] \in Committing,
         NEW p \in Committing, pc' = [pc EXCEPT ![t] = p],
         UNCHANGED <<writers, done, cvwait, group>>
  PROVE  QueueInv'
<1>1. \A u \in Threads : pc'[u] = IF u = t THEN p ELSE pc[u]
  BY DEF TypeOK, TypeThreads
<1>2. writers \in Seq(Threads) /\ done \subseteq Threads /\ cvwait \subseteq Threads
  BY DEF TypeOK, TypeQueue
<1>3. Committing \subseteq Leading /\ "queued" \notin Leading
  BY DEF Leading, Committing
<1>4. t \notin done /\ t \notin cvwait
  BY <1>3 DEF QueueInv
<1> QED BY <1>1, <1>2, <1>3, <1>4 DEF QueueInv

(* A step of a thread that is not in the queue and does not enter it.       *)
LEMMA OutsiderMoves ==
  ASSUME TypeOK, QueueInv, NEW t \in Threads,
         pc[t] \notin Leading \cup {"queued"},
         NEW p, p \notin Leading \cup {"queued"}, pc' = [pc EXCEPT ![t] = p],
         UNCHANGED <<writers, done, cvwait, group>>
  PROVE  QueueInv'
<1>1. \A u \in Threads : pc'[u] = IF u = t THEN p ELSE pc[u]
  BY DEF TypeOK, TypeThreads
<1>2. writers \in Seq(Threads) /\ done \subseteq Threads /\ cvwait \subseteq Threads
  BY DEF TypeOK, TypeQueue
<1>3. Committing \subseteq Leading
  BY DEF Leading
<1>4. t \notin done /\ t \notin cvwait
  BY DEF QueueInv
<1> QED BY <1>1, <1>2, <1>3, <1>4 DEF QueueInv

(* A step of MakeRoomForWrite that keeps t at the front of the queue.       *)
LEMMA FrontMoves ==
  ASSUME TypeOK, QueueInv, NEW t \in Threads, InRoom(t), writers' = Queue(t),
         NEW p \in Leading, p \in Committing => group' \in 1..Len(Queue(t)),
         pc' = [pc EXCEPT ![t] = p], UNCHANGED <<done, cvwait>>
  PROVE  QueueInv'
<1> DEFINE q == Queue(t)
<1>1. Front(t, q) /\ pc[t] \in {"call", "queued", "delay", "roomwait"}
  BY InRoomIsFront
<1>2. \A u \in Threads : pc'[u] = IF u = t THEN p ELSE pc[u]
  BY DEF TypeOK, TypeThreads
<1>3. q \in Seq(Threads) /\ q # <<>> /\ Head(q) = t /\ Len(q) \in Nat
  BY <1>1 DEF Front
<1>4. \A i \in 1..Len(q) : q[i] \in Threads /\ (i = 1 \/ i \in 2..Len(q))
  BY <1>3
<1>5. \A i \in 1..Len(q) :
        pc'[q[i]] \in Leading \cup {"queued"} /\ q[i] \notin done
  BY <1>1, <1>2, <1>4 DEF Front
<1>6. t \notin cvwait
  <2>1. CASE pc[t] = "queued"
    BY <2>1 DEF InRoom, At
  <2>2. CASE pc[t] # "queued"
    BY <2>2 DEF QueueInv
  <2> QED BY <2>1, <2>2
<1>7. done \subseteq Threads /\ cvwait \subseteq Threads /\ t \notin done
  BY <1>1 DEF TypeOK, TypeQueue, Front
<1>8. \A u \in Threads : pc'[u] \in Leading => u = t
  BY <1>1, <1>2 DEF Front
<1>9. \A u \in Threads : pc'[u] \in Committing => group' \in 1..Len(q)
  BY <1>2, <1>8 DEF Leading
<1>10. (\A u \in done : pc'[u] = "queued") /\ (\A u \in cvwait : pc'[u] = "queued")
  BY <1>2, <1>6, <1>7 DEF QueueInv
<1>11. \A i, j \in 1..Len(q) : q[i] = q[j] => i = j
  BY <1>1 DEF Front
<1> QED BY <1>3, <1>5, <1>6, <1>7, <1>8, <1>9, <1>10, <1>11 DEF QueueInv

(* A step that touches neither the queue nor a program counter.             *)
LEMMA QueueUnchanged ==
  ASSUME QueueInv, UNCHANGED <<pc, writers, done, cvwait, group>>
  PROVE  QueueInv'
BY DEF QueueInv

(* Forming a group, or returning at once for a nullptr batch.               *)
LEMMA StartGroupQueue ==
  ASSUME TypeOK, QueueInv, NEW t \in Threads, InRoom(t), StartGroup(t, Queue(t))
  PROVE  QueueInv'
<1>1. Front(t, Queue(t))
  BY InRoomIsFront
<1>2. Queue(t) \in Seq(Threads) /\ Queue(t) # <<>> /\ 1 \in 1..Len(Queue(t))
  BY <1>1 DEF Front
<1>3. CASE batch[t] = NoBatch
  BY <1>1, <1>2, <1>3, PopGroupQueue DEF StartGroup
<1>4. CASE batch[t] # NoBatch
  <2>1. group' \in 1..Len(Queue(t))
    BY <1>2, <1>4, GroupSize DEF StartGroup
  <2>2. "append" \in Leading
    BY DEF Leading, Committing
  <2> QED BY <1>4, <2>1, <2>2, FrontMoves DEF StartGroup
<1> QED BY <1>3, <1>4

(* Every step of a client thread keeps the queue in order.                  *)
LEMMA QueueThread ==
  ASSUME TypeOK, QueueInv, NEW t \in Threads, ThreadStep(t)
  PROVE  QueueInv'
<1> USE DEF threadVars, storeVars, clientVars, callVars, beginVars, queueVars,
            leaderVars
<1>1. CASE Enqueue(t)
  <2>1. /\ writers' = Append(writers, t) /\ done' = done \ {t}
        /\ cvwait' = cvwait \cup {t} /\ pc[t] = "call" /\ writers # <<>>
        /\ pc' = [pc EXCEPT ![t] = "queued"] /\ group' = group
    BY <1>1 DEF Enqueue, Queue, At
  <2>2. \A u \in Threads : pc'[u] = IF u = t THEN "queued" ELSE pc[u]
    BY <2>1 DEF TypeOK, TypeThreads
  <2>3. /\ writers \in Seq(Threads) /\ Len(writers) \in Nat
        /\ \A i \in 1..Len(writers) : writers[i] \in Threads
    BY DEF TypeOK, TypeQueue
  <2>4. \A i \in 1..Len(writers) : writers[i] # t
    BY <2>1 DEF QueueInv, Leading, Committing
  <2>5. /\ Len(writers') = Len(writers) + 1
        /\ \A i \in 1..Len(writers) : writers'[i] = writers[i]
        /\ writers'[Len(writers) + 1] = t
    BY <2>1, <2>3
  <2>6. writers' # <<>> /\ Head(writers') = Head(writers) /\ Head(writers) # t
    BY <2>1, <2>3, <2>4
  <2>7. done \subseteq Threads /\ t \notin done
    BY <2>1 DEF TypeOK, TypeQueue, QueueInv
  <2>8. \A i \in 1..Len(writers') :
          pc'[writers'[i]] \in Leading \cup {"queued"} /\ writers'[i] \notin done'
    BY <2>1, <2>2, <2>3, <2>4, <2>5 DEF QueueInv
  <2>9. \A i, j \in 1..Len(writers') : writers'[i] = writers'[j] => i = j
    BY <2>3, <2>4, <2>5 DEF QueueInv
  <2>10. \A u \in Threads :
           pc'[u] \in Leading => writers' # <<>> /\ u = Head(writers')
    BY <2>2, <2>6 DEF QueueInv, Leading, Committing
  <2>11. \A u \in Threads : pc'[u] \in Committing => group' \in 1..Len(writers')
    BY <2>1, <2>2, <2>3, <2>5 DEF QueueInv, Committing
  <2>12. \A u \in done' : pc'[u] = "queued" /\ u \notin cvwait'
    BY <2>1, <2>2, <2>7 DEF QueueInv
  <2>14. \A u \in cvwait' : pc'[u] = "queued"
    BY <2>1, <2>2 DEF QueueInv, TypeOK, TypeQueue
  <2>13. Head(writers') \notin cvwait'
    BY <2>1, <2>6 DEF QueueInv
  <2> QED BY <2>8, <2>9, <2>10, <2>11, <2>12, <2>13, <2>14 DEF QueueInv
<1>2. CASE TakeResult(t)
  <2>1. /\ writers' = writers /\ cvwait' = cvwait /\ group' = group
        /\ done' = done \ {t} /\ t \in done /\ pc[t] = "queued"
        /\ pc' = [pc EXCEPT ![t] = AfterWrite(t, wstatus[t])]
    BY <1>2 DEF TakeResult, Return, At
  <2>2. AfterWrite(t, wstatus[t]) \notin Leading \cup {"queued"}
    BY DEF AfterWrite, Leading, Committing, TypeOK, TypeThreads, TypeQueue
  <2>3. \A u \in Threads : pc'[u] = IF u = t THEN AfterWrite(t, wstatus[t])
                                             ELSE pc[u]
    BY <2>1 DEF TypeOK, TypeThreads
  <2>4. writers \in Seq(Threads) /\ done \subseteq Threads
    BY DEF TypeOK, TypeQueue
  <2>5. \A i \in 1..Len(writers) : writers[i] \in Threads \ {t}
    BY <2>1, <2>4 DEF QueueInv
  <2>6. Committing \subseteq Leading
    BY DEF Leading
  <2>7. t \notin cvwait /\ cvwait \subseteq Threads
    BY <2>1 DEF QueueInv, TypeOK, TypeQueue
  <2> QED BY <2>1, <2>2, <2>3, <2>4, <2>5, <2>6, <2>7 DEF QueueInv
<1>3. CASE RoomError(t)
  <2>1. Front(t, Queue(t)) /\ PopGroup(t, Queue(t), 1, "err")
    BY <1>3, InRoomIsFront DEF RoomError
  <2>2. 1 \in 1..Len(Queue(t))
    BY <2>1 DEF Front
  <2> QED BY <2>1, <2>2, PopGroupQueue
<1>4. CASE RoomDelay(t)
  <2>1. "delay" \in Leading \ Committing
    BY DEF Leading, Committing
  <2> QED BY <1>4, <2>1, FrontMoves DEF RoomDelay
<1>5. CASE RoomReady(t)
  BY <1>5, StartGroupQueue DEF RoomReady, Proceed
<1>6. CASE RoomWait(t)
  <2>1. "roomwait" \in Leading \ Committing
    BY DEF Leading, Committing
  <2> QED BY <1>6, <2>1, FrontMoves DEF RoomWait, Proceed
<1>7. CASE RoomSwitch(t)
  BY <1>7, StartGroupQueue DEF RoomSwitch, Proceed
<1>8. CASE RoomSwitchFails(t)
  <2>1. Front(t, Queue(t)) /\ PopGroup(t, Queue(t), 1, "err")
    BY <1>8, InRoomIsFront DEF RoomSwitchFails, Proceed
  <2>2. 1 \in 1..Len(Queue(t))
    BY <2>1 DEF Front
  <2> QED BY <2>1, <2>2, PopGroupQueue
<1>9. CASE AddRecord(t)
  BY <1>9, LeaderMoves DEF AddRecord, At, Committing
<1>10. CASE AddRecordFails(t)
  BY <1>10, LeaderMoves DEF AddRecordFails, At, Committing
<1>11. CASE Sync(t)
  BY <1>11, LeaderMoves DEF Sync, At, Committing
<1>12. CASE SyncFails(t)
  BY <1>12, LeaderMoves DEF SyncFails, At, Committing
<1>13. CASE InsertInto(t)
  BY <1>13, QueueUnchanged DEF InsertInto
<1>14. CASE FinishWrite(t)
  <2>1. pc[t] \in Committing
    BY <1>14 DEF FinishWrite, At, Committing
  <2>2. writers # <<>> /\ t = Head(writers) /\ group \in 1..Len(writers)
    BY <2>1 DEF QueueInv, Leading
  <2>3. Front(t, writers)
    BY <2>2, LeaderIsFront
  <2>4. PICK s \in {"ok", "err"} : PopGroup(t, writers, group, s)
    BY <1>14 DEF FinishWrite
  <2> QED BY <2>2, <2>3, <2>4, PopGroupQueue
<1>15. CASE ImmWait(t)
  BY <1>15, QueueUnchanged DEF ImmWait
<1>16. CASE ImmDone(t)
  BY <1>16, OutsiderMoves DEF ImmDone, Return, At, Leading, Committing
<1>17. CASE ManualSubmit(t)
  BY <1>17, QueueUnchanged DEF ManualSubmit
<1>18. CASE ManualWait(t)
  BY <1>18, QueueUnchanged DEF ManualWait
<1>19. CASE ManualEnd(t)
  BY <1>19, OutsiderMoves, QueueUnchanged
     DEF ManualEnd, Return, At, Leading, Committing
<1> QED BY <1>1, <1>2, <1>3, <1>4, <1>5, <1>6, <1>7, <1>8, <1>9, <1>10, <1>11,
           <1>12, <1>13, <1>14, <1>15, <1>16, <1>17, <1>18, <1>19 DEF ThreadStep

-----------------------------------------------------------------------------
(* Types *)

(* Write returning from MakeRoomForWrite with an error keeps the types.     *)
LEMMA PopOneType ==
  ASSUME TypeOK, QueueInv, NEW t \in Threads, InRoom(t), NEW s \in {"ok", "err"},
         PopGroup(t, Queue(t), 1, s), allow_delay' = FALSE,
         UNCHANGED <<beginVars, group, last>>
  PROVE  TypeThreads' /\ TypeQueue'
<1>1. Front(t, Queue(t))
  BY InRoomIsFront
<1>2. Queue(t) \in Seq(Threads) /\ 1 <= Len(Queue(t)) /\ 1 \in Nat
  BY <1>1 DEF Front
<1>3. /\ pc' \in [Threads -> PCs]
      /\ ret' \in [Threads -> {"none", "ok", "err"}]
      /\ batch' \in [Threads -> Batches \cup {NoBatch}]
      /\ sync' \subseteq Threads
      /\ writers' \in Seq(Threads)
      /\ done' \subseteq Threads
      /\ wstatus' \in [Threads -> {"ok", "err"}]
      /\ cvwait' \subseteq Threads
  BY <1>2, PopGroupType
<1> QED BY <1>3 DEF TypeOK, TypeThreads, TypeQueue, beginVars

(* Write returning with another writer's status keeps the types.            *)
LEMMA TakeResultType ==
  ASSUME TypeOK, NEW t \in Threads, TakeResult(t)
  PROVE  TypeThreads' /\ TypeQueue'
<1>1. wstatus[t] \in {"ok", "err"}
  BY DEF TypeOK, TypeQueue
<1>2. AfterWrite(t, wstatus[t]) \in PCs
  BY <1>1, AfterWriteType
<1>3. /\ Return(t, wstatus[t], AfterWrite(t, wstatus[t]))
      /\ wstatus[t] \in {"none", "ok", "err"}
  BY <1>1 DEF TakeResult
<1>4. /\ pc' \in [Threads -> PCs]
      /\ ret' \in [Threads -> {"none", "ok", "err"}]
      /\ batch' \in [Threads -> Batches \cup {NoBatch}]
      /\ sync' \subseteq Threads
  BY <1>2, <1>3, ReturnType
<1> QED BY <1>4 DEF TakeResult, TypeOK, TypeThreads, TypeQueue, beginVars,
                    leaderVars

(* Every step of a client thread keeps the types.                           *)
LEMMA TypeThread ==
  ASSUME TypeOK, QueueInv, NEW t \in Threads, ThreadStep(t)
  PROVE  TypeOK'
<1> USE DEF TypeOK, TypeThreads, TypeQueue, TypeStore, TypeTask, TypeManual,
            threadVars, storeVars, schedVars, endVars, clientVars, callVars,
            beginVars, queueVars, leaderVars, memVars, diskVars, versionVars,
            taskVars, manualVars, lifeVars, ackVars
<1>a. {"queued", "delay", "roomwait", "append", "sync", "insert", "addfail",
       "syncfail", "manual", "idle"} \subseteq PCs
  BY DEF PCs
<1>b. Queue(t) \in Seq(Threads)
  BY QueueType
<1>d. ASSUME InRoom(t), StartGroup(t, Queue(t)), UNCHANGED beginVars,
             allow_delay' = FALSE
      PROVE  TypeThreads' /\ TypeQueue'
  <2>1. Queue(t) # <<>>
    BY <1>d, InRoomIsFront DEF Front
  <2> QED BY <1>b, <1>d, <2>1, StartGroupType
<1>1. CASE Enqueue(t)
  <2>1. TypeThreads' /\ TypeQueue'
    BY <1>1, <1>a, <1>b DEF Enqueue
  <2>2. TypeStore' /\ TypeTask' /\ TypeManual'
    BY <1>1 DEF Enqueue
  <2> QED BY <2>1, <2>2
<1>2. CASE TakeResult(t)
  <2>1. TypeThreads' /\ TypeQueue'
    BY <1>2, TakeResultType
  <2>2. TypeStore' /\ TypeTask' /\ TypeManual'
    BY <1>2 DEF TakeResult
  <2> QED BY <2>1, <2>2
<1>3. CASE RoomError(t)
  <2>1. TypeThreads' /\ TypeQueue'
    BY <1>3, PopOneType DEF RoomError
  <2>2. TypeStore' /\ TypeTask' /\ TypeManual'
    BY <1>3 DEF RoomError
  <2> QED BY <2>1, <2>2
<1>4. CASE RoomDelay(t)
  <2>1. TypeThreads' /\ TypeQueue'
    BY <1>4, <1>a, <1>b DEF RoomDelay
  <2>2. TypeStore' /\ TypeTask' /\ TypeManual'
    BY <1>4 DEF RoomDelay
  <2> QED BY <2>1, <2>2
<1>5. CASE RoomReady(t)
  <2>1. TypeThreads' /\ TypeQueue'
    BY <1>5, <1>d DEF RoomReady, Proceed
  <2>2. TypeStore' /\ TypeTask' /\ TypeManual'
    BY <1>5 DEF RoomReady
  <2> QED BY <2>1, <2>2
<1>6. CASE RoomWait(t)
  <2>1. allow_delay' \in BOOLEAN
    BY <1>6, Zenon DEF RoomWait, AllowDelay
  <2>2. TypeThreads' /\ TypeQueue'
    BY <1>6, <1>a, <1>b, <2>1 DEF RoomWait
  <2>3. TypeStore' /\ TypeManual'
    BY <1>6 DEF RoomWait
  <2>4. TypeTask'
    BY <1>6 DEF RoomWait
  <2> QED BY <2>2, <2>3, <2>4
<1>7. CASE RoomSwitch(t)
  <2>1. TypeThreads' /\ TypeQueue'
    BY <1>7, <1>d DEF RoomSwitch, Proceed
  <2>2a. TypeStore'
    BY <1>7 DEF RoomSwitch
  <2>2b. TypeManual'
    BY <1>7 DEF RoomSwitch
  <2>2. TypeStore' /\ TypeManual'
    BY <2>2a, <2>2b
  <2>3. TypeTask'
    BY <1>7, ScheduleType DEF RoomSwitch
  <2> QED BY <2>1, <2>2, <2>3
<1>8. CASE RoomSwitchFails(t)
  <2>1. TypeThreads' /\ TypeQueue'
    BY <1>8, PopOneType DEF RoomSwitchFails, Proceed
  <2>2. TypeStore' /\ TypeTask' /\ TypeManual'
    BY <1>8 DEF RoomSwitchFails
  <2> QED BY <2>1, <2>2
<1>9. Record \in Records
  BY DEF Record, Records
<1>10. CASE AddRecord(t)
  <2>1. TypeThreads' /\ TypeQueue'
    BY <1>10, <1>a DEF AddRecord
  <2>2. TypeStore'
    BY <1>9, <1>10 DEF AddRecord
  <2>3. TypeTask' /\ TypeManual'
    BY <1>10 DEF AddRecord
  <2> QED BY <2>1, <2>2, <2>3
<1>11. CASE AddRecordFails(t)
  <2>1. TypeThreads' /\ TypeQueue'
    BY <1>11, <1>a DEF AddRecordFails
  <2>2. TypeStore'
    BY <1>9, <1>11 DEF AddRecordFails
  <2>3. TypeTask' /\ TypeManual'
    BY <1>11 DEF AddRecordFails
  <2> QED BY <2>1, <2>2, <2>3
<1>12. CASE Sync(t)
  <2>1. TypeThreads' /\ TypeQueue'
    BY <1>12, <1>a DEF Sync
  <2>2. TypeStore'
    BY <1>12 DEF Sync, Records
  <2>3. TypeTask' /\ TypeManual'
    BY <1>12 DEF Sync
  <2> QED BY <2>1, <2>2, <2>3
<1>13. CASE SyncFails(t)
  <2>1. TypeThreads' /\ TypeQueue'
    BY <1>13, <1>a DEF SyncFails
  <2>2. TypeStore' /\ TypeTask' /\ TypeManual'
    BY <1>13 DEF SyncFails
  <2> QED BY <2>1, <2>2
<1>14. CASE InsertInto(t)
  <2>1. TypeThreads' /\ TypeQueue' /\ TypeTask' /\ TypeManual'
    BY <1>14 DEF InsertInto
  <2>2. TypeStore'
    BY <1>14 DEF InsertInto
  <2> QED BY <2>1, <2>2
<1>15. CASE FinishWrite(t)
  <2>1. pc[t] \in Committing
    BY <1>15 DEF FinishWrite, At, Committing
  <2>2. group \in 1..Len(writers)
    BY <2>1 DEF QueueInv
  <2>3. PICK s \in {"ok", "err"} : PopGroup(t, writers, group, s)
    BY <1>15 DEF FinishWrite
  <2>4. group <= Len(writers)
    BY <2>2
  <2>5. TypeThreads' /\ TypeQueue'
    BY <1>15, <2>3, <2>4, PopGroupType DEF FinishWrite
  <2>9. (lastSeq + 1)..last \subseteq Nat
    OBVIOUS
  <2>10. acked' \subseteq Nat /\ syncAcked' \subseteq Nat /\ lastSeq' \in Nat
    BY <1>15, <2>9 DEF FinishWrite, SetLastSequence
  <2>6. TypeStore'
    BY <1>15, <2>10 DEF FinishWrite
  <2>7. bg_error' \in BOOLEAN
    BY <1>15, Zenon DEF FinishWrite
  <2>8. TypeTask' /\ TypeManual'
    BY <1>15, <2>7 DEF FinishWrite
  <2> QED BY <2>5, <2>6, <2>8
<1>16. CASE ImmWait(t)
  BY <1>16 DEF ImmWait
<1>17. CASE ImmDone(t)
  <2>1. TypeThreads' /\ TypeQueue'
    BY <1>17, <1>a, ReturnType DEF ImmDone
  <2>2. TypeStore' /\ TypeTask' /\ TypeManual'
    BY <1>17 DEF ImmDone
  <2> QED BY <2>1, <2>2
<1>18. CASE ManualSubmit(t)
  <2>1. TypeThreads' /\ TypeQueue' /\ TypeStore' /\ TypeManual'
    BY <1>18 DEF ManualSubmit
  <2>2. TypeTask'
    BY <1>18, ScheduleType DEF ManualSubmit
  <2> QED BY <2>1, <2>2
<1>19. CASE ManualWait(t)
  BY <1>19 DEF ManualWait
<1>20. CASE ManualEnd(t)
  <2>1. TypeThreads' /\ TypeQueue'
    BY <1>20, <1>a, ReturnType DEF ManualEnd
  <2>2. TypeStore' /\ TypeTask'
    BY <1>20 DEF ManualEnd
  <2>3. manual' \in Threads \cup {Owner} /\ mdone' \subseteq Threads
    BY <1>20 DEF ManualEnd
  <2>4. level' \in [Threads -> Nat]
    <3>1. CASE level' = level
      BY <3>1
    <3>2. CASE level' = [level EXCEPT ![t] = level[t] + 1]
      <4>1. level[t] + 1 \in Nat
        OBVIOUS
      <4> QED BY <3>2, <4>1
    <3> QED BY <1>20, <3>1, <3>2 DEF ManualEnd
  <2>5. left' \in [Threads -> Nat]
    <3>1. CASE left' = left
      BY <3>1
    <3>2. CASE \E n \in 0..MaxChunks : left' = [left EXCEPT ![t] = n]
      BY <3>2
    <3> QED BY <1>20, <3>1, <3>2 DEF ManualEnd
  <2>6. TypeManual'
    BY <1>20, <2>3, <2>4, <2>5 DEF ManualEnd
  <2> QED BY <2>1, <2>2, <2>6
<1> QED BY <1>1, <1>2, <1>3, <1>4, <1>5, <1>6, <1>7, <1>8, <1>10, <1>11, <1>12,
           <1>13, <1>14, <1>15, <1>16, <1>17, <1>18, <1>19, <1>20 DEF ThreadStep

(* Beginning a call keeps the types.                                        *)
LEMMA TypeCall ==
  ASSUME TypeOK, NEW t \in Threads, CallBegins(t)
  PROVE  TypeOK'
<1> USE DEF TypeOK, TypeThreads, TypeQueue, TypeStore, TypeTask, TypeManual,
            storeVars, schedVars, endVars, queueVars, leaderVars, memVars,
            diskVars, versionVars, taskVars, manualVars, lifeVars, ackVars
<1>a. {"call", "idle"} \subseteq PCs
  BY DEF PCs
<1>b. ASSUME NEW kind \in {"write", "flush", "range"}, Call(t, kind)
      PROVE  TypeThreads'
  BY <1>a, <1>b DEF Call
<1>1. ASSUME NEW b \in Batches, NEW s \in SyncModes, CallWrite(t, b, s)
      PROVE  TypeOK'
  <2>1. TypeThreads'
    BY <1>1, <1>b DEF CallWrite
  <2>2. TypeQueue'
    BY <1>1 DEF CallWrite
  <2>3. TypeStore' /\ TypeTask' /\ TypeManual'
    BY <1>1 DEF CallWrite
  <2> QED BY <2>1, <2>2, <2>3
<1>2. CASE CallFlush(t)
  <2>1. TypeThreads'
    BY <1>2, <1>b DEF CallFlush
  <2>2. TypeQueue'
    BY <1>2 DEF CallFlush
  <2>3. TypeStore' /\ TypeTask' /\ TypeManual'
    BY <1>2 DEF CallFlush
  <2> QED BY <2>1, <2>2, <2>3
<1>3. CASE CallRange(t)
  <2>1. TypeThreads'
    BY <1>3, <1>b DEF CallRange
  <2>2. TypeQueue'
    BY <1>3 DEF CallRange
  <2>3. TypeStore' /\ TypeTask'
    BY <1>3 DEF CallRange
  <2>4. TypeManual'
    <3>1. PICK m \in 1..MaxLevels, n \in 0..MaxChunks :
            /\ max_level' = [max_level EXCEPT ![t] = m]
            /\ left' = [left EXCEPT ![t] = n]
      BY <1>3 DEF CallRange
    <3>2. m \in Nat /\ n \in Nat
      BY BoundAssumption
    <3>3. max_level' \in [Threads -> Nat] /\ left' \in [Threads -> Nat]
      BY <3>1, <3>2
    <3> QED BY <1>3, <3>3 DEF CallRange
  <2> QED BY <2>1, <2>2, <2>3, <2>4
<1>4. CASE UpdateStats(t)
  <2>0. TypeThreads'
    BY <1>4 DEF UpdateStats
  <2>1. TypeQueue' /\ TypeStore' /\ TypeManual'
    BY <1>4 DEF UpdateStats
  <2>2. scheduled' \in BOOLEAN /\ tasks' \in Nat
    BY <1>4, ScheduleType DEF UpdateStats
  <2>3. seek' \in BOOLEAN
    <3>1. seek' = seek \/ seek' = TRUE
      BY <1>4 DEF UpdateStats
    <3> QED BY <3>1, Zenon
  <2>4. UNCHANGED <<l0, deep, bg, comp, bg_error, waiting>>
    BY <1>4 DEF UpdateStats
  <2>5. TypeTask'
    BY <2>2, <2>3, <2>4
  <2> QED BY <2>0, <2>1, <2>5
<1> QED BY <1>1, <1>2, <1>3, <1>4 DEF CallBegins

(* Beginning a call does not touch the queue.                               *)
LEMMA QueueCall ==
  ASSUME TypeOK, QueueInv, NEW t \in Threads, CallBegins(t)
  PROVE  QueueInv'
<1> USE DEF queueVars, leaderVars
<1>1. {"call", "idle"} \cap (Leading \cup {"queued"}) = {}
  BY DEF Leading, Committing
<1>2. ASSUME NEW kind, Call(t, kind), UNCHANGED <<writers, done, cvwait, group>>
      PROVE  QueueInv'
  BY <1>1, <1>2, OutsiderMoves DEF Call, At
<1>3. ASSUME NEW b \in Batches, NEW s \in SyncModes, CallWrite(t, b, s)
      PROVE  QueueInv'
  BY <1>2, <1>3 DEF CallWrite
<1>4. CASE CallFlush(t)
  BY <1>2, <1>4 DEF CallFlush
<1>5. CASE CallRange(t)
  BY <1>2, <1>5 DEF CallRange
<1>6. CASE UpdateStats(t)
  BY <1>6, QueueUnchanged DEF UpdateStats
<1> QED BY <1>3, <1>4, <1>5, <1>6 DEF CallBegins

(* The background task and the destructor do not touch the queue.           *)
LEMMA QueueOthers ==
  ASSUME QueueInv, BackgroundStep \/ Close \/ CloseWakes \/ UNCHANGED vars
  PROVE  QueueInv'
<1>1. UNCHANGED threadVars
  BY DEF BackgroundStep, TaskSkipped, FlushStarts, ManualEmpty, ManualStarts,
         CompactionStarts, FlushBuilt, FlushFails, FlushCommits, FlushUnlinks,
         NestedFlush, WorkDone, CompactionFails, Installs, Cleanup, TrivialMove,
         Close, CloseWakes, vars, clientVars
<1> QED BY <1>1, QueueUnchanged DEF threadVars, queueVars, leaderVars

(* The end of a flush keeps the types of the scheduling state.              *)
LEMMA FlushEndType ==
  ASSUME TypeOK, FlushEnd
  PROVE  /\ waiting' \subseteq Threads \cup {Owner}
         /\ bg' \in BGs /\ comp' \in Compactions
         /\ scheduled' \in BOOLEAN /\ tasks' \in Nat
<1>1. CASE comp.active
  BY <1>1 DEF FlushEnd, TypeOK, TypeTask, BGs
<1>2. CASE ~comp.active
  <2>1. tasks \in Nat /\ BackgroundCallEnd(tasks)
    BY <1>2 DEF FlushEnd, TypeOK, TypeTask
  <2> QED BY <2>1, BackgroundCallEndType
<1> QED BY <1>1, <1>2

(* The end of a compaction keeps the types, because a manual compaction     *)
(* that ran had work left.                                                  *)
LEMMA CompactionEndType ==
  ASSUME TypeOK, ManualInv, NEW ok \in BOOLEAN, CompactionEnd(ok), UNCHANGED lifeVars
  PROVE  /\ waiting' \subseteq Threads \cup {Owner}
         /\ bg' \in BGs /\ comp' \in Compactions
         /\ scheduled' \in BOOLEAN /\ tasks' \in Nat
         /\ TypeManual'
<1>1. CASE comp.manual /\ manual = Owner
  BY <1>1 DEF CompactionEnd, TypeOK, TypeTask, TypeManual, manualVars, lifeVars, BGs
<1>2. CASE ~(comp.manual /\ manual = Owner)
  <2>1. /\ manual' = IF comp.manual THEN Owner ELSE manual
        /\ mdone' = IF comp.manual /\ ~ok THEN mdone \cup {manual} ELSE mdone
        /\ left' = [t \in Threads |->
                       IF comp.manual /\ ok /\ t = manual THEN left[t] - 1
                       ELSE left[t]]
        /\ UNCHANGED <<level, max_level>>
        /\ BackgroundCallEnd(tasks)
    BY <1>2 DEF CompactionEnd
  <2>2. comp.manual => manual \in Threads /\ left[manual] > 0
    BY <1>2, ThreadsAssumption DEF ManualInv, TypeOK, TypeManual
  <2>3. left' \in [Threads -> Nat]
    <3>1. \A t \in Threads : left[t] \in Nat
      BY DEF TypeOK, TypeManual
    <3>2. \A t \in Threads : comp.manual /\ t = manual => left[t] - 1 \in Nat
      BY <2>2, <3>1
    <3> QED BY <2>1, <3>1, <3>2
  <2>4. manual' \in Threads \cup {Owner} /\ mdone' \subseteq Threads
    BY <2>1, <2>2 DEF TypeOK, TypeManual
  <2>5. TypeManual'
    BY <2>1, <2>3, <2>4 DEF TypeOK, TypeManual, lifeVars
  <2>6. tasks \in Nat
    BY DEF TypeOK, TypeTask
  <2> QED BY <2>1, <2>5, <2>6, BackgroundCallEndType
<1> QED BY <1>1, <1>2

(* Installing a compaction never takes more level-0 files than there are.   *)
LEMMA MovedDownType ==
  ASSUME TypeOK, ManualInv, bg \in {"install", "move"}, MovedDown
  PROVE  l0' \in Nat /\ deep' \in 0..MaxDeep /\ seek' \in BOOLEAN /\ l0' <= l0
<1>1. comp.files \in Nat /\ comp.files <= l0 /\ l0 \in Nat
  BY DEF TypeOK, TypeTask, ManualInv, Compactions
<1>2. l0' \in Nat /\ l0' <= l0
  BY <1>1 DEF MovedDown
<1>3. deep' \in 0..MaxDeep
  BY BoundAssumption DEF MovedDown, TypeOK, TypeTask
<1> QED BY <1>2, <1>3 DEF MovedDown

(* Every step of the background task keeps the types.                       *)
LEMMA TypeBackground ==
  ASSUME TypeOK, ManualInv, BackgroundStep
  PROVE  TypeOK'
<1> USE DEF TypeOK, TypeThreads, TypeQueue, TypeStore, TypeTask, TypeManual,
            threadVars, storeVars, schedVars, endVars, clientVars, callVars,
            beginVars, queueVars, leaderVars, memVars, diskVars, versionVars,
            taskVars, manualVars, lifeVars, ackVars
<1>a. {"idle", "build", "apply", "unlink", "work", "install", "cleanup", "move"}
        \subseteq BGs
  BY DEF BGs
<1>b. TaskStarts => tasks - 1 \in Nat
  BY DEF TaskStarts
<1>1. CASE TaskSkipped
  <2>1. TypeThreads' /\ TypeQueue' /\ TypeStore' /\ TypeManual'
    BY <1>1 DEF TaskSkipped
  <2>2. TypeTask'
    BY <1>1, <1>b, BackgroundCallEndType DEF TaskSkipped
  <2> QED BY <2>1, <2>2
<1>2. CASE FlushStarts
  <2>1. TypeThreads' /\ TypeQueue' /\ TypeStore' /\ TypeManual'
    BY <1>2 DEF FlushStarts
  <2>2. TypeTask'
    BY <1>2, <1>a, <1>b DEF FlushStarts
  <2> QED BY <2>1, <2>2
<1>3. CASE ManualEmpty
  <2>1. TypeThreads' /\ TypeQueue' /\ TypeStore'
    BY <1>3 DEF ManualEmpty
  <2>2. TypeManual'
    BY <1>3 DEF ManualEmpty
  <2>3. TypeTask'
    BY <1>3, <1>b, BackgroundCallEndType DEF ManualEmpty
  <2> QED BY <2>1, <2>2, <2>3
<1>4. CASE ManualStarts
  <2>1. TypeThreads' /\ TypeQueue' /\ TypeStore' /\ TypeManual'
    BY <1>4 DEF ManualStarts
  <2>2. comp' \in Compactions
    <3>1. PICK k \in ManualFiles(manual) :
            comp' = [active |-> TRUE, manual |-> TRUE, files |-> k,
                     deep |-> FALSE, tries |-> MaxRetries]
      BY <1>4 DEF ManualStarts
    <3>2. k \in Nat
      BY DEF ManualFiles
    <3> QED BY <3>1, <3>2, BoundAssumption DEF Compactions
  <2>3. TypeTask'
    BY <1>4, <1>a, <1>b, <2>2 DEF ManualStarts
  <2> QED BY <2>1, <2>3
<1>5. CASE CompactionStarts
  <2>1. TypeThreads' /\ TypeQueue' /\ TypeStore' /\ TypeManual'
    BY <1>5 DEF CompactionStarts
  <2>2. \A c \in Picks : c \in Compactions
    <3>1. \A k \in Nat, d \in BOOLEAN :
            [active |-> TRUE, manual |-> FALSE, files |-> k, deep |-> d,
             tries |-> MaxRetries] \in Compactions
      BY BoundAssumption DEF Compactions
    <3>2. 1..l0 \subseteq Nat /\ 0..l0 \subseteq Nat
      OBVIOUS
    <3> SUFFICES ASSUME NEW c \in Picks
                 PROVE  \E k \in Nat, d \in BOOLEAN :
                          c = [active |-> TRUE, manual |-> FALSE, files |-> k,
                               deep |-> d, tries |-> MaxRetries]
      BY <3>1
    <3>3. CASE \E k \in Nat :
                 c = [active |-> TRUE, manual |-> FALSE, files |-> k,
                      deep |-> FALSE, tries |-> MaxRetries]
      BY <3>3
    <3>4. CASE c = [active |-> TRUE, manual |-> FALSE, files |-> 0,
                    deep |-> TRUE, tries |-> MaxRetries]
      BY <3>4
    <3> QED BY <3>2, <3>3, <3>4 DEF Picks
  <2>3. comp' \in Compactions /\ bg' \in {"work", "move"}
    BY <1>5, <2>2 DEF CompactionStarts
  <2>4. TypeTask'
    BY <1>5, <1>a, <1>b, <2>3 DEF CompactionStarts
  <2> QED BY <2>1, <2>4
<1>6. CASE FlushBuilt
  <2>1. TypeThreads' /\ TypeQueue' /\ TypeStore' /\ TypeManual'
    BY <1>6 DEF FlushBuilt
  <2>2. TypeTask'
    BY <1>6, <1>a DEF FlushBuilt
  <2> QED BY <2>1, <2>2
<1>7. CASE FlushFails
  <2>1. TypeThreads' /\ TypeQueue' /\ TypeStore' /\ TypeManual'
    BY <1>7 DEF FlushFails
  <2>2. /\ waiting' \subseteq Threads \cup {Owner}
        /\ bg' \in BGs /\ comp' \in Compactions
        /\ scheduled' \in BOOLEAN /\ tasks' \in Nat
    BY <1>7, FlushEndType DEF FlushFails
  <2>3. TypeTask'
    BY <1>7, <2>2 DEF FlushFails
  <2> QED BY <2>1, <2>3
<1>8. CASE FlushCommits
  <2>1. TypeThreads' /\ TypeQueue' /\ TypeManual'
    BY <1>8 DEF FlushCommits
  <2>2. TypeStore'
    BY <1>8 DEF FlushCommits
  <2>3. l0' \in Nat /\ deep' \in 0..MaxDeep /\ seek' \in BOOLEAN
    <3>1. seek' = FALSE /\ FlushedTo
      BY <1>8 DEF FlushCommits
    <3>2. l0' = l0 \/ l0' = l0 + 1
      BY <3>1 DEF FlushedTo
    <3>3. deep' = deep \/ deep' \in deep..MaxDeep
      BY <3>1 DEF FlushedTo
    <3>4. MaxDeep \in Nat
      BY BoundAssumption
    <3>5. l0' \in Nat
      BY <3>2
    <3>6. deep' \in 0..MaxDeep
      BY <3>3, <3>4
    <3> QED BY <3>1, <3>5, <3>6
  <2>4. /\ waiting' \subseteq Threads \cup {Owner}
        /\ bg' \in BGs /\ comp' \in Compactions
        /\ scheduled' \in BOOLEAN /\ tasks' \in Nat
    BY <1>8, <1>a, FlushEndType DEF FlushCommits
  <2>5. TypeTask'
    BY <1>8, <2>3, <2>4 DEF FlushCommits
  <2> QED BY <2>1, <2>2, <2>5
<1>9. CASE FlushUnlinks
  <2>1. TypeThreads' /\ TypeQueue' /\ TypeStore' /\ TypeManual'
    BY <1>9 DEF FlushUnlinks, RemoveObsoleteFiles
  <2>2. TypeTask'
    BY <1>9, FlushEndType DEF FlushUnlinks
  <2> QED BY <2>1, <2>2
<1>10. CASE NestedFlush
  <2>1. TypeThreads' /\ TypeQueue' /\ TypeStore' /\ TypeManual'
    BY <1>10 DEF NestedFlush
  <2>2. comp' \in Compactions
    <3>1. comp' = [comp EXCEPT !.tries = comp.tries - 1] /\ comp.tries > 0
      BY <1>10 DEF NestedFlush
    <3>2. comp \in Compactions
      BY DEF TypeTask
    <3>3. comp.tries \in Nat
      BY ONLY <3>2 DEF Compactions
    <3>4. comp.tries - 1 \in Nat
      BY ONLY <3>1, <3>3
    <3> QED BY ONLY <3>1, <3>2, <3>4 DEF Compactions
  <2>3. TypeTask'
    BY <1>10, <1>a, <2>2 DEF NestedFlush
  <2> QED BY <2>1, <2>3
<1>11. CASE WorkDone
  <2>1. TypeThreads' /\ TypeQueue' /\ TypeStore' /\ TypeManual'
    BY <1>11 DEF WorkDone
  <2>2. TypeTask'
    BY <1>11, <1>a DEF WorkDone
  <2> QED BY <2>1, <2>2
<1>12. CASE CompactionFails
  <2>1. TypeThreads' /\ TypeQueue' /\ TypeStore'
    BY <1>12 DEF CompactionFails
  <2>2. TypeTask' /\ TypeManual'
    BY <1>12, CompactionEndType DEF CompactionFails
  <2> QED BY <2>1, <2>2
<1>13. CASE Installs
  <2>1. TypeThreads' /\ TypeQueue' /\ TypeStore'
    BY <1>13 DEF Installs
  <2>2. l0' \in Nat /\ deep' \in 0..MaxDeep /\ seek' \in BOOLEAN
    BY <1>13, MovedDownType DEF Installs
  <2>3. /\ waiting' \subseteq Threads \cup {Owner}
        /\ bg' \in BGs /\ comp' \in Compactions
        /\ scheduled' \in BOOLEAN /\ tasks' \in Nat
        /\ TypeManual'
    BY <1>13, <1>a, CompactionEndType DEF Installs
  <2>4. TypeTask'
    BY <1>13, <2>2, <2>3 DEF Installs
  <2> QED BY <2>1, <2>3, <2>4
<1>14. CASE Cleanup
  <2>1. TypeThreads' /\ TypeQueue' /\ TypeStore'
    BY <1>14 DEF Cleanup, RemoveObsoleteFiles
  <2>2. TypeTask' /\ TypeManual'
    BY <1>14, CompactionEndType DEF Cleanup
  <2> QED BY <2>1, <2>2
<1>15. CASE TrivialMove
  <2>1. TypeThreads' /\ TypeQueue' /\ TypeStore'
    BY <1>15 DEF TrivialMove
  <2>2. l0' \in Nat /\ deep' \in 0..MaxDeep /\ seek' \in BOOLEAN
    BY <1>15, MovedDownType DEF TrivialMove
  <2>3. /\ waiting' \subseteq Threads \cup {Owner}
        /\ bg' \in BGs /\ comp' \in Compactions
        /\ scheduled' \in BOOLEAN /\ tasks' \in Nat
        /\ TypeManual'
    BY <1>15, CompactionEndType DEF TrivialMove
  <2>4. TypeTask'
    BY <1>15, <2>2, <2>3 DEF TrivialMove
  <2> QED BY <2>1, <2>3, <2>4
<1> QED BY <1>1, <1>2, <1>3, <1>4, <1>5, <1>6, <1>7, <1>8, <1>9, <1>10, <1>11,
           <1>12, <1>13, <1>14, <1>15 DEF BackgroundStep

(* So do the destructor and stuttering.                                     *)
LEMMA TypeOthers ==
  ASSUME TypeOK, Close \/ CloseWakes \/ UNCHANGED vars
  PROVE  TypeOK'
<1> USE DEF TypeOK, TypeThreads, TypeQueue, TypeStore, TypeTask, TypeManual,
            threadVars, storeVars, schedVars, endVars, clientVars, callVars,
            beginVars, queueVars, leaderVars, memVars, diskVars, versionVars,
            taskVars, manualVars, lifeVars, ackVars
<1>1. CASE Close
  <2>1. TypeThreads' /\ TypeQueue' /\ TypeStore' /\ TypeManual'
    BY <1>1 DEF Close
  <2>2. TypeTask'
    BY <1>1 DEF Close
  <2> QED BY <2>1, <2>2
<1>2. CASE CloseWakes
  <2>1. TypeThreads' /\ TypeQueue' /\ TypeStore' /\ TypeManual'
    BY <1>2 DEF CloseWakes
  <2>2. TypeTask'
    BY <1>2 DEF CloseWakes
  <2> QED BY <2>1, <2>2
<1>3. CASE UNCHANGED vars
  BY <1>3 DEF vars
<1> QED BY <1>1, <1>2, <1>3

-----------------------------------------------------------------------------
(* Manual compactions *)

(* A step of a thread that is not in TEST_CompactRange leaves the manual    *)
(* compaction alone.                                                        *)
LEMMA ManualFrame ==
  ASSUME TypeOK, ManualInv,
         \A u \in Threads : pc[u] = "manual" => pc'[u] = "manual",
         UNCHANGED <<manual, mdone, comp, left, shutting_down, bg>>,
         l0' = l0, bg_error => bg_error'
  PROVE  ManualInv'
BY ThreadsAssumption DEF ManualInv, TypeOK, TypeManual

(* The same for a step that moves one thread.                               *)
LEMMA ManualMoves ==
  ASSUME TypeOK, ManualInv, NEW t \in Threads, pc[t] # "manual",
         NEW p, pc' = [pc EXCEPT ![t] = p],
         UNCHANGED <<manual, mdone, comp, left, shutting_down, bg>>,
         l0' = l0, bg_error => bg_error'
  PROVE  ManualInv'
<1>1. \A u \in Threads : pc[u] = "manual" => pc'[u] = "manual"
  BY DEF TypeOK, TypeThreads
<1> QED BY <1>1, ManualFrame

(* Popping a group and forming one move one thread.                         *)
LEMMA GroupMoves ==
  ASSUME NEW t \in Threads, NEW q,
         StartGroup(t, q) \/ \E n, s : PopGroup(t, q, n, s)
  PROVE  \E p : pc' = [pc EXCEPT ![t] = p]
<1>1. \A n, s : PopGroup(t, q, n, s) => pc' = [pc EXCEPT ![t] = AfterWrite(t, s)]
  BY DEF PopGroup, Return
<1>2. StartGroup(t, q) => pc' = [pc EXCEPT ![t] = "append"] \/ PopGroup(t, q, 1, "ok")
  BY DEF StartGroup
<1> QED BY <1>1, <1>2

(* Every step of a client thread keeps ManualInv: only the thread whose     *)
(* struct manual_compaction_ points to cancels it, and only after an error. *)
LEMMA ManualThread ==
  ASSUME TypeOK, ManualInv, NEW t \in Threads, ThreadStep(t)
  PROVE  ManualInv'
<1> USE DEF threadVars, storeVars, schedVars, endVars, clientVars, callVars,
            beginVars, queueVars, leaderVars, versionVars, taskVars,
            manualVars, lifeVars
<1>1. CASE Enqueue(t)
  BY <1>1, ManualMoves DEF Enqueue, At
<1>2. CASE TakeResult(t)
  BY <1>2, ManualMoves DEF TakeResult, At, Return
<1>3. CASE RoomError(t)
  <2>1. \E p : pc' = [pc EXCEPT ![t] = p]
    BY <1>3, GroupMoves DEF RoomError
  <2> QED BY <1>3, <2>1, ManualMoves DEF RoomError, InRoom, At
<1>4. CASE RoomDelay(t)
  BY <1>4, ManualMoves DEF RoomDelay, InRoom, At
<1>5. CASE RoomReady(t)
  <2>1. \E p : pc' = [pc EXCEPT ![t] = p]
    BY <1>5, GroupMoves DEF RoomReady
  <2> QED BY <1>5, <2>1, ManualMoves DEF RoomReady, Proceed, InRoom, At
<1>6. CASE RoomWait(t)
  BY <1>6, ManualMoves DEF RoomWait, Proceed, InRoom, At
<1>7. CASE RoomSwitch(t)
  <2>1. \E p : pc' = [pc EXCEPT ![t] = p]
    BY <1>7, GroupMoves DEF RoomSwitch
  <2> QED BY <1>7, <2>1, ManualMoves DEF RoomSwitch, Proceed, InRoom, At
<1>8. CASE RoomSwitchFails(t)
  <2>1. \E p : pc' = [pc EXCEPT ![t] = p]
    BY <1>8, GroupMoves DEF RoomSwitchFails
  <2> QED BY <1>8, <2>1, ManualMoves DEF RoomSwitchFails, Proceed, InRoom, At
<1>9. CASE AddRecord(t)
  BY <1>9, ManualMoves DEF AddRecord, At
<1>10. CASE AddRecordFails(t)
  BY <1>10, ManualMoves DEF AddRecordFails, At
<1>11. CASE Sync(t)
  BY <1>11, ManualMoves DEF Sync, At
<1>12. CASE SyncFails(t)
  BY <1>12, ManualMoves DEF SyncFails, At
<1>13. CASE InsertInto(t)
  BY <1>13, ManualFrame DEF InsertInto
<1>14. CASE FinishWrite(t)
  <2>1. \E p : pc' = [pc EXCEPT ![t] = p]
    BY <1>14, GroupMoves DEF FinishWrite
  <2>2. pc[t] # "manual" /\ (bg_error => bg_error')
    BY <1>14 DEF FinishWrite, At
  <2>3. /\ UNCHANGED <<manual, mdone, comp, left, shutting_down, bg>>
        /\ l0' = l0
    BY <1>14 DEF FinishWrite
  <2> QED BY <2>1, <2>2, <2>3, ManualMoves
<1>15. CASE ImmWait(t)
  BY <1>15, ManualFrame DEF ImmWait
<1>16. CASE ImmDone(t)
  BY <1>16, ManualMoves DEF ImmDone, Return, At
<1>17. CASE ManualSubmit(t)
  BY <1>17 DEF ManualSubmit, ManualInv, At, KeepWaiting
<1>18. CASE ManualWait(t)
  BY <1>18, ManualFrame DEF ManualWait
<1>19. CASE ManualEnd(t)
  <2>1. /\ UNCHANGED <<comp, shutting_down, bg, bg_error, l0>>
        /\ manual' = IF manual = t THEN Owner ELSE manual
        /\ ~KeepWaiting(t)
    BY <1>19 DEF ManualEnd
  <2>2. \A u \in Threads \ {t} : pc'[u] = pc[u] /\ left'[u] = left[u]
    BY <1>19 DEF ManualEnd, Return, TypeOK, TypeThreads, TypeManual
  <2>3. mdone' \subseteq mdone
    BY <1>19 DEF ManualEnd
  <2>4. manual = t => bg_error \/ shutting_down
    BY <2>1, ThreadsAssumption DEF KeepWaiting, ManualInv
  <2> QED BY <2>1, <2>2, <2>3, <2>4, ThreadsAssumption
          DEF ManualInv, TypeOK, TypeManual
<1> QED BY <1>1, <1>2, <1>3, <1>4, <1>5, <1>6, <1>7, <1>8, <1>9, <1>10, <1>11,
           <1>12, <1>13, <1>14, <1>15, <1>16, <1>17, <1>18, <1>19 DEF ThreadStep

(* Beginning a call keeps ManualInv: the thread had no call in progress.    *)
LEMMA ManualCall ==
  ASSUME TypeOK, ManualInv, NEW t \in Threads, CallBegins(t)
  PROVE  ManualInv'
<1> USE DEF schedVars, endVars, versionVars, taskVars, manualVars, lifeVars
<1>1. ASSUME NEW b \in Batches, NEW s \in SyncModes, CallWrite(t, b, s)
      PROVE  ManualInv'
  BY <1>1, ManualMoves DEF CallWrite, Call, At
<1>2. CASE CallFlush(t)
  BY <1>2, ManualMoves DEF CallFlush, Call, At
<1>3. CASE CallRange(t)
  <2>1. /\ UNCHANGED <<manual, comp, shutting_down, bg, bg_error, l0>>
        /\ pc' = [pc EXCEPT ![t] = "call"] /\ pc[t] = "idle"
        /\ mdone' = mdone \ {t}
    BY <1>3 DEF CallRange, Call, At
  <2>2. \A u \in Threads \ {t} : pc'[u] = pc[u] /\ left'[u] = left[u]
    BY <1>3, <2>1 DEF CallRange, TypeOK, TypeThreads, TypeManual
  <2>3. manual # t
    BY <2>1, ThreadsAssumption DEF ManualInv
  <2> QED BY <2>1, <2>2, <2>3, ThreadsAssumption DEF ManualInv, TypeOK, TypeManual
<1>4. CASE UpdateStats(t)
  BY <1>4, ManualFrame DEF UpdateStats
<1> QED BY <1>1, <1>2, <1>3, <1>4 DEF CallBegins

(* The end of a task forgets the compaction it ran.                         *)
LEMMA ManualTaskEnd ==
  ASSUME TypeOK, ManualInv, NEW n, BackgroundCallEnd(n), l0' \in Nat, pc' = pc,
         manual' = Owner \/ (manual' = manual /\ mdone' = mdone)
  PROVE  ManualInv'
BY DEF BackgroundCallEnd, NoCompaction, ManualInv

(* So does the end of a compaction, unless it dereferences a null pointer.  *)
LEMMA ManualCompactionEnd ==
  ASSUME TypeOK, ManualInv, NEW ok \in BOOLEAN, CompactionEnd(ok), l0' \in Nat,
         pc' = pc, shutting_down' = shutting_down, bg_error => bg_error'
  PROVE  ManualInv'
<1>1. CASE comp.manual /\ manual = Owner
  BY <1>1 DEF CompactionEnd, manualVars, ManualInv
<1>2. CASE ~(comp.manual /\ manual = Owner)
  <2>1. BackgroundCallEnd(tasks)
    BY <1>2 DEF CompactionEnd
  <2>2. manual' = Owner \/ (manual' = manual /\ mdone' = mdone)
    BY <1>2 DEF CompactionEnd
  <2> QED BY <2>1, <2>2, ManualTaskEnd
<1> QED BY <1>1, <1>2

(* Every step of the background task keeps ManualInv.                       *)
LEMMA ManualBackground ==
  ASSUME TypeOK, ManualInv, BackgroundStep, TypeOK'
  PROVE  ManualInv'
<1> USE DEF threadVars, endVars, clientVars, versionVars, manualVars, lifeVars
<1>0. l0 \in Nat /\ l0' \in Nat
  BY DEF TypeOK, TypeTask
<1>1. CASE TaskSkipped
  BY <1>0, <1>1, ManualTaskEnd DEF TaskSkipped
<1>2. CASE FlushStarts
  BY <1>2 DEF FlushStarts, TaskStarts, ManualInv
<1>3. CASE ManualEmpty
  BY <1>0, <1>3, ManualTaskEnd DEF ManualEmpty
<1>4. CASE ManualStarts
  <2>1. PICK k \in ManualFiles(manual) :
          comp' = [active |-> TRUE, manual |-> TRUE, files |-> k,
                   deep |-> FALSE, tries |-> MaxRetries]
    BY <1>4 DEF ManualStarts
  <2>2. k <= l0 /\ left[manual] # 0
    BY <1>0 DEF ManualFiles
  <2>3. manual \in Threads /\ left[manual] \in Nat
    BY <1>4 DEF ManualStarts, TypeOK, TypeManual
  <2>4. left[manual] > 0
    BY <2>2, <2>3
  <2>5. comp'.manual /\ comp'.files = k
    BY <2>1
  <2>6. manual # Owner /\ UNCHANGED <<manual, mdone, left, pc, l0>>
    BY <1>4 DEF ManualStarts
  <2> QED BY <2>2, <2>4, <2>5, <2>6 DEF ManualInv
<1>5. CASE CompactionStarts
  <2>1. \A c \in Picks : c.files <= l0 /\ ~c.manual
    BY <1>0 DEF Picks
  <2>2. comp'.files <= l0 /\ ~comp'.manual
    BY <1>5, <2>1 DEF CompactionStarts
  <2>3. UNCHANGED <<manual, mdone, left, pc, l0>>
    BY <1>5 DEF CompactionStarts
  <2> QED BY <2>2, <2>3 DEF ManualInv
<1>6. CASE FlushBuilt
  BY <1>6 DEF FlushBuilt, ManualInv
<1>7. ASSUME FlushEnd, bg # "crashed", bg # "cleanup", l0' >= l0,
             UNCHANGED <<manual, mdone, left, pc, shutting_down>>,
             bg_error => bg_error'
      PROVE  ManualInv'
  <2>1. CASE comp.active
    <3>1. comp' = comp /\ bg' = "work"
      BY <1>7, <2>1 DEF FlushEnd
    <3>2. comp.files \in Nat
      BY DEF TypeOK, TypeTask, Compactions
    <3> QED BY <1>0, <1>7, <3>1, <3>2 DEF ManualInv
  <2>2. CASE ~comp.active
    BY <1>0, <1>7, <2>2, ManualTaskEnd DEF FlushEnd
  <2> QED BY <2>1, <2>2
<1>8. CASE FlushFails
  BY <1>0, <1>7, <1>8 DEF FlushFails
<1>9. CASE FlushCommits
  <2>1. l0' >= l0
    BY <1>0, <1>9 DEF FlushCommits, FlushedTo
  <2>2. CASE bg_error
    BY <1>7, <1>9, <2>1, <2>2 DEF FlushCommits
  <2>3. CASE ~bg_error
    <3>1. comp' = comp /\ comp.files \in Nat /\ bg = "apply"
      BY <1>9, <2>3 DEF FlushCommits, TypeOK, TypeTask, Compactions
    <3>2. UNCHANGED <<manual, mdone, left, pc, shutting_down, bg_error>>
      BY <1>9 DEF FlushCommits
    <3> QED BY <1>0, <2>1, <3>1, <3>2 DEF ManualInv
  <2> QED BY <2>2, <2>3
<1>10. CASE FlushUnlinks
  BY <1>0, <1>7, <1>10 DEF FlushUnlinks
<1>11. CASE NestedFlush
  <2>1. comp'.manual = comp.manual /\ comp'.files = comp.files
    BY <1>11 DEF NestedFlush, TypeOK, TypeTask, Compactions
  <2> QED BY <1>11, <2>1 DEF NestedFlush, ManualInv
<1>12. CASE WorkDone
  BY <1>12 DEF WorkDone, ManualInv
<1>13. CASE CompactionFails
  BY <1>0, <1>13, ManualCompactionEnd DEF CompactionFails
<1>14. CASE Installs
  <2>1. CASE bg_error
    BY <1>0, <1>14, <2>1, ManualCompactionEnd DEF Installs
  <2>2. CASE ~bg_error
    BY <1>14, <2>2 DEF Installs, ManualInv
  <2> QED BY <2>1, <2>2
<1>15. CASE Cleanup
  BY <1>0, <1>15, ManualCompactionEnd DEF Cleanup
<1>16. CASE TrivialMove
  BY <1>0, <1>16, ManualCompactionEnd DEF TrivialMove
<1> QED BY <1>1, <1>2, <1>3, <1>4, <1>5, <1>6, <1>8, <1>9, <1>10, <1>11,
           <1>12, <1>13, <1>14, <1>15, <1>16 DEF BackgroundStep

(* So do the destructor and stuttering.                                     *)
LEMMA ManualOthers ==
  ASSUME ManualInv, Close \/ CloseWakes \/ UNCHANGED vars
  PROVE  ManualInv'
BY DEF ManualInv, Close, CloseWakes, vars, clientVars, threadVars, versionVars,
       schedVars, taskVars, manualVars, endVars, lifeVars

-----------------------------------------------------------------------------
(* Scheduling *)

(* What MaybeScheduleCompaction establishes: work that may be done has a    *)
(* task, and the task is counted.                                           *)
LEMMA Scheduling ==
  ASSUME NEW already \in BOOLEAN, NEW n \in Nat,
         MaybeScheduleCompaction(already, n),
         n + (IF bg' = "idle" THEN 0 ELSE 1) = (IF already THEN 1 ELSE 0)
  PROVE  /\ tasks' + (IF bg' = "idle" THEN 0 ELSE 1) = (IF scheduled' THEN 1 ELSE 0)
         /\ WorkScheduled'
         /\ already => scheduled'
         /\ shutting_down' /\ ~already => ~scheduled'
<1>1. CASE already \/ shutting_down' \/ bg_error' \/ ~HasWork'
  <2>1. scheduled' = already /\ tasks' = n
    BY <1>1 DEF MaybeScheduleCompaction
  <2>2. WorkScheduled'
    BY <1>1, <2>1 DEF WorkScheduled
  <2> QED BY <2>1, <2>2
<1>2. CASE ~(already \/ shutting_down' \/ bg_error' \/ ~HasWork')
  <2>1. scheduled' = TRUE /\ tasks' = n + 1
    BY <1>2 DEF MaybeScheduleCompaction
  <2>2. WorkScheduled'
    BY <2>1 DEF WorkScheduled
  <2>3. tasks' + (IF bg' = "idle" THEN 0 ELSE 1) = 1
    BY <1>2, <2>1
  <2> QED BY <1>2, <2>1, <2>2, <2>3
<1> QED BY <1>1, <1>2

(* A client thread in the middle of a call excludes the destructor.         *)
LEMMA ThreadIsOpen ==
  ASSUME TaskInv, NEW t \in Threads, ThreadStep(t) \/ CallBegins(t)
  PROVE  life = "open" /\ ~shutting_down /\ UNCHANGED lifeVars
<1>1. life = "open"
  BY DEF ThreadStep, Enqueue, TakeResult, RoomError, RoomDelay, RoomReady,
         RoomWait, RoomSwitch, RoomSwitchFails, AddRecord, AddRecordFails, Sync,
         SyncFails, InsertInto, FinishWrite, ImmWait, ImmDone, ManualSubmit,
         ManualWait, ManualEnd, Proceed, InRoom, At, CallBegins, CallWrite,
         CallFlush, CallRange, UpdateStats, Call, TaskInv
<1>2. UNCHANGED lifeVars
  BY DEF ThreadStep, Enqueue, TakeResult, RoomError, RoomDelay, RoomReady,
         RoomWait, RoomSwitch, RoomSwitchFails, AddRecord, AddRecordFails, Sync,
         SyncFails, InsertInto, FinishWrite, ImmWait, ImmDone, ManualSubmit,
         ManualWait, ManualEnd, CallBegins, CallWrite, CallFlush, CallRange,
         UpdateStats, endVars, clientVars
<1> QED BY <1>1, <1>2 DEF TaskInv

(* A step of a thread that adds no work and puts nobody to sleep.           *)
LEMMA TaskFrame ==
  ASSUME TaskInv, life = "open", UNCHANGED <<scheduled, tasks, bg, lifeVars>>,
         HasWork' => HasWork, bg_error => bg_error',
         waiting' # {} => waiting # {}
  PROVE  TaskInv'
BY DEF TaskInv, WorkScheduled, SleepersHaveWaker, lifeVars

(* A step of a thread that goes to sleep while a task is scheduled.         *)
LEMMA TaskSleeps ==
  ASSUME TaskInv, life = "open",
         UNCHANGED <<scheduled, tasks, bg, lifeVars, bg_error>>,
         HasWork' => HasWork, scheduled
  PROVE  TaskInv'
BY DEF TaskInv, WorkScheduled, SleepersHaveWaker, lifeVars

(* A step of a thread that calls MaybeScheduleCompaction.                   *)
LEMMA TaskSchedules ==
  ASSUME TypeOK, TaskInv, life = "open", bg' = bg, UNCHANGED lifeVars,
         MaybeScheduleCompaction(scheduled, tasks),
         waiting' = waiting \/ (HasWork' /\ ~bg_error' /\ ~shutting_down')
  PROVE  TaskInv'
<1>1. /\ tasks' + (IF bg' = "idle" THEN 0 ELSE 1) = (IF scheduled' THEN 1 ELSE 0)
      /\ WorkScheduled'
      /\ scheduled => scheduled'
  BY Scheduling DEF TaskInv, TypeOK, TypeTask
<1>2. SleepersHaveWaker'
  BY <1>1 DEF TaskInv, SleepersHaveWaker, WorkScheduled
<1> QED BY <1>1, <1>2 DEF TaskInv, lifeVars

(* Every step of a client thread keeps TaskInv.                             *)
LEMMA TaskThread ==
  ASSUME TypeOK, TaskInv, NEW t \in Threads, ThreadStep(t)
  PROVE  TaskInv'
<1> USE DEF threadVars, storeVars, schedVars, endVars, clientVars, memVars,
            versionVars, taskVars, manualVars, lifeVars
<1>0. life = "open" /\ ~shutting_down /\ UNCHANGED lifeVars
  BY ThreadIsOpen
<1>a. UNCHANGED <<has_imm, manual, l0, deep, seek>> => HasWork' = HasWork
  BY DEF HasWork, NeedsCompaction
<1>b. MustWait => HasWork
  BY TriggerAssumption DEF MustWait, HasWork, NeedsCompaction, TypeOK, TypeTask
<1>c. HasWork /\ ~bg_error => scheduled
  BY <1>0 DEF TaskInv, WorkScheduled
<1>1. CASE Enqueue(t)
  BY <1>0, <1>a, <1>1, TaskFrame DEF Enqueue
<1>2. CASE TakeResult(t)
  BY <1>0, <1>a, <1>2, TaskFrame DEF TakeResult
<1>3. CASE RoomError(t)
  BY <1>0, <1>a, <1>3, TaskFrame DEF RoomError
<1>4. CASE RoomDelay(t)
  BY <1>0, <1>a, <1>4, TaskFrame DEF RoomDelay
<1>5. CASE RoomReady(t)
  BY <1>0, <1>a, <1>5, TaskFrame DEF RoomReady
<1>6. CASE RoomWait(t)
  <2>1. scheduled
    BY <1>6, <1>b, <1>c DEF RoomWait, Proceed
  <2> QED BY <1>0, <1>a, <1>6, <2>1, TaskSleeps DEF RoomWait
<1>7. CASE RoomSwitch(t)
  BY <1>0, <1>7, TaskSchedules DEF RoomSwitch
<1>8. CASE RoomSwitchFails(t)
  BY <1>0, <1>a, <1>8, TaskFrame DEF RoomSwitchFails
<1>9. CASE AddRecord(t)
  BY <1>0, <1>a, <1>9, TaskFrame DEF AddRecord
<1>10. CASE AddRecordFails(t)
  BY <1>0, <1>a, <1>10, TaskFrame DEF AddRecordFails
<1>11. CASE Sync(t)
  BY <1>0, <1>a, <1>11, TaskFrame DEF Sync
<1>12. CASE SyncFails(t)
  BY <1>0, <1>a, <1>12, TaskFrame DEF SyncFails
<1>13. CASE InsertInto(t)
  BY <1>0, <1>a, <1>13, TaskFrame DEF InsertInto
<1>14. CASE FinishWrite(t)
  <2>1. UNCHANGED <<has_imm, manual, l0, deep, seek, scheduled, tasks, bg>>
    BY <1>14 DEF FinishWrite
  <2>2. (bg_error => bg_error') /\ (waiting' # {} => waiting # {})
    BY <1>14 DEF FinishWrite
  <2> QED BY <1>0, <1>a, <2>1, <2>2, TaskFrame
<1>15. CASE ImmWait(t)
  <2>1. scheduled
    BY <1>15, <1>c DEF ImmWait, HasWork
  <2> QED BY <1>0, <1>a, <1>15, <2>1, TaskSleeps DEF ImmWait
<1>16. CASE ImmDone(t)
  BY <1>0, <1>a, <1>16, TaskFrame DEF ImmDone
<1>17. CASE ManualSubmit(t)
  <2>1. HasWork' /\ ~bg_error' /\ ~shutting_down'
    BY <1>0, <1>17, ThreadsAssumption DEF ManualSubmit, KeepWaiting, HasWork
  <2> QED BY <1>0, <1>17, <2>1, TaskSchedules DEF ManualSubmit
<1>18. CASE ManualWait(t)
  <2>1. scheduled
    BY <1>18, <1>c DEF ManualWait, HasWork, KeepWaiting
  <2> QED BY <1>0, <1>a, <1>18, <2>1, TaskSleeps DEF ManualWait
<1>19. CASE ManualEnd(t)
  <2>1. HasWork' => HasWork
    BY <1>19, ThreadsAssumption DEF ManualEnd, HasWork, NeedsCompaction
  <2> QED BY <1>0, <1>19, <2>1, TaskFrame DEF ManualEnd
<1> QED BY <1>1, <1>2, <1>3, <1>4, <1>5, <1>6, <1>7, <1>8, <1>9, <1>10, <1>11,
           <1>12, <1>13, <1>14, <1>15, <1>16, <1>17, <1>18, <1>19 DEF ThreadStep

(* Beginning a call keeps TaskInv: only UpdateStats adds work, and it asks  *)
(* for a task.                                                              *)
LEMMA TaskCall ==
  ASSUME TypeOK, TaskInv, NEW t \in Threads, CallBegins(t)
  PROVE  TaskInv'
<1> USE DEF storeVars, schedVars, memVars, versionVars, taskVars, manualVars
<1>0. life = "open" /\ ~shutting_down /\ UNCHANGED lifeVars
  BY ThreadIsOpen
<1>a. UNCHANGED <<has_imm, manual, l0, deep, seek>> => HasWork' = HasWork
  BY DEF HasWork, NeedsCompaction
<1>1. ASSUME NEW b \in Batches, NEW s \in SyncModes, CallWrite(t, b, s)
      PROVE  TaskInv'
  BY <1>0, <1>a, <1>1, TaskFrame DEF CallWrite
<1>2. CASE CallFlush(t)
  BY <1>0, <1>a, <1>2, TaskFrame DEF CallFlush
<1>3. CASE CallRange(t)
  BY <1>0, <1>a, <1>3, TaskFrame DEF CallRange
<1>4. CASE UpdateStats(t)
  BY <1>0, <1>4, TaskSchedules DEF UpdateStats
<1> QED BY <1>1, <1>2, <1>3, <1>4 DEF CallBegins

(* A step inside the running task.                                          *)
LEMMA TaskRuns ==
  ASSUME TaskInv, TypeOK, scheduled, scheduled' = scheduled, bg' # "idle",
         tasks' + 1 = 1, pc' = pc, UNCHANGED lifeVars
  PROVE  TaskInv'
BY DEF TaskInv, WorkScheduled, SleepersHaveWaker, lifeVars

(* The end of the running task.                                             *)
LEMMA TaskEnds ==
  ASSUME TaskInv, TypeOK, BackgroundCallEnd(0), pc' = pc, UNCHANGED lifeVars
  PROVE  TaskInv'
<1>1. /\ MaybeScheduleCompaction(FALSE, 0) /\ bg' = "idle" /\ waiting' = {}
  BY DEF BackgroundCallEnd
<1>2. 0 + (IF bg' = "idle" THEN 0 ELSE 1) = (IF FALSE THEN 1 ELSE 0)
  BY <1>1
<1>3. /\ tasks' + (IF bg' = "idle" THEN 0 ELSE 1) = (IF scheduled' THEN 1 ELSE 0)
      /\ WorkScheduled'
      /\ shutting_down' => ~scheduled'
  BY <1>1, <1>2, Scheduling
<1> QED BY <1>1, <1>3 DEF TaskInv, SleepersHaveWaker, lifeVars

(* Every step of the background task keeps TaskInv.                         *)
LEMMA TaskBackground ==
  ASSUME TypeOK, TaskInv, BackgroundStep
  PROVE  TaskInv'
<1> USE DEF threadVars, endVars, clientVars, versionVars, taskVars, manualVars
<1>0. pc' = pc /\ UNCHANGED lifeVars
  BY DEF BackgroundStep, TaskSkipped, FlushStarts, ManualEmpty, ManualStarts,
         CompactionStarts, FlushBuilt, FlushFails, FlushCommits, FlushUnlinks,
         NestedFlush, WorkDone, CompactionFails, Installs, Cleanup, TrivialMove
<1>a. ASSUME TaskStarts
      PROVE  tasks = 1 /\ tasks - 1 = 0 /\ scheduled
  BY <1>a DEF TaskStarts, TaskInv, TypeOK, TypeTask
<1>b. ASSUME bg # "idle"
      PROVE  tasks = 0 /\ scheduled
  BY <1>b DEF TaskInv, TypeOK, TypeTask
<1>c. ASSUME bg # "idle", FlushEnd
      PROVE  TaskInv'
  <2>1. CASE comp.active
    BY <1>0, <1>b, <1>c, <2>1, TaskRuns DEF FlushEnd
  <2>2. CASE ~comp.active
    BY <1>0, <1>b, <1>c, <2>2, TaskEnds DEF FlushEnd
  <2> QED BY <2>1, <2>2
<1>d. ASSUME bg # "idle", NEW ok \in BOOLEAN, CompactionEnd(ok)
      PROVE  TaskInv'
  <2>1. CASE comp.manual /\ manual = Owner
    BY <1>0, <1>b, <1>d, <2>1, TaskRuns DEF CompactionEnd
  <2>2. CASE ~(comp.manual /\ manual = Owner)
    BY <1>0, <1>b, <1>d, <2>2, TaskEnds DEF CompactionEnd
  <2> QED BY <2>1, <2>2
<1>1. CASE TaskSkipped
  BY <1>0, <1>a, <1>1, TaskEnds DEF TaskSkipped
<1>2. CASE FlushStarts
  BY <1>0, <1>a, <1>2, TaskRuns DEF FlushStarts
<1>3. CASE ManualEmpty
  BY <1>0, <1>a, <1>3, TaskEnds DEF ManualEmpty
<1>4. CASE ManualStarts
  BY <1>0, <1>a, <1>4, TaskRuns DEF ManualStarts
<1>5. CASE CompactionStarts
  <2>1. bg' # "idle"
    BY <1>5 DEF CompactionStarts
  <2> QED BY <1>0, <1>a, <1>5, <2>1, TaskRuns DEF CompactionStarts
<1>6. CASE FlushBuilt
  BY <1>0, <1>b, <1>6, TaskRuns DEF FlushBuilt
<1>7. CASE FlushFails
  BY <1>c, <1>7 DEF FlushFails
<1>8. CASE FlushCommits
  <2>1. CASE bg_error
    BY <1>c, <1>8, <2>1 DEF FlushCommits
  <2>2. CASE ~bg_error
    BY <1>0, <1>b, <1>8, <2>2, TaskRuns DEF FlushCommits
  <2> QED BY <2>1, <2>2
<1>9. CASE FlushUnlinks
  BY <1>c, <1>9 DEF FlushUnlinks
<1>10. CASE NestedFlush
  BY <1>0, <1>b, <1>10, TaskRuns DEF NestedFlush
<1>11. CASE WorkDone
  BY <1>0, <1>b, <1>11, TaskRuns DEF WorkDone
<1>12. CASE CompactionFails
  BY <1>d, <1>12 DEF CompactionFails
<1>13. CASE Installs
  <2>1. CASE bg_error
    BY <1>d, <1>13, <2>1 DEF Installs
  <2>2. CASE ~bg_error
    BY <1>0, <1>b, <1>13, <2>2, TaskRuns DEF Installs
  <2> QED BY <2>1, <2>2
<1>14. CASE Cleanup
  BY <1>d, <1>14 DEF Cleanup
<1>15. CASE TrivialMove
  BY <1>d, <1>15 DEF TrivialMove
<1> QED BY <1>1, <1>2, <1>3, <1>4, <1>5, <1>6, <1>7, <1>8, <1>9, <1>10, <1>11,
           <1>12, <1>13, <1>14, <1>15 DEF BackgroundStep

(* So do the destructor and stuttering.                                     *)
LEMMA TaskOthers ==
  ASSUME TypeOK, TaskInv, Close \/ CloseWakes \/ UNCHANGED vars
  PROVE  TaskInv'
<1> USE DEF TaskInv, WorkScheduled, SleepersHaveWaker, HasWork, NeedsCompaction,
            threadVars, storeVars, schedVars, endVars, clientVars, memVars,
            versionVars, taskVars, manualVars, lifeVars
<1>1. CASE Close
  BY <1>1 DEF Close, At
<1>2. CASE CloseWakes
  BY <1>2 DEF CloseWakes
<1>3. CASE UNCHANGED vars
  BY <1>3 DEF vars
<1> QED BY <1>1, <1>2, <1>3

-----------------------------------------------------------------------------
(* Level 0 *)

(* Only MakeRoomForWrite freezes a memtable, and only below the stop        *)
(* trigger; nothing but a flush adds a level-0 file.                        *)
LEMMA FlushThread ==
  ASSUME TypeOK, FlushInv, NEW t \in Threads, ThreadStep(t) \/ CallBegins(t)
  PROVE  FlushInv'
<1> USE DEF FlushInv, storeVars, schedVars, clientVars, memVars, versionVars, taskVars
<1>1. ASSUME NEW u \in Threads, RoomSwitch(u)
      PROVE  FlushInv'
  <2>1. l0 \in Nat /\ StopTrigger \in Nat
    BY TriggerAssumption DEF TypeOK, TypeTask
  <2>2. has_imm' /\ l0' = l0 /\ ~(l0 >= StopTrigger)
    BY <1>1 DEF RoomSwitch, MustWait
  <2> QED BY <2>1, <2>2
<1>2. CASE UNCHANGED <<bg, has_imm, l0>>
  BY <1>2
<1>3. RoomSwitch(t) \/ UNCHANGED <<bg, has_imm, l0>>
  BY DEF ThreadStep, Enqueue, TakeResult, RoomError, RoomDelay, RoomReady,
         RoomWait, RoomSwitchFails, AddRecord, AddRecordFails, Sync,
         SyncFails, InsertInto, FinishWrite, ImmWait, ImmDone, ManualSubmit,
         ManualWait, ManualEnd, CallBegins, CallWrite, CallFlush, CallRange,
         UpdateStats
<1> QED BY <1>1, <1>2, <1>3

(* The background task: a flush uses up the room its memtable was given,    *)
(* and a compaction only removes level-0 files.                             *)
LEMMA FlushBackground ==
  ASSUME TypeOK, ManualInv, FlushInv, BackgroundStep
  PROVE  FlushInv'
<1> USE DEF storeVars, clientVars, memVars, versionVars
<1>0. l0 \in Nat /\ StopTrigger \in Nat
  BY TriggerAssumption DEF TypeOK, TypeTask
<1>a. FlushEnd => bg' \in {"work", "idle"}
  BY DEF FlushEnd, BackgroundCallEnd
<1>b. \A ok : CompactionEnd(ok) => bg' \in {"crashed", "idle"}
  BY DEF CompactionEnd, BackgroundCallEnd
<1>1. CASE TaskSkipped \/ ManualEmpty
  <2>1. bg' = "idle" /\ UNCHANGED <<has_imm, l0>>
    BY <1>1 DEF TaskSkipped, ManualEmpty, BackgroundCallEnd
  <2> QED BY <2>1 DEF FlushInv
<1>2. CASE FlushStarts \/ ManualStarts \/ CompactionStarts
  <2>1. UNCHANGED <<has_imm, l0>>
    BY <1>2 DEF FlushStarts, ManualStarts, CompactionStarts
  <2>2. has_imm \/ bg' \in {"work", "move"}
    BY <1>2 DEF FlushStarts, ManualStarts, CompactionStarts
  <2> QED BY <2>1, <2>2 DEF FlushInv
<1>3. CASE FlushBuilt
  BY <1>3 DEF FlushBuilt, FlushInv
<1>4. CASE FlushFails
  BY <1>a, <1>4 DEF FlushFails, FlushInv
<1>5. CASE FlushCommits
  <2>1. bg' \in {"work", "idle", "unlink"} /\ has_imm' = FALSE
    BY <1>a, <1>5 DEF FlushCommits
  <2> QED BY <2>1 DEF FlushInv
<1>6. CASE FlushUnlinks
  BY <1>a, <1>6 DEF FlushUnlinks, FlushInv
<1>7. CASE NestedFlush \/ WorkDone
  BY <1>7 DEF NestedFlush, WorkDone, FlushInv
<1>8. CASE CompactionFails
  BY <1>b, <1>8 DEF CompactionFails, FlushInv
<1>9. CASE Installs \/ TrivialMove
  <2>1. l0' \in Nat /\ l0' <= l0
    BY <1>9, MovedDownType DEF Installs, TrivialMove
  <2>2. bg' \in {"crashed", "idle", "cleanup"} /\ has_imm' = has_imm
    BY <1>b, <1>9 DEF Installs, TrivialMove
  <2> QED BY <1>0, <2>1, <2>2 DEF FlushInv
<1>10. CASE Cleanup
  BY <1>b, <1>10 DEF Cleanup, FlushInv
<1> QED BY <1>1, <1>2, <1>3, <1>4, <1>5, <1>6, <1>7, <1>8, <1>9, <1>10
        DEF BackgroundStep

(* So do the destructor and stuttering.                                     *)
LEMMA FlushOthers ==
  ASSUME FlushInv, Close \/ CloseWakes \/ UNCHANGED vars
  PROVE  FlushInv'
BY DEF FlushInv, Close, CloseWakes, vars, clientVars, storeVars, memVars,
       schedVars, versionVars, taskVars

-----------------------------------------------------------------------------
(* The inductive invariant and what follows from it *)

Inv == TypeOK /\ QueueInv /\ ManualInv /\ TaskInv /\ FlushInv

(* DB::Open establishes the invariant. *)
LEMMA InitInv == Init => Inv
<1> SUFFICES ASSUME Init PROVE Inv
  OBVIOUS
<1>0. /\ MaxDeep \in Nat /\ MaxOpenL0 \in Nat
      /\ {"idle"} \subseteq PCs /\ {"idle"} \subseteq BGs
      /\ <<>> \in Seq(Threads)
  BY BoundAssumption, TriggerAssumption DEF PCs, BGs
<1>1. TypeThreads
  BY <1>0 DEF Init, TypeThreads
<1>2. TypeQueue
  BY <1>0 DEF Init, TypeQueue
<1>3. TypeStore
  BY DEF Init, TypeStore
<1>4. HasWork \in BOOLEAN
  BY Zenon DEF HasWork, NeedsCompaction
<1>5. scheduled \in BOOLEAN /\ tasks \in Nat
  <2>1. scheduled = HasWork /\ tasks = IF HasWork THEN 1 ELSE 0
    BY DEF Init
  <2> QED BY <1>4, <2>1
<1>6. TypeTask
  <2>1. comp \in Compactions
    BY DEF Init, NoCompaction, Compactions
  <2>2. l0 \in Nat /\ deep \in 0..MaxDeep
    BY <1>0 DEF Init
  <2> QED BY <1>0, <1>5, <2>1, <2>2 DEF Init, TypeTask
<1>7. TypeManual
  BY DEF Init, TypeManual
<1>8. QueueInv
  BY DEF Init, QueueInv, Leading, Committing
<1>9. ManualInv
  BY <1>0 DEF Init, ManualInv, NoCompaction
<1>10. TaskInv
  <2>1. tasks + (IF bg = "idle" THEN 0 ELSE 1) = (IF scheduled THEN 1 ELSE 0)
    BY DEF Init
  <2>2. WorkScheduled /\ SleepersHaveWaker
    BY DEF Init, WorkScheduled, SleepersHaveWaker
  <2> QED BY <2>1, <2>2 DEF Init, TaskInv
<1>11. FlushInv
  BY <1>0 DEF Init, FlushInv
<1> QED BY <1>1, <1>2, <1>3, <1>6, <1>7, <1>8, <1>9, <1>10, <1>11 DEF Inv, TypeOK

(* Every step keeps it. *)
LEMMA NextInv == Inv /\ [Next]_vars => Inv'
<1> SUFFICES ASSUME Inv, [Next]_vars PROVE Inv'
  OBVIOUS
<1> USE DEF Inv
<1>1. ASSUME NEW t \in Threads, CallBegins(t)
      PROVE  Inv'
  BY <1>1, TypeCall, QueueCall, ManualCall, TaskCall, FlushThread
<1>2. ASSUME NEW t \in Threads, ThreadStep(t)
      PROVE  Inv'
  BY <1>2, TypeThread, QueueThread, ManualThread, TaskThread, FlushThread
<1>3. CASE BackgroundStep
  BY <1>3, TypeBackground, QueueOthers, ManualBackground, TaskBackground,
     FlushBackground
<1>4. CASE Close \/ CloseWakes \/ UNCHANGED vars
  BY <1>4, TypeOthers, QueueOthers, ManualOthers, TaskOthers, FlushOthers
<1> QED BY <1>1, <1>2, <1>3, <1>4 DEF Next, Terminated

(* The invariant holds in every reachable state. *)
THEOREM Invariance == Spec => []Inv
<1>1. Init => Inv
  BY InitInv
<1>2. Inv /\ [Next]_vars => Inv'
  BY NextInv
<1> QED BY <1>1, <1>2, PTL DEF Spec

(* Every variable of DBImpl keeps its type; in particular NumLevelFiles(0)  *)
(* and the work left in a manual compaction never go below zero.            *)
THEOREM TypeCorrect == Spec => []TypeOK
<1>1. Inv => TypeOK
  BY DEF Inv
<1> QED BY <1>1, Invariance, PTL

(* Write's hand-over of writers_ loses no wakeup: the front of the queue    *)
(* and every writer whose batch was handled are awake.                      *)
THEOREM WritersAwake == Spec => []NoLostWakeup
<1>1. Inv => NoLostWakeup
  BY DEF Inv, QueueInv, NoLostWakeup
<1> QED BY <1>1, Invariance, PTL

(* Wherever work appears, MaybeScheduleCompaction has been called.          *)
THEOREM WorkIsScheduled == Spec => []WorkScheduled
<1>1. Inv => WorkScheduled
  BY DEF Inv, TaskInv
<1> QED BY <1>1, Invariance, PTL

(* Whoever waits on background_work_finished_signal_ has a background task  *)
(* that will signal it.                                                     *)
THEOREM SleepersAreWoken == Spec => []SleepersHaveWaker
<1>1. Inv => SleepersHaveWaker
  BY DEF Inv, TaskInv
<1> QED BY <1>1, Invariance, PTL

(* There is at most one background task, and none once ~DBImpl has freed    *)
(* the object.                                                              *)
THEOREM AtMostOneTask == Spec => []OneTask
<1>1. Inv => OneTask
  <2> SUFFICES ASSUME Inv PROVE OneTask
    OBVIOUS
  <2>1. tasks + (IF bg = "idle" THEN 0 ELSE 1) = (IF scheduled THEN 1 ELSE 0)
    BY DEF Inv, TaskInv
  <2>2. life = "closed" => ~scheduled
    BY DEF Inv, TaskInv
  <2>3. tasks \in Nat
    BY DEF Inv, TypeOK, TypeTask
  <2>4. life = "closed" => tasks = 0 /\ bg = "idle"
    BY <2>1, <2>2, <2>3
  <2> QED BY <2>1, <2>4 DEF OneTask
<1> QED BY <1>1, Invariance, PTL

(* No flush takes level 0 above kL0_StopWritesTrigger, however large level  *)
(* 0 was when the DB was opened: only the installation of a flush adds a    *)
(* file, and its memtable was frozen below the trigger.                     *)
LEMMA OnlyFlushesAdd ==
  ASSUME TypeOK, ManualInv, FlushInv, [Next]_vars
  PROVE  /\ l0' \in Nat /\ l0 \in Nat
         /\ l0' <= l0 \/ l0' <= StopTrigger
<1> USE DEF storeVars, schedVars, clientVars, memVars, versionVars, taskVars
<1>0. l0 \in Nat /\ StopTrigger \in Nat
  BY TriggerAssumption DEF TypeOK, TypeTask
<1>1. ASSUME NEW t \in Threads, ThreadStep(t) \/ CallBegins(t)
      PROVE  l0' = l0
  BY <1>1
     DEF ThreadStep, Enqueue, TakeResult, RoomError, RoomDelay, RoomReady,
         RoomWait, RoomSwitch, RoomSwitchFails, AddRecord, AddRecordFails,
         Sync, SyncFails, InsertInto, FinishWrite, ImmWait, ImmDone,
         ManualSubmit, ManualWait, ManualEnd, CallBegins, CallWrite, CallFlush,
         CallRange, UpdateStats
<1>2. ASSUME FlushCommits
      PROVE  l0' \in Nat /\ (l0' <= l0 \/ l0' <= StopTrigger)
  <2>1. has_imm /\ (l0' = l0 \/ l0' = l0 + 1)
    BY <1>2 DEF FlushCommits, FlushedTo, FlushInv
  <2> QED BY <1>0, <2>1 DEF FlushInv
<1>3. ASSUME Installs \/ TrivialMove
      PROVE  l0' \in Nat /\ l0' <= l0
  BY <1>3, MovedDownType DEF Installs, TrivialMove
<1>4. ASSUME BackgroundStep, ~FlushCommits, ~Installs, ~TrivialMove
      PROVE  l0' = l0
  BY <1>4
     DEF BackgroundStep, TaskSkipped, FlushStarts, ManualEmpty, ManualStarts,
         CompactionStarts, FlushBuilt, FlushFails, FlushUnlinks, NestedFlush,
         WorkDone, CompactionFails, Cleanup
<1>5. ASSUME Close \/ CloseWakes \/ UNCHANGED vars
      PROVE  l0' = l0
  BY <1>5 DEF Close, CloseWakes, vars
<1> QED BY <1>0, <1>1, <1>2, <1>3, <1>4, <1>5 DEF Next, Terminated

(* The number of level-0 files grows only up to kL0_StopWritesTrigger.      *)
THEOREM Level0GrowsToTrigger == Spec => L0GrowsToTrigger
<1>1. Inv /\ [Next]_vars => [l0' > l0 => l0' <= StopTrigger]_vars
  <2> SUFFICES ASSUME Inv, [Next]_vars, l0' > l0 PROVE l0' <= StopTrigger
    OBVIOUS
  <2>1. l0' \in Nat /\ l0 \in Nat /\ (l0' <= l0 \/ l0' <= StopTrigger)
    BY OnlyFlushesAdd DEF Inv
  <2> QED BY <2>1
<1> QED BY <1>1, Invariance, PTL DEF Spec, L0GrowsToTrigger

-----------------------------------------------------------------------------
(* The log, the memtables and the acknowledgements *)

(* The steps of thread t that neither form nor commit a group.              *)
Outside(t) ==
  \/ CallBegins(t)
  \/ Enqueue(t) \/ TakeResult(t)
  \/ RoomError(t) \/ RoomDelay(t) \/ RoomWait(t) \/ RoomSwitchFails(t)
  \/ ImmWait(t) \/ ImmDone(t)
  \/ ManualSubmit(t) \/ ManualWait(t) \/ ManualEnd(t)

(* The steps that do.                                                       *)
Commits(t) ==
  \/ RoomReady(t) \/ RoomSwitch(t)
  \/ AddRecord(t) \/ AddRecordFails(t) \/ Sync(t) \/ SyncFails(t)
  \/ InsertInto(t) \/ FinishWrite(t)

(* Outside the commit of a group nothing is written or acknowledged.        *)
LEMMA OutsideStore ==
  ASSUME NEW t \in Threads, Outside(t)
  PROVE  UNCHANGED <<storeVars, last, group, ackVars, bg_error>>
<1> USE DEF threadVars, storeVars, clientVars, endVars, leaderVars, schedVars
<1>1. CASE CallBegins(t)
  BY <1>1 DEF CallBegins, CallWrite, CallFlush, CallRange, UpdateStats
<1>2. CASE Enqueue(t) \/ TakeResult(t)
  BY <1>2 DEF Enqueue, TakeResult
<1>3. CASE RoomError(t) \/ RoomDelay(t) \/ RoomWait(t) \/ RoomSwitchFails(t)
  BY <1>3 DEF RoomError, RoomDelay, RoomWait, RoomSwitchFails
<1>4. CASE ImmWait(t) \/ ImmDone(t)
  BY <1>4 DEF ImmWait, ImmDone
<1>5. CASE ManualSubmit(t) \/ ManualWait(t) \/ ManualEnd(t)
  BY <1>5 DEF ManualSubmit, ManualWait, ManualEnd
<1> QED BY <1>1, <1>2, <1>3, <1>4, <1>5 DEF Outside

(* Popping a group ends the commit, and moves only its leader.              *)
LEMMA PopGroupMoves ==
  ASSUME TypeOK, NEW t \in Threads, NEW q, NEW n, NEW s \in {"ok", "err"},
         PopGroup(t, q, n, s)
  PROVE  /\ pc'[t] = AfterWrite(t, s)
         /\ pc'[t] \in {"idle", "immcheck", "manual"}
         /\ \A u \in Threads : u # t => pc'[u] = pc[u]
<1>1. pc' = [pc EXCEPT ![t] = AfterWrite(t, s)]
  BY DEF PopGroup, Return
<1>2. AfterWrite(t, s) \in {"idle", "immcheck", "manual"}
  BY DEF AfterWrite, TypeOK, TypeThreads
<1> QED BY <1>1, <1>2 DEF TypeOK, TypeThreads

(* Such a step moves only its own thread, from a state to another that is   *)
(* not part of a commit.                                                    *)
LEMMA OutsideMoves ==
  ASSUME TypeOK, QueueInv, NEW t \in Threads, Outside(t)
  PROVE  /\ pc[t] \notin Committing /\ pc'[t] \notin Committing
         /\ \A u \in Threads : u # t => pc'[u] = pc[u]
<1> USE DEF threadVars, clientVars, Committing
<1>0. pc \in [Threads -> PCs]
  BY DEF TypeOK, TypeThreads
<1>1. CASE CallBegins(t)
  BY <1>0, <1>1 DEF CallBegins, CallWrite, CallFlush, CallRange, UpdateStats, Call,
                    At
<1>2. CASE Enqueue(t)
  BY <1>0, <1>2 DEF Enqueue, At
<1>3. CASE TakeResult(t)
  <2>1. AfterWrite(t, wstatus[t]) \notin Committing
    BY DEF AfterWrite, TypeOK, TypeThreads, TypeQueue
  <2> QED BY <1>0, <1>3, <2>1 DEF TakeResult, Return, At
<1>4. CASE RoomError(t) \/ RoomSwitchFails(t)
  <2>1. InRoom(t) /\ PopGroup(t, Queue(t), 1, "err")
    BY <1>4 DEF RoomError, RoomSwitchFails, Proceed
  <2> QED BY <2>1, PopGroupMoves DEF InRoom, At
<1>5. CASE RoomDelay(t) \/ RoomWait(t)
  BY <1>0, <1>5 DEF RoomDelay, RoomWait, Proceed, InRoom, At
<1>6. CASE ImmWait(t) \/ ImmDone(t)
  BY <1>0, <1>6 DEF ImmWait, ImmDone, Return, At
<1>7. CASE ManualSubmit(t) \/ ManualWait(t)
  BY <1>0, <1>7 DEF ManualSubmit, ManualWait, At
<1>8. CASE ManualEnd(t)
  BY <1>0, <1>8 DEF ManualEnd, Return, At
<1> QED BY <1>1, <1>2, <1>3, <1>4, <1>5, <1>6, <1>7, <1>8 DEF Outside

(* A leader at its commit is the front of writers_, alone.                  *)
LEMMA CommitterIsFront ==
  ASSUME TypeOK, QueueInv, NEW t \in Threads, pc[t] \in Committing
  PROVE  /\ Front(t, writers) /\ group \in 1..Len(writers)
         /\ \A u \in Threads : u # t => pc[u] \notin Committing /\ ~InRoom(u)
<1>1. writers # <<>> /\ t = Head(writers) /\ group \in 1..Len(writers)
  BY DEF QueueInv, Leading
<1>2. Front(t, writers)
  BY <1>1, LeaderIsFront
<1>3. ASSUME NEW u \in Threads, u # t, InRoom(u)
      PROVE  FALSE
  <2>1. Front(u, Queue(u))
    BY <1>3, InRoomIsFront
  <2> QED BY <1>3, <2>1 DEF Front, Leading
<1> QED BY <1>1, <1>2, <1>3 DEF Front, Leading

(* A thread in MakeRoomForWrite meets nobody at a commit.                   *)
LEMMA InRoomNoCommit ==
  ASSUME TypeOK, QueueInv, NEW t \in Threads, InRoom(t)
  PROVE  \A u \in Threads : pc[u] \notin Committing
<1>1. Front(t, Queue(t)) /\ pc[t] \in {"call", "queued", "delay", "roomwait"}
  BY InRoomIsFront
<1> QED BY <1>1 DEF Front, Leading, Committing

(* While a leader commits, the other threads only join the queue's tail and *)
(* leave the sync flags of the queued writers alone.                        *)
LEMMA OutsideQueue ==
  ASSUME TypeOK, QueueInv, NEW t \in Threads, Outside(t),
         NEW u \in Threads, pc[u] \in Committing
  PROVE  /\ Len(writers) <= Len(writers')
         /\ \A i \in 1..Len(writers) : writers'[i] = writers[i]
         /\ \A i \in 1..Len(writers) : writers[i] # t \/ UNCHANGED <<sync, late>>
         /\ \A v \in Threads : v # t => (v \in sync' <=> v \in sync)
                                        /\ (v \in late' <=> v \in late)
<1> USE DEF threadVars, clientVars, queueVars, callVars, beginVars
<1>0. /\ u # t /\ ~InRoom(t)
  BY OutsideMoves, CommitterIsFront
<1>1. /\ writers \in Seq(Threads) /\ Len(writers) \in Nat
      /\ sync \subseteq Threads
      /\ \A i \in 1..Len(writers) :
           pc[writers[i]] \in Leading \cup {"queued"} /\ writers[i] \notin done
  BY DEF TypeOK, TypeQueue, QueueInv
<1>2. pc[t] \in {"idle", "immcheck", "manual"} \/ t \in done
      => \A i \in 1..Len(writers) : writers[i] # t
  BY <1>1 DEF Leading, Committing
<1>3. CASE CallBegins(t)
  <2>1. pc[t] = "idle" /\ writers' = writers
    BY <1>3 DEF CallBegins, CallWrite, CallFlush, CallRange, UpdateStats, Call, At
  <2>2. \A v \in Threads : v # t => (v \in sync' <=> v \in sync)
                                        /\ (v \in late' <=> v \in late)
    BY <1>3 DEF CallBegins, CallWrite, CallFlush, CallRange, UpdateStats, Call
  <2> QED BY <1>1, <1>2, <2>1, <2>2
<1>4. CASE Enqueue(t)
  <2>1. writers' = Append(writers, t) /\ sync' = sync /\ late' = late
    BY <1>4 DEF Enqueue, Queue, At
  <2> QED BY <1>1, <2>1
<1>5. CASE TakeResult(t)
  <2>1. t \in done /\ writers' = writers /\ sync' = sync \ {t} /\ late' = late
    BY <1>5 DEF TakeResult, Return
  <2> QED BY <1>1, <1>2, <2>1
<1>6. ~(RoomError(t) \/ RoomSwitchFails(t) \/ RoomDelay(t) \/ RoomWait(t))
  BY <1>0 DEF RoomError, RoomSwitchFails, RoomDelay, RoomWait, Proceed
<1>7. CASE ImmWait(t) \/ ImmDone(t) \/ ManualSubmit(t) \/ ManualWait(t)
           \/ ManualEnd(t)
  <2>1. /\ pc[t] \in {"immcheck", "manual"} /\ writers' = writers
        /\ sync' \in {sync, sync \ {t}} /\ late' = late
    BY <1>7 DEF ImmWait, ImmDone, ManualSubmit, ManualWait, ManualEnd, At, Return
  <2> QED BY <1>1, <1>2, <2>1
<1> QED BY <1>3, <1>4, <1>5, <1>6, <1>7 DEF Outside

(* The log files name no sequence number twice: a record lies below         *)
(* LastSequence() or, once the leader has reached the file, below the last  *)
(* sequence of its group.                                                   *)
LogInv ==
  /\ RecordsDisjoint
  /\ \A t \in Threads : pc[t] \in Committing => lastSeq <= last
  /\ \A r \in log : \/ r.last <= lastSeq
                    \/ /\ \E t \in Threads : pc[t] \in Committing \ {"append"}
                       /\ r.last <= last

(* Records have the fields of a record.                                     *)
LEMMA LogType ==
  ASSUME TypeOK
  PROVE  /\ \A r \in log : r.first \in Nat /\ r.last \in Nat /\ r.file \in Nat
                           /\ r.synced \in BOOLEAN
         /\ lastSeq \in Nat /\ last \in Nat
         /\ logfile_number \in Nat /\ log_number \in Nat
BY DEF TypeOK, TypeStore, TypeQueue, Records

(* Every part of LogInv survives the loss of records.                       *)
LEMMA LogShrinks ==
  ASSUME LogInv, log' \subseteq log, UNCHANGED <<lastSeq, last, pc>>
  PROVE  LogInv'
BY DEF LogInv, RecordsDisjoint

(* A step that leaves the log, the sequence numbers and the leader alone.   *)
LEMMA LogFrame ==
  ASSUME LogInv, UNCHANGED <<log, lastSeq, last>>,
         \A u \in Threads : pc'[u] \in Committing \/ pc[u] \in Committing
                            => pc'[u] = pc[u]
  PROVE  LogInv'
BY DEF LogInv, RecordsDisjoint

(* Forming a group, or returning at once for a nullptr batch.               *)
LEMMA LogStartGroup ==
  ASSUME TypeOK, QueueInv, LogInv, NEW t \in Threads, InRoom(t),
         StartGroup(t, Queue(t)), UNCHANGED <<log, lastSeq>>
  PROVE  LogInv'
<1>0. \A u \in Threads : pc[u] \notin Committing
  BY InRoomNoCommit
<1>1. CASE batch[t] = NoBatch
  <2>1. PopGroup(t, Queue(t), 1, "ok") /\ last' = last
    BY <1>1 DEF StartGroup
  <2>2. \A u \in Threads : pc'[u] \notin Committing
    BY <1>0, <2>1, PopGroupMoves DEF Committing
  <2> QED BY <1>0, <2>1, <2>2, LogFrame
<1>2. CASE batch[t] # NoBatch
  <2>1. Queue(t) \in Seq(Threads) /\ Queue(t) # <<>>
    BY InRoomIsFront DEF Front
  <2>2. OpsIn(Queue(t), BuildBatchGroup(Queue(t))) \in Nat
    BY <2>1, GroupSize, OpsInType
  <2>3. lastSeq' <= last'
    BY <1>2, <2>2, LogType DEF StartGroup
  <2>4. \A r \in log : r.last <= lastSeq
    BY <1>0 DEF LogInv
  <2> QED BY <2>3, <2>4 DEF LogInv, RecordsDisjoint
<1> QED BY <1>1, <1>2

(* The record of a group is above every other record.                       *)
LEMMA LogAddRecord ==
  ASSUME TypeOK, QueueInv, LogInv, NEW t \in Threads, pc[t] = "append",
         log' \in {log, log \cup {Record}}, UNCHANGED <<lastSeq, last>>,
         NEW p \in Committing \ {"append"}, pc' = [pc EXCEPT ![t] = p]
  PROVE  LogInv'
<1>1. lastSeq <= last /\ lastSeq \in Nat /\ last \in Nat
  BY LogType DEF LogInv, Committing
<1>2. \A r \in log : r.last <= lastSeq /\ r.first \in Nat /\ r.last \in Nat
  BY CommitterIsFront, LogType DEF LogInv, Committing
<1>3. Record.first = lastSeq + 1 /\ Record.last = last
  BY DEF Record
<1>4. \A r \in log : (r.first..r.last) \cap (Record.first..Record.last) = {}
  BY <1>1, <1>2, <1>3
<1>5. RecordsDisjoint'
  <2> SUFFICES ASSUME NEW r \in log \cup {Record}, NEW q \in log \cup {Record},
                      r # q
               PROVE  (r.first..r.last) \cap (q.first..q.last) = {}
    BY DEF RecordsDisjoint
  <2>1. CASE r \in log /\ q \in log
    BY <2>1 DEF LogInv, RecordsDisjoint
  <2>2. CASE r \in log /\ q = Record
    BY <2>2, <1>4
  <2>3. CASE r = Record /\ q \in log
    BY <2>3, <1>4
  <2> QED BY <2>1, <2>2, <2>3
<1>6. pc'[t] \in Committing \ {"append"}
  BY DEF TypeOK, TypeThreads
<1>7. \A r \in log' : r.last <= last'
  BY <1>1, <1>2, <1>3
<1> QED BY <1>1, <1>5, <1>6, <1>7 DEF LogInv

(* Sync keeps every record of the log, with the ones of the current file    *)
(* marked durable.                                                          *)
LEMMA SyncRecords ==
  ASSUME TypeOK, NEW t \in Threads, Sync(t)
  PROVE  /\ \A r \in log' : \E q \in log : r.first = q.first /\ r.last = q.last
         /\ \A q \in log : \E r \in log' :
              /\ r.first = q.first /\ r.last = q.last /\ r.file = q.file
              /\ q.synced \/ q.file = logfile_number => r.synced
         /\ \A r, s \in log' : r # s =>
              \E p, q \in log : /\ p # q
                                /\ p.first = r.first /\ p.last = r.last
                                /\ q.first = s.first /\ q.last = s.last
<1> DEFINE S(x) == IF x.file = logfile_number THEN [x EXCEPT !.synced = TRUE]
                                              ELSE x
<1>1. log' = {S(x) : x \in log}
  BY DEF Sync
<1>2. \A x \in log : /\ S(x).first = x.first /\ S(x).last = x.last
                     /\ S(x).file = x.file
                     /\ x.synced \/ x.file = logfile_number => S(x).synced
  BY DEF TypeOK, TypeStore, Records
<1> HIDE DEF S
<1>3. \A q \in log : S(q) \in log'
  BY <1>1
<1>4. \A r \in log' : \E q \in log : r = S(q)
  BY <1>1
<1>5. \A r, s \in log' : r # s =>
        \E p, q \in log : p # q /\ r = S(p) /\ s = S(q)
  BY <1>4
<1> QED BY <1>2, <1>3, <1>4, <1>5

(* Every step of a thread keeps the records apart.                          *)
LEMMA LogThread ==
  ASSUME TypeOK, QueueInv, LogInv, NEW t \in Threads, ThreadStep(t) \/ CallBegins(t)
  PROVE  LogInv'
<1> USE DEF threadVars, storeVars, clientVars, diskVars, leaderVars, memVars
<1>0. pc \in [Threads -> PCs]
  BY DEF TypeOK, TypeThreads
<1>1. CASE Outside(t)
  BY <1>1, OutsideStore, OutsideMoves, LogFrame
<1>2. CASE RoomReady(t)
  BY <1>2, LogStartGroup DEF RoomReady, Proceed
<1>3. CASE RoomSwitch(t)
  BY <1>3, LogStartGroup DEF RoomSwitch, Proceed
<1>4. CASE AddRecord(t)
  <2>1. PICK p \in {"sync", "insert"} : pc' = [pc EXCEPT ![t] = p]
    BY <1>4 DEF AddRecord
  <2> QED BY <1>4, <2>1, LogAddRecord DEF AddRecord, At, Committing
<1>5. CASE AddRecordFails(t)
  BY <1>5, LogAddRecord DEF AddRecordFails, At, Committing
<1>6. CASE Sync(t)
  <2>1. /\ pc[t] = "sync" /\ pc'[t] = "insert" /\ lastSeq' = lastSeq /\ last' = last
        /\ \A u \in Threads : u # t => pc'[u] = pc[u]
    BY <1>0, <1>6 DEF Sync, At
  <2>2. \A r \in log' : \E q \in log : r.first = q.first /\ r.last = q.last
    BY <1>6, SyncRecords
  <2>3. RecordsDisjoint'
    <3> SUFFICES ASSUME NEW r \in log', NEW s \in log', r # s
                 PROVE  (r.first..r.last) \cap (s.first..s.last) = {}
      BY DEF RecordsDisjoint
    <3>1. PICK p \in log, q \in log : /\ p # q
                                      /\ p.first = r.first /\ p.last = r.last
                                      /\ q.first = s.first /\ q.last = s.last
      BY <1>6, SyncRecords
    <3>2. (p.first..p.last) \cap (q.first..q.last) = {}
      BY <3>1 DEF LogInv, RecordsDisjoint
    <3> QED BY <3>1, <3>2
  <2>4. \A r \in log' : r.last <= lastSeq \/ r.last <= last
    BY <2>2 DEF LogInv
  <2> QED BY <2>1, <2>3, <2>4 DEF LogInv, Committing
<1>7. CASE SyncFails(t)
  <2>1. pc[t] = "sync" /\ pc'[t] = "syncfail" /\ \A u \in Threads : u # t => pc'[u] = pc[u]
    BY <1>0, <1>7 DEF SyncFails, At
  <2> QED BY <1>7, <2>1 DEF SyncFails, LogInv, RecordsDisjoint, Committing
<1>8. CASE InsertInto(t)
  BY <1>8, LogFrame DEF InsertInto
<1>9. CASE FinishWrite(t)
  <2>1. /\ pc[t] \in Committing /\ lastSeq' = last /\ log' = log /\ last' = last
    BY <1>9 DEF FinishWrite, SetLastSequence, At, Committing
  <2>2. PICK s \in {"ok", "err"} : PopGroup(t, writers, group, s)
    BY <1>9 DEF FinishWrite
  <2>3. \A u \in Threads : pc'[u] \notin Committing
    BY <2>1, <2>2, PopGroupMoves, CommitterIsFront DEF Committing
  <2>4. lastSeq <= last /\ \A r \in log : r.last <= last
    BY <2>1, LogType DEF LogInv
  <2> QED BY <2>1, <2>3, <2>4 DEF LogInv, RecordsDisjoint
<1>10. Outside(t) \/ Commits(t)
  BY DEF ThreadStep, Outside, Commits
<1> QED BY <1>1, <1>2, <1>3, <1>4, <1>5, <1>6, <1>7, <1>8, <1>9, <1>10 DEF Commits

(* The background task only removes log files.                              *)
LEMMA BackgroundStore ==
  ASSUME BackgroundStep
  PROVE  /\ UNCHANGED <<threadVars, lastSeq, ackVars, mem, logfile_number>>
         /\ \/ UNCHANGED <<imm, has_imm, tables, log, log_number>>
            \/ FlushCommits
            \/ /\ FlushUnlinks \/ Cleanup
               /\ log' = {r \in log : r.file >= log_number}
               /\ UNCHANGED <<imm, has_imm, tables, log_number>>
<1> USE DEF clientVars, storeVars, memVars, diskVars, endVars
<1>1. CASE TaskSkipped \/ FlushStarts \/ ManualEmpty \/ ManualStarts
           \/ CompactionStarts
  BY <1>1 DEF TaskSkipped, FlushStarts, ManualEmpty, ManualStarts, CompactionStarts
<1>2. CASE FlushBuilt \/ FlushFails \/ NestedFlush \/ WorkDone
  BY <1>2 DEF FlushBuilt, FlushFails, NestedFlush, WorkDone
<1>3. CASE FlushCommits
  BY <1>3 DEF FlushCommits
<1>4. CASE FlushUnlinks \/ Cleanup
  BY <1>4 DEF FlushUnlinks, Cleanup, RemoveObsoleteFiles
<1>5. CASE CompactionFails \/ Installs \/ TrivialMove
  BY <1>5 DEF CompactionFails, Installs, TrivialMove
<1> QED BY <1>1, <1>2, <1>3, <1>4, <1>5 DEF BackgroundStep

(* So do the background task, the destructor and stuttering.                *)
LEMMA LogOthers ==
  ASSUME LogInv, BackgroundStep \/ Close \/ CloseWakes \/ UNCHANGED vars
  PROVE  LogInv'
<1>1. CASE BackgroundStep
  <2>1. log' \subseteq log
    BY <1>1, BackgroundStore DEF FlushCommits
  <2>2. UNCHANGED <<lastSeq, last, pc>>
    BY <1>1, BackgroundStore DEF threadVars, leaderVars
  <2> QED BY <2>1, <2>2, LogShrinks
<1>2. CASE Close \/ CloseWakes \/ UNCHANGED vars
  BY <1>2, LogShrinks DEF Close, CloseWakes, vars, clientVars, threadVars,
     leaderVars, storeVars, diskVars
<1> QED BY <1>1, <1>2

-----------------------------------------------------------------------------
(* What recovery finds *)

(* The entries recovery finds if the log files hold the given records: those*)
(* of table files, the immutable memtable's in a log that recovery reads,   *)
(* and the memtable's in the current log.                                   *)
Kept(records) ==
  tables \cup (imm \cap Seqs({r \in records : r.file >= log_number}))
         \cup (mem \cap Seqs({r \in records : r.file = logfile_number}))

SyncedLog == {r \in log : r.synced}

(* Acknowledged entries are kept, the ones of sync writes by synced records;*)
(* the log a flush makes obsolete is older than the current one.            *)
StoreInv ==
  /\ log_number <= logfile_number
  /\ bg = "apply" => edit_log = logfile_number
  /\ ~has_imm => imm = {}
  /\ acked \subseteq Kept(log)
  /\ syncAcked \subseteq Kept(SyncedLog)

(* The leader's record is in the current log, synced if it asked for it, and*)
(* it asks for it if any member of its group does.                          *)
GroupInv ==
  \A t \in Threads :
    /\ pc[t] \in {"sync", "insert"} =>
         \E r \in log : /\ r.first = lastSeq + 1 /\ r.last = last
                        /\ r.file = logfile_number
                        /\ pc[t] = "insert" /\ t \in sync => r.synced
    /\ pc[t] \in Committing =>
         \A i \in 1..group : writers[i] \in sync => t \in sync

(* Every writer that BuildBatchGroup takes passed its tests.                *)
LEMMA GroupJoins ==
  ASSUME NEW q \in Seq(Threads), q # <<>>, NEW i \in 2..BuildBatchGroup(q)
  PROVE  Joins(q, i)
<1> DEFINE S == {n \in 1..Len(q) : \A j \in 2..n : Joins(q, j)}
<1>0. BuildBatchGroup(q) \in 1..Len(q) /\ BuildBatchGroup(q) = Cardinality(S)
  BY GroupSize DEF BuildBatchGroup
<1>1. i \in Nat /\ 2 <= i /\ i <= Cardinality(S)
  BY <1>0
<1> SUFFICES ASSUME ~Joins(q, i) PROVE FALSE
  OBVIOUS
<1>2. S \subseteq 1..(i - 1)
  BY <1>1
<1>3. IsFiniteSet(1..(i - 1)) /\ Cardinality(1..(i - 1)) = i - 1
  BY <1>1, FS_Interval
<1>4. Cardinality(S) <= i - 1
  BY <1>2, <1>3, FS_Subset
<1> QED BY <1>0, <1>1, <1>4

(* A group with a sync writer is led by one.                                *)
LEMMA GroupSyncs ==
  ASSUME NEW q \in Seq(Threads), q # <<>>, NEW i \in 1..BuildBatchGroup(q),
         q[i] \in sync
  PROVE  q[1] \in sync
<1>1. CASE i = 1
  BY <1>1
<1>2. CASE i # 1
  <2>1. i \in 2..BuildBatchGroup(q)
    BY <1>2, GroupSize
  <2> QED BY <2>1, GroupJoins DEF Joins
<1> QED BY <1>1, <1>2

(* Kept entries stay kept while nothing but obsolete logs disappears.       *)
LEMMA KeptGrows ==
  ASSUME NEW R, NEW Q, tables \subseteq tables', imm \subseteq imm',
         mem \subseteq mem', UNCHANGED <<log_number, logfile_number>>,
         \A r \in R : r.file >= log_number \/ r.file = logfile_number =>
           \E q \in Q : /\ q.first = r.first /\ q.last = r.last
                        /\ q.file = r.file
  PROVE  Kept(R) \subseteq
           tables' \cup (imm' \cap Seqs({r \in Q : r.file >= log_number'}))
                   \cup (mem' \cap Seqs({r \in Q : r.file = logfile_number'}))
<1>1. Seqs({r \in R : r.file >= log_number})
        \subseteq Seqs({r \in Q : r.file >= log_number})
  BY DEF Seqs
<1>2. Seqs({r \in R : r.file = logfile_number})
        \subseteq Seqs({r \in Q : r.file = logfile_number})
  BY DEF Seqs
<1> QED BY <1>1, <1>2 DEF Kept

(* The two sets of records StoreInv speaks of.                              *)
LEMMA StoreGrows ==
  ASSUME StoreInv, tables \subseteq tables', imm \subseteq imm',
         mem \subseteq mem', UNCHANGED <<log_number, logfile_number, has_imm>>,
         ~has_imm' => imm' = {},
         bg' = "apply" => edit_log' = logfile_number',
         \A r \in log : r.file >= log_number =>
           \E q \in log' : /\ q.first = r.first /\ q.last = r.last
                           /\ q.file = r.file /\ (r.synced => q.synced)
  PROVE  /\ log_number' <= logfile_number'
         /\ bg' = "apply" => edit_log' = logfile_number'
         /\ ~has_imm' => imm' = {}
         /\ acked \subseteq Kept(log)'
         /\ syncAcked \subseteq Kept(SyncedLog)'
<1>1. Kept(log) \subseteq Kept(log)'
  <2>1. \A r \in log : r.file >= log_number \/ r.file = logfile_number =>
           \E q \in log' : /\ q.first = r.first /\ q.last = r.last
                           /\ q.file = r.file
    BY DEF StoreInv
  <2> QED BY <2>1, KeptGrows DEF Kept
<1>2. Kept(SyncedLog) \subseteq Kept(SyncedLog)'
  <2>1. \A r \in SyncedLog : r.file >= log_number \/ r.file = logfile_number =>
           \E q \in SyncedLog' : /\ q.first = r.first /\ q.last = r.last
                                 /\ q.file = r.file
    BY DEF StoreInv, SyncedLog
  <2> QED BY <2>1, KeptGrows DEF Kept
<1> QED BY <1>1, <1>2 DEF StoreInv

(* A step that leaves the store alone.                                      *)
LEMMA StoreFrame ==
  ASSUME StoreInv, UNCHANGED <<memVars, tables, log, log_number, ackVars>>,
         bg' = "apply" => edit_log' = logfile_number'
  PROVE  StoreInv'
BY DEF StoreInv, Kept, Seqs, SyncedLog, memVars, ackVars

(* Client threads do not run the flush.                                     *)
LEMMA ThreadKeepsTask ==
  ASSUME NEW t \in Threads, ThreadStep(t) \/ CallBegins(t)
  PROVE  UNCHANGED <<bg, edit_log>>
BY DEF ThreadStep, Enqueue, TakeResult, RoomError, RoomDelay, RoomReady,
       RoomWait, RoomSwitch, RoomSwitchFails, AddRecord, AddRecordFails, Sync,
       SyncFails, InsertInto, FinishWrite, ImmWait, ImmDone, ManualSubmit,
       ManualWait, ManualEnd, CallBegins, CallWrite, CallFlush, CallRange,
       UpdateStats, storeVars, clientVars, schedVars, taskVars, diskVars

(* A memtable is frozen only when the one before it has been flushed.       *)
LEMMA StoreSwitch ==
  ASSUME TypeOK, FlushInv, StoreInv, NEW t \in Threads, RoomSwitch(t)
  PROVE  StoreInv'
<1> USE DEF diskVars, endVars, ackVars
<1>1. /\ ~has_imm /\ imm' = mem /\ has_imm' = TRUE /\ mem' = {}
      /\ logfile_number' = logfile_number + 1
      /\ UNCHANGED <<tables, log, log_number, edit_log, bg, acked, syncAcked>>
  BY DEF RoomSwitch, MustWait
<1>2. bg' # "apply"
  BY <1>1 DEF FlushInv
<1>3. log_number \in Nat /\ logfile_number \in Nat
  BY LogType
<1>4. \A R : Seqs({r \in R : r.file = logfile_number})
               \subseteq Seqs({r \in R : r.file >= log_number})
  BY <1>3 DEF Seqs, StoreInv
<1>5. imm = {}
  BY <1>1 DEF StoreInv
<1>6. ASSUME NEW R, NEW Q, Q = R
      PROVE  /\ Kept(R) \subseteq
                  tables \cup (mem \cap Seqs({r \in R : r.file >= log_number}))
             /\ tables \cup (mem \cap Seqs({r \in R : r.file >= log_number}))
                  \subseteq tables' \cup
                    (imm' \cap Seqs({r \in Q : r.file >= log_number'}))
  <2>1. Seqs({r \in R : r.file = logfile_number})
          \subseteq Seqs({r \in R : r.file >= log_number})
    BY <1>4
  <2>2. Kept(R) = tables \cup (mem \cap Seqs({r \in R : r.file = logfile_number}))
    BY <1>5 DEF Kept
  <2>3. tables' = tables /\ imm' = mem /\ log_number' = log_number
    BY <1>1
  <2> QED BY ONLY <1>6, <2>1, <2>2, <2>3
<1>7. /\ Kept(log) \subseteq Kept(log)'
      /\ Kept(SyncedLog) \subseteq Kept(SyncedLog)'
  <2>1. log' = log /\ SyncedLog' = SyncedLog
    BY <1>1 DEF SyncedLog
  <2>2. Kept(log) \subseteq tables' \cup
          (imm' \cap Seqs({r \in log' : r.file >= log_number'}))
    BY ONLY <1>6, <2>1
  <2>3. Kept(SyncedLog) \subseteq tables' \cup
          (imm' \cap Seqs({r \in SyncedLog' : r.file >= log_number'}))
    BY ONLY <1>6, <2>1
  <2> QED BY ONLY <2>2, <2>3 DEF Kept
<1>8. log_number' <= logfile_number'
  BY <1>1, <1>3 DEF StoreInv
<1> QED BY <1>1, <1>2, <1>7, <1>8 DEF StoreInv

(* A Write that returns OK has its entries in the memtable and in the       *)
(* current log, synced if it or a member of its group asked for it.         *)
LEMMA StoreFinish ==
  ASSUME TypeOK, QueueInv, StoreInv, GroupInv, NEW t \in Threads, FinishWrite(t)
  PROVE  StoreInv'
<1> USE DEF diskVars, taskVars, memVars
<1> DEFINE range == (lastSeq + 1)..last
           asked == \E i \in 1..group : writers[i] \in sync
<1>1. UNCHANGED <<mem, imm, has_imm, tables, log, log_number, logfile_number,
                  edit_log, bg>>
  BY DEF FinishWrite
<1>2. Kept(log)' = Kept(log) /\ Kept(SyncedLog)' = Kept(SyncedLog)
  BY <1>1 DEF Kept, Seqs, SyncedLog
<1>3. CASE pc[t] # "insert"
  <2>1. acked' = acked /\ syncAcked' = syncAcked
    BY <1>3 DEF FinishWrite
  <2> QED BY <1>1, <2>1, <1>2 DEF StoreInv
<1>4. CASE pc[t] = "insert"
  <2>1. /\ acked' = acked \cup range
        /\ syncAcked' = IF asked THEN syncAcked \cup range ELSE syncAcked
        /\ range \subseteq mem
    BY <1>4 DEF FinishWrite, At, Inserted
  <2>2. PICK r \in log : /\ r.first = lastSeq + 1 /\ r.last = last
                         /\ r.file = logfile_number
                         /\ t \in sync => r.synced
    BY <1>4 DEF GroupInv
  <2>3. range \subseteq Kept(log)
    BY <2>1, <2>2 DEF Kept, Seqs
  <2>4. asked => t \in sync
    BY <1>4 DEF GroupInv, Committing
  <2>5. asked => range \subseteq Kept(SyncedLog)
    BY <2>1, <2>2, <2>4 DEF Kept, Seqs, SyncedLog
  <2> QED BY <1>1, <1>2, <2>1, <2>3, <2>5 DEF StoreInv
<1> QED BY <1>3, <1>4

(* Every step of a thread keeps what was acknowledged.                      *)
LEMMA StoreThread ==
  ASSUME TypeOK, QueueInv, FlushInv, StoreInv, GroupInv, NEW t \in Threads,
         ThreadStep(t) \/ CallBegins(t)
  PROVE  StoreInv'
<1> USE DEF storeVars, diskVars, memVars, endVars, ackVars
<1>0. UNCHANGED <<bg, edit_log>>
  BY ThreadKeepsTask
<1>1. CASE Outside(t)
  BY <1>0, <1>1, OutsideStore, StoreFrame DEF StoreInv
<1>2. CASE RoomReady(t)
  BY <1>0, <1>2, StoreFrame DEF RoomReady, StoreInv
<1>3. CASE RoomSwitch(t)
  BY <1>3, StoreSwitch
<1>4. CASE AddRecord(t) \/ AddRecordFails(t) \/ Sync(t) \/ InsertInto(t)
  <2>1. /\ UNCHANGED <<imm, has_imm, tables, log_number, logfile_number, acked,
                       syncAcked>>
        /\ mem \subseteq mem'
    BY <1>4 DEF AddRecord, AddRecordFails, Sync, InsertInto
  <2>2. \A r \in log : r.file >= log_number =>
           \E q \in log' : /\ q.first = r.first /\ q.last = r.last
                           /\ q.file = r.file /\ (r.synced => q.synced)
    <3>1. CASE Sync(t)
      BY <3>1, SyncRecords
    <3>2. CASE AddRecord(t) \/ AddRecordFails(t) \/ InsertInto(t)
      BY <3>2 DEF AddRecord, AddRecordFails, InsertInto
    <3> QED BY <1>4, <3>1, <3>2
  <2>3. /\ ~has_imm' => imm' = {}
        /\ bg' = "apply" => edit_log' = logfile_number'
    BY <1>0, <2>1 DEF StoreInv
  <2>4. /\ log_number' <= logfile_number'
        /\ bg' = "apply" => edit_log' = logfile_number'
        /\ ~has_imm' => imm' = {}
        /\ acked \subseteq Kept(log)'
        /\ syncAcked \subseteq Kept(SyncedLog)'
    BY <2>1, <2>2, <2>3, StoreGrows
  <2> QED BY <2>1, <2>4 DEF StoreInv
<1>5. CASE SyncFails(t)
  BY <1>0, <1>5, StoreFrame DEF SyncFails, StoreInv
<1>6. CASE FinishWrite(t)
  BY <1>6, StoreFinish
<1>7. Outside(t) \/ Commits(t)
  BY DEF ThreadStep, Outside, Commits
<1> QED BY <1>1, <1>2, <1>3, <1>4, <1>5, <1>6, <1>7 DEF Commits

(* The flush moves the immutable memtable to a table before it gives up its *)
(* log, and RemoveObsoleteFiles leaves the logs recovery reads.             *)
LEMMA StoreBackground ==
  ASSUME TypeOK, StoreInv, BackgroundStep
  PROVE  StoreInv'
<1> USE DEF ackVars, memVars, storeVars, diskVars, clientVars
<1>0. UNCHANGED <<mem, logfile_number, acked, syncAcked>>
  BY BackgroundStore
<1>a. FlushEnd => bg' \in {"work", "idle"}
  BY DEF FlushEnd, BackgroundCallEnd
<1>b. \A ok : CompactionEnd(ok) => bg' \in {"crashed", "idle"}
  BY DEF CompactionEnd, BackgroundCallEnd
<1>1. CASE FlushCommits
  <2>1. /\ tables' = tables \cup imm /\ log_number' = logfile_number
        /\ imm' = {} /\ has_imm' = FALSE /\ log' = log
    BY <1>1 DEF FlushCommits, StoreInv
  <2>2. bg' # "apply"
    BY <1>a, <1>1 DEF FlushCommits
  <2>3. SyncedLog' = SyncedLog
    BY <2>1 DEF SyncedLog
  <2>4. Kept(log) \subseteq Kept(log)' /\ Kept(SyncedLog) \subseteq Kept(SyncedLog)'
    BY <1>0, <2>1, <2>3 DEF Kept
  <2>5. log_number' <= logfile_number'
    BY <1>0, <2>1, LogType
  <2> QED BY <1>0, <2>1, <2>2, <2>4, <2>5 DEF StoreInv
<1>2. CASE FlushUnlinks \/ Cleanup
  <2>1. /\ log' = {r \in log : r.file >= log_number}
        /\ UNCHANGED <<imm, has_imm, tables, log_number>>
    BY <1>2 DEF FlushUnlinks, Cleanup, RemoveObsoleteFiles
  <2>2. bg' # "apply"
    BY <1>a, <1>b, <1>2 DEF FlushUnlinks, Cleanup
  <2>3. /\ log_number' <= logfile_number'
        /\ acked \subseteq Kept(log)'
        /\ syncAcked \subseteq Kept(SyncedLog)'
    BY <1>0, <2>1, <2>2, StoreGrows DEF StoreInv
  <2> QED BY <1>0, <2>1, <2>2, <2>3 DEF StoreInv
<1>3. CASE ~(FlushCommits \/ FlushUnlinks \/ Cleanup)
  <2>1. UNCHANGED <<imm, has_imm, tables, log, log_number>>
    BY <1>3, BackgroundStore
  <2>2. bg' = "apply" => edit_log' = logfile_number'
    <3>1. CASE FlushBuilt
      BY <3>1 DEF FlushBuilt
    <3>2. CASE ~FlushBuilt
      <4>1. bg' # "apply"
        BY <1>3, <3>2, <1>a, <1>b
           DEF BackgroundStep, TaskSkipped, FlushStarts, ManualEmpty,
               ManualStarts, CompactionStarts, BackgroundCallEnd, FlushFails,
               NestedFlush, WorkDone, CompactionFails, Installs, TrivialMove
      <4> QED BY <4>1
    <3> QED BY <3>1, <3>2
  <2> QED BY <1>0, <2>1, <2>2, StoreFrame
<1> QED BY <1>1, <1>2, <1>3

(* So do the destructor and stuttering.                                     *)
LEMMA StoreOthers ==
  ASSUME StoreInv, Close \/ CloseWakes \/ UNCHANGED vars
  PROVE  StoreInv'
<1>1. UNCHANGED <<memVars, tables, log, log_number, ackVars, bg, edit_log,
                  logfile_number>>
  BY DEF Close, CloseWakes, vars, clientVars, storeVars, diskVars, endVars,
         schedVars, taskVars, memVars
<1> QED BY <1>1, StoreFrame DEF StoreInv

(* A step after which nobody is at a commit.                                *)
LEMMA GroupIdle ==
  ASSUME \A u \in Threads : pc'[u] \notin Committing
  PROVE  GroupInv'
BY DEF GroupInv, Committing

(* Forming a group, or returning at once for a nullptr batch.               *)
LEMMA GroupStart ==
  ASSUME TypeOK, QueueInv, NEW t \in Threads, InRoom(t), StartGroup(t, Queue(t))
  PROVE  GroupInv'
<1>0. \A u \in Threads : pc[u] \notin Committing
  BY InRoomNoCommit
<1>1. CASE batch[t] = NoBatch
  <2>1. PopGroup(t, Queue(t), 1, "ok")
    BY <1>1 DEF StartGroup
  <2> QED BY <1>0, <2>1, PopGroupMoves, GroupIdle DEF Committing
<1>2. CASE batch[t] # NoBatch
  <2>1. Front(t, Queue(t))
    BY InRoomIsFront
  <2>2. /\ group' = BuildBatchGroup(Queue(t)) /\ writers' = Queue(t)
        /\ sync' = sync /\ pc' = [pc EXCEPT ![t] = "append"]
    BY <1>2 DEF StartGroup
  <2>3. \A u \in Threads : pc'[u] = IF u = t THEN "append" ELSE pc[u]
    BY <2>2 DEF TypeOK, TypeThreads
  <2>4. \A i \in 1..group' : writers'[i] \in sync' => t \in sync'
    BY <2>1, <2>2, GroupSyncs DEF Front
  <2> QED BY <1>0, <2>3, <2>4 DEF GroupInv, Committing
<1> QED BY <1>1, <1>2

(* A leader's own steps: the group and its flags stay, and the record it    *)
(* needs is given.                                                          *)
LEMMA GroupLeader ==
  ASSUME TypeOK, QueueInv, GroupInv, NEW t \in Threads, pc[t] \in Committing,
         pc'[t] \in {"sync", "insert"} =>
           \E r \in log' : /\ r.first = lastSeq' + 1 /\ r.last = last'
                           /\ r.file = logfile_number'
                           /\ pc'[t] = "insert" /\ t \in sync => r.synced,
         \A u \in Threads : u # t => pc'[u] = pc[u],
         UNCHANGED <<group, writers, sync>>
  PROVE  GroupInv'
<1>1. \A u \in Threads : u # t => pc'[u] \notin Committing
  BY CommitterIsFront
<1> QED BY <1>1 DEF GroupInv, Committing

(* Every step of a thread keeps the group's record and its sync flag.       *)
LEMMA GroupThread ==
  ASSUME TypeOK, QueueInv, StoreInv, GroupInv, NEW t \in Threads,
         ThreadStep(t) \/ CallBegins(t)
  PROVE  GroupInv'
<1> USE DEF threadVars, storeVars, memVars, callVars, queueVars, leaderVars
<1>0. pc \in [Threads -> PCs]
  BY DEF TypeOK, TypeThreads
<1>1. CASE Outside(t)
  <2> SUFFICES ASSUME NEW u \in Threads, pc'[u] \in Committing
               PROVE  /\ pc'[u] \in {"sync", "insert"} =>
                           \E r \in log' :
                             /\ r.first = lastSeq' + 1 /\ r.last = last'
                             /\ r.file = logfile_number'
                             /\ pc'[u] = "insert" /\ u \in sync' => r.synced
                      /\ \A i \in 1..group' : writers'[i] \in sync' => u \in sync'
    BY DEF GroupInv, Committing
  <2>1. u # t /\ pc'[u] = pc[u] /\ pc[u] \in Committing
    BY <1>1, OutsideMoves
  <2>2. UNCHANGED <<log, lastSeq, last, logfile_number, group>>
    BY <1>1, OutsideStore DEF diskVars
  <2>3. u \in sync' <=> u \in sync
    BY <1>1, <2>1, OutsideQueue
  <2>4. group \in 1..Len(writers) /\ writers \in Seq(Threads)
    BY <2>1, CommitterIsFront DEF Front
  <2>5. \A i \in 1..group : /\ writers'[i] = writers[i]
                            /\ writers[i] \in sync' <=> writers[i] \in sync
    <3> SUFFICES ASSUME NEW i \in 1..group
                 PROVE  /\ writers'[i] = writers[i]
                        /\ writers[i] \in sync' <=> writers[i] \in sync
      OBVIOUS
    <3>1. i \in 1..Len(writers) /\ writers[i] \in Threads
      BY <2>4
    <3> QED BY <1>1, <2>1, <3>1, OutsideQueue
  <2> QED BY <2>1, <2>2, <2>3, <2>5 DEF GroupInv
<1>2. CASE RoomReady(t) \/ RoomSwitch(t)
  BY <1>2, GroupStart DEF RoomReady, RoomSwitch, Proceed
<1>3. CASE AddRecord(t)
  <2>1. /\ pc[t] = "append" /\ Record \in log'
        /\ UNCHANGED <<lastSeq, last, logfile_number, group, writers, sync>>
        /\ pc'[t] = IF t \in sync THEN "sync" ELSE "insert"
        /\ \A u \in Threads : u # t => pc'[u] = pc[u]
    BY <1>0, <1>3 DEF AddRecord, At
  <2>2. /\ Record.first = lastSeq + 1 /\ Record.last = last
        /\ Record.file = logfile_number
    BY DEF Record
  <2> QED BY <2>1, <2>2, GroupLeader DEF Committing
<1>4. CASE AddRecordFails(t) \/ SyncFails(t)
  <2>1. /\ pc[t] \in {"append", "sync"} /\ pc'[t] \in {"addfail", "syncfail"}
        /\ UNCHANGED <<group, writers, sync>>
        /\ \A u \in Threads : u # t => pc'[u] = pc[u]
    BY <1>0, <1>4 DEF AddRecordFails, SyncFails, At
  <2> QED BY <2>1, GroupLeader DEF Committing
<1>5. CASE Sync(t)
  <2>1. /\ pc[t] = "sync" /\ pc'[t] = "insert"
        /\ UNCHANGED <<lastSeq, last, logfile_number, group, writers, sync>>
        /\ \A u \in Threads : u # t => pc'[u] = pc[u]
    BY <1>0, <1>5 DEF Sync, At
  <2>2. \E r \in log' : /\ r.first = lastSeq + 1 /\ r.last = last
                        /\ r.file = logfile_number /\ r.synced
    BY <1>5, <2>1, SyncRecords DEF GroupInv
  <2> QED BY <2>1, <2>2, GroupLeader DEF Committing
<1>6. CASE InsertInto(t)
  BY <1>6 DEF InsertInto, diskVars, GroupInv
<1>7. CASE FinishWrite(t)
  <2>1. pc[t] \in Committing
    BY <1>7 DEF FinishWrite, At, Committing
  <2>2. PICK s \in {"ok", "err"} : PopGroup(t, writers, group, s)
    BY <1>7 DEF FinishWrite
  <2> QED BY <2>1, <2>2, PopGroupMoves, CommitterIsFront, GroupIdle DEF Committing
<1>8. Outside(t) \/ Commits(t)
  BY DEF ThreadStep, Outside, Commits
<1> QED BY <1>1, <1>2, <1>3, <1>4, <1>5, <1>6, <1>7, <1>8 DEF Commits

(* The background task never removes the current log.                       *)
LEMMA GroupOthers ==
  ASSUME TypeOK, StoreInv, GroupInv,
         BackgroundStep \/ Close \/ CloseWakes \/ UNCHANGED vars
  PROVE  GroupInv'
<1>1. UNCHANGED <<pc, group, writers, sync, lastSeq, last, logfile_number>>
  <2>1. CASE BackgroundStep
    BY <2>1, BackgroundStore DEF threadVars, queueVars, callVars, leaderVars
  <2>2. CASE Close \/ CloseWakes \/ UNCHANGED vars
    BY <2>2 DEF Close, CloseWakes, vars, clientVars, threadVars, queueVars,
                callVars, leaderVars, storeVars, memVars
  <2> QED BY <2>1, <2>2
<1>2. \A r \in log : r.file = logfile_number => r \in log'
  <2>1. CASE BackgroundStep
    BY <2>1, BackgroundStore DEF FlushCommits, StoreInv
  <2>2. CASE Close \/ CloseWakes \/ UNCHANGED vars
    BY <2>2 DEF Close, CloseWakes, vars, clientVars, storeVars, diskVars
  <2> QED BY <2>1, <2>2
<1> QED BY <1>1, <1>2 DEF GroupInv

-----------------------------------------------------------------------------
(* The sticky background error *)

(* A call that began after the error never gets into a group, so nobody     *)
(* hands it OK.                                                             *)
LateInv ==
  /\ late # {} => bg_error
  /\ \A t \in late : /\ ret[t] # "ok"
                     /\ pc[t] \notin Committing \cup {"immcheck"}
                     /\ t \in done => wstatus[t] = "err"
  /\ \A t \in Threads :
       pc[t] \in Committing => \A i \in 1..group : writers[i] \notin late

(* bg_error_ is never reset.                                                *)
LEMMA ErrorStays ==
  ASSUME TypeOK, [Next]_vars, bg_error
  PROVE  bg_error'
<1> USE DEF vars, schedVars
<1>1. CASE \E t \in Threads : CallBegins(t) \/ ThreadStep(t)
  BY <1>1 DEF CallBegins, ThreadStep, CallWrite, CallFlush, CallRange, UpdateStats,
       Enqueue, TakeResult, RoomError, RoomDelay, RoomReady,
       RoomWait, RoomSwitch, RoomSwitchFails, AddRecord, AddRecordFails, Sync,
       SyncFails, InsertInto, FinishWrite, ImmWait, ImmDone, ManualSubmit,
       ManualWait, ManualEnd
<1>2. CASE BackgroundStep
  BY <1>2 DEF BackgroundStep, TaskSkipped, FlushStarts, ManualEmpty, ManualStarts,
       CompactionStarts, FlushBuilt, FlushFails, FlushCommits, FlushUnlinks,
       NestedFlush, WorkDone, CompactionFails, Installs, Cleanup, TrivialMove
<1>3. CASE Close \/ CloseWakes \/ UNCHANGED vars
  BY <1>3 DEF Close, CloseWakes
<1> QED BY <1>1, <1>2, <1>3 DEF Next, Terminated

(* Without a background error no call is late.                              *)
LEMMA LateNone ==
  ASSUME TypeOK, LateInv, ~bg_error, late' = late
  PROVE  LateInv'
BY DEF LateInv

(* A call of thread t that began after the error returns one.               *)
LEMMA LatePop ==
  ASSUME TypeOK, QueueInv, LateInv, NEW t \in Threads, NEW q, Front(t, q),
         PopGroup(t, q, 1, "err"), UNCHANGED <<late, bg_error>>,
         \A u \in Threads : pc[u] \notin Committing
  PROVE  LateInv'
<1>1. {q[i] : i \in 1..1} = {t}
  BY DEF Front
<1>2. done' = done /\ wstatus' = wstatus
  BY <1>1 DEF PopGroup, TypeOK, TypeQueue
<1>3. ret' = [ret EXCEPT ![t] = IF AfterWrite(t, "err") = "idle" THEN "err" ELSE @]
  BY DEF PopGroup, Return
<1>4. \A u \in late : ret'[u] # "ok"
  BY <1>3 DEF LateInv, TypeOK, TypeThreads
<1>5. AfterWrite(t, "err") \notin Committing \cup {"immcheck"}
  BY DEF AfterWrite, TypeOK, TypeThreads, Committing
<1>6. \A u \in Threads : pc'[u] \notin Committing /\ (u # t => pc'[u] = pc[u])
  BY <1>5, PopGroupMoves
<1>7. pc'[t] # "immcheck"
  BY <1>5, PopGroupMoves
<1> QED BY <1>2, <1>4, <1>6, <1>7 DEF LateInv, TypeOK, TypeThreads

(* A step of thread t by which it neither begins nor ends a Write.          *)
LEMMA LateMoves ==
  ASSUME TypeOK, LateInv, NEW t \in Threads, NEW p,
         pc' = [pc EXCEPT ![t] = p], p # "immcheck",
         p \in Committing => pc[t] \in Committing,
         ret' \in {ret, [ret EXCEPT ![t] = "none"]},
         t \in late => ret'[t] # "ok",
         UNCHANGED <<late, bg_error, group, writers, done, wstatus>>
  PROVE  LateInv'
<1>1. \A u \in Threads : pc'[u] = IF u = t THEN p ELSE pc[u]
  BY DEF TypeOK, TypeThreads
<1>2. \A u \in late : ret'[u] # "ok"
  BY DEF LateInv, TypeOK, TypeThreads
<1> QED BY <1>1, <1>2 DEF LateInv, TypeOK, TypeThreads

(* Beginning a call after the error.                                        *)
LEMMA LateCall ==
  ASSUME TypeOK, QueueInv, LateInv, bg_error, NEW t \in Threads, CallBegins(t)
  PROVE  LateInv'
<1> USE DEF queueVars, leaderVars, schedVars
<1>0. /\ pc \in [Threads -> PCs] /\ ret \in [Threads -> {"none", "ok", "err"}]
      /\ late \subseteq Threads
  BY DEF TypeOK, TypeThreads
<1>1. CASE UpdateStats(t)
  BY <1>1 DEF UpdateStats, LateInv
<1>2. CASE ~UpdateStats(t)
  <2>1. /\ pc[t] = "idle" /\ pc' = [pc EXCEPT ![t] = "call"]
        /\ ret' = [ret EXCEPT ![t] = "none"] /\ late' = late \cup {t}
        /\ UNCHANGED <<bg_error, group, writers, done, wstatus>>
    BY <1>2 DEF CallBegins, CallWrite, CallFlush, CallRange, Call, At
  <2>2. t \notin done
    BY <2>1 DEF QueueInv
  <2>3. \A u \in Threads : pc[u] \in Committing => group \in 1..Len(writers)
    BY DEF QueueInv
  <2>4. \A i \in 1..Len(writers) : writers[i] # t
    BY <2>1 DEF QueueInv, Leading, Committing
  <2>5. writers \in Seq(Threads)
    BY DEF TypeOK, TypeQueue
  <2>6. \A u \in Threads : pc'[u] = IF u = t THEN "call" ELSE pc[u]
    BY <1>0, <2>1
  <2>7. \A u \in late' : ret'[u] # "ok"
    BY <1>0, <2>1 DEF LateInv
  <2>8. \A u \in late' : /\ pc'[u] \notin Committing \cup {"immcheck"}
                         /\ u \in done' => wstatus'[u] = "err"
    BY <1>0, <2>1, <2>2, <2>6 DEF LateInv, Committing
  <2>9. \A u \in Threads :
          pc'[u] \in Committing => \A i \in 1..group' : writers'[i] \notin late'
    BY <2>1, <2>3, <2>4, <2>5, <2>6 DEF LateInv, Committing
  <2> QED BY <2>1, <2>7, <2>8, <2>9 DEF LateInv
<1> QED BY <1>1, <1>2

(* A late call's thread takes a result: it is not OK.                       *)
LEMMA LateTakes ==
  ASSUME TypeOK, QueueInv, LateInv, NEW t \in Threads, TakeResult(t)
  PROVE  LateInv'
<1> USE DEF beginVars, leaderVars, schedVars
<1>0. /\ pc \in [Threads -> PCs] /\ ret \in [Threads -> {"none", "ok", "err"}]
      /\ late \subseteq Threads /\ wstatus \in [Threads -> {"ok", "err"}]
  BY DEF TypeOK, TypeThreads, TypeQueue
<1>1. /\ t \in done /\ done' = done \ {t}
      /\ wstatus' = [wstatus EXCEPT ![t] = "ok"]
      /\ UNCHANGED <<late, bg_error, group, writers>>
      /\ pc' = [pc EXCEPT ![t] = AfterWrite(t, wstatus[t])]
      /\ ret' = [ret EXCEPT ![t] = IF AfterWrite(t, wstatus[t]) = "idle"
                                     THEN wstatus[t] ELSE @]
  BY DEF TakeResult, Return
<1>2. AfterWrite(t, wstatus[t]) \notin Committing
  BY <1>0 DEF AfterWrite, TypeOK, TypeThreads, Committing
<1>3. t \in late => /\ wstatus[t] = "err"
                    /\ AfterWrite(t, wstatus[t]) # "immcheck"
  BY <1>1 DEF LateInv, AfterWrite, TypeOK, TypeThreads
<1>4. \A u \in Threads : pc'[u] = IF u = t THEN AfterWrite(t, wstatus[t])
                                           ELSE pc[u]
  BY <1>0, <1>1
<1>5. \A u \in late : ret'[u] # "ok"
  BY <1>0, <1>1, <1>3 DEF LateInv
<1>6. \A u \in late : pc'[u] \notin Committing \cup {"immcheck"}
  BY <1>0, <1>2, <1>3, <1>4 DEF LateInv
<1>7. \A u \in late : u \in done' => wstatus'[u] = "err"
  BY <1>0, <1>1 DEF LateInv
<1>8. \A u \in Threads :
        pc'[u] \in Committing => \A i \in 1..group : writers[i] \notin late
  BY <1>2, <1>4 DEF LateInv
<1> QED BY <1>1, <1>5, <1>6, <1>7, <1>8 DEF LateInv

(* The status of a group goes to its members, none of which is late.        *)
LEMMA LateFinish ==
  ASSUME TypeOK, QueueInv, LateInv, NEW t \in Threads, FinishWrite(t)
  PROVE  LateInv'
<1> USE DEF beginVars
<1>0. /\ pc \in [Threads -> PCs] /\ ret \in [Threads -> {"none", "ok", "err"}]
      /\ late \subseteq Threads
  BY DEF TypeOK, TypeThreads
<1>1. pc[t] \in Committing /\ late' = late /\ (bg_error => bg_error')
  BY DEF FinishWrite, At, Committing
<1>2. PICK s \in {"ok", "err"} : PopGroup(t, writers, group, s)
  BY DEF FinishWrite
<1>3. \A u \in Threads : pc'[u] \notin Committing /\ (u # t => pc'[u] = pc[u])
  BY <1>1, <1>2, PopGroupMoves, CommitterIsFront DEF Committing
<1>4. t \notin late
  BY <1>1 DEF LateInv
<1>5. \A u \in late : ret'[u] = ret[u]
  BY <1>0, <1>2, <1>4 DEF PopGroup, Return
<1>6. \A u \in late : u \notin {writers[i] : i \in 1..group}
  BY <1>1 DEF LateInv
<1>7. \A u \in late : u \in done' => u \in done /\ wstatus'[u] = wstatus[u]
  BY <1>0, <1>2, <1>6 DEF PopGroup
<1> QED BY <1>0, <1>1, <1>3, <1>4, <1>5, <1>7 DEF LateInv

(* Every step of a thread.                                                  *)
LEMMA LateThread ==
  ASSUME TypeOK, QueueInv, LateInv, NEW t \in Threads, ThreadStep(t)
  PROVE  LateInv'
<1> USE DEF threadVars, clientVars, callVars, beginVars, queueVars, leaderVars,
            schedVars
<1>0. /\ pc \in [Threads -> PCs] /\ ret \in [Threads -> {"none", "ok", "err"}]
  BY DEF TypeOK, TypeThreads
<1>1. CASE ~bg_error
  <2>1. late' = late
    BY DEF ThreadStep, Enqueue, TakeResult, RoomError, RoomDelay, RoomReady,
           RoomWait, RoomSwitch, RoomSwitchFails, AddRecord, AddRecordFails,
           Sync, SyncFails, InsertInto, FinishWrite, ImmWait, ImmDone,
           ManualSubmit, ManualWait, ManualEnd
  <2> QED BY <1>1, <2>1, LateNone
<1>2. CASE bg_error
  <2>1. CASE Enqueue(t)
    <3>1. /\ pc[t] = "call" /\ writers' = Append(writers, t)
          /\ done' = done \ {t} /\ pc' = [pc EXCEPT ![t] = "queued"]
          /\ UNCHANGED <<ret, late, bg_error, group, wstatus>>
      BY <2>1 DEF Enqueue, Queue, At
    <3>2. \A u \in Threads : pc'[u] = IF u = t THEN "queued" ELSE pc[u]
      BY <1>0, <3>1
    <3>3. writers \in Seq(Threads) /\ late \subseteq Threads
      BY DEF TypeOK, TypeQueue, TypeThreads
    <3>4. \A u \in Threads : pc'[u] \in Committing =>
            /\ pc[u] \in Committing /\ group \in 1..Len(writers)
            /\ \A i \in 1..group : writers'[i] = writers[i]
      BY <3>1, <3>2, <3>3 DEF QueueInv, Committing
    <3> QED BY <3>1, <3>2, <3>3, <3>4 DEF LateInv, Committing
  <2>2. CASE TakeResult(t)
    BY <2>2, LateTakes
  <2>3. CASE RoomError(t)
    BY <2>3, InRoomIsFront, InRoomNoCommit, LatePop DEF RoomError
  <2>4. ~(RoomDelay(t) \/ RoomReady(t) \/ RoomWait(t) \/ RoomSwitch(t)
          \/ RoomSwitchFails(t))
    BY <1>2 DEF RoomDelay, RoomReady, RoomWait, RoomSwitch, RoomSwitchFails,
                Proceed
  <2>5. CASE AddRecord(t) \/ AddRecordFails(t) \/ Sync(t) \/ SyncFails(t)
    <3>1. PICK p \in Committing : pc' = [pc EXCEPT ![t] = p]
      BY <2>5 DEF AddRecord, AddRecordFails, Sync, SyncFails, Committing
    <3>2. /\ pc[t] \in Committing
          /\ UNCHANGED <<ret, late, bg_error, group, writers, done, wstatus>>
      BY <2>5 DEF AddRecord, AddRecordFails, Sync, SyncFails, Committing, At
    <3>3. p # "immcheck" /\ (t \in late => ret'[t] # "ok")
      BY <3>1, <3>2 DEF Committing, LateInv
    <3> QED BY <3>1, <3>2, <3>3, LateMoves
  <2>6. CASE InsertInto(t)
    BY <2>6 DEF InsertInto, LateInv
  <2>7. CASE FinishWrite(t)
    BY <2>7, LateFinish
  <2>8. CASE ImmDone(t)
    <3>1. t \notin late
      BY <2>8 DEF ImmDone, At, LateInv
    <3>2. PICK p \in {"manual", "idle"} : pc' = [pc EXCEPT ![t] = p]
      BY <2>8 DEF ImmDone, Return
    <3>3. UNCHANGED <<late, bg_error, group, writers, done, wstatus>>
      BY <2>8 DEF ImmDone
    <3>4. \A u \in late : ret'[u] = ret[u] /\ pc'[u] = pc[u]
      BY <2>8, <3>1, <1>0 DEF ImmDone, Return, TypeOK, TypeThreads
    <3>5. \A u \in Threads : pc'[u] \in Committing => pc[u] \in Committing
      BY <1>0, <3>2 DEF Committing
    <3> QED BY <3>3, <3>4, <3>5 DEF LateInv
  <2>9. CASE ImmWait(t) \/ ManualSubmit(t) \/ ManualWait(t)
    BY <2>9 DEF ImmWait, ManualSubmit, ManualWait, LateInv
  <2>10. CASE ManualEnd(t)
    <3>1. UNCHANGED <<late, bg_error, group, writers, done, wstatus>>
      BY <2>10 DEF ManualEnd
    <3>2. CASE UNCHANGED <<pc, ret>>
      BY <3>1, <3>2 DEF LateInv
    <3>3. CASE Return(t, "none", "idle")
      BY <1>0, <3>1, <3>3, LateMoves DEF Return, Committing
    <3> QED BY <2>10, <3>2, <3>3 DEF ManualEnd
  <2> QED BY <2>1, <2>2, <2>3, <2>4, <2>5, <2>6, <2>7, <2>8, <2>9, <2>10
          DEF ThreadStep
<1> QED BY <1>1, <1>2

(* Every other step.                                                        *)
LEMMA LateOthers ==
  ASSUME TypeOK, LateInv, [Next]_vars,
         BackgroundStep \/ Close \/ CloseWakes \/ UNCHANGED vars
  PROVE  LateInv'
<1>1. UNCHANGED <<late, ret, pc, done, wstatus, group, writers>>
  <2>1. CASE BackgroundStep
    BY <2>1, BackgroundStore DEF threadVars, queueVars, callVars, leaderVars,
                                 beginVars
  <2>2. CASE Close \/ CloseWakes \/ UNCHANGED vars
    BY <2>2 DEF Close, CloseWakes, vars, clientVars, threadVars, queueVars,
                callVars, leaderVars, beginVars
  <2> QED BY <2>1, <2>2
<1>2. bg_error => bg_error'
  BY ErrorStays
<1> QED BY <1>1, <1>2 DEF LateInv

-----------------------------------------------------------------------------
(* The invariant of the data, on top of the one of the control *)

DataInv == LogInv /\ StoreInv /\ GroupInv /\ LateInv

(* DB::Open establishes it. *)
LEMMA InitData == Init => DataInv
<1> SUFFICES ASSUME Init PROVE DataInv
  OBVIOUS
<1>1. LogInv
  BY DEF Init, LogInv, RecordsDisjoint, Committing
<1>2. StoreInv
  BY DEF Init, StoreInv
<1>3. GroupInv
  BY DEF Init, GroupInv, Committing
<1>4. LateInv
  BY DEF Init, LateInv, Committing
<1> QED BY <1>1, <1>2, <1>3, <1>4 DEF DataInv

(* Every step keeps it. *)
LEMMA NextData == Inv /\ DataInv /\ [Next]_vars => DataInv'
<1> SUFFICES ASSUME Inv, DataInv, [Next]_vars PROVE DataInv'
  OBVIOUS
<1> USE DEF Inv, DataInv
<1>1. ASSUME NEW t \in Threads, CallBegins(t)
      PROVE  DataInv'
  <2>1. LateInv'
    <3>1. CASE bg_error
      BY <1>1, <3>1, LateCall
    <3>2. CASE ~bg_error
      <4>1. late = {} /\ late' \in {late, late \ {t}}
        BY <1>1, <3>2 DEF LateInv, CallBegins, CallWrite, CallFlush, CallRange,
                          UpdateStats, Call
      <4> QED BY <4>1 DEF LateInv
    <3> QED BY <3>1, <3>2
  <2> QED BY <1>1, <2>1, LogThread, StoreThread, GroupThread
<1>2. ASSUME NEW t \in Threads, ThreadStep(t)
      PROVE  DataInv'
  BY <1>2, LogThread, StoreThread, GroupThread, LateThread
<1>3. CASE BackgroundStep
  BY <1>3, LogOthers, StoreBackground, GroupOthers, LateOthers
<1>4. CASE Close \/ CloseWakes \/ UNCHANGED vars
  BY <1>4, LogOthers, StoreOthers, GroupOthers, LateOthers
<1> QED BY <1>1, <1>2, <1>3, <1>4 DEF Next, Terminated

(* The invariant of the data holds in every reachable state. *)
THEOREM DataInvariance == Spec => []DataInv
<1>1. Init => DataInv
  BY InitData
<1>2. Inv /\ DataInv /\ [Next]_vars => DataInv'
  BY NextData
<1> QED BY <1>1, <1>2, Invariance, PTL DEF Spec

(* Write never puts a sequence number in the log twice, not even after a    *)
(* failed AddRecord whose record reached the file: SetLastSequence comes    *)
(* whatever the status.                                                     *)
THEOREM RecordsAreDisjoint == Spec => []RecordsDisjoint
<1>1. DataInv => RecordsDisjoint
  BY DEF DataInv, LogInv
<1> QED BY <1>1, DataInvariance, PTL

(* Kept entries are readable, and in a table or a log that recovery reads.  *)
LEMMA KeptRecoverable ==
  ASSUME TypeOK, StoreInv, NEW R
  PROVE  /\ Kept(R) \subseteq Stored
         /\ Kept(R) \subseteq tables \cup Seqs({r \in R : r.file >= log_number})
<1>1. log_number \in Nat /\ logfile_number \in Nat /\ log_number <= logfile_number
  BY LogType DEF StoreInv
<1>2. Seqs({r \in R : r.file = logfile_number})
        \subseteq Seqs({r \in R : r.file >= log_number})
  BY <1>1 DEF Seqs
<1> QED BY <1>2 DEF Kept, Stored

(* What Write acknowledged stays readable, and recoverable from the tables  *)
(* and the logs that RemoveObsoleteFiles leaves.                            *)
THEOREM AckedIsRecoverable == Spec => []AckedRecoverable
<1>1. Inv /\ DataInv => AckedRecoverable
  BY KeptRecoverable DEF Inv, DataInv, StoreInv, AckedRecoverable, LiveLog
<1> QED BY <1>1, Invariance, DataInvariance, PTL

(* A sync write that was acknowledged, whichever thread did the work, is in *)
(* a table or in the synced part of a log that recovery reads.              *)
THEOREM SyncIsDurable == Spec => []SyncDurable
<1>1. Inv /\ DataInv => SyncDurable
  <2> SUFFICES ASSUME Inv, DataInv PROVE SyncDurable
    OBVIOUS
  <2>1. syncAcked \subseteq
          tables \cup Seqs({r \in SyncedLog : r.file >= log_number})
    BY KeptRecoverable DEF Inv, DataInv, StoreInv
  <2>2. {r \in SyncedLog : r.file >= log_number} = {r \in LiveLog : r.synced}
    BY DEF SyncedLog, LiveLog
  <2> QED BY <2>1, <2>2 DEF SyncDurable
<1> QED BY <1>1, Invariance, DataInvariance, PTL

(* A write that begins after RecordBackgroundError never returns OK, also   *)
(* when another thread's Write would have carried its batch.                *)
THEOREM ErrorIsSticky == Spec => []ErrorSticks
<1>1. DataInv => ErrorSticks
  BY DEF DataInv, LateInv, ErrorSticks
<1> QED BY <1>1, DataInvariance, PTL

-----------------------------------------------------------------------------
(* PebblesDB. *)

(* The fields of a Writer.                                                  *)
Fields == {"pc", "batch", "waiter", "ok", "log", "start", "end", "prev", "next",
           "hasImm"}

(* The entries of a writer, which are drawn with its numbers.               *)
EntriesOf(r) == {[key |-> r.batch[i], seq |-> r.start + i - 1] :
                   i \in DOMAIN r.batch}

(* What holds of a writer when S is stored: those that wait for others have *)
(* no batch, and one that has ended well has stored its entries.            *)
Fine(r, S) ==
  /\ DOMAIN r = Fields
  /\ r.waiter => r.batch = <<>>
  /\ r.pc \in {"join", "asleep", "woken"} => r.waiter
  /\ r.pc \in {"unlink", "signal"} /\ r.ok => EntriesOf(r) \subseteq S

AllFine(f, S) ==
  /\ DOMAIN f = Threads
  /\ \A t \in Threads : Fine(f[t], S)

(* The invariant of PebblesDB's write path: the thread that writes tables   *)
(* has read all of the immutable memtable, which stays as it is.            *)
PebblesInv ==
  /\ AllFine(w, Pebbles!Stored)
  /\ pBg = "built" => scan = UNION pImm /\ pImm # {}
  /\ PebblesNothingLost

(* Writers stay fine when more is stored.                                   *)
LEMMA FineGrows ==
  ASSUME NEW f, NEW S, NEW T, AllFine(f, S), S \subseteq T
  PROVE  AllFine(f, T)
BY DEF AllFine, Fine

(* A new writer is fine, and so is one that starts a call.                  *)
LEMMA NewIsFine ==
  ASSUME NEW S
  PROVE  /\ Fine(Pebbles!NewWriter, S)
         /\ Fine([Pebbles!NewWriter EXCEPT !.pc = "drain"], S)
         /\ \A b : Fine([Pebbles!NewWriter EXCEPT !.pc = "room", !.batch = b], S)
         /\ Fine([Pebbles!NewWriter EXCEPT !.pc = "join", !.waiter = TRUE], S)
<1> DEFINE r == Pebbles!NewWriter
<1>1. /\ DOMAIN r = Fields /\ r.pc = "idle" /\ r.batch = <<>>
      /\ r.waiter = FALSE /\ r.ok = TRUE
  BY DEF Pebbles!NewWriter, Fields
<1> HIDE DEF r
<1>2. Fine(r, S)
  BY <1>1 DEF Fine
<1>3. Fine([r EXCEPT !.pc = "drain"], S)
  BY <1>1 DEF Fine, Fields
<1>4. ASSUME NEW b PROVE Fine([r EXCEPT !.pc = "room", !.batch = b], S)
  BY <1>1 DEF Fine, Fields
<1>5. Fine([r EXCEPT !.pc = "join", !.waiter = TRUE], S)
  BY <1>1 DEF Fine, Fields
<1> QED BY <1>2, <1>3, <1>4, <1>5 DEF r

(* A writer that differs in its links only.                                 *)
Alike(r, q) ==
  /\ DOMAIN q = Fields /\ q.batch = r.batch /\ q.start = r.start
  /\ q.ok = r.ok /\ q.waiter = r.waiter

(* It is fine if it is at a place where it may be.                          *)
LEMMA AlikeFine ==
  ASSUME NEW r, NEW q, NEW S, Fine(r, S), Alike(r, q),
         \/ q.pc = r.pc
         \/ q.pc \notin {"join", "asleep", "woken", "unlink", "signal"}
         \/ q.pc \in {"join", "asleep", "woken"} /\ r.waiter
         \/ q.pc \in {"unlink", "signal"} /\ (r.ok => EntriesOf(r) \subseteq S)
  PROVE  Fine(q, S)
<1>1. EntriesOf(q) = EntriesOf(r)
  BY DEF Alike, EntriesOf
<1> QED BY <1>1 DEF Fine, Alike

(* Joining the list leaves the writers fine.                                *)
LEMMA LinkedFine ==
  ASSUME NEW f, NEW S, AllFine(f, S), NEW t \in Threads
  PROVE  AllFine(Pebbles!Linked(f, t), S)
<1> DEFINE g == Pebbles!Linked(f, t)
<1>1. ASSUME NEW u \in Threads PROVE Fine(g[u], S)
  <2>1. Fine(f[u], S) /\ DOMAIN f[u] = Fields
    BY DEF AllFine, Fine
  <2>2. Alike(f[u], g[u]) /\ g[u].pc = f[u].pc
    BY <2>1 DEF Pebbles!Linked, Alike, Fields
  <2> QED BY <2>1, <2>2, AlikeFine
<1>2. DOMAIN g = Threads
  BY DEF Pebbles!Linked
<1> QED BY <1>1, <1>2 DEF AllFine

(* So does leaving it.                                                      *)
LEMMA LinkedOutFine ==
  ASSUME NEW S, AllFine(w, S), NEW t \in Threads
  PROVE  /\ AllFine(Pebbles!LinkedOut(t), S)
         /\ Alike(w[t], Pebbles!LinkedOut(t)[t])
         /\ Pebbles!LinkedOut(t)[t].pc = w[t].pc
<1> DEFINE g == Pebbles!LinkedOut(t)
<1>1. ASSUME NEW u \in Threads
      PROVE  /\ Alike(w[u], g[u])
             /\ \/ g[u].pc = w[u].pc
                \/ u # t /\ g[u].pc = "woken" /\ w[u].pc = "asleep"
  <2>1. DOMAIN w[u] = Fields
    BY DEF AllFine, Fine
  <2>2. CASE u = t
    BY <2>1, <2>2 DEF Pebbles!LinkedOut, Alike, Fields
  <2>3. CASE u # t /\ u = w[t].prev
    BY <2>1, <2>3 DEF Pebbles!LinkedOut, Alike, Fields
  <2>4. CASE u # t /\ u # w[t].prev /\ u = w[t].next
    BY <2>1, <2>4 DEF Pebbles!LinkedOut, Alike, Fields
  <2>5. CASE u # t /\ u # w[t].prev /\ u # w[t].next
    BY <2>1, <2>5 DEF Pebbles!LinkedOut, Alike, Fields
  <2> QED BY <2>2, <2>3, <2>4, <2>5
<1>2. ASSUME NEW u \in Threads PROVE Fine(g[u], S)
  <2>1. Fine(w[u], S)
    BY DEF AllFine
  <2>2. w[u].pc = "asleep" => w[u].waiter
    BY <2>1 DEF Fine
  <2>3. "woken" \in {"join", "asleep", "woken"}
    OBVIOUS
  <2> QED BY <1>1, <2>1, <2>2, <2>3, AlikeFine
<1>3. DOMAIN g = Threads
  BY DEF Pebbles!LinkedOut
<1> QED BY <1>1, <1>2, <1>3 DEF AllFine

(* And so does SignalAll.                                                   *)
LEMMA SignalledFine ==
  ASSUME NEW f, NEW S, AllFine(f, S)
  PROVE  AllFine(Pebbles!SignalledAll(f), S)
<1> DEFINE g == Pebbles!SignalledAll(f)
<1>1. ASSUME NEW u \in Threads PROVE Fine(g[u], S)
  <2>1. Fine(f[u], S) /\ DOMAIN f[u] = Fields
    BY DEF AllFine, Fine
  <2>2. /\ Alike(f[u], g[u])
        /\ g[u].pc = f[u].pc \/ g[u].pc = "room" \/ g[u].pc = "drain"
    BY <2>1 DEF Pebbles!SignalledAll, Alike, Fields
  <2>3. /\ "room" \notin {"join", "asleep", "woken", "unlink", "signal"}
        /\ "drain" \notin {"join", "asleep", "woken", "unlink", "signal"}
    OBVIOUS
  <2> QED BY <2>1, <2>2, <2>3, AlikeFine
<1>2. DOMAIN g = Threads
  BY DEF Pebbles!SignalledAll
<1> QED BY <1>1, <1>2 DEF AllFine

(* One writer changes.                                                      *)
LEMMA OneChanges ==
  ASSUME NEW f, NEW S, AllFine(f, S), NEW t \in Threads, NEW r, Fine(r, S)
  PROVE  AllFine([f EXCEPT ![t] = r], S)
BY DEF AllFine

(* A call that ends is acknowledged when its entries are stored.            *)
LEMMA ReturnFine ==
  ASSUME NEW f, NEW S, AllFine(f, S), NEW t \in Threads, Pebbles!Return(f, t),
         f[t].ok => EntriesOf(w[t]) \subseteq S, pAcked \subseteq S
  PROVE  AllFine(w', S) /\ pAcked' \subseteq S
<1>1. Pebbles!Entries(t) = EntriesOf(w[t])
  BY DEF Pebbles!Entries, EntriesOf
<1>2. pAcked' \subseteq S
  BY <1>1 DEF Pebbles!Return
<1>3. \/ w' = [f EXCEPT ![t] = [Pebbles!NewWriter EXCEPT !.pc = "drain"]]
      \/ w' = [f EXCEPT ![t] = Pebbles!NewWriter]
  BY DEF Pebbles!Return
<1>4. PICK r : w' = [f EXCEPT ![t] = r] /\ Fine(r, S)
  BY <1>3, NewIsFine
<1>5. AllFine([f EXCEPT ![t] = r], S)
  BY <1>4, OneChanges
<1> QED BY <1>2, <1>4, <1>5

(* What a step has to show: nothing stored goes away, writers stay fine,    *)
(* and a table that is being written is of the whole memtable.              *)
LEMMA StepKeepsPebbles ==
  ASSUME PebblesInv, AllFine(w', Pebbles!Stored'), pAcked' \subseteq Pebbles!Stored',
         pBg' = "built" => scan' = UNION pImm' /\ pImm' # {}
  PROVE  PebblesInv'
BY DEF PebblesInv, PebblesNothingLost, Pebbles!NothingLost

(* A step that leaves the memtables and tables alone, and a writer that     *)
(* moves.                                                                   *)
LEMMA MoveKeepsPebbles ==
  ASSUME PebblesInv, NEW t \in Threads, NEW r, w' = [w EXCEPT ![t] = r],
         UNCHANGED <<pMem, pImm, pTables, pBg, scan, pAcked>>,
         Alike(w[t], r),
         r.pc \notin {"join", "asleep", "woken", "unlink", "signal"}
  PROVE  PebblesInv'
<1>1. /\ AllFine(w, Pebbles!Stored) /\ pAcked \subseteq Pebbles!Stored
      /\ pBg = "built" => scan = UNION pImm /\ pImm # {}
  BY DEF PebblesInv, PebblesNothingLost, Pebbles!NothingLost
<1>2. Pebbles!Stored' = Pebbles!Stored
  BY DEF Pebbles!Stored, Pebbles!ImmEntries
<1>3. Fine(r, Pebbles!Stored)
  BY <1>1, AlikeFine DEF AllFine
<1>4. AllFine(w', Pebbles!Stored)
  BY <1>1, <1>3, OneChanges
<1> QED BY <1>1, <1>2, <1>4, StepKeepsPebbles

(* The steps of a client.                                                   *)
LEMMA ClientKeepsPebbles ==
  ASSUME PebblesInv, NEW t \in Threads,
         \/ \E b \in PebblesBatches \union {<<>>} : Pebbles!StartWrite(t, b)
         \/ Pebbles!StartSnapshot(t) \/ Pebbles!Step(t)
  PROVE  PebblesInv'
<1> DEFINE S == Pebbles!Stored
<1>1. /\ AllFine(w, S) /\ pAcked \subseteq S
      /\ pBg = "built" => scan = UNION pImm /\ pImm # {}
      /\ Fine(w[t], S) /\ DOMAIN w[t] = Fields /\ DOMAIN w = Threads
  BY DEF PebblesInv, PebblesNothingLost, Pebbles!NothingLost, AllFine, Fine
<1>2. ASSUME UNCHANGED <<pMem, pImm, pTables>> PROVE Pebbles!Stored' = S
  BY <1>2 DEF Pebbles!Stored, Pebbles!ImmEntries
<1>3. ASSUME UNCHANGED <<pMem, pImm, pTables, scan>>, pBg' = pBg \/ pBg' = "run",
             AllFine(w', S), pAcked' \subseteq S
      PROVE  PebblesInv'
  <2>1. pBg' = "built" => scan' = UNION pImm' /\ pImm' # {}
    BY <1>1, <1>3
  <2> QED BY <1>2, <1>3, <2>1, StepKeepsPebbles
<1>4. ASSUME NEW r, w' = [w EXCEPT ![t] = r], Fine(r, S),
             UNCHANGED <<pMem, pImm, pTables, scan, pBg, pAcked>>
      PROVE  PebblesInv'
  <2>1. AllFine(w', S)
    BY <1>1, <1>4, OneChanges
  <2> QED BY <1>1, <1>3, <1>4, <2>1
<1> HIDE DEF S
<1>5. ASSUME NEW b, Pebbles!StartWrite(t, b) PROVE PebblesInv'
  <2>1. Fine([Pebbles!NewWriter EXCEPT !.pc = "room", !.batch = b], S)
    BY NewIsFine
  <2> QED BY <1>4, <1>5, <2>1 DEF Pebbles!StartWrite, Pebbles!data
<1>6. CASE Pebbles!StartSnapshot(t)
  <2>1. Fine([Pebbles!NewWriter EXCEPT !.pc = "join", !.waiter = TRUE], S)
    BY NewIsFine
  <2> QED BY <1>4, <1>6, <2>1 DEF Pebbles!StartSnapshot, Pebbles!data
<1>7. CASE Pebbles!RoomError(t) \/ Pebbles!RoomSwitchFails(t)
  BY <1>4, <1>7, NewIsFine
     DEF Pebbles!RoomError, Pebbles!RoomSwitchFails, Pebbles!data
<1>8. CASE Pebbles!RoomReady(t)
  <2> DEFINE r == [w[t] EXCEPT !.pc = "enqueue", !.log = logfile]
  <2>1. w' = [w EXCEPT ![t] = r]
    BY <1>1, <1>8 DEF Pebbles!RoomReady
  <2>2. Alike(w[t], r) /\ r.pc = "enqueue"
    BY <1>1 DEF Alike, Fields
  <2>3. UNCHANGED <<pMem, pImm, pTables, pBg, scan, pAcked>>
    BY <1>8 DEF Pebbles!RoomReady, Pebbles!data
  <2> HIDE DEF r
  <2> QED BY <2>1, <2>2, <2>3, MoveKeepsPebbles
<1>9. CASE Pebbles!RoomWait(t)
  <2> DEFINE r == [w[t] EXCEPT !.pc = "wait"]
  <2>1. w' = [w EXCEPT ![t] = r]
    BY <1>1, <1>9 DEF Pebbles!RoomWait
  <2>2. Alike(w[t], r) /\ r.pc = "wait"
    BY <1>1 DEF Alike, Fields
  <2>3. /\ UNCHANGED <<pMem, pImm, pTables, scan, pAcked>>
        /\ pBg' = pBg \/ pBg' = "run"
    BY <1>9 DEF Pebbles!RoomWait, Pebbles!BgSignalled
  <2> HIDE DEF r
  <2>4. Fine(r, S)
    BY <1>1, <2>2, AlikeFine
  <2>5. AllFine(w', S)
    BY <1>1, <2>1, <2>4, OneChanges
  <2> QED BY <1>1, <1>3, <2>3, <2>5
<1>10. CASE Pebbles!RoomSwitch(t)
  <2> DEFINE r == [w[t] EXCEPT !.pc = "enqueue", !.log = logfile', !.hasImm = TRUE]
  <2>1. w' = [w EXCEPT ![t] = r]
    BY <1>1, <1>10 DEF Pebbles!RoomSwitch
  <2>2. Alike(w[t], r) /\ r.pc = "enqueue"
    BY <1>1 DEF Alike, Fields
  <2>3. /\ pImm = {} /\ pImm' = {pMem} /\ pMem' = {} /\ pTables' = pTables
        /\ pBg' = pBg /\ scan' = scan /\ pAcked' = pAcked
    BY <1>10 DEF Pebbles!RoomSwitch
  <2> HIDE DEF r
  <2>4. Pebbles!Stored' = S
    BY <2>3 DEF S, Pebbles!Stored, Pebbles!ImmEntries
  <2>5. Fine(r, S)
    BY <1>1, <2>2, AlikeFine
  <2>6. AllFine(w', S)
    BY <1>1, <2>1, <2>5, OneChanges
  <2> QED BY <1>1, <2>3, <2>4, <2>6, StepKeepsPebbles
<1>11. CASE Pebbles!Enqueue(t)
  <2> DEFINE q == IF w[t].batch = <<>> THEN "end" ELSE "log"
             r == [w[t] EXCEPT !.pc = q, !.start = upper + 1, !.end = upper']
             f == [w EXCEPT ![t] = r]
  <2>1. w' = Pebbles!Linked(f, t)
    BY <1>1, <1>11 DEF Pebbles!Enqueue
  <2>2. UNCHANGED <<pMem, pImm, pTables, pBg, scan, pAcked>>
    BY <1>11 DEF Pebbles!Enqueue, Pebbles!data
  <2>3. /\ DOMAIN r = Fields /\ r.waiter = w[t].waiter /\ r.batch = w[t].batch
        /\ r.pc \in {"end", "log"}
    BY <1>1 DEF Fields
  <2> HIDE DEF r
  <2>4. Fine(r, S)
    BY <1>1, <2>3 DEF Fine
  <2>5. AllFine(f, S)
    BY <1>1, <2>4, OneChanges
  <2> HIDE DEF f
  <2>6. AllFine(w', S)
    BY <2>1, <2>5, LinkedFine
  <2> QED BY <1>1, <1>3, <2>2, <2>6
<1>12. CASE Pebbles!LogRecord(t)
  <2> DEFINE r == [w[t] EXCEPT !.pc = "end"]
  <2>1. w' = [w EXCEPT ![t] = r]
    BY <1>1, <1>12 DEF Pebbles!LogRecord
  <2>2. Alike(w[t], r) /\ r.pc = "end"
    BY <1>1 DEF Alike, Fields
  <2>3. UNCHANGED <<pMem, pImm, pTables, pBg, scan, pAcked>>
    BY <1>12 DEF Pebbles!LogRecord
  <2> HIDE DEF r
  <2> QED BY <2>1, <2>2, <2>3, MoveKeepsPebbles
<1>13. CASE Pebbles!LogFails(t)
  <2> DEFINE r == [w[t] EXCEPT !.pc = "end", !.ok = FALSE]
  <2>1. w' = [w EXCEPT ![t] = r]
    BY <1>1, <1>13 DEF Pebbles!LogFails
  <2>2. /\ DOMAIN r = Fields /\ r.waiter = w[t].waiter /\ r.batch = w[t].batch
        /\ r.pc = "end"
    BY <1>1 DEF Fields
  <2>3. UNCHANGED <<pMem, pImm, pTables, pBg, scan, pAcked>>
    BY <1>13 DEF Pebbles!LogFails
  <2> HIDE DEF r
  <2>4. Fine(r, S)
    BY <1>1, <2>2 DEF Fine
  <2> QED BY <1>4, <2>1, <2>3, <2>4
<1>14. CASE Pebbles!End(t)
  <2> DEFINE r == [w[t] EXCEPT !.pc = "unlink"]
             f == [w EXCEPT ![t] = r]
             T == Pebbles!Stored'
  <2>1. w' = Pebbles!SignalledAll(f) \/ w' = f
    BY <1>1, <1>14 DEF Pebbles!End
  <2>2. Alike(w[t], r) /\ r.pc = "unlink"
    BY <1>1 DEF Alike, Fields
  <2>3. /\ UNCHANGED <<pImm, pTables, pBg, scan, pAcked>>
        /\ IF w[t].ok THEN pMem' = pMem \union EntriesOf(w[t]) ELSE pMem' = pMem
    BY <1>14 DEF Pebbles!End, Pebbles!InsertIntoVersion, Pebbles!Entries, EntriesOf
  <2>4. S \subseteq T /\ (w[t].ok => EntriesOf(w[t]) \subseteq T)
    BY <2>3 DEF S, Pebbles!Stored, Pebbles!ImmEntries
  <2> HIDE DEF r, T
  <2>5. AllFine(w, T)
    BY <1>1, <2>4, FineGrows
  <2>6. Fine(r, T)
    BY <2>2, <2>4, <2>5, AlikeFine DEF AllFine
  <2>7. AllFine(f, T)
    BY <2>5, <2>6, OneChanges
  <2> HIDE DEF f
  <2>8. AllFine(w', T)
    BY <2>1, <2>7, SignalledFine
  <2>9. pAcked' \subseteq T
    BY <1>1, <2>3, <2>4
  <2> QED BY <1>1, <2>3, <2>8, <2>9, StepKeepsPebbles DEF T
<1>15. CASE Pebbles!Unlink(t) \/ Pebbles!WaitLeave(t)
  <2> DEFINE f == Pebbles!LinkedOut(t)
  <2>1. AllFine(f, S) /\ Alike(w[t], f[t]) /\ f[t].pc = w[t].pc
    BY <1>1, LinkedOutFine
  <2>2. /\ UNCHANGED <<pMem, pImm, pTables, pBg, scan>>
        /\ \/ w' = [f EXCEPT ![t].pc = "signal"] /\ pAcked' = pAcked
           \/ Pebbles!Return(f, t)
    BY <1>15 DEF Pebbles!Unlink, Pebbles!WaitLeave, Pebbles!data
  <2>3. w[t].ok => EntriesOf(w[t]) \subseteq S
    <3>1. CASE w[t].pc = "unlink"
      BY <1>1, <3>1 DEF Fine
    <3>2. CASE w[t].pc = "woken"
      <4>1. w[t].batch = <<>>
        BY <1>1, <3>2 DEF Fine
      <4> QED BY <4>1 DEF EntriesOf
    <3> QED BY <1>15, <3>1, <3>2 DEF Pebbles!Unlink, Pebbles!WaitLeave
  <2> HIDE DEF f
  <2>4. CASE w' = [f EXCEPT ![t].pc = "signal"] /\ pAcked' = pAcked
    <3> DEFINE r == [f[t] EXCEPT !.pc = "signal"]
    <3>1. w' = [f EXCEPT ![t] = r] /\ DOMAIN f[t] = Fields /\ Fine(f[t], S)
      BY <2>1, <2>4 DEF AllFine, Fine
    <3>2. Alike(f[t], r) /\ r.pc = "signal"
      BY <3>1 DEF Alike, Fields
    <3>3. EntriesOf(f[t]) = EntriesOf(w[t]) /\ f[t].ok = w[t].ok
      BY <2>1 DEF Alike, EntriesOf
    <3> HIDE DEF r
    <3>4. Fine(r, S)
      BY <2>3, <3>1, <3>2, <3>3, AlikeFine
    <3>5. AllFine(w', S)
      BY <2>1, <3>1, <3>4, OneChanges
    <3> QED BY <1>1, <1>3, <2>2, <2>4, <3>5
  <2>5. CASE Pebbles!Return(f, t)
    <3>1. f[t].ok => EntriesOf(w[t]) \subseteq S
      BY <2>1, <2>3 DEF Alike
    <3>2. AllFine(w', S) /\ pAcked' \subseteq S
      BY <1>1, <2>1, <2>5, <3>1, ReturnFine
    <3> QED BY <1>3, <2>2, <3>2
  <2> QED BY <2>2, <2>4, <2>5
<1>16. CASE Pebbles!SignalImm(t)
  <2> DEFINE r == [w[t] EXCEPT !.hasImm = FALSE]
             f == [w EXCEPT ![t] = r]
  <2>1. /\ UNCHANGED <<pMem, pImm, pTables, scan>> /\ w[t].pc = "signal"
        /\ pBg' = pBg \/ pBg' = "run"
        /\ Pebbles!Return(f, t)
    BY <1>1, <1>16 DEF Pebbles!SignalImm, Pebbles!BgSignalled
  <2>2. Alike(w[t], r) /\ r.pc = w[t].pc
    BY <1>1 DEF Alike, Fields
  <2>3. f[t] = r
    BY <1>1
  <2> HIDE DEF r
  <2>4. Fine(r, S)
    BY <1>1, <2>2, AlikeFine
  <2>5. AllFine(f, S)
    BY <1>1, <2>4, OneChanges
  <2> HIDE DEF f
  <2>6. f[t].ok => EntriesOf(w[t]) \subseteq S
    BY <1>1, <2>1, <2>2, <2>3 DEF Fine, Alike
  <2>7. AllFine(w', S) /\ pAcked' \subseteq S
    BY <1>1, <2>1, <2>5, <2>6, ReturnFine
  <2> QED BY <1>3, <2>1, <2>7
<1>17. CASE Pebbles!WaitJoin(t)
  <2> DEFINE q == IF writersTail = None THEN "woken" ELSE "asleep"
             r == [w[t] EXCEPT !.pc = q]
             f == [w EXCEPT ![t] = r]
  <2>1. w' = Pebbles!Linked(f, t) /\ w[t].pc = "join"
    BY <1>1, <1>17 DEF Pebbles!WaitJoin
  <2>2. UNCHANGED <<pMem, pImm, pTables, pBg, scan, pAcked>>
    BY <1>17 DEF Pebbles!WaitJoin, Pebbles!data
  <2>3. Alike(w[t], r) /\ r.pc \in {"woken", "asleep"}
    BY <1>1 DEF Alike, Fields
  <2> HIDE DEF r
  <2>4. Fine(r, S)
    BY <1>1, <2>1, <2>3, AlikeFine DEF Fine
  <2>5. AllFine(f, S)
    BY <1>1, <2>4, OneChanges
  <2> HIDE DEF f
  <2>6. AllFine(w', S)
    BY <2>1, <2>5, LinkedFine
  <2> QED BY <1>1, <1>3, <2>2, <2>6
<1>18. CASE Pebbles!Drain(t)
  <2> DEFINE r == [w[t] EXCEPT !.pc = "drainwait"]
  <2>1. w' = [w EXCEPT ![t] = r] \/ w' = [w EXCEPT ![t] = Pebbles!NewWriter]
    BY <1>1, <1>18 DEF Pebbles!Drain
  <2>2. Alike(w[t], r) /\ r.pc = "drainwait"
    BY <1>1 DEF Alike, Fields
  <2>3. UNCHANGED <<pMem, pImm, pTables, pBg, scan, pAcked>>
    BY <1>18 DEF Pebbles!Drain, Pebbles!data
  <2> HIDE DEF r
  <2>4. Fine(r, S)
    BY <1>1, <2>2, AlikeFine
  <2> QED BY <1>4, <2>1, <2>3, <2>4, NewIsFine
<1> QED BY <1>5, <1>6, <1>7, <1>8, <1>9, <1>10, <1>11, <1>12, <1>13, <1>14, <1>15,
           <1>16, <1>17, <1>18 DEF Pebbles!Step

(* The steps of the thread that writes tables.                              *)
LEMMA BackgroundKeepsPebbles ==
  ASSUME PebblesInv, Pebbles!Background
  PROVE  PebblesInv'
<1> DEFINE S == Pebbles!Stored
           T == Pebbles!Stored'
<1>1. /\ AllFine(w, S) /\ pAcked \subseteq S
      /\ pBg = "built" => scan = UNION pImm /\ pImm # {}
  BY DEF PebblesInv, PebblesNothingLost, Pebbles!NothingLost
<1>2. S \subseteq T
  BY <1>1 DEF Pebbles!Background, Pebbles!BgSleep, Pebbles!BgBuild, Pebbles!BgCommit,
     Pebbles!BgFails, Pebbles!Stored, Pebbles!ImmEntries
<1> HIDE DEF S, T
<1>3. w' = w \/ w' = Pebbles!SignalledAll(w)
  BY DEF Pebbles!Background, Pebbles!BgSleep, Pebbles!BgBuild, Pebbles!BgCommit,
     Pebbles!BgFails
<1>4. AllFine(w, T)
  BY <1>1, <1>2, FineGrows
<1>5. AllFine(w', T)
  BY <1>3, <1>4, SignalledFine
<1>6. pBg' = "built" => scan' = UNION pImm' /\ pImm' # {}
  BY DEF Pebbles!Background, Pebbles!BgSleep, Pebbles!BgBuild, Pebbles!BgCommit,
     Pebbles!BgFails, Pebbles!ImmEntries
<1>7. pAcked' \subseteq T
  BY <1>1, <1>2 DEF Pebbles!Background, Pebbles!BgSleep, Pebbles!BgBuild,
     Pebbles!BgCommit, Pebbles!BgFails
<1> QED BY <1>5, <1>6, <1>7, StepKeepsPebbles DEF T

(* PebblesDB never loses sight of an acknowledged entry (PebblesNothingLost *)
(* of PebblesWrite), for any number of threads, keys and batches.           *)
THEOREM PebblesLosesNothing == Pebbles!Spec => []PebblesNothingLost
<1>1. Pebbles!Init => PebblesInv
  <2> SUFFICES ASSUME Pebbles!Init PROVE PebblesInv
    OBVIOUS
  <2>1. /\ w = [t \in Threads |-> Pebbles!NewWriter] /\ pBg = "asleep"
        /\ pAcked = {}
    BY DEF Pebbles!Init
  <2>2. AllFine(w, Pebbles!Stored)
    BY <2>1, NewIsFine DEF AllFine
  <2> QED BY <2>1, <2>2 DEF PebblesInv, PebblesNothingLost, Pebbles!NothingLost
<1>2. PebblesInv /\ [Pebbles!Next]_(Pebbles!vars) => PebblesInv'
  <2> SUFFICES ASSUME PebblesInv, [Pebbles!Next]_(Pebbles!vars) PROVE PebblesInv'
    OBVIOUS
  <2>1. CASE UNCHANGED Pebbles!vars
    BY <2>1 DEF Pebbles!vars, PebblesInv, PebblesNothingLost, Pebbles!NothingLost,
       Pebbles!Stored, Pebbles!ImmEntries
  <2>2. CASE Pebbles!Done
    BY <2>1, <2>2 DEF Pebbles!Done
  <2> QED BY <2>1, <2>2, ClientKeepsPebbles, BackgroundKeepsPebbles DEF Pebbles!Next
<1>3. PebblesInv => PebblesNothingLost
  BY DEF PebblesInv
<1> QED BY <1>1, <1>2, <1>3, PTL DEF Pebbles!Spec
=============================================================================
