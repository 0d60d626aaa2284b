------------------------------- MODULE DBIter -------------------------------
(***************************************************************************)
(* A LevelDB iterator: DBIter (db/db_iter.cc), which shows each user key   *)
(* once and as of its sequence number, over a MergingIterator              *)
(* (table/merger.cc), which merges the iterators of the memtables and the  *)
(* tables.  The memtable is live: other threads insert into it between any *)
(* two steps of an operation.  What they insert is too new to be shown,    *)
(* but the iterators have to walk over it.                                 *)
(*                                                                         *)
(* An entry is [k, seq, t].  An operation of DBIter is a sequence of steps *)
(* of the MergingIterator; when that changes its direction its Next and    *)
(* Prev are two steps.                                                     *)
(***************************************************************************)
EXTENDS Integers, FiniteSets

CONSTANTS
  UserKeys,  \* numbers
  Initial,   \* how many updates were made before the iterator was opened
  MaxSeq,    \* bound on the updates
  Nil        \* no entry, no child, an iterator that is not valid

Types == {"value", "deletion"}
Sources == {"mem", "table"}
Entries == [k : UserKeys, seq : Nat, t : Types]

(* What the code assumes of its parameters. *)
DBIterAssumption ==
  /\ UserKeys \subseteq Nat /\ Initial \in Nat /\ MaxSeq \in Nat
  /\ Nil \notin UserKeys /\ Nil \notin Sources /\ Nil \notin Entries

VARIABLES
  store,     \* the entries of each child
  last,      \* sequence number of the last update
  sequence,  \* sequence_
  mi,        \* the MergingIterator: pos of each child, cur (current_), fwd
  it,        \* the DBIter: dir, valid, saved key and value, skipping, vtype
  pc,        \* the step DBIter does next
  half,      \* the MergingIterator is changing its direction
  target     \* the user key the operation has to arrive at

vars == <<store, last, sequence, mi, it, pc, half, target>>

-----------------------------------------------------------------------------
(* Internal keys and the iterators of the children.                        *)

\* InternalKeyComparator: user keys go up, sequence numbers down.
Before(a, b) == a.k < b.k \/ (a.k = b.k /\ a.seq > b.seq)

Least(S) ==
  IF S = {} THEN Nil ELSE CHOOSE a \in S : \A b \in S \ {a} : Before(a, b)
Greatest(S) ==
  IF S = {} THEN Nil ELSE CHOOSE a \in S : \A b \in S \ {a} : Before(b, a)

SeekIn(S, e) == Least({a \in S : ~Before(a, e)})

After(S, e) == Least({a \in S : Before(e, a)})
LessThan(S, e) == Greatest({a \in S : Before(a, e)})

-----------------------------------------------------------------------------
(* MergingIterator.                                                        *)

MValid(m) == m.cur # Nil
MEntry(m) == m.pos[m.cur]

FindSmallest(pos) ==
  [pos |-> pos, fwd |-> TRUE,
   cur |-> LET valid == {c \in Sources : pos[c] # Nil}
           IN  IF valid = {} THEN Nil
               ELSE CHOOSE c \in valid : pos[c] = Least({pos[d] : d \in valid})]

FindLargest(pos) ==
  [pos |-> pos, fwd |-> FALSE,
   cur |-> LET valid == {c \in Sources : pos[c] # Nil}
           IN  IF valid = {} THEN Nil
               ELSE CHOOSE c \in valid :
                      pos[c] = Greatest({pos[d] : d \in valid})]

MSeek(e) == FindSmallest([c \in Sources |-> SeekIn(store[c], e)])
MSeekToFirst == FindSmallest([c \in Sources |-> Least(store[c])])
MSeekToLast == FindLargest([c \in Sources |-> Greatest(store[c])])

\* A change of direction: the other children are taken to the current key.
MTurn(m) ==
  [m EXCEPT !.pos = [c \in Sources |->
     IF c = m.cur THEN @[c] ELSE SeekIn(store[c], MEntry(m))]]

\* The rest of Next and Prev; turned says that MTurn came before it.
MNext(m, turned) ==
  FindSmallest([c \in Sources |->
    IF c = m.cur \/ (turned /\ m.pos[c] = MEntry(m))
    THEN After(store[c], m.pos[c]) ELSE m.pos[c]])

(* Mutant: a change of direction leaves the other children where they are. *)
MPrevUnturned(m, turned) ==
  FindLargest([c \in Sources |->
    IF c = m.cur THEN LessThan(store[c], m.pos[c]) ELSE m.pos[c]])

MPrev(m, turned) ==
  FindLargest([c \in Sources |->
    CASE c = m.cur -> LessThan(store[c], m.pos[c])
      [] c # m.cur /\ turned /\ m.pos[c] # Nil -> LessThan(store[c], m.pos[c])
      [] c # m.cur /\ turned /\ m.pos[c] = Nil -> Greatest(store[c])
      [] OTHER -> m.pos[c]])

-----------------------------------------------------------------------------
(* DBIter.  A result is the DBIter and the step it does next.              *)

Visible(e) == e.seq <= sequence

\* The body of the loop of FindNextUserEntry, and its end.
FindNextUserEntry(d, m) ==
  IF ~MValid(m)
  THEN [d |-> [d EXCEPT !.valid = FALSE, !.key = Nil], pc |-> "idle"]
  ELSE LET e == MEntry(m)
       IN  CASE Visible(e) /\ e.t = "deletion" ->
                  [d |-> [d EXCEPT !.key = e.k, !.skipping = TRUE],
                   pc |-> "next"]
             [] Visible(e) /\ e.t = "value"
                  /\ ~(d.skipping /\ e.k <= d.key) ->
                  [d |-> [d EXCEPT !.valid = TRUE, !.key = Nil],
                   pc |-> "idle"]
             [] OTHER -> [d |-> d, pc |-> "next"]

EndPrev(d) ==
  [d |-> IF d.vtype = "deletion"
         THEN [d EXCEPT !.valid = FALSE, !.key = Nil, !.value = Nil,
                        !.dir = "forward"]
         ELSE [d EXCEPT !.valid = TRUE],
   pc |-> "idle"]

\* The body of the loop of FindPrevUserEntry, and its end.
FindPrevUserEntry(d, m) ==
  LET e == MEntry(m)
      more(x) == [d |-> x, pc |-> "prev"]
  IN  CASE ~MValid(m) -> EndPrev(d)
        [] MValid(m) /\ ~Visible(e) -> more(d)
        [] MValid(m) /\ Visible(e) ->
             CASE d.vtype # "deletion" /\ e.k < d.key -> EndPrev(d)
               [] ~(d.vtype # "deletion" /\ e.k < d.key)
                    /\ e.t = "deletion" ->
                    more([d EXCEPT !.vtype = e.t, !.key = Nil, !.value = Nil])
               [] OTHER -> more([d EXCEPT !.vtype = e.t, !.key = e.k,
                                          !.value = e.seq])

\* The loop of Prev that leaves the entries of the current key behind.
LeaveKey(d, m) ==
  CASE ~MValid(m) ->
         [d |-> [d EXCEPT !.valid = FALSE, !.key = Nil, !.value = Nil],
          pc |-> "idle"]
    [] MValid(m) /\ MEntry(m).k >= d.key -> [d |-> d, pc |-> "leave"]
    [] OTHER -> FindPrevUserEntry(
                  [d EXCEPT !.dir = "reverse", !.vtype = "deletion"], m)

Go(m, r) ==
  /\ mi' = m
  /\ it' = r.d
  /\ pc' = r.pc
  /\ half' = FALSE
  /\ UNCHANGED <<store, last, sequence>>

-----------------------------------------------------------------------------
(* What the iterator has to show: the keys that have a value as of sequence. *)

AllEntries == store["mem"] \cup store["table"]
NewestOf(k) ==
  LET es == {e \in AllEntries : e.k = k /\ Visible(e)}
  IN  CHOOSE e \in es : \A f \in es : f.seq <= e.seq
Shown ==
  {k \in {e.k : e \in {a \in AllEntries : Visible(a)}} :
     NewestOf(k).t = "value"}

Key == IF it.dir = "forward" THEN MEntry(mi).k ELSE it.key
Value == IF it.dir = "forward" THEN MEntry(mi).seq ELSE it.value

SmallestOf(K) == IF K = {} THEN Nil ELSE CHOOSE k \in K : \A j \in K : k <= j
LargestOf(K) == IF K = {} THEN Nil ELSE CHOOSE k \in K : \A j \in K : k >= j

-----------------------------------------------------------------------------
\* The updates before the iterator was opened are in the table or, from some
\* sequence number on, in the memtable.
InitStore ==
  /\ \E u \in [1..Initial -> [k : UserKeys, t : Types]],
        flushed \in 0..Initial :
       LET entry(i) == [k |-> u[i].k, seq |-> i, t |-> u[i].t]
       IN  store = [c \in Sources |->
                      IF c = "table" THEN {entry(i) : i \in 1..flushed}
                      ELSE {entry(i) : i \in flushed + 1..Initial}]
  /\ last = Initial
  /\ sequence \in 0..Initial

InitIter ==
  /\ mi = [pos |-> [c \in Sources |-> Nil], cur |-> Nil, fwd |-> TRUE]
  /\ it = [dir |-> "forward", valid |-> FALSE, key |-> Nil, value |-> Nil,
           skipping |-> FALSE, vtype |-> "deletion"]
  /\ pc = "idle" /\ half = FALSE /\ target = Nil

Init == InitStore /\ InitIter

SeekToFirst ==
  /\ pc = "idle"
  /\ target' = SmallestOf(Shown)
  /\ LET d == [it EXCEPT !.dir = "forward", !.value = Nil, !.skipping = FALSE]
     IN  Go(MSeekToFirst, FindNextUserEntry(d, MSeekToFirst))

Seek(k) ==
  LET d == [it EXCEPT !.dir = "forward", !.value = Nil, !.key = Nil,
                      !.skipping = FALSE]
      m == MSeek([k |-> k, seq |-> sequence])
  IN  /\ pc = "idle"
      /\ target' = SmallestOf({j \in Shown : j >= k})
      /\ Go(m, FindNextUserEntry(d, m))

SeekToLast ==
  /\ pc = "idle"
  /\ target' = LargestOf(Shown)
  /\ LET d == [it EXCEPT !.dir = "reverse", !.value = Nil,
                         !.vtype = "deletion"]
     IN  Go(MSeekToLast, FindPrevUserEntry(d, MSeekToLast))

Next_ ==
  /\ pc = "idle" /\ it.valid
  /\ target' = SmallestOf({j \in Shown : j > Key})
  /\ LET d == [it EXCEPT !.dir = "forward", !.skipping = TRUE, !.key = Key]
     IN  IF it.dir = "reverse" /\ ~MValid(mi)
         THEN Go(MSeekToFirst, FindNextUserEntry(d, MSeekToFirst))
         ELSE Go(mi, [d |-> d, pc |-> "next"])

Prev ==
  /\ pc = "idle" /\ it.valid
  /\ target' = LargestOf({j \in Shown : j < Key})
  /\ Go(mi, IF it.dir = "forward"
            THEN [d |-> [it EXCEPT !.key = Key], pc |-> "leave"]
            ELSE FindPrevUserEntry([it EXCEPT !.vtype = "deletion"], mi))

\* A step in progress: iter_->Next() or iter_->Prev() and what follows it.
Turn ==
  /\ ~half
  /\ (pc = "next" /\ ~mi.fwd) \/ (pc \in {"prev", "leave"} /\ mi.fwd)
  /\ half' = TRUE
  /\ mi' = MTurn(mi)
  /\ UNCHANGED <<store, last, sequence, it, pc, target>>

MoveNext ==
  /\ pc = "next" /\ (half \/ mi.fwd)
  /\ LET m == MNext(mi, half) IN Go(m, FindNextUserEntry(it, m))
  /\ UNCHANGED target

MovePrev ==
  /\ pc \in {"prev", "leave"} /\ (half \/ ~mi.fwd)
  /\ LET m == MPrev(mi, half)
     IN  Go(m, IF pc = "prev" THEN FindPrevUserEntry(it, m)
               ELSE LeaveKey(it, m))
  /\ UNCHANGED target

\* Another thread writes.
Insert ==
  /\ last < MaxSeq
  /\ last' = last + 1
  /\ \E k \in UserKeys, t \in Types :
       store' = [store EXCEPT !["mem"] =
                   @ \cup {[k |-> k, seq |-> last + 1, t |-> t]}]
  /\ UNCHANGED <<sequence, mi, it, pc, half, target>>

Step == Turn \/ MoveNext \/ MovePrev

Next ==
  \/ SeekToFirst \/ SeekToLast \/ Next_ \/ Prev
  \/ \E k \in UserKeys : Seek(k)
  \/ Step
  \/ Insert

Spec == Init /\ [][Next]_vars

-----------------------------------------------------------------------------
(***************************************************************************)
(* The iterator shows the map as it was at sequence_: each operation       *)
(* arrives at the key the map says, with the value it had, or is not valid *)
(* when there is none; whatever deletions, older and newer entries lie in  *)
(* between, in whatever order it was moved, and whatever others inserted   *)
(* while it was moving.                                                    *)
(***************************************************************************)
ShowsSnapshot ==
  pc = "idle" =>
    /\ it.valid <=> target # Nil
    /\ it.valid => Key = target /\ Value = NewestOf(target).seq

(***************************************************************************)
(* What the comment at Direction says: moving forward, iter_ is at the     *)
(* entry shown; moving backwards, just before all entries of the key shown *)
(* that were there when the iterator came to it.                           *)
(***************************************************************************)
BeforeKeyInReverse ==
  (pc = "idle" /\ it.valid /\ it.dir = "reverse") =>
    /\ MValid(mi) => MEntry(mi).k < it.key
    /\ \A e \in AllEntries : Visible(e) /\ MValid(mi) /\ Before(MEntry(mi), e)
                               => e.k >= it.key
=============================================================================
