------------------------------ MODULE SkipList ------------------------------
(***************************************************************************)
(* The memtable's skip list (db/skiplist.h): one thread inserts, others    *)
(* search and walk without a lock.  The links are written with release     *)
(* stores and read with acquire loads, max_height_ is relaxed.             *)
(*                                                                         *)
(* With a single writer this memory order needs one clock, which counts    *)
(* the writer's stores.  A link keeps all values it ever had with the time *)
(* of their stores; a reader has seen the stores up to some time, may read *)
(* any value of a link that it has not seen overwritten, and has seen what *)
(* the writer had stored before, once it has read it.  Readers do not      *)
(* write, so that one reader shows what all can see.                       *)
(***************************************************************************)
EXTENDS Integers, FiniteSets, FiniteSetsExt

CONSTANTS
  Keys,      \* positive numbers; a node is named by its key
  MaxHeight  \* kMaxHeight

(* What the code assumes of its parameters. *)
SkipListAssumption ==
  Keys \subseteq Nat \ {0} /\ IsFiniteSet(Keys) /\ MaxHeight \in Nat \ {0}

Head == 0                        \* head_, which sorts before all keys
Null == Max(Keys \cup {0}) + 1  \* sorts after all keys
Garbage == -1                   \* what memory from the arena holds
Levels == 0..MaxHeight - 1

VARIABLES
  clock,    \* stores made by the writer
  links,    \* for each node and level the values stored: [val, time]
  heights,  \* the values max_height_ had
  ins,      \* the Insert in progress: key, height, prev, next level
  present,  \* the keys whose Insert has returned, with the time of that
  rd        \* the reader

vars == <<clock, links, heights, ins, present, rd>>

Idle == [key |-> 0, height |-> 0, prev |-> [l \in Levels |-> Head], level |-> 0]

-----------------------------------------------------------------------------
(* The writer.                                                             *)

Latest(n, l) ==
  LET vs == links[n][l]
  IN  (CHOOSE v \in vs : \A w \in vs : w.time <= v.time).val

\* The nodes of level l, as the writer knows them.
OnLevel(l) == {n \in Keys : Latest(n, l) # Garbage}

\* prev[l] as FindGreaterOrEqual leaves it, and head_ above the old height.
PrevOf(k, l) == Max({Head} \cup {n \in OnLevel(l) : n < k})

Init ==
  /\ clock = 0
  /\ links = [n \in Keys \cup {Head} |-> [l \in Levels |->
                {[val |-> IF n = Head THEN Null ELSE Garbage, time |-> 0]}]]
  /\ heights = {1}
  /\ ins = Idle
  /\ present = {}
  /\ rd = [op |-> "idle", key |-> 0, x |-> Head, level |-> 0, seen |-> 0,
           from |-> 0, result |-> Head, done |-> FALSE]

\* Insert, up to the store to max_height_.
BeginInsert(k, h) ==
  /\ ins.key = 0
  /\ k \notin OnLevel(0)
  /\ heights' = IF h > Max(heights) THEN heights \cup {h} ELSE heights
  /\ ins' = [key |-> k, height |-> h,
             prev |-> [l \in Levels |-> PrevOf(k, l)], level |-> 0]
  /\ UNCHANGED <<clock, links, present, rd>>

\* One turn of the loop: the node's link, then the link to the node.
Link ==
  LET l == ins.level
      p == ins.prev[l]
  IN  /\ ins.key # 0 /\ l < ins.height
      /\ links' = [links EXCEPT
           ![ins.key][l] = @ \cup {[val |-> Latest(p, l), time |-> clock + 1]},
           ![p][l] = @ \cup {[val |-> ins.key, time |-> clock + 2]}]
      /\ clock' = clock + 2
      /\ ins' = [ins EXCEPT !.level = l + 1]
      /\ UNCHANGED <<heights, present, rd>>

EndInsert ==
  /\ ins.key # 0 /\ ins.level = ins.height
  /\ present' = present \cup {[key |-> ins.key, time |-> clock]}
  /\ ins' = Idle
  /\ UNCHANGED <<clock, links, heights, rd>>

-----------------------------------------------------------------------------
(* The reader.                                                             *)

\* What Next(l) of node n may return to a reader that has seen the stores up
\* to time seen.
Readable(n, l, seen) ==
  {v \in links[n][l] :
     ~\E w \in links[n][l] : v.time < w.time /\ w.time <= seen}

\* The reader may have met the writer's lock since its last operation (a Get
\* or NewIterator takes mutex_), and then has seen everything.
Sees(r) == {r.seen, clock}

\* FindGreaterOrEqual, FindLessThan and FindLast begin at the top, with
\* whatever value of max_height_ they read.
BeginSearch(op, k) ==
  /\ rd.op = "idle"
  /\ \E s \in Sees(rd), h \in heights :
       rd' = [op |-> op, key |-> k, x |-> Head, level |-> h - 1, seen |-> s,
              from |-> s, result |-> rd.result, done |-> FALSE]
  /\ UNCHANGED <<clock, links, heights, ins, present>>

\* Iterator::Next from the node the last operation found.
BeginNext ==
  /\ rd.op = "idle" /\ rd.result \in Keys
  /\ \E s \in Sees(rd) :
       rd' = [rd EXCEPT !.op = "next", !.key = rd.result, !.x = rd.result,
                        !.level = 0, !.seen = s, !.from = s]
  /\ UNCHANGED <<clock, links, heights, ins, present>>

KeyIsAfterNode(key, n) == n # Null /\ n < key

\* Whether the search goes on to n on the level it is on.
Advances(n) ==
  CASE rd.op = "ge" -> KeyIsAfterNode(rd.key, n)
    [] rd.op = "lt" -> ~(n = Null \/ n >= rd.key)
    [] rd.op = "last" -> n # Null
    [] rd.op = "next" -> FALSE

(* Mutant: the load is relaxed.                                            *)
SeenAfterRelaxed(v) == rd.seen

\* The load is an acquire load.
SeenAfter(v) == Max({rd.seen, v.time})

\* One turn of the loop of a search.
SearchStep ==
  /\ rd.op # "idle" /\ ~rd.done
  /\ \E v \in Readable(rd.x, rd.level, rd.seen) :
       LET s == [rd EXCEPT !.seen = SeenAfter(v)]
       IN  rd' = CASE Advances(v.val) -> [s EXCEPT !.x = v.val]
                   [] ~Advances(v.val) /\ rd.level > 0 ->
                        [s EXCEPT !.level = @ - 1]
                   [] OTHER ->
                        [s EXCEPT !.done = TRUE, !.result =
                           IF rd.op \in {"ge", "next"} THEN v.val ELSE rd.x]
  /\ UNCHANGED <<clock, links, heights, ins, present>>

\* The caller goes on with the result.
EndSearch ==
  /\ rd.done
  /\ rd' = [rd EXCEPT !.op = "idle", !.done = FALSE, !.key = 0, !.x = Head,
                      !.from = 0]
  /\ UNCHANGED <<clock, links, heights, ins, present>>

Next ==
  \/ \E k \in Keys, h \in 1..MaxHeight : BeginInsert(k, h)
  \/ Link \/ EndInsert
  \/ \E k \in Keys : BeginSearch("ge", k) \/ BeginSearch("lt", k)
  \/ BeginSearch("last", 0)
  \/ BeginNext \/ SearchStep \/ EndSearch

Spec == Init /\ [][Next]_vars

-----------------------------------------------------------------------------
(* The keys inserted before the reader's operation, as far as it had met   *)
(* the writer's lock.                                                      *)
Known == {p.key : p \in {q \in present : q.time <= rd.from}}

(* Keys of which some link has been stored.                                *)
Linked == OnLevel(0)

(***************************************************************************)
(* A reader reaches a node only through a link that was stored after the   *)
(* node's own links on that level and below, and so never follows a link   *)
(* that has no value yet (NoBarrier_SetNext before SetNext in Insert).     *)
(***************************************************************************)
LinksInitialized ==
  rd.op # "idle" /\ ~rd.done =>
    \A l \in 0..rd.level : \A v \in Readable(rd.x, l, rd.seen) :
      v.val # Garbage

(***************************************************************************)
(* A search finds the key it looks for or its neighbour among the keys     *)
(* that were there when it began, unless an Insert that runs meanwhile put *)
(* a key in between; with stale values of max_height_ and of links.        *)
(***************************************************************************)
FindsNeighbour ==
  LET r == rd.result
  IN  /\ rd.done /\ rd.op = "ge" =>
           /\ r \in Linked \cup {Null} /\ r >= rd.key
           /\ \A k \in Known : k >= rd.key => r <= k
      /\ rd.done /\ rd.op = "next" =>
           /\ r \in Linked \cup {Null} /\ r > rd.key
           /\ \A k \in Known : k > rd.key => r <= k
      /\ rd.done /\ rd.op = "lt" =>
           /\ r \in Linked \cup {Head} /\ r < rd.key
           /\ \A k \in Known : k < rd.key => r >= k
      /\ rd.done /\ rd.op = "last" =>
           /\ r \in Linked \cup {Head}
           /\ \A k \in Known : r >= k
=============================================================================
