------------------------------ MODULE LRUCache ------------------------------
(***************************************************************************)
(* One shard of LevelDB's LRU cache (util/cache.cc) with the threads that  *)
(* use it the way TableCache::FindTable and Table::BlockReader do: look a  *)
(* key up, on a miss load the value without holding the mutex, insert it,  *)
(* use it through the handle and release the handle.  Meanwhile others     *)
(* may load the same key, erase it (TableCache::Evict) or prune the cache. *)
(*                                                                         *)
(* An entry is a piece of memory, a slot, which is used again after free;  *)
(* a handle is a pointer to it.  The hash table is a map.                  *)
(***************************************************************************)
EXTENDS Integers, FiniteSets, SequencesExt

CONSTANTS
  Keys,
  Threads,
  Slots,      \* memory for entries, enough for all keys and all handles
  Charges,    \* the charges of values
  Capacities, \* what the cache may be created with
  None        \* the null pointer

(* What the model assumes of its parameters.                                *)
CacheAssumption ==
  /\ IsFiniteSet(Keys) /\ IsFiniteSet(Threads) /\ IsFiniteSet(Slots)
  /\ Cardinality(Slots) >= Cardinality(Keys) + Cardinality(Threads)
  /\ Charges \subseteq Nat /\ Capacities \subseteq Nat
  /\ None \notin Keys \cup Slots

VARIABLES
  c,        \* the cache
  capacity, \* capacity_
  pc,       \* what each thread is doing
  want,     \* the key it wants or has
  handle    \* the handle it holds

vars == <<c, capacity, pc, want, handle>>

-----------------------------------------------------------------------------
(* The cache: refs (0 is freed memory), in_cache, key and charge of each    *)
(* slot; the lists lru and in_use, the latter without an order; the hash    *)
(* table; usage.                                                            *)

Empty ==
  [refs |-> [e \in Slots |-> 0], in_cache |-> [e \in Slots |-> FALSE],
   key |-> [e \in Slots |-> None], charge |-> [e \in Slots |-> 0],
   lru |-> <<>>, in_use |-> {}, table |-> [k \in Keys |-> None], usage |-> 0]

\* LRU_Remove, of an entry that may be on the list s.
LRU_Remove(s, e) ==
  IF \E i \in DOMAIN s : s[i] = e
  THEN RemoveAt(s, CHOOSE i \in DOMAIN s : s[i] = e) ELSE s

Ref(d, e) ==
  LET move == d.refs[e] = 1 /\ d.in_cache[e]
  IN  [d EXCEPT !.refs[e] = @ + 1,
                !.lru = IF move THEN LRU_Remove(@, e) ELSE @,
                !.in_use = IF move THEN @ \cup {e} ELSE @]

Unref(d, e) ==
  LET n == d.refs[e] - 1
      move == d.in_cache[e] /\ n = 1
  IN  [d EXCEPT !.refs[e] = n,
                !.key[e] = IF n = 0 THEN None ELSE @,
                !.charge[e] = IF n = 0 THEN 0 ELSE @,
                !.in_use = IF move THEN @ \ {e} ELSE @,
                !.lru = IF move THEN Append(@, e) ELSE @]

(* Mutant: the entry is freed although a client still has a handle.         *)
FinishEraseFrees(d, e) ==
  IF e = None THEN d
  ELSE [d EXCEPT !.lru = LRU_Remove(@, e), !.in_use = @ \ {e},
                 !.in_cache[e] = FALSE, !.refs[e] = 0, !.key[e] = None,
                 !.usage = @ - d.charge[e], !.charge[e] = 0]

\* e has been taken out of the hash table.
FinishErase(d, e) ==
  IF e = None THEN d
  ELSE Unref([d EXCEPT !.lru = LRU_Remove(@, e), !.in_use = @ \ {e},
                       !.in_cache[e] = FALSE, !.usage = @ - d.charge[e]], e)

TableRemove(d, k) == FinishErase([d EXCEPT !.table[k] = None], d.table[k])

\* A round of the loops of Insert and Prune.
EvictOldest(d) ==
  IF d.lru = <<>> THEN d ELSE TableRemove(d, d.key[Head(d.lru)])

\* The loop of Insert: the oldest entries go until the rest fits.  A round
\* takes one off lru and puts none on it.
EvictToCapacity(d) ==
  LET after[n \in 0..Len(d.lru)] ==
        IF n = 0 THEN d
        ELSE LET s == after[n - 1]
             IN  IF s.usage > capacity THEN EvictOldest(s) ELSE s
  IN  after[Len(d.lru)]

\* The loop of Prune.
EvictAll(d) ==
  LET after[n \in 0..Len(d.lru)] ==
        IF n = 0 THEN d ELSE EvictOldest(after[n - 1])
  IN  after[Len(d.lru)]

Insert(d, e, k, charge) ==
  LET new == [d EXCEPT !.key[e] = k, !.charge[e] = charge, !.refs[e] = 1]
      cached == [new EXCEPT !.refs[e] = 2, !.in_cache[e] = TRUE,
                            !.in_use = @ \cup {e}, !.usage = @ + charge,
                            !.table[k] = e]
  IN  EvictToCapacity(IF capacity > 0 THEN FinishErase(cached, d.table[k])
                      ELSE new)

-----------------------------------------------------------------------------
Init ==
  /\ c = Empty
  /\ capacity \in Capacities
  /\ pc = [t \in Threads |-> "idle"]
  /\ want = [t \in Threads |-> None]
  /\ handle = [t \in Threads |-> None]

\* FindTable and BlockReader, up to the miss.
Lookup(t, k) ==
  LET e == c.table[k]
  IN  /\ pc[t] = "idle"
      /\ c' = IF e # None THEN Ref(c, e) ELSE c
      /\ handle' = [handle EXCEPT ![t] = e]
      /\ pc' = [pc EXCEPT ![t] = IF e # None THEN "using" ELSE "loading"]
      /\ want' = [want EXCEPT ![t] = k]
      /\ UNCHANGED capacity

\* Freed memory is used again at once.
Malloc == CHOOSE e \in Slots : c.refs[e] = 0

\* The file was opened, or the block read.
InsertLoaded(t) ==
  /\ pc[t] = "loading"
  /\ \E charge \in Charges : c' = Insert(c, Malloc, want[t], charge)
  /\ handle' = [handle EXCEPT ![t] = Malloc]
  /\ pc' = [pc EXCEPT ![t] = "using"]
  /\ UNCHANGED <<capacity, want>>

\* It could not be, or fill_cache is off: nothing is cached.
LoadNotCached(t) ==
  /\ pc[t] = "loading"
  /\ pc' = [pc EXCEPT ![t] = "idle"]
  /\ want' = [want EXCEPT ![t] = None]
  /\ UNCHANGED <<c, capacity, handle>>

Release(t) ==
  /\ pc[t] = "using"
  /\ c' = Unref(c, handle[t])
  /\ handle' = [handle EXCEPT ![t] = None]
  /\ pc' = [pc EXCEPT ![t] = "idle"]
  /\ want' = [want EXCEPT ![t] = None]
  /\ UNCHANGED capacity

Erase(k) ==
  /\ c' = TableRemove(c, k)
  /\ UNCHANGED <<capacity, pc, want, handle>>

Prune ==
  /\ c' = EvictAll(c)
  /\ UNCHANGED <<capacity, pc, want, handle>>

Next ==
  \/ \E t \in Threads :
       \/ \E k \in Keys : Lookup(t, k)
       \/ InsertLoaded(t) \/ LoadNotCached(t) \/ Release(t)
  \/ \E k \in Keys : Erase(k)
  \/ Prune

Spec == Init /\ [][Next]_vars

-----------------------------------------------------------------------------
Holders(e) == {t \in Threads : handle[t] = e}

(***************************************************************************)
(* Memory: the entry a thread has a handle of is not freed, and given to   *)
(* another key, under it, whatever was erased, replaced or evicted; and an *)
(* entry that neither the cache nor a thread refers to is freed, so that   *)
(* its deleter has run (LRUCache::Unref).                                  *)
(***************************************************************************)
HandlesValid ==
  /\ \A t \in Threads : pc[t] = "using" => c.key[handle[t]] = want[t]
  /\ \A e \in Slots :
       c.refs[e] = Cardinality(Holders(e)) + (IF c.in_cache[e] THEN 1 ELSE 0)

(***************************************************************************)
(* The lists and the table agree (comments at lru_ and in_use_): the       *)
(* cached entries are those of the table, each under its own key; lru_ has *)
(* the ones no thread uses, in_use_ the others; usage_ is the sum of their *)
(* charges, here the number of their units of charge.                      *)
(***************************************************************************)
ListsExact ==
  LET cached == {e \in Slots : c.in_cache[e]}
      idle == {e \in cached : Holders(e) = {}}
  IN  /\ \A k \in Keys, e \in Slots :
           c.table[k] = e <=> e \in cached /\ c.key[e] = k
      /\ ToSet(c.lru) = idle /\ Len(c.lru) = Cardinality(idle)
      /\ c.in_use = cached \ idle
      /\ c.usage = Cardinality(UNION {{e} \X (1..c.charge[e]) : e \in cached})

=============================================================================
