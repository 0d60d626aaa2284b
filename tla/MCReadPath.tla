----------------------------- MODULE MCReadPath -----------------------------
(* What a read goes through in memory, each part on its own: the merging    *)
(* iterator and the DBIter above it, the skip list of a memtable, the       *)
(* iterator over a block, and the cache that holds tables and blocks.       *)
EXTENDS ReadPath, Sequences, TLC

CONSTANTS
  Intervals, MaxEntries  \* BlockIter

(* Keys of one or two bytes in bytewise order: several share a prefix, one  *)
(* is a prefix of others.                                                   *)
ShortKeys == {<<0>>, <<0, 0>>, <<0, 1>>, <<1>>, <<1, 0>>, <<1, 1>>}

Bytewise(a, b) ==
  \E i \in 1..Len(b) :
    /\ \A j \in 1..(i - 1) : j \in DOMAIN a /\ a[j] = b[j]
    /\ i > Len(a) \/ (i \in DOMAIN a /\ a[i] < b[i])

(* Threads of the cache are interchangeable, and so are its keys.           *)
Symmetric == Permutations(Threads) \cup Permutations(CacheKeys)

VARIABLES
  part,
  interval, bKeys, entries, restarts, counter, last_key, finished, damaged,
  bIt, bWant

blockVars == <<interval, bKeys, entries, restarts, counter, last_key, finished,
               damaged, bIt, bWant>>

Block == INSTANCE BlockIter WITH
  Keys <- ShortKeys, Less <- Bytewise, keys <- bKeys, it <- bIt, want <- bWant

ASSUME Block!BlockIterAssumption

-----------------------------------------------------------------------------
(* A part that is not looked at has one of its initial states.              *)
MCInit ==
  /\ part \in {"merger", "iterator", "list", "block", "cache"}
  /\ IF part = "merger" THEN Init
     ELSE content = [d \in Children |-> {}] /\ Init
  /\ IF part = "iterator" THEN DB!InitStore
     ELSE store = [d \in DB!Sources |-> {}] /\ last = 0 /\ sequence = 0
  /\ DB!InitIter
  /\ List!Init
  /\ Block!Init /\ (part = "block" \/ interval = 1)
  /\ Cache!Init /\ (part = "cache" \/ capacity = 0)

MergerStep ==
  /\ part = "merger" /\ Next
  /\ UNCHANGED <<part, iterVars, listVars, blockVars, cacheVars>>

DBIterStep ==
  /\ part = "iterator" /\ DB!Next
  /\ UNCHANGED <<part, vars, listVars, blockVars, cacheVars>>

ListStep ==
  /\ part = "list" /\ List!Next
  /\ UNCHANGED <<part, vars, iterVars, blockVars, cacheVars>>

BlockStep ==
  /\ part = "block" /\ Block!Next
  /\ UNCHANGED <<part, vars, iterVars, listVars, cacheVars>>

CacheStep ==
  /\ part = "cache" /\ Cache!Next
  /\ UNCHANGED <<part, vars, iterVars, listVars, blockVars>>

MCNext == MergerStep \/ DBIterStep \/ ListStep \/ BlockStep \/ CacheStep

MCSpec ==
  MCInit /\ [][MCNext]_<<part, vars, iterVars, listVars, blockVars, cacheVars>>

-----------------------------------------------------------------------------
(* After any sequence of moves an iterator over a block is at the entry     *)
(* asked for, with the key that was added, or reports corruption; over a    *)
(* block without damage it never does.                                      *)
BlockReads == Block!ArrivesAtKey /\ Block!NoFalseCorruption
=============================================================================
