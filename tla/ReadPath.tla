------------------------------ MODULE ReadPath ------------------------------
(***************************************************************************)
(* Parts a read goes through in memory, which do not interact here: the    *)
(* merging iterator (Merger), and with their promises the skip list of a   *)
(* memtable, the DBIter above a merging iterator, and the cache that holds  *)
(* tables and blocks.                                                      *)
(***************************************************************************)
EXTENDS Merger

CONSTANTS
  NodeKeys, MaxHeight,                            \* SkipList
  UserKeys, Initial, MaxSeq, Nil,                 \* DBIter
  CacheKeys, Threads, Slots, Charges, Capacities  \* LRUCache

VARIABLES
  clock, links, heights, ins, present, rd,
  store, last, sequence, mi, dbIt, dbPc, half, target,
  cache, capacity, cPc, cWant, handle

listVars == <<clock, links, heights, ins, present, rd>>
iterVars == <<store, last, sequence, mi, dbIt, dbPc, half, target>>
cacheVars == <<cache, capacity, cPc, cWant, handle>>

List == INSTANCE SkipList WITH Keys <- NodeKeys
DB == INSTANCE DBIter WITH it <- dbIt, pc <- dbPc
Cache == INSTANCE LRUCache WITH
  Keys <- CacheKeys, c <- cache, pc <- cPc, want <- cWant

ASSUME ListAssumption == List!SkipListAssumption
ASSUME IterAssumption == DB!DBIterAssumption
ASSUME CacheConstants == Cache!CacheAssumption

-----------------------------------------------------------------------------
(* A reader of the skip list, which takes no lock, never follows a link     *)
(* that was not stored, and arrives at the neighbour of its key: it passes  *)
(* over no key inserted before it began.                                    *)
ListReads == List!LinksInitialized /\ List!FindsNeighbour

(* A DBIter shows the map as it was at its sequence number, whatever the    *)
(* order of its moves and whatever others insert meanwhile; moving          *)
(* backwards, the iterator below it is just before the key shown.           *)
ShowsSnapshot == DB!ShowsSnapshot /\ DB!BeforeKeyInReverse

(* The entry of a handle is not freed under it and an entry nobody refers   *)
(* to is; the lists, the table and usage_ of the cache agree.               *)
CacheSound == Cache!HandlesValid /\ Cache!ListsExact
=============================================================================
