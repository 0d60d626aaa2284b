------------------------------- MODULE Merger -------------------------------
(***************************************************************************)
(* MergingIterator (table/merger.cc): one ordered iterator out of several, *)
(* the memtables' and the tables' of a DB.  It keeps one child as current  *)
(* and relies on where it left the others, which depends on the direction  *)
(* of its last move.  A memtable may receive entries meanwhile.            *)
(*                                                                         *)
(* Every operation reads each child once, so that insertions between two   *)
(* of its reads are as good as insertions before or after it, except a     *)
(* Prev that changes the direction: it seeks the other children and then   *)
(* steps them back.  That is two steps, with insertions in between; where  *)
(* it seeks one child after it has stepped back another makes no           *)
(* difference, because the children grow independently.                    *)
(*                                                                         *)
(* A child is the set of its keys and its position.  No key is in two      *)
(* children: an internal key has a sequence number of its own.  A child    *)
(* that cannot be read and the status it reports are left out.             *)
(***************************************************************************)
EXTENDS Integers

CONSTANTS
  Children,   \* the children
  MemTables,  \* those that grow while they are iterated over
  Keys,       \* internal keys, in the order of their numbers
  None        \* a null pointer; the position of a child that is not valid

ASSUME MergerAssumption ==
  /\ MemTables \subseteq Children
  /\ Keys \subseteq Nat
  /\ None \notin Keys /\ None \notin Children

VARIABLES
  content,    \* the keys of each child
  pos,        \* where each child is: a key, or None
  current,    \* current_: a child, or None
  direction,  \* direction_
  turning,    \* Prev has sought out the other children, but not moved yet
  old,        \* history: the keys there were at the beginning
  edge        \* history: how far down moves backward have come, see OrderedIter

vars == <<content, pos, current, direction, turning, old, edge>>

Position == Keys \cup {None}

Disjoint(f) == \A c, d \in Children : c # d => f[c] \cap f[d] = {}

Init ==
  /\ content \in [Children -> SUBSET Keys] /\ Disjoint(content)
  /\ pos = [c \in Children |-> None]
  /\ current = None /\ direction = "forward" /\ turning = FALSE
  /\ old = UNION {content[c] : c \in Children} /\ edge = None

-----------------------------------------------------------------------------
\* p is the first, or the last, of the keys S, None if there is none.
IsFirst(p, S) == IF S = {} THEN p = None
                 ELSE p \in S /\ \A x \in S : p <= x
IsLast(p, S) == IF S = {} THEN p = None
                ELSE p \in S /\ \A x \in S : p >= x

AtLeast(c, k) == {x \in content[c] : x >= k}
Above(c, k) == {x \in content[c] : x > k}
Below(c, k) == {x \in content[c] : x < k}

Key == pos[current]

key == IF current = None THEN None ELSE Key

FindSmallest ==
  \/ current' = None /\ \A c \in Children : pos'[c] = None
  \/ /\ current' \in Children /\ pos'[current'] # None
     /\ \A c \in Children : pos'[c] # None => pos'[current'] <= pos'[c]

FindLargest ==
  \/ current' = None /\ \A c \in Children : pos'[c] = None
  \/ /\ current' \in Children /\ pos'[current'] # None
     /\ \A c \in Children : pos'[c] # None => pos'[current'] >= pos'[c]

SeekToFirst ==
  /\ ~turning
  /\ pos' \in [Children -> Position]
  /\ \A c \in Children : IsFirst(pos'[c], content[c])
  /\ FindSmallest
  /\ direction' = "forward"
  /\ edge' = key'
  /\ UNCHANGED <<content, turning, old>>

SeekToLast ==
  /\ ~turning
  /\ pos' \in [Children -> Position]
  /\ \A c \in Children : IsLast(pos'[c], content[c])
  /\ FindLargest
  /\ direction' = "reverse"
  /\ edge' = key'
  /\ UNCHANGED <<content, turning, old>>

Seek(target) ==
  /\ ~turning
  /\ pos' \in [Children -> Position]
  /\ \A c \in Children : IsFirst(pos'[c], AtLeast(c, target))
  /\ FindSmallest
  /\ direction' = "forward"
  /\ edge' = key'
  /\ UNCHANGED <<content, turning, old>>

(* Mutant: after a change of direction the others stay where they are. *)
MoveNextAsIs ==
  /\ current # None /\ ~turning
  /\ pos' \in [Children -> Position]
  /\ \A c \in Children : IF c # current THEN pos'[c] = pos[c]
                         ELSE IsFirst(pos'[c], Above(c, Key))
  /\ FindSmallest
  /\ direction' = "forward"
  /\ edge' = key'
  /\ UNCHANGED <<content, turning, old>>

\* Moving forward, the others are behind Key already; otherwise they are
\* sought out: the first at or behind Key.  None is at Key itself.
MoveNext ==
  /\ current # None /\ ~turning
  /\ pos' \in [Children -> Position]
  /\ \A c \in Children :
       IF c # current /\ direction = "forward" THEN pos'[c] = pos[c]
       ELSE IsFirst(pos'[c], Above(c, Key))
  /\ FindSmallest
  /\ direction' = "forward"
  /\ edge' = key'
  /\ UNCHANGED <<content, turning, old>>

\* Prev after a move forward: the others are put to the first key at or
\* behind Key.
SeekOthers ==
  /\ current # None /\ ~turning /\ direction = "forward"
  /\ pos' \in [Children -> Position]
  /\ \A c \in Children : IF c = current THEN pos'[c] = pos[c]
                         ELSE IsFirst(pos'[c], AtLeast(c, Key))
  /\ turning' = TRUE
  /\ UNCHANGED <<content, current, direction, old, edge>>

\* The rest of Prev.  After a change of direction the others step back from
\* where they were put, or go to their last key; otherwise they are before Key
\* already.
MovePrev ==
  /\ current # None /\ (turning \/ direction = "reverse")
  /\ pos' \in [Children -> Position]
  /\ \A c \in Children :
       IF c # current /\ ~turning THEN pos'[c] = pos[c]
       ELSE IsLast(pos'[c],
                   IF pos[c] = None THEN content[c] ELSE Below(c, pos[c]))
  /\ FindLargest
  /\ direction' = "reverse" /\ turning' = FALSE
  /\ edge' = IF key' # None /\ key' >= edge THEN edge ELSE key'
  /\ UNCHANGED <<content, old>>

\* A writer inserts into a memtable that is being iterated over.
Insert(c, k) ==
  /\ \A d \in Children : k \notin content[d]
  /\ content' = [content EXCEPT ![c] = @ \cup {k}]
  /\ UNCHANGED <<pos, current, direction, turning, old, edge>>

Next ==
  \/ SeekToFirst \/ SeekToLast \/ MoveNext \/ SeekOthers \/ MovePrev
  \/ \E target \in Keys : Seek(target)
  \/ \E c \in MemTables, k \in Keys : Insert(c, k)

Spec == Init /\ [][Next]_vars

-----------------------------------------------------------------------------
Iter == INSTANCE OrderedIter

(* The merged iterator is an ordered iterator over the union of its        *)
(* children: whatever the directions of earlier moves and the insertions   *)
(* since and within a move, no move passes over a key that was there at    *)
(* the beginning, and the iterator ends only when there is none left.  A   *)
(* Prev that turns round may end on a key inserted meanwhile, ahead of     *)
(* key(); the Prevs after it go on from where it was.                      *)
ImplementsOrderedIter == Iter!Spec
=============================================================================
