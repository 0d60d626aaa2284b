---------------------------- MODULE OrderedIter ----------------------------
(***************************************************************************)
(* What LevelDB asks of an iterator over internal keys                     *)
(* (include/leveldb/iterator.h), when entries may be added under it: the   *)
(* keys that were there when it was made are met in order, in both         *)
(* directions, and none is passed over.  A key that was added later may be *)
(* met or missed; its sequence number is above that of every reader.       *)
(*                                                                         *)
(* Turning round while another thread adds keys, a move backward may even  *)
(* end on such a key ahead of where it began.  It has then not left its    *)
(* place among the keys of the beginning: the next moves backward go down  *)
(* to it and on from there.  edge is that place, and key() otherwise.      *)
(***************************************************************************)
EXTENDS Integers

CONSTANTS
  Keys,  \* internal keys, in the order of their numbers
  None   \* not valid

VARIABLES
  old,       \* the keys that were there at the beginning
  key,       \* key(), None when the iterator is not valid
  edge,      \* moving backward, the old keys met are those from edge on
  direction  \* of the last move: "forward" or "reverse"

Init == old \in SUBSET Keys /\ key = None /\ edge = None /\ direction = "forward"

\* A move to key'.
Forward == key' \in Keys \cup {None} /\ edge' = key' /\ direction' = "forward"
Backward == key' \in Keys \cup {None} /\ direction' = "reverse"

SeekToFirst ==
  /\ Forward
  /\ IF key' = None THEN old = {} ELSE \A o \in old : o >= key'

SeekToLast ==
  /\ Backward /\ edge' = key'
  /\ IF key' = None THEN old = {} ELSE \A o \in old : o <= key'

Seek(target) ==
  /\ Forward
  /\ IF key' = None THEN \A o \in old : o < target
     ELSE key' >= target /\ \A o \in old : o < target \/ o >= key'

MoveNext ==
  /\ key # None
  /\ Forward
  /\ IF key' = None THEN \A o \in old : o <= key
     ELSE key' > key /\ \A o \in old : o <= key \/ o >= key'

\* To the next old key before edge, or to a newer key between the two; or to
\* a newer key that is still ahead of edge, but then nearer than the last.
MovePrev ==
  /\ key # None
  /\ Backward
  /\ \/ key' = None /\ edge' = None /\ \A o \in old : o >= edge
     \/ /\ key' # None /\ key' < edge /\ edge' = key'
        /\ \A o \in old : o >= edge \/ o <= key'
     \/ /\ key' # None /\ key' >= edge /\ edge' = edge /\ key' \notin old
        /\ direction = "reverse" => key' < key

Next ==
  /\ \/ SeekToFirst \/ SeekToLast \/ MoveNext \/ MovePrev
     \/ \E target \in Keys : Seek(target)
  /\ UNCHANGED old

Spec == Init /\ [][Next]_<<old, key, edge, direction>>
=============================================================================
