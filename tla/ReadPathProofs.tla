--------------------------- MODULE ReadPathProofs ---------------------------
(***************************************************************************)
(* MergingIterator implements the ordered iterator, for any children, any  *)
(* keys and any insertions while it is used; the skip list of a memtable   *)
(* keeps its promise to readers that take no lock, for any keys and any    *)
(* height; a DBIter shows the map as of its sequence number, for any user  *)
(* keys, any entries and any order of its moves; and the LRU cache never   *)
(* frees an entry under a handle, for any keys, threads, charges and       *)
(* capacity.                                                               *)
(***************************************************************************)
EXTENDS ReadPath, FiniteSetTheorems, SequenceTheorems, WellFoundedInduction, TLAPS

TypeInv ==
  /\ content \in [Children -> SUBSET Keys]
  /\ pos \in [Children -> Position]
  /\ current \in Children \cup {None}
  /\ direction \in {"forward", "reverse"}
  /\ turning \in BOOLEAN
  /\ old \in SUBSET Keys
  /\ edge \in Position

(* The keys of the beginning are still there, each in one child. *)
ContentInv ==
  /\ Disjoint(content)
  /\ \A o \in old : \E c \in Children : o \in content[c]

(* Positions are keys of their child; the current child is at one, which   *)
(* is where moves have come to, except after moves backward.               *)
PosInv ==
  /\ \A c \in Children : pos[c] # None => pos[c] \in content[c]
  /\ current # None => Key # None /\ edge # None
  /\ current # None /\ direction = "forward" => edge = Key
  /\ turning => current # None /\ direction = "forward"

(* Moving forward, every other child is behind Key and has passed over no  *)
(* old key that is behind Key.                                             *)
ForwardInv ==
  current # None /\ direction = "forward" =>
    \A c \in Children \ {current} :
      IF pos[c] = None THEN \A o \in old \cap content[c] : o <= Key
      ELSE pos[c] > Key /\ \A o \in old \cap content[c] :
                              o <= Key \/ o >= pos[c]

(* Moving backward, every other child is before Key and has passed over no *)
(* old key before edge; no child has an old key between edge and where it  *)
(* is.                                                                     *)
ReverseInv ==
  current # None /\ direction = "reverse" =>
    /\ edge <= Key
    /\ \A c \in Children :
         /\ \A o \in old \cap content[c] :
              o >= edge \/ (pos[c] # None /\ o <= pos[c])
         /\ pos[c] # None =>
              /\ c # current => pos[c] < Key
              /\ pos[c] \in old =>
                   pos[c] < edge \/ (c = current /\ pos[c] = edge)
              /\ \A o \in old \cap content[c] : o < pos[c] => o < edge

Inv == TypeInv /\ ContentInv /\ PosInv /\ ForwardInv /\ ReverseInv

-----------------------------------------------------------------------------
(* Positions are natural numbers or None. *)
LEMMA KeysAreNumbers == Keys \subseteq Nat /\ None \notin Keys
BY MergerAssumption

(* What a move forward establishes once every child stands at the first of *)
(* its old keys outside lo, the keys that are passed over, or at a newer   *)
(* key before it.                                                          *)
LEMMA Smallest ==
  ASSUME Inv, NEW lo \in SUBSET Keys,
         \A x \in lo : \A y \in Keys \ lo : x < y,
         content' = content, old' = old,
         pos' \in [Children -> Position],
         \A c \in Children :
           IF pos'[c] = None THEN \A o \in old \cap content[c] : o \in lo
           ELSE /\ pos'[c] \in content[c] \ lo
                /\ \A o \in old \cap content[c] : o \in lo \/ o >= pos'[c],
         FindSmallest, direction' = "forward",
         turning' = FALSE, edge' = key'
  PROVE  /\ Inv'
         /\ IF key' = None THEN old \subseteq lo
            ELSE key' \in Keys \ lo /\ \A o \in old : o \in lo \/ o >= key'
<1>1. CASE current' = None /\ \A c \in Children : pos'[c] = None
  <2>1. key' = None
    BY <1>1 DEF key
  <2>2. old \subseteq lo
    BY <1>1 DEF Inv, ContentInv
  <2>3. TypeInv' /\ ContentInv'
    BY <1>1, <2>1 DEF Inv, TypeInv, ContentInv, Disjoint, Position
  <2>4. PosInv' /\ ForwardInv' /\ ReverseInv'
    BY <1>1 DEF PosInv, ForwardInv, ReverseInv
  <2> QED BY <2>1, <2>2, <2>3, <2>4 DEF Inv
<1>2. CASE current' \in Children /\ pos'[current'] # None
             /\ \A c \in Children : pos'[c] # None => pos'[current'] <= pos'[c]
  <2> DEFINE k == pos'[current']
  <2>1. /\ current' # None /\ key' = k
        /\ k \in Keys /\ k \in content[current'] /\ k \notin lo /\ k # None
    <3>1. k \in Position
      BY <1>2
    <3> QED BY <1>2, <3>1, MergerAssumption DEF key, Key, Position
  <2>2. \A c \in Children : pos'[c] # None => pos'[c] \in Keys
    BY DEF Position
  <2> HIDE DEF k
  <2>3. ASSUME NEW o \in old PROVE o \in lo \/ o >= k
    <3>1. PICK c \in Children : o \in content[c]
      BY DEF Inv, ContentInv
    <3>2. CASE pos'[c] = None
      BY <3>1, <3>2
    <3>3. CASE pos'[c] # None
      <4>1. o \in lo \/ o >= pos'[c]
        BY <3>1, <3>3
      <4>2. pos'[c] >= k /\ pos'[c] \in Nat /\ k \in Nat /\ o \in Nat
        BY <1>2, <2>1, <2>2, <3>3, KeysAreNumbers DEF Inv, TypeInv, k
      <4> QED BY <4>1, <4>2
    <3> QED BY <3>2, <3>3
  <2>4. ASSUME NEW c \in Children, c # current'
        PROVE  IF pos'[c] = None THEN \A o \in old \cap content[c] : o <= k
               ELSE pos'[c] > k /\ \A o \in old \cap content[c] :
                                      o <= k \/ o >= pos'[c]
    <3>1. ASSUME NEW o \in old, o \in lo PROVE o <= k
      <4>1. o < k /\ o \in Nat /\ k \in Nat
        BY <2>1, <3>1, KeysAreNumbers
      <4> QED BY <4>1
    <3>2. CASE pos'[c] = None
      BY <3>1, <3>2
    <3>3. CASE pos'[c] # None
      <4>1. pos'[c] # k
        BY <1>2, <2>1, <2>4, <3>3 DEF Inv, ContentInv, Disjoint
      <4>2. pos'[c] >= k /\ pos'[c] \in Nat /\ k \in Nat
        BY <1>2, <2>1, <2>2, <3>3, KeysAreNumbers DEF k
      <4>3. \A o \in old \cap content[c] : o \in lo \/ o >= pos'[c]
        BY <3>3
      <4>4. pos'[c] > k
        BY <4>1, <4>2
      <4> QED BY <3>1, <3>3, <4>3, <4>4
    <3> QED BY <3>2, <3>3
  <2>5. TypeInv' /\ ContentInv'
    BY <1>2, <2>1 DEF Inv, TypeInv, ContentInv, Disjoint, Position
  <2>6. PosInv'
    BY <2>1 DEF PosInv, Key, k
  <2>7. ForwardInv' /\ ReverseInv'
    BY <2>4 DEF ForwardInv, ReverseInv, Key, k
  <2> QED BY <2>1, <2>3, <2>5, <2>6, <2>7 DEF Inv
<1> QED BY <1>1, <1>2 DEF FindSmallest

(* The same for a move backward, with hi for the keys that are passed over: *)
(* all of them may lie before a key that a child is left at, if that is    *)
(* newer.                                                                  *)
LEMMA Largest ==
  ASSUME Inv, NEW hi \in SUBSET Keys,
         \A x \in hi : \A y \in Keys \ hi : x > y,
         content' = content, old' = old,
         pos' \in [Children -> Position],
         \A c \in Children :
           IF pos'[c] = None THEN \A o \in old \cap content[c] : o \in hi
           ELSE /\ pos'[c] \in content[c] /\ (pos'[c] \in old => pos'[c] \notin hi)
                /\ \A o \in old \cap content[c] :
                     /\ o \in hi \/ o <= pos'[c]
                     /\ o < pos'[c] => o \notin hi,
         FindLargest, direction' = "reverse", turning' = FALSE,
         edge' = IF key' \in hi THEN edge ELSE key',
         key' \in hi => edge \in Keys /\ \A x \in Keys : x \in hi <=> x >= edge
  PROVE  /\ Inv'
         /\ IF key' = None THEN old \subseteq hi
            ELSE /\ key' \in Keys
                 /\ key' \in hi => key' \notin old
                 /\ key' \notin hi => \A o \in old : o \in hi \/ o <= key'
<1>1. CASE current' = None /\ \A c \in Children : pos'[c] = None
  <2>1. key' = None /\ edge' = None
    BY <1>1, KeysAreNumbers DEF key
  <2>2. old \subseteq hi
    BY <1>1 DEF Inv, ContentInv
  <2>3. TypeInv' /\ ContentInv'
    BY <1>1, <2>1 DEF Inv, TypeInv, ContentInv, Disjoint, Position
  <2>4. PosInv' /\ ForwardInv' /\ ReverseInv'
    BY <1>1 DEF PosInv, ForwardInv, ReverseInv
  <2> QED BY <2>1, <2>2, <2>3, <2>4 DEF Inv
<1>2. CASE current' \in Children /\ pos'[current'] # None
             /\ \A c \in Children : pos'[c] # None => pos'[current'] >= pos'[c]
  <2> DEFINE k == pos'[current']
  <2>1. /\ current' # None /\ key' = k
        /\ k \in Keys /\ k \in content[current'] /\ k # None
    <3>1. k \in Position
      BY <1>2
    <3> QED BY <1>2, <3>1, MergerAssumption DEF key, Key, Position
  <2>2. \A c \in Children : pos'[c] # None => pos'[c] \in Keys
    BY DEF Position
  <2>3. k \in old => k \notin hi
    BY <1>2
  <2> HIDE DEF k
  <2>4. ASSUME NEW o \in old PROVE o \in hi \/ o <= k
    <3>1. PICK c \in Children : o \in content[c]
      BY DEF Inv, ContentInv
    <3>2. CASE pos'[c] = None
      BY <3>1, <3>2
    <3>3. CASE pos'[c] # None
      <4>1. o \in hi \/ o <= pos'[c]
        BY <3>1, <3>3
      <4>2. pos'[c] <= k /\ pos'[c] \in Nat /\ k \in Nat /\ o \in Nat
        BY <1>2, <2>1, <2>2, <3>3, KeysAreNumbers DEF Inv, TypeInv, k
      <4> QED BY <4>1, <4>2
    <3> QED BY <3>2, <3>3
  <2>5. /\ edge' \in Keys /\ edge' <= k
        /\ \A x \in Keys : x \in hi => x >= edge'
        /\ \A x \in Keys : x \notin hi /\ x < k => x < edge'
        /\ k \notin hi => edge' = k
    <3>1. CASE k \in hi
      BY <2>1, <3>1, KeysAreNumbers
    <3>2. CASE k \notin hi
      <4>1. \A x \in hi : x > k /\ x \in Nat /\ k \in Nat
        BY <2>1, <3>2, KeysAreNumbers
      <4>2. edge' = k
        BY <2>1, <3>2
      <4>3. k \in Nat /\ k <= k
        BY <2>1, KeysAreNumbers
      <4>4. \A x \in hi : x >= k
        BY <4>1
      <4> QED BY <2>1, <3>2, <4>2, <4>3, <4>4
    <3> QED BY <3>1, <3>2
  <2>6. ASSUME NEW c \in Children, pos'[c] # None
        PROVE  /\ c # current' => pos'[c] < k
               /\ pos'[c] \in old =>
                    pos'[c] < edge' \/ (c = current' /\ pos'[c] = edge')
               /\ \A o \in old \cap content[c] : o < pos'[c] => o < edge'
    <3>1. pos'[c] <= k /\ pos'[c] \in Nat /\ k \in Nat /\ pos'[c] \in Keys
      BY <1>2, <2>1, <2>2, <2>6, KeysAreNumbers DEF k
    <3>2. c # current' => pos'[c] # k
      BY <1>2, <2>1, <2>6 DEF Inv, ContentInv, Disjoint
    <3>3. c # current' => pos'[c] < k
      BY <3>1, <3>2
    <3>4. pos'[c] \in old =>
            pos'[c] < edge' \/ (c = current' /\ pos'[c] = edge')
      <4>1. c = current' => pos'[c] = k
        BY DEF k
      <4>2. pos'[c] \in old => pos'[c] \notin hi
        BY <2>6
      <4> QED BY <2>5, <3>1, <3>3, <4>1, <4>2
    <3>5. ASSUME NEW o \in old \cap content[c], o < pos'[c]
          PROVE  o < edge'
      <4>1. o \notin hi
        BY <2>6, <3>5
      <4>2. o \in Keys /\ o \in Nat
        BY KeysAreNumbers DEF Inv, TypeInv
      <4>3. o < k
        BY <3>1, <3>5, <4>2
      <4> QED BY <2>5, <4>1, <4>2, <4>3
    <3> QED BY <3>3, <3>4, <3>5
  <2>7. ASSUME NEW c \in Children, NEW o \in old \cap content[c]
        PROVE  o >= edge' \/ (pos'[c] # None /\ o <= pos'[c])
    <3>1. o \in Keys
      BY DEF Inv, TypeInv
    <3>2. o \in hi \/ (pos'[c] # None /\ o <= pos'[c])
      BY <2>7
    <3> QED BY <2>5, <3>1, <3>2
  <2>8. TypeInv' /\ ContentInv'
    BY <1>2, <2>5 DEF Inv, TypeInv, ContentInv, Disjoint, Position
  <2>9. PosInv'
    <3>1. edge' # None
      BY <2>5, KeysAreNumbers
    <3> QED BY <2>1, <3>1 DEF PosInv, Key, k
  <2>10. ForwardInv' /\ ReverseInv'
    BY <2>5, <2>6, <2>7 DEF ForwardInv, ReverseInv, Key, k
  <2>11. Inv'
    BY <2>8, <2>9, <2>10 DEF Inv
  <2> QED BY <2>1, <2>3, <2>4, <2>11
<1> QED BY <1>1, <1>2 DEF FindLargest

-----------------------------------------------------------------------------
(* The steps: every move keeps the invariant and is a move of the ordered  *)
(* iterator.                                                               *)

(* A child put to its first key outside lo has passed over keys of lo only. *)
LEMMA FirstPlaced ==
  ASSUME NEW lo \in SUBSET Keys, NEW C \in SUBSET Keys, NEW O \in SUBSET Keys,
         NEW p, IsFirst(p, C \ lo)
  PROVE  IF p = None THEN \A o \in O \cap C : o \in lo
         ELSE p \in C \ lo /\ \A o \in O \cap C : o \in lo \/ o >= p
<1>1. CASE C \ lo = {}
  BY <1>1 DEF IsFirst
<1>2. CASE C \ lo # {}
  <2>1. p \in C \ lo /\ \A x \in C \ lo : p <= x
    BY <1>2 DEF IsFirst
  <2>2. \A x \in C : x \in Nat /\ x # None
    BY KeysAreNumbers
  <2>3. \A o \in O \cap C : o \in lo \/ o >= p
    BY <2>1, <2>2
  <2> QED BY <2>1, <2>2, <2>3
<1> QED BY <1>1, <1>2

(* A child put to its last key below some limit, where it has the same old *)
(* keys as outside hi.                                                     *)
LEMMA LastPlaced ==
  ASSUME NEW hi \in SUBSET Keys, NEW C \in SUBSET Keys, NEW O \in SUBSET Keys,
         NEW B \in SUBSET C, \A x \in C : \A y \in B : x < y => x \in B,
         \A o \in O \cap C : o \in B <=> o \notin hi,
         NEW p, IsLast(p, B)
  PROVE  IF p = None THEN \A o \in O \cap C : o \in hi
         ELSE /\ p \in C /\ (p \in O => p \notin hi)
              /\ \A o \in O \cap C : /\ o \in hi \/ o <= p
                                     /\ o < p => o \notin hi
<1>1. CASE B = {}
  BY <1>1 DEF IsLast
<1>2. CASE B # {}
  <2>1. p \in B /\ \A x \in B : p >= x
    BY <1>2 DEF IsLast
  <2>2. \A x \in C : x \in Nat /\ x # None
    BY KeysAreNumbers
  <2>3. \A o \in O \cap C : o \in hi \/ o <= p
    BY <2>1, <2>2
  <2>4. \A o \in O \cap C : o < p => o \notin hi
    BY <2>1
  <2> QED BY <2>1, <2>2, <2>3, <2>4
<1> QED BY <1>1, <1>2

(* MergingIterator::SeekToFirst puts every child at its first key. *)
LEMMA SeekToFirstStep ==
  ASSUME Inv, SeekToFirst
  PROVE  Inv' /\ Iter!SeekToFirst /\ old' = old
<1> DEFINE lo == {x \in Keys : FALSE}
<1>1. /\ content' = content /\ old' = old /\ direction' = "forward"
      /\ pos' \in [Children -> Position] /\ FindSmallest
      /\ turning' = FALSE /\ edge' = key'
  BY DEF SeekToFirst, Inv, TypeInv
<1>2. \A c \in Children :
        IF pos'[c] = None THEN \A o \in old \cap content[c] : o \in lo
        ELSE /\ pos'[c] \in content[c] \ lo
             /\ \A o \in old \cap content[c] : o \in lo \/ o >= pos'[c]
  <2> TAKE c \in Children
  <2>1. content[c] \in SUBSET Keys /\ old \in SUBSET Keys
    BY DEF Inv, TypeInv
  <2>2. IsFirst(pos'[c], content[c] \ lo)
    <3>1. content[c] \ lo = content[c]
      OBVIOUS
    <3> QED BY <3>1 DEF SeekToFirst
  <2> HIDE DEF lo
  <2>3. lo \in SUBSET Keys
    BY DEF lo
  <2> QED BY <2>1, <2>2, <2>3, FirstPlaced
<1>3. /\ Inv'
      /\ IF key' = None THEN old \subseteq lo
         ELSE key' \in Keys \ lo /\ \A o \in old : o \in lo \/ o >= key'
  <2>1. lo \in SUBSET Keys /\ \A x \in lo : \A y \in Keys \ lo : x < y
    OBVIOUS
  <2> HIDE DEF lo
  <2> QED BY <1>1, <1>2, <2>1, Smallest
<1>4. Iter!SeekToFirst
  BY <1>1, <1>3 DEF Iter!SeekToFirst, Iter!Forward
<1> QED BY <1>1, <1>3, <1>4

(* MergingIterator::SeekToLast puts every child at its last key. *)
LEMMA SeekToLastStep ==
  ASSUME Inv, SeekToLast
  PROVE  Inv' /\ Iter!SeekToLast /\ old' = old
<1> DEFINE hi == {x \in Keys : FALSE}
<1>1. /\ content' = content /\ old' = old /\ direction' = "reverse"
      /\ pos' \in [Children -> Position] /\ FindLargest
      /\ turning' = FALSE /\ edge' = key'
  BY DEF SeekToLast, Inv, TypeInv
<1>2. \A c \in Children :
        IF pos'[c] = None THEN \A o \in old \cap content[c] : o \in hi
        ELSE /\ pos'[c] \in content[c] /\ (pos'[c] \in old => pos'[c] \notin hi)
             /\ \A o \in old \cap content[c] :
                  /\ o \in hi \/ o <= pos'[c]
                  /\ o < pos'[c] => o \notin hi
  <2> TAKE c \in Children
  <2>1. content[c] \in SUBSET Keys /\ old \in SUBSET Keys
    BY DEF Inv, TypeInv
  <2>2. IsLast(pos'[c], content[c])
    BY DEF SeekToLast
  <2>3. hi \in SUBSET Keys
    OBVIOUS
  <2>4. \A o \in old \cap content[c] : o \in content[c] <=> o \notin hi
    OBVIOUS
  <2> HIDE DEF hi
  <2> QED BY <2>1, <2>2, <2>3, <2>4, LastPlaced
<1>3. /\ Inv'
      /\ IF key' = None THEN old \subseteq hi
         ELSE /\ key' \in Keys
              /\ key' \in hi => key' \notin old
              /\ key' \notin hi => \A o \in old : o \in hi \/ o <= key'
  <2>1. hi \in SUBSET Keys /\ \A x \in hi : \A y \in Keys \ hi : x > y
    OBVIOUS
  <2>2. key' \notin hi
    OBVIOUS
  <2> HIDE DEF hi
  <2> QED BY <1>1, <1>2, <2>1, <2>2, Largest
<1>4. Iter!SeekToLast
  BY <1>1, <1>3 DEF Iter!SeekToLast, Iter!Backward
<1> QED BY <1>1, <1>3, <1>4

(* MergingIterator::Seek puts every child at its first key from the target. *)
LEMMA SeekStep ==
  ASSUME Inv, NEW sought \in Keys, Seek(sought)
  PROVE  Inv' /\ Iter!Seek(sought) /\ old' = old
<1> DEFINE lo == {x \in Keys : x < sought}
<1>1. /\ content' = content /\ old' = old /\ direction' = "forward"
      /\ pos' \in [Children -> Position] /\ FindSmallest
      /\ turning' = FALSE /\ edge' = key'
  BY DEF Seek, Inv, TypeInv
<1>2. \A c \in Children :
        IF pos'[c] = None THEN \A o \in old \cap content[c] : o \in lo
        ELSE /\ pos'[c] \in content[c] \ lo
             /\ \A o \in old \cap content[c] : o \in lo \/ o >= pos'[c]
  <2> TAKE c \in Children
  <2>1. content[c] \in SUBSET Keys /\ old \in SUBSET Keys
    BY DEF Inv, TypeInv
  <2>2. IsFirst(pos'[c], content[c] \ lo)
    <3>1. content[c] \ lo = AtLeast(c, sought)
      <4>1. \A x \in content[c] : x \in Keys /\ x \in Nat /\ sought \in Nat
        BY <2>1, KeysAreNumbers
      <4>2. \A x \in content[c] : x \notin lo <=> x >= sought
        BY <4>1
      <4> HIDE DEF lo
      <4> QED BY <4>2 DEF AtLeast
    <3> QED BY <3>1 DEF Seek
  <2> HIDE DEF lo
  <2>3. lo \in SUBSET Keys
    BY DEF lo
  <2> QED BY <2>1, <2>2, <2>3, FirstPlaced
<1>3. /\ Inv'
      /\ IF key' = None THEN old \subseteq lo
         ELSE key' \in Keys \ lo /\ \A o \in old : o \in lo \/ o >= key'
  <2>1. lo \in SUBSET Keys /\ \A x \in lo : \A y \in Keys \ lo : x < y
    BY KeysAreNumbers
  <2> HIDE DEF lo
  <2> QED BY <1>1, <1>2, <2>1, Smallest
<1>4. Iter!Seek(sought)
  <2>1. CASE key' = None
    BY <1>1, <1>3, <2>1 DEF Iter!Seek, Iter!Forward
  <2>2. CASE key' # None
    <3>1. key' \in Keys /\ key' \notin lo /\ key' \in Nat /\ sought \in Nat
      BY <1>3, <2>2, KeysAreNumbers
    <3>2. key' >= sought /\ \A o \in old : o < sought \/ o >= key'
      BY <1>3, <2>2, <3>1
    <3> QED BY <1>1, <2>2, <3>1, <3>2 DEF Iter!Seek, Iter!Forward
  <2> QED BY <2>1, <2>2
<1> QED BY <1>1, <1>3, <1>4

(* MergingIterator::Next moves the other children past Key when it turns. *)
LEMMA MoveNextStep ==
  ASSUME Inv, MoveNext
  PROVE  Inv' /\ Iter!MoveNext /\ old' = old
<1>1. /\ content' = content /\ old' = old /\ direction' = "forward"
      /\ pos' \in [Children -> Position] /\ FindSmallest
      /\ turning' = FALSE /\ edge' = key'
      /\ current # None /\ current \in Children
  BY DEF MoveNext, Inv, TypeInv
<1>2. PICK k \in Keys : k = Key
  BY <1>1 DEF Inv, TypeInv, PosInv, Key, Position
<1> DEFINE lo == {x \in Keys : x <= k}
<1>3. \A c \in Children :
        IF pos'[c] = None THEN \A o \in old \cap content[c] : o \in lo
        ELSE /\ pos'[c] \in content[c] \ lo
             /\ \A o \in old \cap content[c] : o \in lo \/ o >= pos'[c]
  <2> TAKE c \in Children
  <2>1. content[c] \in SUBSET Keys /\ old \in SUBSET Keys
    BY DEF Inv, TypeInv
  <2>2. CASE c # current /\ direction = "forward"
    <3>1. pos'[c] = pos[c]
      BY <2>2 DEF MoveNext
    <3>2. IF pos[c] = None THEN \A o \in old \cap content[c] : o <= k
          ELSE pos[c] > k /\ \A o \in old \cap content[c] :
                                o <= k \/ o >= pos[c]
      BY <1>1, <1>2, <2>2 DEF Inv, ForwardInv
    <3>3. pos[c] # None => pos[c] \in content[c]
      BY DEF Inv, PosInv
    <3>4. \A x \in content[c] : x \in Keys /\ x \in Nat
      BY <2>1, KeysAreNumbers
    <3>5. k \in Nat
      BY KeysAreNumbers
    <3>6. CASE pos[c] = None
      BY <2>1, <3>1, <3>2, <3>6
    <3>7. CASE pos[c] # None
      <4>1. pos[c] \in content[c] \ lo
        BY <3>2, <3>3, <3>4, <3>5, <3>7
      <4>2. \A o \in old \cap content[c] : o \in lo \/ o >= pos[c]
        BY <3>2, <3>4, <3>7
      <4> QED BY <3>1, <3>7, <4>1, <4>2
    <3> QED BY <3>6, <3>7
  <2>3. CASE ~(c # current /\ direction = "forward")
    <3>1. IsFirst(pos'[c], content[c] \ lo)
      <4>1. content[c] \ lo = Above(c, Key)
        <5>1. \A x \in content[c] : x \in Keys /\ x \in Nat /\ k \in Nat
          BY <2>1, KeysAreNumbers
        <5>2. \A x \in content[c] : x \notin lo <=> x > k
          BY <5>1
        <5> HIDE DEF lo
        <5> QED BY <1>2, <5>2 DEF Above
      <4> QED BY <2>3, <4>1 DEF MoveNext
    <3> HIDE DEF lo
    <3>2. lo \in SUBSET Keys
      BY DEF lo
    <3> QED BY <2>1, <3>1, <3>2, FirstPlaced
  <2> QED BY <2>2, <2>3
<1>4. /\ Inv'
      /\ IF key' = None THEN old \subseteq lo
         ELSE key' \in Keys \ lo /\ \A o \in old : o \in lo \/ o >= key'
  <2>1. lo \in SUBSET Keys /\ \A x \in lo : \A y \in Keys \ lo : x < y
    BY KeysAreNumbers
  <2> HIDE DEF lo
  <2> QED BY <1>1, <1>3, <2>1, Smallest
<1>5. key = k /\ k # None
  BY <1>1, <1>2, KeysAreNumbers DEF key
<1>6. Iter!MoveNext
  <2>1. CASE key' = None
    BY <1>1, <1>4, <1>5, <2>1 DEF Iter!MoveNext, Iter!Forward
  <2>2. CASE key' # None
    <3>1. key' \in Keys /\ key' \notin lo /\ key' \in Nat /\ k \in Nat
      BY <1>4, <2>2, KeysAreNumbers
    <3>2. key' > k /\ \A o \in old : o <= k \/ o >= key'
      BY <1>4, <2>2, <3>1
    <3> QED BY <1>1, <1>5, <2>2, <3>1, <3>2 DEF Iter!MoveNext, Iter!Forward
  <2> QED BY <2>1, <2>2
<1> QED BY <1>1, <1>4, <1>6

(* Two children have no key in common. *)
LEMMA NotCurrent ==
  ASSUME Inv, current # None, NEW c \in Children, c # current
  PROVE  Key \in Keys /\ Key \notin content[c] /\ current \in Children
BY DEF Inv, TypeInv, ContentInv, Disjoint, PosInv, Key

(* MergingIterator::Prev first puts the other children at or behind Key.   *)
LEMMA SeekOthersStep ==
  ASSUME Inv, SeekOthers
  PROVE  Inv' /\ UNCHANGED <<old, key, edge, direction>>
<1>1. /\ UNCHANGED <<content, current, direction, old, edge>>
      /\ current # None /\ current \in Children /\ direction = "forward"
      /\ turning' = TRUE /\ pos' \in [Children -> Position]
      /\ pos'[current] = pos[current]
  BY DEF SeekOthers, Inv, TypeInv
<1>2. Key' = Key /\ UNCHANGED <<old, key, edge, direction>>
  BY <1>1 DEF key, Key
<1>3. PICK k \in Keys : k = Key /\ k \in Nat
  BY <1>1, KeysAreNumbers DEF Inv, TypeInv, PosInv, Key, Position
<1> DEFINE lo == {x \in Keys : x < k}
<1>4. ASSUME NEW c \in Children, c # current
      PROVE  IF pos'[c] = None THEN \A o \in old \cap content[c] : o \in lo
             ELSE /\ pos'[c] \in content[c] \ lo
                  /\ \A o \in old \cap content[c] : o \in lo \/ o >= pos'[c]
  <2>1. content[c] \in SUBSET Keys /\ old \in SUBSET Keys
    BY DEF Inv, TypeInv
  <2>2. IsFirst(pos'[c], content[c] \ lo)
    <3>1. content[c] \ lo = AtLeast(c, k)
      <4>1. \A x \in content[c] : x \in Keys /\ x \in Nat
        BY <2>1, KeysAreNumbers
      <4>2. \A x \in content[c] : x \notin lo <=> x >= k
        BY <1>3, <4>1
      <4> HIDE DEF lo
      <4> QED BY <4>2 DEF AtLeast
    <3> QED BY <1>3, <1>4, <3>1 DEF SeekOthers
  <2>3. lo \in SUBSET Keys
    OBVIOUS
  <2> HIDE DEF lo
  <2> QED BY <2>1, <2>2, <2>3, FirstPlaced
<1>5. ASSUME NEW c \in Children, c # current
      PROVE  /\ pos'[c] # None => pos'[c] \in content[c]
             /\ IF pos'[c] = None THEN \A o \in old \cap content[c] : o <= k
                ELSE pos'[c] > k /\ \A o \in old \cap content[c] :
                                       o <= k \/ o >= pos'[c]
  <2>1. \A x \in content[c] : x \in Keys /\ x \in Nat /\ x # k
    BY <1>1, <1>3, <1>5, NotCurrent, KeysAreNumbers DEF Inv, TypeInv
  <2>2. \A o \in content[c] : o \in lo => o <= k
    BY <1>3, <2>1
  <2>3. \A o \in content[c] : o \notin lo => o > k
    BY <1>3, <2>1
  <2> HIDE DEF lo
  <2> QED BY <1>4, <1>5, <2>2, <2>3
<1>6. TypeInv' /\ ContentInv'
  BY <1>1 DEF Inv, TypeInv, ContentInv, Disjoint
<1>7. PosInv'
  BY <1>1, <1>2, <1>5 DEF Inv, PosInv, Key
<1>8. ForwardInv' /\ ReverseInv'
  BY <1>1, <1>2, <1>3, <1>5 DEF ForwardInv, ReverseInv
<1> QED BY <1>2, <1>6, <1>7, <1>8 DEF Inv

(* Where a child stands that MergingIterator::Prev moves, it has below it  *)
(* the old keys before edge, and no others.                                *)
LEMMA OldBelow ==
  ASSUME Inv, current # None, turning \/ direction = "reverse",
         NEW c \in Children, c = current \/ turning,
         NEW o \in old \cap content[c]
  PROVE  /\ pos[c] = None => o < edge
         /\ pos[c] # None => (o < pos[c] <=> o < edge)
<1>1. /\ current \in Children /\ Key # None /\ Key \in Keys /\ edge \in Keys
      /\ o \in Keys /\ Key \in Nat /\ edge \in Nat /\ o \in Nat
      /\ pos[c] # None => pos[c] \in Nat
  BY KeysAreNumbers DEF Inv, TypeInv, PosInv, Key, Position
<1>2. CASE c = current
  <2>1. CASE turning
    BY <1>1, <1>2, <2>1 DEF Inv, PosInv, Key
  <2>2. CASE direction = "reverse"
    <3>1. edge <= Key /\ (o < Key => o < edge)
      BY <1>1, <1>2, <2>2 DEF Inv, ReverseInv, Key
    <3> QED BY <1>1, <1>2, <3>1 DEF Key
  <2> QED BY <2>1, <2>2
<1>3. CASE c # current
  <2>1. turning /\ direction = "forward" /\ edge = Key
    BY <1>3 DEF Inv, PosInv
  <2>2. o # Key
    BY <1>3, NotCurrent
  <2>3. IF pos[c] = None THEN o <= Key
        ELSE pos[c] > Key /\ (o <= Key \/ o >= pos[c])
    BY <1>3, <2>1 DEF Inv, ForwardInv
  <2> QED BY <1>1, <2>1, <2>2, <2>3
<1> QED BY <1>2, <1>3

(* MergingIterator::Prev, when it has turned round.                        *)
LEMMA MovePrevStep ==
  ASSUME Inv, MovePrev
  PROVE  Inv' /\ Iter!MovePrev /\ old' = old
<1>1. /\ content' = content /\ old' = old /\ direction' = "reverse"
      /\ pos' \in [Children -> Position] /\ FindLargest
      /\ current # None /\ current \in Children
      /\ turning' = FALSE /\ (turning \/ direction = "reverse")
      /\ edge' = IF key' # None /\ key' >= edge THEN edge ELSE key'
  BY DEF MovePrev, Inv, TypeInv
<1>2. PICK e \in Keys : e = edge /\ e \in Nat
  BY <1>1, KeysAreNumbers DEF Inv, TypeInv, PosInv, Position
<1> DEFINE hi == {x \in Keys : x >= e}
<1> DEFINE B(c) == IF pos[c] = None THEN content[c] ELSE Below(c, pos[c])
<1>3. ASSUME NEW c \in Children, c = current \/ turning
      PROVE  /\ B(c) \in SUBSET content[c]
             /\ \A x \in content[c] : \A y \in B(c) : x < y => x \in B(c)
             /\ \A o \in old \cap content[c] : o \in B(c) <=> o \notin hi
  <2>1. \A x \in content[c] : x \in Keys /\ x \in Nat
    BY KeysAreNumbers DEF Inv, TypeInv
  <2>2. pos[c] # None => pos[c] \in Nat
    BY KeysAreNumbers DEF Inv, TypeInv, Position
  <2>3. \A x \in content[c] : \A y \in B(c) : x < y => x \in B(c)
    BY <2>1, <2>2 DEF Below
  <2>4. \A o \in old \cap content[c] : o \in B(c) <=> o \notin hi
    <3> TAKE o \in old \cap content[c]
    <3>1. o \notin hi <=> o < e
      BY <1>2, <2>1
    <3>2. /\ pos[c] = None => o < e
          /\ pos[c] # None => (o < pos[c] <=> o < e)
      BY <1>1, <1>2, <1>3, OldBelow
    <3>3. o \in B(c) <=> pos[c] = None \/ o < pos[c]
      BY DEF Below
    <3> HIDE DEF B, hi
    <3> QED BY <3>1, <3>2, <3>3
  <2> QED BY <2>3, <2>4 DEF Below
<1>4. \A c \in Children :
        IF pos'[c] = None THEN \A o \in old \cap content[c] : o \in hi
        ELSE /\ pos'[c] \in content[c] /\ (pos'[c] \in old => pos'[c] \notin hi)
             /\ \A o \in old \cap content[c] :
                  /\ o \in hi \/ o <= pos'[c]
                  /\ o < pos'[c] => o \notin hi
  <2> TAKE c \in Children
  <2>1. content[c] \in SUBSET Keys /\ old \in SUBSET Keys
    BY DEF Inv, TypeInv
  <2>2. CASE c # current /\ ~turning
    <3>1. pos'[c] = pos[c] /\ direction = "reverse"
      BY <1>1, <2>2 DEF MovePrev
    <3>2. /\ \A o \in old \cap content[c] :
               o >= e \/ (pos[c] # None /\ o <= pos[c])
          /\ pos[c] # None =>
               /\ pos[c] \in content[c]
               /\ pos[c] \in old => pos[c] < e
               /\ \A o \in old \cap content[c] : o < pos[c] => o < e
      BY <1>1, <1>2, <2>2, <3>1 DEF Inv, ReverseInv, PosInv
    <3>3. \A x \in content[c] : /\ x \in Keys
                                /\ x \in hi <=> x >= e
                                /\ x \notin hi <=> x < e
      <4>1. \A x \in content[c] : x \in Keys /\ x \in Nat
        BY <2>1, KeysAreNumbers
      <4> QED BY <1>2, <4>1
    <3> HIDE DEF hi
    <3> QED BY <3>1, <3>2, <3>3
  <2>3. CASE c = current \/ turning
    <3>1. IsLast(pos'[c], B(c))
      BY <2>3 DEF MovePrev
    <3>2. hi \in SUBSET Keys
      OBVIOUS
    <3> DEFINE S == B(c)
    <3>3. S \in SUBSET content[c]
      BY <1>3, <2>3
    <3>4. \A x \in content[c] : \A y \in S : x < y => x \in S
      BY <1>3, <2>3
    <3>5. \A o \in old \cap content[c] : o \in S <=> o \notin hi
      BY <1>3, <2>3
    <3>6. IsLast(pos'[c], S)
      BY <3>1
    <3> HIDE DEF hi, S
    <3>7. \A C \in SUBSET Keys, O \in SUBSET Keys :
            /\ S \in SUBSET C
            /\ \A x \in C : \A y \in S : x < y => x \in S
            /\ \A o \in O \cap C : o \in S <=> o \notin hi
            => IF pos'[c] = None THEN \A o \in O \cap C : o \in hi
               ELSE /\ pos'[c] \in C /\ (pos'[c] \in O => pos'[c] \notin hi)
                    /\ \A o \in O \cap C :
                         /\ o \in hi \/ o <= pos'[c]
                         /\ o < pos'[c] => o \notin hi
      BY <3>2, <3>6, LastPlaced, SMTT(30)
    <3> QED BY <2>1, <3>3, <3>4, <3>5, <3>7
  <2> QED BY <2>2, <2>3
<1>5. key' \in Keys \cup {None}
  BY <1>1 DEF key, Key, FindLargest, Position
<1>6. /\ Inv'
      /\ IF key' = None THEN old \subseteq hi
         ELSE /\ key' \in Keys
              /\ key' \in hi => key' \notin old
              /\ key' \notin hi => \A o \in old : o \in hi \/ o <= key'
  <2>1. hi \in SUBSET Keys /\ \A x \in hi : \A y \in Keys \ hi : x > y
    BY <1>2, KeysAreNumbers
  <2>2. edge' = IF key' \in hi THEN edge ELSE key'
    BY <1>1, <1>2, <1>5, KeysAreNumbers
  <2>3. key' \in hi => edge \in Keys /\ \A x \in Keys : x \in hi <=> x >= edge
    BY <1>2
  <2> HIDE DEF hi
  <2> QED BY <1>1, <1>4, <2>1, <2>2, <2>3, Largest
<1>7. key = Key /\ key # None
  BY <1>1 DEF key, Inv, PosInv
<1>8. direction = "reverse" /\ key' # None => key' < key
  <2> SUFFICES ASSUME direction = "reverse", key' # None PROVE key' < key
    OBVIOUS
  <2>1. current' \in Children /\ key' = pos'[current'] /\ pos'[current'] # None
    BY <1>1 DEF FindLargest, key, Key
  <2>2. ~turning
    BY DEF Inv, PosInv
  <2>3. CASE current' # current
    <3>1. pos'[current'] = pos[current']
      BY <2>1, <2>2, <2>3 DEF MovePrev
    <3> QED BY <1>1, <1>7, <2>1, <2>3, <3>1 DEF Inv, ReverseInv
  <2>4. CASE current' = current
    <3>1. IsLast(pos'[current], Below(current, Key))
      BY <1>1, <1>7, <2>2 DEF MovePrev, Key
    <3>2. pos'[current] \in Below(current, Key)
      BY <2>1, <2>4, <3>1 DEF IsLast
    <3> QED BY <1>7, <2>1, <2>4, <3>2 DEF Below
  <2> QED BY <2>3, <2>4
<1>9. Iter!MovePrev
  <2>1. CASE key' = None
    BY <1>1, <1>2, <1>6, <1>7, <2>1 DEF Iter!MovePrev, Iter!Backward
  <2>2. CASE key' # None
    <3>1. key' \in Keys /\ key' \in Nat
      BY <1>6, <2>2, KeysAreNumbers
    <3>2. CASE key' \in hi
      <4>1. key' >= edge /\ edge' = edge /\ key' \notin old
        BY <1>1, <1>2, <1>6, <2>2, <3>2
      <4> QED BY <1>1, <1>7, <1>8, <2>2, <3>1, <4>1 DEF Iter!MovePrev, Iter!Backward
    <3>3. CASE key' \notin hi
      <4>1. key' < edge /\ edge' = key'
        BY <1>1, <1>2, <3>1, <3>3
      <4>2. \A o \in old : o >= edge \/ o <= key'
        BY <1>2, <1>6, <2>2, <3>3
      <4> QED BY <1>1, <1>7, <2>2, <3>1, <4>1, <4>2 DEF Iter!MovePrev, Iter!Backward
    <3> QED BY <3>2, <3>3
  <2> QED BY <2>1, <2>2
<1> QED BY <1>1, <1>6, <1>9

(* An insertion moves nothing, and its key is not an old one. *)
LEMMA InsertStep ==
  ASSUME Inv, NEW c \in MemTables, NEW k \in Keys, Insert(c, k)
  PROVE  Inv' /\ UNCHANGED <<old, key, edge, direction>>
<1>1. /\ UNCHANGED <<pos, current, direction, turning, old, edge>>
      /\ UNCHANGED key
  BY DEF Insert, key, Key
<1>2. c \in Children /\ content \in [Children -> SUBSET Keys]
  BY MergerAssumption DEF Inv, TypeInv
<1>3. /\ content' \in [Children -> SUBSET Keys]
      /\ content'[c] = content[c] \cup {k}
      /\ \A d \in Children : d # c => content'[d] = content[d]
      /\ \A d \in Children : k \notin content[d]
  BY <1>2 DEF Insert
<1>4. k \notin old
  BY <1>3 DEF Inv, ContentInv
<1>5. \A d \in Children : old \cap content'[d] = old \cap content[d]
  BY <1>3, <1>4
<1>6. TypeInv'
  BY <1>1, <1>3 DEF Inv, TypeInv
<1>7. ContentInv'
  <2>1. Disjoint(content')
    BY <1>3 DEF Inv, ContentInv, Disjoint
  <2>2. \A o \in old : \E d \in Children : o \in content'[d]
    BY <1>5 DEF Inv, ContentInv
  <2> QED BY <1>1, <2>1, <2>2 DEF ContentInv, Disjoint
<1>8. PosInv'
  BY <1>1, <1>3 DEF Inv, PosInv, Key
<1>9. ForwardInv'
  BY <1>1, <1>5 DEF Inv, ForwardInv, Key
<1>10. ReverseInv'
  BY <1>1, <1>5 DEF Inv, ReverseInv, Key
<1> QED BY <1>1, <1>6, <1>7, <1>8, <1>9, <1>10 DEF Inv

-----------------------------------------------------------------------------
(* merger.cc: MergingIterator, over any number of children of which        *)
(* memtables may grow, is an iterator that meets every key there was when  *)
(* it was made in order, in both directions, also when insertions come     *)
(* between the two halves of a Prev that turns round.                      *)
THEOREM MergerImplementsOrderedIter == Spec => ImplementsOrderedIter
<1>1. Init => Inv /\ Iter!Init
  <2> SUFFICES ASSUME Init PROVE Inv /\ Iter!Init
    OBVIOUS
  <2>1. TypeInv
    BY DEF Init, TypeInv, Position
  <2>2. ContentInv
    BY DEF Init, ContentInv
  <2>3. PosInv /\ ForwardInv /\ ReverseInv
    BY DEF Init, PosInv, ForwardInv, ReverseInv
  <2>4. Iter!Init
    BY <2>1 DEF Init, Iter!Init, TypeInv, key
  <2> QED BY <2>1, <2>2, <2>3, <2>4 DEF Inv
<1>2. Inv /\ [Next]_vars => Inv' /\ [Iter!Next]_<<old, key, edge, direction>>
  <2> SUFFICES ASSUME Inv, [Next]_vars
               PROVE  Inv' /\ (Iter!Next \/ UNCHANGED <<old, key, edge, direction>>)
    OBVIOUS
  <2>1. CASE SeekToFirst
    BY <2>1, SeekToFirstStep DEF Iter!Next
  <2>2. CASE SeekToLast
    BY <2>2, SeekToLastStep DEF Iter!Next
  <2>3. CASE MoveNext
    BY <2>3, MoveNextStep DEF Iter!Next
  <2>4. CASE MovePrev
    BY <2>4, MovePrevStep DEF Iter!Next
  <2>5. ASSUME NEW sought \in Keys, Seek(sought)
        PROVE  Inv' /\ Iter!Next
    BY <2>5, SeekStep DEF Iter!Next
  <2>6. ASSUME NEW c \in MemTables, NEW k \in Keys, Insert(c, k)
        PROVE  Inv' /\ UNCHANGED <<old, key, edge, direction>>
    BY <2>6, InsertStep
  <2>7. CASE UNCHANGED vars
    BY <2>7 DEF vars, Inv, TypeInv, ContentInv, PosInv, ForwardInv,
       ReverseInv, Disjoint, Key, key
  <2>8. CASE SeekOthers
    BY <2>8, SeekOthersStep
  <2> QED BY <2>1, <2>2, <2>3, <2>4, <2>5, <2>6, <2>7, <2>8 DEF Next
<1> QED BY <1>1, <1>2, PTL DEF Spec, ImplementsOrderedIter, Iter!Spec

-----------------------------------------------------------------------------
(* The skip list. *)

Nodes == NodeKeys \union {0}
Stores == [val : Int, time : Nat]

(* The values a link had that are addresses of nodes, or null.              *)
Real(n, l) == {v \in links[n][l] : v.val # -1}

(* Every link is a history of stores.  Garbage is only what the memory of a *)
(* new node held, and links lead to greater keys.                           *)
LinkTypes ==
  /\ clock \in Nat
  /\ links \in [Nodes -> [List!Levels -> SUBSET Stores]]
  /\ \A n \in Nodes, l \in List!Levels :
       /\ links[n][l] # {}
       /\ \A v \in links[n][l] :
            /\ v.time <= clock
            /\ v.val = -1 => v.time = 0 /\ n # 0
            /\ v.val # -1 => /\ v.val \in NodeKeys \union {List!Null}
                             /\ v.val > n
                             /\ n # 0 => v.time > 0

(* A link to a node is stored after the links of the node, on its level and *)
(* below.                                                                   *)
TargetsReady ==
  \A n \in Nodes, l \in List!Levels : \A v \in links[n][l] :
    v.val \in NodeKeys =>
      \A m \in List!Levels : m <= l => \E w \in Real(v.val, m) : w.time < v.time

(* Once k has joined a level, no link of it leads past k: what did before   *)
(* has been overwritten by the store of the link to k, or earlier.          *)
NothingSkipped ==
  \A n \in Nodes, l \in List!Levels, k \in NodeKeys :
    \A v \in Real(n, l), u \in Real(k, l) :
      n < k /\ k < v.val =>
        \E w \in links[n][l] : v.time < w.time /\ w.time <= u.time + 1

(* A node is on all levels below the ones it is on.                         *)
LowerLevels ==
  \A n \in NodeKeys, l \in List!Levels :
    Real(n, l) # {} => \A m \in List!Levels : m <= l => Real(n, m) # {}

(* Insert has linked its node on the levels below ins.level; above it its   *)
(* prev is the place for the node.                                          *)
InsertInv ==
  /\ ins.key = 0 \/ ins.key \in NodeKeys
  /\ DOMAIN ins = {"key", "height", "prev", "level"}
  /\ ins.level \in Nat /\ ins.height \in 0..MaxHeight /\ ins.level <= ins.height
  /\ ins.key # 0 =>
       /\ ins.height > 0
       /\ \A l \in List!Levels : l < ins.level =>
            \E u \in Real(ins.key, l) : u.time + 1 <= clock
       /\ \A l \in List!Levels : l >= ins.level =>
            /\ Real(ins.key, l) = {}
            /\ ins.prev[l] \in Nodes /\ ins.prev[l] < ins.key
            /\ ins.prev[l] # 0 => Real(ins.prev[l], l) # {}
            /\ \A k \in NodeKeys : Real(k, l) # {} /\ k < ins.key =>
                 k <= ins.prev[l]

(* The keys on level 0 whose link was stored by the time s.                 *)
Settled(s) == {k \in NodeKeys : \E u \in Real(k, 0) : u.time + 1 <= s}

PresentInv == \A p \in present : p.time \in Nat /\ p.key \in Settled(p.time)

WriterInv ==
  /\ LinkTypes /\ TargetsReady /\ NothingSkipped /\ LowerLevels
  /\ InsertInv /\ PresentInv
  /\ heights \subseteq 1..MaxHeight /\ heights # {}

(* A reader at x that has seen the stores up to s sees links of x, on the   *)
(* levels up to l.                                                          *)
Reached(x, l, s) ==
  x = 0 \/ (x \in NodeKeys /\ \A m \in List!Levels :
                                m <= l => \E w \in Real(x, m) : w.time <= s)

(* What a search that has ended found.                                      *)
Found ==
  LET r == rd.result
  IN  /\ rd.op = "ge" => /\ r # 0 /\ r >= rd.key
                         /\ \A k \in Settled(rd.from) : k >= rd.key => r <= k
      /\ rd.op = "next" => /\ r # 0 /\ r > rd.key
                           /\ \A k \in Settled(rd.from) : k > rd.key => r <= k
      /\ rd.op = "lt" => /\ r # List!Null /\ r < rd.key
                         /\ \A k \in Settled(rd.from) : k < rd.key => r >= k
      /\ rd.op = "last" => /\ r # List!Null
                           /\ \A k \in Settled(rd.from) : r >= k

ReaderInv ==
  /\ rd \in [op : {"idle", "ge", "lt", "last", "next"}, key : Nodes, x : Nodes,
             level : List!Levels, seen : Nat, from : Nat,
             result : Nodes \union {List!Null}, done : BOOLEAN]
  /\ rd.from <= rd.seen /\ rd.seen <= clock
  /\ rd.op = "idle" => ~rd.done
  /\ rd.op # "idle" /\ ~rd.done =>
       /\ Reached(rd.x, rd.level, rd.seen)
       /\ rd.op \in {"ge", "lt"} => rd.x < rd.key
       /\ rd.op = "next" => rd.x = rd.key /\ rd.level = 0
  /\ rd.result \in NodeKeys => Reached(rd.result, 0, rd.seen)
  /\ rd.done => Found

ListInv == WriterInv /\ ReaderInv

-----------------------------------------------------------------------------
(* Largest elements *)

(* A set of natural numbers has a least element.                            *)
LEMMA LeastNumber ==
  ASSUME NEW T, T \subseteq Nat, T # {}
  PROVE  \E n \in T : \A m \in T : n <= m
<1> DEFINE R == OpToRel(<, Nat)
<1>1. IsWellFoundedOn(R, Nat)
  BY NatLessThanWellFounded
<1>2. \A x, y \in Nat : x < y => <<x, y>> \in R
  BY DEF OpToRel
<1> HIDE DEF R
<1>3. PICK n \in T : \A y \in T : ~(<<y, n>> \in R)
  BY <1>1, WFMin
<1>4. ASSUME NEW m \in T PROVE n <= m
  <2>1. m \in Nat /\ n \in Nat /\ ~(m < n)
    BY <1>2, <1>3
  <2> QED BY <2>1
<1> QED BY <1>4

(* Numbers that are bounded have a largest one.                             *)
LEMMA LargestNumber ==
  ASSUME NEW S, S \subseteq Nat, S # {}, NEW n \in Nat, \A m \in S : m <= n
  PROVE  \E x \in S : \A m \in S : m <= x
<1> DEFINE T == {u \in Nat : \A m \in S : m <= u}
<1>1. n \in T
  OBVIOUS
<1>2. PICK u \in T : \A m \in T : u <= m
  BY <1>1, LeastNumber
<1>3. u \in Nat /\ \A m \in S : m <= u
  OBVIOUS
<1>4. u \in S
  <2> SUFFICES ASSUME u \notin S PROVE FALSE
    OBVIOUS
  <2>1. \A m \in S : m \in Nat /\ m <= u - 1
    BY <1>3
  <2>2. PICK m \in S : TRUE
    OBVIOUS
  <2>3. u - 1 \in Nat
    BY <1>3, <2>1, <2>2
  <2>4. u - 1 \in T
    BY <2>1, <2>3
  <2>5. u <= u - 1
    BY <1>2, <2>4
  <2> QED BY <1>3, <2>5
<1> QED BY <1>3, <1>4

(* A finite set of numbers is bounded: otherwise take the smallest one that *)
(* is not, and an element away from it.                                     *)
LEMMA FiniteBounded ==
  ASSUME NEW S, IsFiniteSet(S), S \subseteq Nat
  PROVE  \E n \in Nat : \A m \in S : m <= n
<1> DEFINE Bounded(D) == \E n \in Nat : \A m \in D : m <= n
           T == {c \in Nat : \E D \in SUBSET S : /\ IsFiniteSet(D)
                                                 /\ Cardinality(D) = c
                                                 /\ ~Bounded(D)}
<1> SUFFICES ASSUME ~Bounded(S) PROVE FALSE
  OBVIOUS
<1>1. Cardinality(S) \in T
  BY FS_CardinalityType
<1>2. PICK c \in T : \A d \in T : c <= d
  BY <1>1, LeastNumber
<1>3. PICK D \in SUBSET S : IsFiniteSet(D) /\ Cardinality(D) = c /\ ~Bounded(D)
  OBVIOUS
<1>4. D # {}
  BY <1>3
<1>5. PICK y \in D : y \in Nat
  BY <1>4
<1>6. IsFiniteSet(D \ {y}) /\ Cardinality(D \ {y}) = c - 1
  BY <1>3, <1>5, FS_RemoveElement
<1>7. c - 1 \in Nat /\ c \in Nat
  BY <1>6, FS_CardinalityType
<1>8. Bounded(D \ {y})
  <2> HIDE DEF Bounded
  <2> SUFFICES ASSUME ~Bounded(D \ {y}) PROVE FALSE
    OBVIOUS
  <2>1. c - 1 \in T
    BY <1>6, <1>7
  <2>2. c <= c - 1
    BY <1>2, <2>1
  <2> QED BY <1>7, <2>2
<1>9. PICK n \in Nat : \A m \in D \ {y} : m <= n
  BY <1>8
<1>10. CASE y <= n
  BY <1>3, <1>9, <1>10
<1>11. CASE ~(y <= n)
  <2>1. \A m \in D : m <= y
    BY <1>5, <1>9, <1>11
  <2> QED BY <1>3, <1>5, <2>1
<1> QED BY <1>10, <1>11

(* The null pointer sorts behind all keys.                                  *)
LEMMA NullIsLast ==
  /\ List!Null \in Nat \ {0} /\ List!Null \notin Nodes
  /\ \A n \in Nodes : n \in Nat /\ n < List!Null
  /\ 0 \notin NodeKeys /\ NodeKeys \subseteq Nat
<1>1. NodeKeys \subseteq Nat \ {0} /\ IsFiniteSet(NodeKeys)
  BY ListAssumption DEF List!SkipListAssumption, List!IsFiniteSet, IsFiniteSet
<1>2. IsFiniteSet(Nodes) /\ Nodes \subseteq Nat /\ Nodes # {}
  BY <1>1, FS_AddElement DEF Nodes
<1>3. PICK b \in Nat : \A m \in Nodes : m <= b
  BY <1>2, FiniteBounded
<1>4. \E x \in Nodes : \A m \in Nodes : m <= x
  BY <1>2, <1>3, LargestNumber
<1>5. \E x \in Nodes : \A m \in Nodes : x >= m
  BY <1>2, <1>4
<1> DEFINE top == CHOOSE x \in Nodes : \A m \in Nodes : x >= m
<1>6. top \in Nodes /\ \A m \in Nodes : top >= m
  BY <1>5
<1>7. List!Null = top + 1
  BY DEF List!Null, List!Max, Nodes
<1> HIDE DEF top
<1> QED BY <1>1, <1>2, <1>6, <1>7

(* What the parameters of the list are.                                     *)
LEMMA LevelFacts ==
  /\ MaxHeight \in Nat \ {0} /\ List!Levels = 0..(MaxHeight - 1)
  /\ List!Head = 0 /\ List!Garbage = -1
BY ListAssumption DEF List!SkipListAssumption, List!Levels, List!Head, List!Garbage

(* The Max of some nodes is one of them, and the greatest.                  *)
LEMMA MaxNode ==
  ASSUME NEW S \in SUBSET Nodes, S # {}
  PROVE  List!Max(S) \in S /\ \A m \in S : m <= List!Max(S)
<1>1. S \subseteq Nat /\ List!Null \in Nat /\ \A m \in S : m <= List!Null
  BY NullIsLast
<1>2. \E x \in S : \A m \in S : m <= x
  BY <1>1, LargestNumber
<1>3. \E x \in S : \A m \in S : x >= m
  BY <1>1, <1>2
<1>4. List!Max(S) \in S /\ \A m \in S : List!Max(S) >= m
  BY <1>3 DEF List!Max
<1> QED BY <1>1, <1>4

(* The later of two times.                                                  *)
LEMMA MaxOfTwo ==
  ASSUME NEW a \in Nat, NEW b \in Nat
  PROVE  /\ List!Max({a, b}) \in {a, b}
         /\ a <= List!Max({a, b}) /\ b <= List!Max({a, b})
<1>1. \E x \in {a, b} : \A m \in {a, b} : x >= m
  OBVIOUS
<1>2. List!Max({a, b}) \in {a, b} /\ \A m \in {a, b} : List!Max({a, b}) >= m
  BY <1>1 DEF List!Max
<1> QED BY <1>2

(* Stores have times.                                                       *)
LEMMA RealTime ==
  ASSUME LinkTypes, NEW n \in Nodes, NEW l \in List!Levels, NEW w \in Real(n, l)
  PROVE  w.time \in Nat /\ w.time <= clock
<1>1. w \in links[n][l] /\ links[n][l] \in SUBSET Stores
  BY DEF LinkTypes, Real
<1> QED BY <1>1 DEF Stores, LinkTypes

(* What the writer finds in a link is the value it stored last.             *)
LEMMA LatestIs ==
  ASSUME LinkTypes, NEW n \in Nodes, NEW l \in List!Levels
  PROVE  \E v \in links[n][l] : /\ List!Latest(n, l) = v.val
                                /\ \A w \in links[n][l] : w.time <= v.time
<1> DEFINE vs == links[n][l]
           S == {v.time : v \in vs}
<1>1. vs # {} /\ vs \in SUBSET Stores /\ clock \in Nat
      /\ \A v \in vs : v.time <= clock
  BY DEF LinkTypes
<1>2. \A v \in vs : v.time \in Nat
  BY <1>1 DEF Stores
<1>3. S \subseteq Nat /\ S # {} /\ \A m \in S : m <= clock
  BY <1>1, <1>2
<1>4. PICK x \in S : \A m \in S : m <= x
  BY <1>1, <1>3, LargestNumber
<1>5. PICK v \in vs : v.time = x
  OBVIOUS
<1>6. \E u \in vs : \A w \in vs : w.time <= u.time
  BY <1>4, <1>5
<1> DEFINE top == CHOOSE u \in vs : \A w \in vs : w.time <= u.time
<1>7. top \in vs /\ \A w \in vs : w.time <= top.time
  BY <1>6
<1>8. List!Latest(n, l) = top.val
  BY DEF List!Latest
<1> HIDE DEF top
<1> QED BY <1>7, <1>8

(* The writer knows a node to be on a level once it has stored its link     *)
(* there, and then reads a real value.                                      *)
LEMMA LatestReal ==
  ASSUME LinkTypes, NEW n \in Nodes, NEW l \in List!Levels
  PROVE  (List!Latest(n, l) # -1) <=> (Real(n, l) # {})
<1>1. PICK v \in links[n][l] : /\ List!Latest(n, l) = v.val
                              /\ \A w \in links[n][l] : w.time <= v.time
  BY LatestIs
<1>2. n = 0 => \A w \in links[n][l] : w.val # -1
  BY DEF LinkTypes
<1>3. ASSUME v.val = -1, NEW w \in Real(n, l) PROVE FALSE
  <2>1. w \in links[n][l] /\ w.val # -1
    BY <1>3 DEF Real
  <2>2. n # 0 /\ v.time = 0
    BY <1>2, <1>3 DEF LinkTypes
  <2>3. w.time > 0 /\ w.time <= v.time /\ w.time \in Nat
    BY <1>1, <2>1, <2>2 DEF LinkTypes, Stores
  <2> QED BY <2>2, <2>3
<1>4. v.val # -1 => v \in Real(n, l)
  BY DEF Real
<1> QED BY <1>1, <1>3, <1>4

(* The nodes of a level.                                                    *)
LEMMA OnLevelIs ==
  ASSUME LinkTypes, NEW l \in List!Levels
  PROVE  List!OnLevel(l) = {n \in NodeKeys : Real(n, l) # {}}
BY LatestReal, LevelFacts DEF List!OnLevel, Nodes
-----------------------------------------------------------------------------
(* The writer of the skip list *)

(* The list is empty.                                                       *)
LEMMA ListInit == List!Init => ListInv
<1> SUFFICES ASSUME List!Init PROVE ListInv
  OBVIOUS
<1> USE LevelFacts, NullIsLast
<1>1. \A n \in Nodes, l \in List!Levels :
        links[n][l] = {[val |-> IF n = 0 THEN List!Null ELSE -1, time |-> 0]}
  BY DEF List!Init, Nodes
<1>2. \A n \in NodeKeys, l \in List!Levels : Real(n, l) = {}
  BY <1>1 DEF Real, Nodes
<1>3. clock = 0 /\ heights = {1} /\ ins = List!Idle /\ present = {}
      /\ rd = [op |-> "idle", key |-> 0, x |-> 0, level |-> 0, seen |-> 0,
               from |-> 0, result |-> 0, done |-> FALSE]
  BY DEF List!Init
<1>4. LinkTypes
  <2>1. links \in [Nodes -> [List!Levels -> SUBSET Stores]]
    <3>1. DOMAIN links = Nodes /\ links = [n \in Nodes |-> links[n]]
      BY DEF List!Init, Nodes
    <3>2. \A n \in Nodes : links[n] = [l \in List!Levels |->
             {[val |-> IF n = 0 THEN List!Null ELSE -1, time |-> 0]}]
      BY DEF List!Init, Nodes
    <3>3. \A n \in Nodes : [val |-> IF n = 0 THEN List!Null ELSE -1, time |-> 0]
                             \in Stores
      BY DEF Stores
    <3>4. ASSUME NEW n \in Nodes
          PROVE  links[n] \in [List!Levels -> SUBSET Stores]
      <4> DEFINE v == [val |-> IF n = 0 THEN List!Null ELSE -1, time |-> 0]
      <4>1. v \in Stores
        BY <3>3
      <4>2. links[n] = [l \in List!Levels |-> {v}]
        BY <3>2
      <4> HIDE DEF v
      <4> QED BY <4>1, <4>2
    <3> QED BY <3>1, <3>4
  <2>2. ASSUME NEW n \in Nodes, NEW l \in List!Levels
        PROVE  /\ links[n][l] # {}
               /\ \A v \in links[n][l] :
                    /\ v.time = 0
                    /\ n = 0 => v.val = List!Null
                    /\ n # 0 => v.val = -1
    <3> DEFINE w == [val |-> IF n = 0 THEN List!Null ELSE -1, time |-> 0]
    <3>1. w.time = 0 /\ (n = 0 => w.val = List!Null) /\ (n # 0 => w.val = -1)
      OBVIOUS
    <3>2. links[n][l] = {w}
      BY <1>1
    <3> HIDE DEF w
    <3> QED BY <3>1, <3>2
  <2>3. ASSUME NEW n \in Nodes, NEW l \in List!Levels, NEW v \in links[n][l]
        PROVE  /\ v.val = -1 => v.time = 0 /\ n # 0
               /\ v.val # -1 => /\ v.val \in NodeKeys \union {List!Null}
                                /\ v.val > n
                                /\ n # 0 => v.time > 0
    BY <2>2
  <2> QED BY <1>3, <2>1, <2>2, <2>3 DEF LinkTypes
<1>5. TargetsReady /\ NothingSkipped /\ LowerLevels
  <2>1. TargetsReady
    BY <1>1 DEF TargetsReady, Nodes
  <2>2. NothingSkipped
    BY <1>2 DEF NothingSkipped
  <2> QED BY <1>2, <2>1, <2>2 DEF LowerLevels
<1>6. InsertInv
  BY <1>3 DEF InsertInv, List!Idle
<1>7. PresentInv /\ heights \subseteq 1..MaxHeight /\ heights # {}
  BY <1>3 DEF PresentInv
<1>8. ReaderInv
  BY <1>3 DEF ReaderInv, Nodes
<1> QED BY <1>4, <1>5, <1>6, <1>7, <1>8 DEF ListInv, WriterInv

(* Insert finds the place of its node before it stores anything.            *)
LEMMA BeginInsertKeeps ==
  ASSUME ListInv, NEW k \in NodeKeys, NEW h \in 1..MaxHeight,
         List!BeginInsert(k, h)
  PROVE  ListInv'
<1> USE LevelFacts, NullIsLast
<1>1. UNCHANGED <<clock, links, present, rd>>
  BY DEF List!BeginInsert
<1>2. \A n, l : Real(n, l)' = Real(n, l)
  BY <1>1 DEF Real
<1>3. (LinkTypes /\ TargetsReady /\ NothingSkipped /\ LowerLevels)'
  <2>1. LinkTypes'
    BY <1>1 DEF ListInv, WriterInv, LinkTypes
  <2>2. TargetsReady'
    BY <1>1, <1>2 DEF ListInv, WriterInv, TargetsReady
  <2>3. NothingSkipped'
    BY <1>1, <1>2 DEF ListInv, WriterInv, NothingSkipped
  <2> QED BY <1>2, <2>1, <2>2, <2>3 DEF ListInv, WriterInv, LowerLevels
<1>4. (PresentInv /\ ReaderInv)'
  BY <1>1, <1>2 DEF ListInv, WriterInv, PresentInv, Settled, ReaderInv, Reached,
                    Found
<1>5. (heights \subseteq 1..MaxHeight /\ heights # {})'
  BY DEF List!BeginInsert, ListInv, WriterInv
<1>6. ins' = [key |-> k, height |-> h,
              prev |-> [l \in List!Levels |-> List!PrevOf(k, l)], level |-> 0]
  BY DEF List!BeginInsert
<1>7. ASSUME NEW l \in List!Levels
      PROVE  /\ Real(k, l) = {}
             /\ List!PrevOf(k, l) \in Nodes /\ List!PrevOf(k, l) < k
             /\ List!PrevOf(k, l) # 0 => Real(List!PrevOf(k, l), l) # {}
             /\ \A n \in NodeKeys : Real(n, l) # {} /\ n < k =>
                  n <= List!PrevOf(k, l)
  <2> DEFINE S == {0} \union {n \in List!OnLevel(l) : n < k}
  <2>1. Real(k, l) = {}
    <3>1. 0 \in List!Levels /\ 0 <= l
      OBVIOUS
    <3>2. Real(k, 0) = {}
      BY <3>1, OnLevelIs DEF List!BeginInsert, ListInv, WriterInv
    <3> QED BY <3>1, <3>2 DEF ListInv, WriterInv, LowerLevels
  <2>2. List!OnLevel(l) = {n \in NodeKeys : Real(n, l) # {}}
    BY OnLevelIs DEF ListInv, WriterInv
  <2>3. S \in SUBSET Nodes /\ S # {}
    BY <2>2 DEF Nodes
  <2>4. List!PrevOf(k, l) = List!Max(S)
    BY DEF List!PrevOf
  <2>5. List!Max(S) \in S /\ \A m \in S : m <= List!Max(S)
    BY <2>3, MaxNode
  <2> DEFINE p == List!PrevOf(k, l)
  <2>6. p \in S /\ \A m \in S : m <= p
    BY <2>4, <2>5
  <2> HIDE DEF p
  <2>7. p \in Nodes /\ p < k /\ (p # 0 => Real(p, l) # {})
    BY <2>2, <2>3, <2>6
  <2>8. \A n \in NodeKeys : Real(n, l) # {} /\ n < k => n <= p
    BY <2>2, <2>6
  <2> QED BY <2>1, <2>7, <2>8 DEF p
<1>8. InsertInv'
  BY <1>2, <1>6, <1>7 DEF InsertInv
<1> QED BY <1>3, <1>4, <1>5, <1>8 DEF ListInv, WriterInv

(* Insert returns.                                                          *)
LEMMA EndInsertKeeps ==
  ASSUME ListInv, List!EndInsert
  PROVE  ListInv'
<1> USE LevelFacts, NullIsLast
<1>1. UNCHANGED <<clock, links, heights, rd>>
  BY DEF List!EndInsert
<1>2. \A n, l : Real(n, l)' = Real(n, l)
  BY <1>1 DEF Real
<1>3. (LinkTypes /\ TargetsReady /\ NothingSkipped /\ LowerLevels)'
  <2>1. LinkTypes'
    BY <1>1 DEF ListInv, WriterInv, LinkTypes
  <2>2. TargetsReady'
    BY <1>1, <1>2 DEF ListInv, WriterInv, TargetsReady
  <2>3. NothingSkipped'
    BY <1>1, <1>2 DEF ListInv, WriterInv, NothingSkipped
  <2> QED BY <1>2, <2>1, <2>2, <2>3 DEF ListInv, WriterInv, LowerLevels
<1>4. ReaderInv' /\ (heights \subseteq 1..MaxHeight /\ heights # {})'
  BY <1>1, <1>2 DEF ListInv, WriterInv, Settled, ReaderInv, Reached, Found
<1>5. InsertInv'
  BY DEF List!EndInsert, List!Idle, InsertInv
<1>6. ins.key \in Settled(clock)
  <2>1. ins.key \in NodeKeys /\ ins.height > 0 /\ ins.level = ins.height
    BY DEF List!EndInsert, ListInv, WriterInv, InsertInv
  <2>2. 0 \in List!Levels /\ 0 < ins.level
    BY <2>1
  <2> QED BY <2>1, <2>2 DEF Settled, ListInv, WriterInv, InsertInv
<1>7. present' = present \union {[key |-> ins.key, time |-> clock]}
  BY DEF List!EndInsert
<1>8. \A s : Settled(s)' = Settled(s)
  BY <1>2 DEF Settled
<1>9. PresentInv'
  <2>1. [key |-> ins.key, time |-> clock].key \in
          Settled([key |-> ins.key, time |-> clock].time)
    BY <1>6
  <2>2. [key |-> ins.key, time |-> clock].time \in Nat
    BY DEF ListInv, WriterInv, LinkTypes
  <2> QED BY <1>7, <1>8, <2>1, <2>2 DEF PresentInv, ListInv, WriterInv
<1> QED BY <1>3, <1>4, <1>5, <1>9 DEF ListInv, WriterInv
(* Insert stores its node's link on a level and then the link to the node,  *)
(* which takes over where a link of the node before it led.                 *)
LEMMA LinkKeeps ==
  ASSUME ListInv, List!Link
  PROVE  ListInv'
<1>0. PICK k0, l0, p, q, a, b :
        /\ k0 = ins.key /\ l0 = ins.level /\ p = ins.prev[l0]
        /\ q = List!Latest(p, l0)
        /\ a = [val |-> q, time |-> clock + 1]
        /\ b = [val |-> k0, time |-> clock + 2]
  OBVIOUS
<1> USE LevelFacts, NullIsLast
<1>1. /\ k0 \in NodeKeys /\ l0 \in List!Levels /\ l0 < ins.height
      /\ ins.height \in 0..MaxHeight /\ clock \in Nat
      /\ p \in Nodes /\ p < k0 /\ k0 \in Nodes
  <2>1. /\ ins.key \in NodeKeys /\ ins.level \in Nat /\ ins.height \in 0..MaxHeight
        /\ ins.level < ins.height
    BY DEF List!Link, ListInv, WriterInv, InsertInv
  <2>2. ins.level \in List!Levels
    BY <2>1
  <2>3. ins.prev[ins.level] \in Nodes /\ ins.prev[ins.level] < ins.key
    BY <2>1, <2>2 DEF ListInv, WriterInv, InsertInv
  <2>4. clock \in Nat
    BY DEF ListInv, WriterInv, LinkTypes
  <2> QED BY <1>0, <2>1, <2>2, <2>3, <2>4 DEF Nodes
<1>2. /\ Real(k0, l0) = {}
      /\ p # 0 => Real(p, l0) # {}
      /\ \A k \in NodeKeys : Real(k, l0) # {} /\ k < k0 => k <= p
  BY <1>0, <1>1 DEF List!Link, ListInv, WriterInv, InsertInv
<1>3. /\ links' = [links EXCEPT ![k0][l0] = @ \union {a}, ![p][l0] = @ \union {b}]
      /\ clock' = clock + 2
      /\ ins' = [ins EXCEPT !.level = l0 + 1]
      /\ UNCHANGED <<heights, present, rd>>
  BY <1>0 DEF List!Link
<1>4. LinkTypes /\ TargetsReady /\ NothingSkipped /\ LowerLevels
  BY DEF ListInv, WriterInv
<1>5. \A n \in Nodes, l \in List!Levels : \A v \in links[n][l] :
        v.time \in Nat /\ v.time <= clock /\ v.val \in Int
  BY <1>4 DEF LinkTypes, Stores
<1>6. PICK v0 \in links[p][l0] : /\ q = v0.val
                               /\ \A w \in links[p][l0] : w.time <= v0.time
  BY <1>0, <1>1, <1>4, LatestIs
<1>7. v0 \in Real(p, l0)
  <2>1. p = 0 => v0.val # -1
    BY <1>1, <1>4 DEF LinkTypes
  <2>2. p # 0 => v0.val # -1
    BY <1>0, <1>1, <1>2, <1>4, <1>6, LatestReal
  <2> QED BY <2>1, <2>2 DEF Real
<1>8. q \in NodeKeys \union {List!Null} /\ q > p
  BY <1>1, <1>4, <1>6, <1>7 DEF LinkTypes, Real
<1>9. q > k0
  <2>1. CASE q = List!Null
    BY <1>1, <2>1
  <2>2. CASE q \in NodeKeys
    <3>1. Real(q, l0) # {}
      BY <1>1, <1>4, <1>6, <2>2 DEF TargetsReady
    <3>2. q # k0
      BY <1>2, <3>1
    <3>3. q < k0 => q <= p
      BY <1>2, <2>2, <3>1
    <3> QED BY <1>1, <1>8, <2>2, <3>2, <3>3
  <2> QED BY <1>8, <2>1, <2>2
<1>10. a \in Stores /\ b \in Stores
  BY <1>0, <1>1, <1>8 DEF Stores
<1>11. /\ a.val = q /\ a.time = clock + 1
       /\ b.val = k0 /\ b.time = clock + 2
  BY <1>0
<1>12. /\ links' \in [Nodes -> [List!Levels -> SUBSET Stores]]
       /\ \A n \in Nodes, l \in List!Levels :
            links'[n][l] = links[n][l]
                             \union {v \in {a} : n = k0 /\ l = l0}
                             \union {v \in {b} : n = p /\ l = l0}
  <2>1. links \in [Nodes -> [List!Levels -> SUBSET Stores]]
    BY <1>4 DEF LinkTypes
  <2>2. p # k0 /\ links[p] \in [List!Levels -> SUBSET Stores]
        /\ links[k0] \in [List!Levels -> SUBSET Stores]
    BY <1>1, <2>1
  <2>3. /\ DOMAIN links' = Nodes
        /\ links' = [n \in Nodes |-> links'[n]]
        /\ \A n \in Nodes : n # p /\ n # k0 => links'[n] = links[n]
        /\ links'[k0] = [links[k0] EXCEPT ![l0] = @ \union {a}]
        /\ links'[p] = [links[p] EXCEPT ![l0] = @ \union {b}]
    BY <1>1, <1>3, <2>1, <2>2
  <2>4. ASSUME NEW n \in Nodes
        PROVE  /\ links'[n] \in [List!Levels -> SUBSET Stores]
               /\ \A l \in List!Levels :
                    links'[n][l] = links[n][l]
                                     \union {v \in {a} : n = k0 /\ l = l0}
                                     \union {v \in {b} : n = p /\ l = l0}
    <3>1. CASE n = k0
      <4>1. links'[n] = [links[n] EXCEPT ![l0] = links[n][l0] \union {a}]
        BY <2>3, <3>1
      <4>2. /\ links[n] \in [List!Levels -> SUBSET Stores]
            /\ links[n][l0] \union {a} \in SUBSET Stores
        BY <1>1, <1>10, <2>2, <3>1
      <4>3. links'[n] \in [List!Levels -> SUBSET Stores]
        BY <4>1, <4>2
      <4>4. \A l \in List!Levels :
              links'[n][l] = IF l = l0 THEN links[n][l] \union {a} ELSE links[n][l]
        BY <1>1, <4>1, <4>2
      <4> QED BY <2>2, <3>1, <4>3, <4>4
    <3>2. CASE n = p
      <4>1. links'[n] = [links[n] EXCEPT ![l0] = links[n][l0] \union {b}]
        BY <2>3, <3>2
      <4>2. /\ links[n] \in [List!Levels -> SUBSET Stores]
            /\ links[n][l0] \union {b} \in SUBSET Stores
        BY <1>1, <1>10, <2>2, <3>2
      <4>3. links'[n] \in [List!Levels -> SUBSET Stores]
        BY <4>1, <4>2
      <4>4. \A l \in List!Levels :
              links'[n][l] = IF l = l0 THEN links[n][l] \union {b} ELSE links[n][l]
        BY <1>1, <4>1, <4>2
      <4> QED BY <2>2, <3>2, <4>3, <4>4
    <3>3. CASE n # k0 /\ n # p
      BY <2>1, <2>3, <3>3
    <3> QED BY <3>1, <3>2, <3>3
  <2> QED BY <2>3, <2>4
<1>13. \A n \in Nodes, l \in List!Levels : \A v \in links'[n][l] :
         \/ v \in links[n][l]
         \/ v = a /\ n = k0 /\ l = l0
         \/ v = b /\ n = p /\ l = l0
  BY <1>12
<1>14. /\ \A n \in Nodes, l \in List!Levels : links[n][l] \subseteq links'[n][l]
       /\ a \in links'[k0][l0] /\ b \in links'[p][l0]
  BY <1>1, <1>12
<1>15. a.val # -1 /\ b.val # -1
  BY <1>1, <1>8, <1>11
<1>16. /\ \A n \in Nodes, l \in List!Levels : Real(n, l) \subseteq Real(n, l)'
       /\ a \in Real(k0, l0)' /\ b \in Real(p, l0)'
  BY <1>14, <1>15 DEF Real
<1>17. \A n \in Nodes, l \in List!Levels : \A v \in Real(n, l)' :
         \/ v \in Real(n, l)
         \/ v = a /\ n = k0 /\ l = l0
         \/ v = b /\ n = p /\ l = l0
  BY <1>13 DEF Real
<1>18. LinkTypes'
  <2>1. ASSUME NEW n \in Nodes, NEW l \in List!Levels, NEW v \in links'[n][l]
        PROVE  /\ v.time <= clock'
               /\ v.val = -1 => v.time = 0 /\ n # 0
               /\ v.val # -1 => /\ v.val \in NodeKeys \union {List!Null}
                                /\ v.val > n
                                /\ n # 0 => v.time > 0
    <3>1. CASE v \in links[n][l]
      <4>1. /\ v.val = -1 => v.time = 0 /\ n # 0
            /\ v.val # -1 => /\ v.val \in NodeKeys \union {List!Null}
                             /\ v.val > n
                             /\ n # 0 => v.time > 0
        BY <1>4, <3>1 DEF LinkTypes
      <4>2. v.time <= clock'
        BY <1>1, <1>3, <1>5, <3>1
      <4> QED BY <4>1, <4>2
    <3>2. CASE v = a /\ n = k0 /\ l = l0
      BY <1>1, <1>3, <1>8, <1>9, <1>11, <1>15, <3>2
    <3>3. CASE v = b /\ n = p /\ l = l0
      BY <1>1, <1>3, <1>11, <1>15, <3>3
    <3> QED BY <1>13, <3>1, <3>2, <3>3
  <2>2. ASSUME NEW n \in Nodes, NEW l \in List!Levels PROVE links'[n][l] # {}
    <3>1. links[n][l] # {}
      BY <1>4 DEF LinkTypes
    <3> QED BY <1>14, <3>1
  <2>3. clock' \in Nat
    BY <1>1, <1>3
  <2> QED BY <1>12, <2>1, <2>2, <2>3 DEF LinkTypes
<1>19. ASSUME NEW m \in List!Levels, m <= l0
       PROVE  \E w \in Real(k0, m)' : w.time < clock + 2
  <2>1. CASE m < l0
    <3>1. PICK u \in Real(k0, m) : u.time + 1 <= clock
      BY <1>0, <1>1, <2>1 DEF ListInv, WriterInv, InsertInv
    <3>2. u.time \in Nat
      BY <1>1, <1>5, <3>1 DEF Real
    <3> QED BY <1>1, <1>16, <3>1, <3>2
  <2>2. CASE m = l0
    BY <1>1, <1>11, <1>16, <2>2
  <2> QED BY <1>1, <1>19, <2>1, <2>2
<1>20. TargetsReady'
  <2> SUFFICES ASSUME NEW n \in Nodes, NEW l \in List!Levels,
                      NEW v \in links'[n][l], v.val \in NodeKeys,
                      NEW m \in List!Levels, m <= l
               PROVE  \E w \in Real(v.val, m)' : w.time < v.time
    BY DEF TargetsReady
  <2>1. CASE v \in links[n][l]
    <3>1. PICK w \in Real(v.val, m) : w.time < v.time
      BY <1>4, <2>1 DEF TargetsReady
    <3> QED BY <1>16, <3>1 DEF Nodes
  <2>2. CASE v = a /\ n = k0 /\ l = l0
    <3>1. PICK w \in Real(v0.val, m) : w.time < v0.time
      BY <1>1, <1>4, <1>6, <1>11, <2>2 DEF TargetsReady
    <3>2. w.time \in Nat /\ v0.time \in Nat /\ v0.time <= clock
      BY <1>1, <1>5, <1>6, <1>11, <2>2, <3>1 DEF Real, Nodes
    <3>3. w \in Real(v.val, m)'
      BY <1>6, <1>11, <1>16, <2>2, <3>1 DEF Nodes
    <3> QED BY <1>1, <1>11, <2>2, <3>1, <3>2, <3>3
  <2>3. CASE v = b /\ n = p /\ l = l0
    BY <1>11, <1>19, <2>3
  <2> QED BY <1>13, <2>1, <2>2, <2>3
<1>21. NothingSkipped'
  <2> SUFFICES ASSUME NEW n \in Nodes, NEW l \in List!Levels, NEW k \in NodeKeys,
                      NEW v \in Real(n, l)', NEW u \in Real(k, l)',
                      n < k /\ k < v.val
               PROVE  \E w \in links'[n][l] : v.time < w.time /\ w.time <= u.time + 1
    BY DEF NothingSkipped
  <2>1. /\ k \in Nodes /\ n \in Nat /\ k \in Nat /\ p \in Nat /\ k0 \in Nat
        /\ Real(p, l0) \subseteq links[p][l0]
    BY <1>1 DEF Nodes, Real
  <2>2. CASE v \in Real(n, l) /\ u \in Real(k, l)
    BY <1>4, <1>14, <2>2 DEF NothingSkipped
  <2>3. CASE v \in Real(n, l) /\ u \notin Real(k, l)
    <3>1. l = l0 /\ (k = k0 \/ k = p) /\ u.time >= clock + 1
      BY <1>1, <1>11, <1>17, <2>1, <2>3
    <3>2. v \in links[n][l] /\ v.time \in Nat /\ v.time <= clock /\ v.val \in Int
      BY <1>5, <2>3 DEF Real
    <3>9. u.time \in Nat
      BY <1>1, <1>11, <1>17, <2>1, <2>3
    <3>3. CASE n = p
      <4>1. k = k0 /\ u = a
        BY <1>1, <1>17, <2>1, <2>3, <3>1, <3>3
      <4> QED BY <1>1, <1>11, <1>14, <3>1, <3>2, <3>3, <4>1
    <3>4. CASE n # p
      <4>1. n < k0
        BY <1>1, <2>1, <3>1
      <4>2. n # 0 => n \in NodeKeys /\ Real(n, l0) # {}
        BY <2>3, <3>1 DEF Nodes
      <4>3. n # 0 => n <= p
        BY <1>2, <4>1, <4>2
      <4>4. n < p /\ p # 0 /\ p \in NodeKeys /\ p < v.val
        <5>1. n < p
          BY <2>1, <3>4, <4>3
        <5>2. p # 0 /\ p \in NodeKeys
          BY <1>1, <2>1, <5>1 DEF Nodes
        <5>3. p < v.val
          BY <1>1, <2>1, <3>1, <3>2
        <5> QED BY <5>1, <5>2, <5>3
      <4>5. PICK u0 \in Real(p, l0) : TRUE
        BY <1>2, <4>4
      <4>6. PICK w \in links[n][l] : v.time < w.time /\ w.time <= u0.time + 1
        BY <1>4, <2>3, <3>1, <4>4 DEF NothingSkipped
      <4>7. u0.time \in Nat /\ u0.time <= clock /\ w.time \in Nat
        BY <1>1, <1>5, <2>1
      <4>8. w.time <= u.time + 1
        BY <1>1, <3>1, <3>9, <4>6, <4>7
      <4> QED BY <1>14, <4>6, <4>8
    <3> QED BY <3>3, <3>4
  <2>4. CASE v \notin Real(n, l)
    <3>1. l = l0 /\ ((v = a /\ n = k0) \/ (v = b /\ n = p))
      BY <1>17, <2>4
    <3>2. k # k0 /\ k # p
      BY <1>1, <1>11, <2>1, <3>1
    <3>3. u \in Real(k, l0)
      BY <1>17, <2>1, <3>1, <3>2
    <3>4. CASE v = b /\ n = p
      <4>1. k <= p
        BY <1>2, <1>11, <3>3, <3>4
      <4> QED BY <2>1, <3>4, <4>1
    <3>5. CASE v = a /\ n = k0
      <4>1. p < k /\ k < v0.val
        BY <1>1, <1>6, <1>11, <2>1, <3>5
      <4>2. PICK w \in links[p][l0] : v0.time < w.time
        BY <1>1, <1>4, <1>7, <3>3, <4>1 DEF NothingSkipped
      <4> QED BY <1>1, <1>5, <1>6, <4>2
    <3> QED BY <3>1, <3>4, <3>5
  <2> QED BY <2>2, <2>3, <2>4
<1>22. LowerLevels'
  <2> SUFFICES ASSUME NEW n \in NodeKeys, NEW l \in List!Levels, Real(n, l)' # {},
                      NEW m \in List!Levels, m <= l
               PROVE  Real(n, m)' # {}
    BY DEF LowerLevels
  <2>1. CASE Real(n, l) # {}
    <3>1. Real(n, m) # {}
      BY <1>4, <2>1 DEF LowerLevels
    <3> QED BY <1>16, <3>1 DEF Nodes
  <2>2. CASE Real(n, l) = {}
    <3>1. l = l0 /\ (n = k0 \/ n = p)
      BY <1>17, <2>2 DEF Nodes
    <3>2. n = k0
      BY <1>2, <2>2, <3>1
    <3> QED BY <1>19, <3>1, <3>2
  <2> QED BY <2>1, <2>2
<1>23. ASSUME NEW l \in List!Levels, l # l0, NEW n \in Nodes
       PROVE  Real(n, l)' = Real(n, l)
  BY <1>16, <1>17, <1>23
<1>24. InsertInv'
  <2>1. /\ ins'.key = k0 /\ ins'.level = l0 + 1 /\ ins'.height = ins.height
        /\ ins'.prev = ins.prev
        /\ DOMAIN ins' = {"key", "height", "prev", "level"}
    BY <1>0, <1>1, <1>3 DEF ListInv, WriterInv, InsertInv
  <2>2. ASSUME NEW l \in List!Levels, l < l0 + 1
        PROVE  \E u \in Real(k0, l)' : u.time + 1 <= clock'
    <3>1. PICK u \in Real(k0, l)' : u.time < clock + 2
      BY <1>1, <1>19, <2>2
    <3>2. u.time \in Int
      <4>1. u \in links'[k0][l] /\ links'[k0][l] \in SUBSET Stores
        BY <1>1, <1>12 DEF Real
      <4> QED BY <4>1 DEF Stores
    <3> QED BY <1>1, <1>3, <3>1, <3>2
  <2>3. ASSUME NEW l \in List!Levels, l >= l0 + 1
        PROVE  /\ Real(k0, l)' = {}
               /\ ins.prev[l] \in Nodes /\ ins.prev[l] < k0
               /\ ins.prev[l] # 0 => \E r : r = ins.prev[l] /\ Real(r, l)' # {}
               /\ \A k \in NodeKeys : Real(k, l)' # {} /\ k < k0 =>
                    k <= ins.prev[l]
    <3>1. l # l0 /\ l >= l0
      BY <1>1, <2>3
    <3>2. /\ Real(k0, l) = {}
          /\ ins.prev[l] \in Nodes /\ ins.prev[l] < k0
          /\ ins.prev[l] # 0 => Real(ins.prev[l], l) # {}
          /\ \A k \in NodeKeys : Real(k, l) # {} /\ k < k0 => k <= ins.prev[l]
      BY <1>0, <1>1, <3>1 DEF ListInv, WriterInv, InsertInv
    <3>3. PICK r \in Nodes : r = ins.prev[l]
      BY <3>2
    <3>5. Real(k0, l)' = Real(k0, l) /\ Real(r, l)' = Real(r, l)
      BY <1>1, <1>23, <3>1
    <3>4. \A k \in NodeKeys : Real(k, l)' = Real(k, l)
      BY <1>23, <3>1 DEF Nodes
    <3> QED BY <3>2, <3>3, <3>4, <3>5
  <2>4. l0 + 1 \in Nat /\ l0 + 1 <= ins.height /\ ins.height > 0
    BY <1>1
  <2>5. (\A l \in List!Levels : l >= ins.level =>
            /\ Real(ins.key, l) = {}
            /\ ins.prev[l] \in Nodes /\ ins.prev[l] < ins.key
            /\ ins.prev[l] # 0 => Real(ins.prev[l], l) # {}
            /\ \A k \in NodeKeys : Real(k, l) # {} /\ k < ins.key =>
                 k <= ins.prev[l])'
    BY <2>1, <2>3 DEF Real
  <2>6. (\A l \in List!Levels : l < ins.level =>
           \E u \in Real(ins.key, l) : u.time + 1 <= clock)'
    BY <2>1, <2>2 DEF Real
  <2> QED BY <1>1, <2>1, <2>4, <2>5, <2>6 DEF InsertInv
<1>25. \A s : Settled(s) \subseteq Settled(s)'
  <2>1. \A k \in NodeKeys : Real(k, 0) \subseteq Real(k, 0)'
    BY <1>1, <1>16 DEF Nodes
  <2> QED BY <2>1 DEF Settled
<1>26. PresentInv'
  BY <1>3, <1>25 DEF PresentInv, ListInv, WriterInv
<1>27. ReaderInv'
  <2>1. ReaderInv
    BY DEF ListInv
  <2>2. rd' = rd /\ rd.from \in Nat /\ rd.seen \in Nat /\ rd.seen <= clock
        /\ rd.from <= rd.seen
    BY <1>3, <2>1 DEF ReaderInv
  <2>3. Settled(rd.from)' = Settled(rd.from)
    <3> SUFFICES ASSUME NEW k \in NodeKeys, NEW u \in Real(k, 0)',
                        u.time + 1 <= rd.from
                 PROVE  u \in Real(k, 0)
      BY <1>25, <2>2 DEF Settled
    <3> QED BY <1>1, <1>11, <1>17, <2>2 DEF Nodes
  <2>4. \A x, l, s : x \in Nodes /\ Reached(x, l, s) => Reached(x, l, s)'
    BY <1>16 DEF Reached, Nodes
  <2>5. Found => Found'
    BY <2>2, <2>3 DEF Found
  <2>6. rd'.from <= rd'.seen /\ rd'.seen <= clock'
    BY <1>1, <1>3, <2>2
  <2>7. rd'.x \in Nodes /\ (rd'.result \in NodeKeys => rd'.result \in Nodes)
    BY <2>1, <2>2 DEF ReaderInv, Nodes
  <2> QED BY <2>1, <2>2, <2>4, <2>5, <2>6, <2>7 DEF ReaderInv
<1>28. (heights \subseteq 1..MaxHeight /\ heights # {})'
  BY <1>3 DEF ListInv, WriterInv
<1> QED BY <1>18, <1>20, <1>21, <1>22, <1>24, <1>26, <1>27, <1>28
        DEF ListInv, WriterInv
-----------------------------------------------------------------------------
(* The reader of the skip list *)

(* A reader's step leaves the writer alone.                                 *)
LEMMA ReaderLeavesWriter ==
  ASSUME WriterInv, UNCHANGED <<clock, links, heights, ins, present>>
  PROVE  /\ WriterInv'
         /\ \A n, l : Real(n, l)' = Real(n, l)
         /\ \A x, l, s : Reached(x, l, s)' <=> Reached(x, l, s)
         /\ \A s : Settled(s)' = Settled(s)
<1>1. \A n, l : Real(n, l)' = Real(n, l)
  BY DEF Real
<1>2. LinkTypes' /\ TargetsReady' /\ NothingSkipped' /\ LowerLevels'
  <2>1. LinkTypes'
    BY DEF WriterInv, LinkTypes
  <2>2. TargetsReady'
    BY <1>1 DEF WriterInv, TargetsReady
  <2>3. NothingSkipped'
    BY <1>1 DEF WriterInv, NothingSkipped
  <2> QED BY <1>1, <2>1, <2>2, <2>3 DEF WriterInv, LowerLevels
<1>3. InsertInv'
  BY DEF WriterInv, InsertInv, Real
<1>4. \A s : Settled(s)' = Settled(s)
  BY <1>1 DEF Settled
<1>5. PresentInv'
  BY <1>4 DEF WriterInv, PresentInv
<1>6. \A x, l, s : Reached(x, l, s)' <=> Reached(x, l, s)
  BY <1>1 DEF Reached
<1> QED BY <1>1, <1>2, <1>3, <1>4, <1>5, <1>6 DEF WriterInv

(* A reader that goes on sees more.                                         *)
LEMMA ReachedLater ==
  ASSUME LinkTypes, NEW x \in Nodes, NEW l, NEW s \in Nat, NEW t \in Nat, s <= t,
         Reached(x, l, s)
  PROVE  Reached(x, l, t)
<1>1. \A m \in List!Levels : \A w \in Real(x, m) : w.time \in Nat
  BY DEF LinkTypes, Real, Stores
<1> QED BY <1>1 DEF Reached

(* Where a reader is, what it may read is a link that was stored.           *)
LEMMA ReadsReal ==
  ASSUME LinkTypes, NEW x \in Nodes, NEW l \in List!Levels, NEW m \in List!Levels,
         m <= l, NEW s \in Nat, Reached(x, l, s),
         NEW v \in List!Readable(x, m, s)
  PROVE  /\ v \in Real(x, m)
         /\ v.val \in NodeKeys \union {List!Null} /\ v.val > x /\ v.time \in Nat
         /\ v.time <= clock
<1>1. v \in links[x][m]
      /\ ~\E w \in links[x][m] : v.time < w.time /\ w.time <= s
  BY DEF List!Readable
<1>2. v.val # -1
  <2> SUFFICES ASSUME v.val = -1 PROVE FALSE
    OBVIOUS
  <2>1. v.time = 0 /\ x # 0
    BY <1>1 DEF LinkTypes
  <2>2. PICK w \in Real(x, m) : w.time <= s
    BY <2>1 DEF Reached
  <2>3. w \in links[x][m] /\ w.time > 0
    BY <2>1 DEF LinkTypes, Real
  <2> QED BY <1>1, <2>1, <2>2, <2>3
<1> QED BY <1>1, <1>2 DEF LinkTypes, Real, Stores

(* On the lowest level it does not lead past a key it has seen inserted.    *)
LEMMA ReadsNext ==
  ASSUME LinkTypes, NothingSkipped, NEW x \in Nodes, NEW s \in Nat,
         NEW f \in Nat, f <= s, NEW v \in List!Readable(x, 0, s),
         v \in Real(x, 0), v.val \in Nat, NEW k \in Settled(f), k > x
  PROVE  v.val <= k
<1> USE NullIsLast, LevelFacts
<1>1. PICK u \in Real(k, 0) : u.time + 1 <= f
  BY DEF Settled
<1>2. k \in NodeKeys /\ k \in Nat /\ x \in Nat /\ k \in Nodes /\ 0 \in List!Levels
  BY DEF Settled, Nodes
<1>3. u.time \in Nat
  BY <1>1, <1>2 DEF Real, LinkTypes, Stores
<1> SUFFICES ASSUME k < v.val PROVE FALSE
  BY <1>2
<1>4. PICK w \in links[x][0] : v.time < w.time /\ w.time <= u.time + 1
  BY <1>1, <1>2 DEF NothingSkipped
<1>5. w.time \in Nat
  BY <1>2 DEF LinkTypes, Stores
<1>6. w.time <= s
  BY <1>1, <1>3, <1>4, <1>5
<1> QED BY <1>4, <1>6 DEF List!Readable

(* A search begins at the head, on the height it read.                      *)
LEMMA BeginSearchKeeps ==
  ASSUME ListInv, NEW op \in {"ge", "lt", "last"}, NEW sk \in Nodes,
         op \in {"ge", "lt"} => sk \in NodeKeys, List!BeginSearch(op, sk)
  PROVE  ListInv'
<1> USE LevelFacts, NullIsLast
<1>1. WriterInv /\ ReaderInv /\ rd.op = "idle"
      /\ UNCHANGED <<clock, links, heights, ins, present>>
  BY DEF ListInv, List!BeginSearch
<1>2. PICK s \in List!Sees(rd), h \in heights :
        rd' = [op |-> op, key |-> sk, x |-> 0, level |-> h - 1, seen |-> s,
               from |-> s, result |-> rd.result, done |-> FALSE]
  BY DEF List!BeginSearch
<1>3. s \in Nat /\ s <= clock /\ rd.seen \in Nat /\ rd.seen <= s
  BY <1>1 DEF List!Sees, ReaderInv, WriterInv, LinkTypes
<1>4. h - 1 \in List!Levels
  BY <1>1 DEF WriterInv
<1>5. rd.result \in Nodes \union {List!Null}
      /\ (rd.result \in NodeKeys => Reached(rd.result, 0, s))
  BY <1>1, <1>3, ReachedLater DEF ReaderInv, WriterInv, Nodes
<1>6. /\ rd' \in [op : {"idle", "ge", "lt", "last", "next"}, key : Nodes, x : Nodes,
                  level : List!Levels, seen : Nat, from : Nat,
                  result : Nodes \union {List!Null}, done : BOOLEAN]
      /\ rd'.op = op /\ rd'.key = sk /\ rd'.x = 0 /\ rd'.level = h - 1
      /\ rd'.seen = s /\ rd'.from = s /\ rd'.result = rd.result /\ ~rd'.done
  BY <1>2, <1>3, <1>4, <1>5 DEF Nodes
<1>7. ReaderInv'
  <2>1. Reached(rd.x, rd.level, rd.seen)'
    BY <1>6 DEF Reached
  <2>2. rd'.result \in NodeKeys => Reached(rd.result, 0, rd.seen)'
    BY <1>1, <1>5, <1>6 DEF Reached, Real
  <2>3. rd'.op \in {"ge", "lt"} => rd'.x < rd'.key
    BY <1>6
  <2> QED BY <1>1, <1>3, <1>6, <2>1, <2>2, <2>3 DEF ReaderInv
<1> QED BY <1>1, <1>7, ReaderLeavesWriter DEF ListInv

(* Next goes on from the node that was found.                               *)
LEMMA BeginNextKeeps ==
  ASSUME ListInv, List!BeginNext
  PROVE  ListInv'
<1> USE LevelFacts, NullIsLast
<1>1. WriterInv /\ ReaderInv /\ rd.op = "idle" /\ rd.result \in NodeKeys
      /\ UNCHANGED <<clock, links, heights, ins, present>>
  BY DEF ListInv, List!BeginNext
<1>2. PICK s \in List!Sees(rd) :
        rd' = [rd EXCEPT !.op = "next", !.key = rd.result, !.x = rd.result,
                         !.level = 0, !.seen = s, !.from = s]
  BY DEF List!BeginNext
<1>3. s \in Nat /\ s <= clock /\ rd.seen \in Nat /\ rd.seen <= s
  BY <1>1 DEF List!Sees, ReaderInv, WriterInv, LinkTypes
<1>4. /\ rd \in [op : {"idle", "ge", "lt", "last", "next"}, key : Nodes, x : Nodes,
                 level : List!Levels, seen : Nat, from : Nat,
                 result : Nodes \union {List!Null}, done : BOOLEAN]
      /\ rd.result \in Nodes /\ 0 \in List!Levels /\ ~rd.done
  BY <1>1 DEF ReaderInv, Nodes
<1>5. Reached(rd.result, 0, s)
  BY <1>1, <1>3, ReachedLater DEF ReaderInv, WriterInv, Nodes
<1>6. /\ rd' \in [op : {"idle", "ge", "lt", "last", "next"}, key : Nodes, x : Nodes,
                  level : List!Levels, seen : Nat, from : Nat,
                  result : Nodes \union {List!Null}, done : BOOLEAN]
      /\ rd'.op = "next" /\ rd'.key = rd.result /\ rd'.x = rd.result
      /\ rd'.level = 0 /\ rd'.seen = s /\ rd'.from = s /\ rd'.result = rd.result
      /\ ~rd'.done
  BY <1>2, <1>3, <1>4
<1>7. ReaderInv'
  <2>1. Reached(rd.x, rd.level, rd.seen)' /\ Reached(rd.result, 0, rd.seen)'
    BY <1>1, <1>5, <1>6 DEF Reached, Real
  <2> QED BY <1>1, <1>3, <1>6, <2>1 DEF ReaderInv
<1> QED BY <1>1, <1>7, ReaderLeavesWriter DEF ListInv

(* The caller takes the result.                                             *)
LEMMA EndSearchKeeps ==
  ASSUME ListInv, List!EndSearch
  PROVE  ListInv'
<1> USE LevelFacts, NullIsLast
<1>1. WriterInv /\ ReaderInv
      /\ UNCHANGED <<clock, links, heights, ins, present>>
  BY DEF ListInv, List!EndSearch
<1>2. rd' = [rd EXCEPT !.op = "idle", !.done = FALSE, !.key = 0, !.x = 0,
                       !.from = 0]
  BY DEF List!EndSearch
<1>3. /\ rd' \in [op : {"idle", "ge", "lt", "last", "next"}, key : Nodes, x : Nodes,
                  level : List!Levels, seen : Nat, from : Nat,
                  result : Nodes \union {List!Null}, done : BOOLEAN]
      /\ rd'.op = "idle" /\ rd'.seen = rd.seen /\ rd'.from = 0
      /\ rd'.result = rd.result /\ ~rd'.done
  BY <1>1, <1>2 DEF Nodes, ReaderInv
<1>4. ReaderInv'
  <2>1. rd'.result \in NodeKeys => Reached(rd.result, 0, rd.seen)'
    BY <1>1, <1>3 DEF Reached, Real, ReaderInv
  <2> QED BY <1>1, <1>3, <2>1 DEF ReaderInv
<1> QED BY <1>1, <1>4, ReaderLeavesWriter DEF ListInv

(* One load of a search: it goes on to the node it read, down a level, or   *)
(* ends.                                                                    *)
LEMMA SearchStepKeeps ==
  ASSUME ListInv, List!SearchStep
  PROVE  ListInv'
<1> USE LevelFacts, NullIsLast
<1>1. /\ WriterInv /\ ReaderInv /\ LinkTypes /\ TargetsReady /\ NothingSkipped
      /\ UNCHANGED <<clock, links, heights, ins, present>>
  BY DEF ListInv, WriterInv, List!SearchStep
<1>2. /\ rd \in [op : {"idle", "ge", "lt", "last", "next"}, key : Nodes, x : Nodes,
                 level : List!Levels, seen : Nat, from : Nat,
                 result : Nodes \union {List!Null}, done : BOOLEAN]
      /\ rd.op # "idle" /\ ~rd.done
      /\ rd.from <= rd.seen /\ rd.seen <= clock /\ clock \in Nat
  BY <1>1 DEF List!SearchStep, ReaderInv, LinkTypes
<1>3. /\ Reached(rd.x, rd.level, rd.seen)
      /\ rd.op \in {"ge", "lt"} => rd.x < rd.key
      /\ rd.op = "next" => rd.x = rd.key /\ rd.level = 0
      /\ rd.result \in NodeKeys => Reached(rd.result, 0, rd.seen)
  BY <1>1, <1>2 DEF ReaderInv
<1> DEFINE S(v) == [rd EXCEPT !.seen = List!SeenAfter(v)]
<1>4. PICK v \in List!Readable(rd.x, rd.level, rd.seen) :
        rd' = CASE List!Advances(v.val) -> [S(v) EXCEPT !.x = v.val]
                [] ~List!Advances(v.val) /\ rd.level > 0 ->
                     [S(v) EXCEPT !.level = @ - 1]
                [] OTHER ->
                     [S(v) EXCEPT !.done = TRUE, !.result =
                        IF rd.op \in {"ge", "next"} THEN v.val ELSE rd.x]
  BY DEF List!SearchStep
<1>5. /\ v \in Real(rd.x, rd.level)
      /\ v.val \in NodeKeys \union {List!Null} /\ v.val > rd.x
      /\ v.time \in Nat /\ v.time <= clock
  BY <1>1, <1>2, <1>3, ReadsReal
<1>6. PICK t : t = List!SeenAfter(v)
  OBVIOUS
<1>7. t \in Nat /\ t <= clock /\ rd.seen <= t /\ v.time <= t
  BY <1>2, <1>5, <1>6, MaxOfTwo DEF List!SeenAfter
<1>8. /\ WriterInv'
      /\ \A x, l, s : Reached(x, l, s)' <=> Reached(x, l, s)
      /\ \A s : Settled(s)' = Settled(s)
  BY <1>1, ReaderLeavesWriter
<1>9. ASSUME v.val \in NodeKeys PROVE Reached(v.val, rd.level, t)
  <2>1. v \in links[rd.x][rd.level]
    BY <1>5 DEF Real
  <2>2. ASSUME NEW m \in List!Levels, m <= rd.level
        PROVE  \E w \in Real(v.val, m) : w.time <= t
    <3>1. PICK w \in Real(v.val, m) : w.time < v.time
      BY <1>1, <1>2, <1>9, <2>1, <2>2 DEF TargetsReady
    <3>2. w.time \in Nat
      BY <1>1, <1>9, <3>1, RealTime DEF Nodes
    <3> QED BY <1>5, <1>7, <3>1, <3>2
  <2> QED BY <1>9, <2>2 DEF Reached
<1>10. rd.result \in NodeKeys => Reached(rd.result, 0, t)
  BY <1>1, <1>2, <1>3, <1>7, ReachedLater DEF Nodes
<1>11. Reached(rd.x, rd.level, t)
  BY <1>1, <1>2, <1>3, <1>7, ReachedLater
<1>12. CASE List!Advances(v.val)
  <2>1. rd' = [rd EXCEPT !.seen = t, !.x = v.val]
    BY <1>2, <1>4, <1>6, <1>12
  <2>2. v.val \in NodeKeys /\ rd.op # "next"
        /\ (rd.op \in {"ge", "lt"} => v.val < rd.key)
    <3>1. rd.op = "ge" => v.val # List!Null /\ v.val < rd.key
      BY <1>12 DEF List!Advances, List!KeyIsAfterNode
    <3>2. rd.op = "lt" => v.val # List!Null /\ ~(v.val >= rd.key)
      BY <1>12 DEF List!Advances
    <3>3. rd.op = "last" => v.val # List!Null
      BY <1>12 DEF List!Advances
    <3>4. rd.op # "next"
      BY <1>12 DEF List!Advances
    <3>5. v.val \in Nat /\ rd.key \in Nat
      BY <1>2, <1>5
    <3> QED BY <1>2, <1>5, <3>1, <3>2, <3>3, <3>4, <3>5
  <2>3. /\ rd' \in [op : {"idle", "ge", "lt", "last", "next"}, key : Nodes,
                    x : Nodes, level : List!Levels, seen : Nat, from : Nat,
                    result : Nodes \union {List!Null}, done : BOOLEAN]
        /\ rd'.op = rd.op /\ rd'.key = rd.key /\ rd'.x = v.val
        /\ rd'.level = rd.level /\ rd'.seen = t /\ rd'.from = rd.from
        /\ rd'.result = rd.result /\ ~rd'.done
    <3>1. v.val \in Nodes
      BY <2>2 DEF Nodes
    <3> QED BY <1>2, <1>7, <2>1, <3>1
  <2>4. ReaderInv'
    <3>1. Reached(rd.x, rd.level, rd.seen)'
      BY <1>1, <1>9, <2>2, <2>3 DEF Reached, Real
    <3>2. rd'.result \in NodeKeys => Reached(rd.result, 0, rd.seen)'
      BY <1>1, <1>10, <2>3 DEF Reached, Real
    <3>3. rd'.from <= rd'.seen /\ rd'.seen <= clock'
      BY <1>1, <1>2, <1>7, <2>3
    <3> QED BY <1>2, <2>2, <2>3, <3>1, <3>2, <3>3 DEF ReaderInv
  <2> QED BY <1>8, <2>4 DEF ListInv
<1>13. CASE ~List!Advances(v.val) /\ rd.level > 0
  <2>1. rd' = [rd EXCEPT !.seen = t, !.level = rd.level - 1]
    BY <1>2, <1>4, <1>6, <1>13
  <2>2. /\ rd' \in [op : {"idle", "ge", "lt", "last", "next"}, key : Nodes,
                    x : Nodes, level : List!Levels, seen : Nat, from : Nat,
                    result : Nodes \union {List!Null}, done : BOOLEAN]
        /\ rd'.op = rd.op /\ rd'.key = rd.key /\ rd'.x = rd.x
        /\ rd'.level = rd.level - 1 /\ rd'.seen = t /\ rd'.from = rd.from
        /\ rd'.result = rd.result /\ ~rd'.done
    <3>1. rd.level - 1 \in List!Levels
      BY <1>2, <1>13
    <3> QED BY <1>2, <1>7, <2>1, <3>1
  <2>3. ReaderInv'
    <3>1. Reached(rd.x, rd.level - 1, t)
      BY <1>2, <1>11 DEF Reached
    <3>2. Reached(rd.x, rd.level, rd.seen)'
      BY <1>1, <2>2, <3>1 DEF Reached, Real
    <3>3. rd'.result \in NodeKeys => Reached(rd.result, 0, rd.seen)'
      BY <1>1, <1>10, <2>2 DEF Reached, Real
    <3>4. rd'.from <= rd'.seen /\ rd'.seen <= clock'
      BY <1>1, <1>2, <1>7, <2>2
    <3>5. rd.op # "next"
      BY <1>2, <1>3, <1>13
    <3> QED BY <1>2, <1>3, <2>2, <3>2, <3>3, <3>4, <3>5 DEF ReaderInv
  <2> QED BY <1>8, <2>3 DEF ListInv
<1>14. CASE ~List!Advances(v.val) /\ ~(rd.level > 0)
  <2>1. rd.level = 0
    BY <1>2, <1>14
  <2>2. PICK r : r = IF rd.op \in {"ge", "next"} THEN v.val ELSE rd.x
    OBVIOUS
  <2>3. rd' = [rd EXCEPT !.seen = t, !.done = TRUE, !.result = r]
    BY <1>2, <1>4, <1>6, <1>14, <2>2
  <2>4. r \in Nodes \union {List!Null}
    BY <1>2, <1>5, <2>2 DEF Nodes
  <2>5. /\ rd' \in [op : {"idle", "ge", "lt", "last", "next"}, key : Nodes,
                    x : Nodes, level : List!Levels, seen : Nat, from : Nat,
                    result : Nodes \union {List!Null}, done : BOOLEAN]
        /\ rd'.op = rd.op /\ rd'.key = rd.key /\ rd'.x = rd.x
        /\ rd'.seen = t /\ rd'.from = rd.from /\ rd'.result = r /\ rd'.done
    BY <1>2, <1>7, <2>3, <2>4
  <2>6. v.val \in Nat /\ rd.x \in Nat /\ rd.key \in Nat /\ rd.key < List!Null
    BY <1>2, <1>5
  <2>7. ASSUME NEW k \in Settled(rd.from), k > rd.x PROVE v.val <= k
    BY <1>1, <1>2, <1>5, <2>1, <2>6, <2>7, ReadsNext
  <2>8. \A k \in Settled(rd.from) : k \in NodeKeys /\ k \in Nat /\ k < List!Null
    BY DEF Settled, Nodes
  <2>9. Found'
    <3>1. CASE rd.op = "ge"
      <4>1. r = v.val /\ r >= rd.key
        BY <1>14, <2>2, <2>6, <3>1 DEF List!Advances, List!KeyIsAfterNode
      <4>2. \A k \in Settled(rd.from) : k >= rd.key => r <= k
        BY <1>3, <2>6, <2>7, <2>8, <3>1, <4>1
      <4>3. r # 0
        BY <1>5, <2>6, <4>1
      <4> QED BY <1>8, <2>5, <3>1, <4>1, <4>2, <4>3 DEF Found
    <3>2. CASE rd.op = "next"
      <4>1. r = v.val /\ r > rd.key
        BY <1>3, <1>5, <2>2, <3>2
      <4>2. \A k \in Settled(rd.from) : k > rd.key => r <= k
        BY <1>3, <2>7, <3>2, <4>1
      <4>3. r # 0
        BY <1>5, <2>6, <4>1
      <4> QED BY <1>8, <2>5, <3>2, <4>1, <4>2, <4>3 DEF Found
    <3>3. CASE rd.op = "lt"
      <4>1. r = rd.x /\ r < rd.key /\ r # List!Null
        BY <1>2, <1>3, <2>2, <3>3
      <4>2. v.val = List!Null \/ v.val >= rd.key
        BY <1>14, <3>3 DEF List!Advances
      <4>3. \A k \in Settled(rd.from) : k < rd.key => r >= k
        BY <2>6, <2>7, <2>8, <4>1, <4>2
      <4> QED BY <1>8, <2>5, <3>3, <4>1, <4>3 DEF Found
    <3>4. CASE rd.op = "last"
      <4>1. r = rd.x /\ r # List!Null
        BY <1>2, <2>2, <3>4
      <4>2. v.val = List!Null
        BY <1>14, <3>4 DEF List!Advances
      <4>3. \A k \in Settled(rd.from) : r >= k
        BY <2>6, <2>7, <2>8, <4>1, <4>2
      <4> QED BY <1>8, <2>5, <3>4, <4>1, <4>3 DEF Found
    <3> QED BY <1>2, <3>1, <3>2, <3>3, <3>4
  <2>10. r \in NodeKeys => Reached(r, 0, t)
    BY <1>9, <1>11, <2>1, <2>2
  <2>11. ReaderInv'
    <3>1. rd'.result \in NodeKeys => Reached(rd.result, 0, rd.seen)'
      BY <1>1, <2>5, <2>10 DEF Reached, Real
    <3>2. rd'.from <= rd'.seen /\ rd'.seen <= clock'
      BY <1>1, <1>2, <1>7, <2>5
    <3> QED BY <1>2, <2>5, <2>9, <3>1, <3>2 DEF ReaderInv
  <2> QED BY <1>8, <2>11 DEF ListInv
<1> QED BY <1>12, <1>13, <1>14

(* What the invariant says of the nodes a search reports.                   *)
LEMMA ListInvReads == ListInv => ListReads
<1> SUFFICES ASSUME ListInv PROVE ListReads
  OBVIOUS
<1> USE LevelFacts, NullIsLast
<1>1. WriterInv /\ ReaderInv /\ LinkTypes
  BY DEF ListInv, WriterInv
<1>2. /\ rd.x \in Nodes /\ rd.level \in List!Levels /\ rd.seen \in Nat
      /\ rd.result \in Nodes \union {List!Null} /\ rd.from \in Nat
  BY <1>1 DEF ReaderInv
<1>3. List!LinksInitialized
  <2> SUFFICES ASSUME rd.op # "idle" /\ ~rd.done, NEW l \in 0..rd.level,
                      NEW v \in List!Readable(rd.x, l, rd.seen)
               PROVE  v.val # -1
    BY DEF List!LinksInitialized
  <2>1. l \in List!Levels /\ l <= rd.level
    BY <1>2
  <2>2. Reached(rd.x, rd.level, rd.seen)
    BY <1>1 DEF ReaderInv
  <2>3. v \in Real(rd.x, l)
    BY <1>1, <1>2, <2>1, <2>2, ReadsReal
  <2> QED BY <2>3 DEF Real
<1>4. rd.result \in NodeKeys => rd.result \in List!Linked
  <2>1. 0 \in List!Levels
    OBVIOUS
  <2>2. List!Linked = {n \in NodeKeys : Real(n, 0) # {}}
    BY <1>1, <2>1, OnLevelIs DEF List!Linked
  <2>3. rd.result \in NodeKeys => Real(rd.result, 0) # {}
    BY <1>1, <2>1 DEF ReaderInv, Reached
  <2> QED BY <2>2, <2>3
<1>5. List!Known \subseteq Settled(rd.from)
  <2> SUFFICES ASSUME NEW p \in present, p.time <= rd.from
               PROVE  p.key \in Settled(rd.from)
    BY DEF List!Known
  <2>1. p.key \in Settled(p.time)
    BY <1>1 DEF WriterInv, PresentInv
  <2>2. PICK u \in Real(p.key, 0) : u.time + 1 <= p.time
    BY <2>1 DEF Settled
  <2>3. p.key \in NodeKeys
    BY <2>1 DEF Settled
  <2>4. u.time \in Nat /\ p.time \in Nat
    <3>1. u.time \in Nat
      <4>1. p.key \in Nodes /\ 0 \in List!Levels
        BY <2>3 DEF Nodes
      <4> QED BY <1>1, <2>2, <4>1, RealTime
    <3>2. p.time \in Nat
      BY <1>1 DEF WriterInv, PresentInv
    <3> QED BY <3>1, <3>2
  <2>5. u.time + 1 <= rd.from
    BY <1>2, <2>2, <2>4
  <2> QED BY <2>2, <2>3, <2>5 DEF Settled
<1>6. rd.done => Found
  BY <1>1 DEF ReaderInv
<1>7. List!FindsNeighbour
  BY <1>2, <1>4, <1>5, <1>6 DEF List!FindsNeighbour, Found, Nodes
<1> QED BY <1>3, <1>7 DEF ListReads

(* Every step of writer and reader keeps the invariant.                     *)
LEMMA ListStep == ListInv /\ [List!Next]_listVars => ListInv'
<1> SUFFICES ASSUME ListInv, [List!Next]_listVars PROVE ListInv'
  OBVIOUS
<1>1. ASSUME NEW k \in NodeKeys, NEW h \in 1..MaxHeight, List!BeginInsert(k, h)
      PROVE  ListInv'
  BY <1>1, BeginInsertKeeps
<1>2. CASE List!Link \/ List!EndInsert
  BY <1>2, LinkKeeps, EndInsertKeeps
<1>3. ASSUME NEW k \in NodeKeys, NEW op \in {"ge", "lt"}, List!BeginSearch(op, k)
      PROVE  ListInv'
  BY <1>3, BeginSearchKeeps DEF Nodes
<1>4. CASE List!BeginSearch("last", 0)
  BY <1>4, BeginSearchKeeps DEF Nodes
<1>5. CASE List!BeginNext \/ List!SearchStep \/ List!EndSearch
  BY <1>5, BeginNextKeeps, SearchStepKeeps, EndSearchKeeps
<1>6. CASE UNCHANGED listVars
  <2>1. UNCHANGED <<clock, links, heights, ins, present>> /\ rd' = rd
    BY <1>6 DEF listVars
  <2>2. ReaderInv'
    BY <2>1 DEF ListInv, ReaderInv, Reached, Real, Found, Settled
  <2> QED BY <2>1, <2>2, ReaderLeavesWriter DEF ListInv
<1> QED BY <1>1, <1>2, <1>3, <1>4, <1>5, <1>6 DEF List!Next

(* ListReads: with one writer and release stores a reader without a lock    *)
(* never follows a link that was not stored, and a search (Seek, Prev,      *)
(* SeekToLast, Next) finds the neighbour among the keys inserted before, at *)
(* whatever height it begins; for any keys and any kMaxHeight.              *)
THEOREM SkipListReads == List!Spec => []ListReads
<1>1. List!Init => ListInv
  BY ListInit
<1>2. ListInv /\ [List!Next]_listVars => ListInv'
  BY ListStep
<1>3. ListInv => ListReads
  BY ListInvReads
<1>4. List!Spec => List!Init /\ [][List!Next]_listVars
  BY DEF List!Spec, List!vars, listVars
<1> QED BY <1>1, <1>2, <1>3, <1>4, PTL

(* The entries of all children.                                             *)
All(u) == u["mem"] \union u["table"]

(* What the children hold: the entries of a memtable or a table, finitely   *)
(* many, whose sequence numbers name them.                                  *)
PartsOK(u) ==
  /\ u \in [DB!Sources -> SUBSET DB!Entries]
  /\ \A c \in DB!Sources : IsFiniteSet(u[c])
  /\ \A a, b \in All(u) : a.seq = b.seq => a = b
  /\ \A c, d \in DB!Sources : \A a \in u[c] : a \in u[d] => c = d

(* The part of each child that the iterator may show.                       *)
VisibleParts == [c \in DB!Sources |-> {e \in store[c] : e.seq <= sequence}]

StoreInv ==
  /\ PartsOK(store)
  /\ \A a \in All(store) : a.seq <= last
  /\ last \in Nat /\ sequence \in Nat /\ sequence <= last

(* The MergingIterator over children that hold S.                           *)
MergerOK(S, m) ==
  /\ m = [pos |-> m.pos, cur |-> m.cur, fwd |-> m.fwd]
  /\ m.pos \in [DB!Sources -> DB!Entries \union {Nil}]
  /\ \A c \in DB!Sources : m.pos[c] # Nil => m.pos[c] \in S[c]
  /\ m.cur \in DB!Sources \union {Nil}
  /\ m.cur # Nil => m.pos[m.cur] # Nil
  /\ m.fwd \in BOOLEAN

-----------------------------------------------------------------------------
(* Assumptions on constants, for use by name.                               *)
LEMMA IterConstants ==
  /\ UserKeys \subseteq Nat /\ Nil \notin UserKeys
  /\ Nil \notin DB!Sources /\ Nil \notin DB!Entries
  /\ Initial \in Nat /\ MaxSeq \in Nat
  /\ DB!Sources = {"mem", "table"}
  /\ \A e \in DB!Entries : e.k \in Nat /\ e.k \in UserKeys /\ e.seq \in Nat
                           /\ e.t \in {"value", "deletion"}
BY IterAssumption DEF DB!DBIterAssumption, DB!Entries, DB!Sources, DB!Types

(* Internal keys of different entries are ordered.                          *)
LEMMA KeyOrder ==
  /\ \A a \in DB!Entries : ~DB!Before(a, a)
  /\ \A a, b \in DB!Entries : DB!Before(a, b) => ~DB!Before(b, a)
  /\ \A a, b, c \in DB!Entries :
       DB!Before(a, b) /\ DB!Before(b, c) => DB!Before(a, c)
  /\ \A a, b \in DB!Entries :
       DB!Before(a, b) \/ DB!Before(b, a) \/ (a.k = b.k /\ a.seq = b.seq)
  /\ \A a, b, c \in DB!Entries :
       ~DB!Before(a, b) /\ ~DB!Before(b, c) => ~DB!Before(a, c)
BY IterConstants DEF DB!Before

(* A finite set of numbers that is not empty has a largest element.         *)
LEMMA FiniteLargest ==
  ASSUME NEW S, IsFiniteSet(S), S \subseteq Nat, S # {}
  PROVE  \E x \in S : \A n \in S : n <= x
<1>1. PICK n \in Nat : \A x \in S : x <= n
  BY FiniteBounded
<1> QED BY <1>1, LargestNumber

(* A function has finitely many values on a finite set.                     *)
LEMMA FiniteValues ==
  ASSUME NEW S, IsFiniteSet(S), NEW f, DOMAIN f = S, f = [x \in S |-> f[x]]
  PROVE  IsFiniteSet({f[x] : x \in S})
<1> DEFINE T == {f[x] : x \in S}
<1>1. f \in Surjection(S, T)
  BY DEF Surjection
<1> QED BY <1>1, FS_Surjection

(* The first and the last of finitely many entries.                         *)
LEMMA Extremes ==
  ASSUME NEW T, T \subseteq DB!Entries, T # {}, IsFiniteSet(T),
         \A a, b \in T : a.seq = b.seq => a = b
  PROVE  /\ \E a \in T : \A b \in T \ {a} : DB!Before(a, b)
         /\ \E a \in T : \A b \in T \ {a} : DB!Before(b, a)
<1> DEFINE Ks == {a.k : a \in T}
           Seqs(n) == {a.seq : a \in {b \in T : b.k = n}}
<1>1. Ks \subseteq Nat /\ Ks # {} /\ IsFiniteSet(Ks)
  <2>1. IsFiniteSet(Ks)
    <3> DEFINE f == [a \in T |-> a.k]
    <3>1. Ks = {f[a] : a \in T}
      OBVIOUS
    <3>2. DOMAIN f = T /\ f = [a \in T |-> f[a]]
      OBVIOUS
    <3> HIDE DEF f, Ks
    <3> QED BY <3>1, <3>2, FiniteValues
  <2> QED BY <2>1, IterConstants
<1>2. \A n \in Ks : Seqs(n) \subseteq Nat /\ Seqs(n) # {}
  BY IterConstants
<1>3. \A n \in Ks : IsFiniteSet(Seqs(n))
  <2> TAKE n \in Ks
  <2> DEFINE D == {b \in T : b.k = n}
             f == [a \in D |-> a.seq]
  <2>1. IsFiniteSet(D)
    BY FS_Subset
  <2>2. Seqs(n) = {f[a] : a \in D}
    OBVIOUS
  <2>3. DOMAIN f = D /\ f = [a \in D |-> f[a]]
    OBVIOUS
  <2> HIDE DEF D, f, Seqs
  <2> QED BY <2>1, <2>2, <2>3, FiniteValues
<1>4. \A a \in T : a.k \in Ks /\ a.seq \in Seqs(a.k) /\ a.k \in Nat /\ a.seq \in Nat
  BY IterConstants
<1>5. \A n \in Ks : \A x \in Seqs(n) : \E a \in T : a.k = n /\ a.seq = x
  OBVIOUS
<1> HIDE DEF Ks, Seqs
<1>6. \E a \in T : \A b \in T \ {a} : DB!Before(a, b)
  <2>1. PICK n \in Ks : \A x \in Ks : n <= x
    BY <1>1, LeastNumber
  <2>2. PICK s \in Seqs(n) : \A x \in Seqs(n) : x <= s
    BY <1>2, <1>3, FiniteLargest
  <2>3. PICK a \in T : a.k = n /\ a.seq = s
    BY <1>5
  <2>4. ASSUME NEW b \in T \ {a} PROVE DB!Before(a, b)
    <3>1. n <= b.k /\ a.seq # b.seq
      BY <1>4, <2>1, <2>4
    <3>2. b.k = n => b.seq <= s
      BY <1>4, <2>2
    <3> QED BY <1>4, <2>3, <3>1, <3>2 DEF DB!Before
  <2> QED BY <2>4
<1>7. \E a \in T : \A b \in T \ {a} : DB!Before(b, a)
  <2>1. PICK n \in Ks : \A x \in Ks : x <= n
    BY <1>1, FiniteLargest
  <2>2. PICK s \in Seqs(n) : \A x \in Seqs(n) : s <= x
    BY <1>2, LeastNumber
  <2>3. PICK a \in T : a.k = n /\ a.seq = s
    BY <1>5
  <2>4. ASSUME NEW b \in T \ {a} PROVE DB!Before(b, a)
    <3>1. b.k <= n /\ a.seq # b.seq
      BY <1>4, <2>1, <2>4
    <3>2. b.k = n => s <= b.seq
      BY <1>4, <2>2
    <3> QED BY <1>4, <2>3, <3>1, <3>2 DEF DB!Before
  <2> QED BY <2>4
<1> QED BY <1>6, <1>7

(* Least and Greatest are what they are called, also of no entries.         *)
LEMMA LeastIs ==
  ASSUME NEW T, T \subseteq DB!Entries, IsFiniteSet(T),
         \A a, b \in T : a.seq = b.seq => a = b
  PROVE  /\ T = {} <=> DB!Least(T) = Nil
         /\ T # {} => /\ DB!Least(T) \in T
                      /\ \A b \in T \ {DB!Least(T)} : DB!Before(DB!Least(T), b)
         /\ T = {} <=> DB!Greatest(T) = Nil
         /\ T # {} => /\ DB!Greatest(T) \in T
                      /\ \A b \in T \ {DB!Greatest(T)} :
                           DB!Before(b, DB!Greatest(T))
<1>1. Nil \notin T
  BY IterConstants
<1>2. CASE T = {}
  BY <1>2 DEF DB!Least, DB!Greatest
<1>3. CASE T # {}
  <2>1. DB!Least(T) \in T /\ \A b \in T \ {DB!Least(T)} : DB!Before(DB!Least(T), b)
    BY <1>3, Extremes DEF DB!Least
  <2>2. DB!Greatest(T) \in T /\ \A b \in T \ {DB!Greatest(T)} :
                                  DB!Before(b, DB!Greatest(T))
    BY <1>3, Extremes DEF DB!Greatest
  <2> QED BY <1>1, <1>3, <2>1, <2>2
<1> QED BY <1>2, <1>3

(* The entries of one child, or of all.                                     *)
LEMMA PartFacts ==
  ASSUME NEW u, PartsOK(u)
  PROVE  /\ \A c \in DB!Sources : /\ u[c] \subseteq DB!Entries
                                  /\ IsFiniteSet(u[c])
                                  /\ u[c] \subseteq All(u)
         /\ All(u) \subseteq DB!Entries /\ IsFiniteSet(All(u))
         /\ \A a, b \in All(u) : a.seq = b.seq => a = b
         /\ \A a \in All(u) : \E c \in DB!Sources : a \in u[c]
<1>1. "mem" \in DB!Sources /\ "table" \in DB!Sources
  BY IterConstants
<1>2. IsFiniteSet(All(u))
  BY <1>1, FS_Union DEF All, PartsOK
<1> QED BY <1>1, <1>2, IterConstants DEF All, PartsOK

(* A search in entries T gives Nil or one of them, and which of them it     *)
(* leaves behind.                                                           *)
LEMMA SearchIs ==
  ASSUME NEW T, T \subseteq DB!Entries, IsFiniteSet(T),
         \A a, b \in T : a.seq = b.seq => a = b,
         NEW e, e.k \in Nat, e.seq \in Nat
  PROVE  /\ DB!SeekIn(T, e) # Nil => DB!SeekIn(T, e) \in T
         /\ \A a \in T : ~DB!Before(a, e) <=>
              DB!SeekIn(T, e) # Nil /\ ~DB!Before(a, DB!SeekIn(T, e))
         /\ DB!After(T, e) # Nil => DB!After(T, e) \in T
         /\ \A a \in T : DB!Before(e, a) <=>
              DB!After(T, e) # Nil /\ ~DB!Before(a, DB!After(T, e))
         /\ DB!LessThan(T, e) # Nil => DB!LessThan(T, e) \in T
         /\ \A a \in T : DB!Before(a, e) <=>
              DB!LessThan(T, e) # Nil /\ ~DB!Before(DB!LessThan(T, e), a)
<1>1. \A a \in T : a.k \in Nat /\ a.seq \in Nat
  BY IterConstants
<1>2. ASSUME NEW D \in SUBSET T
      PROVE  /\ D \subseteq DB!Entries /\ IsFiniteSet(D)
             /\ \A a, b \in D : a.seq = b.seq => a = b
  BY FS_Subset
<1>3. /\ DB!SeekIn(T, e) # Nil => DB!SeekIn(T, e) \in T
      /\ \A a \in T : ~DB!Before(a, e) <=>
           DB!SeekIn(T, e) # Nil /\ ~DB!Before(a, DB!SeekIn(T, e))
  <2> DEFINE D == {a \in T : ~DB!Before(a, e)}
             r == DB!Least(D)
  <2>1. /\ D = {} <=> r = Nil
        /\ D # {} => r \in D /\ \A b \in D \ {r} : DB!Before(r, b)
    BY <1>2, LeastIs
  <2>2. DB!SeekIn(T, e) = r
    BY DEF DB!SeekIn
  <2>3. ASSUME NEW a \in T, ~DB!Before(a, e)
        PROVE  r # Nil /\ ~DB!Before(a, r)
    <3>1. a \in D /\ r \in D /\ r # Nil
      BY <2>1, <2>3
    <3> HIDE DEF r
    <3>2. a = r \/ DB!Before(r, a)
      BY <2>1, <3>1
    <3> QED BY <1>1, <3>1, <3>2 DEF DB!Before
  <2>4. ASSUME NEW a \in T, r # Nil, ~DB!Before(a, r)
        PROVE  ~DB!Before(a, e)
    <3>1. r \in D
      BY <2>1, <2>4
    <3> HIDE DEF r
    <3> QED BY <1>1, <2>4, <3>1 DEF DB!Before
  <2> QED BY <2>1, <2>2, <2>3, <2>4
<1>4. /\ DB!After(T, e) # Nil => DB!After(T, e) \in T
      /\ \A a \in T : DB!Before(e, a) <=>
           DB!After(T, e) # Nil /\ ~DB!Before(a, DB!After(T, e))
  <2> DEFINE D == {a \in T : DB!Before(e, a)}
             r == DB!Least(D)
  <2>1. /\ D = {} <=> r = Nil
        /\ D # {} => r \in D /\ \A b \in D \ {r} : DB!Before(r, b)
    BY <1>2, LeastIs
  <2>2. DB!After(T, e) = r
    BY DEF DB!After
  <2>3. ASSUME NEW a \in T, DB!Before(e, a)
        PROVE  r # Nil /\ ~DB!Before(a, r)
    <3>1. a \in D /\ r \in D /\ r # Nil
      BY <2>1, <2>3
    <3> HIDE DEF r
    <3>2. a = r \/ DB!Before(r, a)
      BY <2>1, <3>1
    <3> QED BY <1>1, <3>1, <3>2 DEF DB!Before
  <2>4. ASSUME NEW a \in T, r # Nil, ~DB!Before(a, r)
        PROVE  DB!Before(e, a)
    <3>1. r \in D
      BY <2>1, <2>4
    <3> HIDE DEF r
    <3> QED BY <1>1, <2>4, <3>1 DEF DB!Before
  <2> QED BY <2>1, <2>2, <2>3, <2>4
<1>5. /\ DB!LessThan(T, e) # Nil => DB!LessThan(T, e) \in T
      /\ \A a \in T : DB!Before(a, e) <=>
           DB!LessThan(T, e) # Nil /\ ~DB!Before(DB!LessThan(T, e), a)
  <2> DEFINE D == {a \in T : DB!Before(a, e)}
             r == DB!Greatest(D)
  <2>1. /\ D = {} <=> r = Nil
        /\ D # {} => r \in D /\ \A b \in D \ {r} : DB!Before(b, r)
    BY <1>2, LeastIs
  <2>2. DB!LessThan(T, e) = r
    BY DEF DB!LessThan
  <2>3. ASSUME NEW a \in T, DB!Before(a, e)
        PROVE  r # Nil /\ ~DB!Before(r, a)
    <3>1. a \in D /\ r \in D /\ r # Nil
      BY <2>1, <2>3
    <3> HIDE DEF r
    <3>2. a = r \/ DB!Before(a, r)
      BY <2>1, <3>1
    <3> QED BY <1>1, <3>1, <3>2 DEF DB!Before
  <2>4. ASSUME NEW a \in T, r # Nil, ~DB!Before(r, a)
        PROVE  DB!Before(a, e)
    <3>1. r \in D
      BY <2>1, <2>4
    <3> HIDE DEF r
    <3> QED BY <1>1, <2>4, <3>1 DEF DB!Before
  <2> QED BY <2>1, <2>2, <2>3, <2>4
<1> QED BY <1>3, <1>4, <1>5

(* The current child after FindSmallest and after FindLargest.              *)
FindsCurrent(S, ps, m) ==
  /\ MergerOK(S, m) /\ m.pos = ps
  /\ m.cur = Nil => \A c \in DB!Sources : ps[c] = Nil
  /\ m = DB!FindSmallest(ps) =>
       /\ m.fwd = TRUE
       /\ m.cur # Nil => \A c \in DB!Sources :
            ps[c] # Nil => ~DB!Before(ps[c], ps[m.cur])
  /\ m = DB!FindLargest(ps) =>
       /\ m.fwd = FALSE
       /\ m.cur # Nil => \A c \in DB!Sources :
            ps[c] # Nil => ~DB!Before(ps[m.cur], ps[c])

(* They give what is FindsCurrent.                                                 *)
LEMMA FindIs ==
  ASSUME NEW S, PartsOK(S),
         NEW ps \in [DB!Sources -> DB!Entries \union {Nil}],
         \A c \in DB!Sources : ps[c] # Nil => ps[c] \in S[c],
         NEW m, m = DB!FindSmallest(ps) \/ m = DB!FindLargest(ps)
  PROVE  FindsCurrent(S, ps, m)
<1> DEFINE valid == {c \in DB!Sources : ps[c] # Nil}
           T == {ps[c] : c \in valid}
<1>1. T \subseteq DB!Entries /\ IsFiniteSet(T) /\ (T = {} <=> valid = {})
      /\ \A a, b \in T : a.seq = b.seq => a = b
  <2>1. T \subseteq All(S) /\ (T = {} <=> valid = {})
    BY PartFacts
  <2> QED BY <2>1, PartFacts, FS_Subset
<1>2. Nil \notin DB!Sources
  BY IterConstants
<1>3. valid # {} => DB!Least(T) \in T /\ DB!Greatest(T) \in T
  <2> HIDE DEF T, valid
  <2> QED BY <1>1, LeastIs
<1>4. ASSUME valid # {}, NEW b \in T
      PROVE  ~DB!Before(b, DB!Least(T)) /\ ~DB!Before(DB!Greatest(T), b)
  <2> HIDE DEF T, valid
  <2>1. /\ b = DB!Least(T) \/ DB!Before(DB!Least(T), b)
        /\ b = DB!Greatest(T) \/ DB!Before(b, DB!Greatest(T))
    BY <1>1, <1>4, LeastIs
  <2>2. b \in DB!Entries /\ DB!Least(T) \in DB!Entries /\ DB!Greatest(T) \in DB!Entries
    BY <1>1, <1>3, <1>4
  <2> QED BY <2>1, <2>2, KeyOrder
<1>5. CASE m = DB!FindSmallest(ps)
  <2> DEFINE r == IF valid = {} THEN Nil
                  ELSE CHOOSE c \in valid : ps[c] = DB!Least(T)
  <2>1. m = [pos |-> ps, fwd |-> TRUE, cur |-> r]
    BY <1>5 DEF DB!FindSmallest
  <2>2. /\ valid = {} => r = Nil
        /\ valid # {} => r \in valid /\ ps[r] = DB!Least(T)
    BY <1>3
  <2> HIDE DEF r
  <2>3. m.pos = ps /\ m.fwd = TRUE /\ m.cur = r
    BY <2>1
  <2>4. MergerOK(S, m)
    BY <1>2, <2>1, <2>2 DEF MergerOK
  <2>5. m # DB!FindLargest(ps)
    BY <2>1 DEF DB!FindLargest
  <2>6. r # Nil => \A c \in DB!Sources : ps[c] # Nil => ~DB!Before(ps[c], ps[r])
    BY <1>4, <2>2
  <2>7. r = Nil => \A c \in DB!Sources : ps[c] = Nil
    BY <1>2, <2>2
  <2> QED BY <2>3, <2>4, <2>5, <2>6, <2>7 DEF FindsCurrent
<1>6. CASE m = DB!FindLargest(ps)
  <2> DEFINE r == IF valid = {} THEN Nil
                  ELSE CHOOSE c \in valid : ps[c] = DB!Greatest(T)
  <2>1. m = [pos |-> ps, fwd |-> FALSE, cur |-> r]
    BY <1>6 DEF DB!FindLargest
  <2>2. /\ valid = {} => r = Nil
        /\ valid # {} => r \in valid /\ ps[r] = DB!Greatest(T)
    BY <1>3
  <2> HIDE DEF r
  <2>3. m.pos = ps /\ m.fwd = FALSE /\ m.cur = r
    BY <2>1
  <2>4. MergerOK(S, m)
    BY <1>2, <2>1, <2>2 DEF MergerOK
  <2>5. m # DB!FindSmallest(ps)
    BY <2>1 DEF DB!FindSmallest
  <2>6. r # Nil => \A c \in DB!Sources : ps[c] # Nil => ~DB!Before(ps[r], ps[c])
    BY <1>4, <2>2
  <2>7. r = Nil => \A c \in DB!Sources : ps[c] = Nil
    BY <1>2, <2>2
  <2> QED BY <2>3, <2>4, <2>5, <2>6, <2>7 DEF FindsCurrent
<1> QED BY <1>5, <1>6

-----------------------------------------------------------------------------
(* What the iterator has to show, of visible entries V.                     *)
NewestIn(V, k) ==
  CHOOSE e \in {v \in V : v.k = k} : \A f \in {v \in V : v.k = k} : f.seq <= e.seq
ShownIn(V) == {k \in {v.k : v \in V} : NewestIn(V, k).t = "value"}

(* The entries from e on, and those up to it.                               *)
From(V, e) == {v \in V : ~DB!Before(v, e)}
UpTo(V, e) == {v \in V : ~DB!Before(e, v)}

(* Each child is at the first of its visible entries in W, or behind        *)
(* invisible ones before it; or at the last one.                            *)
FwdPos(u, W, ps) ==
  \A c \in DB!Sources : \A v \in u[c] :
    v \in W <=> ps[c] # Nil /\ ~DB!Before(v, ps[c])
RevPos(u, W, ps) ==
  \A c \in DB!Sources : \A v \in u[c] :
    v \in W <=> ps[c] # Nil /\ ~DB!Before(ps[c], v)

(* The loop of FindNextUserEntry with W still ahead of it: what it has left *)
(* behind is before W, and a key whose newest entry is behind is skipped.   *)
FwdState(V, d, W, t) ==
  /\ \A w \in W, v \in V \ W : DB!Before(v, w)
  /\ d.skipping => d.key \in UserKeys /\ \A w \in W : w.k >= d.key
  /\ \A w \in W : NewestIn(V, w.k) \in W \/ (d.skipping /\ w.k <= d.key)
  /\ t = DB!SmallestOf({j \in ShownIn(V) : /\ NewestIn(V, j) \in W
                                           /\ ~(d.skipping /\ j <= d.key)})

(* The loop of FindPrevUserEntry with W still ahead of it: saved key and    *)
(* value are those of the newest entry of the key it has come to.           *)
BackState(V, d, W, t) ==
  /\ \A w \in W, v \in V \ W : DB!Before(w, v)
  /\ d.vtype = "value" =>
       /\ d.key \in UserKeys
       /\ \E x \in V \ W :
            /\ x.k = d.key /\ x.seq = d.value /\ x.t = "value"
            /\ \A v \in V \ W : v.k = d.key => v.seq <= x.seq
       /\ \A v \in V \ W : v.k >= d.key
       /\ \A w \in W : w.k <= d.key
  /\ t = DB!LargestOf({j \in ShownIn(V) : \/ NewestIn(V, j) \in W
                                          \/ d.vtype = "value" /\ j = d.key})

(* Between two operations.                                                  *)
IdleOK(u, m, d, t) ==
  /\ d.valid <=> t # Nil
  /\ d.valid /\ d.dir = "forward" =>
       /\ DB!MValid(m) /\ m.fwd
       /\ t \in ShownIn(All(u)) /\ DB!MEntry(m) = NewestIn(All(u), t)
       /\ FwdPos(u, From(All(u), DB!MEntry(m)), m.pos)
  /\ d.valid /\ d.dir = "reverse" =>
       LET W == {v \in All(u) : v.k < t}
       IN  /\ ~m.fwd
           /\ t = d.key /\ t \in ShownIn(All(u))
           /\ d.value = NewestIn(All(u), t).seq
           /\ RevPos(u, W, m.pos)
           /\ ~DB!MValid(m) => W = {}
           /\ DB!MValid(m) => /\ DB!MEntry(m).k < t
                              /\ \A w \in W : ~DB!Before(DB!MEntry(m), w)

(* Before a Next of the MergingIterator: the entry it is at has been seen.  *)
NextOK(u, m, d, h, t) ==
  LET V == All(u)
      e == DB!MEntry(m)
  IN  /\ DB!MValid(m) /\ d.dir = "forward"
      /\ h => ~m.fwd
      /\ \E W \in SUBSET V :
           /\ ~m.fwd => W = From(V, e)
           /\ m.fwd \/ h => FwdPos(u, W, m.pos)
           /\ \A w \in W : ~DB!Before(w, e)
           /\ FwdState(V, d, W \ {e}, t)

(* Before a Prev of it, in FindPrevUserEntry.                               *)
PrevOK(u, m, d, h, t) ==
  LET V == All(u)
      e == DB!MEntry(m)
  IN  /\ DB!MValid(m) /\ d.dir = "reverse"
      /\ ~h /\ ~m.fwd
      /\ \E W \in SUBSET V :
           /\ RevPos(u, W, m.pos)
           /\ \A w \in W : ~DB!Before(e, w)
           /\ BackState(V, d, W \ {e}, t)

(* Before a Prev of it, in the loop that leaves the current key behind.     *)
LeaveOK(u, m, d, h, t) ==
  LET V == All(u)
      e == DB!MEntry(m)
  IN  /\ DB!MValid(m) /\ d.key \in UserKeys /\ e.k >= d.key
      /\ h => m.fwd
      /\ h => FwdPos(u, From(V, e), m.pos)
      /\ t = DB!LargestOf({j \in ShownIn(V) : j < d.key})
      /\ \E W \in SUBSET V :
           /\ m.fwd => W = UpTo(V, e)
           /\ ~m.fwd => RevPos(u, W, m.pos)
           /\ \A w \in W : ~DB!Before(e, w)
           /\ \A w \in W, v \in V \ W : DB!Before(w, v)
           /\ \A v \in V : v.k < d.key => v \in W

IterTypes ==
  [dir : {"forward", "reverse"}, valid : BOOLEAN, key : UserKeys \union {Nil},
   value : Nat \union {Nil}, skipping : BOOLEAN, vtype : {"value", "deletion"}]

IterOK(u, m, d, p, h, t) ==
  /\ d \in IterTypes /\ h \in BOOLEAN
  /\ p \in {"idle", "next", "prev", "leave"}
  /\ p = "idle" => ~h /\ IdleOK(u, m, d, t)
  /\ p = "next" => NextOK(u, m, d, h, t)
  /\ p = "prev" => PrevOK(u, m, d, h, t)
  /\ p = "leave" => LeaveOK(u, m, d, h, t)

IterInv ==
  /\ StoreInv /\ MergerOK(store, mi)
  /\ IterOK(VisibleParts, mi, dbIt, dbPc, half, target)

-----------------------------------------------------------------------------
(* The newest visible entry of a key.                                       *)
LEMMA NewestIs ==
  ASSUME NEW u, PartsOK(u), NEW v \in All(u)
  PROVE  LET n == NewestIn(All(u), v.k)
         IN  /\ n \in All(u) /\ n.k = v.k
             /\ \A f \in All(u) : f.k = v.k => f.seq <= n.seq
<1> DEFINE V == All(u)
           T == {f \in V : f.k = v.k}
<1>1. /\ V \subseteq DB!Entries /\ IsFiniteSet(V)
      /\ \A a, b \in V : a.seq = b.seq => a = b
  BY PartFacts
<1>2. v \in V
  OBVIOUS
<1> HIDE DEF V
<1>3. T # {} /\ T \subseteq DB!Entries /\ IsFiniteSet(T)
      /\ \A a, b \in T : a.seq = b.seq => a = b
  BY <1>1, <1>2, FS_Subset
<1>4. PICK a \in T : \A b \in T \ {a} : DB!Before(a, b)
  <2> HIDE DEF T
  <2> QED BY <1>3, Extremes
<1>5. \A f \in T : f.seq <= a.seq
  <2> SUFFICES ASSUME NEW f \in T PROVE f.seq <= a.seq
    OBVIOUS
  <2>1. a.k = f.k /\ a.seq \in Nat /\ f.seq \in Nat
    BY <1>1, IterConstants
  <2>2. f = a \/ DB!Before(a, f)
    BY <1>4
  <2> QED BY <2>1, <2>2, IterConstants, <1>3 DEF DB!Before
<1>6. NewestIn(V, v.k) \in T /\ \A f \in T : f.seq <= NewestIn(V, v.k).seq
  BY <1>5 DEF NewestIn
<1> QED BY <1>6 DEF V

(* Keys that are shown.                                                     *)
LEMMA ShownIs ==
  ASSUME NEW u, PartsOK(u)
  PROVE  /\ \A j \in ShownIn(All(u)) :
              /\ j \in UserKeys /\ j \in Nat
              /\ NewestIn(All(u), j) \in All(u)
              /\ NewestIn(All(u), j).k = j /\ NewestIn(All(u), j).t = "value"
              /\ \A f \in All(u) : f.k = j => f.seq <= NewestIn(All(u), j).seq
         /\ \A v \in All(u) :
              NewestIn(All(u), v.k).t = "value" => v.k \in ShownIn(All(u))
<1>1. \A v \in All(u) : v.k \in UserKeys /\ v.k \in Nat
  BY PartFacts, IterConstants
<1>2. \A v \in All(u) :
        LET n == NewestIn(All(u), v.k)
        IN  /\ n \in All(u) /\ n.k = v.k
            /\ \A f \in All(u) : f.k = v.k => f.seq <= n.seq
  BY NewestIs
<1> QED BY <1>1, <1>2 DEF ShownIn

(* The smallest and the largest key of a set.                               *)
LEMMA ExtremeKeys ==
  /\ DB!SmallestOf({}) = Nil /\ DB!LargestOf({}) = Nil
  /\ \A Ks \in SUBSET Nat : \A k \in Ks :
       /\ (\A j \in Ks : k <= j) => DB!SmallestOf(Ks) = k
       /\ (\A j \in Ks : k >= j) => DB!LargestOf(Ks) = k
<1>1. DB!SmallestOf({}) = Nil /\ DB!LargestOf({}) = Nil
  BY DEF DB!SmallestOf, DB!LargestOf
<1>2. ASSUME NEW Ks \in SUBSET Nat, NEW k \in Ks, \A j \in Ks : k <= j
      PROVE  DB!SmallestOf(Ks) = k
  <2>1. \A n \in Ks : (\A j \in Ks : n <= j) => n = k
    BY <1>2
  <2> QED BY <1>2, <2>1 DEF DB!SmallestOf
<1>3. ASSUME NEW Ks \in SUBSET Nat, NEW k \in Ks, \A j \in Ks : k >= j
      PROVE  DB!LargestOf(Ks) = k
  <2>1. \A n \in Ks : (\A j \in Ks : n >= j) => n = k
    BY <1>3
  <2> QED BY <1>3, <2>1 DEF DB!LargestOf
<1> QED BY <1>1, <1>2, <1>3

(* The visible parts, and what DBIter says of them.                         *)
LEMMA VisibleFacts ==
  ASSUME StoreInv
  PROVE  /\ PartsOK(VisibleParts)
         /\ \A c \in DB!Sources : \A e \in store[c] :
              DB!Visible(e) <=> e \in VisibleParts[c]
         /\ \A k : DB!NewestOf(k) = NewestIn(All(VisibleParts), k)
         /\ DB!Shown = ShownIn(All(VisibleParts))
<1> DEFINE u == VisibleParts
<1>1. \A c \in DB!Sources : u[c] = {e \in store[c] : e.seq <= sequence}
  BY DEF VisibleParts
<1>2. PartsOK(u)
  <2>1. \A c \in DB!Sources : u[c] \subseteq store[c]
    BY <1>1
  <2>2. \A c \in DB!Sources : IsFiniteSet(u[c])
    BY <2>1, FS_Subset DEF StoreInv, PartsOK
  <2>3. u \in [DB!Sources -> SUBSET DB!Entries]
    BY DEF StoreInv, PartsOK, VisibleParts
  <2>4. All(u) \subseteq All(store)
    BY <2>1, IterConstants DEF All
  <2> HIDE DEF u
  <2> QED BY <2>1, <2>2, <2>3, <2>4 DEF StoreInv, PartsOK
<1>3. All(u) = {e \in DB!AllEntries : DB!Visible(e)}
  BY <1>1, IterConstants DEF All, DB!AllEntries, DB!Visible
<1>4. \A k : {e \in DB!AllEntries : e.k = k /\ DB!Visible(e)} = {v \in All(u) : v.k = k}
  BY <1>3
<1> HIDE DEF u
<1>5. \A k : DB!NewestOf(k) = NewestIn(All(u), k)
  BY <1>4 DEF DB!NewestOf, NewestIn
<1>6. DB!Shown = ShownIn(All(u))
  BY <1>3, <1>5 DEF DB!Shown, ShownIn
<1>7. \A c \in DB!Sources : \A e \in store[c] : DB!Visible(e) <=> e \in u[c]
  BY <1>1 DEF DB!Visible
<1> QED BY <1>2, <1>5, <1>6, <1>7 DEF u

-----------------------------------------------------------------------------
(* FindNextUserEntry *)

(* Of two visible entries one is before the other.                          *)
LEMMA Ordered ==
  ASSUME NEW u, PartsOK(u), NEW a \in All(u), NEW b \in All(u)
  PROVE  /\ a # b => DB!Before(a, b) \/ DB!Before(b, a)
         /\ DB!Before(a, b) => a.k <= b.k /\ a # b
         /\ ~DB!Before(a, b) => b.k <= a.k
         /\ a.k = b.k /\ DB!Before(a, b) => b.seq < a.seq
         /\ a.k < b.k => DB!Before(a, b)
         /\ a.k = b.k /\ ~DB!Before(a, b) => a.seq <= b.seq
         /\ a.k \in Nat /\ b.k \in Nat /\ a.seq \in Nat /\ b.seq \in Nat
<1>1. a \in DB!Entries /\ b \in DB!Entries /\ (a.seq = b.seq => a = b)
  BY PartFacts
<1> QED BY <1>1, IterConstants DEF DB!Before

(* The loop goes on over an entry that is not visible or is skipped.        *)
LEMMA ForwardSkips ==
  ASSUME NEW u, PartsOK(u), NEW W \in SUBSET All(u), NEW d, NEW t, NEW e,
         FwdState(All(u), d, W, t), \A w \in W : ~DB!Before(w, e),
         e \in W => d.skipping /\ e.k <= d.key
  PROVE  FwdState(All(u), d, W \ {e}, t)
<1> DEFINE V == All(u)
<1>1. CASE e \notin W
  <2>1. W \ {e} = W
    BY <1>1
  <2> QED BY <2>1
<1>2. CASE e \in W
  <2>1. \A w \in W \ {e}, v \in V \ (W \ {e}) : DB!Before(v, w)
    BY <1>2, Ordered DEF FwdState
  <2>2. d.skipping /\ e.k <= d.key /\ d.key \in UserKeys
        /\ \A w \in W : w.k >= d.key
    BY <1>2 DEF FwdState
  <2>3. \A w \in W \ {e} : NewestIn(V, w.k) \in W \ {e} \/ w.k <= d.key
    <3> TAKE w \in W \ {e}
    <3>1. NewestIn(V, w.k) \in W \/ w.k <= d.key
      BY DEF FwdState
    <3>2. NewestIn(V, w.k) = e => w.k = e.k
      BY NewestIs
    <3> QED BY <2>2, <3>1, <3>2
  <2>4. {j \in ShownIn(V) : NewestIn(V, j) \in W /\ ~(d.skipping /\ j <= d.key)} =
        {j \in ShownIn(V) : NewestIn(V, j) \in W \ {e} /\ ~(d.skipping /\ j <= d.key)}
    <3>1. \A j \in ShownIn(V) : NewestIn(V, j) = e => j <= d.key
      BY <2>2, ShownIs
    <3> QED BY <2>2, <3>1
  <2> HIDE DEF V
  <2> QED BY <2>1, <2>2, <2>3, <2>4 DEF FwdState, V
<1> QED BY <1>1, <1>2

(* It goes on over a deletion and skips its key.                            *)
LEMMA ForwardDeletes ==
  ASSUME NEW u, PartsOK(u), NEW W \in SUBSET All(u), NEW d, NEW t, NEW e \in W,
         FwdState(All(u), d, W, t), \A w \in W : ~DB!Before(w, e),
         e.t = "deletion", NEW f, f.key = e.k, f.skipping = TRUE
  PROVE  FwdState(All(u), f, W \ {e}, t)
<1> DEFINE V == All(u)
<1>1. \A w \in W \ {e}, v \in V \ (W \ {e}) : DB!Before(v, w)
  BY Ordered DEF FwdState
<1>2. e.k \in UserKeys /\ e.k \in Nat /\ \A w \in W : w.k >= e.k /\ w.k \in Nat
  BY Ordered, PartFacts, IterConstants
<1>3. d.skipping => d.key <= e.k /\ d.key \in Nat
  BY IterConstants DEF FwdState
<1>4. \A w \in W \ {e} : NewestIn(V, w.k) \in W \ {e} \/ w.k <= e.k
  <2> TAKE w \in W \ {e}
  <2>1. NewestIn(V, w.k) \in W \/ (d.skipping /\ w.k <= d.key)
    BY DEF FwdState
  <2>2. NewestIn(V, w.k) = e => w.k = e.k
    BY NewestIs
  <2> QED BY <1>2, <1>3, <2>1, <2>2
<1>5. ASSUME NEW j \in ShownIn(V)
      PROVE  NewestIn(V, j) \in W /\ ~(d.skipping /\ j <= d.key) <=>
               NewestIn(V, j) \in W \ {e} /\ ~(j <= e.k)
  <2> DEFINE n == NewestIn(V, j)
  <2>1. n \in V /\ n.k = j /\ n.t = "value" /\ j \in Nat
        /\ \A v \in V : v.k = j => v.seq <= n.seq
    BY ShownIs
  <2> HIDE DEF n
  <2>2. n # e
    BY <2>1
  <2>3. n \in W => DB!Before(e, n)
    BY <2>2, Ordered
  <2>4. n \in W => e.k < j
    BY <1>2, <2>1, <2>3, Ordered
  <2> QED BY <1>2, <1>3, <2>1, <2>2, <2>4 DEF n
<1>6. t = DB!SmallestOf({j \in ShownIn(V) : NewestIn(V, j) \in W \ {e} /\ ~(j <= e.k)})
  BY <1>5 DEF FwdState
<1> HIDE DEF V
<1> QED BY <1>1, <1>2, <1>4, <1>6 DEF FwdState, V

(* It ends at a value that is not skipped: the key to be shown.             *)
LEMMA ForwardFinds ==
  ASSUME NEW u, PartsOK(u), NEW W \in SUBSET All(u), NEW d, NEW t, NEW e \in W,
         FwdState(All(u), d, W, t), \A w \in W : ~DB!Before(w, e),
         e.t = "value", ~(d.skipping /\ e.k <= d.key)
  PROVE  /\ t = e.k /\ t \in ShownIn(All(u)) /\ e = NewestIn(All(u), t)
         /\ W = From(All(u), e)
<1> DEFINE V == All(u)
           n == NewestIn(V, e.k)
<1>1. n \in V /\ n.k = e.k /\ \A v \in V : v.k = e.k => v.seq <= n.seq
  BY NewestIs
<1>2. n \in W
  BY DEF FwdState
<1>3. e = n
  <2> HIDE DEF n
  <2>1. e.seq <= n.seq
    BY <1>1
  <2>2. n # e => DB!Before(e, n)
    BY <1>1, <1>2, Ordered
  <2>3. n # e => n.seq < e.seq
    BY <1>1, <2>2, Ordered
  <2> QED BY <1>1, <2>1, <2>3, Ordered
<1>4. e.k \in ShownIn(V)
  BY <1>3, ShownIs
<1>5. t = e.k
  <2> DEFINE Ks == {j \in ShownIn(V) : /\ NewestIn(V, j) \in W
                                       /\ ~(d.skipping /\ j <= d.key)}
  <2>1. e.k \in Ks
    BY <1>3, <1>4
  <2>2. \A j \in Ks : j \in Nat /\ e.k <= j
    <3> TAKE j \in Ks
    <3>1. j \in Nat /\ NewestIn(V, j).k = j /\ NewestIn(V, j) \in W
      BY ShownIs
    <3> QED BY <3>1, Ordered
  <2>3. t = DB!SmallestOf(Ks)
    BY DEF FwdState
  <2> HIDE DEF Ks
  <2> QED BY <2>1, <2>2, <2>3, ExtremeKeys
<1>6. W = From(V, e)
  BY Ordered DEF From, FwdState
<1> QED BY <1>3, <1>4, <1>5, <1>6

(* One round of the loop, after the MergingIterator has moved.              *)
LEMMA ForwardLoop ==
  ASSUME StoreInv, NEW m, MergerOK(store, m), m.fwd = TRUE,
         NEW W \in SUBSET All(VisibleParts),
         FwdPos(VisibleParts, W, m.pos),
         ~DB!MValid(m) => W = {},
         DB!MValid(m) => /\ \A w \in W : ~DB!Before(w, DB!MEntry(m))
                         /\ DB!MEntry(m) \in VisibleParts[m.cur] =>
                              DB!MEntry(m) \in W,
         NEW d \in IterTypes, d.dir = "forward", NEW t,
         FwdState(All(VisibleParts), d, W, t),
         NEW r, r = DB!FindNextUserEntry(d, m)
  PROVE  IterOK(VisibleParts, m, r.d, r.pc, FALSE, t)
<1> DEFINE u == VisibleParts
           V == All(u)
           e == DB!MEntry(m)
<1>0. PartsOK(u)
  BY VisibleFacts
<1>1. CASE ~DB!MValid(m)
  <2>1. r.d = [d EXCEPT !.valid = FALSE, !.key = Nil] /\ r.pc = "idle"
    BY <1>1 DEF DB!FindNextUserEntry
  <2>2. {j \in ShownIn(V) : NewestIn(V, j) \in W /\ ~(d.skipping /\ j <= d.key)} = {}
    BY <1>1
  <2>3. t = Nil
    BY <2>2, ExtremeKeys DEF FwdState
  <2>4. r.d \in IterTypes /\ r.d.valid = FALSE
    BY <2>1 DEF IterTypes
  <2> QED BY <2>1, <2>3, <2>4 DEF IterOK, IdleOK
<1>2. CASE DB!MValid(m)
  <2>1. /\ m.cur \in DB!Sources /\ e \in store[m.cur] /\ e \in DB!Entries
        /\ e.t \in {"value", "deletion"}
    <3>1. m.cur \in DB!Sources /\ m.pos[m.cur] # Nil
      BY <1>2 DEF MergerOK, DB!MValid
    <3>2. e \in store[m.cur]
      BY <3>1 DEF MergerOK, DB!MEntry
    <3> QED BY <3>1, <3>2, PartFacts, IterConstants DEF StoreInv
  <2>2. /\ DB!Visible(e) <=> e \in W
        /\ \A w \in W : ~DB!Before(w, e)
    <3>1. DB!Visible(e) <=> e \in u[m.cur]
      BY <2>1, VisibleFacts
    <3>2. e \in W => e \in u[m.cur]
      <4> SUFFICES ASSUME e \in W PROVE DB!Visible(e)
        BY <3>1
      <4>1. PICK c \in DB!Sources : e \in u[c]
        BY <1>0, PartFacts
      <4>2. e \in store[c]
        BY <4>1 DEF VisibleParts
      <4> QED BY <4>1, <4>2, VisibleFacts
    <3> QED BY <1>2, <3>1, <3>2
  <2> HIDE DEF e
  <2>3. ASSUME NEW f \in IterTypes, f.dir = "forward", r = [d |-> f, pc |-> "next"],
               FwdState(V, f, W \ {e}, t)
        PROVE  IterOK(u, m, r.d, r.pc, FALSE, t)
    <3>1. NextOK(u, m, f, FALSE, t)
      BY <1>2, <2>2, <2>3 DEF NextOK, e
    <3>2. r.d = f /\ r.pc = "next"
      BY <2>3
    <3> HIDE DEF u
    <3> QED BY <2>3, <3>1, <3>2 DEF IterOK
  <2>4. CASE DB!Visible(e) /\ e.t = "deletion"
    <3> DEFINE f == [d EXCEPT !.key = e.k, !.skipping = TRUE]
    <3>1. r = [d |-> f, pc |-> "next"]
      BY <1>2, <2>4 DEF DB!FindNextUserEntry, e
    <3>2. f \in IterTypes /\ f.dir = "forward" /\ f.key = e.k /\ f.skipping = TRUE
      BY <2>1, IterConstants DEF IterTypes
    <3> HIDE DEF f
    <3>3. FwdState(V, f, W \ {e}, t)
      BY <1>0, <2>2, <2>4, <3>2, ForwardDeletes
    <3> QED BY <2>3, <3>1, <3>2, <3>3
  <2>5. CASE DB!Visible(e) /\ e.t = "value" /\ ~(d.skipping /\ e.k <= d.key)
    <3> DEFINE f == [d EXCEPT !.valid = TRUE, !.key = Nil]
    <3>1. r = [d |-> f, pc |-> "idle"]
      BY <1>2, <2>5 DEF DB!FindNextUserEntry, e
    <3>2. f \in IterTypes /\ f.dir = "forward" /\ f.valid = TRUE
      BY DEF IterTypes
    <3> HIDE DEF f
    <3>3. /\ t = e.k /\ t \in ShownIn(V) /\ e = NewestIn(V, t) /\ W = From(V, e)
      BY <1>0, <2>2, <2>5, ForwardFinds
    <3>4. t # Nil
      BY <1>0, <3>3, ShownIs, IterConstants
    <3>5. IdleOK(u, m, f, t)
      BY <1>2, <3>2, <3>3, <3>4 DEF IdleOK, e
    <3> QED BY <3>1, <3>2, <3>5 DEF IterOK
  <2>6. CASE ~DB!Visible(e) \/ (e.t = "value" /\ d.skipping /\ e.k <= d.key)
    <3>1. r = [d |-> d, pc |-> "next"]
      BY <1>2, <2>1, <2>6 DEF DB!FindNextUserEntry, e
    <3>2. FwdState(V, d, W \ {e}, t)
      BY <1>0, <2>2, <2>6, ForwardSkips
    <3> QED BY <2>3, <3>1, <3>2
  <2> QED BY <2>1, <2>4, <2>5, <2>6
<1> QED BY <1>1, <1>2

-----------------------------------------------------------------------------
(* FindPrevUserEntry *)

(* The newest entry of a key is not behind an entry of the key that is      *)
(* still ahead.                                                             *)
LEMMA NewestAhead ==
  ASSUME NEW u, PartsOK(u), NEW W \in SUBSET All(u), NEW e \in W,
         \A w \in W, v \in All(u) \ W : DB!Before(w, v)
  PROVE  NewestIn(All(u), e.k) \in W
<1> DEFINE n == NewestIn(All(u), e.k)
<1>1. n \in All(u) /\ n.k = e.k /\ \A v \in All(u) : v.k = e.k => v.seq <= n.seq
  BY NewestIs
<1>2. e.seq <= n.seq
  BY <1>1
<1> HIDE DEF n
<1>3. n \notin W => n.seq < e.seq
  BY <1>1, Ordered
<1>4. n.seq \in Nat /\ e.seq \in Nat
  BY <1>1, Ordered
<1> QED BY <1>2, <1>3, <1>4 DEF n

(* The loop passes a deletion: what it saved is forgotten.                  *)
LEMMA BackDeletes ==
  ASSUME NEW u, PartsOK(u), NEW W \in SUBSET All(u), NEW d, NEW t, NEW e \in W,
         BackState(All(u), d, W, t), \A w \in W : ~DB!Before(e, w),
         e.t = "deletion", d.vtype = "value" => ~(e.k < d.key),
         NEW f, f.vtype = "deletion"
  PROVE  BackState(All(u), f, W \ {e}, t)
<1> DEFINE V == All(u)
<1>1. \A w \in W, v \in V \ W : DB!Before(w, v)
  BY DEF BackState
<1>2. \A w \in W \ {e}, v \in V \ (W \ {e}) : DB!Before(w, v)
  BY <1>1, Ordered
<1>3. d.vtype = "value" => d.key = e.k
  BY Ordered, IterConstants DEF BackState
<1>4. ASSUME NEW j \in ShownIn(V)
      PROVE  NewestIn(V, j) \in W \/ (d.vtype = "value" /\ j = d.key) <=>
               NewestIn(V, j) \in W \ {e} \/ (f.vtype = "value" /\ j = f.key)
  <2>1. NewestIn(V, j).t = "value"
    BY ShownIs
  <2>2. NewestIn(V, j) # e
    BY <2>1
  <2>3. j = e.k => NewestIn(V, j) \in W
    BY <1>1, NewestAhead
  <2> HIDE DEF V
  <2> QED BY <1>3, <2>2, <2>3
<1>5. t = DB!LargestOf({j \in ShownIn(V) : \/ NewestIn(V, j) \in W \ {e}
                                           \/ f.vtype = "value" /\ j = f.key})
  <2>1. t = DB!LargestOf({j \in ShownIn(V) : \/ NewestIn(V, j) \in W
                                             \/ d.vtype = "value" /\ j = d.key})
    BY DEF BackState
  <2> HIDE DEF V
  <2>2. {j \in ShownIn(V) : \/ NewestIn(V, j) \in W
                            \/ d.vtype = "value" /\ j = d.key} =
        {j \in ShownIn(V) : \/ NewestIn(V, j) \in W \ {e}
                            \/ f.vtype = "value" /\ j = f.key}
    BY <1>4
  <2> QED BY <2>1, <2>2
<1> HIDE DEF V
<1> QED BY <1>2, <1>5 DEF BackState, V

(* The loop passes a value, which is saved.                                 *)
LEMMA BackSaves ==
  ASSUME NEW u, PartsOK(u), NEW W \in SUBSET All(u), NEW d, NEW t, NEW e \in W,
         BackState(All(u), d, W, t), \A w \in W : ~DB!Before(e, w),
         e.t = "value", d.vtype = "value" => ~(e.k < d.key),
         NEW f, f.vtype = "value", f.key = e.k, f.value = e.seq
  PROVE  BackState(All(u), f, W \ {e}, t)
<1> DEFINE V == All(u)
<1>1. \A w \in W, v \in V \ W : DB!Before(w, v)
  BY DEF BackState
<1>2. \A w \in W \ {e}, v \in V \ (W \ {e}) : DB!Before(w, v)
  BY <1>1, Ordered
<1>3. d.vtype = "value" => d.key = e.k
  BY Ordered, IterConstants DEF BackState
<1>4. ASSUME NEW j \in ShownIn(V)
      PROVE  NewestIn(V, j) \in W \/ (d.vtype = "value" /\ j = d.key) <=>
               NewestIn(V, j) \in W \ {e} \/ (f.vtype = "value" /\ j = f.key)
  <2>1. NewestIn(V, j).k = j
    BY ShownIs
  <2>2. j = e.k => NewestIn(V, j) \in W
    BY <1>1, NewestAhead
  <2> HIDE DEF V
  <2> QED BY <1>3, <2>1, <2>2
<1>5. t = DB!LargestOf({j \in ShownIn(V) : \/ NewestIn(V, j) \in W \ {e}
                                           \/ f.vtype = "value" /\ j = f.key})
  <2>1. t = DB!LargestOf({j \in ShownIn(V) : \/ NewestIn(V, j) \in W
                                             \/ d.vtype = "value" /\ j = d.key})
    BY DEF BackState
  <2> HIDE DEF V
  <2>2. {j \in ShownIn(V) : \/ NewestIn(V, j) \in W
                            \/ d.vtype = "value" /\ j = d.key} =
        {j \in ShownIn(V) : \/ NewestIn(V, j) \in W \ {e}
                            \/ f.vtype = "value" /\ j = f.key}
    BY <1>4
  <2> QED BY <2>1, <2>2
<1>6. f.key \in UserKeys
  BY PartFacts, IterConstants
<1>7. \E x \in V \ (W \ {e}) :
        /\ x.k = f.key /\ x.seq = f.value /\ x.t = "value"
        /\ \A v \in V \ (W \ {e}) : v.k = f.key => v.seq <= x.seq
  <2>1. e \in V \ (W \ {e}) /\ e.k = f.key /\ e.seq = f.value
    OBVIOUS
  <2>2. \A v \in V \ (W \ {e}) : v.k = f.key => v.seq <= e.seq
    BY <1>1, Ordered
  <2> HIDE DEF V
  <2> QED BY <2>1, <2>2
<1>8. \A v \in V \ (W \ {e}) : v.k >= f.key
  BY <1>1, Ordered
<1>9. \A w \in W \ {e} : w.k <= f.key
  BY Ordered
<1> HIDE DEF V
<1> QED BY <1>2, <1>5, <1>6, <1>7, <1>8, <1>9 DEF BackState, V

(* It ends with a saved value when all entries ahead have smaller keys.     *)
LEMMA BackEnds ==
  ASSUME NEW u, PartsOK(u), NEW W \in SUBSET All(u), NEW d, NEW t,
         BackState(All(u), d, W, t), d.vtype = "value",
         \A w \in W : w.k < d.key
  PROVE  /\ t = d.key /\ t \in ShownIn(All(u))
         /\ d.value = NewestIn(All(u), t).seq
         /\ W = {v \in All(u) : v.k < t}
<1> DEFINE V == All(u)
           n == NewestIn(V, d.key)
<1>1. PICK x \in V \ W :
        /\ x.k = d.key /\ x.seq = d.value /\ x.t = "value"
        /\ \A v \in V \ W : v.k = d.key => v.seq <= x.seq
  BY DEF BackState
<1>2. n \in V /\ n.k = d.key /\ \A v \in V : v.k = d.key => v.seq <= n.seq
  BY <1>1, NewestIs
<1>3. n = x
  <2> HIDE DEF n
  <2>1. n \notin W
    BY <1>2, Ordered
  <2>2. n.seq <= x.seq /\ x.seq <= n.seq
    BY <1>1, <1>2, <2>1
  <2>3. n.seq = x.seq
    BY <1>1, <1>2, <2>2, Ordered
  <2> QED BY <1>1, <1>2, <2>3, PartFacts
<1>4. d.key \in ShownIn(V)
  BY <1>1, <1>3, ShownIs
<1>5. t = d.key
  <2> DEFINE Ks == {j \in ShownIn(V) : \/ NewestIn(V, j) \in W
                                       \/ d.vtype = "value" /\ j = d.key}
  <2>1. d.key \in Ks /\ d.key \in Nat
    BY <1>4, ShownIs
  <2>2. \A j \in Ks : j \in Nat /\ d.key >= j
    <3> TAKE j \in Ks
    <3>1. j \in Nat /\ NewestIn(V, j).k = j
      BY ShownIs
    <3> QED BY <2>1, <3>1
  <2>3. t = DB!LargestOf(Ks)
    BY DEF BackState
  <2> HIDE DEF Ks
  <2> QED BY <2>1, <2>2, <2>3, ExtremeKeys
<1>6. W = {v \in V : v.k < d.key}
  <2>1. \A v \in V \ W : v.k >= d.key
    BY DEF BackState
  <2>2. d.key \in Nat /\ \A v \in V : v.k \in Nat
    BY <1>4, ShownIs, Ordered
  <2> QED BY <2>1, <2>2
<1> QED BY <1>1, <1>3, <1>4, <1>5, <1>6

(* One round of the loop, after the MergingIterator has moved.              *)
LEMMA BackLoop ==
  ASSUME StoreInv, NEW m, MergerOK(store, m), m.fwd = FALSE,
         NEW W \in SUBSET All(VisibleParts),
         RevPos(VisibleParts, W, m.pos),
         ~DB!MValid(m) => W = {},
         DB!MValid(m) => /\ \A w \in W : ~DB!Before(DB!MEntry(m), w)
                         /\ DB!MEntry(m) \in VisibleParts[m.cur] =>
                              DB!MEntry(m) \in W,
         NEW d \in IterTypes, d.dir = "reverse", NEW t,
         BackState(All(VisibleParts), d, W, t),
         NEW r, r = DB!FindPrevUserEntry(d, m)
  PROVE  IterOK(VisibleParts, m, r.d, r.pc, FALSE, t)
<1> DEFINE u == VisibleParts
           V == All(u)
           e == DB!MEntry(m)
<1>0. PartsOK(u)
  BY VisibleFacts
<1>1. d.vtype \in {"value", "deletion"}
  BY DEF IterTypes
<1>2. ASSUME d.vtype = "value", \A w \in W : w.k < d.key,
             DB!MValid(m) => e.k < d.key, r = DB!EndPrev(d)
      PROVE  IterOK(u, m, r.d, r.pc, FALSE, t)
  <2> DEFINE f == [d EXCEPT !.valid = TRUE]
  <2>1. r.d = f /\ r.pc = "idle"
    BY <1>2 DEF DB!EndPrev
  <2>2. f \in IterTypes /\ f.dir = "reverse" /\ f.valid = TRUE
        /\ f.key = d.key /\ f.value = d.value
    BY DEF IterTypes
  <2> HIDE DEF f, u
  <2>3. /\ t = d.key /\ t \in ShownIn(V) /\ d.value = NewestIn(V, t).seq
        /\ W = {v \in V : v.k < t}
    BY <1>0, <1>2, BackEnds DEF u
  <2>4. t # Nil
    BY <1>0, <2>3, ShownIs, IterConstants
  <2>5. IdleOK(u, m, f, t)
    <3>1. RevPos(u, W, m.pos)
      BY DEF u
    <3> QED BY <1>2, <2>2, <2>3, <2>4, <3>1 DEF IdleOK
  <2> QED BY <2>1, <2>2, <2>5 DEF IterOK
<1>3. CASE ~DB!MValid(m)
  <2>1. r = DB!EndPrev(d)
    BY <1>3 DEF DB!FindPrevUserEntry
  <2>2. CASE d.vtype = "value"
    BY <1>2, <1>3, <2>1, <2>2
  <2>3. CASE d.vtype = "deletion"
    <3>1. /\ r.d = [d EXCEPT !.valid = FALSE, !.key = Nil, !.value = Nil,
                             !.dir = "forward"]
          /\ r.pc = "idle"
      BY <2>1, <2>3 DEF DB!EndPrev
    <3>2. {j \in ShownIn(V) : \/ NewestIn(V, j) \in W
                              \/ d.vtype = "value" /\ j = d.key} = {}
      BY <1>3, <2>3
    <3>3. t = Nil
      BY <3>2, ExtremeKeys DEF BackState
    <3>4. r.d \in IterTypes /\ r.d.valid = FALSE
      BY <3>1 DEF IterTypes
    <3> QED BY <3>1, <3>3, <3>4 DEF IterOK, IdleOK
  <2> QED BY <1>1, <2>2, <2>3
<1>4. CASE DB!MValid(m)
  <2>1. /\ m.cur \in DB!Sources /\ e \in store[m.cur] /\ e \in DB!Entries
        /\ e.t \in {"value", "deletion"} /\ e.k \in Nat /\ e.k \in UserKeys
        /\ e.seq \in Nat
    <3>1. m.cur \in DB!Sources /\ m.pos[m.cur] # Nil
      BY <1>4 DEF MergerOK, DB!MValid
    <3>2. e \in store[m.cur]
      BY <3>1 DEF MergerOK, DB!MEntry
    <3> QED BY <3>1, <3>2, PartFacts, IterConstants DEF StoreInv
  <2>2. /\ DB!Visible(e) <=> e \in W
        /\ \A w \in W : ~DB!Before(e, w)
    <3>1. DB!Visible(e) <=> e \in u[m.cur]
      BY <2>1, VisibleFacts
    <3>2. e \in W => e \in u[m.cur]
      <4> SUFFICES ASSUME e \in W PROVE DB!Visible(e)
        BY <3>1
      <4>1. PICK c \in DB!Sources : e \in u[c]
        BY <1>0, PartFacts
      <4>2. e \in store[c]
        BY <4>1 DEF VisibleParts
      <4> QED BY <4>1, <4>2, VisibleFacts
    <3> QED BY <1>4, <3>1, <3>2
  <2>3. ASSUME NEW f \in IterTypes, f.dir = "reverse", r = [d |-> f, pc |-> "prev"],
               BackState(V, f, W \ {e}, t)
        PROVE  IterOK(u, m, r.d, r.pc, FALSE, t)
    <3> HIDE DEF e
    <3>1. PrevOK(u, m, f, FALSE, t)
      BY <1>4, <2>2, <2>3 DEF PrevOK, e
    <3>2. r.d = f /\ r.pc = "prev"
      BY <2>3
    <3> HIDE DEF u
    <3> QED BY <2>3, <3>1, <3>2 DEF IterOK
  <2> HIDE DEF e
  <2>4. CASE ~DB!Visible(e)
    <3>1. r = [d |-> d, pc |-> "prev"]
      BY <1>4, <2>4 DEF DB!FindPrevUserEntry, e
    <3>2. W \ {e} = W
      BY <2>2, <2>4
    <3> QED BY <2>3, <3>1, <3>2
  <2>5. CASE DB!Visible(e) /\ d.vtype # "deletion" /\ e.k < d.key
    <3>1. r = DB!EndPrev(d)
      BY <1>4, <2>5 DEF DB!FindPrevUserEntry, e
    <3>2. d.vtype = "value"
      BY <1>1, <2>5
    <3>3. \A w \in W : w.k < d.key
      <4> TAKE w \in W
      <4>1. e \in V /\ w \in V
        BY <2>2, <2>5
      <4>2. w.k <= e.k /\ w.k \in Nat
        BY <1>0, <2>2, <4>1, Ordered
      <4>3. d.key \in Nat
        BY <3>2, IterConstants DEF BackState
      <4> QED BY <2>1, <2>5, <4>2, <4>3
    <3> QED BY <1>2, <2>5, <3>1, <3>2, <3>3
  <2>6. CASE /\ DB!Visible(e) /\ ~(d.vtype # "deletion" /\ e.k < d.key)
             /\ e.t = "deletion"
    <3> DEFINE f == [d EXCEPT !.vtype = e.t, !.key = Nil, !.value = Nil]
    <3>1. r = [d |-> f, pc |-> "prev"]
      BY <1>4, <2>6 DEF DB!FindPrevUserEntry, e
    <3>2. f \in IterTypes /\ f.dir = "reverse" /\ f.vtype = "deletion"
      BY <2>1, <2>6 DEF IterTypes
    <3> HIDE DEF f
    <3>3. BackState(V, f, W \ {e}, t)
      BY <1>0, <2>2, <2>6, <3>2, BackDeletes
    <3> QED BY <2>3, <3>1, <3>2, <3>3
  <2>7. CASE /\ DB!Visible(e) /\ ~(d.vtype # "deletion" /\ e.k < d.key)
             /\ e.t = "value"
    <3> DEFINE f == [d EXCEPT !.vtype = e.t, !.key = e.k, !.value = e.seq]
    <3>1. r = [d |-> f, pc |-> "prev"]
      BY <1>4, <2>7 DEF DB!FindPrevUserEntry, e
    <3>2. /\ f \in IterTypes /\ f.dir = "reverse" /\ f.vtype = "value"
          /\ f.key = e.k /\ f.value = e.seq
      BY <2>1, <2>7 DEF IterTypes
    <3> HIDE DEF f
    <3>3. BackState(V, f, W \ {e}, t)
      BY <1>0, <2>2, <2>7, <3>2, BackSaves
    <3> QED BY <2>3, <3>1, <3>2, <3>3
  <2> QED BY <2>1, <2>4, <2>5, <2>6, <2>7
<1> QED BY <1>3, <1>4

-----------------------------------------------------------------------------
(* Where the MergingIterator is after a call                                *)

(* FindSmallest, with every child at the first of its entries of W or       *)
(* behind it: the current entry is not past any of W.                       *)
LEMMA ArrivesForward ==
  ASSUME StoreInv, NEW ps \in [DB!Sources -> DB!Entries \union {Nil}],
         \A c \in DB!Sources : ps[c] # Nil => ps[c] \in store[c],
         NEW W \in SUBSET All(VisibleParts), FwdPos(VisibleParts, W, ps),
         NEW m, m = DB!FindSmallest(ps)
  PROVE  /\ MergerOK(store, m) /\ m.pos = ps /\ m.fwd = TRUE
         /\ ~DB!MValid(m) => W = {}
         /\ DB!MValid(m) => /\ \A w \in W : ~DB!Before(w, DB!MEntry(m))
                            /\ DB!MEntry(m) \in VisibleParts[m.cur] =>
                                 DB!MEntry(m) \in W
<1> DEFINE u == VisibleParts
<1>1. PartsOK(store) /\ PartsOK(u)
  BY VisibleFacts DEF StoreInv
<1>0. m = DB!FindSmallest(ps) \/ m = DB!FindLargest(ps)
  OBVIOUS
<1>2. /\ MergerOK(store, m) /\ m.pos = ps /\ m.fwd = TRUE
      /\ m.cur = Nil => \A c \in DB!Sources : ps[c] = Nil
      /\ m.cur # Nil => \A c \in DB!Sources :
           ps[c] # Nil => ~DB!Before(ps[c], ps[m.cur])
  <2>1. FindsCurrent(store, ps, m)
    BY <1>0, <1>1, FindIs
  <2> QED BY <2>1 DEF FindsCurrent
<1>3. \A w \in W : w \in DB!Entries /\ \E c \in DB!Sources :
        w \in u[c] /\ ps[c] # Nil /\ ~DB!Before(w, ps[c])
  BY <1>1, PartFacts DEF FwdPos
<1>4. ~DB!MValid(m) => W = {}
  BY <1>2, <1>3 DEF DB!MValid
<1>5. ASSUME DB!MValid(m)
      PROVE  /\ \A w \in W : ~DB!Before(w, DB!MEntry(m))
             /\ DB!MEntry(m) \in u[m.cur] => DB!MEntry(m) \in W
  <2>1. m.cur \in DB!Sources /\ ps[m.cur] \in DB!Entries /\ ps[m.cur] # Nil
        /\ DB!MEntry(m) = ps[m.cur]
    BY <1>2, <1>5 DEF MergerOK, DB!MValid, DB!MEntry
  <2>2. ASSUME NEW w \in W PROVE ~DB!Before(w, ps[m.cur])
    <3>1. PICK c \in DB!Sources : ps[c] # Nil /\ ~DB!Before(w, ps[c])
      BY <1>3
    <3>2. ps[c] \in DB!Entries /\ ~DB!Before(ps[c], ps[m.cur])
      BY <1>2, <1>5, <3>1 DEF DB!MValid
    <3> QED BY <1>3, <2>1, <3>1, <3>2, KeyOrder
  <2>3. ps[m.cur] \in u[m.cur] => ps[m.cur] \in W
    BY <2>1, KeyOrder DEF FwdPos
  <2> QED BY <2>1, <2>2, <2>3
<1> QED BY <1>2, <1>4, <1>5

(* The same of FindLargest.                                                 *)
LEMMA ArrivesBack ==
  ASSUME StoreInv, NEW ps \in [DB!Sources -> DB!Entries \union {Nil}],
         \A c \in DB!Sources : ps[c] # Nil => ps[c] \in store[c],
         NEW W \in SUBSET All(VisibleParts), RevPos(VisibleParts, W, ps),
         NEW m, m = DB!FindLargest(ps)
  PROVE  /\ MergerOK(store, m) /\ m.pos = ps /\ m.fwd = FALSE
         /\ ~DB!MValid(m) => W = {}
         /\ DB!MValid(m) => /\ \A w \in W : ~DB!Before(DB!MEntry(m), w)
                            /\ DB!MEntry(m) \in VisibleParts[m.cur] =>
                                 DB!MEntry(m) \in W
<1> DEFINE u == VisibleParts
<1>1. PartsOK(store) /\ PartsOK(u)
  BY VisibleFacts DEF StoreInv
<1>0. m = DB!FindSmallest(ps) \/ m = DB!FindLargest(ps)
  OBVIOUS
<1>2. /\ MergerOK(store, m) /\ m.pos = ps /\ m.fwd = FALSE
      /\ m.cur = Nil => \A c \in DB!Sources : ps[c] = Nil
      /\ m.cur # Nil => \A c \in DB!Sources :
           ps[c] # Nil => ~DB!Before(ps[m.cur], ps[c])
  <2>1. FindsCurrent(store, ps, m)
    BY <1>0, <1>1, FindIs
  <2> QED BY <2>1 DEF FindsCurrent
<1>3. \A w \in W : w \in DB!Entries /\ \E c \in DB!Sources :
        w \in u[c] /\ ps[c] # Nil /\ ~DB!Before(ps[c], w)
  BY <1>1, PartFacts DEF RevPos
<1>4. ~DB!MValid(m) => W = {}
  BY <1>2, <1>3 DEF DB!MValid
<1>5. ASSUME DB!MValid(m)
      PROVE  /\ \A w \in W : ~DB!Before(DB!MEntry(m), w)
             /\ DB!MEntry(m) \in u[m.cur] => DB!MEntry(m) \in W
  <2>1. m.cur \in DB!Sources /\ ps[m.cur] \in DB!Entries /\ ps[m.cur] # Nil
        /\ DB!MEntry(m) = ps[m.cur]
    BY <1>2, <1>5 DEF MergerOK, DB!MValid, DB!MEntry
  <2>2. ASSUME NEW w \in W PROVE ~DB!Before(ps[m.cur], w)
    <3>1. PICK c \in DB!Sources : ps[c] # Nil /\ ~DB!Before(ps[c], w)
      BY <1>3
    <3>2. ps[c] \in DB!Entries /\ ~DB!Before(ps[m.cur], ps[c])
      BY <1>2, <1>5, <3>1 DEF DB!MValid
    <3> QED BY <1>3, <2>1, <3>1, <3>2, KeyOrder
  <2>3. ps[m.cur] \in u[m.cur] => ps[m.cur] \in W
    BY <2>1, KeyOrder DEF RevPos
  <2> QED BY <2>1, <2>2, <2>3
<1> QED BY <1>2, <1>4, <1>5

(* A child of the store, for SearchIs and LeastIs; its visible entries.     *)
LEMMA ChildFacts ==
  ASSUME StoreInv, NEW c \in DB!Sources
  PROVE  /\ store[c] \subseteq DB!Entries /\ IsFiniteSet(store[c])
         /\ \A a, b \in store[c] : a.seq = b.seq => a = b
         /\ VisibleParts[c] \subseteq store[c]
         /\ VisibleParts[c] \subseteq All(VisibleParts)
         /\ \A v \in VisibleParts[c] : v.seq <= sequence
<1>1. PartsOK(store) /\ PartsOK(VisibleParts)
  BY VisibleFacts DEF StoreInv
<1>2. VisibleParts[c] = {e \in store[c] : e.seq <= sequence}
  BY DEF VisibleParts
<1> QED BY <1>1, <1>2, PartFacts

(* Every visible entry is one of a child, and of one only.                  *)
LEMMA StoreFacts ==
  ASSUME StoreInv
  PROVE  /\ All(VisibleParts) \subseteq All(store)
         /\ All(store) \subseteq DB!Entries
         /\ \A a, b \in All(store) : a.seq = b.seq => a = b
         /\ \A c, d \in DB!Sources : \A a \in store[c] : a \in store[d] => c = d
         /\ \A c \in DB!Sources : store[c] \subseteq All(store)
<1>1. PartsOK(store) /\ PartsOK(VisibleParts)
  BY VisibleFacts DEF StoreInv
<1>2. \A c \in DB!Sources : VisibleParts[c] \subseteq store[c]
  BY ChildFacts
<1>3. All(VisibleParts) \subseteq All(store)
  BY <1>2, IterConstants DEF All
<1> QED BY <1>1, <1>3, PartFacts DEF PartsOK

(* Positions in the children.                                               *)
Positions(S, ps) ==
  /\ ps \in [DB!Sources -> DB!Entries \union {Nil}]
  /\ \A c \in DB!Sources : ps[c] # Nil => ps[c] \in S[c]

(* SeekToFirst and SeekToLast of the children.                              *)
LEMMA EndsReached ==
  ASSUME StoreInv
  PROVE  LET first == [c \in DB!Sources |-> DB!Least(store[c])]
             end == [c \in DB!Sources |-> DB!Greatest(store[c])]
         IN  /\ Positions(store, first)
             /\ FwdPos(VisibleParts, All(VisibleParts), first)
             /\ Positions(store, end)
             /\ RevPos(VisibleParts, All(VisibleParts), end)
<1> DEFINE first == [c \in DB!Sources |-> DB!Least(store[c])]
           end == [c \in DB!Sources |-> DB!Greatest(store[c])]
<1>1. ASSUME NEW c \in DB!Sources
      PROVE  /\ DB!Least(store[c]) \in store[c] \union {Nil}
             /\ DB!Greatest(store[c]) \in store[c] \union {Nil}
             /\ store[c] \subseteq DB!Entries
             /\ \A v \in VisibleParts[c] :
                  /\ v \in All(VisibleParts)
                  /\ DB!Least(store[c]) # Nil
                  /\ ~DB!Before(v, DB!Least(store[c]))
                  /\ DB!Greatest(store[c]) # Nil
                  /\ ~DB!Before(DB!Greatest(store[c]), v)
  <2> DEFINE T == store[c]
  <2>1. /\ T \subseteq DB!Entries /\ IsFiniteSet(T)
        /\ \A a, b \in T : a.seq = b.seq => a = b
        /\ VisibleParts[c] \subseteq T
        /\ VisibleParts[c] \subseteq All(VisibleParts)
    BY ChildFacts
  <2> HIDE DEF T
  <2>2. /\ T = {} <=> DB!Least(T) = Nil
        /\ T # {} => /\ DB!Least(T) \in T
                     /\ \A b \in T \ {DB!Least(T)} : DB!Before(DB!Least(T), b)
        /\ T = {} <=> DB!Greatest(T) = Nil
        /\ T # {} => /\ DB!Greatest(T) \in T
                     /\ \A b \in T \ {DB!Greatest(T)} :
                          DB!Before(b, DB!Greatest(T))
    BY <2>1, LeastIs
  <2>3. ASSUME NEW v \in VisibleParts[c]
        PROVE  ~DB!Before(v, DB!Least(T)) /\ ~DB!Before(DB!Greatest(T), v)
    <3>1. /\ v = DB!Least(T) \/ DB!Before(DB!Least(T), v)
          /\ v = DB!Greatest(T) \/ DB!Before(v, DB!Greatest(T))
          /\ v \in DB!Entries /\ DB!Least(T) \in DB!Entries
          /\ DB!Greatest(T) \in DB!Entries
      BY <2>1, <2>2
    <3> QED BY <3>1, KeyOrder
  <2>4. VisibleParts[c] # {} => T # {}
    BY <2>1
  <2> QED BY <2>1, <2>2, <2>3, <2>4 DEF T
<1>2. Positions(store, first) /\ Positions(store, end)
  BY <1>1 DEF Positions
<1> QED BY <1>1, <1>2 DEF FwdPos, RevPos

(* Seek of the children, to the first entry of a key that may be shown.     *)
LEMMA SeekReached ==
  ASSUME StoreInv, NEW k \in UserKeys
  PROVE  LET e == [k |-> k, seq |-> sequence]
             ps == [c \in DB!Sources |-> DB!SeekIn(store[c], e)]
         IN  /\ Positions(store, ps)
             /\ FwdPos(VisibleParts, {v \in All(VisibleParts) : v.k >= k}, ps)
<1> DEFINE e == [k |-> k, seq |-> sequence]
           ps == [c \in DB!Sources |-> DB!SeekIn(store[c], e)]
           W == {v \in All(VisibleParts) : v.k >= k}
<1>1. e.k \in Nat /\ e.seq \in Nat /\ e.k = k /\ e.seq = sequence
  BY IterConstants DEF StoreInv
<1> HIDE DEF e
<1>2. ASSUME NEW c \in DB!Sources
      PROVE  /\ DB!SeekIn(store[c], e) # Nil => DB!SeekIn(store[c], e) \in store[c]
             /\ store[c] \subseteq DB!Entries
             /\ \A v \in VisibleParts[c] :
                  v \in W <=> DB!SeekIn(store[c], e) # Nil
                              /\ ~DB!Before(v, DB!SeekIn(store[c], e))
  <2> DEFINE T == store[c]
  <2>1. /\ T \subseteq DB!Entries /\ IsFiniteSet(T)
        /\ \A a, b \in T : a.seq = b.seq => a = b
        /\ VisibleParts[c] \subseteq T
        /\ VisibleParts[c] \subseteq All(VisibleParts)
        /\ \A v \in VisibleParts[c] : v.seq <= sequence
    BY ChildFacts
  <2> HIDE DEF T
  <2>2. /\ DB!SeekIn(T, e) # Nil => DB!SeekIn(T, e) \in T
        /\ \A a \in T : ~DB!Before(a, e) <=>
             DB!SeekIn(T, e) # Nil /\ ~DB!Before(a, DB!SeekIn(T, e))
    BY <1>1, <2>1, SearchIs
  <2>3. \A v \in VisibleParts[c] : v \in W <=> ~DB!Before(v, e)
    BY <1>1, <2>1, IterConstants DEF DB!Before, StoreInv
  <2> HIDE DEF W
  <2> QED BY <2>1, <2>2, <2>3 DEF T
<1>3. Positions(store, ps)
  BY <1>2 DEF Positions
<1> HIDE DEF W
<1> QED BY <1>2, <1>3 DEF FwdPos, e, W

(* What is known of a valid MergingIterator.                                *)
LEMMA EntryFacts ==
  ASSUME StoreInv, NEW m, MergerOK(store, m), DB!MValid(m)
  PROVE  /\ m.cur \in DB!Sources /\ DB!MEntry(m) = m.pos[m.cur]
         /\ DB!MEntry(m) \in store[m.cur] /\ DB!MEntry(m) \in DB!Entries
         /\ DB!MEntry(m) \in All(store)
         /\ DB!MEntry(m).k \in UserKeys /\ DB!MEntry(m).k \in Nat
         /\ DB!MEntry(m).seq \in Nat
         /\ \A w \in All(VisibleParts) :
              w # DB!MEntry(m) => \/ DB!Before(w, DB!MEntry(m))
                                  \/ DB!Before(DB!MEntry(m), w)
         /\ \A c \in DB!Sources : m.pos[c] = DB!MEntry(m) => c = m.cur
         /\ \A c \in DB!Sources : c # m.cur => DB!MEntry(m) \notin store[c]
<1> DEFINE e == DB!MEntry(m)
<1>1. m.cur \in DB!Sources /\ m.pos[m.cur] # Nil /\ e = m.pos[m.cur]
  BY DEF MergerOK, DB!MValid, DB!MEntry
<1>2. e \in store[m.cur] /\ e # Nil
  BY <1>1 DEF MergerOK
<1> HIDE DEF e
<1>3. e \in All(store) /\ e \in DB!Entries
  BY <1>1, <1>2, StoreFacts
<1>4. \A c \in DB!Sources : c # m.cur => e \notin store[c]
  BY <1>1, <1>2, StoreFacts
<1>5. \A c \in DB!Sources : m.pos[c] = e => c = m.cur
  BY <1>2, <1>4 DEF MergerOK
<1>6. \A w \in All(VisibleParts) : w # e => DB!Before(w, e) \/ DB!Before(e, w)
  BY <1>3, StoreFacts, KeyOrder
<1> QED BY <1>1, <1>2, <1>3, <1>4, <1>5, <1>6, IterConstants DEF e

(* Next of the MergingIterator leaves the current entry behind.  After a    *)
(* change of direction no other child is at the same entry.                 *)
LEMMA NextReached ==
  ASSUME StoreInv, NEW m, MergerOK(store, m), DB!MValid(m),
         NEW W \in SUBSET All(VisibleParts), FwdPos(VisibleParts, W, m.pos),
         NEW turned \in BOOLEAN
  PROVE  LET ps == [c \in DB!Sources |-> IF c = m.cur THEN DB!After(store[c], m.pos[c])
                                         ELSE m.pos[c]]
         IN  /\ DB!MNext(m, turned) = DB!FindSmallest(ps)
             /\ Positions(store, ps)
             /\ FwdPos(VisibleParts, W \ {DB!MEntry(m)}, ps)
<1> DEFINE e == DB!MEntry(m)
           ps == [c \in DB!Sources |-> IF c = m.cur THEN DB!After(store[c], m.pos[c])
                                       ELSE m.pos[c]]
           R == W \ {e}
<1>1. /\ m.cur \in DB!Sources /\ e = m.pos[m.cur]
      /\ e \in store[m.cur] /\ e \in DB!Entries /\ e.k \in Nat /\ e.seq \in Nat
      /\ \A w \in All(VisibleParts) : w # e => DB!Before(w, e) \/ DB!Before(e, w)
      /\ \A c \in DB!Sources : m.pos[c] = e => c = m.cur
      /\ \A c \in DB!Sources : c # m.cur => e \notin store[c]
  BY EntryFacts
<1>2. DB!MNext(m, turned) = DB!FindSmallest(ps)
  <2>1. [c \in DB!Sources |->
           IF c = m.cur \/ (turned /\ m.pos[c] = e)
           THEN DB!After(store[c], m.pos[c]) ELSE m.pos[c]] = ps
    BY <1>1
  <2> HIDE DEF ps
  <2> QED BY <2>1 DEF DB!MNext
<1> HIDE DEF e
<1>3. ASSUME NEW c \in DB!Sources
      PROVE  /\ store[c] \subseteq DB!Entries
             /\ ps[c] \in store[c] \union {Nil}
             /\ \A v \in VisibleParts[c] :
                  v \in R <=> ps[c] # Nil /\ ~DB!Before(v, ps[c])
  <2> DEFINE T == store[c]
  <2>1. /\ T \subseteq DB!Entries /\ IsFiniteSet(T)
        /\ \A a, b \in T : a.seq = b.seq => a = b
        /\ VisibleParts[c] \subseteq T
        /\ VisibleParts[c] \subseteq All(VisibleParts)
    BY ChildFacts
  <2>2. \A v \in VisibleParts[c] : v \in W <=> m.pos[c] # Nil /\ ~DB!Before(v, m.pos[c])
    BY DEF FwdPos
  <2>3. CASE c # m.cur
    <3>1. ps[c] = m.pos[c]
      BY <2>3
    <3>2. ps[c] \in T \union {Nil}
      BY <3>1 DEF MergerOK
    <3>3. \A v \in VisibleParts[c] : v # e
      BY <1>1, <2>1, <2>3
    <3> QED BY <2>1, <2>2, <3>1, <3>2, <3>3
  <2>4. CASE c = m.cur
    <3>1. ps[c] = DB!After(T, e) /\ m.pos[c] = e /\ e # Nil
      BY <1>1, <2>4, IterConstants
    <3> HIDE DEF T, ps
    <3>2. /\ DB!After(T, e) # Nil => DB!After(T, e) \in T
          /\ \A a \in T : DB!Before(e, a) <=>
               DB!After(T, e) # Nil /\ ~DB!Before(a, DB!After(T, e))
      BY <1>1, <2>1, SearchIs
    <3>3. \A v \in VisibleParts[c] : v \in R <=> DB!Before(e, v)
      <4> TAKE v \in VisibleParts[c]
      <4>1. v \in DB!Entries /\ v \in All(VisibleParts)
        BY <2>1
      <4>2. v \in W <=> ~DB!Before(v, e)
        BY <2>2, <3>1
      <4>3. v # e => DB!Before(v, e) \/ DB!Before(e, v)
        BY <1>1, <4>1
      <4>4. (DB!Before(e, v) => ~DB!Before(v, e)) /\ ~DB!Before(e, e)
        BY <1>1, <4>1, KeyOrder
      <4> QED BY <4>2, <4>3, <4>4
    <3> HIDE DEF R
    <3> QED BY <2>1, <3>1, <3>2, <3>3 DEF T
  <2> QED BY <2>3, <2>4
<1>4. Positions(store, ps)
  <2>1. \A c \in DB!Sources : ps[c] \in DB!Entries \union {Nil}
    BY <1>3
  <2>2. ps \in [DB!Sources -> DB!Entries \union {Nil}]
    BY <2>1
  <2> QED BY <1>3, <2>2 DEF Positions
<1> HIDE DEF R
<1>5. FwdPos(VisibleParts, R, ps)
  BY <1>3 DEF FwdPos
<1> QED BY <1>2, <1>4, <1>5 DEF R, e

(* Prev of it, when it moves backwards already.                             *)
LEMMA PrevReached ==
  ASSUME StoreInv, NEW m, MergerOK(store, m), DB!MValid(m),
         NEW W \in SUBSET All(VisibleParts), RevPos(VisibleParts, W, m.pos)
  PROVE  LET ps == [c \in DB!Sources |-> IF c = m.cur THEN DB!LessThan(store[c], m.pos[c])
                                         ELSE m.pos[c]]
         IN  /\ DB!MPrev(m, FALSE) = DB!FindLargest(ps)
             /\ Positions(store, ps)
             /\ RevPos(VisibleParts, W \ {DB!MEntry(m)}, ps)
<1> DEFINE e == DB!MEntry(m)
           ps == [c \in DB!Sources |-> IF c = m.cur THEN DB!LessThan(store[c], m.pos[c])
                                       ELSE m.pos[c]]
           R == W \ {e}
<1>1. /\ m.cur \in DB!Sources /\ e = m.pos[m.cur]
      /\ e \in store[m.cur] /\ e \in DB!Entries /\ e.k \in Nat /\ e.seq \in Nat
      /\ \A w \in All(VisibleParts) : w # e => DB!Before(w, e) \/ DB!Before(e, w)
      /\ \A c \in DB!Sources : c # m.cur => e \notin store[c]
  BY EntryFacts
<1>2. DB!MPrev(m, FALSE) = DB!FindLargest(ps)
  <2> DEFINE qs == [c \in DB!Sources |->
           CASE c = m.cur -> DB!LessThan(store[c], m.pos[c])
             [] c # m.cur /\ FALSE /\ m.pos[c] # Nil -> DB!LessThan(store[c], m.pos[c])
             [] c # m.cur /\ FALSE /\ m.pos[c] = Nil -> DB!Greatest(store[c])
             [] OTHER -> m.pos[c]]
  <2>1. \A c \in DB!Sources : qs[c] = ps[c]
    OBVIOUS
  <2>2. qs = ps
    BY <2>1
  <2>3. DB!MPrev(m, FALSE) = DB!FindLargest(qs)
    BY DEF DB!MPrev
  <2> HIDE DEF ps, qs
  <2> QED BY <2>2, <2>3
<1> HIDE DEF e
<1>3. ASSUME NEW c \in DB!Sources
      PROVE  /\ store[c] \subseteq DB!Entries
             /\ ps[c] \in store[c] \union {Nil}
             /\ \A v \in VisibleParts[c] :
                  v \in R <=> ps[c] # Nil /\ ~DB!Before(ps[c], v)
  <2> DEFINE T == store[c]
  <2>1. /\ T \subseteq DB!Entries /\ IsFiniteSet(T)
        /\ \A a, b \in T : a.seq = b.seq => a = b
        /\ VisibleParts[c] \subseteq T
        /\ VisibleParts[c] \subseteq All(VisibleParts)
    BY ChildFacts
  <2>2. \A v \in VisibleParts[c] : v \in W <=> m.pos[c] # Nil /\ ~DB!Before(m.pos[c], v)
    BY DEF RevPos
  <2>3. CASE c # m.cur
    <3>1. ps[c] = m.pos[c]
      BY <2>3
    <3>2. ps[c] \in T \union {Nil}
      BY <3>1 DEF MergerOK
    <3>3. \A v \in VisibleParts[c] : v # e
      BY <1>1, <2>1, <2>3
    <3> QED BY <2>1, <2>2, <3>1, <3>2, <3>3
  <2>4. CASE c = m.cur
    <3>1. ps[c] = DB!LessThan(T, e) /\ m.pos[c] = e /\ e # Nil
      BY <1>1, <2>4, IterConstants
    <3> HIDE DEF T, ps
    <3>2. /\ DB!LessThan(T, e) # Nil => DB!LessThan(T, e) \in T
          /\ \A a \in T : DB!Before(a, e) <=>
               DB!LessThan(T, e) # Nil /\ ~DB!Before(DB!LessThan(T, e), a)
      BY <1>1, <2>1, SearchIs
    <3>3. \A v \in VisibleParts[c] : v \in R <=> DB!Before(v, e)
      <4> TAKE v \in VisibleParts[c]
      <4>1. v \in DB!Entries /\ v \in All(VisibleParts)
        BY <2>1
      <4>2. v \in W <=> ~DB!Before(e, v)
        BY <2>2, <3>1
      <4>3. v # e => DB!Before(v, e) \/ DB!Before(e, v)
        BY <1>1, <4>1
      <4>4. (DB!Before(v, e) => ~DB!Before(e, v)) /\ ~DB!Before(e, e)
        BY <1>1, <4>1, KeyOrder
      <4> QED BY <4>2, <4>3, <4>4
    <3> HIDE DEF R
    <3> QED BY <2>1, <3>1, <3>2, <3>3 DEF T
  <2> QED BY <2>3, <2>4
<1>4. Positions(store, ps)
  <2>1. \A c \in DB!Sources : ps[c] \in DB!Entries \union {Nil}
    BY <1>3
  <2>2. ps \in [DB!Sources -> DB!Entries \union {Nil}]
    BY <2>1
  <2> QED BY <1>3, <2>2 DEF Positions
<1> HIDE DEF R
<1>5. RevPos(VisibleParts, R, ps)
  BY <1>3 DEF RevPos
<1> QED BY <1>2, <1>4, <1>5 DEF R, e

(* A change of direction takes every child to the first of its entries that *)
(* is not before the current one, and keeps that one.                       *)
LEMMA TurnReached ==
  ASSUME StoreInv, NEW m, MergerOK(store, m), DB!MValid(m),
         NEW n, n = DB!MTurn(m)
  PROVE  /\ MergerOK(store, n) /\ DB!MValid(n) /\ n.fwd = m.fwd
         /\ DB!MEntry(n) = DB!MEntry(m)
         /\ FwdPos(VisibleParts, From(All(VisibleParts), DB!MEntry(m)), n.pos)
<1> DEFINE e == DB!MEntry(m)
           W == From(All(VisibleParts), e)
           ps == [c \in DB!Sources |-> IF c = m.cur THEN m.pos[c]
                                       ELSE DB!SeekIn(store[c], e)]
<1>1. /\ m.cur \in DB!Sources /\ e = m.pos[m.cur]
      /\ e \in store[m.cur] /\ e \in DB!Entries /\ e.k \in Nat /\ e.seq \in Nat
  BY EntryFacts
<1>2. n = [pos |-> ps, cur |-> m.cur, fwd |-> m.fwd]
  <2>1. m = [pos |-> m.pos, cur |-> m.cur, fwd |-> m.fwd]
    BY DEF MergerOK
  <2>2. n = [m EXCEPT !.pos = [c \in DB!Sources |->
               IF c = m.cur THEN m.pos[c] ELSE DB!SeekIn(store[c], e)]]
    BY DEF DB!MTurn
  <2> HIDE DEF e
  <2> QED BY <2>1, <2>2
<1>3. n.pos = ps /\ n.cur = m.cur /\ n.fwd = m.fwd
  BY <1>2
<1>4. DB!MEntry(n) = e /\ DB!MValid(n)
  BY <1>1, <1>3 DEF DB!MEntry, DB!MValid
<1> HIDE DEF e
<1>5. ASSUME NEW c \in DB!Sources
      PROVE  /\ store[c] \subseteq DB!Entries
             /\ ps[c] \in store[c] \union {Nil}
             /\ \A v \in VisibleParts[c] :
                  v \in W <=> ps[c] # Nil /\ ~DB!Before(v, ps[c])
  <2> DEFINE T == store[c]
  <2>1. /\ T \subseteq DB!Entries /\ IsFiniteSet(T)
        /\ \A a, b \in T : a.seq = b.seq => a = b
        /\ VisibleParts[c] \subseteq T
        /\ VisibleParts[c] \subseteq All(VisibleParts)
    BY ChildFacts
  <2>2. \A v \in VisibleParts[c] : v \in W <=> ~DB!Before(v, e)
    BY <2>1 DEF From
  <2>3. CASE c = m.cur
    <3>1. ps[c] = e /\ e # Nil /\ e \in T
      BY <1>1, <2>3, IterConstants
    <3> HIDE DEF T, ps, W
    <3> QED BY <2>1, <2>2, <3>1 DEF T
  <2>4. CASE c # m.cur
    <3>1. ps[c] = DB!SeekIn(T, e)
      BY <2>4
    <3> HIDE DEF T, ps, W
    <3>2. /\ DB!SeekIn(T, e) # Nil => DB!SeekIn(T, e) \in T
          /\ \A a \in T : ~DB!Before(a, e) <=>
               DB!SeekIn(T, e) # Nil /\ ~DB!Before(a, DB!SeekIn(T, e))
      BY <1>1, <2>1, SearchIs
    <3> QED BY <2>1, <2>2, <3>1, <3>2 DEF T
  <2> QED BY <2>3, <2>4
<1>6. MergerOK(store, n)
  <2>1. \A c \in DB!Sources : ps[c] \in DB!Entries \union {Nil}
    BY <1>5
  <2>2. ps \in [DB!Sources -> DB!Entries \union {Nil}]
    BY <2>1
  <2>3. \A c \in DB!Sources : ps[c] # Nil => ps[c] \in store[c]
    BY <1>5
  <2>4. ps[m.cur] # Nil
    BY <1>1, IterConstants
  <2>5. m.cur \in DB!Sources \union {Nil} /\ m.fwd \in BOOLEAN
    BY DEF MergerOK
  <2>6. n = [pos |-> n.pos, cur |-> n.cur, fwd |-> n.fwd]
    BY <1>2
  <2> HIDE DEF ps
  <2> QED BY <1>3, <2>2, <2>3, <2>4, <2>5, <2>6 DEF MergerOK
<1> HIDE DEF W, ps
<1>7. FwdPos(VisibleParts, W, n.pos)
  BY <1>3, <1>5 DEF FwdPos
<1> QED BY <1>3, <1>4, <1>6, <1>7 DEF W, e

(* Prev after a change of direction takes every child to the last of its    *)
(* entries before the current one.                                          *)
LEMMA TurnedBack ==
  ASSUME StoreInv, NEW m, MergerOK(store, m), DB!MValid(m),
         FwdPos(VisibleParts, From(All(VisibleParts), DB!MEntry(m)), m.pos)
  PROVE  LET ps == [c \in DB!Sources |->
                      IF m.pos[c] # Nil THEN DB!LessThan(store[c], m.pos[c])
                      ELSE DB!Greatest(store[c])]
         IN  /\ DB!MPrev(m, TRUE) = DB!FindLargest(ps)
             /\ Positions(store, ps)
             /\ RevPos(VisibleParts,
                       UpTo(All(VisibleParts), DB!MEntry(m)) \ {DB!MEntry(m)}, ps)
<1> DEFINE e == DB!MEntry(m)
           W == From(All(VisibleParts), e)
           R == UpTo(All(VisibleParts), e) \ {e}
           ps == [c \in DB!Sources |->
                    IF m.pos[c] # Nil THEN DB!LessThan(store[c], m.pos[c])
                    ELSE DB!Greatest(store[c])]
<1>1. /\ m.cur \in DB!Sources /\ e = m.pos[m.cur] /\ e # Nil
      /\ e \in store[m.cur] /\ e \in DB!Entries /\ e.k \in Nat /\ e.seq \in Nat
      /\ \A w \in All(VisibleParts) : w # e => DB!Before(w, e) \/ DB!Before(e, w)
  BY EntryFacts, IterConstants
<1>2. DB!MPrev(m, TRUE) = DB!FindLargest(ps)
  <2> DEFINE qs == [c \in DB!Sources |->
           CASE c = m.cur -> DB!LessThan(store[c], m.pos[c])
             [] c # m.cur /\ TRUE /\ m.pos[c] # Nil -> DB!LessThan(store[c], m.pos[c])
             [] c # m.cur /\ TRUE /\ m.pos[c] = Nil -> DB!Greatest(store[c])
             [] OTHER -> m.pos[c]]
  <2>1. ASSUME NEW c \in DB!Sources PROVE qs[c] = ps[c]
    <3>1. CASE c = m.cur
      BY <1>1, <3>1
    <3>2. CASE c # m.cur /\ m.pos[c] # Nil
      BY <3>2
    <3>3. CASE c # m.cur /\ m.pos[c] = Nil
      BY <3>3
    <3> QED BY <3>1, <3>2, <3>3
  <2>2. qs = ps
    BY <2>1
  <2>3. DB!MPrev(m, TRUE) = DB!FindLargest(qs)
    BY DEF DB!MPrev
  <2> HIDE DEF ps, qs
  <2> QED BY <2>2, <2>3
<1> HIDE DEF e
<1>3. \A v \in All(VisibleParts) : v \in R <=> v \notin W
  <2> TAKE v \in All(VisibleParts)
  <2>1. v \in DB!Entries
    BY StoreFacts
  <2>2. v # e => DB!Before(v, e) \/ DB!Before(e, v)
    BY <1>1
  <2>3. (DB!Before(v, e) => ~DB!Before(e, v)) /\ ~DB!Before(e, e)
    BY <1>1, <2>1, KeyOrder
  <2> QED BY <2>2, <2>3 DEF From, UpTo
<1>4. ASSUME NEW c \in DB!Sources
      PROVE  /\ store[c] \subseteq DB!Entries
             /\ ps[c] \in store[c] \union {Nil}
             /\ \A v \in VisibleParts[c] :
                  v \in R <=> ps[c] # Nil /\ ~DB!Before(ps[c], v)
  <2> DEFINE T == store[c]
  <2>1. /\ T \subseteq DB!Entries /\ IsFiniteSet(T)
        /\ \A a, b \in T : a.seq = b.seq => a = b
        /\ VisibleParts[c] \subseteq T
        /\ VisibleParts[c] \subseteq All(VisibleParts)
    BY ChildFacts
  <2>2. \A v \in VisibleParts[c] : v \in R <=> ~(m.pos[c] # Nil /\ ~DB!Before(v, m.pos[c]))
    BY <1>3, <2>1 DEF FwdPos, e
  <2>3. CASE m.pos[c] # Nil
    <3> DEFINE p == m.pos[c]
    <3>1. ps[c] = DB!LessThan(T, p)
      BY <2>3
    <3>2. p \in T /\ p.k \in Nat /\ p.seq \in Nat
      BY <2>1, <2>3, IterConstants DEF MergerOK
    <3>3. \A v \in VisibleParts[c] : v \in R <=> DB!Before(v, p)
      BY <2>2, <2>3
    <3> HIDE DEF T, ps, p, R
    <3>4. /\ DB!LessThan(T, p) # Nil => DB!LessThan(T, p) \in T
          /\ \A a \in T : DB!Before(a, p) <=>
               DB!LessThan(T, p) # Nil /\ ~DB!Before(DB!LessThan(T, p), a)
      BY <2>1, <3>2, SearchIs
    <3> QED BY <2>1, <3>1, <3>3, <3>4 DEF T
  <2>4. CASE m.pos[c] = Nil
    <3>1. ps[c] = DB!Greatest(T)
      BY <2>4
    <3> HIDE DEF T, ps, R
    <3>2. /\ T = {} <=> DB!Greatest(T) = Nil
          /\ T # {} => /\ DB!Greatest(T) \in T
                       /\ \A b \in T \ {DB!Greatest(T)} :
                            DB!Before(b, DB!Greatest(T))
      BY <2>1, LeastIs
    <3>3. ASSUME NEW v \in VisibleParts[c]
          PROVE  DB!Greatest(T) # Nil /\ ~DB!Before(DB!Greatest(T), v)
      <4>1. v \in T /\ v \in DB!Entries /\ DB!Greatest(T) \in DB!Entries
        BY <2>1, <3>2
      <4>2. v = DB!Greatest(T) \/ DB!Before(v, DB!Greatest(T))
        BY <3>2, <4>1
      <4> QED BY <3>2, <4>1, <4>2, KeyOrder
    <3> QED BY <2>1, <2>2, <2>4, <3>1, <3>2, <3>3 DEF T
  <2> QED BY <2>3, <2>4
<1>5. Positions(store, ps)
  <2>1. \A c \in DB!Sources : ps[c] \in DB!Entries \union {Nil}
    BY <1>4
  <2>2. ps \in [DB!Sources -> DB!Entries \union {Nil}]
    BY <2>1
  <2> QED BY <1>4, <2>2 DEF Positions
<1> HIDE DEF R
<1>6. RevPos(VisibleParts, R, ps)
  BY <1>4 DEF RevPos
<1> QED BY <1>2, <1>5, <1>6 DEF R, e

(* A move of the MergingIterator and the round of the loop that follows.    *)
LEMMA RoundForward ==
  ASSUME StoreInv, NEW ps, Positions(store, ps),
         NEW W \in SUBSET All(VisibleParts), FwdPos(VisibleParts, W, ps),
         NEW m, m = DB!FindSmallest(ps),
         NEW d \in IterTypes, d.dir = "forward", NEW t,
         FwdState(All(VisibleParts), d, W, t),
         NEW r, r = DB!FindNextUserEntry(d, m)
  PROVE  MergerOK(store, m) /\ IterOK(VisibleParts, m, r.d, r.pc, FALSE, t)
<1>1. /\ ps \in [DB!Sources -> DB!Entries \union {Nil}]
      /\ \A c \in DB!Sources : ps[c] # Nil => ps[c] \in store[c]
  BY DEF Positions
<1>2. /\ MergerOK(store, m) /\ m.pos = ps /\ m.fwd = TRUE
      /\ ~DB!MValid(m) => W = {}
      /\ DB!MValid(m) => /\ \A w \in W : ~DB!Before(w, DB!MEntry(m))
                         /\ DB!MEntry(m) \in VisibleParts[m.cur] =>
                              DB!MEntry(m) \in W
  BY <1>1, ArrivesForward
<1> QED BY <1>2, ForwardLoop

(* The same backwards.                                                      *)
LEMMA RoundBack ==
  ASSUME StoreInv, NEW ps, Positions(store, ps),
         NEW W \in SUBSET All(VisibleParts), RevPos(VisibleParts, W, ps),
         NEW m, m = DB!FindLargest(ps),
         NEW d \in IterTypes, d.dir = "reverse", NEW t,
         BackState(All(VisibleParts), d, W, t),
         NEW r, r = DB!FindPrevUserEntry(d, m)
  PROVE  MergerOK(store, m) /\ IterOK(VisibleParts, m, r.d, r.pc, FALSE, t)
<1>1. /\ ps \in [DB!Sources -> DB!Entries \union {Nil}]
      /\ \A c \in DB!Sources : ps[c] # Nil => ps[c] \in store[c]
  BY DEF Positions
<1>2. /\ MergerOK(store, m) /\ m.pos = ps /\ m.fwd = FALSE
      /\ ~DB!MValid(m) => W = {}
      /\ DB!MValid(m) => /\ \A w \in W : ~DB!Before(DB!MEntry(m), w)
                         /\ DB!MEntry(m) \in VisibleParts[m.cur] =>
                              DB!MEntry(m) \in W
  BY <1>1, ArrivesBack
<1> QED BY <1>2, BackLoop

(* Where a search backwards for a key below k begins.                       *)
LEMMA BackBegins ==
  ASSUME NEW u, PartsOK(u), NEW k \in UserKeys, NEW d, d.vtype = "deletion"
  PROVE  BackState(All(u), d, {v \in All(u) : v.k < k},
                   DB!LargestOf({j \in ShownIn(All(u)) : j < k}))
<1> DEFINE V == All(u)
           W == {v \in V : v.k < k}
<1>1. \A w \in W, v \in V \ W : DB!Before(w, v)
  <2> TAKE w \in W, v \in V \ W
  <2>1. w.k \in Nat /\ v.k \in Nat /\ k \in Nat
    BY PartFacts, IterConstants
  <2> QED BY <2>1 DEF DB!Before
<1>2. {j \in ShownIn(V) : j < k} =
      {j \in ShownIn(V) : NewestIn(V, j) \in W \/ (d.vtype = "value" /\ j = d.key)}
  <2>1. \A j \in ShownIn(V) : NewestIn(V, j) \in W <=> j < k
    BY ShownIs
  <2>2. \A j : ~(d.vtype = "value" /\ j = d.key)
    OBVIOUS
  <2> HIDE DEF V, W
  <2> QED BY <2>1, <2>2
<1>3. d.vtype # "value"
  OBVIOUS
<1> HIDE DEF W, V
<1>4. BackState(V, d, W, DB!LargestOf({j \in ShownIn(V) : j < k}))
  BY <1>1, <1>2, <1>3 DEF BackState
<1> QED BY <1>4 DEF W, V

(* One round of the loop in which Prev leaves the current key behind.       *)
LEMMA RoundLeave ==
  ASSUME StoreInv, NEW ps, Positions(store, ps),
         NEW W \in SUBSET All(VisibleParts), RevPos(VisibleParts, W, ps),
         \A w \in W, v \in All(VisibleParts) \ W : DB!Before(w, v),
         NEW m, m = DB!FindLargest(ps),
         NEW d \in IterTypes, d.key \in UserKeys,
         \A v \in All(VisibleParts) : v.k < d.key => v \in W,
         NEW t, t = DB!LargestOf({j \in ShownIn(All(VisibleParts)) : j < d.key}),
         NEW r, r = DB!LeaveKey(d, m)
  PROVE  MergerOK(store, m) /\ IterOK(VisibleParts, m, r.d, r.pc, FALSE, t)
<1> DEFINE u == VisibleParts
           V == All(u)
           e == DB!MEntry(m)
<1>0. PartsOK(u)
  BY VisibleFacts
<1>1. /\ ps \in [DB!Sources -> DB!Entries \union {Nil}]
      /\ \A c \in DB!Sources : ps[c] # Nil => ps[c] \in store[c]
  BY DEF Positions
<1>2. /\ MergerOK(store, m) /\ m.pos = ps /\ m.fwd = FALSE
      /\ ~DB!MValid(m) => W = {}
      /\ DB!MValid(m) => /\ \A w \in W : ~DB!Before(e, w)
                         /\ e \in u[m.cur] => e \in W
  BY <1>1, ArrivesBack
<1>3. CASE ~DB!MValid(m)
  <2>1. r.d = [d EXCEPT !.valid = FALSE, !.key = Nil, !.value = Nil] /\ r.pc = "idle"
    BY <1>3 DEF DB!LeaveKey
  <2>2. {j \in ShownIn(V) : j < d.key} = {}
    <3>1. \A j \in ShownIn(V) : NewestIn(V, j) \in V /\ NewestIn(V, j).k = j
      BY <1>0, ShownIs
    <3> QED BY <1>2, <1>3, <3>1
  <2>3. t = Nil
    BY <2>2, ExtremeKeys
  <2>4. r.d \in IterTypes /\ r.d.valid = FALSE
    BY <2>1 DEF IterTypes
  <2> QED BY <1>2, <2>1, <2>3, <2>4 DEF IterOK, IdleOK
<1>4. CASE DB!MValid(m)
  <2>1. e.k \in Nat /\ e.k \in UserKeys /\ d.key \in Nat
    BY <1>2, <1>4, EntryFacts, IterConstants
  <2>2. CASE e.k >= d.key
    <3>1. r = [d |-> d, pc |-> "leave"]
      BY <1>4, <2>2 DEF DB!LeaveKey
    <3>2. LeaveOK(u, m, d, FALSE, t)
      <4> HIDE DEF e, u
      <4> SUFFICES /\ \A w \in W : ~DB!Before(e, w)
                   /\ RevPos(u, W, m.pos)
        BY <1>2, <1>4, <2>2 DEF LeaveOK, e, u
      <4> QED BY <1>2, <1>4 DEF u
    <3>3. r.d = d /\ r.pc = "leave"
      BY <3>1
    <3> HIDE DEF e, u
    <3> QED BY <1>2, <3>2, <3>3 DEF IterOK, u
  <2>3. CASE ~(e.k >= d.key)
    <3> DEFINE f == [d EXCEPT !.dir = "reverse", !.vtype = "deletion"]
    <3>1. r = DB!FindPrevUserEntry(f, m)
      BY <1>4, <2>3 DEF DB!LeaveKey
    <3>2. f \in IterTypes /\ f.dir = "reverse" /\ f.vtype = "deletion"
      BY DEF IterTypes
    <3>3. W = {v \in V : v.k < d.key}
      <4>1. ASSUME NEW w \in W PROVE w.k < d.key
        <5>1. ~DB!Before(e, w) /\ w.k \in Nat
          BY <1>0, <1>2, <1>4, Ordered
        <5> QED BY <2>1, <2>3, <5>1 DEF DB!Before
      <4> QED BY <4>1
    <3> HIDE DEF f, e
    <3>4. BackState(V, f, W, t)
      BY <1>0, <3>2, <3>3, BackBegins
    <3>5. RevPos(u, W, m.pos)
      BY <1>2
    <3>6. IterOK(VisibleParts, m, r.d, r.pc, FALSE, t)
      BY <1>2, <1>4, <3>1, <3>2, <3>4, <3>5, BackLoop DEF e
    <3> QED BY <1>2, <3>6
  <2> QED BY <2>2, <2>3
<1> QED BY <1>3, <1>4

(* A search forward for the smallest key that is shown, from the first      *)
(* entry on, and for the smallest from k on.                                *)
LEMMA SeekBegins ==
  ASSUME NEW u, PartsOK(u), NEW d, d.skipping = FALSE
  PROVE  /\ FwdState(All(u), d, All(u), DB!SmallestOf(ShownIn(All(u))))
         /\ \A k \in UserKeys :
              FwdState(All(u), d, {v \in All(u) : v.k >= k},
                       DB!SmallestOf({j \in ShownIn(All(u)) : j >= k}))
<1> DEFINE V == All(u)
<1>1. \A v \in V : NewestIn(V, v.k) \in V /\ NewestIn(V, v.k).k = v.k /\ v.k \in Nat
  BY NewestIs, PartFacts, IterConstants
<1>2. \A j \in ShownIn(V) : NewestIn(V, j) \in V /\ NewestIn(V, j).k = j
  BY ShownIs
<1>3. ~d.skipping
  OBVIOUS
<1> HIDE DEF V
<1>4. FwdState(V, d, V, DB!SmallestOf(ShownIn(V)))
  <2>1. ShownIn(V) = {j \in ShownIn(V) : /\ NewestIn(V, j) \in V
                                         /\ ~(d.skipping /\ j <= d.key)}
    BY <1>2, <1>3
  <2> QED BY <1>1, <1>3, <2>1 DEF FwdState
<1>5. ASSUME NEW k \in UserKeys
      PROVE  FwdState(V, d, {v \in V : v.k >= k},
                      DB!SmallestOf({j \in ShownIn(V) : j >= k}))
  <2> DEFINE W == {v \in V : v.k >= k}
  <2>0. k \in Nat
    BY IterConstants
  <2>1. \A w \in W, v \in V \ W : DB!Before(v, w)
    BY <1>1, <2>0 DEF DB!Before
  <2>2. \A w \in W : NewestIn(V, w.k) \in W
    BY <1>1
  <2>3. \A j \in ShownIn(V) : NewestIn(V, j) \in W <=> j >= k
    BY <1>2
  <2>4. {j \in ShownIn(V) : j >= k} =
        {j \in ShownIn(V) : NewestIn(V, j) \in W /\ ~(d.skipping /\ j <= d.key)}
    <3> HIDE DEF W
    <3> QED BY <1>3, <2>3
  <2> HIDE DEF W
  <2>5. FwdState(V, d, W, DB!SmallestOf({j \in ShownIn(V) : j >= k}))
    BY <1>3, <2>1, <2>2, <2>4 DEF FwdState
  <2> QED BY <2>5 DEF W
<1> QED BY <1>4, <1>5 DEF V

(* A search forward for the smallest key after k, from behind an entry e of *)
(* k or of a smaller key, or from the first entry when there is none of a   *)
(* smaller key.                                                             *)
LEMMA NextBegins ==
  ASSUME NEW u, PartsOK(u), NEW k \in UserKeys, NEW d,
         d.skipping = TRUE, d.key = k,
         NEW W \in SUBSET All(u),
         \A w \in W : w.k >= k,
         \A w \in W, v \in All(u) \ W : DB!Before(v, w),
         \A v \in All(u) : v.k > k => v \in W
  PROVE  FwdState(All(u), d, W, DB!SmallestOf({j \in ShownIn(All(u)) : j > k}))
<1> DEFINE V == All(u)
<1>0. k \in Nat
  BY IterConstants
<1>1. \A v \in V : NewestIn(V, v.k) \in V /\ NewestIn(V, v.k).k = v.k /\ v.k \in Nat
  BY NewestIs, PartFacts, IterConstants
<1>2. \A j \in ShownIn(V) : NewestIn(V, j) \in V /\ NewestIn(V, j).k = j /\ j \in Nat
  BY ShownIs
<1>3. /\ \A w \in W : w.k >= k
      /\ \A w \in W, v \in V \ W : DB!Before(v, w)
      /\ \A v \in V : v.k > k => v \in W
      /\ W \subseteq V
  OBVIOUS
<1> HIDE DEF V
<1>4. \A w \in W : NewestIn(V, w.k) \in W \/ w.k <= k
  BY <1>0, <1>1, <1>3
<1>5. {j \in ShownIn(V) : j > k} =
      {j \in ShownIn(V) : NewestIn(V, j) \in W /\ ~(d.skipping /\ j <= d.key)}
  <2>1. \A j \in ShownIn(V) : j > k <=> NewestIn(V, j) \in W /\ ~(j <= k)
    BY <1>0, <1>2, <1>3
  <2> QED BY <2>1
<1> QED BY <1>3, <1>4, <1>5 DEF FwdState, V

(* An operation that leaves the store alone.                                *)
LEMMA StoreKept ==
  ASSUME IterInv, UNCHANGED <<store, last, sequence>>,
         MergerOK(store, mi'),
         IterOK(VisibleParts, mi', dbIt', dbPc', half', target')
  PROVE  IterInv'
<1>1. VisibleParts' = VisibleParts
  BY DEF VisibleParts
<1>2. StoreInv'
  BY DEF IterInv, StoreInv
<1> QED BY <1>1, <1>2 DEF IterInv

(* What IterInv says of an iterator that is valid.                          *)
LEMMA IdleFacts ==
  ASSUME IterInv, dbPc = "idle"
  PROVE  /\ StoreInv /\ MergerOK(store, mi) /\ half = FALSE
         /\ PartsOK(VisibleParts) /\ DB!Shown = ShownIn(All(VisibleParts))
         /\ dbIt \in IterTypes
         /\ IdleOK(VisibleParts, mi, dbIt, target)
         /\ dbIt.valid =>
              /\ target \in ShownIn(All(VisibleParts)) /\ DB!Key = target
              /\ target \in UserKeys
<1>1. StoreInv /\ MergerOK(store, mi) /\ dbIt \in IterTypes /\ half = FALSE
      /\ IdleOK(VisibleParts, mi, dbIt, target)
  BY DEF IterInv, IterOK
<1>2. PartsOK(VisibleParts) /\ DB!Shown = ShownIn(All(VisibleParts))
  BY <1>1, VisibleFacts
<1>3. ASSUME dbIt.valid
      PROVE  target \in ShownIn(All(VisibleParts)) /\ DB!Key = target
  <2>1. dbIt.dir \in {"forward", "reverse"}
    BY <1>1 DEF IterTypes
  <2>2. CASE dbIt.dir = "forward"
    <3>1. target \in ShownIn(All(VisibleParts))
          /\ DB!MEntry(mi) = NewestIn(All(VisibleParts), target)
      BY <1>1, <1>3, <2>2 DEF IdleOK
    <3>2. NewestIn(All(VisibleParts), target).k = target
      BY <1>2, <3>1, ShownIs
    <3> QED BY <2>2, <3>1, <3>2 DEF DB!Key
  <2>3. CASE dbIt.dir = "reverse"
    BY <1>1, <1>3, <2>3 DEF IdleOK, DB!Key
  <2> QED BY <2>1, <2>2, <2>3
<1> QED BY <1>1, <1>2, <1>3, ShownIs

(* Each operation, from IterInv.                                            *)
LEMMA SeekToFirstKeeps ==
  ASSUME IterInv, DB!SeekToFirst
  PROVE  IterInv'
<1> DEFINE d == [dbIt EXCEPT !.dir = "forward", !.value = Nil, !.skipping = FALSE]
           m == DB!MSeekToFirst
           r == DB!FindNextUserEntry(d, m)
           ps == [c \in DB!Sources |-> DB!Least(store[c])]
           V == All(VisibleParts)
<1>1. /\ dbPc = "idle" /\ target' = DB!SmallestOf(DB!Shown)
      /\ mi' = m /\ dbIt' = r.d /\ dbPc' = r.pc /\ half' = FALSE
      /\ UNCHANGED <<store, last, sequence>>
  BY DEF DB!SeekToFirst, DB!Go
<1>2. StoreInv /\ PartsOK(VisibleParts) /\ DB!Shown = ShownIn(V)
      /\ dbIt \in IterTypes
  BY <1>1, IdleFacts
<1>3. Positions(store, ps) /\ FwdPos(VisibleParts, V, ps)
  BY <1>2, EndsReached
<1>4. d \in IterTypes /\ d.dir = "forward" /\ d.skipping = FALSE
  BY <1>2 DEF IterTypes
<1>5. m = DB!FindSmallest(ps)
  BY DEF DB!MSeekToFirst
<1> HIDE DEF d, m, ps
<1>6. FwdState(V, d, V, target')
  BY <1>1, <1>2, <1>4, SeekBegins
<1> HIDE DEF r
<1>7. r = DB!FindNextUserEntry(d, m)
  BY DEF r
<1>8. MergerOK(store, m) /\ IterOK(VisibleParts, m, r.d, r.pc, FALSE, target')
  BY <1>2, <1>3, <1>4, <1>5, <1>6, <1>7, RoundForward
<1> QED BY <1>1, <1>8, StoreKept

(* Seek.                                                                    *)
LEMMA SeekKeeps ==
  ASSUME IterInv, NEW k \in UserKeys, DB!Seek(k)
  PROVE  IterInv'
<1> DEFINE d == [dbIt EXCEPT !.dir = "forward", !.value = Nil, !.key = Nil,
                             !.skipping = FALSE]
           e == [k |-> k, seq |-> sequence]
           m == DB!MSeek(e)
           r == DB!FindNextUserEntry(d, m)
           ps == [c \in DB!Sources |-> DB!SeekIn(store[c], e)]
           V == All(VisibleParts)
           W == {v \in V : v.k >= k}
<1>1. /\ dbPc = "idle" /\ target' = DB!SmallestOf({j \in DB!Shown : j >= k})
      /\ mi' = m /\ dbIt' = r.d /\ dbPc' = r.pc /\ half' = FALSE
      /\ UNCHANGED <<store, last, sequence>>
  BY DEF DB!Seek, DB!Go
<1>2. StoreInv /\ PartsOK(VisibleParts) /\ DB!Shown = ShownIn(V)
      /\ dbIt \in IterTypes
  BY <1>1, IdleFacts
<1>3. Positions(store, ps) /\ FwdPos(VisibleParts, W, ps)
  BY <1>2, SeekReached
<1>4. d \in IterTypes /\ d.dir = "forward" /\ d.skipping = FALSE
  BY <1>2 DEF IterTypes
<1>5. m = DB!FindSmallest(ps)
  BY DEF DB!MSeek
<1> HIDE DEF d, m, ps
<1>6. FwdState(V, d, W, target')
  BY <1>1, <1>2, <1>4, SeekBegins
<1> HIDE DEF r
<1>7. r = DB!FindNextUserEntry(d, m)
  BY DEF r
<1>8. W \in SUBSET V
  OBVIOUS
<1> HIDE DEF W
<1>9. MergerOK(store, m) /\ IterOK(VisibleParts, m, r.d, r.pc, FALSE, target')
  BY <1>2, <1>3, <1>4, <1>5, <1>6, <1>7, <1>8, RoundForward
<1> QED BY <1>1, <1>9, StoreKept

(* SeekToLast.                                                              *)
LEMMA SeekToLastKeeps ==
  ASSUME IterInv, DB!SeekToLast
  PROVE  IterInv'
<1> DEFINE d == [dbIt EXCEPT !.dir = "reverse", !.value = Nil, !.vtype = "deletion"]
           m == DB!MSeekToLast
           r == DB!FindPrevUserEntry(d, m)
           ps == [c \in DB!Sources |-> DB!Greatest(store[c])]
           V == All(VisibleParts)
<1>1. /\ dbPc = "idle" /\ target' = DB!LargestOf(DB!Shown)
      /\ mi' = m /\ dbIt' = r.d /\ dbPc' = r.pc /\ half' = FALSE
      /\ UNCHANGED <<store, last, sequence>>
  BY DEF DB!SeekToLast, DB!Go
<1>2. StoreInv /\ PartsOK(VisibleParts) /\ DB!Shown = ShownIn(V)
      /\ dbIt \in IterTypes
  BY <1>1, IdleFacts
<1>3. Positions(store, ps) /\ RevPos(VisibleParts, V, ps)
  BY <1>2, EndsReached
<1>4. d \in IterTypes /\ d.dir = "reverse" /\ d.vtype = "deletion"
  BY <1>2 DEF IterTypes
<1>5. m = DB!FindLargest(ps)
  BY DEF DB!MSeekToLast
<1> HIDE DEF d, m, ps
<1>6. BackState(V, d, V, target')
  <2>1. \A j \in ShownIn(V) : NewestIn(V, j) \in V
    BY <1>2, ShownIs
  <2>2. ShownIn(V) = {j \in ShownIn(V) : NewestIn(V, j) \in V
                                         \/ (d.vtype = "value" /\ j = d.key)}
    BY <2>1
  <2> HIDE DEF V
  <2> QED BY <1>1, <1>2, <1>4, <2>2 DEF BackState
<1> HIDE DEF r
<1>7. r = DB!FindPrevUserEntry(d, m)
  BY DEF r
<1>8. MergerOK(store, m) /\ IterOK(VisibleParts, m, r.d, r.pc, FALSE, target')
  BY <1>2, <1>3, <1>4, <1>5, <1>6, <1>7, RoundBack
<1> QED BY <1>1, <1>8, StoreKept

(* Next.                                                                    *)
LEMMA NextKeeps ==
  ASSUME IterInv, DB!Next_
  PROVE  IterInv'
<1> DEFINE d == [dbIt EXCEPT !.dir = "forward", !.skipping = TRUE, !.key = DB!Key]
           e == DB!MEntry(mi)
           u == VisibleParts
           V == All(u)
           k == target
<1>1. /\ dbPc = "idle" /\ dbIt.valid
      /\ target' = DB!SmallestOf({j \in DB!Shown : j > DB!Key})
      /\ UNCHANGED <<store, last, sequence>> /\ half' = FALSE
  BY DEF DB!Next_, DB!Go
<1>2. /\ StoreInv /\ MergerOK(store, mi)
      /\ PartsOK(u) /\ DB!Shown = ShownIn(V)
      /\ dbIt \in IterTypes /\ IdleOK(u, mi, dbIt, k)
      /\ k \in ShownIn(V) /\ DB!Key = k /\ k \in UserKeys /\ k \in Nat
  BY <1>1, IdleFacts, IterConstants
<1>3. /\ d \in IterTypes /\ d.dir = "forward" /\ d.skipping = TRUE /\ d.key = k
      /\ target' = DB!SmallestOf({j \in ShownIn(V) : j > k})
  BY <1>1, <1>2 DEF IterTypes
<1>4. \A v \in V : v.k \in Nat /\ v \in DB!Entries
  BY <1>2, PartFacts, IterConstants
<1>5. CASE dbIt.dir = "reverse" /\ ~DB!MValid(mi)
  <2> DEFINE m == DB!MSeekToFirst
             r == DB!FindNextUserEntry(d, m)
             ps == [c \in DB!Sources |-> DB!Least(store[c])]
  <2>1. mi' = m /\ dbIt' = r.d /\ dbPc' = r.pc
    BY <1>5 DEF DB!Next_, DB!Go
  <2>2. Positions(store, ps) /\ FwdPos(u, V, ps)
    BY <1>2, EndsReached
  <2>3. m = DB!FindSmallest(ps)
    BY DEF DB!MSeekToFirst
  <2>4. \A v \in V : v.k >= k
    BY <1>1, <1>2, <1>4, <1>5 DEF IdleOK
  <2> HIDE DEF d, m, ps
  <2>5. FwdState(V, d, V, target')
    BY <1>2, <1>3, <2>4, NextBegins
  <2>6. r = DB!FindNextUserEntry(d, m)
    OBVIOUS
  <2> HIDE DEF r
  <2>7. MergerOK(store, m) /\ IterOK(u, m, r.d, r.pc, FALSE, target')
    BY <1>2, <1>3, <2>2, <2>3, <2>5, <2>6, RoundForward
  <2> QED BY <1>1, <2>1, <2>7, StoreKept
<1>6. CASE ~(dbIt.dir = "reverse" /\ ~DB!MValid(mi))
  <2> DEFINE W == From(V, e)
  <2>1. mi' = mi /\ dbIt' = d /\ dbPc' = "next"
    BY <1>6 DEF DB!Next_, DB!Go
  <2>2. DB!MValid(mi) /\ dbIt.dir \in {"forward", "reverse"}
    BY <1>1, <1>2, <1>6 DEF IdleOK, IterTypes
  <2>3. /\ e \in DB!Entries /\ e.k \in Nat
        /\ \A w \in V : w # e => DB!Before(w, e) \/ DB!Before(e, w)
    BY <1>2, <2>2, EntryFacts
  <2>4. /\ e.k <= k /\ \A w \in W \ {e} : w.k >= k
        /\ dbIt.dir = "forward" => mi.fwd /\ FwdPos(u, W, mi.pos)
        /\ dbIt.dir = "reverse" => ~mi.fwd
    <3>1. CASE dbIt.dir = "forward"
      <4>1. e = NewestIn(V, k) /\ mi.fwd /\ FwdPos(u, W, mi.pos)
        BY <1>1, <1>2, <3>1 DEF IdleOK
      <4>2. e.k = k
        BY <1>2, <4>1, ShownIs
      <4>3. \A w \in W : w.k >= k
        BY <1>4, <4>2, <2>3 DEF From, DB!Before
      <4> QED BY <1>2, <3>1, <4>1, <4>2, <4>3
    <3>2. CASE dbIt.dir = "reverse"
      <4>1. e.k < k /\ ~mi.fwd /\ \A w \in V : w.k < k => ~DB!Before(e, w)
        BY <1>1, <1>2, <2>2, <3>2 DEF IdleOK
      <4>2. \A w \in W \ {e} : w.k >= k
        BY <1>2, <1>4, <2>3, <4>1 DEF From
      <4> QED BY <1>2, <2>3, <3>2, <4>1, <4>2
    <3> QED BY <2>2, <3>1, <3>2
  <2> HIDE DEF e, u, V, d
  <2>5. FwdState(V, d, W \ {e}, target')
    <3>1. \A w \in W \ {e}, v \in V \ (W \ {e}) : DB!Before(v, w)
      <4> TAKE w \in W \ {e}, v \in V \ (W \ {e})
      <4>1. DB!Before(e, w)
        BY <2>3 DEF From
      <4>2. v = e \/ DB!Before(v, e)
        BY DEF From
      <4> QED BY <1>4, <2>3, <4>1, <4>2, KeyOrder DEF From
    <3>2. \A v \in V : v.k > k => v \in W \ {e}
      BY <1>2, <1>4, <2>3, <2>4 DEF From, DB!Before
    <3>3. W \ {e} \in SUBSET V /\ \A w \in W \ {e} : w.k >= k
      BY <2>4 DEF From
    <3> HIDE DEF W
    <3> QED BY <1>2, <1>3, <3>1, <3>2, <3>3, NextBegins DEF V
  <2>6. NextOK(u, mi, d, FALSE, target')
    <3>1. W \in SUBSET V /\ \A w \in W : ~DB!Before(w, e)
      BY DEF From
    <3>2. mi.fwd => FwdPos(u, W, mi.pos)
      BY <2>2, <2>4
    <3>3. W = From(V, e)
      OBVIOUS
    <3> HIDE DEF W
    <3> QED BY <1>3, <2>2, <2>5, <3>1, <3>2, <3>3 DEF NextOK, V, e
  <2>7. IterOK(u, mi, d, "next", FALSE, target')
    BY <1>3, <2>6 DEF IterOK
  <2> QED BY <1>1, <1>2, <2>1, <2>7, StoreKept DEF u
<1> QED BY <1>5, <1>6

(* Prev.                                                                    *)
LEMMA PrevKeeps ==
  ASSUME IterInv, DB!Prev
  PROVE  IterInv'
<1> DEFINE e == DB!MEntry(mi)
           u == VisibleParts
           V == All(u)
           k == target
<1>1. /\ dbPc = "idle" /\ dbIt.valid
      /\ target' = DB!LargestOf({j \in DB!Shown : j < DB!Key})
      /\ UNCHANGED <<store, last, sequence>> /\ half' = FALSE /\ mi' = mi
  BY DEF DB!Prev, DB!Go
<1>2. /\ StoreInv /\ MergerOK(store, mi)
      /\ PartsOK(u) /\ DB!Shown = ShownIn(V)
      /\ dbIt \in IterTypes /\ IdleOK(u, mi, dbIt, k)
      /\ k \in ShownIn(V) /\ DB!Key = k /\ k \in UserKeys /\ k \in Nat
  BY <1>1, IdleFacts, IterConstants
<1>3. target' = DB!LargestOf({j \in ShownIn(V) : j < k})
  BY <1>1, <1>2
<1>4. \A v \in V : v.k \in Nat /\ v \in DB!Entries
  BY <1>2, PartFacts, IterConstants
<1>5. CASE dbIt.dir = "forward"
  <2> DEFINE d == [dbIt EXCEPT !.key = DB!Key]
             W == UpTo(V, e)
  <2>1. dbIt' = d /\ dbPc' = "leave"
    BY <1>5 DEF DB!Prev, DB!Go
  <2>2. d \in IterTypes /\ d.key = k
    BY <1>2 DEF IterTypes
  <2>3. DB!MValid(mi) /\ mi.fwd /\ e = NewestIn(V, k)
    BY <1>1, <1>2, <1>5 DEF IdleOK
  <2>4. e.k = k /\ e \in V
    BY <1>2, <2>3, ShownIs
  <2> HIDE DEF d, e, V, u
  <2>5. \A w \in W, v \in V \ W : DB!Before(w, v)
    <3> TAKE w \in W, v \in V \ W
    <3>1. ~DB!Before(e, w) /\ DB!Before(e, v) /\ w \in V
      BY DEF UpTo
    <3>2. w = e \/ DB!Before(w, e)
      BY <1>2, <2>4, <3>1, Ordered DEF V
    <3> QED BY <1>4, <2>4, <3>1, <3>2, KeyOrder
  <2>6. \A v \in V : v.k < k => v \in W
    BY <1>2, <1>4, <2>4 DEF UpTo, DB!Before
  <2>7. W \in SUBSET V /\ \A w \in W : ~DB!Before(e, w)
    BY DEF UpTo
  <2>8. LeaveOK(u, mi, d, FALSE, target')
    <3>1. W = UpTo(V, e)
      OBVIOUS
    <3> HIDE DEF W
    <3>2. e.k >= d.key
      BY <1>2, <2>2, <2>4
    <3> QED BY <1>2, <1>3, <2>2, <2>3, <2>5, <2>6, <2>7, <3>1, <3>2
        DEF LeaveOK, V, e
  <2>9. IterOK(u, mi, d, "leave", FALSE, target')
    BY <2>2, <2>8 DEF IterOK
  <2> QED BY <1>1, <1>2, <2>1, <2>9, StoreKept DEF u
<1>6. CASE dbIt.dir = "reverse"
  <2> DEFINE d == [dbIt EXCEPT !.vtype = "deletion"]
             r == DB!FindPrevUserEntry(d, mi)
             W == {v \in V : v.k < k}
  <2>1. dbIt' = r.d /\ dbPc' = r.pc
    BY <1>6 DEF DB!Prev, DB!Go
  <2>2. d \in IterTypes /\ d.dir = "reverse" /\ d.vtype = "deletion"
    BY <1>2, <1>6 DEF IterTypes
  <2>3. /\ mi.fwd = FALSE /\ RevPos(u, W, mi.pos)
        /\ ~DB!MValid(mi) => W = {}
        /\ DB!MValid(mi) => e.k < k /\ \A w \in W : ~DB!Before(e, w)
    BY <1>1, <1>2, <1>6 DEF IdleOK, MergerOK
  <2>4. e \in u[mi.cur] /\ DB!MValid(mi) => e \in W
    <3>1. ASSUME e \in u[mi.cur], DB!MValid(mi) PROVE e \in V
      <4>1. mi.cur \in DB!Sources
        BY <1>2, <3>1, EntryFacts
      <4> QED BY <1>2, <3>1, <4>1, PartFacts
    <3> QED BY <2>3, <3>1
  <2> HIDE DEF d
  <2>5. BackState(V, d, W, target')
    BY <1>2, <1>3, <2>2, BackBegins
  <2>6. W \in SUBSET V
    OBVIOUS
  <2>7. r = DB!FindPrevUserEntry(d, mi)
    OBVIOUS
  <2> HIDE DEF r, W, e
  <2>8. IterOK(VisibleParts, mi, r.d, r.pc, FALSE, target')
    BY <1>2, <2>2, <2>3, <2>4, <2>5, <2>6, <2>7, BackLoop DEF e
  <2> QED BY <1>1, <1>2, <2>1, <2>8, StoreKept
<1>7. dbIt.dir \in {"forward", "reverse"}
  BY <1>2 DEF IterTypes
<1> QED BY <1>5, <1>6, <1>7

(* The first half of a change of direction.                                 *)
LEMMA TurnKeeps ==
  ASSUME IterInv, DB!Turn
  PROVE  IterInv'
<1> DEFINE e == DB!MEntry(mi)
           n == DB!MTurn(mi)
           u == VisibleParts
           V == All(u)
<1>1. /\ half = FALSE /\ half' = TRUE /\ mi' = n
      /\ \/ dbPc = "next" /\ ~mi.fwd
         \/ dbPc \in {"prev", "leave"} /\ mi.fwd
      /\ UNCHANGED <<store, last, sequence>> /\ UNCHANGED <<dbIt, dbPc, target>>
  <2>1. half \in BOOLEAN
    BY DEF IterInv, IterOK
  <2> QED BY <2>1 DEF DB!Turn
<1>2. StoreInv /\ MergerOK(store, mi) /\ IterOK(u, mi, dbIt, dbPc, half, target)
  BY DEF IterInv
<1>3. CASE dbPc = "next"
  <2>1. NextOK(u, mi, dbIt, FALSE, target) /\ ~mi.fwd
    BY <1>1, <1>2, <1>3 DEF IterOK
  <2>2. DB!MValid(mi)
    BY <2>1 DEF NextOK
  <2>3. /\ MergerOK(store, n) /\ DB!MValid(n) /\ n.fwd = mi.fwd
        /\ DB!MEntry(n) = e /\ FwdPos(u, From(V, e), n.pos)
    BY <1>2, <2>2, TurnReached
  <2> HIDE DEF n
  <2>4. NextOK(u, n, dbIt, TRUE, target)
    <3>1. /\ dbIt.dir = "forward"
          /\ \A w \in From(V, e) : ~DB!Before(w, e)
          /\ From(V, e) \in SUBSET V
          /\ FwdState(V, dbIt, From(V, e) \ {e}, target)
      BY <2>1 DEF NextOK
    <3> HIDE DEF u
    <3> QED BY <2>1, <2>3, <3>1 DEF NextOK
  <2>5. IterOK(u, n, dbIt, dbPc, TRUE, target)
    BY <1>2, <1>3, <2>4 DEF IterOK
  <2> QED BY <1>1, <2>3, <2>5, StoreKept
<1>4. CASE dbPc \in {"prev", "leave"}
  <2>1. dbPc = "leave" /\ mi.fwd /\ LeaveOK(u, mi, dbIt, FALSE, target)
    BY <1>1, <1>2, <1>4 DEF IterOK, PrevOK
  <2>2. DB!MValid(mi)
    BY <2>1 DEF LeaveOK
  <2>3. /\ MergerOK(store, n) /\ DB!MValid(n) /\ n.fwd = mi.fwd
        /\ DB!MEntry(n) = e /\ FwdPos(u, From(V, e), n.pos)
    BY <1>2, <2>2, TurnReached
  <2> HIDE DEF n
  <2>4. LeaveOK(u, n, dbIt, TRUE, target)
    <3> HIDE DEF u
    <3> QED BY <2>1, <2>3 DEF LeaveOK
  <2>5. IterOK(u, n, dbIt, dbPc, TRUE, target)
    BY <1>2, <2>1, <2>4 DEF IterOK
  <2> QED BY <1>1, <2>3, <2>5, StoreKept
<1> QED BY <1>1, <1>3, <1>4

(* A round of FindNextUserEntry.                                            *)
LEMMA MoveNextKeeps ==
  ASSUME IterInv, DB!MoveNext
  PROVE  IterInv'
<1> DEFINE e == DB!MEntry(mi)
           m == DB!MNext(mi, half)
           r == DB!FindNextUserEntry(dbIt, m)
           ps == [c \in DB!Sources |-> IF c = mi.cur THEN DB!After(store[c], mi.pos[c])
                                       ELSE mi.pos[c]]
           u == VisibleParts
           V == All(u)
<1>1. /\ dbPc = "next" /\ (half \/ mi.fwd) /\ target' = target
      /\ mi' = m /\ dbIt' = r.d /\ dbPc' = r.pc /\ half' = FALSE
      /\ UNCHANGED <<store, last, sequence>>
  BY DEF DB!MoveNext, DB!Go
<1>2. /\ StoreInv /\ MergerOK(store, mi) /\ half \in BOOLEAN
      /\ NextOK(u, mi, dbIt, half, target) /\ dbIt \in IterTypes
  BY <1>1 DEF IterInv, IterOK
<1>3. /\ DB!MValid(mi) /\ dbIt.dir = "forward"
      /\ \E W \in SUBSET V :
           /\ FwdPos(u, W, mi.pos) /\ FwdState(V, dbIt, W \ {e}, target)
  BY <1>1, <1>2 DEF NextOK
<1>4. PICK W \in SUBSET V :
        FwdPos(u, W, mi.pos) /\ FwdState(V, dbIt, W \ {e}, target)
  BY <1>3
<1>5. m = DB!FindSmallest(ps) /\ Positions(store, ps) /\ FwdPos(u, W \ {e}, ps)
  BY <1>2, <1>3, <1>4, NextReached
<1>6. r = DB!FindNextUserEntry(dbIt, m) /\ W \ {e} \in SUBSET V
  OBVIOUS
<1> HIDE DEF ps, m, r, e
<1>7. MergerOK(store, m) /\ IterOK(u, m, r.d, r.pc, FALSE, target)
  BY <1>2, <1>3, <1>4, <1>5, <1>6, RoundForward
<1> QED BY <1>1, <1>7, StoreKept

(* A round of FindPrevUserEntry, or of the loop before it in Prev.          *)
LEMMA MovePrevKeeps ==
  ASSUME IterInv, DB!MovePrev
  PROVE  IterInv'
<1> DEFINE e == DB!MEntry(mi)
           m == DB!MPrev(mi, half)
           u == VisibleParts
           V == All(u)
<1>1. /\ dbPc \in {"prev", "leave"} /\ (half \/ ~mi.fwd) /\ target' = target
      /\ mi' = m /\ half' = FALSE
      /\ UNCHANGED <<store, last, sequence>>
  BY DEF DB!MovePrev, DB!Go
<1>2. /\ StoreInv /\ MergerOK(store, mi) /\ half \in BOOLEAN
      /\ IterOK(u, mi, dbIt, dbPc, half, target) /\ dbIt \in IterTypes
      /\ PartsOK(u)
  BY VisibleFacts DEF IterInv, IterOK
<1>3. CASE dbPc = "prev"
  <2> DEFINE r == DB!FindPrevUserEntry(dbIt, m)
             ps == [c \in DB!Sources |-> IF c = mi.cur THEN DB!LessThan(store[c], mi.pos[c])
                                         ELSE mi.pos[c]]
  <2>1. dbIt' = r.d /\ dbPc' = r.pc
    BY <1>3 DEF DB!MovePrev, DB!Go
  <2>2. PrevOK(u, mi, dbIt, half, target)
    BY <1>2, <1>3 DEF IterOK
  <2>3. DB!MValid(mi) /\ dbIt.dir = "reverse" /\ half = FALSE
    BY <1>2, <2>2 DEF PrevOK
  <2>4. PICK W \in SUBSET V : /\ RevPos(u, W, mi.pos)
                              /\ BackState(V, dbIt, W \ {e}, target)
    BY <2>2 DEF PrevOK
  <2>5. m = DB!FindLargest(ps) /\ Positions(store, ps) /\ RevPos(u, W \ {e}, ps)
    BY <1>2, <2>3, <2>4, PrevReached
  <2>6. r = DB!FindPrevUserEntry(dbIt, m) /\ W \ {e} \in SUBSET V
    OBVIOUS
  <2> HIDE DEF ps, m, r, e
  <2>7. MergerOK(store, m) /\ IterOK(u, m, r.d, r.pc, FALSE, target)
    BY <1>2, <2>3, <2>4, <2>5, <2>6, RoundBack
  <2> QED BY <1>1, <2>1, <2>7, StoreKept
<1>4. CASE dbPc = "leave"
  <2> DEFINE r == DB!LeaveKey(dbIt, m)
  <2>1. dbIt' = r.d /\ dbPc' = r.pc
    BY <1>4 DEF DB!MovePrev, DB!Go
  <2>2. LeaveOK(u, mi, dbIt, half, target)
    BY <1>2, <1>4 DEF IterOK
  <2>3. /\ DB!MValid(mi) /\ dbIt.key \in UserKeys /\ e.k >= dbIt.key
        /\ half => mi.fwd /\ FwdPos(u, From(V, e), mi.pos)
        /\ target = DB!LargestOf({j \in ShownIn(V) : j < dbIt.key})
    BY <2>2 DEF LeaveOK
  <2>4. PICK W \in SUBSET V :
          /\ mi.fwd => W = UpTo(V, e)
          /\ ~mi.fwd => RevPos(u, W, mi.pos)
          /\ \A w \in W : ~DB!Before(e, w)
          /\ \A w \in W, v \in V \ W : DB!Before(w, v)
          /\ \A v \in V : v.k < dbIt.key => v \in W
    BY <2>2 DEF LeaveOK
  <2>5. PICK ps : m = DB!FindLargest(ps) /\ Positions(store, ps)
                  /\ RevPos(u, W \ {e}, ps)
    <3>1. CASE half
      <4>1. W = UpTo(V, e) /\ half = TRUE
        BY <1>2, <2>3, <2>4, <3>1
      <4> DEFINE qs == [c \in DB!Sources |->
                          IF mi.pos[c] # Nil THEN DB!LessThan(store[c], mi.pos[c])
                          ELSE DB!Greatest(store[c])]
      <4>2. /\ DB!MPrev(mi, TRUE) = DB!FindLargest(qs) /\ Positions(store, qs)
            /\ RevPos(u, UpTo(V, e) \ {e}, qs)
        BY <1>2, <2>3, <3>1, TurnedBack
      <4> HIDE DEF qs, e, u
      <4> QED BY <4>1, <4>2
    <3>2. CASE ~half
      <4>1. half = FALSE /\ RevPos(u, W, mi.pos)
        BY <1>1, <1>2, <2>4, <3>2
      <4> DEFINE qs == [c \in DB!Sources |->
                          IF c = mi.cur THEN DB!LessThan(store[c], mi.pos[c])
                          ELSE mi.pos[c]]
      <4>2. /\ DB!MPrev(mi, FALSE) = DB!FindLargest(qs) /\ Positions(store, qs)
            /\ RevPos(u, W \ {e}, qs)
        BY <1>2, <2>3, <4>1, PrevReached
      <4> HIDE DEF qs, e, u
      <4> QED BY <4>1, <4>2
    <3> QED BY <3>1, <3>2
  <2>6. /\ e.k \in Nat /\ dbIt.key \in Nat /\ e \in DB!Entries
        /\ \A w \in V : w # e => DB!Before(w, e) \/ DB!Before(e, w)
    BY <1>2, <2>3, EntryFacts, IterConstants
  <2> HIDE DEF e
  <2>7. \A w \in W \ {e}, v \in V \ (W \ {e}) : DB!Before(w, v)
    BY <2>4, <2>6
  <2>8. \A v \in V : v.k < dbIt.key => v \in W \ {e}
    BY <2>3, <2>4, <2>6 DEF e
  <2>9. r = DB!LeaveKey(dbIt, m) /\ W \ {e} \in SUBSET V
    OBVIOUS
  <2> HIDE DEF m, r
  <2>10. MergerOK(store, m) /\ IterOK(u, m, r.d, r.pc, FALSE, target)
    BY <1>2, <2>3, <2>5, <2>7, <2>8, <2>9, RoundLeave
  <2> QED BY <1>1, <2>1, <2>10, StoreKept
<1> QED BY <1>1, <1>3, <1>4

(* Another thread's insertion is too new to be visible, and no entry that   *)
(* was there goes away.                                                     *)
LEMMA InsertKeeps ==
  ASSUME IterInv, DB!Insert
  PROVE  IterInv'
<1>1. PICK k \in UserKeys, t \in DB!Types :
        store' = [store EXCEPT !["mem"] =
                    @ \union {[k |-> k, seq |-> last + 1, t |-> t]}]
  BY DEF DB!Insert
<1> DEFINE n == [k |-> k, seq |-> last + 1, t |-> t]
<1>2. /\ last' = last + 1
      /\ UNCHANGED <<sequence, mi, dbIt, dbPc, half, target>>
  BY DEF DB!Insert
<1>3. /\ StoreInv /\ MergerOK(store, mi) /\ PartsOK(store)
      /\ IterOK(VisibleParts, mi, dbIt, dbPc, half, target)
      /\ last \in Nat /\ sequence \in Nat /\ sequence <= last
      /\ \A a \in All(store) : a.seq <= last
  BY DEF IterInv, StoreInv
<1>4. n \in DB!Entries /\ n.seq = last + 1
  BY <1>3 DEF DB!Entries
<1> HIDE DEF n
<1>5. /\ store \in [DB!Sources -> SUBSET DB!Entries]
      /\ \A c \in DB!Sources : store'[c] = IF c = "mem" THEN store[c] \union {n}
                                           ELSE store[c]
      /\ DB!Sources = {"mem", "table"}
      /\ store' \in [DB!Sources -> SUBSET DB!Entries]
  BY <1>1, <1>3, <1>4, IterConstants DEF PartsOK, n
<1>6. All(store') = All(store) \union {n}
  BY <1>5 DEF All
<1>7. \A a \in All(store) : a # n /\ a.seq < n.seq /\ a.seq \in Nat
  <2>1. \A a \in All(store) : a.seq \in Nat /\ a.seq <= last
    BY <1>3, StoreFacts, IterConstants
  <2> QED BY <1>3, <1>4, <2>1
<1>8. PartsOK(store')
  <2>1. \A c \in DB!Sources : IsFiniteSet(store'[c])
    BY <1>3, <1>5, FS_AddElement DEF PartsOK
  <2>2. \A a, b \in All(store') : a.seq = b.seq => a = b
    BY <1>3, <1>6, <1>7 DEF PartsOK
  <2>3. \A c, d \in DB!Sources : \A a \in store'[c] : a \in store'[d] => c = d
    BY <1>3, <1>5, <1>7 DEF PartsOK, All
  <2> QED BY <1>5, <2>1, <2>2, <2>3 DEF PartsOK
<1>9. StoreInv'
  <2>1. \A a \in All(store') : a.seq <= last'
    <3> TAKE a \in All(store')
    <3>1. CASE a = n
      BY <1>2, <1>3, <1>4, <3>1
    <3>2. CASE a \in All(store)
      BY <1>2, <1>3, <1>7, <3>2, IterConstants
    <3> QED BY <1>6, <3>1, <3>2
  <2>2. last' \in Nat /\ sequence' \in Nat /\ sequence' <= last'
    BY <1>2, <1>3
  <2> QED BY <1>8, <2>1, <2>2 DEF StoreInv
<1>10. VisibleParts' = VisibleParts
  <2>1. \A c \in DB!Sources : {e \in store'[c] : e.seq <= sequence'} =
                              {e \in store[c] : e.seq <= sequence}
    <3>1. ~(n.seq <= sequence)
      BY <1>3, <1>4
    <3> QED BY <1>2, <1>5, <3>1
  <2> QED BY <2>1 DEF VisibleParts
<1>11. MergerOK(store', mi')
  <2>1. \A c \in DB!Sources : store[c] \subseteq store'[c]
    BY <1>5
  <2> QED BY <1>2, <1>3, <2>1 DEF MergerOK
<1>12. IterOK(VisibleParts', mi', dbIt', dbPc', half', target')
  BY <1>2, <1>3, <1>10
<1> QED BY <1>9, <1>11, <1>12 DEF IterInv

(* Every step keeps the invariant.                                          *)
LEMMA IterStep ==
  ASSUME IterInv, DB!Next \/ UNCHANGED iterVars
  PROVE  IterInv'
<1>1. CASE DB!SeekToFirst
  BY <1>1, SeekToFirstKeeps
<1>2. CASE DB!SeekToLast
  BY <1>2, SeekToLastKeeps
<1>3. CASE DB!Next_
  BY <1>3, NextKeeps
<1>4. CASE DB!Prev
  BY <1>4, PrevKeeps
<1>5. ASSUME NEW k \in UserKeys, DB!Seek(k) PROVE IterInv'
  BY <1>5, SeekKeeps
<1>6. CASE DB!Turn
  BY <1>6, TurnKeeps
<1>7. CASE DB!MoveNext
  BY <1>7, MoveNextKeeps
<1>8. CASE DB!MovePrev
  BY <1>8, MovePrevKeeps
<1>9. CASE DB!Insert
  BY <1>9, InsertKeeps
<1>10. CASE UNCHANGED iterVars
  <2>1. /\ UNCHANGED <<store, last, sequence>> /\ mi' = mi /\ dbIt' = dbIt
        /\ dbPc' = dbPc /\ half' = half /\ target' = target
    BY <1>10 DEF iterVars
  <2>2. MergerOK(store, mi) /\ IterOK(VisibleParts, mi, dbIt, dbPc, half, target)
    BY DEF IterInv
  <2>3. MergerOK(store, mi') /\ IterOK(VisibleParts, mi', dbIt', dbPc', half', target')
    BY <2>1, <2>2
  <2> QED BY <2>1, <2>3, StoreKept
<1> QED BY <1>1, <1>2, <1>3, <1>4, <1>5, <1>6, <1>7, <1>8, <1>9, <1>10
        DEF DB!Next, DB!Step

(* A new iterator satisfies it: the updates have different numbers, up to   *)
(* the last one, and those before some number are in the table.             *)
LEMMA IterStart ==
  ASSUME DB!Init
  PROVE  IterInv
<1>1. PICK u \in [1..Initial -> [k : UserKeys, t : DB!Types]], flushed \in 0..Initial :
        store = [c \in DB!Sources |->
          IF c = "table" THEN {[k |-> u[i].k, seq |-> i, t |-> u[i].t] : i \in 1..flushed}
          ELSE {[k |-> u[i].k, seq |-> i, t |-> u[i].t] : i \in flushed + 1..Initial}]
  BY DEF DB!Init, DB!InitStore
<1>2. last = Initial /\ sequence \in 0..Initial /\ DB!InitIter
  BY DEF DB!Init, DB!InitStore
<1> DEFINE entry == [i \in 1..Initial |-> [k |-> u[i].k, seq |-> i, t |-> u[i].t]]
           table == {entry[i] : i \in 1..flushed}
           mem == {entry[i] : i \in flushed + 1..Initial}
<1>3. Initial \in Nat /\ flushed \in Nat /\ flushed <= Initial
  BY IterConstants
<1>4. /\ \A i \in 1..Initial : entry[i] \in DB!Entries /\ entry[i].seq = i
      /\ 1..flushed \subseteq 1..Initial /\ flushed + 1..Initial \subseteq 1..Initial
  BY <1>3 DEF DB!Entries
<1>5. store = [c \in DB!Sources |-> IF c = "table" THEN table ELSE mem]
  <2> DEFINE Made(i) == [k |-> u[i].k, seq |-> i, t |-> u[i].t]
             D == flushed + 1..Initial
  <2>1. \A i \in 1..Initial : entry[i] = Made(i)
    OBVIOUS
  <2>2. 1..flushed \subseteq 1..Initial /\ D \subseteq 1..Initial
    BY <1>4
  <2>3. store = [c \in DB!Sources |-> IF c = "table" THEN {Made(i) : i \in 1..flushed}
                                      ELSE {Made(i) : i \in D}]
    BY <1>1
  <2> HIDE DEF entry, Made, D
  <2>4. {Made(i) : i \in 1..flushed} = {entry[i] : i \in 1..flushed}
    BY <2>1, <2>2
  <2>5. {Made(i) : i \in D} = {entry[i] : i \in D}
    BY <2>1, <2>2
  <2>6. table = {Made(i) : i \in 1..flushed} /\ mem = {Made(i) : i \in D}
    BY <2>4, <2>5 DEF D
  <2> HIDE DEF table, mem
  <2> QED BY <2>3, <2>6
<1>6. IsFiniteSet(table) /\ IsFiniteSet(mem)
  <2>1. IsFiniteSet(1..flushed) /\ IsFiniteSet(flushed + 1..Initial)
    BY <1>3, FS_Interval
  <2>2. IsFiniteSet(table)
    <3> DEFINE f == [i \in 1..flushed |-> entry[i]]
    <3>1. table = {f[i] : i \in 1..flushed}
      OBVIOUS
    <3>2. DOMAIN f = 1..flushed /\ f = [i \in 1..flushed |-> f[i]]
      OBVIOUS
    <3> HIDE DEF f, table
    <3> QED BY <2>1, <3>1, <3>2, FiniteValues
  <2>3. IsFiniteSet(mem)
    <3> DEFINE S == flushed + 1..Initial
               f == [i \in S |-> entry[i]]
    <3>1. mem = {f[i] : i \in S} /\ IsFiniteSet(S)
      BY <2>1
    <3>2. DOMAIN f = S /\ f = [i \in S |-> f[i]]
      OBVIOUS
    <3> HIDE DEF f, S, mem
    <3> QED BY <3>1, <3>2, FiniteValues
  <2> QED BY <2>2, <2>3
<1>7. /\ table \subseteq DB!Entries /\ mem \subseteq DB!Entries
      /\ \A a \in table : a.seq \in 1..flushed /\ a = entry[a.seq]
      /\ \A a \in mem : a.seq \in flushed + 1..Initial /\ a = entry[a.seq]
  <2> HIDE DEF entry
  <2> QED BY <1>4
<1> HIDE DEF table, mem, entry
<1>8. All(store) = mem \union table
  BY <1>5, IterConstants DEF All
<1>9. \A a \in All(store) : a.seq \in 1..Initial /\ a = entry[a.seq]
  BY <1>4, <1>7, <1>8
<1>10. PartsOK(store)
  <2>1. store \in [DB!Sources -> SUBSET DB!Entries]
    BY <1>5, <1>7
  <2>2. \A c \in DB!Sources : IsFiniteSet(store[c])
    BY <1>5, <1>6
  <2>3. \A a, b \in All(store) : a.seq = b.seq => a = b
    BY <1>9
  <2>4. \A a \in table : a \notin mem
    BY <1>3, <1>7
  <2>5. \A c, d \in DB!Sources : \A a \in store[c] : a \in store[d] => c = d
    BY <1>5, <2>4, IterConstants
  <2> QED BY <2>1, <2>2, <2>3, <2>5 DEF PartsOK
<1>11. StoreInv
  BY <1>2, <1>3, <1>9, <1>10 DEF StoreInv
<1>12. MergerOK(store, mi)
  BY <1>2 DEF DB!InitIter, MergerOK
<1>13. IterOK(VisibleParts, mi, dbIt, dbPc, half, target)
  BY <1>2 DEF DB!InitIter, IterOK, IterTypes, IdleOK
<1> QED BY <1>11, <1>12, <1>13 DEF IterInv

(* The invariant gives what the run checks.                                 *)
LEMMA IterShows ==
  ASSUME IterInv
  PROVE  ShowsSnapshot
<1> DEFINE u == VisibleParts
           V == All(u)
<1>1. ASSUME dbPc = "idle"
      PROVE  /\ dbIt.valid <=> target # Nil
             /\ dbIt.valid => DB!Key = target /\ DB!Value = DB!NewestOf(target).seq
             /\ dbIt.valid /\ dbIt.dir = "reverse" =>
                  /\ DB!MValid(mi) => DB!MEntry(mi).k < dbIt.key
                  /\ \A e \in DB!AllEntries :
                       DB!Visible(e) /\ DB!MValid(mi) /\ DB!Before(DB!MEntry(mi), e)
                         => e.k >= dbIt.key
  <2>1. /\ StoreInv /\ dbIt \in IterTypes /\ PartsOK(u) /\ MergerOK(store, mi)
        /\ IdleOK(u, mi, dbIt, target)
        /\ dbIt.valid => /\ target \in ShownIn(V) /\ DB!Key = target
                         /\ target \in UserKeys /\ target \in Nat
    BY <1>1, IdleFacts, IterConstants
  <2>2. \A k : DB!NewestOf(k) = NewestIn(V, k)
    BY <2>1, VisibleFacts
  <2>3. dbIt.dir \in {"forward", "reverse"}
    BY <2>1 DEF IterTypes
  <2>4. dbIt.valid => DB!Value = NewestIn(V, target).seq
    BY <2>1, <2>3 DEF IdleOK, DB!Value
  <2>5. ASSUME dbIt.valid, dbIt.dir = "reverse"
        PROVE  /\ dbIt.key = target
               /\ DB!MValid(mi) => DB!MEntry(mi).k < target
               /\ \A w \in V : DB!MValid(mi) /\ w.k < target =>
                    ~DB!Before(DB!MEntry(mi), w)
    BY <2>1, <2>5 DEF IdleOK
  <2>6. \A e \in DB!AllEntries : DB!Visible(e) => e \in V /\ e.k \in Nat
    <3>1. \A c \in DB!Sources : \A e \in store[c] : DB!Visible(e) => e \in u[c]
      BY <2>1, VisibleFacts
    <3>2. \A e \in DB!AllEntries : DB!Visible(e) => e \in V
      BY <3>1, IterConstants DEF DB!AllEntries, All
    <3> QED BY <2>1, <3>2, PartFacts, IterConstants
  <2> HIDE DEF u, V
  <2>7. ASSUME dbIt.valid, dbIt.dir = "reverse", NEW e \in DB!AllEntries,
               DB!Visible(e), DB!MValid(mi), DB!Before(DB!MEntry(mi), e)
        PROVE  e.k >= dbIt.key
    BY <2>1, <2>5, <2>6, <2>7
  <2>8. dbIt.valid <=> target # Nil
    BY <2>1 DEF IdleOK
  <2> QED BY <2>1, <2>2, <2>4, <2>5, <2>7, <2>8
<1> QED BY <1>1 DEF ShowsSnapshot, DB!ShowsSnapshot, DB!BeforeKeyInReverse

(* DBIter shows the map as it was at its sequence number: each operation    *)
(* arrives at the right key and value, or reports that there is none,       *)
(* whatever the order of the moves, the deletions and old entries in        *)
(* between, the changes of direction of the MergingIterator and what other  *)
(* threads insert between any two of its steps; and moving backwards the    *)
(* iterator below is just before the key that is shown.                     *)
THEOREM IteratorShowsSnapshot == DB!Spec => []ShowsSnapshot
<1>1. DB!Init => IterInv
  BY IterStart
<1>2. IterInv /\ [DB!Next]_iterVars => IterInv'
  BY IterStep
<1>3. IterInv => ShowsSnapshot
  BY IterShows
<1>4. DB!Spec => DB!Init /\ [][DB!Next]_iterVars
  BY DEF DB!Spec, DB!vars, iterVars
<1> QED BY <1>1, <1>2, <1>3, <1>4, PTL

-----------------------------------------------------------------------------
(* LRUCache: the invariant                                                 *)

Records ==
  [refs : [Slots -> Nat], in_cache : [Slots -> BOOLEAN],
   key : [Slots -> CacheKeys \union {None}], charge : [Slots -> Nat],
   lru : Seq(Slots), in_use : SUBSET Slots,
   table : [CacheKeys -> Slots \union {None}], usage : Nat]

InCache(d) == {e \in Slots : d.in_cache[e]}

(* The threads that hold e, if h are the handles.                           *)
HeldBy(h, e) == {t \in Threads : h[t] = e}
HoldersOf(h, e) == Cardinality(HeldBy(h, e))

(* A list without repetitions, of the members of S.                         *)
ListOf(s, S) ==
  /\ s \in Seq(Slots)
  /\ \A i, j \in 1..Len(s) : s[i] = s[j] => i = j
  /\ \A e \in Slots : e \in S <=> \E i \in 1..Len(s) : s[i] = e

Units(S, charge) == UNION {{e} \X (1..charge[e]) : e \in S}

(* All but the table: counts of references, lists and usage_ fit the        *)
(* handles h, and who has one has it of the key w wants.                    *)
CountsOK(d, h, w) ==
  /\ d \in Records
  /\ \A e \in Slots :
       d.refs[e] = HoldersOf(h, e) + (IF d.in_cache[e] THEN 1 ELSE 0)
  /\ \A t \in Threads : h[t] # None => h[t] \in Slots /\ d.key[h[t]] = w[t]
  /\ ListOf(d.lru, {e \in InCache(d) : HeldBy(h, e) = {}})
  /\ d.in_use = {e \in InCache(d) : HeldBy(h, e) # {}}
  /\ IsFiniteSet(Units(InCache(d), d.charge))
  /\ d.usage = Cardinality(Units(InCache(d), d.charge))
  /\ \A e \in InCache(d) : d.key[e] \in CacheKeys

(* The table has the cached entries other than x, each under its key.       *)
TableOK(d, x) ==
  \A k \in CacheKeys, e \in Slots :
    d.table[k] = e <=> e # x /\ d.in_cache[e] /\ d.key[e] = k

CacheOK(d, h, w) == CountsOK(d, h, w) /\ TableOK(d, None)

CacheInv ==
  /\ cPc \in [Threads -> {"idle", "loading", "using"}]
  /\ cWant \in [Threads -> CacheKeys \union {None}]
  /\ handle \in [Threads -> Slots \union {None}]
  /\ \A t \in Threads : cPc[t] = "using" <=> handle[t] # None
  /\ \A t \in Threads : cPc[t] # "idle" => cWant[t] \in CacheKeys
  /\ capacity \in Nat
  /\ CacheOK(cache, handle, cWant)

-----------------------------------------------------------------------------
(* The instance counts as this module does.                                 *)
LEMMA SameCounts ==
  \A S : Cache!Cardinality(S) = Cardinality(S)
          /\ (Cache!IsFiniteSet(S) <=> IsFiniteSet(S))
<1>1. \A S : Cache!Cardinality(S) = Cardinality(S)
  BY DEF Cache!Cardinality, Cardinality
<1>2. \A S : Cache!IsFiniteSet(S) <=> IsFiniteSet(S)
  BY DEF Cache!IsFiniteSet, IsFiniteSet
<1> QED BY <1>1, <1>2

(* Assumptions on constants, for use by name.                               *)
LEMMA ShardConstants ==
  /\ IsFiniteSet(CacheKeys) /\ IsFiniteSet(Threads) /\ IsFiniteSet(Slots)
  /\ Cardinality(Slots) >= Cardinality(CacheKeys) + Cardinality(Threads)
  /\ Charges \subseteq Nat /\ Capacities \subseteq Nat
  /\ None \notin CacheKeys /\ None \notin Slots
BY CacheConstants, SameCounts DEF Cache!CacheAssumption

(* Taking an entry out of a list.                                           *)
LEMMA UnlinkedList ==
  ASSUME NEW S, NEW s, ListOf(s, S), NEW e \in Slots
  PROVE  ListOf(Cache!LRU_Remove(s, e), S \ {e})
<1>1. s \in Seq(Slots) /\ Len(s) \in Nat /\ DOMAIN s = 1..Len(s)
      /\ \A i \in 1..Len(s) : s[i] \in Slots
  BY LenProperties DEF ListOf
<1>2. CASE ~\E i \in DOMAIN s : s[i] = e
  <2>1. Cache!LRU_Remove(s, e) = s
    BY <1>2 DEF Cache!LRU_Remove
  <2> QED BY <1>1, <1>2, <2>1 DEF ListOf
<1>3. CASE \E i \in DOMAIN s : s[i] = e
  <2> DEFINE i == CHOOSE i \in DOMAIN s : s[i] = e
             a == SubSeq(s, 1, i - 1)
             b == SubSeq(s, i + 1, Len(s))
             r == a \o b
  <2>1. Cache!LRU_Remove(s, e) = r
    BY <1>3 DEF Cache!LRU_Remove, Cache!RemoveAt
  <2>2. i \in 1..Len(s) /\ s[i] = e
    BY <1>1, <1>3
  <2> HIDE DEF i
  <2>3. /\ a \in Seq(Slots) /\ Len(a) = i - 1
        /\ \A j \in 1..(i - 1) : a[j] = s[j]
    <3>1. \A j \in 1..(i - 1) : s[j] \in Slots
      BY <1>1, <2>2
    <3> QED BY <1>1, <2>2, <3>1, SubSeqProperties
  <2>4. /\ b \in Seq(Slots) /\ Len(b) = Len(s) - i
        /\ \A j \in 1..(Len(s) - i) : b[j] = s[i + j]
    <3>1. \A j \in (i + 1)..Len(s) : s[j] \in Slots
      BY <1>1, <2>2
    <3>4. Len(s) \in Int /\ i + 1 \in Int
      BY <1>1, <2>2
    <3>2. Len(b) = IF i + 1 <= Len(s) THEN Len(s) - (i + 1) + 1 ELSE 0
      BY <3>4, <3>1, SubSeqProperties
    <3>3. b \in Seq(Slots) /\ \A j \in 1..(Len(s) - (i + 1) + 1) : b[j] = s[i + 1 + j - 1]
      BY <3>4, <3>1, SubSeqProperties
    <3> HIDE DEF b
    <3>5. Len(b) = Len(s) - i
      <4>1. \A m, k \in Nat : k <= m =>
              (IF k + 1 <= m THEN m - (k + 1) + 1 ELSE 0) = m - k
        OBVIOUS
      <4>2. Len(s) \in Nat /\ i \in Nat /\ i <= Len(s)
        BY <1>1, <2>2
      <4> QED BY <3>2, <4>1, <4>2
    <3>6. \A j \in 1..(Len(s) - i) : b[j] = s[i + j]
      <4> TAKE j \in 1..(Len(s) - i)
      <4>1. j \in 1..(Len(s) - (i + 1) + 1) /\ i + 1 + j - 1 = i + j
        BY <1>1, <2>2
      <4> QED BY <3>3, <4>1
    <3> QED BY <3>3, <3>5, <3>6
  <2> HIDE DEF a, b
  <2>5. /\ r \in Seq(Slots) /\ Len(r) = Len(s) - 1
        /\ \A j \in 1..(Len(s) - 1) : r[j] = IF j < i THEN s[j] ELSE s[j + 1]
    <3>1. r \in Seq(Slots) /\ Len(r) = Len(s) - 1
      <4>1. r \in Seq(Slots) /\ Len(r) = Len(a) + Len(b)
        BY <2>3, <2>4, ConcatProperties
      <4> QED BY <1>1, <2>2, <2>3, <2>4, <4>1
    <3>2. \A j \in 1..(Len(a) + Len(b)) :
            r[j] = IF j <= Len(a) THEN a[j] ELSE b[j - Len(a)]
      <4>1. \A j \in 1..(Len(a) + Len(b)) :
              (a \o b)[j] = IF j <= Len(a) THEN a[j] ELSE b[j - Len(a)]
        BY <2>3, <2>4, SMTT(30)
      <4> QED BY <4>1
    <3> HIDE DEF r
    <3>3. ASSUME NEW j \in 1..(Len(s) - 1)
          PROVE  r[j] = IF j < i THEN s[j] ELSE s[j + 1]
      <4>1. Len(s) \in Nat /\ i \in 1..Len(s)
        BY <1>1, <2>2
      <4>2. r[j] = IF j <= Len(a) THEN a[j] ELSE b[j - Len(a)]
        <5>1. j \in 1..(Len(a) + Len(b))
          BY <2>3, <2>4, <4>1
        <5> QED BY <3>2, <5>1
      <4>3. CASE j < i
        <5>1. j \in 1..(i - 1) /\ j <= Len(a)
          BY <2>3, <4>1, <4>3
        <5>2. a[j] = s[j]
          BY <2>3, <5>1
        <5> QED BY <4>2, <4>3, <5>1, <5>2
      <4>4. CASE ~(j < i)
        <5>1. ~(j <= Len(a)) /\ j - Len(a) = j - (i - 1)
          BY <2>3, <4>1, <4>4
        <5>2. j - (i - 1) \in 1..(Len(s) - i) /\ i + (j - (i - 1)) = j + 1
          BY <4>1, <4>4
        <5>3. b[j - (i - 1)] = s[j + 1]
          BY <2>4, <5>2
        <5> QED BY <4>2, <4>4, <5>1, <5>3
      <4> QED BY <4>3, <4>4
    <3> QED BY <3>1, <3>3
  <2> HIDE DEF r
  <2>6. \A j, k \in 1..Len(r) : r[j] = r[k] => j = k
    BY <1>1, <2>2, <2>5 DEF ListOf
  <2>7. ASSUME NEW x \in Slots
        PROVE  x \in S \ {e} <=> \E j \in 1..Len(r) : r[j] = x
    <3>1. ASSUME x \in S \ {e} PROVE \E j \in 1..Len(r) : r[j] = x
      <4>1. PICK k \in 1..Len(s) : s[k] = x
        BY <3>1 DEF ListOf
      <4>2. k # i
        BY <2>2, <3>1, <4>1
      <4>3. CASE k < i
        <5>1. k \in 1..Len(r) /\ r[k] = x
          BY <1>1, <2>2, <2>5, <4>1, <4>3
        <5> QED BY <5>1
      <4>4. CASE k > i
        <5>1. k - 1 \in 1..Len(r) /\ r[k - 1] = x
          BY <1>1, <2>2, <2>5, <4>1, <4>4
        <5> QED BY <5>1
      <4> QED BY <1>1, <2>2, <4>2, <4>3, <4>4
    <3>2. ASSUME NEW j \in 1..Len(r), r[j] = x PROVE x \in S \ {e}
      <4>1. PICK k \in 1..Len(s) : k # i /\ s[k] = x
        <5>1. CASE j < i
          BY <1>1, <2>2, <2>5, <3>2, <5>1
        <5>2. CASE ~(j < i)
          <6>1. j + 1 \in 1..Len(s) /\ j + 1 # i /\ s[j + 1] = x
            BY <1>1, <2>2, <2>5, <3>2, <5>2
          <6> QED BY <6>1
        <5> QED BY <5>1, <5>2
      <4>2. x \in S
        BY <4>1 DEF ListOf
      <4>3. x # e
        BY <1>1, <2>2, <4>1 DEF ListOf
      <4> QED BY <4>2, <4>3
    <3> QED BY <3>1, <3>2
  <2> QED BY <2>1, <2>5, <2>6, <2>7 DEF ListOf
<1> QED BY <1>2, <1>3

(* Putting a new entry at the end of a list.                                *)
LEMMA AppendedList ==
  ASSUME NEW S, NEW s, ListOf(s, S), NEW e \in Slots, e \notin S
  PROVE  ListOf(Append(s, e), S \union {e})
<1>1. s \in Seq(Slots) /\ Len(s) \in Nat
  BY LenProperties DEF ListOf
<1> DEFINE r == Append(s, e)
<1>2. /\ r \in Seq(Slots) /\ Len(r) = Len(s) + 1
      /\ \A i \in 1..Len(s) : r[i] = s[i]
      /\ r[Len(s) + 1] = e
  BY <1>1, AppendProperties
<1>3. \A i \in 1..Len(s) : s[i] # e
  BY DEF ListOf
<1> HIDE DEF r
<1>4. \A j, k \in 1..Len(r) : r[j] = r[k] => j = k
  BY <1>1, <1>2, <1>3 DEF ListOf
<1>5. ASSUME NEW x \in Slots
      PROVE  x \in S \union {e} <=> \E j \in 1..Len(r) : r[j] = x
  <2>1. ASSUME x \in S PROVE \E j \in 1..Len(r) : r[j] = x
    <3>1. PICK k \in 1..Len(s) : s[k] = x
      BY <2>1 DEF ListOf
    <3>2. k \in 1..Len(r) /\ r[k] = x
      BY <1>1, <1>2, <3>1
    <3> QED BY <3>2
  <2>2. ASSUME x = e PROVE \E j \in 1..Len(r) : r[j] = x
    <3>1. Len(s) + 1 \in 1..Len(r)
      BY <1>1, <1>2
    <3> QED BY <1>2, <2>2, <3>1
  <2>3. ASSUME NEW j \in 1..Len(r), r[j] = x PROVE x \in S \union {e}
    <3>1. CASE j = Len(s) + 1
      BY <1>2, <2>3, <3>1
    <3>2. CASE j # Len(s) + 1
      <4>1. j \in 1..Len(s) /\ s[j] = x
        BY <1>1, <1>2, <2>3, <3>2
      <4> QED BY <4>1 DEF ListOf
    <3> QED BY <3>1, <3>2
  <2> QED BY <2>1, <2>2, <2>3
<1> QED BY <1>2, <1>4, <1>5 DEF ListOf, r

(* usage_ when an entry joins or leaves.                                    *)
LEMMA UnitsOfOne ==
  ASSUME NEW e, NEW n \in Nat
  PROVE  IsFiniteSet({e} \X (1..n)) /\ Cardinality({e} \X (1..n)) = n
<1>1. IsFiniteSet(1..n) /\ Cardinality(1..n) = n
  BY FS_Interval
<1>2. ExistsBijection(1..n, {e} \X (1..n))
  <2> DEFINE f == [i \in 1..n |-> <<e, i>>]
  <2>1. f \in Bijection(1..n, {e} \X (1..n))
    <3>1. f \in [1..n -> {e} \X (1..n)]
      OBVIOUS
    <3>2. \A i, j \in 1..n : f[i] = f[j] => i = j
      OBVIOUS
    <3>3. \A p \in {e} \X (1..n) : \E i \in 1..n : f[i] = p
      OBVIOUS
    <3> HIDE DEF f
    <3> QED BY <3>1, <3>2, <3>3 DEF Bijection, Injection, IsInjective, Surjection
  <2> QED BY <2>1 DEF ExistsBijection
<1> QED BY <1>1, <1>2, FS_Bijection

(* An entry that joins adds its charge to usage_.                           *)
LEMMA UnitsJoin ==
  ASSUME NEW S \in SUBSET Slots, NEW e \in Slots \ S,
         NEW c \in [Slots -> Nat], IsFiniteSet(Units(S, c))
  PROVE  /\ IsFiniteSet(Units(S \union {e}, c))
         /\ Cardinality(Units(S \union {e}, c)) = Cardinality(Units(S, c)) + c[e]
<1> DEFINE A == Units(S, c)
           B == {e} \X (1..c[e])
<1>1. IsFiniteSet(B) /\ Cardinality(B) = c[e] /\ c[e] \in Nat
  BY UnitsOfOne
<1>2. Units(S \union {e}, c) = A \union B
  BY DEF Units
<1>3. A \intersect B = {}
  BY DEF Units
<1>4. IsFiniteSet(A) /\ Cardinality(A) \in Nat
  BY FS_CardinalityType
<1> HIDE DEF A, B
<1>5. /\ IsFiniteSet(A \union B)
      /\ Cardinality(A \union B)
           = Cardinality(A) + Cardinality(B) - Cardinality(A \intersect B)
  BY <1>1, <1>4, FS_Union
<1>6. Cardinality(A \intersect B) = 0
  BY <1>3, FS_EmptySet
<1>7. Cardinality(A \union B) = Cardinality(A) + c[e]
  BY <1>1, <1>4, <1>5, <1>6
<1> QED BY <1>2, <1>5, <1>7 DEF A

(* An entry that leaves takes its charge off usage_.                        *)
LEMMA UnitsLeave ==
  ASSUME NEW S \in SUBSET Slots, NEW e \in S,
         NEW c \in [Slots -> Nat], IsFiniteSet(Units(S, c))
  PROVE  /\ IsFiniteSet(Units(S \ {e}, c))
         /\ Cardinality(Units(S, c)) = Cardinality(Units(S \ {e}, c)) + c[e]
         /\ Cardinality(Units(S \ {e}, c)) \in Nat
<1>1. Units(S \ {e}, c) \subseteq Units(S, c)
  BY DEF Units
<1>2. IsFiniteSet(Units(S \ {e}, c))
  BY <1>1, FS_Subset
<1>3. (S \ {e}) \union {e} = S
  OBVIOUS
<1>4. S \ {e} \in SUBSET Slots /\ e \in Slots \ (S \ {e})
  OBVIOUS
<1> QED BY <1>2, <1>3, <1>4, UnitsJoin, FS_CardinalityType

(* Units depend on the charges of their entries only.                       *)
LEMMA UnitsSame ==
  ASSUME NEW S, NEW c, NEW d, \A e \in S : c[e] = d[e]
  PROVE  Units(S, c) = Units(S, d)
BY DEF Units

-----------------------------------------------------------------------------
(* How many hold an entry.                                                  *)
LEMMA HolderFacts ==
  ASSUME NEW h, NEW e
  PROVE  /\ HoldersOf(h, e) \in Nat
         /\ HoldersOf(h, e) = 0 <=> HeldBy(h, e) = {}
         /\ IsFiniteSet(HeldBy(h, e))
<1>1. HeldBy(h, e) \in SUBSET Threads
  BY DEF HeldBy
<1>2. IsFiniteSet(HeldBy(h, e))
  BY <1>1, ShardConstants, FS_Subset
<1> QED BY <1>2, FS_CardinalityType, FS_EmptySet DEF HoldersOf

(* Fields of a cache.                                                       *)
LEMMA RecordFacts ==
  ASSUME NEW d \in Records
  PROVE  /\ d = [refs |-> d.refs, in_cache |-> d.in_cache, key |-> d.key,
                 charge |-> d.charge, lru |-> d.lru, in_use |-> d.in_use,
                 table |-> d.table, usage |-> d.usage]
         /\ d.refs \in [Slots -> Nat] /\ d.in_cache \in [Slots -> BOOLEAN]
         /\ d.key \in [Slots -> CacheKeys \union {None}]
         /\ d.charge \in [Slots -> Nat] /\ d.lru \in Seq(Slots)
         /\ d.in_use \in SUBSET Slots
         /\ d.table \in [CacheKeys -> Slots \union {None}] /\ d.usage \in Nat
BY DEF Records

(* FinishErase of an entry the table no longer has: the cache gives up its  *)
(* reference, and the entry is freed if no thread has one.                  *)
LEMMA FinishEraseKeeps ==
  ASSUME NEW d, NEW h, NEW w, NEW x \in Slots,
         CountsOK(d, h, w), TableOK(d, x), d.in_cache[x]
  PROVE  CacheOK(Cache!FinishErase(d, x), h, w)
<1> DEFINE n == d.refs[x] - 1
           D == Cache!FinishErase(d, x)
           keyNow == [d.key EXCEPT ![x] = IF n = 0 THEN None ELSE @]
           charge == [d.charge EXCEPT ![x] = IF n = 0 THEN 0 ELSE @]
           in_cache == [d.in_cache EXCEPT ![x] = FALSE]
           refs == [d.refs EXCEPT ![x] = n]
           lru == Cache!LRU_Remove(d.lru, x)
           usage == d.usage - d.charge[x]
<1>1. d \in Records
  BY DEF CountsOK
<1>2. x # None
  BY ShardConstants
<1>3. /\ d.charge \in [Slots -> Nat] /\ d.charge[x] \in Nat
      /\ IsFiniteSet(Units(InCache(d) \ {x}, d.charge))
      /\ usage = Cardinality(Units(InCache(d) \ {x}, d.charge)) /\ usage \in Nat
  <2>1. /\ d.charge \in [Slots -> Nat] /\ IsFiniteSet(Units(InCache(d), d.charge))
        /\ d.usage = Cardinality(Units(InCache(d), d.charge)) /\ d.usage \in Nat
        /\ d.charge[x] \in Nat
    BY <1>1, RecordFacts DEF CountsOK
  <2>2. x \in InCache(d) /\ InCache(d) \in SUBSET Slots
    BY DEF InCache
  <2>3. /\ IsFiniteSet(Units(InCache(d) \ {x}, d.charge))
        /\ d.usage = Cardinality(Units(InCache(d) \ {x}, d.charge)) + d.charge[x]
        /\ Cardinality(Units(InCache(d) \ {x}, d.charge)) \in Nat
    BY <2>1, <2>2, UnitsLeave
  <2> QED BY <2>1, <2>3
<1>4. n = HoldersOf(h, x) /\ n \in Nat
  BY <1>1, HolderFacts, RecordFacts DEF CountsOK
<1>5. ListOf(lru, {e \in InCache(d) : HeldBy(h, e) = {}} \ {x})
      /\ lru \in Seq(Slots)
  <2>1. ListOf(d.lru, {e \in InCache(d) : HeldBy(h, e) = {}})
    BY DEF CountsOK
  <2>2. ListOf(lru, {e \in InCache(d) : HeldBy(h, e) = {}} \ {x})
    BY <2>1, UnlinkedList
  <2> QED BY <2>2 DEF ListOf
<1>6. /\ D.refs = refs /\ D.in_cache = in_cache /\ D.key = keyNow
      /\ D.charge = charge /\ D.lru = lru /\ D.in_use = d.in_use \ {x}
      /\ D.table = d.table /\ D.usage = usage /\ D \in Records
  <2> DEFINE c == [d EXCEPT !.lru = Cache!LRU_Remove(@, x), !.in_use = @ \ {x},
                            !.in_cache[x] = FALSE, !.usage = @ - d.charge[x]]
  <2>1. /\ c.refs = d.refs /\ c.in_cache = in_cache /\ c.key = d.key
        /\ c.charge = d.charge /\ c.lru = lru /\ c.in_use = d.in_use \ {x}
        /\ c.table = d.table /\ c.usage = usage
    BY <1>1 DEF Records
  <2>2. c \in Records
    <3> HIDE DEF lru, usage
    <3> DEFINE b == [d EXCEPT !.lru = lru, !.in_use = @ \ {x},
                              !.in_cache[x] = FALSE, !.usage = usage]
    <3>1. b \in Records
      BY <1>1, <1>3, <1>5 DEF Records
    <3> USE DEF lru, usage
    <3>2. c = b
      OBVIOUS
    <3> QED BY <3>1, <3>2
  <2>3. D = Cache!Unref(c, x)
    BY <1>2 DEF Cache!FinishErase
  <2> HIDE DEF c, D, lru, usage
  <2>4. c.in_cache[x] = FALSE
    BY <1>1, <2>1, RecordFacts
  <2>5. D = [c EXCEPT !.refs[x] = n,
                      !.key[x] = IF n = 0 THEN None ELSE @,
                      !.charge[x] = IF n = 0 THEN 0 ELSE @,
                      !.in_use = @, !.lru = @]
    BY <2>1, <2>3, <2>4 DEF Cache!Unref
  <2> HIDE DEF n
  <2> QED BY <1>4, <2>1, <2>2, <2>5 DEF Records
<1> HIDE DEF D
<1>7. InCache(D) = InCache(d) \ {x} /\ x \in InCache(d) /\ InCache(d) \subseteq Slots
  BY <1>1, <1>6, RecordFacts DEF InCache
<1>8. /\ IsFiniteSet(Units(InCache(D), D.charge))
      /\ usage = Cardinality(Units(InCache(D), D.charge))
      /\ ListOf(lru, {e \in InCache(D) : HeldBy(h, e) = {}})
  <2>1. Units(InCache(D), D.charge) = Units(InCache(D), d.charge)
    <3>1. \A e \in InCache(D) : D.charge[e] = d.charge[e]
      BY <1>3, <1>6, <1>7
    <3> QED BY <3>1, UnitsSame
  <2>2. {e \in InCache(D) : HeldBy(h, e) = {}}
          = {e \in InCache(d) : HeldBy(h, e) = {}} \ {x}
    BY <1>7
  <2> HIDE DEF lru, usage
  <2> QED BY <1>3, <1>5, <1>7, <2>1, <2>2
<1>9. ASSUME NEW e \in Slots
      PROVE  D.refs[e] = HoldersOf(h, e) + (IF D.in_cache[e] THEN 1 ELSE 0)
  <2>1. d.refs[e] = HoldersOf(h, e) + (IF d.in_cache[e] THEN 1 ELSE 0)
    BY DEF CountsOK
  <2>2. CASE e = x
    BY <1>1, <1>4, <1>6, <2>2, RecordFacts
  <2>3. CASE e # x
    BY <1>1, <1>6, <2>1, <2>3, RecordFacts
  <2> QED BY <2>2, <2>3
<1>10. ASSUME NEW t \in Threads, h[t] # None
       PROVE  h[t] \in Slots /\ D.key[h[t]] = w[t]
  <2>1. h[t] \in Slots /\ d.key[h[t]] = w[t]
    BY <1>10 DEF CountsOK
  <2>2. CASE h[t] = x
    <3>1. HeldBy(h, x) # {}
      BY <2>2 DEF HeldBy
    <3>2. n # 0
      BY <1>4, <3>1, HolderFacts
    <3> HIDE DEF n
    <3> QED BY <1>1, <1>6, <2>1, <3>2, RecordFacts
  <2>3. CASE h[t] # x
    BY <1>1, <1>6, <2>1, <2>3, RecordFacts
  <2> QED BY <2>1, <2>2, <2>3
<1>11. D.in_use = {e \in InCache(D) : HeldBy(h, e) # {}}
  <2>1. d.in_use = {e \in InCache(d) : HeldBy(h, e) # {}}
    BY DEF CountsOK
  <2> QED BY <1>6, <1>7, <2>1
<1>12. \A e \in InCache(D) : D.key[e] \in CacheKeys
  <2>1. \A e \in InCache(d) : d.key[e] \in CacheKeys
    BY DEF CountsOK
  <2> QED BY <1>1, <1>6, <1>7, <2>1, RecordFacts
<1>13. TableOK(D, None)
  <2> SUFFICES ASSUME NEW k \in CacheKeys, NEW e \in Slots
               PROVE  D.table[k] = e <=>
                        e # None /\ D.in_cache[e] /\ D.key[e] = k
    BY DEF TableOK
  <2>1. d.table[k] = e <=> e # x /\ d.in_cache[e] /\ d.key[e] = k
    BY DEF TableOK
  <2>2. e # None
    BY ShardConstants
  <2> QED BY <1>1, <1>6, <2>1, <2>2, RecordFacts
<1> QED
  <2> HIDE DEF lru, usage
  <2>1. CountsOK(D, h, w)
    BY <1>6, <1>8, <1>9, <1>10, <1>11, <1>12 DEF CountsOK
  <2> QED BY <1>13, <2>1 DEF CacheOK, D

(* TableRemove, called by Erase and by the loops of Insert and Prune.       *)
LEMMA TableRemoveKeeps ==
  ASSUME NEW d, NEW h, NEW w, CacheOK(d, h, w), NEW k \in CacheKeys
  PROVE  CacheOK(Cache!TableRemove(d, k), h, w)
<1> DEFINE x == d.table[k]
           D == [d EXCEPT !.table[k] = None]
<1>1. /\ d \in Records /\ CountsOK(d, h, w) /\ TableOK(d, None)
      /\ x \in Slots \union {None} /\ None \notin Slots
  <2>1. d \in Records
    BY DEF CacheOK, CountsOK
  <2> QED BY <2>1, RecordFacts, ShardConstants DEF CacheOK
<1>2. /\ D.refs = d.refs /\ D.in_cache = d.in_cache /\ D.key = d.key
      /\ D.charge = d.charge /\ D.lru = d.lru /\ D.in_use = d.in_use
      /\ D.table = [d.table EXCEPT ![k] = None] /\ D.usage = d.usage
      /\ D \in Records
  BY <1>1 DEF Records
<1>3. Cache!TableRemove(d, k) = Cache!FinishErase(D, x)
  BY DEF Cache!TableRemove
<1> HIDE DEF D
<1>4. CountsOK(D, h, w)
  <2>1. InCache(D) = InCache(d)
    BY <1>2 DEF InCache
  <2> QED BY <1>1, <1>2, <2>1 DEF CountsOK
<1>5. TableOK(D, x)
  <2> SUFFICES ASSUME NEW j \in CacheKeys, NEW e \in Slots
               PROVE  D.table[j] = e <=> e # x /\ D.in_cache[e] /\ D.key[e] = j
    BY DEF TableOK
  <2>1. \A i \in CacheKeys, f \in Slots :
          d.table[i] = f <=> d.in_cache[f] /\ d.key[f] = i
    BY <1>1 DEF TableOK
  <2>2. D.in_cache = d.in_cache /\ D.key = d.key
        /\ D.table[j] = IF j = k THEN None ELSE d.table[j]
    BY <1>1, <1>2, RecordFacts
  <2>3. CASE j = k
    <3>1. D.table[j] # e
      BY <1>1, <2>2, <2>3
    <3>2. d.in_cache[e] /\ d.key[e] = j => e = x
      BY <2>1, <2>3
    <3> QED BY <2>2, <3>1, <3>2
  <2>4. CASE j # k
    <3>1. d.table[j] = e => e # x
      <4>1. SUFFICES ASSUME d.table[j] = e, e = x PROVE FALSE
        OBVIOUS
      <4>2. d.key[e] = j /\ d.key[e] = k
        BY <2>1, <4>1
      <4> QED BY <2>4, <4>2
    <3> HIDE DEF x
    <3> QED BY <2>1, <2>2, <2>4, <3>1
  <2> QED BY <2>3, <2>4
<1>6. CASE x = None
  <2>1. Cache!FinishErase(D, x) = D
    BY <1>6 DEF Cache!FinishErase
  <2> HIDE DEF x
  <2> QED BY <1>3, <1>4, <1>5, <1>6, <2>1 DEF CacheOK
<1>7. CASE x # None
  <2>1. x \in Slots /\ d.in_cache[x]
    BY <1>1, <1>7 DEF TableOK
  <2>2. D.in_cache[x]
    BY <1>2, <2>1
  <2> HIDE DEF x
  <2>3. CacheOK(Cache!FinishErase(D, x), h, w)
    BY <1>4, <1>5, <2>1, <2>2, FinishEraseKeeps
  <2> QED BY <1>3, <2>3
<1> QED BY <1>6, <1>7

-----------------------------------------------------------------------------
Handles == [Threads -> Slots \union {None}]

(* A thread gets a handle of x: g is h with it.                             *)
LEMMA HolderJoins ==
  ASSUME NEW h \in Handles, NEW t \in Threads, h[t] = None, NEW x \in Slots,
         NEW g \in Handles, g[t] = x,
         \A s \in Threads \ {t} : g[s] = h[s]
  PROVE  /\ HeldBy(g, x) # {}
         /\ HoldersOf(g, x) = HoldersOf(h, x) + 1
         /\ \A e \in Slots \ {x} : HeldBy(g, e) = HeldBy(h, e)
                                   /\ HoldersOf(g, e) = HoldersOf(h, e)
<1>1. x # None /\ None \notin Slots
  BY ShardConstants
<1>2. HeldBy(g, x) = HeldBy(h, x) \union {t} /\ t \notin HeldBy(h, x)
  BY <1>1 DEF HeldBy, Handles
<1>3. \A e \in Slots \ {x} : HeldBy(g, e) = HeldBy(h, e)
  BY <1>1 DEF HeldBy, Handles
<1>4. IsFiniteSet(HeldBy(h, x))
  BY HolderFacts
<1>5. Cardinality(HeldBy(h, x) \union {t}) = Cardinality(HeldBy(h, x)) + 1
  BY <1>2, <1>4, FS_AddElement
<1> QED BY <1>2, <1>3, <1>5 DEF HoldersOf

(* Ref, called by Lookup: an entry that was not in use moves to in_use_.    *)
LEMMA RefKeeps ==
  ASSUME NEW d, NEW h \in Handles, NEW w \in [Threads -> CacheKeys \union {None}],
         CacheOK(d, h, w), NEW x \in Slots, d.in_cache[x],
         NEW t \in Threads, h[t] = None
  PROVE  CacheOK(Cache!Ref(d, x), [h EXCEPT ![t] = x], [w EXCEPT ![t] = d.key[x]])
<1> DEFINE D == Cache!Ref(d, x)
           g == [h EXCEPT ![t] = x]
           v == [w EXCEPT ![t] = d.key[x]]
           move == HeldBy(h, x) = {}
           lru == IF move THEN Cache!LRU_Remove(d.lru, x) ELSE d.lru
           in_use == IF move THEN d.in_use \union {x} ELSE d.in_use
           refs == [d.refs EXCEPT ![x] = @ + 1]
<1>1. d \in Records /\ CountsOK(d, h, w) /\ TableOK(d, None)
  BY DEF CacheOK, CountsOK
<1>2. d.refs[x] = HoldersOf(h, x) + 1 /\ HoldersOf(h, x) \in Nat
      /\ (HoldersOf(h, x) = 0 <=> move)
  BY <1>1, HolderFacts DEF CountsOK
<1>3. /\ HeldBy(g, x) # {} /\ HoldersOf(g, x) = HoldersOf(h, x) + 1
      /\ \A e \in Slots \ {x} : HeldBy(g, e) = HeldBy(h, e)
                                /\ HoldersOf(g, e) = HoldersOf(h, e)
  <2>1. g \in Handles /\ g[t] = x /\ \A s \in Threads \ {t} : g[s] = h[s]
    BY DEF Handles
  <2> HIDE DEF g
  <2> QED BY <2>1, HolderJoins
<1>4. /\ \A e \in Slots : e \in InCache(d) <=> d.in_cache[e]
      /\ InCache(d) \subseteq Slots /\ x \in InCache(d)
  BY DEF InCache
<1>5. ListOf(lru, {e \in InCache(d) : HeldBy(g, e) = {}}) /\ lru \in Seq(Slots)
  <2> DEFINE S == {e \in InCache(d) : HeldBy(h, e) = {}}
             T == {e \in InCache(d) : HeldBy(g, e) = {}}
  <2>1. ListOf(d.lru, S)
    BY <1>1 DEF CountsOK
  <2>2. T = S \ {x}
    <3> HIDE DEF g
    <3> QED BY <1>3, <1>4
  <2>3. move <=> x \in S
    BY <1>4
  <2> HIDE DEF S, T, move
  <2>4. CASE move
    <3>1. ListOf(Cache!LRU_Remove(d.lru, x), S \ {x})
      BY <2>1, UnlinkedList
    <3> QED BY <2>2, <2>4, <3>1 DEF T, ListOf
  <2>5. CASE ~move
    <3>1. T = S
      BY <2>2, <2>3, <2>5
    <3> QED BY <2>1, <2>5, <3>1 DEF T, ListOf
  <2> QED BY <2>4, <2>5
<1>6. /\ D.refs = refs /\ D.in_cache = d.in_cache /\ D.key = d.key
      /\ D.charge = d.charge /\ D.lru = lru /\ D.in_use = in_use
      /\ D.table = d.table /\ D.usage = d.usage /\ D \in Records
  <2>1. (d.refs[x] = 1 /\ d.in_cache[x]) <=> move
    BY <1>2
  <2>2. D = [d EXCEPT !.refs[x] = @ + 1, !.lru = lru, !.in_use = in_use]
    BY <2>1 DEF Cache!Ref
  <2>3. in_use \in SUBSET Slots
    BY <1>1, RecordFacts
  <2> HIDE DEF lru, in_use, D
  <2>4. D \in Records
    <3>1. lru \in Seq(Slots) /\ d \in Records /\ d.refs[x] + 1 \in Nat
      BY <1>1, <1>5, RecordFacts
    <3> QED BY <2>2, <2>3, <3>1 DEF Records
  <2> QED BY <1>1, <2>2, <2>4 DEF Records
<1> HIDE DEF D, lru
<1>7. InCache(D) = InCache(d)
  BY <1>6 DEF InCache
<1>8. ASSUME NEW e \in Slots
      PROVE  D.refs[e] = HoldersOf(g, e) + (IF D.in_cache[e] THEN 1 ELSE 0)
  <2>1. d.refs[e] = HoldersOf(h, e) + (IF d.in_cache[e] THEN 1 ELSE 0)
    BY <1>1 DEF CountsOK
  <2> HIDE DEF g, move
  <2>2. CASE e = x
    BY <1>1, <1>2, <1>3, <1>6, <2>2, RecordFacts
  <2>3. CASE e # x
    BY <1>1, <1>3, <1>6, <2>1, <2>3, RecordFacts
  <2> QED BY <2>2, <2>3
<1>9. ASSUME NEW s \in Threads, g[s] # None
      PROVE  g[s] \in Slots /\ D.key[g[s]] = v[s]
  <2>1. CASE s = t
    BY <1>6, <2>1 DEF Handles
  <2>2. CASE s # t
    <3>1. g[s] = h[s] /\ v[s] = w[s]
      BY <2>2 DEF Handles
    <3> QED BY <1>1, <1>6, <1>9, <3>1 DEF CountsOK
  <2> QED BY <2>1, <2>2
<1>10. D.in_use = {e \in InCache(D) : HeldBy(g, e) # {}}
  <2>1. d.in_use = {e \in InCache(d) : HeldBy(h, e) # {}}
    BY <1>1 DEF CountsOK
  <2>2. in_use = {e \in InCache(d) : HeldBy(g, e) # {}}
    <3> HIDE DEF g
    <3> QED BY <1>3, <1>4, <2>1
  <2> QED BY <1>6, <1>7, <2>2
<1>11. CountsOK(D, g, v)
  <2> HIDE DEF g, v
  <2>1. /\ IsFiniteSet(Units(InCache(D), D.charge))
        /\ D.usage = Cardinality(Units(InCache(D), D.charge))
        /\ \A e \in InCache(D) : D.key[e] \in CacheKeys
    BY <1>1, <1>6, <1>7 DEF CountsOK
  <2>2. ListOf(D.lru, {e \in InCache(D) : HeldBy(g, e) = {}})
    BY <1>5, <1>6, <1>7
  <2> QED BY <1>6, <1>8, <1>9, <1>10, <2>1, <2>2 DEF CountsOK
<1>12. TableOK(D, None)
  BY <1>1, <1>6 DEF TableOK
<1> QED BY <1>11, <1>12 DEF CacheOK, D

(* Unref, called by Release: the entry is freed, or moves to lru_, if       *)
(* nobody else refers to it.                                                *)
LEMMA UnrefKeeps ==
  ASSUME NEW d, NEW h \in Handles, NEW w \in [Threads -> CacheKeys \union {None}],
         CacheOK(d, h, w), NEW t \in Threads, NEW x \in Slots, h[t] = x
  PROVE  CacheOK(Cache!Unref(d, x), [h EXCEPT ![t] = None], [w EXCEPT ![t] = None])
<1> DEFINE D == Cache!Unref(d, x)
           g == [h EXCEPT ![t] = None]
           v == [w EXCEPT ![t] = None]
           n == d.refs[x] - 1
           move == d.in_cache[x] /\ HeldBy(g, x) = {}
           keyNow == [d.key EXCEPT ![x] = IF n = 0 THEN None ELSE @]
           charge == [d.charge EXCEPT ![x] = IF n = 0 THEN 0 ELSE @]
           lru == IF move THEN Append(d.lru, x) ELSE d.lru
           in_use == IF move THEN d.in_use \ {x} ELSE d.in_use
           refs == [d.refs EXCEPT ![x] = n]
<1>1. d \in Records /\ CountsOK(d, h, w) /\ TableOK(d, None)
      /\ None \notin Slots
  BY ShardConstants DEF CacheOK, CountsOK
<1>2. g \in Handles /\ g[t] = None /\ \A s \in Threads \ {t} : h[s] = g[s]
  BY DEF Handles
<1>3. /\ HeldBy(h, x) # {} /\ HoldersOf(h, x) = HoldersOf(g, x) + 1
      /\ \A e \in Slots \ {x} : HeldBy(h, e) = HeldBy(g, e)
                                /\ HoldersOf(h, e) = HoldersOf(g, e)
  <2> HIDE DEF g
  <2> QED BY <1>2, HolderJoins
<1>4. /\ n = HoldersOf(g, x) + (IF d.in_cache[x] THEN 1 ELSE 0)
      /\ n \in Nat /\ HoldersOf(g, x) \in Nat
      /\ (HoldersOf(g, x) = 0 <=> HeldBy(g, x) = {})
      /\ d.in_cache[x] \in BOOLEAN
  <2>1. d.refs[x] = HoldersOf(h, x) + (IF d.in_cache[x] THEN 1 ELSE 0)
    BY <1>1 DEF CountsOK
  <2>2. HoldersOf(g, x) \in Nat /\ (HoldersOf(g, x) = 0 <=> HeldBy(g, x) = {})
    BY HolderFacts
  <2>3. d.in_cache[x] \in BOOLEAN
    BY <1>1, RecordFacts
  <2> HIDE DEF g
  <2> QED BY <1>3, <2>1, <2>2, <2>3
<1>5. /\ \A e \in Slots : e \in InCache(d) <=> d.in_cache[e]
      /\ InCache(d) \subseteq Slots
  BY <1>1, RecordFacts DEF InCache
<1>6. ListOf(lru, {e \in InCache(d) : HeldBy(g, e) = {}}) /\ lru \in Seq(Slots)
  <2> DEFINE S == {e \in InCache(d) : HeldBy(h, e) = {}}
             T == {e \in InCache(d) : HeldBy(g, e) = {}}
  <2>1. ListOf(d.lru, S)
    BY <1>1 DEF CountsOK
  <2>2. CASE move
    <3>1. T = S \union {x} /\ x \notin S
      <4> HIDE DEF g
      <4> QED BY <1>3, <1>5, <2>2
    <3> HIDE DEF S, T
    <3>2. ListOf(lru, T)
      BY <2>1, <2>2, <3>1, AppendedList
    <3>3. lru \in Seq(Slots)
      BY <3>2 DEF ListOf
    <3> QED BY <3>2, <3>3 DEF T
  <2>3. CASE ~move
    <3>1. T = S
      <4> HIDE DEF g
      <4> QED BY <1>3, <1>5, <2>3
    <3> HIDE DEF S, T
    <3>2. ListOf(lru, T)
      BY <2>1, <2>3, <3>1
    <3>3. lru \in Seq(Slots)
      BY <3>2 DEF ListOf
    <3> QED BY <3>2, <3>3 DEF T
  <2> QED BY <2>2, <2>3
<1>7. /\ D.refs = refs /\ D.in_cache = d.in_cache /\ D.key = keyNow
      /\ D.charge = charge /\ D.lru = lru /\ D.in_use = in_use
      /\ D.table = d.table /\ D.usage = d.usage /\ D \in Records
  <2>1. (d.in_cache[x] /\ n = 1) <=> move
    <3> HIDE DEF n, g
    <3> QED BY <1>4
  <2>2. D = [d EXCEPT !.refs[x] = n,
                      !.key[x] = IF n = 0 THEN None ELSE @,
                      !.charge[x] = IF n = 0 THEN 0 ELSE @,
                      !.in_use = in_use, !.lru = lru]
    BY <2>1 DEF Cache!Unref
  <2>3. in_use \in SUBSET Slots
    BY <1>1, RecordFacts
  <2> HIDE DEF lru, in_use, D, n
  <2>4. D \in Records
    <3>1. lru \in Seq(Slots) /\ d \in Records /\ n \in Nat
      BY <1>1, <1>4, <1>6
    <3> QED BY <2>2, <2>3, <3>1 DEF Records
  <2> QED BY <1>1, <2>2, <2>4 DEF Records
<1> HIDE DEF D, lru
<1>8. InCache(D) = InCache(d)
  BY <1>7 DEF InCache
<1>9. ASSUME NEW e \in Slots
      PROVE  D.refs[e] = HoldersOf(g, e) + (IF D.in_cache[e] THEN 1 ELSE 0)
  <2>1. d.refs[e] = HoldersOf(h, e) + (IF d.in_cache[e] THEN 1 ELSE 0)
    BY <1>1 DEF CountsOK
  <2> HIDE DEF g, move, n
  <2>2. CASE e = x
    BY <1>1, <1>4, <1>7, <2>2, RecordFacts
  <2>3. CASE e # x
    BY <1>1, <1>3, <1>7, <2>1, <2>3, RecordFacts
  <2> QED BY <2>2, <2>3
<1>10. ASSUME NEW s \in Threads, g[s] # None
       PROVE  g[s] \in Slots /\ D.key[g[s]] = v[s]
  <2>1. s # t /\ g[s] = h[s] /\ v[s] = w[s]
    BY <1>10 DEF Handles
  <2>2. h[s] \in Slots /\ d.key[h[s]] = w[s]
    BY <1>1, <1>10, <2>1 DEF CountsOK
  <2>3. CASE h[s] = x
    <3>1. HeldBy(g, x) # {}
      BY <2>1, <2>3 DEF HeldBy
    <3>2. n # 0
      <4> HIDE DEF n, g
      <4> QED BY <1>4, <3>1
    <3> HIDE DEF n, g, v
    <3> QED BY <1>1, <1>7, <2>1, <2>2, <3>2, RecordFacts
  <2>4. CASE h[s] # x
    <3> HIDE DEF n, g, v
    <3> QED BY <1>1, <1>7, <2>1, <2>2, <2>4, RecordFacts
  <2> QED BY <2>3, <2>4
<1>11. D.in_use = {e \in InCache(D) : HeldBy(g, e) # {}}
  <2>1. d.in_use = {e \in InCache(d) : HeldBy(h, e) # {}}
    BY <1>1 DEF CountsOK
  <2>2. in_use = {e \in InCache(d) : HeldBy(g, e) # {}}
    <3> HIDE DEF g
    <3> QED BY <1>3, <1>5, <2>1
  <2> QED BY <1>7, <1>8, <2>2
<1>12. ASSUME NEW e \in InCache(d)
       PROVE  D.key[e] = d.key[e] /\ D.charge[e] = d.charge[e]
  <2>1. e = x => n # 0
    <3> HIDE DEF n, g
    <3> QED BY <1>4, <1>5
  <2> HIDE DEF n
  <2> QED BY <1>1, <1>5, <1>7, <2>1, RecordFacts
<1>13. CountsOK(D, g, v)
  <2> HIDE DEF g, v
  <2>1. Units(InCache(D), D.charge) = Units(InCache(d), d.charge)
    BY <1>8, <1>12, UnitsSame
  <2>2. /\ IsFiniteSet(Units(InCache(D), D.charge))
        /\ D.usage = Cardinality(Units(InCache(D), D.charge))
        /\ \A e \in InCache(D) : D.key[e] \in CacheKeys
    BY <1>1, <1>7, <1>8, <1>12, <2>1 DEF CountsOK
  <2>3. ListOf(D.lru, {e \in InCache(D) : HeldBy(g, e) = {}})
    BY <1>6, <1>7, <1>8
  <2> QED BY <1>7, <1>9, <1>10, <1>11, <2>2, <2>3 DEF CountsOK
<1>14. TableOK(D, None)
  <2> SUFFICES ASSUME NEW k \in CacheKeys, NEW e \in Slots
               PROVE  D.table[k] = e <=> e # None /\ D.in_cache[e] /\ D.key[e] = k
    BY DEF TableOK
  <2>1. d.table[k] = e <=> e # None /\ d.in_cache[e] /\ d.key[e] = k
    BY <1>1 DEF TableOK
  <2> QED BY <1>5, <1>7, <1>12, <2>1
<1> QED BY <1>13, <1>14 DEF CacheOK, D

-----------------------------------------------------------------------------
(* The entry that Insert makes, and its going into the cache.               *)
Created(d, x, k, n) ==
  [d EXCEPT !.key[x] = k, !.charge[x] = n, !.refs[x] = 1]
Entered(d, x, k) ==
  [d EXCEPT !.refs[x] = 2, !.in_cache[x] = TRUE, !.in_use = @ \union {x},
            !.usage = @ + d.charge[x], !.table[k] = x]

(* Insert: the new entry, with the reference of the caller.                 *)
LEMMA NewEntry ==
  ASSUME NEW d, NEW h \in Handles, NEW w \in [Threads -> CacheKeys \union {None}],
         CacheOK(d, h, w), NEW x \in Slots, d.refs[x] = 0,
         NEW t \in Threads, h[t] = None, NEW g \in Handles, g[t] = x,
         \A s \in Threads \ {t} : g[s] = h[s],
         NEW k \in CacheKeys, w[t] = k, NEW n \in Nat,
         NEW D, D = Created(d, x, k, n)
  PROVE  /\ CacheOK(D, g, w)
         /\ ~D.in_cache[x] /\ D.refs[x] = 1 /\ D.key[x] = k /\ D.charge[x] = n
         /\ D.table = d.table /\ D.usage = d.usage /\ HeldBy(g, x) # {}
<1>1. d \in Records /\ CountsOK(d, h, w) /\ TableOK(d, None)
      /\ None \notin Slots
  BY ShardConstants DEF CacheOK, CountsOK
<1>3. /\ HeldBy(g, x) # {} /\ HoldersOf(g, x) = HoldersOf(h, x) + 1
      /\ \A e \in Slots \ {x} : HeldBy(g, e) = HeldBy(h, e)
                                /\ HoldersOf(g, e) = HoldersOf(h, e)
  BY HolderJoins
<1>4. ~d.in_cache[x] /\ HoldersOf(h, x) = 0 /\ HeldBy(h, x) = {}
  <2>1. d.refs[x] = HoldersOf(h, x) + (IF d.in_cache[x] THEN 1 ELSE 0)
    BY <1>1 DEF CountsOK
  <2>2. HoldersOf(h, x) \in Nat /\ (HoldersOf(h, x) = 0 <=> HeldBy(h, x) = {})
    BY HolderFacts
  <2> QED BY <2>1, <2>2
<1>5. /\ D.refs = [d.refs EXCEPT ![x] = 1] /\ D.in_cache = d.in_cache
      /\ D.key = [d.key EXCEPT ![x] = k] /\ D.lru = d.lru
      /\ D.charge = [d.charge EXCEPT ![x] = n] /\ D.in_use = d.in_use
      /\ D.table = d.table /\ D.usage = d.usage
  BY <1>1 DEF Records, Created
<1>6. D \in Records
  BY <1>1 DEF Records, Created
<1>7. /\ \A e \in Slots : e \in InCache(d) <=> d.in_cache[e]
      /\ InCache(d) \subseteq Slots /\ x \notin InCache(d)
      /\ InCache(D) = InCache(d)
  BY <1>1, <1>4, <1>5, RecordFacts DEF InCache
<1>8. ASSUME NEW e \in Slots
      PROVE  D.refs[e] = HoldersOf(g, e) + (IF D.in_cache[e] THEN 1 ELSE 0)
  <2>1. d.refs[e] = HoldersOf(h, e) + (IF d.in_cache[e] THEN 1 ELSE 0)
    BY <1>1 DEF CountsOK
  <2>2. CASE e = x
    BY <1>1, <1>3, <1>4, <1>5, <2>2, RecordFacts
  <2>3. CASE e # x
    BY <1>1, <1>3, <1>5, <2>1, <2>3, RecordFacts
  <2> QED BY <2>2, <2>3
<1>9. ASSUME NEW s \in Threads, g[s] # None
      PROVE  g[s] \in Slots /\ D.key[g[s]] = w[s]
  <2>1. CASE s = t
    BY <1>1, <1>5, <2>1, RecordFacts
  <2>2. CASE s # t
    <3>1. g[s] = h[s] /\ h[s] \in Slots /\ d.key[h[s]] = w[s]
      BY <1>1, <1>9, <2>2 DEF CountsOK
    <3>2. h[s] # x
      BY <1>4 DEF HeldBy
    <3> QED BY <1>1, <1>5, <3>1, <3>2, RecordFacts
  <2> QED BY <2>1, <2>2
<1>10. \A e \in InCache(d) : HeldBy(g, e) = HeldBy(h, e)
                             /\ D.key[e] = d.key[e] /\ D.charge[e] = d.charge[e]
  BY <1>1, <1>3, <1>5, <1>7, RecordFacts
<1>11. CountsOK(D, g, w)
  <2>1. Units(InCache(D), D.charge) = Units(InCache(d), d.charge)
    <3>1. \A e \in InCache(d) : D.charge[e] = d.charge[e]
      BY <1>10
    <3>2. Units(InCache(d), D.charge) = Units(InCache(d), d.charge)
      BY <3>1, UnitsSame
    <3> QED BY <1>7, <3>2
  <2>2. /\ IsFiniteSet(Units(InCache(D), D.charge))
        /\ D.usage = Cardinality(Units(InCache(D), D.charge))
        /\ \A e \in InCache(D) : D.key[e] \in CacheKeys
    BY <1>1, <1>5, <1>7, <1>10, <2>1 DEF CountsOK
  <2>3. {e \in InCache(D) : HeldBy(g, e) = {}} = {e \in InCache(d) : HeldBy(h, e) = {}}
        /\ {e \in InCache(D) : HeldBy(g, e) # {}} = {e \in InCache(d) : HeldBy(h, e) # {}}
    BY <1>7, <1>10
  <2>4. ListOf(D.lru, {e \in InCache(D) : HeldBy(g, e) = {}})
        /\ D.in_use = {e \in InCache(D) : HeldBy(g, e) # {}}
    BY <1>1, <1>5, <2>3 DEF CountsOK
  <2> QED BY <1>6, <1>8, <1>9, <2>2, <2>4 DEF CountsOK
<1>12. TableOK(D, None)
  <2> SUFFICES ASSUME NEW j \in CacheKeys, NEW e \in Slots
               PROVE  D.table[j] = e <=> e # None /\ D.in_cache[e] /\ D.key[e] = j
    BY DEF TableOK
  <2>1. d.table[j] = e <=> e # None /\ d.in_cache[e] /\ d.key[e] = j
    BY <1>1 DEF TableOK
  <2> QED BY <1>4, <1>5, <1>7, <1>10, <2>1
<1>13. ~D.in_cache[x] /\ D.refs[x] = 1 /\ D.key[x] = k /\ D.charge[x] = n
  BY <1>1, <1>4, <1>5, RecordFacts
<1> QED BY <1>3, <1>5, <1>11, <1>12, <1>13 DEF CacheOK

(* Insert: the new entry in the cache, and in the table in place of an      *)
(* older one of its key.                                                    *)
LEMMA CachedEntry ==
  ASSUME NEW d, NEW h \in Handles, NEW w \in [Threads -> CacheKeys \union {None}],
         CacheOK(d, h, w), NEW x \in Slots, d.refs[x] = 1, ~d.in_cache[x],
         HeldBy(h, x) # {}, NEW k \in CacheKeys, d.key[x] = k,
         NEW D, D = Entered(d, x, k)
  PROVE  /\ CountsOK(D, h, w) /\ TableOK(D, d.table[k])
         /\ d.table[k] # None => d.table[k] \in Slots /\ D.in_cache[d.table[k]]
<1> DEFINE y == d.table[k]
<1>1. d \in Records /\ CountsOK(d, h, w) /\ TableOK(d, None)
      /\ None \notin Slots /\ y \in Slots \union {None}
  <2>1. d \in Records
    BY DEF CacheOK, CountsOK
  <2> QED BY <2>1, RecordFacts, ShardConstants DEF CacheOK
<1>2. /\ D.refs = [d.refs EXCEPT ![x] = 2] /\ D.key = d.key
      /\ D.in_cache = [d.in_cache EXCEPT ![x] = TRUE]
      /\ D.lru = d.lru /\ D.charge = d.charge /\ D.in_use = d.in_use \union {x}
      /\ D.table = [d.table EXCEPT ![k] = x] /\ D.usage = d.usage + d.charge[x]
  BY <1>1 DEF Records, Entered
<1>3. D \in Records
  <2>1. d.usage + d.charge[x] \in Nat
    BY <1>1, RecordFacts
  <2> QED BY <1>1, <2>1 DEF Records, Entered
<1>4. /\ \A e \in Slots : e \in InCache(d) <=> d.in_cache[e]
      /\ InCache(d) \subseteq Slots /\ x \notin InCache(d)
      /\ InCache(D) = InCache(d) \union {x}
  BY <1>1, <1>2, RecordFacts DEF InCache
<1>5. ASSUME NEW e \in Slots
      PROVE  D.refs[e] = HoldersOf(h, e) + (IF D.in_cache[e] THEN 1 ELSE 0)
  <2>1. d.refs[e] = HoldersOf(h, e) + (IF d.in_cache[e] THEN 1 ELSE 0)
    BY <1>1 DEF CountsOK
  <2>2. HoldersOf(h, e) \in Nat
    BY HolderFacts
  <2>3. CASE e = x
    BY <1>1, <1>2, <2>1, <2>2, <2>3, RecordFacts
  <2>4. CASE e # x
    BY <1>1, <1>2, <2>1, <2>4, RecordFacts
  <2> QED BY <2>3, <2>4
<1>6. /\ IsFiniteSet(Units(InCache(D), D.charge))
      /\ D.usage = Cardinality(Units(InCache(D), D.charge))
  <2>1. /\ InCache(d) \in SUBSET Slots /\ x \in Slots \ InCache(d)
        /\ d.charge \in [Slots -> Nat]
        /\ IsFiniteSet(Units(InCache(d), d.charge))
        /\ d.usage = Cardinality(Units(InCache(d), d.charge))
    BY <1>1, <1>4, RecordFacts DEF CountsOK
  <2>2. /\ IsFiniteSet(Units(InCache(d) \union {x}, d.charge))
        /\ Cardinality(Units(InCache(d) \union {x}, d.charge))
             = Cardinality(Units(InCache(d), d.charge)) + d.charge[x]
    BY <2>1, UnitsJoin
  <2> QED BY <1>2, <1>4, <2>1, <2>2
<1>7. CountsOK(D, h, w)
  <2>1. {e \in InCache(D) : HeldBy(h, e) = {}} = {e \in InCache(d) : HeldBy(h, e) = {}}
        /\ {e \in InCache(D) : HeldBy(h, e) # {}}
             = {e \in InCache(d) : HeldBy(h, e) # {}} \union {x}
    BY <1>4
  <2>2. ListOf(D.lru, {e \in InCache(D) : HeldBy(h, e) = {}})
        /\ D.in_use = {e \in InCache(D) : HeldBy(h, e) # {}}
    BY <1>1, <1>2, <2>1 DEF CountsOK
  <2>3. \A e \in InCache(D) : D.key[e] \in CacheKeys
    <3>1. \A e \in InCache(d) : d.key[e] \in CacheKeys
      BY <1>1 DEF CountsOK
    <3> QED BY <1>2, <1>4, <3>1
  <2>4. \A t \in Threads : h[t] # None => h[t] \in Slots /\ D.key[h[t]] = w[t]
    BY <1>1, <1>2 DEF CountsOK
  <2> QED BY <1>3, <1>5, <1>6, <2>2, <2>3, <2>4 DEF CountsOK
<1>8. \A j \in CacheKeys, e \in Slots :
        d.table[j] = e <=> d.in_cache[e] /\ d.key[e] = j
  BY <1>1 DEF TableOK
<1>9. TableOK(D, y)
  <2> SUFFICES ASSUME NEW j \in CacheKeys, NEW e \in Slots
               PROVE  D.table[j] = e <=> e # y /\ D.in_cache[e] /\ D.key[e] = j
    BY DEF TableOK
  <2>1. /\ D.table[j] = IF j = k THEN x ELSE d.table[j]
        /\ D.in_cache[e] = IF e = x THEN TRUE ELSE d.in_cache[e]
        /\ D.key[e] = d.key[e]
    <3>1. d.table \in [CacheKeys -> Slots \union {None}]
          /\ d.in_cache \in [Slots -> BOOLEAN]
      BY <1>1, RecordFacts
    <3>2. D.table[j] = IF j = k THEN x ELSE d.table[j]
      BY <1>2, <3>1
    <3>3. D.in_cache[e] = IF e = x THEN TRUE ELSE d.in_cache[e]
      <4>1. D.in_cache = [d.in_cache EXCEPT ![x] = TRUE]
        BY <1>2
      <4>2. e = x => D.in_cache[e] = TRUE
        BY <3>1, <4>1
      <4>3. e # x => D.in_cache[e] = d.in_cache[e]
        BY <3>1, <4>1
      <4> QED BY <4>2, <4>3
    <3>4. D.key[e] = d.key[e]
      BY <1>2
    <3> QED BY <3>2, <3>3, <3>4
  <2>2. x # y
    BY <1>8
  <2>3. CASE j = k
    <3>1. e # x => (d.in_cache[e] /\ d.key[e] = j => e = y)
      BY <1>8, <2>3
    <3> HIDE DEF y
    <3> QED BY <2>1, <2>2, <2>3, <3>1
  <2>4. CASE j # k
    <3>1. d.table[j] = e => e # y /\ e # x
      <4>1. SUFFICES ASSUME d.table[j] = e, e = y \/ e = x PROVE FALSE
        OBVIOUS
      <4>2. d.in_cache[e] /\ d.key[e] = j
        BY <1>8, <4>1
      <4>3. e = y => d.key[e] = k
        BY <1>8
      <4> QED BY <2>4, <4>1, <4>2, <4>3
    <3>2. d.key[e] = j => e # x
      BY <2>4
    <3> HIDE DEF y
    <3> QED BY <1>8, <2>1, <2>4, <3>1, <3>2
  <2> QED BY <2>3, <2>4
<1>10. y # None => y \in Slots /\ D.in_cache[y]
  <2>1. y # None => y \in Slots /\ d.in_cache[y]
    BY <1>1, <1>8
  <2> QED BY <1>1, <1>2, <2>1, RecordFacts
<1> QED BY <1>7, <1>9, <1>10

-----------------------------------------------------------------------------
(* One round of eviction.                                                   *)
LEMMA EvictOldestKeeps ==
  ASSUME NEW d, NEW h, NEW w, CacheOK(d, h, w)
  PROVE  CacheOK(Cache!EvictOldest(d), h, w)
<1>1. CASE d.lru = <<>>
  BY <1>1 DEF Cache!EvictOldest
<1>2. CASE d.lru # <<>>
  <2>1. /\ d.lru \in Seq(Slots)
        /\ ListOf(d.lru, {e \in InCache(d) : HeldBy(h, e) = {}})
        /\ \A e \in InCache(d) : d.key[e] \in CacheKeys
    BY RecordFacts DEF CacheOK, CountsOK
  <2>2. Head(d.lru) = d.lru[1] /\ 1 \in 1..Len(d.lru) /\ Head(d.lru) \in Slots
    BY <1>2, <2>1
  <2>3. Head(d.lru) \in InCache(d)
    BY <2>1, <2>2 DEF ListOf
  <2>4. d.key[Head(d.lru)] \in CacheKeys
    BY <2>1, <2>3
  <2>5. CacheOK(Cache!TableRemove(d, d.key[Head(d.lru)]), h, w)
    BY <2>4, TableRemoveKeeps
  <2> QED BY <1>2, <2>5 DEF Cache!EvictOldest
<1> QED BY <1>1, <1>2

(* A set of numbers with 0 and the successors of its members has all.       *)
LEMMA RoundInduction ==
  ASSUME NEW T, 0 \in T, \A n \in Nat : n \in T => n + 1 \in T
  PROVE  Nat \subseteq T
<1> SUFFICES ASSUME Nat \ T # {} PROVE FALSE
  OBVIOUS
<1>1. PICK n \in Nat \ T : \A m \in Nat \ T : n <= m
  BY LeastNumber
<1>2. n # 0 /\ n - 1 \in Nat
  OBVIOUS
<1>3. n - 1 \in T
  BY <1>1, <1>2
<1> QED BY <1>1, <1>2, <1>3

(* What N rounds of F make of d.                                            *)
IsLoop(f, N, S, F, d) ==
  /\ f \in [0..N -> S] /\ f[0] = d
  /\ \A n \in 1..N : f[n] = F[f[n - 1]]

(* A loop of N rounds, each of which takes a member of S to one.            *)
LEMMA Rounds ==
  ASSUME NEW N \in Nat, NEW S, NEW F \in [S -> S], NEW d \in S
  PROVE  \E f : IsLoop(f, N, S, F, d)
<1> DEFINE T == {m \in Nat : \E f : IsLoop(f, m, S, F, d)}
<1>1. 0 \in T
  <2> DEFINE f == [n \in 0..0 |-> d]
  <2>1. f \in [0..0 -> S] /\ f[0] = d
    OBVIOUS
  <2>2. \A n \in 1..0 : f[n] = F[f[n - 1]]
    OBVIOUS
  <2> HIDE DEF f
  <2> QED BY <2>1, <2>2 DEF IsLoop
<1>2. ASSUME NEW m \in Nat, m \in T PROVE m + 1 \in T
  <2>1. PICK f : IsLoop(f, m, S, F, d)
    BY <1>2
  <2> DEFINE g == [n \in 0..(m + 1) |-> IF n = m + 1 THEN F[f[m]] ELSE f[n]]
  <2>2. g \in [0..(m + 1) -> S] /\ g[0] = d
    BY <2>1 DEF IsLoop
  <2>3. ASSUME NEW n \in 1..(m + 1) PROVE g[n] = F[g[n - 1]]
    BY <2>1 DEF IsLoop
  <2> HIDE DEF g
  <2> QED BY <2>2, <2>3 DEF IsLoop
<1> HIDE DEF T
<1>3. N \in T
  BY <1>1, <1>2, RoundInduction
<1> QED BY <1>3 DEF T

(* What holds at the start of a loop and is kept by its rounds.             *)
LEMMA LoopKeeps ==
  ASSUME NEW N \in Nat, NEW S, NEW a, a[0] \in S,
         \A n \in 1..N : a[n - 1] \in S => a[n] \in S
  PROVE  a[N] \in S
<1> DEFINE T == {n \in Nat : n <= N => a[n] \in S}
<1>1. 0 \in T
  OBVIOUS
<1>2. ASSUME NEW n \in Nat, n \in T PROVE n + 1 \in T
  <2>1. SUFFICES ASSUME n + 1 <= N PROVE a[n + 1] \in S
    OBVIOUS
  <2>2. n + 1 \in 1..N /\ n + 1 - 1 = n /\ n <= N
    BY <2>1
  <2>3. a[n] \in S
    BY <1>2, <2>2
  <2> QED BY <2>2, <2>3
<1> HIDE DEF T
<1>3. Nat \subseteq T
  BY <1>1, <1>2, RoundInduction
<1> QED BY <1>3 DEF T

(* The loop of Prune.                                                       *)
LEMMA EvictAllKeeps ==
  ASSUME NEW d, NEW h, NEW w, CacheOK(d, h, w)
  PROVE  CacheOK(Cache!EvictAll(d), h, w)
<1> DEFINE S == {s \in Records : CacheOK(s, h, w)}
           N == Len(d.lru)
           Round(s) == Cache!EvictOldest(s)
           after[n \in 0..N] == IF n = 0 THEN d ELSE Round(after[n - 1])
<1>1. d \in S /\ N \in Nat
  <2>1. d \in Records
    BY DEF CacheOK, CountsOK
  <2> QED BY <2>1, RecordFacts
<1>2. \A s \in S : Round(s) \in S
  <2> TAKE s \in S
  <2>1. CacheOK(Cache!EvictOldest(s), h, w)
    BY EvictOldestKeeps
  <2> QED BY <2>1 DEF CacheOK, CountsOK
<1>3. Cache!EvictAll(d) = after[N]
  BY DEF Cache!EvictAll
<1> HIDE DEF S, N, Round
<1> HIDE DEF after
<1>4. PICK F \in [S -> S] : \A s \in S : F[s] = Round(s)
  <2> DEFINE F == [s \in S |-> Round(s)]
  <2>1. F \in [S -> S] /\ \A s \in S : F[s] = Round(s)
    BY <1>2
  <2> HIDE DEF F
  <2> QED BY <2>1
<1>5. PICK g : IsLoop(g, N, S, F, d)
  <2>1. F \in [S -> S]
    BY <1>4
  <2> QED BY <1>1, <2>1, Rounds, Zenon
<1>6. \A n \in 1..N : n \in 0..N /\ n - 1 \in 0..N /\ n # 0
  BY <1>1
<1>7. \A n \in 1..N : g[n] = Round(g[n - 1])
  BY <1>4, <1>5, <1>6 DEF IsLoop
<1>8. \A n \in 0..N : n = 0 \/ n \in 1..N
  BY <1>1
<1>9. g = [n \in 0..N |-> IF n = 0 THEN d ELSE Round(g[n - 1])]
  BY <1>5, <1>7, <1>8 DEF IsLoop
<1>10. after = [n \in 0..N |-> IF n = 0 THEN d ELSE Round(after[n - 1])]
  BY <1>9 DEF after
<1>11. after[0] = d /\ \A n \in 1..N : after[n] = Round(after[n - 1])
  <2>1. 0 \in 0..N
    BY <1>1
  <2> QED BY <1>6, <1>10, <2>1
<1>12. \A n \in 1..N : after[n - 1] \in S => after[n] \in S
  BY <1>2, <1>11
<1>13. after[N] \in S
  BY <1>1, <1>11, <1>12, LoopKeeps
<1> QED BY <1>3, <1>13 DEF S

(* The loop of Insert.                                                      *)
LEMMA EvictToCapacityKeeps ==
  ASSUME NEW d, NEW h, NEW w, CacheOK(d, h, w)
  PROVE  CacheOK(Cache!EvictToCapacity(d), h, w)
<1> DEFINE S == {s \in Records : CacheOK(s, h, w)}
           N == Len(d.lru)
           Round(s) == IF s.usage > capacity THEN Cache!EvictOldest(s) ELSE s
           after[n \in 0..N] == IF n = 0 THEN d ELSE Round(after[n - 1])
<1>1. d \in S /\ N \in Nat
  <2>1. d \in Records
    BY DEF CacheOK, CountsOK
  <2> QED BY <2>1, RecordFacts
<1>2. \A s \in S : Round(s) \in S
  <2> TAKE s \in S
  <2>1. CacheOK(Cache!EvictOldest(s), h, w)
    BY EvictOldestKeeps
  <2> QED BY <2>1 DEF CacheOK, CountsOK
<1>3. Cache!EvictToCapacity(d) = after[N]
  BY DEF Cache!EvictToCapacity
<1> HIDE DEF S, N, Round
<1> HIDE DEF after
<1>4. PICK F \in [S -> S] : \A s \in S : F[s] = Round(s)
  <2> DEFINE F == [s \in S |-> Round(s)]
  <2>1. F \in [S -> S] /\ \A s \in S : F[s] = Round(s)
    BY <1>2
  <2> HIDE DEF F
  <2> QED BY <2>1
<1>5. PICK g : IsLoop(g, N, S, F, d)
  <2>1. F \in [S -> S]
    BY <1>4
  <2> QED BY <1>1, <2>1, Rounds, Zenon
<1>6. \A n \in 1..N : n \in 0..N /\ n - 1 \in 0..N /\ n # 0
  BY <1>1
<1>7. \A n \in 1..N : g[n] = Round(g[n - 1])
  BY <1>4, <1>5, <1>6 DEF IsLoop
<1>8. \A n \in 0..N : n = 0 \/ n \in 1..N
  BY <1>1
<1>9. g = [n \in 0..N |-> IF n = 0 THEN d ELSE Round(g[n - 1])]
  BY <1>5, <1>7, <1>8 DEF IsLoop
<1>10. after = [n \in 0..N |-> IF n = 0 THEN d ELSE Round(after[n - 1])]
  BY <1>9 DEF after
<1>11. after[0] = d /\ \A n \in 1..N : after[n] = Round(after[n - 1])
  <2>1. 0 \in 0..N
    BY <1>1
  <2> QED BY <1>6, <1>10, <2>1
<1>12. \A n \in 1..N : after[n - 1] \in S => after[n] \in S
  BY <1>2, <1>11
<1>13. after[N] \in S
  BY <1>1, <1>11, <1>12, LoopKeeps
<1> QED BY <1>3, <1>13 DEF S

-----------------------------------------------------------------------------
(* Insert keeps the cache sound and gives the thread a handle of the new    *)
(* entry, cached or not.                                                    *)
LEMMA CacheInsertKeeps ==
  ASSUME NEW d, NEW h \in Handles, NEW w \in [Threads -> CacheKeys \union {None}],
         CacheOK(d, h, w), NEW x \in Slots, d.refs[x] = 0,
         NEW t \in Threads, h[t] = None, w[t] \in CacheKeys, NEW n \in Nat
  PROVE  CacheOK(Cache!Insert(d, x, w[t], n), [h EXCEPT ![t] = x], w)
<1> DEFINE k == w[t]
           g == [h EXCEPT ![t] = x]
           new == Created(d, x, w[t], n)
           cached == [new EXCEPT !.refs[x] = 2, !.in_cache[x] = TRUE,
                                 !.in_use = @ \union {x}, !.usage = @ + n,
                                 !.table[w[t]] = x]
           before == IF capacity > 0 THEN Cache!FinishErase(cached, d.table[k]) ELSE new
<1>7. new = Created(d, x, w[t], n)
  OBVIOUS
<1>3. Cache!Insert(d, x, w[t], n) = Cache!EvictToCapacity(before)
  BY DEF Cache!Insert, Created
<1>8. cached = [new EXCEPT !.refs[x] = 2, !.in_cache[x] = TRUE,
                           !.in_use = @ \union {x}, !.usage = @ + n, !.table[w[t]] = x]
  OBVIOUS
<1> HIDE DEF cached, new, k
<1>2. /\ g \in Handles /\ g[t] = x /\ k \in CacheKeys /\ w[t] = k
      /\ \A s \in Threads \ {t} : g[s] = h[s]
  BY DEF Handles, k
<1> HIDE DEF before
<1>1. /\ CacheOK(new, g, w)
      /\ ~new.in_cache[x] /\ new.refs[x] = 1 /\ new.key[x] = k /\ new.charge[x] = n
      /\ new.table = d.table /\ new.usage = d.usage /\ HeldBy(g, x) # {}
  <2> HIDE DEF g
  <2>1. new = Created(d, x, k, n)
    BY <1>7 DEF k
  <2> QED BY <1>2, <2>1, NewEntry
<1> USE DEF before
<1>4. /\ CountsOK(cached, g, w) /\ TableOK(cached, new.table[k])
      /\ new.table[k] # None =>
           new.table[k] \in Slots /\ cached.in_cache[new.table[k]]
  <2> HIDE DEF g
  <2>1. new.key[x] = k /\ k \in CacheKeys
    BY <1>1 DEF k
  <2>2. cached = Entered(new, x, k)
    BY <1>1, <1>8 DEF Entered, k
  <2> QED BY <1>1, <1>2, <2>1, <2>2, CachedEntry
<1> HIDE DEF g
<1>5. CacheOK(before, g, w)
  <2>1. CASE ~(capacity > 0)
    BY <1>1, <2>1
  <2>2. CASE capacity > 0 /\ d.table[k] = None
    <3>1. Cache!FinishErase(cached, d.table[k]) = cached
      BY <2>2 DEF Cache!FinishErase
    <3> QED BY <1>1, <1>4, <2>2, <3>1 DEF CacheOK
  <2>3. CASE capacity > 0 /\ d.table[k] # None
    <3>1. CacheOK(Cache!FinishErase(cached, d.table[k]), g, w)
      BY <1>1, <1>4, <2>3, FinishEraseKeeps
    <3> QED BY <2>3, <3>1
  <2> QED BY <2>1, <2>2, <2>3
<1> HIDE DEF before
<1>6. CacheOK(Cache!EvictToCapacity(before), g, w)
  BY <1>5, EvictToCapacityKeeps
<1> QED BY <1>3, <1>6 DEF g

(* There is memory for another entry while a thread has no handle: cached   *)
(* entries have different keys, others have different holders.              *)
LEMMA FreeSlot ==
  ASSUME NEW d, NEW h \in Handles, NEW w, CacheOK(d, h, w),
         NEW t \in Threads, h[t] = None
  PROVE  \E e \in Slots : d.refs[e] = 0
<1> SUFFICES ASSUME \A e \in Slots : d.refs[e] # 0 PROVE FALSE
  OBVIOUS
<1> DEFINE A == InCache(d)
           B == Slots \ A
           T == Threads \ {t}
           f == [e \in A |-> d.key[e]]
           g == [e \in B |-> CHOOSE s \in T : h[s] = e]
<1>1. CountsOK(d, h, w) /\ TableOK(d, None) /\ None \notin Slots
  BY ShardConstants DEF CacheOK
<1>2. f \in Injection(A, CacheKeys)
  <2>1. f \in [A -> CacheKeys]
    BY <1>1 DEF CountsOK
  <2>2. ASSUME NEW e \in A, NEW e2 \in A, f[e] = f[e2] PROVE e = e2
    <3>1. d.table[d.key[e]] = e /\ d.table[d.key[e2]] = e2
      BY <1>1 DEF CountsOK, TableOK, InCache
    <3> QED BY <2>2, <3>1
  <2> QED BY <2>1, <2>2 DEF Injection, IsInjective
<1>3. \A e \in B : \E s \in T : h[s] = e
  <2> TAKE e \in B
  <2>1. d.refs[e] = HoldersOf(h, e)
    BY <1>1, HolderFacts DEF CountsOK, InCache
  <2>2. HeldBy(h, e) # {}
    BY <2>1, HolderFacts
  <2> QED BY <1>1, <2>2 DEF HeldBy
<1>4. g \in Injection(B, T)
  <2>1. \A e \in B : g[e] \in T /\ h[g[e]] = e
    BY <1>3
  <2> HIDE DEF T, B
  <2>2. g \in [B -> T]
    BY <2>1
  <2> HIDE DEF g
  <2> QED BY <2>1, <2>2 DEF Injection, IsInjective
<1>5. /\ IsFiniteSet(A) /\ Cardinality(A) <= Cardinality(CacheKeys)
      /\ Cardinality(A) \in Nat
  BY <1>2, ShardConstants, FS_Injection, FS_CardinalityType
<1>6. /\ IsFiniteSet(T) /\ Cardinality(T) = Cardinality(Threads) - 1
      /\ Cardinality(Threads) \in Nat
  BY ShardConstants, FS_RemoveElement, FS_CardinalityType
<1>7. /\ IsFiniteSet(B) /\ Cardinality(B) <= Cardinality(T)
      /\ Cardinality(B) \in Nat
  BY <1>4, <1>6, FS_Injection, FS_CardinalityType
<1>8. A \union B = Slots /\ A \intersect B = {}
  BY DEF InCache
<1> HIDE DEF A, B, T
<1>9. Cardinality(Slots) = Cardinality(A) + Cardinality(B)
  <2>1. Cardinality(A \union B)
          = Cardinality(A) + Cardinality(B) - Cardinality(A \intersect B)
    BY <1>5, <1>7, FS_Union
  <2>2. Cardinality(A \intersect B) = 0
    BY <1>8, FS_EmptySet
  <2>3. Cardinality(Slots) = Cardinality(A \union B)
    BY <1>8
  <2> HIDE DEF f, g
  <2> QED BY <1>5, <1>7, <2>1, <2>2, <2>3
<1>10. Cardinality(CacheKeys) \in Nat
  BY ShardConstants, FS_CardinalityType
<1> QED BY <1>5, <1>6, <1>7, <1>9, <1>10, ShardConstants

-----------------------------------------------------------------------------
(* A thread without a handle may want anything.                             *)
LEMMA WantChanges ==
  ASSUME NEW d, NEW h \in Handles, NEW w \in [Threads -> CacheKeys \union {None}],
         CacheOK(d, h, w), NEW t \in Threads, h[t] = None, NEW k
  PROVE  CacheOK(d, h, [w EXCEPT ![t] = k])
<1> DEFINE v == [w EXCEPT ![t] = k]
<1>1. \A s \in Threads : h[s] # None => v[s] = w[s]
  OBVIOUS
<1> HIDE DEF v
<1>2. CountsOK(d, h, v)
  BY <1>1 DEF CacheOK, CountsOK
<1> QED BY <1>2 DEF CacheOK, v

(* An empty cache, and no thread with a handle.                             *)
LEMMA CacheInit ==
  ASSUME Cache!Init PROVE CacheInv
<1>1. /\ cache = Cache!Empty /\ capacity \in Capacities
      /\ cPc = [t \in Threads |-> "idle"] /\ cWant = [t \in Threads |-> None]
      /\ handle = [t \in Threads |-> None]
  BY DEF Cache!Init
<1>2. Capacities \subseteq Nat /\ None \notin CacheKeys /\ None \notin Slots
  BY ShardConstants
<1>3. \A e \in Slots : HeldBy(handle, e) = {} /\ HoldersOf(handle, e) = 0
  <2>1. \A e \in Slots : HeldBy(handle, e) = {}
    BY <1>1, <1>2 DEF HeldBy
  <2> QED BY <2>1, HolderFacts
<1>4. /\ cache.refs = [e \in Slots |-> 0] /\ cache.in_cache = [e \in Slots |-> FALSE]
      /\ cache.key = [e \in Slots |-> None] /\ cache.charge = [e \in Slots |-> 0]
      /\ cache.lru = <<>> /\ cache.in_use = {} /\ cache.usage = 0
      /\ cache.table = [k \in CacheKeys |-> None] /\ cache \in Records
  BY <1>1 DEF Cache!Empty, Records
<1>5. InCache(cache) = {} /\ Units(InCache(cache), cache.charge) = {}
  BY <1>4 DEF InCache, Units
<1>6. CountsOK(cache, handle, cWant)
  <2>1. \A e \in Slots :
          cache.refs[e] = HoldersOf(handle, e) + (IF cache.in_cache[e] THEN 1 ELSE 0)
    BY <1>3, <1>4
  <2>2. ListOf(cache.lru, {e \in InCache(cache) : HeldBy(handle, e) = {}})
    <3>1. {e \in InCache(cache) : HeldBy(handle, e) = {}} = {}
      BY <1>5
    <3>2. cache.lru \in Seq(Slots) /\ Len(cache.lru) = 0 /\ 1..Len(cache.lru) = {}
      BY <1>4
    <3> QED BY <3>1, <3>2 DEF ListOf
  <2>3. /\ IsFiniteSet(Units(InCache(cache), cache.charge))
        /\ cache.usage = Cardinality(Units(InCache(cache), cache.charge))
    BY <1>4, <1>5, FS_EmptySet
  <2>4. \A t \in Threads : handle[t] = None
    BY <1>1
  <2> QED BY <1>4, <1>5, <2>1, <2>2, <2>3, <2>4 DEF CountsOK
<1>7. TableOK(cache, None)
  BY <1>2, <1>4 DEF TableOK
<1>8. CacheOK(cache, handle, cWant)
  BY <1>6, <1>7 DEF CacheOK
<1>9. /\ cPc \in [Threads -> {"idle", "loading", "using"}]
      /\ cWant \in [Threads -> CacheKeys \union {None}]
      /\ handle \in [Threads -> Slots \union {None}]
      /\ \A t \in Threads : cPc[t] = "using" <=> handle[t] # None
      /\ \A t \in Threads : cPc[t] # "idle" => cWant[t] \in CacheKeys
  BY <1>1
<1> QED BY <1>1, <1>2, <1>8, <1>9 DEF CacheInv

(* Lookup, a hit or a miss.                                                 *)
LEMMA LookupKeeps ==
  ASSUME CacheInv, NEW t \in Threads, NEW k \in CacheKeys, Cache!Lookup(t, k)
  PROVE  CacheInv'
<1> DEFINE e == cache.table[k]
<1>1. /\ cPc[t] = "idle" /\ capacity' = capacity
      /\ cache' = IF e # None THEN Cache!Ref(cache, e) ELSE cache
      /\ handle' = [handle EXCEPT ![t] = e]
      /\ cPc' = [cPc EXCEPT ![t] = IF e # None THEN "using" ELSE "loading"]
      /\ cWant' = [cWant EXCEPT ![t] = k]
  BY DEF Cache!Lookup
<1>2. /\ cPc \in [Threads -> {"idle", "loading", "using"}]
      /\ cWant \in [Threads -> CacheKeys \union {None}]
      /\ handle \in Handles /\ capacity \in Nat
      /\ \A s \in Threads : cPc[s] = "using" <=> handle[s] # None
      /\ \A s \in Threads : cPc[s] # "idle" => cWant[s] \in CacheKeys
      /\ CacheOK(cache, handle, cWant)
  BY DEF CacheInv, Handles
<1>3. e \in Slots \union {None} /\ None \notin Slots /\ handle[t] = None
  <2>1. cache.table \in [CacheKeys -> Slots \union {None}]
    BY <1>2, RecordFacts DEF CacheOK, CountsOK
  <2> QED BY <1>1, <1>2, <2>1, ShardConstants
<1>4. CASE e = None
  <2>1. handle' = handle /\ cache' = cache
    BY <1>1, <1>2, <1>3, <1>4 DEF Handles
  <2>2. CacheOK(cache, handle, [cWant EXCEPT ![t] = k])
    BY <1>2, <1>3, WantChanges
  <2>3. CacheOK(cache', handle', cWant')
    BY <1>1, <2>1, <2>2
  <2> HIDE DEF e
  <2>4. /\ cPc' \in [Threads -> {"idle", "loading", "using"}]
        /\ cWant' \in [Threads -> CacheKeys \union {None}]
        /\ handle' \in [Threads -> Slots \union {None}]
        /\ \A s \in Threads : cPc'[s] = "using" <=> handle'[s] # None
        /\ \A s \in Threads : cPc'[s] # "idle" => cWant'[s] \in CacheKeys
    BY <1>1, <1>2, <1>3, <1>4, <2>1 DEF Handles
  <2> QED BY <1>1, <1>2, <2>3, <2>4 DEF CacheInv
<1>5. CASE e # None
  <2>1. e \in Slots /\ cache.in_cache[e] /\ cache.key[e] = k
    BY <1>2, <1>3, <1>5 DEF CacheOK, TableOK
  <2> HIDE DEF e
  <2>2. CacheOK(Cache!Ref(cache, e), [handle EXCEPT ![t] = e],
                [cWant EXCEPT ![t] = cache.key[e]])
    BY <1>2, <1>3, <2>1, RefKeeps
  <2>3. CacheOK(cache', handle', cWant')
    BY <1>1, <1>5, <2>1, <2>2
  <2>4. /\ cPc' \in [Threads -> {"idle", "loading", "using"}]
        /\ cWant' \in [Threads -> CacheKeys \union {None}]
        /\ handle' \in [Threads -> Slots \union {None}]
        /\ \A s \in Threads : cPc'[s] = "using" <=> handle'[s] # None
        /\ \A s \in Threads : cPc'[s] # "idle" => cWant'[s] \in CacheKeys
    BY <1>1, <1>2, <1>3, <1>5, <2>1 DEF Handles
  <2> QED BY <1>1, <1>2, <2>3, <2>4 DEF CacheInv
<1> QED BY <1>4, <1>5

(* InsertLoaded, into memory that is free.                                  *)
LEMMA InsertLoadedKeeps ==
  ASSUME CacheInv, NEW t \in Threads, Cache!InsertLoaded(t)
  PROVE  CacheInv'
<1> DEFINE x == Cache!Malloc
<1>1. /\ cPc[t] = "loading" /\ capacity' = capacity /\ cWant' = cWant
      /\ \E n \in Charges : cache' = Cache!Insert(cache, x, cWant[t], n)
      /\ handle' = [handle EXCEPT ![t] = x] /\ cPc' = [cPc EXCEPT ![t] = "using"]
  BY DEF Cache!InsertLoaded
<1>2. /\ cPc \in [Threads -> {"idle", "loading", "using"}]
      /\ cWant \in [Threads -> CacheKeys \union {None}]
      /\ handle \in Handles /\ capacity \in Nat
      /\ \A s \in Threads : cPc[s] = "using" <=> handle[s] # None
      /\ \A s \in Threads : cPc[s] # "idle" => cWant[s] \in CacheKeys
      /\ CacheOK(cache, handle, cWant)
  BY DEF CacheInv, Handles
<1>3. handle[t] = None /\ cWant[t] \in CacheKeys
  BY <1>1, <1>2
<1>4. \E e \in Slots : cache.refs[e] = 0
  BY <1>2, <1>3, FreeSlot
<1>5. x \in Slots /\ cache.refs[x] = 0
  BY <1>4 DEF Cache!Malloc
<1> HIDE DEF x
<1>6. PICK n \in Nat : cache' = Cache!Insert(cache, x, cWant[t], n)
  BY <1>1, ShardConstants
<1>7. CacheOK(Cache!Insert(cache, x, cWant[t], n), [handle EXCEPT ![t] = x], cWant)
  BY <1>2, <1>3, <1>5, CacheInsertKeeps
<1>8. CacheOK(cache', handle', cWant')
  BY <1>1, <1>6, <1>7
<1>9. /\ cPc' \in [Threads -> {"idle", "loading", "using"}]
      /\ cWant' \in [Threads -> CacheKeys \union {None}]
      /\ handle' \in [Threads -> Slots \union {None}]
      /\ \A s \in Threads : cPc'[s] = "using" <=> handle'[s] # None
      /\ \A s \in Threads : cPc'[s] # "idle" => cWant'[s] \in CacheKeys
  BY <1>1, <1>2, <1>3, <1>5, ShardConstants DEF Handles
<1> QED BY <1>1, <1>2, <1>8, <1>9 DEF CacheInv

-----------------------------------------------------------------------------
(* A load that failed leaves the cache alone.                               *)
LEMMA LoadNotCachedKeeps ==
  ASSUME CacheInv, NEW t \in Threads, Cache!LoadNotCached(t)
  PROVE  CacheInv'
<1>1. /\ cPc[t] = "loading" /\ capacity' = capacity /\ cache' = cache
      /\ handle' = handle /\ cPc' = [cPc EXCEPT ![t] = "idle"]
      /\ cWant' = [cWant EXCEPT ![t] = None]
  BY DEF Cache!LoadNotCached
<1>2. /\ cPc \in [Threads -> {"idle", "loading", "using"}]
      /\ cWant \in [Threads -> CacheKeys \union {None}]
      /\ handle \in Handles /\ capacity \in Nat
      /\ \A s \in Threads : cPc[s] = "using" <=> handle[s] # None
      /\ \A s \in Threads : cPc[s] # "idle" => cWant[s] \in CacheKeys
      /\ CacheOK(cache, handle, cWant)
  BY DEF CacheInv, Handles
<1>3. handle[t] = None
  BY <1>1, <1>2
<1>4. CacheOK(cache, handle, [cWant EXCEPT ![t] = None])
  BY <1>2, <1>3, WantChanges
<1>5. CacheOK(cache', handle', cWant')
  BY <1>1, <1>4
<1>6. /\ cPc' \in [Threads -> {"idle", "loading", "using"}]
      /\ cWant' \in [Threads -> CacheKeys \union {None}]
      /\ handle' \in [Threads -> Slots \union {None}]
      /\ \A s \in Threads : cPc'[s] = "using" <=> handle'[s] # None
      /\ \A s \in Threads : cPc'[s] # "idle" => cWant'[s] \in CacheKeys
  BY <1>1, <1>2, <1>3 DEF Handles
<1> QED BY <1>1, <1>2, <1>5, <1>6 DEF CacheInv

(* The last reference of a handle may free the entry, or move it to lru_.   *)
LEMMA ReleaseKeeps ==
  ASSUME CacheInv, NEW t \in Threads, Cache!Release(t)
  PROVE  CacheInv'
<1>1. /\ cPc[t] = "using" /\ capacity' = capacity
      /\ cache' = Cache!Unref(cache, handle[t])
      /\ handle' = [handle EXCEPT ![t] = None] /\ cPc' = [cPc EXCEPT ![t] = "idle"]
      /\ cWant' = [cWant EXCEPT ![t] = None]
  BY DEF Cache!Release
<1>2. /\ cPc \in [Threads -> {"idle", "loading", "using"}]
      /\ cWant \in [Threads -> CacheKeys \union {None}]
      /\ handle \in Handles /\ capacity \in Nat
      /\ \A s \in Threads : cPc[s] = "using" <=> handle[s] # None
      /\ \A s \in Threads : cPc[s] # "idle" => cWant[s] \in CacheKeys
      /\ CacheOK(cache, handle, cWant)
  BY DEF CacheInv, Handles
<1>3. handle[t] \in Slots
  BY <1>1, <1>2 DEF Handles
<1>4. CacheOK(Cache!Unref(cache, handle[t]), [handle EXCEPT ![t] = None],
              [cWant EXCEPT ![t] = None])
  BY <1>2, <1>3, UnrefKeeps
<1>5. CacheOK(cache', handle', cWant')
  BY <1>1, <1>4
<1>6. /\ cPc' \in [Threads -> {"idle", "loading", "using"}]
      /\ cWant' \in [Threads -> CacheKeys \union {None}]
      /\ handle' \in [Threads -> Slots \union {None}]
      /\ \A s \in Threads : cPc'[s] = "using" <=> handle'[s] # None
      /\ \A s \in Threads : cPc'[s] # "idle" => cWant'[s] \in CacheKeys
  BY <1>1, <1>2, <1>3 DEF Handles
<1> QED BY <1>1, <1>2, <1>5, <1>6 DEF CacheInv

(* Erase and Prune, while others use what goes.                             *)
LEMMA EraseKeeps ==
  ASSUME CacheInv,
         \/ \E k \in CacheKeys : Cache!Erase(k)
         \/ Cache!Prune
  PROVE  CacheInv'
<1>1. CacheOK(cache, handle, cWant)
  BY DEF CacheInv
<1>2. CASE \E k \in CacheKeys : Cache!Erase(k)
  <2>1. PICK k \in CacheKeys : Cache!Erase(k)
    BY <1>2
  <2>2. CacheOK(Cache!TableRemove(cache, k), handle, cWant)
    BY <1>1, TableRemoveKeeps
  <2>3. cache' = Cache!TableRemove(cache, k) /\ UNCHANGED <<capacity, cPc, cWant, handle>>
    BY <2>1 DEF Cache!Erase
  <2> QED BY <2>2, <2>3 DEF CacheInv
<1>3. CASE Cache!Prune
  <2>1. CacheOK(Cache!EvictAll(cache), handle, cWant)
    BY <1>1, EvictAllKeeps
  <2>2. cache' = Cache!EvictAll(cache) /\ UNCHANGED <<capacity, cPc, cWant, handle>>
    BY <1>3 DEF Cache!Prune
  <2> QED BY <2>1, <2>2 DEF CacheInv
<1> QED BY <1>2, <1>3

(* Every step keeps the invariant.                                          *)
LEMMA CacheNext ==
  ASSUME CacheInv, [Cache!Next]_cacheVars PROVE CacheInv'
<1>1. CASE UNCHANGED cacheVars
  BY <1>1 DEF CacheInv, cacheVars
<1>2. ASSUME NEW t \in Threads, NEW k \in CacheKeys, Cache!Lookup(t, k)
      PROVE  CacheInv'
  BY <1>2, LookupKeeps
<1>3. ASSUME NEW t \in Threads, Cache!InsertLoaded(t) PROVE CacheInv'
  BY <1>3, InsertLoadedKeeps
<1>4. ASSUME NEW t \in Threads, Cache!LoadNotCached(t) PROVE CacheInv'
  BY <1>4, LoadNotCachedKeeps
<1>5. ASSUME NEW t \in Threads, Cache!Release(t) PROVE CacheInv'
  BY <1>5, ReleaseKeeps
<1>6. CASE \/ \E k \in CacheKeys : Cache!Erase(k)
           \/ Cache!Prune
  BY <1>6, EraseKeeps
<1> QED BY <1>1, <1>2, <1>3, <1>4, <1>5, <1>6 DEF Cache!Next

(* A list without repetitions is as long as what is on it.                  *)
LEMMA ListLength ==
  ASSUME NEW S \in SUBSET Slots, NEW s, ListOf(s, S)
  PROVE  /\ Cache!ToSet(s) = S
         /\ Len(s) = Cardinality(S)
<1> DEFINE n == Len(s)
<1>1. /\ s \in Seq(Slots) /\ n \in Nat /\ s \in [1..n -> Slots] /\ DOMAIN s = 1..n
      /\ \A i, j \in 1..n : s[i] = s[j] => i = j
      /\ \A e \in Slots : e \in S <=> \E i \in 1..n : s[i] = e
  BY LenProperties DEF ListOf
<1>2. Cache!ToSet(s) = S
  BY <1>1 DEF Cache!ToSet
<1> HIDE DEF n
<1>3. s \in Bijection(1..n, S)
  <2>1. s \in [1..n -> S]
    BY <1>1
  <2> QED BY <1>1, <2>1 DEF Bijection, Injection, Surjection, IsInjective
<1>4. IsFiniteSet(1..n) /\ Cardinality(1..n) = n
  BY <1>1, FS_Interval
<1>5. ExistsBijection(1..n, S)
  BY <1>3 DEF ExistsBijection
<1>6. Cardinality(S) = n
  BY <1>4, <1>5, FS_Bijection
<1> QED BY <1>2, <1>6 DEF n

(* The invariant gives what the run checks: references are those of the     *)
(* handles and of the cache, and lru_ has as many entries as are idle.      *)
LEMMA CacheInvSound ==
  ASSUME CacheInv PROVE CacheSound
<1>1. /\ \A t \in Threads : cPc[t] = "using" <=> handle[t] # None
      /\ CountsOK(cache, handle, cWant) /\ TableOK(cache, None)
      /\ None \notin Slots
  BY ShardConstants DEF CacheInv, CacheOK
<1>2. \A e \in Slots : Cache!Holders(e) = HeldBy(handle, e)
  BY DEF Cache!Holders, HeldBy
<1>3. Cache!HandlesValid
  <2>1. \A t \in Threads : cPc[t] = "using" => cache.key[handle[t]] = cWant[t]
    BY <1>1 DEF CountsOK
  <2>2. \A e \in Slots :
          cache.refs[e] = Cache!Cardinality(Cache!Holders(e))
                            + (IF cache.in_cache[e] THEN 1 ELSE 0)
    BY <1>1, <1>2, SameCounts DEF CountsOK, HoldersOf
  <2> QED BY <2>1, <2>2 DEF Cache!HandlesValid
<1>4. Cache!ListsExact
  <2> DEFINE cached == {e \in Slots : cache.in_cache[e]}
             idle == {e \in cached : Cache!Holders(e) = {}}
  <2>1. cached = InCache(cache)
    BY DEF InCache
  <2>2. idle = {e \in InCache(cache) : HeldBy(handle, e) = {}}
    BY <1>2, <2>1
  <2>3. \A k \in CacheKeys, e \in Slots :
          cache.table[k] = e <=> e \in cached /\ cache.key[e] = k
    BY <1>1 DEF TableOK
  <2>4. Cache!ToSet(cache.lru) = idle /\ Len(cache.lru) = Cache!Cardinality(idle)
    <3>1. idle \in SUBSET Slots /\ ListOf(cache.lru, idle)
      BY <1>1, <2>2 DEF CountsOK
    <3> HIDE DEF idle
    <3> QED BY <3>1, ListLength, SameCounts
  <2>5. cache.in_use = cached \ idle
    <3>1. cache.in_use = {e \in InCache(cache) : HeldBy(handle, e) # {}}
      BY <1>1 DEF CountsOK
    <3> QED BY <2>1, <2>2, <3>1
  <2>6. cache.usage
          = Cache!Cardinality(UNION {{e} \X (1..cache.charge[e]) : e \in cached})
    BY <1>1, <2>1, SameCounts DEF CountsOK, Units
  <2> QED BY <2>3, <2>4, <2>5, <2>6 DEF Cache!ListsExact
<1> QED BY <1>3, <1>4 DEF CacheSound

(***************************************************************************)
(* The cache never frees an entry under a handle, frees it as soon as      *)
(* nobody refers to it, and keeps its lists, table and usage_ in           *)
(* agreement, for any number of threads, keys, charges and any capacity,   *)
(* whatever is erased, replaced, evicted or pruned meanwhile.              *)
(***************************************************************************)
THEOREM CacheIsSound == Cache!Spec => []CacheSound
<1>1. Cache!Init => CacheInv
  BY CacheInit
<1>2. CacheInv /\ [Cache!Next]_cacheVars => CacheInv'
  BY CacheNext
<1>3. CacheInv => CacheSound
  BY CacheInvSound
<1>4. Cache!Spec => Cache!Init /\ [][Cache!Next]_cacheVars
  BY DEF Cache!Spec, Cache!vars, cacheVars
<1> QED BY <1>1, <1>2, <1>3, <1>4, PTL
=============================================================================
