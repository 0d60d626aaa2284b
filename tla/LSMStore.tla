------------------------------ MODULE LSMStore ------------------------------
(***************************************************************************)
(* How LevelDB 1.23 stores and finds entries: memtables, a version that    *)
(* lists the table files of each level, flushes that place a table as deep *)
(* as PickLevelForMemTableOutput allows, compactions that merge the files  *)
(* of two levels and drop hidden entries, snapshots, and iterators that    *)
(* pin the version they were opened on (db/version_set.cc, db/db_impl.cc). *)
(*                                                                         *)
(* Only the background thread installs versions; it is one of Flush,       *)
(* TrivialMove or the steps of a compaction.  Writers, snapshots and       *)
(* iterators run between those steps, and a flush may run in the middle of *)
(* a compaction.  When the thread runs, and errors, are in module DBImpl.  *)
(* Sizes in bytes are not represented: a choice that depends on one only   *)
(* is a disjunction.                                                       *)
(*                                                                         *)
(* An entry is a record of its user key k, sequence number s and type t; a *)
(* file one of its number num, its entries, and the smallest and largest   *)
(* of them.                                                                *)
(***************************************************************************)
EXTENDS Integers, Sequences, FiniteSets

CONSTANTS
  Keys,             \* user keys, integers
  Batches,          \* the WriteBatches the callers use: sequences of updates
  MaxSeq,           \* bound on the number of updates
  Snaps, Iters,     \* handles for snapshots and iterators
  NumLevels,        \* config::kNumLevels
  MaxMemCompactLevel, \* config::kMaxMemCompactLevel
  ManualRanges,     \* key ranges <<begin, end>> callers give CompactRange
  MaxFileNumber     \* bound on the number of table files

ASSUME KeysAssumption == Keys \subseteq Int /\ IsFiniteSet(Keys)
ASSUME BatchesAssumption ==
  Batches \subseteq Seq([k : Keys, t : {"value", "deletion"}])
ASSUME LevelsAssumption ==
  /\ NumLevels \in Nat /\ NumLevels > 1
  /\ MaxMemCompactLevel \in 0..(NumLevels - 1)
ASSUME BoundsAssumption ==
  /\ MaxSeq \in Nat /\ MaxFileNumber \in Nat
  /\ ManualRanges \subseteq Keys \X Keys

VARIABLES
  lastSeq,   \* versions_->LastSequence()
  pending,   \* updates inserted into mem_ and not yet published
  memtables, \* the contents of each MemTable, in order of creation
  hasImm,    \* imm_ != nullptr; it is the memtable before mem_
  version,   \* versions_->current(): the files of each level
  nextFile,  \* versions_->next_file_number_
  disk,      \* numbers of the table files in the directory
  compaction,\* the running compaction
  snapshots, \* for each open snapshot its sequence number
  iters      \* for each open iterator what it pins

writeVars == <<lastSeq, pending>>
memVars == <<memtables, hasImm>>
fileVars == <<version, nextFile, disk>>
readVars == <<snapshots, iters>>
vars == <<writeVars, memVars, fileVars, compaction, readVars>>

Closed == -1         \* a snapshot handle that is not open
NoIter == [seq |-> -1]
NoCompaction == [level |-> -1]

Levels == 0..(NumLevels - 1)

mem == Len(memtables)
imm == mem - 1

-----------------------------------------------------------------------------
(* Internal keys: by user key, newer entries first. *)

Before(a, b) == a.k < b.k \/ (a.k = b.k /\ a.s > b.s)

First(E) == CHOOSE e \in E : \A x \in E : x = e \/ Before(e, x)
Last(E) == CHOOSE e \in E : \A x \in E : x = e \/ Before(x, e)

\* FileMetaData, with what the table holds.
File(n, E) ==
  [num |-> n, smallest |-> First(E), largest |-> Last(E), entries |-> E]

MergedEntries(fs) == UNION {f.entries : f \in fs}

\* GetRange and GetRange2: the user keys a set of files spans.
GetRange(fs) ==
  <<First(MergedEntries(fs)).k, Last(MergedEntries(fs)).k>>

Overlaps(f, lo, hi) == f.smallest.k <= hi /\ lo <= f.largest.k

-----------------------------------------------------------------------------
(* Reading. *)

\* What a seek to (k, s) in sorted entries answers: the newest one of k that
\* is not newer than s, as a set with at most one member.
Seek(E, k, s) ==
  {e \in E : /\ e.k = k /\ e.s <= s
             /\ \A x \in E : x.k = k /\ x.s <= s => x.s <= e.s}

\* The file FindFile's binary search ends on, if any: the first one, in the
\* order of f.smallest, whose largest key is not before (k, s).
FindFile(fs, k, s) ==
  LET reach == {f \in fs : ~Before(f.largest, [k |-> k, s |-> s])}
  IN  {f \in reach : \A g \in reach : g = f \/ Before(f.smallest, g.smallest)}

\* Version::Get at one level.  At level 0 the files are asked newest first.
LevelGet(v, l, k, s) ==
  IF l = 0
  THEN LET hits == {f \in v[0] : /\ Overlaps(f, k, k)
                                 /\ Seek(f.entries, k, s) # {}}
       IN  UNION {Seek(f.entries, k, s) :
                    f \in {g \in hits : \A h \in hits : h.num <= g.num}}
  ELSE UNION {Seek(f.entries, k, s) :
                f \in {g \in FindFile(v[l], k, s) : g.smallest.k <= k}}

\* The answers of mem_, imm_ and the levels, in the order DBImpl::Get asks.
Answers(v, k, s) ==
  [i \in 1..(NumLevels + 2) |->
     CASE i = 1 -> Seek(memtables[mem], k, s)
       [] i = 2 -> IF hasImm THEN Seek(memtables[imm], k, s) ELSE {}
       [] OTHER -> LevelGet(v, i - 3, k, s)]

\* The value a found entry stands for, named by its sequence number; 0 is
\* NotFound.
ValueOf(found) ==
  IF \E e \in found : e.t = "value"
  THEN (CHOOSE e \in found : e.t = "value").s ELSE 0

\* DBImpl::Get with sequence number s: the first source that has an answer.
Get(k, s) ==
  LET a == Answers(version, k, s)
      hits == {i \in DOMAIN a : a[i] # {}}
  IN  IF hits = {} THEN 0
      ELSE ValueOf(a[CHOOSE i \in hits : \A j \in hits : i <= j])

\* What an iterator shows for k: DBIter takes the newest visible entry of the
\* merged memtables and files it pinned.
IterGet(it, k) ==
  ValueOf(Seek((UNION {memtables[i] : i \in it.mems})
                 \union MergedEntries(UNION {it.version[l] : l \in Levels}),
               k, it.seq))

-----------------------------------------------------------------------------
(* Writing and reading handles. *)

\* Write, with mutex_ released: WriteBatchInternal::InsertInto(mem_).
WriteInsert(b) ==
  /\ pending = 0
  /\ lastSeq + Len(b) <= MaxSeq
  /\ pending' = Len(b)
  /\ memtables' = [memtables EXCEPT ![mem] = @ \union
       {[k |-> b[i].k, s |-> lastSeq + i, t |-> b[i].t] : i \in DOMAIN b}]
  /\ UNCHANGED <<lastSeq, hasImm, fileVars, compaction, readVars>>

\* Write, mutex_ acquired again: versions_->SetLastSequence.
WritePublish ==
  /\ pending > 0
  /\ lastSeq' = lastSeq + pending
  /\ pending' = 0
  /\ UNCHANGED <<memVars, fileVars, compaction, readVars>>

\* MakeRoomForWrite: the memtable is full, or a flush is forced.
SwitchMemTable ==
  /\ pending = 0
  /\ ~hasImm
  /\ memtables[mem] # {}
  /\ memtables' = Append(memtables, {})
  /\ hasImm' = TRUE
  /\ UNCHANGED <<writeVars, fileVars, compaction, readVars>>

GetSnapshot(i) ==
  /\ snapshots[i] = Closed
  /\ snapshots' = [snapshots EXCEPT ![i] = lastSeq]
  /\ UNCHANGED <<writeVars, memVars, fileVars, compaction, iters>>

ReleaseSnapshot(i) ==
  /\ snapshots[i] # Closed
  /\ snapshots' = [snapshots EXCEPT ![i] = Closed]
  /\ UNCHANGED <<writeVars, memVars, fileVars, compaction, iters>>

\* NewIterator(options): s is LastSequence() or the sequence number of the
\* snapshot in options.  mem_, imm_ and the current version are pinned.
NewIterator(j, s) ==
  /\ iters[j] = NoIter
  /\ iters' = [iters EXCEPT ![j] =
       [seq |-> s, version |-> version,
        mems |-> {mem} \union (IF hasImm THEN {imm} ELSE {})]]
  /\ UNCHANGED <<writeVars, memVars, fileVars, compaction, snapshots>>

OpenIters(its) == {j \in Iters : its[j] # NoIter}

\* A memtable without references is freed.
Referenced(its, immHeld) ==
  {mem} \union (IF immHeld THEN {imm} ELSE {})
    \union UNION {its[j].mems : j \in OpenIters(its)}

FreeMemTables(its, immHeld) ==
  [i \in DOMAIN memtables |->
     IF i \in Referenced(its, immHeld) THEN memtables[i] ELSE {}]

\* ~Iterator: CleanupIteratorState drops the references.
DeleteIterator(j) ==
  /\ iters[j] # NoIter
  /\ iters' = [iters EXCEPT ![j] = NoIter]
  /\ memtables' = FreeMemTables(iters', hasImm)
  /\ UNCHANGED <<writeVars, hasImm, fileVars, compaction, snapshots>>

-----------------------------------------------------------------------------
(* Flushing. *)

OverlapInLevel(l, lo, hi) == \E f \in version[l] : Overlaps(f, lo, hi)

\* The levels PickLevelForMemTableOutput may answer.  The loop goes down
\* while the next level has no overlap; it may stop early only when the level
\* after that has overlapping bytes.
PickLevelForMemTableOutput(lo, hi) ==
  {l \in 0..MaxMemCompactLevel :
     /\ l > 0 => \A i \in 0..l : ~OverlapInLevel(i, lo, hi)
     /\ \/ l = MaxMemCompactLevel
        \/ l = 0 /\ OverlapInLevel(0, lo, hi)
        \/ OverlapInLevel(l + 1, lo, hi)
        \/ l + 2 < NumLevels /\ OverlapInLevel(l + 2, lo, hi)}

FileNumbers(v) == {f.num : f \in UNION {v[l] : l \in Levels}}

\* VersionSet::AddLiveFiles: the files of every version still referenced.
LiveFiles(v, c, its) ==
  FileNumbers(v)
    \union (IF c = NoCompaction THEN {} ELSE FileNumbers(c.version))
    \union UNION {FileNumbers(its[j].version) : j \in OpenIters(its)}

\* pending_outputs_ while a compaction runs: the outputs it has finished and
\* the one it is writing.
PendingOutputs(c) ==
  IF c = NoCompaction THEN {}
  ELSE {f.num : f \in c.outputs} \union ({c.outfile} \ {0})

(* Mutant: the outputs of a running compaction are not pending.             *)
RemoveUnlessLive(files, v, c, its) == files \intersect LiveFiles(v, c, its)

\* RemoveObsoleteFiles, for table files.
RemoveObsoleteFiles(files, v, c, its) ==
  files \intersect (LiveFiles(v, c, its) \union PendingOutputs(c))

\* CompactMemTable: WriteLevel0Table, LogAndApply, imm_ released.  Called by
\* BackgroundCompaction, or by DoCompactionWork between two input keys.
Flush ==
  /\ hasImm
  /\ nextFile <= MaxFileNumber
  /\ LET f == File(nextFile, memtables[imm])
     IN  \E l \in PickLevelForMemTableOutput(f.smallest.k, f.largest.k) :
           version' = [version EXCEPT ![l] = @ \union {f}]
  /\ nextFile' = nextFile + 1
  /\ hasImm' = FALSE
  /\ memtables' = FreeMemTables(iters, FALSE)
  /\ disk' = RemoveObsoleteFiles(disk \union {nextFile}, version',
                                 compaction, iters)
  /\ UNCHANGED <<writeVars, compaction, readVars>>

-----------------------------------------------------------------------------
(* Compaction: choosing the inputs. *)

\* GetOverlappingInputs: at level 0 a file that reaches beyond the range
\* widens it and the search restarts.
GetOverlappingInputs(l, lo, hi) ==
  LET hit(r) == {f \in version[l] : Overlaps(f, r[1], r[2])}
      wider(r) == LET g == GetRange(hit(r))
                  IN  <<IF g[1] < r[1] THEN g[1] ELSE r[1],
                        IF g[2] > r[2] THEN g[2] ELSE r[2]>>
      range[n \in 0..Cardinality(version[l])] ==
        IF n = 0 \/ l > 0 \/ hit(<<lo, hi>>) = {} THEN <<lo, hi>>
        ELSE wider(range[n - 1])
  IN  hit(range[Cardinality(version[l])])

\* FindSmallestBoundaryFile: the first file of the level that continues the
\* user key on which the entries up to u end.
FindSmallestBoundaryFile(fs, u) ==
  LET boundary == {f \in fs : Before(u, f.smallest) /\ f.smallest.k = u.k}
  IN  {f \in boundary : \A g \in boundary : ~Before(g.smallest, f.smallest)}

(* Mutant: boundary files are left behind.                                  *)
NoBoundaryInputs(fs, chosen) == chosen

\* AddBoundaryInputs: boundary files are added until there is none.
AddBoundaryInputs(fs, chosen) ==
  LET grown[n \in 0..Cardinality(fs)] ==
        IF n = 0 THEN chosen
        ELSE grown[n - 1] \union
               FindSmallestBoundaryFile(fs, Last(MergedEntries(grown[n - 1])))
  IN  IF chosen = {} THEN {} ELSE grown[Cardinality(fs)]

\* SetupOtherInputs: the pairs of input sets a compaction of the files chosen
\* at level l may end up with.  Growing the upper set may be refused for its
\* size.
SetupOtherInputs(l, chosen) ==
  LET in0 == AddBoundaryInputs(version[l], chosen)
      over(lev, fs) == LET r == GetRange(fs)
                       IN  GetOverlappingInputs(lev, r[1], r[2])
      in1 == over(l + 1, in0)
      expanded0 == AddBoundaryInputs(version[l], over(l, in0 \union in1))
      expanded1 == over(l + 1, expanded0)
  IN  {<<in0, in1>>} \union
      (IF /\ in1 # {}
          /\ Cardinality(expanded0) > Cardinality(in0)
          /\ Cardinality(expanded1) = Cardinality(in1)
       THEN {<<expanded0, expanded1>>} ELSE {})

\* PickCompaction: level and file come from sizes and seek counts.  At level
\* 0 the overlapping files are added.
PickCompaction(l) ==
  UNION {SetupOtherInputs(l,
           IF l > 0 THEN {f}
           ELSE GetOverlappingInputs(0, f.smallest.k, f.largest.k)) :
         f \in version[l]}

\* VersionSet::CompactRange: below level 0 the inputs may be cut short after
\* any file, by their size.
CompactRange(l, lo, hi) ==
  LET inputs == GetOverlappingInputs(l, lo, hi)
      upTo(f) == {g \in inputs : g = f \/ Before(g.smallest, f.smallest)}
  IN  UNION {SetupOtherInputs(l, chosen) :
             chosen \in IF l = 0 THEN {inputs} \ {{}}
                        ELSE {upTo(f) : f \in inputs}}

\* The files of level l + 2 in the range of the inputs.
Grandparents(l, in) ==
  LET r == GetRange(in[1] \union in[2])
  IN  IF l + 2 < NumLevels THEN {f \in version[l + 2] : Overlaps(f, r[1], r[2])}
      ELSE {}

-----------------------------------------------------------------------------
(* Compaction: merging. *)

\* Compaction::IsBaseLevelForKey, on the version the compaction pinned.
IsBaseLevelForKey(v, l, k) ==
  \A i \in (l + 2)..(NumLevels - 1) : \A f \in v[i] : ~Overlaps(f, k, k)

(* Mutant: snapshots are not asked.                                         *)
LastSequenceOnly == lastSeq

\* The oldest sequence number a snapshot may still read at, as
\* DoCompactionWork takes it when it starts.
SmallestSnapshot ==
  LET held == {snapshots[i] : i \in {j \in Snaps : snapshots[j] # Closed}}
  IN  IF held = {} THEN lastSeq ELSE CHOOSE s \in held : \A x \in held : s <= x

\* The loop of DoCompactionWork: an entry is dropped when a newer entry of the
\* same key is visible to every snapshot, or when it is a deletion visible to
\* every snapshot that has nothing left to hide.
DropsEntry(E, e, s, v, l) ==
  \/ \E x \in E : x.k = e.k /\ e.s < x.s /\ x.s <= s
  \/ e.t = "deletion" /\ e.s <= s /\ IsBaseLevelForKey(v, l, e.k)

KeptEntries(E, s, v, l) == {e \in E : ~DropsEntry(E, e, s, v, l)}

\* DoCompactionWork up to the release of mutex_.
StartCompaction(l, in) ==
  compaction' = [level |-> l, inputs |-> in, version |-> version,
                 outputs |-> {}, outfile |-> 0,
                 smallestSnapshot |-> SmallestSnapshot,
                 todo |-> KeptEntries(MergedEntries(in[1] \union in[2]),
                                      SmallestSnapshot, version, l)]

BackgroundIdle == compaction = NoCompaction /\ ~hasImm

\* BackgroundCompaction with inputs from PickCompaction, when the inputs are
\* not moved.  The grandparents may be too large for a move.
AutoCompaction(l) ==
  /\ BackgroundIdle
  /\ \E in \in PickCompaction(l) :
       /\ ~(Cardinality(in[1]) = 1 /\ in[2] = {} /\ Grandparents(l, in) = {})
       /\ StartCompaction(l, in)
  /\ UNCHANGED <<writeVars, memVars, fileVars, readVars>>

\* BackgroundCompaction for manual_compaction_: never a move.
ManualCompaction(l, r) ==
  /\ BackgroundIdle
  /\ \E in \in CompactRange(l, r[1], r[2]) : StartCompaction(l, in)
  /\ UNCHANGED <<writeVars, memVars, fileVars, readVars>>

\* IsTrivialMove: the file goes to the next level as it is.
TrivialMove(l) ==
  /\ BackgroundIdle
  /\ \E in \in PickCompaction(l) :
       /\ Cardinality(in[1]) = 1
       /\ in[2] = {}
       /\ version' = [version EXCEPT ![l] = @ \ in[1],
                                     ![l + 1] = @ \union in[1]]
  /\ UNCHANGED <<writeVars, memVars, nextFile, disk, compaction, readVars>>

\* OpenCompactionOutputFile, for the next entry that is kept.
OpenOutput ==
  /\ compaction # NoCompaction
  /\ compaction.outfile = 0
  /\ compaction.todo # {}
  /\ nextFile <= MaxFileNumber
  /\ compaction' = [compaction EXCEPT !.outfile = nextFile]
  /\ nextFile' = nextFile + 1
  /\ disk' = disk \union {nextFile}
  /\ UNCHANGED <<writeVars, memVars, version, readVars>>

\* FinishCompactionOutputFile after entry e, with entries still to come.
\* Where an output ends depends on sizes (ShouldStopBefore,
\* MaxOutputFileSize).
UpTo(e) == {x \in compaction.todo : x = e \/ Before(x, e)}

FinishOutput(e) ==
  /\ compaction.outfile # 0
  /\ UpTo(e) # compaction.todo
  /\ compaction' = [compaction EXCEPT
       !.todo = @ \ UpTo(e),
       !.outputs = @ \union {File(compaction.outfile, UpTo(e))},
       !.outfile = 0]
  /\ UNCHANGED <<writeVars, memVars, fileVars, readVars>>

\* The end of DoCompactionWork: the last output, InstallCompactionResults,
\* CleanupCompaction, ReleaseInputs and RemoveObsoleteFiles.
InstallCompaction ==
  LET c == compaction
      rest == IF c.todo = {} THEN {} ELSE {File(c.outfile, c.todo)}
  IN  /\ c # NoCompaction
      /\ c.todo # {} => c.outfile # 0
      /\ version' = [version EXCEPT
           ![c.level] = @ \ c.inputs[1],
           ![c.level + 1] = (@ \ c.inputs[2]) \union c.outputs \union rest]
      /\ compaction' = NoCompaction
      /\ disk' = RemoveObsoleteFiles(disk, version', NoCompaction, iters)
      /\ UNCHANGED <<writeVars, memVars, nextFile, readVars>>

-----------------------------------------------------------------------------
Init ==
  /\ lastSeq = 0 /\ pending = 0
  /\ memtables = <<{}>> /\ hasImm = FALSE
  /\ version = [l \in Levels |-> {}]
  /\ nextFile = 1 /\ disk = {}
  /\ compaction = NoCompaction
  /\ snapshots = [i \in Snaps |-> Closed]
  /\ iters = [j \in Iters |-> NoIter]

Next ==
  \/ \E b \in Batches : WriteInsert(b)
  \/ WritePublish
  \/ SwitchMemTable
  \/ \E i \in Snaps : GetSnapshot(i) \/ ReleaseSnapshot(i)
  \/ \E j \in Iters : NewIterator(j, lastSeq) \/ DeleteIterator(j)
  \/ \E j \in Iters, i \in Snaps :
       snapshots[i] # Closed /\ NewIterator(j, snapshots[i])
  \/ Flush
  \/ \E l \in 0..(NumLevels - 2) :
       \/ AutoCompaction(l)
       \/ TrivialMove(l)
       \/ \E r \in ManualRanges : ManualCompaction(l, r)
  \/ OpenOutput
  \/ compaction # NoCompaction /\ \E e \in compaction.todo : FinishOutput(e)
  \/ InstallCompaction

Spec == Init /\ [][Next]_vars

-----------------------------------------------------------------------------
(* Properties. *)

\* Below level 0 the files of a level do not overlap: between any two of them
\* all internal keys of one come before all internal keys of the other.  This
\* is the assertion of Builder::MaybeAddFile ("Must not overlap"), on which
\* FindFile's binary search and the concatenating iterators depend.  A flush
\* that goes straight to a deep level in the middle of a compaction, and the
\* outputs of that compaction, must both respect it.
LevelsDisjoint ==
  \A l \in Levels \ {0} : \A f, g \in version[l] :
    f # g => \/ Before(f.largest, g.smallest)
             \/ Before(g.largest, f.smallest)

\* A search that stops at the first answer finds the newest one: for every
\* key, the entries of a source that Get asks earlier (mem_, imm_, level-0
\* files from the highest number, the levels in order) are newer than the
\* entries of every source it asks later.  This is why AddBoundaryInputs must
\* take along the files that continue a user key.
NewerAbove ==
  /\ hasImm => \A a \in memtables[mem], b \in memtables[imm] :
                 a.k = b.k => a.s > b.s
  /\ \A a \in memtables[mem] \union (IF hasImm THEN memtables[imm] ELSE {}) :
       \A b \in MergedEntries(UNION {version[l] : l \in Levels}) :
         a.k = b.k => a.s > b.s
  /\ \A f, g \in version[0] : f.num > g.num =>
       \A a \in f.entries, b \in g.entries : a.k = b.k => a.s > b.s
  /\ \A l, m \in Levels : l < m =>
       \A a \in MergedEntries(version[l]), b \in MergedEntries(version[m]) :
         a.k = b.k => a.s > b.s

\* The order of the levels, on which every search depends.
LevelsOrdered == LevelsDisjoint /\ NewerAbove

\* Every table file that the current version, an open iterator or the running
\* compaction may still read, and every output of that compaction, is in the
\* directory.  RemoveObsoleteFiles runs inside a compaction whenever
\* a memtable is flushed there.
LiveFilesExist ==
  LiveFiles(version, compaction, iters) \union PendingOutputs(compaction)
    \subseteq disk

\* The inputs of a running compaction, and what its outputs hold or will hold.
Merged(c) == MergedEntries(c.inputs[1] \union c.inputs[2])
Outcome(c) == c.todo \union MergedEntries(c.outputs)

\* A newer entry of the same key among E, seen by everyone who could see e.
HiddenAt(E, e, s) == \E x \in E : x.k = e.k /\ e.s < x.s /\ x.s <= s

\* A deletion that a compaction drops, and not for a newer entry, leaves
\* nothing older of its key behind in the two levels that are compacted.  This
\* is clause (3) of the comment in DoCompactionWork, "data in layers that are
\* being compacted here and have smaller sequence numbers will be dropped", on
\* which "this deletion marker is obsolete and can be dropped" rests.
DroppedDeletionsObsolete ==
  compaction # NoCompaction =>
    \A e \in Merged(compaction) \ Outcome(compaction) :
      ~HiddenAt(Merged(compaction), e, compaction.smallestSnapshot) =>
        \A x \in MergedEntries(version[compaction.level]
                                 \union version[compaction.level + 1])
                  \ Merged(compaction) :
          x.k = e.k => x.s > e.s

\* The map a handle of LevelDB shows to its user.
StoreMap == [k \in Keys |-> Get(k, lastSeq)]
SnapMaps == [i \in Snaps |-> IF snapshots[i] = Closed THEN <<>>
                             ELSE [k \in Keys |-> Get(k, snapshots[i])]]
IterMaps == [j \in Iters |-> IF iters[j] = NoIter THEN <<>>
                             ELSE [k \in Keys |-> IterGet(iters[j], k)]]

KV == INSTANCE KVStore WITH seq <- lastSeq, store <- StoreMap,
                            snap <- SnapMaps, iter <- IterMaps

\* The stored entries behave as the map of module KVStore: a batch appears at
\* the moment its sequence number is published and as a whole, snapshots and
\* iterators keep their view whatever is written, flushed, moved, compacted,
\* dropped or deleted meanwhile, and no background step changes an answer.
ImplementsKVStore == KV!Spec
=============================================================================
