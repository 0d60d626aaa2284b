--------------------------- MODULE RecoveryProofs ---------------------------
(***************************************************************************)
(* Theorems about module Recovery, for every number of writes, crashes and *)
(* compactions, whichever callers ask for sync and whether the machine may *)
(* stop or only the process.                                               *)
(*                                                                         *)
(* What an Open finds depends on how much of the MANIFEST a crash left.    *)
(* DirInv therefore speaks of every prefix of it that holds at least the   *)
(* synced part: the tables and logs such a prefix names hold what may not  *)
(* be lost, nothing that is gone, and nothing twice (Sound).  It is about  *)
(* the directory only, so a stop of the process keeps it as it is, and a   *)
(* stop of the machine leaves one of the prefixes.  The other parts tie    *)
(* the process to the directory: while DB::Open works (OpeningInv), while  *)
(* the database is open (LiveInv, BackgroundInv) and while obsolete files  *)
(* are removed (TrashInv).                                                 *)
(***************************************************************************)
EXTENDS Recovery, FiniteSetTheorems, WellFoundedInduction, TLAPS

(* The entries of a log file, those of its synced part, and those of the   *)
(* log files of lg numbered n and up.                                      *)
LogEntries(f) == {f.recs[i] : i \in 1..Len(f.recs)}
SyncedEntries(f) == {f.recs[i] : i \in 1..f.synced}
From(lg, n) == {m \in DOMAIN lg : m >= n}
Logged(lg, n) == UNION {LogEntries(lg[m]) : m \in From(lg, n)}
SyncedLogged(lg, n) == UNION {SyncedEntries(lg[m]) : m \in From(lg, n)}
Stored(tb, F) == UNION {tb[m] : m \in F}

(* What an Open would find that reads the tables F and the logs from n on. *)
Found(lg, tb, F, n) == Stored(tb, F) \union Logged(lg, n)

(* That Open would be right: the tables are there, it finds what may not be *)
(* lost (ak), of a stopped machine still what was synced (sy), nothing that *)
(* is gone (gn), no update twice and no sequence number twice.              *)
Sound(lg, tb, ak, sy, gn, F, n) ==
  /\ F \subseteq DOMAIN tb
  /\ ak \subseteq Ids(Found(lg, tb, F, n))
  /\ ak \intersect sy \subseteq Ids(Stored(tb, F) \union SyncedLogged(lg, n))
  /\ gn \intersect Ids(Found(lg, tb, F, n)) = {}
  /\ \A a, b \in F : a # b => tb[a] \intersect tb[b] = {}
  /\ Stored(tb, F) \intersect Logged(lg, n) = {}
  /\ \A e, x \in Found(lg, tb, F, n) : e.s = x.s \/ e.id = x.id => e = x

(* The files the first k edits of a MANIFEST leave.                         *)
FilesUpTo(recs, k) ==
  UNION {{n \in recs[i].add : \A j \in 1..k : j > i => n \notin recs[j].del} :
         i \in 1..k}

Records == [id : Nat, s : Nat]
Known == [id : 1..written, s : 0..written]
Edits == [add : SUBSET Nat, del : SUBSET Nat, log : Int, next : Int, last : Int]

TypeInv ==
  /\ written \in Nat /\ current \in Nat /\ logfile \in Nat
  /\ DOMAIN logs \subseteq Nat
  /\ \A n \in DOMAIN logs :
       /\ logs[n] = [recs |-> logs[n].recs, synced |-> logs[n].synced]
       /\ logs[n].recs \in Seq(Records)
       /\ logs[n].synced \in 0..Len(logs[n].recs)
       /\ LogEntries(logs[n]) \subseteq Known
  /\ DOMAIN tables \subseteq Nat
  /\ \A n \in DOMAIN tables : tables[n] \subseteq Known
  /\ DOMAIN manifests \subseteq Nat
  /\ \A n \in DOMAIN manifests :
       /\ manifests[n] = [recs |-> manifests[n].recs,
                          synced |-> manifests[n].synced]
       /\ manifests[n].recs \in Seq(Edits)
       /\ manifests[n].synced \in 0..Len(manifests[n].recs)
  /\ vs \in [files : SUBSET Nat, log : Nat, next : Nat, manifest : Nat,
             last : Nat]
  /\ vs.last <= written
  /\ edit \in Edits
  /\ hasImm \in BOOLEAN
  /\ mem \subseteq Known /\ imm \subseteq Known
  /\ acked \subseteq 1..written /\ synced \subseteq 1..written
  /\ gone \subseteq 1..written

(* No update is in the logs twice.                                          *)
LogsInv ==
  /\ \A n \in DOMAIN logs : \A i, j \in 1..Len(logs[n].recs) :
       i # j => logs[n].recs[i] # logs[n].recs[j]
  /\ \A m, n \in DOMAIN logs :
       m # n => LogEntries(logs[m]) \intersect LogEntries(logs[n]) = {}

(* What the first k edits of the MANIFEST that CURRENT names describe.      *)
PrefixInv(k) ==
  LET recs == manifests[current].recs
      d == recs[k]
      F == FilesUpTo(recs, k)
  IN  /\ d.log \in Nat /\ d.last \in 0..written /\ d.next \in Nat
      /\ d.log < d.next /\ current < d.next /\ \A n \in F : n < d.next
      /\ d.next <= recs[Len(recs)].next
      /\ \A e \in Stored(tables, F) : e.s <= d.last
      /\ Sound(logs, tables, acked, synced, gone, F, d.log)

(* Whatever part of the MANIFEST behind its synced part is lost, an Open     *)
(* would be right.                                                          *)
DirInv ==
  IF current = 0
  THEN DOMAIN logs = {} /\ acked = {} /\ gone = {} /\ pc \in {"down", "newdb"}
  ELSE /\ current \in DOMAIN manifests
       /\ manifests[current].synced > 0
       /\ \A k \in manifests[current].synced..Len(manifests[current].recs) :
            PrefixInv(k)

(* A process that is not running yet has nothing in memory.                 *)
Opening == pc \in {"replay", "newlog", "newmanifest", "setcurrent"}
Live == pc \in {"cleanup", "open", "syncing"}

FirstEdit == [NoEdit EXCEPT !.log = 0, !.next = 2, !.last = 0]

IdleInv ==
  /\ pc \in {"down", "newdb", "replay", "newlog", "newmanifest", "setcurrent",
             "cleanup", "open", "syncing"}
  /\ bg \in {"idle", "flush", "compact", "flushlog", "compactlog"}
  /\ bg # "idle" => Running
  /\ ~Live => mem = {} /\ imm = {} /\ ~hasImm /\ trash = {}
  /\ pc \in {"down", "newdb"} => edit = NoEdit
  /\ pc = "newdb" => /\ current = 0 /\ 1 \in DOMAIN manifests
                     /\ manifests[1] = [recs |-> <<FirstEdit>>, synced |-> 1]

(* The logs Recover has replayed.                                           *)
Replayed == From(logs, vs.log) \ todo

(* DB::Open has read the MANIFEST and has made tables of the logs replayed.  *)
OpeningInv ==
  Opening =>
    LET recs == manifests[current].recs
        d == recs[Len(recs)]
    IN  /\ current # 0
        /\ vs.files = FilesUpTo(recs, Len(recs)) /\ vs.log = d.log
        /\ vs.manifest = d.next /\ vs.manifest < vs.next /\ d.last <= vs.last
        /\ edit.del = {} /\ edit.add \subseteq DOMAIN tables
        /\ \A n \in edit.add : vs.manifest < n /\ n < vs.next
        /\ \A a, b \in edit.add : a # b => tables[a] \intersect tables[b] = {}
        /\ Stored(tables, edit.add) = UNION {LogEntries(logs[n]) : n \in Replayed}
        /\ \A n \in Replayed : n < vs.next
        /\ \A e \in Stored(tables, edit.add) : e.s <= vs.last
        /\ pc = "replay" =>
             edit.log = None /\ todo \subseteq From(logs, vs.log)
        /\ pc # "replay" =>
             /\ todo = {} /\ edit.log = logfile
             /\ logfile \in DOMAIN logs /\ logs[logfile] = EmptyFile
             /\ vs.log < logfile /\ logfile < vs.next
             /\ \A n \in DOMAIN logs : n <= logfile
        /\ pc \in {"newmanifest", "setcurrent"} =>
             /\ vs.manifest \in DOMAIN manifests
             /\ manifests[vs.manifest].recs =
                  <<[NoEdit EXCEPT !.add = vs.files], edit>>
             /\ edit.next = vs.next /\ edit.last = vs.last
             /\ pc = "setcurrent" => manifests[vs.manifest].synced = 2

Logging == bg \in {"flushlog", "compactlog"}

(* The VersionSet is what the synced part of the MANIFEST says, and the     *)
(* memtables are what the logs from LogNumber on hold.                      *)
LiveInv ==
  Live =>
    LET recs == manifests[current].recs
        k == manifests[current].synced
    IN  /\ current # 0 /\ vs.manifest = current
        /\ k = IF Logging THEN Len(recs) - 1 ELSE Len(recs)
        /\ vs.files = FilesUpTo(recs, k) /\ vs.log = recs[k].log
        /\ recs[Len(recs)].next <= vs.next /\ recs[Len(recs)].last <= vs.last
        /\ From(logs, vs.log) = {vs.log, logfile}
        /\ vs.log <= logfile /\ logfile < vs.next
        /\ ~hasImm => imm = {} /\ vs.log = logfile
        /\ hasImm => imm = LogEntries(logs[vs.log]) /\ vs.log # logfile
        /\ pc # "syncing" => mem = LogEntries(logs[logfile])
        /\ pc = "syncing" =>
             LET e == Entry(written, vs.last + 1)
             IN  /\ LogEntries(logs[logfile]) = mem \union {e}
                 /\ e \notin mem /\ vs.last < written
                 /\ written \notin acked
        /\ \A e \in mem \union imm \union Stored(tables, vs.files) :
             e.s <= vs.last

(* Files to be removed are not needed.                                      *)
TrashInv ==
  /\ trash # {} => bg = "idle"
  /\ \A f \in trash :
       /\ f[1] = "log" => f[2] < vs.log
       /\ f[1] = "table" => f[2] \notin vs.files
       /\ f[1] = "manifest" => f[2] < vs.manifest

(* What the background thread is about to write to the MANIFEST.            *)
BackgroundInv ==
  /\ bg = "idle" /\ Live => edit = NoEdit
  /\ Logging => LET recs == manifests[current].recs
                IN  edit = recs[Len(recs)]
  /\ bg # "idle" =>
       /\ edit.add \subseteq DOMAIN tables \ vs.files
       /\ \A n \in edit.add : n < vs.next
       /\ \A a, b \in edit.add : a = b
  /\ bg \in {"flush", "flushlog"} =>
       /\ hasImm /\ edit.log = logfile /\ edit.del = {}
       /\ Stored(tables, edit.add) = imm
  /\ bg \in {"compact", "compactlog"} =>
       /\ edit.log = IF bg = "compact" THEN None ELSE vs.log
       /\ edit.del \subseteq vs.files
       /\ Stored(tables, edit.add) \subseteq Stored(tables, edit.del)
       /\ acked \intersect Ids(Stored(tables, edit.del))
            \subseteq Ids(Stored(tables, edit.add))

Inv ==
  /\ TypeInv /\ LogsInv /\ DirInv /\ IdleInv /\ OpeningInv /\ LiveInv
  /\ TrashInv /\ BackgroundInv

-----------------------------------------------------------------------------
(* The operators of the model. *)

(* A nonempty set of natural numbers has a least element.                   *)
LEMMA LeastNumber ==
  ASSUME NEW T, T \subseteq Nat, T # {}
  PROVE  \E n \in T : \A m \in T : n <= m
<1> DEFINE R == OpToRel(<, Nat)
<1>1. IsWellFoundedOn(R, Nat)
  BY NatLessThanWellFounded
<1>2. \A x, y \in Nat : x < y => <<x, y>> \in R
  BY DEF OpToRel
<1> HIDE DEF R
<1>3. PICK n \in T : \A y \in T : ~(<<y, n>> \in R)
  BY <1>1, WFMin
<1>4. ASSUME NEW m \in T PROVE n <= m
  <2>1. m \in Nat /\ n \in Nat /\ ~(m < n)
    BY <1>2, <1>3
  <2> QED BY <2>1
<1> QED BY <1>4

(* Max is the largest element of a bounded set of natural numbers.          *)
LEMMA LargestNumber ==
  ASSUME NEW T, T \subseteq Nat, T # {}, NEW b \in Nat, \A n \in T : n <= b
  PROVE  /\ Max(T) \in T
         /\ \A m \in T : m <= Max(T)
<1> DEFINE U == {n \in Nat : \A m \in T : m <= n}
<1>1. PICK n \in U : \A m \in U : n <= m
  <2>1. U \subseteq Nat /\ b \in U
    OBVIOUS
  <2> HIDE DEF U
  <2> QED BY <2>1, LeastNumber
<1>2. n \in T
  <2> SUFFICES ASSUME n \notin T PROVE FALSE
    OBVIOUS
  <2>1. PICK m : m \in T
    OBVIOUS
  <2>2. n \in Nat /\ m \in Nat /\ m <= n /\ m # n
    BY <2>1
  <2>3. n - 1 \in Nat
    BY <2>2
  <2>4. ASSUME NEW x \in T PROVE x <= n - 1
    <3>1. x \in Nat /\ x <= n /\ x # n
      OBVIOUS
    <3> QED BY <3>1
  <2>5. n - 1 \in U
    BY <2>3, <2>4
  <2>6. n <= n - 1
    BY <1>1, <2>5
  <2> QED BY <2>2, <2>6
<1>3. \A y \in T : n >= y
  <2> SUFFICES ASSUME NEW y \in T PROVE n >= y
    OBVIOUS
  <2>1. n \in Nat /\ y \in Nat /\ y <= n
    OBVIOUS
  <2> QED BY <2>1
<1>4. Max(T) \in T /\ \A y \in T : Max(T) >= y
  BY <1>2, <1>3 DEF Max
<1>5. ASSUME NEW m \in T PROVE m <= Max(T)
  <2>1. m \in Nat /\ Max(T) \in Nat /\ Max(T) >= m
    BY <1>4
  <2> QED BY <2>1
<1> QED BY <1>4, <1>5

(* The oldest of the logs that are left.                                    *)
LEMMA SmallestNumber ==
  ASSUME NEW T, T \subseteq Nat, T # {}
  PROVE  Min(T) \in T
BY LeastNumber DEF Min

(* The last of k + 1 edits deletes and adds files.                          *)
LEMMA FilesStep ==
  ASSUME NEW recs, NEW L \in Nat
  PROVE  FilesUpTo(recs, L + 1) =
           (FilesUpTo(recs, L) \ recs[L + 1].del) \union recs[L + 1].add
<1> DEFINE e == recs[L + 1]
<1>1. \A i \in 1..(L + 1) : i \in 1..L \/ i = L + 1
  OBVIOUS
<1>2. 1..L \subseteq 1..(L + 1) /\ L + 1 \in 1..(L + 1)
  OBVIOUS
<1>3. \A i \in 1..L : L + 1 > i /\ ~(i > L + 1)
  OBVIOUS
<1>4. ASSUME NEW n
      PROVE  n \in FilesUpTo(recs, L + 1) <=>
               n \in (FilesUpTo(recs, L) \ e.del) \union e.add
  <2>1. n \in FilesUpTo(recs, L + 1) <=>
          \E i \in 1..(L + 1) : /\ n \in recs[i].add
                                /\ \A j \in 1..(L + 1) :
                                     j > i => n \notin recs[j].del
    BY DEF FilesUpTo
  <2>2. n \in FilesUpTo(recs, L) <=>
          \E i \in 1..L : /\ n \in recs[i].add
                          /\ \A j \in 1..L : j > i => n \notin recs[j].del
    BY DEF FilesUpTo
  <2>3. ASSUME n \in FilesUpTo(recs, L + 1)
        PROVE  n \in (FilesUpTo(recs, L) \ e.del) \union e.add
    <3>1. PICK i \in 1..(L + 1) : /\ n \in recs[i].add
                                  /\ \A j \in 1..(L + 1) :
                                       j > i => n \notin recs[j].del
      BY <2>1, <2>3
    <3>2. CASE i = L + 1
      BY <3>1, <3>2
    <3>3. CASE i \in 1..L
      BY <1>2, <1>3, <2>2, <3>1, <3>3
    <3> QED BY <1>1, <3>2, <3>3
  <2>4. ASSUME n \in FilesUpTo(recs, L) \ e.del PROVE n \in FilesUpTo(recs, L + 1)
    <3>1. PICK i \in 1..L : /\ n \in recs[i].add
                            /\ \A j \in 1..L : j > i => n \notin recs[j].del
      BY <2>2, <2>4
    <3>2. \A j \in 1..(L + 1) : j > i => n \notin recs[j].del
      BY <1>1, <2>4, <3>1
    <3> QED BY <1>2, <2>1, <3>1, <3>2
  <2>5. ASSUME n \in e.add PROVE n \in FilesUpTo(recs, L + 1)
    <3>1. \A j \in 1..(L + 1) : ~(j > L + 1)
      OBVIOUS
    <3> QED BY <1>2, <2>1, <2>5, <3>1
  <2> QED BY <2>3, <2>4, <2>5
<1> QED BY <1>4

(* Appending an edit to a MANIFEST.                                         *)
LEMMA FilesAppend ==
  ASSUME NEW recs \in Seq(Edits), NEW e \in Edits
  PROVE  /\ Append(recs, e) \in Seq(Edits)
         /\ Len(Append(recs, e)) = Len(recs) + 1
         /\ Append(recs, e)[Len(recs) + 1] = e
         /\ \A k \in 1..Len(recs) : /\ Append(recs, e)[k] = recs[k]
                                    /\ FilesUpTo(Append(recs, e), k) =
                                         FilesUpTo(recs, k)
<1>1. /\ Append(recs, e) \in Seq(Edits)
      /\ Len(Append(recs, e)) = Len(recs) + 1
      /\ Append(recs, e)[Len(recs) + 1] = e
  OBVIOUS
<1>2. \A k \in 1..Len(recs) : Append(recs, e)[k] = recs[k]
  OBVIOUS
<1>3. ASSUME NEW k \in 1..Len(recs)
      PROVE  FilesUpTo(Append(recs, e), k) = FilesUpTo(recs, k)
  <2>1. \A i \in 1..k : Append(recs, e)[i] = recs[i]
    BY <1>2
  <2> QED BY <2>1 DEF FilesUpTo
<1> QED BY <1>1, <1>2, <1>3

(* A MANIFEST of which k edits are left describes what they left before.    *)
LEMMA FilesPrefix ==
  ASSUME NEW recs \in Seq(Edits), NEW k \in 0..Len(recs)
  PROVE  /\ SubSeq(recs, 1, k) \in Seq(Edits) /\ Len(SubSeq(recs, 1, k)) = k
         /\ \A i \in 1..k : SubSeq(recs, 1, k)[i] = recs[i]
         /\ FilesUpTo(SubSeq(recs, 1, k), k) = FilesUpTo(recs, k)
<1>1. /\ SubSeq(recs, 1, k) \in Seq(Edits) /\ Len(SubSeq(recs, 1, k)) = k
      /\ \A i \in 1..k : SubSeq(recs, 1, k)[i] = recs[i]
  OBVIOUS
<1> QED BY <1>1 DEF FilesUpTo

(* VersionSet::Recover computes what the invariant calls FilesUpTo, and     *)
(* takes the numbers of the last edit.                                      *)
LEMMA ManifestRead ==
  ASSUME NEW recs \in Seq(Edits), Len(recs) > 0, recs[Len(recs)].log # None
  PROVE  /\ ManifestFiles(recs) = FilesUpTo(recs, Len(recs))
         /\ LastEdit(recs) = recs[Len(recs)]
<1>1. DOMAIN recs = 1..Len(recs) /\ Len(recs) \in Nat
  OBVIOUS
<1>2. ManifestFiles(recs) = FilesUpTo(recs, Len(recs))
  BY <1>1 DEF ManifestFiles, FilesUpTo
<1> DEFINE S == {i \in DOMAIN recs : recs[i].log # None}
<1>3. S \subseteq Nat /\ Len(recs) \in S /\ \A i \in S : i <= Len(recs)
  BY <1>1
<1> HIDE DEF S
<1>4. S # {}
  BY <1>3
<1>4a. Max(S) \in S /\ \A m \in S : m <= Max(S)
  BY <1>1, <1>3, <1>4, LargestNumber
<1>5. Max(S) = Len(recs)
  <2>1. Max(S) \in Nat /\ Len(recs) <= Max(S) /\ Max(S) <= Len(recs)
    BY <1>3, <1>4a
  <2> QED BY <1>1, <2>1
<1>6. LastEdit(recs) = recs[Max(S)]
  BY DEF LastEdit, S
<1> QED BY <1>2, <1>5, <1>6

-----------------------------------------------------------------------------
(* What changes of the directory do to what an Open would find. *)

(* Logs that are new and empty, or too old, do not matter.                  *)
LEMMA LoggedSame ==
  ASSUME NEW lg, NEW lg2, NEW n,
         \A m \in From(lg, n) : m \in DOMAIN lg2 /\ lg2[m] = lg[m],
         \A m \in From(lg2, n) : m \in DOMAIN lg \/ lg2[m] = EmptyFile
  PROVE  /\ Logged(lg2, n) = Logged(lg, n)
         /\ SyncedLogged(lg2, n) = SyncedLogged(lg, n)
<1>1. LogEntries(EmptyFile) = {} /\ SyncedEntries(EmptyFile) = {}
  BY DEF EmptyFile, LogEntries, SyncedEntries
<1>2. From(lg, n) \subseteq From(lg2, n)
  BY DEF From
<1>3. \A m \in From(lg2, n) : m \in From(lg, n) \/ lg2[m] = EmptyFile
  BY DEF From
<1> QED BY <1>1, <1>2, <1>3 DEF Logged, SyncedLogged

(* Tables outside F do not matter, nor do logs that change nothing.         *)
LEMMA SoundFrame ==
  ASSUME NEW lg, NEW tb, NEW ak, NEW sy, NEW gn, NEW F, NEW n,
         Sound(lg, tb, ak, sy, gn, F, n),
         NEW lg2, NEW tb2, NEW ak2,
         Logged(lg2, n) = Logged(lg, n),
         SyncedLogged(lg, n) \subseteq SyncedLogged(lg2, n),
         F \subseteq DOMAIN tb2, \A m \in F : tb2[m] = tb[m],
         ak2 \subseteq ak
  PROVE  /\ Sound(lg2, tb2, ak2, sy, gn, F, n)
         /\ Stored(tb2, F) = Stored(tb, F)
         /\ Found(lg2, tb2, F, n) = Found(lg, tb, F, n)
<1>1. Stored(tb2, F) = Stored(tb, F)
  BY DEF Stored
<1>2. Found(lg2, tb2, F, n) = Found(lg, tb, F, n)
  BY <1>1 DEF Found
<1>3. ak2 \intersect sy \subseteq Ids(Stored(tb2, F) \union SyncedLogged(lg2, n))
  BY <1>1 DEF Sound, Ids
<1> QED BY <1>1, <1>2, <1>3 DEF Sound

(* A stop of the machine: every log keeps its synced records.               *)
LEMMA SoundAfterCrash ==
  ASSUME NEW lg, NEW tb, NEW ak, NEW sy, NEW gn, NEW F, NEW n,
         Sound(lg, tb, ak, sy, gn, F, n),
         NEW lg2,
         Logged(lg2, n) \subseteq Logged(lg, n),
         SyncedLogged(lg, n) \subseteq SyncedLogged(lg2, n),
         SyncedLogged(lg2, n) \subseteq Logged(lg2, n)
  PROVE  Sound(lg2, tb, ak \intersect sy, sy, gn, F, n)
<1>1. Found(lg2, tb, F, n) \subseteq Found(lg, tb, F, n)
  BY DEF Found
<1>2. ak \intersect sy \subseteq Ids(Stored(tb, F) \union SyncedLogged(lg2, n))
  BY DEF Sound, Ids
<1>3. ak \intersect sy \subseteq Ids(Found(lg2, tb, F, n))
  BY <1>2 DEF Ids, Found
<1>4. gn \intersect Ids(Found(lg2, tb, F, n)) = {}
  BY <1>1 DEF Sound, Ids
<1>5. Stored(tb, F) \intersect Logged(lg2, n) = {}
  BY DEF Sound
<1>6. \A e, x \in Found(lg2, tb, F, n) : e.s = x.s \/ e.id = x.id => e = x
  BY <1>1 DEF Sound
<1> QED BY <1>2, <1>3, <1>4, <1>5, <1>6 DEF Sound

(* A record with a new identity and a new sequence number.                  *)
LEMMA SoundAfterWrite ==
  ASSUME NEW lg, NEW tb, NEW ak, NEW sy, NEW gn, NEW F, NEW n,
         Sound(lg, tb, ak, sy, gn, F, n),
         NEW lg2, NEW e, NEW ak2,
         Logged(lg2, n) = Logged(lg, n) \union {e},
         SyncedLogged(lg, n) \subseteq SyncedLogged(lg2, n),
         \A x \in Found(lg, tb, F, n) : x.s # e.s /\ x.id # e.id,
         e.id \notin gn, e.id \notin sy, ak2 \subseteq ak \union {e.id}
  PROVE  Sound(lg2, tb, ak2, sy, gn, F, n)
<1>1. Found(lg2, tb, F, n) = Found(lg, tb, F, n) \union {e}
  BY DEF Found
<1>2. Ids(Found(lg2, tb, F, n)) = Ids(Found(lg, tb, F, n)) \union {e.id}
  BY <1>1 DEF Ids
<1>3. ak2 \subseteq Ids(Found(lg2, tb, F, n))
  BY <1>2 DEF Sound
<1>4. ak2 \intersect sy \subseteq ak \intersect sy
  OBVIOUS
<1>5. ak2 \intersect sy \subseteq Ids(Stored(tb, F) \union SyncedLogged(lg2, n))
  BY <1>4 DEF Sound, Ids
<1>6. gn \intersect Ids(Found(lg2, tb, F, n)) = {}
  BY <1>2 DEF Sound
<1>7. e \notin Found(lg, tb, F, n)
  OBVIOUS
<1>8. Stored(tb, F) \intersect Logged(lg2, n) = {}
  BY <1>7 DEF Sound, Found
<1>9. \A y, x \in Found(lg2, tb, F, n) : y.s = x.s \/ y.id = x.id => y = x
  BY <1>1 DEF Sound
<1> QED BY <1>3, <1>5, <1>6, <1>8, <1>9 DEF Sound

(* Sync has returned and the update w is acknowledged.                      *)
LEMMA SoundAfterSync ==
  ASSUME NEW lg, NEW tb, NEW ak, NEW sy, NEW gn, NEW F, NEW n,
         Sound(lg, tb, ak, sy, gn, F, n),
         NEW lg2, NEW w,
         Logged(lg2, n) = Logged(lg, n),
         SyncedLogged(lg, n) \subseteq SyncedLogged(lg2, n),
         SyncedLogged(lg2, n) \subseteq Logged(lg2, n),
         w \in Ids(SyncedLogged(lg2, n)), w \notin ak
  PROVE  Sound(lg2, tb, ak \union {w}, sy \union {w}, gn, F, n)
<1>1. Found(lg2, tb, F, n) = Found(lg, tb, F, n)
  BY DEF Found
<1>2. w \in Ids(Found(lg2, tb, F, n))
  BY DEF Ids, Found
<1>3. ak \union {w} \subseteq Ids(Found(lg2, tb, F, n))
  BY <1>1, <1>2 DEF Sound
<1>4. (ak \union {w}) \intersect (sy \union {w}) \subseteq (ak \intersect sy) \union {w}
  OBVIOUS
<1>5. (ak \union {w}) \intersect (sy \union {w})
        \subseteq Ids(Stored(tb, F) \union SyncedLogged(lg2, n))
  BY <1>4 DEF Sound, Ids
<1> QED BY <1>1, <1>3, <1>5 DEF Sound

(* Tables A that hold what the logs before m hold take their place: a flush *)
(* or the replay of logs.                                                   *)
LEMMA SoundAfterMove ==
  ASSUME NEW lg, NEW tb, NEW ak, NEW sy, NEW gn, NEW F, NEW n,
         Sound(lg, tb, ak, sy, gn, F, n),
         NEW A, NEW m,
         A \subseteq DOMAIN tb, A \intersect F = {},
         \A a, b \in A : a # b => tb[a] \intersect tb[b] = {},
         Logged(lg, n) = Stored(tb, A) \union Logged(lg, m),
         Stored(tb, A) \intersect Logged(lg, m) = {},
         SyncedLogged(lg, n) \subseteq Stored(tb, A) \union SyncedLogged(lg, m)
  PROVE  /\ Sound(lg, tb, ak, sy, gn, F \union A, m)
         /\ Found(lg, tb, F \union A, m) = Found(lg, tb, F, n)
<1>1. Stored(tb, F \union A) = Stored(tb, F) \union Stored(tb, A)
  BY DEF Stored
<1>2. Found(lg, tb, F \union A, m) = Found(lg, tb, F, n)
  BY <1>1 DEF Found
<1>3. ak \intersect sy
        \subseteq Ids(Stored(tb, F \union A) \union SyncedLogged(lg, m))
  BY <1>1 DEF Sound, Ids
<1>4. ASSUME NEW a \in F \union A, NEW b \in F \union A, a # b
      PROVE  tb[a] \intersect tb[b] = {}
  <2>1. CASE a \in F /\ b \in F
    BY <1>4, <2>1 DEF Sound
  <2>2. CASE a \in A /\ b \in A
    BY <1>4, <2>2
  <2>3. CASE a \in F /\ b \in A
    BY <2>3 DEF Sound, Stored
  <2>4. CASE a \in A /\ b \in F
    BY <2>4 DEF Sound, Stored
  <2> QED BY <2>1, <2>2, <2>3, <2>4
<1>5. Stored(tb, F \union A) \intersect Logged(lg, m) = {}
  BY <1>1 DEF Sound
<1> QED BY <1>2, <1>3, <1>4, <1>5 DEF Sound

(* A compaction replaces the tables D by A, and may drop entries of D that   *)
(* nobody will miss; they are gone then.                                    *)
LEMMA SoundAfterCompaction ==
  ASSUME NEW lg, NEW tb, NEW ak, NEW sy, NEW gn, NEW F, NEW n,
         Sound(lg, tb, ak, sy, gn, F, n),
         NEW D, D \subseteq F,
         NEW A, A \subseteq DOMAIN tb, \A a, b \in A : a = b,
         Stored(tb, A) \subseteq Stored(tb, D),
         ak \intersect Ids(Stored(tb, D)) \subseteq Ids(Stored(tb, A)),
         NEW gn2, gn2 \subseteq gn \union Ids(Stored(tb, D) \ Stored(tb, A))
  PROVE  /\ Sound(lg, tb, ak, sy, gn2, (F \ D) \union A, n)
         /\ Found(lg, tb, (F \ D) \union A, n) \subseteq Found(lg, tb, F, n)
<1> DEFINE G == (F \ D) \union A
<1>1. /\ Stored(tb, G) = Stored(tb, F \ D) \union Stored(tb, A)
      /\ Stored(tb, F) = Stored(tb, F \ D) \union Stored(tb, D)
  BY DEF Stored
<1>2. Stored(tb, F \ D) \intersect Stored(tb, D) = {}
  BY DEF Sound, Stored
<1> HIDE DEF G
<1>3. Stored(tb, G) \subseteq Stored(tb, F)
  BY <1>1
<1>4. Found(lg, tb, G, n) \subseteq Found(lg, tb, F, n)
  BY <1>3 DEF Found
<1>5. ASSUME NEW x \in ak PROVE x \in Ids(Found(lg, tb, G, n))
  <2>1. CASE x \in Ids(Stored(tb, D))
    <3>1. x \in Ids(Stored(tb, A))
      BY <2>1
    <3> QED BY <1>1, <3>1 DEF Ids, Found
  <2>2. CASE x \notin Ids(Stored(tb, D))
    <3>1. PICK e \in Found(lg, tb, F, n) : e.id = x
      BY DEF Sound, Ids
    <3>2. e \notin Stored(tb, D)
      BY <2>2, <3>1 DEF Ids
    <3>3. e \in Found(lg, tb, G, n)
      BY <1>1, <3>1, <3>2 DEF Found
    <3> QED BY <3>1, <3>3 DEF Ids
  <2> QED BY <2>1, <2>2
<1>6. ASSUME NEW x \in ak \intersect sy
      PROVE  x \in Ids(Stored(tb, G) \union SyncedLogged(lg, n))
  <2>1. CASE x \in Ids(Stored(tb, D))
    <3>1. x \in Ids(Stored(tb, A))
      BY <2>1
    <3> QED BY <1>1, <3>1 DEF Ids
  <2>2. CASE x \notin Ids(Stored(tb, D))
    <3>1. PICK e \in Stored(tb, F) \union SyncedLogged(lg, n) : e.id = x
      BY DEF Sound, Ids
    <3>2. e \notin Stored(tb, D)
      BY <2>2, <3>1 DEF Ids
    <3>3. e \in Stored(tb, G) \union SyncedLogged(lg, n)
      BY <1>1, <3>1, <3>2
    <3> QED BY <3>1, <3>3 DEF Ids
  <2> QED BY <2>1, <2>2
<1>7. ASSUME NEW x \in gn2, x \in Ids(Found(lg, tb, G, n)) PROVE FALSE
  <2>1. PICK e \in Found(lg, tb, G, n) : e.id = x
    BY <1>7 DEF Ids
  <2>2. x \notin gn
    BY <1>4, <2>1 DEF Sound, Ids
  <2>3. PICK d \in Stored(tb, D) \ Stored(tb, A) : d.id = x
    BY <2>2 DEF Ids
  <2>4. d \in Found(lg, tb, F, n) /\ e \in Found(lg, tb, F, n)
    BY <1>1, <1>4, <2>1, <2>3 DEF Found
  <2>5. d = e
    BY <2>1, <2>3, <2>4 DEF Sound
  <2>6. d \in Stored(tb, F)
    BY <1>1, <2>3
  <2>7. d \notin Logged(lg, n)
    BY <2>6 DEF Sound
  <2>8. d \in Stored(tb, F \ D)
    BY <1>1, <2>1, <2>3, <2>5, <2>7 DEF Found
  <2> QED BY <1>2, <2>3, <2>8
<1>8. ASSUME NEW a \in G, NEW b \in G, a # b PROVE tb[a] \intersect tb[b] = {}
  <2>1. CASE a \in F \ D /\ b \in F \ D
    BY <1>8, <2>1 DEF Sound
  <2>2. CASE a \in F \ D /\ b \in A
    BY <1>2, <2>2 DEF Stored
  <2>3. CASE a \in A /\ b \in F \ D
    BY <1>2, <2>3 DEF Stored
  <2> QED BY <1>8, <2>1, <2>2, <2>3 DEF G
<1>9. G \subseteq DOMAIN tb
  BY DEF G, Sound
<1>10. Stored(tb, G) \intersect Logged(lg, n) = {}
  BY <1>3 DEF Sound
<1>11. \A e, x \in Found(lg, tb, G, n) : e.s = x.s \/ e.id = x.id => e = x
  BY <1>4 DEF Sound
<1>12. /\ ak \subseteq Ids(Found(lg, tb, G, n))
       /\ ak \intersect sy \subseteq Ids(Stored(tb, G) \union SyncedLogged(lg, n))
       /\ gn2 \intersect Ids(Found(lg, tb, G, n)) = {}
  BY <1>5, <1>6, <1>7
<1>13. Sound(lg, tb, ak, sy, gn2, G, n)
  BY <1>8, <1>9, <1>10, <1>11, <1>12 DEF Sound
<1> QED BY <1>4, <1>13 DEF G

-----------------------------------------------------------------------------
(* What the invariant says of a database that is open. *)

(* The MANIFEST that CURRENT names.                                         *)
LEMMA CurrentManifest ==
  ASSUME Inv, current # 0
  PROVE  LET M == manifests[current]
         IN  /\ current \in DOMAIN manifests
             /\ M.recs \in Seq(Edits) /\ Len(M.recs) \in Nat
             /\ M.synced \in 1..Len(M.recs) /\ M.synced \in Nat
             /\ Len(M.recs) \in M.synced..Len(M.recs)
             /\ \A k \in M.synced..Len(M.recs) : PrefixInv(k) /\ k \in 1..Len(M.recs)
<1>1. /\ current \in DOMAIN manifests
      /\ manifests[current].synced > 0
      /\ \A k \in manifests[current].synced..Len(manifests[current].recs) :
            PrefixInv(k)
  BY DEF Inv, DirInv
<1>2. /\ manifests[current].recs \in Seq(Edits)
      /\ manifests[current].synced \in 0..Len(manifests[current].recs)
  BY <1>1 DEF Inv, TypeInv
<1>3. Len(manifests[current].recs) \in Nat
  BY <1>2
<1>4. manifests[current].synced \in 1..Len(manifests[current].recs)
  BY <1>1, <1>2, <1>3
<1>5. \A k \in manifests[current].synced..Len(manifests[current].recs) :
        k \in 1..Len(manifests[current].recs)
  BY <1>3, <1>4
<1>6. Len(manifests[current].recs) \in
        manifests[current].synced..Len(manifests[current].recs)
  BY <1>3, <1>4
<1> QED BY <1>1, <1>2, <1>3, <1>4, <1>5, <1>6

(* The numbers a prefix of the MANIFEST gives.                              *)
LEMMA PrefixNumbers ==
  ASSUME Inv, current # 0,
         NEW k \in manifests[current].synced..Len(manifests[current].recs)
  PROVE  LET recs == manifests[current].recs
             F == FilesUpTo(recs, k)
         IN  /\ recs[k].log \in Nat /\ recs[k].last \in Nat /\ recs[k].next \in Nat
             /\ recs[k].last <= written
             /\ recs[k].log < recs[k].next /\ current < recs[k].next
             /\ \A n \in F : n \in Nat /\ n < recs[k].next /\ n \in DOMAIN tables
             /\ recs[k].next <= recs[Len(recs)].next
             /\ recs[Len(recs)].next \in Nat
             /\ \A e \in Stored(tables, F) : e \in Known
             /\ Sound(logs, tables, acked, synced, gone, F, recs[k].log)
<1>1. PrefixInv(k) /\ PrefixInv(Len(manifests[current].recs))
  BY CurrentManifest
<1>2. /\ DOMAIN tables \subseteq Nat /\ written \in Nat
      /\ \A n \in DOMAIN tables : tables[n] \subseteq Known
  BY DEF Inv, TypeInv
<1>3. FilesUpTo(manifests[current].recs, k) \subseteq DOMAIN tables
  BY <1>1 DEF PrefixInv, Sound
<1>4. \A e \in Stored(tables, FilesUpTo(manifests[current].recs, k)) : e \in Known
  BY <1>2, <1>3 DEF Stored
<1>5. manifests[current].recs[k].last \in 0..written
  BY <1>1 DEF PrefixInv
<1>6. /\ manifests[current].recs[k].last \in Nat
      /\ manifests[current].recs[k].last <= written
  BY <1>2, <1>5
<1> QED BY <1>1, <1>2, <1>3, <1>4, <1>6 DEF PrefixInv

(* An open database and its MANIFEST agree.                                 *)
LEMMA LiveFacts ==
  ASSUME Inv, Live
  PROVE  /\ current # 0 /\ vs.manifest = current
         /\ vs.log \in Nat /\ vs.next \in Nat /\ vs.last \in Nat /\ logfile \in Nat
         /\ vs.log \in DOMAIN logs /\ logfile \in DOMAIN logs
         /\ vs.log <= logfile /\ logfile < vs.next
         /\ \A n \in DOMAIN logs : n \in Nat /\ n <= logfile
         /\ current < vs.next
         /\ \A n \in vs.files : n \in DOMAIN tables /\ n \in Nat /\ n < vs.next
         /\ Sound(logs, tables, acked, synced, gone, vs.files, vs.log)
<1> DEFINE M == manifests[current]
<1>1. /\ current # 0 /\ vs.manifest = current
      /\ vs.files = FilesUpTo(M.recs, M.synced) /\ vs.log = M.recs[M.synced].log
      /\ M.recs[Len(M.recs)].next <= vs.next
      /\ From(logs, vs.log) = {vs.log, logfile}
      /\ vs.log <= logfile /\ logfile < vs.next
  BY DEF Inv, LiveInv
<1>2. vs.log \in Nat /\ vs.next \in Nat /\ vs.last \in Nat /\ logfile \in Nat
      /\ DOMAIN logs \subseteq Nat /\ current \in Nat
  BY DEF Inv, TypeInv
<1>3. vs.log \in DOMAIN logs /\ logfile \in DOMAIN logs
  BY <1>1 DEF From
<1>4. ASSUME NEW n \in DOMAIN logs PROVE n \in Nat /\ n <= logfile
  <2>1. n \in Nat
    BY <1>2
  <2>2. n >= vs.log => n \in {vs.log, logfile}
    BY <1>1 DEF From
  <2> QED BY <1>1, <1>2, <2>1, <2>2
<1>5. M.synced \in M.synced..Len(M.recs)
  BY <1>1, CurrentManifest
<1>6. /\ M.recs[M.synced].next \in Nat /\ M.recs[Len(M.recs)].next \in Nat
      /\ M.recs[M.synced].next <= M.recs[Len(M.recs)].next
      /\ current < M.recs[M.synced].next
      /\ \A n \in vs.files : n \in Nat /\ n < M.recs[M.synced].next
                                /\ n \in DOMAIN tables
      /\ Sound(logs, tables, acked, synced, gone, vs.files, vs.log)
  BY <1>1, <1>5, PrefixNumbers
<1> HIDE DEF M
<1>7. current < vs.next /\ \A n \in vs.files : n < vs.next
  BY <1>1, <1>2, <1>6
<1> QED BY <1>1, <1>2, <1>3, <1>4, <1>6, <1>7

(* The entries in the logs of an open database.                             *)
LEMMA LiveLogged ==
  ASSUME Inv, Live
  PROVE  /\ Logged(logs, vs.log) =
              LogEntries(logs[vs.log]) \union LogEntries(logs[logfile])
         /\ Logged(logs, logfile) = LogEntries(logs[logfile])
         /\ SyncedLogged(logs, logfile) = SyncedEntries(logs[logfile])
         /\ SyncedLogged(logs, vs.log) =
              SyncedEntries(logs[vs.log]) \union SyncedEntries(logs[logfile])
         /\ imm \union LogEntries(logs[logfile]) = Logged(logs, vs.log)
<1>1. From(logs, vs.log) = {vs.log, logfile}
  BY DEF Inv, LiveInv
<1>2. From(logs, logfile) = {logfile}
  <2>1. ASSUME NEW n \in DOMAIN logs, n >= logfile PROVE n = logfile
    BY <2>1, LiveFacts
  <2>2. logfile >= logfile
    BY LiveFacts
  <2> QED BY <2>1, <2>2, LiveFacts DEF From
<1>3. Logged(logs, vs.log) =
        LogEntries(logs[vs.log]) \union LogEntries(logs[logfile])
  BY <1>1 DEF Logged
<1>4. imm \union LogEntries(logs[logfile]) =
        LogEntries(logs[vs.log]) \union LogEntries(logs[logfile])
  <2>1. CASE hasImm
    BY <2>1 DEF Inv, LiveInv
  <2>2. CASE ~hasImm
    BY <2>2 DEF Inv, LiveInv
  <2> QED BY <2>1, <2>2
<1> QED BY <1>1, <1>2, <1>3, <1>4 DEF Logged, SyncedLogged

(* The synced records of a log are records of it.                           *)
LEMMA SyncedWithin ==
  ASSUME Inv
  PROVE  /\ \A n \in DOMAIN logs : SyncedEntries(logs[n]) \subseteq LogEntries(logs[n])
         /\ \A n : SyncedLogged(logs, n) \subseteq Logged(logs, n)
<1>1. ASSUME NEW n \in DOMAIN logs
      PROVE  SyncedEntries(logs[n]) \subseteq LogEntries(logs[n])
  <2>1. logs[n].synced \in 0..Len(logs[n].recs) /\ Len(logs[n].recs) \in Nat
    BY DEF Inv, TypeInv
  <2>2. 1..logs[n].synced \subseteq 1..Len(logs[n].recs)
    BY <2>1
  <2> QED BY <2>2 DEF SyncedEntries, LogEntries
<1> QED BY <1>1 DEF SyncedLogged, Logged, From

(* Everything found has a known identity; in an open database, what Get     *)
(* can find is what an Open would find, but for an update being synced.     *)
LEMMA LiveContents ==
  ASSUME Inv, Live
  PROVE  /\ \A e \in Found(logs, tables, vs.files, vs.log) : e \in Known
         /\ Contents = mem \union imm \union Stored(tables, vs.files)
         /\ Contents \subseteq Found(logs, tables, vs.files, vs.log)
         /\ \A e \in Contents : e.s <= vs.last
         /\ pc # "syncing" => Contents = Found(logs, tables, vs.files, vs.log)
         /\ pc = "syncing" => Found(logs, tables, vs.files, vs.log) =
                                Contents \union {Entry(written, vs.last + 1)}
<1>1. vs.files \subseteq DOMAIN tables
  BY LiveFacts
<1>2. vs.files \intersect DOMAIN tables = vs.files
  BY <1>1
<1>3. Contents = mem \union imm \union Stored(tables, vs.files)
  BY <1>2 DEF Contents, TableEntries, Stored
<1>4. ASSUME NEW e \in Found(logs, tables, vs.files, vs.log) PROVE e \in Known
  <2>1. e \in Stored(tables, vs.files) \/ e \in Logged(logs, vs.log)
    BY DEF Found
  <2>2. CASE e \in Stored(tables, vs.files)
    BY <1>1, <2>2 DEF Inv, TypeInv, Stored
  <2>3. CASE e \in Logged(logs, vs.log)
    BY <2>3 DEF Inv, TypeInv, Logged, From
  <2> QED BY <2>1, <2>2, <2>3
<1>5. Logged(logs, vs.log) = imm \union LogEntries(logs[logfile])
  BY LiveLogged
<1>6. \A e \in Contents : e.s <= vs.last
  BY <1>3 DEF Inv, LiveInv
<1>7. pc # "syncing" => Contents = Found(logs, tables, vs.files, vs.log)
  <2> SUFFICES ASSUME pc # "syncing"
               PROVE  Contents = Found(logs, tables, vs.files, vs.log)
    OBVIOUS
  <2>1. mem = LogEntries(logs[logfile])
    BY DEF Inv, LiveInv
  <2> QED BY <1>3, <1>5, <2>1 DEF Found
<1>8. pc = "syncing" => Found(logs, tables, vs.files, vs.log) =
                                Contents \union {Entry(written, vs.last + 1)}
  <2> SUFFICES ASSUME pc = "syncing"
               PROVE  Found(logs, tables, vs.files, vs.log) =
                        Contents \union {Entry(written, vs.last + 1)}
    OBVIOUS
  <2>1. LogEntries(logs[logfile]) = mem \union {Entry(written, vs.last + 1)}
    BY DEF Inv, LiveInv
  <2> QED BY <1>3, <1>5, <2>1 DEF Found
<1>9. Contents \subseteq Found(logs, tables, vs.files, vs.log)
  BY <1>7, <1>8
<1> QED BY <1>3, <1>4, <1>6, <1>7, <1>8, <1>9

(* The edit a background thread is about to commit describes a version that *)
(* finds nothing the present one does not find.                             *)
Target == (vs.files \ edit.del) \union edit.add
TargetLog == IF edit.log = None THEN vs.log ELSE edit.log

LEMMA TargetSound ==
  ASSUME Inv, Live
  PROVE  /\ Sound(logs, tables, acked, synced, gone, Target, TargetLog)
         /\ Found(logs, tables, Target, TargetLog)
              \subseteq Found(logs, tables, vs.files, vs.log)
         /\ TargetLog \in {vs.log, logfile}
         /\ \A n \in Target : n < vs.next
         /\ \A e \in Stored(tables, Target) : e.s <= vs.last
<1>1. Sound(logs, tables, acked, synced, gone, vs.files, vs.log)
  BY LiveFacts
<1>2. vs.log \in Nat /\ logfile \in Nat /\ None \notin Nat
  BY LiveFacts DEF None
<1>3. \A e \in mem \union imm \union Stored(tables, vs.files) : e.s <= vs.last
  BY DEF Inv, LiveInv
<1>4. \A n \in vs.files : n < vs.next
  BY LiveFacts
<1>5. CASE bg = "idle"
  <2>1. edit = NoEdit
    BY <1>5 DEF Inv, BackgroundInv
  <2>2. Target = vs.files /\ TargetLog = vs.log
    BY <2>1 DEF NoEdit, Target, TargetLog
  <2> QED BY <1>1, <1>3, <1>4, <2>2
<1>6. CASE bg \in {"flush", "flushlog"}
  <2>1. /\ hasImm /\ edit.log = logfile /\ edit.del = {}
        /\ Stored(tables, edit.add) = imm
        /\ edit.add \subseteq DOMAIN tables \ vs.files
        /\ \A n \in edit.add : n < vs.next
        /\ \A a, b \in edit.add : a = b
    BY <1>6 DEF Inv, BackgroundInv
  <2>2. Target = vs.files \union edit.add /\ TargetLog = logfile
    BY <1>2, <2>1 DEF Target, TargetLog
  <2>3. imm = LogEntries(logs[vs.log]) /\ vs.log # logfile
    BY <2>1 DEF Inv, LiveInv
  <2>4. Logged(logs, vs.log) = Stored(tables, edit.add) \union Logged(logs, logfile)
    BY <2>1, <2>3, LiveLogged
  <2>5. Stored(tables, edit.add) \intersect Logged(logs, logfile) = {}
    <3>1. vs.log \in DOMAIN logs /\ logfile \in DOMAIN logs
      BY LiveFacts
    <3>2. LogEntries(logs[vs.log]) \intersect LogEntries(logs[logfile]) = {}
      BY <2>3, <3>1 DEF Inv, LogsInv
    <3> QED BY <2>1, <2>3, <3>2, LiveLogged
  <2>6. SyncedLogged(logs, vs.log) \subseteq
          Stored(tables, edit.add) \union SyncedLogged(logs, logfile)
    BY <2>1, <2>3, LiveLogged, LiveFacts, SyncedWithin
  <2>7. /\ Sound(logs, tables, acked, synced, gone, vs.files \union edit.add, logfile)
        /\ Found(logs, tables, vs.files \union edit.add, logfile) =
             Found(logs, tables, vs.files, vs.log)
    <3>1. edit.add \subseteq DOMAIN tables /\ edit.add \intersect vs.files = {}
      BY <2>1
    <3> QED BY <1>1, <2>1, <2>4, <2>5, <2>6, <3>1, SoundAfterMove
  <2>8. Stored(tables, vs.files \union edit.add) = Stored(tables, vs.files) \union imm
    BY <2>1 DEF Stored
  <2> QED BY <1>3, <1>4, <2>1, <2>2, <2>7, <2>8
<1>7. CASE bg \in {"compact", "compactlog"}
  <2>1. /\ edit.log \in {None, vs.log} /\ edit.del \subseteq vs.files
        /\ Stored(tables, edit.add) \subseteq Stored(tables, edit.del)
        /\ acked \intersect Ids(Stored(tables, edit.del))
             \subseteq Ids(Stored(tables, edit.add))
        /\ edit.add \subseteq DOMAIN tables \ vs.files
        /\ \A n \in edit.add : n < vs.next
        /\ \A a, b \in edit.add : a = b
    BY <1>7 DEF Inv, BackgroundInv
  <2>2. TargetLog = vs.log
    BY <2>1 DEF TargetLog
  <2>3. /\ Sound(logs, tables, acked, synced, gone, Target, vs.log)
        /\ Found(logs, tables, Target, vs.log)
             \subseteq Found(logs, tables, vs.files, vs.log)
    <3>1. edit.add \subseteq DOMAIN tables
      BY <2>1
    <3>2. gone \subseteq gone \union Ids(Stored(tables, edit.del) \ Stored(tables, edit.add))
      OBVIOUS
    <3>3. /\ edit.del \subseteq vs.files /\ \A a, b \in edit.add : a = b
          /\ Stored(tables, edit.add) \subseteq Stored(tables, edit.del)
          /\ acked \intersect Ids(Stored(tables, edit.del))
               \subseteq Ids(Stored(tables, edit.add))
      BY <2>1
    <3>4. /\ Sound(logs, tables, acked, synced, gone,
                   (vs.files \ edit.del) \union edit.add, vs.log)
          /\ Found(logs, tables, (vs.files \ edit.del) \union edit.add, vs.log)
               \subseteq Found(logs, tables, vs.files, vs.log)
      BY ONLY <1>1, <3>1, <3>2, <3>3, SoundAfterCompaction
    <3> QED BY <3>4 DEF Target
  <2>4. Stored(tables, Target) \subseteq Stored(tables, vs.files)
    BY <2>1 DEF Stored, Target
  <2>5. \A n \in Target : n < vs.next
    BY <1>4, <2>1 DEF Target
  <2> QED BY <1>3, <2>2, <2>3, <2>4, <2>5
<1> QED BY <1>5, <1>6, <1>7 DEF Inv, IdleInv

(* So every prefix of the MANIFEST of an open database describes the        *)
(* present version or the one that is being committed.                      *)
LEMMA LivePrefix ==
  ASSUME Inv, Live,
         NEW k \in manifests[current].synced..Len(manifests[current].recs)
  PROVE  LET recs == manifests[current].recs
         IN  /\ \/ k = manifests[current].synced
                   /\ FilesUpTo(recs, k) = vs.files /\ recs[k].log = vs.log
                \/ k = Len(recs) /\ Logging
                   /\ FilesUpTo(recs, k) = Target /\ recs[k].log = TargetLog
             /\ recs[k].log \in {vs.log, logfile}
             /\ recs[k].next <= vs.next
             /\ \A n \in FilesUpTo(recs, k) : n < vs.next
             /\ Found(logs, tables, FilesUpTo(recs, k), recs[k].log)
                  \subseteq Found(logs, tables, vs.files, vs.log)
<1> DEFINE M == manifests[current]
           L == Len(M.recs)
<1>1. /\ current # 0
      /\ M.synced = IF Logging THEN L - 1 ELSE L
      /\ vs.files = FilesUpTo(M.recs, M.synced) /\ vs.log = M.recs[M.synced].log
      /\ M.recs[L].next <= vs.next
  BY DEF Inv, LiveInv
<1>2. L \in Nat /\ M.synced \in 1..L /\ M.synced \in Nat
  BY <1>1, CurrentManifest
<1>3. /\ M.recs[k].next <= M.recs[L].next
      /\ M.recs[k].next \in Nat /\ M.recs[L].next \in Nat
  BY <1>1, PrefixNumbers
<1>4. M.recs[k].next <= vs.next
  <2>1. vs.next \in Nat
    BY LiveFacts
  <2> HIDE DEF M, L
  <2> QED BY <1>1, <1>3, <2>1
<1>5. CASE k = M.synced
  BY <1>1, <1>4, <1>5, LiveFacts
<1>6. CASE k # M.synced
  <2>1. Logging /\ k = L /\ L = M.synced + 1
    BY <1>1, <1>2, <1>6
  <2>2. edit = M.recs[L]
    BY <2>1 DEF Inv, BackgroundInv
  <2>3. FilesUpTo(M.recs, L) = Target
    <3>1. FilesUpTo(M.recs, M.synced + 1) =
            (FilesUpTo(M.recs, M.synced) \ M.recs[M.synced + 1].del)
              \union M.recs[M.synced + 1].add
      BY <1>2, FilesStep
    <3> QED BY <1>1, <2>1, <2>2, <3>1 DEF Target
  <2>4. edit.log # None
    BY <1>1, <2>1, <2>2, PrefixNumbers DEF None
  <2>5. M.recs[L].log = TargetLog
    BY <2>2, <2>4 DEF TargetLog
  <2> QED BY <1>4, <2>1, <2>3, <2>5, TargetSound
<1> QED BY <1>5, <1>6

-----------------------------------------------------------------------------
(* Steps that leave the MANIFEST that CURRENT names alone. *)

(* AddRecord and Sync on a file.                                            *)
LEMMA FileOperations ==
  ASSUME NEW f, f = [recs |-> f.recs, synced |-> f.synced], NEW r
  PROVE  /\ AddRecord(f, r) = [recs |-> Append(f.recs, r), synced |-> f.synced]
         /\ Sync(f) = [recs |-> f.recs, synced |-> Len(f.recs)]
<1>1. PICK rs, n : f = [recs |-> rs, synced |-> n]
  OBVIOUS
<1>2. f.recs = rs /\ f.synced = n
  BY <1>1
<1>3. [f EXCEPT !.recs = Append(f.recs, r)] =
        [recs |-> Append(rs, r), synced |-> n]
  BY <1>1, <1>2
<1>4. [f EXCEPT !.synced = Len(f.recs)] = [recs |-> rs, synced |-> Len(rs)]
  BY <1>1, <1>2
<1> QED BY <1>2, <1>3, <1>4 DEF AddRecord, Sync

(* DirInv follows if every prefix is still right.                           *)
LEMMA DirFrame ==
  ASSUME Inv, current # 0, current' = current, current \in DOMAIN manifests',
         manifests'[current] = manifests[current],
         written' \in Nat, written <= written',
         \A k \in manifests[current].synced..Len(manifests[current].recs) :
           LET recs == manifests[current].recs
               F == FilesUpTo(recs, k)
           IN  /\ Stored(tables', F) = Stored(tables, F)
               /\ Sound(logs', tables', acked', synced', gone', F, recs[k].log)
  PROVE  DirInv'
<1>1. manifests'[current].synced > 0 /\ current' # 0
  BY DEF Inv, DirInv
<1>2. ASSUME NEW k \in manifests[current].synced..Len(manifests[current].recs)
      PROVE  PrefixInv(k)'
  <2>1. PrefixInv(k) /\ written \in Nat
    BY CurrentManifest DEF Inv, TypeInv
  <2>2. 0..written \subseteq 0..written'
    BY <2>1
  <2> QED BY <2>1, <2>2 DEF PrefixInv
<1> QED BY <1>1, <1>2 DEF DirInv

(* In particular if the tables and logs it names are still there.           *)
LEMMA DirKept ==
  ASSUME Inv, current # 0, current' = current, current \in DOMAIN manifests',
         manifests'[current] = manifests[current], written' = written,
         acked' \subseteq acked, synced' = synced, gone' = gone,
         \A k \in manifests[current].synced..Len(manifests[current].recs) :
           LET recs == manifests[current].recs
               F == FilesUpTo(recs, k)
           IN  /\ \A n \in F : n \in DOMAIN tables' /\ tables'[n] = tables[n]
               /\ \A n \in From(logs, recs[k].log) :
                    n \in DOMAIN logs' /\ logs'[n] = logs[n]
               /\ \A n \in From(logs', recs[k].log) :
                    n \in DOMAIN logs \/ logs'[n] = EmptyFile
  PROVE  DirInv'
<1>1. ASSUME NEW k \in manifests[current].synced..Len(manifests[current].recs)
      PROVE  LET recs == manifests[current].recs
                 F == FilesUpTo(recs, k)
             IN  /\ Stored(tables', F) = Stored(tables, F)
                 /\ Sound(logs', tables', acked', synced', gone', F, recs[k].log)
  <2> DEFINE F == FilesUpTo(manifests[current].recs, k)
             n == manifests[current].recs[k].log
  <2>1. Sound(logs, tables, acked, synced, gone, F, n)
    BY PrefixNumbers
  <2>2. F \subseteq DOMAIN tables' /\ \A m \in F : tables'[m] = tables[m]
    OBVIOUS
  <2>3. /\ \A m \in From(logs, n) : m \in DOMAIN logs' /\ logs'[m] = logs[m]
        /\ \A m \in From(logs', n) : m \in DOMAIN logs \/ logs'[m] = EmptyFile
    OBVIOUS
  <2> HIDE DEF F, n
  <2>4. /\ Logged(logs', n) = Logged(logs, n)
        /\ SyncedLogged(logs', n) = SyncedLogged(logs, n)
    BY ONLY <2>3, LoggedSame
  <2>5. /\ Sound(logs', tables', acked', synced, gone, F, n)
        /\ Stored(tables', F) = Stored(tables, F)
    <3>1. SyncedLogged(logs, n) \subseteq SyncedLogged(logs', n)
      BY <2>4
    <3>2. acked' \subseteq acked
      OBVIOUS
    <3> QED BY ONLY <2>1, <2>2, <2>4, <3>1, <3>2, SoundFrame
  <2>6. Sound(logs', tables', acked', synced', gone', F, n)
    BY <2>5
  <2> QED BY <2>5, <2>6 DEF F, n
<1>2. written' \in Nat /\ written <= written'
  BY DEF Inv, TypeInv
<1> QED BY <1>1, <1>2, DirFrame

(* Known does not change when written does not.                             *)
LEMMA KnownKept ==
  ASSUME written' = written
  PROVE  Known' = Known
BY DEF Known

(* The invariant holds of an empty directory.                               *)
LEMMA InitInv == Init => Inv
<1> SUFFICES ASSUME Init PROVE Inv
  OBVIOUS
<1>1. DOMAIN logs = {} /\ DOMAIN tables = {} /\ DOMAIN manifests = {}
  BY DEF Init
<1>2. vs \in [files : SUBSET Nat, log : Nat, next : Nat, manifest : Nat,
              last : Nat] /\ vs.last = 0
  BY DEF Init, NoVersions
<1>3. edit \in Edits
  BY DEF Init, NoEdit, Edits, None
<1>4. TypeInv
  <2>1. hasImm \in BOOLEAN
    BY DEF Init
  <2>2. /\ written \in Nat /\ current \in Nat /\ logfile \in Nat
        /\ vs.last <= written
        /\ mem \subseteq Known /\ imm \subseteq Known
        /\ acked \subseteq 1..written /\ synced \subseteq 1..written
        /\ gone \subseteq 1..written
    BY <1>2 DEF Init
  <2> QED BY <1>1, <1>2, <1>3, <2>1, <2>2 DEF TypeInv
<1>5. LogsInv
  BY <1>1 DEF LogsInv
<1>6. DirInv /\ OpeningInv /\ LiveInv /\ TrashInv /\ BackgroundInv
  BY <1>1 DEF Init, DirInv, OpeningInv, LiveInv, TrashInv, BackgroundInv,
              Opening, Live, Logging
<1>7. IdleInv
  BY DEF Init, IdleInv, Live
<1> QED BY <1>4, <1>5, <1>6, <1>7 DEF Inv

(* A process that has stopped has nothing in memory.                        *)
LEMMA StopInv ==
  ASSUME Inv, Stop
  PROVE  /\ IdleInv' /\ OpeningInv' /\ LiveInv' /\ TrashInv' /\ BackgroundInv'
         /\ current' = current /\ tables' = tables /\ written' = written
         /\ synced' = synced /\ gone' = gone /\ logfile' \in Nat
         /\ vs' \in [files : SUBSET Nat, log : Nat, next : Nat, manifest : Nat,
                     last : Nat]
         /\ vs'.last <= written' /\ edit' \in Edits /\ hasImm' \in BOOLEAN
         /\ mem' = {} /\ imm' = {}
<1>1. pc' = "down" /\ bg' = "idle" /\ trash' = {} /\ edit' = NoEdit
      /\ mem' = {} /\ imm' = {} /\ hasImm' = FALSE /\ vs' = NoVersions
      /\ logfile' = 0
  BY DEF Stop
<1>2. IdleInv'
  BY <1>1 DEF IdleInv, Live
<1>3. OpeningInv' /\ LiveInv' /\ TrashInv' /\ BackgroundInv'
  BY <1>1 DEF OpeningInv, LiveInv, TrashInv, BackgroundInv, Opening, Live,
              Logging
<1>4. edit' \in Edits
  BY <1>1 DEF NoEdit, Edits, None
<1>5. /\ vs' \in [files : SUBSET Nat, log : Nat, next : Nat, manifest : Nat,
                  last : Nat]
      /\ vs'.last = 0
  BY <1>1 DEF NoVersions
<1>6. written \in Nat
  BY DEF Inv, TypeInv
<1>7. /\ current' = current /\ tables' = tables /\ written' = written
      /\ synced' = synced /\ gone' = gone
  BY DEF Stop
<1>8. vs'.last <= written'
  BY <1>5, <1>6, <1>7
<1> QED BY <1>1, <1>2, <1>3, <1>4, <1>5, <1>7, <1>8

(* The process stops: the directory stays as it is.                         *)
LEMMA ProcessCrashInv ==
  ASSUME Inv, ProcessCrash
  PROVE  Inv'
<1>1. Stop /\ logs' = logs /\ manifests' = manifests /\ acked' = acked
  BY DEF ProcessCrash
<1>2. TypeInv'
  <2>1. Known' = Known
    BY <1>1, StopInv, KnownKept
  <2> QED BY <1>1, <2>1, StopInv DEF Inv, TypeInv
<1>3. LogsInv'
  BY <1>1 DEF Inv, LogsInv
<1>4. DirInv'
  <2>1. CASE current = 0
    <3>1. pc' = "down" /\ current' = current /\ gone' = gone
      BY <1>1 DEF Stop
    <3> QED BY <1>1, <2>1, <3>1 DEF Inv, DirInv
  <2>2. CASE current # 0
    BY <1>1, <2>2, StopInv DEF Inv, DirInv, PrefixInv
  <2> QED BY <2>1, <2>2
<1> QED BY <1>1, <1>2, <1>3, <1>4, StopInv DEF Inv

(* What a stopped machine leaves of a directory and of a file.              *)
LEMMA SurvivingFiles ==
  ASSUME NEW dir, NEW d \in Surviving(dir)
  PROVE  /\ DOMAIN d \subseteq DOMAIN dir
         /\ \A n \in DOMAIN dir \ DOMAIN d : dir[n].synced = 0
         /\ \A n \in DOMAIN d : d[n] \in Remains(dir[n])
<1>1. PICK S \in {T \in SUBSET DOMAIN dir :
                    \A n \in DOMAIN dir \ T : dir[n].synced = 0} :
        d \in {c \in [S -> UNION {Remains(dir[n]) : n \in S}] :
                 \A n \in S : c[n] \in Remains(dir[n])}
  BY DEF Surviving
<1> QED BY <1>1

(* What is left of a file is a prefix with at least its synced records.     *)
LEMMA RemainingRecords ==
  ASSUME NEW S, NEW f, f.recs \in Seq(S), f.synced \in 0..Len(f.recs),
         NEW r \in Remains(f)
  PROVE  /\ r = [recs |-> r.recs, synced |-> r.synced]
         /\ r.recs \in Seq(S) /\ r.synced = Len(r.recs) /\ r.synced \in Nat
         /\ r.synced \in f.synced..Len(f.recs)
         /\ r.recs = SubSeq(f.recs, 1, r.synced)
         /\ \A i \in 1..r.synced : i \in 1..Len(f.recs) /\ r.recs[i] = f.recs[i]
<1>1. PICK k \in f.synced..Len(f.recs) :
        r = [recs |-> SubSeq(f.recs, 1, k), synced |-> k]
  BY DEF Remains
<1>2. Len(f.recs) \in Nat
  OBVIOUS
<1>3. k \in 0..Len(f.recs) /\ k \in Nat
  BY <1>2
<1>4. /\ SubSeq(f.recs, 1, k) \in Seq(S) /\ Len(SubSeq(f.recs, 1, k)) = k
      /\ \A i \in 1..k : SubSeq(f.recs, 1, k)[i] = f.recs[i]
  BY <1>3
<1>5. 1..k \subseteq 1..Len(f.recs)
  BY <1>2, <1>3
<1>6. r.recs = SubSeq(f.recs, 1, k) /\ r.synced = k
  BY <1>1
<1> QED BY <1>1, <1>3, <1>4, <1>5, <1>6

(* Logs lose only records that were not synced.                             *)
LEMMA CrashedLogs ==
  ASSUME Inv, logs' \in Surviving(logs)
  PROVE  /\ DOMAIN logs' \subseteq DOMAIN logs
         /\ \A n \in DOMAIN logs' :
              /\ logs'[n] = [recs |-> logs'[n].recs, synced |-> logs'[n].synced]
              /\ logs'[n].recs \in Seq(Records)
              /\ logs'[n].synced = Len(logs'[n].recs)
              /\ Len(logs'[n].recs) \in Nat
              /\ \A i \in 1..Len(logs'[n].recs) :
                   /\ i \in 1..Len(logs[n].recs)
                   /\ logs'[n].recs[i] = logs[n].recs[i]
              /\ LogEntries(logs'[n]) \subseteq LogEntries(logs[n])
              /\ SyncedEntries(logs'[n]) = LogEntries(logs'[n])
         /\ \A n \in Nat :
              /\ Logged(logs', n) \subseteq Logged(logs, n)
              /\ SyncedLogged(logs, n) \subseteq SyncedLogged(logs', n)
              /\ SyncedLogged(logs', n) \subseteq Logged(logs', n)
<1>1. /\ DOMAIN logs' \subseteq DOMAIN logs
      /\ \A n \in DOMAIN logs \ DOMAIN logs' : logs[n].synced = 0
      /\ \A n \in DOMAIN logs' : logs'[n] \in Remains(logs[n])
  BY SurvivingFiles
<1>2. ASSUME NEW n \in DOMAIN logs'
      PROVE  /\ logs'[n] = [recs |-> logs'[n].recs, synced |-> logs'[n].synced]
             /\ logs'[n].recs \in Seq(Records)
             /\ logs'[n].synced = Len(logs'[n].recs)
             /\ Len(logs'[n].recs) \in Nat
             /\ \A i \in 1..Len(logs'[n].recs) :
                  /\ i \in 1..Len(logs[n].recs)
                  /\ logs'[n].recs[i] = logs[n].recs[i]
             /\ LogEntries(logs'[n]) \subseteq LogEntries(logs[n])
             /\ SyncedEntries(logs'[n]) = LogEntries(logs'[n])
             /\ SyncedEntries(logs[n]) \subseteq SyncedEntries(logs'[n])
  <2>1. /\ logs[n].recs \in Seq(Records)
        /\ logs[n].synced \in 0..Len(logs[n].recs)
        /\ logs'[n] \in Remains(logs[n])
    BY <1>1 DEF Inv, TypeInv
  <2>2. /\ logs'[n] = [recs |-> logs'[n].recs, synced |-> logs'[n].synced]
        /\ logs'[n].recs \in Seq(Records)
        /\ logs'[n].synced = Len(logs'[n].recs) /\ logs'[n].synced \in Nat
        /\ logs'[n].synced \in logs[n].synced..Len(logs[n].recs)
        /\ \A i \in 1..logs'[n].synced :
             i \in 1..Len(logs[n].recs) /\ logs'[n].recs[i] = logs[n].recs[i]
    <3>1. PICK f, r : f = logs[n] /\ r = logs'[n]
      OBVIOUS
    <3>2. f.recs \in Seq(Records) /\ f.synced \in 0..Len(f.recs) /\ r \in Remains(f)
      BY <2>1, <3>1
    <3>3. /\ r = [recs |-> r.recs, synced |-> r.synced]
          /\ r.recs \in Seq(Records) /\ r.synced = Len(r.recs) /\ r.synced \in Nat
          /\ r.synced \in f.synced..Len(f.recs)
          /\ \A i \in 1..r.synced : i \in 1..Len(f.recs) /\ r.recs[i] = f.recs[i]
      BY ONLY <3>2, RemainingRecords
    <3> QED BY <3>1, <3>3
  <2>3. LogEntries(logs'[n]) \subseteq LogEntries(logs[n])
    BY <2>2 DEF LogEntries
  <2>4. SyncedEntries(logs'[n]) = LogEntries(logs'[n])
    BY <2>2 DEF LogEntries, SyncedEntries
  <2>5. 1..logs[n].synced \subseteq 1..logs'[n].synced
    BY <2>1, <2>2
  <2>6. SyncedEntries(logs[n]) \subseteq SyncedEntries(logs'[n])
    BY <2>2, <2>5 DEF SyncedEntries
  <2> QED BY <2>2, <2>3, <2>4, <2>6
<1>3. ASSUME NEW n \in DOMAIN logs \ DOMAIN logs'
      PROVE  SyncedEntries(logs[n]) = {}
  <2>1. 1..logs[n].synced = {}
    BY <1>1
  <2> QED BY <2>1 DEF SyncedEntries
<1>4. \A n \in Nat : From(logs', n) \subseteq From(logs, n)
  BY <1>1 DEF From
<1>5. \A n \in Nat : \A m \in From(logs, n) :
        m \in From(logs', n) \/ m \in DOMAIN logs \ DOMAIN logs'
  BY DEF From
<1>6. \A n : From(logs', n) \subseteq DOMAIN logs'
  BY DEF From
<1>7. ASSUME NEW n \in Nat
      PROVE  /\ Logged(logs', n) \subseteq Logged(logs, n)
             /\ SyncedLogged(logs, n) \subseteq SyncedLogged(logs', n)
             /\ SyncedLogged(logs', n) \subseteq Logged(logs', n)
  <2>1. Logged(logs', n) \subseteq Logged(logs, n)
    BY <1>2, <1>4, <1>6 DEF Logged
  <2>2. SyncedLogged(logs, n) \subseteq SyncedLogged(logs', n)
    BY <1>2, <1>3, <1>5, <1>6 DEF SyncedLogged
  <2>3. SyncedLogged(logs', n) \subseteq Logged(logs', n)
    BY <1>2, <1>6 DEF SyncedLogged, Logged
  <2> QED BY <2>1, <2>2, <2>3
<1> QED BY <1>1, <1>2, <1>7

(* The machine stops: the MANIFEST is left with one of the prefixes DirInv  *)
(* speaks of, and the logs with at least their synced records.              *)
LEMMA MachineCrashInv ==
  ASSUME Inv, MachineCrash
  PROVE  Inv'
<1>1. /\ Stop /\ logs' \in Surviving(logs) /\ manifests' \in Surviving(manifests)
      /\ acked' = acked \intersect synced
  BY DEF MachineCrash
<1>2. /\ DOMAIN manifests' \subseteq DOMAIN manifests
      /\ \A n \in DOMAIN manifests \ DOMAIN manifests' : manifests[n].synced = 0
      /\ \A n \in DOMAIN manifests' : manifests'[n] \in Remains(manifests[n])
  BY <1>1, SurvivingFiles
<1>3. ASSUME NEW n \in DOMAIN manifests'
      PROVE  /\ manifests'[n] = [recs |-> manifests'[n].recs,
                                 synced |-> manifests'[n].synced]
             /\ manifests'[n].recs \in Seq(Edits)
             /\ manifests'[n].synced = Len(manifests'[n].recs)
             /\ manifests'[n].synced \in Nat
             /\ manifests'[n].synced \in
                  manifests[n].synced..Len(manifests[n].recs)
             /\ manifests'[n].recs =
                  SubSeq(manifests[n].recs, 1, manifests'[n].synced)
  <2>1. /\ manifests[n].recs \in Seq(Edits)
        /\ manifests[n].synced \in 0..Len(manifests[n].recs)
        /\ manifests'[n] \in Remains(manifests[n])
    BY <1>2 DEF Inv, TypeInv
  <2> QED BY <2>1, RemainingRecords
<1>4. TypeInv'
  <2>1. Known' = Known
    BY <1>1, StopInv, KnownKept
  <2>2. /\ DOMAIN logs' \subseteq Nat
        /\ \A n \in DOMAIN logs' :
             /\ logs'[n] = [recs |-> logs'[n].recs, synced |-> logs'[n].synced]
             /\ logs'[n].recs \in Seq(Records)
             /\ logs'[n].synced \in 0..Len(logs'[n].recs)
             /\ LogEntries(logs'[n]) \subseteq Known
    <3>1. \A n \in DOMAIN logs' : LogEntries(logs'[n]) \subseteq LogEntries(logs[n])
      BY <1>1, CrashedLogs
    <3>2. \A n \in DOMAIN logs' : LogEntries(logs'[n]) \subseteq Known
      BY <1>1, <3>1, CrashedLogs DEF Inv, TypeInv
    <3>3. \A n \in DOMAIN logs' : logs'[n].synced \in 0..Len(logs'[n].recs)
      BY <1>1, CrashedLogs
    <3> QED BY <1>1, <3>2, <3>3, CrashedLogs DEF Inv, TypeInv
  <2>3. /\ DOMAIN manifests' \subseteq Nat
        /\ \A n \in DOMAIN manifests' :
             manifests'[n].synced \in 0..Len(manifests'[n].recs)
    BY <1>2, <1>3 DEF Inv, TypeInv
  <2>4. acked' \subseteq acked
    BY <1>1
  <2> QED BY <1>3, <2>1, <2>2, <2>3, <2>4, <1>1, StopInv DEF Inv, TypeInv
<1>5. LogsInv'
  <2>1. ASSUME NEW n \in DOMAIN logs', NEW i \in 1..Len(logs'[n].recs),
               NEW j \in 1..Len(logs'[n].recs), i # j
        PROVE  logs'[n].recs[i] # logs'[n].recs[j]
    <3>1. n \in DOMAIN logs /\ i \in 1..Len(logs[n].recs) /\ j \in 1..Len(logs[n].recs)
          /\ logs'[n].recs[i] = logs[n].recs[i] /\ logs'[n].recs[j] = logs[n].recs[j]
      BY <1>1, CrashedLogs
    <3> QED BY <2>1, <3>1 DEF Inv, LogsInv
  <2>2. ASSUME NEW m \in DOMAIN logs', NEW n \in DOMAIN logs', m # n
        PROVE  LogEntries(logs'[m]) \intersect LogEntries(logs'[n]) = {}
    <3>1. /\ m \in DOMAIN logs /\ n \in DOMAIN logs
          /\ LogEntries(logs'[m]) \subseteq LogEntries(logs[m])
          /\ LogEntries(logs'[n]) \subseteq LogEntries(logs[n])
      BY <1>1, CrashedLogs
    <3>2. LogEntries(logs[m]) \intersect LogEntries(logs[n]) = {}
      BY <2>2, <3>1 DEF Inv, LogsInv
    <3> QED BY <3>1, <3>2
  <2> QED BY <2>1, <2>2 DEF LogsInv
<1>6. DirInv'
  <2>1. current' = current /\ gone' = gone /\ synced' = synced /\ tables' = tables
        /\ written' = written
    BY <1>1, StopInv
  <2>2. CASE current = 0
    <3>1. pc' = "down" /\ acked' = {} /\ gone = {} /\ DOMAIN logs' = {}
      BY <1>1, <2>2, CrashedLogs DEF Stop, Inv, DirInv
    <3> QED BY <2>1, <2>2, <3>1 DEF DirInv
  <2>3. CASE current # 0
    <3> DEFINE M == manifests[current]
    <3>0. PICK k : k = manifests'[current].synced
      OBVIOUS
    <3>1. /\ current \in DOMAIN manifests /\ M.recs \in Seq(Edits)
          /\ M.synced \in 1..Len(M.recs) /\ Len(M.recs) \in Nat /\ M.synced \in Nat
      BY <2>3, CurrentManifest
    <3>2. current \in DOMAIN manifests'
      BY <1>2, <3>1
    <3>3. /\ k = Len(manifests'[current].recs) /\ k \in Nat
          /\ k \in M.synced..Len(M.recs)
          /\ manifests'[current].recs = SubSeq(M.recs, 1, k)
      BY <1>3, <3>0, <3>2
    <3>4. k \in 1..Len(M.recs) /\ k \in 0..Len(M.recs) /\ k > 0 /\ k \in 1..k
      BY <3>1, <3>3
    <3>5. /\ FilesUpTo(manifests'[current].recs, k) = FilesUpTo(M.recs, k)
          /\ manifests'[current].recs[k] = M.recs[k]
      BY <3>1, <3>3, <3>4, FilesPrefix
    <3>6. PrefixInv(k)
      BY <2>3, <3>3, CurrentManifest
    <3>7. Sound(logs', tables, acked', synced, gone, FilesUpTo(M.recs, k),
                M.recs[k].log)
      <4>1. Sound(logs, tables, acked, synced, gone, FilesUpTo(M.recs, k),
                  M.recs[k].log) /\ M.recs[k].log \in Nat
        BY <3>6 DEF PrefixInv
      <4>2. /\ Logged(logs', M.recs[k].log) \subseteq Logged(logs, M.recs[k].log)
            /\ SyncedLogged(logs, M.recs[k].log)
                 \subseteq SyncedLogged(logs', M.recs[k].log)
            /\ SyncedLogged(logs', M.recs[k].log)
                 \subseteq Logged(logs', M.recs[k].log)
        BY <1>1, <4>1, CrashedLogs
      <4> HIDE DEF M
      <4>3. Sound(logs', tables, acked \intersect synced, synced, gone,
                  FilesUpTo(M.recs, k), M.recs[k].log)
        BY <4>1, <4>2, SoundAfterCrash
      <4> QED BY <1>1, <4>3
    <3>8. M.recs[k].next \in Nat /\ M.recs[k].next <= M.recs[k].next
      BY <3>6 DEF PrefixInv
    <3>9. PrefixInv(k)'
      <4>1. manifests'[current'].recs[Len(manifests'[current'].recs)] = M.recs[k]
        BY <2>1, <3>3, <3>5
      <4>2. FilesUpTo(manifests'[current'].recs, k) = FilesUpTo(M.recs, k)
            /\ manifests'[current'].recs[k] = M.recs[k]
        BY <2>1, <3>5
      <4> QED BY <2>1, <3>6, <3>7, <3>8, <4>1, <4>2 DEF PrefixInv
    <3>10. \A i \in manifests'[current].synced..Len(manifests'[current].recs) : i = k
      BY <3>0, <3>3
    <3> QED BY <2>1, <2>3, <3>0, <3>2, <3>4, <3>9, <3>10 DEF DirInv
  <2> QED BY <2>2, <2>3
<1> QED BY <1>1, <1>4, <1>5, <1>6, StopInv DEF Inv

-----------------------------------------------------------------------------
(* Writing. *)

(* Appending a record to a log.                                             *)
LEMMA LogAppended ==
  ASSUME Inv, NEW f \in DOMAIN logs, NEW e \in Records,
         logs' = [logs EXCEPT ![f] = AddRecord(@, e)]
  PROVE  /\ DOMAIN logs' = DOMAIN logs
         /\ \A m \in DOMAIN logs : m # f => logs'[m] = logs[m]
         /\ logs'[f] = [recs |-> logs'[f].recs, synced |-> logs'[f].synced]
         /\ logs'[f].recs = Append(logs[f].recs, e)
         /\ logs'[f].recs \in Seq(Records)
         /\ logs'[f].synced \in 0..Len(logs'[f].recs)
         /\ LogEntries(logs'[f]) = LogEntries(logs[f]) \union {e}
         /\ \A n \in Nat : n <= f =>
              /\ Logged(logs', n) = Logged(logs, n) \union {e}
              /\ SyncedLogged(logs', n) = SyncedLogged(logs, n)
<1>1. /\ logs[f] = [recs |-> logs[f].recs, synced |-> logs[f].synced]
      /\ logs[f].recs \in Seq(Records)
      /\ logs[f].synced \in 0..Len(logs[f].recs) /\ f \in Nat
  BY DEF Inv, TypeInv
<1>2. PICK g, h : g = logs[f] /\ h = logs'[f]
  OBVIOUS
<1>3. h = [recs |-> Append(g.recs, e), synced |-> g.synced]
  <2>1. h = AddRecord(g, e)
    BY <1>2
  <2> QED BY <1>1, <1>2, <2>1, FileOperations
<1>4. h.recs = Append(g.recs, e) /\ h.synced = g.synced
  BY <1>3
<1>5. g.recs \in Seq(Records) /\ g.synced \in 0..Len(g.recs)
  BY <1>1, <1>2
<1>6. /\ h.recs \in Seq(Records) /\ Len(h.recs) = Len(g.recs) + 1
      /\ Len(g.recs) \in Nat
      /\ h.recs[Len(g.recs) + 1] = e
      /\ \A i \in 1..Len(g.recs) : h.recs[i] = g.recs[i]
  BY <1>4, <1>5
<1>7. h.synced \in 0..Len(h.recs)
  BY <1>4, <1>5, <1>6
<1>8. LogEntries(h) = LogEntries(g) \union {e}
  <2>1. \A i \in 1..(Len(g.recs) + 1) : i \in 1..Len(g.recs) \/ i = Len(g.recs) + 1
    BY <1>6
  <2>2. /\ 1..Len(g.recs) \subseteq 1..(Len(g.recs) + 1)
        /\ Len(g.recs) + 1 \in 1..(Len(g.recs) + 1)
    BY <1>6
  <2> QED BY <1>6, <2>1, <2>2 DEF LogEntries
<1>9. SyncedEntries(h) = SyncedEntries(g)
  <2>1. \A i \in 1..g.synced : h.recs[i] = g.recs[i]
    BY <1>5, <1>6
  <2> QED BY <1>4, <2>1 DEF SyncedEntries
<1>10. DOMAIN logs' = DOMAIN logs /\ \A m \in DOMAIN logs : m # f => logs'[m] = logs[m]
  OBVIOUS
<1>11. ASSUME NEW n \in Nat, n <= f
       PROVE  /\ Logged(logs', n) = Logged(logs, n) \union {e}
              /\ SyncedLogged(logs', n) = SyncedLogged(logs, n)
  <2>1. From(logs', n) = From(logs, n)
    BY <1>10 DEF From
  <2>2. f >= n
    BY <1>1, <1>11
  <2>3. f \in From(logs, n)
    BY <2>2 DEF From
  <2>4. \A m \in From(logs, n) : m \in DOMAIN logs
    BY DEF From
  <2>5. Logged(logs', n) = Logged(logs, n) \union {e}
    BY <1>2, <1>8, <1>10, <2>1, <2>3, <2>4 DEF Logged
  <2>6. SyncedLogged(logs', n) = SyncedLogged(logs, n)
    BY <1>2, <1>9, <1>10, <2>1, <2>3, <2>4 DEF SyncedLogged
  <2> QED BY <2>5, <2>6
<1>12. h = [recs |-> h.recs, synced |-> h.synced]
  BY <1>3, <1>4
<1> QED BY <1>2, <1>4, <1>6, <1>7, <1>8, <1>10, <1>11, <1>12

(* The record of a Write is new to every prefix of the MANIFEST.            *)
LEMMA WriteIsNew ==
  ASSUME Inv, pc = "open", NEW e, e = Entry(written + 1, vs.last + 1)
  PROVE  /\ e \in Records /\ e.id = written + 1 /\ e.s = vs.last + 1
         /\ written + 1 \notin acked \union synced \union gone
         /\ \A n \in DOMAIN logs : e \notin LogEntries(logs[n])
         /\ \A x \in Found(logs, tables, vs.files, vs.log) :
              x.s # e.s /\ x.id # e.id
<1>1. e.id = written + 1 /\ e.s = vs.last + 1 /\ e \in Records
      /\ vs.last \in Nat /\ written \in Nat
  BY DEF Inv, TypeInv, Entry, Records
<1>2. written + 1 \notin 1..written
  BY <1>1
<1>3. \A x \in Known : x.id # e.id
  BY <1>1, <1>2 DEF Known
<1>4. written + 1 \notin acked \union synced \union gone
  BY <1>2 DEF Inv, TypeInv
<1>5. \A n \in DOMAIN logs : e \notin LogEntries(logs[n])
  BY <1>3 DEF Inv, TypeInv
<1>6. Live
  BY DEF Live
<1>7. ASSUME NEW x \in Found(logs, tables, vs.files, vs.log)
      PROVE  x.s # e.s /\ x.id # e.id
  <2>1. x \in Known /\ x \in Contents
    BY <1>6, LiveContents
  <2>2. x.s <= vs.last
    BY <1>6, <2>1, LiveContents
  <2>3. x.s \in Nat
    BY <2>1, <1>1 DEF Known
  <2>4. x.s # vs.last + 1
    BY <1>1, <2>2, <2>3
  <2> QED BY <1>1, <1>3, <2>1, <2>4
<1> QED BY <1>1, <1>4, <1>5, <1>7

(* Write appends to the log, and to the memtable unless it is to sync.      *)
LEMMA WriteInv ==
  ASSUME Inv, NEW sync \in SyncModes, Write(sync)
  PROVE  Inv'
<1>0. PICK e : e = Entry(written + 1, vs.last + 1)
  OBVIOUS
<1>1. /\ pc = "open" /\ written' = written + 1
      /\ logs' = [logs EXCEPT ![logfile] = AddRecord(@, e)]
      /\ UNCHANGED <<tables, manifests, current, bg, logfile, imm, hasImm, todo,
                     edit, trash, synced, gone>>
  BY <1>0 DEF Write
<1>2. \/ pc' = "syncing" /\ mem' = mem /\ vs' = vs /\ acked' = acked
      \/ /\ mem' = mem \union {e} /\ vs' = [vs EXCEPT !.last = e.s]
         /\ acked' = acked \union {e.id} /\ pc' = "open"
  BY <1>0, <1>1 DEF Write
<1>3. Live /\ ~Opening
  BY <1>1 DEF Live, Opening
<1>4. Live' /\ ~Opening' /\ Running' /\ Running
  BY <1>1, <1>2 DEF Live, Opening, Running
<1>5. /\ e \in Records /\ e.id = written + 1 /\ e.s = vs.last + 1
      /\ written + 1 \notin acked \union synced \union gone
      /\ \A n \in DOMAIN logs : e \notin LogEntries(logs[n])
      /\ \A x \in Found(logs, tables, vs.files, vs.log) :
           x.s # e.s /\ x.id # e.id
  BY <1>0, <1>1, WriteIsNew
<1>6. /\ logfile \in DOMAIN logs /\ vs.log \in Nat /\ logfile \in Nat
      /\ vs.log <= logfile /\ current # 0
  BY <1>3, LiveFacts
<1>7. /\ DOMAIN logs' = DOMAIN logs
      /\ \A m \in DOMAIN logs : m # logfile => logs'[m] = logs[m]
      /\ logs'[logfile] =
           [recs |-> logs'[logfile].recs, synced |-> logs'[logfile].synced]
      /\ logs'[logfile].recs = Append(logs[logfile].recs, e)
      /\ logs'[logfile].recs \in Seq(Records)
      /\ logs'[logfile].synced \in 0..Len(logs'[logfile].recs)
      /\ LogEntries(logs'[logfile]) = LogEntries(logs[logfile]) \union {e}
      /\ \A n \in Nat : n <= logfile =>
           /\ Logged(logs', n) = Logged(logs, n) \union {e}
           /\ SyncedLogged(logs', n) = SyncedLogged(logs, n)
  BY <1>1, <1>5, <1>6, LogAppended
<1>8. /\ vs' \in [files : SUBSET Nat, log : Nat, next : Nat, manifest : Nat,
                  last : Nat]
      /\ vs'.files = vs.files /\ vs'.log = vs.log /\ vs'.next = vs.next
      /\ vs'.manifest = vs.manifest
      /\ vs'.last = IF pc' = "syncing" THEN vs.last ELSE vs.last + 1
      /\ vs.last \in Nat /\ vs.last <= written /\ written \in Nat
  BY <1>2, <1>5 DEF Inv, TypeInv
<1>9. Known \subseteq Known' /\ e \in Known'
  <2>1. Known' = [id : 1..(written + 1), s : 0..(written + 1)]
    BY <1>1 DEF Known
  <2>2. 1..written \subseteq 1..(written + 1) /\ 0..written \subseteq 0..(written + 1)
    BY <1>8
  <2>3. written + 1 \in 1..(written + 1) /\ vs.last + 1 \in 0..(written + 1)
    BY <1>8
  <2>4. e \in [id : 1..(written + 1), s : 0..(written + 1)]
    BY <1>0, <2>3 DEF Entry
  <2>5. Known \subseteq [id : 1..(written + 1), s : 0..(written + 1)]
    BY <2>2 DEF Known
  <2> QED BY <2>1, <2>4, <2>5
<1>10. TypeInv'
  <2>1. written' \in Nat /\ vs'.last <= written' /\ 1..written \subseteq 1..written'
        /\ written + 1 \in 1..written'
    BY <1>1, <1>8
  <2>2. \A n \in DOMAIN logs' :
          /\ logs'[n] = [recs |-> logs'[n].recs, synced |-> logs'[n].synced]
          /\ logs'[n].recs \in Seq(Records)
          /\ logs'[n].synced \in 0..Len(logs'[n].recs)
          /\ LogEntries(logs'[n]) \subseteq Known'
    <3> SUFFICES ASSUME NEW n \in DOMAIN logs'
                 PROVE  /\ logs'[n] = [recs |-> logs'[n].recs,
                                       synced |-> logs'[n].synced]
                        /\ logs'[n].recs \in Seq(Records)
                        /\ logs'[n].synced \in 0..Len(logs'[n].recs)
                        /\ LogEntries(logs'[n]) \subseteq Known'
      OBVIOUS
    <3>1. LogEntries(logs[n]) \subseteq Known
      BY <1>7 DEF Inv, TypeInv
    <3>2. CASE n = logfile
      BY <1>7, <1>9, <3>1, <3>2
    <3>3. CASE n # logfile
      <4>1. logs'[n] = logs[n] /\ n \in DOMAIN logs
        BY <1>7, <3>3
      <4> QED BY <1>9, <3>1, <4>1 DEF Inv, TypeInv
    <3> QED BY <3>2, <3>3
  <2>3. mem' \subseteq Known' /\ imm' \subseteq Known'
    BY <1>1, <1>2, <1>9 DEF Inv, TypeInv
  <2>4. acked' \subseteq 1..written' /\ synced' \subseteq 1..written'
        /\ gone' \subseteq 1..written'
    BY <1>1, <1>2, <1>5, <2>1 DEF Inv, TypeInv
  <2>5. \A n \in DOMAIN tables' : tables'[n] \subseteq Known'
    BY <1>1, <1>9 DEF Inv, TypeInv
  <2> QED BY <1>1, <1>7, <1>8, <2>1, <2>2, <2>3, <2>4, <2>5 DEF Inv, TypeInv
<1>11. LogsInv'
  <2>1. ASSUME NEW n \in DOMAIN logs', NEW i \in 1..Len(logs'[n].recs),
               NEW j \in 1..Len(logs'[n].recs), i # j
        PROVE  logs'[n].recs[i] # logs'[n].recs[j]
    <3>1. CASE n # logfile
      BY <1>7, <2>1, <3>1 DEF Inv, LogsInv
    <3>2. CASE n = logfile
      <4>1. PICK r : r = logs[logfile].recs
        OBVIOUS
      <4>2. r \in Seq(Records) /\ logs'[n].recs = Append(r, e)
        BY <1>6, <1>7, <3>2, <4>1 DEF Inv, TypeInv
      <4>3. /\ Len(r) \in Nat /\ Len(Append(r, e)) = Len(r) + 1
            /\ Append(r, e)[Len(r) + 1] = e
            /\ \A m \in 1..Len(r) : Append(r, e)[m] = r[m]
        BY <4>2
      <4>4. \A m \in 1..Len(r) : r[m] # e
        BY <1>5, <1>6, <4>1 DEF LogEntries
      <4>5. \A m \in 1..Len(r), l \in 1..Len(r) : m # l => r[m] # r[l]
        BY <1>6, <4>1 DEF Inv, LogsInv
      <4>6. (i \in 1..Len(r) \/ i = Len(r) + 1) /\ (j \in 1..Len(r) \/ j = Len(r) + 1)
        BY <4>2, <4>3
      <4>7. CASE i \in 1..Len(r) /\ j \in 1..Len(r)
        BY <2>1, <4>2, <4>3, <4>5, <4>7
      <4>8. CASE i = Len(r) + 1 \/ j = Len(r) + 1
        BY <2>1, <4>2, <4>3, <4>4, <4>6, <4>8
      <4> QED BY <4>6, <4>7, <4>8
    <3> QED BY <3>1, <3>2
  <2>2. ASSUME NEW m \in DOMAIN logs', NEW n \in DOMAIN logs', m # n
        PROVE  LogEntries(logs'[m]) \intersect LogEntries(logs'[n]) = {}
    <3>1. /\ LogEntries(logs'[m]) \subseteq LogEntries(logs[m]) \union {e}
          /\ LogEntries(logs'[n]) \subseteq LogEntries(logs[n]) \union {e}
          /\ m # logfile => LogEntries(logs'[m]) = LogEntries(logs[m])
          /\ n # logfile => LogEntries(logs'[n]) = LogEntries(logs[n])
      BY <1>7
    <3>2. LogEntries(logs[m]) \intersect LogEntries(logs[n]) = {}
      BY <1>7, <2>2 DEF Inv, LogsInv
    <3>3. e \notin LogEntries(logs[m]) /\ e \notin LogEntries(logs[n])
      BY <1>5, <1>7
    <3> QED BY <2>2, <3>1, <3>2, <3>3
  <2> QED BY <2>1, <2>2 DEF LogsInv
<1>12. DirInv'
  <2>1. ASSUME NEW k \in manifests[current].synced..Len(manifests[current].recs)
        PROVE  LET recs == manifests[current].recs
                   F == FilesUpTo(recs, k)
               IN  /\ Stored(tables', F) = Stored(tables, F)
                   /\ Sound(logs', tables', acked', synced', gone', F, recs[k].log)
    <3>1. PICK F, n : F = FilesUpTo(manifests[current].recs, k)
                      /\ n = manifests[current].recs[k].log
      OBVIOUS
    <3>2. Sound(logs, tables, acked, synced, gone, F, n) /\ n \in Nat
      BY <1>6, <3>1, PrefixNumbers
    <3>3. /\ n \in {vs.log, logfile}
          /\ Found(logs, tables, F, n) \subseteq Found(logs, tables, vs.files, vs.log)
      BY <1>3, <3>1, LivePrefix
    <3>4. n <= logfile
      BY <1>6, <3>3
    <3>5. /\ Logged(logs', n) = Logged(logs, n) \union {e}
          /\ SyncedLogged(logs, n) \subseteq SyncedLogged(logs', n)
      BY <1>7, <3>2, <3>4
    <3>6. /\ \A x \in Found(logs, tables, F, n) : x.s # e.s /\ x.id # e.id
          /\ e.id \notin gone /\ e.id \notin synced
          /\ acked' \subseteq acked \union {e.id}
      BY <1>2, <1>5, <3>3
    <3>7. Sound(logs', tables, acked', synced, gone, F, n)
      BY ONLY <3>2, <3>5, <3>6, SoundAfterWrite
    <3> QED BY <1>1, <3>1, <3>7
  <2>2. written' \in Nat /\ written <= written'
    BY <1>1, <1>8
  <2>3. current \in DOMAIN manifests'
    BY <1>1, <1>6, CurrentManifest
  <2> QED BY <1>1, <1>6, <2>1, <2>2, <2>3, DirFrame
<1>13. IdleInv' /\ OpeningInv' /\ TrashInv'
  <2>1. IdleInv'
    BY <1>1, <1>2, <1>4 DEF Inv, IdleInv
  <2> QED BY <1>1, <1>4, <1>8, <2>1 DEF Inv, OpeningInv, TrashInv
<1>14. LiveInv'
  <2>1. /\ current' # 0 /\ vs'.manifest = current'
        /\ manifests'[current'].synced =
             IF Logging' THEN Len(manifests'[current'].recs) - 1
             ELSE Len(manifests'[current'].recs)
        /\ vs'.files = FilesUpTo(manifests'[current'].recs,
                                 manifests'[current'].synced)
        /\ vs'.log = manifests'[current'].recs[manifests'[current'].synced].log
    BY <1>1, <1>3, <1>8 DEF Inv, LiveInv, Logging
  <2>2. /\ manifests'[current'].recs[Len(manifests'[current'].recs)].next <= vs'.next
        /\ From(logs', vs'.log) = {vs'.log, logfile'}
        /\ vs'.log <= logfile' /\ logfile' < vs'.next
    BY <1>1, <1>3, <1>7, <1>8 DEF Inv, LiveInv, From
  <2>3. manifests'[current'].recs[Len(manifests'[current'].recs)].last <= vs'.last
    <3>1. PICK l : l = manifests[current].recs[Len(manifests[current].recs)].last
      OBVIOUS
    <3>2. l <= vs.last /\ l \in Nat
      BY <1>3, <1>6, <3>1, CurrentManifest, PrefixNumbers DEF Inv, LiveInv
    <3>3. l <= vs.last + 1
      BY <1>8, <3>2
    <3> QED BY <1>1, <1>8, <3>1, <3>2, <3>3
  <2>4. ~hasImm' => imm' = {} /\ vs'.log = logfile'
    BY <1>1, <1>3, <1>8 DEF Inv, LiveInv
  <2>5. hasImm' => imm' = LogEntries(logs'[vs'.log]) /\ vs'.log # logfile'
    <3> SUFFICES ASSUME hasImm' PROVE imm' = LogEntries(logs'[vs'.log]) /\ vs'.log # logfile'
      OBVIOUS
    <3>1. imm = LogEntries(logs[vs.log]) /\ vs.log # logfile
      BY <1>1, <1>3 DEF Inv, LiveInv
    <3>2. vs.log \in DOMAIN logs
      BY <1>3, LiveFacts
    <3> QED BY <1>1, <1>7, <1>8, <3>1, <3>2
  <2>6. mem = LogEntries(logs[logfile])
    BY <1>1, <1>3 DEF Inv, LiveInv
  <2>7. pc' # "syncing" => mem' = LogEntries(logs'[logfile'])
    BY <1>1, <1>2, <1>7, <2>6
  <2>8. pc' = "syncing" =>
          LET x == Entry(written', vs'.last + 1)
          IN  /\ LogEntries(logs'[logfile']) = mem' \union {x}
              /\ x \notin mem' /\ vs'.last < written'
              /\ written' \notin acked'
    <3> SUFFICES ASSUME pc' = "syncing"
                 PROVE  LET x == Entry(written', vs'.last + 1)
                        IN  /\ LogEntries(logs'[logfile']) = mem' \union {x}
                            /\ x \notin mem' /\ vs'.last < written'
                            /\ written' \notin acked'
      OBVIOUS
    <3>1. mem' = mem /\ acked' = acked /\ vs'.last = vs.last
      BY <1>1, <1>2, <1>8
    <3>2. Entry(written', vs'.last + 1) = e
      BY <1>0, <1>1, <3>1
    <3>3. vs'.last < written'
      BY <1>1, <1>8, <3>1
    <3> QED BY <1>1, <1>5, <1>6, <1>7, <2>6, <3>1, <3>2, <3>3
  <2>9. \A x \in mem' \union imm' \union Stored(tables', vs'.files) :
          x.s <= vs'.last
    <3> SUFFICES ASSUME NEW x \in mem' \union imm' \union Stored(tables', vs'.files)
                 PROVE  x.s <= vs'.last
      OBVIOUS
    <3>1. \/ x \in mem \union imm \union Stored(tables, vs.files)
          \/ x = e /\ pc' = "open"
      BY <1>1, <1>2, <1>8
    <3>2. CASE x \in mem \union imm \union Stored(tables, vs.files)
      <4>1. x.s <= vs.last /\ x \in Known
        BY <1>3, <3>2, LiveContents
      <4>2. x.s \in Nat
        BY <4>1, <1>8 DEF Known
      <4> QED BY <1>8, <4>1, <4>2
    <3>3. CASE x = e /\ pc' = "open"
      <4>1. vs'.last = vs.last + 1 /\ x.s = vs.last + 1
        BY <1>5, <1>8, <3>3
      <4> QED BY <1>8, <4>1
    <3> QED BY <3>1, <3>2, <3>3
  <2> QED BY <2>1, <2>2, <2>3, <2>4, <2>5, <2>7, <2>8, <2>9 DEF LiveInv
<1>15. BackgroundInv'
  <2>1. bg' = bg /\ edit' = edit /\ tables' = tables /\ (Logging' <=> Logging)
    BY <1>1 DEF Logging
  <2>2. bg \in {"compact", "compactlog"} =>
          acked' \intersect Ids(Stored(tables, edit.del))
            \subseteq Ids(Stored(tables, edit.add))
    <3> SUFFICES ASSUME bg \in {"compact", "compactlog"}
                 PROVE  acked' \intersect Ids(Stored(tables, edit.del))
                          \subseteq Ids(Stored(tables, edit.add))
      OBVIOUS
    <3>1. /\ edit.del \subseteq vs.files
          /\ acked \intersect Ids(Stored(tables, edit.del))
               \subseteq Ids(Stored(tables, edit.add))
      BY DEF Inv, BackgroundInv
    <3>2. Stored(tables, edit.del) \subseteq Found(logs, tables, vs.files, vs.log)
      BY <3>1 DEF Stored, Found
    <3>3. e.id \notin Ids(Stored(tables, edit.del))
      BY <1>5, <3>2 DEF Ids
    <3> QED BY <1>2, <3>1, <3>3
  <2> QED BY <1>1, <1>3, <1>8, <2>1, <2>2 DEF Inv, BackgroundInv
<1> QED BY <1>10, <1>11, <1>12, <1>13, <1>14, <1>15 DEF Inv

(* Syncing a log.                                                           *)
LEMMA LogSynced ==
  ASSUME Inv, NEW f \in DOMAIN logs, logs' = [logs EXCEPT ![f] = Sync(@)]
  PROVE  /\ DOMAIN logs' = DOMAIN logs
         /\ \A m \in DOMAIN logs : m # f => logs'[m] = logs[m]
         /\ logs'[f] = [recs |-> logs[f].recs, synced |-> Len(logs[f].recs)]
         /\ \A m \in DOMAIN logs : /\ logs'[m].recs = logs[m].recs
                                   /\ LogEntries(logs'[m]) = LogEntries(logs[m])
         /\ SyncedEntries(logs'[f]) = LogEntries(logs[f])
         /\ \A n \in Nat :
              /\ Logged(logs', n) = Logged(logs, n)
              /\ SyncedLogged(logs, n) \subseteq SyncedLogged(logs', n)
              /\ SyncedLogged(logs', n) \subseteq Logged(logs', n)
              /\ n <= f => LogEntries(logs[f]) \subseteq SyncedLogged(logs', n)
<1>1. logs[f] = [recs |-> logs[f].recs, synced |-> logs[f].synced] /\ f \in Nat
  BY DEF Inv, TypeInv
<1>2. Sync(logs[f]) = [recs |-> logs[f].recs, synced |-> Len(logs[f].recs)]
  BY <1>1, FileOperations
<1>3. /\ DOMAIN logs' = DOMAIN logs
      /\ \A m \in DOMAIN logs : m # f => logs'[m] = logs[m]
      /\ logs'[f] = [recs |-> logs[f].recs, synced |-> Len(logs[f].recs)]
  BY <1>2
<1>4. \A m \in DOMAIN logs : /\ logs'[m].recs = logs[m].recs
                             /\ LogEntries(logs'[m]) = LogEntries(logs[m])
  <2>1. \A m \in DOMAIN logs : logs'[m].recs = logs[m].recs
    BY <1>3
  <2> QED BY <2>1 DEF LogEntries
<1>5. SyncedEntries(logs'[f]) = LogEntries(logs[f])
  <2>1. logs'[f].recs = logs[f].recs /\ logs'[f].synced = Len(logs[f].recs)
    BY <1>3
  <2> QED BY <2>1 DEF SyncedEntries, LogEntries
<1>6. \A m \in DOMAIN logs :
        /\ SyncedEntries(logs[m]) \subseteq SyncedEntries(logs'[m])
        /\ SyncedEntries(logs'[m]) \subseteq LogEntries(logs'[m])
  BY <1>3, <1>4, <1>5, SyncedWithin
<1>7. ASSUME NEW n \in Nat
      PROVE  /\ Logged(logs', n) = Logged(logs, n)
             /\ SyncedLogged(logs, n) \subseteq SyncedLogged(logs', n)
             /\ SyncedLogged(logs', n) \subseteq Logged(logs', n)
             /\ n <= f => LogEntries(logs[f]) \subseteq SyncedLogged(logs', n)
  <2>1. From(logs', n) = From(logs, n) /\ From(logs, n) \subseteq DOMAIN logs
    BY <1>3 DEF From
  <2>2. n <= f => f \in From(logs, n)
    BY <1>1 DEF From
  <2>3. Logged(logs', n) = Logged(logs, n)
    BY ONLY <1>4, <2>1 DEF Logged
  <2>4. SyncedLogged(logs, n) \subseteq SyncedLogged(logs', n)
    BY ONLY <1>6, <2>1 DEF SyncedLogged
  <2>5. SyncedLogged(logs', n) \subseteq Logged(logs', n)
    BY ONLY <1>6, <2>1 DEF Logged, SyncedLogged
  <2>6. n <= f => LogEntries(logs[f]) \subseteq SyncedLogged(logs', n)
    BY ONLY <1>5, <2>1, <2>2 DEF SyncedLogged
  <2> QED BY ONLY <2>3, <2>4, <2>5, <2>6
<1> QED BY <1>3, <1>4, <1>5, <1>7

(* Sync has returned, and the update goes to the memtable.                  *)
LEMMA WriteSyncedInv ==
  ASSUME Inv, WriteSynced
  PROVE  Inv'
<1>0. PICK e : e = Entry(written, vs.last + 1)
  OBVIOUS
<1>1. /\ pc = "syncing" /\ pc' = "open" /\ written' = written
      /\ logs' = [logs EXCEPT ![logfile] = Sync(@)]
      /\ mem' = mem \union {e} /\ vs' = [vs EXCEPT !.last = e.s]
      /\ acked' = acked \union {e.id} /\ synced' = synced \union {e.id}
      /\ UNCHANGED <<tables, manifests, current, bg, logfile, imm, hasImm, todo,
                     edit, trash, gone>>
  BY <1>0 DEF WriteSynced, boundVars
<1>2. Live /\ ~Opening' /\ Live' /\ Running' /\ Running
  BY <1>1 DEF Live, Opening, Running
<1>3. /\ LogEntries(logs[logfile]) = mem \union {e}
      /\ e \notin mem /\ vs.last < written /\ written \notin acked
  BY <1>0, <1>1, <1>2 DEF Inv, LiveInv
<1>4. e.id = written /\ e.s = vs.last + 1
  BY <1>0 DEF Entry
<1>5. /\ logfile \in DOMAIN logs /\ vs.log \in Nat /\ logfile \in Nat
      /\ vs.log <= logfile /\ current # 0
  BY <1>2, LiveFacts
<1>6. /\ DOMAIN logs' = DOMAIN logs
      /\ \A m \in DOMAIN logs : m # logfile => logs'[m] = logs[m]
      /\ logs'[logfile] =
           [recs |-> logs[logfile].recs, synced |-> Len(logs[logfile].recs)]
      /\ \A m \in DOMAIN logs : /\ logs'[m].recs = logs[m].recs
                                /\ LogEntries(logs'[m]) = LogEntries(logs[m])
      /\ \A n \in Nat :
           /\ Logged(logs', n) = Logged(logs, n)
           /\ SyncedLogged(logs, n) \subseteq SyncedLogged(logs', n)
           /\ SyncedLogged(logs', n) \subseteq Logged(logs', n)
           /\ n <= logfile => LogEntries(logs[logfile]) \subseteq SyncedLogged(logs', n)
  BY <1>1, <1>5, LogSynced
<1>7. /\ vs' \in [files : SUBSET Nat, log : Nat, next : Nat, manifest : Nat,
                  last : Nat]
      /\ vs'.files = vs.files /\ vs'.log = vs.log /\ vs'.next = vs.next
      /\ vs'.manifest = vs.manifest /\ vs'.last = vs.last + 1
      /\ vs.last \in Nat /\ written \in Nat
  <2>1. /\ vs \in [files : SUBSET Nat, log : Nat, next : Nat, manifest : Nat,
                   last : Nat]
        /\ vs.last \in Nat /\ written \in Nat
    BY DEF Inv, TypeInv
  <2>2. vs.last + 1 \in Nat /\ vs' = [vs EXCEPT !.last = vs.last + 1]
    BY <1>1, <1>4, <2>1
  <2> QED BY ONLY <2>1, <2>2
<1>8. vs'.last <= written' /\ written \in 1..written
  BY <1>1, <1>3, <1>7
<1>9. Known' = Known
  BY <1>1, KnownKept
<1>10. e \in Known
  BY <1>3, <1>5 DEF Inv, TypeInv
<1>11. TypeInv'
  <2>1. \A n \in DOMAIN logs' :
          /\ logs'[n] = [recs |-> logs'[n].recs, synced |-> logs'[n].synced]
          /\ logs'[n].recs \in Seq(Records)
          /\ logs'[n].synced \in 0..Len(logs'[n].recs)
          /\ LogEntries(logs'[n]) \subseteq Known'
    <3> SUFFICES ASSUME NEW n \in DOMAIN logs'
                 PROVE  /\ logs'[n] = [recs |-> logs'[n].recs,
                                       synced |-> logs'[n].synced]
                        /\ logs'[n].recs \in Seq(Records)
                        /\ logs'[n].synced \in 0..Len(logs'[n].recs)
                        /\ LogEntries(logs'[n]) \subseteq Known'
      OBVIOUS
    <3>1. n \in DOMAIN logs /\ logs[n].recs \in Seq(Records)
      BY <1>6 DEF Inv, TypeInv
    <3>2. LogEntries(logs'[n]) \subseteq Known'
      BY <1>6, <1>9, <3>1 DEF Inv, TypeInv
    <3>3. CASE n = logfile
      <4>1. logs'[n].synced = Len(logs[n].recs) /\ logs'[n].recs = logs[n].recs
        BY <1>6, <3>3
      <4>2. Len(logs[n].recs) \in 0..Len(logs[n].recs)
        BY <3>1
      <4> QED BY <1>6, <3>1, <3>2, <3>3, <4>1, <4>2
    <3>4. CASE n # logfile
      <4>1. logs'[n] = logs[n]
        BY <1>6, <3>1, <3>4
      <4> QED BY <3>1, <3>2, <4>1 DEF Inv, TypeInv
    <3> QED BY <3>3, <3>4
  <2>2. /\ mem' \subseteq Known' /\ imm' \subseteq Known'
        /\ \A n \in DOMAIN tables' : tables'[n] \subseteq Known'
    BY <1>1, <1>9, <1>10 DEF Inv, TypeInv
  <2>3. acked' \subseteq 1..written' /\ synced' \subseteq 1..written'
        /\ gone' \subseteq 1..written'
    BY <1>1, <1>4, <1>8 DEF Inv, TypeInv
  <2> QED BY <1>1, <1>6, <1>7, <1>8, <2>1, <2>2, <2>3 DEF Inv, TypeInv
<1>12. LogsInv'
  BY <1>6 DEF Inv, LogsInv
<1>13. DirInv'
  <2>1. ASSUME NEW k \in manifests[current].synced..Len(manifests[current].recs)
        PROVE  LET recs == manifests[current].recs
                   F == FilesUpTo(recs, k)
               IN  /\ Stored(tables', F) = Stored(tables, F)
                   /\ Sound(logs', tables', acked', synced', gone', F, recs[k].log)
    <3>1. PICK F, n : F = FilesUpTo(manifests[current].recs, k)
                      /\ n = manifests[current].recs[k].log
      OBVIOUS
    <3>2. Sound(logs, tables, acked, synced, gone, F, n) /\ n \in Nat
      BY <1>5, <3>1, PrefixNumbers
    <3>3. n \in {vs.log, logfile}
      BY <1>2, <3>1, LivePrefix
    <3>4. n <= logfile
      BY <1>5, <3>3
    <3>5. /\ Logged(logs', n) = Logged(logs, n)
          /\ SyncedLogged(logs, n) \subseteq SyncedLogged(logs', n)
          /\ SyncedLogged(logs', n) \subseteq Logged(logs', n)
      BY <1>6, <3>2
    <3>6. e \in SyncedLogged(logs', n)
      BY <1>3, <1>6, <3>2, <3>4
    <3>7. e.id \in Ids(SyncedLogged(logs', n)) /\ e.id \notin acked
      BY <1>3, <1>4, <3>6 DEF Ids
    <3>8. Sound(logs', tables, acked \union {e.id}, synced \union {e.id}, gone, F, n)
      BY ONLY <3>2, <3>5, <3>7, SoundAfterSync
    <3> QED BY <1>1, <3>1, <3>8
  <2>2. written' \in Nat /\ written <= written'
    BY <1>1, <1>7
  <2>3. current \in DOMAIN manifests'
    BY <1>1, <1>5, CurrentManifest
  <2> QED BY <1>1, <1>5, <2>1, <2>2, <2>3, DirFrame
<1>14. IdleInv' /\ OpeningInv' /\ TrashInv'
  <2>1. IdleInv'
    BY <1>1, <1>2 DEF Inv, IdleInv
  <2> QED BY <1>1, <1>2, <1>7, <2>1 DEF Inv, OpeningInv, TrashInv
<1>15. LiveInv'
  <2>1. /\ current' # 0 /\ vs'.manifest = current'
        /\ manifests'[current'].synced =
             IF Logging' THEN Len(manifests'[current'].recs) - 1
             ELSE Len(manifests'[current'].recs)
        /\ vs'.files = FilesUpTo(manifests'[current'].recs,
                                 manifests'[current'].synced)
        /\ vs'.log = manifests'[current'].recs[manifests'[current'].synced].log
    BY <1>1, <1>2, <1>7 DEF Inv, LiveInv, Logging
  <2>2. /\ manifests'[current'].recs[Len(manifests'[current'].recs)].next <= vs'.next
        /\ From(logs', vs'.log) = {vs'.log, logfile'}
        /\ vs'.log <= logfile' /\ logfile' < vs'.next
    BY <1>1, <1>2, <1>6, <1>7 DEF Inv, LiveInv, From
  <2>3. manifests'[current'].recs[Len(manifests'[current'].recs)].last <= vs'.last
    <3>1. PICK l : l = manifests[current].recs[Len(manifests[current].recs)].last
      OBVIOUS
    <3>2. l <= vs.last /\ l \in Nat
      BY <1>2, <1>5, <3>1, CurrentManifest, PrefixNumbers DEF Inv, LiveInv
    <3>3. l <= vs.last + 1
      BY <1>7, <3>2
    <3> QED BY <1>1, <1>7, <3>1, <3>3
  <2>4. ~hasImm' => imm' = {} /\ vs'.log = logfile'
    BY <1>1, <1>2, <1>7 DEF Inv, LiveInv
  <2>5. hasImm' => imm' = LogEntries(logs'[vs'.log]) /\ vs'.log # logfile'
    <3> SUFFICES ASSUME hasImm' PROVE imm' = LogEntries(logs'[vs'.log]) /\ vs'.log # logfile'
      OBVIOUS
    <3>1. imm = LogEntries(logs[vs.log]) /\ vs.log # logfile
      BY <1>1, <1>2 DEF Inv, LiveInv
    <3>2. vs.log \in DOMAIN logs
      BY <1>2, LiveFacts
    <3> QED BY <1>1, <1>6, <1>7, <3>1, <3>2
  <2>6. mem' = LogEntries(logs'[logfile'])
    BY <1>1, <1>3, <1>5, <1>6
  <2>7. \A x \in mem' \union imm' \union Stored(tables', vs'.files) :
          x.s <= vs'.last
    <3> SUFFICES ASSUME NEW x \in mem' \union imm' \union Stored(tables', vs'.files)
                 PROVE  x.s <= vs'.last
      OBVIOUS
    <3>1. x \in mem \union imm \union Stored(tables, vs.files) \/ x = e
      BY <1>1, <1>7
    <3>2. CASE x \in mem \union imm \union Stored(tables, vs.files)
      <4>1. x.s <= vs.last /\ x \in Known
        BY <1>2, <3>2, LiveContents
      <4>2. x.s \in Nat
        BY <4>1, <1>7 DEF Known
      <4> QED BY <1>7, <4>1, <4>2
    <3>3. CASE x = e
      BY <1>4, <1>7, <3>3
    <3> QED BY <3>1, <3>2, <3>3
  <2> QED BY <1>1, <2>1, <2>2, <2>3, <2>4, <2>5, <2>6, <2>7 DEF LiveInv
<1>16. BackgroundInv'
  <2>1. bg' = bg /\ edit' = edit /\ tables' = tables /\ (Logging' <=> Logging)
    BY <1>1 DEF Logging
  <2>2. bg \in {"compact", "compactlog"} =>
          acked' \intersect Ids(Stored(tables, edit.del))
            \subseteq Ids(Stored(tables, edit.add))
    <3> SUFFICES ASSUME bg \in {"compact", "compactlog"}
                 PROVE  acked' \intersect Ids(Stored(tables, edit.del))
                          \subseteq Ids(Stored(tables, edit.add))
      OBVIOUS
    <3>1. /\ edit.del \subseteq vs.files
          /\ acked \intersect Ids(Stored(tables, edit.del))
               \subseteq Ids(Stored(tables, edit.add))
      BY DEF Inv, BackgroundInv
    <3>2. e \in Logged(logs, vs.log)
      BY <1>2, <1>3, LiveLogged
    <3>3. ASSUME NEW x \in Stored(tables, edit.del), x.id = e.id PROVE FALSE
      <4>1. x \in Stored(tables, vs.files)
        BY <3>1 DEF Stored
      <4>2. Sound(logs, tables, acked, synced, gone, vs.files, vs.log)
        BY <1>2, LiveFacts
      <4>3. x = e
        BY <3>2, <3>3, <4>1, <4>2 DEF Sound, Found
      <4> QED BY <3>2, <4>1, <4>2, <4>3 DEF Sound
    <3>4. e.id \notin Ids(Stored(tables, edit.del))
      BY <3>3 DEF Ids
    <3> QED BY <1>1, <3>1, <3>4
  <2> QED BY <1>1, <1>2, <1>7, <2>1, <2>2 DEF Inv, BackgroundInv
<1> QED BY <1>11, <1>12, <1>13, <1>14, <1>15, <1>16 DEF Inv

(* A new and empty log behind all others.                                   *)
LEMMA LogCreated ==
  ASSUME Inv, NEW f \in Nat, f \notin DOMAIN logs, logs' = Put(logs, f, EmptyFile)
  PROVE  /\ DOMAIN logs' = DOMAIN logs \union {f}
         /\ logs'[f] = EmptyFile /\ LogEntries(logs'[f]) = {}
         /\ \A m \in DOMAIN logs : logs'[m] = logs[m]
         /\ \A m \in DOMAIN logs' : m \in DOMAIN logs \/ logs'[m] = EmptyFile
         /\ \A m \in DOMAIN logs' :
              /\ logs'[m] = [recs |-> logs'[m].recs, synced |-> logs'[m].synced]
              /\ logs'[m].recs \in Seq(Records)
              /\ logs'[m].synced \in 0..Len(logs'[m].recs)
              /\ LogEntries(logs'[m]) \subseteq Known
         /\ LogsInv'
<1>1. /\ DOMAIN logs' = DOMAIN logs \union {f} /\ logs'[f] = EmptyFile
      /\ \A m \in DOMAIN logs : logs'[m] = logs[m]
  <2>1. /\ DOMAIN Put(logs, f, EmptyFile) = DOMAIN logs \union {f}
        /\ Put(logs, f, EmptyFile)[f] = EmptyFile
        /\ \A m \in DOMAIN logs : m # f => Put(logs, f, EmptyFile)[m] = logs[m]
    BY DEF Put
  <2> QED BY <2>1
<1>2. /\ EmptyFile.recs = <<>> /\ EmptyFile.synced = 0 /\ Len(EmptyFile.recs) = 0
      /\ EmptyFile = [recs |-> EmptyFile.recs, synced |-> EmptyFile.synced]
      /\ EmptyFile.recs \in Seq(Records)
  BY DEF EmptyFile
<1>3. LogEntries(EmptyFile) = {} /\ EmptyFile.synced \in 0..Len(EmptyFile.recs)
  BY <1>2 DEF LogEntries
<1>4. ASSUME NEW m \in DOMAIN logs'
      PROVE  /\ logs'[m] = [recs |-> logs'[m].recs, synced |-> logs'[m].synced]
             /\ logs'[m].recs \in Seq(Records)
             /\ logs'[m].synced \in 0..Len(logs'[m].recs)
             /\ LogEntries(logs'[m]) \subseteq Known
  <2>1. CASE m = f
    BY <1>1, <1>2, <1>3, <2>1
  <2>2. CASE m # f
    <3>1. m \in DOMAIN logs /\ logs'[m] = logs[m]
      BY <1>1, <2>2
    <3> QED BY <3>1 DEF Inv, TypeInv
  <2> QED BY <2>1, <2>2
<1>5. LogsInv'
  <2>1. ASSUME NEW n \in DOMAIN logs', NEW i \in 1..Len(logs'[n].recs),
               NEW j \in 1..Len(logs'[n].recs), i # j
        PROVE  logs'[n].recs[i] # logs'[n].recs[j]
    <3>1. n # f
      BY <1>1, <1>2
    <3> QED BY <1>1, <2>1, <3>1 DEF Inv, LogsInv
  <2>2. ASSUME NEW m \in DOMAIN logs', NEW n \in DOMAIN logs', m # n
        PROVE  LogEntries(logs'[m]) \intersect LogEntries(logs'[n]) = {}
    BY <1>1, <1>3, <2>2 DEF Inv, LogsInv
  <2> QED BY <2>1, <2>2 DEF LogsInv
<1> QED BY <1>1, <1>3, <1>4, <1>5

(* MakeRoomForWrite starts a new log and a new memtable.                    *)
LEMMA SwitchMemTableInv ==
  ASSUME Inv, SwitchMemTable
  PROVE  Inv'
<1>1. /\ pc = "open" /\ ~hasImm /\ hasImm' = TRUE /\ imm' = mem /\ mem' = {}
      /\ logs' = Put(logs, vs.next, EmptyFile) /\ logfile' = vs.next
      /\ vs' = [vs EXCEPT !.next = @ + 1]
      /\ UNCHANGED <<tables, manifests, current, pc, bg, todo, edit, trash,
                     written, acked, synced, gone>>
  BY DEF SwitchMemTable, boundVars, histVars
<1>2. Live /\ ~Opening' /\ Live' /\ Running' /\ Running
  BY <1>1 DEF Live, Opening, Running
<1>3. /\ vs.next \in Nat /\ vs.log \in Nat /\ logfile \in Nat /\ current # 0
      /\ \A n \in DOMAIN logs : n \in Nat /\ n <= logfile
      /\ vs.log <= logfile /\ logfile < vs.next /\ logfile \in DOMAIN logs
  BY <1>2, LiveFacts
<1>4. vs.next \notin DOMAIN logs
  BY <1>3
<1>5. /\ DOMAIN logs' = DOMAIN logs \union {vs.next}
      /\ logs'[vs.next] = EmptyFile /\ LogEntries(logs'[vs.next]) = {}
      /\ \A m \in DOMAIN logs : logs'[m] = logs[m]
      /\ \A m \in DOMAIN logs' : m \in DOMAIN logs \/ logs'[m] = EmptyFile
      /\ \A m \in DOMAIN logs' :
           /\ logs'[m] = [recs |-> logs'[m].recs, synced |-> logs'[m].synced]
           /\ logs'[m].recs \in Seq(Records)
           /\ logs'[m].synced \in 0..Len(logs'[m].recs)
           /\ LogEntries(logs'[m]) \subseteq Known
      /\ LogsInv'
  BY <1>1, <1>3, <1>4, LogCreated
<1>6. /\ vs' \in [files : SUBSET Nat, log : Nat, next : Nat, manifest : Nat,
                  last : Nat]
      /\ vs'.files = vs.files /\ vs'.log = vs.log /\ vs'.next = vs.next + 1
      /\ vs'.manifest = vs.manifest /\ vs'.last = vs.last
  BY <1>1 DEF Inv, TypeInv
<1>7. Known' = Known
  BY <1>1, KnownKept
<1>8. TypeInv'
  <2>1. hasImm' \in BOOLEAN
    BY <1>1
  <2>2. DOMAIN logs' \subseteq Nat /\ vs'.last <= written' /\ logfile' \in Nat
        /\ mem' \subseteq Known /\ imm' \subseteq Known
    BY <1>1, <1>3, <1>5, <1>6 DEF Inv, TypeInv
  <2> QED BY <1>1, <1>5, <1>6, <1>7, <2>1, <2>2 DEF Inv, TypeInv
<1>9. DirInv'
  <2>1. ASSUME NEW k \in manifests[current].synced..Len(manifests[current].recs)
        PROVE  LET recs == manifests[current].recs
                   F == FilesUpTo(recs, k)
               IN  /\ \A n \in F : n \in DOMAIN tables' /\ tables'[n] = tables[n]
                   /\ \A n \in From(logs, recs[k].log) :
                        n \in DOMAIN logs' /\ logs'[n] = logs[n]
                   /\ \A n \in From(logs', recs[k].log) :
                        n \in DOMAIN logs \/ logs'[n] = EmptyFile
    BY <1>1, <1>3, <1>5, PrefixNumbers DEF From
  <2>2. current \in DOMAIN manifests'
    BY <1>1, <1>3, CurrentManifest
  <2> QED BY <1>1, <1>3, <2>1, <2>2, DirKept
<1>10. IdleInv' /\ OpeningInv' /\ TrashInv'
  <2>1. IdleInv'
    BY <1>1, <1>2 DEF Inv, IdleInv
  <2> QED BY <1>1, <1>2, <1>6, <2>1 DEF Inv, OpeningInv, TrashInv
<1>11. vs.log = logfile /\ mem = LogEntries(logs[logfile])
  BY <1>1, <1>2 DEF Inv, LiveInv
<1>12. LiveInv'
  <2>1. /\ current' # 0 /\ vs'.manifest = current'
        /\ manifests'[current'].synced =
             IF Logging' THEN Len(manifests'[current'].recs) - 1
             ELSE Len(manifests'[current'].recs)
        /\ vs'.files = FilesUpTo(manifests'[current'].recs,
                                 manifests'[current'].synced)
        /\ vs'.log = manifests'[current'].recs[manifests'[current'].synced].log
        /\ manifests'[current'].recs[Len(manifests'[current'].recs)].last <= vs'.last
    BY <1>1, <1>2, <1>6 DEF Inv, LiveInv, Logging
  <2>2. manifests'[current'].recs[Len(manifests'[current'].recs)].next <= vs'.next
    <3>1. PICK l : l = manifests[current].recs[Len(manifests[current].recs)].next
      OBVIOUS
    <3>2. l <= vs.next /\ l \in Nat
      BY <1>2, <1>3, <3>1, CurrentManifest, PrefixNumbers DEF Inv, LiveInv
    <3>3. l <= vs.next + 1
      BY <1>3, <3>2
    <3> QED BY <1>1, <1>6, <3>1, <3>3
  <2>3. From(logs', vs'.log) = {vs'.log, logfile'}
    <3>1. ASSUME NEW n \in DOMAIN logs', n >= vs.log PROVE n \in {vs.log, vs.next}
      BY <1>2, <1>5, <1>11, <3>1 DEF Inv, LiveInv, From
    <3>2. vs.next >= vs.log /\ vs.log >= vs.log
      BY <1>3
    <3> QED BY <1>1, <1>3, <1>5, <1>6, <1>11, <3>1, <3>2 DEF From
  <2>4. vs'.log <= logfile' /\ logfile' < vs'.next /\ vs'.log # logfile'
    BY <1>1, <1>3, <1>6
  <2>5. imm' = LogEntries(logs'[vs'.log]) /\ mem' = LogEntries(logs'[logfile'])
    BY <1>1, <1>3, <1>5, <1>6, <1>11
  <2>6. \A x \in mem' \union imm' \union Stored(tables', vs'.files) :
          x.s <= vs'.last
    BY <1>1, <1>2, <1>6 DEF Inv, LiveInv
  <2> QED BY <1>1, <2>1, <2>2, <2>3, <2>4, <2>5, <2>6 DEF LiveInv
<1>13. BackgroundInv'
  <2>1. bg' = bg /\ edit' = edit /\ tables' = tables /\ (Logging' <=> Logging)
    BY <1>1 DEF Logging
  <2>2. bg \notin {"flush", "flushlog"}
    BY <1>1 DEF Inv, BackgroundInv
  <2>3. bg # "idle" => \A n \in edit.add : n < vs'.next
    <3> SUFFICES ASSUME bg # "idle", NEW n \in edit.add PROVE n < vs'.next
      OBVIOUS
    <3>1. n < vs.next /\ n \in Nat
      BY DEF Inv, BackgroundInv, TypeInv, Edits
    <3> QED BY <1>3, <1>6, <3>1
  <2> QED BY <1>1, <1>2, <1>6, <2>1, <2>2, <2>3 DEF Inv, BackgroundInv
<1> QED BY <1>5, <1>8, <1>9, <1>10, <1>12, <1>13 DEF Inv

-----------------------------------------------------------------------------
(* The background thread. *)

(* LiveInv is kept by steps that change nothing it speaks of.               *)
LEMMA LiveKept ==
  ASSUME Inv, Live, pc' = pc, current' = current,
         manifests'[current] = manifests[current], Logging' <=> Logging,
         vs'.files = vs.files, vs'.log = vs.log, vs'.manifest = vs.manifest,
         vs'.last = vs.last, vs'.next \in Nat, vs.next <= vs'.next,
         From(logs', vs.log) = From(logs, vs.log),
         \A m \in From(logs, vs.log) : logs'[m] = logs[m],
         logfile' = logfile, mem' = mem, imm' = imm, hasImm' = hasImm,
         written' = written, acked' \subseteq acked,
         Stored(tables', vs.files) = Stored(tables, vs.files)
  PROVE  LiveInv'
<1>1. /\ current' # 0 /\ vs'.manifest = current'
      /\ manifests'[current'].synced =
           IF Logging' THEN Len(manifests'[current'].recs) - 1
           ELSE Len(manifests'[current'].recs)
      /\ vs'.files = FilesUpTo(manifests'[current'].recs,
                               manifests'[current'].synced)
      /\ vs'.log = manifests'[current'].recs[manifests'[current'].synced].log
      /\ manifests'[current'].recs[Len(manifests'[current'].recs)].last <= vs'.last
      /\ From(logs', vs'.log) = {vs'.log, logfile'}
  BY DEF Inv, LiveInv
<1>2. /\ vs.next \in Nat /\ logfile \in Nat /\ vs.log <= logfile
      /\ logfile < vs.next /\ current # 0
      /\ vs.log \in From(logs, vs.log) /\ logfile \in From(logs, vs.log)
  BY LiveFacts DEF Inv, LiveInv
<1>3. vs'.log <= logfile' /\ logfile' < vs'.next
  BY <1>2
<1>4. manifests'[current'].recs[Len(manifests'[current'].recs)].next <= vs'.next
  <2>1. PICK l : l = manifests[current].recs[Len(manifests[current].recs)].next
    OBVIOUS
  <2>2. l <= vs.next /\ l \in Nat
    BY <1>2, <2>1, CurrentManifest, PrefixNumbers DEF Inv, LiveInv
  <2>3. l <= vs'.next
    BY <1>2, <2>2
  <2> QED BY <2>1, <2>3
<1>5. logs'[vs'.log] = logs[vs.log] /\ logs'[logfile'] = logs[logfile]
  BY <1>2
<1>6. /\ ~hasImm' => imm' = {} /\ vs'.log = logfile'
      /\ hasImm' => imm' = LogEntries(logs'[vs'.log]) /\ vs'.log # logfile'
  BY <1>5 DEF Inv, LiveInv
<1>7. /\ pc' # "syncing" => mem' = LogEntries(logs'[logfile'])
      /\ pc' = "syncing" =>
           /\ LogEntries(logs'[logfile']) =
                mem' \union {Entry(written', vs'.last + 1)}
           /\ Entry(written', vs'.last + 1) \notin mem' /\ vs'.last < written'
           /\ written' \notin acked'
  BY <1>5 DEF Inv, LiveInv
<1>8. \A e \in mem' \union imm' \union Stored(tables', vs'.files) : e.s <= vs'.last
  BY DEF Inv, LiveInv
<1> QED BY <1>1, <1>3, <1>4, <1>6, <1>7, <1>8 DEF LiveInv

(* A new table disturbs none that the MANIFEST names.                       *)
LEMMA TableBuilt ==
  ASSUME Inv, Live, NEW E, E \subseteq Known, tables' = Put(tables, vs.next, E)
  PROVE  /\ DOMAIN tables' = DOMAIN tables \union {vs.next}
         /\ tables'[vs.next] = E /\ Stored(tables', {vs.next}) = E
         /\ \A m \in DOMAIN tables : m # vs.next => tables'[m] = tables[m]
         /\ \A m \in DOMAIN tables' : tables'[m] \subseteq Known
         /\ DOMAIN tables' \subseteq Nat
         /\ vs.next \notin vs.files
         /\ \A F \in SUBSET vs.files : Stored(tables', F) = Stored(tables, F)
         /\ \A k \in manifests[current].synced..Len(manifests[current].recs) :
              \A n \in FilesUpTo(manifests[current].recs, k) :
                n \in DOMAIN tables' /\ tables'[n] = tables[n]
<1>1. /\ DOMAIN tables' = DOMAIN tables \union {vs.next}
      /\ tables'[vs.next] = E
      /\ \A m \in DOMAIN tables : m # vs.next => tables'[m] = tables[m]
  BY DEF Put
<1>2. Stored(tables', {vs.next}) = E
  BY <1>1 DEF Stored
<1>3. /\ vs.next \in Nat /\ current # 0
      /\ \A n \in vs.files : n \in DOMAIN tables /\ n \in Nat /\ n < vs.next
  BY LiveFacts
<1>4. vs.next \notin vs.files
  BY <1>3
<1>5. \A m \in DOMAIN tables' : tables'[m] \subseteq Known
  <2> SUFFICES ASSUME NEW m \in DOMAIN tables' PROVE tables'[m] \subseteq Known
    OBVIOUS
  <2>1. CASE m = vs.next
    BY <1>1, <2>1
  <2>2. CASE m # vs.next
    <3>1. m \in DOMAIN tables /\ tables'[m] = tables[m]
      BY <1>1, <2>2
    <3> QED BY <3>1 DEF Inv, TypeInv
  <2> QED BY <2>1, <2>2
<1>6. \A F \in SUBSET vs.files : Stored(tables', F) = Stored(tables, F)
  <2>1. \A m \in vs.files : tables'[m] = tables[m]
    BY <1>1, <1>3, <1>4
  <2> QED BY <2>1 DEF Stored
<1>7. ASSUME NEW k \in manifests[current].synced..Len(manifests[current].recs),
             NEW n \in FilesUpTo(manifests[current].recs, k)
      PROVE  n \in DOMAIN tables' /\ tables'[n] = tables[n]
  <2>1. n < vs.next
    BY LivePrefix
  <2>2. n \in Nat /\ n \in DOMAIN tables
    BY <1>3, PrefixNumbers
  <2>3. n # vs.next
    BY <1>3, <2>1, <2>2
  <2> QED BY <1>1, <2>2, <2>3
<1>8. DOMAIN tables' \subseteq Nat
  BY <1>1, <1>3 DEF Inv, TypeInv
<1> QED BY <1>1, <1>2, <1>4, <1>5, <1>6, <1>7, <1>8

(* Steps that only build tables keep what is said of the directory.         *)
LEMMA BuildKept ==
  ASSUME Inv, Live, NEW E, E \subseteq Known,
         tables' \in {tables, Put(tables, vs.next, E)},
         UNCHANGED <<logs, manifests, current, written, synced, gone>>,
         acked' \subseteq acked
  PROVE  LogsInv' /\ DirInv'
<1>1. LogsInv'
  BY DEF Inv, LogsInv
<1>2. current # 0
  BY LiveFacts
<1>3. current \in DOMAIN manifests'
  BY <1>2, CurrentManifest
<1>4. ASSUME NEW k \in manifests[current].synced..Len(manifests[current].recs)
      PROVE  LET recs == manifests[current].recs
                 F == FilesUpTo(recs, k)
             IN  /\ \A n \in F : n \in DOMAIN tables' /\ tables'[n] = tables[n]
                 /\ \A n \in From(logs, recs[k].log) :
                      n \in DOMAIN logs' /\ logs'[n] = logs[n]
                 /\ \A n \in From(logs', recs[k].log) :
                      n \in DOMAIN logs \/ logs'[n] = EmptyFile
  <2>1. \A n \in FilesUpTo(manifests[current].recs, k) :
          n \in DOMAIN tables' /\ tables'[n] = tables[n]
    <3>1. CASE tables' = tables
      BY <1>2, <3>1, PrefixNumbers
    <3>2. CASE tables' = Put(tables, vs.next, E)
      BY <3>2, TableBuilt
    <3> QED BY <3>1, <3>2
  <2> QED BY <2>1 DEF From
<1>5. DirInv'
  BY <1>2, <1>3, <1>4, DirKept
<1> QED BY <1>1, <1>5

(* A VersionEdit before LogAndApply completes it.                           *)
LEMMA EditMade ==
  ASSUME NEW A, A \subseteq Nat, NEW D, D \subseteq Nat, NEW l \in Int,
         NEW e, e = [add |-> A, del |-> D, log |-> l, next |-> None, last |-> None]
  PROVE  e \in Edits /\ e.add = A /\ e.del = D /\ e.log = l
<1>1. None \in Int
  BY DEF None
<1> QED BY <1>1 DEF Edits

(* WriteLevel0Table.                                                        *)
LEMMA FlushBuildInv ==
  ASSUME Inv, FlushBuild
  PROVE  Inv'
<1>1. /\ Running /\ bg = "idle" /\ trash = {} /\ hasImm /\ bg' = "flush"
      /\ tables' = Put(tables, vs.next, imm)
      /\ edit' = [NoEdit EXCEPT !.add = {vs.next}, !.log = logfile]
      /\ vs' = [vs EXCEPT !.next = @ + 1]
      /\ UNCHANGED <<logs, manifests, current, pc, logfile, mem, imm, hasImm,
                     todo, trash, written, acked, synced, gone>>
  BY DEF FlushBuild, BackgroundIdle, memVars, boundVars, histVars
<1>2. Live /\ ~Opening' /\ Live' /\ Running' /\ ~Logging /\ ~Logging'
  BY <1>1 DEF Live, Opening, Running, Logging
<1>3. imm \subseteq Known /\ vs.next \in Nat /\ logfile \in Nat
  BY DEF Inv, TypeInv
<1>4. /\ DOMAIN tables' = DOMAIN tables \union {vs.next}
      /\ Stored(tables', {vs.next}) = imm
      /\ \A m \in DOMAIN tables' : tables'[m] \subseteq Known
      /\ DOMAIN tables' \subseteq Nat /\ vs.next \notin vs.files
      /\ Stored(tables', vs.files) = Stored(tables, vs.files)
  BY <1>1, <1>2, <1>3, TableBuilt
<1>5. /\ edit' \in Edits /\ edit'.add = {vs.next} /\ edit'.del = {}
      /\ edit'.log = logfile
  <2>1. edit' = [add |-> {vs.next}, del |-> {}, log |-> logfile,
                 next |-> None, last |-> None]
    BY <1>1 DEF NoEdit
  <2>2. {vs.next} \subseteq Nat /\ {} \subseteq Nat /\ logfile \in Int
    BY <1>3
  <2> QED BY ONLY <2>1, <2>2, EditMade
<1>6. /\ vs' \in [files : SUBSET Nat, log : Nat, next : Nat, manifest : Nat,
                  last : Nat]
      /\ vs'.files = vs.files /\ vs'.log = vs.log /\ vs'.next = vs.next + 1
      /\ vs'.manifest = vs.manifest /\ vs'.last = vs.last
  BY <1>1 DEF Inv, TypeInv
<1>7. Known' = Known
  BY <1>1, KnownKept
<1>8. TypeInv'
  <2>1. hasImm' \in BOOLEAN
    BY <1>1 DEF Inv, TypeInv
  <2> QED BY <1>1, <1>4, <1>5, <1>6, <1>7, <2>1 DEF Inv, TypeInv
<1>9. LogsInv' /\ DirInv'
  BY <1>1, <1>2, <1>3, BuildKept
<1>10. IdleInv'
  <2>1. pc' \in {"open", "syncing"}
    BY <1>1 DEF Running
  <2> QED BY <1>1, <1>2, <2>1 DEF IdleInv
<1>11. OpeningInv' /\ TrashInv'
  BY <1>1, <1>2 DEF OpeningInv, TrashInv
<1>12. LiveInv'
  <2>1. vs'.next \in Nat /\ vs.next <= vs'.next
    BY <1>3, <1>6
  <2>2. hasImm' = hasImm
    BY <1>1
  <2> QED BY <1>1, <1>2, <1>4, <1>6, <2>1, <2>2, LiveKept
<1>13. BackgroundInv'
  <2>1. vs.next < vs'.next
    BY <1>3, <1>6
  <2> QED BY <1>1, <1>2, <1>4, <1>5, <1>6, <2>1 DEF BackgroundInv
<1> QED BY <1>8, <1>9, <1>10, <1>11, <1>12, <1>13 DEF Inv

(* DoCompactionWork.                                                        *)
LEMMA CompactBuildInv ==
  ASSUME Inv, NEW ins \in SUBSET vs.files,
         NEW kept \in SUBSET TableEntries(ins), CompactBuild(ins, kept)
  PROVE  Inv'
<1>0. PICK new : new = IF kept = {} THEN {} ELSE {vs.next}
  OBVIOUS
<1>1. /\ Running /\ bg = "idle" /\ trash = {} /\ ~hasImm /\ bg' = "compact"
      /\ tables' = IF kept = {} THEN tables ELSE Put(tables, vs.next, kept)
      /\ edit' = [NoEdit EXCEPT !.add = new, !.del = ins]
      /\ vs' = [vs EXCEPT !.next = @ + Cardinality(new)]
      /\ acked' = acked \ (Ids(TableEntries(ins)) \ Ids(kept))
      /\ UNCHANGED <<logs, manifests, current, pc, logfile, mem, imm, hasImm,
                     todo, trash, written, synced, gone>>
  BY <1>0 DEF CompactBuild, BackgroundIdle, memVars
<1>2. Live /\ ~Opening' /\ Live' /\ Running' /\ ~Logging /\ ~Logging'
  BY <1>1 DEF Live, Opening, Running, Logging
<1>3. /\ vs.next \in Nat /\ vs.files \subseteq DOMAIN tables
      /\ vs.files \subseteq Nat
  BY <1>2, LiveFacts DEF Inv, TypeInv
<1>4. TableEntries(ins) = Stored(tables, ins) /\ kept \subseteq Stored(tables, ins)
  BY DEF TableEntries, Stored
<1>5. kept \subseteq Known
  <2>1. Stored(tables, ins) \subseteq Known
    BY <1>3 DEF Inv, TypeInv, Stored
  <2> QED BY <1>4, <2>1
<1>6. Cardinality(new) \in Nat /\ (kept # {} => Cardinality(new) = 1)
  <2>1. CASE kept = {}
    BY ONLY <1>0, <2>1, FS_EmptySet
  <2>2. CASE kept # {}
    <3>1. new = {vs.next}
      BY <1>0, <2>2
    <3>2. Cardinality({vs.next}) = 1
      BY ONLY FS_Singleton
    <3> QED BY <2>2, <3>1, <3>2
  <2> QED BY <2>1, <2>2
<1>7. /\ new \subseteq DOMAIN tables' /\ Stored(tables', new) = kept
      /\ \A m \in DOMAIN tables' : tables'[m] \subseteq Known
      /\ DOMAIN tables' \subseteq Nat /\ new \intersect vs.files = {}
      /\ \A F \in SUBSET vs.files : Stored(tables', F) = Stored(tables, F)
  <2>1. CASE kept = {}
    BY <1>0, <1>1, <2>1 DEF Stored, Inv, TypeInv
  <2>2. CASE kept # {}
    <3>1. tables' = Put(tables, vs.next, kept) /\ new = {vs.next}
      BY <1>0, <1>1, <2>2
    <3>2. /\ DOMAIN tables' = DOMAIN tables \union {vs.next}
          /\ Stored(tables', {vs.next}) = kept
          /\ \A m \in DOMAIN tables' : tables'[m] \subseteq Known
          /\ DOMAIN tables' \subseteq Nat /\ vs.next \notin vs.files
          /\ \A F \in SUBSET vs.files : Stored(tables', F) = Stored(tables, F)
      BY <1>2, <1>5, <3>1, TableBuilt
    <3> QED BY ONLY <3>1, <3>2
  <2> QED BY <2>1, <2>2
<1>8. new \subseteq Nat /\ \A a, b \in new : a = b
  BY <1>0, <1>3
<1>9. ins \subseteq Nat
  BY <1>3
<1>10. /\ edit' \in Edits /\ edit'.add = new /\ edit'.del = ins
       /\ edit'.log = None
  <2>1. edit' = [add |-> new, del |-> ins, log |-> None,
                 next |-> None, last |-> None]
    BY <1>1 DEF NoEdit
  <2>2. None \in Int
    BY DEF None
  <2>3. new \subseteq Nat /\ ins \subseteq Nat
    BY <1>8, <1>9
  <2>4. PICK l : l = None
    OBVIOUS
  <2>5. edit' = [add |-> new, del |-> ins, log |-> l, next |-> None, last |-> None]
        /\ l \in Int
    BY ONLY <2>1, <2>2, <2>4
  <2>6. edit' \in Edits /\ edit'.add = new /\ edit'.del = ins /\ edit'.log = l
    BY ONLY <2>3, <2>5, EditMade
  <2> QED BY <2>4, <2>6
<1>11. vs.next + Cardinality(new) \in Nat /\ vs.next <= vs.next + Cardinality(new)
       /\ \A n \in new : n < vs.next + Cardinality(new)
  BY <1>0, <1>3, <1>6
<1>12. /\ vs' \in [files : SUBSET Nat, log : Nat, next : Nat, manifest : Nat,
                   last : Nat]
       /\ vs'.files = vs.files /\ vs'.log = vs.log
       /\ vs'.next = vs.next + Cardinality(new)
       /\ vs'.manifest = vs.manifest /\ vs'.last = vs.last
  BY <1>1, <1>11 DEF Inv, TypeInv
<1>13. Known' = Known /\ acked' \subseteq acked
  BY <1>1, KnownKept
<1>14. TypeInv'
  <2>1. hasImm' \in BOOLEAN
    BY <1>1 DEF Inv, TypeInv
  <2>2. acked' \subseteq 1..written'
    BY <1>1, <1>13 DEF Inv, TypeInv
  <2> QED BY <1>1, <1>7, <1>10, <1>12, <1>13, <2>1, <2>2 DEF Inv, TypeInv
<1>15. LogsInv' /\ DirInv'
  <2>1. tables' \in {tables, Put(tables, vs.next, kept)}
    BY <1>1
  <2> QED BY <1>1, <1>2, <1>5, <1>13, <2>1, BuildKept
<1>16. IdleInv'
  <2>1. pc' \in {"open", "syncing"}
    BY <1>1 DEF Running
  <2> QED BY <1>1, <1>2, <2>1 DEF IdleInv
<1>17. OpeningInv' /\ TrashInv'
  BY <1>1, <1>2 DEF OpeningInv, TrashInv
<1>18. LiveInv'
  <2>1. hasImm' = hasImm
    BY <1>1
  <2>2. Stored(tables', vs.files) = Stored(tables, vs.files)
    BY <1>7
  <2> QED BY <1>1, <1>2, <1>11, <1>12, <1>13, <2>1, <2>2, LiveKept
<1>19. BackgroundInv'
  <2>1. Stored(tables', ins) = Stored(tables, ins)
    BY <1>7
  <2>2. acked' \intersect Ids(Stored(tables', ins)) \subseteq Ids(kept)
    BY <1>1, <1>4, <2>1
  <2> QED BY <1>1, <1>2, <1>4, <1>7, <1>8, <1>10, <1>11, <1>12, <2>1, <2>2
          DEF BackgroundInv
<1> QED BY <1>14, <1>15, <1>16, <1>17, <1>18, <1>19 DEF Inv

(* LogAndApply appends the edit to the MANIFEST: what a crash leaves of it   *)
(* describes the present version or the next one.                           *)
LEMMA LogEditInv ==
  ASSUME Inv, LogEdit
  PROVE  Inv'
<1>0. PICK x : x = edit'
  OBVIOUS
<1>1. /\ Running /\ bg \in {"flush", "compact"}
      /\ x = CompleteEdit(edit)
      /\ manifests' = [manifests EXCEPT ![vs.manifest] = AddRecord(@, x)]
      /\ bg' = IF bg = "flush" THEN "flushlog" ELSE "compactlog"
      /\ UNCHANGED <<logs, tables, current, pc, vs, logfile, mem, imm, hasImm,
                     todo, trash, written, acked, synced, gone>>
  BY <1>0 DEF LogEdit, memVars, boundVars, histVars
<1>2. Live /\ ~Opening' /\ Live' /\ Running' /\ ~Logging /\ Logging'
  BY <1>1 DEF Live, Opening, Running, Logging
<1>3. /\ current # 0 /\ vs.manifest = current /\ vs.log \in Nat
      /\ vs.next \in Nat /\ vs.last \in Nat /\ logfile \in Nat
      /\ vs.log <= logfile /\ logfile < vs.next /\ current < vs.next
      /\ vs.last <= written
  BY <1>2, LiveFacts DEF Inv, TypeInv
<1>4. /\ Sound(logs, tables, acked, synced, gone, Target, TargetLog)
      /\ TargetLog \in {vs.log, logfile}
      /\ \A n \in Target : n < vs.next
      /\ \A e \in Stored(tables, Target) : e.s <= vs.last
  BY <1>2, TargetSound
<1>5. TargetLog \in Nat /\ TargetLog < vs.next
  BY <1>3, <1>4
<1>6. /\ x \in Edits /\ x.add = edit.add /\ x.del = edit.del
      /\ x.log = TargetLog /\ x.next = vs.next /\ x.last = vs.last
  <2>1. edit \in Edits
    BY DEF Inv, TypeInv
  <2>2. TargetLog \in Int /\ vs.next \in Int /\ vs.last \in Int
    BY <1>3, <1>5
  <2>3. x = [edit EXCEPT !.log = TargetLog, !.next = vs.next, !.last = vs.last]
    BY <1>1 DEF CompleteEdit, TargetLog
  <2> QED BY ONLY <2>1, <2>2, <2>3 DEF Edits
<1>7. PICK rs, L : rs = manifests[current].recs /\ L = Len(rs)
  OBVIOUS
<1>8. /\ current \in DOMAIN manifests /\ rs \in Seq(Edits) /\ L \in Nat /\ L > 0
      /\ manifests[current] = [recs |-> rs, synced |-> L]
      /\ FilesUpTo(rs, L) = vs.files /\ rs[L].log = vs.log
      /\ rs[L].next <= vs.next /\ rs[L].last <= vs.last
  <2>1. manifests[current].synced = L /\ FilesUpTo(rs, L) = vs.files
        /\ rs[L].log = vs.log /\ rs[L].next <= vs.next /\ rs[L].last <= vs.last
    BY <1>2, <1>7 DEF Inv, LiveInv
  <2>2. current \in DOMAIN manifests /\ rs \in Seq(Edits) /\ L \in Nat
        /\ manifests[current].synced \in 1..L
    BY <1>3, <1>7, CurrentManifest
  <2>3. L > 0
    BY <2>1, <2>2
  <2>4. manifests[current] = [recs |-> rs, synced |-> L]
    BY <1>7, <2>1, <2>2 DEF Inv, TypeInv
  <2> QED BY <2>1, <2>2, <2>3, <2>4
<1>9. PICK rs2 : rs2 = Append(rs, x)
  OBVIOUS
<1>10. /\ rs2 \in Seq(Edits) /\ Len(rs2) = L + 1 /\ rs2[L + 1] = x
       /\ \A k \in 1..L : rs2[k] = rs[k] /\ FilesUpTo(rs2, k) = FilesUpTo(rs, k)
  BY ONLY <1>6, <1>7, <1>8, <1>9, FilesAppend
<1>11. L \in 1..L /\ rs2[L] = rs[L] /\ FilesUpTo(rs2, L) = vs.files
  BY <1>8, <1>10
<1>12. FilesUpTo(rs2, L + 1) = Target
  <2>1. FilesUpTo(rs2, L + 1) =
          (FilesUpTo(rs2, L) \ rs2[L + 1].del) \union rs2[L + 1].add
    BY ONLY <1>8, FilesStep
  <2> QED BY <1>6, <1>10, <1>11, <2>1 DEF Target
<1>13. /\ DOMAIN manifests' = DOMAIN manifests
       /\ manifests'[current] = [recs |-> rs2, synced |-> L]
       /\ \A n \in DOMAIN manifests : n # current => manifests'[n] = manifests[n]
  <2>1. AddRecord(manifests[current], x) = [recs |-> rs2, synced |-> L]
    <3>1. PICK f : f = manifests[current]
      OBVIOUS
    <3>2. f = [recs |-> rs, synced |-> L]
      BY <1>8, <3>1
    <3>3. f = [recs |-> f.recs, synced |-> f.synced] /\ f.recs = rs /\ f.synced = L
      BY ONLY <3>2
    <3>4. AddRecord(f, x) = [recs |-> Append(f.recs, x), synced |-> f.synced]
      BY ONLY <3>3, FileOperations
    <3> QED BY <1>9, <3>1, <3>3, <3>4
  <2> QED BY <1>1, <1>3, <1>8, <2>1
<1>14. Known' = Known
  BY <1>1, KnownKept
<1>15. TypeInv'
  <2>1. \A n \in DOMAIN manifests' :
          /\ manifests'[n] = [recs |-> manifests'[n].recs,
                              synced |-> manifests'[n].synced]
          /\ manifests'[n].recs \in Seq(Edits)
          /\ manifests'[n].synced \in 0..Len(manifests'[n].recs)
    <3> SUFFICES ASSUME NEW n \in DOMAIN manifests'
                 PROVE  /\ manifests'[n] = [recs |-> manifests'[n].recs,
                                            synced |-> manifests'[n].synced]
                        /\ manifests'[n].recs \in Seq(Edits)
                        /\ manifests'[n].synced \in 0..Len(manifests'[n].recs)
      OBVIOUS
    <3>1. CASE n = current
      <4>1. L \in 0..(L + 1)
        BY <1>8
      <4> QED BY <1>10, <1>13, <3>1, <4>1
    <3>2. CASE n # current
      <4>1. n \in DOMAIN manifests /\ manifests'[n] = manifests[n]
        BY <1>13, <3>2
      <4> QED BY <4>1 DEF Inv, TypeInv
    <3> QED BY <3>1, <3>2
  <2>2. hasImm' \in BOOLEAN
    BY <1>1 DEF Inv, TypeInv
  <2>3. edit' \in Edits
    BY <1>0, <1>6
  <2> QED BY <1>1, <1>13, <1>14, <2>1, <2>2, <2>3 DEF Inv, TypeInv
<1>16. LogsInv'
  BY <1>1 DEF Inv, LogsInv
<1>17. DirInv'
  <2>1. PrefixInv(L)'
    <3>1. PrefixInv(L)
      <4>1. L \in manifests[current].synced..Len(manifests[current].recs)
        BY <1>7, <1>8
      <4> QED BY <1>3, <4>1, CurrentManifest
    <3>2. rs2[Len(rs2)].next = vs.next /\ manifests'[current'].recs = rs2
      BY <1>1, <1>6, <1>10, <1>13
    <3>3. rs[L].next <= rs2[Len(rs2)].next
      BY <1>8, <3>2
    <3> QED BY <1>1, <1>7, <1>8, <1>11, <3>1, <3>2, <3>3 DEF PrefixInv
  <2>2. PrefixInv(L + 1)'
    <3>1. manifests'[current'].recs = rs2
      BY <1>1, <1>13
    <3>2. vs.last \in 0..written
      BY <1>3 DEF Inv, TypeInv
    <3>3. vs.next <= vs.next
      BY <1>3
    <3> QED BY <1>1, <1>3, <1>4, <1>5, <1>6, <1>10, <1>12, <3>1, <3>2, <3>3
            DEF PrefixInv
  <2>3. L..(L + 1) = {L, L + 1}
    BY <1>8
  <2>4. \A k \in {L, L + 1} : PrefixInv(k)'
    BY <2>1, <2>2
  <2>5. /\ manifests'[current'].synced = L /\ Len(manifests'[current'].recs) = L + 1
        /\ current' \in DOMAIN manifests' /\ current' # 0
    BY <1>1, <1>3, <1>8, <1>10, <1>13
  <2> QED BY <1>8, <2>3, <2>4, <2>5 DEF DirInv
<1>18. IdleInv'
  <2>1. pc' \in {"open", "syncing"}
    BY <1>1 DEF Running
  <2> QED BY <1>1, <1>2, <2>1 DEF IdleInv
<1>19. trash = {} /\ OpeningInv' /\ TrashInv'
  <2>1. trash = {}
    BY <1>1 DEF Inv, TrashInv
  <2> QED BY <1>1, <1>2, <2>1 DEF OpeningInv, TrashInv
<1>20. LiveInv'
  <2>1. /\ manifests'[current'].recs = rs2 /\ manifests'[current'].synced = L
        /\ current' # 0 /\ vs'.manifest = current' /\ Len(rs2) - 1 = L
    BY <1>1, <1>3, <1>8, <1>10, <1>13
  <2>2. vs'.files = FilesUpTo(rs2, L) /\ vs'.log = rs2[L].log
    BY <1>1, <1>8, <1>11
  <2>3. rs2[Len(rs2)].next <= vs'.next /\ rs2[Len(rs2)].last <= vs'.last
    BY <1>1, <1>3, <1>6, <1>10
  <2>4. /\ From(logs', vs'.log) = {vs'.log, logfile'}
        /\ vs'.log <= logfile' /\ logfile' < vs'.next
        /\ \A e \in mem' \union imm' \union Stored(tables', vs'.files) :
             e.s <= vs'.last
    BY <1>1, <1>2 DEF Inv, LiveInv
  <2>5. /\ ~hasImm' => imm' = {} /\ vs'.log = logfile'
        /\ hasImm' => imm' = LogEntries(logs'[vs'.log]) /\ vs'.log # logfile'
    BY <1>1, <1>2 DEF Inv, LiveInv
  <2>6. /\ pc' # "syncing" => mem' = LogEntries(logs'[logfile'])
        /\ pc' = "syncing" =>
             /\ LogEntries(logs'[logfile']) =
                  mem' \union {Entry(written', vs'.last + 1)}
             /\ Entry(written', vs'.last + 1) \notin mem' /\ vs'.last < written'
             /\ written' \notin acked'
    BY <1>1, <1>2 DEF Inv, LiveInv
  <2> QED BY <1>2, <2>1, <2>2, <2>3, <2>4, <2>5, <2>6 DEF LiveInv
<1>21. BackgroundInv'
  <2>1. manifests'[current'].recs[Len(manifests'[current'].recs)] = edit'
    BY <1>0, <1>1, <1>10, <1>13
  <2>2. edit'.add = edit.add /\ edit'.del = edit.del /\ edit'.log = TargetLog
    BY <1>0, <1>6
  <2>3. /\ edit.add \subseteq DOMAIN tables \ vs.files
        /\ \A n \in edit.add : n < vs.next
        /\ \A a, b \in edit.add : a = b
    BY <1>1 DEF Inv, BackgroundInv
  <2>4. CASE bg = "flush"
    <3>1. hasImm' /\ hasImm
      BY <1>1, <2>4 DEF Inv, BackgroundInv
    <3>2. edit.log = logfile /\ edit.del = {} /\ Stored(tables, edit.add) = imm
      BY <2>4 DEF Inv, BackgroundInv
    <3>3. TargetLog = logfile
      BY <1>3, <3>2 DEF TargetLog, None
    <3>4. bg' = "flushlog" /\ ~(bg' = "idle" /\ Live')
      BY <1>1, <2>4
    <3> QED BY <1>1, <2>1, <2>2, <2>3, <3>1, <3>2, <3>3, <3>4
            DEF BackgroundInv
  <2>5. CASE bg = "compact"
    <3>1. /\ edit.log = None /\ edit.del \subseteq vs.files
          /\ Stored(tables, edit.add) \subseteq Stored(tables, edit.del)
          /\ acked \intersect Ids(Stored(tables, edit.del))
               \subseteq Ids(Stored(tables, edit.add))
      BY <2>5 DEF Inv, BackgroundInv
    <3>2. TargetLog = vs.log
      BY <3>1 DEF TargetLog
    <3>3. bg' = "compactlog"
      BY <1>1, <2>5
    <3> QED BY <1>1, <2>1, <2>2, <2>3, <3>1, <3>2, <3>3 DEF BackgroundInv
  <2> QED BY <1>1, <2>4, <2>5
<1> QED BY <1>15, <1>16, <1>17, <1>18, <1>19, <1>20, <1>21 DEF Inv

(* The files RemoveObsoleteFiles finds are not needed.                      *)
LEMMA ObsoleteFiles ==
  ASSUME NEW v, NEW A, NEW B, NEW C
  PROVE  \A f \in Obsolete(v, A, B, C) :
           /\ f[1] = "log" => f[2] < v.log
           /\ f[1] = "table" => f[2] \notin v.files
           /\ f[1] = "manifest" => f[2] < v.manifest
BY DEF Obsolete

(* LogAndApply: the MANIFEST is synced and the version installed.           *)
LEMMA ApplyEditInv ==
  ASSUME Inv, ApplyEdit
  PROVE  Inv'
<1>1. /\ Running /\ bg \in {"flushlog", "compactlog"}
      /\ manifests' = [manifests EXCEPT ![vs.manifest] = Sync(@)]
      /\ vs' = [vs EXCEPT !.files = Target, !.log = edit.log]
      /\ trash' = Obsolete(vs', DOMAIN logs, DOMAIN tables, DOMAIN manifests)
      /\ edit' = NoEdit /\ bg' = "idle"
      /\ UNCHANGED <<logs, tables, current, pc, logfile, mem, todo, written,
                     acked, synced>>
  BY DEF ApplyEdit, Target, boundVars
<1>2. /\ bg = "flushlog" => imm' = {} /\ hasImm' = FALSE /\ gone' = gone
      /\ bg = "compactlog" =>
           /\ imm' = imm /\ hasImm' = hasImm
           /\ gone' = gone \union
                Ids(Stored(tables, edit.del) \ Stored(tables, edit.add))
  BY DEF ApplyEdit, TableEntries, Stored
<1>3. Live /\ ~Opening' /\ Live' /\ Running' /\ Logging /\ ~Logging'
  BY <1>1 DEF Live, Opening, Running, Logging
<1>4. /\ current # 0 /\ vs.manifest = current /\ vs.log \in Nat
      /\ vs.next \in Nat /\ vs.last \in Nat /\ logfile \in Nat
      /\ vs.log <= logfile /\ logfile < vs.next /\ current < vs.next
      /\ vs.last <= written /\ logfile \in DOMAIN logs
      /\ \A n \in DOMAIN logs : n \in Nat /\ n <= logfile
  BY <1>3, LiveFacts DEF Inv, TypeInv
<1>5. PICK rs, L : rs = manifests[current].recs /\ L = Len(rs)
  OBVIOUS
<1>6. /\ current \in DOMAIN manifests /\ rs \in Seq(Edits) /\ L \in Nat /\ L > 0
      /\ L \in manifests[current].synced..Len(manifests[current].recs)
      /\ manifests[current].synced = L - 1
      /\ rs[L].next <= vs.next /\ rs[L].last <= vs.last /\ edit = rs[L]
  <2>1. /\ current \in DOMAIN manifests /\ rs \in Seq(Edits) /\ L \in Nat
        /\ manifests[current].synced \in 1..L
        /\ L \in manifests[current].synced..Len(manifests[current].recs)
    BY <1>4, <1>5, CurrentManifest
  <2>2. L > 0
    BY <2>1
  <2>3. /\ manifests[current].synced = L - 1
        /\ rs[L].next <= vs.next /\ rs[L].last <= vs.last
    BY <1>3, <1>5 DEF Inv, LiveInv
  <2>4. edit = rs[L]
    BY <1>3, <1>5 DEF Inv, BackgroundInv
  <2> QED BY <2>1, <2>2, <2>3, <2>4
<1>7. FilesUpTo(rs, L) = Target /\ rs[L].log = TargetLog
  <2>1. L # manifests[current].synced
    BY <1>6
  <2> QED BY <1>3, <1>5, <1>6, <2>1, LivePrefix
<1>8. /\ PrefixInv(L) /\ rs[L].log \in Nat
      /\ \A n \in Target : n \in Nat
  BY <1>4, <1>5, <1>6, <1>7, CurrentManifest, PrefixNumbers
<1>9. /\ edit.log = TargetLog /\ TargetLog \in Nat /\ TargetLog \in {vs.log, logfile}
      /\ \A e \in Stored(tables, Target) : e.s <= vs.last
      /\ Sound(logs, tables, acked, synced, gone, Target, TargetLog)
  BY <1>3, <1>6, <1>7, <1>8, TargetSound
<1>10. /\ edit.add \subseteq DOMAIN tables
       /\ \A a, b \in edit.add : a = b
       /\ bg = "flushlog" => hasImm /\ edit.log = logfile
       /\ bg = "compactlog" =>
            /\ edit.log = vs.log /\ edit.del \subseteq vs.files
            /\ Stored(tables, edit.add) \subseteq Stored(tables, edit.del)
            /\ acked \intersect Ids(Stored(tables, edit.del))
                 \subseteq Ids(Stored(tables, edit.add))
  BY <1>1 DEF Inv, BackgroundInv
<1>11. Sound(logs, tables, acked, synced, gone', Target, TargetLog)
  <2>1. CASE bg = "flushlog"
    BY <1>2, <1>9, <2>1
  <2>2. CASE bg = "compactlog"
    <3>1. Sound(logs, tables, acked, synced, gone, vs.files, vs.log)
      BY <1>3, LiveFacts
    <3>2. PICK D, A, g : D = edit.del /\ A = edit.add /\ g = gone'
      OBVIOUS
    <3>3. /\ D \subseteq vs.files /\ A \subseteq DOMAIN tables
          /\ \A a, b \in A : a = b
          /\ Stored(tables, A) \subseteq Stored(tables, D)
          /\ acked \intersect Ids(Stored(tables, D)) \subseteq Ids(Stored(tables, A))
          /\ g \subseteq gone \union Ids(Stored(tables, D) \ Stored(tables, A))
      BY <1>2, <1>10, <2>2, <3>2
    <3>4. Sound(logs, tables, acked, synced, g, (vs.files \ D) \union A, vs.log)
      BY ONLY <3>1, <3>3, SoundAfterCompaction
    <3>5. TargetLog = vs.log
      BY <1>9, <1>10, <2>2
    <3> QED BY <3>2, <3>4, <3>5 DEF Target
  <2> QED BY <1>1, <2>1, <2>2
<1>12. /\ DOMAIN manifests' = DOMAIN manifests
       /\ manifests'[current] = [recs |-> rs, synced |-> L]
       /\ \A n \in DOMAIN manifests : n # current => manifests'[n] = manifests[n]
  <2>1. Sync(manifests[current]) = [recs |-> rs, synced |-> L]
    <3>1. PICK f : f = manifests[current]
      OBVIOUS
    <3>2. f = [recs |-> f.recs, synced |-> f.synced] /\ f.recs = rs
      BY <1>5, <1>6, <3>1 DEF Inv, TypeInv
    <3>3. Sync(f) = [recs |-> f.recs, synced |-> Len(f.recs)]
      BY ONLY <3>2, FileOperations
    <3> QED BY <1>5, <3>1, <3>2, <3>3
  <2> QED BY <1>1, <1>4, <1>6, <2>1
<1>13. /\ vs' \in [files : SUBSET Nat, log : Nat, next : Nat, manifest : Nat,
                   last : Nat]
       /\ vs'.files = Target /\ vs'.log = TargetLog /\ vs'.next = vs.next
       /\ vs'.manifest = vs.manifest /\ vs'.last = vs.last
  <2>1. /\ vs \in [files : SUBSET Nat, log : Nat, next : Nat, manifest : Nat,
                   last : Nat]
    BY DEF Inv, TypeInv
  <2>2. Target \subseteq Nat /\ TargetLog \in Nat
        /\ vs' = [vs EXCEPT !.files = Target, !.log = TargetLog]
    BY <1>1, <1>8, <1>9
  <2> QED BY ONLY <2>1, <2>2
<1>14. Known' = Known
  BY <1>1, KnownKept
<1>15. gone' \subseteq 1..written /\ imm' \subseteq Known
  <2>1. gone \subseteq 1..written /\ imm \subseteq Known
    BY DEF Inv, TypeInv
  <2>2. CASE bg = "flushlog"
    BY <1>2, <2>1, <2>2
  <2>3. CASE bg = "compactlog"
    <3>1. Stored(tables, edit.del) \subseteq Known
      <4>1. edit.del \subseteq DOMAIN tables
        BY <1>3, <1>10, <2>3, LiveFacts
      <4> QED BY <4>1 DEF Inv, TypeInv, Stored
    <3>2. \A e \in Known : e.id \in 1..written
      BY DEF Known
    <3>3. Ids(Stored(tables, edit.del) \ Stored(tables, edit.add)) \subseteq 1..written
      BY <3>1, <3>2 DEF Ids
    <3> QED BY <1>2, <2>1, <2>3, <3>3
  <2> QED BY <1>1, <2>2, <2>3
<1>16. TypeInv'
  <2>1. \A n \in DOMAIN manifests' :
          /\ manifests'[n] = [recs |-> manifests'[n].recs,
                              synced |-> manifests'[n].synced]
          /\ manifests'[n].recs \in Seq(Edits)
          /\ manifests'[n].synced \in 0..Len(manifests'[n].recs)
    <3> SUFFICES ASSUME NEW n \in DOMAIN manifests'
                 PROVE  /\ manifests'[n] = [recs |-> manifests'[n].recs,
                                            synced |-> manifests'[n].synced]
                        /\ manifests'[n].recs \in Seq(Edits)
                        /\ manifests'[n].synced \in 0..Len(manifests'[n].recs)
      OBVIOUS
    <3>1. CASE n = current
      <4>1. L \in 0..L
        BY <1>6
      <4> QED BY <1>5, <1>6, <1>12, <3>1, <4>1
    <3>2. CASE n # current
      <4>1. n \in DOMAIN manifests /\ manifests'[n] = manifests[n]
        BY <1>12, <3>2
      <4> QED BY <4>1 DEF Inv, TypeInv
    <3> QED BY <3>1, <3>2
  <2>2. hasImm' \in BOOLEAN
    <3>1. CASE bg = "flushlog"
      BY <1>2, <3>1
    <3>2. CASE bg = "compactlog"
      BY <1>2, <3>2 DEF Inv, TypeInv
    <3> QED BY <1>1, <3>1, <3>2
  <2>3. edit' \in Edits
    BY <1>1 DEF NoEdit, Edits, None
  <2> QED BY <1>1, <1>12, <1>13, <1>14, <1>15, <2>1, <2>2, <2>3 DEF Inv, TypeInv
<1>17. LogsInv'
  BY <1>1 DEF Inv, LogsInv
<1>18. DirInv'
  <2>1. manifests'[current'].recs = rs /\ manifests'[current'].synced = L
    BY <1>1, <1>12
  <2>2. PrefixInv(L)'
    BY <1>1, <1>5, <1>7, <1>8, <1>11, <2>1 DEF PrefixInv
  <2>3. L..L = {L} /\ Len(manifests'[current'].recs) = L
    BY <1>5, <1>6, <2>1
  <2>4. \A k \in {L} : PrefixInv(k)'
    BY <2>2
  <2> QED BY <1>1, <1>4, <1>6, <1>12, <2>1, <2>3, <2>4 DEF DirInv
<1>19. IdleInv'
  <2>1. pc' \in {"open", "syncing"}
    BY <1>1 DEF Running
  <2> QED BY <1>1, <1>3, <2>1 DEF IdleInv
<1>20. OpeningInv' /\ TrashInv'
  <2>1. TrashInv'
    BY <1>1, ObsoleteFiles DEF TrashInv
  <2> QED BY <1>3, <2>1 DEF OpeningInv
<1>21. LiveInv'
  <2>1. /\ manifests'[current'].recs = rs /\ manifests'[current'].synced = L
        /\ current' # 0 /\ vs'.manifest = current' /\ Len(rs) = L
    BY <1>1, <1>4, <1>5, <1>12, <1>13
  <2>2. vs'.files = FilesUpTo(rs, L) /\ vs'.log = rs[L].log
        /\ rs[L].next <= vs'.next /\ rs[L].last <= vs'.last
    BY <1>6, <1>7, <1>13
  <2>3. From(logs, vs.log) = {vs.log, logfile}
    BY <1>3 DEF Inv, LiveInv
  <2>4. /\ From(logs', vs'.log) = {vs'.log, logfile'}
        /\ vs'.log <= logfile' /\ logfile' < vs'.next
    <3>1. CASE TargetLog = vs.log
      BY <1>1, <1>4, <1>13, <2>3, <3>1
    <3>2. CASE TargetLog = logfile
      <4>1. From(logs, logfile) = {logfile}
        BY <1>4 DEF From
      <4> QED BY <1>1, <1>4, <1>13, <3>2, <4>1
    <3> QED BY <1>9, <3>1, <3>2
  <2>5. /\ ~hasImm' => imm' = {} /\ vs'.log = logfile'
        /\ hasImm' => imm' = LogEntries(logs'[vs'.log]) /\ vs'.log # logfile'
    <3>1. CASE bg = "flushlog"
      <4>1. ~hasImm' /\ imm' = {} /\ vs'.log = logfile'
        BY <1>1, <1>2, <1>9, <1>10, <1>13, <3>1
      <4> QED BY <4>1
    <3>2. CASE bg = "compactlog"
      <4>1. imm' = imm /\ vs'.log = vs.log /\ logs' = logs /\ logfile' = logfile
        BY <1>1, <1>2, <1>9, <1>10, <1>13, <3>2
      <4>2. hasImm' = hasImm
        BY <1>2, <3>2
      <4> QED BY <1>3, <4>1, <4>2 DEF Inv, LiveInv
    <3> QED BY <1>1, <3>1, <3>2
  <2>6. /\ pc' # "syncing" => mem' = LogEntries(logs'[logfile'])
        /\ pc' = "syncing" =>
             /\ LogEntries(logs'[logfile']) =
                  mem' \union {Entry(written', vs'.last + 1)}
             /\ Entry(written', vs'.last + 1) \notin mem' /\ vs'.last < written'
             /\ written' \notin acked'
    BY <1>1, <1>3, <1>13 DEF Inv, LiveInv
  <2>7. \A e \in mem' \union imm' \union Stored(tables', vs'.files) : e.s <= vs'.last
    <3>1. \A e \in mem \union imm : e.s <= vs.last
      BY <1>3 DEF Inv, LiveInv
    <3>2. imm' \subseteq imm
      BY <1>1, <1>2
    <3> QED BY <1>1, <1>9, <1>13, <3>1, <3>2
  <2> QED BY <1>3, <2>1, <2>2, <2>4, <2>5, <2>6, <2>7 DEF LiveInv
<1>22. BackgroundInv'
  BY <1>1, <1>3 DEF BackgroundInv
<1> QED BY <1>16, <1>17, <1>18, <1>19, <1>20, <1>21, <1>22 DEF Inv

(* RemoveObsoleteFiles removes nothing that an Open would read.             *)
LEMMA RemoveFileInv ==
  ASSUME Inv, NEW f \in trash, RemoveFile(f)
  PROVE  Inv'
<1>1. /\ trash' = trash \ {f}
      /\ logs' = IF f[1] = "log" THEN Drop(logs, f[2]) ELSE logs
      /\ tables' = IF f[1] = "table" THEN Drop(tables, f[2]) ELSE tables
      /\ manifests' = IF f[1] = "manifest" THEN Drop(manifests, f[2])
                      ELSE manifests
      /\ UNCHANGED <<current, pc, bg, vs, logfile, mem, imm, hasImm, todo, edit,
                     written, acked, synced, gone>>
  BY DEF RemoveFile, memVars, boundVars, histVars
<1>2. Live /\ bg = "idle" /\ ~Opening' /\ Live' /\ ~Logging /\ ~Logging'
  <2>1. Live /\ bg = "idle"
    BY DEF Inv, IdleInv, TrashInv
  <2> QED BY <1>1, <2>1 DEF Live, Opening, Logging
<1>3. /\ f[1] = "log" => f[2] < vs.log
      /\ f[1] = "table" => f[2] \notin vs.files
      /\ f[1] = "manifest" => f[2] < vs.manifest
  BY DEF Inv, TrashInv
<1>4. /\ current # 0 /\ vs.manifest = current /\ vs.log \in Nat
      /\ DOMAIN logs \subseteq Nat /\ current \in Nat /\ vs.next \in Nat
      /\ \A n \in vs.files : n \in DOMAIN tables
  BY <1>2, LiveFacts DEF Inv, TypeInv
<1>5. /\ DOMAIN logs' \subseteq DOMAIN logs
      /\ \A n \in DOMAIN logs' : logs'[n] = logs[n]
      /\ \A n \in DOMAIN logs : n \in DOMAIN logs' \/ n < vs.log
  <2>1. CASE f[1] = "log"
    <3>1. PICK m : m = f[2]
      OBVIOUS
    <3>2. logs' = Drop(logs, m) /\ m < vs.log
      BY <1>1, <1>3, <2>1, <3>1
    <3>3. DOMAIN logs' = DOMAIN logs \ {m}
          /\ \A n \in DOMAIN logs \ {m} : logs'[n] = logs[n]
      BY <3>2 DEF Drop, Restrict
    <3> QED BY <3>2, <3>3
  <2>2. CASE f[1] # "log"
    BY <1>1, <2>2
  <2> QED BY <2>1, <2>2
<1>6. /\ DOMAIN tables' \subseteq DOMAIN tables
      /\ \A n \in DOMAIN tables' : tables'[n] = tables[n]
      /\ \A n \in vs.files : n \in DOMAIN tables'
  <2>1. CASE f[1] = "table"
    <3>1. PICK m : m = f[2]
      OBVIOUS
    <3>2. tables' = Drop(tables, m) /\ m \notin vs.files
      BY <1>1, <1>3, <2>1, <3>1
    <3>3. DOMAIN tables' = DOMAIN tables \ {m}
          /\ \A n \in DOMAIN tables \ {m} : tables'[n] = tables[n]
      BY <3>2 DEF Drop, Restrict
    <3> QED BY <1>4, <3>2, <3>3
  <2>2. CASE f[1] # "table"
    BY <1>1, <1>4, <2>2
  <2> QED BY <2>1, <2>2
<1>7. /\ DOMAIN manifests' \subseteq DOMAIN manifests
      /\ \A n \in DOMAIN manifests' : manifests'[n] = manifests[n]
      /\ current \in DOMAIN manifests'
  <2>1. CASE f[1] = "manifest"
    <3>1. PICK m : m = f[2]
      OBVIOUS
    <3>2. manifests' = Drop(manifests, m) /\ m < current
      BY <1>1, <1>3, <1>4, <2>1, <3>1
    <3>3. DOMAIN manifests' = DOMAIN manifests \ {m}
          /\ \A n \in DOMAIN manifests \ {m} : manifests'[n] = manifests[n]
      BY <3>2 DEF Drop, Restrict
    <3>4. current \in DOMAIN manifests /\ current # m
      BY <1>4, <3>2, CurrentManifest
    <3> QED BY <3>3, <3>4
  <2>2. CASE f[1] # "manifest"
    BY <1>1, <1>4, <2>2, CurrentManifest
  <2> QED BY <2>1, <2>2
<1>8. /\ From(logs', vs.log) = From(logs, vs.log)
      /\ \A m \in From(logs, vs.log) : m \in DOMAIN logs' /\ logs'[m] = logs[m]
      /\ \A m \in From(logs', vs.log) : m \in DOMAIN logs
  <2>1. \A n \in DOMAIN logs : n >= vs.log => n \in DOMAIN logs'
    BY <1>4, <1>5
  <2> QED BY <1>5, <2>1 DEF From
<1>9. Stored(tables', vs.files) = Stored(tables, vs.files)
  BY <1>6 DEF Stored
<1>10. Known' = Known
  BY <1>1, KnownKept
<1>11. TypeInv'
  <2>1. hasImm' \in BOOLEAN
    BY <1>1 DEF Inv, TypeInv
  <2>2. \A n \in DOMAIN logs' :
          /\ logs'[n] = [recs |-> logs'[n].recs, synced |-> logs'[n].synced]
          /\ logs'[n].recs \in Seq(Records)
          /\ logs'[n].synced \in 0..Len(logs'[n].recs)
          /\ LogEntries(logs'[n]) \subseteq Known
    BY <1>5 DEF Inv, TypeInv
  <2>3. \A n \in DOMAIN manifests' :
          /\ manifests'[n] = [recs |-> manifests'[n].recs,
                              synced |-> manifests'[n].synced]
          /\ manifests'[n].recs \in Seq(Edits)
          /\ manifests'[n].synced \in 0..Len(manifests'[n].recs)
    BY <1>7 DEF Inv, TypeInv
  <2>4. /\ \A n \in DOMAIN tables' : tables'[n] \subseteq Known
        /\ DOMAIN logs' \subseteq Nat /\ DOMAIN tables' \subseteq Nat
        /\ DOMAIN manifests' \subseteq Nat
    BY <1>5, <1>6, <1>7 DEF Inv, TypeInv
  <2> QED BY <1>1, <1>10, <2>1, <2>2, <2>3, <2>4 DEF Inv, TypeInv
<1>12. LogsInv'
  BY <1>5 DEF Inv, LogsInv
<1>13. DirInv'
  <2>1. ASSUME NEW k \in manifests[current].synced..Len(manifests[current].recs)
        PROVE  LET recs == manifests[current].recs
                   F == FilesUpTo(recs, k)
               IN  /\ \A n \in F : n \in DOMAIN tables' /\ tables'[n] = tables[n]
                   /\ \A n \in From(logs, recs[k].log) :
                        n \in DOMAIN logs' /\ logs'[n] = logs[n]
                   /\ \A n \in From(logs', recs[k].log) :
                        n \in DOMAIN logs \/ logs'[n] = EmptyFile
    <3>1. /\ FilesUpTo(manifests[current].recs, k) = vs.files
          /\ manifests[current].recs[k].log = vs.log
      BY <1>2, LivePrefix
    <3> QED BY <1>6, <1>8, <3>1
  <2>2. manifests'[current] = manifests[current]
    BY <1>7
  <2> QED BY <1>1, <1>4, <1>7, <2>1, <2>2, DirKept
<1>14. IdleInv'
  <2>1. pc' = pc /\ bg' = bg
    BY <1>1
  <2> QED BY <1>2, <2>1 DEF Inv, IdleInv, Live
<1>15. OpeningInv' /\ TrashInv'
  BY <1>1, <1>2 DEF Inv, OpeningInv, TrashInv
<1>16. LiveInv'
  <2>1. hasImm' = hasImm
    BY <1>1
  <2>2. vs.next <= vs'.next /\ vs'.next \in Nat
    BY <1>1, <1>4
  <2>3. manifests'[current] = manifests[current]
    BY <1>7
  <2> QED BY <1>1, <1>2, <1>8, <1>9, <2>1, <2>2, <2>3, LiveKept
<1>17. BackgroundInv'
  BY <1>1, <1>2 DEF Inv, BackgroundInv
<1> QED BY <1>11, <1>12, <1>13, <1>14, <1>15, <1>16, <1>17 DEF Inv

-----------------------------------------------------------------------------
(* DB::Open. *)

(* What a process that is not open yet keeps.                               *)
LEMMA NotLiveKept ==
  ASSUME Inv, ~Live, Opening', UNCHANGED <<bg, mem, imm, hasImm, trash>>
  PROVE  /\ IdleInv' /\ LiveInv' /\ TrashInv' /\ BackgroundInv'
         /\ bg = "idle" /\ mem = {} /\ imm = {} /\ trash = {}
         /\ hasImm' \in BOOLEAN
<1>1. bg = "idle" /\ mem = {} /\ imm = {} /\ trash = {}
  BY DEF Inv, IdleInv, Running, Live
<1>2. ~hasImm /\ hasImm' = hasImm
  BY DEF Inv, IdleInv
<1>3. ~Live' /\ pc' \in {"replay", "newlog", "newmanifest", "setcurrent"}
  BY DEF Opening, Live
<1>4. IdleInv'
  BY <1>1, <1>2, <1>3 DEF IdleInv
<1>5. LiveInv' /\ TrashInv' /\ BackgroundInv'
  BY <1>1, <1>3 DEF LiveInv, TrashInv, BackgroundInv, Logging
<1>6. hasImm' \in BOOLEAN
  BY <1>2 DEF Inv, TypeInv
<1> QED BY <1>1, <1>4, <1>5, <1>6

(* The first edit of a new database.                                        *)
LEMMA FirstManifest ==
  /\ FirstEdit \in Edits /\ FirstEdit.log = 0 /\ FirstEdit.next = 2
  /\ FirstEdit.last = 0 /\ FirstEdit.add = {} /\ FirstEdit.del = {}
  /\ Sync(AddRecord(EmptyFile, FirstEdit)) = [recs |-> <<FirstEdit>>, synced |-> 1]
  /\ FilesUpTo(<<FirstEdit>>, 1) = {}
<1>1. NoEdit \in Edits /\ NoEdit.add = {} /\ NoEdit.del = {}
  BY DEF NoEdit, Edits, None
<1>2. /\ FirstEdit \in Edits /\ FirstEdit.log = 0 /\ FirstEdit.next = 2
      /\ FirstEdit.last = 0 /\ FirstEdit.add = {} /\ FirstEdit.del = {}
  <2>1. PICK e, x, a, b : e = NoEdit /\ x = FirstEdit /\ a = 0 /\ b = 2
    OBVIOUS
  <2>2. x = [e EXCEPT !.log = a, !.next = b, !.last = a]
    BY <2>1 DEF FirstEdit
  <2>3. e \in Edits /\ a \in Int /\ b \in Int
    BY <1>1, <2>1
  <2>4. /\ x \in Edits /\ x.log = a /\ x.next = b /\ x.last = a
        /\ x.add = e.add /\ x.del = e.del
    BY ONLY <2>2, <2>3 DEF Edits
  <2> QED BY <1>1, <2>1, <2>4
<1>3. FilesUpTo(<<FirstEdit>>, 1) = {}
  <2>1. 1..1 = {1} /\ <<FirstEdit>>[1] = FirstEdit
    OBVIOUS
  <2> QED BY <1>2, <2>1 DEF FilesUpTo
<1>4. Sync(AddRecord(EmptyFile, FirstEdit)) = [recs |-> <<FirstEdit>>, synced |-> 1]
  <2>1. EmptyFile = [recs |-> EmptyFile.recs, synced |-> EmptyFile.synced]
        /\ EmptyFile.recs = <<>>
    BY DEF EmptyFile
  <2>2. PICK f : f = AddRecord(EmptyFile, FirstEdit)
    OBVIOUS
  <2>3. f = [recs |-> Append(<<>>, FirstEdit), synced |-> EmptyFile.synced]
    BY <2>1, <2>2, FileOperations
  <2>4. Append(<<>>, FirstEdit) = <<FirstEdit>> /\ Len(<<FirstEdit>>) = 1
    OBVIOUS
  <2>5. f = [recs |-> f.recs, synced |-> f.synced] /\ f.recs = <<FirstEdit>>
    BY <2>3, <2>4
  <2>6. Sync(f) = [recs |-> f.recs, synced |-> Len(f.recs)]
    BY ONLY <2>5, FileOperations
  <2> QED BY <2>2, <2>4, <2>5, <2>6
<1> QED BY <1>2, <1>3, <1>4

(* NewDB writes the first MANIFEST.                                         *)
LEMMA NewDBInv ==
  ASSUME Inv, NewDB
  PROVE  Inv'
<1>0. PICK x : x = [recs |-> <<FirstEdit>>, synced |-> 1]
  OBVIOUS
<1>1. /\ pc = "down" /\ current = 0 /\ pc' = "newdb"
      /\ manifests' = Put(manifests, 1, x)
      /\ UNCHANGED <<logs, tables, current, bg, vs, logfile, mem, imm, hasImm,
                     todo, edit, trash, written, acked, synced, gone>>
  <2>1. [NoEdit EXCEPT !.log = 0, !.next = 2, !.last = 0] = FirstEdit
    BY DEF FirstEdit
  <2> QED BY <1>0, <2>1, FirstManifest DEF NewDB, memVars, boundVars, histVars
<1>2. ~Live /\ ~Live' /\ ~Opening'
  BY <1>1 DEF Live, Opening
<1>3. /\ x.recs \in Seq(Edits) /\ x.synced \in 0..Len(x.recs)
      /\ x = [recs |-> x.recs, synced |-> x.synced]
  <2>1. <<FirstEdit>> \in Seq(Edits) /\ Len(<<FirstEdit>>) = 1
    BY FirstManifest
  <2> QED BY <1>0, <2>1
<1>4. /\ DOMAIN manifests' = DOMAIN manifests \union {1} /\ manifests'[1] = x
      /\ \A n \in DOMAIN manifests : n # 1 => manifests'[n] = manifests[n]
  BY <1>1 DEF Put
<1>5. bg = "idle" /\ mem = {} /\ imm = {} /\ trash = {} /\ edit = NoEdit
  BY <1>1, <1>2 DEF Inv, IdleInv, Running
<1>6. ~hasImm /\ hasImm' = hasImm /\ hasImm' \in BOOLEAN
  BY <1>1, <1>2 DEF Inv, IdleInv, TypeInv
<1>7. Known' = Known
  BY <1>1, KnownKept
<1>8. TypeInv'
  <2>1. \A n \in DOMAIN manifests' :
          /\ manifests'[n] = [recs |-> manifests'[n].recs,
                              synced |-> manifests'[n].synced]
          /\ manifests'[n].recs \in Seq(Edits)
          /\ manifests'[n].synced \in 0..Len(manifests'[n].recs)
    <3> SUFFICES ASSUME NEW n \in DOMAIN manifests'
                 PROVE  /\ manifests'[n] = [recs |-> manifests'[n].recs,
                                            synced |-> manifests'[n].synced]
                        /\ manifests'[n].recs \in Seq(Edits)
                        /\ manifests'[n].synced \in 0..Len(manifests'[n].recs)
      OBVIOUS
    <3>1. CASE n = 1
      BY <1>3, <1>4, <3>1
    <3>2. CASE n # 1
      <4>1. n \in DOMAIN manifests /\ manifests'[n] = manifests[n]
        BY <1>4, <3>2
      <4> QED BY <4>1 DEF Inv, TypeInv
    <3> QED BY <3>1, <3>2
  <2>2. DOMAIN manifests' \subseteq Nat
    BY <1>4 DEF Inv, TypeInv
  <2> QED BY <1>1, <1>6, <1>7, <2>1, <2>2 DEF Inv, TypeInv
<1>9. LogsInv' /\ DirInv'
  BY <1>1 DEF Inv, LogsInv, DirInv
<1>10. IdleInv'
  BY <1>0, <1>1, <1>4, <1>5, <1>6 DEF IdleInv
<1>11. OpeningInv' /\ LiveInv' /\ TrashInv' /\ BackgroundInv'
  BY <1>1, <1>2, <1>5 DEF OpeningInv, LiveInv, TrashInv, BackgroundInv, Logging
<1> QED BY <1>8, <1>9, <1>10, <1>11 DEF Inv

(* NewDB sets CURRENT.                                                      *)
LEMMA NewDBCurrentInv ==
  ASSUME Inv, NewDBCurrent
  PROVE  Inv'
<1>1. /\ pc = "newdb" /\ current' = 1 /\ pc' = "down"
      /\ UNCHANGED <<logs, tables, manifests, bg, vs, logfile, mem, imm, hasImm,
                     todo, edit, trash, written, acked, synced, gone>>
  BY DEF NewDBCurrent, memVars, boundVars, histVars
<1>2. ~Live /\ ~Live' /\ ~Opening'
  BY <1>1 DEF Live, Opening
<1>3. bg = "idle" /\ mem = {} /\ imm = {} /\ trash = {} /\ edit = NoEdit
  BY <1>1, <1>2 DEF Inv, IdleInv, Running
<1>4. ~hasImm /\ hasImm' = hasImm /\ hasImm' \in BOOLEAN
  BY <1>1, <1>2 DEF Inv, IdleInv, TypeInv
<1>5. /\ current = 0 /\ 1 \in DOMAIN manifests
      /\ manifests[1] = [recs |-> <<FirstEdit>>, synced |-> 1]
  BY <1>1 DEF Inv, IdleInv
<1>6. DOMAIN logs = {} /\ acked = {} /\ gone = {}
  BY <1>5 DEF Inv, DirInv
<1>7. Known' = Known
  BY <1>1, KnownKept
<1>8. TypeInv'
  BY <1>1, <1>4, <1>7 DEF Inv, TypeInv
<1>9. LogsInv'
  BY <1>1 DEF Inv, LogsInv
<1>10. DirInv'
  <2>1. Logged(logs, 0) = {} /\ Stored(tables, {}) = {}
    BY <1>6 DEF Logged, From, Stored
  <2>2. Sound(logs, tables, acked, synced, gone, {}, 0)
    BY <1>6, <2>1 DEF Sound, Found, Ids
  <2>3. PICK rs : rs = <<FirstEdit>>
    OBVIOUS
  <2>4. rs[1] = FirstEdit /\ Len(rs) = 1 /\ FilesUpTo(rs, 1) = {}
    BY <2>3, FirstManifest
  <2>5. manifests'[current'].recs = rs /\ manifests'[current'].synced = 1
    BY <1>1, <1>5, <2>3
  <2>6. 0 \in 0..written /\ 1 < 2 /\ 0 < 2 /\ 2 <= 2 /\ 1..1 = {1}
    BY DEF Inv, TypeInv
  <2>7. PrefixInv(1)'
    <3>1. PICK d : d = FirstEdit
      OBVIOUS
    <3>2. d.log = 0 /\ d.next = 2 /\ d.last = 0 /\ rs[1] = d /\ rs[Len(rs)] = d
      BY <2>4, <3>1, FirstManifest
    <3>3. /\ d.log \in Nat /\ d.last \in 0..written' /\ d.next \in Nat
          /\ d.log < d.next /\ current' < d.next /\ d.next <= d.next
      BY <1>1, <2>6, <3>2
    <3>4. Sound(logs', tables', acked', synced', gone', {}, d.log)
      BY <1>1, <2>2, <3>2
    <3>5. Stored(tables', {}) = {}
      BY <1>1, <2>1
    <3> QED BY <2>4, <2>5, <3>2, <3>3, <3>4, <3>5 DEF PrefixInv
  <2>8. \A k \in {1} : PrefixInv(k)'
    BY <2>7
  <2> QED BY <1>1, <1>5, <2>4, <2>5, <2>6, <2>8 DEF DirInv
<1>11. IdleInv'
  BY <1>1, <1>3, <1>4 DEF IdleInv
<1>12. OpeningInv' /\ LiveInv' /\ TrashInv' /\ BackgroundInv'
  BY <1>1, <1>2, <1>3 DEF OpeningInv, LiveInv, TrashInv, BackgroundInv, Logging
<1> QED BY <1>8, <1>9, <1>10, <1>11, <1>12 DEF Inv

(* VersionSet::Recover: the database is not corrupt, and the version is the *)
(* one the whole MANIFEST describes.                                        *)
LEMMA RecoverManifestInv ==
  ASSUME Inv, RecoverManifest
  PROVE  Inv'
<1>1. /\ pc = "down" /\ current # 0
      /\ UNCHANGED <<logs, tables, manifests, current, bg, logfile, mem, imm,
                     hasImm, edit, trash, written, acked, synced, gone>>
  BY DEF RecoverManifest, dirVars, memVars, boundVars, histVars
<1>2. PICK rs, L : rs = manifests[current].recs /\ L = Len(rs)
  OBVIOUS
<1>3. /\ current \in DOMAIN manifests /\ rs \in Seq(Edits) /\ L \in Nat
      /\ L \in manifests[current].synced..Len(manifests[current].recs)
      /\ L \in 1..L
  BY <1>1, <1>2, CurrentManifest
<1>4. /\ rs[L].log \in Nat /\ rs[L].last \in Nat /\ rs[L].next \in Nat
      /\ rs[L].last <= written
      /\ \A n \in FilesUpTo(rs, L) : n \in Nat /\ n \in DOMAIN tables
  BY <1>1, <1>2, <1>3, PrefixNumbers
<1>5. ManifestFiles(rs) = FilesUpTo(rs, L) /\ LastEdit(rs) = rs[L]
  <2>1. rs[L].log # None /\ L > 0
    BY <1>3, <1>4 DEF None
  <2> QED BY <1>2, <1>3, <2>1, ManifestRead
<1>6. Readable(current)
  <2>1. rs[L].log # None /\ L \in DOMAIN rs
    BY <1>2, <1>3, <1>4 DEF None
  <2> QED BY <1>2, <1>3, <2>1 DEF Readable
<1>7. /\ vs' = [files |-> FilesUpTo(rs, L), log |-> rs[L].log,
                next |-> rs[L].next + 1, manifest |-> rs[L].next,
                last |-> rs[L].last]
      /\ todo' = LogsToReplay(vs'.log)
      /\ pc' = IF vs'.files \subseteq DOMAIN tables
                    \union DOMAIN logs \union DOMAIN manifests
               THEN "replay" ELSE "corrupt"
  BY <1>2, <1>5, <1>6 DEF RecoverManifest
<1>8. /\ vs' \in [files : SUBSET Nat, log : Nat, next : Nat, manifest : Nat,
                  last : Nat]
      /\ vs'.files = FilesUpTo(rs, L) /\ vs'.log = rs[L].log
      /\ vs'.next = rs[L].next + 1 /\ vs'.manifest = rs[L].next
      /\ vs'.last = rs[L].last
  <2>1. FilesUpTo(rs, L) \subseteq Nat /\ rs[L].next + 1 \in Nat
    BY <1>4
  <2> QED BY <1>4, <1>7, <2>1
<1>9. pc' = "replay" /\ Opening' /\ ~Live
  <2>1. vs'.files \subseteq DOMAIN tables
    BY <1>4, <1>8
  <2> QED BY <1>1, <1>7, <2>1 DEF Opening, Live
<1>10. todo' = From(logs, rs[L].log)
  BY <1>7, <1>8 DEF LogsToReplay, From
<1>11. Known' = Known
  BY <1>1, KnownKept
<1>12. /\ IdleInv' /\ LiveInv' /\ TrashInv' /\ BackgroundInv'
       /\ hasImm' \in BOOLEAN
  BY <1>1, <1>9, NotLiveKept
<1>13. TypeInv'
  BY <1>1, <1>4, <1>8, <1>11, <1>12 DEF Inv, TypeInv
<1>14. LogsInv' /\ DirInv'
  <2>1. ASSUME NEW k \in manifests[current].synced..Len(manifests[current].recs)
        PROVE  LET recs == manifests[current].recs
                   F == FilesUpTo(recs, k)
               IN  /\ \A n \in F : n \in DOMAIN tables' /\ tables'[n] = tables[n]
                   /\ \A n \in From(logs, recs[k].log) :
                        n \in DOMAIN logs' /\ logs'[n] = logs[n]
                   /\ \A n \in From(logs', recs[k].log) :
                        n \in DOMAIN logs \/ logs'[n] = EmptyFile
    BY <1>1, PrefixNumbers DEF From
  <2>2. DirInv'
    BY <1>1, <1>3, <2>1, DirKept
  <2> QED BY <1>1, <2>2 DEF Inv, LogsInv
<1>15. OpeningInv'
  <2>1. edit = NoEdit
    BY <1>1 DEF Inv, IdleInv
  <2>2. edit'.add = {} /\ edit'.del = {} /\ edit'.log = None
    BY <1>1, <2>1 DEF NoEdit
  <2>3. Replayed' = {}
    BY <1>1, <1>8, <1>10 DEF Replayed
  <2>4. Stored(tables', edit'.add) = {}
    BY <2>2 DEF Stored
  <2>5. /\ manifests'[current'].recs = rs /\ Len(manifests'[current'].recs) = L
        /\ current' # 0
    BY <1>1, <1>2
  <2>6. vs'.manifest < vs'.next /\ rs[L].last <= vs'.last
    BY <1>4, <1>8
  <2>7. todo' \subseteq From(logs', vs'.log)
    BY <1>1, <1>8, <1>10
  <2> QED BY <1>8, <1>9, <2>2, <2>3, <2>4, <2>5, <2>6, <2>7 DEF OpeningInv
<1> QED BY <1>12, <1>13, <1>14, <1>15 DEF Inv

(* What DB::Open knows once it has read the MANIFEST: every prefix of it     *)
(* names only tables older than those Open makes.                           *)
LEMMA OpeningFacts ==
  ASSUME Inv, Opening
  PROVE  /\ current # 0 /\ current \in Nat /\ vs.log \in Nat /\ vs.next \in Nat
         /\ vs.manifest \in Nat /\ vs.last \in Nat /\ vs.last <= written
         /\ vs.log < vs.manifest /\ vs.manifest < vs.next /\ current < vs.manifest
         /\ \A n \in vs.files : n \in DOMAIN tables /\ n \in Nat /\ n < vs.manifest
         /\ \A n \in edit.add :
              n \in DOMAIN tables /\ n \in Nat /\ vs.manifest < n /\ n < vs.next
         /\ \A k \in manifests[current].synced..Len(manifests[current].recs) :
              \A n \in FilesUpTo(manifests[current].recs, k) :
                n \in DOMAIN tables /\ n \in Nat /\ n < vs.manifest
         /\ Sound(logs, tables, acked, synced, gone, vs.files, vs.log)
<1>1. PICK rs, L : rs = manifests[current].recs /\ L = Len(rs)
  OBVIOUS
<1>2. /\ current # 0 /\ vs.files = FilesUpTo(rs, L) /\ vs.log = rs[L].log
      /\ vs.manifest = rs[L].next /\ vs.manifest < vs.next
      /\ edit.add \subseteq DOMAIN tables
      /\ \A n \in edit.add : vs.manifest < n /\ n < vs.next
  BY <1>1 DEF Inv, OpeningInv
<1>3. L \in manifests[current].synced..Len(manifests[current].recs)
  BY <1>1, <1>2, CurrentManifest
<1>4. /\ rs[L].log < rs[L].next /\ current < rs[L].next
      /\ \A n \in FilesUpTo(rs, L) : n \in Nat /\ n < rs[L].next /\ n \in DOMAIN tables
      /\ Sound(logs, tables, acked, synced, gone, FilesUpTo(rs, L), rs[L].log)
  BY <1>1, <1>2, <1>3, PrefixNumbers
<1>5. /\ current \in Nat /\ vs.log \in Nat /\ vs.next \in Nat
      /\ vs.manifest \in Nat /\ vs.last \in Nat /\ vs.last <= written
      /\ edit.add \subseteq Nat
  BY DEF Inv, TypeInv, Edits
<1>6. ASSUME NEW k \in manifests[current].synced..Len(manifests[current].recs),
             NEW n \in FilesUpTo(manifests[current].recs, k)
      PROVE  n \in DOMAIN tables /\ n \in Nat /\ n < vs.manifest
  <2>1. /\ n \in Nat /\ n < rs[k].next /\ n \in DOMAIN tables
        /\ rs[k].next \in Nat /\ rs[k].next <= rs[L].next /\ rs[L].next \in Nat
    BY <1>1, <1>2, PrefixNumbers
  <2>2. n < rs[L].next
    BY ONLY <2>1
  <2> QED BY <1>2, <2>1, <2>2
<1>7. \A n \in edit.add :
        n \in DOMAIN tables /\ n \in Nat /\ vs.manifest < n /\ n < vs.next
  BY <1>2, <1>5
<1> QED BY <1>2, <1>4, <1>5, <1>6, <1>7

(* Every record of a log goes to one of the tables made of it: the last      *)
(* record ends a table.                                                     *)
LEMMA TableNumbers ==
  ASSUME NEW S, NEW rs \in Seq(S), NEW ends \in TableEnds(rs), NEW b \in Nat
  PROVE  /\ Cardinality(ends) \in Nat
         /\ \A i \in 1..Len(rs) :
              b + Cardinality({p \in ends : p < i})
                \in b..(b + Cardinality(ends) - 1)
<1>1. /\ ends \subseteq 1..Len(rs) /\ Len(rs) \in Nat
      /\ rs # <<>> => Len(rs) \in ends
  BY DEF TableEnds
<1>2. IsFiniteSet(ends)
  <2>1. IsFiniteSet(1..Len(rs))
    BY <1>1, FS_Interval
  <2> QED BY <1>1, <2>1, FS_Subset
<1>3. Cardinality(ends) \in Nat
  BY <1>2, FS_CardinalityType
<1>4. ASSUME NEW i \in 1..Len(rs)
      PROVE  b + Cardinality({p \in ends : p < i})
               \in b..(b + Cardinality(ends) - 1)
  <2>1. PICK T : T = {p \in ends : p < i}
    OBVIOUS
  <2>2. Len(rs) \in ends /\ Len(rs) \notin T
    <3>1. rs # <<>>
      BY <1>1
    <3>2. ~(Len(rs) < i)
      BY <1>1
    <3> QED BY <1>1, <2>1, <3>1, <3>2
  <2>3. T \in SUBSET ends /\ T # ends
    BY <2>1, <2>2
  <2>4. IsFiniteSet(T) /\ Cardinality(T) <= Cardinality(ends)
        /\ (Cardinality(ends) = Cardinality(T) => ends = T)
    BY ONLY <1>2, <2>3, FS_Subset
  <2>5. Cardinality(T) \in Nat
    BY <2>4, FS_CardinalityType
  <2>6. PICK c, d : c = Cardinality(T) /\ d = Cardinality(ends)
    OBVIOUS
  <2>7. c \in Nat /\ d \in Nat /\ c <= d /\ c # d
    BY <1>3, <2>3, <2>4, <2>5, <2>6
  <2>8. b + c \in b..(b + d - 1)
    BY ONLY <2>7, b \in Nat
  <2> QED BY <2>1, <2>6, <2>8
<1> QED BY <1>3, <1>4

(* The sequence number Recover arrives at.                                  *)
LEMMA SequenceFound ==
  ASSUME NEW l \in Nat, NEW rs, NEW w \in Nat, l <= w,
         \A i \in DOMAIN rs : rs[i].s \in Nat /\ rs[i].s <= w
  PROVE  /\ MaxSequence(l, rs) \in Nat /\ l <= MaxSequence(l, rs)
         /\ MaxSequence(l, rs) <= w
         /\ \A i \in DOMAIN rs : rs[i].s <= MaxSequence(l, rs)
<1>1. PICK T : T = {l} \union {rs[i].s : i \in DOMAIN rs}
  OBVIOUS
<1>2. T \subseteq Nat /\ T # {} /\ \A n \in T : n <= w
  BY <1>1
<1>3. Max(T) \in T /\ \A m \in T : m <= Max(T)
  BY ONLY <1>2, w \in Nat, LargestNumber
<1>4. MaxSequence(l, rs) = Max(T)
  BY <1>1 DEF MaxSequence
<1> QED BY <1>1, <1>2, <1>3, <1>4

(* RecoverLogFile turns the oldest log that is left into tables.            *)
LEMMA RecoverLogFileInv ==
  ASSUME Inv, todo # {}, NEW ends \in TableEnds(logs[Min(todo)].recs),
         RecoverLogFile(ends)
  PROVE  Inv'
<1>0. PICK n, c, N : /\ n = Min(todo) /\ c = Cardinality(ends)
                     /\ N = vs.next..(vs.next + Cardinality(ends) - 1)
  OBVIOUS
<1>1. /\ pc = "replay"
      /\ edit' = [edit EXCEPT !.add = @ \union N]
      /\ vs' = [vs EXCEPT !.next = MarkFileNumberUsed(@ + c, n),
                          !.last = MaxSequence(@, logs[n].recs)]
      /\ todo' = todo \ {n}
      /\ UNCHANGED <<logs, manifests, current, pc, bg, logfile, mem, imm, hasImm,
                     trash, written, acked, synced, gone>>
  BY <1>0 DEF RecoverLogFile, memVars, boundVars, histVars
<1>2. Opening /\ Opening' /\ ~Live
  BY <1>1 DEF Opening, Live
<1>3. /\ n \in todo /\ n \in DOMAIN logs /\ n \in Nat /\ c \in Nat
      /\ N \subseteq Nat /\ \A m \in N : vs.next <= m
      /\ DOMAIN tables' = DOMAIN tables \union N
      /\ \A m \in DOMAIN tables : m < vs.next => tables'[m] = tables[m]
      /\ \A m \in DOMAIN tables' : m \in N \/ tables'[m] = tables[m]
      /\ Stored(tables', N) = LogEntries(logs[n])
      /\ \A a, b \in N : a # b => tables'[a] \intersect tables'[b] = {}
  <2>1. n \in todo /\ n \in DOMAIN logs /\ n \in Nat
    <3>1. todo \subseteq DOMAIN logs /\ DOMAIN logs \subseteq Nat
      BY <1>1, <1>2 DEF Inv, OpeningInv, TypeInv, From
    <3>2. Min(todo) \in todo
      BY <3>1, SmallestNumber
    <3> QED BY <1>0, <3>1, <3>2
  <2>2. PICK rs, v : rs = logs[n].recs /\ v = vs.next
    OBVIOUS
  <2>3. /\ rs \in Seq(Records) /\ v \in Nat /\ DOMAIN tables \subseteq Nat
        /\ DOMAIN rs = 1..Len(rs) /\ Len(rs) \in Nat
    <3>1. rs \in Seq(Records) /\ v \in Nat /\ DOMAIN tables \subseteq Nat
      BY <2>1, <2>2 DEF Inv, TypeInv
    <3> QED BY <3>1
  <2>4. /\ Cardinality(ends) \in Nat
        /\ \A i \in 1..Len(rs) :
             v + Cardinality({p \in ends : p < i})
               \in v..(v + Cardinality(ends) - 1)
    <3>1. ends \in TableEnds(rs)
      BY <1>0, <2>2
    <3> QED BY ONLY <2>3, <3>1, TableNumbers
  <2> DEFINE TableOf(i) == v + Cardinality({p \in ends : p < i})
  <2>5. tables' = [m \in DOMAIN tables \union N |->
                     IF m \in N
                     THEN {rs[i] : i \in {j \in DOMAIN rs : TableOf(j) = m}}
                     ELSE tables[m]]
    BY <1>0, <2>2 DEF RecoverLogFile
  <2>6. \A i \in 1..Len(rs) : TableOf(i) \in N
    BY <1>0, <2>2, <2>4
  <2> HIDE DEF TableOf
  <2>7. N \subseteq Nat /\ \A m \in N : v <= m
    BY <1>0, <2>2, <2>3, <2>4
  <2>8. /\ DOMAIN tables' = DOMAIN tables \union N
        /\ \A m \in DOMAIN tables' : m \in N \/ tables'[m] = tables[m]
        /\ \A m \in N :
             tables'[m] = {rs[i] : i \in {j \in DOMAIN rs : TableOf(j) = m}}
    BY <2>5
  <2>9. \A m \in DOMAIN tables : m < v => tables'[m] = tables[m]
    <3> SUFFICES ASSUME NEW m \in DOMAIN tables, m < v PROVE tables'[m] = tables[m]
      OBVIOUS
    <3>1. m \notin N
      BY <2>3, <2>7
    <3> QED BY <2>8, <3>1
  <2>10. Stored(tables', N) = LogEntries(logs[n])
    <3>1. LogEntries(logs[n]) = {rs[i] : i \in 1..Len(rs)}
      BY <2>2 DEF LogEntries
    <3>2. ASSUME NEW e \in Stored(tables', N) PROVE e \in {rs[i] : i \in 1..Len(rs)}
      <4>1. PICK m \in N : e \in tables'[m]
        BY DEF Stored
      <4> QED BY <2>3, <2>8, <4>1
    <3>3. ASSUME NEW i \in 1..Len(rs) PROVE rs[i] \in Stored(tables', N)
      <4>1. TableOf(i) \in N
        BY <2>6
      <4>2. rs[i] \in tables'[TableOf(i)]
        BY <2>3, <2>8, <4>1
      <4> QED BY <4>1, <4>2 DEF Stored
    <3> QED BY <3>1, <3>2, <3>3
  <2>11. ASSUME NEW x \in N, NEW y \in N, x # y
         PROVE  tables'[x] \intersect tables'[y] = {}
    <3> SUFFICES ASSUME NEW e \in tables'[x], e \in tables'[y] PROVE FALSE
      OBVIOUS
    <3>1. PICK i \in 1..Len(rs) : TableOf(i) = x /\ e = rs[i]
      BY <2>3, <2>8
    <3>2. PICK j \in 1..Len(rs) : TableOf(j) = y /\ e = rs[j]
      BY <2>3, <2>8
    <3>3. i # j
      BY <2>11, <3>1, <3>2
    <3>4. rs[i] # rs[j]
      BY <2>1, <2>2, <3>3 DEF Inv, LogsInv
    <3> QED BY <3>1, <3>2, <3>4
  <2> QED BY <1>0, <2>1, <2>2, <2>4, <2>7, <2>8, <2>9, <2>10, <2>11
<1>4. /\ current # 0 /\ current \in Nat /\ vs.log \in Nat /\ vs.next \in Nat
      /\ vs.manifest \in Nat /\ vs.last \in Nat /\ vs.last <= written
      /\ vs.log < vs.manifest /\ vs.manifest < vs.next
      /\ \A m \in edit.add :
           m \in DOMAIN tables /\ m \in Nat /\ vs.manifest < m /\ m < vs.next
      /\ \A k \in manifests[current].synced..Len(manifests[current].recs) :
           \A m \in FilesUpTo(manifests[current].recs, k) :
             m \in DOMAIN tables /\ m \in Nat /\ m < vs.manifest
  BY <1>2, OpeningFacts
<1>5. written \in Nat /\ LogEntries(logs[n]) \subseteq Known
      /\ logs[n].recs \in Seq(Records)
  BY <1>3 DEF Inv, TypeInv
<1>6. \A e \in Known : e.s \in Nat /\ e.s <= written
  BY <1>5 DEF Known
<1>7. PICK l, x : l = MaxSequence(vs.last, logs[n].recs)
                  /\ x = MarkFileNumberUsed(vs.next + c, n)
  OBVIOUS
<1>8. /\ l \in Nat /\ vs.last <= l /\ l <= written
      /\ \A e \in LogEntries(logs[n]) : e.s <= l
  <2>1. PICK rs, v : rs = logs[n].recs /\ v = vs.last
    OBVIOUS
  <2>2. DOMAIN rs = 1..Len(rs)
    BY <1>5, <2>1
  <2>3. LogEntries(logs[n]) = {rs[i] : i \in DOMAIN rs}
    BY <2>1, <2>2 DEF LogEntries
  <2>4. \A i \in DOMAIN rs : rs[i].s \in Nat /\ rs[i].s <= written
    BY <1>5, <1>6, <2>3
  <2>5. /\ MaxSequence(v, rs) \in Nat /\ v <= MaxSequence(v, rs)
        /\ MaxSequence(v, rs) <= written
        /\ \A i \in DOMAIN rs : rs[i].s <= MaxSequence(v, rs)
    <3>1. v \in Nat /\ v <= written
      BY <1>4, <2>1
    <3> QED BY ONLY <1>5, <2>4, <3>1, SequenceFound
  <2> QED BY <1>7, <2>1, <2>3, <2>5
<1>9. x \in Nat /\ vs.next + c <= x /\ n < x /\ vs.next <= x
  BY <1>3, <1>4, <1>7 DEF MarkFileNumberUsed
<1>10. /\ vs' \in [files : SUBSET Nat, log : Nat, next : Nat, manifest : Nat,
                   last : Nat]
       /\ vs'.files = vs.files /\ vs'.log = vs.log /\ vs'.next = x
       /\ vs'.manifest = vs.manifest /\ vs'.last = l
  <2>1. vs \in [files : SUBSET Nat, log : Nat, next : Nat, manifest : Nat,
                last : Nat]
    BY DEF Inv, TypeInv
  <2>2. vs' = [vs EXCEPT !.next = x, !.last = l]
    BY <1>1, <1>7
  <2> QED BY ONLY <1>8, <1>9, <2>1, <2>2
<1>11. /\ edit' \in Edits /\ edit'.add = edit.add \union N /\ edit'.del = edit.del
       /\ edit'.log = edit.log
  <2>1. edit \in Edits /\ N \subseteq Nat
    BY <1>3 DEF Inv, TypeInv
  <2>2. edit' = [edit EXCEPT !.add = edit.add \union N]
    BY <1>1
  <2> QED BY ONLY <2>1, <2>2 DEF Edits
<1>12. \A m \in edit.add : tables'[m] = tables[m] /\ m \notin N
  <2> SUFFICES ASSUME NEW m \in edit.add PROVE tables'[m] = tables[m] /\ m \notin N
    OBVIOUS
  <2>1. m \in DOMAIN tables /\ m \in Nat /\ m < vs.next
    BY <1>4
  <2>2. m \notin N
    BY <1>3, <1>4, <2>1
  <2> QED BY <1>3, <2>1, <2>2
<1>13. Known' = Known
  BY <1>1, KnownKept
<1>14. /\ IdleInv' /\ LiveInv' /\ TrashInv' /\ BackgroundInv'
       /\ hasImm' \in BOOLEAN
  BY <1>1, <1>2, NotLiveKept
<1>15. TypeInv'
  <2>1. \A m \in DOMAIN tables' : tables'[m] \subseteq Known
    <3> SUFFICES ASSUME NEW m \in DOMAIN tables' PROVE tables'[m] \subseteq Known
      OBVIOUS
    <3>1. CASE m \in N
      <4>1. tables'[m] \subseteq Stored(tables', N)
        BY <3>1 DEF Stored
      <4> QED BY <1>3, <1>5, <4>1
    <3>2. CASE m \notin N
      <4>1. m \in DOMAIN tables /\ tables'[m] = tables[m]
        BY <1>3, <3>2
      <4> QED BY <4>1 DEF Inv, TypeInv
    <3> QED BY <3>1, <3>2
  <2>2. DOMAIN tables' \subseteq Nat /\ vs'.last <= written'
    BY <1>1, <1>3, <1>8, <1>10 DEF Inv, TypeInv
  <2> QED BY <1>1, <1>10, <1>11, <1>13, <1>14, <2>1, <2>2 DEF Inv, TypeInv
<1>16. LogsInv'
  BY <1>1 DEF Inv, LogsInv
<1>17. DirInv'
  <2>1. ASSUME NEW k \in manifests[current].synced..Len(manifests[current].recs)
        PROVE  LET recs == manifests[current].recs
                   F == FilesUpTo(recs, k)
               IN  /\ \A m \in F : m \in DOMAIN tables' /\ tables'[m] = tables[m]
                   /\ \A m \in From(logs, recs[k].log) :
                        m \in DOMAIN logs' /\ logs'[m] = logs[m]
                   /\ \A m \in From(logs', recs[k].log) :
                        m \in DOMAIN logs \/ logs'[m] = EmptyFile
    <3>1. ASSUME NEW m \in FilesUpTo(manifests[current].recs, k)
          PROVE  m \in DOMAIN tables' /\ tables'[m] = tables[m]
      <4>1. m \in DOMAIN tables /\ m \in Nat /\ m < vs.manifest
        BY <1>4
      <4>2. m < vs.next
        BY <1>4, <4>1
      <4> QED BY <1>3, <4>1, <4>2
    <3> QED BY <1>1, <3>1 DEF From
  <2>2. current \in DOMAIN manifests'
    BY <1>1, <1>4, CurrentManifest
  <2> QED BY <1>1, <1>4, <2>1, <2>2, DirKept
<1>18. OpeningInv'
  <2>1. PICK rs, L : rs = manifests[current].recs /\ L = Len(rs)
    OBVIOUS
  <2>2. /\ vs.files = FilesUpTo(rs, L) /\ vs.log = rs[L].log
        /\ vs.manifest = rs[L].next /\ rs[L].last <= vs.last
        /\ edit.del = {} /\ edit.log = None /\ todo \subseteq From(logs, vs.log)
        /\ \A a, b \in edit.add : a # b => tables[a] \intersect tables[b] = {}
        /\ Stored(tables, edit.add) = UNION {LogEntries(logs[m]) : m \in Replayed}
        /\ \A m \in Replayed : m < vs.next
        /\ \A e \in Stored(tables, edit.add) : e.s <= vs.last
    BY <1>1, <1>2, <2>1 DEF Inv, OpeningInv
  <2>3. Replayed' = Replayed \union {n} /\ n \notin Replayed
        /\ Replayed \subseteq DOMAIN logs
    BY <1>1, <1>3, <1>10, <2>2 DEF Replayed, From
  <2>4. Stored(tables', edit.add) = Stored(tables, edit.add)
    BY <1>12 DEF Stored
  <2>5. Stored(tables', edit'.add) =
          UNION {LogEntries(logs'[m]) : m \in Replayed'}
    <3>1. Stored(tables', edit'.add) =
            Stored(tables, edit.add) \union LogEntries(logs[n])
      <4>1. Stored(tables', edit.add \union N) =
              Stored(tables', edit.add) \union Stored(tables', N)
        BY DEF Stored
      <4> QED BY <1>3, <1>11, <2>4, <4>1
    <3>2. UNION {LogEntries(logs'[m]) : m \in Replayed'} =
            (UNION {LogEntries(logs[m]) : m \in Replayed}) \union LogEntries(logs[n])
      BY <1>1, <2>3
    <3> QED BY <2>2, <3>1, <3>2
  <2>6. \A a, b \in edit'.add : a # b => tables'[a] \intersect tables'[b] = {}
    <3>1. Stored(tables, edit.add) \intersect LogEntries(logs[n]) = {}
      <4>1. \A m \in Replayed : LogEntries(logs[m]) \intersect LogEntries(logs[n]) = {}
        BY <1>3, <2>3 DEF Inv, LogsInv
      <4> QED BY <2>2, <4>1
    <3>2. ASSUME NEW a \in edit.add, NEW b \in N
          PROVE  tables'[a] \intersect tables'[b] = {}
      <4>1. tables'[a] \subseteq Stored(tables, edit.add)
        BY <1>12 DEF Stored
      <4>2. tables'[b] \subseteq LogEntries(logs[n])
        BY <1>3 DEF Stored
      <4> QED BY <3>1, <4>1, <4>2
    <3>3. \A a, b \in edit.add : a # b => tables'[a] \intersect tables'[b] = {}
      BY <1>12, <2>2
    <3>4. \A a, b \in N : a # b => tables'[a] \intersect tables'[b] = {}
      BY <1>3
    <3> QED BY ONLY <1>11, <3>2, <3>3, <3>4
  <2>7. \A e \in Stored(tables', edit'.add) : e.s <= vs'.last
    <3> SUFFICES ASSUME NEW e \in Stored(tables', edit'.add) PROVE e.s <= l
      BY <1>10
    <3>1. e \in Stored(tables, edit.add) \/ e \in LogEntries(logs[n])
      BY <1>1, <2>2, <2>3, <2>5
    <3>2. CASE e \in Stored(tables, edit.add)
      <4>1. e.s <= vs.last
        BY <2>2, <3>2
      <4>2. e \in Known
        BY <1>4, <3>2 DEF Stored, Inv, TypeInv
      <4>3. e.s \in Nat
        BY <1>6, <4>2
      <4> QED BY <1>4, <1>8, <4>1, <4>3
    <3>3. CASE e \in LogEntries(logs[n])
      BY <1>8, <3>3
    <3> QED BY <3>1, <3>2, <3>3
  <2>8. /\ edit'.add \subseteq DOMAIN tables'
        /\ \A m \in edit'.add : vs'.manifest < m /\ m < vs'.next
    <3>1. ASSUME NEW m \in edit.add PROVE vs.manifest < m /\ m < x
      <4>1. m \in Nat /\ vs.manifest < m /\ m < vs.next
        BY <1>4
      <4> QED BY <1>4, <1>9, <4>1
    <3>2. ASSUME NEW m \in N PROVE vs.manifest < m /\ m < x
      <4>1. m \in vs.next..(vs.next + c - 1)
        BY <1>0
      <4> QED BY <1>3, <1>4, <1>9, <4>1
    <3> QED BY <1>3, <1>4, <1>10, <1>11, <3>1, <3>2
  <2>9. \A m \in Replayed' : m < vs'.next
    <3> SUFFICES ASSUME NEW m \in Replayed' PROVE m < x
      BY <1>10
    <3>1. CASE m = n
      BY <1>9, <3>1
    <3>2. CASE m # n
      <4>1. m < vs.next /\ m \in Nat
        BY <2>2, <2>3, <3>2 DEF Inv, TypeInv
      <4> QED BY <1>4, <1>9, <4>1
    <3> QED BY <3>1, <3>2
  <2>10. vs'.manifest < vs'.next /\ rs[L].last <= vs'.last
    <3>1. rs[L].last \in Nat
      <4>1. L \in manifests[current].synced..Len(manifests[current].recs)
        BY <1>4, <2>1, CurrentManifest
      <4> QED BY <1>4, <2>1, <4>1, PrefixNumbers
    <3> QED BY <1>4, <1>8, <1>9, <1>10, <2>2, <3>1
  <2>11. /\ manifests'[current'].recs = rs /\ Len(manifests'[current'].recs) = L
         /\ current' # 0 /\ pc' = "replay"
    BY <1>1, <1>4, <2>1
  <2>12. edit'.log = None /\ edit'.del = {} /\ todo' \subseteq From(logs', vs'.log)
    BY <1>1, <1>10, <1>11, <2>2
  <2> QED BY <1>10, <2>2, <2>5, <2>6, <2>7, <2>8, <2>9, <2>10, <2>11, <2>12
          DEF OpeningInv
<1> QED BY <1>14, <1>15, <1>16, <1>17, <1>18 DEF Inv

(* DB::Open creates a log behind all that there are.                        *)
LEMMA OpenLogInv ==
  ASSUME Inv, OpenLog
  PROVE  Inv'
<1>1. /\ pc = "replay" /\ todo = {} /\ pc' = "newlog"
      /\ logs' = Put(logs, vs.next, EmptyFile) /\ logfile' = vs.next
      /\ edit' = [edit EXCEPT !.log = vs.next]
      /\ vs' = [vs EXCEPT !.next = @ + 1]
      /\ UNCHANGED <<tables, manifests, current, bg, mem, imm, hasImm, todo,
                     trash, written, acked, synced, gone>>
  BY DEF OpenLog, boundVars, histVars
<1>2. Opening /\ Opening' /\ ~Live
  BY <1>1 DEF Opening, Live
<1>3. /\ current # 0 /\ vs.log \in Nat /\ vs.next \in Nat /\ vs.manifest \in Nat
      /\ vs.log < vs.manifest /\ vs.manifest < vs.next
      /\ \A m \in edit.add : m \in Nat /\ vs.manifest < m /\ m < vs.next
      /\ \A k \in manifests[current].synced..Len(manifests[current].recs) :
           \A m \in FilesUpTo(manifests[current].recs, k) : m \in DOMAIN tables
  BY <1>2, OpeningFacts
<1>4. \A n \in DOMAIN logs : n \in Nat /\ n < vs.next
  <2> SUFFICES ASSUME NEW n \in DOMAIN logs PROVE n \in Nat /\ n < vs.next
    OBVIOUS
  <2>1. n \in Nat
    BY DEF Inv, TypeInv
  <2>2. CASE n >= vs.log
    BY <1>1, <1>2, <2>1, <2>2 DEF Inv, OpeningInv, Replayed, From
  <2>3. CASE ~(n >= vs.log)
    BY <1>3, <2>1, <2>3
  <2> QED BY <2>2, <2>3
<1>5. vs.next \notin DOMAIN logs
  BY <1>3, <1>4
<1>6. /\ DOMAIN logs' = DOMAIN logs \union {vs.next}
      /\ logs'[vs.next] = EmptyFile /\ LogEntries(logs'[vs.next]) = {}
      /\ \A m \in DOMAIN logs : logs'[m] = logs[m]
      /\ \A m \in DOMAIN logs' : m \in DOMAIN logs \/ logs'[m] = EmptyFile
      /\ \A m \in DOMAIN logs' :
           /\ logs'[m] = [recs |-> logs'[m].recs, synced |-> logs'[m].synced]
           /\ logs'[m].recs \in Seq(Records)
           /\ logs'[m].synced \in 0..Len(logs'[m].recs)
           /\ LogEntries(logs'[m]) \subseteq Known
      /\ LogsInv'
  BY <1>1, <1>3, <1>5, LogCreated
<1>7. /\ vs' \in [files : SUBSET Nat, log : Nat, next : Nat, manifest : Nat,
                  last : Nat]
      /\ vs'.files = vs.files /\ vs'.log = vs.log /\ vs'.next = vs.next + 1
      /\ vs'.manifest = vs.manifest /\ vs'.last = vs.last
  BY <1>1 DEF Inv, TypeInv
<1>8. /\ edit' \in Edits /\ edit'.add = edit.add /\ edit'.del = edit.del
      /\ edit'.log = vs.next
  <2>1. edit \in Edits /\ vs.next \in Int
    BY <1>3 DEF Inv, TypeInv
  <2>2. edit' = [edit EXCEPT !.log = vs.next]
    BY <1>1
  <2> QED BY ONLY <2>1, <2>2 DEF Edits
<1>9. Known' = Known
  BY <1>1, KnownKept
<1>10. /\ IdleInv' /\ LiveInv' /\ TrashInv' /\ BackgroundInv'
       /\ hasImm' \in BOOLEAN
  BY <1>1, <1>2, NotLiveKept
<1>11. TypeInv'
  <2>1. DOMAIN logs' \subseteq Nat /\ vs'.last <= written' /\ logfile' \in Nat
    BY <1>1, <1>3, <1>4, <1>6, <1>7 DEF Inv, TypeInv
  <2> QED BY <1>1, <1>6, <1>7, <1>8, <1>9, <1>10, <2>1 DEF Inv, TypeInv
<1>12. DirInv'
  <2>1. ASSUME NEW k \in manifests[current].synced..Len(manifests[current].recs)
        PROVE  LET recs == manifests[current].recs
                   F == FilesUpTo(recs, k)
               IN  /\ \A m \in F : m \in DOMAIN tables' /\ tables'[m] = tables[m]
                   /\ \A m \in From(logs, recs[k].log) :
                        m \in DOMAIN logs' /\ logs'[m] = logs[m]
                   /\ \A m \in From(logs', recs[k].log) :
                        m \in DOMAIN logs \/ logs'[m] = EmptyFile
    BY <1>1, <1>3, <1>6 DEF From
  <2>2. current \in DOMAIN manifests'
    BY <1>1, <1>3, CurrentManifest
  <2> QED BY <1>1, <1>3, <2>1, <2>2, DirKept
<1>13. OpeningInv'
  <2>1. PICK rs, L : rs = manifests[current].recs /\ L = Len(rs)
    OBVIOUS
  <2>2. /\ vs.files = FilesUpTo(rs, L) /\ vs.log = rs[L].log
        /\ vs.manifest = rs[L].next /\ rs[L].last <= vs.last
        /\ edit.del = {} /\ edit.add \subseteq DOMAIN tables
        /\ \A a, b \in edit.add : a # b => tables[a] \intersect tables[b] = {}
        /\ Stored(tables, edit.add) = UNION {LogEntries(logs[m]) : m \in Replayed}
        /\ \A e \in Stored(tables, edit.add) : e.s <= vs.last
    BY <1>2, <2>1 DEF Inv, OpeningInv
  <2>3. Replayed' = Replayed \union {vs.next} /\ Replayed \subseteq DOMAIN logs
    <3>1. vs.next >= vs.log
      BY <1>3
    <3> QED BY <1>1, <1>6, <1>7, <3>1 DEF Replayed, From
  <2>4. UNION {LogEntries(logs'[m]) : m \in Replayed'} =
          UNION {LogEntries(logs[m]) : m \in Replayed}
    BY <1>6, <2>3
  <2>5. \A m \in Replayed' : m < vs'.next
    <3> SUFFICES ASSUME NEW m \in Replayed' PROVE m < vs.next + 1
      BY <1>7
    <3>1. m = vs.next \/ (m \in Nat /\ m < vs.next)
      BY <1>4, <2>3
    <3> QED BY <1>3, <3>1
  <2>6. \A m \in edit'.add : vs'.manifest < m /\ m < vs'.next
    <3> SUFFICES ASSUME NEW m \in edit.add PROVE vs.manifest < m /\ m < vs.next + 1
      BY <1>7, <1>8
    <3>1. m \in Nat /\ vs.manifest < m /\ m < vs.next
      BY <1>3
    <3> QED BY <1>3, <3>1
  <2>7. vs'.manifest < vs'.next /\ vs'.log < logfile' /\ logfile' < vs'.next
    BY <1>1, <1>3, <1>7
  <2>8. \A m \in DOMAIN logs' : m <= logfile'
    <3> SUFFICES ASSUME NEW m \in DOMAIN logs' PROVE m <= vs.next
      BY <1>1
    <3>1. m = vs.next \/ (m \in Nat /\ m < vs.next)
      BY <1>4, <1>6
    <3> QED BY <1>3, <3>1
  <2>9. /\ manifests'[current'].recs = rs /\ Len(manifests'[current'].recs) = L
        /\ current' # 0 /\ pc' = "newlog" /\ todo' = {} /\ edit'.log = logfile'
        /\ logfile' \in DOMAIN logs' /\ logs'[logfile'] = EmptyFile
        /\ tables' = tables
    BY <1>1, <1>3, <1>6, <1>8, <2>1
  <2> QED BY <1>7, <1>8, <2>2, <2>4, <2>5, <2>6, <2>7, <2>8, <2>9
          DEF OpeningInv
<1> QED BY <1>6, <1>10, <1>11, <1>12, <1>13 DEF Inv

(* Once the new log is there, the steps of DB::Open up to SetCurrentFile    *)
(* write only the new MANIFEST.                                             *)
LEMMA NewManifestKept ==
  ASSUME Inv, pc \in {"newlog", "newmanifest"},
         pc' \in {"newmanifest", "setcurrent"},
         UNCHANGED <<logs, tables, current, bg, vs, logfile, mem, imm, hasImm,
                     todo, trash, written, acked, synced, gone>>,
         edit' \in Edits, edit'.add = edit.add, edit'.del = edit.del,
         edit'.log = edit.log, edit'.next = vs.next, edit'.last = vs.last,
         NEW x, x = [recs |-> x.recs, synced |-> x.synced],
         x.recs = <<[NoEdit EXCEPT !.add = vs.files], edit'>>,
         x.recs \in Seq(Edits), x.synced \in 0..Len(x.recs),
         pc' = "setcurrent" => x.synced = 2,
         DOMAIN manifests' = DOMAIN manifests \union {vs.manifest},
         manifests'[vs.manifest] = x,
         \A n \in DOMAIN manifests : n # vs.manifest => manifests'[n] = manifests[n]
  PROVE  Inv'
<1>1. Opening /\ Opening' /\ ~Live
  BY DEF Opening, Live
<1>2. /\ current # 0 /\ current \in Nat /\ vs.manifest \in Nat
      /\ current < vs.manifest
      /\ \A k \in manifests[current].synced..Len(manifests[current].recs) :
           \A m \in FilesUpTo(manifests[current].recs, k) : m \in DOMAIN tables
  BY <1>1, OpeningFacts
<1>3. current \in DOMAIN manifests /\ current # vs.manifest
  BY <1>2, CurrentManifest
<1>4. manifests'[current] = manifests[current] /\ current \in DOMAIN manifests'
  BY <1>3
<1>5. Known' = Known
  BY KnownKept
<1>6. /\ IdleInv' /\ LiveInv' /\ TrashInv' /\ BackgroundInv'
      /\ hasImm' \in BOOLEAN
  BY <1>1, NotLiveKept
<1>7. TypeInv'
  <2>1. \A n \in DOMAIN manifests' :
          /\ manifests'[n] = [recs |-> manifests'[n].recs,
                              synced |-> manifests'[n].synced]
          /\ manifests'[n].recs \in Seq(Edits)
          /\ manifests'[n].synced \in 0..Len(manifests'[n].recs)
    <3> SUFFICES ASSUME NEW n \in DOMAIN manifests'
                 PROVE  /\ manifests'[n] = [recs |-> manifests'[n].recs,
                                            synced |-> manifests'[n].synced]
                        /\ manifests'[n].recs \in Seq(Edits)
                        /\ manifests'[n].synced \in 0..Len(manifests'[n].recs)
      OBVIOUS
    <3>1. CASE n = vs.manifest
      BY <3>1
    <3>2. CASE n # vs.manifest
      <4>1. n \in DOMAIN manifests /\ manifests'[n] = manifests[n]
        BY <3>2
      <4> QED BY <4>1 DEF Inv, TypeInv
    <3> QED BY <3>1, <3>2
  <2>2. DOMAIN manifests' \subseteq Nat
    BY <1>2 DEF Inv, TypeInv
  <2> QED BY <1>5, <1>6, <2>1, <2>2 DEF Inv, TypeInv
<1>8. LogsInv'
  BY DEF Inv, LogsInv
<1>9. DirInv'
  <2>1. ASSUME NEW k \in manifests[current].synced..Len(manifests[current].recs)
        PROVE  LET recs == manifests[current].recs
                   F == FilesUpTo(recs, k)
               IN  /\ \A m \in F : m \in DOMAIN tables' /\ tables'[m] = tables[m]
                   /\ \A m \in From(logs, recs[k].log) :
                        m \in DOMAIN logs' /\ logs'[m] = logs[m]
                   /\ \A m \in From(logs', recs[k].log) :
                        m \in DOMAIN logs \/ logs'[m] = EmptyFile
    BY <1>2 DEF From
  <2> QED BY <1>2, <1>4, <2>1, DirKept
<1>10. OpeningInv'
  <2>1. PICK rs, L : rs = manifests[current].recs /\ L = Len(rs)
    OBVIOUS
  <2>2. /\ vs.files = FilesUpTo(rs, L) /\ vs.log = rs[L].log
        /\ vs.manifest = rs[L].next /\ vs.manifest < vs.next
        /\ rs[L].last <= vs.last
        /\ edit.del = {} /\ edit.add \subseteq DOMAIN tables
        /\ \A n \in edit.add : vs.manifest < n /\ n < vs.next
        /\ \A a, b \in edit.add : a # b => tables[a] \intersect tables[b] = {}
        /\ Stored(tables, edit.add) = UNION {LogEntries(logs[n]) : n \in Replayed}
        /\ \A n \in Replayed : n < vs.next
        /\ \A e \in Stored(tables, edit.add) : e.s <= vs.last
    BY <1>1, <2>1 DEF Inv, OpeningInv
  <2>3. /\ todo = {} /\ edit.log = logfile
        /\ logfile \in DOMAIN logs /\ logs[logfile] = EmptyFile
        /\ vs.log < logfile /\ logfile < vs.next
        /\ \A n \in DOMAIN logs : n <= logfile
    BY <1>1 DEF Inv, OpeningInv
  <2>4. Replayed' = Replayed
    BY DEF Replayed
  <2>5. manifests'[current'].recs = rs /\ Len(manifests'[current'].recs) = L
        /\ current' # 0
    BY <1>2, <1>4, <2>1
  <2>6. /\ vs'.manifest \in DOMAIN manifests'
        /\ manifests'[vs'.manifest].recs =
             <<[NoEdit EXCEPT !.add = vs'.files], edit'>>
        /\ edit'.next = vs'.next /\ edit'.last = vs'.last
        /\ pc' = "setcurrent" => manifests'[vs'.manifest].synced = 2
    OBVIOUS
  <2>7. pc' # "replay"
    OBVIOUS
  <2> QED BY <2>2, <2>3, <2>4, <2>5, <2>6, <2>7 DEF OpeningInv
<1> QED BY <1>6, <1>7, <1>8, <1>9, <1>10 DEF Inv

(* LogAndApply writes a new MANIFEST.                                       *)
LEMMA OpenManifestInv ==
  ASSUME Inv, OpenManifest
  PROVE  Inv'
<1>0. PICK s, e : s = [NoEdit EXCEPT !.add = vs.files] /\ e = edit'
  OBVIOUS
<1>1. /\ pc = "newlog" /\ e = CompleteEdit(edit)
      /\ manifests' = Put(manifests, vs.manifest,
                          AddRecord(AddRecord(EmptyFile, s), e))
      /\ pc' = "newmanifest"
  BY <1>0 DEF OpenManifest
<1>2. UNCHANGED <<logs, tables, current, bg, vs, logfile, mem, imm, hasImm,
                  todo, trash, written, acked, synced, gone>>
  BY DEF OpenManifest, memVars, boundVars, histVars
<1>3. /\ edit.log = logfile /\ logfile \in Nat /\ edit \in Edits
      /\ vs.next \in Nat /\ vs.last \in Nat /\ vs.files \subseteq Nat
  <2>1. Opening
    BY <1>1 DEF Opening
  <2>2. edit.log = logfile
    BY <1>1, <2>1 DEF Inv, OpeningInv
  <2> QED BY <2>2 DEF Inv, TypeInv
<1>4. /\ e \in Edits /\ e.add = edit.add /\ e.del = edit.del
      /\ e.log = edit.log /\ e.next = vs.next /\ e.last = vs.last
  <2>1. edit.log # None /\ edit.log \in Int /\ vs.next \in Int /\ vs.last \in Int
    BY <1>3 DEF None
  <2>2. e = [edit EXCEPT !.log = edit.log, !.next = vs.next, !.last = vs.last]
    BY <1>1, <2>1 DEF CompleteEdit
  <2> QED BY ONLY <1>3, <2>1, <2>2 DEF Edits
<1>5. s \in Edits
  <2>1. NoEdit \in Edits
    BY DEF NoEdit, Edits, None
  <2> QED BY <1>0, <1>3, <2>1 DEF Edits
<1>6. PICK x : x = [recs |-> <<s, e>>, synced |-> 0]
  OBVIOUS
<1>7. x = AddRecord(AddRecord(EmptyFile, s), e)
  <2>1. EmptyFile = [recs |-> EmptyFile.recs, synced |-> EmptyFile.synced]
        /\ EmptyFile.recs = <<>> /\ EmptyFile.synced = 0
    BY DEF EmptyFile
  <2>2. PICK f : f = AddRecord(EmptyFile, s)
    OBVIOUS
  <2>3. f = [recs |-> Append(<<>>, s), synced |-> 0]
    BY <2>1, <2>2, FileOperations
  <2>4. Append(<<>>, s) = <<s>> /\ Append(<<s>>, e) = <<s, e>>
    <3>1. Append(<<>>, s) = <<s>>
      OBVIOUS
    <3>2. PICK q, r : q = Append(<<s>>, e) /\ r = <<s, e>>
      OBVIOUS
    <3>3. q \in Seq(Edits) /\ Len(q) = 2 /\ q[1] = s /\ q[2] = e
      BY ONLY <1>4, <1>5, <3>2
    <3>4. r \in Seq(Edits) /\ Len(r) = 2 /\ r[1] = s /\ r[2] = e
      BY ONLY <1>4, <1>5, <3>2
    <3>5. q = r
      BY ONLY <3>3, <3>4
    <3> QED BY <3>1, <3>2, <3>5
  <2>5. f = [recs |-> f.recs, synced |-> f.synced] /\ f.recs = <<s>> /\ f.synced = 0
    BY <2>3, <2>4
  <2>6. AddRecord(f, e) = [recs |-> Append(f.recs, e), synced |-> f.synced]
    BY ONLY <2>5, FileOperations
  <2> QED BY <1>6, <2>2, <2>4, <2>5, <2>6
<1>8. /\ x = [recs |-> x.recs, synced |-> x.synced] /\ x.recs = <<s, e>>
      /\ x.recs \in Seq(Edits) /\ x.synced \in 0..Len(x.recs)
  <2>1. <<s, e>> \in Seq(Edits) /\ Len(<<s, e>>) = 2
    BY <1>4, <1>5
  <2> QED BY <1>6, <2>1
<1>9. /\ DOMAIN manifests' = DOMAIN manifests \union {vs.manifest}
      /\ manifests'[vs.manifest] = x
      /\ \A n \in DOMAIN manifests : n # vs.manifest => manifests'[n] = manifests[n]
  BY <1>1, <1>7 DEF Put
<1>10. x.recs = <<[NoEdit EXCEPT !.add = vs.files], edit'>>
  BY <1>0, <1>8
<1>11. /\ edit' \in Edits /\ edit'.add = edit.add /\ edit'.del = edit.del
       /\ edit'.log = edit.log /\ edit'.next = vs.next /\ edit'.last = vs.last
  BY <1>0, <1>4
<1>12. pc \in {"newlog", "newmanifest"} /\ pc' \in {"newmanifest", "setcurrent"}
       /\ (pc' = "setcurrent" => x.synced = 2)
  BY <1>1
<1> QED BY <1>2, <1>8, <1>9, <1>10, <1>11, <1>12, NewManifestKept

(* LogAndApply syncs the new MANIFEST.                                      *)
LEMMA OpenSyncInv ==
  ASSUME Inv, OpenSync
  PROVE  Inv'
<1>1. /\ pc = "newmanifest" /\ pc' = "setcurrent"
      /\ manifests' = [manifests EXCEPT ![vs.manifest] = Sync(@)]
  BY DEF OpenSync
<1>2. UNCHANGED <<logs, tables, current, bg, vs, logfile, mem, imm, hasImm,
                  todo, edit, trash, written, acked, synced, gone>>
  BY DEF OpenSync, memVars, boundVars, histVars
<1>3. /\ vs.manifest \in DOMAIN manifests
      /\ manifests[vs.manifest].recs = <<[NoEdit EXCEPT !.add = vs.files], edit>>
      /\ edit.next = vs.next /\ edit.last = vs.last
  <2>1. Opening
    BY <1>1 DEF Opening
  <2> QED BY <1>1, <2>1 DEF Inv, OpeningInv
<1>4. PICK f, x : f = manifests[vs.manifest] /\ x = [recs |-> f.recs, synced |-> 2]
  OBVIOUS
<1>5. f = [recs |-> f.recs, synced |-> f.synced] /\ f.recs \in Seq(Edits)
      /\ Len(f.recs) = 2
  <2>1. Len(f.recs) = 2
    BY <1>3, <1>4
  <2> QED BY <1>3, <1>4, <2>1 DEF Inv, TypeInv
<1>6. Sync(f) = x
  <2>1. Sync(f) = [recs |-> f.recs, synced |-> Len(f.recs)]
    BY ONLY <1>5, FileOperations
  <2> QED BY <1>4, <1>5, <2>1
<1>7. /\ x = [recs |-> x.recs, synced |-> x.synced] /\ x.recs = f.recs
      /\ x.recs \in Seq(Edits) /\ x.synced \in 0..Len(x.recs) /\ x.synced = 2
  BY <1>4, <1>5
<1>8. x.recs = <<[NoEdit EXCEPT !.add = vs.files], edit'>>
  BY <1>2, <1>3, <1>4, <1>7
<1>9. /\ DOMAIN manifests' = DOMAIN manifests \union {vs.manifest}
      /\ manifests'[vs.manifest] = x
      /\ \A n \in DOMAIN manifests : n # vs.manifest => manifests'[n] = manifests[n]
  BY <1>1, <1>3, <1>4, <1>6
<1>10. /\ edit' \in Edits /\ edit'.add = edit.add /\ edit'.del = edit.del
       /\ edit'.log = edit.log /\ edit'.next = vs.next /\ edit'.last = vs.last
  BY <1>2, <1>3 DEF Inv, TypeInv
<1>11. pc \in {"newlog", "newmanifest"} /\ pc' \in {"newmanifest", "setcurrent"}
  BY <1>1
<1> QED BY <1>2, <1>7, <1>8, <1>9, <1>10, <1>11, NewManifestKept

(* The tables made of the logs take their place.                            *)
LEMMA OpenedSound ==
  ASSUME Inv, pc = "setcurrent"
  PROVE  /\ Sound(logs, tables, acked, synced, gone, vs.files \union edit.add,
                  logfile)
         /\ \A e \in Stored(tables, vs.files \union edit.add) : e.s <= vs.last
         /\ From(logs, logfile) = {logfile} /\ LogEntries(logs[logfile]) = {}
<1>1. Opening
  BY DEF Opening
<1>2. /\ current # 0 /\ vs.log \in Nat /\ vs.next \in Nat /\ vs.manifest \in Nat
      /\ vs.last \in Nat
      /\ \A n \in vs.files : n \in DOMAIN tables /\ n \in Nat /\ n < vs.manifest
      /\ \A n \in edit.add :
           n \in DOMAIN tables /\ n \in Nat /\ vs.manifest < n /\ n < vs.next
      /\ Sound(logs, tables, acked, synced, gone, vs.files, vs.log)
  BY <1>1, OpeningFacts
<1>3. /\ todo = {} /\ logfile \in DOMAIN logs /\ logs[logfile] = EmptyFile
      /\ vs.log < logfile /\ \A n \in DOMAIN logs : n <= logfile
      /\ \A a, b \in edit.add : a # b => tables[a] \intersect tables[b] = {}
      /\ Stored(tables, edit.add) = UNION {LogEntries(logs[n]) : n \in Replayed}
      /\ \A e \in Stored(tables, edit.add) : e.s <= vs.last
  BY <1>1 DEF Inv, OpeningInv
<1>4. logfile \in Nat /\ DOMAIN logs \subseteq Nat
  BY DEF Inv, TypeInv
<1>5. LogEntries(logs[logfile]) = {}
  <2>1. Len(<<>>) = 0 /\ EmptyFile.recs = <<>> /\ 1..0 = {}
    BY DEF EmptyFile
  <2> QED BY <1>3, <2>1 DEF LogEntries
<1>6. From(logs, logfile) = {logfile}
  BY <1>3, <1>4 DEF From
<1>7. Logged(logs, logfile) = {}
  BY <1>5, <1>6 DEF Logged
<1>8. Stored(tables, edit.add) = Logged(logs, vs.log)
  BY <1>3 DEF Replayed, Logged
<1>9. SyncedLogged(logs, vs.log) \subseteq Logged(logs, vs.log)
  BY SyncedWithin
<1>10. PICK F, A, n, m : F = vs.files /\ A = edit.add /\ n = vs.log /\ m = logfile
  OBVIOUS
<1>11. /\ Sound(logs, tables, acked, synced, gone, F, n)
       /\ A \subseteq DOMAIN tables
       /\ \A a, b \in A : a # b => tables[a] \intersect tables[b] = {}
       /\ Logged(logs, n) = Stored(tables, A) \union Logged(logs, m)
       /\ Stored(tables, A) \intersect Logged(logs, m) = {}
       /\ SyncedLogged(logs, n) \subseteq Stored(tables, A) \union SyncedLogged(logs, m)
  BY <1>2, <1>3, <1>7, <1>8, <1>9, <1>10
<1>12. A \intersect F = {}
  <2> SUFFICES ASSUME NEW a \in A, a \in F PROVE FALSE
    OBVIOUS
  <2>1. a \in Nat /\ vs.manifest < a /\ a < vs.manifest
    BY <1>2, <1>10
  <2> QED BY <1>2, <2>1
<1>13. Sound(logs, tables, acked, synced, gone, F \union A, m)
  BY ONLY <1>11, <1>12, SoundAfterMove
<1>14. \A e \in Stored(tables, vs.files) : e.s <= vs.last
  <2>1. PICK rs, L : rs = manifests[current].recs /\ L = Len(rs)
    OBVIOUS
  <2>2. L \in manifests[current].synced..Len(manifests[current].recs)
    BY <1>2, <2>1, CurrentManifest
  <2>3. vs.files = FilesUpTo(rs, L) /\ rs[L].last <= vs.last
    BY <1>1, <2>1 DEF Inv, OpeningInv
  <2>4. \A e \in Stored(tables, vs.files) : e.s <= rs[L].last
    BY <1>2, <2>1, <2>2, <2>3, CurrentManifest DEF PrefixInv
  <2>5. rs[L].last \in Nat /\ \A e \in Stored(tables, vs.files) : e \in Known
    BY <1>2, <2>1, <2>2, <2>3, PrefixNumbers
  <2>6. \A e \in Stored(tables, vs.files) : e.s \in Nat
    BY <2>5 DEF Known, Inv, TypeInv
  <2> QED BY <1>2, <2>3, <2>4, <2>5, <2>6
<1>15. \A e \in Stored(tables, vs.files \union edit.add) : e.s <= vs.last
  BY <1>3, <1>14 DEF Stored
<1> QED BY <1>5, <1>6, <1>10, <1>13, <1>15

(* SetCurrentFile: the new MANIFEST is complete and synced, and describes   *)
(* what the old one and the logs did.                                       *)
LEMMA OpenCurrentInv ==
  ASSUME Inv, OpenCurrent
  PROVE  Inv'
<1>1. /\ pc = "setcurrent" /\ pc' = "cleanup" /\ current' = vs.manifest
      /\ vs' = [vs EXCEPT !.files = @ \union edit.add, !.log = edit.log]
      /\ edit' = NoEdit
      /\ trash' = Obsolete(vs', DOMAIN logs, DOMAIN tables, DOMAIN manifests)
      /\ UNCHANGED <<logs, tables, manifests, bg, logfile, mem, imm, hasImm,
                     todo, written, acked, synced, gone>>
  BY DEF OpenCurrent, memVars, boundVars, histVars
<1>2. Opening /\ ~Live /\ Live' /\ ~Opening'
  BY <1>1 DEF Opening, Live
<1>3. /\ current # 0 /\ vs.next \in Nat /\ vs.manifest \in Nat
      /\ vs.last \in Nat /\ vs.last <= written
      /\ vs.manifest < vs.next /\ current < vs.manifest
      /\ \A n \in vs.files : n \in DOMAIN tables /\ n \in Nat /\ n < vs.manifest
      /\ \A n \in edit.add :
           n \in DOMAIN tables /\ n \in Nat /\ vs.manifest < n /\ n < vs.next
      /\ current \in Nat
  BY <1>2, OpeningFacts
<1>4. /\ Sound(logs, tables, acked, synced, gone, vs.files \union edit.add, logfile)
      /\ \A e \in Stored(tables, vs.files \union edit.add) : e.s <= vs.last
      /\ From(logs, logfile) = {logfile} /\ LogEntries(logs[logfile]) = {}
  BY <1>1, OpenedSound
<1>5. /\ edit.log = logfile /\ edit.del = {} /\ logfile < vs.next
      /\ vs.manifest \in DOMAIN manifests
      /\ manifests[vs.manifest].recs = <<[NoEdit EXCEPT !.add = vs.files], edit>>
      /\ manifests[vs.manifest].synced = 2
      /\ edit.next = vs.next /\ edit.last = vs.last
  BY <1>1, <1>2 DEF Inv, OpeningInv
<1>6. logfile \in Nat /\ written \in Nat
  BY DEF Inv, TypeInv
<1>7. PICK s, e, rs : /\ s = [NoEdit EXCEPT !.add = vs.files] /\ e = edit
                      /\ rs = <<s, e>>
  OBVIOUS
<1>8. s.add = vs.files /\ s.del = {}
  BY <1>7 DEF NoEdit
<1>9. rs[1] = s /\ rs[2] = e /\ Len(rs) = 2
  BY <1>7
<1>10. FilesUpTo(rs, 2) = vs.files \union edit.add
  <2>1. FilesUpTo(rs, 0) = {}
    <3>1. 1..0 = {}
      OBVIOUS
    <3> QED BY <3>1 DEF FilesUpTo
  <2>2. FilesUpTo(rs, 0 + 1) =
          (FilesUpTo(rs, 0) \ rs[0 + 1].del) \union rs[0 + 1].add
    <3>1. 0 \in Nat
      OBVIOUS
    <3> QED BY ONLY <3>1, FilesStep
  <2>3. FilesUpTo(rs, 1 + 1) =
          (FilesUpTo(rs, 1) \ rs[1 + 1].del) \union rs[1 + 1].add
    <3>1. 1 \in Nat
      OBVIOUS
    <3> QED BY ONLY <3>1, FilesStep
  <2>4. 0 + 1 = 1 /\ 1 + 1 = 2
    OBVIOUS
  <2>5. FilesUpTo(rs, 1) = vs.files
    BY <1>8, <1>9, <2>1, <2>2, <2>4
  <2> QED BY <1>5, <1>7, <1>9, <2>3, <2>4, <2>5
<1>11. /\ vs' \in [files : SUBSET Nat, log : Nat, next : Nat, manifest : Nat,
                   last : Nat]
       /\ vs'.files = vs.files \union edit.add /\ vs'.log = logfile
       /\ vs'.next = vs.next /\ vs'.manifest = vs.manifest /\ vs'.last = vs.last
  <2>1. vs \in [files : SUBSET Nat, log : Nat, next : Nat, manifest : Nat,
                last : Nat]
    BY DEF Inv, TypeInv
  <2>2. vs' = [vs EXCEPT !.files = vs.files \union edit.add, !.log = logfile]
    BY <1>1, <1>5
  <2>3. edit.add \subseteq Nat
    BY <1>3
  <2> QED BY ONLY <1>6, <2>1, <2>2, <2>3
<1>12. bg = "idle" /\ mem = {} /\ imm = {} /\ bg' = "idle"
  BY <1>1, <1>2 DEF Inv, IdleInv, Running, Live
<1>13. ~hasImm /\ ~hasImm' /\ hasImm' \in BOOLEAN
  BY <1>1, <1>2 DEF Inv, IdleInv, TypeInv
<1>14. Known' = Known
  BY <1>1, KnownKept
<1>15. TypeInv'
  <2>1. edit' \in Edits
    BY <1>1 DEF NoEdit, Edits, None
  <2>2. vs'.last <= written' /\ current' \in Nat
    BY <1>1, <1>3, <1>11
  <2> QED BY <1>1, <1>11, <1>13, <1>14, <2>1, <2>2 DEF Inv, TypeInv
<1>16. LogsInv'
  BY <1>1 DEF Inv, LogsInv
<1>17. /\ manifests'[current'].recs = rs /\ manifests'[current'].synced = 2
       /\ current' \in DOMAIN manifests' /\ current' # 0
  <2>1. current' # 0
    BY <1>1, <1>3
  <2> QED BY <1>1, <1>5, <1>7, <2>1
<1>18. DirInv'
  <2>1. PrefixInv(2)'
    <3>1. /\ e.log \in Nat /\ e.last \in 0..written' /\ e.next \in Nat
          /\ e.log < e.next /\ current' < e.next /\ e.next <= rs[Len(rs)].next
      BY <1>1, <1>3, <1>5, <1>6, <1>7, <1>9
    <3>2. \A n \in vs.files \union edit.add : n < e.next
      <4> SUFFICES ASSUME NEW n \in vs.files \union edit.add PROVE n < vs.next
        BY <1>5, <1>7
      <4>1. CASE n \in vs.files
        <5>1. n \in Nat /\ n < vs.manifest
          BY <1>3, <4>1
        <5> QED BY <1>3, <5>1
      <4>2. CASE n \in edit.add
        BY <1>3, <4>2
      <4> QED BY <4>1, <4>2
    <3>3. \A x \in Stored(tables', vs.files \union edit.add) : x.s <= e.last
      BY <1>1, <1>4, <1>5, <1>7
    <3>4. Sound(logs', tables', acked', synced', gone', vs.files \union edit.add,
                e.log)
      BY <1>1, <1>4, <1>5, <1>7
    <3>5. PICK F : F = vs.files \union edit.add
      OBVIOUS
    <3> QED BY <1>9, <1>10, <1>17, <3>1, <3>2, <3>3, <3>4, <3>5 DEF PrefixInv
  <2>2. 2..2 = {2} /\ 2 > 0
    OBVIOUS
  <2>3. \A k \in {2} : PrefixInv(k)'
    BY <2>1
  <2> QED BY <1>9, <1>17, <2>2, <2>3 DEF DirInv
<1>19. IdleInv'
  BY <1>1, <1>2, <1>12 DEF IdleInv
<1>20. OpeningInv' /\ TrashInv' /\ BackgroundInv'
  <2>1. TrashInv'
    BY <1>1, <1>12, ObsoleteFiles DEF TrashInv
  <2>2. BackgroundInv'
    BY <1>1, <1>12 DEF BackgroundInv, Logging
  <2> QED BY <1>2, <2>1, <2>2 DEF OpeningInv
<1>21. LiveInv'
  <2>1. ~Logging'
    BY <1>12 DEF Logging
  <2>2. vs'.manifest = current' /\ vs'.files = FilesUpTo(rs, 2)
        /\ vs'.log = rs[2].log
    BY <1>1, <1>5, <1>7, <1>9, <1>10, <1>11
  <2>3. rs[2].next <= vs'.next /\ rs[2].last <= vs'.last
    BY <1>3, <1>5, <1>7, <1>9, <1>11
  <2>4. /\ From(logs', vs'.log) = {vs'.log, logfile'} /\ vs'.log = logfile'
        /\ vs'.log <= logfile' /\ logfile' < vs'.next
    BY <1>1, <1>4, <1>5, <1>6, <1>11
  <2>5. imm' = {} /\ mem' = LogEntries(logs'[logfile']) /\ pc' # "syncing"
    BY <1>1, <1>4, <1>12
  <2>6. \A x \in mem' \union imm' \union Stored(tables', vs'.files) : x.s <= vs'.last
    BY <1>1, <1>4, <1>11, <1>12
  <2> QED BY <1>9, <1>13, <1>17, <2>1, <2>2, <2>3, <2>4, <2>5, <2>6 DEF LiveInv
<1> QED BY <1>15, <1>16, <1>18, <1>19, <1>20, <1>21 DEF Inv

(* DB::Open returns: what it has not found is gone.                         *)
LEMMA OpenDoneInv ==
  ASSUME Inv, OpenDone
  PROVE  Inv'
<1>1. /\ pc = "cleanup" /\ pc' = "open"
      /\ gone' = (1..written) \ Ids(Contents)
      /\ UNCHANGED <<logs, tables, manifests, current, bg, vs, logfile, mem, imm,
                     hasImm, todo, edit, trash, written, acked, synced>>
  BY DEF OpenDone, dirVars, memVars, boundVars
<1>2. Live /\ Live' /\ ~Opening' /\ bg = "idle" /\ ~Logging
  <2>1. Live /\ Live' /\ ~Opening' /\ ~Running
    BY <1>1 DEF Live, Opening, Running
  <2>2. bg = "idle"
    BY <2>1 DEF Inv, IdleInv
  <2> QED BY <2>1, <2>2 DEF Logging
<1>3. Contents = Found(logs, tables, vs.files, vs.log) /\ current # 0
  BY <1>1, <1>2, LiveContents, LiveFacts
<1>4. Known' = Known
  BY <1>1, KnownKept
<1>5. TypeInv'
  <2>1. hasImm' \in BOOLEAN
    BY <1>1 DEF Inv, TypeInv
  <2> QED BY <1>1, <1>4, <2>1 DEF Inv, TypeInv
<1>6. LogsInv'
  BY <1>1 DEF Inv, LogsInv
<1>7. DirInv'
  <2>1. ASSUME NEW k \in manifests[current].synced..Len(manifests[current].recs)
        PROVE  LET recs == manifests[current].recs
                   F == FilesUpTo(recs, k)
               IN  /\ Stored(tables', F) = Stored(tables, F)
                   /\ Sound(logs', tables', acked', synced', gone', F, recs[k].log)
    <3>1. /\ FilesUpTo(manifests[current].recs, k) = vs.files
          /\ manifests[current].recs[k].log = vs.log
      BY <1>2, LivePrefix
    <3>2. Sound(logs, tables, acked, synced, gone, vs.files, vs.log)
      BY <1>2, LiveFacts
    <3>3. gone' \intersect Ids(Found(logs, tables, vs.files, vs.log)) = {}
      BY <1>1, <1>3
    <3>4. Sound(logs, tables, acked, synced, gone', vs.files, vs.log)
      BY <3>2, <3>3 DEF Sound
    <3> QED BY <1>1, <3>1, <3>4
  <2>2. written' \in Nat /\ written <= written'
    BY <1>1 DEF Inv, TypeInv
  <2>3. current \in DOMAIN manifests'
    BY <1>1, <1>3, CurrentManifest
  <2> QED BY <1>1, <1>3, <2>1, <2>2, <2>3, DirFrame
<1>8. IdleInv'
  BY <1>1, <1>2 DEF IdleInv
<1>9. OpeningInv' /\ TrashInv' /\ BackgroundInv'
  <2>1. TrashInv'
    BY <1>1 DEF Inv, TrashInv
  <2>2. BackgroundInv'
    BY <1>1, <1>2 DEF Inv, BackgroundInv, Logging
  <2> QED BY <1>2, <2>1, <2>2 DEF OpeningInv
<1>10. LiveInv'
  <2>1. Logging' <=> Logging
    BY <1>1 DEF Logging
  <2>2. hasImm' = hasImm
    BY <1>1
  <2> QED BY <1>1, <1>2, <2>1, <2>2 DEF Inv, LiveInv
<1> QED BY <1>5, <1>6, <1>7, <1>8, <1>9, <1>10 DEF Inv

-----------------------------------------------------------------------------
(* The theorems. *)

(* Every step keeps the invariant.                                          *)
LEMMA NextInv == Inv /\ [Next]_vars => Inv'
<1> SUFFICES ASSUME Inv, [Next]_vars PROVE Inv'
  OBVIOUS
<1>1. ASSUME NEW sync \in SyncModes, Write(sync) PROVE Inv'
  BY <1>1, WriteInv
<1>2. CASE WriteSynced
  BY <1>2, WriteSyncedInv
<1>3. CASE SwitchMemTable
  BY <1>3, SwitchMemTableInv
<1>4. CASE Background
  <2>1. CASE FlushBuild
    BY <2>1, FlushBuildInv
  <2>2. ASSUME NEW ins \in SUBSET vs.files,
               NEW kept \in SUBSET TableEntries(ins), CompactBuild(ins, kept)
        PROVE  Inv'
    BY <2>2, CompactBuildInv
  <2>3. CASE LogEdit
    BY <2>3, LogEditInv
  <2>4. CASE ApplyEdit
    BY <2>4, ApplyEditInv
  <2> QED BY <1>4, <2>1, <2>2, <2>3, <2>4 DEF Background
<1>5. ASSUME NEW f \in trash, RemoveFile(f) PROVE Inv'
  BY <1>5, RemoveFileInv
<1>6. CASE ProcessCrash
  BY <1>6, ProcessCrashInv
<1>7. CASE MachineCrash
  BY <1>7, MachineCrashInv
<1>8. CASE Open
  <2>1. CASE NewDB
    BY <2>1, NewDBInv
  <2>2. CASE NewDBCurrent
    BY <2>2, NewDBCurrentInv
  <2>3. CASE RecoverManifest
    BY <2>3, RecoverManifestInv
  <2>4. ASSUME todo # {}, NEW ends \in TableEnds(logs[Min(todo)].recs),
               RecoverLogFile(ends)
        PROVE  Inv'
    BY <2>4, RecoverLogFileInv
  <2>5. CASE OpenLog
    BY <2>5, OpenLogInv
  <2>6. CASE OpenManifest
    BY <2>6, OpenManifestInv
  <2>7. CASE OpenSync
    BY <2>7, OpenSyncInv
  <2>8. CASE OpenCurrent
    BY <2>8, OpenCurrentInv
  <2>9. CASE OpenDone
    BY <2>9, OpenDoneInv
  <2> QED BY <1>8, <2>1, <2>2, <2>3, <2>4, <2>5, <2>6, <2>7, <2>8, <2>9 DEF Open
<1>9. CASE UNCHANGED vars
  <2>1. /\ UNCHANGED <<logs, tables, manifests, current>>
        /\ UNCHANGED <<pc, bg, vs, logfile, mem, imm, hasImm, todo, edit, trash>>
        /\ UNCHANGED <<written, acked, synced, gone>>
    BY <1>9 DEF vars, dirVars, procVars, memVars, boundVars, histVars
  <2>2. hasImm' = hasImm
    BY <2>1
  <2>3. TypeInv' /\ LogsInv' /\ DirInv'
    BY <2>1 DEF Inv, TypeInv, LogsInv, DirInv, PrefixInv, Known
  <2>4. IdleInv'
    BY <2>1, <2>2 DEF Inv, IdleInv, Running, Live
  <2>5. OpeningInv'
    BY <2>1 DEF Inv, OpeningInv, Opening, Replayed
  <2>6. LiveInv'
    BY <2>1, <2>2 DEF Inv, LiveInv, Live, Logging
  <2>7. TrashInv'
    BY <2>1 DEF Inv, TrashInv
  <2>8. BackgroundInv'
    BY <2>1, <2>2 DEF Inv, BackgroundInv, Live, Logging
  <2> QED BY <2>3, <2>4, <2>5, <2>6, <2>7, <2>8 DEF Inv
<1> QED BY <1>1, <1>2, <1>3, <1>4, <1>5, <1>6, <1>7, <1>8, <1>9 DEF Next

(* In every reachable state an Open would find what it should, whatever     *)
(* part of the MANIFEST and of the logs that is not synced is lost, and the *)
(* process agrees with the directory.                                       *)
THEOREM DirectorySound == Spec => []Inv
<1>1. Init => Inv
  BY InitInv
<1>2. Inv /\ [Next]_vars => Inv'
  BY NextInv
<1> QED BY <1>1, <1>2, PTL DEF Spec

(* An acknowledged update is in the open database after any crashes, unless *)
(* a compaction dropped it or the machine stopped and nobody asked to sync  *)
(* it: no log is removed or skipped before a table that the synced MANIFEST *)
(* names holds its records.                                                 *)
THEOREM UpdatesSurvive == Spec => []AckedSurvive
<1>1. Inv => AckedSurvive
  <2> SUFFICES ASSUME Inv, Running PROVE acked \subseteq Ids(Contents)
    BY DEF AckedSurvive
  <2>1. Live
    BY DEF Running, Live
  <2>2. acked \subseteq Ids(Found(logs, tables, vs.files, vs.log))
    BY <2>1, LiveFacts DEF Sound
  <2>3. CASE pc # "syncing"
    BY <2>1, <2>2, <2>3, LiveContents
  <2>4. CASE pc = "syncing"
    <3>1. Found(logs, tables, vs.files, vs.log) =
            Contents \union {Entry(written, vs.last + 1)}
      BY <2>1, <2>4, LiveContents
    <3>2. written \notin acked
      BY <2>1, <2>4 DEF Inv, LiveInv
    <3>3. Entry(written, vs.last + 1).id = written
      BY DEF Entry
    <3> QED BY <2>2, <3>1, <3>2, <3>3 DEF Ids
  <2> QED BY <2>3, <2>4
<1> QED BY <1>1, DirectorySound, PTL

(* An update that was lost or dropped never comes back: a log older than    *)
(* log_number_ and a table the MANIFEST does not name are not read again.   *)
THEOREM GoneStaysGone == Spec => []NothingReturns
<1>1. Inv => NothingReturns
  <2> SUFFICES ASSUME Inv, Running PROVE Ids(Contents) \intersect gone = {}
    BY DEF NothingReturns
  <2>1. Live
    BY DEF Running, Live
  <2>2. gone \intersect Ids(Found(logs, tables, vs.files, vs.log)) = {}
    BY <2>1, LiveFacts DEF Sound
  <2>3. Contents \subseteq Found(logs, tables, vs.files, vs.log)
    BY <2>1, LiveContents
  <2> QED BY <2>2, <2>3 DEF Ids
<1> QED BY <1>1, DirectorySound, PTL

(* DB::Open never finds the database corrupt, and what it arrives at has    *)
(* its tables and gives out neither a sequence number nor a file number a   *)
(* second time.                                                             *)
THEOREM OpensSoundly == Spec => []OpenIsSound
<1>1. Inv => OpenIsSound
  <2> SUFFICES ASSUME Inv PROVE OpenIsSound
    OBVIOUS
  <2>1. Running => Live
    BY DEF Running, Live
  <2>2. OpensAlways
    <3>1. pc # "corrupt"
      BY DEF Inv, IdleInv
    <3> QED BY <2>1, <3>1, LiveFacts DEF OpensAlways
  <2>3. SequencesUnique
    <3> SUFFICES ASSUME Running
                 PROVE  /\ \A e \in Contents : e.s <= vs.last
                        /\ \A e, f \in Contents : e.s = f.s => e = f
      BY DEF SequencesUnique
    <3>1. /\ Contents \subseteq Found(logs, tables, vs.files, vs.log)
          /\ \A e \in Contents : e.s <= vs.last
      BY <2>1, LiveContents
    <3>2. \A e, x \in Found(logs, tables, vs.files, vs.log) :
            e.s = x.s \/ e.id = x.id => e = x
      BY <2>1, LiveFacts DEF Sound
    <3> QED BY <3>1, <3>2
  <2>4. NumbersFresh
    <3> SUFFICES ASSUME Running, NEW n \in DOMAIN logs \union vs.files
                 PROVE  n < vs.next
      BY DEF NumbersFresh
    <3>1. /\ logfile \in Nat /\ vs.next \in Nat /\ logfile < vs.next
          /\ \A m \in DOMAIN logs : m \in Nat /\ m <= logfile
          /\ \A m \in vs.files : m < vs.next
      BY <2>1, LiveFacts
    <3> QED BY <3>1
  <2> QED BY <2>2, <2>3, <2>4 DEF OpenIsSound
<1> QED BY <1>1, DirectorySound, PTL
=============================================================================
