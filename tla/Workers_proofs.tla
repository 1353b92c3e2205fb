----------------------------- MODULE Workers_proofs -----------------------------
(***************************************************************************)
(* Proofs about the archive workers (Archive), the AFC worker (Afc) and    *)
(* the file name search (NameSearch), for every set of paths, members,     *)
(* devices and files, every tree and output of the search tool, and any    *)
(* number of commands, changes on the disk and devices that come and go.   *)
(***************************************************************************)
EXTENDS Archive, Afc, NameSearch, SequenceTheorems, FiniteSetTheorems, WellFoundedInduction, TLAPS

-----------------------------------------------------------------------------
(* Archives                                                                *)

DiskFile == [kind : {"dir", "archive", "other"}, version : Nat, mtime : Nat]
ArchivePcs == {"idle", "check", "find", "open", "isDirectory", "list", "stat", "get", "read"}
Serving == {"list", "stat", "get", "read"}
StatSize == {ComputeArchiveDirSize(v) : v \in Nat}
ArchiveResults ==
  {"none", "pass", "doesNotExist", "cannotOpen", "isDirectory", "redirected", "isFile", "cannotRead"}
ArchiveJobSet ==
  [pc : ArchivePcs, op : {"none", "list", "stat", "get"}, path : {<< >>} \cup ArchivePath, member : Member \cup {NoEntry},
   seen : SUBSET Nat, done : Nat, size : Nat \cup {NoEntry} \cup StatSize, answer : Nat \cup {NoEntry}, result : ArchiveResults]

ArchiveTypeInv ==
  /\ disk \in [ArchivePath -> {NoEntry} \cup DiskFile] /\ version \in Nat /\ seconds \in Nat
  /\ m_archiveFile \in Nat \cup {NoEntry} /\ m_mtime \in Nat /\ (m_archiveFile # NoEntry => m_archiveName \in ArchivePath)
  /\ archiveJob \in ArchiveJobSet
  /\ archiveJob.pc # "idle" => archiveJob.path \in ArchivePath /\ archiveJob.op # "none"

(* A file is no newer than the clock; that of the archive open is newer    *)
(* than when its time was taken, or is the version that was opened.        *)
TimesInv ==
  /\ \A p \in ArchivePath : disk[p] # NoEntry => disk[p].mtime <= seconds
  /\ m_archiveFile # NoEntry /\ disk[m_archiveName] # NoEntry =>
       /\ m_mtime <= disk[m_archiveName].mtime
       /\ disk[m_archiveName].mtime = m_mtime => disk[m_archiveName].version = m_archiveFile
  /\ archiveJob.pc \in {"find", "open", "isDirectory"} => m_archiveFile = NoEntry
  /\ archiveJob.pc = "open" /\ disk[archiveJob.path] # NoEntry => m_mtime <= disk[archiveJob.path].mtime

(* During a command seen has every version on its path, and the one that   *)
(* is served.                                                              *)
SeenInv ==
  /\ archiveJob.pc # "idle" =>
       \A q \in UpperPaths(archiveJob.path) : disk[q] # NoEntry => disk[q].version \in archiveJob.seen
  /\ archiveJob.pc \in Serving => m_archiveFile \in archiveJob.seen
  /\ archiveJob.answer # NoEntry => archiveJob.answer \in archiveJob.seen

ArchiveInv == ArchiveTypeInv /\ TimesInv /\ SeenInv

(* Each way to end leaves what was asked for; a get passes at the end,     *)
(* unless the archive ends before or the worker is killed.                 *)
ReadsWhole == ArchiveEvents \cap {"truncated", "killed"} = {}
AnswerInv ==
  /\ archiveJob.pc \in {"list", "stat", "get"} => archiveJob.op = archiveJob.pc
  /\ archiveJob.pc = "read" => archiveJob.op = "get" /\ archiveJob.size = SizeOf[archiveJob.member]
  /\ archiveJob.pc = "idle" /\ archiveJob.result = "pass" =>
       /\ archiveJob.op = "get" /\ ReadsWhole => archiveJob.done = SizeOf[archiveJob.member]
       /\ archiveJob.op = "stat" /\ archiveJob.member = NoEntry =>
            archiveJob.answer \in Nat /\ archiveJob.size = ComputeArchiveDirSize(archiveJob.answer)

-----------------------------------------------------------------------------
(* What leads to a path of the disk. *)
LEMMA OneName == ASSUME NEW s \in Seq(Component), Len(s) = 1 PROVE s = <<s[1]>>
<1>1. s[1] \in Component /\ <<s[1]>> \in Seq(Component) /\ Len(<<s[1]>>) = 1 /\ <<s[1]>>[1] = s[1]
  OBVIOUS
<1> DEFINE t == <<s[1]>>
<1>2. \A i \in 1 .. Len(s) : s[i] = t[i]
  BY <1>1
<1> HIDE DEF t
<1> QED
  BY <1>1, <1>2, SeqEqual DEF t

LEMMA TwoNames == ASSUME NEW s \in Seq(Component), Len(s) = 2 PROVE s = <<s[1], s[2]>>
<1>1. /\ s[1] \in Component /\ s[2] \in Component
      /\ <<s[1], s[2]>> \in Seq(Component) /\ Len(<<s[1], s[2]>>) = 2 /\ <<s[1], s[2]>>[1] = s[1] /\ <<s[1], s[2]>>[2] = s[2]
  OBVIOUS
<1> DEFINE t == <<s[1], s[2]>>
<1>2. \A i \in 1 .. Len(s) : s[i] = t[i]
  BY <1>1
<1> HIDE DEF t
<1> QED
  BY <1>1, <1>2, SeqEqual DEF t

(* The first of one or more names, and the first two of them. *)
LEMMA Beginnings ==
  ASSUME NEW p \in Seq(Component)
  PROVE  /\ Len(p) >= 1 => SubSeq(p, 1, 1) = <<p[1]>>
         /\ Len(p) >= 2 => SubSeq(p, 1, 2) = <<p[1], p[2]>>
<1> DEFINE a == SubSeq(p, 1, 1)
           b == SubSeq(p, 1, 2)
<1>1. ASSUME Len(p) >= 1 PROVE a = <<p[1]>>
  <2>1. \A i \in 1 .. 1 : p[i] \in Component
    BY <1>1
  <2>2. a \in Seq(Component) /\ Len(a) = 1 /\ a[1] = p[1]
    BY <2>1, SubSeqProperties
  <2> HIDE DEF a
  <2> QED
    BY <2>2, OneName
<1>2. ASSUME Len(p) >= 2 PROVE b = <<p[1], p[2]>>
  <2>1. \A i \in 1 .. 2 : p[i] \in Component
    BY <1>2
  <2>2. b \in Seq(Component) /\ Len(b) = 2 /\ b[1] = p[1] /\ b[2] = p[2]
    BY <2>1, SubSeqProperties
  <2> HIDE DEF b
  <2> QED
    BY <2>2, TwoNames
<1> QED
  BY <1>1, <1>2

LEMMA UpperOfOne == ASSUME NEW n \in Component PROVE UpperPaths(<<n>>) = {<<n>>}
<1> DEFINE p == <<n>>
<1>1. p \in Seq(Component) /\ Len(p) = 1 /\ DOMAIN p = {1} /\ p[1] = n
  OBVIOUS
<1> HIDE DEF p
<1>2. SubSeq(p, 1, 1) = <<n>>
  BY <1>1, Beginnings
<1> QED
  BY <1>1, <1>2 DEF UpperPaths, p

LEMMA UpperOfTwo == ASSUME NEW n \in Component, NEW m \in Component PROVE UpperPaths(<<n, m>>) = {<<n>>, <<n, m>>}
<1> DEFINE p == <<n, m>>
<1>1. p \in Seq(Component) /\ Len(p) = 2 /\ DOMAIN p = {1, 2} /\ p[1] = n /\ p[2] = m
  OBVIOUS
<1> HIDE DEF p
<1>2. SubSeq(p, 1, 1) = <<n>> /\ SubSeq(p, 1, 2) = <<n, m>>
  BY <1>1, Beginnings
<1> QED
  BY <1>1, <1>2 DEF UpperPaths, p

LEMMA UpperFacts ==
  ASSUME NEW p \in ArchivePath
  PROVE  /\ p \in UpperPaths(p) /\ UpperPaths(p) \subseteq ArchivePath
         /\ \A q \in UpperPaths(p) : UpperPaths(q) \subseteq UpperPaths(p)
         /\ \A q \in ArchivePath : StartsWith(p, q) => q \in UpperPaths(p)
         /\ \A S \in SUBSET UpperPaths(p) : S # {} => First(S) \in S
<1>1. \A q \in ArchivePath : StartsWith(p, q) => q \in UpperPaths(p)
  <2> SUFFICES ASSUME NEW q \in ArchivePath, StartsWith(p, q) PROVE q \in UpperPaths(p)
    OBVIOUS
  <2>1. Len(q) \in 1 .. Len(p) /\ p \in Seq(Component)
    BY SMTT(60) DEF StartsWith, ArchivePath
  <2> QED
    BY <2>1 DEF StartsWith, UpperPaths
<1>2. ASSUME NEW n \in Component, p = <<n>>
      PROVE  /\ p \in UpperPaths(p) /\ UpperPaths(p) \subseteq ArchivePath
             /\ \A q \in UpperPaths(p) : UpperPaths(q) \subseteq UpperPaths(p)
             /\ \A S \in SUBSET UpperPaths(p) : S # {} => First(S) \in S
  <2>1. UpperPaths(p) = {p}
    BY <1>2, UpperOfOne
  <2>2. ASSUME NEW S \in SUBSET UpperPaths(p), S # {} PROVE First(S) \in S
    <3>1. p \in S /\ \A r \in S : r = p
      BY <2>1, <2>2
    <3>2. Len(p) <= Len(p)
      BY <1>2
    <3> QED
      BY <3>1, <3>2 DEF First
  <2> QED
    BY <2>1, <2>2
<1>3. ASSUME NEW n \in Component, NEW m \in Component, p = <<n, m>>
      PROVE  /\ p \in UpperPaths(p) /\ UpperPaths(p) \subseteq ArchivePath
             /\ \A q \in UpperPaths(p) : UpperPaths(q) \subseteq UpperPaths(p)
             /\ \A S \in SUBSET UpperPaths(p) : S # {} => First(S) \in S
  <2> DEFINE u == <<n>>
  <2>1. UpperPaths(p) = {u, p} /\ UpperPaths(u) = {u} /\ Len(u) = 1 /\ Len(p) = 2 /\ u \in ArchivePath
    BY <1>3, UpperOfOne, UpperOfTwo DEF ArchivePath
  <2> HIDE DEF u
  <2>2. ASSUME NEW S \in SUBSET UpperPaths(p), S # {} PROVE First(S) \in S
    <3>1. CASE u \in S
      <4>1. \A r \in S : r = u \/ r = p
        BY <2>1, <2>2
      <4>2. \A r \in S : Len(u) <= Len(r)
        BY <2>1, <4>1
      <4> QED
        BY <3>1, <4>2 DEF First
    <3>2. CASE u \notin S
      <4>1. p \in S /\ \A r \in S : Len(p) <= Len(r)
        BY <2>1, <2>2, <3>2
      <4> QED
        BY <4>1 DEF First
    <3> QED
      BY <3>1, <3>2
  <2> QED
    BY <2>1, <2>2
<1> QED
  BY <1>1, <1>2, <1>3 DEF ArchivePath

-----------------------------------------------------------------------------
(* Every step keeps the times in order and the answers to what was seen.   *)
LEMMA ArchiveStarts == ArchiveInit => ArchiveInv /\ AnswerInv
<1> SUFFICES ASSUME ArchiveInit PROVE ArchiveInv /\ AnswerInv
  OBVIOUS
<1>1. archiveJob \in ArchiveJobSet /\ archiveJob.pc = "idle" /\ archiveJob.answer = NoEntry /\ archiveJob.result = "none"
  BY DEF ArchiveInit, NoArchiveJob, ArchiveJobSet, ArchivePcs, ArchiveResults
<1>2. disk \in [ArchivePath -> {NoEntry} \cup DiskFile] /\ seconds = 0 /\ version = 2 /\ m_archiveFile = NoEntry /\ m_mtime = 0
      /\ \A p \in ArchivePath : disk[p] # NoEntry => disk[p].mtime <= seconds
  <2>1. /\ disk \in [ArchivePath -> {NoEntry, OnDisk("dir", 0, 0), OnDisk("archive", 1, 0), OnDisk("archive", 2, 0), OnDisk("other", 2, 0)}]
        /\ seconds = 0 /\ version = 2 /\ m_archiveFile = NoEntry /\ m_mtime = 0
    BY DEF ArchiveInit
  <2>2. \A k \in {"dir", "archive", "other"}, v \in Nat : OnDisk(k, v, 0) \in DiskFile /\ OnDisk(k, v, 0).mtime = 0
    BY DEF OnDisk, DiskFile
  <2> QED
    BY <2>1, <2>2
<1> QED
  BY <1>1, <1>2 DEF ArchiveInv, ArchiveTypeInv, TimesInv, SeenInv, AnswerInv, Serving

LEMMA ReplaceFileKeeps ==
  ASSUME ArchiveInv, "sameSecond" \notin ArchiveEvents, NEW p \in ArchivePath, ReplaceFile(p)
  PROVE  ArchiveInv'
<1> DEFINE new(k) == OnDisk(k, version', seconds)
<1>1. PICK k \in {"archive", "other"} : disk' = [disk EXCEPT ![p] = new(k)]
  BY DEF ReplaceFile
<1>2. /\ version' = version + 1 /\ disk[p] # NoEntry /\ disk[p].mtime < seconds /\ seconds' = seconds
      /\ UNCHANGED <<m_archiveFile, m_archiveName, m_mtime>>
      /\ archiveJob' = IF archiveJob.pc = "idle" THEN archiveJob ELSE [archiveJob EXCEPT !.seen = @ \cup {version'}]
  BY DEF ReplaceFile, Kind, Watched
<1>3. version' \in Nat /\ new(k) \in DiskFile /\ new(k).mtime = seconds /\ new(k).version = version' /\ seconds \in Nat
  BY <1>2 DEF OnDisk, DiskFile, ArchiveInv, ArchiveTypeInv
<1> DEFINE n == new(k)
<1> HIDE DEF new
<1>4. /\ archiveJob' \in ArchiveJobSet /\ archiveJob'.pc = archiveJob.pc /\ archiveJob'.path = archiveJob.path
      /\ archiveJob'.op = archiveJob.op /\ archiveJob'.answer = archiveJob.answer /\ archiveJob.seen \subseteq archiveJob'.seen
      /\ archiveJob.pc # "idle" => version' \in archiveJob'.seen
  BY <1>2, <1>3 DEF ArchiveInv, ArchiveTypeInv, ArchiveJobSet
<1>5. /\ disk' \in [ArchivePath -> {NoEntry} \cup DiskFile] /\ disk'[p] = n
      /\ \A q \in ArchivePath : q # p => disk'[q] = disk[q]
  <2> HIDE DEF n
  <2> QED
    BY <1>1, <1>3 DEF ArchiveInv, ArchiveTypeInv, n
<1>6. ArchiveTypeInv'
  BY <1>2, <1>3, <1>4, <1>5 DEF ArchiveInv, ArchiveTypeInv
<1>7. disk[p] \in DiskFile /\ disk[p].mtime \in Nat /\ m_mtime \in Nat
  BY <1>2 DEF ArchiveInv, ArchiveTypeInv, DiskFile
<1>8. TimesInv'
  <2>1. \A q \in ArchivePath : disk'[q] # NoEntry => disk'[q].mtime <= seconds'
    BY <1>2, <1>3, <1>5 DEF ArchiveInv, TimesInv
  <2>2. ASSUME m_archiveFile # NoEntry, disk'[m_archiveName] # NoEntry
        PROVE  m_mtime <= disk'[m_archiveName].mtime /\ (disk'[m_archiveName].mtime = m_mtime => disk'[m_archiveName].version = m_archiveFile)
    <3>1. CASE m_archiveName = p
      <4>1. m_mtime <= disk[p].mtime
        BY <1>2, <2>2, <3>1 DEF ArchiveInv, TimesInv
      <4>2. m_mtime < n.mtime
        BY <1>2, <1>3, <1>7, <4>1
      <4> QED
        BY <1>3, <1>5, <1>7, <3>1, <4>2
    <3>2. CASE m_archiveName # p
      BY <1>5, <2>2, <3>2 DEF ArchiveInv, ArchiveTypeInv, TimesInv
    <3> QED
      BY <3>1, <3>2
  <2>3. ASSUME archiveJob.pc = "open", disk'[archiveJob.path] # NoEntry PROVE m_mtime <= disk'[archiveJob.path].mtime
    <3>0. archiveJob.path \in ArchivePath
      BY <2>3 DEF ArchiveInv, ArchiveTypeInv
    <3>1. CASE archiveJob.path = p
      <4>1. m_mtime <= disk[p].mtime
        BY <1>2, <2>3, <3>1 DEF ArchiveInv, TimesInv
      <4> QED
        BY <1>2, <1>3, <1>5, <1>7, <3>1, <4>1
    <3>2. CASE archiveJob.path # p
      BY <1>5, <2>3, <3>0, <3>2 DEF ArchiveInv, TimesInv
    <3> QED
      BY <3>1, <3>2
  <2> QED
    BY <1>2, <1>4, <2>1, <2>2, <2>3 DEF ArchiveInv, TimesInv
<1>9. SeenInv'
  <2>1. ASSUME archiveJob.pc # "idle", NEW q \in UpperPaths(archiveJob.path), disk'[q] # NoEntry
        PROVE  disk'[q].version \in archiveJob'.seen
    <3>1. q \in ArchivePath
      BY <2>1, UpperFacts DEF ArchiveInv, ArchiveTypeInv
    <3> QED
      BY <1>3, <1>4, <1>5, <2>1, <3>1 DEF ArchiveInv, SeenInv
  <2> QED
    BY <1>2, <1>4, <2>1 DEF ArchiveInv, SeenInv
<1> QED
  BY <1>6, <1>8, <1>9 DEF ArchiveInv

LEMMA RemoveFileKeeps ==
  ASSUME ArchiveInv, NEW p \in ArchivePath, RemoveFile(p)
  PROVE  ArchiveInv'
<1>1. /\ disk' = [disk EXCEPT ![p] = NoEntry]
      /\ UNCHANGED <<version, seconds, m_archiveFile, m_archiveName, m_mtime, archiveJob>>
  BY DEF RemoveFile
<1>2. /\ disk' \in [ArchivePath -> {NoEntry} \cup DiskFile]
      /\ \A q \in ArchivePath : disk'[q] # NoEntry => disk'[q] = disk[q]
  BY <1>1 DEF ArchiveInv, ArchiveTypeInv
<1>3. archiveJob.pc # "idle" => UpperPaths(archiveJob.path) \subseteq ArchivePath
  BY UpperFacts DEF ArchiveInv, ArchiveTypeInv
<1>4. ArchiveTypeInv'
  BY <1>1, <1>2 DEF ArchiveInv, ArchiveTypeInv
<1>5. TimesInv'
  <2>1. m_archiveFile # NoEntry => m_archiveName \in ArchivePath
    BY DEF ArchiveInv, ArchiveTypeInv
  <2>2. archiveJob.pc = "open" => archiveJob.path \in ArchivePath
    BY DEF ArchiveInv, ArchiveTypeInv
  <2> QED
    BY <1>1, <1>2, <2>1, <2>2 DEF ArchiveInv, TimesInv
<1>6. SeenInv'
  BY <1>1, <1>2, <1>3 DEF ArchiveInv, SeenInv
<1> QED
  BY <1>4, <1>5, <1>6 DEF ArchiveInv

LEMMA TickKeeps == ASSUME ArchiveInv, Tick PROVE ArchiveInv'
<1>1. seconds' = seconds + 1 /\ UNCHANGED <<disk, version, m_archiveFile, m_archiveName, m_mtime, archiveJob>>
  BY DEF Tick
<1>2. ArchiveTypeInv' /\ SeenInv'
  BY <1>1 DEF ArchiveInv, ArchiveTypeInv, SeenInv
<1>3. TimesInv'
  <2>1. ASSUME NEW p \in ArchivePath, disk[p] # NoEntry PROVE disk[p].mtime <= seconds + 1
    <3>1. disk[p].mtime \in Nat /\ disk[p].mtime <= seconds /\ seconds \in Nat
      BY <2>1 DEF ArchiveInv, ArchiveTypeInv, TimesInv, DiskFile
    <3> QED
      BY <3>1
  <2> QED
    BY <1>1, <2>1 DEF ArchiveInv, TimesInv
<1> QED
  BY <1>2, <1>3 DEF ArchiveInv

(* A step of the command alone. *)
LEMMA CommandKeeps ==
  ASSUME ArchiveInv, UNCHANGED diskVars, SameArchive, archiveJob.pc # "idle",
         archiveJob' \in ArchiveJobSet, archiveJob'.seen = archiveJob.seen, archiveJob'.path = archiveJob.path,
         archiveJob'.pc # "idle" => archiveJob'.op # "none",
         archiveJob'.pc \in {"find", "isDirectory"} => m_archiveFile = NoEntry, archiveJob'.pc # "open",
         archiveJob'.pc \in Serving => m_archiveFile \in archiveJob.seen,
         archiveJob'.answer # NoEntry => archiveJob'.answer \in archiveJob.seen
  PROVE  ArchiveInv'
<1>1. UNCHANGED <<disk, version, seconds, m_archiveFile, m_archiveName, m_mtime>>
  BY DEF diskVars, SameArchive
<1>2. ArchiveTypeInv'
  BY <1>1 DEF ArchiveInv, ArchiveTypeInv
<1>3. TimesInv'
  BY <1>1 DEF ArchiveInv, TimesInv
<1>4. SeenInv'
  BY <1>1 DEF ArchiveInv, SeenInv
<1> QED
  BY <1>2, <1>3, <1>4 DEF ArchiveInv

LEMMA StartArchiveKeeps ==
  ASSUME ArchiveInv, NEW op \in {"list", "stat", "get"}, NEW p \in ArchivePath, NEW m \in Member \cup {NoEntry},
         StartArchive(op, p, m)
  PROVE  ArchiveInv'
<1> DEFINE vs == Versions(p)
<1>1. /\ archiveJob' = [NoArchiveJob EXCEPT !.pc = "check", !.op = op, !.path = p, !.member = m, !.seen = vs]
      /\ UNCHANGED <<disk, version, seconds, m_archiveFile, m_archiveName, m_mtime>>
  BY DEF StartArchive, diskVars, SameArchive
<1>2. vs = {disk[q].version : q \in {r \in UpperPaths(p) : disk[r] # NoEntry}}
  BY DEF Versions, UpperPaths
<1>3. \A q \in UpperPaths(p) : disk[q] # NoEntry => disk[q].version \in vs
  BY <1>2
<1>4. vs \subseteq Nat
  <2>1. ASSUME NEW q \in UpperPaths(p), disk[q] # NoEntry PROVE disk[q].version \in Nat
    BY <2>1, UpperFacts DEF ArchiveInv, ArchiveTypeInv, DiskFile
  <2> QED
    BY <1>2, <2>1
<1> HIDE DEF vs
<1>5. /\ archiveJob' \in ArchiveJobSet /\ archiveJob'.pc = "check" /\ archiveJob'.op = op /\ archiveJob'.path = p
      /\ archiveJob'.seen = vs /\ archiveJob'.answer = NoEntry
  BY <1>1, <1>4 DEF NoArchiveJob, ArchiveJobSet, ArchivePcs, ArchiveResults
<1>6. ArchiveTypeInv' /\ TimesInv'
  BY <1>1, <1>5 DEF ArchiveInv, ArchiveTypeInv, TimesInv
<1>7. SeenInv'
  BY <1>1, <1>3, <1>5 DEF SeenInv, Serving
<1> QED
  BY <1>6, <1>7 DEF ArchiveInv

LEMMA CheckNewFileKeeps == ASSUME ArchiveInv, CheckNewFile PROVE ArchiveInv'
<1>1. archiveJob.pc = "check" /\ archiveJob.path \in ArchivePath /\ archiveJob \in ArchiveJobSet /\ archiveJob.op \in {"list", "stat", "get"}
  BY DEF CheckNewFile, ArchiveAt, ArchiveInv, ArchiveTypeInv, ArchiveJobSet
<1>2. UNCHANGED diskVars
  BY DEF CheckNewFile
<1>3. CASE AlreadyOpen(archiveJob.path)
  <2>1. archiveJob' = [archiveJob EXCEPT !.pc = archiveJob.op] /\ SameArchive
    BY <1>3 DEF CheckNewFile, ArchiveGoto
  <2>2. /\ archiveJob' \in ArchiveJobSet /\ archiveJob'.seen = archiveJob.seen /\ archiveJob'.path = archiveJob.path
        /\ archiveJob'.pc = archiveJob.op /\ archiveJob'.op = archiveJob.op /\ archiveJob'.answer = archiveJob.answer
    BY <1>1, <2>1 DEF ArchiveJobSet, ArchivePcs
  <2>3. m_archiveFile \in archiveJob.seen
    <3>1. m_archiveFile # NoEntry /\ m_archiveName \in ArchivePath /\ StartsWith(archiveJob.path, m_archiveName)
          /\ disk[m_archiveName] # NoEntry /\ disk[m_archiveName].mtime = m_mtime
      BY <1>3 DEF AlreadyOpen, ArchiveInv, ArchiveTypeInv
    <3>2. m_archiveName \in UpperPaths(archiveJob.path) /\ disk[m_archiveName].version = m_archiveFile
      BY <1>1, <3>1, UpperFacts DEF ArchiveInv, TimesInv
    <3> QED
      BY <1>1, <3>1, <3>2 DEF ArchiveInv, SeenInv
  <2>4. archiveJob.answer # NoEntry => archiveJob.answer \in archiveJob.seen
    BY DEF ArchiveInv, SeenInv
  <2> QED
    BY <1>1, <1>2, <2>1, <2>2, <2>3, <2>4, CommandKeeps
<1>4. CASE ~AlreadyOpen(archiveJob.path)
  <2>1. archiveJob' = [archiveJob EXCEPT !.pc = "find"] /\ m_archiveFile' = NoEntry /\ UNCHANGED <<m_archiveName, m_mtime>>
    BY <1>4 DEF CheckNewFile, ArchiveGoto
  <2>2. /\ archiveJob' \in ArchiveJobSet /\ archiveJob'.seen = archiveJob.seen /\ archiveJob'.path = archiveJob.path
        /\ archiveJob'.pc = "find" /\ archiveJob'.op = archiveJob.op /\ archiveJob'.answer = archiveJob.answer
    BY <1>1, <2>1 DEF ArchiveJobSet, ArchivePcs
  <2>3. UNCHANGED <<disk, version, seconds>>
    BY <1>2 DEF diskVars
  <2>4. ArchiveTypeInv' /\ TimesInv' /\ SeenInv'
    BY <1>1, <2>1, <2>2, <2>3 DEF ArchiveInv, ArchiveTypeInv, TimesInv, SeenInv, Serving
  <2> QED
    BY <2>4 DEF ArchiveInv
<1> QED
  BY <1>3, <1>4

LEMMA FindArchiveKeeps == ASSUME ArchiveInv, FindArchive PROVE ArchiveInv'
<1> DEFINE rest == NotDirs(archiveJob.path)
           q == First(rest)
<1>1. archiveJob.pc = "find" /\ archiveJob.path \in ArchivePath /\ archiveJob \in ArchiveJobSet /\ archiveJob.op # "none"
      /\ UNCHANGED diskVars /\ m_archiveFile = NoEntry
  BY DEF FindArchive, ArchiveAt, ArchiveInv, ArchiveTypeInv, TimesInv
<1>2. archiveJob.answer # NoEntry => archiveJob.answer \in archiveJob.seen
  BY DEF ArchiveInv, SeenInv
<1>3. \/ archiveJob' = [archiveJob EXCEPT !.pc = "isDirectory"] /\ SameArchive
      \/ archiveJob' = [archiveJob EXCEPT !.pc = "idle", !.result = "doesNotExist"] /\ SameArchive
      \/ /\ rest # {} /\ Kind(q) # "none" /\ m_mtime' = disk[q].mtime
         /\ archiveJob' = [archiveJob EXCEPT !.pc = "open", !.path = q]
         /\ UNCHANGED <<m_archiveFile, m_archiveName>>
  BY DEF FindArchive, ArchiveGoto, ArchiveEnd
<1>4. CASE archiveJob' = [archiveJob EXCEPT !.pc = "isDirectory"] /\ SameArchive
  <2>1. /\ archiveJob' \in ArchiveJobSet /\ archiveJob'.seen = archiveJob.seen /\ archiveJob'.path = archiveJob.path
        /\ archiveJob'.pc = "isDirectory" /\ archiveJob'.op = archiveJob.op /\ archiveJob'.answer = archiveJob.answer
    BY <1>1, <1>4 DEF ArchiveJobSet, ArchivePcs
  <2> QED
    BY <1>1, <1>2, <1>4, <2>1, CommandKeeps DEF Serving
<1>5. CASE archiveJob' = [archiveJob EXCEPT !.pc = "idle", !.result = "doesNotExist"] /\ SameArchive
  <2>1. /\ archiveJob' \in ArchiveJobSet /\ archiveJob'.seen = archiveJob.seen /\ archiveJob'.path = archiveJob.path
        /\ archiveJob'.pc = "idle" /\ archiveJob'.answer = archiveJob.answer
    BY <1>1, <1>5 DEF ArchiveJobSet, ArchivePcs, ArchiveResults
  <2> QED
    BY <1>1, <1>2, <1>5, <2>1, CommandKeeps DEF Serving
<1>6. CASE /\ rest # {} /\ Kind(q) # "none" /\ m_mtime' = disk[q].mtime
           /\ archiveJob' = [archiveJob EXCEPT !.pc = "open", !.path = q]
           /\ UNCHANGED <<m_archiveFile, m_archiveName>>
  <2>1. q \in UpperPaths(archiveJob.path)
    <3>1. rest \in SUBSET UpperPaths(archiveJob.path)
      BY DEF NotDirs
    <3>2. q \in rest
      BY <1>1, <1>6, <3>1, UpperFacts
    <3> QED
      BY <3>1, <3>2
  <2>2. q \in ArchivePath /\ UpperPaths(q) \subseteq UpperPaths(archiveJob.path)
    BY <1>1, <2>1, UpperFacts
  <2> HIDE DEF q
  <2>3. disk[q] \in DiskFile /\ disk[q].mtime \in Nat
    BY <1>6, <2>2 DEF Kind, ArchiveInv, ArchiveTypeInv, DiskFile
  <2>4. /\ archiveJob' \in ArchiveJobSet /\ archiveJob'.seen = archiveJob.seen /\ archiveJob'.path = q
        /\ archiveJob'.pc = "open" /\ archiveJob'.op = archiveJob.op /\ archiveJob'.answer = archiveJob.answer
    BY <1>1, <1>6, <2>2 DEF ArchiveJobSet, ArchivePcs
  <2>5. UNCHANGED <<disk, version, seconds>>
    BY <1>1 DEF diskVars
  <2>6. ArchiveTypeInv'
    BY <1>1, <1>6, <2>2, <2>3, <2>4, <2>5 DEF ArchiveInv, ArchiveTypeInv
  <2>7. TimesInv'
    BY <1>1, <1>6, <2>2, <2>3, <2>4, <2>5 DEF ArchiveInv, TimesInv
  <2>8. SeenInv'
    BY <1>1, <1>2, <2>2, <2>4, <2>5 DEF ArchiveInv, SeenInv, Serving
  <2> QED
    BY <2>6, <2>7, <2>8 DEF ArchiveInv
<1> QED
  BY <1>3, <1>4, <1>5, <1>6

LEMMA OpenArchiveKeeps == ASSUME ArchiveInv, OpenArchive PROVE ArchiveInv'
<1> DEFINE q == archiveJob.path
<1>1. archiveJob.pc = "open" /\ q \in ArchivePath /\ archiveJob \in ArchiveJobSet /\ archiveJob.op \in {"list", "stat", "get"}
      /\ UNCHANGED diskVars
  BY DEF OpenArchive, ArchiveAt, ArchiveInv, ArchiveTypeInv, ArchiveJobSet
<1>2. archiveJob.answer # NoEntry => archiveJob.answer \in archiveJob.seen
  BY DEF ArchiveInv, SeenInv
<1>3. CASE Kind(q) = "archive"
  <2>1. m_archiveFile' = disk[q].version /\ m_archiveName' = q /\ archiveJob' = [archiveJob EXCEPT !.pc = archiveJob.op] /\ m_mtime' = m_mtime
    BY <1>3 DEF OpenArchive, ArchiveGoto
  <2>2. disk[q] # NoEntry /\ disk[q].version \in Nat
    BY <1>1, <1>3 DEF Kind, ArchiveInv, ArchiveTypeInv, DiskFile
  <2>3. q \in UpperPaths(q) /\ disk[q].version \in archiveJob.seen
    BY <1>1, <2>2, UpperFacts DEF ArchiveInv, SeenInv
  <2>4. /\ archiveJob' \in ArchiveJobSet /\ archiveJob'.seen = archiveJob.seen /\ archiveJob'.path = q
        /\ archiveJob'.pc = archiveJob.op /\ archiveJob'.op = archiveJob.op /\ archiveJob'.answer = archiveJob.answer
    BY <1>1, <2>1 DEF ArchiveJobSet, ArchivePcs
  <2>5. UNCHANGED <<disk, version, seconds>>
    BY <1>1 DEF diskVars
  <2>6. ArchiveTypeInv'
    BY <1>1, <2>1, <2>2, <2>4, <2>5 DEF ArchiveInv, ArchiveTypeInv
  <2>7. TimesInv'
    BY <1>1, <2>1, <2>2, <2>4, <2>5 DEF ArchiveInv, TimesInv
  <2>8. SeenInv'
    BY <1>1, <1>2, <2>1, <2>3, <2>4, <2>5 DEF ArchiveInv, SeenInv
  <2> QED
    BY <2>6, <2>7, <2>8 DEF ArchiveInv
<1>4. CASE Kind(q) # "archive"
  <2>1. archiveJob' = [archiveJob EXCEPT !.pc = "idle", !.result = "cannotOpen"] /\ SameArchive
    BY <1>4 DEF OpenArchive, ArchiveEnd
  <2>2. /\ archiveJob' \in ArchiveJobSet /\ archiveJob'.seen = archiveJob.seen /\ archiveJob'.path = archiveJob.path
        /\ archiveJob'.pc = "idle" /\ archiveJob'.answer = archiveJob.answer
    BY <1>1, <2>1 DEF ArchiveJobSet, ArchivePcs, ArchiveResults
  <2> QED
    BY <1>1, <1>2, <2>1, <2>2, CommandKeeps DEF Serving
<1> QED
  BY <1>3, <1>4

LEMMA IsDirectoryKeeps == ASSUME ArchiveInv, IsDirectory PROVE ArchiveInv'
<1> DEFINE r == IF archiveJob.op = "get" THEN "isDirectory" ELSE "redirected"
<1>1. /\ archiveJob.pc = "isDirectory" /\ archiveJob \in ArchiveJobSet /\ UNCHANGED <<disk, version, seconds, m_archiveName, m_mtime>>
      /\ m_archiveFile' = NoEntry /\ archiveJob' = [archiveJob EXCEPT !.pc = "idle", !.result = r]
  BY DEF IsDirectory, ArchiveAt, ArchiveEnd, ArchiveInv, ArchiveTypeInv, diskVars
<1>2. r \in ArchiveResults
  BY DEF ArchiveResults
<1> HIDE DEF r
<1>3. /\ archiveJob' \in ArchiveJobSet /\ archiveJob'.seen = archiveJob.seen /\ archiveJob'.pc = "idle"
      /\ archiveJob'.answer = archiveJob.answer
  BY <1>1, <1>2 DEF ArchiveJobSet, ArchivePcs
<1>4. ArchiveTypeInv' /\ TimesInv' /\ SeenInv'
  BY <1>1, <1>3 DEF ArchiveInv, ArchiveTypeInv, TimesInv, SeenInv, Serving
<1> QED
  BY <1>4 DEF ArchiveInv

(* A step that answers, or reads on. *)
LEMMA AnswerKeeps ==
  ASSUME ArchiveInv, UNCHANGED diskVars, SameArchive, archiveJob.pc \in Serving,
         archiveJob' \in ArchiveJobSet, archiveJob'.pc \in {"idle", "read"}, archiveJob'.op = archiveJob.op,
         archiveJob'.seen = archiveJob.seen, archiveJob'.path = archiveJob.path,
         archiveJob'.answer \in {archiveJob.answer, m_archiveFile}
  PROVE  ArchiveInv'
<1>1. archiveJob.pc # "idle" /\ archiveJob.op # "none" /\ m_archiveFile \in archiveJob.seen
      /\ (archiveJob.answer # NoEntry => archiveJob.answer \in archiveJob.seen)
  BY DEF ArchiveInv, ArchiveTypeInv, SeenInv, Serving
<1> QED
  BY <1>1, CommandKeeps

LEMMA ServingFacts ==
  ASSUME ArchiveInv, archiveJob.pc \in Serving
  PROVE  /\ archiveJob \in ArchiveJobSet /\ m_archiveFile \in Nat /\ archiveJob.member \in Member \cup {NoEntry}
         /\ archiveJob.done \in Nat
<1>1. archiveJob \in ArchiveJobSet /\ m_archiveFile \in archiveJob.seen
  BY DEF ArchiveInv, ArchiveTypeInv, SeenInv
<1> QED
  BY <1>1 DEF ArchiveJobSet

LEMMA AnswersKeeps ==
  ASSUME ArchiveInv, AnswerInv, UNCHANGED diskVars, SameArchive, archiveJob.pc \in Serving,
         NEW r \in ArchiveResults, Answers(r), r = "pass" => archiveJob.op = "list"
  PROVE  ArchiveInv' /\ AnswerInv'
<1>1. archiveJob' = [archiveJob EXCEPT !.pc = "idle", !.result = r, !.answer = m_archiveFile]
  BY DEF Answers
<1>2. /\ archiveJob' \in ArchiveJobSet /\ archiveJob'.pc = "idle" /\ archiveJob'.op = archiveJob.op /\ archiveJob'.result = r
      /\ archiveJob'.seen = archiveJob.seen /\ archiveJob'.path = archiveJob.path /\ archiveJob'.answer = m_archiveFile
  BY <1>1, ServingFacts DEF ArchiveJobSet, ArchivePcs
<1>3. AnswerInv'
  BY <1>2 DEF AnswerInv
<1> QED
  BY <1>2, <1>3, AnswerKeeps

LEMMA ListDirKeeps == ASSUME ArchiveInv, AnswerInv, ListDir PROVE ArchiveInv' /\ AnswerInv'
<1> DEFINE r == IF archiveJob.member = NoEntry THEN "pass" ELSE IF ~Found THEN "doesNotExist"
                ELSE IF IsDirMember(archiveJob.member) THEN "pass" ELSE "isFile"
<1>1. archiveJob.pc = "list" /\ Answers(r) /\ UNCHANGED diskVars /\ SameArchive
  BY DEF ListDir, ArchiveAt
<1>2. r \in ArchiveResults
  BY DEF ArchiveResults
<1>3. archiveJob.op = "list" /\ archiveJob.pc \in Serving
  BY <1>1 DEF AnswerInv, Serving
<1> HIDE DEF r
<1> QED
  BY <1>1, <1>2, <1>3, AnswersKeeps

LEMMA StatKeeps == ASSUME ArchiveInv, AnswerInv, Stat PROVE ArchiveInv' /\ AnswerInv'
<1> DEFINE n == IF archiveJob.member = NoEntry THEN ComputeArchiveDirSize(m_archiveFile) ELSE SizeOf[archiveJob.member]
<1>1. archiveJob.pc = "stat" /\ archiveJob.op = "stat" /\ archiveJob.pc \in Serving /\ UNCHANGED diskVars /\ SameArchive
  BY DEF Stat, ArchiveAt, AnswerInv, Serving
<1>2. archiveJob \in ArchiveJobSet /\ m_archiveFile \in Nat /\ archiveJob.member \in Member \cup {NoEntry}
  BY <1>1, ServingFacts
<1>3. CASE archiveJob.member # NoEntry /\ ~Found
  <2>1. Answers("doesNotExist")
    BY <1>3 DEF Stat
  <2>2. "doesNotExist" \in ArchiveResults
    BY DEF ArchiveResults
  <2> QED
    BY <1>1, <2>1, <2>2, AnswersKeeps
<1>4. CASE ~(archiveJob.member # NoEntry /\ ~Found)
  <2>1. archiveJob' = [archiveJob EXCEPT !.pc = "idle", !.result = "pass", !.answer = m_archiveFile, !.size = n]
    BY <1>4 DEF Stat
  <2>2. n \in Nat \cup {NoEntry} \cup StatSize
    BY <1>2, SizesAssumption DEF StatSize
  <2>3. archiveJob.member = NoEntry => n = ComputeArchiveDirSize(m_archiveFile)
    OBVIOUS
  <2> HIDE DEF n
  <2>4. /\ archiveJob' \in ArchiveJobSet /\ archiveJob'.pc = "idle" /\ archiveJob'.op = "stat" /\ archiveJob'.result = "pass"
        /\ archiveJob'.seen = archiveJob.seen /\ archiveJob'.path = archiveJob.path /\ archiveJob'.answer = m_archiveFile
        /\ archiveJob'.member = archiveJob.member /\ archiveJob'.size = n
    BY <1>1, <1>2, <2>1, <2>2 DEF ArchiveJobSet, ArchivePcs, ArchiveResults
  <2>5. AnswerInv'
    BY <1>2, <2>3, <2>4 DEF AnswerInv
  <2> QED
    BY <1>1, <2>4, <2>5, AnswerKeeps
<1> QED
  BY <1>3, <1>4

LEMMA GetMemberKeeps == ASSUME ArchiveInv, AnswerInv, GetMember PROVE ArchiveInv' /\ AnswerInv'
<1> DEFINE n == SizeOf[archiveJob.member]
<1>1. archiveJob.pc = "get" /\ archiveJob.op = "get" /\ archiveJob.pc \in Serving /\ UNCHANGED diskVars /\ SameArchive
  BY DEF GetMember, ArchiveAt, AnswerInv, Serving
<1>2. archiveJob \in ArchiveJobSet /\ m_archiveFile \in Nat /\ archiveJob.member \in Member \cup {NoEntry}
  BY <1>1, ServingFacts
<1>3. {"doesNotExist", "isDirectory", "redirected"} \subseteq ArchiveResults
  BY DEF ArchiveResults
<1>4. CASE Answers("doesNotExist") \/ Answers("isDirectory") \/ Answers("redirected")
  BY <1>1, <1>3, <1>4, AnswersKeeps
<1>5. CASE archiveJob.member # NoEntry /\ archiveJob' = [archiveJob EXCEPT !.pc = "read", !.size = n, !.answer = m_archiveFile]
  <2>1. n \in {NoEntry} \cup Nat
    BY <1>2, <1>5, SizesAssumption
  <2> HIDE DEF n
  <2>2. /\ archiveJob' \in ArchiveJobSet /\ archiveJob'.pc = "read" /\ archiveJob'.op = "get"
        /\ archiveJob'.seen = archiveJob.seen /\ archiveJob'.path = archiveJob.path /\ archiveJob'.answer = m_archiveFile
        /\ archiveJob'.member = archiveJob.member /\ archiveJob'.size = n
    BY <1>1, <1>2, <1>5, <2>1 DEF ArchiveJobSet, ArchivePcs
  <2>3. AnswerInv'
    BY <2>2 DEF AnswerInv, n
  <2> QED
    BY <1>1, <2>2, <2>3, AnswerKeeps
<1> QED
  BY <1>4, <1>5 DEF GetMember

LEMMA ReadFileKeeps ==
  ASSUME ArchiveInv, AnswerInv, ReadFile
  PROVE  ArchiveInv' /\ AnswerInv'
<1>1. archiveJob.pc = "read" /\ archiveJob.pc \in Serving /\ UNCHANGED diskVars /\ SameArchive
  BY DEF ReadFile, ArchiveAt, Serving
<1>2. archiveJob \in ArchiveJobSet /\ archiveJob.done \in Nat
  BY <1>1, ServingFacts
<1>3. \/ ArchiveEnd("pass") /\ (archiveJob.done = archiveJob.size \/ ~ReadsWhole)
      \/ ArchiveEnd("cannotRead")
      \/ \E n \in 0 .. ReadSize : archiveJob' = [archiveJob EXCEPT !.done = @ + n]
  BY DEF ReadFile, ReadsWhole
<1>4. ASSUME NEW r \in {"pass", "cannotRead"}, ArchiveEnd(r)
      PROVE  /\ archiveJob' \in ArchiveJobSet /\ archiveJob'.pc = "idle" /\ archiveJob'.op = archiveJob.op /\ archiveJob'.result = r
             /\ archiveJob'.seen = archiveJob.seen /\ archiveJob'.path = archiveJob.path /\ archiveJob'.answer = archiveJob.answer
             /\ archiveJob'.member = archiveJob.member /\ archiveJob'.done = archiveJob.done
  BY <1>2, <1>4 DEF ArchiveEnd, ArchiveJobSet, ArchivePcs, ArchiveResults
<1>5. CASE ArchiveEnd("pass") /\ (archiveJob.done = archiveJob.size \/ ~ReadsWhole)
  <2>1. ArchiveInv'
    BY <1>1, <1>4, <1>5, AnswerKeeps
  <2>2. AnswerInv'
    BY <1>1, <1>4, <1>5 DEF AnswerInv
  <2> QED
    BY <2>1, <2>2
<1>6. CASE ArchiveEnd("cannotRead")
  <2>1. ArchiveInv'
    BY <1>1, <1>4, <1>6, AnswerKeeps
  <2>2. AnswerInv'
    BY <1>4, <1>6 DEF AnswerInv
  <2> QED
    BY <2>1, <2>2
<1>7. ASSUME NEW n \in 0 .. ReadSize, archiveJob' = [archiveJob EXCEPT !.done = @ + n] PROVE ArchiveInv' /\ AnswerInv'
  <2>1. archiveJob.done + n \in Nat
    BY <1>2, SizesAssumption
  <2>2. /\ archiveJob' \in ArchiveJobSet /\ archiveJob'.pc = "read" /\ archiveJob'.op = archiveJob.op /\ archiveJob'.size = archiveJob.size
        /\ archiveJob'.seen = archiveJob.seen /\ archiveJob'.path = archiveJob.path /\ archiveJob'.answer = archiveJob.answer
        /\ archiveJob'.member = archiveJob.member
    BY <1>1, <1>2, <1>7, <2>1 DEF ArchiveJobSet
  <2>3. AnswerInv'
    BY <1>1, <2>2 DEF AnswerInv
  <2> QED
    BY <1>1, <2>2, <2>3, AnswerKeeps
<1> QED
  BY <1>3, <1>5, <1>6, <1>7

LEMMA ArchiveStep ==
  ASSUME ArchiveInv, AnswerInv, "sameSecond" \notin ArchiveEvents, [ArchiveNext]_archiveVars
  PROVE  ArchiveInv' /\ AnswerInv'
<1>1. ASSUME NEW p \in ArchivePath, ReplaceFile(p) \/ RemoveFile(p) PROVE ArchiveInv' /\ AnswerInv'
  <2>1. archiveJob \in ArchiveJobSet
    BY DEF ArchiveInv, ArchiveTypeInv
  <2>2. archiveJob' = archiveJob \/ archiveJob' = [archiveJob EXCEPT !.seen = @ \cup {version'}]
    BY <1>1 DEF ReplaceFile, RemoveFile, Watched
  <2>3. /\ archiveJob'.pc = archiveJob.pc /\ archiveJob'.op = archiveJob.op /\ archiveJob'.size = archiveJob.size
        /\ archiveJob'.member = archiveJob.member /\ archiveJob'.result = archiveJob.result
        /\ archiveJob'.done = archiveJob.done /\ archiveJob'.answer = archiveJob.answer
    BY <2>1, <2>2 DEF ArchiveJobSet
  <2>4. AnswerInv'
    BY <2>3 DEF AnswerInv
  <2> QED
    BY <1>1, <2>4, ReplaceFileKeeps, RemoveFileKeeps
<1>2. CASE Tick
  <2>1. AnswerInv'
    BY <1>2 DEF Tick, AnswerInv
  <2> QED
    BY <1>2, <2>1, TickKeeps
<1>3. ASSUME NEW op \in {"list", "stat", "get"}, NEW p \in ArchivePath, NEW m \in Member \cup {NoEntry}, StartArchive(op, p, m)
      PROVE  ArchiveInv' /\ AnswerInv'
  <2>1. archiveJob'.pc = "check"
    BY <1>3 DEF StartArchive, NoArchiveJob
  <2>2. AnswerInv'
    BY <2>1 DEF AnswerInv
  <2> QED
    BY <1>3, <2>2, StartArchiveKeeps
<1>4. CASE CheckNewFile \/ FindArchive \/ OpenArchive \/ IsDirectory
  <2>1. archiveJob \in ArchiveJobSet /\ archiveJob.op \in {"none", "list", "stat", "get"}
    BY DEF ArchiveInv, ArchiveTypeInv, ArchiveJobSet
  <2>2. \/ archiveJob'.pc = archiveJob.op /\ archiveJob'.op = archiveJob.op /\ archiveJob.op # "none"
        \/ archiveJob'.pc \in {"find", "open", "isDirectory"}
        \/ archiveJob'.pc = "idle" /\ archiveJob'.result # "pass"
    <3>1. CASE CheckNewFile
      <4>1. archiveJob.op # "none"
        BY <3>1 DEF CheckNewFile, ArchiveAt, ArchiveInv, ArchiveTypeInv
      <4>2. archiveJob' = [archiveJob EXCEPT !.pc = archiveJob.op] \/ archiveJob' = [archiveJob EXCEPT !.pc = "find"]
        BY <3>1 DEF CheckNewFile, ArchiveGoto
      <4> QED
        BY <2>1, <4>1, <4>2 DEF ArchiveJobSet
    <3>2. CASE FindArchive
      <4> DEFINE q == First(NotDirs(archiveJob.path))
      <4>1. \/ archiveJob' = [archiveJob EXCEPT !.pc = "isDirectory"]
            \/ archiveJob' = [archiveJob EXCEPT !.pc = "idle", !.result = "doesNotExist"]
            \/ archiveJob' = [archiveJob EXCEPT !.pc = "open", !.path = q]
        BY <3>2 DEF FindArchive, ArchiveGoto, ArchiveEnd
      <4> HIDE DEF q
      <4> QED
        BY <2>1, <4>1 DEF ArchiveJobSet
    <3>3. CASE OpenArchive
      <4>1. archiveJob.op # "none"
        BY <3>3 DEF OpenArchive, ArchiveAt, ArchiveInv, ArchiveTypeInv
      <4>2. \/ archiveJob' = [archiveJob EXCEPT !.pc = archiveJob.op]
            \/ archiveJob' = [archiveJob EXCEPT !.pc = "idle", !.result = "cannotOpen"]
        BY <3>3 DEF OpenArchive, ArchiveGoto, ArchiveEnd
      <4> QED
        BY <2>1, <4>1, <4>2 DEF ArchiveJobSet
    <3>4. CASE IsDirectory
      <4>1. \/ archiveJob' = [archiveJob EXCEPT !.pc = "idle", !.result = "isDirectory"]
            \/ archiveJob' = [archiveJob EXCEPT !.pc = "idle", !.result = "redirected"]
        BY <3>4 DEF IsDirectory, ArchiveEnd
      <4> QED
        BY <2>1, <4>1 DEF ArchiveJobSet
    <3> QED
      BY <1>4, <3>1, <3>2, <3>3, <3>4
  <2>3. AnswerInv'
    BY <2>1, <2>2 DEF AnswerInv
  <2> QED
    BY <1>4, <2>3, CheckNewFileKeeps, FindArchiveKeeps, OpenArchiveKeeps, IsDirectoryKeeps
<1>5. CASE ListDir \/ Stat \/ GetMember \/ ReadFile
  BY <1>5, ListDirKeeps, StatKeeps, GetMemberKeeps, ReadFileKeeps
<1>6. CASE UNCHANGED archiveVars
  <2>1. UNCHANGED <<disk, version, seconds, m_archiveFile, m_archiveName, m_mtime, archiveJob>>
    BY <1>6 DEF archiveVars, diskVars
  <2>2. ArchiveTypeInv' /\ TimesInv' /\ SeenInv' /\ AnswerInv'
    BY <2>1 DEF ArchiveInv, ArchiveTypeInv, TimesInv, SeenInv, AnswerInv
  <2> QED
    BY <2>2 DEF ArchiveInv
<1> QED
  BY <1>1, <1>2, <1>3, <1>4, <1>5, <1>6 DEF ArchiveNext

(* What an archive worker answers is of a version of the file that was on  *)
(* the disk, in the path asked for, while the command ran: comparing times *)
(* in checkNewFile() is enough as long as no file is replaced twice within *)
(* one second.                                                             *)
THEOREM ArchiveAnswerFresh == ASSUME "sameSecond" \notin ArchiveEvents PROVE ArchiveSpec => []AnswerFresh
<1>1. ArchiveInit => ArchiveInv /\ AnswerInv
  BY ArchiveStarts
<1>2. ArchiveInv /\ AnswerInv /\ [ArchiveNext]_archiveVars => (ArchiveInv /\ AnswerInv)'
  BY ArchiveStep
<1>3. ArchiveInv => AnswerFresh
  BY DEF ArchiveInv, SeenInv, AnswerFresh
<1> QED
  BY <1>1, <1>2, <1>3, PTL DEF ArchiveSpec

(* And it is whole: get() passes only with all of the member sent, and     *)
(* stat() tells the size of all that is in a directory, as long as that    *)
(* fits the integer it is counted in.                                      *)
THEOREM ArchiveAnswerRight ==
  ASSUME ArchiveEvents = {}, \A v \in Nat : Total(SizeOf, FilesIn(v)) \in 0 .. Word - 1, Word \in Nat
  PROVE  ArchiveSpec => []AnswerRight
<1>1. ArchiveInit => ArchiveInv /\ AnswerInv
  BY ArchiveStarts
<1>2. ArchiveInv /\ AnswerInv /\ [ArchiveNext]_archiveVars => (ArchiveInv /\ AnswerInv)'
  BY ArchiveStep
<1>3. ArchiveInv /\ AnswerInv => AnswerRight
  <2> SUFFICES ASSUME ArchiveInv, AnswerInv PROVE AnswerFresh /\ AnswerComplete
    BY DEF AnswerRight
  <2>1. AnswerFresh
    BY DEF ArchiveInv, SeenInv, AnswerFresh
  <2>2. \A v \in Nat : ComputeArchiveDirSize(v) = Total(SizeOf, FilesIn(v))
    <3> SUFFICES ASSUME NEW v \in Nat PROVE ComputeArchiveDirSize(v) = Total(SizeOf, FilesIn(v))
      OBVIOUS
    <3> DEFINE n == Total(SizeOf, FilesIn(v))
    <3>1. n \in 0 .. Word - 1
      OBVIOUS
    <3> HIDE DEF n
    <3>2. n % Word = n
      BY <3>1
    <3> QED
      BY <3>2 DEF ComputeArchiveDirSize, n
  <2>3. AnswerComplete
    BY <2>2 DEF AnswerInv, AnswerComplete, ArchiveAt, ReadsWhole
  <2> QED
    BY <2>1, <2>3
<1> QED
  BY <1>1, <1>2, <1>3, PTL DEF ArchiveSpec

-----------------------------------------------------------------------------
(* AFC                                                                     *)

AfcFile == [of : {"old", "new", "dir", "cut"}, len : Nat]
AfcCalls == {"list", "rename", "symlink", "mkdir", "del", "setTime", "space", "apps"} \cup FileOps
AfcPcs ==
  {"idle", "client", "entry", "exists", "openSource", "openDest", "reading", "cleanup", "receiving", "closing", "passes"} \cup AfcCalls
AfcJobSet ==
  [pc : AfcPcs, op : AfcOps \cup {"none"}, src : AfcPath \cup {Nothing}, dest : AfcPath \cup {Nothing}, overwrite : BOOLEAN,
   size : Nat, done : Nat, short : BOOLEAN, result : {"none", "pass", "fail", "redirected"}]

AfcTypeInv ==
  /\ m_openFile \in {Nothing} \cup [path : AfcPath, offset : Nat]
  /\ files \in [AfcPath -> {Nothing} \cup AfcFile]
  /\ afcJob \in AfcJobSet
  /\ afcJob.pc # "idle" => afcJob.src \in AfcPath /\ afcJob.dest \in AfcPath

(* What a command does next is of its operation. *)
FlowInv ==
  /\ afcJob.pc = "entry" => afcJob.op \in {"get", "open", "stat", "list", "copy", "rename", "symlink"}
  /\ afcJob.pc = "exists" => afcJob.op \in {"put", "mkdir", "copy", "rename", "symlink"}
  /\ afcJob.pc = "openSource" => afcJob.op \in {"get", "open", "copy"}
  /\ afcJob.pc \in {"openDest", "closing"} => afcJob.op \in {"put", "copy"}
  /\ afcJob.pc \in {"reading", "cleanup"} => afcJob.op \in {"get", "copy"}
  /\ afcJob.pc = "receiving" => afcJob.op = "put"
  /\ afcJob.pc = "passes" => afcJob.op \in {"get", "put", "copy"}
  /\ afcJob.pc \in AfcCalls => afcJob.op = afcJob.pc
  /\ afcJob.pc # "idle" =>
       afcJob.op \in AfcOps /\ (afcJob.op \in {"copy", "rename", "symlink"} <=> afcJob.src # afcJob.dest)
  /\ afcJob.op \in {"get", "copy"} /\ afcJob.pc \in {"openDest", "reading"} => files[afcJob.src] \in AfcFile
  /\ afcJob.pc = "receiving" \/ (afcJob.pc = "reading" /\ afcJob.op = "copy") => files[Dest] \in AfcFile

(* The device of a command stays from the time its client is there. *)
DeviceInv ==
  /\ NothingDangles
  /\ afcJob.pc \notin {"idle", "client", "apps"} \cup FileOps => afcJob.src[1] \in afcDevices
  /\ afcJob.pc # "idle" /\ "acrossContainers" \notin AfcEvents => afcJob.src[2] = afcJob.dest[2]

AfcInv == AfcTypeInv /\ FlowInv /\ DeviceInv

(* Files that are not written are whole; what is written is a beginning of *)
(* the source, which still has the size that was seen at first, unless a   *)
(* write was short.                                                        *)
Whole(p) == files[p] # Nothing /\ files[p].of = "old" => files[p].len = MaxLen
TransferInv ==
  /\ \A p \in AfcPath : Whole(p) \/ (afcJob.op = "copy" /\ afcJob.pc \in {"reading", "cleanup"} /\ p = afcJob.dest)
  /\ afcJob.pc \in {"client", "entry", "exists", "openSource", "openDest"} => afcJob.done = 0 /\ ~afcJob.short
  /\ afcJob.op \in {"get", "copy"} /\ afcJob.pc \in {"exists", "openSource", "openDest", "reading"} =>
       files[afcJob.src] # Nothing /\ files[afcJob.src].len = afcJob.size
  /\ afcJob.op = "copy" /\ afcJob.pc = "reading" =>
       IF afcJob.short THEN files[afcJob.dest].of = "cut" ELSE files[afcJob.dest] = File(files[afcJob.src].of, afcJob.done)
  /\ afcJob.op = "put" /\ afcJob.pc = "receiving" =>
       IF afcJob.short THEN files[afcJob.dest].of = "cut" ELSE files[afcJob.dest] = File("new", afcJob.done)
  /\ afcJob.pc \in {"closing", "passes"} \/ (afcJob.pc = "idle" /\ afcJob.result = "pass") =>
       /\ afcJob.op \in {"get", "put", "copy"} => afcJob.done = afcJob.size
       /\ afcJob.op = "put" /\ ~afcJob.short => files[afcJob.dest] = File("new", afcJob.done)
       /\ afcJob.op = "copy" /\ ~afcJob.short => files[afcJob.dest] = files[afcJob.src]

LEMMA AfcFields ==
  ASSUME afcJob \in AfcJobSet
  PROVE  /\ afcJob.pc \in AfcPcs /\ afcJob.op \in AfcOps \cup {"none"} /\ afcJob.size \in Nat /\ afcJob.done \in Nat
         /\ DOMAIN afcJob = {"pc", "op", "src", "dest", "overwrite", "size", "done", "short", "result"}
BY DEF AfcJobSet

(* The same command, at another point. *)
SameCommand ==
  afcJob'.op = afcJob.op /\ afcJob'.src = afcJob.src /\ afcJob'.dest = afcJob.dest /\ afcJob'.short = afcJob.short

LEMMA AfcGoes ==
  ASSUME afcJob \in AfcJobSet, NEW p \in AfcPcs, AfcGoto(p)
  PROVE  /\ afcJob' \in AfcJobSet /\ afcJob'.pc = p /\ SameCommand
         /\ afcJob'.size = afcJob.size /\ afcJob'.done = afcJob.done /\ afcJob'.result = afcJob.result
BY DEF AfcJobSet, AfcGoto, SameCommand

LEMMA AfcEnds ==
  ASSUME afcJob \in AfcJobSet, NEW r \in {"pass", "fail", "redirected"}, AfcEnd(r)
  PROVE  /\ afcJob' \in AfcJobSet /\ afcJob'.pc = "idle" /\ SameCommand
         /\ afcJob'.size = afcJob.size /\ afcJob'.done = afcJob.done /\ afcJob'.result = r
BY DEF AfcJobSet, AfcPcs, AfcEnd, SameCommand

LEMMA OwnContainer ==
  ASSUME AfcInv, afcJob.pc # "idle"
  PROVE  /\ Src = afcJob.src /\ Src \in AfcPath /\ Dest \in AfcPath
         /\ "acrossContainers" \notin AfcEvents => Dest = afcJob.dest
<1> DEFINE p == afcJob.src
           q == afcJob.dest
<1>1. q \in AfcPath /\ p \in AfcPath /\ ("acrossContainers" \notin AfcEvents => p[2] = q[2])
  BY DEF AfcInv, AfcTypeInv, DeviceInv
<1>2. Src = p /\ Dest = IF q = Nothing THEN Nothing ELSE <<q[1], p[2], q[3]>>
  BY DEF Src, Dest, ClientPath
<1> HIDE DEF p, q
<1>3. <<q[1], p[2], q[3]>> \in AfcPath /\ q = <<q[1], q[2], q[3]>>
  BY <1>1 DEF AfcPath
<1> QED
  BY <1>1, <1>2, <1>3 DEF p, q

(* Steps that leave files, devices and the open file alone. *)
LEMMA CommandMoves ==
  ASSUME AfcInv, UNCHANGED <<attached, afcDevices, m_openFile, m_apps, files>>, SameCommand, afcJob' \in AfcJobSet,
         afcJob.pc # "idle", FlowInv',
         afcJob'.pc \in {"idle", "client", "apps"} \cup FileOps \/ afcJob.src[1] \in afcDevices
  PROVE  AfcInv'
<1>1. AfcTypeInv'
  BY DEF AfcInv, AfcTypeInv, SameCommand
<1>2. NothingDangles'
  BY DEF AfcInv, DeviceInv, NothingDangles
<1> QED
  BY <1>1, <1>2 DEF AfcInv, DeviceInv, SameCommand

LEMMA Ended == ASSUME FlowInv, SameCommand, afcJob'.pc = "idle" PROVE FlowInv'
BY DEF FlowInv, SameCommand, AfcCalls, FileOps

LEMMA EndedWhole ==
  ASSUME TransferInv, SameCommand, afcJob'.pc = "idle", afcJob'.result = "pass" => afcJob.op \notin {"get", "put", "copy"},
         \A p \in AfcPath : Whole(p)'
  PROVE  TransferInv'
BY DEF TransferInv, SameCommand

LEMMA AfcStarts == AfcInit => AfcInv /\ TransferInv
<1> SUFFICES ASSUME AfcInit PROVE AfcInv /\ TransferInv
  OBVIOUS
<1>1. afcJob \in AfcJobSet /\ afcJob.pc = "idle" /\ afcJob.op = "none" /\ afcJob.result = "none"
  BY DEF AfcInit, NoAfcJob, AfcJobSet, AfcPcs
<1>2. files \in [AfcPath -> {Nothing} \cup AfcFile] /\ \A p \in AfcPath : Whole(p)
  <2>1. files \in [AfcPath -> {Nothing, File("old", MaxLen), File("dir", 0)}]
    BY DEF AfcInit
  <2>2. /\ File("old", MaxLen) \in AfcFile /\ File("dir", 0) \in AfcFile
        /\ File("old", MaxLen).len = MaxLen /\ File("dir", 0).of = "dir"
    BY MaxLenAssumption DEF File, AfcFile
  <2> QED
    BY <2>1, <2>2 DEF Whole
<1>3. NothingDangles
  BY DEF AfcInit, NothingDangles
<1> QED
  BY <1>1, <1>2, <1>3 DEF AfcInit, AfcInv, AfcTypeInv, FlowInv, DeviceInv, TransferInv, AfcCalls, FileOps

(* Devices come and go; the files of those that go are closed. *)
LEMMA DeviceStepKeeps ==
  ASSUME AfcInv, UNCHANGED <<files, afcJob>>, m_openFile' \in {Nothing, m_openFile}, NothingDangles',
         afcJob.pc \notin {"idle", "client", "apps"} \cup FileOps => afcJob.src[1] \in afcDevices'
  PROVE  AfcInv' /\ (TransferInv => TransferInv')
<1>1. AfcTypeInv' /\ FlowInv'
  BY DEF AfcInv, AfcTypeInv, FlowInv, Dest, ClientPath
<1>2. DeviceInv'
  BY DEF AfcInv, DeviceInv
<1>3. TransferInv => TransferInv'
  BY DEF TransferInv, Whole
<1> QED
  BY <1>1, <1>2, <1>3 DEF AfcInv

LEMMA AfcPlugKeeps == ASSUME AfcInv, NEW d \in Device, AfcPlug(d) PROVE AfcInv' /\ (TransferInv => TransferInv')
<1>1. /\ attached' = attached \cup {d} /\ UNCHANGED <<files, afcJob, m_openFile, m_apps>>
      /\ afcDevices' = IF IsValid(d) THEN afcDevices \cup {d} ELSE afcDevices
  BY DEF AfcPlug, AddDevice
<1>2. afcDevices \subseteq afcDevices' /\ afcDevices' \subseteq afcDevices \cup {d}
  BY <1>1
<1>3. NothingDangles'
  BY <1>1, <1>2 DEF NothingDangles, AfcInv, DeviceInv
<1> QED
  BY <1>1, <1>2, <1>3, DeviceStepKeeps DEF AfcInv, DeviceInv

LEMMA AfcUnplugKeeps ==
  ASSUME AfcInv, "unplugInUse" \notin AfcEvents, NEW d \in Device, AfcUnplug(d)
  PROVE  AfcInv' /\ (TransferInv => TransferInv')
<1>1. /\ attached' = attached \ {d} /\ afcDevices' = afcDevices \ {d} /\ UNCHANGED <<files, afcJob>>
      /\ m_openFile' = (IF m_openFile # Nothing /\ m_openFile.path[1] = d THEN Nothing ELSE m_openFile)
      /\ m_apps' = {a \in m_apps : a[1] # d} /\ ~InUse(d)
  BY DEF AfcUnplug, WithoutFileOf
<1>2. NothingDangles'
  BY <1>1 DEF NothingDangles, AfcInv, DeviceInv
<1>3. afcJob.pc \notin {"idle", "client", "apps"} \cup FileOps => afcJob.src[1] \in afcDevices'
  BY <1>1 DEF InUse, AfcInv, DeviceInv
<1> QED
  BY <1>1, <1>2, <1>3, DeviceStepKeeps

LEMMA UpdateKeeps == ASSUME AfcInv, Lock \/ UpdateDeviceList PROVE AfcInv' /\ (TransferInv => TransferInv')
<1>1. UNCHANGED <<files, afcJob, m_openFile, m_apps, attached>> /\ afcDevices \subseteq afcDevices' /\ afcDevices' \subseteq afcDevices \cup attached
  BY DEF Lock, UpdateDeviceList, afcWorkerVars, SameDevices, afcDeviceVars
<1>2. NothingDangles'
  BY <1>1 DEF NothingDangles, AfcInv, DeviceInv
<1> QED
  BY <1>1, <1>2, DeviceStepKeeps DEF AfcInv, DeviceInv

LEMMA StartAfcKeeps ==
  ASSUME AfcInv, NEW op \in AfcOps, NEW src \in AfcPath, NEW dest \in AfcPath, NEW o \in BOOLEAN, StartAfc(op, src, dest, o)
  PROVE  AfcInv' /\ (TransferInv => TransferInv')
<1> DEFINE pc == IF op \in FileOps \cup {"apps"} THEN op ELSE "client"
<1>1. /\ afcJob.pc = "idle" /\ afcJob' = [NoAfcJob EXCEPT !.pc = pc, !.op = op, !.src = src, !.dest = dest, !.overwrite = o]
      /\ (src[2] # dest[2] => "acrossContainers" \in AfcEvents)
      /\ (op \in {"copy", "rename", "symlink"} <=> src # dest)
      /\ UNCHANGED <<attached, afcDevices, m_openFile, m_apps, files>>
  BY DEF StartAfc, AfcAt, SameDevices, SameWorker, afcDeviceVars
<1>2. pc \in AfcPcs /\ pc \in {op, "client"} /\ (pc # "client" => pc \in FileOps \cup {"apps"} /\ pc = op)
  BY DEF AfcPcs, AfcCalls
<1> HIDE DEF pc
<1>3. /\ afcJob' \in AfcJobSet /\ afcJob'.pc = pc /\ afcJob'.op = op /\ afcJob'.src = src /\ afcJob'.dest = dest
      /\ afcJob'.done = 0 /\ afcJob'.short = FALSE /\ afcJob'.result = "none"
  BY <1>1, <1>2 DEF AfcJobSet, NoAfcJob
<1>4. AfcTypeInv'
  BY <1>1, <1>3 DEF AfcInv, AfcTypeInv
<1>5. FlowInv'
  BY <1>1, <1>2, <1>3 DEF FlowInv, FileOps, AfcCalls
<1>6. NothingDangles'
  BY <1>1 DEF AfcInv, DeviceInv, NothingDangles
<1>7. DeviceInv'
  BY <1>1, <1>2, <1>3, <1>6 DEF DeviceInv
<1>8. TransferInv => TransferInv'
  BY <1>1, <1>2, <1>3 DEF TransferInv, Whole, FileOps
<1> QED
  BY <1>4, <1>5, <1>7, <1>8 DEF AfcInv

-----------------------------------------------------------------------------
(* The steps of a command *)

LEMMA ClientForUrlKeeps == ASSUME AfcInv, ClientForUrl PROVE AfcInv' /\ (TransferInv => TransferInv')
<1> DEFINE p == FirstCall(afcJob.op)
<1>1. afcJob.pc = "client" /\ UNCHANGED <<attached, afcDevices, m_openFile, m_apps, files>> /\ afcJob \in AfcJobSet
  BY DEF ClientForUrl, AfcAt, SameDevices, SameWorker, afcDeviceVars, AfcInv, AfcTypeInv
<1>2. (afcJob.src[1] \in afcDevices /\ AfcGoto(p)) \/ AfcEnd("fail")
  BY DEF ClientForUrl, Src
<1>3. afcJob.op \in AfcOps
  BY <1>1 DEF AfcInv, FlowInv
<1>4. CASE AfcEnd("fail")
  <2>1. afcJob' \in AfcJobSet /\ afcJob'.pc = "idle" /\ SameCommand /\ afcJob'.result = "fail"
    BY <1>1, <1>4, AfcEnds
  <2>2. TransferInv => TransferInv'
    BY <1>1, <2>1, EndedWhole DEF TransferInv, Whole
  <2> QED
    BY <1>1, <2>1, <2>2, Ended, CommandMoves DEF AfcInv
<1>5. CASE afcJob.src[1] \in afcDevices /\ AfcGoto(p) /\ afcJob.op \in AfcOps
  <2>1. /\ p \in {"entry", "exists"} \cup AfcCalls
        /\ p = "entry" => afcJob.op \in {"get", "open", "stat", "list", "copy", "rename", "symlink"}
        /\ p = "exists" => afcJob.op \in {"put", "mkdir"}
        /\ p \in AfcCalls => afcJob.op = p
    BY <1>5, AfcOpsAssumption DEF FirstCall, AfcCalls, FileOps
  <2> HIDE DEF p
  <2>2. p \in AfcPcs
    BY <2>1 DEF AfcPcs
  <2>3. afcJob' \in AfcJobSet /\ afcJob'.pc = p /\ SameCommand /\ afcJob'.done = afcJob.done
    BY <1>1, <1>5, <2>2, AfcGoes
  <2>4. FlowInv'
    BY <1>1, <2>1, <2>3 DEF AfcInv, FlowInv, AfcCalls, FileOps, SameCommand
  <2>5. TransferInv => TransferInv'
    BY <1>1, <2>1, <2>3 DEF TransferInv, Whole, AfcCalls, FileOps, SameCommand
  <2> QED
    BY <1>1, <1>5, <2>3, <2>4, <2>5, CommandMoves
<1> QED
  BY <1>2, <1>3, <1>4, <1>5

LEMMA EntryKeeps == ASSUME AfcInv, Entry PROVE AfcInv' /\ (TransferInv => TransferInv')
<1> DEFINE p == AfterEntry(afcJob.op)
           n == files[Src].len
<1>1. /\ afcJob.pc = "entry" /\ UNCHANGED <<attached, afcDevices, m_openFile, m_apps, files>> /\ afcJob \in AfcJobSet
      /\ afcJob.src[1] \in afcDevices /\ afcJob.op \in {"get", "open", "stat", "list", "copy", "rename", "symlink"}
      /\ Src = afcJob.src /\ Src \in AfcPath /\ files \in [AfcPath -> {Nothing} \cup AfcFile]
  BY OwnContainer DEF Entry, AfcAt, SameDevices, SameWorker, afcDeviceVars, AfcInv, AfcTypeInv, DeviceInv, FlowInv, FileOps
<1>2. \/ AfcEnd("fail")
      \/ afcJob.op = "stat" /\ AfcEnd("pass")
      \/ files[Src] # Nothing /\ afcJob.op # "stat" /\ afcJob' = [afcJob EXCEPT !.pc = p, !.size = n]
  BY DEF Entry
<1>3. ASSUME NEW r \in {"fail", "pass"}, AfcEnd(r), r = "pass" => afcJob.op = "stat" PROVE AfcInv' /\ (TransferInv => TransferInv')
  <2>1. afcJob' \in AfcJobSet /\ afcJob'.pc = "idle" /\ SameCommand /\ afcJob'.result = r
    BY <1>1, <1>3, AfcEnds
  <2>2. TransferInv => TransferInv'
    BY <1>1, <1>3, <2>1, EndedWhole DEF TransferInv, Whole
  <2> QED
    BY <1>1, <2>1, <2>2, Ended, CommandMoves DEF AfcInv
<1>4. CASE files[Src] # Nothing /\ afcJob.op # "stat" /\ afcJob' = [afcJob EXCEPT !.pc = p, !.size = n]
  <2>1. /\ p \in {"list", "openSource", "exists"}
        /\ p = "list" => afcJob.op = "list"
        /\ p = "openSource" => afcJob.op \in {"get", "open"}
        /\ p = "exists" => afcJob.op \in {"copy", "rename", "symlink"}
    BY <1>1, <1>4 DEF AfterEntry
  <2>2. n \in Nat
    BY <1>1, <1>4 DEF AfcFile
  <2> HIDE DEF p
  <2>3. p \in AfcPcs
    BY <2>1 DEF AfcPcs, AfcCalls
  <2>4. afcJob' \in AfcJobSet /\ afcJob'.pc = p /\ SameCommand /\ afcJob'.done = afcJob.done /\ afcJob'.size = files[afcJob.src].len
    <3>1. n = files[afcJob.src].len
      BY <1>1
    <3> HIDE DEF n
    <3> QED
      BY <1>1, <1>4, <2>2, <2>3, <3>1 DEF AfcJobSet, SameCommand
  <2>5. FlowInv'
    BY <1>1, <2>1, <2>4 DEF AfcInv, FlowInv, AfcCalls, FileOps, SameCommand
  <2>6. TransferInv => TransferInv'
    BY <1>1, <1>4, <2>1, <2>4 DEF TransferInv, Whole, SameCommand
  <2> QED
    BY <1>1, <2>4, <2>5, <2>6, CommandMoves
<1> QED
  BY <1>2, <1>3, <1>4

LEMMA AfcListKeeps == ASSUME AfcInv, AfcList PROVE AfcInv' /\ (TransferInv => TransferInv')
<1>1. /\ afcJob.pc = "list" /\ UNCHANGED <<attached, afcDevices, m_openFile, m_apps, files>> /\ afcJob \in AfcJobSet
      /\ afcJob.op = "list"
  BY DEF AfcList, AfcAt, SameDevices, SameWorker, afcDeviceVars, AfcInv, AfcTypeInv, FlowInv, AfcCalls
<1>2. PICK r \in {"pass", "redirected", "fail"} : AfcEnd(r)
  BY DEF AfcList
<1>3. afcJob' \in AfcJobSet /\ afcJob'.pc = "idle" /\ SameCommand
  BY <1>1, <1>2, AfcEnds
<1>4. TransferInv => TransferInv'
  BY <1>1, <1>3, EndedWhole DEF TransferInv, Whole
<1> QED
  BY <1>1, <1>3, <1>4, Ended, CommandMoves DEF AfcInv

LEMMA CheckDestKeeps == ASSUME AfcInv, CheckDest PROVE AfcInv' /\ (TransferInv => TransferInv')
<1> DEFINE p == CASE afcJob.op = "copy" -> "openSource" [] afcJob.op = "put" -> "openDest" [] OTHER -> afcJob.op
<1>1. /\ afcJob.pc = "exists" /\ UNCHANGED <<attached, afcDevices, m_openFile, m_apps, files>> /\ afcJob \in AfcJobSet
      /\ afcJob.src[1] \in afcDevices /\ afcJob.op \in {"put", "mkdir", "copy", "rename", "symlink"}
  BY DEF CheckDest, AfcAt, SameDevices, SameWorker, afcDeviceVars, AfcInv, AfcTypeInv, DeviceInv, FlowInv, FileOps
<1>2. AfcEnd("fail") \/ AfcGoto(p)
  BY DEF CheckDest
<1>3. CASE AfcEnd("fail")
  <2>1. afcJob' \in AfcJobSet /\ afcJob'.pc = "idle" /\ SameCommand /\ afcJob'.result = "fail"
    BY <1>1, <1>3, AfcEnds
  <2>2. TransferInv => TransferInv'
    BY <1>1, <2>1, EndedWhole DEF TransferInv, Whole
  <2> QED
    BY <1>1, <2>1, <2>2, Ended, CommandMoves DEF AfcInv
<1>4. CASE AfcGoto(p)
  <2>1. /\ p \in {"openSource", "openDest", "mkdir", "rename", "symlink"}
        /\ p = "openSource" => afcJob.op = "copy"
        /\ p = "openDest" => afcJob.op = "put"
        /\ p \in {"mkdir", "rename", "symlink"} => afcJob.op = p
    BY <1>1
  <2> HIDE DEF p
  <2>2. p \in AfcPcs
    BY <2>1 DEF AfcPcs, AfcCalls
  <2>3. afcJob' \in AfcJobSet /\ afcJob'.pc = p /\ SameCommand /\ afcJob'.done = afcJob.done /\ afcJob'.size = afcJob.size
    BY <1>1, <1>4, <2>2, AfcGoes
  <2>4. FlowInv'
    BY <1>1, <2>1, <2>3 DEF AfcInv, FlowInv, AfcCalls, FileOps, SameCommand
  <2>5. TransferInv => TransferInv'
    BY <1>1, <2>1, <2>3 DEF TransferInv, Whole, SameCommand
  <2> QED
    BY <1>1, <2>3, <2>4, <2>5, CommandMoves
<1> QED
  BY <1>2, <1>3, <1>4

LEMMA OpenSourceKeeps == ASSUME AfcInv, OpenSource PROVE AfcInv' /\ (TransferInv => TransferInv')
<1>1. /\ afcJob.pc = "openSource" /\ UNCHANGED <<attached, afcDevices, m_apps, files>> /\ afcJob \in AfcJobSet
      /\ afcJob.src[1] \in afcDevices /\ afcJob.op \in {"get", "open", "copy"} /\ Src = afcJob.src /\ Src \in AfcPath
  BY OwnContainer DEF OpenSource, AfcAt, SameDevices, SameWorker, afcDeviceVars, AfcInv, AfcTypeInv, DeviceInv, FlowInv, FileOps
<1>2. \/ AfcEnd("fail") /\ m_openFile' = m_openFile
      \/ afcJob.op = "open" /\ AfcEnd("pass") /\ m_openFile' = Opened(Src, 0)
      \/ afcJob.op = "get" /\ AfcGoto("reading") /\ m_openFile' = m_openFile
      \/ afcJob.op = "copy" /\ AfcGoto("openDest") /\ m_openFile' = m_openFile
  BY <1>1 DEF OpenSource, SameWorker
<1>6. AfcEnd("fail") \/ files[afcJob.src] \in AfcFile
  BY <1>1 DEF OpenSource, AfcInv, AfcTypeInv
<1>3. CASE AfcEnd("fail") /\ m_openFile' = m_openFile
  <2>1. afcJob' \in AfcJobSet /\ afcJob'.pc = "idle" /\ SameCommand /\ afcJob'.result = "fail"
    BY <1>1, <1>3, AfcEnds
  <2>2. TransferInv => TransferInv'
    BY <1>1, <2>1, EndedWhole DEF TransferInv, Whole
  <2> QED
    BY <1>1, <1>3, <2>1, <2>2, Ended, CommandMoves DEF AfcInv
<1>4. CASE afcJob.op = "open" /\ AfcEnd("pass") /\ m_openFile' = Opened(Src, 0)
  <2>1. afcJob' \in AfcJobSet /\ afcJob'.pc = "idle" /\ SameCommand
    BY <1>1, <1>4, AfcEnds
  <2>2. TransferInv => TransferInv'
    BY <1>1, <1>4, <2>1, EndedWhole DEF TransferInv, Whole
  <2>3. m_openFile' \in [path : AfcPath, offset : Nat] /\ m_openFile'.path[1] \in afcDevices
    BY <1>1, <1>4 DEF Opened
  <2>4. AfcTypeInv' /\ DeviceInv'
    BY <1>1, <2>1, <2>3 DEF AfcInv, AfcTypeInv, DeviceInv, NothingDangles
  <2> QED
    BY <2>1, <2>2, <2>4, Ended DEF AfcInv
<1>5. ASSUME NEW p \in {"reading", "openDest"}, AfcGoto(p), m_openFile' = m_openFile, afcJob.op = IF p = "reading" THEN "get" ELSE "copy"
      PROVE  AfcInv' /\ (TransferInv => TransferInv')
  <2>1. p \in AfcPcs
    BY DEF AfcPcs
  <2>2. afcJob' \in AfcJobSet /\ afcJob'.pc = p /\ SameCommand /\ afcJob'.done = afcJob.done /\ afcJob'.size = afcJob.size
    BY <1>1, <1>5, <2>1, AfcGoes
  <2>0. files[afcJob.src] \in AfcFile
    BY <1>1, <1>5, <1>6, <2>2, AfcEnds
  <2>3. FlowInv'
    BY <1>1, <1>5, <2>0, <2>2 DEF AfcInv, FlowInv, AfcCalls, FileOps, SameCommand
  <2>4. TransferInv => TransferInv'
    BY <1>1, <1>5, <2>2 DEF TransferInv, Whole, SameCommand
  <2> QED
    BY <1>1, <1>5, <2>2, <2>3, <2>4, CommandMoves
<1> QED
  BY <1>2, <1>3, <1>4, <1>5

-----------------------------------------------------------------------------
(* Steps that write. *)
LEMMA FilesMove ==
  ASSUME AfcInv, UNCHANGED <<attached, afcDevices, m_openFile, m_apps>>, files' \in [AfcPath -> {Nothing} \cup AfcFile],
         afcJob'.src = afcJob.src, afcJob'.dest = afcJob.dest, afcJob' \in AfcJobSet, afcJob.pc # "idle", FlowInv',
         afcJob'.pc \in {"idle", "client", "apps"} \cup FileOps \/ afcJob.src[1] \in afcDevices
  PROVE  AfcInv'
<1>1. AfcTypeInv'
  BY DEF AfcInv, AfcTypeInv
<1>2. NothingDangles'
  BY DEF AfcInv, DeviceInv, NothingDangles
<1> QED
  BY <1>1, <1>2 DEF AfcInv, DeviceInv

(* What nobody looks at, or that the application does not ask for. *)
Calm == AfcEvents \cap {"acrossContainers", "killed", "shrinks", "resumes", "lost"} = {}

LEMMA OpenDestKeeps == ASSUME AfcInv, OpenDest PROVE AfcInv' /\ (TransferInv /\ Calm => TransferInv')
<1> DEFINE o == IF afcJob.op = "put" THEN "new" ELSE files[Src].of
           p == IF afcJob.op = "put" THEN "receiving" ELSE "reading"
           f == File(o, 0)
           g == [files EXCEPT ![Dest] = f]
<1>1. /\ afcJob.pc = "openDest" /\ UNCHANGED <<attached, afcDevices, m_openFile, m_apps>> /\ afcJob \in AfcJobSet
      /\ afcJob.src[1] \in afcDevices /\ afcJob.op \in {"put", "copy"} /\ Src = afcJob.src /\ Src \in AfcPath /\ Dest \in AfcPath
      /\ (Calm => Dest = afcJob.dest) /\ files \in [AfcPath -> {Nothing} \cup AfcFile]
      /\ (afcJob.op = "copy" <=> afcJob.src # afcJob.dest)
  <2>1. Calm => "acrossContainers" \notin AfcEvents
    BY DEF Calm
  <2> QED
    BY <2>1, OwnContainer DEF OpenDest, AfcAt, SameDevices, SameWorker, afcDeviceVars, AfcInv, AfcTypeInv, DeviceInv, FlowInv, FileOps
<1>2. \/ AfcEnd("fail") /\ files' = files
      \/ AfcGoto(p) /\ (files' = g \/ (files' = files /\ files[Dest] # Nothing /\ ~Calm))
  BY DEF OpenDest, Calm
<1>3. CASE AfcEnd("fail") /\ files' = files
  <2>1. afcJob' \in AfcJobSet /\ afcJob'.pc = "idle" /\ SameCommand /\ afcJob'.result = "fail"
    BY <1>1, <1>3, AfcEnds
  <2>2. TransferInv => TransferInv'
    BY <1>1, <1>3, <2>1, EndedWhole DEF TransferInv, Whole
  <2> QED
    BY <1>1, <1>3, <2>1, <2>2, Ended, CommandMoves DEF AfcInv
<1>4. CASE AfcGoto(p) /\ (files' = g \/ (files' = files /\ files[Dest] # Nothing /\ ~Calm))
  <2>1. p \in AfcPcs
    BY DEF AfcPcs
  <2>2. p \in {"receiving", "reading"} /\ (p = "receiving" <=> afcJob.op = "put")
    OBVIOUS
  <2>3. afcJob.op = "put" => o = "new"
    OBVIOUS
  <2>4. afcJob.op = "copy" => o = files[afcJob.src].of
    BY <1>1
  <2> HIDE DEF p
  <2>5. afcJob' \in AfcJobSet /\ afcJob'.pc = p /\ SameCommand /\ afcJob'.done = afcJob.done /\ afcJob'.size = afcJob.size
    BY <1>1, <1>4, <2>1, AfcGoes
  <2>0. files'[Dest] \in AfcFile /\ (afcJob.op = "copy" => files'[afcJob.src] \in AfcFile) /\ Dest' = Dest
    <3>1. o \in {"old", "new", "dir", "cut"}
      BY <1>1 DEF AfcInv, FlowInv, AfcFile
    <3> HIDE DEF o
    <3>2. f \in AfcFile
      BY <3>1 DEF File, AfcFile
    <3> HIDE DEF f
    <3>3. afcJob.op = "copy" => files[afcJob.src] \in AfcFile
      BY <1>1 DEF AfcInv, FlowInv
    <3>4. Dest' = Dest
      BY <2>5 DEF Dest, SameCommand, ClientPath
    <3>5. CASE files' = g
      BY <1>1, <3>2, <3>3, <3>4, <3>5
    <3>6. CASE files' = files /\ files[Dest] # Nothing
      BY <1>1, <3>3, <3>4, <3>6
    <3> QED
      BY <1>4, <3>5, <3>6
  <2>6. FlowInv'
    BY <1>1, <2>0, <2>2, <2>5 DEF AfcInv, FlowInv, AfcCalls, FileOps, SameCommand
  <2>7. ASSUME TransferInv, Calm PROVE TransferInv'
    <3>1. files' = g /\ Dest = afcJob.dest /\ afcJob.done = 0 /\ afcJob.short = FALSE
      BY <1>1, <1>4, <2>7 DEF TransferInv
    <3> HIDE DEF o
    <3>2. f = File(o, 0) /\ f.of = o /\ f.len = 0
      BY DEF File
    <3> HIDE DEF f
    <3>3. files'[Dest] = f /\ \A q \in AfcPath : q # Dest => files'[q] = files[q]
      BY <1>1, <3>1
    <3>4. CASE afcJob.op = "put"
      <4>1. \A q \in AfcPath : Whole(q)'
        <5> SUFFICES ASSUME NEW q \in AfcPath PROVE Whole(q)'
          OBVIOUS
        <5>1. CASE q = Dest
          BY <2>3, <3>2, <3>3, <3>4, <5>1 DEF Whole
        <5>2. CASE q # Dest
          <6>1. Whole(q)
            BY <1>1, <2>7 DEF TransferInv
          <6> QED
            BY <3>3, <5>2, <6>1 DEF Whole
        <5> QED
          BY <5>1, <5>2
      <4> QED
        BY <1>1, <2>2, <2>3, <2>5, <3>1, <3>2, <3>3, <3>4, <4>1 DEF TransferInv, SameCommand
    <3>5. CASE afcJob.op = "copy"
      <4>1. \A q \in AfcPath : q # Dest => Whole(q)'
        <5> SUFFICES ASSUME NEW q \in AfcPath, q # Dest PROVE Whole(q)'
          OBVIOUS
        <5>1. Whole(q)
          BY <1>1, <2>7 DEF TransferInv
        <5> QED
          BY <3>3, <5>1 DEF Whole
      <4>2. files'[afcJob.src] = files[afcJob.src]
        BY <1>1, <3>1, <3>3, <3>5
      <4>3. files[afcJob.src] # Nothing /\ files[afcJob.src].len = afcJob.size
        BY <1>1, <2>7, <3>5 DEF TransferInv
      <4> QED
        BY <1>1, <2>2, <2>4, <2>5, <3>1, <3>2, <3>3, <3>5, <4>1, <4>2, <4>3 DEF TransferInv, SameCommand
    <3> QED
      BY <1>1, <3>4, <3>5
  <2>8. files' \in [AfcPath -> {Nothing} \cup AfcFile]
    <3>1. o \in {"old", "new", "dir", "cut"}
      BY <1>1 DEF AfcInv, FlowInv, AfcFile
    <3> HIDE DEF o
    <3>2. f \in AfcFile
      BY <3>1 DEF File, AfcFile
    <3> HIDE DEF f
    <3> QED
      BY <1>1, <1>4, <3>2
  <2> QED
    BY <1>1, <2>5, <2>6, <2>7, <2>8, FilesMove DEF SameCommand
<1> QED
  BY <1>2, <1>3, <1>4

(* A short write leaves a file that is cut. *)
LEMMA ShortWriteCuts ==
  ASSUME afcJob \in AfcJobSet, files \in [AfcPath -> {Nothing} \cup AfcFile], Dest \in AfcPath, files[Dest] \in AfcFile,
         NEW n \in Nat, ShortWrite(n)
  PROVE  /\ afcJob' \in AfcJobSet /\ afcJob'.pc = afcJob.pc /\ afcJob'.op = afcJob.op /\ afcJob'.short = TRUE
         /\ afcJob'.size = afcJob.size /\ afcJob'.src = afcJob.src /\ afcJob'.dest = afcJob.dest
         /\ files' \in [AfcPath -> {Nothing} \cup AfcFile] /\ files'[Dest] \in AfcFile /\ files'[Dest].of = "cut"
         /\ \A q \in AfcPath : q # Dest => files'[q] = files[q]
<1> DEFINE m == afcJob.done + n
<1>1. m \in Nat /\ afcJob' = [afcJob EXCEPT !.done = m, !.short = TRUE]
  BY AfcFields DEF ShortWrite
<1> HIDE DEF m
<1>2. PICK stored \in 0 .. n - 1 : files' = [files EXCEPT ![Dest] = File("cut", files[Dest].len + stored)]
  BY DEF ShortWrite
<1>3. files[Dest].len + stored \in Nat
  BY DEF AfcFile
<1>4. PICK f \in AfcFile : f.of = "cut" /\ files' = [files EXCEPT ![Dest] = f]
  BY <1>2, <1>3 DEF File, AfcFile
<1> QED
  BY <1>1, <1>4 DEF AfcJobSet

LEMMA ReadingKeeps == ASSUME AfcInv, Reading PROVE AfcInv' /\ (TransferInv /\ Calm => TransferInv')
<1> DEFINE p == IF afcJob.op = "get" THEN "passes" ELSE "closing"
<1>1. /\ afcJob.pc = "reading" /\ UNCHANGED <<attached, afcDevices, m_openFile, m_apps>> /\ afcJob \in AfcJobSet
      /\ afcJob.src[1] \in afcDevices /\ afcJob.op \in {"get", "copy"} /\ Src = afcJob.src /\ Src \in AfcPath /\ Dest \in AfcPath
      /\ (Calm => Dest = afcJob.dest) /\ files \in [AfcPath -> {Nothing} \cup AfcFile]
      /\ (afcJob.op = "copy" <=> afcJob.src # afcJob.dest)
      /\ files[Src] \in AfcFile /\ (afcJob.op = "copy" => files[Dest] \in AfcFile)
  <2>1. Calm => "acrossContainers" \notin AfcEvents
    BY DEF Calm
  <2> QED
    BY <2>1, OwnContainer DEF Reading, AfcAt, SameDevices, SameWorker, afcDeviceVars, AfcInv, AfcTypeInv, DeviceInv, FlowInv, FileOps
<1>2. afcJob.done \in Nat /\ afcJob.size \in Nat
  BY <1>1, AfcFields
<1>3. \/ AfcGoto(p) /\ files' = files /\ afcJob.done = afcJob.size
      \/ AfcGoto("cleanup") /\ files' = files
      \/ AfcGoto("closing") /\ files' = files /\ ~Calm /\ afcJob.op = "copy"
      \/ files' = [files EXCEPT ![Src].len = 0] /\ afcJob' = afcJob /\ ~Calm
      \/ \E n \in 1 .. afcJob.size - afcJob.done :
           \/ /\ afcJob' = [afcJob EXCEPT !.done = @ + n]
              /\ files' = IF afcJob.op = "copy" THEN [files EXCEPT ![Dest].len = @ + n] ELSE files
           \/ afcJob.op = "copy" /\ ShortWrite(n)
  BY DEF Reading, Calm
<1>4. ASSUME NEW q \in {"passes", "cleanup", "closing"}, AfcGoto(q), files' = files,
             q = "passes" => afcJob.op = "get", q = "closing" => afcJob.op = "copy",
             q # "cleanup" /\ Calm => afcJob.done = afcJob.size
      PROVE  AfcInv' /\ (TransferInv /\ Calm => TransferInv')
  <2>1. q \in AfcPcs
    BY DEF AfcPcs
  <2>2. afcJob' \in AfcJobSet /\ afcJob'.pc = q /\ SameCommand /\ afcJob'.done = afcJob.done /\ afcJob'.size = afcJob.size
    BY <1>1, <1>4, <2>1, AfcGoes
  <2>3. FlowInv'
    BY <1>1, <1>4, <2>2 DEF AfcInv, FlowInv, AfcCalls, FileOps, SameCommand
  <2>4. ASSUME TransferInv, Calm PROVE TransferInv'
    <3>1. CASE q = "cleanup"
      BY <1>1, <1>4, <2>2, <2>4, <3>1 DEF TransferInv, Whole, SameCommand
    <3>2. CASE q = "passes"
      BY <1>1, <1>4, <2>2, <2>4, <3>2 DEF TransferInv, Whole, SameCommand
    <3>3. CASE q = "closing"
      <4>1. /\ IF afcJob.short THEN files[afcJob.dest].of = "cut" ELSE files[afcJob.dest] = File(files[afcJob.src].of, afcJob.done)
            /\ files[afcJob.src].len = afcJob.size /\ afcJob.done = afcJob.size /\ files[afcJob.src] \in AfcFile
        BY <1>1, <1>4, <2>4, <3>3 DEF TransferInv
      <4>2. IF afcJob.short THEN files[afcJob.dest].of = "cut" ELSE files[afcJob.dest] = files[afcJob.src]
        BY <4>1 DEF File, AfcFile
      <4>3. \A x \in AfcPath : Whole(x)
        <5> SUFFICES ASSUME NEW x \in AfcPath PROVE Whole(x)
          OBVIOUS
        <5>1. Whole(afcJob.src)
          BY <1>1, <1>4, <2>4, <3>3 DEF TransferInv
        <5> QED
          BY <1>1, <2>4, <4>2, <5>1 DEF TransferInv, Whole
      <4> QED
        BY <1>1, <1>4, <2>2, <2>4, <3>3, <4>1, <4>2, <4>3 DEF TransferInv, Whole, SameCommand
    <3> QED
      BY <3>1, <3>2, <3>3
  <2> QED
    BY <1>1, <1>4, <2>2, <2>3, <2>4, CommandMoves
<1>5. CASE files' = [files EXCEPT ![Src].len = 0] /\ afcJob' = afcJob /\ ~Calm
  <2>1. /\ files' \in [AfcPath -> {Nothing} \cup AfcFile] /\ files'[Src] \in AfcFile
        /\ (files[Dest] \in AfcFile => files'[Dest] \in AfcFile)
    <3>1. [files[Src] EXCEPT !.len = 0] \in AfcFile
      BY <1>1 DEF AfcFile
    <3> QED
      BY <1>1, <1>5, <3>1
  <2>2. SameCommand /\ Dest' = Dest
    BY <1>5 DEF SameCommand, Dest, ClientPath
  <2>3. FlowInv'
    BY <1>1, <1>5, <2>1, <2>2 DEF AfcInv, FlowInv, AfcCalls, FileOps
  <2> QED
    BY <1>1, <1>5, <2>1, <2>2, <2>3, FilesMove DEF SameCommand
<1>6. ASSUME NEW n \in 1 .. afcJob.size - afcJob.done, afcJob' = [afcJob EXCEPT !.done = @ + n],
             files' = IF afcJob.op = "copy" THEN [files EXCEPT ![Dest].len = @ + n] ELSE files
      PROVE  AfcInv' /\ (TransferInv /\ Calm => TransferInv')
  <2>1. n \in Nat /\ afcJob.done + n \in Nat
    BY <1>2
  <2> DEFINE m == afcJob.done + n
             f == [files[Dest] EXCEPT !.len = @ + n]
  <2>2. afcJob' \in AfcJobSet /\ afcJob'.pc = "reading" /\ SameCommand /\ afcJob'.done = m /\ afcJob'.size = afcJob.size
    <3>1. afcJob' = [afcJob EXCEPT !.done = m] /\ m \in Nat
      BY <1>6, <2>1
    <3> HIDE DEF m
    <3> QED
      BY <1>1, <3>1 DEF AfcJobSet, SameCommand
  <2>3. afcJob.op = "copy" => f \in AfcFile /\ f.of = files[Dest].of /\ f.len = files[Dest].len + n
    BY <1>1, <2>1 DEF AfcFile
  <2>4. afcJob.op = "copy" => files' = [files EXCEPT ![Dest] = f]
    BY <1>6
  <2>5. afcJob.op = "get" => files' = files
    BY <1>6
  <2> HIDE DEF f, m
  <2>6. /\ afcJob.op = "copy" => files'[Dest] = f
        /\ \A q \in AfcPath : afcJob.op = "get" \/ q # Dest => files'[q] = files[q]
    BY <1>1, <2>4, <2>5
  <2>7. files' \in [AfcPath -> {Nothing} \cup AfcFile]
    BY <1>1, <2>3, <2>4, <2>5
  <2>8. Dest' = Dest
    BY <2>2 DEF SameCommand, Dest, ClientPath
  <2>9. files'[afcJob.src] \in AfcFile
    BY <1>1, <2>3, <2>6
  <2>10. FlowInv'
    BY <1>1, <2>2, <2>3, <2>6, <2>8, <2>9 DEF AfcInv, FlowInv, AfcCalls, FileOps, SameCommand
  <2>11. ASSUME TransferInv, Calm PROVE TransferInv'
    <3>1. Dest = afcJob.dest
      BY <1>1, <2>11
    <3>2. \A q \in AfcPath : Whole(q)' \/ (afcJob.op = "copy" /\ q = afcJob.dest)
      <4> SUFFICES ASSUME NEW q \in AfcPath, ~(afcJob.op = "copy" /\ q = afcJob.dest) PROVE Whole(q)'
        OBVIOUS
      <4>1. Whole(q) /\ files'[q] = files[q]
        BY <1>1, <2>6, <2>11, <3>1 DEF TransferInv
      <4> QED
        BY <4>1 DEF Whole
    <3>3. files'[afcJob.src] = files[afcJob.src] /\ files[afcJob.src] # Nothing /\ files[afcJob.src].len = afcJob.size
      BY <1>1, <2>6, <2>11, <3>1 DEF TransferInv
    <3>5. afcJob.op = "copy" /\ afcJob.short => files'[afcJob.dest].of = "cut"
      BY <1>1, <2>3, <2>6, <2>11, <3>1 DEF TransferInv
    <3>4. afcJob.op = "copy" /\ ~afcJob.short => files'[afcJob.dest] = File(files[afcJob.src].of, m)
      <4> SUFFICES ASSUME afcJob.op = "copy", ~afcJob.short PROVE files'[afcJob.dest] = File(files[afcJob.src].of, m)
        OBVIOUS
      <4>1. files[Dest] = File(files[afcJob.src].of, afcJob.done)
        BY <1>1, <2>11, <3>1 DEF TransferInv
      <4>2. f.of = files[afcJob.src].of /\ f.len = m /\ f \in AfcFile
        BY <2>3, <4>1 DEF File, m
      <4> QED
        BY <2>6, <3>1, <4>2 DEF File, AfcFile
    <3> QED
      BY <1>1, <2>2, <3>2, <3>3, <3>4, <3>5 DEF TransferInv, SameCommand
  <2> QED
    BY <1>1, <2>2, <2>7, <2>10, <2>11, FilesMove DEF SameCommand
<1>8. ASSUME NEW n \in 1 .. afcJob.size - afcJob.done, afcJob.op = "copy", ShortWrite(n) PROVE AfcInv' /\ (TransferInv /\ Calm => TransferInv')
  <2>0. n \in Nat
    BY <1>2
  <2>1. /\ afcJob' \in AfcJobSet /\ afcJob'.pc = "reading" /\ afcJob'.op = "copy" /\ afcJob'.short = TRUE
        /\ afcJob'.size = afcJob.size /\ afcJob'.src = afcJob.src /\ afcJob'.dest = afcJob.dest
    BY <1>1, <1>8, <2>0, ShortWriteCuts
  <2>2. /\ files' \in [AfcPath -> {Nothing} \cup AfcFile] /\ files'[Dest] \in AfcFile /\ files'[Dest].of = "cut"
        /\ \A q \in AfcPath : q # Dest => files'[q] = files[q]
    BY <1>1, <1>8, <2>0, ShortWriteCuts
  <2>3. Dest' = Dest
    BY <2>1 DEF Dest, ClientPath
  <2>4. files'[afcJob.src] \in AfcFile
    BY <1>1, <2>2
  <2>5. FlowInv'
    BY <1>1, <1>8, <2>1, <2>2, <2>3, <2>4 DEF AfcInv, FlowInv, AfcCalls, FileOps
  <2>6. ASSUME TransferInv, Calm PROVE TransferInv'
    <3>1. Dest = afcJob.dest /\ afcJob.dest # afcJob.src
      BY <1>1, <1>8, <2>6
    <3>2. \A q \in AfcPath : Whole(q)' \/ q = afcJob.dest
      <4> SUFFICES ASSUME NEW q \in AfcPath, q # afcJob.dest PROVE Whole(q)'
        OBVIOUS
      <4>1. Whole(q) /\ files'[q] = files[q]
        BY <2>2, <2>6, <3>1 DEF TransferInv
      <4> QED
        BY <4>1 DEF Whole
    <3>3. files'[afcJob.src] # Nothing /\ files'[afcJob.src].len = afcJob.size
      BY <1>1, <1>8, <2>2, <2>6, <3>1 DEF TransferInv
    <3> QED
      BY <2>1, <2>2, <3>1, <3>2, <3>3 DEF TransferInv
  <2> QED
    BY <1>1, <2>1, <2>2, <2>5, <2>6, FilesMove
<1>7. p \in {"passes", "closing"} /\ (p = "passes" => afcJob.op = "get") /\ (p = "closing" => afcJob.op = "copy")
  BY <1>1
<1> HIDE DEF p
<1> QED
  BY <1>3, <1>4, <1>5, <1>6, <1>7, <1>8

LEMMA EndKeeps ==
  ASSUME AfcInv, UNCHANGED <<attached, afcDevices, m_openFile, m_apps, files>>, afcJob.pc \notin {"idle", "reading", "cleanup"},
         NEW r \in {"pass", "fail"}, AfcEnd(r), r = "pass" => afcJob.op \notin {"get", "put", "copy"}
  PROVE  AfcInv' /\ (TransferInv => TransferInv')
<1>1. afcJob' \in AfcJobSet /\ afcJob'.pc = "idle" /\ SameCommand /\ afcJob'.result = r
  BY AfcEnds DEF AfcInv, AfcTypeInv
<1>2. TransferInv => TransferInv'
  BY <1>1, EndedWhole DEF TransferInv, Whole
<1> QED
  BY <1>1, <1>2, Ended, CommandMoves DEF AfcInv

LEMMA CleanupKeeps == ASSUME AfcInv, Cleanup PROVE AfcInv' /\ (TransferInv /\ Calm => TransferInv')
<1> DEFINE g == [files EXCEPT ![Dest] = Nothing]
<1>1. /\ afcJob.pc = "cleanup" /\ UNCHANGED <<attached, afcDevices, m_openFile, m_apps>> /\ afcJob \in AfcJobSet
      /\ afcJob.op \in {"get", "copy"} /\ Dest \in AfcPath
      /\ (Calm => Dest = afcJob.dest) /\ files \in [AfcPath -> {Nothing} \cup AfcFile] /\ AfcEnd("fail")
  <2>1. Calm => "acrossContainers" \notin AfcEvents
    BY DEF Calm
  <2> QED
    BY <2>1, OwnContainer DEF Cleanup, AfcAt, SameDevices, SameWorker, afcDeviceVars, AfcInv, AfcTypeInv, DeviceInv, FlowInv, FileOps
<1>2. files' = (IF afcJob.op = "copy" THEN g ELSE files) \/ (files' = files /\ ~Calm)
  BY DEF Cleanup, CleanedUp, Calm
<1>3. afcJob' \in AfcJobSet /\ afcJob'.pc = "idle" /\ SameCommand /\ afcJob'.result = "fail"
  BY <1>1, AfcEnds
<1>4. files' \in [AfcPath -> {Nothing} \cup AfcFile]
  BY <1>1, <1>2
<1>5. ASSUME TransferInv, Calm PROVE TransferInv'
  <2>1. ASSUME NEW p \in AfcPath PROVE Whole(p)'
    <3>1. CASE afcJob.op = "copy" /\ p = afcJob.dest
      BY <1>1, <1>2, <1>5, <3>1 DEF Whole
    <3>2. CASE ~(afcJob.op = "copy" /\ p = afcJob.dest)
      <4>1. Whole(p) /\ files'[p] = files[p]
        BY <1>1, <1>2, <1>5, <3>2 DEF TransferInv
      <4> QED
        BY <4>1 DEF Whole
    <3> QED
      BY <3>1, <3>2
  <2> QED
    BY <1>3, <1>5, <2>1, EndedWhole
<1> QED
  BY <1>1, <1>3, <1>4, <1>5, Ended, FilesMove DEF AfcInv, SameCommand

LEMMA ReceivingKeeps == ASSUME AfcInv, Receiving PROVE AfcInv' /\ (TransferInv /\ Calm => TransferInv')
<1> DEFINE f == [files[Dest] EXCEPT !.len = @ + 1]
           m == afcJob.done + 1
           k == afcJob.done
<1>1. /\ afcJob.pc = "receiving" /\ UNCHANGED <<attached, afcDevices, m_openFile, m_apps>> /\ afcJob \in AfcJobSet
      /\ afcJob.op = "put" /\ Dest \in AfcPath /\ afcJob.src[1] \in afcDevices /\ files[Dest] \in AfcFile
      /\ (Calm => Dest = afcJob.dest) /\ files \in [AfcPath -> {Nothing} \cup AfcFile] /\ afcJob.src = afcJob.dest
  <2>1. Calm => "acrossContainers" \notin AfcEvents
    BY DEF Calm
  <2> QED
    BY <2>1, OwnContainer DEF Receiving, AfcAt, SameDevices, SameWorker, afcDeviceVars, AfcInv, AfcTypeInv, DeviceInv, FlowInv, FileOps
<1>2. k \in Nat /\ m \in Nat
  BY <1>1, AfcFields
<1>3. \/ files' = [files EXCEPT ![Dest] = f] /\ afcJob' = [afcJob EXCEPT !.done = m]
      \/ ShortWrite(1)
      \/ AfcEnd("fail") /\ files' = files
      \/ afcJob' = [afcJob EXCEPT !.pc = "closing", !.size = k] /\ files' = files
  BY DEF Receiving
<1>4. f \in AfcFile /\ f.of = files[Dest].of /\ f.len = files[Dest].len + 1
  BY <1>1 DEF AfcFile
<1>5. CASE files' = [files EXCEPT ![Dest] = f] /\ afcJob' = [afcJob EXCEPT !.done = m]
  <2>1. afcJob' \in AfcJobSet /\ afcJob'.pc = "receiving" /\ SameCommand /\ afcJob'.done = m
    <3> HIDE DEF m
    <3> QED
      BY <1>1, <1>2, <1>5 DEF AfcJobSet, SameCommand
  <2> HIDE DEF f
  <2>2. /\ files' \in [AfcPath -> {Nothing} \cup AfcFile] /\ files'[Dest] = f /\ f \in AfcFile
        /\ \A q \in AfcPath : q # Dest => files'[q] = files[q]
    BY <1>1, <1>4, <1>5
  <2>3. Dest' = Dest
    BY <2>1 DEF SameCommand, Dest, ClientPath
  <2>4. FlowInv'
    BY <1>1, <2>1, <2>2, <2>3 DEF AfcInv, FlowInv, AfcCalls, FileOps, SameCommand
  <2>5. ASSUME TransferInv, Calm PROVE TransferInv'
    <3>1. Dest = afcJob.dest /\ IF afcJob.short THEN files[Dest].of = "cut" ELSE files[Dest] = File("new", afcJob.done)
      BY <1>1, <2>5 DEF TransferInv
    <3>2. IF afcJob.short THEN f.of = "cut" ELSE f.of = "new" /\ f.len = m
      BY <1>4, <3>1 DEF File
    <3>3. IF afcJob.short THEN files'[afcJob.dest].of = "cut" ELSE files'[afcJob.dest] = File("new", m)
      BY <2>2, <3>1, <3>2 DEF File, AfcFile
    <3>4. ASSUME NEW q \in AfcPath PROVE Whole(q)'
      <4>1. CASE q = Dest
        BY <2>2, <3>2, <4>1 DEF Whole
      <4>2. CASE q # Dest
        <5>1. Whole(q) /\ files'[q] = files[q]
          BY <1>1, <2>2, <2>5, <4>2 DEF TransferInv
        <5> QED
          BY <5>1 DEF Whole
      <4> QED
        BY <4>1, <4>2
    <3> QED
      BY <1>1, <2>1, <3>3, <3>4 DEF TransferInv, SameCommand
  <2> QED
    BY <1>1, <2>1, <2>2, <2>4, <2>5, FilesMove DEF SameCommand
<1>6. CASE AfcEnd("fail") /\ files' = files
  BY <1>1, <1>6, EndKeeps
<1>7. CASE afcJob' = [afcJob EXCEPT !.pc = "closing", !.size = k] /\ files' = files
  <2>0. k = afcJob.done /\ "closing" \in AfcPcs
    BY DEF AfcPcs
  <2> HIDE DEF k
  <2>1. afcJob' \in AfcJobSet /\ afcJob'.pc = "closing" /\ SameCommand /\ afcJob'.done = afcJob.done /\ afcJob'.size = afcJob.done
    BY <1>1, <1>2, <1>7, <2>0 DEF AfcJobSet, SameCommand
  <2>2. FlowInv'
    BY <1>1, <2>1 DEF AfcInv, FlowInv, AfcCalls, FileOps, SameCommand
  <2>3. TransferInv => TransferInv'
    BY <1>1, <1>7, <2>1 DEF TransferInv, Whole, SameCommand
  <2> QED
    BY <1>1, <1>7, <2>1, <2>2, <2>3, CommandMoves
<1>8. CASE ShortWrite(1)
  <2>1. /\ afcJob' \in AfcJobSet /\ afcJob'.pc = "receiving" /\ afcJob'.op = "put" /\ afcJob'.short = TRUE
        /\ afcJob'.src = afcJob.src /\ afcJob'.dest = afcJob.dest
        /\ files' \in [AfcPath -> {Nothing} \cup AfcFile] /\ files'[Dest] \in AfcFile /\ files'[Dest].of = "cut"
        /\ \A q \in AfcPath : q # Dest => files'[q] = files[q]
    BY <1>1, <1>8, ShortWriteCuts
  <2>2. Dest' = Dest
    BY <2>1 DEF Dest, ClientPath
  <2>3. FlowInv'
    BY <1>1, <2>1, <2>2 DEF AfcInv, FlowInv, AfcCalls, FileOps
  <2>4. ASSUME TransferInv, Calm PROVE TransferInv'
    <3>1. \A q \in AfcPath : Whole(q)'
      <4> SUFFICES ASSUME NEW q \in AfcPath PROVE Whole(q)'
        OBVIOUS
      <4>1. Whole(q)
        BY <1>1, <2>4 DEF TransferInv
      <4> QED
        BY <2>1, <4>1 DEF Whole
    <3>2. Dest = afcJob.dest
      BY <1>1, <2>4
    <3> QED
      BY <2>1, <3>1, <3>2 DEF TransferInv
  <2> QED
    BY <1>1, <2>1, <2>3, <2>4, FilesMove
<1> QED
  BY <1>3, <1>5, <1>6, <1>7, <1>8

LEMMA ClosingKeeps == ASSUME AfcInv, Closing \/ Passes PROVE AfcInv' /\ (TransferInv => TransferInv')
<1>1. /\ afcJob.pc \in {"closing", "passes"} /\ UNCHANGED <<attached, afcDevices, m_openFile, m_apps, files>> /\ afcJob \in AfcJobSet
      /\ afcJob.op \in {"get", "put", "copy"} /\ afcJob.src[1] \in afcDevices
  BY DEF Closing, Passes, AfcAt, SameDevices, SameWorker, afcDeviceVars, AfcInv, AfcTypeInv, DeviceInv, FlowInv, FileOps
<1>2. AfcGoto("passes") \/ AfcEnd("pass")
  BY DEF Closing, Passes
<1>3. /\ afcJob' \in AfcJobSet /\ afcJob'.pc \in {"passes", "idle"} /\ SameCommand
      /\ afcJob'.done = afcJob.done /\ afcJob'.size = afcJob.size
  <2>1. "passes" \in AfcPcs
    BY DEF AfcPcs
  <2> QED
    BY <1>1, <1>2, <2>1, AfcGoes, AfcEnds
<1>4. FlowInv'
  BY <1>1, <1>3 DEF AfcInv, FlowInv, AfcCalls, FileOps, SameCommand
<1>5. TransferInv => TransferInv'
  BY <1>1, <1>3 DEF TransferInv, Whole, SameCommand
<1> QED
  BY <1>1, <1>3, <1>4, <1>5, CommandMoves

(* A call that writes files while no transfer is under way. *)
LEMMA CallKeeps ==
  ASSUME AfcInv, UNCHANGED <<attached, afcDevices, m_openFile, m_apps>>, files' \in [AfcPath -> {Nothing} \cup AfcFile],
         afcJob.pc \in AfcCalls, AfcEnd("pass"), TransferInv => \A p \in AfcPath : Whole(p)'
  PROVE  AfcInv' /\ (TransferInv => TransferInv')
<1>1. /\ afcJob' \in AfcJobSet /\ afcJob'.pc = "idle" /\ SameCommand
      /\ afcJob.pc # "idle" /\ afcJob.op \notin {"get", "put", "copy"}
  BY AfcEnds DEF AfcInv, AfcTypeInv, FlowInv, AfcCalls, FileOps
<1>2. TransferInv => TransferInv'
  BY <1>1, EndedWhole
<1> QED
  BY <1>1, <1>2, Ended, FilesMove DEF AfcInv, SameCommand

LEMMA NamesKeeps == ASSUME AfcInv, Names PROVE AfcInv' /\ (TransferInv => TransferInv')
<1> DEFINE s == files[Src]
           f == File("dir", 0)
<1>1. /\ afcJob.pc \in {"rename", "symlink", "mkdir", "del", "setTime", "space"}
      /\ UNCHANGED <<attached, afcDevices, m_openFile, m_apps>> /\ AfcEnd("pass")
  BY DEF Names, Rename, Symlink, AfcMkdir, Del, SetModificationTime, FreeSpace, AfcAt, SameDevices, SameWorker, afcDeviceVars
<1>2. \/ files' = [files EXCEPT ![Src] = Nothing, ![Dest] = s] /\ s # Nothing
      \/ files' = [files EXCEPT ![Dest] = f]
      \/ files' = [files EXCEPT ![Src] = Nothing]
      \/ files' = files
  BY DEF Names, Rename, Symlink, AfcMkdir, Del, SetModificationTime, FreeSpace
<1>3. afcJob.pc \in AfcCalls /\ Src \in AfcPath /\ Dest \in AfcPath /\ files \in [AfcPath -> {Nothing} \cup AfcFile]
  BY <1>1, OwnContainer DEF AfcCalls, AfcInv, AfcTypeInv
<1>4. f \in AfcFile /\ f.of = "dir"
  BY DEF File, AfcFile
<1>5. TransferInv => \A p \in AfcPath : Whole(p)
  <2>1. afcJob.op # "copy"
    BY <1>1, <1>3 DEF AfcInv, FlowInv
  <2> QED
    BY <2>1 DEF TransferInv
<1>6. s \in {Nothing} \cup AfcFile /\ (TransferInv => (s # Nothing /\ s.of = "old" => s.len = MaxLen))
  BY <1>3, <1>5 DEF Whole
<1> HIDE DEF s, f
<1>7. files' \in [AfcPath -> {Nothing} \cup AfcFile]
  BY <1>2, <1>3, <1>4, <1>6
<1>8. ASSUME TransferInv, NEW p \in AfcPath PROVE Whole(p)'
  <2>1. files'[p] \in {files[p], Nothing, s, f}
    BY <1>2, <1>3
  <2>2. Whole(p)
    BY <1>5, <1>8
  <2> QED
    BY <1>4, <1>6, <1>8, <2>1, <2>2 DEF Whole
<1> QED
  BY <1>1, <1>3, <1>7, <1>8, CallKeeps

LEMMA NamesFailKeeps == ASSUME AfcInv, NamesFail PROVE AfcInv' /\ (TransferInv => TransferInv')
<1>1. /\ afcJob.pc \in {"rename", "symlink", "mkdir", "del", "setTime", "space", "apps"}
      /\ UNCHANGED <<attached, afcDevices, m_openFile, m_apps, files>> /\ AfcEnd("fail")
  BY DEF NamesFail, SameDevices, SameWorker, afcDeviceVars
<1> QED
  BY <1>1, EndKeeps

LEMMA AppsKeeps == ASSUME AfcInv, Apps PROVE AfcInv' /\ (TransferInv => TransferInv')
<1> DEFINE d == Src[1]
<1>1. /\ afcJob.pc = "apps" /\ d \in afcDevices /\ UNCHANGED <<attached, afcDevices, m_openFile, files>> /\ AfcEnd("pass")
      /\ m_apps' = {a \in m_apps : a[1] # d} \cup {<<d, a>> : a \in installed}
  BY DEF Apps, AfcAt, FetchApps, SameDevices, afcDeviceVars
<1> HIDE DEF d
<1>2. /\ afcJob' \in AfcJobSet /\ afcJob'.pc = "idle" /\ SameCommand /\ afcJob.op = "apps"
  BY <1>1, AfcEnds DEF AfcInv, AfcTypeInv, FlowInv, AfcCalls
<1>3. \A a \in m_apps' : a[1] \in afcDevices
  <2>1. \A a \in m_apps : a[1] \in afcDevices
    BY DEF AfcInv, DeviceInv, NothingDangles
  <2> QED
    BY <1>1, <2>1
<1>4. AfcTypeInv' /\ DeviceInv'
  BY <1>1, <1>2, <1>3 DEF AfcInv, AfcTypeInv, DeviceInv, NothingDangles, SameCommand
<1>5. FlowInv'
  BY <1>2, Ended DEF AfcInv
<1>6. TransferInv => TransferInv'
  BY <1>1, <1>2, EndedWhole DEF TransferInv, Whole
<1> QED
  BY <1>4, <1>5, <1>6 DEF AfcInv

(* The file that is open is written for its application: it is new. *)
LEMMA FileOpKeeps == ASSUME AfcInv, FileOp PROVE AfcInv' /\ (TransferInv => TransferInv')
<1> DEFINE path == OpenPath
           n == Max2(files[path].len, m_openFile.offset + 1)
           f == File("new", n)
           g == File("new", 0)
<1>1. /\ afcJob.pc \in FileOps /\ UNCHANGED <<attached, afcDevices, m_apps>> /\ afcJob \in AfcJobSet
      /\ afcJob.pc \in AfcCalls /\ afcJob.pc # "idle" /\ afcJob.op \notin {"get", "put", "copy"}
      /\ files \in [AfcPath -> {Nothing} \cup AfcFile] /\ m_openFile \in {Nothing} \cup [path : AfcPath, offset : Nat]
  BY DEF FileOp, SameDevices, afcDeviceVars, AfcInv, AfcTypeInv, FlowInv, AfcCalls, FileOps
<1>2. CASE AfcEnd("fail") /\ UNCHANGED <<files, m_openFile>>
  BY <1>1, <1>2, EndKeeps DEF FileOps
<1>3. CASE /\ m_openFile # Nothing /\ files[OpenPath] # Nothing /\ AfcEnd("pass")
           /\ ReadOpen \/ SeekOpen \/ WriteOpen \/ TruncateOpen \/ CloseOpen
  <2>1. afcJob' \in AfcJobSet /\ afcJob'.pc = "idle" /\ SameCommand
    BY <1>1, <1>3, AfcEnds
  <2>2. /\ path \in AfcPath /\ path[1] \in afcDevices /\ files[path] \in AfcFile
        /\ m_openFile.offset \in Nat /\ files[path].len \in Nat
    <3>1. path \in AfcPath /\ path[1] \in afcDevices /\ m_openFile.offset \in Nat
      BY <1>1, <1>3 DEF OpenPath, AfcInv, DeviceInv, NothingDangles
    <3>2. files[path] \in AfcFile
      BY <1>1, <1>3, <3>1
    <3> QED
      BY <3>1, <3>2 DEF AfcFile
  <2>3. n \in Nat
    BY <2>2 DEF Max2
  <2>4. /\ m_openFile' \in {m_openFile, Nothing} \/ \E k \in Nat : m_openFile' = Opened(path, k)
        /\ files' \in {files, [files EXCEPT ![path] = f], [files EXCEPT ![path] = g]}
    <3>1. CASE ReadOpen
      BY <2>2, <3>1 DEF ReadOpen
    <3>2. CASE SeekOpen
      BY <3>2, MaxLenAssumption DEF SeekOpen
    <3>3. CASE WriteOpen
      BY <2>2, <3>3 DEF WriteOpen
    <3>4. CASE TruncateOpen
      BY <3>4 DEF TruncateOpen
    <3>5. CASE CloseOpen
      BY <3>5 DEF CloseOpen
    <3> QED
      BY <1>3, <3>1, <3>2, <3>3, <3>4, <3>5
  <2> HIDE DEF n, path
  <2>5. f \in AfcFile /\ f.of = "new" /\ g \in AfcFile /\ g.of = "new"
    BY <2>3 DEF File, AfcFile
  <2> HIDE DEF f, g
  <2>6. /\ m_openFile' \in {Nothing} \cup [path : AfcPath, offset : Nat]
        /\ m_openFile' # Nothing => m_openFile'.path[1] \in afcDevices
    <3>1. CASE m_openFile' \in {m_openFile, Nothing}
      BY <1>1, <3>1 DEF AfcInv, DeviceInv, NothingDangles
    <3>2. ASSUME NEW k \in Nat, m_openFile' = Opened(path, k)
          PROVE  m_openFile' \in [path : AfcPath, offset : Nat] /\ m_openFile'.path[1] \in afcDevices
      BY <2>2, <3>2 DEF Opened
    <3> QED
      BY <2>4, <3>1, <3>2
  <2>7. files' \in [AfcPath -> {Nothing} \cup AfcFile]
    BY <1>1, <2>2, <2>4, <2>5
  <2>8. AfcTypeInv' /\ DeviceInv'
    BY <1>1, <2>1, <2>6, <2>7 DEF AfcInv, AfcTypeInv, DeviceInv, NothingDangles
  <2>9. FlowInv'
    BY <2>1, Ended DEF AfcInv
  <2>10. ASSUME TransferInv PROVE TransferInv'
    <3>1. ASSUME NEW p \in AfcPath PROVE Whole(p)'
      <4>1. files'[p] \in {files[p], f, g}
        BY <1>1, <2>2, <2>4
      <4>2. Whole(p)
        BY <1>1, <2>10 DEF TransferInv
      <4> QED
        BY <2>5, <4>1, <4>2 DEF Whole
    <3> QED
      BY <1>1, <2>1, <2>10, <3>1, EndedWhole
  <2> QED
    BY <2>8, <2>9, <2>10 DEF AfcInv
<1> QED
  BY <1>2, <1>3 DEF FileOp

-----------------------------------------------------------------------------
LEMMA AfcStep ==
  ASSUME AfcInv, "unplugInUse" \notin AfcEvents, [AfcNext]_afcVars
  PROVE  AfcInv' /\ (TransferInv /\ Calm => TransferInv')
<1>1. CASE UNCHANGED afcVars
  <2>1. UNCHANGED <<attached, afcDevices, m_openFile, m_apps, files, afcJob>>
    BY <1>1 DEF afcVars, afcDeviceVars, afcWorkerVars
  <2>2. NothingDangles'
    BY <2>1 DEF AfcInv, DeviceInv, NothingDangles
  <2> QED
    BY <2>1, <2>2, DeviceStepKeeps DEF AfcInv, DeviceInv
<1>2. ASSUME NEW d \in Device, AfcPlug(d) PROVE AfcInv' /\ (TransferInv => TransferInv')
  BY <1>2, AfcPlugKeeps
<1>3. ASSUME NEW d \in Device, AfcUnplug(d) PROVE AfcInv' /\ (TransferInv => TransferInv')
  BY <1>3, AfcUnplugKeeps
<1>4. CASE Lock \/ UpdateDeviceList
  BY <1>4, UpdateKeeps
<1>5. ASSUME NEW op \in AfcOps, NEW src \in AfcPath, NEW dest \in AfcPath, NEW o \in BOOLEAN, StartAfc(op, src, dest, o)
      PROVE  AfcInv' /\ (TransferInv => TransferInv')
  BY <1>5, StartAfcKeeps
<1>6. CASE Step
  <2>1. CASE ClientForUrl
    BY <2>1, ClientForUrlKeeps
  <2>2. CASE Entry
    BY <2>2, EntryKeeps
  <2>3. CASE AfcList
    BY <2>3, AfcListKeeps
  <2>4. CASE CheckDest
    BY <2>4, CheckDestKeeps
  <2>5. CASE OpenSource
    BY <2>5, OpenSourceKeeps
  <2>6. CASE OpenDest
    BY <2>6, OpenDestKeeps
  <2>7. CASE Reading
    BY <2>7, ReadingKeeps
  <2>8. CASE Cleanup
    BY <2>8, CleanupKeeps
  <2>9. CASE Receiving
    BY <2>9, ReceivingKeeps
  <2>10. CASE Closing \/ Passes
    BY <2>10, ClosingKeeps
  <2>11. CASE Names
    BY <2>11, NamesKeeps
  <2>12. CASE NamesFail
    BY <2>12, NamesFailKeeps
  <2>13. CASE Apps
    BY <2>13, AppsKeeps
  <2>14. CASE FileOp
    BY <2>14, FileOpKeeps
  <2> QED
    BY <1>6, <2>1, <2>2, <2>3, <2>4, <2>5, <2>6, <2>7, <2>8, <2>9, <2>10, <2>11, <2>12, <2>13, <2>14 DEF Step
<1> QED
  BY <1>1, <1>2, <1>3, <1>4, <1>5, <1>6 DEF AfcNext

(* As long as no device goes while a command is served for it (the thread  *)
(* of the device events takes devices away under m_mutex, but a command    *)
(* keeps its AfcDevice), the file that open() has left open and every app  *)
(* that is known are of a device that is there: removeDevice() forgets     *)
(* them, and no command brings them back.                                  *)
THEOREM AfcNothingDangles == ASSUME "unplugInUse" \notin AfcEvents PROVE AfcSpec => []NothingDangles
<1>1. AfcInit => AfcInv
  BY AfcStarts
<1>2. AfcInv /\ [AfcNext]_afcVars => AfcInv'
  BY AfcStep
<1>3. AfcInv => NothingDangles
  BY DEF AfcInv, DeviceInv
<1> QED
  BY <1>1, <1>2, <1>3, PTL DEF AfcSpec

(* get(), put() and copy() pass only when all there was has been read or   *)
(* written, what copy() leaves is what its source holds, and a copy that   *)
(* fails leaves no half-written file: for sources that stay as they are,   *)
(* clients of one container, no Resume of what is not the application's,   *)
(* a worker that is not killed and a device that answers the removal.      *)
THEOREM AfcIsRight == ASSUME AfcEvents = {} PROVE AfcSpec => []AfcRight
<1> DEFINE Inv == AfcInv /\ TransferInv
<1>1. AfcInit => Inv
  BY AfcStarts
<1>2. Inv /\ [AfcNext]_afcVars => Inv'
  <2>1. Calm /\ "unplugInUse" \notin AfcEvents
    BY DEF Calm
  <2> QED
    BY <2>1, AfcStep
<1>3. Inv => AfcRight
  <2> SUFFICES ASSUME AfcInv, TransferInv PROVE NothingDangles /\ TransferDone
    BY DEF AfcRight
  <2>1. NothingDangles
    BY DEF AfcInv, DeviceInv
  <2>2. TransferDone
    BY DEF TransferInv, TransferDone, AfcAt, Whole
  <2> QED
    BY <2>1, <2>2
<1> QED
  BY <1>1, <1>2, <1>3, PTL DEF AfcSpec

-----------------------------------------------------------------------------
(* Where a command that must not overwrite writes, nothing is. *)
FreeDest ==
  ~afcJob.overwrite /\ (afcJob.pc \in {"openDest", "rename", "mkdir"} \/ (afcJob.pc = "openSource" /\ afcJob.op = "copy")) =>
    files[Dest] = Nothing

LEMMA FreeDestStep == ASSUME AfcInv, FreeDest, [AfcNext]_afcVars PROVE FreeDest'
<1>0. afcJob \in AfcJobSet
  BY DEF AfcInv, AfcTypeInv
<1>1. CASE UNCHANGED <<files, afcJob>>
  BY <1>1 DEF FreeDest, Dest, ClientPath
<1>2. ASSUME NEW p \in AfcPcs, AfcGoto(p) \/ afcJob' = [afcJob EXCEPT !.pc = p, !.size = files[Src].len],
             ~(p \in {"openDest", "rename", "mkdir"} \/ (p = "openSource" /\ afcJob.op = "copy"))
      PROVE  FreeDest'
  <2>1. afcJob'.pc = p /\ afcJob'.op = afcJob.op
    BY <1>0, <1>2 DEF AfcGoto, AfcJobSet
  <2> QED
    BY <1>2, <2>1 DEF FreeDest
<1>3. CASE \E r \in {"pass", "fail", "redirected"} : AfcEnd(r)
  BY <1>0, <1>3, AfcEnds DEF FreeDest
<1>4. CASE ClientForUrl
  <2>1. afcJob.pc = "client" /\ afcJob.op \in AfcOps /\ (AfcGoto(FirstCall(afcJob.op)) \/ AfcEnd("fail"))
    BY <1>4 DEF ClientForUrl, AfcAt, AfcInv, FlowInv
  <2>2. FirstCall(afcJob.op) \in AfcPcs \ {"openDest", "rename", "mkdir", "openSource"}
    BY <2>1, AfcOpsAssumption DEF FirstCall, AfcPcs, AfcCalls, FileOps
  <2> QED
    BY <1>2, <1>3, <2>1, <2>2
<1>5. CASE Entry
  <2>1. /\ afcJob.op \in {"get", "open", "stat", "list", "copy", "rename", "symlink"}
        /\ \/ AfcEnd("fail") \/ AfcEnd("pass")
           \/ afcJob' = [afcJob EXCEPT !.pc = AfterEntry(afcJob.op), !.size = files[Src].len]
    BY <1>5 DEF Entry, AfcAt, AfcInv, FlowInv
  <2>2. AfterEntry(afcJob.op) \in AfcPcs \ {"openDest", "rename", "mkdir"} /\ (AfterEntry(afcJob.op) = "openSource" => afcJob.op # "copy")
    BY <2>1 DEF AfterEntry, AfcPcs, AfcCalls, FileOps
  <2> QED
    BY <1>2, <1>3, <2>1, <2>2
<1>6. CASE CheckDest
  <2> DEFINE q == CASE afcJob.op = "copy" -> "openSource" [] afcJob.op = "put" -> "openDest" [] OTHER -> afcJob.op
  <2>1. /\ afcJob.pc = "exists" /\ files' = files
        /\ AfcEnd("fail") \/ (AfcGoto(q) /\ (afcJob.overwrite \/ files[Dest] = Nothing))
    BY <1>6 DEF CheckDest, AfcAt, AfcExists
  <2>2. CASE AfcGoto(q) /\ (afcJob.overwrite \/ files[Dest] = Nothing)
    <3> HIDE DEF q
    <3>1. afcJob'.overwrite = afcJob.overwrite /\ Dest' = Dest
      BY <1>0, <2>2 DEF AfcGoto, AfcJobSet, Dest, ClientPath
    <3> QED
      BY <2>1, <2>2, <3>1 DEF FreeDest
  <2> QED
    BY <1>3, <2>1, <2>2
<1>7. CASE OpenSource
  <2>0. afcJob.pc = "openSource" /\ files' = files /\ afcJob.op \in {"get", "open", "copy"}
    BY <1>7 DEF OpenSource, AfcAt, AfcInv, FlowInv
  <2>1. AfcEnd("fail") \/ AfcEnd("pass") \/ (afcJob.op = "get" /\ AfcGoto("reading")) \/ (afcJob.op = "copy" /\ AfcGoto("openDest"))
    BY <1>7, <2>0 DEF OpenSource
  <2>2. CASE afcJob.op = "get" /\ AfcGoto("reading")
    <3>1. "reading" \in AfcPcs
      BY DEF AfcPcs
    <3> QED
      BY <1>2, <2>2, <3>1
  <2>3. CASE afcJob.op = "copy" /\ AfcGoto("openDest")
    <3>1. afcJob'.overwrite = afcJob.overwrite /\ Dest' = Dest
      BY <1>0, <2>3 DEF AfcGoto, AfcJobSet, Dest, ClientPath
    <3> QED
      BY <2>0, <2>3, <3>1 DEF FreeDest
  <2> QED
    BY <1>3, <2>1, <2>2, <2>3
<1>8. CASE OpenDest \/ Closing \/ Passes
  <2>1. AfcEnd("fail") \/ AfcEnd("pass") \/ AfcGoto("receiving") \/ AfcGoto("reading") \/ AfcGoto("passes")
    BY <1>8 DEF OpenDest, Closing, Passes
  <2>2. {"receiving", "reading", "passes"} \subseteq AfcPcs
    BY DEF AfcPcs
  <2> QED
    BY <1>2, <1>3, <2>1, <2>2
<1>9. CASE Reading
  <2>1. /\ afcJob.pc = "reading"
        /\ \/ AfcGoto("passes") \/ AfcGoto("closing") \/ AfcGoto("cleanup")
           \/ afcJob' = afcJob
           \/ \E n : afcJob' = [afcJob EXCEPT !.done = @ + n] \/ afcJob' = [afcJob EXCEPT !.done = @ + n, !.short = TRUE]
    BY <1>9 DEF Reading, ShortWrite, AfcAt
  <2>2. {"passes", "closing", "cleanup"} \subseteq AfcPcs
    BY DEF AfcPcs
  <2>3. CASE \/ afcJob' = afcJob
             \/ \E n : afcJob' = [afcJob EXCEPT !.done = @ + n] \/ afcJob' = [afcJob EXCEPT !.done = @ + n, !.short = TRUE]
    <3>1. afcJob'.pc = "reading"
      BY <1>0, <2>1, <2>3 DEF AfcJobSet
    <3> QED
      BY <3>1 DEF FreeDest
  <2> QED
    BY <1>2, <2>1, <2>2, <2>3
<1>10. CASE Receiving
  <2>1. afcJob'.pc \in {"receiving", "idle", "closing"}
    BY <1>0, <1>10 DEF Receiving, ShortWrite, AfcAt, AfcEnd, AfcJobSet
  <2> QED
    BY <2>1 DEF FreeDest
<1>11. CASE AfcList \/ Cleanup \/ Names \/ NamesFail \/ Apps \/ FileOp
  BY <1>3, <1>11 DEF AfcList, Cleanup, Names, NamesFail, Apps, FileOp
<1>12. ASSUME NEW op \in AfcOps, NEW src \in AfcPath, NEW dest \in AfcPath, NEW o \in BOOLEAN, StartAfc(op, src, dest, o)
       PROVE  FreeDest'
  <2> DEFINE pc == IF op \in FileOps \cup {"apps"} THEN op ELSE "client"
  <2>1. pc \notin {"openDest", "rename", "mkdir", "openSource"}
    BY DEF FileOps
  <2>2. afcJob' = [NoAfcJob EXCEPT !.pc = pc, !.op = op, !.src = src, !.dest = dest, !.overwrite = o]
    BY <1>12 DEF StartAfc
  <2> HIDE DEF pc
  <2>3. afcJob'.pc = pc
    BY <2>2 DEF NoAfcJob
  <2> QED
    BY <2>1, <2>3 DEF FreeDest
<1>13. CASE UNCHANGED afcVars
  BY <1>1, <1>13 DEF afcVars
<1>14. CASE (\E d \in Device : AfcPlug(d) \/ AfcUnplug(d)) \/ Lock \/ UpdateDeviceList
  BY <1>1, <1>14 DEF AfcPlug, AfcUnplug, Lock, UpdateDeviceList
<1> QED
  BY <1>4, <1>5, <1>6, <1>7, <1>8, <1>9, <1>10, <1>11, <1>12, <1>13, <1>14 DEF AfcNext, Step

(* Without the flag Overwrite, put(), copy(), rename() and mkdir() destroy *)
(* nothing at their destination: they get that far only when the device    *)
(* has answered that nothing is there, any other answer counts as a file.  *)
THEOREM AfcDestKept == ASSUME "unplugInUse" \notin AfcEvents PROVE AfcSpec => DestKept
<1> DEFINE Kept ==
      \A p \in AfcPath : ~afcJob.overwrite /\ (afcJob.op = "rename" => p # afcJob.src)
        /\ files[p] # Nothing /\ afcJob.pc \in {"openDest", "rename", "mkdir"} => files'[p] = files[p]
<1>1. AfcInit => AfcInv /\ FreeDest
  BY AfcStarts DEF AfcInit, NoAfcJob, FreeDest
<1>2. AfcInv /\ FreeDest /\ [AfcNext]_afcVars => AfcInv' /\ FreeDest'
  BY AfcStep, FreeDestStep
<1>3. AfcInv /\ FreeDest /\ [AfcNext]_afcVars => [Kept]_afcVars
  <2> SUFFICES ASSUME AfcInv, FreeDest, [AfcNext]_afcVars, ~afcJob.overwrite, afcJob.pc \in {"openDest", "rename", "mkdir"},
                      NEW p \in AfcPath, afcJob.op = "rename" => p # afcJob.src, files[p] # Nothing
               PROVE  files'[p] = files[p]
    OBVIOUS
  <2>1. /\ Dest \in AfcPath /\ Src = afcJob.src /\ files[Dest] = Nothing /\ p # Dest /\ Src \in AfcPath
        /\ files \in [AfcPath -> {Nothing} \cup AfcFile]
    BY OwnContainer DEF FreeDest, AfcInv, AfcTypeInv
  <2>2. afcJob.pc = "rename" => afcJob.op = "rename"
    BY DEF AfcInv, FlowInv, AfcCalls
  <2>3. CASE UNCHANGED files
    BY <2>3
  <2>4. CASE OpenDest
    <3> DEFINE f == File(IF afcJob.op = "put" THEN "new" ELSE files[Src].of, 0)
    <3>1. files' = files \/ files' = [files EXCEPT ![Dest] = f]
      BY <2>4 DEF OpenDest
    <3> HIDE DEF f
    <3> QED
      BY <2>1, <3>1
  <2>5. CASE Names
    <3>1. \/ (Rename /\ afcJob.pc = "rename") \/ AfcMkdir \/ UNCHANGED files
      BY <2>5 DEF Names, Rename, Del, Symlink, SetModificationTime, FreeSpace, AfcAt
    <3> DEFINE f == File("dir", 0)
               s == files[Src]
    <3>2. \/ files' = [files EXCEPT ![Src] = Nothing, ![Dest] = s] /\ p # Src
          \/ files' = [files EXCEPT ![Dest] = f]
          \/ files' = files
      BY <2>1, <2>2, <3>1 DEF Rename, AfcMkdir
    <3> HIDE DEF f, s
    <3> QED
      BY <2>1, <3>2
  <2>6. ASSUME NEW op \in AfcOps, NEW src \in AfcPath, NEW dest \in AfcPath, NEW o \in BOOLEAN, StartAfc(op, src, dest, o)
        PROVE  FALSE
    BY <2>6 DEF StartAfc, AfcAt
  <2>7. UNCHANGED files \/ OpenDest \/ Names \/ \E op \in AfcOps, src, dest \in AfcPath, o \in BOOLEAN : StartAfc(op, src, dest, o)
    <3>1. ~(Reading \/ Cleanup \/ Receiving \/ FileOp)
      BY DEF Reading, Cleanup, Receiving, FileOp, AfcAt, FileOps
    <3> QED
      BY <3>1 DEF AfcNext, Step, AfcPlug, AfcUnplug, Lock, UpdateDeviceList, ClientForUrl, Entry, AfcList, CheckDest, OpenSource,
                  Closing, Passes, NamesFail, Apps, afcVars
  <2> QED
    BY <2>3, <2>4, <2>5, <2>6, <2>7
<1>4. [][Kept]_afcVars => DestKept
  BY DEF DestKept
<1> QED
  BY <1>1, <1>2, <1>3, <1>4, PTL DEF AfcSpec

-----------------------------------------------------------------------------
(* File name search: paths and places                                      *)

(* What paths are made of.                                                 *)
PathsKnown == Places \cup {e.path : e \in Tree}
Glyph == {Sep} \cup UNION {Range(p) : p \in PathsKnown}
Text == Seq(Glyph)

LEMMA SmallerSeq == ASSUME NEW S, NEW T, S \subseteq T PROVE Seq(S) \subseteq Seq(T)
<1> SUFFICES ASSUME NEW s \in Seq(S) PROVE s \in Seq(T)
  OBVIOUS
<1>1. Len(s) \in Nat /\ s \in [1 .. Len(s) -> S]
  BY LenProperties
<1>2. s \in [1 .. Len(s) -> T]
  BY <1>1
<1> QED
  BY <1>1, <1>2, SeqDef

LEMMA KnownIsText ==
  /\ \A p \in Places : p \in Text /\ p # NoLink
  /\ \A e \in Tree : e.path \in Text /\ e.path # << >> /\ Last(e.path) # Sep
<1>1. \A p \in PathsKnown : p \in Seq(Range(p))
  BY TreeAssumption DEF TreeAssumption, PathsKnown
<1>2. \A p \in PathsKnown : Range(p) \subseteq Glyph
  BY DEF Glyph
<1>3. \A p \in PathsKnown : p \in Text
  BY <1>1, <1>2, SmallerSeq DEF Text
<1>4. \A p \in Places : p # NoLink
  BY TreeAssumption DEF TreeAssumption, Places
<1> QED
  BY <1>3, <1>4, TreeAssumption DEF TreeAssumption, PathsKnown

LEMMA PrefixIs ==
  ASSUME NEW s \in Text, NEW t \in Text
  PROVE  IsPrefix(s, t) <=> Len(s) <= Len(t) /\ \A i \in 1 .. Len(s) : s[i] = t[i]
<1>1. Len(s) \in Nat /\ Len(t) \in Nat
  BY LenProperties DEF Text
<1>2. SubSeq(s, 1, Len(s)) = s
  BY SubSeqFull DEF Text
<1>3. ASSUME Len(s) <= Len(t)
      PROVE  /\ Len(SubSeq(t, 1, Len(s))) = Len(s) /\ SubSeq(t, 1, Len(s)) \in Text
             /\ \A i \in 1 .. Len(s) : SubSeq(t, 1, Len(s))[i] = t[i]
  <2>1. \A i \in 1 .. Len(s) : t[i] \in Glyph
    BY <1>1, <1>3, ElementOfSeq DEF Text
  <2> DEFINE u == SubSeq(t, 1, Len(s))
  <2>2. u \in Seq(Glyph) /\ Len(u) = Len(s) /\ \A i \in 1 .. Len(s) : u[i] = t[i]
    BY <1>1, <1>3, <2>1, SubSeqProperties DEF Text
  <2> QED
    BY <2>2 DEF Text
<1>4. ASSUME Len(s) <= Len(t), \A i \in 1 .. Len(s) : s[i] = t[i] PROVE s = SubSeq(t, 1, Len(s))
  BY <1>1, <1>3, <1>4, SeqEqual DEF Text
<1> QED
  BY <1>2, <1>3, <1>4 DEF IsPrefix

LEMMA PrefixOrder ==
  ASSUME NEW s \in Text, NEW t \in Text, NEW u \in Text
  PROVE  /\ IsPrefix(s, s)
         /\ IsPrefix(s, t) /\ IsPrefix(t, u) => IsPrefix(s, u)
         /\ IsPrefix(s, u) /\ IsPrefix(t, u) => IsPrefix(s, t) \/ IsPrefix(t, s)
<1>1. Len(s) \in Nat /\ Len(t) \in Nat /\ Len(u) \in Nat
  BY LenProperties DEF Text
<1> QED
  BY <1>1, PrefixIs

(* A path that ends with a separator begins no shorter path that ends      *)
(* without.                                                                *)
LEMMA SlashedIs ==
  ASSUME NEW p \in Text
  PROVE  /\ Slashed(p) \in Text /\ Slashed(p) # << >> /\ Last(Slashed(p)) = Sep
         /\ IsPrefix(p, Slashed(p))
<1>1. CASE p # << >> /\ Last(p) = Sep
  <2>1. IsPrefix(p, p)
    BY PrefixOrder
  <2> QED
    BY <1>1, <2>1 DEF Slashed
<1>2. CASE ~(p # << >> /\ Last(p) = Sep)
  <2> DEFINE s == p \o <<Sep>>
  <2>1. <<Sep>> \in Seq(Glyph) /\ Len(<<Sep>>) = 1 /\ <<Sep>>[1] = Sep /\ Len(p) \in Nat /\ p \in Seq(Glyph)
    BY LenProperties DEF Glyph, Text
  <2>2. s \in Seq(Glyph) /\ Len(s) = Len(p) + 1 /\ s[Len(p) + 1] = Sep /\ \A i \in 1 .. Len(p) : s[i] = p[i]
    BY <2>1, ConcatProperties
  <2>3. Slashed(p) = s
    BY <1>2 DEF Slashed
  <2> HIDE DEF s
  <2>4. s # << >> /\ Last(s) = Sep
    BY <2>1, <2>2 DEF Last
  <2>5. IsPrefix(p, s)
    BY <2>1, <2>2, PrefixIs DEF Text
  <2> QED
    BY <2>2, <2>3, <2>4, <2>5 DEF Text
<1> QED
  BY <1>1, <1>2

LEMMA PrefixEnds ==
  ASSUME NEW s \in Text, NEW t \in Text, IsPrefix(s, t), IsPrefix(t, s)
  PROVE  s = t
<1>1. Len(s) \in Nat /\ Len(t) \in Nat
  BY LenProperties DEF Text
<1>2. Len(s) = Len(t) /\ \A i \in 1 .. Len(s) : s[i] = t[i]
  BY <1>1, PrefixIs
<1> QED
  BY <1>2, SeqEqual DEF Text

(* What is inside a folder has a path that begins with the folder's, and   *)
(* is not that folder.                                                     *)
LEMMA InsideIs ==
  ASSUME NEW e \in Tree, NEW p \in Text, Inside(e.path, p)
  PROVE  /\ IsPrefix(p, e.path) /\ Slashed(p) # e.path /\ p # e.path
         /\ IsPrefix(Slashed(p), e.path)
<1>1. IsPrefix(Slashed(p), e.path) /\ e.path \in Text /\ e.path # << >> /\ Last(e.path) # Sep
  BY KnownIsText DEF Inside
<1>2. Slashed(p) \in Text /\ IsPrefix(p, Slashed(p)) /\ Last(Slashed(p)) = Sep
  BY SlashedIs
<1>3. IsPrefix(p, e.path)
  BY <1>1, <1>2, PrefixOrder
<1>4. p # e.path
  <2> SUFFICES ASSUME p = e.path PROVE FALSE
    OBVIOUS
  <2>1. Slashed(p) = p
    BY <1>1, <1>2, PrefixEnds
  <2> QED
    BY <1>1, <1>2, <2>1
<1> QED
  BY <1>1, <1>2, <1>3, <1>4

LEMMA InsideInside ==
  ASSUME NEW e \in Tree, NEW d \in Tree, NEW p \in Text, Inside(e.path, d.path), Inside(d.path, p)
  PROVE  Inside(e.path, p)
<1>1. e.path \in Text /\ d.path \in Text /\ Slashed(p) \in Text
  BY KnownIsText, SlashedIs
<1>2. IsPrefix(d.path, e.path) /\ IsPrefix(Slashed(p), d.path)
  BY <1>1, InsideIs
<1> QED
  BY <1>1, <1>2, PrefixOrder DEF Inside

LEMMA SamePlace ==
  ASSUME NEW p, NEW q, Slashed(p) = Slashed(q)
  PROVE  Under(p) = Under(q) /\ ComesUpon(p) = ComesUpon(q)
BY DEF Under, ComesUpon, Inside, Skipped

(* An entry that nothing barred stands before is listed with every place   *)
(* it is in.                                                               *)
LEMMA ClearUnder ==
  ASSUME NEW e \in Tree, Clear(e), NEW p, NEW q \in Text, e \in Under(p), Inside(e.path, q)
  PROVE  e \in Under(q)
<1>1. ASSUME NEW d \in Tree, Inside(e.path, d.path) PROVE Enters(d) /\ d \in Folders /\ MayEnter(d)
  <2>1. d.kind = "dir"
    BY <1>1, TreeAssumption DEF TreeAssumption
  <2>2. IsPrefix(d.path, e.path) /\ d.path # e.path
    BY <1>1, InsideIs, KnownIsText
  <2>3. d \in Folders
    BY <2>1 DEF Folders
  <2>4. MayEnter(d)
    BY <2>2, <2>3 DEF Clear
  <2> QED
    BY <2>1, <2>3, <2>4 DEF MayEnter, Enters
<1>2. e.hidden => Hidden # {}
  BY DEF Under
<1> QED
  BY <1>1, <1>2 DEF Under

(* A folder that stands between a place and an entry listed with it is     *)
(* listed with it too.                                                     *)
LEMMA BetweenUnder ==
  ASSUME NEW p \in Text, NEW e \in Under(p), NEW d \in Tree, Inside(d.path, p), Inside(e.path, d.path)
  PROVE  d \in Under(p)
<1>1. e \in Tree /\ Enters(d)
  BY DEF Under
<1>2. ASSUME NEW c \in Tree, Inside(c.path, p), Inside(d.path, c.path) PROVE Enters(c)
  <2>1. Inside(e.path, c.path)
    BY <1>1, <1>2, InsideInside, KnownIsText
  <2> QED
    BY <1>2, <2>1 DEF Under
<1> QED
  BY <1>1, <1>2 DEF Under, Enters

(* Where links lead.                                                       *)
LEMMA FollowPlaces == ASSUME NEW es \in SUBSET Tree PROVE Follow(es) \subseteq Places
BY DEF Follow, Places

LEMMA ReachedPlaces ==
  ASSUME NEW es
  PROVE  /\ PlacesReached(es) \subseteq Places /\ RootPath \in PlacesReached(es)
         /\ \A d \in PlacesReached(es) : Reads(d) => Follow(ComesUpon(d) \cap es) \subseteq PlacesReached(es)
         /\ \A S \in SUBSET Places : RootPath \in S /\ (\A d \in S : Reads(d) => Follow(ComesUpon(d) \cap es) \subseteq S) => PlacesReached(es) \subseteq S
<1>1. PlacesReached(es) \subseteq Places /\ RootPath \in PlacesReached(es)
  BY DEF PlacesReached, Places
<1>2. ASSUME NEW d \in PlacesReached(es), Reads(d), NEW p \in Follow(ComesUpon(d) \cap es) PROVE p \in PlacesReached(es)
  <2>1. ComesUpon(d) \cap es \in SUBSET Tree
    BY DEF ComesUpon, Under
  <2>2. p \in Places
    BY <2>1, FollowPlaces
  <2>3. ASSUME NEW S \in SUBSET Places, RootPath \in S, \A c \in S : Reads(c) => Follow(ComesUpon(c) \cap es) \subseteq S PROVE p \in S
    <3>1. d \in S
      BY <2>3 DEF PlacesReached
    <3> QED
      BY <1>2, <2>3, <3>1
  <2> QED
    BY <2>2, <2>3 DEF PlacesReached
<1>3. ASSUME NEW S \in SUBSET Places, RootPath \in S, \A d \in S : Reads(d) => Follow(ComesUpon(d) \cap es) \subseteq S
      PROVE  PlacesReached(es) \subseteq S
  BY <1>3 DEF PlacesReached
<1> QED
  BY <1>1, <1>2, <1>3

-----------------------------------------------------------------------------
(* The internal search                                                     *)

(* Nothing the tool has printed is among what was reported.                *)
NoOutput == toolPc \in {"none", "missing"}

SearchPhase ==
  /\ searchPc \in {"tool", "search", "done", "failed"} /\ toolPc \in {"none", "running", "success", "error", "missing"}
  /\ printed \in Nat /\ output \in Seq(Range(Output))
  /\ searchPc = "tool" => iterated = {} /\ pending = <<RootPath>> /\ listing = NoLink
  /\ searchPc = "search" => NoOutput
  /\ toolPc = "running" => searchPc = "tool"
  /\ NoOutput => printed = 0
  /\ printed = 0 => output = << >> /\ (searchPc = "tool" => listed = << >>)
  /\ searchPc = "done" /\ NoOutput /\ "internal" \in SearchSrc => pending = << >> /\ listing = NoLink

(* A directory that is listed has not been; what was marked is a place, or *)
(* a folder that may not be entered; such a folder comes before what is in *)
(* it.                                                                     *)
ListingSound ==
  /\ pending \in Seq(PlacesReached(Tree)) /\ iterated \subseteq Text
  /\ listing = NoLink => todo = {}
  /\ listing # NoLink => /\ listing \in PlacesReached(Tree) /\ Reads(listing) /\ Slashed(listing) \notin iterated
                         /\ todo \subseteq Under(listing)
  /\ \A p \in iterated : (\E d \in Places : p = Slashed(d)) \/ (\E d \in Folders : ~MayEnter(d) /\ p = d.path)
  /\ ~Skipped(listing) => \A e \in todo : \A d \in Folders :
       ~MayEnter(d) /\ Inside(d.path, listing) /\ Inside(e.path, d.path) => d \in todo \/ HasBeenVisited(d.path)

(* What was reported will be found visited, or is of this listing and will *)
(* not come again.                                                         *)
ReportedOnce ==
  NoOutput =>
    /\ listed \in Seq(Text) /\ IsInjective(listed) /\ Range(listed) \subseteq MayReport
    /\ \A e \in Tree : e.path \in Range(listed) => HasBeenVisited(e.path) \/ (listing # NoLink /\ e \in Under(listing) \ todo)

(* A place is in line, or listed, or it was; and of what was listed each   *)
(* entry that is sought is reported and followed.                          *)
Handled(d) ==
  d \in Range(pending) \/ (listing # NoLink /\ Slashed(d) = Slashed(listing)) \/ Slashed(d) \in iterated \/ ~Reads(d)
Settled(e) ==
  /\ Reported(e) => e.path \in Range(listed)
  /\ e \in Folders /\ MayEnter(e) /\ e.dest # NoLink => Handled(e.dest)
NothingMissed ==
  NoOutput =>
    /\ Handled(RootPath)
    /\ \A d \in Places : Slashed(d) \in iterated => \A e \in Under(d) : Sought(e) => Settled(e)
    /\ listing # NoLink => \A e \in Under(listing) \ todo : Sought(e) => Settled(e)
    /\ \A d \in Folders : ~MayEnter(d) /\ d.path \in iterated /\ Reported(d) => d.path \in Range(listed)

SearchInv == SearchPhase /\ ListingSound /\ ReportedOnce /\ NothingMissed

LEMMA AppendRange ==
  ASSUME NEW S, NEW s \in Seq(S), NEW x \in S
  PROVE  /\ Append(s, x) \in Seq(S) /\ Range(Append(s, x)) = Range(s) \cup {x}
         /\ IsInjective(s) /\ x \notin Range(s) => IsInjective(Append(s, x))
<1> DEFINE t == Append(s, x)
<1>1. Len(s) \in Nat /\ DOMAIN s = 1 .. Len(s)
  BY LenProperties
<1>2. t \in Seq(S) /\ Len(t) = Len(s) + 1 /\ t[Len(s) + 1] = x /\ \A i \in 1 .. Len(s) : t[i] = s[i]
  BY AppendProperties
<1> HIDE DEF t
<1>3. DOMAIN t = 1 .. Len(s) + 1
  BY <1>2, LenProperties
<1>4. Range(t) = Range(s) \cup {x}
  <2>1. ASSUME NEW y \in Range(t) PROVE y \in Range(s) \cup {x}
    <3>1. PICK i \in 1 .. Len(s) + 1 : y = t[i]
      BY <1>3, <2>1 DEF Range
    <3>2. i = Len(s) + 1 \/ i \in 1 .. Len(s)
      BY <1>1, <3>1
    <3> QED
      BY <1>1, <1>2, <3>1, <3>2 DEF Range
  <2>2. x \in Range(t)
    <3>1. Len(s) + 1 \in 1 .. Len(s) + 1
      BY <1>1
    <3> QED
      BY <1>2, <1>3, <3>1 DEF Range
  <2>3. ASSUME NEW i \in 1 .. Len(s) PROVE s[i] \in Range(t)
    <3>1. i \in 1 .. Len(s) + 1
      BY <1>1
    <3> QED
      BY <1>2, <1>3, <3>1 DEF Range
  <2> QED
    BY <1>1, <2>1, <2>2, <2>3 DEF Range
<1>5. ASSUME IsInjective(s), x \notin Range(s) PROVE IsInjective(t)
  <2> SUFFICES ASSUME NEW i \in 1 .. Len(s) + 1, NEW j \in 1 .. Len(s) + 1, t[i] = t[j] PROVE i = j
    BY <1>3 DEF IsInjective
  <2>1. \A k \in 1 .. Len(s) : s[k] # x
    BY <1>1, <1>5 DEF Range
  <2>2. i \in 1 .. Len(s) /\ j \in 1 .. Len(s) => i = j
    BY <1>1, <1>2, <1>5 DEF IsInjective
  <2> QED
    BY <1>1, <1>2, <2>1, <2>2
<1> QED
  BY <1>2, <1>4, <1>5 DEF t

LEMMA SearchStarts == SearchInit => SearchInv
<1> SUFFICES ASSUME SearchInit PROVE SearchInv
  OBVIOUS
<1>1. RootPath \in PlacesReached(Tree) /\ RootPath \in Places
  BY ReachedPlaces
<1> DEFINE p == <<RootPath>>
<1>2. pending = p /\ p \in Seq(PlacesReached(Tree)) /\ DOMAIN p = {1} /\ p[1] = RootPath
  BY <1>1 DEF SearchInit
<1>3. iterated = {} /\ listing = NoLink /\ todo = {} /\ listed = << >> /\ toolPc = "none" /\ printed = 0 /\ output = << >>
  BY DEF SearchInit
<1>4. searchPc \in {"tool", "search", "done"} /\ (searchPc = "done" => "internal" \notin SearchSrc)
  BY DEF SearchInit
<1>5. SearchPhase
  BY <1>2, <1>3, <1>4 DEF SearchPhase, NoOutput
<1> HIDE DEF p
<1>6. RootPath \in Range(pending)
  BY <1>2 DEF Range
<1>7. ListingSound
  BY <1>2, <1>3 DEF ListingSound
<1>8. Range(listed) = {} /\ listed \in Seq(Text) /\ IsInjective(listed)
  BY <1>3 DEF Range, IsInjective
<1> QED
  BY <1>3, <1>5, <1>6, <1>7, <1>8 DEF SearchInv, ReportedOnce, NothingMissed, Handled

LEMMA SettledKept ==
  ASSUME NEW e \in Tree, Settled(e), Range(listed) \subseteq Range(listed'),
         \A d \in Places : Handled(d) => Handled(d)'
  PROVE  Settled(e)'
<1>1. e.dest # NoLink => e.dest \in Places
  BY DEF Places
<1>2. PICK d : d = e.dest
  OBVIOUS
<1>3. e \in Folders /\ MayEnter(e) /\ d # NoLink => Handled(d)'
  BY <1>1, <1>2 DEF Settled
<1>4. Reported(e) => e.path \in Range(listed')
  BY DEF Settled
<1> QED
  BY <1>2, <1>3, <1>4 DEF Settled, Handled

LEMMA SoughtKept ==
  ASSUME missed \subseteq missed'
  PROVE  \A e \in Tree : Sought(e)' => Sought(e)
BY DEF Sought

LEMMA VisitedKept ==
  ASSUME iterated \subseteq iterated', NEW p, HasBeenVisited(p)
  PROVE  HasBeenVisited(p)'
BY DEF HasBeenVisited

(* An entry that was found visited needs no more.                          *)
LEMMA VisitedSettled ==
  ASSUME ListingSound, NothingMissed, NoOutput,
         NEW p, NEW e \in Under(p), Sought(e), HasBeenVisited(e.path)
  PROVE  Settled(e)
<1>1. e \in Tree /\ Clear(e)
  BY DEF Under, Sought
<1>2. PICK q \in iterated : IsPrefix(q, e.path)
  BY DEF HasBeenVisited
<1>3. CASE \E d \in Places : q = Slashed(d)
  <2>1. PICK d \in Places : q = Slashed(d)
    BY <1>3
  <2>2. e \in Under(d)
    BY <1>1, <1>2, <2>1, ClearUnder, KnownIsText DEF Inside
  <2> QED
    BY <1>2, <2>1, <2>2 DEF NothingMissed
<1>4. CASE \E d \in Folders : ~MayEnter(d) /\ q = d.path
  <2>1. PICK d \in Folders : ~MayEnter(d) /\ q = d.path
    BY <1>4
  <2>2. d = e
    BY <1>1, <1>2, <2>1 DEF Clear
  <2> QED
    BY <1>2, <2>1, <2>2 DEF NothingMissed, Settled
<1> QED
  BY <1>2, <1>3, <1>4 DEF ListingSound

LEMMA ListedEntryKeeps == ASSUME SearchInv, ListedEntry PROVE SearchInv'
<1>1. /\ listing # NoLink /\ searchPc' = searchPc /\ listing' = listing /\ toolPc' = toolPc /\ printed' = printed /\ output' = output /\ missed' = missed
  BY DEF ListedEntry, toolVars
<1>2. PICK e \in todo :
        /\ \A d \in todo : ~Inside(e.path, d.path)
        /\ todo' = todo \ {e}
        /\ IF Skipped(listing) \/ HasBeenVisited(e.path) THEN UNCHANGED <<iterated, pending, listed>>
           ELSE /\ pending' = Enqueued(e) /\ iterated' = Marked(e)
                /\ listed' = IF Reported(e) THEN Append(listed, e.path) ELSE listed
  BY DEF ListedEntry
<1>3. /\ searchPc # "tool" /\ listing \in Places /\ listing \in Text /\ listing \in PlacesReached(Tree) /\ Reads(listing)
      /\ Slashed(listing) \notin iterated /\ todo \subseteq Under(listing) /\ e \in Under(listing) /\ e \in Tree /\ e.path \in Text
  BY <1>1, <1>2, ReachedPlaces, KnownIsText DEF SearchInv, SearchPhase, ListingSound, Under
<1>4. NoOutput' = NoOutput
  BY <1>1 DEF NoOutput
<1>5. SearchPhase'
  BY <1>1, <1>3, <1>4 DEF SearchInv, SearchPhase
<1>6. e.path # Slashed(listing) /\ Inside(e.path, listing)
  BY <1>3, InsideIs DEF Under
<1>7. \A f \in Tree : Sought(f)' => Sought(f)
  BY <1>1, SoughtKept
<1>8. CASE Skipped(listing) \/ HasBeenVisited(e.path)
  <2>1. iterated' = iterated /\ pending' = pending /\ listed' = listed
    BY <1>2, <1>8
  <2>2. \A p : HasBeenVisited(p) => HasBeenVisited(p)'
    BY <2>1, VisitedKept
  <2>3. ASSUME ~Skipped(listing), NEW f \in todo', NEW d \in Folders, ~MayEnter(d), Inside(d.path, listing), Inside(f.path, d.path)
        PROVE  d \in todo' \/ HasBeenVisited(d.path)'
    <3>1. d \in todo \/ HasBeenVisited(d.path)
      BY <1>2, <2>3 DEF SearchInv, ListingSound
    <3> QED
      BY <1>2, <1>8, <2>2, <2>3, <3>1
  <2>4. ListingSound'
    BY <1>1, <1>2, <2>1, <2>3 DEF SearchInv, ListingSound
  <2>5. \A f \in Tree : HasBeenVisited(f.path)' = HasBeenVisited(f.path)
    BY <2>1 DEF HasBeenVisited
  <2>6. ReportedOnce'
    BY <1>1, <1>2, <1>4, <2>1, <2>5 DEF SearchInv, ReportedOnce
  <2>7. \A d : Handled(d)' = Handled(d)
    BY <1>1, <2>1 DEF Handled
  <2>8. \A f \in Tree : Settled(f) => Settled(f)'
    BY <2>1, <2>7, SettledKept
  <2>9. NoOutput /\ Sought(e) => Settled(e)
    <3>1. CASE Skipped(listing)
      BY <1>3, <1>6, <3>1 DEF Sought, InSkipped
    <3> QED
      BY <1>3, <1>8, <3>1, VisitedSettled DEF SearchInv
  <2>10. \A d : Under(d) \subseteq Tree
    BY DEF Under
  <2>11. NothingMissed'
    <3> SUFFICES ASSUME NoOutput PROVE NothingMissed'
      BY <1>4 DEF NothingMissed
    <3>1. Handled(RootPath)'
      BY <2>7 DEF SearchInv, NothingMissed
    <3>2. \A d \in Places : Slashed(d) \in iterated' => \A f \in Under(d) : Sought(f)' => Settled(f)'
      BY <1>7, <2>1, <2>8, <2>10 DEF SearchInv, NothingMissed
    <3>3. \A f \in Under(listing) \ todo' : Sought(f)' => Settled(f)'
      BY <1>1, <1>2, <1>7, <2>8, <2>9, <2>10 DEF SearchInv, NothingMissed
    <3>4. \A d \in Folders : ~MayEnter(d) /\ d.path \in iterated' /\ Reported(d) => d.path \in Range(listed')
      BY <2>1 DEF SearchInv, NothingMissed
    <3> QED
      BY <1>1, <3>1, <3>2, <3>3, <3>4 DEF NothingMissed
  <2> QED
    BY <1>5, <2>4, <2>6, <2>11 DEF SearchInv
<1>9. CASE ~Skipped(listing) /\ ~HasBeenVisited(e.path)
  <2>1. pending' = Enqueued(e) /\ iterated' = Marked(e) /\ listed' = IF Reported(e) THEN Append(listed, e.path) ELSE listed
    BY <1>2, <1>9
  <2>2. iterated' \subseteq iterated \cup {e.path} /\ iterated \subseteq iterated' /\ (e.path \in iterated' <=> e \in Folders /\ ~MayEnter(e))
    <3>1. e.path \notin iterated
      BY <1>3, <1>9, PrefixOrder DEF HasBeenVisited
    <3> QED
      BY <2>1, <3>1 DEF Marked
  <2>3. e \in ComesUpon(listing)
    <3> SUFFICES ASSUME NEW d \in Folders, Inside(d.path, listing), Inside(e.path, d.path), ~MayEnter(d) PROVE FALSE
      BY <1>3, <1>9 DEF ComesUpon
    <3>1. HasBeenVisited(d.path)
      BY <1>2, <1>9 DEF SearchInv, ListingSound
    <3>2. PICK q \in iterated : IsPrefix(q, d.path)
      BY <3>1 DEF HasBeenVisited
    <3>3. d \in Tree /\ d.path \in Text /\ q \in Text
      BY <3>2, KnownIsText DEF Folders, SearchInv, ListingSound
    <3>4. IsPrefix(d.path, e.path)
      BY <1>3, <3>3, InsideIs
    <3>5. IsPrefix(q, e.path)
      BY <1>3, <3>2, <3>3, <3>4, PrefixOrder
    <3> QED
      BY <1>9, <3>2, <3>5 DEF HasBeenVisited
  <2>4. e \in Folders /\ MayEnter(e) /\ e.dest # NoLink => e.dest \in PlacesReached(Tree)
    <3>1. e \in ComesUpon(listing) \cap Tree
      BY <1>3, <2>3
    <3>2. e \in Folders /\ MayEnter(e) /\ e.dest # NoLink => e.dest \in Follow(ComesUpon(listing) \cap Tree)
      BY <3>1 DEF Follow
    <3> QED
      BY <1>3, <3>2, ReachedPlaces
  <2>5. /\ pending' \in Seq(PlacesReached(Tree)) /\ Range(pending) \subseteq Range(pending')
        /\ e \in Folders /\ MayEnter(e) /\ e.dest # NoLink => e.dest \in Range(pending')
    <3>1. pending \in Seq(PlacesReached(Tree))
      BY DEF SearchInv, ListingSound
    <3> QED
      BY <2>1, <2>4, <3>1, AppendRange DEF Enqueued
  <2>6. \A p : HasBeenVisited(p) => HasBeenVisited(p)'
    BY <2>2, VisitedKept
  <2>7. ASSUME NEW f \in todo', NEW d \in Folders, ~MayEnter(d), Inside(d.path, listing), Inside(f.path, d.path)
        PROVE  d \in todo' \/ HasBeenVisited(d.path)'
    <3>1. d \in todo \/ HasBeenVisited(d.path)
      BY <1>2, <1>9, <2>7 DEF SearchInv, ListingSound
    <3>2. d = e => HasBeenVisited(d.path)'
      BY <1>3, <2>2, <2>7, PrefixOrder DEF HasBeenVisited
    <3> QED
      BY <1>2, <2>6, <3>1, <3>2
  <2>8. \A p \in iterated' : (\E d \in Places : p = Slashed(d)) \/ (\E d \in Folders : ~MayEnter(d) /\ p = d.path)
    BY <2>2 DEF SearchInv, ListingSound
  <2>9. Slashed(listing) \notin iterated' /\ iterated' \subseteq Text
    BY <1>3, <1>6, <2>2 DEF SearchInv, ListingSound
  <2>10. ListingSound'
    BY <1>1, <1>2, <1>3, <2>5, <2>7, <2>8, <2>9 DEF ListingSound
  <2>11. NoOutput => /\ listed' \in Seq(Text) /\ IsInjective(listed') /\ Range(listed') \subseteq MayReport /\ Range(listed) \subseteq Range(listed')
                     /\ Range(listed') \subseteq Range(listed) \cup {e.path} /\ (Reported(e) => e.path \in Range(listed'))
    <3> SUFFICES ASSUME NoOutput PROVE /\ listed' \in Seq(Text) /\ IsInjective(listed') /\ Range(listed') \subseteq MayReport /\ Range(listed) \subseteq Range(listed')
                     /\ Range(listed') \subseteq Range(listed) \cup {e.path} /\ (Reported(e) => e.path \in Range(listed'))
      OBVIOUS
    <3>1. listed \in Seq(Text) /\ IsInjective(listed) /\ Range(listed) \subseteq MayReport
      BY DEF SearchInv, ReportedOnce
    <3>2. e.path \notin Range(listed)
      BY <1>2, <1>3, <1>9 DEF SearchInv, ReportedOnce
    <3>3. Reported(e) => e.path \in MayReport
      <4>1. listing \in {p \in PlacesReached(Tree) : Reads(p)}
        BY <1>3
      <4>2. e \in UNION {ComesUpon(d) \cap Tree : d \in {p \in PlacesReached(Tree) : Reads(p)}}
        BY <1>3, <2>3, <4>1
      <4> QED
        BY <4>2 DEF MayReport, Matching
    <3>4. CASE Reported(e)
      <4>1. listed' = Append(listed, e.path)
        BY <2>1, <3>4
      <4> QED
        BY <1>3, <3>1, <3>2, <3>3, <3>4, <4>1, AppendRange
    <3>5. CASE ~Reported(e)
      BY <2>1, <3>1, <3>5
    <3> QED
      BY <3>4, <3>5
  <2>12. ReportedOnce'
    <3> SUFFICES ASSUME NoOutput PROVE ReportedOnce'
      BY <1>4 DEF ReportedOnce
    <3>1. ASSUME NEW f \in Tree, f.path \in Range(listed') PROVE HasBeenVisited(f.path)' \/ f \in Under(listing) \ todo'
      <4>1. CASE f.path = e.path
        <5>1. f = e
          BY <1>3, <4>1, TreeAssumption DEF TreeAssumption
        <5> QED
          BY <1>2, <1>3, <5>1
      <4>2. CASE f.path \in Range(listed)
        BY <1>2, <2>6, <4>2 DEF SearchInv, ReportedOnce
      <4> QED
        BY <2>11, <3>1, <4>1, <4>2
    <3> QED
      BY <1>1, <2>11, <3>1 DEF ReportedOnce
  <2>13. NothingMissed'
    <3> SUFFICES ASSUME NoOutput PROVE NothingMissed'
      BY <1>4 DEF NothingMissed
    <3>1. \A d : Handled(d) => Handled(d)'
      BY <1>1, <2>2, <2>5 DEF Handled
    <3>2. \A f \in Tree : Settled(f) => Settled(f)'
      BY <2>11, <3>1, SettledKept
    <3>3. Settled(e)'
      <4>1. PICK d : d = e.dest
        OBVIOUS
      <4>2. e \in Folders /\ MayEnter(e) /\ d # NoLink => Handled(d)'
        BY <2>5, <4>1 DEF Handled
      <4> QED
        BY <2>11, <4>1, <4>2 DEF Settled, Handled
    <3>4. \A d : Under(d) \subseteq Tree
      BY DEF Under
    <3>5. ASSUME NEW d \in Places, Slashed(d) \in iterated', NEW f \in Under(d), Sought(f)' PROVE Settled(f)'
      <4>1. Slashed(d) # e.path
        BY <1>3, KnownIsText, SlashedIs
      <4>2. Slashed(d) \in iterated
        BY <2>2, <3>5, <4>1
      <4> QED
        BY <1>7, <3>2, <3>4, <3>5, <4>2 DEF SearchInv, NothingMissed
    <3>6. \A f \in Under(listing) \ todo' : Sought(f)' => Settled(f)'
      BY <1>1, <1>2, <1>7, <3>2, <3>3, <3>4 DEF SearchInv, NothingMissed
    <3>7. ASSUME NEW d \in Folders, ~MayEnter(d), d.path \in iterated', Reported(d) PROVE d.path \in Range(listed')
      <4>1. CASE d.path = e.path
        <5>1. d = e
          BY <1>3, <4>1, TreeAssumption DEF TreeAssumption, Folders
        <5> QED
          BY <2>11, <3>7, <5>1
      <4>2. CASE d.path \in iterated
        BY <2>11, <3>7, <4>2 DEF SearchInv, NothingMissed
      <4> QED
        BY <2>2, <3>7, <4>1, <4>2
    <3>8. Handled(RootPath)'
      BY <3>1 DEF SearchInv, NothingMissed
    <3> QED
      BY <1>1, <3>5, <3>6, <3>7, <3>8 DEF NothingMissed
  <2> QED
    BY <1>5, <2>10, <2>12, <2>13 DEF SearchInv
<1> QED
  BY <1>8, <1>9

LEMMA RangeOfRest ==
  ASSUME NEW S, NEW s \in Seq(S), s # << >>
  PROVE  Head(s) \in S /\ Tail(s) \in Seq(S) /\ Range(s) \subseteq {Head(s)} \cup Range(Tail(s))
<1>1. Head(s) \in S /\ Tail(s) \in Seq(S) /\ Len(Tail(s)) = Len(s) - 1 /\ \A i \in 1 .. Len(Tail(s)) : Tail(s)[i] = s[i + 1]
  BY HeadTailProperties
<1>2. Len(s) \in Nat \ {0} /\ DOMAIN s = 1 .. Len(s) /\ DOMAIN Tail(s) = 1 .. Len(s) - 1 /\ Head(s) = s[1]
  <2>1. Len(s) \in Nat /\ Len(s) # 0
    BY LenProperties, EmptySeq
  <2>2. DOMAIN s = 1 .. Len(s) /\ DOMAIN Tail(s) = 1 .. Len(s) - 1
    BY <1>1, LenProperties
  <2> QED
    BY <2>1, <2>2
<1>3. ASSUME NEW i \in 1 .. Len(s), i # 1 PROVE s[i] \in Range(Tail(s))
  <2>1. i - 1 \in 1 .. Len(s) - 1 /\ (i - 1) + 1 = i
    BY <1>2, <1>3
  <2>2. Tail(s)[i - 1] = s[i]
    BY <1>1, <2>1
  <2> QED
    BY <1>2, <2>1, <2>2 DEF Range
<1>4. ASSUME NEW x \in Range(s) PROVE x \in {Head(s)} \cup Range(Tail(s))
  <2>1. PICK i \in 1 .. Len(s) : x = s[i]
    BY <1>2, <1>4 DEF Range
  <2> QED
    BY <1>2, <1>3, <2>1
<1> QED
  BY <1>1, <1>4

LEMMA SearchDirKeeps == ASSUME SearchInv, SearchDir PROVE SearchInv'
<1>1. PICK h : h = Head(pending)
  OBVIOUS
<1>2. /\ searchPc = "search" /\ listing = NoLink /\ pending # << >> /\ pending' = Tail(pending)
      /\ IF AlreadyIterated(h) \/ ~Reads(h) THEN UNCHANGED <<listing, todo>> ELSE listing' = h /\ todo' = Under(h)
      /\ searchPc' = searchPc /\ iterated' = iterated /\ listed' = listed /\ toolPc' = toolPc /\ printed' = printed /\ output' = output /\ missed' = missed
  BY <1>1 DEF SearchDir, toolVars
<1>3. /\ pending \in Seq(PlacesReached(Tree)) /\ todo = {} /\ NoOutput
  BY <1>2 DEF SearchInv, SearchPhase, ListingSound
<1>4. h \in PlacesReached(Tree) /\ pending' \in Seq(PlacesReached(Tree)) /\ Range(pending) \subseteq {h} \cup Range(pending')
  BY <1>1, <1>2, <1>3, RangeOfRest
<1>5. h \in Places /\ h \in Text /\ h # NoLink
  BY <1>4, ReachedPlaces, KnownIsText
<1>6. NoOutput' = NoOutput
  BY <1>2 DEF NoOutput
<1>7. SearchPhase'
  BY <1>2, <1>6 DEF SearchInv, SearchPhase
<1>8. \A p : HasBeenVisited(p)' = HasBeenVisited(p)
  BY <1>2 DEF HasBeenVisited
<1>9. \A d : Handled(d) => Handled(d)'
  <2> SUFFICES ASSUME NEW d, Handled(d) PROVE Handled(d)'
    OBVIOUS
  <2>1. CASE d = h
    BY <1>2, <1>5, <2>1 DEF Handled, AlreadyIterated
  <2>2. CASE d # h
    <3>1. d \in Range(pending) => d \in Range(pending')
      BY <1>4, <2>2
    <3> QED
      BY <1>2, <3>1 DEF Handled
  <2> QED
    BY <2>1, <2>2
<1>10. \A e \in Tree : Settled(e) => Settled(e)'
  BY <1>2, <1>9, SettledKept
<1>11. \A d : Under(d) \subseteq Tree
  BY DEF Under
<1>12. listing' # NoLink => listing' = h /\ Reads(h) /\ Slashed(h) \notin iterated /\ todo' = Under(h)
  BY <1>2 DEF AlreadyIterated
<1>13. listing' = NoLink => todo' = {}
  BY <1>2, <1>3, <1>5
<1>14. ASSUME NEW e \in todo', NEW d \in Folders, Inside(d.path, h), Inside(e.path, d.path) PROVE d \in todo'
  <2>1. todo' = Under(h) /\ d \in Tree
    BY <1>12, <1>13, <1>14 DEF Folders
  <2> QED
    BY <1>5, <1>14, <2>1, BetweenUnder
<1>15. \A e \in todo' : \A d \in Folders : ~MayEnter(d) /\ Inside(d.path, listing') /\ Inside(e.path, d.path) => d \in todo' \/ HasBeenVisited(d.path)'
  BY <1>12, <1>13, <1>14
<1>16. ListingSound'
  BY <1>2, <1>4, <1>12, <1>13, <1>15 DEF SearchInv, ListingSound
<1>17. ReportedOnce'
  <2>1. \A e \in Tree : e.path \in Range(listed) => HasBeenVisited(e.path)'
    BY <1>2, <1>3, <1>8 DEF SearchInv, ReportedOnce
  <2> QED
    BY <1>2, <1>3, <2>1 DEF SearchInv, ReportedOnce
<1>18. NothingMissed'
  <2>0. \A e \in Tree : Sought(e)' => Sought(e)
    BY <1>2, SoughtKept
  <2>1. Handled(RootPath)'
    BY <1>3, <1>9 DEF SearchInv, NothingMissed
  <2>2. \A d \in Places : Slashed(d) \in iterated' => \A e \in Under(d) : Sought(e)' => Settled(e)'
    BY <2>0, <1>2, <1>3, <1>10, <1>11 DEF SearchInv, NothingMissed
  <2>3. listing' # NoLink => \A e \in Under(listing') \ todo' : Sought(e)' => Settled(e)'
    BY <1>12
  <2> QED
    BY <1>2, <1>3, <2>1, <2>2, <2>3 DEF SearchInv, NothingMissed
<1> QED
  BY <1>7, <1>16, <1>17, <1>18 DEF SearchInv

LEMMA ListingEndsKeeps == ASSUME SearchInv, ListingEnds PROVE SearchInv'
<1>1. /\ listing # NoLink /\ todo = {} /\ iterated' = iterated \cup {Slashed(listing)} /\ listing' = NoLink
      /\ searchPc' = searchPc /\ pending' = pending /\ todo' = todo /\ listed' = listed
      /\ toolPc' = toolPc /\ printed' = printed /\ output' = output /\ missed' = missed
  BY DEF ListingEnds, toolVars
<1>2. searchPc # "tool" /\ listing \in Places /\ listing \in Text
  BY <1>1, ReachedPlaces, KnownIsText DEF SearchInv, SearchPhase, ListingSound
<1>3. Slashed(listing) \in Text /\ Last(Slashed(listing)) = Sep
  BY <1>2, SlashedIs
<1>4. NoOutput' = NoOutput
  BY <1>1 DEF NoOutput
<1>5. SearchPhase'
  BY <1>1, <1>2, <1>4 DEF SearchInv, SearchPhase
<1>6. ListingSound'
  <2>1. \A p \in iterated' : (\E d \in Places : p = Slashed(d)) \/ (\E d \in Folders : ~MayEnter(d) /\ p = d.path)
    BY <1>1, <1>2 DEF SearchInv, ListingSound
  <2>2. iterated' \subseteq Text
    BY <1>1, <1>3 DEF SearchInv, ListingSound
  <2> QED
    BY <1>1, <2>1, <2>2 DEF SearchInv, ListingSound
<1>7. ReportedOnce'
  <2> SUFFICES ASSUME NoOutput, NEW e \in Tree, e.path \in Range(listed) PROVE HasBeenVisited(e.path)'
    BY <1>1, <1>4 DEF SearchInv, ReportedOnce
  <2>1. HasBeenVisited(e.path) \/ e \in Under(listing)
    BY DEF SearchInv, ReportedOnce
  <2>2. e \in Under(listing) => IsPrefix(Slashed(listing), e.path)
    BY DEF Under, Inside
  <2> QED
    BY <1>1, <2>1, <2>2 DEF HasBeenVisited
<1>8. \A d : Handled(d) => Handled(d)'
  BY <1>1 DEF Handled
<1>9. \A e \in Tree : Settled(e) => Settled(e)'
  BY <1>1, <1>8, SettledKept
<1>10. \A d : Under(d) \subseteq Tree
  BY DEF Under
<1>11. NothingMissed'
  <2> SUFFICES ASSUME NoOutput PROVE NothingMissed'
    BY <1>4 DEF NothingMissed
  <2>0. \A e \in Tree : Sought(e)' => Sought(e)
    BY <1>1, SoughtKept
  <2>1. Handled(RootPath)'
    BY <1>8 DEF SearchInv, NothingMissed
  <2>2. ASSUME NEW d \in Places, Slashed(d) \in iterated', NEW e \in Under(d), Sought(e)' PROVE Settled(e)'
    <3>1. CASE Slashed(d) = Slashed(listing)
      <4>1. e \in Under(listing) \ todo
        BY <1>1, <2>2, <3>1, SamePlace
      <4>2. Settled(e)
        BY <1>1, <1>10, <2>0, <2>2, <4>1 DEF SearchInv, NothingMissed
      <4> QED
        BY <1>9, <1>10, <2>2, <4>2
    <3>2. CASE Slashed(d) \in iterated
      <4>1. Settled(e)
        BY <1>10, <2>0, <2>2, <3>2 DEF SearchInv, NothingMissed
      <4> QED
        BY <1>9, <1>10, <2>2, <4>1
    <3> QED
      BY <1>1, <2>2, <3>1, <3>2
  <2>3. ASSUME NEW d \in Folders, ~MayEnter(d), d.path \in iterated', Reported(d) PROVE d.path \in Range(listed')
    <3>1. d.path # Slashed(listing)
      BY <1>3, KnownIsText DEF Folders
    <3> QED
      BY <1>1, <2>3, <3>1 DEF SearchInv, NothingMissed
  <2> QED
    BY <1>1, <2>1, <2>2, <2>3 DEF NothingMissed
<1> QED
  BY <1>5, <1>6, <1>7, <1>11 DEF SearchInv

LEMMA ListingFailsKeeps == ASSUME SearchInv, ListingFails PROVE SearchInv'
<1>1. /\ listing # NoLink /\ searchPc' = searchPc /\ iterated' = iterated /\ pending' = pending /\ listing' = listing /\ listed' = listed
      /\ toolPc' = toolPc /\ printed' = printed /\ output' = output
  BY DEF ListingFails, toolVars
<1>2. PICK gone \in {todo} \cup {{e \in todo : Inside(e.path, d.path)} : d \in Folders} :
        todo' = todo \ gone /\ missed' = missed \cup gone
  BY DEF ListingFails
<1>3. NoOutput' = NoOutput /\ \A p : HasBeenVisited(p)' = HasBeenVisited(p)
  BY <1>1 DEF NoOutput, HasBeenVisited
<1>4. \A d : Under(d) \subseteq Tree
  BY DEF Under
<1>5. SearchPhase'
  BY <1>1, <1>3 DEF SearchInv, SearchPhase
<1>6. ASSUME NEW e \in todo', NEW d \in Folders, d \in todo, Inside(e.path, d.path) PROVE d \in todo'
  <2>1. e \in todo /\ e \notin gone
    BY <1>2, <1>6
  <2>2. PICK c \in Folders : gone = {x \in todo : Inside(x.path, c.path)}
    BY <1>2, <2>1
  <2>3. e \in Tree /\ d \in Tree /\ c.path \in Text
    BY <1>1, <1>4, <2>1, KnownIsText DEF SearchInv, ListingSound, Folders
  <2>4. ~Inside(d.path, c.path)
    BY <1>6, <2>1, <2>2, <2>3, InsideInside
  <2> QED
    BY <1>2, <1>6, <2>2, <2>4
<1>7. ListingSound'
  <2>1. ASSUME ~Skipped(listing), NEW e \in todo', NEW d \in Folders, ~MayEnter(d), Inside(d.path, listing), Inside(e.path, d.path)
        PROVE  d \in todo' \/ HasBeenVisited(d.path)'
    <3>1. d \in todo \/ HasBeenVisited(d.path)
      BY <1>2, <2>1 DEF SearchInv, ListingSound
    <3> QED
      BY <1>3, <1>6, <2>1, <3>1
  <2> QED
    BY <1>1, <1>2, <2>1 DEF SearchInv, ListingSound
<1>8. ReportedOnce'
  BY <1>1, <1>2, <1>3 DEF SearchInv, ReportedOnce
<1>9. \A d : Handled(d)' = Handled(d)
  BY <1>1 DEF Handled
<1>10. \A e \in Tree : (Settled(e) => Settled(e)') /\ (Sought(e)' => Sought(e))
  BY <1>1, <1>2, <1>9, SettledKept, SoughtKept
<1>11. NothingMissed'
  <2> SUFFICES ASSUME NoOutput PROVE NothingMissed'
    BY <1>3 DEF NothingMissed
  <2>1. ASSUME NEW e \in Under(listing) \ todo', Sought(e)' PROVE Settled(e)'
    <3>1. e \in Tree /\ Sought(e)
      BY <1>4, <1>10, <2>1
    <3>2. e \notin gone
      BY <1>2, <2>1 DEF Sought
    <3> QED
      BY <1>1, <1>2, <1>10, <2>1, <3>1, <3>2 DEF SearchInv, NothingMissed
  <2>2. \A d \in Places : Slashed(d) \in iterated' => \A e \in Under(d) : Sought(e)' => Settled(e)'
    BY <1>1, <1>4, <1>10 DEF SearchInv, NothingMissed
  <2> QED
    BY <1>1, <1>9, <2>1, <2>2 DEF SearchInv, NothingMissed
<1> QED
  BY <1>5, <1>7, <1>8, <1>11 DEF SearchInv

LEMMA QuietSearchKeeps ==
  ASSUME SearchInv, UNCHANGED listVars, SearchPhase', NoOutput' => NoOutput /\ listed' = listed
  PROVE  SearchInv'
<1>1. iterated' = iterated /\ pending' = pending /\ listing' = listing /\ todo' = todo /\ missed' = missed
  BY DEF listVars
<1>2. \A p : HasBeenVisited(p)' = HasBeenVisited(p)
  BY <1>1 DEF HasBeenVisited
<1>3. \A d : Handled(d)' = Handled(d)
  BY <1>1 DEF Handled
<1>4. listed' = listed => \A e \in Tree : Settled(e) => Settled(e)'
  BY <1>1, <1>3, SettledKept
<1>5. \A d : Under(d) \subseteq Tree
  BY DEF Under
<1>6. ListingSound'
  BY <1>1, <1>2 DEF SearchInv, ListingSound
<1>7. ReportedOnce'
  BY <1>1, <1>2 DEF SearchInv, ReportedOnce
<1>8. NothingMissed'
  BY <1>1, <1>3, <1>4, <1>5, SoughtKept DEF SearchInv, NothingMissed
<1> QED
  BY <1>6, <1>7, <1>8 DEF SearchInv

LEMMA NothingMatches == Matches(<< >>) = << >>
<1> DEFINE at == {i \in DOMAIN << >> : << >>[i] # Nul}
<1>1. at = {}
  OBVIOUS
<1>2. Cardinality(at) = 0
  BY <1>1, FS_EmptySet
<1> HIDE DEF at
<1>3. 1 .. Cardinality(at) = {}
  BY <1>2
<1> QED
  BY <1>3 DEF Matches, at

(* Where the last separator is.                                            *)
LEMMA LeastNumber == ASSUME NEW S \in SUBSET Nat, S # {} PROVE \E x \in S : \A y \in S : x <= y
<1> DEFINE R == OpToRel(<, Nat)
<1>1. IsWellFoundedOn(R, Nat)
  BY NatLessThanWellFounded
<1>2. \A x, y \in Nat : x < y => <<x, y>> \in R
  BY DEF OpToRel
<1> HIDE DEF R
<1>3. PICK x \in S : \A y \in S : ~(<<y, x>> \in R)
  BY <1>1, WFMin
<1>4. ASSUME NEW y \in S PROVE x <= y
  <2>1. x \in Nat /\ y \in Nat /\ ~(y < x)
    BY <1>2, <1>3
  <2> QED
    BY <2>1
<1> QED
  BY <1>4

LEMMA LastNulIs ==
  ASSUME NEW S, NEW s \in Seq(S)
  PROVE  LastNul(s) \in 0 .. Len(s)
<1>1. Len(s) \in Nat /\ DOMAIN s = 1 .. Len(s)
  BY LenProperties
<1>2. CASE \E i \in DOMAIN s : s[i] = Nul
  <2> DEFINE T == {n \in Nat : \A i \in DOMAIN s : s[i] = Nul => i <= n}
  <2>1. Len(s) \in T
    BY <1>1
  <2>2. PICK n \in T : \A m \in T : n <= m
    BY <2>1, LeastNumber
  <2>3. n \in DOMAIN s /\ s[n] = Nul
    <3> SUFFICES ASSUME ~(n \in DOMAIN s /\ s[n] = Nul) PROVE FALSE
      OBVIOUS
    <3>1. \A i \in DOMAIN s : s[i] = Nul => i \in Nat /\ i <= n /\ i # n
      BY <1>1, <2>2
    <3>2. PICK j \in DOMAIN s : s[j] = Nul
      BY <1>2
    <3>3. n \in Nat /\ j \in Nat \ {0} /\ j <= n
      BY <1>1, <2>2, <3>1, <3>2
    <3>4. n - 1 \in T
      BY <3>1, <3>3
    <3> QED
      BY <2>2, <3>3, <3>4
  <2>4. \A j \in n + 1 .. Len(s) : s[j] # Nul
    <3> SUFFICES ASSUME NEW j \in n + 1 .. Len(s), s[j] = Nul PROVE FALSE
      OBVIOUS
    <3>1. j \in DOMAIN s /\ n \in Nat /\ n < j
      BY <1>1, <2>2
    <3>2. j <= n
      BY <2>2, <3>1
    <3> QED
      BY <1>1, <3>1, <3>2
  <2>5. LastNul(s) \in DOMAIN s
    BY <1>2, <2>3, <2>4 DEF LastNul
  <2> QED
    BY <1>1, <2>5
<1>3. CASE ~(\E i \in DOMAIN s : s[i] = Nul)
  BY <1>1, <1>3 DEF LastNul
<1> QED
  BY <1>2, <1>3

LEMMA PartOf ==
  ASSUME NEW S, NEW s \in Seq(S), NEW m \in 1 .. Len(s) + 1, NEW n \in m - 1 .. Len(s)
  PROVE  /\ SubSeq(s, m, n) \in Seq(S) /\ Len(SubSeq(s, m, n)) = n - m + 1
         /\ \A i \in 1 .. n - m + 1 : SubSeq(s, m, n)[i] = s[m + i - 1]
<1>1. Len(s) \in Nat
  BY LenProperties
<1>2. \A i \in m .. n : s[i] \in S
  BY <1>1, ElementOfSeq
<1>3. /\ SubSeq(s, m, n) \in Seq(S) /\ Len(SubSeq(s, m, n)) = IF m <= n THEN n - m + 1 ELSE 0
      /\ \A i \in 1 .. n - m + 1 : SubSeq(s, m, n)[i] = s[m + i - 1]
  BY <1>1, <1>2, SubSeqProperties
<1> QED
  BY <1>1, <1>3

LEMMA PartsOfOutput ==
  ASSUME NEW s \in Seq(Range(Output))
  PROVE  /\ Rest(s) \in Seq(Range(Output)) /\ Complete(s) \in Seq(Range(Output)) /\ LastNul(s) \in 0 .. Len(s)
         /\ LastNul(s) # 0 => s # << >>
<1>1. Len(s) \in Nat /\ LastNul(s) \in 0 .. Len(s) /\ (s = << >> => Len(s) = 0)
  BY LenProperties, LastNulIs, EmptySeq
<1> DEFINE n == LastNul(s)
<1> HIDE DEF n
<1>2. n \in 0 .. Len(s) /\ 1 \in 1 .. Len(s) + 1 /\ n + 1 \in 1 .. Len(s) + 1 /\ n \in 1 - 1 .. Len(s) /\ Len(s) \in (n + 1) - 1 .. Len(s)
  BY <1>1 DEF n
<1>3. SubSeq(s, 1, n) \in Seq(Range(Output)) /\ SubSeq(s, n + 1, Len(s)) \in Seq(Range(Output))
  BY <1>2, PartOf
<1> QED
  BY <1>1, <1>3 DEF Rest, Complete, n

-----------------------------------------------------------------------------
(* Every step of the search                                                *)

LEMMA ToolPrintsMore ==
  ASSUME SearchInv, ToolPrints
  PROVE  /\ printed' \in printed + 1 .. Len(Output) /\ Len(Output) \in Nat
         /\ output' = output \o SubSeq(Output, printed + 1, printed') /\ SubSeq(Output, printed + 1, printed') \in Seq(Range(Output))
         /\ output' \in Seq(Range(Output))
<1>1. /\ printed \in Nat /\ output \in Seq(Range(Output)) /\ printed' \in printed + 1 .. Len(Output) /\ printed < Len(Output)
      /\ output' = output \o SubSeq(Output, printed + 1, printed')
  BY DEF ToolPrints, SearchInv, SearchPhase
<1>2. Output \in Seq(Range(Output)) /\ Len(Output) \in Nat
  BY TreeAssumption, LenProperties DEF TreeAssumption
<1>3. SubSeq(Output, printed + 1, printed') \in Seq(Range(Output))
  <2> DEFINE m == printed + 1
             n == printed'
  <2>1. m \in 1 .. Len(Output) + 1 /\ n \in m - 1 .. Len(Output)
    BY <1>1, <1>2
  <2> HIDE DEF m, n
  <2>2. SubSeq(Output, m, n) \in Seq(Range(Output))
    BY <1>2, <2>1, PartOf
  <2> QED
    BY <2>2 DEF m, n
<1> DEFINE p == SubSeq(Output, printed + 1, printed')
<1> HIDE DEF p
<1>4. output \o p \in Seq(Range(Output))
  BY <1>1, <1>3, ConcatProperties DEF p
<1> QED
  BY <1>1, <1>2, <1>3, <1>4 DEF p

LEMMA ToolStepsKeep ==
  ASSUME SearchInv, SearchDone \/ ToolStarts \/ ToolPrints \/ ToolEnds \/ ReadOutput \/ ToolDone
  PROVE  SearchInv'
<1>1. CASE SearchDone
  <2>1. /\ searchPc = "search" /\ listing = NoLink /\ pending = << >> /\ searchPc' = "done"
        /\ UNCHANGED <<listVars, listed>> /\ toolPc' = toolPc /\ printed' = printed /\ output' = output
    BY <1>1 DEF SearchDone, toolVars
  <2>2. SearchPhase'
    BY <2>1 DEF SearchInv, SearchPhase, NoOutput, listVars
  <2> QED
    BY <2>1, <2>2, QuietSearchKeeps DEF NoOutput
<1>2. CASE ToolStarts
  <2>1. /\ searchPc = "tool" /\ toolPc = "none" /\ UNCHANGED <<listVars, listed>> /\ printed' = printed /\ output' = output
        /\ (toolPc' = "running" /\ searchPc' = searchPc) \/ (searchPc' = "failed" /\ toolPc' = toolPc)
    BY <1>2 DEF ToolStarts
  <2>2. SearchPhase'
    BY <2>1 DEF SearchInv, SearchPhase, NoOutput, listVars
  <2> QED
    BY <2>1, <2>2, QuietSearchKeeps DEF NoOutput
<1>3. CASE ToolPrints
  <2>1. toolPc = "running" /\ UNCHANGED <<searchPc, listVars, listed, toolPc>>
    BY <1>3 DEF ToolPrints
  <2>2. printed' \in Nat \ {0} /\ output' \in Seq(Range(Output))
    <3>1. printed \in Nat /\ printed' \in printed + 1 .. Len(Output) /\ Len(Output) \in Nat
      BY <1>3, ToolPrintsMore DEF SearchInv, SearchPhase
    <3>2. printed' \in Nat \ {0}
      BY <3>1
    <3> QED
      BY <1>3, <3>2, ToolPrintsMore
  <2>3. SearchPhase'
    BY <2>1, <2>2 DEF SearchInv, SearchPhase, NoOutput, listVars
  <2> QED
    BY <2>1, <2>3, QuietSearchKeeps DEF NoOutput
<1>4. CASE ToolEnds
  <2>1. /\ toolPc = "running" /\ searchPc = "tool" /\ UNCHANGED <<searchPc, listVars, listed, printed, output>>
        /\ toolPc' \in {"success", "error"} \/ (printed = 0 /\ toolPc' = "missing")
    BY <1>4 DEF ToolEnds, SearchInv, SearchPhase
  <2>2. SearchPhase'
    BY <2>1 DEF SearchInv, SearchPhase, NoOutput, listVars
  <2>3. CASE toolPc' # "missing"
    BY <2>1, <2>2, <2>3, QuietSearchKeeps DEF NoOutput
  <2>4. CASE toolPc' = "missing"
    <3>1. iterated' = {} /\ pending' = <<RootPath>> /\ listing' = NoLink /\ listed' = << >> /\ todo' = {}
      BY <2>1, <2>4 DEF SearchInv, SearchPhase, ListingSound, listVars
    <3>2. ListingSound'
      BY <2>1, <3>1 DEF SearchInv, ListingSound, listVars
    <3>3. Range(listed') = {} /\ listed' \in Seq(Text) /\ IsInjective(listed')
      BY <3>1 DEF Range, IsInjective
    <3>4. RootPath \in Range(pending')
      <4> DEFINE p == <<RootPath>>
      <4>1. DOMAIN p = {1} /\ p[1] = RootPath
        OBVIOUS
      <4> QED
        BY <3>1, <4>1 DEF Range
    <3> QED
      BY <2>2, <3>1, <3>2, <3>3, <3>4 DEF SearchInv, ReportedOnce, NothingMissed, Handled
  <2> QED
    BY <2>3, <2>4
<1>5. CASE ReadOutput
  <2>1. searchPc = "tool" /\ LastNul(output) # 0 /\ output' = Rest(output) /\ UNCHANGED <<searchPc, listVars, toolPc, printed>>
    BY <1>5 DEF ReadOutput
  <2>2. output \in Seq(Range(Output))
    BY DEF SearchInv, SearchPhase
  <2>3. output # << >> /\ output' \in Seq(Range(Output))
    BY <2>1, <2>2, PartsOfOutput
  <2>4. printed # 0 /\ ~NoOutput
    BY <2>3 DEF SearchInv, SearchPhase
  <2>5. SearchPhase' /\ ~NoOutput'
    BY <2>1, <2>3, <2>4 DEF SearchInv, SearchPhase, NoOutput, listVars
  <2> QED
    BY <2>1, <2>5, QuietSearchKeeps
<1>6. CASE ToolDone
  <2>1. /\ searchPc = "tool" /\ toolPc \in {"success", "error", "missing"} /\ UNCHANGED <<listVars, toolPc, printed>>
        /\ listed' = listed \o Matches(output) /\ output' = << >>
        /\ searchPc' = CASE toolPc = "success" -> "done"
                         [] toolPc = "missing" /\ "internal" \in SearchSrc -> "search"
                         [] OTHER -> "failed"
    BY <1>6 DEF ToolDone
  <2>2. searchPc' \in {"done", "search", "failed"} /\ (searchPc' = "done" => toolPc = "success") /\ (searchPc' = "search" => toolPc = "missing")
    BY <2>1
  <2>3. SearchPhase'
    BY <2>1, <2>2 DEF SearchInv, SearchPhase, NoOutput, listVars
  <2>4. toolPc = "missing" => listed' = listed
    <3> SUFFICES ASSUME toolPc = "missing" PROVE listed' = listed
      OBVIOUS
    <3>1. output = << >> /\ listed = << >>
      BY <2>1 DEF SearchInv, SearchPhase, NoOutput
    <3>2. << >> \o << >> = << >>
      OBVIOUS
    <3> QED
      BY <2>1, <3>1, <3>2, NothingMatches
  <2> QED
    BY <2>1, <2>3, <2>4, QuietSearchKeeps DEF NoOutput
<1> QED
  BY <1>1, <1>2, <1>3, <1>4, <1>5, <1>6

LEMMA SearchInvariant == SearchSpec => []SearchInv
<1>1. SearchInit => SearchInv
  BY SearchStarts
<1>2. SearchInv /\ [SearchNext]_searchVars => SearchInv'
  <2> SUFFICES ASSUME SearchInv, [SearchNext]_searchVars PROVE SearchInv'
    OBVIOUS
  <2>1. CASE SearchNext
    BY <2>1, SearchDirKeeps, ListedEntryKeeps, ListingEndsKeeps, ListingFailsKeeps, ToolStepsKeep DEF SearchNext, SearchWork, ToolWork
  <2>2. CASE UNCHANGED searchVars
    <3>1. UNCHANGED <<searchPc, listVars, listed, toolPc, printed, output>>
      BY <2>2 DEF searchVars, toolVars
    <3>2. SearchPhase'
      BY <3>1 DEF SearchInv, SearchPhase, NoOutput, listVars
    <3> QED
      BY <3>1, <3>2, QuietSearchKeeps DEF NoOutput
  <2> QED
    BY <2>1, <2>2
<1> QED
  BY <1>1, <1>2, PTL DEF SearchSpec

(* Whatever the tree, however many links lead to a directory or back: none *)
(* is listed twice (searchDir() of kio_filenamesearch.cpp returns at once  *)
(* when iteratedDirs holds it), no entry is reported twice, and a search   *)
(* that ends, whichever of its listings failed or were cut short on the    *)
(* way, has reported each entry that links lead to, except what is behind  *)
(* a barred folder, in a special place, or not shown by a failed listing.  *)
THEOREM SearchIsExact == SearchSpec => []SearchExact
<1>1. SearchInv => SearchExact
  <2> SUFFICES ASSUME SearchInv PROVE SearchExact
    OBVIOUS
  <2>1. listing # NoLink => Slashed(listing) \notin iterated
    BY DEF SearchInv, ListingSound
  <2>2. NoOutput => IsInjective(listed) /\ Range(listed) \subseteq MayReport
    BY DEF SearchInv, ReportedOnce
  <2>3. ASSUME NoOutput, searchPc = "done", "internal" \in SearchSrc PROVE MustReport \subseteq Range(listed)
    <3> DEFINE es == {e \in Tree : Sought(e)}
               S == {d \in Places : Handled(d)}
    <3>1. pending = << >> /\ listing = NoLink
      BY <2>3 DEF SearchInv, SearchPhase
    <3>2. Range(pending) = {}
      BY <3>1 DEF Range
    <3>3. \A d \in S : Reads(d) => Slashed(d) \in iterated
      BY <3>1, <3>2 DEF Handled
    <3>4. ASSUME NEW d \in S, Reads(d), NEW e \in ComesUpon(d) \cap es PROVE Settled(e) /\ e \in Tree
      <4>1. e \in Under(d) /\ Sought(e) /\ e \in Tree
        BY DEF ComesUpon
      <4> QED
        BY <2>3, <3>3, <3>4, <4>1 DEF SearchInv, NothingMissed
    <3>5. RootPath \in S
      BY <2>3, ReachedPlaces DEF SearchInv, NothingMissed, Places
    <3>6. ASSUME NEW d \in S, Reads(d), NEW p \in Follow(ComesUpon(d) \cap es) PROVE p \in S
      <4>1. PICK e \in ComesUpon(d) \cap es : e \in Folders /\ MayEnter(e) /\ e.dest # NoLink /\ p = e.dest
        BY DEF Follow
      <4>2. Settled(e) /\ e \in Tree
        BY <3>4, <3>6
      <4>3. Handled(p)
        BY <4>1, <4>2 DEF Settled
      <4> QED
        BY <4>1, <4>2, <4>3 DEF Places
    <3> HIDE DEF es
    <3>7. PlacesReached(es) \subseteq S
      <4>1. S \in SUBSET Places
        OBVIOUS
      <4> HIDE DEF S
      <4> QED
        BY <3>5, <3>6, <4>1, ReachedPlaces
    <3> HIDE DEF S
    <3>8. ASSUME NEW p \in MustReport PROVE p \in Range(listed)
      <4>1. PICK x \in UNION {ComesUpon(d) \cap es : d \in {q \in PlacesReached(es) : Reads(q)}} : Reported(x) /\ p = x.path
        BY <3>8 DEF MustReport, Matching, es
      <4>2. PICK d \in PlacesReached(es) : Reads(d) /\ x \in ComesUpon(d) \cap es
        BY <4>1
      <4>3. Settled(x)
        BY <3>4, <3>7, <4>2
      <4> QED
        BY <4>1, <4>3 DEF Settled
    <3> QED
      BY <3>8
  <2> QED
    BY <2>1, <2>2, <2>3 DEF SearchExact, NoOutput
<1> QED
  BY <1>1, SearchInvariant, PTL

-----------------------------------------------------------------------------
(* What the tool prints                                                    *)

UpTo(A, i) == {j \in A : j <= i}
At(s) == {i \in DOMAIN s : s[i] # Nul}

LEMMA UpToIs ==
  ASSUME NEW n \in Nat, NEW A \in SUBSET (1 .. n)
  PROVE  /\ IsFiniteSet(A) /\ Cardinality(A) \in Nat
         /\ \A i : IsFiniteSet(UpTo(A, i)) /\ Cardinality(UpTo(A, i)) \in 0 .. Cardinality(A)
         /\ \A i \in Nat, j \in Nat : i <= j => Cardinality(UpTo(A, i)) <= Cardinality(UpTo(A, j))
         /\ Cardinality(UpTo(A, 0)) = 0 /\ UpTo(A, n) = A
         /\ \A i \in A : Cardinality(UpTo(A, i)) = Cardinality(UpTo(A, i - 1)) + 1
         /\ \A i \in Nat \ {0} : i \notin A => UpTo(A, i) = UpTo(A, i - 1)
<1>0. \A j \in A : j \in Nat /\ 1 <= j /\ j <= n
  OBVIOUS
<1>1. IsFiniteSet(A) /\ Cardinality(A) \in Nat
  <2>1. IsFiniteSet(1 .. n)
    BY FS_Interval
  <2> QED
    BY <2>1, FS_Subset, FS_CardinalityType
<1>2. ASSUME NEW i PROVE IsFiniteSet(UpTo(A, i)) /\ Cardinality(UpTo(A, i)) \in 0 .. Cardinality(A)
  <2>1. UpTo(A, i) \in SUBSET A
    BY DEF UpTo
  <2>2. IsFiniteSet(UpTo(A, i)) /\ Cardinality(UpTo(A, i)) <= Cardinality(A)
    BY <1>1, <2>1, FS_Subset
  <2>3. Cardinality(UpTo(A, i)) \in Nat
    BY <2>2, FS_CardinalityType
  <2> QED
    BY <1>1, <2>2, <2>3
<1>3. ASSUME NEW i \in Nat, NEW j \in Nat, i <= j PROVE Cardinality(UpTo(A, i)) <= Cardinality(UpTo(A, j))
  <2>1. \A x \in A : x <= i => x <= j
    BY <1>0, <1>3
  <2>2. UpTo(A, i) \in SUBSET UpTo(A, j)
    BY <2>1 DEF UpTo
  <2> QED
    BY <1>2, <2>2, FS_Subset
<1>4. UpTo(A, 0) = {} /\ UpTo(A, n) = A
  <2>1. \A x \in A : ~(x <= 0) /\ x <= n
    BY <1>0
  <2> QED
    BY <2>1 DEF UpTo
<1>5. Cardinality(UpTo(A, 0)) = 0
  BY <1>4, FS_EmptySet
<1>6. ASSUME NEW i \in A PROVE Cardinality(UpTo(A, i)) = Cardinality(UpTo(A, i - 1)) + 1
  <2>1. i <= i /\ ~(i <= i - 1) /\ \A x \in A : x <= i <=> x <= i - 1 \/ x = i
    BY <1>0
  <2>2. UpTo(A, i) = UpTo(A, i - 1) \cup {i} /\ i \notin UpTo(A, i - 1)
    BY <2>1 DEF UpTo
  <2> QED
    BY <1>2, <2>2, FS_AddElement
<1>7. ASSUME NEW i \in Nat \ {0}, i \notin A PROVE UpTo(A, i) = UpTo(A, i - 1)
  <2>1. \A x \in A : x <= i <=> x <= i - 1
    BY <1>0, <1>7
  <2> QED
    BY <2>1 DEF UpTo
<1> QED
  BY <1>1, <1>2, <1>3, <1>4, <1>5, <1>6, <1>7

(* There is one k-th number of a set.                                      *)
LEMMA NthExists ==
  ASSUME NEW n \in Nat, NEW A \in SUBSET (1 .. n), NEW k \in 1 .. Cardinality(A)
  PROVE  \E i \in A : Cardinality(UpTo(A, i)) = k
<1> DEFINE C(i) == Cardinality(UpTo(A, i))
           T == {i \in Nat : C(i) >= k}
<1>1. Cardinality(A) \in Nat /\ C(0) = 0 /\ UpTo(A, n) = A /\ \A i : C(i) \in Nat
  BY UpToIs
<1>2. n \in T
  BY <1>1
<1>3. PICK i \in T : \A m \in T : i <= m
  BY <1>2, LeastNumber
<1>4. i \in Nat \ {0} /\ C(i) >= k /\ C(i - 1) < k
  <2>1. i \in Nat /\ C(i) >= k /\ i # 0
    BY <1>1, <1>3
  <2>2. i - 1 \in Nat /\ i - 1 \notin T
    BY <1>3, <2>1
  <2>3. C(i - 1) \in Nat /\ ~(C(i - 1) >= k)
    BY <1>1, <2>2
  <2> QED
    BY <2>1, <2>3
<1>5. \A j \in Nat \ {0} : j \notin A => C(j) = C(j - 1)
  BY UpToIs
<1>6. \A j \in A : C(j) = C(j - 1) + 1
  BY UpToIs
<1>7. i \in A
  <2>1. C(i) \in Nat /\ C(i - 1) \in Nat
    BY <1>1
  <2> QED
    BY <1>4, <1>5, <2>1
<1>8. C(i) = k
  <2>1. C(i) \in Nat /\ C(i - 1) \in Nat /\ C(i) = C(i - 1) + 1
    BY <1>1, <1>6, <1>7
  <2> QED
    BY <1>4, <2>1
<1> QED
  BY <1>7, <1>8

LEMMA NthIs ==
  ASSUME NEW n \in Nat, NEW A \in SUBSET (1 .. n)
  PROVE  /\ \A k \in 1 .. Cardinality(A) : \E i \in A : Cardinality(UpTo(A, i)) = k
         /\ \A i, j \in A : Cardinality(UpTo(A, i)) = Cardinality(UpTo(A, j)) => i = j
<1> DEFINE C(i) == Cardinality(UpTo(A, i))
<1>1. \A i : C(i) \in Nat
  BY UpToIs
<1>6. \A j \in A : C(j) = C(j - 1) + 1
  BY UpToIs
<1>9. ASSUME NEW p \in A, NEW q \in A, p < q PROVE C(p) < C(q)
  <2>1. p \in Nat /\ q - 1 \in Nat /\ p <= q - 1
    BY <1>9
  <2>2. C(p) <= C(q - 1)
    BY <2>1, UpToIs
  <2>3. C(q) = C(q - 1) + 1 /\ C(p) \in Nat /\ C(q - 1) \in Nat
    BY <1>1, <1>6
  <2> QED
    BY <2>2, <2>3
<1>10. ASSUME NEW p \in A, NEW q \in A, C(p) = C(q) PROVE p = q
  <2>1. p \in Nat /\ q \in Nat /\ C(p) \in Nat
    BY <1>1
  <2>2. ~(p < q) /\ ~(q < p)
    BY <1>9, <1>10, <2>1
  <2> QED
    BY <2>1, <2>2
<1> QED
  BY <1>10, NthExists

LEMMA MatchesIs ==
  ASSUME NEW S, NEW s \in Seq(S)
  PROVE  /\ At(s) \subseteq 1 .. Len(s) /\ Len(s) \in Nat
         /\ Matches(s) \in Seq(S) /\ Len(Matches(s)) = Cardinality(At(s)) /\ Cardinality(At(s)) \in Nat
         /\ \A i \in At(s) : Cardinality(UpTo(At(s), i)) \in 1 .. Cardinality(At(s)) /\ Matches(s)[Cardinality(UpTo(At(s), i))] = s[i]
<1> DEFINE A == At(s)
           C(i) == Cardinality(UpTo(A, i))
           M == [k \in 1 .. Cardinality(A) |-> s[CHOOSE i \in A : C(i) = k]]
<1>1. A \subseteq 1 .. Len(s) /\ Len(s) \in Nat
  BY LenProperties DEF At
<1>2. Cardinality(A) \in Nat
  BY <1>1, UpToIs
<1>3. Matches(s) = M
  BY DEF Matches, At, UpTo
<1>4. ASSUME NEW k \in 1 .. Cardinality(A) PROVE (CHOOSE i \in A : C(i) = k) \in A /\ C(CHOOSE i \in A : C(i) = k) = k
  <2>1. \E i \in A : C(i) = k
    BY <1>1, NthIs
  <2> QED
    BY <2>1
<1>5. \A i \in A : s[i] \in S
  BY <1>1, ElementOfSeq
<1> HIDE DEF A
<1>6. M \in [1 .. Cardinality(A) -> S]
  BY <1>4, <1>5
<1>7. M \in Seq(S) /\ Len(M) = Cardinality(A)
  <2>1. M \in Seq(S)
    BY <1>2, <1>6, SeqDef
  <2>2. DOMAIN M = 1 .. Len(M) /\ Len(M) \in Nat
    BY <2>1, LenProperties
  <2>3. DOMAIN M = 1 .. Cardinality(A)
    BY <1>6
  <2> HIDE DEF M
  <2> QED
    BY <1>2, <2>1, <2>2, <2>3
<1>8. ASSUME NEW i \in A PROVE C(i) \in 1 .. Cardinality(A) /\ M[C(i)] = s[i]
  <2>1. C(i) = C(i - 1) + 1 /\ C(i - 1) \in Nat /\ C(i) \in 0 .. Cardinality(A)
    BY <1>1, <1>2, UpToIs
  <2>2. C(i) \in 1 .. Cardinality(A)
    BY <1>2, <2>1
  <2>3. PICK k : k = C(i)
    OBVIOUS
  <2>4. k \in 1 .. Cardinality(A)
    BY <2>2, <2>3
  <2>5. PICK j : j = CHOOSE x \in A : C(x) = k
    OBVIOUS
  <2>6. j \in A /\ C(j) = k
    BY <1>4, <2>4, <2>5
  <2>7. j = i
    BY <1>1, <2>3, <2>4, <2>6, NthIs
  <2> HIDE DEF C
  <2> QED
    BY <2>2, <2>3, <2>4, <2>5, <2>7
<1> QED
  BY <1>1, <1>2, <1>3, <1>7, <1>8 DEF A

LEMMA ShiftCard ==
  ASSUME NEW B, IsFiniteSet(B), B \subseteq Nat, NEW m \in Nat
  PROVE  IsFiniteSet({m + j : j \in B}) /\ Cardinality({m + j : j \in B}) = Cardinality(B)
<1> DEFINE D == {m + j : j \in B}
           f == [j \in B |-> m + j]
<1>1. f \in [B -> D] /\ (\A x, y \in B : f[x] = f[y] => x = y) /\ (\A d \in D : \E x \in B : f[x] = d)
  OBVIOUS
<1>2. f \in Bijection(B, D)
  BY <1>1 DEF Bijection, Injection, Surjection, IsInjective
<1>3. ExistsBijection(B, D)
  BY <1>2 DEF ExistsBijection
<1> QED
  BY <1>3, FS_Bijection

(* What is read in two pieces is what is read at once.                     *)
LEMMA MatchesConcat ==
  ASSUME NEW S, NEW s \in Seq(S), NEW t \in Seq(S)
  PROVE  Matches(s \o t) = Matches(s) \o Matches(t)
<1> DEFINE u == s \o t
           m == Len(s)
           A == At(s)
           B == At(t)
           D == {m + j : j \in B}
           U == At(u)
<1>1. /\ m \in Nat /\ Len(t) \in Nat /\ u \in Seq(S) /\ Len(u) = m + Len(t)
      /\ \A i \in 1 .. m + Len(t) : u[i] = IF i <= m THEN s[i] ELSE t[i - m]
  BY ConcatProperties, LenProperties
<1>2. /\ A \subseteq 1 .. m /\ B \subseteq 1 .. Len(t) /\ U \subseteq 1 .. Len(u)
      /\ DOMAIN s = 1 .. m /\ DOMAIN t = 1 .. Len(t) /\ DOMAIN u = 1 .. m + Len(t)
  BY <1>1, MatchesIs, LenProperties
<1> HIDE DEF u
<1> HIDE DEF m
<1>3. U = A \cup D
  <2>1. ASSUME NEW i \in U PROVE i \in A \cup D
    <3>1. i \in 1 .. m + Len(t) /\ u[i] # Nul
      BY <1>2 DEF At
    <3>2. CASE i <= m
      <4>1. i \in 1 .. m /\ s[i] # Nul
        BY <1>1, <3>1, <3>2
      <4> QED
        BY <1>2, <4>1 DEF At
    <3>3. CASE ~(i <= m)
      <4>1. i - m \in 1 .. Len(t) /\ t[i - m] # Nul /\ i = m + (i - m)
        BY <1>1, <3>1, <3>3
      <4>2. i - m \in B
        BY <1>2, <4>1 DEF At
      <4> QED
        BY <4>1, <4>2
    <3> QED
      BY <3>2, <3>3
  <2>2. ASSUME NEW i \in A PROVE i \in U
    <3>1. i \in 1 .. m /\ s[i] # Nul
      BY <1>2 DEF At
    <3>2. i \in 1 .. m + Len(t) /\ i <= m
      BY <1>1, <3>1
    <3>3. u[i] # Nul
      BY <1>1, <3>1, <3>2
    <3> QED
      BY <1>2, <3>2, <3>3 DEF At
  <2>3. ASSUME NEW j \in B PROVE m + j \in U
    <3>1. j \in 1 .. Len(t) /\ t[j] # Nul
      BY <1>2 DEF At
    <3>2. m + j \in 1 .. m + Len(t) /\ ~(m + j <= m) /\ (m + j) - m = j
      BY <1>1, <3>1
    <3>3. u[m + j] # Nul
      BY <1>1, <3>1, <3>2
    <3> QED
      BY <1>2, <3>2, <3>3 DEF At
  <2> HIDE DEF U, A, B
  <2> QED
    BY <2>1, <2>2, <2>3
<1> HIDE DEF U, A, B, D
<1>4. /\ IsFiniteSet(A) /\ IsFiniteSet(B) /\ IsFiniteSet(U) /\ Cardinality(A) \in Nat /\ Cardinality(B) \in Nat
  BY <1>1, <1>2, UpToIs
<1>5. IsFiniteSet(D) /\ Cardinality(D) = Cardinality(B)
  <2>1. B \subseteq Nat
    BY <1>2
  <2> QED
    BY <1>1, <1>4, <2>1, ShiftCard DEF D
<1>6. \A d \in D : d > m
  BY <1>1, <1>2 DEF D
<1>7. A \cap D = {}
  <2>1. \A i \in A : i <= m /\ i \in Nat
    BY <1>1, <1>2
  <2>2. \A i \in A : ~(i > m)
    BY <1>1, <2>1
  <2> QED
    BY <1>6, <2>2
<1>8. Cardinality(U) = Cardinality(A) + Cardinality(B)
  <2>1. Cardinality(A \cap D) = 0
    BY <1>7, FS_EmptySet
  <2>2. Cardinality(A \cup D) = Cardinality(A) + Cardinality(D) - Cardinality(A \cap D)
    BY <1>4, <1>5, FS_Union
  <2> QED
    BY <1>3, <1>4, <1>5, <2>1, <2>2
<1>9. ASSUME NEW i \in A PROVE UpTo(U, i) = UpTo(A, i)
  <2>1. i \in Nat /\ i <= m
    BY <1>1, <1>2
  <2>2. \A d \in D : ~(d <= i)
    BY <1>1, <1>2, <2>1 DEF D
  <2> QED
    BY <1>3, <2>2 DEF UpTo
<1>10. ASSUME NEW j \in B PROVE Cardinality(UpTo(U, m + j)) = Cardinality(A) + Cardinality(UpTo(B, j))
  <2> DEFINE E == {m + x : x \in UpTo(B, j)}
  <2>1. j \in Nat /\ B \subseteq Nat /\ \A x \in A : x \in Nat /\ x <= m
    BY <1>1, <1>2
  <2>2. UpTo(U, m + j) = A \cup E
    <3>1. \A x \in A : x <= m + j
      BY <1>1, <2>1
    <3>2. \A x \in B : m + x <= m + j <=> x <= j
      BY <1>1, <2>1
    <3> QED
      BY <1>3, <3>1, <3>2 DEF UpTo, D
  <2>3. IsFiniteSet(UpTo(B, j)) /\ UpTo(B, j) \subseteq Nat /\ Cardinality(UpTo(B, j)) \in Nat
    <3>1. IsFiniteSet(UpTo(B, j)) /\ Cardinality(UpTo(B, j)) \in 0 .. Cardinality(B)
      BY <1>1, <1>2, UpToIs
    <3>2. UpTo(B, j) \subseteq Nat
      BY <2>1 DEF UpTo
    <3> QED
      BY <1>4, <3>1, <3>2
  <2>4. IsFiniteSet(E) /\ Cardinality(E) = Cardinality(UpTo(B, j))
    BY <1>1, <2>3, ShiftCard
  <2>5. E \subseteq D
    BY DEF UpTo, D
  <2> HIDE DEF E
  <2>6. A \cap E = {}
    BY <1>7, <2>5
  <2>7. Cardinality(A \cap E) = 0
    BY <2>6, FS_EmptySet
  <2>8. Cardinality(A \cup E) = Cardinality(A) + Cardinality(E) - Cardinality(A \cap E)
    BY <1>4, <2>4, FS_Union
  <2>9. PICK p \in Nat, q \in Nat : p = Cardinality(A) /\ q = Cardinality(E)
    BY <1>4, <2>3, <2>4
  <2>10. Cardinality(A \cup E) = p + q
    BY <2>7, <2>8, <2>9
  <2> QED
    BY <2>2, <2>4, <2>9, <2>10
<1>11. /\ Matches(s) \in Seq(S) /\ Len(Matches(s)) = Cardinality(A)
       /\ Matches(t) \in Seq(S) /\ Len(Matches(t)) = Cardinality(B)
       /\ Matches(u) \in Seq(S) /\ Len(Matches(u)) = Cardinality(A) + Cardinality(B)
  BY <1>1, <1>8, MatchesIs DEF A, B, U
<1> DEFINE v == Matches(s) \o Matches(t)
<1>12. /\ v \in Seq(S) /\ Len(v) = Cardinality(A) + Cardinality(B)
       /\ \A k \in 1 .. Cardinality(A) + Cardinality(B) : v[k] = IF k <= Cardinality(A) THEN Matches(s)[k] ELSE Matches(t)[k - Cardinality(A)]
  <2>1. PICK p \in Seq(S) : p = Matches(s)
    BY <1>11
  <2>2. PICK q \in Seq(S) : q = Matches(t)
    BY <1>11
  <2>3. /\ p \o q \in Seq(S) /\ Len(p \o q) = Len(p) + Len(q)
        /\ \A k \in 1 .. Len(p) + Len(q) : (p \o q)[k] = IF k <= Len(p) THEN p[k] ELSE q[k - Len(p)]
    BY ConcatProperties
  <2>4. Len(p) = Cardinality(A) /\ Len(q) = Cardinality(B) /\ v = p \o q
    BY <1>11, <2>1, <2>2
  <2> HIDE DEF v
  <2> QED
    BY <2>1, <2>2, <2>3, <2>4
<1> HIDE DEF v
<1>13. ASSUME NEW k \in 1 .. Cardinality(A) + Cardinality(B) PROVE Matches(u)[k] = v[k]
  <2>1. CASE k <= Cardinality(A)
    <3>1. k \in 1 .. Cardinality(A)
      BY <1>4, <2>1
    <3>a. PICK w \in Nat : A \in SUBSET (1 .. w)
      BY <1>1, <1>2
    <3>2. PICK i \in A : Cardinality(UpTo(A, i)) = k
      BY <3>1, <3>a, NthIs
    <3>3. Matches(s)[k] = s[i]
      BY <3>2, MatchesIs DEF A
    <3>4. i \in U /\ Cardinality(UpTo(U, i)) = k
      BY <1>3, <1>9, <3>2
    <3>5. Matches(u)[k] = u[i]
      BY <1>1, <3>4, MatchesIs DEF U
    <3>6. i \in 1 .. m + Len(t) /\ i <= m
      BY <1>1, <1>2
    <3> QED
      BY <1>1, <1>12, <2>1, <3>3, <3>5, <3>6
  <2>2. CASE ~(k <= Cardinality(A))
    <3>1. k - Cardinality(A) \in 1 .. Cardinality(B)
      BY <1>4, <2>2
    <3>a. PICK w \in Nat : B \in SUBSET (1 .. w)
      BY <1>1, <1>2
    <3>2. PICK j \in B : Cardinality(UpTo(B, j)) = k - Cardinality(A)
      BY <3>1, <3>a, NthIs
    <3>3. Matches(t)[k - Cardinality(A)] = t[j]
      BY <3>2, MatchesIs DEF B
    <3>4. m + j \in U
      BY <1>3 DEF D
    <3>5. Cardinality(UpTo(U, m + j)) = k
      BY <1>4, <1>10, <3>2
    <3>6. Matches(u)[k] = u[m + j]
      BY <1>1, <3>4, <3>5, MatchesIs DEF U
    <3>7. m + j \in 1 .. m + Len(t) /\ ~(m + j <= m) /\ (m + j) - m = j
      BY <1>1, <1>2
    <3> QED
      BY <1>1, <1>12, <2>2, <3>3, <3>6, <3>7
  <2> QED
    BY <2>1, <2>2
<1>14. Matches(u) = v
  BY <1>11, <1>12, <1>13, SeqEqual
<1> QED
  BY <1>14 DEF u, v


(* What was printed is what was read and reported, then what is held.      *)
ReadOf == printed - Len(output)
ToolInv ==
  ~NoOutput =>
    /\ listing = NoLink /\ printed <= Len(Output) /\ Len(output) <= printed
    /\ toolPc \in {"success", "error"} => printed = Len(Output)
    /\ output = SubSeq(Output, ReadOf + 1, printed)
    /\ searchPc = "tool" => listed = Matches(SubSeq(Output, 1, ReadOf))
    /\ searchPc # "tool" => listed = Matches(Output)

LEMMA OutputIs ==
  ASSUME SearchInv
  PROVE  /\ Output \in Seq(Range(Output)) /\ output \in Seq(Range(Output)) /\ Len(Output) \in Nat /\ Len(output) \in Nat /\ printed \in Nat
         /\ \A k \in 0 .. Len(Output), n \in 0 .. Len(Output) : k <= n =>
              /\ SubSeq(Output, k + 1, n) \in Seq(Range(Output)) /\ Len(SubSeq(Output, k + 1, n)) = n - k
              /\ SubSeq(Output, 1, k) \o SubSeq(Output, k + 1, n) = SubSeq(Output, 1, n)
              /\ \A p \in 0 .. Len(Output) : n <= p => SubSeq(Output, k + 1, n) \o SubSeq(Output, n + 1, p) = SubSeq(Output, k + 1, p)
         /\ SubSeq(Output, 1, Len(Output)) = Output
<1>1. Output \in Seq(Range(Output)) /\ output \in Seq(Range(Output)) /\ printed \in Nat
  BY TreeAssumption DEF TreeAssumption, SearchInv, SearchPhase
<1>2. Len(Output) \in Nat /\ Len(output) \in Nat
  BY <1>1, LenProperties
<1>3. ASSUME NEW k \in 0 .. Len(Output), NEW n \in 0 .. Len(Output), k <= n
      PROVE  /\ SubSeq(Output, k + 1, n) \in Seq(Range(Output)) /\ Len(SubSeq(Output, k + 1, n)) = n - k
             /\ SubSeq(Output, 1, k) \o SubSeq(Output, k + 1, n) = SubSeq(Output, 1, n)
             /\ \A p \in 0 .. Len(Output) : n <= p => SubSeq(Output, k + 1, n) \o SubSeq(Output, n + 1, p) = SubSeq(Output, k + 1, p)
  <2> DEFINE m == k + 1
  <2>1. m \in 1 .. Len(Output) + 1 /\ n \in m - 1 .. Len(Output) /\ n - m + 1 = n - k
    BY <1>2, <1>3
  <2>2. 1 \in 1 .. Len(Output) + 1 /\ k \in 1 - 1 .. Len(Output) /\ n \in k .. Len(Output)
    BY <1>2, <1>3
  <2> HIDE DEF m
  <2>3. SubSeq(Output, m, n) \in Seq(Range(Output)) /\ Len(SubSeq(Output, m, n)) = n - m + 1
    BY <1>1, <2>1, PartOf
  <2>4. SubSeq(Output, 1, k) \o SubSeq(Output, k + 1, n) = SubSeq(Output, 1, n)
    BY <1>1, <2>2, ConcatAdjacentSubSeq
  <2>5. ASSUME NEW p \in 0 .. Len(Output), n <= p PROVE SubSeq(Output, m, n) \o SubSeq(Output, n + 1, p) = SubSeq(Output, m, p)
    <3>1. p \in n .. Len(Output)
      BY <1>2, <2>5
    <3> QED
      BY <1>1, <2>1, <3>1, ConcatAdjacentSubSeq
  <2> QED
    BY <2>1, <2>3, <2>4, <2>5 DEF m
<1> QED
  BY <1>1, <1>2, <1>3, SubSeqFull

(* A part of a part.                                                       *)
LEMMA PartOfPart ==
  ASSUME SearchInv, NEW k \in Nat, NEW n \in Nat, k <= n, n <= Len(Output), output = SubSeq(Output, k + 1, n),
         NEW m \in 0 .. n - k
  PROVE  /\ SubSeq(output, 1, m) = SubSeq(Output, k + 1, k + m)
         /\ SubSeq(output, m + 1, Len(output)) = SubSeq(Output, k + m + 1, n)
<1>1. Output \in Seq(Range(Output)) /\ Len(Output) \in Nat /\ output \in Seq(Range(Output)) /\ Len(output) = n - k
  <2>1. k \in 0 .. Len(Output) /\ n \in 0 .. Len(Output)
    BY OutputIs
  <2> QED
    BY <2>1, OutputIs
<1>2. \A i \in 1 .. n - k : output[i] = Output[k + i]
  <2> DEFINE j == k + 1
  <2>1. j \in 1 .. Len(Output) + 1 /\ n \in j - 1 .. Len(Output) /\ n - j + 1 = n - k /\ \A i \in 1 .. n - k : j + i - 1 = k + i
    BY <1>1
  <2>2. output = SubSeq(Output, j, n)
    OBVIOUS
  <2> HIDE DEF j
  <2>3. \A i \in 1 .. n - j + 1 : output[i] = Output[j + i - 1]
    BY <1>1, <2>1, <2>2, PartOf
  <2> QED
    BY <2>1, <2>3
<1>3. SubSeq(output, 1, m) = SubSeq(Output, k + 1, k + m)
  <2> DEFINE a == k + 1
             b == k + m
  <2>1. 1 \in 1 .. Len(output) + 1 /\ m \in 1 - 1 .. Len(output) /\ a \in 1 .. Len(Output) + 1 /\ b \in a - 1 .. Len(Output) /\ b - a + 1 = m /\ m - 1 + 1 = m
    BY <1>1
  <2>2. \A i \in 1 .. m : 1 + i - 1 = i /\ a + i - 1 = k + i /\ i \in 1 .. n - k
    BY <1>1
  <2> HIDE DEF a, b
  <2>3. /\ SubSeq(output, 1, m) \in Seq(Range(Output)) /\ Len(SubSeq(output, 1, m)) = m
        /\ \A i \in 1 .. m : SubSeq(output, 1, m)[i] = output[1 + i - 1]
    BY <1>1, <2>1, PartOf
  <2>4. /\ SubSeq(Output, a, b) \in Seq(Range(Output)) /\ Len(SubSeq(Output, a, b)) = m
        /\ \A i \in 1 .. m : SubSeq(Output, a, b)[i] = Output[a + i - 1]
    BY <1>1, <2>1, PartOf
  <2>5. ASSUME NEW i \in 1 .. m PROVE SubSeq(output, 1, m)[i] = SubSeq(Output, a, b)[i]
    <3>1. SubSeq(output, 1, m)[i] = output[i]
      BY <2>2, <2>3
    <3>2. SubSeq(Output, a, b)[i] = Output[k + i]
      BY <2>2, <2>4
    <3> QED
      BY <1>2, <2>2, <3>1, <3>2
  <2>6. SubSeq(output, 1, m) = SubSeq(Output, a, b)
    BY <2>3, <2>4, <2>5, SeqEqual
  <2> QED
    BY <2>6 DEF a, b
<1>4. SubSeq(output, m + 1, Len(output)) = SubSeq(Output, k + m + 1, n)
  <2> DEFINE a == k + m + 1
             c == m + 1
             l == Len(output)
  <2>1. c \in 1 .. Len(output) + 1 /\ l \in c - 1 .. Len(output) /\ a \in 1 .. Len(Output) + 1 /\ n \in a - 1 .. Len(Output) /\ n - a + 1 = l - c + 1
    BY <1>1
  <2>2. \A i \in 1 .. l - c + 1 : a + i - 1 = k + (c + i - 1) /\ c + i - 1 \in 1 .. n - k
    BY <1>1
  <2> HIDE DEF a, c, l
  <2>3. /\ SubSeq(output, c, l) \in Seq(Range(Output)) /\ Len(SubSeq(output, c, l)) = l - c + 1
        /\ \A i \in 1 .. l - c + 1 : SubSeq(output, c, l)[i] = output[c + i - 1]
    BY <1>1, <2>1, PartOf
  <2>4. /\ SubSeq(Output, a, n) \in Seq(Range(Output)) /\ Len(SubSeq(Output, a, n)) = n - a + 1
        /\ \A i \in 1 .. n - a + 1 : SubSeq(Output, a, n)[i] = Output[a + i - 1]
    BY <1>1, <2>1, PartOf
  <2>5. \A i \in 1 .. l - c + 1 : SubSeq(output, c, l)[i] = SubSeq(Output, a, n)[i]
    BY <1>2, <2>1, <2>2, <2>3, <2>4
  <2>6. SubSeq(output, c, l) = SubSeq(Output, a, n)
    BY <2>1, <2>3, <2>4, <2>5, SeqEqual
  <2> QED
    BY <2>6 DEF a, c, l
<1> QED
  BY <1>3, <1>4

LEMMA HeldIs ==
  ASSUME SearchInv, ToolInv, ~NoOutput
  PROVE  \E k \in Nat : k = ReadOf /\ printed - k = Len(output) /\ k <= printed /\ printed <= Len(Output)
<1>1. PICK l \in Nat : l = Len(output)
  BY OutputIs
<1>2. PICK n \in Nat : n = Len(Output)
  BY OutputIs
<1>3. PICK p \in Nat : p = printed
  BY OutputIs
<1>4. l <= p /\ p <= n /\ ReadOf = p - l
  BY <1>1, <1>2, <1>3 DEF ToolInv, ReadOf
<1>5. p - l \in Nat /\ p - (p - l) = l /\ p - l <= p
  BY <1>4
<1> QED
  BY <1>1, <1>2, <1>3, <1>4, <1>5

LEMMA ToolInvKept == ASSUME SearchInv, SearchInv', ToolInv, SearchNext PROVE ToolInv'
<1> USE OutputIs
<1>1. CASE SearchDir \/ ListedEntry \/ ListingEnds \/ SearchDone \/ ListingFails
  <2>1. NoOutput /\ toolPc' = toolPc
    BY <1>1 DEF SearchDir, ListedEntry, ListingEnds, SearchDone, ListingFails, toolVars, SearchInv, SearchPhase, ToolInv
  <2> QED
    BY <2>1 DEF ToolInv, NoOutput
<1>2. CASE ToolStarts
  <2>1. NoOutput /\ searchPc = "tool" /\ printed' = 0 /\ output' = << >> /\ listed' = << >> /\ listing' = NoLink /\ (~NoOutput' => searchPc' = "tool" /\ toolPc' = "running")
    BY <1>2 DEF ToolStarts, NoOutput, SearchInv, SearchPhase, listVars
  <2>2. SubSeq(Output, 0 + 1, 0) = << >> /\ SubSeq(Output, 1, 0) = << >>
    <3>1. SubSeq(Output, 0 + 1, 0) \in Seq(Range(Output)) /\ Len(SubSeq(Output, 0 + 1, 0)) = 0 - 0
      <4>1. 0 \in 0 .. Len(Output) /\ 0 <= 0
        OBVIOUS
      <4> QED
        BY <4>1
    <3> QED
      BY <3>1, EmptySeq
  <2>3. Len(<< >>) = 0 /\ 0 - 0 = 0
    OBVIOUS
  <2>4. ReadOf' = 0 /\ Len(output') = 0
    BY <2>1, <2>3 DEF ReadOf
  <2>5. printed' <= Len(Output) /\ Len(output') <= printed' /\ output' = SubSeq(Output, ReadOf' + 1, printed')
    BY <2>1, <2>2, <2>4
  <2>6. listed' = Matches(SubSeq(Output, 1, ReadOf'))
    BY <2>1, <2>2, <2>4, NothingMatches
  <2> QED
    BY <2>1, <2>5, <2>6 DEF ToolInv
<1>3. CASE ToolPrints
  <2>1. ~NoOutput /\ searchPc = "tool" /\ toolPc = "running" /\ UNCHANGED <<searchPc, listVars, listed, toolPc>> /\ printed < Len(Output)
        /\ printed' \in printed + 1 .. Len(Output) /\ output' = output \o SubSeq(Output, printed + 1, printed')
    BY <1>3 DEF ToolPrints, NoOutput, SearchInv, SearchPhase
  <2>2. PICK k \in Nat : k = ReadOf /\ printed - k = Len(output) /\ k <= printed
    BY <2>1, HeldIs
  <2>3. PICK n \in Nat : n = printed'
    BY <2>1
  <2>4. printed <= n /\ n <= Len(Output)
    BY <2>1, <2>3
  <2>5. output' = SubSeq(Output, k + 1, n)
    <3>1. output = SubSeq(Output, k + 1, printed)
      BY <2>1, <2>2 DEF ToolInv
    <3>2. k \in 0 .. Len(Output) /\ printed \in 0 .. Len(Output) /\ n \in 0 .. Len(Output)
      BY <2>1, <2>2, <2>4
    <3> QED
      BY <2>1, <2>2, <2>3, <2>4, <3>1, <3>2
  <2>6. Len(output') = n - k
    <3>1. k \in 0 .. Len(Output) /\ n \in 0 .. Len(Output) /\ k <= n
      BY <2>1, <2>2, <2>4, SMTT(60)
    <3> QED
      BY <2>5, <3>1
  <2>7. ReadOf' = k /\ Len(output') <= n
    BY <2>2, <2>3, <2>4, <2>6 DEF ReadOf
  <2>8. listing' = NoLink /\ listed' = Matches(SubSeq(Output, 1, k))
    BY <2>1, <2>2 DEF ToolInv, listVars
  <2> QED
    BY <2>1, <2>3, <2>4, <2>5, <2>7, <2>8 DEF ToolInv
<1>4. CASE ToolEnds
  <2>1. ~NoOutput /\ UNCHANGED <<searchPc, listVars, listed, printed, output>> /\ (printed = Len(Output) \/ NoOutput')
    BY <1>4 DEF ToolEnds, NoOutput
  <2> QED
    BY <2>1 DEF ToolInv, ReadOf, listVars
<1>5. CASE ReadOutput
  <2>1. searchPc = "tool" /\ LastNul(output) # 0 /\ listed' = listed \o Matches(Complete(output)) /\ output' = Rest(output)
        /\ UNCHANGED <<searchPc, listVars, toolPc, printed>>
    BY <1>5 DEF ReadOutput
  <2>2. LastNul(output) \in 0 .. Len(output) /\ output # << >>
    BY <2>1, PartsOfOutput
  <2>3. ~NoOutput
    BY <2>2 DEF SearchInv, SearchPhase
  <2>4. PICK k \in Nat : k = ReadOf /\ printed - k = Len(output) /\ k <= printed /\ printed <= Len(Output)
    BY <2>3, HeldIs
  <2>5. PICK m \in Nat : m = LastNul(output) /\ m \in 0 .. printed - k
    BY <2>2, <2>4
  <2>6. output = SubSeq(Output, k + 1, printed) /\ listed = Matches(SubSeq(Output, 1, k))
    BY <2>1, <2>3, <2>4 DEF ToolInv
  <2>7. Complete(output) = SubSeq(Output, k + 1, k + m) /\ output' = SubSeq(Output, k + m + 1, printed)
    <3>1. k \in Nat /\ printed \in Nat /\ m \in 0 .. printed - k
      BY <2>5
    <3>2. /\ SubSeq(output, 1, m) = SubSeq(Output, k + 1, k + m)
          /\ SubSeq(output, m + 1, Len(output)) = SubSeq(Output, k + m + 1, printed)
      BY <2>4, <2>6, <3>1, PartOfPart
    <3> QED
      BY <2>1, <2>5, <3>2 DEF Complete, Rest
  <2>8. k \in 0 .. Len(Output) /\ k + m \in 0 .. Len(Output) /\ printed \in 0 .. Len(Output) /\ k <= k + m /\ k + m <= printed
    BY <2>4, <2>5
  <2>9. /\ SubSeq(Output, k + 1, k + m) \in Seq(Range(Output))
        /\ SubSeq(Output, 1, k) \o SubSeq(Output, k + 1, k + m) = SubSeq(Output, 1, k + m)
        /\ Len(SubSeq(Output, k + m + 1, printed)) = printed - (k + m)
    BY <2>8
  <2>10. SubSeq(Output, 1, k) \in Seq(Range(Output))
    <3>1. 0 \in 0 .. Len(Output) /\ 0 <= k
      BY <2>8
    <3>2. SubSeq(Output, 0 + 1, k) \in Seq(Range(Output))
      BY <2>8, <3>1
    <3> QED
      BY <3>2
  <2>11. listed' = Matches(SubSeq(Output, 1, k + m))
    <3>1. Matches(SubSeq(Output, 1, k) \o SubSeq(Output, k + 1, k + m)) = Matches(SubSeq(Output, 1, k)) \o Matches(SubSeq(Output, k + 1, k + m))
      BY <2>9, <2>10, MatchesConcat
    <3>2. listed' = Matches(SubSeq(Output, 1, k)) \o Matches(SubSeq(Output, k + 1, k + m))
      BY <2>1, <2>6, <2>7
    <3> QED
      BY <2>9, <3>1, <3>2
  <2>12. ReadOf' = k + m /\ Len(output') <= printed
    BY <2>1, <2>7, <2>8, <2>9 DEF ReadOf
  <2>13. NoOutput' = NoOutput /\ searchPc' = "tool" /\ printed' = printed /\ listing' = listing
    BY <2>1 DEF NoOutput, listVars
  <2>14. toolPc' = toolPc
    BY <2>1
  <2> QED
    BY <2>3, <2>4, <2>7, <2>11, <2>12, <2>13, <2>14 DEF ToolInv
<1>6. CASE ToolDone
  <2>1. /\ searchPc = "tool" /\ toolPc \in {"success", "error", "missing"} /\ UNCHANGED <<listVars, toolPc, printed>>
        /\ listed' = listed \o Matches(output) /\ output' = << >>
        /\ searchPc' = CASE toolPc = "success" -> "done"
                         [] toolPc = "missing" /\ "internal" \in SearchSrc -> "search"
                         [] OTHER -> "failed"
    BY <1>6 DEF ToolDone
  <2>2. NoOutput' = NoOutput /\ listing' = listing /\ searchPc' # "tool"
    BY <2>1 DEF NoOutput, listVars
  <2>3. CASE ~NoOutput
    <3>1. printed = Len(Output)
      BY <2>1, <2>3 DEF ToolInv, NoOutput
    <3>2. PICK k \in Nat : k = ReadOf /\ printed - k = Len(output) /\ k <= printed
      BY <2>3, HeldIs
    <3>3. output = SubSeq(Output, k + 1, Len(Output)) /\ listed = Matches(SubSeq(Output, 1, k))
      BY <2>1, <2>3, <3>1, <3>2 DEF ToolInv
    <3>4. k \in 0 .. Len(Output) /\ Len(Output) \in 0 .. Len(Output) /\ k <= Len(Output) /\ 0 \in 0 .. Len(Output) /\ 0 <= k
      BY <3>1, <3>2
    <3>5. SubSeq(Output, 1, k) \o output = Output
      <4>1. SubSeq(Output, 1, k) \o SubSeq(Output, k + 1, Len(Output)) = SubSeq(Output, 1, Len(Output))
        BY <3>4
      <4>2. SubSeq(Output, 1, Len(Output)) = Output
        OBVIOUS
      <4> QED
        BY <3>3, <4>1, <4>2
    <3>6. SubSeq(Output, 1, k) \in Seq(Range(Output)) /\ output \in Seq(Range(Output))
      <4>1. SubSeq(Output, 0 + 1, k) \in Seq(Range(Output)) /\ 0 + 1 = 1
        BY <3>4
      <4>2. SubSeq(Output, k + 1, Len(Output)) \in Seq(Range(Output))
        BY <3>4
      <4> QED
        BY <3>3, <4>1, <4>2
    <3>7. Matches(SubSeq(Output, 1, k) \o output) = Matches(SubSeq(Output, 1, k)) \o Matches(output)
      BY <3>6, MatchesConcat, ZenonT(60)
    <3>8. listed' = Matches(Output)
      BY <2>1, <3>3, <3>5, <3>7
    <3>9. Len(<< >>) = 0 /\ printed' = Len(Output)
      BY <2>1, <3>1
    <3>10. SubSeq(Output, Len(Output) + 1, Len(Output)) = << >>
      <4>1. SubSeq(Output, Len(Output) + 1, Len(Output)) \in Seq(Range(Output)) /\ Len(SubSeq(Output, Len(Output) + 1, Len(Output))) = Len(Output) - Len(Output)
        BY <3>4
      <4>2. Len(Output) - Len(Output) = 0
        OBVIOUS
      <4> QED
        BY <4>1, <4>2, EmptySeq
    <3>11. ReadOf' = Len(Output) /\ Len(output') = 0
      BY <2>1, <3>9 DEF ReadOf
    <3>12. output' = SubSeq(Output, ReadOf' + 1, printed')
      BY <2>1, <3>9, <3>10, <3>11
    <3>13. listing' = NoLink
      BY <2>2, <2>3 DEF ToolInv
    <3> QED
      BY <2>2, <3>8, <3>9, <3>11, <3>12, <3>13 DEF ToolInv
  <2> QED
    BY <2>2, <2>3 DEF ToolInv
<1> QED
  BY <1>1, <1>2, <1>3, <1>4, <1>5, <1>6 DEF SearchNext, SearchWork, ToolWork

(* In whatever pieces the tool's output has come (sendMatch() is called    *)
(* for each path that is complete in slotReadyRead of runExternal in       *)
(* kio_filenamesearch.cpp), and whether it succeeds or fails: each path is *)
(* reported once, in the order printed, and none but these.                *)
THEOREM SearchToolExact == SearchSpec => []ToolExact
<1>1. SearchInit => ToolInv
  BY DEF SearchInit, ToolInv, NoOutput
<1>2. SearchInv /\ SearchInv' /\ ToolInv /\ [SearchNext]_searchVars => ToolInv'
  <2>1. SearchInv /\ SearchInv' /\ ToolInv /\ SearchNext => ToolInv'
    BY ToolInvKept
  <2>2. ToolInv /\ UNCHANGED searchVars => ToolInv'
    BY DEF ToolInv, ReadOf, NoOutput, searchVars, listVars, toolVars
  <2> QED
    BY <2>1, <2>2
<1>3. SearchInv /\ ToolInv => ToolExact
  <2> SUFFICES ASSUME SearchInv, ToolInv, searchPc # "search", toolPc \in {"running", "success", "error"}
               PROVE  IsPrefix(listed, Matches(Output)) /\ (searchPc \in {"done", "failed"} => listed = Matches(Output))
    BY DEF ToolExact
  <2>1. ~NoOutput
    BY DEF NoOutput
  <2>2. Output \in Seq(Range(Output)) /\ Len(Output) \in Nat /\ Len(output) \in Nat /\ printed \in Nat /\ SubSeq(Output, 1, Len(Output)) = Output
    BY OutputIs
  <2>3. PICK k \in 0 .. Len(Output) : k = ReadOf
    <3>1. PICK k \in Nat : k = ReadOf /\ k <= printed /\ printed <= Len(Output)
      BY <2>1, HeldIs
    <3> QED
      BY <2>2, <3>1
  <2>4. /\ Len(Output) \in 0 .. Len(Output) /\ k <= Len(Output) /\ 0 \in 0 .. Len(Output) /\ 0 <= k /\ 0 + 1 = 1
    BY <2>2
  <2>5. /\ SubSeq(Output, 0 + 1, k) \in Seq(Range(Output)) /\ SubSeq(Output, k + 1, Len(Output)) \in Seq(Range(Output))
        /\ SubSeq(Output, 1, k) \o SubSeq(Output, k + 1, Len(Output)) = SubSeq(Output, 1, Len(Output))
    BY <2>4, OutputIs
  <2>6. Matches(Output) = Matches(SubSeq(Output, 1, k)) \o Matches(SubSeq(Output, k + 1, Len(Output)))
    <3>1. SubSeq(Output, 1, k) \in Seq(Range(Output))
      BY <2>5
    <3>2. Matches(SubSeq(Output, 1, k) \o SubSeq(Output, k + 1, Len(Output))) = Matches(SubSeq(Output, 1, k)) \o Matches(SubSeq(Output, k + 1, Len(Output)))
      BY <2>5, <3>1, MatchesConcat
    <3> QED
      <4>1. SubSeq(Output, 1, k) \o SubSeq(Output, k + 1, Len(Output)) = Output
        BY <2>2, <2>5
      <4> QED
        BY <3>2, <4>1
  <2>7. PICK a \in Seq(Range(Output)) : a = Matches(SubSeq(Output, 1, k))
    <3>1. SubSeq(Output, 1, k) \in Seq(Range(Output))
      BY <2>5
    <3>2. Matches(SubSeq(Output, 1, k)) \in Seq(Range(Output))
      BY <3>1, MatchesIs
    <3> QED
      BY <3>2
  <2>8. PICK b \in Seq(Range(Output)) : b = Matches(SubSeq(Output, k + 1, Len(Output)))
    BY <2>5, MatchesIs
  <2>9. IsPrefix(a, a \o b)
    <3>1. Len(a) \in Nat /\ Len(b) \in Nat /\ Len(a \o b) = Len(a) + Len(b)
      BY LenProperties, ConcatProperties
    <3>2. SubSeq(a \o b, 1, Len(a)) = a
      <4> DEFINE c == a \o b
      <4>1. c \in Seq(Range(Output)) /\ Len(c) = Len(a) + Len(b) /\ \A i \in 1 .. Len(a) + Len(b) : c[i] = IF i <= Len(a) THEN a[i] ELSE b[i - Len(a)]
        BY ConcatProperties
      <4>2. \A i \in 1 .. Len(a) : i \in 1 .. Len(a) + Len(b) /\ i <= Len(a) /\ 1 + i - 1 = i
        BY <3>1
      <4>3. 1 \in 1 .. Len(c) + 1 /\ Len(a) \in 1 - 1 .. Len(c) /\ Len(a) - 1 + 1 = Len(a)
        BY <3>1, <4>1
      <4> HIDE DEF c
      <4>4. /\ SubSeq(c, 1, Len(a)) \in Seq(Range(Output)) /\ Len(SubSeq(c, 1, Len(a))) = Len(a)
            /\ \A i \in 1 .. Len(a) : SubSeq(c, 1, Len(a))[i] = c[1 + i - 1]
        BY <4>1, <4>3, PartOf
      <4>5. \A i \in 1 .. Len(a) : SubSeq(c, 1, Len(a))[i] = a[i]
        BY <4>1, <4>2, <4>4
      <4>6. SubSeq(c, 1, Len(a)) = a
        BY <4>4, <4>5, SeqEqual
      <4> QED
        BY <4>6 DEF c
    <3> QED
      BY <3>1, <3>2 DEF IsPrefix
  <2>10. CASE searchPc = "tool"
    BY <2>1, <2>3, <2>6, <2>7, <2>8, <2>9, <2>10 DEF ToolInv
  <2>11. CASE searchPc # "tool"
    <3>1. listed = Matches(Output) /\ Matches(Output) \in Seq(Range(Output))
      BY <2>1, <2>2, <2>11, MatchesIs DEF ToolInv
    <3>2. SubSeq(listed, 1, Len(listed)) = listed /\ Len(listed) \in Nat
      BY <3>1, SubSeqFull, LenProperties
    <3> QED
      BY <3>1, <3>2 DEF IsPrefix
  <2> QED
    BY <2>10, <2>11
<1> QED
  BY <1>1, <1>2, <1>3, SearchInvariant, PTL DEF SearchSpec

(* Both of the above together: what a file name search reports, from the   *)
(* internal search and from the tool, for every tree and every output.     *)
THEOREM SearchIsRight == SearchSpec => []SearchRight
<1>1. SearchExact /\ ToolExact => SearchRight
  BY DEF SearchRight
<1> QED
  BY <1>1, SearchIsExact, SearchToolExact, PTL

=============================================================================
