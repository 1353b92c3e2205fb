------------------------------- MODULE Archive -------------------------------
(***************************************************************************)
(* The archive workers (src/archive): one archive is kept open between     *)
(* commands, and is opened anew when its file has another time or the URL  *)
(* leads elsewhere.  Any program may replace the file at any moment.       *)
(*                                                                         *)
(* A path on the disk is a sequence of names.  A file on the disk is       *)
(* [kind, version, mtime]; what an archive holds depends on its version.   *)
(***************************************************************************)
EXTENDS Naturals, Sequences, FiniteSets

CONSTANTS Component, NoEntry, Member, \* Member: names within an archive
          LinkMember, \* subset of Member: they have no data
          SizeOf,     \* [Member -> size, or NoEntry for a directory]
          Holds(_),   \* the members of a version
          Word,       \* sizes of directories are modulo this
          MaxVersion, MaxArchiveJobs, ReadSize,
          ArchiveEvents \* subset of {"sameSecond", "truncated", "killed"}

ASSUME SizesAssumption == SizeOf \in [Member -> {NoEntry} \cup Nat] /\ ReadSize \in Nat \ {0}

VARIABLES disk, version, seconds,        \* the file system; clock
          m_archiveFile, m_archiveName, m_mtime, \* the archive open: its version
          archiveJob, archiveJobs

diskVars == <<disk, version, seconds>>
archiveVars == <<diskVars, m_archiveFile, m_archiveName, m_mtime, archiveJob, archiveJobs>>

ArchivePath == {<<n>> : n \in Component} \cup {<<n, m>> : n \in Component, m \in Component}
OnDisk(kind, v, t) == [kind |-> kind, version |-> v, mtime |-> t]
NoArchiveJob == [pc |-> "idle", op |-> "none", path |-> <<>>, member |-> NoEntry, seen |-> {}, done |-> 0, size |-> 0,
                 answer |-> NoEntry, result |-> "none"]

ArchiveInit ==
  /\ disk \in [ArchivePath -> {NoEntry, OnDisk("dir", 0, 0), OnDisk("archive", 1, 0), OnDisk("archive", 2, 0), OnDisk("other", 2, 0)}]
  /\ \A p \in ArchivePath : Len(p) = 2 /\ disk[p] # NoEntry => disk[<<p[1]>>] # NoEntry /\ disk[<<p[1]>>].kind = "dir"
  /\ version = 2 /\ seconds = 0
  /\ m_archiveFile = NoEntry /\ m_archiveName = <<>> /\ m_mtime = 0
  /\ archiveJob = NoArchiveJob /\ archiveJobs = 0

----------------------------------------------------------------------------
(* Other programs: a file is replaced, or goes; the clock ticks.           *)

Kind(p) == IF disk[p] = NoEntry THEN "none" ELSE disk[p].kind
Watched(d) == archiveJob' = IF archiveJob.pc = "idle" THEN archiveJob ELSE [archiveJob EXCEPT !.seen = @ \cup d]
ReplaceFile(p) ==
  /\ version < MaxVersion /\ Kind(p) \in {"archive", "other"} /\ version' = version + 1
  /\ "sameSecond" \in ArchiveEvents \/ disk[p].mtime < seconds
  /\ \E k \in {"archive", "other"} : disk' = [disk EXCEPT ![p] = OnDisk(k, version', seconds)]
  /\ Watched({version'})
  /\ UNCHANGED <<seconds, m_archiveFile, m_archiveName, m_mtime, archiveJobs>>
RemoveFile(p) ==
  /\ Kind(p) \in {"archive", "other"} /\ disk' = [disk EXCEPT ![p] = NoEntry]
  /\ UNCHANGED <<version, seconds, m_archiveFile, m_archiveName, m_mtime, archiveJob, archiveJobs>>
Tick ==
  /\ seconds < MaxVersion - 1 /\ seconds' = seconds + 1
  /\ UNCHANGED <<disk, version, m_archiveFile, m_archiveName, m_mtime, archiveJob, archiveJobs>>

----------------------------------------------------------------------------
(* checkNewFile()                                                          *)

ArchiveAt(pc) == archiveJob.pc = pc
ArchiveGoto(pc) == archiveJob' = [archiveJob EXCEPT !.pc = pc]
ArchiveEnd(r) == archiveJob' = [archiveJob EXCEPT !.pc = "idle", !.result = r]
SameArchive == UNCHANGED <<m_archiveFile, m_archiveName, m_mtime>>
Versions(p) == {disk[SubSeq(p, 1, i)].version : i \in {j \in DOMAIN p : disk[SubSeq(p, 1, j)] # NoEntry}}

(* list, stat or get of a member of the file at a path.                    *)
StartArchive(op, path, member) ==
  /\ ArchiveAt("idle") /\ archiveJobs < MaxArchiveJobs /\ archiveJobs' = archiveJobs + 1
  /\ archiveJob' = [NoArchiveJob EXCEPT !.pc = "check", !.op = op, !.path = path, !.member = member, !.seen = Versions(path)]
  /\ UNCHANGED diskVars /\ SameArchive

StartsWith(path, p) == Len(p) <= Len(path) /\ SubSeq(path, 1, Len(p)) = p

(* Mutant: an archive stays open whatever time its file has.               *)
NeverChanged(p) == m_archiveFile # NoEntry /\ StartsWith(p, m_archiveName) /\ disk[m_archiveName] # NoEntry
(* The archive open, of the time its file still has, serves the path.      *)
AlreadyOpen(p) ==
  /\ m_archiveFile # NoEntry /\ StartsWith(p, m_archiveName)
  /\ disk[m_archiveName] # NoEntry /\ disk[m_archiveName].mtime = m_mtime
CheckNewFile ==
  /\ ArchiveAt("check")
  /\ IF AlreadyOpen(archiveJob.path) THEN ArchiveGoto(archiveJob.op) /\ SameArchive
     ELSE ArchiveGoto("find") /\ m_archiveFile' = NoEntry /\ UNCHANGED <<m_archiveName, m_mtime>>
  /\ UNCHANGED <<diskVars, archiveJobs>>

(* The first thing in the path that is no directory is the archive: its    *)
(* time is taken before it is opened.                                      *)
UpperPaths(p) == {SubSeq(p, 1, i) : i \in DOMAIN p}
NotDirs(p) == {q \in UpperPaths(p) : Kind(q) # "dir"}
First(S) == CHOOSE q \in S : \A r \in S : Len(q) <= Len(r)
FindArchive ==
  /\ ArchiveAt("find")
  /\ LET rest == NotDirs(archiveJob.path)
     IN  IF rest = {} THEN ArchiveGoto("isDirectory") /\ SameArchive
         ELSE IF Kind(First(rest)) = "none" THEN ArchiveEnd("doesNotExist") /\ SameArchive
         ELSE /\ m_mtime' = disk[First(rest)].mtime
              /\ archiveJob' = [archiveJob EXCEPT !.pc = "open", !.path = First(rest)]
              /\ UNCHANGED <<m_archiveFile, m_archiveName>>
  /\ UNCHANGED <<diskVars, archiveJobs>>

OpenArchive ==
  /\ ArchiveAt("open")
  /\ IF Kind(archiveJob.path) = "archive"
     THEN /\ m_archiveFile' = disk[archiveJob.path].version /\ m_archiveName' = archiveJob.path
          /\ ArchiveGoto(archiveJob.op) /\ UNCHANGED m_mtime
     ELSE ArchiveEnd("cannotOpen") /\ SameArchive
  /\ UNCHANGED <<diskVars, archiveJobs>>

(* A directory: listDir() and stat() lead to it, and let go of the archive.*)
IsDirectory ==
  /\ ArchiveAt("isDirectory") /\ m_archiveFile' = NoEntry /\ UNCHANGED <<m_archiveName, m_mtime>>
  /\ ArchiveEnd(IF archiveJob.op = "get" THEN "isDirectory" ELSE "redirected")
  /\ UNCHANGED <<diskVars, archiveJobs>>

----------------------------------------------------------------------------
(* Answers                                                                 *)

Found == archiveJob.member \in Holds(m_archiveFile)
IsDirMember(m) == SizeOf[m] = NoEntry
Answers(r) == archiveJob' = [archiveJob EXCEPT !.pc = "idle", !.result = r, !.answer = m_archiveFile]

ListDir ==
  /\ ArchiveAt("list")
  /\ Answers(IF archiveJob.member = NoEntry THEN "pass" ELSE IF ~Found THEN "doesNotExist"
             ELSE IF IsDirMember(archiveJob.member) THEN "pass" ELSE "isFile")
  /\ UNCHANGED <<diskVars, archiveJobs>> /\ SameArchive

(* computeArchiveDirSize(): what stat() says of a directory is 32 bits     *)
(* wide in the code, Word here.                                            *)
Total(f, S) == LET sum[T \in SUBSET S] == IF T = {} THEN 0 ELSE LET m == CHOOSE x \in T : TRUE IN f[m] + sum[T \ {m}] IN sum[S]
FilesIn(v) == {m \in Holds(v) : ~IsDirMember(m)}
ComputeArchiveDirSize(v) == Total(SizeOf, FilesIn(v)) % Word
Stat ==
  /\ ArchiveAt("stat")
  /\ IF archiveJob.member # NoEntry /\ ~Found THEN Answers("doesNotExist")
     ELSE archiveJob' = [archiveJob EXCEPT !.pc = "idle", !.result = "pass", !.answer = m_archiveFile,
                           !.size = IF archiveJob.member = NoEntry THEN ComputeArchiveDirSize(m_archiveFile) ELSE SizeOf[archiveJob.member]]
  /\ UNCHANGED <<diskVars, archiveJobs>> /\ SameArchive

GetMember ==
  /\ ArchiveAt("get")
  /\ IF archiveJob.member = NoEntry \/ ~Found THEN Answers("doesNotExist")
     ELSE IF IsDirMember(archiveJob.member) THEN Answers("isDirectory")
     ELSE IF archiveJob.member \in LinkMember THEN Answers("redirected")
     ELSE archiveJob' = [archiveJob EXCEPT !.pc = "read", !.size = SizeOf[archiveJob.member], !.answer = m_archiveFile]
  /\ UNCHANGED <<diskVars, archiveJobs>> /\ SameArchive

(* A read must return what it was asked for.                               *)
FullRead(n) == n = IF archiveJob.size - archiveJob.done < ReadSize THEN archiveJob.size - archiveJob.done ELSE ReadSize
ReadFile ==
  /\ ArchiveAt("read")
  /\ IF archiveJob.done = archiveJob.size THEN ArchiveEnd("pass")
     ELSE \/ \E n \in 0 .. ReadSize :
               /\ archiveJob.done + n <= archiveJob.size
               /\ IF FullRead(n) THEN archiveJob' = [archiveJob EXCEPT !.done = @ + n] ELSE ArchiveEnd("cannotRead")
          \/ archiveJob.done > 0 /\ "truncated" \in ArchiveEvents /\ ArchiveEnd("pass")
          \/ "killed" \in ArchiveEvents /\ ArchiveEnd("pass")
  /\ UNCHANGED <<diskVars, archiveJobs>> /\ SameArchive

ArchiveNext ==
  \/ Tick \/ \E p \in ArchivePath : ReplaceFile(p) \/ RemoveFile(p)
  \/ \E op \in {"list", "stat", "get"}, p \in ArchivePath, m \in Member \cup {NoEntry} : StartArchive(op, p, m)
  \/ CheckNewFile \/ FindArchive \/ OpenArchive \/ IsDirectory \/ ListDir \/ Stat \/ GetMember \/ ReadFile
ArchiveSpec == ArchiveInit /\ [][ArchiveNext]_archiveVars

----------------------------------------------------------------------------
(* An answer is of a version that was on the disk, in the path asked for,  *)
(* at some moment of the command: what was opened for an earlier one is    *)
(* not served once its file has been replaced.                             *)
AnswerFresh == archiveJob.answer # NoEntry => archiveJob.answer \in archiveJob.seen

(* A get that passes has sent the whole file, a directory has the size of  *)
(* what is in it: that of the archive that was open, its word wide enough. *)
AnswerComplete ==
  ArchiveAt("idle") /\ archiveJob.result = "pass" =>
    /\ archiveJob.op = "get" => archiveJob.done = SizeOf[archiveJob.member]
    /\ archiveJob.op = "stat" /\ archiveJob.member = NoEntry =>
         archiveJob.size = Total(SizeOf, FilesIn(archiveJob.answer))

(* An answer is of the file as it is now, and whole.                       *)
AnswerRight == AnswerFresh /\ AnswerComplete
=============================================================================
