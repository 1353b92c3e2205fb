------------------------------ MODULE SmbCopy ------------------------------
(***************************************************************************)
(* The SMB worker's operations that write a file: smbCopyGet (remote to    *)
(* local), smbCopyPut (local to remote), smbCopy (remote to remote) and    *)
(* put (application to remote), with the part-file protocol of             *)
(* transfer_resume.h: data goes to `dst.part', which is renamed to `dst'   *)
(* when the transfer concludes; an interrupted transfer leaves the part    *)
(* file for a later job to resume.                                         *)
(*                                                                         *)
(* One job runs at a time, up to MaxJobs of them one after the other with  *)
(* the same source and the same destination.  A job can fail at every      *)
(* call, be killed by the application or die with its process.  A file is  *)
(* the sequence of its chunks; the source is <<1, ..., Chunks>> and 0 is a *)
(* chunk of an unrelated older file.  How smbCopyGet reads ahead is the    *)
(* subject of SmbReadAhead; here its data arrives in order.                *)
(***************************************************************************)
EXTENDS Integers, Sequences

CONSTANTS
  NoFile,        \* no file of that name exists
  Directory,     \* the name is that of a directory
  Chunks,        \* length of the source
  MinKeep,       \* DEFAULT_MINIMUM_KEEP_SIZE, in chunks
  PutSeekFails,  \* whether the smbc_lseek() of a resuming put() may fail
  MaxJobs        \* bound: jobs in a behaviour

ASSUME ChunksAssumption  == Chunks \in Nat
ASSUME MinKeepAssumption == MinKeep \in Nat
ASSUME MaxJobsAssumption == MaxJobs \in Nat
ASSUME PutSeekFailsAssumption == PutSeekFails \in BOOLEAN
ASSUME NoFileAssumption  ==
  NoFile # Directory /\ {NoFile, Directory} \cap Seq(0 .. Chunks) = {}

VARIABLES
  side,          \* where the destination is: "local" or "remote"
  dst, part,     \* the two files
  old,           \* dst when the job started
  op,            \* the running operation
  flags,         \* KIO::JobFlags and the MarkPartial configuration
  pc,            \* what the job does next
  ctx,           \* TransferContext, see NoContext
  pos,           \* chunks of the source that were read or skipped
  at,            \* the write position in the destination
  result,        \* the WorkerResult
  killed,        \* wasKilled()
  jobs           \* jobs started

fileVars == <<dst, part>>
jobVars  == <<side, old, op, flags, jobs>>
vars == <<jobVars, fileVars, pc, ctx, pos, at, result, killed>>

Source  == [i \in 1 .. Chunks |-> i]
IsPrefixOfSource(f) == \E n \in 0 .. Chunks : f = SubSeq(Source, 1, n)
IsFile(f) == f \notin {NoFile, Directory}

(* What a stat says of the file f.  cache_stat() returns whatever errno    *)
(* smbc_stat() has set, and each is taken for a name that is not there: a  *)
(* file that is there goes unseen when the server cannot be asked.         *)
Stats(f) == {f} \union (IF side = "remote" THEN {NoFile} ELSE {})

(* `to' is the destination member: the complete file or the part file;     *)
(* `unseen' keeps in mind that the stat of the destination has failed.     *)
Context(r, t, o, u) == [resuming |-> r, to |-> t, offset |-> o, unseen |-> u]
NoContext == Context(FALSE, "dst", 0, FALSE)

UsesPart == ctx.to = "part"
Dest == IF UsesPart THEN part ELSE dst

(* The file at the context's destination becomes f. *)
SetDest(f) ==
  IF UsesPart THEN part' = f /\ dst' = dst ELSE dst' = f /\ part' = part

Operations == IF side = "local" THEN {"copyGet"} ELSE {"copyPut", "smbCopy", "put"}

(* The order of the steps: smbCopyGet opens its destination before it      *)
(* looks at the source, smbCopyPut and smbCopy the other way round.        *)
FirstStep(o) ==
  CASE o \in {"copyGet", "put"}     -> "check"
    [] o \in {"copyPut", "smbCopy"} -> "source"

(* Unrelated older files at the destination: empty, and longer than the    *)
(* source.                                                                 *)
OldFiles == {<< >>, [i \in 1 .. Chunks + 1 |-> 0]}

Init ==
  /\ side \in {"local", "remote"}
  /\ dst \in {NoFile, Directory} \union OldFiles
  /\ part = NoFile
  /\ old = dst
  /\ op = "none"
  /\ flags = [overwrite |-> FALSE, resume |-> FALSE, markPartial |-> TRUE]
  /\ pc = "end" /\ ctx = NoContext /\ pos = 0 /\ at = 0
  /\ result = "pass" /\ killed = FALSE /\ jobs = 0

(* The application asks for in-place resumption only of a destination that *)
(* holds the beginning of this source.                                     *)
StartJob ==
  /\ pc = "end"
  /\ jobs < MaxJobs
  /\ jobs' = jobs + 1
  /\ op' \in Operations
  /\ flags' \in [overwrite : BOOLEAN, resume : BOOLEAN, markPartial : BOOLEAN]
  /\ flags'.resume => dst = NoFile \/ IsPrefixOfSource(dst)
  /\ pc' = FirstStep(op')
  /\ old' = dst
  /\ ctx' = NoContext /\ pos' = 0 /\ at' = 0 /\ result' = "pass" /\ killed' = FALSE
  /\ UNCHANGED <<side, fileVars>>

Return(r) ==
  /\ pc' = "end"
  /\ result' = r

Goto(l) ==
  /\ pc' = l
  /\ UNCHANGED result

-----------------------------------------------------------------------------
(* Is the destination acceptable?  smbCopyGet asks before shouldResume. *)

CheckGet ==
  /\ op = "copyGet" /\ pc = "check"
  /\ CASE dst = Directory -> Return("ERR_IS_DIRECTORY")
       [] IsFile(dst) /\ ~flags.overwrite -> Return("ERR_FILE_ALREADY_EXIST")
       [] OTHER -> Goto("resume")
  /\ UNCHANGED <<jobVars, fileVars, ctx, pos, at, killed>>

CheckCopy ==
  /\ op = "smbCopy" /\ pc = "check"
  /\ \E d \in Stats(dst) :
       CASE d = Directory -> Return("ERR_DIR_ALREADY_EXIST")
         [] IsFile(d) /\ ~flags.overwrite -> Return("ERR_FILE_ALREADY_EXIST")
         [] OTHER -> Goto("open")
  /\ UNCHANGED <<jobVars, fileVars, ctx, pos, at, killed>>

(* put() appends in place when told to resume; it knows no part file. *)
CheckPut ==
  /\ op = "put" /\ pc = "check"
  /\ \E d \in Stats(dst) :
       IF d # NoFile /\ ~flags.overwrite /\ ~flags.resume
         THEN /\ Return(IF d = Directory THEN "ERR_DIR_ALREADY_EXIST"
                                         ELSE "ERR_FILE_ALREADY_EXIST")
              /\ UNCHANGED ctx
         ELSE /\ Goto("open")
              /\ ctx' = Context(flags.resume, "dst", IF flags.resume /\ IsFile(dst) THEN Len(dst) ELSE 0, d # dst)
  /\ UNCHANGED <<jobVars, fileVars, pos, at, killed>>

(* Transfer::shouldResume; canResume() is the application's answer, and is *)
(* not asked for when the stat of the part file fails.                     *)
ShouldResume ==
  /\ pc = "resume"
  /\ \E d \in Stats(dst) :
       \/ /\ d # NoFile /\ flags.resume
          /\ ctx' = Context(TRUE, "dst", Len(d), FALSE)
          /\ Goto("open")
       \/ /\ d # NoFile /\ ~flags.resume /\ ~flags.overwrite
          /\ Return(IF d = Directory THEN "ERR_IS_DIRECTORY" ELSE "ERR_FILE_ALREADY_EXIST")
          /\ UNCHANGED ctx
       \/ /\ d = NoFile \/ (~flags.resume /\ flags.overwrite)
          /\ \/ /\ flags.markPartial
                /\ \E p \in Stats(part) \ {NoFile} : ctx' = Context(TRUE, "part", Len(p), d # dst)
             \/ flags.markPartial /\ ctx' = Context(FALSE, "part", 0, d # dst)
             \/ ~flags.markPartial /\ ctx' = Context(FALSE, "dst", 0, d # dst)
          /\ Goto("open")
  /\ UNCHANGED <<jobVars, fileVars, pos, at, killed>>

-----------------------------------------------------------------------------
SourceErrors(o) ==
  {"ERR_DOES_NOT_EXIST", "ERR_IS_DIRECTORY"} \union
  (IF o = "copyPut" THEN {"ERR_WRITE_ACCESS_DENIED", "ERR_CANNOT_OPEN_FOR_READING"}
                    ELSE {"ERR_ACCESS_DENIED"})

(* The source can be stat'ed, opened and sought, or the job ends here: for *)
(* smbCopyGet with the destination open and, if new, truncated already.    *)
SourceFails ==
  /\ pc = "source"
  /\ \E e \in SourceErrors(op) : Return(e)
  /\ UNCHANGED <<jobVars, fileVars, ctx, pos, at, killed>>

SeekFails ==
  /\ op = "copyGet" /\ pc = "source" /\ ctx.resuming
  /\ Return("ERR_CANNOT_SEEK")
  /\ UNCHANGED <<jobVars, fileVars, ctx, pos, at, killed>>

(* Mutant: a resumed smbCopyGet reads the source from its start. *)
SourceOpensNoSeek ==
  /\ pc = "source"
  /\ Goto(CASE op = "copyGet" -> "copy" [] op = "copyPut" -> "resume" [] op = "smbCopy" -> "check")
  /\ UNCHANGED <<jobVars, fileVars, ctx, pos, at, killed>>

SourceOpens ==
  /\ pc = "source"
  /\ Goto(CASE op = "copyGet" -> "copy" [] op = "copyPut" -> "resume" [] op = "smbCopy" -> "check")
  /\ pos' = IF op = "copyGet" /\ ctx.resuming THEN ctx.offset ELSE 0
  /\ UNCHANGED <<jobVars, fileVars, ctx, at, killed>>

-----------------------------------------------------------------------------
(* Opening the destination. *)

(* smbCopy opens its source only here, just before the destination. *)
OpenErrors ==
  {"ERR_WRITE_ACCESS_DENIED", "ERR_CANNOT_OPEN_FOR_WRITING"} \union
  (IF op = "copyGet" /\ ctx.resuming THEN {"ERR_CANNOT_RESUME"} ELSE {}) \union
  (IF op = "smbCopy" THEN {"ERR_ACCESS_DENIED", "ERR_CANNOT_OPEN_FOR_READING"} ELSE {})

(* A failed open: nothing is written.  Conclusion is skipped. *)
OpenFails ==
  /\ pc = "open"
  /\ \E e \in OpenErrors : Return(e)
  /\ UNCHANGED <<jobVars, fileVars, ctx, pos, at, killed>>

(* Mutant: the file is truncated although the transfer resumes. *)
OpenResumedTruncates ==
  /\ pc = "open" /\ ctx.resuming /\ IsFile(Dest)
  /\ SetDest(<< >>)
  /\ at' = 0
  /\ pos' = IF op = "copyGet" THEN pos ELSE Len(Dest)
  /\ Goto(IF op = "copyGet" THEN "source" ELSE "copy")
  /\ UNCHANGED <<jobVars, ctx, killed>>

(* O_RDWR or Append on the file, positioned at its end; put() goes on at   *)
(* its start when the seek fails.                                          *)
OpenResumed ==
  /\ pc = "open" /\ ctx.resuming /\ IsFile(Dest)
  /\ at' \in {Len(Dest)} \union (IF op = "put" /\ PutSeekFails THEN {0} ELSE {})
  /\ pos' = IF op = "copyGet" THEN pos ELSE Len(Dest)
  /\ Goto(IF op = "copyGet" THEN "source" ELSE "copy")
  /\ UNCHANGED <<jobVars, fileVars, ctx, killed>>

(* smbCopyPut: lseek in the destination, or seek in the source, fails. *)
OpenSeekFails ==
  /\ pc = "open" /\ op = "copyPut" /\ ctx.resuming /\ IsFile(Dest)
  /\ \/ Return("ERR_CANNOT_SEEK")
     \/ Dest # << >> /\ pc' = "close" /\ result' = "ERR_CANNOT_SEEK"
  /\ UNCHANGED <<jobVars, fileVars, ctx, pos, at, killed>>

(* Mutant: the destination is opened for appending. *)
OpenWithoutTruncate ==
  /\ pc = "open" /\ ~ctx.resuming /\ Dest # Directory
  /\ SetDest(IF IsFile(Dest) THEN Dest ELSE << >>)
  /\ Goto(IF op = "copyGet" THEN "source" ELSE "copy")
  /\ UNCHANGED <<jobVars, ctx, pos, at, killed>>

(* Mutant: smbCopy leaves the question to its stat. *)
OpenNotExclusive ==
  /\ pc = "open" /\ ~ctx.resuming /\ Dest # Directory
  /\ SetDest(<< >>)
  /\ Goto(IF op = "copyGet" THEN "source" ELSE "copy")
  /\ UNCHANGED <<jobVars, ctx, pos, at, killed>>

(* O_EXCL: smbCopy does not open what is there unless told to overwrite.   *)
Exclusive == op = "smbCopy" /\ ~flags.overwrite

(* O_CREAT | O_TRUNC. *)
OpenTruncated ==
  /\ pc = "open" /\ ~ctx.resuming /\ Dest # Directory
  /\ Exclusive => Dest = NoFile
  /\ SetDest(<< >>)
  /\ Goto(IF op = "copyGet" THEN "source" ELSE "copy")
  /\ UNCHANGED <<jobVars, ctx, pos, at, killed>>

-----------------------------------------------------------------------------
(* The transfer loop. *)

(* smbCopyGet and smbCopyPut conclude also after an error; smbCopy and put *)
(* return from inside the loop.                                            *)
Fail(e) ==
  IF op \in {"copyGet", "copyPut"} THEN pc' = "close" /\ result' = e ELSE Return(e)

(* The file f with chunk c at position i. *)
Write(f, i, c) ==
  IF i < Len(f) THEN [f EXCEPT ![i + 1] = c] ELSE Append(f, c)

(* Mutant: data is invented behind the end of the source. *)
CopyChunkUnbounded ==
  /\ pc = "copy" /\ ~killed
  /\ pos' = pos + 1
  /\ at' = at + 1
  /\ SetDest(Write(Dest, at, pos + 1))
  /\ UNCHANGED <<jobVars, pc, ctx, result, killed>>

CopyChunk ==
  /\ pc = "copy" /\ ~killed
  /\ pos < Chunks
  /\ pos' = pos + 1
  /\ at' = at + 1
  /\ SetDest(Write(Dest, at, pos + 1))
  /\ UNCHANGED <<jobVars, pc, ctx, result, killed>>

(* smbCopyGet reports a failed read as a failed write (see SmbReadAhead).  *)
(* put() cannot tell a lost application from the end of its data: that is  *)
(* a kill here.                                                            *)
CopyFails ==
  /\ pc = "copy" /\ ~killed
  /\ \/ op \in {"copyPut", "smbCopy"} /\ Fail("ERR_CANNOT_READ")
     \/ (pos < Chunks \/ op = "copyGet") /\ Fail("ERR_CANNOT_WRITE")
  /\ UNCHANGED <<jobVars, fileVars, ctx, pos, at, killed>>

(* End of the source, or the job was killed: both leave the loop alike. *)
CopyEnds ==
  /\ pc = "copy"
  /\ killed \/ pos = Chunks
  /\ Goto("close")
  /\ UNCHANGED <<jobVars, fileVars, ctx, pos, at, killed>>

(* Closing the destination; smbCopyGet flushes it only after a success. *)
Close ==
  /\ pc = "close"
  /\ IF op \in {"copyGet", "copyPut"} THEN Goto("conclude") ELSE Return("pass")
  /\ UNCHANGED <<jobVars, fileVars, ctx, pos, at, killed>>

(* flush() fails: the last chunk never left QFile's buffer. *)
FlushFails ==
  /\ pc = "close" /\ op = "copyGet" /\ result = "pass"
  /\ SetDest(IF pos > ctx.offset THEN SubSeq(Dest, 1, Len(Dest) - 1) ELSE Dest)
  /\ pc' = "conclude"
  /\ result' = "ERR_CANNOT_WRITE"
  /\ UNCHANGED <<jobVars, ctx, pos, at, killed>>

(* smbc_close() fails: the job returns without concluding. *)
CloseFails ==
  /\ pc = "close" /\ op # "copyGet"
  /\ Return("ERR_CANNOT_WRITE")
  /\ UNCHANGED <<jobVars, fileVars, ctx, pos, at, killed>>

-----------------------------------------------------------------------------
(* Transfer::concludeResumeHasError. *)

ConcludeDirect ==
  /\ pc = "conclude" /\ ~UsesPart
  /\ Return(result)
  /\ UNCHANGED <<jobVars, fileVars, ctx, pos, at, killed>>

(* Mutant: the complete destination is discarded. *)
ConcludeErrorRemovesComplete ==
  /\ pc = "conclude" /\ UsesPart /\ result # "pass"
  /\ dst' = IF IsFile(part) /\ Len(part) < MinKeep THEN NoFile ELSE dst
  /\ Return(result)
  /\ UNCHANGED <<jobVars, part, ctx, pos, at, killed>>

(* Too little to be worth resuming is removed, if the removal succeeds. *)
ConcludeError ==
  /\ pc = "conclude" /\ UsesPart /\ result # "pass"
  /\ part' \in (IF IsFile(part) /\ Len(part) < MinKeep THEN {NoFile, part} ELSE {part})
  /\ Return(result)
  /\ UNCHANGED <<jobVars, dst, ctx, pos, at, killed>>

(* Mutant: the result is not looked at. *)
ConcludeRegardless ==
  /\ pc = "conclude" /\ UsesPart
  /\ Goto("rename")
  /\ dst' \in (IF side = "local" THEN {NoFile, dst} ELSE {dst})
  /\ UNCHANGED <<jobVars, part, ctx, pos, at, killed>>

(* QFileResumeIO::renameTo() removes the destination first, in a step of   *)
(* its own; the server replaces it.                                        *)
ConcludeSuccess ==
  /\ pc = "conclude" /\ UsesPart /\ result = "pass"
  /\ Goto("rename")
  /\ dst' \in (IF side = "local" THEN {NoFile, dst} ELSE {dst})
  /\ UNCHANGED <<jobVars, part, ctx, pos, at, killed>>

(* QFile::rename() does not replace a file, no rename replaces a directory *)
(* with a file.                                                            *)
RenamePart ==
  /\ pc = "rename"
  /\ IF side = "local" THEN dst = NoFile ELSE dst # Directory
  /\ dst' = part
  /\ part' = NoFile
  /\ Return("pass")
  /\ UNCHANGED <<jobVars, ctx, pos, at, killed>>

RenameFails ==
  /\ pc = "rename"
  /\ Return("ERR_CANNOT_RENAME_PARTIAL")
  /\ UNCHANGED <<jobVars, fileVars, ctx, pos, at, killed>>

-----------------------------------------------------------------------------
Kill ==
  /\ pc # "end" /\ ~killed
  /\ killed' = TRUE
  /\ UNCHANGED <<jobVars, fileVars, pc, ctx, pos, at, result>>

(* The worker process dies; what it wrote stays. *)
Crash ==
  /\ pc # "end"
  /\ Return("crashed")
  /\ UNCHANGED <<jobVars, fileVars, ctx, pos, at, killed>>

AllDone == pc = "end" /\ jobs = MaxJobs /\ UNCHANGED vars

JobStep ==
  \/ CheckGet \/ CheckCopy \/ CheckPut \/ ShouldResume
  \/ SourceFails \/ SeekFails \/ SourceOpens
  \/ OpenFails \/ OpenResumed \/ OpenSeekFails \/ OpenTruncated
  \/ CopyChunk \/ CopyFails \/ CopyEnds
  \/ Close \/ FlushFails \/ CloseFails
  \/ ConcludeDirect \/ ConcludeError \/ ConcludeSuccess \/ RenamePart \/ RenameFails

Next == StartJob \/ JobStep \/ Kill \/ Crash \/ AllDone

Spec == Init /\ [][Next]_vars

-----------------------------------------------------------------------------
Error == {"ERR_IS_DIRECTORY", "ERR_FILE_ALREADY_EXIST", "ERR_DIR_ALREADY_EXIST",
          "ERR_ACCESS_DENIED", "ERR_DOES_NOT_EXIST", "ERR_CANNOT_OPEN_FOR_READING",
          "ERR_CANNOT_SEEK", "ERR_CANNOT_RESUME", "ERR_WRITE_ACCESS_DENIED",
          "ERR_CANNOT_OPEN_FOR_WRITING", "ERR_CANNOT_READ", "ERR_CANNOT_WRITE",
          "ERR_CANNOT_RENAME_PARTIAL"}
File  == Seq(0 .. Chunks)
Label == {"check", "resume", "source", "open", "copy", "close", "conclude", "rename", "end"}

TypeOK ==
  /\ side \in {"local", "remote"}
  /\ {dst, part, old} \subseteq File \union {NoFile, Directory}
  /\ op \in {"none", "copyGet", "copyPut", "smbCopy", "put"}
  /\ flags \in [overwrite : BOOLEAN, resume : BOOLEAN, markPartial : BOOLEAN]
  /\ pc \in Label
  /\ ctx \in [resuming : BOOLEAN, to : {"dst", "part"}, offset : Nat, unseen : BOOLEAN]
  /\ pos \in 0 .. Chunks /\ at \in Nat
  /\ result \in Error \union {"pass", "crashed"}
  /\ killed \in BOOLEAN
  /\ jobs \in 0 .. MaxJobs

(* Whatever interrupted the earlier jobs (an error, a kill, a crash), the  *)
(* part file shouldResume finds holds the beginning of the source, so that *)
(* appending what is behind its size is right.                             *)
PartIsPrefix == part # NoFile => IsPrefixOfSource(part)

(* An operation that reports success, and was not killed, leaves the whole *)
(* source at the destination, resumed or not.                              *)
SuccessIsComplete ==
  (pc = "end" /\ op # "none" /\ result = "pass" /\ ~killed) => dst = Source

(* A job that writes to a part file and is not killed never costs data: at *)
(* every step, and so after a crash at any step, the destination is what   *)
(* it was or the whole source, or the whole source is in the part file.    *)
ContentSafe ==
  (UsesPart /\ ~killed) => dst = old \/ dst = Source \/ (dst = NoFile /\ part = Source)

(* A job that was not told to overwrite or to resume leaves an existing    *)
(* destination alone unless its stat of it has failed, smbCopy even then   *)
(* (O_EXCL); and no job ever replaces a directory.                         *)
NoUninvitedOverwrite ==
  (\/ old = Directory
   \/ old # NoFile /\ ~flags.overwrite /\ ~flags.resume /\ ~ctx.unseen) => dst = old

(* An operation that reports an error other than a failed final rename has *)
(* not touched the destination, if it wrote to a part file.                *)
FailureKeepsDestination ==
  (pc = "end" /\ UsesPart /\ result \in Error \ {"ERR_CANNOT_RENAME_PARTIAL"}) => dst = old

(* A resumed transfer appends: what it resumed from stays in front of what *)
(* it writes, until it concludes.                                          *)
ResumeKeepsProgress ==
  (ctx.resuming /\ pc \in {"source", "copy", "close", "conclude", "rename"}) =>
     /\ IsFile(Dest) /\ Len(Dest) >= ctx.offset
     /\ SubSeq(Dest, 1, ctx.offset) = SubSeq(Source, 1, ctx.offset)

(* The part file is a beginning of the source, and what an interrupted     *)
(* transfer has put there is still there for the next one.                 *)
PartFileRight == TypeOK /\ PartIsPrefix /\ ResumeKeepsProgress

(* The destination is at every moment what it was or all of a source, or   *)
(* all of it is in the part file; a transfer that fails leaves it alone.   *)
DestinationSafe == ContentSafe /\ FailureKeepsDestination
=============================================================================
