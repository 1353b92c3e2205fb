---------------------------- MODULE SftpTransfer ----------------------------
(***************************************************************************)
(* The operations of the SFTP worker that write a file: put (application   *)
(* to remote), sftpCopyPut (local to remote) and sftpCopyGet (remote to    *)
(* local), with their `.part' files and, for the first two, the writes     *)
(* that asyncWrite keeps under way.                                        *)
(*                                                                         *)
(* One job runs at a time, up to MaxJobs of them with the same source and  *)
(* the same destination, on a worker that is replaced when it is killed or *)
(* crashes and whose connection may break at any moment.  A file is the    *)
(* sequence of its chunks; the source is <<1, ..., Chunks>> and 0 is a     *)
(* chunk of an unrelated older file, or a hole.  How asyncRead gets the    *)
(* data of sftpCopyGet is the subject of SftpAsyncRead.                    *)
(***************************************************************************)
EXTENDS Integers, Sequences

CONSTANTS
  NoFile,        \* no file of that name exists
  Directory,     \* the name is that of a directory
  Chunks,        \* length of the source
  MinKeep,       \* DEFAULT_MINIMUM_KEEP_SIZE, in chunks
  MaxWrites,    \* MAX_PENDING_REQUESTS
  Events,        \* what may happen besides, see AllEvents
  MaxJobs        \* bound: jobs in a behaviour

(* Events of which the code does not take care:                            *)
(*   "resumeComplete"  a copyGet resumes a part file that is complete      *)
(*   "appLost"         readData() fails                                    *)
(*   "writeHole"       a write succeeds after one before it has failed     *)
(*   "closeFails"      closing the local file fails, and loses its end     *)
(*   "localChmodFails" QFile::setPermissions() fails                       *)
(*   "renameReplaces"  sftp_rename() replaces an existing file             *)
AllEvents == {"resumeComplete", "appLost", "writeHole",
              "closeFails", "localChmodFails", "renameReplaces"}

ASSUME SftpConstants ==
  /\ Chunks \in Nat /\ MinKeep \in Nat /\ MaxJobs \in Nat
  /\ MaxWrites \in Nat \ {0}
  /\ Events \subseteq AllEvents
ASSUME SftpNoFile ==
  NoFile # Directory /\ {NoFile, Directory} \cap Seq(0 .. Chunks) = {}

VARIABLES
  side,          \* where the destination is: "local" or "remote"
  refuses,       \* the server refuses every chmod
  dst, part,     \* the two files
  old,           \* dst when the job started
  job,           \* the running operation and its arguments, see JobSet
  jobPc,            \* what the job does next
  ctx,           \* its local variables, see NoContext
  pos,           \* chunks of the source that were read or skipped
  at,            \* where the next chunk goes in the destination
  pend, acks,    \* write requests under way, and answers not yet read
  result,        \* the error code to return
  killed,        \* wasKilled()
  worker,        \* the members of SFTPWorker, see NewWorker
  alive,         \* the ssh session works
  jobs           \* jobs started

fileVars == <<dst, part>>
jobVars  == <<side, refuses, old, job, jobs>>
loopVars == <<pos, at, pend, acks>>
connVars == <<worker, alive>>
transferVars == <<jobVars, fileVars, loopVars, connVars, jobPc, ctx, result, killed>>

Source  == [i \in 1 .. Chunks |-> i]
IsPrefixOfSource(f) == \E n \in 0 .. Chunks : f = SubSeq(Source, 1, n)
IsFile(f) == f \notin {NoFile, Directory}

JobSet == [op : {"put", "copyPut", "copyGet"}, overwrite : BOOLEAN,
           resume : BOOLEAN, markPartial : BOOLEAN, permissions : BOOLEAN]

(* resume: bResume, or KIO::Resume in flags; origExists: bOrigExists or    *)
(* bDestExists; ok: getResult.success(); end: the reader has finished;     *)
(* failed: a write has failed on the server.                               *)
NoContext == [resume |-> FALSE, origExists |-> FALSE, ok |-> TRUE,
              end |-> FALSE, failed |-> FALSE]

NewWorker == [mConnected |-> FALSE, mCanSetPermissions |-> TRUE, warnings |-> 0]

UsesPart == job.markPartial
Dest == IF UsesPart THEN part ELSE dst
SetDest(f) ==
  IF UsesPart THEN part' = f /\ dst' = dst ELSE dst' = f /\ part' = part

OldFiles == {[i \in 1 .. Chunks + 1 |-> 0]}

TransferInit ==
  /\ side \in {"local", "remote"}
  /\ refuses \in (IF side = "remote" THEN BOOLEAN ELSE {FALSE})
  /\ dst \in {NoFile, Directory} \union OldFiles
  /\ part \in {NoFile, Directory}
  /\ old = dst
  /\ job \in {j \in JobSet : /\ j.op = "put"
                             /\ ~j.overwrite /\ ~j.resume /\ j.markPartial /\ ~j.permissions}
  /\ jobPc = "end" /\ ctx = NoContext /\ pos = 0 /\ at = 0 /\ pend = << >> /\ acks = << >>
  /\ result = "pass" /\ killed = FALSE
  /\ worker = NewWorker /\ alive = FALSE /\ jobs = 0

(* copy() is never given KIO::Resume.                                      *)
(* A put() with KIO::Resume appends to the part file, or without           *)
(* MarkPartial to the file: the application asks for it only where that is *)
(* a beginning of this source.                                             *)
StartJob ==
  /\ jobPc = "end"
  /\ jobs < MaxJobs
  /\ jobs' = jobs + 1
  /\ job' \in JobSet
  /\ (job'.op = "copyGet") <=> (side = "local")
  /\ job'.resume =>
       /\ job'.op = "put"
       /\ LET f == IF job'.markPartial THEN part ELSE dst IN IsFile(f) => IsPrefixOfSource(f)
  /\ jobPc' = CASE job'.op = "put" -> "login" [] job'.op = "copyPut" -> "source"
             [] job'.op = "copyGet" -> "check"
  /\ old' = dst
  /\ ctx' = [NoContext EXCEPT !.resume = job'.resume]
  /\ pos' = 0 /\ at' = 0 /\ pend' = << >> /\ acks' = << >> /\ result' = "pass"
  /\ killed' = FALSE
  /\ UNCHANGED <<side, refuses, fileVars, connVars>>

Return(r) ==
  /\ jobPc' = "end"
  /\ result' = r

JobGoto(l) ==
  /\ jobPc' = l
  /\ UNCHANGED result

(* sftpGet() has failed; sftpCopyGet still closes and tidies up. *)
GetFails(e) ==
  /\ jobPc' = "closeLocal"
  /\ result' = e
  /\ ctx' = [ctx EXCEPT !.ok = FALSE]

-----------------------------------------------------------------------------
(* Logging in, sftpLogin() and openConnection(). *)

(* sftpCopyPut looks at its source first. *)
SourceChecked ==
  /\ jobPc = "source"
  /\ \/ JobGoto("login")
     \/ \E e \in {"ERR_DOES_NOT_EXIST", "ERR_IS_DIRECTORY", "ERR_CANNOT_OPEN_FOR_READING"} :
          Return(e)
  /\ UNCHANGED <<jobVars, fileVars, loopVars, connVars, ctx, killed>>

(* An open connection is used although it may be broken; every call allows *)
(* another attempt at permissions.                                         *)
JobLogin ==
  /\ jobPc = "login"
  /\ \/ /\ worker.mConnected
        /\ worker' = [worker EXCEPT !.mCanSetPermissions = TRUE]
        /\ UNCHANGED alive
     \/ /\ ~worker.mConnected
        /\ worker' = [NewWorker EXCEPT !.mConnected = TRUE]
        /\ alive' = TRUE
  /\ JobGoto(IF job.op = "copyGet" THEN "get" ELSE "stat")
  /\ UNCHANGED <<jobVars, fileVars, loopVars, ctx, killed>>

(* The connection is closed again; or it is open, but for another user     *)
(* than the URL names, and the application is redirected.                  *)
JobLoginFails ==
  /\ jobPc = "login" /\ ~worker.mConnected
  /\ \/ UNCHANGED connVars
     \/ worker' = [NewWorker EXCEPT !.mConnected = TRUE] /\ alive' = TRUE
  /\ IF job.op = "copyGet" THEN GetFails("ERR_CANNOT_LOGIN")
                           ELSE Return("ERR_CANNOT_LOGIN") /\ UNCHANGED ctx
  /\ UNCHANGED <<jobVars, fileVars, loopVars, killed>>

-----------------------------------------------------------------------------
(* sftpPut(). *)

(* Whether the part file is one to resume without having been told so. *)
MayResume ==
  /\ UsesPart /\ alive
  /\ IsFile(part) /\ part # << >>
  /\ ~job.resume /\ ~job.overwrite

(* The two lstat() and what follows from them: put() asks the application, *)
(* which then sends from that offset; sftpCopyPut seeks in its source.     *)
StatFiles ==
  /\ jobPc = "stat"
  /\ \E r \in IF MayResume THEN (IF job.op = "put" THEN BOOLEAN ELSE {TRUE}) ELSE {job.resume} :
       /\ ctx' = [ctx EXCEPT !.resume = r, !.origExists = alive /\ dst # NoFile]
       /\ pos' = IF MayResume /\ r THEN Len(part) ELSE 0
  /\ JobGoto("exists")
  /\ UNCHANGED <<jobVars, fileVars, connVars, at, pend, acks, killed>>

SeekSourceFails ==
  /\ jobPc = "stat" /\ MayResume /\ job.op = "copyPut"
  /\ Return("ERR_CANNOT_SEEK")
  /\ UNCHANGED <<jobVars, fileVars, loopVars, connVars, ctx, killed>>

(* Mutant: an existing destination is not reported. *)
ExistsUnchecked ==
  /\ jobPc = "exists"
  /\ JobGoto("open")
  /\ part' = IF UsesPart /\ IsFile(part) /\ ~ctx.resume /\ alive THEN NoFile ELSE part
  /\ UNCHANGED <<jobVars, dst, loopVars, connVars, ctx, killed>>

(* An existing destination ends the job unless it may be replaced; an      *)
(* unwanted part file is removed, if that succeeds.                        *)
CheckExists ==
  /\ jobPc = "exists"
  /\ IF ctx.origExists /\ ~job.overwrite /\ ~ctx.resume
       THEN /\ Return(IF dst = Directory THEN "ERR_DIR_ALREADY_EXIST" ELSE "ERR_FILE_ALREADY_EXIST")
            /\ UNCHANGED part
       ELSE /\ JobGoto("open")
            /\ part' \in IF UsesPart /\ IsFile(part) /\ ~ctx.resume /\ alive
                           THEN {part, NoFile} ELSE {part}
  /\ UNCHANGED <<jobVars, dst, loopVars, connVars, ctx, killed>>

(* O_RDWR positioned at the end, or O_CREAT | O_TRUNC. *)
OpenPut ==
  /\ jobPc = "open" /\ job.op # "copyGet" /\ alive
  /\ IF ctx.resume
       THEN /\ IsFile(Dest)
            /\ at' = Len(Dest)
            /\ UNCHANGED fileVars
       ELSE /\ Dest # Directory
            /\ SetDest(<< >>)
            /\ UNCHANGED at
  /\ pos' = IF job.resume THEN Len(Dest) ELSE pos
  /\ JobGoto("write")
  /\ UNCHANGED <<jobVars, connVars, pend, acks, ctx, killed>>

OpenPutFails ==
  /\ jobPc = "open" /\ job.op # "copyGet"
  /\ \E e \in {"ERR_WRITE_ACCESS_DENIED", "ERR_CANNOT_OPEN_FOR_WRITING"} : Return(e)
  /\ UNCHANGED <<jobVars, fileVars, loopVars, connVars, ctx, killed>>

-----------------------------------------------------------------------------
(* asyncWrite(): queueChunkMaybe() and the two loops around it. *)

UnderWay == Len(pend) + Len(acks)
AtEnd == ctx.end \/ pos >= Chunks

(* Mutant: the end of the source is not noticed. *)
QueueUnbounded ==
  /\ pend' = Append(pend, [chunk |-> pos + 1, at |-> at])
  /\ pos' = pos + 1
  /\ at' = at + 1

(* The next response of the reader becomes a write request. *)
Queue ==
  /\ ~AtEnd
  /\ pend' = Append(pend, [chunk |-> pos + 1, at |-> at])
  /\ pos' = pos + 1
  /\ at' = at + 1

(* readData() fails, because the job was killed or its application is      *)
(* gone, and the reader ends as it does at the end of the data.            *)
QueueLost ==
  /\ killed \/ "appLost" \in Events
  /\ job.op = "put" /\ ~AtEnd
  /\ ctx' = [ctx EXCEPT !.end = TRUE]
  /\ UNCHANGED <<pos, at, pend>>

(* The first loop: requests go out until enough are under way. *)
FillQueue ==
  /\ jobPc = "write" /\ UnderWay < MaxWrites
  /\ \/ Queue /\ UNCHANGED ctx
     \/ QueueLost
  /\ UNCHANGED <<jobVars, fileVars, connVars, jobPc, acks, result, killed>>

(* The second loop: the oldest request is taken, a new one goes out, and   *)
(* then the answer to the taken one is waited for.                         *)
TakeOldest ==
  /\ jobPc = "write" /\ (UnderWay = MaxWrites \/ AtEnd) /\ UnderWay > 0
  /\ \/ Queue /\ UNCHANGED ctx
     \/ QueueLost
     \/ AtEnd /\ UNCHANGED <<ctx, pos, at, pend>>
  /\ JobGoto("wait")
  /\ UNCHANGED <<jobVars, fileVars, connVars, acks, killed>>

(* Reading the local source fails, sftp_limits() does, or a request cannot *)
(* be sent: the requests under way are forgotten.                          *)
QueueFails ==
  /\ jobPc = "write" /\ ~ctx.end
  /\ job.op = "copyPut" \/ (~alive /\ (~AtEnd \/ UnderWay = 0))
  /\ jobPc' = "abort"
  /\ result' = IF killed THEN "pass" ELSE "ERR_CANNOT_WRITE"
  /\ UNCHANGED <<jobVars, fileVars, loopVars, connVars, ctx, killed>>

(* Mutant: the answer is not looked at. *)
AnswerIgnored ==
  /\ jobPc = "wait" /\ acks # << >>
  /\ acks' = Tail(acks)
  /\ IF killed THEN JobGoto("abort") ELSE JobGoto("write")
  /\ UNCHANGED <<jobVars, fileVars, connVars, pos, at, pend, ctx, killed>>

(* wasKilled() is looked at before the answer. *)
Answer ==
  /\ jobPc = "wait" /\ acks # << >>
  /\ acks' = Tail(acks)
  /\ CASE killed -> JobGoto("abort")
       [] ~killed /\ ~Head(acks) -> jobPc' = "abort" /\ result' = "ERR_CANNOT_WRITE"
       [] OTHER -> JobGoto("write")
  /\ UNCHANGED <<jobVars, fileVars, connVars, pos, at, pend, ctx, killed>>

NoAnswer ==
  /\ jobPc = "wait" /\ acks = << >> /\ ~alive
  /\ jobPc' = "abort"
  /\ result' = IF killed THEN "pass" ELSE "ERR_CANNOT_WRITE"
  /\ UNCHANGED <<jobVars, fileVars, loopVars, connVars, ctx, killed>>

WriteEnds ==
  /\ jobPc = "write" /\ AtEnd /\ UnderWay = 0
  /\ JobGoto("close")
  /\ UNCHANGED <<jobVars, fileVars, loopVars, connVars, ctx, killed>>

(* The file f with chunk c behind its first i chunks; a gap reads as 0. *)
WriteAt(f, i, c) ==
  [k \in 1 .. (IF i < Len(f) THEN Len(f) ELSE i + 1) |->
     IF k = i + 1 THEN c ELSE IF k <= Len(f) THEN f[k] ELSE 0]

(* The server carries out the oldest request, or refuses it: as long as no *)
(* hole is left, all after a refused one are refused too.  What was        *)
(* sent before a connection broke may still arrive.                        *)
ServerWrites ==
  /\ pend # << >> /\ IsFile(Dest)
  /\ \/ /\ ctx.failed => "writeHole" \in Events
        /\ SetDest(WriteAt(Dest, Head(pend).at, Head(pend).chunk))
        /\ acks' = Append(acks, TRUE)
        /\ UNCHANGED ctx
     \/ /\ acks' = Append(acks, FALSE)
        /\ ctx' = [ctx EXCEPT !.failed = TRUE]
        /\ UNCHANGED fileVars
  /\ pend' = Tail(pend)
  /\ UNCHANGED <<jobVars, connVars, pos, at, jobPc, result, killed>>

(* closeOnError(): closing the handle waits for the requests before it; a  *)
(* small part file is removed, if that succeeds.                           *)
Abort ==
  /\ jobPc = "abort"
  /\ alive => pend = << >>
  /\ part' \in IF alive /\ UsesPart /\ IsFile(part) /\ Len(part) < MinKeep
                 THEN {part, NoFile} ELSE {part}
  /\ Return(result)
  /\ pend' = << >>
  /\ UNCHANGED <<jobVars, dst, connVars, pos, at, acks, ctx, killed>>

-----------------------------------------------------------------------------
(* The end of sftpPut(). *)

ClosePut ==
  /\ jobPc = "close"
  /\ \/ alive /\ JobGoto(IF UsesPart THEN "unlink" ELSE "chmod")
     \/ Return("ERR_CANNOT_WRITE")
  /\ UNCHANGED <<jobVars, fileVars, loopVars, connVars, ctx, killed>>

(* With KIO::Overwrite the destination is removed, in a request of its own. *)
UnlinkOriginal ==
  /\ jobPc = "unlink"
  /\ dst' \in IF job.overwrite /\ IsFile(dst) /\ alive THEN {dst, NoFile} ELSE {dst}
  /\ JobGoto("rename")
  /\ UNCHANGED <<jobVars, part, loopVars, connVars, ctx, killed>>

RenamePart ==
  /\ jobPc = "rename" /\ job.op # "copyGet" /\ alive
  /\ dst = NoFile \/ (IsFile(dst) /\ "renameReplaces" \in Events)
  /\ dst' = part
  /\ part' = NoFile
  /\ JobGoto("chmod")
  /\ UNCHANGED <<jobVars, loopVars, connVars, ctx, killed>>

RenamePartFails ==
  /\ jobPc = "rename" /\ job.op # "copyGet"
  /\ Return("ERR_CANNOT_RENAME_PARTIAL")
  /\ UNCHANGED <<jobVars, fileVars, loopVars, connVars, ctx, killed>>

(* The permissions of the original, or the ones asked for; a refusal is    *)
(* shown to the user.  Owner and times are left out.                       *)
SetPermissions ==
  /\ jobPc = "chmod" /\ job.op # "copyGet"
  /\ LET asks == /\ job.permissions \/ ctx.origExists
                 /\ ~ctx.resume /\ worker.mCanSetPermissions
     IN worker' = IF asks /\ (refuses \/ ~alive)
                    THEN [worker EXCEPT !.mCanSetPermissions = FALSE, !.warnings = @ + 1]
                    ELSE worker
  /\ Return("pass")
  /\ UNCHANGED <<jobVars, fileVars, loopVars, alive, ctx, killed>>

-----------------------------------------------------------------------------
(* sftpCopyGet(). *)

(* The destination is looked at, the application asked whether to resume,  *)
(* and an unwanted part file removed, if that succeeds.                    *)
CheckGet ==
  /\ jobPc = "check"
  /\ \/ dst = Directory /\ Return("ERR_IS_DIRECTORY") /\ UNCHANGED <<part, ctx>>
     \/ IsFile(dst) /\ ~job.overwrite /\ Return("ERR_FILE_ALREADY_EXIST") /\ UNCHANGED <<part, ctx>>
     \/ /\ dst # Directory /\ (IsFile(dst) => job.overwrite)
        /\ UsesPart /\ part = Directory
        /\ Return("ERR_FILE_ALREADY_EXIST") /\ UNCHANGED <<part, ctx>>
     \/ /\ dst # Directory /\ (IsFile(dst) => job.overwrite)
        /\ ~(UsesPart /\ part = Directory)
        /\ \E r \in BOOLEAN :
             /\ r => /\ UsesPart /\ IsFile(part) /\ part # << >>
                     /\ Len(part) < Chunks \/ "resumeComplete" \in Events
             /\ ctx' = [ctx EXCEPT !.resume = r, !.origExists = dst # NoFile]
             /\ part' \in IF IsFile(part) /\ ~r THEN {part, NoFile} ELSE {part}
        /\ JobGoto("open")
  /\ UNCHANGED <<jobVars, dst, loopVars, connVars, killed>>

OpenGet ==
  /\ jobPc = "open" /\ job.op = "copyGet"
  /\ IF ctx.resume
       THEN at' = Len(part) /\ UNCHANGED fileVars
       ELSE Dest # Directory /\ SetDest(<< >>) /\ UNCHANGED at
  /\ JobGoto("login")
  /\ UNCHANGED <<jobVars, connVars, pos, pend, acks, ctx, killed>>

OpenGetFails ==
  /\ jobPc = "open" /\ job.op = "copyGet"
  /\ \E e \in IF ctx.resume THEN {"ERR_CANNOT_RESUME"}
              ELSE {"ERR_WRITE_ACCESS_DENIED", "ERR_CANNOT_OPEN_FOR_WRITING"} : Return(e)
  /\ UNCHANGED <<jobVars, fileVars, loopVars, connVars, ctx, killed>>

(* Mutant: the source is read from its start. *)
GetWithoutSeek ==
  /\ jobPc = "get" /\ alive
  /\ pos' = 0
  /\ JobGoto("copy")
  /\ UNCHANGED <<jobVars, fileVars, connVars, at, pend, acks, ctx, killed>>

(* The source is opened and, if the offset lies inside it, sought. *)
GetOpens ==
  /\ jobPc = "get" /\ alive
  /\ pos' = IF at > 0 /\ at < Chunks THEN at ELSE 0
  /\ JobGoto("copy")
  /\ UNCHANGED <<jobVars, fileVars, connVars, at, pend, acks, ctx, killed>>

GetOpenFails ==
  /\ jobPc = "get"
  /\ \E e \in {"ERR_DOES_NOT_EXIST", "ERR_IS_DIRECTORY", "ERR_CANNOT_OPEN_FOR_READING",
               "ERR_CANNOT_READ"} : GetFails(e)
  /\ UNCHANGED <<jobVars, fileVars, loopVars, connVars, killed>>

CopyChunk ==
  /\ jobPc = "copy" /\ ~killed /\ pos < Chunks /\ alive
  /\ SetDest(WriteAt(Dest, at, pos + 1))
  /\ pos' = pos + 1
  /\ at' = at + 1
  /\ UNCHANGED <<jobVars, connVars, pend, acks, jobPc, ctx, result, killed>>

(* Reading fails, or writeToFile() does. *)
CopyFails ==
  /\ jobPc = "copy" /\ ~killed /\ pos < Chunks
  /\ \/ GetFails("ERR_CANNOT_READ")
     \/ alive /\ \E e \in {"ERR_DISK_FULL", "ERR_CANNOT_WRITE"} : GetFails(e)
  /\ UNCHANGED <<jobVars, fileVars, loopVars, connVars, killed>>

(* Mutant: a killed job does not leave the loop. *)
CopyEndsUnkilled ==
  /\ jobPc = "copy"
  /\ pos = Chunks
  /\ JobGoto("closeLocal")
  /\ UNCHANGED <<jobVars, fileVars, loopVars, connVars, ctx, killed>>

(* A kill ends the loop with a passing result. *)
CopyEnds ==
  /\ jobPc = "copy"
  /\ killed \/ pos = Chunks
  /\ JobGoto("closeLocal")
  /\ UNCHANGED <<jobVars, fileVars, loopVars, connVars, ctx, killed>>

(* When closing fails the error is noted, and what follows looks at        *)
(* getResult only.                                                         *)
CloseGet ==
  /\ jobPc = "closeLocal"
  /\ \/ UNCHANGED <<fileVars, result>>
     \/ /\ "closeFails" \in Events
        /\ ctx.ok /\ Dest # << >>
        /\ result' = "ERR_CANNOT_WRITE"
        /\ SetDest(SubSeq(Dest, 1, Len(Dest) - 1))
  /\ jobPc' = IF UsesPart THEN "rename" ELSE "chmod"
  /\ UNCHANGED <<jobVars, loopVars, connVars, ctx, killed>>

(* Mutant: the destination is removed before the first attempt and         *)
(* whatever became of the transfer.                                        *)
PublishRemovesFirst ==
  /\ jobPc = "rename" /\ job.op = "copyGet"
  /\ dst' = NoFile
  /\ jobPc' = IF ctx.ok THEN "renameAgain" ELSE "chmod"
  /\ UNCHANGED <<jobVars, part, loopVars, connVars, ctx, result, killed>>

(* QFile::rename() does not replace: an existing destination is removed    *)
(* after the first attempt has failed.                                     *)
Publish ==
  /\ jobPc = "rename" /\ job.op = "copyGet" /\ ctx.ok
  /\ \/ dst = NoFile /\ dst' = part /\ part' = NoFile /\ JobGoto("chmod")
     \/ ctx.origExists /\ IsFile(dst) /\ dst' = NoFile /\ UNCHANGED part /\ JobGoto("renameAgain")
     \/ jobPc' = "chmod" /\ result' = "ERR_CANNOT_RENAME_PARTIAL" /\ UNCHANGED fileVars
  /\ UNCHANGED <<jobVars, loopVars, connVars, ctx, killed>>

PublishAgain ==
  /\ jobPc = "renameAgain"
  /\ \/ dst' = part /\ part' = NoFile /\ JobGoto("chmod")
     \/ jobPc' = "chmod" /\ result' = "ERR_CANNOT_RENAME_PARTIAL" /\ UNCHANGED fileVars
  /\ UNCHANGED <<jobVars, loopVars, connVars, ctx, killed>>

KeepOrRemovePart ==
  /\ jobPc = "rename" /\ job.op = "copyGet" /\ ~ctx.ok
  /\ part' \in IF IsFile(part) /\ Len(part) < MinKeep THEN {part, NoFile} ELSE {part}
  /\ JobGoto("chmod")
  /\ UNCHANGED <<jobVars, dst, loopVars, connVars, ctx, killed>>

(* The permissions of whatever is at the destination now; when they cannot *)
(* be set, the job passes.                                                 *)
FinishGet ==
  /\ jobPc = "chmod" /\ job.op = "copyGet"
  /\ \/ Return(result)
     \/ /\ "localChmodFails" \in Events
        /\ job.permissions /\ dst # NoFile
        /\ Return("pass")
  /\ UNCHANGED <<jobVars, fileVars, loopVars, connVars, ctx, killed>>

-----------------------------------------------------------------------------
(* What happens to the worker. *)

Kill ==
  /\ jobPc # "end" /\ ~killed
  /\ killed' = TRUE
  /\ UNCHANGED <<jobVars, fileVars, loopVars, connVars, jobPc, ctx, result>>

(* The worker's process dies; what it has sent may still arrive. *)
Crash ==
  /\ jobPc # "end" /\ pend = << >>
  /\ Return("crashed")
  /\ worker' = NewWorker
  /\ alive' = FALSE
  /\ UNCHANGED <<jobVars, fileVars, loopVars, ctx, killed>>

ConnectionBreaks ==
  /\ jobPc # "end" /\ alive
  /\ alive' = FALSE
  /\ UNCHANGED <<jobVars, fileVars, loopVars, worker, jobPc, ctx, result, killed>>

(* Between two jobs: a killed worker is replaced, an idle one closes its   *)
(* connection, as does another setHost().                                  *)
JobDisconnects ==
  /\ jobPc = "end" /\ worker.mConnected /\ jobs < MaxJobs
  /\ worker' = NewWorker
  /\ alive' = FALSE
  /\ UNCHANGED <<jobVars, fileVars, loopVars, jobPc, ctx, result, killed>>

PutStep ==
  \/ SourceChecked \/ JobLogin \/ JobLoginFails \/ StatFiles \/ SeekSourceFails
  \/ CheckExists \/ OpenPut \/ OpenPutFails \/ FillQueue \/ TakeOldest
  \/ QueueFails \/ Answer \/ NoAnswer \/ WriteEnds \/ ServerWrites \/ Abort
  \/ ClosePut \/ UnlinkOriginal \/ RenamePart \/ RenamePartFails \/ SetPermissions

GetStep ==
  \/ CheckGet \/ OpenGet \/ OpenGetFails \/ GetOpens \/ GetOpenFails
  \/ CopyChunk \/ CopyFails \/ CopyEnds \/ CloseGet \/ Publish \/ PublishAgain
  \/ KeepOrRemovePart \/ FinishGet

JobStep == PutStep \/ GetStep

Finished == jobPc = "end" /\ jobs = MaxJobs /\ UNCHANGED transferVars

TransferNext ==
  \/ StartJob \/ JobStep
  \/ Kill \/ Crash \/ ConnectionBreaks \/ JobDisconnects
  \/ Finished

(* Every call of a job returns and the server answers. *)
TransferSpec == TransferInit /\ [][TransferNext]_transferVars /\ WF_transferVars(JobStep)

-----------------------------------------------------------------------------
FileSet == {NoFile, Directory} \union Seq(0 .. Chunks)

(* Type invariant. *)
TransferTypeOK ==
  /\ side \in {"local", "remote"} /\ refuses \in BOOLEAN
  /\ {dst, part, old} \subseteq FileSet
  /\ job \in JobSet
  /\ ctx \in [resume : BOOLEAN, origExists : BOOLEAN, ok : BOOLEAN, end : BOOLEAN, failed : BOOLEAN]
  /\ pos \in 0 .. Chunks /\ at \in Nat /\ jobs \in 0 .. MaxJobs
  /\ pend \in Seq([chunk : 1 .. Chunks, at : Nat]) /\ acks \in Seq(BOOLEAN)
  /\ worker \in [mConnected : BOOLEAN, mCanSetPermissions : BOOLEAN, warnings : Nat]
  /\ killed \in BOOLEAN /\ alive \in BOOLEAN

(* Whatever sequence of jobs failed, was killed or crashed with several    *)
(* writes under way: a part file (kio_sftp.cpp:1486) can be resumed at its *)
(* size, it is a beginning of the source.                                  *)
PartIsPrefix == IsFile(part) => IsPrefixOfSource(part)

(* A job that passes and was not killed has put the whole source at the    *)
(* destination, resumed or not (sftpPut, sftpCopyGet).                     *)
SuccessIsComplete ==
  jobPc = "end" /\ jobs > 0 /\ result = "pass" /\ ~killed => dst = Source

(* With MarkPartial the destination is the old one or the complete new one *)
(* at every moment, or it is missing and the part file holds all of the    *)
(* source; except after a kill, which leaves the loops of                  *)
(* kio_sftp.cpp:1417 and 1579 as if the data had ended.                    *)
ContentSafe ==
  job.markPartial /\ ~killed =>
    \/ dst \in {old, Source}
    \/ dst = NoFile /\ part = Source

(* What was there is replaced only by a job that was given KIO::Overwrite  *)
(* or KIO::Resume; every path through sftpPut and sftpCopyGet tests it.    *)
NoUninvitedOverwrite ==
  dst # old /\ old # NoFile => job.overwrite \/ job.resume

(* A server that refuses permissions is asked once and then left alone     *)
(* (comments at kio_sftp.cpp:1648 and kio_sftp.h:95): at most one          *)
(* warning per connection.                                                 *)
AskedOnce == worker.warnings <= 1

(* Transfers: the part file is a prefix of the source with its values in   *)
(* range, and a transfer that passes has put all of the source there.      *)
TransfersSound == TransferTypeOK /\ PartIsPrefix /\ SuccessIsComplete
(* The destination is at every moment nothing, what it was or all of a     *)
(* source, and it is replaced only where the caller allowed it.            *)
DestinationSafe == ContentSafe /\ NoUninvitedOverwrite

(* Every job ends, whatever fails. *)
JobsEnd == jobPc # "end" ~> jobPc = "end"
=============================================================================
