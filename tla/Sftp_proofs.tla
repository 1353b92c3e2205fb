---------------------------- MODULE Sftp_proofs ----------------------------
(***************************************************************************)
(* Proofs about SFTP.  Of SftpTransfer, for every length of the source,    *)
(* threshold for part files, number of writes under way and number of      *)
(* jobs: nothing is replaced uninvited, a part file holds a beginning of   *)
(* the source however its writes were answered, and a job that passes has  *)
(* put all of the source there.  Each theorem names the events it assumes  *)
(* away.  Of SftpAsyncRead, for every size, chunk size and number of       *)
(* requests: the type invariant, the bound on the requests, the order and  *)
(* completeness of the data, and that it implements SequentialRead.  Of    *)
(* SftpSession and SftpNames, for every set of users, names, URLs and      *)
(* methods and any number of logins and commands: whom a command runs as,  *)
(* which passwords are cached, to which session the open file belongs, and *)
(* what happens to names.                                                  *)
(***************************************************************************)
EXTENDS SftpTransfer, SftpAsyncRead, SftpNames, SequenceTheorems, TLAPS

-----------------------------------------------------------------------------
(* Who may write where, whatever the files hold. *)

Protected == old # NoFile /\ ~job.overwrite /\ ~job.resume

(* Where an operation can be. *)
PutPcs == {"source", "login", "stat", "exists", "open", "write", "wait", "abort", "close", "unlink", "rename", "chmod", "end"}
GetPcs == {"check", "open", "login", "get", "copy", "closeLocal", "rename", "renameAgain", "chmod", "end"}
ControlInv ==
  /\ job \in JobSet
  /\ ctx \in [resume : BOOLEAN, origExists : BOOLEAN, ok : BOOLEAN, end : BOOLEAN, failed : BOOLEAN]
  /\ jobPc \in IF job.op = "copyGet" THEN GetPcs ELSE PutPcs
  /\ job.resume => job.op = "put"

(* sftpPut() has looked at the destination, if there was a connection      *)
(* left to look through; without one nothing will be opened.               *)
PutGuard == job.op # "copyGet" =>
  /\ jobPc \in {"source", "login", "stat", "exists", "open"} => dst = old /\ pend = << >>
  /\ jobPc \in {"exists", "open"} /\ ctx.resume => job.resume \/ UsesPart
  /\ jobPc = "exists" /\ alive => ctx.origExists = (dst # NoFile)
  /\ jobPc = "open" /\ alive => ~Protected \/ UsesPart
  /\ jobPc \in {"write", "wait", "abort", "close"} => ~Protected \/ UsesPart
  /\ jobPc \in {"write", "wait", "abort", "close", "unlink"} /\ UsesPart => dst = old
  /\ jobPc \in {"unlink", "rename"} => UsesPart
  /\ jobPc = "rename" => dst = old \/ (dst = NoFile /\ job.overwrite)
  /\ pend # << >> => ~Protected \/ UsesPart

(* sftpCopyGet() looks at its destination first. *)
GetGuard == job.op = "copyGet" =>
  /\ pend = << >>
  /\ jobPc = "check" => dst = old
  /\ jobPc \notin {"check", "end"} => ~Protected
  /\ jobPc \in {"open", "login", "get", "copy", "closeLocal", "rename"} /\ UsesPart => dst = old
  /\ jobPc \in {"rename", "renameAgain"} => UsesPart
  /\ jobPc = "renameAgain" => dst = NoFile

GuardInv ==
  /\ ControlInv /\ PutGuard /\ GetGuard
  /\ "renameReplaces" \notin Events => NoUninvitedOverwrite

LEMMA GuardInit == TransferInit => GuardInv
<1> SUFFICES ASSUME TransferInit PROVE GuardInv
  OBVIOUS
<1>1. job \in JobSet /\ job.op = "put" /\ ~job.resume /\ jobPc = "end" /\ ctx = NoContext /\ dst = old /\ pend = << >>
  BY DEF TransferInit
<1>2. ControlInv
  BY <1>1 DEF ControlInv, PutPcs, NoContext
<1>3. PutGuard /\ GetGuard /\ NoUninvitedOverwrite
  BY <1>1 DEF PutGuard, GetGuard, NoUninvitedOverwrite
<1> QED
  BY <1>2, <1>3 DEF GuardInv

(* What sftpPut() has made of the two lstat(). *)
LEMMA StatFacts ==
  ASSUME ControlInv, StatFiles
  PROVE  /\ ctx' \in [resume : BOOLEAN, origExists : BOOLEAN, ok : BOOLEAN, end : BOOLEAN, failed : BOOLEAN]
         /\ ctx'.resume => job.resume \/ MayResume
         /\ ~MayResume => ctx'.resume = job.resume
         /\ ctx'.origExists = (alive /\ dst # NoFile)
         /\ ctx'.ok = ctx.ok /\ ctx'.end = ctx.end /\ ctx'.failed = ctx.failed
         /\ pos' = IF MayResume /\ ctx'.resume THEN Len(part) ELSE 0
<1>1. PICK r \in BOOLEAN :
        /\ ctx' = [ctx EXCEPT !.resume = r, !.origExists = alive /\ dst # NoFile]
        /\ pos' = IF MayResume /\ r THEN Len(part) ELSE 0
        /\ ~MayResume => r = job.resume
  BY DEF StatFiles, ControlInv, JobSet
<1>2. (alive /\ dst # NoFile) \in BOOLEAN
  OBVIOUS
<1> QED
  BY <1>1, <1>2 DEF ControlInv

LEMMA ControlStep == ControlInv /\ PutGuard /\ GetGuard /\ [TransferNext]_transferVars => ControlInv'
<1> SUFFICES ASSUME ControlInv, PutGuard, GetGuard, [TransferNext]_transferVars PROVE ControlInv'
  OBVIOUS
<1> USE DEF ControlInv, PutPcs, GetPcs, jobVars, Return, JobGoto, GetFails
<1>1. CASE StartJob
  <2>1. job' \in JobSet /\ (job'.resume => job'.op = "put") /\ ctx' = [NoContext EXCEPT !.resume = job'.resume]
        /\ jobPc' = CASE job'.op = "put" -> "login" [] job'.op = "copyPut" -> "source" [] job'.op = "copyGet" -> "check"
    BY <1>1 DEF StartJob
  <2> QED
    BY <2>1 DEF JobSet, NoContext
<1>2. CASE SourceChecked \/ JobLogin \/ JobLoginFails
  BY <1>2 DEF SourceChecked, JobLogin, JobLoginFails
<1>11. CASE StatFiles \/ SeekSourceFails
  BY <1>11, StatFacts DEF StatFiles, SeekSourceFails
<1>3. CASE CheckExists \/ OpenPut \/ OpenPutFails
  BY <1>3 DEF CheckExists, OpenPut, OpenPutFails
<1>4. CASE FillQueue \/ TakeOldest \/ QueueFails
  BY <1>4 DEF FillQueue, TakeOldest, QueueFails, QueueLost
<1>5. CASE Answer \/ NoAnswer \/ WriteEnds \/ ServerWrites \/ Abort
  BY <1>5 DEF Answer, NoAnswer, WriteEnds, ServerWrites, Abort
<1>6. CASE ClosePut \/ UnlinkOriginal \/ RenamePart \/ RenamePartFails \/ SetPermissions
  BY <1>6 DEF ClosePut, UnlinkOriginal, RenamePart, RenamePartFails, SetPermissions
<1>7. CASE CheckGet \/ OpenGet \/ OpenGetFails \/ GetOpens \/ GetOpenFails
  BY <1>7 DEF CheckGet, OpenGet, OpenGetFails, GetOpens, GetOpenFails
<1>8. CASE CopyChunk \/ CopyFails \/ CopyEnds \/ CloseGet
  BY <1>8 DEF CopyChunk, CopyFails, CopyEnds, CloseGet
<1>9. CASE Publish \/ PublishAgain \/ KeepOrRemovePart \/ FinishGet
  BY <1>9 DEF Publish, PublishAgain, KeepOrRemovePart, FinishGet
<1>10. CASE Kill \/ Crash \/ ConnectionBreaks \/ JobDisconnects \/ Finished \/ UNCHANGED transferVars
  BY <1>10 DEF Kill, Crash, ConnectionBreaks, JobDisconnects, Finished, transferVars
<1> QED
  BY <1>1, <1>2, <1>3, <1>4, <1>5, <1>6, <1>7, <1>8, <1>9, <1>10, <1>11 DEF TransferNext, JobStep, PutStep, GetStep

(* How each step may change the destination. *)
LEMMA GuardStep == GuardInv /\ [TransferNext]_transferVars => GuardInv'
<1> SUFFICES ASSUME GuardInv, [TransferNext]_transferVars
             PROVE  PutGuard' /\ GetGuard' /\ ("renameReplaces" \notin Events => NoUninvitedOverwrite')
  BY ControlStep DEF GuardInv
<1>c. ControlInv
  BY DEF GuardInv
<1> USE DEF GuardInv, PutGuard, GetGuard, NoUninvitedOverwrite, Protected, UsesPart, PutPcs, GetPcs, jobVars,
            fileVars, loopVars, connVars, Return, JobGoto
<1>1. CASE StartJob
  <2>1. /\ old' = dst /\ dst' = dst /\ pend' = << >> /\ job' \in JobSet
        /\ jobPc' = CASE job'.op = "put" -> "login" [] job'.op = "copyPut" -> "source" [] job'.op = "copyGet" -> "check"
        /\ ctx' = [NoContext EXCEPT !.resume = job'.resume]
    BY <1>1 DEF StartJob
  <2>2. job'.op \in {"put", "copyPut", "copyGet"}
    BY <2>1 DEF JobSet
  <2> QED
    BY <2>1, <2>2 DEF NoContext
<1>2. CASE SourceChecked \/ JobLogin \/ JobLoginFails
  BY <1>2, <1>c DEF ControlInv, SourceChecked, JobLogin, JobLoginFails, GetFails
<1>3. CASE StatFiles \/ SeekSourceFails
  <2>1. CASE StatFiles
    <3>1. /\ job.op # "copyGet" /\ jobPc = "stat" /\ jobPc' = "exists" /\ UNCHANGED <<old, job, dst, pend, alive>>
      BY <2>1, <1>c DEF ControlInv, StatFiles
    <3>2. /\ ctx'.resume => job.resume \/ job.markPartial
          /\ ctx'.origExists = (alive /\ dst # NoFile)
      BY <2>1, <1>c, StatFacts DEF MayResume
    <3> QED
      BY <3>1, <3>2
  <2>2. CASE SeekSourceFails
    BY <2>2, <1>c DEF ControlInv, SeekSourceFails
  <2> QED
    BY <1>3, <2>1, <2>2
<1>4. CASE CheckExists
  BY <1>4, <1>c DEF ControlInv, CheckExists
<1>5. CASE OpenPut \/ OpenPutFails
  BY <1>5, <1>c DEF ControlInv, OpenPut, OpenPutFails, SetDest
<1>6. CASE FillQueue \/ TakeOldest \/ QueueFails
  BY <1>6, <1>c DEF ControlInv, FillQueue, TakeOldest, QueueFails, QueueLost
<1>7. CASE Answer \/ NoAnswer \/ WriteEnds
  BY <1>7, <1>c DEF ControlInv, Answer, NoAnswer, WriteEnds
<1>8. CASE ServerWrites
  BY <1>8, <1>c DEF ControlInv, ServerWrites, SetDest
<1>9. CASE Abort
  BY <1>9, <1>c DEF ControlInv, Abort
<1>10. CASE ClosePut \/ UnlinkOriginal
  BY <1>10, <1>c DEF ControlInv, ClosePut, UnlinkOriginal
<1>11. CASE RenamePart \/ RenamePartFails \/ SetPermissions
  BY <1>11, <1>c DEF ControlInv, RenamePart, RenamePartFails, SetPermissions
<1>12. CASE CheckGet \/ OpenGetFails \/ GetOpens \/ GetOpenFails
  BY <1>12, <1>c DEF ControlInv, CheckGet, OpenGetFails, GetOpens, GetOpenFails, GetFails, IsFile
<1>13. CASE OpenGet \/ CopyChunk \/ CopyFails \/ CopyEnds \/ CloseGet
  BY <1>13, <1>c DEF ControlInv, OpenGet, CopyChunk, CopyFails, CopyEnds, CloseGet, SetDest, GetFails
<1>14. CASE Publish \/ PublishAgain \/ KeepOrRemovePart \/ FinishGet
  BY <1>14, <1>c DEF ControlInv, Publish, PublishAgain, KeepOrRemovePart, FinishGet
<1>15. CASE Kill \/ Crash \/ ConnectionBreaks \/ JobDisconnects \/ Finished \/ UNCHANGED transferVars
  BY <1>15, <1>c DEF ControlInv, Kill, Crash, ConnectionBreaks, JobDisconnects, Finished, transferVars
<1> QED
  BY <1>1, <1>2, <1>3, <1>4, <1>5, <1>6, <1>7, <1>8, <1>9, <1>10, <1>11, <1>12, <1>13, <1>14, <1>15
  DEF TransferNext, JobStep, PutStep, GetStep

(* Whatever was found, or could not be looked for because the connection   *)
(* was broken, however many jobs were killed or crashed before: a          *)
(* destination goes only where KIO::Overwrite or KIO::Resume was given, as *)
(* long as sftp_rename() does not replace files.                           *)
THEOREM SftpNothingUninvited ==
  ASSUME "renameReplaces" \notin Events
  PROVE  TransferSpec => []NoUninvitedOverwrite
<1>1. GuardInv => NoUninvitedOverwrite
  BY DEF GuardInv
<1> QED
  BY <1>1, GuardInit, GuardStep, PTL DEF TransferSpec

-----------------------------------------------------------------------------
(* The beginnings of the source, by their length. *)
Beginning(n) == [i \in 1 .. n |-> i]
IsBeginning(f) == \E n \in 0 .. Chunks : f = Beginning(n)

LEMMA BeginningFacts ==
  ASSUME NEW n \in 0 .. Chunks
  PROVE  /\ SubSeq(Source, 1, n) = Beginning(n)
         /\ Beginning(n) \in Seq(0 .. Chunks)
         /\ Len(Beginning(n)) = n
         /\ IsFile(Beginning(n))
         /\ IsPrefixOfSource(Beginning(n))
<1>1. /\ SubSeq(Source, 1, n) = Beginning(n)
      /\ Beginning(n) \in Seq(0 .. Chunks)
      /\ Len(Beginning(n)) = n
  BY SftpConstants DEF Source, Beginning
<1> QED
  BY <1>1, SftpNoFile DEF IsFile, IsPrefixOfSource

(* A beginning grows by the next chunk of the source at its end, and       *)
(* shrinks to a beginning.                                                 *)
LEMMA BeginningGrows ==
  ASSUME NEW n \in 0 .. Chunks, n < Chunks
  PROVE  WriteAt(Beginning(n), n, n + 1) = Beginning(n + 1)
  BY SftpConstants DEF WriteAt, Beginning

LEMMA BeginningShrinks ==
  ASSUME NEW f, IsBeginning(f), f # << >>
  PROVE  IsBeginning(SubSeq(f, 1, Len(f) - 1))
<1>1. PICK n \in 0 .. Chunks : f = Beginning(n)
  BY DEF IsBeginning
<1>2. n # 0
  BY <1>1 DEF Beginning
<1>3. Len(f) = n /\ SubSeq(f, 1, n - 1) = Beginning(n - 1)
  BY <1>1, <1>2, SftpConstants DEF Beginning
<1>4. n - 1 \in 0 .. Chunks
  BY <1>2, SftpConstants
<1> QED
  BY <1>3, <1>4 DEF IsBeginning

LEMMA BeginningEnds ==
  /\ Beginning(0) = << >>
  /\ Beginning(Chunks) = Source
  /\ IsBeginning(<< >>)
<1>1. Beginning(0) = << >> /\ Beginning(Chunks) = Source /\ 0 \in 0 .. Chunks
  BY SftpConstants DEF Beginning, Source
<1> QED
  BY <1>1 DEF IsBeginning

LEMMA IsBeginningFacts ==
  ASSUME NEW f
  PROVE  /\ IsBeginning(f) => IsFile(f) /\ f \in Seq(0 .. Chunks) /\ Len(f) \in 0 .. Chunks /\ f = Beginning(Len(f))
         /\ IsBeginning(f) <=> IsPrefixOfSource(f)
  BY BeginningFacts DEF IsBeginning, IsPrefixOfSource

-----------------------------------------------------------------------------
(* The writes under way, up to chunk n: consecutive and each in its place. *)
Request == [chunk : 1 .. Chunks, at : Nat]
Chain(q, n) == \A i \in 1 .. Len(q) : q[i].chunk = n - Len(q) + i /\ q[i].at = q[i].chunk - 1

LEMMA ChainAppend ==
  ASSUME NEW q \in Seq(Request), NEW n \in 0 .. Chunks, n < Chunks, Chain(q, n),
         NEW r, r = [chunk |-> n + 1, at |-> n]
  PROVE  Append(q, r) \in Seq(Request) /\ Len(Append(q, r)) = Len(q) + 1 /\ Chain(Append(q, r), n + 1)
<1> DEFINE a == Append(q, r)
<1>1. r \in Request
  BY SftpConstants DEF Request
<1>2. a \in Seq(Request) /\ Len(a) = Len(q) + 1 /\ Len(q) \in Nat
  BY <1>1
<1>3. ASSUME NEW i \in 1 .. Len(a)
      PROVE  a[i].chunk = n + 1 - Len(a) + i /\ a[i].at = a[i].chunk - 1
  <2>1. CASE i = Len(q) + 1
    <3>1. a[i] = r
      BY <2>1
    <3> QED
      BY <3>1, <2>1, <1>2, SftpConstants
  <2>2. CASE i \in 1 .. Len(q)
    <3>1. a[i] = q[i]
      BY <2>2
    <3> QED
      BY <3>1, <2>2, <1>2, SftpConstants DEF Chain
  <2> QED
    BY <1>2, <2>1, <2>2
<1> HIDE DEF a
<1>4. Chain(a, n + 1)
  BY <1>3 DEF Chain
<1> QED
  BY <1>2, <1>4 DEF a

LEMMA ChainTail ==
  ASSUME NEW q \in Seq(Request), q # << >>, NEW n \in 0 .. Chunks, Len(q) <= n, Chain(q, n)
  PROVE  /\ Head(q).at = n - Len(q)
         /\ Head(q).chunk = n - Len(q) + 1
         /\ Tail(q) \in Seq(Request) /\ Len(Tail(q)) = Len(q) - 1
         /\ Chain(Tail(q), n)
         /\ n - Len(q) \in 0 .. Chunks /\ n - Len(q) < Chunks
<1>1. /\ Len(q) \in Nat \ {0} /\ Head(q) = q[1] /\ Tail(q) \in Seq(Request) /\ Len(Tail(q)) = Len(q) - 1
      /\ \A i \in 1 .. Len(q) - 1 : Tail(q)[i] = q[i + 1]
  OBVIOUS
<1>2. q[1].chunk = n - Len(q) + 1 /\ q[1].at = q[1].chunk - 1
  BY <1>1 DEF Chain
<1>3. ASSUME NEW i \in 1 .. Len(Tail(q))
      PROVE  Tail(q)[i].chunk = n - Len(Tail(q)) + i /\ Tail(q)[i].at = Tail(q)[i].chunk - 1
  <2>1. i + 1 \in 1 .. Len(q) /\ Tail(q)[i] = q[i + 1]
    BY <1>1
  <2>2. q[i + 1].chunk = n - Len(q) + (i + 1) /\ q[i + 1].at = q[i + 1].chunk - 1
    BY <2>1 DEF Chain
  <2> QED
    BY <1>1, <2>1, <2>2, SftpConstants
<1>4. n - Len(q) \in 0 .. Chunks /\ n - Len(q) < Chunks
  BY <1>1, SftpConstants
<1> QED
  BY <1>1, <1>2, <1>3, <1>4, SftpConstants DEF Chain

-----------------------------------------------------------------------------
(* What the files hold. *)

(* What there is to resume begins as the source does; nothing happens to   *)
(* it before it is opened.                                                 *)
BeforeInv ==
  /\ IsFile(part) => IsBeginning(part)
  /\ jobPc \in {"source", "login", "stat", "exists", "open"} /\ job.op # "copyGet" =>
       /\ at = 0 /\ ~ctx.failed
       /\ job.resume => ctx.resume /\ (IsFile(Dest) => IsBeginning(Dest))
       /\ jobPc \in {"source", "login", "stat"} => pos = 0
       /\ jobPc \in {"exists", "open"} =>
            IF ctx.resume /\ ~job.resume THEN IsFile(part) /\ pos = Len(part) ELSE pos = 0

(* What is under way are the chunks before pos, in order and without gaps, *)
(* and go where the destination ends; once the server has refused one, an  *)
(* answer says so that is not read yet, or the job has given up.           *)
InFlight ==
  /\ pos = at /\ Len(pend) <= pos /\ Chain(pend, pos)
  /\ IF ctx.failed THEN IsBeginning(Dest) ELSE Dest = Beginning(pos - Len(pend))
  /\ ctx.failed /\ jobPc # "abort" => \E i \in 1 .. Len(acks) : acks[i] = FALSE
WriteInv ==
  /\ jobPc \in {"write", "wait", "abort"} => InFlight
  /\ pend # << >> => jobPc \in {"write", "wait", "abort"}
  /\ jobPc = "close" => IsBeginning(Dest)
  /\ jobPc \in {"unlink", "rename", "renameAgain"} => IsBeginning(part)

(* The local file grows in step with what is read; a part file that is     *)
(* resumed is shorter than the source.                                     *)
GetInv == job.op = "copyGet" =>
  /\ jobPc \in {"check", "open"} => at = 0 /\ pos = 0
  /\ jobPc = "open" /\ ctx.resume => UsesPart /\ IsFile(part) /\ part # << >> /\ Len(part) < Chunks
  /\ jobPc \in {"login", "get"} => Dest = Beginning(at) /\ (at = 0 \/ at \in 1 .. Chunks - 1)
  /\ jobPc = "copy" => Dest = Beginning(pos) /\ at = pos /\ pos \in 0 .. Chunks
  /\ jobPc = "closeLocal" => IsBeginning(Dest)

DataInv == BeforeInv /\ WriteInv /\ GetInv

(* The server leaves no holes and a complete part file is not resumed.     *)
Contiguous == Events \cap {"resumeComplete", "writeHole"} = {}

LEMMA SetDestFacts ==
  ASSUME NEW f, SetDest(f), UNCHANGED job
  PROVE  /\ Dest' = f
         /\ UsesPart' = UsesPart
         /\ UsesPart => dst' = dst /\ part' = f
         /\ ~UsesPart => dst' = f /\ part' = part
  BY DEF SetDest, Dest, UsesPart

LEMMA SameDest ==
  ASSUME UNCHANGED <<job, dst, part>>
  PROVE  Dest' = Dest /\ UsesPart' = UsesPart
  BY DEF Dest, UsesPart

LEMMA TypeFacts ==
  ASSUME TransferTypeOK
  PROVE  /\ pos \in 0 .. Chunks /\ at \in Nat /\ pend \in Seq(Request) /\ acks \in Seq(BOOLEAN)
         /\ job \in JobSet /\ jobs \in 0 .. MaxJobs /\ killed \in BOOLEAN
         /\ ctx \in [resume : BOOLEAN, origExists : BOOLEAN, ok : BOOLEAN, end : BOOLEAN, failed : BOOLEAN]
         /\ Len(pend) \in Nat /\ Len(acks) \in Nat
         /\ (pend = << >> <=> Len(pend) = 0) /\ (acks = << >> <=> Len(acks) = 0)
<1>1. pend \in Seq(Request) /\ acks \in Seq(BOOLEAN)
  BY DEF TransferTypeOK, Request
<1>2. /\ Len(pend) \in Nat /\ Len(acks) \in Nat
      /\ (pend = << >> <=> Len(pend) = 0) /\ (acks = << >> <=> Len(acks) = 0)
  BY <1>1
<1> QED
  BY <1>1, <1>2 DEF TransferTypeOK

-----------------------------------------------------------------------------
(* The queue of writes. *)

LEMMA QueueKeeps ==
  ASSUME TransferTypeOK, InFlight, Queue, UNCHANGED <<job, dst, part, acks>>, ctx'.failed = ctx.failed,
         jobPc \in {"write", "wait"}
  PROVE  InFlight' /\ pos' \in 0 .. Chunks /\ at' \in Nat /\ pend' \in Seq(Request)
<1>1. /\ pos < Chunks /\ pos = at /\ pos' = pos + 1 /\ at' = pos + 1
      /\ pend' = Append(pend, [chunk |-> pos + 1, at |-> pos])
  BY TypeFacts, SftpConstants DEF Queue, AtEnd, InFlight
<1>2. pend' \in Seq(Request) /\ Len(pend') = Len(pend) + 1 /\ Chain(pend', pos')
  <2>1. pend \in Seq(Request) /\ pos \in 0 .. Chunks /\ Chain(pend, pos)
    BY TypeFacts DEF InFlight
  <2> QED
    BY <1>1, <2>1, ChainAppend
<1>3. pos' - Len(pend') = pos - Len(pend) /\ Len(pend') <= pos' /\ pos' \in 0 .. Chunks /\ at' \in Nat
  <2>1. Len(pend) <= pos
    BY DEF InFlight
  <2> QED
    BY <1>1, <1>2, <2>1, TypeFacts, SftpConstants
<1>4. Dest' = Dest
  BY SameDest
<1> QED
  BY <1>1, <1>2, <1>3, <1>4 DEF InFlight

LEMMA RefusalLater ==
  ASSUME NEW S, NEW q \in Seq(S), q # << >>, NEW i \in 1 .. Len(q), q[i] # Head(q)
  PROVE  \E j \in 1 .. Len(Tail(q)) : Tail(q)[j] = q[i]
<1>1. i # 1
  OBVIOUS
<1>2. i - 1 \in 1 .. Len(Tail(q)) /\ Tail(q)[i - 1] = q[i]
  BY <1>1
<1> QED
  BY <1>2

(* An answer that was read did not tell of the write that was refused, or  *)
(* the job gives up.                                                       *)
LEMMA AnswerKeeps ==
  ASSUME TransferTypeOK, InFlight, Answer
  PROVE  InFlight'
<1>1. /\ UNCHANGED <<job, dst, part, pos, at, pend, ctx>> /\ jobPc = "wait" /\ acks' = Tail(acks) /\ acks # << >>
      /\ jobPc' = "abort" \/ Head(acks) = TRUE
  <2>1. acks # << >> => Head(acks) \in BOOLEAN
    BY TypeFacts
  <2> QED
    BY <2>1 DEF Answer, jobVars, fileVars, JobGoto
<1>2. Dest' = Dest
  BY <1>1, SameDest
<1>3. ASSUME ctx.failed, jobPc' # "abort"
      PROVE  \E i \in 1 .. Len(acks') : acks'[i] = FALSE
  <2>1. PICK i \in 1 .. Len(acks) : acks[i] = FALSE
    BY <1>1, <1>3 DEF InFlight
  <2> QED
    BY <2>1, <1>1, <1>3, TypeFacts, RefusalLater
<1> QED
  BY <1>1, <1>2, <1>3 DEF InFlight

LEMMA ServerKeeps ==
  ASSUME Contiguous, TransferTypeOK, InFlight, ServerWrites
  PROVE  /\ InFlight' /\ IsBeginning(Dest')
         /\ pend' \in Seq(Request) /\ Len(pend') = Len(pend) - 1
<1>1. /\ pend # << >> /\ pend' = Tail(pend) /\ UNCHANGED <<job, pos, at, jobPc>>
      /\ \/ /\ ~ctx.failed /\ SetDest(WriteAt(Dest, Head(pend).at, Head(pend).chunk)) /\ UNCHANGED ctx
         \/ /\ acks' = Append(acks, FALSE) /\ ctx' = [ctx EXCEPT !.failed = TRUE] /\ UNCHANGED <<dst, part>>
  BY DEF ServerWrites, Contiguous, jobVars, fileVars
<1> DEFINE n == pos - Len(pend)
<1>2. /\ Head(pend).at = n /\ Head(pend).chunk = n + 1 /\ n \in 0 .. Chunks /\ n < Chunks
      /\ pend' \in Seq(Request) /\ Len(pend') = Len(pend) - 1 /\ Chain(pend', pos)
  BY <1>1, TypeFacts, ChainTail DEF InFlight
<1>3. n + 1 \in 0 .. Chunks /\ pos - Len(pend') = n + 1 /\ Len(pend') <= pos
  BY <1>2, TypeFacts, SftpConstants DEF InFlight
<1>4. CASE ~ctx.failed /\ SetDest(WriteAt(Dest, Head(pend).at, Head(pend).chunk)) /\ UNCHANGED ctx
  <2>1. Dest = Beginning(n)
    BY <1>4 DEF InFlight
  <2>2. Dest' = Beginning(n + 1)
    BY <1>4, <1>1, <1>2, <2>1, BeginningGrows, SetDestFacts
  <2> QED
    BY <1>1, <1>2, <1>3, <1>4, <2>2 DEF InFlight, IsBeginning
<1>5. CASE acks' = Append(acks, FALSE) /\ ctx' = [ctx EXCEPT !.failed = TRUE] /\ UNCHANGED <<dst, part>>
  <2>1. Dest' = Dest /\ IsBeginning(Dest)
    BY <1>5, <1>1, <1>2, SameDest DEF InFlight, IsBeginning
  <2>2. ctx'.failed
    BY <1>5, TypeFacts
  <2>3. Len(acks') \in 1 .. Len(acks') /\ acks'[Len(acks')] = FALSE
    BY <1>5, TypeFacts
  <2> QED
    BY <1>1, <1>2, <1>3, <2>1, <2>2, <2>3 DEF InFlight, IsBeginning
<1> QED
  BY <1>1, <1>4, <1>5

LEMMA DataInit == TransferInit => DataInv
<1> SUFFICES ASSUME TransferInit PROVE DataInv
  OBVIOUS
<1>1. /\ job.op = "put" /\ jobPc = "end" /\ pend = << >> /\ part \in {NoFile, Directory}
  BY DEF TransferInit
<1> QED
  BY <1>1 DEF DataInv, BeforeInv, WriteInv, GetInv, IsFile

LEMMA DataStep ==
  ASSUME Contiguous
  PROVE  GuardInv /\ TransferTypeOK /\ DataInv /\ [TransferNext]_transferVars => DataInv'
<1> SUFFICES ASSUME GuardInv, TransferTypeOK, DataInv, [TransferNext]_transferVars
             PROVE  DataInv'
  OBVIOUS
<1>c. /\ job \in JobSet /\ jobPc \in (IF job.op = "copyGet" THEN GetPcs ELSE PutPcs)
      /\ job.resume => job.op = "put"
  BY DEF GuardInv, ControlInv
<1>d. BeforeInv /\ WriteInv /\ GetInv
  BY DEF DataInv
<1>p. IsFile(part) => IsBeginning(part)
  BY <1>d DEF BeforeInv
<1>t. /\ pos \in 0 .. Chunks /\ at \in Nat /\ Chunks \in Nat /\ Len(pend) \in Nat /\ Len(acks) \in Nat
      /\ (pend = << >> <=> Len(pend) = 0) /\ (acks = << >> <=> Len(acks) = 0)
  BY TypeFacts, SftpConstants
<1>b. /\ Beginning(0) = << >> /\ IsBeginning(<< >>)
      /\ \A f : IsBeginning(f) => IsFile(f) /\ Len(f) \in 0 .. Chunks /\ f = Beginning(Len(f))
      /\ \A n \in 0 .. Chunks : IsBeginning(Beginning(n))
  BY BeginningEnds, IsBeginningFacts DEF IsBeginning
(* A step that leaves files and counters alone, and goes on to l. *)
<1>s. ASSUME UNCHANGED <<job, dst, part, pos, at, pend, acks, ctx>>, jobPc' = jobPc
      PROVE  DataInv'
  BY <1>s, <1>d, SameDest DEF DataInv, BeforeInv, WriteInv, GetInv, InFlight
<1>e. ASSUME UNCHANGED <<job, dst, part>>, jobPc' = "end", pend' = << >>
      PROVE  DataInv'
  BY <1>e, <1>p DEF DataInv, BeforeInv, WriteInv, GetInv
<1> USE DEF PutPcs, GetPcs
<1>1. CASE StartJob
  <2>1. /\ UNCHANGED <<dst, part>> /\ pos' = 0 /\ at' = 0 /\ pend' = << >> /\ job' \in JobSet
        /\ jobPc' = CASE job'.op = "put" -> "login" [] job'.op = "copyPut" -> "source" [] job'.op = "copyGet" -> "check"
        /\ ctx' = [NoContext EXCEPT !.resume = job'.resume]
        /\ job'.resume => (IsFile(Dest') => IsPrefixOfSource(Dest'))
    BY <1>1 DEF StartJob, fileVars, Dest, UsesPart
  <2>2. job'.op \in {"put", "copyPut", "copyGet"} /\ jobPc' \in {"login", "source", "check"}
        /\ (jobPc' = "login" => job'.op = "put") /\ (job'.op = "copyGet" => jobPc' = "check")
    BY <2>1 DEF JobSet
  <2>3. ctx'.resume = job'.resume /\ ~ctx'.failed
    BY <2>1 DEF NoContext
  <2>4. job'.resume => (IsFile(Dest') => IsBeginning(Dest'))
    BY <2>1, IsBeginningFacts
  <2> QED
    BY <2>1, <2>2, <2>3, <2>4, <1>p DEF DataInv, BeforeInv, WriteInv, GetInv
<1>2. CASE SourceChecked \/ JobLogin \/ JobLoginFails
  <2>1. /\ UNCHANGED <<job, dst, part, pos, at, pend, acks>> /\ jobPc \in {"source", "login"}
        /\ \/ jobPc' \in {"login", "stat", "end"} /\ job.op # "copyGet" /\ ctx' = ctx
           \/ jobPc' = "end" /\ job.op = "copyPut" /\ ctx' = ctx
           \/ jobPc' = "get" /\ job.op = "copyGet" /\ ctx' = ctx
           \/ jobPc' = "closeLocal" /\ job.op = "copyGet"
    BY <1>2, <1>c DEF SourceChecked, JobLogin, JobLoginFails, jobVars, fileVars, loopVars, JobGoto, Return, GetFails
  <2>2. pend = << >> /\ Dest' = Dest
    BY <2>1, <1>d, SameDest DEF WriteInv
  <2>3. CASE jobPc' = "closeLocal"
    <3>1. Dest = Beginning(at) /\ at \in 0 .. Chunks
      BY <2>1, <2>3, <1>c, <1>d, <1>t DEF GetInv
    <3> QED
      BY <2>1, <2>2, <2>3, <3>1, <1>p, <1>b DEF DataInv, BeforeInv, WriteInv, GetInv
  <2>4. CASE jobPc' # "closeLocal"
    BY <2>1, <2>2, <2>4, <1>c, <1>d DEF DataInv, BeforeInv, WriteInv, GetInv
  <2> QED
    BY <2>3, <2>4
<1>3. CASE StatFiles
  <2>1. /\ UNCHANGED <<job, dst, part, at, pend>> /\ jobPc = "stat" /\ jobPc' = "exists" /\ job.op # "copyGet"
    BY <1>3, <1>c DEF StatFiles, jobVars, fileVars, JobGoto
  <2>2. /\ ctx'.resume => job.resume \/ (IsFile(part) /\ ~job.resume /\ pos' = Len(part))
        /\ job.resume => ctx'.resume /\ pos' = 0
        /\ ~ctx'.resume => pos' = 0
        /\ ctx'.failed = ctx.failed
    BY <1>3, StatFacts DEF MayResume, GuardInv
  <2>3. Dest' = Dest
    BY <2>1, SameDest
  <2> QED
    BY <2>1, <2>2, <2>3, <1>d, <1>p DEF DataInv, BeforeInv, WriteInv, GetInv
<1>4. CASE SeekSourceFails \/ OpenPutFails \/ OpenGetFails
  BY <1>4, <1>d, <1>c, <1>e, <1>t DEF SeekSourceFails, OpenPutFails, OpenGetFails, WriteInv, jobVars, fileVars, loopVars, Return
<1>5. CASE CheckExists
  <2>1. /\ UNCHANGED <<job, dst, pos, at, pend, ctx>> /\ jobPc = "exists" /\ job.op # "copyGet"
        /\ \/ part' = part /\ jobPc' = "end"
           \/ /\ jobPc' = "open"
              /\ part' = part \/ (part' = NoFile /\ ~ctx.resume)
    BY <1>5, <1>c DEF CheckExists, jobVars, fileVars, loopVars, Return, JobGoto
  <2>2. ctx.resume => Dest' = Dest
    BY <2>1, SameDest
  <2> QED
    BY <2>1, <2>2, <1>d DEF DataInv, BeforeInv, WriteInv, GetInv, IsFile
<1>6. CASE OpenPut
  <2>1. /\ jobPc = "open" /\ job.op # "copyGet" /\ jobPc' = "write" /\ UNCHANGED <<job, pend, acks, ctx>>
        /\ IF ctx.resume THEN IsFile(Dest) /\ at' = Len(Dest) /\ UNCHANGED <<dst, part>>
                         ELSE SetDest(<< >>) /\ at' = at
        /\ pos' = IF job.resume THEN Len(Dest) ELSE pos
    BY <1>6 DEF OpenPut, JobGoto, jobVars, fileVars
  <2>2. pend = << >> /\ ~ctx.failed
    BY <2>1, <1>d DEF GuardInv, PutGuard, BeforeInv
  <2>3. Dest' = Beginning(pos') /\ pos' = at' /\ pos' \in 0 .. Chunks /\ IsBeginning(Dest')
    <3>1. CASE ~ctx.resume
      BY <3>1, <2>1, <1>d, <1>b, <1>t, SetDestFacts DEF BeforeInv
    <3>2. CASE ctx.resume /\ job.resume
      BY <3>2, <2>1, <1>d, <1>b, SameDest DEF BeforeInv
    <3>3. CASE ctx.resume /\ ~job.resume
      <4>1. Dest = part /\ pos = Len(part) /\ IsFile(part)
        BY <3>3, <2>1, <1>d DEF GuardInv, PutGuard, BeforeInv, Dest
      <4> QED
        BY <4>1, <3>3, <2>1, <1>b, <1>p, SameDest
    <3> QED
      BY <3>1, <3>2, <3>3
  <2>4. part' \in {part, Dest'}
    BY <2>1, SetDestFacts
  <2>5. Chain(pend', pos') /\ Len(pend') = 0
    BY <2>1, <2>2 DEF Chain
  <2>6. InFlight'
    BY <2>1, <2>2, <2>3, <2>5 DEF InFlight
  <2> QED
    BY <2>1, <2>2, <2>3, <2>4, <2>6, <1>p DEF DataInv, BeforeInv, WriteInv, GetInv
<1>7. CASE FillQueue \/ TakeOldest
  <2>1. /\ jobPc = "write" /\ jobPc' \in {"write", "wait"} /\ UNCHANGED <<job, dst, part, acks>> /\ ctx'.failed = ctx.failed
        /\ \/ Queue
           \/ UNCHANGED <<pos, at, pend>>
    BY <1>7, TypeFacts DEF FillQueue, TakeOldest, QueueLost, JobGoto, jobVars, fileVars
  <2>2. InFlight
    BY <2>1, <1>d DEF WriteInv
  <2>3. InFlight'
    <3>1. CASE Queue
      BY <3>1, <2>1, <2>2, QueueKeeps
    <3>2. CASE UNCHANGED <<pos, at, pend>>
      BY <3>2, <2>1, <2>2, SameDest DEF InFlight
    <3> QED
      BY <2>1, <3>1, <3>2
  <2> QED
    BY <2>1, <2>3, <1>c, <1>p DEF DataInv, BeforeInv, WriteInv, GetInv
<1>8. CASE Answer
  <2>1. /\ jobPc = "wait" /\ jobPc' \in {"write", "abort"} /\ UNCHANGED <<job, dst, part>>
    BY <1>8 DEF Answer, JobGoto, jobVars, fileVars
  <2>2. InFlight'
    BY <1>8, <2>1, <1>d, AnswerKeeps DEF WriteInv
  <2> QED
    BY <2>1, <2>2, <1>c, <1>p DEF DataInv, BeforeInv, WriteInv, GetInv
<1>9. CASE QueueFails \/ NoAnswer
  <2>1. /\ jobPc \in {"write", "wait"} /\ jobPc' = "abort" /\ UNCHANGED <<job, dst, part, pos, at, pend, acks, ctx>>
    BY <1>9 DEF QueueFails, NoAnswer, jobVars, fileVars, loopVars
  <2>2. InFlight'
    BY <2>1, <1>d, SameDest DEF WriteInv, InFlight
  <2> QED
    BY <2>1, <2>2, <1>c, <1>p DEF DataInv, BeforeInv, WriteInv, GetInv
<1>10. CASE WriteEnds
  <2>1. /\ jobPc = "write" /\ jobPc' = "close" /\ UNCHANGED <<job, dst, part, pos, at, pend, acks, ctx>> /\ UnderWay = 0
    BY <1>10 DEF WriteEnds, JobGoto, jobVars, fileVars, loopVars
  <2>2. Len(pend) = 0 /\ Len(acks) = 0
    BY <2>1, <1>t DEF UnderWay
  <2>3. Dest = Beginning(pos)
    BY <2>1, <2>2, <1>d, <1>t DEF WriteInv, InFlight
  <2>4. IsBeginning(Dest') /\ pend' = << >>
    BY <2>1, <2>2, <2>3, <1>b, <1>t, SameDest
  <2> QED
    BY <2>1, <2>4, <1>c, <1>p DEF DataInv, BeforeInv, WriteInv, GetInv
<1>11. CASE ServerWrites
  <2>1. pend # << >> /\ jobPc' = jobPc /\ job' = job
    BY <1>11 DEF ServerWrites, jobVars
  <2>2. jobPc \in {"write", "wait", "abort"} /\ InFlight
    BY <2>1, <1>d DEF WriteInv
  <2>3. InFlight' /\ IsBeginning(Dest')
    BY <1>11, <2>2, ServerKeeps
  <2>4. part' \in {part, Dest'}
    <3>1. part' = part \/ UsesPart
      BY <1>11 DEF ServerWrites, SetDest, fileVars
    <3> QED
      BY <2>1, <3>1 DEF Dest, UsesPart
  <2> QED
    BY <2>1, <2>2, <2>3, <2>4, <1>c, <1>p DEF DataInv, BeforeInv, WriteInv, GetInv
<1>12. CASE Abort
  <2>1. /\ jobPc' = "end" /\ UNCHANGED <<job, dst>> /\ part' \in {part, NoFile} /\ pend' = << >>
    BY <1>12 DEF Abort, jobVars, Return
  <2> QED
    BY <2>1, <1>p DEF DataInv, BeforeInv, WriteInv, GetInv, IsFile
<1>13. CASE ClosePut \/ UnlinkOriginal
  <2>1. /\ UNCHANGED <<job, part, pend, ctx>> /\ job.op # "copyGet"
        /\ \/ jobPc = "close" /\ jobPc' \in {"chmod", "end"}
           \/ jobPc = "close" /\ UsesPart /\ jobPc' = "unlink"
           \/ jobPc = "unlink" /\ jobPc' = "rename"
    BY <1>13, <1>c DEF ClosePut, UnlinkOriginal, jobVars, fileVars, loopVars, JobGoto, Return
  <2> QED
    BY <2>1, <1>d DEF DataInv, BeforeInv, WriteInv, GetInv, Dest
<1>14. CASE RenamePart \/ Publish \/ PublishAgain \/ KeepOrRemovePart \/ RenamePartFails
  <2>1. /\ UNCHANGED <<job, pend, ctx>> /\ part' \in {part, NoFile}
        /\ \/ jobPc' \in {"chmod", "end"}
           \/ jobPc = "rename" /\ jobPc' = "renameAgain" /\ part' = part
        /\ jobPc \in {"rename", "renameAgain"}
    BY <1>14 DEF RenamePart, Publish, PublishAgain, KeepOrRemovePart, RenamePartFails, jobVars, fileVars, loopVars, JobGoto, Return
  <2> QED
    BY <2>1, <1>d DEF DataInv, BeforeInv, WriteInv, GetInv, IsFile
<1>15. CASE SetPermissions \/ FinishGet
  BY <1>15, <1>d, <1>e DEF SetPermissions, FinishGet, WriteInv, jobVars, fileVars, loopVars, Return
<1>16. CASE CheckGet
  <2>1. /\ UNCHANGED <<job, dst, pos, at, pend>> /\ jobPc = "check"
        /\ \/ part' = part /\ jobPc' = "end"
           \/ /\ jobPc' = "open" /\ part' \in {part, NoFile}
              /\ ctx'.resume => UsesPart /\ IsFile(part) /\ part # << >> /\ Len(part) < Chunks /\ part' = part
    BY <1>16, TypeFacts DEF CheckGet, JobGoto, Return, jobVars, loopVars, Contiguous
  <2>2. job.op = "copyGet" /\ pend = << >> /\ UsesPart' = UsesPart
    BY <2>1, <1>c DEF GuardInv, GetGuard, UsesPart
  <2> QED
    BY <2>1, <2>2, <1>d DEF DataInv, BeforeInv, WriteInv, GetInv, IsFile
<1>17. CASE OpenGet
  <2>1. /\ jobPc = "open" /\ job.op = "copyGet" /\ jobPc' = "login" /\ UNCHANGED <<job, pos, pend, ctx>>
        /\ IF ctx.resume THEN at' = Len(part) /\ UNCHANGED <<dst, part>>
                         ELSE SetDest(<< >>) /\ at' = at
    BY <1>17 DEF OpenGet, JobGoto, jobVars, fileVars
  <2>2. pend = << >> /\ at = 0
    BY <2>1, <1>d DEF GuardInv, GetGuard, GetInv
  <2>3. Dest' = Beginning(at') /\ (at' = 0 \/ at' \in 1 .. Chunks - 1) /\ part' \in {part, << >>}
    <3>1. CASE ctx.resume
      <4>1. Dest = part /\ IsFile(part) /\ part # << >> /\ Len(part) < Chunks
        BY <3>1, <2>1, <1>d DEF GetInv, Dest
      <4>2. Len(part) \in 1 .. Chunks - 1
        BY <4>1, <1>p, <1>b, <1>t
      <4> QED
        BY <4>1, <4>2, <3>1, <2>1, <1>p, <1>b, SameDest
    <3>2. CASE ~ctx.resume
      BY <3>2, <2>1, <2>2, <1>b, SetDestFacts
    <3> QED
      BY <3>1, <3>2
  <2> QED
    BY <2>1, <2>2, <2>3, <1>p, <1>b DEF DataInv, BeforeInv, WriteInv, GetInv
<1>18. CASE GetOpens \/ GetOpenFails
  <2>1. /\ jobPc = "get" /\ UNCHANGED <<job, dst, part, at, pend>>
        /\ \/ jobPc' = "copy" /\ pos' = IF at > 0 /\ at < Chunks THEN at ELSE 0
           \/ jobPc' = "closeLocal"
    BY <1>18 DEF GetOpens, GetOpenFails, GetFails, JobGoto, jobVars, fileVars, loopVars
  <2>2. job.op = "copyGet" /\ pend = << >>
    BY <2>1, <1>c DEF GuardInv, GetGuard
  <2>3. Dest' = Dest /\ Dest = Beginning(at) /\ (at = 0 \/ at \in 1 .. Chunks - 1)
    BY <2>1, <2>2, <1>d, SameDest DEF GetInv
  <2>4. (jobPc' = "copy" => pos' = at) /\ at \in 0 .. Chunks
    BY <2>1, <2>3, <1>t
  <2> QED
    BY <2>1, <2>2, <2>3, <2>4, <1>p, <1>b DEF DataInv, BeforeInv, WriteInv, GetInv
<1>19. CASE CopyChunk
  <2>1. /\ jobPc = "copy" /\ pos < Chunks /\ SetDest(WriteAt(Dest, at, pos + 1)) /\ pos' = pos + 1 /\ at' = at + 1
        /\ UNCHANGED <<job, pend, jobPc>>
    BY <1>19 DEF CopyChunk, jobVars
  <2>2. job.op = "copyGet" /\ pend = << >> /\ Dest = Beginning(pos) /\ at = pos
    BY <2>1, <1>c, <1>d DEF GuardInv, GetGuard, GetInv
  <2>3. Dest' = Beginning(pos + 1) /\ pos + 1 \in 0 .. Chunks
    BY <2>1, <2>2, <1>t, BeginningGrows, SetDestFacts
  <2>4. part' \in {part, Dest'}
    BY <2>1, <2>3, SetDestFacts
  <2> QED
    BY <2>1, <2>2, <2>3, <2>4, <1>p, <1>b DEF DataInv, BeforeInv, WriteInv, GetInv
<1>20. CASE CopyFails \/ CopyEnds
  <2>1. /\ jobPc = "copy" /\ jobPc' = "closeLocal" /\ UNCHANGED <<job, dst, part, pend>>
    BY <1>20 DEF CopyFails, CopyEnds, GetFails, JobGoto, jobVars, fileVars, loopVars
  <2>2. job.op = "copyGet" /\ pend = << >> /\ Dest = Beginning(pos) /\ Dest' = Dest
    BY <2>1, <1>c, <1>d, SameDest DEF GuardInv, GetGuard, GetInv
  <2> QED
    BY <2>1, <2>2, <1>p, <1>b, <1>t DEF DataInv, BeforeInv, WriteInv, GetInv
<1>21. CASE CloseGet
  <2>1. /\ jobPc = "closeLocal" /\ jobPc' = (IF UsesPart THEN "rename" ELSE "chmod") /\ UNCHANGED <<job, pend>>
        /\ \/ UNCHANGED <<dst, part>>
           \/ Dest # << >> /\ SetDest(SubSeq(Dest, 1, Len(Dest) - 1))
    BY <1>21 DEF CloseGet, jobVars, fileVars, loopVars
  <2>2. job.op = "copyGet" /\ pend = << >> /\ IsBeginning(Dest)
    BY <2>1, <1>c, <1>d DEF GuardInv, GetGuard, GetInv
  <2>3. IsBeginning(Dest') /\ part' \in {part, Dest'} /\ (UsesPart => Dest' = part')
    BY <2>1, <2>2, BeginningShrinks, SameDest, SetDestFacts DEF Dest
  <2> QED
    BY <2>1, <2>2, <2>3, <1>p DEF DataInv, BeforeInv, WriteInv, GetInv
<1>22. CASE Kill \/ ConnectionBreaks \/ JobDisconnects \/ Finished \/ UNCHANGED transferVars
  BY <1>22, <1>s DEF Kill, ConnectionBreaks, JobDisconnects, Finished, transferVars, jobVars, fileVars, loopVars
<1>23. CASE Crash
  BY <1>23, <1>e DEF Crash, Return, jobVars, fileVars, loopVars
<1> QED
  BY <1>1, <1>2, <1>3, <1>4, <1>5, <1>6, <1>7, <1>8, <1>9, <1>10, <1>11, <1>12, <1>13, <1>14, <1>15, <1>16, <1>17,
     <1>18, <1>19, <1>20, <1>21, <1>22, <1>23 DEF TransferNext, JobStep, PutStep, GetStep

-----------------------------------------------------------------------------
(* Types: what is not a matter of what the files hold, the files, and how  *)
(* far the job is.                                                         *)
Workers == [mConnected : BOOLEAN, mCanSetPermissions : BOOLEAN, warnings : Nat]
SettingsOK ==
  /\ side \in {"local", "remote"} /\ refuses \in BOOLEAN /\ killed \in BOOLEAN /\ alive \in BOOLEAN
  /\ worker \in Workers /\ jobs \in 0 .. MaxJobs
FilesOK == {dst, part, old} \subseteq FileSet
CountersOK == pos \in 0 .. Chunks /\ at \in Nat /\ pend \in Seq(Request) /\ acks \in Seq(BOOLEAN)

LEMMA TypeParts ==
  TransferTypeOK <=> /\ SettingsOK /\ FilesOK /\ CountersOK /\ job \in JobSet
                     /\ ctx \in [resume : BOOLEAN, origExists : BOOLEAN, ok : BOOLEAN, end : BOOLEAN, failed : BOOLEAN]
  BY DEF TransferTypeOK, SettingsOK, FilesOK, CountersOK, Request, Workers

LEMMA WorkerChanges ==
  /\ NewWorker \in Workers
  /\ [NewWorker EXCEPT !.mConnected = TRUE] \in Workers
  /\ \A w \in Workers : /\ [w EXCEPT !.mCanSetPermissions = TRUE] \in Workers
                        /\ [w EXCEPT !.mCanSetPermissions = FALSE, !.warnings = @ + 1] \in Workers
<1>1. NewWorker \in Workers /\ [NewWorker EXCEPT !.mConnected = TRUE] \in Workers
  BY DEF Workers, NewWorker
<1>2. ASSUME NEW w \in Workers
      PROVE  /\ [w EXCEPT !.mCanSetPermissions = TRUE] \in Workers
             /\ [w EXCEPT !.mCanSetPermissions = FALSE, !.warnings = @ + 1] \in Workers
  <2>1. w.warnings + 1 \in Nat
    BY DEF Workers
  <2>2. [w EXCEPT !.mCanSetPermissions = TRUE] \in Workers
    BY DEF Workers
  <2>3. [w EXCEPT !.mCanSetPermissions = FALSE, !.warnings = @ + 1] \in Workers
    BY <2>1 DEF Workers
  <2> QED
    BY <2>2, <2>3
<1> QED
  BY <1>1, <1>2

LEMMA SettingsStep == SettingsOK /\ [TransferNext]_transferVars => SettingsOK'
<1> SUFFICES ASSUME SettingsOK, [TransferNext]_transferVars PROVE SettingsOK'
  OBVIOUS
<1> USE DEF SettingsOK, jobVars, connVars
<1>1. CASE StartJob
  <2>1. UNCHANGED <<side, refuses, worker, alive>> /\ killed' = FALSE
    BY <1>1 DEF StartJob
  <2>2. jobs' \in 0 .. MaxJobs
    BY <1>1, SftpConstants DEF StartJob
  <2> QED
    BY <2>1, <2>2, Zenon
<1>2. CASE SourceChecked \/ StatFiles \/ SeekSourceFails
  BY <1>2 DEF SourceChecked, StatFiles, SeekSourceFails
<1>3. CASE JobLogin \/ JobLoginFails
  <2>1. UNCHANGED <<side, refuses, jobs, killed>> /\ (alive' = alive \/ alive' = TRUE)
    BY <1>3 DEF JobLogin, JobLoginFails
  <2>2. worker' \in Workers
    BY <1>3, WorkerChanges DEF JobLogin, JobLoginFails
  <2> QED
    BY <2>1, <2>2, Zenon
<1>4. CASE CheckExists \/ OpenPut \/ OpenPutFails \/ FillQueue \/ TakeOldest \/ QueueFails
  BY <1>4 DEF CheckExists, OpenPut, OpenPutFails, FillQueue, TakeOldest, QueueFails
<1>5. CASE Answer \/ NoAnswer \/ WriteEnds \/ ServerWrites \/ Abort
  BY <1>5 DEF Answer, NoAnswer, WriteEnds, ServerWrites, Abort
<1>6. CASE ClosePut \/ UnlinkOriginal \/ RenamePart \/ RenamePartFails
  BY <1>6 DEF ClosePut, UnlinkOriginal, RenamePart, RenamePartFails
<1>7. CASE SetPermissions
  <2>1. UNCHANGED <<side, refuses, jobs, killed, alive>>
    BY <1>7 DEF SetPermissions
  <2>2. worker' \in Workers
    BY <1>7, WorkerChanges DEF SetPermissions
  <2> QED
    BY <2>1, <2>2, Zenon
<1>8. CASE CheckGet \/ OpenGet \/ OpenGetFails \/ GetOpens \/ GetOpenFails
  BY <1>8 DEF CheckGet, OpenGet, OpenGetFails, GetOpens, GetOpenFails
<1>9. CASE CopyChunk \/ CopyFails \/ CopyEnds \/ CloseGet
  BY <1>9 DEF CopyChunk, CopyFails, CopyEnds, CloseGet
<1>10. CASE Publish \/ PublishAgain \/ KeepOrRemovePart \/ FinishGet
  BY <1>10 DEF Publish, PublishAgain, KeepOrRemovePart, FinishGet
<1>11. CASE Kill \/ Crash \/ ConnectionBreaks \/ JobDisconnects \/ Finished \/ UNCHANGED transferVars
  <2>1. /\ UNCHANGED <<side, refuses, jobs>>
        /\ killed' = killed \/ killed' = TRUE
        /\ alive' = alive \/ alive' = FALSE
        /\ worker' = worker \/ worker' = NewWorker
    BY <1>11 DEF Kill, Crash, ConnectionBreaks, JobDisconnects, Finished, transferVars
  <2> QED
    BY <2>1, WorkerChanges, Zenon
<1> QED
  BY <1>1, <1>2, <1>3, <1>4, <1>5, <1>6, <1>7, <1>8, <1>9, <1>10, <1>11 DEF TransferNext, JobStep, PutStep, GetStep

(* A destination is written to where the data invariant knows what it      *)
(* holds, and a part file is known at every moment.                        *)
LEMMA FilesStep ==
  FilesOK /\ GuardInv /\ DataInv /\ DataInv' /\ CountersOK' /\ [TransferNext]_transferVars => FilesOK'
<1> SUFFICES ASSUME FilesOK, GuardInv, DataInv, DataInv', CountersOK', [TransferNext]_transferVars PROVE FilesOK'
  OBVIOUS
<1>c. ControlInv
  BY DEF GuardInv
<1>b. \A f : IsBeginning(f) => f \in FileSet
  BY IsBeginningFacts DEF FileSet
<1>p. part' \in FileSet
  <2>1. IsFile(part') => IsBeginning(part')
    BY DEF DataInv, BeforeInv, IsFile
  <2> QED
    BY <1>b, <2>1 DEF IsFile, FileSet
<1>t. dst \in FileSet /\ part \in FileSet /\ old \in FileSet /\ NoFile \in FileSet
  BY DEF FilesOK, FileSet
<1>s. ASSUME dst' \in {dst, part, NoFile} \/ IsBeginning(dst'), old' \in {old, dst}
      PROVE  FilesOK'
  BY <1>s, <1>b, <1>p, <1>t DEF FilesOK
<1> USE DEF jobVars, fileVars
<1>1. CASE StartJob
  BY <1>1, <1>s DEF StartJob
<1>2. CASE SourceChecked \/ JobLogin \/ JobLoginFails \/ StatFiles \/ SeekSourceFails \/ CheckExists \/ OpenPutFails
  BY <1>2, <1>s DEF SourceChecked, JobLogin, JobLoginFails, StatFiles, SeekSourceFails, CheckExists, OpenPutFails
<1>3. CASE OpenPut
  BY <1>3, <1>s, BeginningEnds DEF OpenPut, SetDest
<1>4. CASE FillQueue \/ TakeOldest \/ QueueFails \/ Answer \/ NoAnswer \/ WriteEnds \/ Abort
  BY <1>4, <1>s DEF FillQueue, TakeOldest, QueueFails, Answer, NoAnswer, WriteEnds, Abort
<1>5. CASE ServerWrites
  <2>1. /\ old' = old /\ (dst' = dst \/ ~UsesPart) /\ job' = job /\ jobPc' = jobPc /\ pend # << >>
    BY <1>5 DEF ServerWrites, SetDest
  <2>2. jobPc' \in {"write", "wait", "abort"}
    BY <2>1 DEF DataInv, WriteInv
  <2>3. IsBeginning(Dest')
    <3>1. InFlight'
      BY <2>2 DEF DataInv, WriteInv
    <3>2. CASE ctx'.failed
      BY <3>1, <3>2 DEF InFlight
    <3>3. CASE ~ctx'.failed
      <4>1. Dest' = Beginning(pos' - Len(pend')) /\ pos' = pos /\ Len(pend') <= pos'
        BY <3>1, <3>3, <1>5 DEF InFlight, ServerWrites
      <4>2. pos' - Len(pend') \in 0 .. Chunks
        BY <4>1, SftpConstants DEF CountersOK
      <4> QED
        BY <4>1, <4>2 DEF IsBeginning
    <3> QED
      BY <3>2, <3>3
  <2> QED
    BY <2>1, <2>3, <1>s DEF Dest, UsesPart
<1>6. CASE ClosePut \/ UnlinkOriginal \/ RenamePart \/ RenamePartFails \/ SetPermissions
  BY <1>6, <1>s DEF ClosePut, UnlinkOriginal, RenamePart, RenamePartFails, SetPermissions
<1>7. CASE CheckGet \/ OpenGetFails \/ GetOpens \/ GetOpenFails \/ CopyFails \/ CopyEnds
  BY <1>7, <1>s DEF CheckGet, OpenGetFails, GetOpens, GetOpenFails, CopyFails, CopyEnds
<1>8. CASE OpenGet
  BY <1>8, <1>s, BeginningEnds DEF OpenGet, SetDest
<1>9. CASE CopyChunk
  <2>1. old' = old /\ (dst' = dst \/ ~UsesPart) /\ job' = job /\ jobPc' = "copy" /\ jobPc = "copy"
    BY <1>9 DEF CopyChunk, SetDest
  <2>2. job'.op = "copyGet"
    BY <2>1, <1>c DEF ControlInv, PutPcs
  <2>3. IsBeginning(Dest')
    BY <2>1, <2>2 DEF DataInv, GetInv, IsBeginning
  <2> QED
    BY <2>1, <2>3, <1>s DEF Dest, UsesPart
<1>10. CASE CloseGet
  <2>1. old' = old /\ (dst' = dst \/ (dst' = SubSeq(Dest, 1, Len(Dest) - 1) /\ Dest # << >>)) /\ jobPc = "closeLocal"
    BY <1>10 DEF CloseGet, SetDest
  <2>2. IsBeginning(Dest)
    BY <2>1, <1>c DEF ControlInv, PutPcs, DataInv, GetInv
  <2> QED
    BY <2>1, <2>2, BeginningShrinks, <1>s
<1>11. CASE Publish \/ PublishAgain \/ KeepOrRemovePart \/ FinishGet
  BY <1>11, <1>s DEF Publish, PublishAgain, KeepOrRemovePart, FinishGet
<1>12. CASE Kill \/ Crash \/ ConnectionBreaks \/ JobDisconnects \/ Finished \/ UNCHANGED transferVars
  BY <1>12, <1>s DEF Kill, Crash, ConnectionBreaks, JobDisconnects, Finished, transferVars
<1> QED
  BY <1>1, <1>2, <1>3, <1>4, <1>5, <1>6, <1>7, <1>8, <1>9, <1>10, <1>11, <1>12 DEF TransferNext, JobStep, PutStep, GetStep

LEMMA AppendType == ASSUME NEW S, NEW q \in Seq(S), NEW e \in S PROVE Append(q, e) \in Seq(S)
  OBVIOUS

LEMMA CountersStep ==
  ASSUME Contiguous
  PROVE  GuardInv /\ TransferTypeOK /\ DataInv /\ [TransferNext]_transferVars => CountersOK'
<1> SUFFICES ASSUME GuardInv, TransferTypeOK, DataInv, [TransferNext]_transferVars PROVE CountersOK'
  OBVIOUS
<1>t. pos \in 0 .. Chunks /\ at \in Nat /\ pend \in Seq(Request) /\ acks \in Seq(BOOLEAN) /\ 0 \in 0 .. Chunks
      /\ 0 \in Nat /\ << >> \in Seq(Request) /\ << >> \in Seq(BOOLEAN)
  BY TypeFacts, SftpConstants
<1>b. \A f : IsBeginning(f) => Len(f) \in 0 .. Chunks /\ Len(f) \in Nat
  BY IsBeginningFacts, SftpConstants
<1>d. BeforeInv
  BY DEF DataInv
<1>s. ASSUME UNCHANGED loopVars
      PROVE  CountersOK'
  BY <1>s, <1>t DEF CountersOK, loopVars
<1>1. CASE StartJob
  BY <1>1, <1>t DEF StartJob, CountersOK
<1>2. CASE SourceChecked \/ JobLogin \/ JobLoginFails \/ SeekSourceFails \/ CheckExists \/ OpenPutFails
  BY <1>2, <1>s DEF SourceChecked, JobLogin, JobLoginFails, SeekSourceFails, CheckExists, OpenPutFails
<1>3. CASE StatFiles
  <2>1. UNCHANGED <<at, pend, acks>> /\ pos' \in {Len(part), 0} /\ (pos' # 0 => IsFile(part))
    BY <1>3, StatFacts DEF StatFiles, GuardInv, MayResume
  <2> QED
    BY <2>1, <1>t, <1>b, <1>d DEF BeforeInv, CountersOK
<1>4. CASE OpenPut
  <2>1. /\ UNCHANGED <<pend, acks>> /\ jobPc = "open" /\ job.op # "copyGet"
        /\ at' = at \/ (at' = Len(Dest) /\ IsFile(Dest) /\ ctx.resume)
        /\ pos' = pos \/ (pos' = Len(Dest) /\ job.resume)
        /\ ctx.resume => IsFile(Dest)
    BY <1>4 DEF OpenPut
  <2>2. ctx.resume => IsBeginning(Dest)
    <3>1. ctx.resume /\ ~job.resume => Dest = part
      BY <2>1 DEF GuardInv, PutGuard, Dest
    <3> QED
      BY <2>1, <3>1, <1>d DEF BeforeInv
  <2>3. job.resume => ctx.resume
    BY <2>1, <1>d DEF BeforeInv
  <2> QED
    BY <2>1, <2>2, <2>3, <1>t, <1>b DEF CountersOK
<1>5. CASE FillQueue \/ TakeOldest
  <2>1. /\ jobPc = "write" /\ UNCHANGED <<job, dst, part, acks>> /\ ctx'.failed = ctx.failed
        /\ \/ Queue
           \/ UNCHANGED <<pos, at, pend>>
    BY <1>5, TypeFacts DEF FillQueue, TakeOldest, QueueLost, JobGoto, jobVars, fileVars
  <2> QED
    BY <2>1, <1>t, QueueKeeps DEF DataInv, WriteInv, CountersOK
<1>6. CASE QueueFails \/ NoAnswer \/ WriteEnds
  BY <1>6, <1>s DEF QueueFails, NoAnswer, WriteEnds
<1>7. CASE Answer
  <2>1. UNCHANGED <<pos, at, pend>> /\ acks' = Tail(acks) /\ acks # << >>
    BY <1>7 DEF Answer
  <2> QED
    BY <2>1, <1>t DEF CountersOK
<1>8. CASE ServerWrites
  <2>1. UNCHANGED <<pos, at>> /\ pend' = Tail(pend) /\ pend # << >> /\ acks' \in {Append(acks, TRUE), Append(acks, FALSE)}
    BY <1>8 DEF ServerWrites
  <2>2. pend' \in Seq(Request)
    BY <2>1, <1>t
  <2>3. acks' \in Seq(BOOLEAN)
    BY <2>1, <1>t, AppendType, Zenon
  <2> QED
    BY <2>1, <2>2, <2>3, <1>t DEF CountersOK
<1>9. CASE Abort
  BY <1>9, <1>t DEF Abort, CountersOK
<1>10. CASE ClosePut \/ UnlinkOriginal \/ RenamePart \/ RenamePartFails \/ SetPermissions
  BY <1>10, <1>s DEF ClosePut, UnlinkOriginal, RenamePart, RenamePartFails, SetPermissions
<1>11. CASE CheckGet \/ OpenGetFails \/ GetOpenFails \/ CopyFails \/ CopyEnds \/ CloseGet
  BY <1>11, <1>s DEF CheckGet, OpenGetFails, GetOpenFails, CopyFails, CopyEnds, CloseGet
<1>12. CASE OpenGet
  <2>1. /\ UNCHANGED <<pos, pend, acks>> /\ jobPc = "open" /\ job.op = "copyGet"
        /\ at' = at \/ (at' = Len(part) /\ ctx.resume)
    BY <1>12 DEF OpenGet
  <2>2. ctx.resume => IsBeginning(part)
    BY <2>1, <1>d DEF BeforeInv, DataInv, GetInv
  <2> QED
    BY <2>1, <2>2, <1>t, <1>b DEF CountersOK
<1>13. CASE GetOpens
  <2>1. UNCHANGED <<at, pend, acks>> /\ pos' = IF at > 0 /\ at < Chunks THEN at ELSE 0
    BY <1>13 DEF GetOpens
  <2> QED
    BY <2>1, <1>t, SftpConstants DEF CountersOK
<1>14. CASE CopyChunk
  <2>1. UNCHANGED <<pend, acks>> /\ pos < Chunks /\ pos' = pos + 1 /\ at' = at + 1
    BY <1>14 DEF CopyChunk
  <2> QED
    BY <2>1, <1>t, SftpConstants DEF CountersOK
<1>15. CASE Publish \/ PublishAgain \/ KeepOrRemovePart \/ FinishGet
  BY <1>15, <1>s DEF Publish, PublishAgain, KeepOrRemovePart, FinishGet
<1>16. CASE Kill \/ Crash \/ ConnectionBreaks \/ JobDisconnects \/ Finished \/ UNCHANGED transferVars
  BY <1>16, <1>s DEF Kill, Crash, ConnectionBreaks, JobDisconnects, Finished, transferVars
<1> QED
  BY <1>1, <1>2, <1>3, <1>4, <1>5, <1>6, <1>7, <1>8, <1>9, <1>10, <1>11, <1>12, <1>13, <1>14, <1>15, <1>16
  DEF TransferNext, JobStep, PutStep, GetStep

LEMMA TypeInit == TransferInit => TransferTypeOK
<1> SUFFICES ASSUME TransferInit PROVE TransferTypeOK
  OBVIOUS
<1>1. OldFiles \subseteq FileSet
  BY SftpConstants DEF OldFiles, FileSet
<1>2. FilesOK
  BY <1>1 DEF TransferInit, FilesOK, FileSet
<1>3. SettingsOK
  <2>1. /\ side \in {"local", "remote"} /\ refuses \in BOOLEAN /\ killed = FALSE /\ alive = FALSE
        /\ worker = NewWorker
    BY DEF TransferInit
  <2>2. jobs \in 0 .. MaxJobs
    BY SftpConstants DEF TransferInit
  <2> QED
    BY <2>1, <2>2, WorkerChanges, Zenon DEF SettingsOK
<1>4. CountersOK
  BY SftpConstants DEF TransferInit, CountersOK
<1>5. job \in JobSet /\ ctx = NoContext
  BY DEF TransferInit
<1> QED
  BY <1>2, <1>3, <1>4, <1>5, TypeParts DEF NoContext

LEMMA TypeStep ==
  ASSUME Contiguous, GuardInv, TransferTypeOK, DataInv, [TransferNext]_transferVars
  PROVE  TransferTypeOK'
<1>1. DataInv' /\ ControlInv'
  BY DataStep, ControlStep DEF GuardInv
<1>2. SettingsOK' /\ FilesOK' /\ CountersOK'
  BY <1>1, TypeParts, SettingsStep, FilesStep, CountersStep
<1> QED
  BY <1>1, <1>2 DEF ControlInv, TransferTypeOK, SettingsOK, FilesOK, CountersOK, Request, Workers

-----------------------------------------------------------------------------
(* What a job that passes has done. *)
Passing == result = "pass" /\ ~killed
WholeInv ==
  /\ ctx.end => killed
  /\ jobPc \in {"source", "login", "stat", "exists", "open", "check", "get", "write", "wait", "close", "unlink", "copy"} =>
       result = "pass" /\ ctx.ok
  /\ jobPc = "close" /\ ~killed => Dest = Source
  /\ jobPc \in {"unlink", "rename", "renameAgain"} /\ Passing => part = Source
  /\ jobPc = "closeLocal" /\ Passing => Dest = Source
  /\ jobPc = "abort" /\ ~killed => result # "pass"
  /\ jobPc \in {"rename", "renameAgain", "closeLocal"} /\ ~ctx.ok => result # "pass"
  /\ jobPc \in {"rename", "chmod"} /\ job.op # "copyGet" => result = "pass"
  /\ jobPc = "chmod" /\ Passing => dst = Source
  /\ "localChmodFails" \notin Events => SuccessIsComplete

(* Closing a file reports nothing: what comes to the rename is whole, or   *)
(* the transfer has failed before.                                         *)
SafeInv ==
  /\ jobPc \in {"closeLocal", "rename", "renameAgain"} /\ ctx.ok => result = "pass"
  /\ jobPc = "renameAgain" => ctx.ok
  /\ ContentSafe

-----------------------------------------------------------------------------
(* The data of put() ends only where the source does, or by a kill.        *)
Complete == Contiguous /\ "appLost" \notin Events

LEMMA WriteEndsFacts ==
  ASSUME TransferTypeOK, DataInv, WriteEnds
  PROVE  /\ Dest = Beginning(pos) /\ (ctx.end \/ pos = Chunks)
         /\ jobPc = "write" /\ jobPc' = "close" /\ UNCHANGED <<job, dst, part, ctx, killed, result>>
<1>1. /\ jobPc = "write" /\ jobPc' = "close" /\ UNCHANGED <<job, dst, part, ctx, killed, result>>
      /\ UnderWay = 0 /\ AtEnd
  BY DEF WriteEnds, JobGoto, jobVars, fileVars
<1>2. Len(pend) = 0 /\ Len(acks) = 0 /\ pos \in 0 .. Chunks
  BY <1>1, TypeFacts DEF UnderWay
<1>3. Dest = Beginning(pos)
  BY <1>1, <1>2 DEF DataInv, WriteInv, InFlight
<1>4. ctx.end \/ pos = Chunks
  BY <1>1, <1>2, SftpConstants DEF AtEnd
<1> QED
  BY <1>1, <1>3, <1>4

LEMMA WholeInit == TransferInit => WholeInv
<1> SUFFICES ASSUME TransferInit PROVE WholeInv
  OBVIOUS
<1>1. jobPc = "end" /\ jobs = 0 /\ ctx = NoContext
  BY DEF TransferInit
<1> QED
  BY <1>1 DEF WholeInv, SuccessIsComplete, NoContext

LEMMA WholeStep ==
  ASSUME Complete
  PROVE  GuardInv /\ TransferTypeOK /\ DataInv /\ WholeInv /\ [TransferNext]_transferVars => WholeInv'
<1> SUFFICES ASSUME GuardInv, TransferTypeOK, DataInv, WholeInv, [TransferNext]_transferVars PROVE WholeInv'
  OBVIOUS
<1>c. /\ job \in JobSet /\ jobPc \in (IF job.op = "copyGet" THEN GetPcs ELSE PutPcs)
      /\ ctx \in [resume : BOOLEAN, origExists : BOOLEAN, ok : BOOLEAN, end : BOOLEAN, failed : BOOLEAN]
  BY DEF GuardInv, ControlInv
<1>u. jobPc \in {"rename", "renameAgain", "unlink"} => UsesPart
  BY <1>c DEF GuardInv, PutGuard, GetGuard, GetPcs, PutPcs
<1> USE DEF WholeInv, SuccessIsComplete, Passing, PutPcs, GetPcs, jobVars, fileVars, Return, JobGoto, GetFails
<1>1. CASE StartJob
  <2>1. /\ result' = "pass" /\ ctx' = [NoContext EXCEPT !.resume = job'.resume] /\ job' \in JobSet
        /\ jobPc' = CASE job'.op = "put" -> "login" [] job'.op = "copyPut" -> "source" [] job'.op = "copyGet" -> "check"
    BY <1>1 DEF StartJob
  <2>2. jobPc' \in {"login", "source", "check"}
    BY <2>1 DEF JobSet
  <2>3. ctx'.ok /\ ~ctx'.end
    BY <2>1 DEF NoContext
  <2> QED
    BY <2>1, <2>2, <2>3
<1>2. CASE SourceChecked \/ JobLogin \/ JobLoginFails
  BY <1>2, <1>c DEF SourceChecked, JobLogin, JobLoginFails
<1>3. CASE StatFiles \/ SeekSourceFails
  <2>1. /\ jobPc = "stat" /\ (ctx'.end = ctx.end /\ ctx'.ok = ctx.ok) /\ killed' = killed
        /\ \/ jobPc' = "exists" /\ result' = result
           \/ jobPc' = "end" /\ result' # "pass"
    BY <1>3, StatFacts DEF StatFiles, SeekSourceFails, GuardInv
  <2> QED
    BY <2>1
<1>4. CASE CheckExists \/ OpenPut \/ OpenPutFails
  BY <1>4, <1>c DEF CheckExists, OpenPut, OpenPutFails
<1>5. CASE FillQueue \/ TakeOldest
  <2>1. /\ jobPc = "write" /\ jobPc' \in {"write", "wait"} /\ ctx'.ok = ctx.ok /\ UNCHANGED <<result, killed>>
        /\ ctx'.end => ctx.end \/ killed
    BY <1>5, <1>c DEF FillQueue, TakeOldest, QueueLost, Complete
  <2> QED
    BY <2>1
<1>6. CASE QueueFails \/ NoAnswer \/ Answer
  BY <1>6, <1>c DEF QueueFails, NoAnswer, Answer
<1>7. CASE WriteEnds
  BY <1>7, WriteEndsFacts, BeginningEnds, SameDest
<1>8. CASE ServerWrites
  <2>1. jobPc \in {"write", "wait", "abort"}
    BY <1>8 DEF ServerWrites, DataInv, WriteInv
  <2>2. UNCHANGED <<jobPc, result, killed>> /\ ctx'.ok = ctx.ok /\ ctx'.end = ctx.end
    BY <1>8, <1>c DEF ServerWrites
  <2> QED
    BY <2>1, <2>2
<1>9. CASE Abort
  BY <1>9, <1>c DEF Abort
<1>10. CASE ClosePut \/ UnlinkOriginal
  BY <1>10, <1>c DEF ClosePut, UnlinkOriginal, Dest
<1>11. CASE RenamePart \/ RenamePartFails \/ SetPermissions
  BY <1>11, <1>c DEF RenamePart, RenamePartFails, SetPermissions
<1>12. CASE CheckGet \/ OpenGet \/ OpenGetFails \/ GetOpens \/ GetOpenFails
  BY <1>12, <1>c DEF CheckGet, OpenGet, OpenGetFails, GetOpens, GetOpenFails
<1>13. CASE CopyChunk \/ CopyFails
  BY <1>13, <1>c DEF CopyChunk, CopyFails
<1>14. CASE CopyEnds
  <2>1. jobPc = "copy" /\ jobPc' = "closeLocal" /\ (killed \/ pos = Chunks) /\ UNCHANGED <<job, dst, part, ctx, killed, result>>
    BY <1>14 DEF CopyEnds
  <2>2. Dest = Beginning(pos)
    BY <2>1, <1>c DEF DataInv, GetInv
  <2> QED
    BY <2>1, <2>2, <1>c, SameDest, BeginningEnds
<1>15. CASE CloseGet
  <2>1. /\ jobPc = "closeLocal" /\ jobPc' = (IF UsesPart THEN "rename" ELSE "chmod") /\ UNCHANGED <<job, ctx, killed>>
        /\ \/ UNCHANGED <<dst, part, result>>
           \/ ctx.ok /\ result' # "pass"
    BY <1>15 DEF CloseGet
  <2>2. job.op = "copyGet"
    BY <2>1, <1>c
  <2> QED
    BY <2>1, <2>2 DEF Dest
<1>16. CASE Publish \/ PublishAgain \/ KeepOrRemovePart
  BY <1>16, <1>c DEF Publish, PublishAgain, KeepOrRemovePart
<1>17. CASE FinishGet
  BY <1>17, <1>c DEF FinishGet
<1>18. CASE Kill \/ ConnectionBreaks \/ JobDisconnects \/ Finished \/ UNCHANGED transferVars
  <2>1. UNCHANGED <<job, dst, part, jobPc, ctx, result, jobs>> /\ (killed' = killed \/ (killed' = TRUE /\ jobPc # "end"))
    BY <1>18 DEF Kill, ConnectionBreaks, JobDisconnects, Finished, transferVars
  <2> QED
    BY <2>1, SameDest
<1>19. CASE Crash
  BY <1>19 DEF Crash
<1> QED
  BY <1>1, <1>2, <1>3, <1>4, <1>5, <1>6, <1>7, <1>8, <1>9, <1>10, <1>11, <1>12, <1>13, <1>14, <1>15, <1>16, <1>17,
     <1>18, <1>19 DEF TransferNext, JobStep, PutStep, GetStep

LEMMA SafeInit == TransferInit => SafeInv
  BY DEF TransferInit, SafeInv, ContentSafe

LEMMA SafeStep ==
  ASSUME "closeFails" \notin Events
  PROVE  GuardInv /\ DataInv /\ WholeInv /\ SafeInv /\ [TransferNext]_transferVars => SafeInv'
<1> SUFFICES ASSUME GuardInv, DataInv, WholeInv, SafeInv, [TransferNext]_transferVars PROVE SafeInv'
  OBVIOUS
<1>c. /\ job \in JobSet /\ jobPc \in (IF job.op = "copyGet" THEN GetPcs ELSE PutPcs)
      /\ ctx \in [resume : BOOLEAN, origExists : BOOLEAN, ok : BOOLEAN, end : BOOLEAN, failed : BOOLEAN]
  BY DEF GuardInv, ControlInv
<1>g. PutGuard /\ GetGuard
  BY DEF GuardInv
(* While the part file is written the destination is left alone. *)
<1>d. UsesPart /\ jobPc \notin {"rename", "renameAgain", "chmod", "end"} => dst = old
  BY <1>c, <1>g DEF PutGuard, GetGuard, PutPcs, GetPcs
<1>s. ASSUME UNCHANGED job, UsesPart => dst' = dst /\ old' = old /\ dst = old, jobPc' \notin {"rename", "renameAgain", "closeLocal"}
      PROVE  SafeInv'
  BY <1>s DEF SafeInv, ContentSafe, UsesPart
<1> USE DEF PutPcs, GetPcs, jobVars, fileVars, Return, JobGoto, GetFails
<1>1. CASE StartJob
  <2>1. dst' = dst /\ old' = dst /\ job' \in JobSet
        /\ jobPc' = CASE job'.op = "put" -> "login" [] job'.op = "copyPut" -> "source" [] job'.op = "copyGet" -> "check"
    BY <1>1 DEF StartJob
  <2>2. jobPc' \in {"login", "source", "check"}
    BY <2>1 DEF JobSet
  <2> QED
    BY <2>1, <2>2 DEF SafeInv, ContentSafe
<1>2. CASE SourceChecked \/ JobLogin \/ StatFiles \/ SeekSourceFails \/ CheckExists \/ OpenPutFails
  BY <1>2, <1>d, <1>s DEF SourceChecked, JobLogin, StatFiles, SeekSourceFails, CheckExists, OpenPutFails
<1>3. CASE JobLoginFails \/ GetOpenFails \/ CopyFails
  <2>1. /\ UNCHANGED <<job, dst, old>> /\ jobPc' \in {"closeLocal", "end"} /\ (jobPc' = "closeLocal" => ~ctx'.ok)
        /\ jobPc \in {"login", "get", "copy"}
    BY <1>3, <1>c DEF JobLoginFails, GetOpenFails, CopyFails
  <2> QED
    BY <2>1, <1>d DEF SafeInv, ContentSafe, UsesPart
<1>4. CASE OpenPut \/ FillQueue \/ TakeOldest \/ QueueFails \/ Answer \/ NoAnswer \/ WriteEnds \/ Abort \/ ClosePut
  BY <1>4, <1>d, <1>s DEF OpenPut, FillQueue, TakeOldest, QueueFails, Answer, NoAnswer, WriteEnds, Abort, ClosePut, SetDest
<1>5. CASE ServerWrites
  <2>1. jobPc \in {"write", "wait", "abort"}
    BY <1>5 DEF ServerWrites, DataInv, WriteInv
  <2> QED
    BY <2>1, <1>5, <1>d, <1>s DEF ServerWrites, SetDest
<1>6. CASE UnlinkOriginal
  <2>1. /\ jobPc = "unlink" /\ jobPc' = "rename" /\ UNCHANGED <<job, old, part, result, killed, ctx>> /\ dst' \in {dst, NoFile}
    BY <1>6 DEF UnlinkOriginal, loopVars
  <2>2. result = "pass" /\ (~killed => part = Source)
    BY <2>1 DEF WholeInv, Passing
  <2> QED
    BY <2>1, <2>2, <1>d DEF SafeInv, ContentSafe, UsesPart
<1>7. CASE RenamePart \/ RenamePartFails
  <2>1. /\ jobPc = "rename" /\ jobPc' \in {"chmod", "end"} /\ UNCHANGED <<job, old, killed>> /\ job.op # "copyGet"
        /\ dst' = part \/ UNCHANGED <<dst, part>>
    BY <1>7 DEF RenamePart, RenamePartFails
  <2>2. ~killed => part = Source
    BY <2>1 DEF WholeInv, Passing
  <2> QED
    BY <2>1, <2>2 DEF SafeInv, ContentSafe
<1>8. CASE SetPermissions \/ FinishGet
  <2>1. jobPc' = "end" /\ UNCHANGED <<job, old, dst, part, killed>>
    BY <1>8 DEF SetPermissions, FinishGet, loopVars
  <2> QED
    BY <2>1 DEF SafeInv, ContentSafe
<1>9. CASE CheckGet \/ OpenGet \/ OpenGetFails \/ GetOpens \/ CopyChunk
  BY <1>9, <1>d, <1>s DEF CheckGet, OpenGet, OpenGetFails, GetOpens, CopyChunk, SetDest
<1>10. CASE CopyEnds
  <2>1. jobPc = "copy" /\ jobPc' = "closeLocal" /\ UNCHANGED <<job, dst, old, result>>
    BY <1>10 DEF CopyEnds
  <2>2. result = "pass"
    BY <2>1 DEF WholeInv
  <2> QED
    BY <2>1, <2>2, <1>d DEF SafeInv, ContentSafe, UsesPart
<1>11. CASE CloseGet
  <2>1. jobPc = "closeLocal" /\ jobPc' \in {"rename", "chmod"} /\ UNCHANGED <<job, dst, old, part, result, ctx, killed>>
    BY <1>11 DEF CloseGet, loopVars
  <2> QED
    BY <2>1 DEF SafeInv, ContentSafe
<1>12. CASE Publish
  <2>1. /\ jobPc = "rename" /\ job.op = "copyGet" /\ ctx.ok /\ UNCHANGED <<job, old, killed, ctx>>
        /\ \/ dst' = part /\ jobPc' = "chmod"
           \/ dst' = NoFile /\ UNCHANGED <<part, result>> /\ jobPc' = "renameAgain"
           \/ UNCHANGED <<dst, part>> /\ jobPc' = "chmod"
    BY <1>12 DEF Publish
  <2>2. result = "pass" /\ (~killed => part = Source)
    BY <2>1 DEF SafeInv, WholeInv, Passing
  <2> QED
    BY <2>1, <2>2 DEF SafeInv, ContentSafe
<1>13. CASE PublishAgain
  <2>1. /\ jobPc = "renameAgain" /\ jobPc' = "chmod" /\ UNCHANGED <<job, old, killed>>
        /\ dst' = part \/ UNCHANGED <<dst, part>>
    BY <1>13 DEF PublishAgain
  <2>2. ~killed => part = Source
    BY <2>1 DEF SafeInv, WholeInv, Passing
  <2> QED
    BY <2>1, <2>2 DEF SafeInv, ContentSafe
<1>14. CASE KeepOrRemovePart
  <2>1. jobPc = "rename" /\ job.op = "copyGet" /\ jobPc' = "chmod" /\ UNCHANGED <<job, old, dst>>
    BY <1>14 DEF KeepOrRemovePart
  <2>2. UsesPart => dst = old
    BY <2>1, <1>g DEF GetGuard
  <2> QED
    BY <2>1, <2>2, <1>s
<1>15. CASE Kill \/ Crash \/ ConnectionBreaks \/ JobDisconnects \/ Finished \/ UNCHANGED transferVars
  <2>1. /\ UNCHANGED <<job, old, dst, part, ctx>> /\ (killed' = killed \/ killed' = TRUE)
        /\ jobPc' = "end" \/ UNCHANGED <<jobPc, result>>
    BY <1>15 DEF Kill, Crash, ConnectionBreaks, JobDisconnects, Finished, transferVars
  <2> QED
    BY <2>1 DEF SafeInv, ContentSafe
<1> QED
  BY <1>1, <1>2, <1>3, <1>4, <1>5, <1>6, <1>7, <1>8, <1>9, <1>10, <1>11, <1>12, <1>13, <1>14, <1>15
  DEF TransferNext, JobStep, PutStep, GetStep

-----------------------------------------------------------------------------
TransferInv == GuardInv /\ TransferTypeOK /\ DataInv

LEMMA TransferInvHolds == ASSUME Contiguous PROVE TransferSpec => []TransferInv
<1>1. TransferInit => TransferInv
  BY GuardInit, TypeInit, DataInit DEF TransferInv
<1>2. TransferInv /\ [TransferNext]_transferVars => TransferInv'
  BY GuardStep, TypeStep, DataStep DEF TransferInv
<1> QED
  BY <1>1, <1>2, PTL DEF TransferSpec

LEMMA WholeInvHolds == ASSUME Complete PROVE TransferSpec => []WholeInv
<1>1. Contiguous
  BY DEF Complete
<1>2. TransferInv /\ WholeInv /\ [TransferNext]_transferVars => WholeInv'
  BY WholeStep DEF TransferInv
<1> QED
  BY <1>1, <1>2, WholeInit, TransferInvHolds, PTL DEF TransferSpec

(* Every part file that a worker leaves behind, with requests under way    *)
(* when it failed, crashed or lost its connection, is a beginning of the   *)
(* source, so that the next job may append to it (kio_sftp.cpp:1486).      *)
THEOREM SftpPartResumable == ASSUME Contiguous PROVE TransferSpec => []PartIsPrefix
<1>1. TransferInv => PartIsPrefix
  BY IsBeginningFacts DEF TransferInv, DataInv, BeforeInv, PartIsPrefix
<1> QED
  BY <1>1, TransferInvHolds, PTL

(* For every number of writes under way: a put() or copy that passes and   *)
(* was not killed has put the whole source there, whether it was resumed   *)
(* or not, and nothing leaves its range on the way.                        *)
THEOREM SftpTransfersSound ==
  ASSUME Complete, "localChmodFails" \notin Events
  PROVE  TransferSpec => []TransfersSound
<1>1. Contiguous
  BY DEF Complete
<1>2. TransferInv /\ PartIsPrefix /\ WholeInv => TransfersSound
  BY DEF TransferInv, WholeInv, TransfersSound
<1> QED
  BY <1>1, <1>2, TransferInvHolds, WholeInvHolds, SftpPartResumable, PTL

(* A job with a part file loses the old destination only when all of the   *)
(* new one is in the part file, and no job replaces what it was not told   *)
(* to replace.                                                             *)
THEOREM SftpDestinationSafe ==
  ASSUME Complete, {"closeFails", "renameReplaces"} \cap Events = {}
  PROVE  TransferSpec => []DestinationSafe
<1>1. Contiguous /\ "closeFails" \notin Events /\ "renameReplaces" \notin Events
  BY DEF Complete
<1>2. TransferInv /\ WholeInv /\ SafeInv /\ [TransferNext]_transferVars => SafeInv'
  BY <1>1, SafeStep DEF TransferInv
<1>3. TransferInv /\ SafeInv => DestinationSafe
  BY <1>1 DEF TransferInv, GuardInv, SafeInv, DestinationSafe
<1> QED
  BY <1>1, <1>2, <1>3, SafeInit, TransferInvHolds, WholeInvHolds, PTL DEF TransferSpec

-----------------------------------------------------------------------------
(***************************************************************************)
(* The read-ahead of SftpAsyncRead.                                        *)
(***************************************************************************)
USE SizeAssumption, ChunkSizeAssumption, PendingAssumption DEF Error, None

-----------------------------------------------------------------------------
(* The inductive invariant.  While the transfer runs, the requests lie one *)
(* behind the other between what was received and what was queued.         *)
Chained ==
  /\ \A i \in 1 .. Len(reqs) :
       /\ reqs[i].off = IF i = 1 THEN received ELSE reqs[i - 1].off + reqs[i - 1].len
       /\ reqs[i].len \in 1 .. ChunkSize
       /\ reqs[i].off + reqs[i].len <= queued
  /\ reqs = << >> => received = queued
  /\ reqs # << >> => reqs[Len(reqs)].off + reqs[Len(reqs)].len = queued

(* No request was answered with more than it asked for. *)
AnswersFit ==
  \A i \in 1 .. answered : reqs[i].ans \in {Error} \union (0 .. reqs[i].len)

(* The queue runs dry only when everything was asked for. *)
KeptFull ==
  /\ pc = "fill" => Len(reqs) <= MaxPending
  /\ pc \in {"take", "yield"} => Len(reqs) = MaxPending \/ (queued = Size /\ Len(reqs) <= MaxPending)
  /\ pc = "wait" => /\ reqs # << >>
                    /\ Len(reqs) = MaxPending + 1 \/ (queued = Size /\ Len(reqs) <= MaxPending + 1)

RunInv ==
  pc # "end" => /\ Chained
                /\ AnswersFit
                /\ KeptFull
                /\ received = Delivered
                /\ status = "running"

(* After the end only these matter. *)
EndInv ==
  /\ pc = "end" => Len(reqs) <= MaxPending
  /\ CompleteOnSuccess

Inv == TypeOK /\ InOrder /\ RunInv /\ EndInv

-----------------------------------------------------------------------------
(* The length and the elements of a sequence with one more element. *)
LEMMA AppendFacts ==
  ASSUME NEW S, NEW s \in Seq(S), NEW e \in S
  PROVE  /\ Append(s, e) \in Seq(S)
         /\ Len(Append(s, e)) = Len(s) + 1
         /\ \A i \in 1 .. Len(s) : Append(s, e)[i] = s[i]
         /\ Append(s, e)[Len(s) + 1] = e
         /\ Append(s, e) # << >>
  OBVIOUS

(* The length and the elements of the tail of a sequence. *)
LEMMA TailFacts ==
  ASSUME NEW S, NEW s \in Seq(S), s # << >>
  PROVE  /\ Tail(s) \in Seq(S)
         /\ Len(Tail(s)) = Len(s) - 1
         /\ \A i \in 1 .. Len(s) - 1 : Tail(s)[i] = s[i + 1]
         /\ Head(s) = s[1]
         /\ Len(s) >= 1
         /\ Tail(s) = << >> <=> Len(s) = 1
<1>1. /\ Tail(s) \in Seq(S)
      /\ Len(Tail(s)) = Len(s) - 1
      /\ \A i \in 1 .. Len(s) - 1 : Tail(s)[i] = s[i + 1]
      /\ Head(s) = s[1]
      /\ Len(s) >= 1
  OBVIOUS
<1>2. Tail(s) = << >> <=> Len(Tail(s)) = 0
  BY <1>1, EmptySeq
<1> QED
  BY <1>1, <1>2

(* An element of a sequence over S is in S. *)
LEMMA ElementFacts ==
  ASSUME NEW S, NEW s \in Seq(S)
  PROVE  \A i \in 1 .. Len(s) : s[i] \in S
  OBVIOUS

(* A sequence is empty if and only if its length is 0. *)
LEMMA EmptyFacts ==
  ASSUME NEW S, NEW s \in Seq(S)
  PROVE  s = << >> <=> Len(s) = 0
<1>1. s # << >> => Len(s) \in Nat \ {0}
  BY EmptySeq
<1> QED
  BY <1>1

(* What the type invariant says of the requests and of the output. *)
LEMMA ReadTypeFacts ==
  ASSUME TypeOK
  PROVE  /\ Len(reqs) \in Nat /\ queued \in Nat /\ received \in Nat /\ queued <= Size
         /\ answered \in Nat /\ answered <= Len(reqs)
         /\ \A i \in 1 .. Len(reqs) :
              reqs[i].off \in Nat /\ reqs[i].len \in Nat /\ reqs[i].ans \in Int
         /\ Len(out) \in Nat
         /\ \A i \in 1 .. Len(out) : out[i].off \in Nat /\ out[i].len \in Nat
         /\ reqs = << >> <=> Len(reqs) = 0
         /\ out = << >> <=> Len(out) = 0
<1>1. (reqs = << >> <=> Len(reqs) = 0) /\ (out = << >> <=> Len(out) = 0)
  <2>1. reqs \in Seq(Requests) /\ out \in Seq([off : Nat, len : Nat])
    BY DEF TypeOK
  <2>2. reqs = << >> <=> Len(reqs) = 0
    BY <2>1, EmptyFacts
  <2>3. out = << >> <=> Len(out) = 0
    BY <2>1, EmptyFacts
  <2> QED
    BY <2>2, <2>3
<1>2. /\ Len(reqs) \in Nat /\ queued \in Nat /\ received \in Nat /\ queued <= Size
      /\ Len(out) \in Nat
      /\ answered \in Nat /\ answered <= Len(reqs)
  BY DEF TypeOK
<1>3. \A i \in 1 .. Len(reqs) : reqs[i] \in Requests
  BY ElementFacts DEF TypeOK
<1>4. \A i \in 1 .. Len(out) : out[i] \in [off : Nat, len : Nat]
  <2>1. out \in Seq([off : Nat, len : Nat])
    BY DEF TypeOK
  <2> QED
    BY <2>1, ElementFacts
<1> QED
  BY <1>1, <1>2, <1>3, <1>4 DEF Requests

(* A new request continues the chain. *)
LEMMA BeginReadStep ==
  ASSUME TypeOK, Chained, AnswersFit, BeginRead, UNCHANGED <<received, answered>>
  PROVE  /\ queued' \in 0 .. Size
         /\ reqs' \in Seq(Requests)
         /\ Len(reqs') = Len(reqs) + 1
         /\ answered' \in 0 .. Len(reqs')
         /\ Chained'
         /\ AnswersFit'
<1> DEFINE l == Least(ChunkSize, Size - queued)
           r == [off |-> queued, len |-> l, ans |-> None]
<1>1. l \in 1 .. ChunkSize /\ queued + l <= Size
  BY DEF BeginRead, TypeOK, Least
<1>2. r \in Requests /\ reqs' = Append(reqs, r) /\ queued' = queued + l
  BY <1>1 DEF BeginRead, TypeOK, Requests
<1>r. r.off = queued /\ r.len = l
  OBVIOUS
<1> HIDE DEF l, r
<1>3. /\ reqs' \in Seq(Requests)
      /\ Len(reqs') = Len(reqs) + 1
      /\ \A i \in 1 .. Len(reqs) : reqs'[i] = reqs[i]
      /\ reqs'[Len(reqs) + 1] = r
      /\ reqs' # << >>
  <2>1. reqs \in Seq(Requests)
    BY DEF TypeOK
  <2> QED
    BY <1>2, <2>1, AppendFacts
<1>4. /\ Len(reqs) \in Nat /\ queued \in Nat /\ received \in Nat /\ answered \in 0 .. Len(reqs)
      /\ (Len(reqs) = 0 <=> reqs = << >>)
      /\ \A i \in 1 .. Len(reqs) : reqs[i].off \in Nat /\ reqs[i].len \in Nat
  BY ReadTypeFacts
<1>5. Chained'
  <2>1. ASSUME NEW i \in 1 .. Len(reqs')
        PROVE  /\ reqs'[i].off = IF i = 1 THEN received ELSE reqs'[i - 1].off + reqs'[i - 1].len
               /\ reqs'[i].len \in 1 .. ChunkSize
               /\ reqs'[i].off + reqs'[i].len <= queued'
    <3>1. CASE i <= Len(reqs)
      BY <3>1, <1>r, <1>1, <1>2, <1>3, <1>4 DEF Chained
    <3>2. CASE i = Len(reqs) + 1
      <4>1. CASE i = 1
        BY <3>2, <4>1, <1>r, <1>1, <1>2, <1>3, <1>4 DEF Chained
      <4>2. CASE i # 1
        <5>1. reqs # << >> /\ reqs'[i - 1] = reqs[Len(reqs)]
          BY <3>2, <4>2, <1>3, <1>4
        <5> QED
          BY <5>1, <3>2, <4>2, <1>r, <1>1, <1>2, <1>3, <1>4 DEF Chained
      <4> QED
        BY <4>1, <4>2
    <3> QED
      BY <3>1, <3>2, <1>3, <1>4
  <2>2. reqs'[Len(reqs')].off + reqs'[Len(reqs')].len = queued'
    BY <1>r, <1>1, <1>2, <1>3, <1>4
  <2> QED
    BY <2>1, <2>2, <1>3 DEF Chained
<1>6. AnswersFit'
  BY <1>3, <1>4 DEF AnswersFit
<1> QED
  BY <1>r, <1>1, <1>2, <1>3, <1>4, <1>5, <1>6 DEF TypeOK

-----------------------------------------------------------------------------
(* The initial state satisfies the invariant. *)
LEMMA InvInit == Init => Inv
<1> SUFFICES ASSUME Init PROVE Inv
  OBVIOUS
<1>1. Len(reqs) = 0 /\ Len(out) = 0
  BY DEF Init
<1>2. TypeOK
  BY <1>1 DEF Init, TypeOK, Requests
<1>3. InOrder /\ Delivered = 0
  BY <1>1 DEF Init, InOrder, Delivered
<1>4. RunInv
  BY <1>1, <1>3 DEF Init, RunInv, Chained, AnswersFit, KeptFull
<1> QED
  BY <1>1, <1>2, <1>3, <1>4 DEF Init, Inv, EndInv, CompleteOnSuccess

(* Steps that neither change the requests nor the output. *)
(* What was delivered depends on the output alone. *)
LEMMA SameOutput ==
  ASSUME out' = out
  PROVE  Delivered' = Delivered /\ (InOrder => InOrder')
  BY DEF Delivered, InOrder

(* The chain depends on the requests and the two counters alone. *)
LEMMA SameChain ==
  ASSUME UNCHANGED <<queued, reqs, answered, received>>
  PROVE  (Chained => Chained') /\ (AnswersFit => AnswersFit')
  BY DEF Chained, AnswersFit

(* Sending a request ahead keeps the invariant. *)
LEMMA FillStep ==
  ASSUME Inv, Fill
  PROVE  Inv'
<1>1. /\ pc = "fill" /\ Len(reqs) < MaxPending /\ BeginRead /\ pc' = "fill"
      /\ UNCHANGED <<length, answered, received, out, pc, status>>
  BY DEF Fill
<1>2. TypeOK /\ Chained /\ AnswersFit /\ received = Delivered /\ status = "running"
  BY <1>1 DEF Inv, RunInv
<1>3. /\ queued' \in 0 .. Size
      /\ reqs' \in Seq(Requests)
      /\ Len(reqs') = Len(reqs) + 1
      /\ answered' \in 0 .. Len(reqs')
      /\ Chained'
      /\ AnswersFit'
  BY <1>1, <1>2, BeginReadStep
<1>4. TypeOK'
  BY <1>1, <1>2, <1>3 DEF TypeOK
<1>5. InOrder' /\ Delivered' = Delivered
  BY <1>1, SameOutput DEF Inv
<1>6. KeptFull'
  BY <1>1, <1>3, <1>2, ReadTypeFacts DEF KeptFull
<1> QED
  BY <1>1, <1>2, <1>3, <1>4, <1>5, <1>6 DEF Inv, RunInv, EndInv, CompleteOnSuccess

(* Leaving the first loop keeps the invariant. *)
LEMMA FilledStep ==
  ASSUME Inv, Filled
  PROVE  Inv'
<1>1. /\ pc = "fill" /\ (Len(reqs) >= MaxPending \/ queued >= Size) /\ pc' = "take"
      /\ UNCHANGED <<length, queued, reqs, answered, received, out, status>>
  BY DEF Filled, Goto
<1>2. TypeOK /\ Chained /\ AnswersFit /\ received = Delivered /\ status = "running" /\ KeptFull
  BY <1>1 DEF Inv, RunInv
<1>3. TypeOK'
  BY <1>1, <1>2 DEF TypeOK
<1>4. KeptFull'
  BY <1>1, <1>2, ReadTypeFacts DEF KeptFull
<1> QED
  BY <1>1, <1>2, <1>3, <1>4, SameOutput, SameChain DEF Inv, RunInv, EndInv, CompleteOnSuccess

(* Taking the oldest request and sending another keeps the invariant. *)
LEMMA TakeStep ==
  ASSUME Inv, Take
  PROVE  Inv'
<1>1. /\ pc = "take" /\ reqs # << >> /\ pc' = "wait"
      /\ UNCHANGED <<length, answered, received, out, status>>
      /\ BeginRead \/ (queued >= Size /\ UNCHANGED <<reqs, queued>>)
  BY DEF Take, Goto
<1>2. TypeOK /\ Chained /\ AnswersFit /\ received = Delivered /\ status = "running" /\ KeptFull
  BY <1>1 DEF Inv, RunInv
<1>3. CASE BeginRead
  <2>1. /\ queued' \in 0 .. Size
        /\ reqs' \in Seq(Requests)
        /\ Len(reqs') = Len(reqs) + 1
        /\ answered' \in 0 .. Len(reqs')
        /\ Chained'
        /\ AnswersFit'
    BY <1>1, <1>2, <1>3, BeginReadStep
  <2>2. queued < Size
    BY <1>3 DEF BeginRead
  <2>3. reqs' # << >>
    BY <2>1, <1>2, ReadTypeFacts, EmptySeq
  <2>4. KeptFull'
    BY <1>1, <1>2, <2>1, <2>2, <2>3, ReadTypeFacts DEF KeptFull
  <2>5. TypeOK'
    BY <1>1, <1>2, <2>1 DEF TypeOK
  <2> QED
    BY <1>1, <1>2, <2>1, <2>4, <2>5, SameOutput DEF Inv, RunInv, EndInv, CompleteOnSuccess
<1>4. CASE queued >= Size /\ UNCHANGED <<reqs, queued>>
  <2>1. TypeOK'
    BY <1>1, <1>2, <1>4 DEF TypeOK
  <2>2. KeptFull'
    BY <1>1, <1>2, <1>4, ReadTypeFacts DEF KeptFull
  <2> QED
    BY <1>1, <1>2, <1>4, <2>1, <2>2, SameOutput, SameChain
    DEF Inv, RunInv, EndInv, CompleteOnSuccess
<1> QED
  BY <1>1, <1>3, <1>4

(* An answer that is a whole chunk, or that brings the total to Size, is    *)
(* all that its request asked for.                                         *)
LEMMA FullAnswer ==
  ASSUME NEW a \in Int, NEW l \in Int, NEW r \in Int, NEW q \in Int,
         0 <= a, a <= l, l <= ChunkSize, r + l <= q, q <= Size,
         a = ChunkSize \/ r + a = Size
  PROVE  a = l
  OBVIOUS

(* A full answer extends the output by the extent that comes next. *)
LEMMA YieldStep ==
  ASSUME Inv, pc = "wait", answered > 0,
         reqs[1].ans # Error,
         reqs[1].ans = ChunkSize \/ received + reqs[1].ans = Size,
         received' = received + reqs[1].ans,
         out' = Append(out, [off |-> reqs[1].off, len |-> reqs[1].ans])
  PROVE  /\ reqs[1].ans = reqs[1].len
         /\ out' \in Seq([off : Nat, len : Nat])
         /\ received' \in Nat
         /\ received' = Delivered'
         /\ InOrder'
<1> DEFINE e == [off |-> reqs[1].off, len |-> reqs[1].ans]
<1>1. /\ TypeOK /\ Chained /\ AnswersFit /\ received = Delivered /\ InOrder
      /\ Len(reqs) >= 1
  BY ReadTypeFacts DEF Inv, RunInv
<1>2. /\ reqs[1].off = received /\ reqs[1].len \in 1 .. ChunkSize
      /\ reqs[1].off + reqs[1].len <= queued
  BY <1>1, ReadTypeFacts DEF Chained
<1>3. reqs[1].ans \in 0 .. reqs[1].len
  BY <1>1, <1>2, ReadTypeFacts DEF AnswersFit
<1>4. reqs[1].ans = reqs[1].len
  <2>1. /\ reqs[1].ans \in Int /\ reqs[1].len \in Int /\ received \in Int /\ queued \in Int
        /\ queued <= Size
    BY <1>1, ReadTypeFacts
  <2>2. /\ 0 <= reqs[1].ans /\ reqs[1].ans <= reqs[1].len /\ reqs[1].len <= ChunkSize
        /\ received + reqs[1].len <= queued
    BY <1>2, <1>3, <2>1
  <2> QED
    BY <2>1, <2>2, FullAnswer
<1>5. e \in [off : Nat, len : Nat] /\ e.off = received /\ e.len = reqs[1].len
  BY <1>1, <1>2, <1>3, <1>4, ReadTypeFacts
<1>6. out' = Append(out, e) /\ out \in Seq([off : Nat, len : Nat])
  BY <1>1 DEF TypeOK
<1> HIDE DEF e
<1>7. /\ out' \in Seq([off : Nat, len : Nat])
      /\ Len(out') = Len(out) + 1
      /\ \A i \in 1 .. Len(out) : out'[i] = out[i]
      /\ out'[Len(out) + 1] = e
      /\ out' # << >>
  BY <1>5, <1>6, AppendFacts
<1>8. Delivered' = received + reqs[1].len
  <2>1. Len(out') = Len(out) + 1 /\ out'[Len(out')] = e
    BY <1>7
  <2>2. Delivered' = e.off + e.len
    BY <2>1, <1>7 DEF Delivered
  <2> QED
    BY <2>2, <1>5
<1>9. InOrder'
  <2> SUFFICES ASSUME NEW i \in 1 .. Len(out')
               PROVE  out'[i].off = IF i = 1 THEN 0 ELSE out'[i - 1].off + out'[i - 1].len
    BY DEF InOrder
  <2>1. CASE i <= Len(out)
    <3>1. i \in 1 .. Len(out) /\ out'[i] = out[i]
      BY <2>1, <1>7, ReadTypeFacts
    <3>2. i # 1 => i - 1 \in 1 .. Len(out) /\ out'[i - 1] = out[i - 1]
      BY <2>1, <3>1, <1>7, ReadTypeFacts
    <3> QED
      BY <3>1, <3>2, <1>1 DEF InOrder
  <2>2. CASE i = Len(out) + 1
    <3>1. CASE i = 1
      BY <2>2, <3>1, <1>1, <1>5, <1>7, ReadTypeFacts DEF Delivered
    <3>2. CASE i # 1
      <4>1. out # << >> /\ out'[i - 1] = out[Len(out)] /\ out'[i] = e
        BY <2>2, <3>2, <1>1, <1>7, ReadTypeFacts
      <4>2. Delivered = out[Len(out)].off + out[Len(out)].len /\ e.off = Delivered
        BY <4>1, <1>1, <1>5 DEF Delivered
      <4> QED
        BY <4>1, <4>2, <3>2
    <3> QED
      BY <3>1, <3>2
  <2>3. Len(out) \in Nat /\ Len(out') = Len(out) + 1
    BY <1>1, <1>7, ReadTypeFacts
  <2>4. i <= Len(out) \/ i = Len(out) + 1
    BY <2>3
  <2> QED
    BY <2>1, <2>2, <2>4
<1> QED
  BY <1>1, <1>2, <1>3, <1>4, <1>7, <1>8, <1>9, ReadTypeFacts

(* Removing a request that was answered in full keeps the chain. *)
LEMMA TailStep ==
  ASSUME TypeOK, Chained, AnswersFit, answered > 0, reqs # << >>,
         reqs' = Tail(reqs), answered' = answered - 1, queued' = queued,
         received' = received + reqs[1].len
  PROVE  Chained' /\ AnswersFit'
<1>1. /\ Len(reqs') = Len(reqs) - 1
      /\ \A i \in 1 .. Len(reqs) - 1 : reqs'[i] = reqs[i + 1]
      /\ (reqs' = << >> <=> Len(reqs) = 1)
      /\ Len(reqs) >= 1
  BY TailFacts DEF TypeOK
<1>2. AnswersFit'
  <2> SUFFICES ASSUME NEW i \in 1 .. answered'
               PROVE  reqs'[i].ans \in {Error} \union (0 .. reqs'[i].len)
    BY DEF AnswersFit
  <2>1. i + 1 \in 1 .. answered /\ i \in 1 .. Len(reqs) - 1
    BY <1>1, ReadTypeFacts
  <2>2. reqs'[i] = reqs[i + 1]
    BY <1>1, <2>1
  <2>3. reqs[i + 1].ans \in {Error} \union (0 .. reqs[i + 1].len)
    BY <2>1 DEF AnswersFit
  <2> QED
    BY <2>2, <2>3
<1>3. ASSUME NEW i \in 1 .. Len(reqs')
      PROVE  /\ reqs'[i].off = IF i = 1 THEN received' ELSE reqs'[i - 1].off + reqs'[i - 1].len
             /\ reqs'[i].len \in 1 .. ChunkSize
             /\ reqs'[i].off + reqs'[i].len <= queued'
  <2>1. i + 1 \in 1 .. Len(reqs) /\ i + 1 # 1 /\ reqs'[i] = reqs[i + 1]
        /\ i + 1 - 1 = i
    BY SMTT(30), <1>1, ReadTypeFacts
  <2>2. /\ reqs[i + 1].off = reqs[i].off + reqs[i].len
        /\ reqs[i + 1].len \in 1 .. ChunkSize
        /\ reqs[i + 1].off + reqs[i + 1].len <= queued
    BY <2>1 DEF Chained
  <2>3. reqs[1].off = received
    BY SMTT(60), <1>1, ReadTypeFacts DEF Chained
  <2>4. i # 1 => reqs'[i - 1] = reqs[i]
    BY <1>1, ReadTypeFacts
  <2> QED
    BY <2>1, <2>2, <2>3, <2>4
<1>4. reqs' = << >> => received' = queued'
  BY <1>1, ReadTypeFacts DEF Chained
<1>5. reqs' # << >> => reqs'[Len(reqs')].off + reqs'[Len(reqs')].len = queued'
  BY <1>1, ReadTypeFacts DEF Chained
<1> QED
  BY <1>2, <1>3, <1>4, <1>5 DEF Chained

(* Consuming an answer, full, short or an error, keeps the invariant. *)
LEMMA WaitReadStep ==
  ASSUME Inv, WaitRead
  PROVE  Inv'
<1>1. /\ pc = "wait" /\ answered > 0 /\ reqs' = Tail(reqs) /\ answered' = answered - 1
      /\ UNCHANGED <<length, queued>>
  BY DEF WaitRead
<1>2. /\ TypeOK /\ Chained /\ AnswersFit /\ received = Delivered /\ status = "running" /\ KeptFull
      /\ InOrder /\ reqs # << >>
  BY <1>1 DEF Inv, RunInv, KeptFull
<1>3. /\ reqs' \in Seq(Requests)
      /\ Len(reqs') = Len(reqs) - 1
      /\ Head(reqs) = reqs[1]
      /\ Len(reqs) >= 1
  BY <1>1, <1>2, TailFacts DEF TypeOK
<1>4. answered' \in 0 .. Len(reqs') /\ Len(reqs') <= MaxPending
  <2>1. /\ answered \in Nat /\ answered <= Len(reqs) /\ Len(reqs) \in Nat
        /\ Len(reqs) <= MaxPending + 1
    BY <1>1, <1>2, ReadTypeFacts DEF KeptFull
  <2> QED
    BY <1>1, <1>3, <2>1
<1>5. CASE reqs[1].ans = Error
  <2>1. pc' = "end" /\ status' = "failed" /\ UNCHANGED <<received, out>>
    BY <1>3, <1>5 DEF WaitRead, End
  <2>2. TypeOK'
    BY <2>1, <1>1, <1>2, <1>3, <1>4 DEF TypeOK
  <2> QED
    BY <2>1, <2>2, <1>2, <1>4, SameOutput DEF Inv, RunInv, EndInv, CompleteOnSuccess
<1>6. CASE reqs[1].ans # Error /\ reqs[1].ans # ChunkSize /\ received + reqs[1].ans # Size
  <2>1. pc' = "end" /\ status' = "failed" /\ UNCHANGED out /\ received' = received + reqs[1].ans
    BY <1>3, <1>6 DEF WaitRead, End
  <2>2. reqs[1].ans \in 0 .. reqs[1].len
    BY <1>1, <1>2, <1>3, <1>6, ReadTypeFacts DEF AnswersFit
  <2>3. received' \in Nat
    BY <2>1, <2>2, <1>2, <1>3, ReadTypeFacts
  <2>4. TypeOK'
    BY <2>1, <2>3, <1>1, <1>2, <1>3, <1>4 DEF TypeOK
  <2> QED
    BY <2>1, <2>4, <1>2, <1>4, SameOutput DEF Inv, RunInv, EndInv, CompleteOnSuccess
<1>7. CASE reqs[1].ans # Error /\ (reqs[1].ans = ChunkSize \/ received + reqs[1].ans = Size)
  <2>1. /\ pc' = "yield" /\ status' = status /\ received' = received + reqs[1].ans
        /\ out' = Append(out, [off |-> reqs[1].off, len |-> reqs[1].ans])
    BY <1>3, <1>7 DEF WaitRead, Goto
  <2>2. /\ reqs[1].ans = reqs[1].len
        /\ out' \in Seq([off : Nat, len : Nat])
        /\ received' \in Nat
        /\ received' = Delivered'
        /\ InOrder'
    BY <1>1, <1>7, <2>1, YieldStep
  <2>3. Chained' /\ AnswersFit'
    BY <1>1, <1>2, <2>1, <2>2, TailStep
  <2>4. TypeOK'
    BY <2>1, <2>2, <1>1, <1>2, <1>3, <1>4 DEF TypeOK
  <2>5. KeptFull'
    <3>1. Len(reqs) = MaxPending + 1 \/ (queued = Size /\ Len(reqs) <= MaxPending + 1)
      BY <1>1, <1>2 DEF KeptFull
    <3>2. Len(reqs) \in Nat /\ queued' = queued
      BY <1>1, <1>2, ReadTypeFacts
    <3> QED
      BY <2>1, <1>3, <3>1, <3>2 DEF KeptFull
  <2> QED
    BY <2>1, <2>2, <2>3, <2>4, <2>5, <1>2 DEF Inv, RunInv, EndInv, CompleteOnSuccess
<1> QED
  BY <1>5, <1>6, <1>7

(* An answer of the server keeps the invariant. *)
LEMMA ServerStep ==
  ASSUME Inv, ServerAnswers
  PROVE  Inv'
<1>1. /\ answered < Len(reqs) /\ pc # "end" /\ answered' = answered + 1
      /\ UNCHANGED <<length, queued, received, out, pc, status>>
  BY DEF ServerAnswers
<1>2. /\ TypeOK /\ Chained /\ AnswersFit /\ received = Delivered /\ status = "running" /\ KeptFull
      /\ InOrder
  BY <1>1 DEF Inv, RunInv
<1> DEFINE k == answered + 1
<1>3. k \in 1 .. Len(reqs) /\ Len(reqs) \in Nat
  BY <1>1, <1>2, ReadTypeFacts
<1>4. PICK n \in {Error} \union (0 .. reqs[k].len) : reqs' = [reqs EXCEPT ![k].ans = n]
  BY DEF ServerAnswers
<1>5. n \in Int
  BY <1>2, <1>3, ReadTypeFacts
<1>6. reqs' = [reqs EXCEPT ![k] = [reqs[k] EXCEPT !.ans = n]]
  BY <1>4
<1>7. reqs \in Seq(Requests) /\ reqs[k] \in Requests
  BY <1>2, <1>3, ElementFacts DEF TypeOK
<1>8. [reqs[k] EXCEPT !.ans = n] \in Requests
  BY <1>5, <1>7 DEF Requests
<1>9. /\ reqs' \in Seq(Requests)
      /\ Len(reqs') = Len(reqs)
      /\ \A i \in 1 .. Len(reqs) : i # k => reqs'[i] = reqs[i]
      /\ reqs'[k] = [reqs[k] EXCEPT !.ans = n]
  BY <1>3, <1>6, <1>7, <1>8
<1>10. \A i \in 1 .. Len(reqs) : reqs'[i].off = reqs[i].off /\ reqs'[i].len = reqs[i].len
  BY <1>7, <1>9 DEF Requests
<1>11. reqs'[k].ans = n
  BY <1>7, <1>9 DEF Requests
<1>12. reqs' = << >> <=> reqs = << >>
  BY <1>7, <1>9, EmptyFacts
<1>13. Chained'
  <2>1. ASSUME NEW i \in 1 .. Len(reqs')
        PROVE  /\ reqs'[i].off = IF i = 1 THEN received' ELSE reqs'[i - 1].off + reqs'[i - 1].len
               /\ reqs'[i].len \in 1 .. ChunkSize
               /\ reqs'[i].off + reqs'[i].len <= queued'
    <3>1. i # 1 => i - 1 \in 1 .. Len(reqs)
      BY <1>3, <1>9
    <3> QED
      BY <3>1, <1>1, <1>2, <1>9, <1>10 DEF Chained
  <2>2. reqs # << >> => Len(reqs) \in 1 .. Len(reqs)
    BY <1>3
  <2> QED
    BY <2>1, <2>2, <1>1, <1>2, <1>9, <1>10, <1>12 DEF Chained
<1>14. AnswersFit'
  <2> SUFFICES ASSUME NEW i \in 1 .. answered'
               PROVE  reqs'[i].ans \in {Error} \union (0 .. reqs'[i].len)
    BY DEF AnswersFit
  <2>1. CASE i = k
    BY <2>1, <1>3, <1>4, <1>10, <1>11
  <2>2. CASE i # k
    <3>1. i \in 1 .. answered /\ i \in 1 .. Len(reqs)
      BY <2>2, <1>1, <1>2, <1>3, ReadTypeFacts
    <3> QED
      BY <3>1, <2>2, <1>2, <1>9 DEF AnswersFit
  <2> QED
    BY <2>1, <2>2
<1>15. TypeOK'
  BY <1>1, <1>2, <1>3, <1>9 DEF TypeOK
<1>16. KeptFull'
  BY <1>1, <1>2, <1>9, <1>12 DEF KeptFull
<1> QED
  BY <1>1, <1>2, <1>13, <1>14, <1>15, <1>16, SameOutput
  DEF Inv, RunInv, EndInv, CompleteOnSuccess

(* Every step keeps the invariant. *)
LEMMA InvStep == Inv /\ [Next]_vars => Inv'
<1> SUFFICES ASSUME Inv, [Next]_vars PROVE Inv'
  OBVIOUS
<1>1. CASE Fill          BY <1>1, FillStep
<1>2. CASE Filled        BY <1>2, FilledStep
<1>3. CASE Take          BY <1>3, TakeStep
<1>4. CASE WaitRead      BY <1>4, WaitReadStep
<1>5. CASE ServerAnswers BY <1>5, ServerStep
<1>6. CASE BeginFails
  <2>1. /\ pc \in {"fill", "take"} /\ pc' = "end" /\ status' = "failed"
        /\ UNCHANGED <<length, queued, reqs, answered, received, out>>
    BY <1>6 DEF BeginFails, End
  <2>2. TypeOK' /\ Len(reqs) <= MaxPending
    BY <2>1, ReadTypeFacts DEF Inv, TypeOK, RunInv, KeptFull
  <2> QED
    BY <2>1, <2>2, SameOutput DEF Inv, RunInv, EndInv, CompleteOnSuccess
<1>7. CASE Consume
  <2>1. /\ pc = "yield"
        /\ \/ pc' = "take" /\ status' = status
           \/ pc' = "end" /\ status' \in {"stopped", "failed"}
        /\ UNCHANGED <<length, queued, reqs, answered, received, out>>
    BY <1>7 DEF Consume, Goto, End
  <2>2. TypeOK' /\ Len(reqs) <= MaxPending
    BY <2>1, ReadTypeFacts DEF Inv, TypeOK, RunInv, KeptFull
  <2>3. pc' = "take" => KeptFull'
    BY <2>1 DEF Inv, RunInv, KeptFull
  <2> QED
    BY <2>1, <2>2, <2>3, SameOutput, SameChain DEF Inv, RunInv, EndInv, CompleteOnSuccess
<1>8. CASE Finish
  <2>1. /\ pc = "take" /\ reqs = << >> /\ pc' = "end" /\ status' = "complete"
        /\ UNCHANGED <<length, queued, reqs, answered, received, out>>
    BY <1>8 DEF Finish, End
  <2>2. Len(reqs) = 0
    BY <2>1, ReadTypeFacts DEF Inv
  <2>3. received = Delivered /\ received = queued /\ queued = Size
    BY <2>1, <2>2 DEF Inv, RunInv, Chained, KeptFull
  <2>4. TypeOK'
    BY <2>1 DEF Inv, TypeOK
  <2> QED
    BY <2>1, <2>2, <2>3, <2>4, SameOutput DEF Inv, RunInv, EndInv, CompleteOnSuccess
<1>9. CASE OtherClient
  <2>1. /\ length' \in 0 .. Size + 1
        /\ UNCHANGED <<queued, reqs, answered, received, out, pc, status>>
    BY <1>9 DEF OtherClient
  <2>2. TypeOK' /\ (KeptFull => KeptFull')
    BY <2>1 DEF Inv, TypeOK, KeptFull
  <2> QED
    BY <2>1, <2>2, SameOutput, SameChain DEF Inv, RunInv, EndInv, CompleteOnSuccess
<1>10. CASE UNCHANGED vars
  BY <1>10 DEF vars, Inv, TypeOK, InOrder, RunInv, EndInv, CompleteOnSuccess, Chained,
               AnswersFit, KeptFull, Delivered
<1> QED
  BY <1>1, <1>2, <1>3, <1>4, <1>5, <1>6, <1>7, <1>8, <1>9, <1>10
  DEF Next, ReaderNext, Ended

(* The invariant holds in every reachable state. *)
LEMMA InvHolds == Spec => []Inv
  BY InvInit, InvStep, PTL DEF Spec

-----------------------------------------------------------------------------
(* asyncRead never asks for more than Size bytes and all variables keep    *)
(* their types.                                                            *)
THEOREM ReadTypeCorrect == Spec => []TypeOK
<1>1. Inv => TypeOK
  BY DEF Inv
<1> QED
  BY <1>1, InvHolds, PTL

(* At most MAX_PENDING_REQUESTS requests wait, besides the one whose       *)
(* answer is awaited.                                                      *)
THEOREM ReadWindow == Spec => []WindowBounded
<1>1. Inv => WindowBounded
  <2> SUFFICES ASSUME Inv PROVE WindowBounded
    OBVIOUS
  <2>1. Len(reqs) \in Nat /\ pc \in {"fill", "take", "wait", "yield", "end"}
    BY ReadTypeFacts DEF Inv, TypeOK
  <2> QED
    BY <2>1 DEF Inv, RunInv, EndInv, KeptFull, WindowBounded
<1> QED
  BY <1>1, InvHolds, PTL

(* What sftpGet receives is the file from the start on, without gaps, for  *)
(* every way in which the server cuts and fails its answers; and asyncRead *)
(* ends without an error only after exactly Size bytes.                    *)
THEOREM ReadIsExact == Spec => []ReadExact
<1>1. Inv => ReadExact
  BY DEF Inv, EndInv, ReadExact
<1> QED
  BY <1>1, InvHolds, PTL

(* A yield delivers the next bytes, and every other step stutters or ends  *)
(* the transfer: the pipelined read implements the sequential one.         *)
THEOREM ReadImplementsSequential == Spec => ReadIsSequential
<1>1. Init => Sequential!SeqInit
  BY DEF Init, Sequential!SeqInit, Delivered
<1>2. Inv /\ Inv' /\ [Next]_vars => [Sequential!SeqNext]_(Sequential!svars)
  <2> SUFFICES ASSUME Inv, Inv', [Next]_vars
               PROVE  [Sequential!SeqNext]_(Sequential!svars)
    OBVIOUS
  <2> USE DEF Sequential!SeqNext, Sequential!svars
  <2>1. ASSUME UNCHANGED <<out, status>> PROVE UNCHANGED Sequential!svars
    BY <2>1, SameOutput
  <2>2. ASSUME pc # "end", UNCHANGED out, status' \in {"failed", "stopped"}
        PROVE  Sequential!GiveUp
    BY <2>2, SameOutput DEF Inv, RunInv, Sequential!GiveUp
  <2>3. CASE Fill          BY <2>1, <2>3 DEF Fill
  <2>4. CASE Filled        BY <2>1, <2>4 DEF Filled, Goto
  <2>5. CASE Take          BY <2>1, <2>5 DEF Take, Goto
  <2>6. CASE ServerAnswers BY <2>1, <2>6 DEF ServerAnswers
  <2>7. CASE OtherClient   BY <2>1, <2>7 DEF OtherClient
  <2>8. CASE BeginFails    BY <2>2, <2>8 DEF BeginFails, End
  <2>9. CASE Consume       BY <2>1, <2>2, <2>9 DEF Consume, Goto, End
  <2>10. CASE Finish
    <3>1. pc = "take" /\ status' = "complete" /\ UNCHANGED out
      BY <2>10 DEF Finish, End
    <3>2. Delivered' = Delivered /\ Delivered' = Size /\ status = "running"
      BY <3>1, SameOutput DEF Inv, RunInv, EndInv, CompleteOnSuccess
    <3> QED
      BY <3>1, <3>2 DEF Sequential!Complete
  <2>11. CASE WaitRead
    <3>1. CASE UNCHANGED out
      <4>1. pc = "wait"
        BY <2>11 DEF WaitRead
      <4>2. UNCHANGED status \/ status' = "failed"
        BY <2>11 DEF WaitRead, End, Goto
      <4> QED
        BY <2>1, <2>2, <3>1, <4>1, <4>2
    <3>2. CASE out' # out
      <4>1. /\ pc = "wait" /\ answered > 0 /\ pc' = "yield" /\ status' = status
            /\ Head(reqs).ans # Error
            /\ Head(reqs).ans = ChunkSize \/ received + Head(reqs).ans = Size
            /\ received' = received + Head(reqs).ans
            /\ out' = Append(out, [off |-> Head(reqs).off, len |-> Head(reqs).ans])
            /\ queued' = queued
        BY <2>11, <3>2 DEF WaitRead, Goto
      <4>2. TypeOK /\ reqs # << >> /\ Chained /\ received = Delivered /\ status = "running"
        BY <4>1 DEF Inv, RunInv, KeptFull
      <4>3. Head(reqs) = reqs[1] /\ Len(reqs) >= 1
        BY <4>2, TailFacts DEF TypeOK
      <4>4. reqs[1].ans = reqs[1].len /\ received' = Delivered'
        BY <4>1, <4>3, YieldStep
      <4>5. /\ reqs[1].off = received /\ reqs[1].len \in 1 .. ChunkSize
            /\ reqs[1].off + reqs[1].len <= queued
        BY <4>2, <4>3, ReadTypeFacts DEF Chained
      <4>6. Delivered' \in Nat /\ Delivered' > Delivered /\ Delivered' <= Size
        BY <4>1, <4>2, <4>3, <4>4, <4>5, ReadTypeFacts
      <4> QED
        BY <4>1, <4>2, <4>6 DEF Sequential!Deliver
    <3> QED
      BY <3>1, <3>2
  <2>12. CASE UNCHANGED vars
    BY <2>1, <2>12 DEF vars
  <2> QED
    BY <2>3, <2>4, <2>5, <2>6, <2>7, <2>8, <2>9, <2>10, <2>11, <2>12
    DEF Next, ReaderNext, Ended
<1> QED
  BY <1>1, <1>2, InvHolds, PTL DEF Spec, ReadIsSequential, Sequential!SeqSpec

-----------------------------------------------------------------------------
(* Types *)

Known == User \cup {Nothing}
Names == File \cup {Nothing}
AuthPcs == {"none", "publickey", "gssapi", "keyboard", "password", "reconnect", "send", "subsystem"}
LoginPcs == {"connect", "fingerprint", "hostKey"} \cup AuthPcs
CommandPcs == {"op", "readdir", "mkdirStat", "rename", "remove", "unlink", "symlink", "open", "sniff", "opened"}

Results == {"none", "pass", "fail", "redirect"} \cup Kind \cup {"unknown"}

RequestType ==
  [pc : {"idle"} \cup LoginPcs \cup CommandPcs, op : NameOps \cup {"none"}, user : Known, name : Names, dest : Names,
   overwrite : BOOLEAN, isfile : BOOLEAN, done : BOOLEAN, result : Results]
InfoType == [username : Known, password : Known, keep : BOOLEAN, first : BOOLEAN, passphrase : BOOLEAN]
SessionType == [state : {"none", "alive", "dead"}, user : Known, auth : BOOLEAN]
EntryType == {Nothing} \cup [kind : Kind, was : Names]

SessionTypeInv ==
  /\ request \in RequestType /\ info \in InfoType /\ mSession \in SessionType
  /\ mUsername \in Known /\ mPassword \in Known /\ mConnected \in BOOLEAN
  /\ cached \in [User -> Known] /\ entries \in [File -> EntryType]

-----------------------------------------------------------------------------
(* The login under way, the command it is for and the session it has.      *)

(* What logged in is whom info names, and stays that of the URL.           *)
LoginInv ==
  /\ mConnected => mSession.auth = TRUE /\ (mUsername # Nothing => mSession.user = mUsername)
  /\ request.pc # "idle" => request.user = mUsername /\ request.result = "none"
  /\ request.pc \in CommandPcs => mConnected = TRUE
  /\ request.pc \in LoginPcs => mConnected = FALSE
  /\ request.pc \in AuthPcs \ {"reconnect"} => mSession.user = Login(info.username)
  /\ request.pc \in {"fingerprint", "hostKey"} => mSession.user = Login(info.username)
  /\ request.pc = "subsystem" => mSession.auth = TRUE

(* A password to be kept is of the name it is kept for, once it has been   *)
(* taken; only the dialog sets the mark, and only "send" leads on from it. *)
KeepInv ==
  /\ info.keep = TRUE => request.pc \in {"password", "reconnect", "send", "subsystem"}
  /\ info.keep = TRUE /\ request.pc = "password" => info.first = FALSE
  /\ info.keep = TRUE /\ request.pc = "subsystem" => info.password = Login(info.username)
  /\ CachedPasswordWorks

(* Only the commands that close the file themselves run with one open.     *)
OpenFileInv == mOpenFile \in {"none", "open"} /\ (mOpenFile = "open" => request.pc \in {"sniff", "opened"})

(* What is known of a command at each of its steps.                        *)
StepOf(step) ==
  /\ step = "mkdirStat" => request.op = "mkdir"
  /\ step = "remove" => request.op = "rename" /\ request.overwrite = TRUE
  /\ step = "rename" => request.op = "rename"
  /\ step \in {"unlink", "symlink"} => request.op = "symlink" /\ request.overwrite = TRUE
  /\ step = "readdir" => request.op = "list"
  /\ step \in {"open", "sniff", "opened"} => request.op \in {"open", "mimetype"}
CommandInv ==
  /\ request.op # "rename" => request.dest = request.name
  /\ request.op = "rename" => request.dest # request.name
  /\ request.pc # "idle" => request.name \in File /\ request.dest \in File
  /\ StepOf(request.pc)

SessionInv == SessionTypeInv /\ LoginInv /\ KeepInv /\ OpenFileInv /\ CommandInv

-----------------------------------------------------------------------------
(* What a step does to the command under way.                              *)

LEMMA Ends ==
  ASSUME NEW r \in Results, NamesFinish(r)
  PROVE  /\ request' \in RequestType /\ request'.pc = "idle" /\ request'.op = "none" /\ request'.dest = request'.name
         /\ request'.done = FALSE /\ request'.result = r
BY DEF NamesFinish, NoRequest, RequestType, Results, Known, Names

LEMMA EndsCarried ==
  ASSUME Carried
  PROVE  /\ request' \in RequestType /\ request'.pc = "idle" /\ request'.op = "none" /\ request'.dest = request'.name
         /\ request'.done = TRUE
<1>1. request' = [pc |-> "idle", op |-> "none", user |-> Nothing, name |-> Nothing, dest |-> Nothing,
                  overwrite |-> FALSE, isfile |-> TRUE, done |-> TRUE, result |-> "pass"]
  BY DEF Carried, NoRequest
<1> QED
  BY <1>1 DEF RequestType, Results, Known, Names

LEMMA GoesTo ==
  ASSUME request \in RequestType, NEW step \in LoginPcs \cup CommandPcs, SessionGoto(step)
  PROVE  /\ request' \in RequestType /\ request'.pc = step /\ request'.op = request.op /\ request'.user = request.user
         /\ request'.name = request.name /\ request'.dest = request.dest
         /\ request'.overwrite = request.overwrite /\ request'.result = request.result
BY DEF SessionGoto, RequestType

LEMMA SessionInvInit == SessionInit => SessionInv
<1> SUFFICES ASSUME SessionInit PROVE SessionInv
  OBVIOUS
<1>1. SessionTypeInv
  <2>1. request \in RequestType /\ info \in InfoType /\ mSession \in SessionType
    BY DEF SessionInit, NoRequest, NoInfo, NoSession, RequestType, InfoType, SessionType, Results, Known, Names
  <2>2. entries \in [File -> EntryType]
    <3>1. \A k \in Kind, n \in File : [kind |-> k, was |-> n] \in EntryType
      BY DEF EntryType, Names
    <3>2. Nothing \in EntryType
      BY DEF EntryType
    <3>3. {Nothing} \cup {[kind |-> k, was |-> n] : k \in Kind, n \in File} \subseteq EntryType
      BY <3>1, <3>2
    <3> QED
      BY <3>3 DEF SessionInit
  <2> QED
    BY <2>1, <2>2 DEF SessionInit, SessionTypeInv, Known
<1>2. LoginInv /\ KeepInv /\ OpenFileInv /\ CommandInv
  BY DEF SessionInit, LoginInv, KeepInv, OpenFileInv, CommandInv, StepOf, NoRequest, NoInfo, LoginPcs, AuthPcs, CommandPcs, CachedPasswordWorks
<1> QED
  BY <1>1, <1>2 DEF SessionInv

(* A login that fails leaves nothing of itself.                            *)
LEMMA FailKeeps ==
  ASSUME SessionInv, LoginFails, request.pc \in LoginPcs, UNCHANGED <<mUsername, mPassword, entries>>
  PROVE  SessionInv'
<1>1. /\ request' \in RequestType /\ request'.pc = "idle" /\ request'.op = "none" /\ request'.dest = request'.name
      /\ request'.result = "fail"
  <2>1. NamesFinish("fail") /\ "fail" \in Results
    BY DEF LoginFails, Results
  <2> QED
    BY <2>1, Ends
<1>2. /\ mSession' = NoSession /\ mConnected' = FALSE /\ info' = NoInfo /\ cached' = cached
      /\ mOpenFile = "none" /\ mOpenFile' = "none"
  BY DEF SessionInv, OpenFileInv, LoginFails, CloseConnection, LoginPcs, AuthPcs
<1>3. SessionTypeInv'
  BY <1>1, <1>2 DEF SessionInv, SessionTypeInv, NoSession, NoInfo, SessionType, InfoType, Known
<1>4. LoginInv' /\ KeepInv' /\ OpenFileInv' /\ CommandInv'
  BY <1>1, <1>2 DEF SessionInv, LoginInv, KeepInv, OpenFileInv, CommandInv, StepOf, LoginPcs, AuthPcs, CommandPcs, NoInfo, CachedPasswordWorks
<1> QED
  BY <1>3, <1>4 DEF SessionInv

(* The effect of a login's step that goes on: who is logged in is whom     *)
(* info names, unless a connection for another name comes next.            *)
LoginGoes(step) ==
  /\ request.pc \in LoginPcs /\ step \in LoginPcs \ {"connect"}
  /\ SessionGoto(step) /\ info' \in InfoType /\ mSession' \in SessionType
  /\ UNCHANGED <<mUsername, mPassword, mConnected, mOpenFile, cached, entries>>
  /\ step # "reconnect" => mSession'.user = Login(info'.username)
  /\ step = "subsystem" => mSession'.auth = TRUE
  /\ info'.keep = TRUE => /\ step \in {"password", "reconnect", "send", "subsystem"}
                          /\ step = "password" => info'.first = FALSE
                          /\ step = "subsystem" => info'.password = Login(info'.username)

LEMMA LoginGoesKeeps ==
  ASSUME SessionInv, NEW step, LoginGoes(step)
  PROVE  SessionInv'
<1>1. /\ request' \in RequestType /\ request'.pc = step /\ request'.op = request.op /\ request'.user = request.user
      /\ request'.name = request.name /\ request'.dest = request.dest /\ request'.overwrite = request.overwrite
      /\ request'.result = request.result
  BY GoesTo DEF SessionInv, SessionTypeInv, LoginGoes
<1>2. request.pc \in LoginPcs /\ step \in LoginPcs \ {"connect"}
  BY DEF LoginGoes
<1>3. mOpenFile = "none"
  BY <1>2 DEF SessionInv, OpenFileInv, LoginPcs, AuthPcs
<1>4. SessionTypeInv'
  BY <1>1 DEF SessionInv, SessionTypeInv, LoginGoes
<1>5. LoginInv'
  BY <1>1, <1>2 DEF SessionInv, LoginInv, LoginGoes, LoginPcs, AuthPcs, CommandPcs
<1>6. KeepInv'
  BY <1>1, <1>2 DEF SessionInv, KeepInv, LoginGoes, CachedPasswordWorks
<1>7. OpenFileInv' /\ CommandInv'
  BY <1>1, <1>2, <1>3 DEF SessionInv, OpenFileInv, CommandInv, StepOf, LoginGoes, LoginPcs, AuthPcs
<1> QED
  BY <1>4, <1>5, <1>6, <1>7 DEF SessionInv

-----------------------------------------------------------------------------
(* Logging in, step by step.                                               *)

LEMMA TryNextKeeps ==
  ASSUME SessionInv, NEW later \in SUBSET Method, NEW offered, TryNext(later, offered), SameLogin,
         request.pc \in AuthPcs \ {"reconnect"}, info.keep = FALSE
  PROVE  SessionInv'
<1>1. CASE LoginFails
  BY <1>1, FailKeeps DEF SameLogin, LoginPcs
<1>2. CASE ~LoginFails
  <2>1. PICK m \in Method : SessionGoto(m) /\ Step /\ UNCHANGED info
    BY <1>2 DEF TryNext
  <2>2. info \in InfoType /\ mSession \in SessionType /\ mSession.user = Login(info.username)
    BY DEF SessionInv, SessionTypeInv, LoginInv
  <2>3. LoginGoes(m)
    BY <2>1, <2>2 DEF LoginGoes, Step, KeepConnection, SameLogin, Method, LoginPcs, AuthPcs
  <2> QED
    BY <2>3, LoginGoesKeeps
<1> QED
  BY <1>1, <1>2

LEMMA AfterIsLater == ASSUME NEW m PROVE After(m) \in SUBSET Method
BY DEF After

LEMMA AuthenticatedKeeps ==
  ASSUME SessionInv, Authenticated, SameLogin, request.pc \in AuthPcs \ {"reconnect"},
         info' \in InfoType, info'.username = info.username,
         info'.keep = TRUE => info'.password = Login(info'.username)
  PROVE  SessionInv'
<1>1. SessionGoto("subsystem") /\ mSession' = [mSession EXCEPT !.auth = TRUE]
      /\ UNCHANGED <<mConnected, mOpenFile, cached, mUsername, mPassword, entries>>
  BY DEF Authenticated, SameLogin
<1>2. mSession \in SessionType /\ mSession.user = Login(info.username)
  BY DEF SessionInv, SessionTypeInv, LoginInv
<1>3. mSession' \in SessionType /\ mSession'.user = mSession.user /\ mSession'.auth = TRUE
  BY <1>1, <1>2 DEF SessionType
<1>4. LoginGoes("subsystem")
  BY <1>1, <1>2, <1>3 DEF LoginGoes, LoginPcs, AuthPcs
<1> QED
  BY <1>4, LoginGoesKeeps

LEMMA ConnectingKeeps == SessionInv /\ (SftpOpenConnection \/ Fingerprint \/ CheckHostKey \/ Reconnect) => SessionInv'
<1> SUFFICES ASSUME SessionInv, SftpOpenConnection \/ Fingerprint \/ CheckHostKey \/ Reconnect PROVE SessionInv'
  OBVIOUS
<1>1. CASE LoginFails
  <2>1. request.pc \in LoginPcs /\ UNCHANGED <<mUsername, mPassword, entries>>
    BY DEF SftpOpenConnection, Fingerprint, CheckHostKey, Reconnect, At, SameLogin, LoginPcs, AuthPcs
  <2> QED
    BY <1>1, <2>1, FailKeeps
<1>2. CASE ~LoginFails
  <2> DEFINE Following == IF request.pc = "connect" THEN "fingerprint" ELSE IF request.pc = "fingerprint" THEN "hostKey"
                     ELSE IF request.pc = "hostKey" THEN "none" ELSE "send"
  <2>1. /\ request.pc \in {"connect", "fingerprint", "hostKey", "reconnect"} /\ SessionGoto(Following)
        /\ UNCHANGED <<info, mConnected, mOpenFile, cached, mUsername, mPassword, entries>>
        /\ IF request.pc \in {"connect", "reconnect"}
           THEN mSession' = [state |-> "alive", user |-> Login(info.username), auth |-> FALSE] ELSE mSession' = mSession
    BY <1>2 DEF SftpOpenConnection, Fingerprint, CheckHostKey, Reconnect, At, SameLogin, Step, KeepConnection, Connected
  <2>2. info \in InfoType /\ mSession \in SessionType /\ Login(info.username) \in Known
    BY SessionAssumption DEF SessionInv, SessionTypeInv, InfoType, Login, Known
  <2>3. mSession' \in SessionType
    <3>1. [state |-> "alive", user |-> Login(info.username), auth |-> FALSE] \in SessionType
      BY <2>2 DEF SessionType
    <3> QED
      BY <2>1, <2>2, <3>1
  <2>4. mSession'.user = Login(info.username) /\ (info.keep = TRUE => request.pc = "reconnect")
    BY <2>1 DEF SessionInv, LoginInv, KeepInv
  <2>5. LoginGoes(Following)
    BY <2>1, <2>2, <2>3, <2>4 DEF LoginGoes, LoginPcs, AuthPcs
  <2> QED
    BY <2>5, LoginGoesKeeps
<1> QED
  BY <1>1, <1>2

(* The methods before the password: nothing is marked to be kept.          *)
LEMMA MethodKeeps ==
  SessionInv /\ (UserauthNone \/ AuthCallback \/ UserauthPublickey \/ UserauthGssapi \/ AuthenticateKeyboardInteractive) => SessionInv'
<1> SUFFICES ASSUME SessionInv,
                    UserauthNone \/ AuthCallback \/ UserauthPublickey \/ UserauthGssapi \/ AuthenticateKeyboardInteractive
             PROVE  SessionInv'
  OBVIOUS
<1>1. /\ request.pc \in AuthPcs \ {"password", "reconnect", "send", "subsystem"} /\ SameLogin
      /\ request.pc \in AuthPcs \ {"reconnect"} /\ request.pc \in LoginPcs
  BY DEF UserauthNone, AuthCallback, UserauthPublickey, UserauthGssapi, AuthenticateKeyboardInteractive, At, AuthPcs, LoginPcs
<1>2. /\ info \in InfoType /\ mSession \in SessionType /\ mSession.user = Login(info.username)
      /\ Login(info.username) \in Known /\ info.keep = FALSE /\ UNCHANGED <<mUsername, mPassword, entries>>
  BY <1>1, SessionAssumption DEF SessionInv, SessionTypeInv, LoginInv, KeepInv, InfoType, Login, Known, SameLogin
<1>3. CASE LoginFails
  BY <1>1, <1>2, <1>3, FailKeeps
<1>4. CASE Authenticated /\ UNCHANGED info
  BY <1>1, <1>2, <1>4, AuthenticatedKeeps
<1>5. CASE Authenticated /\ info' = [info EXCEPT !.password = Login(info.username)]
  <2>1. info' \in InfoType /\ info'.username = info.username /\ info'.keep = FALSE
    BY <1>2, <1>5 DEF InfoType
  <2> QED
    BY <1>1, <1>5, <2>1, AuthenticatedKeeps
<1>6. ASSUME NEW later \in SUBSET Method, NEW offered, TryNext(later, offered) PROVE SessionInv'
  BY <1>1, <1>2, <1>6, TryNextKeeps
<1>7. CASE AuthCallback
  <2>1. info' \in InfoType /\ info'.username = info.username /\ info'.keep = FALSE /\ info'.password = info.password
    BY <1>2, <1>7 DEF AuthCallback, InfoType
  <2>2. request' = request /\ UNCHANGED <<mSession, mConnected, mOpenFile, cached>>
    BY <1>7 DEF AuthCallback, Step, KeepConnection
  <2>3. SessionTypeInv'
    BY <1>2, <2>1, <2>2 DEF SessionInv, SessionTypeInv
  <2>4. LoginInv' /\ KeepInv' /\ OpenFileInv' /\ CommandInv'
    BY <1>2, <2>1, <2>2 DEF SessionInv, LoginInv, KeepInv, OpenFileInv, CommandInv, StepOf, CachedPasswordWorks
  <2> QED
    BY <2>3, <2>4 DEF SessionInv
<1>8. CASE \E offered : \E later \in SUBSET Method : TryNext(later, offered)
  BY <1>6, <1>8
<1>9. CASE UserauthNone
  BY <1>3, <1>4, <1>8, <1>9 DEF UserauthNone
<1>10. CASE UserauthPublickey
  BY <1>3, <1>4, <1>8, <1>10, AfterIsLater DEF UserauthPublickey
<1>11. CASE UserauthGssapi
  BY <1>3, <1>4, <1>8, <1>11, AfterIsLater DEF UserauthGssapi
<1>12. CASE AuthenticateKeyboardInteractive
  BY <1>3, <1>5, <1>8, <1>12, AfterIsLater DEF AuthenticateKeyboardInteractive
<1> QED
  BY <1>7, <1>9, <1>10, <1>11, <1>12

(* The dialog may give another name, which needs a connection of its own;  *)
(* the server takes the password of the user who is connected, only.       *)
LEMMA PasswordKeeps == SessionInv /\ (AskPassword \/ GivenPassword \/ UserauthPassword) => SessionInv'
<1> SUFFICES ASSUME SessionInv, AskPassword \/ GivenPassword \/ UserauthPassword PROVE SessionInv'
  OBVIOUS
<1>1. request.pc \in {"password", "send"} /\ request.pc \in LoginPcs /\ request.pc \in AuthPcs \ {"reconnect"} /\ SameLogin
  BY DEF AskPassword, GivenPassword, UserauthPassword, At, LoginPcs, AuthPcs
<1>2. /\ info \in InfoType /\ mSession \in SessionType /\ mSession.user = Login(info.username)
      /\ UNCHANGED <<mUsername, mPassword, entries>>
  BY <1>1 DEF SessionInv, SessionTypeInv, LoginInv, SameLogin
<1>3. CASE LoginFails
  BY <1>1, <1>2, <1>3, FailKeeps
<1>4. CASE AskPassword /\ ~LoginFails
  <2>1. PICK user \in User, password \in User, keep \in BOOLEAN :
          /\ info' = [info EXCEPT !.username = user, !.password = password, !.keep = keep]
          /\ SessionGoto(IF user # Login(info.username) THEN "reconnect" ELSE "send")
          /\ Step
    BY <1>4 DEF AskPassword
  <2>2. info' \in InfoType /\ info'.username = user
    <3>1. user \in Known /\ password \in Known
      BY DEF Known
    <3> QED
      BY <1>2, <2>1, <3>1 DEF InfoType
  <2>3. Login(user) = user
    BY SessionAssumption DEF Login
  <2>4. LoginGoes(IF user # Login(info.username) THEN "reconnect" ELSE "send")
    BY <1>1, <1>2, <2>1, <2>2, <2>3 DEF LoginGoes, Step, KeepConnection, LoginPcs, AuthPcs
  <2> QED
    BY <2>4, LoginGoesKeeps
<1>5. CASE GivenPassword
  <2>1. SessionGoto("send") /\ Step /\ info' = info
    BY <1>5 DEF GivenPassword
  <2>2. LoginGoes("send")
    BY <1>1, <1>2, <2>1 DEF LoginGoes, Step, KeepConnection, LoginPcs, AuthPcs
  <2> QED
    BY <2>2, LoginGoesKeeps
<1>6. CASE UserauthPassword /\ ~LoginFails
  <2>1. CASE info.password = mSession.user /\ Authenticated /\ UNCHANGED info
    BY <1>1, <1>2, <2>1, AuthenticatedKeeps
  <2>2. CASE SessionGoto("password") /\ Step /\ info' = [info EXCEPT !.first = FALSE, !.password = Nothing]
    <3>1. info' \in InfoType /\ info'.username = info.username /\ info'.first = FALSE
      <4>1. Nothing \in Known
        BY DEF Known
      <4> QED
        BY <1>2, <2>2, <4>1 DEF InfoType
    <3>2. LoginGoes("password")
      BY <1>1, <1>2, <2>2, <3>1 DEF LoginGoes, Step, KeepConnection, LoginPcs, AuthPcs
    <3> QED
      BY <3>2, LoginGoesKeeps
  <2> QED
    BY <1>6, <2>1, <2>2 DEF UserauthPassword
<1> QED
  BY <1>3, <1>4, <1>5, <1>6

(* The session is there: the command starts, or is redirected to the URL   *)
(* of who has logged in instead.                                           *)
LEMMA SftpInitKeeps == SessionInv /\ SftpInit => SessionInv'
<1> SUFFICES ASSUME SessionInv, SftpInit PROVE SessionInv'
  OBVIOUS
<1>1. request.pc = "subsystem" /\ UNCHANGED <<mPassword, entries>>
  BY DEF SftpInit, At
<1>2. CASE LoginFails /\ UNCHANGED mUsername
  BY <1>1, <1>2, FailKeeps DEF LoginPcs, AuthPcs
<1>3. CASE /\ mConnected' = TRUE /\ UNCHANGED <<mSession, mOpenFile>>
           /\ cached' = CacheAuthentication
           /\ mUsername' = IF mUsername = Nothing THEN Nothing ELSE info.username
           /\ IF UserChanged THEN NamesFinish("redirect") ELSE SessionGoto("op")
           /\ info' = NoInfo
  <2>1. /\ info \in InfoType /\ request \in RequestType /\ mSession.user = Login(info.username) /\ mSession.auth = TRUE
        /\ mOpenFile = "none" /\ request.user = mUsername /\ request.result = "none"
        /\ info.keep = TRUE => info.password = Login(info.username)
        /\ cached \in [User -> Known] /\ CachedPasswordWorks /\ CommandInv /\ mSession \in SessionType
    BY <1>1 DEF SessionInv, SessionTypeInv, LoginInv, KeepInv, OpenFileInv, AuthPcs
  <2>2. info' \in InfoType /\ info'.keep = FALSE
    BY <1>3 DEF NoInfo, InfoType, Known
  <2>3. cached' \in [User -> Known] /\ CachedPasswordWorks'
    BY <1>3, <2>1, SessionAssumption DEF CacheAuthentication, CachedPasswordWorks, InfoType, Known, Login
  <2>4. mUsername' \in Known /\ mPassword' \in Known /\ entries' \in [File -> EntryType]
    BY <1>1, <1>3, <2>1 DEF SessionInv, SessionTypeInv, InfoType, Known
  <2>5. mUsername' # Nothing => mSession'.user = mUsername'
    BY <1>3, <2>1 DEF Login
  <2>6. CASE UserChanged
    <3>1. request' \in RequestType /\ request'.pc = "idle" /\ request'.op = "none" /\ request'.dest = request'.name
      <4>1. NamesFinish("redirect") /\ "redirect" \in Results
        BY <1>3, <2>6 DEF Results
      <4> QED
        BY <4>1, Ends
    <3>2. SessionTypeInv'
      BY <1>3, <2>1, <2>2, <2>3, <2>4, <3>1 DEF SessionTypeInv
    <3>3. LoginInv' /\ KeepInv' /\ OpenFileInv' /\ CommandInv'
      BY <1>3, <2>1, <2>2, <2>3, <2>5, <3>1 DEF LoginInv, KeepInv, OpenFileInv, CommandInv, StepOf, LoginPcs, AuthPcs, CommandPcs
    <3> QED
      BY <3>2, <3>3 DEF SessionInv
  <2>7. CASE ~UserChanged
    <3>1. /\ request' \in RequestType /\ request'.pc = "op" /\ request'.op = request.op /\ request'.user = request.user
          /\ request'.name = request.name /\ request'.dest = request.dest
          /\ request'.overwrite = request.overwrite /\ request'.result = request.result
      <4>1. SessionGoto("op") /\ "op" \in LoginPcs \cup CommandPcs
        BY <1>3, <2>7 DEF CommandPcs
      <4> QED
        BY <2>1, <4>1, GoesTo
    <3>2. mUsername' = mUsername
      BY <1>3, <2>7 DEF UserChanged
    <3>3. SessionTypeInv'
      BY <1>3, <2>1, <2>2, <2>3, <2>4, <3>1 DEF SessionTypeInv
    <3>4. LoginInv' /\ KeepInv' /\ OpenFileInv' /\ CommandInv'
      BY <1>1, <1>3, <2>1, <2>2, <2>3, <2>5, <3>1, <3>2 DEF LoginInv, KeepInv, OpenFileInv, CommandInv, StepOf, LoginPcs, AuthPcs, CommandPcs
    <3> QED
      BY <3>3, <3>4 DEF SessionInv
  <2> QED
    BY <2>6, <2>7
<1> QED
  BY <1>2, <1>3 DEF SftpInit

(* A command finds the connection it needs, or has one made; whatever it   *)
(* knows of the last command's login is forgotten.                         *)
LEMMA StartRequestKeeps == SessionInv /\ StartRequest => SessionInv'
<1> SUFFICES ASSUME SessionInv, StartRequest PROVE SessionInv'
  OBVIOUS
<1>1. PICK op \in NameOps, url \in Urls, name \in File, dest \in File, overwrite \in BOOLEAN, isfile \in BOOLEAN :
        /\ IF op = "rename" THEN dest # name ELSE dest = name
        /\ overwrite => op \in {"mkdir", "rename", "symlink"}
        /\ isfile = (op # "del" \/ (entries[name] # Nothing => entries[name].kind # "dir"))
        /\ SetHost(url.user, url.password)
        /\ request' = [NoRequest EXCEPT !.pc = IF mConnected' THEN "op" ELSE "connect", !.op = op, !.user = url.user,
                                        !.name = name, !.dest = dest, !.overwrite = overwrite, !.isfile = isfile]
        /\ info' \in IF mConnected' THEN {NoInfo}
                     ELSE IF url.password # Nothing THEN {[NoInfo EXCEPT !.username = url.user, !.password = url.password]}
                     ELSE CheckCached(url.user)
  BY Zenon DEF StartRequest
<1>2. request.pc = "idle" /\ mOpenFile = "none" /\ UNCHANGED <<cached, entries>>
  BY DEF StartRequest, At
<1>3. url.user \in Known /\ url.password \in Known
  BY SessionAssumption DEF Known
<1>4. SessionTypeInv /\ LoginInv /\ KeepInv
  BY DEF SessionInv
<1>5. /\ mUsername' = url.user /\ mPassword' = url.password
      /\ \/ UNCHANGED <<mSession, mConnected, mUsername>>
         \/ mSession' = NoSession /\ mConnected' = FALSE
      /\ mOpenFile' = "none" /\ mConnected' \in BOOLEAN
  BY <1>1, <1>2, <1>4 DEF SetHost, CloseConnection, KeepConnection, SessionTypeInv
<1>6. mSession' \in SessionType
  <2>1. NoSession \in SessionType
    BY DEF NoSession, SessionType, Known
  <2> QED
    BY <1>4, <1>5, <2>1 DEF SessionTypeInv
<1>7. info' \in InfoType /\ info'.keep = FALSE
  <2>1. NoInfo \in InfoType /\ NoInfo.keep = FALSE
    BY DEF NoInfo, InfoType, Known
  <2>2. \A u, p \in Known : LET i == [NoInfo EXCEPT !.username = u, !.password = p] IN i \in InfoType /\ i.keep = FALSE
    BY DEF NoInfo, InfoType
  <2>3. \A u \in Known : LET i == [NoInfo EXCEPT !.username = u] IN i \in InfoType /\ i.keep = FALSE
    BY DEF NoInfo, InfoType, Known
  <2>4. \A i \in CheckCached(url.user) : i \in InfoType /\ i.keep = FALSE
    <3>1. User \subseteq Known /\ \A u \in User : cached[u] \in Known
      BY <1>4 DEF SessionTypeInv, Known
    <3>2. \A u \in User : LET i == [NoInfo EXCEPT !.username = u, !.password = cached[u]] IN i \in InfoType /\ i.keep = FALSE
      BY <2>2, <3>1
    <3>3. LET i == [NoInfo EXCEPT !.username = url.user] IN i \in InfoType /\ i.keep = FALSE
      BY <1>3, <2>3
    <3> QED
      BY <3>2, <3>3 DEF CheckCached
  <2>5. LET i == [NoInfo EXCEPT !.username = url.user, !.password = url.password] IN i \in InfoType /\ i.keep = FALSE
    BY <1>3, <2>2
  <2> QED
    BY <1>1, <2>1, <2>4, <2>5
<1>8. /\ request' \in RequestType /\ request'.op = op /\ request'.user = url.user /\ request'.name = name /\ request'.dest = dest
      /\ request'.pc = (IF mConnected' THEN "op" ELSE "connect") /\ request'.result = "none"
  <2>1. request' = [pc |-> IF mConnected' THEN "op" ELSE "connect", op |-> op, user |-> url.user, name |-> name, dest |-> dest,
                    overwrite |-> overwrite, isfile |-> isfile, done |-> FALSE, result |-> "none"]
    BY <1>1 DEF NoRequest
  <2>2. (IF mConnected' THEN "op" ELSE "connect") \in {"idle"} \cup LoginPcs \cup CommandPcs
    BY DEF LoginPcs, CommandPcs
  <2>3. name \in Names /\ dest \in Names
    BY DEF Names
  <2> QED
    BY <1>3, <2>1, <2>2, <2>3 DEF RequestType, Results
<1>9. SessionTypeInv'
  BY <1>2, <1>3, <1>4, <1>5, <1>6, <1>7, <1>8 DEF SessionTypeInv
<1>10. LoginInv' /\ KeepInv' /\ OpenFileInv'
  BY <1>2, <1>4, <1>5, <1>7, <1>8 DEF LoginInv, KeepInv, OpenFileInv, CachedPasswordWorks, LoginPcs, AuthPcs, CommandPcs
<1>11. CommandInv'
  BY <1>1, <1>8 DEF CommandInv, StepOf
<1> QED
  BY <1>9, <1>10, <1>11 DEF SessionInv

-----------------------------------------------------------------------------
(* Commands: each step ends the command or goes on with it, and the only   *)
(* ones under which the connection is closed have no file open.            *)
CommandEffect ==
  /\ request.pc \in CommandPcs /\ UNCHANGED <<info, cached, mUsername, mPassword>>
  /\ entries' \in [File -> EntryType]
  /\ \/ UNCHANGED <<mSession, mConnected>>
     \/ mSession' = NoSession /\ mConnected' = FALSE /\ request'.pc = "idle"
  /\ mOpenFile' \in {"none", "open"} /\ (mOpenFile' = "open" => request'.pc \in {"sniff", "opened"})
  /\ \/ request' \in RequestType /\ request'.pc = "idle" /\ request'.op = "none" /\ request'.dest = request'.name
     \/ \E step \in CommandPcs : SessionGoto(step) /\ StepOf(step)

LEMMA CommandEffectKeeps == SessionInv /\ CommandEffect => SessionInv'
<1> SUFFICES ASSUME SessionInv, CommandEffect PROVE SessionInv'
  OBVIOUS
<1>1. SessionTypeInv /\ LoginInv /\ KeepInv /\ CommandInv
  BY DEF SessionInv
<1>2. mSession' \in SessionType /\ mConnected' \in BOOLEAN
  <2>1. NoSession \in SessionType
    BY DEF NoSession, SessionType, Known
  <2> QED
    BY <1>1, <2>1 DEF CommandEffect, SessionTypeInv
<1>3. info.keep # TRUE
  BY <1>1 DEF KeepInv, CommandEffect, CommandPcs
<1>4. CASE request' \in RequestType /\ request'.pc = "idle" /\ request'.op = "none" /\ request'.dest = request'.name
  <2>1. SessionTypeInv'
    BY <1>1, <1>2, <1>4 DEF SessionTypeInv, CommandEffect
  <2>2. LoginInv' /\ KeepInv' /\ OpenFileInv' /\ CommandInv'
    BY <1>1, <1>3, <1>4 DEF LoginInv, KeepInv, OpenFileInv, CommandInv, StepOf, CommandEffect, CachedPasswordWorks, LoginPcs, AuthPcs, CommandPcs
  <2> QED
    BY <2>1, <2>2 DEF SessionInv
<1>5. ASSUME NEW step \in CommandPcs, SessionGoto(step), StepOf(step) PROVE SessionInv'
  <2>1. /\ request' \in RequestType /\ request'.pc = step /\ request'.op = request.op /\ request'.user = request.user
        /\ request'.name = request.name /\ request'.dest = request.dest
        /\ request'.overwrite = request.overwrite /\ request'.result = request.result
    BY <1>1, <1>5, GoesTo DEF SessionTypeInv
  <2>2. SessionTypeInv'
    BY <1>1, <1>2, <2>1 DEF SessionTypeInv, CommandEffect
  <2>3. step # "idle"
    BY DEF CommandPcs
  <2>4. LoginInv' /\ KeepInv' /\ OpenFileInv'
    BY <1>1, <1>3, <2>1, <2>3 DEF LoginInv, KeepInv, OpenFileInv, CommandEffect, CachedPasswordWorks, LoginPcs, AuthPcs, CommandPcs
  <2>5. CommandInv'
    BY <1>1, <1>5, <2>1 DEF CommandInv, StepOf, CommandEffect, CommandPcs
  <2> QED
    BY <2>2, <2>4, <2>5 DEF SessionInv
<1> QED
  BY <1>4, <1>5 DEF CommandEffect

(* The ways a step of a command ends, which all of them share.             *)
NoFilePcs == CommandPcs \ {"sniff", "opened"}

LEMMA FinishEffect ==
  ASSUME SessionInv, request.pc \in CommandPcs, Same, entries' \in [File -> EntryType], NEW r \in Results, NamesFinish(r),
         (request.pc \in NoFilePcs /\ KeepConnection) \/ Close
  PROVE  CommandEffect
BY Ends DEF SessionInv, OpenFileInv, KeepConnection, Close, Same, authVars, NoFilePcs, CommandEffect

LEMMA ReportErrorEffect ==
  ASSUME SessionInv, request.pc \in NoFilePcs, Same, UNCHANGED entries, ReportError
  PROVE  CommandEffect
<1>1. NamesFinish("fail") /\ "fail" \in Results
  BY DEF ReportError, Results
<1>2. request' \in RequestType /\ request'.pc = "idle" /\ request'.op = "none" /\ request'.dest = request'.name
  BY <1>1, Ends
<1> QED
  BY <1>2 DEF SessionInv, SessionTypeInv, OpenFileInv, ReportError, CloseConnection, KeepConnection, Same, authVars, NoFilePcs, CommandEffect

LEMMA CarriedEffect ==
  ASSUME SessionInv, request.pc \in NoFilePcs, Same, entries' \in [File -> EntryType], Carried, KeepConnection
  PROVE  CommandEffect
BY EndsCarried DEF SessionInv, OpenFileInv, KeepConnection, Same, authVars, NoFilePcs, CommandEffect

LEMMA GoesEffect ==
  ASSUME SessionInv, request.pc \in NoFilePcs, Same, entries' \in [File -> EntryType], KeepConnection,
         NEW step \in NoFilePcs, SessionGoto(step), StepOf(step)
  PROVE  CommandEffect
BY DEF SessionInv, OpenFileInv, KeepConnection, Same, authVars, NoFilePcs, CommandEffect

LEMMA EntriesStayTyped ==
  ASSUME SessionInv, NEW n \in File
  PROVE  /\ \A e \in EntryType : Set(n, e) => entries' \in [File -> EntryType]
         /\ UNCHANGED entries => entries' \in [File -> EntryType]
         /\ Nothing \in EntryType /\ \A kind \in Kind : Made(kind) \in EntryType
<1>1. entries \in [File -> EntryType]
  BY DEF SessionInv, SessionTypeInv
<1>2. Nothing \in EntryType
  BY DEF EntryType
<1>3. ASSUME NEW kind \in Kind PROVE Made(kind) \in EntryType
  BY DEF Made, EntryType, Names
<1> QED
  BY <1>1, <1>2, <1>3 DEF Set

-----------------------------------------------------------------------------
(* The commands, one after the other.                                      *)

LEMMA LookingEffect == SessionInv /\ (Stat \/ OpenDir \/ ReadDir \/ Attributes \/ Redirect) => CommandEffect
<1> SUFFICES ASSUME SessionInv, Stat \/ OpenDir \/ ReadDir \/ Attributes \/ Redirect PROVE CommandEffect
  OBVIOUS
<1>1. request.pc \in {"op", "readdir"} /\ request.pc \in NoFilePcs /\ request.pc \in CommandPcs /\ Same /\ UNCHANGED entries
  BY DEF Stat, OpenDir, ReadDir, Attributes, Redirect, Calls, At, Quiet, NoFilePcs, CommandPcs
<1>2. entries \in [File -> EntryType] /\ entries' \in [File -> EntryType] /\ Target \in File
  BY <1>1 DEF SessionInv, SessionTypeInv, CommandInv, Target
<1>3. CASE \E r \in Results : NamesFinish(r) /\ KeepConnection
  BY <1>1, <1>2, <1>3, FinishEffect
<1>4. CASE ReportError
  BY <1>1, <1>4, ReportErrorEffect
<1>5. CASE Stat
  <2>1. ASSUME NEW e \in EntryType \ {Nothing}, NEW details \in 0 .. 2 PROVE CreateUDSEntry(e, details).type \in Results
    <3>1. e.kind \in Kind
      BY DEF EntryType
    <3> QED
      BY <3>1 DEF CreateUDSEntry, Results, Kind
  <2>2. "fail" \in Results
    BY DEF Results
  <2>3. \E r \in Results : NamesFinish(r)
    BY <1>2, <1>5, <2>1, <2>2 DEF Stat
  <2> QED
    BY <1>3, <1>5, <2>3 DEF Stat, Quiet
<1>6. CASE OpenDir
  <2>1. CASE SessionGoto("readdir") /\ KeepConnection
    <3>1. "readdir" \in NoFilePcs /\ StepOf("readdir")
      BY <1>6 DEF OpenDir, Calls, NoFilePcs, CommandPcs, StepOf
    <3> QED
      BY <1>1, <1>2, <2>1, <3>1, GoesEffect
  <2> QED
    BY <1>4, <1>6, <2>1 DEF OpenDir
<1>7. CASE ReadDir \/ Attributes \/ Redirect
  <2>1. "pass" \in Results /\ "fail" \in Results /\ "redirect" \in Results
    BY DEF Results
  <2> QED
    BY <1>3, <1>4, <1>7, <2>1 DEF ReadDir, Attributes, Redirect, Quiet
<1> QED
  BY <1>5, <1>6, <1>7

LEMMA ChangingEffect ==
  SessionInv /\ (MkdirUnlink \/ Mkdir \/ RenameStat \/ RenameRemove \/ Rename \/ Symlink \/ SymlinkUnlink \/ SymlinkAgain \/ Del)
    => CommandEffect
<1> SUFFICES ASSUME SessionInv,
                    MkdirUnlink \/ Mkdir \/ RenameStat \/ RenameRemove \/ Rename \/ Symlink \/ SymlinkUnlink \/ SymlinkAgain \/ Del
             PROVE  CommandEffect
  OBVIOUS
<1>1. /\ request.pc \in {"op", "mkdirStat", "remove", "rename", "unlink", "symlink"} /\ Same
      /\ request.pc \in NoFilePcs /\ request.pc \in CommandPcs
  BY DEF MkdirUnlink, Mkdir, RenameStat, RenameRemove, Rename, Symlink, SymlinkUnlink, SymlinkAgain, Del, Calls, At, NoFilePcs, CommandPcs
<1>2. Target \in File /\ request.name \in File /\ entries \in [File -> EntryType] /\ StepOf(request.pc)
  BY <1>1 DEF SessionInv, SessionTypeInv, CommandInv, Target
<1>3. entries' \in [File -> EntryType]
  <2>1. CASE UNCHANGED entries
    BY <1>2, <2>1
  <2>2. CASE \E e \in {Nothing, Made("dir"), Made("link")} : Set(Target, e)
    <3>1. {Nothing, Made("dir"), Made("link")} \subseteq EntryType
      BY <1>2, EntriesStayTyped DEF Kind
    <3> QED
      BY <1>2, <2>2, <3>1, EntriesStayTyped
  <2>3. CASE entries' = [entries EXCEPT ![Target] = entries[request.name], ![request.name] = Nothing]
    BY <1>2, <2>3 DEF EntryType
  <2> QED
    BY <2>1, <2>2, <2>3 DEF MkdirUnlink, Mkdir, RenameStat, RenameRemove, Rename, Symlink, SymlinkUnlink, SymlinkAgain, Del,
                            Quiet, RenameRefused
<1>4. CASE ReportError /\ UNCHANGED entries
  BY <1>1, <1>4, ReportErrorEffect
<1>5. CASE Carried /\ KeepConnection
  BY <1>1, <1>3, <1>5, CarriedEffect
<1>6. CASE (NamesFinish("fail") \/ NamesFinish("pass")) /\ KeepConnection
  <2>1. "fail" \in Results /\ "pass" \in Results
    BY DEF Results
  <2> QED
    BY <1>1, <1>3, <1>6, <2>1, FinishEffect
<1>7. CASE (\E step \in NoFilePcs : SessionGoto(step) /\ StepOf(step)) /\ KeepConnection
  BY <1>1, <1>3, <1>7, GoesEffect
<1>8. CASE MkdirUnlink
  <2>1. "mkdirStat" \in NoFilePcs /\ StepOf("mkdirStat") /\ SessionGoto("mkdirStat") /\ KeepConnection
    BY <1>8 DEF MkdirUnlink, Calls, NoFilePcs, CommandPcs, StepOf
  <2> QED
    BY <1>7, <2>1
<1>9. CASE Mkdir
  BY <1>4, <1>5, <1>6, <1>9 DEF Mkdir, Quiet
<1>10. CASE RenameStat
  <2>1. "rename" \in NoFilePcs /\ StepOf("rename")
    BY <1>10 DEF RenameStat, Calls, NoFilePcs, CommandPcs, StepOf
  <2>2. request.overwrite \in BOOLEAN
    BY DEF SessionInv, SessionTypeInv, RequestType
  <2>3. "remove" \in NoFilePcs /\ (MayRemove => StepOf("remove"))
    BY <1>10, <2>2 DEF RenameStat, Calls, MayRemove, NoFilePcs, CommandPcs, StepOf
  <2>4. \/ SessionGoto("rename")
        \/ MayRemove /\ SessionGoto("remove")
        \/ NamesFinish("fail")
    BY <1>10 DEF RenameStat
  <2>5. KeepConnection
    BY <1>10 DEF RenameStat, Quiet
  <2> QED
    BY <1>6, <1>7, <2>1, <2>3, <2>4, <2>5
<1>11. CASE RenameRemove
  <2>1. "rename" \in NoFilePcs /\ StepOf("rename")
    BY <1>2, <1>11 DEF RenameRemove, At, NoFilePcs, CommandPcs, StepOf
  <2> QED
    BY <1>4, <1>7, <1>11, <2>1 DEF RenameRemove
<1>12. CASE Rename
  BY <1>4, <1>5, <1>12 DEF Rename, RenameRefused
<1>13. CASE Symlink
  <2>1. "unlink" \in NoFilePcs /\ (request.overwrite => StepOf("unlink"))
    <3>1. request.overwrite \in BOOLEAN
      BY DEF SessionInv, SessionTypeInv, RequestType
    <3> QED
      BY <1>13, <3>1 DEF Symlink, Calls, NoFilePcs, CommandPcs, StepOf
  <2> QED
    BY <1>5, <1>6, <1>7, <1>13, <2>1 DEF Symlink, Quiet
<1>14. CASE SymlinkUnlink
  <2>1. "symlink" \in NoFilePcs /\ StepOf("symlink")
    BY <1>2, <1>14 DEF SymlinkUnlink, At, NoFilePcs, CommandPcs, StepOf
  <2> QED
    BY <1>4, <1>7, <1>14, <2>1 DEF SymlinkUnlink
<1>15. CASE SymlinkAgain \/ Del
  BY <1>4, <1>5, <1>15 DEF SymlinkAgain, Del
<1> QED
  BY <1>8, <1>9, <1>10, <1>11, <1>12, <1>13, <1>14, <1>15

(* The file that open() leaves open: every way out of it closes it first.  *)
LEMMA FileEffect == SessionInv /\ (OpenStat \/ Open \/ SendMimetype \/ FileOperation \/ CloseFile) => CommandEffect
<1> SUFFICES ASSUME SessionInv, OpenStat \/ Open \/ SendMimetype \/ FileOperation \/ CloseFile PROVE CommandEffect
  OBVIOUS
<1>1. request.pc \in CommandPcs /\ Same /\ UNCHANGED entries
  BY DEF OpenStat, Open, SendMimetype, FileOperation, CloseFile, Calls, At, CommandPcs
<1>2. entries' \in [File -> EntryType] /\ "fail" \in Results /\ "pass" \in Results /\ mOpenFile \in {"none", "open"}
      /\ StepOf(request.pc)
  BY <1>1 DEF SessionInv, SessionTypeInv, OpenFileInv, CommandInv, Results
<1>3. CASE (NamesFinish("fail") \/ NamesFinish("pass")) /\ ((request.pc \in NoFilePcs /\ KeepConnection) \/ Close)
  BY <1>1, <1>2, <1>3, FinishEffect
<1>4. CASE ReportError /\ request.pc \in NoFilePcs
  BY <1>1, <1>4, ReportErrorEffect
<1>5. CASE OpenStat
  <2>1. request.pc \in NoFilePcs /\ "open" \in NoFilePcs /\ StepOf("open")
    BY <1>5 DEF OpenStat, Calls, At, NoFilePcs, CommandPcs, StepOf
  <2>2. CASE SessionGoto("open") /\ KeepConnection
    BY <1>1, <1>2, <2>1, <2>2, GoesEffect
  <2> QED
    BY <1>3, <1>4, <1>5, <2>1, <2>2 DEF OpenStat
<1>6. ASSUME NEW step \in {"sniff", "opened"}, SessionGoto(step), UNCHANGED <<mSession, mConnected>>,
             mOpenFile' \in {"none", "open"}, request.pc \in {"open", "sniff", "opened"}
      PROVE  CommandEffect
  <2>1. step \in CommandPcs /\ StepOf(step)
    BY <1>2, <1>6 DEF CommandPcs, StepOf
  <2>2. request'.pc = step
    BY <1>6, <2>1, GoesTo DEF SessionInv, SessionTypeInv
  <2> QED
    BY <1>1, <1>2, <1>6, <2>1, <2>2 DEF CommandEffect, Same, authVars
<1>7. CASE Open
  <2>1. request.pc \in NoFilePcs /\ request.pc = "open"
    BY <1>7 DEF Open, At, NoFilePcs, CommandPcs
  <2> QED
    BY <1>3, <1>6, <1>7, <2>1 DEF Open, KeepConnection
<1>8. CASE SendMimetype
  <2>1. request.pc = "sniff"
    BY <1>8 DEF SendMimetype, At
  <2> QED
    BY <1>2, <1>3, <1>6, <1>8, <2>1 DEF SendMimetype, KeepConnection
<1>9. CASE FileOperation \/ CloseFile
  <2>1. request.pc = "opened"
    BY <1>9 DEF FileOperation, CloseFile, At
  <2> QED
    BY <1>2, <1>3, <1>6, <1>9, <2>1 DEF FileOperation, FileFails, CloseFile, KeepConnection
<1> QED
  BY <1>5, <1>7, <1>8, <1>9

(* Nobody notices that the connection breaks.                              *)
LEMMA ServerDiesKeeps == SessionInv /\ ServerDies => SessionInv'
<1> SUFFICES ASSUME SessionInv, ServerDies PROVE SessionInv'
  OBVIOUS
<1>1. mSession \in SessionType
  BY DEF SessionInv, SessionTypeInv
<1>2. /\ mSession' \in SessionType /\ mSession'.auth = mSession.auth /\ mSession'.user = mSession.user
      /\ UNCHANGED <<info, methods, cached, mUsername, mPassword, logins, mConnected, mOpenFile, request, entries, requests>>
  BY <1>1 DEF ServerDies, SessionType, authVars
<1> QED
  BY <1>2 DEF SessionInv, SessionTypeInv, LoginInv, KeepInv, OpenFileInv, CommandInv, StepOf, CachedPasswordWorks

LEMMA SessionStep == SessionInv /\ [SessionNext]_sessionVars => SessionInv'
<1> SUFFICES ASSUME SessionInv, [SessionNext]_sessionVars PROVE SessionInv'
  OBVIOUS
<1>1. CASE UNCHANGED sessionVars
  BY <1>1 DEF sessionVars, SessionInv, SessionTypeInv, LoginInv, KeepInv, OpenFileInv, CommandInv, StepOf, CachedPasswordWorks
<1>2. CASE Logging
  BY <1>2, ConnectingKeeps, MethodKeeps, PasswordKeeps, SftpInitKeeps DEF Logging
<1> QED
  BY <1>1, <1>2, StartRequestKeeps, ServerDiesKeeps, LookingEffect, ChangingEffect, FileEffect, CommandEffectKeeps DEF SessionNext

-----------------------------------------------------------------------------
(* What a step may never do to names.                                      *)

LEMMA FailsIsNoPass ==
  ASSUME NEW r \in {"fail", "redirect"}, NamesFinish(r) PROVE request'.result # "pass"
<1>1. r \in Results /\ r # "pass"
  BY DEF Results
<1> QED
  BY <1>1, Ends

LEMMA GoingIsNoPass ==
  ASSUME SessionInv, request.pc # "idle", (\E step : SessionGoto(step)) \/ UNCHANGED request
  PROVE  request'.result # "pass"
<1>1. request \in RequestType /\ request.result = "none"
  BY DEF SessionInv, SessionTypeInv, LoginInv
<1> QED
  BY <1>1 DEF SessionGoto, RequestType

LEMMA LoginNeverPasses ==
  ASSUME SessionInv, Logging PROVE request'.result # "pass" /\ UNCHANGED entries
<1> USE DEF SessionGoto
<1>1. UNCHANGED entries /\ request.pc # "idle"
  BY DEF Logging, SftpOpenConnection, Fingerprint, CheckHostKey, AuthCallback, UserauthNone, UserauthPublickey, UserauthGssapi,
         AuthenticateKeyboardInteractive, AskPassword, GivenPassword, Reconnect, UserauthPassword, SftpInit, SameLogin, At
<1>2. CASE LoginFails \/ NamesFinish("redirect")
  BY <1>1, <1>2, FailsIsNoPass DEF LoginFails
<1>3. CASE (\E step : SessionGoto(step)) \/ UNCHANGED request
  BY <1>1, <1>3, GoingIsNoPass
<1>4. ASSUME NEW later, NEW offered, TryNext(later, offered) PROVE LoginFails \/ \E step : SessionGoto(step)
  BY <1>4 DEF TryNext
<1>5. CASE SftpOpenConnection \/ Fingerprint \/ CheckHostKey \/ AuthCallback \/ Reconnect
  BY <1>1, <1>2, <1>3, <1>5 DEF SftpOpenConnection, Fingerprint, CheckHostKey, AuthCallback, Reconnect
<1>6. CASE UserauthNone \/ UserauthPublickey \/ UserauthGssapi \/ AuthenticateKeyboardInteractive
  BY <1>1, <1>2, <1>3, <1>4, <1>6 DEF UserauthNone, UserauthPublickey, UserauthGssapi, AuthenticateKeyboardInteractive, Authenticated
<1>7. CASE AskPassword \/ GivenPassword \/ UserauthPassword
  BY <1>1, <1>2, <1>3, <1>7 DEF AskPassword, GivenPassword, UserauthPassword, Authenticated
<1>8. CASE SftpInit
  BY <1>1, <1>2, <1>3, <1>8 DEF SftpInit
<1> QED
  BY <1>5, <1>6, <1>7, <1>8 DEF Logging

(* Only what the server has done passes as a change.                       *)
LEMMA ChangeStep ==
  ASSUME SessionInv, [SessionNext]_sessionVars, "symlinkFails" \notin SftpEvents,
         request.op \in Changes, request.pc # "idle", request'.result = "pass"
  PROVE  request'.done
<1> USE DEF Changes
<1>1. ~(\E step : SessionGoto(step)) /\ request' # request /\ ~NamesFinish("fail") /\ ~NamesFinish("redirect") /\ ~ReportError
  BY FailsIsNoPass, GoingIsNoPass DEF ReportError
<1>2. Carried => request'.done
  BY EndsCarried
<1>3. ~Logging /\ ~StartRequest /\ ~ServerDies /\ request' # request
  BY <1>1, LoginNeverPasses DEF StartRequest, At, ServerDies
<1>4. StepOf(request.pc)
  BY DEF SessionInv, CommandInv
<1>5. ~(Stat \/ OpenDir \/ ReadDir \/ Attributes \/ Redirect)
  BY <1>4 DEF Stat, OpenDir, ReadDir, Attributes, Redirect, Calls, At, StepOf
<1>6. ~(OpenStat \/ Open \/ SendMimetype \/ FileOperation \/ CloseFile)
  BY <1>4 DEF OpenStat, Open, SendMimetype, FileOperation, CloseFile, Calls, At, StepOf
<1>7. CASE MkdirUnlink \/ Mkdir \/ RenameStat \/ RenameRemove \/ Rename
  BY <1>1, <1>2, <1>7 DEF MkdirUnlink, Mkdir, RenameStat, RenameRemove, Rename, RenameRefused
<1>8. CASE Symlink \/ SymlinkUnlink \/ SymlinkAgain \/ Del
  BY <1>1, <1>2, <1>8 DEF Symlink, SymlinkUnlink, SymlinkAgain, Del
<1> QED
  BY <1>3, <1>5, <1>6, <1>7, <1>8 DEF SessionNext, sessionVars

(* A name that changes is the command's, and was given up by the caller.   *)
LEMMA SurvivesStep ==
  ASSUME SessionInv, [SessionNext]_sessionVars, NEW n \in File, entries[n] # Nothing, entries'[n] # entries[n]
  PROVE  \/ n = request.name /\ (request.op = "del" \/ (request.op = "rename" /\ entries'[request.dest] = entries[n]))
         \/ n = request.dest /\ request.overwrite
<1>1. entries \in [File -> EntryType] /\ StepOf(request.pc) /\ request.overwrite \in BOOLEAN
      /\ (request.op # "rename" => request.dest = request.name) /\ (request.op = "rename" => request.dest # request.name)
  BY DEF SessionInv, SessionTypeInv, CommandInv, RequestType
<1>2. entries' # entries
  OBVIOUS
<1>3. ~Logging /\ ~StartRequest /\ ~ServerDies
  BY <1>2, LoginNeverPasses DEF StartRequest, ServerDies
<1>4. ~(Stat \/ OpenDir \/ ReadDir \/ Attributes \/ Redirect \/ OpenStat \/ Open \/ SendMimetype \/ FileOperation \/ CloseFile)
  BY <1>2 DEF Stat, OpenDir, ReadDir, Attributes, Redirect, OpenStat, Open, SendMimetype, FileOperation, CloseFile, Quiet
<1>5. ASSUME NEW e, Set(Target, e) PROVE n = Target
  BY <1>1, <1>5 DEF Set
<1>6. CASE MkdirUnlink \/ Mkdir \/ RenameStat \/ RenameRemove
  BY <1>1, <1>2, <1>5, <1>6 DEF MkdirUnlink, Mkdir, RenameStat, RenameRemove, At, Quiet, Target, StepOf
<1>7. CASE Rename
  <2>1. request.op = "rename" /\ entries' = [entries EXCEPT ![Target] = entries[request.name], ![request.name] = Nothing]
        /\ entries[Target] = Nothing /\ request.name \in File /\ request.dest \in File
    BY <1>1, <1>2, <1>7 DEF Rename, At, StepOf, RenameRefused, SessionInv, CommandInv
  <2>2. n = request.name
    BY <1>1, <2>1 DEF Target
  <2> QED
    BY <1>1, <2>1, <2>2 DEF Target
<1>8. CASE Symlink \/ SymlinkUnlink \/ SymlinkAgain \/ Del
  BY <1>1, <1>2, <1>5, <1>8 DEF Symlink, SymlinkUnlink, SymlinkAgain, Del, At, Calls, Quiet, Target, StepOf
<1> QED
  BY <1>2, <1>3, <1>4, <1>6, <1>7, <1>8 DEF SessionNext, sessionVars

-----------------------------------------------------------------------------
(* The theorems.                                                           *)

(* A command runs logged in, as the user its URL names, though the dialog  *)
(* may let another log in (sftpLogin()); only a password the server has    *)
(* taken is cached (cacheAuthentication()); and the file open() has left   *)
(* is of the session that is there (closeConnection() frees it).           *)
THEOREM SftpSessionRight == SessionSpec => []SessionRight
<1>1. SessionInv => SessionRight
  <2>1. ASSUME SessionInv PROVE request.pc \in {"idle"} \cup LoginPcs \cup CommandPcs
    BY <2>1 DEF SessionInv, SessionTypeInv, RequestType
  <2>2. SessionInv => RunsAsAsked
    BY <2>1 DEF SessionInv, LoginInv, RunsAsAsked, LoginPcs, AuthPcs
  <2>3. SessionInv => CachedPasswordWorks /\ FileOfSession
    BY DEF SessionInv, KeepInv, OpenFileInv, FileOfSession
  <2> QED
    BY <2>2, <2>3 DEF SessionRight
<1> QED
  BY <1>1, SessionInvInit, SessionStep, PTL DEF SessionSpec

(* No step takes a name away but the one a command gives up: what del()    *)
(* deletes, what rename() has moved, and a destination the caller wanted   *)
(* overwritten.                                                            *)
THEOREM SftpNamesSurvive == SessionSpec => NamesSurvive
<1> DEFINE Survives == \A n \in File : entries[n] # Nothing /\ entries'[n] # entries[n] =>
             \/ n = request.name /\ (request.op = "del" \/ (request.op = "rename" /\ entries'[request.dest] = entries[n]))
             \/ n = request.dest /\ request.overwrite
<1>1. SessionInv /\ [SessionNext]_sessionVars => [Survives]_sessionVars
  BY SurvivesStep
<1> QED
  BY <1>1, SessionInvInit, SessionStep, PTL DEF SessionSpec, NamesSurvive

(* Where a symlink() whose failure goes unnoticed does not fail, a change  *)
(* that passes was carried out, and no name goes that was not given.       *)
THEOREM SftpNamesRight == ASSUME "symlinkFails" \notin SftpEvents PROVE SessionSpec => NamesRight
<1> DEFINE Carries == request.op \in Changes /\ request.pc # "idle" /\ request'.result = "pass" => request'.done
<1>1. SessionInv /\ [SessionNext]_sessionVars => [Carries]_sessionVars
  BY ChangeStep
<1>2. SessionSpec => ChangePasses
  BY <1>1, SessionInvInit, SessionStep, PTL DEF SessionSpec, ChangePasses
<1> QED
  BY <1>2, SftpNamesSurvive DEF NamesRight
=============================================================================
