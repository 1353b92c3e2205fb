--------------------------- MODULE SmbCopy_proofs ---------------------------
(***************************************************************************)
(* Proofs about the SMB worker and its notifier.  Copies (SmbCopy), for    *)
(* every length of the source, threshold for part files and number of      *)
(* jobs: no destination is replaced uninvited, part files hold a beginning *)
(* of the source, and success means that the whole source is at the        *)
(* destination.  Renaming (SmbNamespace), open files and mounts            *)
(* (SmbFileJobs), the notifier and the watcher (SmbNotify), logins and     *)
(* listings (SmbBrowse), each for every set of names and any number of     *)
(* commands, events or discoveries.                                        *)
(***************************************************************************)
EXTENDS SmbCopy, SmbNamespace, SmbFileJobs, SmbNotify, SmbBrowse, SequenceTheorems, FiniteSetTheorems, TLAPS

(* The beginnings of the source, by their length. *)
Beginning(n) == [i \in 1 .. n |-> i]

-----------------------------------------------------------------------------
(* What the operators on files say of a beginning of the source: it is a   *)
(* file, writing the next chunk behind it or cutting its last chunk off    *)
(* gives a beginning again.                                                *)
LEMMA BeginningFacts ==
  ASSUME NEW n \in 0 .. Chunks
  PROVE  /\ SubSeq(Source, 1, n) = Beginning(n)
         /\ Beginning(n) \in Seq(0 .. Chunks)
         /\ Len(Beginning(n)) = n
  BY ChunksAssumption DEF Source, Beginning

LEMMA BeginningIsFile ==
  ASSUME NEW n \in 0 .. Chunks
  PROVE  IsFile(Beginning(n)) /\ IsPrefixOfSource(Beginning(n))
  BY BeginningFacts, NoFileAssumption DEF IsFile, IsPrefixOfSource

LEMMA BeginningGrows ==
  ASSUME NEW n \in 0 .. Chunks, n < Chunks
  PROVE  Write(Beginning(n), n, n + 1) = Beginning(n + 1)
  BY ChunksAssumption DEF Write, Beginning

LEMMA BeginningShrinks ==
  ASSUME NEW n \in 0 .. Chunks, n > 0
  PROVE  SubSeq(Beginning(n), 1, n - 1) = Beginning(n - 1)
  BY ChunksAssumption DEF Beginning

LEMMA BeginningBegins ==
  ASSUME NEW n \in 0 .. Chunks, NEW m \in 0 .. n
  PROVE  SubSeq(Beginning(n), 1, m) = SubSeq(Source, 1, m)
  BY ChunksAssumption DEF Beginning, Source

LEMMA BeginningEnds ==
  /\ Beginning(0) = << >>
  /\ Beginning(Chunks) = Source
  BY ChunksAssumption DEF Beginning, Source

LEMMA PrefixIsBeginning ==
  ASSUME NEW f, IsPrefixOfSource(f)
  PROVE  \E n \in 0 .. Chunks : f = Beginning(n) /\ Len(f) = n /\ IsFile(f)
  BY BeginningFacts, BeginningIsFile DEF IsPrefixOfSource

-----------------------------------------------------------------------------
(* A destination nobody may replace. *)
Protected == old = Directory \/ (old # NoFile /\ ~flags.overwrite /\ ~flags.resume /\ ~ctx.unseen)

(* What an operation has found out about a protected destination by the    *)
(* time it writes.  smbCopyPut does not look for a directory: it writes a  *)
(* part file that cannot be renamed, or cannot open the destination; nor   *)
(* can smbCopy open a destination that its stat has not seen.              *)
CopyGetGuard == op = "copyGet" => /\ side = "local"
                                  /\ pc \notin {"check", "end"} => ~Protected
SmbCopyGuard == op = "smbCopy" => /\ pc \in {"source", "check", "open", "copy", "close", "end"}
                                  /\ ctx = NoContext
                                  /\ pc \in {"copy", "close"} => ~Protected
PutGuard     == op = "put" => /\ pc \in {"check", "open", "copy", "close", "end"}
                              /\ pc \in {"copy", "close"} => ~Protected
                              /\ pc = "open" /\ Protected =>
                                   old = Directory /\ ~ctx.resuming /\ ctx.to = "dst"
CopyPutGuard == op = "copyPut" => /\ side = "remote" /\ pc # "check"
                                  /\ pc \in {"open", "copy", "close", "conclude", "rename"} /\ Protected =>
                                       old = Directory /\ (ctx.to = "part" \/ (pc = "open" /\ ~ctx.resuming))

GuardInv ==
  /\ op \in {"none", "copyGet", "copyPut", "smbCopy", "put"}
  /\ side \in {"local", "remote"}
  /\ op = "none" => pc = "end"
  /\ flags.resume => old # Directory
  /\ pc \in {"check", "resume"} \/ (pc = "source" /\ op # "copyGet") => dst = old
  /\ CopyGetGuard /\ SmbCopyGuard /\ PutGuard /\ CopyPutGuard
  /\ Protected => dst = old

(* Which step is the first one. *)
LEMMA FirstSteps ==
  ASSUME NEW o \in {"copyGet", "copyPut", "smbCopy", "put"}
  PROVE  FirstStep(o) = IF o \in {"copyGet", "put"} THEN "check" ELSE "source"
  BY DEF FirstStep

(* What is put into a context is found in it. *)
LEMMA ContextFields ==
  \A r, t, o, u : /\ Context(r, t, o, u).resuming = r /\ Context(r, t, o, u).to = t
                  /\ Context(r, t, o, u).offset = o /\ Context(r, t, o, u).unseen = u
  BY Zenon DEF Context

(* How put() and shouldResume go on: with an error, or with a destination  *)
(* that is not there, that they have not seen, or that they may write to.  *)
LEMMA PutContext ==
  ASSUME CheckPut
  PROVE  /\ op = "put" /\ pc = "check" /\ UNCHANGED <<op, side, old, flags, dst>>
         /\ \/ pc' = "end" /\ ctx' = ctx
            \/ /\ pc' = "open" /\ (ctx'.unseen \/ dst = NoFile \/ flags.overwrite \/ flags.resume)
               /\ ctx'.resuming = flags.resume /\ ctx'.to = "dst"
<1>1. \/ pc' = "end" /\ ctx' = ctx
      \/ \E u \in BOOLEAN : \E o :
           /\ pc' = "open" /\ (u \/ dst = NoFile \/ flags.overwrite \/ flags.resume)
           /\ ctx' = Context(flags.resume, "dst", o, u)
  BY DEF CheckPut, Return, Goto
<1>2. op = "put" /\ pc = "check" /\ UNCHANGED <<op, side, old, flags, dst>>
  BY DEF CheckPut, jobVars, fileVars
<1> QED
  BY <1>1, <1>2, ContextFields

LEMMA ResumeContext ==
  ASSUME ShouldResume
  PROVE  /\ pc = "resume" /\ UNCHANGED <<op, side, old, flags, dst>>
         /\ \/ pc' = "end" /\ ctx' = ctx
            \/ /\ pc' = "open" /\ (ctx'.unseen \/ dst = NoFile \/ flags.overwrite \/ flags.resume)
               /\ flags.resume \/ ctx'.to = "part" \/ ~ctx'.resuming
<1>1. \/ pc' = "end" /\ ctx' = ctx
      \/ pc' = "open" /\ flags.resume /\ ctx' = Context(TRUE, "dst", Len(dst), FALSE)
      \/ \E u \in BOOLEAN : \E o :
           /\ pc' = "open" /\ (u \/ dst = NoFile \/ flags.overwrite)
           /\ \/ ctx' = Context(TRUE, "part", o, u)
              \/ ctx' = Context(FALSE, "part", o, u)
              \/ ctx' = Context(FALSE, "dst", o, u)
  BY DEF ShouldResume, Stats, Return, Goto
<1>2. pc = "resume" /\ UNCHANGED <<op, side, old, flags, dst>>
  BY DEF ShouldResume, jobVars, fileVars
<1>3. ASSUME NEW u \in BOOLEAN, NEW o,
             \/ ctx' = Context(TRUE, "part", o, u)
             \/ ctx' = Context(FALSE, "part", o, u)
             \/ ctx' = Context(FALSE, "dst", o, u)
      PROVE  (u => ctx'.unseen) /\ (ctx'.to = "part" \/ ~ctx'.resuming)
  <2>1. CASE ctx' = Context(TRUE, "part", o, u)
    BY <2>1 DEF Context
  <2>2. CASE ctx' = Context(FALSE, "part", o, u)
    BY <2>2 DEF Context
  <2>3. CASE ctx' = Context(FALSE, "dst", o, u)
    BY <2>3 DEF Context
  <2> QED
    BY <1>3, <2>1, <2>2, <2>3
<1> QED
  BY <1>1, <1>2, <1>3

LEMMA GuardInit == Init => GuardInv
  BY DEF Init, GuardInv, CopyGetGuard, SmbCopyGuard, PutGuard, CopyPutGuard, NoContext, Context

LEMMA GuardStep == GuardInv /\ [Next]_vars => GuardInv'
<1> SUFFICES ASSUME GuardInv, [Next]_vars PROVE GuardInv'
  OBVIOUS
<1> USE DEF GuardInv, CopyGetGuard, SmbCopyGuard, PutGuard, CopyPutGuard, Goto, Return, jobVars, fileVars
<1>0. UNCHANGED <<old, flags, ctx>> => (Protected' <=> Protected)
  BY DEF Protected
<1>1. CASE StartJob
  <2>1. IsPrefixOfSource(dst) => dst # Directory
    BY PrefixIsBeginning DEF IsFile
  <2>2. /\ op' \in Operations /\ pc' = FirstStep(op') /\ old' = dst /\ dst' = dst /\ side' = side
        /\ ctx' = NoContext
        /\ flags'.resume => dst = NoFile \/ IsPrefixOfSource(dst)
    BY <1>1 DEF StartJob
  <2>3. /\ op' \in {"copyGet", "copyPut", "smbCopy", "put"}
        /\ op' = "copyGet" => side' = "local"
        /\ op' = "copyPut" => side' = "remote"
    BY <2>2 DEF Operations
  <2>4. pc' = IF op' \in {"copyGet", "put"} THEN "check" ELSE "source"
    BY <2>2, <2>3, FirstSteps
  <2> QED
    BY <2>1, <2>2, <2>3, <2>4, NoFileAssumption DEF Protected
<1>2. CASE CheckGet
  BY <1>0, <1>2 DEF CheckGet, IsFile, Protected
<1>3. CASE CheckCopy
  BY <1>0, <1>3 DEF CheckCopy, IsFile
<1>4. CASE CheckPut
  BY <1>0, <1>4, PutContext, NoFileAssumption DEF Protected
<1>5. CASE ShouldResume
  BY <1>0, <1>5, ResumeContext, NoFileAssumption DEF Protected
<1>6. CASE SourceFails \/ SeekFails \/ OpenFails \/ Crash
  <2>1. pc' = "end" /\ UNCHANGED <<side, op, flags, old, dst, ctx>>
    BY <1>6 DEF SourceFails, SeekFails, OpenFails, Crash
  <2> QED
    BY <1>0, <2>1
<1>7. CASE SourceOpens
  BY <1>0, <1>7 DEF SourceOpens
<1>8. CASE OpenResumed \/ OpenSeekFails
  <2>1. /\ pc = "open" /\ ctx.resuming /\ UNCHANGED <<side, op, flags, old, dst, ctx>>
        /\ \/ pc' = IF op = "copyGet" THEN "source" ELSE "copy"
           \/ op = "copyPut" /\ pc' \in {"end", "close"}
    BY <1>8 DEF OpenResumed, OpenSeekFails
  <2> QED
    BY <1>0, <2>1 DEF NoContext, Context
<1>9. CASE OpenTruncated
  BY <1>0, <1>9 DEF OpenTruncated, SetDest, Dest, UsesPart, Exclusive, NoContext, Context, Protected
<1>10. CASE CopyChunk
  BY <1>0, <1>10 DEF CopyChunk, SetDest, UsesPart
<1>11. CASE CopyFails \/ CopyEnds
  BY <1>0, <1>11 DEF CopyFails, CopyEnds, Fail
<1>12. CASE Close \/ CloseFails
  BY <1>0, <1>12 DEF Close, CloseFails
<1>13. CASE FlushFails
  BY <1>0, <1>13 DEF FlushFails, SetDest, UsesPart
<1>14. CASE ConcludeDirect \/ ConcludeError
  BY <1>0, <1>14 DEF ConcludeDirect, ConcludeError, UsesPart
<1>15. CASE ConcludeSuccess
  BY <1>0, <1>15 DEF ConcludeSuccess, UsesPart
<1>16. CASE RenamePart \/ RenameFails
  BY <1>0, <1>16 DEF RenamePart, RenameFails
<1>17. CASE Kill \/ AllDone \/ UNCHANGED vars
  BY <1>0, <1>17 DEF Kill, AllDone, vars
<1> QED
  BY <1>1, <1>2, <1>3, <1>4, <1>5, <1>6, <1>7, <1>8, <1>9, <1>10, <1>11, <1>12, <1>13, <1>14, <1>15, <1>16, <1>17
  DEF Next, JobStep

(* For every length of the source and every sequence of jobs, whatever     *)
(* requests fail: a job that was told neither to overwrite nor to resume   *)
(* leaves an existing destination as it was if its stat of it has not      *)
(* failed, smbCopy in any case, and no job replaces a directory.           *)
THEOREM NothingUninvited == Spec => []NoUninvitedOverwrite
<1>1. GuardInv => NoUninvitedOverwrite
  BY DEF GuardInv, Protected, NoUninvitedOverwrite
<1> QED
  BY <1>1, GuardInit, GuardStep, PTL DEF Spec

-----------------------------------------------------------------------------
IsBeginning(f) == \E n \in 0 .. Chunks : f = Beginning(n)

(* Where an operation can be, and what its context is before it has looked *)
(* for something to resume.                                                *)
ControlInv ==
  /\ op \in {"none", "copyGet", "copyPut", "smbCopy", "put"}
  /\ op = "none" => pc = "end"
  /\ op \in {"smbCopy", "put"} => ctx.to = "dst" /\ pc \notin {"resume", "conclude", "rename"}
  /\ op = "smbCopy" => ~ctx.resuming
  /\ op = "put" => pc # "source"
  /\ op = "copyPut" => pc # "check"
  /\ pc # "end" /\ ~ctx.resuming => ctx.offset = 0
  /\ pc \in {"check", "resume", "source", "open", "copy"} => result = "pass"
  /\ pc \in {"check", "resume", "open"} \/ (pc = "source" /\ op # "copyGet") => pos = 0 /\ at = 0

(* Nothing has been written yet: what there is to resume begins as the     *)
(* source does.                                                            *)
BeforeInv ==
  /\ part # NoFile => IsBeginning(part)
  /\ flags.resume /\ (pc \in {"check", "resume"} \/ (pc = "source" /\ op # "copyGet")) =>
       dst = NoFile \/ IsBeginning(dst)
  /\ pc = "open" /\ ctx.resuming /\ IsFile(Dest) => Dest = Beginning(ctx.offset) /\ ctx.offset \in 0 .. Chunks

(* The destination grows in step with the source, from where the context   *)
(* says it has been resumed.                                               *)
LoopInv ==
  /\ pc = "source" /\ op = "copyGet" => Dest = Beginning(ctx.offset) /\ at = ctx.offset /\ ctx.offset \in 0 .. Chunks
  /\ pc = "copy" => Dest = Beginning(pos) /\ at = pos /\ pos \in 0 .. Chunks /\ ctx.offset \in 0 .. Chunks

(* After the loop: a passing job that was not killed has all of the source.*)
AfterInv ==
  /\ pc = "close" => /\ IsBeginning(Dest) /\ ctx.offset \in 0 .. Chunks
                     /\ op \in {"smbCopy", "put"} => result = "pass"
                     /\ result = "pass" => Dest = Beginning(pos) /\ pos \in 0 .. Chunks /\ (killed \/ pos = Chunks)
  /\ pc = "conclude" => IsBeginning(Dest) /\ (result = "pass" /\ ~killed => Dest = Source)
  /\ pc = "rename" => ctx.to = "part" /\ IsBeginning(part) /\ (~killed => part = Source)
  /\ SuccessIsComplete

DataInv == ControlInv /\ BeforeInv /\ LoopInv /\ AfterInv

LEMMA DataInit == Init => DataInv
<1> SUFFICES ASSUME Init PROVE DataInv
  OBVIOUS
<1> QED
  BY DEF Init, DataInv, ControlInv, BeforeInv, LoopInv, AfterInv, SuccessIsComplete, NoContext, Context

(* Writing f at the destination makes it f, and the part file f or what it *)
(* was.                                                                    *)
LEMMA SetDestFacts ==
  ASSUME NEW f, SetDest(f), UNCHANGED ctx
  PROVE  /\ Dest' = f
         /\ part' \in {part, f}
  BY DEF SetDest, Dest, UsesPart

LEMMA SameDest ==
  ASSUME UNCHANGED <<dst, part, ctx>>
  PROVE  Dest' = Dest
  BY DEF Dest, UsesPart

(* A job that ends with an error, or is at no point where something is     *)
(* known, keeps the invariant if it leaves the part file alone.            *)
LEMMA EndsInError ==
  ASSUME DataInv, pc' = "end", result' # "pass", part' = part, UNCHANGED <<op, ctx>>
  PROVE  DataInv'
  BY DEF DataInv, ControlInv, BeforeInv, LoopInv, AfterInv, SuccessIsComplete, IsBeginning

LEMMA DataChecks ==
  ASSUME DataInv, StartJob \/ CheckGet \/ CheckCopy \/ CheckPut \/ ShouldResume
  PROVE  DataInv'
<1>1. CASE StartJob
  <2>1. /\ op' \in Operations /\ pc' = FirstStep(op') /\ UNCHANGED <<dst, part>>
        /\ ctx' = NoContext /\ pos' = 0 /\ at' = 0 /\ result' = "pass"
        /\ flags'.resume => dst = NoFile \/ IsPrefixOfSource(dst)
    BY <1>1 DEF StartJob, fileVars
  <2>2. op' \in {"copyGet", "copyPut", "smbCopy", "put"}
    BY <2>1 DEF Operations
  <2>3. pc' = IF op' \in {"copyGet", "put"} THEN "check" ELSE "source"
    BY <2>1, <2>2, FirstSteps
  <2>4. flags'.resume => dst = NoFile \/ IsBeginning(dst)
    BY <2>1, PrefixIsBeginning DEF IsBeginning
  <2> QED
    BY <2>1, <2>2, <2>3, <2>4
    DEF DataInv, ControlInv, BeforeInv, LoopInv, AfterInv, SuccessIsComplete, NoContext, Context, IsBeginning
<1>2. CASE CheckGet
  <2>1. /\ op = "copyGet" /\ pc = "check" /\ UNCHANGED <<op, flags, dst, part, ctx, pos, at, killed>>
        /\ \/ pc' = "end" /\ result' # "pass"
           \/ pc' = "resume" /\ result' = result
    BY <1>2 DEF CheckGet, Return, Goto, jobVars, fileVars
  <2> QED
    BY <2>1 DEF DataInv, ControlInv, BeforeInv, LoopInv, AfterInv, SuccessIsComplete, IsBeginning
<1>3. CASE CheckCopy
  <2>1. /\ op = "smbCopy" /\ pc = "check" /\ UNCHANGED <<op, flags, dst, part, ctx, pos, at, killed>>
        /\ \/ pc' = "end" /\ result' # "pass"
           \/ pc' = "open" /\ result' = result
    BY <1>3 DEF CheckCopy, Return, Goto, jobVars, fileVars
  <2> QED
    BY <2>1 DEF DataInv, ControlInv, BeforeInv, LoopInv, AfterInv, SuccessIsComplete, IsBeginning
<1>4. CASE CheckPut
  <2>1. /\ op = "put" /\ pc = "check" /\ UNCHANGED <<op, flags, dst, part, pos, at, killed>>
        /\ \/ pc' = "end" /\ result' # "pass" /\ ctx' = ctx
           \/ /\ pc' = "open" /\ result' = result
              /\ ctx'.to = "dst" /\ ctx'.resuming = flags.resume
              /\ ctx'.offset = IF flags.resume /\ IsFile(dst) THEN Len(dst) ELSE 0
    BY <1>4 DEF Context, CheckPut, Return, Goto, jobVars, fileVars
  <2>2. flags.resume => dst = NoFile \/ \E n \in 0 .. Chunks : dst = Beginning(n) /\ Len(dst) = n
    BY <2>1, BeginningFacts DEF DataInv, BeforeInv, IsBeginning
  <2> QED
    BY <2>1, <2>2 DEF DataInv, ControlInv, BeforeInv, LoopInv, AfterInv, SuccessIsComplete, IsBeginning,
                      Context, NoContext, Dest, UsesPart, IsFile
<1>5. CASE ShouldResume
  <2>1. /\ pc = "resume" /\ UNCHANGED <<op, flags, dst, part, pos, at, killed>>
        /\ \/ pc' = "end" /\ result' # "pass" /\ ctx' = ctx
           \/ /\ pc' = "open" /\ result' = result
              /\ \/ dst # NoFile /\ flags.resume /\ ctx' = Context(TRUE, "dst", Len(dst), FALSE)
                 \/ \E u \in BOOLEAN : part # NoFile /\ ctx' = Context(TRUE, "part", Len(part), u)
                 \/ \E u \in BOOLEAN : ctx' \in {Context(FALSE, "part", 0, u), Context(FALSE, "dst", 0, u)}
    BY <1>5 DEF ShouldResume, Stats, Return, Goto, jobVars, fileVars
  <2>2. flags.resume /\ dst # NoFile => \E n \in 0 .. Chunks : dst = Beginning(n) /\ Len(dst) = n
    BY <2>1, BeginningFacts DEF DataInv, BeforeInv, IsBeginning
  <2>3. part # NoFile => \E n \in 0 .. Chunks : part = Beginning(n) /\ Len(part) = n
    BY BeginningFacts DEF DataInv, BeforeInv, IsBeginning
  <2> QED
    BY <2>1, <2>2, <2>3 DEF DataInv, ControlInv, BeforeInv, LoopInv, AfterInv, SuccessIsComplete, IsBeginning,
                            Context, NoContext, Dest, UsesPart
<1> QED
  BY <1>1, <1>2, <1>3, <1>4, <1>5

LEMMA DataOpens ==
  ASSUME ~PutSeekFails, DataInv,
         SourceFails \/ SeekFails \/ SourceOpens \/ OpenFails \/ OpenResumed \/ OpenSeekFails \/ OpenTruncated
  PROVE  DataInv'
<1>1. CASE SourceFails \/ SeekFails \/ OpenFails
  <2>1. /\ pc' = "end" /\ result' # "pass" /\ UNCHANGED <<part, op, ctx>>
    BY <1>1 DEF SourceFails, SeekFails, OpenFails, SourceErrors, OpenErrors, Return, jobVars, fileVars
  <2> QED
    BY <2>1, EndsInError
<1>2. CASE SourceOpens
  <2>1. /\ pc = "source" /\ UNCHANGED <<op, flags, dst, part, ctx, at, killed, result>>
        /\ pos' = IF op = "copyGet" /\ ctx.resuming THEN ctx.offset ELSE 0
        /\ op = "copyGet" => pc' = "copy"
        /\ op = "copyPut" => pc' = "resume"
        /\ op = "smbCopy" => pc' = "check"
    BY <1>2 DEF SourceOpens, Goto, jobVars, fileVars
  <2>2. op \in {"copyGet", "copyPut", "smbCopy"}
    BY <2>1 DEF DataInv, ControlInv
  <2>3. Dest' = Dest
    BY <2>1, SameDest
  <2> QED
    BY <2>1, <2>2, <2>3 DEF DataInv, ControlInv, BeforeInv, LoopInv, AfterInv, SuccessIsComplete, IsBeginning
<1>3. CASE OpenResumed
  <2>1. /\ pc = "open" /\ ctx.resuming /\ IsFile(Dest) /\ UNCHANGED <<op, flags, dst, part, ctx, killed, result>>
        /\ at' = Len(Dest) /\ pos' = IF op = "copyGet" THEN pos ELSE Len(Dest)
        /\ pc' = IF op = "copyGet" THEN "source" ELSE "copy"
    BY <1>3 DEF OpenResumed, Goto, jobVars, fileVars
  <2>2. Dest = Beginning(ctx.offset) /\ ctx.offset \in 0 .. Chunks /\ Len(Dest) = ctx.offset
    BY <2>1, BeginningFacts DEF DataInv, BeforeInv
  <2>3. Dest' = Dest
    BY <2>1, SameDest
  <2>4. op # "smbCopy"
    BY <2>1 DEF DataInv, ControlInv
  <2> QED
    BY <2>1, <2>2, <2>3, <2>4 DEF DataInv, ControlInv, BeforeInv, LoopInv, AfterInv, SuccessIsComplete, IsBeginning
<1>4. CASE OpenSeekFails
  <2>1. /\ pc = "open" /\ op = "copyPut" /\ ctx.resuming /\ IsFile(Dest)
        /\ UNCHANGED <<op, flags, dst, part, ctx, pos, at, killed>>
        /\ pc' \in {"end", "close"} /\ result' = "ERR_CANNOT_SEEK"
    BY <1>4 DEF OpenSeekFails, Return, jobVars, fileVars
  <2>2. Dest = Beginning(ctx.offset) /\ ctx.offset \in 0 .. Chunks
    BY <2>1 DEF DataInv, BeforeInv
  <2>3. Dest' = Dest
    BY <2>1, SameDest
  <2> QED
    BY <2>1, <2>2, <2>3 DEF DataInv, ControlInv, BeforeInv, LoopInv, AfterInv, SuccessIsComplete, IsBeginning
<1>5. CASE OpenTruncated
  <2>1. /\ pc = "open" /\ ~ctx.resuming /\ SetDest(<< >>) /\ UNCHANGED <<op, flags, ctx, pos, at, killed, result>>
        /\ pc' = IF op = "copyGet" THEN "source" ELSE "copy"
    BY <1>5 DEF OpenTruncated, Goto, jobVars
  <2>2. Dest' = Beginning(0) /\ part' \in {part, Beginning(0)} /\ 0 \in 0 .. Chunks
    BY <2>1, SetDestFacts, BeginningEnds, ChunksAssumption
  <2>3. pos = 0 /\ at = 0 /\ ctx.offset = 0
    BY <2>1 DEF DataInv, ControlInv
  <2> QED
    BY <2>1, <2>2, <2>3 DEF DataInv, ControlInv, BeforeInv, LoopInv, AfterInv, SuccessIsComplete, IsBeginning
<1> QED
  BY <1>1, <1>2, <1>3, <1>4, <1>5

LEMMA DataLoops ==
  ASSUME DataInv, CopyChunk \/ CopyFails \/ CopyEnds \/ Close \/ FlushFails \/ CloseFails
  PROVE  DataInv'
<1>1. CASE CopyChunk
  <2>1. /\ pc = "copy" /\ pos < Chunks /\ pos' = pos + 1 /\ at' = at + 1 /\ SetDest(Write(Dest, at, pos + 1))
        /\ UNCHANGED <<op, flags, ctx, pc, killed, result>>
    BY <1>1 DEF CopyChunk, jobVars
  <2>2. Dest = Beginning(pos) /\ at = pos /\ pos \in 0 .. Chunks
    BY <2>1 DEF DataInv, LoopInv
  <2>3. Dest' = Beginning(pos + 1) /\ part' \in {part, Beginning(pos + 1)} /\ pos + 1 \in 0 .. Chunks
    BY <2>1, <2>2, SetDestFacts, BeginningGrows, ChunksAssumption
  <2> QED
    BY <2>1, <2>2, <2>3 DEF DataInv, ControlInv, BeforeInv, LoopInv, AfterInv, SuccessIsComplete, IsBeginning
<1>2. CASE CopyFails
  <2>1. /\ pc = "copy" /\ UNCHANGED <<op, flags, dst, part, ctx, pos, at, killed>> /\ result' # "pass"
        /\ pc' = IF op \in {"copyGet", "copyPut"} THEN "close" ELSE "end"
    BY <1>2 DEF CopyFails, Fail, Return, jobVars, fileVars
  <2>2. Dest' = Dest
    BY <2>1, SameDest
  <2> QED
    BY <2>1, <2>2 DEF DataInv, ControlInv, BeforeInv, LoopInv, AfterInv, SuccessIsComplete, IsBeginning
<1>3. CASE CopyEnds
  <2>1. /\ pc = "copy" /\ UNCHANGED <<op, flags, dst, part, ctx, pos, at, killed, result>>
        /\ killed \/ pos = Chunks
        /\ pc' = "close"
    BY <1>3 DEF CopyEnds, Goto, jobVars, fileVars
  <2>2. Dest' = Dest
    BY <2>1, SameDest
  <2> QED
    BY <2>1, <2>2 DEF DataInv, ControlInv, BeforeInv, LoopInv, AfterInv, SuccessIsComplete, IsBeginning
<1>4. CASE Close
  <2>1. /\ pc = "close" /\ UNCHANGED <<op, flags, dst, part, ctx, pos, at, killed>>
        /\ \/ op \in {"copyGet", "copyPut"} /\ pc' = "conclude" /\ result' = result
           \/ op \notin {"copyGet", "copyPut"} /\ pc' = "end" /\ result' = "pass"
    BY <1>4 DEF Close, Goto, Return, jobVars, fileVars
  <2>2. Dest' = Dest /\ (ctx.to = "dst" => Dest = dst)
    BY <2>1, SameDest DEF Dest, UsesPart
  <2>3. Beginning(Chunks) = Source
    BY BeginningEnds
  <2> QED
    BY <2>1, <2>2, <2>3 DEF DataInv, ControlInv, BeforeInv, LoopInv, AfterInv, SuccessIsComplete, IsBeginning
<1>5. CASE FlushFails
  <2> DEFINE rest == IF pos > ctx.offset THEN SubSeq(Dest, 1, Len(Dest) - 1) ELSE Dest
  <2>1. /\ pc = "close" /\ result = "pass" /\ op = "copyGet" /\ SetDest(rest)
        /\ UNCHANGED <<op, flags, ctx, pos, at, killed>>
        /\ pc' = "conclude" /\ result' # "pass"
    BY <1>5 DEF FlushFails, jobVars
  <2>2. Dest = Beginning(pos) /\ pos \in 0 .. Chunks /\ ctx.offset \in 0 .. Chunks /\ Len(Dest) = pos
    BY <2>1, BeginningFacts DEF DataInv, AfterInv
  <2>3. IsBeginning(rest)
    BY <2>2, BeginningShrinks, ChunksAssumption DEF IsBeginning
  <2>4. Dest' = rest /\ part' \in {part, rest}
    BY <2>1, SetDestFacts
  <2> HIDE DEF rest
  <2> QED
    BY <2>1, <2>3, <2>4 DEF DataInv, ControlInv, BeforeInv, LoopInv, AfterInv, SuccessIsComplete, IsBeginning
<1>6. CASE CloseFails
  <2>1. pc' = "end" /\ result' # "pass" /\ UNCHANGED <<part, op, ctx>>
    BY <1>6 DEF CloseFails, Return, jobVars, fileVars
  <2> QED
    BY <2>1, EndsInError
<1> QED
  BY <1>1, <1>2, <1>3, <1>4, <1>5, <1>6

LEMMA DataConcludes ==
  ASSUME DataInv, ConcludeDirect \/ ConcludeError \/ ConcludeSuccess \/ RenamePart \/ RenameFails
  PROVE  DataInv'
<1>1. CASE ConcludeDirect
  <2>1. /\ pc = "conclude" /\ Dest = dst /\ UNCHANGED <<op, flags, dst, part, ctx, pos, at, killed, result>>
        /\ pc' = "end"
    BY <1>1 DEF ConcludeDirect, Return, Dest, UsesPart, jobVars, fileVars
  <2> QED
    BY <2>1 DEF DataInv, ControlInv, BeforeInv, LoopInv, AfterInv, SuccessIsComplete, IsBeginning
<1>2. CASE ConcludeError
  <2>1. /\ pc' = "end" /\ result' # "pass" /\ UNCHANGED <<op, ctx>> /\ part' \in {NoFile, part}
    BY <1>2 DEF ConcludeError, Return, jobVars
  <2> QED
    BY <2>1 DEF DataInv, ControlInv, BeforeInv, LoopInv, AfterInv, SuccessIsComplete, IsBeginning
<1>3. CASE ConcludeSuccess
  <2>1. /\ pc = "conclude" /\ ctx.to = "part" /\ result = "pass" /\ pc' = "rename"
        /\ UNCHANGED <<op, flags, part, ctx, pos, at, killed, result>>
    BY <1>3 DEF ConcludeSuccess, Goto, UsesPart, jobVars
  <2>2. Dest = part
    BY <2>1 DEF Dest, UsesPart
  <2> QED
    BY <2>1, <2>2 DEF DataInv, ControlInv, BeforeInv, LoopInv, AfterInv, SuccessIsComplete, IsBeginning
<1>4. CASE RenamePart
  <2>1. /\ pc = "rename" /\ dst' = part /\ part' = NoFile /\ pc' = "end" /\ UNCHANGED <<op, ctx, killed>>
    BY <1>4 DEF RenamePart, Return, jobVars
  <2> QED
    BY <2>1 DEF DataInv, ControlInv, BeforeInv, LoopInv, AfterInv, SuccessIsComplete, IsBeginning
<1>5. CASE RenameFails
  <2>1. pc' = "end" /\ result' # "pass" /\ UNCHANGED <<part, op, ctx>>
    BY <1>5 DEF RenameFails, Return, jobVars, fileVars
  <2> QED
    BY <2>1, EndsInError
<1> QED
  BY <1>1, <1>2, <1>3, <1>4, <1>5

LEMMA DataStep ==
  ASSUME ~PutSeekFails, DataInv, [Next]_vars
  PROVE  DataInv'
<1>1. CASE Kill
  <2>1. killed' = TRUE /\ UNCHANGED <<op, flags, dst, part, pc, ctx, pos, at, result>>
    BY <1>1 DEF Kill, jobVars, fileVars
  <2>2. Dest' = Dest
    BY <2>1, SameDest
  <2> QED
    BY <2>1, <2>2 DEF DataInv, ControlInv, BeforeInv, LoopInv, AfterInv, SuccessIsComplete, IsBeginning
<1>2. CASE Crash
  <2>1. pc' = "end" /\ result' # "pass" /\ UNCHANGED <<part, op, ctx>>
    BY <1>2 DEF Crash, Return, jobVars, fileVars
  <2> QED
    BY <2>1, EndsInError
<1>3. CASE AllDone \/ UNCHANGED vars
  <2>1. UNCHANGED <<op, flags, dst, part, pc, ctx, pos, at, result, killed>>
    BY <1>3 DEF AllDone, vars, jobVars, fileVars
  <2>2. Dest' = Dest
    BY <2>1, SameDest
  <2> QED
    BY <2>1, <2>2 DEF DataInv, ControlInv, BeforeInv, LoopInv, AfterInv, SuccessIsComplete, IsBeginning
<1> QED
  BY <1>1, <1>2, <1>3, DataChecks, DataOpens, DataLoops, DataConcludes DEF Next, JobStep

LEMMA DataHolds ==
  ASSUME ~PutSeekFails
  PROVE  Spec => []DataInv
<1>1. DataInv /\ [Next]_vars => DataInv'
  BY DataStep
<1> QED
  BY <1>1, DataInit, PTL DEF Spec

(* For every length of the source, threshold and sequence of jobs that     *)
(* fail, are killed or crash: the part file that is left is a beginning of *)
(* the source, to be resumed at its length.  It takes a put() that can     *)
(* seek to the end of what it resumes.                                     *)
THEOREM PartResumable ==
  ASSUME ~PutSeekFails
  PROVE  Spec => []PartIsPrefix
<1>1. DataInv => PartIsPrefix
  BY BeginningIsFile DEF DataInv, BeforeInv, PartIsPrefix, IsBeginning
<1> QED
  BY <1>1, DataHolds, PTL

(* For every length of the source and sequence of jobs: an operation that  *)
(* passes and was not killed leaves the whole source at the destination,   *)
(* whatever it resumed.                                                    *)
THEOREM SuccessMeansWhole ==
  ASSUME ~PutSeekFails
  PROVE  Spec => []SuccessIsComplete
<1>1. DataInv => SuccessIsComplete
  BY DEF DataInv, AfterInv
<1> QED
  BY <1>1, DataHolds, PTL

-----------------------------------------------------------------------------
(* As long as a job writes to a part file the destination is what it was;  *)
(* the local rename removes it first.                                      *)
SafeInv ==
  /\ pc \in {"check", "resume"} \/ (pc = "source" /\ op # "copyGet") => dst = old /\ ctx.to = "dst"
  /\ ctx.to = "part" /\ pc \notin {"rename", "end"} => dst = old
  /\ pc = "rename" => dst \in {old, NoFile}
  /\ DestinationSafe

LEMMA SafeInit == Init => SafeInv
  BY DEF Init, SafeInv, DestinationSafe, ContentSafe, FailureKeepsDestination, UsesPart, NoContext, Context

LEMMA SafeStep ==
  ASSUME DataInv, SafeInv, [Next]_vars
  PROVE  SafeInv'
<1> USE DEF SafeInv, DestinationSafe, ContentSafe, FailureKeepsDestination, UsesPart, jobVars, fileVars
<1>1. CASE StartJob
  BY <1>1 DEF StartJob, NoContext, Context
<1>2. CASE CheckGet \/ CheckCopy
  <2>1. UNCHANGED <<old, op, dst, part, ctx, killed>> /\ pc = "check" /\ pc' \in {"end", "resume", "open"}
    BY <1>2 DEF CheckGet, CheckCopy, Return, Goto
  <2> QED
    BY <2>1
<1>3. CASE CheckPut
  <2>1. /\ UNCHANGED <<old, op, dst, part, killed>> /\ pc = "check" /\ pc' \in {"end", "open"}
        /\ ctx' = ctx \/ ctx'.to = "dst"
    BY <1>3 DEF CheckPut, Return, Goto, Context, NoContext
  <2> QED
    BY <2>1
<1>4. CASE ShouldResume
  <2>1. UNCHANGED <<old, op, dst, part, killed>> /\ pc = "resume" /\ pc' \in {"end", "open"} /\ dst = old
    BY <1>4 DEF ShouldResume, Return, Goto
  <2> QED
    BY <2>1
<1>5. CASE SourceFails \/ SeekFails \/ OpenFails \/ CloseFails
  <2>1. UNCHANGED <<old, op, dst, part, ctx, killed>> /\ pc \in {"source", "open", "close"} /\ pc' = "end"
    BY <1>5 DEF SourceFails, SeekFails, OpenFails, CloseFails, Return
  <2> QED
    BY <2>1
<1>6. CASE SourceOpens
  <2>1. /\ UNCHANGED <<old, op, dst, part, ctx, killed>> /\ pc = "source"
        /\ op = "copyGet" => pc' = "copy"
        /\ op # "copyGet" => pc' \in {"resume", "check"}
    BY <1>6 DEF SourceOpens, Goto, DataInv, ControlInv
  <2> QED
    BY <2>1
<1>7. CASE OpenResumed \/ OpenSeekFails
  <2>1. /\ UNCHANGED <<old, op, dst, part, ctx, killed>> /\ pc = "open"
        /\ pc' \in {"source", "copy", "close", "end"} /\ (pc' = "source" => op = "copyGet")
    BY <1>7 DEF OpenResumed, OpenSeekFails, Goto, Return
  <2> QED
    BY <2>1
<1>8. CASE OpenTruncated
  <2>1. /\ UNCHANGED <<old, op, ctx, killed>> /\ pc = "open" /\ (ctx.to = "part" => dst' = dst)
        /\ pc' \in {"source", "copy"} /\ (pc' = "source" => op = "copyGet")
    BY <1>8 DEF OpenTruncated, SetDest, Goto
  <2> QED
    BY <2>1
<1>9. CASE CopyChunk \/ FlushFails
  <2>1. /\ UNCHANGED <<old, op, ctx, killed>> /\ pc \in {"copy", "close"} /\ (ctx.to = "part" => dst' = dst)
        /\ pc' \in {"copy", "conclude"}
    BY <1>9 DEF CopyChunk, FlushFails, SetDest
  <2> QED
    BY <2>1
<1>10. CASE CopyFails \/ CopyEnds \/ Close
  <2>1. /\ UNCHANGED <<old, op, dst, part, ctx, killed>> /\ pc \in {"copy", "close"}
        /\ pc' \in {"close", "conclude", "end"}
    BY <1>10 DEF CopyFails, CopyEnds, Close, Fail, Goto, Return
  <2> QED
    BY <2>1
<1>11. CASE ConcludeDirect \/ ConcludeError
  BY <1>11 DEF ConcludeDirect, ConcludeError, Return
<1>12. CASE ConcludeSuccess
  <2>1. /\ UNCHANGED <<old, op, part, ctx, killed>> /\ ctx.to = "part" /\ pc = "conclude" /\ pc' = "rename"
        /\ dst' \in {dst, NoFile} /\ result = "pass"
    BY <1>12 DEF ConcludeSuccess, Goto
  <2>2. dst = old /\ (~killed => part = Source)
    BY <2>1 DEF DataInv, AfterInv, Dest
  <2> QED
    BY <2>1, <2>2
<1>13. CASE RenamePart
  <2>1. ctx.to = "part" /\ (~killed => part = Source)
    BY <1>13 DEF RenamePart, DataInv, AfterInv
  <2> QED
    BY <1>13, <2>1 DEF RenamePart, Return, Error
<1>14. CASE RenameFails
  <2>1. ctx.to = "part" /\ (~killed => part = Source)
    BY <1>14 DEF RenameFails, DataInv, AfterInv
  <2> QED
    BY <1>14, <2>1 DEF RenameFails, Return
<1>15. CASE Crash
  BY <1>15 DEF Crash, Return, Error
<1>16. CASE Kill
  BY <1>16 DEF Kill
<1>17. CASE AllDone \/ UNCHANGED vars
  BY <1>17 DEF AllDone, vars
<1> QED
  BY <1>1, <1>2, <1>3, <1>4, <1>5, <1>6, <1>7, <1>8, <1>9, <1>10, <1>11, <1>12, <1>13, <1>14, <1>15, <1>16, <1>17
  DEF Next, JobStep

(* For every length of the source and sequence of jobs: a job that writes  *)
(* to a part file and is not killed leaves, at every step and so after a   *)
(* crash at any step, the old destination or all of the new one, and one   *)
(* that fails before the final rename leaves the old one.                  *)
THEOREM DestinationIsSafe ==
  ASSUME ~PutSeekFails
  PROVE  Spec => []DestinationSafe
<1>1. DataInv /\ SafeInv /\ [Next]_vars => SafeInv'
  BY SafeStep
<1>2. SafeInv => DestinationSafe
  BY DEF SafeInv
<1> QED
  BY <1>1, <1>2, SafeInit, DataHolds, PTL DEF Spec

-----------------------------------------------------------------------------
(* The destination of a job that resumes is never shorter than what the    *)
(* job resumed from.                                                       *)
Writing == pc \in {"copy", "close", "conclude", "rename"} \/ (pc = "source" /\ op = "copyGet")
ProgressInv ==
  /\ Writing => ctx.offset \in 0 .. Chunks /\ \E n \in ctx.offset .. Chunks : Dest = Beginning(n)
  /\ pc = "copy" \/ (pc = "close" /\ result = "pass") => pos >= ctx.offset
  /\ pc = "source" /\ op # "copyGet" => ~ctx.resuming

LEMMA BeginningInFile ==
  ASSUME NEW f, IsBeginning(f)
  PROVE  f \in File
  BY BeginningFacts DEF IsBeginning, File

(* TypeOK, in the parts that a step changes together. *)
FileTypes == dst \in File \union {NoFile, Directory} /\ part \in File \union {NoFile, Directory}
                                                      /\ old \in File \union {NoFile, Directory}
JobTypes == /\ side \in {"local", "remote"}
            /\ op \in {"none", "copyGet", "copyPut", "smbCopy", "put"}
            /\ flags \in [overwrite : BOOLEAN, resume : BOOLEAN, markPartial : BOOLEAN]
            /\ jobs \in 0 .. MaxJobs
StateTypes == /\ pc \in Label /\ pos \in 0 .. Chunks /\ at \in Nat
              /\ result \in Error \union {"pass", "crashed"} /\ killed \in BOOLEAN
Contexts == [resuming : BOOLEAN, to : {"dst", "part"}, offset : Nat, unseen : BOOLEAN]
ContextType == ctx \in Contexts

LEMMA TypeParts ==
  /\ TypeOK <=> FileTypes /\ JobTypes /\ StateTypes /\ ContextType
  /\ (TypeOK <=> FileTypes /\ JobTypes /\ StateTypes /\ ContextType)'
  BY DEF TypeOK, FileTypes, JobTypes, StateTypes, ContextType, Contexts

(* What the operations put into the context. *)
LEMMA ContextTyped ==
  /\ NoContext \in Contexts
  /\ \A r, u \in BOOLEAN, t \in {"dst", "part"}, o \in Nat : Context(r, t, o, u) \in Contexts
  BY DEF NoContext, Context, Contexts

LEMMA TypeInit == Init => TypeOK
<1> SUFFICES ASSUME Init PROVE TypeOK
  OBVIOUS
<1>1. OldFiles \subseteq File
  BY ChunksAssumption DEF OldFiles, File
<1>2. FileTypes
  BY <1>1 DEF Init, FileTypes
<1>3. JobTypes
  BY MaxJobsAssumption DEF Init, JobTypes
<1>4. StateTypes
  <2>1. pc \in Label /\ pos \in 0 .. Chunks /\ at \in Nat /\ result = "pass"
    BY ChunksAssumption DEF Init, Label
  <2>2. killed \in BOOLEAN
    BY Zenon DEF Init
  <2> QED
    BY <2>1, <2>2 DEF StateTypes
<1>5. ContextType
  BY ContextTyped DEF Init, ContextType
<1> QED
  BY <1>2, <1>3, <1>4, <1>5, TypeParts

LEMMA FileTypesStep ==
  ASSUME DataInv, DataInv', FileTypes, [Next]_vars
  PROVE  FileTypes'
<1>1. CASE StartJob
  BY <1>1 DEF StartJob, FileTypes, fileVars
<1>2. CASE OpenTruncated
  <2>1. << >> \in File
    BY DEF File
  <2> QED
    BY <1>2, <2>1 DEF OpenTruncated, SetDest, FileTypes, jobVars
<1>3. CASE CopyChunk
  <2>1. ctx' = ctx /\ pc' = "copy" /\ old' = old /\ SetDest(Write(Dest, at, pos + 1))
    BY <1>3 DEF CopyChunk, jobVars
  <2>2. Dest' = Write(Dest, at, pos + 1)
    BY <2>1, SetDestFacts
  <2>3. IsBeginning(Dest')
    BY <2>1 DEF DataInv, LoopInv, IsBeginning
  <2>4. Write(Dest, at, pos + 1) \in File
    BY <2>2, <2>3, BeginningInFile
  <2> QED
    BY <2>1, <2>4 DEF SetDest, FileTypes
<1>4. CASE FlushFails
  <2> DEFINE rest == IF pos > ctx.offset THEN SubSeq(Dest, 1, Len(Dest) - 1) ELSE Dest
  <2>1. ctx' = ctx /\ pc' = "conclude" /\ old' = old /\ SetDest(rest)
    BY <1>4 DEF FlushFails, jobVars
  <2> HIDE DEF rest
  <2>2. Dest' = rest
    BY <2>1, SetDestFacts
  <2>3. IsBeginning(Dest')
    BY <2>1 DEF DataInv, AfterInv
  <2>4. rest \in File
    BY <2>2, <2>3, BeginningInFile
  <2> QED
    BY <2>1, <2>4 DEF SetDest, FileTypes
<1>5. CASE ConcludeError
  BY <1>5 DEF ConcludeError, FileTypes, jobVars
<1>6. CASE ConcludeSuccess
  BY <1>6 DEF ConcludeSuccess, FileTypes, jobVars
<1>7. CASE RenamePart
  BY <1>7 DEF RenamePart, FileTypes, jobVars
<1>8. CASE UNCHANGED <<dst, part, old>>
  BY <1>8 DEF FileTypes
<1>9. \/ StartJob \/ OpenTruncated \/ CopyChunk \/ FlushFails \/ ConcludeError \/ ConcludeSuccess \/ RenamePart
      \/ UNCHANGED <<dst, part, old>>
  BY DEF Next, JobStep, CheckGet, CheckCopy, CheckPut, ShouldResume, SourceFails, SeekFails, SourceOpens, OpenFails,
         OpenResumed, OpenSeekFails, CopyFails, CopyEnds, Close, CloseFails, ConcludeDirect, RenameFails, Kill, Crash,
         AllDone, vars, jobVars, fileVars
<1> QED
  BY <1>1, <1>2, <1>3, <1>4, <1>5, <1>6, <1>7, <1>8, <1>9

LEMMA JobTypesStep ==
  ASSUME JobTypes, [Next]_vars
  PROVE  JobTypes'
<1>1. CASE StartJob
  BY <1>1, MaxJobsAssumption DEF StartJob, JobTypes, Operations
<1>2. CASE UNCHANGED jobVars
  BY <1>2 DEF JobTypes, jobVars
<1>3. StartJob \/ UNCHANGED jobVars
  BY DEF Next, JobStep, CheckGet, CheckCopy, CheckPut, ShouldResume, SourceFails, SeekFails, SourceOpens, OpenFails,
         OpenResumed, OpenSeekFails, OpenTruncated, CopyChunk, CopyFails, CopyEnds, Close, FlushFails, CloseFails,
         ConcludeDirect, ConcludeError, ConcludeSuccess, RenamePart, RenameFails, Kill, Crash, AllDone, vars
<1> QED
  BY <1>1, <1>2, <1>3

LEMMA ContextTypeStep ==
  ASSUME DataInv, JobTypes, ContextType, [Next]_vars
  PROVE  ContextType'
<1>1. CASE StartJob
  BY <1>1, ContextTyped DEF StartJob, ContextType
<1>2. CASE CheckPut
  <2>1. IsFile(dst) /\ flags.resume => Len(dst) \in Nat
    BY <1>2, BeginningFacts DEF CheckPut, DataInv, BeforeInv, IsBeginning, IsFile
  <2>2. \/ ctx' = ctx
        \/ \E u \in BOOLEAN :
             ctx' = Context(flags.resume, "dst", IF flags.resume /\ IsFile(dst) THEN Len(dst) ELSE 0, u)
    BY <1>2 DEF CheckPut
  <2>3. flags.resume \in BOOLEAN
    BY DEF JobTypes
  <2> QED
    BY <2>1, <2>2, <2>3, ContextTyped DEF ContextType
<1>3. CASE ShouldResume
  <2>1. dst # NoFile /\ flags.resume => Len(dst) \in Nat
    BY <1>3, BeginningFacts DEF ShouldResume, DataInv, BeforeInv, IsBeginning
  <2>2. part # NoFile => Len(part) \in Nat
    BY BeginningFacts DEF DataInv, BeforeInv, IsBeginning
  <2>3. \/ ctx' = ctx
        \/ dst # NoFile /\ flags.resume /\ ctx' = Context(TRUE, "dst", Len(dst), FALSE)
        \/ \E u \in BOOLEAN : part # NoFile /\ ctx' = Context(TRUE, "part", Len(part), u)
        \/ \E u \in BOOLEAN, t \in {"dst", "part"} : ctx' = Context(FALSE, t, 0, u)
    BY <1>3 DEF ShouldResume, Stats
  <2> QED
    BY <2>1, <2>2, <2>3, ContextTyped DEF ContextType
<1>4. CASE UNCHANGED ctx
  BY <1>4 DEF ContextType
<1>5. StartJob \/ CheckPut \/ ShouldResume \/ UNCHANGED ctx
  BY DEF Next, JobStep, CheckGet, CheckCopy, SourceFails, SeekFails, SourceOpens, OpenFails,
         OpenResumed, OpenSeekFails, OpenTruncated, CopyChunk, CopyFails, CopyEnds, Close, FlushFails, CloseFails,
         ConcludeDirect, ConcludeError, ConcludeSuccess, RenamePart, RenameFails, Kill, Crash, AllDone, vars
<1> QED
  BY <1>1, <1>2, <1>3, <1>4, <1>5

LEMMA StateTypesStep ==
  ASSUME ~PutSeekFails, DataInv, StateTypes, [Next]_vars
  PROVE  StateTypes'
<1>1. pc' \in Label
  <2>1. CASE StartJob
    BY <2>1, FirstSteps DEF StartJob, Operations, Label
  <2>2. CASE Kill \/ AllDone \/ UNCHANGED vars
    BY <2>2 DEF Kill, AllDone, vars, StateTypes
  <2>3. CASE CheckGet \/ CheckCopy \/ CheckPut \/ ShouldResume \/ SourceFails \/ SeekFails \/ OpenFails \/ OpenResumed
             \/ OpenSeekFails \/ OpenTruncated \/ CopyFails \/ CopyEnds \/ Close \/ FlushFails \/ CloseFails
             \/ ConcludeDirect \/ ConcludeError \/ ConcludeSuccess \/ RenamePart \/ RenameFails \/ Crash
    BY <2>3 DEF CheckGet, CheckCopy, CheckPut, ShouldResume, SourceFails, SeekFails, OpenFails, OpenResumed,
                OpenSeekFails, OpenTruncated, CopyFails, CopyEnds, Close, FlushFails, CloseFails, Fail,
                ConcludeDirect, ConcludeError, ConcludeSuccess, RenamePart, RenameFails, Crash, Goto, Return, Label
  <2>4. CASE SourceOpens
    BY <2>4 DEF SourceOpens, Goto, DataInv, ControlInv, Label
  <2>5. CASE CopyChunk
    BY <2>5 DEF CopyChunk, StateTypes
  <2> QED
    BY <2>1, <2>2, <2>3, <2>4, <2>5 DEF Next, JobStep
<1>2. pos' \in 0 .. Chunks /\ at' \in Nat
  <2>1. CASE StartJob
    BY <2>1, ChunksAssumption DEF StartJob
  <2>2. CASE SourceOpens
    BY <2>2, ChunksAssumption DEF SourceOpens, StateTypes, DataInv, LoopInv
  <2>3. CASE OpenResumed
    <3>1. Dest = Beginning(ctx.offset) /\ ctx.offset \in 0 .. Chunks /\ Len(Dest) = ctx.offset
      BY <2>3, BeginningFacts DEF OpenResumed, DataInv, BeforeInv
    <3> QED
      BY <2>3, <3>1, ChunksAssumption DEF OpenResumed, StateTypes
  <2>4. CASE OpenTruncated
    BY <2>4, ChunksAssumption DEF OpenTruncated, StateTypes
  <2>5. CASE CopyChunk
    BY <2>5, ChunksAssumption DEF CopyChunk, StateTypes
  <2>6. CASE UNCHANGED <<pos, at>>
    BY <2>6 DEF StateTypes
  <2>7. StartJob \/ SourceOpens \/ OpenResumed \/ OpenTruncated \/ CopyChunk \/ UNCHANGED <<pos, at>>
    BY DEF Next, JobStep, CheckGet, CheckCopy, CheckPut, ShouldResume, SourceFails, SeekFails, OpenFails, OpenSeekFails,
           CopyFails, CopyEnds, Close, FlushFails, CloseFails, ConcludeDirect, ConcludeError, ConcludeSuccess,
           RenamePart, RenameFails, Kill, Crash, AllDone, vars
  <2> QED
    BY <2>1, <2>2, <2>3, <2>4, <2>5, <2>6, <2>7
<1>3. result' \in Error \union {"pass", "crashed"}
  <2> USE DEF StateTypes, Return, Goto
  <2>1. CASE StartJob \/ Kill \/ AllDone \/ UNCHANGED vars \/ Crash
    BY <2>1 DEF StartJob, Kill, AllDone, vars, Crash
  <2>2. CASE CheckGet \/ CheckCopy \/ CheckPut \/ ShouldResume
    BY <2>2 DEF CheckGet, CheckCopy, CheckPut, ShouldResume, Error
  <2>3. CASE SourceFails \/ SeekFails \/ OpenFails \/ SourceOpens
    BY <2>3 DEF SourceFails, SeekFails, OpenFails, SourceOpens, SourceErrors, OpenErrors, Error
  <2>4. CASE OpenResumed \/ OpenSeekFails \/ OpenTruncated \/ CopyChunk \/ CopyEnds \/ CopyFails
    BY <2>4 DEF OpenResumed, OpenSeekFails, OpenTruncated, CopyChunk, CopyEnds, CopyFails, Fail, Error
  <2>5. CASE Close \/ FlushFails \/ CloseFails \/ ConcludeDirect \/ ConcludeError \/ ConcludeSuccess \/ RenamePart \/ RenameFails
    BY <2>5 DEF Close, FlushFails, CloseFails, ConcludeDirect, ConcludeError, ConcludeSuccess, RenamePart, RenameFails, Error
  <2> QED
    BY <2>1, <2>2, <2>3, <2>4, <2>5 DEF Next, JobStep
<1>4. killed' \in BOOLEAN
  <2>1. killed' \in {killed, TRUE, FALSE}
    BY Zenon DEF Next, JobStep, StartJob, CheckGet, CheckCopy, CheckPut, ShouldResume, SourceFails, SeekFails, SourceOpens,
       OpenFails, OpenResumed, OpenSeekFails, OpenTruncated, CopyChunk, CopyFails, CopyEnds, Close, FlushFails, CloseFails,
       ConcludeDirect, ConcludeError, ConcludeSuccess, RenamePart, RenameFails, Kill, Crash, AllDone, vars
  <2> QED
    BY Zenon, <2>1 DEF StateTypes
<1> QED
  BY <1>1, <1>2, <1>3, <1>4 DEF StateTypes

LEMMA ProgressStep ==
  ASSUME ~PutSeekFails, DataInv, DataInv', ProgressInv, [Next]_vars
  PROVE  ProgressInv'
<1> USE DEF ProgressInv, Writing
<1>1. CASE StartJob
  <2>1. pc' = FirstStep(op') /\ op' \in {"copyGet", "copyPut", "smbCopy", "put"}
    BY <1>1 DEF StartJob, Operations
  <2>2. pc' = "check" \/ (pc' = "source" /\ op' # "copyGet")
    BY <2>1, FirstSteps
  <2> QED
    BY <1>1, <2>2 DEF StartJob, NoContext, Context
<1>2. CASE CheckGet \/ CheckCopy \/ CheckPut \/ ShouldResume
  <2>1. pc' \in {"resume", "open", "end"}
    BY <1>2 DEF CheckGet, CheckCopy, CheckPut, ShouldResume, Goto, Return
  <2> QED
    BY <2>1
<1>3. CASE SourceFails \/ SeekFails \/ OpenFails \/ CloseFails \/ ConcludeDirect \/ ConcludeError \/ RenamePart
           \/ RenameFails \/ Crash
  <2>1. pc' = "end"
    BY <1>3 DEF SourceFails, SeekFails, OpenFails, CloseFails, ConcludeDirect, ConcludeError, RenamePart, RenameFails, Crash, Return
  <2> QED
    BY <2>1
<1>4. CASE SourceOpens
  <2>1. /\ pc = "source" /\ UNCHANGED <<op, dst, part, ctx, result>>
        /\ pos' = IF op = "copyGet" /\ ctx.resuming THEN ctx.offset ELSE 0
        /\ pc' = "copy" <=> op = "copyGet"
        /\ pc' \in {"copy", "resume", "check"}
    BY <1>4 DEF SourceOpens, Goto, DataInv, ControlInv, jobVars, fileVars
  <2>2. Dest' = Dest /\ (op = "copyGet" => pos' = ctx.offset /\ ctx.offset \in 0 .. Chunks)
    BY <2>1, SameDest DEF DataInv, ControlInv, LoopInv
  <2> QED
    BY <2>1, <2>2
<1>5. CASE OpenResumed \/ OpenSeekFails
  <2>1. /\ pc = "open" /\ ctx.resuming /\ IsFile(Dest) /\ UNCHANGED <<op, dst, part, ctx>>
        /\ pc' \in {"source", "copy", "close", "end"}
        /\ pc' = "source" => op = "copyGet"
        /\ pc' = "copy" => op # "copyGet" /\ pos' = Len(Dest)
        /\ pc' = "close" => result' # "pass"
    BY <1>5 DEF OpenResumed, OpenSeekFails, Goto, Return, jobVars, fileVars
  <2>2. Dest' = Dest /\ Dest = Beginning(ctx.offset) /\ ctx.offset \in 0 .. Chunks /\ Len(Dest) = ctx.offset
    BY <2>1, SameDest, BeginningFacts DEF DataInv, BeforeInv
  <2> QED
    BY <2>1, <2>2
<1>6. CASE OpenTruncated
  <2>1. pc = "open" /\ ~ctx.resuming /\ UNCHANGED <<ctx, op, pos>> /\ SetDest(<< >>)
        /\ pc' = IF op = "copyGet" THEN "source" ELSE "copy"
    BY <1>6 DEF OpenTruncated, Goto, jobVars
  <2>2. Dest' = Beginning(0) /\ ctx.offset = 0 /\ pos = 0
    BY <2>1, SetDestFacts, BeginningEnds DEF DataInv, ControlInv
  <2> QED
    BY <2>1, <2>2, ChunksAssumption
<1>7. CASE CopyChunk
  <2>1. pc = "copy" /\ pc' = "copy" /\ UNCHANGED ctx /\ pos' = pos + 1
    BY <1>7 DEF CopyChunk
  <2>2. Dest' = Beginning(pos + 1) /\ pos \in 0 .. Chunks /\ pos + 1 \in 0 .. Chunks /\ ctx.offset \in 0 .. Chunks
    BY <2>1 DEF DataInv, LoopInv
  <2> QED
    BY <2>1, <2>2
<1>8. CASE CopyFails \/ CopyEnds \/ Close
  <2>1. /\ pc \in {"copy", "close"} /\ UNCHANGED <<op, dst, part, ctx, pos>>
        /\ pc' \in {"close", "conclude", "end"}
        /\ pc' = "close" => pc = "copy"
    BY <1>8 DEF CopyFails, CopyEnds, Close, Fail, Goto, Return, jobVars, fileVars
  <2>2. Dest' = Dest
    BY <2>1, SameDest
  <2> QED
    BY <2>1, <2>2
<1>9. CASE FlushFails
  <2> DEFINE rest == IF pos > ctx.offset THEN SubSeq(Dest, 1, Len(Dest) - 1) ELSE Dest
  <2>1. /\ pc = "close" /\ result = "pass" /\ SetDest(rest) /\ UNCHANGED ctx /\ pc' = "conclude"
    BY <1>9 DEF FlushFails
  <2>2. Dest = Beginning(pos) /\ pos \in 0 .. Chunks /\ ctx.offset \in 0 .. Chunks /\ Len(Dest) = pos /\ pos >= ctx.offset
    BY <2>1, BeginningFacts DEF DataInv, AfterInv
  <2>3. \E n \in ctx.offset .. Chunks : rest = Beginning(n)
    <3>1. CASE pos > ctx.offset
      <4>0. rest = SubSeq(Beginning(pos), 1, pos - 1) /\ pos \in 1 .. Chunks
        <5>1. rest = SubSeq(Dest, 1, Len(Dest) - 1)
          BY <3>1
        <5>2. pos \in 1 .. Chunks
          BY <2>2, <3>1, ChunksAssumption
        <5> HIDE DEF rest
        <5>3. Dest = Beginning(pos) /\ Len(Dest) = pos
          BY <2>2
        <5>4. SubSeq(Dest, 1, Len(Dest) - 1) = SubSeq(Beginning(pos), 1, pos - 1)
          BY <5>3, Zenon
        <5> QED
          BY <5>1, <5>2, <5>4, Zenon
      <4>1. rest = Beginning(pos - 1)
        <5> HIDE DEF rest
        <5>1. pos \in 0 .. Chunks /\ pos > 0
          BY <4>0, ChunksAssumption
        <5> QED
          BY <5>1, <4>0, BeginningShrinks, Zenon
      <4>2. pos - 1 \in ctx.offset .. Chunks
        BY <2>2, <3>1, ChunksAssumption
      <4> QED
        BY <4>1, <4>2
    <3>2. CASE ~(pos > ctx.offset)
      BY <2>2, <3>2, ChunksAssumption
    <3> QED
      BY <3>1, <3>2
  <2> HIDE DEF rest
  <2>4. Dest' = rest
    BY <2>1, SetDestFacts
  <2> QED
    BY <2>1, <2>2, <2>3, <2>4
<1>10. CASE ConcludeSuccess
  <2>1. pc = "conclude" /\ pc' = "rename" /\ UNCHANGED <<ctx, part>> /\ ctx.to = "part"
    BY <1>10 DEF ConcludeSuccess, Goto, UsesPart
  <2>2. Dest' = Dest
    BY <2>1 DEF Dest, UsesPart
  <2> QED
    BY <2>1, <2>2
<1>11. CASE Kill \/ AllDone \/ UNCHANGED vars
  <2>1. UNCHANGED <<op, dst, part, ctx, pc, pos, result>>
    BY <1>11 DEF Kill, AllDone, vars, jobVars, fileVars
  <2>2. Dest' = Dest
    BY <2>1, SameDest
  <2> QED
    BY <2>1, <2>2
<1> QED
  BY <1>1, <1>2, <1>3, <1>4, <1>5, <1>6, <1>7, <1>8, <1>9, <1>10, <1>11 DEF Next, JobStep

LEMMA ProgressKept ==
  ASSUME DataInv, ProgressInv
  PROVE  ResumeKeepsProgress
<1> SUFFICES ASSUME ctx.resuming, pc \in {"source", "copy", "close", "conclude", "rename"}
             PROVE  /\ IsFile(Dest) /\ Len(Dest) >= ctx.offset
                    /\ SubSeq(Dest, 1, ctx.offset) = SubSeq(Source, 1, ctx.offset)
  BY DEF ResumeKeepsProgress
<1>1. Writing
  BY DEF ProgressInv, Writing
<1>2. PICK n \in ctx.offset .. Chunks : Dest = Beginning(n)
  BY <1>1 DEF ProgressInv
<1> QED
  BY <1>1, <1>2, BeginningIsFile, BeginningFacts, BeginningBegins DEF ProgressInv

(* For every length of the source, threshold and sequence of jobs: a part  *)
(* file is a beginning of the source, and while a job goes on with one,    *)
(* or appends to what it was told to resume, what was there stays.         *)
THEOREM PartFileIsRight ==
  ASSUME ~PutSeekFails
  PROVE  Spec => []PartFileRight
<1>1. Init => ProgressInv
  BY DEF Init, ProgressInv, Writing
<1>2. DataInv /\ DataInv' /\ TypeOK /\ [Next]_vars => TypeOK'
  BY TypeParts, FileTypesStep, JobTypesStep, StateTypesStep, ContextTypeStep
<1>3. DataInv /\ DataInv' /\ ProgressInv /\ [Next]_vars => ProgressInv'
  BY ProgressStep
<1>4. DataInv /\ ProgressInv /\ TypeOK => PartFileRight
  BY ProgressKept, BeginningIsFile DEF PartFileRight, DataInv, BeforeInv, PartIsPrefix, IsBeginning
<1> QED
  BY <1>1, <1>2, <1>3, <1>4, TypeInit, DataHolds, PTL DEF Spec

-----------------------------------------------------------------------------
(* File jobs                                                               *)

FdType == [open : BOOLEAN, offset : Nat, append : BOOLEAN]
FileJobType == [pc : {"idle", "sniff", "rewind", "open"}, mode : Mode, told : Nat]
FileTypeInv == fd \in FdType /\ job \in FileJobType /\ length \in Nat \cup {None} /\ (job.pc # "idle" => length \in Nat)

(* Until its type has been told, a file is at its start for the client.    *)
PositionInv ==
  /\ FileTypeInv /\ PositionAgreed
  /\ job.pc \in {"sniff", "rewind"} => job.told = 0

LEMMA JobEnds ==
  ASSUME PositionInv, job.pc # "idle", CloseWithoutFinish, JobFails, UNCHANGED length
  PROVE  PositionInv'
<1>1. fds' = 0 /\ fd' = NoFd /\ job' = NoJob /\ length' \in Nat \cup {None}
  BY DEF PositionInv, PositionAgreed, FileTypeInv, CloseWithoutFinish, JobFails
<1>2. NoFd \in FdType /\ NoJob \in FileJobType /\ NoJob.pc = "idle"
  BY DEF NoFd, NoJob, NoMode, Mode, FdType, FileJobType
<1> QED
  BY <1>1, <1>2 DEF PositionInv, PositionAgreed, FileTypeInv

(* A call that moves the file and its client, or neither. *)
LEMMA JobMoves ==
  ASSUME PositionInv, job.pc # "idle", NEW next \in {"rewind", "open"}, NEW offset \in Nat, NEW told \in Nat,
         fd' = [fd EXCEPT !.offset = offset], job' \in FileJobType, job'.pc = next, job'.told = told, UNCHANGED fds, length' \in Nat,
         IF next = "open" THEN fd.append \/ told = offset ELSE told = 0
  PROVE  PositionInv'
<1>1. fd \in FdType /\ fds = 1
  BY DEF PositionInv, FileTypeInv, PositionAgreed
<1>2. fd' \in FdType /\ fd'.offset = offset /\ fd'.append = fd.append
  BY <1>1 DEF FdType
<1> QED
  BY <1>1, <1>2 DEF PositionInv, FileTypeInv, PositionAgreed

LEMMA OpenKeeps == ASSUME PositionInv, NEW mode \in Mode, OpenFile(mode) PROVE PositionInv'
<1>1. fds = 0 /\ job.pc = "idle" /\ length \in Nat \cup {None}
  BY DEF OpenFile, PositionInv, PositionAgreed, FileTypeInv
<1>2. CASE JobFails /\ UNCHANGED <<fd, fds, length>>
  <2>1. job' = NoJob /\ NoJob \in FileJobType /\ NoJob.pc = "idle"
    BY <1>2 DEF JobFails, NoJob, NoMode, Mode, FileJobType
  <2> QED
    BY <1>1, <1>2, <2>1 DEF PositionInv, PositionAgreed, FileTypeInv
<1>3. CASE ~(JobFails /\ UNCHANGED <<fd, fds, length>>)
  <2> DEFINE next == IF mode.read THEN "sniff" ELSE "open"
             a == mode.append
  <2>1. /\ length # None /\ fd' = [open |-> TRUE, offset |-> 0, append |-> a] /\ fds' = fds + 1
        /\ job' = [pc |-> next, mode |-> mode, told |-> 0] /\ length' \in {0, length}
    BY <1>3 DEF OpenFile
  <2>2. a \in BOOLEAN /\ next \in {"sniff", "open"}
    BY DEF Mode
  <2> HIDE DEF next, a
  <2>3. fd' \in FdType /\ job' \in FileJobType /\ job'.pc = next /\ job'.told = 0 /\ fd'.offset = 0
    BY <2>1, <2>2 DEF FdType, FileJobType
  <2> QED
    BY <1>1, <2>1, <2>2, <2>3 DEF PositionInv, PositionAgreed, FileTypeInv
<1> QED
  BY <1>2, <1>3

LEMMA FileJobStep == ASSUME PositionInv, [FileJobNext]_fileJobVars PROVE PositionInv'
<1>0. /\ fd \in FdType /\ job \in FileJobType /\ fd.offset \in Nat /\ job.told \in Nat
      /\ job.pc \in {"idle", "sniff", "rewind", "open"} /\ (job.pc # "idle" => length \in Nat)
  BY DEF PositionInv, FileTypeInv, FdType, FileJobType
<1>1. CASE UNCHANGED openVars
  BY <1>1 DEF openVars, PositionInv, PositionAgreed, FileTypeInv
<1>2. ASSUME NEW mode \in Mode, OpenFile(mode) PROVE PositionInv'
  BY <1>2, OpenKeeps
<1>3. CASE Sniff
  <2>1. CASE fd' = [fd EXCEPT !.offset = length] /\ job' = [job EXCEPT !.pc = "rewind"] /\ UNCHANGED <<fds, length>>
    <3>1. job.pc = "sniff" /\ job.told = 0 /\ length \in Nat
      BY <1>0, <1>3 DEF Sniff, PositionInv
    <3>2. job' \in FileJobType /\ job'.pc = "rewind" /\ job'.told = 0
      BY <1>0, <2>1, <3>1 DEF FileJobType
    <3> QED
      BY <2>1, <3>1, <3>2, JobMoves
  <2>2. CASE CloseWithoutFinish /\ JobFails /\ UNCHANGED length
    BY <1>3, <2>2, JobEnds DEF Sniff
  <2> QED
    BY <1>3, <2>1, <2>2 DEF Sniff
<1>4. CASE Rewind
  <2>1. CASE fd' = Rewound /\ job' = [job EXCEPT !.pc = "open"] /\ UNCHANGED <<fds, length>>
    <3>1. job.pc = "rewind" /\ job.told = 0 /\ length \in Nat /\ fd' = [fd EXCEPT !.offset = 0]
      BY <1>0, <1>4, <2>1 DEF Rewind, Rewound, PositionInv
    <3>2. job' \in FileJobType /\ job'.pc = "open" /\ job'.told = 0
      BY <1>0, <2>1, <3>1 DEF FileJobType
    <3> QED
      BY <2>1, <3>1, <3>2, JobMoves
  <2>2. CASE CloseWithoutFinish /\ JobFails /\ UNCHANGED length
    BY <1>4, <2>2, JobEnds DEF Rewind
  <2> QED
    BY <1>4, <2>1, <2>2 DEF Rewind
<1>5. CASE CloseFile
  BY <1>5, JobEnds DEF CloseFile
<1>6. ASSUME NEW n \in 0 .. FileSize, ReadFile(n) \/ WriteFile(n) \/ SeekFile(n) \/ TruncateFile(n) PROVE PositionInv'
  <2>0. job.pc = "open" /\ length \in Nat /\ n \in Nat /\ (fd.append \/ job.told = fd.offset)
    BY <1>0, <1>6, FileSizeAssumption DEF ReadFile, WriteFile, SeekFile, TruncateFile, PositionInv, PositionAgreed
  <2>1. CASE CloseWithoutFinish /\ JobFails /\ UNCHANGED length
    BY <2>0, <2>1, JobEnds
  <2>2. ASSUME NEW offset \in Nat, NEW told \in Nat, fd' = [fd EXCEPT !.offset = offset], job' = [job EXCEPT !.told = told],
               UNCHANGED fds, length' \in Nat, fd.append \/ told = offset
        PROVE  PositionInv'
    <3>1. job' \in FileJobType /\ job'.pc = "open" /\ job'.told = told
      BY <1>0, <2>0, <2>2 DEF FileJobType
    <3> QED
      BY <2>0, <2>2, <3>1, JobMoves
  <2>3. CASE ReadFile(n)
    <3> DEFINE got == IF fd.offset + n <= length THEN n ELSE IF fd.offset < length THEN length - fd.offset ELSE 0
               o == fd.offset + got
               t == job.told + got
    <3>1. got \in Nat
      BY <1>0, <2>0
    <3>2. (CloseWithoutFinish /\ JobFails) \/ (fd' = [fd EXCEPT !.offset = o] /\ job' = [job EXCEPT !.told = t] /\ UNCHANGED fds)
      BY <2>3 DEF ReadFile
    <3>3. UNCHANGED length
      BY <2>3 DEF ReadFile
    <3> HIDE DEF got
    <3>4. o \in Nat /\ t \in Nat /\ (fd.append \/ t = o)
      BY <1>0, <2>0, <3>1
    <3> HIDE DEF o, t
    <3> QED
      BY <2>0, <2>1, <2>2, <3>2, <3>3, <3>4
  <2>4. CASE WriteFile(n)
    <3> DEFINE place == IF fd.append THEN length ELSE fd.offset
    <3>1. place \in Nat
      BY <1>0, <2>0
    <3>2. \/ CloseWithoutFinish /\ JobFails /\ UNCHANGED length
          \/ \E took \in 0 .. n : /\ fd' = [fd EXCEPT !.offset = place + took] /\ length' = Larger(length, place + took)
                                  /\ job' = [job EXCEPT !.told = @ + took] /\ UNCHANGED fds
      BY <2>4 DEF WriteFile
    <3>3. ASSUME NEW took \in 0 .. n, fd' = [fd EXCEPT !.offset = place + took], length' = Larger(length, place + took),
                 job' = [job EXCEPT !.told = @ + took], UNCHANGED fds
          PROVE  PositionInv'
      <4> DEFINE o == place + took
                 t == job.told + took
      <4>1. fd' = [fd EXCEPT !.offset = o] /\ job' = [job EXCEPT !.told = t] /\ length' = Larger(length, o)
        BY <3>3
      <4>2. o \in Nat /\ t \in Nat /\ (fd.append \/ t = o)
        BY <1>0, <2>0, <3>1
      <4> HIDE DEF o, t
      <4>3. length' \in Nat
        BY <2>0, <4>1, <4>2 DEF Larger
      <4> QED
        BY <2>2, <3>3, <4>1, <4>2, <4>3
    <3> QED
      BY <2>1, <3>2, <3>3
  <2>5. CASE SeekFile(n)
    BY <2>0, <2>1, <2>2, <2>5 DEF SeekFile
  <2>6. CASE TruncateFile(n)
    <3>1. CASE length' = n /\ UNCHANGED <<fd, fds, job>>
      BY <1>0, <2>0, <3>1 DEF PositionInv, FileTypeInv, PositionAgreed
    <3> QED
      BY <2>1, <2>6, <3>1 DEF TruncateFile, TruncateFails
  <2> QED
    BY <1>6, <2>3, <2>4, <2>5, <2>6
<1>7. CASE MkPath \/ SmbMount \/ SmbUmount \/ RmdirMountpoint \/ RmdirParent \/ GetACE \/ SetACE \/ \E kind, p : StartSpecial(kind, p)
  BY <1>1, <1>7 DEF MkPath, SmbMount, SmbUmount, RmdirMountpoint, RmdirParent, GetACE, SetACE, StartSpecial
<1> QED
  BY <1>1, <1>2, <1>3, <1>4, <1>5, <1>6, <1>7 DEF FileJobNext, fileJobVars

-----------------------------------------------------------------------------
(* Special commands                                                        *)

SpecialPcs == {"idle", "mount", "mkpathMount", "umount", "umountRmdir", "rmdir", "rmdirParent", "getACE", "setACE"}
SpecialFields == DOMAIN special = {"pc", "op", "point", "pages", "result"}

(* What a command does next is of its operation; what is unmounted, and    *)
(* then removed, stays so until the command passes.                        *)
SpecialInv ==
  /\ SpecialFields /\ SpecialIsDone
  /\ special.pc = "mount" => special.op \in {"mount", "mkpathMount"}
  /\ special.pc \in {"mkpathMount", "umount", "umountRmdir", "getACE", "setACE"} => special.op = special.pc
  /\ special.pc \in {"rmdir", "rmdirParent"} => special.op = "umountRmdir" /\ special.point \notin mounted
  /\ special.pc = "rmdirParent" => special.point \notin dirs

LEMMA SpecialMoves ==
  ASSUME SpecialFields, NEW next, SpecialGoto(next)
  PROVE  SpecialFields' /\ special'.pc = next /\ special'.op = special.op /\ special'.point = special.point
BY DEF SpecialGoto, SpecialFields

LEMMA SpecialFinishes ==
  ASSUME SpecialFields, NEW r, SpecialEnds(r)
  PROVE  /\ SpecialFields' /\ special'.pc = "idle" /\ special'.op = special.op /\ special'.point = special.point
         /\ special'.result = r
BY DEF SpecialEnds, SpecialFields

LEMMA SpecialFails == ASSUME SpecialInv, SpecialEnds("fail") PROVE SpecialInv'
BY SpecialFinishes DEF SpecialInv, SpecialIsDone

LEMMA SpecialStep == ASSUME SpecialInv, [FileJobNext]_fileJobVars PROVE SpecialInv'
<1>0. SpecialFields
  BY DEF SpecialInv
<1>1. CASE UNCHANGED <<special, mounted, dirs, parent>>
  BY <1>1 DEF SpecialInv, SpecialFields, SpecialIsDone
<1>2. CASE \/ \E mode \in Mode : OpenFile(mode)
           \/ Sniff \/ Rewind \/ CloseFile
           \/ \E n \in 0 .. FileSize : ReadFile(n) \/ WriteFile(n) \/ SeekFile(n) \/ TruncateFile(n)
  BY <1>1, <1>2 DEF OpenFile, Sniff, Rewind, CloseFile, ReadFile, WriteFile, SeekFile, TruncateFile, specialVars
<1>3. ASSUME NEW kind \in {"mount", "mkpathMount", "umount", "umountRmdir", "getACE", "setACE"}, NEW p \in Mountpoint, StartSpecial(kind, p)
      PROVE  SpecialInv'
  <2>1. special' = [NoSpecial EXCEPT !.pc = kind, !.op = kind, !.point = p]
    BY <1>3 DEF StartSpecial
  <2>2. SpecialFields' /\ special'.pc = kind /\ special'.op = kind
    BY <2>1 DEF NoSpecial, SpecialFields
  <2> QED
    BY <2>2 DEF SpecialInv, SpecialIsDone
<1>4. CASE MkPath
  <2>1. CASE SpecialGoto("mount")
    BY <1>0, <1>4, <2>1, SpecialMoves DEF MkPath, SpecialInv, SpecialIsDone
  <2> QED
    BY <1>4, <2>1, SpecialFails DEF MkPath
<1>5. CASE SmbMount
  <2>1. CASE mounted' = mounted \cup {special.point} /\ SpecialEnds("pass")
    <3>1. special.op \in {"mount", "mkpathMount"}
      BY <1>5 DEF SmbMount, SpecialInv
    <3> QED
      BY <1>0, <2>1, <3>1, SpecialFinishes DEF SpecialInv, SpecialIsDone
  <2> QED
    BY <1>5, <2>1, SpecialFails DEF SmbMount
<1>6. CASE SmbUmount
  <2>1. CASE SpecialEnds("fail")
    BY <2>1, SpecialFails
  <2>2. CASE ~SpecialEnds("fail")
    <3>1. /\ mounted' = mounted \ {special.point} /\ UNCHANGED <<dirs, parent>>
          /\ IF special.pc = "umount" THEN SpecialEnds("pass") ELSE SpecialGoto("rmdir")
          /\ special.op = special.pc /\ special.pc \in {"umount", "umountRmdir"}
      BY <1>6, <2>2 DEF SmbUmount, Unmounted, SpecialInv
    <3>2. CASE special.pc = "umount" /\ SpecialEnds("pass")
      BY <1>0, <3>1, <3>2, SpecialFinishes DEF SpecialInv, SpecialIsDone
    <3>3. CASE special.pc = "umountRmdir" /\ SpecialGoto("rmdir")
      BY <1>0, <3>1, <3>3, SpecialMoves DEF SpecialInv, SpecialIsDone
    <3> QED
      BY <3>1, <3>2, <3>3
  <2> QED
    BY <2>1, <2>2
<1>7. CASE RmdirMountpoint
  <2>1. CASE dirs' = dirs \ {special.point} /\ SpecialGoto("rmdirParent")
    BY <1>0, <1>7, <2>1, SpecialMoves DEF RmdirMountpoint, SpecialInv, SpecialIsDone
  <2> QED
    BY <1>7, <2>1, SpecialFails DEF RmdirMountpoint
<1>8. CASE RmdirParent
  <2>1. CASE dirs = {} /\ parent' = FALSE /\ SpecialEnds("pass")
    BY <1>0, <1>8, <2>1, SpecialFinishes DEF RmdirParent, SpecialInv, SpecialIsDone
  <2> QED
    BY <1>8, <2>1, SpecialFails DEF RmdirParent
<1>9. CASE GetACE \/ SetACE
  <2>0. special.op \in {"getACE", "setACE"} /\ special.pc = special.op
    BY <1>9 DEF GetACE, SetACE, SpecialInv
  <2>1. CASE special' = [special EXCEPT !.pages = @ + 1]
    <3>1. SpecialFields' /\ special'.pc = special.pc /\ special'.op = special.op
      BY <1>0, <2>1 DEF SpecialFields
    <3> QED
      BY <2>0, <3>1 DEF SpecialInv, SpecialIsDone
  <2>2. ASSUME NEW r \in {"pass", "fail"}, SpecialEnds(r) PROVE SpecialInv'
    BY <1>0, <2>0, <2>2, SpecialFinishes DEF SpecialInv, SpecialIsDone
  <2> QED
    BY <1>9, <2>1, <2>2 DEF GetACE, SetACE
<1> QED
  BY <1>1, <1>2, <1>3, <1>4, <1>5, <1>6, <1>7, <1>8, <1>9 DEF FileJobNext, fileJobVars, specialVars

(* A file job: read(), write() and seek() keep the position that the       *)
(* client counts itself and the server's the same (but for a file that is  *)
(* appended to), and when a command fails or the job ends,                 *)
(* closeWithoutFinish() has closed the file, once.  A special command that *)
(* passes has mounted what it was asked to, or unmounted it and, if asked, *)
(* removed its directory and that of the mounts.                           *)
THEOREM SmbFileJobsRight == FileJobSpec => []FileJobsRight
<1> DEFINE Inv == PositionInv /\ SpecialInv
<1>1. FileJobInit => Inv
  <2> SUFFICES ASSUME FileJobInit PROVE Inv
    OBVIOUS
  <2>1. NoFd \in FdType /\ NoJob \in FileJobType /\ NoJob.pc = "idle"
    BY DEF NoFd, NoJob, NoMode, Mode, FdType, FileJobType
  <2>2. PositionInv
    BY <2>1 DEF FileJobInit, PositionInv, FileTypeInv, PositionAgreed
  <2>3. SpecialInv
    BY DEF FileJobInit, NoSpecial, SpecialInv, SpecialFields, SpecialIsDone
  <2> QED
    BY <2>2, <2>3
<1>2. Inv /\ [FileJobNext]_fileJobVars => Inv'
  BY FileJobStep, SpecialStep
<1>3. Inv => FileJobsRight
  BY DEF PositionInv, SpecialInv, FileJobsRight
<1> QED
  BY <1>1, <1>2, <1>3, PTL DEF FileJobSpec

-----------------------------------------------------------------------------
(* Change notification: what views show                                    *)

ServerEvent(act, n) == [act |-> act, name |-> n]
Pending == IF m_url = NoItem THEN {} ELSE {m_url}

(* The change under way, and how much of it has been handled. *)
NoChange == handling = NoEvent /\ wire = << >> /\ m_url \notin content /\ view = content \cup Pending
Last1(e) == (handling = NoEvent /\ wire = <<e>>) \/ (handling = e /\ wire = << >>)
Adding(n) == Last1(ServerEvent("added", n))
Removing(n) ==
  /\ Last1(ServerEvent("removed", n))
  /\ n \notin content /\ m_url # n /\ m_url \notin content /\ view = content \cup {n} \cup Pending
Modifying(n) == Last1(ServerEvent("modified", n)) /\ m_url \notin content /\ view = content \cup Pending
OldShown(a, b) == a \notin content /\ b \in content /\ view = (content \ {b}) \cup {a}
RenameTold(a, b) ==
  /\ handling = NoEvent /\ wire = <<ServerEvent("removed", a), ServerEvent("oldName", a), ServerEvent("newName", b)>>
  /\ a \notin content /\ b \in content /\ m_url # a /\ m_url \notin content \ {b} /\ view = (content \ {b}) \cup {a} \cup Pending
RemovalHandled(a, b) ==
  /\ handling = ServerEvent("removed", a) /\ wire = <<ServerEvent("oldName", a), ServerEvent("newName", b)>> /\ OldShown(a, b)
RemovalPending(a, b) ==
  /\ handling = NoEvent /\ wire = <<ServerEvent("oldName", a), ServerEvent("newName", b)>> /\ OldShown(a, b) /\ m_url = a
RemovalDiscarded(a, b) ==
  /\ handling = ServerEvent("oldName", a) /\ wire = <<ServerEvent("newName", b)>> /\ OldShown(a, b)
NewNameLeft(a, b) == Last1(ServerEvent("newName", b)) /\ moveFrom = a /\ OldShown(a, b) /\ m_url = NoItem
Renaming(a, b) ==
  RenameTold(a, b) \/ RemovalHandled(a, b) \/ RemovalPending(a, b) \/ RemovalDiscarded(a, b) \/ NewNameLeft(a, b)

ViewInv ==
  /\ timer \in {"off", "on"} /\ content \subseteq Item /\ m_url \in Item \cup {NoItem}
  /\ handling # NoEvent => m_url = NoItem
  /\ \/ NoChange
     \/ \E n \in Item : Adding(n) \/ Removing(n) \/ Modifying(n)
     \/ \E a, b \in Item : Renaming(a, b)

LEMMA EventFacts ==
  ASSUME NEW n
  PROVE  /\ \A act \in {"added", "removed", "modified", "oldName", "newName"} :
              ServerEvent(act, n).act = act /\ ServerEvent(act, n).name = n /\ ServerEvent(act, n) # NoEvent
         /\ NoEvent.act = "none"
BY DEF ServerEvent, NoEvent

LEMMA TupleFacts ==
  ASSUME NEW a, NEW b, NEW c
  PROVE  /\ Head(<<a>>) = a /\ Tail(<<a>>) = << >> /\ <<a>> # << >>
         /\ Head(<<a, b>>) = a /\ Tail(<<a, b>>) = <<b>> /\ <<a, b>> # << >>
         /\ Head(<<a, b, c>>) = a /\ Tail(<<a, b, c>>) = <<b, c>> /\ <<a, b, c>> # << >>
OBVIOUS

LEMMA OneEvent ==
  ASSUME NEW act, NEW n, NEW after, Change(after, <<<<act, n>>>>)
  PROVE  /\ wire = << >> /\ handling = NoEvent /\ content' = after /\ wire' = <<ServerEvent(act, n)>>
         /\ UNCHANGED <<view, handling, m_url, timer>>
BY DEF Change, ServerEvent

LEMMA ThreeEvents ==
  ASSUME NEW a, NEW b, NEW after, Change(after, <<<<"removed", a>>, <<"oldName", a>>, <<"newName", b>>>>)
  PROVE  /\ wire = << >> /\ handling = NoEvent /\ content' = after
         /\ wire' = <<ServerEvent("removed", a), ServerEvent("oldName", a), ServerEvent("newName", b)>>
         /\ UNCHANGED <<view, handling, m_url, timer>>
BY DEF Change, ServerEvent

LEMMA ServerKeeps == ASSUME ViewInv, ServerChanges PROVE ViewInv'
<1>1. wire = << >> /\ handling = NoEvent
  BY DEF ServerChanges, Change
<1>2. NoChange
  <2>1. ASSUME NEW e, e # NoEvent PROVE ~Last1(e)
    BY <1>1, <2>1, TupleFacts DEF Last1
  <2>2. ASSUME NEW n \in Item PROVE ~(Adding(n) \/ Removing(n) \/ Modifying(n))
    BY <2>1, EventFacts DEF Adding, Removing, Modifying
  <2>3. ASSUME NEW a \in Item, NEW b \in Item PROVE ~Renaming(a, b)
    BY <1>1, <2>1, EventFacts, TupleFacts DEF Renaming, RenameTold, RemovalHandled, RemovalPending, RemovalDiscarded, NewNameLeft
  <2> QED
    BY <2>2, <2>3 DEF ViewInv
<1>3. content \subseteq Item /\ m_url \in Item \cup {NoItem} /\ timer \in {"off", "on"} /\ m_url \notin content /\ view = content \cup Pending
  BY <1>2 DEF ViewInv, NoChange
<1>4. ASSUME NEW n \in Item \ content, Change(content \cup {n}, <<<<"added", n>>>>) PROVE ViewInv'
  BY <1>3, <1>4, OneEvent DEF ViewInv, Adding, Last1
<1>5. ASSUME NEW n \in content, Change(content \ {n}, <<<<"removed", n>>>>) PROVE ViewInv'
  <2>1. n \in Item /\ Removing(n)'
    BY <1>3, <1>5, OneEvent DEF Removing, Last1, Pending
  <2> QED
    BY <1>3, <1>5, <2>1, OneEvent DEF ViewInv
<1>6. ASSUME NEW n \in content, Change(content, <<<<"modified", n>>>>) PROVE ViewInv'
  <2>1. n \in Item /\ Modifying(n)'
    BY <1>3, <1>6, OneEvent DEF Modifying, Last1, Pending
  <2> QED
    BY <1>3, <1>6, <2>1, OneEvent DEF ViewInv
<1>7. ASSUME NEW a \in content, NEW b \in Item \ content,
             Change((content \ {a}) \cup {b}, <<<<"removed", a>>, <<"oldName", a>>, <<"newName", b>>>>)
      PROVE  ViewInv'
  <2>1. a \in Item /\ RenameTold(a, b)'
    BY <1>3, <1>7, ThreeEvents DEF RenameTold, Pending
  <2> QED
    BY <1>3, <1>7, <2>1, ThreeEvents DEF ViewInv, Renaming
<1> QED
  BY <1>4, <1>5, <1>6, <1>7 DEF ServerChanges

LEMMA SendsPending ==
  ASSUME m_url \in Item \cup {NoItem}, SendWithLock
  PROVE  m_url' = NoItem /\ view' = view \ Pending
BY NotifyAssumption DEF SendWithLock, FilesRemoved, Pending

LEMMA NewEventKeeps == ASSUME ViewInv, NewEventFor PROVE ViewInv'
<1>1. /\ wire # << >> /\ handling = NoEvent /\ handling' = Head(wire) /\ wire' = Tail(wire)
      /\ timer' = "off" /\ content' = content /\ moveFrom' = moveFrom
      /\ IF m_url # NoItem /\ Discards(Head(wire)) THEN m_url' = NoItem /\ UNCHANGED view ELSE SendWithLock
  BY DEF NewEventFor, Stopped, ViewInv
<1>2. m_url' = NoItem /\ (~(m_url # NoItem /\ Discards(Head(wire))) => view' = view \ Pending)
  BY <1>1, SendsPending DEF ViewInv
<1>3. /\ timer' \in {"off", "on"} /\ content' \subseteq Item /\ m_url' = NoItem /\ NoItem \notin Item /\ Pending' = {}
      /\ content \subseteq Item
  BY <1>1, <1>2, NotifyAssumption DEF ViewInv, Pending
<1>4. ASSUME NEW e, Last1(e) PROVE handling' = e /\ wire' = << >> /\ Head(wire) = e /\ Last1(e)'
  BY ZenonT(90), <1>1, <1>4, TupleFacts DEF Last1
<1>5. ASSUME NEW n \in Item, Adding(n) \/ Removing(n) \/ Modifying(n) PROVE ViewInv'
  <2>1. ASSUME Adding(n) PROVE Adding(n)'
    BY <1>4, <2>1 DEF Adding
  <2>2. ASSUME Removing(n) PROVE Removing(n)'
    <3>1. view' = view \ Pending
      BY <1>2, <1>4, <2>2, EventFacts DEF Removing, Discards
    <3> QED
      BY <1>1, <1>3, <1>4, <2>2, <3>1 DEF Removing, Pending
  <2>3. ASSUME Modifying(n) PROVE Modifying(n)'
    <3>1. view' = view \ Pending
      BY <1>2, <1>4, <2>3, EventFacts DEF Modifying, Discards
    <3> QED
      BY <1>1, <1>3, <1>4, <2>3, <3>1 DEF Modifying, Pending
  <2> QED
    BY <1>3, <1>5, <2>1, <2>2, <2>3 DEF ViewInv
<1>6. ASSUME NEW a \in Item, NEW b \in Item, Renaming(a, b) PROVE ViewInv'
  <2>1. ASSUME RenameTold(a, b) PROVE RemovalHandled(a, b)'
    <3>1. Head(wire) = ServerEvent("removed", a) /\ wire' = <<ServerEvent("oldName", a), ServerEvent("newName", b)>>
      BY <1>1, <2>1, TupleFacts DEF RenameTold
    <3>2. view' = view \ Pending
      BY <1>2, <3>1, EventFacts DEF Discards
    <3> QED
      BY <1>1, <1>3, <2>1, <3>1, <3>2 DEF RenameTold, RemovalHandled, OldShown, Pending
  <2>2. ~RemovalHandled(a, b) /\ ~RemovalDiscarded(a, b)
    BY <1>1, EventFacts DEF RemovalHandled, RemovalDiscarded
  <2>3. ASSUME RemovalPending(a, b) PROVE RemovalDiscarded(a, b)'
    <3>1. Head(wire) = ServerEvent("oldName", a) /\ wire' = <<ServerEvent("newName", b)>>
      BY <1>1, <2>3, TupleFacts DEF RemovalPending
    <3>2. m_url # NoItem /\ Discards(Head(wire))
      BY <1>3, <2>3, <3>1, EventFacts DEF RemovalPending, Discards
    <3> QED
      BY <1>1, <2>3, <3>1, <3>2 DEF RemovalPending, RemovalDiscarded, OldShown
  <2>4. ASSUME NewNameLeft(a, b) PROVE NewNameLeft(a, b)'
    <3>1. view' = view
      BY <1>2, <2>4 DEF NewNameLeft, Pending
    <3> QED
      BY <1>1, <1>3, <1>4, <2>4, <3>1 DEF NewNameLeft, OldShown
  <2> QED
    BY <1>3, <1>6, <2>1, <2>2, <2>3, <2>4 DEF ViewInv, Renaming
<1> QED
  BY <1>1, <1>5, <1>6 DEF ViewInv, NoChange

LEMMA SignalKeeps == ASSUME ViewInv, Signal PROVE ViewInv'
<1>1. handling # NoEvent /\ handling' = NoEvent /\ wire' = wire /\ content' = content /\ m_url = NoItem
  BY DEF Signal, ViewInv
<1>2. content \subseteq Item /\ NoItem \notin Item /\ Pending = {} /\ timer \in {"off", "on"}
  BY <1>1, NotifyAssumption DEF ViewInv, Pending
<1>3. ASSUME NEW e, Last1(e) PROVE handling = e /\ wire = << >>
  BY <1>1, <1>3 DEF Last1
<1>4. ASSUME NEW n \in Item, Adding(n) PROVE ViewInv'
  <2>1. handling.act = "added" /\ wire = << >>
    BY <1>3, <1>4, EventFacts DEF Adding
  <2>2. view' = content /\ UNCHANGED <<m_url, timer>>
    BY <2>1 DEF Signal
  <2>3. NoChange'
    BY <1>1, <1>2, <2>1, <2>2 DEF NoChange, Pending
  <2> QED
    BY <1>1, <1>2, <2>2, <2>3 DEF ViewInv
<1>5. ASSUME NEW n \in Item, Removing(n) PROVE ViewInv'
  <2>1. handling.act = "removed" /\ handling.name = n /\ wire = << >>
    BY <1>3, <1>5, EventFacts DEF Removing
  <2>2. view' = view /\ m_url' = n /\ timer' = "on"
    BY <1>2, <2>1 DEF Signal
  <2>3. NoChange'
    BY <1>1, <1>2, <1>5, <2>1, <2>2 DEF NoChange, Pending, Removing
  <2> QED
    BY <1>1, <1>2, <2>2, <2>3 DEF ViewInv
<1>6. ASSUME NEW n \in Item, Modifying(n) PROVE ViewInv'
  <2>1. handling.act = "modified" /\ wire = << >>
    BY <1>3, <1>6, EventFacts DEF Modifying
  <2>2. UNCHANGED <<view, m_url, timer>>
    BY <2>1 DEF Signal
  <2>3. NoChange'
    BY <1>1, <1>2, <1>6, <2>1, <2>2 DEF NoChange, Pending, Modifying
  <2> QED
    BY <1>1, <1>2, <2>2, <2>3 DEF ViewInv
<1>7. ASSUME NEW a \in Item, NEW b \in Item, Renaming(a, b) PROVE ViewInv'
  <2>1. CASE RemovalHandled(a, b)
    <3>1. handling.act = "removed" /\ handling.name = a
      BY <2>1, EventFacts DEF RemovalHandled
    <3>2. view' = view /\ m_url' = a /\ timer' = "on"
      BY <1>2, <3>1 DEF Signal
    <3>3. RemovalPending(a, b)'
      BY <1>1, <2>1, <3>2 DEF RemovalHandled, RemovalPending, OldShown
    <3> QED
      BY <1>1, <1>2, <3>2, <3>3 DEF ViewInv, Renaming
  <2>2. CASE RemovalDiscarded(a, b)
    <3>1. handling.act = "oldName" /\ handling.name = a
      BY <2>2, EventFacts DEF RemovalDiscarded
    <3>2. moveFrom' = a /\ UNCHANGED <<view, m_url, timer>>
      BY <3>1 DEF Signal
    <3>3. NewNameLeft(a, b)'
      BY <1>1, <2>2, <3>2 DEF RemovalDiscarded, NewNameLeft, OldShown, Last1
    <3> QED
      BY <1>1, <1>2, <3>2, <3>3 DEF ViewInv, Renaming
  <2>3. CASE NewNameLeft(a, b)
    <3>1. handling.act = "newName" /\ handling.name = b /\ wire = << >> /\ moveFrom = a
      BY <1>3, <2>3, EventFacts DEF NewNameLeft
    <3>2. view' = (IF moveFrom \in view THEN (view \ {moveFrom}) \cup {b} ELSE view) /\ UNCHANGED <<m_url, timer>>
      BY <3>1 DEF Signal
    <3>3. view' = content
      BY <2>3, <3>1, <3>2 DEF NewNameLeft, OldShown
    <3>4. NoChange'
      BY <1>1, <1>2, <3>1, <3>2, <3>3 DEF NoChange, Pending
    <3> QED
      BY <1>1, <1>2, <3>2, <3>4 DEF ViewInv
  <2> QED
    BY <1>1, <1>7, <2>1, <2>2, <2>3 DEF Renaming, RenameTold, RemovalPending
<1> QED
  BY <1>1, <1>4, <1>5, <1>6, <1>7 DEF ViewInv, NoChange

LEMMA TimeoutKeeps == ASSUME ViewInv, NotifyEvents \cap {"lateTimeout", "slowRename"} = {}, Timeout PROVE ViewInv'
<1>1. /\ timer' = "off" /\ SendWithLock /\ UNCHANGED <<content, wire, handling, moveFrom>> /\ ~RenameFollows
  BY DEF Timeout
<1>2. m_url' = NoItem /\ view' = view \ Pending /\ Pending' = {} /\ NoItem \notin Item /\ content \subseteq Item
  BY <1>1, SendsPending, NotifyAssumption DEF ViewInv, Pending
<1>3. NoChange => NoChange'
  BY <1>1, <1>2 DEF NoChange, Pending
<1>4. ASSUME NEW n \in Item PROVE (Adding(n) => Adding(n)') /\ (Removing(n) => Removing(n)') /\ (Modifying(n) => Modifying(n)')
  BY <1>1, <1>2 DEF Adding, Removing, Modifying, Last1, Pending
<1>5. ASSUME NEW a \in Item, NEW b \in Item PROVE Renaming(a, b) => Renaming(a, b)'
  <2>1. RenameTold(a, b) => RenameTold(a, b)'
    BY <1>1, <1>2 DEF RenameTold, Pending
  <2>2. ~RemovalPending(a, b)
    <3>1. RemovalPending(a, b) => wire # << >> /\ Head(wire) = ServerEvent("oldName", a) /\ m_url = a
      BY TupleFacts DEF RemovalPending
    <3> QED
      BY <1>1, <3>1 DEF RenameFollows, ServerEvent
  <2>3. OldShown(a, b) /\ m_url = NoItem => OldShown(a, b)'
    BY <1>1, <1>2 DEF OldShown, Pending
  <2>4. RemovalHandled(a, b) \/ RemovalDiscarded(a, b) \/ NewNameLeft(a, b) => m_url = NoItem
    BY EventFacts DEF ViewInv, RemovalHandled, RemovalDiscarded, NewNameLeft
  <2> QED
    BY <1>1, <1>2, <2>1, <2>2, <2>3, <2>4 DEF Renaming, RemovalHandled, RemovalDiscarded, NewNameLeft, Last1
<1> QED
  BY <1>1, <1>2, <1>3, <1>4, <1>5 DEF ViewInv

LEMMA ViewSame == ASSUME ViewInv, UNCHANGED <<content, view, wire, handling, m_url, timer, moveFrom>> PROVE ViewInv'
<1>1. NoChange => NoChange'
  BY DEF NoChange, Pending
<1>2. ASSUME NEW n \in Item PROVE (Adding(n) => Adding(n)') /\ (Removing(n) => Removing(n)') /\ (Modifying(n) => Modifying(n)')
  BY DEF Adding, Removing, Modifying, Last1, Pending
<1>3. ASSUME NEW a \in Item, NEW b \in Item PROVE Renaming(a, b) => Renaming(a, b)'
  BY DEF Renaming, RenameTold, RemovalHandled, RemovalPending, RemovalDiscarded, NewNameLeft, OldShown, Last1, Pending
<1> QED
  BY <1>1, <1>2, <1>3 DEF ViewInv

LEMMA ViewStep ==
  ASSUME ViewInv, NotifyEvents \cap {"lateTimeout", "slowRename"} = {}, [NotifierNext \/ WatcherNext]_<<notifyVars, watchVars>>
  PROVE  ViewInv'
<1>1. CASE LateTimeout
  BY <1>1 DEF LateTimeout, ViewInv
<1>2. CASE LimiterExpires \/ WatcherNext \/ UNCHANGED <<notifyVars, watchVars>>
  BY <1>2, ViewSame DEF LimiterExpires, WatcherNext, WatchDirectory, LeftDirectory, NotifierEnds, Restart, notifyVars
<1> QED
  BY <1>1, <1>2, ServerKeeps, NewEventKeeps, SignalKeeps, TimeoutKeeps DEF NotifierNext

(* When the notifier has handled all there was, a view shows what is in    *)
(* its directory: PendingRemove holds a removal back for the rename that   *)
(* may follow, and sends it with whatever comes next, or after a second.   *)
(* Assumed away: a rename that follows its removal by more than a second,  *)
(* and a timeout that has to wait for the mutex while the rename comes.    *)
THEOREM SmbViewsRight ==
  ASSUME NotifyEvents \cap {"lateTimeout", "slowRename"} = {}
  PROVE  NotifySpec => []ViewsRight
<1>1. NotifyInit => ViewInv
  BY NotifyAssumption DEF NotifyInit, ViewInv, NoChange, Pending
<1>2. ViewInv /\ [NotifierNext \/ WatcherNext]_<<notifyVars, watchVars>> => ViewInv'
  BY ViewStep
<1>3. ViewInv => ViewsRight
  <2> SUFFICES ASSUME ViewInv, wire = << >>, handling = NoEvent, m_url = NoItem PROVE view = content
    BY DEF ViewsRight
  <2>1. ASSUME NEW e, e # NoEvent PROVE ~Last1(e)
    BY <2>1, TupleFacts DEF Last1
  <2>2. ASSUME NEW n \in Item PROVE ~(Adding(n) \/ Removing(n) \/ Modifying(n))
    BY <2>1, EventFacts DEF Adding, Removing, Modifying
  <2>3. ASSUME NEW a \in Item, NEW b \in Item PROVE ~Renaming(a, b)
    BY <2>1, EventFacts, TupleFacts DEF Renaming, RenameTold, RemovalHandled, RemovalPending, RemovalDiscarded, NewNameLeft
  <2> QED
    BY <2>2, <2>3 DEF ViewInv, NoChange, Pending
<1> QED
  BY <1>1, <1>2, <1>3, PTL DEF NotifySpec

-----------------------------------------------------------------------------
(* Change notification: what is watched                                    *)

NotifierType == [proc : {"none", "running", "waiting", "failed"}, starts : Nat, lastEntry : Nat]
Later(d) == {x \in Dir : entered[x] > entered[d]}

(* A directory watched is open, and its notifier knows when it was last    *)
(* entered; no two directories were entered at the same time.              *)
WatchTypeInv ==
  /\ notifier \in [Dir -> NotifierType] /\ open \in [Dir -> {0, 1}] /\ m_watches \subseteq Dir
  /\ entries \in Nat /\ entered \in [Dir -> 0 .. entries]
WatchInv ==
  /\ WatchTypeInv /\ OpenIsWatched
  /\ \A d \in m_watches : open[d] = 1 /\ entered[d] > 0 /\ notifier[d].lastEntry = entered[d]
  /\ \A x, y \in Dir : entered[x] = entered[y] /\ entered[x] > 0 => x = y

LEMMA LaterFinite == ASSUME NEW d \in Dir PROVE IsFiniteSet(Later(d)) /\ Cardinality(Later(d)) \in Nat
<1>1. Later(d) \in SUBSET Dir
  BY DEF Later
<1> QED
  BY <1>1, FS_Subset, FS_CardinalityType, NotifyAssumption

(* The notifier that ends, or is ended, is no longer of a directory watched. *)
LEMMA StoppedKeeps ==
  ASSUME WatchInv, NEW d \in Dir, m_watches' = m_watches \ {d}, notifier' = Stop(notifier, d),
         UNCHANGED <<entered, entries>>, open' \in [Dir -> {0, 1}], \A x \in Dir \ {d} : open'[x] = open[x],
         gaveUp \subseteq gaveUp', open'[d] = 0 \/ d \in gaveUp'
  PROVE  WatchInv'
<1>1. /\ notifier' \in [Dir -> NotifierType] /\ notifier'[d].proc = "none" /\ \A x \in Dir \ {d} : notifier'[x] = notifier[x]
  <2>1. NoNotifier \in NotifierType /\ NoNotifier.proc = "none"
    BY DEF NoNotifier, NotifierType
  <2> QED
    BY <2>1 DEF Stop, WatchInv, WatchTypeInv
<1>2. WatchTypeInv'
  BY <1>1 DEF WatchInv, WatchTypeInv
<1>3. Cardinality(m_watches') <= Capacity
  <2>1. m_watches' \in SUBSET m_watches /\ m_watches \in SUBSET Dir /\ Cardinality(m_watches) <= Capacity
    BY DEF WatchInv, WatchTypeInv, OpenIsWatched
  <2>2. IsFiniteSet(m_watches)
    BY <2>1, FS_Subset, NotifyAssumption
  <2>3. Cardinality(m_watches') <= Cardinality(m_watches) /\ Cardinality(m_watches) \in Nat /\ Cardinality(m_watches') \in Nat
    BY <2>1, <2>2, FS_Subset, FS_CardinalityType
  <2> QED
    BY <2>1, <2>3, NotifyAssumption
<1>4. LastEntered(Capacity)' = LastEntered(Capacity)
  BY DEF LastEntered
<1>5. \A x \in LastEntered(Capacity)' : open'[x] > 0 => x \in gaveUp' \cup m_watches'
  BY <1>4 DEF WatchInv, OpenIsWatched, LastEntered
<1>6. \A x \in Dir : notifier'[x].proc \in {"running", "waiting"} <=> x \in m_watches'
  BY <1>1 DEF OpenIsWatched, WatchInv
<1>7. OpenIsWatched'
  BY <1>3, <1>5, <1>6 DEF OpenIsWatched
<1> QED
  BY <1>1, <1>2, <1>7 DEF WatchInv, WatchTypeInv

LEMMA ProcKeeps ==
  ASSUME WatchInv, NEW d \in Dir, NEW p \in {"running", "waiting"}, notifier[d].proc \in {"running", "waiting"},
         notifier' \in [Dir -> NotifierType], notifier'[d].proc = p, notifier'[d].lastEntry = notifier[d].lastEntry,
         \A x \in Dir \ {d} : notifier'[x] = notifier[x],
         UNCHANGED <<open, m_watches, gaveUp, entered, entries>>
  PROVE  WatchInv'
<1>1. WatchTypeInv'
  BY DEF WatchInv, WatchTypeInv
<1>2. LastEntered(Capacity)' = LastEntered(Capacity)
  BY DEF LastEntered
<1>3. OpenIsWatched'
  BY <1>2 DEF OpenIsWatched, WatchInv, WatchTypeInv
<1> QED
  BY <1>1, <1>3 DEF WatchInv, WatchTypeInv

(* The directory that makes room was entered before all the others that    *)
(* are watched, so it is not of the last any longer.                       *)
LEMMA EnteredKeeps ==
  ASSUME WatchInv, NEW d \in Dir, d \notin m_watches, entries' = entries + 1, entered' = [entered EXCEPT ![d] = entries'],
         NEW x \in LastEntered(Capacity)', x # d
  PROVE  /\ x \in LastEntered(Capacity)
         /\ Oldest(x) => Cardinality(m_watches) < Capacity
<1>1. x \in Dir /\ entered'[x] = entered[x] /\ entered[x] > 0 /\ entered[x] < entered'[d] /\ Cardinality(Later(x)') < Capacity
  BY DEF LastEntered, WatchInv, WatchTypeInv, Later
<1>2. Later(x)' \in SUBSET Dir /\ IsFiniteSet(Later(x)') /\ Cardinality(Later(x)') \in Nat
  <2>1. Later(x)' \in SUBSET Dir
    BY DEF Later
  <2> QED
    BY <2>1, FS_Subset, FS_CardinalityType, NotifyAssumption
<1>3. Later(x) \in SUBSET Later(x)' /\ d \in Later(x)'
  BY <1>1 DEF Later, WatchInv, WatchTypeInv
<1>4. x \in LastEntered(Capacity)
  <2>1. Cardinality(Later(x)) <= Cardinality(Later(x)') /\ Cardinality(Later(x)) \in Nat
    BY <1>1, <1>2, <1>3, FS_Subset, LaterFinite
  <2>2. Cardinality(Later(x)) < Capacity
    BY <1>1, <1>2, <2>1, NotifyAssumption
  <2> QED
    BY <1>1, <2>2 DEF LastEntered, Later
<1>5. ASSUME Oldest(x) PROVE Cardinality(m_watches) < Capacity
  <2>1. x \in m_watches /\ m_watches \in SUBSET Dir /\ IsFiniteSet(m_watches)
    BY <1>5, FS_Subset, NotifyAssumption DEF Oldest, WatchInv, WatchTypeInv
  <2>2. ASSUME NEW y \in m_watches \ {x} PROVE y \in Later(x)'
    <3>1. y \in Dir /\ y # d /\ x # y /\ entered[x] <= entered[y] /\ entered[y] > 0 /\ entered[x] \in Nat /\ entered[y] \in Nat
      BY <1>1, <1>5, <2>1, <2>2 DEF Oldest, WatchInv, WatchTypeInv
    <3>2. entered[x] # entered[y]
      BY <1>1, <3>1 DEF WatchInv
    <3> QED
      BY <1>1, <3>1, <3>2 DEF Later, WatchInv, WatchTypeInv
  <2> DEFINE R == m_watches \ {x}
  <2>3. IsFiniteSet(R) /\ Cardinality(R) = Cardinality(m_watches) - 1 /\ d \notin R
    BY <2>1, FS_RemoveElement
  <2>4. Cardinality(R \cup {d}) = Cardinality(R) + 1 /\ IsFiniteSet(R \cup {d})
    BY <2>3, FS_AddElement
  <2>5. R \cup {d} \in SUBSET Later(x)'
    BY <1>3, <2>2
  <2>6. Cardinality(R \cup {d}) <= Cardinality(Later(x)')
    BY <1>2, <2>5, FS_Subset
  <2>7. Cardinality(m_watches) \in Nat
    BY <2>1, FS_CardinalityType
  <2> QED
    BY <1>1, <1>2, <2>3, <2>4, <2>6, <2>7, NotifyAssumption
<1> QED
  BY <1>4, <1>5

LEMMA WatchKeeps ==
  ASSUME WatchInv, NEW d \in Dir, WatchDirectory(d), NotifyEvents \cap {"twoTabs", "startFails"} = {}
  PROVE  WatchInv'
<1>1. /\ open[d] = 0 /\ d \notin m_watches /\ entries' = entries + 1 /\ gaveUp' = gaveUp \ {d}
      /\ open' = [open EXCEPT ![d] = @ + 1] /\ entered' = [entered EXCEPT ![d] = entries']
  BY DEF WatchDirectory, WatchInv, WatchTypeInv
<1>2. PICK left \in IF Cardinality(m_watches) < Capacity THEN {{}} ELSE {{o} : o \in {x \in m_watches : Oldest(x)}} :
        /\ m_watches' = (m_watches \ left) \cup {d}
        /\ notifier' = Poke(Start([x \in Dir |-> IF x \in left THEN NoNotifier ELSE notifier[x]], d), d)
  BY <1>1 DEF WatchDirectory
<1>3. \/ left = {} /\ Cardinality(m_watches) < Capacity
      \/ Cardinality(m_watches) >= Capacity /\ \E o \in m_watches : Oldest(o) /\ left = {o}
  <2>1. Cardinality(m_watches) \in Nat
    BY FS_Subset, FS_CardinalityType, NotifyAssumption DEF WatchInv, WatchTypeInv
  <2> QED
    BY <1>2, <2>1, NotifyAssumption
<1>4. NoNotifier \in NotifierType /\ NoNotifier.proc = "none"
  BY DEF NoNotifier, NotifierType
<1>5. d \notin left /\ \A x \in left : x \in m_watches
  BY <1>1, <1>3
<1>6. /\ notifier' \in [Dir -> NotifierType] /\ notifier'[d].proc = "running" /\ notifier'[d].lastEntry = entries'
      /\ \A x \in Dir \ {d} : notifier'[x] = IF x \in left THEN NoNotifier ELSE notifier[x]
  <2> DEFINE S == [x \in Dir |-> IF x \in left THEN NoNotifier ELSE notifier[x]]
  <2>1. S \in [Dir -> NotifierType] /\ \A x \in Dir : S[x] = IF x \in left THEN NoNotifier ELSE notifier[x]
    BY <1>4 DEF WatchInv, WatchTypeInv
  <2>2. entries' \in Nat /\ notifier' = Poke(Start(S, d), d)
    BY <1>1, <1>2 DEF WatchInv, WatchTypeInv
  <2> HIDE DEF S
  <2> QED
    BY <2>1, <2>2 DEF Poke, Start, NotifierType
<1>7. WatchTypeInv'
  BY <1>1, <1>2, <1>6 DEF WatchInv, WatchTypeInv
<1>8. Cardinality(m_watches') <= Capacity
  <2>1. IsFiniteSet(m_watches) /\ Cardinality(m_watches) \in Nat /\ Cardinality(m_watches) <= Capacity
    BY FS_Subset, FS_CardinalityType, NotifyAssumption DEF WatchInv, WatchTypeInv, OpenIsWatched
  <2>2. CASE left = {} /\ Cardinality(m_watches) < Capacity
    <3>1. m_watches' = m_watches \cup {d}
      BY <1>2, <2>2
    <3>2. Cardinality(m_watches \cup {d}) = Cardinality(m_watches) + 1
      BY <1>1, <2>1, FS_AddElement
    <3> QED
      BY <2>1, <2>2, <3>1, <3>2, NotifyAssumption
  <2>3. ASSUME NEW o \in m_watches, left = {o} PROVE Cardinality(m_watches') <= Capacity
    <3> DEFINE R == m_watches \ {o}
    <3>1. IsFiniteSet(R) /\ Cardinality(R) = Cardinality(m_watches) - 1 /\ d \notin R
      BY <1>1, <2>1, FS_RemoveElement
    <3>2. Cardinality(R \cup {d}) = Cardinality(R) + 1
      BY <3>1, FS_AddElement
    <3>3. m_watches' = R \cup {d}
      BY <1>2, <2>3
    <3> QED
      BY <2>1, <3>1, <3>2, <3>3, NotifyAssumption
  <2> QED
    BY <1>3, <2>2, <2>3
<1>9. ASSUME NEW x \in LastEntered(Capacity)', open'[x] > 0 PROVE x \in gaveUp' \cup m_watches'
  <2>1. CASE x = d
    BY <1>2, <2>1
  <2>2. CASE x # d
    <3>1. x \in LastEntered(Capacity) /\ (Oldest(x) => Cardinality(m_watches) < Capacity)
      BY <1>1, <2>2, EnteredKeeps
    <3>2. x \in Dir /\ x \in gaveUp \cup m_watches
      BY <1>1, <1>9, <2>2, <3>1 DEF LastEntered, WatchInv, WatchTypeInv, OpenIsWatched
    <3>3. x \notin left
      <4>1. Cardinality(m_watches) \in Nat
        BY FS_Subset, FS_CardinalityType, NotifyAssumption DEF WatchInv, WatchTypeInv
      <4> QED
        BY <1>3, <3>1, <4>1, NotifyAssumption
    <3> QED
      BY <1>1, <1>2, <2>2, <3>2, <3>3
  <2> QED
    BY <2>1, <2>2
<1>10. \A x \in Dir : notifier'[x].proc \in {"running", "waiting"} <=> x \in m_watches'
  BY <1>2, <1>4, <1>5, <1>6 DEF WatchInv, OpenIsWatched
<1>11. OpenIsWatched'
  BY <1>8, <1>9, <1>10 DEF OpenIsWatched
<1>12. \A x \in m_watches' : open'[x] = 1 /\ entered'[x] > 0 /\ notifier'[x].lastEntry = entered'[x]
  <2>1. ASSUME NEW x \in m_watches', x # d PROVE open'[x] = 1 /\ entered'[x] > 0 /\ notifier'[x].lastEntry = entered'[x]
    BY <1>1, <1>2, <1>6, <2>1 DEF WatchInv, WatchTypeInv
  <2>2. open'[d] = 1 /\ entered'[d] > 0 /\ notifier'[d].lastEntry = entered'[d]
    BY <1>1, <1>6 DEF WatchInv, WatchTypeInv
  <2> QED
    BY <2>1, <2>2
<1>13. \A x, y \in Dir : entered'[x] = entered'[y] /\ entered'[x] > 0 => x = y
  BY <1>1 DEF WatchInv, WatchTypeInv
<1> QED
  BY <1>7, <1>11, <1>12, <1>13 DEF WatchInv

LEMMA WatchStep ==
  ASSUME WatchInv, NotifyEvents \cap {"twoTabs", "startFails"} = {},
         NotifierNext \/ WatcherNext \/ UNCHANGED <<notifyVars, watchVars>>
  PROVE  WatchInv'
<1>1. ASSUME NEW d \in Dir, LeftDirectory(d) PROVE WatchInv'
  <2>1. open[d] = 1 /\ open' \in [Dir -> {0, 1}] /\ open'[d] = 0 /\ \A x \in Dir \ {d} : open'[x] = open[x]
    BY <1>1 DEF LeftDirectory, WatchInv, WatchTypeInv
  <2> QED
    BY <1>1, <2>1, StoppedKeeps DEF LeftDirectory
<1>2. ASSUME NEW d \in Dir, NotifierEnds(d) PROVE WatchInv'
  <2>1. CASE notifier' = [notifier EXCEPT ![d].proc = "waiting"] /\ UNCHANGED <<m_watches, gaveUp>>
    <3>1. notifier[d].starts \in Nat /\ notifier[d].proc = "running" /\ notifier[d] \in NotifierType
      BY <1>2 DEF NotifierEnds, WatchInv, WatchTypeInv, NotifierType
    <3>2. /\ notifier' \in [Dir -> NotifierType] /\ notifier'[d].proc = "waiting" /\ notifier'[d].lastEntry = notifier[d].lastEntry
          /\ \A x \in Dir \ {d} : notifier'[x] = notifier[x]
      BY <2>1, <3>1 DEF WatchInv, WatchTypeInv, NotifierType
    <3> QED
      BY <1>2, <2>1, <3>1, <3>2, ProcKeeps DEF NotifierEnds
  <2>2. CASE m_watches' = m_watches \ {d} /\ notifier' = Stop(notifier, d) /\ gaveUp' = gaveUp \cup {d}
    BY <1>2, <2>2, StoppedKeeps DEF NotifierEnds, WatchInv, WatchTypeInv
  <2> QED
    BY <1>2, <2>1, <2>2 DEF NotifierEnds
<1>3. ASSUME NEW d \in Dir, Restart(d) PROVE WatchInv'
  <2>1. notifier[d].starts \in Nat /\ notifier[d].proc = "waiting" /\ notifier[d] \in NotifierType
    BY <1>3 DEF Restart, WatchInv, WatchTypeInv, NotifierType
  <2>2. /\ notifier' \in [Dir -> NotifierType] /\ notifier'[d].proc = "running" /\ notifier'[d].lastEntry = notifier[d].lastEntry
        /\ \A x \in Dir \ {d} : notifier'[x] = notifier[x]
    BY <1>3, <2>1 DEF Restart, Start, WatchInv, WatchTypeInv, NotifierType
  <2> QED
    BY <1>3, <2>1, <2>2, ProcKeeps DEF Restart
<1>4. ASSUME UNCHANGED watchVars PROVE WatchInv'
  BY <1>4 DEF watchVars, WatchInv, WatchTypeInv, OpenIsWatched, LastEntered
<1>5. ASSUME NotifierNext PROVE UNCHANGED watchVars
  BY <1>5 DEF NotifierNext, ServerChanges, Change, NewEventFor, Signal, Timeout, LateTimeout, LimiterExpires
<1> QED
  BY <1>1, <1>2, <1>3, <1>4, <1>5, WatchKeeps DEF WatcherNext

(* As long as one tab shows a directory and every notifier starts, the     *)
(* directories entered last that are still open are watched, by one        *)
(* process each, and never more than the capacity.                         *)
THEOREM SmbOpenIsWatched ==
  ASSUME NotifyEvents \cap {"twoTabs", "startFails"} = {}
  PROVE  NotifySpec => []OpenIsWatched
<1>1. NotifyInit => WatchInv
  <2>1. SUFFICES ASSUME NotifyInit PROVE WatchInv
    OBVIOUS
  <2>2. WatchTypeInv
    BY <2>1 DEF NotifyInit, WatchTypeInv, NotifierType, NoNotifier
  <2>3. LastEntered(Capacity) = {} /\ Cardinality(m_watches) = 0
    BY <2>1, FS_EmptySet DEF NotifyInit, LastEntered
  <2> QED
    BY <2>1, <2>2, <2>3, NotifyAssumption DEF WatchInv, OpenIsWatched, NotifyInit, NoNotifier
<1>2. WatchInv /\ [NotifierNext \/ WatcherNext]_<<notifyVars, watchVars>> => WatchInv'
  BY WatchStep
<1>3. WatchInv => OpenIsWatched
  BY DEF WatchInv
<1> QED
  BY <1>1, <1>2, <1>3, PTL DEF NotifySpec

(* Where nothing fails and each directory is shown once, views follow the  *)
(* directories they show, and the open ones are watched.                   *)
THEOREM SmbNotifyRight ==
  ASSUME NotifyEvents = {}
  PROVE  NotifySpec => []NotifyRight
<1>1. NotifySpec => []ViewsRight
  BY SmbViewsRight
<1>2. NotifySpec => []OpenIsWatched
  BY SmbOpenIsWatched
<1>3. ViewsRight /\ OpenIsWatched => NotifyRight
  BY DEF NotifyRight
<1> QED
  BY <1>1, <1>2, <1>3, PTL

-----------------------------------------------------------------------------
(* Browsing: logins                                                        *)

BrowsePcs == {"idle", "check", "stat", "list", "space", "password", "loop", "after"}
BrowseType == [pc : BrowsePcs, op : {"none", "stat", "list", "space"}, url : Url, dialogs : Nat, kept : BOOLEAN,
               refusal : {"none", "unclear", "other", "access"}, result : {"none", "pass", "fail"}]
SmbcType == [state : {"none", "queued", "reading", "finished"}, left : SUBSET Name, error : {"none", "other", "unclear", "access"}, root : BOOLEAN]
AskedFor(b, logins) == b.kept /\ b.url.path \in Share => b.url.user \in Login /\ logins[b.url.path] = b.url.user

(* A share whose login has been typed in this command, to be kept, has it  *)
(* saved, and in the URL; a command that asks because of a refused login,  *)
(* or is about to, has a URL that is not let in.                           *)
AskInv ==
  /\ browse \in BrowseType /\ smbLogins \in [Share -> Login \cup {Nothing}] /\ smbc \in SmbcType
  /\ AskedFor(browse, smbLogins) /\ (browse.pc # "idle" => browse.op # "none")
  /\ browse.pc = "password" => browse.refusal = "unclear" \/ (browse.refusal = "access" /\ ~LetsIn(browse.url))
  /\ smbc.error = "access" => browse.pc \in {"loop", "after"} /\ ~LetsIn(browse.url)

LEMMA RootIsUrl == Root \in Url /\ Root.path \notin Share
  BY BrowseAssumption DEF Root, Url

(* A redirect to a share keeps the share and the user of the URL.          *)
LEMMA RedirectFacts ==
  ASSUME NEW url \in Url, NEW resolved \in BOOLEAN
  PROVE  /\ CheckURL(url, resolved) \in Url
         /\ CheckURL(url, resolved).path \in Share =>
              CheckURL(url, resolved).path = url.path /\ CheckURL(url, resolved).user = url.user
<1> DEFINE smb == [url EXCEPT !.scheme = "smb", !.host = PlainHost(url, resolved)]
<1>1. PlainHost(url, resolved) \in {"", "srv", "wsd", "local"}
  BY DEF PlainHost, Url
<1>2. smb \in Url /\ smb.path = url.path /\ smb.user = url.user
  BY <1>1 DEF Url
<1>3. CheckURL(url, resolved) =
        IF smb.form = "/" THEN IF smb.host = "" THEN Root ELSE [smb EXCEPT !.form = "//"]
        ELSE IF smb = Root THEN smb
        ELSE IF smb.form = "@" THEN [smb EXCEPT !.form = "//", !.host = "", !.path = IF smb.path \in Share THEN smb.path ELSE "/"]
        ELSE IF smb.path = "" THEN [smb EXCEPT !.path = "/"]
        ELSE smb
  BY DEF CheckURL
<1> HIDE DEF smb
<1>4. [smb EXCEPT !.form = "//"] \in Url /\ [smb EXCEPT !.form = "//"].path = smb.path /\ [smb EXCEPT !.form = "//"].user = smb.user
  BY <1>2 DEF Url
<1>5. [smb EXCEPT !.path = "/"] \in Url /\ [smb EXCEPT !.path = "/"].path \notin Share
  BY <1>2, BrowseAssumption DEF Url
<1>6. ASSUME NEW p \in Share \cup {"/"}
      PROVE  LET u == [smb EXCEPT !.form = "//", !.host = "", !.path = p] IN u \in Url /\ u.path = p /\ u.user = smb.user
  BY <1>2 DEF Url
<1>7. (IF smb.path \in Share THEN smb.path ELSE "/") \in Share \cup {"/"}
  OBVIOUS
<1> QED
  BY ZenonT(90), <1>2, <1>3, <1>4, <1>5, <1>6, <1>7, RootIsUrl, BrowseAssumption

(* A step of listDir()'s loop asks for nothing and saves nothing.          *)
LEMMA EventAsks ==
  ASSUME AskInv, NEW s \in SmbcType, NEW d, NEW w, NEW names, NEW emitted, Event(s, d, w, names, emitted),
         s.error = "access" => smbc.error = "access" \/ ~LetsIn(browse.url)
  PROVE  AskInv'
<1>1. browse.pc = "loop" /\ smbc' = s /\ smbLogins' = smbLogins /\ (browse' = [browse EXCEPT !.pc = "after"] \/ browse' = browse)
  BY DEF Event, MaybeFinished, BrowseAt, BrowseGoto
<1>2. browse' \in BrowseType /\ browse'.url = browse.url /\ browse'.kept = browse.kept /\ browse'.op = browse.op /\ browse'.pc \in {"loop", "after"}
  BY <1>1 DEF AskInv, BrowseType, BrowsePcs
<1>3. LetsIn(browse.url)' = LetsIn(browse.url)
  BY <1>1, <1>2 DEF LetsIn, Credentials
<1> QED
  BY <1>1, <1>2, <1>3 DEF AskInv, AskedFor

LEMMA LoopAsks == AskInv /\ Loop => AskInv'
<1> SUFFICES ASSUME AskInv, Loop PROVE AskInv'
  OBVIOUS
<1>0. smbc \in SmbcType
  BY DEF AskInv
<1>1. CASE FlushEntries
  BY <1>1 DEF FlushEntries, AskInv, AskedFor, LetsIn, Credentials
<1>2. CASE SmbcOpen
  <2> DEFINE opened == [smbc EXCEPT !.state = "reading", !.left = Entries[browse.url.path]]
             failed(error) == [smbc EXCEPT !.state = "finished", !.error = error]
  <2>1. browse.url.path \in Share \cup {"/", ""}
    BY DEF AskInv, BrowseType, Url
  <2>2. Entries[browse.url.path] \in SUBSET Name
    BY <2>1, BrowseAssumption
  <2>3. opened \in SmbcType /\ opened.error = smbc.error
    BY <1>0, <2>2 DEF SmbcType
  <2>4. ASSUME NEW error \in Errors(browse.url) PROVE failed(error) \in SmbcType /\ failed(error).error = error
    BY <1>0 DEF SmbcType, Errors
  <2>5. \A error \in Errors(browse.url) : error = "access" => ~LetsIn(browse.url)
    BY DEF Errors
  <2>6. Event(opened, dnssd, wsd, {}, FALSE) \/ \E error \in Errors(browse.url) : Event(failed(error), dnssd, wsd, {}, TRUE)
    BY <1>2 DEF SmbcOpen
  <2> HIDE DEF opened, failed
  <2> QED
    BY <2>3, <2>4, <2>5, <2>6, EventAsks
<1>3. CASE SmbcNext
  <2>1. ASSUME NEW n PROVE /\ [smbc EXCEPT !.left = @ \ {n}] \in SmbcType /\ [smbc EXCEPT !.left = @ \ {n}].error = smbc.error
    BY <1>0 DEF SmbcType
  <2>2. /\ [smbc EXCEPT !.root = FALSE] \in SmbcType /\ [smbc EXCEPT !.root = FALSE].error = smbc.error
        /\ [smbc EXCEPT !.state = "finished"] \in SmbcType /\ [smbc EXCEPT !.state = "finished"].error = smbc.error
    BY <1>0 DEF SmbcType
  <2> QED
    BY <1>3, <2>1, <2>2, EventAsks DEF SmbcNext
<1>4. CASE DnssdStop \/ WsdStop \/ (\E s \in Service : DnssdAdded(s) \/ DnssdResolved(s))
  BY <1>0, <1>4, EventAsks DEF DnssdStop, WsdStop, DnssdAdded, DnssdResolved
<1>5. CASE \E e \in Endpoint : WsdResolverStop(e) \/ PbsdResolved(e)
  BY <1>0, <1>5, EventAsks DEF WsdResolverStop, PbsdResolved
<1>6. CASE \E e \in Endpoint, a, r \in BOOLEAN : WsdMatch(e, a, r)
  BY <1>0, <1>6, EventAsks DEF WsdMatch
<1>7. CASE \E e \in Endpoint, r \in BOOLEAN : WsdResolveMatch(e, r)
  BY <1>0, <1>7, EventAsks DEF WsdResolveMatch
<1> QED
  BY <1>1, <1>2, <1>3, <1>4, <1>5, <1>6, <1>7 DEF Loop

(* The login typed is the one that the next attempt uses.                  *)
LEMMA CommandAsks ==
  ASSUME AskInv,
         \/ CheckRequest \/ StatPath \/ FileSystemFreeSpace \/ CheckPassword \/ StartListing \/ AfterListing
         \/ \E command \in {"stat", "list", "space"}, url \in Url : StartBrowse(command, url)
  PROVE  AskInv'
<1>1. smbc \in SmbcType /\ (browse.pc \notin {"loop", "after"} => smbc.error # "access") /\ NoSmbc \in SmbcType /\ NoSmbc.error = "none"
  BY DEF AskInv, NoSmbc, SmbcType
<1>2. NoBrowse \in BrowseType /\ NoBrowse.pc = "idle" /\ NoBrowse.kept = FALSE
  BY RootIsUrl DEF NoBrowse, BrowseType, BrowsePcs
<1>3. ASSUME NEW r \in {"pass", "fail"}, BrowseResult(r), UNCHANGED smbLogins, smbc' = smbc \/ smbc' = NoSmbc, browse.pc \notin {"loop", "after"} \/ smbc' = NoSmbc
      PROVE  AskInv'
  <2>1. browse' \in BrowseType /\ browse'.pc = "idle" /\ browse'.kept = FALSE
    BY <1>2, <1>3 DEF BrowseResult, BrowseType, BrowsePcs
  <2>2. smbc' \in SmbcType /\ smbc'.error # "access"
    BY <1>3, <1>1
  <2> QED
    BY <1>3, <2>1, <2>2 DEF AskInv, AskedFor
<1>4. ASSUME BrowseGoto("loop"), UNCHANGED smbLogins, smbc' \in SmbcType /\ smbc'.error # "access", browse.pc # "idle"
      PROVE  AskInv'
  <2>1. browse' \in BrowseType /\ browse'.url = browse.url /\ browse'.kept = browse.kept /\ browse'.pc = "loop" /\ browse'.op = browse.op
    BY <1>4 DEF BrowseGoto, AskInv, BrowseType, BrowsePcs
  <2> QED
    BY <1>4, <2>1 DEF AskInv, AskedFor
<1>12. ASSUME NEW error \in {"unclear", "other", "access"}, Failed(error), UNCHANGED smbLogins, error = "access" => ~LetsIn(browse.url),
              smbc' = smbc \/ smbc' = NoSmbc, browse.pc \notin {"loop", "after"} \/ smbc' = NoSmbc, browse.pc # "idle"
       PROVE  AskInv'
  <2>1. CASE error = "other"
    BY <1>3, <1>12, <2>1 DEF Failed
  <2>2. CASE error # "other"
    <3>1. browse' = [browse EXCEPT !.pc = "password", !.refusal = error]
      BY <1>12, <2>2 DEF Failed
    <3>2. /\ browse' \in BrowseType /\ browse'.url = browse.url /\ browse'.kept = browse.kept /\ browse'.pc = "password"
          /\ browse'.op = browse.op /\ browse'.refusal = error
      BY <1>12, <2>2, <3>1 DEF AskInv, BrowseType, BrowsePcs
    <3>3. LetsIn(browse.url)' = LetsIn(browse.url)
      BY <1>12, <3>2 DEF LetsIn, Credentials
    <3>4. smbc' \in SmbcType /\ smbc'.error # "access"
      BY <1>1, <1>12
    <3> QED
      BY <1>12, <2>2, <3>2, <3>3, <3>4 DEF AskInv, AskedFor
  <2> QED
    BY <2>1, <2>2
<1>5. CASE CheckRequest
  <2>1. PICK resolved \in BOOLEAN : LET url == CheckURL(browse.url, resolved)
       IN  IF url # browse.url THEN browse' = [browse EXCEPT !.url = url] ELSE BrowseGoto(browse.op)
    BY <1>5 DEF CheckRequest
  <2>2. browse.pc = "check" /\ smbc' = smbc /\ smbLogins' = smbLogins /\ browse.url \in Url
    BY <1>5 DEF CheckRequest, loopVars, BrowseAt, AskInv, BrowseType
  <2> DEFINE url == CheckURL(browse.url, resolved)
  <2>3. CASE browse' = [browse EXCEPT !.url = url]
    <3>1. url \in Url /\ (url.path \in Share => url.path = browse.url.path /\ url.user = browse.url.user)
      BY <2>2, RedirectFacts
    <3> HIDE DEF url
    <3>2. browse' \in BrowseType /\ browse'.pc = "check" /\ browse'.url = url /\ browse'.kept = browse.kept /\ browse'.op = browse.op
      BY <2>2, <2>3, <3>1 DEF AskInv, BrowseType, BrowsePcs
    <3> QED
      BY <1>1, <2>2, <3>1, <3>2 DEF AskInv, AskedFor
  <2>4. CASE BrowseGoto(browse.op)
    <3>1. browse' \in BrowseType /\ browse'.url = browse.url /\ browse'.kept = browse.kept /\ browse'.op = browse.op
      BY <2>2, <2>4 DEF BrowseGoto, AskInv, BrowseType, BrowsePcs
    <3>2. browse'.pc # "password"
      BY <2>2, <2>4 DEF BrowseGoto, AskInv, BrowseType, BrowsePcs
    <3> QED
      BY <1>1, <2>2, <3>1, <3>2 DEF AskInv, AskedFor
  <2> QED
    BY <2>1, <2>3, <2>4
<1>6. CASE StatPath
  <2>1. browse.pc = "stat" /\ smbc' = smbc /\ smbLogins' = smbLogins
    BY <1>6 DEF StatPath, loopVars, BrowseAt
  <2>2. BrowseResult("pass") \/ BrowseResult("fail") \/ \E error \in Errors(browse.url) : Failed(error)
    BY <1>6 DEF StatPath
  <2> QED
    BY <1>3, <1>12, <2>1, <2>2 DEF Errors
<1>7. CASE FileSystemFreeSpace
  BY <1>3, <1>1, <1>7 DEF FileSystemFreeSpace, loopVars, BrowseAt
<1>8. CASE CheckPassword
  <2>1. browse.pc = "password" /\ smbc' = smbc
    BY <1>8 DEF CheckPassword, loopVars, BrowseAt
  <2>2. ASSUME NEW login \in Login, NEW keepPassword \in BOOLEAN,
               browse' = [browse EXCEPT !.pc = "check", !.url.user = login, !.dialogs = @ + 1, !.kept = keepPassword],
               \/ browse.url.path \in Share /\ smbLogins' = Cached(browse.url.path, login)
               \/ (browse.url.path \notin Share \/ ~keepPassword) /\ smbLogins' = smbLogins
        PROVE  AskInv'
    <3> DEFINE url == [browse.url EXCEPT !.user = login]
               dialogs == browse.dialogs + 1
    <3>1. url \in Url /\ url.user = login /\ url.path = browse.url.path
      BY <2>2 DEF AskInv, BrowseType, Url
    <3>2. browse' = [browse EXCEPT !.pc = "check", !.url = url, !.dialogs = dialogs, !.kept = keepPassword] /\ dialogs \in Nat
      BY <2>2 DEF AskInv, BrowseType
    <3> HIDE DEF url, dialogs
    <3>3. browse' \in BrowseType /\ browse'.pc = "check" /\ browse'.url = url /\ browse'.op = browse.op /\ browse'.kept = keepPassword
      BY <3>1, <3>2 DEF AskInv, BrowseType, BrowsePcs
    <3>4. smbLogins' \in [Share -> Login \cup {Nothing}]
      BY <2>2 DEF Cached, AskInv
    <3>5. keepPassword /\ browse.url.path \in Share => smbLogins'[browse.url.path] = login
      BY <2>2 DEF Cached, AskInv
    <3> QED
      BY <1>1, <2>1, <3>1, <3>3, <3>4, <3>5 DEF AskInv, AskedFor
  <2> QED
    BY <1>3, <1>8, <2>1, <2>2 DEF CheckPassword
<1>9. CASE StartListing
  <2>1. [NoSmbc EXCEPT !.state = "queued"] \in SmbcType /\ [NoSmbc EXCEPT !.state = "queued"].error = "none"
    BY <1>1 DEF SmbcType
  <2> QED
    BY <1>4, <1>9, <2>1 DEF StartListing, BrowseAt
<1>10. CASE AfterListing
  <2>1. browse.pc = "after" /\ smbc' = NoSmbc /\ smbLogins' = smbLogins
    BY <1>10 DEF AfterListing, BrowseAt
  <2>2. BrowseResult("pass") \/ (smbc.error # "none" /\ Failed(smbc.error))
    BY <1>10 DEF AfterListing
  <2>3. smbc.error \in {"none", "unclear", "other", "access"} /\ (smbc.error = "access" => ~LetsIn(browse.url))
    BY <1>1 DEF AskInv, SmbcType
  <2> QED
    BY <1>3, <1>12, <2>1, <2>2, <2>3
<1>11. ASSUME NEW command \in {"stat", "list", "space"}, NEW url \in Url, StartBrowse(command, url) PROVE AskInv'
  <2>1. browse' \in BrowseType /\ browse'.pc = "check" /\ browse'.kept = FALSE /\ browse'.op = command
    BY <1>2, <1>11 DEF StartBrowse, BrowseType, BrowsePcs
  <2>2. smbc' = smbc /\ smbLogins' = smbLogins /\ browse.pc = "idle"
    BY <1>11 DEF StartBrowse, loopVars, BrowseAt
  <2> QED
    BY <1>1, <2>1, <2>2 DEF AskInv, AskedFor
<1> QED
  BY <1>5, <1>6, <1>7, <1>8, <1>9, <1>10, <1>11

LEMMA AskInit == BrowseInit => AskInv
<1>1. NoBrowse \in BrowseType /\ NoBrowse.pc = "idle" /\ NoBrowse.kept = FALSE
  BY RootIsUrl DEF NoBrowse, BrowseType, BrowsePcs
<1>2. NoSmbc \in SmbcType /\ NoSmbc.error = "none"
  BY DEF NoSmbc, SmbcType
<1> QED
  BY <1>1, <1>2 DEF BrowseInit, AskInv, AskedFor

LEMMA AskStep == AskInv /\ [BrowseNext]_browseVars => AskInv'
<1>1. AskInv /\ UNCHANGED browseVars => AskInv'
  BY DEF browseVars, loopVars, AskInv, AskedFor, LetsIn, Credentials
<1> QED
  BY <1>1, LoopAsks, CommandAsks DEF BrowseNext, Work

(* Who has typed a login to be kept, one that the share takes, is not      *)
(* asked again as refused: the redirect of checkPassword() keeps the user, *)
(* the login is saved before it, and auth() finds it.                      *)
THEOREM SmbNotAskedTwice == BrowseSpec => []NotAskedTwice
<1>1. AskInv => NotAskedTwice
  <2> SUFFICES ASSUME AskInv, browse.pc = "password", browse.kept, browse.url.path \in Share,
                      browse.url.user \in Accepts[browse.url.path]
               PROVE  browse.refusal = "unclear"
    BY DEF NotAskedTwice, BrowseAt
  <2>1. browse.url.user \in Login /\ smbLogins[browse.url.path] = browse.url.user /\ browse.url.user # Nothing
    BY BrowseAssumption DEF AskInv, AskedFor
  <2>2. Credentials(browse.url, browse.url.path) = browse.url.user
    BY <2>1 DEF Credentials
  <2> QED
    BY <2>2 DEF AskInv, LetsIn
<1> QED
  BY <1>1, AskInit, AskStep, PTL DEF BrowseSpec

-----------------------------------------------------------------------------
(* Browsing: listings                                                      *)

(* A set is sent as a sequence that has each of its elements once.         *)
LEMMA SentOnce ==
  ASSUME NEW T, NEW S \in SUBSET T, IsFiniteSet(S)
  PROVE  SetToSeq(S) \in Seq(T) /\ IsInjective(SetToSeq(S)) /\ ToSet(SetToSeq(S)) = S
<1> DEFINE n == Cardinality(S)
           q == SetToSeq(S)
<1>1. n \in Nat /\ ExistsBijection(1 .. n, S)
  BY FS_CardinalityType
<1>2. \E x \in [1 .. n -> S] : IsInjective(x)
  BY <1>1 DEF ExistsBijection, Bijection, Injection
<1>3. q \in [1 .. n -> S] /\ IsInjective(q)
  BY <1>2 DEF SetToSeq
<1> HIDE DEF q
<1>4. IsFiniteSet(1 .. n) /\ Cardinality(1 .. n) = n
  BY <1>1, FS_Interval
<1>5. q \in Injection(1 .. n, S)
  BY <1>3 DEF Injection
<1>6. q \in Surjection(1 .. n, S)
  BY <1>4, <1>5, FS_Injection
<1>7. ToSet(q) = S
  BY <1>3, <1>6 DEF ToSet, Surjection
<1>8. q \in Seq(T)
  BY <1>1, <1>3
<1> QED
  BY <1>3, <1>7, <1>8 DEF q

LEMMA JoinedOnce ==
  ASSUME NEW T, NEW p \in Seq(T), NEW q \in Seq(T), IsInjective(p), IsInjective(q), ToSet(p) \cap ToSet(q) = {}
  PROVE  p \o q \in Seq(T) /\ IsInjective(p \o q) /\ ToSet(p \o q) = ToSet(p) \cup ToSet(q)
<1> DEFINE r == p \o q
<1>1. r \in Seq(T) /\ Len(r) = Len(p) + Len(q) /\ Len(p) \in Nat /\ Len(q) \in Nat /\ DOMAIN r = 1 .. (Len(p) + Len(q))
  OBVIOUS
<1>2. \A i \in DOMAIN r : IF i <= Len(p) THEN i \in DOMAIN p /\ r[i] = p[i] ELSE i - Len(p) \in DOMAIN q /\ r[i] = q[i - Len(p)]
  OBVIOUS
<1>3. \A i \in DOMAIN p : i \in DOMAIN r /\ r[i] = p[i]
  OBVIOUS
<1>4. \A i \in DOMAIN q : i + Len(p) \in DOMAIN r /\ r[i + Len(p)] = q[i]
  OBVIOUS
<1> HIDE DEF r
<1>5. ToSet(r) = ToSet(p) \cup ToSet(q)
  BY <1>2, <1>3, <1>4 DEF ToSet
<1>6. ASSUME NEW i \in DOMAIN r, NEW j \in DOMAIN r, r[i] = r[j] PROVE i = j
  <2>1. CASE i <= Len(p) /\ j <= Len(p)
    <3>1. i \in DOMAIN p /\ j \in DOMAIN p /\ p[i] = p[j]
      BY <1>2, <1>6, <2>1
    <3> QED
      BY <3>1 DEF IsInjective
  <2>2. CASE ~(i <= Len(p)) /\ ~(j <= Len(p))
    <3>1. i - Len(p) \in DOMAIN q /\ j - Len(p) \in DOMAIN q /\ q[i - Len(p)] = q[j - Len(p)]
      BY <1>2, <1>6, <2>2
    <3>2. i - Len(p) = j - Len(p)
      BY <3>1 DEF IsInjective
    <3> QED
      BY <1>1, <3>2
  <2>3. ASSUME NEW x \in DOMAIN r, NEW y \in DOMAIN r, x <= Len(p), ~(y <= Len(p)), r[x] = r[y] PROVE FALSE
    <3>1. x \in DOMAIN p /\ r[x] = p[x] /\ y - Len(p) \in DOMAIN q /\ r[y] = q[y - Len(p)]
      BY <1>2, <2>3
    <3>2. p[x] \in ToSet(p) /\ q[y - Len(p)] \in ToSet(q)
      BY <3>1 DEF ToSet
    <3> QED
      BY <2>3, <3>1, <3>2
  <2> QED
    BY <1>6, <2>1, <2>2, <2>3
<1> QED
  BY <1>1, <1>5, <1>6 DEF IsInjective, r

Computers(endpoints) == {ComputerOf[e] : e \in endpoints}
DnssdType == [services : SUBSET Service, resolved : SUBSET Service, count : Nat, disconnected : BOOLEAN]
WsdType == [state : {"none", "started"}, probing : BOOLEAN, resolving : SUBSET Endpoint, seen : SUBSET Endpoint, pbsd : SUBSET Endpoint]

(* Of the names known the discoverers d and w have told some, and will     *)
(* tell the others: services being resolved, computers being asked.        *)
Discovering(known, d, w, names) ==
  /\ known = names \cup d.services \cup Computers(w.pbsd)
  /\ IsFiniteSet(d.services) /\ d.resolved \subseteq d.services \cap names /\ d.count = Cardinality(d.resolved)
  /\ IF GetType(browse.url) = "network" THEN w.state = "started" ELSE w.state = "none" /\ d.services = {} /\ w.pbsd = {}
ListInv ==
  /\ list \in SUBSET Name /\ IsFiniteSet(list) /\ listed \in Seq(Name) /\ IsInjective(listed)
  /\ dnssd \in DnssdType /\ wsd \in WsdType
  /\ IF browse.pc = "loop"
     THEN discoveredNames = list \cup ToSet(listed) /\ list \cap ToSet(listed) = {} /\ Discovering(found, dnssd, wsd, discoveredNames)
     ELSE found = ToSet(listed)

(* appendDiscovery() and maybeFinished(): what is new is to be sent, and   *)
(* the loop ends when there is nothing left to be told.                    *)
LEMMA EventLists ==
  ASSUME AskInv, ListInv, NEW s, NEW d \in DnssdType, NEW w \in WsdType, NEW names \in SUBSET Name, NEW emitted,
         IsFiniteSet(names), Event(s, d, w, names, emitted), Discovering(found', d, w, discoveredNames \cup names)
  PROVE  ListInv'
<1> DEFINE all == list \cup (names \ discoveredNames)
<1>1. /\ browse.pc = "loop" /\ dnssd' = d /\ wsd' = w /\ discoveredNames' = discoveredNames \cup names
      /\ \/ browse' = browse /\ list' = all /\ listed' = listed
         \/ /\ browse' = [browse EXCEPT !.pc = "after"] /\ list' = {} /\ listed' = listed \o SetToSeq(all)
            /\ GetType(browse.url) = "network" => DnssdFinished(d) /\ WsdFinished(w)
  BY DEF Event, MaybeFinished, AppendDiscovery, BrowseAt, BrowseGoto
<1>2. all \in SUBSET Name /\ IsFiniteSet(all) /\ all \cap ToSet(listed) = {} /\ all \cup ToSet(listed) = discoveredNames \cup names
  <2>1. IsFiniteSet(names \ discoveredNames)
    BY FS_Subset
  <2> QED
    BY <1>1, <2>1, FS_Union DEF ListInv
<1>3. /\ IsFiniteSet(d.services) /\ d.resolved \in SUBSET d.services /\ d.count = Cardinality(d.resolved)
      /\ found' = discoveredNames \cup names \cup d.services \cup Computers(w.pbsd) /\ d.resolved \subseteq discoveredNames \cup names
      /\ GetType(browse.url) # "network" => d.services = {} /\ w.pbsd = {}
  BY DEF Discovering
<1> HIDE DEF all
<1>4. CASE browse' = browse /\ list' = all /\ listed' = listed
  BY <1>1, <1>2, <1>4 DEF ListInv, Discovering
<1>5. CASE browse' = [browse EXCEPT !.pc = "after"] /\ list' = {} /\ listed' = listed \o SetToSeq(all) /\ (GetType(browse.url) = "network" => DnssdFinished(d) /\ WsdFinished(w))
  <2>1. browse'.pc = "after"
    BY <1>5 DEF AskInv, BrowseType
  <2>2. d.services \subseteq discoveredNames \cup names /\ w.pbsd = {}
    <3>1. CASE GetType(browse.url) = "network"
      <4>1. Cardinality(d.services) = Cardinality(d.resolved) /\ w.pbsd = {}
        BY <1>3, <1>5, <3>1 DEF DnssdFinished, WsdFinished
      <4>2. d.services = d.resolved
        BY <1>3, <4>1, FS_Subset
      <4> QED
        BY <1>3, <4>1, <4>2
    <3> QED
      BY <1>3, <3>1
  <2>3. found' = discoveredNames \cup names
    BY <1>3, <2>2 DEF Computers
  <2>4. SetToSeq(all) \in Seq(Name) /\ IsInjective(SetToSeq(all)) /\ ToSet(SetToSeq(all)) = all
    BY <1>2, SentOnce
  <2>5. listed \in Seq(Name) /\ IsInjective(listed)
    BY DEF ListInv
  <2>6. listed' \in Seq(Name) /\ IsInjective(listed') /\ ToSet(listed') = ToSet(listed) \cup all
    BY <1>2, <1>5, <2>4, <2>5, JoinedOnce
  <2>7. IsFiniteSet({}) /\ dnssd' \in DnssdType /\ wsd' \in WsdType
    BY <1>1, FS_EmptySet
  <2> QED
    BY <1>2, <1>5, <2>1, <2>3, <2>6, <2>7 DEF ListInv
<1> QED
  BY <1>1, <1>4, <1>5 DEF all

LEMMA LoopLists ==
  ASSUME BrowseEvents = {}, AskInv, ListInv, Loop
  PROVE  ListInv'
<1> DEFINE comps == Computers(wsd.pbsd)
<1>1. CASE FlushEntries
  <2>1. browse.pc = "loop" /\ browse' = browse /\ list' = {} /\ listed' = listed \o SetToSeq(list) /\ UNCHANGED <<discoveredNames, dnssd, wsd, found>>
    BY <1>1 DEF FlushEntries, BrowseAt
  <2>2. list \in SUBSET Name /\ IsFiniteSet(list) /\ listed \in Seq(Name) /\ IsInjective(listed) /\ list \cap ToSet(listed) = {}
    BY <2>1 DEF ListInv
  <2>3. SetToSeq(list) \in Seq(Name) /\ IsInjective(SetToSeq(list)) /\ ToSet(SetToSeq(list)) = list
    BY <2>2, SentOnce
  <2>4. listed' \in Seq(Name) /\ IsInjective(listed') /\ ToSet(listed') = ToSet(listed) \cup list
    BY <2>1, <2>2, <2>3, JoinedOnce
  <2> QED
    BY <2>1, <2>4, FS_EmptySet DEF ListInv, Discovering
<1>2. ASSUME Loop, ~FlushEntries PROVE browse.pc = "loop"
  BY <1>2 DEF Loop, SmbcOpen, SmbcNext, DnssdStop, WsdStop, DnssdAdded, DnssdResolved, WsdResolverStop, PbsdResolved, WsdMatch,
              WsdResolveMatch, Event, BrowseAt
<1>3. ASSUME browse.pc = "loop"
      PROVE  /\ dnssd \in DnssdType /\ wsd \in WsdType /\ Discovering(found, dnssd, wsd, discoveredNames)
             /\ dnssd.services \in SUBSET Service /\ dnssd.count \in Nat /\ wsd.pbsd \in SUBSET Endpoint
  BY <1>3 DEF ListInv, DnssdType, WsdType
<1>4. IsFiniteSet({}) /\ {} \in SUBSET Name /\ \A n \in Name : IsFiniteSet({n}) /\ {n} \in SUBSET Name
  BY FS_EmptySet, FS_Singleton
<1>5. ASSUME NEW s, NEW names \in SUBSET Name, NEW emitted, Event(s, dnssd, wsd, names, emitted), found' = found \cup names, IsFiniteSet(names)
      PROVE  ListInv'
  <2>1. browse.pc = "loop"
    BY <1>5 DEF Event, BrowseAt
  <2>2. Discovering(found', dnssd, wsd, discoveredNames \cup names)
    BY <1>3, <1>5, <2>1 DEF Discovering
  <2> QED
    BY <1>3, <1>5, <2>1, <2>2, EventLists
<1>11. CASE SmbcOpen
  <2> DEFINE opened == [smbc EXCEPT !.state = "reading", !.left = Entries[browse.url.path]]
             failed(error) == [smbc EXCEPT !.state = "finished", !.error = error]
  <2>1. Event(opened, dnssd, wsd, {}, FALSE) \/ \E error : Event(failed(error), dnssd, wsd, {}, TRUE)
    BY <1>11 DEF SmbcOpen
  <2>2. found' = found \cup {}
    BY <1>11 DEF SmbcOpen, Known
  <2> HIDE DEF opened, failed
  <2> QED
    BY <1>4, <1>5, <2>1, <2>2
<1>12. CASE SmbcNext
  <2>1. smbc.left \in SUBSET Name
    BY DEF AskInv, SmbcType
  <2> DEFINE taken(n) == [smbc EXCEPT !.left = @ \ {n}]
             past == [smbc EXCEPT !.root = FALSE]
             ended == [smbc EXCEPT !.state = "finished"]
  <2>2. \/ \E n \in Name : Event(taken(n), dnssd, wsd, {n}, FALSE) /\ found' = found \cup {n}
        \/ \E n \in Name : Event(taken(n), dnssd, wsd, {}, FALSE) /\ found' = found \cup {}
        \/ Event(past, dnssd, wsd, {}, FALSE) /\ found' = found \cup {}
        \/ Event(ended, dnssd, wsd, {}, TRUE) /\ found' = found \cup {}
    BY <1>12, <2>1 DEF SmbcNext, Known
  <2> HIDE DEF taken, past, ended
  <2> QED
    BY <1>4, <1>5, <2>2
<1>6. ASSUME NEW s \in Service, DnssdAdded(s) PROVE ListInv'
  <2> DEFINE d == [dnssd EXCEPT !.services = @ \cup {s}]
  <2>1. browse.pc = "loop" /\ wsd.state = "started" /\ Event(smbc, d, wsd, {}, FALSE) /\ found' = found \cup {s}
    BY <1>6 DEF DnssdAdded, Browsing, BrowseAt, Known
  <2>2. d \in DnssdType /\ d.services = dnssd.services \cup {s} /\ d.resolved = dnssd.resolved /\ d.count = dnssd.count
    BY <1>3, <2>1 DEF DnssdType
  <2> HIDE DEF d
  <2>3. IsFiniteSet(d.services)
    BY <1>3, <2>1, <2>2, FS_AddElement DEF Discovering
  <2>4. Discovering(found', d, wsd, discoveredNames \cup {})
    BY <1>3, <2>1, <2>2, <2>3 DEF Discovering
  <2> QED
    BY <1>3, <1>4, <2>1, <2>2, <2>4, EventLists
<1>7. ASSUME NEW s \in Service, DnssdResolved(s) PROVE ListInv'
  <2> DEFINE d == [dnssd EXCEPT !.count = @ + 1, !.resolved = @ \cup {s}]
  <2>1. /\ browse.pc = "loop" /\ wsd.state = "started" /\ Event(smbc, d, wsd, {s}, DnssdFinished(d)) /\ found' = found
        /\ s \in dnssd.services /\ s \notin dnssd.resolved
    BY <1>7 DEF DnssdResolved, Browsing, BrowseAt, Known
  <2> DEFINE k == dnssd.count + 1
  <2>2. k \in Nat /\ d = [dnssd EXCEPT !.count = k, !.resolved = dnssd.resolved \cup {s}]
    BY <1>3, <2>1
  <2> HIDE DEF k
  <2>3. d \in DnssdType /\ d.services = dnssd.services /\ d.resolved = dnssd.resolved \cup {s} /\ d.count = k
    BY <1>3, <2>1, <2>2 DEF DnssdType
  <2>4. IsFiniteSet(dnssd.resolved) /\ dnssd.count = Cardinality(dnssd.resolved)
    <3>1. dnssd.resolved \in SUBSET dnssd.services /\ IsFiniteSet(dnssd.services) /\ dnssd.count = Cardinality(dnssd.resolved)
      BY <1>3, <2>1 DEF Discovering
    <3> QED
      BY <3>1, FS_Subset
  <2>5. Cardinality(dnssd.resolved \cup {s}) = dnssd.count + 1
    BY ZenonT(90), <2>1, <2>4, FS_AddElement
  <2>6. d.count = Cardinality(d.resolved)
    BY <2>3, <2>5 DEF k
  <2> HIDE DEF d
  <2>7. Discovering(found', d, wsd, discoveredNames \cup {s})
    BY <1>3, <2>1, <2>3, <2>6 DEF Discovering
  <2>8. s \in Name
    BY BrowseAssumption
  <2> QED
    BY <1>3, <1>4, <2>1, <2>3, <2>7, <2>8, EventLists
<1>8. CASE DnssdStop
  <2> DEFINE d == [dnssd EXCEPT !.disconnected = TRUE]
  <2>1. browse.pc = "loop" /\ Event(smbc, d, wsd, {}, DnssdFinished(d)) /\ found' = found
    BY <1>8 DEF DnssdStop, Browsing, BrowseAt, Known
  <2>2. d \in DnssdType /\ d.services = dnssd.services /\ d.resolved = dnssd.resolved /\ d.count = dnssd.count
    BY <1>3, <2>1 DEF DnssdType
  <2> HIDE DEF d
  <2>3. Discovering(found', d, wsd, discoveredNames \cup {})
    BY <1>3, <2>1, <2>2 DEF Discovering
  <2> QED
    BY <1>3, <1>4, <2>1, <2>2, <2>3, EventLists
<1>9. ASSUME NEW w \in WsdType, NEW emitted, browse.pc = "loop", wsd.state = "started", Event(smbc, dnssd, w, {}, emitted),
             w.state = wsd.state, wsd.pbsd \subseteq w.pbsd, found' = found \cup Computers(w.pbsd)
      PROVE  ListInv'
  <2>1. Discovering(found', dnssd, w, discoveredNames \cup {})
    <3>1. found' = discoveredNames \cup dnssd.services \cup Computers(w.pbsd)
      BY <1>3, <1>9 DEF Discovering, Computers
    <3> QED
      BY <1>3, <1>9, <3>1 DEF Discovering
  <2> QED
    BY <1>3, <1>4, <1>9, <2>1, EventLists
<1>10. ASSUME NEW e \in Endpoint, PbsdResolved(e) PROVE ListInv'
  <2> DEFINE w == [wsd EXCEPT !.pbsd = @ \ {e}]
             name == ComputerOf[e]
  <2>1. browse.pc = "loop" /\ wsd.state = "started" /\ e \in wsd.pbsd /\ Event(smbc, dnssd, w, {name}, WsdFinished(w)) /\ found' = found
    BY <1>10 DEF PbsdResolved, Browsing, BrowseAt, Known
  <2>2. w \in WsdType /\ w.state = wsd.state /\ w.pbsd = wsd.pbsd \ {e}
    BY <1>3, <2>1 DEF WsdType
  <2>3. Computers(wsd.pbsd) = Computers(w.pbsd) \cup {name}
    BY <2>1, <2>2 DEF Computers
  <2>4. name \in Name
    BY BrowseAssumption
  <2> HIDE DEF w, name
  <2>5. Discovering(found', dnssd, w, discoveredNames \cup {name})
    BY <1>3, <2>1, <2>2, <2>3 DEF Discovering
  <2> QED
    BY <1>3, <1>4, <2>1, <2>2, <2>4, <2>5, EventLists
<1>13. ASSUME browse.pc = "loop" PROVE found = found \cup Computers(wsd.pbsd)
  BY <1>3, <1>13 DEF Discovering
<1>14. ASSUME NEW w \in WsdType, NEW e \in Endpoint, NEW r \in BOOLEAN, w.pbsd = wsd.pbsd, w.seen = wsd.seen, w.state = wsd.state, browse.pc = "loop"
       PROVE  LET x == ResolveReceived(w, e, r)
              IN  /\ x \in WsdType /\ x.state = wsd.state /\ wsd.pbsd \subseteq x.pbsd
                  /\ found \cup NewComputer(wsd, e, r) = found \cup Computers(x.pbsd)
  <2> DEFINE x == [w EXCEPT !.seen = @ \cup {e}, !.pbsd = IF r THEN @ \cup {e} ELSE @]
  <2>1. x \in WsdType /\ x.state = wsd.state /\ x.pbsd = (IF r THEN wsd.pbsd \cup {e} ELSE wsd.pbsd)
    BY <1>14 DEF WsdType
  <2>2. ResolveReceived(w, e, r) = IF e \in wsd.seen THEN w ELSE x
    BY <1>14 DEF ResolveReceived
  <2> HIDE DEF x
  <2>3. Computers(wsd.pbsd \cup {e}) = Computers(wsd.pbsd) \cup {ComputerOf[e]}
    BY DEF Computers
  <2> QED
    BY <1>13, <1>14, <2>1, <2>2, <2>3 DEF NewComputer
<1>15. ASSUME NEW e \in Endpoint, NEW a \in BOOLEAN, NEW r \in BOOLEAN, WsdMatch(e, a, r) PROVE ListInv'
  <2>1. browse.pc = "loop" /\ wsd.state = "started"
    BY <1>15 DEF WsdMatch, Browsing, BrowseAt
  <2>2. CASE a
    <3>1. Event(smbc, dnssd, ResolveReceived(wsd, e, r), {}, FALSE) /\ found' = found \cup NewComputer(wsd, e, r)
      BY <1>15, <2>2 DEF WsdMatch, Known
    <3> QED
      BY <1>3, <1>9, <1>14, <2>1, <3>1
  <2>3. CASE ~a
    <3> DEFINE w == [wsd EXCEPT !.resolving = @ \cup {e}]
    <3>1. Event(smbc, dnssd, w, {}, FALSE) /\ found' = found
      BY <1>15, <2>3 DEF WsdMatch, Known
    <3>2. w \in WsdType /\ w.state = wsd.state /\ w.pbsd = wsd.pbsd
      BY <1>3, <2>1 DEF WsdType
    <3> HIDE DEF w
    <3> QED
      BY <1>9, <1>13, <2>1, <3>1, <3>2
  <2> QED
    BY <2>2, <2>3
<1>16. ASSUME NEW e \in Endpoint, NEW r \in BOOLEAN, WsdResolveMatch(e, r) PROVE ListInv'
  <2> DEFINE x == ResolveReceived(wsd, e, r)
             w == [x EXCEPT !.resolving = @ \ {e}]
  <2>1. browse.pc = "loop" /\ wsd.state = "started" /\ Event(smbc, dnssd, w, {}, WsdFinished(w)) /\ found' = found \cup NewComputer(wsd, e, r)
    BY <1>16 DEF WsdResolveMatch, Browsing, BrowseAt, Known
  <2>2. x \in WsdType /\ x.state = wsd.state /\ wsd.pbsd \subseteq x.pbsd /\ found' = found \cup Computers(x.pbsd)
    BY <1>3, <1>14, <2>1
  <2> HIDE DEF x
  <2>3. w \in WsdType /\ w.state = wsd.state /\ w.pbsd = x.pbsd
    BY <2>2 DEF WsdType
  <2> HIDE DEF w
  <2> QED
    BY <1>9, <2>1, <2>2, <2>3
<1>17. ASSUME NEW e \in Endpoint, WsdResolverStop(e) PROVE ListInv'
  <2> DEFINE w == [wsd EXCEPT !.resolving = @ \ {e}]
  <2>1. browse.pc = "loop" /\ wsd.state = "started" /\ Event(smbc, dnssd, w, {}, WsdFinished(w)) /\ found' = found
    BY <1>17 DEF WsdResolverStop, Browsing, BrowseAt, Known
  <2>2. w \in WsdType /\ w.state = wsd.state /\ w.pbsd = wsd.pbsd
    BY <1>3, <2>1 DEF WsdType
  <2> HIDE DEF w
  <2> QED
    BY <1>9, <1>13, <2>1, <2>2
<1>18. CASE WsdStop
  <2> DEFINE w == [wsd EXCEPT !.probing = FALSE]
  <2>1. browse.pc = "loop" /\ wsd.state = "started" /\ Event(smbc, dnssd, w, {}, StopEmits(w)) /\ found' = found
    BY <1>18 DEF WsdStop, Browsing, BrowseAt, Known
  <2>2. w \in WsdType /\ w.state = wsd.state /\ w.pbsd = wsd.pbsd
    BY <1>3, <2>1 DEF WsdType
  <2> HIDE DEF w
  <2> QED
    BY <1>9, <1>13, <2>1, <2>2
<1> QED
  BY <1>1, <1>6, <1>7, <1>8, <1>10, <1>11, <1>12, <1>15, <1>16, <1>17, <1>18 DEF Loop

(* The commands around the loop: what is known has been sent.              *)
LEMMA CommandLists ==
  ASSUME BrowseEvents = {}, AskInv, ListInv,
         \/ CheckRequest \/ StatPath \/ FileSystemFreeSpace \/ CheckPassword \/ StartListing \/ AfterListing
         \/ \E command \in {"stat", "list", "space"}, url \in Url : StartBrowse(command, url)
  PROVE  ListInv'
<1>1. NoDnssd \in DnssdType /\ NoDnssd.services = {} /\ NoDnssd.resolved = {} /\ NoDnssd.count = 0
  BY DEF NoDnssd, DnssdType
<1>2. NoWsd \in WsdType /\ NoWsd.state = "none" /\ NoWsd.pbsd = {}
  BY DEF NoWsd, WsdType
<1>3. CASE StartListing
  <2> DEFINE probing == [NoWsd EXCEPT !.state = "started", !.probing = TRUE]
  <2>1. probing \in WsdType /\ probing.state = "started" /\ probing.pbsd = {}
    BY <1>2 DEF WsdType
  <2>2. /\ list' = {} /\ listed' = << >> /\ discoveredNames' = {} /\ found' = {} /\ dnssd' = NoDnssd
        /\ wsd' = (IF GetType(browse.url) = "network" THEN probing ELSE NoWsd) /\ browse' = [browse EXCEPT !.pc = "loop"]
    BY <1>3 DEF StartListing, BrowseGoto
  <2> HIDE DEF probing
  <2>3. browse'.pc = "loop" /\ browse'.url = browse.url
    BY <2>2 DEF AskInv, BrowseType
  <2>4. << >> \in Seq(Name) /\ IsInjective(<< >>) /\ ToSet(<< >>) = {} /\ IsFiniteSet({}) /\ Cardinality({}) = 0
    BY FS_EmptySet DEF IsInjective, ToSet
  <2>5. Discovering({}, dnssd', wsd', {})
    BY <1>1, <1>2, <2>1, <2>2, <2>4 DEF Discovering, Computers
  <2> QED
    BY <1>1, <1>2, <2>1, <2>2, <2>3, <2>4, <2>5 DEF ListInv, Discovering
<1>4. ASSUME ~StartListing PROVE browse.pc # "loop" /\ browse'.pc # "loop" /\ UNCHANGED <<list, listed, found>>
  <2>1. NoBrowse \in BrowseType /\ NoBrowse.pc = "idle" /\ browse \in BrowseType
    BY RootIsUrl DEF NoBrowse, BrowseType, BrowsePcs, AskInv
  <2>2. CASE CheckRequest
    BY <2>1, <2>2 DEF CheckRequest, BrowseGoto, BrowseAt, loopVars, BrowseType, AskInv
  <2>3. CASE StatPath \/ FileSystemFreeSpace \/ CheckPassword \/ AfterListing
    BY <2>1, <2>3 DEF StatPath, FileSystemFreeSpace, CheckPassword, AfterListing, Failed, BrowseGoto, BrowseAt, BrowseResult, loopVars, BrowseType
  <2>4. CASE \E command \in {"stat", "list", "space"}, url \in Url : StartBrowse(command, url)
    BY <2>1, <2>4 DEF StartBrowse, BrowseAt, loopVars, BrowseType
  <2> QED
    BY <1>4, <2>2, <2>3, <2>4
<1>5. (dnssd' \in {dnssd, NoDnssd} /\ wsd' \in {wsd, NoWsd}) \/ StartListing
  BY DEF CheckRequest, StatPath, FileSystemFreeSpace, CheckPassword, AfterListing, StartBrowse, loopVars
<1> QED
  BY <1>1, <1>2, <1>3, <1>4, <1>5 DEF ListInv

(* A listing that passes shows every name that a discoverer knew of, and   *)
(* shows it once: maybeFinished() ends the loop after the last discoverer, *)
(* appendDiscovery() drops what another has found.                         *)
THEOREM SmbEachListedOnce ==
  ASSUME BrowseEvents = {}
  PROVE  BrowseSpec => []EachListedOnce
<1>1. BrowseInit => AskInv
  BY AskInit
<1>2. BrowseInit => ListInv
  <2>1. NoDnssd \in DnssdType /\ NoWsd \in WsdType /\ NoBrowse.pc = "idle"
    BY DEF NoDnssd, DnssdType, NoWsd, WsdType, NoBrowse
  <2>2. << >> \in Seq(Name) /\ IsInjective(<< >>) /\ ToSet(<< >>) = {} /\ IsFiniteSet({})
    BY FS_EmptySet DEF IsInjective, ToSet
  <2> QED
    BY <2>1, <2>2 DEF BrowseInit, ListInv
<1>3. AskInv /\ [BrowseNext]_browseVars => AskInv'
  BY AskStep
<1>4. AskInv /\ ListInv /\ [BrowseNext]_browseVars => ListInv'
  <2>1. ListInv /\ UNCHANGED browseVars => ListInv'
    BY DEF browseVars, loopVars, ListInv, Discovering
  <2> QED
    BY <2>1, LoopLists, CommandLists DEF BrowseNext, Work
<1>5. ListInv => EachListedOnce
  BY DEF ListInv, EachListedOnce, BrowseAt
<1> QED
  BY <1>1, <1>2, <1>3, <1>4, <1>5, PTL DEF BrowseSpec

(* Both halves of what a listing promises.                                 *)
THEOREM SmbListingRight ==
  ASSUME BrowseEvents = {}
  PROVE  BrowseSpec => []ListingRight
<1>1. BrowseSpec => []EachListedOnce
  BY SmbEachListedOnce
<1>2. EachListedOnce /\ NotAskedTwice => ListingRight
  BY DEF ListingRight
<1> QED
  BY <1>1, <1>2, SmbNotAskedTwice, PTL

-----------------------------------------------------------------------------
(* Renaming                                                                *)

(* What rename() knows of its destination before it asks the server: with  *)
(* no overwriting allowed and a stat that has not failed there is nothing, *)
(* or it is the source.                                                    *)
RenameInv ==
  /\ tree \in [Keys -> Entry \union {NoEntry}]
  /\ renameSrc \in EntryName /\ renameDst \in EntryName
  /\ namesPc \in {"idle", "statSrc", "statDst", "rename"}
  /\ namesPc = "statSrc" => Folded[renameSrc] = Folded[renameDst]
  /\ namesPc = "statDst" =>
       srcStat \in IF Folded[renameSrc] = Folded[renameDst] THEN Stat(renameDst) ELSE {NoEntry}
  /\ namesPc = "rename" /\ ~overwrite /\ ~dstUnseen =>
       tree[Key(renameDst)] = NoEntry \/ (GoodInodes /\ Folded[renameSrc] = Folded[renameDst])

LEMMA KeysAreThere == \A n \in EntryName : Key(n) \in Keys
BY DEF Keys

(* What is there is no NoEntry, and what the server says of it is not,     *)
(* either.                                                                 *)
LEMMA EntriesAreThere ==
  ASSUME RenameInv, NEW n \in EntryName
  PROVE  /\ tree[Key(n)] = NoEntry => cache_stat(n) = NoEntry
         /\ tree[Key(n)] # NoEntry /\ GoodInodes => cache_stat(n) # NoEntry /\ cache_stat(n).ino \in Inode
         /\ tree[Key(n)] # NoEntry /\ ~GoodInodes => cache_stat(n) # NoEntry /\ cache_stat(n).ino = BadInode
         /\ BadInode \notin Inode
<1>1. BadInode \notin Inode
  BY InodeAssumption DEF BadInode
<1>2. tree[Key(n)] \in Entry \union {NoEntry}
  BY KeysAreThere DEF RenameInv
<1> QED
  BY <1>1, <1>2, NoEntryAssumption DEF cache_stat, Entry, BadInode

(* A stat that finds the destination in the way of the source: only inodes *)
(* that the server reports and names that differ in case make it pass.     *)
LEMMA InTheWay ==
  ASSUME RenameInv, RenameStatDst
  PROVE  /\ namesPc' \in {"idle", "rename"}
         /\ namesPc' = "rename" /\ ~overwrite /\ ~dstUnseen' =>
              tree[Key(renameDst)] = NoEntry \/ (GoodInodes /\ Folded[renameSrc] = Folded[renameDst])
<1> DEFINE seen == cache_stat(renameDst)
<1>1. /\ tree[Key(renameDst)] = NoEntry => seen = NoEntry
      /\ tree[Key(renameDst)] # NoEntry /\ GoodInodes => seen # NoEntry /\ seen.ino \in Inode
      /\ tree[Key(renameDst)] # NoEntry /\ ~GoodInodes => seen # NoEntry /\ seen.ino = BadInode
  BY EntriesAreThere DEF RenameInv
<1>2. namesPc = "statDst" /\ (Folded[renameSrc] # Folded[renameDst] => srcStat = NoEntry)
  BY DEF RenameInv, RenameStatDst
<1>3. PICK st \in Stat(renameDst) :
        /\ \/ namesPc' = "idle"
           \/ namesPc' = "rename" /\ (overwrite \/ st = NoEntry \/ sameInodeStat(srcStat, st))
        /\ dstUnseen' = (st # seen)
  BY DEF RenameStatDst, NamesFinish
<1> HIDE DEF seen
<1>4. ASSUME st = seen, st = NoEntry \/ sameInodeStat(srcStat, st), tree[Key(renameDst)] # NoEntry
      PROVE  GoodInodes /\ Folded[renameSrc] = Folded[renameDst]
  <2>1. CASE sameInodeStat(srcStat, st)
    BY <1>1, <1>2, <1>4, <2>1 DEF sameInodeStat
  <2>2. CASE st = NoEntry
    BY <1>1, <1>4, <2>2, ServerAssumption
  <2> QED
    BY <1>4, <2>1, <2>2
<1>5. CASE st = seen
  BY <1>3, <1>4, <1>5
<1>6. CASE st # seen
  <2>1. dstUnseen'
    BY <1>3, <1>6, Zenon
  <2> QED
    BY <1>3, <2>1
<1> QED
  BY <1>5, <1>6

LEMMA RenameStart == NamesInit => RenameInv
BY DEF NamesInit, RenameInv

LEMMA RenameStep == ASSUME RenameInv, [NamesNext]_namesVars PROVE RenameInv'
<1>1. ASSUME NEW s \in EntryName, NEW d \in EntryName, NEW ov \in BOOLEAN, Rename(s, d, ov) PROVE RenameInv'
  BY <1>1 DEF Rename, RenameInv, Stat, cache_stat, Key, Keys
<1>2. CASE RenameStatSrc
  BY <1>2 DEF RenameStatSrc, RenameInv, Stat, cache_stat, Key, Keys
<1>3. CASE RenameStatDst
  BY <1>3, InTheWay DEF RenameStatDst, RenameInv, Key, Keys
<1>4. CASE RenameDone
  <2>1. tree' \in [Keys -> Entry \union {NoEntry}]
    BY <1>4, KeysAreThere DEF RenameDone, ServerRenames, RenameInv, Keys
  <2> QED
    BY <1>4, <2>1 DEF RenameDone, NamesFinish, RenameInv, Key, Keys
<1>5. CASE RenameFailed
  BY <1>5 DEF RenameFailed, NamesFinish, RenameInv, Key, Keys
<1>6. ASSUME NEW n \in EntryName, NEW isfile \in BOOLEAN, Del(n, isfile) PROVE RenameInv'
  BY <1>6, KeysAreThere DEF Del, NamesFinish, RenameInv, Key, Keys
<1>7. ASSUME NEW n \in EntryName, Mkdir(n) PROVE RenameInv'
  <2>1. tree' \in [Keys -> Entry \union {NoEntry}]
    <3>1. tree \in [Keys -> Entry \union {NoEntry}] /\ Key(n) \in Keys /\ Keys' = Keys
      BY KeysAreThere DEF RenameInv, Keys, Key
    <3>2. CASE tree' = tree
      BY <3>1, <3>2
    <3>3. CASE \E i \in Inode : tree' = [tree EXCEPT ![Key(n)] = [kind |-> "dir", ino |-> i]]
      <4>1. PICK i \in Inode : tree' = [tree EXCEPT ![Key(n)] = [kind |-> "dir", ino |-> i]]
        BY <3>3
      <4>2. [kind |-> "dir", ino |-> i] \in Entry
        BY DEF Entry
      <4> QED
        BY <3>1, <4>1, <4>2
    <3> QED
      BY <1>7, <3>2, <3>3 DEF Mkdir
  <2> QED
    BY <1>7, <2>1 DEF Mkdir, NamesFinish, RenameInv, Key, Keys
<1>8. CASE UNCHANGED namesVars
  BY <1>8 DEF namesVars, RenameInv, Stat, cache_stat, Key, Keys
<1> QED
  BY <1>1, <1>2, <1>3, <1>4, <1>5, <1>6, <1>7, <1>8 DEF NamesNext

(* What a step of rename() costs: the file at its new name, and that only  *)
(* if it may overwrite it or has not seen it.                              *)
Lost(k) == tree[k] # NoEntry /\ tree[k].ino \notin InUse'

LEMMA StepDestroysNothing ==
  ASSUME ~CaseSensitive \/ ~GoodInodes, RenameInv, NamesNext, namesPc = "rename", NEW k \in Keys, Lost(k)
  PROVE  k = Key(renameDst) /\ tree[k].kind = "file" /\ (overwrite \/ dstUnseen)
<1>1. RenameDone \/ RenameFailed
  BY DEF NamesNext, Rename, RenameStatSrc, RenameStatDst, Del, Mkdir
<1>2. CASE RenameFailed
  BY <1>2 DEF RenameFailed, InUse, Key, Keys, Lost
<1>3. CASE RenameDone
  <2> DEFINE s == Key(renameSrc)
             d == Key(renameDst)
  <2>1. s \in Keys /\ d \in Keys /\ tree \in [Keys -> Entry \union {NoEntry}]
    BY KeysAreThere DEF RenameInv
  <2>2. /\ tree[s] # NoEntry /\ tree' = [tree EXCEPT ![s] = NoEntry, ![d] = tree[s]]
        /\ s # d /\ tree[d] # NoEntry => tree[d].kind = "file"
    BY <1>3 DEF RenameDone, ServerRenames
  <2>3. overwrite \/ dstUnseen \/ tree[d] = NoEntry \/ s = d
    BY DEF RenameInv, Key
  <2> HIDE DEF s, d
  <2>4. \A l \in Keys : tree'[l] = IF l = d THEN tree[s] ELSE IF l = s THEN NoEntry ELSE tree[l]
    BY <2>1, <2>2
  <2>5. Keys' = Keys
    BY DEF Keys, Key
  <2>6. \A l \in Keys : tree'[l] # NoEntry => tree'[l].ino # tree[k].ino
    BY <2>5 DEF InUse, Lost
  <2>7. k # s
    BY <2>1, <2>2, <2>4, <2>6
  <2>8. k = d
    BY <2>4, <2>6, <2>7 DEF Lost
  <2> QED
    BY <2>2, <2>3, <2>7, <2>8 DEF Lost, d
<1> QED
  BY <1>1, <1>2, <1>3

LEMMA StepCaseRename ==
  ASSUME RenameInv, NamesNext, ~CaseSensitive, GoodInodes, Key(renameSrc) = Key(renameDst), namesPc = "statDst",
         srcStat = NoEntry => tree[Key(renameDst)] = NoEntry
  PROVE  namesPc' = "rename"
<1>1. RenameStatDst
  BY DEF NamesNext, Rename, RenameStatSrc, RenameDone, RenameFailed, Del, Mkdir
<1>2. srcStat \in Stat(renameDst)
  BY DEF RenameInv, Key
<1>3. srcStat = NoEntry \/ (srcStat.ino \in Inode /\ BadInode \notin Inode)
  BY <1>2, EntriesAreThere DEF RenameInv, Stat
<1>4. srcStat = NoEntry \/ sameInodeStat(srcStat, srcStat)
  BY <1>3 DEF sameInodeStat
<1>5. srcStat = NoEntry => cache_stat(renameDst) = NoEntry
  BY EntriesAreThere DEF RenameInv
<1>6. \A st \in Stat(renameDst) : st = NoEntry \/ st = srcStat
  BY <1>2, <1>5 DEF Stat
<1> QED
  BY <1>1, <1>4, <1>6 DEF RenameStatDst

(* Renaming costs at most the file that the new name stood for, and that   *)
(* only with KIO::Overwrite or when the stat of it has failed; and a name  *)
(* can be changed in its case only: on every server that ignores case or   *)
(* tells no inodes, whichever stats fail.  On one that compares names      *)
(* exactly and tells inodes the stat that is meant to be of the source is  *)
(* made of the destination (kio_smb_dir.cpp), and the first part is false. *)
THEOREM SmbRenamesRight == ASSUME ~CaseSensitive \/ ~GoodInodes PROVE NamesSpec => RenamesRight
<1>1. RenameInv /\ [NamesNext]_namesVars => RenameInv'
  BY RenameStep
<1>2. RenameInv /\ [NamesNext]_namesVars =>
        [namesPc = "rename" => \A k \in Keys : tree[k] # NoEntry /\ tree[k].ino \notin InUse' =>
           k = Key(renameDst) /\ tree[k].kind = "file" /\ (overwrite \/ dstUnseen)]_namesVars
  BY StepDestroysNothing DEF Lost
<1>3. RenameInv /\ [NamesNext]_namesVars =>
        [(/\ ~CaseSensitive /\ GoodInodes /\ Key(renameSrc) = Key(renameDst) /\ namesPc = "statDst"
          /\ srcStat = NoEntry => tree[Key(renameDst)] = NoEntry) => namesPc' = "rename"]_namesVars
  BY StepCaseRename
<1> QED
  BY <1>1, <1>2, <1>3, RenameStart, PTL DEF NamesSpec, RenamesRight, RenameDestroysNothing, CaseRenameAllowed
=============================================================================
