--------------------------- MODULE NfsCopy_proofs ---------------------------
(***************************************************************************)
(* Proofs about the NFS worker.  Its transfers (NfsCopy), for every length *)
(* of the source, threshold for part files and number of jobs: what they   *)
(* promise as long as none of the events happens that it does not look at. *)
(* Its choice of server (NfsSession), for every set of hosts and users and *)
(* any number of operations.  Its messages (NfsXdr), for every message the *)
(* two protocols have: the reader retraces the walk of the writer.  Its    *)
(* handles (NfsHandles), for every set of names and of exports and any     *)
(* number of objects and operations, as long as no folder is renamed and   *)
(* no lookup fails after a rename.                                         *)
(***************************************************************************)
EXTENDS NfsCopy, Nfs, NfsXdr, SequenceTheorems, TLAPS

(* The beginnings of the source, by their length. *)
Beginning(n) == [i \in 1 .. n |-> i]
IsBeginning(f) == \E n \in 0 .. Chunks : f = Beginning(n)

(* A beginning of the source is a file; the next chunk of the source,      *)
(* written at its end, makes it the next one.                              *)
LEMMA BeginningFacts ==
  ASSUME NEW n \in 0 .. Chunks
  PROVE  /\ SubSeq(Source, 1, n) = Beginning(n)
         /\ Beginning(n) \in Seq(0 .. Chunks)
         /\ Len(Beginning(n)) = n
         /\ PrefixOfSource(Beginning(n))
<1>1. /\ SubSeq(Source, 1, n) = Beginning(n)
      /\ Beginning(n) \in Seq(0 .. Chunks)
      /\ Len(Beginning(n)) = n
  BY CopyAssumption DEF Source, Beginning
<1> QED
  BY <1>1 DEF PrefixOfSource

LEMMA BeginningSize ==
  ASSUME NEW n \in 0 .. Chunks
  PROVE  Size(Beginning(n)) = n
  BY BeginningFacts, CopyAssumption DEF Size

LEMMA BeginningGrows ==
  ASSUME NEW n \in 0 .. Chunks, n < Chunks
  PROVE  WriteAt(Beginning(n), n, Source[n + 1]) = Beginning(n + 1)
  BY CopyAssumption DEF WriteAt, Beginning, Source

LEMMA BeginningEnds ==
  /\ Beginning(0) = << >>
  /\ Beginning(Chunks) = Source
  BY CopyAssumption DEF Beginning, Source

-----------------------------------------------------------------------------
(* The worker has its sizes, and every call that goes wrong says so.       *)
AllReported == ListedFirst /\ Events = {}

(* Where an operation can be, and that it has asked before it writes.      *)
ControlInv ==
  /\ op \in {"none", "copyFrom", "copySame", "copyTo", "put"}
  /\ op = "none" => pc = "end" /\ jobs = 0
  /\ pc \in {"check", "resume", "create", "copy", "remove", "rename", "end"}
  /\ pc = "resume" => op # "put"
  /\ pc \in {"check", "resume", "create"} => pos = 0 /\ at = 0
  /\ pc \in {"check", "resume"} => ~bResume
  /\ pc \in {"remove", "rename"} => UsesPart
  /\ pc \notin {"check", "end"} => old = NoFile \/ flags.overwrite

(* What is being written is a beginning of the source as long as what has  *)
(* been read; a part file is whole when the destination makes room for it. *)
DataInv ==
  /\ part # NoFile => IsBeginning(part)
  /\ pc = "create" /\ bResume => UsesPart /\ part # NoFile /\ partSize = Len(part)
  /\ pc = "copy" => Written = Beginning(pos) /\ at = pos /\ pos \in 0 .. Chunks
  /\ pc \in {"remove", "rename"} => part = Source

(* The old destination stays until the part file is whole.                 *)
OldInv ==
  /\ pc \in {"check", "resume", "create", "remove"} \/ (pc = "copy" /\ UsesPart) => dst = old
  /\ pc = "rename" => dst \in {old, NoFile}

TransferInv ==
  AllReported => /\ known /\ ControlInv /\ DataInv /\ OldInv
                 /\ SuccessIsComplete /\ ContentSafe /\ NoUninvitedOverwrite

LEMMA InitInv == TransferInit => TransferInv
<1> SUFFICES ASSUME TransferInit PROVE TransferInv
  OBVIOUS
<1> QED
  BY DEF TransferInit, TransferInv, AllReported, ControlInv, DataInv, OldInv, SuccessIsComplete, ContentSafe,
         NoUninvitedOverwrite

(* Writing f makes what is written f, and the part file f or what it was.  *)
LEMMA SetWrittenFacts ==
  ASSUME NEW f, SetWritten(f), UNCHANGED <<op, flags>>
  PROVE  /\ Written' = f
         /\ UsesPart' = UsesPart
         /\ part' \in {part, f}
         /\ UsesPart => dst' = dst
         /\ ~UsesPart => dst' = f
  BY DEF SetWritten, Written, UsesPart

LEMMA SameWritten ==
  ASSUME UNCHANGED <<dst, part, op, flags>>
  PROVE  Written' = Written /\ UsesPart' = UsesPart
  BY DEF Written, UsesPart

LEMMA StepInv == TransferInv /\ [TransferNext]_transferVars => TransferInv'
<1> SUFFICES ASSUME TransferInv, [TransferNext]_transferVars, AllReported PROVE TransferInv'
  BY DEF TransferInv, AllReported
<1> USE DEF TransferInv, ControlInv, DataInv, OldInv, SuccessIsComplete, ContentSafe, NoUninvitedOverwrite
<1>e. Events = {} /\ ListedFirst /\ AllReported'
  BY DEF AllReported
<1>1. CASE StartJob
  <2>1. /\ op' \in {"copyFrom", "copySame", "copyTo", "put"} /\ pc' = "check" /\ old' = dst
        /\ ~bResume' /\ pos' = 0 /\ at' = 0 /\ UNCHANGED <<dst, part, known>>
    BY <1>1 DEF StartJob, fileVars
  <2> QED
    BY <2>1, <1>e
<1>2. CASE CheckFiles
  <2>1. /\ pc = "check" /\ UNCHANGED <<op, flags, old, jobs, dst, part, bResume, partSize, pos, at>> /\ known'
        /\ \/ pc' = "end" /\ result' # "pass"
           \/ /\ dst = NoFile \/ flags.overwrite
              /\ pc' = IF op = "put" THEN "create" ELSE "resume"
    BY <1>2, <1>e DEF CheckFiles, Sees, Return, Goto, jobVars, fileVars
  <2>2. UsesPart' = UsesPart /\ Written' = Written
    BY <2>1, SameWritten
  <2> QED
    BY <2>1, <2>2, <1>e
<1>3. CASE ResumePart
  <2>1. /\ pc = "resume" /\ UNCHANGED <<op, flags, old, jobs, dst, pos, at, known>>
        /\ part' \in {NoFile, part}
        /\ bResume' => part' = part /\ part # NoFile /\ flags.markPartial /\ partSize' = Size(part)
        /\ \/ pc' = "end" /\ result' # "pass"
           \/ pc' = "create"
    BY <1>3, <1>e DEF ResumePart, Sees, Return, Goto, jobVars
  <2>2. UsesPart' = UsesPart
    BY <2>1 DEF UsesPart
  <2>3. part # NoFile => Size(part) = Len(part)
    BY BeginningSize, BeginningFacts DEF IsBeginning
  <2> QED
    BY <2>1, <2>2, <2>3, <1>e DEF UsesPart
<1>4. CASE OpenNew
  <2>1. /\ pc = "create" /\ SetWritten(<< >>) /\ pc' = "copy" /\ known'
        /\ UNCHANGED <<op, flags, old, jobs, bResume, pos, at>>
    BY <1>4 DEF OpenNew, Goto, jobVars
  <2>2. /\ Written' = Beginning(0) /\ part' \in {part, Beginning(0)} /\ 0 \in 0 .. Chunks /\ UsesPart' = UsesPart
        /\ UsesPart => dst' = dst
    BY <2>1, SetWrittenFacts, BeginningEnds, CopyAssumption
  <2> QED
    BY <2>1, <2>2, <1>e DEF IsBeginning
<1>5. CASE OpenPart
  <2>1. /\ pc = "create" /\ bResume /\ pos' = partSize /\ at' = (IF side = "local" THEN Size(part) ELSE partSize)
        /\ pc' = "copy" /\ known' /\ UNCHANGED <<op, flags, old, jobs, dst, part, bResume>>
    BY <1>5 DEF OpenPart, Goto, jobVars, fileVars
  <2>2. /\ UsesPart /\ Written = part
        /\ \E n \in 0 .. Chunks : part = Beginning(n) /\ partSize = n /\ Size(part) = n
    BY <2>1, BeginningFacts, BeginningSize DEF IsBeginning, Written
  <2>3. UsesPart' = UsesPart /\ Written' = Written
    BY <2>1, SameWritten
  <2> QED
    BY <2>1, <2>2, <2>3, <1>e
<1>6. CASE OpenFails
  <2>1. /\ pc = "create" /\ pc' = "end" /\ result' # "pass" /\ UNCHANGED <<op, flags, old, jobs, dst, part, known>>
    BY <1>6 DEF OpenFails, Return, jobVars, fileVars
  <2>2. UsesPart' = UsesPart
    BY <2>1, SameWritten
  <2> QED
    BY <2>1, <2>2, <1>e
<1>7. CASE CopyChunk
  <2>1. /\ pc = "copy" /\ pos < Chunks /\ SetWritten(WriteAt(Written, at, Source[pos + 1]))
        /\ at' = at + 1 /\ pos' = pos + 1 /\ UNCHANGED <<op, flags, old, jobs, pc, known>>
    BY <1>7, <1>e DEF CopyChunk, Stored, jobVars
  <2>2. Written = Beginning(pos) /\ at = pos /\ pos \in 0 .. Chunks
    BY <2>1, <1>e
  <2>3. WriteAt(Written, at, Source[pos + 1]) = Beginning(pos + 1) /\ pos + 1 \in 0 .. Chunks
    BY <2>1, <2>2, BeginningGrows, CopyAssumption
  <2>4. /\ Written' = Beginning(pos + 1) /\ part' \in {part, Beginning(pos + 1)} /\ UsesPart' = UsesPart
        /\ UsesPart => dst' = dst
    BY <2>1, <2>3, SetWrittenFacts
  <2> QED
    BY <2>1, <2>2, <2>3, <2>4, <1>e DEF IsBeginning
<1>8. CASE CopyEnds
  <2>1. /\ pc = "copy" /\ pos >= Chunks /\ UNCHANGED <<op, flags, old, jobs, dst, part, known>>
        /\ IF UsesPart THEN pc' = "remove" ELSE pc' = "end"
    BY <1>8, <1>e DEF CopyEnds, AtEnd, Goto, Return, jobVars, fileVars
  <2>2. Written = Source
    <3>1. Written = Beginning(pos) /\ pos = Chunks
      BY <2>1, <1>e, CopyAssumption
    <3> QED
      BY <3>1, BeginningEnds
  <2>3. UsesPart' = UsesPart
    BY <2>1, SameWritten
  <2> QED
    BY <2>1, <2>2, <2>3, <1>e DEF Written
<1>9. CASE CopyFails
  <2>1. /\ pc = "copy" /\ pc' = "end" /\ result' # "pass" /\ part' \in {NoFile, part}
        /\ UNCHANGED <<op, flags, old, jobs, dst, known>>
    BY <1>9 DEF CopyFails, Return, jobVars
  <2>2. UsesPart' = UsesPart
    BY <2>1 DEF UsesPart
  <2> QED
    BY <2>1, <2>2, <1>e
<1>10. CASE RemoveDestination
  <2>1. /\ pc = "remove" /\ pc' = "rename" /\ dst' \in {dst, NoFile} /\ UNCHANGED <<op, flags, old, jobs, part, known>>
    BY <1>10 DEF RemoveDestination, Goto, jobVars
  <2>2. UsesPart' = UsesPart
    BY <2>1 DEF UsesPart
  <2> QED
    BY <2>1, <2>2, <1>e
<1>11. CASE RenamePart
  <2>1. /\ pc = "rename" /\ pc' = "end" /\ UNCHANGED <<op, flags, old, jobs, known>>
        /\ \/ dst' = part /\ part' = NoFile
           \/ UNCHANGED <<dst, part>> /\ result' # "pass"
    BY <1>11 DEF RenamePart, Return, jobVars, fileVars
  <2>2. UsesPart' = UsesPart
    BY <2>1 DEF UsesPart
  <2> QED
    BY <2>1, <2>2, <1>e
<1>12. CASE Crash
  <2>1. /\ pc # "end" /\ pc' = "end" /\ result' # "pass" /\ known' /\ UNCHANGED <<op, flags, old, jobs, dst, part>>
    BY <1>12, <1>e DEF Crash, Return, jobVars, fileVars
  <2>2. UsesPart' = UsesPart
    BY <2>1, SameWritten
  <2> QED
    BY <2>1, <2>2, <1>e
<1>13. CASE UNCHANGED transferVars
  <2>1. UNCHANGED <<op, flags, old, jobs, dst, part, pc, bResume, partSize, pos, at, known, result>>
    BY <1>13 DEF transferVars, jobVars, fileVars
  <2>2. Written' = Written /\ UsesPart' = UsesPart
    BY <2>1, SameWritten
  <2> QED
    BY <2>1, <2>2, <1>e
<1> QED
  BY <1>1, <1>2, <1>3, <1>4, <1>5, <1>6, <1>7, <1>8, <1>9, <1>10, <1>11, <1>12, <1>13 DEF TransferNext, TransferStep

LEMMA InvHolds == TransferSpec => []TransferInv
  BY InitInv, StepInv, PTL DEF TransferSpec

-----------------------------------------------------------------------------
(* Every file is one of the chunks of the source and of zeros, and what    *)
(* the job counts stays within the source and one chunk more.              *)
LEMMA OldFilesType == OldFiles \subseteq Seq(0 .. Chunks)
  BY CopyAssumption DEF OldFiles

LEMMA PartType ==
  ASSUME NEW f, f # NoFile => IsBeginning(f)
  PROVE  /\ f \in Seq(0 .. Chunks) \cup {NoFile}
         /\ f # Directory
         /\ Size(f) \in 0 .. Chunks
<1>1. CASE f = NoFile
  BY <1>1, CopyAssumption DEF Size
<1>2. CASE f # NoFile
  <2>1. PICK n \in 0 .. Chunks : f = Beginning(n)
    BY <1>2 DEF IsBeginning
  <2>2. Size(f) = n /\ f \in Seq(0 .. Chunks)
    BY <2>1, BeginningSize, BeginningFacts
  <2> QED
    BY <2>2, CopyAssumption
<1> QED
  BY <1>1, <1>2

TypeInv == AllReported => TransferTypeOK

LEMMA InitType == TransferInit => TypeInv
<1> SUFFICES ASSUME TransferInit PROVE TransferTypeOK
  BY DEF TypeInv
<1>1. /\ dst \in Seq(0 .. Chunks) \cup {NoFile, Directory} /\ old = dst /\ part = NoFile
      /\ bResume = FALSE /\ partSize = 0 /\ pos = 0 /\ at = 0 /\ jobs = 0 /\ known = ListedFirst
  BY OldFilesType DEF TransferInit
<1>2. {dst, part, old} \subseteq Seq(0 .. Chunks) \cup {NoFile, Directory} /\ part # Directory
  BY <1>1, CopyAssumption
<1>3. {partSize, pos, at} \subseteq 0 .. Chunks + 1 /\ jobs \in 0 .. MaxJobs
  BY <1>1, CopyAssumption
<1>4. bResume \in BOOLEAN /\ known \in BOOLEAN
  BY <1>1, CopyAssumption
<1> QED
  BY <1>2, <1>3, <1>4 DEF TransferTypeOK

(* What a step writes to the destination is a beginning of the source, or  *)
(* the part file.                                                          *)
LEMMA StepType == TransferInv /\ TransferInv' /\ TypeInv /\ [TransferNext]_transferVars => TypeInv'
<1> SUFFICES ASSUME TransferInv, TransferInv', TransferTypeOK, [TransferNext]_transferVars, AllReported
             PROVE  TransferTypeOK'
  BY DEF TypeInv, AllReported
<1> DEFINE File == Seq(0 .. Chunks) \cup {NoFile, Directory}
           Count == 0 .. Chunks + 1
<1>e. Events = {} /\ ListedFirst /\ AllReported'
  BY DEF AllReported
<1>t. /\ dst \in File /\ part \in File /\ old \in File /\ partSize \in Count /\ pos \in Count /\ at \in Count
      /\ bResume \in BOOLEAN /\ jobs \in 0 .. MaxJobs
  BY DEF TransferTypeOK
<1>i. DataInv /\ DataInv' /\ known'
  BY <1>e DEF TransferInv
<1>p. /\ Size(part) \in Count
      /\ part' \in File /\ part' # Directory
  <2>1. (part # NoFile => IsBeginning(part)) /\ (part' # NoFile => IsBeginning(part'))
    BY <1>i DEF DataInv, IsBeginning
  <2> QED
    BY <2>1, PartType, CopyAssumption
<1>s. ASSUME dst' \in File, old' \in File, partSize' \in Count, pos' \in Count, at' \in Count, bResume' \in BOOLEAN,
             jobs' \in 0 .. MaxJobs
      PROVE  TransferTypeOK'
  BY <1>s, <1>i, <1>p DEF TransferTypeOK
<1>c. 0 \in Count
  BY CopyAssumption
<1> HIDE DEF File, Count
<1>1. CASE StartJob
  <2>1. jobs' \in 0 .. MaxJobs
    BY <1>1, <1>t, CopyAssumption DEF StartJob
  <2> QED
    BY <1>1, <1>t, <1>s, <1>c, <2>1 DEF StartJob, fileVars
<1>2. CASE CheckFiles
  BY <1>2, <1>t, <1>s DEF CheckFiles, jobVars, fileVars
<1>3. CASE ResumePart
  <2>1. partSize' \in Count /\ bResume' \in BOOLEAN
    BY <1>3, <1>p, <1>c DEF ResumePart
  <2> QED
    BY <1>3, <1>t, <1>s, <2>1 DEF ResumePart, jobVars
<1>4. CASE OpenNew
  <2>1. dst' \in {dst, << >>} /\ << >> \in File
    BY <1>4 DEF OpenNew, SetWritten, File
  <2> QED
    BY <1>4, <1>t, <1>s, <2>1 DEF OpenNew, jobVars
<1>5. CASE OpenPart
  BY <1>5, <1>t, <1>p, <1>s DEF OpenPart, jobVars, fileVars
<1>6. CASE OpenFails
  BY <1>6, <1>t, <1>s DEF OpenFails, jobVars, fileVars
<1>7. CASE CopyChunk
  <2>1. /\ pc = "copy" /\ pos < Chunks /\ SetWritten(WriteAt(Written, at, Source[pos + 1]))
        /\ at' = at + 1 /\ pos' = pos + 1
    BY <1>7, <1>e DEF CopyChunk, Stored
  <2>2. Written = Beginning(pos) /\ at = pos /\ pos \in 0 .. Chunks
    BY <2>1, <1>i DEF DataInv
  <2>3. /\ pos + 1 \in 0 .. Chunks /\ pos + 1 \in Count
        /\ WriteAt(Written, at, Source[pos + 1]) = Beginning(pos + 1)
    BY <2>1, <2>2, BeginningGrows, CopyAssumption DEF Count
  <2>4. dst' \in {dst, Beginning(pos + 1)} /\ Beginning(pos + 1) \in File
    BY <2>1, <2>3, BeginningFacts DEF SetWritten, File
  <2> QED
    BY <1>7, <1>t, <1>s, <2>1, <2>2, <2>3, <2>4 DEF CopyChunk, jobVars
<1>8. CASE CopyEnds
  BY <1>8, <1>e, <1>t, <1>s DEF CopyEnds, jobVars, fileVars
<1>9. CASE CopyFails
  BY <1>9, <1>t, <1>s DEF CopyFails, jobVars
<1>10. CASE RemoveDestination
  <2>1. NoFile \in File
    BY DEF File
  <2> QED
    BY <1>10, <1>t, <1>s, <2>1 DEF RemoveDestination, jobVars
<1>11. CASE RenamePart
  <2>1. dst' \in {dst, part}
    BY <1>11 DEF RenamePart, fileVars
  <2> QED
    BY <1>11, <1>t, <1>s, <2>1 DEF RenamePart, jobVars
<1>12. CASE Crash
  BY <1>12, <1>t, <1>s DEF Crash, jobVars, fileVars
<1>13. CASE UNCHANGED transferVars
  BY <1>13, <1>t, <1>s DEF transferVars, jobVars, fileVars
<1> QED
  BY <1>1, <1>2, <1>3, <1>4, <1>5, <1>6, <1>7, <1>8, <1>9, <1>10, <1>11, <1>12, <1>13 DEF TransferNext, TransferStep

LEMMA TypeHolds == TransferSpec => []TypeInv
<1>1. TransferInv /\ TypeInv /\ [TransferNext]_transferVars => (TransferInv /\ TypeInv)'
  BY StepInv, StepType
<1> QED
  BY <1>1, InitInv, InitType, InvHolds, PTL DEF TransferSpec

-----------------------------------------------------------------------------
(* What a job writes to while it copies, and what it leaves to the next    *)
(* one: a part file is always a beginning of the source, so a job that     *)
(* appends to it where it ends puts the right chunk there; a transfer that *)
(* reports success has put all of the source there, resumed or not.        *)
THEOREM NfsTransfersSound == ASSUME AllReported PROVE TransferSpec => []TransfersSound
<1>1. TransferInv => PartIsPrefix
  BY BeginningFacts DEF TransferInv, DataInv, PartIsPrefix, IsBeginning
<1>2. TransferInv /\ TypeInv => TransfersSound
  BY <1>1 DEF TransferInv, TypeInv, TransfersSound
<1> QED
  BY <1>2, InvHolds, TypeHolds, PTL

(* No sequence of copies and put()s, of their errors and of crashes costs  *)
(* the old destination before the part file holds all of the new one, and  *)
(* without KIO::Overwrite none of them touches what is there.              *)
THEOREM NfsDestinationSafe == ASSUME AllReported PROVE TransferSpec => []DestinationSafe
<1>1. TransferInv => DestinationSafe
  BY DEF TransferInv, DestinationSafe
<1> QED
  BY <1>1, InvHolds, PTL

-----------------------------------------------------------------------------
(* Which server the worker talks to (NfsSession)                           *)

(* The protocol object there is, if any, is of the host and user that      *)
(* setHost() gave last, and knows nothing of any other.                    *)
OwnProtocol(account) == [account : {account}, connected : BOOLEAN, caches : SUBSET {account}]
SessionInv ==
  /\ m_account \in Account
  /\ m_protocol \in OwnProtocol(m_account) \cup {NoProtocol}
  /\ outcome = "pass" => m_protocol # NoProtocol /\ m_protocol.connected

LEMMA OwnIsProtocol ==
  ASSUME NEW account \in Account, NEW p \in OwnProtocol(account) PROVE p # NoProtocol
<1>1. p \in [account : Account, connected : BOOLEAN, caches : SUBSET Account]
  BY DEF OwnProtocol
<1> QED
  BY <1>1, NoProtocolAssumption

(* openConnection() of an object adds exports of its own host only.        *)
LEMMA OpenKeeps ==
  ASSUME NEW account \in Account, NEW p \in OwnProtocol(account), Open(p)
  PROVE  m_protocol' \in OwnProtocol(account) /\ (outcome' = "pass" => m_protocol'.connected)
<1> DEFINE mounted == [p EXCEPT !.caches = @ \cup {p.account}]
<1>1. mounted \in OwnProtocol(account)
  BY DEF OwnProtocol
<1>2. \/ m_protocol' = [mounted EXCEPT !.connected = TRUE]
      \/ outcome' = "ERR_CANNOT_CONNECT" /\ m_protocol' \in {[p EXCEPT !.connected = FALSE], [mounted EXCEPT !.connected = FALSE]}
  BY DEF Open
<1> HIDE DEF mounted
<1> QED
  BY <1>1, <1>2 DEF OwnProtocol

(* "if the host name changes then the protocol will always be deleted and  *)
(* recreated" (kio_nfs.cpp:903): whatever order hosts, users, operations,  *)
(* failures and closed sessions come in, no operation uses a connection,   *)
(* exports or handles of another host or user.                             *)
THEOREM NfsHandlesOfHost == SessionSpec => []HandlesOfHost
<1>1. SessionInit => SessionInv
  BY DEF SessionInit, SessionInv
<1>2. ASSUME SessionInv, [SessionNext]_sessionVars PROVE SessionInv'
  <2>1. ASSUME NEW a \in Account, SetHost(a) PROVE SessionInv'
    BY <1>2, <2>1 DEF SetHost, ProtocolFor, SessionInv
  <2>2. CASE Operation
    <3>1. CASE m_protocol = NoProtocol /\ Open(NewProtocol)
      <4>1. NewProtocol \in OwnProtocol(m_account)
        BY DEF NewProtocol, OwnProtocol
      <4> QED
        BY <1>2, <2>2, <3>1, <4>1, OpenKeeps, OwnIsProtocol DEF Operation, SessionInv
    <3>2. CASE m_protocol' = NoProtocol /\ outcome' # "pass"
      BY <1>2, <2>2, <3>2 DEF Operation, SessionInv
    <3>3. CASE m_protocol # NoProtocol /\ Open(m_protocol)
      BY <1>2, <2>2, <3>3, OpenKeeps, OwnIsProtocol DEF Operation, SessionInv
    <3>4. CASE m_protocol # NoProtocol /\ m_protocol.connected /\ UNCHANGED m_protocol
      BY <1>2, <2>2, <3>4 DEF Operation, SessionInv
    <3> QED
      BY <2>2, <3>1, <3>2, <3>3, <3>4 DEF Operation, FindVersion
  <2>3. CASE UnknownHost \/ ServerChanges \/ UNCHANGED sessionVars
    BY <1>2, <2>3 DEF UnknownHost, ServerChanges, sessionVars, SessionInv
  <2>4. CASE CloseSession
    <3>1. CASE m_protocol = NoProtocol
      BY <1>2, <2>4, <3>1 DEF CloseSession, SessionInv
    <3>2. CASE m_protocol \in OwnProtocol(m_account)
      <4>1. [m_protocol EXCEPT !.connected = FALSE] \in OwnProtocol(m_account)
        BY <3>2 DEF OwnProtocol
      <4> QED
        BY <1>2, <2>4, <3>2, <4>1, OwnIsProtocol DEF CloseSession, SessionInv
    <3> QED
      BY <1>2, <3>1, <3>2 DEF SessionInv
  <2> QED
    BY <1>2, <2>1, <2>2, <2>3, <2>4 DEF SessionNext
<1>3. ASSUME SessionInv PROVE HandlesOfHost
  BY <1>3 DEF SessionInv, HandlesOfHost, OwnProtocol
<1> QED
  BY <1>1, <1>2, <1>3, PTL DEF SessionSpec

-----------------------------------------------------------------------------
(* NFS messages: every stub is made of stubs                               *)

(* A stub calls stubs there are, a choice has an arm for each word that is *)
(* written for it.                                                         *)
StubNames == DOMAIN Encoder
GoodStub(desc) ==
  \/ desc.k = "word"
  \/ desc.k = "struct" /\ desc.fields \in Seq(StubNames)
  \/ desc.k = "bytes" /\ desc.max \in Nat /\ desc.max >= 2
  \/ /\ desc.k = "union" /\ desc.disc \in StubNames
     /\ \A w \in WordChoices(desc.disc) : Arm(desc, w) \in StubNames \ {"refuse"}

(* The tables of NfsXdr hold the stubs, each under its name.               *)
LEMMA TableFacts ==
  LET tables == Tables(EncodePathconf)
  IN  /\ \A i \in DOMAIN tables : DOMAIN tables[i] \subseteq StubNames
      /\ \A n \in StubNames : \E i \in DOMAIN tables : n \in DOMAIN tables[i] /\ Encoder[n] = tables[i][n]
  BY DEF StubNames, Encoder, Stubs

LEMMA TableDomains ==
  /\ DOMAIN Scalars \subseteq StubNames
  /\ DOMAIN Aliases \subseteq StubNames
  /\ DOMAIN Attributes \subseteq StubNames
  /\ DOMAIN Settings \subseteq StubNames
  /\ DOMAIN Getattr \subseteq StubNames
  /\ DOMAIN Lookup \subseteq StubNames
  /\ DOMAIN ReadStubs \subseteq StubNames
  /\ DOMAIN WriteStubs \subseteq StubNames
  /\ DOMAIN Create \subseteq StubNames
  /\ DOMAIN MkdirStubs \subseteq StubNames
  /\ DOMAIN Mknod \subseteq StubNames
  /\ DOMAIN RemoveStubs \subseteq StubNames
  /\ DOMAIN RenameStubs \subseteq StubNames
  /\ DOMAIN Readdir \subseteq StubNames
  /\ DOMAIN Readdirplus \subseteq StubNames
  /\ DOMAIN Fsinfo \subseteq StubNames
  /\ DOMAIN Pathconf(EncodePathconf) \subseteq StubNames
  /\ DOMAIN Commit \subseteq StubNames
  /\ DOMAIN Mount \subseteq StubNames
<1> DEFINE tables == Tables(EncodePathconf)
<1>1. /\ DOMAIN tables = 1 .. 19
      /\ tables[1] = Scalars
      /\ tables[2] = Aliases
      /\ tables[3] = Attributes
      /\ tables[4] = Settings
      /\ tables[5] = Getattr
      /\ tables[6] = Lookup
      /\ tables[7] = ReadStubs
      /\ tables[8] = WriteStubs
      /\ tables[9] = Create
      /\ tables[10] = MkdirStubs
      /\ tables[11] = Mknod
      /\ tables[12] = RemoveStubs
      /\ tables[13] = RenameStubs
      /\ tables[14] = Readdir
      /\ tables[15] = Readdirplus
      /\ tables[16] = Fsinfo
      /\ tables[17] = Pathconf(EncodePathconf)
      /\ tables[18] = Commit
      /\ tables[19] = Mount
  BY DEF Tables
<1>2. \A i \in DOMAIN tables : DOMAIN tables[i] \subseteq StubNames
  BY TableFacts
<1> HIDE DEF tables
<1> QED
  BY <1>1, <1>2

(* The stubs that other stubs call.                                        *)
LEMMA NameFacts ==
  /\ {"bool", "cookie3", "cookieverf3", "createverf3", "fileid3", "filename3", "nfspath3", "uint32", "uint64", "void",
      "word", "writeverf3"} \subseteq StubNames
  /\ {"count3", "ftype3", "gid3", "mode3", "nfs_fh3", "nfsstat3", "nfstime3", "offset3", "size3", "specdata3", "uid3"} \subseteq StubNames
  /\ {"fattr3", "post_op_attr", "post_op_fh3", "pre_op_attr", "wcc_attr", "wcc_data"} \subseteq StubNames
  /\ {"diropargs3", "sattr3", "set_atime", "set_gid3", "set_mode3", "set_mtime", "set_size3", "set_uid3", "time_how"}
      \subseteq StubNames
  /\ {"sattrguard3"} \subseteq StubNames
  /\ {"ACCESS3resok", "LOOKUP3resok"} \subseteq StubNames
  /\ {"READ3resok", "READLINK3resok", "data"} \subseteq StubNames
  /\ {"WRITE3resok", "stable_how"} \subseteq StubNames
  /\ {"CREATE3resok", "createhow3", "createmode3"} \subseteq StubNames
  /\ {"symlinkdata3"} \subseteq StubNames
  /\ {"devicedata3", "mknoddata3"} \subseteq StubNames
  /\ {"bothWcc", "linkWcc"} \subseteq StubNames
  /\ {"READDIR3resok", "dirlist3", "entries", "entry3"} \subseteq StubNames
  /\ {"READDIRPLUS3resok", "dirlistplus3", "entryplus3", "plusEntries"} \subseteq StubNames
  /\ {"FSINFO3resok", "FSSTAT3resok"} \subseteq StubNames
  /\ {"PATHCONF3resok"} \subseteq StubNames
  /\ {"COMMIT3resok"} \subseteq StubNames
  /\ {"dirpath3", "exportnode3", "exports3", "fhandle3", "groupnode3", "groups3", "mountbody3", "mountlist3",
      "mountres3_ok", "mountstat3", "name3"} \subseteq StubNames
<1>1. {"bool", "cookie3", "cookieverf3", "createverf3", "fileid3", "filename3", "nfspath3", "uint32", "uint64",
      "void", "word", "writeverf3"} \subseteq StubNames
  BY TableDomains DEF Scalars
<1>2. {"count3", "ftype3", "gid3", "mode3", "nfs_fh3", "nfsstat3", "nfstime3", "offset3", "size3", "specdata3", "uid3"} \subseteq
      StubNames
  BY TableDomains DEF Aliases
<1>3. {"fattr3", "post_op_attr", "post_op_fh3", "pre_op_attr", "wcc_attr", "wcc_data"} \subseteq StubNames
  BY TableDomains DEF Attributes
<1>4. {"diropargs3", "sattr3", "set_atime", "set_gid3", "set_mode3", "set_mtime", "set_size3", "set_uid3", "time_how"}
      \subseteq StubNames
  BY TableDomains DEF Settings
<1>5. {"sattrguard3"} \subseteq StubNames
  BY TableDomains DEF Getattr
<1>6. {"ACCESS3resok", "LOOKUP3resok"} \subseteq StubNames
  BY TableDomains DEF Lookup
<1>7. {"READ3resok", "READLINK3resok", "data"} \subseteq StubNames
  BY TableDomains DEF ReadStubs
<1>8. {"WRITE3resok", "stable_how"} \subseteq StubNames
  BY TableDomains DEF WriteStubs
<1>9. {"CREATE3resok", "createhow3", "createmode3"} \subseteq StubNames
  BY TableDomains DEF Create
<1>10. {"symlinkdata3"} \subseteq StubNames
  BY TableDomains DEF MkdirStubs
<1>11. {"devicedata3", "mknoddata3"} \subseteq StubNames
  BY TableDomains DEF Mknod
<1>12. {"bothWcc", "linkWcc"} \subseteq StubNames
  BY TableDomains DEF RenameStubs
<1>13. {"READDIR3resok", "dirlist3", "entries", "entry3"} \subseteq StubNames
  BY TableDomains DEF Readdir
<1>14. {"READDIRPLUS3resok", "dirlistplus3", "entryplus3", "plusEntries"} \subseteq StubNames
  BY TableDomains DEF Readdirplus
<1>15. {"FSINFO3resok", "FSSTAT3resok"} \subseteq StubNames
  BY TableDomains DEF Fsinfo
<1>16. {"PATHCONF3resok"} \subseteq StubNames
  BY TableDomains DEF Pathconf
<1>17. {"COMMIT3resok"} \subseteq StubNames
  BY TableDomains DEF Commit
<1>18. {"dirpath3", "exportnode3", "exports3", "fhandle3", "groupnode3", "groups3", "mountbody3", "mountlist3",
      "mountres3_ok", "mountstat3", "name3"} \subseteq StubNames
  BY TableDomains DEF Mount
<1> QED
  BY <1>1, <1>2, <1>3, <1>4, <1>5, <1>6, <1>7, <1>8, <1>9, <1>10, <1>11, <1>12, <1>13, <1>14, <1>15, <1>16, <1>17, <1>18

(* ... and the ways stubs are put together.                                *)
LEMMA ConstructorsGood ==
  /\ GoodStub(Word) /\ GoodStub(Hyper) /\ \A max \in Nat : max >= 2 => GoodStub(Bytes(max))
  /\ \A s \in Seq(StubNames) : GoodStub(Struct(s))
  /\ \A t \in StubNames \ {"refuse"} : GoodStub(Pointer(t)) /\ GoodStub(Optional(t))
  /\ \A ok, fail \in StubNames \ {"refuse"} : GoodStub(Result(ok, fail))
<1>1. GoodStub(Word) /\ \A max \in Nat : max >= 2 => GoodStub(Bytes(max))
  BY DEF GoodStub, Word, Bytes
<1>2. \A s \in Seq(StubNames) : GoodStub(Struct(s))
  BY DEF GoodStub, Struct
<1>3. GoodStub(Hyper)
  BY NameFacts DEF GoodStub, Hyper
<1>4. \A t \in StubNames \ {"refuse"} : GoodStub(Pointer(t))
  BY NameFacts DEF Both, On, GoodStub, Pointer, Union, WordChoices, Arm
<1>5. \A ok, fail \in StubNames \ {"refuse"} : GoodStub(Result(ok, fail))
  BY NameFacts DEF On, GoodStub, Result, Union, WordChoices, Arm
<1> QED
  BY <1>1, <1>2, <1>3, <1>4, <1>5 DEF Optional

LEMMA ScalarsGood == \A n \in DOMAIN Scalars : GoodStub(Scalars[n])
<1>1. {"uint64"} \subseteq StubNames
  BY NameFacts
<1>2. GoodStub(Struct(<< >>)) /\ GoodStub(Struct(<<"uint64">>))
  BY <1>1 DEF GoodStub, Struct
<1>3. GoodStub(Word) /\ GoodStub(Hyper) /\ GoodStub(Bytes(Unbounded))
  BY <1>1, ConstructorsGood DEF Unbounded
<1> QED
  BY <1>2, <1>3 DEF Scalars

LEMMA AliasesGood == \A n \in DOMAIN Aliases : GoodStub(Aliases[n])
<1>1. {"uint32", "uint64"} \subseteq StubNames
  BY NameFacts
<1>2. GoodStub(Struct(<<"uint64">>)) /\ GoodStub(Struct(<<"uint32", "uint32">>))
  BY <1>1 DEF GoodStub, Struct
<1>3. GoodStub(Word) /\ GoodStub(Bytes(64))
  BY <1>1, ConstructorsGood
<1> QED
  BY <1>2, <1>3 DEF Aliases

LEMMA AttributesGood == \A n \in DOMAIN Attributes : GoodStub(Attributes[n])
<1>1. {"fattr3", "fileid3", "ftype3", "gid3", "mode3", "nfs_fh3", "nfstime3", "post_op_attr",
      "pre_op_attr", "size3", "specdata3", "uid3", "uint32", "uint64", "wcc_attr"} \subseteq StubNames
  BY NameFacts
<1>2. GoodStub(Struct(<<"ftype3", "mode3", "uint32", "uid3", "gid3", "size3", "size3", "specdata3", "uint64", "fileid3",
                          "nfstime3", "nfstime3", "nfstime3">>))
      /\ GoodStub(Struct(<<"size3", "nfstime3", "nfstime3">>)) /\ GoodStub(Struct(<<"pre_op_attr", "post_op_attr">>))
  BY <1>1 DEF GoodStub, Struct
<1>3. GoodStub(Optional("fattr3")) /\ GoodStub(Optional("wcc_attr")) /\ GoodStub(Optional("nfs_fh3"))
  BY <1>1, ConstructorsGood
<1> QED
  BY <1>2, <1>3 DEF Attributes

LEMMA SettingsGood == \A n \in DOMAIN Settings : GoodStub(Settings[n])
<1>1. {"bool", "filename3", "gid3", "mode3", "nfs_fh3", "nfstime3", "set_atime", "set_gid3", "set_mode3",
      "set_mtime", "set_size3", "set_uid3", "size3", "time_how", "uid3", "void"} \subseteq StubNames
  BY NameFacts
<1>2. GoodStub(Union("bool", On({1}, "mode3"), "void")) /\ GoodStub(Union("bool", On({1}, "uid3"), "void"))
      /\ GoodStub(Union("bool", On({1}, "gid3"), "void")) /\ GoodStub(Union("bool", On({1}, "size3"), "void"))
      /\ GoodStub(Union("time_how", On({2}, "nfstime3"), "void"))
      /\ GoodStub(Struct(<<"set_mode3", "set_uid3", "set_gid3", "set_size3", "set_atime", "set_mtime">>))
      /\ GoodStub(Struct(<<"nfs_fh3", "filename3">>))
  BY NameFacts, <1>1 DEF GoodStub, Struct, Union, WordChoices, Arm, On, Both
<1>3. GoodStub(Word)
  BY <1>1, ConstructorsGood
<1> QED
  BY <1>2, <1>3 DEF Settings

LEMMA GetattrGood == \A n \in DOMAIN Getattr : GoodStub(Getattr[n])
<1>1. {"fattr3", "nfs_fh3", "nfstime3", "sattr3", "sattrguard3", "void", "wcc_data"} \subseteq StubNames
  BY NameFacts
<1>2. GoodStub(Struct(<<"nfs_fh3">>)) /\ GoodStub(Struct(<<"nfs_fh3", "sattr3", "sattrguard3">>))
  BY <1>1 DEF GoodStub, Struct
<1>3. GoodStub(Result("fattr3", "void")) /\ GoodStub(Optional("nfstime3")) /\ GoodStub(Result("wcc_data", "wcc_data"))
  BY <1>1, ConstructorsGood
<1> QED
  BY <1>2, <1>3 DEF Getattr

LEMMA LookupGood == \A n \in DOMAIN Lookup : GoodStub(Lookup[n])
<1>1. {"ACCESS3resok", "LOOKUP3resok", "diropargs3", "nfs_fh3", "post_op_attr", "uint32"} \subseteq
      StubNames
  BY NameFacts
<1>2. GoodStub(Struct(<<"diropargs3">>)) /\ GoodStub(Struct(<<"nfs_fh3", "post_op_attr", "post_op_attr">>))
      /\ GoodStub(Struct(<<"nfs_fh3", "uint32">>)) /\ GoodStub(Struct(<<"post_op_attr", "uint32">>))
  BY <1>1 DEF GoodStub, Struct
<1>3. GoodStub(Result("LOOKUP3resok", "post_op_attr")) /\ GoodStub(Result("ACCESS3resok", "post_op_attr"))
  BY <1>1, ConstructorsGood
<1> QED
  BY <1>2, <1>3 DEF Lookup

LEMMA ReadStubsGood == \A n \in DOMAIN ReadStubs : GoodStub(ReadStubs[n])
<1>1. {"READ3resok", "READLINK3resok", "bool", "count3", "data", "nfs_fh3", "nfspath3", "offset3",
      "post_op_attr"} \subseteq StubNames
  BY NameFacts
<1>2. GoodStub(Struct(<<"nfs_fh3">>)) /\ GoodStub(Struct(<<"post_op_attr", "nfspath3">>))
      /\ GoodStub(Struct(<<"nfs_fh3", "offset3", "count3">>))
      /\ GoodStub(Struct(<<"post_op_attr", "count3", "bool", "data">>))
  BY <1>1 DEF GoodStub, Struct
<1>3. GoodStub(Result("READLINK3resok", "post_op_attr")) /\ GoodStub(Bytes(Unbounded))
      /\ GoodStub(Result("READ3resok", "post_op_attr"))
  BY <1>1, ConstructorsGood DEF Unbounded
<1> QED
  BY <1>2, <1>3 DEF ReadStubs

LEMMA WriteStubsGood == \A n \in DOMAIN WriteStubs : GoodStub(WriteStubs[n])
<1>1. {"WRITE3resok", "count3", "data", "nfs_fh3", "offset3", "stable_how", "wcc_data", "writeverf3"}
      \subseteq StubNames
  BY NameFacts
<1>2. GoodStub(Struct(<<"nfs_fh3", "offset3", "count3", "stable_how", "data">>))
      /\ GoodStub(Struct(<<"wcc_data", "count3", "stable_how", "writeverf3">>))
  BY <1>1 DEF GoodStub, Struct
<1>3. GoodStub(Word) /\ GoodStub(Result("WRITE3resok", "wcc_data"))
  BY <1>1, ConstructorsGood
<1> QED
  BY <1>2, <1>3 DEF WriteStubs

LEMMA CreateGood == \A n \in DOMAIN Create : GoodStub(Create[n])
<1>1. {"CREATE3resok", "createhow3", "createmode3", "createverf3", "diropargs3", "post_op_attr",
      "post_op_fh3", "sattr3", "wcc_data"} \subseteq StubNames
  BY NameFacts
<1>2. GoodStub(Union("createmode3", Both(On({0, 1}, "sattr3"), On({2}, "createverf3")), "refuse"))
      /\ GoodStub(Struct(<<"diropargs3", "createhow3">>)) /\ GoodStub(Struct(<<"post_op_fh3", "post_op_attr", "wcc_data">>))
  BY NameFacts, <1>1 DEF GoodStub, Struct, Union, WordChoices, Arm, On, Both
<1>3. GoodStub(Word) /\ GoodStub(Result("CREATE3resok", "wcc_data"))
  BY <1>1, ConstructorsGood
<1> QED
  BY <1>2, <1>3 DEF Create

LEMMA MkdirStubsGood == \A n \in DOMAIN MkdirStubs : GoodStub(MkdirStubs[n])
<1>1. {"CREATE3resok", "diropargs3", "nfspath3", "sattr3", "symlinkdata3", "wcc_data"} \subseteq StubNames
  BY NameFacts
<1>2. GoodStub(Struct(<<"diropargs3", "sattr3">>)) /\ GoodStub(Struct(<<"sattr3", "nfspath3">>))
      /\ GoodStub(Struct(<<"diropargs3", "symlinkdata3">>))
  BY <1>1 DEF GoodStub, Struct
<1>3. GoodStub(Result("CREATE3resok", "wcc_data"))
  BY <1>1, ConstructorsGood
<1> QED
  BY <1>2, <1>3 DEF MkdirStubs

LEMMA MknodGood == \A n \in DOMAIN Mknod : GoodStub(Mknod[n])
<1>1. {"CREATE3resok", "devicedata3", "diropargs3", "ftype3", "mknoddata3", "sattr3", "specdata3", "void",
      "wcc_data"} \subseteq StubNames
  BY NameFacts
<1>2. GoodStub(Struct(<<"sattr3", "specdata3">>))
      /\ GoodStub(Union("ftype3", Both(On({3, 4}, "devicedata3"), On({6, 7}, "sattr3")), "void"))
      /\ GoodStub(Struct(<<"diropargs3", "mknoddata3">>))
  BY NameFacts, <1>1 DEF GoodStub, Struct, Union, WordChoices, Arm, On, Both
<1>3. GoodStub(Result("CREATE3resok", "wcc_data"))
  BY <1>1, ConstructorsGood
<1> QED
  BY <1>2, <1>3 DEF Mknod

LEMMA RemoveStubsGood == \A n \in DOMAIN RemoveStubs : GoodStub(RemoveStubs[n])
<1>1. {"diropargs3", "wcc_data"} \subseteq StubNames
  BY NameFacts
<1>2. GoodStub(Struct(<<"diropargs3">>))
  BY <1>1 DEF GoodStub, Struct
<1>3. GoodStub(Result("wcc_data", "wcc_data"))
  BY <1>1, ConstructorsGood
<1> QED
  BY <1>2, <1>3 DEF RemoveStubs

LEMMA RenameStubsGood == \A n \in DOMAIN RenameStubs : GoodStub(RenameStubs[n])
<1>1. {"bothWcc", "diropargs3", "linkWcc", "nfs_fh3", "post_op_attr", "wcc_data"} \subseteq StubNames
  BY NameFacts
<1>2. GoodStub(Struct(<<"diropargs3", "diropargs3">>)) /\ GoodStub(Struct(<<"wcc_data", "wcc_data">>))
      /\ GoodStub(Struct(<<"nfs_fh3", "diropargs3">>)) /\ GoodStub(Struct(<<"post_op_attr", "wcc_data">>))
  BY <1>1 DEF GoodStub, Struct
<1>3. GoodStub(Result("bothWcc", "bothWcc")) /\ GoodStub(Result("linkWcc", "linkWcc"))
  BY <1>1, ConstructorsGood
<1> QED
  BY <1>2, <1>3 DEF RenameStubs

LEMMA ReaddirGood == \A n \in DOMAIN Readdir : GoodStub(Readdir[n])
<1>1. {"READDIR3resok", "bool", "cookie3", "cookieverf3", "count3", "dirlist3", "entries", "entry3",
      "fileid3", "filename3", "nfs_fh3", "post_op_attr"} \subseteq StubNames
  BY NameFacts
<1>2. GoodStub(Struct(<<"nfs_fh3", "cookie3", "cookieverf3", "count3">>))
      /\ GoodStub(Struct(<<"fileid3", "filename3", "cookie3", "entries">>)) /\ GoodStub(Struct(<<"entries", "bool">>))
      /\ GoodStub(Struct(<<"post_op_attr", "cookieverf3", "dirlist3">>))
  BY <1>1 DEF GoodStub, Struct
<1>3. GoodStub(Pointer("entry3")) /\ GoodStub(Result("READDIR3resok", "post_op_attr"))
  BY <1>1, ConstructorsGood
<1> QED
  BY <1>2, <1>3 DEF Readdir

LEMMA ReaddirplusGood == \A n \in DOMAIN Readdirplus : GoodStub(Readdirplus[n])
<1>1. {"READDIRPLUS3resok", "bool", "cookie3", "cookieverf3", "count3", "dirlistplus3", "entryplus3",
      "fileid3", "filename3", "nfs_fh3", "plusEntries", "post_op_attr", "post_op_fh3"} \subseteq StubNames
  BY NameFacts
<1>2. GoodStub(Struct(<<"nfs_fh3", "cookie3", "cookieverf3", "count3", "count3">>))
      /\ GoodStub(Struct(<<"fileid3", "filename3", "cookie3", "post_op_attr", "post_op_fh3", "plusEntries">>))
      /\ GoodStub(Struct(<<"plusEntries", "bool">>)) /\ GoodStub(Struct(<<"post_op_attr", "cookieverf3", "dirlistplus3">>))
  BY <1>1 DEF GoodStub, Struct
<1>3. GoodStub(Pointer("entryplus3")) /\ GoodStub(Result("READDIRPLUS3resok", "post_op_attr"))
  BY <1>1, ConstructorsGood
<1> QED
  BY <1>2, <1>3 DEF Readdirplus

LEMMA FsinfoGood == \A n \in DOMAIN Fsinfo : GoodStub(Fsinfo[n])
<1>1. {"FSINFO3resok", "FSSTAT3resok", "nfs_fh3", "nfstime3", "post_op_attr", "size3", "uint32"} \subseteq
      StubNames
  BY NameFacts
<1>2. GoodStub(Struct(<<"nfs_fh3">>))
      /\ GoodStub(Struct(<<"post_op_attr", "size3", "size3", "size3", "size3", "size3", "size3", "uint32">>))
      /\ GoodStub(Struct(<<"post_op_attr", "uint32", "uint32", "uint32", "uint32", "uint32", "uint32", "uint32", "size3",
                          "nfstime3", "uint32">>))
  BY <1>1 DEF GoodStub, Struct
<1>3. GoodStub(Result("FSSTAT3resok", "post_op_attr")) /\ GoodStub(Result("FSINFO3resok", "post_op_attr"))
  BY <1>1, ConstructorsGood
<1> QED
  BY <1>2, <1>3 DEF Fsinfo

LEMMA PathconfGood == \A n \in DOMAIN Pathconf(EncodePathconf) : GoodStub(Pathconf(EncodePathconf)[n])
<1>1. {"PATHCONF3resok", "bool", "nfs_fh3", "post_op_attr", "uint32"} \subseteq StubNames
  BY NameFacts
<1>2. GoodStub(Struct(<<"nfs_fh3">>)) /\ GoodStub(Struct(EncodePathconf))
  BY <1>1 DEF GoodStub, Struct, EncodePathconf
<1>3. GoodStub(Result("PATHCONF3resok", "post_op_attr"))
  BY <1>1, ConstructorsGood
<1> QED
  BY <1>2, <1>3 DEF Pathconf

LEMMA CommitGood == \A n \in DOMAIN Commit : GoodStub(Commit[n])
<1>1. {"COMMIT3resok", "count3", "nfs_fh3", "offset3", "wcc_data", "writeverf3"} \subseteq StubNames
  BY NameFacts
<1>2. GoodStub(Struct(<<"nfs_fh3", "offset3", "count3">>)) /\ GoodStub(Struct(<<"wcc_data", "writeverf3">>))
  BY <1>1 DEF GoodStub, Struct
<1>3. GoodStub(Result("COMMIT3resok", "wcc_data"))
  BY <1>1, ConstructorsGood
<1> QED
  BY <1>2, <1>3 DEF Commit

LEMMA MountGood == \A n \in DOMAIN Mount : GoodStub(Mount[n])
<1>1. {"data", "dirpath3", "exportnode3", "exports3", "fhandle3", "groupnode3", "groups3", "mountbody3",
      "mountlist3", "mountres3_ok", "mountstat3", "name3", "void"} \subseteq StubNames
  BY NameFacts
<1>2. GoodStub(Struct(<<"fhandle3", "data">>)) /\ GoodStub(Union("mountstat3", On({0}, "mountres3_ok"), "void"))
      /\ GoodStub(Struct(<<"name3", "dirpath3", "mountlist3">>)) /\ GoodStub(Struct(<<"name3", "groups3">>))
      /\ GoodStub(Struct(<<"dirpath3", "groups3", "exports3">>))
  BY NameFacts, <1>1 DEF GoodStub, Struct, Union, WordChoices, Arm, On, Both
<1>3. GoodStub(Bytes(64)) /\ GoodStub(Word) /\ GoodStub(Pointer("mountbody3")) /\ GoodStub(Pointer("groupnode3"))
      /\ GoodStub(Pointer("exportnode3"))
  BY <1>1, ConstructorsGood
<1> QED
  BY <1>2, <1>3 DEF Mount

LEMMA EncoderGood == \A n \in StubNames : GoodStub(Encoder[n])
<1> DEFINE tables == Tables(EncodePathconf)
<1>1. DOMAIN tables = 1 .. 19
      /\ tables[1] = Scalars /\ tables[2] = Aliases /\ tables[3] = Attributes /\ tables[4] = Settings /\ tables[5] = Getattr
      /\ tables[6] = Lookup /\ tables[7] = ReadStubs /\ tables[8] = WriteStubs /\ tables[9] = Create /\ tables[10] = MkdirStubs
      /\ tables[11] = Mknod /\ tables[12] = RemoveStubs /\ tables[13] = RenameStubs /\ tables[14] = Readdir
      /\ tables[15] = Readdirplus /\ tables[16] = Fsinfo /\ tables[17] = Pathconf(EncodePathconf) /\ tables[18] = Commit
      /\ tables[19] = Mount
  BY DEF Tables
<1>2. \A n \in StubNames : \E i \in DOMAIN tables : n \in DOMAIN tables[i] /\ Encoder[n] = tables[i][n]
  BY TableFacts
<1> HIDE DEF tables
<1>3. \A i \in DOMAIN tables : \A n \in DOMAIN tables[i] : GoodStub(tables[i][n])
  <2>1. \A i \in 1 .. 9 : \A n \in DOMAIN tables[i] : GoodStub(tables[i][n])
    BY <1>1, ScalarsGood, AliasesGood, AttributesGood, SettingsGood, GetattrGood, LookupGood, ReadStubsGood, WriteStubsGood, CreateGood
  <2>2. \A i \in 10 .. 19 : \A n \in DOMAIN tables[i] : GoodStub(tables[i][n])
    BY <1>1, MkdirStubsGood, MknodGood, RemoveStubsGood, RenameStubsGood, ReaddirGood, ReaddirplusGood, FsinfoGood, PathconfGood,
       CommitGood, MountGood
  <2> QED
    BY <1>1, <2>1, <2>2
<1> QED
  BY <1>2, <1>3

-----------------------------------------------------------------------------
(* NFS messages: the reader goes the way the writer went                   *)

Entry == StubNames \X Nat
Config == [stack : Seq(StubNames), n : Nat]

(* From a the writer of the fields s has come to b: by what a structure is *)
(* made of, or by the next word.                                           *)
Follows(s, a, b) ==
  LET desc == Encoder[Head(a.stack)]
  IN  /\ a.stack # << >>
      /\ desc.k = "struct" => b.n = a.n /\ b.stack = After(a.stack, desc, 0)
      /\ desc.k # "struct" =>
           /\ b.n = a.n + 1 /\ b.n <= Len(s)
           /\ s[b.n][1] = (IF desc.k = "union" THEN desc.disc ELSE Head(a.stack))
           /\ b.stack = After(a.stack, desc, s[b.n][2]) /\ ~Refuses(desc, s[b.n][2])
Walk(t, s) == t \in Seq(Config) /\ t # << >> /\ \A i \in 1 .. Len(t) - 1 : Follows(s, t[i], t[i + 1])

(* The words w are the ones written after the first n, or some of them.    *)
Carries(w, s, n) == w \in Seq(Nat) /\ n + Len(w) <= Len(s) /\ \A i \in 1 .. Len(w) : w[i] = s[n + i][2]

WritingInv ==
  /\ xdrState = "writing" /\ got = << >> /\ Carries(wire, sent, 0) /\ Len(wire) = Len(sent)
  /\ \E t : Walk(t, sent) /\ t[1] = [stack |-> reading, n |-> 0] /\ t[Len(t)] = [stack |-> writing, n |-> Len(sent)]
ReadingInv ==
  /\ xdrState \in {"reading", "accepted", "refused"} /\ got \in Seq(Entry) /\ Carries(wire, sent, Len(got))
  /\ \A i \in 1 .. Len(got) : got[i] = sent[i]
  /\ \E t : /\ Walk(t, sent) /\ t[Len(t)] = [stack |-> << >>, n |-> Len(sent)]
            /\ \E k \in 1 .. Len(t) : t[k] = [stack |-> reading, n |-> Len(got)]
  /\ xdrState = "accepted" => reading = << >>
  /\ xdrState = "refused" => Len(got) + Len(wire) < Len(sent)
XdrInv == foreign \/ (sent \in Seq(Entry) /\ (WritingInv \/ ReadingInv))

(* What is written stays written.                                          *)
LEMMA FollowsGrows ==
  ASSUME NEW s \in Seq(Entry), NEW e \in Entry, NEW a \in Config, NEW b \in Config, Follows(s, a, b)
  PROVE  Follows(Append(s, e), a, b)
<1>1. Len(Append(s, e)) = Len(s) + 1 /\ \A i \in 1 .. Len(s) : Append(s, e)[i] = s[i]
  OBVIOUS
<1>2. a.n \in Nat /\ b.n \in Nat /\ Len(s) \in Nat
  BY DEF Config
<1> QED
  BY <1>1, <1>2 DEF Follows

LEMMA WalkGrows ==
  ASSUME NEW s, NEW s2, NEW t, Walk(t, s), \A a, b \in Config : Follows(s, a, b) => Follows(s2, a, b),
         NEW c \in Config, Follows(s2, t[Len(t)], c)
  PROVE  Walk(Append(t, c), s2) /\ Append(t, c)[1] = t[1] /\ Append(t, c)[Len(Append(t, c))] = c
<1> DEFINE u == Append(t, c)
<1>1. t \in Seq(Config) /\ Len(t) \in Nat /\ Len(t) >= 1
  BY DEF Walk
<1>2. u \in Seq(Config) /\ Len(u) = Len(t) + 1 /\ u[Len(u)] = c /\ (\A i \in 1 .. Len(t) : u[i] = t[i]) /\ u # << >>
  BY <1>1
<1> HIDE DEF u
<1>3. ASSUME NEW i \in 1 .. Len(u) - 1 PROVE Follows(s2, u[i], u[i + 1])
  <2>1. CASE i = Len(t)
    BY <1>1, <1>2, <2>1
  <2>2. CASE i # Len(t)
    <3>1. i \in 1 .. Len(t) - 1 /\ i \in 1 .. Len(t) /\ i + 1 \in 1 .. Len(t)
      BY <1>1, <1>2, <2>2
    <3>2. t[i] \in Config /\ t[i + 1] \in Config /\ Follows(s, t[i], t[i + 1])
      BY <1>1, <3>1 DEF Walk
    <3> QED
      BY <1>2, <3>1, <3>2
  <2> QED
    BY <2>1, <2>2
<1>4. u[1] = t[1]
  BY <1>1, <1>2
<1> QED
  BY <1>2, <1>3, <1>4 DEF Walk, u

(* The stubs that are left after a word that is not refused are stubs.     *)
LEMMA AfterIsStack ==
  ASSUME NEW stack \in Seq(StubNames), stack # << >>, NEW desc, GoodStub(desc), NEW w,
         desc.k = "union" => Arm(desc, w) \in StubNames
  PROVE  After(stack, desc, w) \in Seq(StubNames)
<1>1. Tail(stack) \in Seq(StubNames) /\ "word" \in StubNames
  BY NameFacts
<1>2. CASE desc.k = "struct"
  <2>1. desc.fields \in Seq(StubNames)
    BY <1>2 DEF GoodStub
  <2>2. desc.fields \o Tail(stack) \in Seq(StubNames)
    BY <1>1, <2>1
  <2> QED
    BY <1>2, <2>2 DEF After
<1>3. CASE desc.k = "union"
  <2>1. <<Arm(desc, w)>> \in Seq(StubNames)
    BY <1>3
  <2>2. <<Arm(desc, w)>> \o Tail(stack) \in Seq(StubNames)
    BY <1>1, <2>1
  <2> QED
    BY <1>3, <2>2 DEF After
<1>4. CASE desc.k = "bytes"
  <2>1. (IF w = 0 THEN << >> ELSE <<"word">>) \in Seq(StubNames)
    BY <1>1
  <2>2. (IF w = 0 THEN << >> ELSE <<"word">>) \o Tail(stack) \in Seq(StubNames)
    BY <1>1, <2>1
  <2> QED
    BY <1>4, <2>2 DEF After
<1>5. CASE desc.k = "word"
  BY <1>1, <1>5 DEF After
<1> QED
  BY <1>2, <1>3, <1>4, <1>5 DEF GoodStub

(* The words a writer may choose are numbers that the reader does not      *)
(* refuse, and lead to a stub there is.                                    *)
LEMMA WordsGood ==
  ASSUME NEW desc, GoodStub(desc), desc.k # "struct", NEW type,
         desc.k = "union" => type = desc.disc,
         NEW w \in IF desc.k = "bytes" THEN {0, 2} ELSE IF IsList(desc) THEN {0} ELSE WordChoices(type)
  PROVE  w \in Nat /\ ~Refuses(desc, w) /\ (desc.k = "union" => Arm(desc, w) \in StubNames)
<1>1. CASE desc.k = "bytes"
  BY <1>1 DEF GoodStub, Refuses
<1>2. CASE desc.k = "word"
  <2>1. w \in {0} \cup WordChoices(type)
    BY <1>2
  <2>2. w \in Nat
    BY <2>1 DEF WordChoices
  <2> QED
    BY <1>2, <2>2 DEF Refuses
<1>3. CASE desc.k = "union"
  <2>1. type = desc.disc
    BY <1>3
  <2>2. w \in WordChoices(desc.disc)
    <3>1. CASE IsList(desc)
      BY <1>3, <3>1 DEF IsList, WordChoices
    <3>2. CASE ~IsList(desc)
      BY <1>3, <2>1, <3>2
    <3> QED
      BY <3>1, <3>2
  <2>3. w \in Nat
    BY <2>2 DEF WordChoices
  <2>4. Arm(desc, w) \in StubNames \ {"refuse"}
    BY <1>3, <2>2 DEF GoodStub
  <2> QED
    BY <1>3, <2>3, <2>4 DEF Refuses
<1> QED
  BY <1>1, <1>2, <1>3 DEF GoodStub

LEMMA XdrStarts == ASSUME XdrInit PROVE XdrInv
<1>1. PICK m \in Message : writing = <<m>> /\ reading = <<m>>
  BY DEF XdrInit
<1>2. <<m>> \in Seq(StubNames)
  BY MessageAssumption DEF StubNames
<1> DEFINE c == [stack |-> <<m>>, n |-> 0]
           t == <<c>>
<1>3. c \in Config
  BY <1>2 DEF Config
<1>4. c = [stack |-> reading, n |-> 0] /\ c = [stack |-> writing, n |-> Len(sent)]
  BY <1>1 DEF XdrInit
<1> HIDE DEF c
<1>5. t \in Seq(Config) /\ t # << >> /\ Len(t) = 1 /\ t[1] = c
  BY <1>3
<1> HIDE DEF t
<1>6. Walk(t, sent)
  BY <1>5 DEF Walk
<1>7. sent \in Seq(Entry) /\ Carries(wire, sent, 0) /\ Len(wire) = Len(sent)
  BY DEF XdrInit, Carries
<1>8. WritingInv
  BY <1>4, <1>5, <1>6, <1>7 DEF WritingInv, XdrInit
<1> QED
  BY <1>7, <1>8 DEF XdrInv

LEMMA WriteKeepsWalk == ASSUME XdrInv, Write PROVE XdrInv'
<1>1. CASE foreign'
  BY <1>1 DEF XdrInv
<1>2. CASE ~foreign'
  <2> DEFINE desc == Encoder[Head(writing)]
             type == IF desc.k = "union" THEN desc.disc ELSE Head(writing)
             from == [stack |-> writing, n |-> Len(sent)]
  <2>1. /\ ~foreign /\ xdrState = "writing" /\ writing # << >>
        /\ reading' = reading /\ got' = got /\ xdrState' = xdrState
    BY <1>2 DEF Write
  <2>2. sent \in Seq(Entry) /\ WritingInv
    BY <2>1 DEF XdrInv, ReadingInv
  <2>3. PICK t : Walk(t, sent) /\ t[1] = [stack |-> reading, n |-> 0] /\ t[Len(t)] = from
    BY <2>2 DEF WritingInv
  <2>4. t \in Seq(Config) /\ Len(t) \in Nat /\ Len(t) >= 1 /\ Len(t) \in 1 .. Len(t)
    BY <2>3 DEF Walk
  <2>5. from \in Config
    BY <2>3, <2>4
  <2>6. from.stack = writing /\ from.n = Len(sent) /\ Len(sent) \in Nat /\ writing \in Seq(StubNames)
    BY <2>2, <2>5 DEF Config
  <2>7. Head(writing) \in StubNames
    BY <2>1, <2>6
  <2>8. GoodStub(desc)
    BY <2>7, EncoderGood
  <2>9. \/ desc.k = "struct" /\ writing' = After(writing, desc, 0) /\ UNCHANGED <<sent, wire, foreign>>
        \/ /\ desc.k # "struct"
           /\ \E w \in IF desc.k = "bytes" THEN {0, 2} ELSE IF IsList(desc) THEN {0} ELSE WordChoices(type) :
                writing' = After(writing, desc, w) /\ Put(type, w) /\ UNCHANGED foreign
    BY <1>2 DEF Write
  <2>10. ASSUME NEW s \in Seq(Entry), sent' = s, NEW c \in Config, c = [stack |-> writing', n |-> Len(sent')],
                \A a, b \in Config : Follows(sent, a, b) => Follows(s, a, b), Follows(s, from, c),
                Carries(wire', sent', 0), Len(wire') = Len(sent')
         PROVE  XdrInv'
    <3> HIDE DEF from
    <3> DEFINE u == Append(t, c)
    <3>1. Walk(u, s) /\ u[1] = t[1] /\ u[Len(u)] = c
      BY <2>3, <2>10, WalkGrows
    <3> HIDE DEF u
    <3>2. WritingInv'
      BY <2>1, <2>2, <2>3, <2>10, <3>1 DEF WritingInv
    <3> QED
      BY <2>10, <3>2 DEF XdrInv
  <2>11. CASE desc.k = "struct"
    <3> DEFINE c == [stack |-> writing', n |-> Len(sent')]
    <3>1. writing' = After(writing, desc, 0) /\ sent' = sent /\ wire' = wire
      BY <2>9, <2>11
    <3>2. writing' \in Seq(StubNames)
      BY <2>1, <2>6, <2>8, <2>11, <3>1, AfterIsStack
    <3>3. c \in Config
      BY <2>6, <3>1, <3>2 DEF Config
    <3>4. Follows(sent, from, c)
      BY <2>1, <2>6, <2>11, <3>1 DEF Follows
    <3>5. Carries(wire', sent', 0) /\ Len(wire') = Len(sent')
      BY <2>2, <3>1 DEF WritingInv
    <3> QED
      BY <2>2, <2>10, <3>1, <3>3, <3>4, <3>5
  <2>12. CASE desc.k # "struct"
    <3>1. PICK w \in IF desc.k = "bytes" THEN {0, 2} ELSE IF IsList(desc) THEN {0} ELSE WordChoices(type) :
            writing' = After(writing, desc, w) /\ Put(type, w)
      BY <2>9, <2>12
    <3>2. w \in Nat /\ ~Refuses(desc, w) /\ (desc.k = "union" => Arm(desc, w) \in StubNames)
      BY <2>8, <2>12, WordsGood
    <3>3. type \in StubNames
      BY <2>7, <2>8 DEF GoodStub
    <3> DEFINE e == <<type, w>>
               s == Append(sent, e)
               c == [stack |-> writing', n |-> Len(sent')]
    <3>4. e \in Entry /\ e[1] = type /\ e[2] = w
      BY <3>2, <3>3 DEF Entry
    <3>5. sent' = s /\ wire' = Append(wire, w)
      BY <3>1 DEF Put, Field
    <3> HIDE DEF e
    <3>6. s \in Seq(Entry) /\ Len(s) = Len(sent) + 1 /\ s[Len(s)] = e /\ \A i \in 1 .. Len(sent) : s[i] = sent[i]
      BY <2>2, <3>4
    <3> HIDE DEF s
    <3>7. writing' \in Seq(StubNames)
      BY <2>1, <2>6, <2>8, <3>1, <3>2, AfterIsStack
    <3>8. c \in Config
      BY <2>6, <3>5, <3>6, <3>7 DEF Config
    <3>9. c.n = Len(s) /\ c.stack = After(writing, desc, w)
      BY <3>1, <3>5
    <3>10. Follows(s, from, c)
      <4> HIDE DEF c, from
      <4>1. s[c.n][1] = type /\ s[c.n][2] = w
        BY <3>4, <3>6, <3>9
      <4> QED
        BY <2>1, <2>6, <2>12, <3>2, <3>6, <3>9, <4>1 DEF Follows
    <3>11. \A a, b \in Config : Follows(sent, a, b) => Follows(s, a, b)
      BY <2>2, <3>4, FollowsGrows DEF s
    <3>12. Carries(wire', sent', 0) /\ Len(wire') = Len(sent')
      <4> DEFINE wr == Append(wire, w)
      <4>1. Carries(wire, sent, 0) /\ Len(wire) = Len(sent)
        BY <2>2 DEF WritingInv
      <4>2. wire \in Seq(Nat) /\ Len(wire) \in Nat /\ \A i \in 1 .. Len(wire) : wire[i] = sent[0 + i][2]
        BY SMTT(60), <4>1 DEF Carries
      <4>3. wr \in Seq(Nat) /\ Len(wr) = Len(wire) + 1 /\ wr[Len(wr)] = w /\ \A i \in 1 .. Len(wire) : wr[i] = wire[i]
        BY <3>2, <4>2
      <4> HIDE DEF wr
      <4>4. ASSUME NEW i \in 1 .. Len(wr) PROVE wr[i] = s[0 + i][2]
        <5>1. CASE i = Len(wr)
          BY <3>4, <3>6, <4>1, <4>2, <4>3, <5>1
        <5>2. CASE i # Len(wr)
          <6>1. i \in 1 .. Len(wire) /\ i \in 1 .. Len(sent) /\ 0 + i = i
            BY <4>1, <4>2, <4>3, <5>2
          <6> QED
            BY <3>6, <4>2, <4>3, <6>1
        <5> QED
          BY <5>1, <5>2
      <4>5. Carries(wr, s, 0) /\ Len(wr) = Len(s)
        BY <3>6, <4>1, <4>2, <4>3, <4>4 DEF Carries
      <4>6. wire' = wr
        BY <3>5 DEF wr
      <4> QED
        BY <3>5, <4>5, <4>6
    <3> QED
      BY <2>10, <3>5, <3>6, <3>8, <3>10, <3>11, <3>12
  <2> QED
    BY <2>11, <2>12
<1> QED
  BY <1>1, <1>2

(* A message that is cut is a shorter run of the same words.               *)
LEMMA SendKeepsWalk == ASSUME XdrInv, Send PROVE XdrInv'
<1>1. CASE foreign
  BY <1>1 DEF XdrInv, Send
<1>2. CASE ~foreign
  <2>1. /\ xdrState = "writing" /\ writing = << >> /\ xdrState' = "reading"
        /\ reading' = reading /\ sent' = sent /\ got' = got
    BY DEF Send
  <2>2. sent \in Seq(Entry) /\ WritingInv
    BY <1>2, <2>1 DEF XdrInv, ReadingInv
  <2>3. PICK t : Walk(t, sent) /\ t[1] = [stack |-> reading, n |-> 0] /\ t[Len(t)] = [stack |-> writing, n |-> Len(sent)]
    BY <2>2 DEF WritingInv
  <2>4. got' = << >> /\ Len(got') = 0 /\ got' \in Seq(Entry)
    BY <2>1, <2>2 DEF WritingInv
  <2>5. 1 \in 1 .. Len(t)
    BY <2>3 DEF Walk
  <2>6. Carries(wire', sent', Len(got'))
    <3>1. wire \in Seq(Nat) /\ Len(wire) \in Nat /\ Len(wire) = Len(sent) /\ \A i \in 1 .. Len(wire) : wire[i] = sent[0 + i][2]
      BY <2>2 DEF WritingInv, Carries
    <3>2. CASE wire' = wire
      BY <2>1, <2>4, <3>1, <3>2 DEF Carries
    <3>3. CASE \E j \in 0 .. Len(wire) - 1 : wire' = SubSeq(wire, 1, j)
      <4>1. PICK j \in 0 .. Len(wire) - 1 : wire' = SubSeq(wire, 1, j)
        BY <3>3
      <4> DEFINE piece == SubSeq(wire, 1, j)
      <4>2. \A i \in 1 .. j : wire[i] \in Nat
        BY <3>1
      <4>3. piece \in Seq(Nat) /\ Len(piece) = j /\ \A i \in 1 .. j : piece[i] = wire[i]
        BY <3>1, <4>2
      <4> HIDE DEF piece
      <4>4. ASSUME NEW i \in 1 .. Len(piece) PROVE piece[i] = sent[0 + i][2]
        <5>1. i \in 1 .. j /\ i \in 1 .. Len(wire)
          BY <3>1, <4>3
        <5> QED
          BY <3>1, <4>3, <5>1
      <4>5. 0 + Len(piece) <= Len(sent)
        BY <3>1, <4>3
      <4>6. Carries(piece, sent, 0)
        BY <4>3, <4>4, <4>5 DEF Carries
      <4>7. wire' = piece
        BY <4>1 DEF piece
      <4> QED
        BY <2>1, <2>4, <4>6, <4>7
    <3> QED
      BY <3>2, <3>3 DEF Send
  <2>7. \A i \in 1 .. Len(got') : got'[i] = sent'[i]
    BY <2>4
  <2>8. ReadingInv'
    BY <2>1, <2>3, <2>4, <2>5, <2>6, <2>7 DEF ReadingInv
  <2> QED
    BY <2>1, <2>2, <2>8 DEF XdrInv
<1> QED
  BY <1>1, <1>2

(* The reader takes the step the writer took from the same stubs.          *)
LEMMA ReadKeepsWalk == ASSUME XdrInv, Read PROVE XdrInv'
<1>1. CASE foreign
  BY <1>1 DEF XdrInv, Read
<1>2. CASE ~foreign
  <2> DEFINE desc == Encoder[Head(reading)]
             type == IF desc.k = "union" THEN desc.disc ELSE Head(reading)
  <2>1. /\ xdrState = "reading" /\ reading # << >> /\ sent' = sent /\ foreign' = foreign
    BY DEF Read
  <2>2. sent \in Seq(Entry) /\ ReadingInv
    BY <1>2, <2>1 DEF XdrInv, WritingInv
  <2>3. PICK t : /\ Walk(t, sent) /\ t[Len(t)] = [stack |-> << >>, n |-> Len(sent)]
                 /\ \E k \in 1 .. Len(t) : t[k] = [stack |-> reading, n |-> Len(got)]
    BY <2>2 DEF ReadingInv
  <2>4. PICK k \in 1 .. Len(t) : t[k] = [stack |-> reading, n |-> Len(got)]
    BY <2>3
  <2>5. t \in Seq(Config) /\ Len(t) \in Nat
    BY <2>3 DEF Walk
  <2>6. k \in 1 .. Len(t) - 1 /\ k + 1 \in 1 .. Len(t)
    <3>1. k # Len(t)
      BY <2>1, <2>3, <2>4
    <3> QED
      BY <2>5, <3>1
  <2> DEFINE next == t[k + 1]
  <2>7. t[k].stack = reading /\ t[k].n = Len(got) /\ next \in Config
    BY <2>4, <2>5, <2>6
  <2>8. Follows(sent, t[k], next)
    BY <2>3, <2>6 DEF Walk
  <2> HIDE DEF next
  <2>9. /\ desc.k = "struct" => next.n = Len(got) /\ next.stack = After(reading, desc, 0)
        /\ desc.k # "struct" =>
             /\ next.n = Len(got) + 1 /\ next.n <= Len(sent) /\ sent[next.n][1] = type
             /\ next.stack = After(reading, desc, sent[next.n][2]) /\ ~Refuses(desc, sent[next.n][2])
    BY <2>7, <2>8 DEF Follows
  <2>10. next = [stack |-> next.stack, n |-> next.n]
    BY <2>7 DEF Config
  <2>11. /\ got \in Seq(Entry) /\ Len(got) \in Nat /\ Carries(wire, sent, Len(got))
         /\ \A i \in 1 .. Len(got) : got[i] = sent[i]
    BY <2>2 DEF ReadingInv
  <2>12. /\ wire \in Seq(Nat) /\ Len(wire) \in Nat /\ Len(got) + Len(wire) <= Len(sent)
         /\ \A i \in 1 .. Len(wire) : wire[i] = sent[Len(got) + i][2]
    BY <2>11 DEF Carries
  <2>13. IF desc.k = "struct" THEN reading' = After(reading, desc, 0) /\ UNCHANGED <<wire, got, xdrState>>
         ELSE IF wire = << >> \/ Refuses(desc, Head(wire)) THEN xdrState' = "refused" /\ UNCHANGED <<reading, wire, got>>
         ELSE /\ reading' = After(reading, desc, Head(wire)) /\ wire' = Tail(wire)
              /\ got' = Append(got, Field(type, Head(wire))) /\ UNCHANGED xdrState
    <3>1. Decoder = Encoder
      BY DEF Decoder, Encoder, DecodePathconf, EncodePathconf
    <3> QED
      BY <3>1 DEF Read
  <2>14. ASSUME next = [stack |-> reading', n |-> Len(got')], got' \in Seq(Entry), Carries(wire', sent, Len(got')),
                \A i \in 1 .. Len(got') : got'[i] = sent[i], xdrState' = "reading"
         PROVE  XdrInv'
    <3>1. t[k + 1] = [stack |-> reading', n |-> Len(got')]
      BY <2>14 DEF next
    <3>2. ReadingInv'
      BY <2>1, <2>3, <2>6, <2>14, <3>1 DEF ReadingInv
    <3> QED
      BY <2>1, <2>2, <3>2 DEF XdrInv
  <2>15. CASE desc.k = "struct"
    BY <2>1, <2>9, <2>10, <2>11, <2>13, <2>14, <2>15
  <2>16. CASE desc.k # "struct" /\ wire # << >>
    <3>1. 1 \in 1 .. Len(wire) /\ Head(wire) = wire[1] /\ wire[1] \in Nat
      BY <2>12, <2>16
    <3>2. next.n = Len(got) + 1 /\ Head(wire) = sent[next.n][2]
      BY <2>9, <2>12, <2>16, <3>1
    <3>3. ~Refuses(desc, Head(wire))
      BY <2>9, <2>16, <3>2
    <3>4. /\ reading' = After(reading, desc, Head(wire)) /\ wire' = Tail(wire)
          /\ got' = Append(got, <<type, Head(wire)>>) /\ xdrState' = "reading"
      BY <2>1, <2>13, <2>16, <3>3 DEF Field
    <3>5. next.n \in 1 .. Len(sent)
      BY <2>9, <2>11, <2>16
    <3>6. sent[next.n] \in StubNames \X Nat
      BY <2>2, <3>5 DEF Entry
    <3>7. <<type, Head(wire)>> = sent[next.n]
      BY <2>9, <2>16, <3>2, <3>6
    <3> DEFINE g == Append(got, sent[next.n])
               w == Tail(wire)
    <3>8. sent[next.n] \in Entry
      BY <3>6 DEF Entry
    <3>9. g \in Seq(Entry) /\ Len(g) = Len(got) + 1 /\ g[Len(g)] = sent[next.n] /\ \A i \in 1 .. Len(got) : g[i] = got[i]
      BY <2>11, <3>8
    <3>10. w \in Seq(Nat) /\ Len(w) = Len(wire) - 1 /\ \A i \in 1 .. Len(w) : w[i] = wire[i + 1]
      BY <2>12, <2>16
    <3> HIDE DEF g, w
    <3>11. got' = g /\ wire' = w
      BY <3>4, <3>7 DEF g, w
    <3>12. Carries(w, sent, Len(g))
      <4>1. ASSUME NEW i \in 1 .. Len(w) PROVE w[i] = sent[Len(g) + i][2]
        <5>1. i + 1 \in 1 .. Len(wire) /\ Len(got) + (i + 1) = Len(g) + i
          BY <2>11, <2>12, <3>9, <3>10
        <5> QED
          BY <2>12, <3>10, <5>1
      <4> QED
        BY <2>11, <2>12, <3>9, <3>10, <4>1 DEF Carries
    <3>13. \A i \in 1 .. Len(g) : g[i] = sent[i]
      BY <2>11, <3>2, <3>9
    <3>14. next = [stack |-> reading', n |-> Len(g)]
      BY <2>9, <2>10, <2>16, <3>2, <3>4, <3>9
    <3> QED
      BY <2>14, <3>4, <3>9, <3>11, <3>12, <3>13, <3>14
  <2>17. CASE desc.k # "struct" /\ wire = << >>
    <3>1. xdrState' = "refused" /\ reading' = reading /\ wire' = wire /\ got' = got
      BY <2>13, <2>17
    <3>2. Len(got) + Len(wire) < Len(sent)
      BY <2>9, <2>11, <2>12, <2>17
    <3>3. ReadingInv'
      BY <2>1, <2>2, <3>1, <3>2 DEF ReadingInv
    <3> QED
      BY <2>1, <2>2, <3>3 DEF XdrInv
  <2> QED
    BY <2>15, <2>16, <2>17
<1> QED
  BY <1>1, <1>2

LEMMA AcceptKeepsWalk == ASSUME XdrInv, Accept PROVE XdrInv'
<1>1. CASE foreign
  BY <1>1 DEF XdrInv, Accept
<1>2. CASE ~foreign
  <2>1. sent \in Seq(Entry) /\ ReadingInv
    BY <1>2 DEF XdrInv, WritingInv, Accept
  <2>2. ReadingInv'
    BY <2>1 DEF ReadingInv, Accept
  <2> QED
    BY <2>1, <2>2 DEF XdrInv, Accept
<1> QED
  BY <1>1, <1>2

(* A reader that has nothing left to read has come to the end of the walk, *)
(* for a step from one configuration to the next takes a stub.             *)
LEMMA XdrInvIsFaithful == ASSUME XdrInv PROVE WireFaithful
<1>1. CASE foreign \/ WritingInv
  <2>1. CASE foreign
    BY <2>1 DEF WireFaithful
  <2>2. CASE WritingInv
    BY <2>2 DEF WireFaithful, WritingInv
  <2> QED
    BY <1>1, <2>1, <2>2
<1>2. CASE ~foreign /\ sent \in Seq(Entry) /\ ReadingInv
  <2>1. /\ got \in Seq(Entry) /\ Len(got) \in Nat /\ Len(sent) \in Nat /\ Carries(wire, sent, Len(got))
        /\ \A i \in 1 .. Len(got) : got[i] = sent[i]
        /\ xdrState = "refused" => Len(got) + Len(wire) < Len(sent)
    BY <1>2 DEF ReadingInv
  <2>2. \A i \in DOMAIN got : got[i] = sent[i]
    BY <2>1
  <2>3. ASSUME xdrState = "accepted" PROVE Len(got) = Len(sent) /\ wire = << >>
    <3>1. reading = << >>
      BY <1>2, <2>3 DEF ReadingInv
    <3>2. PICK t : /\ Walk(t, sent) /\ t[Len(t)] = [stack |-> << >>, n |-> Len(sent)]
                   /\ \E k \in 1 .. Len(t) : t[k] = [stack |-> reading, n |-> Len(got)]
      BY <1>2 DEF ReadingInv
    <3>3. PICK k \in 1 .. Len(t) : t[k] = [stack |-> reading, n |-> Len(got)]
      BY <3>2
    <3>4. t[k].stack = << >> /\ t[k].n = Len(got) /\ t[Len(t)].n = Len(sent) /\ Len(t) \in Nat
      BY <3>1, <3>2, <3>3 DEF Walk
    <3>5. k = Len(t)
      <4>1. ASSUME k # Len(t) PROVE FALSE
        <5>1. k \in 1 .. Len(t) - 1
          BY <3>4, <4>1
        <5>2. Follows(sent, t[k], t[k + 1])
          BY <3>2, <5>1 DEF Walk
        <5> QED
          BY <3>4, <5>2 DEF Follows
      <4> QED
        BY <4>1
    <3>6. Len(got) = Len(sent)
      BY <3>4, <3>5
    <3>7. wire \in Seq(Nat) /\ Len(got) + Len(wire) <= Len(sent) /\ Len(wire) \in Nat
      BY <2>1 DEF Carries
    <3>8. Len(wire) = 0
      BY <2>1, <3>6, <3>7
    <3> QED
      BY <3>6, <3>7, <3>8
  <2> QED
    BY <2>1, <2>2, <2>3 DEF WireFaithful
<1> QED
  BY <1>1, <1>2 DEF XdrInv

(* What rpc_nfs3_prot_xdr.c puts on the wire it takes off again, for every *)
(* message NFS and MOUNT have and a list of any length: every field is     *)
(* read as the field it was written as, a whole message is not refused and *)
(* what is accepted was read to its last word, so that one that was cut is *)
(* not accepted.                                                           *)
THEOREM NfsWireFaithful == XdrSpec => []WireFaithful
<1>1. XdrInit => XdrInv
  BY XdrStarts
<1>2. XdrInv /\ [XdrNext]_xdrVars => XdrInv'
  <2> SUFFICES ASSUME XdrInv, [XdrNext]_xdrVars PROVE XdrInv'
    OBVIOUS
  <2>1. CASE XdrNext
    BY <2>1, WriteKeepsWalk, SendKeepsWalk, ReadKeepsWalk, AcceptKeepsWalk DEF XdrNext
  <2>2. CASE UNCHANGED xdrVars
    BY ZenonT(90), <2>2 DEF XdrInv, WritingInv, ReadingInv, Walk, Follows, Carries, xdrVars
  <2> QED
    BY <2>1, <2>2
<1>3. XdrInv => WireFaithful
  BY XdrInvIsFaithful
<1> QED
  BY <1>1, <1>2, <1>3, PTL DEF XdrSpec

(***************************************************************************)
(* NfsHandles                                                              *)
(***************************************************************************)
(* Paths                                                                   *)

LEMMA ShortSequences ==
  ASSUME NEW a, NEW b, NEW c
  PROVE  /\ Append(<<a>>, b) = <<a, b>> /\ Append(<<a, b>>, c) = <<a, b, c>>
         /\ SubSeq(<<a>>, 1, 0) = << >> /\ SubSeq(<<a>>, 1, 1) = <<a>>
         /\ SubSeq(<<a, b>>, 1, 1) = <<a>> /\ SubSeq(<<a, b>>, 1, 2) = <<a, b>>
         /\ SubSeq(<<a, b, c>>, 1, 1) = <<a>> /\ SubSeq(<<a, b, c>>, 1, 2) = <<a, b>>
<1> DEFINE S == {a, b, c}
           ab == Append(<<a>>, b)
           abc == Append(<<a, b>>, c)
           t1 == SubSeq(<<a>>, 1, 1)
           t2 == SubSeq(<<a, b>>, 1, 1)
           t3 == SubSeq(<<a, b>>, 1, 2)
           t4 == SubSeq(<<a, b, c>>, 1, 1)
           t5 == SubSeq(<<a, b, c>>, 1, 2)
<1>1. <<a>> \in Seq(S) /\ <<a, b>> \in Seq(S) /\ <<a, b, c>> \in Seq(S)
  OBVIOUS
<1>2. ab \in Seq(S) /\ Len(ab) = 2 /\ ab[1] = a /\ ab[2] = b
  BY <1>1
<1>3. abc \in Seq(S) /\ Len(abc) = 3 /\ abc[1] = a /\ abc[2] = b /\ abc[3] = c
  BY <1>1
<1>4. SubSeq(<<a>>, 1, 0) = << >>
  BY <1>1, SubSeqEmpty
<1>5. t1 \in Seq(S) /\ Len(t1) = 1 /\ t1[1] = a
  BY <1>1, SubSeqProperties
<1>6. t2 \in Seq(S) /\ Len(t2) = 1 /\ t2[1] = a
  BY <1>1, SubSeqProperties
<1>7. t3 \in Seq(S) /\ Len(t3) = 2 /\ t3[1] = a /\ t3[2] = b
  BY <1>1, SubSeqProperties
<1>8. t4 \in Seq(S) /\ Len(t4) = 1 /\ t4[1] = a
  BY <1>1, SubSeqProperties
<1>9. t5 \in Seq(S) /\ Len(t5) = 2 /\ t5[1] = a /\ t5[2] = b
  BY <1>1, SubSeqProperties
<1> HIDE DEF ab, abc, t1, t2, t3, t4, t5
<1>10. ab = <<a, b>> /\ abc = <<a, b, c>>
  BY <1>2, <1>3
<1>11. t1 = <<a>> /\ t2 = <<a>> /\ t3 = <<a, b>> /\ t4 = <<a>> /\ t5 = <<a, b>>
  BY <1>5, <1>6, <1>7, <1>8, <1>9
<1> QED
  BY <1>4, <1>10, <1>11 DEF ab, abc, t1, t2, t3, t4, t5

(* A path of more than one name is a name in a directory.                  *)
LEMMA PathShapes ==
  ASSUME NEW p \in Path
  PROVE  /\ Len(p) \in 1 .. 3 /\ p # << >>
         /\ Len(p) = 1 => p \in DirPath
         /\ Len(p) # 1 => /\ Front(p) \in DirPath /\ p = Append(Front(p), Last(p)) /\ Len(Front(p)) = Len(p) - 1
                          /\ Last(p) \in Name /\ (Last(p) \in DirName <=> p \in DirPath)
         /\ SubSeq(p, 1, 1) \in DirPath /\ Len(SubSeq(p, 1, 1)) = 1
         /\ Len(p) = 1 => SubSeq(p, 1, 1) = p
         /\ Len(p) = 2 => SubSeq(p, 1, 2) = p /\ SubSeq(p, 1, 1) = Front(p)
         /\ Len(p) = 3 => /\ SubSeq(p, 1, 2) = Front(p) /\ Len(SubSeq(p, 1, 2)) = 2
                          /\ Front(SubSeq(p, 1, 2)) = SubSeq(p, 1, 1)
         /\ p \in DirPath => Len(p) # 3 /\ p \notin FilePath
<1>1. CASE \E a \in DirName : p = <<a>>
  <2>1. PICK a \in DirName : p = <<a>>
    BY <1>1
  <2>2. Len(p) = 1 /\ p \in DirPath /\ SubSeq(p, 1, 1) = p /\ p # << >>
    <3>1. SubSeq(<<a>>, 1, 1) = <<a>>
      BY ShortSequences
    <3>2. Len(<<a>>) = 1 /\ <<a>> # << >> /\ <<a>> \in DirPath
      BY DEF DirPath
    <3> QED
      BY <2>1, <3>1, <3>2
  <2>3. ASSUME p \in FilePath PROVE FALSE
    <3>1. PICK d \in DirPath, f \in FileName : p = Append(d, f)
      BY <2>3 DEF FilePath
    <3>2. CASE \E x \in DirName : d = <<x>>
      <4>1. PICK x \in DirName : d = <<x>>
        BY <3>2
      <4>2. Append(<<x>>, f) = <<x, f>>
        BY ShortSequences
      <4> QED
        BY <2>1, <3>1, <4>1, <4>2
    <3>3. CASE \E x \in DirName, y \in DirName : d = <<x, y>>
      <4>1. PICK x \in DirName, y \in DirName : d = <<x, y>>
        BY <3>3
      <4>2. Append(<<x, y>>, f) = <<x, y, f>>
        BY ShortSequences
      <4> QED
        BY <2>1, <3>1, <4>1, <4>2
    <3> QED
      BY <3>1, <3>2, <3>3 DEF DirPath
  <2>4. SubSeq(p, 1, 1) \in DirPath /\ Len(SubSeq(p, 1, 1)) = 1
    BY <2>2
  <2> QED
    BY <2>2, <2>3, <2>4
<1>2. CASE \E a \in DirName, b \in Name : p = <<a, b>>
  <2>1. PICK a \in DirName, b \in Name : p = <<a, b>>
    BY <1>2
  <2>2. a \in Name /\ Append(<<a>>, b) = <<a, b>> /\ SubSeq(<<a, b>>, 1, 1) = <<a>> /\ SubSeq(<<a, b>>, 1, 2) = <<a, b>>
    BY ShortSequences DEF Name
  <2>3. Len(p) = 2 /\ Front(p) = <<a>> /\ Last(p) = b /\ p = Append(Front(p), Last(p)) /\ Len(Front(p)) = 1 /\ <<a>> \in DirPath
    BY <2>1, <2>2 DEF Front, Last, DirPath
  <2>4. SubSeq(p, 1, 2) = p /\ SubSeq(p, 1, 1) = Front(p) /\ SubSeq(p, 1, 1) \in DirPath
    BY <2>1, <2>2, <2>3
  <2>5. b \in DirName => p \in DirPath
    BY <2>1 DEF DirPath
  <2>6. p \in DirPath => b \in DirName
    BY <2>1 DEF DirPath
  <2>7. ASSUME p \in FilePath PROVE b \in FileName
    <3>1. PICK d \in DirPath, f \in FileName : p = Append(d, f)
      BY <2>7 DEF FilePath
    <3>2. CASE \E x \in DirName : d = <<x>>
      <4>1. PICK x \in DirName : d = <<x>>
        BY <3>2
      <4>2. Append(<<x>>, f) = <<x, f>>
        BY ShortSequences
      <4> QED
        BY <2>1, <3>1, <4>1, <4>2
    <3>3. CASE \E x \in DirName, y \in DirName : d = <<x, y>>
      <4>1. PICK x \in DirName, y \in DirName : d = <<x, y>>
        BY <3>3
      <4>2. Append(<<x, y>>, f) = <<x, y, f>>
        BY ShortSequences
      <4> QED
        BY <2>1, <3>1, <4>1, <4>2
    <3> QED
      BY <3>1, <3>2, <3>3 DEF DirPath
  <2> QED
    BY <2>3, <2>4, <2>5, <2>6, <2>7, NameAssumption
<1>3. CASE \E a \in DirName, b \in DirName, c \in FileName : p = <<a, b, c>>
  <2>1. PICK a \in DirName, b \in DirName, c \in FileName : p = <<a, b, c>>
    BY <1>3
  <2>2. /\ Append(<<a, b>>, c) = <<a, b, c>> /\ SubSeq(<<a, b, c>>, 1, 1) = <<a>> /\ SubSeq(<<a, b, c>>, 1, 2) = <<a, b>>
        /\ SubSeq(<<a, b>>, 1, 1) = <<a>>
    BY ShortSequences
  <2>3. Len(p) = 3 /\ Front(p) = <<a, b>> /\ Last(p) = c /\ p = Append(Front(p), Last(p)) /\ Len(Front(p)) = 2
    BY <2>1, <2>2 DEF Front, Last
  <2>4. SubSeq(p, 1, 1) = <<a>> /\ SubSeq(p, 1, 2) = <<a, b>> /\ Front(<<a, b>>) = <<a>> /\ <<a>> \in DirPath /\ <<a, b>> \in DirPath
    BY <2>1, <2>2 DEF Front, DirPath
  <2>5. p \notin DirPath /\ c \notin DirName /\ c \in Name
    BY <2>1, NameAssumption DEF DirPath, Name
  <2>6. /\ Front(p) \in DirPath /\ SubSeq(p, 1, 1) \in DirPath /\ Len(SubSeq(p, 1, 1)) = 1 /\ SubSeq(p, 1, 2) = Front(p)
        /\ Len(SubSeq(p, 1, 2)) = 2 /\ Front(SubSeq(p, 1, 2)) = SubSeq(p, 1, 1)
    <3>1. Len(<<a>>) = 1 /\ Len(<<a, b>>) = 2
      OBVIOUS
    <3> QED
      BY <2>3, <2>4, <3>1
  <2> QED
    BY <2>1, <2>3, <2>5, <2>6
<1>4. ASSUME p \in FilePath PROVE \/ \E a \in DirName, b \in Name : p = <<a, b>>
                                  \/ \E a \in DirName, b \in DirName, c \in FileName : p = <<a, b, c>>
  <2>1. PICK d \in DirPath, f \in FileName : p = Append(d, f)
    BY <1>4 DEF FilePath
  <2>2. CASE \E x \in DirName : d = <<x>>
    <3>1. PICK x \in DirName : d = <<x>>
      BY <2>2
    <3>2. Append(<<x>>, f) = <<x, f>>
      BY ShortSequences
    <3> QED
      BY <2>1, <3>1, <3>2 DEF Name
  <2>3. CASE \E x \in DirName, y \in DirName : d = <<x, y>>
    <3>1. PICK x \in DirName, y \in DirName : d = <<x, y>>
      BY <2>3
    <3>2. Append(<<x, y>>, f) = <<x, y, f>>
      BY ShortSequences
    <3> QED
      BY <2>1, <3>1, <3>2
  <2> QED
    BY <2>1, <2>2, <2>3 DEF DirPath
<1>5. p \in DirPath => (\E a \in DirName : p = <<a>>) \/ (\E a \in DirName, b \in Name : p = <<a, b>>)
  BY DEF DirPath, Name
<1> QED
  BY <1>1, <1>2, <1>3, <1>4, <1>5 DEF Path

LEMMA PathsBelow ==
  ASSUME NEW d \in DirPath
  PROVE  /\ \A f \in FileName : Append(d, f) \in FilePath
         /\ Len(d) = 1 => \A n \in DirName : Append(d, n) \in DirPath
         /\ d \in Path
<1>1. \A f \in FileName : Append(d, f) \in FilePath
  BY DEF FilePath
<1>2. ASSUME Len(d) = 1, NEW n \in DirName PROVE Append(d, n) \in DirPath
  <2>1. PICK x \in DirName : d = <<x>>
    BY <1>2 DEF DirPath
  <2>2. Append(<<x>>, n) = <<x, n>>
    BY ShortSequences
  <2> QED
    BY <2>1, <2>2 DEF DirPath
<1> QED
  BY <1>1, <1>2 DEF Path

-----------------------------------------------------------------------------
(* The server                                                              *)

ObjectType == [name : Path \cup Name, parent : 0 .. MaxId, type : {"dir", "file", "link"}, target : FileName \cup {Outside}]
IsDir(i) == Live(i) /\ object[i].type = "dir"
IsRoot(i) == IsDir(i) /\ object[i].parent = 0 /\ object[i].name \in DirPath

(* Where an object may be: a directory is the root of an export or in such *)
(* a root; everything else is in a directory, under a name that no         *)
(* directory has.                                                          *)
Placed(i) ==
  IF object[i].type = "dir"
  THEN IsRoot(i) \/ (IsRoot(object[i].parent) /\ Len(object[object[i].parent].name) = 1 /\ object[i].name \in DirName)
  ELSE IsDir(object[i].parent) /\ object[i].name \in FileName

TreeInv ==
  /\ exports \in Seq(DirPath) /\ Len(exports) <= used /\ used \in 0 .. MaxId
  /\ object \in [Id -> {Absent} \cup ObjectType]
  /\ \A i \in Id : Live(i) => i <= used /\ Placed(i)
  /\ \A k \in DOMAIN exports : IsRoot(k) /\ object[k].name = exports[k]

LEMMA ObjectFacts ==
  ASSUME TreeInv, NEW i, Live(i)
  PROVE  /\ i \in Id /\ i # 0 /\ i \in Nat /\ object[i] \in ObjectType /\ object[i].parent \in 0 .. MaxId /\ i <= used
         /\ object[i].type \in {"dir", "file", "link"} /\ object[i].target \in FileName \cup {Outside}
         /\ object[i].parent # 0 => Live(object[i].parent) /\ IsDir(object[i].parent) /\ object[i].parent \in Id
<1>1. i \in Id /\ object[i] # Absent /\ i <= used /\ Placed(i)
  BY DEF Live, TreeInv
<1>2. i \in Nat /\ i # 0
  BY <1>1, ExportAssumption DEF Id
<1>3. object[i] \in ObjectType
  BY <1>1 DEF TreeInv
<1>4. object[i].parent # 0 => IsDir(object[i].parent)
  BY <1>1 DEF Placed, IsRoot
<1> QED
  BY <1>1, <1>2, <1>3, <1>4 DEF ObjectType, IsDir, Live

LEMMA PathsOfObjects ==
  ASSUME TreeInv, NEW i, Live(i)
  PROVE  /\ object[i].type = "dir" => PathOf(i) \in DirPath /\ DirPathOf(i) = PathOf(i)
         /\ object[i].type # "dir" => PathOf(i) \in FilePath
         /\ PathOf(i) \in Path
<1>1. Placed(i)
  BY DEF Live, TreeInv
<1>2. CASE IsRoot(i)
  BY <1>2 DEF IsRoot, IsDir, PathOf, DirPathOf, Path
<1>3. ASSUME NEW j, IsRoot(j) PROVE DirPathOf(j) = object[j].name /\ DirPathOf(j) \in DirPath
  BY <1>3 DEF IsRoot, DirPathOf
<1>4. CASE object[i].type = "dir" /\ ~IsRoot(i)
  <2>1. /\ IsRoot(object[i].parent) /\ Len(object[object[i].parent].name) = 1 /\ object[i].name \in DirName
        /\ object[object[i].parent].name \in DirPath
    BY <1>1, <1>4 DEF Placed, IsRoot
  <2>2. object[i].parent # 0
    BY <2>1, ObjectFacts DEF IsRoot, IsDir
  <2>3. PathOf(i) = Append(object[object[i].parent].name, object[i].name) /\ DirPathOf(i) = PathOf(i)
    BY <1>3, <2>1, <2>2 DEF PathOf, DirPathOf
  <2>4. PathOf(i) \in DirPath
    BY <2>1, <2>3, PathsBelow
  <2> QED
    BY <1>4, <2>3, <2>4 DEF Path
<1>5. CASE object[i].type # "dir"
  <2> DEFINE d == object[i].parent
  <2>1. IsDir(d) /\ object[i].name \in FileName /\ d # 0 /\ Live(d)
    BY <1>1, <1>5, ObjectFacts DEF Placed, IsDir
  <2>2. Placed(d)
    BY <2>1 DEF Live, TreeInv
  <2>3. ASSUME IsRoot(d) PROVE DirPathOf(d) \in DirPath
    BY <1>3, <2>3
  <2>4. ASSUME ~IsRoot(d) PROVE DirPathOf(d) \in DirPath
    <3>1. /\ IsRoot(object[d].parent) /\ Len(object[object[d].parent].name) = 1 /\ object[d].name \in DirName
          /\ object[object[d].parent].name \in DirPath
      BY <2>1, <2>2, <2>4 DEF Placed, IsRoot, IsDir
    <3>2. object[d].parent # 0
      BY <3>1, ObjectFacts DEF IsRoot, IsDir
    <3>3. DirPathOf(d) = Append(object[object[d].parent].name, object[d].name)
      BY <3>2 DEF DirPathOf
    <3> QED
      BY <3>1, <3>3, PathsBelow
  <2>5. DirPathOf(d) \in DirPath
    BY <1>3, <2>3, <2>4, PathsBelow
  <2>6. PathOf(i) = Append(DirPathOf(d), object[i].name)
    BY <2>1 DEF PathOf
  <2> QED
    BY <1>5, <2>1, <2>5, <2>6, PathsBelow DEF Path
<1> QED
  BY <1>2, <1>4, <1>5 DEF IsRoot, IsDir

(* What is in a directory is below its path.                               *)
LEMMA ChildrenAreBelow ==
  ASSUME TreeInv, NEW i, NEW d, Live(i), object[i].parent = d, d # 0
  PROVE  IsDir(d) /\ PathOf(i) = Append(PathOf(d), object[i].name) /\ object[i].name \in Name
<1>1. IsDir(d) /\ Live(d)
  BY ObjectFacts DEF IsDir
<1>2. PathOf(d) = DirPathOf(d)
  BY <1>1, PathsOfObjects DEF IsDir
<1>3. object[i].name \in Name
  BY ObjectFacts DEF TreeInv, Live, Placed, IsRoot, Name
<1> QED
  BY <1>1, <1>2, <1>3 DEF PathOf

LEMMA ChildFacts ==
  ASSUME TreeInv, NEW d, NEW n, ChildOf(d, n) # 0
  PROVE  LET i == ChildOf(d, n) IN
         /\ Live(i) /\ Live(d) /\ d # 0 /\ object[i].parent = d /\ object[i].name = n /\ PathOf(i) = Append(PathOf(d), n)
         /\ n \in FileName <=> object[i].type # "dir"
<1> DEFINE i == ChildOf(d, n)
           hits == {k \in Children(d) : object[k].name = n}
<1>1. Live(d) /\ i \in hits
  <2>1. Live(d) /\ hits # {}
    BY DEF ChildOf
  <2>2. i = CHOOSE k \in hits : TRUE
    BY <2>1 DEF ChildOf
  <2> QED
    BY <2>1, <2>2
<1>2. Live(i) /\ object[i].parent = d /\ object[i].name = n /\ d # 0
  BY <1>1, ObjectFacts DEF Children
<1> HIDE DEF i, hits
<1>3. PathOf(i) = Append(PathOf(d), n)
  BY <1>2, ChildrenAreBelow
<1>4. Placed(i)
  BY <1>2 DEF TreeInv, Live
<1>5. n \in FileName <=> object[i].type # "dir"
  BY <1>2, <1>4, NameAssumption DEF Placed, IsRoot
<1> QED
  BY <1>1, <1>2, <1>3, <1>5 DEF i

-----------------------------------------------------------------------------
(* Handles                                                                 *)

HandleType == [id : 0 .. MaxId, link : 0 .. MaxId + 1]

(* The handle fh may be cached for the path p: the object it is of, or the *)
(* link it was reached by, is there or it is gone for good; a link leads   *)
(* to no directory.                                                        *)
GoodHandle(fh, p) ==
  /\ fh \in HandleType /\ fh.id <= used /\ (fh.link <= used \/ fh.link = MaxId + 1)
  /\ Live(Own(fh)) => PathOf(Own(fh)) = p
  /\ fh.link # 0 => ~IsDir(fh.id)
GoodCache(c) == c \in [Path -> HandleType] /\ \A p \in Path : GoodHandle(c[p], p)

Kept(c, d) == \A p \in Path : c[p] # NoHandle => d[p] = c[p]

(* What getFileHandle() has made of the path and the cache c.              *)
LookedUp(r, path, c) == GoodHandle(r.fh, path) /\ GoodCache(r.cache) /\ Kept(c, r.cache)

LEMMA NoHandleIsGood ==
  ASSUME TreeInv
  PROVE  \A p : GoodHandle(NoHandle, p) /\ ~Live(NoHandle.id) /\ ~Live(0) /\ NoHandle.id = 0 /\ NoHandle.link = 0
<1>1. NoHandle.id = 0 /\ NoHandle.link = 0
  BY DEF NoHandle
<1>2. NoHandle \in HandleType /\ 0 <= used
  BY ExportAssumption DEF NoHandle, HandleType, TreeInv
<1>3. 0 \notin Id
  BY DEF Id
<1>4. Own(NoHandle) = 0
  BY <1>1, <1>3 DEF Own
<1> QED
  BY <1>1, <1>2, <1>3, <1>4 DEF GoodHandle, Live

(* The handle of a directory is that of the object at its path.            *)
LEMMA HandlesOfDirs ==
  ASSUME TreeInv, NEW fh, NEW p, GoodHandle(fh, p), IsDir(fh.id)
  PROVE  PathOf(fh.id) = p /\ p \in DirPath
<1>1. fh.link = 0 /\ 0 \notin Id
  BY DEF GoodHandle, Id
<1>2. Own(fh) = fh.id
  BY <1>1 DEF Own
<1>3. Live(fh.id) /\ object[fh.id].type = "dir"
  BY DEF IsDir
<1> QED
  BY <1>2, <1>3, PathsOfObjects DEF GoodHandle

(* A link names a sibling: a file.                                         *)
LEMMA LinksLeadToFiles ==
  ASSUME TreeInv, NEW d, NEW t \in FileName
  PROVE  LET to == ChildOf(d, t) IN to \in 0 .. MaxId /\ to <= used /\ ~IsDir(to)
<1>1. CASE ChildOf(d, t) = 0
  BY <1>1, NoHandleIsGood, ExportAssumption DEF IsDir, TreeInv
<1>2. CASE ChildOf(d, t) # 0
  <2>1. Live(ChildOf(d, t)) /\ object[ChildOf(d, t)].type # "dir"
    BY <1>2, ChildFacts
  <2> QED
    BY <2>1, ObjectFacts DEF IsDir, Id
<1> QED
  BY <1>1, <1>2

LEMMA HandleOfChild ==
  ASSUME TreeInv, NEW d, NEW n, ChildOf(d, n) # 0, NEW p, PathOf(ChildOf(d, n)) = p
  PROVE  LET fh == HandleOf(ChildOf(d, n), d) IN GoodHandle(fh, p) /\ fh # NoHandle
<1> DEFINE i == ChildOf(d, n)
<1>1. /\ Live(i) /\ i \in Id /\ i # 0 /\ i <= used /\ i \in 0 .. MaxId /\ PathOf(i) = p
      /\ object[i].target \in FileName \cup {Outside}
  BY ChildFacts, ObjectFacts DEF Id
<1>2. used \in 0 .. MaxId /\ MaxId \in Nat /\ 0 \notin Id /\ MaxId + 1 \notin Id
  BY ExportAssumption DEF TreeInv, Id
<1> HIDE DEF i
<1>3. CASE object[i].type # "link"
  <2> DEFINE fh == [id |-> i, link |-> 0]
  <2>1. HandleOf(i, d) = fh
    BY <1>3 DEF HandleOf
  <2>2. fh \in HandleType /\ fh.id = i /\ fh.link = 0 /\ Own(fh) = i /\ fh # NoHandle
    BY <1>1, <1>2 DEF HandleType, Own, NoHandle
  <2> HIDE DEF fh
  <2>3. GoodHandle(fh, p)
    BY <1>1, <1>2, <2>2 DEF GoodHandle
  <2> QED
    BY <2>1, <2>2, <2>3 DEF i
<1>4. CASE object[i].type = "link"
  <2> DEFINE to == IF object[i].target = Outside THEN 0 ELSE ChildOf(d, object[i].target)
  <2>1. to \in 0 .. MaxId /\ to <= used /\ ~IsDir(to)
    <3>1. CASE object[i].target = Outside
      BY <1>2, <3>1, NoHandleIsGood DEF IsDir
    <3>2. CASE object[i].target # Outside
      BY <1>1, <3>2, LinksLeadToFiles
    <3> QED
      BY <3>1, <3>2
  <2>2. HandleOf(i, d) = IF to = 0 THEN BadLink(i) ELSE [id |-> to, link |-> i]
    BY <1>4 DEF HandleOf
  <2> HIDE DEF to
  <2>3. ~IsDir(i)
    BY <1>4 DEF IsDir
  <2>4. CASE to = 0
    <3> DEFINE fh == [id |-> i, link |-> MaxId + 1]
    <3>1. HandleOf(i, d) = fh
      BY <2>2, <2>4 DEF BadLink
    <3>2. fh \in HandleType /\ fh.id = i /\ fh.link = MaxId + 1 /\ Own(fh) = i /\ fh # NoHandle
      BY <1>1, <1>2 DEF HandleType, Own, NoHandle
    <3> HIDE DEF fh
    <3>3. GoodHandle(fh, p)
      BY <1>1, <1>2, <2>3, <3>2 DEF GoodHandle
    <3> QED
      BY <3>1, <3>2, <3>3 DEF i
  <2>5. CASE to # 0
    <3> DEFINE fh == [id |-> to, link |-> i]
    <3>1. HandleOf(i, d) = fh
      BY <2>2, <2>5
    <3>2. fh \in HandleType /\ fh.id = to /\ fh.link = i /\ Own(fh) = i /\ fh # NoHandle
      BY <1>1, <1>2, <2>1, <2>5 DEF HandleType, Own, NoHandle
    <3> HIDE DEF fh
    <3>3. GoodHandle(fh, p)
      BY <1>1, <1>2, <2>1, <3>2 DEF GoodHandle
    <3> QED
      BY <3>1, <3>2, <3>3 DEF i
  <2> QED
    BY <2>4, <2>5
<1> QED
  BY <1>3, <1>4

LEMMA LookupBelow ==
  ASSUME TreeInv, NEW c, GoodCache(c), NEW path \in Path, NEW up, NEW parent,
         GoodCache(parent.cache), Kept(c, parent.cache),
         parent.fh = NoHandle \/ (Len(path) # 1 /\ GoodHandle(parent.fh, Front(path)))
  PROVE  LookedUp(HandleBelow(parent, path, c, up), path, c)
<1> DEFINE child == ChildOf(parent.fh.id, Last(path))
           found == HandleOf(child, parent.fh.id)
           nothing == [fh |-> NoHandle, cache |-> c]
           cached == [fh |-> c[path], cache |-> c]
           failed == [fh |-> NoHandle, cache |-> parent.cache]
           new == [fh |-> found, cache |-> [parent.cache EXCEPT ![path] = found]]
           r == HandleBelow(parent, path, c, up)
<1>1. Kept(c, c)
  BY DEF Kept
<1>2. LookedUp(nothing, path, c) /\ LookedUp(failed, path, c)
  BY <1>1, NoHandleIsGood DEF LookedUp
<1>3. LookedUp(cached, path, c)
  BY <1>1 DEF LookedUp, GoodCache
<1>4. ASSUME parent.fh # NoHandle, child # 0, c[path] = NoHandle PROVE LookedUp(new, path, c)
  <2>1. Len(path) # 1 /\ GoodHandle(parent.fh, Front(path)) /\ path = Append(Front(path), Last(path))
    BY <1>4, PathShapes
  <2>2. Live(child) /\ object[child].parent = parent.fh.id /\ parent.fh.id # 0
    BY <1>4, ChildFacts
  <2>3. IsDir(parent.fh.id)
    BY <2>2, ChildrenAreBelow
  <2>4. PathOf(child) = path
    BY <1>4, <2>1, <2>3, ChildFacts, HandlesOfDirs
  <2>5. GoodHandle(found, path)
    BY <1>4, <2>4, HandleOfChild
  <2> HIDE DEF found
  <2>6. found \in HandleType
    BY <2>5 DEF GoodHandle
  <2>7. GoodCache(new.cache)
    BY <2>5, <2>6 DEF GoodCache
  <2>8. Kept(c, new.cache)
    BY <1>4 DEF Kept, GoodCache
  <2> QED
    BY <2>5, <2>7, <2>8 DEF LookedUp
<1>5. r = nothing \/ r = cached \/ r = failed \/ (parent.fh # NoHandle /\ child # 0 /\ c[path] = NoHandle /\ r = new)
  BY DEF HandleBelow
<1> QED
  BY <1>2, <1>3, <1>4, <1>5

(* Whatever getFileHandle() gives and caches is right, and it drops no     *)
(* handle.                                                                 *)
LEMMA LookupIsGood ==
  ASSUME TreeInv, NEW c, GoodCache(c), NEW path \in Path, NEW up
  PROVE  LookedUp(GetFileHandleIn(path, c, up), path, c)
<1> DEFINE start == [fh |-> NoHandle, cache |-> c]
           one == SubSeq(path, 1, 1)
           two == SubSeq(path, 1, 2)
           top == HandleBelow(start, one, c, up)
           middle == HandleBelow(top, two, c, up)
           last == HandleBelow(middle, path, c, up)
<1>1. /\ Len(path) \in 1 .. 3 /\ one \in DirPath /\ one \in Path /\ Len(one) = 1
      /\ Len(path) = 1 => one = path
      /\ Len(path) = 2 => two = path /\ one = Front(path)
      /\ Len(path) = 3 => two = Front(path) /\ two \in DirPath /\ two \in Path /\ Len(two) = 2 /\ Front(two) = one
  BY PathShapes DEF Path
<1>2. GetFileHandleIn(path, c, up) = CASE Len(path) = 0 -> start [] Len(path) = 1 -> top [] Len(path) = 2 -> middle [] Len(path) = 3 -> last
  BY DEF GetFileHandleIn
<1>3. start.fh = NoHandle /\ start.cache = c /\ Kept(c, c)
  BY DEF Kept
<1> HIDE DEF start, one, two
<1>4. LookedUp(top, one, c)
  BY <1>1, <1>3, LookupBelow
<1> HIDE DEF top
<1>5. GoodCache(top.cache) /\ Kept(c, top.cache) /\ GoodHandle(top.fh, one)
  BY <1>4 DEF LookedUp
<1>6. ASSUME Len(path) \in {2, 3} PROVE LookedUp(middle, two, c)
  <2>1. two \in Path /\ Len(two) = 2 /\ Front(two) = one
    BY <1>1, <1>6
  <2> QED
    BY <1>5, <2>1, LookupBelow
<1> HIDE DEF middle
<1>7. ASSUME Len(path) = 3 PROVE LookedUp(last, path, c)
  <2>1. LookedUp(middle, two, c) /\ two = Front(path)
    BY <1>1, <1>6, <1>7
  <2>2. GoodCache(middle.cache) /\ Kept(c, middle.cache) /\ GoodHandle(middle.fh, Front(path))
    BY <2>1 DEF LookedUp
  <2> QED
    BY <1>7, <2>2, LookupBelow
<1> HIDE DEF last
<1>8. CASE Len(path) = 1
  BY <1>1, <1>2, <1>4, <1>8
<1>9. CASE Len(path) = 2
  BY <1>1, <1>2, <1>6, <1>9
<1>10. CASE Len(path) = 3
  BY <1>2, <1>7, <1>10
<1> QED
  BY <1>1, <1>8, <1>9, <1>10

-----------------------------------------------------------------------------
(* What the operations do to the server                                    *)

(* No object comes back, none changes what it is, and only the objects in  *)
(* X move; a root stays, and so does what has something in it.             *)
Evolves(X) ==
  /\ exports' = exports /\ used' \in used .. MaxId /\ object' \in [Id -> {Absent} \cup ObjectType]
  /\ \A i \in Id : Live(i) /\ (IsRoot(i) \/ Children(i) # {}) => object'[i] = object[i]
  /\ \A i \in Id : object'[i] # Absent /\ i <= used =>
       Live(i) /\ object'[i].type = object[i].type /\ (i \notin X => object'[i] = object[i])

(* Object i is new in the directory d, or has moved there.                 *)
Arrives(i, d, n) ==
  /\ object'[i].parent = d /\ object'[i].name = n
  /\ IsDir(d) /\ object'[d] = object[d]
  /\ IF object'[i].type = "dir" THEN IsRoot(d) /\ Len(object[d].name) = 1 /\ n \in DirName ELSE n \in FileName

LEMMA LiveNext == \A i : (Live(i)' <=> i \in Id /\ object'[i] # Absent)
BY DEF Live, Id

LEMMA ParentsStay ==
  ASSUME TreeInv, NEW X, Evolves(X), NEW i, Live(i), object[i].parent # 0
  PROVE  LET d == object[i].parent IN Live(d) /\ IsDir(d) /\ d \in Id /\ object'[d] = object[d]
<1> DEFINE d == object[i].parent
<1>1. Live(d) /\ IsDir(d) /\ d \in Id /\ i \in Id
  BY ObjectFacts
<1>2. i \in Children(d)
  BY <1>1 DEF Children
<1> QED
  BY <1>1, <1>2 DEF Evolves

LEMMA DirPathsStay ==
  ASSUME TreeInv, NEW X, Evolves(X), NEW d, Live(d), object'[d] = object[d]
  PROVE  DirPathOf(d)' = DirPathOf(d)
<1>1. CASE object[d].parent = 0
  BY <1>1 DEF DirPathOf
<1>2. CASE object[d].parent # 0
  BY <1>2, ParentsStay DEF DirPathOf
<1> QED
  BY <1>1, <1>2

LEMMA PathsStay ==
  ASSUME TreeInv, NEW X, Evolves(X), NEW i, Live(i), object'[i] = object[i]
  PROVE  PathOf(i)' = PathOf(i)
<1>1. CASE object[i].parent = 0
  BY <1>1 DEF PathOf
<1>2. CASE object[i].parent # 0
  <2>1. PICK d : d = object[i].parent
    OBVIOUS
  <2>2. Live(d) /\ object'[d] = object[d]
    BY <1>2, <2>1, ParentsStay
  <2>3. DirPathOf(d)' = DirPathOf(d)
    BY <2>2, DirPathsStay
  <2>4. PathOf(i)' = Append(DirPathOf(d)', object[i].name) /\ PathOf(i) = Append(DirPathOf(d), object[i].name)
    BY <1>2, <2>1 DEF PathOf
  <2> QED
    BY <2>3, <2>4
<1> QED
  BY <1>1, <1>2

LEMMA HandlesStay ==
  ASSUME TreeInv, NEW X, Evolves(X), NEW fh, NEW p, GoodHandle(fh, p), Live(Own(fh)) => Own(fh) \notin X
  PROVE  GoodHandle(fh, p)'
<1>1. fh \in HandleType /\ fh.id <= used /\ (fh.link <= used \/ fh.link = MaxId + 1)
  BY DEF GoodHandle
<1>2. used \in Nat /\ used' \in Nat /\ used <= used' /\ MaxId \in Nat
  BY ExportAssumption DEF TreeInv, Evolves
<1>3. fh.id \in Nat /\ fh.link \in Nat
  BY <1>1, <1>2 DEF HandleType
<1>4. (fh \in HandleType)' /\ fh.id <= used' /\ (fh.link <= used' \/ fh.link = MaxId + 1)
  BY <1>1, <1>2, <1>3 DEF HandleType
<1>5. PICK own : own = Own(fh)
  OBVIOUS
<1>6. Own(fh)' = own
  BY <1>5 DEF Own, Id
<1>7. own <= used \/ own \notin Id
  BY <1>1, <1>2, <1>3, <1>5 DEF Own, Id
<1>8. ASSUME own \in Id, object'[own] # Absent PROVE PathOf(own)' = p
  <2>1. own <= used
    BY <1>7, <1>8
  <2>2. Live(own) /\ own \notin X
    BY <1>5, <1>8, <2>1 DEF Evolves
  <2>3. object'[own] = object[own]
    BY <1>8, <2>1, <2>2 DEF Evolves
  <2>4. PathOf(own)' = PathOf(own)
    BY <2>2, <2>3, PathsStay
  <2> QED
    BY <1>5, <2>2, <2>4 DEF GoodHandle
<1>9. ASSUME fh.link # 0, fh.id \in Id, object'[fh.id] # Absent, object'[fh.id].type = "dir" PROVE FALSE
  <2>1. Live(fh.id) /\ object[fh.id].type = "dir"
    BY <1>1, <1>9 DEF Evolves
  <2> QED
    BY <1>9, <2>1 DEF GoodHandle, IsDir
<1>10. Live(own)' => PathOf(own)' = p
  BY <1>8, LiveNext
<1>11. fh.link # 0 => ~IsDir(fh.id)'
  BY <1>9, LiveNext DEF IsDir
<1> QED
  BY <1>4, <1>6, <1>10, <1>11 DEF GoodHandle

LEMMA CacheStays ==
  ASSUME TreeInv, NEW X, Evolves(X), NEW c, GoodCache(c), \A p \in Path : Live(Own(c[p])) => Own(c[p]) \notin X
  PROVE  GoodCache(c)'
<1>1. \A p \in Path : GoodHandle(c[p], p)'
  <2> SUFFICES ASSUME NEW p \in Path PROVE GoodHandle(c[p], p)'
    OBVIOUS
  <2>1. PICK fh : fh = c[p]
    OBVIOUS
  <2>2. GoodHandle(fh, p) /\ (Live(Own(fh)) => Own(fh) \notin X)
    BY <2>1 DEF GoodCache
  <2>3. GoodHandle(fh, p)'
    BY <2>2, HandlesStay
  <2> QED
    BY <2>1, <2>3
<1> QED
  BY <1>1 DEF GoodCache, HandleType, Path, DirPath, FilePath

LEMMA ArrivedAt ==
  ASSUME TreeInv, NEW X, Evolves(X), NEW i, NEW d, NEW n, Arrives(i, d, n)
  PROVE  PathOf(i)' = Append(PathOf(d), n)
<1>1. Live(d) /\ d # 0 /\ DirPathOf(d) = PathOf(d)
  BY ObjectFacts, PathsOfObjects DEF Arrives, IsDir
<1>2. DirPathOf(d)' = DirPathOf(d)
  BY <1>1, DirPathsStay DEF Arrives
<1>3. PathOf(i)' = Append(DirPathOf(d)', n)
  BY <1>1 DEF PathOf, Arrives
<1> QED
  BY <1>1, <1>2, <1>3

LEMMA TreeStays ==
  ASSUME TreeInv, NEW X, Evolves(X),
         \A i \in Id : object'[i] # Absent => i <= used',
         \A i \in Id : object'[i] # Absent /\ (i > used \/ i \in X) => \E d, n : Arrives(i, d, n)
  PROVE  TreeInv'
<1>1. \A d : IsRoot(d) => object'[d] = object[d] /\ IsRoot(d)'
  BY DEF IsRoot, IsDir, Live, Evolves, Id, DirPath
<1>2. ASSUME NEW d, IsDir(d), object'[d] = object[d] PROVE IsDir(d)'
  BY <1>2 DEF IsDir, Live, Id
<1>3. ASSUME NEW i \in Id, object'[i] # Absent PROVE Placed(i)'
  <2>1. CASE i > used \/ i \in X
    <3>1. PICK d, n : Arrives(i, d, n)
      BY <1>3, <2>1
    <3>2. IsDir(d)' /\ (IsRoot(d) => IsRoot(d)')
      BY <1>1, <1>2, <3>1 DEF Arrives
    <3> QED
      BY <3>1, <3>2 DEF Arrives, Placed
  <2>2. CASE i <= used /\ i \notin X
    <3>1. Live(i) /\ object'[i] = object[i] /\ Placed(i)
      BY <1>3, <2>2 DEF Evolves, TreeInv
    <3>2. CASE IsRoot(i)
      BY <1>1, <3>1, <3>2 DEF Placed, IsRoot, IsDir
    <3>3. CASE ~IsRoot(i)
      <4>1. PICK d : d = object[i].parent
        OBVIOUS
      <4>2. IsDir(d) /\ d # 0
        BY <3>1, <3>3, <4>1, ObjectFacts DEF Placed, IsRoot, IsDir
      <4>3. object'[d] = object[d] /\ IsDir(d)'
        BY <1>2, <3>1, <4>1, <4>2, ParentsStay
      <4>4. IsRoot(d) => IsRoot(d)'
        BY <1>1
      <4> QED
        BY <3>1, <3>3, <4>1, <4>3, <4>4 DEF Placed
    <3> QED
      BY <3>2, <3>3
  <2> QED
    BY <2>1, <2>2, ExportAssumption DEF TreeInv, Id
<1>4. (exports \in Seq(DirPath))' /\ Len(exports') <= used' /\ used' \in 0 .. MaxId
  <2>1. Len(exports) \in Nat
    BY LenProperties DEF TreeInv
  <2> QED
    BY <2>1, ExportAssumption DEF TreeInv, Evolves, DirPath
<1>5. (object \in [Id -> {Absent} \cup ObjectType])'
  BY DEF Evolves, Id, ObjectType, Path, DirPath, FilePath, Name
<1>6. (\A k \in DOMAIN exports : IsRoot(k) /\ object[k].name = exports[k])'
  BY <1>1 DEF TreeInv, Evolves
<1>7. (\A i \in Id : Live(i) => i <= used /\ Placed(i))'
  BY <1>3, LiveNext DEF Id
<1> QED
  BY <1>4, <1>5, <1>6, <1>7 DEF TreeInv

-----------------------------------------------------------------------------
(* The invariant, and what a step keeps besides                            *)

HandlesInv == TreeInv /\ GoodCache(m_handleCache) /\ m_exportedDirs \subseteq DirPath

KeepsExports == \A p \in m_exportedDirs : m_handleCache[p] # NoHandle => m_handleCache'[p] # NoHandle
RemovesNamed == \A i \in Id : Live(i) /\ ~Live(i)' => named' = PathOf(i)
GoodStep == HandlesInv' /\ KeepsExports /\ RemovesNamed

LEMMA HandlesTyped == HandlesInit => HandlesInv
<1> SUFFICES ASSUME HandlesInit PROVE HandlesInv
  OBVIOUS
<1>1. exports \in Seq(DirPath) /\ Len(exports) \in 1 .. MaxId - 1 /\ used = Len(exports) + 1 /\ MaxId \in Nat
  BY ExportAssumption DEF HandlesInit
<1>2. PICK f \in FileName :
        object = [i \in Id |->
          IF i <= Len(exports) THEN [name |-> exports[i], parent |-> 0, type |-> "dir", target |-> Outside]
          ELSE IF i = used THEN [name |-> f, parent |-> 1, type |-> "file", target |-> Outside]
          ELSE Absent]
  BY DEF HandlesInit
<1>3. used \in Id /\ used \in 0 .. MaxId /\ 1 \in Id /\ DOMAIN exports = 1 .. Len(exports) /\ \A i \in Id : i \in Nat /\ i # 0
  BY <1>1 DEF Id
<1>4. ASSUME NEW k \in Id, k <= Len(exports)
      PROVE  /\ object[k] = [name |-> exports[k], parent |-> 0, type |-> "dir", target |-> Outside]
             /\ exports[k] \in DirPath /\ object[k] \in ObjectType /\ object[k] # Absent
  <2>1. object[k] = [name |-> exports[k], parent |-> 0, type |-> "dir", target |-> Outside]
    BY <1>2, <1>4
  <2>2. exports[k] \in DirPath
    BY <1>1, <1>3, <1>4
  <2>3. 0 \in 0 .. MaxId
    BY <1>1
  <2>4. object[k] \in ObjectType
    BY <2>1, <2>2, <2>3 DEF ObjectType, Path
  <2> QED
    BY <2>1, <2>2, <2>4, ObjectAssumption DEF ObjectType
<1>5. ASSUME NEW k \in Id, k <= Len(exports)
      PROVE  IsRoot(k) /\ object[k].name = exports[k] /\ object[k].type = "dir" /\ object[k] \in ObjectType
  <2>1. /\ object[k].name = exports[k] /\ object[k].parent = 0 /\ object[k].type = "dir"
        /\ exports[k] \in DirPath /\ object[k] \in ObjectType /\ object[k] # Absent
    <3>1. object[k] = [name |-> exports[k], parent |-> 0, type |-> "dir", target |-> Outside]
      BY <1>4, <1>5
    <3>2. exports[k] \in DirPath /\ object[k] \in ObjectType /\ object[k] # Absent
      BY <1>4, <1>5
    <3> QED
      BY <3>1, <3>2
  <2> QED
    BY <2>1 DEF IsRoot, IsDir, Live
<1>6. /\ object[used] = [name |-> f, parent |-> 1, type |-> "file", target |-> Outside]
      /\ object[used] \in ObjectType
  <2>1. object[used] = [name |-> f, parent |-> 1, type |-> "file", target |-> Outside]
    BY <1>1, <1>2, <1>3
  <2>2. 1 \in 0 .. MaxId /\ f \in Path \cup Name
    BY <1>1 DEF Name
  <2> QED
    BY <2>1, <2>2 DEF ObjectType
<1>7. IsDir(1)
  BY <1>1, <1>3, <1>5 DEF IsRoot
<1>8. Placed(used)
  BY <1>6, <1>7 DEF Placed
<1>9. ASSUME NEW i \in Id PROVE object[i] \in {Absent} \cup ObjectType /\ (Live(i) => i <= used /\ Placed(i))
  <2>1. CASE i <= Len(exports)
    <3>1. object[i] \in ObjectType /\ IsRoot(i) /\ i <= used /\ object[i].type = "dir"
      BY <1>1, <1>3, <1>5, <2>1
    <3> QED
      BY <3>1 DEF Placed
  <2>2. CASE i = used
    BY <1>3, <1>6, <1>8, <2>2
  <2>3. CASE i > Len(exports) /\ i # used
    <3>1. object[i] = Absent
      BY <1>1, <1>2, <1>3, <2>3
    <3> QED
      BY <3>1 DEF Live
  <2> QED
    BY <1>1, <1>3, <2>1, <2>2, <2>3
<1>10. TreeInv
  <2>1. object \in [Id -> {Absent} \cup ObjectType]
    BY <1>2, <1>9
  <2>2. \A k \in DOMAIN exports : IsRoot(k) /\ object[k].name = exports[k]
    <3>1. \A k \in DOMAIN exports : k \in Id /\ k <= Len(exports)
      BY <1>1, <1>3 DEF Id
    <3> QED
      BY <1>5, <3>1
  <2>3. Len(exports) <= used
    BY <1>1
  <2>4. \A i \in Id : Live(i) => i <= used /\ Placed(i)
    BY <1>9
  <2> QED
    BY <1>1, <1>3, <2>1, <2>2, <2>3, <2>4 DEF TreeInv
<1>11. m_handleCache = [p \in Path |-> NoHandle] /\ m_exportedDirs = {}
  BY DEF HandlesInit
<1>12. NoHandle \in HandleType
  BY <1>1 DEF NoHandle, HandleType
<1>13. GoodCache(m_handleCache)
  BY <1>10, <1>11, <1>12, NoHandleIsGood DEF GoodCache
<1> QED
  BY <1>10, <1>11, <1>13 DEF HandlesInv

LEMMA ServerStill ==
  ASSUME TreeInv, UNCHANGED serverVars
  PROVE  Evolves({}) /\ TreeInv' /\ RemovesNamed
<1>1. object' = object /\ used' = used /\ exports' = exports
  BY DEF serverVars
<1>2. used' \in used .. MaxId
  BY <1>1, ExportAssumption DEF TreeInv
<1>3. Evolves({})
  BY <1>1, <1>2 DEF Evolves, TreeInv, Live
<1>4. \A i \in Id : object'[i] # Absent => i <= used' /\ ~(i > used)
  BY <1>1, ExportAssumption DEF TreeInv, Live, Id
<1>5. TreeInv'
  BY <1>3, <1>4, TreeStays
<1>6. RemovesNamed
  BY <1>1, LiveNext DEF RemovesNamed, Live
<1> QED
  BY <1>3, <1>5, <1>6

LEMMA CacheIs ==
  ASSUME NEW c, GoodCache(c)', m_handleCache' = c
  PROVE  GoodCache(m_handleCache)'
BY DEF GoodCache, GoodHandle, Own, Live, PathOf, DirPathOf, IsDir, HandleType

LEMMA CacheStep ==
  ASSUME TreeInv, NEW X, Evolves(X), NEW c, GoodCache(c), m_handleCache' = c,
         \A p \in Path : Live(Own(c[p])) => Own(c[p]) \notin X
  PROVE  GoodCache(m_handleCache)'
<1>1. GoodCache(c)'
  BY CacheStays
<1> QED
  BY <1>1, CacheIs

(* A new entry of a cache.                                                 *)
LEMMA CacheEntry ==
  ASSUME NEW c, GoodCache(c)', NEW p \in Path, NEW x, x = c[p]
  PROVE  GoodHandle(x, p)'
BY DEF GoodCache, Path, DirPath, FilePath

LEMMA CacheFrom ==
  ASSUME NEW c \in [Path -> HandleType], \A p \in Path : GoodHandle(c[p], p)'
  PROVE  GoodCache(c)'
BY DEF GoodCache, Path, DirPath, FilePath, HandleType

LEMMA CachePlus ==
  ASSUME NEW c, NEW d, NEW q \in Path, NEW fh, GoodCache(c)', GoodHandle(fh, q)',
         d[q] = fh, \A p \in Path : p # q => d[p] = c[p], d = [p \in Path |-> d[p]]
  PROVE  GoodCache(d)'
<1>1. \A p \in Path : GoodHandle(d[p], p)'
  <2> SUFFICES ASSUME NEW p \in Path PROVE GoodHandle(d[p], p)'
    OBVIOUS
  <2>1. PICK x : x = d[p]
    OBVIOUS
  <2>2. GoodHandle(x, p)'
    <3>1. CASE p = q
      BY <2>1, <3>1
    <3>2. CASE p # q
      <4>1. x = c[p]
        BY <2>1, <3>2
      <4> QED
        BY <4>1, CacheEntry
    <3> QED
      BY <3>1, <3>2
  <2> QED
    BY <2>1, <2>2
<1>2. \A p \in Path : d[p] \in HandleType
  BY <1>1 DEF GoodHandle, HandleType
<1>3. d \in [Path -> HandleType]
  BY <1>2
<1> QED
  BY <1>1, <1>3, CacheFrom

(* An operation that has only looked for handles.                          *)
LEMMA OnlyLooks ==
  ASSUME HandlesInv, UNCHANGED <<serverVars, m_exportedDirs>>, NEW c, GoodCache(c), Kept(m_handleCache, c), m_handleCache' = c
  PROVE  GoodStep
<1>1. Evolves({}) /\ TreeInv' /\ RemovesNamed
  BY ServerStill DEF HandlesInv
<1>2. GoodCache(m_handleCache)'
  BY <1>1, CacheStep DEF HandlesInv
<1>3. (m_exportedDirs \subseteq DirPath)'
  BY DEF HandlesInv, DirPath
<1>4. KeepsExports
  BY DEF KeepsExports, Kept, HandlesInv, Path
<1> QED
  BY <1>1, <1>2, <1>3, <1>4 DEF GoodStep, HandlesInv

-----------------------------------------------------------------------------
(* What is made and removed                                                *)

LEMMA FoundBelow ==
  ASSUME TreeInv, NEW fh, NEW p \in Path, Len(p) # 1, GoodHandle(fh, Front(p)), ChildOf(fh.id, Last(p)) # 0
  PROVE  LET i == ChildOf(fh.id, Last(p)) IN
         /\ Live(i) /\ i \in Id /\ i # 0 /\ i <= used /\ PathOf(i) = p /\ object[i].parent = fh.id /\ object[i].parent # 0
         /\ ~IsRoot(i) /\ IsDir(fh.id)
<1>1. PICK i : i = ChildOf(fh.id, Last(p))
  OBVIOUS
<1>2. Live(i) /\ object[i].parent = fh.id /\ fh.id # 0 /\ PathOf(i) = Append(PathOf(fh.id), Last(p))
  BY <1>1, ChildFacts
<1>3. i \in Id /\ i # 0 /\ i <= used /\ IsDir(fh.id)
  BY <1>2, ObjectFacts
<1>4. PathOf(i) = p
  BY <1>2, <1>3, HandlesOfDirs, PathShapes
<1> QED
  BY <1>1, <1>2, <1>3, <1>4 DEF IsRoot

(* A path of one name is that of an export.                                *)
LEMMA TopDirs ==
  ASSUME TreeInv, NEW d, IsDir(d), Len(PathOf(d)) = 1
  PROVE  IsRoot(d) /\ Len(object[d].name) = 1
<1>1. Live(d) /\ object[d].type = "dir" /\ Placed(d)
  BY DEF IsDir, Live, TreeInv
<1>2. CASE IsRoot(d)
  BY <1>2 DEF IsRoot, PathOf
<1>3. ASSUME ~IsRoot(d) PROVE FALSE
  <2>1. PICK t : t = object[d].parent
    OBVIOUS
  <2>2. IsRoot(t) /\ Len(object[t].name) = 1 /\ object[d].name \in DirName
    BY <1>1, <1>3, <2>1 DEF Placed
  <2>3. PICK x : x = object[t].name
    OBVIOUS
  <2>4. t # 0 /\ object[t].parent = 0 /\ x \in DirPath
    BY <2>2, <2>3, ObjectFacts DEF IsRoot, IsDir
  <2>5. PathOf(d) = Append(x, object[d].name)
    BY <2>1, <2>3, <2>4 DEF PathOf, DirPathOf
  <2>6. PICK a \in DirName : x = <<a>>
    BY <2>2, <2>3, <2>4 DEF DirPath
  <2>7. Append(<<a>>, object[d].name) = <<a, object[d].name>>
    BY ShortSequences
  <2>8. Len(PathOf(d)) = 2
    BY <2>5, <2>6, <2>7
  <2> QED
    BY <2>8
<1> QED
  BY <1>2, <1>3

LEMMA Created ==
  ASSUME TreeInv, NEW name, NEW dir, NEW type, NEW target, Add(name, dir, type, target), exports' = exports,
         IsDir(dir), type \in {"dir", "file", "link"}, target \in FileName \cup {Outside},
         IF type = "dir" THEN IsRoot(dir) /\ Len(object[dir].name) = 1 /\ name \in DirName ELSE name \in FileName
  PROVE  Evolves({}) /\ TreeInv' /\ RemovesNamed
<1> DEFINE new == used + 1
           o == [name |-> name, parent |-> dir, type |-> type, target |-> target]
<1>1. used \in Nat /\ MaxId \in Nat /\ used < MaxId /\ used' = new /\ new \in Id /\ object' = [object EXCEPT ![new] = o]
  BY ExportAssumption DEF TreeInv, Add, Id
<1>2. o \in ObjectType
  <2>1. dir \in 0 .. MaxId
    BY <1>1, ObjectFacts DEF IsDir, Id
  <2> QED
    BY <2>1 DEF ObjectType, Name
<1>3. object \in [Id -> {Absent} \cup ObjectType]
  BY DEF TreeInv
<1>4. object' \in [Id -> {Absent} \cup ObjectType] /\ object'[new] = o /\ \A i \in Id : i # new => object'[i] = object[i]
  BY <1>1, <1>2, <1>3
<1>5. \A i : Live(i) => i \in Nat /\ i <= used /\ i # new
  BY <1>1, ObjectFacts
<1>6. o.name = name /\ o.parent = dir /\ o.type = type
  OBVIOUS
<1>7. \A i \in Id : i \in Nat
  BY DEF Id
<1> HIDE DEF new, o
<1>8. new = used + 1
  BY DEF new
<1>9. Evolves({})
  <2>1. used' \in used .. MaxId
    BY <1>1, <1>8
  <2>2. \A i \in Id : Live(i) => object'[i] = object[i]
    BY <1>4, <1>5
  <2>3. \A i \in Id : object'[i] # Absent /\ i <= used => Live(i) /\ object'[i] = object[i]
    BY <1>1, <1>4, <1>7, <1>8 DEF Live
  <2> QED
    BY <1>4, <2>1, <2>2, <2>3 DEF Evolves
<1>10. Arrives(new, dir, name)
  <2>1. dir \in Id /\ dir # new
    BY <1>5, ObjectFacts DEF IsDir
  <2> QED
    BY <1>4, <1>6, <2>1 DEF Arrives
<1>11. ASSUME NEW i \in Id, object'[i] # Absent PROVE i <= used' /\ (i > used => i = new)
  <2>1. CASE i = new
    BY <1>1, <1>7, <2>1
  <2>2. CASE i # new
    <3>1. Live(i)
      BY <1>4, <1>11, <2>2 DEF Live
    <3> QED
      BY <1>1, <1>5, <1>8, <3>1
  <2> QED
    BY <2>1, <2>2
<1>12. TreeInv'
  BY <1>9, <1>10, <1>11, TreeStays
<1>13. RemovesNamed
  BY <1>4, <1>5, LiveNext DEF RemovesNamed, Live
<1> QED
  BY <1>9, <1>12, <1>13

LEMMA Removed ==
  ASSUME TreeInv, NEW id, Removable(id), object[id].parent # 0, object' = [object EXCEPT ![id] = Absent],
         UNCHANGED <<exports, used>>, named' = PathOf(id)
  PROVE  Evolves({}) /\ TreeInv' /\ RemovesNamed
<1>1. Live(id) /\ id \in Id /\ ~IsRoot(id) /\ Children(id) = {}
  BY DEF Removable, Live, IsRoot
<1>2. object \in [Id -> {Absent} \cup ObjectType] /\ used \in 0 .. MaxId
  BY DEF TreeInv
<1>3. object' \in [Id -> {Absent} \cup ObjectType] /\ object'[id] = Absent /\ \A i \in Id : i # id => object'[i] = object[i]
  BY <1>1, <1>2
<1>4. used' \in used .. MaxId
  BY <1>2, ExportAssumption
<1>5. Evolves({})
  BY <1>1, <1>3, <1>4 DEF Evolves, Live
<1>6. \A i \in Id : object'[i] # Absent => i <= used' /\ ~(i > used)
  <2> SUFFICES ASSUME NEW i \in Id, object'[i] # Absent PROVE i <= used
    BY <1>2, ExportAssumption DEF Id
  <2> QED
    BY <1>3 DEF TreeInv, Live
<1>7. TreeInv'
  BY <1>5, <1>6, TreeStays
<1>8. RemovesNamed
  BY <1>1, <1>3, LiveNext DEF RemovesNamed, Live
<1> QED
  BY <1>5, <1>7, <1>8

(* What a step that moves nothing leaves to show.                          *)
LEMMA StepIsGood ==
  ASSUME HandlesInv, Evolves({}), TreeInv', RemovesNamed, NEW c, GoodCache(c), m_handleCache' = c,
         \A p \in m_exportedDirs : m_handleCache[p] # NoHandle => c[p] # NoHandle, m_exportedDirs' = m_exportedDirs
  PROVE  GoodStep
<1>1. GoodCache(m_handleCache)'
  BY CacheStep DEF HandlesInv
<1>2. (m_exportedDirs \subseteq DirPath)'
  BY DEF HandlesInv, DirPath
<1>3. KeepsExports
  BY DEF KeepsExports
<1> QED
  BY <1>1, <1>2, <1>3 DEF GoodStep, HandlesInv

LEMMA Forgotten ==
  ASSUME TreeInv, NEW c, GoodCache(c), NEW p
  PROVE  GoodCache([c EXCEPT ![p] = NoHandle])
<1>1. NoHandle \in HandleType
  BY NoHandleIsGood DEF GoodHandle
<1> QED
  BY <1>1, NoHandleIsGood DEF GoodCache

(* No export is in a directory that is not above the exports.              *)
LEMMA ExportsAbove ==
  ASSUME HandlesInv, NEW p \in Path, Len(p) > 1, ~IsExportedDir(Parent(p))
  PROVE  p \notin m_exportedDirs
<1>1. Len(p) \in {2, 3}
  BY PathShapes
<1>2. PICK d : d = Front(p)
  OBVIOUS
<1>3. d \in DirPath /\ p = Append(d, Last(p)) /\ Len(d) = Len(p) - 1 /\ SubSeq(p, 1, Len(d)) = d
  <2>1. Len(p) # 1
    BY <1>1
  <2>2. d \in DirPath /\ p = Append(d, Last(p)) /\ Len(d) = Len(p) - 1
    BY <1>2, <2>1, PathShapes
  <2>3. Len(p) = 2 => SubSeq(p, 1, 1) = d
    BY <1>2, PathShapes
  <2>4. Len(p) = 3 => SubSeq(p, 1, 2) = d
    BY <1>2, PathShapes
  <2> QED
    BY <1>1, <2>2, <2>3, <2>4
<1>4. SubSeq(d, 1, Len(d)) = d
  <2>1. d \in Path /\ Len(d) \in {1, 2}
    BY <1>1, <1>3 DEF Path
  <2> QED
    BY <2>1, PathShapes
<1>5. IsStrictPrefix(d, p)
  <2>1. Len(d) <= Len(p) /\ d # p
    BY <1>1, <1>3
  <2> QED
    BY <1>3, <1>4, <2>1 DEF IsStrictPrefix, IsPrefix
<1> QED
  BY <1>2, <1>5 DEF IsExportedDir, IsExportedIn, Parent

(* READDIRPLUS, MNT and RENAME give the handle of the object itself.       *)
LEMMA ObjectHandle ==
  ASSUME TreeInv, NEW i, Live(i), NEW p, PathOf(i) = p
  PROVE  LET fh == [id |-> i, link |-> 0] IN GoodHandle(fh, p) /\ fh # NoHandle
<1> DEFINE fh == [id |-> i, link |-> 0]
<1>1. i \in Id /\ i # 0 /\ i <= used /\ i \in 0 .. MaxId /\ MaxId \in Nat /\ used \in 0 .. MaxId /\ 0 \notin Id
  BY ObjectFacts, ExportAssumption DEF Id, TreeInv
<1>2. fh.id = i /\ fh.link = 0 /\ fh \in HandleType /\ Own(fh) = i /\ fh # NoHandle
  BY <1>1 DEF HandleType, Own, NoHandle
<1> HIDE DEF fh
<1>3. GoodHandle(fh, p)
  BY <1>1, <1>2 DEF GoodHandle
<1> QED
  BY <1>2, <1>3 DEF fh

-----------------------------------------------------------------------------
(* The operations                                                          *)

LEMMA OpenStep == ASSUME HandlesInv, OpenConnection PROVE GoodStep
<1>1. TreeInv /\ GoodCache(m_handleCache) /\ m_exportedDirs \subseteq DirPath
  BY DEF HandlesInv
<1>2. PICK mounted \in SUBSET DOMAIN exports :
        LET before(k) == m_exportedDirs \cup {exports[j] : j \in 1 .. k - 1}
            listed == {k \in DOMAIN exports : ~IsExportedIn(before(k), exports[k])}
            here(p) == {k \in listed : exports[k] = p}
        IN  /\ m_exportedDirs' = m_exportedDirs \cup {exports[k] : k \in listed}
            /\ m_handleCache' = [p \in Path |->
                 IF here(p) \cap mounted # {} THEN [id |-> CHOOSE k \in here(p) \cap mounted : TRUE, link |-> 0]
                 ELSE IF here(p) # {} THEN KeepUnmounted(p) ELSE m_handleCache[p]]
  BY DEF OpenConnection
<1> DEFINE before(k) == m_exportedDirs \cup {exports[j] : j \in 1 .. k - 1}
<1>3. PICK listed : listed = {k \in DOMAIN exports : ~IsExportedIn(before(k), exports[k])}
  OBVIOUS
<1> DEFINE here(p) == {k \in listed : exports[k] = p}
           mount(p) == CHOOSE k \in here(p) \cap mounted : TRUE
<1>4. PICK c : c = [p \in Path |-> IF here(p) \cap mounted # {} THEN [id |-> mount(p), link |-> 0] ELSE m_handleCache[p]]
  OBVIOUS
<1>5. listed \subseteq DOMAIN exports
  BY <1>3
<1>6. m_exportedDirs' = m_exportedDirs \cup {exports[k] : k \in listed} /\ m_handleCache' = c
  BY <1>2, <1>3, <1>4 DEF KeepUnmounted
<1> HIDE DEF before
<1>7. ASSUME NEW p \in Path, here(p) \cap mounted # {}
      PROVE  c[p] = [id |-> mount(p), link |-> 0] /\ GoodHandle(c[p], p) /\ c[p] # NoHandle
  <2>1. PICK k : k = mount(p)
    OBVIOUS
  <2>2. k \in here(p) \cap mounted
    BY <1>7, <2>1
  <2>3. k \in DOMAIN exports /\ exports[k] = p
    BY <1>5, <2>2
  <2>4. IsRoot(k) /\ object[k].name = p
    BY <1>1, <2>3 DEF TreeInv
  <2>5. Live(k) /\ PathOf(k) = p
    BY <2>4 DEF IsRoot, IsDir, PathOf
  <2>6. c[p] = [id |-> k, link |-> 0]
    BY <1>4, <1>7, <2>1
  <2> QED
    BY <1>1, <2>1, <2>5, <2>6, ObjectHandle
<1>8. ASSUME NEW p \in Path, here(p) \cap mounted = {} PROVE c[p] = m_handleCache[p]
  BY <1>4, <1>8
<1>9. c = [p \in Path |-> c[p]]
  BY <1>4
<1> HIDE DEF here, mount
<1>10. \A p \in Path : GoodHandle(c[p], p) /\ (m_handleCache[p] # NoHandle => c[p] # NoHandle)
  BY <1>1, <1>7, <1>8 DEF GoodCache
<1>11. GoodCache(c)
  <2>1. \A p \in Path : c[p] \in HandleType
    BY <1>10 DEF GoodHandle
  <2> QED
    BY <1>9, <1>10, <2>1 DEF GoodCache
<1>12. UNCHANGED serverVars
  BY DEF OpenConnection
<1>13. Evolves({}) /\ TreeInv' /\ RemovesNamed
  BY <1>1, <1>12, ServerStill
<1>14. GoodCache(m_handleCache)'
  BY <1>1, <1>6, <1>11, <1>13, CacheStep
<1>15. (m_exportedDirs \subseteq DirPath)'
  <2>1. \A k \in listed : exports[k] \in DirPath
    BY <1>1, <1>5 DEF TreeInv
  <2>2. m_exportedDirs' \subseteq DirPath
    BY <1>1, <1>6, <2>1
  <2> QED
    BY <2>2 DEF DirPath
<1>16. KeepsExports
  BY <1>1, <1>6, <1>10 DEF KeepsExports, Path
<1> QED
  BY <1>13, <1>14, <1>15, <1>16 DEF GoodStep, HandlesInv

LEMMA CloseStep == ASSUME HandlesInv, CloseConnection PROVE GoodStep
<1>1. UNCHANGED <<serverVars, m_exportedDirs>> /\ m_handleCache' = m_handleCache
  BY DEF CloseConnection
<1>2. PICK c : c = m_handleCache
  OBVIOUS
<1>3. GoodCache(c) /\ Kept(m_handleCache, c)
  BY <1>2 DEF HandlesInv, Kept
<1> QED
  BY <1>1, <1>2, <1>3, OnlyLooks

LEMMA RefuseStep == ASSUME HandlesInv, Refuse PROVE GoodStep
<1>1. UNCHANGED <<serverVars, m_exportedDirs>> /\ m_handleCache' = m_handleCache
  BY DEF Refuse
<1>2. PICK c : c = m_handleCache
  OBVIOUS
<1>3. GoodCache(c) /\ Kept(m_handleCache, c)
  BY <1>2 DEF HandlesInv, Kept
<1> QED
  BY <1>1, <1>2, <1>3, OnlyLooks

LEMMA UseStep == ASSUME HandlesInv, NEW path \in Path, Use(path) PROVE GoodStep
<1>1. PICK up \in BOOLEAN : m_handleCache' = GetFileHandle(path, up).cache
  BY DEF Use, FindsHandle
<1>2. LookedUp(GetFileHandle(path, up), path, m_handleCache)
  BY LookupIsGood DEF HandlesInv, GetFileHandle
<1>3. PICK c : c = GetFileHandle(path, up).cache
  OBVIOUS
<1>4. GoodCache(c) /\ Kept(m_handleCache, c) /\ m_handleCache' = c
  BY <1>1, <1>2, <1>3 DEF LookedUp
<1>5. UNCHANGED <<serverVars, m_exportedDirs>>
  BY DEF Use, Idle
<1> QED
  BY <1>4, <1>5, OnlyLooks

LEMMA ListStep == ASSUME HandlesInv, NEW path \in Path, ListDir(path) PROVE GoodStep
<1>1. TreeInv /\ GoodCache(m_handleCache) /\ m_exportedDirs \subseteq DirPath
  BY DEF HandlesInv
<1>2. PICK up \in BOOLEAN :
        LET found == GetFileHandle(path, up)
            listed == up /\ Live(found.fh.id) /\ object[found.fh.id].type = "dir"
        IN  m_handleCache' = IF listed THEN ListedHandles(path, found) ELSE found.cache
  BY DEF ListDir
<1>3. PICK found : found = GetFileHandle(path, up)
  OBVIOUS
<1>4. m_handleCache' = IF up /\ IsDir(found.fh.id) THEN ListedHandles(path, found) ELSE found.cache
  BY <1>2, <1>3 DEF IsDir
<1>5. GoodHandle(found.fh, path) /\ GoodCache(found.cache) /\ Kept(m_handleCache, found.cache)
  BY <1>1, <1>3, LookupIsGood DEF GetFileHandle, LookedUp
<1>6. UNCHANGED <<serverVars, m_exportedDirs>>
  BY DEF ListDir, Idle
<1>7. CASE m_handleCache' = found.cache
  BY <1>5, <1>6, <1>7, OnlyLooks
<1>8. CASE IsDir(found.fh.id) /\ m_handleCache' = ListedHandles(path, found)
  <2> DEFINE here(p) == {i \in Children(found.fh.id) : Append(path, object[i].name) = p}
             link(p) == \E i \in here(p) : object[i].type = "link"
             one(p) == CHOOSE i \in here(p) : TRUE
  <2>1. PICK c : c = ListedHandles(path, found)
    OBVIOUS
  <2>2. c = [p \in Path |-> IF here(p) = {} THEN found.cache[p]
                           ELSE IF link(p) THEN GetFileHandleIn(p, found.cache, TRUE).fh
                           ELSE [id |-> one(p), link |-> 0]]
    BY <2>1 DEF ListedHandles
  <2>3. PathOf(found.fh.id) = path /\ found.fh.id # 0
    BY <1>1, <1>5, <1>8, HandlesOfDirs, ObjectFacts DEF IsDir
  <2>4. ASSUME NEW p, NEW i \in here(p) PROVE Live(i) /\ PathOf(i) = p
    <3>1. Live(i) /\ object[i].parent = found.fh.id /\ Append(path, object[i].name) = p
      BY DEF Children
    <3> QED
      BY <1>1, <2>3, <3>1, ChildrenAreBelow
  <2>5. ASSUME NEW p \in Path PROVE GoodHandle(c[p], p) /\ (p \in DirPath /\ found.cache[p] # NoHandle => c[p] # NoHandle)
    <3>1. CASE here(p) = {}
      <4>1. c[p] = found.cache[p]
        BY <2>2, <3>1
      <4> QED
        BY <1>5, <4>1 DEF GoodCache
    <3>2. CASE link(p)
      <4>1. PICK i \in here(p) : object[i].type = "link"
        BY <3>2
      <4>2. p \in FilePath
        BY <1>1, <2>4, <4>1, PathsOfObjects
      <4>3. p \notin DirPath
        BY <4>2, PathShapes
      <4>4. c[p] = GetFileHandleIn(p, found.cache, TRUE).fh
        BY <2>2, <4>1
      <4>5. GoodHandle(c[p], p)
        BY <1>1, <1>5, <4>4, LookupIsGood DEF LookedUp
      <4> QED
        BY <4>3, <4>5
    <3>3. CASE here(p) # {} /\ ~link(p)
      <4>1. PICK i : i = one(p)
        OBVIOUS
      <4>2. i \in here(p)
        BY <3>3, <4>1
      <4>3. c[p] = [id |-> i, link |-> 0]
        BY <2>2, <3>3, <4>1
      <4>4. Live(i) /\ PathOf(i) = p
        BY <2>4, <4>2
      <4> QED
        BY <1>1, <4>3, <4>4, ObjectHandle
    <3> QED
      BY <3>1, <3>2, <3>3
  <2>6. c = [p \in Path |-> c[p]]
    BY <2>2
  <2> HIDE DEF here, link, one
  <2>7. GoodCache(c)
    <3>1. \A p \in Path : c[p] \in HandleType
      BY <2>5 DEF GoodHandle
    <3> QED
      BY <2>5, <2>6, <3>1 DEF GoodCache
  <2>8. \A p \in m_exportedDirs : m_handleCache[p] # NoHandle => c[p] # NoHandle
    BY <1>1, <1>5, <2>5 DEF Kept, Path
  <2>9. Evolves({}) /\ TreeInv' /\ RemovesNamed
    BY <1>1, <1>6, ServerStill
  <2> QED
    BY <1>6, <1>8, <2>1, <2>7, <2>8, <2>9, StepIsGood
<1> QED
  BY <1>4, <1>7, <1>8

(* The handle of the directory that a path is in.                          *)
LEMMA ParentLookup ==
  ASSUME TreeInv, NEW path \in Path, Len(path) > 1, NEW c, GoodCache(c), NEW up
  PROVE  LET dir == GetFileHandleIn(Parent(path), c, up) IN
         /\ GoodHandle(dir.fh, Front(path)) /\ GoodCache(dir.cache) /\ Kept(c, dir.cache) /\ Len(path) # 1
         /\ Front(path) \in DirPath /\ path = Append(Front(path), Last(path)) /\ Len(path) \in {2, 3}
         /\ path \in FilePath => Last(path) \in FileName
         /\ path \in DirPath => Last(path) \in DirName /\ Len(Front(path)) = 1
<1>1. Len(path) \in {2, 3}
  <2>1. Len(path) \in 1 .. 3
    BY PathShapes
  <2> QED
    BY <2>1
<1>2. /\ Len(path) # 1 /\ Front(path) \in DirPath /\ path = Append(Front(path), Last(path)) /\ Len(Front(path)) = Len(path) - 1
      /\ Last(path) \in Name /\ (Last(path) \in DirName <=> path \in DirPath)
      /\ path \in DirPath => Len(path) # 3 /\ path \notin FilePath
  BY <1>1, PathShapes
<1>3. Front(path) \in Path
  BY <1>2 DEF Path
<1>4. LookedUp(GetFileHandleIn(Parent(path), c, up), Front(path), c)
  BY <1>3, LookupIsGood DEF Parent
<1>5. path \in FilePath => Last(path) \in FileName
  BY <1>2 DEF Name
<1>6. path \in DirPath => Last(path) \in DirName /\ Len(Front(path)) = 1
  BY <1>1, <1>2
<1> QED
  BY <1>1, <1>2, <1>4, <1>5, <1>6 DEF LookedUp

LEMMA MakeStep ==
  ASSUME HandlesInv, NEW path \in Path, NEW type, Make(path, type),
         (type = "dir" /\ path \in DirPath) \/ (type = "file" /\ path \in FilePath)
  PROVE  GoodStep
<1>1. TreeInv /\ GoodCache(m_handleCache) /\ Len(path) > 1
  BY DEF HandlesInv, Make
<1>2. CASE Refuse
  BY <1>2, RefuseStep
<1>3. CASE ~Refuse
  <2>1. PICK up \in BOOLEAN :
          LET dir == GetFileHandle(Parent(path), up)
          IN  /\ m_handleCache' = dir.cache
              /\ \/ /\ up /\ Live(dir.fh.id) /\ object[dir.fh.id].type = "dir" /\ ChildOf(dir.fh.id, Last(path)) = 0
                    /\ Add(Last(path), dir.fh.id, type, Outside) /\ RemovesNothing
                 \/ RemovesNothing /\ UNCHANGED <<object, used>>
              /\ UNCHANGED <<exports, m_exportedDirs, m_nfsClient>>
    BY <1>3 DEF Make
  <2>2. PICK dir : dir = GetFileHandle(Parent(path), up)
    OBVIOUS
  <2>3. /\ GoodHandle(dir.fh, Front(path)) /\ GoodCache(dir.cache) /\ Kept(m_handleCache, dir.cache)
        /\ path \in FilePath => Last(path) \in FileName
        /\ path \in DirPath => Last(path) \in DirName /\ Len(Front(path)) = 1
    BY <1>1, <2>2, ParentLookup DEF GetFileHandle
  <2>4. m_handleCache' = dir.cache /\ exports' = exports /\ m_exportedDirs' = m_exportedDirs
    BY <2>1, <2>2
  <2>5. CASE UNCHANGED <<object, used>>
    BY <2>3, <2>4, <2>5, OnlyLooks DEF serverVars
  <2>6. CASE IsDir(dir.fh.id) /\ Add(Last(path), dir.fh.id, type, Outside)
    <3>1. path \in DirPath => IsRoot(dir.fh.id) /\ Len(object[dir.fh.id].name) = 1
      BY <1>1, <2>3, <2>6, HandlesOfDirs, TopDirs
    <3>2. Evolves({}) /\ TreeInv' /\ RemovesNamed
      BY <1>1, <2>3, <2>4, <2>6, <3>1, Created
    <3>3. \A p \in m_exportedDirs : m_handleCache[p] # NoHandle => dir.cache[p] # NoHandle
      BY <2>3 DEF Kept, HandlesInv, Path
    <3> QED
      BY <2>3, <2>4, <3>2, <3>3, StepIsGood
  <2> QED
    BY <2>1, <2>2, <2>5, <2>6 DEF IsDir
<1> QED
  BY <1>2, <1>3

LEMMA DelStep == ASSUME HandlesInv, NEW path \in Path, Del(path) PROVE GoodStep
<1>1. TreeInv /\ GoodCache(m_handleCache) /\ Len(path) > 1
  BY DEF HandlesInv, Del
<1>2. CASE Refuse
  BY <1>2, RefuseStep
<1>3. CASE ~Refuse
  <2>1. PICK up \in BOOLEAN :
          LET dir == GetFileHandle(Parent(path), up)
              id == FoundByName(path, dir)
          IN  /\ \/ /\ up /\ Removable(id)
                    /\ object' = [object EXCEPT ![id] = Absent]
                    /\ m_handleCache' = [dir.cache EXCEPT ![path] = NoHandle] /\ Removes(path)
                 \/ m_handleCache' = dir.cache /\ RemovesNothing /\ UNCHANGED object
              /\ UNCHANGED <<exports, used, m_exportedDirs, m_nfsClient>>
    BY <1>3 DEF Del
  <2>2. PICK dir : dir = GetFileHandle(Parent(path), up)
    OBVIOUS
  <2>3. GoodHandle(dir.fh, Front(path)) /\ GoodCache(dir.cache) /\ Kept(m_handleCache, dir.cache) /\ Len(path) # 1
    BY <1>1, <2>2, ParentLookup DEF GetFileHandle
  <2>4. exports' = exports /\ used' = used /\ m_exportedDirs' = m_exportedDirs
    BY <2>1
  <2>5. PICK id : id = ChildOf(dir.fh.id, Last(path))
    OBVIOUS
  <2>6. CASE m_handleCache' = dir.cache /\ UNCHANGED object
    BY <2>3, <2>4, <2>6, OnlyLooks DEF serverVars
  <2>7. CASE /\ Removable(id) /\ object' = [object EXCEPT ![id] = Absent]
             /\ m_handleCache' = [dir.cache EXCEPT ![path] = NoHandle] /\ named' = path
    <3>1. id # 0
      BY <1>1, <2>7, NoHandleIsGood DEF Removable
    <3>2. PathOf(id) = path /\ object[id].parent # 0
      BY <1>1, <2>3, <2>5, <3>1, FoundBelow
    <3>3. Evolves({}) /\ TreeInv' /\ RemovesNamed
      BY <1>1, <2>4, <2>7, <3>2, Removed
    <3>4. path \notin m_exportedDirs
      BY <1>1, <1>3, ExportsAbove DEF Del
    <3>5. PICK c : c = [dir.cache EXCEPT ![path] = NoHandle]
      OBVIOUS
    <3>6. GoodCache(c)
      BY <1>1, <2>3, <3>5, Forgotten
    <3>7. \A p \in m_exportedDirs : m_handleCache[p] # NoHandle => c[p] # NoHandle
      BY <2>3, <3>4, <3>5 DEF Kept, HandlesInv, Path, GoodCache
    <3> QED
      BY <2>4, <2>7, <3>3, <3>5, <3>6, <3>7, StepIsGood
  <2> QED
    BY <2>1, <2>2, <2>5, <2>6, <2>7 DEF FoundByName, Removes
<1> QED
  BY <1>2, <1>3

LEMMA OtherSteps == ASSUME HandlesInv, OtherCreates \/ OtherRemoves PROVE GoodStep
<1>1. TreeInv /\ GoodCache(m_handleCache)
  BY DEF HandlesInv
<1>2. exports' = exports /\ m_exportedDirs' = m_exportedDirs /\ m_handleCache' = m_handleCache
  BY DEF OtherCreates, OtherRemoves
<1>3. Evolves({}) /\ TreeInv' /\ RemovesNamed
  <2>1. CASE OtherCreates
    <3>1. PICK dir \in Id, name \in FileName : IsDir(dir) /\ Add(name, dir, "file", Outside)
      BY <2>1 DEF OtherCreates, IsDir
    <3> QED
      BY <1>1, <1>2, <3>1, Created
  <2>2. CASE OtherRemoves
    <3>1. PICK id \in Id : Removable(id) /\ object[id].parent # 0 /\ object' = [object EXCEPT ![id] = Absent] /\ named' = PathOf(id)
      BY <2>2 DEF OtherRemoves, Removes
    <3>2. UNCHANGED <<exports, used>>
      BY <2>2 DEF OtherRemoves
    <3> QED
      BY <1>1, <3>1, <3>2, Removed
  <2> QED
    BY <2>1, <2>2
<1>4. PICK c : c = m_handleCache
  OBVIOUS
<1> QED
  BY <1>1, <1>2, <1>3, <1>4, StepIsGood

(* Without a rename of a folder, only files and links move, and every      *)
(* lookup after a rename finds the file.                                   *)
LEMMA RenameStep ==
  ASSUME HandlesInv, Cases = {}, NEW src \in Path, NEW dest \in Path, SameKind(src, dest), NEW overwrite, Rename(src, dest, overwrite)
  PROVE  GoodStep
<1>1. TreeInv /\ GoodCache(m_handleCache) /\ Len(src) > 1 /\ Len(dest) > 1 /\ src # dest
  BY DEF HandlesInv, Rename
<1>2. CASE Refuse
  BY <1>2, RefuseStep
<1>3. CASE ~Refuse
  <2>1. PICK up \in BOOLEAN :
       LET there == GetFileHandle(dest, up)
           from == GetFileHandleIn(Parent(src), there.cache, up)
           to   == GetFileHandleIn(Parent(dest), from.cache, up)
           id   == ChildOf(from.fh.id, Last(src))
           hit  == ChildOf(to.fh.id, Last(dest))
           ok   == up /\ (there.fh = NoHandle \/ overwrite) /\ id # 0 /\ Live(to.fh.id) /\ object[to.fh.id].type = "dir"
       IN  /\ \/ /\ ok /\ (object[id].type = "dir" => "renameFolder" \in Cases /\ hit = 0 /\ ~IsPrefix(PathOf(id), PathOf(to.fh.id)))
                 /\ hit # 0 => object[hit].type # "dir" /\ hit # id
                 /\ object' = [i \in Id |-> IF i = hit THEN Absent
                                            ELSE IF i = id THEN [object[i] EXCEPT !.name = Last(dest), !.parent = to.fh.id]
                                            ELSE object[i]]
                 /\ \/ m_handleCache' = RenamedInCache(to.cache, src, dest, id)
                    \/ "lookupFails" \in Cases /\ m_handleCache' = to.cache
                 /\ Removes(dest)
              \/ m_handleCache' = to.cache /\ RemovesNothing /\ UNCHANGED object
           /\ UNCHANGED <<exports, used, m_exportedDirs, m_nfsClient>>
    BY <1>3 DEF Rename
  <2>2. ~IsExportedDir(Parent(src)) /\ ~IsExportedDir(Parent(dest))
    BY <1>3 DEF Rename
  <2>3. PICK there : there = GetFileHandle(dest, up)
    OBVIOUS
  <2>4. PICK from : from = GetFileHandleIn(Parent(src), there.cache, up)
    OBVIOUS
  <2>5. PICK to : to = GetFileHandleIn(Parent(dest), from.cache, up)
    OBVIOUS
  <2>6. PICK id : id = ChildOf(from.fh.id, Last(src))
    OBVIOUS
  <2>7. PICK hit : hit = ChildOf(to.fh.id, Last(dest))
    OBVIOUS
  <2>8. GoodCache(there.cache) /\ Kept(m_handleCache, there.cache)
    BY <1>1, <2>3, LookupIsGood DEF GetFileHandle, LookedUp
  <2>9. GoodHandle(from.fh, Front(src)) /\ GoodCache(from.cache) /\ Kept(there.cache, from.cache) /\ Len(src) # 1
    BY <1>1, <2>4, <2>8, ParentLookup
  <2>10. /\ GoodHandle(to.fh, Front(dest)) /\ GoodCache(to.cache) /\ Kept(from.cache, to.cache) /\ Len(dest) # 1
         /\ dest = Append(Front(dest), Last(dest)) /\ (dest \in FilePath => Last(dest) \in FileName)
    BY <1>1, <2>5, <2>9, ParentLookup
  <2>11. Kept(m_handleCache, to.cache)
    BY <2>8, <2>9, <2>10 DEF Kept
  <2>12. exports' = exports /\ used' = used /\ m_exportedDirs' = m_exportedDirs
    BY <2>1
  <2>13. CASE m_handleCache' = to.cache /\ UNCHANGED object
    BY <2>10, <2>11, <2>12, <2>13, OnlyLooks DEF serverVars
  <2>14. CASE /\ id # 0 /\ IsDir(to.fh.id) /\ object[id].type # "dir" /\ (hit # 0 => object[hit].type # "dir" /\ hit # id)
              /\ object' = [i \in Id |-> IF i = hit THEN Absent
                                         ELSE IF i = id THEN [object[i] EXCEPT !.name = Last(dest), !.parent = to.fh.id]
                                         ELSE object[i]]
              /\ m_handleCache' = [to.cache EXCEPT ![src] = NoHandle, ![dest] = [id |-> id, link |-> 0]]
              /\ named' = dest
    <3>1. Live(id) /\ id \in Id /\ id <= used /\ PathOf(id) = src /\ ~IsRoot(id)
      BY <1>1, <2>6, <2>9, <2>14, FoundBelow
    <3>2. hit # 0 => Live(hit) /\ hit \in Id /\ hit # id /\ PathOf(hit) = dest /\ ~IsRoot(hit)
      BY <1>1, <2>7, <2>10, <2>14, FoundBelow
    <3>3. Last(dest) \in FileName
      BY <1>1, <2>10, <2>14, <3>1, PathsOfObjects DEF SameKind
    <3>4. \A i : Live(i) /\ (IsRoot(i) \/ Children(i) # {}) => i # hit /\ i # id
      <4>1. ASSUME NEW i, Children(i) # {}, Live(i) PROVE object[i].type = "dir" /\ i # 0
        <5>1. PICK j : Live(j) /\ object[j].parent = i
          BY <4>1 DEF Children
        <5>2. i # 0
          BY <1>1, <4>1, ObjectFacts
        <5> QED
          BY <1>1, <5>1, <5>2, ChildrenAreBelow DEF IsDir
      <4>2. ASSUME NEW i, IsRoot(i) PROVE i # 0
        BY <1>1, <4>2, ObjectFacts DEF IsRoot, IsDir
      <4> QED
        BY <2>14, <3>1, <3>2, <4>1, <4>2
    <3>5. object \in [Id -> {Absent} \cup ObjectType] /\ object[id] \in ObjectType /\ used \in 0 .. MaxId
      BY <1>1, <3>1, ObjectFacts DEF TreeInv
    <3>6. PICK moved : moved = [object[id] EXCEPT !.name = Last(dest), !.parent = to.fh.id]
      OBVIOUS
    <3>7. moved \in ObjectType /\ moved.type = object[id].type /\ moved.name = Last(dest) /\ moved.parent = to.fh.id
      <4>1. to.fh.id \in 0 .. MaxId /\ Last(dest) \in Path \cup Name
        BY <2>10, <3>3 DEF GoodHandle, HandleType, Name
      <4> QED
        BY <3>5, <3>6, <4>1 DEF ObjectType
    <3>8. /\ object' \in [Id -> {Absent} \cup ObjectType]
          /\ object'[id] = moved /\ (hit # 0 => object'[hit] = Absent) /\ \A i \in Id : i # hit /\ i # id => object'[i] = object[i]
      <4>1. id # hit
        BY <2>14
      <4> QED
        BY <2>14, <3>1, <3>2, <3>5, <3>6, <3>7, <4>1
    <3>9. \A i \in Id : i # 0
      BY DEF Id
    <3>10. used' \in used .. MaxId
      BY <2>12, <3>5, ExportAssumption
    <3>11. Evolves({id})
      <4>1. \A i \in Id : Live(i) /\ (IsRoot(i) \/ Children(i) # {}) => object'[i] = object[i]
        BY <3>4, <3>8
      <4>2. \A i \in Id : object'[i] # Absent => Live(i) /\ object'[i].type = object[i].type /\ (i # id => object'[i] = object[i])
        BY <3>1, <3>7, <3>8, <3>9 DEF Live
      <4> QED
        BY <2>12, <3>8, <3>10, <4>1, <4>2 DEF Evolves
    <3>12. Arrives(id, to.fh.id, Last(dest))
      <4>1. to.fh.id \in Id /\ to.fh.id # id /\ to.fh.id # hit
        <5>1. ~IsDir(id) /\ (hit # 0 => ~IsDir(hit)) /\ to.fh.id # 0
          BY <1>1, <2>14, ObjectFacts DEF IsDir
        <5> QED
          BY <2>14, <5>1 DEF IsDir, Live
      <4>2. object'[to.fh.id] = object[to.fh.id]
        BY <3>8, <4>1
      <4> QED
        BY <2>14, <3>3, <3>7, <3>8, <4>2 DEF Arrives
    <3>13. \A i \in Id : object'[i] # Absent => i <= used' /\ ~(i > used)
      <4> SUFFICES ASSUME NEW i \in Id, object'[i] # Absent PROVE i <= used
        BY <2>12, <3>5, ExportAssumption DEF Id
      <4> QED
        BY <1>1, <3>11, <3>1, <3>8, <3>9 DEF TreeInv, Live
    <3>14. TreeInv'
      BY <1>1, <3>11, <3>12, <3>13, TreeStays
    <3>15. RemovesNamed
      <4>1. moved # Absent
        BY <3>7, ObjectAssumption DEF ObjectType
      <4>2. \A i \in Id : Live(i) /\ object'[i] = Absent => i = hit
        BY <3>8, <4>1 DEF Live
      <4> QED
        BY <2>14, <3>2, <3>9, <4>2, LiveNext DEF RemovesNamed
    <3>16. PICK c : c = [to.cache EXCEPT ![src] = NoHandle]
      OBVIOUS
    <3>17. PICK fh : fh = [id |-> id, link |-> 0]
      OBVIOUS
    <3>18. GoodCache(c) /\ c[src] = NoHandle /\ \A p \in Path : p # src => c[p] = to.cache[p]
      BY <1>1, <2>10, <3>16, Forgotten DEF GoodCache
    <3>19. \A p \in Path : Live(Own(c[p])) => Own(c[p]) \notin {id}
      <4>1. Own(NoHandle) = 0 /\ 0 \notin Id
        BY NoHandleIsGood, <1>1 DEF Own, Id
      <4>2. \A p \in Path : p # src => (Live(Own(c[p])) => PathOf(Own(c[p])) = p)
        BY <3>18 DEF GoodCache, GoodHandle
      <4> QED
        BY <3>1, <3>9, <3>18, <4>1, <4>2
    <3>20. GoodCache(c)'
      BY <1>1, <3>11, <3>18, <3>19, CacheStays
    <3>21. GoodHandle(fh, dest)'
      <4>1. fh.id = id /\ fh.link = 0 /\ Own(fh) = id /\ Own(fh)' = id
        BY <3>17 DEF Own, Id
      <4>2. PathOf(id)' = dest
        <5>1. PICK t, n : t = to.fh.id /\ n = Last(dest)
          OBVIOUS
        <5>2. Arrives(id, t, n) /\ PathOf(t) = Front(dest)
          BY <1>1, <2>10, <2>14, <3>12, <5>1, HandlesOfDirs
        <5>3. PathOf(id)' = Append(PathOf(t), n)
          BY <1>1, <3>11, <5>2, ArrivedAt
        <5> QED
          BY <2>10, <5>1, <5>2, <5>3
      <4>3. (fh \in HandleType)'
        BY <3>1, <3>17, ExportAssumption DEF HandleType, Id
      <4>4. fh.id <= used' /\ fh.link <= used'
        BY <2>12, <3>1, <3>5, <4>1
      <4> QED
        BY <4>1, <4>2, <4>3, <4>4 DEF GoodHandle
    <3>22. PICK d : d = [c EXCEPT ![dest] = fh]
      OBVIOUS
    <3>23. m_handleCache' = d
      BY <2>14, <3>16, <3>17, <3>22
    <3>24. d[dest] = fh /\ (\A p \in Path : p # dest => d[p] = c[p]) /\ d = [p \in Path |-> d[p]]
      BY <3>18, <3>22 DEF GoodCache
    <3>25. GoodCache(d)'
      BY <3>20, <3>21, <3>24, CachePlus
    <3>26. GoodCache(m_handleCache)'
      BY <3>23, <3>25, CacheIs
    <3>27. src \notin m_exportedDirs
      BY <1>1, <2>2, ExportsAbove
    <3>28. fh # NoHandle
      <4>1. id # 0
        BY <2>14
      <4> QED
        BY <3>17, <4>1 DEF NoHandle
    <3>29. KeepsExports
      <4> SUFFICES ASSUME NEW p \in m_exportedDirs, m_handleCache[p] # NoHandle PROVE d[p] # NoHandle
        BY <3>23 DEF KeepsExports
      <4>1. p \in Path /\ p # src
        BY <3>27 DEF HandlesInv, Path
      <4>2. c[p] # NoHandle
        BY <2>11, <3>18, <4>1 DEF Kept
      <4> QED
        BY <3>24, <3>28, <4>1, <4>2
    <3>30. (m_exportedDirs \subseteq DirPath)'
      BY <2>12 DEF HandlesInv, DirPath
    <3> QED
      BY <3>14, <3>15, <3>26, <3>29, <3>30 DEF GoodStep, HandlesInv
  <2> QED
    BY <2>1, <2>3, <2>4, <2>5, <2>6, <2>7, <2>13, <2>14 DEF RenamedInCache, Removes, IsDir
<1> QED
  BY <1>2, <1>3

LEMMA SymlinkStep ==
  ASSUME HandlesInv, NEW target \in FileName \cup {Outside}, NEW path \in FilePath, NEW overwrite, Symlink(target, path, overwrite)
  PROVE  GoodStep
<1>1. TreeInv /\ GoodCache(m_handleCache) /\ Len(path) > 1 /\ path \in Path
  BY DEF HandlesInv, Symlink, Path
<1>2. CASE Refuse
  BY <1>2, RefuseStep
<1>3. CASE ~Refuse
  <2>1. PICK up \in BOOLEAN :
       LET there == GetFileHandle(path, up)
           dir == GetFileHandleIn(Parent(path), there.cache, up)
           hit == ChildOf(dir.fh.id, Last(path))
           cleared == [dir.cache EXCEPT ![path] = NoHandle]
       IN  \/ /\ up /\ there.fh # NoHandle => overwrite
              /\ up /\ Live(dir.fh.id) /\ object[dir.fh.id].type = "dir" /\ (hit = 0 \/ Removable(hit))
              /\ used < MaxId /\ used' = used + 1
              /\ object' = [i \in Id |-> IF i = used + 1 THEN [name |-> Last(path), parent |-> dir.fh.id, type |-> "link", target |-> target]
                                         ELSE IF i = hit THEN Absent ELSE object[i]]
              /\ m_handleCache' =
                   LET to == IF target = Outside \/ target = Last(path) THEN 0 ELSE ChildOf(dir.fh.id, target)
                   IN  [cleared EXCEPT ![path] = IF to = 0 THEN BadLink(used + 1) ELSE [id |-> to, link |-> used + 1]]
              /\ Removes(path)
              /\ UNCHANGED <<exports, m_exportedDirs, m_nfsClient>>
           \/ /\ m_handleCache' = dir.cache /\ RemovesNothing /\ Idle
           \/ /\ up /\ (there.fh # NoHandle => overwrite) /\ Removable(hit)
              /\ object' = [object EXCEPT ![hit] = Absent] /\ m_handleCache' = cleared
              /\ Removes(path)
              /\ UNCHANGED <<exports, used, m_exportedDirs, m_nfsClient>>
    BY <1>3 DEF Symlink
  <2>2. ~IsExportedDir(Parent(path))
    BY <1>3 DEF Symlink
  <2>3. PICK there : there = GetFileHandle(path, up)
    OBVIOUS
  <2>4. PICK dir : dir = GetFileHandleIn(Parent(path), there.cache, up)
    OBVIOUS
  <2>5. PICK hit : hit = ChildOf(dir.fh.id, Last(path))
    OBVIOUS
  <2>6. PICK c : c = [dir.cache EXCEPT ![path] = NoHandle]
    OBVIOUS
  <2>7. GoodCache(there.cache) /\ Kept(m_handleCache, there.cache)
    BY <1>1, <2>3, LookupIsGood DEF GetFileHandle, LookedUp
  <2>8. /\ GoodHandle(dir.fh, Front(path)) /\ GoodCache(dir.cache) /\ Kept(there.cache, dir.cache) /\ Len(path) # 1
        /\ path = Append(Front(path), Last(path)) /\ Last(path) \in FileName
    BY <1>1, <2>4, <2>7, ParentLookup
  <2>9. Kept(m_handleCache, dir.cache)
    BY <2>7, <2>8 DEF Kept
  <2>10. GoodCache(c) /\ c[path] = NoHandle /\ (\A p \in Path : p # path => c[p] = dir.cache[p]) /\ path \notin m_exportedDirs
    <3>1. GoodCache(c)
      BY <1>1, <2>6, <2>8, Forgotten
    <3>2. path \notin m_exportedDirs
      BY <1>1, <2>2, ExportsAbove
    <3> QED
      BY <1>1, <2>6, <2>8, <3>1, <3>2 DEF GoodCache
  <2>11. \A p \in m_exportedDirs : p \in Path /\ p # path /\ (m_handleCache[p] # NoHandle => c[p] # NoHandle)
    BY <2>9, <2>10 DEF Kept, HandlesInv, Path
  <2>12. hit # 0 => Live(hit) /\ hit \in Id /\ hit <= used /\ PathOf(hit) = path /\ ~IsRoot(hit) /\ object[hit].parent # 0
    BY <1>1, <2>5, <2>8, FoundBelow
  <2>13. Removable(hit) => hit # 0
    BY <1>1, NoHandleIsGood DEF Removable
  <2>14. CASE m_handleCache' = dir.cache /\ Idle
    BY <2>8, <2>9, <2>14, OnlyLooks DEF Idle
  <2>15. CASE /\ Removable(hit) /\ object' = [object EXCEPT ![hit] = Absent] /\ m_handleCache' = c /\ named' = path
              /\ UNCHANGED <<exports, used, m_exportedDirs, m_nfsClient>>
    <3>1. Evolves({}) /\ TreeInv' /\ RemovesNamed
      BY <1>1, <2>12, <2>13, <2>15, Removed
    <3> QED
      BY <2>10, <2>11, <2>15, <3>1, StepIsGood
  <2>16. CASE /\ IsDir(dir.fh.id) /\ (hit = 0 \/ Removable(hit)) /\ used < MaxId /\ used' = used + 1
              /\ object' = [i \in Id |-> IF i = used + 1 THEN [name |-> Last(path), parent |-> dir.fh.id, type |-> "link", target |-> target]
                                         ELSE IF i = hit THEN Absent ELSE object[i]]
              /\ m_handleCache' =
                   LET to == IF target = Outside \/ target = Last(path) THEN 0 ELSE ChildOf(dir.fh.id, target)
                   IN  [c EXCEPT ![path] = IF to = 0 THEN BadLink(used + 1) ELSE [id |-> to, link |-> used + 1]]
              /\ named' = path
              /\ UNCHANGED <<exports, m_exportedDirs, m_nfsClient>>
    <3>1. PICK new : new = used + 1
      OBVIOUS
    <3>2. PICK o : o = [name |-> Last(path), parent |-> dir.fh.id, type |-> "link", target |-> target]
      OBVIOUS
    <3>3. PICK d : d = dir.fh.id
      OBVIOUS
    <3>4. used \in 0 .. MaxId /\ used \in Nat /\ MaxId \in Nat /\ new \in Id /\ new \in Nat /\ used' = new /\ new # 0 /\ new \in 0 .. MaxId
      BY <1>1, <2>16, <3>1, ExportAssumption DEF TreeInv, Id
    <3>5. d \in Id /\ IsDir(d) /\ d # 0 /\ d <= used /\ PathOf(d) = Front(path) /\ d \in 0 .. MaxId
      BY <1>1, <2>8, <2>16, <3>3, ObjectFacts, HandlesOfDirs DEF IsDir, Id
    <3>6. \A i \in Id : i \in Nat /\ i # 0
      BY DEF Id
    <3>7. hit # new /\ d # new /\ (\A i : Live(i) => i # new /\ i \in Id /\ i <= used)
      <4>1. \A i : Live(i) => i \in Nat /\ i <= used /\ i \in Id
        BY <1>1, ObjectFacts
      <4> QED
        BY <2>12, <3>1, <3>4, <3>5, <4>1
    <3>8. o \in ObjectType /\ o.type = "link" /\ o.parent = d /\ o.name = Last(path) /\ o # Absent
      <4>1. o \in ObjectType
        BY <2>8, <3>2, <3>3, <3>5 DEF ObjectType, Name
      <4> QED
        BY <3>2, <3>3, <4>1, ObjectAssumption DEF ObjectType
    <3>9. object \in [Id -> {Absent} \cup ObjectType]
      BY <1>1 DEF TreeInv
    <3>10. /\ object' \in [Id -> {Absent} \cup ObjectType] /\ object'[new] = o /\ (hit # 0 => object'[hit] = Absent)
           /\ \A i \in Id : i # new /\ i # hit => object'[i] = object[i]
      BY <2>12, <2>16, <3>1, <3>2, <3>4, <3>7, <3>8, <3>9
    <3>11. ASSUME NEW i \in Id, Live(i), IsRoot(i) \/ Children(i) # {} PROVE object'[i] = object[i]
      <4>1. i # hit
        BY <2>12, <2>16, <3>6, <3>11 DEF Removable
      <4> QED
        BY <3>7, <3>10, <3>11, <4>1
    <3>12. \A i \in Id : object'[i] # Absent /\ i # new => Live(i) /\ object'[i] = object[i]
      BY <3>6, <3>10 DEF Live
    <3>13. Evolves({})
      <4>1. used' \in used .. MaxId
        BY <2>16, <3>4
      <4>2. \A i \in Id : i <= used => i # new
        BY <3>1, <3>4
      <4> QED
        BY <2>16, <3>10, <3>11, <3>12, <4>1, <4>2 DEF Evolves
    <3>14. d # hit
      <4>1. hit # 0 => object[hit].type # "dir"
        BY <1>1, <2>5, <2>8, ChildFacts
      <4> QED
        BY <3>5, <4>1 DEF IsDir
    <3>15. PICK n : n = Last(path)
      OBVIOUS
    <3>16. Arrives(new, d, n) /\ path = Append(PathOf(d), n)
      BY <2>8, <3>5, <3>7, <3>8, <3>10, <3>14, <3>15 DEF Arrives
    <3>17. \A i \in Id : object'[i] # Absent => i <= used' /\ (i > used => i = new)
      <4> SUFFICES ASSUME NEW i \in Id, object'[i] # Absent, i # new PROVE i <= used' /\ ~(i > used)
        BY <3>4
      <4>1. i \in Nat /\ i <= used
        BY <3>6, <3>7, <3>12
      <4> QED
        BY <3>1, <3>4, <4>1
    <3>18. TreeInv'
      BY <1>1, <3>13, <3>16, <3>17, TreeStays
    <3>19. RemovesNamed
      <4>1. \A i \in Id : Live(i) /\ object'[i] = Absent => i = hit
        BY <3>7, <3>10 DEF Live
      <4> QED
        BY <2>12, <2>16, <3>6, <4>1, LiveNext DEF RemovesNamed
    <3>20. PICK to : to = IF target = Outside \/ target = n THEN 0 ELSE ChildOf(d, target)
      OBVIOUS
    <3>21. to \in 0 .. MaxId /\ to <= used /\ ~IsDir(to)
      <4>1. CASE target = Outside \/ target = n
        BY <1>1, <3>4, <3>20, <4>1, NoHandleIsGood DEF IsDir
      <4>2. CASE ~(target = Outside \/ target = n)
        <5>1. target \in FileName
          BY <4>2
        <5> QED
          BY <1>1, <3>20, <4>2, <5>1, LinksLeadToFiles
      <4> QED
        BY <4>1, <4>2
    <3>22. PICK fh : fh = IF to = 0 THEN BadLink(new) ELSE [id |-> to, link |-> new]
      OBVIOUS
    <3>23. m_handleCache' = [c EXCEPT ![path] = fh]
      BY <2>16, <3>1, <3>3, <3>15, <3>20, <3>22
    <3>24. /\ fh \in HandleType /\ fh.id \in {new, to} /\ fh.link \in {new, MaxId + 1} /\ Own(fh) = new /\ fh # NoHandle
      <4>1. CASE to = 0
        <5>1. fh = [id |-> new, link |-> MaxId + 1] /\ MaxId + 1 \notin Id
          BY <3>4, <3>22, <4>1 DEF BadLink, Id
        <5> QED
          BY <3>4, <5>1 DEF HandleType, Own, NoHandle
      <4>2. CASE to # 0
        <5>1. fh = [id |-> to, link |-> new]
          BY <3>22, <4>2
        <5> QED
          BY <3>4, <3>21, <5>1, <4>2 DEF HandleType, Own, NoHandle
      <4> QED
        BY <4>1, <4>2
    <3>25. GoodHandle(fh, path)'
      <4>1. Own(fh)' = new
        BY <3>24 DEF Own, Id
      <4>2. PathOf(new)' = Append(PathOf(d), n)
        BY <1>1, <3>13, <3>16, ArrivedAt
      <4>3. (fh \in HandleType)'
        BY <3>24 DEF HandleType
      <4>4. fh.id <= used' /\ (fh.link <= used' \/ fh.link = MaxId + 1)
        BY <3>1, <3>4, <3>21, <3>24
      <4>5. ~IsDir(fh.id)'
        <5>1. CASE fh.id = new
          <6>1. ~(object'[fh.id].type = "dir")
            BY <3>8, <3>10, <5>1
          <6> QED
            BY <6>1 DEF IsDir
        <5>2. CASE fh.id = to /\ to # new
          <6>1. ASSUME fh.id \in Id, object'[fh.id] # Absent, object'[fh.id].type = "dir" PROVE FALSE
            <7>1. Live(to) /\ object[to].type = "dir"
              BY <3>12, <5>2, <6>1
            <7> QED
              BY <3>21, <7>1 DEF IsDir
          <6> QED
            BY <6>1, LiveNext DEF IsDir
        <5> QED
          BY <3>24, <5>1, <5>2
      <4> QED
        BY <3>16, <4>1, <4>2, <4>3, <4>4, <4>5 DEF GoodHandle
    <3>26. GoodCache(c)'
      BY <1>1, <2>10, <3>13, CacheStays
    <3>27. PICK e : e = [c EXCEPT ![path] = fh]
      OBVIOUS
    <3>28. e[path] = fh /\ (\A p \in Path : p # path => e[p] = c[p]) /\ e = [p \in Path |-> e[p]]
      <4>1. c \in [Path -> HandleType]
        BY <2>10 DEF GoodCache
      <4> QED
        BY <1>1, <3>27, <4>1
    <3>29. GoodCache(e)'
      BY <1>1, <3>25, <3>26, <3>28, CachePlus
    <3>30. GoodCache(m_handleCache)'
      BY <3>23, <3>27, <3>29, CacheIs
    <3>31. KeepsExports
      <4> SUFFICES ASSUME NEW p \in m_exportedDirs, m_handleCache[p] # NoHandle PROVE e[p] # NoHandle
        BY <3>23, <3>27 DEF KeepsExports
      <4> QED
        BY <2>11, <3>28
    <3>32. (m_exportedDirs \subseteq DirPath)'
      BY <2>16 DEF HandlesInv, DirPath
    <3> QED
      BY <3>18, <3>19, <3>30, <3>31, <3>32 DEF GoodStep, HandlesInv
  <2> QED
    BY <2>1, <2>3, <2>4, <2>5, <2>6, <2>14, <2>15, <2>16 DEF Removes, IsDir
<1> QED
  BY <1>2, <1>3

LEMMA NextIsGood == ASSUME HandlesInv, Cases = {}, HandlesNext PROVE GoodStep
<1>1. Known \subseteq Path
  BY PathsOfObjects DEF Known, HandlesInv
<1>2. CASE OpenConnection
  BY <1>2, OpenStep
<1>3. CASE CloseConnection
  BY <1>3, CloseStep
<1>4. CASE OtherCreates \/ OtherRemoves
  BY <1>4, OtherSteps
<1>5. CASE \E path \in Known : Use(path) \/ ListDir(path) \/ Del(path)
  BY <1>1, <1>5, UseStep, ListStep, DelStep
<1>6. CASE \E path \in FilePath : Make(path, "file")
  <2>1. PICK type : type = "file"
    OBVIOUS
  <2>2. PICK path \in FilePath : Make(path, type)
    BY <1>6, <2>1
  <2>3. path \in Path /\ ((type = "dir" /\ path \in DirPath) \/ (type = "file" /\ path \in FilePath))
    BY <2>1, <2>2 DEF Path
  <2> QED
    BY <2>2, <2>3, MakeStep
<1>7. CASE \E path \in DirPath : Make(path, "dir")
  <2>1. PICK type : type = "dir"
    OBVIOUS
  <2>2. PICK path \in DirPath : Make(path, type)
    BY <1>7, <2>1
  <2>3. path \in Path /\ ((type = "dir" /\ path \in DirPath) \/ (type = "file" /\ path \in FilePath))
    BY <2>1, <2>2 DEF Path
  <2> QED
    BY <2>2, <2>3, MakeStep
<1>8. CASE \E src \in Known, dest \in Path, overwrite \in BOOLEAN : SameKind(src, dest) /\ Rename(src, dest, overwrite)
  BY <1>1, <1>8, RenameStep
<1>9. CASE \E target \in FileName \cup {Outside}, path \in FilePath, overwrite \in BOOLEAN : Symlink(target, path, overwrite)
  BY <1>9, SymlinkStep
<1> QED
  BY <1>2, <1>3, <1>4, <1>5, <1>6, <1>7, <1>8, <1>9 DEF HandlesNext

LEMMA HandlesStutter == ASSUME HandlesInv, UNCHANGED handleVars PROVE HandlesInv'
<1>1. UNCHANGED <<serverVars, m_exportedDirs>> /\ m_handleCache' = m_handleCache
  BY DEF handleVars
<1>2. PICK c : c = m_handleCache
  OBVIOUS
<1>3. GoodCache(c) /\ Kept(m_handleCache, c)
  BY <1>2 DEF HandlesInv, Kept
<1> QED
  BY <1>1, <1>2, <1>3, OnlyLooks DEF GoodStep

LEMMA HandlesInvariant == ASSUME Cases = {} PROVE HandlesSpec => []HandlesInv
<1>1. HandlesInv /\ [HandlesNext]_handleVars => HandlesInv'
  BY NextIsGood, HandlesStutter DEF GoodStep
<1> QED
  BY <1>1, HandlesTyped, PTL DEF HandlesSpec

LEMMA InvIsRight == HandlesInv => HandleRight
BY DEF HandlesInv, GoodCache, GoodHandle, HandleRight

(* Names: no operation drops the handle of an export, and what disappears  *)
(* from the server has been named by its path.  Renaming a folder leaves   *)
(* what is cached below it, and a failed lookup after a rename leaves the  *)
(* source: then handles lie (kio_nfs.cpp), which Cases = {} excludes.      *)
THEOREM NfsNamesRight == ASSUME Cases = {} PROVE HandlesSpec => NamesRight
<1>1. HandlesInv /\ [HandlesNext]_handleVars =>
        [\A p \in m_exportedDirs : m_handleCache[p] # NoHandle => m_handleCache'[p] # NoHandle]_handleVars
  BY NextIsGood DEF GoodStep, KeepsExports
<1>2. HandlesInv /\ [HandlesNext]_handleVars => [\A i \in Id : Live(i) /\ ~Live(i)' => named' = PathOf(i)]_handleVars
  BY NextIsGood DEF GoodStep, RemovesNamed
<1> QED
  BY <1>1, <1>2, HandlesInvariant, PTL DEF HandlesSpec, NamesRight, ExportsStay, RemovesOnlyNamed

(* Handles: a cached handle is of the object at its path, whatever was     *)
(* renamed, replaced and removed since, and of the host and the protocol   *)
(* that the worker talks to.                                               *)
THEOREM NfsHandlesRight == ASSUME Cases = {} PROVE HandlesSpec /\ SessionSpec => []HandlesRight
BY HandlesInvariant, InvIsRight, NfsHandlesOfHost, PTL DEF HandlesRight
=============================================================================
