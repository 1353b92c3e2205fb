------------------------------ MODULE NfsCopy ------------------------------
(***************************************************************************)
(* The NFS worker's operations that write a file (src/nfs/nfsv3.cpp): put, *)
(* copySame (remote to remote), copyFrom (remote to local) and copyTo      *)
(* (local to remote).  The copies write to a part file and rename it.      *)
(*                                                                         *)
(* One job runs at a time, up to MaxJobs of them, all with one source and  *)
(* one destination.  A file is the sequence of its chunks, one for each    *)
(* READ or WRITE; the source is <<1, ..., Chunks>>, 0 is a chunk of an     *)
(* older file or of a hole.  This worker does not look at wasKilled(): an  *)
(* application that kills the job ends the process, as a crash does.       *)
(***************************************************************************)
EXTENDS Integers, Sequences

CONSTANTS
  NoFile,       \* no file of that name exists
  Directory,    \* the name is that of a directory
  Chunks,       \* length of the source
  MinKeep,      \* DEFAULT_MINIMUM_KEEP_SIZE, in chunks
  ListedFirst,  \* whether a worker has listed or read something before
  Events,       \* what may go wrong besides calls that report an error
  MaxJobs       \* bound: jobs in a behaviour

(* lookupFails: a LOOKUP fails though the file exists; shortWrite: a WRITE *)
(* stores less than it was given; flushFails: the local file cannot take   *)
(* what QFile still buffers; appLost: the application breaks off put().    *)
ASSUME CopyAssumption ==
  /\ {Chunks, MinKeep, MaxJobs} \subseteq Nat /\ ListedFirst \in BOOLEAN
  /\ NoFile # Directory /\ {NoFile, Directory} \cap Seq(0 .. Chunks) = {}
ASSUME EventsAssumption == Events \subseteq {"lookupFails", "shortWrite", "flushFails", "appLost"}

VARIABLES
  side,         \* where the destination is: "local" or "remote"
  dst, part,    \* the two files
  old,          \* dst when the job started
  op, flags,    \* the operation, KIO::JobFlags and MarkPartial
  pc,           \* what the job does next
  bResume,      \* the job appends to the part file
  partSize,     \* its size as the job saw it first (QFileInfo keeps it)
  pos, at,      \* readArgs.offset and writeArgs.offset
  known,        \* initPreferredSizes() has set the buffer sizes
  result, jobs

fileVars == <<dst, part>>
jobVars == <<side, old, op, flags, jobs>>
transferVars == <<jobVars, fileVars, pc, bResume, partSize, pos, at, known, result>>

Source == [i \in 1 .. Chunks |-> i]
PrefixOfSource(f) == \E n \in 0 .. Chunks : f = SubSeq(Source, 1, n)
OldFiles == {<< >>, [i \in 1 .. Chunks + 1 |-> 0]}
Size(f) == IF f \in {NoFile, Directory} THEN 0 ELSE Len(f)
WriteAt(f, n, chunk) ==
  [i \in 1 .. (IF Len(f) > n THEN Len(f) ELSE n + 1) |->
     IF i = n + 1 THEN chunk ELSE IF i <= Len(f) THEN f[i] ELSE 0]

(* What the job writes to: put() knows no part file.                       *)
UsesPart == op # "put" /\ flags.markPartial
Written == IF UsesPart THEN part ELSE dst
SetWritten(f) == IF UsesPart THEN part' = f /\ dst' = dst ELSE dst' = f /\ part' = part

Return(r) == pc' = "end" /\ result' = r
Goto(l) == pc' = l /\ UNCHANGED result

TransferInit ==
  /\ side \in {"local", "remote"}
  /\ dst \in {NoFile, Directory} \cup OldFiles /\ part = NoFile /\ old = dst
  /\ op = "none" /\ flags = [overwrite |-> FALSE, markPartial |-> TRUE]
  /\ pc = "end" /\ bResume = FALSE /\ partSize = 0 /\ pos = 0 /\ at = 0
  /\ known = ListedFirst /\ result = "pass" /\ jobs = 0

StartJob ==
  /\ pc = "end" /\ jobs < MaxJobs /\ jobs' = jobs + 1
  /\ op' \in IF side = "local" THEN {"copyFrom"} ELSE {"copySame", "copyTo", "put"}
  /\ flags' \in [overwrite : BOOLEAN, markPartial : BOOLEAN]
  /\ pc' = "check" /\ old' = dst /\ bResume' = FALSE /\ partSize' = 0 /\ pos' = 0 /\ at' = 0
  /\ UNCHANGED <<side, fileVars, known, result>>

(* handleIsValid(getFileHandle(path)), or QFile::exists(): a LOOKUP that   *)
(* fails for whatever reason counts as a file that is not there.           *)
Sees(f, there) ==
  \/ there = (f # NoFile)
  \/ there = FALSE /\ side = "remote" /\ "lookupFails" \in Events

(* Mutant: KIO::Overwrite is not asked for.                                *)
CheckFilesUnasked ==
  /\ pc = "check" /\ Goto(IF op = "put" THEN "create" ELSE "resume")
  /\ UNCHANGED <<jobVars, fileVars, bResume, partSize, pos, at, known>>

(* The source has to be there and the destination must not, without        *)
(* KIO::Overwrite.  put() learns the sizes from a destination it found,    *)
(* copyFrom() from the source.                                             *)
CheckFiles ==
  /\ pc = "check"
  /\ \/ op # "put" /\ Return("ERR_DOES_NOT_EXIST") /\ UNCHANGED known
     \/ \E there \in BOOLEAN :
          /\ Sees(dst, there)
          /\ IF there /\ ~flags.overwrite
             THEN Return("ERR_FILE_ALREADY_EXIST") /\ UNCHANGED known
             ELSE /\ Goto(IF op = "put" THEN "create" ELSE "resume")
                  /\ known' = (known \/ op = "copyFrom" \/ (op = "put" /\ there))
  /\ UNCHANGED <<jobVars, fileVars, bResume, partSize, pos, at>>

(* A part file that is not resumed is removed, with MarkPartial or not; if *)
(* that fails the job goes on.  copyTo() opens its source only now.        *)
ResumePart ==
  /\ pc = "resume"
  /\ \E there \in BOOLEAN :
       /\ Sees(part, there)
       /\ partSize' = IF there THEN Size(part) ELSE 0
       /\ bResume' \in IF there /\ flags.markPartial /\ Size(part) > 0 THEN BOOLEAN ELSE {FALSE}
       /\ part' \in IF there /\ ~bResume' THEN {NoFile, part} ELSE {part}
  /\ \/ Goto("create")
     \/ op = "copyTo" /\ Return("ERR_CANNOT_OPEN_FOR_READING")
  /\ UNCHANGED <<jobVars, dst, pos, at, known>>

(* create(), or QFile::open(): both truncate what is there.                *)
OpenNew ==
  /\ pc = "create" /\ ~bResume
  /\ Written # Directory /\ SetWritten(<< >>)
  /\ Goto("copy") /\ known' = (known \/ op = "copyTo")
  /\ UNCHANGED <<jobVars, bResume, partSize, pos, at>>

(* Mutant: the source is read from its start, the part file appended to.   *)
OpenPartNoSeek ==
  /\ pc = "create" /\ bResume
  /\ pos' = 0 /\ at' = IF side = "local" THEN Size(part) ELSE partSize
  /\ Goto("copy") /\ known' = (known \/ op = "copyTo")
  /\ UNCHANGED <<jobVars, fileVars, bResume, partSize>>

OpenPart ==
  /\ pc = "create" /\ bResume
  /\ pos' = partSize /\ at' = IF side = "local" THEN Size(part) ELSE partSize
  /\ Goto("copy") /\ known' = (known \/ op = "copyTo")
  /\ UNCHANGED <<jobVars, fileVars, bResume, partSize>>

OpenFails ==
  /\ pc = "create"
  /\ Return("ERR_CANNOT_OPEN_FOR_WRITING")
  /\ UNCHANGED <<jobVars, fileVars, bResume, partSize, pos, at, known>>

(* One READ, or readData(), and the WRITE of what came.  put() goes on     *)
(* from where the server says the WRITE ended, the copies do not look.     *)
(* With a buffer size of zero put() writes nothing, for ever.              *)
Stored == SetWritten(WriteAt(Written, at, Source[pos + 1])) /\ at' = at + 1
CopyChunk ==
  /\ pc = "copy" /\ known /\ pos < Chunks
  /\ \/ Stored
     \/ "shortWrite" \in Events /\ op \in {"copySame", "copyTo"} /\ UNCHANGED fileVars /\ at' = at + 1
  /\ pos' = pos + 1
  /\ UNCHANGED <<jobVars, pc, bResume, partSize, known, result>>

(* A READ of no bytes is the end of the file for copySame(), whether the   *)
(* file is at its end or there was no room for any.  copyFrom() has its    *)
(* file closed without asking whether all of it could be written.          *)
AtEnd == pos >= Chunks \/ (op = "copySame" /\ ~known) \/ (op = "put" /\ "appLost" \in Events)
CopyEnds ==
  /\ pc = "copy" /\ AtEnd
  /\ \/ UNCHANGED fileVars
     \/ /\ op = "copyFrom" /\ "flushFails" \in Events /\ Size(Written) > 0
        /\ SetWritten(SubSeq(Written, 1, Len(Written) - 1))
  /\ IF UsesPart THEN Goto("remove") ELSE Return("pass")
  /\ UNCHANGED <<jobVars, bResume, partSize, pos, at, known>>

(* Mutant: an error ends the loop and is forgotten.                        *)
CopyFailsUnnoticed ==
  /\ pc = "copy"
  /\ IF UsesPart THEN Goto("remove") ELSE Return("pass")
  /\ UNCHANGED <<jobVars, fileVars, bResume, partSize, pos, at, known>>

(* A READ or a WRITE fails: a small part file is removed.  copyFrom() asks *)
(* partInfo, which still knows the size it saw first; of a file that was   *)
(* not there it may know that, or ask again: both are among the outcomes.  *)
CopyFails ==
  /\ pc = "copy"
  /\ LET size == IF op = "copyFrom" THEN partSize ELSE at
     IN  part' \in IF UsesPart /\ size < MinKeep THEN {NoFile, part} ELSE {part}
  /\ Return("ERR_CANNOT_WRITE")
  /\ UNCHANGED <<jobVars, dst, bResume, partSize, pos, at, known>>

(* The destination makes room for the part file; a directory only if it is *)
(* empty.  The result is not looked at.                                    *)
RemoveDestination ==
  /\ pc = "remove"
  /\ dst' \in {dst, NoFile}
  /\ Goto("rename")
  /\ UNCHANGED <<jobVars, part, bResume, partSize, pos, at, known>>

(* Mutant: a part file that cannot be renamed is removed.                  *)
RenamePartCleansUp ==
  /\ pc = "rename"
  /\ \/ dst # Directory /\ dst' = part /\ part' = NoFile /\ Return("pass")
     \/ part' = NoFile /\ UNCHANGED dst /\ Return("ERR_CANNOT_RENAME_PARTIAL")
  /\ UNCHANGED <<jobVars, bResume, partSize, pos, at, known>>

(* RENAME replaces a file that is still there, QFile::rename() does not.   *)
RenamePart ==
  /\ pc = "rename"
  /\ \/ /\ dst # Directory /\ (side = "local" => dst = NoFile)
        /\ dst' = part /\ part' = NoFile /\ Return("pass")
     \/ UNCHANGED fileVars /\ Return("ERR_CANNOT_RENAME_PARTIAL")
  /\ UNCHANGED <<jobVars, bResume, partSize, pos, at, known>>

(* The process ends; the next job has a worker of its own.                 *)
Crash ==
  /\ pc # "end"
  /\ Return("crashed") /\ known' = ListedFirst
  /\ UNCHANGED <<jobVars, fileVars, bResume, partSize, pos, at>>

TransferStep ==
  \/ CheckFiles \/ ResumePart \/ OpenNew \/ OpenPart \/ OpenFails
  \/ CopyChunk \/ CopyEnds \/ CopyFails \/ RemoveDestination \/ RenamePart
TransferNext == StartJob \/ TransferStep \/ Crash
TransferSpec == TransferInit /\ [][TransferNext]_transferVars

(***************************************************************************)
(* Properties                                                              *)
(***************************************************************************)
TransferTypeOK ==
  /\ {dst, part, old} \subseteq Seq(0 .. Chunks) \cup {NoFile, Directory}
  /\ part # Directory /\ partSize \in 0 .. Chunks + 1 /\ pos \in 0 .. Chunks + 1 /\ at \in 0 .. Chunks + 1
  /\ bResume \in BOOLEAN /\ known \in BOOLEAN /\ jobs \in 0 .. MaxJobs

(* Whatever ended the earlier jobs, a part file that canResume() may offer *)
(* holds the beginning of the source.                                      *)
PartIsPrefix == part # NoFile => PrefixOfSource(part)

(* "Check what buffer size we should use, always use the smallest one"     *)
(* (nfsv3.cpp:1078): a job that passes has written the whole source, also  *)
(* when neither size has been asked for yet.                               *)
SuccessIsComplete == (pc = "end" /\ jobs > 0 /\ result = "pass") => dst = Source

(* A job with a part file costs no data at any step: the destination is    *)
(* what it was or the source, or the source is complete in the part file.  *)
ContentSafe == UsesPart => dst = old \/ dst = Source \/ (dst = NoFile /\ part = Source)

(* Without KIO::Overwrite what was there stays.                            *)
NoUninvitedOverwrite == (jobs > 0 /\ old # NoFile /\ ~flags.overwrite) => dst = old

(* A part file can be resumed, whatever came before, and a transfer that   *)
(* passes has put all of the source there.                                 *)
TransfersSound == TransferTypeOK /\ PartIsPrefix /\ SuccessIsComplete

(* The destination is at every moment nothing, what it was or all of the   *)
(* source, and it is replaced only where the caller allowed it.            *)
DestinationSafe == ContentSafe /\ NoUninvitedOverwrite

(* "Remove the part file if it's smaller than the minimum keep size"       *)
(* (nfsv3.cpp:1369): a failed job leaves a larger one for the next job.    *)
(* No run checks it: copyFrom() does not keep to it.                       *)
FailureKeepsProgress ==
  [][pc = "copy" /\ result' = "ERR_CANNOT_WRITE" /\ UsesPart /\ Size(part) >= MinKeep => part' = part]_transferVars
=============================================================================
