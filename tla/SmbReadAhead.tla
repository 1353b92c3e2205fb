---------------------------- MODULE SmbReadAhead ----------------------------
(***************************************************************************)
(* The read-ahead transfer loop of the SMB worker: a push thread started   *)
(* with std::async reads segments of the remote file into a                *)
(* TransferRingBuffer while the worker thread pulls them out and either    *)
(* appends them to a local file (SMBWorker::smbCopyGet) or sends them to   *)
(* the application (SMBWorker::get).                                       *)
(*                                                                         *)
(* A segment is modelled by its `size' field and the data that goes with   *)
(* it: the number k > 0 of the file chunk that was read, EndOfFile for     *)
(* size 0, ReadError for size -1.  The file has FileChunks chunks; a       *)
(* resumed copy starts behind the first `offset' of them.                  *)
(***************************************************************************)
EXTENDS TransferRingBuffer, Sequences

CONSTANTS
  Operation,     \* "get" or "copyGet": which of the two functions runs
  FileChunks     \* length of the remote file, in segments

ASSUME OperationAssumption == Operation \in {"get", "copyGet"}
ASSUME FileChunksAssumption == FileChunks \in Nat

VARIABLES
  m_buffer,      \* the segments: [Index -> Segment]
  ppc,           \* program counter of the push thread
  pseg,          \* the segment the push thread got from nextFree()
  nread,         \* chunks of the file that smbc_read has returned
  readResult,    \* value of the future
  cpc,           \* program counter of the worker thread
  cseg,          \* the segment the worker thread got from pop()
  out,           \* what was written to the file or passed to data()
  isErr,         \* the atomic<bool> of smbCopyGet
  result,        \* the WorkerResult
  killed,        \* wasKilled()
  offset         \* resume.destinationOffset, 0 when not resuming

pushVars   == <<ppc, pseg, nread, readResult, m_buffer>>
workerVars == <<cpc, cseg, out, isErr, result>>
vars == <<ringVars, pushVars, workerVars, killed, offset>>

EndOfFile == 0
ReadError == -1
Segment   == {EndOfFile, ReadError} \union (1 .. FileChunks)

PushPC   == {"loop", "kill", "free", "read", "push", "done", "doneKilled", "exit"}
WorkerPC == {"pop", "kill", "use", "setErr", "unpopErr", "unpop", "join", "end"}
Result   == {"pass", "ERR_CANNOT_READ", "ERR_CANNOT_WRITE"}

(* Mutant: the source is not sought to the resume offset. *)
InitNoSeek ==
  /\ RingInit
  /\ m_buffer = [i \in Index |-> EndOfFile]
  /\ offset \in (IF Operation = "copyGet" THEN 0 .. FileChunks ELSE {0})
  /\ nread = 0
  /\ ppc = "loop" /\ pseg = 0 /\ readResult = "NoError"
  /\ cpc = "pop" /\ cseg = 0 /\ out = << >>
  /\ isErr = FALSE /\ result = "pass" /\ killed = FALSE

(* Only smbCopyGet resumes: get() always reads from the start. *)
Init ==
  /\ RingInit
  /\ m_buffer = [i \in Index |-> EndOfFile]
  /\ offset \in (IF Operation = "copyGet" THEN 0 .. FileChunks ELSE {0})
  /\ nread = offset
  /\ ppc = "loop" /\ pseg = 0 /\ readResult = "NoError"
  /\ cpc = "pop" /\ cseg = 0 /\ out = << >>
  /\ isErr = FALSE /\ result = "pass" /\ killed = FALSE

-----------------------------------------------------------------------------
(* The push thread. *)

(* while (!isErr): get() has no such flag and loops forever. *)
PushLoop ==
  /\ ppc = "loop"
  /\ ppc' = IF isErr THEN "exit" ELSE "kill"
  /\ UNCHANGED <<ringVars, workerVars, killed, offset, pseg, nread, readResult, m_buffer>>

PushCheckKilled ==
  /\ ppc = "kill"
  /\ ppc' = IF killed THEN "doneKilled" ELSE "free"
  /\ UNCHANGED <<ringVars, workerVars, killed, offset, pseg, nread, readResult, m_buffer>>

PushDoneKilled ==
  /\ ppc = "doneKilled"
  /\ Done
  /\ ppc' = "exit"
  /\ UNCHANGED <<workerVars, killed, offset, pseg, nread, readResult, m_buffer>>

(* Mutant: the segment behind the free one is handed out. *)
PushNextFreeOffByOne ==
  /\ ppc = "free"
  /\ NextFree
  /\ pseg' = NextIndex(head)
  /\ ppc' = "read"
  /\ UNCHANGED <<workerVars, killed, offset, nread, readResult, m_buffer>>

PushNextFree ==
  /\ ppc = "free"
  /\ NextFree
  /\ pseg' = head
  /\ ppc' = "read"
  /\ UNCHANGED <<workerVars, killed, offset, nread, readResult, m_buffer>>

(* smbc_read() fills the segment: the next chunk, the end or an error. *)
PushRead ==
  /\ ppc = "read"
  /\ \/ /\ nread < FileChunks
        /\ nread' = nread + 1
        /\ m_buffer' = [m_buffer EXCEPT ![pseg] = nread + 1]
     \/ /\ nread = FileChunks
        /\ m_buffer' = [m_buffer EXCEPT ![pseg] = EndOfFile]
        /\ UNCHANGED nread
     \/ /\ m_buffer' = [m_buffer EXCEPT ![pseg] = ReadError]
        /\ UNCHANGED nread
  /\ ppc' = "push"
  /\ UNCHANGED <<ringVars, workerVars, killed, offset, pseg, readResult>>

PushBlocks ==
  /\ ppc = "push"
  /\ PushWaits
  /\ UNCHANGED <<pushVars, workerVars, killed, offset>>

PushSegment ==
  /\ ppc = "push"
  /\ PushAdvances
  /\ ppc' = IF m_buffer[pseg] <= 0 THEN "done" ELSE "loop"
  /\ UNCHANGED <<workerVars, killed, offset, pseg, nread, readResult, m_buffer>>

(* done(), then s->size is read once more, after the segment was pushed. *)
PushDone ==
  /\ ppc = "done"
  /\ Done
  /\ readResult' = IF m_buffer[pseg] < 0 THEN "ERR_CANNOT_READ" ELSE "NoError"
  /\ ppc' = "exit"
  /\ UNCHANGED <<workerVars, killed, offset, pseg, nread, m_buffer>>

-----------------------------------------------------------------------------
(* The worker thread. *)

PullBlocks ==
  /\ cpc = "pop"
  /\ PopWaits
  /\ UNCHANGED <<pushVars, workerVars, killed, offset>>

PullSegment ==
  /\ cpc = "pop"
  /\ PopSegment
  /\ cseg' = tail
  /\ cpc' = "kill"
  /\ UNCHANGED <<pushVars, killed, offset, out, isErr, result>>

PullNull ==
  /\ cpc = "pop"
  /\ PopNull
  /\ cpc' = "join"
  /\ UNCHANGED <<pushVars, killed, offset, cseg, out, isErr, result>>

(* Mutant: a killed worker leaves the loop at once. *)
PullStopsWhenKilled ==
  /\ cpc = "kill"
  /\ cpc' = IF killed THEN "join" ELSE "use"
  /\ UNCHANGED <<ringVars, pushVars, killed, offset, cseg, out, isErr, result>>

(* A killed worker keeps draining but uses the data no more. *)
PullCheckKilled ==
  /\ cpc = "kill"
  /\ cpc' = IF killed THEN "unpop" ELSE "use"
  /\ UNCHANGED <<ringVars, pushVars, killed, offset, cseg, out, isErr, result>>

(* get(): mimeType() and data() with whatever the segment says. *)
SendSegment ==
  /\ Operation = "get"
  /\ cpc = "use"
  /\ out' = Append(out, m_buffer[cseg])
  /\ cpc' = "unpop"
  /\ UNCHANGED <<ringVars, pushVars, killed, offset, cseg, isErr, result>>

(* smbCopyGet(): file.write() of size bytes; of 0 bytes it does nothing. *)
WriteSegment ==
  /\ Operation = "copyGet"
  /\ cpc = "use"
  /\ m_buffer[cseg] >= 0
  /\ out' = IF m_buffer[cseg] = EndOfFile THEN out ELSE Append(out, m_buffer[cseg])
  /\ cpc' = "unpop"
  /\ UNCHANGED <<ringVars, pushVars, killed, offset, cseg, isErr, result>>

(* Mutant: the push thread is not told to stop. *)
WriteFailsUnflagged ==
  /\ Operation = "copyGet"
  /\ cpc = "use"
  /\ m_buffer[cseg] # EndOfFile
  /\ result' = "ERR_CANNOT_WRITE"
  /\ cpc' = "unpopErr"
  /\ UNCHANGED <<ringVars, pushVars, killed, offset, cseg, out, isErr>>

(* file.write() returns -1: the disk refuses the data, or the size passed  *)
(* to it is negative, which QIODevice::write() rejects.                    *)
WriteFails ==
  /\ Operation = "copyGet"
  /\ cpc = "use"
  /\ m_buffer[cseg] # EndOfFile
  /\ result' = "ERR_CANNOT_WRITE"
  /\ cpc' = "setErr"
  /\ UNCHANGED <<ringVars, pushVars, killed, offset, cseg, out, isErr>>

SetErr ==
  /\ cpc = "setErr"
  /\ isErr' = TRUE
  /\ cpc' = "unpopErr"
  /\ UNCHANGED <<ringVars, pushVars, killed, offset, cseg, out, result>>

UnpopAndBreak ==
  /\ cpc = "unpopErr"
  /\ Unpop
  /\ cpc' = "join"
  /\ UNCHANGED <<pushVars, killed, offset, cseg, out, isErr, result>>

UnpopSegment ==
  /\ cpc = "unpop"
  /\ Unpop
  /\ cpc' = "pop"
  /\ UNCHANGED <<pushVars, killed, offset, cseg, out, isErr, result>>

(* future.wait() / future.get(): joins the push thread. *)
Join ==
  /\ cpc = "join"
  /\ ppc = "exit"
  /\ result' = IF result = "pass" /\ ~killed /\ readResult # "NoError"
                 THEN readResult ELSE result
  /\ cpc' = "end"
  /\ UNCHANGED <<ringVars, pushVars, killed, offset, cseg, out, isErr>>

-----------------------------------------------------------------------------
(* The environment: the application aborts the job, once. *)
Kill ==
  /\ ~killed
  /\ cpc # "end"
  /\ killed' = TRUE
  /\ UNCHANGED <<ringVars, pushVars, workerVars, offset>>

Wakeup ==
  /\ \E t \in Thread : SpuriousWakeup(t)
  /\ UNCHANGED <<pushVars, workerVars, killed, offset>>

PushNext ==
  \/ PushLoop \/ PushCheckKilled \/ PushDoneKilled \/ PushNextFree
  \/ PushRead \/ PushBlocks \/ PushSegment \/ PushDone

WorkerNext ==
  \/ PullBlocks \/ PullSegment \/ PullNull \/ PullCheckKilled
  \/ SendSegment \/ WriteSegment \/ WriteFails
  \/ SetErr \/ UnpopAndBreak \/ UnpopSegment \/ Join

(* The function returned; the ring buffer is gone. *)
Returned == cpc = "end" /\ UNCHANGED vars

Next == PushNext \/ WorkerNext \/ Kill \/ Wakeup \/ Returned

Spec == Init /\ [][Next]_vars

(* Both threads are scheduled; smbc_read() returns (libsmbclient times out). *)
FairSpec == Spec /\ WF_vars(PushNext) /\ WF_vars(WorkerNext)

-----------------------------------------------------------------------------
TypeOK ==
  /\ RingTypeOK
  /\ m_buffer \in [Index -> Segment]
  /\ ppc \in PushPC /\ pseg \in Index
  /\ nread \in 0 .. FileChunks
  /\ readResult \in {"NoError", "ERR_CANNOT_READ"}
  /\ cpc \in WorkerPC /\ cseg \in Index
  /\ out \in Seq(Segment)
  /\ isErr \in BOOLEAN /\ killed \in BOOLEAN
  /\ result \in Result
  /\ offset \in 0 .. FileChunks

(* Between pop() and unpop() the worker thread owns its segment: the push  *)
(* thread, which fills segments without holding the mutex, is elsewhere.   *)
SegmentExclusive ==
  (cpc \in {"kill", "use"} /\ ppc = "read") => pseg # cseg

(* A thread asleep in m_cond.wait() has a reason to sleep: no wakeup is    *)
(* lost, whatever order the two threads lock and notify in.                *)
SleepersJustified ==
  /\ "pull" \in waiting => head = tail /\ ~m_done
  /\ "push" \in waiting => NextIndex(head) = tail

(* Once the worker thread left its loop (it broke out after a failed       *)
(* write, or pop() returned nullptr) it waits for the push thread and      *)
(* unpops nothing any more: the push thread must not be left in front of a *)
(* full buffer.                                                            *)
NoStuckJoin ==
  cpc = "join" => ~(ppc = "push" /\ NextIndex(head) = tail)

(* The chunks that came out are those behind the resume offset, each once  *)
(* and in order.                                                           *)
InOrder ==
  \A i \in 1 .. Len(out) : out[i] > 0 => out[i] = offset + i

(* A transfer that reports success and was not killed delivered the file   *)
(* to its last chunk.                                                      *)
CompleteOnSuccess ==
  (cpc = "end" /\ result = "pass" /\ ~killed) =>
     \/ FileChunks = offset
     \/ \E i \in 1 .. Len(out) : out[i] = FileChunks

(* Both threads come to an end, killed or not, failing or not. *)
Terminates == <>(cpc = "end" /\ ppc = "exit")

(* The buffer is a bounded first-in-first-out queue that is closed once;   *)
(* a segment is in it from push() until unpop().                           *)
Queue == INSTANCE SegmentQueue WITH
           Limit  <- Capacity - 1,
           Item   <- Segment,
           queue  <- [i \in 1 .. Occupied |-> m_buffer[Slot(i - 1)]],
           closed <- m_done

RingIsQueue == Queue!Spec
=============================================================================
