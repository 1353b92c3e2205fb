---------------------------- MODULE SftpAsyncRead ----------------------------
(***************************************************************************)
(* asyncRead of the SFTP worker as it is built with libssh's asynchronous  *)
(* requests, and the loop of sftpGet that consumes what it yields.         *)
(*                                                                         *)
(* Up to MaxPending reads are sent ahead, each behind the one before it on *)
(* the assumption that all of them are answered in full.  The server       *)
(* answers them in order, with an error or with fewer bytes than asked for *)
(* whenever it likes; another client may truncate or extend the file in    *)
(* the meantime.  Offsets are relative to where the handle stood.          *)
(***************************************************************************)
EXTENDS Integers, Sequences

CONSTANTS
  Size,          \* the bytes to read: what stat() said, less the offset
  ChunkSize,     \* min(limit->max_read_length, MAX_XFER_BUF_SIZE)
  MaxPending     \* MAX_PENDING_REQUESTS

ASSUME SizeAssumption      == Size \in Nat
ASSUME ChunkSizeAssumption == ChunkSize \in Nat \ {0}
ASSUME PendingAssumption   == MaxPending \in Nat \ {0}

VARIABLES
  length,        \* of the file on the server
  queued,        \* queuedBytes
  reqs,          \* requests not yet consumed; while waiting, the head is aio
  answered,      \* how many of them the server has answered
  received,      \* receivedBytes
  out,           \* the extents yielded to sftpGet
  pc,            \* what the generator does next
  status         \* how the transfer has ended

vars == <<length, queued, reqs, answered, received, out, pc, status>>

Error == -1      \* SSH_ERROR
None  == -2      \* not yet answered

Least(a, b) == IF a < b THEN a ELSE b

Requests == [off : Nat, len : Nat, ans : Int]

Init ==
  /\ length = Size
  /\ queued = 0 /\ reqs = << >> /\ answered = 0 /\ received = 0 /\ out = << >>
  /\ pc = "fill" /\ status = "running"

End(s) ==
  /\ pc' = "end"
  /\ status' = s

Goto(l) ==
  /\ pc' = l
  /\ UNCHANGED status

(* Mutant: the last request asks for a whole chunk. *)
BeginReadWhole ==
  /\ queued < Size
  /\ reqs' = Append(reqs, [off |-> queued, len |-> ChunkSize, ans |-> None])
  /\ queued' = queued + ChunkSize

(* sftp_aio_begin_read() at the handle's offset, which it advances. *)
BeginRead ==
  /\ queued < Size
  /\ LET requestLength == Least(ChunkSize, Size - queued)
     IN /\ reqs' = Append(reqs, [off |-> queued, len |-> requestLength, ans |-> None])
        /\ queued' = queued + requestLength

Fill ==
  /\ pc = "fill" /\ Len(reqs) < MaxPending
  /\ BeginRead
  /\ UNCHANGED <<length, answered, received, out, pc, status>>

Filled ==
  /\ pc = "fill" /\ (Len(reqs) >= MaxPending \/ queued >= Size)
  /\ Goto("take")
  /\ UNCHANGED <<length, queued, reqs, answered, received, out>>

(* sftp_limits() fails before the first request, or a request cannot be    *)
(* sent.                                                                   *)
BeginFails ==
  /\ \/ pc = "fill" /\ queued = 0
     \/ pc = "fill" /\ queued < Size /\ Len(reqs) < MaxPending
     \/ pc = "take" /\ queued < Size /\ reqs # << >>
  /\ End("failed")
  /\ UNCHANGED <<length, queued, reqs, answered, received, out>>

(* Mutant: no new request goes out for the one that is taken. *)
TakeOnly ==
  /\ pc = "take" /\ reqs # << >>
  /\ Goto("wait")
  /\ UNCHANGED <<length, queued, reqs, answered, received, out>>

(* The oldest request is taken from the queue and another one sent. *)
Take ==
  /\ pc = "take" /\ reqs # << >>
  /\ BeginRead \/ (queued >= Size /\ UNCHANGED <<reqs, queued>>)
  /\ Goto("wait")
  /\ UNCHANGED <<length, answered, received, out>>

(* Mutant: a short read is yielded like any other. *)
ShortReadYielded ==
  /\ pc = "wait" /\ answered > 0
  /\ LET aio == Head(reqs)
     IN IF aio.ans = Error
          THEN End("failed") /\ UNCHANGED <<received, out>>
          ELSE /\ received' = received + aio.ans
               /\ Goto("yield") /\ out' = Append(out, [off |-> aio.off, len |-> aio.ans])
  /\ reqs' = Tail(reqs)
  /\ answered' = answered - 1
  /\ UNCHANGED <<length, queued>>

(* Mutant: the rest of a short read is waited for, and not asked for. *)
ShortReadAwaited ==
  /\ pc = "wait" /\ answered > 0
  /\ Head(reqs).ans = ChunkSize \/ received + Head(reqs).ans = Size
  /\ received' = received + Head(reqs).ans
  /\ Goto("yield")
  /\ out' = Append(out, [off |-> Head(reqs).off, len |-> Head(reqs).ans])
  /\ reqs' = Tail(reqs)
  /\ answered' = answered - 1
  /\ UNCHANGED <<length, queued>>

(* sftp_aio_wait_read(): a short read ends the transfer, unless it brings  *)
(* the total to Size.                                                      *)
WaitRead ==
  /\ pc = "wait" /\ answered > 0
  /\ LET aio == Head(reqs)
     IN IF aio.ans = Error
          THEN End("failed") /\ UNCHANGED <<received, out>>
          ELSE /\ received' = received + aio.ans
               /\ IF aio.ans # ChunkSize /\ received + aio.ans # Size
                    THEN End("failed") /\ UNCHANGED out
                    ELSE Goto("yield") /\ out' = Append(out, [off |-> aio.off, len |-> aio.ans])
  /\ reqs' = Tail(reqs)
  /\ answered' = answered - 1
  /\ UNCHANGED <<length, queued>>

(* The loop of sftpGet: a killed job returns without an error, and the     *)
(* data may not be written to its destination.                             *)
Consume ==
  /\ pc = "yield"
  /\ Goto("take") \/ End("stopped") \/ End("failed")
  /\ UNCHANGED <<length, queued, reqs, answered, received, out>>

Finish ==
  /\ pc = "take" /\ reqs = << >>
  /\ End("complete")
  /\ UNCHANGED <<length, queued, reqs, answered, received, out>>

(* The server answers the oldest open request from the file as it is now.  *)
ServerAnswers ==
  /\ answered < Len(reqs) /\ pc # "end"
  /\ \E n \in {Error} \union (0 .. reqs[answered + 1].len) :
       /\ n > 0 => reqs[answered + 1].off + n <= length
       /\ reqs' = [reqs EXCEPT ![answered + 1].ans = n]
  /\ answered' = answered + 1
  /\ UNCHANGED <<length, queued, received, out, pc, status>>

(* Another client truncates the file or appends to it. *)
OtherClient ==
  /\ pc # "end"
  /\ length' \in 0 .. Size + 1
  /\ UNCHANGED <<queued, reqs, answered, received, out, pc, status>>

Ended == pc = "end" /\ UNCHANGED vars

ReaderNext == Fill \/ Filled \/ BeginFails \/ Take \/ WaitRead \/ Consume \/ Finish

Next == ReaderNext \/ ServerAnswers \/ OtherClient \/ Ended

(* The worker runs, and every request is answered, or fails by libssh's    *)
(* timeout.                                                                *)
Spec == Init /\ [][Next]_vars /\ WF_vars(ReaderNext) /\ WF_vars(ServerAnswers)

-----------------------------------------------------------------------------
(* Type invariant. *)
TypeOK ==
  /\ length \in 0 .. Size + 1
  /\ queued \in 0 .. Size
  /\ reqs \in Seq(Requests)
  /\ answered \in 0 .. Len(reqs)
  /\ received \in Nat
  /\ out \in Seq([off : Nat, len : Nat])
  /\ pc \in {"fill", "take", "wait", "yield", "end"}
  /\ status \in {"running", "complete", "failed", "stopped"}

(* The bytes that sftpGet gets are those of the file from the start on,    *)
(* without a gap or a repetition, however the server cuts its answers      *)
(* (kio_sftp.cpp:2327).                                                    *)
InOrder ==
  \A i \in 1 .. Len(out) :
    out[i].off = IF i = 1 THEN 0 ELSE out[i - 1].off + out[i - 1].len

Delivered == IF out = << >> THEN 0 ELSE out[Len(out)].off + out[Len(out)].len

(* A transfer that ends without an error and without a kill has delivered  *)
(* exactly the size that stat() reported, even if the file has changed     *)
(* since (kio_sftp.cpp:2327).                                              *)
CompleteOnSuccess == status = "complete" => Delivered = Size
(* However the server cuts or fails its answers, what a pipelined read     *)
(* delivers is the file from its start on, and all of it on success.       *)
ReadExact == InOrder /\ CompleteOnSuccess

(* Never more than MAX_PENDING_REQUESTS wait in the queue, besides the one *)
(* being waited for (kio_sftp.cpp:2292, 2307).                             *)
WindowBounded == Len(reqs) <= MaxPending + (IF pc = "wait" THEN 1 ELSE 0)

(* Every transfer ends, whatever the server answers (kio_sftp.cpp:2304).   *)
Terminates == <>(pc = "end")

Sequential == INSTANCE SequentialRead WITH count <- Delivered

(* asyncRead implements SequentialRead: what is delivered only grows, never *)
(* past Size, and a complete transfer has delivered all of it, although     *)
(* several requests are under way (kio_sftp.cpp:2292-2335).                 *)
ReadIsSequential == Sequential!SeqSpec
=============================================================================
