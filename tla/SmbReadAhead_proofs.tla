------------------------ MODULE SmbReadAhead_proofs ------------------------
(***************************************************************************)
(* Proofs about SmbReadAhead for every capacity of the ring buffer (at     *)
(* least 2), every length of the file and both operations.                 *)
(***************************************************************************)
EXTENDS SmbReadAhead, TLAPS

-----------------------------------------------------------------------------
(* The successor of an index, without the modulus: (i + 1) % m_capacity    *)
(* wraps exactly at the capacity.                                          *)
LEMMA NextIndexValue ==
  ASSUME NEW i \in Index
  PROVE  NextIndex(i) = IF i + 1 = Capacity THEN 0 ELSE i + 1
<1>0. Capacity \in Nat /\ Capacity >= 2
  BY CapacityAssumption
<1>1. CASE i + 1 = Capacity
  <2>1. Capacity % Capacity = 0
    BY <1>0, SMTT(20)
  <2> QED BY <1>1, <2>1 DEF NextIndex
<1>2. CASE i + 1 # Capacity
  <2>1. i + 1 \in 0 .. (Capacity - 1)
    BY <1>0, <1>2 DEF Index
  <2>2. (i + 1) % Capacity = i + 1
    BY <1>0, <2>1, SMTT(20)
  <2> QED BY <1>2, <2>2 DEF NextIndex
<1> QED BY <1>1, <1>2

(* The successor is an index, differs from its argument and determines it. *)
LEMMA NextIndexProps ==
  /\ \A i \in Index : NextIndex(i) \in Index /\ NextIndex(i) # i
  /\ \A i, j \in Index : NextIndex(i) = NextIndex(j) => i = j
BY NextIndexValue, CapacityAssumption DEF Index

-----------------------------------------------------------------------------
(* Type correctness holds initially and is kept by every step. *)
LEMMA TypeInit == Init => TypeOK
<1> SUFFICES ASSUME Init PROVE TypeOK
  OBVIOUS
<1>1. 0 \in Index
  BY CapacityAssumption DEF Index
<1>2. offset \in 0 .. FileChunks /\ nread \in 0 .. FileChunks
  BY FileChunksAssumption DEF Init
<1>3. m_buffer \in [Index -> Segment]
  BY DEF Init, Segment
<1>4. out \in Seq(Segment)
  BY DEF Init
<1>5. RingTypeOK
  BY <1>1 DEF Init, RingInit, RingTypeOK, Thread
<1> QED BY <1>1, <1>2, <1>3, <1>4, <1>5 DEF Init, TypeOK, PushPC, WorkerPC, Result

(* Every step keeps the types. *)
LEMMA TypeStep == TypeOK /\ [Next]_vars => TypeOK'
<1> SUFFICES ASSUME TypeOK, [Next]_vars PROVE TypeOK'
  OBVIOUS
<1> USE DEF TypeOK, RingTypeOK, pushVars, workerVars, ringVars, NotifyAll
<1>1. CASE PushLoop        BY <1>1 DEF PushLoop, PushPC
<1>2. CASE PushCheckKilled BY <1>2 DEF PushCheckKilled, PushPC
<1>3. CASE PushDoneKilled  BY <1>3 DEF PushDoneKilled, Done, PushPC
<1>4. CASE PushNextFree    BY <1>4 DEF PushNextFree, NextFree, PushPC
<1>5. CASE PushRead
  BY <1>5, FileChunksAssumption DEF PushRead, PushPC, Segment, EndOfFile, ReadError
<1>6. CASE PushBlocks      BY <1>6 DEF PushBlocks, PushWaits, Thread
<1>7. CASE PushSegment     BY <1>7, NextIndexProps DEF PushSegment, PushAdvances, PushPC
<1>8. CASE PushDone        BY <1>8 DEF PushDone, Done, PushPC
<1>9. CASE PullBlocks      BY <1>9 DEF PullBlocks, PopWaits, Thread
<1>10. CASE PullSegment    BY <1>10 DEF PullSegment, PopSegment, WorkerPC
<1>11. CASE PullNull       BY <1>11 DEF PullNull, PopNull, WorkerPC
<1>12. CASE PullCheckKilled BY <1>12 DEF PullCheckKilled, WorkerPC
<1>13. CASE SendSegment    BY <1>13 DEF SendSegment, WorkerPC
<1>14. CASE WriteSegment   BY <1>14 DEF WriteSegment, WorkerPC
<1>15. CASE WriteFails     BY <1>15 DEF WriteFails, WorkerPC, Result
<1>16. CASE SetErr         BY <1>16 DEF SetErr, WorkerPC
<1>17. CASE UnpopAndBreak  BY <1>17, NextIndexProps DEF UnpopAndBreak, Unpop, WorkerPC
<1>18. CASE UnpopSegment   BY <1>18, NextIndexProps DEF UnpopSegment, Unpop, WorkerPC
<1>19. CASE Join           BY <1>19 DEF Join, WorkerPC, Result
<1>20. CASE Kill           BY <1>20 DEF Kill
<1>21. CASE Wakeup         BY <1>21 DEF Wakeup, SpuriousWakeup, Thread
<1>22. CASE UNCHANGED vars BY <1>22 DEF vars
<1> QED
  BY <1>1, <1>2, <1>3, <1>4, <1>5, <1>6, <1>7, <1>8, <1>9, <1>10, <1>11, <1>12,
     <1>13, <1>14, <1>15, <1>16, <1>17, <1>18, <1>19, <1>20, <1>21, <1>22
     DEF Next, PushNext, WorkerNext, Returned

(* The variables of SmbReadAhead keep their types: in particular the two   *)
(* indices stay inside the array and no chunk beyond the file is read.     *)
THEOREM TypeCorrect == Spec => []TypeOK
BY TypeInit, TypeStep, PTL DEF Spec
-----------------------------------------------------------------------------
(* The inductive invariant behind the safety of the ring buffer.           *)

Pulling == {"kill", "use", "setErr", "unpopErr", "unpop"}

(* Between nextFree() and push() the push thread is on m_buffer[head]. *)
PushOwnsHead == ppc \in {"read", "push"} => pseg = head

(* Between pop() and unpop() the pull thread is on m_buffer[tail], which   *)
(* has been pushed.                                                        *)
PullOwnsTail == cpc \in Pulling => cseg = tail /\ head # tail

(* Who sleeps, sleeps in the method that puts it to sleep, for its reason. *)
Sleepers ==
  /\ "pull" \in waiting => cpc = "pop" /\ head = tail /\ ~m_done
  /\ "push" \in waiting => ppc = "push" /\ NextIndex(head) = tail

DoneIsLast == m_done => ppc = "exit"

(* isErr is raised before the last unpop(), and after it the worker thread *)
(* is out of its loop; it leaves the loop in no other way than done().     *)
ErrState ==
  /\ cpc = "unpopErr" => isErr
  /\ isErr => cpc \in {"unpopErr", "join", "end"}
  /\ cpc = "join" => isErr \/ m_done

(* After the last unpop() there is room for the one segment that the push  *)
(* thread may have begun before it saw isErr.                              *)
RoomForLast ==
  (cpc = "join" /\ ppc \in {"kill", "free", "read", "push"}) => NextIndex(head) # tail

SafetyInv ==
  TypeOK /\ PushOwnsHead /\ PullOwnsTail /\ Sleepers /\ DoneIsLast /\ ErrState /\ RoomForLast

(* The threads start with an empty ring buffer and nobody asleep. *)
LEMMA SafetyInvInit == Init => SafetyInv
<1> SUFFICES ASSUME Init PROVE SafetyInv
  OBVIOUS
<1>1. TypeOK
  BY TypeInit
<1>2. NextIndex(head) # tail
  BY NextIndexProps, <1>1 DEF Init, RingInit, TypeOK, RingTypeOK
<1> QED
  BY <1>1, <1>2 DEF Init, RingInit, SafetyInv, PushOwnsHead, PullOwnsTail, Sleepers,
     DoneIsLast, ErrState, RoomForLast, Pulling

(* Every step of either thread keeps the safety invariant. *)
LEMMA SafetyInvStep == SafetyInv /\ [Next]_vars => SafetyInv'
<1> SUFFICES ASSUME SafetyInv, [Next]_vars PROVE SafetyInv'
  OBVIOUS
<1>0. TypeOK'
  BY TypeStep DEF SafetyInv
<1>t. /\ head \in Index /\ tail \in Index /\ head' \in Index /\ tail' \in Index
      /\ isErr \in BOOLEAN /\ m_done \in BOOLEAN
  BY <1>0 DEF SafetyInv, TypeOK, RingTypeOK
<1> USE DEF SafetyInv, PushOwnsHead, PullOwnsTail, Sleepers, DoneIsLast, ErrState, RoomForLast,
            Pulling, pushVars, workerVars, ringVars, NotifyAll
<1>1. CASE PushLoop
  BY <1>1, <1>0, <1>t, NextIndexProps DEF PushLoop
<1>2. CASE PushCheckKilled
  BY <1>2, <1>0, <1>t, NextIndexProps DEF PushCheckKilled
<1>3. CASE PushDoneKilled
  BY <1>3, <1>0, <1>t, NextIndexProps DEF PushDoneKilled, Done
<1>4. CASE PushNextFree
  BY <1>4, <1>0, <1>t, NextIndexProps DEF PushNextFree, NextFree
<1>5. CASE PushRead
  BY <1>5, <1>0, <1>t, NextIndexProps DEF PushRead
<1>6. CASE PushBlocks
  BY <1>6, <1>0, <1>t, NextIndexProps DEF PushBlocks, PushWaits
<1>7. CASE PushSegment
  BY <1>7, <1>0, <1>t, NextIndexProps DEF PushSegment, PushAdvances
<1>8. CASE PushDone
  BY <1>8, <1>0, <1>t, NextIndexProps DEF PushDone, Done
<1>9. CASE PullBlocks
  BY <1>9, <1>0, <1>t, NextIndexProps DEF PullBlocks, PopWaits
<1>10. CASE PullSegment
  BY <1>10, <1>0, <1>t, NextIndexProps DEF PullSegment, PopSegment
<1>11. CASE PullNull
  BY <1>11, <1>0, <1>t, NextIndexProps DEF PullNull, PopNull
<1>12. CASE PullCheckKilled
  BY <1>12, <1>0, <1>t, NextIndexProps DEF PullCheckKilled
<1>13. CASE SendSegment
  BY <1>13, <1>0, <1>t, NextIndexProps DEF SendSegment
<1>14. CASE WriteSegment
  BY <1>14, <1>0, <1>t, NextIndexProps DEF WriteSegment
<1>15. CASE WriteFails
  BY <1>15, <1>0, <1>t, NextIndexProps DEF WriteFails
<1>16. CASE SetErr
  BY <1>16, <1>0, <1>t, NextIndexProps DEF SetErr
<1>17. CASE UnpopAndBreak
  BY <1>17, <1>0, <1>t, NextIndexProps DEF UnpopAndBreak, Unpop
<1>18. CASE UnpopSegment
  BY <1>18, <1>0, <1>t, NextIndexProps DEF UnpopSegment, Unpop
<1>19. CASE Join
  BY <1>19, <1>0, <1>t, NextIndexProps DEF Join
<1>20. CASE Kill
  BY <1>20, <1>0, <1>t, NextIndexProps DEF Kill
<1>21. CASE Wakeup
  BY <1>21, <1>0, <1>t, NextIndexProps DEF Wakeup, SpuriousWakeup
<1>22. CASE UNCHANGED vars
  BY <1>22, <1>0 DEF vars
<1> QED
  BY <1>1, <1>2, <1>3, <1>4, <1>5, <1>6, <1>7, <1>8, <1>9, <1>10, <1>11, <1>12, <1>13, <1>14, <1>15, <1>16, <1>17, <1>18, <1>19, <1>20, <1>21, <1>22
     DEF Next, PushNext, WorkerNext, Returned

(* The invariant holds in every reachable state. *)
THEOREM SafetyInvariant == Spec => []SafetyInv
BY SafetyInvInit, SafetyInvStep, PTL DEF Spec

(* smbc_read() never writes into the segment that the worker thread is     *)
(* using, although neither holds the mutex.                                *)
THEOREM Exclusive == Spec => []SegmentExclusive
<1>1. SafetyInv => SegmentExclusive
  BY DEF SafetyInv, PushOwnsHead, PullOwnsTail, Pulling, SegmentExclusive
<1> QED BY <1>1, SafetyInvariant, PTL

(* No wakeup of m_cond is lost, for any capacity from 2 on. *)
THEOREM NoLostWakeup == Spec => []SleepersJustified
<1>1. SafetyInv => SleepersJustified
  BY DEF SafetyInv, Sleepers, SleepersJustified
<1> QED BY <1>1, SafetyInvariant, PTL

(* When the worker thread waits for the push thread at the end of          *)
(* smbCopyGet or get, the push thread is not blocked on a full buffer.     *)
THEOREM JoinNotStuck == Spec => []NoStuckJoin
<1>1. SafetyInv => NoStuckJoin
  BY DEF SafetyInv, RoomForLast, NoStuckJoin
<1> QED BY <1>1, SafetyInvariant, PTL

-----------------------------------------------------------------------------
(* The ring buffer implements SegmentQueue. *)

(* The segments from tail to head, oldest first. *)
Pending == [i \in 1 .. Occupied |-> m_buffer[Slot(i - 1)]]

(* How many segments are pending and where they are. *)
LEMMA RingGeometry ==
  ASSUME RingTypeOK
  PROVE  /\ Occupied \in 0 .. Capacity - 1
         /\ \A i \in 0 .. Capacity - 1 : Slot(i) \in Index
         /\ Slot(Occupied) = head
         /\ \A i \in 0 .. Occupied - 1 : Slot(i) # head
         /\ NextIndex(head) # tail => Occupied < Capacity - 1
BY CapacityAssumption, NextIndexValue DEF RingTypeOK, Occupied, Slot, Index

(* What push() does to them. *)
LEMMA RingPush ==
  ASSUME RingTypeOK, RingTypeOK', head' = NextIndex(head), tail' = tail, NextIndex(head) # tail
  PROVE  /\ Occupied' = Occupied + 1
         /\ \A i \in 0 .. Occupied : Slot(i)' = Slot(i)
<1>1. /\ Capacity \in Nat /\ Capacity >= 2
      /\ head \in 0 .. Capacity - 1 /\ tail \in 0 .. Capacity - 1
      /\ head' = IF head + 1 = Capacity THEN 0 ELSE head + 1
  BY CapacityAssumption, NextIndexValue DEF RingTypeOK, Index
<1>2. head' # tail /\ tail' = tail
  OBVIOUS
<1>3. Occupied' = Occupied + 1
  BY <1>1, <1>2 DEF Occupied
<1>4. \A i \in 0 .. Occupied : Slot(i)' = Slot(i)
  BY <1>2 DEF Slot
<1> QED BY <1>3, <1>4

(* What unpop() does to them. *)
LEMMA RingUnpop ==
  ASSUME RingTypeOK, RingTypeOK', tail' = NextIndex(tail), head' = head, head # tail
  PROVE  /\ Occupied' = Occupied - 1
         /\ \A i \in 0 .. Occupied - 2 : Slot(i)' = Slot(i + 1)
<1>1. /\ Capacity \in Nat /\ Capacity >= 2
      /\ head \in 0 .. Capacity - 1 /\ tail \in 0 .. Capacity - 1
      /\ tail' = IF tail + 1 = Capacity THEN 0 ELSE tail + 1
  BY CapacityAssumption, NextIndexValue DEF RingTypeOK, Index
<1>2. Occupied' = Occupied - 1
  BY <1>1 DEF Occupied
<1>3. \A i \in 0 .. Occupied - 2 : Slot(i)' = Slot(i + 1)
  BY <1>1 DEF Slot, Occupied
<1> QED BY <1>2, <1>3

(* The pending segments form a sequence of Occupied segments. *)
LEMMA PendingType == TypeOK => Pending \in Seq(Segment) /\ Len(Pending) = Occupied
<1> SUFFICES ASSUME TypeOK PROVE Pending \in Seq(Segment) /\ Len(Pending) = Occupied
  OBVIOUS
<1>1. Occupied \in Nat /\ \A i \in 1 .. Occupied : Slot(i - 1) \in Index
  BY RingGeometry, CapacityAssumption DEF TypeOK
<1>2. \A i \in 1 .. Occupied : m_buffer[Slot(i - 1)] \in Segment
  BY <1>1 DEF TypeOK
<1> QED BY <1>1, <1>2 DEF Pending

(* A step that moves neither index and writes no pending segment changes   *)
(* nothing.                                                                *)
LEMMA PendingSame ==
  ASSUME TypeOK, head' = head, tail' = tail,
         \A j \in Index : j # head => m_buffer'[j] = m_buffer[j]
  PROVE  Pending' = Pending
<1>1. Occupied' = Occupied /\ \A i \in 1 .. Occupied : Slot(i - 1)' = Slot(i - 1)
  BY DEF Occupied, Slot
<1>2. \A i \in 1 .. Occupied : Slot(i - 1) \in Index /\ Slot(i - 1) # head
  BY RingGeometry, CapacityAssumption DEF TypeOK
<1> QED BY <1>1, <1>2 DEF Pending

(* push() appends the segment at head to the pending ones. *)
LEMMA PendingPush ==
  ASSUME TypeOK, TypeOK', head' = NextIndex(head), tail' = tail, NextIndex(head) # tail,
         m_buffer' = m_buffer
  PROVE  Len(Pending) < Capacity - 1 /\ Pending' = Append(Pending, m_buffer[head])
<1>1. /\ Occupied' = Occupied + 1 /\ Occupied \in Nat /\ Occupied < Capacity - 1
      /\ \A i \in 0 .. Occupied : Slot(i)' = Slot(i)
      /\ Slot(Occupied) = head
  BY RingGeometry, RingPush, CapacityAssumption DEF TypeOK
<1>2. Pending \in Seq(Segment) /\ Len(Pending) = Occupied
  BY PendingType
<1>3. Pending' = [i \in 1 .. Occupied + 1 |-> m_buffer[Slot(i - 1)]]
  BY <1>1 DEF Pending
<1>4. Append(Pending, m_buffer[head]) = [i \in 1 .. Occupied + 1 |-> m_buffer[Slot(i - 1)]]
  BY <1>1, <1>2 DEF Pending
<1> QED BY <1>1, <1>2, <1>3, <1>4

(* unpop() takes the oldest pending segment away. *)
LEMMA PendingUnpop ==
  ASSUME TypeOK, TypeOK', tail' = NextIndex(tail), head' = head, head # tail,
         m_buffer' = m_buffer
  PROVE  Pending # << >> /\ Pending' = Tail(Pending)
<1>1. /\ Occupied' = Occupied - 1 /\ Occupied \in Nat
      /\ \A i \in 0 .. Occupied - 2 : Slot(i)' = Slot(i + 1)
  BY RingGeometry, RingUnpop DEF TypeOK
<1>2. Occupied > 0
  BY CapacityAssumption DEF TypeOK, RingTypeOK, Index, Occupied
<1>3. Pending \in Seq(Segment) /\ Len(Pending) = Occupied
  BY PendingType
<1>4. Pending' = [i \in 1 .. Occupied - 1 |-> m_buffer[Slot(i)]]
  BY <1>1, <1>2 DEF Pending
<1>5. Tail(Pending) = [i \in 1 .. Occupied - 1 |-> m_buffer[Slot(i)]]
  BY <1>1, <1>2, <1>3 DEF Pending
<1> QED BY <1>2, <1>3, <1>4, <1>5

(* Every step of the two threads is a step of the queue or leaves it alone. *)
LEMMA QueueStep ==
  ASSUME SafetyInv, SafetyInv', [Next]_vars
  PROVE  [Queue!Next]_<<Pending, m_done>>
<1>0. TypeOK /\ TypeOK'
  BY DEF SafetyInv
<1> USE DEF pushVars, workerVars, ringVars, NotifyAll
<1>1. CASE PushDoneKilled
  <2>1. Pending' = Pending
    BY <1>0, <1>1, PendingSame DEF PushDoneKilled, Done
  <2> QED BY <1>1, <2>1 DEF PushDoneKilled, Done, Queue!Next, Queue!Close, Pending
<1>2. CASE PushDone
  <2>1. Pending' = Pending
    BY <1>0, <1>2, PendingSame DEF PushDone, Done
  <2> QED BY <1>2, <2>1 DEF PushDone, Done, Queue!Next, Queue!Close, Pending
<1>3. CASE PushRead
  <2>1. pseg = head
    BY <1>3 DEF PushRead, SafetyInv, PushOwnsHead
  <2>2. \A j \in Index : j # head => m_buffer'[j] = m_buffer[j]
    BY <1>0, <1>3, <2>1 DEF PushRead, TypeOK
  <2>3. Pending' = Pending
    BY <1>0, <1>3, <2>2, PendingSame DEF PushRead
  <2> QED BY <1>3, <2>3 DEF PushRead
<1>4. CASE PushSegment
  <2>1. ~m_done
    BY <1>4 DEF PushSegment, SafetyInv, DoneIsLast
  <2>2. Len(Pending) < Capacity - 1 /\ Pending' = Append(Pending, m_buffer[head])
    BY <1>0, <1>4, PendingPush DEF PushSegment, PushAdvances
  <2>3. m_buffer[head] \in Segment
    BY <1>0 DEF TypeOK, RingTypeOK
  <2> QED BY <1>4, <2>1, <2>2, <2>3 DEF PushSegment, PushAdvances, Queue!Next, Queue!Enqueue, Pending
<1>5. CASE UnpopAndBreak
  <2>1. head # tail
    BY <1>5 DEF UnpopAndBreak, SafetyInv, PullOwnsTail, Pulling
  <2>2. Pending # << >> /\ Pending' = Tail(Pending)
    BY <1>0, <1>5, <2>1, PendingUnpop DEF UnpopAndBreak, Unpop
  <2> QED BY <1>5, <2>2 DEF UnpopAndBreak, Unpop, Queue!Next, Queue!Dequeue, Pending
<1>6. CASE UnpopSegment
  <2>1. head # tail
    BY <1>6 DEF UnpopSegment, SafetyInv, PullOwnsTail, Pulling
  <2>2. Pending # << >> /\ Pending' = Tail(Pending)
    BY <1>0, <1>6, <2>1, PendingUnpop DEF UnpopSegment, Unpop
  <2> QED BY <1>6, <2>2 DEF UnpopSegment, Unpop, Queue!Next, Queue!Dequeue, Pending
<1>7. CASE UNCHANGED <<head, tail, m_buffer, m_done>>
  BY <1>0, <1>7, PendingSame
<1>8. PushLoop => UNCHANGED <<head, tail, m_buffer, m_done>>
  BY DEF PushLoop
<1>9. PushCheckKilled => UNCHANGED <<head, tail, m_buffer, m_done>>
  BY DEF PushCheckKilled
<1>10. PushNextFree => UNCHANGED <<head, tail, m_buffer, m_done>>
  BY DEF PushNextFree, NextFree
<1>11. PushBlocks => UNCHANGED <<head, tail, m_buffer, m_done>>
  BY DEF PushBlocks, PushWaits
<1>12. PullBlocks => UNCHANGED <<head, tail, m_buffer, m_done>>
  BY DEF PullBlocks, PopWaits
<1>13. PullSegment => UNCHANGED <<head, tail, m_buffer, m_done>>
  BY DEF PullSegment, PopSegment
<1>14. PullNull => UNCHANGED <<head, tail, m_buffer, m_done>>
  BY DEF PullNull, PopNull
<1>15. PullCheckKilled => UNCHANGED <<head, tail, m_buffer, m_done>>
  BY DEF PullCheckKilled
<1>16. SendSegment => UNCHANGED <<head, tail, m_buffer, m_done>>
  BY DEF SendSegment
<1>17. WriteSegment => UNCHANGED <<head, tail, m_buffer, m_done>>
  BY DEF WriteSegment
<1>18. WriteFails => UNCHANGED <<head, tail, m_buffer, m_done>>
  BY DEF WriteFails
<1>19. SetErr => UNCHANGED <<head, tail, m_buffer, m_done>>
  BY DEF SetErr
<1>20. Join => UNCHANGED <<head, tail, m_buffer, m_done>>
  BY DEF Join
<1>21. Kill => UNCHANGED <<head, tail, m_buffer, m_done>>
  BY DEF Kill
<1>22. Wakeup => UNCHANGED <<head, tail, m_buffer, m_done>>
  BY DEF Wakeup, SpuriousWakeup
<1>23. UNCHANGED vars => UNCHANGED <<head, tail, m_buffer, m_done>>
  BY DEF vars
<1> QED
  BY <1>1, <1>2, <1>3, <1>4, <1>5, <1>6, <1>7, <1>8, <1>9, <1>10, <1>11, <1>12, <1>13, <1>14, <1>15, <1>16, <1>17, <1>18, <1>19, <1>20, <1>21, <1>22, <1>23
     DEF Next, PushNext, WorkerNext, Returned

(* TransferRingBuffer, as the two threads use it, is a bounded             *)
(* first-in-first-out queue that is closed at most once: SmbReadAhead      *)
(* implements SegmentQueue with Capacity - 1 places.                       *)
THEOREM RingImplementsQueue == Spec => RingIsQueue
<1>1. Init => Queue!Init
  <2> SUFFICES ASSUME Init PROVE Queue!Init
    OBVIOUS
  <2>1. Occupied = 0
    BY DEF Init, RingInit, Occupied
  <2> QED BY <2>1 DEF Init, RingInit, Queue!Init
<1>2. SafetyInv /\ SafetyInv' /\ [Next]_vars => [Queue!Next]_<<Pending, m_done>>
  BY QueueStep
<1> QED BY <1>1, <1>2, SafetyInvariant, PTL DEF Spec, RingIsQueue, Queue!Spec, Pending

-----------------------------------------------------------------------------
(* The inductive invariant behind the order of the data. *)

(* Index p lies between tail and head. *)
InQueue(p) == IF tail <= head THEN tail <= p /\ p < head ELSE tail <= p \/ p < head

(* The labels at which every segment the push thread has read is pushed    *)
(* and none of them was the last.                                          *)
Producing == {"loop", "kill", "free", "read", "doneKilled"}

(* Neighbours in the buffer hold neighbouring chunks of the file; only the *)
(* last one can be the end or an error.                                    *)
Consecutive ==
  \A p \in Index : (InQueue(p) /\ NextIndex(p) # head) =>
     /\ m_buffer[p] > 0
     /\ m_buffer[p] = IF m_buffer[NextIndex(p)] > 0 THEN m_buffer[NextIndex(p)] - 1 ELSE nread

(* What was pushed last is what was read before the segment at head. *)
LastPushed ==
  \A p \in Index : (InQueue(p) /\ NextIndex(p) = head) =>
     /\ ppc \in Producing => m_buffer[p] > 0
     /\ (ppc # "push" /\ m_buffer[p] > 0) => m_buffer[p] = nread
     /\ ppc = "push" => /\ m_buffer[p] > 0
                        /\ m_buffer[p] = IF m_buffer[head] > 0 THEN nread - 1 ELSE nread

JustRead == (ppc = "push" /\ m_buffer[head] > 0) => m_buffer[head] = nread

(* The worker thread will use the segment it is on or gets next. *)
Delivering == (cpc \in {"pop", "kill"} /\ ~killed) \/ cpc = "use"

(* The segment at tail continues, or has just continued, the output. *)
FrontIsNext ==
  /\ (Delivering /\ head # tail /\ m_buffer[tail] > 0) => m_buffer[tail] = offset + Len(out) + 1
  /\ (cpc = "unpop" /\ ~killed /\ m_buffer[tail] > 0) => m_buffer[tail] = offset + Len(out)

(* With nothing pending, the file was read as far as it was delivered. *)
EmptyIsNext ==
  (cpc = "pop" /\ ~killed /\ head = tail) =>
     /\ ppc \in Producing => nread = offset + Len(out)
     /\ (ppc = "push" /\ m_buffer[head] > 0) => nread = offset + Len(out) + 1

OrderInv ==
  Consecutive /\ LastPushed /\ JustRead /\ FrontIsNext /\ EmptyIsNext /\ InOrder

(* Where the pending segments lie. *)
LEMMA InQueueShape ==
  ASSUME RingTypeOK
  PROVE  /\ ~InQueue(head)
         /\ head # tail => InQueue(tail)
         /\ head = tail => \A p \in Index : ~InQueue(p)
         /\ \A p \in Index : (InQueue(p) /\ NextIndex(p) # head) => InQueue(NextIndex(p))
BY CapacityAssumption, NextIndexValue DEF RingTypeOK, Index, InQueue

(* push() adds the index head to the pending ones. *)
LEMMA InQueuePush ==
  ASSUME RingTypeOK, head' = NextIndex(head), tail' = tail, NextIndex(head) # tail,
         NEW p \in Index
  PROVE  InQueue(p)' <=> (InQueue(p) \/ p = head)
<1>1. /\ Capacity \in Nat /\ Capacity >= 2 /\ p \in 0 .. Capacity - 1
      /\ head \in 0 .. Capacity - 1 /\ tail \in 0 .. Capacity - 1
      /\ head' = (IF head + 1 = Capacity THEN 0 ELSE head + 1)
  BY CapacityAssumption, NextIndexValue DEF RingTypeOK, Index
<1>2. head' # tail /\ tail' = tail
  OBVIOUS
<1> QED BY <1>1, <1>2 DEF InQueue

(* unpop() takes the index tail out of the pending ones. *)
LEMMA InQueueUnpop ==
  ASSUME RingTypeOK, tail' = NextIndex(tail), head' = head, head # tail, NEW p \in Index
  PROVE  InQueue(p)' <=> (InQueue(p) /\ p # tail)
<1>1. /\ Capacity \in Nat /\ Capacity >= 2 /\ p \in 0 .. Capacity - 1
      /\ head \in 0 .. Capacity - 1 /\ tail \in 0 .. Capacity - 1
      /\ tail' = (IF tail + 1 = Capacity THEN 0 ELSE tail + 1)
  BY CapacityAssumption, NextIndexValue DEF RingTypeOK, Index
<1> QED BY <1>1 DEF InQueue

(* Only push() and unpop() change which indices are pending. *)
LEMMA InQueueSame ==
  ASSUME head' = head, tail' = tail, NEW p PROVE InQueue(p)' <=> InQueue(p)
BY DEF InQueue

(* Nothing is pending at the start. *)
LEMMA OrderInvInit == Init => OrderInv
<1> SUFFICES ASSUME Init PROVE OrderInv
  OBVIOUS
<1>1. RingTypeOK /\ head = tail
  BY TypeInit DEF TypeOK, Init, RingInit
<1>2. \A p \in Index : ~InQueue(p)
  BY <1>1, InQueueShape
<1>3. out = << >> /\ Len(out) = 0 /\ nread = offset /\ offset \in Nat /\ ppc = "loop" /\ cpc = "pop"
  BY TypeInit, FileChunksAssumption DEF Init, TypeOK
<1> QED
  BY <1>1, <1>2, <1>3 DEF OrderInv, Consecutive, LastPushed, JustRead, FrontIsNext, EmptyIsNext,
     InOrder, Delivering

(* The order of what was delivered depends on out and offset alone. *)
LEMMA SameOrder ==
  ASSUME InOrder, UNCHANGED <<out, offset>>
  PROVE  InOrder'
  BY DEF InOrder

(* The chunk after the last one delivered may follow it, and so may an end *)
(* or an error.                                                            *)
LEMMA OrderExtended ==
  ASSUME InOrder, out \in Seq(Int), offset \in Int, offset' = offset,
         NEW x \in Int, x > 0 => x = offset + Len(out) + 1,
         out' = Append(out, x)
  PROVE  InOrder'
<1>1. /\ Len(out) \in Nat /\ Len(out') = Len(out) + 1
      /\ \A i \in 1 .. Len(out) : out'[i] = out[i]
      /\ out'[Len(out) + 1] = x
  OBVIOUS
<1> SUFFICES ASSUME NEW i \in 1 .. Len(out'), out'[i] > 0
             PROVE  out'[i] = offset + i
  BY DEF InOrder
<1>2. CASE i = Len(out) + 1
  BY <1>1, <1>2
<1>3. CASE i # Len(out) + 1
  <2>1. i \in 1 .. Len(out)
    BY <1>1, <1>3
  <2> QED
    BY <1>1, <2>1 DEF InOrder
<1> QED
  BY <1>2, <1>3

(* Every step of either thread keeps the order invariant. *)
LEMMA OrderInvStep ==
  ASSUME SafetyInv, SafetyInv', OrderInv, [Next]_vars
  PROVE  OrderInv'
<1>0. TypeOK /\ TypeOK' /\ RingTypeOK /\ RingTypeOK'
  BY DEF SafetyInv, TypeOK
<1>t. /\ head \in Index /\ tail \in Index /\ head' \in Index /\ tail' \in Index
      /\ m_buffer \in [Index -> Int] /\ m_buffer' \in [Index -> Int]
      /\ nread \in Int /\ nread' \in Int /\ offset \in Int
      /\ out \in Seq(Int) /\ Len(out) \in Nat
  BY <1>0, FileChunksAssumption DEF TypeOK, RingTypeOK, Segment, EndOfFile, ReadError
<1>s. PushOwnsHead /\ PullOwnsTail /\ DoneIsLast
  BY DEF SafetyInv
<1>i. Consecutive /\ LastPushed /\ JustRead /\ FrontIsNext /\ EmptyIsNext /\ InOrder
  BY DEF OrderInv
<1> USE DEF pushVars, workerVars, ringVars, NotifyAll
(* The actions that only move a program counter or a flag. *)
<1>a. ASSUME UNCHANGED <<head, tail, m_buffer, nread, out, offset>>,
             ppc' = "push" <=> ppc = "push",
             ppc' \in Producing => ppc \in Producing,
             (cpc' = "pop" /\ ~killed') => (cpc = "pop" /\ ~killed),
             Delivering' => Delivering,
             (cpc' = "unpop" /\ ~killed') => (cpc = "unpop" /\ ~killed)
      PROVE  OrderInv'
  <2>1. \A p \in Index : InQueue(p)' <=> InQueue(p)
    BY <1>a, InQueueSame
  <2>2. \A p : NextIndex(p)' = NextIndex(p)
    BY DEF NextIndex
  <2>3. Consecutive'
    BY <1>a, <1>i, <2>1, <2>2 DEF Consecutive
  <2>4. LastPushed'
    BY <1>a, <1>i, <2>1, <2>2 DEF LastPushed
  <2>5. JustRead' /\ FrontIsNext' /\ EmptyIsNext' /\ InOrder'
    BY <1>a, <1>i DEF JustRead, FrontIsNext, EmptyIsNext, InOrder
  <2> QED BY <2>3, <2>4, <2>5 DEF OrderInv
<1>1. CASE PushLoop
  BY <1>1, <1>a, <1>s, <1>0 DEF PushLoop, Producing, Delivering, PullOwnsTail, Pulling
<1>2. CASE PushCheckKilled
  BY <1>2, <1>a, <1>s, <1>0 DEF PushCheckKilled, Producing, Delivering, PullOwnsTail, Pulling
<1>3. CASE PushDoneKilled
  BY <1>3, <1>a, <1>s, <1>0 DEF PushDoneKilled, Done, Producing, Delivering, PullOwnsTail, Pulling
<1>4. CASE PushNextFree
  BY <1>4, <1>a, <1>s, <1>0 DEF PushNextFree, NextFree, Producing, Delivering, PullOwnsTail, Pulling
<1>5. CASE PushBlocks
  BY <1>5, <1>a, <1>s, <1>0 DEF PushBlocks, PushWaits, Producing, Delivering, PullOwnsTail, Pulling
<1>6. CASE PushDone
  BY <1>6, <1>a, <1>s, <1>0 DEF PushDone, Done, Producing, Delivering, PullOwnsTail, Pulling
<1>7. CASE PullBlocks
  BY <1>7, <1>a, <1>s, <1>0 DEF PullBlocks, PopWaits, Producing, Delivering, PullOwnsTail, Pulling
<1>8. CASE PullSegment
  BY <1>8, <1>a, <1>s, <1>0 DEF PullSegment, PopSegment, Producing, Delivering, PullOwnsTail, Pulling
<1>9. CASE PullNull
  BY <1>9, <1>a, <1>s, <1>0 DEF PullNull, PopNull, Producing, Delivering, PullOwnsTail, Pulling
<1>10. CASE PullCheckKilled
  BY <1>10, <1>a, <1>s, <1>0 DEF PullCheckKilled, Producing, Delivering, PullOwnsTail, Pulling
<1>11. CASE WriteFails
  BY <1>11, <1>a, <1>s, <1>0 DEF WriteFails, Producing, Delivering, PullOwnsTail, Pulling
<1>12. CASE SetErr
  BY <1>12, <1>a, <1>s, <1>0 DEF SetErr, Producing, Delivering, PullOwnsTail, Pulling
<1>13. CASE Join
  BY <1>13, <1>a, <1>s, <1>0 DEF Join, Producing, Delivering, PullOwnsTail, Pulling
<1>14. CASE Kill
  BY <1>14, <1>a, <1>s, <1>0 DEF Kill, Producing, Delivering, PullOwnsTail, Pulling
<1>15. CASE Wakeup
  BY <1>15, <1>a, <1>s, <1>0 DEF Wakeup, SpuriousWakeup, Producing, Delivering, PullOwnsTail, Pulling
<1>16. CASE UNCHANGED vars
  BY <1>16, <1>a DEF vars, Delivering
<1>17. CASE PushRead
  <2>1. /\ ppc = "read" /\ ppc' = "push" /\ pseg = head
        /\ UNCHANGED <<head, tail, cpc, killed, out, offset>>
    BY <1>17, <1>s DEF PushRead, PushOwnsHead
  <2>2. \A j \in Index : j # head => m_buffer'[j] = m_buffer[j]
    BY <1>17, <1>t, <2>1 DEF PushRead
  <2>3. \/ m_buffer'[head] = nread + 1 /\ nread' = nread + 1
        \/ m_buffer'[head] <= 0 /\ nread' = nread
    BY <1>17, <1>t, <2>1 DEF PushRead, EndOfFile, ReadError
  <2>4. \A p \in Index : (InQueue(p)' <=> InQueue(p)) /\ NextIndex(p)' = NextIndex(p)
    BY <2>1, InQueueSame DEF NextIndex
  <2>5. ~InQueue(head)
    BY <1>0, InQueueShape
  <2>6. Consecutive'
    <3>1. \A p \in Index : InQueue(p) => m_buffer[p] > 0
      BY <1>i, <2>1 DEF Consecutive, LastPushed, Producing
    <3>2. \A p \in Index : (InQueue(p) /\ NextIndex(p) # head) => InQueue(NextIndex(p))
      BY <1>0, InQueueShape
    <3> QED BY SMTT(60), <1>i, <1>t, <2>1, <2>2, <2>4, <2>5, <3>1, <3>2, NextIndexProps DEF Consecutive
  <2>7. LastPushed'
    BY <1>i, <1>t, <2>1, <2>2, <2>3, <2>4, <2>5 DEF LastPushed, Producing
  <2>8. JustRead'
    BY <1>t, <2>1, <2>3 DEF JustRead
  <2>9. FrontIsNext'
    BY <1>i, <1>s, <1>t, <2>1, <2>2 DEF FrontIsNext, Delivering, PullOwnsTail, Pulling
  <2>10. EmptyIsNext'
    BY <1>i, <1>t, <2>1, <2>3 DEF EmptyIsNext, Producing
  <2>11. InOrder'
    BY <1>i, <2>1, SameOrder
  <2> QED BY <2>6, <2>7, <2>8, <2>9, <2>10, <2>11 DEF OrderInv
<1>18. CASE PushSegment
  <2>1. /\ ppc = "push" /\ head' = NextIndex(head) /\ NextIndex(head) # tail
        /\ ppc' = IF m_buffer[head] <= 0 THEN "done" ELSE "loop"
        /\ UNCHANGED <<tail, m_buffer, nread, cpc, killed, out, offset>>
    BY <1>18, <1>s DEF PushSegment, PushAdvances, PushOwnsHead
  <2>2. \A p \in Index : (InQueue(p)' <=> (InQueue(p) \/ p = head)) /\ NextIndex(p)' = NextIndex(p)
    BY <1>0, <2>1, InQueuePush DEF NextIndex
  <2>3. \A p \in Index : NextIndex(p) = head' <=> p = head
    BY <1>t, <2>1, NextIndexProps
  <2>4. Consecutive'
    BY <1>i, <1>t, <2>1, <2>2, <2>3 DEF Consecutive, LastPushed, JustRead
  <2>5. LastPushed'
    BY <1>i, <1>t, <2>1, <2>2, <2>3 DEF LastPushed, JustRead, Producing
  <2>6. JustRead'
    BY <2>1 DEF JustRead
  <2>7. FrontIsNext'
    BY <1>i, <1>s, <1>t, <2>1 DEF FrontIsNext, EmptyIsNext, JustRead, Delivering, PullOwnsTail, Pulling
  <2>8. EmptyIsNext'
    BY <1>t, <2>1 DEF EmptyIsNext
  <2>9. InOrder'
    BY <1>i, <2>1, SameOrder
  <2> QED BY <2>4, <2>5, <2>6, <2>7, <2>8, <2>9 DEF OrderInv
<1>19. CASE SendSegment
  <2>1. /\ cpc = "use" /\ cpc' = "unpop" /\ cseg = tail /\ head # tail
        /\ UNCHANGED <<head, tail, m_buffer, nread, ppc, killed, offset>>
    BY <1>19, <1>s DEF SendSegment, PullOwnsTail, Pulling
  <2>2. \/ out' = Append(out, m_buffer[tail])
        \/ out' = out /\ m_buffer[tail] <= 0
    BY <1>19, <2>1 DEF SendSegment, EndOfFile
  <2>3. m_buffer[tail] \in Int /\ (m_buffer[tail] > 0 => m_buffer[tail] = offset + Len(out) + 1)
    BY <1>i, <1>t, <2>1 DEF FrontIsNext, Delivering
  <2>4. InOrder'
    <3>1. CASE out' = Append(out, m_buffer[tail])
      BY <3>1, <1>i, <1>t, <2>1, <2>3, OrderExtended
    <3>2. CASE out' = out
      BY <3>2, <1>i, <2>1, SameOrder
    <3> QED BY <2>2, <3>1, <3>2
  <2>5. FrontIsNext'
    BY <1>t, <2>1, <2>2, <2>3 DEF FrontIsNext, Delivering
  <2>6. \A p \in Index : (InQueue(p)' <=> InQueue(p)) /\ NextIndex(p)' = NextIndex(p)
    BY <2>1, InQueueSame DEF NextIndex
  <2>7. Consecutive' /\ LastPushed'
    BY <1>i, <2>1, <2>6 DEF Consecutive, LastPushed
  <2>8. JustRead' /\ EmptyIsNext'
    BY <1>i, <2>1 DEF JustRead, EmptyIsNext
  <2> QED BY <2>4, <2>5, <2>7, <2>8 DEF OrderInv
<1>20. CASE WriteSegment
  <2>1. /\ cpc = "use" /\ cpc' = "unpop" /\ cseg = tail /\ head # tail
        /\ UNCHANGED <<head, tail, m_buffer, nread, ppc, killed, offset>>
    BY <1>20, <1>s DEF WriteSegment, PullOwnsTail, Pulling
  <2>2. \/ out' = Append(out, m_buffer[tail])
        \/ out' = out /\ m_buffer[tail] <= 0
    BY <1>20, <2>1 DEF WriteSegment, EndOfFile
  <2>3. m_buffer[tail] \in Int /\ (m_buffer[tail] > 0 => m_buffer[tail] = offset + Len(out) + 1)
    BY <1>i, <1>t, <2>1 DEF FrontIsNext, Delivering
  <2>4. InOrder'
    <3>1. CASE out' = Append(out, m_buffer[tail])
      BY <3>1, <1>i, <1>t, <2>1, <2>3, OrderExtended
    <3>2. CASE out' = out
      BY <3>2, <1>i, <2>1, SameOrder
    <3> QED BY <2>2, <3>1, <3>2
  <2>5. FrontIsNext'
    BY <1>t, <2>1, <2>2, <2>3 DEF FrontIsNext, Delivering
  <2>6. \A p \in Index : (InQueue(p)' <=> InQueue(p)) /\ NextIndex(p)' = NextIndex(p)
    BY <2>1, InQueueSame DEF NextIndex
  <2>7. Consecutive' /\ LastPushed'
    BY <1>i, <2>1, <2>6 DEF Consecutive, LastPushed
  <2>8. JustRead' /\ EmptyIsNext'
    BY <1>i, <2>1 DEF JustRead, EmptyIsNext
  <2> QED BY <2>4, <2>5, <2>7, <2>8 DEF OrderInv
<1>21. CASE UnpopAndBreak
  <2>1. /\ cpc = "unpopErr" /\ cpc' = "join" /\ head # tail
        /\ tail' = NextIndex(tail)
        /\ UNCHANGED <<head, m_buffer, nread, ppc, killed, out, offset>>
    BY <1>21, <1>s DEF UnpopAndBreak, Unpop, PullOwnsTail, Pulling
  <2>2. \A p \in Index : (InQueue(p)' <=> (InQueue(p) /\ p # tail)) /\ NextIndex(p)' = NextIndex(p)
    BY <1>0, <2>1, InQueueUnpop DEF NextIndex
  <2>3. InQueue(tail)
    BY <1>0, <2>1, InQueueShape
  <2>4. Consecutive'
    BY <1>i, <2>1, <2>2 DEF Consecutive
  <2>5. LastPushed'
    BY <1>i, <2>1, <2>2 DEF LastPushed
  <2>6. JustRead' /\ InOrder'
    BY <1>i, <2>1 DEF JustRead, InOrder
  <2>7. FrontIsNext'
    BY <2>1 DEF FrontIsNext, Delivering
  <2>8. EmptyIsNext'
    BY <2>1 DEF EmptyIsNext
  <2> QED BY <2>4, <2>5, <2>6, <2>7, <2>8 DEF OrderInv
<1>22. CASE UnpopSegment
  <2>1. /\ cpc = "unpop" /\ cpc' = "pop" /\ head # tail
        /\ tail' = NextIndex(tail)
        /\ UNCHANGED <<head, m_buffer, nread, ppc, killed, out, offset>>
    BY <1>22, <1>s DEF UnpopSegment, Unpop, PullOwnsTail, Pulling
  <2>2. \A p \in Index : (InQueue(p)' <=> (InQueue(p) /\ p # tail)) /\ NextIndex(p)' = NextIndex(p)
    BY <1>0, <2>1, InQueueUnpop DEF NextIndex
  <2>3. InQueue(tail)
    BY <1>0, <2>1, InQueueShape
  <2>4. Consecutive'
    BY <1>i, <2>1, <2>2 DEF Consecutive
  <2>5. LastPushed'
    BY <1>i, <2>1, <2>2 DEF LastPushed
  <2>6. JustRead' /\ InOrder'
    BY <1>i, <2>1 DEF JustRead, InOrder
  <2>7. FrontIsNext'
    BY <1>i, <1>t, <2>1, <2>2, <2>3 DEF FrontIsNext, Consecutive, Delivering
  <2>8. EmptyIsNext'
    BY <1>i, <1>t, <2>1, <2>3 DEF EmptyIsNext, FrontIsNext, LastPushed, Producing
  <2> QED BY <2>4, <2>5, <2>6, <2>7, <2>8 DEF OrderInv
<1> QED
  BY <1>1, <1>2, <1>3, <1>4, <1>5, <1>6, <1>7, <1>8, <1>9, <1>10, <1>11, <1>12, <1>13, <1>14, <1>15, <1>16, <1>17, <1>18, <1>19, <1>20, <1>21, <1>22
     DEF Next, PushNext, WorkerNext, Returned

(* The order of the data is an invariant, on top of the safety invariant. *)
THEOREM OrderInvariant == Spec => []OrderInv
BY OrderInvInit, OrderInvStep, SafetyInvariant, PTL DEF Spec

(* Whatever happens to the transfer, the chunks that reach the file or the *)
(* application are those behind the resume offset, without a gap, a        *)
(* repetition or an exchange.                                              *)
THEOREM DataInOrder == Spec => []InOrder
<1>1. OrderInv => InOrder
  BY DEF OrderInv
<1> QED BY <1>1, OrderInvariant, PTL

-----------------------------------------------------------------------------
(* The inductive invariant behind completeness. *)

(* Chunk n of the file came out, or precedes the resume offset. *)
Delivered(n) == n = offset \/ \E i \in 1 .. Len(out) : out[i] = n

(* The chunk before the segment at tail was delivered. *)
FrontDelivered ==
  /\ (Delivering /\ head # tail) =>
       Delivered(IF m_buffer[tail] > 0 THEN m_buffer[tail] - 1 ELSE nread)
  /\ (cpc = "unpop" /\ ~killed) =>
       Delivered(IF m_buffer[tail] > 0 THEN m_buffer[tail] ELSE nread)

(* With nothing pending, what was read and pushed was delivered. *)
EmptyDelivered ==
  (cpc = "pop" /\ ~killed /\ head = tail) =>
     Delivered(IF ppc = "push" /\ m_buffer[head] > 0 THEN nread - 1 ELSE nread)

JoinDelivered == (cpc = "join" /\ ~killed /\ ~isErr) => Delivered(nread)

(* A failed write leaves a failed result. *)
ErrIsFailure == (isErr \/ cpc \in {"setErr", "unpopErr"}) => result # "pass"

(* The push thread stops for no other reason than a kill, an error or the  *)
(* end of the file.                                                        *)
PushEnds ==
  /\ ppc = "doneKilled" => killed
  /\ (ppc = "push" /\ m_buffer[head] = EndOfFile) => nread = FileChunks
  /\ ppc = "done" => m_buffer[pseg] <= 0 /\ (m_buffer[pseg] = EndOfFile => nread = FileChunks)
  /\ (m_done /\ ~killed /\ readResult = "NoError") => nread = FileChunks

CompleteInv ==
  /\ FrontDelivered /\ EmptyDelivered /\ JoinDelivered /\ ErrIsFailure /\ PushEnds
  /\ CompleteOnSuccess

(* Nothing was read behind the resume offset at the start. *)
LEMMA CompleteInvInit == Init => CompleteInv
<1> SUFFICES ASSUME Init PROVE CompleteInv
  OBVIOUS
<1> QED
  BY DEF Init, RingInit, CompleteInv, FrontDelivered, EmptyDelivered, JoinDelivered, ErrIsFailure,
     PushEnds, CompleteOnSuccess, Delivered, Delivering

(* Every step of either thread keeps the completeness invariant. *)
LEMMA CompleteInvStep ==
  ASSUME SafetyInv, SafetyInv', OrderInv, CompleteInv, [Next]_vars
  PROVE  CompleteInv'
<1>0. TypeOK /\ TypeOK' /\ RingTypeOK /\ RingTypeOK'
  BY DEF SafetyInv, TypeOK
<1>t. /\ head \in Index /\ tail \in Index /\ head' \in Index /\ tail' \in Index
      /\ m_buffer \in [Index -> Int] /\ m_buffer' \in [Index -> Int]
      /\ nread \in Int /\ nread' \in Int /\ offset \in Int
      /\ out \in Seq(Int) /\ Len(out) \in Nat
      /\ isErr \in BOOLEAN /\ killed \in BOOLEAN /\ m_done \in BOOLEAN
      /\ FileChunks \in Nat
  BY <1>0, FileChunksAssumption DEF TypeOK, RingTypeOK, Segment, EndOfFile, ReadError
<1>s. PushOwnsHead /\ PullOwnsTail /\ DoneIsLast /\ ErrState
  BY DEF SafetyInv
<1>i. Consecutive /\ LastPushed /\ JustRead /\ FrontIsNext /\ EmptyIsNext
  BY DEF OrderInv
<1>c. /\ FrontDelivered /\ EmptyDelivered /\ JoinDelivered /\ ErrIsFailure /\ PushEnds
      /\ CompleteOnSuccess
  BY DEF CompleteInv
<1> USE DEF pushVars, workerVars, ringVars, NotifyAll
(* Delivered() depends on the output only. *)
<1>d. ASSUME out' = out, offset' = offset, NEW n
      PROVE  Delivered(n)' <=> Delivered(n)
  BY <1>d DEF Delivered
<1>1. CASE PushLoop
  BY <1>1, <1>t, <1>s, <1>c DEF PushLoop, Delivering, Delivered, PullOwnsTail, Pulling,
     DoneIsLast, ErrState, FrontDelivered, EmptyDelivered, JoinDelivered, ErrIsFailure, PushEnds, CompleteOnSuccess, CompleteInv
<1>2. CASE PushCheckKilled
  BY <1>2, <1>t, <1>s, <1>c DEF PushCheckKilled, Delivering, Delivered, PullOwnsTail, Pulling,
     DoneIsLast, ErrState, FrontDelivered, EmptyDelivered, JoinDelivered, ErrIsFailure, PushEnds, CompleteOnSuccess, CompleteInv
<1>3. CASE PushDoneKilled
  BY <1>3, <1>t, <1>s, <1>c DEF PushDoneKilled, Done, Delivering, Delivered, PullOwnsTail, Pulling,
     DoneIsLast, ErrState, FrontDelivered, EmptyDelivered, JoinDelivered, ErrIsFailure, PushEnds, CompleteOnSuccess, CompleteInv
<1>4. CASE PushNextFree
  BY <1>4, <1>t, <1>s, <1>c DEF PushNextFree, NextFree, Delivering, Delivered, PullOwnsTail, Pulling,
     DoneIsLast, ErrState, FrontDelivered, EmptyDelivered, JoinDelivered, ErrIsFailure, PushEnds, CompleteOnSuccess, CompleteInv
<1>5. CASE PushBlocks
  BY <1>5, <1>t, <1>s, <1>c DEF PushBlocks, PushWaits, Delivering, Delivered, PullOwnsTail, Pulling,
     DoneIsLast, ErrState, FrontDelivered, EmptyDelivered, JoinDelivered, ErrIsFailure, PushEnds, CompleteOnSuccess, CompleteInv
<1>6. CASE PushDone
  <2>1. /\ ppc = "done" /\ ppc' = "exit" /\ m_done' = TRUE
        /\ readResult' = IF m_buffer[pseg] < 0 THEN "ERR_CANNOT_READ" ELSE "NoError"
        /\ UNCHANGED <<head, tail, m_buffer, nread, workerVars, killed, offset>>
    BY <1>6 DEF PushDone, Done
  <2>2. m_buffer[pseg] \in Int
    BY <1>0, <1>t DEF TypeOK
  <2>3. PushEnds'
    BY <1>t, <1>c, <2>1, <2>2 DEF PushEnds, EndOfFile
  <2>4. FrontDelivered' /\ EmptyDelivered' /\ JoinDelivered'
    BY <1>c, <2>1 DEF FrontDelivered, EmptyDelivered, JoinDelivered, Delivering, Delivered
  <2>5. ErrIsFailure' /\ CompleteOnSuccess'
    BY <1>c, <2>1 DEF ErrIsFailure, CompleteOnSuccess
  <2> QED BY <2>3, <2>4, <2>5 DEF CompleteInv
<1>7. CASE PullBlocks
  BY <1>7, <1>t, <1>s, <1>c DEF PullBlocks, PopWaits, Delivering, Delivered, PullOwnsTail, Pulling,
     DoneIsLast, ErrState, FrontDelivered, EmptyDelivered, JoinDelivered, ErrIsFailure, PushEnds, CompleteOnSuccess, CompleteInv
<1>8. CASE PullSegment
  BY <1>8, <1>t, <1>s, <1>c DEF PullSegment, PopSegment, Delivering, Delivered, PullOwnsTail, Pulling,
     DoneIsLast, ErrState, FrontDelivered, EmptyDelivered, JoinDelivered, ErrIsFailure, PushEnds, CompleteOnSuccess, CompleteInv
<1>9. CASE PullNull
  BY <1>9, <1>t, <1>s, <1>c DEF PullNull, PopNull, Delivering, Delivered, PullOwnsTail, Pulling,
     DoneIsLast, ErrState, FrontDelivered, EmptyDelivered, JoinDelivered, ErrIsFailure, PushEnds, CompleteOnSuccess, CompleteInv
<1>10. CASE PullCheckKilled
  BY <1>10, <1>t, <1>s, <1>c DEF PullCheckKilled, Delivering, Delivered, PullOwnsTail, Pulling,
     DoneIsLast, ErrState, FrontDelivered, EmptyDelivered, JoinDelivered, ErrIsFailure, PushEnds, CompleteOnSuccess, CompleteInv
<1>11. CASE WriteFails
  BY <1>11, <1>t, <1>s, <1>c DEF WriteFails, Delivering, Delivered, PullOwnsTail, Pulling,
     DoneIsLast, ErrState, FrontDelivered, EmptyDelivered, JoinDelivered, ErrIsFailure, PushEnds, CompleteOnSuccess, CompleteInv
<1>12. CASE SetErr
  BY <1>12, <1>t, <1>s, <1>c DEF SetErr, Delivering, Delivered, PullOwnsTail, Pulling,
     DoneIsLast, ErrState, FrontDelivered, EmptyDelivered, JoinDelivered, ErrIsFailure, PushEnds, CompleteOnSuccess, CompleteInv
<1>13. CASE Join
  <2>1. /\ cpc = "join" /\ cpc' = "end"
        /\ result' = IF result = "pass" /\ ~killed /\ readResult # "NoError" THEN readResult ELSE result
        /\ UNCHANGED <<ringVars, pushVars, killed, offset, out, isErr>>
    BY <1>13 DEF Join
  <2>2. ASSUME result' = "pass", ~killed
        PROVE  nread = FileChunks /\ Delivered(nread)
    <3>1. result = "pass" /\ readResult = "NoError"
      BY <1>0, <2>1, <2>2 DEF TypeOK, Result
    <3>2. ~isErr /\ m_done
      BY <1>s, <1>c, <2>1, <3>1 DEF ErrIsFailure, ErrState
    <3> QED BY <1>c, <2>1, <2>2, <3>1, <3>2 DEF PushEnds, JoinDelivered
  <2>3. CompleteOnSuccess'
    BY <2>1, <2>2 DEF CompleteOnSuccess, Delivered
  <2>4. ErrIsFailure'
    BY <1>0, <1>c, <2>1 DEF ErrIsFailure, TypeOK
  <2>5. FrontDelivered' /\ EmptyDelivered' /\ JoinDelivered' /\ PushEnds'
    BY <1>c, <2>1 DEF FrontDelivered, EmptyDelivered, JoinDelivered, PushEnds, Delivering
  <2> QED BY <2>3, <2>4, <2>5 DEF CompleteInv
<1>14. CASE Kill
  BY <1>14, <1>t, <1>s, <1>c DEF Kill, Delivering, Delivered, PullOwnsTail, Pulling,
     DoneIsLast, ErrState, FrontDelivered, EmptyDelivered, JoinDelivered, ErrIsFailure, PushEnds, CompleteOnSuccess, CompleteInv
<1>15. CASE Wakeup
  BY <1>15, <1>t, <1>s, <1>c DEF Wakeup, SpuriousWakeup, Delivering, Delivered, PullOwnsTail, Pulling,
     DoneIsLast, ErrState, FrontDelivered, EmptyDelivered, JoinDelivered, ErrIsFailure, PushEnds, CompleteOnSuccess, CompleteInv
<1>16. CASE UNCHANGED vars
  BY <1>16, <1>c DEF vars, Delivering, Delivered, FrontDelivered, EmptyDelivered, JoinDelivered, ErrIsFailure, PushEnds, CompleteOnSuccess, CompleteInv
<1>17. CASE PushRead
  <2>1. /\ ppc = "read" /\ ppc' = "push" /\ pseg = head
        /\ UNCHANGED <<ringVars, workerVars, killed, offset>>
    BY <1>17, <1>s DEF PushRead, PushOwnsHead
  <2>2. m_buffer'[tail] = m_buffer[tail] \/ head = tail
    BY <1>17, <1>t, <2>1 DEF PushRead
  <2>3. \/ m_buffer'[head] = nread + 1 /\ nread' = nread + 1 /\ m_buffer'[head] > 0
        \/ m_buffer'[head] <= 0 /\ nread' = nread /\ (m_buffer'[head] = EndOfFile => nread = FileChunks)
    BY <1>0, <1>17, <1>t, <2>1 DEF PushRead, EndOfFile, ReadError, TypeOK
  <2>4. EmptyDelivered'
    <3>1. (IF ppc' = "push" /\ m_buffer'[head'] > 0 THEN nread' - 1 ELSE nread') = nread
      <4>1. ppc' = "push" /\ head' = head /\ m_buffer'[head] \in Int
        BY <1>t, <2>1
      <4>2. CASE m_buffer'[head] = nread + 1 /\ nread' = nread + 1 /\ m_buffer'[head] > 0
        <5>1. nread' - 1 = nread
          BY <1>t, <4>2
        <5> QED BY <4>1, <4>2, <5>1
      <4>3. CASE m_buffer'[head] <= 0 /\ nread' = nread
        <5>1. ~(m_buffer'[head'] > 0)
          BY <4>1, <4>3
        <5> QED BY <4>3, <5>1
      <4> QED BY <2>3, <4>2, <4>3
    <3>2. (cpc = "pop" /\ ~killed /\ head = tail) => Delivered(nread)
      BY <1>c, <2>1 DEF EmptyDelivered
    <3> QED BY <2>1, <3>1, <3>2 DEF EmptyDelivered, Delivered
  <2>5. cpc \in Pulling \/ head # tail => m_buffer[tail] > 0
    BY <1>0, <1>i, <1>s, <2>1, InQueueShape, NextIndexProps
       DEF Consecutive, LastPushed, Producing, PullOwnsTail, RingTypeOK
  <2>6. FrontDelivered'
    BY <1>t, <1>s, <1>c, <2>1, <2>2, <2>5 DEF FrontDelivered, Delivered, Delivering, PullOwnsTail, Pulling
  <2>7. PushEnds'
    BY <1>t, <1>c, <1>s, <2>1, <2>3 DEF PushEnds, DoneIsLast, EndOfFile
  <2>8. JoinDelivered' /\ ErrIsFailure' /\ CompleteOnSuccess'
    BY <1>c, <1>s, <2>1 DEF JoinDelivered, ErrIsFailure, CompleteOnSuccess, ErrState, DoneIsLast
  <2> QED BY <2>4, <2>6, <2>7, <2>8 DEF CompleteInv
<1>18. CASE PushSegment
  <2>1. /\ ppc = "push" /\ head' = NextIndex(head) /\ NextIndex(head) # tail /\ pseg = head
        /\ ppc' = IF m_buffer[head] <= 0 THEN "done" ELSE "loop"
        /\ UNCHANGED <<tail, m_done, m_buffer, nread, pseg, readResult, workerVars, killed, offset>>
    BY <1>18, <1>s DEF PushSegment, PushAdvances, PushOwnsHead
  <2>2. FrontDelivered'
    BY <1>t, <1>s, <1>i, <1>c, <2>1 DEF FrontDelivered, EmptyDelivered, JustRead, Delivered, Delivering,
       PullOwnsTail, Pulling
  <2>3. EmptyDelivered'
    BY <2>1 DEF EmptyDelivered
  <2>4. PushEnds'
    BY <1>t, <1>c, <2>1 DEF PushEnds
  <2>5. JoinDelivered'
    BY <1>c, <2>1 DEF JoinDelivered, Delivered
  <2>6. ErrIsFailure'
    BY <1>c, <2>1 DEF ErrIsFailure
  <2>7. CompleteOnSuccess'
    BY <1>c, <2>1 DEF CompleteOnSuccess
  <2> QED BY <2>2, <2>3, <2>4, <2>5, <2>6, <2>7 DEF CompleteInv
<1>19. CASE SendSegment
  <2>1. /\ cpc = "use" /\ cpc' = "unpop" /\ cseg = tail /\ head # tail
        /\ UNCHANGED <<ringVars, pushVars, killed, offset, isErr, result>>
    BY <1>19, <1>s DEF SendSegment, PullOwnsTail, Pulling
  <2>2. \/ out' = Append(out, m_buffer[tail])
        \/ out' = out /\ m_buffer[tail] <= 0
    BY <1>19, <2>1 DEF SendSegment, EndOfFile
  <2>3. \A x : Delivered(x) => Delivered(x)'
    <3>1. Len(out') >= Len(out) /\ Len(out') \in Nat /\ \A i \in 1 .. Len(out) : out'[i] = out[i]
      BY SMTT(30), <1>t, <2>2
    <3>2. \A i \in 1 .. Len(out) : i \in 1 .. Len(out')
      BY <1>t, <3>1
    <3> QED BY <2>1, <3>1, <3>2 DEF Delivered
  <2>4. m_buffer[tail] > 0 => Delivered(m_buffer[tail])'
    BY <1>t, <2>1, <2>2 DEF Delivered
  <2>5. FrontDelivered'
    BY <1>t, <1>c, <2>1, <2>3, <2>4 DEF FrontDelivered, Delivering, Delivered
  <2>6. EmptyDelivered' /\ JoinDelivered' /\ ErrIsFailure' /\ PushEnds' /\ CompleteOnSuccess'
    BY <1>c, <2>1 DEF EmptyDelivered, JoinDelivered, ErrIsFailure, PushEnds, CompleteOnSuccess
  <2> QED BY <2>5, <2>6 DEF CompleteInv
<1>20. CASE WriteSegment
  <2>1. /\ cpc = "use" /\ cpc' = "unpop" /\ cseg = tail /\ head # tail
        /\ UNCHANGED <<ringVars, pushVars, killed, offset, isErr, result>>
    BY <1>20, <1>s DEF WriteSegment, PullOwnsTail, Pulling
  <2>2. \/ out' = Append(out, m_buffer[tail])
        \/ out' = out /\ m_buffer[tail] <= 0
    BY <1>20, <2>1 DEF WriteSegment, EndOfFile
  <2>3. \A x : Delivered(x) => Delivered(x)'
    <3>1. Len(out') >= Len(out) /\ Len(out') \in Nat /\ \A i \in 1 .. Len(out) : out'[i] = out[i]
      BY SMTT(30), <1>t, <2>2
    <3>2. \A i \in 1 .. Len(out) : i \in 1 .. Len(out')
      BY <1>t, <3>1
    <3> QED BY <2>1, <3>1, <3>2 DEF Delivered
  <2>4. m_buffer[tail] > 0 => Delivered(m_buffer[tail])'
    BY <1>t, <2>1, <2>2 DEF Delivered
  <2>5. FrontDelivered'
    BY <1>t, <1>c, <2>1, <2>3, <2>4 DEF FrontDelivered, Delivering, Delivered
  <2>6. EmptyDelivered' /\ JoinDelivered' /\ ErrIsFailure' /\ PushEnds' /\ CompleteOnSuccess'
    BY <1>c, <2>1 DEF EmptyDelivered, JoinDelivered, ErrIsFailure, PushEnds, CompleteOnSuccess
  <2> QED BY <2>5, <2>6 DEF CompleteInv
<1>21. CASE UnpopAndBreak
  <2>1. /\ cpc = "unpopErr" /\ cpc' = "join" /\ isErr
        /\ UNCHANGED <<head, m_done, pushVars, killed, offset, out, isErr, result>>
    BY <1>21, <1>s DEF UnpopAndBreak, Unpop, ErrState
  <2> QED BY <1>c, <2>1 DEF CompleteInv, FrontDelivered, EmptyDelivered, JoinDelivered, ErrIsFailure,
             PushEnds, CompleteOnSuccess, Delivering
<1>22. CASE UnpopSegment
  <2>1. /\ cpc = "unpop" /\ cpc' = "pop" /\ head # tail /\ tail' = NextIndex(tail)
        /\ UNCHANGED <<head, m_done, pushVars, killed, offset, out, isErr, result>>
    BY <1>22, <1>s DEF UnpopSegment, Unpop, PullOwnsTail, Pulling
  <2>2. InQueue(tail)
    BY <1>0, <2>1, InQueueShape
  <2>3. ASSUME ~killed PROVE Delivered(IF m_buffer[tail] > 0 THEN m_buffer[tail] ELSE nread)
    BY <1>c, <2>1, <2>3 DEF FrontDelivered
  <2>4. FrontDelivered'
    <3>1. ASSUME ~killed, head # tail'
          PROVE  Delivered(IF m_buffer[tail'] > 0 THEN m_buffer[tail'] - 1 ELSE nread)
      BY <1>t, <1>i, <2>1, <2>2, <2>3, <3>1 DEF Consecutive
    <3> QED BY <1>d, <2>1, <3>1 DEF FrontDelivered, Delivering, Delivered
  <2>5. EmptyDelivered'
    BY <1>t, <1>i, <2>1, <2>2, <2>3 DEF EmptyDelivered, LastPushed, Delivered
  <2>6. JoinDelivered' /\ ErrIsFailure' /\ PushEnds' /\ CompleteOnSuccess'
    BY <1>c, <2>1 DEF JoinDelivered, ErrIsFailure, PushEnds, CompleteOnSuccess
  <2> QED BY <2>4, <2>5, <2>6 DEF CompleteInv
<1> QED
  BY <1>1, <1>2, <1>3, <1>4, <1>5, <1>6, <1>7, <1>8, <1>9, <1>10, <1>11, <1>12, <1>13, <1>14, <1>15, <1>16, <1>17, <1>18, <1>19, <1>20, <1>21, <1>22
     DEF Next, PushNext, WorkerNext, Returned

(* A transfer that reports success, and was not killed, has delivered the  *)
(* remote file to its end, for every file length, capacity and resume      *)
(* offset.                                                                 *)
THEOREM SuccessMeansComplete == Spec => []CompleteOnSuccess
<1>1. SafetyInv /\ SafetyInv' /\ OrderInv /\ CompleteInv /\ [Next]_vars => CompleteInv'
  BY CompleteInvStep
<1>2. CompleteInv => CompleteOnSuccess
  BY DEF CompleteInv
<1> QED BY <1>1, <1>2, CompleteInvInit, SafetyInvariant, OrderInvariant, PTL DEF Spec
=============================================================================
