------------------------- MODULE TransferRingBuffer -------------------------
(***************************************************************************)
(* The ring buffer of src/smb/transfer.{h,cpp}: a fixed array of segments  *)
(* that one push thread fills and one pull thread empties, with one mutex  *)
(* and one condition variable.  Every method body between taking and       *)
(* releasing m_mutex is one step.  m_cond.wait() puts the calling thread   *)
(* into `waiting', from where only notify_all() (or a spurious wakeup,     *)
(* which C++ permits) takes it out; a thread taken out evaluates the loop  *)
(* condition of its method again.                                          *)
(*                                                                         *)
(* The methods are action operators: a client conjoins them with its own   *)
(* program counters and says what happens to m_buffer.                     *)
(***************************************************************************)
EXTENDS Integers

CONSTANT
  Capacity       \* m_capacity, 4 in the code

ASSUME CapacityAssumption == Capacity \in Nat /\ Capacity >= 2

VARIABLES
  head,          \* index of the push thread
  tail,          \* index of the pull thread
  m_done,        \* set once by the push thread
  waiting        \* threads blocked in m_cond.wait()

ringVars == <<head, tail, m_done, waiting>>

Thread == {"push", "pull"}
Index  == 0 .. Capacity - 1

(* Mutant: the index does not wrap. *)
NextIndexUnwrapped(i) == i + 1

(* (i + 1) % m_capacity *)
NextIndex(i) == (i + 1) % Capacity

RingInit ==
  /\ head = 0
  /\ tail = 0
  /\ m_done = FALSE
  /\ waiting = {}

NotifyAll == waiting' = {}

(* pop() blocks while the push thread is on the item, unless done(). *)
PopWaits ==
  /\ "pull" \notin waiting
  /\ head = tail /\ ~m_done
  /\ waiting' = waiting \union {"pull"}
  /\ UNCHANGED <<head, tail, m_done>>

(* Mutant: done() is looked at before what is still pending. *)
PopNullEarly ==
  /\ "pull" \notin waiting
  /\ m_done
  /\ UNCHANGED ringVars

(* pop() returns nullptr: nothing pushed is left and done() was called. *)
PopNull ==
  /\ "pull" \notin waiting
  /\ head = tail /\ m_done
  /\ UNCHANGED ringVars

(* pop() returns m_buffer[tail]. *)
PopSegment ==
  /\ "pull" \notin waiting
  /\ head # tail
  /\ NotifyAll
  /\ UNCHANGED <<head, tail, m_done>>

(* Mutant: the push thread is not told. *)
UnpopSilently ==
  /\ tail' = NextIndex(tail)
  /\ UNCHANGED <<head, m_done, waiting>>

Unpop ==
  /\ tail' = NextIndex(tail)
  /\ NotifyAll
  /\ UNCHANGED <<head, m_done>>

(* nextFree() returns m_buffer[head]; it takes no lock. *)
NextFree ==
  /\ NotifyAll
  /\ UNCHANGED <<head, tail, m_done>>

(* push() blocks while advancing would reach the pull thread's item. *)
PushWaits ==
  /\ "push" \notin waiting
  /\ NextIndex(head) = tail
  /\ waiting' = waiting \union {"push"}
  /\ UNCHANGED <<head, tail, m_done>>

(* Mutant: the position of the pull thread is not respected. *)
PushAdvancesUnchecked ==
  /\ "push" \notin waiting
  /\ head' = NextIndex(head)
  /\ NotifyAll
  /\ UNCHANGED <<tail, m_done>>

PushAdvances ==
  /\ "push" \notin waiting
  /\ NextIndex(head) # tail
  /\ head' = NextIndex(head)
  /\ NotifyAll
  /\ UNCHANGED <<tail, m_done>>

(* Mutant: a pull thread asleep is not told. *)
DoneSilently ==
  /\ m_done' = TRUE
  /\ UNCHANGED <<head, tail, waiting>>

Done ==
  /\ m_done' = TRUE
  /\ NotifyAll
  /\ UNCHANGED <<head, tail>>

(* std::condition_variable::wait() may return without a notification. *)
SpuriousWakeup(t) ==
  /\ t \in waiting
  /\ waiting' = waiting \ {t}
  /\ UNCHANGED <<head, tail, m_done>>

RingTypeOK ==
  /\ head \in Index
  /\ tail \in Index
  /\ m_done \in BOOLEAN
  /\ waiting \subseteq Thread

(* Number of segments pushed and not yet given back by unpop(). *)
Occupied == IF head >= tail THEN head - tail ELSE head - tail + Capacity

(* The i-th occupied index counted from tail. *)
Slot(i) == IF tail + i < Capacity THEN tail + i ELSE tail + i - Capacity

=============================================================================
