--------------------------- MODULE SequentialRead ---------------------------
(***************************************************************************)
(* What asyncRead promises to sftpGet: the bytes of the file one after the *)
(* other from the position of the handle on, ended by success after        *)
(* exactly Size of them, or by failure.                                    *)
(***************************************************************************)
EXTENDS Naturals

CONSTANT Size            \* the number of bytes asked for

VARIABLES count,         \* bytes delivered, all of them in order
          status         \* "running", "complete", "failed" or "stopped"

svars == <<count, status>>

SeqInit == count = 0 /\ status = "running"

Deliver ==
  /\ status = "running"
  /\ count' \in Nat /\ count' > count /\ count' <= Size
  /\ UNCHANGED status

Complete ==
  /\ status = "running" /\ count = Size
  /\ status' = "complete"
  /\ UNCHANGED count

(* The reader gives up, or its consumer stops asking. *)
GiveUp ==
  /\ status = "running"
  /\ status' \in {"failed", "stopped"}
  /\ UNCHANGED count

SeqNext == Deliver \/ Complete \/ GiveUp

SeqSpec == SeqInit /\ [][SeqNext]_svars
=============================================================================
