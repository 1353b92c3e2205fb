--------------------------- MODULE MCSmbReadAhead ---------------------------
(* Instance of SmbReadAhead for TLC: a behaviour is one smbCopyGet, or one *)
(* get, where the push thread has no error flag to stop it and draining    *)
(* the buffer after a kill is what lets both threads end.                  *)
EXTENDS SmbReadAhead

VARIABLE operation_
Get == INSTANCE SmbReadAhead WITH Operation <- "get"

MCInit ==
  \/ operation_ = "copyGet" /\ Init
  \/ operation_ = "get" /\ Get!Init
MCPush ==
  \/ operation_ = "copyGet" /\ PushNext
  \/ operation_ = "get" /\ Get!PushNext
MCWorker ==
  \/ operation_ = "copyGet" /\ WorkerNext
  \/ operation_ = "get" /\ Get!WorkerNext
MCNext ==
  /\ \/ operation_ = "copyGet" /\ Next
     \/ operation_ = "get" /\ Get!Next
  /\ UNCHANGED operation_

(* The fairness of SmbReadAhead, for either operation.                     *)
MCSpec == MCInit /\ [][MCNext]_<<operation_, vars>> /\ WF_vars(MCPush) /\ WF_vars(MCWorker)
=============================================================================
