-------------------------------- MODULE Nfs --------------------------------
(***************************************************************************)
(* What the NFS worker knows of its server: the choice of the server, and  *)
(* the handles of one.                                                     *)
(***************************************************************************)
EXTENDS NfsHandles, NfsSession

(* Handles: a cached handle is of the object at its path, and every handle *)
(* is of the host, and for the protocol, that the worker is talking to.    *)
HandlesRight == HandleRight /\ HandlesOfHost
=============================================================================
