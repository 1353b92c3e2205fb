------------------------------- MODULE MCNfs -------------------------------
(* Instances of the NFS worker for TLC.  Its handles, its transfers,       *)
(* its choice of a server and its messages share nothing that any of them  *)
(* models: one behaviour is of one part, and the others keep one initial   *)
(* state.                                                                  *)
EXTENDS Nfs, NfsCopy, NfsXdr

CONSTANTS d, e, f, g, h
VARIABLE part_
vars == <<part_, handleVars, transferVars, sessionVars, xdrVars>>

Symmetric == Permutations({f, g})
MCMessage ==
  {"GETATTR3args", "SETATTR3args", "CREATE3args", "MKNOD3args", "CREATE3res", "READ3res", "WRITE3args", "WRITE3res", "READDIR3res",
   "READDIRPLUS3res", "FSINFO3res", "PATHCONF3res", "LOOKUP3res", "mountres3", "exports3", "RENAME3res", "COMMIT3res"}
MCExportLists == {<<<<d>>>>, <<<<d, e>>, <<d>>>>}

Init ==
  /\ HandlesInit /\ TransferInit /\ SessionInit /\ XdrInit
  /\ part_ \in {"handles", "transfers", "session", "messages"}
  /\ part_ # "handles" => exports = <<<<d>>>> /\ object[2].name = f
  /\ part_ # "transfers" => side = "local" /\ dst = NoFile
  /\ part_ # "session" => /\ server = [a \in Account |-> "v3"] /\ m_account = h
                          /\ protos = [min |-> 2, max |-> 4]
  /\ part_ # "messages" => writing = <<"GETATTR3args">>
Next ==
  \/ part_ = "handles" /\ HandlesNext /\ UNCHANGED <<part_, transferVars, sessionVars, xdrVars>>
  \/ part_ = "transfers" /\ TransferNext /\ UNCHANGED <<part_, handleVars, sessionVars, xdrVars>>
  \/ part_ = "session" /\ SessionNext /\ UNCHANGED <<part_, handleVars, transferVars, xdrVars>>
  \/ part_ = "messages" /\ XdrNext /\ UNCHANGED <<part_, handleVars, transferVars, sessionVars>>
Spec == Init /\ [][Next]_vars
=============================================================================
