------------------------------- MODULE MCSftp -------------------------------
(* Instances of the SFTP worker for TLC.  A behaviour is a pipelined read  *)
(* (chunks of two bytes, a last chunk of one, more chunks than requests),  *)
(* a sequence of transfers, or logins, operations on names and an open     *)
(* file; the modules share no state, and the others keep their first.      *)
EXTENDS SftpAsyncRead, SftpTransfer, SftpNames

VARIABLE part_
allVars == <<part_, vars, transferVars, sessionVars>>

MCOffers == {{}, {"publickey", "keyboard"}, {"password"}, {"publickey", "gssapi", "keyboard", "password"}}
Named(u, p) == [user |-> u, password |-> p]
MCUrls   == {Named(Nothing, Nothing), Named("me", "bob")}
MCOps    == {"stat", "list", "mkdir", "rename", "symlink", "del", "open"}
Was(k, n) == [kind |-> k, was |-> n]

MCInit ==
  /\ part_ \in {"read", "transfer", "session"}
  /\ Init /\ TransferInit /\ SessionInit
  /\ entries["a"] \in {Was("file", "a"), Was("dir", "a"), Was("brokenLink", "a")}
  /\ entries["b"] = Was("file", "b")
  /\ part_ # "transfer" => side = "remote" /\ ~refuses /\ dst = NoFile /\ part = NoFile
  /\ part_ # "session" => entries["a"].kind = "file"

MCNext ==
  \/ part_ = "read" /\ Next /\ UNCHANGED <<part_, transferVars, sessionVars>>
  \/ part_ = "transfer" /\ TransferNext /\ UNCHANGED <<part_, vars, sessionVars>>
  \/ part_ = "session" /\ SessionNext /\ UNCHANGED <<part_, vars, transferVars>>

(* The fairness of SftpAsyncRead and of SftpTransfer.                      *)
MCSpec ==
  /\ MCInit /\ [][MCNext]_allVars
  /\ WF_vars(part_ = "read" /\ ReaderNext) /\ WF_vars(part_ = "read" /\ ServerAnswers)
  /\ WF_transferVars(part_ = "transfer" /\ JobStep)

(* Every read and every transfer ends, whatever fails.                     *)
AllEnd == (part_ = "read" => Terminates) /\ (part_ = "transfer" => JobsEnd)
=============================================================================
