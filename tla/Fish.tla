-------------------------------- MODULE Fish --------------------------------
(***************************************************************************)
(* A fish worker, the server at the other end and the application that     *)
(* asks for one operation after the other.  The connection may break at    *)
(* any point if the server is one of Faulty.                               *)
(***************************************************************************)
EXTENDS FishServer, FishClient

CONSTANTS
  Ops,           \* server -> operations the application asks for
  InitialValues, \* server -> what a path may be at the start
  PutData,       \* what put may be asked to store
  MaxJobs

ASSUME OpsAssumption == Ops \in [Servers -> SUBSET Names] /\ DOMAIN InitialValues = Servers
ASSUME MaxJobsAssumption == MaxJobs \in Nat

Value == {Absent, Dir} \union Seq(0 .. 9)
ASSUME NamesAssumption == Absent \notin Seq(0 .. 9) /\ Dir \notin Seq(0 .. 9)
ASSUME ValuesAssumption ==
  (\A s \in Servers : InitialValues[s] \subseteq Value) /\ PutData \subseteq Seq(0 .. 9)

VARIABLES
  jobs,          \* operations asked for so far
  before,        \* the remote file system when the operation began
  asked          \* what put was given

appVars == <<jobs, before, asked>>
vars == <<wireVars, serverVars, clientVars, appVars>>

Init ==
  /\ WireInit /\ ServerInit /\ ClientInit
  /\ fs \in [Path -> InitialValues[server]]
  /\ jobs = 0 /\ before = fs /\ asked = << >>

(* Operations, with the arguments they take. *)
Jobs ==
  [op : Ops[server], p : Path, q : Path \union {""}, overwrite : BOOLEAN, perm : BOOLEAN]

Sensible(j) ==
  /\ j.p # j.q
  /\ j.op \in {"rename", "copy"} <=> j.q # ""
  /\ j.op \notin {"put", "rename", "symlink", "copy"} => ~j.overwrite
  /\ j.op \notin {"put", "mkdir", "copy"} => ~j.perm

StartJob ==
  /\ jobs < MaxJobs /\ jobs' = jobs + 1
  /\ \E j \in Jobs, d \in PutData \union {<< >>} :
       /\ Sensible(j)
       /\ j.op # "put" => d = << >>
       /\ Ask(j, d)
       /\ asked' = d
  /\ before' = fs
  /\ failed' = {}
  /\ UNCHANGED <<server, fs, srv, srvOut>>

(* A new connection has a new server. *)
Connect ==
  /\ OpenConnects
  /\ srv' = [Idle EXCEPT !.mode = "login"] /\ srvOut' = << >>
  /\ before' = fs /\ failed' = {}
  /\ UNCHANGED <<server, fs, jobs, asked>>

ClientSteps == Connect \/ (ClientRun /\ UNCHANGED <<serverVars, appVars>>)

ServerSteps == ServerNext /\ UNCHANGED <<clientVars, appVars>>

(* ssh ends.  What it has already printed can still be read. *)
ConnectionBreaks ==
  /\ Faults /\ alive /\ cl.childPid
  /\ alive' = FALSE /\ toServer' = << >> /\ srvOut' = << >>
  /\ UNCHANGED <<server, toClient, fs, srv, failed, clientVars, appVars>>

AllDone == pc = "idle" /\ jobs = MaxJobs /\ UNCHANGED vars

Next == StartJob \/ ClientSteps \/ ServerSteps \/ ConnectionBreaks \/ AllDone

Spec == Init /\ [][Next]_vars

(* Client and server are processes that run; select() and the remote       *)
(* system calls return.                                                    *)
FairSpec == Spec /\ WF_vars(ClientSteps) /\ WF_vars(ServerSteps)

-----------------------------------------------------------------------------
(* Type invariant; that rawWrite is the size of the data at hand is why    *)
(* sent() never asks for more in the middle of a command.                  *)
TypeOK ==
  /\ fs \in [Path -> Value]
  /\ Len(toServer) <= Room /\ Len(toClient) <= Room
  /\ srv.mode \in {"login", "code", "main", "alt", "data"} /\ srv.left \in Nat
  /\ pc \in {"idle", "open", "select", "parse"}
  /\ cl.rawRead \in Nat /\ cl.rawWrite \in Nat \union {-1} /\ cl.sendLen \in Nat \union {-1}
  /\ cl.rawWrite > 0 => cl.rawWrite = Len(cl.rawData)
  /\ cl.isRunning \in BOOLEAN /\ (pc = "idle" => ~cl.isRunning)
  /\ delivered \in Seq(0 .. 9)

(* Every unit of a reply is read while its own command is the current one: *)
(* no reply, and no rest of one, is taken for the answer to a later        *)
(* command, after errors and across operations.                            *)
RepliesInStep == (pc = "parse" /\ inBuf # << >>) => Head(inBuf).id = cl.fishCommand.id

(* The server never takes data for a command, nor anything but data for    *)
(* data: a file that contains commands can be stored.  (Without Perl the   *)
(* shell opens the file before it has read to the end of the command.)     *)
StreamInStep ==
  (server = "perl" /\ alive /\ cl.childPid /\ toServer # << >> /\ srvOut = << >>) =>
     (Head(toServer).u = "data") = (srv.mode = "data" /\ srv.left > 0)

(* Replies stay with their commands, and data and commands apart.          *)
InStep == RepliesInStep /\ StreamInStep

(* An operation passes only if the server carried out all it was asked to; *)
(* that the destination does not exist yet is no failure.  A plain shell   *)
(* ends every reply as if it had been.                                     *)
PassIsDone ==
  (server = "perl" /\ pc = "idle" /\ result = "pass") => failed \subseteq (IF job.op = "listDir" THEN {} ELSE {"LIST"})

(* A get that passes has delivered the file, a put that passes has stored  *)
(* what the application sent, byte for byte, however reads and writes were *)
(* cut.                                                                    *)
TransferExact ==
  (pc = "idle" /\ result = "pass") =>
     /\ job.op = "get" => delivered = fs[job.p]
     /\ job.op = "put" => fs[job.p] = asked

(* Without KIO::Overwrite put, rename, symlink and copy leave an existing  *)
(* destination alone.                                                      *)
Target == IF job.op \in {"rename", "copy"} THEN job.q ELSE job.p
NoUninvitedOverwrite ==
  (job.op \in {"put", "rename", "symlink", "copy"} /\ ~job.overwrite /\ before[Target] # Absent) =>
     fs[Target] = before[Target]

(* Names and files are as TypeOK says, and nothing is done but what was    *)
(* asked and what was asked is done.                                       *)
DoneAsAsked == TypeOK /\ PassIsDone /\ NoUninvitedOverwrite

(* A client that waits waits for something: the server has output to come, *)
(* input to read, or a write to end.                                       *)
NobodyWaits ==
  (Selecting /\ alive /\ ~cl.outBusy /\ toClient = << >>) =>
     srvOut # << >> \/ toServer # << >> \/ (srv.mode = "data" /\ srv.left = 0)

(* Every operation ends. *)
JobsEnd == pc # "idle" ~> pc = "idle"
=============================================================================
