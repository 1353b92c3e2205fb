----------------------------- MODULE FishClient -----------------------------
(***************************************************************************)
(* fishProtocol: the command queue, the output buffer and the parser of    *)
(* replies.  run() is a loop around select(): it writes what is in outBuf  *)
(* whenever there is room, and only otherwise reads and handles replies.   *)
(*                                                                         *)
(* The members of fishProtocol that several functions change in turn are   *)
(* the record cl; writeChild, writeStdin, finished, sent, sendCommand are  *)
(* functions from one such record to the next.  outBuf is what is still to *)
(* be written, outBusy is outBufPos >= 0.  A job that is killed ends the   *)
(* worker and is not modelled.                                             *)
(***************************************************************************)
EXTENDS FishWire

VARIABLES
  cl,            \* the connection's state
  job,           \* the operation asked for
  pc,            \* "idle", "open", "select" or "parse"
  inBuf,         \* buf of run()
  checkExist, checkOverwrite, listReason,
  toPut,         \* what the application has still to send
  held,          \* the used part of mimeBuffer
  mimeTypeSent,
  delivered,     \* what data() gave to the application
  result

clientVars == <<cl, job, pc, inBuf, checkExist, checkOverwrite, listReason, toPut, held, mimeTypeSent, delivered, result>>

NoRequest == Request("none", 0, "", "", 0, 0)
NoJob == [op |-> "none", p |-> "", q |-> "", overwrite |-> FALSE, perm |-> FALSE]

(* Members as the constructor leaves them. *)
ClientInit ==
  /\ cl = [childPid |-> FALSE, commandList |-> << >>, fishCommand |-> NoRequest, errorCount |-> 0,
           rawRead |-> 0, rawWrite |-> -1, recvLen |-> -1, sendLen |-> -1, rawData |-> << >>,
           qlist |-> << >>, writeReady |-> TRUE, outBuf |-> << >>, outBusy |-> FALSE,
           isRunning |-> FALSE, hasAppend |-> FALSE, putPos |-> 0, nextId |-> 1]
  /\ job = NoJob /\ pc = "idle" /\ inBuf = << >>
  /\ checkExist = FALSE /\ checkOverwrite = FALSE /\ listReason = "LIST"
  /\ toPut = << >> /\ held = << >> /\ mimeTypeSent = FALSE /\ delivered = << >>
  /\ result = "pass"

-----------------------------------------------------------------------------
(* Queueing and writing. *)

(* shutdownConnection(). *)
Shutdown(s) ==
  [s EXCEPT !.childPid = FALSE, !.outBuf = << >>, !.outBusy = FALSE, !.qlist = << >>,
            !.commandList = << >>, !.writeReady = TRUE, !.isRunning = FALSE,
            !.rawRead = 0, !.rawWrite = -1, !.recvLen = -1, !.sendLen = -1]

(* fishInfo[].lines: lines of text that do not count as errors. *)
TextLines(name) == IF name \in {"FISH", "VER", "PWD", "RETR"} THEN 1 ELSE 0

SendCommand(s, name, p, q, at, n) ==
  [s EXCEPT !.commandList = Append(@, Request(name, s.nextId, p, q, at, n)),
            !.nextId = @ + 1]

(* A write that is asked for while another is under way is dropped. *)
WriteChild(s, units) ==
  IF s.outBusy /\ s.outBuf # << >> THEN s
  ELSE [s EXCEPT !.outBuf = units, !.outBusy = TRUE]

WriteStdin(s, c) ==
  LET queued == [s EXCEPT !.qlist = Append(@, c)] IN
  IF s.writeReady
  THEN WriteChild([queued EXCEPT !.writeReady = FALSE], Lines(Head(queued.qlist)))
  ELSE queued

Finished(s) ==
  IF s.commandList # << >>
  THEN LET c == Head(s.commandList) IN
       WriteStdin([s EXCEPT !.fishCommand = c, !.errorCount = -TextLines(c.name),
                            !.rawRead = 0, !.rawWrite = -1, !.commandList = Tail(@)], c)
  ELSE [s EXCEPT !.isRunning = FALSE]

(* Mutant: the output is not marked free again. *)
SentNotReady(s) ==
  CASE s.rawWrite > 0 -> [WriteChild(s, DataUnits(s.rawData)) EXCEPT !.rawWrite = @ - Len(s.rawData)]
    [] s.rawWrite = 0 -> [WriteChild(s, <<Newlines>>) EXCEPT !.rawWrite = -1]
    [] s.rawWrite < 0 ->
         LET q == IF s.qlist = << >> THEN << >> ELSE Tail(s.qlist) IN
         IF q = << >> THEN [s EXCEPT !.qlist = q]
         ELSE WriteChild([s EXCEPT !.qlist = q], Lines(Head(q)))

(* rawWrite never exceeds the data at hand (TypeOK of Fish), so the      *)
(* branch that asks the application for more is not there.                 *)
Sent(s) ==
  CASE s.rawWrite > 0 -> [WriteChild(s, DataUnits(s.rawData)) EXCEPT !.rawWrite = @ - Len(s.rawData)]
    [] s.rawWrite = 0 -> [WriteChild(s, <<Newlines>>) EXCEPT !.rawWrite = -1]
    [] s.rawWrite < 0 ->
         LET q == IF s.qlist = << >> THEN << >> ELSE Tail(s.qlist) IN
         IF q = << >> THEN [s EXCEPT !.qlist = q, !.writeReady = TRUE]
         ELSE WriteChild([s EXCEPT !.qlist = q], Lines(Head(q)))

(* Mutant: the loop's flag stays set after an error. *)
ErrorStillRunning(s, e) ==
  /\ cl' = [s EXCEPT !.commandList = << >>]
  /\ result' = e /\ pc' = "idle" /\ inBuf' = << >>

(* error(): run() returns and its buffer is lost. *)
Error(s, e) ==
  /\ cl' = [s EXCEPT !.commandList = << >>, !.isRunning = FALSE]
  /\ result' = e /\ pc' = "idle" /\ inBuf' = << >>

ShutdownError(e) == Error(Shutdown(cl), e)

-----------------------------------------------------------------------------
(* Operations. *)

Names == {"pwd", "get", "put", "stat", "mimetype", "listDir", "mkdir", "rename",
          "symlink", "chmod", "copy", "del", "rmdir", "exec"}

(* The requests each operation queues; pwd stands for any operation on an  *)
(* empty path, del of a directory is rmdir.                                *)
Simple(s, name, p, q) == SendCommand(s, name, p, q, 0, 0)
Checked(s, j, p)      == IF j.overwrite THEN s ELSE Simple(s, "LIST", p, "")
WithPermissions(s, j, p) == IF j.perm THEN Simple(s, "CHMOD", p, "") ELSE s

EnqueueTransfer(s, j) ==
  CASE j.op = "get" -> Simple([s EXCEPT !.recvLen = -1], "RETR", j.p, "")
    [] j.op = "put" -> Simple(Simple([s EXCEPT !.putPos = 0], "LIST", j.p, ""), "STOR", j.p, "")

EnqueueQuery(s, j) ==
  CASE j.op = "pwd"      -> Simple(s, "PWD", "", "")
    [] j.op = "stat"     -> Simple(s, "STAT", j.p, "")
    [] j.op = "mimetype" -> SendCommand([s EXCEPT !.recvLen = MimeBytes], "READ", j.p, "", 0, MimeBytes)
    [] j.op = "listDir"  -> Simple(s, "LIST", j.p, "")

EnqueueChange(s, j) ==
  CASE j.op = "mkdir"   -> WithPermissions(Simple(s, "MKD", j.p, ""), j, j.p)
    [] j.op = "rename"  -> Simple(Checked(s, j, j.q), "RENAME", j.p, j.q)
    [] j.op = "symlink" -> Simple(Checked(s, j, j.p), "SYMLINK", j.p, "")
    [] j.op = "chmod"   -> Simple(s, "CHMOD", j.p, "")
    [] j.op = "copy"    -> WithPermissions(Simple(Checked(s, j, j.q), "COPY", j.p, j.q), j, j.q)

EnqueueRemoval(s, j) ==
  CASE j.op = "del"   -> Simple(s, "DELE", j.p, "")
    [] j.op = "rmdir" -> Simple(s, "RMD", j.p, "")
    [] j.op = "exec"  -> Simple(s, "EXEC", j.p, "")

Enqueue(s, j) ==
  CASE j.op \in {"get", "put"}                           -> EnqueueTransfer(s, j)
    [] j.op \in {"pwd", "stat", "mimetype", "listDir"}   -> EnqueueQuery(s, j)
    [] j.op \in {"mkdir", "rename", "symlink", "chmod", "copy"} -> EnqueueChange(s, j)
    [] j.op \in {"del", "rmdir", "exec"}                 -> EnqueueRemoval(s, j)

(* The operation's own assignments, then run() up to its loop. *)
StartRun(s) ==
  /\ cl' = Finished([Enqueue(s, job) EXCEPT !.isRunning = TRUE])
  /\ pc' = "select" /\ inBuf' = << >>
  /\ checkExist' = IF job.op = "put" THEN FALSE ELSE checkExist
  /\ checkOverwrite' = CASE job.op = "put" -> job.overwrite
                         [] job.op \in {"rename", "symlink", "copy"} /\ ~job.overwrite -> FALSE
                         [] OTHER -> checkOverwrite
  /\ listReason' = CASE job.op = "put" \/ (job.op \in {"rename", "symlink", "copy"} /\ ~job.overwrite) -> "CHECK"
                     [] job.op = "listDir" -> "LIST"
                     [] OTHER -> listReason

(* The application asks for an operation; data is what put is to store. *)
Ask(j, data) ==
  /\ pc = "idle"
  /\ job' = j /\ toPut' = data /\ delivered' = << >> /\ result' = "running"
  /\ pc' = "open"
  /\ UNCHANGED <<cl, inBuf, checkExist, checkOverwrite, listReason, held, mimeTypeSent, wireVars>>

(* openConnection() when there is one. *)
OpenConnected ==
  /\ pc = "open" /\ cl.childPid
  /\ StartRun(cl)
  /\ UNCHANGED <<job, toPut, held, mimeTypeSent, delivered, result, wireVars>>

(* A new connection: FISH and VER are queued before the login, which ends  *)
(* with "FISH:".                                                           *)
OpenConnects ==
  /\ pc = "open" /\ ~cl.childPid
  /\ StartRun(SendCommand(SendCommand([cl EXCEPT !.childPid = TRUE], "FISH", "", "", 0, 0),
                          "VER", "", "", 0, 0))
  /\ toServer' = << >> /\ toClient' = << >> /\ alive' = TRUE
  /\ UNCHANGED <<job, toPut, held, mimeTypeSent, delivered, result>>

OpenFails ==
  /\ pc = "open" /\ ~cl.childPid
  /\ ShutdownError("ERR_CANNOT_CONNECT")
  /\ UNCHANGED <<job, checkExist, checkOverwrite, listReason, toPut, held, mimeTypeSent, delivered, wireVars>>

-----------------------------------------------------------------------------
(* The loop of run(). *)

Selecting == pc = "select" /\ cl.isRunning
Writable  == Len(toServer) < Room

jobVars == <<job, checkExist, checkOverwrite, listReason, toPut, held, mimeTypeSent, delivered, result>>

(* Writes n units; the last one calls sent(). *)
SelectWrites ==
  /\ Selecting /\ cl.outBusy /\ Writable
  /\ alive \/ cl.outBuf = << >>
  /\ \E n \in 0 .. Len(cl.outBuf) :
       /\ n <= Room - Len(toServer)
       /\ cl.outBuf # << >> => n > 0
       /\ toServer' = toServer \o SubSeq(cl.outBuf, 1, n)
       /\ LET rest == SubSeq(cl.outBuf, n + 1, Len(cl.outBuf)) IN
          cl' = IF rest = << >> THEN Sent([cl EXCEPT !.outBuf = << >>, !.outBusy = FALSE])
                ELSE [cl EXCEPT !.outBuf = rest]
  /\ UNCHANGED <<toClient, alive, pc, inBuf, jobVars>>

(* Mutant: replies are read before the buffer is written. *)
SelectReadsFirst ==
  /\ Selecting /\ toClient # << >>
  /\ \E n \in 1 .. Len(toClient) :
       /\ inBuf' = SubSeq(toClient, 1, n)
       /\ toClient' = SubSeq(toClient, n + 1, Len(toClient))
  /\ pc' = "parse"
  /\ UNCHANGED <<toServer, alive, cl, jobVars>>

(* Reads what has come, or less; only if nothing can be written. *)
SelectReads ==
  /\ Selecting /\ ~(cl.outBusy /\ Writable) /\ toClient # << >>
  /\ \E n \in 1 .. Len(toClient) :
       /\ inBuf' = SubSeq(toClient, 1, n)
       /\ toClient' = SubSeq(toClient, n + 1, Len(toClient))
  /\ pc' = "parse"
  /\ UNCHANGED <<toServer, alive, cl, jobVars>>

(* read() or write() fails. *)
SelectBroken ==
  /\ Selecting /\ ~alive
  /\ IF cl.outBusy /\ Writable THEN cl.outBuf # << >> ELSE toClient = << >>
  /\ ShutdownError("ERR_CONNECTION_BROKEN")
  /\ UNCHANGED <<job, checkExist, checkOverwrite, listReason, toPut, held, mimeTypeSent, delivered, wireVars>>

(* Nothing to do: select() times out and the loop goes round. *)
SelectTimesOut ==
  /\ Selecting /\ alive /\ ~(cl.outBusy /\ Writable) /\ toClient = << >>
  /\ UNCHANGED <<wireVars, clientVars>>

RunEnds ==
  /\ pc = "select" /\ ~cl.isRunning
  /\ pc' = "idle" /\ result' = "pass"
  /\ UNCHANGED <<wireVars, cl, job, inBuf, checkExist, checkOverwrite, listReason, toPut, held, mimeTypeSent, delivered>>

(* received(): the buffer is used up. *)
ParseEnds ==
  /\ pc = "parse" /\ inBuf = << >>
  /\ pc' = "select"
  /\ UNCHANGED <<wireVars, cl, inBuf, jobVars>>

-----------------------------------------------------------------------------
(* received() *)

Parsing(kinds) == pc = "parse" /\ inBuf # << >> /\ cl.rawRead = 0 /\ Head(inBuf).k \in kinds
Go(s) == cl' = s /\ inBuf' = Tail(inBuf) /\ UNCHANGED <<pc, result>>

(* Mutant: a file shorter than mimeBuffer is not passed on. *)
MimeBufferFullOnly == Len(held) + 1 = MimeBytes

(* The unit at hand fills mimeBuffer or is the last one. *)
MimeBufferComplete == Len(held) + 1 = MimeBytes \/ cl.rawRead = 1

(* A unit of the rawRead outstanding ones.  The first go to mimeBuffer and *)
(* are passed on when that is full or the data ends; READ wants no data.   *)
ReceiveData ==
  /\ pc = "parse" /\ inBuf # << >> /\ cl.rawRead > 0
  /\ LET d    == Head(inBuf).v
         full == MimeBufferComplete
     IN  /\ held' = IF mimeTypeSent \/ full THEN << >> ELSE Append(held, d)
         /\ mimeTypeSent' = (mimeTypeSent \/ full)
         /\ delivered' = CASE mimeTypeSent -> Append(delivered, d)
                           [] ~mimeTypeSent /\ full /\ cl.fishCommand.name # "READ" -> delivered \o Append(held, d)
                           [] OTHER -> delivered
  /\ Go([cl EXCEPT !.rawRead = @ - 1])
  /\ UNCHANGED <<wireVars, job, checkExist, checkOverwrite, listReason, toPut>>

(* manageConnection(): lines that are not a status.  handleResponse counts *)
(* each as an error.                                                       *)
Line == {"text", "number", "blank", "entry", "data"}
Counted == [cl EXCEPT !.errorCount = @ + 1]

ManageText ==
  /\ Parsing(Line) /\ cl.fishCommand.name \notin {"LIST", "STAT", "RETR"}
  /\ IF cl.fishCommand.name = "VER"
     THEN IF Head(inBuf).k = "text" THEN Go([Counted EXCEPT !.hasAppend = (Head(inBuf).v = 1)])
                                    ELSE ShutdownError("ERR_UNSUPPORTED_PROTOCOL")
     ELSE Go(Counted)
  /\ UNCHANGED <<wireVars, job, checkExist, checkOverwrite, listReason, toPut, held, mimeTypeSent, delivered>>

(* Known lines of a listing are taken back from the errors.  The empty     *)
(* line that ends an entry is what proves that something is there.         *)
ManageListing ==
  /\ Parsing(Line) /\ cl.fishCommand.name \in {"LIST", "STAT"}
  /\ LET t   == Head(inBuf)
         end == t.k \in {"entry", "blank"}
     IN  /\ Go(IF end \/ (t.k = "number" /\ t.v > 0) THEN cl ELSE Counted)
         /\ checkExist' = (checkExist \/ (end /\ cl.fishCommand.name = "LIST" /\ listReason = "CHECK"))
  /\ UNCHANGED <<wireVars, job, checkOverwrite, listReason, toPut, held, mimeTypeSent, delivered>>

(* The size of the file to come. *)
ManageSize ==
  /\ Parsing(Line) /\ cl.fishCommand.name = "RETR"
  /\ LET t == Head(inBuf) IN
       CASE t.k = "blank"  -> Error([Counted EXCEPT !.recvLen = 0], "ERR_IS_DIRECTORY")
         [] t.k = "number" -> Go([Counted EXCEPT !.recvLen = t.v])
         [] OTHER          -> ShutdownError("ERR_CANNOT_READ")
  /\ UNCHANGED <<wireVars, job, checkExist, checkOverwrite, listReason, toPut, held, mimeTypeSent, delivered>>

(* Mutant: a preliminary reply counts as the end of one. *)
CodeFinal(n) ==
  CASE n = 0 -> (IF cl.errorCount # 0 THEN 500 ELSE 200)
    [] n \in {1, 100} -> 200
    [] OTHER -> n

(* handleResponse() on a status line: 0 and 1 mean what errorCount says. *)
Code(n) ==
  CASE n = 0 -> (IF cl.errorCount # 0 THEN 500 ELSE 200)
    [] n = 1 -> (IF cl.errorCount # 0 THEN 500 ELSE 100)
    [] OTHER -> n

Answered  == Parsing({"status"})
Rc        == Code(Head(inBuf).v)
Completed == Answered /\ Rc \div 100 = 2

(* rc == 100 *)
ManageGo ==
  /\ Answered /\ Rc = 100
  /\ LET name == cl.fishCommand.name
         len  == IF name = "READ" THEN MimeBytes ELSE cl.recvLen
     IN  CASE name = "FISH" -> Go(WriteChild(cl, <<FishCode>>)) /\ UNCHANGED <<held, mimeTypeSent>>
           [] name \in {"RETR", "READ"} /\ len = -1 ->
                ShutdownError("ERR_CANNOT_READ") /\ UNCHANGED <<held, mimeTypeSent>>
           [] name \in {"RETR", "READ"} /\ len # -1 ->
                /\ Go([cl EXCEPT !.recvLen = len, !.rawRead = len])
                /\ held' = << >>
                /\ mimeTypeSent' = (len = 0)
           [] name \in Writing ->
                Go(WriteChild([cl EXCEPT !.rawWrite = cl.sendLen], << >>)) /\ UNCHANGED <<held, mimeTypeSent>>
           [] OTHER -> Go(cl) /\ UNCHANGED <<held, mimeTypeSent>>
  /\ UNCHANGED <<wireVars, job, checkExist, checkOverwrite, listReason, toPut, delivered>>

(* rc / 100 != 2 *)
Refusal(name, rc) ==
  CASE name \in Writing \union {"COPY", "SYMLINK"} -> "ERR_CANNOT_WRITE"
    [] name \in {"RETR", "READ"} -> "ERR_CANNOT_READ"
    [] name \in {"FISH", "VER"}  -> "ERR_WORKER_DEFINED"
    [] name \in {"PWD", "LIST"}  -> "ERR_CANNOT_ENTER_DIRECTORY"
    [] name = "STAT"   -> "ERR_DOES_NOT_EXIST"
    [] name = "CHMOD"  -> "ERR_CANNOT_CHMOD"
    [] name = "MKD"    -> IF rc = 501 THEN "ERR_DIR_ALREADY_EXIST" ELSE "ERR_CANNOT_MKDIR"
    [] name = "RMD"    -> "ERR_CANNOT_RMDIR"
    [] name = "DELE"   -> "ERR_CANNOT_DELETE"
    [] name = "RENAME" -> "ERR_CANNOT_RENAME"
    [] name = "EXEC"   -> "none"

ClosesOnRefusal == Writing \union {"RETR", "READ", "FISH", "VER"}

(* Mutant: the next command is sent after a refusal. *)
RefuseGoesOn(name, rc) ==
  IF name \in ClosesOnRefusal THEN ShutdownError(Refusal(name, rc)) ELSE Go(Finished(cl))

Refuse(name, rc) ==
  IF name \in ClosesOnRefusal THEN ShutdownError(Refusal(name, rc)) ELSE Error(cl, Refusal(name, rc))

(* The listing that was to show whether the destination exists fails: it   *)
(* does not.                                                               *)
CheckFindsNothing == Go(Finished(cl)) /\ checkExist' = FALSE

ManageRefused ==
  /\ Answered /\ Rc # 100 /\ Rc \div 100 # 2
  /\ LET name == cl.fishCommand.name
     IN  CASE name = "LIST" /\ listReason = "CHECK" ->
                CheckFindsNothing /\ UNCHANGED mimeTypeSent
           [] name = "READ" /\ Rc = 501 ->
                Go(Finished([cl EXCEPT !.recvLen = 0])) /\ mimeTypeSent' = TRUE /\ UNCHANGED checkExist
           [] name = "EXEC" -> Go(cl) /\ UNCHANGED <<checkExist, mimeTypeSent>>
           [] OTHER -> Refuse(name, Rc) /\ UNCHANGED <<checkExist, mimeTypeSent>>
  /\ UNCHANGED <<wireVars, job, checkOverwrite, listReason, toPut, held, delivered>>

(* Mutant: an existing destination is not noticed. *)
ManageDoneUnchecked ==
  /\ Completed
  /\ cl.fishCommand.name \notin Writing
  /\ Go(Finished(cl))
  /\ UNCHANGED <<wireVars, job, checkExist, checkOverwrite, listReason, toPut, held, mimeTypeSent, delivered>>

(* rc / 100 == 2: the end of a reply. *)
ManageDone ==
  /\ Completed
  /\ cl.fishCommand.name \notin Writing
  /\ IF cl.fishCommand.name = "LIST" /\ listReason = "CHECK" /\ ~checkOverwrite /\ checkExist
     THEN Error(cl, "ERR_FILE_ALREADY_EXIST")
     ELSE Go(Finished(cl))
  /\ UNCHANGED <<wireVars, job, checkExist, checkOverwrite, listReason, toPut, held, mimeTypeSent, delivered>>

(* STOR only creates the file; the data goes out with APPEND if the server *)
(* has it, else with WRITE.                                                *)
NextWriting ==
  IF cl.fishCommand.name # "STOR" THEN cl.fishCommand.name
  ELSE IF cl.hasAppend THEN "APPEND" ELSE "WRITE"

(* Mutant: every WRITE goes to the start of the file. *)
TakePortionNoAdvance(n) == [cl EXCEPT !.rawData = SubSeq(toPut, 1, n), !.sendLen = n]

TakePortion(n) ==
  [cl EXCEPT !.rawData = SubSeq(toPut, 1, n), !.sendLen = n,
             !.putPos = IF NextWriting = "WRITE" THEN @ + n ELSE @]

(* Mutant: one unit too few is announced. *)
SendPortionMiscounts(s, n) ==
  SendCommand(s, NextWriting, job.p, "", IF NextWriting = "WRITE" THEN cl.putPos ELSE 0, n - 1)

SendPortion(s, n) ==
  SendCommand(s, NextWriting, job.p, "", IF NextWriting = "WRITE" THEN cl.putPos ELSE 0, n)

(* The end of a writing command: the application is asked for more data,   *)
(* which goes out with the next command.                                   *)
ManageStored ==
  /\ Completed
  /\ cl.fishCommand.name \in Writing
  /\ \E n \in 0 .. Len(toPut) :
       /\ n = 0 <=> toPut = << >>
       /\ toPut' = SubSeq(toPut, n + 1, Len(toPut))
       /\ Go(Finished(CASE n > 0 -> SendPortion(TakePortion(n), n)
                         [] n = 0 /\ ~checkExist /\ job.perm ->
                              SendCommand(TakePortion(n), "CHMOD", job.p, "", 0, 0)
                         [] OTHER -> TakePortion(n)))
  /\ UNCHANGED <<wireVars, job, checkExist, checkOverwrite, listReason, held, mimeTypeSent, delivered>>

ClientRun ==
  \/ OpenConnected \/ OpenFails
  \/ SelectWrites \/ SelectReads \/ SelectBroken \/ SelectTimesOut \/ RunEnds \/ ParseEnds
  \/ ReceiveData \/ ManageText \/ ManageListing \/ ManageSize
  \/ ManageGo \/ ManageRefused \/ ManageDone \/ ManageStored
=============================================================================
