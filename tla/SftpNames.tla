----------------------------- MODULE SftpNames -----------------------------
(***************************************************************************)
(* What an SFTP worker does once it is logged in: the operations on names  *)
(* and the file that open() keeps between commands (src/sftp/kio_sftp.cpp),*)
(* over the session of SftpSession, which may die under any of them.       *)
(***************************************************************************)
EXTENDS SftpSession

Alive == mSession.state = "alive"
Is(n, kind) == entries[n] # Nothing /\ entries[n].kind = kind
Target == request.dest
Changes == {"mkdir", "rename", "symlink", "del"}
Calls(op) == At("op") /\ request.op = op
Same == UNCHANGED <<authVars, requests>>
Quiet == KeepConnection /\ UNCHANGED entries
Set(n, e) == entries' = [entries EXCEPT ![n] = e]
Made(kind) == [kind |-> kind, was |-> Nothing]

(* A call that changes the server: done, or refused.                       *)
Carried == request' = [NoRequest EXCEPT !.done = TRUE, !.result = "pass"]

(* What is at a name, seen through a link if details are asked for.        *)
CreateUDSEntry(e, details) ==
  CASE e.kind \in {"link", "brokenLink"} /\ details <= 1 -> [type |-> "link", link |-> TRUE]
    [] e.kind = "link"       -> [type |-> "file", link |-> TRUE]
    [] e.kind = "brokenLink" -> [type |-> "unknown", link |-> TRUE]
    [] OTHER                 -> [type |-> e.kind, link |-> FALSE]

(* stat(): any failure of lstat is "does not exist", and closes nothing.   *)
Stat ==
  /\ Calls("stat")
  /\ \/ Alive /\ entries[Target] # Nothing
        /\ \E details \in 0 .. 2 : NamesFinish(CreateUDSEntry(entries[Target], details).type)
     \/ NamesFinish("fail")
  /\ Quiet /\ Same

(* listDir(): readdir answers NULL at the end and on an error alike.       *)
OpenDir ==
  /\ Calls("list")
  /\ \/ Alive /\ SessionGoto("readdir") /\ KeepConnection
     \/ ReportError
  /\ UNCHANGED entries /\ Same

ReadDir == At("readdir") /\ NamesFinish("pass") /\ Quiet /\ Same

(* chmod(), setModificationTime() and fileSystemFreeSpace().               *)
Attributes ==
  /\ Calls("attributes")
  /\ \/ Alive /\ entries[Target] # Nothing /\ NamesFinish("pass") /\ KeepConnection
     \/ ReportError
  /\ UNCHANGED entries /\ Same

(* A relative path is sent back in its canonical form.                     *)
Redirect ==
  /\ At("op") /\ request.op \in {"stat", "list"}
  /\ \/ Alive /\ NamesFinish("redirect")
     \/ NamesFinish("fail")
  /\ Quiet /\ Same

(* mkdir(): with "overwrite" a file in the way is unlinked first, and the  *)
(* result of that is not looked at.                                        *)
MkdirUnlink ==
  /\ Calls("mkdir") /\ request.overwrite
  /\ \/ Alive /\ entries[Target] # Nothing /\ ~Is(Target, "dir") /\ Set(Target, Nothing)
     \/ UNCHANGED entries
  /\ SessionGoto("mkdirStat") /\ KeepConnection /\ Same

Mkdir ==
  /\ At("mkdirStat") \/ (Calls("mkdir") /\ ~request.overwrite)
  /\ \/ Alive /\ entries[Target] = Nothing /\ Set(Target, Made("dir")) /\ Carried /\ KeepConnection
     \/ Alive /\ entries[Target] # Nothing /\ NamesFinish("fail") /\ Quiet
     \/ ReportError /\ UNCHANGED entries
  /\ Same

(* Mutant: the destination is removed unasked. *)
MayRemoveAlways == TRUE

MayRemove == request.overwrite

(* rename(): the destination is removed before, in a call of its own.      *)
RenameStat ==
  /\ Calls("rename")
  /\ CASE ~Alive \/ entries[Target] = Nothing -> SessionGoto("rename")
       [] entries[Target] # Nothing /\ MayRemove -> SessionGoto("remove")
       [] OTHER -> NamesFinish("fail")
  /\ Quiet /\ Same

RenameRemove ==
  /\ At("remove")
  /\ \/ Alive /\ Set(Target, Nothing) /\ SessionGoto("rename") /\ KeepConnection
     \/ ReportError /\ UNCHANGED entries
  /\ Same

(* Mutant: a rename that fails is not reported. *)
RenameRefusedPasses == NamesFinish("pass") /\ KeepConnection

RenameRefused == ReportError

Rename ==
  /\ At("rename")
  /\ \/ /\ Alive /\ entries[request.name] # Nothing /\ entries[Target] = Nothing
        /\ entries' = [entries EXCEPT ![Target] = entries[request.name], ![request.name] = Nothing]
        /\ Carried /\ KeepConnection
     \/ RenameRefused /\ UNCHANGED entries
  /\ Same

(* symlink(): what is there is replaced with KIO::Overwrite; without it a  *)
(* failure goes unnoticed.                                                 *)
Symlink ==
  /\ Calls("symlink")
  /\ \/ Alive /\ entries[Target] = Nothing /\ Set(Target, Made("link")) /\ Carried /\ KeepConnection
     \/ request.overwrite /\ SessionGoto("unlink") /\ Quiet
     \/ ~request.overwrite /\ "symlinkFails" \in SftpEvents /\ NamesFinish("pass") /\ Quiet
  /\ Same

SymlinkUnlink ==
  /\ At("unlink")
  /\ \/ Alive /\ entries[Target] # Nothing /\ ~Is(Target, "dir") /\ Set(Target, Nothing) /\ SessionGoto("symlink") /\ KeepConnection
     \/ ReportError /\ UNCHANGED entries
  /\ Same

SymlinkAgain ==
  /\ At("symlink")
  /\ \/ Alive /\ Set(Target, Made("link")) /\ Carried /\ KeepConnection
     \/ ReportError /\ UNCHANGED entries
  /\ Same

Del ==
  /\ Calls("del")
  /\ \/ Alive /\ entries[Target] # Nothing /\ request.isfile = ~Is(Target, "dir") /\ Set(Target, Nothing) /\ Carried /\ KeepConnection
     \/ ReportError /\ UNCHANGED entries
  /\ Same

(* open(): stat, sftp_open, and the type of what will be read.  Of a link  *)
(* the target is opened.                                                   *)
OpenStat ==
  /\ Calls("open") \/ Calls("mimetype")
  /\ \/ Alive /\ (Is(Target, "file") \/ Is(Target, "link")) /\ SessionGoto("open") /\ KeepConnection
     \/ Alive /\ Is(Target, "dir") /\ NamesFinish("fail") /\ KeepConnection
     \/ ReportError
  /\ UNCHANGED entries /\ Same

Open ==
  /\ At("open")
  /\ \/ Alive /\ mOpenFile' = "open" /\ SessionGoto("sniff")
     \/ NamesFinish("fail") /\ UNCHANGED mOpenFile
  /\ UNCHANGED <<mSession, mConnected, entries>> /\ Same

Close == mOpenFile' = "none" /\ UNCHANGED <<mSession, mConnected>>

SendMimetype ==
  /\ At("sniff")
  /\ \/ Alive /\ IF request.op = "open" THEN SessionGoto("opened") /\ KeepConnection ELSE NamesFinish("pass") /\ Close
     \/ NamesFinish("fail") /\ Close
  /\ UNCHANGED entries /\ Same

(* Mutant: the failure is reported like any other, before the file is closed. *)
FileFailsFatally == ReportError

(* A read, write, seek or truncate that fails closes the file.             *)
FileFails == NamesFinish("fail") /\ Close

FileOperation ==
  /\ At("opened")
  /\ (Alive /\ SessionGoto("opened") /\ KeepConnection) \/ FileFails
  /\ UNCHANGED entries /\ Same

CloseFile == At("opened") /\ NamesFinish("pass") /\ Close /\ UNCHANGED entries /\ Same

(* The connection breaks; nobody notices before the next call, not even    *)
(* special(), which polls the channel and looks at no result.              *)
ServerDies ==
  /\ "dies" \in SftpEvents /\ Alive /\ mConnected
  /\ mSession' = [mSession EXCEPT !.state = "dead"]
  /\ UNCHANGED <<authVars, mConnected, mOpenFile, request, entries, requests>>

SessionInit ==
  /\ mUsername = Nothing /\ mPassword = Nothing /\ mConnected = FALSE /\ mSession = NoSession
  /\ mOpenFile = "none" /\ info = NoInfo /\ methods = {} /\ cached = [u \in User |-> Nothing]
  /\ request = NoRequest /\ logins = 0 /\ requests = 0
  /\ entries \in [File -> {Nothing} \cup {[kind |-> k, was |-> n] : k \in Kind, n \in File}]
  /\ \A n \in File : entries[n] # Nothing => entries[n].was = n

SessionNext ==
  \/ StartRequest \/ Logging \/ ServerDies
  \/ Stat \/ OpenDir \/ ReadDir \/ Attributes \/ Redirect \/ MkdirUnlink \/ Mkdir \/ RenameStat \/ RenameRemove \/ Rename
  \/ Symlink \/ SymlinkUnlink \/ SymlinkAgain \/ Del \/ OpenStat \/ Open \/ SendMimetype \/ FileOperation \/ CloseFile

SessionSpec == SessionInit /\ [][SessionNext]_sessionVars

(***************************************************************************)
(* Properties                                                              *)
(***************************************************************************)
(* An operation is carried out as the user its URL names, though the       *)
(* dialog lets another one log in and the session outlives the command.    *)
RunsAsAsked ==
  request.pc \notin {"idle", "connect", "fingerprint", "hostKey", "none", "publickey", "gssapi", "keyboard", "password", "reconnect", "send", "subsystem"}
    => mConnected /\ mSession.auth /\ (request.user # Nothing => mSession.user = request.user)

(* "Caching info.username" (kio_sftp.cpp:1051): only a password that the   *)
(* server has taken is kept, for the user it belongs to.                   *)
CachedPasswordWorks == \A u \in User : cached[u] \in {u, Nothing}

(* The open file belongs to the session that is there: closing the session *)
(* would free what close() still uses (mOpenFile).                         *)
FileOfSession == mOpenFile # "dangling"

(* An operation that passes was carried out by the server.                 *)
ChangePasses == [][request.op \in Changes /\ request.pc # "idle" /\ request'.result = "pass" => request'.done]_sessionVars

(* "Delete the existing destination" (kio_sftp.cpp:2059) is for callers    *)
(* who asked: nothing goes away but what a command names to that end.      *)
NamesSurvive ==
  [][\A n \in File : entries[n] # Nothing /\ entries'[n] # entries[n] =>
       \/ n = request.name /\ (request.op = "del" \/ (request.op = "rename" /\ entries'[request.dest] = entries[n]))
       \/ n = request.dest /\ request.overwrite]_sessionVars

(* Sessions: an operation runs as the user its URL names, a password that  *)
(* is cached opened a session, and an open file is of the session there is.*)
SessionRight == RunsAsAsked /\ CachedPasswordWorks /\ FileOfSession

(* Names: what passes was done, and no name goes that was not given.       *)
NamesRight == ChangePasses /\ NamesSurvive
=============================================================================
