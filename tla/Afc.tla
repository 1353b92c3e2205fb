--------------------------------- MODULE Afc ---------------------------------
(***************************************************************************)
(* The AFC worker (src/afc): files of Apple devices and of the apps on     *)
(* them.  A step is one call to libimobiledevice, or the handling of a     *)
(* device event, which happens on a thread of its own under m_mutex.       *)
(*                                                                         *)
(* A file is [of, len]: whose data it holds, and how much; it is of "cut"  *)
(* when some of what was written to it has not been stored.  A container   *)
(* is the device's file system or the documents of an app.                 *)
(***************************************************************************)
EXTENDS Naturals, FiniteSets

CONSTANTS Device, AppId, FileSystem, \* containers: an app's, or FileSystem
          AfcName, Nothing, AfcOps,
          AfcEvents, \* subset of {"unplugInUse", "acrossContainers", "killed", "shrinks", "resumes", "lost"}
          MaxLen, MaxAfcJobs, MaxAttached

ASSUME AfcOpsAssumption ==
  AfcOps \subseteq {"get", "put", "copy", "rename", "open", "list", "stat", "symlink", "del", "setTime", "space", "mkdir", "apps",
                   "read", "seek", "truncate", "write", "close"}
ASSUME MaxLenAssumption == MaxLen \in Nat

VARIABLES attached, trusted,    \* devices at the bus; those that let us in
          afcDevices, m_openFile,
          m_handshake, m_lastClient, \* per device: its handshake, its last container
          installed, m_apps, icons,  \* per device: apps; those known; those with an icon
          files,                     \* <<device, container, name>> -> file or Nothing
          afcJob, afcJobs, attaches

afcDeviceVars == <<attached, trusted, installed, attaches>>
afcWorkerVars == <<afcDevices, m_openFile, m_handshake, m_lastClient, m_apps, icons>>
afcVars == <<afcDeviceVars, afcWorkerVars, files, afcJob, afcJobs>>

Container == AppId \cup {FileSystem}
AfcPath == Device \X Container \X AfcName
NoAfcJob == [pc |-> "idle", op |-> "none", src |-> Nothing, dest |-> Nothing, overwrite |-> FALSE,
             size |-> 0, done |-> 0, short |-> FALSE, result |-> "none"]
File(of, len) == [of |-> of, len |-> len]
Opened(path, offset) == [path |-> path, offset |-> offset]

AfcInit ==
  /\ attached \in SUBSET Device /\ trusted = Device /\ afcDevices = attached /\ m_openFile = Nothing
  /\ m_handshake = {} /\ m_lastClient = [d \in Device |-> Nothing]
  /\ installed = AppId /\ m_apps = {} /\ icons = {}
  /\ files \in [AfcPath -> {Nothing, File("old", MaxLen), File("dir", 0)}]
  /\ afcJob = NoAfcJob /\ afcJobs = 0 /\ attaches = 0

----------------------------------------------------------------------------
(* Devices                                                                 *)

Max2(a, b) == IF a > b THEN a ELSE b
InUse(d) == afcJob.pc # "idle" /\ d \in {afcJob.src[1], afcJob.dest[1]}

(* AfcDevice::AfcDevice(): its name is there when it can be talked to.     *)
IsValid(d) == d \in attached' /\ d \in trusted
(* addDevice(): one that is not valid is left out.                         *)
AddDevice(d) == afcDevices' = IF IsValid(d) THEN afcDevices \cup {d} ELSE afcDevices
AfcPlug(d) ==
  /\ d \notin attached /\ attaches < MaxAttached /\ attaches' = attaches + 1
  /\ attached' = attached \cup {d} /\ AddDevice(d)
  /\ UNCHANGED <<trusted, installed, m_openFile, m_handshake, m_lastClient, m_apps, icons, files, afcJob, afcJobs>>

(* Mutant: the open file outlives its device.                              *)
OpenFileKept(d) == m_openFile
WithoutFileOf(d) == IF m_openFile # Nothing /\ m_openFile.path[1] = d THEN Nothing ELSE m_openFile

(* removeDevice(): the device goes, whoever uses it on the other thread.   *)
AfcUnplug(d) ==
  /\ d \in attached /\ attaches < MaxAttached /\ attaches' = attaches + 1
  /\ InUse(d) => "unplugInUse" \in AfcEvents
  /\ attached' = attached \ {d} /\ afcDevices' = afcDevices \ {d}
  /\ m_openFile' = WithoutFileOf(d)
  /\ m_handshake' = m_handshake \ {d} /\ m_lastClient' = [m_lastClient EXCEPT ![d] = Nothing]
  /\ m_apps' = {a \in m_apps : a[1] # d}
  /\ UNCHANGED <<trusted, installed, icons, files, afcJob, afcJobs>>

(* The user locks or unlocks a device, or removes an app from it.          *)
Lock ==
  /\ attaches < MaxAttached /\ attaches' = attaches + 1
  /\ \/ /\ \E d \in Device : trusted' = trusted \ {d} \/ trusted' = trusted \cup {d}
        /\ UNCHANGED installed
     \/ (\E a \in AppId : installed' = installed \ {a}) /\ UNCHANGED trusted
  /\ UNCHANGED <<attached, afcWorkerVars, files, afcJob, afcJobs>>

----------------------------------------------------------------------------
(* Commands                                                                *)

AfcAt(pc) == afcJob.pc = pc
AfcGoto(pc) == afcJob' = [afcJob EXCEPT !.pc = pc]
AfcEnd(r) == afcJob' = [afcJob EXCEPT !.pc = "idle", !.result = r]
SameDevices == UNCHANGED afcDeviceVars
SameWorker == UNCHANGED <<afcDevices, m_openFile, m_handshake, m_lastClient, m_apps, icons>>

(* The client of the source is used for the destination as well.           *)
ClientPath(path) == IF path = Nothing THEN Nothing ELSE <<path[1], afcJob.src[2], path[3]>>
Src == afcJob.src
Dest == ClientPath(afcJob.dest)
IsDir(p) == files[p] # Nothing /\ files[p].of = "dir"
FileOps == {"read", "write", "seek", "truncate", "close"}

StartAfc(op, src, dest, overwrite) ==
  /\ AfcAt("idle") /\ afcJobs < MaxAfcJobs /\ afcJobs' = afcJobs + 1
  /\ (src[2] # dest[2] => "acrossContainers" \in AfcEvents)
  /\ (op \in {"copy", "rename", "symlink"} <=> src # dest)
  /\ afcJob' = [NoAfcJob EXCEPT !.pc = IF op \in FileOps \cup {"apps"} THEN op ELSE "client", !.op = op, !.src = src,
                                !.dest = dest, !.overwrite = overwrite]
  /\ SameDevices /\ SameWorker /\ UNCHANGED files

(* handshake(): needs an unlocked device, once.                            *)
Handshake(d) == d \in trusted \cup m_handshake

(* init(): a house arrest client needs an app that shares its documents.   *)
ClientInit(d, c) ==
  /\ Handshake(d) /\ (m_lastClient[d] = c \/ c \in installed \cup {FileSystem})
  /\ m_handshake' = m_handshake \cup {d} /\ m_lastClient' = [m_lastClient EXCEPT ![d] = c]

(* What a command does with its client first.                              *)
FirstCall(op) ==
  CASE op \in {"get", "open", "stat", "list", "copy", "rename", "symlink"} -> "entry"
    [] op \in {"put", "mkdir"} -> "exists"
    [] OTHER -> op

(* clientForUrl(): of the source; the last one serves its container again. *)
ClientForUrl ==
  /\ AfcAt("client")
  /\ LET d == Src[1]
     IN  \/ /\ d \in afcDevices
            /\ afcJob.op \in {"copy", "rename"} => d = afcJob.dest[1]
            /\ ClientInit(d, Src[2]) /\ AfcGoto(FirstCall(afcJob.op))
            /\ UNCHANGED <<afcDevices, m_openFile, m_apps, icons>>
         \/ ~(d \in afcDevices /\ m_lastClient[d] = Src[2]) /\ AfcEnd("fail") /\ SameWorker
  /\ SameDevices /\ UNCHANGED <<files, afcJobs>>

(* entry(): of the source.                                                 *)
AfterEntry(op) ==
  CASE op = "list" -> "list" [] op \in {"get", "open"} -> "openSource" [] OTHER -> "exists"
Entry ==
  /\ AfcAt("entry")
  /\ \/ AfcEnd("fail")
     \/ files[Src] # Nothing /\ afcJob.op = "stat" /\ AfcEnd("pass")
     \/ /\ files[Src] # Nothing /\ afcJob.op # "stat"
        /\ afcJob' = [afcJob EXCEPT !.pc = AfterEntry(afcJob.op), !.size = files[Src].len]
  /\ SameDevices /\ SameWorker /\ UNCHANGED <<files, afcJobs>>

(* listDir(): an app's root that is refused leads to its documents; an     *)
(* entry that has gone is left out.                                        *)
AfcList == AfcAt("list") /\ (\E r \in {"pass", "redirected", "fail"} : AfcEnd(r)) /\ SameDevices /\ SameWorker /\ UNCHANGED <<files, afcJobs>>

(* Mutant: only an entry that can be looked at exists.                     *)
ExistsIfSeen(answer) == answer = "found"
(* entry() of the destination: whatever fails otherwise counts as existing.*)
AfcExists(answer) == answer # "doesNotExist"

(* Overwrite, or Resume where put() and copy() are allowed to append.      *)
CheckDest ==
  /\ AfcAt("exists")
  /\ \E answer \in {"otherError", IF files[Dest] = Nothing THEN "doesNotExist" ELSE "found"} :
       IF AfcExists(answer) /\ (~afcJob.overwrite \/ afcJob.op = "mkdir") THEN AfcEnd("fail")
       ELSE AfcGoto(CASE afcJob.op = "copy" -> "openSource" [] afcJob.op = "put" -> "openDest" [] OTHER -> afcJob.op)
  /\ SameDevices /\ SameWorker /\ UNCHANGED <<files, afcJobs>>

OpenSource ==
  /\ AfcAt("openSource")
  /\ \/ AfcEnd("fail") /\ SameWorker
     \/ /\ files[Src] # Nothing /\ ~IsDir(Src)
        /\ IF afcJob.op = "open"
           THEN AfcEnd("pass") /\ m_openFile' = Opened(Src, 0) /\ UNCHANGED <<afcDevices, m_handshake, m_lastClient, m_apps, icons>>
           ELSE AfcGoto(IF afcJob.op = "get" THEN "reading" ELSE "openDest") /\ SameWorker
  /\ SameDevices /\ UNCHANGED <<files, afcJobs>>

OpenDest ==
  /\ AfcAt("openDest")
  /\ \/ AfcEnd("fail") /\ UNCHANGED files
     \/ /\ ~IsDir(Dest)
        /\ files' = IF "resumes" \in AfcEvents /\ files[Dest] # Nothing THEN files
                    ELSE [files EXCEPT ![Dest] = File(IF afcJob.op = "put" THEN "new" ELSE files[Src].of, 0)]
        /\ AfcGoto(IF afcJob.op = "put" THEN "receiving" ELSE "reading")
  /\ SameDevices /\ SameWorker /\ UNCHANGED afcJobs

(* A write of n bytes that succeeds though the device stores fewer: put()  *)
(* and copy() do not look at bytesWritten.                                 *)
ShortWrite(n) ==
  /\ afcJob' = [afcJob EXCEPT !.done = @ + n, !.short = TRUE]
  /\ \E stored \in 0 .. n - 1 : files' = [files EXCEPT ![Dest] = File("cut", @.len + stored)]

(* AfcFileReader: until the size seen first has been read.  The device     *)
(* may return less than is asked for; at the end of the file, nothing.     *)
Reading ==
  /\ AfcAt("reading")
  /\ IF afcJob.done = afcJob.size THEN AfcGoto(IF afcJob.op = "get" THEN "passes" ELSE "closing") /\ UNCHANGED files
     ELSE \/ /\ \E n \in 1 .. afcJob.size - afcJob.done :
                  /\ afcJob.done + n <= files[Src].len
                  /\ \/ /\ afcJob' = [afcJob EXCEPT !.done = @ + n]
                        /\ files' = IF afcJob.op = "copy" THEN [files EXCEPT ![Dest].len = @ + n] ELSE files
                     \/ afcJob.op = "copy" /\ ShortWrite(n)
          \/ AfcGoto("cleanup") /\ UNCHANGED files
          \/ "killed" \in AfcEvents /\ afcJob.op = "copy" /\ AfcGoto("closing") /\ UNCHANGED files
          \/ "shrinks" \in AfcEvents /\ files' = [files EXCEPT ![Src].len = 0] /\ UNCHANGED afcJob
  /\ SameDevices /\ SameWorker /\ UNCHANGED afcJobs

(* Mutant: what a copy that failed has written stays.                      *)
NotCleanedUp == files
(* The scope guard of copy().                                              *)
CleanedUp == IF afcJob.op = "copy" THEN [files EXCEPT ![Dest] = Nothing] ELSE files
Cleanup ==
  /\ AfcAt("cleanup") /\ AfcEnd("fail")
  /\ \/ files' = CleanedUp
     \/ "lost" \in AfcEvents /\ UNCHANGED files
  /\ SameDevices /\ SameWorker /\ UNCHANGED afcJobs

(* put(): the application sends, ends, or is lost; a write may fail.       *)
Receiving ==
  /\ AfcAt("receiving")
  /\ \/ /\ files[Dest].len < MaxLen /\ afcJob.done < MaxLen
        /\ \/ files' = [files EXCEPT ![Dest].len = @ + 1] /\ afcJob' = [afcJob EXCEPT !.done = @ + 1]
           \/ ShortWrite(1)
     \/ AfcEnd("fail") /\ UNCHANGED files
     \/ afcJob' = [afcJob EXCEPT !.pc = "closing", !.size = afcJob.done] /\ UNCHANGED files
  /\ SameDevices /\ SameWorker /\ UNCHANGED afcJobs

(* The time of the file is set last; that it cannot be is not an error.    *)
Closing == AfcAt("closing") /\ AfcGoto("passes") /\ SameDevices /\ SameWorker /\ UNCHANGED <<files, afcJobs>>
Passes == AfcAt("passes") /\ AfcEnd("pass") /\ SameDevices /\ SameWorker /\ UNCHANGED <<files, afcJobs>>

(* The calls on names.                                                     *)
Rename == AfcAt("rename") /\ files[Src] # Nothing /\ files' = [files EXCEPT ![Src] = Nothing, ![Dest] = files[Src]]
Symlink == AfcAt("symlink") /\ UNCHANGED files
AfcMkdir == AfcAt("mkdir") /\ files[Dest] = Nothing /\ files' = [files EXCEPT ![Dest] = File("dir", 0)]
Del == AfcAt("del") /\ files[Src] # Nothing /\ files' = [files EXCEPT ![Src] = Nothing]
SetModificationTime == AfcAt("setTime") /\ files[Src] # Nothing /\ UNCHANGED files
FreeSpace == AfcAt("space") /\ UNCHANGED files
Names ==
  /\ Rename \/ Symlink \/ AfcMkdir \/ Del \/ SetModificationTime \/ FreeSpace
  /\ AfcEnd("pass") /\ SameDevices /\ SameWorker /\ UNCHANGED afcJobs
NamesFail ==
  /\ afcJob.pc \in {"rename", "symlink", "mkdir", "del", "setTime", "space", "apps"}
  /\ AfcEnd("fail") /\ SameDevices /\ SameWorker /\ UNCHANGED <<files, afcJobs>>

(* apps(): the list is fetched anew.                                       *)
FetchApps(d) == m_apps' = {a \in m_apps : a[1] # d} \cup {<<d, a>> : a \in installed}
(* fetchAppIcons(): those not on disk yet; one that fails is gone past.    *)
FetchAppIcons(d) == \E fetched \in SUBSET installed : icons' = icons \cup {<<d, a>> : a \in fetched}
Apps ==
  /\ AfcAt("apps") /\ Src[1] \in afcDevices /\ Handshake(Src[1])
  /\ m_handshake' = m_handshake \cup {Src[1]} /\ FetchApps(Src[1]) /\ FetchAppIcons(Src[1])
  /\ AfcEnd("pass") /\ SameDevices /\ UNCHANGED <<afcDevices, m_openFile, m_lastClient, files, afcJobs>>

(* The file open() has left open.                                          *)
OpenPath == m_openFile.path
ReadOpen == AfcAt("read") /\ m_openFile' = Opened(OpenPath, files[OpenPath].len) /\ UNCHANGED files
SeekOpen == AfcAt("seek") /\ (\E n \in 0 .. MaxLen : m_openFile' = Opened(OpenPath, n)) /\ UNCHANGED files
WriteOpen ==
  /\ AfcAt("write") /\ m_openFile.offset < MaxLen /\ m_openFile' = Opened(OpenPath, m_openFile.offset + 1)
  /\ files' = [files EXCEPT ![OpenPath] = File("new", Max2(files[OpenPath].len, m_openFile.offset + 1))]
TruncateOpen == AfcAt("truncate") /\ files' = [files EXCEPT ![OpenPath] = File("new", 0)] /\ UNCHANGED m_openFile
CloseOpen == AfcAt("close") /\ m_openFile' = Nothing /\ UNCHANGED files
FileOp ==
  /\ afcJob.pc \in FileOps
  /\ \/ AfcEnd("fail") /\ UNCHANGED <<files, m_openFile>>
     \/ /\ m_openFile # Nothing /\ files[OpenPath] # Nothing /\ AfcEnd("pass")
        /\ ReadOpen \/ SeekOpen \/ WriteOpen \/ TruncateOpen \/ CloseOpen
  /\ SameDevices /\ UNCHANGED <<afcDevices, m_handshake, m_lastClient, m_apps, icons, afcJobs>>

(* updateDeviceList(): when the root is listed; a device that is alone is  *)
(* where the list leads to.                                                *)
UpdateDeviceList ==
  /\ AfcAt("idle") /\ afcDevices # attached \cap trusted
  /\ afcDevices' = afcDevices \cup (attached \cap trusted)
  /\ SameDevices /\ UNCHANGED <<m_openFile, m_handshake, m_lastClient, m_apps, icons, files, afcJob, afcJobs>>

Step == ClientForUrl \/ Entry \/ AfcList \/ CheckDest \/ OpenSource \/ OpenDest \/ Reading \/ Cleanup \/ Receiving \/ Closing \/ Passes
        \/ Names \/ NamesFail \/ Apps \/ FileOp
AfcNext ==
  \/ \E d \in Device : AfcPlug(d) \/ AfcUnplug(d)
  \/ Lock \/ UpdateDeviceList \/ Step
  \/ \E op \in AfcOps, src, dest \in AfcPath, o \in BOOLEAN : StartAfc(op, src, dest, o)
AfcSpec == AfcInit /\ [][AfcNext]_afcVars /\ WF_afcVars(Step)

----------------------------------------------------------------------------
(* The open file, and every app known, are of a device that is there: the  *)
(* thread of the device events takes them away with it.                    *)
NothingDangles ==
  /\ afcDevices \subseteq attached
  /\ m_openFile # Nothing => m_openFile.path[1] \in afcDevices
  /\ \A a \in m_apps : a[1] \in afcDevices

(* A get that passes has read, a put or copy that passes has written, all  *)
(* there was, and the destination is the same unless the device has stored *)
(* less of a write than it was given; and a copy that fails leaves nothing *)
(* half written.                                                           *)
TransferDone ==
  AfcAt("idle") /\ afcJob.op \in {"get", "put", "copy"} =>
    /\ afcJob.result = "pass" => afcJob.done = afcJob.size
    /\ afcJob.result = "pass" /\ afcJob.op = "put" /\ ~afcJob.short => files[afcJob.dest] = File("new", afcJob.done)
    /\ afcJob.result = "pass" /\ afcJob.op = "copy" /\ ~afcJob.short => files[afcJob.dest] = files[afcJob.src]
    /\ \A p \in AfcPath : files[p] # Nothing /\ files[p].of = "old" => files[p].len = MaxLen

(* Without the flag Overwrite no command destroys what is at its           *)
(* destination: that it could not be looked at is no proof it is not there.*)
DestKept ==
  [][\A p \in AfcPath : ~afcJob.overwrite /\ (afcJob.op = "rename" => p # afcJob.src)
        /\ files[p] # Nothing /\ afcJob.pc \in {"openDest", "rename", "mkdir"} => files'[p] = files[p]]_afcVars

(* No handle outlives its device or container, and a transfer passes only  *)
(* when all of the file has been written to its destination.               *)
AfcRight == NothingDangles /\ TransferDone
=============================================================================
