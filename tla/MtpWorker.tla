----------------------------- MODULE MtpWorker -----------------------------
(***************************************************************************)
(* The workers of src/mtp/kio_mtp.cpp (mtp.json allows two at a time) on   *)
(* one storage of MtpStorage.  Every call to the daemon is a step, so the  *)
(* workers' jobs interleave between their calls.                           *)
(*                                                                         *)
(* copyFinished and dataReady are D-Bus signals of the storage: every      *)
(* worker that holds an interface to it receives them, whichever of them   *)
(* asked for the copy.  They wait in wk[w].signals until w runs its loop.  *)
(***************************************************************************)
EXTENDS MtpStorage

CONSTANTS Worker,
          Ops,       \* the operations of this instance
          Events,    \* subset of {"unplug", "expire"}
          MaxJobs    \* how many jobs the applications start

(* The operations of a worker (kio_mtp.h).                                *)
OpName == {"put", "get", "copyFrom", "mkdir", "del", "rename", "list", "stat"}
ASSUME JobAssumption == Ops \subseteq OpName /\ MaxJobs \in Nat

VARIABLES wk,        \* the job of each worker
          local,     \* the local file each worker copies to
          started    \* jobs started so far; they number the jobs

workerVars == <<wk, local, started>>
vars == <<storageVars, workerVars>>

Idle == [pc |-> "idle", op |-> "none", path |-> <<>>, dest |-> <<>>, overwrite |-> FALSE,
         job |-> 0, ids |-> {}, signals |-> <<>>, done |-> FALSE, foreign |-> FALSE, lost |-> FALSE, result |-> "none"]
(* done, foreign and lost are history: the device has carried out the      *)
(* job's own copy; a signal of another copy has come; it was unplugged.    *)

(* Where a job's result file, or the file it replaces, goes.               *)
Target(j) == IF j.op = "rename" THEN j.dest ELSE j.path

FirstStep(op) ==
  CASE op \in {"put", "rename"}           -> "check"
    [] op = "copyFrom"                    -> "open"
    [] op = "list"                        -> "list"
    [] op = "mkdir"                       -> "mkdir"
    [] op = "del"                         -> "delete"
    [] op \in {"get", "stat"}             -> "meta"

Goto(w, pc) == wk' = [wk EXCEPT ![w].pc = pc]
Finish(w, r) == wk' = [wk EXCEPT ![w] = [Idle EXCEPT !.result = r]]
At(w, pc) == wk[w].pc = pc
Others == <<local, started>>

(* put is put() and copy() to the device, copyFrom is copy() from it.  The *)
(* new name of rename() is in the same folder, and another one.            *)
Job(op, path, dest, overwrite) ==
  /\ IF op = "rename" THEN dest # path /\ Front(dest) = Front(path) ELSE dest = path
  /\ overwrite => op \in {"put", "copyFrom", "rename"}

(* A job begins: deviceFromName() builds the interfaces anew, so signals   *)
(* for the old ones are lost; without the storage it fails.  A copy to a   *)
(* local file that exists needs KIO::Overwrite.                            *)
Start(w) ==
  /\ At(w, "idle") /\ started < MaxJobs
  /\ \E op \in Ops, path \in Path, dest \in Path, overwrite \in BOOLEAN :
       /\ Job(op, path, dest, overwrite)
       /\ LET refused == ~plugged \/ (op = "copyFrom" /\ ~overwrite /\ local[w] # Absent)
          IN  wk' = [wk EXCEPT ![w] =
                IF refused THEN [Idle EXCEPT !.result = "fail"]
                ELSE [Idle EXCEPT !.pc = FirstStep(op), !.op = op, !.path = path, !.dest = dest,
                                  !.overwrite = overwrite, !.job = started + 1]]
  /\ started' = started + 1
  /\ UNCHANGED <<storageVars, local>>

(* Mutant: KIO::Overwrite is not looked at. *)
MayReplaceAlways(j) == TRUE

MayReplace(j) == j.overwrite

(* put(), copy() to the device and rename(): is there a destination?       *)
CheckDestination(w) ==
  /\ At(w, "check")
  /\ \E file \in Id \cup {NoItem} :
       /\ GetFileMetadata(Target(wk[w]), file)
       /\ \/ file = NoItem /\ Goto(w, IF wk[w].op = "rename" THEN "setName" ELSE "send")
          \/ file # NoItem /\ MayReplace(wk[w]) /\ Goto(w, "delete")
          \/ file # NoItem /\ ~MayReplace(wk[w]) /\ Finish(w, "fail")
  /\ UNCHANGED Others

(* The file in the way is deleted, or del() deletes its own.               *)
Delete(w) ==
  /\ At(w, "delete")
  /\ \E result \in {0, 1} :
       /\ DeleteObject(Target(wk[w]), result)
       /\ CASE result = 1        -> Finish(w, "fail")
            [] wk[w].op = "del"  -> Finish(w, "pass")
            [] wk[w].op = "rename" -> Goto(w, "setName")
            [] OTHER             -> Goto(w, "send")
  /\ UNCHANGED Others

SetName(w) ==
  /\ At(w, "setName")
  /\ \E result \in {0, 1} :
       /\ SetFileName(wk[w].path, Last(wk[w].dest), result)
       /\ Finish(w, IF result = 0 THEN "pass" ELSE "fail")
  /\ UNCHANGED Others

Mkdir(w) ==
  /\ At(w, "mkdir")
  /\ \E result \in {"created", "exists", "failed"} :
       /\ CreateFolder(wk[w].path, result)
       /\ Finish(w, IF result = "created" THEN "pass" ELSE "fail")
  /\ UNCHANGED Others

(* The daemon takes the descriptor and returns; copy() opens its source    *)
(* only now, and may fail to.                                              *)
Send(w) ==
  /\ At(w, "send")
  /\ \E result \in {0, 2} :
       /\ SendFile(wk[w].path, wk[w].job, result)
       /\ IF result = 0 THEN Goto(w, "wait") ELSE Finish(w, "fail")
  /\ UNCHANGED Others

SourceUnreadable(w) ==
  /\ At(w, "send")
  /\ Finish(w, "fail")
  /\ UNCHANGED <<storageVars, Others>>

(* copy() from the device truncates the local file before it looks for the *)
(* source.                                                                 *)
OpenLocal(w) ==
  /\ At(w, "open")
  /\ \/ local' = [local EXCEPT ![w] = "empty"] /\ Goto(w, "meta")
     \/ UNCHANGED local /\ Finish(w, "fail")
  /\ UNCHANGED <<storageVars, started>>

SourceMetadata(w) ==
  /\ At(w, "meta")
  /\ \E file \in Id \cup {NoItem} :
       /\ GetFileMetadata(wk[w].path, file)
       /\ CASE file = NoItem       -> Finish(w, "fail")
            [] wk[w].op = "stat"   -> Finish(w, "pass")
            [] OTHER               -> Goto(w, "fetch")
  /\ UNCHANGED Others

Fetch(w) ==
  /\ At(w, "fetch")
  /\ \E result \in {0, 1} :
       /\ GetFile(wk[w].path, wk[w].job, IF wk[w].op = "copyFrom" THEN w ELSE Absent, result)
       /\ IF result = 0 THEN Goto(w, "wait") ELSE Finish(w, "fail")
  /\ UNCHANGED Others

(* Mutant: the signal's result is not looked at. *)
OutcomeIgnored(result) == "pass"

Outcome(result) == IF result = 0 THEN "pass" ELSE "fail"

(* waitForCopyOperation(), and the loop of get(): the first copyFinished   *)
(* ends the loop, with its result.                                         *)
WaitForCopyOperation(w) ==
  /\ At(w, "wait") /\ wk[w].signals # <<>>
  /\ Finish(w, Outcome(Head(wk[w].signals)))
  /\ UNCHANGED <<storageVars, Others>>

List(w) ==
  /\ At(w, "list")
  /\ \E result \in {0, 1}, ids \in SUBSET Id :
       /\ GetFilesAndFolders2(wk[w].path, result, ids)
       /\ IF result = 0 THEN wk' = [wk EXCEPT ![w].pc = "entries", ![w].ids = ids] ELSE Finish(w, "fail")
  /\ UNCHANGED Others

(* MTPLister::run(): one child at a time, which may have gone meanwhile;   *)
(* the worker aborts the rest when it is killed.  The lister is a child of *)
(* the storage and dies with it.                                           *)
ListerRun(w) ==
  /\ At(w, "entries") /\ plugged /\ ~wk[w].lost
  /\ \/ \E i \in wk[w].ids :
          /\ wk' = [wk EXCEPT ![w].ids = @ \ {i}]
          /\ cache' = IF Exists(i) THEN AddPaths(cache, wk[w].path, {i}) ELSE cache
     \/ wk[w].ids # {} /\ wk' = [wk EXCEPT ![w].ids = {}] /\ UNCHANGED cache
     \/ wk[w].ids = {} /\ Finish(w, "pass") /\ UNCHANGED cache
  /\ UNCHANGED <<object, used, copies, plugged, Others>>

(* The daemon's event loop carries out the oldest posted copy and emits    *)
(* copyFinished to everyone who listens.  A copy to a local file writes to *)
(* the descriptor it was given, though its worker may be gone.             *)
InJob(w) == ~At(w, "idle")
RunCopy ==
  /\ plugged /\ copies # <<>>
  /\ LET c == Head(copies) IN
     \E result \in {0, 1} :
       /\ copies' = Tail(copies)
       /\ \/ /\ c.from = NoItem /\ result = 0 /\ (c.to = Root \/ IsFolder(c.to))
             /\ Create(c.name, c.to, FALSE) /\ UNCHANGED local
          \/ /\ c.from # NoItem /\ (result = 0 => Exists(c.from))
             /\ local' = IF c.fd = Absent THEN local ELSE [local EXCEPT ![c.fd] = IF result = 0 THEN "copied" ELSE "partial"]
             /\ UNCHANGED <<object, used>>
          \/ c.from = NoItem /\ result = 1 /\ UNCHANGED <<object, used, local>>
       /\ wk' = [w \in Worker |->
            IF ~InJob(w) THEN wk[w]
            ELSE [wk[w] EXCEPT !.signals = Append(@, result), !.done = @ \/ (wk[w].job = c.job /\ result = 0),
                               !.foreign = @ \/ wk[w].job # c.job]]
  /\ UNCHANGED <<cache, plugged, started>>

(* The device goes, with jobs under way, and may come back.                *)
Unplug ==
  /\ "unplug" \in Events /\ StorageDeleted
  /\ wk' = [w \in Worker |-> IF InJob(w) THEN [wk[w] EXCEPT !.lost = TRUE] ELSE wk[w]]
  /\ UNCHANGED Others
Replug == StorageAdded /\ UNCHANGED workerVars
CacheExpires == "expire" \in Events /\ plugged /\ Expire /\ UNCHANGED workerVars

(* A device with one folder, the first name, and one file in it.           *)
Init ==
  /\ \E a, b \in Name : a # b /\
       object = [i \in Id |-> CASE i = 1 -> [name |-> a, parent |-> Root, folder |-> TRUE]
                                [] i = 2 -> [name |-> b, parent |-> 1, folder |-> FALSE]
                                [] OTHER -> Absent]
  /\ used = 2 /\ cache = EmptyCache /\ copies = <<>> /\ plugged = TRUE
  /\ wk = [w \in Worker |-> Idle] /\ started = 0
  /\ \E there \in {Absent, "old"} : local = [w \in Worker |-> there]

Serve(w) == \/ CheckDestination(w) \/ Delete(w) \/ SetName(w) \/ Mkdir(w) \/ Send(w) \/ SourceUnreadable(w)
            \/ OpenLocal(w) \/ SourceMetadata(w) \/ Fetch(w) \/ WaitForCopyOperation(w) \/ List(w) \/ ListerRun(w)
Environment == Unplug \/ Replug \/ CacheExpires
Next == (\E w \in Worker : Start(w) \/ Serve(w)) \/ RunCopy \/ Environment

Spec == Init /\ [][Next]_vars

(***************************************************************************)
(* Properties                                                              *)
(***************************************************************************)
(* Every object and every cached id is one the device has given out, a job *)
(* that waits has a number of its own, and copies are of jobs begun.       *)
TypeOK ==
  /\ used \in 0 .. MaxId
  /\ \A i \in Id : Exists(i) => i <= used /\ object[i].parent \in {Root} \cup 1 .. used /\ object[i].name \in Name
  /\ \A p \in Path : cache[p] \in 0 .. used
  /\ \A k \in DOMAIN copies : copies[k].job \in 1 .. started
  /\ \A w \in Worker : wk[w].job \in 0 .. started /\ wk[w].signals \in Seq({0, 1})

(* "Get the correct file/folder from the device" (mtpstorage.h:55): what   *)
(* getFileFromPath() finds for a path is at that path, whatever the cache  *)
(* has kept of earlier listings, renames and deletions.                    *)
LookupRight ==
  plugged => \A p \in Path : LET file == GetFileFromPath(p).id IN file # NoItem => PathOf(file) = p

(* Nothing disappears from the device but what a job was asked to delete   *)
(* or allowed to overwrite, by its path: the file goes in an earlier call  *)
(* than the one that found it, and is found through the cache again.       *)
RemovesOnlyNamed ==
  [][\A i \in Id : Exists(i) /\ ~Exists(i)' =>
       \E w \in Worker : /\ At(w, "delete") /\ (wk[w].op = "del" \/ wk[w].overwrite)
                         /\ IsPrefix(Target(wk[w]), PathOf(i))]_vars

(* A transfer that passes was carried out by the device, unless the worker *)
(* was woken by the signal of somebody else's copy.                        *)
PassIsDone ==
  [][\A w \in Worker : At(w, "wait") /\ wk'[w].result = "pass" /\ ~wk[w].foreign => wk[w].done]_vars

(* "emits the copyFinished signal when everything is done"                 *)
(* (org.kde.kmtp.storage.xml:62): so a worker that has waited for it has   *)
(* its file.  The signal does not say whose copy it means.                 *)
FinishedMeansDone ==
  [][\A w \in Worker : At(w, "wait") /\ wk'[w].result = "pass" => wk[w].done]_vars

(* "any chance to 'miss' the copyFinished signal and dead lock the         *)
(* worker?" (kio_mtp.cpp:864): a worker in its loop has a copy posted or a *)
(* signal waiting, unless the device was unplugged under its job.          *)
NoSignalMissed ==
  \A w \in Worker : At(w, "wait") /\ ~wk[w].lost =>
    wk[w].signals # <<>> \/ \E k \in DOMAIN copies : copies[k].job = wk[w].job

(* The cache of a storage is what the device holds, and no signal a worker *)
(* waits for is lost on it.                                                *)
StorageRight == TypeOK /\ LookupRight /\ NoSignalMissed

=============================================================================
