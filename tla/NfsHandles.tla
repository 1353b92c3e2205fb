----------------------------- MODULE NfsHandles -----------------------------
(***************************************************************************)
(* The NFS worker's view of the server (src/nfs/kio_nfs.cpp, nfsv3.cpp):   *)
(* the exported directories, the cache from paths to file handles, and the *)
(* operations on names.  How files are written is the subject of NfsCopy.  *)
(*                                                                         *)
(* The worker has one thread and waits for every call, so an operation is  *)
(* one step, in which the server may stop answering (up = FALSE) before    *)
(* any of its calls.  Other clients come between two operations.  A link   *)
(* names a sibling, or something outside of the exports.                   *)
(***************************************************************************)
EXTENDS Naturals, Sequences, SequencesExt, FiniteSets

CONSTANTS
  DirName,     \* names of directories
  FileName,    \* names of files and links: no link leads to a directory
  MaxId,       \* the server gives out file handles 1 .. MaxId, each once
  ExportLists, \* what the server may export: sequences of paths
  Absent,      \* no such object
  Outside,     \* the target of a link that leaves the exports
  Cases,       \* subset of {"renameFolder", "lookupFails"}
  MaxOps       \* bound: operations in a behaviour

Name == DirName \cup FileName
Id == 1 .. MaxId
DirPath == {<<d>> : d \in DirName} \cup {<<d, e>> : d \in DirName, e \in DirName}
FilePath == {Append(d, f) : d \in DirPath, f \in FileName}
Path == DirPath \cup FilePath

ASSUME NameAssumption == DirName \cap FileName = {}
ASSUME ExportAssumption ==
  MaxId \in Nat /\ \A list \in ExportLists : list \in Seq(DirPath) /\ Len(list) \in 1 .. MaxId - 1
ASSUME ObjectAssumption ==
  Absent \notin [name : Path \cup Name, parent : 0 .. MaxId, type : {"dir", "file", "link"}, target : FileName \cup {Outside}]

VARIABLES
  exports,       \* the server's export list
  object,        \* the server's objects: handle -> object
  used,          \* how many handles the server has given out
  m_exportedDirs,\* the exported paths
  m_handleCache, \* path -> handle
  m_nfsClient,   \* connected
  named,         \* the path of which the last step has removed what is there
  ops            \* operations so far

serverVars == <<exports, object, used>>
handleVars == <<serverVars, m_exportedDirs, m_handleCache, m_nfsClient, named, ops>>

SameKind(p, q) == (p \in FilePath) = (q \in FilePath)
NoHandle == [id |-> 0, link |-> 0]        \* isInvalid(); link is the link's own handle
BadLink(id) == [id |-> id, link |-> MaxId + 1]

Live(id) == id \in Id /\ object[id] # Absent
Children(dir) == {i \in Id : Live(i) /\ object[i].parent = dir}
ChildOf(dir, name) ==
  LET hits == {i \in Children(dir) : object[i].name = name}
  IN  IF Live(dir) /\ hits # {} THEN CHOOSE i \in hits : TRUE ELSE 0
(* A directory is the root of an export or in one.                         *)
DirPathOf(id) == IF object[id].parent = 0 THEN object[id].name
                 ELSE Append(object[object[id].parent].name, object[id].name)
PathOf(id) == IF object[id].parent = 0 THEN object[id].name ELSE Append(DirPathOf(object[id].parent), object[id].name)

(* isExportedDir(): a proper prefix of an export, or the root.             *)
(* isValidPath(): an export or below one.                                  *)
IsExportedIn(dirs, path) == path = <<>> \/ \E e \in dirs : IsStrictPrefix(path, e)
IsExportedDir(path) == IsExportedIn(m_exportedDirs, path)
IsValidPath(path) == path = <<>> \/ \E e \in m_exportedDirs : IsPrefix(e, path)

(* What lookupFileHandle() makes of an object it has found in dir: a link  *)
(* is followed at once, and is bad if that leads nowhere.                  *)
HandleOf(id, dir) ==
  IF object[id].type # "link" THEN [id |-> id, link |-> 0]
  ELSE LET to == IF object[id].target = Outside THEN 0 ELSE ChildOf(dir, object[id].target)
       IN  IF to = 0 THEN BadLink(id) ELSE [id |-> to, link |-> id]

(* getFileHandle(): the cache, else a LOOKUP in the parent, whose handle   *)
(* was got before.  Whatever keeps it from finding the file, the file does *)
(* not exist.                                                              *)
HandleBelow(parent, path, cache, up) ==
  LET child == ChildOf(parent.fh.id, Last(path))
      found == HandleOf(child, parent.fh.id)
  IN  IF ~m_nfsClient \/ ~IsValidPath(path) THEN [fh |-> NoHandle, cache |-> cache]
      ELSE IF cache[path] # NoHandle THEN [fh |-> cache[path], cache |-> cache]
      ELSE IF path \in m_exportedDirs THEN [fh |-> NoHandle, cache |-> cache]
      ELSE IF ~up \/ parent.fh = NoHandle \/ child = 0 THEN [fh |-> NoHandle, cache |-> parent.cache]
      ELSE [fh |-> found, cache |-> [parent.cache EXCEPT ![path] = found]]
GetFileHandleIn(path, cache, up) ==
  LET top == HandleBelow([fh |-> NoHandle, cache |-> cache], SubSeq(path, 1, 1), cache, up)
      middle == HandleBelow(top, SubSeq(path, 1, 2), cache, up)
  IN  CASE Len(path) = 0 -> [fh |-> NoHandle, cache |-> cache]
        [] Len(path) = 1 -> top
        [] Len(path) = 2 -> middle
        [] Len(path) = 3 -> HandleBelow(middle, path, cache, up)
GetFileHandle(path, up) == GetFileHandleIn(path, m_handleCache, up)

Removes(path) == named' = path
RemovesNothing == named' = <<>>
Parent(path) == Front(path)
Idle == UNCHANGED <<serverVars, m_exportedDirs, m_nfsClient>>
Refuse == RemovesNothing /\ UNCHANGED <<serverVars, m_exportedDirs, m_handleCache, m_nfsClient>>

(* Mutant: an export that cannot be mounted again loses its handle.        *)
ForgetUnmounted(path) == NoHandle
KeepUnmounted(path) == m_handleCache[path]

(* openConnection(): mounts every export.  One whose mount fails is listed *)
(* without a handle; one that is a prefix of one listed before is skipped. *)
(* What is known from earlier connections is kept.                         *)
OpenConnection ==
  /\ ~m_nfsClient
  /\ \E mounted \in SUBSET DOMAIN exports :
       LET before(k) == m_exportedDirs \cup {exports[j] : j \in 1 .. k - 1}
           listed == {k \in DOMAIN exports : ~IsExportedIn(before(k), exports[k])}
           here(p) == {k \in listed : exports[k] = p}
       IN  /\ m_exportedDirs' = m_exportedDirs \cup {exports[k] : k \in listed}
           /\ m_handleCache' = [p \in Path |->
                IF here(p) \cap mounted # {} THEN [id |-> CHOOSE k \in here(p) \cap mounted : TRUE, link |-> 0]
                ELSE IF here(p) # {} THEN KeepUnmounted(p) ELSE m_handleCache[p]]
           /\ RemovesNothing
  /\ m_nfsClient' = TRUE
  /\ UNCHANGED serverVars

(* closeConnection() keeps exports and handles.                            *)
CloseConnection ==
  /\ m_nfsClient /\ m_nfsClient' = FALSE
  /\ RemovesNothing
  /\ UNCHANGED <<serverVars, m_exportedDirs, m_handleCache>>

(* get(), stat(), chmod(), and the first step of many others: they find    *)
(* the handle and call the server with it, who may know it no more.        *)
FindsHandle(path) == \E up \in BOOLEAN : m_handleCache' = GetFileHandle(path, up).cache
Use(path) == m_nfsClient /\ FindsHandle(path) /\ RemovesNothing /\ Idle

(* The handles that READDIRPLUS, or READDIR and a LOOKUP for every name,   *)
(* gives of the children of a directory.  A link is looked up, but given   *)
(* none: symLinkTarget() fails for every link that can be found.           *)
ListedHandles(path, found) ==
  LET at(p) == {i \in Children(found.fh.id) : Append(path, object[i].name) = p}
      link(p) == \E i \in at(p) : object[i].type = "link"
  IN  [p \in Path |-> IF at(p) = {} THEN found.cache[p]
                      ELSE IF link(p) THEN GetFileHandleIn(p, found.cache, TRUE).fh
                      ELSE [id |-> CHOOSE i \in at(p) : TRUE, link |-> 0]]

(* listDir(): the virtual directories above the exports are listed without *)
(* the server.                                                             *)
ListDir(path) ==
  /\ m_nfsClient /\ ~IsExportedDir(path)
  /\ \E up \in BOOLEAN :
       LET found == GetFileHandle(path, up)
           listed == up /\ Live(found.fh.id) /\ object[found.fh.id].type = "dir"
       IN  m_handleCache' = IF listed THEN ListedHandles(path, found) ELSE found.cache
  /\ RemovesNothing /\ Idle

Add(name, dir, type, target) ==
  /\ used < MaxId /\ used' = used + 1
  /\ object' = [object EXCEPT ![used + 1] = [name |-> name, parent |-> dir, type |-> type, target |-> target]]

(* mkdir(), and create() for put(): neither caches the new handle.         *)
Make(path, type) ==
  /\ m_nfsClient /\ Len(path) > 1
  /\ IF IsExportedDir(Parent(path)) THEN Refuse
     ELSE \E up \in BOOLEAN :
       LET dir == GetFileHandle(Parent(path), up)
       IN  /\ m_handleCache' = dir.cache
           /\ \/ /\ up /\ Live(dir.fh.id) /\ object[dir.fh.id].type = "dir" /\ ChildOf(dir.fh.id, Last(path)) = 0
                 /\ Add(Last(path), dir.fh.id, type, Outside) /\ RemovesNothing
              \/ RemovesNothing /\ UNCHANGED <<object, used>>
           /\ UNCHANGED <<exports, m_exportedDirs, m_nfsClient>>

(* Mutant: what the cached handle leads to.                                *)
FoundByHandle(path, dir) == dir.cache[path].id
FoundByName(path, dir) == ChildOf(dir.fh.id, Last(path))

(* remove(): a LOOKUP says which call it takes; a directory has to be      *)
(* empty.  The cache forgets the path.                                     *)
Removable(id) == Live(id) /\ Children(id) = {}
Del(path) ==
  /\ m_nfsClient /\ Len(path) > 1
  /\ IF IsExportedDir(Parent(path)) THEN Refuse
     ELSE \E up \in BOOLEAN :
       LET dir == GetFileHandle(Parent(path), up)
           id == FoundByName(path, dir)
       IN  /\ \/ /\ up /\ Removable(id)
                 /\ object' = [object EXCEPT ![id] = Absent]
                 /\ m_handleCache' = [dir.cache EXCEPT ![path] = NoHandle] /\ Removes(path)
              \/ m_handleCache' = dir.cache /\ RemovesNothing /\ UNCHANGED object
           /\ UNCHANGED <<exports, used, m_exportedDirs, m_nfsClient>>

(* Mutant: the handle of the source stays.                                 *)
RenamedKeepingSource(cache, src, dest, id) == [cache EXCEPT ![dest] = [id |-> id, link |-> 0]]
RenamedInCache(cache, src, dest, id) == [cache EXCEPT ![src] = NoHandle, ![dest] = [id |-> id, link |-> 0]]

(* rename(): the destination is looked up before, for KIO::Overwrite, and  *)
(* after, for its new handle.  The cache forgets the source only if the    *)
(* second lookup succeeds, and never what is below it.                     *)
Rename(src, dest, overwrite) ==
  /\ m_nfsClient /\ Len(src) > 1 /\ Len(dest) > 1 /\ src # dest
  /\ IF IsExportedDir(src) \/ IsExportedDir(dest) \/ IsExportedDir(Parent(src)) \/ IsExportedDir(Parent(dest))
     THEN Refuse
     ELSE \E up \in BOOLEAN :
       LET there == GetFileHandle(dest, up)
           from == GetFileHandleIn(Parent(src), there.cache, up)
           to   == GetFileHandleIn(Parent(dest), from.cache, up)
           id   == ChildOf(from.fh.id, Last(src))
           hit  == ChildOf(to.fh.id, Last(dest))
           ok   == up /\ (there.fh = NoHandle \/ overwrite) /\ id # 0 /\ Live(to.fh.id) /\ object[to.fh.id].type = "dir"
       IN  /\ \/ /\ ok /\ (object[id].type = "dir" => "renameFolder" \in Cases /\ hit = 0 /\ ~IsPrefix(PathOf(id), PathOf(to.fh.id)))
                 /\ hit # 0 => object[hit].type # "dir" /\ hit # id
                 /\ object' = [i \in Id |-> IF i = hit THEN Absent
                                            ELSE IF i = id THEN [object[i] EXCEPT !.name = Last(dest), !.parent = to.fh.id]
                                            ELSE object[i]]
                 /\ \/ m_handleCache' = RenamedInCache(to.cache, src, dest, id)
                    \/ "lookupFails" \in Cases /\ m_handleCache' = to.cache
                 /\ Removes(dest)
              \/ m_handleCache' = to.cache /\ RemovesNothing /\ UNCHANGED object
           /\ UNCHANGED <<exports, used, m_exportedDirs, m_nfsClient>>

(* symlink(): removes what is there, creates the link and looks it up.     *)
Symlink(target, path, overwrite) ==
  /\ m_nfsClient /\ Len(path) > 1
  /\ IF IsExportedDir(Parent(path)) THEN Refuse
     ELSE \E up \in BOOLEAN :
       LET there == GetFileHandle(path, up)
           dir == GetFileHandleIn(Parent(path), there.cache, up)
           hit == ChildOf(dir.fh.id, Last(path))
           cleared == [dir.cache EXCEPT ![path] = NoHandle]
       IN  \/ /\ up /\ there.fh # NoHandle => overwrite
              /\ up /\ Live(dir.fh.id) /\ object[dir.fh.id].type = "dir" /\ (hit = 0 \/ Removable(hit))
              /\ used < MaxId /\ used' = used + 1
              /\ object' = [i \in Id |-> IF i = used + 1 THEN [name |-> Last(path), parent |-> dir.fh.id, type |-> "link", target |-> target]
                                         ELSE IF i = hit THEN Absent ELSE object[i]]
              /\ m_handleCache' =
                   LET to == IF target = Outside \/ target = Last(path) THEN 0 ELSE ChildOf(dir.fh.id, target)
                   IN  [cleared EXCEPT ![path] = IF to = 0 THEN BadLink(used + 1) ELSE [id |-> to, link |-> used + 1]]
              /\ Removes(path)
              /\ UNCHANGED <<exports, m_exportedDirs, m_nfsClient>>
           \/ /\ m_handleCache' = dir.cache /\ RemovesNothing /\ Idle
           \/ /\ up /\ (there.fh # NoHandle => overwrite) /\ Removable(hit)
              /\ object' = [object EXCEPT ![hit] = Absent] /\ m_handleCache' = cleared
              /\ Removes(path)
              /\ UNCHANGED <<exports, used, m_exportedDirs, m_nfsClient>>

(* Other clients create and remove files.                                  *)
OtherCreates ==
  /\ \E dir \in Id, name \in FileName :
       /\ Live(dir) /\ object[dir].type = "dir" /\ ChildOf(dir, name) = 0 /\ Len(PathOf(dir)) < 3
       /\ Add(name, dir, "file", Outside) /\ RemovesNothing
  /\ UNCHANGED <<exports, m_exportedDirs, m_handleCache, m_nfsClient>>
OtherRemoves ==
  /\ \E id \in Id :
       /\ Removable(id) /\ object[id].parent # 0 /\ object' = [object EXCEPT ![id] = Absent]
       /\ Removes(PathOf(id))
  /\ UNCHANGED <<exports, used, m_exportedDirs, m_handleCache, m_nfsClient>>

(* The exports' roots, and a file in the first of them.                    *)
HandlesInit ==
  /\ exports \in ExportLists /\ used = Len(exports) + 1
  /\ \E f \in FileName :
       object = [i \in Id |->
         IF i <= Len(exports) THEN [name |-> exports[i], parent |-> 0, type |-> "dir", target |-> Outside]
         ELSE IF i = used THEN [name |-> f, parent |-> 1, type |-> "file", target |-> Outside]
         ELSE Absent]
  /\ m_exportedDirs = {} /\ m_handleCache = [p \in Path |-> NoHandle] /\ m_nfsClient = FALSE
  /\ named = <<>> /\ ops = 0

(* The paths that somebody has seen.                                       *)
Known == {PathOf(i) : i \in {k \in Id : Live(k)}} \cup {p \in Path : m_handleCache[p] # NoHandle}

HandlesNext ==
  /\ ops < MaxOps /\ ops' = ops + 1
  /\ \/ OpenConnection \/ CloseConnection \/ OtherCreates \/ OtherRemoves
     \/ \E path \in Known : Use(path) \/ ListDir(path) \/ Del(path)
     \/ \E path \in FilePath : Make(path, "file")
     \/ \E path \in DirPath : Make(path, "dir")
     \/ \E src \in Known, dest \in Path, overwrite \in BOOLEAN : SameKind(src, dest) /\ Rename(src, dest, overwrite)
     \/ \E target \in FileName \cup {Outside}, path \in FilePath, overwrite \in BOOLEAN : Symlink(target, path, overwrite)
HandlesSpec == HandlesInit /\ [][HandlesNext]_handleVars

(***************************************************************************)
(* Properties                                                              *)
(***************************************************************************)
(* A cached handle that the server still knows is the handle of the object *)
(* at that path, whatever was renamed, replaced and removed since it was   *)
(* cached: otherwise a job reads or writes another file.                   *)
Own(fh) == IF fh.link \in Id THEN fh.link ELSE fh.id
HandleRight == \A p \in Path : LET own == Own(m_handleCache[p]) IN Live(own) => PathOf(own) = p

(* "All exported directories should have already been stored in            *)
(* m_handleCache by the protocol's openConnection()" (kio_nfs.cpp:560): no *)
(* operation drops the handle of an export, which no LOOKUP could replace. *)
ExportsStay ==
  [][\A p \in m_exportedDirs : m_handleCache[p] # NoHandle => m_handleCache'[p] # NoHandle]_handleVars

(* What disappears from the server was named by its path, by this worker's *)
(* operation or by another client.                                         *)
RemovesOnlyNamed ==
  [][\A i \in Id : Live(i) /\ ~Live(i)' => named' = PathOf(i)]_handleVars

(* Names: exports do not go, and nothing is removed that was not named.    *)
NamesRight == ExportsStay /\ RemovesOnlyNamed
=============================================================================
