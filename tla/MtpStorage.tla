---------------------------- MODULE MtpStorage ----------------------------
(***************************************************************************)
(* One storage of an MTP device as kmtpd serves it over D-Bus              *)
(* (src/mtp/kiod_module/mtpstorage.cpp): the objects on the device, the    *)
(* cache from paths to object ids, and the copies that the daemon has      *)
(* promised and not yet begun.                                             *)
(*                                                                         *)
(* The daemon has one thread, so a method is one step.  A copy is not part *)
(* of the method that asks for it: the method posts it with                *)
(* QTimer::singleShot(0) and returns, and the event loop runs it later.    *)
(* Methods are operators over the object table and the cache; the worker   *)
(* of MtpWorker calls them.  Paths have one or two components.             *)
(***************************************************************************)
EXTENDS Naturals, Sequences, SequencesExt, FiniteSets, FiniteSetsExt

CONSTANTS Name,      \* names of files and folders
          MaxId,     \* object ids are 1 .. MaxId; the device never reuses one
          Absent,    \* no such object
          RenamesFolders \* whether the device renames folders, too

(* There is room for a folder and an object in it; Absent is no object.   *)
ASSUME IdAssumption ==
  MaxId \in Nat /\ MaxId >= 2 /\ Absent \notin [name : Name, parent : 1 .. MaxId + 1, folder : BOOLEAN]

VARIABLES object,    \* the device's objects, by id
          used,      \* how many ids the device has given out
          cache,     \* m_cache: path -> id
          copies,    \* the posted copies, oldest first
          plugged    \* the device is connected and the daemon serves it

storageVars == <<object, used, cache, copies, plugged>>

Id == 1 .. MaxId
NoItem == 0                \* the itemId of an invalid KMTPFile
Root == MaxId + 1          \* LIBMTP_FILES_AND_FOLDERS_ROOT
Path == {<<n>> : n \in Name} \cup {<<m, n>> : m \in Name, n \in Name}
EmptyCache == [p \in Path |-> NoItem]

Exists(i) == i \in Id /\ object[i] # Absent
IsFolder(i) == Exists(i) /\ object[i].folder
Children(parent) == {i \in Id : Exists(i) /\ object[i].parent = parent}
Named(name, parent) == {i \in Children(parent) : object[i].name = name}

(* Where an object really is: the reference the cache is compared with.    *)
PathOf(i) == IF object[i].parent = Root THEN <<object[i].name>>
             ELSE <<object[object[i].parent].name, object[i].name>>

(* addPath() for the objects ids found in directory dir, in the order of   *)
(* their ids: the last of several with one name stays.                     *)
AddPaths(known, dir, ids) ==
  [p \in Path |->
     LET here == {i \in ids : Append(dir, object[i].name) = p}
     IN  IF here = {} THEN known[p] ELSE Max(here)]

(* findEntry(), one step of the tree walk: it goes through the children    *)
(* until it meets the name, and caches the ones it has seen.               *)
FindEntry(walk, name) ==
  LET hits == Named(name, walk.id)
      seen == {i \in Children(walk.id) : hits = {} \/ i <= Min(hits)}
  IN  IF walk.id = NoItem THEN walk
      ELSE [at    |-> Append(walk.at, name),
            id    |-> IF hits = {} THEN NoItem ELSE Min(hits),
            cache |-> AddPaths(walk.cache, walk.at, seen)]

TreeWalk(path, known) ==
  LET top == FindEntry([at |-> <<>>, id |-> Root, cache |-> known], Head(path))
  IN  IF Len(path) = 1 THEN top ELSE FindEntry(top, Last(path))

(* getFileFromPath(): the cached id if the device still has an object with *)
(* it, else the children of a cached parent, else a walk from the root.    *)
GetFileFromPathWith(path, m_cache) ==
  LET hit    == m_cache[path]
      parent == m_cache[Front(path)]
      known  == AddPaths(m_cache, Front(path), Children(parent))
      listed == Named(Last(path), parent)
  IN  IF hit # NoItem
      THEN IF Exists(hit) THEN [id |-> hit, cache |-> m_cache] ELSE TreeWalk(path, m_cache)
      ELSE IF Len(path) > 1 /\ Exists(parent)
      THEN IF listed # {} THEN [id |-> Min(listed), cache |-> known] ELSE TreeWalk(path, known)
      ELSE TreeWalk(path, m_cache)

GetFileFromPath(path) == GetFileFromPathWith(path, cache)

(* queryPath() without a time to live: the entry's minute may have passed. *)
Expire == /\ \E p \in Path : cache[p] # NoItem /\ cache' = [cache EXCEPT ![p] = NoItem]
          /\ UNCHANGED <<object, used, copies, plugged>>

(* What every method does when the daemon no longer serves the storage:    *)
(* nothing, and the D-Bus error becomes a default value in the proxy.      *)
NoReply == ~plugged /\ UNCHANGED storageVars

GetFileMetadata(path, file) ==
  \/ /\ plugged
     /\ LET found == GetFileFromPath(path)
        IN  file = found.id /\ cache' = found.cache
     /\ UNCHANGED <<object, used, copies, plugged>>
  \/ file = NoItem /\ NoReply

(* getFilesAndFolders2(): the children of the root or of a folder; what   *)
(* its lister finds of them later is cached entry by entry (MTPLister).    *)
GetFilesAndFolders2(dir, result, ids) ==
  \/ /\ plugged
     /\ LET found == IF dir = <<>> THEN [id |-> Root, cache |-> cache] ELSE GetFileFromPath(dir)
            ok    == dir = <<>> \/ IsFolder(found.id)
        IN  /\ result = IF ok THEN 0 ELSE 1
            /\ ids = IF ok THEN Children(found.id) ELSE {}
            /\ cache' = found.cache
     /\ UNCHANGED <<object, used, copies, plugged>>
  \/ result = 1 /\ ids = {} /\ NoReply

(* Mutant: a path that is not found is an empty copy. *)
GetFileResultAlwaysOk(id) == 0

GetFileResult(id) == IF id = NoItem THEN 1 ELSE 0

(* getFileToHandler(), getFileToFileDescriptor(): posts the copy of an id. *)
GetFile(path, job, fd, result) ==
  \/ /\ plugged
     /\ LET found == GetFileFromPath(path)
        IN  /\ cache' = found.cache
            /\ result = GetFileResult(found.id)
            /\ copies' = IF found.id = NoItem THEN copies
                         ELSE Append(copies, [from |-> found.id, to |-> NoItem, name |-> Last(path), fd |-> fd, job |-> job])
     /\ UNCHANGED <<object, used, plugged>>
  \/ result = 0 /\ NoReply

(* sendFileFromFileDescriptor(): posts the sending into the parent's id.   *)
SendFile(path, job, result) ==
  \/ /\ plugged
     /\ LET found == IF Len(path) = 1 THEN [id |-> Root, cache |-> cache]
                     ELSE GetFileFromPath(Front(path))
            ok    == Len(path) = 1 \/ IsFolder(found.id)
        IN  /\ cache' = found.cache
            /\ result = IF ok THEN 0 ELSE 2
            /\ copies' = IF ok THEN Append(copies, [from |-> NoItem, to |-> found.id, name |-> Last(path), fd |-> Absent, job |-> job])
                         ELSE copies
     /\ UNCHANGED <<object, used, plugged>>
  \/ result = 0 /\ NoReply

(* The device takes a new object, unless it has no room for it.            *)
Create(name, parent, folder) ==
  /\ used < MaxId
  /\ used' = used + 1
  /\ object' = [object EXCEPT ![used + 1] = [name |-> name, parent |-> parent, folder |-> folder]]

(* deleteObject(): a folder goes with what is in it; the cache forgets the *)
(* path itself, not the paths below it.                                    *)
DeleteObject(path, result) ==
  \/ /\ plugged
     /\ LET found == GetFileFromPath(path)
            gone  == {found.id} \cup Children(found.id)
        IN  \/ /\ result = 0 /\ found.id # NoItem
               /\ object' = [i \in Id |-> IF i \in gone THEN Absent ELSE object[i]]
               /\ cache' = [found.cache EXCEPT ![path] = NoItem]
            \/ result = 1 /\ cache' = found.cache /\ UNCHANGED object
     /\ UNCHANGED <<used, copies, plugged>>
  \/ result = 0 /\ NoReply

(* Mutant: the old path is not forgotten. *)
CacheRenamedKeepsOld(known, path, newName, id) == [known EXCEPT ![Append(Front(path), newName)] = id]

CacheRenamed(known, path, newName, id) ==
  [known EXCEPT ![path] = NoItem, ![Append(Front(path), newName)] = id]

(* setFileName(): the cache forgets the old path and learns the new one;   *)
(* the paths below a renamed folder stay.                                  *)
SetFileName(path, newName, result) ==
  \/ /\ plugged
     /\ LET found == GetFileFromPath(path)
        IN  \/ /\ result = 0 /\ found.id # NoItem /\ (IsFolder(found.id) => RenamesFolders)
               /\ object' = [object EXCEPT ![found.id].name = newName]
               /\ cache' = CacheRenamed(found.cache, path, newName, found.id)
            \/ result = 1 /\ cache' = found.cache /\ UNCHANGED object
     /\ UNCHANGED <<used, copies, plugged>>
  \/ result = 0 /\ NoReply

(* createFolder(): the new id, -1 or -2 for what is there already, or 0.   *)
CreateFolder(path, result) ==
  \/ /\ plugged
     /\ LET found  == GetFileFromPath(path)
            parent == IF Len(path) = 1 THEN [id |-> Root, cache |-> found.cache]
                      ELSE GetFileFromPathWith(Front(path), found.cache)
            ok     == Len(path) = 1 \/ IsFolder(parent.id)
        IN  \/ /\ found.id # NoItem
               /\ result = "exists" /\ cache' = found.cache /\ UNCHANGED <<object, used>>
            \/ /\ found.id = NoItem /\ ok
               /\ Create(Last(path), parent.id, TRUE)
               /\ result = "created" /\ cache' = [parent.cache EXCEPT ![path] = used + 1]
            \/ /\ found.id = NoItem
               /\ result = "failed" /\ cache' = parent.cache /\ UNCHANGED <<object, used>>
     /\ UNCHANGED <<copies, plugged>>
  \/ result = "failed" /\ NoReply

(* deviceRemoved() deletes the device, its storages and with them the      *)
(* copies they have posted; a device that comes back has a new storage.    *)
StorageDeleted == plugged /\ plugged' = FALSE /\ copies' = <<>> /\ cache' = EmptyCache /\ UNCHANGED <<object, used>>
StorageAdded == ~plugged /\ plugged' = TRUE /\ UNCHANGED <<object, used, cache, copies>>

=============================================================================
