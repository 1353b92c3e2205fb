---------------------------- MODULE SmbNamespace ----------------------------
(***************************************************************************)
(* SMBWorker::rename, del and mkdir on a share whose server compares names *)
(* with or without regard to case.  rename() must notice that a            *)
(* destination that "exists" is the source itself under a name of other    *)
(* case, which it finds out by comparing inode and device numbers.         *)
(*                                                                         *)
(* An entry is a record of its kind and its inode number; servers may      *)
(* report every inode as BadInode.  The application's requests come one    *)
(* after the other; each request to the server is a step.                  *)
(***************************************************************************)
EXTENDS Integers, FiniteSets

CONSTANTS
  EntryName,            \* the names in one directory
  Folded,          \* function: the name with its case removed
  CaseSensitive,   \* the server compares names exactly
  GoodInodes,      \* the server reports real inode numbers
  Inode,           \* inode numbers that may be in use
  NoEntry

ASSUME FoldedAssumption == DOMAIN Folded = EntryName
ASSUME ServerAssumption == CaseSensitive \in BOOLEAN /\ GoodInodes \in BOOLEAN
(* ino_t is unsigned; the bad inode is what is no inode number here.       *)
ASSUME InodeAssumption == Inode \subseteq Nat
ASSUME NoEntryAssumption == NoEntry \notin [kind : {"file", "dir"}, ino : Inode \cup {-1}]

VARIABLES
  tree,            \* what each name the server tells apart stands for
  namesPc,              \* "idle" or the next request of a running rename()
  renameSrc, renameDst,        \* its arguments
  overwrite,       \* KIO::Overwrite
  srcStat,         \* srcStat if hasSrcStat, else NoEntry
  dstUnseen,       \* the stat of an existing destination has failed (history)
  namesResult           \* of the last operation

namesVars == <<tree, namesPc, renameSrc, renameDst, overwrite, srcStat, dstUnseen, namesResult>>

Entry == [kind : {"file", "dir"}, ino : Inode]
BadInode == -1

(* The server's view of a name. *)
Key(n) == IF CaseSensitive THEN n ELSE Folded[n]
Keys   == {Key(n) : n \in EntryName}
InUse  == {tree[k].ino : k \in {l \in Keys : tree[l] # NoEntry}}

(* cache_stat(): the entry as the server reports it, or NoEntry. *)
cache_stat(n) ==
  IF tree[Key(n)] = NoEntry THEN NoEntry
  ELSE [kind |-> tree[Key(n)].kind, ino |-> IF GoodInodes THEN tree[Key(n)].ino ELSE BadInode]

(* Whatever error the server gives, the code takes the name for a free one.*)
Stat(n) == {cache_stat(n), NoEntry}

sameInodeStat(s, d) ==
  /\ s # NoEntry
  /\ s.ino # BadInode /\ d.ino # BadInode
  /\ s.ino = d.ino

NamesInit ==
  /\ tree \in [Keys -> Entry \union {NoEntry}]
  /\ \A k, l \in Keys : (tree[k] # NoEntry /\ tree[l] # NoEntry /\ k # l) => tree[k].ino # tree[l].ino
  /\ namesPc = "idle"
  /\ renameSrc \in EntryName /\ renameDst = renameSrc
  /\ overwrite = FALSE
  /\ srcStat = NoEntry /\ dstUnseen = FALSE
  /\ namesResult = "pass"

-----------------------------------------------------------------------------
NamesFinish(r) ==
  /\ namesPc' = "idle"
  /\ namesResult' = r

Rename(s, d, ov) ==
  /\ namesPc = "idle"
  /\ renameSrc' = s /\ renameDst' = d /\ overwrite' = ov
  /\ srcStat' = NoEntry /\ dstUnseen' = FALSE
  /\ namesPc' = IF Folded[s] = Folded[d] THEN "statSrc" ELSE "statDst"
  /\ UNCHANGED <<tree, namesResult>>

(* The stat meant to be that of the source is made of the destination. *)
RenameStatSrc ==
  /\ namesPc = "statSrc"
  /\ srcStat' \in Stat(renameDst)
  /\ namesPc' = "statDst"
  /\ UNCHANGED <<tree, renameSrc, renameDst, overwrite, dstUnseen, namesResult>>

(* Mutant: KIO::Overwrite is not asked for. *)
RenameStatDstUnchecked ==
  /\ namesPc = "statDst"
  /\ \E st \in Stat(renameDst) :
       /\ IF st # NoEntry /\ ~sameInodeStat(srcStat, st) /\ st.kind = "dir"
            THEN NamesFinish("ERR_DIR_ALREADY_EXIST")
            ELSE namesPc' = "rename" /\ UNCHANGED namesResult
       /\ dstUnseen' = (st # cache_stat(renameDst))
  /\ UNCHANGED <<tree, renameSrc, renameDst, overwrite, srcStat>>

RenameStatDst ==
  /\ namesPc = "statDst"
  /\ \E st \in Stat(renameDst) :
       LET other == st # NoEntry /\ ~sameInodeStat(srcStat, st) IN
       /\ CASE other /\ st.kind = "dir" -> NamesFinish("ERR_DIR_ALREADY_EXIST")
            [] other /\ st.kind # "dir" /\ ~overwrite -> NamesFinish("ERR_FILE_ALREADY_EXIST")
            [] OTHER -> namesPc' = "rename" /\ UNCHANGED namesResult
       /\ dstUnseen' = (st # cache_stat(renameDst))
  /\ UNCHANGED <<tree, renameSrc, renameDst, overwrite, srcStat>>

(* smbc_rename(): the server refuses to replace a directory, and to move a *)
(* directory over a file.                                                  *)
ServerRenames ==
  LET s == Key(renameSrc)  d == Key(renameDst) IN
    /\ tree[s] # NoEntry
    /\ (s # d /\ tree[d] # NoEntry) => (tree[d].kind = "file" /\ tree[s].kind = "file")
    /\ tree' = [tree EXCEPT ![s] = NoEntry, ![d] = tree[s]]

RenameDone ==
  /\ namesPc = "rename"
  /\ ServerRenames
  /\ NamesFinish("pass")
  /\ UNCHANGED <<renameSrc, renameDst, overwrite, srcStat, dstUnseen>>

(* A failed rename is explained by another stat of the source, if that can *)
(* be had.                                                                 *)
RenameFailed ==
  /\ namesPc = "rename"
  /\ \E e \in {"ERR_ACCESS_DENIED", "ERR_CANNOT_RENAME", "ERR_DOES_NOT_EXIST"} : NamesFinish(e)
  /\ UNCHANGED <<tree, renameSrc, renameDst, overwrite, srcStat, dstUnseen>>

-----------------------------------------------------------------------------
(* del(): smbc_unlink() or smbc_rmdir(), as the application says. *)
Del(n, isfile) ==
  /\ namesPc = "idle"
  /\ \/ /\ tree[Key(n)] # NoEntry
        /\ isfile <=> tree[Key(n)].kind = "file"
        /\ tree' = [tree EXCEPT ![Key(n)] = NoEntry]
        /\ NamesFinish("pass")
     \/ /\ NamesFinish("reportError")
        /\ UNCHANGED tree
  /\ UNCHANGED <<renameSrc, renameDst, overwrite, srcStat, dstUnseen>>

Mkdir(n) ==
  /\ namesPc = "idle"
  /\ \/ /\ tree[Key(n)] = NoEntry
        /\ \E i \in Inode \ InUse : tree' = [tree EXCEPT ![Key(n)] = [kind |-> "dir", ino |-> i]]
        /\ NamesFinish("pass")
     \/ /\ tree[Key(n)] # NoEntry
        /\ \E st \in Stat(n) :
             NamesFinish(IF st # NoEntry /\ st.kind = "dir" THEN "ERR_DIR_ALREADY_EXIST" ELSE "ERR_FILE_ALREADY_EXIST")
        /\ UNCHANGED tree
     \/ /\ NamesFinish("reportError")
        /\ UNCHANGED tree
  /\ UNCHANGED <<renameSrc, renameDst, overwrite, srcStat, dstUnseen>>

NamesNext ==
  \/ \E s, d \in EntryName, ov \in BOOLEAN : Rename(s, d, ov)
  \/ RenameStatSrc \/ RenameStatDst \/ RenameDone \/ RenameFailed
  \/ \E n \in EntryName, isfile \in BOOLEAN : Del(n, isfile)
  \/ \E n \in EntryName : Mkdir(n)

NamesSpec == NamesInit /\ [][NamesNext]_namesVars

-----------------------------------------------------------------------------
NamesTypeOK ==
  /\ tree \in [Keys -> Entry \union {NoEntry}]
  /\ namesPc \in {"idle", "statSrc", "statDst", "rename"}
  /\ renameSrc \in EntryName /\ renameDst \in EntryName /\ overwrite \in BOOLEAN /\ dstUnseen \in BOOLEAN
  /\ srcStat \in [kind : {"file", "dir"}, ino : Inode \union {BadInode}] \union {NoEntry}
  /\ namesResult \in {"pass", "reportError", "ERR_DIR_ALREADY_EXIST", "ERR_FILE_ALREADY_EXIST",
                 "ERR_ACCESS_DENIED", "ERR_CANNOT_RENAME", "ERR_DOES_NOT_EXIST"}

(* What a rename costs is at most the file its new name stood for: every   *)
(* other file and every directory is there afterwards; and that file only  *)
(* with KIO::Overwrite, or when the server could not be asked about it.    *)
RenameDestroysNothing ==
  [][namesPc = "rename" =>
       \A k \in Keys : tree[k] # NoEntry /\ tree[k].ino \notin InUse' =>
         k = Key(renameDst) /\ tree[k].kind = "file" /\ (overwrite \/ dstUnseen)]_namesVars

(* On a server that ignores case and reports inodes, a file can be given a *)
(* name that differs in case only: its own old name is no obstacle, unless *)
(* the first stat has failed and only the second finds it.                 *)
CaseRenameAllowed ==
  [][(/\ ~CaseSensitive /\ GoodInodes /\ Key(renameSrc) = Key(renameDst) /\ namesPc = "statDst"
      /\ srcStat = NoEntry => tree[Key(renameDst)] = NoEntry) => namesPc' = "rename"]_namesVars

(* Renaming: no third name is lost, and changing the case of a name is let *)
(* through on a server that ignores case.                                  *)
RenamesRight == RenameDestroysNothing /\ CaseRenameAllowed
=============================================================================
