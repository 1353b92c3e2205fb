-------------------------------- MODULE NfsXdr --------------------------------
(***************************************************************************)
(* The messages of NFS and MOUNT as the stubs of src/nfs put them on the   *)
(* wire and take them off (rpc_nfs3_prot_xdr.c).  A stub is data here: the *)
(* stubs it calls, in their order.  The writer of a message walks through  *)
(* it and chooses the words, the reader walks through it and is led by the *)
(* words it finds.  Numbers and strings are a single word 7 where nothing  *)
(* depends on them; the length of a string or a handle is a word.          *)
(***************************************************************************)
EXTENDS Naturals, Sequences

CONSTANTS Message,   \* names of stubs: what is sent
          MaxItems,  \* a list is not continued once so much has been written
          XdrEvents  \* subset of {"cut", "otherVersion"}

VARIABLES writing, reading, \* the stubs still to be walked through
          sent, wire, got,  \* the fields written, what is under way, the fields read
          foreign, xdrState

xdrVars == <<writing, reading, sent, wire, got, foreign, xdrState>>

(* A choice of one stub for some words, and one with the arms of two.      *)
On(words, type) == [w \in words |-> type]
Both(f, g) == [x \in DOMAIN f \cup DOMAIN g |-> IF x \in DOMAIN f THEN f[x] ELSE g[x]]

Word == [k |-> "word"]
Hyper == [k |-> "struct", fields |-> <<"word", "word">>]
Struct(fields) == [k |-> "struct", fields |-> fields]
Bytes(max) == [k |-> "bytes", max |-> max]
Union(disc, arms, default) == [k |-> "union", disc |-> disc, arms |-> arms, default |-> default]
Pointer(type) == Union("bool", Both(On({1}, type), On({0}, "void")), "refuse")
Optional(type) == Pointer(type)
Result(ok, fail) == Union("nfsstat3", On({0}, ok), fail)
Unbounded == 100

----------------------------------------------------------------------------
(* The stubs                                                               *)

Scalars ==
  [word |-> Word, void |-> Struct(<<>>), bool |-> Word, uint64 |-> Hyper, int64 |-> Hyper, uint32 |-> Word, int32 |-> Word,
   filename3 |-> Bytes(Unbounded), nfspath3 |-> Bytes(Unbounded), fileid3 |-> Struct(<<"uint64">>),
   cookie3 |-> Struct(<<"uint64">>), cookieverf3 |-> Hyper, createverf3 |-> Hyper, writeverf3 |-> Hyper]
Aliases ==
  [uid3 |-> Word, gid3 |-> Word, size3 |-> Struct(<<"uint64">>), offset3 |-> Struct(<<"uint64">>), mode3 |-> Word,
   count3 |-> Word, nfsstat3 |-> Word, ftype3 |-> Word, specdata3 |-> Struct(<<"uint32", "uint32">>),
   nfs_fh3 |-> Bytes(64), nfstime3 |-> Struct(<<"uint32", "uint32">>)]
Attributes ==
  [fattr3 |-> Struct(<<"ftype3", "mode3", "uint32", "uid3", "gid3", "size3", "size3", "specdata3", "uint64", "fileid3",
                       "nfstime3", "nfstime3", "nfstime3">>),
   post_op_attr |-> Optional("fattr3"), wcc_attr |-> Struct(<<"size3", "nfstime3", "nfstime3">>),
   pre_op_attr |-> Optional("wcc_attr"), wcc_data |-> Struct(<<"pre_op_attr", "post_op_attr">>),
   post_op_fh3 |-> Optional("nfs_fh3")]
Settings ==
  [time_how |-> Word, set_mode3 |-> Union("bool", On({1}, "mode3"), "void"), set_uid3 |-> Union("bool", On({1}, "uid3"), "void"),
   set_gid3 |-> Union("bool", On({1}, "gid3"), "void"), set_size3 |-> Union("bool", On({1}, "size3"), "void"),
   set_atime |-> Union("time_how", On({2}, "nfstime3"), "void"), set_mtime |-> Union("time_how", On({2}, "nfstime3"), "void"),
   sattr3 |-> Struct(<<"set_mode3", "set_uid3", "set_gid3", "set_size3", "set_atime", "set_mtime">>),
   diropargs3 |-> Struct(<<"nfs_fh3", "filename3">>)]
Getattr ==
  [GETATTR3args |-> Struct(<<"nfs_fh3">>), GETATTR3res |-> Result("fattr3", "void"),
   sattrguard3 |-> Optional("nfstime3"), SETATTR3args |-> Struct(<<"nfs_fh3", "sattr3", "sattrguard3">>),
   SETATTR3res |-> Result("wcc_data", "wcc_data")]
Lookup ==
  [LOOKUP3args |-> Struct(<<"diropargs3">>), LOOKUP3resok |-> Struct(<<"nfs_fh3", "post_op_attr", "post_op_attr">>),
   LOOKUP3res |-> Result("LOOKUP3resok", "post_op_attr"),
   ACCESS3args |-> Struct(<<"nfs_fh3", "uint32">>), ACCESS3resok |-> Struct(<<"post_op_attr", "uint32">>),
   ACCESS3res |-> Result("ACCESS3resok", "post_op_attr")]
ReadStubs ==
  [READLINK3args |-> Struct(<<"nfs_fh3">>), READLINK3resok |-> Struct(<<"post_op_attr", "nfspath3">>),
   READLINK3res |-> Result("READLINK3resok", "post_op_attr"),
   READ3args |-> Struct(<<"nfs_fh3", "offset3", "count3">>), data |-> Bytes(Unbounded),
   READ3resok |-> Struct(<<"post_op_attr", "count3", "bool", "data">>), READ3res |-> Result("READ3resok", "post_op_attr")]
WriteStubs ==
  [stable_how |-> Word, WRITE3args |-> Struct(<<"nfs_fh3", "offset3", "count3", "stable_how", "data">>),
   WRITE3resok |-> Struct(<<"wcc_data", "count3", "stable_how", "writeverf3">>), WRITE3res |-> Result("WRITE3resok", "wcc_data")]
Create ==
  [createmode3 |-> Word, createhow3 |-> Union("createmode3", Both(On({0, 1}, "sattr3"), On({2}, "createverf3")), "refuse"),
   CREATE3args |-> Struct(<<"diropargs3", "createhow3">>),
   CREATE3resok |-> Struct(<<"post_op_fh3", "post_op_attr", "wcc_data">>), CREATE3res |-> Result("CREATE3resok", "wcc_data")]
MkdirStubs ==
  [MKDIR3args |-> Struct(<<"diropargs3", "sattr3">>), MKDIR3res |-> Result("CREATE3resok", "wcc_data"),
   symlinkdata3 |-> Struct(<<"sattr3", "nfspath3">>), SYMLINK3args |-> Struct(<<"diropargs3", "symlinkdata3">>),
   SYMLINK3res |-> Result("CREATE3resok", "wcc_data")]
Mknod ==
  [devicedata3 |-> Struct(<<"sattr3", "specdata3">>),
   mknoddata3 |-> Union("ftype3", Both(On({3, 4}, "devicedata3"), On({6, 7}, "sattr3")), "void"),
   MKNOD3args |-> Struct(<<"diropargs3", "mknoddata3">>), MKNOD3res |-> Result("CREATE3resok", "wcc_data")]
RemoveStubs ==
  [REMOVE3args |-> Struct(<<"diropargs3">>), REMOVE3res |-> Result("wcc_data", "wcc_data"),
   RMDIR3args |-> Struct(<<"diropargs3">>), RMDIR3res |-> Result("wcc_data", "wcc_data")]
RenameStubs ==
  [RENAME3args |-> Struct(<<"diropargs3", "diropargs3">>), bothWcc |-> Struct(<<"wcc_data", "wcc_data">>),
   RENAME3res |-> Result("bothWcc", "bothWcc"),
   LINK3args |-> Struct(<<"nfs_fh3", "diropargs3">>), linkWcc |-> Struct(<<"post_op_attr", "wcc_data">>),
   LINK3res |-> Result("linkWcc", "linkWcc")]
Readdir ==
  [READDIR3args |-> Struct(<<"nfs_fh3", "cookie3", "cookieverf3", "count3">>), entries |-> Pointer("entry3"),
   entry3 |-> Struct(<<"fileid3", "filename3", "cookie3", "entries">>), dirlist3 |-> Struct(<<"entries", "bool">>),
   READDIR3resok |-> Struct(<<"post_op_attr", "cookieverf3", "dirlist3">>), READDIR3res |-> Result("READDIR3resok", "post_op_attr")]
Readdirplus ==
  [READDIRPLUS3args |-> Struct(<<"nfs_fh3", "cookie3", "cookieverf3", "count3", "count3">>), plusEntries |-> Pointer("entryplus3"),
   entryplus3 |-> Struct(<<"fileid3", "filename3", "cookie3", "post_op_attr", "post_op_fh3", "plusEntries">>),
   dirlistplus3 |-> Struct(<<"plusEntries", "bool">>),
   READDIRPLUS3resok |-> Struct(<<"post_op_attr", "cookieverf3", "dirlistplus3">>),
   READDIRPLUS3res |-> Result("READDIRPLUS3resok", "post_op_attr")]
Fsinfo ==
  [FSSTAT3args |-> Struct(<<"nfs_fh3">>),
   FSSTAT3resok |-> Struct(<<"post_op_attr", "size3", "size3", "size3", "size3", "size3", "size3", "uint32">>),
   FSSTAT3res |-> Result("FSSTAT3resok", "post_op_attr"), FSINFO3args |-> Struct(<<"nfs_fh3">>),
   FSINFO3resok |-> Struct(<<"post_op_attr", "uint32", "uint32", "uint32", "uint32", "uint32", "uint32", "uint32", "size3",
                             "nfstime3", "uint32">>),
   FSINFO3res |-> Result("FSINFO3resok", "post_op_attr")]
(* The one stub that is written out for each direction.                    *)
(* Mutant: decoding takes the attributes last.                             *)
AttributesLast == <<"uint32", "uint32", "bool", "bool", "bool", "bool", "post_op_attr">>
DecodePathconf == <<"post_op_attr", "uint32", "uint32", "bool", "bool", "bool", "bool">>
EncodePathconf == <<"post_op_attr", "uint32", "uint32", "bool", "bool", "bool", "bool">>
Pathconf(fields) ==
  [PATHCONF3args |-> Struct(<<"nfs_fh3">>), PATHCONF3resok |-> Struct(fields),
   PATHCONF3res |-> Result("PATHCONF3resok", "post_op_attr")]
Commit ==
  [COMMIT3args |-> Struct(<<"nfs_fh3", "offset3", "count3">>), COMMIT3resok |-> Struct(<<"wcc_data", "writeverf3">>),
   COMMIT3res |-> Result("COMMIT3resok", "wcc_data")]
Mount ==
  [fhandle3 |-> Bytes(64), dirpath3 |-> Bytes(64), name3 |-> Bytes(64), mountstat3 |-> Word,
   mountres3_ok |-> Struct(<<"fhandle3", "data">>), mountres3 |-> Union("mountstat3", On({0}, "mountres3_ok"), "void"),
   mountlist3 |-> Pointer("mountbody3"), mountbody3 |-> Struct(<<"name3", "dirpath3", "mountlist3">>),
   groups3 |-> Pointer("groupnode3"), groupnode3 |-> Struct(<<"name3", "groups3">>),
   exports3 |-> Pointer("exportnode3"), exportnode3 |-> Struct(<<"dirpath3", "groups3", "exports3">>)]

Tables(pathconf) ==
  <<Scalars, Aliases, Attributes, Settings, Getattr, Lookup, ReadStubs, WriteStubs, Create, MkdirStubs, Mknod, RemoveStubs,
    RenameStubs, Readdir, Readdirplus, Fsinfo, Pathconf(pathconf), Commit, Mount>>
Stubs(pathconf) ==
  LET tables == Tables(pathconf)
  IN  [n \in UNION {DOMAIN tables[i] : i \in DOMAIN tables} |-> tables[CHOOSE i \in DOMAIN tables : n \in DOMAIN tables[i]][n]]
Encoder == Stubs(EncodePathconf)
Decoder == Stubs(DecodePathconf)
ASSUME MessageAssumption == Message \subseteq DOMAIN Encoder

----------------------------------------------------------------------------
(* Walking through a stub                                                  *)

XdrInit ==
  /\ \E m \in Message : writing = <<m>> /\ reading = <<m>>
  /\ sent = <<>> /\ wire = <<>> /\ got = <<>> /\ foreign = FALSE /\ xdrState = "writing"

Field(type, w) == <<type, w>>
WordChoices(disc) ==
  CASE disc \in {"bool", "nfsstat3", "mountstat3"} -> {0, 1} [] disc \in {"time_how", "createmode3"} -> 0 .. 2
    [] disc = "ftype3" -> 1 .. 7 [] OTHER -> {7}
IsList(desc) == desc.k = "union" /\ desc.disc = "bool" /\ Len(sent) > MaxItems
Arm(desc, w) == IF w \in DOMAIN desc.arms THEN desc.arms[w] ELSE desc.default

(* What follows a word of the stub on top, read or written.                *)
After(stack, desc, w) ==
  CASE desc.k = "struct" -> desc.fields \o Tail(stack)
    [] desc.k = "union" -> <<Arm(desc, w)>> \o Tail(stack)
    [] desc.k = "bytes" -> (IF w = 0 THEN <<>> ELSE <<"word">>) \o Tail(stack)
    [] OTHER -> Tail(stack)

Put(type, w) == sent' = Append(sent, Field(type, w)) /\ wire' = Append(wire, w)
Write ==
  /\ xdrState = "writing" /\ writing # <<>>
  /\ LET desc == Encoder[Head(writing)]
         type == IF desc.k = "union" THEN desc.disc ELSE Head(writing)
     IN  \/ desc.k = "struct" /\ writing' = After(writing, desc, 0) /\ UNCHANGED <<sent, wire, foreign>>
         \/ /\ desc.k # "struct"
            /\ \E w \in IF desc.k = "bytes" THEN {0, 2} ELSE IF IsList(desc) THEN {0} ELSE WordChoices(type) :
                 writing' = After(writing, desc, w) /\ Put(type, w) /\ UNCHANGED foreign
         \/ /\ "otherVersion" \in XdrEvents /\ ~foreign /\ foreign' = TRUE
            /\ \/ desc.k = "union" /\ type # "bool" /\ Put(type, 9) /\ writing' = Tail(writing)
               \/ desc.k = "bytes" /\ Put(type, 99) /\ writing' = After(writing, desc, 99)
  /\ UNCHANGED <<reading, got, xdrState>>

(* The message is on its way: whole, or cut where a fragment was lost.     *)
Send ==
  /\ xdrState = "writing" /\ writing = <<>> /\ xdrState' = "reading"
  /\ wire' \in {wire} \cup {SubSeq(wire, 1, i) : i \in {j \in 0 .. Len(wire) - 1 : "cut" \in XdrEvents}}
  /\ UNCHANGED <<writing, reading, sent, got, foreign>>

(* A length above the limit, an unknown choice, a word that is not there:  *)
(* the stub returns FALSE.                                                 *)
Refuses(desc, w) ==
  \/ desc.k = "bytes" /\ w > desc.max
  \/ desc.k = "union" /\ Arm(desc, w) = "refuse"
Read ==
  /\ xdrState = "reading" /\ reading # <<>>
  /\ LET desc == Decoder[Head(reading)]
         type == IF desc.k = "union" THEN desc.disc ELSE Head(reading)
     IN  IF desc.k = "struct" THEN reading' = After(reading, desc, 0) /\ UNCHANGED <<wire, got, xdrState>>
         ELSE IF wire = <<>> \/ Refuses(desc, Head(wire)) THEN xdrState' = "refused" /\ UNCHANGED <<reading, wire, got>>
         ELSE /\ reading' = After(reading, desc, Head(wire)) /\ wire' = Tail(wire)
              /\ got' = Append(got, Field(type, Head(wire))) /\ UNCHANGED xdrState
  /\ UNCHANGED <<writing, sent, foreign>>
Accept ==
  /\ xdrState = "reading" /\ reading = <<>> /\ xdrState' = "accepted"
  /\ UNCHANGED <<writing, reading, sent, wire, got, foreign>>

XdrNext == Write \/ Send \/ Read \/ Accept
XdrSpec == XdrInit /\ [][XdrNext]_xdrVars

----------------------------------------------------------------------------
(* Every field is taken for the field it was written as; a message that is *)
(* accepted was read to its last word, so one that was cut is not, and one *)
(* that is whole and of this version is.                                   *)
WireFaithful ==
  /\ ~foreign => \A i \in DOMAIN got : got[i] = sent[i]
  /\ xdrState = "accepted" /\ ~foreign => Len(got) = Len(sent) /\ wire = <<>>
  /\ xdrState = "refused" => foreign \/ Len(got) + Len(wire) < Len(sent)
=============================================================================
