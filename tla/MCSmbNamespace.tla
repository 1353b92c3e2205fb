-------------------------- MODULE MCSmbNamespace --------------------------
(* Instances of SmbNamespace for TLC: two names that differ in case only   *)
(* and a third one.                                                        *)
EXTENDS SmbNamespace

MCFolded == [n \in EntryName |-> IF n = "README" THEN "readme" ELSE n]
=============================================================================
