--------------------------- MODULE MCSftpTransfer ---------------------------
(* Instances of SftpTransfer for TLC: a source of three chunks, two writes *)
(* under way, part files of fewer than two chunks not kept.                *)
EXTENDS SftpTransfer
=============================================================================
