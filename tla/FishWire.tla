------------------------------ MODULE FishWire ------------------------------
(***************************************************************************)
(* The two byte streams between the fish worker and the process at the     *)
(* other end of its ssh connection, and the units they are made of.        *)
(*                                                                         *)
(* A command is two lines: the fish command proper, a comment to a shell,  *)
(* and its shell equivalent, an unknown command to the Perl server.  A     *)
(* unit is a line, one portion of file data, the newlines that follow      *)
(* data, or the source of the Perl server.  A stream is a pseudo terminal  *)
(* with room for Room units; a write moves as much as there is room for,   *)
(* or less.                                                                *)
(***************************************************************************)
EXTENDS Integers, Sequences

CONSTANTS
  Path,        \* remote paths
  Absent,      \* the value of a path that does not exist
  Dir,         \* the value of a path that is a directory
  Room,        \* units a stream holds
  MimeBytes    \* the 1024 bytes of mimeBuffer, in units

ASSUME RoomAssumption == Room \in Nat \ {0}
ASSUME MimeBytesAssumption == MimeBytes \in Nat \ {0}
ASSUME PathAssumption == Absent # Dir

VARIABLES
  toServer, toClient,
  alive        \* the connection is up

wireVars == <<toServer, toClient, alive>>

(* A request: its name, the number of the request, up to two paths, and    *)
(* for READ and the writing commands offset and size.                      *)
Request(name, id, p, q, at, n) ==
  [name |-> name, id |-> id, p |-> p, q |-> q, at |-> at, n |-> n]

Writing == {"STOR", "WRITE", "APPEND"}

(* Units sent by the client. *)
CommandLine(c) == [u |-> "line", c |-> c]
ShellLine(c)   == [u |-> "alt",  c |-> c]
Data(d)        == [u |-> "data", d |-> d]
Newlines       == [u |-> "newlines"]
FishCode       == [u |-> "code"]
Lines(c)       == <<CommandLine(c), ShellLine(c)>>
DataUnits(s)   == [i \in 1 .. Len(s) |-> Data(s[i])]

(* Units sent by the server in reply to request id: a status line with its *)
(* code, a line of text that is neither a number nor a status, a line with *)
(* a number, an empty line, the lines of a directory entry, a portion of   *)
(* data.                                                                   *)
Unit(k, v, id) == [k |-> k, v |-> v, id |-> id]

WireInit == toServer = << >> /\ toClient = << >> /\ alive = FALSE
=============================================================================
