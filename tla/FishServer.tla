----------------------------- MODULE FishServer -----------------------------
(***************************************************************************)
(* The remote end of a fish connection.  server = "perl": a shell that is  *)
(* replaced by fish.pl when the client sends FISH; server = "sh": no Perl  *)
(* there, the shell goes on and runs the shell equivalents of fishInfo[].  *)
(*                                                                         *)
(* The file system maps a path to Absent, Dir or the portions of data a    *)
(* file holds; a symbolic link is what is seen through it.  A request can  *)
(* fail for reasons of the remote system if the server is one of Faulty.   *)
(***************************************************************************)
EXTENDS FishWire

CONSTANTS
  Servers,       \* the kinds of server there are: "perl", "sh"
  Faulty         \* those whose system calls may fail at will

ASSUME ServerAssumption == Servers \subseteq {"perl", "sh"} /\ Faulty \subseteq Servers

VARIABLES
  server,        \* the kind of the one in use
  fs,            \* remote file system
  srv,           \* what the server is doing
  srvOut,        \* what it has still to print
  failed         \* names of the requests of this job that were not carried out

serverVars == <<server, fs, srv, srvOut, failed>>

Padding == 0     \* fish.pl fills up with spaces, the shell with zeros
Linked  == 8     \* what is seen through a link
Output  == 9     \* output of an executed command

IsFile(v) == v \notin {Absent, Dir}
Idle == [mode |-> "main", c |-> Request("none", 0, "", "", 0, 0), left |-> 0, pos |-> 0, error |-> FALSE]

Faults == server \in Faulty

ServerInit ==
  /\ server \in Servers
  /\ srv = [Idle EXCEPT !.mode = "login"]
  /\ srvOut = << >>
  /\ failed = {}

-----------------------------------------------------------------------------
(* Replies, as sequences of kind and value. *)
Status(n)  == <<"status", n>>
Text       == <<"text", 0>>
WithAppend == <<"text", 1>>
Number(n)  == <<"number", n>>
Blank      == <<"blank", 0>>
Entry      == <<"entry", 0>>
DataOf(s)  == [i \in 1 .. Len(s) |-> <<"data", s[i]>>]

(* The first n portions of s, filled up. *)
Padded(s, n) == [i \in 1 .. n |-> IF i <= Len(s) THEN s[i] ELSE Padding]

(* An outcome: the file system afterwards, the reply, and whether the      *)
(* request was carried out.                                                *)
Did(f, reply)    == [fs |-> f, reply |-> reply, ok |-> TRUE]
DidNot(f, reply) == [fs |-> f, reply |-> reply, ok |-> FALSE]

(* What the system calls of a request can do to the file system: the set   *)
(* of possible results of success, empty if they must fail.                *)
Effects(c) ==
  CASE c.name = "CHMOD"   -> IF fs[c.p] # Absent THEN {fs} ELSE {}
    [] c.name = "DELE"    -> IF IsFile(fs[c.p]) THEN {[fs EXCEPT ![c.p] = Absent]} ELSE {}
    [] c.name = "RMD"     -> IF fs[c.p] = Dir THEN {[fs EXCEPT ![c.p] = Absent]} ELSE {}
    [] c.name = "MKD"     -> IF fs[c.p] = Absent THEN {[fs EXCEPT ![c.p] = Dir]} ELSE {}
    [] c.name = "SYMLINK" -> IF fs[c.p] = Absent THEN {[fs EXCEPT ![c.p] = <<Linked>>]} ELSE {}
    [] c.name = "EXEC"    -> IF fs[c.p] = Absent THEN {[fs EXCEPT ![c.p] = <<Output>>]} ELSE {}
    [] c.name = "RENAME"  -> IF fs[c.p] # Absent /\ (fs[c.q] = Absent \/ (fs[c.p] = Dir) = (fs[c.q] = Dir))
                             THEN {[fs EXCEPT ![c.p] = Absent, ![c.q] = fs[c.p]]} ELSE {}
    [] c.name = "COPY"    -> IF IsFile(fs[c.p]) /\ fs[c.q] # Dir
                             THEN {[fs EXCEPT ![c.q] = fs[c.p]]} ELSE {}

(* What a failed request can leave behind: COPY has created or truncated   *)
(* its destination and copied a part of the source.                        *)
Remains(c) ==
  IF c.name = "COPY" /\ fs[c.p] # Absent /\ fs[c.q] # Dir
  THEN {fs} \union {[fs EXCEPT ![c.q] = SubSeq(IF IsFile(fs[c.p]) THEN fs[c.p] ELSE << >>, 1, n)] :
                       n \in 0 .. (IF IsFile(fs[c.p]) THEN Len(fs[c.p]) - 1 ELSE 0)}
  ELSE {fs}

Acting == {"CHMOD", "DELE", "RMD", "MKD", "SYMLINK", "EXEC", "RENAME", "COPY"}

(* fish.pl: one handler per command.  MKD tells an existing directory from *)
(* other failures.                                                         *)
PerlActs(c) ==
  {Did(f, <<Status(200)>>) : f \in Effects(c)} \union
  (IF Faults \/ Effects(c) = {}
   THEN {DidNot(f, <<Status(IF c.name = "MKD" /\ fs[c.p] = Dir THEN 501 ELSE 500)>>) : f \in Remains(c)}
   ELSE {})

(* sub list.  A directory that exists may be unreadable, or readable and   *)
(* not be entered; of a file only its directory is entered, which the test *)
(* for existence needed too.                                               *)
PerlList(c) ==
  IF fs[c.p] = Absent THEN {DidNot(fs, <<Status(404)>>)}
  ELSE {Did(fs, <<Number(1), Status(100), Entry, Status(200)>>)} \union
       (IF Faults /\ fs[c.p] = Dir /\ c.name = "LIST"
        THEN {DidNot(fs, <<Status(500)>>), DidNot(fs, <<Number(1), Status(100), Status(500)>>)}
        ELSE {})

(* sub read_loop: the size announced, or asked for, is what is sent; what  *)
(* cannot be read is filled up.  A READ that meets the end of the file     *)
(* reports whatever $! holds.                                              *)
PerlRead(c) ==
  LET want == IF c.name = "RETR" THEN Len(fs[c.p]) ELSE MimeBytes
      head == IF c.name = "RETR" THEN <<Number(want), Status(100)>> ELSE <<Status(100)>>
      sends(s, code) == head \o DataOf(Padded(s, want)) \o <<Status(code)>>
  IN  CASE fs[c.p] = Dir    -> {[Did(fs, <<Status(501)>>) EXCEPT !.ok = (c.name = "READ")]}
        [] fs[c.p] = Absent -> {DidNot(fs, <<Status(500)>>)}
        [] IsFile(fs[c.p])  ->
             {Did(fs, sends(fs[c.p], 200))} \union
             (IF Len(fs[c.p]) < want THEN {DidNot(fs, sends(fs[c.p], 500))} ELSE {}) \union
             (IF Faults
              THEN {DidNot(fs, <<Status(500)>>)} \union
                   {DidNot(fs, sends(SubSeq(fs[c.p], 1, n), 500)) : n \in 0 .. Len(fs[c.p]) - 1}
              ELSE {})

PerlOutcomes(c) ==
  CASE c.name = "VER"             -> {Did(fs, <<Text, Status(200)>>)}
    [] c.name = "PWD"             -> {Did(fs, <<Text, Status(200)>>)}
    [] c.name \in {"LIST", "STAT"} -> PerlList(c)
    [] c.name \in {"RETR", "READ"} -> PerlRead(c)
    [] c.name \in Acting           -> PerlActs(c)

-----------------------------------------------------------------------------
(* fishInfo[].alt, with the "### 200" that sendCommand puts behind each.   *)

(* rm -f, ln -sf and the redirection of EXEC do not mind what is there; ln *)
(* and mv put into a directory what they are to call by its name.          *)
ShellEffects(c) ==
  CASE c.name = "DELE" /\ fs[c.p] = Absent     -> {fs}
    [] c.name = "SYMLINK" /\ fs[c.p] # Absent  -> {IF fs[c.p] = Dir THEN fs ELSE [fs EXCEPT ![c.p] = <<Linked>>]}
    [] c.name = "EXEC" /\ IsFile(fs[c.p])      -> {[fs EXCEPT ![c.p] = <<Output>>]}
    [] c.name = "RENAME" /\ fs[c.p] # Absent /\ fs[c.q] = Dir -> {[fs EXCEPT ![c.p] = Absent]}
    [] c.name = "COPY" /\ IsFile(fs[c.p]) /\ fs[c.q] = Dir    -> {fs}
    [] OTHER -> Effects(c)

ShellActs(c) ==
  {Did(f, <<Status(200)>>) : f \in ShellEffects(c)} \union
  (IF Faults \/ ShellEffects(c) = {} THEN {DidNot(fs, <<Text, Status(200)>>)} ELSE {})

ShellList(c) ==
  IF fs[c.p] = Absent THEN {DidNot(fs, <<Number(0), Status(100), Status(200)>>)}
  ELSE {Did(fs, <<Number(1), Status(100), Entry, Status(200)>>)}

(* ls and cat; a directory has no size in the place where ls -l shows one  *)
(* of a file.  dd may return less than it was asked for, see the comment   *)
(* at WRITE.                                                               *)
ShellRead(c) ==
  CASE c.name = "RETR" /\ IsFile(fs[c.p]) ->
         {Did(fs, <<Number(Len(fs[c.p])), Status(1)>> \o DataOf(fs[c.p]) \o <<Status(200)>>)}
    [] c.name = "RETR" /\ fs[c.p] = Dir -> {DidNot(fs, <<Blank, Status(1), Text, Status(200)>>)}
    [] c.name = "RETR" /\ fs[c.p] = Absent -> {DidNot(fs, <<Text, Status(1), Text, Status(200)>>)}
    [] c.name = "READ" ->
         LET s == IF IsFile(fs[c.p]) THEN fs[c.p] ELSE << >> IN
         {Did(fs, <<Status(100)>> \o DataOf(Padded(s, n)) \o <<Status(200)>>) :
             n \in {MimeBytes} \union (IF Len(s) \in 1 .. MimeBytes THEN {Len(s)} ELSE {})}

ShellOutcomes(c) ==
  CASE c.name = "VER"             -> {Did(fs, <<WithAppend, Status(200)>>)}
    [] c.name = "PWD"             -> {Did(fs, <<Text, Status(200)>>)}
    [] c.name \in {"LIST", "STAT"} -> ShellList(c)
    [] c.name \in {"RETR", "READ"} -> ShellRead(c)
    [] c.name \in Acting           -> ShellActs(c)

Outcomes(c) == IF server = "perl" THEN PerlOutcomes(c) ELSE ShellOutcomes(c)

-----------------------------------------------------------------------------
Printed(id, reply) == [i \in 1 .. Len(reply) |-> Unit(reply[i][1], reply[i][2], id)]

(* The kind of line that carries the command. *)
Understood == IF server = "perl" THEN "line" ELSE "alt"

Reads(u) ==
  /\ alive /\ srvOut = << >> /\ toServer # << >> /\ Head(toServer).u = u
  /\ toServer' = Tail(toServer)
  /\ UNCHANGED <<toClient, alive>>

Fail(c) == failed' = failed \union {c.name}

(* Output goes to the stream as there is room. *)
ServerPrints ==
  /\ alive /\ srvOut # << >> /\ Len(toClient) < Room
  /\ toClient' = Append(toClient, Head(srvOut))
  /\ srvOut' = Tail(srvOut)
  /\ UNCHANGED <<server, toServer, alive, fs, srv, failed>>

(* The shell runs the equivalent of FISH: fish.pl answers, or it has to be *)
(* transferred first, or there is no Perl.                                 *)
ServerStarts ==
  /\ srv.mode = "login" /\ Reads("alt")
  /\ \/ /\ srv' = Idle
        /\ srvOut' = Printed(Head(toServer).c.id, <<Blank, Status(200)>>)
     \/ /\ server = "perl"
        /\ srv' = [Idle EXCEPT !.mode = "code", !.c = Head(toServer).c]
        /\ srvOut' = Printed(Head(toServer).c.id, <<Blank, Status(100)>>)
  /\ UNCHANGED <<server, fs, failed>>

ServerReadsCode ==
  /\ srv.mode = "code" /\ Reads("code")
  /\ srv' = Idle
  /\ srvOut' = Printed(srv.c.id, <<Status(200)>>)
  /\ UNCHANGED <<server, fs, failed>>

(* Lines that are comments, or empty, to this server. *)
ServerSkips ==
  /\ srv.mode \in {"main", "login"}
  /\ \E u \in {"line", "alt", "newlines"} :
       /\ u # (IF srv.mode = "login" THEN "alt" ELSE Understood)
       /\ Reads(u)
  /\ UNCHANGED serverVars

ServerExecutes ==
  /\ srv.mode = "main" /\ Reads(Understood)
  /\ LET c == Head(toServer).c IN
       /\ c.name \notin Writing
       /\ \E o \in Outcomes(c) :
            /\ fs' = o.fs
            /\ srvOut' = Printed(c.id, o.reply)
            /\ IF o.ok THEN UNCHANGED failed ELSE Fail(c)
  /\ UNCHANGED <<server, srv>>

(* sub write_loop, and the shell's redirections: the file is opened.       *)
(* fish.pl reads the shell equivalent before it asks for the data.         *)
ServerOpens ==
  /\ srv.mode = "main" /\ Reads(Understood)
  /\ LET c == Head(toServer).c
         f == IF c.name = "STOR" \/ fs[c.p] = Absent THEN << >> ELSE fs[c.p]
     IN  /\ c.name \in Writing
         /\ fs[c.p] # Dir
         /\ server = "perl" /\ c.name = "APPEND" => fs[c.p] # Absent
         /\ fs' = [fs EXCEPT ![c.p] = f]
         /\ srv' = [mode |-> IF server = "perl" THEN "alt" ELSE "data", c |-> c, left |-> c.n,
                    pos |-> IF c.name = "APPEND" THEN Len(f) ELSE c.at, error |-> FALSE]
         /\ srvOut' = IF server = "perl" THEN << >> ELSE Printed(c.id, <<Status(1)>>)
  /\ UNCHANGED <<server, failed>>

(* The shell reports the failed redirection and reads the data all the     *)
(* same.                                                                   *)
ServerCannotOpen ==
  /\ srv.mode = "main" /\ Reads(Understood)
  /\ LET c == Head(toServer).c IN
       /\ c.name \in Writing
       /\ Faults \/ fs[c.p] = Dir
       /\ Fail(c)
       /\ srvOut' = Printed(c.id, IF server = "perl" THEN <<Status(400)>> ELSE <<Text, Status(1)>>)
       /\ srv' = IF server = "perl" THEN srv
                 ELSE [mode |-> "data", c |-> c, left |-> c.n, pos |-> 0, error |-> TRUE]
  /\ UNCHANGED <<server, fs>>

ServerAsksForData ==
  /\ srv.mode = "alt" /\ Reads("alt")
  /\ srv' = [srv EXCEPT !.mode = "data"]
  /\ srvOut' = Printed(srv.c.id, <<Status(100)>>)
  /\ UNCHANGED <<server, fs, failed>>

(* The next portion is written behind pos, or is lost.  Whatever comes     *)
(* counts as data.                                                         *)
ServerWrites ==
  /\ srv.mode = "data" /\ srv.left > 0
  /\ Reads("data")
  /\ \/ /\ ~srv.error
        /\ fs' = [fs EXCEPT ![srv.c.p] =
                     Padded(@, srv.pos) \o <<Head(toServer).d>> \o SubSeq(@, srv.pos + 2, Len(@))]
        /\ srv' = [srv EXCEPT !.left = @ - 1, !.pos = @ + 1]
     \/ /\ Faults \/ srv.error
        /\ fs' = fs
        /\ srv' = [srv EXCEPT !.left = @ - 1, !.error = TRUE]
  /\ UNCHANGED <<server, srvOut, failed>>

(* The shell's "Error $?" is a line of text in front of the "### 200". *)
ServerEndsWrite ==
  /\ alive /\ srv.mode = "data" /\ srv.left = 0 /\ srvOut = << >>
  /\ srvOut' = Printed(srv.c.id,
       CASE ~srv.error                      -> <<Status(200)>>
         [] srv.error /\ server = "perl"    -> <<Status(500)>>
         [] srv.error /\ server = "sh"      -> <<Text, Status(200)>>)
  /\ IF srv.error THEN Fail(srv.c) ELSE UNCHANGED failed
  /\ srv' = Idle
  /\ UNCHANGED <<server, wireVars, fs>>

ServerNext ==
  \/ ServerPrints \/ ServerStarts \/ ServerReadsCode \/ ServerSkips \/ ServerExecutes
  \/ ServerOpens \/ ServerCannotOpen \/ ServerAsksForData \/ ServerWrites \/ ServerEndsWrite
=============================================================================
