----------------------------- MODULE Fish_proofs -----------------------------
(***************************************************************************)
(* Proofs about Fish, for a connection to fish.pl and every size of the    *)
(* streams, set of paths, contents and number of jobs: each reply is read  *)
(* as the reply to its own command, and the server never takes data for    *)
(* commands or commands for data, whatever fails and wherever reads and    *)
(* writes are cut.                                                         *)
(***************************************************************************)
EXTENDS Fish, SequenceTheorems, TLAPS

-----------------------------------------------------------------------------
(* Types *)

Portion == 0 .. 9
CommandNames ==
  {"none", "FISH", "VER", "PWD", "LIST", "STAT", "RETR", "READ"} \cup Writing \cup Acting
RequestSet ==
  {c \in [name : CommandNames, id : Nat, p : Path \cup {""}, q : Path \cup {""}, at : Nat, n : Nat] :
     /\ c.name \notin {"none", "FISH", "VER", "PWD"} => c.p \in Path
     /\ c.name \in {"RENAME", "COPY"} => c.q \in Path
     /\ c.name = "STOR" => c.n = 0}
ClientUnit ==
  [u : {"line", "alt"}, c : RequestSet] \cup [u : {"data"}, d : Portion] \cup [u : {"newlines", "code"}]
ServerUnit == [k : {"status"} \cup Line, v : Nat, id : Nat]
ServerSet ==
  [mode : {"login", "code", "main", "alt", "data"}, c : RequestSet, left : Nat, pos : Nat, error : BOOLEAN]
ConnectionSet ==
  [childPid : BOOLEAN, commandList : Seq(RequestSet), fishCommand : RequestSet, errorCount : Int,
   rawRead : Nat, rawWrite : Nat \cup {-1}, recvLen : Nat \cup {-1}, sendLen : Nat \cup {-1}, rawData : Seq(Portion),
   qlist : Seq(RequestSet), writeReady : BOOLEAN, outBuf : Seq(ClientUnit), outBusy : BOOLEAN,
   isRunning : BOOLEAN, hasAppend : BOOLEAN, putPos : Nat, nextId : Nat]
JobSet == {j \in [op : Names, p : Path, q : Path \cup {""}, overwrite : BOOLEAN, perm : BOOLEAN] :
             j.op \in {"rename", "copy"} => j.q # ""}

FishTypeInv ==
  /\ server = "perl" /\ fs \in [Path -> Value] /\ srv \in ServerSet /\ srvOut \in Seq(ServerUnit)
  /\ toServer \in Seq(ClientUnit) /\ toClient \in Seq(ServerUnit) /\ alive \in BOOLEAN
  /\ cl \in ConnectionSet /\ inBuf \in Seq(ServerUnit) /\ toPut \in Seq(Portion)
  /\ pc \in {"idle", "open", "select", "parse"} /\ (pc # "idle" => job \in JobSet)
  /\ srv.mode \in {"alt", "data"} => srv.c.p \in Path /\ fs[srv.c.p] \in Seq(Portion)

-----------------------------------------------------------------------------
(* What the client has still to write.                                     *)

Current == cl.fishCommand

(* What is still to be sent as a command; data follows STOR only by way of *)
(* what the server answers.                                                *)
Queue(list) ==
  \A i \in 1 .. Len(list) : list[i].name \notin {"none", "FISH", "WRITE", "APPEND"} /\ (list[i].name = "STOR" => i = Len(list))

(* The current command, one line of it or both; or what follows a reply    *)
(* that asks for something.  The buffer is free when a reply is handled:   *)
(* select() prefers writing to reading.                                    *)
BufferInv ==
  /\ cl.outBuf # << >> => cl.outBusy = TRUE
  /\ \/ cl.qlist = <<Current>> /\ cl.writeReady = FALSE /\ cl.rawWrite = -1
        /\ cl.outBuf \in {Lines(Current), <<ShellLine(Current)>>}
     \/ cl.qlist = << >> /\ cl.writeReady = TRUE
        /\ \/ cl.outBuf = << >>
           \/ cl.outBuf \in {<<Newlines>>, <<FishCode>>} /\ cl.rawWrite = -1
           \/ cl.rawWrite = 0 /\ \A i \in 1 .. Len(cl.outBuf) : cl.outBuf[i].u = "data"
  /\ cl.rawWrite > 0 => cl.outBuf = << >> /\ cl.outBusy = TRUE /\ cl.rawWrite = cl.sendLen

(* What the current command has to do with the data at hand.               *)
CurrentInv ==
  /\ cl.rawWrite >= 0 => Current.name \in Writing
  /\ cl.rawRead > 0 => Current.name \in {"RETR", "READ"}
  /\ cl.sendLen > 0 => Current.name \in {"WRITE", "APPEND"} /\ Len(cl.rawData) = cl.sendLen
  /\ Queue(cl.commandList) /\ (Current.name \in Writing => cl.commandList = << >>)
  /\ cl.isRunning = FALSE => cl.commandList = << >> /\ cl.outBuf = << >> /\ cl.sendLen <= 0

(* Where run() is.                                                         *)
RunInv ==
  /\ pc \in {"idle", "open"} => cl.isRunning = FALSE
  /\ pc \in {"select", "parse"} => cl.childPid = TRUE
  /\ inBuf # << >> => pc = "parse" /\ cl.outBuf = << >>

-----------------------------------------------------------------------------
(* What is on its way, each way, and at which point of a command the       *)
(* server is.                                                              *)

ToCome == inBuf \o (toClient \o srvOut)
ToRead == toServer \o cl.outBuf

(* A reply ends with its first status that is not preliminary.             *)
IsFinal(unit) == unit.k = "status" /\ unit.v # 100
IsGo(unit) == unit.k = "status" /\ unit.v = 100
Replies(units) ==
  \A i \in 1 .. Len(units) :
    /\ units[i].id = Current.id
    /\ IsFinal(units[i]) => i = Len(units)
    /\ units[i].k = "status" => units[i].v \notin {0, 1}
    /\ IsGo(units[i]) /\ Current.name = "FISH" => i = Len(units)
    /\ units[i].k = "blank" => Current.name = "FISH"

(* fish.pl skips the shell equivalents, and empty lines.                   *)
IsNoise(unit) == unit.u \in {"alt", "newlines"}

(* What a writing command announces is what the client will send.          *)
Announced == Current.name \in Writing => Current.n = (IF cl.sendLen > 0 THEN cl.sendLen ELSE 0)

LoginPhase == Current.name = "FISH" /\ ToCome = << >> /\ ToRead \in {Lines(Current), <<ShellLine(Current)>>}
CodePhase ==
  /\ Current.name = "FISH" /\ srv.c.id = Current.id /\ cl.qlist = << >>
  /\ Replies(ToCome) /\ \A i \in 1 .. Len(ToCome) : ToCome[i].k = "status" => i = Len(ToCome) /\ IsGo(ToCome[i])
  /\ ToRead = << >> \/ (ToRead = <<FishCode>> /\ ToCome = << >>)
AltPhase ==
  /\ Current.name \in Writing /\ Announced /\ srv.c = Current /\ srv.left = Current.n /\ cl.rawWrite = -1
  /\ ToCome = << >> /\ ToRead = <<ShellLine(Current)>>
DataPhase ==
  /\ Current.name \in Writing /\ Announced /\ srv.c = Current /\ cl.qlist = << >>
  /\ \/ ToCome = Printed(Current.id, <<Status(100)>>) /\ ToRead = << >> /\ srv.left = Current.n /\ cl.rawWrite = -1
     \/ ToCome = << >> /\ ToRead = << >> /\ cl.rawWrite > 0 /\ srv.left = cl.rawWrite
     \/ /\ ToCome = << >> /\ cl.rawWrite <= 0
        /\ \A i \in 1 .. srv.left : ToRead[i].u = "data"
        /\ \A i \in srv.left + 1 .. Len(ToRead) : IsNoise(ToRead[i])
        /\ Len(ToRead) \in {srv.left, srv.left + 1} /\ (cl.rawWrite = 0 => Len(ToRead) = srv.left)
CommandPhase ==
  /\ ToCome = << >> /\ Announced /\ cl.rawWrite = -1 /\ Current.name \notin {"none", "FISH"}
  /\ Len(ToRead) >= 2
  /\ ToRead[Len(ToRead) - 1] = CommandLine(Current) /\ ToRead[Len(ToRead)] = ShellLine(Current)
  /\ \A i \in 1 .. Len(ToRead) - 2 : IsNoise(ToRead[i])
ReplyPhase ==
  /\ Replies(ToCome) /\ cl.rawWrite <= 0
  /\ \A i \in 1 .. Len(ToRead) : IsNoise(ToRead[i])
  /\ ToCome # << >> => Len(ToRead) <= 1 /\ (cl.rawWrite = 0 => ToRead = << >>)
  /\ \A i \in 1 .. Len(ToCome) : IsGo(ToCome[i]) =>
       /\ Current.name # "FISH"
       /\ Current.name \in Writing => i = 1 /\ cl.sendLen <= 0 /\ cl.rawWrite = -1 /\ ToRead = << >>

(* A broken connection: what came before can be read, and nothing more.    *)
DeadPhase ==
  /\ toServer = << >> /\ srvOut = << >> /\ Replies(ToCome)
  /\ \A i \in 1 .. Len(ToCome) : IsFinal(ToCome[i]) =>
       /\ cl.rawWrite <= 0
       /\ Current.name \in Writing => cl.sendLen <= 0 \/ \A j \in 1 .. Len(ToCome) : ~IsGo(ToCome[j])

PhaseInv ==
  cl.childPid = TRUE =>
    /\ alive = FALSE => DeadPhase
    /\ alive = TRUE => \/ srv.mode = "login" /\ LoginPhase
                       \/ srv.mode = "code" /\ CodePhase
                       \/ srv.mode = "alt" /\ AltPhase
                       \/ srv.mode = "data" /\ DataPhase
                       \/ srv.mode = "main" /\ (CommandPhase \/ ReplyPhase)

(* Between two jobs nothing is left of the last one's replies.             *)
QuietInv ==
  cl.isRunning = FALSE /\ cl.childPid = TRUE => ToCome = << >> /\ (alive = TRUE => srv.mode = "main" /\ ReplyPhase)

FishInv == FishTypeInv /\ BufferInv /\ CurrentInv /\ RunInv /\ PhaseInv /\ QuietInv

-----------------------------------------------------------------------------
(* The server is at a command it can still read, or its reply is complete  *)
(* on its way; a client of which fish.pl is wanted has been asked for it,  *)
(* or will be.                                                             *)
Waiting == cl.childPid = TRUE /\ alive = TRUE /\ cl.isRunning = TRUE /\ Current.name # "EXEC"
Asked == \E i \in 1 .. Len(ToRead) : ToRead[i].u = "line"
Ends(units) == units # << >> /\ IsFinal(units[Len(units)])
MainWaits == srv.mode = "main" => Ends(ToCome) \/ Asked
CodeWaits == srv.mode = "code" => ToRead # << >> \/ (ToCome # << >> /\ IsGo(ToCome[Len(ToCome)]))

(* The client takes no more for data than is announced, and the server     *)
(* sends that much and a status after it.                                  *)
Reading == Current.name \in {"RETR", "READ"}
Announces(i) ==
  IF Current.name = "READ" THEN MimeBytes ELSE IF i = 1 THEN cl.recvLen ELSE ToCome[i - 1].v
DataComes(i) ==
  /\ Len(ToCome) > i + Announces(i)
  /\ Current.name = "RETR" /\ i # 1 => ToCome[i - 1].k = "number"
  /\ \A j \in 1 .. Len(ToCome) : IsGo(ToCome[j]) => j = i
CountInv ==
  Reading =>
    /\ cl.rawRead > 0 => Len(ToCome) > cl.rawRead /\ \A i \in 1 .. Len(ToCome) : ~IsGo(ToCome[i])
    /\ \A i \in 1 .. Len(ToCome) : IsGo(ToCome[i]) => DataComes(i)

WaitInv == Waiting => MainWaits /\ CodeWaits /\ CountInv

-----------------------------------------------------------------------------
(* Sequences *)

(* Taking the head of a concatenation is taking it of its first part.      *)
LEMMA TakeFirst ==
  ASSUME NEW S, NEW s \in Seq(S), NEW t \in Seq(S), s # << >>
  PROVE  Head(s \o t) = Head(s) /\ Tail(s \o t) = Tail(s) \o t /\ Tail(s) \in Seq(S)
<1>1. /\ s \o t \in Seq(S) /\ Len(s \o t) = Len(s) + Len(t)
      /\ \A i \in 1 .. Len(s) + Len(t) : (s \o t)[i] = IF i <= Len(s) THEN s[i] ELSE t[i - Len(s)]
  BY ConcatProperties
<1>2. Len(s) \in Nat \ {0} /\ Len(t) \in Nat
  BY EmptySeq, LenProperties
<1>3. s \o t # << >>
  BY <1>1, <1>2, EmptySeq
<1>4. /\ Tail(s) \in Seq(S) /\ Len(Tail(s)) = Len(s) - 1
      /\ \A i \in 1 .. Len(Tail(s)) : Tail(s)[i] = s[i + 1]
  BY HeadTailProperties
<1>5. /\ Tail(s) \o t \in Seq(S) /\ Len(Tail(s) \o t) = Len(Tail(s)) + Len(t)
      /\ \A i \in 1 .. Len(Tail(s)) + Len(t) :
           (Tail(s) \o t)[i] = IF i <= Len(Tail(s)) THEN Tail(s)[i] ELSE t[i - Len(Tail(s))]
  BY <1>4, ConcatProperties
<1>6. /\ Tail(s \o t) \in Seq(S) /\ Len(Tail(s \o t)) = Len(s \o t) - 1
      /\ \A i \in 1 .. Len(Tail(s \o t)) : Tail(s \o t)[i] = (s \o t)[i + 1]
  BY <1>1, <1>3, HeadTailProperties
<1>7. Tail(s \o t) = Tail(s) \o t
  <2>1. Len(Tail(s \o t)) = Len(Tail(s) \o t)
    BY <1>1, <1>2, <1>4, <1>5, <1>6
  <2>2. ASSUME NEW i \in 1 .. Len(Tail(s \o t)) PROVE Tail(s \o t)[i] = (Tail(s) \o t)[i]
    <3>1. i \in Nat \ {0} /\ i + 1 <= Len(s) + Len(t) /\ Tail(s \o t)[i] = (s \o t)[i + 1]
      BY <1>1, <1>2, <1>6
    <3>2. CASE i + 1 <= Len(s)
      BY <3>1, <3>2, <1>1, <1>2, <1>4, <1>5
    <3>3. CASE i + 1 > Len(s)
      <4>1. (s \o t)[i + 1] = t[i + 1 - Len(s)]
        BY <3>1, <3>3, <1>1, <1>2
      <4>2. (Tail(s) \o t)[i] = t[i - (Len(s) - 1)]
        BY <3>1, <3>3, <1>2, <1>4, <1>5
      <4>3. i + 1 - Len(s) = i - (Len(s) - 1)
        BY <3>1, <1>2
      <4> QED
        BY <4>1, <4>2, <4>3, <3>1
    <3> QED
      BY <3>1, <3>2, <3>3, <1>2
  <2> QED
    BY <2>1, <2>2, <1>5, <1>6, SeqEqual
<1>8. Head(s \o t) = Head(s)
  BY <1>1, <1>2
<1> QED
  BY <1>4, <1>7, <1>8

LEMMA Empties ==
  /\ << >> \in Seq(ClientUnit) /\ << >> \in Seq(ServerUnit) /\ << >> \in Seq(RequestSet) /\ << >> \in Seq(Portion)
  /\ Len(<< >>) = 0
BY EmptySeq

LEMMA Single == ASSUME NEW S, NEW x \in S PROVE <<x>> \in Seq(S) /\ Len(<<x>>) = 1 /\ <<x>>[1] = x
OBVIOUS

LEMMA TailOfSingle == ASSUME NEW S, NEW x \in S PROVE Tail(<<x>>) = << >> /\ Head(<<x>>) = x
<1>1. <<x>> \in Seq(S) /\ Len(<<x>>) = 1 /\ <<x>>[1] = x /\ <<x>> # << >>
  BY Single
<1>2. Tail(<<x>>) \in Seq(S) /\ Len(Tail(<<x>>)) = 0
  BY <1>1, HeadTailProperties
<1> QED
  BY <1>2, EmptySeq

(* A sequence is its first n elements and the rest.                        *)
LEMMA Cut ==
  ASSUME NEW S, NEW s \in Seq(S), NEW n \in 0 .. Len(s)
  PROVE  /\ SubSeq(s, 1, n) \in Seq(S) /\ SubSeq(s, n + 1, Len(s)) \in Seq(S)
         /\ Len(SubSeq(s, 1, n)) = n /\ Len(SubSeq(s, n + 1, Len(s))) = Len(s) - n
         /\ \A i \in 1 .. n : SubSeq(s, 1, n)[i] = s[i]
         /\ \A i \in 1 .. Len(s) - n : SubSeq(s, n + 1, Len(s))[i] = s[n + i]
         /\ SubSeq(s, 1, n) \o SubSeq(s, n + 1, Len(s)) = s
<1>1. Len(s) \in Nat /\ \A i \in 1 .. Len(s) : s[i] \in S
  BY LenProperties, ElementOfSeq
<1>2. /\ SubSeq(s, 1, n) \in Seq(S) /\ Len(SubSeq(s, 1, n)) = (IF 1 <= n THEN n - 1 + 1 ELSE 0)
      /\ \A i \in 1 .. n - 1 + 1 : SubSeq(s, 1, n)[i] = s[1 + i - 1]
  <2>1. \A i \in 1 .. n : s[i] \in S
    BY <1>1
  <2> QED
    BY <1>1, <2>1, SubSeqProperties
<1>3. /\ SubSeq(s, n + 1, Len(s)) \in Seq(S)
      /\ Len(SubSeq(s, n + 1, Len(s))) = (IF n + 1 <= Len(s) THEN Len(s) - (n + 1) + 1 ELSE 0)
      /\ \A i \in 1 .. Len(s) - (n + 1) + 1 : SubSeq(s, n + 1, Len(s))[i] = s[n + 1 + i - 1]
  <2>1. \A i \in n + 1 .. Len(s) : s[i] \in S
    BY <1>1
  <2>2. n + 1 \in Int /\ Len(s) \in Int
    BY <1>1
  <2> QED
    BY <2>1, <2>2, SubSeqProperties
<1>4. SubSeq(s, 1, n) \o SubSeq(s, n + 1, Len(s)) = SubSeq(s, 1, Len(s))
  <2>1. 1 \in 1 .. Len(s) + 1 /\ n \in 1 - 1 .. Len(s) /\ Len(s) \in n .. Len(s)
    BY <1>1
  <2> QED
    BY <2>1, ConcatAdjacentSubSeq
<1>5. SubSeq(s, 1, Len(s)) = s
  BY SubSeqFull
<1>6. Len(SubSeq(s, 1, n)) = n /\ \A i \in 1 .. n : SubSeq(s, 1, n)[i] = s[i]
  BY <1>1, <1>2
<1>7. Len(SubSeq(s, n + 1, Len(s))) = Len(s) - n
  BY <1>1, <1>3
<1>8. ASSUME NEW i \in 1 .. Len(s) - n PROVE SubSeq(s, n + 1, Len(s))[i] = s[n + i]
  <2>1. i \in 1 .. Len(s) - (n + 1) + 1 /\ n + 1 + i - 1 = n + i
    BY <1>1
  <2> QED
    BY <2>1, <1>3
<1> QED
  BY <1>2, <1>3, <1>4, <1>5, <1>6, <1>7, <1>8

LEMMA EmptyParts ==
  ASSUME NEW S, NEW s \in Seq(S), NEW t \in Seq(S), s \o t = << >> PROVE s = << >> /\ t = << >>
BY ConcatEqualIffEmpty

LEMMA PassOne ==
  ASSUME NEW S, NEW s \in Seq(S), NEW t \in Seq(S), t # << >>
  PROVE  /\ Append(s, Head(t)) \o Tail(t) = s \o t
         /\ Append(s, Head(t)) \in Seq(S) /\ Tail(t) \in Seq(S)
<1>1. Head(t) \in S /\ Tail(t) \in Seq(S) /\ <<Head(t)>> \in Seq(S)
  BY HeadTailProperties, Single
<1>2. Append(s, Head(t)) = s \o <<Head(t)>> /\ Append(s, Head(t)) \in Seq(S)
  BY <1>1, AppendIsConcat, AppendProperties
<1>3. t = <<Head(t)>> \o Tail(t)
  <2>1. Len(t) \in Nat \ {0}
    BY EmptySeq
  <2>2. SubSeq(t, 1, Len(t)) = <<t[1]>> \o SubSeq(t, 1 + 1, Len(t))
    BY <2>1, SubSeqRecursiveFirst
  <2>3. Tail(t) = SubSeq(t, 2, Len(t)) /\ SubSeq(t, 1, Len(t)) = t
    BY TailIsSubSeq, SubSeqFull
  <2> QED
    BY <2>1, <2>2, <2>3
<1>4. (s \o <<Head(t)>>) \o Tail(t) = s \o (<<Head(t)>> \o Tail(t))
  BY <1>1, ConcatAssociative
<1> QED
  BY <1>1, <1>2, <1>3, <1>4

LEMMA PassSome ==
  ASSUME NEW S, NEW s \in Seq(S), NEW t \in Seq(S), NEW n \in 1 .. Len(s)
  PROVE  /\ SubSeq(s, 1, n) \o (SubSeq(s, n + 1, Len(s)) \o t) = << >> \o (s \o t)
         /\ SubSeq(s, 1, n) \in Seq(S) /\ SubSeq(s, n + 1, Len(s)) \in Seq(S)
<1> DEFINE a == SubSeq(s, 1, n)
           b == SubSeq(s, n + 1, Len(s))
<1>1. a \in Seq(S) /\ b \in Seq(S) /\ a \o b = s
  <2>1. n \in 0 .. Len(s)
    BY LenProperties
  <2> QED
    BY <2>1, Cut
<1>2. << >> \o (s \o t) = s \o t
  <2>1. s \o t \in Seq(S)
    BY ConcatProperties
  <2> QED
    BY <2>1, ConcatEmptySeq
<1> HIDE DEF a, b
<1>3. (a \o b) \o t = a \o (b \o t)
  <2>1. a \in Seq(S) /\ b \in Seq(S)
    BY <1>1
  <2> QED
    BY SMTT(60), <2>1, ConcatAssociative
<1>4. a \o (b \o t) = << >> \o (s \o t)
  BY <1>1, <1>2, <1>3
<1> QED
  BY <1>1, <1>4 DEF a, b

-----------------------------------------------------------------------------
(* The two streams *)

LEMMA Streams ==
  ASSUME FishTypeInv
  PROVE  /\ ToCome \in Seq(ServerUnit) /\ ToRead \in Seq(ClientUnit)
         /\ ToCome = << >> <=> inBuf = << >> /\ toClient = << >> /\ srvOut = << >>
         /\ ToRead = << >> <=> toServer = << >> /\ cl.outBuf = << >>
         /\ Len(ToRead) = Len(toServer) + Len(cl.outBuf)
         /\ \A i \in 1 .. Len(toServer) : ToRead[i] = toServer[i]
         /\ cl.outBuf = << >> => ToRead = toServer
         /\ toServer = << >> => ToRead = cl.outBuf
<1>1. inBuf \in Seq(ServerUnit) /\ toClient \in Seq(ServerUnit) /\ srvOut \in Seq(ServerUnit)
  BY DEF FishTypeInv
<1>2. toServer \in Seq(ClientUnit) /\ cl.outBuf \in Seq(ClientUnit)
  BY DEF FishTypeInv, ConnectionSet
<1>3. toClient \o srvOut \in Seq(ServerUnit)
  BY <1>1, ConcatProperties
<1>4. ToCome \in Seq(ServerUnit)
  BY <1>1, <1>3, ConcatProperties DEF ToCome
<1>5. /\ ToRead \in Seq(ClientUnit) /\ Len(ToRead) = Len(toServer) + Len(cl.outBuf)
      /\ \A i \in 1 .. Len(toServer) + Len(cl.outBuf) :
           ToRead[i] = IF i <= Len(toServer) THEN toServer[i] ELSE cl.outBuf[i - Len(toServer)]
  BY <1>2, ConcatProperties DEF ToRead
<1>6. \A i \in 1 .. Len(toServer) : ToRead[i] = toServer[i]
  <2>1. Len(toServer) \in Nat /\ Len(cl.outBuf) \in Nat
    BY <1>2, LenProperties
  <2> QED
    BY <2>1, <1>5
<1>7. ToCome = << >> <=> inBuf = << >> /\ toClient = << >> /\ srvOut = << >>
  <2>1. ToCome = << >> <=> inBuf = << >> /\ toClient \o srvOut = << >>
    BY <1>1, <1>3, ConcatEqualIffEmpty DEF ToCome
  <2>2. toClient \o srvOut = << >> <=> toClient = << >> /\ srvOut = << >>
    BY <1>1, ConcatEqualIffEmpty
  <2> QED
    BY <2>1, <2>2
<1>8. ToRead = << >> <=> toServer = << >> /\ cl.outBuf = << >>
  BY <1>2, ConcatEqualIffEmpty DEF ToRead
<1>9. (cl.outBuf = << >> => ToRead = toServer) /\ (toServer = << >> => ToRead = cl.outBuf)
  BY <1>2, ConcatEmptySeq DEF ToRead
<1> QED
  BY <1>4, <1>5, <1>6, <1>7, <1>8, <1>9

(* A unit is handled.                                                      *)
LEMMA Handles ==
  ASSUME FishTypeInv, inBuf # << >>, inBuf' = Tail(inBuf), toClient' = toClient, srvOut' = srvOut
  PROVE  /\ ToCome # << >> /\ Head(ToCome) = Head(inBuf) /\ ToCome' = Tail(ToCome)
         /\ inBuf' \in Seq(ServerUnit) /\ Head(inBuf) \in ServerUnit
<1>1. inBuf \in Seq(ServerUnit) /\ toClient \o srvOut \in Seq(ServerUnit)
  BY ConcatProperties DEF FishTypeInv
<1>2. Head(ToCome) = Head(inBuf) /\ ToCome' = Tail(ToCome) /\ inBuf' \in Seq(ServerUnit)
  BY <1>1, TakeFirst DEF ToCome
<1> QED
  BY <1>1, <1>2, Streams, HeadTailProperties

(* What is on its way is moved.                                            *)
LEMMA Moves ==
  ASSUME FishTypeInv,
         \/ UNCHANGED <<inBuf, toClient, srvOut>>
         \/ ServerPrints /\ inBuf' = inBuf
         \/ SelectReads /\ inBuf = << >> /\ srvOut' = srvOut
  PROVE  /\ ToCome' = ToCome
         /\ inBuf' \in Seq(ServerUnit) /\ toClient' \in Seq(ServerUnit) /\ srvOut' \in Seq(ServerUnit)
<1>1. inBuf \in Seq(ServerUnit) /\ toClient \in Seq(ServerUnit) /\ srvOut \in Seq(ServerUnit)
  BY DEF FishTypeInv
<1>2. CASE UNCHANGED <<inBuf, toClient, srvOut>>
  BY <1>1, <1>2 DEF ToCome
<1>3. CASE ServerPrints /\ inBuf' = inBuf
  <2>1. srvOut # << >> /\ toClient' = Append(toClient, Head(srvOut)) /\ srvOut' = Tail(srvOut)
    BY <1>3 DEF ServerPrints
  <2>2. /\ toClient' \o srvOut' = toClient \o srvOut
        /\ toClient' \in Seq(ServerUnit) /\ srvOut' \in Seq(ServerUnit)
    BY <1>1, <2>1, PassOne
  <2> QED
    BY <1>1, <1>3, <2>2 DEF ToCome
<1>4. CASE SelectReads /\ inBuf = << >> /\ srvOut' = srvOut
  <2>1. PICK n \in 1 .. Len(toClient) :
          inBuf' = SubSeq(toClient, 1, n) /\ toClient' = SubSeq(toClient, n + 1, Len(toClient))
    BY <1>4 DEF SelectReads
  <2>2. /\ inBuf' \o (toClient' \o srvOut) = << >> \o (toClient \o srvOut)
        /\ inBuf' \in Seq(ServerUnit) /\ toClient' \in Seq(ServerUnit)
    <3> DEFINE a == SubSeq(toClient, 1, n)
               b == SubSeq(toClient, n + 1, Len(toClient))
    <3>1. /\ a \o (b \o srvOut) = << >> \o (toClient \o srvOut)
          /\ a \in Seq(ServerUnit) /\ b \in Seq(ServerUnit)
      BY <1>1, PassSome
    <3>2. inBuf' = a /\ toClient' = b
      BY <2>1
    <3> HIDE DEF a, b
    <3> QED
      BY <3>1, <3>2
  <2> QED
    BY <1>1, <1>4, <2>2 DEF ToCome
<1> QED
  BY <1>2, <1>3, <1>4

(* The server has something to print.                                      *)
LEMMA Answers ==
  ASSUME FishTypeInv, srvOut = << >>, srvOut' \in Seq(ServerUnit), UNCHANGED <<inBuf, toClient>>
  PROVE  ToCome' = ToCome \o srvOut' /\ (ToCome = << >> => ToCome' = srvOut')
<1>1. inBuf \in Seq(ServerUnit) /\ toClient \in Seq(ServerUnit)
  BY DEF FishTypeInv
<1>2. ToCome = inBuf \o toClient
  BY <1>1, ConcatEmptySeq DEF ToCome
<1>3. ToCome' = (inBuf \o toClient) \o srvOut'
  BY <1>1, ConcatAssociative DEF ToCome
<1> QED
  BY <1>2, <1>3, ConcatEmptySeq

(* A unit is read by the server.                                           *)
LEMMA ServerTakes ==
  ASSUME FishTypeInv, NEW u, Reads(u), cl' = cl
  PROVE  /\ ToRead # << >> /\ Head(ToRead) = Head(toServer) /\ Head(ToRead).u = u /\ ToRead' = Tail(ToRead)
         /\ toServer' \in Seq(ClientUnit) /\ Head(toServer) \in ClientUnit /\ Head(toServer) = ToRead[1] /\ 1 <= Len(ToRead)
<1>1. toServer \in Seq(ClientUnit) /\ cl.outBuf \in Seq(ClientUnit)
  BY DEF FishTypeInv, ConnectionSet
<1>2. toServer # << >> /\ toServer' = Tail(toServer) /\ Head(toServer).u = u
  BY DEF Reads
<1>3. Head(ToRead) = Head(toServer) /\ ToRead' = Tail(ToRead) /\ toServer' \in Seq(ClientUnit)
  BY <1>1, <1>2, TakeFirst DEF ToRead
<1>4. Head(toServer) \in ClientUnit
  BY <1>1, <1>2, HeadTailProperties
<1>5. ToRead # << >> /\ ToRead \in Seq(ClientUnit)
  BY <1>2, Streams
<1>6. Len(ToRead) \in Nat \ {0}
  BY <1>5, EmptySeq
<1> QED
  BY <1>2, <1>3, <1>4, <1>5, <1>6

-----------------------------------------------------------------------------
(* Writing *)

LEMMA ConnectionFields ==
  ASSUME NEW s \in ConnectionSet
  PROVE  /\ s.childPid \in BOOLEAN /\ s.commandList \in Seq(RequestSet) /\ s.fishCommand \in RequestSet
         /\ s.errorCount \in Int /\ s.rawRead \in Nat /\ s.rawWrite \in Nat \cup {-1} /\ s.recvLen \in Nat \cup {-1}
         /\ s.sendLen \in Nat \cup {-1} /\ s.rawData \in Seq(Portion) /\ Len(s.rawData) \in Nat
         /\ s.qlist \in Seq(RequestSet) /\ s.writeReady \in BOOLEAN /\ s.outBuf \in Seq(ClientUnit)
         /\ s.outBusy \in BOOLEAN /\ s.isRunning \in BOOLEAN /\ s.hasAppend \in BOOLEAN
         /\ s.putPos \in Nat /\ s.nextId \in Nat /\ Len(s.commandList) \in Nat
BY DEF ConnectionSet

LEMMA LinesFacts ==
  ASSUME NEW c \in RequestSet
  PROVE  /\ CommandLine(c) \in ClientUnit /\ ShellLine(c) \in ClientUnit
         /\ Lines(c) \in Seq(ClientUnit) /\ Len(Lines(c)) = 2
         /\ Lines(c)[1] = CommandLine(c) /\ Lines(c)[2] = ShellLine(c)
         /\ <<ShellLine(c)>> \in Seq(ClientUnit) /\ Len(<<ShellLine(c)>>) = 1 /\ <<ShellLine(c)>>[1] = ShellLine(c)
         /\ CommandLine(c).u = "line" /\ ShellLine(c).u = "alt" /\ CommandLine(c).c = c /\ ShellLine(c).c = c
<1>1. CommandLine(c) \in ClientUnit /\ ShellLine(c) \in ClientUnit
  BY DEF CommandLine, ShellLine, ClientUnit
<1>2. CommandLine(c).u = "line" /\ ShellLine(c).u = "alt" /\ CommandLine(c).c = c /\ ShellLine(c).c = c
  BY DEF CommandLine, ShellLine
<1> HIDE DEF ClientUnit
<1>3. Lines(c) \in Seq(ClientUnit) /\ Len(Lines(c)) = 2 /\ Lines(c)[1] = CommandLine(c) /\ Lines(c)[2] = ShellLine(c)
  BY <1>1 DEF Lines
<1>4. <<ShellLine(c)>> \in Seq(ClientUnit) /\ Len(<<ShellLine(c)>>) = 1 /\ <<ShellLine(c)>>[1] = ShellLine(c)
  BY <1>1, Single
<1> QED
  BY <1>1, <1>2, <1>3, <1>4

LEMMA OtherUnits ==
  /\ Newlines \in ClientUnit /\ <<Newlines>> \in Seq(ClientUnit) /\ Len(<<Newlines>>) = 1 /\ <<Newlines>>[1] = Newlines
  /\ FishCode \in ClientUnit /\ <<FishCode>> \in Seq(ClientUnit) /\ Len(<<FishCode>>) = 1 /\ <<FishCode>>[1] = FishCode
  /\ Newlines.u = "newlines" /\ FishCode.u = "code"
<1>1. Newlines \in ClientUnit /\ FishCode \in ClientUnit /\ Newlines.u = "newlines" /\ FishCode.u = "code"
  BY DEF Newlines, FishCode, ClientUnit
<1> QED
  BY <1>1, Single

LEMMA DataFacts ==
  ASSUME NEW d \in Seq(Portion)
  PROVE  /\ DataUnits(d) \in Seq(ClientUnit) /\ Len(DataUnits(d)) = Len(d)
         /\ \A i \in 1 .. Len(d) : DataUnits(d)[i].u = "data"
<1>1. ASSUME NEW i \in 1 .. Len(d) PROVE Data(d[i]) \in ClientUnit /\ Data(d[i]).u = "data"
  <2>1. d[i] \in Portion
    BY ElementOfSeq
  <2> QED
    BY <2>1 DEF Data, ClientUnit
<1>2. Len(d) \in Nat /\ DataUnits(d) = [i \in 1 .. Len(d) |-> Data(d[i])]
  BY DEF DataUnits
<1> QED
  BY <1>1, <1>2

(* What a step of the writer leaves as it is.                              *)
WriterKeeps ==
  /\ cl'.childPid = cl.childPid /\ cl'.commandList = cl.commandList /\ cl'.fishCommand = cl.fishCommand
  /\ cl'.rawRead = cl.rawRead /\ cl'.sendLen = cl.sendLen /\ cl'.rawData = cl.rawData /\ cl'.isRunning = cl.isRunning

(* The buffer is written, and what is behind it is put into it.            *)
WriterEffect ==
  /\ WriterKeeps /\ cl' \in ConnectionSet /\ toServer' \in Seq(ClientUnit) /\ BufferInv'
  /\ cl'.qlist \in {cl.qlist, << >>}
  /\ \/ cl'.rawWrite = cl.rawWrite /\ ToRead' = ToRead /\ (cl.outBuf = << >> => cl'.outBuf = << >>)
     \/ cl.rawWrite > 0 /\ cl'.rawWrite = 0 /\ ToRead' = ToRead \o DataUnits(cl.rawData)
     \/ cl.rawWrite = 0 /\ cl'.rawWrite = -1 /\ ToRead' = ToRead \o <<Newlines>>

LEMMA SelectWritesEffect ==
  ASSUME FishTypeInv, BufferInv, CurrentInv, SelectWrites
  PROVE  WriterEffect /\ (toServer = << >> /\ cl.outBuf = << >> => toServer' = << >>)
<1>1. PICK n \in 0 .. Len(cl.outBuf) :
        /\ cl.outBuf # << >> => n > 0
        /\ toServer' = toServer \o SubSeq(cl.outBuf, 1, n)
        /\ cl' = IF SubSeq(cl.outBuf, n + 1, Len(cl.outBuf)) = << >>
                 THEN Sent([cl EXCEPT !.outBuf = << >>, !.outBusy = FALSE])
                 ELSE [cl EXCEPT !.outBuf = SubSeq(cl.outBuf, n + 1, Len(cl.outBuf))]
  BY DEF SelectWrites
<1>2. cl \in ConnectionSet /\ toServer \in Seq(ClientUnit) /\ cl.outBuf \in Seq(ClientUnit) /\ Current \in RequestSet
  BY DEF FishTypeInv, ConnectionSet, Current
<1> DEFINE written == SubSeq(cl.outBuf, 1, n)
           rest == SubSeq(cl.outBuf, n + 1, Len(cl.outBuf))
<1>3. /\ written \in Seq(ClientUnit) /\ rest \in Seq(ClientUnit)
      /\ Len(written) = n /\ Len(rest) = Len(cl.outBuf) - n
      /\ \A i \in 1 .. Len(cl.outBuf) - n : rest[i] = cl.outBuf[n + i]
      /\ written \o rest = cl.outBuf
  BY ZenonT(90), <1>1, <1>2, Cut
<1> HIDE DEF written, rest
<1>4. toServer' \in Seq(ClientUnit) /\ toServer' \o rest = ToRead
  <2>1. written \in Seq(ClientUnit) /\ rest \in Seq(ClientUnit)
    BY <1>3
  <2>2. (toServer \o written) \o rest = toServer \o (written \o rest)
    BY <1>2, <2>1, ConcatAssociative
  <2>3. toServer' = toServer \o written
    BY <1>1 DEF written
  <2> QED
    BY <1>2, <1>3, <2>1, <2>2, <2>3, ConcatProperties DEF ToRead
<1>5. Len(cl.outBuf) \in Nat /\ n \in Nat /\ (cl.outBuf = << >> => n = 0)
  BY <1>1, <1>2, LenProperties
<1>6. CASE rest # << >>
  <2>1. cl' = [cl EXCEPT !.outBuf = rest]
    BY <1>1, <1>6 DEF rest
  <2>2. cl' \in ConnectionSet /\ WriterKeeps /\ cl'.qlist = cl.qlist /\ cl'.writeReady = cl.writeReady /\ cl'.rawWrite = cl.rawWrite
        /\ cl'.outBuf = rest /\ cl'.outBusy = cl.outBusy
    BY <1>2, <1>3, <2>1 DEF ConnectionSet, WriterKeeps
  <2>3. ToRead' = ToRead
    BY <1>4, <2>2 DEF ToRead
  <2>4. cl.outBuf # << >> /\ n > 0 /\ n < Len(cl.outBuf)
    <3>1. Len(rest) \in Nat \ {0}
      BY <1>3, <1>6, EmptySeq
    <3>2. n < Len(cl.outBuf) /\ Len(cl.outBuf) # 0
      BY <1>3, <1>5, <3>1
    <3> QED
      BY <1>1, <3>2
  <2>5. BufferInv'
    <3>1. CASE cl.qlist = <<Current>> /\ cl.writeReady = FALSE /\ cl.rawWrite = -1 /\ cl.outBuf \in {Lines(Current), <<ShellLine(Current)>>}
      <4>0. cl.outBuf = Lines(Current)
        <5>1. SUFFICES ASSUME cl.outBuf = <<ShellLine(Current)>> PROVE FALSE
          BY <3>1
        <5>2. Len(cl.outBuf) = 1
          BY <5>1
        <5> QED
          BY <1>5, <2>4, <5>2
      <4>1. n = 1 /\ Len(rest) = 1 /\ rest[1] = ShellLine(Current)
        BY <1>2, <1>3, <1>5, <2>4, <4>0, LinesFacts
      <4>2. rest = <<ShellLine(Current)>>
        BY <1>2, <1>3, <4>1, LinesFacts, SeqEqual
      <4> QED
        BY <2>2, <2>4, <3>1, <4>2 DEF BufferInv, Current, WriterKeeps
    <3>2. CASE cl.qlist = << >> /\ cl.writeReady = TRUE /\ cl.rawWrite = 0 /\ \A i \in 1 .. Len(cl.outBuf) : cl.outBuf[i].u = "data"
      <4>1. \A i \in 1 .. Len(rest) : rest[i].u = "data"
        <5> TAKE i \in 1 .. Len(rest)
        <5>1. n + i \in 1 .. Len(cl.outBuf) /\ rest[i] = cl.outBuf[n + i]
          BY <1>3, <1>5, <2>4
        <5> QED
          BY <3>2, <5>1
      <4> QED
        BY <2>2, <2>4, <3>2, <4>1 DEF BufferInv
    <3>3. CASE cl.qlist = << >> /\ cl.writeReady = TRUE /\ cl.outBuf \in {<<Newlines>>, <<FishCode>>} /\ cl.rawWrite = -1
      <4>1. Len(cl.outBuf) = 1
        BY <3>3, OtherUnits
      <4> QED
        BY <1>5, <2>4, <4>1
    <3> QED
      BY <2>4, <3>1, <3>2, <3>3 DEF BufferInv
  <2> QED
    BY <1>3, <1>4, <2>2, <2>3, <2>4, <2>5 DEF WriterEffect
<1>7. CASE rest = << >>
  <2>1. toServer' = ToRead
    BY <1>4, <1>7, ConcatEmptySeq
  <2> DEFINE s == [cl EXCEPT !.outBuf = << >>, !.outBusy = FALSE]
  <2>2. cl' = Sent(s)
    BY <1>1, <1>7 DEF rest
  <2>3. ToRead' = ToRead \o cl'.outBuf
    BY <2>1 DEF ToRead
  <2>4. /\ s \in ConnectionSet /\ s.qlist = cl.qlist /\ s.rawWrite = cl.rawWrite /\ s.rawData = cl.rawData
        /\ s.outBuf = << >> /\ s.outBusy = FALSE
    BY <1>2, Empties DEF ConnectionSet
  <2> HIDE DEF s
  <2>8. cl.rawWrite \in Int
    BY <1>2 DEF ConnectionSet
  <2>5. CASE cl.rawWrite < 0
    <3>1. cl.rawWrite = -1
      BY <1>2, <2>5 DEF ConnectionSet
    <3>2. cl.qlist = << >> \/ Tail(cl.qlist) = << >>
      BY <1>2, TailOfSingle DEF BufferInv
    <3>3. cl' = [s EXCEPT !.qlist = << >>, !.writeReady = TRUE]
      <4>1. s.rawWrite < 0 /\ ~(s.rawWrite > 0) /\ ~(s.rawWrite = 0) /\ (IF s.qlist = << >> THEN << >> ELSE Tail(s.qlist)) = << >>
        BY <2>4, <3>1, <3>2
      <4>2. Sent(s) = [s EXCEPT !.qlist = << >>, !.writeReady = TRUE]
        BY <4>1 DEF Sent
      <4> QED
        BY <2>2, <4>2
    <3>4. cl' \in ConnectionSet /\ WriterKeeps /\ cl'.qlist = << >> /\ cl'.writeReady = TRUE /\ cl'.outBuf = << >> /\ cl'.rawWrite = -1
      BY <1>2, <3>1, <3>3, Empties DEF ConnectionSet, WriterKeeps, s
    <3>5. ToRead' = ToRead
      BY <2>1, <2>3, <3>4, <1>4, ConcatEmptySeq
    <3> QED
      BY <1>4, <2>1, <3>1, <3>4, <3>5, Streams DEF WriterEffect, BufferInv
  <2>6. CASE cl.rawWrite = 0
    <3>1. cl' = [s EXCEPT !.outBuf = <<Newlines>>, !.outBusy = TRUE, !.rawWrite = -1]
      BY <2>2, <2>4, <2>6 DEF Sent, WriteChild
    <3>2. cl' \in ConnectionSet /\ WriterKeeps /\ cl'.qlist = cl.qlist /\ cl'.writeReady = cl.writeReady
          /\ cl'.outBuf = <<Newlines>> /\ cl'.rawWrite = -1 /\ cl'.outBusy = TRUE
      BY <1>2, <3>1, OtherUnits DEF ConnectionSet, WriterKeeps, s
    <3>3. cl.qlist = << >> /\ cl.writeReady = TRUE
      BY <2>6 DEF BufferInv
    <3> QED
      BY <1>4, <2>1, <2>3, <2>6, <3>2, <3>3, Streams DEF WriterEffect, BufferInv
  <2>7. CASE cl.rawWrite > 0
    <3>1. Len(cl.rawData) = cl.rawWrite /\ cl.rawData \in Seq(Portion) /\ cl.outBuf = << >> /\ cl.qlist = << >> /\ cl.writeReady = TRUE
      BY <1>2, <2>7 DEF BufferInv, CurrentInv, ConnectionSet
    <3>2. cl' = [s EXCEPT !.outBuf = DataUnits(cl.rawData), !.outBusy = TRUE, !.rawWrite = cl.rawWrite - Len(cl.rawData)]
      <4>1. s.rawWrite > 0 /\ ~(s.rawWrite < 0) /\ ~(s.rawWrite = 0)
        BY <2>4, <2>7, <2>8
      <4>2. WriteChild(s, DataUnits(s.rawData)) = [s EXCEPT !.outBuf = DataUnits(cl.rawData), !.outBusy = TRUE]
        BY <2>4 DEF WriteChild
      <4>3. Sent(s) = [WriteChild(s, DataUnits(s.rawData)) EXCEPT !.rawWrite = @ - Len(s.rawData)]
        BY <4>1 DEF Sent
      <4>4. WriteChild(s, DataUnits(s.rawData)).rawWrite = cl.rawWrite
        BY <2>4, <4>2 DEF ConnectionSet
      <4> QED
        BY <2>2, <2>4, <4>2, <4>3, <4>4
    <3>6. DataUnits(cl.rawData) \in Seq(ClientUnit) /\ cl.rawWrite - Len(cl.rawData) = 0
      BY <1>2, <2>7, <3>1, DataFacts DEF ConnectionSet
    <3>3. cl' \in ConnectionSet /\ WriterKeeps /\ cl'.qlist = << >> /\ cl'.writeReady = TRUE
          /\ cl'.outBuf = DataUnits(cl.rawData) /\ cl'.rawWrite = 0 /\ cl'.outBusy = TRUE
      <4> DEFINE d == DataUnits(cl.rawData)
      <4>1. cl' = [s EXCEPT !.outBuf = d, !.outBusy = TRUE, !.rawWrite = 0] /\ d \in Seq(ClientUnit)
        BY <3>2, <3>6
      <4> HIDE DEF d
      <4>2. cl' \in ConnectionSet /\ WriterKeeps /\ cl'.qlist = << >> /\ cl'.writeReady = TRUE
            /\ cl'.outBuf = d /\ cl'.rawWrite = 0 /\ cl'.outBusy = TRUE
        BY <1>2, <3>1, <4>1 DEF ConnectionSet, WriterKeeps, s
      <4> QED
        BY <4>2 DEF d
    <3>4. \A i \in 1 .. Len(cl'.outBuf) : cl'.outBuf[i].u = "data"
      BY <3>1, <3>3, DataFacts
    <3>5. BufferInv'
      BY <3>3, <3>4 DEF BufferInv
    <3> QED
      BY <1>4, <2>1, <2>3, <2>7, <3>1, <3>3, <3>5, Streams DEF WriterEffect
  <2> QED
    BY <2>5, <2>6, <2>7, <2>8
<1> QED
  BY <1>6, <1>7

LEMMA Appended ==
  ASSUME FishTypeInv, NEW x \in Seq(ClientUnit), ToRead' = ToRead \o x
  PROVE  /\ Len(ToRead) \in Nat /\ Len(x) \in Nat /\ Len(ToRead') = Len(ToRead) + Len(x)
         /\ \A i \in 1 .. Len(ToRead) : ToRead'[i] = ToRead[i]
         /\ \A i \in Len(ToRead) + 1 .. Len(ToRead) + Len(x) : ToRead'[i] = x[i - Len(ToRead)]
         /\ ToRead = << >> => ToRead' = x
<1>1. ToRead \in Seq(ClientUnit)
  BY Streams
<1>2. Len(ToRead) \in Nat /\ Len(x) \in Nat
  BY <1>1, LenProperties
<1>3. /\ Len(ToRead \o x) = Len(ToRead) + Len(x)
      /\ \A i \in 1 .. Len(ToRead) + Len(x) : (ToRead \o x)[i] = IF i <= Len(ToRead) THEN ToRead[i] ELSE x[i - Len(ToRead)]
  BY <1>1, ConcatProperties
<1>4. ToRead = << >> => ToRead' = x
  BY ConcatEmptySeq
<1> QED
  BY <1>2, <1>3, <1>4

LEMMA SelectWritesKeeps ==
  ASSUME FishInv, SelectWrites, UNCHANGED <<serverVars, appVars>>
  PROVE  FishInv'
<1>1. WriterEffect /\ (toServer = << >> /\ cl.outBuf = << >> => toServer' = << >>)
  BY SelectWritesEffect DEF FishInv
<1>2. /\ UNCHANGED <<toClient, alive, pc, inBuf, jobVars, serverVars>>
      /\ pc = "select" /\ cl.isRunning = TRUE /\ (alive = TRUE \/ cl.outBuf = << >>)
  BY DEF SelectWrites, Selecting, FishInv, FishTypeInv, ConnectionSet
<1>3. ToCome' = ToCome /\ Current' = Current
  BY <1>1, <1>2 DEF ToCome, Current, serverVars, WriterEffect, WriterKeeps
<1>4. FishTypeInv'
  BY <1>1, <1>2 DEF FishInv, FishTypeInv, WriterEffect, serverVars, jobVars
<1>5. BufferInv'
  BY <1>1 DEF WriterEffect
<1>6. CurrentInv'
  <2>1. cl.rawWrite \in Nat \cup {-1} /\ (cl'.rawWrite >= 0 => cl.rawWrite >= 0)
    <3>1. cl.rawWrite \in Nat \cup {-1} /\ cl'.rawWrite \in Nat \cup {-1}
      BY <1>1, ConnectionFields DEF FishInv, FishTypeInv, WriterEffect
    <3> QED
      BY <1>1, <3>1 DEF WriterEffect
  <2>2. /\ cl'.rawRead = cl.rawRead /\ cl'.sendLen = cl.sendLen /\ cl'.rawData = cl.rawData
        /\ cl'.commandList = cl.commandList /\ cl'.isRunning = TRUE
    BY <1>1, <1>2 DEF WriterEffect, WriterKeeps
  <2> QED
    BY <1>3, <2>1, <2>2 DEF FishInv, CurrentInv
<1>7. RunInv' /\ QuietInv'
  BY <1>1, <1>2 DEF FishInv, RunInv, QuietInv, WriterEffect, WriterKeeps
<1>8. PhaseInv'
  <2> SUFFICES ASSUME cl.childPid = TRUE PROVE PhaseInv'
    BY <1>1 DEF PhaseInv, WriterEffect, WriterKeeps
  <2>0. Replies(ToCome)' <=> Replies(ToCome)
    BY <1>3 DEF Replies
  <2>1. CASE alive = FALSE
    <3>0. cl.rawWrite <= 0 => cl'.rawWrite <= 0
      <4>1. cl.rawWrite \in Nat \cup {-1}
        BY ConnectionFields DEF FishInv, FishTypeInv
      <4> QED
        BY <1>1, <4>1 DEF WriterEffect
    <3>1. DeadPhase'
      BY <1>1, <1>2, <1>3, <2>0, <2>1, <3>0 DEF FishInv, PhaseInv, DeadPhase, serverVars, WriterEffect, WriterKeeps
    <3> QED
      BY <1>2, <2>1, <3>1 DEF PhaseInv
  <2>2. CASE alive = TRUE
    <3>0. cl.rawWrite \in Nat \cup {-1} /\ cl.sendLen \in Nat \cup {-1} /\ cl'.rawWrite \in Nat \cup {-1} /\ cl'.sendLen = cl.sendLen
          /\ Len(cl.rawData) \in Nat /\ cl.rawData \in Seq(Portion)
      BY <1>1 DEF FishInv, FishTypeInv, ConnectionSet, WriterEffect, WriterKeeps
    <3>1. CASE srv.mode = "login" /\ LoginPhase
      <4>1. cl.rawWrite < 0
        BY <3>0, <3>1 DEF FishInv, CurrentInv, LoginPhase, Writing
      <4>3. ToRead' = ToRead
        BY <1>1, <3>0, <4>1 DEF WriterEffect
      <4>2. LoginPhase'
        BY <1>3, <3>1, <4>3 DEF LoginPhase
      <4> QED
        BY <1>2, <2>2, <3>1, <4>2 DEF PhaseInv, serverVars
    <3>2. CASE srv.mode = "code" /\ CodePhase
      <4>1. cl.rawWrite < 0
        BY <3>0, <3>2 DEF FishInv, CurrentInv, CodePhase, Writing
      <4>3. ToRead' = ToRead /\ cl'.qlist = << >>
        BY <1>1, <3>0, <3>2, <4>1 DEF WriterEffect, CodePhase
      <4>2. CodePhase'
        BY <1>2, <1>3, <2>0, <3>2, <4>3 DEF CodePhase, serverVars
      <4> QED
        BY <1>2, <2>2, <3>2, <4>2 DEF PhaseInv, serverVars
    <3>3. CASE srv.mode = "alt" /\ AltPhase
      <4>1. cl.rawWrite = -1 /\ cl'.rawWrite = -1 /\ ToRead' = ToRead
        BY <1>1, <3>3 DEF AltPhase, WriterEffect
      <4>2. AltPhase'
        BY <1>2, <1>3, <3>0, <3>3, <4>1 DEF AltPhase, Announced, serverVars
      <4> QED
        BY <1>2, <2>2, <3>3, <4>2 DEF PhaseInv, serverVars
    <3>4. CASE srv.mode = "data" /\ DataPhase
      <4>0. srv' = srv /\ Announced' /\ cl'.qlist = << >> /\ srv.left \in Nat /\ Current' = Current /\ Current.name \in Writing /\ srv.c = Current
        BY <1>1, <1>2, <1>3, <3>0, <3>4 DEF DataPhase, Announced, WriterEffect, serverVars, FishInv, FishTypeInv, ServerSet
      <4>1. CASE cl'.rawWrite = cl.rawWrite /\ ToRead' = ToRead
        <5>1. DataPhase'
          BY <1>3, <3>4, <4>0, <4>1 DEF DataPhase, Announced
        <5> QED
          BY <1>2, <2>2, <3>4, <4>0, <5>1 DEF PhaseInv
      <4>2. CASE cl.rawWrite > 0 /\ cl'.rawWrite = 0 /\ ToRead' = ToRead \o DataUnits(cl.rawData)
        <5>1. ToCome = << >> /\ ToRead = << >> /\ srv.left = cl.rawWrite /\ cl.rawWrite = Len(cl.rawData)
          BY <3>4, <4>2 DEF DataPhase, FishInv, BufferInv, CurrentInv
        <5>2. ToRead' = DataUnits(cl.rawData) /\ Len(ToRead') = srv.left
          BY <3>0, <4>2, <5>1, DataFacts, Appended DEF FishInv
        <5>3. \A i \in 1 .. srv.left : ToRead'[i].u = "data"
          BY <3>0, <5>1, <5>2, DataFacts
        <5>4. DataPhase'
          BY <1>3, <4>0, <4>2, <5>1, <5>2, <5>3 DEF DataPhase
        <5> QED
          BY <1>2, <2>2, <3>4, <4>0, <5>4 DEF PhaseInv
      <4>3. CASE cl.rawWrite = 0 /\ cl'.rawWrite = -1 /\ ToRead' = ToRead \o <<Newlines>>
        <5>1. /\ ToCome = << >> /\ Len(ToRead) = srv.left /\ \A i \in 1 .. srv.left : ToRead[i].u = "data"
          BY <3>4, <4>3 DEF DataPhase
        <5>2. /\ Len(ToRead') = srv.left + 1 /\ \A i \in 1 .. srv.left : ToRead'[i] = ToRead[i]
              /\ ToRead'[srv.left + 1] = Newlines
          BY <4>0, <4>3, <5>1, OtherUnits, Appended DEF FishInv
        <5>3. \A i \in srv.left + 1 .. Len(ToRead') : IsNoise(ToRead'[i])
          BY <4>0, <5>2, OtherUnits DEF IsNoise
        <5>4. DataPhase'
          BY <1>3, <4>0, <4>3, <5>1, <5>2, <5>3 DEF DataPhase
        <5> QED
          BY <1>2, <2>2, <3>4, <4>0, <5>4 DEF PhaseInv
      <4> QED
        BY <1>1, <4>1, <4>2, <4>3 DEF WriterEffect
    <3>5. CASE srv.mode = "main" /\ CommandPhase
      <4>1. cl.rawWrite = -1 /\ cl'.rawWrite = -1 /\ ToRead' = ToRead
        BY <1>1, <3>5 DEF CommandPhase, WriterEffect
      <4>2. CommandPhase'
        BY <1>2, <1>3, <3>0, <3>5, <4>1 DEF CommandPhase, Announced, serverVars
      <4> QED
        BY <1>2, <2>2, <3>5, <4>2 DEF PhaseInv, serverVars
    <3>6. CASE srv.mode = "main" /\ ReplyPhase
      <4>1. CASE cl'.rawWrite = cl.rawWrite /\ ToRead' = ToRead
        <5>1. ReplyPhase'
          BY <1>3, <2>0, <3>0, <3>6, <4>1 DEF ReplyPhase
        <5> QED
          BY <1>2, <2>2, <3>6, <5>1 DEF PhaseInv, serverVars
      <4>2. CASE cl.rawWrite = 0 /\ cl'.rawWrite = -1 /\ ToRead' = ToRead \o <<Newlines>>
        <5>1. Len(ToRead) \in Nat /\ Len(ToRead') = Len(ToRead) + 1 /\ (\A i \in 1 .. Len(ToRead) : ToRead'[i] = ToRead[i])
              /\ ToRead'[Len(ToRead) + 1] = Newlines /\ (ToRead = << >> => Len(ToRead) = 0)
          BY <4>2, OtherUnits, Appended, EmptySeq DEF FishInv
        <5>2. \A i \in 1 .. Len(ToRead') : IsNoise(ToRead'[i])
          BY <3>6, <5>1, OtherUnits DEF ReplyPhase, IsNoise
        <5>3. \A i \in 1 .. Len(ToCome) : IsGo(ToCome[i]) => Current.name # "FISH" /\ Current.name \notin Writing
          BY <3>6, <4>2 DEF ReplyPhase
        <5>4. ReplyPhase'
          BY <1>3, <2>0, <3>6, <4>2, <5>1, <5>2, <5>3 DEF ReplyPhase
        <5> QED
          BY <1>2, <2>2, <3>6, <5>4 DEF PhaseInv, serverVars
      <4>3. cl.rawWrite <= 0
        BY <3>6 DEF ReplyPhase
      <4> QED
        BY <1>1, <3>0, <4>1, <4>2, <4>3 DEF WriterEffect
    <3> QED
      BY <2>2, <3>1, <3>2, <3>3, <3>4, <3>5, <3>6 DEF FishInv, PhaseInv
  <2> QED
    BY <2>1, <2>2 DEF FishInv, FishTypeInv
<1> QED
  BY <1>4, <1>5, <1>6, <1>7, <1>8 DEF FishInv

-----------------------------------------------------------------------------
(* Steps that leave the client's buffer and what is on its way as it is.   *)

LEMMA PhaseStays ==
  ASSUME PhaseInv, QuietInv, ToCome' = ToCome, UNCHANGED <<cl, srv, alive, toServer>>, alive = FALSE => srvOut' = srvOut
  PROVE  PhaseInv' /\ QuietInv'
<1>1. ToRead' = ToRead /\ Current' = Current
  BY DEF ToRead, Current
<1>2. Replies(ToCome)' <=> Replies(ToCome)
  BY <1>1 DEF Replies
<1>3. DeadPhase /\ alive = FALSE => DeadPhase'
  BY <1>1, <1>2 DEF DeadPhase
<1>4. (LoginPhase => LoginPhase') /\ (CodePhase => CodePhase') /\ (AltPhase => AltPhase')
  BY <1>1, <1>2 DEF LoginPhase, CodePhase, AltPhase, Announced
<1>5. DataPhase => DataPhase'
  BY <1>1, <1>2 DEF DataPhase, Announced
<1>6. (CommandPhase => CommandPhase') /\ (ReplyPhase => ReplyPhase')
  BY <1>1, <1>2 DEF CommandPhase, ReplyPhase, Announced
<1> QED
  BY <1>1, <1>3, <1>4, <1>5, <1>6 DEF PhaseInv, QuietInv

(* Each unit on its way is of the current command, and while one is, at    *)
(* most the shell's line of that command is to be read.                    *)
LEMMA OnItsWay ==
  ASSUME FishTypeInv, PhaseInv, cl.childPid = TRUE
  PROVE  /\ Replies(ToCome)
         /\ alive = TRUE /\ ToCome # << >> => Len(ToRead) <= 1
         /\ \A i \in 1 .. Len(ToCome) : IsFinal(ToCome[i]) =>
              /\ cl.rawWrite <= 0
              /\ Current.name \in Writing => cl.sendLen <= 0 \/ \A j \in 1 .. Len(ToCome) : ~IsGo(ToCome[j])
<1>1. CASE alive = FALSE
  BY <1>1 DEF PhaseInv, DeadPhase
<1>2. CASE alive = TRUE
  <2>0. ToCome = << >> => Replies(ToCome) /\ Len(ToCome) = 0
    BY Empties DEF Replies
  <2>1. CASE LoginPhase \/ AltPhase \/ CommandPhase
    BY <2>0, <2>1 DEF LoginPhase, AltPhase, CommandPhase
  <2>2. CASE CodePhase
    <3>1. ToRead = << >> \/ Len(ToRead) = 1
      BY <2>2, OtherUnits DEF CodePhase
    <3> QED
      BY <2>2, <3>1, Empties DEF CodePhase, IsFinal, IsGo
  <2>3. CASE DataPhase
    <3>1. ToCome = Printed(Current.id, <<Status(100)>>) =>
            Replies(ToCome) /\ \A i \in 1 .. Len(ToCome) : ~IsFinal(ToCome[i])
      BY DEF Printed, Replies, Status, Unit, IsFinal, IsGo
    <3> QED
      BY <2>0, <2>3, <3>1, Empties DEF DataPhase
  <2>4. CASE ReplyPhase
    BY <2>4 DEF ReplyPhase
  <2> QED
    BY <1>2, <2>1, <2>2, <2>3, <2>4 DEF PhaseInv
<1> QED
  BY <1>1, <1>2 DEF FishTypeInv

LEMMA SelectReadsKeeps ==
  ASSUME FishInv, SelectReads, UNCHANGED <<serverVars, appVars>>
  PROVE  FishInv'
<1>1. /\ pc = "select" /\ toClient # << >> /\ pc' = "parse" /\ UNCHANGED <<toServer, alive, cl, jobVars, serverVars>>
      /\ ~(cl.outBusy /\ Writable)
  BY DEF SelectReads, Selecting
<1>2. inBuf = << >> /\ cl.childPid = TRUE
  BY <1>1 DEF FishInv, RunInv
<1>3. ToCome' = ToCome /\ inBuf' \in Seq(ServerUnit) /\ toClient' \in Seq(ServerUnit) /\ srvOut' = srvOut
  BY <1>1, <1>2, Moves DEF FishInv, serverVars
<1>4. FishTypeInv'
  BY <1>1, <1>3 DEF FishInv, FishTypeInv, serverVars, jobVars
<1>5. BufferInv' /\ CurrentInv'
  BY <1>1 DEF FishInv, BufferInv, CurrentInv, Current
<1>6. PhaseInv' /\ QuietInv'
  BY <1>1, <1>3, PhaseStays DEF FishInv, serverVars
<1>7. cl.outBuf = << >>
  <2> SUFFICES ASSUME cl.outBuf # << >> PROVE FALSE
    OBVIOUS
  <2>1. cl.outBusy = TRUE
    BY DEF FishInv, BufferInv
  <2>2. Room \in Nat \ {0} /\ ~(Len(toServer) < Room)
    BY <1>1, <2>1, RoomAssumption DEF Writable
  <2>3. Len(toServer) \in Nat /\ Len(toServer) > 0 /\ Len(cl.outBuf) \in Nat \ {0}
    <3>1. toServer \in Seq(ClientUnit) /\ cl.outBuf \in Seq(ClientUnit)
      BY ConnectionFields DEF FishInv, FishTypeInv
    <3> QED
      BY <2>2, <3>1, EmptySeq, LenProperties
  <2>4. Len(ToRead) = Len(toServer) + Len(cl.outBuf) /\ ToCome # << >>
    BY <1>1, Streams DEF FishInv
  <2>5. toServer # << >> /\ (alive = TRUE \/ toServer = << >>)
    BY <1>2, <2>3, Empties DEF FishInv, PhaseInv, DeadPhase, FishTypeInv
  <2>6. Len(ToRead) <= 1
    BY <1>2, <2>4, <2>5, OnItsWay DEF FishInv
  <2> QED
    BY <2>3, <2>4, <2>6
<1>8. RunInv'
  BY <1>1, <1>2, <1>7 DEF FishInv, RunInv
<1> QED
  BY <1>4, <1>5, <1>6, <1>8 DEF FishInv

(* run() and received() return, and an operation is asked for.             *)
LEMMA TurnKeeps ==
  ASSUME FishInv, UNCHANGED <<wireVars, server, fs, srv, srvOut, cl, inBuf>>,
         \/ RunEnds /\ UNCHANGED job
         \/ ParseEnds /\ UNCHANGED job
         \/ pc = "idle" /\ pc' = "open" /\ job' \in JobSet
         \/ UNCHANGED <<pc, job>>,
         toPut' \in Seq(Portion)
  PROVE  FishInv'
<1>1. ToCome' = ToCome
  BY DEF ToCome, wireVars
<1>2. FishTypeInv'
  <2>1. pc' \in {"idle", "open", "select", "parse"} /\ (pc' # "idle" => job' \in JobSet)
    BY DEF FishInv, FishTypeInv, RunEnds, ParseEnds
  <2> QED
    BY <2>1 DEF FishInv, FishTypeInv, wireVars
<1>3. BufferInv' /\ CurrentInv'
  BY DEF FishInv, BufferInv, CurrentInv, Current
<1>4. PhaseInv' /\ QuietInv'
  BY <1>1, PhaseStays DEF FishInv, wireVars
<1>5. RunInv'
  <2>1. cl.isRunning \in BOOLEAN
    BY ConnectionFields DEF FishInv, FishTypeInv
  <2> QED
    BY <2>1 DEF FishInv, RunInv, RunEnds, ParseEnds
<1> QED
  BY <1>2, <1>3, <1>4, <1>5 DEF FishInv

LEMMA BreakKeeps ==
  ASSUME FishInv, ConnectionBreaks
  PROVE  FishInv'
<1>1. /\ cl.childPid = TRUE /\ alive = TRUE /\ alive' = FALSE /\ toServer' = << >> /\ srvOut' = << >>
      /\ UNCHANGED <<server, toClient, fs, srv, cl, inBuf, job, pc, toPut>>
  BY ConnectionFields DEF ConnectionBreaks, FishInv, FishTypeInv, clientVars
<1>2. FishTypeInv'
  BY <1>1, Empties DEF FishInv, FishTypeInv
<1>3. BufferInv' /\ CurrentInv' /\ RunInv'
  BY <1>1 DEF FishInv, BufferInv, CurrentInv, RunInv, Current
<1> DEFINE kept == inBuf \o toClient
<1>4. kept \in Seq(ServerUnit) /\ ToCome' = kept /\ ToCome = kept \o srvOut /\ srvOut \in Seq(ServerUnit)
  <2>1. inBuf \in Seq(ServerUnit) /\ toClient \in Seq(ServerUnit) /\ srvOut \in Seq(ServerUnit)
    BY DEF FishInv, FishTypeInv
  <2> QED
    <3>1. kept \in Seq(ServerUnit)
      BY <2>1, ConcatProperties
    <3>2. ToCome = kept \o srvOut
      BY <2>1, ConcatAssociative DEF ToCome
    <3>3. toClient \o << >> = toClient
      BY <2>1, ConcatEmptySeq
    <3>4. ToCome' = inBuf \o (toClient \o << >>)
      BY <1>1 DEF ToCome
    <3> QED
      BY <2>1, <3>1, <3>2, <3>3, <3>4
<1>5. Current' = Current
  BY <1>1 DEF Current
<1> DEFINE Bounded(units) ==
             \A i \in 1 .. Len(units) : IsFinal(units[i]) =>
               /\ cl.rawWrite <= 0
               /\ Current.name \in Writing => cl.sendLen <= 0 \/ \A j \in 1 .. Len(units) : ~IsGo(units[j])
<1>6. Replies(ToCome) /\ Bounded(ToCome)
  BY <1>1, OnItsWay DEF FishInv
<1> HIDE DEF kept
<1>7. Replies(kept) /\ Bounded(kept)
  <2>1. Len(kept) \in Nat /\ Len(srvOut) \in Nat /\ Len(ToCome) = Len(kept) + Len(srvOut)
        /\ \A i \in 1 .. Len(kept) : ToCome[i] = kept[i]
    <3>1. Len(kept) \in Nat /\ Len(srvOut) \in Nat
      BY <1>4, LenProperties
    <3> QED
      BY <1>4, <3>1, ConcatProperties
  <2> QED
    BY <1>6, <2>1 DEF Replies
<1>8. Replies(ToCome)'
  BY <1>4, <1>5, <1>7 DEF Replies
<1>9. PhaseInv'
  BY <1>1, <1>4, <1>5, <1>7, <1>8 DEF PhaseInv, DeadPhase
<1>10. QuietInv'
  BY <1>1, <1>4, ConcatEqualIffEmpty DEF FishInv, QuietInv
<1> QED
  BY <1>2, <1>3, <1>9, <1>10 DEF FishInv

-----------------------------------------------------------------------------
(* The end of a reply, and what follows it.                                *)

LEMMA ShutdownKeeps ==
  ASSUME FishInv, NEW e, ShutdownError(e), UNCHANGED <<wireVars, server, fs, srv, srvOut, toPut>>
  PROVE  FishInv' /\ WaitInv'
<1>1. cl \in ConnectionSet
  BY DEF FishInv, FishTypeInv
<1> DEFINE s == Shutdown(cl)
<1>2. /\ s \in ConnectionSet /\ s.childPid = FALSE /\ s.outBuf = << >> /\ s.qlist = << >> /\ s.writeReady = TRUE
      /\ s.rawRead = 0 /\ s.rawWrite = -1 /\ s.sendLen = -1
  BY <1>1, Empties DEF Shutdown, ConnectionSet
<1> HIDE DEF s
<1>3. cl' = [s EXCEPT !.commandList = << >>, !.isRunning = FALSE] /\ pc' = "idle" /\ inBuf' = << >>
  BY DEF ShutdownError, Error, s
<1>4. /\ cl' \in ConnectionSet /\ cl'.childPid = FALSE /\ cl'.outBuf = << >> /\ cl'.qlist = << >> /\ cl'.writeReady = TRUE
      /\ cl'.rawRead = 0 /\ cl'.rawWrite = -1 /\ cl'.sendLen = -1 /\ cl'.isRunning = FALSE /\ cl'.commandList = << >>
  BY <1>2, <1>3, Empties DEF ConnectionSet
<1>5. FishTypeInv'
  BY <1>3, <1>4, Empties DEF FishInv, FishTypeInv, wireVars
<1>6. BufferInv' /\ RunInv'
  BY <1>3, <1>4 DEF BufferInv, RunInv
<1>7. CurrentInv'
  BY <1>4, Empties DEF CurrentInv, Queue
<1>8. PhaseInv' /\ QuietInv'
  BY <1>4 DEF PhaseInv, QuietInv
<1>9. WaitInv'
  BY <1>4 DEF WaitInv, Waiting
<1> QED
  BY <1>9, <1>5, <1>6, <1>7, <1>8 DEF FishInv

(* A reply's last unit leaves nothing to read, and the server waiting for  *)
(* a command.                                                              *)
LEMMA LastUnit ==
  ASSUME FishInv, pc = "parse", inBuf # << >>, IsFinal(Head(inBuf))
  PROVE  /\ Tail(inBuf) = << >> /\ toClient = << >> /\ srvOut = << >> /\ cl.childPid = TRUE
         /\ cl.outBuf = << >> /\ cl.qlist = << >> /\ cl.writeReady = TRUE /\ cl.rawWrite <= 0
         /\ alive = FALSE => toServer = << >>
         /\ alive = TRUE => srv.mode = "main" /\ ReplyPhase /\ \A i \in 1 .. Len(toServer) : IsNoise(toServer[i])
<1>1. cl.childPid = TRUE /\ cl.outBuf = << >>
  BY DEF FishInv, RunInv
<1>2. /\ inBuf \in Seq(ServerUnit) /\ toClient \in Seq(ServerUnit) /\ srvOut \in Seq(ServerUnit)
      /\ toClient \o srvOut \in Seq(ServerUnit) /\ Len(toClient \o srvOut) = Len(toClient) + Len(srvOut)
  BY ConcatProperties DEF FishInv, FishTypeInv
<1>3. Len(inBuf) \in Nat \ {0} /\ Len(toClient) \in Nat /\ Len(srvOut) \in Nat
  BY <1>2, EmptySeq, LenProperties
<1>4. Len(ToCome) = Len(inBuf) + (Len(toClient) + Len(srvOut)) /\ ToCome[1] = Head(inBuf)
  <2>1. Len(ToCome) = Len(inBuf) + Len(toClient \o srvOut) /\ ToCome[1] = inBuf[1]
    BY <1>2, <1>3, ConcatProperties DEF ToCome
  <2> QED
    BY <1>2, <1>3, <2>1
<1>5. Replies(ToCome)
  BY <1>1, OnItsWay DEF FishInv
<1>6. 1 = Len(ToCome)
  BY <1>3, <1>4, <1>5 DEF Replies
<1>7. Len(inBuf) = 1 /\ Len(toClient) = 0 /\ Len(srvOut) = 0
  BY <1>3, <1>4, <1>6
<1>8. toClient = << >> /\ srvOut = << >> /\ Tail(inBuf) = << >>
  <2>1. Tail(inBuf) \in Seq(ServerUnit) /\ Len(Tail(inBuf)) = 0
    BY <1>2, <1>7, HeadTailProperties
  <2> QED
    BY <1>2, <1>7, <2>1, EmptySeq
<1>9. cl.qlist = << >> /\ cl.writeReady = TRUE
  <2>1. Current \in RequestSet
    BY ConnectionFields DEF FishInv, FishTypeInv, Current
  <2>2. cl.outBuf # Lines(Current) /\ cl.outBuf # <<ShellLine(Current)>>
    BY <1>1, <2>1, LinesFacts, Empties
  <2> QED
    BY <2>2 DEF FishInv, BufferInv
<1>10. alive = FALSE => toServer = << >> /\ cl.rawWrite <= 0
  BY <1>1, <1>4, <1>6 DEF FishInv, PhaseInv, DeadPhase
<1>11. ASSUME alive = TRUE PROVE srv.mode = "main" /\ ReplyPhase /\ \A i \in 1 .. Len(toServer) : IsNoise(toServer[i])
  <2>1. ToCome # << >> /\ IsFinal(ToCome[1]) /\ ~IsGo(ToCome[1]) /\ ToCome[1].k = "status"
    BY <1>4, <1>6, Empties DEF IsFinal, IsGo
  <2>2. ~LoginPhase /\ ~AltPhase /\ ~CommandPhase
    BY <2>1 DEF LoginPhase, AltPhase, CommandPhase
  <2>3. ~CodePhase
    BY <1>6, <2>1 DEF CodePhase
  <2>4. ~DataPhase
    <3>1. ToCome # Printed(Current.id, <<Status(100)>>)
      BY <2>1 DEF Printed, Status, Unit, IsFinal
    <3> QED
      BY <2>1, <3>1 DEF DataPhase
  <2>5. srv.mode = "main" /\ ReplyPhase
    BY <1>1, <1>11, <2>2, <2>3, <2>4 DEF FishInv, PhaseInv
  <2>6. ToRead = toServer
    BY <1>1, Streams DEF FishInv
  <2> QED
    BY <2>5, <2>6 DEF ReplyPhase
<1>12. cl.rawWrite <= 0
  BY <1>10, <1>11 DEF FishInv, FishTypeInv, ReplyPhase
<1> QED
  BY <1>1, <1>8, <1>9, <1>10, <1>11, <1>12

LEMMA FinishedFacts ==
  ASSUME NEW s \in ConnectionSet, s.qlist = << >>, s.writeReady = TRUE, s.outBuf = << >>, NEW t, t = Finished(s)
  PROVE  /\ t \in ConnectionSet /\ t.childPid = s.childPid /\ t.sendLen = s.sendLen /\ t.rawData = s.rawData
         /\ s.commandList = << >> =>
              /\ t.isRunning = FALSE /\ t.commandList = << >> /\ t.qlist = << >> /\ t.writeReady = TRUE /\ t.outBuf = << >>
              /\ t.outBusy = s.outBusy /\ t.rawWrite = s.rawWrite /\ t.rawRead = s.rawRead /\ t.fishCommand = s.fishCommand
         /\ s.commandList # << >> =>
              LET c == Head(s.commandList) IN
              /\ c \in RequestSet /\ t.fishCommand = c /\ t.qlist = <<c>> /\ t.writeReady = FALSE
              /\ t.outBuf = Lines(c) /\ t.outBusy = TRUE /\ t.rawWrite = -1 /\ t.rawRead = 0
              /\ t.commandList = Tail(s.commandList) /\ t.isRunning = s.isRunning
<1>1. CASE s.commandList = << >>
  <2>1. t = [s EXCEPT !.isRunning = FALSE]
    BY <1>1 DEF Finished
  <2> QED
    BY <1>1, <2>1 DEF ConnectionSet
<1>2. CASE s.commandList # << >>
  <2> DEFINE c == Head(s.commandList)
             r == [s EXCEPT !.fishCommand = c, !.errorCount = -TextLines(c.name),
                            !.rawRead = 0, !.rawWrite = -1, !.commandList = Tail(s.commandList)]
  <2>1. c \in RequestSet /\ Tail(s.commandList) \in Seq(RequestSet) /\ -TextLines(c.name) \in Int
    BY <1>2, ConnectionFields, HeadTailProperties DEF TextLines
  <2>2. t = WriteStdin(r, c)
    BY <1>2 DEF Finished
  <2> HIDE DEF c
  <2>3. /\ r \in ConnectionSet /\ r.childPid = s.childPid /\ r.sendLen = s.sendLen /\ r.rawData = s.rawData
        /\ r.qlist = << >> /\ r.writeReady = TRUE /\ r.outBuf = << >> /\ r.rawWrite = -1 /\ r.rawRead = 0
        /\ r.commandList = Tail(s.commandList) /\ r.fishCommand = c /\ r.isRunning = s.isRunning
    BY <2>1 DEF ConnectionSet
  <2> HIDE DEF r
  <2>4. Append(<< >>, c) = <<c>> /\ <<c>> \in Seq(RequestSet) /\ Head(<<c>>) = c
    BY <2>1, Single, TailOfSingle
  <2> DEFINE w == [r EXCEPT !.qlist = <<c>>, !.writeReady = FALSE]
             l == Lines(c)
  <2>5. l \in Seq(ClientUnit)
    BY <2>1, LinesFacts
  <2>6. t = WriteChild(w, l)
    <3>1. t = LET queued == [r EXCEPT !.qlist = <<c>>] IN
              WriteChild([queued EXCEPT !.writeReady = FALSE], Lines(Head(queued.qlist)))
      BY <2>2, <2>3, <2>4 DEF WriteStdin, ConnectionSet
    <3>2. [r EXCEPT !.qlist = <<c>>].qlist = <<c>>
      BY <2>3 DEF ConnectionSet
    <3>3. [[r EXCEPT !.qlist = <<c>>] EXCEPT !.writeReady = FALSE] = w
      BY <2>3 DEF ConnectionSet
    <3> QED
      BY <2>4, <3>1, <3>2, <3>3
  <2> HIDE DEF l
  <2>7. w.outBuf = << >>
    BY <2>3 DEF ConnectionSet
  <2>8. t = [w EXCEPT !.outBuf = l, !.outBusy = TRUE]
    BY <2>6, <2>7 DEF WriteChild
  <2>9. /\ t \in ConnectionSet /\ t.childPid = r.childPid /\ t.sendLen = r.sendLen /\ t.rawData = r.rawData
        /\ t.qlist = <<c>> /\ t.writeReady = FALSE /\ t.outBuf = l /\ t.outBusy = TRUE /\ t.rawWrite = r.rawWrite /\ t.rawRead = r.rawRead
        /\ t.commandList = r.commandList /\ t.fishCommand = r.fishCommand /\ t.isRunning = r.isRunning
    BY ZenonT(90), <2>3, <2>4, <2>5, <2>8 DEF ConnectionSet
  <2> QED
    BY <1>2, <2>1, <2>3, <2>9 DEF c, l
<1> QED
  BY <1>1, <1>2

(* Nothing is on its way, and the server waits for a command.              *)
QuietWire ==
  /\ inBuf' = << >> /\ toClient = << >> /\ srvOut = << >>
  /\ UNCHANGED <<wireVars, server, fs, srv, srvOut>>
  /\ alive = FALSE => toServer = << >>
  /\ alive = TRUE => srv.mode = "main" /\ \A i \in 1 .. Len(toServer) : IsNoise(toServer[i])

(* A connection that is free to send the next command.                     *)
Free(s) ==
  /\ s \in ConnectionSet /\ s.qlist = << >> /\ s.writeReady = TRUE /\ s.outBuf = << >> /\ s.childPid = TRUE
Ready(s) ==
  /\ Free(s) /\ s.commandList # << >> /\ s.isRunning = TRUE
  /\ Head(s.commandList).name \notin {"none", "FISH"} /\ Queue(Tail(s.commandList))
  /\ Head(s.commandList).name \in Writing =>
       Tail(s.commandList) = << >> /\ Head(s.commandList).n = (IF s.sendLen > 0 THEN s.sendLen ELSE 0)
  /\ s.sendLen > 0 => Head(s.commandList).name \in {"WRITE", "APPEND"} /\ Len(s.rawData) = s.sendLen

LEMMA QuietComes ==
  ASSUME FishInv, QuietWire
  PROVE  ToCome' = << >> /\ inBuf' \in Seq(ServerUnit) /\ toClient' = << >> /\ srvOut' = << >> /\ toServer' = toServer
         /\ alive' = alive /\ srv' = srv /\ fs' = fs /\ server' = server
<1>1. inBuf' = << >> /\ toClient' = << >> /\ srvOut' = << >>
  BY DEF QuietWire, wireVars
<1>2. << >> \o << >> = << >>
  BY Empties, ConcatEmptySeq
<1> QED
  BY <1>1, <1>2, Empties DEF QuietWire, wireVars, ToCome

LEMMA LineAtEnd ==
  ASSUME NEW s \in Seq(ClientUnit), NEW t \in Seq(ClientUnit), NEW i \in 1 .. Len(t), t[i].u = "line"
  PROVE  \E k \in 1 .. Len(s \o t) : (s \o t)[k].u = "line"
<1> DEFINE n == Len(s) + i
<1>1. Len(s) \in Nat /\ Len(t) \in Nat /\ Len(s \o t) = Len(s) + Len(t) /\ n \in 1 .. Len(s) + Len(t) /\ n > Len(s) /\ n - Len(s) = i
  BY ConcatProperties, LenProperties
<1>2. (s \o t)[n] = t[n - Len(s)]
  BY <1>1, ConcatProperties
<1> QED
  BY <1>1, <1>2

LEMMA LineStays ==
  ASSUME NEW s \in Seq(ClientUnit), NEW t \in Seq(ClientUnit), \E i \in 1 .. Len(s) : s[i].u = "line"
  PROVE  \E k \in 1 .. Len(s \o t) : (s \o t)[k].u = "line"
<1>0. PICK i \in 1 .. Len(s) : s[i].u = "line"
  OBVIOUS
<1>1. Len(s) \in Nat /\ Len(t) \in Nat /\ Len(s \o t) = Len(s) + Len(t) /\ i \in 1 .. Len(s) + Len(t) /\ i <= Len(s)
  BY ConcatProperties, LenProperties
<1>2. (s \o t)[i] = s[i]
  BY <1>1, ConcatProperties
<1> QED
  BY <1>0, <1>1, <1>2

LEMMA CommandSent ==
  ASSUME FishInv, NEW s, Ready(s), cl' = Finished(s), QuietWire,
         pc' \in {"select", "parse"}, job' = job, pc # "idle", toPut' \in Seq(Portion)
  PROVE  FishInv' /\ WaitInv'
<1> DEFINE c == Head(s.commandList)
<1>1. /\ cl' \in ConnectionSet /\ cl'.childPid = TRUE /\ cl'.sendLen = s.sendLen /\ cl'.rawData = s.rawData
      /\ c \in RequestSet /\ cl'.fishCommand = c /\ cl'.qlist = <<c>> /\ cl'.writeReady = FALSE
      /\ cl'.outBuf = Lines(c) /\ cl'.outBusy = TRUE /\ cl'.rawWrite = -1 /\ cl'.rawRead = 0
      /\ cl'.commandList = Tail(s.commandList) /\ cl'.isRunning = TRUE
  BY ZenonT(90), FinishedFacts DEF Ready, Free
<1>2. /\ c.name \notin {"none", "FISH"} /\ Queue(Tail(s.commandList))
      /\ c.name \in Writing => Tail(s.commandList) = << >> /\ c.n = (IF s.sendLen > 0 THEN s.sendLen ELSE 0)
      /\ s.sendLen > 0 => c.name \in {"WRITE", "APPEND"} /\ Len(s.rawData) = s.sendLen
  BY DEF Ready
<1> HIDE DEF c
<1>3. /\ ToCome' = << >> /\ inBuf' = << >> /\ toClient' = << >> /\ srvOut' = << >> /\ toServer' = toServer
      /\ alive' = alive /\ srv' = srv /\ fs' = fs /\ server' = server
  BY QuietComes DEF QuietWire
<1>4. FishTypeInv'
  BY <1>1, <1>3, Empties DEF FishInv, FishTypeInv
<1>5. BufferInv'
  BY <1>1 DEF BufferInv, Current
<1>6. CurrentInv'
  BY <1>1, <1>2 DEF CurrentInv, Current
<1>7. RunInv'
  BY <1>1, <1>3 DEF RunInv
<1>8. PhaseInv'
  <2>1. CASE alive = FALSE
    <3>1. DeadPhase'
      BY <1>3, <2>1, Empties DEF QuietWire, DeadPhase, Replies
    <3> QED
      BY <1>3, <2>1, <3>1 DEF PhaseInv
  <2>2. CASE alive = TRUE
    <3>1. toServer \in Seq(ClientUnit) /\ Len(toServer) \in Nat /\ Lines(c) \in Seq(ClientUnit) /\ Len(Lines(c)) = 2
      BY <1>1, LinesFacts DEF FishInv, FishTypeInv
    <3>2. ToRead' = toServer \o Lines(c)
      BY <1>1, <1>3 DEF ToRead
    <3>3. /\ Len(ToRead') = Len(toServer) + 2 /\ \A i \in 1 .. Len(toServer) : ToRead'[i] = toServer[i]
          /\ ToRead'[Len(toServer) + 1] = Lines(c)[1] /\ ToRead'[Len(toServer) + 2] = Lines(c)[2]
      <4>1. Len(toServer \o Lines(c)) = Len(toServer) + Len(Lines(c))
            /\ \A i \in 1 .. Len(toServer) + Len(Lines(c)) :
                 (toServer \o Lines(c))[i] = IF i <= Len(toServer) THEN toServer[i] ELSE Lines(c)[i - Len(toServer)]
        BY <3>1, ConcatProperties
      <4> QED
        BY <3>1, <3>2, <4>1
    <3>4. ToRead'[Len(ToRead') - 1] = CommandLine(c) /\ ToRead'[Len(ToRead')] = ShellLine(c) /\ Len(ToRead') >= 2
      BY <1>1, <3>1, <3>3, LinesFacts
    <3>5. \A i \in 1 .. Len(ToRead') - 2 : IsNoise(ToRead'[i])
      BY <2>2, <3>1, <3>3 DEF QuietWire, IsNoise
    <3>6. Announced' /\ Current' = c
      BY <1>1, <1>2 DEF Announced, Current
    <3>7. CommandPhase'
      BY <1>1, <1>2, <1>3, <3>4, <3>5, <3>6 DEF CommandPhase
    <3> QED
      BY <1>3, <2>2, <3>7 DEF PhaseInv, QuietWire
  <2> QED
    BY <2>1, <2>2 DEF FishInv, FishTypeInv
<1>9. QuietInv'
  BY <1>1 DEF QuietInv
<1>10. Asked'
  <2>1. ToRead' = toServer \o Lines(c)
    BY <1>1, <1>3 DEF ToRead
  <2>2. toServer \in Seq(ClientUnit) /\ Lines(c) \in Seq(ClientUnit) /\ Len(Lines(c)) = 2 /\ Lines(c)[1].u = "line"
    BY <1>1, LinesFacts DEF FishInv, FishTypeInv
  <2> QED
    BY SMTT(60), <2>1, <2>2, LineAtEnd DEF Asked
<1>11. WaitInv'
  <2>1. Len(ToCome') = 0 /\ ToRead' # << >>
    BY <1>3, <1>10, Empties DEF Asked
  <2> QED
    BY <1>1, <1>10, <2>1 DEF WaitInv, MainWaits, CodeWaits, CountInv
<1> QED
  BY <1>4, <1>5, <1>6, <1>7, <1>8, <1>9, <1>11 DEF FishInv

(* A job is over: nothing is left to send.                                 *)
LEMMA JobOver ==
  ASSUME FishInv, QuietWire, cl' \in ConnectionSet, cl'.childPid = TRUE, cl'.isRunning = FALSE, cl'.commandList = << >>,
         cl'.qlist = << >>, cl'.writeReady = TRUE, cl'.outBuf = << >>, cl'.rawWrite <= 0, cl'.sendLen <= 0,
         cl'.fishCommand = Current, cl'.rawRead = cl.rawRead, cl'.rawWrite = cl.rawWrite,
         pc' \in {"idle", "parse"}, job' = job, pc # "idle", toPut' \in Seq(Portion)
  PROVE  FishInv' /\ WaitInv'
<1>1. /\ ToCome' = << >> /\ inBuf' = << >> /\ toClient' = << >> /\ srvOut' = << >> /\ toServer' = toServer
      /\ alive' = alive /\ srv' = srv /\ fs' = fs /\ server' = server
  BY QuietComes DEF QuietWire
<1>2. Current' = Current /\ cl'.rawWrite \in Nat \cup {-1} /\ cl'.sendLen \in Nat \cup {-1}
  BY ConnectionFields DEF Current
<1>3. FishTypeInv'
  BY <1>1, Empties DEF FishInv, FishTypeInv
<1>4. BufferInv'
  BY <1>2 DEF BufferInv
<1>5. CurrentInv'
  <2>1. Queue(<< >>)
    BY Empties DEF Queue
  <2> QED
    BY <1>2, <2>1 DEF FishInv, CurrentInv
<1>6. RunInv'
  BY <1>1 DEF RunInv
<1>7. Replies(<< >>)'
  BY Empties DEF Replies
<1>8. ToRead' = toServer
  <2>1. toServer \in Seq(ClientUnit)
    BY DEF FishInv, FishTypeInv
  <2> QED
    BY <1>1, <2>1, ConcatEmptySeq DEF ToRead
<1>9. alive = TRUE => srv'.mode = "main" /\ ReplyPhase'
  BY <1>1, <1>2, <1>7, <1>8, Empties DEF QuietWire, ReplyPhase
<1>10. alive = FALSE => DeadPhase'
  BY <1>1, <1>7, Empties DEF QuietWire, DeadPhase
<1>11. PhaseInv' /\ QuietInv'
  BY <1>1, <1>9, <1>10 DEF PhaseInv, QuietInv
<1>12. WaitInv'
  BY DEF WaitInv, Waiting
<1> QED
  BY <1>12, <1>3, <1>4, <1>5, <1>6, <1>11 DEF FishInv

-----------------------------------------------------------------------------
(* A unit of a reply is handled. *)

LEMMA TailOfReplies ==
  ASSUME NEW units \in Seq(ServerUnit), units # << >>
  PROVE  /\ Len(units) \in Nat \ {0} /\ Len(Tail(units)) = Len(units) - 1 /\ Tail(units) \in Seq(ServerUnit)
         /\ \A i \in 1 .. Len(Tail(units)) : i + 1 \in 1 .. Len(units) /\ Tail(units)[i] = units[i + 1]
         /\ Replies(units) => Replies(Tail(units))
<1>1. /\ Len(units) \in Nat \ {0} /\ Len(Tail(units)) = Len(units) - 1 /\ Tail(units) \in Seq(ServerUnit)
      /\ \A i \in 1 .. Len(Tail(units)) : Tail(units)[i] = units[i + 1]
  BY HeadTailProperties, EmptySeq
<1>2. \A i \in 1 .. Len(Tail(units)) : i + 1 \in 1 .. Len(units)
  BY <1>1
<1>3. ASSUME Replies(units) PROVE Replies(Tail(units))
  <2> SUFFICES ASSUME NEW i \in 1 .. Len(Tail(units))
               PROVE  /\ Tail(units)[i].id = Current.id
                      /\ IsFinal(Tail(units)[i]) => i = Len(Tail(units))
                      /\ Tail(units)[i].k = "status" => Tail(units)[i].v \notin {0, 1}
                      /\ IsGo(Tail(units)[i]) /\ Current.name = "FISH" => i = Len(Tail(units))
                      /\ Tail(units)[i].k = "blank" => Current.name = "FISH"
    BY DEF Replies
  <2>1. i + 1 \in 1 .. Len(units) /\ Tail(units)[i] = units[i + 1]
    BY <1>1, <1>2
  <2>2. i \in Int /\ Len(Tail(units)) = Len(units) - 1 /\ Len(units) \in Int
    BY <1>1
  <2> DEFINE n == Len(units)
             m == Len(Tail(units))
  <2>4. i \in Int /\ m = n - 1 /\ n \in Int
    BY <2>2
  <2> HIDE DEF n, m
  <2>5. i + 1 = n => i = m
    BY <2>4
  <2>3. i + 1 = Len(units) => i = Len(Tail(units))
    BY <2>5 DEF n, m
  <2> QED
    BY <1>3, <2>1, <2>3 DEF Replies
<1> QED
  BY <1>1, <1>2, <1>3

(* What handling a unit has in common, whatever the unit is.               *)
Handling ==
  /\ pc = "parse" /\ pc' = pc /\ inBuf # << >> /\ inBuf' = Tail(inBuf) /\ UNCHANGED <<wireVars, server, fs, srv, srvOut, job, toPut>>
  /\ cl' \in ConnectionSet
  /\ cl'.childPid = cl.childPid /\ cl'.commandList = cl.commandList /\ cl'.fishCommand = cl.fishCommand
  /\ cl'.sendLen = cl.sendLen /\ cl'.rawData = cl.rawData /\ cl'.qlist = cl.qlist /\ cl'.writeReady = cl.writeReady
  /\ cl'.isRunning = cl.isRunning
  /\ cl'.rawRead > 0 => Current.name \in {"RETR", "READ"}

LEMMA HandlingFacts ==
  ASSUME FishInv, Handling
  PROVE  /\ FishTypeInv' /\ Current' = Current /\ cl.childPid = TRUE /\ cl.isRunning = TRUE
         /\ cl.outBuf = << >> /\ cl.qlist = << >> /\ cl.writeReady = TRUE
         /\ ToCome \in Seq(ServerUnit) /\ ToCome # << >> /\ ToCome[1] = Head(inBuf) /\ ToCome' = Tail(ToCome) /\ Replies(ToCome)
         /\ QuietInv' /\ (ToCome' = << >> => inBuf' = << >>)
<1>1. toClient' = toClient /\ srvOut' = srvOut /\ Current' = Current
  BY DEF Handling, wireVars, Current
<1>2. /\ ToCome # << >> /\ Head(ToCome) = Head(inBuf) /\ ToCome' = Tail(ToCome) /\ inBuf' \in Seq(ServerUnit)
  BY <1>1, Handles DEF FishInv, Handling
<1>3. ToCome \in Seq(ServerUnit) /\ ToCome[1] = Head(inBuf)
  BY <1>2, Streams DEF FishInv
<1>4. FishTypeInv'
  BY <1>2 DEF FishInv, FishTypeInv, Handling, wireVars
<1>5. cl.childPid = TRUE /\ cl.outBuf = << >>
  BY DEF FishInv, RunInv, Handling
<1>6. cl.isRunning = TRUE
  BY <1>2, <1>5, ConnectionFields DEF FishInv, FishTypeInv, QuietInv
<1>7. cl.qlist = << >> /\ cl.writeReady = TRUE
  <2>1. Current \in RequestSet
    BY ConnectionFields DEF FishInv, FishTypeInv, Current
  <2>2. cl.outBuf # Lines(Current) /\ cl.outBuf # <<ShellLine(Current)>>
    BY <1>5, <2>1, LinesFacts, Empties
  <2> QED
    BY <2>2 DEF FishInv, BufferInv
<1>8. QuietInv'
  BY <1>6 DEF QuietInv, Handling
<1>9. ToCome' = << >> => inBuf' = << >>
  <2>1. toClient \in Seq(ServerUnit) /\ srvOut \in Seq(ServerUnit) /\ toClient \o srvOut \in Seq(ServerUnit)
    BY ConcatProperties DEF FishInv, FishTypeInv
  <2>2. ToCome' = inBuf' \o (toClient \o srvOut)
    BY <1>1 DEF ToCome
  <2>3. inBuf' \in Seq(ServerUnit)
    BY <1>2
  <2> QED
    BY <2>1, <2>2, <2>3, EmptyParts
<1> QED
  BY <1>1, <1>2, <1>3, <1>4, <1>5, <1>6, <1>7, <1>8, <1>9, OnItsWay DEF FishInv

(* Most units ask for nothing to be written.                               *)
LEMMA UnitHandled ==
  ASSUME FishInv, Handling, cl'.rawWrite = cl.rawWrite, cl'.outBuf = cl.outBuf, cl'.outBusy = cl.outBusy,
         IsGo(Head(inBuf)) => Current.name \notin Writing \cup {"FISH"}
  PROVE  FishInv'
<1>1. /\ FishTypeInv' /\ Current' = Current /\ cl.childPid = TRUE /\ cl.isRunning = TRUE /\ cl.outBuf = << >>
      /\ ToCome \in Seq(ServerUnit) /\ ToCome # << >> /\ ToCome[1] = Head(inBuf) /\ ToCome' = Tail(ToCome) /\ Replies(ToCome)
      /\ QuietInv'
  BY HandlingFacts
<1>2. BufferInv' /\ CurrentInv' /\ RunInv'
  BY <1>1 DEF FishInv, BufferInv, CurrentInv, RunInv, Handling
<1>3. /\ Len(ToCome) \in Nat \ {0} /\ Len(ToCome') = Len(ToCome) - 1
      /\ \A i \in 1 .. Len(ToCome') : i + 1 \in 1 .. Len(ToCome) /\ ToCome'[i] = ToCome[i + 1]
      /\ Replies(Tail(ToCome))
  BY <1>1, TailOfReplies
<1>4. Replies(ToCome)'
  BY <1>1, <1>3 DEF Replies
<1>5. ToRead' = ToRead /\ srv' = srv /\ alive' = alive /\ toServer' = toServer /\ srvOut' = srvOut
  BY DEF ToRead, Handling, wireVars
<1>6. CASE alive = FALSE
  <2>1. DeadPhase
    BY <1>1, <1>6 DEF FishInv, PhaseInv
  <2>2. ASSUME NEW i \in 1 .. Len(ToCome'), IsFinal(ToCome'[i])
        PROVE  /\ cl'.rawWrite <= 0
               /\ Current.name \in Writing => cl'.sendLen <= 0 \/ \A j \in 1 .. Len(ToCome') : ~IsGo(ToCome'[j])
    BY <1>3, <2>1, <2>2 DEF DeadPhase, Handling
  <2>3. DeadPhase'
    BY <1>1, <1>4, <1>5, <2>1, <2>2 DEF DeadPhase
  <2> QED
    BY <1>5, <1>6, <2>3, <1>1, <1>2 DEF FishInv, PhaseInv
<1>7. CASE alive = TRUE
  <2>1. ~LoginPhase /\ ~AltPhase /\ ~CommandPhase
    BY <1>1 DEF LoginPhase, AltPhase, CommandPhase
  <2>2. ~DataPhase
    <3>1. ToCome = Printed(Current.id, <<Status(100)>>) => IsGo(ToCome[1])
      BY DEF Printed, Status, Unit, IsGo
    <3> QED
      BY <1>1, <3>1 DEF DataPhase
  <2>3. CASE srv.mode = "code" /\ CodePhase
    <3>1. \A i \in 1 .. Len(ToCome') : ToCome'[i].k = "status" => i = Len(ToCome') /\ IsGo(ToCome'[i])
      <4> TAKE i \in 1 .. Len(ToCome')
      <4>1. i + 1 \in 1 .. Len(ToCome) /\ ToCome'[i] = ToCome[i + 1] /\ (i + 1 = Len(ToCome) => i = Len(ToCome'))
        BY <1>3
      <4> QED
        BY <2>3, <4>1 DEF CodePhase
    <3>2. CodePhase'
      BY <1>1, <1>4, <1>5, <2>3, <3>1 DEF CodePhase, Handling
    <3> QED
      BY <1>5, <1>7, <2>3, <3>2, <1>1, <1>2 DEF FishInv, PhaseInv
  <2>4. CASE srv.mode = "main" /\ ReplyPhase
    <3>1. ASSUME NEW i \in 1 .. Len(ToCome'), IsGo(ToCome'[i])
          PROVE  Current.name # "FISH" /\ Current.name \notin Writing
      <4>1. i + 1 \in 1 .. Len(ToCome) /\ ToCome'[i] = ToCome[i + 1] /\ i + 1 # 1
        BY <1>3
      <4> QED
        BY <2>4, <3>1, <4>1 DEF ReplyPhase
    <3>2. ReplyPhase'
      BY <1>1, <1>4, <1>5, <2>4, <3>1 DEF ReplyPhase
    <3> QED
      BY <1>5, <1>7, <2>4, <3>2, <1>1, <1>2 DEF FishInv, PhaseInv
  <2> QED
    BY <1>1, <1>7, <2>1, <2>2, <2>3, <2>4 DEF FishInv, PhaseInv
<1> QED
  BY <1>1, <1>2, <1>6, <1>7 DEF FishInv, FishTypeInv

(* fish.pl is asked for: its source goes out.                              *)
LEMMA CodeWanted ==
  ASSUME FishInv, Handling, cl'.rawWrite = cl.rawWrite, cl'.outBuf = <<FishCode>>, cl'.outBusy = TRUE,
         IsGo(Head(inBuf)), Current.name = "FISH"
  PROVE  FishInv'
<1>1. /\ FishTypeInv' /\ Current' = Current /\ cl.childPid = TRUE /\ cl.isRunning = TRUE /\ cl.outBuf = << >>
      /\ cl.qlist = << >> /\ cl.writeReady = TRUE
      /\ ToCome \in Seq(ServerUnit) /\ ToCome # << >> /\ ToCome[1] = Head(inBuf) /\ ToCome' = Tail(ToCome) /\ Replies(ToCome)
      /\ QuietInv' /\ (ToCome' = << >> => inBuf' = << >>)
  BY HandlingFacts
<1>2. ToCome' = << >> /\ inBuf' = << >>
  <2>1. Len(ToCome) \in Nat \ {0} /\ Len(Tail(ToCome)) = Len(ToCome) - 1 /\ Tail(ToCome) \in Seq(ServerUnit)
    BY <1>1, TailOfReplies
  <2>2. Len(ToCome) = 1
    <3>1. 1 \in 1 .. Len(ToCome) /\ IsGo(ToCome[1])
      BY <1>1, <2>1
    <3> QED
      BY <1>1, <3>1 DEF Replies
  <2>3. Len(Tail(ToCome)) = 0 /\ Tail(ToCome) \in Seq(ServerUnit)
    BY <2>1, <2>2
  <2>4. Tail(ToCome) = << >>
    BY <2>3, EmptySeq
  <2> QED
    BY <1>1, <2>4
<1>3. cl.rawWrite = -1
  BY ConnectionFields DEF FishInv, FishTypeInv, CurrentInv, Writing
<1>4. BufferInv' /\ CurrentInv' /\ RunInv'
  BY <1>1, <1>2, <1>3 DEF FishInv, BufferInv, CurrentInv, RunInv, Handling
<1>5. Replies(ToCome)'
  BY <1>2, Empties DEF Replies
<1>6. srv' = srv /\ alive' = alive /\ toServer' = toServer /\ srvOut' = srvOut
  BY DEF Handling, wireVars
<1>7. CASE alive = FALSE
  <2>1. DeadPhase'
    <3>1. DeadPhase
      BY <1>1, <1>7 DEF FishInv, PhaseInv
    <3>2. Len(ToCome') = 0
      BY <1>2, Empties
    <3> QED
      BY <1>5, <1>6, <3>1, <3>2 DEF DeadPhase
  <2> QED
    BY <1>1, <1>4, <1>6, <1>7, <2>1 DEF FishInv, PhaseInv
<1>8. CASE alive = TRUE
  <2>1. ~LoginPhase /\ ~AltPhase /\ ~CommandPhase /\ ~DataPhase
    BY <1>1 DEF LoginPhase, AltPhase, CommandPhase, DataPhase, Writing
  <2>2. ~ReplyPhase
    <3>1. 1 \in 1 .. Len(ToCome)
      BY <1>1, TailOfReplies
    <3> QED
      BY <1>1, <3>1 DEF ReplyPhase
  <2>3. srv.mode = "code" /\ CodePhase
    BY <1>1, <1>8, <2>1, <2>2 DEF FishInv, PhaseInv
  <2>4. toServer = << >>
    <3>1. ToRead = << >>
      BY <1>1, <2>3 DEF CodePhase
    <3> QED
      BY <3>1, Streams DEF FishInv
  <2>5. ToRead' = <<FishCode>>
    BY <1>6, <2>4, OtherUnits, ConcatEmptySeq DEF ToRead
  <2>6. CodePhase'
    BY <1>1, <1>2, <1>5, <1>6, <2>3, <2>5, Empties DEF CodePhase, Handling
  <2> QED
    BY <1>6, <1>8, <2>3, <2>6, <1>1, <1>4 DEF FishInv, PhaseInv
<1> QED
  BY <1>1, <1>4, <1>7, <1>8 DEF FishInv, FishTypeInv

(* The data of a writing command is asked for.                             *)
LEMMA DataWanted ==
  ASSUME FishInv, Handling, cl'.rawWrite = cl.sendLen, cl'.outBuf = << >>, cl'.outBusy = TRUE,
         IsGo(Head(inBuf)), Current.name \in Writing
  PROVE  FishInv'
<1>1. /\ FishTypeInv' /\ Current' = Current /\ cl.childPid = TRUE /\ cl.isRunning = TRUE /\ cl.outBuf = << >>
      /\ cl.qlist = << >> /\ cl.writeReady = TRUE
      /\ ToCome \in Seq(ServerUnit) /\ ToCome # << >> /\ ToCome[1] = Head(inBuf) /\ ToCome' = Tail(ToCome) /\ Replies(ToCome)
      /\ QuietInv'
  BY HandlingFacts
<1>2. BufferInv' /\ CurrentInv' /\ RunInv'
  BY <1>1 DEF FishInv, BufferInv, CurrentInv, RunInv, Handling
<1>3. /\ Len(ToCome) \in Nat \ {0} /\ Len(ToCome') = Len(ToCome) - 1
      /\ \A i \in 1 .. Len(ToCome') : i + 1 \in 1 .. Len(ToCome) /\ ToCome'[i] = ToCome[i + 1]
      /\ Replies(Tail(ToCome)) /\ ToCome' \in Seq(ServerUnit)
  BY <1>1, TailOfReplies
<1>4. Replies(ToCome)'
  BY <1>1, <1>3 DEF Replies
<1>5. ToRead' = ToRead /\ srv' = srv /\ alive' = alive /\ toServer' = toServer /\ srvOut' = srvOut
  BY <1>1 DEF ToRead, Handling, wireVars
<1>6. 1 \in 1 .. Len(ToCome) /\ IsGo(ToCome[1])
  BY <1>1, <1>3
<1>7. CASE alive = FALSE
  <2>1. DeadPhase
    BY <1>1, <1>7 DEF FishInv, PhaseInv
  <2>2. ASSUME NEW i \in 1 .. Len(ToCome'), IsFinal(ToCome'[i])
        PROVE  cl.sendLen <= 0
    BY <1>3, <1>6, <2>1, <2>2 DEF DeadPhase
  <2>3. DeadPhase'
    BY <1>1, <1>4, <1>5, <2>1, <2>2 DEF DeadPhase, Handling
  <2> QED
    BY <1>5, <1>7, <2>3, <1>1, <1>2 DEF FishInv, PhaseInv
<1>8. CASE alive = TRUE
  <2>1. ~LoginPhase /\ ~AltPhase /\ ~CommandPhase /\ ~CodePhase
    BY <1>1 DEF LoginPhase, AltPhase, CommandPhase, CodePhase, Writing
  <2>2. CASE srv.mode = "data" /\ DataPhase
    <3>1. ToCome = Printed(Current.id, <<Status(100)>>) /\ ToRead = << >> /\ srv.left = Current.n
      BY <1>1, <2>2 DEF DataPhase
    <3>2. Len(ToCome) = 1
      BY <3>1 DEF Printed
    <3>3. ToCome' = << >>
      BY <1>3, <3>2, EmptySeq
    <3>4. cl.sendLen \in Nat \cup {-1} /\ srv.left = (IF cl.sendLen > 0 THEN cl.sendLen ELSE 0) /\ Announced /\ Announced'
      BY <1>1, <2>2, <3>1, ConnectionFields DEF FishInv, FishTypeInv, DataPhase, Announced, Handling
    <3>5. DataPhase'
      BY SMTT(60), <1>1, <1>5, <2>2, <3>1, <3>3, <3>4, Empties DEF DataPhase, Handling
    <3> QED
      BY <1>5, <1>8, <2>2, <3>5, <1>1, <1>2 DEF FishInv, PhaseInv
  <2>3. CASE srv.mode = "main" /\ ReplyPhase
    <3>1. cl.sendLen <= 0 /\ ToRead = << >>
      BY <1>6, <2>3 DEF ReplyPhase
    <3>2. ASSUME NEW i \in 1 .. Len(ToCome'), IsGo(ToCome'[i]) PROVE FALSE
      <4>1. i + 1 \in 1 .. Len(ToCome) /\ ToCome'[i] = ToCome[i + 1] /\ i + 1 # 1
        BY <1>3
      <4> QED
        BY <2>3, <3>2, <4>1 DEF ReplyPhase
    <3>3. ReplyPhase'
      BY <1>1, <1>4, <1>5, <3>1, <3>2, Empties DEF ReplyPhase
    <3> QED
      BY <1>5, <1>8, <2>3, <3>3, <1>1, <1>2 DEF FishInv, PhaseInv
  <2> QED
    BY <1>1, <1>8, <2>1, <2>2, <2>3 DEF FishInv, PhaseInv
<1> QED
  BY <1>1, <1>2, <1>7, <1>8 DEF FishInv, FishTypeInv

(* Nobody comes to wait because of a unit that does not end a reply.       *)
LEMMA UnitWaits ==
  ASSUME FishInv, WaitInv, Handling, cl.rawRead > 0 \/ ~IsFinal(Head(inBuf)) \/ Current.name = "EXEC",
         IsGo(Head(inBuf)) /\ Current.name = "FISH" => cl'.outBuf # << >>,
         Reading =>
           \/ cl.rawRead > 0 /\ cl'.rawRead = cl.rawRead - 1 /\ cl'.recvLen = cl.recvLen
           \/ /\ cl.rawRead = 0 /\ cl'.rawRead = 0 /\ ~IsGo(Head(inBuf))
              /\ Current.name = "RETR" /\ Head(inBuf).k = "number" => cl'.recvLen = Head(inBuf).v
           \/ /\ cl.rawRead = 0 /\ IsGo(Head(inBuf))
              /\ cl'.rawRead = (IF Current.name = "READ" THEN MimeBytes ELSE cl.recvLen)
  PROVE  WaitInv'
<1>1. SUFFICES ASSUME Waiting' PROVE MainWaits' /\ CodeWaits' /\ CountInv'
  BY DEF WaitInv
<1>2. /\ FishTypeInv' /\ Current' = Current /\ cl.childPid = TRUE /\ cl.isRunning = TRUE /\ cl.outBuf = << >>
      /\ ToCome \in Seq(ServerUnit) /\ ToCome # << >> /\ ToCome[1] = Head(inBuf) /\ ToCome' = Tail(ToCome) /\ Replies(ToCome)
  BY HandlingFacts
<1>3. Waiting /\ srv' = srv /\ alive' = alive /\ alive = TRUE /\ Current.name # "EXEC" /\ toServer' = toServer
  BY <1>1, <1>2 DEF Waiting, Handling, wireVars, Current
<1>4. MainWaits /\ CodeWaits /\ CountInv
  BY <1>3 DEF WaitInv
<1>5. /\ Len(ToCome) \in Nat \ {0} /\ Len(ToCome') = Len(ToCome) - 1 /\ ToCome' \in Seq(ServerUnit)
      /\ \A i \in 1 .. Len(ToCome') : i + 1 \in 1 .. Len(ToCome) /\ ToCome'[i] = ToCome[i + 1]
  BY <1>2, TailOfReplies
<1>6. ToRead \in Seq(ClientUnit) /\ cl'.outBuf \in Seq(ClientUnit) /\ ToRead' = ToRead \o cl'.outBuf
  <2>1. toServer \in Seq(ClientUnit) /\ ToRead = toServer
    BY <1>2, Streams DEF FishInv, FishTypeInv
  <2>2. cl'.outBuf \in Seq(ClientUnit)
    BY ConnectionFields DEF Handling
  <2> QED
    BY <1>3, <2>1, <2>2 DEF ToRead
<1>7. Asked => Asked'
  BY <1>6, LineStays DEF Asked
<1>8. ToRead # << >> \/ cl'.outBuf # << >> => ToRead' # << >>
  BY <1>6, ConcatEqualIffEmpty
<1> DEFINE n == Len(ToCome)
<1>9. ~IsFinal(ToCome[1])
  <2>1. SUFFICES ASSUME cl.rawRead > 0 PROVE ~IsFinal(ToCome[1])
    BY <1>2, <1>3
  <2>2. Reading /\ Len(ToCome) > cl.rawRead /\ cl.rawRead \in Nat
    BY <1>4, <2>1, ConnectionFields DEF FishInv, FishTypeInv, CurrentInv, Reading, CountInv
  <2>3. 1 \in 1 .. n /\ n # 1
    BY <1>5, <2>1, <2>2
  <2> QED
    BY <1>2, <2>3 DEF Replies
<1>10. MainWaits'
  <2>1. SUFFICES ASSUME srv.mode = "main", Ends(ToCome) PROVE Ends(ToCome')
    BY <1>3, <1>4, <1>7 DEF MainWaits
  <2>2. n # 1
    BY <1>9, <2>1 DEF Ends
  <2>3. Len(ToCome') \in 1 .. Len(ToCome') /\ Len(ToCome') + 1 = Len(ToCome)
    BY <1>5, <2>2
  <2>4. ToCome'[Len(ToCome')] = ToCome[Len(ToCome)] /\ ToCome' # << >>
    BY <1>5, <2>3, Empties
  <2> QED
    BY <2>1, <2>4 DEF Ends
<1>11. CodeWaits'
  <2>1. SUFFICES ASSUME srv.mode = "code", ToRead' = << >> PROVE ToCome' # << >> /\ IsGo(ToCome'[Len(ToCome')])
    BY <1>3 DEF CodeWaits
  <2>2. IsGo(ToCome[n]) /\ Current.name = "FISH"
    BY <1>2, <1>3, <1>4, <1>8, <2>1 DEF CodeWaits, FishInv, PhaseInv, CodePhase
  <2>3. n # 1
    BY <1>2, <1>8, <2>1, <2>2
  <2>4. Len(ToCome') \in 1 .. Len(ToCome') /\ Len(ToCome') + 1 = Len(ToCome)
    BY <1>5, <2>3
  <2>5. ToCome'[Len(ToCome')] = ToCome[Len(ToCome)] /\ ToCome' # << >>
    BY <1>5, <2>4, Empties
  <2> QED
    BY <2>2, <2>5
<1>12. CountInv'
  <2>1. SUFFICES ASSUME Reading PROVE CountInv'
    BY <1>2 DEF CountInv, Reading
  <2>2. cl.rawRead \in Nat /\ cl.recvLen \in Nat \cup {-1} /\ Announces(1) \in Nat \cup {-1}
        /\ Announces(1) = (IF Current.name = "READ" THEN MimeBytes ELSE cl.recvLen)
    BY ConnectionFields, MimeBytesAssumption DEF FishInv, FishTypeInv, Announces
  <2>3. /\ cl.rawRead > 0 => Len(ToCome) > cl.rawRead /\ \A i \in 1 .. Len(ToCome) : ~IsGo(ToCome[i])
        /\ \A i \in 1 .. Len(ToCome) : IsGo(ToCome[i]) => DataComes(i)
    BY <1>4, <2>1 DEF CountInv
  <2>4. 1 \in 1 .. Len(ToCome)
    BY <1>5
  <2>5. CASE cl.rawRead > 0 /\ cl'.rawRead = cl.rawRead - 1 /\ cl'.recvLen = cl.recvLen
    <3>1. Len(ToCome') > cl'.rawRead
      BY <1>5, <2>2, <2>3, <2>5
    <3>2. \A i \in 1 .. Len(ToCome') : ~IsGo(ToCome'[i])
      BY <1>5, <2>3, <2>5
    <3> QED
      BY <3>1, <3>2 DEF CountInv
  <2>6. CASE /\ cl.rawRead = 0 /\ cl'.rawRead = 0 /\ ~IsGo(Head(inBuf))
             /\ Current.name = "RETR" /\ Head(inBuf).k = "number" => cl'.recvLen = Head(inBuf).v
    <3>1. ASSUME NEW i \in 1 .. Len(ToCome'), IsGo(ToCome'[i]) PROVE DataComes(i)'
      <4>1. i + 1 \in 1 .. Len(ToCome) /\ ToCome'[i] = ToCome[i + 1] /\ i \in Nat \ {0}
        BY <1>5
      <4>2. DataComes(i + 1)
        BY <2>3, <3>1, <4>1
      <4>3. i # 1 => i - 1 \in 1 .. Len(ToCome') /\ (i - 1) + 1 = i
        BY <1>5, <4>1
      <4>4. i # 1 => ToCome'[i - 1] = ToCome[i]
        BY <1>5, <4>3
      <4>5. Current.name = "RETR" => ToCome[i].k = "number"
        <5>1. i + 1 # 1 /\ (i + 1) - 1 = i
          BY <4>1
        <5> QED
          BY <4>2, <5>1 DEF DataComes
      <4>6. Announces(i)' = Announces(i + 1)
        <5>1. i + 1 # 1 /\ (i + 1) - 1 = i
          BY <4>1
        <5>2. CASE Current.name = "READ"
          BY <1>2, <5>2 DEF Announces
        <5>3. CASE Current.name = "RETR" /\ i = 1
          BY <1>2, <2>6, <4>5, <5>1, <5>3 DEF Announces
        <5>4. CASE Current.name = "RETR" /\ i # 1
          BY <1>2, <4>4, <5>1, <5>4 DEF Announces
        <5> QED
          BY <2>1, <5>2, <5>3, <5>4 DEF Reading
      <4>7. Announces(i + 1) \in Int
        <5>1. i + 1 # 1 /\ (i + 1) - 1 = i /\ i \in 1 .. Len(ToCome)
          BY <1>5, <4>1
        <5>2. ToCome[i] \in ServerUnit
          BY <1>2, <5>1, ElementOfSeq
        <5> QED
          BY <5>1, <5>2, MimeBytesAssumption DEF Announces, ServerUnit
      <4>8. Len(ToCome') > i + Announces(i)'
        <5>1. Len(ToCome) > (i + 1) + Announces(i + 1)
          BY <4>2 DEF DataComes
        <5> QED
          BY <1>5, <4>1, <4>6, <4>7, <5>1
      <4>9. ASSUME NEW j \in 1 .. Len(ToCome'), IsGo(ToCome'[j]) PROVE j = i
        <5>1. j + 1 \in 1 .. Len(ToCome) /\ ToCome'[j] = ToCome[j + 1]
          BY <1>5
        <5>2. j + 1 = i + 1
          BY <4>2, <4>9, <5>1 DEF DataComes
        <5> QED
          BY <4>1, <5>2
      <4>10. Current'.name = "RETR" /\ i # 1 => ToCome'[i - 1].k = "number"
        BY <1>2, <4>4, <4>5
      <4> QED
        BY <4>8, <4>9, <4>10 DEF DataComes
    <3> QED
      BY <2>6, <3>1 DEF CountInv
  <2>7. CASE /\ cl.rawRead = 0 /\ IsGo(Head(inBuf))
             /\ cl'.rawRead = (IF Current.name = "READ" THEN MimeBytes ELSE cl.recvLen)
    <3>1. DataComes(1) /\ cl'.rawRead = Announces(1)
      BY <1>2, <2>2, <2>3, <2>4, <2>7
    <3>2. Len(ToCome') > cl'.rawRead
      <4>1. Len(ToCome) > 1 + Announces(1)
        BY <3>1 DEF DataComes
      <4> QED
        BY <1>5, <2>2, <3>1, <4>1
    <3>3. ASSUME NEW i \in 1 .. Len(ToCome') PROVE ~IsGo(ToCome'[i])
      <4>1. i + 1 \in 1 .. Len(ToCome) /\ ToCome'[i] = ToCome[i + 1] /\ i + 1 # 1
        BY <1>5
      <4> QED
        BY <3>1, <4>1 DEF DataComes
    <3> QED
      BY <3>2, <3>3 DEF CountInv
  <2> QED
    BY <2>1, <2>5, <2>6, <2>7
<1> QED
  BY <1>10, <1>11, <1>12

LEMMA UnitFacts ==
  ASSUME FishInv, pc = "parse", inBuf # << >>
  PROVE  /\ Head(inBuf) \in ServerUnit /\ Head(inBuf).id = Current.id
         /\ Head(inBuf).k = "status" => Rc = Head(inBuf).v /\ (IsGo(Head(inBuf)) <=> Rc = 100) /\ (IsFinal(Head(inBuf)) <=> Rc # 100)
         /\ Head(inBuf).k = "blank" => Current.name = "FISH"
         /\ Tail(inBuf) \in Seq(ServerUnit) /\ cl.childPid = TRUE /\ cl.isRunning = TRUE /\ cl.outBuf = << >>
<1>1. inBuf \in Seq(ServerUnit) /\ toClient \o srvOut \in Seq(ServerUnit) /\ Len(toClient \o srvOut) \in Nat /\ Len(inBuf) \in Nat \ {0}
  BY ConcatProperties, EmptySeq, LenProperties DEF FishInv, FishTypeInv
<1>2. Head(inBuf) \in ServerUnit /\ Tail(inBuf) \in Seq(ServerUnit) /\ Head(inBuf) = inBuf[1]
  BY <1>1, HeadTailProperties
<1>3. 1 \in 1 .. Len(ToCome) /\ ToCome[1] = inBuf[1] /\ ToCome # << >>
  <2>1. Len(ToCome) = Len(inBuf) + Len(toClient \o srvOut) /\ ToCome[1] = inBuf[1]
    BY <1>1, ConcatProperties DEF ToCome
  <2> QED
    BY <1>1, <2>1, Empties
<1>4. cl.childPid = TRUE /\ cl.outBuf = << >>
  BY DEF FishInv, RunInv
<1>5. cl.isRunning = TRUE
  BY <1>3, <1>4, ConnectionFields DEF FishInv, FishTypeInv, QuietInv
<1>6. Replies(ToCome)
  BY <1>4, OnItsWay DEF FishInv
<1>7. /\ Head(inBuf).id = Current.id /\ (Head(inBuf).k = "blank" => Current.name = "FISH")
      /\ Head(inBuf).k = "status" => Head(inBuf).v \notin {0, 1}
  BY <1>2, <1>3, <1>6 DEF Replies
<1>8. Head(inBuf).k = "status" => Rc = Head(inBuf).v
  BY <1>7 DEF Rc, Code
<1> QED
  BY <1>2, <1>4, <1>5, <1>7, <1>8 DEF IsGo, IsFinal

LEMMA QueueRest ==
  ASSUME NEW list \in Seq(RequestSet), list # << >>, Queue(list)
  PROVE  /\ Head(list) \in RequestSet /\ Head(list).name \notin {"none", "FISH", "WRITE", "APPEND"}
         /\ Tail(list) \in Seq(RequestSet) /\ Queue(Tail(list)) /\ (Head(list).name = "STOR" => Tail(list) = << >>)
<1>1. /\ Len(list) \in Nat \ {0} /\ Head(list) \in RequestSet /\ Head(list) = list[1]
      /\ Tail(list) \in Seq(RequestSet) /\ Len(Tail(list)) = Len(list) - 1
      /\ \A i \in 1 .. Len(Tail(list)) : Tail(list)[i] = list[i + 1]
  BY HeadTailProperties, EmptySeq
<1>2. Head(list).name \notin {"none", "FISH", "WRITE", "APPEND"} /\ (Head(list).name = "STOR" => Len(list) = 1)
  <2>1. 1 \in 1 .. Len(list)
    BY <1>1
  <2>2. list[1].name \notin {"none", "FISH", "WRITE", "APPEND"} /\ (list[1].name = "STOR" => 1 = Len(list))
    BY <2>1 DEF Queue
  <2> QED
    BY <1>1, <2>2
<1>3. Head(list).name = "STOR" => Tail(list) = << >>
  BY <1>1, <1>2, EmptySeq
<1>4. Queue(Tail(list))
  <2> SUFFICES ASSUME NEW i \in 1 .. Len(Tail(list))
               PROVE  /\ Tail(list)[i].name \notin {"none", "FISH", "WRITE", "APPEND"}
                      /\ Tail(list)[i].name = "STOR" => i = Len(Tail(list))
    BY DEF Queue
  <2> DEFINE n == Len(list)
             m == Len(Tail(list))
  <2>1. i \in 1 .. m /\ m = n - 1 /\ n \in Nat
    BY <1>1
  <2> HIDE DEF n, m
  <2>2. i + 1 \in 1 .. n /\ (i + 1 = n => i = m)
    BY <2>1
  <2>3. Tail(list)[i] = list[i + 1]
    BY <1>1
  <2> QED
    BY <2>2, <2>3 DEF Queue, n, m
<1> QED
  BY <1>1, <1>2, <1>3, <1>4

LEMMA GoesOn ==
  ASSUME FishInv, pc = "parse", inBuf # << >>, IsFinal(Head(inBuf)), NEW s \in ConnectionSet,
         s.childPid = cl.childPid, s.qlist = cl.qlist, s.writeReady = cl.writeReady, s.outBuf = cl.outBuf,
         s.rawWrite = cl.rawWrite, s.rawRead = cl.rawRead, s.fishCommand = cl.fishCommand, s.isRunning = cl.isRunning,
         s.commandList = << >> => s.sendLen <= 0,
         s.commandList # << >> =>
           /\ Head(s.commandList).name \notin {"none", "FISH"} /\ Queue(Tail(s.commandList))
           /\ Head(s.commandList).name \in Writing =>
                Tail(s.commandList) = << >> /\ Head(s.commandList).n = (IF s.sendLen > 0 THEN s.sendLen ELSE 0)
           /\ s.sendLen > 0 => Head(s.commandList).name \in {"WRITE", "APPEND"} /\ Len(s.rawData) = s.sendLen,
         Go(Finished(s)), UNCHANGED <<wireVars, server, fs, srv, srvOut, job>>, toPut' \in Seq(Portion)
  PROVE  FishInv' /\ WaitInv'
<1>1. /\ Tail(inBuf) = << >> /\ toClient = << >> /\ srvOut = << >> /\ cl.childPid = TRUE
      /\ cl.outBuf = << >> /\ cl.qlist = << >> /\ cl.writeReady = TRUE /\ cl.rawWrite <= 0
      /\ alive = FALSE => toServer = << >>
      /\ alive = TRUE => srv.mode = "main" /\ \A i \in 1 .. Len(toServer) : IsNoise(toServer[i])
  BY LastUnit
<1>2. QuietWire /\ pc' = pc /\ cl' = Finished(s)
  BY <1>1 DEF QuietWire, Go
<1>3. cl.isRunning = TRUE
  BY UnitFacts
<1>4. CASE s.commandList # << >>
  <2>1. Ready(s)
    BY <1>1, <1>3, <1>4 DEF Ready, Free
  <2> QED
    BY <1>2, <2>1, CommandSent
<1>5. CASE s.commandList = << >>
  <2>1. /\ cl' \in ConnectionSet /\ cl'.childPid = TRUE /\ cl'.isRunning = FALSE /\ cl'.commandList = << >>
        /\ cl'.qlist = << >> /\ cl'.writeReady = TRUE /\ cl'.outBuf = << >> /\ cl'.rawWrite = cl.rawWrite /\ cl'.sendLen = s.sendLen
        /\ cl'.fishCommand = Current /\ cl'.rawRead = cl.rawRead
    BY ZenonT(90), <1>1, <1>2, <1>5, FinishedFacts DEF Current
  <2> QED
    BY <1>1, <1>2, <1>5, <2>1, JobOver
<1> QED
  BY <1>4, <1>5

(* The next of the job's commands.                                         *)
LEMMA NextOfJob ==
  ASSUME FishInv, pc = "parse", inBuf # << >>, IsFinal(Head(inBuf)), Current.name \notin Writing,
         NEW n \in Nat \cup {-1}, Go(Finished([cl EXCEPT !.recvLen = n])),
         UNCHANGED <<wireVars, server, fs, srv, srvOut, job, toPut>>
  PROVE  FishInv' /\ WaitInv'
<1> DEFINE s == [cl EXCEPT !.recvLen = n]
<1>1. cl \in ConnectionSet /\ cl.commandList \in Seq(RequestSet) /\ Queue(cl.commandList) /\ cl.sendLen <= 0
      /\ cl.sendLen \in Nat \cup {-1}
  BY ConnectionFields DEF FishInv, FishTypeInv, CurrentInv, Writing
<1>2. /\ s \in ConnectionSet /\ s.childPid = cl.childPid /\ s.qlist = cl.qlist /\ s.writeReady = cl.writeReady /\ s.outBuf = cl.outBuf
      /\ s.rawWrite = cl.rawWrite /\ s.rawRead = cl.rawRead /\ s.fishCommand = cl.fishCommand /\ s.isRunning = cl.isRunning
      /\ s.commandList = cl.commandList /\ s.sendLen = cl.sendLen
  BY <1>1 DEF ConnectionSet
<1>3. Go(Finished(s))
  OBVIOUS
<1> HIDE DEF s
<1>4. ASSUME cl.commandList # << >>
      PROVE  /\ Head(cl.commandList).name \notin {"none", "FISH"} /\ Queue(Tail(cl.commandList))
             /\ Head(cl.commandList).name \in Writing => Tail(cl.commandList) = << >> /\ Head(cl.commandList).n = 0
  <2>1. /\ Head(cl.commandList) \in RequestSet /\ Head(cl.commandList).name \notin {"none", "FISH", "WRITE", "APPEND"}
        /\ Queue(Tail(cl.commandList)) /\ (Head(cl.commandList).name = "STOR" => Tail(cl.commandList) = << >>)
    BY <1>1, <1>4, QueueRest
  <2>2. Head(cl.commandList).name = "STOR" => Head(cl.commandList).n = 0
    BY <2>1 DEF RequestSet
  <2> QED
    BY <2>1, <2>2 DEF Writing
<1>5. toPut' \in Seq(Portion)
  BY DEF FishInv, FishTypeInv
<1> QED
  BY <1>1, <1>2, <1>3, <1>4, <1>5, GoesOn

(* error() on a reply's last unit.                                         *)
LEMMA ErrorKeeps ==
  ASSUME FishInv, pc = "parse", inBuf # << >>, IsFinal(Head(inBuf)), Current.name \notin Writing,
         NEW e, Error(cl, e), UNCHANGED <<wireVars, server, fs, srv, srvOut, job, toPut>>
  PROVE  FishInv' /\ WaitInv'
<1>1. /\ toClient = << >> /\ srvOut = << >> /\ cl.childPid = TRUE
      /\ cl.outBuf = << >> /\ cl.qlist = << >> /\ cl.writeReady = TRUE /\ cl.rawWrite <= 0
      /\ alive = FALSE => toServer = << >>
      /\ alive = TRUE => srv.mode = "main" /\ \A i \in 1 .. Len(toServer) : IsNoise(toServer[i])
  BY LastUnit
<1>2. cl' = [cl EXCEPT !.commandList = << >>, !.isRunning = FALSE] /\ pc' = "idle" /\ inBuf' = << >>
  BY DEF Error
<1>3. cl \in ConnectionSet /\ cl.sendLen <= 0
  <2>1. cl \in ConnectionSet
    BY DEF FishInv, FishTypeInv
  <2>2. cl.sendLen \in Nat \cup {-1}
    BY <2>1, ConnectionFields
  <2>3. ~(cl.sendLen > 0)
    BY DEF FishInv, CurrentInv, Writing
  <2> QED
    BY <2>1, <2>2, <2>3
<1>4. /\ cl' \in ConnectionSet /\ cl'.childPid = TRUE /\ cl'.isRunning = FALSE /\ cl'.commandList = << >>
      /\ cl'.qlist = << >> /\ cl'.writeReady = TRUE /\ cl'.outBuf = << >> /\ cl'.rawWrite = cl.rawWrite /\ cl'.sendLen = cl.sendLen
      /\ cl'.fishCommand = Current /\ cl'.rawRead = cl.rawRead
  BY <1>1, <1>2, <1>3, Empties DEF ConnectionSet, Current
<1>5. QuietWire
  BY <1>1, <1>2 DEF QuietWire
<1>6. toPut' \in Seq(Portion)
  BY DEF FishInv, FishTypeInv
<1> QED
  BY <1>1, <1>2, <1>3, <1>4, <1>5, <1>6, JobOver

-----------------------------------------------------------------------------
(* received(): one lemma for each of its steps.                            *)

Elsewhere == UNCHANGED <<serverVars, appVars>>

LEMMA ReceiveDataKeeps ==
  ASSUME FishInv, WaitInv, ReceiveData, Elsewhere
  PROVE  FishInv' /\ WaitInv'
<1>1. /\ pc = "parse" /\ inBuf # << >> /\ cl.rawRead > 0 /\ cl' = [cl EXCEPT !.rawRead = @ - 1]
      /\ inBuf' = Tail(inBuf) /\ UNCHANGED <<pc, wireVars, job, toPut, server, fs, srv, srvOut>>
  BY DEF ReceiveData, Go, Elsewhere, serverVars
<1>2. cl \in ConnectionSet /\ Current.name \in {"RETR", "READ"}
  BY <1>1 DEF FishInv, FishTypeInv, CurrentInv
<1>3. /\ cl' \in ConnectionSet /\ cl'.childPid = cl.childPid /\ cl'.commandList = cl.commandList /\ cl'.fishCommand = cl.fishCommand
      /\ cl'.sendLen = cl.sendLen /\ cl'.rawData = cl.rawData /\ cl'.qlist = cl.qlist /\ cl'.writeReady = cl.writeReady
      /\ cl'.isRunning = cl.isRunning /\ cl'.rawWrite = cl.rawWrite /\ cl'.outBuf = cl.outBuf /\ cl'.outBusy = cl.outBusy
  <2>1. cl.rawRead - 1 \in Nat
    BY <1>1, <1>2, ConnectionFields
  <2> DEFINE n == cl.rawRead - 1
  <2>2. cl' = [cl EXCEPT !.rawRead = n]
    BY <1>1
  <2> HIDE DEF n
  <2>3. n \in Nat
    BY <2>1 DEF n
  <2> QED
    BY <1>2, <2>2, <2>3 DEF ConnectionSet
<1>4. Handling
  BY <1>1, <1>2, <1>3 DEF Handling
<1>5. cl'.rawRead = cl.rawRead - 1 /\ cl'.recvLen = cl.recvLen
  BY <1>1, <1>2 DEF ConnectionSet
<1>6. WaitInv'
  BY <1>1, <1>2, <1>4, <1>5, UnitWaits DEF Reading
<1> QED
  BY <1>2, <1>3, <1>4, <1>6, UnitHandled DEF Writing

(* A line that is no status leaves all but the counters as it is.          *)
LEMMA LineHandled ==
  ASSUME FishInv, WaitInv, pc = "parse", inBuf # << >>, cl.rawRead = 0, Head(inBuf).k \in Line,
         NEW n \in Int, NEW m \in Nat \cup {-1}, NEW a \in BOOLEAN,
         Current.name = "RETR" /\ Head(inBuf).k = "number" => m = Head(inBuf).v,
         Go([cl EXCEPT !.errorCount = n, !.recvLen = m, !.hasAppend = a]),
         UNCHANGED <<wireVars, job, toPut>>, Elsewhere
  PROVE  FishInv' /\ WaitInv'
<1>1. /\ cl' = [cl EXCEPT !.errorCount = n, !.recvLen = m, !.hasAppend = a]
      /\ inBuf' = Tail(inBuf) /\ UNCHANGED <<pc, wireVars, job, toPut, server, fs, srv, srvOut>>
  BY DEF Go, Elsewhere, serverVars
<1>2. cl \in ConnectionSet
  BY DEF FishInv, FishTypeInv
<1>3. /\ cl' \in ConnectionSet /\ cl'.childPid = cl.childPid /\ cl'.commandList = cl.commandList /\ cl'.fishCommand = cl.fishCommand
      /\ cl'.sendLen = cl.sendLen /\ cl'.rawData = cl.rawData /\ cl'.qlist = cl.qlist /\ cl'.writeReady = cl.writeReady
      /\ cl'.isRunning = cl.isRunning /\ cl'.rawWrite = cl.rawWrite /\ cl'.outBuf = cl.outBuf /\ cl'.outBusy = cl.outBusy
      /\ cl'.rawRead = cl.rawRead
  BY <1>1, <1>2 DEF ConnectionSet
<1>4. Handling
  BY <1>1, <1>3 DEF Handling
<1>5. ~IsGo(Head(inBuf))
  BY DEF IsGo, Line
<1>6. ~IsFinal(Head(inBuf))
  BY DEF IsFinal, Line
<1>7. Reading => cl'.rawRead = 0 /\ (Current.name = "RETR" /\ Head(inBuf).k = "number" => cl'.recvLen = Head(inBuf).v)
  <2>1. cl'.recvLen = m
    BY <1>1, <1>2 DEF ConnectionSet
  <2> QED
    BY <1>3, <2>1
<1> QED
  BY <1>3, <1>4, <1>5, <1>6, <1>7, UnitHandled, UnitWaits

LEMMA CountedFacts ==
  ASSUME FishInv
  PROVE  /\ cl.errorCount \in Int /\ cl.errorCount + 1 \in Int /\ cl.recvLen \in Nat \cup {-1} /\ cl.hasAppend \in BOOLEAN
         /\ cl = [cl EXCEPT !.errorCount = cl.errorCount, !.recvLen = cl.recvLen, !.hasAppend = cl.hasAppend]
         /\ \A m : [Counted EXCEPT !.recvLen = m] =
                     [cl EXCEPT !.errorCount = cl.errorCount + 1, !.recvLen = m, !.hasAppend = cl.hasAppend]
         /\ \A a : [Counted EXCEPT !.hasAppend = a] =
                     [cl EXCEPT !.errorCount = cl.errorCount + 1, !.recvLen = cl.recvLen, !.hasAppend = a]
         /\ Counted = [cl EXCEPT !.errorCount = cl.errorCount + 1, !.recvLen = cl.recvLen, !.hasAppend = cl.hasAppend]
<1>1. cl \in ConnectionSet
  BY DEF FishInv, FishTypeInv
<1>2. /\ cl.errorCount \in Int /\ cl.recvLen \in Nat \cup {-1} /\ cl.hasAppend \in BOOLEAN
  BY <1>1 DEF ConnectionSet
<1> DEFINE n == cl.errorCount + 1
<1>3. n \in Int /\ Counted = [cl EXCEPT !.errorCount = n]
  BY <1>2 DEF Counted
<1> HIDE DEF n
<1>4. cl = [cl EXCEPT !.errorCount = cl.errorCount, !.recvLen = cl.recvLen, !.hasAppend = cl.hasAppend]
  BY <1>1 DEF ConnectionSet
<1>5. ASSUME NEW m PROVE [Counted EXCEPT !.recvLen = m] = [cl EXCEPT !.errorCount = n, !.recvLen = m, !.hasAppend = cl.hasAppend]
  BY <1>1, <1>3 DEF ConnectionSet
<1>6. ASSUME NEW a PROVE [Counted EXCEPT !.hasAppend = a] = [cl EXCEPT !.errorCount = n, !.recvLen = cl.recvLen, !.hasAppend = a]
  BY <1>1, <1>3 DEF ConnectionSet
<1>7. Counted = [cl EXCEPT !.errorCount = n, !.recvLen = cl.recvLen, !.hasAppend = cl.hasAppend]
  BY <1>1, <1>3 DEF ConnectionSet
<1> QED
  BY <1>2, <1>3, <1>4, <1>5, <1>6, <1>7 DEF n

LEMMA ManageTextKeeps ==
  ASSUME FishInv, WaitInv, ManageText, Elsewhere
  PROVE  FishInv' /\ WaitInv'
<1>1. /\ pc = "parse" /\ inBuf # << >> /\ cl.rawRead = 0 /\ Head(inBuf).k \in Line /\ Current.name # "RETR"
      /\ UNCHANGED <<wireVars, job, toPut>>
      /\ \/ Go([Counted EXCEPT !.hasAppend = (Head(inBuf).v = 1)])
         \/ ShutdownError("ERR_UNSUPPORTED_PROTOCOL")
         \/ Go(Counted)
  BY Zenon DEF ManageText, Parsing, Current
<1>2. CASE Go([Counted EXCEPT !.hasAppend = (Head(inBuf).v = 1)])
  <2>1. PICK a \in BOOLEAN : a = (Head(inBuf).v = 1)
    OBVIOUS
  <2>2. Go([cl EXCEPT !.errorCount = cl.errorCount + 1, !.recvLen = cl.recvLen, !.hasAppend = a])
    BY <1>2, <2>1, CountedFacts
  <2> QED
    BY <1>1, <2>2, CountedFacts, LineHandled
<1>3. CASE ShutdownError("ERR_UNSUPPORTED_PROTOCOL")
  BY <1>1, <1>3, ShutdownKeeps DEF Elsewhere, serverVars
<1>4. CASE Go(Counted)
  <2>1. Go([cl EXCEPT !.errorCount = cl.errorCount + 1, !.recvLen = cl.recvLen, !.hasAppend = cl.hasAppend])
    BY <1>4, CountedFacts
  <2> QED
    BY <1>1, <2>1, CountedFacts, LineHandled
<1> QED
  BY <1>1, <1>2, <1>3, <1>4

LEMMA ManageListingKeeps ==
  ASSUME FishInv, WaitInv, ManageListing, Elsewhere
  PROVE  FishInv' /\ WaitInv'
<1>1. /\ pc = "parse" /\ inBuf # << >> /\ cl.rawRead = 0 /\ Head(inBuf).k \in Line
      /\ UNCHANGED <<wireVars, job, toPut>> /\ (Go(cl) \/ Go(Counted))
  BY Zenon DEF ManageListing, Parsing
<1>2. PICK n \in Int : Go([cl EXCEPT !.errorCount = n, !.recvLen = cl.recvLen, !.hasAppend = cl.hasAppend])
  BY <1>1, CountedFacts
<1>3. Current.name # "RETR"
  BY DEF ManageListing, Current
<1> QED
  BY <1>1, <1>2, <1>3, CountedFacts, LineHandled

LEMMA ManageSizeKeeps ==
  ASSUME FishInv, WaitInv, ManageSize, Elsewhere
  PROVE  FishInv' /\ WaitInv'
<1>1. /\ pc = "parse" /\ inBuf # << >> /\ cl.rawRead = 0 /\ Head(inBuf).k \in Line /\ Current.name = "RETR"
      /\ UNCHANGED <<wireVars, job, toPut>>
  BY DEF ManageSize, Parsing, Current
<1>2. Head(inBuf).k # "blank" /\ Head(inBuf) \in ServerUnit
  BY <1>1, UnitFacts
<1>3. CASE Head(inBuf).k = "number"
  <2>1. Go([Counted EXCEPT !.recvLen = Head(inBuf).v])
    BY <1>3 DEF ManageSize
  <2>2. Head(inBuf).v \in Nat
    BY <1>2 DEF ServerUnit
  <2>3. Go([cl EXCEPT !.errorCount = cl.errorCount + 1, !.recvLen = Head(inBuf).v, !.hasAppend = cl.hasAppend])
    BY <2>1, CountedFacts
  <2> QED
    BY <1>1, <2>2, <2>3, CountedFacts, LineHandled
<1>4. CASE Head(inBuf).k # "number"
  <2>1. ShutdownError("ERR_CANNOT_READ")
    BY <1>2, <1>4 DEF ManageSize
  <2> QED
    BY <1>1, <2>1, ShutdownKeeps DEF Elsewhere, serverVars
<1> QED
  BY <1>3, <1>4

LEMMA ManageGoKeeps ==
  ASSUME FishInv, WaitInv, ManageGo, Elsewhere
  PROVE  FishInv' /\ WaitInv'
<1>1. /\ pc = "parse" /\ inBuf # << >> /\ cl.rawRead = 0 /\ Head(inBuf).k = "status" /\ Rc = 100
      /\ UNCHANGED <<wireVars, job, toPut, server, fs, srv, srvOut>>
  BY DEF ManageGo, Answered, Parsing, Elsewhere, serverVars
<1>2. IsGo(Head(inBuf)) /\ ~IsFinal(Head(inBuf)) /\ cl.outBuf = << >> /\ cl.rawWrite \in Nat \cup {-1}
  BY <1>1, UnitFacts, ConnectionFields DEF FishInv, FishTypeInv
<1>3. cl \in ConnectionSet
  BY DEF FishInv, FishTypeInv
<1> DEFINE len == IF Current.name = "READ" THEN MimeBytes ELSE cl.recvLen
<1>4. len \in Nat \cup {-1}
  BY <1>3, ConnectionFields, MimeBytesAssumption
<1>0. (CASE Current.name = "FISH" -> Go(WriteChild(cl, <<FishCode>>)) /\ UNCHANGED <<held, mimeTypeSent>>
        [] Current.name \in {"RETR", "READ"} /\ len = -1 ->
             ShutdownError("ERR_CANNOT_READ") /\ UNCHANGED <<held, mimeTypeSent>>
        [] Current.name \in {"RETR", "READ"} /\ len # -1 ->
             /\ Go([cl EXCEPT !.recvLen = len, !.rawRead = len])
             /\ held' = << >>
             /\ mimeTypeSent' = (len = 0)
        [] Current.name \in Writing ->
             Go(WriteChild([cl EXCEPT !.rawWrite = cl.sendLen], << >>)) /\ UNCHANGED <<held, mimeTypeSent>>
        [] OTHER -> Go(cl) /\ UNCHANGED <<held, mimeTypeSent>>)
  BY Zenon DEF ManageGo, Current
<1>5. CASE Current.name = "FISH"
  <2>1. Go(WriteChild(cl, <<FishCode>>))
    BY <1>0, <1>5 DEF Writing
  <2>2. cl' = [cl EXCEPT !.outBuf = <<FishCode>>, !.outBusy = TRUE]
    BY <1>2, <2>1 DEF Go, WriteChild
  <2>3. /\ cl' \in ConnectionSet /\ cl'.outBuf = <<FishCode>> /\ cl'.outBusy = TRUE /\ cl'.rawWrite = cl.rawWrite
        /\ cl'.childPid = cl.childPid /\ cl'.commandList = cl.commandList /\ cl'.fishCommand = cl.fishCommand
        /\ cl'.sendLen = cl.sendLen /\ cl'.rawData = cl.rawData /\ cl'.qlist = cl.qlist /\ cl'.writeReady = cl.writeReady
        /\ cl'.isRunning = cl.isRunning /\ cl'.rawRead = 0
    BY <1>1, <1>3, <2>2, OtherUnits DEF ConnectionSet
  <2>4. Handling
    BY <1>1, <2>1, <2>3 DEF Handling, Go
  <2>5. WaitInv'
    BY <1>2, <1>5, <2>3, <2>4, OtherUnits, Empties, UnitWaits DEF Reading
  <2> QED
    BY <1>2, <1>5, <2>3, <2>4, <2>5, CodeWanted
<1>6. CASE Current.name \in {"RETR", "READ"} /\ len = -1
  <2>1. ShutdownError("ERR_CANNOT_READ")
    BY <1>0, <1>6 DEF Writing
  <2> QED
    BY <1>1, <2>1, ShutdownKeeps
<1>7. CASE Current.name \in {"RETR", "READ"} /\ len # -1
  <2>1. Go([cl EXCEPT !.recvLen = len, !.rawRead = len])
    BY <1>0, <1>7 DEF Writing
  <2>2. len \in Nat
    BY <1>4, <1>7
  <2> HIDE DEF len
  <2>3. /\ cl' \in ConnectionSet /\ cl'.outBuf = cl.outBuf /\ cl'.outBusy = cl.outBusy /\ cl'.rawWrite = cl.rawWrite
        /\ cl'.childPid = cl.childPid /\ cl'.commandList = cl.commandList /\ cl'.fishCommand = cl.fishCommand
        /\ cl'.sendLen = cl.sendLen /\ cl'.rawData = cl.rawData /\ cl'.qlist = cl.qlist /\ cl'.writeReady = cl.writeReady
        /\ cl'.isRunning = cl.isRunning /\ cl'.rawRead = len
    BY <1>3, <2>1, <2>2 DEF ConnectionSet, Go
  <2>4. Handling
    BY <1>1, <1>7, <2>1, <2>3 DEF Handling, Go
  <2>5. WaitInv'
    BY <1>1, <1>2, <1>7, <2>3, <2>4, UnitWaits DEF Reading, len
  <2> QED
    BY <1>7, <2>3, <2>4, <2>5, UnitHandled DEF Writing
<1>8. CASE Current.name \in Writing
  <2> DEFINE s == [cl EXCEPT !.rawWrite = cl.sendLen]
  <2>1. Go(WriteChild(s, << >>))
    BY <1>0, <1>8 DEF Writing
  <2>2. /\ s \in ConnectionSet /\ s.outBuf = << >> /\ s.rawWrite = cl.sendLen /\ s.rawRead = 0
        /\ s.childPid = cl.childPid /\ s.commandList = cl.commandList /\ s.fishCommand = cl.fishCommand
        /\ s.sendLen = cl.sendLen /\ s.rawData = cl.rawData /\ s.qlist = cl.qlist /\ s.writeReady = cl.writeReady
        /\ s.isRunning = cl.isRunning
    BY <1>1, <1>2, <1>3 DEF ConnectionSet
  <2> HIDE DEF s
  <2>3. cl' = [s EXCEPT !.outBuf = << >>, !.outBusy = TRUE]
    BY <2>1, <2>2 DEF Go, WriteChild
  <2>4. /\ cl' \in ConnectionSet /\ cl'.outBuf = << >> /\ cl'.outBusy = TRUE /\ cl'.rawWrite = cl.sendLen /\ cl'.rawRead = 0
        /\ cl'.childPid = cl.childPid /\ cl'.commandList = cl.commandList /\ cl'.fishCommand = cl.fishCommand
        /\ cl'.sendLen = cl.sendLen /\ cl'.rawData = cl.rawData /\ cl'.qlist = cl.qlist /\ cl'.writeReady = cl.writeReady
        /\ cl'.isRunning = cl.isRunning
    BY <2>2, <2>3, Empties DEF ConnectionSet
  <2>5. Handling
    BY <1>1, <2>1, <2>4 DEF Handling, Go
  <2>6. WaitInv'
    BY <1>2, <1>8, <2>5, UnitWaits DEF Reading, Writing
  <2> QED
    BY <1>2, <1>8, <2>4, <2>5, <2>6, DataWanted
<1>9. CASE Current.name \notin Writing \cup {"FISH", "RETR", "READ"}
  <2>1. Go(cl)
    BY <1>0, <1>9
  <2>2. Handling
    BY <1>1, <1>3, <2>1 DEF Handling, Go
  <2>3. WaitInv'
    BY <1>2, <1>9, <2>2, UnitWaits DEF Reading
  <2> QED
    BY <1>9, <2>1, <2>2, <2>3, UnitHandled DEF Go
<1> QED
  BY <1>5, <1>6, <1>7, <1>8, <1>9

LEMMA SameLength == ASSUME FishInv PROVE cl = [cl EXCEPT !.recvLen = cl.recvLen] /\ cl.recvLen \in Nat \cup {-1}
BY DEF FishInv, FishTypeInv, ConnectionSet

LEMMA ManageRefusedKeeps ==
  ASSUME FishInv, WaitInv, ManageRefused, Elsewhere
  PROVE  FishInv' /\ WaitInv'
<1>1. /\ pc = "parse" /\ inBuf # << >> /\ cl.rawRead = 0 /\ Head(inBuf).k = "status" /\ Rc # 100
      /\ UNCHANGED <<wireVars, job, toPut, server, fs, srv, srvOut>>
  BY DEF ManageRefused, Answered, Parsing, Elsewhere, serverVars
<1>2. IsFinal(Head(inBuf)) /\ ~IsGo(Head(inBuf))
  BY <1>1, UnitFacts
<1>3. CASE Current.name = "LIST" /\ Go(Finished(cl))
  <2>1. Go(Finished([cl EXCEPT !.recvLen = cl.recvLen])) /\ cl.recvLen \in Nat \cup {-1}
    BY <1>3, SameLength
  <2> QED
    BY <1>1, <1>2, <1>3, <2>1, NextOfJob DEF Writing
<1>4. CASE Current.name = "READ" /\ Go(Finished([cl EXCEPT !.recvLen = 0]))
  <2>1. 0 \in Nat \cup {-1} /\ Current.name \notin Writing
    BY <1>4 DEF Writing
  <2> QED
    BY <1>1, <1>2, <1>4, <2>1, NextOfJob
<1>5. CASE Current.name = "EXEC" /\ Go(cl)
  <2>1. Handling
    BY <1>1, <1>5 DEF Handling, Go, FishInv, FishTypeInv
  <2>2. WaitInv'
    BY <1>2, <1>5, <2>1, UnitWaits DEF Reading
  <2> QED
    BY <1>2, <1>5, <2>1, <2>2, UnitHandled DEF Go
<1>6. CASE Refuse(Current.name, Rc)
  <2>1. CASE Current.name \in ClosesOnRefusal
    <3>1. ShutdownError(Refusal(Current.name, Rc))
      BY <1>6, <2>1 DEF Refuse
    <3> QED
      BY <1>1, <3>1, ShutdownKeeps
  <2>2. CASE Current.name \notin ClosesOnRefusal
    <3>1. Error(cl, Refusal(Current.name, Rc)) /\ Current.name \notin Writing
      BY <1>6, <2>2 DEF Refuse, ClosesOnRefusal
    <3> QED
      BY <1>1, <1>2, <3>1, ErrorKeeps
  <2> QED
    BY <2>1, <2>2
<1> QED
  <2>1. \/ Current.name = "LIST" /\ Go(Finished(cl))
        \/ Current.name = "READ" /\ Go(Finished([cl EXCEPT !.recvLen = 0]))
        \/ Current.name = "EXEC" /\ Go(cl)
        \/ Refuse(Current.name, Rc)
    BY Zenon DEF ManageRefused, CheckFindsNothing, Current
  <2> QED
    BY <2>1, <1>3, <1>4, <1>5, <1>6

LEMMA ManageDoneKeeps ==
  ASSUME FishInv, ManageDone, Elsewhere
  PROVE  FishInv' /\ WaitInv'
<1>1. /\ pc = "parse" /\ inBuf # << >> /\ Head(inBuf).k = "status" /\ Rc \div 100 = 2 /\ Current.name \notin Writing
      /\ UNCHANGED <<wireVars, job, toPut, server, fs, srv, srvOut>>
      /\ Error(cl, "ERR_FILE_ALREADY_EXIST") \/ Go(Finished(cl))
  BY Zenon DEF ManageDone, Completed, Answered, Parsing, Elsewhere, serverVars, Current
<1>2. IsFinal(Head(inBuf))
  BY <1>1, UnitFacts
<1>3. Go(Finished(cl)) => Go(Finished([cl EXCEPT !.recvLen = cl.recvLen])) /\ cl.recvLen \in Nat \cup {-1}
  BY SameLength
<1> QED
  BY <1>1, <1>2, <1>3, NextOfJob, ErrorKeeps

(* A request is queued.                                                    *)
Queued(t, s, c) ==
  /\ t \in ConnectionSet /\ t.childPid = s.childPid /\ t.qlist = s.qlist /\ t.writeReady = s.writeReady /\ t.outBuf = s.outBuf
  /\ t.outBusy = s.outBusy /\ t.rawWrite = s.rawWrite /\ t.rawRead = s.rawRead /\ t.fishCommand = s.fishCommand
  /\ t.isRunning = s.isRunning /\ t.sendLen = s.sendLen /\ t.rawData = s.rawData
  /\ t.commandList = Append(s.commandList, c) /\ t.commandList # << >> /\ Len(t.commandList) = Len(s.commandList) + 1

LEMMA SendCommandFacts ==
  ASSUME NEW s \in ConnectionSet, NEW name, NEW p, NEW q, NEW at, NEW n,
         Request(name, s.nextId, p, q, at, n) \in RequestSet
  PROVE  Queued(SendCommand(s, name, p, q, at, n), s, Request(name, s.nextId, p, q, at, n))
<1> DEFINE c == Request(name, s.nextId, p, q, at, n)
           l == Append(s.commandList, c)
           i == s.nextId + 1
           t == SendCommand(s, name, p, q, at, n)
<1>1. s.commandList \in Seq(RequestSet) /\ c \in RequestSet /\ i \in Nat
  BY DEF ConnectionSet
<1> HIDE DEF c
<1>2. l \in Seq(RequestSet) /\ Len(l) = Len(s.commandList) + 1
  BY <1>1, AppendProperties
<1>3. l # << >>
  BY <1>1, <1>2, EmptySeq, LenProperties
<1>4. t = [s EXCEPT !.commandList = l, !.nextId = i]
  BY DEF SendCommand, c
<1> HIDE DEF l, i, t
<1>5. Queued(t, s, c)
  BY <1>1, <1>2, <1>3, <1>4 DEF ConnectionSet, Queued, l
<1> QED
  BY <1>5 DEF t, c

LEMMA ManageStoredKeeps ==
  ASSUME FishInv, ManageStored, Elsewhere
  PROVE  FishInv' /\ WaitInv'
<1>1. PICK n \in 0 .. Len(toPut) :
        /\ n = 0 <=> toPut = << >>
        /\ toPut' = SubSeq(toPut, n + 1, Len(toPut))
        /\ Go(Finished(CASE n > 0 -> SendPortion(TakePortion(n), n)
                          [] n = 0 /\ ~checkExist /\ job.perm ->
                               SendCommand(TakePortion(n), "CHMOD", job.p, "", 0, 0)
                          [] OTHER -> TakePortion(n)))
  BY Zenon DEF ManageStored
<1>2. /\ pc = "parse" /\ inBuf # << >> /\ Head(inBuf).k = "status" /\ Rc \div 100 = 2 /\ Current.name \in Writing
      /\ UNCHANGED <<wireVars, job, server, fs, srv, srvOut>>
  BY Zenon DEF ManageStored, Completed, Answered, Parsing, Elsewhere, serverVars, Current
<1>3. IsFinal(Head(inBuf))
  BY <1>2, UnitFacts
<1>4. /\ toPut \in Seq(Portion) /\ Len(toPut) \in Nat /\ n \in Nat /\ cl \in ConnectionSet /\ cl.commandList = << >>
      /\ job \in JobSet /\ job.p \in Path /\ cl.putPos \in Nat
  <2>1. job \in JobSet /\ cl \in ConnectionSet /\ cl.commandList = << >> /\ toPut \in Seq(Portion)
    BY <1>2 DEF FishInv, FishTypeInv, CurrentInv
  <2>2. job.p \in Path
    BY <2>1 DEF JobSet
  <2>3. Len(toPut) \in Nat /\ n \in Nat
    <3>1. n \in 0 .. Len(toPut)
      BY Zenon, <1>1
    <3>2. Len(toPut) \in Nat
      BY <2>1, LenProperties
    <3> QED
      BY <3>1, <3>2
  <2>4. cl.putPos \in Nat
    BY <2>1, ConnectionFields
  <2> QED
    BY <2>1, <2>2, <2>3, <2>4
<1> DEFINE d == SubSeq(toPut, 1, n)
           r == TakePortion(n)
<1>5. d \in Seq(Portion) /\ Len(d) = n /\ toPut' \in Seq(Portion)
  BY <1>1, <1>4, Cut
<1>6. NextWriting \in {"WRITE", "APPEND"}
  BY <1>2 DEF NextWriting, Writing, Current
<1>7. /\ r \in ConnectionSet /\ r.childPid = cl.childPid /\ r.qlist = cl.qlist /\ r.writeReady = cl.writeReady /\ r.outBuf = cl.outBuf
      /\ r.rawWrite = cl.rawWrite /\ r.rawRead = cl.rawRead /\ r.fishCommand = cl.fishCommand /\ r.isRunning = cl.isRunning
      /\ r.commandList = << >> /\ r.sendLen = n /\ r.rawData = d /\ r.nextId \in Nat
  <2> DEFINE pos == IF NextWriting = "WRITE" THEN cl.putPos + n ELSE cl.putPos
  <2>1. pos \in Nat
    BY <1>4
  <2>2. r = [cl EXCEPT !.rawData = d, !.sendLen = n, !.putPos = pos]
    BY <1>4 DEF TakePortion, ConnectionSet
  <2> HIDE DEF d, r, pos
  <2> QED
    BY <1>4, <1>5, <2>1, <2>2 DEF ConnectionSet
<1> HIDE DEF d, r
<1>8. CASE n > 0
  <2> DEFINE at == IF NextWriting = "WRITE" THEN cl.putPos ELSE 0
             c == Request(NextWriting, r.nextId, job.p, "", at, n)
             t == SendCommand(r, NextWriting, job.p, "", at, n)
  <2>0. n # 0
    BY <1>4, <1>8
  <2>1. Go(Finished(t))
    BY Zenon, <1>1, <1>8, <2>0 DEF SendPortion, r
  <2>2. c \in RequestSet /\ at \in Nat /\ c.name = NextWriting /\ c.n = n
    BY <1>4, <1>6, <1>7 DEF Request, RequestSet, CommandNames, Writing
  <2> HIDE DEF at
  <2>3. Queued(t, r, c)
    BY <1>7, <2>2, SendCommandFacts
  <2> HIDE DEF c, t
  <2>4. t.commandList = <<c>> /\ Head(t.commandList) = c /\ Tail(t.commandList) = << >>
    BY <1>7, <2>2, <2>3, TailOfSingle DEF Queued
  <2>5. Queue(<< >>)
    BY Empties DEF Queue
  <2>6. /\ t.commandList # << >> /\ t.sendLen = n /\ Len(t.rawData) = n
        /\ Head(t.commandList).name \notin {"none", "FISH"} /\ Queue(Tail(t.commandList))
        /\ Tail(t.commandList) = << >> /\ Head(t.commandList).n = (IF t.sendLen > 0 THEN t.sendLen ELSE 0)
        /\ Head(t.commandList).name \in {"WRITE", "APPEND"}
    BY <1>5, <1>6, <1>7, <1>8, <2>2, <2>3, <2>4, <2>5 DEF Queued
  <2>7. /\ t.childPid = cl.childPid /\ t.qlist = cl.qlist /\ t.writeReady = cl.writeReady /\ t.outBuf = cl.outBuf
        /\ t.rawWrite = cl.rawWrite /\ t.rawRead = cl.rawRead /\ t.fishCommand = cl.fishCommand /\ t.isRunning = cl.isRunning
    BY <1>7, <2>3 DEF Queued
  <2> QED
    BY <1>2, <1>3, <1>5, <2>1, <2>3, <2>6, <2>7, GoesOn DEF Queued
<1>9. CASE n = 0 /\ ~checkExist /\ job.perm
  <2> DEFINE c == Request("CHMOD", r.nextId, job.p, "", 0, 0)
             t == SendCommand(r, "CHMOD", job.p, "", 0, 0)
  <2>0. ~(n > 0)
    BY <1>9
  <2>1. Go(Finished(t))
    BY Zenon, <1>1, <1>9, <2>0 DEF r
  <2>2. c \in RequestSet /\ c.name = "CHMOD"
    BY <1>4, <1>7 DEF Request, RequestSet, CommandNames, Writing, Acting
  <2>3. Queued(t, r, c)
    BY <1>7, <2>2, SendCommandFacts
  <2> HIDE DEF c, t
  <2>4. t.commandList = <<c>> /\ Head(t.commandList) = c /\ Tail(t.commandList) = << >>
    BY <1>7, <2>2, <2>3, TailOfSingle DEF Queued
  <2>5. Queue(<< >>)
    BY Empties DEF Queue
  <2>6. /\ t.commandList # << >> /\ t.sendLen = 0
        /\ Head(t.commandList).name \notin {"none", "FISH"} /\ Queue(Tail(t.commandList))
        /\ Head(t.commandList).name \notin Writing
    BY <1>7, <1>9, <2>2, <2>3, <2>4, <2>5 DEF Writing, Queued
  <2>7. /\ t \in ConnectionSet /\ ~(t.sendLen > 0)
        /\ t.childPid = cl.childPid /\ t.qlist = cl.qlist /\ t.writeReady = cl.writeReady /\ t.outBuf = cl.outBuf
        /\ t.rawWrite = cl.rawWrite /\ t.rawRead = cl.rawRead /\ t.fishCommand = cl.fishCommand /\ t.isRunning = cl.isRunning
    BY <1>7, <2>3, <2>6 DEF Queued
  <2> QED
    BY <1>2, <1>3, <1>5, <2>1, <2>6, <2>7, GoesOn
<1>10. CASE n = 0 /\ ~(~checkExist /\ job.perm)
  <2>0. ~(n > 0)
    BY <1>10
  <2>1. Go(Finished(r))
    BY Zenon, <1>1, <1>10, <2>0 DEF r
  <2> QED
    BY <1>2, <1>3, <1>5, <1>7, <1>10, <2>1, GoesOn
<1> QED
  BY <1>4, <1>8, <1>9, <1>10

-----------------------------------------------------------------------------
(* A job begins: openConnection() and what the operation queues.           *)

(* What queueing the requests of a job leaves as it is.                    *)
Alike(t, s) ==
  /\ t \in ConnectionSet /\ t.childPid = s.childPid /\ t.qlist = s.qlist /\ t.writeReady = s.writeReady /\ t.outBuf = s.outBuf
  /\ t.rawRead = s.rawRead /\ t.fishCommand = s.fishCommand /\ t.isRunning = s.isRunning /\ t.sendLen = s.sendLen /\ t.rawData = s.rawData
  /\ Len(t.commandList) >= Len(s.commandList)
  /\ \A i \in 1 .. Len(s.commandList) : t.commandList[i] = s.commandList[i]

(* Requests are added, none of them a writing one; or a last one is STOR.  *)
Adds(t, s) ==
  Alike(t, s) /\ \A i \in Len(s.commandList) + 1 .. Len(t.commandList) :
                   t.commandList[i].name \notin {"none", "FISH", "WRITE", "APPEND", "STOR"}
AddsJob(t, s) ==
  /\ Alike(t, s) /\ Len(t.commandList) > Len(s.commandList)
  /\ \A i \in Len(s.commandList) + 1 .. Len(t.commandList) :
       /\ t.commandList[i].name \notin {"none", "FISH", "WRITE", "APPEND"}
       /\ t.commandList[i].name = "STOR" => i = Len(t.commandList)

LEMMA AddOne ==
  ASSUME NEW s \in ConnectionSet, NEW t \in ConnectionSet, NEW u, NEW c \in RequestSet, Adds(t, s), Queued(u, t, c),
         c.name \notin {"none", "FISH", "WRITE", "APPEND"}
  PROVE  AddsJob(u, s) /\ (c.name # "STOR" => Adds(u, s))
<1> DEFINE l == t.commandList
           m == u.commandList
           k == s.commandList
<1>1. l \in Seq(RequestSet) /\ Len(l) \in Nat /\ Len(k) \in Nat
  BY ConnectionFields
<1>2. m = Append(l, c) /\ Len(m) = Len(l) + 1 /\ u \in ConnectionSet
  BY DEF Queued
<1>3. (\A i \in 1 .. Len(l) : m[i] = l[i]) /\ m[Len(l) + 1] = c
  <2> HIDE DEF l, m
  <2> QED
    BY <1>1, <1>2, AppendProperties
<1>4. Len(l) >= Len(k) /\ \A i \in 1 .. Len(k) : l[i] = k[i]
  BY DEF Adds, Alike
<1>5. \A i \in Len(k) + 1 .. Len(l) : l[i].name \notin {"none", "FISH", "WRITE", "APPEND", "STOR"}
  BY DEF Adds
<1>6. /\ u.childPid = s.childPid /\ u.qlist = s.qlist /\ u.writeReady = s.writeReady /\ u.outBuf = s.outBuf
      /\ u.rawRead = s.rawRead /\ u.fishCommand = s.fishCommand /\ u.isRunning = s.isRunning /\ u.sendLen = s.sendLen /\ u.rawData = s.rawData
  BY DEF Adds, Alike, Queued
<1>7. /\ Len(m) > Len(k) /\ Len(m) >= Len(k) /\ \A i \in 1 .. Len(k) : m[i] = k[i]
      /\ \A i \in Len(k) + 1 .. Len(m) :
           /\ m[i].name \notin {"none", "FISH", "WRITE", "APPEND"}
           /\ m[i].name = "STOR" => i = Len(m) /\ c.name = "STOR"
  <2> DEFINE a == Len(k)
             b == Len(l)
             d == Len(m)
  <2>1. /\ a \in Nat /\ b \in Nat /\ d = b + 1 /\ b >= a
        /\ (\A i \in 1 .. b : m[i] = l[i]) /\ m[b + 1] = c
        /\ \A i \in 1 .. a : l[i] = k[i]
        /\ \A i \in a + 1 .. b : l[i].name \notin {"none", "FISH", "WRITE", "APPEND", "STOR"}
    BY <1>1, <1>2, <1>3, <1>4, <1>5
  <2> HIDE DEF a, b, d, k, l, m
  <2>2. d > a /\ d >= a /\ \A i \in 1 .. a : m[i] = k[i]
    BY <2>1
  <2>3. ASSUME NEW i \in a + 1 .. d
        PROVE  m[i].name \notin {"none", "FISH", "WRITE", "APPEND"} /\ (m[i].name = "STOR" => i = d /\ c.name = "STOR")
    <3>1. CASE i = d
      BY <2>1, <3>1
    <3>2. CASE i # d
      <4>1. i \in 1 .. b /\ i \in a + 1 .. b
        BY <2>1, <3>2
      <4> QED
        BY <2>1, <4>1
    <3> QED
      BY <3>1, <3>2
  <2> QED
    BY <2>2, <2>3 DEF a, d
<1>8. Alike(u, s)
  BY <1>2, <1>6, <1>7 DEF Alike
<1> QED
  BY <1>7, <1>8 DEF Adds, AddsJob

LEMMA AddSimple ==
  ASSUME NEW s \in ConnectionSet, NEW t, Adds(t, s), NEW name \in CommandNames \ {"none", "FISH", "WRITE", "APPEND"},
         NEW p \in Path \cup {""}, NEW q \in Path \cup {""}, name \notin {"VER", "PWD"} => p \in Path,
         name \in {"RENAME", "COPY"} => q \in Path
  PROVE  AddsJob(Simple(t, name, p, q), s) /\ (name # "STOR" => Adds(Simple(t, name, p, q), s))
<1>1. t \in ConnectionSet
  BY DEF Adds, Alike
<1> DEFINE c == Request(name, t.nextId, p, q, 0, 0)
<1>2. c \in RequestSet /\ c.name = name
  <2>1. t.nextId \in Nat
    BY <1>1, ConnectionFields
  <2> QED
    BY <2>1 DEF Request, RequestSet
<1>3. Queued(Simple(t, name, p, q), t, c)
  BY <1>1, <1>2, SendCommandFacts DEF Simple
<1> HIDE DEF c
<1> QED
  BY <1>1, <1>2, <1>3, AddOne

LEMMA AddsNothing ==
  ASSUME NEW s \in ConnectionSet
  PROVE  /\ Adds(s, s) /\ Adds([s EXCEPT !.recvLen = -1], s) /\ Adds([s EXCEPT !.putPos = 0], s)
         /\ Adds([s EXCEPT !.recvLen = MimeBytes], s)
<1>1. Len(s.commandList) \in Nat
  BY ConnectionFields
<1>2. ASSUME NEW t \in ConnectionSet, \A f \in DOMAIN s : f \notin {"recvLen", "putPos"} => t[f] = s[f] PROVE Adds(t, s)
  <2>1. /\ t.childPid = s.childPid /\ t.qlist = s.qlist /\ t.writeReady = s.writeReady /\ t.outBuf = s.outBuf
        /\ t.rawRead = s.rawRead /\ t.fishCommand = s.fishCommand /\ t.isRunning = s.isRunning /\ t.sendLen = s.sendLen
        /\ t.rawData = s.rawData /\ t.commandList = s.commandList
    BY <1>2 DEF ConnectionSet
  <2> QED
    BY <1>1, <2>1 DEF Adds, Alike
<1>3. [s EXCEPT !.recvLen = -1] \in ConnectionSet /\ [s EXCEPT !.putPos = 0] \in ConnectionSet
      /\ [s EXCEPT !.recvLen = MimeBytes] \in ConnectionSet
  BY MimeBytesAssumption DEF ConnectionSet
<1> QED
  BY <1>2, <1>3 DEF ConnectionSet

LEMMA AddChecked ==
  ASSUME NEW s \in ConnectionSet, NEW t, Adds(t, s), NEW j, NEW p \in Path
  PROVE  Adds(Checked(t, j, p), s)
<1>1. Adds(Simple(t, "LIST", p, ""), s)
  BY AddSimple DEF CommandNames
<1> QED
  BY <1>1 DEF Checked

LEMMA AddPermissions ==
  ASSUME NEW s \in ConnectionSet, NEW t, Adds(t, s), AddsJob(t, s), NEW j, NEW p \in Path
  PROVE  AddsJob(WithPermissions(t, j, p), s)
<1>1. AddsJob(Simple(t, "CHMOD", p, ""), s)
  BY AddSimple DEF CommandNames, Acting
<1> QED
  BY <1>1 DEF WithPermissions

LEMMA EnqueueAdds ==
  ASSUME NEW s \in ConnectionSet, NEW j \in JobSet
  PROVE  AddsJob(Enqueue(s, j), s)
<1>1. j.op \in Names /\ j.p \in Path /\ j.q \in Path \cup {""} /\ (j.op \in {"rename", "copy"} => j.q \in Path)
  BY DEF JobSet
<1> DEFINE p == j.p
           q == j.q
<1>2. p \in Path /\ p \in Path \cup {""} /\ q \in Path \cup {""} /\ "" \in Path \cup {""}
  BY <1>1
<1>3. Adds(s, s)
  BY AddsNothing
<1>4. \A name \in {"LIST", "STAT", "DELE", "RMD", "EXEC", "MKD", "CHMOD", "SYMLINK"} :
        AddsJob(Simple(s, name, p, ""), s) /\ Adds(Simple(s, name, p, ""), s)
  <2> TAKE name \in {"LIST", "STAT", "DELE", "RMD", "EXEC", "MKD", "CHMOD", "SYMLINK"}
  <2>1. name \in CommandNames \ {"none", "FISH", "WRITE", "APPEND"} /\ name \notin {"RENAME", "COPY", "STOR"}
    BY DEF CommandNames, Acting
  <2> QED
    BY <1>2, <1>3, <2>1, AddSimple
<1>5. CASE j.op = "get"
  <2>1. Adds([s EXCEPT !.recvLen = -1], s)
    BY AddsNothing
  <2>2. AddsJob(Simple([s EXCEPT !.recvLen = -1], "RETR", p, ""), s)
    <3> HIDE DEF p
    <3> QED
      BY <1>2, <2>1, AddSimple DEF CommandNames
  <2> QED
    BY <1>5, <2>2 DEF Enqueue, EnqueueTransfer
<1>6. CASE j.op = "put"
  <2> DEFINE t == Simple([s EXCEPT !.putPos = 0], "LIST", p, "")
  <2>1. Adds([s EXCEPT !.putPos = 0], s)
    BY AddsNothing
  <2>2. Adds(t, s)
    <3> HIDE DEF p
    <3> QED
      BY <1>2, <2>1, AddSimple DEF CommandNames
  <2>3. AddsJob(Simple(t, "STOR", p, ""), s)
    <3> HIDE DEF p, t
    <3> QED
      BY <1>2, <2>2, AddSimple DEF CommandNames, Writing
  <2> QED
    BY <1>6, <2>3 DEF Enqueue, EnqueueTransfer
<1>7. CASE j.op = "pwd"
  <2>1. AddsJob(Simple(s, "PWD", "", ""), s)
    BY <1>2, <1>3, AddSimple DEF CommandNames
  <2> QED
    BY <1>7, <2>1 DEF Enqueue, EnqueueQuery
<1>8. CASE j.op = "mimetype"
  <2> DEFINE t == [s EXCEPT !.recvLen = MimeBytes]
             c == Request("READ", t.nextId, p, "", 0, MimeBytes)
             u == SendCommand(t, "READ", p, "", 0, MimeBytes)
  <2>1. Adds(t, s) /\ t \in ConnectionSet
    BY AddsNothing DEF Adds, Alike
  <2> HIDE DEF t
  <2>2. c \in RequestSet /\ c.name = "READ"
    <3>1. t.nextId \in Nat /\ MimeBytes \in Nat
      BY <2>1, ConnectionFields, MimeBytesAssumption
    <3> QED
      BY <1>2, <3>1 DEF Request, RequestSet, CommandNames
  <2>3. Queued(u, t, c)
    BY <2>1, <2>2, SendCommandFacts
  <2>4. AddsJob(u, s)
    <3> HIDE DEF u, c
    <3> QED
      BY <2>1, <2>2, <2>3, AddOne
  <2> QED
    BY <1>8, <2>4 DEF Enqueue, EnqueueQuery, t
<1>9. CASE j.op \in {"stat", "listDir", "del", "rmdir", "exec", "chmod"}
  <2>1. /\ AddsJob(Simple(s, "STAT", p, ""), s) /\ AddsJob(Simple(s, "LIST", p, ""), s) /\ AddsJob(Simple(s, "DELE", p, ""), s)
        /\ AddsJob(Simple(s, "RMD", p, ""), s) /\ AddsJob(Simple(s, "EXEC", p, ""), s) /\ AddsJob(Simple(s, "CHMOD", p, ""), s)
    BY <1>4
  <2> QED
    BY <1>9, <2>1 DEF Enqueue, EnqueueQuery, EnqueueRemoval, EnqueueChange
<1>10. CASE j.op = "mkdir"
  <2>1. AddsJob(WithPermissions(Simple(s, "MKD", p, ""), j, p), s)
    BY <1>2, <1>4, AddPermissions
  <2> QED
    BY <1>10, <2>1 DEF Enqueue, EnqueueChange
<1>11. CASE j.op = "rename"
  <2>1. Adds(Checked(s, j, q), s) /\ q \in Path
    BY <1>1, <1>3, <1>11, AddChecked
  <2>2. AddsJob(Simple(Checked(s, j, q), "RENAME", p, q), s)
    <3> HIDE DEF p, q
    <3> QED
      BY <1>2, <2>1, AddSimple DEF CommandNames, Acting
  <2> QED
    BY <1>11, <2>2 DEF Enqueue, EnqueueChange
<1>12. CASE j.op = "symlink"
  <2>1. Adds(Checked(s, j, p), s)
    BY <1>2, <1>3, AddChecked
  <2>2. AddsJob(Simple(Checked(s, j, p), "SYMLINK", p, ""), s)
    <3> HIDE DEF p
    <3> QED
      BY <1>2, <2>1, AddSimple DEF CommandNames, Acting
  <2> QED
    BY <1>12, <2>2 DEF Enqueue, EnqueueChange
<1>13. CASE j.op = "copy"
  <2>1. Adds(Checked(s, j, q), s) /\ q \in Path
    BY <1>1, <1>3, <1>13, AddChecked
  <2> DEFINE t == Simple(Checked(s, j, q), "COPY", p, q)
  <2>2. AddsJob(t, s) /\ Adds(t, s)
    <3> HIDE DEF p, q
    <3> QED
      BY <1>2, <2>1, AddSimple DEF CommandNames, Acting
  <2>3. AddsJob(WithPermissions(t, j, q), s)
    <3> HIDE DEF t, q
    <3> QED
      BY <2>1, <2>2, AddPermissions
  <2> QED
    BY <1>13, <2>3 DEF Enqueue, EnqueueChange
<1> QED
  BY <1>1, <1>5, <1>6, <1>7, <1>8, <1>9, <1>10, <1>11, <1>12, <1>13 DEF Names

LEMMA OpenConnectedKeeps ==
  ASSUME FishInv, OpenConnected, Elsewhere
  PROVE  FishInv' /\ WaitInv'
<1>1. /\ pc = "open" /\ cl.childPid = TRUE /\ cl' = Finished([Enqueue(cl, job) EXCEPT !.isRunning = TRUE])
      /\ pc' = "select" /\ inBuf' = << >> /\ UNCHANGED <<job, toPut, wireVars, server, fs, srv, srvOut>>
  <2>1. cl.childPid \in BOOLEAN
    BY ConnectionFields DEF FishInv, FishTypeInv
  <2> QED
    BY <2>1 DEF OpenConnected, StartRun, Elsewhere, serverVars
<1>2. /\ cl \in ConnectionSet /\ job \in JobSet /\ cl.isRunning = FALSE /\ cl.commandList = << >> /\ cl.outBuf = << >>
      /\ cl.sendLen <= 0 /\ cl.sendLen \in Nat \cup {-1} /\ toPut \in Seq(Portion)
  BY <1>1, ConnectionFields DEF FishInv, FishTypeInv, RunInv, CurrentInv
<1>3. cl.qlist = << >> /\ cl.writeReady = TRUE
  <2>1. Current \in RequestSet
    BY <1>2, ConnectionFields DEF Current
  <2>2. cl.outBuf # Lines(Current) /\ cl.outBuf # <<ShellLine(Current)>>
    BY <1>2, <2>1, LinesFacts, Empties
  <2> QED
    BY <2>2 DEF FishInv, BufferInv
<1>4. QuietWire
  <2>1. ToCome = << >> /\ (alive = TRUE => srv.mode = "main" /\ ReplyPhase)
    BY <1>1, <1>2 DEF FishInv, QuietInv
  <2>2. inBuf = << >> /\ toClient = << >> /\ srvOut = << >> /\ ToRead = toServer
    BY <1>2, <2>1, Streams DEF FishInv
  <2>3. alive = FALSE => toServer = << >>
    BY <1>1 DEF FishInv, PhaseInv, DeadPhase
  <2> QED
    BY <1>1, <2>1, <2>2, <2>3 DEF QuietWire, ReplyPhase
<1> DEFINE t == Enqueue(cl, job)
           s == [t EXCEPT !.isRunning = TRUE]
<1>5. AddsJob(t, cl)
  BY <1>2, EnqueueAdds
<1> HIDE DEF t
<1>6. /\ t \in ConnectionSet /\ t.childPid = TRUE /\ t.qlist = << >> /\ t.writeReady = TRUE /\ t.outBuf = << >>
      /\ ~(t.sendLen > 0) /\ t.commandList \in Seq(RequestSet)
  BY <1>1, <1>2, <1>3, <1>5, ConnectionFields DEF AddsJob, Alike
<1>7. /\ s \in ConnectionSet /\ s.childPid = TRUE /\ s.qlist = << >> /\ s.writeReady = TRUE /\ s.outBuf = << >>
      /\ ~(s.sendLen > 0) /\ s.commandList = t.commandList /\ s.isRunning = TRUE
  BY <1>6 DEF ConnectionSet
<1>8. t.commandList # << >> /\ Queue(t.commandList)
  <2>1. Len(cl.commandList) = 0
    BY <1>2, Empties
  <2> QED
    BY <1>5, <2>1, Empties DEF AddsJob, Queue
<1>9. cl' = Finished(s)
  BY <1>1 DEF t
<1> HIDE DEF s
<1>10. Ready(s)
  <2> DEFINE l == t.commandList
             c == Head(l)
  <2>1. /\ c \in RequestSet /\ c.name \notin {"none", "FISH", "WRITE", "APPEND"}
        /\ Queue(Tail(l)) /\ (c.name = "STOR" => Tail(l) = << >>)
    BY <1>6, <1>8, QueueRest
  <2>2. c.name = "STOR" => c.n = 0
    BY <2>1 DEF RequestSet
  <2> HIDE DEF c, l
  <2>3. l = s.commandList /\ c = Head(s.commandList)
    BY <1>7 DEF l, c
  <2> QED
    BY <1>7, <1>8, <2>1, <2>2, <2>3 DEF Ready, Free, Writing, l
<1> QED
  BY <1>1, <1>2, <1>4, <1>9, <1>10, CommandSent

LEMMA OpenFailsKeeps ==
  ASSUME FishInv, OpenFails \/ SelectBroken, Elsewhere
  PROVE  FishInv' /\ WaitInv'
<1>1. UNCHANGED <<wireVars, server, fs, srv, srvOut, toPut>>
  BY DEF OpenFails, SelectBroken, Elsewhere, serverVars
<1>2. ShutdownError("ERR_CANNOT_CONNECT") \/ ShutdownError("ERR_CONNECTION_BROKEN")
  BY Zenon DEF OpenFails, SelectBroken
<1> QED
  BY <1>1, <1>2, ShutdownKeeps

(* A new connection: the login's command goes first.                       *)
LEMMA ConnectKeeps ==
  ASSUME FishInv, Connect
  PROVE  FishInv' /\ WaitInv'
<1> DEFINE s0 == [cl EXCEPT !.childPid = TRUE]
           f == Request("FISH", s0.nextId, "", "", 0, 0)
           s1 == SendCommand(s0, "FISH", "", "", 0, 0)
           v == Request("VER", s1.nextId, "", "", 0, 0)
           s2 == SendCommand(s1, "VER", "", "", 0, 0)
           t == Enqueue(s2, job)
           s == [t EXCEPT !.isRunning = TRUE]
<1>1. /\ pc = "open" /\ cl' = Finished(s) /\ pc' = "select" /\ inBuf' = << >>
      /\ toServer' = << >> /\ toClient' = << >> /\ alive' = TRUE /\ srvOut' = << >>
      /\ srv' = [Idle EXCEPT !.mode = "login"] /\ UNCHANGED <<job, toPut, server, fs>>
  BY DEF Connect, OpenConnects, StartRun
<1>2. /\ cl \in ConnectionSet /\ job \in JobSet /\ cl.isRunning = FALSE /\ cl.commandList = << >> /\ cl.outBuf = << >>
      /\ cl.sendLen <= 0 /\ cl.sendLen \in Nat \cup {-1}
  BY <1>1, ConnectionFields DEF FishInv, FishTypeInv, RunInv, CurrentInv
<1>3. cl.qlist = << >> /\ cl.writeReady = TRUE
  <2>1. Current \in RequestSet
    BY <1>2, ConnectionFields DEF Current
  <2>2. cl.outBuf # Lines(Current) /\ cl.outBuf # <<ShellLine(Current)>>
    BY <1>2, <2>1, LinesFacts, Empties
  <2> QED
    BY <2>2 DEF FishInv, BufferInv
<1>4. /\ s0 \in ConnectionSet /\ s0.childPid = TRUE /\ s0.qlist = << >> /\ s0.writeReady = TRUE /\ s0.outBuf = << >>
      /\ s0.sendLen = cl.sendLen /\ s0.commandList = << >> /\ s0.nextId \in Nat
  BY <1>2, <1>3 DEF ConnectionSet
<1> HIDE DEF s0
<1>5. f \in RequestSet /\ f.name = "FISH"
  BY <1>4 DEF Request, RequestSet, CommandNames
<1>6. Queued(s1, s0, f)
  BY <1>4, <1>5, SendCommandFacts
<1> HIDE DEF f, s1
<1>7. s1 \in ConnectionSet /\ s1.nextId \in Nat
  BY <1>6, ConnectionFields DEF Queued
<1>8. v \in RequestSet /\ v.name = "VER"
  BY <1>7 DEF Request, RequestSet, CommandNames
<1>9. Queued(s2, s1, v)
  BY <1>7, <1>8, SendCommandFacts
<1> HIDE DEF v, s2
<1>10. s2 \in ConnectionSet
  BY <1>9 DEF Queued
<1>11. AddsJob(t, s2)
  BY <1>2, <1>10, EnqueueAdds
<1> HIDE DEF t
<1>12. /\ t \in ConnectionSet /\ t.childPid = TRUE /\ t.qlist = << >> /\ t.writeReady = TRUE /\ t.outBuf = << >>
       /\ t.sendLen = cl.sendLen /\ t.commandList \in Seq(RequestSet)
  BY <1>4, <1>6, <1>9, <1>11, ConnectionFields DEF AddsJob, Alike, Queued
<1> DEFINE l == t.commandList
           l2 == s2.commandList
           l1 == s1.commandList
<1>13. Len(l2) = 2 /\ l2[1] = f /\ l2[2] = v
  <2>1. l1 = Append(<< >>, f) /\ l2 = Append(l1, v)
    BY <1>4, <1>6, <1>9 DEF Queued
  <2>2. l1 = <<f>>
    BY <1>5, <2>1
  <2> HIDE DEF l1, l2
  <2>3. <<f>> \in Seq(RequestSet) /\ Len(<<f>>) = 1 /\ <<f>>[1] = f
    BY <1>5, Single
  <2> QED
    BY <1>5, <1>8, <2>1, <2>2, <2>3, AppendProperties
<1>14. /\ Len(l) > 2 /\ l[1] = f /\ l[2] = v /\ l \in Seq(RequestSet) /\ Len(l) \in Nat
       /\ \A i \in 3 .. Len(l) : l[i].name \notin {"none", "FISH", "WRITE", "APPEND"} /\ (l[i].name = "STOR" => i = Len(l))
  <2>1. /\ Len(l) > Len(l2) /\ \A i \in 1 .. Len(l2) : l[i] = l2[i]
        /\ \A i \in Len(l2) + 1 .. Len(l) : l[i].name \notin {"none", "FISH", "WRITE", "APPEND"} /\ (l[i].name = "STOR" => i = Len(l))
    BY <1>11 DEF AddsJob, Alike
  <2> HIDE DEF l, l2
  <2>2. l \in Seq(RequestSet) /\ Len(l) \in Nat
    BY <1>12, LenProperties DEF l
  <2>3. 1 \in 1 .. Len(l2) /\ 2 \in 1 .. Len(l2) /\ Len(l2) + 1 = 3
    BY <1>13
  <2> QED
    BY <1>13, <2>1, <2>2, <2>3
<1> HIDE DEF l, l1, l2
<1>15. l # << >> /\ Head(l) = f /\ Queue(Tail(l))
  <2>1. l # << >> /\ Head(l) = l[1] /\ Tail(l) \in Seq(RequestSet) /\ Len(Tail(l)) = Len(l) - 1
        /\ \A i \in 1 .. Len(Tail(l)) : Tail(l)[i] = l[i + 1]
    BY <1>14, HeadTailProperties, Empties
  <2> DEFINE n == Len(l)
             m == Len(Tail(l))
             r == Tail(l)
  <2>2. n \in Nat /\ m = n - 1 /\ l[2] = v /\ \A i \in 1 .. m : r[i] = l[i + 1]
    BY <1>14, <2>1
  <2>3. \A i \in 3 .. n : l[i].name \notin {"none", "FISH", "WRITE", "APPEND"} /\ (l[i].name = "STOR" => i = n)
    BY <1>14
  <2> HIDE DEF n, m, r
  <2>4. ASSUME NEW i \in 1 .. m
        PROVE  r[i].name \notin {"none", "FISH", "WRITE", "APPEND"} /\ (r[i].name = "STOR" => i = m)
    <3>1. CASE i = 1
      BY <1>8, <2>2, <3>1
    <3>2. CASE i # 1
      <4>1. i + 1 \in 3 .. n /\ (i + 1 = n => i = m)
        BY <2>2, <3>2
      <4> QED
        BY <2>2, <2>3, <4>1
    <3> QED
      BY <3>1, <3>2
  <2>5. Queue(Tail(l))
    BY <2>4 DEF Queue, m, r
  <2> QED
    BY <1>14, <2>1, <2>5
<1>16. /\ s \in ConnectionSet /\ s.childPid = TRUE /\ s.qlist = << >> /\ s.writeReady = TRUE /\ s.outBuf = << >>
       /\ s.sendLen = cl.sendLen /\ s.commandList = l /\ s.isRunning = TRUE
  BY <1>12 DEF ConnectionSet, l
<1> HIDE DEF s
<1>17. /\ cl' \in ConnectionSet /\ cl'.childPid = TRUE /\ cl'.sendLen = cl.sendLen
       /\ cl'.fishCommand = f /\ cl'.qlist = <<f>> /\ cl'.writeReady = FALSE
       /\ cl'.outBuf = Lines(f) /\ cl'.outBusy = TRUE /\ cl'.rawWrite = -1 /\ cl'.rawRead = 0
       /\ cl'.commandList = Tail(l) /\ cl'.isRunning = TRUE
  BY <1>1, <1>15, <1>16, FinishedFacts
<1>18. srv' \in ServerSet /\ srv'.mode = "login"
  BY <1>1 DEF Idle, Request, RequestSet, CommandNames, ServerSet
<1>19. FishTypeInv'
  BY <1>1, <1>17, <1>18, Empties DEF FishInv, FishTypeInv
<1>20. BufferInv'
  BY <1>17 DEF BufferInv, Current
<1>21. CurrentInv'
  BY <1>2, <1>5, <1>15, <1>17 DEF CurrentInv, Current, Writing
<1>22. RunInv' /\ QuietInv'
  BY <1>1, <1>17 DEF RunInv, QuietInv
<1>23. PhaseInv'
  <2>1. ToCome' = << >>
    <3>1. << >> \o << >> = << >>
      BY Empties, ConcatEmptySeq
    <3> QED
      BY <1>1, <3>1 DEF ToCome
  <2>2. ToRead' = Lines(f)
    BY <1>1, <1>5, <1>17, LinesFacts, ConcatEmptySeq DEF ToRead
  <2>3. LoginPhase'
    BY <1>5, <1>17, <2>1, <2>2 DEF LoginPhase, Current
  <2> QED
    BY <1>1, <1>18, <2>3 DEF PhaseInv
<1>24. WaitInv'
  <2>1. Current'.name = "FISH"
    BY <1>5, <1>17 DEF Current
  <2> QED
    BY <1>18, <2>1 DEF WaitInv, MainWaits, CodeWaits, CountInv, Reading
<1> QED
  BY <1>24, <1>19, <1>20, <1>21, <1>22, <1>23 DEF FishInv

-----------------------------------------------------------------------------
(* What fish.pl replies, and what it does to the file system.              *)

ReplyUnit == ({"status"} \cup (Line \ {"blank"})) \X Nat

(* A reply ends with a status, and all before that are preliminary.        *)
Preliminary(r) == r \in Seq(ReplyUnit) /\ \A i \in 1 .. Len(r) : r[i][1] = "status" => r[i][2] = 100
GoodReply(r) ==
  /\ r \in Seq(ReplyUnit) /\ r # << >>
  /\ \A i \in 1 .. Len(r) : r[i][1] = "status" => r[i][2] \notin {0, 1} /\ (r[i][2] # 100 => i = Len(r))
  /\ r[Len(r)][1] = "status" /\ r[Len(r)][2] # 100

LEMMA ReplyUnits ==
  /\ \A n \in Nat : Status(n) \in ReplyUnit /\ Status(n)[1] = "status" /\ Status(n)[2] = n
  /\ \A n \in Nat : Number(n) \in ReplyUnit /\ Number(n)[1] # "status"
  /\ Text \in ReplyUnit /\ Text[1] # "status" /\ Entry \in ReplyUnit /\ Entry[1] # "status"
BY DEF ReplyUnit, Line, Status, Number, Text, Entry

LEMMA GoodEnd ==
  ASSUME NEW r, Preliminary(r), NEW n \in Nat \ {0, 1, 100}
  PROVE  GoodReply(r \o <<Status(n)>>)
<1> DEFINE x == Status(n)
           t == r \o <<x>>
<1>1. x \in ReplyUnit /\ x[1] = "status" /\ x[2] = n
  BY ReplyUnits
<1> HIDE DEF x
<1>2. <<x>> \in Seq(ReplyUnit) /\ Len(<<x>>) = 1 /\ <<x>>[1] = x
  BY <1>1, Single
<1>3. r \in Seq(ReplyUnit) /\ Len(r) \in Nat
  BY LenProperties DEF Preliminary
<1>4. /\ t \in Seq(ReplyUnit) /\ Len(t) = Len(r) + 1
      /\ \A i \in 1 .. Len(r) + 1 : t[i] = IF i <= Len(r) THEN r[i] ELSE <<x>>[i - Len(r)]
  <2> HIDE DEF ReplyUnit
  <2> QED
    BY <1>2, <1>3, ConcatProperties
<1> HIDE DEF t
<1>5. t # << >>
  BY <1>3, <1>4, Empties
<1>6. \A i \in 1 .. Len(t) : t[i][1] = "status" => t[i][2] \notin {0, 1} /\ (t[i][2] # 100 => i = Len(t))
  <2> TAKE i \in 1 .. Len(t)
  <2>1. CASE i = Len(r) + 1
    BY <1>1, <1>2, <1>3, <1>4, <2>1
  <2>2. CASE i # Len(r) + 1
    <3>1. i \in 1 .. Len(r) /\ t[i] = r[i]
      BY <1>3, <1>4, <2>2
    <3> QED
      BY <3>1 DEF Preliminary
  <2> QED
    BY <2>1, <2>2
<1>7. t[Len(t)] = x
  BY <1>2, <1>3, <1>4
<1> QED
  BY <1>1, <1>4, <1>5, <1>6, <1>7 DEF GoodReply, t, x

LEMMA ShortReplies ==
  ASSUME NEW n \in Nat \ {0, 1, 100}, NEW m \in Nat
  PROVE  /\ GoodReply(<<Status(n)>>) /\ GoodReply(<<Text, Status(n)>>)
         /\ GoodReply(<<Number(m), Status(100), Status(n)>>)
         /\ GoodReply(<<Number(m), Status(100), Entry, Status(n)>>)
<1> DEFINE x == Status(n)
           g == Status(100)
           k == Number(m)
           a == Text
           e == Entry
<1>1. /\ x \in ReplyUnit /\ x[1] = "status" /\ x[2] = n /\ g \in ReplyUnit /\ g[1] = "status" /\ g[2] = 100
      /\ k \in ReplyUnit /\ k[1] # "status" /\ a \in ReplyUnit /\ a[1] # "status" /\ e \in ReplyUnit /\ e[1] # "status"
  BY ReplyUnits
<1> HIDE DEF x, g, k, a, e
<1>2. GoodReply(<<x>>)
  BY <1>1 DEF GoodReply
<1>3. GoodReply(<<a, x>>)
  BY <1>1 DEF GoodReply
<1>4. GoodReply(<<k, g, x>>)
  BY <1>1 DEF GoodReply
<1>5. GoodReply(<<k, g, e, x>>)
  BY <1>1 DEF GoodReply
<1> QED
  BY <1>2, <1>3, <1>4, <1>5 DEF x, g, k, a, e

LEMMA KnownReplies ==
  /\ GoodReply(<<Status(200)>>) /\ GoodReply(<<Status(400)>>) /\ GoodReply(<<Status(404)>>)
  /\ GoodReply(<<Status(500)>>) /\ GoodReply(<<Status(501)>>)
  /\ GoodReply(<<Text, Status(200)>>) /\ GoodReply(<<Number(1), Status(100), Status(500)>>)
  /\ GoodReply(<<Number(1), Status(100), Entry, Status(200)>>)
<1> DEFINE Short(n) == GoodReply(<<Status(n)>>) /\ GoodReply(<<Text, Status(n)>>)
           Long(m, n) == GoodReply(<<Number(m), Status(100), Status(n)>>) /\ GoodReply(<<Number(m), Status(100), Entry, Status(n)>>)
<1>1. \A n \in Nat \ {0, 1, 100}, m \in Nat : Short(n) /\ Long(m, n)
  BY ShortReplies
<1> HIDE DEF Short, Long
<1>2. Short(200) /\ Short(400) /\ Short(404) /\ Short(500) /\ Short(501) /\ Long(1, 200) /\ Long(1, 500)
  BY <1>1
<1> QED
  BY <1>2 DEF Short, Long

(* sub read_loop sends what it announced.                                  *)
LEMMA PaddedFacts ==
  ASSUME NEW s \in Seq(Portion), NEW n \in Nat
  PROVE  /\ Padded(s, n) \in Seq(Portion) /\ Len(Padded(s, n)) = n
         /\ DataOf(Padded(s, n)) \in Seq(ReplyUnit) /\ Len(DataOf(Padded(s, n))) = n
         /\ \A i \in 1 .. n : DataOf(Padded(s, n))[i][1] = "data"
<1>1. \A i \in 1 .. n : (IF i <= Len(s) THEN s[i] ELSE Padding) \in Portion
  <2> TAKE i \in 1 .. n
  <2>1. CASE i <= Len(s)
    <3>1. i \in 1 .. Len(s)
      BY <2>1, LenProperties
    <3> QED
      BY <2>1, <3>1, ElementOfSeq
  <2>2. CASE ~(i <= Len(s))
    BY <2>2 DEF Padding, Portion
  <2> QED
    BY <2>1, <2>2
<1> DEFINE p == Padded(s, n)
<1>2. p \in Seq(Portion) /\ Len(p) = n
  BY <1>1 DEF Padded
<1> HIDE DEF p
<1> DEFINE d == DataOf(p)
<1>3. ASSUME NEW i \in 1 .. n PROVE <<"data", p[i]>> \in ReplyUnit /\ <<"data", p[i]>>[1] = "data"
  <2>1. p[i] \in Portion
    BY <1>2, ElementOfSeq
  <2> QED
    BY <2>1 DEF ReplyUnit, Line, Portion
<1>4. d \in Seq(ReplyUnit) /\ Len(d) = n /\ \A i \in 1 .. n : d[i] = <<"data", p[i]>>
  BY <1>2, <1>3 DEF DataOf
<1> QED
  BY <1>2, <1>3, <1>4 DEF p

LEMMA ReadReply ==
  ASSUME NEW h, Preliminary(h), NEW s \in Seq(Portion), NEW n \in Nat, NEW code \in Nat \ {0, 1, 100}
  PROVE  GoodReply(h \o DataOf(Padded(s, n)) \o <<Status(code)>>)
<1> DEFINE d == DataOf(Padded(s, n))
           t == h \o d
<1>1. d \in Seq(ReplyUnit) /\ Len(d) = n /\ \A i \in 1 .. n : d[i][1] = "data"
  BY PaddedFacts
<1>2. h \in Seq(ReplyUnit) /\ Len(h) \in Nat
  BY LenProperties DEF Preliminary
<1> HIDE DEF d
<1>3. /\ t \in Seq(ReplyUnit) /\ Len(t) = Len(h) + n
      /\ \A i \in 1 .. Len(h) + n : t[i] = IF i <= Len(h) THEN h[i] ELSE d[i - Len(h)]
  BY ZenonT(90), <1>1, <1>2, ConcatProperties
<1> HIDE DEF t
<1>4. \A i \in 1 .. Len(t) : t[i][1] = "status" => t[i][2] = 100
  <2> TAKE i \in 1 .. Len(t)
  <2>1. CASE i <= Len(h)
    <3>1. i \in 1 .. Len(h) /\ t[i] = h[i]
      BY <1>2, <1>3, <2>1
    <3> QED
      BY <3>1 DEF Preliminary
  <2>2. CASE ~(i <= Len(h))
    <3>1. i - Len(h) \in 1 .. n /\ t[i] = d[i - Len(h)]
      BY <1>2, <1>3, <2>2
    <3> QED
      BY <1>1, <3>1
  <2> QED
    BY <2>1, <2>2
<1>5. Preliminary(t)
  BY <1>3, <1>4 DEF Preliminary
<1>6. GoodReply(t \o <<Status(code)>>)
  BY <1>5, GoodEnd
<1> QED
  BY <1>6 DEF t, d

(* An outcome of a request leaves a file system, and has a reply.          *)
GoodOutcome(o) == o.fs \in [Path -> Value] /\ GoodReply(o.reply)

LEMMA Outcome ==
  ASSUME NEW f \in [Path -> Value], NEW r, GoodReply(r)
  PROVE  GoodOutcome(Did(f, r)) /\ GoodOutcome(DidNot(f, r))
BY DEF GoodOutcome, Did, DidNot

LEMMA Contents ==
  ASSUME NEW v \in Value
  PROVE  /\ IsFile(v) => v \in Seq(Portion) /\ Len(v) \in Nat
         /\ v \in {Absent, Dir} \/ IsFile(v)
         /\ Seq(Portion) \subseteq Value /\ Absent \in Value /\ Dir \in Value
BY LenProperties DEF IsFile, Value, Portion

LEMMA OneUnit == <<Linked>> \in Seq(Portion) /\ <<Output>> \in Seq(Portion)
<1>1. Linked \in Portion /\ Output \in Portion
  BY DEF Linked, Output, Portion
<1> QED
  BY <1>1, Single

LEMMA EffectsKeep ==
  ASSUME fs \in [Path -> Value], NEW c \in RequestSet, c.name \in Acting
  PROVE  Effects(c) \subseteq [Path -> Value]
<1> DEFINE p == c.p
           q == c.q
           name == c.name
<1>1. p \in Path /\ (name \in {"RENAME", "COPY"} => q \in Path)
  BY DEF RequestSet, Acting
<1>2. fs[p] \in Value /\ (name \in {"RENAME", "COPY"} => fs[q] \in Value)
  BY <1>1
<1>3. Absent \in Value /\ Dir \in Value /\ <<Linked>> \in Value /\ <<Output>> \in Value
  BY <1>2, OneUnit, Contents
<1> HIDE DEF p, q, name
<1>4. SUFFICES ASSUME NEW f, f \in
        CASE name = "CHMOD"   -> IF fs[p] # Absent THEN {fs} ELSE {}
          [] name = "DELE"    -> IF IsFile(fs[p]) THEN {[fs EXCEPT ![p] = Absent]} ELSE {}
          [] name = "RMD"     -> IF fs[p] = Dir THEN {[fs EXCEPT ![p] = Absent]} ELSE {}
          [] name = "MKD"     -> IF fs[p] = Absent THEN {[fs EXCEPT ![p] = Dir]} ELSE {}
          [] name = "SYMLINK" -> IF fs[p] = Absent THEN {[fs EXCEPT ![p] = <<Linked>>]} ELSE {}
          [] name = "EXEC"    -> IF fs[p] = Absent THEN {[fs EXCEPT ![p] = <<Output>>]} ELSE {}
          [] name = "RENAME"  -> IF fs[p] # Absent /\ (fs[q] = Absent \/ (fs[p] = Dir) = (fs[q] = Dir))
                                 THEN {[fs EXCEPT ![p] = Absent, ![q] = fs[p]]} ELSE {}
          [] name = "COPY"    -> IF IsFile(fs[p]) /\ fs[q] # Dir
                                 THEN {[fs EXCEPT ![q] = fs[p]]} ELSE {}
      PROVE f \in [Path -> Value]
  BY DEF Effects, p, q, name
<1>5. \/ f = fs \/ f = [fs EXCEPT ![p] = Absent] \/ f = [fs EXCEPT ![p] = Dir]
      \/ f = [fs EXCEPT ![p] = <<Linked>>] \/ f = [fs EXCEPT ![p] = <<Output>>]
      \/ name \in {"RENAME", "COPY"} /\ (f = [fs EXCEPT ![p] = Absent, ![q] = fs[p]] \/ f = [fs EXCEPT ![q] = fs[p]])
  <2>1. name \in Acting
    BY DEF name
  <2> QED
    BY <1>4, <2>1, Zenon DEF Acting
<1> QED
  BY <1>1, <1>2, <1>3, <1>5

LEMMA RemainsKeep ==
  ASSUME fs \in [Path -> Value], NEW c \in RequestSet, c.name \in Acting
  PROVE  Remains(c) \subseteq [Path -> Value]
<1> SUFFICES ASSUME NEW f \in Remains(c) PROVE f \in [Path -> Value]
  OBVIOUS
<1>1. c.p \in Path /\ (c.name = "COPY" => c.q \in Path)
  BY DEF RequestSet, Acting
<1>2. CASE f = fs
  BY <1>2
<1>3. CASE f # fs
  <2>1. c.name = "COPY" /\ fs[c.p] # Absent /\ fs[c.q] # Dir
    BY <1>3 DEF Remains
  <2>2. PICK n \in 0 .. (IF IsFile(fs[c.p]) THEN Len(fs[c.p]) - 1 ELSE 0) :
          f = [fs EXCEPT ![c.q] = SubSeq(IF IsFile(fs[c.p]) THEN fs[c.p] ELSE << >>, 1, n)]
    BY <1>3, <2>1 DEF Remains
  <2> DEFINE s == IF IsFile(fs[c.p]) THEN fs[c.p] ELSE << >>
             d == SubSeq(s, 1, n)
  <2>3. s \in Seq(Portion) /\ Len(s) \in Nat /\ n \in 0 .. Len(s)
    <3>1. CASE IsFile(fs[c.p])
      BY <1>1, <2>2, <3>1, Contents
    <3>2. CASE ~IsFile(fs[c.p])
      BY <2>2, <3>2, Empties
    <3> QED
      BY <3>1, <3>2
  <2> HIDE DEF s
  <2>4. d \in Seq(Portion)
    BY <2>3, Cut
  <2>5. d \in Value
    <3>1. fs[c.p] \in Value
      BY <1>1
    <3> QED
      BY <2>4, <3>1, Contents
  <2>6. f = [fs EXCEPT ![c.q] = d]
    BY <2>2 DEF s
  <2> HIDE DEF d
  <2> QED
    BY <1>1, <2>1, <2>5, <2>6
<1> QED
  BY <1>2, <1>3

LEMMA ActsGood ==
  ASSUME fs \in [Path -> Value], NEW c \in RequestSet, c.name \in Acting, NEW o \in PerlActs(c)
  PROVE  GoodOutcome(o)
<1>1. GoodReply(<<Status(200)>>) /\ GoodReply(<<Status(500)>>) /\ GoodReply(<<Status(501)>>)
  BY KnownReplies
<1>2. CASE \E f \in Effects(c) : o = Did(f, <<Status(200)>>)
  BY <1>1, <1>2, EffectsKeep, Outcome
<1>3. CASE \E f \in Remains(c) : o = DidNot(f, <<Status(IF c.name = "MKD" /\ fs[c.p] = Dir THEN 501 ELSE 500)>>)
  <2>1. PICK f \in Remains(c) : o = DidNot(f, <<Status(500)>>) \/ o = DidNot(f, <<Status(501)>>)
    BY <1>3
  <2> QED
    BY <1>1, <2>1, RemainsKeep, Outcome
<1> QED
  BY <1>2, <1>3 DEF PerlActs

LEMMA ListGood ==
  ASSUME fs \in [Path -> Value], NEW c \in RequestSet, NEW o \in PerlList(c)
  PROVE  GoodOutcome(o)
<1> DEFINE a == <<Status(404)>>
           b == <<Number(1), Status(100), Entry, Status(200)>>
           d == <<Status(500)>>
           e == <<Number(1), Status(100), Status(500)>>
<1>1. GoodReply(a) /\ GoodReply(b) /\ GoodReply(d) /\ GoodReply(e)
  BY KnownReplies
<1>2. o = DidNot(fs, a) \/ o = Did(fs, b) \/ o = DidNot(fs, d) \/ o = DidNot(fs, e)
  BY DEF PerlList
<1> HIDE DEF a, b, d, e
<1> QED
  BY <1>1, <1>2, Outcome

LEMMA ReadGood ==
  ASSUME fs \in [Path -> Value], NEW c \in RequestSet, c.name \in {"RETR", "READ"}, NEW o \in PerlRead(c)
  PROVE  GoodOutcome(o)
<1> DEFINE v == fs[c.p]
           want == IF c.name = "RETR" THEN Len(v) ELSE MimeBytes
           head == IF c.name = "RETR" THEN <<Number(want), Status(100)>> ELSE <<Status(100)>>
           sends(s, code) == head \o DataOf(Padded(s, want)) \o <<Status(code)>>
<1>1. c.p \in Path /\ v \in Value
  BY DEF RequestSet
<1>2. GoodReply(<<Status(500)>>) /\ GoodReply(<<Status(501)>>)
  BY KnownReplies
<1>3. o \in
        CASE v = Dir    -> {[Did(fs, <<Status(501)>>) EXCEPT !.ok = (c.name = "READ")]}
          [] v = Absent -> {DidNot(fs, <<Status(500)>>)}
          [] IsFile(v)  ->
               {Did(fs, sends(v, 200))} \union
               (IF Len(v) < want THEN {DidNot(fs, sends(v, 500))} ELSE {}) \union
               (IF Faults
                THEN {DidNot(fs, <<Status(500)>>)} \union
                     {DidNot(fs, sends(SubSeq(v, 1, n), 500)) : n \in 0 .. Len(v) - 1}
                ELSE {})
  BY DEF PerlRead
<1> HIDE DEF v
<1>4. CASE v = Dir
  <2>1. ~IsFile(v) /\ v # Absent
    BY <1>4, PathAssumption DEF IsFile
  <2>2. o = [Did(fs, <<Status(501)>>) EXCEPT !.ok = (c.name = "READ")]
    BY Zenon, <1>3, <1>4, <2>1
  <2>3. o.fs = fs /\ o.reply = <<Status(501)>>
    BY <2>2 DEF Did
  <2> QED
    BY <1>2, <2>3 DEF GoodOutcome
<1>5. CASE v = Absent
  <2>1. ~IsFile(v) /\ v # Dir
    BY <1>5, PathAssumption DEF IsFile
  <2>2. o = DidNot(fs, <<Status(500)>>)
    BY Zenon, <1>3, <1>5, <2>1
  <2> QED
    BY <1>2, <2>2, Outcome
<1>6. CASE IsFile(v)
  <2>1. v \in Seq(Portion) /\ Len(v) \in Nat /\ v # Dir /\ v # Absent
    BY <1>1, <1>6, Contents DEF IsFile
  <2>2. want \in Nat
    BY <2>1, MimeBytesAssumption
  <2> HIDE DEF want
  <2>3. Preliminary(head)
    <3> DEFINE g == Status(100)
               k == Number(want)
    <3>1. g \in ReplyUnit /\ g[1] = "status" /\ g[2] = 100 /\ k \in ReplyUnit /\ k[1] # "status"
      BY <2>2, ReplyUnits
    <3> HIDE DEF g, k
    <3>2. Preliminary(<<k, g>>) /\ Preliminary(<<g>>)
      BY <3>1 DEF Preliminary
    <3> QED
      BY <3>2 DEF g, k
  <2> HIDE DEF head
  <2>4. ASSUME NEW s \in Seq(Portion), NEW code \in Nat \ {0, 1, 100} PROVE GoodReply(sends(s, code))
    BY <2>2, <2>3, ReadReply
  <2> HIDE DEF sends
  <2>5. \/ o = Did(fs, sends(v, 200)) \/ o = DidNot(fs, sends(v, 500)) \/ o = DidNot(fs, <<Status(500)>>)
        \/ \E n \in 0 .. Len(v) - 1 : o = DidNot(fs, sends(SubSeq(v, 1, n), 500))
    BY SMTT(60), <1>3, <1>6, <2>1
  <2>6. ASSUME NEW n \in 0 .. Len(v) - 1 PROVE SubSeq(v, 1, n) \in Seq(Portion)
    <3>1. n \in 0 .. Len(v)
      BY <2>1
    <3> QED
      BY <2>1, <3>1, Cut
  <2>7. CASE \E n \in 0 .. Len(v) - 1 : o = DidNot(fs, sends(SubSeq(v, 1, n), 500))
    <3>1. PICK n \in 0 .. Len(v) - 1 : o = DidNot(fs, sends(SubSeq(v, 1, n), 500))
      BY <2>7
    <3>2. SubSeq(v, 1, n) \in Seq(Portion) /\ 500 \in Nat \ {0, 1, 100}
      BY <2>6
    <3> DEFINE t == SubSeq(v, 1, n)
    <3> HIDE DEF t
    <3>3. o = DidNot(fs, sends(t, 500)) /\ t \in Seq(Portion) /\ 500 \in Nat \ {0, 1, 100}
      BY <3>1, <3>2 DEF t
    <3>4. GoodReply(sends(t, 500))
      BY <2>4, <3>3
    <3> QED
      BY <3>3, <3>4, Outcome
  <2>8. GoodReply(sends(v, 200)) /\ GoodReply(sends(v, 500))
    BY <2>1, <2>4
  <2> QED
    BY <1>2, <2>5, <2>7, <2>8, Outcome
<1> QED
  BY <1>1, <1>4, <1>5, <1>6, Contents

LEMMA OutcomesGood ==
  ASSUME fs \in [Path -> Value], NEW c \in RequestSet, c.name \notin Writing \cup {"none", "FISH"}, NEW o \in PerlOutcomes(c)
  PROVE  GoodOutcome(o)
<1>1. c.name \in {"VER", "PWD"} \/ c.name \in {"LIST", "STAT"} \/ c.name \in {"RETR", "READ"} \/ c.name \in Acting
  BY DEF RequestSet, CommandNames, Writing
<1>2. CASE c.name \in {"VER", "PWD"}
  <2>1. o = Did(fs, <<Text, Status(200)>>)
    BY <1>2 DEF PerlOutcomes, Acting
  <2>2. GoodReply(<<Text, Status(200)>>)
    BY KnownReplies
  <2> QED
    BY <2>1, <2>2, Outcome
<1>3. CASE c.name \in {"LIST", "STAT"}
  <2>1. o \in PerlList(c)
    BY <1>3 DEF PerlOutcomes, Acting
  <2> QED
    BY <2>1, ListGood
<1>4. CASE c.name \in {"RETR", "READ"}
  <2>1. o \in PerlRead(c)
    BY <1>4 DEF PerlOutcomes, Acting
  <2> QED
    BY <1>4, <2>1, ReadGood
<1>5. CASE c.name \in Acting
  <2>1. o \in PerlActs(c)
    BY <1>5 DEF PerlOutcomes, Acting
  <2> QED
    BY <1>5, <2>1, ActsGood
<1> QED
  BY <1>1, <1>2, <1>3, <1>4, <1>5

(* What is announced is what is sent, with a status behind it.             *)
IsGoReply(unit) == unit[1] = "status" /\ unit[2] = 100
Sized(name, r) ==
  \A i \in 1 .. Len(r) : IsGoReply(r[i]) =>
    /\ Len(r) > i + (IF name = "READ" THEN MimeBytes ELSE r[i - 1][2])
    /\ name = "RETR" => i # 1 /\ r[i - 1][1] = "number"
    /\ \A j \in 1 .. Len(r) : IsGoReply(r[j]) => j = i

EndsInGo(h) == h \in Seq(ReplyUnit) /\ \A i \in 1 .. Len(h) : IsGoReply(h[i]) => i = Len(h)
OnlyData(d) == d \in Seq(ReplyUnit) /\ \A i \in 1 .. Len(d) : d[i][1] = "data"
OneGo(r, h, d) ==
  /\ Len(r) = Len(h) + Len(d) + 1
  /\ \A i \in 1 .. Len(h) : r[i] = h[i]
  /\ \A i \in 1 .. Len(r) : IsGoReply(r[i]) => i = Len(h)

LEMMA GoesBeforeData ==
  ASSUME NEW h, EndsInGo(h), NEW d, OnlyData(d), NEW code \in Nat \ {0, 1, 100}
  PROVE  OneGo(h \o d \o <<Status(code)>>, h, d)
<1> DEFINE t == h \o d
           u == Status(code)
           e == <<u>>
           r == h \o d \o <<Status(code)>>
<1>0. /\ h \in Seq(ReplyUnit) /\ \A i \in 1 .. Len(h) : IsGoReply(h[i]) => i = Len(h)
      /\ d \in Seq(ReplyUnit) /\ \A i \in 1 .. Len(d) : d[i][1] = "data"
  BY DEF EndsInGo, OnlyData
<1>1. Len(h) \in Nat /\ Len(d) \in Nat
  BY <1>0, LenProperties
<1>2. /\ t \in Seq(ReplyUnit) /\ Len(t) = Len(h) + Len(d)
      /\ \A i \in 1 .. Len(h) + Len(d) : t[i] = IF i <= Len(h) THEN h[i] ELSE d[i - Len(h)]
  BY <1>0, <1>1, ConcatProperties
<1>3. u \in ReplyUnit /\ u[1] = "status" /\ u[2] # 100
  BY ReplyUnits
<1> HIDE DEF u
<1>4. e \in Seq(ReplyUnit) /\ Len(e) = 1 /\ e[1] = u
  BY <1>3
<1>5. r = t \o e
  BY DEF u
<1> HIDE DEF t, e, r
<1>6. Len(r) = Len(t) + 1 /\ \A i \in 1 .. Len(t) + 1 : r[i] = IF i <= Len(t) THEN t[i] ELSE e[i - Len(t)]
  BY SMTT(60), <1>2, <1>4, <1>5, ConcatProperties
<1> DEFINE n == Len(h)
           m == Len(d)
<1>7. n \in Nat /\ m \in Nat /\ Len(t) = n + m /\ Len(r) = n + m + 1
  BY <1>1, <1>2, <1>6
<1>8. \A i \in 1 .. n : r[i] = h[i]
  <2> TAKE i \in 1 .. n
  <2>1. i \in 1 .. Len(t) + 1 /\ i <= Len(t) /\ i \in 1 .. Len(h) + Len(d) /\ i <= Len(h)
    BY <1>7
  <2> QED
    BY <1>2, <1>6, <2>1
<1>9. ASSUME NEW i \in 1 .. Len(r), IsGoReply(r[i]) PROVE i = n
  <2>1. CASE i <= n
    <3>1. i \in 1 .. Len(h) /\ r[i] = h[i]
      BY <1>7, <1>8, <2>1
    <3> QED
      BY <1>0, <1>9, <3>1
  <2>2. CASE i > n /\ i <= n + m
    <3>1. i \in 1 .. Len(t) + 1 /\ i <= Len(t) /\ i \in 1 .. Len(h) + Len(d) /\ ~(i <= Len(h)) /\ i - Len(h) \in 1 .. Len(d)
      BY <1>7, <2>2
    <3>2. r[i] = d[i - Len(h)] /\ d[i - Len(h)][1] = "data"
      BY <1>0, <1>2, <1>6, <3>1
    <3> QED
      BY <1>9, <3>2 DEF IsGoReply
  <2>3. CASE i = n + m + 1
    <3>1. i \in 1 .. Len(t) + 1 /\ ~(i <= Len(t)) /\ i - Len(t) = 1
      BY <1>7, <2>3
    <3>2. r[i] = u
      BY <1>4, <1>6, <3>1
    <3> QED
      BY <1>3, <1>9, <3>2 DEF IsGoReply
  <2>4. i \in 1 .. n + m + 1
    BY <1>7
  <2> HIDE DEF n, m
  <2> QED
    BY <1>7, <2>1, <2>2, <2>3, <2>4
<1>10. OneGo(r, h, d)
  BY <1>7, <1>8, <1>9 DEF OneGo
<1> QED
  BY <1>10 DEF r

LEMMA OneStatus == ASSUME NEW n \in Nat \ {0, 1, 100}, NEW name PROVE Sized(name, <<Status(n)>>)
<1> DEFINE u == Status(n)
<1>1. ~IsGoReply(u)
  BY ReplyUnits DEF IsGoReply
<1> HIDE DEF u
<1>2. Sized(name, <<u>>)
  BY <1>1 DEF Sized
<1> QED
  BY <1>2 DEF u

LEMMA ReadSized ==
  ASSUME fs \in [Path -> Value], NEW c \in RequestSet, c.name \in {"RETR", "READ"}, NEW o \in PerlRead(c)
  PROVE  Sized(c.name, o.reply)
<1> DEFINE v == fs[c.p]
           want == IF c.name = "RETR" THEN Len(v) ELSE MimeBytes
           head == IF c.name = "RETR" THEN <<Number(want), Status(100)>> ELSE <<Status(100)>>
           sends(s, code) == head \o DataOf(Padded(s, want)) \o <<Status(code)>>
<1>1. c.p \in Path /\ v \in Value
  BY DEF RequestSet, CommandNames
<1>2. \A f, r : Did(f, r).reply = r /\ DidNot(f, r).reply = r
  BY DEF Did, DidNot
<1>3. o \in CASE v = Dir    -> {[Did(fs, <<Status(501)>>) EXCEPT !.ok = (c.name = "READ")]}
              [] v = Absent -> {DidNot(fs, <<Status(500)>>)}
              [] IsFile(v)  ->
               {Did(fs, sends(v, 200))} \union
               (IF Len(v) < want THEN {DidNot(fs, sends(v, 500))} ELSE {}) \union
               (IF Faults
                THEN {DidNot(fs, <<Status(500)>>)} \union
                     {DidNot(fs, sends(SubSeq(v, 1, n), 500)) : n \in 0 .. Len(v) - 1}
                ELSE {})
  BY DEF PerlRead
<1> HIDE DEF v
<1>0. 200 \in Nat \ {0, 1, 100} /\ 500 \in Nat \ {0, 1, 100} /\ 501 \in Nat \ {0, 1, 100}
  OBVIOUS
<1>4. CASE ~IsFile(v)
  <2>1. v = Dir \/ v = Absent
    BY <1>4 DEF IsFile
  <2>2. CASE v = Dir
    <3>1. o = [Did(fs, <<Status(501)>>) EXCEPT !.ok = (c.name = "READ")]
      BY Zenon, <1>3, <1>4, <2>2, PathAssumption
    <3> QED
      BY <1>0, <3>1, OneStatus DEF Did
  <2>3. CASE v = Absent
    <3>1. v # Dir
      BY <2>3, PathAssumption
    <3>2. o = DidNot(fs, <<Status(500)>>)
      BY Zenon, <1>3, <1>4, <2>3, <3>1
    <3> QED
      BY <1>0, <1>2, <3>2, OneStatus
  <2> QED
    BY <2>1, <2>2, <2>3
<1>5. CASE IsFile(v)
  <2>1. v \in Seq(Portion) /\ Len(v) \in Nat /\ v # Dir /\ v # Absent
    BY <1>1, <1>5, Contents DEF IsFile
  <2>2. want \in Nat /\ (c.name = "READ" => want = MimeBytes)
    BY <2>1, MimeBytesAssumption
  <2> HIDE DEF want
  <2>3. /\ head \in Seq(ReplyUnit) /\ \A i \in 1 .. Len(head) : IsGoReply(head[i]) => i = Len(head)
        /\ c.name = "READ" => Len(head) = 1
        /\ c.name = "RETR" => Len(head) = 2 /\ head[1][1] = "number" /\ head[1][2] = want
    <3> DEFINE g == Status(100)
               k == Number(want)
    <3>1. g \in ReplyUnit /\ k \in ReplyUnit /\ k[1] = "number" /\ k[2] = want /\ ~IsGoReply(k)
      BY <2>2, ReplyUnits DEF Number, IsGoReply
    <3> HIDE DEF g, k
    <3>2. /\ <<k, g>> \in Seq(ReplyUnit) /\ Len(<<k, g>>) = 2 /\ \A i \in 1 .. 2 : IsGoReply(<<k, g>>[i]) => i = 2
          /\ <<k, g>>[1] = k /\ <<g>> \in Seq(ReplyUnit) /\ Len(<<g>>) = 1
      BY <3>1
    <3> QED
      BY <3>1, <3>2 DEF g, k
  <2> HIDE DEF head
  <2>4. ASSUME NEW s \in Seq(Portion), NEW code \in Nat \ {0, 1, 100} PROVE Sized(c.name, sends(s, code))
    <3> DEFINE d == DataOf(Padded(s, want))
               r == sends(s, code)
    <3>1. d \in Seq(ReplyUnit) /\ Len(d) = want /\ \A i \in 1 .. Len(d) : d[i][1] = "data"
      BY <2>2, PaddedFacts
    <3> HIDE DEF d
    <3>2. r = head \o d \o <<Status(code)>>
      BY DEF d
    <3> HIDE DEF r
    <3>3. /\ Len(r) = Len(head) + want + 1
          /\ \A i \in 1 .. Len(head) : r[i] = head[i]
          /\ \A i \in 1 .. Len(r) : IsGoReply(r[i]) => i = Len(head)
      <4>1. EndsInGo(head) /\ OnlyData(d)
        BY <2>3, <3>1 DEF EndsInGo, OnlyData
      <4>2. OneGo(r, head, d)
        BY Zenon, <2>4, <3>2, <4>1, GoesBeforeData
      <4> QED
        BY <3>1, <4>2 DEF OneGo
    <3>4. ASSUME NEW i \in 1 .. Len(r), IsGoReply(r[i])
          PROVE  /\ Len(r) > i + (IF c.name = "READ" THEN MimeBytes ELSE r[i - 1][2])
                 /\ c.name = "RETR" => i # 1 /\ r[i - 1][1] = "number"
      <4>1. i = Len(head)
        BY <3>3, <3>4
      <4>2. CASE c.name = "READ"
        BY <2>2, <2>3, <3>3, <4>1, <4>2
      <4>3. CASE c.name = "RETR"
        <5>1. i = 2 /\ i - 1 = 1 /\ 1 \in 1 .. Len(head)
          BY <2>3, <4>1, <4>3
        <5>2. r[i - 1] = head[1]
          BY <3>3, <5>1
        <5> QED
          BY <2>2, <2>3, <3>3, <4>1, <4>3, <5>1, <5>2
      <4> QED
        BY <4>2, <4>3
    <3>5. Sized(c.name, r)
      BY <3>3, <3>4 DEF Sized
    <3> QED
      BY <3>5 DEF r
  <2> HIDE DEF sends
  <2>5. \/ o = Did(fs, sends(v, 200)) \/ o = DidNot(fs, sends(v, 500)) \/ o = DidNot(fs, <<Status(500)>>)
        \/ \E n \in 0 .. Len(v) - 1 : o = DidNot(fs, sends(SubSeq(v, 1, n), 500))
    BY SMTT(60), <1>3, <1>5, <2>1
  <2>6. CASE \E n \in 0 .. Len(v) - 1 : o = DidNot(fs, sends(SubSeq(v, 1, n), 500))
    <3>1. PICK n \in 0 .. Len(v) - 1 : o = DidNot(fs, sends(SubSeq(v, 1, n), 500))
      BY <2>6
    <3>2. n \in 0 .. Len(v)
      BY <2>1
    <3> DEFINE t == SubSeq(v, 1, n)
    <3>3. t \in Seq(Portion) /\ o.reply = sends(t, 500)
      BY <1>2, <2>1, <3>1, <3>2, Cut
    <3> HIDE DEF t
    <3> QED
      BY <1>0, <2>4, <3>3
  <2>7. CASE o = Did(fs, sends(v, 200)) \/ o = DidNot(fs, sends(v, 500))
    <3>1. o.reply = sends(v, 200) \/ o.reply = sends(v, 500)
      BY <1>2, <2>7
    <3> QED
      BY <1>0, <2>1, <2>4, <3>1
  <2>8. CASE o = DidNot(fs, <<Status(500)>>)
    BY <1>0, <1>2, <2>8, OneStatus
  <2> QED
    BY <2>5, <2>6, <2>7, <2>8
<1> QED
  BY <1>4, <1>5

LEMMA PrintedFacts ==
  ASSUME NEW id \in Nat, NEW r, GoodReply(r) \/ r \in Seq(ReplyUnit \cup {Blank})
  PROVE  /\ Printed(id, r) \in Seq(ServerUnit) /\ Len(Printed(id, r)) = Len(r) /\ Len(r) \in Nat
         /\ \A i \in 1 .. Len(r) : Printed(id, r)[i].id = id /\ Printed(id, r)[i].k = r[i][1] /\ Printed(id, r)[i].v = r[i][2]
<1>1. Len(r) \in Nat /\ \A i \in 1 .. Len(r) : r[i] \in ReplyUnit \cup {Blank}
  <2>1. r \in Seq(ReplyUnit) \/ r \in Seq(ReplyUnit \cup {Blank})
    BY DEF GoodReply
  <2> HIDE DEF ReplyUnit, Blank
  <2> QED
    BY <2>1, LenProperties, ElementOfSeq
<1>2. ASSUME NEW i \in 1 .. Len(r) PROVE Unit(r[i][1], r[i][2], id) \in ServerUnit
  BY <1>1 DEF ReplyUnit, Blank, Unit, ServerUnit, Line
<1> DEFINE t == Printed(id, r)
<1>3. t \in Seq(ServerUnit) /\ Len(t) = Len(r) /\ \A i \in 1 .. Len(r) : t[i] = Unit(r[i][1], r[i][2], id)
  BY <1>1, <1>2 DEF Printed
<1>4. \A a, b : Unit(a, b, id).id = id /\ Unit(a, b, id).k = a /\ Unit(a, b, id).v = b
  BY DEF Unit
<1> HIDE DEF t
<1>5. \A i \in 1 .. Len(r) : t[i].id = id /\ t[i].k = r[i][1] /\ t[i].v = r[i][2]
  <2> TAKE i \in 1 .. Len(r)
  <2>1. t[i] = Unit(r[i][1], r[i][2], id)
    BY <1>3
  <2> DEFINE a == r[i][1]
             b == r[i][2]
  <2>2. t[i] = Unit(a, b, id)
    BY <2>1
  <2> HIDE DEF a, b
  <2>3. t[i].id = id /\ t[i].k = a /\ t[i].v = b
    BY <1>4, <2>2
  <2> QED
    BY <2>3 DEF a, b
<1>6. t \in Seq(ServerUnit) /\ Len(t) = Len(r) /\ Len(r) \in Nat
  BY <1>1, <1>3
<1> QED
  BY <1>5, <1>6 DEF t

-----------------------------------------------------------------------------
(* The server.  It also reads what a client left behind that has gone.     *)

OldLines ==
  /\ srv.mode = "login" => \A i \in 1 .. Len(toServer) : toServer[i].u = "alt" => i = Len(toServer)
  /\ srv.mode # "login" => \A i \in 1 .. Len(toServer) : toServer[i].u = "line" => toServer[i].c.name \notin {"none", "FISH"}

StaleInv == cl.childPid = FALSE => OldLines

LEMMA OldLinesFacts ==
  ASSUME FishInv, StaleInv
  PROVE  OldLines
<1>1. /\ Len(toServer) \in Nat /\ Len(cl.outBuf) \in Nat /\ Len(ToRead) = Len(toServer) + Len(cl.outBuf)
      /\ \A i \in 1 .. Len(toServer) : ToRead[i] = toServer[i] /\ i \in 1 .. Len(ToRead)
  <2>1. Len(toServer) \in Nat /\ Len(cl.outBuf) \in Nat
    BY ConnectionFields DEF FishInv, FishTypeInv
  <2>2. Len(ToRead) = Len(toServer) + Len(cl.outBuf) /\ \A i \in 1 .. Len(toServer) : ToRead[i] = toServer[i]
    BY Streams DEF FishInv
  <2> QED
    BY <2>1, <2>2
<1>2. cl.childPid \in BOOLEAN /\ alive \in BOOLEAN /\ Current \in RequestSet
  BY ConnectionFields DEF FishInv, FishTypeInv, Current
<1>3. CASE cl.childPid = FALSE
  BY <1>3 DEF StaleInv
<1>4. CASE cl.childPid = TRUE /\ alive = FALSE
  BY <1>4, Empties DEF FishInv, PhaseInv, DeadPhase, OldLines
<1>5. CASE cl.childPid = TRUE /\ alive = TRUE
  <2>1. CASE srv.mode = "login" /\ LoginPhase
    <3>1. \A i \in 1 .. Len(ToRead) : ToRead[i].u = "alt" => i = Len(ToRead)
      <4>1. CASE ToRead = Lines(Current)
        <5>1. Len(ToRead) = 2 /\ ToRead[1].u = "line"
          BY <1>2, <4>1, LinesFacts
        <5> QED
          BY <5>1
      <4>2. CASE ToRead = <<ShellLine(Current)>>
        <5>1. Len(ToRead) = 1
          BY <1>2, <4>2, LinesFacts
        <5> QED
          BY <5>1
      <4> QED
        BY <2>1, <4>1, <4>2 DEF LoginPhase
    <3> QED
      BY <1>1, <2>1, <3>1 DEF OldLines
  <2>2. CASE srv.mode = "code" /\ CodePhase
    <3>1. \A i \in 1 .. Len(ToRead) : ToRead[i].u # "line"
      BY <2>2, OtherUnits, Empties DEF CodePhase
    <3> QED
      BY <1>1, <2>2, <3>1 DEF OldLines
  <2>3. CASE srv.mode = "alt" /\ AltPhase
    <3>1. \A i \in 1 .. Len(ToRead) : ToRead[i].u # "line"
      BY <1>2, <2>3, LinesFacts DEF AltPhase
    <3> QED
      BY <1>1, <2>3, <3>1 DEF OldLines
  <2>4. CASE srv.mode = "data" /\ DataPhase
    <3>0. srv.left \in Nat /\ Len(ToRead) \in Nat
      BY <1>1 DEF FishInv, FishTypeInv, ServerSet
    <3>1. \A i \in 1 .. Len(ToRead) : ToRead[i].u # "line"
      <4>1. CASE ToRead = << >>
        BY <4>1, Empties
      <4>2. CASE ToRead # << >>
        <5>1. /\ \A i \in 1 .. srv.left : ToRead[i].u = "data"
              /\ \A i \in srv.left + 1 .. Len(ToRead) : IsNoise(ToRead[i])
          BY <2>4, <4>2 DEF DataPhase
        <5> TAKE i \in 1 .. Len(ToRead)
        <5>2. i \in 1 .. srv.left \/ i \in srv.left + 1 .. Len(ToRead)
          BY <3>0
        <5> QED
          BY <5>1, <5>2 DEF IsNoise
      <4> QED
        BY <4>1, <4>2
    <3> QED
      BY <1>1, <2>4, <3>1 DEF OldLines
  <2>5. CASE srv.mode = "main" /\ CommandPhase
    <3>1. \A i \in 1 .. Len(ToRead) : ToRead[i].u = "line" => ToRead[i].c = Current
      <4> TAKE i \in 1 .. Len(ToRead)
      <4>1. Len(ToRead) \in Nat
        BY <1>1
      <4>2. i \in 1 .. Len(ToRead) - 2 \/ i = Len(ToRead) - 1 \/ i = Len(ToRead)
        BY <4>1
      <4> QED
        BY <1>2, <2>5, <4>2, LinesFacts DEF CommandPhase, IsNoise
    <3> QED
      BY <1>1, <2>5, <3>1 DEF OldLines, CommandPhase
  <2>6. CASE srv.mode = "main" /\ ReplyPhase
    <3>1. \A i \in 1 .. Len(ToRead) : ToRead[i].u # "line"
      BY <2>6 DEF ReplyPhase, IsNoise
    <3> QED
      BY <1>1, <2>6, <3>1 DEF OldLines
  <2> QED
    BY <1>5, <2>1, <2>2, <2>3, <2>4, <2>5, <2>6 DEF FishInv, PhaseInv
<1> QED
  BY <1>2, <1>3, <1>4, <1>5

(* What a step of the server leaves as it is.                              *)
ServerStep == alive = TRUE /\ UNCHANGED <<clientVars, server, alive>>

LEMMA ServerStepKeeps ==
  ASSUME FishInv, ServerStep, fs' \in [Path -> Value], srv' \in ServerSet, srvOut' \in Seq(ServerUnit),
         toServer' \in Seq(ClientUnit), toClient' \in Seq(ServerUnit),
         srv'.mode \in {"alt", "data"} => srv'.c.p \in Path /\ fs'[srv'.c.p] \in Seq(Portion),
         cl.childPid = TRUE => PhaseInv' /\ QuietInv'
  PROVE  FishInv'
<1>1. UNCHANGED <<cl, job, pc, inBuf, toPut, server, alive>>
  BY DEF ServerStep, clientVars
<1>2. FishTypeInv'
  BY <1>1 DEF FishInv, FishTypeInv
<1>3. BufferInv' /\ CurrentInv' /\ RunInv'
  BY <1>1 DEF FishInv, BufferInv, CurrentInv, RunInv, Current
<1>4. PhaseInv' /\ QuietInv'
  BY <1>1, ConnectionFields DEF FishInv, FishTypeInv, PhaseInv, QuietInv
<1> QED
  BY <1>2, <1>3, <1>4 DEF FishInv

LEMMA StaleStays ==
  ASSUME FishInv, StaleInv, (srv'.mode = "login") = (srv.mode = "login"),
         toServer' = toServer \/ (toServer # << >> /\ toServer' = Tail(toServer))
  PROVE  StaleInv'
<1>1. OldLines /\ toServer \in Seq(ClientUnit) /\ Len(toServer) \in Nat
  BY OldLinesFacts DEF FishInv, FishTypeInv
<1>2. CASE toServer' = toServer
  BY <1>1, <1>2 DEF OldLines, StaleInv
<1>3. CASE toServer # << >> /\ toServer' = Tail(toServer)
  <2>1. Len(toServer') = Len(toServer) - 1 /\ \A i \in 1 .. Len(toServer') : toServer'[i] = toServer[i + 1]
    BY <1>1, <1>3, HeadTailProperties
  <2>2. ASSUME NEW i \in 1 .. Len(toServer')
        PROVE  toServer'[i] = toServer[i + 1] /\ i + 1 \in 1 .. Len(toServer) /\ (i + 1 = Len(toServer) => i = Len(toServer'))
    BY <1>1, <2>1
  <2> QED
    BY <1>1, <2>2 DEF OldLines, StaleInv
<1> QED
  BY <1>2, <1>3

LEMMA ServerPrintsKeeps ==
  ASSUME FishInv, StaleInv, ServerPrints, UNCHANGED <<clientVars, appVars>>
  PROVE  FishInv' /\ StaleInv'
<1>1. /\ inBuf' = inBuf /\ cl' = cl /\ UNCHANGED <<server, toServer, alive, fs, srv>> /\ alive = TRUE
  BY DEF ServerPrints, clientVars, FishInv, FishTypeInv
<1>2. ToCome' = ToCome /\ toClient' \in Seq(ServerUnit) /\ srvOut' \in Seq(ServerUnit)
  BY <1>1, Moves DEF FishInv
<1>3. PhaseInv' /\ QuietInv'
  BY <1>1, <1>2, PhaseStays DEF FishInv
<1>4. FishInv'
  BY <1>1, <1>2, <1>3, ServerStepKeeps DEF FishInv, FishTypeInv, ServerStep
<1> QED
  BY <1>1, <1>4, StaleStays

(* A unit is read of two or more, or of one.                               *)
LEMMA TailOfUnits ==
  ASSUME NEW units \in Seq(ClientUnit), units # << >>
  PROVE  /\ Len(units) \in Nat \ {0} /\ Head(units) = units[1] /\ Tail(units) \in Seq(ClientUnit)
         /\ Len(Tail(units)) = Len(units) - 1
         /\ \A i \in 1 .. Len(Tail(units)) : Tail(units)[i] = units[i + 1] /\ i + 1 \in 1 .. Len(units)
         /\ Len(units) = 1 => Tail(units) = << >>
<1>1. /\ Len(units) \in Nat \ {0} /\ Head(units) = units[1] /\ Tail(units) \in Seq(ClientUnit)
      /\ Len(Tail(units)) = Len(units) - 1
      /\ \A i \in 1 .. Len(Tail(units)) : Tail(units)[i] = units[i + 1]
  BY HeadTailProperties, EmptySeq
<1>2. \A i \in 1 .. Len(Tail(units)) : i + 1 \in 1 .. Len(units)
  BY <1>1
<1>3. Len(units) = 1 => Tail(units) = << >>
  <2> SUFFICES ASSUME Len(units) = 1 PROVE Tail(units) = << >>
    OBVIOUS
  <2>1. Len(Tail(units)) = 0 /\ Tail(units) \in Seq(ClientUnit)
    BY <1>1
  <2> QED
    BY <2>1, EmptySeq
<1> QED
  BY <1>1, <1>2, <1>3

(* The server answers, and from then on waits for a command.               *)
LEMMA ReplyComes ==
  ASSUME FishInv, cl' = cl, NEW r, GoodReply(r), ToCome' = Printed(Current.id, r), cl.rawWrite <= 0,
         \A i \in 1 .. Len(ToRead') : IsNoise(ToRead'[i]), Len(ToRead') <= 1, cl.rawWrite = 0 => ToRead' = << >>,
         Current.name \in Writing \cup {"FISH"} => \A i \in 1 .. Len(r) : r[i][1] = "status" => r[i][2] # 100
  PROVE  ReplyPhase'
<1>1. Current' = Current /\ Current.id \in Nat
  BY ConnectionFields DEF Current, FishInv, FishTypeInv, RequestSet
<1>2. /\ ToCome' \in Seq(ServerUnit) /\ Len(ToCome') = Len(r) /\ Len(r) \in Nat
      /\ \A i \in 1 .. Len(r) : ToCome'[i].id = Current.id /\ ToCome'[i].k = r[i][1] /\ ToCome'[i].v = r[i][2]
  BY <1>1, PrintedFacts
<1>3. \A i \in 1 .. Len(r) :
        /\ r[i] \in ReplyUnit
        /\ r[i][1] = "status" => r[i][2] \notin {0, 1} /\ (r[i][2] # 100 => i = Len(r))
  <2> HIDE DEF ReplyUnit
  <2> QED
    BY ElementOfSeq DEF GoodReply
<1>4. \A i \in 1 .. Len(r) : r[i][1] # "blank"
  BY <1>3 DEF ReplyUnit, Line
<1>5. ASSUME NEW i \in 1 .. Len(ToCome')
      PROVE  /\ ToCome'[i].id = Current.id
             /\ IsFinal(ToCome'[i]) => i = Len(ToCome')
             /\ ToCome'[i].k = "status" => ToCome'[i].v \notin {0, 1}
             /\ IsGo(ToCome'[i]) => Current.name \notin Writing \cup {"FISH"}
             /\ ToCome'[i].k # "blank"
  BY <1>2, <1>3, <1>4 DEF IsFinal, IsGo
<1>6. Replies(ToCome)'
  BY <1>1, <1>5 DEF Replies
<1> QED
  BY <1>1, <1>5, <1>6 DEF ReplyPhase

(* Nothing is written while what was written before is still to be read.   *)
LEMMA NothingQueued ==
  ASSUME FishTypeInv, BufferInv, cl.outBuf = << >>
  PROVE  cl.qlist = << >>
<1>1. Current \in RequestSet
  BY ConnectionFields DEF FishTypeInv, Current
<1>2. cl.outBuf # Lines(Current) /\ cl.outBuf # <<ShellLine(Current)>>
  BY <1>1, LinesFacts, Empties
<1> QED
  BY <1>2 DEF BufferInv

(* The one unit that is to be read is in the stream.                       *)
LEMMA OnlyUnit ==
  ASSUME FishInv, toServer # << >>, Len(ToRead) = 1
  PROVE  cl.outBuf = << >> /\ cl.qlist = << >> /\ Tail(ToRead) = << >>
<1>1. Len(toServer) \in Nat \ {0} /\ Len(cl.outBuf) \in Nat /\ Len(ToRead) = Len(toServer) + Len(cl.outBuf)
      /\ ToRead \in Seq(ClientUnit) /\ ToRead # << >> /\ cl.outBuf \in Seq(ClientUnit)
  BY ConnectionFields, Streams, EmptySeq DEF FishInv, FishTypeInv
<1> DEFINE a == Len(toServer)
           b == Len(cl.outBuf)
           n == Len(ToRead)
<1>2. b = 0
  <2>1. a \in Nat \ {0} /\ b \in Nat /\ n = a + b /\ n = 1
    BY <1>1
  <2> HIDE DEF a, b, n
  <2> QED
    BY <2>1
<1>3. cl.outBuf = << >>
  BY <1>1, <1>2, EmptySeq
<1> QED
  BY <1>1, <1>3, NothingQueued, TailOfUnits DEF FishInv

LEMMA IdleFacts == NoRequest \in RequestSet /\ Idle \in ServerSet /\ Idle.mode = "main"
<1>1. NoRequest \in RequestSet
  BY DEF NoRequest, Request, RequestSet, CommandNames
<1>2. NoRequest = Request("none", 0, "", "", 0, 0)
  BY DEF NoRequest
<1> HIDE DEF NoRequest, RequestSet
<1> QED
  BY <1>1, <1>2 DEF Idle, ServerSet

(* What reading a unit has in common, whatever the server does with it.    *)
LEMMA UnitRead ==
  ASSUME FishInv, StaleInv, NEW u, Reads(u), UNCHANGED <<clientVars, server>>, srvOut' \in Seq(ServerUnit)
  PROVE  /\ ServerStep /\ cl' = cl /\ alive' = TRUE /\ OldLines /\ toClient' \in Seq(ServerUnit)
         /\ Current' = Current /\ Current \in RequestSet /\ Current.id \in Nat
         /\ toServer # << >> /\ toServer' = Tail(toServer) /\ toServer' \in Seq(ClientUnit)
         /\ Head(toServer) \in ClientUnit /\ Head(toServer).u = u /\ Head(toServer) = ToRead[1]
         /\ Len(ToRead) \in Nat \ {0} /\ Len(ToRead') = Len(ToRead) - 1
         /\ \A i \in 1 .. Len(ToRead') : ToRead'[i] = ToRead[i + 1] /\ i + 1 \in 1 .. Len(ToRead)
         /\ Len(ToRead) = 1 => ToRead' = << >> /\ cl.outBuf = << >> /\ cl.qlist = << >>
         /\ ToCome = << >> => ToCome' = srvOut'
         /\ srvOut' = << >> => ToCome' = ToCome
<1>1. /\ cl' = cl /\ inBuf' = inBuf /\ toClient' = toClient /\ alive' = alive /\ alive = TRUE /\ srvOut = << >>
      /\ toServer # << >> /\ toServer' = Tail(toServer) /\ ServerStep
  BY DEF Reads, clientVars, ServerStep, FishInv, FishTypeInv
<1>2. /\ ToRead # << >> /\ Head(toServer) = ToRead[1] /\ Head(toServer).u = u /\ ToRead' = Tail(ToRead)
      /\ toServer' \in Seq(ClientUnit) /\ Head(toServer) \in ClientUnit
  BY <1>1, ServerTakes DEF FishInv
<1>3. ToRead \in Seq(ClientUnit)
  BY Streams DEF FishInv
<1>4. /\ Len(ToRead) \in Nat \ {0} /\ Len(ToRead') = Len(ToRead) - 1
      /\ \A i \in 1 .. Len(ToRead') : ToRead'[i] = ToRead[i + 1] /\ i + 1 \in 1 .. Len(ToRead)
  BY <1>2, <1>3, TailOfUnits
<1>5. Len(ToRead) = 1 => ToRead' = << >> /\ cl.outBuf = << >> /\ cl.qlist = << >>
  BY <1>1, <1>2, OnlyUnit
<1>6. ToCome' = ToCome \o srvOut' /\ (ToCome = << >> => ToCome' = srvOut') /\ toClient' \in Seq(ServerUnit)
  BY <1>1, Answers DEF FishInv, FishTypeInv
<1>7. srvOut' = << >> => ToCome' = ToCome
  BY <1>1, Moves DEF FishInv
<1>8. Current' = Current /\ Current \in RequestSet /\ Current.id \in Nat
  BY <1>1, ConnectionFields DEF Current, FishInv, FishTypeInv, RequestSet
<1> QED
  BY <1>1, <1>2, <1>4, <1>5, <1>6, <1>7, <1>8, OldLinesFacts

(* A server that is not done with a command has a client that waits.       *)
LEMMA StillRunning ==
  ASSUME FishInv, cl.childPid = TRUE, alive = TRUE, srv.mode # "main" \/ ~ReplyPhase
  PROVE  cl.isRunning = TRUE
BY ConnectionFields DEF FishInv, FishTypeInv, QuietInv

(* What a client that has gone has left behind is a rest of one command.   *)
LEMMA LoginOver ==
  ASSUME FishInv, StaleInv, srv.mode = "login", Reads("alt"), UNCHANGED <<clientVars, server>>, srvOut' \in Seq(ServerUnit)
  PROVE  StaleInv'
<1>1. OldLines /\ toServer # << >> /\ toServer' = Tail(toServer) /\ Head(toServer).u = "alt" /\ toServer \in Seq(ClientUnit)
  BY UnitRead DEF FishInv, FishTypeInv
<1>2. Len(toServer) \in Nat \ {0} /\ Head(toServer) = toServer[1] /\ (Len(toServer) = 1 => Tail(toServer) = << >>)
  BY <1>1, TailOfUnits
<1>3. toServer' = << >>
  BY <1>1, <1>2 DEF OldLines
<1> QED
  BY <1>3, Empties DEF StaleInv, OldLines

LEMMA ServerStartsKeeps ==
  ASSUME FishInv, StaleInv, ServerStarts, UNCHANGED <<clientVars, appVars>>
  PROVE  FishInv' /\ StaleInv'
<1> DEFINE c == Head(toServer).c
           done == Printed(c.id, <<Blank, Status(200)>>)
           wanted == Printed(c.id, <<Blank, Status(100)>>)
<1>1. /\ srv.mode = "login" /\ Reads("alt") /\ UNCHANGED <<clientVars, server, fs>>
      /\ \/ srv' = Idle /\ srvOut' = done
         \/ srv' = [Idle EXCEPT !.mode = "code", !.c = c] /\ srvOut' = wanted
  BY DEF ServerStarts
<1>2. c \in RequestSet /\ c.id \in Nat
  <2>1. Head(toServer) \in ClientUnit /\ Head(toServer).u = "alt"
    BY <1>1, ServerTakes DEF FishInv, clientVars
  <2>2. c \in RequestSet
    BY <2>1 DEF ClientUnit
  <2> QED
    BY <2>2 DEF RequestSet
<1> HIDE DEF c
<1> DEFINE x == Unit("blank", 0, c.id)
           y == Unit("status", 200, c.id)
           z == Unit("status", 100, c.id)
<1>0. /\ x \in ServerUnit /\ y \in ServerUnit /\ z \in ServerUnit
      /\ x.id = c.id /\ y.id = c.id /\ z.id = c.id /\ x.k = "blank" /\ y.k = "status" /\ z.k = "status" /\ y.v = 200 /\ z.v = 100
  BY <1>2 DEF Unit, ServerUnit, Line
<1>3. /\ done \in Seq(ServerUnit) /\ Len(done) = 2 /\ wanted \in Seq(ServerUnit) /\ Len(wanted) = 2
      /\ done[1] = x /\ done[2] = y /\ wanted[1] = x /\ wanted[2] = z
  <2>1. done = <<x, y>> /\ wanted = <<x, z>>
    BY DEF Printed, Blank, Status
  <2> HIDE DEF x, y, z, done, wanted
  <2> QED
    BY <1>0, <2>1
<1> HIDE DEF x, y, z
<1> HIDE DEF done, wanted
<1>4. srvOut' \in Seq(ServerUnit)
  BY <1>1, <1>3
<1>5. srv' \in ServerSet /\ srv'.mode \in {"main", "code"} /\ (srvOut' = done => srv' = Idle \/ done = wanted)
      /\ (srv'.mode = "code" => srv'.c = c /\ srvOut' = wanted) /\ (srv'.mode = "main" => srvOut' = done)
  BY <1>1, <1>2, IdleFacts DEF ServerSet
<1>6. StaleInv'
  BY <1>1, <1>4, LoginOver
<1>7. /\ ServerStep /\ cl' = cl /\ alive' = TRUE /\ Current' = Current /\ Head(toServer).u = "alt" /\ Head(toServer) = ToRead[1]
      /\ Len(ToRead) = 1 => ToRead' = << >> /\ cl.qlist = << >>
      /\ ToCome = << >> => ToCome' = srvOut'
      /\ Current \in RequestSet /\ toServer' \in Seq(ClientUnit) /\ toClient' \in Seq(ServerUnit)
  BY <1>1, <1>4, UnitRead
<1>8. ASSUME cl.childPid = TRUE PROVE PhaseInv' /\ QuietInv'
  <2>1. LoginPhase
    BY <1>1, <1>7, <1>8 DEF FishInv, PhaseInv, ServerStep
  <2>2. ToRead = <<ShellLine(Current)>> /\ Len(ToRead) = 1 /\ c = Current
    BY <1>7, <2>1, LinesFacts DEF LoginPhase, c
  <2>3. ToRead' = << >> /\ cl.qlist = << >> /\ ToCome' = srvOut' /\ Current.name = "FISH" /\ Len(ToRead') = 0
    BY <1>7, <2>1, <2>2, Empties DEF LoginPhase
  <2>4. cl.rawWrite <= 0 /\ cl.rawWrite # 0
    BY <2>3, ConnectionFields DEF FishInv, FishTypeInv, CurrentInv, Writing
  <2>5. ASSUME srv'.mode = "main" PROVE ReplyPhase'
    <3>1. ToCome' = done
      BY <1>5, <2>3, <2>5
    <3>2. \A i \in 1 .. Len(ToCome') : ToCome'[i].id = Current.id /\ ~IsGo(ToCome'[i]) /\ (IsFinal(ToCome'[i]) => i = Len(ToCome'))
             /\ (ToCome'[i].k = "status" => ToCome'[i].v \notin {0, 1})
      <4> TAKE i \in 1 .. Len(ToCome')
      <4>0. Len(ToCome') = 2 /\ ToCome'[1] = x /\ ToCome'[2] = y
        BY <1>3, <3>1
      <4>3. i = 1 \/ i = 2
        BY <4>0
      <4>1. (i = 1 /\ ToCome'[i] = x) \/ (i = 2 /\ ToCome'[i] = y /\ i = Len(ToCome'))
        BY <4>0, <4>3
      <4>2. c.id = Current.id
        BY <2>2
      <4> QED
        BY <1>0, <4>1, <4>2 DEF IsGo, IsFinal
    <3>3. Replies(ToCome)'
      BY <1>7, <2>3, <3>2 DEF Replies
    <3> QED
      BY <1>7, <2>3, <2>4, <3>2, <3>3 DEF ReplyPhase
  <2>6. ASSUME srv'.mode = "code" PROVE CodePhase'
    <3>1. ToCome' = wanted /\ srv'.c = c
      BY <1>5, <2>3, <2>6
    <3>2. \A i \in 1 .. Len(ToCome') : ToCome'[i].id = Current.id /\ ~IsFinal(ToCome'[i])
             /\ (ToCome'[i].k = "status" => ToCome'[i].v \notin {0, 1} /\ i = Len(ToCome') /\ IsGo(ToCome'[i]))
             /\ (IsGo(ToCome'[i]) => i = Len(ToCome'))
      <4> TAKE i \in 1 .. Len(ToCome')
      <4>0. Len(ToCome') = 2 /\ ToCome'[1] = x /\ ToCome'[2] = z
        BY <1>3, <3>1
      <4>3. i = 1 \/ i = 2
        BY <4>0
      <4>1. (i = 1 /\ ToCome'[i] = x) \/ (i = 2 /\ ToCome'[i] = z /\ i = Len(ToCome'))
        BY <4>0, <4>3
      <4>2. c.id = Current.id
        BY <2>2
      <4> QED
        BY <1>0, <4>1, <4>2 DEF IsGo, IsFinal
    <3>3. Replies(ToCome)'
      BY <1>7, <2>3, <3>2 DEF Replies
    <3> QED
      BY <1>7, <2>2, <2>3, <3>1, <3>2, <3>3 DEF CodePhase
  <2>7. cl.isRunning = TRUE
    BY <1>1, <1>7, <1>8, StillRunning DEF ServerStep
  <2> QED
    BY <1>5, <1>7, <2>5, <2>6, <2>7 DEF PhaseInv, QuietInv
<1>9. FishInv'
  BY <1>1, <1>4, <1>5, <1>7, <1>8, ServerStepKeeps DEF FishInv, FishTypeInv
<1> QED
  BY <1>6, <1>9

LEMMA ServerReadsCodeKeeps ==
  ASSUME FishInv, StaleInv, ServerReadsCode, UNCHANGED <<clientVars, appVars>>
  PROVE  FishInv' /\ StaleInv'
<1> DEFINE r == <<Status(200)>>
<1>1. /\ srv.mode = "code" /\ Reads("code") /\ UNCHANGED <<clientVars, server, fs>>
      /\ srv' = Idle /\ srvOut' = Printed(srv.c.id, r)
  BY DEF ServerReadsCode
<1>2. GoodReply(r) /\ Len(r) = 1 /\ r[1][1] = "status" /\ r[1][2] = 200
  BY KnownReplies DEF Status
<1> HIDE DEF r
<1>3. srv.c.id \in Nat /\ srv' \in ServerSet /\ srv'.mode = "main"
  BY <1>1, IdleFacts DEF FishInv, FishTypeInv, ServerSet, RequestSet
<1>4. srvOut' \in Seq(ServerUnit)
  BY <1>1, <1>2, <1>3, PrintedFacts
<1>5. /\ ServerStep /\ cl' = cl /\ alive' = TRUE /\ Current' = Current /\ toServer # << >> /\ toServer' = Tail(toServer)
      /\ Len(ToRead) = 1 => ToRead' = << >>
      /\ ToCome = << >> => ToCome' = srvOut'
      /\ toServer' \in Seq(ClientUnit) /\ toClient' \in Seq(ServerUnit) /\ Len(ToRead) \in Nat \ {0}
  BY <1>1, <1>4, UnitRead
<1>6. ASSUME cl.childPid = TRUE PROVE PhaseInv' /\ QuietInv'
  <2>1. CodePhase
    BY <1>1, <1>5, <1>6 DEF FishInv, PhaseInv, ServerStep
  <2>2. ToRead' = << >> /\ ToCome' = Printed(Current.id, r) /\ Current.name = "FISH" /\ Len(ToRead') = 0
    BY <1>1, <1>5, <2>1, OtherUnits, Empties DEF CodePhase
  <2>3. cl.rawWrite <= 0
    BY <2>2, ConnectionFields DEF FishInv, FishTypeInv, CurrentInv, Writing
  <2>4. \A i \in 1 .. Len(r) : r[i][1] = "status" => r[i][2] # 100
    BY <1>2
  <2>5. ReplyPhase'
    BY <1>2, <1>5, <2>2, <2>3, <2>4, ReplyComes
  <2>6. cl.isRunning = TRUE
    BY <1>1, <1>5, <1>6, StillRunning DEF ServerStep
  <2> QED
    BY <1>3, <1>5, <2>5, <2>6 DEF PhaseInv, QuietInv
<1>7. FishInv'
  BY <1>1, <1>3, <1>4, <1>5, <1>6, ServerStepKeeps DEF FishInv, FishTypeInv
<1> QED
  BY <1>1, <1>3, <1>5, <1>7, StaleStays

LEMMA OneLeft == ASSUME NEW s \in Seq(ClientUnit), Len(s) = 1 PROVE s = <<s[1]>>
<1>1. s[1] \in ClientUnit
  BY ElementOfSeq
<1> DEFINE x == s[1]
<1> HIDE DEF x
<1>2. <<x>> \in Seq(ClientUnit) /\ Len(<<x>>) = 1 /\ <<x>>[1] = x
  BY <1>1, Single DEF x
<1>3. s = <<x>>
  <2>1. \A i \in 1 .. Len(s) : s[i] = <<x>>[i]
    BY <1>2 DEF x
  <2> QED
    BY <1>2, <2>1, SeqEqual
<1> QED
  BY <1>3 DEF x

LEMMA ServerSkipsKeeps ==
  ASSUME FishInv, StaleInv, ServerSkips, UNCHANGED <<clientVars, appVars>>
  PROVE  FishInv' /\ StaleInv'
<1>1. PICK u \in {"line", "alt", "newlines"} :
        /\ Reads(u) /\ srv.mode \in {"main", "login"} /\ UNCHANGED serverVars
        /\ u # (IF srv.mode = "login" THEN "alt" ELSE Understood)
  BY DEF ServerSkips
<1>2. UNCHANGED <<server, fs, srv, srvOut, clientVars>> /\ srvOut = << >> /\ srvOut' \in Seq(ServerUnit)
  BY <1>1, Empties DEF serverVars, Reads
<1>3. /\ ServerStep /\ cl' = cl /\ alive' = TRUE /\ Current' = Current /\ Current \in RequestSet
      /\ toServer # << >> /\ toServer' = Tail(toServer) /\ toServer' \in Seq(ClientUnit) /\ toClient' \in Seq(ServerUnit)
      /\ ToCome' = ToCome /\ Len(ToRead) \in Nat \ {0} /\ Len(ToRead') = Len(ToRead) - 1 /\ ToRead[1].u = u
      /\ \A i \in 1 .. Len(ToRead') : ToRead'[i] = ToRead[i + 1] /\ i + 1 \in 1 .. Len(ToRead)
      /\ Len(ToRead) = 1 => ToRead' = << >>
  BY <1>1, <1>2, UnitRead
<1>4. Replies(ToCome)' <=> Replies(ToCome)
  BY <1>3 DEF Replies
<1>5. ASSUME ReplyPhase PROVE ReplyPhase'
  <2>1. \A i \in 1 .. Len(ToRead') : IsNoise(ToRead'[i])
    BY <1>3, <1>5 DEF ReplyPhase
  <2>2. ToCome # << >> => Len(ToRead') <= 1 /\ (cl.rawWrite = 0 => ToRead' = << >>)
    BY <1>3, <1>5, Empties DEF ReplyPhase
  <2>3. ToRead = << >> => FALSE
    BY <1>3, Empties
  <2> QED
    BY <1>3, <1>4, <1>5, <2>1, <2>2, <2>3 DEF ReplyPhase
<1>6. ASSUME CommandPhase, srv.mode = "main" PROVE CommandPhase'
  <2>1. u # "line"
    BY <1>1, <1>6 DEF Understood, FishInv, FishTypeInv
  <2>2. Len(ToRead) >= 2 /\ ToRead[Len(ToRead) - 1].u = "line" /\ Current \in RequestSet
    BY <1>3, <1>6, LinesFacts DEF CommandPhase
  <2>3. Len(ToRead) # 2
    <3> SUFFICES ASSUME Len(ToRead) = 2 PROVE FALSE
      OBVIOUS
    <3>1. Len(ToRead) - 1 = 1
      OBVIOUS
    <3> QED
      BY <1>3, <2>1, <2>2, <3>1
  <2> DEFINE n == Len(ToRead)
             m == Len(ToRead')
  <2>4. n \in Nat /\ n >= 2 /\ n # 2 /\ m = n - 1
    BY <1>3, <2>2, <2>3
  <2>5. \A i \in 1 .. m : ToRead'[i] = ToRead[i + 1]
    BY <1>3
  <2>6. ToRead[n - 1] = CommandLine(Current) /\ ToRead[n] = ShellLine(Current) /\ \A i \in 1 .. n - 2 : IsNoise(ToRead[i])
    BY <1>6 DEF CommandPhase
  <2> HIDE DEF n, m
  <2>7. m >= 2 /\ ToRead'[m - 1] = CommandLine(Current) /\ ToRead'[m] = ShellLine(Current)
    <3>1. m >= 2 /\ m - 1 \in 1 .. m /\ m \in 1 .. m /\ (m - 1) + 1 = n - 1 /\ m + 1 = n
      BY <2>4
    <3>2. ToRead'[m - 1] = ToRead[(m - 1) + 1] /\ ToRead'[m] = ToRead[m + 1]
      BY <2>5, <3>1
    <3> QED
      BY <2>6, <3>1, <3>2
  <2>8. \A i \in 1 .. m - 2 : IsNoise(ToRead'[i])
    BY <2>4, <2>5, <2>6
  <2> QED
    BY <1>3, <1>6, <2>7, <2>8 DEF CommandPhase, Announced, n, m
<1>7. ASSUME cl.childPid = TRUE PROVE PhaseInv' /\ QuietInv'
  <2>1. CASE srv.mode = "login"
    <3>1. LoginPhase /\ u # "alt"
      BY <1>1, <1>3, <1>7, <2>1 DEF FishInv, PhaseInv, ServerStep
    <3>2. ToRead = Lines(Current)
      BY <1>3, <3>1, LinesFacts DEF LoginPhase
    <3>3. Len(ToRead') = 1 /\ ToRead'[1] = ShellLine(Current)
      <4>1. Len(ToRead) = 2 /\ ToRead[2] = ShellLine(Current)
        BY <1>3, <3>2, LinesFacts
      <4>2. Len(ToRead') = 1
        BY <1>3, <4>1
      <4>3. 1 \in 1 .. Len(ToRead') /\ 1 + 1 = 2
        BY <4>2
      <4>4. ToRead'[1] = ToRead[1 + 1]
        BY <1>3, <4>3
      <4> QED
        BY <4>1, <4>2, <4>3, <4>4
    <3>4. ToRead' = <<ShellLine(Current)>>
      <4>1. cl'.outBuf \in Seq(ClientUnit)
        BY <1>3, ConnectionFields DEF FishInv, FishTypeInv
      <4>2. ToRead' \in Seq(ClientUnit)
        BY <1>3, <4>1, ConcatProperties DEF ToRead
      <4> QED
        BY <3>3, <4>2, OneLeft
    <3>5. LoginPhase'
      BY <1>3, <3>1, <3>4 DEF LoginPhase
    <3>6. cl.isRunning = TRUE
      BY <1>3, <1>7, <2>1, StillRunning DEF ServerStep
    <3> QED
      BY <1>2, <1>3, <2>1, <3>5, <3>6 DEF PhaseInv, QuietInv
  <2>2. CASE srv.mode = "main"
    <3>1. CommandPhase' \/ ReplyPhase'
      BY <1>3, <1>5, <1>6, <1>7, <2>2 DEF FishInv, PhaseInv, ServerStep
    <3>2. QuietInv'
      BY <1>2, <1>3, <1>5 DEF FishInv, QuietInv, ServerStep
    <3> QED
      BY <1>2, <1>3, <2>2, <3>1, <3>2 DEF PhaseInv
  <2> QED
    BY <1>1, <2>1, <2>2
<1>8. FishInv'
  BY <1>2, <1>3, <1>7, ServerStepKeeps DEF FishInv, FishTypeInv
<1> QED
  BY <1>2, <1>3, <1>8, StaleStays

(* The command that is read is the one the client waits for.               *)
LEMMA CommandRead ==
  ASSUME FishInv, StaleInv, srv.mode = "main", Reads(Understood), UNCHANGED <<clientVars, server>>,
         srvOut' \in Seq(ServerUnit)
  PROVE  /\ Head(toServer).c \in RequestSet /\ Head(toServer).c.name \notin {"none", "FISH"}
         /\ cl.childPid = TRUE =>
              /\ Head(toServer).c = Current /\ ToRead' = <<ShellLine(Current)>> /\ Len(ToRead') = 1 /\ IsNoise(ToRead'[1])
              /\ ToCome' = srvOut' /\ cl.rawWrite = -1 /\ Announced /\ cl.isRunning = TRUE
<1>1. /\ ServerStep /\ cl' = cl /\ OldLines /\ Current \in RequestSet
      /\ toServer # << >> /\ Head(toServer) \in ClientUnit /\ Head(toServer) = ToRead[1] /\ Head(toServer).u = Understood
      /\ Len(ToRead) \in Nat \ {0} /\ Len(ToRead') = Len(ToRead) - 1
      /\ \A i \in 1 .. Len(ToRead') : ToRead'[i] = ToRead[i + 1] /\ i + 1 \in 1 .. Len(ToRead)
      /\ ToCome = << >> => ToCome' = srvOut'
  BY UnitRead
<1>2. Head(toServer).u = "line"
  BY <1>1 DEF Understood, FishInv, FishTypeInv
<1>3. Head(toServer).c \in RequestSet
  BY <1>1, <1>2 DEF ClientUnit
<1>4. Head(toServer).c.name \notin {"none", "FISH"}
  <2>1. toServer \in Seq(ClientUnit)
    BY DEF FishInv, FishTypeInv
  <2>2. 1 \in 1 .. Len(toServer) /\ Head(toServer) = toServer[1]
    BY <1>1, <2>1, TailOfUnits
  <2> QED
    BY <1>1, <1>2, <2>2 DEF OldLines
<1>5. ASSUME cl.childPid = TRUE
      PROVE  /\ Head(toServer).c = Current /\ ToRead' = <<ShellLine(Current)>> /\ Len(ToRead') = 1 /\ IsNoise(ToRead'[1])
             /\ ToCome' = srvOut' /\ cl.rawWrite = -1 /\ Announced /\ cl.isRunning = TRUE
  <2>1. ~ReplyPhase
    <3>1. 1 \in 1 .. Len(ToRead) /\ ~IsNoise(ToRead[1])
      BY <1>1, <1>2 DEF IsNoise
    <3> QED
      BY <3>1 DEF ReplyPhase
  <2>2. CommandPhase
    BY <1>1, <1>5, <2>1 DEF FishInv, PhaseInv, ServerStep
  <2> DEFINE n == Len(ToRead)
  <2>3. n \in Nat /\ n >= 2 /\ ToRead[n - 1] = CommandLine(Current) /\ ToRead[n] = ShellLine(Current)
        /\ \A i \in 1 .. n - 2 : IsNoise(ToRead[i])
    BY <1>1, <2>2 DEF CommandPhase
  <2>4. Len(ToRead') = n - 1 /\ \A i \in 1 .. Len(ToRead') : ToRead'[i] = ToRead[i + 1]
    BY <1>1
  <2> HIDE DEF n
  <2>5. n = 2
    <3>1. ~IsNoise(ToRead[1])
      BY <1>1, <1>2 DEF IsNoise
    <3> QED
      BY <2>3, <3>1
  <2>6. ToRead[1] = CommandLine(Current) /\ ToRead[2] = ShellLine(Current)
    <3>1. n - 1 = 1
      BY <2>5
    <3> QED
      BY <2>3, <2>5, <3>1
  <2>7. Len(ToRead') = 1 /\ ToRead'[1] = ShellLine(Current)
    <3>1. Len(ToRead') = 1
      BY <2>4, <2>5
    <3>2. 1 \in 1 .. Len(ToRead') /\ 1 + 1 = 2
      BY <3>1
    <3>3. ToRead'[1] = ToRead[1 + 1]
      BY <2>4, <3>2
    <3> QED
      BY <2>6, <3>1, <3>2, <3>3
  <2>8. ToRead' = <<ShellLine(Current)>>
    <3>1. toServer' \in Seq(ClientUnit) /\ cl'.outBuf \in Seq(ClientUnit)
      BY <1>1, UnitRead, ConnectionFields DEF FishInv, FishTypeInv
    <3>2. ToRead' \in Seq(ClientUnit)
      BY <3>1, ConcatProperties DEF ToRead
    <3> QED
      BY <2>7, <3>2, OneLeft
  <2>9. Head(toServer).c = Current /\ IsNoise(ToRead'[1])
    BY <1>1, <2>6, <2>7, LinesFacts DEF IsNoise
  <2>10. cl.isRunning = TRUE
    BY <1>1, <1>5, <2>1, StillRunning DEF ServerStep
  <2> QED
    BY <1>1, <2>2, <2>7, <2>8, <2>9, <2>10 DEF CommandPhase
<1> QED
  BY <1>3, <1>4, <1>5

LEMMA ServerExecutesKeeps ==
  ASSUME FishInv, StaleInv, ServerExecutes, UNCHANGED <<clientVars, appVars>>
  PROVE  FishInv' /\ StaleInv'
<1> DEFINE c == Head(toServer).c
<1>1. /\ srv.mode = "main" /\ Reads(Understood) /\ UNCHANGED <<clientVars, server, srv>> /\ c.name \notin Writing
      /\ \E o \in Outcomes(c) : fs' = o.fs /\ srvOut' = Printed(c.id, o.reply)
  BY DEF ServerExecutes
<1>2. PICK o \in PerlOutcomes(c) : fs' = o.fs /\ srvOut' = Printed(c.id, o.reply)
  BY <1>1 DEF Outcomes, FishInv, FishTypeInv
<1>3. c \in RequestSet /\ c.name \notin {"none", "FISH"}
  <2>1. Head(toServer) \in ClientUnit /\ Head(toServer).u = "line" /\ toServer # << >> /\ OldLines /\ toServer \in Seq(ClientUnit)
    BY <1>1, ServerTakes, OldLinesFacts DEF FishInv, FishTypeInv, clientVars, Understood, Reads
  <2>2. 1 \in 1 .. Len(toServer) /\ Head(toServer) = toServer[1]
    BY <2>1, TailOfUnits
  <2> QED
    BY <1>1, <2>1, <2>2 DEF OldLines, ClientUnit
<1> DEFINE r == o.reply
<1>4. fs' \in [Path -> Value] /\ GoodReply(r)
  BY <1>1, <1>2, <1>3, OutcomesGood DEF FishInv, FishTypeInv, GoodOutcome
<1>5. srvOut' = Printed(c.id, r) /\ c.id \in Nat
  BY <1>2, <1>3 DEF RequestSet
<1> HIDE DEF c, r
<1>6. srvOut' \in Seq(ServerUnit)
  BY <1>4, <1>5, PrintedFacts
<1>7. /\ ServerStep /\ cl' = cl /\ alive' = TRUE /\ toServer # << >> /\ toServer' = Tail(toServer)
      /\ toServer' \in Seq(ClientUnit) /\ toClient' \in Seq(ServerUnit)
  BY <1>1, <1>6, UnitRead
<1>8. ASSUME cl.childPid = TRUE PROVE PhaseInv' /\ QuietInv'
  <2>1. /\ c = Current /\ Len(ToRead') = 1 /\ IsNoise(ToRead'[1])
        /\ ToCome' = srvOut' /\ cl.rawWrite = -1 /\ cl.isRunning = TRUE
    BY <1>1, <1>6, <1>8, CommandRead DEF c
  <2>2. \A i \in 1 .. Len(ToRead') : IsNoise(ToRead'[i])
    BY <2>1
  <2>3. ReplyPhase'
    BY <1>1, <1>3, <1>4, <1>5, <1>7, <2>1, <2>2, ReplyComes
  <2> QED
    BY <1>1, <1>7, <2>1, <2>3 DEF PhaseInv, QuietInv
<1>9. FishInv'
  BY <1>1, <1>4, <1>6, <1>7, <1>8, ServerStepKeeps DEF FishInv, FishTypeInv
<1> QED
  BY <1>1, <1>7, <1>9, StaleStays

LEMMA ServerCannotOpenKeeps ==
  ASSUME FishInv, StaleInv, ServerCannotOpen, UNCHANGED <<clientVars, appVars>>
  PROVE  FishInv' /\ StaleInv'
<1> DEFINE c == Head(toServer).c
           r == <<Status(400)>>
<1>1. /\ srv.mode = "main" /\ Reads(Understood) /\ UNCHANGED <<clientVars, server, srv, fs>>
      /\ srvOut' = Printed(c.id, r)
  BY DEF ServerCannotOpen, FishInv, FishTypeInv
<1>2. GoodReply(r) /\ Len(r) = 1 /\ r[1][1] = "status" /\ r[1][2] = 400
  BY KnownReplies DEF Status
<1>3. c.id \in Nat
  <2>1. Head(toServer) \in ClientUnit /\ Head(toServer).u = "line"
    BY <1>1, ServerTakes DEF FishInv, FishTypeInv, clientVars, Understood
  <2> QED
    BY <2>1 DEF ClientUnit, RequestSet
<1> HIDE DEF c, r
<1>4. srvOut' \in Seq(ServerUnit)
  BY <1>1, <1>2, <1>3, PrintedFacts
<1>5. /\ ServerStep /\ cl' = cl /\ alive' = TRUE /\ toServer # << >> /\ toServer' = Tail(toServer)
      /\ toServer' \in Seq(ClientUnit) /\ toClient' \in Seq(ServerUnit)
  BY <1>1, <1>4, UnitRead
<1>6. ASSUME cl.childPid = TRUE PROVE PhaseInv' /\ QuietInv'
  <2>1. /\ c = Current /\ Len(ToRead') = 1 /\ IsNoise(ToRead'[1])
        /\ ToCome' = srvOut' /\ cl.rawWrite = -1 /\ cl.isRunning = TRUE
    BY <1>1, <1>4, <1>6, CommandRead DEF c
  <2>2. \A i \in 1 .. Len(ToRead') : IsNoise(ToRead'[i])
    BY <2>1
  <2>3. \A i \in 1 .. Len(r) : r[i][1] = "status" => r[i][2] # 100
    BY <1>2
  <2>4. ReplyPhase'
    BY <1>1, <1>2, <1>5, <2>1, <2>2, <2>3, ReplyComes
  <2> QED
    BY <1>1, <1>5, <2>1, <2>4 DEF PhaseInv, QuietInv
<1>7. FishInv'
  BY <1>1, <1>4, <1>5, <1>6, ServerStepKeeps DEF FishInv, FishTypeInv
<1> QED
  BY <1>1, <1>5, <1>7, StaleStays

LEMMA ServerOpensKeeps ==
  ASSUME FishInv, StaleInv, ServerOpens, UNCHANGED <<clientVars, appVars>>
  PROVE  FishInv' /\ StaleInv'
<1> DEFINE c == Head(toServer).c
           f == IF c.name = "STOR" \/ fs[c.p] = Absent THEN << >> ELSE fs[c.p]
           at == IF c.name = "APPEND" THEN Len(f) ELSE c.at
<1>1. /\ srv.mode = "main" /\ Reads(Understood) /\ UNCHANGED <<clientVars, server>> /\ c.name \in Writing
      /\ fs[c.p] # Dir /\ fs' = [fs EXCEPT ![c.p] = f] /\ srvOut' = << >>
      /\ srv' = [mode |-> "alt", c |-> c, left |-> c.n, pos |-> at, error |-> FALSE]
  BY DEF ServerOpens, FishInv, FishTypeInv
<1>2. c \in RequestSet
  <2>1. Head(toServer) \in ClientUnit /\ Head(toServer).u = "line"
    BY <1>1, ServerTakes DEF FishInv, FishTypeInv, clientVars, Understood
  <2> QED
    BY <2>1 DEF ClientUnit
<1>3. c.p \in Path /\ c.at \in Nat /\ c.n \in Nat
  BY <1>1, <1>2 DEF RequestSet, Writing
<1>4. f \in Seq(Portion) /\ Len(f) \in Nat /\ f \in Value /\ fs \in [Path -> Value]
  <2>1. fs \in [Path -> Value] /\ fs[c.p] \in Value
    BY <1>3 DEF FishInv, FishTypeInv
  <2>2. fs[c.p] = Absent \/ (fs[c.p] \in Seq(Portion) /\ Len(fs[c.p]) \in Nat)
    BY <1>1, <2>1, Contents
  <2>3. f \in Seq(Portion) /\ Len(f) \in Nat
    BY <2>2, Empties
  <2> QED
    BY <2>1, <2>3, Contents
<1>5. at \in Nat
  BY <1>3, <1>4
<1> HIDE DEF c, f, at
<1>6. fs' \in [Path -> Value] /\ fs'[c.p] = f
  BY <1>1, <1>3, <1>4
<1>7. srv' \in ServerSet /\ srv'.mode = "alt" /\ srv'.c = c /\ srv'.left = c.n
  BY <1>1, <1>2, <1>3, <1>5 DEF ServerSet
<1>8. srvOut' \in Seq(ServerUnit)
  BY <1>1, Empties
<1>9. /\ ServerStep /\ cl' = cl /\ alive' = TRUE /\ Current' = Current /\ toServer # << >> /\ toServer' = Tail(toServer)
      /\ toServer' \in Seq(ClientUnit) /\ toClient' \in Seq(ServerUnit)
  BY <1>1, <1>8, UnitRead
<1>10. ASSUME cl.childPid = TRUE PROVE PhaseInv' /\ QuietInv'
  <2>1. /\ c = Current /\ ToRead' = <<ShellLine(Current)>> /\ ToCome' = srvOut' /\ cl.rawWrite = -1 /\ Announced /\ cl.isRunning = TRUE
    BY <1>1, <1>8, <1>10, CommandRead DEF c
  <2>2. AltPhase'
    BY <1>1, <1>7, <1>9, <2>1 DEF AltPhase, Announced
  <2> QED
    BY <1>7, <1>9, <2>1, <2>2 DEF PhaseInv, QuietInv
<1>11. srv'.c.p \in Path /\ fs'[srv'.c.p] \in Seq(Portion)
  BY <1>3, <1>4, <1>6, <1>7
<1>12. FishInv'
  BY <1>6, <1>7, <1>8, <1>9, <1>10, <1>11, ServerStepKeeps
<1> QED
  BY <1>1, <1>7, <1>9, <1>12, StaleStays

LEMMA ServerAsksForDataKeeps ==
  ASSUME FishInv, StaleInv, ServerAsksForData, UNCHANGED <<clientVars, appVars>>
  PROVE  FishInv' /\ StaleInv'
<1> DEFINE r == <<Status(100)>>
<1>1. /\ srv.mode = "alt" /\ Reads("alt") /\ UNCHANGED <<clientVars, server, fs>>
      /\ srv' = [srv EXCEPT !.mode = "data"] /\ srvOut' = Printed(srv.c.id, r)
  BY DEF ServerAsksForData
<1>2. srv \in ServerSet /\ srv.c \in RequestSet /\ srv.c.id \in Nat
  BY DEF FishInv, FishTypeInv, ServerSet, RequestSet
<1>3. srv' \in ServerSet /\ srv'.mode = "data" /\ srv'.c = srv.c /\ srv'.left = srv.left
  BY <1>1, <1>2 DEF ServerSet
<1>4. r \in Seq(ReplyUnit \cup {Blank})
  <2> DEFINE x == Status(100)
             all == ReplyUnit \cup {Blank}
  <2>1. x \in all
    BY ReplyUnits
  <2> HIDE DEF x, all
  <2>2. <<x>> \in Seq(all)
    BY <2>1, Single
  <2> QED
    BY <2>2 DEF x, all
<1>5. srvOut' \in Seq(ServerUnit)
  BY ZenonT(90), <1>1, <1>2, <1>4, PrintedFacts
<1>6. /\ ServerStep /\ cl' = cl /\ alive' = TRUE /\ Current' = Current /\ toServer # << >> /\ toServer' = Tail(toServer)
      /\ toServer' \in Seq(ClientUnit) /\ toClient' \in Seq(ServerUnit) /\ Current \in RequestSet
      /\ Len(ToRead) = 1 => ToRead' = << >> /\ cl.qlist = << >>
      /\ ToCome = << >> => ToCome' = srvOut'
  BY <1>1, <1>5, UnitRead
<1>7. ASSUME cl.childPid = TRUE PROVE PhaseInv' /\ QuietInv'
  <2>1. AltPhase
    BY <1>1, <1>6, <1>7 DEF FishInv, PhaseInv, ServerStep
  <2>2. ToRead' = << >> /\ cl.qlist = << >> /\ ToCome' = Printed(Current.id, r)
    BY <1>1, <1>6, <2>1, LinesFacts DEF AltPhase
  <2>3. DataPhase'
    BY <1>3, <1>6, <2>1, <2>2 DEF AltPhase, DataPhase, Announced
  <2>4. cl.isRunning = TRUE
    BY <1>1, <1>6, <1>7, StillRunning DEF ServerStep
  <2> QED
    BY <1>3, <1>6, <2>3, <2>4 DEF PhaseInv, QuietInv
<1>8. fs' \in [Path -> Value] /\ srv'.c.p \in Path /\ fs'[srv'.c.p] \in Seq(Portion)
  BY <1>1, <1>3 DEF FishInv, FishTypeInv
<1>9. FishInv'
  BY <1>3, <1>5, <1>6, <1>7, <1>8, ServerStepKeeps
<1> QED
  BY <1>1, <1>3, <1>6, <1>9, StaleStays

LEMMA OnePortionWritten ==
  ASSUME NEW s \in Seq(Portion), NEW n \in Nat, NEW d \in Portion
  PROVE  Padded(s, n) \o <<d>> \o SubSeq(s, n + 2, Len(s)) \in Seq(Portion)
<1> DEFINE a == Padded(s, n)
           b == <<d>>
           r == SubSeq(s, n + 2, Len(s))
<1>1. a \in Seq(Portion)
  BY PaddedFacts
<1>2. b \in Seq(Portion)
  BY Single
<1>3. r \in Seq(Portion)
  <2>1. Len(s) \in Nat /\ \A i \in 1 .. Len(s) : s[i] \in Portion
    BY LenProperties, ElementOfSeq
  <2>2. \A i \in n + 2 .. Len(s) : s[i] \in Portion
    BY <2>1
  <2>3. n + 2 \in Int /\ Len(s) \in Int
    BY <2>1
  <2> HIDE DEF Portion
  <2> QED
    BY <2>2, <2>3, SubSeqProperties
<1> HIDE DEF a, b, r, Portion
<1>4. a \o b \in Seq(Portion)
  BY <1>1, <1>2, ConcatProperties
<1>5. (a \o b) \o r \in Seq(Portion)
  BY <1>3, <1>4, ConcatProperties
<1> QED
  BY <1>5 DEF a, b, r

LEMMA ServerWritesKeeps ==
  ASSUME FishInv, StaleInv, ServerWrites, UNCHANGED <<clientVars, appVars>>
  PROVE  FishInv' /\ StaleInv'
<1> DEFINE d == Head(toServer).d
           p == srv.c.p
           s == fs[p]
           t == Padded(s, srv.pos) \o <<d>> \o SubSeq(s, srv.pos + 2, Len(s))
<1>1. /\ srv.mode = "data" /\ srv.left > 0 /\ Reads("data") /\ UNCHANGED <<clientVars, server, srvOut>>
      /\ \/ fs' = [fs EXCEPT ![p] = t] /\ srv' = [srv EXCEPT !.left = @ - 1, !.pos = @ + 1]
         \/ fs' = fs /\ srv' = [srv EXCEPT !.left = @ - 1, !.error = TRUE]
  BY DEF ServerWrites
<1>2. srv \in ServerSet /\ srv.c \in RequestSet /\ srv.left \in Nat /\ srv.pos \in Nat /\ p \in Path /\ s \in Seq(Portion)
      /\ fs \in [Path -> Value] /\ srvOut = << >>
  BY <1>1 DEF FishInv, FishTypeInv, ServerSet, Reads
<1>3. d \in Portion
  <2>1. Head(toServer) \in ClientUnit /\ Head(toServer).u = "data"
    BY <1>1, ServerTakes DEF FishInv, clientVars
  <2> QED
    BY <2>1 DEF ClientUnit
<1> HIDE DEF d
<1>4. t \in Seq(Portion)
  BY <1>2, <1>3, OnePortionWritten
<1> HIDE DEF t
<1>5. t \in Value
  <2>1. s \in Value
    BY <1>2
  <2> QED
    BY <1>4, <2>1, Contents
<1>6. fs' \in [Path -> Value] /\ fs'[p] \in Seq(Portion)
  BY <1>1, <1>2, <1>4, <1>5
<1>7. srv' \in ServerSet /\ srv'.mode = "data" /\ srv'.c = srv.c /\ srv'.left = srv.left - 1 /\ srv'.left \in Nat
  <2> DEFINE n == srv.left - 1
             m == srv.pos + 1
  <2>1. n \in Nat /\ m \in Nat
    BY <1>1, <1>2
  <2>2. srv' = [srv EXCEPT !.left = n, !.pos = m] \/ srv' = [srv EXCEPT !.left = n, !.error = TRUE]
    BY <1>1
  <2> HIDE DEF n, m
  <2>3. srv' \in ServerSet /\ srv'.mode = srv.mode /\ srv'.c = srv.c /\ srv'.left = n
    BY <1>2, <2>1, <2>2 DEF ServerSet
  <2> QED
    BY <1>1, <2>1, <2>3 DEF n
<1>8. srvOut' \in Seq(ServerUnit)
  BY <1>1, <1>2, Empties
<1>9. /\ ServerStep /\ cl' = cl /\ alive' = TRUE /\ Current' = Current /\ toServer # << >> /\ toServer' = Tail(toServer)
      /\ toServer' \in Seq(ClientUnit) /\ toClient' \in Seq(ServerUnit)
      /\ Len(ToRead) \in Nat \ {0} /\ Len(ToRead') = Len(ToRead) - 1
      /\ \A i \in 1 .. Len(ToRead') : ToRead'[i] = ToRead[i + 1]
      /\ ToCome' = ToCome
  BY <1>1, <1>2, <1>8, UnitRead
<1>10. ASSUME cl.childPid = TRUE PROVE PhaseInv' /\ QuietInv'
  <2>1. DataPhase /\ ToRead # << >>
    BY <1>1, <1>9, <1>10, Empties DEF FishInv, PhaseInv, ServerStep
  <2> DEFINE n == Len(ToRead)
             m == Len(ToRead')
             left == srv.left
  <2>2. /\ ToCome = << >> /\ cl.rawWrite <= 0 /\ (\A i \in 1 .. left : ToRead[i].u = "data")
        /\ (\A i \in left + 1 .. n : IsNoise(ToRead[i]))
        /\ n \in {left, left + 1} /\ (cl.rawWrite = 0 => n = left)
    BY <2>1 DEF DataPhase
  <2>3. n \in Nat /\ m = n - 1 /\ (\A i \in 1 .. m : ToRead'[i] = ToRead[i + 1]) /\ left \in Nat /\ left > 0
    BY <1>1, <1>2, <1>9
  <2> HIDE DEF n, m, left
  <2>4. /\ \A i \in 1 .. left - 1 : ToRead'[i].u = "data"
        /\ \A i \in (left - 1) + 1 .. m : IsNoise(ToRead'[i])
        /\ m \in {left - 1, (left - 1) + 1} /\ (cl.rawWrite = 0 => m = left - 1)
    BY <2>2, <2>3
  <2>5. DataPhase'
    BY <1>7, <1>9, <2>1, <2>2, <2>4 DEF DataPhase, Announced, m, left
  <2>6. cl.isRunning = TRUE
    BY <1>1, <1>9, <1>10, StillRunning DEF ServerStep
  <2> QED
    BY <1>7, <1>9, <2>5, <2>6 DEF PhaseInv, QuietInv
<1>11. srv'.c.p \in Path /\ fs'[srv'.c.p] \in Seq(Portion)
  BY <1>2, <1>6, <1>7
<1>12. FishInv'
  BY <1>6, <1>7, <1>8, <1>9, <1>10, <1>11, ServerStepKeeps
<1> QED
  BY <1>1, <1>7, <1>9, <1>12, StaleStays

LEMMA ServerEndsWriteKeeps ==
  ASSUME FishInv, StaleInv, ServerEndsWrite, UNCHANGED <<clientVars, appVars>>
  PROVE  FishInv' /\ StaleInv'
<1>1. /\ alive = TRUE /\ srv.mode = "data" /\ srv.left = 0 /\ srvOut = << >> /\ srv' = Idle
      /\ UNCHANGED <<clientVars, server, wireVars, fs>>
      /\ srvOut' = Printed(srv.c.id, CASE ~srv.error                   -> <<Status(200)>>
                                       [] srv.error /\ server = "perl" -> <<Status(500)>>
                                       [] srv.error /\ server = "sh"   -> <<Text, Status(200)>>)
  BY DEF ServerEndsWrite, FishInv, FishTypeInv
<1>2. srv.error \in BOOLEAN /\ server = "perl" /\ srv.c.id \in Nat /\ srv' \in ServerSet /\ srv'.mode = "main"
  BY <1>1, IdleFacts DEF FishInv, FishTypeInv, ServerSet, RequestSet
<1>3. PICK code \in {200, 500} : srvOut' = Printed(srv.c.id, <<Status(code)>>)
  BY <1>1, <1>2
<1> DEFINE r == <<Status(code)>>
<1>4. GoodReply(r) /\ Len(r) = 1 /\ r[1][1] = "status" /\ r[1][2] = code
  BY KnownReplies DEF Status
<1> HIDE DEF r
<1>5. /\ srvOut' = Printed(srv.c.id, r) /\ srvOut' \in Seq(ServerUnit) /\ Len(srvOut') = 1
      /\ srvOut'[1].id = srv.c.id /\ srvOut'[1].k = "status" /\ srvOut'[1].v = code
  <2>1. srvOut' = Printed(srv.c.id, r)
    BY <1>3 DEF r
  <2> QED
    BY <1>2, <1>4, <2>1, PrintedFacts
<1>6. cl' = cl /\ inBuf' = inBuf /\ toClient' = toClient /\ toServer' = toServer /\ alive' = TRUE /\ alive' = alive /\ ServerStep
  BY <1>1 DEF clientVars, wireVars, ServerStep
<1>7. ToCome' = ToCome \o srvOut' /\ (ToCome = << >> => ToCome' = srvOut')
  BY <1>1, <1>5, <1>6, Answers DEF FishInv
<1>8. ToRead' = ToRead /\ Current' = Current /\ Len(ToRead) \in Nat
  BY <1>6, Streams, LenProperties DEF ToRead, Current, FishInv
<1>9. ASSUME cl.childPid = TRUE PROVE PhaseInv' /\ QuietInv'
  <2>1. DataPhase
    BY <1>1, <1>9 DEF FishInv, PhaseInv
  <2>2. ASSUME ToCome = Printed(Current.id, <<Status(100)>>), ToRead = << >>, srv.left = Current.n, cl.rawWrite = -1
        PROVE  ReplyPhase'
    <3> DEFINE go == Unit("status", 100, Current.id)
    <3>1. ToCome = <<go>> /\ go.id = Current.id /\ go.k = "status" /\ go.v = 100
      BY <2>2 DEF Printed, Status, Unit
    <3> HIDE DEF go
    <3>2. ToCome \in Seq(ServerUnit) /\ Len(ToCome) = 1 /\ ToCome[1] = go
      BY <3>1, Streams DEF FishInv
    <3>3. Len(ToCome') = 2 /\ ToCome'[1] = go /\ ToCome'[2] = srvOut'[1]
      <4>1. /\ Len(ToCome \o srvOut') = 1 + 1
            /\ \A i \in 1 .. 1 + 1 : (ToCome \o srvOut')[i] = IF i <= 1 THEN ToCome[i] ELSE srvOut'[i - 1]
        BY <1>5, <3>2, ConcatProperties
      <4> QED
        BY <1>7, <3>2, <4>1
    <3>4. cl.sendLen <= 0 /\ Current.name \in Writing
      <4>1. Current.name \in Writing /\ Current.n = (IF cl.sendLen > 0 THEN cl.sendLen ELSE 0)
        BY <2>1 DEF DataPhase, Announced
      <4>2. Current.n = 0
        BY <1>1, <2>2
      <4>3. cl.sendLen \in Int
        BY ConnectionFields DEF FishInv, FishTypeInv
      <4> QED
        BY <4>1, <4>2, <4>3
    <3>5. ASSUME NEW i \in 1 .. Len(ToCome')
          PROVE  /\ ToCome'[i].id = Current.id /\ ToCome'[i].k = "status" /\ ToCome'[i].v \notin {0, 1}
                 /\ (IsFinal(ToCome'[i]) => i = Len(ToCome')) /\ (IsGo(ToCome'[i]) => i = 1)
      <4>1. i = 1 \/ i = 2
        BY <3>3
      <4>2. CASE i = 1
        BY <3>1, <3>3, <4>2 DEF IsFinal
      <4>3. CASE i = 2
        <5>1. srv.c.id = Current.id
          BY <2>1 DEF DataPhase
        <5> QED
          BY <1>5, <3>3, <4>3, <5>1 DEF IsGo
      <4> QED
        BY <4>1, <4>2, <4>3
    <3>6. Current.name # "FISH"
      BY <3>4 DEF Writing
    <3>7. Replies(ToCome)'
      BY <1>8, <3>5, <3>6 DEF Replies
    <3>8. Len(ToRead') = 0 /\ ToRead' = << >>
      BY <1>8, <2>2, Empties
    <3> QED
      BY <1>6, <1>8, <2>2, <3>4, <3>5, <3>6, <3>7, <3>8 DEF ReplyPhase
  <2>3. ASSUME ToCome = << >>, cl.rawWrite <= 0, \A i \in srv.left + 1 .. Len(ToRead) : IsNoise(ToRead[i]),
               Len(ToRead) \in {srv.left, srv.left + 1}, cl.rawWrite = 0 => Len(ToRead) = srv.left
        PROVE  ReplyPhase'
    <3>1. ToCome' = Printed(Current.id, r)
      BY <1>5, <1>7, <2>1, <2>3 DEF DataPhase
    <3>2. \A i \in 1 .. Len(ToRead') : IsNoise(ToRead'[i])
      BY <1>1, <1>8, <2>3
    <3>3. Len(ToRead') <= 1
      BY <1>1, <1>8, <2>3
    <3>4. cl.rawWrite = 0 => ToRead' = << >>
      <4> SUFFICES ASSUME cl.rawWrite = 0 PROVE ToRead = << >>
        BY <1>8
      <4>1. Len(ToRead) = 0 /\ ToRead \in Seq(ClientUnit)
        BY <1>1, <2>3, Streams DEF FishInv
      <4> QED
        BY <4>1, EmptySeq
    <3>5. \A i \in 1 .. Len(r) : r[i][1] = "status" => r[i][2] # 100
      BY <1>3, <1>4
    <3> QED
      BY <1>4, <1>6, <2>3, <3>1, <3>2, <3>3, <3>4, <3>5, ReplyComes
  <2>4. ~(cl.rawWrite > 0 /\ srv.left = cl.rawWrite)
    BY <1>1
  <2>5. ReplyPhase'
    BY <2>1, <2>2, <2>3, <2>4 DEF DataPhase
  <2>6. cl.isRunning = TRUE
    BY <1>1, <1>9, StillRunning
  <2> QED
    BY <1>2, <1>6, <2>5, <2>6 DEF PhaseInv, QuietInv
<1>10. FishInv'
  BY <1>1, <1>2, <1>5, <1>6, <1>9, ServerStepKeeps DEF FishInv, FishTypeInv
<1> QED
  BY <1>1, <1>2, <1>6, <1>10, StaleStays

-----------------------------------------------------------------------------
(* Every step *)

LEMMA FishInit == ASSUME Init, server = "perl" PROVE FishInv /\ StaleInv /\ WaitInv
<1>1. /\ toServer = << >> /\ toClient = << >> /\ alive = FALSE /\ srvOut = << >> /\ inBuf = << >> /\ toPut = << >> /\ pc = "idle"
      /\ srv = [Idle EXCEPT !.mode = "login"] /\ fs \in [Path -> InitialValues[server]] /\ server \in Servers
      /\ cl = [childPid |-> FALSE, commandList |-> << >>, fishCommand |-> NoRequest, errorCount |-> 0,
               rawRead |-> 0, rawWrite |-> -1, recvLen |-> -1, sendLen |-> -1, rawData |-> << >>,
               qlist |-> << >>, writeReady |-> TRUE, outBuf |-> << >>, outBusy |-> FALSE,
               isRunning |-> FALSE, hasAppend |-> FALSE, putPos |-> 0, nextId |-> 1]
  BY DEF Init, WireInit, ServerInit, ClientInit
<1>2. srv \in ServerSet /\ srv.mode = "login"
  BY <1>1, IdleFacts DEF ServerSet
<1>3. fs \in [Path -> Value]
  <2>1. InitialValues[server] \subseteq Value
    BY <1>1, ValuesAssumption
  <2> QED
    BY <1>1, <2>1
<1>4. cl \in ConnectionSet
  BY <1>1, IdleFacts, Empties DEF ConnectionSet
<1>5. cl.childPid = FALSE /\ cl.outBuf = << >> /\ cl.qlist = << >> /\ cl.writeReady = TRUE /\ cl.rawWrite = -1
      /\ cl.rawRead = 0 /\ cl.sendLen = -1 /\ cl.commandList = << >> /\ cl.isRunning = FALSE
  BY <1>1
<1>6. FishTypeInv
  BY <1>1, <1>2, <1>3, <1>4, Empties DEF FishTypeInv
<1>7. BufferInv
  BY <1>5 DEF BufferInv
<1>8. CurrentInv
  BY <1>5, Empties DEF CurrentInv, Queue
<1>9. RunInv /\ PhaseInv /\ QuietInv
  BY <1>1, <1>5 DEF RunInv, PhaseInv, QuietInv
<1>10. StaleInv
  BY <1>1, Empties DEF StaleInv, OldLines
<1>11. WaitInv
  BY <1>5 DEF WaitInv, Waiting
<1> QED
  BY <1>6, <1>7, <1>8, <1>9, <1>10, <1>11 DEF FishInv

LEMMA StartJobKeeps ==
  ASSUME FishInv, StaleInv, "perl" \in Servers, StartJob
  PROVE  FishInv' /\ StaleInv'
<1>1. PICK j \in Jobs, d \in PutData \cup {<< >>} : Sensible(j) /\ Ask(j, d)
  BY DEF StartJob
<1>2. /\ UNCHANGED <<wireVars, server, fs, srv, srvOut, cl, inBuf>> /\ pc = "idle" /\ pc' = "open"
      /\ job' = j /\ toPut' = d
  BY <1>1 DEF StartJob, Ask
<1>3. toPut' \in Seq(Portion)
  <2>1. PutData \subseteq Seq(Portion)
    BY ValuesAssumption DEF Portion
  <2> QED
    BY <1>2, <2>1, Empties
<1>4. job' \in JobSet
  <2>1. Ops[server] \subseteq Names
    BY OpsAssumption DEF FishInv, FishTypeInv
  <2> QED
    BY <1>1, <1>2, <2>1 DEF Jobs, Sensible, JobSet
<1>5. FishInv'
  BY <1>2, <1>3, <1>4, TurnKeeps
<1> QED
  BY <1>2, <1>5, StaleStays DEF wireVars

LEMMA ClientKeepsStale ==
  ASSUME FishInv, StaleInv, ClientRun, Elsewhere
  PROVE  StaleInv'
<1>1. srv' = srv
  BY DEF Elsewhere, serverVars
<1>2. CASE SelectWrites
  <2>1. cl'.childPid = cl.childPid /\ cl.childPid = TRUE
    BY <1>2, SelectWritesEffect DEF WriterEffect, WriterKeeps, FishInv, RunInv, SelectWrites, Selecting
  <2> QED
    BY <2>1 DEF StaleInv
<1>3. CASE ~SelectWrites
  <2>1. toServer' = toServer
    BY <1>3 DEF ClientRun, wireVars, OpenConnected, OpenFails, SelectReads, SelectBroken, SelectTimesOut, RunEnds, ParseEnds,
       ReceiveData, ManageText, ManageListing, ManageSize, ManageGo, ManageRefused, ManageDone, ManageStored
  <2> QED
    BY <1>1, <2>1, StaleStays
<1> QED
  BY <1>2, <1>3

(* Nobody comes to wait because of what only moves units along, or writes  *)
(* what is there to write.                                                 *)
LEMMA WaitStays ==
  ASSUME WaitInv, ToCome' = ToCome, Asked => Asked', ToRead # << >> => ToRead' # << >>,
         cl'.childPid = cl.childPid, cl'.isRunning = cl.isRunning, cl'.fishCommand = cl.fishCommand,
         cl'.rawRead = cl.rawRead, cl'.recvLen = cl.recvLen, alive' = alive, srv'.mode = srv.mode
  PROVE  WaitInv'
<1>1. Waiting' = Waiting /\ Reading' = Reading
  BY DEF Waiting, Reading, Current
<1>2. MainWaits => MainWaits'
  BY DEF MainWaits
<1>3. CodeWaits => CodeWaits'
  BY DEF CodeWaits
<1>4. \A i \in Nat : Announces(i)' = Announces(i)
  BY DEF Announces, Current
<1>5. CountInv => CountInv'
  BY <1>1, <1>4 DEF CountInv, DataComes, Current
<1> QED
  BY <1>1, <1>2, <1>3, <1>5 DEF WaitInv

LEMMA WaitNothing ==
  ASSUME WaitInv, UNCHANGED <<inBuf, srvOut, cl, srv>>, UNCHANGED wireVars
  PROVE  WaitInv'
<1>1. ToCome' = ToCome /\ ToRead' = ToRead /\ alive' = alive
  BY DEF ToCome, ToRead, wireVars
<1> QED
  BY <1>1, WaitStays DEF Asked

LEMMA WaitReads ==
  ASSUME FishInv, WaitInv, SelectReads, Elsewhere
  PROVE  WaitInv'
<1>1. inBuf = << >>
  BY DEF SelectReads, Selecting, FishInv, RunInv
<1>2. UNCHANGED <<cl, srv, srvOut, toServer, alive>>
  BY DEF SelectReads, Elsewhere, serverVars
<1>3. ToCome' = ToCome
  BY <1>1, <1>2, Moves DEF FishInv
<1>4. ToRead' = ToRead
  BY <1>2 DEF ToRead
<1> QED
  BY <1>2, <1>3, <1>4, WaitStays DEF Asked

LEMMA WritingKeepsLength ==
  ASSUME NEW s \in ConnectionSet, NEW units
  PROVE  WriteChild(s, units).recvLen = s.recvLen /\ "rawWrite" \in DOMAIN WriteChild(s, units)
                                                   /\ "recvLen" \in DOMAIN WriteChild(s, units)
BY DEF ConnectionSet, WriteChild

LEMMA LengthKept ==
  ASSUME FishInv, SelectWrites
  PROVE  cl'.recvLen = cl.recvLen
<1>1. PICK n \in 0 .. Len(cl.outBuf) :
        LET rest == SubSeq(cl.outBuf, n + 1, Len(cl.outBuf)) IN
        cl' = IF rest = << >> THEN Sent([cl EXCEPT !.outBuf = << >>, !.outBusy = FALSE])
              ELSE [cl EXCEPT !.outBuf = rest]
  BY Zenon DEF SelectWrites
<1> DEFINE s == [cl EXCEPT !.outBuf = << >>, !.outBusy = FALSE]
           w == WriteChild(s, DataUnits(s.rawData))
           x == WriteChild(s, <<Newlines>>)
           q == IF s.qlist = << >> THEN << >> ELSE Tail(s.qlist)
           r == [s EXCEPT !.qlist = q]
<1>2. cl \in ConnectionSet
  BY DEF FishInv, FishTypeInv
<1>3. s \in ConnectionSet /\ s.recvLen = cl.recvLen /\ s.rawWrite \in Nat \cup {-1}
  BY <1>2, Empties DEF ConnectionSet
<1>4. CASE cl' = Sent(s)
  <2> HIDE DEF s
  <2>1. w.recvLen = s.recvLen /\ x.recvLen = s.recvLen /\ "recvLen" \in DOMAIN w /\ "recvLen" \in DOMAIN x
    BY <1>3, WritingKeepsLength
  <2>2. q \in Seq(RequestSet)
    BY <1>3, ConnectionFields, Empties, HeadTailProperties
  <2>3. r \in ConnectionSet /\ r.recvLen = s.recvLen
    <3> HIDE DEF q
    <3> QED
      BY <1>3, <2>2 DEF ConnectionSet
  <2>4. WriteChild(r, Lines(Head(q))).recvLen = r.recvLen
    BY <2>3, WritingKeepsLength
  <2>5. \/ cl' = [w EXCEPT !.rawWrite = @ - Len(s.rawData)] \/ cl' = [x EXCEPT !.rawWrite = -1]
        \/ cl' = [s EXCEPT !.qlist = q, !.writeReady = TRUE] \/ cl' = WriteChild(r, Lines(Head(q)))
    BY <1>3, <1>4 DEF Sent
  <2> HIDE DEF w, x, q, r
  <2>6. [s EXCEPT !.qlist = q, !.writeReady = TRUE].recvLen = s.recvLen
    BY <1>3 DEF ConnectionSet
  <2> QED
    BY <1>3, <2>1, <2>3, <2>4, <2>5, <2>6
<1>5. CASE cl' # Sent(s)
  BY <1>1, <1>2, <1>5 DEF ConnectionSet
<1> QED
  BY <1>4, <1>5

LEMMA WaitWrites ==
  ASSUME FishInv, WaitInv, SelectWrites, Elsewhere
  PROVE  WaitInv'
<1>1. WriterEffect
  BY SelectWritesEffect DEF FishInv
<1>2. UNCHANGED <<inBuf, toClient, alive, srv, srvOut>>
  BY DEF SelectWrites, Elsewhere, serverVars
<1>3. ToCome' = ToCome
  BY <1>2 DEF ToCome
<1>4. ToRead \in Seq(ClientUnit) /\ cl.rawData \in Seq(Portion)
  BY Streams, ConnectionFields DEF FishInv, FishTypeInv
<1>5. (Asked => Asked') /\ (ToRead # << >> => ToRead' # << >>)
  <2>1. ASSUME NEW x \in Seq(ClientUnit), ToRead' = ToRead \o x
        PROVE  (Asked => Asked') /\ (ToRead # << >> => ToRead' # << >>)
    <3>1. ToRead # << >> => ToRead' # << >>
      BY <1>4, <2>1, ConcatEqualIffEmpty
    <3>2. Asked => Asked'
      BY <1>4, <2>1, LineStays DEF Asked
    <3> QED
      BY <3>1, <3>2
  <2>2. ToRead' = ToRead \/ ToRead' = ToRead \o DataUnits(cl.rawData) \/ ToRead' = ToRead \o <<Newlines>>
    BY <1>1 DEF WriterEffect
  <2> QED
    BY <1>4, <2>1, <2>2, DataFacts, OtherUnits DEF Asked
<1> QED
  BY <1>1, <1>2, <1>3, <1>5, LengthKept, WaitStays DEF WriterEffect, WriterKeeps

LEMMA ClientRunKeeps ==
  ASSUME FishInv, WaitInv, ClientRun, Elsewhere
  PROVE  FishInv' /\ WaitInv'
<1>1. UNCHANGED <<server, fs, srv, srvOut>> /\ toPut \in Seq(Portion)
  BY DEF Elsewhere, serverVars, FishInv, FishTypeInv
<1>2. CASE OpenConnected
  BY <1>2, OpenConnectedKeeps
<1>3. CASE OpenFails \/ SelectBroken
  BY <1>3, OpenFailsKeeps
<1>4. CASE SelectWrites
  BY <1>4, SelectWritesKeeps, WaitWrites DEF Elsewhere
<1>5. CASE SelectReads
  BY <1>5, SelectReadsKeeps, WaitReads DEF Elsewhere
<1>6. CASE SelectTimesOut
  <2>1. UNCHANGED <<wireVars, cl, inBuf, pc, job, toPut>>
    BY <1>6 DEF SelectTimesOut, clientVars
  <2> QED
    BY <1>1, <2>1, TurnKeeps, WaitNothing
<1>7. CASE RunEnds
  <2>1. UNCHANGED <<wireVars, cl, inBuf, job, toPut>>
    BY <1>7 DEF RunEnds
  <2> QED
    BY <1>1, <1>7, <2>1, TurnKeeps, WaitNothing
<1>8. CASE ParseEnds
  <2>1. UNCHANGED <<wireVars, cl, inBuf, job, toPut>>
    BY <1>8 DEF ParseEnds, jobVars
  <2> QED
    BY <1>1, <1>8, <2>1, TurnKeeps, WaitNothing
<1>9. CASE ReceiveData
  BY <1>9, ReceiveDataKeeps
<1>10. CASE ManageText
  BY <1>10, ManageTextKeeps
<1>11. CASE ManageListing
  BY <1>11, ManageListingKeeps
<1>12. CASE ManageSize
  BY <1>12, ManageSizeKeeps
<1>13. CASE ManageGo
  BY <1>13, ManageGoKeeps
<1>14. CASE ManageRefused
  BY <1>14, ManageRefusedKeeps
<1>15. CASE ManageDone
  BY <1>15, ManageDoneKeeps
<1>16. CASE ManageStored
  BY <1>16, ManageStoredKeeps
<1> QED
  BY <1>2, <1>3, <1>4, <1>5, <1>6, <1>7, <1>8, <1>9, <1>10, <1>11, <1>12, <1>13, <1>14, <1>15, <1>16 DEF ClientRun

LEMMA ServerKeeps ==
  ASSUME FishInv, StaleInv, ServerNext, UNCHANGED <<clientVars, appVars>>
  PROVE  FishInv' /\ StaleInv'
BY ServerPrintsKeeps, ServerStartsKeeps, ServerReadsCodeKeeps, ServerSkipsKeeps, ServerExecutesKeeps, ServerOpensKeeps,
   ServerCannotOpenKeeps, ServerAsksForDataKeeps, ServerWritesKeeps, ServerEndsWriteKeeps DEF ServerNext

(* Nobody comes to wait because of what the server does: what it prints    *)
(* ends with a status that is not preliminary, or asks for fish.pl.        *)
LEMMA EndOfStream ==
  ASSUME NEW s \in Seq(ServerUnit), NEW t \in Seq(ServerUnit), t # << >>
  PROVE  s \o t # << >> /\ (s \o t)[Len(s \o t)] = t[Len(t)]
<1> DEFINE n == Len(s)
           m == Len(t)
<1>1. n \in Nat /\ m \in Nat \ {0} /\ Len(s \o t) = n + m /\ s \o t # << >>
  BY ConcatProperties, LenProperties, EmptySeq, ConcatEqualIffEmpty
<1>2. n + m \in 1 .. Len(s) + Len(t) /\ ~(n + m <= Len(s)) /\ (n + m) - Len(s) = m
  BY <1>1
<1>3. (s \o t)[n + m] = t[(n + m) - Len(s)]
  BY <1>2, ConcatProperties
<1> QED
  BY <1>1, <1>2, <1>3

LEMMA ReplyEnds ==
  ASSUME NEW id \in Nat, NEW r, GoodReply(r)
  PROVE  Ends(Printed(id, r)) /\ Printed(id, r) \in Seq(ServerUnit)
<1> DEFINE t == Printed(id, r)
<1>1. /\ t \in Seq(ServerUnit) /\ Len(t) = Len(r) /\ Len(r) \in Nat
      /\ \A i \in 1 .. Len(r) : t[i].k = r[i][1] /\ t[i].v = r[i][2]
  BY PrintedFacts
<1>2. r \in Seq(ReplyUnit) /\ r # << >> /\ r[Len(r)][1] = "status" /\ r[Len(r)][2] # 100
  BY DEF GoodReply
<1> HIDE DEF t
<1>3. Len(r) \in 1 .. Len(r) /\ t # << >>
  <2>1. Len(r) # 0
    BY <1>2, EmptySeq
  <2> QED
    BY <1>1, <2>1, Empties
<1>4. IsFinal(t[Len(t)])
  BY <1>1, <1>2, <1>3 DEF IsFinal
<1> QED
  BY <1>1, <1>3, <1>4 DEF Ends, t

LEMMA ReplyOnItsWay ==
  ASSUME FishInv, srvOut = << >>, UNCHANGED <<inBuf, toClient>>, srvOut' \in Seq(ServerUnit), Ends(srvOut')
  PROVE  Ends(ToCome')
<1>1. ToCome \in Seq(ServerUnit) /\ ToCome' = ToCome \o srvOut'
  BY Answers, Streams DEF FishInv
<1>2. srvOut' # << >>
  BY DEF Ends
<1> QED
  BY <1>1, <1>2, EndOfStream DEF Ends

LEMMA NotReading ==
  ASSUME FishInv, cl.childPid = TRUE, alive = TRUE, srv.mode # "main"
  PROVE  ~Reading
<1>1. LoginPhase \/ CodePhase \/ AltPhase \/ DataPhase
  BY DEF FishInv, PhaseInv
<1> QED
  BY <1>1 DEF LoginPhase, CodePhase, AltPhase, DataPhase, Reading, Writing

LEMMA ServerWaits ==
  ASSUME FishInv, StaleInv, WaitInv, ServerNext, UNCHANGED <<clientVars, appVars>>
  PROVE  WaitInv'
<1>1. UNCHANGED <<cl, inBuf>> /\ Current' = Current /\ Reading' = Reading
  BY DEF clientVars, Current, Reading
<1>2. alive = TRUE /\ alive' = alive /\ server' = server /\ server = "perl"
  BY DEF ServerNext, ServerPrints, ServerStarts, ServerReadsCode, ServerSkips, ServerExecutes, ServerOpens, ServerCannotOpen,
         ServerAsksForData, ServerWrites, ServerEndsWrite, Reads, serverVars, wireVars, FishInv, FishTypeInv
<1>3. Waiting' = Waiting
  BY <1>1, <1>2 DEF Waiting, Current
<1>4. SUFFICES ASSUME Waiting PROVE WaitInv'
  BY <1>3 DEF WaitInv
<1>5. MainWaits /\ CodeWaits /\ CountInv /\ cl.childPid = TRUE
  BY <1>4 DEF WaitInv, Waiting
<1>6. srv.mode # "main" => ~Reading
  BY <1>2, <1>5, NotReading
<1>7. ASSUME ~Reading, srv'.mode \notin {"main", "code"} PROVE WaitInv'
  BY <1>1, <1>7 DEF WaitInv, MainWaits, CodeWaits, CountInv
<1>8. ASSUME NEW id \in Nat, NEW r, GoodReply(r), srvOut' = Printed(id, r), srvOut = << >>, toClient' = toClient, srv'.mode = "main",
             CountInv'
      PROVE  WaitInv'
  <2>1. Ends(ToCome')
    BY <1>1, <1>8, ReplyEnds, ReplyOnItsWay
  <2> QED
    BY <1>8, <2>1 DEF WaitInv, MainWaits, CodeWaits
<1>9. ~Reading => CountInv'
  BY <1>1 DEF CountInv
<1>10. Current \in RequestSet /\ Current.id \in Nat /\ srv.c.id \in Nat /\ Idle.mode = "main"
  BY ConnectionFields, IdleFacts DEF FishInv, FishTypeInv, Current, ServerSet, RequestSet
<1>11. CASE ServerPrints
  <2>1. UNCHANGED <<srv, toServer>> /\ ToCome' = ToCome
    BY <1>1, <1>11, Moves DEF ServerPrints, FishInv
  <2>2. ToRead' = ToRead
    BY <1>1, <2>1 DEF ToRead
  <2> QED
    BY <1>1, <1>2, <2>1, <2>2, WaitStays DEF Asked
<1>12. CASE ServerStarts
  <2> DEFINE c == Head(toServer).c
             x == Unit("blank", 0, c.id)
             y == Unit("status", 200, c.id)
             z == Unit("status", 100, c.id)
             done == Printed(c.id, <<Blank, Status(200)>>)
             wanted == Printed(c.id, <<Blank, Status(100)>>)
  <2>1. /\ srv.mode = "login" /\ Reads("alt")
        /\ \/ srv' = Idle /\ srvOut' = <<x, y>>
           \/ srv'.mode = "code" /\ srvOut' = <<x, z>>
    <3>1. /\ srv.mode = "login" /\ Reads("alt")
          /\ \/ srv' = Idle /\ srvOut' = done
             \/ srv' = [Idle EXCEPT !.mode = "code", !.c = c] /\ srvOut' = wanted
      BY <1>12 DEF ServerStarts
    <3>2. done = <<x, y>> /\ wanted = <<x, z>>
      BY DEF Printed, Blank, Status
    <3>3. [Idle EXCEPT !.mode = "code", !.c = c].mode = "code"
      BY DEF Idle
    <3> HIDE DEF x, y, z, done, wanted, c
    <3> QED
      BY <3>1, <3>2, <3>3
  <2> HIDE DEF done, wanted
  <2>2. ~Reading /\ srvOut = << >> /\ toClient' = toClient
    BY <1>6, <2>1 DEF Reads
  <2>3. c.id \in Nat
    <3>1. Head(toServer) \in ClientUnit /\ Head(toServer).u = "alt"
      BY <1>1, <2>1, ServerTakes DEF FishInv
    <3> QED
      BY <3>1 DEF ClientUnit, RequestSet
  <2>4. x \in ServerUnit /\ y \in ServerUnit /\ z \in ServerUnit /\ IsFinal(y) /\ IsGo(z)
    BY <2>3 DEF Unit, ServerUnit, Line, IsFinal, IsGo
  <2> HIDE DEF x, y, z
  <2>5. /\ <<x, y>> \in Seq(ServerUnit) /\ <<x, y>> # << >> /\ <<x, y>>[Len(<<x, y>>)] = y
        /\ <<x, z>> \in Seq(ServerUnit) /\ <<x, z>> # << >> /\ <<x, z>>[Len(<<x, z>>)] = z
    BY <2>4
  <2>6. CASE srv' = Idle /\ srvOut' = <<x, y>>
    <3>1. Ends(srvOut') /\ srvOut' \in Seq(ServerUnit)
      BY <2>4, <2>5, <2>6 DEF Ends
    <3>2. Ends(ToCome')
      BY <1>1, <2>2, <3>1, ReplyOnItsWay
    <3> QED
      BY <1>9, <1>10, <2>2, <2>6, <3>2 DEF WaitInv, MainWaits, CodeWaits
  <2>7. CASE srv'.mode = "code" /\ srvOut' = <<x, z>>
    <3>1. ToCome \in Seq(ServerUnit) /\ ToCome' = ToCome \o srvOut'
      BY <1>1, <2>2, <2>5, <2>7, Answers, Streams DEF FishInv
    <3>2. ToCome' # << >> /\ ToCome'[Len(ToCome')] = z
      BY <2>5, <2>7, <3>1, EndOfStream
    <3> QED
      BY <1>9, <2>2, <2>4, <2>7, <3>2 DEF WaitInv, MainWaits, CodeWaits
  <2> QED
    BY <2>1, <2>6, <2>7
<1>13. CASE ServerReadsCode
  <2>1. srv.mode = "code" /\ Reads("code") /\ srv' = Idle /\ srvOut' = Printed(srv.c.id, <<Status(200)>>)
    BY <1>13 DEF ServerReadsCode
  <2>2. ~Reading /\ srvOut = << >> /\ toClient' = toClient
    BY <1>6, <2>1 DEF Reads
  <2> QED
    BY <1>8, <1>9, <1>10, <2>1, <2>2, KnownReplies
<1>14. CASE ServerSkips
  <2>1. PICK u \in {"line", "alt", "newlines"} : u # (IF srv.mode = "login" THEN "alt" ELSE Understood) /\ Reads(u)
    BY <1>14 DEF ServerSkips
  <2>2. UNCHANGED <<srv, srvOut>> /\ srv.mode \in {"main", "login"}
    BY <1>14 DEF ServerSkips, serverVars
  <2>3. CASE srv.mode = "login"
    BY <1>6, <1>7, <2>2, <2>3
  <2>4. CASE srv.mode = "main"
    <3>1. u # "line"
      BY <1>2, <2>1, <2>4 DEF Understood
    <3>2. /\ Head(toServer).u = u /\ Head(toServer) = ToRead[1] /\ Len(ToRead) \in Nat \ {0} /\ Len(ToRead') = Len(ToRead) - 1
          /\ \A i \in 1 .. Len(ToRead') : ToRead'[i] = ToRead[i + 1]
          /\ ToCome' = ToCome
      <4>1. srvOut' \in Seq(ServerUnit) /\ srvOut' = << >>
        BY <2>1, <2>2 DEF Reads, FishInv, FishTypeInv
      <4> QED
        BY <1>2, <2>1, <4>1, UnitRead
    <3>3. ASSUME Asked PROVE Asked'
      <4>1. PICK i \in 1 .. Len(ToRead) : ToRead[i].u = "line"
        BY <3>3 DEF Asked
      <4>2. i # 1
        BY <3>1, <3>2, <4>1
      <4>3. i - 1 \in 1 .. Len(ToRead') /\ (i - 1) + 1 = i
        BY <3>2, <4>2
      <4>4. ToRead'[i - 1].u = "line"
        BY <3>2, <4>1, <4>3
      <4> QED
        BY <4>3, <4>4 DEF Asked
    <3>4. MainWaits'
      BY <1>5, <2>2, <2>4, <3>2, <3>3 DEF MainWaits
    <3>5. \A i \in Nat : Announces(i)' = Announces(i)
      BY <1>1, <3>2 DEF Announces
    <3>6. CountInv'
      BY <1>1, <1>5, <3>2, <3>5 DEF CountInv, DataComes
    <3> QED
      BY <2>2, <2>4, <3>4, <3>6 DEF WaitInv, CodeWaits
  <2> QED
    BY <2>2, <2>3, <2>4
<1>15. CASE ServerExecutes
  <2> DEFINE c == Head(toServer).c
  <2>1. /\ srv.mode = "main" /\ Reads(Understood) /\ UNCHANGED <<clientVars, server, srv>> /\ c.name \notin Writing
        /\ \E o \in Outcomes(c) : fs' = o.fs /\ srvOut' = Printed(c.id, o.reply)
    BY <1>15 DEF ServerExecutes
  <2>2. PICK o \in PerlOutcomes(c) : srvOut' = Printed(c.id, o.reply)
    BY <1>2, <2>1 DEF Outcomes
  <2>3. c \in RequestSet /\ c.name \notin {"none", "FISH"} /\ c.id \in Nat
    <3>1. Head(toServer) \in ClientUnit /\ Head(toServer).u = "line" /\ toServer # << >> /\ OldLines /\ toServer \in Seq(ClientUnit)
      BY <1>1, <1>2, <2>1, ServerTakes, OldLinesFacts DEF FishInv, FishTypeInv, Understood, Reads
    <3>2. 1 \in 1 .. Len(toServer) /\ Head(toServer) = toServer[1]
      BY <3>1, TailOfUnits
    <3> QED
      BY <2>1, <3>1, <3>2 DEF OldLines, ClientUnit, RequestSet
  <2> DEFINE r == o.reply
  <2>4. fs \in [Path -> Value] /\ GoodReply(r)
    BY <2>1, <2>2, <2>3, OutcomesGood DEF FishInv, FishTypeInv, GoodOutcome
  <2>5. c.name \in {"RETR", "READ"} => Sized(c.name, r)
    <3>1. c.name \in {"RETR", "READ"} => o \in PerlRead(c)
      BY <2>2 DEF PerlOutcomes, Acting
    <3> QED
      BY <2>3, <2>4, <3>1, ReadSized
  <2> HIDE DEF c, r
  <2>6. srvOut' \in Seq(ServerUnit) /\ srvOut' = Printed(c.id, r)
    BY <2>2, <2>3, <2>4, ReplyEnds DEF c, r
  <2>7. c = Current /\ ToCome' = srvOut' /\ srvOut = << >> /\ toClient' = toClient
    BY <1>5, <2>1, <2>6, CommandRead DEF c, Reads
  <2>8. ToCome = << >>
    <3>1. CommandPhase \/ ReplyPhase
      BY <1>2, <1>5, <2>1 DEF FishInv, PhaseInv
    <3>2. ToRead[1].u = "line" /\ 1 \in 1 .. Len(ToRead)
      <4>1. Head(ToRead).u = "line" /\ Head(toServer) = ToRead[1] /\ 1 <= Len(ToRead) /\ Head(ToRead) = Head(toServer) /\ Len(ToRead) \in Nat
        BY <1>1, <1>2, <2>1, ServerTakes, Streams, LenProperties DEF FishInv, Understood
      <4> QED
        BY <4>1
    <3> QED
      BY <3>1, <3>2 DEF CommandPhase, ReplyPhase, IsNoise
  <2>9. CountInv'
    <3>1. SUFFICES ASSUME Reading PROVE CountInv'
      BY <1>9
    <3>2. Sized(Current.name, r) /\ cl.rawRead \in Nat
      BY <2>5, <2>7, <3>1, ConnectionFields DEF Reading, FishInv, FishTypeInv
    <3>3. ~(cl'.rawRead > 0)
      <4>1. Len(ToCome) = 0
        BY <2>8, Empties
      <4> QED
        BY <1>1, <1>5, <3>1, <3>2, <4>1 DEF CountInv
    <3>4. /\ Len(ToCome') = Len(r) /\ Len(r) \in Nat
          /\ \A i \in 1 .. Len(r) : ToCome'[i].k = r[i][1] /\ ToCome'[i].v = r[i][2]
      BY <2>3, <2>4, <2>6, <2>7, PrintedFacts
    <3>5. \A i \in 1 .. Len(r) : IsGo(ToCome'[i]) <=> IsGoReply(r[i])
      BY <3>4 DEF IsGo, IsGoReply
    <3>6. ASSUME NEW i \in 1 .. Len(r), IsGoReply(r[i]) PROVE DataComes(i)'
      <4>1. /\ Len(r) > i + (IF Current.name = "READ" THEN MimeBytes ELSE r[i - 1][2])
            /\ Current.name = "RETR" => i # 1 /\ r[i - 1][1] = "number"
            /\ \A j \in 1 .. Len(r) : IsGoReply(r[j]) => j = i
        BY <3>2, <3>6 DEF Sized
      <4>2. CASE Current.name = "READ"
        BY <1>1, <3>4, <3>5, <4>1, <4>2 DEF DataComes, Announces
      <4>3. CASE Current.name = "RETR"
        <5>1. i # 1 /\ i - 1 \in 1 .. Len(r)
          BY <3>4, <4>1, <4>3
        <5>2. ToCome'[i - 1].k = r[i - 1][1] /\ ToCome'[i - 1].v = r[i - 1][2]
          BY <3>4, <5>1
        <5> QED
          BY <1>1, <3>4, <3>5, <4>1, <4>3, <5>1, <5>2 DEF DataComes, Announces
      <4> QED
        BY <3>1, <4>2, <4>3 DEF Reading
    <3> QED
      BY <3>3, <3>4, <3>5, <3>6 DEF CountInv
  <2> QED
    BY <1>8, <2>1, <2>3, <2>4, <2>6, <2>7, <2>9
<1>16. CASE ServerOpens \/ ServerCannotOpen
  <2> DEFINE c == Head(toServer).c
  <2>1. srv.mode = "main" /\ Reads(Understood) /\ c.name \in Writing
    BY <1>16 DEF ServerOpens, ServerCannotOpen
  <2>2. (srvOut' = << >> /\ srv'.mode = "alt") \/ (srvOut' = Printed(c.id, <<Status(400)>>) /\ srv' = srv)
    <3>1. CASE ServerOpens
      <4> DEFINE m == IF server = "perl" THEN "alt" ELSE "data"
                 f == IF c.name = "STOR" \/ fs[c.p] = Absent THEN << >> ELSE fs[c.p]
                 at == IF c.name = "APPEND" THEN Len(f) ELSE c.at
                 out == IF server = "perl" THEN << >> ELSE Printed(c.id, <<Status(1)>>)
      <4>1. srv' = [mode |-> m, c |-> c, left |-> c.n, pos |-> at, error |-> FALSE] /\ srvOut' = out
        BY Zenon, <3>1 DEF ServerOpens
      <4>2. m = "alt" /\ out = << >>
        BY <1>2
      <4> HIDE DEF m, at, c
      <4> QED
        BY <4>1, <4>2
    <3>2. CASE ServerCannotOpen
      <4> DEFINE r == IF server = "perl" THEN <<Status(400)>> ELSE <<Text, Status(1)>>
                 s == IF server = "perl" THEN srv
                      ELSE [mode |-> "data", c |-> c, left |-> c.n, pos |-> 0, error |-> TRUE]
      <4>1. srv' = s /\ srvOut' = Printed(c.id, r)
        BY Zenon, <3>2 DEF ServerCannotOpen
      <4>2. s = srv /\ r = <<Status(400)>>
        BY <1>2
      <4> HIDE DEF s, r, c
      <4> QED
        BY <4>1, <4>2
    <3> QED
      BY <1>16, <3>1, <3>2
  <2>3. c.id \in Nat
    <3>1. Head(toServer) \in ClientUnit /\ Head(toServer).u = "line"
      BY <1>1, <1>2, <2>1, ServerTakes DEF FishInv, Understood
    <3> QED
      BY <3>1 DEF ClientUnit, RequestSet
  <2> HIDE DEF c
  <2>4. srvOut' \in Seq(ServerUnit)
    BY ZenonT(90), <2>2, <2>3, KnownReplies, ReplyEnds, Empties
  <2>5. c = Current
    BY <1>2, <1>5, <2>1, <2>4, CommandRead DEF c
  <2>6. ~Reading /\ srvOut = << >> /\ toClient' = toClient
    BY <2>1, <2>5 DEF Reading, Writing, Reads
  <2> QED
    BY <1>7, <1>8, <1>9, <2>1, <2>2, <2>3, <2>6, KnownReplies
<1>17. CASE ServerAsksForData \/ ServerWrites
  <2>1. srv.mode # "main" /\ srv'.mode = "data"
    BY <1>17 DEF ServerAsksForData, ServerWrites, FishInv, FishTypeInv, ServerSet
  <2> QED
    BY <1>6, <1>7, <2>1
<1>18. CASE ServerEndsWrite
  <2>1. /\ srv.mode = "data" /\ srv' = Idle /\ srvOut = << >> /\ toClient' = toClient
        /\ srvOut' = Printed(srv.c.id, <<Status(200)>>) \/ srvOut' = Printed(srv.c.id, <<Status(500)>>)
    <3>1. srv.error \in BOOLEAN
      BY DEF FishInv, FishTypeInv, ServerSet
    <3> QED
      BY <1>2, <1>18, <3>1 DEF ServerEndsWrite, wireVars
  <2> QED
    BY <1>6, <1>8, <1>9, <1>10, <2>1, KnownReplies
<1> QED
  BY <1>11, <1>12, <1>13, <1>14, <1>15, <1>16, <1>17, <1>18 DEF ServerNext

LEMMA FishStep ==
  ASSUME FishInv, StaleInv, WaitInv, "perl" \in Servers, [Next]_vars
  PROVE  FishInv' /\ StaleInv' /\ WaitInv'
<1>1. CASE StartJob
  <2>1. UNCHANGED <<inBuf, srvOut, cl, srv, wireVars>>
    BY <1>1 DEF StartJob, Ask
  <2> QED
    BY <1>1, <2>1, StartJobKeeps, WaitNothing
<1>2. CASE Connect
  <2>1. toServer' = << >>
    BY <1>2 DEF Connect, OpenConnects
  <2> QED
    BY <1>2, <2>1, ConnectKeeps, Empties DEF StaleInv, OldLines
<1>3. CASE ClientRun /\ Elsewhere
  BY <1>3, ClientRunKeeps, ClientKeepsStale
<1>4. CASE ServerSteps
  BY <1>4, ServerKeeps, ServerWaits DEF ServerSteps
<1>5. CASE ConnectionBreaks
  <2>1. toServer' = << >>
    BY <1>5 DEF ConnectionBreaks
  <2>2. WaitInv'
    BY <1>5 DEF ConnectionBreaks, WaitInv, Waiting
  <2> QED
    BY <1>5, <2>1, <2>2, BreakKeeps, Empties DEF StaleInv, OldLines
<1>6. CASE UNCHANGED vars
  <2>1. UNCHANGED <<wireVars, server, fs, srv, srvOut, cl, inBuf, pc, job, toPut, toServer>> /\ toPut \in Seq(Portion)
    BY <1>6 DEF vars, serverVars, clientVars, wireVars, FishInv, FishTypeInv
  <2>2. FishInv'
    BY <2>1, TurnKeeps
  <2> QED
    BY <2>1, <2>2, StaleStays, WaitNothing
<1> QED
  BY <1>1, <1>2, <1>3, <1>4, <1>5, <1>6 DEF Next, ClientSteps, AllDone, Elsewhere

LEMMA StepsInStep == ASSUME FishInv PROVE InStep
<1>1. RepliesInStep
  BY UnitFacts DEF RepliesInStep, Current
<1>2. ASSUME server = "perl", alive, cl.childPid, toServer # << >>, srvOut = << >>
      PROVE  (Head(toServer).u = "data") = (srv.mode = "data" /\ srv.left > 0)
  <2>1. alive = TRUE /\ cl.childPid = TRUE /\ Current \in RequestSet /\ srv.left \in Nat /\ cl.outBuf \in Seq(ClientUnit)
    BY <1>2, ConnectionFields DEF FishInv, FishTypeInv, Current, ServerSet
  <2>2. /\ toServer \in Seq(ClientUnit) /\ Head(toServer) = toServer[1] /\ Len(toServer) \in Nat \ {0}
    BY <1>2, TailOfUnits DEF FishInv, FishTypeInv
  <2>3. ToRead # << >> /\ Head(toServer) = ToRead[1] /\ Len(ToRead) \in Nat \ {0}
    <3>1. ToRead \in Seq(ClientUnit) /\ ToRead # << >> /\ ToRead[1] = toServer[1]
      BY <1>2, <2>2, Streams DEF FishInv
    <3> QED
      BY <2>2, <3>1, EmptySeq
  <2>4. CASE srv.mode = "login" /\ LoginPhase
    BY <2>1, <2>3, <2>4, LinesFacts DEF LoginPhase
  <2>5. CASE srv.mode = "code" /\ CodePhase
    BY <2>3, <2>5, OtherUnits DEF CodePhase
  <2>6. CASE srv.mode = "alt" /\ AltPhase
    BY <2>1, <2>3, <2>6, LinesFacts DEF AltPhase
  <2>7. CASE srv.mode = "data" /\ DataPhase
    <3>1. /\ \A i \in 1 .. srv.left : ToRead[i].u = "data"
          /\ \A i \in srv.left + 1 .. Len(ToRead) : IsNoise(ToRead[i])
      BY <2>3, <2>7 DEF DataPhase
    <3>2. CASE srv.left > 0
      BY <2>1, <2>3, <2>7, <3>1, <3>2
    <3>3. CASE srv.left = 0
      BY <2>3, <3>1, <3>3 DEF IsNoise
    <3> QED
      BY <2>1, <3>2, <3>3
  <2>8. CASE srv.mode = "main" /\ CommandPhase
    <3>1. Len(ToRead) = 2 => ToRead[1] = CommandLine(Current)
      <4> SUFFICES ASSUME Len(ToRead) = 2 PROVE ToRead[1] = CommandLine(Current)
        OBVIOUS
      <4>1. Len(ToRead) - 1 = 1
        OBVIOUS
      <4> QED
        BY <2>8, <4>1 DEF CommandPhase
    <3>2. Len(ToRead) # 2 => IsNoise(ToRead[1])
      <4> DEFINE n == Len(ToRead)
      <4>1. n \in Nat /\ n >= 2 /\ \A i \in 1 .. n - 2 : IsNoise(ToRead[i])
        BY <2>3, <2>8 DEF CommandPhase
      <4> HIDE DEF n
      <4>2. n # 2 => 1 \in 1 .. n - 2
        BY <4>1
      <4> QED
        BY <4>1, <4>2 DEF n
    <3> QED
      BY <2>1, <2>3, <2>8, <3>1, <3>2, LinesFacts DEF IsNoise
  <2>9. CASE srv.mode = "main" /\ ReplyPhase
    BY <2>3, <2>9 DEF ReplyPhase, IsNoise
  <2> QED
    BY <2>1, <2>4, <2>5, <2>6, <2>7, <2>8, <2>9 DEF FishInv, PhaseInv
<1>3. StreamInStep
  BY <1>2 DEF StreamInStep
<1> QED
  BY <1>1, <1>3 DEF InStep

(* Every unit of a reply of fish.pl is handled as a unit of the reply to   *)
(* the current command; and wherever fish.pl expects commands, the next    *)
(* thing it reads is none of the file's data, and wherever it expects      *)
(* data it is data: after refused commands, short reads and writes, lost   *)
(* connections and new ones, and in whatever order the application asks.   *)
THEOREM FishInStep == Spec /\ server = "perl" => []InStep
<1> DEFINE Inv == FishInv /\ StaleInv /\ WaitInv /\ "perl" \in Servers
<1>1. Init /\ server = "perl" => Inv
  BY FishInit DEF Init, ServerInit
<1>2. Inv /\ [Next]_vars => Inv'
  BY FishStep
<1>3. Inv => InStep
  BY StepsInStep
<1> QED
  BY <1>1, <1>2, <1>3, PTL DEF Spec

LEMMA StepsWait == ASSUME FishInv, WaitInv PROVE Current.name # "EXEC" => NobodyWaits
<1> SUFFICES ASSUME Current.name # "EXEC", Selecting, alive, ~cl.outBusy, toClient = << >>, srvOut = << >>, toServer = << >>
             PROVE  srv.mode = "data" /\ srv.left = 0
  BY DEF NobodyWaits
<1>1. alive = TRUE /\ cl.isRunning = TRUE /\ cl.outBusy = FALSE /\ cl \in ConnectionSet /\ srv.left \in Nat
  BY ConnectionFields DEF Selecting, FishInv, FishTypeInv, ServerSet
<1>2. cl.childPid = TRUE /\ inBuf = << >> /\ cl.outBuf = << >>
  BY <1>1 DEF Selecting, FishInv, RunInv, BufferInv
<1>3. ToRead = << >> /\ ToCome = << >> /\ Len(ToRead) = 0
  BY <1>2, Empties, ConcatProperties DEF ToRead, ToCome
<1>4. MainWaits /\ CodeWaits
  BY <1>1, <1>2 DEF WaitInv, Waiting
<1>5. srv.mode # "main" /\ srv.mode # "code"
  <2>1. ~Ends(ToCome)
    BY <1>3 DEF Ends
  <2>2. ~Asked
    BY <1>3 DEF Asked
  <2> QED
    BY <1>3, <1>4, <2>1, <2>2 DEF MainWaits, CodeWaits
<1>6. ~LoginPhase /\ ~AltPhase
  BY <1>3 DEF LoginPhase, AltPhase, Lines
<1>7. ASSUME DataPhase PROVE srv.left = 0
  <2>2. Printed(Current.id, <<Status(100)>>) # << >>
    <3> DEFINE g == Status(100)
               u(i) == Unit(<<g>>[i][1], <<g>>[i][2], Current.id)
    <3>1. Printed(Current.id, <<g>>) = [i \in 1 .. 1 |-> u(i)]
      BY DEF Printed
    <3> HIDE DEF u
    <3>2. DOMAIN [i \in 1 .. 1 |-> u(i)] = 1 .. 1 /\ 1 \in 1 .. 1 /\ DOMAIN << >> = 1 .. 0 /\ 1 \notin 1 .. 0
      OBVIOUS
    <3> QED
      BY <3>1, <3>2
  <2>3. ~(cl.rawWrite > 0)
    BY <1>1 DEF FishInv, BufferInv
  <2> QED
    BY <1>1, <1>3, <1>7, <2>2, <2>3 DEF DataPhase
<1> QED
  BY <1>1, <1>2, <1>5, <1>6, <1>7 DEF FishInv, PhaseInv

(* While the client waits in select() the server has something for it, or  *)
(* something of the client's still to read, or a write to end: not one of  *)
(* the two ever waits for the other in vain, whatever was refused, cut     *)
(* short or lost before.  The one exception is EXEC: when it is refused    *)
(* manageConnection() leaves it current and waits for more.                *)
THEOREM FishNobodyWaits == Spec /\ server = "perl" => [](cl.fishCommand.name # "EXEC" => NobodyWaits)
<1> DEFINE Inv == FishInv /\ StaleInv /\ WaitInv /\ "perl" \in Servers
<1>1. Init /\ server = "perl" => Inv
  BY FishInit DEF Init, ServerInit
<1>2. Inv /\ [Next]_vars => Inv'
  BY FishStep
<1>3. Inv => (cl.fishCommand.name # "EXEC" => NobodyWaits)
  BY StepsWait DEF Current
<1> QED
  BY <1>1, <1>2, <1>3, PTL DEF Spec
=============================================================================
