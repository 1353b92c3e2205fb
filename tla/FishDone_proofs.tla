--------------------------- MODULE FishDone_proofs ---------------------------
(***************************************************************************)
(* Proofs about what the operations of Fish do, for a connection to        *)
(* fish.pl and every size of the streams, set of paths, contents and       *)
(* number of jobs: what passes was done, what was not to be overwritten is *)
(* still there, and a file gets and puts byte for byte, whatever fails and *)
(* wherever reads and writes are cut.  The invariants of Fish_proofs say   *)
(* which reply belongs to which command; these add what the commands of a  *)
(* job are, and what the files hold at each point of a reply.              *)
(***************************************************************************)
EXTENDS Fish_proofs

-----------------------------------------------------------------------------
(* What is done is what was asked: what the commands of a job are.         *)

Prelude == {"FISH", "VER", "LIST"}
Working == pc \in {"select", "parse"} /\ cl.isRunning = TRUE
Passing == (pc \in {"select", "parse"} /\ cl.isRunning = FALSE) \/ (pc = "idle" /\ result = "pass")
Guarded == job.op \in {"put", "rename", "symlink", "copy"} /\ job.overwrite = FALSE

(* Nothing is left to the server when no job is under way.                 *)
Noise(units) == \A i \in 1 .. Len(units) : IsNoise(units[i])
RestInv == cl.isRunning = FALSE /\ alive = TRUE => srv.mode = "main" /\ Noise(toServer)

(* The commands of a job are about its paths, and in order: what is to be  *)
(* checked is listed first, and the one that counts comes last.            *)
Fits(c) ==
  /\ job.op = "get" => c.name \in {"FISH", "VER", "RETR"} /\ (c.name = "RETR" => c.p = job.p)
  /\ job.op = "put" =>
       c.name \in {"FISH", "VER", "LIST", "CHMOD"} \cup Writing /\ (c.name \notin {"FISH", "VER"} => c.p = job.p)
  /\ job.op \in {"rename", "symlink", "copy"} =>
       /\ c.name \in {"FISH", "VER", "LIST", "CHMOD", "RENAME", "SYMLINK", "COPY"}
       /\ c.name = "RENAME" => c.p = job.p /\ job.op = "rename"
       /\ c.name = "LIST" => c.p = Target
AllFit(list) == \A i \in 1 .. Len(list) : Fits(list[i])
EndsWith(list, name, early) ==
  /\ list # << >> /\ list[Len(list)].name = name
  /\ \A i \in 1 .. Len(list) : i < Len(list) => list[i].name \in early
Listed(list) == \E j \in 1 .. Len(list) : list[j].name = "LIST"
ListedFirst(list) ==
  \A i \in 1 .. Len(list) : list[i].name \notin Prelude => \E j \in 1 .. Len(list) : j < i /\ list[j].name = "LIST"
Plan(list) ==
  /\ AllFit(list)
  /\ job.op = "get" => EndsWith(list, "RETR", {"FISH", "VER"})
  /\ job.op = "put" => EndsWith(list, "STOR", Prelude)
Ordered ==
  /\ job.op = "get" =>
       IF Current.name = "RETR" THEN cl.commandList = << >> ELSE EndsWith(cl.commandList, "RETR", {"FISH", "VER"})
  /\ job.op = "put" =>
       IF Current.name \in Prelude THEN EndsWith(cl.commandList, "STOR", Prelude) ELSE cl.commandList = << >>
PlanInv ==
  /\ pc # "idle" => job \in JobSet /\ job.p # job.q
  /\ Working =>
       /\ Current.name # "none" /\ Fits(Current) /\ AllFit(cl.commandList) /\ Ordered
       /\ job.op = "listDir" => listReason = "LIST"
       /\ Guarded => listReason = "CHECK" /\ checkOverwrite = FALSE

(* A command is put behind others.                                         *)
Behind(m, l, c) ==
  /\ m \in Seq(RequestSet) /\ m # << >> /\ Len(m) = Len(l) + 1 /\ m[Len(m)] = c
  /\ \A i \in 1 .. Len(l) : m[i] = l[i]

LEMMA PlanGrows ==
  ASSUME NEW l \in Seq(RequestSet), NEW c \in RequestSet, NEW m, Behind(m, l, c), Fits(c), AllFit(l)
  PROVE  /\ AllFit(m)
         /\ \A early : (\A i \in 1 .. Len(l) : l[i].name \in early) => EndsWith(m, c.name, early)
         /\ c.name = "LIST" => Listed(m)
         /\ ListedFirst(l) /\ (c.name \in Prelude \/ Listed(l)) => ListedFirst(m)
         /\ Listed(l) => Listed(m)
<1> DEFINE n == Len(l)
           k == Len(m)
<1>1. n \in Nat /\ k \in Nat /\ k = n + 1 /\ m[k] = c /\ m # << >> /\ \A i \in 1 .. n : m[i] = l[i]
  BY LenProperties DEF Behind
<1>2. \A i \in 1 .. k : i = k \/ (i \in 1 .. n /\ i < k /\ m[i] = l[i])
  BY <1>1
<1>3. \A i \in 1 .. n : i \in 1 .. k /\ i < k /\ m[i] = l[i]
  BY <1>1
<1>4. k \in 1 .. k
  BY <1>1
<1>5. AllFit(m)
  BY <1>1, <1>2 DEF AllFit
<1>6. ASSUME NEW early, \A i \in 1 .. Len(l) : l[i].name \in early PROVE EndsWith(m, c.name, early)
  <2>1. \A i \in 1 .. k : i < k => m[i].name \in early
    BY <1>1, <1>2, <1>6
  <2> QED
    BY <1>1, <2>1 DEF EndsWith
<1>7. c.name = "LIST" => Listed(m)
  BY <1>1, <1>4 DEF Listed
<1>8. Listed(l) => Listed(m)
  BY <1>3 DEF Listed
<1>9. ASSUME ListedFirst(l), c.name \in Prelude \/ Listed(l) PROVE ListedFirst(m)
  <2> SUFFICES ASSUME NEW i \in 1 .. k, m[i].name \notin Prelude
               PROVE  \E j \in 1 .. k : j < i /\ m[j].name = "LIST"
    BY DEF ListedFirst
  <2>1. CASE i = k
    <3>1. PICK j \in 1 .. n : l[j].name = "LIST"
      BY <1>1, <1>9, <2>1 DEF Listed
    <3> QED
      BY <1>3, <2>1, <3>1
  <2>2. CASE i # k
    <3>1. i \in 1 .. n /\ m[i] = l[i]
      BY <1>2, <2>2
    <3>2. PICK j \in 1 .. n : j < i /\ l[j].name = "LIST"
      BY <1>9, <3>1 DEF ListedFirst
    <3> QED
      BY <1>3, <3>2
  <2> QED
    BY <2>1, <2>2
<1> QED
  BY <1>5, <1>6, <1>7, <1>8, <1>9

LEMMA ListGrows ==
  ASSUME NEW l \in Seq(RequestSet), NEW c \in RequestSet, NEW m, Behind(m, l, c), Fits(c), AllFit(l), ListedFirst(l),
         c.name = "LIST"
  PROVE  m \in Seq(RequestSet) /\ AllFit(m) /\ Listed(m) /\ ListedFirst(m)
<1>1. c.name \in Prelude
  BY DEF Prelude
<1>2. m \in Seq(RequestSet)
  BY DEF Behind
<1> HIDE DEF Prelude
<1>3. AllFit(m) /\ Listed(m) /\ ListedFirst(m)
  BY <1>1, PlanGrows
<1> QED
  BY <1>2, <1>3

LEMMA Added ==
  ASSUME NEW l \in Seq(RequestSet), NEW c \in RequestSet
  PROVE  Behind(Append(l, c), l, c)
<1>1. /\ Append(l, c) \in Seq(RequestSet) /\ Append(l, c) # << >> /\ Len(Append(l, c)) = Len(l) + 1
      /\ \A i \in 1 .. Len(l) : Append(l, c)[i] = l[i]
      /\ Append(l, c)[Len(l) + 1] = c
  BY AppendProperties
<1> QED
  BY <1>1 DEF Behind

(* What a request that is queued is put behind.                            *)
LEMMA SimpleBehind ==
  ASSUME NEW s \in ConnectionSet, NEW name \in CommandNames \ {"none"},
         NEW p \in Path \cup {""}, NEW q \in Path \cup {""}, name \notin {"FISH", "VER", "PWD"} => p \in Path,
         name \in {"RENAME", "COPY"} => q \in Path
  PROVE  /\ Simple(s, name, p, q) \in ConnectionSet
         /\ \E c \in RequestSet : c.name = name /\ c.p = p /\ Behind(Simple(s, name, p, q).commandList, s.commandList, c)
<1> DEFINE c == Request(name, s.nextId, p, q, 0, 0)
<1>1. c \in RequestSet /\ c.name = name /\ c.p = p
  <2>1. s.nextId \in Nat
    BY ConnectionFields
  <2> QED
    BY <2>1 DEF Request, RequestSet
<1>2. Queued(Simple(s, name, p, q), s, c)
  BY <1>1, SendCommandFacts DEF Simple
<1> HIDE DEF c
<1>3. s.commandList \in Seq(RequestSet)
  BY ConnectionFields
<1>4. Behind(Simple(s, name, p, q).commandList, s.commandList, c)
  BY <1>1, <1>2, <1>3, Added DEF Queued
<1> QED
  BY <1>1, <1>2, <1>4 DEF Queued

LEMMA OneBehind ==
  ASSUME NEW s \in ConnectionSet, NEW p \in Path
  PROVE  /\ \A name \in {"RETR", "LIST", "STOR", "SYMLINK", "CHMOD"} :
              /\ Simple(s, name, p, "") \in ConnectionSet
              /\ \E c \in RequestSet : c.name = name /\ c.p = p /\ Behind(Simple(s, name, p, "").commandList, s.commandList, c)
         /\ \A name \in {"RENAME", "COPY"}, q \in Path :
              /\ Simple(s, name, p, q) \in ConnectionSet
              /\ \E c \in RequestSet : c.name = name /\ c.p = p /\ Behind(Simple(s, name, p, q).commandList, s.commandList, c)
<1>1. {"RETR", "LIST", "STOR", "SYMLINK", "CHMOD", "RENAME", "COPY"} \subseteq CommandNames \ {"none"}
  BY DEF CommandNames, Acting, Writing
<1>2. ASSUME NEW name \in {"RETR", "LIST", "STOR", "SYMLINK", "CHMOD"}
      PROVE  /\ Simple(s, name, p, "") \in ConnectionSet
             /\ \E c \in RequestSet : c.name = name /\ c.p = p /\ Behind(Simple(s, name, p, "").commandList, s.commandList, c)
  <2>1. name \in CommandNames \ {"none"} /\ name \notin {"RENAME", "COPY"} /\ p \in Path \cup {""} /\ "" \in Path \cup {""}
    BY <1>1
  <2> QED
    BY <2>1, SimpleBehind
<1>3. ASSUME NEW name \in {"RENAME", "COPY"}, NEW q \in Path
      PROVE  /\ Simple(s, name, p, q) \in ConnectionSet
             /\ \E c \in RequestSet : c.name = name /\ c.p = p /\ Behind(Simple(s, name, p, q).commandList, s.commandList, c)
  <2>1. name \in CommandNames \ {"none"} /\ p \in Path \cup {""} /\ q \in Path \cup {""}
    BY <1>1
  <2> QED
    BY <2>1, SimpleBehind
<1> QED
  BY <1>2, <1>3

(* A prefix of FISH and VER is all that is queued before a job's own.      *)
Early(list) == list \in Seq(RequestSet) /\ \A i \in 1 .. Len(list) : list[i].name \in {"FISH", "VER"}

LEMMA EarlyPlan ==
  ASSUME NEW l, Early(l)
  PROVE  /\ AllFit(l) /\ ListedFirst(l)
         /\ \A i \in 1 .. Len(l) : l[i].name \in {"FISH", "VER"} /\ l[i].name \in Prelude
BY DEF Early, AllFit, ListedFirst, Fits, Prelude

(* What a job queues is its plan.                                          *)
LEMMA EnqueuePlan ==
  ASSUME job \in JobSet, job.op \in {"get", "put", "rename", "symlink", "copy"}, NEW s \in ConnectionSet, Early(s.commandList),
         NEW list, list = Enqueue(s, job).commandList
  PROVE  Plan(list) /\ (Guarded => ListedFirst(list))
<1> DEFINE k == s.commandList
           p == job.p
           q == job.q
<1>1. p \in Path /\ q \in Path \cup {""} /\ (job.op \in {"rename", "copy"} => q \in Path) /\ "" \in Path \cup {""}
  BY DEF JobSet
<1>2. AllFit(k) /\ ListedFirst(k) /\ k \in Seq(RequestSet)
      /\ \A i \in 1 .. Len(k) : k[i].name \in {"FISH", "VER"} /\ k[i].name \in Prelude
  BY EarlyPlan DEF Early
<1> HIDE DEF k
<1>3. CASE job.op = "get"
  <2> DEFINE t == [s EXCEPT !.recvLen = -1]
  <2>1. t \in ConnectionSet /\ t.commandList = k
    BY DEF ConnectionSet, k
  <2>2. list = Simple(t, "RETR", p, "").commandList
    BY <1>3 DEF Enqueue, EnqueueTransfer
  <2> HIDE DEF t, p, q
  <2>0. \E c \in RequestSet : c.name = "RETR" /\ c.p = p /\ Behind(Simple(t, "RETR", p, "").commandList, t.commandList, c)
    BY <1>1, <2>1, OneBehind
  <2>3. PICK c \in RequestSet : c.name = "RETR" /\ c.p = p /\ Behind(list, k, c)
    BY <2>0, <2>1, <2>2
  <2>4. Fits(c)
    BY <1>3, <2>3 DEF Fits, p
  <2>5. AllFit(list) /\ EndsWith(list, "RETR", {"FISH", "VER"})
    BY <1>2, <2>3, <2>4, PlanGrows
  <2> QED
    BY <1>3, <2>5 DEF Plan, Guarded
<1>4. CASE job.op = "put"
  <2> DEFINE t == [s EXCEPT !.putPos = 0]
             u == Simple(t, "LIST", p, "")
             m == u.commandList
  <2>1. t \in ConnectionSet /\ t.commandList = k
    BY DEF ConnectionSet, k
  <2>2. list = Simple(u, "STOR", p, "").commandList
    BY <1>4 DEF Enqueue, EnqueueTransfer
  <2> HIDE DEF t, p, q
  <2>3. u \in ConnectionSet /\ \E c \in RequestSet : c.name = "LIST" /\ c.p = p /\ Behind(m, k, c)
    BY <1>1, <2>1, OneBehind
  <2> HIDE DEF u
  <2>4. PICK c \in RequestSet : c.name = "LIST" /\ c.p = p /\ Behind(m, k, c)
    BY <2>3
  <2>0. \E d \in RequestSet : d.name = "STOR" /\ d.p = p /\ Behind(Simple(u, "STOR", p, "").commandList, u.commandList, d)
    BY <1>1, <2>3, OneBehind
  <2>5. \E d \in RequestSet : d.name = "STOR" /\ d.p = p /\ Behind(list, m, d)
    BY <2>0, <2>2
  <2>6. PICK d \in RequestSet : d.name = "STOR" /\ d.p = p /\ Behind(list, m, d)
    BY <2>5
  <2> HIDE DEF m
  <2>7. Fits(c) /\ Fits(d)
    BY <1>4, <2>4, <2>6 DEF Fits, Writing, p
  <2>8. m \in Seq(RequestSet) /\ AllFit(m) /\ Listed(m) /\ ListedFirst(m)
    BY <1>2, <2>4, <2>7, ListGrows
  <2>9. \A i \in 1 .. Len(m) : m[i].name \in Prelude
    BY <1>2, <2>4 DEF Behind, Prelude
  <2>10. AllFit(list) /\ ListedFirst(list) /\ EndsWith(list, "STOR", Prelude)
    BY <2>6, <2>7, <2>8, <2>9, PlanGrows
  <2> QED
    BY <1>4, <2>10 DEF Plan
<1>5. CASE job.op \in {"rename", "symlink", "copy"}
  <2> DEFINE r == IF job.op = "symlink" THEN p ELSE q
             u == Checked(s, job, r)
             m == u.commandList
             name == IF job.op = "rename" THEN "RENAME" ELSE IF job.op = "symlink" THEN "SYMLINK" ELSE "COPY"
             g == IF job.op = "symlink" THEN "" ELSE q
             v == Simple(u, name, p, g)
             n == v.commandList
  <2>1. list = (IF job.op = "copy" THEN WithPermissions(v, job, q) ELSE v).commandList
    BY <1>5 DEF Enqueue, EnqueueChange
  <2>2. r \in Path /\ r = Target
    BY <1>1, <1>5 DEF Target
  <2>3. u \in ConnectionSet /\ m \in Seq(RequestSet) /\ AllFit(m) /\ ListedFirst(m) /\ (Guarded => Listed(m))
    <3>1. CASE job.overwrite
      BY <1>2, <3>1, ConnectionFields DEF Checked, Guarded, k
    <3>2. CASE ~job.overwrite
      <4>1. u = Simple(s, "LIST", r, "")
        BY <3>2 DEF Checked
      <4>2. u \in ConnectionSet /\ \E c \in RequestSet : c.name = "LIST" /\ c.p = r /\ Behind(m, k, c)
        <5> HIDE DEF p, q, r
        <5>1. /\ Simple(s, "LIST", r, "") \in ConnectionSet
              /\ \E c \in RequestSet : c.name = "LIST" /\ c.p = r /\ Behind(Simple(s, "LIST", r, "").commandList, s.commandList, c)
          BY <2>2, OneBehind
        <5> QED
          BY <4>1, <5>1 DEF k
      <4>3. PICK c \in RequestSet : c.name = "LIST" /\ c.p = r /\ Behind(m, k, c)
        BY <4>2
      <4>4. Fits(c)
        BY <1>5, <2>2, <4>3 DEF Fits
      <4>5. AllFit(m) /\ Listed(m) /\ ListedFirst(m) /\ m \in Seq(RequestSet)
        BY <1>2, <4>3, <4>4, ListGrows
      <4> QED
        BY <4>2, <4>5
    <3> QED
      BY <3>1, <3>2
  <2> HIDE DEF u
  <2>4. /\ v \in ConnectionSet /\ n \in Seq(RequestSet) /\ AllFit(n)
        /\ (Guarded => ListedFirst(n) /\ Listed(n))
    <3>1. /\ name \in CommandNames \ {"none"} /\ name \in {"RENAME", "SYMLINK", "COPY"}
          /\ p \in Path \cup {""} /\ g \in Path \cup {""} /\ (name \in {"RENAME", "COPY"} => g \in Path)
      BY <1>1, <1>5 DEF CommandNames, Acting
    <3>2. v \in ConnectionSet /\ \E c \in RequestSet : c.name = name /\ c.p = p /\ Behind(n, m, c)
      <4>1. /\ u \in ConnectionSet /\ name \in CommandNames \ {"none"} /\ p \in Path \cup {""} /\ g \in Path \cup {""}
            /\ name \notin {"FISH", "VER", "PWD"} => p \in Path
            /\ name \in {"RENAME", "COPY"} => g \in Path
        BY <1>1, <2>3, <3>1
      <4> HIDE DEF name, g, p
      <4>2. /\ Simple(u, name, p, g) \in ConnectionSet
            /\ \E c \in RequestSet : c.name = name /\ c.p = p /\ Behind(Simple(u, name, p, g).commandList, u.commandList, c)
        BY ZenonT(90), <4>1, SimpleBehind
      <4> QED
        BY <4>2
    <3>3. PICK c \in RequestSet : c.name = name /\ c.p = p /\ Behind(n, m, c)
      BY <3>2
    <3>4. Fits(c)
      BY <1>5, <3>1, <3>3 DEF Fits
    <3> HIDE DEF v, n, m
    <3>5. AllFit(n) /\ (Guarded => ListedFirst(n) /\ Listed(n)) /\ n \in Seq(RequestSet)
      BY <2>3, <3>3, <3>4, PlanGrows DEF Behind, m
    <3> QED
      BY <3>2, <3>5
  <2> HIDE DEF v
  <2>5. AllFit(list) /\ (Guarded => ListedFirst(list))
    <3>1. CASE list = n
      BY <2>4, <3>1
    <3>2. CASE list # n
      <4>1. job.op = "copy" /\ list = Simple(v, "CHMOD", q, "").commandList
        BY <2>1, <3>2 DEF WithPermissions
      <4>2. \E c \in RequestSet : c.name = "CHMOD" /\ c.p = q /\ Behind(list, n, c)
        <5>1. q \in Path
          BY <1>1, <4>1
        <5> HIDE DEF p, q
        <5>2. \E c \in RequestSet : c.name = "CHMOD" /\ c.p = q /\ Behind(Simple(v, "CHMOD", q, "").commandList, v.commandList, c)
          BY <2>4, <5>1, OneBehind
        <5> QED
          BY <4>1, <5>2
      <4>3. PICK c \in RequestSet : c.name = "CHMOD" /\ c.p = q /\ Behind(list, n, c)
        BY <4>2
      <4>4. Fits(c)
        BY <4>1, <4>3 DEF Fits
      <4> HIDE DEF n
      <4> QED
        BY <2>4, <4>3, <4>4, PlanGrows
    <3> QED
      BY <3>1, <3>2
  <2> QED
    BY <1>5, <2>5 DEF Plan
<1> QED
  BY <1>3, <1>4, <1>5

-----------------------------------------------------------------------------
(* What the steps of the client do, by kind.                               *)

Welcome(u) ==
  /\ IsFinal(u)
  /\ \/ u.v \div 100 = 2
     \/ Current.name = "LIST" /\ listReason = "CHECK"
     \/ Current.name = "READ" /\ u.v = 501

(* The loop goes round, or reads what has come.                            *)
Turns ==
  /\ pc \in {"select", "parse"} /\ pc' \in {"select", "parse"} /\ ToCome' = ToCome
  /\ UNCHANGED <<toServer, alive, serverVars, appVars, cl, jobVars>>

(* The job fails.                                                          *)
Drops ==
  /\ pc # "idle" /\ pc' = "idle" /\ result' # "pass" /\ cl'.isRunning = FALSE
  /\ alive = TRUE => srv.mode = "main" /\ Noise(toServer)
  /\ UNCHANGED <<wireVars, serverVars, appVars, job>>

(* A unit is taken, and more of the reply is to come.                      *)
ToBeRead == IF Current.name = "READ" THEN MimeBytes ELSE cl.recvLen
SizeTaken(u) == IF Current.name = "RETR" /\ u.k = "number" THEN u.v ELSE cl.recvLen
UnitTaken(u) ==
  /\ cl.rawRead = 0 /\ ~(Reading /\ IsGo(u)) /\ cl'.rawRead = 0 /\ (Reading => cl'.recvLen = SizeTaken(u))
  /\ UNCHANGED <<held, mimeTypeSent, delivered>>
GoTaken(u) ==
  /\ cl.rawRead = 0 /\ Reading /\ IsGo(u) /\ ToBeRead \in Nat /\ cl'.rawRead = ToBeRead /\ cl'.recvLen = ToBeRead
  /\ held' = << >> /\ mimeTypeSent' = (ToBeRead = 0) /\ delivered' = delivered
Takes ==
  /\ Handling /\ Elsewhere /\ UNCHANGED <<checkOverwrite, listReason>>
  /\ cl'.putPos = cl.putPos /\ cl'.outBuf \in {<< >>, <<FishCode>>}
  /\ Current.name = "EXEC" \/ ~IsFinal(Head(inBuf)) \/ cl.rawRead > 0
  /\ checkExist = TRUE => checkExist' = TRUE
  /\ cl.rawRead = 0 /\ Head(inBuf).k = "entry" /\ Current.name = "LIST" /\ listReason = "CHECK" => checkExist' = TRUE
  /\ ReceiveData \/ UnitTaken(Head(inBuf)) \/ GoTaken(Head(inBuf))
  /\ cl'.rawWrite = IF IsGo(Head(inBuf)) /\ Current.name \in Writing THEN cl.sendLen ELSE cl.rawWrite

(* The reply is complete, and the next command of the list is sent, if     *)
(* there is one.                                                           *)
Proceeds(l) ==
  /\ pc = "parse" /\ pc' = pc /\ cl.isRunning = TRUE /\ cl.rawRead = 0 /\ QuietWire /\ ToCome # << >> /\ ToCome' = << >>
  /\ ToCome = <<Head(inBuf)>> /\ Welcome(Head(inBuf))
  /\ alive = TRUE => srv.mode = "main" /\ Noise(toServer)
  /\ l = << >> => cl'.isRunning = FALSE /\ cl'.commandList = << >> /\ Current' = Current
  /\ l # << >> =>
       /\ l \in Seq(RequestSet) /\ cl'.isRunning = TRUE /\ Current' = Head(l) /\ cl'.commandList = Tail(l)
       /\ cl'.rawRead = 0 /\ cl'.outBuf = Lines(Head(l))
  /\ UNCHANGED <<serverVars, appVars, job, checkOverwrite, listReason, delivered>>
  /\ ~(Head(inBuf).v \div 100 = 2 /\ Current.name = "LIST" /\ listReason = "CHECK" /\ checkOverwrite = FALSE /\ checkExist = TRUE)
  /\ held' = held
  /\ Current.name # "READ" => mimeTypeSent' = mimeTypeSent
NextCommand == Current.name \notin Writing /\ Proceeds(cl.commandList) /\ toPut' = toPut /\ cl'.putPos = cl.putPos
StoresWith(n, l) ==
  /\ Proceeds(l) /\ (n = 0 <=> toPut = << >>)
  /\ toPut' = SubSeq(toPut, n + 1, Len(toPut)) /\ cl'.rawData = SubSeq(toPut, 1, n) /\ cl'.sendLen = n
  /\ cl'.putPos = cl.putPos + (IF NextWriting = "WRITE" THEN n ELSE 0)
  /\ n > 0 => l # << >>
  /\ l # << >> =>
       /\ Head(l).p = job.p /\ Tail(l) = << >>
       /\ n > 0 => Head(l).name = NextWriting /\ Head(l).n = n /\ Head(l).at = (IF NextWriting = "WRITE" THEN cl.putPos ELSE 0)
       /\ n = 0 => Head(l).name = "CHMOD"
Stores == Current.name \in Writing /\ \E n \in 0 .. Len(toPut), l \in Seq(RequestSet) : StoresWith(n, l)

LEMMA NoiseHere ==
  ASSUME FishInv, pc = "parse", inBuf # << >>, Current.name \notin Writing \cup {"FISH"}
  PROVE  alive = TRUE => srv.mode = "main" /\ Noise(toServer)
<1> SUFFICES ASSUME alive = TRUE PROVE srv.mode = "main" /\ Noise(toServer)
  OBVIOUS
<1>1. ToCome # << >> /\ cl.childPid = TRUE
  BY Streams DEF FishInv, RunInv
<1>2. srv.mode = "main" /\ ReplyPhase
  BY <1>1 DEF FishInv, PhaseInv, LoginPhase, CodePhase, AltPhase, DataPhase, CommandPhase
<1>3. Len(ToRead) = Len(toServer) + Len(cl.outBuf) /\ \A i \in 1 .. Len(toServer) : ToRead[i] = toServer[i]
  BY Streams DEF FishInv
<1>4. Len(toServer) \in Nat /\ Len(cl.outBuf) \in Nat
  BY ConnectionFields, LenProperties DEF FishInv, FishTypeInv
<1>5. \A i \in 1 .. Len(toServer) : IsNoise(toServer[i])
  BY <1>2, <1>3, <1>4 DEF ReplyPhase
<1> QED
  BY <1>2, <1>5 DEF Noise

LEMMA ErrorDrops ==
  ASSUME FishInv, pc = "parse", inBuf # << >>, alive = TRUE => srv.mode = "main" /\ Noise(toServer),
         NEW e, e # "pass", Error(cl, e) \/ ShutdownError(e), UNCHANGED <<wireVars, job>>, Elsewhere
  PROVE  Drops
<1>1. cl \in ConnectionSet
  BY DEF FishInv, FishTypeInv
<1>2. cl'.isRunning = FALSE /\ pc' = "idle" /\ result' = e
  BY <1>1 DEF Error, ShutdownError, Shutdown, ConnectionSet
<1> QED
  BY <1>2 DEF Drops, Elsewhere

LEMMA ReceiveDataTakes ==
  ASSUME FishInv, ReceiveData, Elsewhere
  PROVE  Takes
<1>1. /\ pc = "parse" /\ inBuf # << >> /\ cl.rawRead > 0 /\ cl' = [cl EXCEPT !.rawRead = @ - 1]
      /\ inBuf' = Tail(inBuf) /\ UNCHANGED <<pc, wireVars, job, toPut, server, fs, srv, srvOut, checkExist, checkOverwrite, listReason>>
  BY DEF ReceiveData, Go, Elsewhere, serverVars
<1>2. cl \in ConnectionSet /\ Current.name \in {"RETR", "READ"} /\ cl.outBuf = << >>
  BY <1>1 DEF FishInv, FishTypeInv, CurrentInv, RunInv
<1>3. /\ cl' \in ConnectionSet /\ cl'.childPid = cl.childPid /\ cl'.commandList = cl.commandList /\ cl'.fishCommand = cl.fishCommand
      /\ cl'.sendLen = cl.sendLen /\ cl'.rawData = cl.rawData /\ cl'.qlist = cl.qlist /\ cl'.writeReady = cl.writeReady
      /\ cl'.isRunning = cl.isRunning /\ cl'.rawWrite = cl.rawWrite /\ cl'.outBuf = cl.outBuf /\ cl'.putPos = cl.putPos
  <2>1. cl.rawRead - 1 \in Nat
    BY <1>1, <1>2, ConnectionFields
  <2> DEFINE n == cl.rawRead - 1
  <2>2. cl' = [cl EXCEPT !.rawRead = n]
    BY <1>1
  <2> HIDE DEF n
  <2>3. n \in Nat
    BY <2>1 DEF n
  <2> QED
    BY <1>2, <2>2, <2>3 DEF ConnectionSet
<1>4. Handling
  BY <1>1, <1>2, <1>3 DEF Handling
<1>5. cl.rawRead # 0 /\ Current.name \notin Writing
  BY <1>1, <1>2 DEF Writing
<1> QED
  BY <1>1, <1>2, <1>3, <1>4, <1>5 DEF Takes

LEMMA LineTakes ==
  ASSUME FishInv, pc = "parse", inBuf # << >>, cl.rawRead = 0, Head(inBuf).k \in Line,
         NEW n \in Int, NEW m \in Nat \cup {-1}, NEW a \in BOOLEAN,
         m = SizeTaken(Head(inBuf)),
         Go([cl EXCEPT !.errorCount = n, !.recvLen = m, !.hasAppend = a]),
         UNCHANGED <<wireVars, job, toPut, checkOverwrite, listReason, held, mimeTypeSent, delivered>>, Elsewhere,
         checkExist = TRUE => checkExist' = TRUE,
         Head(inBuf).k = "entry" /\ Current.name = "LIST" /\ listReason = "CHECK" => checkExist' = TRUE
  PROVE  Takes
<1>1. /\ cl' = [cl EXCEPT !.errorCount = n, !.recvLen = m, !.hasAppend = a]
      /\ inBuf' = Tail(inBuf) /\ UNCHANGED <<pc, wireVars, job, toPut, server, fs, srv, srvOut>>
  BY DEF Go, Elsewhere, serverVars
<1>2. cl \in ConnectionSet /\ cl.outBuf = << >>
  BY DEF FishInv, FishTypeInv, RunInv
<1>3. /\ cl' \in ConnectionSet /\ cl'.childPid = cl.childPid /\ cl'.commandList = cl.commandList /\ cl'.fishCommand = cl.fishCommand
      /\ cl'.sendLen = cl.sendLen /\ cl'.rawData = cl.rawData /\ cl'.qlist = cl.qlist /\ cl'.writeReady = cl.writeReady
      /\ cl'.isRunning = cl.isRunning /\ cl'.rawWrite = cl.rawWrite /\ cl'.outBuf = cl.outBuf /\ cl'.putPos = cl.putPos
      /\ cl'.rawRead = cl.rawRead /\ cl'.recvLen = m
  BY <1>1, <1>2 DEF ConnectionSet
<1>4. Handling
  BY <1>1, <1>3 DEF Handling
<1>5. ~IsGo(Head(inBuf)) /\ ~IsFinal(Head(inBuf))
  BY DEF IsGo, IsFinal, Line
<1>6. UnitTaken(Head(inBuf))
  BY <1>3, <1>5 DEF UnitTaken
<1> QED
  BY <1>2, <1>3, <1>4, <1>5, <1>6 DEF Takes

LEMMA TextSplits ==
  ASSUME FishInv, ManageText, Elsewhere
  PROVE  Takes \/ Drops
<1>1. /\ pc = "parse" /\ inBuf # << >> /\ cl.rawRead = 0 /\ Head(inBuf).k \in Line /\ Current.name \notin {"LIST", "RETR"}
      /\ UNCHANGED <<wireVars, job, toPut, checkExist, checkOverwrite, listReason, held, mimeTypeSent, delivered>>
      /\ \/ Go([Counted EXCEPT !.hasAppend = (Head(inBuf).v = 1)])
         \/ ShutdownError("ERR_UNSUPPORTED_PROTOCOL") /\ Current.name = "VER"
         \/ Go(Counted)
  BY Zenon DEF ManageText, Parsing, Current
<1>0. cl.recvLen = SizeTaken(Head(inBuf))
  BY <1>1 DEF SizeTaken
<1>2. CASE Go([Counted EXCEPT !.hasAppend = (Head(inBuf).v = 1)])
  <2>1. PICK a \in BOOLEAN : a = (Head(inBuf).v = 1)
    OBVIOUS
  <2>2. Go([cl EXCEPT !.errorCount = cl.errorCount + 1, !.recvLen = cl.recvLen, !.hasAppend = a])
    BY <1>2, <2>1, CountedFacts
  <2> QED
    BY <1>0, <1>1, <2>2, CountedFacts, LineTakes
<1>3. CASE ShutdownError("ERR_UNSUPPORTED_PROTOCOL") /\ Current.name = "VER"
  <2>1. alive = TRUE => srv.mode = "main" /\ Noise(toServer)
    BY <1>1, <1>3, NoiseHere DEF Writing
  <2> QED
    BY <1>1, <1>3, <2>1, ErrorDrops
<1>4. CASE Go(Counted)
  <2>1. Go([cl EXCEPT !.errorCount = cl.errorCount + 1, !.recvLen = cl.recvLen, !.hasAppend = cl.hasAppend])
    BY <1>4, CountedFacts
  <2> QED
    BY <1>0, <1>1, <2>1, CountedFacts, LineTakes
<1> QED
  BY <1>1, <1>2, <1>3, <1>4

LEMMA ListingTakes ==
  ASSUME FishInv, ManageListing, Elsewhere
  PROVE  Takes
<1>1. /\ pc = "parse" /\ inBuf # << >> /\ cl.rawRead = 0 /\ Head(inBuf).k \in Line
      /\ UNCHANGED <<wireVars, job, toPut, checkOverwrite, listReason, held, mimeTypeSent, delivered>> /\ (Go(cl) \/ Go(Counted))
      /\ Current.name # "RETR"
  BY Zenon DEF ManageListing, Parsing, Current
<1> DEFINE Goes(n) == Go([cl EXCEPT !.errorCount = n, !.recvLen = cl.recvLen, !.hasAppend = cl.hasAppend])
<1>0. \E n \in Int : Goes(n)
  <2>1. Go(cl) => Goes(cl.errorCount)
    BY CountedFacts
  <2>2. Go(Counted) => Goes(cl.errorCount + 1)
    BY CountedFacts
  <2>3. cl.errorCount \in Int /\ cl.errorCount + 1 \in Int
    BY CountedFacts
  <2> HIDE DEF Goes
  <2> QED
    BY <1>1, <2>1, <2>2, <2>3
<1>2. PICK n \in Int : Go([cl EXCEPT !.errorCount = n, !.recvLen = cl.recvLen, !.hasAppend = cl.hasAppend])
  BY <1>0
<1>3. checkExist' = (checkExist \/ (Head(inBuf).k \in {"entry", "blank"} /\ cl.fishCommand.name = "LIST" /\ listReason = "CHECK"))
  BY DEF ManageListing
<1>4. checkExist = TRUE => checkExist' = TRUE
  BY <1>3
<1>5. Head(inBuf).k = "entry" /\ Current.name = "LIST" /\ listReason = "CHECK" => checkExist' = TRUE
  BY <1>3 DEF Current
<1>6. cl.recvLen = SizeTaken(Head(inBuf))
  BY <1>1 DEF SizeTaken
<1> QED
  BY <1>1, <1>2, <1>4, <1>5, <1>6, CountedFacts, LineTakes

LEMMA SizeSplits ==
  ASSUME FishInv, ManageSize, Elsewhere
  PROVE  Takes \/ Drops
<1>1. /\ pc = "parse" /\ inBuf # << >> /\ cl.rawRead = 0 /\ Head(inBuf).k \in Line /\ Current.name = "RETR"
      /\ UNCHANGED <<wireVars, job, toPut, checkExist, checkOverwrite, listReason, held, mimeTypeSent, delivered>>
  BY DEF ManageSize, Parsing, Current
<1>2. Head(inBuf).k # "blank" /\ Head(inBuf) \in ServerUnit
  BY <1>1, UnitFacts
<1>3. CASE Head(inBuf).k = "number"
  <2>1. Go([Counted EXCEPT !.recvLen = Head(inBuf).v])
    BY <1>3 DEF ManageSize
  <2>2. Head(inBuf).v \in Nat
    BY <1>2 DEF ServerUnit
  <2>3. Go([cl EXCEPT !.errorCount = cl.errorCount + 1, !.recvLen = Head(inBuf).v, !.hasAppend = cl.hasAppend])
    BY <2>1, CountedFacts
  <2>4. Head(inBuf).v = SizeTaken(Head(inBuf))
    BY <1>1, <1>3 DEF SizeTaken
  <2> QED
    BY <1>1, <2>2, <2>3, <2>4, CountedFacts, LineTakes
<1>4. CASE Head(inBuf).k # "number"
  <2>1. ShutdownError("ERR_CANNOT_READ")
    BY <1>2, <1>4 DEF ManageSize
  <2>2. alive = TRUE => srv.mode = "main" /\ Noise(toServer)
    BY <1>1, NoiseHere DEF Writing
  <2> QED
    BY <1>1, <2>1, <2>2, ErrorDrops
<1> QED
  BY <1>3, <1>4

LEMMA GoSplits ==
  ASSUME FishInv, ManageGo, Elsewhere
  PROVE  Takes \/ Drops
<1>1. /\ pc = "parse" /\ inBuf # << >> /\ cl.rawRead = 0 /\ Head(inBuf).k = "status" /\ Rc = 100
      /\ UNCHANGED <<wireVars, job, toPut, server, fs, srv, srvOut, checkExist, checkOverwrite, listReason, delivered>>
  BY DEF ManageGo, Answered, Parsing, Elsewhere, serverVars
<1>2. IsGo(Head(inBuf)) /\ ~IsFinal(Head(inBuf)) /\ cl.outBuf = << >> /\ cl.rawWrite \in Nat \cup {-1}
      /\ Head(inBuf).k # "entry"
  BY <1>1, UnitFacts, ConnectionFields DEF FishInv, FishTypeInv
<1>3. cl \in ConnectionSet
  BY DEF FishInv, FishTypeInv
<1>4. ToBeRead \in Nat \cup {-1}
  BY <1>3, ConnectionFields, MimeBytesAssumption DEF ToBeRead
<1>0. (CASE Current.name = "FISH" -> Go(WriteChild(cl, <<FishCode>>)) /\ UNCHANGED <<held, mimeTypeSent>>
        [] Current.name \in {"RETR", "READ"} /\ ToBeRead = -1 ->
             ShutdownError("ERR_CANNOT_READ") /\ UNCHANGED <<held, mimeTypeSent>>
        [] Current.name \in {"RETR", "READ"} /\ ToBeRead # -1 ->
             /\ Go([cl EXCEPT !.recvLen = ToBeRead, !.rawRead = ToBeRead])
             /\ held' = << >>
             /\ mimeTypeSent' = (ToBeRead = 0)
        [] Current.name \in Writing ->
             Go(WriteChild([cl EXCEPT !.rawWrite = cl.sendLen], << >>)) /\ UNCHANGED <<held, mimeTypeSent>>
        [] OTHER -> Go(cl) /\ UNCHANGED <<held, mimeTypeSent>>)
  BY Zenon DEF ManageGo, Current, ToBeRead
<1>5. CASE Current.name = "FISH"
  <2>1. Go(WriteChild(cl, <<FishCode>>)) /\ UNCHANGED <<held, mimeTypeSent>>
    BY <1>0, <1>5 DEF Writing
  <2>2. cl' = [cl EXCEPT !.outBuf = <<FishCode>>, !.outBusy = TRUE]
    BY <1>2, <2>1 DEF Go, WriteChild
  <2>3. /\ cl' \in ConnectionSet /\ cl'.outBuf = <<FishCode>> /\ cl'.rawWrite = cl.rawWrite
        /\ cl'.childPid = cl.childPid /\ cl'.commandList = cl.commandList /\ cl'.fishCommand = cl.fishCommand
        /\ cl'.sendLen = cl.sendLen /\ cl'.rawData = cl.rawData /\ cl'.qlist = cl.qlist /\ cl'.writeReady = cl.writeReady
        /\ cl'.isRunning = cl.isRunning /\ cl'.rawRead = 0 /\ cl'.putPos = cl.putPos
    BY <1>1, <1>3, <2>2, OtherUnits DEF ConnectionSet
  <2>4. Handling
    BY <1>1, <2>1, <2>3 DEF Handling, Go
  <2>5. UnitTaken(Head(inBuf)) /\ Current.name \notin Writing
    BY <1>1, <1>5, <2>1, <2>3 DEF UnitTaken, Reading, Writing
  <2> QED
    BY <1>1, <1>2, <2>3, <2>4, <2>5 DEF Takes
<1>6. CASE Current.name \in {"RETR", "READ"} /\ ToBeRead = -1
  <2>1. ShutdownError("ERR_CANNOT_READ")
    BY <1>0, <1>6 DEF Writing
  <2>2. alive = TRUE => srv.mode = "main" /\ Noise(toServer)
    BY <1>1, <1>6, NoiseHere DEF Writing
  <2> QED
    BY <1>1, <2>1, <2>2, ErrorDrops
<1>7. CASE Current.name \in {"RETR", "READ"} /\ ToBeRead # -1
  <2>1. Go([cl EXCEPT !.recvLen = ToBeRead, !.rawRead = ToBeRead]) /\ held' = << >> /\ mimeTypeSent' = (ToBeRead = 0)
    BY <1>0, <1>7 DEF Writing
  <2>2. ToBeRead \in Nat
    BY <1>4, <1>7
  <2>3. /\ cl' \in ConnectionSet /\ cl'.outBuf = cl.outBuf /\ cl'.rawWrite = cl.rawWrite
        /\ cl'.childPid = cl.childPid /\ cl'.commandList = cl.commandList /\ cl'.fishCommand = cl.fishCommand
        /\ cl'.sendLen = cl.sendLen /\ cl'.rawData = cl.rawData /\ cl'.qlist = cl.qlist /\ cl'.writeReady = cl.writeReady
        /\ cl'.isRunning = cl.isRunning /\ cl'.rawRead = ToBeRead /\ cl'.recvLen = ToBeRead /\ cl'.putPos = cl.putPos
    BY <1>3, <2>1, <2>2 DEF ConnectionSet, Go
  <2>4. Handling
    BY <1>1, <1>7, <2>1, <2>3 DEF Handling, Go
  <2>5. GoTaken(Head(inBuf)) /\ Current.name \notin Writing
    BY <1>1, <1>2, <1>7, <2>1, <2>2, <2>3 DEF GoTaken, Reading, Writing
  <2> QED
    BY <1>1, <1>2, <2>3, <2>4, <2>5 DEF Takes
<1>8. CASE Current.name \in Writing
  <2> DEFINE s == [cl EXCEPT !.rawWrite = cl.sendLen]
  <2>1. Go(WriteChild(s, << >>)) /\ UNCHANGED <<held, mimeTypeSent>>
    BY <1>0, <1>8 DEF Writing
  <2>2. /\ s \in ConnectionSet /\ s.outBuf = << >> /\ s.rawWrite = cl.sendLen /\ s.rawRead = 0
        /\ s.childPid = cl.childPid /\ s.commandList = cl.commandList /\ s.fishCommand = cl.fishCommand
        /\ s.sendLen = cl.sendLen /\ s.rawData = cl.rawData /\ s.qlist = cl.qlist /\ s.writeReady = cl.writeReady
        /\ s.isRunning = cl.isRunning /\ s.putPos = cl.putPos
    BY <1>1, <1>2, <1>3 DEF ConnectionSet
  <2> HIDE DEF s
  <2>3. cl' = [s EXCEPT !.outBuf = << >>, !.outBusy = TRUE]
    BY <2>1, <2>2 DEF Go, WriteChild
  <2>4. /\ cl' \in ConnectionSet /\ cl'.outBuf = << >> /\ cl'.rawWrite = cl.sendLen /\ cl'.rawRead = 0
        /\ cl'.childPid = cl.childPid /\ cl'.commandList = cl.commandList /\ cl'.fishCommand = cl.fishCommand
        /\ cl'.sendLen = cl.sendLen /\ cl'.rawData = cl.rawData /\ cl'.qlist = cl.qlist /\ cl'.writeReady = cl.writeReady
        /\ cl'.isRunning = cl.isRunning /\ cl'.putPos = cl.putPos
    BY <2>2, <2>3, Empties DEF ConnectionSet
  <2>5. Handling
    BY <1>1, <2>1, <2>4 DEF Handling, Go
  <2>6. UnitTaken(Head(inBuf))
    BY <1>1, <1>8, <2>1, <2>4 DEF UnitTaken, Reading, Writing
  <2> QED
    BY <1>1, <1>2, <1>8, <2>4, <2>5, <2>6 DEF Takes
<1>9. CASE Current.name \notin Writing \cup {"FISH", "RETR", "READ"}
  <2>1. Go(cl) /\ UNCHANGED <<held, mimeTypeSent>>
    BY <1>0, <1>9
  <2>2. Handling
    BY <1>1, <1>3, <2>1 DEF Handling, Go
  <2>3. UnitTaken(Head(inBuf))
    BY <1>1, <1>9, <2>1 DEF UnitTaken, Reading, Go
  <2> QED
    BY <1>1, <1>2, <1>9, <2>1, <2>2, <2>3 DEF Takes, Go
<1> QED
  BY <1>5, <1>6, <1>7, <1>8, <1>9

LEMMA OneUnitLeft == ASSUME NEW s \in Seq(ServerUnit), s # << >>, Tail(s) = << >> PROVE s = <<Head(s)>> /\ Len(s) = 1
<1>1. Len(s) \in Nat \ {0} /\ Len(Tail(s)) = Len(s) - 1
  BY TailOfReplies
<1>3. Len(s) = 1
  <2> DEFINE n == Len(s)
             t == Tail(s)
             m == Len(t)
  <2>1. t = << >> /\ m = n - 1 /\ n \in Int
    BY <1>1
  <2> HIDE DEF n, t
  <2>2. m = 0
    BY <2>1, Empties
  <2> HIDE DEF m
  <2>3. n = 1
    BY <2>1, <2>2
  <2> QED
    BY <2>3 DEF n
<1>4. \A i \in 1 .. Len(s) : s[i] \in ServerUnit
  BY ElementOfSeq
<1>5. s[1] \in ServerUnit /\ Head(s) = s[1]
  BY <1>3, <1>4
<1>6. <<s[1]>> \in Seq(ServerUnit) /\ Len(<<s[1]>>) = 1 /\ <<s[1]>>[1] = s[1]
  BY <1>5, Single
<1>7. \A i \in 1 .. Len(s) : s[i] = <<s[1]>>[i]
  BY <1>3, <1>6
<1> QED
  BY <1>3, <1>5, <1>6, <1>7, SeqEqual

(* The last unit of a reply that lets the job go on.                       *)
LEMMA ProceedsNow ==
  ASSUME FishInv, pc = "parse", inBuf # << >>, cl.rawRead = 0, Welcome(Head(inBuf)), NEW s \in ConnectionSet,
         s.qlist = cl.qlist, s.writeReady = cl.writeReady, s.outBuf = cl.outBuf, s.fishCommand = cl.fishCommand,
         s.isRunning = cl.isRunning,
         Go(Finished(s)), UNCHANGED <<wireVars, job, checkOverwrite, listReason, held, delivered>>, Elsewhere,
         Current.name # "READ" => mimeTypeSent' = mimeTypeSent,
         ~(Head(inBuf).v \div 100 = 2 /\ Current.name = "LIST" /\ listReason = "CHECK" /\ checkOverwrite = FALSE /\ checkExist = TRUE),
         NEW l, l = s.commandList
  PROVE  Proceeds(l)
<1>1. IsFinal(Head(inBuf))
  BY DEF Welcome
<1>2. /\ Tail(inBuf) = << >> /\ toClient = << >> /\ srvOut = << >> /\ cl.outBuf = << >> /\ cl.qlist = << >> /\ cl.writeReady = TRUE
      /\ alive = FALSE => toServer = << >>
      /\ alive = TRUE => srv.mode = "main" /\ \A i \in 1 .. Len(toServer) : IsNoise(toServer[i])
  BY <1>1, LastUnit
<1>3. cl.isRunning = TRUE
  BY UnitFacts
<1>4. cl' = Finished(s) /\ inBuf' = << >> /\ pc' = pc /\ UNCHANGED <<wireVars, server, fs, srv, srvOut>>
  BY <1>2 DEF Go, Elsewhere, serverVars
<1>5. QuietWire
  BY <1>2, <1>4 DEF QuietWire, wireVars
<1>6. inBuf \in Seq(ServerUnit)
  BY DEF FishInv, FishTypeInv
<1>7. ToCome = <<Head(inBuf)>> /\ ToCome # << >>
  <2>1. ToCome = inBuf
    BY <1>2, <1>6, ConcatEmptySeq, Empties DEF ToCome
  <2> QED
    BY <1>2, <1>6, <2>1, OneUnitLeft
<1>8. ToCome' = << >>
  BY <1>5, QuietComes
<1>9. l = << >> => cl'.isRunning = FALSE /\ cl'.commandList = << >> /\ Current' = Current
  BY <1>2, <1>4, FinishedFacts DEF Current
<1>10. l # << >> =>
         /\ l \in Seq(RequestSet) /\ cl'.isRunning = TRUE /\ Current' = Head(l) /\ cl'.commandList = Tail(l)
         /\ cl'.rawRead = 0 /\ cl'.outBuf = Lines(Head(l))
  <2>1. l \in Seq(RequestSet)
    BY ConnectionFields
  <2> QED
    BY <1>2, <1>3, <1>4, <2>1, FinishedFacts DEF Current
<1>11. alive = TRUE => srv.mode = "main" /\ Noise(toServer)
  BY <1>2 DEF Noise
<1> QED
  BY <1>3, <1>4, <1>5, <1>7, <1>8, <1>9, <1>10, <1>11 DEF Proceeds, Elsewhere

LEMMA FinishedPlace ==
  ASSUME NEW s \in ConnectionSet, NEW t, t = Finished(s)
  PROVE  t.putPos = s.putPos
<1>1. CASE s.commandList = << >>
  BY <1>1 DEF Finished, ConnectionSet
<1>2. CASE s.commandList # << >>
  <2> DEFINE c == Head(s.commandList)
             n == -TextLines(c.name)
             l == Tail(s.commandList)
             r == [s EXCEPT !.fishCommand = c, !.errorCount = n, !.rawRead = 0, !.rawWrite = -1, !.commandList = l]
  <2>1. t = WriteStdin(r, c)
    BY <1>2 DEF Finished
  <2> HIDE DEF c, n, l
  <2>2. r.putPos = s.putPos /\ DOMAIN r = DOMAIN s /\ "putPos" \in DOMAIN r /\ \A v, w : WriteChild(r, v).putPos = r.putPos
    BY DEF ConnectionSet, WriteChild
  <2> DEFINE q == [r EXCEPT !.qlist = Append(@, c)]
             p == [q EXCEPT !.writeReady = FALSE]
  <2>3. q.putPos = s.putPos /\ p.putPos = s.putPos /\ "putPos" \in DOMAIN q /\ "putPos" \in DOMAIN p
    BY <2>2
  <2> HIDE DEF r
  <2>4. t = p \/ t = q \/ \E v : t = WriteChild(p, v)
    BY <2>1 DEF WriteStdin
  <2> HIDE DEF q, p
  <2> QED
    BY <2>3, <2>4 DEF WriteChild
<1> QED
  BY <1>1, <1>2

LEMMA RefusedSplits ==
  ASSUME FishInv, ManageRefused, Elsewhere, Current.name # "none"
  PROVE  Takes \/ Drops \/ NextCommand
<1>1. /\ pc = "parse" /\ inBuf # << >> /\ cl.rawRead = 0 /\ Head(inBuf).k = "status" /\ Rc # 100 /\ Rc \div 100 # 2
      /\ UNCHANGED <<wireVars, job, toPut, server, fs, srv, srvOut, checkOverwrite, listReason, held, delivered>>
  BY DEF ManageRefused, Answered, Parsing, Elsewhere, serverVars
<1>2. IsFinal(Head(inBuf)) /\ ~IsGo(Head(inBuf)) /\ Rc = Head(inBuf).v /\ cl.outBuf = << >> /\ Head(inBuf).k # "entry"
  BY <1>1, UnitFacts
<1>3. cl \in ConnectionSet
  BY DEF FishInv, FishTypeInv
<1>4. alive = TRUE => srv.mode = "main" /\ Noise(toServer)
  BY <1>1, <1>2, LastUnit DEF Noise
<1>5. CASE Current.name = "LIST" /\ listReason = "CHECK" /\ Go(Finished(cl)) /\ UNCHANGED mimeTypeSent
  <2>1. Welcome(Head(inBuf))
    BY <1>2, <1>5 DEF Welcome
  <2>2. Proceeds(cl.commandList)
    BY <1>1, <1>2, <1>3, <1>5, <2>1, ProceedsNow
  <2>3. cl' = Finished(cl)
    BY <1>5 DEF Go
  <2>4. cl'.putPos = cl.putPos
    BY <1>3, <2>3, FinishedPlace
  <2> QED
    BY <1>1, <1>5, <2>2, <2>4 DEF NextCommand, Writing
<1>6. CASE Current.name = "READ" /\ Rc = 501 /\ Go(Finished([cl EXCEPT !.recvLen = 0]))
  <2> DEFINE s == [cl EXCEPT !.recvLen = 0]
  <2>1. Welcome(Head(inBuf))
    BY <1>2, <1>6 DEF Welcome
  <2>2. /\ s \in ConnectionSet /\ s.qlist = cl.qlist /\ s.writeReady = cl.writeReady /\ s.outBuf = cl.outBuf
        /\ s.fishCommand = cl.fishCommand /\ s.isRunning = cl.isRunning /\ s.commandList = cl.commandList /\ s.putPos = cl.putPos
    BY <1>3 DEF ConnectionSet
  <2>3. Go(Finished(s)) /\ cl' = Finished(s)
    BY <1>6 DEF Go
  <2> HIDE DEF s
  <2>4. Proceeds(cl.commandList)
    BY <1>1, <1>2, <1>6, <2>1, <2>2, <2>3, ProceedsNow
  <2>5. cl'.putPos = cl.putPos
    BY <2>2, <2>3, FinishedPlace
  <2> QED
    BY <1>1, <1>6, <2>4, <2>5 DEF NextCommand, Writing
<1>7. CASE Current.name = "EXEC" /\ Go(cl) /\ UNCHANGED <<checkExist, mimeTypeSent>>
  <2>1. Handling
    BY <1>1, <1>3, <1>7 DEF Handling, Go
  <2>2. UnitTaken(Head(inBuf))
    BY <1>1, <1>7 DEF UnitTaken, Reading, Go
  <2> QED
    BY <1>1, <1>2, <1>7, <2>1, <2>2 DEF Takes, Go, Writing
<1>8. CASE Refuse(Current.name, Rc) /\ Current.name \in CommandNames \ {"EXEC", "none"}
  <2>1. Refusal(Current.name, Rc) # "pass"
    BY <1>8 DEF Refusal, CommandNames, Acting, Writing
  <2>2. Error(cl, Refusal(Current.name, Rc)) \/ ShutdownError(Refusal(Current.name, Rc))
    BY <1>8 DEF Refuse
  <2> QED
    BY <1>1, <1>4, <2>1, <2>2, ErrorDrops
<1> QED
  <2>1. \/ Current.name = "LIST" /\ listReason = "CHECK" /\ Go(Finished(cl)) /\ UNCHANGED mimeTypeSent
        \/ Current.name = "READ" /\ Rc = 501 /\ Go(Finished([cl EXCEPT !.recvLen = 0]))
        \/ Current.name = "EXEC" /\ Go(cl) /\ UNCHANGED <<checkExist, mimeTypeSent>>
        \/ Refuse(Current.name, Rc) /\ Current.name # "EXEC"
    BY Zenon DEF ManageRefused, CheckFindsNothing, Current
  <2>2. Current.name \in CommandNames
    BY <1>3, ConnectionFields DEF RequestSet, Current
  <2> QED
    BY <2>1, <2>2, <1>5, <1>6, <1>7, <1>8

LEMMA DoneSplits ==
  ASSUME FishInv, ManageDone, Elsewhere
  PROVE  Drops \/ NextCommand
<1>1. /\ pc = "parse" /\ inBuf # << >> /\ cl.rawRead = 0 /\ Head(inBuf).k = "status" /\ Rc \div 100 = 2 /\ Current.name \notin Writing
      /\ UNCHANGED <<wireVars, job, toPut, server, fs, srv, srvOut, checkOverwrite, listReason, held, mimeTypeSent, delivered>>
      /\ IF Current.name = "LIST" /\ listReason = "CHECK" /\ ~checkOverwrite /\ checkExist
         THEN Error(cl, "ERR_FILE_ALREADY_EXIST") ELSE Go(Finished(cl))
  BY Zenon DEF ManageDone, Completed, Answered, Parsing, Elsewhere, serverVars, Current
<1>2. IsFinal(Head(inBuf)) /\ Rc = Head(inBuf).v
  BY <1>1, UnitFacts
<1>3. cl \in ConnectionSet
  BY DEF FishInv, FishTypeInv
<1>4. alive = TRUE => srv.mode = "main" /\ Noise(toServer)
  BY <1>1, <1>2, LastUnit DEF Noise
<1>5. CASE Error(cl, "ERR_FILE_ALREADY_EXIST")
  BY <1>1, <1>4, <1>5, ErrorDrops
<1>6. CASE Go(Finished(cl)) /\ ~(Current.name = "LIST" /\ listReason = "CHECK" /\ checkOverwrite = FALSE /\ checkExist = TRUE)
  <2>1. Welcome(Head(inBuf))
    BY <1>1, <1>2 DEF Welcome
  <2>2. Proceeds(cl.commandList)
    BY <1>1, <1>3, <1>6, <2>1, ProceedsNow
  <2>3. cl' = Finished(cl)
    BY <1>6 DEF Go
  <2>4. cl'.putPos = cl.putPos
    BY <1>3, <2>3, FinishedPlace
  <2> QED
    BY <1>1, <2>2, <2>4 DEF NextCommand
<1> QED
  <2>1. Error(cl, "ERR_FILE_ALREADY_EXIST")
        \/ (Go(Finished(cl)) /\ ~(Current.name = "LIST" /\ listReason = "CHECK" /\ checkOverwrite = FALSE /\ checkExist = TRUE))
    BY <1>1
  <2> QED
    BY <2>1, <1>5, <1>6

LEMMA StoredSplits ==
  ASSUME FishInv, ManageStored, Elsewhere
  PROVE  Stores
<1>1. PICK n \in 0 .. Len(toPut) :
        /\ n = 0 <=> toPut = << >>
        /\ toPut' = SubSeq(toPut, n + 1, Len(toPut))
        /\ Go(Finished(CASE n > 0 -> SendPortion(TakePortion(n), n)
                          [] n = 0 /\ ~checkExist /\ job.perm ->
                               SendCommand(TakePortion(n), "CHMOD", job.p, "", 0, 0)
                          [] OTHER -> TakePortion(n)))
  BY Zenon DEF ManageStored
<1>2. /\ pc = "parse" /\ inBuf # << >> /\ cl.rawRead = 0 /\ Head(inBuf).k = "status" /\ Rc \div 100 = 2 /\ Current.name \in Writing
      /\ UNCHANGED <<wireVars, job, server, fs, srv, srvOut, checkOverwrite, listReason, held, mimeTypeSent, delivered>>
  BY Zenon DEF ManageStored, Completed, Answered, Parsing, Elsewhere, serverVars, Current
<1>3. Welcome(Head(inBuf))
  BY <1>2, UnitFacts DEF Welcome
<1>4. /\ toPut \in Seq(Portion) /\ Len(toPut) \in Nat /\ n \in Nat /\ cl \in ConnectionSet /\ cl.commandList = << >>
      /\ job \in JobSet /\ job.p \in Path /\ cl.putPos \in Nat
  <2>1. job \in JobSet /\ cl \in ConnectionSet /\ cl.commandList = << >> /\ toPut \in Seq(Portion)
    BY <1>2 DEF FishInv, FishTypeInv, CurrentInv
  <2>2. job.p \in Path
    BY <2>1 DEF JobSet
  <2>3. Len(toPut) \in Nat /\ n \in Nat
    <3>1. n \in 0 .. Len(toPut)
      BY Zenon, <1>1
    <3>2. Len(toPut) \in Nat
      BY <2>1, LenProperties
    <3> QED
      BY <3>1, <3>2
  <2>4. cl.putPos \in Nat
    BY <2>1, ConnectionFields
  <2> QED
    BY <2>1, <2>2, <2>3, <2>4
<1> DEFINE d == SubSeq(toPut, 1, n)
           r == TakePortion(n)
           pos == IF NextWriting = "WRITE" THEN cl.putPos + n ELSE cl.putPos
<1>5. d \in Seq(Portion) /\ Len(d) = n
  BY <1>1, <1>4, Cut
<1>6. NextWriting \in {"WRITE", "APPEND"}
  BY <1>2 DEF NextWriting, Writing, Current
<1>7. /\ r \in ConnectionSet /\ r.childPid = cl.childPid /\ r.qlist = cl.qlist /\ r.writeReady = cl.writeReady /\ r.outBuf = cl.outBuf
      /\ r.rawRead = cl.rawRead /\ r.fishCommand = cl.fishCommand /\ r.isRunning = cl.isRunning
      /\ r.commandList = << >> /\ r.sendLen = n /\ r.rawData = d /\ r.nextId \in Nat /\ r.putPos = pos
  <2>1. pos \in Nat
    BY <1>4
  <2>2. r = [cl EXCEPT !.rawData = d, !.sendLen = n, !.putPos = pos]
    BY <1>4 DEF TakePortion, ConnectionSet
  <2> HIDE DEF d, r, pos
  <2> QED
    BY <1>4, <1>5, <2>1, <2>2 DEF ConnectionSet
<1>8. pos = cl.putPos + (IF NextWriting = "WRITE" THEN n ELSE 0)
  BY <1>4
<1> HIDE DEF r, pos
<1>9. ASSUME NEW t \in ConnectionSet, Go(Finished(t)),
             t.qlist = r.qlist, t.writeReady = r.writeReady, t.outBuf = r.outBuf, t.fishCommand = r.fishCommand,
             t.isRunning = r.isRunning, t.rawRead = r.rawRead, t.sendLen = r.sendLen, t.rawData = r.rawData, t.putPos = r.putPos
      PROVE  /\ Proceeds(t.commandList) /\ t.commandList \in Seq(RequestSet)
             /\ cl'.rawData = SubSeq(toPut, 1, n) /\ cl'.sendLen = n
             /\ cl'.putPos = cl.putPos + (IF NextWriting = "WRITE" THEN n ELSE 0)
  <2>1. cl' = Finished(t)
    BY <1>9 DEF Go
  <2>2. cl.qlist = << >> /\ cl.writeReady = TRUE /\ cl.outBuf = << >>
    BY <1>2, <1>3, LastUnit DEF Welcome
  <2>3. cl'.rawData = t.rawData /\ cl'.sendLen = t.sendLen
    BY ZenonT(90), <1>7, <1>9, <2>1, <2>2, FinishedFacts
  <2>4. cl'.putPos = t.putPos
    BY <2>1, FinishedPlace
  <2>5. Proceeds(t.commandList)
    <3>1. Current.name \notin {"LIST", "READ"}
      BY <1>2 DEF Writing
    <3> QED
      BY <1>2, <1>3, <1>7, <1>9, <3>1, ProceedsNow
  <2> QED
    BY <1>7, <1>8, <1>9, <2>3, <2>4, <2>5, ConnectionFields
<1>10. CASE n > 0
  <2> DEFINE at == IF NextWriting = "WRITE" THEN cl.putPos ELSE 0
             c == Request(NextWriting, r.nextId, job.p, "", at, n)
             t == SendCommand(r, NextWriting, job.p, "", at, n)
  <2>0. n # 0
    BY <1>4, <1>10
  <2>1. Go(Finished(t))
    BY Zenon, <1>1, <1>10, <2>0 DEF SendPortion, r
  <2>2. c \in RequestSet /\ at \in Nat /\ c.name = NextWriting /\ c.n = n /\ c.p = job.p /\ c.at = at
    BY <1>4, <1>6, <1>7 DEF Request, RequestSet, CommandNames, Writing
  <2>9. at = (IF NextWriting = "WRITE" THEN cl.putPos ELSE 0)
    OBVIOUS
  <2> HIDE DEF at
  <2>3. Queued(t, r, c)
    BY <1>7, <2>2, SendCommandFacts
  <2>8. t.putPos = r.putPos
    BY <1>7 DEF SendCommand, ConnectionSet
  <2> HIDE DEF c, t
  <2>4. t.commandList = <<c>> /\ Head(t.commandList) = c /\ Tail(t.commandList) = << >> /\ t.commandList # << >>
    BY <1>7, <2>2, <2>3, TailOfSingle DEF Queued
  <2>5. StoresWith(n, t.commandList) /\ t.commandList \in Seq(RequestSet)
    BY <1>1, <1>9, <2>0, <2>1, <2>2, <2>3, <2>4, <2>8, <2>9 DEF Queued, StoresWith
  <2> QED
    BY <1>2, <2>5 DEF Stores
<1>11. CASE n = 0 /\ ~checkExist /\ job.perm
  <2> DEFINE c == Request("CHMOD", r.nextId, job.p, "", 0, 0)
             t == SendCommand(r, "CHMOD", job.p, "", 0, 0)
  <2>0. ~(n > 0)
    BY <1>11
  <2>1. Go(Finished(t))
    BY Zenon, <1>1, <1>11, <2>0 DEF r
  <2>2. c \in RequestSet /\ c.name = "CHMOD" /\ c.p = job.p
    BY <1>4, <1>7 DEF Request, RequestSet, CommandNames, Writing, Acting
  <2>3. Queued(t, r, c)
    BY <1>7, <2>2, SendCommandFacts
  <2>8. t.putPos = r.putPos
    BY <1>7 DEF SendCommand, ConnectionSet
  <2> HIDE DEF c, t
  <2>4. t.commandList = <<c>> /\ Head(t.commandList) = c /\ Tail(t.commandList) = << >> /\ t.commandList # << >>
    BY <1>7, <2>2, <2>3, TailOfSingle DEF Queued
  <2>5. StoresWith(n, t.commandList) /\ t.commandList \in Seq(RequestSet)
    BY <1>1, <1>9, <2>0, <2>1, <2>2, <2>3, <2>4, <2>8 DEF Queued, StoresWith
  <2> QED
    BY <1>2, <2>5 DEF Stores
<1>12. CASE n = 0 /\ ~(~checkExist /\ job.perm)
  <2>0. ~(n > 0)
    BY <1>12
  <2>1. Go(Finished(r))
    BY Zenon, <1>1, <1>12, <2>0 DEF r
  <2>2. StoresWith(n, r.commandList) /\ r.commandList \in Seq(RequestSet)
    BY <1>1, <1>7, <1>9, <2>0, <2>1 DEF StoresWith
  <2> QED
    BY <1>2, <2>2 DEF Stores
<1> QED
  BY <1>4, <1>10, <1>11, <1>12

-----------------------------------------------------------------------------
(* The job's commands are queued and the first one is sent.                *)
Begins ==
  /\ pc = "open" /\ pc' = "select" /\ job \in JobSet /\ ToCome' = << >>
  /\ cl'.isRunning = TRUE /\ cl'.rawRead = 0 /\ (job.op = "put" => cl'.putPos = 0)
  /\ alive' = TRUE => srv'.mode \in {"login", "main"}
  /\ \E list \in Seq(RequestSet) :
       /\ list # << >> /\ Current' = Head(list) /\ cl'.commandList = Tail(list) /\ Head(list).name # "none"
       /\ job.op \in {"get", "put", "rename", "symlink", "copy"} => Plan(list) /\ (Guarded => ListedFirst(list))
  /\ Guarded => checkOverwrite' = FALSE /\ listReason' = "CHECK"
  /\ job.op = "listDir" => listReason' = "LIST"
  /\ UNCHANGED <<job, server, fs, asked, toPut, delivered>> /\ failed' \in {failed, {}} /\ before' \in {before, fs}

LEMMA StartBegins ==
  ASSUME NEW s \in ConnectionSet, s.qlist = << >>, s.writeReady = TRUE, s.outBuf = << >>, Early(s.commandList),
         s.commandList = << >> \/ Head(s.commandList).name # "none",
         job \in JobSet, StartRun(s), pc = "open", ToCome' = << >>,
         UNCHANGED <<job, server, fs, asked, toPut, delivered>>, failed' \in {failed, {}}, before' \in {before, fs},
         alive' = TRUE => srv'.mode \in {"login", "main"}
  PROVE  Begins
<1> DEFINE t == Enqueue(s, job)
           u == [t EXCEPT !.isRunning = TRUE]
           list == t.commandList
<1>1. AddsJob(t, s)
  BY EnqueueAdds
<1>2. \A w : w = t /\ job.op \in {"get", "put", "rename", "symlink", "copy"} =>
              Plan(w.commandList) /\ (Guarded => ListedFirst(w.commandList))
  BY EnqueuePlan
<1>3. job.op = "put" => t.putPos = 0
  <2> SUFFICES ASSUME job.op = "put" PROVE t.putPos = 0
    OBVIOUS
  <2>1. t = Simple(Simple([s EXCEPT !.putPos = 0], "LIST", job.p, ""), "STOR", job.p, "")
    BY DEF Enqueue, EnqueueTransfer
  <2> DEFINE a == [s EXCEPT !.putPos = 0]
             b == Simple(a, "LIST", job.p, "")
  <2>2. a.putPos = 0 /\ "putPos" \in DOMAIN a
    BY DEF ConnectionSet
  <2> HIDE DEF a
  <2>3. b.putPos = 0 /\ "putPos" \in DOMAIN b
    BY <2>2 DEF Simple, SendCommand
  <2> HIDE DEF b
  <2> QED
    BY <2>1, <2>3 DEF Simple, SendCommand
<1>4. cl' = Finished(u) /\ pc' = "select"
  BY DEF StartRun
<1>5. /\ Guarded => checkOverwrite' = FALSE /\ listReason' = "CHECK"
      /\ job.op = "listDir" => listReason' = "LIST"
  <2>1. job.overwrite \in BOOLEAN
    BY DEF JobSet
  <2> QED
    BY <2>1 DEF StartRun, Guarded
<1> HIDE DEF t
<1>6. /\ t \in ConnectionSet /\ t.qlist = << >> /\ t.writeReady = TRUE /\ t.outBuf = << >> /\ list \in Seq(RequestSet)
      /\ Len(list) \in Nat /\ Len(s.commandList) \in Nat
  BY <1>1, ConnectionFields, LenProperties DEF AddsJob, Alike
<1>7. /\ u \in ConnectionSet /\ u.qlist = << >> /\ u.writeReady = TRUE /\ u.outBuf = << >>
      /\ u.commandList = list /\ u.isRunning = TRUE /\ u.putPos = t.putPos
  BY <1>6 DEF ConnectionSet
<1> HIDE DEF u
<1>8. list # << >> /\ Head(list).name # "none"
  <2>1. Len(list) > Len(s.commandList)
    BY <1>1 DEF AddsJob
  <2>2. list # << >> /\ Head(list) = list[1] /\ 1 \in 1 .. Len(list)
    <3> HIDE DEF list
    <3>1. list # << >>
      BY <1>6, <2>1, Empties
    <3> QED
      BY <1>6, <2>1, <3>1, HeadTailProperties
  <2>3. CASE s.commandList = << >>
    <3>1. 1 \in Len(s.commandList) + 1 .. Len(list)
      BY <2>1, <2>2, <2>3, <1>6, Empties
    <3> QED
      BY <1>1, <2>2, <3>1 DEF AddsJob
  <2>4. CASE s.commandList # << >>
    <3>1. s.commandList \in Seq(RequestSet)
      BY ConnectionFields
    <3>2. Head(s.commandList) = s.commandList[1] /\ Len(s.commandList) \in Nat \ {0}
      BY <2>4, <3>1, HeadTailProperties, EmptySeq
    <3>3. list[1] = s.commandList[1]
      BY <1>1, <3>2 DEF AddsJob, Alike
    <3> QED
      BY <2>2, <2>4, <3>2, <3>3
  <2> QED
    BY <2>3, <2>4
<1>9. /\ cl'.fishCommand = Head(list) /\ cl'.rawRead = 0 /\ cl'.commandList = Tail(list) /\ cl'.isRunning = TRUE
  <2> HIDE DEF list
  <2> QED
    BY <1>4, <1>7, <1>8, FinishedFacts
<1>10. cl'.putPos = t.putPos
  BY <1>4, <1>7, FinishedPlace
<1>11. job.op \in {"get", "put", "rename", "symlink", "copy"} => Plan(list) /\ (Guarded => ListedFirst(list))
  BY <1>2
<1> HIDE DEF list
<1> QED
  BY <1>3, <1>4, <1>5, <1>6, <1>8, <1>9, <1>10, <1>11 DEF Begins, Current

LEMMA RestIsFree ==
  ASSUME FishInv, pc = "open"
  PROVE  /\ cl \in ConnectionSet /\ job \in JobSet /\ cl.isRunning = FALSE /\ cl.commandList = << >> /\ cl.outBuf = << >>
         /\ cl.qlist = << >> /\ cl.writeReady = TRUE
<1>1. /\ cl \in ConnectionSet /\ job \in JobSet /\ cl.isRunning = FALSE /\ cl.commandList = << >> /\ cl.outBuf = << >>
  BY ConnectionFields DEF FishInv, FishTypeInv, RunInv, CurrentInv
<1>2. Current \in RequestSet
  BY <1>1, ConnectionFields DEF Current
<1>3. cl.outBuf # Lines(Current) /\ cl.outBuf # <<ShellLine(Current)>>
  BY <1>1, <1>2, LinesFacts, Empties
<1> QED
  BY <1>1, <1>3 DEF FishInv, BufferInv

LEMMA OpenBegins ==
  ASSUME FishInv, OpenConnected, Elsewhere
  PROVE  Begins
<1>1. /\ pc = "open" /\ cl.childPid = TRUE /\ StartRun(cl) /\ inBuf' = << >>
      /\ UNCHANGED <<job, toPut, delivered, wireVars, server, fs, srv, srvOut, failed, before, asked>>
  <2>1. cl.childPid \in BOOLEAN
    BY ConnectionFields DEF FishInv, FishTypeInv
  <2> QED
    BY <2>1 DEF OpenConnected, StartRun, Elsewhere, serverVars, appVars
<1>2. cl \in ConnectionSet /\ job \in JobSet /\ cl.isRunning = FALSE /\ cl.commandList = << >> /\ cl.outBuf = << >>
      /\ cl.qlist = << >> /\ cl.writeReady = TRUE
  BY <1>1, RestIsFree
<1>3. ToCome' = << >>
  <2>1. ToCome = << >>
    BY <1>1, <1>2 DEF FishInv, QuietInv
  <2>2. inBuf = << >> /\ toClient = << >> /\ srvOut = << >>
    BY <2>1, Streams DEF FishInv
  <2> QED
    BY <1>1, <2>1, <2>2 DEF ToCome, wireVars
<1>4. Early(cl.commandList)
  BY <1>2, Empties DEF Early
<1>5. alive' = TRUE => srv'.mode \in {"login", "main"}
  BY <1>1, <1>2 DEF FishInv, QuietInv, wireVars
<1> QED
  BY <1>1, <1>2, <1>3, <1>4, <1>5, StartBegins

LEMMA ConnectBegins ==
  ASSUME FishInv, Connect
  PROVE  Begins
<1> DEFINE s0 == [cl EXCEPT !.childPid = TRUE]
           f == Request("FISH", s0.nextId, "", "", 0, 0)
           s1 == SendCommand(s0, "FISH", "", "", 0, 0)
           v == Request("VER", s1.nextId, "", "", 0, 0)
           s2 == SendCommand(s1, "VER", "", "", 0, 0)
<1>1. /\ pc = "open" /\ StartRun(s2) /\ inBuf' = << >> /\ toClient' = << >> /\ srvOut' = << >>
      /\ UNCHANGED <<job, toPut, delivered, server, fs, asked>> /\ failed' = {} /\ before' = fs
      /\ srv'.mode = "login"
  BY DEF Connect, OpenConnects, StartRun, Idle
<1>2. cl \in ConnectionSet /\ job \in JobSet /\ cl.commandList = << >> /\ cl.outBuf = << >>
      /\ cl.qlist = << >> /\ cl.writeReady = TRUE
  BY <1>1, RestIsFree
<1>4. /\ s0 \in ConnectionSet /\ s0.qlist = << >> /\ s0.writeReady = TRUE /\ s0.outBuf = << >>
      /\ s0.commandList = << >> /\ s0.nextId \in Nat
  BY <1>2 DEF ConnectionSet
<1> HIDE DEF s0
<1>5. f \in RequestSet /\ f.name = "FISH"
  BY <1>4 DEF Request, RequestSet, CommandNames
<1>6. Queued(s1, s0, f)
  BY <1>4, <1>5, SendCommandFacts
<1> HIDE DEF f, s1
<1>7. s1 \in ConnectionSet /\ s1.nextId \in Nat
  BY <1>6, ConnectionFields DEF Queued
<1>8. v \in RequestSet /\ v.name = "VER"
  BY <1>7 DEF Request, RequestSet, CommandNames
<1>9. Queued(s2, s1, v)
  BY <1>7, <1>8, SendCommandFacts
<1> HIDE DEF v, s2
<1>10. s2 \in ConnectionSet /\ s2.qlist = << >> /\ s2.writeReady = TRUE /\ s2.outBuf = << >>
  BY <1>4, <1>6, <1>9 DEF Queued
<1> DEFINE l2 == s2.commandList
           l1 == s1.commandList
<1>13. Len(l2) = 2 /\ l2[1] = f /\ l2[2] = v /\ l2 \in Seq(RequestSet)
  <2>1. l1 = Append(<< >>, f) /\ l2 = Append(l1, v)
    BY <1>4, <1>6, <1>9 DEF Queued
  <2>2. l1 = <<f>>
    BY <1>5, <2>1
  <2> HIDE DEF l1, l2
  <2>3. <<f>> \in Seq(RequestSet) /\ Len(<<f>>) = 1 /\ <<f>>[1] = f
    BY <1>5, Single
  <2> QED
    BY <1>5, <1>8, <2>1, <2>2, <2>3, AppendProperties
<1>14. Early(s2.commandList) /\ Head(s2.commandList).name # "none"
  <2> HIDE DEF l2
  <2>1. l2 # << >> /\ Head(l2) = l2[1]
    BY <1>13, Empties, HeadTailProperties
  <2>2. Early(l2) /\ Head(l2).name # "none"
    BY <1>5, <1>8, <1>13, <2>1 DEF Early
  <2> QED
    BY <2>2 DEF l2
<1>15. ToCome' = << >>
  <2>1. << >> \o << >> = << >>
    BY Empties, ConcatEmptySeq
  <2> QED
    BY <1>1, <2>1 DEF ToCome
<1> HIDE DEF l1, l2
<1> QED
  BY <1>1, <1>2, <1>10, <1>14, <1>15, StartBegins

-----------------------------------------------------------------------------
(* The buffer is written.                                                  *)
Writes ==
  /\ pc = "select" /\ pc' = pc /\ WriterEffect /\ ToCome' = ToCome /\ (Asked' => Asked)
  /\ cl'.recvLen = cl.recvLen /\ cl'.putPos = cl.putPos
  /\ UNCHANGED <<alive, serverVars, appVars, jobVars>>

LEMMA WritingKeepsPlace ==
  ASSUME NEW s \in ConnectionSet, NEW units
  PROVE  WriteChild(s, units).putPos = s.putPos /\ "rawWrite" \in DOMAIN WriteChild(s, units)
                                                 /\ "putPos" \in DOMAIN WriteChild(s, units)
BY DEF ConnectionSet, WriteChild

LEMMA PlaceKept ==
  ASSUME FishInv, SelectWrites
  PROVE  cl'.putPos = cl.putPos
<1>1. PICK n \in 0 .. Len(cl.outBuf) :
        LET rest == SubSeq(cl.outBuf, n + 1, Len(cl.outBuf)) IN
        cl' = IF rest = << >> THEN Sent([cl EXCEPT !.outBuf = << >>, !.outBusy = FALSE])
              ELSE [cl EXCEPT !.outBuf = rest]
  BY Zenon DEF SelectWrites
<1> DEFINE s == [cl EXCEPT !.outBuf = << >>, !.outBusy = FALSE]
           w == WriteChild(s, DataUnits(s.rawData))
           x == WriteChild(s, <<Newlines>>)
           q == IF s.qlist = << >> THEN << >> ELSE Tail(s.qlist)
           r == [s EXCEPT !.qlist = q]
<1>2. cl \in ConnectionSet
  BY DEF FishInv, FishTypeInv
<1>3. s \in ConnectionSet /\ s.putPos = cl.putPos /\ s.rawWrite \in Nat \cup {-1}
  BY <1>2, Empties DEF ConnectionSet
<1>4. CASE cl' = Sent(s)
  <2> HIDE DEF s
  <2>1. w.putPos = s.putPos /\ x.putPos = s.putPos /\ "putPos" \in DOMAIN w /\ "putPos" \in DOMAIN x
    BY <1>3, WritingKeepsPlace
  <2>2. q \in Seq(RequestSet)
    BY <1>3, ConnectionFields, Empties, HeadTailProperties
  <2>3. r \in ConnectionSet /\ r.putPos = s.putPos
    <3> HIDE DEF q
    <3> QED
      BY <1>3, <2>2 DEF ConnectionSet
  <2>4. WriteChild(r, Lines(Head(q))).putPos = r.putPos
    BY <2>3, WritingKeepsPlace
  <2>5. \/ cl' = [w EXCEPT !.rawWrite = @ - Len(s.rawData)] \/ cl' = [x EXCEPT !.rawWrite = -1]
        \/ cl' = [s EXCEPT !.qlist = q, !.writeReady = TRUE] \/ cl' = WriteChild(r, Lines(Head(q)))
    BY <1>3, <1>4 DEF Sent
  <2> HIDE DEF w, x, q, r
  <2>6. [s EXCEPT !.qlist = q, !.writeReady = TRUE].putPos = s.putPos
    BY <1>3 DEF ConnectionSet
  <2> QED
    BY <1>3, <2>1, <2>3, <2>4, <2>5, <2>6
<1>5. CASE cl' # Sent(s)
  BY <1>1, <1>2, <1>5 DEF ConnectionSet
<1> QED
  BY <1>4, <1>5

LEMMA SelectWritesSplits ==
  ASSUME FishInv, SelectWrites, Elsewhere
  PROVE  Writes
<1>1. WriterEffect
  BY SelectWritesEffect DEF FishInv
<1>2. pc = "select" /\ pc' = pc /\ UNCHANGED <<inBuf, toClient, alive, serverVars, appVars, jobVars, srvOut>>
  BY DEF SelectWrites, Selecting, Elsewhere, serverVars
<1>3. ToCome' = ToCome
  BY <1>2 DEF ToCome
<1>4. ToRead \in Seq(ClientUnit) /\ cl.rawData \in Seq(Portion)
  BY Streams, ConnectionFields DEF FishInv, FishTypeInv
<1>5. ASSUME NEW x \in Seq(ClientUnit), ToRead' = ToRead \o x, \A i \in 1 .. Len(x) : x[i].u # "line", Asked' PROVE Asked
  <2>1. /\ Len(ToRead) \in Nat /\ Len(x) \in Nat /\ Len(ToRead') = Len(ToRead) + Len(x)
        /\ \A i \in 1 .. Len(ToRead) : ToRead'[i] = ToRead[i]
        /\ \A i \in Len(ToRead) + 1 .. Len(ToRead) + Len(x) : ToRead'[i] = x[i - Len(ToRead)]
    BY <1>5, Appended DEF FishInv
  <2>2. PICK i \in 1 .. Len(ToRead') : ToRead'[i].u = "line"
    BY <1>5 DEF Asked
  <2> DEFINE n == Len(ToRead)
             m == Len(x)
  <2>3. n \in Nat /\ m \in Nat /\ i \in 1 .. n + m
    BY <2>1, <2>2
  <2>4. i \in 1 .. n
    <3> SUFFICES ASSUME i \notin 1 .. n PROVE FALSE
      OBVIOUS
    <3>1. i \in n + 1 .. n + m /\ i - n \in 1 .. m
      <4> HIDE DEF n, m
      <4> QED
        BY <2>3
    <3>2. ToRead'[i] = x[i - n]
      BY <2>1, <3>1
    <3> QED
      BY <1>5, <2>2, <3>1, <3>2
  <2> QED
    BY <2>1, <2>2, <2>4 DEF Asked
<1>6. Asked' => Asked
  <2>1. ToRead' = ToRead \/ ToRead' = ToRead \o DataUnits(cl.rawData) \/ ToRead' = ToRead \o <<Newlines>>
    BY <1>1 DEF WriterEffect
  <2>2. DataUnits(cl.rawData) \in Seq(ClientUnit) /\ \A i \in 1 .. Len(DataUnits(cl.rawData)) : DataUnits(cl.rawData)[i].u # "line"
    BY <1>4, DataFacts
  <2>3. <<Newlines>> \in Seq(ClientUnit) /\ \A i \in 1 .. Len(<<Newlines>>) : <<Newlines>>[i].u # "line"
    BY OtherUnits
  <2> QED
    BY <1>5, <2>1, <2>2, <2>3 DEF Asked
<1> QED
  BY <1>1, <1>2, <1>3, <1>6, LengthKept, PlaceKept DEF Writes

-----------------------------------------------------------------------------
(* Every step of the client is of one of these kinds.                      *)

(* run() returns. *)
Returns ==
  /\ pc = "select" /\ cl.isRunning = FALSE /\ pc' = "idle" /\ result' = "pass" /\ ToCome' = ToCome
  /\ UNCHANGED <<wireVars, serverVars, appVars, cl, job, inBuf, checkExist, checkOverwrite, listReason, toPut, held, mimeTypeSent, delivered>>
ClientKinds == Begins \/ Returns \/ Drops \/ Turns \/ (Writes /\ cl.isRunning = TRUE) \/ Takes \/ NextCommand \/ Stores

LEMMA NotSent ==
  ASSUME FishInv, RestInv, OpenFails \/ SelectBroken, Elsewhere
  PROVE  Drops
<1>1. cl \in ConnectionSet /\ alive \in BOOLEAN
  BY DEF FishInv, FishTypeInv
<1>2. \/ pc = "open" /\ ShutdownError("ERR_CANNOT_CONNECT") /\ UNCHANGED <<wireVars, job>>
      \/ pc = "select" /\ alive = FALSE /\ ShutdownError("ERR_CONNECTION_BROKEN") /\ UNCHANGED <<wireVars, job>>
  BY <1>1 DEF OpenFails, SelectBroken, Selecting
<1>3. pc' = "idle" /\ result' # "pass" /\ cl'.isRunning = FALSE
  BY <1>1, <1>2 DEF ShutdownError, Error, Shutdown, ConnectionSet
<1>4. alive = TRUE => srv.mode = "main" /\ Noise(toServer)
  BY <1>2 DEF FishInv, RunInv, RestInv
<1> QED
  BY <1>2, <1>3, <1>4 DEF Drops, Elsewhere

LEMMA ClientSplit ==
  ASSUME FishInv, RestInv, Working => Current.name # "none", ClientRun, Elsewhere
  PROVE  ClientKinds
<1>1. CASE OpenConnected
  BY <1>1, OpenBegins DEF ClientKinds
<1>2. CASE OpenFails \/ SelectBroken
  BY <1>2, NotSent DEF ClientKinds
<1>3. CASE SelectWrites
  <2>1. cl.isRunning = TRUE
    BY <1>3, ConnectionFields DEF SelectWrites, Selecting, FishInv, FishTypeInv
  <2> QED
    BY <1>3, <2>1, SelectWritesSplits DEF ClientKinds
<1>4. CASE SelectReads
  <2>1. inBuf = << >>
    BY <1>4 DEF FishInv, RunInv, SelectReads, Selecting
  <2>2. ToCome' = ToCome
    BY <1>4, <2>1, Moves DEF FishInv, Elsewhere, serverVars
  <2>3. Turns
    BY <1>4, <2>2 DEF Turns, SelectReads, Selecting, Elsewhere
  <2> QED
    BY <2>3 DEF ClientKinds
<1>5. CASE SelectTimesOut \/ ParseEnds
  <2>1. ToCome' = ToCome
    BY <1>5 DEF SelectTimesOut, ParseEnds, Elsewhere, serverVars, wireVars, clientVars, ToCome
  <2>2. Turns
    BY <1>5, <2>1 DEF Turns, SelectTimesOut, ParseEnds, Selecting, Elsewhere, wireVars, clientVars, jobVars
  <2> QED
    BY <2>2 DEF ClientKinds
<1>6. CASE RunEnds
  <2>1. ToCome' = ToCome
    BY <1>6 DEF RunEnds, Elsewhere, serverVars, wireVars, ToCome
  <2>2. cl.isRunning = FALSE
    BY <1>6, ConnectionFields DEF RunEnds, FishInv, FishTypeInv
  <2>3. Returns
    BY <1>6, <2>1, <2>2 DEF Returns, RunEnds, Elsewhere
  <2> QED
    BY <2>3 DEF ClientKinds
<1>7. CASE ReceiveData
  BY <1>7, ReceiveDataTakes DEF ClientKinds
<1>8. CASE ManageText
  BY <1>8, TextSplits DEF ClientKinds
<1>9. CASE ManageListing
  BY <1>9, ListingTakes DEF ClientKinds
<1>10. CASE ManageSize
  BY <1>10, SizeSplits DEF ClientKinds
<1>11. CASE ManageGo
  BY <1>11, GoSplits DEF ClientKinds
<1>12. CASE ManageRefused
  <2>1. pc = "parse" /\ inBuf # << >>
    BY <1>12 DEF ManageRefused, Answered, Parsing
  <2>2. Current.name # "none"
    BY <2>1, UnitFacts DEF Working
  <2> QED
    BY <1>12, <2>2, RefusedSplits DEF ClientKinds
<1>13. CASE ManageDone
  BY <1>13, DoneSplits DEF ClientKinds
<1>14. CASE ManageStored
  BY <1>14, StoredSplits DEF ClientKinds
<1> QED
  BY <1>1, <1>2, <1>3, <1>4, <1>5, <1>6, <1>7, <1>8, <1>9, <1>10, <1>11, <1>12, <1>13, <1>14 DEF ClientRun

-----------------------------------------------------------------------------
(* Every step of the server is of one of these kinds; all but the first    *)
(* are about the current command of a job that is under way.               *)

Stays == UNCHANGED <<fs, srv, failed>> /\ ToCome' = ToCome /\ (Asked' => Asked) /\ (ToRead' = ToRead \/ srv.mode \in {"main", "login"})
LogsIn == srv.mode \in {"login", "code"} /\ Current.name = "FISH" /\ UNCHANGED <<fs, failed>>
HasRead == srv.mode = "main" /\ Asked /\ Asked' = FALSE /\ Current.name \notin {"none", "FISH"}
Executes ==
  /\ HasRead /\ Current.name \notin Writing /\ srv' = srv
  /\ \E o \in PerlOutcomes(Current) :
       fs' = o.fs /\ ToCome' = Printed(Current.id, o.reply) /\ (IF o.ok THEN UNCHANGED failed ELSE Fail(Current))
Opened == IF Current.name = "STOR" \/ fs[Current.p] = Absent THEN << >> ELSE fs[Current.p]
Opens ==
  /\ HasRead /\ Current.name \in Writing /\ fs[Current.p] # Dir /\ (Current.name = "APPEND" => fs[Current.p] # Absent)
  /\ fs' = [fs EXCEPT ![Current.p] = Opened] /\ ToCome' = << >> /\ failed' = failed
  /\ srv' = [mode |-> "alt", c |-> Current, left |-> Current.n, error |-> FALSE,
             pos |-> IF Current.name = "APPEND" THEN Len(Opened) ELSE Current.at]
CannotOpen ==
  /\ HasRead /\ Current.name \in Writing /\ ToCome' = Printed(Current.id, <<Status(400)>>) /\ Fail(Current) /\ UNCHANGED <<fs, srv>>
AsksForData ==
  /\ srv.mode = "alt" /\ srv.c = Current /\ Current.name \in Writing /\ Asked' = FALSE
  /\ srv' = [srv EXCEPT !.mode = "data"] /\ ToCome' = Printed(Current.id, <<Status(100)>>) /\ UNCHANGED <<fs, failed>>
TakesData ==
  /\ srv.mode = "data" /\ srv.left > 0 /\ srv.c = Current /\ Current.name \in Writing
  /\ ToCome = << >> /\ ToCome' = << >> /\ (Asked' => Asked) /\ failed' = failed
  /\ ToRead # << >> /\ Head(ToRead) \in ClientUnit /\ Head(ToRead).u = "data" /\ ToRead' = Tail(ToRead)
  /\ \/ /\ ~srv.error
        /\ fs' = [fs EXCEPT ![Current.p] =
                     Padded(@, srv.pos) \o <<Head(ToRead).d>> \o SubSeq(@, srv.pos + 2, Len(@))]
        /\ srv' = [srv EXCEPT !.left = @ - 1, !.pos = @ + 1]
     \/ fs' = fs /\ srv' = [srv EXCEPT !.left = @ - 1, !.error = TRUE]
EndsWrite ==
  /\ srv.mode = "data" /\ srv.left = 0 /\ srv.c = Current /\ Current.name \in Writing /\ Asked' = FALSE
  /\ fs' = fs /\ ToRead' = ToRead /\ srv' = Idle
  /\ ToCome' = ToCome \o Printed(Current.id, <<Status(IF srv.error THEN 500 ELSE 200)>>)
  /\ IF srv.error THEN Fail(Current) ELSE UNCHANGED failed
ServerKinds ==
  Stays \/ (Working /\ (LogsIn \/ Executes \/ Opens \/ CannotOpen \/ AsksForData \/ TakesData \/ EndsWrite))

(* What the client cannot have asked for, the server does not do.          *)
LEMMA AtWork ==
  ASSUME FishInv, cl.isRunning = TRUE
  PROVE  Working /\ cl.childPid = TRUE
BY DEF FishInv, FishTypeInv, RunInv, Working

LEMMA NotAsked ==
  ASSUME NEW s, \A i \in 1 .. Len(s) : s[i].u # "line"
  PROVE  (\E i \in 1 .. Len(s) : s[i].u = "line") = FALSE
OBVIOUS

LEMMA SkipsStay ==
  ASSUME FishInv, StaleInv, ServerSkips \/ ServerPrints, UNCHANGED <<clientVars, appVars>>
  PROVE  Stays
<1>1. CASE ServerPrints
  <2>1. UNCHANGED <<fs, srv, failed, cl, inBuf, toServer>>
    BY <1>1 DEF ServerPrints, clientVars
  <2>2. ToCome' = ToCome
    BY <1>1, <2>1, Moves DEF FishInv
  <2>3. ToRead' = ToRead
    BY <2>1 DEF ToRead
  <2> QED
    BY <2>1, <2>2, <2>3 DEF Stays, Asked
<1>2. CASE ServerSkips
  <2>1. PICK u \in {"line", "alt", "newlines"} : Reads(u) /\ srv.mode \in {"main", "login"} /\ UNCHANGED serverVars
    BY <1>2 DEF ServerSkips
  <2>2. UNCHANGED <<server, fs, srv, srvOut, failed, clientVars>> /\ srvOut' = << >> /\ srvOut' \in Seq(ServerUnit)
    BY <2>1, Empties DEF serverVars, Reads
  <2>3. ToCome' = ToCome /\ \A i \in 1 .. Len(ToRead') : ToRead'[i] = ToRead[i + 1] /\ i + 1 \in 1 .. Len(ToRead)
    BY <2>1, <2>2, UnitRead
  <2>4. Asked' => Asked
    BY <2>3 DEF Asked
  <2> QED
    BY <2>1, <2>2, <2>3, <2>4 DEF Stays
<1> QED
  BY <1>1, <1>2

(* The client of a job that is over has left nothing to do.                *)
LEMMA RestStays ==
  ASSUME FishInv, StaleInv, RestInv, ServerNext, UNCHANGED <<clientVars, appVars>>, cl.isRunning = FALSE
  PROVE  (ServerSkips \/ ServerPrints) /\ alive = TRUE /\ alive' = TRUE /\ srv' = srv /\ Noise(toServer')
<1>1. alive = TRUE /\ alive' = TRUE
  BY DEF ServerNext, ServerPrints, ServerStarts, ServerReadsCode, ServerSkips, ServerExecutes, ServerOpens, ServerCannotOpen,
         ServerAsksForData, ServerWrites, ServerEndsWrite, Reads, serverVars, wireVars, FishInv, FishTypeInv
<1>2. srv.mode = "main" /\ Noise(toServer) /\ Understood = "line" /\ toServer \in Seq(ClientUnit)
  BY <1>1 DEF RestInv, FishInv, FishTypeInv, Understood
<1>3. ASSUME NEW u, Reads(u) PROVE u \in {"alt", "newlines"} /\ Noise(toServer')
  <2>1. toServer # << >> /\ Head(toServer).u = u /\ toServer' = Tail(toServer)
    BY <1>3 DEF Reads
  <2>2. /\ Len(toServer) \in Nat \ {0} /\ Head(toServer) = toServer[1]
        /\ \A i \in 1 .. Len(Tail(toServer)) : Tail(toServer)[i] = toServer[i + 1] /\ i + 1 \in 1 .. Len(toServer)
    BY <1>2, <2>1, TailOfUnits
  <2>3. 1 \in 1 .. Len(toServer)
    BY <2>2
  <2> QED
    BY <1>2, <2>1, <2>2, <2>3 DEF Noise, IsNoise
<1>4. ServerSkips \/ ServerPrints
  <2>1. ~Reads("line")
    BY <1>3
  <2> QED
    BY <1>2, <2>1 DEF ServerNext, ServerStarts, ServerReadsCode, ServerExecutes, ServerOpens, ServerCannotOpen,
         ServerAsksForData, ServerWrites, ServerEndsWrite
<1>5. Noise(toServer')
  <2>1. CASE ServerPrints
    BY <1>2, <2>1 DEF ServerPrints
  <2>2. CASE ServerSkips
    BY <1>3, <2>2 DEF ServerSkips
  <2> QED
    BY <1>4, <2>1, <2>2
<1>6. srv' = srv
  BY <1>4 DEF ServerPrints, ServerSkips, serverVars
<1> QED
  BY <1>1, <1>4, <1>5, <1>6

LEMMA StartsLogsIn ==
  ASSUME FishInv, ServerStarts \/ ServerReadsCode, cl.isRunning = TRUE
  PROVE  LogsIn
<1>1. alive = TRUE /\ cl.childPid = TRUE /\ srv.mode \in {"login", "code"} /\ UNCHANGED <<fs, failed>>
  BY AtWork DEF ServerStarts, ServerReadsCode, Reads, FishInv, FishTypeInv
<1>2. LoginPhase \/ CodePhase
  BY <1>1 DEF FishInv, PhaseInv
<1> QED
  BY <1>1, <1>2 DEF LogsIn, LoginPhase, CodePhase

LEMMA ReadNow ==
  ASSUME FishInv, StaleInv, srv.mode = "main", Reads(Understood), UNCHANGED <<clientVars, server>>,
         srvOut' \in Seq(ServerUnit), cl.isRunning = TRUE
  PROVE  HasRead /\ Head(toServer).c = Current /\ Current \in RequestSet /\ ToCome' = srvOut'
<1>1. cl.childPid = TRUE
  BY AtWork
<1>2. /\ Head(toServer).c \in RequestSet /\ Head(toServer).c.name \notin {"none", "FISH"}
      /\ Head(toServer).c = Current /\ Len(ToRead') = 1 /\ IsNoise(ToRead'[1]) /\ ToCome' = srvOut'
  BY <1>1, CommandRead
<1>3. Head(toServer) = ToRead[1] /\ Head(toServer).u = Understood /\ Len(ToRead) \in Nat \ {0}
  BY UnitRead
<1>4. Asked
  <2>1. 1 \in 1 .. Len(ToRead) /\ ToRead[1].u = "line"
    BY <1>3 DEF Understood, FishInv, FishTypeInv
  <2> QED
    BY <2>1 DEF Asked
<1>5. \A i \in 1 .. Len(ToRead') : ToRead'[i].u # "line"
  BY <1>2 DEF IsNoise
<1>6. Asked' = FALSE
  BY <1>5 DEF Asked
<1> QED
  BY <1>2, <1>4, <1>6 DEF HasRead

LEMMA ExecutesNow ==
  ASSUME FishInv, StaleInv, ServerExecutes, UNCHANGED <<clientVars, appVars>>, cl.isRunning = TRUE
  PROVE  Executes
<1> DEFINE c == Head(toServer).c
<1>1. /\ srv.mode = "main" /\ Reads(Understood) /\ UNCHANGED <<clientVars, server, srv>> /\ c.name \notin Writing
      /\ \E o \in Outcomes(c) : fs' = o.fs /\ srvOut' = Printed(c.id, o.reply) /\ (IF o.ok THEN UNCHANGED failed ELSE Fail(c))
  BY DEF ServerExecutes
<1>2. PICK o \in PerlOutcomes(c) : fs' = o.fs /\ srvOut' = Printed(c.id, o.reply) /\ (IF o.ok THEN UNCHANGED failed ELSE Fail(c))
  BY <1>1 DEF Outcomes, FishInv, FishTypeInv
<1>3. srvOut' \in Seq(ServerUnit)
  <2>1. FishInv'
    BY ServerExecutesKeeps
  <2> QED
    BY <2>1 DEF FishInv, FishTypeInv
<1>4. HasRead /\ c = Current /\ ToCome' = srvOut'
  BY <1>1, <1>3, ReadNow
<1> HIDE DEF c
<1> QED
  BY <1>1, <1>2, <1>4 DEF Executes

LEMMA OpensNow ==
  ASSUME FishInv, StaleInv, ServerOpens, UNCHANGED <<clientVars, appVars>>, cl.isRunning = TRUE
  PROVE  Opens
<1> DEFINE c == Head(toServer).c
           f == IF c.name = "STOR" \/ fs[c.p] = Absent THEN << >> ELSE fs[c.p]
<1>1. /\ srv.mode = "main" /\ Reads(Understood) /\ UNCHANGED <<clientVars, server, failed>> /\ c.name \in Writing
      /\ fs[c.p] # Dir /\ (c.name = "APPEND" => fs[c.p] # Absent) /\ fs' = [fs EXCEPT ![c.p] = f] /\ srvOut' = << >>
      /\ srv' = [mode |-> "alt", c |-> c, left |-> c.n, error |-> FALSE,
                 pos |-> IF c.name = "APPEND" THEN Len(f) ELSE c.at]
  BY DEF ServerOpens, FishInv, FishTypeInv
<1>2. srvOut' \in Seq(ServerUnit)
  BY <1>1, Empties
<1>3. HasRead /\ c = Current /\ ToCome' = srvOut'
  BY <1>1, <1>2, ReadNow
<1> HIDE DEF c
<1> QED
  BY <1>1, <1>3 DEF Opens, Opened

LEMMA CannotOpenNow ==
  ASSUME FishInv, StaleInv, ServerCannotOpen, UNCHANGED <<clientVars, appVars>>, cl.isRunning = TRUE
  PROVE  CannotOpen
<1> DEFINE c == Head(toServer).c
<1>1. /\ srv.mode = "main" /\ Reads(Understood) /\ UNCHANGED <<clientVars, server, srv, fs>> /\ c.name \in Writing
      /\ Fail(c) /\ srvOut' = Printed(c.id, <<Status(400)>>)
  BY DEF ServerCannotOpen, FishInv, FishTypeInv
<1>2. srvOut' \in Seq(ServerUnit)
  <2>1. FishInv'
    BY ServerCannotOpenKeeps
  <2> QED
    BY <2>1 DEF FishInv, FishTypeInv
<1>3. HasRead /\ c = Current /\ ToCome' = srvOut'
  BY <1>1, <1>2, ReadNow
<1> HIDE DEF c
<1> QED
  BY <1>1, <1>3 DEF CannotOpen

LEMMA AsksNow ==
  ASSUME FishInv, StaleInv, ServerAsksForData, UNCHANGED <<clientVars, appVars>>, cl.isRunning = TRUE
  PROVE  AsksForData
<1>1. /\ srv.mode = "alt" /\ Reads("alt") /\ UNCHANGED <<clientVars, server, fs, failed>>
      /\ srv' = [srv EXCEPT !.mode = "data"] /\ srvOut' = Printed(srv.c.id, <<Status(100)>>)
  BY DEF ServerAsksForData
<1>2. srvOut' \in Seq(ServerUnit)
  <2>1. FishInv'
    BY ServerAsksForDataKeeps
  <2> QED
    BY <2>1 DEF FishInv, FishTypeInv
<1>3. /\ ServerStep /\ Current' = Current /\ Current \in RequestSet
      /\ Len(ToRead) = 1 => ToRead' = << >>
      /\ ToCome = << >> => ToCome' = srvOut'
  BY <1>1, <1>2, UnitRead
<1>4. cl.childPid = TRUE
  BY AtWork
<1>5. AltPhase
  BY <1>1, <1>3, <1>4 DEF FishInv, PhaseInv, ServerStep
<1>6. srv.c = Current /\ Current.name \in Writing /\ ToRead' = << >> /\ ToCome' = Printed(Current.id, <<Status(100)>>)
  BY <1>1, <1>3, <1>5, LinesFacts DEF AltPhase
<1>7. Asked' = FALSE
  BY <1>6, Empties DEF Asked
<1> QED
  BY <1>1, <1>6, <1>7 DEF AsksForData

LEMMA TakesNow ==
  ASSUME FishInv, StaleInv, ServerWrites, UNCHANGED <<clientVars, appVars>>, cl.isRunning = TRUE
  PROVE  TakesData
<1>1. /\ srv.mode = "data" /\ srv.left > 0 /\ Reads("data") /\ UNCHANGED <<clientVars, server, srvOut, failed>> /\ srvOut = << >>
      /\ \/ /\ ~srv.error
            /\ fs' = [fs EXCEPT ![srv.c.p] =
                     Padded(@, srv.pos) \o <<Head(toServer).d>> \o SubSeq(@, srv.pos + 2, Len(@))]
            /\ srv' = [srv EXCEPT !.left = @ - 1, !.pos = @ + 1]
         \/ fs' = fs /\ srv' = [srv EXCEPT !.left = @ - 1, !.error = TRUE]
  BY DEF ServerWrites, Reads
<1>2. srvOut' \in Seq(ServerUnit)
  BY <1>1, Empties
<1>3. /\ ToRead # << >> /\ Head(ToRead) = Head(toServer) /\ Head(ToRead).u = "data" /\ ToRead' = Tail(ToRead)
      /\ Head(ToRead) \in ClientUnit
  BY <1>1, ServerTakes DEF FishInv, clientVars
<1>4. /\ ServerStep /\ ToCome' = ToCome
      /\ \A i \in 1 .. Len(ToRead') : ToRead'[i] = ToRead[i + 1] /\ i + 1 \in 1 .. Len(ToRead)
  BY <1>1, <1>2, UnitRead
<1>5. Asked' => Asked
  BY <1>4 DEF Asked
<1>6. cl.childPid = TRUE
  BY AtWork
<1>7. DataPhase
  BY <1>1, <1>4, <1>6 DEF FishInv, PhaseInv, ServerStep
<1>8. srv.c = Current /\ Current.name \in Writing /\ ToCome = << >>
  BY <1>3, <1>7 DEF DataPhase
<1>9. srv.c.p = Current.p
  BY <1>8
<1> QED
  BY <1>1, <1>3, <1>4, <1>5, <1>8, <1>9 DEF TakesData

LEMMA EndsNow ==
  ASSUME FishInv, StaleInv, ServerEndsWrite, UNCHANGED <<clientVars, appVars>>, cl.isRunning = TRUE
  PROVE  EndsWrite
<1>1. /\ alive = TRUE /\ srv.mode = "data" /\ srv.left = 0 /\ srvOut = << >> /\ srv' = Idle
      /\ UNCHANGED <<clientVars, server, wireVars, fs>> /\ (IF srv.error THEN Fail(srv.c) ELSE UNCHANGED failed)
      /\ srvOut' = Printed(srv.c.id, CASE ~srv.error                   -> <<Status(200)>>
                                       [] srv.error /\ server = "perl" -> <<Status(500)>>
                                       [] srv.error /\ server = "sh"   -> <<Text, Status(200)>>)
  BY DEF ServerEndsWrite, FishInv, FishTypeInv
<1>2. srv.error \in BOOLEAN /\ server = "perl"
  BY DEF FishInv, FishTypeInv, ServerSet
<1>3. srvOut' = Printed(srv.c.id, <<Status(IF srv.error THEN 500 ELSE 200)>>)
  BY <1>1, <1>2
<1>4. srvOut' \in Seq(ServerUnit)
  <2>1. FishInv'
    BY ServerEndsWriteKeeps
  <2> QED
    BY <2>1 DEF FishInv, FishTypeInv
<1>5. ToCome' = ToCome \o srvOut'
  BY <1>1, <1>4, Answers DEF FishInv, clientVars, wireVars
<1>6. ToRead' = ToRead
  BY <1>1 DEF ToRead, clientVars, wireVars
<1>7. cl.childPid = TRUE
  BY AtWork
<1>8. DataPhase
  BY <1>1, <1>7 DEF FishInv, PhaseInv
<1>9. srv.c = Current /\ Current.name \in Writing
  BY <1>8 DEF DataPhase
<1>10. \A i \in 1 .. Len(ToRead) : ToRead[i].u # "line"
  <2>1. ToRead = << >> \/ \A i \in srv.left + 1 .. Len(ToRead) : IsNoise(ToRead[i])
    BY <1>8 DEF DataPhase
  <2>2. srv.left + 1 = 1
    BY <1>1
  <2> QED
    BY <2>1, <2>2, Empties DEF IsNoise
<1>11. Asked' = FALSE
  BY <1>6, <1>10 DEF Asked
<1> QED
  BY <1>1, <1>3, <1>5, <1>6, <1>9, <1>11 DEF EndsWrite

LEMMA ServerSplit ==
  ASSUME FishInv, StaleInv, RestInv, ServerNext, UNCHANGED <<clientVars, appVars>>
  PROVE  ServerKinds
<1>1. cl.isRunning \in BOOLEAN
  BY ConnectionFields DEF FishInv, FishTypeInv
<1>2. CASE cl.isRunning = FALSE
  BY <1>2, RestStays, SkipsStay DEF ServerKinds
<1>3. CASE cl.isRunning = TRUE
  <2>1. Working
    BY <1>3, AtWork
  <2> QED
    BY <1>3, <2>1, SkipsStay, StartsLogsIn, ExecutesNow, OpensNow, CannotOpenNow, AsksNow, TakesNow, EndsNow DEF ServerKinds, ServerNext
<1> QED
  BY <1>1, <1>2, <1>3

-----------------------------------------------------------------------------
(* Nothing is left to the server when a job is over.                       *)
LEMMA ClientKeepsRest ==
  ASSUME FishInv, RestInv, ClientKinds
  PROVE  RestInv'
<1>1. CASE Begins
  BY <1>1 DEF Begins, RestInv
<1>2. CASE Returns \/ Turns
  BY <1>2 DEF Returns, Turns, RestInv, Noise, wireVars, serverVars
<1>3. CASE Drops
  BY <1>3 DEF Drops, RestInv, Noise, wireVars, serverVars
<1>4. CASE Writes /\ cl.isRunning = TRUE
  BY <1>4 DEF Writes, WriterEffect, WriterKeeps, RestInv
<1>5. CASE Takes
  <2>1. Handling
    BY <1>5 DEF Takes
  <2> QED
    BY <2>1, HandlingFacts DEF Handling, RestInv
<1>6. ASSUME NEW l, Proceeds(l) PROVE RestInv'
  BY <1>6 DEF Proceeds, QuietWire, RestInv, Noise, wireVars, serverVars
<1>7. CASE NextCommand
  BY <1>6, <1>7 DEF NextCommand
<1>8. CASE Stores
  BY <1>6, <1>8 DEF Stores, StoresWith
<1> QED
  BY <1>1, <1>2, <1>3, <1>4, <1>5, <1>7, <1>8 DEF ClientKinds

LEMMA ServerKeepsRest ==
  ASSUME FishInv, StaleInv, RestInv, ServerNext, UNCHANGED <<clientVars, appVars>>
  PROVE  RestInv'
<1>1. cl' = cl
  BY DEF clientVars
<1>2. CASE cl.isRunning = FALSE
  <2>1. alive = TRUE /\ srv' = srv /\ Noise(toServer')
    BY <1>2, RestStays
  <2> QED
    BY <1>2, <2>1 DEF RestInv, Noise
<1>3. CASE cl.isRunning # FALSE
  BY <1>1, <1>3 DEF RestInv
<1> QED
  BY <1>2, <1>3

-----------------------------------------------------------------------------
(* The commands stay the job's, and in order.                              *)
LEMMA PlanHead ==
  ASSUME NEW list \in Seq(RequestSet), list # << >>, job' = job,
         job.op \in {"get", "put", "rename", "symlink", "copy"} => Plan(list),
         Current' = Head(list), cl'.commandList = Tail(list)
  PROVE  Fits(Current)' /\ AllFit(cl.commandList)' /\ Ordered'
<1> DEFINE h == Head(list)
           t == Tail(list)
           n == Len(list)
<1>1. /\ n \in Nat \ {0} /\ h = list[1] /\ t \in Seq(RequestSet) /\ Len(t) = n - 1
      /\ \A i \in 1 .. Len(t) : t[i] = list[i + 1]
  BY HeadTailProperties, EmptySeq
<1>2. n = 1 => t = << >>
  <2> HIDE DEF n
  <2>1. n = 1 => Len(t) = 0
    BY <1>1
  <2> QED
    BY <1>1, <2>1, EmptySeq
<1>3. t = << >> => n = 1
  <2> DEFINE m == Len(t)
  <2>1. m = n - 1 /\ n \in Int
    BY <1>1
  <2>2. t = << >> => m = 0
    <3> HIDE DEF t
    <3> QED
      BY Empties
  <2> HIDE DEF n, m, t
  <2> QED
    BY <2>1, <2>2
<1>4. \A c : Fits(c)' = Fits(c)
  BY DEF Fits, Target
<1>5. \A i \in 1 .. Len(t) : i + 1 \in 1 .. n /\ i \in Nat
  <2> DEFINE m == Len(t)
  <2>1. m = n - 1 /\ n \in Nat
    BY <1>1
  <2> HIDE DEF n, m, t
  <2>2. \A i \in 1 .. m : i + 1 \in 1 .. n /\ i \in Nat
    BY <2>1
  <2> QED
    BY <2>2 DEF m
<1> HIDE DEF h, t, n
<1>6. job.op \notin {"get", "put", "rename", "symlink", "copy"} => \A c : Fits(c)
  BY DEF Fits
<1>7. (\A i \in 1 .. n : Fits(list[i])) => Fits(h) /\ \A i \in 1 .. Len(t) : Fits(t[i])
  <2>1. 1 \in 1 .. n
    BY <1>1
  <2> QED
    BY <1>1, <1>5, <2>1
<1>8. Fits(h) /\ AllFit(t)
  BY <1>6, <1>7 DEF Plan, AllFit, n
<1>9. Fits(Current)' /\ AllFit(cl.commandList)'
  <2>1. Fits(Current') /\ \A i \in 1 .. Len(cl'.commandList) : Fits(cl'.commandList[i])
    BY <1>8 DEF AllFit, h, t
  <2>2. \A c : (Fits(c) => (job'.op = "get" => c.name \in {"FISH", "VER", "RETR"} /\ (c.name = "RETR" => c.p = job'.p)))
    BY DEF Fits
  <2> QED
    BY <2>1 DEF AllFit, Fits, Target
<1>10. ASSUME NEW name, NEW early, name \notin early, EndsWith(list, name, early)
       PROVE  IF h.name = name THEN t = << >> ELSE EndsWith(t, name, early)
  <2>1. list[n].name = name /\ \A i \in 1 .. n : i < n => list[i].name \in early
    BY <1>10 DEF EndsWith, n
  <2>2. CASE n = 1
    BY <1>1, <1>2, <2>1, <2>2
  <2>3. CASE n # 1
    <3>1. n > 1 /\ 1 \in 1 .. n
      BY <1>1, <2>3
    <3>2. h.name \in early /\ h.name # name
      BY <1>1, <1>10, <2>1, <3>1
    <3>3. t # << >>
      BY <1>3, <2>3
    <3> DEFINE m == Len(t)
    <3>4. m = n - 1 /\ m \in 1 .. m /\ m + 1 = n
      <4> HIDE DEF m
      <4>1. m = n - 1
        BY <1>1 DEF m
      <4> QED
        BY <1>1, <3>1, <4>1
    <3>5. t[m].name = name
      BY <1>1, <2>1, <3>4
    <3>6. ASSUME NEW i \in 1 .. m, i < m PROVE t[i].name \in early
      <4>1. i + 1 \in 1 .. n /\ i + 1 < n /\ t[i] = list[i + 1]
        <5> HIDE DEF m
        <5>1. i + 1 \in 1 .. n /\ i + 1 < n
          BY <1>1, <3>4, <3>6
        <5> QED
          BY <1>1, <5>1 DEF m
      <4> QED
        BY <2>1, <4>1
    <3> QED
      BY <3>2, <3>3, <3>5, <3>6 DEF EndsWith
  <2> QED
    BY <2>2, <2>3
<1>11. job.op = "get" => IF h.name = "RETR" THEN t = << >> ELSE EndsWith(t, "RETR", {"FISH", "VER"})
  <2> SUFFICES ASSUME job.op = "get" PROVE IF h.name = "RETR" THEN t = << >> ELSE EndsWith(t, "RETR", {"FISH", "VER"})
    OBVIOUS
  <2>1. EndsWith(list, "RETR", {"FISH", "VER"}) /\ "RETR" \notin {"FISH", "VER"}
    BY DEF Plan
  <2> QED
    BY <1>10, <2>1
<1>12. job.op = "put" => IF h.name \in Prelude THEN EndsWith(t, "STOR", Prelude) ELSE t = << >>
  <2> SUFFICES ASSUME job.op = "put" PROVE IF h.name \in Prelude THEN EndsWith(t, "STOR", Prelude) ELSE t = << >>
    OBVIOUS
  <2>1. EndsWith(list, "STOR", Prelude) /\ "STOR" \notin Prelude
    BY DEF Plan, Prelude
  <2>2. IF h.name = "STOR" THEN t = << >> ELSE EndsWith(t, "STOR", Prelude)
    BY <1>10, <2>1
  <2>3. h.name \in Prelude \cup {"STOR"}
    <3>1. CASE n = 1
      BY <1>1, <2>1, <3>1 DEF EndsWith, n
    <3>2. CASE n # 1
      <4>1. 1 \in 1 .. n /\ 1 < n
        BY <1>1, <3>2
      <4> QED
        BY <1>1, <2>1, <4>1 DEF EndsWith, n
    <3> QED
      BY <3>1, <3>2
  <2> QED
    BY <2>1, <2>2, <2>3
<1>13. Ordered'
  <2>1. Current' = h /\ cl'.commandList = t
    BY DEF h, t
  <2> QED
    BY <2>1, <1>11, <1>12 DEF Ordered, EndsWith
<1> QED
  BY <1>9, <1>13

LEMMA BeginsPlan ==
  ASSUME FishInv, PlanInv, Begins
  PROVE  PlanInv'
<1>1. PICK list \in Seq(RequestSet) :
        /\ list # << >> /\ Current' = Head(list) /\ cl'.commandList = Tail(list) /\ Head(list).name # "none"
        /\ job.op \in {"get", "put", "rename", "symlink", "copy"} => Plan(list)
  BY DEF Begins
<1>2. Fits(Current)' /\ AllFit(cl.commandList)' /\ Ordered'
  BY <1>1, PlanHead DEF Begins
<1>3. /\ job' = job /\ job \in JobSet /\ job.p # job.q
      /\ job.op = "listDir" => listReason' = "LIST"
      /\ Guarded => listReason' = "CHECK" /\ checkOverwrite' = FALSE
  BY DEF Begins, PlanInv
<1> QED
  BY <1>1, <1>2, <1>3 DEF PlanInv, Guarded

(* What is left of a list is one; what follows a writing command is about  *)
(* the same file.                                                          *)
LEMMA RestPlan ==
  ASSUME FishInv, PlanInv, Working, NextCommand
  PROVE  /\ cl.commandList # << >> /\ job.op \in {"get", "put", "rename", "symlink", "copy"} => Plan(cl.commandList)
<1>1. AllFit(cl.commandList) /\ Ordered /\ Fits(Current) /\ Current.name \notin Writing
  BY DEF PlanInv, NextCommand
<1> QED
  BY <1>1 DEF Plan, Ordered, Fits, Prelude

LEMMA ProceedsPlan ==
  ASSUME FishInv, PlanInv, Working, NEW l \in Seq(RequestSet), Proceeds(l),
         l # << >> => Head(l).name # "none" /\ Fits(Current)' /\ AllFit(cl.commandList)' /\ Ordered'
  PROVE  PlanInv'
<1>1. /\ pc' # "idle" /\ job' = job /\ UNCHANGED <<listReason, checkOverwrite>> /\ pc # "idle"
      /\ l = << >> => cl'.isRunning = FALSE
      /\ l # << >> => Current' = Head(l)
  BY DEF Proceeds
<1>2. l = << >> => ~Working'
  BY <1>1 DEF Working
<1> QED
  BY <1>1, <1>2 DEF PlanInv, Guarded

LEMMA NextPlan ==
  ASSUME FishInv, PlanInv, Working, NextCommand
  PROVE  PlanInv'
<1> DEFINE l == cl.commandList
<1>1. l \in Seq(RequestSet) /\ Proceeds(l) /\ Queue(l)
  BY ConnectionFields DEF FishInv, FishTypeInv, CurrentInv, NextCommand
<1>2. ASSUME l # << >> PROVE Head(l).name # "none" /\ Fits(Current)' /\ AllFit(cl.commandList)' /\ Ordered'
  <2>1. job.op \in {"get", "put", "rename", "symlink", "copy"} => Plan(l)
    BY <1>2, RestPlan
  <2>2. job' = job /\ Current' = Head(l) /\ cl'.commandList = Tail(l)
    BY <1>1, <1>2 DEF Proceeds
  <2>3. Head(l).name # "none"
    BY <1>1, <1>2, QueueRest
  <2> HIDE DEF l
  <2> QED
    BY <1>1, <1>2, <2>1, <2>2, <2>3, PlanHead
<1> HIDE DEF l
<1> QED
  BY <1>1, <1>2, ProceedsPlan

LEMMA StoresPlan ==
  ASSUME FishInv, PlanInv, Working, Stores
  PROVE  PlanInv'
<1>1. PICK n \in 0 .. Len(toPut), l \in Seq(RequestSet) : StoresWith(n, l)
  BY DEF Stores
<1>2. Proceeds(l) /\ Current.name \in Writing /\ Fits(Current) /\ n \in Nat
  <2>1. Len(toPut) \in Nat
    BY LenProperties DEF FishInv, FishTypeInv
  <2> QED
    BY <1>1, <2>1 DEF Stores, StoresWith, PlanInv
<1>3. ASSUME l # << >> PROVE Head(l).name # "none" /\ Fits(Current)' /\ AllFit(cl.commandList)' /\ Ordered'
  <2>1. job' = job /\ Current' = Head(l) /\ cl'.commandList = << >> /\ Head(l).p = job.p /\ Head(l).name \in {"WRITE", "APPEND", "CHMOD"}
    <3>1. NextWriting \in {"WRITE", "APPEND"}
      BY <1>2 DEF NextWriting, Current, Writing
    <3>2. job' = job /\ Current' = Head(l) /\ cl'.commandList = Tail(l)
      BY <1>2, <1>3 DEF Proceeds
    <3>3. /\ Head(l).p = job.p /\ Tail(l) = << >> /\ (n > 0 => Head(l).name = NextWriting)
          /\ (n = 0 => Head(l).name = "CHMOD")
      BY <1>1, <1>3 DEF StoresWith
    <3>4. n > 0 \/ n = 0
      BY <1>2
    <3> QED
      BY <3>1, <3>2, <3>3, <3>4
  <2>2. job.op \notin {"get", "rename", "symlink", "copy"}
    BY <1>2 DEF Fits, Writing
  <2>3. AllFit(cl.commandList)'
    BY <2>1, Empties DEF AllFit
  <2>4. Fits(Current)'
    BY <2>1, <2>2 DEF Fits, Writing
  <2>5. Ordered'
    BY <2>1, <2>2 DEF Ordered, Prelude
  <2> QED
    BY <2>1, <2>3, <2>4, <2>5
<1> QED
  BY <1>2, <1>3, ProceedsPlan

(* As long as job, commands and what a listing is for stay the same.       *)
LEMMA SamePlan ==
  ASSUME PlanInv, UNCHANGED <<job, checkOverwrite, listReason>>, Current' = Current, cl'.commandList = cl.commandList,
         pc' # "idle" => pc # "idle", Working' => Working
  PROVE  PlanInv'
<1>1. Fits(Current) => Fits(Current)'
  BY DEF Fits, Target
<1>2. AllFit(cl.commandList) => AllFit(cl.commandList)'
  BY DEF AllFit, Fits, Target
<1>3. Ordered => Ordered'
  BY DEF Ordered, EndsWith
<1> QED
  BY <1>1, <1>2, <1>3 DEF PlanInv, Guarded

LEMMA ClientKeepsPlan ==
  ASSUME FishInv, PlanInv, ClientKinds
  PROVE  PlanInv'
<1>1. CASE Begins
  BY <1>1, BeginsPlan
<1>2. CASE Returns \/ Drops
  BY <1>2 DEF Returns, Drops, PlanInv, Working
<1>3. CASE Turns
  <2>1. UNCHANGED <<job, checkOverwrite, listReason, cl>> /\ pc # "idle" /\ pc \in {"select", "parse"}
    BY <1>3 DEF Turns, jobVars
  <2> QED
    BY <2>1, SamePlan DEF Current, Working
<1>4. CASE Writes
  <2>1. UNCHANGED <<job, checkOverwrite, listReason, pc>> /\ Current' = Current /\ cl'.commandList = cl.commandList /\ cl'.isRunning = cl.isRunning
    BY <1>4 DEF Writes, WriterEffect, WriterKeeps, jobVars, Current
  <2> QED
    BY <2>1, SamePlan DEF Working
<1>5. CASE Takes
  <2>1. UNCHANGED <<job, checkOverwrite, listReason, pc>> /\ Current' = Current /\ cl'.commandList = cl.commandList /\ cl'.isRunning = cl.isRunning
    BY <1>5 DEF Takes, Handling, Current
  <2> QED
    BY <2>1, SamePlan DEF Working
<1>6. CASE NextCommand
  <2>1. Working
    BY <1>6 DEF NextCommand, Proceeds, Working
  <2> QED
    BY <1>6, <2>1, NextPlan
<1>7. CASE Stores
  <2>1. Working
    BY <1>7 DEF Stores, StoresWith, Proceeds, Working
  <2> QED
    BY <1>7, <2>1, StoresPlan
<1> QED
  BY <1>1, <1>2, <1>3, <1>4, <1>5, <1>6, <1>7 DEF ClientKinds

LEMMA ElsePlan ==
  ASSUME PlanInv, UNCHANGED clientVars
  PROVE  PlanInv'
BY SamePlan DEF clientVars, Current, Working

-----------------------------------------------------------------------------
(* What was not carried out keeps the job from passing: as long as the     *)
(* server may still answer so that the job goes on, nothing has failed     *)
(* but the listing that checks.                                            *)
Allowed == IF job.op = "listDir" THEN {} ELSE {"LIST"}
Succeeds == \E i \in 1 .. Len(ToCome) : Welcome(ToCome[i])
Ahead ==
  alive = TRUE /\ (Asked \/ srv.mode \in {"login", "code", "alt"} \/ (srv.mode = "data" /\ srv.error = FALSE))
FailInv ==
  /\ Working /\ (Ahead \/ Succeeds) => failed \subseteq Allowed
  /\ Passing => failed \subseteq Allowed
  /\ pc = "open" => failed = {}

(* How the reply to a request that was not carried out ends.               *)
EndCode(r) == r[Len(r)][2]

LEMMA EndOfSent ==
  ASSUME NEW r \in Seq(ReplyUnit), NEW n \in Nat
  PROVE  EndCode(r \o <<Status(n)>>) = n
<1> DEFINE x == Status(n)
           t == r \o <<x>>
<1>1. x \in ReplyUnit /\ x[2] = n
  BY ReplyUnits
<1> HIDE DEF x
<1>2. <<x>> \in Seq(ReplyUnit) /\ Len(<<x>>) = 1 /\ <<x>>[1] = x /\ Len(r) \in Nat
  BY <1>1, Single, LenProperties
<1>3. /\ Len(t) = Len(r) + 1
      /\ \A i \in 1 .. Len(r) + 1 : t[i] = IF i <= Len(r) THEN r[i] ELSE <<x>>[i - Len(r)]
  <2> HIDE DEF ReplyUnit
  <2> QED
    BY <1>2, ConcatProperties
<1> HIDE DEF t
<1>4. t[Len(t)] = x
  BY <1>2, <1>3
<1>5. EndCode(t) = n
  BY <1>1, <1>4 DEF EndCode
<1> QED
  BY <1>5 DEF t, x

LEMMA ShortEnds ==
  /\ \A n \in Nat : EndCode(<<Status(n)>>) = n
  /\ \A m \in Nat, n \in Nat : EndCode(<<Number(m), Status(100), Status(n)>>) = n
BY DEF EndCode, Status, Number

LEMMA RefusedEnds ==
  ASSUME fs \in [Path -> Value], NEW c \in RequestSet, c.name \notin Writing \cup {"none", "FISH"},
         NEW o \in PerlOutcomes(c), ~o.ok
  PROVE  EndCode(o.reply) \in {404, 500, 501} /\ (c.name = "READ" => EndCode(o.reply) = 500)
<1> DEFINE Good(r) == EndCode(r) \in {404, 500, 501} /\ (c.name = "READ" => EndCode(r) = 500)
<1>1. \A f, r : Did(f, r).ok = TRUE /\ DidNot(f, r).reply = r
  BY DEF Did, DidNot
<1>2. c.name \in {"VER", "PWD"} \/ c.name \in {"LIST", "STAT"} \/ c.name \in {"RETR", "READ"} \/ c.name \in Acting
  BY DEF RequestSet, CommandNames, Writing
<1>3. EndCode(<<Status(404)>>) = 404 /\ EndCode(<<Status(500)>>) = 500 /\ EndCode(<<Status(501)>>) = 501
  BY ShortEnds
<1>4. CASE c.name \in {"VER", "PWD"}
  <2>1. o = Did(fs, <<Text, Status(200)>>)
    BY <1>4 DEF PerlOutcomes, Acting
  <2> QED
    BY <1>1, <2>1
<1>5. CASE c.name \in {"LIST", "STAT"}
  <2> DEFINE a == <<Status(404)>>
             b == <<Number(1), Status(100), Entry, Status(200)>>
             d == <<Status(500)>>
             e == <<Number(1), Status(100), Status(500)>>
  <2>1. o \in PerlList(c)
    BY <1>5 DEF PerlOutcomes, Acting
  <2>2. o = DidNot(fs, a) \/ o = Did(fs, b) \/ o = DidNot(fs, d) \/ o = DidNot(fs, e)
    BY <2>1 DEF PerlList
  <2>3. EndCode(a) = 404 /\ EndCode(d) = 500 /\ EndCode(e) = 500
    BY <1>3, ShortEnds
  <2> HIDE DEF a, b, d, e
  <2> QED
    BY <1>1, <1>5, <2>2, <2>3
<1>6. CASE c.name \in Acting
  <2>1. o \in PerlActs(c)
    BY <1>6 DEF PerlOutcomes, Acting
  <2> DEFINE a == <<Status(200)>>
             b == <<Status(500)>>
             d == <<Status(501)>>
  <2>2. (\E f : o = Did(f, a)) \/ (\E f : o = DidNot(f, b) \/ o = DidNot(f, d))
    BY <2>1 DEF PerlActs
  <2>3. EndCode(b) = 500 /\ EndCode(d) = 501
    BY <1>3
  <2> HIDE DEF a, b, d
  <2> QED
    BY <1>1, <1>6, <2>2, <2>3 DEF Acting
<1>7. CASE c.name \in {"RETR", "READ"}
  <2> DEFINE v == fs[c.p]
             want == IF c.name = "RETR" THEN Len(v) ELSE MimeBytes
             head == IF c.name = "RETR" THEN <<Number(want), Status(100)>> ELSE <<Status(100)>>
             sends(s, code) == head \o DataOf(Padded(s, want)) \o <<Status(code)>>
  <2>0. o \in PerlRead(c)
    BY <1>7 DEF PerlOutcomes, Acting
  <2>1. c.p \in Path /\ v \in Value
    BY <1>7 DEF RequestSet
  <2>3. o \in
          CASE v = Dir    -> {[Did(fs, <<Status(501)>>) EXCEPT !.ok = (c.name = "READ")]}
            [] v = Absent -> {DidNot(fs, <<Status(500)>>)}
            [] IsFile(v)  ->
                 {Did(fs, sends(v, 200))} \union
                 (IF Len(v) < want THEN {DidNot(fs, sends(v, 500))} ELSE {}) \union
                 (IF Faults
                  THEN {DidNot(fs, <<Status(500)>>)} \union
                       {DidNot(fs, sends(SubSeq(v, 1, n), 500)) : n \in 0 .. Len(v) - 1}
                  ELSE {})
    BY <2>0 DEF PerlRead
  <2> HIDE DEF v
  <2>4. CASE v = Dir
    <3>1. ~IsFile(v) /\ v # Absent
      BY <2>4, PathAssumption DEF IsFile
    <3>2. o = [Did(fs, <<Status(501)>>) EXCEPT !.ok = (c.name = "READ")]
      BY Zenon, <2>3, <2>4, <3>1
    <3>3. o.reply = <<Status(501)>> /\ (c.name = "READ" => o.ok = TRUE)
      BY <3>2 DEF Did
    <3>4. c.name # "READ" /\ EndCode(o.reply) = 501
      BY <1>3, <3>3
    <3> QED
      BY <3>4
  <2>5. CASE v = Absent
    <3>1. ~IsFile(v) /\ v # Dir
      BY <2>5, PathAssumption DEF IsFile
    <3>2. o = DidNot(fs, <<Status(500)>>)
      BY Zenon, <2>3, <2>5, <3>1
    <3> QED
      BY <1>1, <1>3, <3>2
  <2>6. CASE IsFile(v)
    <3>1. v \in Seq(Portion) /\ Len(v) \in Nat /\ v # Dir /\ v # Absent
      BY <2>1, <2>6, Contents DEF IsFile
    <3>2. want \in Nat
      BY <3>1, MimeBytesAssumption
    <3> HIDE DEF want
    <3>3. head \in Seq(ReplyUnit)
      <4> DEFINE g == Status(100)
                 k == Number(want)
      <4>1. g \in ReplyUnit /\ k \in ReplyUnit
        BY <3>2, ReplyUnits
      <4> HIDE DEF g, k
      <4>2. <<k, g>> \in Seq(ReplyUnit) /\ <<g>> \in Seq(ReplyUnit)
        BY <4>1
      <4> QED
        BY <4>2 DEF g, k
    <3> HIDE DEF head
    <3>4. ASSUME NEW s \in Seq(Portion) PROVE EndCode(sends(s, 500)) = 500
      <4>1. DataOf(Padded(s, want)) \in Seq(ReplyUnit)
        BY <3>2, PaddedFacts
      <4>2. head \o DataOf(Padded(s, want)) \in Seq(ReplyUnit)
        BY ZenonT(90), <3>3, <4>1, ConcatProperties
      <4> DEFINE d == head \o DataOf(Padded(s, want))
      <4>3. d \in Seq(ReplyUnit) /\ sends(s, 500) = d \o <<Status(500)>> /\ 500 \in Nat
        BY <4>2
      <4> HIDE DEF d, sends
      <4>4. PICK t : t = d \o <<Status(500)>>
        OBVIOUS
      <4>5. EndCode(d \o <<Status(500)>>) = 500
        BY <4>3, EndOfSent
      <4>6. EndCode(t) = 500 /\ sends(s, 500) = t
        BY <4>3, <4>4, <4>5
      <4> QED
        BY <4>6
    <3> HIDE DEF sends
    <3>5. \/ o = Did(fs, sends(v, 200)) \/ o = DidNot(fs, sends(v, 500)) \/ o = DidNot(fs, <<Status(500)>>)
          \/ \E n \in 0 .. Len(v) - 1 : o = DidNot(fs, sends(SubSeq(v, 1, n), 500))
      BY SMTT(60), <2>3, <2>6, <3>1
    <3>6. CASE \E n \in 0 .. Len(v) - 1 : o = DidNot(fs, sends(SubSeq(v, 1, n), 500))
      <4>1. PICK n \in 0 .. Len(v) - 1 : o = DidNot(fs, sends(SubSeq(v, 1, n), 500))
        BY <3>6
      <4> DEFINE t == SubSeq(v, 1, n)
      <4>2. n \in 0 .. Len(v)
        BY <3>1
      <4>3. t \in Seq(Portion)
        BY <3>1, <4>2, Cut
      <4> HIDE DEF t
      <4>4. o = DidNot(fs, sends(t, 500))
        BY <4>1 DEF t
      <4> QED
        BY <1>1, <3>4, <4>3, <4>4
    <3>7. EndCode(sends(v, 500)) = 500
      BY <3>1, <3>4
    <3> QED
      BY <1>1, <1>3, <3>5, <3>6, <3>7
  <2> QED
    BY <2>1, <2>4, <2>5, <2>6, Contents
<1> QED
  BY <1>2, <1>4, <1>5, <1>6, <1>7

LEMMA Refusals == (400 \div 100) # 2 /\ (404 \div 100) # 2 /\ (500 \div 100) # 2 /\ (501 \div 100) # 2
OBVIOUS

(* A unit that is to come afterwards was to come before.                   *)
LEMMA TailSucceeds ==
  ASSUME NEW s \in Seq(ServerUnit), s # << >>, NEW i \in 1 .. Len(Tail(s))
  PROVE  \E j \in 1 .. Len(s) : s[j] = Tail(s)[i]
<1>1. \A k \in 1 .. Len(Tail(s)) : k + 1 \in 1 .. Len(s) /\ Tail(s)[k] = s[k + 1]
  BY TailOfReplies
<1> QED
  BY <1>1

(* Nothing is asked while a reply is read.                                 *)
LEMMA TakesAsked ==
  ASSUME FishInv, Takes
  PROVE  Asked' => Asked
<1>0. toServer' = toServer /\ cl.outBuf = << >>
  BY HandlingFacts DEF Takes, Handling, wireVars
<1> SUFFICES ASSUME NEW i \in 1 .. Len(ToRead'), ToRead'[i].u = "line" PROVE Asked
  BY DEF Asked
<1>1. toServer \in Seq(ClientUnit) /\ ToRead = toServer
  BY <1>0, Streams DEF FishInv, FishTypeInv
<1>2. CASE cl'.outBuf = << >>
  <2>1. ToRead' = ToRead
    BY <1>0, <1>1, <1>2, ConcatEmptySeq DEF ToRead
  <2> QED
    BY <2>1 DEF Asked
<1>3. CASE cl'.outBuf = <<FishCode>>
  <2> DEFINE n == Len(toServer)
  <2>1. /\ n \in Nat /\ Len(ToRead') = n + 1
        /\ \A k \in 1 .. n + 1 : ToRead'[k] = IF k <= n THEN toServer[k] ELSE <<FishCode>>[k - n]
    BY <1>0, <1>1, <1>3, OtherUnits, ConcatProperties, LenProperties DEF ToRead
  <2>2. i <= n
    <3> SUFFICES ASSUME ~(i <= n) PROVE FALSE
      OBVIOUS
    <3>1. i = n + 1 /\ i - n = 1
      <4> HIDE DEF n
      <4> QED
        BY <2>1
    <3>2. ToRead'[i] = <<FishCode>>[1]
      BY <2>1, <3>1
    <3> QED
      BY <3>2, OtherUnits
  <2>3. i \in 1 .. n /\ ToRead'[i] = toServer[i]
    <3> HIDE DEF n
    <3> QED
      BY <2>1, <2>2
  <2> QED
    BY <1>1, <2>3 DEF Asked
<1> QED
  BY <1>2, <1>3 DEF Takes

LEMMA TakesFails ==
  ASSUME FishInv, FailInv, Takes
  PROVE  FailInv'
<1>1. Handling /\ UNCHANGED <<listReason, failed>>
  BY DEF Takes, Elsewhere, serverVars
<1>2. /\ Current' = Current /\ cl.isRunning = TRUE /\ cl.outBuf = << >>
      /\ ToCome \in Seq(ServerUnit) /\ ToCome # << >> /\ ToCome' = Tail(ToCome)
  BY <1>1, HandlingFacts
<1>3. pc = "parse" /\ pc' = pc /\ job' = job /\ cl'.isRunning = TRUE /\ UNCHANGED <<toServer, alive, srv>>
  BY <1>1, <1>2 DEF Handling, wireVars
<1>4. \A u : Welcome(u)' = Welcome(u)
  BY <1>1, <1>2 DEF Welcome, IsFinal
<1>5. Succeeds' => Succeeds
  <2> SUFFICES ASSUME NEW i \in 1 .. Len(ToCome'), Welcome(ToCome[i])' PROVE Succeeds
    BY DEF Succeeds
  <2>1. PICK j \in 1 .. Len(ToCome) : ToCome[j] = ToCome'[i]
    BY <1>2, TailSucceeds
  <2>2. Welcome(ToCome[j])
    BY <1>1, <1>2, <2>1 DEF Welcome, IsFinal
  <2> QED
    BY <2>2 DEF Succeeds
<1>6. Asked' => Asked
  BY TakesAsked
<1>7. (Ahead \/ Succeeds)' => Ahead \/ Succeeds
  BY <1>3, <1>5, <1>6 DEF Ahead
<1> QED
  BY <1>1, <1>2, <1>3, <1>7 DEF FailInv, Working, Passing, Allowed

LEMMA ProceedsFails ==
  ASSUME FishInv, FailInv, NEW l, Proceeds(l)
  PROVE  FailInv'
<1>1. Working /\ ToCome = <<Head(inBuf)>> /\ Welcome(Head(inBuf)) /\ pc' = "parse" /\ job' = job /\ failed' = failed
  BY DEF Proceeds, Working, serverVars
<1>2. Len(ToCome) = 1 /\ ToCome[1] = Head(inBuf)
  BY <1>1
<1>3. Succeeds
  BY <1>1, <1>2 DEF Succeeds
<1>4. failed' \subseteq Allowed'
  BY <1>1, <1>3 DEF FailInv, Allowed
<1> QED
  BY <1>1, <1>4 DEF FailInv

LEMMA ClientKeepsFails ==
  ASSUME FishInv, FailInv, ClientKinds
  PROVE  FailInv'
<1>1. CASE Begins
  BY <1>1 DEF Begins, FailInv
<1>2. CASE Returns
  BY <1>2 DEF Returns, FailInv, Passing, Working, Allowed, serverVars
<1>3. CASE Drops
  BY <1>3 DEF Drops, FailInv, Passing, Working
<1>4. CASE Turns \/ Writes
  <2>1. /\ pc \in {"select", "parse"} /\ pc' \in {"select", "parse"} /\ ToCome' = ToCome /\ (Asked' => Asked) /\ Current' = Current
        /\ cl'.isRunning = cl.isRunning /\ UNCHANGED <<alive, srv, failed, job, listReason>>
    BY <1>4 DEF Turns, Writes, WriterEffect, WriterKeeps, jobVars, serverVars, Current, Asked, ToRead
  <2>2. Succeeds' = Succeeds
    BY <2>1 DEF Succeeds, Welcome, IsFinal
  <2>3. (Ahead \/ Succeeds)' => Ahead \/ Succeeds
    BY <2>1, <2>2 DEF Ahead
  <2> QED
    BY <2>1, <2>3 DEF FailInv, Working, Passing, Allowed
<1>5. CASE Takes
  BY <1>5, TakesFails
<1>6. CASE NextCommand
  BY <1>6, ProceedsFails DEF NextCommand
<1>7. CASE Stores
  BY <1>7, ProceedsFails DEF Stores, StoresWith
<1> QED
  BY <1>1, <1>2, <1>3, <1>4, <1>5, <1>6, <1>7 DEF ClientKinds

LEMMA ServerAlive ==
  ASSUME FishInv, ServerNext
  PROVE  alive = TRUE /\ alive' = TRUE
BY DEF ServerNext, ServerPrints, ServerStarts, ServerReadsCode, ServerSkips, ServerExecutes, ServerOpens, ServerCannotOpen,
       ServerAsksForData, ServerWrites, ServerEndsWrite, Reads, serverVars, wireVars, FishInv, FishTypeInv

(* What a reply of fish.pl ends with.                                      *)
LEMMA PrintedEnds ==
  ASSUME NEW id \in Nat, NEW r, GoodReply(r), NEW i \in 1 .. Len(Printed(id, r)), IsFinal(Printed(id, r)[i])
  PROVE  i = Len(r) /\ Printed(id, r)[i].v = EndCode(r)
<1> DEFINE t == Printed(id, r)
<1>1. /\ Len(t) = Len(r) /\ \A k \in 1 .. Len(r) : t[k].k = r[k][1] /\ t[k].v = r[k][2]
  BY PrintedFacts
<1>2. IsFinal(t[i]) /\ i \in 1 .. Len(t)
  OBVIOUS
<1> HIDE DEF t
<1>3. r[i][1] = "status" /\ r[i][2] # 100 /\ i \in 1 .. Len(r) /\ t[i].v = r[i][2]
  BY <1>1, <1>2 DEF IsFinal
<1>4. i = Len(r)
  BY <1>3 DEF GoodReply
<1> QED
  BY <1>3, <1>4 DEF EndCode, t

LEMMA ExecutesFails ==
  ASSUME FishInv, PlanInv, FailInv, Working, Executes, alive = TRUE, UNCHANGED clientVars
  PROVE  FailInv'
<1>1. PICK o \in PerlOutcomes(Current) :
        ToCome' = Printed(Current.id, o.reply) /\ (IF o.ok THEN UNCHANGED failed ELSE Fail(Current))
  BY DEF Executes
<1>2. HasRead /\ Current.name \notin Writing \cup {"none", "FISH"} /\ srv' = srv
  BY DEF Executes, HasRead
<1>3. Working' /\ ~Passing' /\ pc' # "open" /\ UNCHANGED <<job, listReason>> /\ Current' = Current
  BY DEF clientVars, Working, Passing, Current
<1>4. failed \subseteq Allowed
  BY <1>2 DEF FailInv, HasRead, Ahead
<1>5. CASE o.ok
  BY <1>1, <1>3, <1>4, <1>5 DEF FailInv, Allowed
<1>6. CASE ~o.ok
  <2> DEFINE r == o.reply
  <2>1. Current \in RequestSet /\ Current.id \in Nat /\ fs \in [Path -> Value]
    BY ConnectionFields DEF FishInv, FishTypeInv, Current, RequestSet
  <2>2. EndCode(r) \in {404, 500, 501} /\ (Current.name = "READ" => EndCode(r) = 500)
    BY <1>2, <1>6, <2>1, RefusedEnds
  <2>3. GoodReply(r)
    BY <1>2, <2>1, OutcomesGood DEF GoodOutcome
  <2>4. failed' = failed \cup {Current.name}
    BY <1>1, <1>6 DEF Fail
  <2>5. ToCome' = Printed(Current.id, r)
    BY <1>1
  <2> HIDE DEF r
  <2>6. ~Ahead'
    BY <1>2 DEF HasRead, Ahead
  <2>7. ASSUME Succeeds' PROVE failed' \subseteq Allowed'
    <3>1. PICK i \in 1 .. Len(ToCome') : Welcome(ToCome[i])'
      BY <2>7 DEF Succeeds
    <3>2. IsFinal(ToCome'[i])
      BY <3>1 DEF Welcome, IsFinal
    <3>3. ToCome'[i].v = EndCode(r)
      BY <2>1, <2>3, <2>5, <3>2, PrintedEnds
    <3>4. Current.name = "LIST" /\ listReason = "CHECK"
      <4>1. \/ ToCome'[i].v \div 100 = 2 \/ (Current.name = "LIST" /\ listReason = "CHECK")
            \/ (Current.name = "READ" /\ ToCome'[i].v = 501)
        BY <1>3, <3>1 DEF Welcome
      <4> QED
        BY <2>2, <3>3, <4>1, Refusals
    <3>5. job.op # "listDir"
      BY <3>4 DEF PlanInv
    <3> QED
      BY <1>3, <1>4, <2>4, <3>4, <3>5 DEF Allowed
  <2> QED
    BY <1>3, <2>6, <2>7 DEF FailInv
<1> QED
  BY <1>5, <1>6

(* A reply that refuses what a writing command wants to do.                *)
LEMMA RefusedWrite ==
  ASSUME FishInv, NEW n \in {400, 500}, NEW i \in 1 .. Len(Printed(Current.id, <<Status(n)>>)), Current.name \in Writing
  PROVE  ~Welcome(Printed(Current.id, <<Status(n)>>)[i])
<1> DEFINE u == Printed(Current.id, <<Status(n)>>)[i]
<1>1. u.v = n
  BY DEF Printed, Status, Unit
<1> HIDE DEF u
<1>2. ~Welcome(u)
  BY <1>1, Refusals DEF Welcome, Writing
<1> QED
  BY <1>2 DEF u

LEMMA CannotOpenFails ==
  ASSUME FishInv, FailInv, Working, CannotOpen, UNCHANGED clientVars
  PROVE  FailInv'
<1>1. Working' /\ ~Passing' /\ pc' # "open" /\ UNCHANGED <<job, listReason>> /\ Current' = Current
  BY DEF clientVars, Working, Passing, Current
<1>2. ~Ahead'
  BY DEF CannotOpen, HasRead, Ahead
<1>3. ASSUME Succeeds' PROVE FALSE
  <2> DEFINE t == Printed(Current.id, <<Status(400)>>)
  <2>1. PICK i \in 1 .. Len(ToCome') : Welcome(ToCome[i])'
    BY <1>3 DEF Succeeds
  <2>2. ToCome' = t /\ Current.name \in Writing
    BY DEF CannotOpen
  <2>3. i \in 1 .. Len(t) /\ ~Welcome(t[i])
    BY <2>1, <2>2, RefusedWrite
  <2> HIDE DEF t
  <2> QED
    BY <1>1, <2>1, <2>2, <2>3 DEF Welcome, IsFinal
<1> QED
  BY <1>1, <1>2, <1>3 DEF FailInv

LEMMA EndsWriteFails ==
  ASSUME FishInv, FailInv, Working, EndsWrite, alive = TRUE, UNCHANGED clientVars
  PROVE  FailInv'
<1>1. Working' /\ ~Passing' /\ pc' # "open" /\ UNCHANGED <<job, listReason>> /\ Current' = Current /\ cl.childPid = TRUE
  BY AtWork DEF clientVars, Working, Passing, Current
<1>2. srv.error \in BOOLEAN /\ Current.id \in Nat
  BY ConnectionFields DEF FishInv, FishTypeInv, ServerSet, Current, RequestSet
<1>3. CASE srv.error = FALSE
  <2>1. failed \subseteq Allowed /\ failed' = failed
    BY <1>3 DEF EndsWrite, FailInv, Ahead
  <2> QED
    BY <1>1, <2>1 DEF FailInv, Allowed
<1>4. CASE srv.error = TRUE
  <2>1. ~Ahead'
    <3>1. Asked' = FALSE /\ srv'.mode = "main"
      BY IdleFacts DEF EndsWrite
    <3> QED
      BY <3>1 DEF Ahead
  <2> DEFINE t == Printed(Current.id, <<Status(500)>>)
  <2>2. ToCome' = ToCome \o t /\ Current.name \in Writing
    BY <1>4 DEF EndsWrite
  <2>3. DataPhase
    BY <1>1 DEF FishInv, PhaseInv, EndsWrite
  <2>4. ToCome \in Seq(ServerUnit) /\ \A i \in 1 .. Len(ToCome) : ~IsFinal(ToCome[i])
    <3>1. ToCome \in Seq(ServerUnit)
      BY Streams DEF FishInv
    <3>2. CASE ToCome = << >>
      BY <3>1, <3>2, Empties
    <3>3. CASE ToCome = Printed(Current.id, <<Status(100)>>)
      <4>1. \A i \in 1 .. Len(ToCome) : ~IsFinal(ToCome[i])
        BY <3>3 DEF Printed, Status, Unit, IsFinal
      <4> QED
        BY <3>1, <4>1
    <3> QED
      BY <2>3, <3>2, <3>3 DEF DataPhase
  <2>5. t \in Seq(ServerUnit)
    <3> DEFINE r == <<Status(500)>>
    <3>1. GoodReply(r)
      BY KnownReplies
    <3> HIDE DEF r
    <3>2. Printed(Current.id, r) \in Seq(ServerUnit)
      BY <1>2, <3>1, ReplyEnds
    <3> QED
      BY <3>2 DEF r
  <2>6. \A i \in 1 .. Len(t) : ~Welcome(t[i])
    BY <2>2, RefusedWrite
  <2> HIDE DEF t
  <2>7. ASSUME Succeeds' PROVE FALSE
    <3>1. PICK i \in 1 .. Len(ToCome') : Welcome(ToCome[i])'
      BY <2>7 DEF Succeeds
    <3> DEFINE n == Len(ToCome)
               m == Len(t)
    <3>2. /\ n \in Nat /\ m \in Nat /\ Len(ToCome') = n + m
          /\ \A k \in 1 .. n + m : ToCome'[k] = IF k <= n THEN ToCome[k] ELSE t[k - n]
      BY <2>2, <2>4, <2>5, ConcatProperties, LenProperties
    <3>3. Welcome(ToCome'[i])
      BY <1>1, <3>1 DEF Welcome, IsFinal
    <3> HIDE DEF n, m
    <3>4. CASE i <= n
      <4>1. i \in 1 .. n /\ ToCome'[i] = ToCome[i]
        BY <3>2, <3>4
      <4> QED
        BY <2>4, <3>3, <4>1 DEF n, Welcome
    <3>5. CASE ~(i <= n)
      <4>1. i - n \in 1 .. m /\ ToCome'[i] = t[i - n]
        BY <3>2, <3>5
      <4> QED
        BY <2>6, <3>3, <4>1 DEF m
    <3> QED
      BY <3>4, <3>5
  <2> QED
    BY <1>1, <2>1, <2>7 DEF FailInv
<1> QED
  BY <1>2, <1>3, <1>4

LEMMA ServerKeepsFails ==
  ASSUME FishInv, PlanInv, FailInv, ServerNext, ServerKinds, UNCHANGED <<clientVars, appVars>>
  PROVE  FailInv'
<1>1. alive = TRUE /\ alive' = TRUE /\ UNCHANGED clientVars
  BY ServerAlive
<1>2. UNCHANGED <<job, listReason, pc, result>> /\ Current' = Current /\ cl' = cl
  BY DEF clientVars, Current
<1>3. Working' = Working /\ Passing' = Passing
  BY <1>2 DEF Working, Passing
<1>4. ASSUME failed' = failed, (Ahead \/ Succeeds)' => Ahead \/ Succeeds PROVE FailInv'
  BY <1>2, <1>3, <1>4 DEF FailInv, Allowed
<1>5. CASE Stays
  <2>1. Succeeds' = Succeeds
    BY <1>2, <1>5 DEF Stays, Succeeds, Welcome, IsFinal
  <2>2. (Ahead \/ Succeeds)' => Ahead \/ Succeeds
    BY <1>1, <1>5, <2>1 DEF Stays, Ahead
  <2> QED
    BY <1>4, <1>5, <2>2 DEF Stays
<1>6. CASE LogsIn \/ Opens \/ AsksForData
  <2>1. failed' = failed /\ Ahead
    BY <1>1, <1>6 DEF LogsIn, Opens, AsksForData, HasRead, Ahead
  <2> QED
    BY <1>4, <2>1
<1>7. CASE TakesData
  <2>1. ~Succeeds'
    BY <1>7, Empties DEF TakesData, Succeeds
  <2>2. srv \in ServerSet
    BY DEF FishInv, FishTypeInv
  <2>3. (srv'.mode = "data" /\ srv'.error = FALSE) => srv.error = FALSE
    BY <1>7, <2>2 DEF TakesData, ServerSet
  <2>4. srv'.mode = "data"
    BY <1>7, <2>2 DEF TakesData, ServerSet
  <2>5. Ahead' => Ahead
    BY <1>1, <1>7, <2>3, <2>4 DEF TakesData, Ahead
  <2> QED
    BY <1>4, <1>7, <2>1, <2>5 DEF TakesData
<1> QED
  BY <1>1, <1>5, <1>6, <1>7, ExecutesFails, CannotOpenFails, EndsWriteFails DEF ServerKinds

(* Of what has come nothing is lost but the end.                           *)
LEMMA BreakCuts ==
  ASSUME FishInv, ConnectionBreaks
  PROVE  /\ ToCome' \in Seq(ServerUnit) /\ ToCome \in Seq(ServerUnit) /\ Len(ToCome') <= Len(ToCome)
         /\ \A i \in 1 .. Len(ToCome') : i \in 1 .. Len(ToCome) /\ ToCome'[i] = ToCome[i]
<1>1. inBuf' = inBuf /\ toClient' = toClient /\ srvOut' = << >>
  BY DEF ConnectionBreaks, clientVars
<1>2. inBuf \in Seq(ServerUnit) /\ toClient \in Seq(ServerUnit) /\ srvOut \in Seq(ServerUnit) /\ inBuf \o toClient \in Seq(ServerUnit)
  BY ConcatProperties DEF FishInv, FishTypeInv
<1> DEFINE a == inBuf \o toClient
<1>3. ToCome = a \o srvOut
  BY <1>2, ConcatAssociative DEF ToCome
<1>4. ToCome' = a
  BY <1>1, <1>2, ConcatEmptySeq DEF ToCome
<1>5. a \in Seq(ServerUnit) /\ Len(a) \in Nat /\ Len(srvOut) \in Nat
  BY <1>2, LenProperties
<1> HIDE DEF a
<1>6. /\ ToCome \in Seq(ServerUnit) /\ Len(ToCome) = Len(a) + Len(srvOut)
      /\ \A i \in 1 .. Len(a) + Len(srvOut) : ToCome[i] = IF i <= Len(a) THEN a[i] ELSE srvOut[i - Len(a)]
  BY <1>2, <1>3, <1>5, ConcatProperties
<1> QED
  BY <1>4, <1>5, <1>6

LEMMA BreakKeepsFails ==
  ASSUME FishInv, FailInv, ConnectionBreaks
  PROVE  FailInv'
<1>1. alive' = FALSE /\ UNCHANGED <<failed, job, listReason, pc, result, cl>> /\ Current' = Current
  BY DEF ConnectionBreaks, clientVars, Current
<1>2. \A i \in 1 .. Len(ToCome') : i \in 1 .. Len(ToCome) /\ ToCome'[i] = ToCome[i]
  BY BreakCuts
<1>3. Succeeds' => Succeeds
  BY <1>1, <1>2 DEF Succeeds, Welcome, IsFinal
<1>4. ~Ahead'
  BY <1>1 DEF Ahead
<1> QED
  BY <1>1, <1>3, <1>4 DEF FailInv, Working, Passing, Allowed

-----------------------------------------------------------------------------
(* A file that is not to be overwritten is found, and ends the job; a      *)
(* directory cannot be overwritten.                                        *)
Kept ==
  /\ job.overwrite \in BOOLEAN
  /\ Guarded /\ before[Target] # Absent => fs[Target] = before[Target]
Threatened == Working /\ Guarded /\ before[Target] \notin {Absent, Dir}
Found(units) ==
  \A i \in 1 .. Len(units) : IsFinal(units[i]) =>
    units[i].v \div 100 = 2 /\ (checkExist = TRUE \/ \E j \in 1 .. Len(units) : units[j].k = "entry")
Searching ==
  Threatened =>
    /\ Current.name \in Prelude
    /\ Current.name \in {"FISH", "VER"} => ListedFirst(cl.commandList)
    /\ Current.name = "LIST" => Found(ToCome)
GuardInv == Kept /\ Searching

LEMMA ListedTail ==
  ASSUME NEW l \in Seq(RequestSet), l # << >>, ListedFirst(l)
  PROVE  Head(l).name \in Prelude /\ (Head(l).name # "LIST" => ListedFirst(Tail(l)))
<1> DEFINE n == Len(l)
           t == Tail(l)
           m == Len(t)
<1>1. n \in Nat \ {0} /\ m = n - 1 /\ Head(l) = l[1] /\ \A i \in 1 .. m : t[i] = l[i + 1]
  BY HeadTailProperties, EmptySeq
<1>2. \A i \in 1 .. n : l[i].name \notin Prelude => \E j \in 1 .. n : j < i /\ l[j].name = "LIST"
  BY DEF ListedFirst
<1> HIDE DEF n, t, m
<1>3. Head(l).name \in Prelude
  BY <1>1, <1>2
<1>4. ASSUME Head(l).name # "LIST", NEW i \in 1 .. m, t[i].name \notin Prelude
      PROVE  \E j \in 1 .. m : j < i /\ t[j].name = "LIST"
  <2>1. i + 1 \in 1 .. n /\ t[i] = l[i + 1]
    BY <1>1
  <2>2. PICK j \in 1 .. n : j < i + 1 /\ l[j].name = "LIST"
    BY <1>2, <1>4, <2>1
  <2>3. j # 1
    BY <1>1, <1>4, <2>2
  <2>4. j - 1 \in 1 .. m /\ j - 1 < i /\ (j - 1) + 1 = j
    BY <1>1, <2>2, <2>3
  <2>5. t[j - 1].name = "LIST"
    BY <1>1, <2>2, <2>4
  <2> QED
    BY <2>4, <2>5
<1>5. Head(l).name # "LIST" => ListedFirst(t)
  BY <1>4 DEF ListedFirst, m
<1> QED
  BY <1>3, <1>5 DEF t

(* Neither the file system nor the job changes.                            *)
LEMMA SameKept == ASSUME Kept, UNCHANGED <<job, fs>>, before' \in {before, fs} PROVE Kept'
BY DEF Kept, Guarded, Target

LEMMA BeginsGuard ==
  ASSUME FishInv, GuardInv, Begins
  PROVE  GuardInv'
<1>1. Kept'
  BY SameKept DEF GuardInv, Begins
<1>2. ASSUME Threatened' PROVE Current'.name \in Prelude /\ (Current'.name \in {"FISH", "VER"} => ListedFirst(cl'.commandList))
                               /\ Found(ToCome)'
  <2>1. Guarded
    BY <1>2 DEF Threatened, Guarded, Begins
  <2>2. PICK l \in Seq(RequestSet) : l # << >> /\ Current' = Head(l) /\ cl'.commandList = Tail(l) /\ ListedFirst(l)
    BY <2>1 DEF Begins, Guarded
  <2>3. Head(l).name \in Prelude /\ (Head(l).name # "LIST" => ListedFirst(Tail(l)))
    BY <2>2, ListedTail
  <2>4. ToCome' = << >>
    BY DEF Begins
  <2>5. Found(ToCome)'
    BY <2>4 DEF Found
  <2> QED
    BY <2>2, <2>3, <2>5
<1>3. Searching'
  BY <1>2 DEF Searching, ListedFirst, Prelude
<1> QED
  BY <1>1, <1>3 DEF GuardInv

(* As long as what is to come, and what has been found, stay the same.     *)
LEMMA SameSearch ==
  ASSUME Searching, UNCHANGED <<job, before>>, Current' = Current, cl'.commandList = cl.commandList,
         Working' => Working, Current.name = "LIST" /\ Threatened /\ Found(ToCome) => Found(ToCome)'
  PROVE  Searching'
<1> SUFFICES ASSUME Threatened'
             PROVE  /\ Current'.name \in Prelude
                    /\ Current'.name \in {"FISH", "VER"} => ListedFirst(cl'.commandList)
                    /\ Current'.name = "LIST" => Found(ToCome)'
  BY DEF Searching, ListedFirst, Prelude
<1>1. Threatened
  BY DEF Threatened, Guarded, Target
<1> QED
  BY <1>1 DEF Searching, Prelude

LEMMA TakesGuard ==
  ASSUME FishInv, PlanInv, GuardInv, Takes
  PROVE  GuardInv'
<1>1. Handling /\ UNCHANGED <<fs, before, job, listReason>> /\ pc = "parse" /\ pc' = pc
  BY DEF Takes, Elsewhere, serverVars, appVars, Handling
<1>2. /\ Current' = Current /\ cl.isRunning = TRUE /\ cl'.isRunning = TRUE /\ cl'.commandList = cl.commandList
      /\ ToCome \in Seq(ServerUnit) /\ ToCome # << >> /\ ToCome' = Tail(ToCome) /\ ToCome[1] = Head(inBuf)
  BY <1>1, HandlingFacts DEF Handling
<1>3. Kept'
  BY <1>1, SameKept DEF GuardInv
<1>4. ASSUME Current.name = "LIST", Threatened, Found(ToCome) PROVE Found(ToCome)'
  <2> DEFINE s == ToCome
             t == ToCome'
  <2>1. /\ Len(s) \in Nat \ {0} /\ Len(t) = Len(s) - 1
        /\ \A i \in 1 .. Len(t) : i + 1 \in 1 .. Len(s) /\ t[i] = s[i + 1]
    BY <1>2, TailOfReplies
  <2>2. s[1].k = "entry" => checkExist' = TRUE
    <3>1. cl.rawRead = 0
      BY <1>4, ConnectionFields DEF FishInv, FishTypeInv, CurrentInv
    <3>2. listReason = "CHECK"
      BY <1>4 DEF PlanInv, Threatened
    <3> QED
      BY <1>2, <1>4, <3>1, <3>2 DEF Takes
  <2>3. checkExist = TRUE => checkExist' = TRUE
    BY DEF Takes
  <2>4. \A i \in 1 .. Len(s) : IsFinal(s[i]) =>
          s[i].v \div 100 = 2 /\ (checkExist = TRUE \/ \E j \in 1 .. Len(s) : s[j].k = "entry")
    BY <1>4 DEF Found
  <2> HIDE DEF s, t
  <2>5. ASSUME NEW i \in 1 .. Len(t), IsFinal(t[i])
        PROVE  t[i].v \div 100 = 2 /\ (checkExist' = TRUE \/ \E j \in 1 .. Len(t) : t[j].k = "entry")
    <3>1. i + 1 \in 1 .. Len(s) /\ t[i] = s[i + 1]
      BY <2>1
    <3>2. t[i].v \div 100 = 2 /\ (checkExist = TRUE \/ \E j \in 1 .. Len(s) : s[j].k = "entry")
      BY <2>4, <2>5, <3>1
    <3>3. ASSUME NEW j \in 1 .. Len(s), s[j].k = "entry", j # 1 PROVE j - 1 \in 1 .. Len(t) /\ t[j - 1].k = "entry"
      <4>1. j - 1 \in 1 .. Len(t) /\ (j - 1) + 1 = j
        BY <2>1, <3>3
      <4> QED
        BY <2>1, <3>3, <4>1
    <3> QED
      BY <2>2, <2>3, <3>2, <3>3
  <2> QED
    BY <2>5 DEF Found, t, IsFinal
<1>5. Searching'
  BY <1>1, <1>2, <1>4, SameSearch DEF GuardInv, Working
<1> QED
  BY <1>3, <1>5 DEF GuardInv

LEMMA NextGuard ==
  ASSUME FishInv, PlanInv, GuardInv, Working, NextCommand
  PROVE  GuardInv'
<1> DEFINE l == cl.commandList
<1>1. Proceeds(l) /\ Current.name \notin Writing
  BY DEF NextCommand
<1>2. UNCHANGED <<fs, before, job, checkOverwrite>> /\ ToCome = <<Head(inBuf)>> /\ Welcome(Head(inBuf)) /\ ToCome' = << >>
  BY <1>1 DEF Proceeds, serverVars, appVars
<1>3. Kept'
  BY <1>2, SameKept DEF GuardInv
<1>4. ASSUME Threatened' PROVE Current'.name \in Prelude /\ (Current'.name \in {"FISH", "VER"} => ListedFirst(cl'.commandList))
                               /\ Found(ToCome)'
  <2>1. Guarded /\ Threatened
    BY <1>2, <1>4 DEF Threatened, Guarded, Target
  <2>2. l # << >>
    BY <1>1, <1>4 DEF Proceeds, Threatened, Working
  <2>3. l \in Seq(RequestSet) /\ Current' = Head(l) /\ cl'.commandList = Tail(l)
    BY <1>1, <2>2 DEF Proceeds
  <2>4. Current.name # "LIST"
    <3> SUFFICES ASSUME Current.name = "LIST" PROVE FALSE
      OBVIOUS
    <3> DEFINE u == Head(inBuf)
    <3>1. Found(<<u>>) /\ Len(<<u>>) = 1 /\ <<u>>[1] = u /\ IsFinal(u)
      BY <1>2, <2>1 DEF GuardInv, Searching, Welcome
    <3> HIDE DEF u
    <3>2. \A i \in 1 .. 1 : i = 1 /\ <<u>>[i] = u
      OBVIOUS
    <3>3. u.v \div 100 = 2 /\ (checkExist = TRUE \/ u.k = "entry")
      BY <3>1, <3>2 DEF Found
    <3>4. checkExist = TRUE /\ u.v \div 100 = 2
      BY <3>1, <3>3 DEF IsFinal
    <3>5. listReason = "CHECK" /\ checkOverwrite = FALSE
      BY <2>1 DEF PlanInv, Threatened
    <3> QED
      BY <1>1, <3>4, <3>5 DEF Proceeds, u
  <2>5. ListedFirst(l)
    BY <2>1, <2>4 DEF GuardInv, Searching, Prelude
  <2>6. Head(l).name \in Prelude /\ (Head(l).name # "LIST" => ListedFirst(Tail(l)))
    BY <2>2, <2>3, <2>5, ListedTail
  <2>7. Found(ToCome)'
    BY <1>2 DEF Found
  <2> QED
    BY <2>3, <2>6, <2>7
<1>5. Searching'
  BY <1>4 DEF Searching, ListedFirst, Prelude
<1> QED
  BY <1>3, <1>5 DEF GuardInv

LEMMA ClientKeepsGuard ==
  ASSUME FishInv, PlanInv, GuardInv, ClientKinds
  PROVE  GuardInv'
<1>1. CASE Begins
  BY <1>1, BeginsGuard
<1>2. CASE Returns \/ Drops
  <2>1. UNCHANGED <<job, fs, before>> /\ ~Working'
    BY <1>2 DEF Returns, Drops, serverVars, appVars, Working
  <2> QED
    BY <2>1, SameKept DEF GuardInv, Searching, Threatened
<1>3. CASE Turns \/ Writes
  <2>1. /\ pc \in {"select", "parse"} /\ ToCome' = ToCome /\ Current' = Current /\ cl'.commandList = cl.commandList
        /\ cl'.isRunning = cl.isRunning /\ UNCHANGED <<fs, before, job, checkExist>>
    BY <1>3 DEF Turns, Writes, WriterEffect, WriterKeeps, jobVars, serverVars, appVars, Current
  <2>2. Found(ToCome) => Found(ToCome)'
    BY <2>1 DEF Found, IsFinal
  <2>3. Searching'
    BY <2>1, <2>2, SameSearch DEF Working, GuardInv
  <2> QED
    BY <2>1, <2>3, SameKept DEF GuardInv
<1>4. CASE Takes
  BY <1>4, TakesGuard
<1>5. CASE NextCommand
  BY <1>5, NextGuard DEF NextCommand, Proceeds, Working
<1>6. CASE Stores
  <2>1. UNCHANGED <<job, fs, before>> /\ Working /\ Current.name \notin Prelude
    BY <1>6 DEF Stores, StoresWith, Proceeds, serverVars, appVars, Working, Writing, Prelude
  <2>2. ~Threatened'
    BY <2>1 DEF GuardInv, Searching, Threatened, Guarded, Target
  <2> QED
    BY <2>1, <2>2, SameKept DEF GuardInv, Searching
<1> QED
  BY <1>1, <1>2, <1>3, <1>4, <1>5, <1>6 DEF ClientKinds

-----------------------------------------------------------------------------
(* What the server is asked to do when a destination is to be left alone.  *)
LEMMA GuardedCommand ==
  ASSUME PlanInv, Working, Guarded
  PROVE  /\ Target \in Path
         /\ Current.name \in {"FISH", "VER", "LIST", "CHMOD", "RENAME", "SYMLINK", "COPY"} \cup Writing
         /\ Current.name \in Writing \cup {"LIST"} => Current.p = Target
         /\ Current.name = "RENAME" => Current.p # Target
<1>1. job \in JobSet /\ job.p # job.q /\ Fits(Current)
  BY DEF PlanInv, Working
<1>2. /\ job.p \in Path /\ job.q \in Path \cup {""} /\ (job.op \in {"rename", "copy"} => job.q # "")
  BY <1>1 DEF JobSet
<1>3. Target \in Path
  BY <1>2 DEF Target
<1>4. CASE job.op = "put"
  BY <1>1, <1>3, <1>4 DEF Fits, Target, Writing
<1>5. CASE job.op \in {"rename", "symlink", "copy"}
  BY <1>1, <1>3, <1>5 DEF Fits, Target, Writing
<1> QED
  BY <1>4, <1>5 DEF Guarded

(* A directory stays one.                                                  *)
LEMMA DirKept ==
  ASSUME fs \in [Path -> Value], NEW c \in RequestSet, c.name \in {"VER", "LIST", "CHMOD", "RENAME", "SYMLINK", "COPY"},
         NEW t \in Path, fs[t] = Dir, c.name = "RENAME" => c.p # t, NEW o \in PerlOutcomes(c)
  PROVE  o.fs[t] = Dir
<1>1. /\ \A f, r : Did(f, r).fs = f /\ DidNot(f, r).fs = f
      /\ Dir # Absent
  BY PathAssumption DEF Did, DidNot
<1>2. CASE c.name = "VER"
  <2>1. o \in {Did(fs, <<Text, Status(200)>>)}
    BY <1>2 DEF PerlOutcomes, Acting
  <2> QED
    BY <1>1, <2>1
<1>3. CASE c.name = "LIST"
  <2>1. o \in PerlList(c)
    BY <1>3 DEF PerlOutcomes, Acting
  <2>2. o.fs = fs
    BY SMTT(60), <1>1, <2>1 DEF PerlList
  <2> QED
    BY <2>2
<1>4. CASE c.name \in {"CHMOD", "RENAME", "SYMLINK", "COPY"}
  <2>1. o \in PerlActs(c)
    BY <1>4 DEF PerlOutcomes, Acting
  <2>2. o.fs \in Effects(c) \cup Remains(c)
    BY SMTT(60), <1>1, <2>1 DEF PerlActs
  <2>3. c.p \in Path /\ (c.name \in {"RENAME", "COPY"} => c.q \in Path)
    BY <1>4 DEF RequestSet
  <2>4. ASSUME NEW f \in Remains(c) PROVE f[t] = Dir
    <3>1. CASE f = fs
      BY <3>1
    <3>2. CASE f # fs
      <4> DEFINE G(n) == SubSeq(IF IsFile(fs[c.p]) THEN fs[c.p] ELSE << >>, 1, n)
      <4>1. c.name = "COPY" /\ fs[c.q] # Dir /\ \E n : f = [fs EXCEPT ![c.q] = G(n)]
        BY <2>4, <3>2 DEF Remains
      <4> HIDE DEF G
      <4>2. t # c.q
        BY <4>1
      <4> QED
        BY <4>1, <4>2
    <3> QED
      BY <3>1, <3>2
  <2>5. ASSUME NEW f \in Effects(c) PROVE f[t] = Dir
    <3>1. CASE c.name = "CHMOD"
      <4>1. f = fs
        BY <2>5, <3>1 DEF Effects
      <4> QED
        BY <4>1
    <3>2. CASE c.name = "SYMLINK"
      <4>1. fs[c.p] = Absent /\ f = [fs EXCEPT ![c.p] = <<Linked>>]
        BY <2>5, <3>2 DEF Effects
      <4>2. t # c.p
        BY <1>1, <4>1
      <4> QED
        BY <4>1, <4>2
    <3>3. CASE c.name = "RENAME"
      <4>1. /\ (fs[c.q] = Absent \/ (fs[c.p] = Dir) = (fs[c.q] = Dir))
            /\ f = [fs EXCEPT ![c.p] = Absent, ![c.q] = fs[c.p]]
        BY <2>5, <3>3 DEF Effects
      <4>2. t # c.p /\ (t = c.q => fs[c.p] = Dir)
        BY <1>1, <3>3, <4>1
      <4> QED
        BY <2>3, <3>3, <4>1, <4>2
    <3>4. CASE c.name = "COPY"
      <4>1. fs[c.q] # Dir /\ f = [fs EXCEPT ![c.q] = fs[c.p]]
        BY <2>5, <3>4 DEF Effects
      <4>2. t # c.q
        BY <4>1
      <4> QED
        BY <4>1, <4>2
    <3> QED
      BY <1>4, <3>1, <3>2, <3>3, <3>4
  <2> QED
    BY <2>2, <2>4, <2>5
<1> QED
  BY <1>2, <1>3, <1>4

(* A file that exists is listed.                                           *)
LEMMA ListFinds ==
  ASSUME NEW c, c.name = "LIST", fs[c.p] \notin {Absent, Dir}, NEW o \in PerlOutcomes(c), NEW id
  PROVE  o.fs = fs /\ Found(Printed(id, o.reply))
<1> DEFINE r == <<Number(1), Status(100), Entry, Status(200)>>
           s == Printed(id, r)
<1>1. o \in PerlList(c)
  BY DEF PerlOutcomes, Acting
<1>2. o = Did(fs, r)
  BY <1>1 DEF PerlList
<1>3. o.fs = fs /\ o.reply = r
  BY <1>2 DEF Did
<1>4. /\ Len(s) = 4 /\ s[1].k = "number" /\ s[2].k = "status" /\ s[2].v = 100 /\ s[3].k = "entry"
      /\ s[4].k = "status" /\ s[4].v = 200
  BY DEF Printed, Unit, Number, Status, Entry
<1> HIDE DEF s
<1>5. \A i \in 1 .. 4 : i = 1 \/ i = 2 \/ i = 3 \/ i = 4
  OBVIOUS
<1>6. 200 \div 100 = 2
  OBVIOUS
<1>7. ASSUME NEW i \in 1 .. Len(s), IsFinal(s[i])
      PROVE  s[i].v \div 100 = 2 /\ \E j \in 1 .. Len(s) : s[j].k = "entry"
  <2>1. i = 4
    BY <1>4, <1>5, <1>7 DEF IsFinal
  <2>2. 3 \in 1 .. Len(s)
    BY <1>4
  <2> QED
    BY <1>4, <1>6, <2>1, <2>2
<1>8. Found(s)
  BY <1>7 DEF Found
<1> QED
  BY <1>3, <1>8 DEF s

LEMMA ExecutesGuard ==
  ASSUME FishInv, PlanInv, GuardInv, Working, Executes, UNCHANGED <<clientVars, appVars>>
  PROVE  GuardInv'
<1>1. PICK o \in PerlOutcomes(Current) : fs' = o.fs /\ ToCome' = Printed(Current.id, o.reply)
  BY DEF Executes
<1>2. Current.name \notin Writing \cup {"FISH", "none"}
  BY DEF Executes, HasRead
<1>3. /\ UNCHANGED <<job, before, checkExist>> /\ Current' = Current /\ cl'.commandList = cl.commandList /\ Working'
  BY DEF clientVars, appVars, Current, Working
<1>4. fs \in [Path -> Value] /\ Current \in RequestSet
  BY ConnectionFields DEF FishInv, FishTypeInv, Current
<1>5. ASSUME Guarded, before[Target] # Absent
      PROVE  fs'[Target] = before[Target] /\ (Threatened /\ Current.name = "LIST" => Found(Printed(Current.id, o.reply)))
  <2>1. /\ Target \in Path /\ Current.name \in {"VER", "LIST", "CHMOD", "RENAME", "SYMLINK", "COPY"}
        /\ (Current.name = "LIST" => Current.p = Target) /\ (Current.name = "RENAME" => Current.p # Target)
    BY <1>2, <1>5, GuardedCommand
  <2>2. fs[Target] = before[Target]
    BY <1>5 DEF GuardInv, Kept
  <2>3. CASE before[Target] = Dir
    <3>1. o.fs[Target] = Dir
      BY <1>4, <2>1, <2>2, <2>3, DirKept
    <3> QED
      BY <1>1, <2>3, <3>1 DEF Threatened
  <2>4. CASE before[Target] # Dir
    <3>1. Current.name \in Prelude
      BY <1>5, <2>4 DEF GuardInv, Searching, Threatened
    <3>2. CASE Current.name = "VER"
      <4>1. o \in {Did(fs, <<Text, Status(200)>>)}
        BY <3>2 DEF PerlOutcomes, Acting
      <4>2. o.fs = fs
        BY <4>1 DEF Did
      <4> QED
        BY <1>1, <2>2, <3>2, <4>2
    <3>3. CASE Current.name = "LIST"
      <4>1. o.fs = fs /\ Found(Printed(Current.id, o.reply))
        BY <1>5, <2>1, <2>2, <2>4, <3>3, ListFinds
      <4> QED
        BY <1>1, <2>2, <4>1
    <3> QED
      BY <1>2, <3>1, <3>2, <3>3 DEF Prelude
  <2> QED
    BY <2>3, <2>4
<1>6. Kept'
  BY <1>3, <1>5 DEF GuardInv, Kept, Guarded, Target
<1>7. ASSUME Current.name = "LIST", Threatened PROVE Found(ToCome)'
  <2> DEFINE s == Printed(Current.id, o.reply)
  <2>1. Found(s)
    BY <1>5, <1>7 DEF Threatened
  <2>2. ToCome' = s
    BY <1>1
  <2> HIDE DEF s
  <2> QED
    BY <1>3, <2>1, <2>2 DEF Found, IsFinal
<1>8. Searching'
  BY <1>3, <1>7, SameSearch DEF GuardInv
<1> QED
  BY <1>6, <1>8 DEF GuardInv

(* A writing command is only there if nothing is, or a directory, which it *)
(* does not open.                                                          *)
LEMMA WritingGuard ==
  ASSUME FishInv, PlanInv, GuardInv, Working, Current.name \in Writing, UNCHANGED <<clientVars, appVars>>,
         fs' = fs \/ (\E v : fs' = [fs EXCEPT ![Current.p] = v] /\ fs[Current.p] # Dir)
  PROVE  GuardInv'
<1>1. /\ UNCHANGED <<job, before, checkExist>> /\ Current' = Current /\ cl'.commandList = cl.commandList /\ Working'
  BY DEF clientVars, appVars, Current, Working
<1>2. ~Threatened
  BY DEF GuardInv, Searching, Prelude, Writing
<1>3. Searching'
  BY <1>1, <1>2, SameSearch DEF GuardInv
<1>4. ASSUME Guarded, before[Target] # Absent PROVE fs' = fs
  <2>1. before[Target] = Dir
    BY <1>2, <1>4 DEF Threatened
  <2>2. Current.p = Target /\ fs[Target] = Dir
    BY <1>4, <2>1, GuardedCommand DEF GuardInv, Kept
  <2> QED
    BY <2>2
<1>5. Kept'
  BY <1>1, <1>4 DEF GuardInv, Kept, Guarded, Target
<1> QED
  BY <1>3, <1>5 DEF GuardInv

LEMMA TakesDataGuard ==
  ASSUME FishInv, PlanInv, GuardInv, Working, TakesData, UNCHANGED <<clientVars, appVars>>
  PROVE  GuardInv'
<1>1. Current.name \in Writing /\ fs[Current.p] # Dir
  BY NamesAssumption DEF TakesData, FishInv, FishTypeInv, Portion
<1>2. fs' = fs \/ \E v : fs' = [fs EXCEPT ![Current.p] = v]
  BY DEF TakesData
<1> QED
  BY <1>1, <1>2, WritingGuard

LEMMA ServerKeepsGuard ==
  ASSUME FishInv, PlanInv, GuardInv, ServerKinds, UNCHANGED <<clientVars, appVars>>
  PROVE  GuardInv'
<1>1. /\ UNCHANGED <<job, before, checkExist>> /\ Current' = Current /\ cl'.commandList = cl.commandList /\ (Working' => Working)
  BY DEF clientVars, appVars, Current, Working
<1>2. CASE Stays
  <2>1. fs' = fs /\ ToCome' = ToCome
    BY <1>2 DEF Stays
  <2>2. Found(ToCome) => Found(ToCome)'
    BY <1>1, <2>1 DEF Found, IsFinal
  <2> QED
    BY <1>1, <2>1, <2>2, SameSearch, SameKept DEF GuardInv
<1>3. CASE Working /\ LogsIn
  <2>1. fs' = fs /\ Current.name # "LIST"
    BY <1>3 DEF LogsIn
  <2> QED
    BY <1>1, <2>1, SameSearch, SameKept DEF GuardInv
<1>4. CASE Working /\ Executes
  BY <1>4, ExecutesGuard
<1>5. CASE Working /\ Opens
  <2>1. Current.name \in Writing /\ \E v : fs' = [fs EXCEPT ![Current.p] = v] /\ fs[Current.p] # Dir
    BY <1>5 DEF Opens
  <2> QED
    BY <1>5, <2>1, WritingGuard
<1>6. CASE Working /\ (CannotOpen \/ AsksForData \/ EndsWrite)
  <2>1. Current.name \in Writing /\ fs' = fs
    BY <1>6 DEF CannotOpen, AsksForData, EndsWrite
  <2> QED
    BY <1>6, <2>1, WritingGuard
<1>7. CASE Working /\ TakesData
  BY <1>7, TakesDataGuard
<1> QED
  BY <1>2, <1>3, <1>4, <1>5, <1>6, <1>7 DEF ServerKinds

(* Of what has come nothing is lost but the end, and an end that is there  *)
(* is the last unit.                                                       *)
LEMMA BreakKeepsGuard ==
  ASSUME FishInv, GuardInv, ConnectionBreaks
  PROVE  GuardInv'
<1>1. /\ UNCHANGED <<job, before, fs, checkExist>> /\ Current' = Current /\ cl'.commandList = cl.commandList /\ (Working' => Working)
      /\ cl.childPid = TRUE
  BY ConnectionFields DEF ConnectionBreaks, clientVars, appVars, Current, Working, FishInv, FishTypeInv
<1> DEFINE s == ToCome
           t == ToCome'
<1>2. /\ Len(t) \in Nat /\ Len(s) \in Nat /\ Len(t) <= Len(s)
      /\ \A i \in 1 .. Len(t) : i \in 1 .. Len(s) /\ t[i] = s[i]
  BY BreakCuts
<1>3. \A i \in 1 .. Len(s) : IsFinal(s[i]) => i = Len(s)
  BY <1>1, OnItsWay DEF FishInv, Replies
<1>4. ASSUME Found(s) PROVE Found(ToCome)'
  <2>1. \A i \in 1 .. Len(s) : IsFinal(s[i]) =>
          s[i].v \div 100 = 2 /\ (checkExist = TRUE \/ \E j \in 1 .. Len(s) : s[j].k = "entry")
    BY <1>4 DEF Found
  <2> HIDE DEF s, t
  <2>2. ASSUME NEW i \in 1 .. Len(t), IsFinal(t[i])
        PROVE  t[i].v \div 100 = 2 /\ (checkExist = TRUE \/ \E j \in 1 .. Len(t) : t[j].k = "entry")
    <3>1. i \in 1 .. Len(s) /\ t[i] = s[i] /\ i = Len(s)
      BY <1>2, <1>3, <2>2
    <3>2. Len(t) = Len(s)
      BY <1>2, <3>1
    <3>3. \A j \in 1 .. Len(s) : t[j] = s[j]
      BY <1>2, <3>2
    <3> QED
      BY <2>1, <2>2, <3>1, <3>2, <3>3
  <2> QED
    BY <1>1, <2>2 DEF Found, t, IsFinal
<1>5. Searching'
  BY <1>1, <1>4, SameSearch DEF GuardInv
<1> QED
  BY <1>1, <1>5, SameKept DEF GuardInv

-----------------------------------------------------------------------------
(* Every step                                                              *)
DoneInv == RestInv /\ PlanInv /\ FailInv /\ GuardInv

LEMMA DoneInit == ASSUME Init PROVE DoneInv
<1>1. /\ alive = FALSE /\ pc = "idle" /\ failed = {} /\ job.op = "none" /\ job.overwrite = FALSE
  BY DEF Init, WireInit, ServerInit, ClientInit, NoJob
<1> QED
  BY <1>1 DEF DoneInv, RestInv, PlanInv, FailInv, GuardInv, Kept, Searching, Threatened, Working, Guarded

LEMMA StartJobDone ==
  ASSUME FishInv, DoneInv, "perl" \in Servers, StartJob
  PROVE  DoneInv'
<1>1. PICK j \in Jobs, d \in PutData \cup {<< >>} : Sensible(j) /\ Ask(j, d)
  BY DEF StartJob
<1>2. /\ UNCHANGED <<toServer, alive, fs, srv, cl>> /\ pc' = "open" /\ job' = j /\ failed' = {} /\ before' = fs
  BY <1>1 DEF StartJob, Ask, wireVars
<1>3. job' \in JobSet /\ job'.p # job'.q /\ job'.overwrite \in BOOLEAN
  <2>1. Ops[server] \subseteq Names
    BY OpsAssumption DEF FishInv, FishTypeInv
  <2> QED
    BY <1>1, <1>2, <2>1 DEF Jobs, Sensible, JobSet
<1>4. RestInv'
  BY <1>2 DEF DoneInv, RestInv, Noise, IsNoise
<1>5. ~Working' /\ ~Passing'
  BY <1>2 DEF Working, Passing
<1> QED
  BY <1>2, <1>3, <1>4, <1>5 DEF DoneInv, PlanInv, FailInv, GuardInv, Kept, Searching, Threatened, Target

LEMMA ConnectKeepsDone ==
  ASSUME FishInv, DoneInv, Connect
  PROVE  DoneInv'
<1>1. ClientKinds
  BY ConnectBegins DEF ClientKinds
<1> QED
  BY <1>1, ClientKeepsRest, ClientKeepsPlan, ClientKeepsFails, ClientKeepsGuard DEF DoneInv

LEMMA ClientKeepsDone ==
  ASSUME FishInv, DoneInv, ClientRun, Elsewhere
  PROVE  DoneInv'
<1>1. ClientKinds
  BY ClientSplit DEF DoneInv, PlanInv
<1> QED
  BY <1>1, ClientKeepsRest, ClientKeepsPlan, ClientKeepsFails, ClientKeepsGuard DEF DoneInv

LEMMA ServerKeepsDone ==
  ASSUME FishInv, StaleInv, DoneInv, ServerNext, UNCHANGED <<clientVars, appVars>>
  PROVE  DoneInv'
<1>1. ServerKinds
  BY ServerSplit DEF DoneInv
<1> QED
  BY <1>1, ServerKeepsRest, ElsePlan, ServerKeepsFails, ServerKeepsGuard DEF DoneInv

LEMMA BreakKeepsDone ==
  ASSUME FishInv, DoneInv, ConnectionBreaks
  PROVE  DoneInv'
<1>1. RestInv' /\ UNCHANGED clientVars
  BY DEF ConnectionBreaks, RestInv
<1> QED
  BY <1>1, ElsePlan, BreakKeepsFails, BreakKeepsGuard DEF DoneInv

LEMMA SameDone == ASSUME FishInv, DoneInv, UNCHANGED vars PROVE DoneInv'
<1>1. UNCHANGED <<wireVars, serverVars, clientVars, appVars>>
  BY DEF vars
<1>2. /\ Current' = Current /\ ToCome' = ToCome /\ ToRead' = ToRead
      /\ UNCHANGED <<toServer, alive, fs, srv, failed, cl, job, pc, checkExist, checkOverwrite, listReason, result, before>>
  BY <1>1 DEF wireVars, serverVars, clientVars, appVars, Current, ToCome, ToRead
<1>3. RestInv'
  BY <1>2 DEF DoneInv, RestInv, Noise, IsNoise
<1>4. PlanInv'
  BY <1>1, ElsePlan DEF DoneInv
<1>5. FailInv'
  BY <1>2 DEF DoneInv, FailInv, Working, Passing, Ahead, Asked, Succeeds, Welcome, IsFinal, Allowed
<1>6. Found(ToCome) => Found(ToCome)'
  BY <1>2 DEF Found, IsFinal
<1>7. GuardInv'
  BY <1>2, <1>6, SameKept, SameSearch DEF DoneInv, GuardInv, Working
<1> QED
  BY <1>3, <1>4, <1>5, <1>7 DEF DoneInv

LEMMA DoneStep ==
  ASSUME FishInv, StaleInv, DoneInv, "perl" \in Servers, [Next]_vars
  PROVE  DoneInv'
BY StartJobDone, ConnectKeepsDone, ClientKeepsDone, ServerKeepsDone, BreakKeepsDone, SameDone
   DEF Next, ClientSteps, ServerSteps, AllDone, Elsewhere

LEMMA StepsDone == ASSUME FishInv, DoneInv PROVE PassIsDone /\ NoUninvitedOverwrite
<1>1. PassIsDone
  BY DEF DoneInv, FailInv, Passing, PassIsDone, Allowed
<1>2. NoUninvitedOverwrite
  BY DEF DoneInv, GuardInv, Kept, Guarded, NoUninvitedOverwrite
<1> QED
  BY <1>1, <1>2

-----------------------------------------------------------------------------
(* The streams hold no more than there is room for.                        *)
RoomInv == Len(toServer) <= Room /\ Len(toClient) <= Room

LEMMA RoomInit == ASSUME Init PROVE RoomInv
BY Empties, RoomAssumption DEF Init, WireInit, RoomInv

LEMMA TailIsShorter ==
  ASSUME NEW S, NEW s \in Seq(S), s # << >>, Len(s) <= Room
  PROVE  Len(Tail(s)) <= Room
<1> DEFINE n == Len(s)
           m == Len(Tail(s))
<1>1. n \in Nat /\ m = n - 1 /\ n <= Room /\ Room \in Nat
  BY HeadTailProperties, EmptySeq, RoomAssumption
<1> HIDE DEF n, m
<1>2. m <= Room
  BY <1>1
<1> QED
  BY <1>2 DEF m

LEMMA RoomStep ==
  ASSUME FishInv, RoomInv, [Next]_vars
  PROVE  RoomInv'
<1>1. /\ toServer \in Seq(ClientUnit) /\ toClient \in Seq(ServerUnit) /\ cl.outBuf \in Seq(ClientUnit)
      /\ Len(toServer) \in Nat /\ Len(toClient) \in Nat /\ Len(toServer) <= Room /\ Len(toClient) <= Room /\ Room \in Nat
      /\ Len(<< >>) = 0
  BY ConnectionFields, LenProperties, RoomAssumption, Empties DEF FishInv, FishTypeInv, RoomInv
<1>2. CASE SelectWrites
  <2>1. PICK n \in 0 .. Len(cl.outBuf) : n <= Room - Len(toServer) /\ toServer' = toServer \o SubSeq(cl.outBuf, 1, n)
    BY <1>2 DEF SelectWrites
  <2> DEFINE d == SubSeq(cl.outBuf, 1, n)
  <2>2. d \in Seq(ClientUnit) /\ Len(d) = n /\ n \in Nat
    BY <1>1, <2>1, Cut
  <2>3. toServer' = toServer \o d
    BY <2>1
  <2> HIDE DEF d
  <2>4. Len(toServer') = Len(toServer) + n
    BY <1>1, <2>2, <2>3, ConcatProperties
  <2>5. Len(toServer') <= Room /\ toClient' = toClient
    BY <1>1, <1>2, <2>1, <2>2, <2>4 DEF SelectWrites
  <2> QED
    BY <1>1, <2>5 DEF RoomInv
<1>3. CASE SelectReads
  <2>1. PICK n \in 1 .. Len(toClient) : toClient' = SubSeq(toClient, n + 1, Len(toClient))
    BY <1>3 DEF SelectReads
  <2>2. n \in 0 .. Len(toClient)
    BY <1>1
  <2>3. Len(toClient') = Len(toClient) - n
    BY <1>1, <2>1, <2>2, Cut
  <2>4. Len(toClient') <= Room /\ toServer' = toServer
    BY <1>1, <1>3, <2>2, <2>3 DEF SelectReads
  <2> QED
    BY <1>1, <2>4 DEF RoomInv
<1>4. CASE ServerPrints
  <2>1. Len(toClient) < Room /\ toClient' = Append(toClient, Head(srvOut)) /\ toServer' = toServer /\ Head(srvOut) \in ServerUnit
    BY <1>4, HeadTailProperties DEF ServerPrints, FishInv, FishTypeInv
  <2>2. Len(toClient') = Len(toClient) + 1
    BY <1>1, <2>1, AppendProperties
  <2>3. Len(toClient') <= Room
    BY <1>1, <2>1, <2>2
  <2> QED
    BY <1>1, <2>1, <2>3 DEF RoomInv
<1>5. CASE \E u : Reads(u)
  <2>1. toServer # << >> /\ toServer' = Tail(toServer) /\ toClient' = toClient
    BY <1>5 DEF Reads
  <2> QED
    BY <1>1, <2>1, TailIsShorter DEF RoomInv
<1>6. CASE Connect \/ ConnectionBreaks
  <2>1. toServer' = << >> /\ toClient' \in {<< >>, toClient}
    BY <1>6 DEF Connect, OpenConnects, ConnectionBreaks
  <2>2. Len(toServer') = 0 /\ Len(toClient') \in {0, Len(toClient)}
    BY <1>1, <2>1
  <2> QED
    BY <1>1, <2>2 DEF RoomInv
<1>7. CASE UNCHANGED <<toServer, toClient>>
  BY <1>7 DEF RoomInv
<1>8. ASSUME ServerNext PROVE ServerPrints \/ (\E u : Reads(u)) \/ UNCHANGED <<toServer, toClient>>
  BY <1>8 DEF ServerNext, ServerStarts, ServerReadsCode, ServerSkips, ServerExecutes, ServerOpens, ServerCannotOpen,
       ServerAsksForData, ServerWrites, ServerEndsWrite, wireVars
<1>9. ASSUME ClientRun PROVE SelectWrites \/ SelectReads \/ UNCHANGED <<toServer, toClient>>
  BY <1>9 DEF ClientRun, OpenConnected, OpenFails, SelectBroken, SelectTimesOut, RunEnds, ParseEnds, ReceiveData, ManageText,
       ManageListing, ManageSize, ManageGo, ManageRefused, ManageDone, ManageStored, wireVars
<1>10. \/ SelectWrites \/ SelectReads \/ ServerPrints \/ (\E u : Reads(u)) \/ Connect \/ ConnectionBreaks
       \/ UNCHANGED <<toServer, toClient>>
  <2>1. CASE StartJob
    BY <2>1 DEF StartJob, Ask, wireVars
  <2>2. CASE UNCHANGED vars
    BY <2>2 DEF vars, wireVars
  <2> QED
    BY <1>8, <1>9, <2>1, <2>2 DEF Next, ClientSteps, ServerSteps, AllDone
<1> QED
  BY <1>2, <1>3, <1>4, <1>5, <1>6, <1>7, <1>10

-----------------------------------------------------------------------------
(* What is read.  Of the portions x that answer the request, the last r    *)
(* are still to come, behind o units; the final status comes behind them,  *)
(* and if it ends a get well, x is the file.  A stream that broke off may  *)
(* end before.                                                             *)
Ending(u, x) == IsFinal(u) /\ (u.v \div 100 = 2 /\ job.op = "get" => x = fs[Current.p])
Sends(x, o, r) ==
  /\ o = 2 => ToCome[1].k = "number" /\ ToCome[1].v = Len(x)
  /\ o > 0 /\ o <= Len(ToCome) => IsGo(ToCome[o])
  /\ \A i \in 1 .. Len(ToCome) : i > o /\ i <= o + r => ToCome[i].k = "data" /\ ToCome[i].v = x[Len(x) - r + (i - o)]
  /\ \A i \in 1 .. Len(ToCome) : i > o + r => i = o + r + 1 /\ Ending(ToCome[i], x)

(* What has come of x has been passed on or is held in mimeBuffer.         *)
PassedOn(x, r) ==
  /\ delivered \o held = SubSeq(x, 1, Len(x) - r)
  /\ IF mimeTypeSent = TRUE THEN held = << >> ELSE delivered = << >> /\ r > 0
Arrived(x, o, r) ==
  /\ o = 0 => cl.rawRead = r /\ (job.op = "get" => PassedOn(x, r))
  /\ o > 0 => r = Len(x) /\ cl.rawRead = 0 /\ (job.op = "get" => delivered = << >>)
  /\ o = 1 => Len(x) = ToBeRead
  /\ o = 2 => Current.name = "RETR"
Arriving == \E x \in Seq(Portion), o \in 0 .. 2 : \E r \in 0 .. Len(x) : Sends(x, o, r) /\ Arrived(x, o, r)
Rejection == Len(ToCome) = 1 /\ IsFinal(ToCome[1]) /\ ToCome[1].v \div 100 # 2 /\ cl.rawRead = 0

ReadInv ==
  Working =>
    /\ Asked => cl.rawRead = 0
    /\ job.op = "get" /\ (Asked \/ Current.name # "RETR") => delivered = << >>
    /\ Reading /\ ToCome # << >> => Rejection \/ Arriving
DataInv == delivered \in Seq(Portion) /\ held \in Seq(Portion) /\ mimeTypeSent \in BOOLEAN
OpenInv == pc = "open" => delivered = << >> /\ toPut = asked /\ asked \in Seq(Portion)

-----------------------------------------------------------------------------
(* The unit that comes next is taken from the stream.                      *)
LEMMA SendsOneLess ==
  ASSUME ToCome \in Seq(ServerUnit), ToCome # << >>, ToCome' = Tail(ToCome), Current' = Current, UNCHANGED <<job, fs>>,
         NEW x \in Seq(Portion), NEW o \in 0 .. 2, NEW r \in 0 .. Len(x), Sends(x, o, r),
         NEW p \in 0 .. 2, NEW q \in 0 .. Len(x), IF o = 0 THEN p = 0 /\ q = r - 1 ELSE p = o - 1 /\ q = r
  PROVE  Sends(x, p, q)'
<1> DEFINE n == Len(ToCome)
           m == Len(Tail(ToCome))
           k == Len(x)
<1>1. /\ n \in Nat \ {0} /\ m = n - 1 /\ k \in Nat
      /\ \A i \in 1 .. m : i + 1 \in 1 .. n /\ Tail(ToCome)[i] = ToCome[i + 1]
  BY TailOfReplies, LenProperties
<1>2. \A u : Ending(u, x)' = Ending(u, x)
  BY DEF Ending, IsFinal
<1>3. Len(ToCome') = m /\ \A i \in 1 .. m : ToCome'[i] = ToCome[i + 1]
  BY <1>1
<1>4. /\ \A i \in 1 .. n : i > o /\ i <= o + r => ToCome[i].k = "data" /\ ToCome[i].v = x[k - r + (i - o)]
      /\ \A i \in 1 .. n : i > o + r => i = o + r + 1 /\ Ending(ToCome[i], x)
      /\ o > 0 /\ o <= n => IsGo(ToCome[o])
  BY DEF Sends
<1> HIDE DEF n, m, k
<1>5. p # 2
  OBVIOUS
<1>6. p > 0 /\ p <= m => IsGo(ToCome'[p])
  <2> SUFFICES ASSUME p > 0, p <= m PROVE IsGo(ToCome'[p])
    OBVIOUS
  <2>1. p = 1 /\ o = 2 /\ 1 \in 1 .. m /\ o <= n
    BY <1>1
  <2>2. ToCome'[1] = ToCome[2]
    BY <1>3, <2>1
  <2>3. IsGo(ToCome[o])
    BY <1>4, <2>1
  <2>4. ToCome'[p] = ToCome[o]
    BY <2>1, <2>2
  <2> QED
    BY <2>3, <2>4 DEF IsGo
<1>7. ASSUME NEW i \in 1 .. m, i > p, i <= p + q PROVE ToCome'[i].k = "data" /\ ToCome'[i].v = x[k - q + (i - p)]
  <2>1. k \in Nat /\ r \in Int /\ r <= k
    BY <1>1 DEF k
  <2>2. i + 1 \in 1 .. n /\ i + 1 > o /\ i + 1 <= o + r /\ k - r + (i + 1 - o) = k - q + (i - p)
    BY <1>1, <1>7, <2>1
  <2>3. ToCome'[i] = ToCome[i + 1]
    BY <1>3
  <2> DEFINE a == k - r + (i + 1 - o)
             b == k - q + (i - p)
             j == i + 1
  <2>4. ToCome[j].k = "data" /\ ToCome[j].v = x[k - r + (j - o)]
    BY <1>4, <2>2
  <2>5. a = b /\ a = k - r + (j - o)
    BY <2>2
  <2> HIDE DEF a, b
  <2> QED
    BY <2>3, <2>4, <2>5 DEF b
<1>8. ASSUME NEW i \in 1 .. m, i > p + q PROVE i = p + q + 1 /\ Ending(ToCome'[i], x)
  <2>1. i + 1 \in 1 .. n /\ i + 1 > o + r
    BY <1>1, <1>8
  <2>2. i + 1 = o + r + 1 /\ Ending(ToCome[i + 1], x)
    BY <1>4, <2>1
  <2>3. i = p + q + 1
    BY <2>2
  <2> QED
    BY <1>3, <2>2, <2>3
<1>9. /\ p > 0 /\ p <= Len(ToCome') => IsGo(ToCome'[p])
      /\ \A i \in 1 .. Len(ToCome') : i > p /\ i <= p + q => ToCome'[i].k = "data" /\ ToCome'[i].v = x[Len(x) - q + (i - p)]
      /\ \A i \in 1 .. Len(ToCome') : i > p + q => i = p + q + 1 /\ Ending(ToCome'[i], x)
  BY <1>3, <1>6, <1>7, <1>8 DEF k
<1> QED
  BY <1>2, <1>5, <1>9 DEF Sends, IsGo

(* While the reply to a reading command comes nothing else is under way.   *)
LEMMA TakesQuiet ==
  ASSUME FishInv, Takes, Reading
  PROVE  Asked' = FALSE
<1>1. Handling /\ (cl'.outBuf = << >> \/ cl'.outBuf = <<FishCode>>)
  BY DEF Takes
<1>2. toServer' = toServer /\ toServer \in Seq(ClientUnit) /\ pc = "parse" /\ inBuf # << >> /\ cl.childPid = TRUE
  BY <1>1, HandlingFacts DEF Handling, wireVars, FishInv, FishTypeInv
<1>3. ToCome # << >>
  BY <1>2, Streams DEF FishInv
<1>4. alive = TRUE => Noise(toServer)
  BY <1>2, NoiseHere DEF Reading, Writing
<1>5. alive = FALSE => toServer = << >>
  BY <1>2 DEF FishInv, PhaseInv, DeadPhase
<1>6. \A i \in 1 .. Len(toServer) : toServer[i].u # "line"
  <2>1. CASE alive = TRUE
    BY <1>4, <2>1 DEF Noise, IsNoise
  <2>2. CASE alive = FALSE
    BY <1>5, <2>2, Empties
  <2> QED
    BY <2>1, <2>2 DEF FishInv, FishTypeInv
<1> DEFINE x == cl'.outBuf
           n == Len(toServer)
<1>7. x \in Seq(ClientUnit) /\ Len(x) \in Nat /\ (\A i \in 1 .. Len(x) : x[i].u # "line") /\ n \in Nat
  <2>1. n \in Nat
    BY <1>2, LenProperties
  <2>2. CASE x = << >>
    <3> HIDE DEF x
    <3> QED
      BY <2>1, <2>2, Empties
  <2>3. CASE x = <<FishCode>>
    <3> HIDE DEF x, n
    <3>1. x \in Seq(ClientUnit) /\ Len(x) = 1 /\ x[1].u = "code"
      BY <2>3, OtherUnits
    <3> QED
      BY <2>1, <3>1
  <2> QED
    BY <1>1, <2>2, <2>3
<1>8. ToRead' = toServer \o x
  BY <1>2 DEF ToRead
<1> HIDE DEF x
<1>9. /\ Len(ToRead') = n + Len(x)
      /\ \A i \in 1 .. n + Len(x) : ToRead'[i] = IF i <= n THEN toServer[i] ELSE x[i - n]
  BY <1>2, <1>7, <1>8, ConcatProperties
<1>10. ASSUME NEW i \in 1 .. Len(ToRead') PROVE ToRead'[i].u # "line"
  <2> HIDE DEF n
  <2>1. i \in 1 .. n + Len(x) /\ (i <= n => i \in 1 .. n) /\ (~(i <= n) => i - n \in 1 .. Len(x))
    BY <1>7, <1>9, <1>10
  <2>2. CASE i <= n
    <3>1. ToRead'[i] = toServer[i] /\ i \in 1 .. Len(toServer)
      BY <1>9, <2>1, <2>2 DEF n
    <3> QED
      BY <1>6, <3>1
  <2>3. CASE ~(i <= n)
    <3>1. ToRead'[i] = x[i - n] /\ i - n \in 1 .. Len(x)
      BY <1>9, <2>1, <2>3
    <3> QED
      BY <1>7, <3>1
  <2> QED
    BY <2>2, <2>3
<1> QED
  BY <1>10 DEF Asked

-----------------------------------------------------------------------------
(* One portion more of x has come: it is passed on, or held.               *)
LEMMA OnePassedOn ==
  ASSUME DataInv, NEW x \in Seq(Portion), NEW r \in 1 .. Len(x), PassedOn(x, r), cl.rawRead = r,
         NEW d, d = x[Len(x) - r + 1], d = Head(inBuf).v, ReceiveData, Current.name # "READ"
  PROVE  PassedOn(x, r - 1)'
<1> DEFINE k == Len(x)
           a == k - r
           y == SubSeq(x, 1, a)
           z == SubSeq(x, 1, a + 1)
           full == MimeBufferComplete
           t == Append(held, d)
<1>1. k \in Nat /\ a \in 0 .. k /\ a + 1 \in 1 .. k /\ k - (r - 1) = a + 1
  BY LenProperties
<1>2. d \in Portion
  <2> HIDE DEF k, a
  <2>1. d = x[a + 1]
    BY DEF a, k
  <2> QED
    BY <1>1, <2>1 DEF k
<1>3. z = Append(y, d) /\ y \in Seq(Portion)
  <2>1. d = x[a + 1]
    OBVIOUS
  <2> HIDE DEF a
  <2>2. y \in Seq(Portion) /\ Len(y) = a /\ (\A i \in 1 .. a : y[i] = x[i])
    BY <1>1, Cut
  <2>3. z \in Seq(Portion) /\ Len(z) = a + 1 /\ (\A i \in 1 .. a + 1 : z[i] = x[i])
    <3> DEFINE b == a + 1
    <3>1. b \in 0 .. Len(x)
      BY <1>1
    <3> HIDE DEF b
    <3>2. SubSeq(x, 1, b) \in Seq(Portion) /\ Len(SubSeq(x, 1, b)) = b /\ (\A i \in 1 .. b : SubSeq(x, 1, b)[i] = x[i])
      BY <3>1, Cut
    <3> QED
      BY <3>2 DEF b
  <2> HIDE DEF y, z
  <2> QED
    BY <1>1, <1>2, <2>1, <2>2, <2>3
<1>4. delivered \in Seq(Portion) /\ held \in Seq(Portion) /\ delivered \o held = y
  BY DEF DataInv, PassedOn
<1>5. t \in Seq(Portion)
  BY <1>2, <1>4, AppendProperties
<1>6. /\ held' = IF mimeTypeSent \/ full THEN << >> ELSE t
      /\ mimeTypeSent' = (mimeTypeSent \/ full)
      /\ delivered' = CASE mimeTypeSent -> Append(delivered, d)
                        [] ~mimeTypeSent /\ full -> delivered \o t
                        [] OTHER -> delivered
  BY DEF ReceiveData, Current
<1> HIDE DEF full, y, z, a
<1>7. CASE mimeTypeSent = TRUE
  <2>1. held = << >>
    BY <1>7 DEF PassedOn
  <2>2. delivered = y
    BY <1>4, <2>1, ConcatEmptySeq
  <2>3. held' = << >> /\ mimeTypeSent' = TRUE /\ delivered' = Append(delivered, d)
    BY <1>6, <1>7
  <2>4. delivered' = z /\ z \in Seq(Portion)
    BY <1>2, <1>3, <2>2, <2>3, AppendProperties
  <2>5. delivered' \o held' = z
    BY <2>3, <2>4, ConcatEmptySeq
  <2> QED
    BY <1>1, <2>3, <2>5 DEF PassedOn, z, k
<1>8. CASE mimeTypeSent = FALSE
  <2>1. delivered = << >>
    BY <1>8 DEF PassedOn
  <2>2. held = y /\ t = z
    BY <1>3, <1>4, <2>1, ConcatEmptySeq
  <2>3. delivered \o t = z
    BY <1>5, <2>1, <2>2, ConcatEmptySeq
  <2>4. CASE full
    <3>1. held' = << >> /\ mimeTypeSent' = TRUE /\ delivered' = z /\ z \in Seq(Portion)
      BY <1>5, <1>6, <1>8, <2>2, <2>3, <2>4
    <3>2. delivered' \o held' = z
      BY <3>1, ConcatEmptySeq
    <3> QED
      BY <1>1, <3>1, <3>2 DEF PassedOn, z, k
  <2>5. CASE ~full
    <3>1. held' = t /\ mimeTypeSent' = FALSE /\ delivered' = delivered
      BY <1>6, <1>8, <2>5
    <3>2. r - 1 > 0
      BY <2>5 DEF full, MimeBufferComplete
    <3>3. delivered' \o held' = z
      BY <2>3, <3>1
    <3> QED
      BY <1>1, <2>1, <3>1, <3>2, <3>3 DEF PassedOn, z, k
  <2> QED
    BY <2>4, <2>5
<1> QED
  BY <1>7, <1>8 DEF DataInv

(* A unit of a reply that is not its end.                                  *)
LEMMA TakesRead ==
  ASSUME FishInv, PlanInv, DataInv, ReadInv, Takes
  PROVE  ReadInv'
<1>1. Handling /\ UNCHANGED <<job, fs>>
  BY DEF Takes, Elsewhere, serverVars, Handling
<1>2. /\ Current' = Current /\ cl.isRunning = TRUE /\ pc = "parse"
      /\ ToCome \in Seq(ServerUnit) /\ ToCome # << >> /\ ToCome[1] = Head(inBuf) /\ ToCome' = Tail(ToCome)
  BY <1>1, HandlingFacts DEF Handling
<1>3. Working /\ job \in JobSet
  BY <1>2 DEF Working, PlanInv
<1>4. Reading' = Reading /\ (cl'.rawRead > 0 => Reading) /\ cl.rawRead \in Nat /\ cl'.rawRead \in Nat /\ (cl.rawRead > 0 => Reading)
  BY <1>1, <1>2, ConnectionFields DEF Reading, Handling, FishInv, FishTypeInv, CurrentInv, Current
<1>5. Asked' => cl'.rawRead = 0
  BY <1>4, TakesQuiet
<1>6. ASSUME job.op = "get", Asked' \/ Current.name # "RETR" PROVE delivered' = << >>
  <2>1. Current.name \in {"FISH", "VER", "RETR"}
    BY <1>3, <1>6 DEF PlanInv, Fits
  <2>2. ~Reading
    BY <1>6, <2>1, TakesQuiet DEF Reading
  <2>3. UnitTaken(Head(inBuf))
    BY <1>4, <2>2 DEF Takes, ReceiveData, GoTaken
  <2> QED
    BY <1>3, <1>6, <2>1, <2>2, <2>3 DEF ReadInv, UnitTaken, Reading
<1>7. ASSUME Reading PROVE Arriving'
  <2>0. 1 \in 1 .. Len(ToCome) /\ Len(ToCome) \in Nat
    BY <1>2, TailOfReplies
  <2>1. Rejection \/ Arriving
    BY <1>2, <1>3, <1>7 DEF ReadInv
  <2>2. IsFinal(Head(inBuf)) => cl.rawRead > 0
    BY <1>7 DEF Takes, Reading
  <2>3. ~Rejection
    BY <1>2, <1>4, <2>2 DEF Rejection
  <2>4. PICK x \in Seq(Portion), o \in 0 .. 2 : \E r \in 0 .. Len(x) : Sends(x, o, r) /\ Arrived(x, o, r)
    BY <2>1, <2>3 DEF Arriving
  <2>5. PICK r \in 0 .. Len(x) : Sends(x, o, r) /\ Arrived(x, o, r)
    BY <2>4
  <2>6. Len(x) \in Nat /\ ToBeRead' = (IF Current.name = "READ" THEN MimeBytes ELSE cl'.recvLen)
    BY <1>2, LenProperties DEF ToBeRead
  <2>7. /\ \A i \in 1 .. Len(ToCome) : i > o /\ i <= o + r => ToCome[i].k = "data" /\ ToCome[i].v = x[Len(x) - r + (i - o)]
        /\ \A i \in 1 .. Len(ToCome) : i > o + r => i = o + r + 1 /\ Ending(ToCome[i], x)
        /\ o > 0 /\ o <= Len(ToCome) => IsGo(ToCome[o])
        /\ o = 2 => ToCome[1].k = "number" /\ ToCome[1].v = Len(x)
    BY <2>5 DEF Sends
  <2>8. CASE ReceiveData
    <3>1. cl.rawRead > 0 /\ cl' = [cl EXCEPT !.rawRead = @ - 1]
      BY <2>8 DEF ReceiveData, Go
    <3>2. o = 0 /\ r = cl.rawRead /\ (job.op = "get" => PassedOn(x, r))
      BY <2>5, <3>1 DEF Arrived
    <3>3. r \in 1 .. Len(x) /\ r - 1 \in 0 .. Len(x) /\ cl'.rawRead = r - 1
      <4>1. cl'.rawRead = cl.rawRead - 1
        BY <3>1 DEF FishInv, FishTypeInv, ConnectionSet
      <4>2. r \in 1 .. Len(x) /\ r - 1 \in 0 .. Len(x)
        BY <2>6, <3>1, <3>2
      <4> QED
        BY <3>2, <4>1, <4>2
    <3>4. Head(inBuf).v = x[Len(x) - r + 1]
      <4>1. 1 > o /\ 1 <= o + r /\ Len(x) - r + (1 - o) = Len(x) - r + 1
        BY <2>6, <3>2, <3>3
      <4>2. ToCome[1].v = x[Len(x) - r + (1 - o)]
        BY <2>0, <2>7, <4>1
      <4> DEFINE a == Len(x) - r + (1 - o)
                 b == Len(x) - r + 1
      <4>3. a = b
        BY <4>1
      <4> HIDE DEF a, b
      <4> QED
        BY <1>2, <4>2, <4>3 DEF a, b
    <3>5. ASSUME job.op = "get" PROVE PassedOn(x, r - 1)'
      <4>1. Current.name # "READ"
        BY <1>3, <3>5 DEF PlanInv, Fits
      <4> DEFINE d == Head(inBuf).v
      <4>2. d = x[Len(x) - r + 1] /\ d = Head(inBuf).v /\ PassedOn(x, r) /\ cl.rawRead = r
        BY <3>2, <3>4, <3>5
      <4> HIDE DEF d
      <4> QED
        BY <2>8, <3>3, <4>1, <4>2, OnePassedOn
    <3>6. Arrived(x, 0, r - 1)'
      BY <1>1, <3>3, <3>5 DEF Arrived
    <3> DEFINE q == r - 1
               p == 0
    <3>7. q \in 0 .. Len(x) /\ p \in 0 .. 2 /\ (IF o = 0 THEN p = 0 /\ q = r - 1 ELSE p = o - 1 /\ q = r)
      BY <3>2, <3>3
    <3> HIDE DEF q, p
    <3>8. Sends(x, p, q)'
      BY <1>1, <1>2, <2>5, <3>7, SendsOneLess
    <3>9. Arrived(x, p, q)'
      BY <3>6 DEF p, q
    <3> QED
      BY <3>7, <3>8, <3>9 DEF Arriving
  <2>9. ASSUME ~ReceiveData PROVE o # 0
    <3>1. cl.rawRead = 0
      BY <2>9 DEF Takes, UnitTaken, GoTaken
    <3> SUFFICES ASSUME o = 0 PROVE FALSE
      OBVIOUS
    <3>2. r = 0
      BY <2>5, <3>1 DEF Arrived
    <3>3. Ending(ToCome[1], x)
      BY <2>0, <2>7, <3>2
    <3> QED
      BY <1>2, <2>2, <3>1, <3>3 DEF Ending
  <2>10. ASSUME o # 0 PROVE r = Len(x) /\ cl.rawRead = 0 /\ (job.op = "get" => delivered = << >>) /\ Sends(x, o - 1, r)' /\ o - 1 \in 0 .. 2
    <3> DEFINE p == o - 1
    <3>1. p \in 0 .. 2 /\ (IF o = 0 THEN p = 0 /\ r = r - 1 ELSE p = o - 1 /\ r = r)
      BY <2>10
    <3>2. r = Len(x) /\ cl.rawRead = 0 /\ (job.op = "get" => delivered = << >>)
      BY <2>5, <2>10 DEF Arrived
    <3> HIDE DEF p
    <3>3. Sends(x, p, r)'
      BY <1>1, <1>2, <2>5, <3>1, SendsOneLess
    <3> QED
      BY <3>1, <3>2, <3>3 DEF p
  <2>11. CASE UnitTaken(Head(inBuf)) /\ ~ReceiveData
    <3>1. o # 0 /\ ~IsGo(ToCome[1]) /\ cl'.rawRead = 0 /\ cl'.recvLen = SizeTaken(Head(inBuf)) /\ delivered' = delivered
      BY <1>2, <1>7, <2>9, <2>11 DEF UnitTaken
    <3>2. o = 2
      BY <2>0, <2>7, <3>1
    <3>3. Current.name = "RETR" /\ Head(inBuf).k = "number" /\ Head(inBuf).v = Len(x)
      BY <1>2, <2>5, <2>7, <3>2 DEF Arrived
    <3>4. ToBeRead' = Len(x)
      BY <2>6, <3>1, <3>3 DEF SizeTaken
    <3>5. r = Len(x) /\ (job.op = "get" => delivered = << >>) /\ Sends(x, o - 1, r)'
      BY <2>10, <3>1
    <3>6. o - 1 = 1
      BY <3>2
    <3>7. Sends(x, 1, r)' /\ 1 \in 0 .. 2
      BY <3>2, <3>5
    <3>8. Arrived(x, 1, r)'
      BY <1>1, <3>1, <3>4, <3>5 DEF Arrived
    <3> QED
      BY <3>7, <3>8 DEF Arriving
  <2>12. CASE GoTaken(Head(inBuf))
    <3>1. /\ cl.rawRead = 0 /\ IsGo(ToCome[1]) /\ cl'.rawRead = ToBeRead /\ held' = << >>
          /\ mimeTypeSent' = (ToBeRead = 0) /\ delivered' = delivered
      BY <1>2, <2>12 DEF GoTaken
    <3>2. o # 0
      BY <2>9, <3>1 DEF ReceiveData
    <3>3. o # 2
      BY <2>7, <3>1 DEF IsGo
    <3>4. o = 1
      BY <3>2, <3>3
    <3>5. ToBeRead = Len(x)
      BY <2>5, <3>4 DEF Arrived
    <3>6. r = Len(x) /\ (job.op = "get" => delivered = << >>) /\ Sends(x, o - 1, r)'
      BY <2>10, <3>2
    <3>7. Sends(x, 0, r)' /\ 0 \in 0 .. 2
      BY <3>4, <3>6
    <3>8. ASSUME job.op = "get" PROVE PassedOn(x, r)'
      <4>1. delivered' = << >> /\ held' = << >>
        BY <3>1, <3>6, <3>8
      <4>2. SubSeq(x, 1, Len(x) - r) = << >>
        <5>1. Len(x) - r = 0
          BY <2>6, <3>6
        <5> DEFINE a == Len(x) - r
        <5>2. a = 0 /\ 0 \in 0 .. Len(x)
          BY <2>6, <5>1
        <5>3. SubSeq(x, 1, 0) \in Seq(Portion) /\ Len(SubSeq(x, 1, 0)) = 0
          BY <5>2, Cut
        <5> HIDE DEF a
        <5>4. SubSeq(x, 1, a) = << >>
          BY <5>2, <5>3, EmptySeq
        <5> QED
          BY <5>4 DEF a
      <4>3. delivered' \o held' = << >>
        BY <4>1, Empties, ConcatEmptySeq
      <4>4. mimeTypeSent' = TRUE \/ r > 0
        <5>1. CASE ToBeRead = 0
          BY <3>1, <5>1
        <5>2. CASE ToBeRead # 0
          BY <2>6, <3>5, <3>6, <5>2
        <5> QED
          BY <5>1, <5>2
      <4> QED
        BY <4>1, <4>2, <4>3, <4>4 DEF PassedOn
    <3>9. Arrived(x, 0, r)'
      BY <1>1, <3>1, <3>5, <3>6, <3>8 DEF Arrived
    <3> QED
      BY <3>7, <3>9 DEF Arriving
  <2> QED
    BY <2>8, <2>11, <2>12 DEF Takes
<1> QED
  BY <1>1, <1>2, <1>4, <1>5, <1>6, <1>7 DEF ReadInv

-----------------------------------------------------------------------------
(* The reply that carries the portions x.                                  *)
Heading(name, n) == IF name = "RETR" THEN <<Number(n), Status(100)>> ELSE <<Status(100)>>
Carries(r, name, x, code) == r = Heading(name, Len(x)) \o DataOf(x) \o <<Status(code)>>

LEMMA WholeFile == ASSUME NEW v \in Seq(Portion) PROVE Padded(v, Len(v)) = v
<1> DEFINE n == Len(v)
           p == Padded(v, n)
<1>1. n \in Nat
  BY LenProperties
<1>2. p \in Seq(Portion) /\ Len(p) = n
  <2> HIDE DEF n
  <2> QED
    BY <1>1, PaddedFacts
<1>3. \A i \in 1 .. n : p[i] = v[i]
  BY <1>1 DEF Padded
<1> HIDE DEF p
<1>4. p = v
  BY <1>1, <1>2, <1>3
<1> QED
  BY <1>4 DEF p

(* sub read_loop answers with one status, or with as many portions as it   *)
(* has announced; only the file itself is followed by success.             *)
LEMMA ReadForms ==
  ASSUME fs \in [Path -> Value], NEW c \in RequestSet, c.name \in {"RETR", "READ"}, NEW o \in PerlRead(c)
  PROVE  /\ o.fs = fs
         /\ \/ \E n \in {500, 501} : o.reply = <<Status(n)>>
            \/ \E x \in Seq(Portion), code \in {200, 500} :
                 /\ Carries(o.reply, c.name, x, code)
                 /\ c.name = "READ" => Len(x) = MimeBytes
                 /\ c.name = "RETR" /\ code = 200 => x = fs[c.p]
<1> DEFINE v == fs[c.p]
           want == IF c.name = "RETR" THEN Len(v) ELSE MimeBytes
           head == IF c.name = "RETR" THEN <<Number(want), Status(100)>> ELSE <<Status(100)>>
           sends(s, code) == head \o DataOf(Padded(s, want)) \o <<Status(code)>>
<1>1. c.p \in Path /\ v \in Value
  BY DEF RequestSet, CommandNames
<1>2. \A f, r : Did(f, r).reply = r /\ DidNot(f, r).reply = r /\ Did(f, r).fs = f /\ DidNot(f, r).fs = f
  BY DEF Did, DidNot
<1>3. o \in CASE v = Dir    -> {[Did(fs, <<Status(501)>>) EXCEPT !.ok = (c.name = "READ")]}
              [] v = Absent -> {DidNot(fs, <<Status(500)>>)}
              [] IsFile(v)  ->
               {Did(fs, sends(v, 200))} \union
               (IF Len(v) < want THEN {DidNot(fs, sends(v, 500))} ELSE {}) \union
               (IF Faults
                THEN {DidNot(fs, <<Status(500)>>)} \union
                     {DidNot(fs, sends(SubSeq(v, 1, n), 500)) : n \in 0 .. Len(v) - 1}
                ELSE {})
  BY DEF PerlRead
<1> HIDE DEF v
<1>4. CASE ~IsFile(v)
  <2>1. v = Dir \/ v = Absent
    BY <1>4 DEF IsFile
  <2>2. CASE v = Dir
    <3>1. o = [Did(fs, <<Status(501)>>) EXCEPT !.ok = (c.name = "READ")]
      BY Zenon, <1>3, <1>4, <2>2, PathAssumption
    <3>2. o.fs = fs /\ o.reply = <<Status(501)>>
      BY <3>1 DEF Did
    <3> QED
      BY <3>2
  <2>3. CASE v = Absent
    <3>1. v # Dir
      BY <2>3, PathAssumption
    <3>2. o = DidNot(fs, <<Status(500)>>)
      BY Zenon, <1>3, <1>4, <2>3, <3>1
    <3>3. o.fs = fs /\ o.reply = <<Status(500)>>
      BY <1>2, <3>2
    <3> QED
      BY <3>3
  <2> QED
    BY <2>1, <2>2, <2>3
<1>5. CASE IsFile(v)
  <2>1. v \in Seq(Portion) /\ Len(v) \in Nat /\ v # Dir /\ v # Absent
    BY <1>1, <1>5, Contents DEF IsFile
  <2>2. want \in Nat /\ (c.name = "READ" => want = MimeBytes) /\ (c.name = "RETR" => want = Len(v))
    BY <2>1, MimeBytesAssumption
  <2>3. head = Heading(c.name, want)
    BY DEF Heading
  <2> HIDE DEF want, head
  <2>4. ASSUME NEW s \in Seq(Portion), NEW code \in {200, 500}, code = 200 => s = v, o.reply = sends(s, code)
        PROVE  \E x \in Seq(Portion), k \in {200, 500} :
                 /\ Carries(o.reply, c.name, x, k)
                 /\ c.name = "READ" => Len(x) = MimeBytes
                 /\ c.name = "RETR" /\ k = 200 => x = fs[c.p]
    <3> DEFINE x == Padded(s, want)
    <3>1. x \in Seq(Portion) /\ Len(x) = want
      BY <2>2, PaddedFacts
    <3>2. o.reply = head \o DataOf(x) \o <<Status(code)>>
      BY <2>4
    <3>3. c.name = "RETR" /\ code = 200 => x = v
      BY <2>1, <2>2, <2>4, WholeFile
    <3> HIDE DEF x
    <3>4. Carries(o.reply, c.name, x, code)
      BY <2>3, <3>1, <3>2 DEF Carries
    <3> QED
      BY <2>2, <3>1, <3>3, <3>4 DEF v
  <2> HIDE DEF sends
  <2>5. \/ o = Did(fs, sends(v, 200)) \/ o = DidNot(fs, sends(v, 500)) \/ o = DidNot(fs, <<Status(500)>>)
        \/ \E n \in 0 .. Len(v) - 1 : o = DidNot(fs, sends(SubSeq(v, 1, n), 500))
    BY SMTT(60), <1>3, <1>5, <2>1
  <2>6. CASE \E n \in 0 .. Len(v) - 1 : o = DidNot(fs, sends(SubSeq(v, 1, n), 500))
    <3>1. PICK n \in 0 .. Len(v) - 1 : o = DidNot(fs, sends(SubSeq(v, 1, n), 500))
      BY <2>6
    <3>2. n \in 0 .. Len(v)
      BY <2>1
    <3> DEFINE t == SubSeq(v, 1, n)
    <3>3. t \in Seq(Portion) /\ o.reply = sends(t, 500) /\ o.fs = fs
      BY <1>2, <2>1, <3>1, <3>2, Cut
    <3> HIDE DEF t
    <3> QED
      BY <2>4, <3>3
  <2>7. CASE o = Did(fs, sends(v, 200)) \/ o = DidNot(fs, sends(v, 500))
    <3>1. o.fs = fs /\ (o.reply = sends(v, 200) \/ o.reply = sends(v, 500))
      BY <1>2, <2>7
    <3> QED
      BY <2>1, <2>4, <3>1
  <2>8. CASE o = DidNot(fs, <<Status(500)>>)
    <3>1. o.fs = fs /\ o.reply = <<Status(500)>>
      BY <1>2, <2>8
    <3> QED
      BY <3>1
  <2> QED
    BY <2>5, <2>6, <2>7, <2>8
<1> QED
  BY <1>4, <1>5

(* The units of such a reply.                                              *)
Layout(r, name, x, code, n) ==
  /\ Len(r) = n + Len(x) + 1 /\ r[n] = Status(100) /\ r[n + Len(x) + 1] = Status(code)
  /\ name = "RETR" => r[1] = Number(Len(x))
  /\ \A i \in n + 1 .. n + Len(x) : r[i] = <<"data", x[i - n]>>

LEMMA CarriedUnits ==
  ASSUME NEW x \in Seq(Portion), NEW name \in {"RETR", "READ"}, NEW code \in Nat, NEW r, Carries(r, name, x, code),
         NEW n, n = IF name = "RETR" THEN 2 ELSE 1
  PROVE  Layout(r, name, x, code, n)
<1> DEFINE k == Len(x)
           h == Heading(name, k)
           d == DataOf(x)
           t == h \o d
           e == <<Status(code)>>
           S == ReplyUnit
<1>1. k \in Nat
  BY LenProperties
<1>2. h \in Seq(S) /\ Len(h) = n /\ h[n] = Status(100) /\ (name = "RETR" => h[1] = Number(k))
  <2> DEFINE g == Status(100)
             m == Number(k)
  <2>1. g \in S /\ m \in S
    BY <1>1, ReplyUnits
  <2> HIDE DEF g, m, S
  <2>2. <<m, g>> \in Seq(S) /\ Len(<<m, g>>) = 2 /\ <<m, g>>[2] = g /\ <<m, g>>[1] = m
        /\ <<g>> \in Seq(S) /\ Len(<<g>>) = 1 /\ <<g>>[1] = g
    BY <2>1
  <2>3. h = IF name = "RETR" THEN <<m, g>> ELSE <<g>>
    BY DEF Heading, m, g
  <2> HIDE DEF h
  <2>4. h \in Seq(S) /\ Len(h) = n /\ h[n] = g /\ (name = "RETR" => h[1] = m)
    BY <2>2, <2>3
  <2> QED
    BY <2>4 DEF g, m
<1>3. d \in Seq(S) /\ Len(d) = k /\ \A i \in 1 .. k : d[i] = <<"data", x[i]>>
  <2>1. Padded(x, k) = x
    BY WholeFile
  <2>2. DataOf(Padded(x, k)) \in Seq(S) /\ Len(DataOf(Padded(x, k))) = k
    <3> HIDE DEF k
    <3> QED
      BY <1>1, PaddedFacts
  <2>3. d \in Seq(S) /\ Len(d) = k
    BY <2>1, <2>2
  <2>4. \A i \in 1 .. k : d[i] = <<"data", x[i]>>
    BY DEF DataOf
  <2> QED
    BY <2>3, <2>4
<1>4. e \in Seq(S) /\ Len(e) = 1 /\ e[1] = Status(code)
  <2> DEFINE g == Status(code)
  <2>1. g \in S
    BY ReplyUnits
  <2> HIDE DEF g, S
  <2>2. <<g>> \in Seq(S) /\ Len(<<g>>) = 1 /\ <<g>>[1] = g
    BY <2>1
  <2> QED
    BY <2>2 DEF g
<1>5. r = t \o e
  BY DEF Carries
<1> HIDE DEF k, h, d, e, S
<1>6. n \in {1, 2}
  OBVIOUS
<1>7. t \in Seq(S) /\ Len(t) = n + k /\ \A i \in 1 .. n + k : t[i] = IF i <= n THEN h[i] ELSE d[i - n]
  <2>1. /\ t \in Seq(S) /\ Len(t) = Len(h) + Len(d)
        /\ \A i \in 1 .. Len(h) + Len(d) : t[i] = IF i <= Len(h) THEN h[i] ELSE d[i - Len(h)]
    BY <1>2, <1>3, ConcatProperties
  <2>2. Len(h) = n /\ Len(d) = k
    BY <1>2, <1>3
  <2> QED
    BY Zenon, <2>1, <2>2
<1> HIDE DEF t
<1>8. Len(r) = n + k + 1 /\ \A i \in 1 .. n + k + 1 : r[i] = IF i <= n + k THEN t[i] ELSE e[i - (n + k)]
  <2>1. Len(r) = Len(t) + Len(e) /\ \A i \in 1 .. Len(t) + Len(e) : r[i] = IF i <= Len(t) THEN t[i] ELSE e[i - Len(t)]
    BY <1>4, <1>5, <1>7, ConcatProperties
  <2>2. Len(t) = n + k /\ Len(e) = 1
    BY <1>4, <1>7
  <2> QED
    BY Zenon, <2>1, <2>2
<1>9. r[n] = Status(100) /\ (name = "RETR" => r[1] = Number(k))
  <2>1. n \in 1 .. n + k + 1 /\ n <= n + k /\ n \in 1 .. n + k /\ n <= n /\ 1 \in 1 .. n + k + 1 /\ 1 <= n + k /\ 1 \in 1 .. n + k /\ 1 <= n
    BY <1>1, <1>6
  <2> QED
    BY <1>2, <1>7, <1>8, <2>1
<1>10. r[n + k + 1] = Status(code)
  <2>1. n + k + 1 \in 1 .. n + k + 1 /\ ~(n + k + 1 <= n + k) /\ (n + k + 1) - (n + k) = 1
    BY <1>1, <1>6
  <2> QED
    BY <1>4, <1>8, <2>1
<1>11. ASSUME NEW i \in n + 1 .. n + k PROVE r[i] = <<"data", x[i - n]>>
  <2>1. i \in 1 .. n + k + 1 /\ i <= n + k /\ i \in 1 .. n + k /\ ~(i <= n) /\ i - n \in 1 .. k
    BY <1>1, <1>6, <1>11
  <2> QED
    BY <1>3, <1>7, <1>8, <2>1
<1> QED
  BY <1>8, <1>9, <1>10, <1>11 DEF k, Layout

-----------------------------------------------------------------------------
(* Who keeps what is read right.                                           *)
LEMMA SameRead ==
  ASSUME ReadInv, ToCome' = ToCome, Asked' => Asked, UNCHANGED <<job, fs, held, mimeTypeSent, delivered>>,
         Current' = Current, cl'.rawRead = cl.rawRead, cl'.recvLen = cl.recvLen, Working' => Working
  PROVE  ReadInv'
<1>1. \A x, o, r : Sends(x, o, r)' = Sends(x, o, r)
  BY DEF Sends, Ending, IsGo, IsFinal
<1>2. \A x, o, r : Arrived(x, o, r)' = Arrived(x, o, r)
  BY DEF Arrived, PassedOn, ToBeRead
<1>3. Arriving' = Arriving
  BY <1>1, <1>2 DEF Arriving
<1>4. Rejection' = Rejection
  BY DEF Rejection, IsFinal
<1> QED
  BY <1>3, <1>4 DEF ReadInv, Reading

LEMMA ExecutesRead ==
  ASSUME FishInv, PlanInv, ReadInv, Working, Executes, UNCHANGED <<clientVars, appVars>>
  PROVE  ReadInv'
<1>1. PICK o \in PerlOutcomes(Current) : fs' = o.fs /\ ToCome' = Printed(Current.id, o.reply)
  BY DEF Executes
<1>2. Asked /\ Asked' = FALSE /\ Current.name \notin Writing \cup {"none", "FISH"}
  BY DEF Executes, HasRead
<1>3. cl' = cl /\ Current' = Current /\ UNCHANGED <<job, delivered>> /\ cl.rawRead = 0 /\ (job.op = "get" => delivered = << >>)
  BY <1>2 DEF clientVars, Current, ReadInv
<1>4. Current \in RequestSet /\ Current.id \in Nat /\ fs \in [Path -> Value]
  BY ConnectionFields DEF FishInv, FishTypeInv, Current, RequestSet
<1>5. ASSUME Reading PROVE Rejection' \/ Arriving'
  <2> DEFINE r == o.reply
             c == Current
             id == Current.id
  <2>1. o \in PerlRead(c) /\ c.name \in {"RETR", "READ"}
    BY <1>5 DEF PerlOutcomes, Reading, Acting
  <2>2. GoodReply(r)
    BY <1>2, <1>4, OutcomesGood DEF GoodOutcome
  <2>3. /\ o.fs = fs
        /\ \/ \E n \in {500, 501} : r = <<Status(n)>>
           \/ \E x \in Seq(Portion), code \in {200, 500} :
                /\ Carries(r, c.name, x, code)
                /\ c.name = "READ" => Len(x) = MimeBytes
                /\ c.name = "RETR" /\ code = 200 => x = fs[c.p]
    BY <1>4, <2>1, ReadForms
  <2>4. id \in Nat /\ ToCome' = Printed(id, r) /\ c' = c
    BY <1>1, <1>3, <1>4
  <2>t. PICK t : t = Printed(id, r)
    OBVIOUS
  <2>5. Len(t) = Len(r) /\ \A i \in 1 .. Len(r) : t[i].k = r[i][1] /\ t[i].v = r[i][2]
    <3> HIDE DEF r, id
    <3>1. /\ Len(Printed(id, r)) = Len(r)
          /\ \A i \in 1 .. Len(r) : Printed(id, r)[i].k = r[i][1] /\ Printed(id, r)[i].v = r[i][2]
      BY <2>2, <2>4, PrintedFacts
    <3> QED
      BY <2>t, <3>1
  <2>6. ToCome' = t
    BY <2>t, <2>4
  <2> HIDE DEF r, id
  <2>7. CASE \E n \in {500, 501} : r = <<Status(n)>>
    <3>1. PICK n \in {500, 501} : r = <<Status(n)>>
      BY <2>7
    <3>2. Len(r) = 1 /\ r[1][1] = "status" /\ r[1][2] = n
      BY <3>1 DEF Status
    <3>3. Len(t) = 1 /\ t[1].k = "status" /\ t[1].v = n
      BY <2>5, <3>2
    <3>4. n # 100 /\ (n \div 100) # 2
      BY Refusals
    <3> QED
      BY <1>3, <2>6, <3>3, <3>4 DEF Rejection, IsFinal
  <2>8. CASE \E x \in Seq(Portion), code \in {200, 500} :
                /\ Carries(r, c.name, x, code)
                /\ c.name = "READ" => Len(x) = MimeBytes
                /\ c.name = "RETR" /\ code = 200 => x = fs[c.p]
    <3>1. PICK x \in Seq(Portion), code \in {200, 500} :
                /\ Carries(r, c.name, x, code)
                /\ c.name = "READ" => Len(x) = MimeBytes
                /\ c.name = "RETR" /\ code = 200 => x = fs[c.p]
      BY <2>8
    <3>n. PICK n : n = IF c.name = "RETR" THEN 2 ELSE 1
      OBVIOUS
    <3> DEFINE m == Len(x)
    <3>2. /\ Len(r) = n + Len(x) + 1 /\ r[n] = Status(100) /\ r[n + Len(x) + 1] = Status(code)
          /\ c.name = "RETR" => r[1] = Number(Len(x))
          /\ \A i \in n + 1 .. n + Len(x) : r[i] = <<"data", x[i - n]>>
      <4> DEFINE name == c.name
      <4>1. Carries(r, name, x, code) /\ name \in {"RETR", "READ"} /\ n = (IF name = "RETR" THEN 2 ELSE 1) /\ code \in Nat
        BY <2>1, <3>1, <3>n
      <4> HIDE DEF name
      <4>2. Layout(r, name, x, code, n)
        BY <4>1, CarriedUnits
      <4> QED
        BY <4>2 DEF Layout, name
    <3>3. m \in Nat /\ n \in {1, 2} /\ (n = 2 => c.name = "RETR") /\ (n = 1 => c.name = "READ")
      BY <2>1, <3>n, LenProperties
    <3> HIDE DEF m
    <3>4. Len(t) = n + m + 1 /\ \A i \in 1 .. n + m + 1 : t[i].k = r[i][1] /\ t[i].v = r[i][2]
      BY <2>5, <3>2 DEF m
    <3>5. n \in 1 .. n + m + 1 /\ 1 \in 1 .. n + m + 1 /\ n + m + 1 \in 1 .. n + m + 1
      BY <3>3
    <3>6. t[n].k = "status" /\ t[n].v = 100
      <4>1. r[n][1] = "status" /\ r[n][2] = 100
        BY <3>2 DEF Status
      <4> QED
        BY <3>4, <3>5, <4>1
    <3>7. n = 2 => t[1].k = "number" /\ t[1].v = m
      <4>1. n = 2 => r[1][1] = "number" /\ r[1][2] = m
        BY <3>2, <3>3 DEF Number, m
      <4> QED
        BY <3>4, <3>5, <4>1
    <3>8. ASSUME NEW i \in 1 .. n + m + 1, i > n, i <= n + m PROVE t[i].k = "data" /\ t[i].v = x[m - m + (i - n)]
      <4>1. i \in n + 1 .. n + m /\ m - m + (i - n) = i - n
        BY <3>3, <3>8
      <4>2. r[i] = <<"data", x[i - n]>>
        BY <3>2, <4>1 DEF m
      <4>3. r[i][1] = "data" /\ r[i][2] = x[i - n]
        BY <4>2
      <4> DEFINE a == m - m + (i - n)
                 b == i - n
      <4>4. a = b
        BY <4>1
      <4> HIDE DEF a, b
      <4>5. x[a] = x[b]
        BY <4>4
      <4>6. t[i].k = "data" /\ t[i].v = x[i - n]
        BY <3>4, <4>3
      <4> QED
        BY <4>5, <4>6 DEF a, b
    <3>9. ASSUME NEW i \in 1 .. n + m + 1, i > n + m
          PROVE  i = n + m + 1 /\ t[i].k = "status" /\ t[i].v = code
      <4>1. i = n + m + 1
        BY <3>3, <3>9
      <4>2. r[n + m + 1][1] = "status" /\ r[n + m + 1][2] = code
        BY <3>2 DEF Status, m
      <4> QED
        BY <3>4, <3>5, <4>1, <4>2
    <3>10. code # 100 /\ (code \div 100 = 2 /\ job.op = "get" => x = fs[c.p])
      <4>1. job.op = "get" => c.name = "RETR"
        BY <1>2, <2>1 DEF PlanInv, Fits
      <4>2. code \div 100 = 2 => code = 200
        BY Refusals
      <4> QED
        BY <3>1, <4>1, <4>2
    <3>11. Sends(x, n, m)'
      <4>1. \A u : u.k = "status" /\ u.v = code => Ending(u, x)'
        BY <1>1, <1>3, <2>3, <3>10 DEF Ending, IsFinal
      <4>2. \A i \in 1 .. Len(t) : i > n /\ i <= n + m => t[i].k = "data" /\ t[i].v = x[Len(x) - m + (i - n)]
        BY <3>4, <3>8 DEF m
      <4>3. \A i \in 1 .. Len(t) : i > n + m => i = n + m + 1 /\ Ending(t[i], x)'
        BY <3>4, <3>9, <4>1
      <4>4. n = 2 => t[1].k = "number" /\ t[1].v = Len(x)
        BY <3>7 DEF m
      <4>5. IsGo(t[n])
        BY <3>6 DEF IsGo
      <4> QED
        BY <2>6, <4>2, <4>3, <4>4, <4>5 DEF Sends, IsGo
    <3>12. Arrived(x, n, m)'
      <4>1. n # 0 /\ m = Len(x) /\ cl'.rawRead = 0 /\ (job'.op = "get" => delivered' = << >>)
        BY <1>3, <3>3 DEF m
      <4>2. n = 1 => Len(x) = ToBeRead'
        BY <2>4, <3>1, <3>3 DEF ToBeRead
      <4>3. n = 2 => Current'.name = "RETR"
        BY <2>4, <3>3
      <4> QED
        BY <4>1, <4>2, <4>3 DEF Arrived
    <3>13. n \in 0 .. 2 /\ m \in 0 .. Len(x)
      BY <3>3 DEF m
    <3> QED
      BY <3>11, <3>12, <3>13 DEF Arriving
  <2> QED
    BY <2>3, <2>7, <2>8
<1> QED
  BY <1>2, <1>3, <1>5 DEF ReadInv, Reading

-----------------------------------------------------------------------------
LEMMA ProceedsRead ==
  ASSUME FishInv, PlanInv, ReadInv, Working, NEW l, Proceeds(l), Current.name # "RETR" \/ l = << >>
  PROVE  ReadInv'
<1>1. ToCome' = << >> /\ job' = job /\ delivered' = delivered
  BY DEF Proceeds
<1>2. CASE l = << >>
  BY <1>2 DEF Proceeds, ReadInv, Working
<1>3. CASE l # << >>
  <2>1. cl'.rawRead = 0 /\ Current.name # "RETR"
    BY <1>3 DEF Proceeds
  <2>2. job.op = "get" => delivered = << >>
    BY <2>1 DEF ReadInv
  <2> QED
    BY <1>1, <2>1, <2>2 DEF ReadInv
<1> QED
  BY <1>2, <1>3

LEMMA ClientKeepsRead ==
  ASSUME FishInv, PlanInv, DataInv, ReadInv, OpenInv, ClientKinds
  PROVE  ReadInv'
<1>1. CASE Begins
  BY <1>1 DEF Begins, OpenInv, ReadInv
<1>2. CASE Returns \/ Drops
  BY <1>2 DEF Returns, Drops, ReadInv, Working
<1>3. CASE Turns
  <2>1. Working' => Working
    BY <1>3 DEF Turns, Working
  <2>2. UNCHANGED <<cl, job, fs, held, mimeTypeSent, delivered>> /\ ToCome' = ToCome /\ Current' = Current
    BY <1>3 DEF Turns, jobVars, serverVars, Current
  <2>3. Asked' => Asked
    BY <1>3 DEF Turns, Asked, ToRead
  <2> QED
    BY <2>1, <2>2, <2>3, SameRead
<1>4. CASE Writes
  <2>1. Working' => Working
    BY <1>4 DEF Writes, Working, WriterEffect, WriterKeeps
  <2>2. /\ UNCHANGED <<job, fs, held, mimeTypeSent, delivered>> /\ ToCome' = ToCome /\ Current' = Current
        /\ cl'.rawRead = cl.rawRead /\ cl'.recvLen = cl.recvLen /\ (Asked' => Asked)
    BY <1>4 DEF Writes, jobVars, serverVars, Current, WriterEffect, WriterKeeps
  <2> QED
    BY <2>1, <2>2, SameRead
<1>5. CASE Takes
  BY <1>5, TakesRead
<1>6. CASE NextCommand
  <2>1. Working /\ Proceeds(cl.commandList)
    BY <1>6 DEF NextCommand, Proceeds, Working
  <2>2. ASSUME Current.name = "RETR" PROVE job.op = "get" => cl.commandList = << >>
    BY <2>1, <2>2 DEF PlanInv, Ordered
  <2>3. CASE job.op = "get"
    BY <2>1, <2>2, <2>3, ProceedsRead
  <2>4. CASE job.op # "get"
    <3>1. ToCome' = << >> /\ job' = job /\ (Working' => cl'.rawRead = 0)
      BY <2>1 DEF Proceeds, Working
    <3> QED
      BY <2>4, <3>1 DEF ReadInv
  <2> QED
    BY <2>3, <2>4
<1>7. CASE Stores
  <2>1. PICK n \in 0 .. Len(toPut), l \in Seq(RequestSet) : StoresWith(n, l)
    BY <1>7 DEF Stores
  <2>2. Working /\ Proceeds(l) /\ Current.name # "RETR"
    BY <1>7, <2>1 DEF Stores, StoresWith, Proceeds, Working, Writing
  <2> QED
    BY <2>2, ProceedsRead
<1> QED
  BY <1>1, <1>2, <1>3, <1>4, <1>5, <1>6, <1>7 DEF ClientKinds

LEMMA ServerKeepsRead ==
  ASSUME FishInv, PlanInv, ReadInv, ServerKinds, UNCHANGED <<clientVars, appVars>>
  PROVE  ReadInv'
<1>1. UNCHANGED <<cl, pc, job, held, mimeTypeSent, delivered>> /\ Current' = Current /\ Working' = Working
  BY DEF clientVars, Current, Working
<1>2. CASE Stays
  BY <1>1, <1>2, SameRead DEF Stays
<1>3. CASE Working /\ Executes
  BY <1>3, ExecutesRead
<1>4. CASE Working /\ (LogsIn \/ Opens \/ CannotOpen \/ AsksForData \/ TakesData \/ EndsWrite)
  <2>1. Current.name \in Writing \cup {"FISH"}
    BY <1>4 DEF LogsIn, Opens, CannotOpen, AsksForData, TakesData, EndsWrite
  <2>2. Current.name \notin {"RETR", "READ"} /\ cl.rawRead = 0
    BY <2>1, ConnectionFields DEF Writing, FishInv, FishTypeInv, CurrentInv
  <2>3. job.op = "get" => delivered = << >>
    BY <1>4, <2>2 DEF ReadInv
  <2> QED
    BY <1>1, <2>2, <2>3 DEF ReadInv, Reading
<1> QED
  BY <1>2, <1>3, <1>4 DEF ServerKinds

LEMMA BreakAsked ==
  ASSUME FishInv, ConnectionBreaks
  PROVE  Asked' => Asked
<1>0. cl' = cl /\ toServer' = << >>
  BY DEF ConnectionBreaks, clientVars
<1> SUFFICES ASSUME NEW i \in 1 .. Len(ToRead'), ToRead'[i].u = "line" PROVE Asked
  BY DEF Asked
<1>1. toServer \in Seq(ClientUnit) /\ cl.outBuf \in Seq(ClientUnit)
  BY ConnectionFields DEF FishInv, FishTypeInv
<1>2. ToRead' = cl.outBuf
  BY <1>0, <1>1, ConcatEmptySeq DEF ToRead
<1>3. i \in 1 .. Len(cl.outBuf) /\ cl.outBuf[i].u = "line"
  BY <1>2
<1>4. \E k \in 1 .. Len(toServer \o cl.outBuf) : (toServer \o cl.outBuf)[k].u = "line"
  BY <1>1, <1>3, LineAtEnd
<1> QED
  BY <1>4 DEF Asked, ToRead

(* What had been printed before the connection broke still comes.          *)
LEMMA BreakKeepsRead ==
  ASSUME FishInv, ReadInv, ConnectionBreaks
  PROVE  ReadInv'
<1>1. UNCHANGED <<cl, pc, job, fs, held, mimeTypeSent, delivered>> /\ Current' = Current /\ Working' = Working /\ toServer' = << >>
  BY DEF ConnectionBreaks, clientVars, Current, Working
<1>2. /\ Len(ToCome') \in Nat /\ Len(ToCome) \in Nat /\ Len(ToCome') <= Len(ToCome)
      /\ \A i \in 1 .. Len(ToCome') : i \in 1 .. Len(ToCome) /\ ToCome'[i] = ToCome[i]
  BY BreakCuts, LenProperties
<1>3. Asked' => Asked
  BY BreakAsked
<1>4. ASSUME ToCome' # << >> PROVE 1 \in 1 .. Len(ToCome') /\ ToCome # << >> /\ ToCome'[1] = ToCome[1]
  <2>1. Len(ToCome') # 0
    BY <1>4, BreakCuts, EmptySeq
  <2>2. 1 \in 1 .. Len(ToCome') /\ Len(ToCome) # 0
    BY <1>2, <2>1
  <2> QED
    BY <1>2, <2>2, Empties
<1>5. ASSUME ToCome' # << >>, Rejection PROVE Rejection'
  <2>0. Len(ToCome) = 1 /\ 1 \in 1 .. Len(ToCome')
    BY <1>4, <1>5 DEF Rejection
  <2>1. Len(ToCome') = 1
    BY <1>2, <2>0
  <2> QED
    BY <1>1, <1>4, <1>5, <2>1 DEF Rejection, IsFinal
<1>6. ASSUME ToCome' # << >>, Arriving PROVE Arriving'
  <2>1. PICK x \in Seq(Portion), o \in 0 .. 2 : \E r \in 0 .. Len(x) : Sends(x, o, r) /\ Arrived(x, o, r)
    BY <1>6 DEF Arriving
  <2>2. PICK r \in 0 .. Len(x) : Sends(x, o, r) /\ Arrived(x, o, r)
    BY <2>1
  <2>3. Arrived(x, o, r)'
    BY <1>1, <2>2 DEF Arrived, PassedOn, ToBeRead
  <2>4. \A u : Ending(u, x)' = Ending(u, x)
    BY <1>1 DEF Ending, IsFinal
  <2>5. o = 2 => ToCome'[1].k = "number" /\ ToCome'[1].v = Len(x)
    BY <1>4, <1>6, <2>2 DEF Sends
  <2>6. o > 0 /\ o <= Len(ToCome') => IsGo(ToCome'[o])
    <3> SUFFICES ASSUME o > 0, o <= Len(ToCome') PROVE IsGo(ToCome'[o])
      OBVIOUS
    <3>1. o \in 1 .. Len(ToCome') /\ o <= Len(ToCome)
      BY <1>2
    <3> QED
      BY <1>2, <2>2, <3>1 DEF Sends, IsGo
  <2>7. /\ \A i \in 1 .. Len(ToCome') : i > o /\ i <= o + r => ToCome'[i].k = "data" /\ ToCome'[i].v = x[Len(x) - r + (i - o)]
        /\ \A i \in 1 .. Len(ToCome') : i > o + r => i = o + r + 1 /\ Ending(ToCome'[i], x)
    BY <1>2, <2>2 DEF Sends
  <2>8. Sends(x, o, r)'
    BY <2>4, <2>5, <2>6, <2>7 DEF Sends, IsGo
  <2> QED
    BY <2>3, <2>8 DEF Arriving
<1> QED
  BY <1>1, <1>3, <1>4, <1>5, <1>6 DEF ReadInv, Reading

-----------------------------------------------------------------------------
(* What the application gets are portions, whatever server sends them.     *)
LEMMA PortionComes ==
  ASSUME FishInv, ReadInv, ReceiveData
  PROVE  Head(inBuf).v \in Portion
<1>1. pc = "parse" /\ inBuf # << >> /\ cl.rawRead > 0
  BY DEF ReceiveData
<1>2. cl.isRunning = TRUE /\ Reading /\ cl.rawRead \in Nat /\ inBuf \in Seq(ServerUnit)
  BY <1>1, UnitFacts, ConnectionFields DEF FishInv, FishTypeInv, CurrentInv, Reading
<1>3. ToCome \in Seq(ServerUnit) /\ ToCome # << >>
  BY <1>1, Streams DEF FishInv
<1>4. ToCome[1] = Head(inBuf) /\ 1 \in 1 .. Len(ToCome)
  <2> DEFINE t == toClient \o srvOut
  <2>1. t \in Seq(ServerUnit)
    BY ConcatProperties DEF FishInv, FishTypeInv
  <2>2. ToCome = inBuf \o t
    BY DEF ToCome
  <2> HIDE DEF t
  <2>3. Head(ToCome) = Head(inBuf)
    BY <1>1, <1>2, <2>1, <2>2, TakeFirst
  <2>4. 1 \in 1 .. Len(ToCome) /\ Head(ToCome) = ToCome[1]
    BY <1>3, TailOfReplies, HeadTailProperties
  <2> QED
    BY <2>3, <2>4
<1>5. Arriving
  <2>1. Rejection \/ Arriving
    BY <1>1, <1>2, <1>3 DEF ReadInv, Working
  <2> QED
    BY <1>1, <2>1 DEF Rejection
<1>6. PICK x \in Seq(Portion), o \in 0 .. 2 : \E r \in 0 .. Len(x) : Sends(x, o, r) /\ Arrived(x, o, r)
  BY <1>5 DEF Arriving
<1>7. PICK r \in 0 .. Len(x) : Sends(x, o, r) /\ Arrived(x, o, r)
  BY <1>6
<1>8. o = 0 /\ r = cl.rawRead
  BY <1>1, <1>7 DEF Arrived
<1> DEFINE a == Len(x) - r + (1 - o)
<1>9. a \in 1 .. Len(x) /\ 1 > o /\ 1 <= o + r
  BY <1>1, <1>2, <1>8, LenProperties
<1>10. ToCome[1].v = x[a]
  BY <1>4, <1>7, <1>9 DEF Sends
<1> HIDE DEF a
<1>11. x[a] \in Portion
  BY <1>9, ElementOfSeq
<1> QED
  BY <1>4, <1>10, <1>11

LEMMA ReceiveKeepsData ==
  ASSUME FishInv, ReadInv, DataInv, ReceiveData
  PROVE  DataInv'
<1> DEFINE d == Head(inBuf).v
           full == MimeBufferComplete
           t == Append(held, d)
<1>1. d \in Portion
  BY PortionComes
<1>2. /\ held' = IF mimeTypeSent \/ full THEN << >> ELSE t
      /\ mimeTypeSent' = (mimeTypeSent \/ full)
      /\ delivered' = CASE mimeTypeSent -> Append(delivered, d)
                        [] ~mimeTypeSent /\ full /\ cl.fishCommand.name # "READ" -> delivered \o t
                        [] OTHER -> delivered
  BY DEF ReceiveData
<1> HIDE DEF d
<1>3. t \in Seq(Portion) /\ Append(delivered, d) \in Seq(Portion) /\ held \in Seq(Portion) /\ delivered \in Seq(Portion)
  BY <1>1, AppendProperties DEF DataInv
<1> HIDE DEF t, full
<1>4. delivered \o t \in Seq(Portion)
  BY <1>3, ConcatProperties
<1>5. mimeTypeSent' \in BOOLEAN
  BY <1>2
<1>6. held' \in {<< >>, t} /\ delivered' \in {Append(delivered, d), delivered \o t, delivered}
  BY <1>2
<1> QED
  BY <1>3, <1>4, <1>5, <1>6, Empties DEF DataInv

LEMMA DataStep ==
  ASSUME FishInv, ReadInv, DataInv, [Next]_vars
  PROVE  DataInv'
<1>1. CASE UNCHANGED <<delivered, held, mimeTypeSent>>
  BY <1>1 DEF DataInv
<1>2. CASE ReceiveData
  BY <1>2, ReceiveKeepsData
<1>3. CASE ManageGo
  <2>1. /\ held' \in {<< >>, held} /\ delivered' = delivered
        /\ mimeTypeSent' = mimeTypeSent \/ \E n \in {MimeBytes, cl.recvLen} : mimeTypeSent' = (n = 0)
    BY <1>3 DEF ManageGo
  <2>2. mimeTypeSent' \in BOOLEAN
    BY <2>1 DEF DataInv
  <2> QED
    BY <2>1, <2>2, Empties DEF DataInv
<1>4. CASE ManageRefused
  <2>1. held' = held /\ delivered' = delivered /\ mimeTypeSent' \in {mimeTypeSent, TRUE}
    BY <1>4 DEF ManageRefused
  <2> QED
    BY <2>1 DEF DataInv
<1>5. CASE StartJob
  <2>1. delivered' = << >> /\ held' = held /\ mimeTypeSent' = mimeTypeSent
    BY <1>5 DEF StartJob, Ask
  <2> QED
    BY <2>1, Empties DEF DataInv
<1>6. ASSUME ClientRun PROVE ReceiveData \/ ManageGo \/ ManageRefused \/ UNCHANGED <<delivered, held, mimeTypeSent>>
  BY <1>6 DEF ClientRun, OpenConnected, OpenFails, SelectWrites, SelectReads, SelectBroken, SelectTimesOut, RunEnds, ParseEnds,
       ManageText, ManageListing, ManageSize, ManageDone, ManageStored, clientVars, jobVars
<1>7. \/ ReceiveData \/ ManageGo \/ ManageRefused \/ StartJob \/ UNCHANGED <<delivered, held, mimeTypeSent>>
  <2>1. ASSUME Connect \/ ServerSteps \/ ConnectionBreaks \/ AllDone \/ UNCHANGED vars
        PROVE  UNCHANGED <<delivered, held, mimeTypeSent>>
    BY <2>1 DEF Connect, OpenConnects, ServerSteps, ConnectionBreaks, AllDone, vars, clientVars
  <2> QED
    BY <1>6, <2>1 DEF Next, ClientSteps
<1> QED
  BY <1>1, <1>2, <1>3, <1>4, <1>5, <1>7

(* The application's data, before anything has been sent.                  *)
LEMMA StartJobOpens ==
  ASSUME StartJob
  PROVE  OpenInv'
<1>1. PICK j \in Jobs, d \in PutData \cup {<< >>} : Ask(j, d) /\ asked' = d
  BY DEF StartJob
<1>2. d \in Seq(Portion)
  BY <1>1, ValuesAssumption, Empties DEF Portion
<1> QED
  BY <1>1, <1>2 DEF Ask, OpenInv

LEMMA OpenStays ==
  ASSUME OpenInv, UNCHANGED <<pc, delivered, toPut, asked>> \/ pc' # "open"
  PROVE  OpenInv'
BY DEF OpenInv

LEMMA ClientKeepsOpen ==
  ASSUME FishInv, OpenInv, ClientKinds
  PROVE  OpenInv'
<1>1. pc' # "open"
  BY DEF ClientKinds, Begins, Returns, Drops, Turns, Writes, Takes, Handling, NextCommand, Stores, StoresWith, Proceeds
<1> QED
  BY <1>1, OpenStays

-----------------------------------------------------------------------------
(* What is stored.  Of the data of a put the first Taken portions have     *)
(* been taken from the application; those the last writing command was     *)
(* sent for are on their way, in a file that holds the ones before.        *)
Taken == Len(asked) - Len(toPut)
Upto(n) == SubSeq(asked, 1, n)
Split == asked \in Seq(Portion) /\ Len(toPut) <= Len(asked) /\ toPut = SubSeq(asked, Taken + 1, Len(asked))
Place ==
  /\ Current.name \in Prelude \cup {"STOR"} => Taken = 0 /\ cl.putPos = 0
  /\ Current.name = "WRITE" => cl.putPos = Taken /\ Current.at = Taken - Current.n
AtHand ==
  Current.name \in {"WRITE", "APPEND"} =>
    /\ Current.n = cl.sendLen /\ cl.sendLen > 0 /\ Current.n <= Taken
    /\ cl.rawData = SubSeq(asked, Taken - Current.n + 1, Taken)
Due ==
  /\ Current.name \in {"WRITE", "APPEND"} /\ Asked => fs[job.p] = Upto(Taken - Current.n)
  /\ Current.name = "CHMOD" => fs[job.p] = asked
Written ==
  Current.name \in Writing /\ alive = TRUE /\ srv.mode \in {"alt", "data"} /\ srv.error = FALSE =>
    /\ srv.left <= Taken /\ fs[job.p] = Upto(Taken - srv.left)
    /\ srv.left > 0 => srv.pos = Taken - srv.left
OnTheWay ==
  Current.name \in Writing /\ alive = TRUE /\ srv.mode = "data" /\ ToCome = << >> /\ cl.rawWrite <= 0 =>
    \A i \in 1 .. srv.left : ToRead[i].d = asked[Taken - srv.left + i]
Stored ==
  Current.name \in Writing =>
    \A i \in 1 .. Len(ToCome) : IsFinal(ToCome[i]) /\ ToCome[i].v \div 100 = 2 => fs[job.p] = Upto(Taken)
PutInv == Working /\ job.op = "put" => Split /\ Place /\ AtHand /\ Due /\ Written /\ OnTheWay /\ Stored

LEMMA Part ==
  ASSUME NEW S, NEW s \in Seq(S), NEW a \in Nat, NEW b \in Nat, a <= b, b <= Len(s)
  PROVE  /\ SubSeq(s, a + 1, b) \in Seq(S) /\ Len(SubSeq(s, a + 1, b)) = b - a
         /\ \A i \in 1 .. b - a : SubSeq(s, a + 1, b)[i] = s[a + i]
<1>1. Len(s) \in Nat /\ a + 1 \in Int /\ b \in Int
  BY LenProperties
<1>2. \A i \in a + 1 .. b : s[i] \in S
  BY <1>1, ElementOfSeq
<1> DEFINE m == a + 1
<1>3. /\ SubSeq(s, m, b) \in Seq(S)
      /\ Len(SubSeq(s, m, b)) = IF m <= b THEN b - m + 1 ELSE 0
      /\ \A i \in 1 .. b - m + 1 : SubSeq(s, m, b)[i] = s[m + i - 1]
  <2> HIDE DEF m
  <2>1. m \in Int /\ \A i \in m .. b : s[i] \in S
    BY <1>1, <1>2 DEF m
  <2> QED
    BY <1>1, <2>1, SubSeqProperties
<1>4. Len(SubSeq(s, m, b)) = b - a
  <2> DEFINE k == Len(SubSeq(s, m, b))
  <2>1. k = IF m <= b THEN b - m + 1 ELSE 0
    BY <1>3
  <2> HIDE DEF k
  <2> QED
    BY <1>1, <2>1 DEF k
<1>5. ASSUME NEW i \in 1 .. b - a PROVE SubSeq(s, m, b)[i] = s[a + i]
  <2>1. i \in 1 .. b - m + 1 /\ m + i - 1 = a + i
    BY <1>1
  <2> HIDE DEF m
  <2> QED
    BY <1>3, <2>1
<1> QED
  BY <1>3, <1>4, <1>5

(* A part of what is left.                                                 *)
CutOff(s, t, a, n) ==
  /\ Len(t) = Len(s) - a /\ a + n <= Len(s)
  /\ SubSeq(t, n + 1, Len(t)) = SubSeq(s, a + n + 1, Len(s)) /\ SubSeq(t, 1, n) = SubSeq(s, a + 1, a + n)
LEMMA CutFurther ==
  ASSUME NEW S, NEW s \in Seq(S), NEW a \in Nat, a <= Len(s), NEW t, t = SubSeq(s, a + 1, Len(s)), NEW n \in 0 .. Len(t)
  PROVE  CutOff(s, t, a, n)
<1>1. Len(s) \in Nat
  BY LenProperties
<1>2. t \in Seq(S) /\ Len(t) = Len(s) - a /\ \A i \in 1 .. Len(s) - a : t[i] = s[a + i]
  BY <1>1, Part
<1>3. n \in Nat /\ a + n \in Nat /\ a + n <= Len(s) /\ n <= Len(t) /\ Len(t) \in Nat
  BY <1>1, <1>2
<1> DEFINE u == SubSeq(t, n + 1, Len(t))
           v == SubSeq(s, a + n + 1, Len(s))
           w == SubSeq(t, 1, n)
           x == SubSeq(s, a + 1, a + n)
<1>4. u \in Seq(S) /\ Len(u) = Len(t) - n /\ \A i \in 1 .. Len(t) - n : u[i] = t[n + i]
  BY <1>2, <1>3, Part
<1>5. v \in Seq(S) /\ Len(v) = Len(s) - (a + n) /\ \A i \in 1 .. Len(s) - (a + n) : v[i] = s[a + n + i]
  BY <1>1, <1>3, Part
<1>6. w \in Seq(S) /\ Len(w) = n /\ \A i \in 1 .. n : w[i] = t[i]
  BY <1>2, Cut
<1>7. x \in Seq(S) /\ Len(x) = a + n - a /\ \A i \in 1 .. a + n - a : x[i] = s[a + i]
  BY <1>1, <1>3, Part
<1> HIDE DEF u, v, w, x
<1>8. u = v
  <2>1. Len(u) = Len(v)
    BY <1>1, <1>2, <1>3, <1>4, <1>5
  <2>2. ASSUME NEW i \in 1 .. Len(u) PROVE u[i] = v[i]
    <3>1. /\ i \in 1 .. Len(t) - n /\ i \in 1 .. Len(s) - (a + n) /\ n + i \in 1 .. Len(s) - a /\ a + (n + i) = a + n + i
      BY <1>1, <1>2, <1>3, <1>4, <1>5
    <3>2. u[i] = t[n + i] /\ v[i] = s[a + n + i] /\ t[n + i] = s[a + (n + i)]
      BY <1>2, <1>4, <1>5, <3>1
    <3> QED
      BY <3>1, <3>2
  <2> QED
    BY <1>4, <1>5, <2>1, <2>2, SeqEqual
<1>9. w = x
  <2>1. Len(w) = Len(x)
    BY <1>3, <1>6, <1>7
  <2>2. ASSUME NEW i \in 1 .. Len(w) PROVE w[i] = x[i]
    <3>1. i \in 1 .. n /\ i \in 1 .. a + n - a /\ i \in 1 .. Len(s) - a
      BY <1>1, <1>2, <1>3, <1>6
    <3>2. w[i] = t[i] /\ x[i] = s[a + i] /\ t[i] = s[a + i]
      BY <1>2, <1>6, <1>7, <3>1
    <3> QED
      BY <3>1, <3>2
  <2> QED
    BY <1>6, <1>7, <2>1, <2>2, SeqEqual
<1> QED
  BY <1>2, <1>3, <1>8, <1>9 DEF u, v, w, x, CutOff

(* One portion more.                                                       *)
LEMMA OneMore ==
  ASSUME NEW S, NEW s \in Seq(S), NEW n \in Nat, n < Len(s)
  PROVE  SubSeq(s, 1, n) \o <<s[n + 1]>> = SubSeq(s, 1, n + 1) /\ Len(SubSeq(s, 1, n)) = n /\ SubSeq(s, 1, n) \in Seq(S)
<1>1. Len(s) \in Nat
  BY LenProperties
<1> DEFINE m == n + 1
<1>2. m \in 1 .. Len(s) /\ 1 \in 1 .. Len(s) /\ m - 1 = n /\ n \in 0 .. Len(s)
  BY <1>1
<1>3. SubSeq(s, 1, m) = SubSeq(s, 1, m - 1) \o <<s[m]>>
  <2> HIDE DEF m
  <2> QED
    BY <1>2, SubSeqRecursiveSecond
<1>4. Len(SubSeq(s, 1, n)) = n /\ SubSeq(s, 1, n) \in Seq(S)
  BY <1>2, Cut
<1> QED
  BY <1>2, <1>3, <1>4

-----------------------------------------------------------------------------
LEMMA SameParts ==
  ASSUME PutInv, UNCHANGED <<job, asked, toPut, fs, srv>>, alive' = TRUE => alive = TRUE, Asked' => Asked,
         Current' = Current, cl'.sendLen = cl.sendLen, cl'.putPos = cl.putPos, cl'.rawData = cl.rawData,
         Working' => Working,
         PutInv /\ Working /\ job.op = "put" => OnTheWay' /\ Stored'
  PROVE  PutInv'
<1> SUFFICES ASSUME Working', job'.op = "put" PROVE (Split /\ Place /\ AtHand /\ Due /\ Written)'
  BY DEF PutInv
<1>1. Split /\ Place /\ AtHand /\ Due /\ Written
  BY DEF PutInv
<1>2. Taken' = Taken /\ \A n : Upto(n)' = Upto(n)
  BY DEF Taken, Upto
<1>3. Split' /\ Place' /\ AtHand'
  BY <1>1, <1>2 DEF Split, Place, AtHand
<1>4. Due'
  BY <1>1, <1>2 DEF Due, Upto
<1>5. Written'
  BY <1>1, <1>2 DEF Written, Upto
<1> QED
  BY <1>3, <1>4, <1>5

LEMMA SamePut ==
  ASSUME PutInv, UNCHANGED <<job, asked, toPut, fs, srv>>, alive' = TRUE => alive = TRUE, Asked' => Asked,
         Current' = Current, cl'.sendLen = cl.sendLen, cl'.putPos = cl.putPos, cl'.rawData = cl.rawData,
         Working' => Working,
         ToCome' = ToCome, cl'.rawWrite = cl.rawWrite, ToRead' = ToRead \/ srv.mode \in {"main", "login"}
  PROVE  PutInv'
<1>1. ASSUME Working, job.op = "put" PROVE OnTheWay' /\ Stored'
  <2>1. OnTheWay /\ Stored
    BY <1>1 DEF PutInv
  <2>2. OnTheWay'
    BY <2>1 DEF OnTheWay, Taken
  <2>3. Stored'
    BY <2>1 DEF Stored, IsFinal, Taken, Upto
  <2> QED
    BY <2>2, <2>3
<1> QED
  BY <1>1, SameParts

LEMMA InData ==
  ASSUME FishInv, cl.childPid = TRUE, alive = TRUE, srv.mode = "data"
  PROVE  DataPhase /\ srv.left \in Nat
<1>1. srv.left \in Nat
  BY DEF FishInv, FishTypeInv, ServerSet
<1> QED
  BY <1>1 DEF FishInv, PhaseInv

(* The data at hand goes out behind nothing else.                          *)
LEMMA WritesPut ==
  ASSUME FishInv, PutInv, Writes, cl.isRunning = TRUE
  PROVE  PutInv'
<1>1. /\ Working /\ WriterEffect /\ WriterKeeps /\ ToCome' = ToCome /\ (Asked' => Asked) /\ cl'.putPos = cl.putPos
      /\ UNCHANGED <<alive, job, asked, toPut, fs, srv>> /\ cl.childPid = TRUE
  BY DEF Writes, WriterEffect, Working, jobVars, serverVars, appVars, FishInv, RunInv
<1>2. Current' = Current /\ cl'.sendLen = cl.sendLen /\ cl'.rawData = cl.rawData /\ cl \in ConnectionSet
  BY <1>1 DEF WriterKeeps, Current, FishInv, FishTypeInv
<1>3. CASE cl'.rawWrite = cl.rawWrite /\ ToRead' = ToRead
  BY <1>1, <1>2, <1>3, SamePut
<1>4. ASSUME PutInv, job.op = "put" PROVE Stored'
  <2>1. Stored
    BY <1>1, <1>4 DEF PutInv
  <2> QED
    BY <1>1, <1>2, <2>1 DEF Stored, IsFinal, Taken, Upto
<1>5. CASE cl.rawWrite > 0 /\ cl'.rawWrite = 0 /\ ToRead' = ToRead \o DataUnits(cl.rawData)
  <2>1. ASSUME job.op = "put" PROVE OnTheWay'
    <3> SUFFICES ASSUME Current.name \in Writing, alive = TRUE, srv.mode = "data", NEW i \in 1 .. srv.left
                 PROVE  ToRead'[i].d = asked[Taken - srv.left + i]
      BY <1>1, <1>2 DEF OnTheWay, Taken
    <3>1. Split /\ AtHand
      BY <1>1, <2>1 DEF PutInv
    <3>2. DataPhase /\ srv.left \in Nat
      BY <1>1, InData
    <3>3. ToRead = << >> /\ srv.left = cl.rawWrite
      <4>1. cl.rawWrite # -1 /\ ~(cl.rawWrite <= 0)
        BY <1>2, <1>5, ConnectionFields
      <4> QED
        BY <3>2, <4>1 DEF DataPhase
    <3>4. cl.rawWrite = cl.sendLen /\ cl.sendLen > 0
      BY <1>5 DEF FishInv, BufferInv
    <3>5. Current.name \in {"WRITE", "APPEND"} /\ Len(cl.rawData) = cl.sendLen
      BY <3>4 DEF FishInv, CurrentInv
    <3>6. Current.n = srv.left /\ srv.left <= Taken /\ cl.rawData = SubSeq(asked, Taken - srv.left + 1, Taken)
      BY <3>1, <3>3, <3>4, <3>5 DEF AtHand
    <3>7. cl.rawData \in Seq(Portion) /\ Len(cl.rawData) = srv.left
      BY <1>2, <3>3, <3>4, <3>5, ConnectionFields
    <3>8. DataUnits(cl.rawData) \in Seq(ClientUnit) /\ DataUnits(cl.rawData)[i].d = cl.rawData[i]
      <4>1. DataUnits(cl.rawData) \in Seq(ClientUnit)
        BY <3>7, DataFacts
      <4>2. i \in 1 .. Len(cl.rawData)
        BY <3>7
      <4> QED
        BY <4>1, <4>2 DEF DataUnits, Data
    <3>9. ToRead' = DataUnits(cl.rawData)
      BY <1>5, <3>3, <3>8, ConcatEmptySeq
    <3> DEFINE a == Taken - srv.left
    <3>10. a \in Nat /\ Taken \in Nat /\ a <= Taken /\ Taken <= Len(asked) /\ i \in 1 .. Taken - a
      <4>1. Len(asked) \in Nat /\ Len(toPut) \in Nat
        BY <3>1, LenProperties DEF Split, FishInv, FishTypeInv
      <4>2. Taken \in Nat /\ Taken <= Len(asked)
        BY <3>1, <4>1 DEF Split, Taken
      <4> QED
        BY <3>2, <3>6, <4>2
    <3>11. cl.rawData = SubSeq(asked, a + 1, Taken)
      BY <3>6
    <3> HIDE DEF a
    <3>12. SubSeq(asked, a + 1, Taken)[i] = asked[a + i]
      <4>1. asked \in Seq(Portion)
        BY <3>1 DEF Split
      <4>2. \A k \in 1 .. Taken - a : SubSeq(asked, a + 1, Taken)[k] = asked[a + k]
        BY <3>10, <4>1, Part
      <4> QED
        BY <3>10, <4>2
    <3> QED
      BY <3>8, <3>9, <3>11, <3>12 DEF a
  <2> QED
    BY <1>1, <1>2, <1>4, <2>1, SameParts
<1>6. CASE cl.rawWrite = 0 /\ cl'.rawWrite = -1 /\ ToRead' = ToRead \o <<Newlines>>
  <2>1. ASSUME job.op = "put" PROVE OnTheWay'
    <3> SUFFICES ASSUME Current.name \in Writing, alive = TRUE, srv.mode = "data", ToCome = << >>, NEW i \in 1 .. srv.left
                 PROVE  ToRead'[i].d = asked[Taken - srv.left + i]
      BY <1>1, <1>2 DEF OnTheWay, Taken
    <3>1. OnTheWay
      BY <1>1, <2>1 DEF PutInv
    <3>2. ToRead[i].d = asked[Taken - srv.left + i]
      BY <1>6, <3>1 DEF OnTheWay
    <3>3. DataPhase /\ srv.left \in Nat
      BY <1>1, InData
    <3>4. Len(ToRead) = srv.left
      <4>1. cl.rawWrite # -1 /\ ~(cl.rawWrite > 0)
        BY <1>6
      <4> QED
        BY <1>6, <3>3, <4>1 DEF DataPhase
    <3>5. \A k \in 1 .. Len(ToRead) : ToRead'[k] = ToRead[k]
      BY <1>6, OtherUnits, Appended DEF FishInv
    <3> QED
      BY <3>2, <3>4, <3>5
  <2> QED
    BY <1>1, <1>2, <1>4, <2>1, SameParts
<1> QED
  BY <1>1, <1>3, <1>5, <1>6 DEF WriterEffect

-----------------------------------------------------------------------------
LEMMA FirstOf ==
  ASSUME NEW list \in Seq(RequestSet), NEW name, NEW early, EndsWith(list, name, early)
  PROVE  Head(list).name \in early \cup {name}
<1>1. list # << >> /\ list[Len(list)].name = name /\ \A i \in 1 .. Len(list) : i < Len(list) => list[i].name \in early
  BY DEF EndsWith
<1>2. Len(list) \in Nat /\ Len(list) # 0 /\ Head(list) = list[1]
  BY <1>1, LenProperties, EmptySeq, HeadTailProperties
<1>3. CASE Len(list) = 1
  BY <1>1, <1>2, <1>3
<1>4. CASE Len(list) # 1
  <2> DEFINE n == Len(list)
  <2>1. n \in Nat /\ n # 0 /\ n # 1
    BY <1>2, <1>4
  <2>2. 1 \in 1 .. n /\ 1 < n
    <3> HIDE DEF n
    <3> QED
      BY <2>1
  <2> QED
    BY <1>1, <1>2, <2>2
<1> QED
  BY <1>3, <1>4

(* Nothing is taken from the application before STOR has been answered.    *)
LEMMA BeginsPut ==
  ASSUME FishInv, OpenInv, Begins
  PROVE  PutInv'
<1> SUFFICES ASSUME job.op = "put" PROVE (Split /\ Place /\ AtHand /\ Due /\ Written /\ OnTheWay /\ Stored)'
  BY DEF PutInv, Begins
<1>1. /\ toPut' = asked /\ asked' = asked /\ asked \in Seq(Portion) /\ ToCome' = << >> /\ cl'.putPos = 0
      /\ alive' = TRUE => srv'.mode \in {"login", "main"}
  BY DEF Begins, OpenInv
<1>2. PICK list \in Seq(RequestSet) : list # << >> /\ Current' = Head(list) /\ Plan(list)
  BY DEF Begins
<1>3. Current'.name \in Prelude \cup {"STOR"}
  BY <1>2, FirstOf DEF Plan
<1>4. Current'.name \notin {"WRITE", "APPEND", "CHMOD"}
  BY <1>3 DEF Prelude
<1>5. Len(asked) \in Nat /\ Taken' = 0 /\ SubSeq(asked, 1, Len(asked)) = asked
  BY <1>1, LenProperties, SubSeqFull DEF Taken
<1>6. Split' /\ Place' /\ AtHand' /\ Due'
  BY <1>1, <1>4, <1>5 DEF Split, Place, AtHand, Due
<1>7. Written' /\ OnTheWay'
  BY <1>1 DEF Written, OnTheWay
<1>8. Stored'
  BY <1>1, Empties DEF Stored
<1> QED
  BY <1>6, <1>7, <1>8

LEMMA TakesPut ==
  ASSUME FishInv, PutInv, Takes
  PROVE  PutInv'
<1>1. /\ Handling /\ UNCHANGED <<alive, job, asked, toPut, fs, srv>> /\ cl'.sendLen = cl.sendLen /\ cl'.rawData = cl.rawData
      /\ cl'.putPos = cl.putPos /\ (Working' => Working)
      /\ cl'.rawWrite = IF IsGo(Head(inBuf)) /\ Current.name \in Writing THEN cl.sendLen ELSE cl.rawWrite
  BY DEF Takes, Elsewhere, Handling, wireVars, appVars, Working
<1>2. /\ Current' = Current /\ cl.childPid = TRUE /\ ToCome \in Seq(ServerUnit) /\ ToCome # << >>
      /\ ToCome[1] = Head(inBuf) /\ ToCome' = Tail(ToCome)
  BY <1>1, HandlingFacts
<1>3. Asked' => Asked
  BY TakesAsked
<1>4. ASSUME PutInv, Working, job.op = "put" PROVE Stored'
  <2>1. Stored
    BY <1>4 DEF PutInv
  <2> SUFFICES ASSUME Current.name \in Writing, NEW i \in 1 .. Len(ToCome'), IsFinal(ToCome[i])', ToCome'[i].v \div 100 = 2
               PROVE  fs[job.p] = Upto(Taken)
    BY <1>1, <1>2 DEF Stored, Upto, Taken, IsFinal
  <2>2. PICK j \in 1 .. Len(ToCome) : ToCome[j] = ToCome'[i]
    BY <1>2, TailSucceeds
  <2>3. IsFinal(ToCome[j]) /\ ToCome[j].v \div 100 = 2
    BY <2>2 DEF IsFinal
  <2> QED
    BY <2>1, <2>3 DEF Stored
<1>5. OnTheWay'
  <2> SUFFICES ASSUME Current.name \in Writing, alive = TRUE, srv.mode = "data", cl'.rawWrite <= 0
               PROVE  1 .. srv.left = {}
    BY <1>1, <1>2 DEF OnTheWay
  <2>1. DataPhase
    BY <1>2, InData
  <2>2. ToCome = Printed(Current.id, <<Status(100)>>) /\ srv.left = Current.n /\ Announced
    BY <1>2, <2>1 DEF DataPhase
  <2>3. IsGo(Head(inBuf))
    <3>1. ToCome[1] = Unit("status", 100, Current.id)
      BY <2>2 DEF Printed, Status
    <3> QED
      BY <1>2, <3>1 DEF IsGo, Unit
  <2>4. cl.sendLen <= 0
    BY <1>1, <2>3
  <2>5. srv.left = 0
    <3>1. cl \in ConnectionSet
      BY DEF FishInv, FishTypeInv
    <3>2. cl.sendLen \in Nat \cup {-1}
      BY <3>1, ConnectionFields
    <3>3. ~(cl.sendLen > 0)
      BY <2>4, <3>2
    <3> QED
      BY <2>2, <3>3 DEF Announced
  <2> QED
    BY <2>5
<1> QED
  BY <1>1, <1>2, <1>3, <1>4, <1>5, SameParts

LEMMA ProceedsParts ==
  ASSUME FishInv, NEW l, Proceeds(l)
  PROVE  (Written /\ OnTheWay /\ Stored)'
<1>1. ToCome' = << >> /\ UNCHANGED <<alive, srv>> /\ (alive = TRUE => srv.mode = "main")
  BY DEF Proceeds, QuietWire, wireVars
<1>2. Written' /\ OnTheWay'
  BY <1>1 DEF Written, OnTheWay
<1>3. Stored'
  BY <1>1, Empties DEF Stored
<1> QED
  BY <1>2, <1>3

LEMMA NextCommandPut ==
  ASSUME FishInv, PlanInv, PutInv, NextCommand
  PROVE  PutInv'
<1>1. Working /\ Proceeds(cl.commandList) /\ UNCHANGED <<toPut, asked, job>> /\ cl'.putPos = cl.putPos
  BY DEF NextCommand, Proceeds, Working, appVars
<1> SUFFICES ASSUME job.op = "put", Working' PROVE (Split /\ Place /\ AtHand /\ Due)'
  BY <1>1, ProceedsParts DEF PutInv
<1>2. cl.commandList # << >> /\ cl.commandList \in Seq(RequestSet) /\ Current' = Head(cl.commandList)
  BY <1>1, ConnectionFields DEF Proceeds, Working, FishInv, FishTypeInv
<1>3. Current.name \in Prelude /\ EndsWith(cl.commandList, "STOR", Prelude)
  BY <1>1, <1>2 DEF PlanInv, Ordered
<1>4. Current'.name \in Prelude \cup {"STOR"}
  BY <1>2, <1>3, FirstOf
<1>5. Current'.name \notin {"WRITE", "APPEND", "CHMOD"}
  BY <1>4 DEF Prelude
<1>6. Split /\ Place
  BY <1>1 DEF PutInv
<1>7. Split' /\ Taken' = Taken
  BY <1>1, <1>6 DEF Split, Taken
<1>8. Place' /\ AtHand' /\ Due'
  BY <1>1, <1>3, <1>5, <1>6, <1>7 DEF Place, AtHand, Due
<1> QED
  BY <1>7, <1>8

-----------------------------------------------------------------------------
(* All that was taken is in the file before more is taken.                 *)
LEMMA StoredWell ==
  ASSUME FishInv, PutInv, Working, job.op = "put", Current.name \in Writing, ToCome = <<Head(inBuf)>>, Welcome(Head(inBuf))
  PROVE  fs[job.p] = Upto(Taken)
<1>1. IsFinal(Head(inBuf)) /\ Head(inBuf).v \div 100 = 2
  BY DEF Welcome, Writing
<1>2. 1 \in 1 .. Len(ToCome) /\ ToCome[1] = Head(inBuf)
  OBVIOUS
<1> QED
  BY <1>1, <1>2 DEF PutInv, Stored

LEMMA PortionTaken ==
  ASSUME Split, toPut \in Seq(Portion), asked' = asked, NEW n \in 0 .. Len(toPut), toPut' = SubSeq(toPut, n + 1, Len(toPut))
  PROVE  /\ Split' /\ Taken \in Nat /\ Taken' = Taken + n /\ Taken + n <= Len(asked) /\ n \in Nat
         /\ SubSeq(toPut, 1, n) = SubSeq(asked, Taken + 1, Taken + n)
         /\ toPut = << >> => Taken = Len(asked)
<1> DEFINE k == Len(asked)
           m == Len(toPut)
           t == SubSeq(toPut, n + 1, m)
<1>1. PICK a : a = Taken
  OBVIOUS
<1>2. asked \in Seq(Portion) /\ toPut = SubSeq(asked, a + 1, k) /\ m <= k /\ a = k - m
  BY <1>1 DEF Split, Taken
<1>3. k \in Nat /\ m \in Nat
  BY <1>2, LenProperties
<1>4. a \in Nat /\ a <= k
  <2> HIDE DEF k, m
  <2> QED
    BY <1>2, <1>3
<1>5. /\ m = k - a /\ a + n <= k
      /\ t = SubSeq(asked, a + n + 1, k) /\ SubSeq(toPut, 1, n) = SubSeq(asked, a + 1, a + n)
  <2>1. CutOff(asked, toPut, a, n)
    BY <1>2, <1>4, CutFurther
  <2> QED
    BY <2>1 DEF CutOff
<1>6. Len(t) = m - n /\ n \in Nat
  BY <1>3, Cut
<1>7. asked' = asked /\ toPut' = t
  OBVIOUS
<1> DEFINE b == Len(asked) - Len(t)
<1>8. b = a + n
  <2>1. b = k - (m - n)
    BY <1>6
  <2> HIDE DEF k, m, b
  <2> QED
    BY <1>3, <1>4, <1>5, <1>6, <2>1
<1>9. Taken' = a + n
  BY <1>7, <1>8 DEF Taken
<1>10. Split'
  <2>1. Len(t) <= k
    <3> DEFINE j == Len(t)
    <3>1. j = m - n
      BY <1>6
    <3> HIDE DEF j, k, m
    <3>2. j <= k
      BY <1>3, <1>4, <1>5, <1>6, <3>1
    <3> QED
      BY <3>2 DEF j
  <2>2. t = SubSeq(asked, Taken' + 1, k)
    BY <1>5, <1>9
  <2> QED
    BY <1>2, <1>7, <2>1, <2>2 DEF Split
<1>11. toPut = << >> => a = k
  <2>1. toPut = << >> => m = 0
    BY Empties
  <2>2. a = k - m
    BY <1>2
  <2> HIDE DEF k, m
  <2>3. m = 0 => a = k
    BY <1>3, <2>2
  <2> QED
    BY <2>1, <2>3
<1> QED
  BY <1>1, <1>4, <1>5, <1>6, <1>9, <1>10, <1>11

LEMMA StoresPut ==
  ASSUME FishInv, PlanInv, PutInv, Stores
  PROVE  PutInv'
<1>1. PICK n \in 0 .. Len(toPut), l \in Seq(RequestSet) : StoresWith(n, l)
  BY DEF Stores
<1>2. Proceeds(l) /\ Working /\ Current.name \in Writing /\ UNCHANGED <<job, fs, asked>>
  BY <1>1 DEF Stores, StoresWith, Proceeds, Working, appVars, serverVars
<1> SUFFICES ASSUME job.op = "put", Working' PROVE (Split /\ Place /\ AtHand /\ Due)'
  BY <1>2, ProceedsParts DEF PutInv
<1>3. l # << >> /\ Current' = Head(l)
  BY <1>2 DEF Proceeds, Working
<1>4. Split /\ Place /\ AtHand /\ toPut \in Seq(Portion)
  BY <1>2 DEF PutInv, FishInv, FishTypeInv
<1>5. /\ toPut' = SubSeq(toPut, n + 1, Len(toPut)) /\ cl'.rawData = SubSeq(toPut, 1, n) /\ cl'.sendLen = n
      /\ cl'.putPos = cl.putPos + (IF NextWriting = "WRITE" THEN n ELSE 0) /\ (n = 0 <=> toPut = << >>)
      /\ n > 0 => Current'.name = NextWriting /\ Current'.n = n /\ Current'.at = (IF NextWriting = "WRITE" THEN cl.putPos ELSE 0)
      /\ n = 0 => Current'.name = "CHMOD"
  BY <1>1, <1>3 DEF StoresWith
<1>6. /\ Split' /\ Taken \in Nat /\ Taken' = Taken + n /\ Taken + n <= Len(asked) /\ n \in Nat
      /\ SubSeq(toPut, 1, n) = SubSeq(asked, Taken + 1, Taken + n)
      /\ toPut = << >> => Taken = Len(asked)
  BY <1>2, <1>4, <1>5, PortionTaken
<1>7. fs[job.p] = Upto(Taken)
  BY <1>2, StoredWell DEF Proceeds
<1>8. CASE n = 0
  <2>1. Current'.name = "CHMOD" /\ Taken = Len(asked)
    BY <1>5, <1>6, <1>8
  <2>2. fs[job.p] = asked
    BY <1>4, <1>7, <2>1, SubSeqFull DEF Split, Upto
  <2>3. Place' /\ AtHand'
    BY <2>1 DEF Place, AtHand, Prelude
  <2>4. Due'
    BY <1>2, <2>1, <2>2 DEF Due
  <2> QED
    BY <1>6, <2>3, <2>4
<1>9. CASE n > 0
  <2>1. PICK a, b, w : a = Taken /\ b = Taken' /\ w = NextWriting
    OBVIOUS
  <2>2. a \in Nat /\ n \in Nat /\ b = a + n /\ b - n = a /\ n <= b
    BY <1>6, <2>1
  <2>3. /\ Current'.name = w /\ Current'.n = n /\ Current'.at = (IF w = "WRITE" THEN cl.putPos ELSE 0)
        /\ cl'.putPos = cl.putPos + (IF w = "WRITE" THEN n ELSE 0) /\ cl'.sendLen = n
    BY <1>5, <1>9, <2>1
  <2>4. w \in {"WRITE", "APPEND"} /\ (w = "WRITE" => Current.name \in {"STOR", "WRITE"})
    BY <1>2, <2>1 DEF NextWriting, Writing, Current
  <2>5. w = "WRITE" => cl.putPos = a
    BY <1>4, <2>1, <2>4 DEF Place
  <2>6. Place'
    <3>1. Current'.name \notin Prelude \cup {"STOR"}
      BY <2>3, <2>4 DEF Prelude
    <3>2. Current'.name = "WRITE" => cl'.putPos = b /\ Current'.at = b - Current'.n
      BY <2>2, <2>3, <2>5
    <3> QED
      BY <2>1, <3>1, <3>2 DEF Place
  <2>7. AtHand'
    <3>1. cl'.rawData = SubSeq(asked, a + 1, b)
      BY <1>5, <1>6, <2>1, <2>2
    <3>2. Current'.n = cl'.sendLen /\ cl'.sendLen > 0 /\ Current'.n <= b /\ b - Current'.n + 1 = a + 1
      BY <1>9, <2>2, <2>3
    <3> QED
      BY <1>2, <2>1, <3>1, <3>2 DEF AtHand
  <2>8. Due'
    <3>1. fs[job.p] = SubSeq(asked, 1, b - Current'.n)
      BY <1>7, <2>1, <2>2, <2>3 DEF Upto
    <3>2. Current'.name # "CHMOD"
      BY <2>3, <2>4
    <3> QED
      BY <1>2, <2>1, <3>1, <3>2 DEF Due, Upto
  <2> QED
    BY <1>6, <2>6, <2>7, <2>8
<1> QED
  BY <1>6, <1>8, <1>9

LEMMA ClientKeepsPut ==
  ASSUME FishInv, PlanInv, OpenInv, PutInv, ClientKinds
  PROVE  PutInv'
<1>1. CASE Begins
  BY <1>1, BeginsPut
<1>2. CASE Returns \/ Drops
  BY <1>2 DEF Returns, Drops, PutInv, Working
<1>3. CASE Turns
  <2>1. Working' => Working
    BY <1>3 DEF Turns, Working
  <2>2. UNCHANGED <<cl, job, asked, toPut, fs, srv, alive>> /\ ToCome' = ToCome /\ Current' = Current /\ ToRead' = ToRead
    BY <1>3 DEF Turns, jobVars, serverVars, appVars, Current, ToRead
  <2>3. Asked' => Asked
    BY <2>2 DEF Asked
  <2> QED
    BY <2>1, <2>2, <2>3, SamePut
<1>4. CASE Writes /\ cl.isRunning = TRUE
  BY <1>4, WritesPut
<1>5. CASE Takes
  BY <1>5, TakesPut
<1>6. CASE NextCommand
  BY <1>6, NextCommandPut
<1>7. CASE Stores
  BY <1>7, StoresPut
<1> QED
  BY <1>1, <1>2, <1>3, <1>4, <1>5, <1>6, <1>7 DEF ClientKinds

-----------------------------------------------------------------------------
(* What the server's steps leave alone.                                    *)
LEMMA ServerPutSame ==
  ASSUME PutInv, UNCHANGED <<clientVars, appVars>>, Working, job.op = "put"
  PROVE  /\ Split' /\ Place' /\ AtHand' /\ Taken' = Taken /\ (\A n : Upto(n)' = Upto(n)) /\ Current' = Current
         /\ UNCHANGED <<cl, job, asked, toPut>> /\ Split /\ Place /\ AtHand /\ Due /\ Written /\ OnTheWay /\ Stored
<1>1. UNCHANGED <<cl, job, toPut, asked>> /\ Current' = Current
  BY DEF clientVars, appVars, Current
<1>2. Split /\ Place /\ AtHand /\ Due /\ Written /\ OnTheWay /\ Stored
  BY DEF PutInv
<1>3. Taken' = Taken /\ \A n : Upto(n)' = Upto(n)
  BY <1>1 DEF Taken, Upto
<1>4. Split' /\ Place' /\ AtHand'
  BY <1>1, <1>2, <1>3 DEF Split, Place, AtHand
<1> QED
  BY <1>1, <1>2, <1>3, <1>4

LEMMA ServerPutParts ==
  ASSUME PutInv, UNCHANGED <<clientVars, appVars>>,
         Working /\ job.op = "put" => Due' /\ Written' /\ OnTheWay' /\ Stored'
  PROVE  PutInv'
<1>1. Working' = Working /\ job' = job
  BY DEF clientVars, Working
<1> QED
  BY <1>1, ServerPutSame DEF PutInv

LEMMA NotWritingPut ==
  ASSUME PutInv, UNCHANGED <<clientVars, appVars>>, Current.name \notin Writing, Current.name = "CHMOD" => fs' = fs
  PROVE  PutInv'
<1> SUFFICES ASSUME Working, job.op = "put" PROVE Due' /\ Written' /\ OnTheWay' /\ Stored'
  BY ServerPutParts
<1>1. Current' = Current /\ UNCHANGED <<job, asked>> /\ Due
  BY ServerPutSame
<1>2. Due'
  BY <1>1 DEF Due, Writing
<1> QED
  BY <1>1, <1>2 DEF Written, OnTheWay, Stored

LEMMA ExecutesPut ==
  ASSUME FishInv, PutInv, Executes, UNCHANGED <<clientVars, appVars>>
  PROVE  PutInv'
<1>1. PICK o \in PerlOutcomes(Current) : fs' = o.fs
  BY DEF Executes
<1>2. ASSUME Current.name = "CHMOD" PROVE fs' = fs
  <2>1. PerlOutcomes(Current) = PerlActs(Current)
    BY <1>2 DEF PerlOutcomes, Acting
  <2>2. Effects(Current) \subseteq {fs} /\ Remains(Current) = {fs}
    BY <1>2 DEF Effects, Remains
  <2> QED
    BY <1>1, <2>1, <2>2 DEF PerlActs, Did, DidNot
<1> QED
  BY <1>2, NotWritingPut DEF Executes

LEMMA PutPath ==
  ASSUME FishInv, PlanInv, Working, job.op = "put", Current.name \in Writing
  PROVE  Current.p = job.p /\ job.p \in Path
<1>1. Fits(Current) /\ job \in JobSet
  BY DEF PlanInv, Working
<1> QED
  BY <1>1 DEF Fits, Writing, JobSet

LEMMA Sizes ==
  ASSUME FishInv, Split
  PROVE  /\ asked \in Seq(Portion) /\ Len(asked) \in Nat /\ Taken \in Nat /\ Taken <= Len(asked)
         /\ \A k \in 0 .. Taken : Upto(k) \in Seq(Portion) /\ Len(Upto(k)) = k
<1>1. asked \in Seq(Portion) /\ toPut \in Seq(Portion) /\ Len(toPut) <= Len(asked)
  BY DEF Split, FishInv, FishTypeInv
<1>2. Len(asked) \in Nat /\ Len(toPut) \in Nat
  BY <1>1, LenProperties
<1>3. Taken \in Nat /\ Taken <= Len(asked)
  BY <1>1, <1>2 DEF Taken
<1>4. ASSUME NEW k \in 0 .. Taken PROVE Upto(k) \in Seq(Portion) /\ Len(Upto(k)) = k
  <2>1. k \in 0 .. Len(asked)
    BY <1>2, <1>3
  <2> QED
    BY <1>1, <2>1, Cut DEF Upto
<1> QED
  BY <1>1, <1>2, <1>3, <1>4

LEMMA OpensPut ==
  ASSUME FishInv, PlanInv, PutInv, Working, Opens, UNCHANGED <<clientVars, appVars>>
  PROVE  PutInv'
<1> SUFFICES ASSUME job.op = "put" PROVE Due' /\ Written' /\ OnTheWay' /\ Stored'
  BY ServerPutParts
<1>1. /\ Taken' = Taken /\ (\A n : Upto(n)' = Upto(n)) /\ Current' = Current /\ UNCHANGED <<cl, job, asked, toPut>>
      /\ Split /\ Place /\ AtHand /\ Due
  BY ServerPutSame
<1>2. /\ Asked /\ Asked' = FALSE /\ Current.name \in Writing /\ ToCome' = << >>
      /\ fs' = [fs EXCEPT ![Current.p] = Opened]
      /\ srv' = [mode |-> "alt", c |-> Current, left |-> Current.n, error |-> FALSE,
                 pos |-> IF Current.name = "APPEND" THEN Len(Opened) ELSE Current.at]
  BY DEF Opens, HasRead
<1>3. Due' /\ OnTheWay' /\ Stored'
  BY <1>1, <1>2, Empties DEF Due, OnTheWay, Stored, Writing
<1>4. Current.p = job.p /\ job.p \in Path /\ fs \in [Path -> Value]
  BY <1>2, PutPath DEF FishInv, FishTypeInv
<1>5. fs'[job.p] = Opened
  BY <1>2, <1>4
<1>6. srv'.left = Current.n /\ srv'.pos = (IF Current.name = "APPEND" THEN Len(Opened) ELSE Current.at)
  BY <1>2
<1>7. CASE Current.name = "STOR"
  <2>1. Taken = 0 /\ Current.n = 0 /\ Opened = << >>
    <3>1. Current.n = 0
      BY <1>7, ConnectionFields DEF FishInv, FishTypeInv, Current, RequestSet
    <3> QED
      BY <1>1, <1>7, <3>1 DEF Place, Opened
  <2>2. Upto(0) = << >>
    BY SubSeqEmpty DEF Upto
  <2> QED
    BY <1>1, <1>3, <1>5, <1>6, <2>1, <2>2 DEF Written
<1>8. CASE Current.name \in {"WRITE", "APPEND"}
  <2>1. PICK t, n : t = Taken /\ n = Current.n
    OBVIOUS
  <2>2. n > 0 /\ n <= t /\ t \in Nat /\ n \in Nat /\ fs[job.p] = Upto(t - n)
    BY <1>1, <1>2, <1>8, <2>1, Sizes, ConnectionFields DEF AtHand, Due, FishInv, FishTypeInv, Current, RequestSet
  <2>3. t - n \in 0 .. Taken
    BY <2>1, <2>2
  <2>4. fs[job.p] \in Seq(Portion) /\ Len(fs[job.p]) = t - n
    BY <1>1, <2>2, <2>3, Sizes
  <2>5. Opened = fs[job.p]
    <3>1. fs[job.p] # Absent
      BY <2>4, NamesAssumption DEF Portion
    <3> QED
      BY <1>4, <1>8, <3>1 DEF Opened
  <2>6. srv'.pos = t - n
    <3>1. Current.name = "WRITE" => Current.at = t - n
      BY <1>1, <2>1 DEF Place
    <3> QED
      BY <1>6, <1>8, <2>4, <2>5, <3>1
  <2> QED
    BY <1>1, <1>3, <1>5, <1>6, <2>1, <2>2, <2>5, <2>6 DEF Written
<1> QED
  BY <1>2, <1>7, <1>8 DEF Writing

LEMMA OneStatusComes ==
  ASSUME NEW id, NEW n
  PROVE  /\ Printed(id, <<Status(n)>>) # << >> /\ Len(Printed(id, <<Status(n)>>)) = 1
         /\ Printed(id, <<Status(n)>>)[1] = Unit("status", n, id)
<1> DEFINE r == <<Status(n)>>
           p == Printed(id, r)
<1>1. Len(r) = 1 /\ r[1][1] = "status" /\ r[1][2] = n
  BY DEF Status
<1>2. p = [i \in 1 .. 1 |-> Unit(r[i][1], r[i][2], id)]
  BY <1>1 DEF Printed
<1> HIDE DEF r
<1>3. p[1] = Unit("status", n, id) /\ Len(p) = 1
  BY <1>1, <1>2
<1>4. p # << >>
  BY <1>3, Empties
<1> QED
  BY <1>3, <1>4 DEF r

LEMMA RepliesPut ==
  ASSUME FishInv, PlanInv, PutInv, Working, CannotOpen \/ AsksForData, UNCHANGED <<clientVars, appVars>>, alive = TRUE
  PROVE  PutInv'
<1> SUFFICES ASSUME job.op = "put" PROVE Due' /\ Written' /\ OnTheWay' /\ Stored'
  BY ServerPutParts
<1>1. /\ Taken' = Taken /\ (\A n : Upto(n)' = Upto(n)) /\ Current' = Current /\ UNCHANGED <<cl, job, asked, toPut>>
      /\ Due /\ Written
  BY ServerPutSame
<1>2. PICK n \in {100, 400} : ToCome' = Printed(Current.id, <<Status(n)>>)
  BY DEF CannotOpen, AsksForData
<1>3. Current.name \in Writing /\ Asked' = FALSE /\ fs' = fs
  BY DEF CannotOpen, AsksForData, HasRead
<1>4. ToCome' # << >> /\ Len(ToCome') = 1 /\ ToCome'[1] = Unit("status", n, Current.id)
  BY <1>2, OneStatusComes
<1>5. Due'
  BY <1>1, <1>3 DEF Due, Writing
<1>6. OnTheWay'
  BY <1>4 DEF OnTheWay
<1>7. Stored'
  <2>1. ASSUME NEW i \in 1 .. Len(ToCome'), IsFinal(ToCome'[i]), ToCome'[i].v \div 100 = 2 PROVE FALSE
    <3>1. ToCome'[i].v = n
      BY <1>4 DEF Unit
    <3>2. n # 100
      BY <2>1, <3>1 DEF IsFinal
    <3>3. n = 400
      BY <3>2
    <3> QED
      BY <2>1, <3>1, <3>3, Refusals
  <2> QED
    BY <2>1 DEF Stored, IsFinal
<1>8. Written'
  <2>1. CASE CannotOpen
    BY <2>1 DEF CannotOpen, HasRead, Written
  <2>2. CASE AsksForData
    <3>1. srv.mode = "alt" /\ srv'.left = srv.left /\ srv'.pos = srv.pos /\ srv'.error = srv.error
      BY <2>2 DEF AsksForData, FishInv, FishTypeInv, ServerSet
    <3> QED
      BY <1>1, <1>3, <3>1 DEF Written
  <2> QED
    BY <2>1, <2>2
<1> QED
  BY <1>5, <1>6, <1>7, <1>8

-----------------------------------------------------------------------------
(* A portion written where the file ends.                                  *)
LEMMA WrittenNext ==
  ASSUME NEW s \in Seq(Portion), NEW k \in Nat, k < Len(s), NEW f, f = SubSeq(s, 1, k), NEW d, d = s[k + 1]
  PROVE  Padded(f, k) \o <<d>> \o SubSeq(f, k + 2, Len(f)) = SubSeq(s, 1, k + 1)
<1>1. f \o <<d>> = SubSeq(s, 1, k + 1) /\ f \in Seq(Portion) /\ Len(f) = k
  BY OneMore
<1>2. Padded(f, k) = f
  BY <1>1, WholeFile
<1>3. SubSeq(f, k + 2, k) = << >>
  BY SubSeqEmpty
<1> DEFINE u == SubSeq(s, 1, k + 1)
<1>4. u \in Seq(Portion) /\ f \o <<d>> = u
  <2>1. k + 1 \in 0 .. Len(s)
    BY LenProperties
  <2> QED
    BY <1>1, <2>1, Cut
<1> HIDE DEF u
<1>5. u \o << >> = u
  BY <1>4, ConcatEmptySeq
<1>6. Padded(f, k) \o <<d>> \o SubSeq(f, k + 2, Len(f)) = u \o << >>
  BY <1>1, <1>2, <1>3, <1>4
<1> QED
  BY <1>5, <1>6 DEF u

LEMMA TakesDataPut ==
  ASSUME FishInv, PlanInv, PutInv, Working, TakesData, UNCHANGED <<clientVars, appVars>>, alive = TRUE
  PROVE  PutInv'
<1> SUFFICES ASSUME job.op = "put" PROVE Due' /\ Written' /\ OnTheWay' /\ Stored'
  BY ServerPutParts
<1>1. /\ Taken' = Taken /\ (\A n : Upto(n)' = Upto(n)) /\ Current' = Current /\ UNCHANGED <<cl, job, asked, toPut>>
      /\ Split /\ Due /\ Written /\ OnTheWay
  BY ServerPutSame
<1>2. /\ srv.mode = "data" /\ srv.left > 0 /\ Current.name \in Writing /\ ToCome = << >> /\ ToCome' = << >> /\ (Asked' => Asked)
      /\ ToRead # << >> /\ ToRead' = Tail(ToRead) /\ cl.childPid = TRUE
  BY DEF TakesData, Working, FishInv, RunInv
<1>3. DataPhase /\ srv.left \in Nat /\ srv \in ServerSet
  BY <1>2, InData DEF FishInv, FishTypeInv
<1>4. /\ cl.rawWrite <= 0 /\ Len(ToRead) \in {srv.left, srv.left + 1}
      /\ \A i \in 1 .. srv.left : ToRead[i].u = "data"
      /\ \A i \in srv.left + 1 .. Len(ToRead) : IsNoise(ToRead[i])
  <2>1. ToCome # Printed(Current.id, <<Status(100)>>)
    BY <1>2, OneStatusComes
  <2> QED
    BY <1>2, <1>3, <2>1 DEF DataPhase
<1>5. ~Asked
  <2>1. ASSUME NEW i \in 1 .. Len(ToRead) PROVE ToRead[i].u # "line"
    <3>1. i \in 1 .. srv.left \/ i \in srv.left + 1 .. Len(ToRead)
      BY <1>3, <1>4
    <3> QED
      BY <1>4, <3>1 DEF IsNoise
  <2> QED
    BY <2>1 DEF Asked
<1>6. Due' /\ Stored'
  BY <1>1, <1>2, <1>5, Empties DEF Due, Stored, Writing
<1>7. PICK a, k : a = Taken /\ k = Taken - srv.left
  OBVIOUS
<1>8. a \in Nat /\ a <= Len(asked) /\ asked \in Seq(Portion)
  BY <1>1, <1>7, Sizes
<1>9. \A i \in 1 .. srv.left : ToRead[i].d = asked[k + i]
  BY <1>1, <1>2, <1>4, <1>7 DEF OnTheWay
<1>10. srv'.left = srv.left - 1
  BY <1>3 DEF TakesData, ServerSet
<1>11. OnTheWay'
  <2> SUFFICES ASSUME NEW i \in 1 .. srv'.left PROVE ToRead'[i].d = asked[a - srv'.left + i]
    BY <1>1, <1>7 DEF OnTheWay
  <2>1. i \in Nat /\ i >= 1 /\ i + 1 \in 1 .. srv.left /\ a - srv'.left + i = k + (i + 1) /\ a - srv.left = k
    BY <1>3, <1>7, <1>8, <1>10
  <2>2. ToRead \in Seq(ClientUnit)
    BY Streams DEF FishInv
  <2>3. /\ Len(ToRead) \in Nat /\ Len(Tail(ToRead)) = Len(ToRead) - 1
        /\ \A j \in 1 .. Len(Tail(ToRead)) : Tail(ToRead)[j] = ToRead[j + 1]
    BY <1>2, <2>2, TailOfUnits
  <2>4. i \in 1 .. Len(Tail(ToRead))
    <3> DEFINE m == Len(ToRead)
               n == Len(Tail(ToRead))
    <3>1. n = m - 1 /\ m \in {srv.left, srv.left + 1} /\ m \in Nat
      BY <1>4, <2>3
    <3> HIDE DEF m, n
    <3>2. i \in 1 .. n
      BY <1>3, <2>1, <3>1
    <3> QED
      BY <3>2 DEF n
  <2>5. ToRead'[i] = ToRead[i + 1]
    BY <1>2, <2>3, <2>4
  <2>6. ToRead[i + 1].d = asked[k + (i + 1)]
    BY <1>9, <2>1
  <2> QED
    BY <2>1, <2>5, <2>6
<1>12. Written'
  <2> SUFFICES ASSUME srv'.error = FALSE
               PROVE  /\ srv'.left <= a /\ fs'[job.p] = SubSeq(asked, 1, a - srv'.left)
                      /\ srv'.left > 0 => srv'.pos = a - srv'.left
    BY <1>1, <1>7 DEF Written, Upto
  <2>1. /\ srv.error = FALSE /\ srv' = [srv EXCEPT !.left = @ - 1, !.pos = @ + 1]
        /\ fs' = [fs EXCEPT ![Current.p] =
                    Padded(@, srv.pos) \o <<Head(ToRead).d>> \o SubSeq(@, srv.pos + 2, Len(@))]
    BY <1>3 DEF TakesData, ServerSet
  <2>2. srv.left <= a /\ fs[job.p] = SubSeq(asked, 1, k) /\ srv.pos = k
    BY <1>1, <1>2, <1>7, <2>1 DEF Written, Upto
  <2>3. srv'.pos = k + 1 /\ k \in Nat /\ k < Len(asked) /\ a - srv'.left = k + 1 /\ srv'.left <= a
    <3>1. srv'.pos = srv.pos + 1
      BY <1>3, <2>1 DEF ServerSet
    <3> DEFINE m == Len(asked)
    <3>2. m \in Nat /\ a <= m
      BY <1>8, LenProperties
    <3> HIDE DEF m
    <3>3. k \in Nat /\ k < m /\ a - srv'.left = k + 1 /\ srv'.left <= a
      BY <1>2, <1>3, <1>7, <1>8, <1>10, <2>2, <3>2
    <3> QED
      BY <2>2, <3>1, <3>3 DEF m
  <2>4. Head(ToRead).d = asked[k + 1]
    <3>1. Head(ToRead) = ToRead[1] /\ 1 \in 1 .. srv.left
      BY <1>2, <1>3, Streams, TailOfUnits DEF FishInv
    <3> QED
      BY <1>9, <3>1
  <2>5. Current.p = job.p /\ job.p \in Path /\ fs \in [Path -> Value]
    BY <1>2, PutPath DEF FishInv, FishTypeInv
  <2>6. PICK f, d : f = fs[job.p] /\ d = Head(ToRead).d
    OBVIOUS
  <2>7. fs'[job.p] = Padded(f, k) \o <<d>> \o SubSeq(f, k + 2, Len(f))
    BY <2>1, <2>2, <2>5, <2>6
  <2>8. Padded(f, k) \o <<d>> \o SubSeq(f, k + 2, Len(f)) = SubSeq(asked, 1, k + 1)
    BY <1>8, <2>2, <2>3, <2>4, <2>6, WrittenNext
  <2>9. fs'[job.p] = SubSeq(asked, 1, a - srv'.left)
    BY <2>3, <2>7, <2>8
  <2> QED
    BY <2>3, <2>9
<1> QED
  BY <1>6, <1>11, <1>12

-----------------------------------------------------------------------------
LEMMA EndsWritePut ==
  ASSUME FishInv, PlanInv, PutInv, Working, EndsWrite, UNCHANGED <<clientVars, appVars>>, alive = TRUE
  PROVE  PutInv'
<1> SUFFICES ASSUME job.op = "put" PROVE Due' /\ Written' /\ OnTheWay' /\ Stored'
  BY ServerPutParts
<1>1. /\ Taken' = Taken /\ (\A n : Upto(n)' = Upto(n)) /\ Current' = Current /\ UNCHANGED <<cl, job, asked, toPut>>
      /\ Split /\ Due /\ Written /\ Stored
  BY ServerPutSame
<1>2. /\ srv.mode = "data" /\ srv.left = 0 /\ Current.name \in Writing /\ Asked' = FALSE /\ fs' = fs /\ srv' = Idle
      /\ ToCome' = ToCome \o Printed(Current.id, <<Status(IF srv.error THEN 500 ELSE 200)>>)
  BY DEF EndsWrite
<1>3. Due' /\ Written' /\ OnTheWay'
  BY <1>1, <1>2, IdleFacts DEF Due, Written, OnTheWay, Writing
<1>4. PICK n \in {200, 500} : n = IF srv.error THEN 500 ELSE 200
  OBVIOUS
<1> DEFINE p == Printed(Current.id, <<Status(n)>>)
           m == Len(ToCome)
<1>5. p \in Seq(ServerUnit) /\ Len(p) = 1 /\ p[1] = Unit("status", n, Current.id)
  <2>1. Current.id \in Nat
    BY ConnectionFields DEF FishInv, FishTypeInv, Current, RequestSet
  <2>2. GoodReply(<<Status(n)>>)
    BY KnownReplies
  <2> QED
    BY <2>1, <2>2, PrintedFacts, OneStatusComes
<1>6. ToCome \in Seq(ServerUnit) /\ ToCome' = ToCome \o p /\ m \in Nat
  BY <1>2, <1>4, Streams, LenProperties DEF FishInv
<1> HIDE DEF p, m
<1>7. Len(ToCome') = m + 1 /\ \A i \in 1 .. m + 1 : ToCome'[i] = IF i <= m THEN ToCome[i] ELSE p[i - m]
  <2>1. /\ Len(ToCome \o p) = Len(ToCome) + Len(p)
        /\ \A i \in 1 .. Len(ToCome) + Len(p) : (ToCome \o p)[i] = IF i <= Len(ToCome) THEN ToCome[i] ELSE p[i - Len(ToCome)]
    <3>1. p \in Seq(ServerUnit) /\ ToCome \in Seq(ServerUnit)
      BY <1>5, <1>6
    <3> QED
      BY <3>1, ConcatProperties
  <2>2. m = Len(ToCome)
    BY DEF m
  <2> QED
    BY <1>5, <1>6, <2>1, <2>2
<1>8. Stored'
  <2> SUFFICES ASSUME NEW i \in 1 .. Len(ToCome'), IsFinal(ToCome[i])', ToCome'[i].v \div 100 = 2
               PROVE  fs[job.p] = Upto(Taken)
    BY <1>1, <1>2 DEF Stored, IsFinal
  <2>1. CASE i <= m
    <3>1. ToCome'[i] = ToCome[i] /\ i \in 1 .. Len(ToCome)
      BY <1>6, <1>7, <2>1 DEF m
    <3>2. IsFinal(ToCome[i]) /\ ToCome[i].v \div 100 = 2
      BY <3>1 DEF IsFinal
    <3> QED
      BY <1>1, <1>2, <3>1, <3>2 DEF Stored
  <2>2. CASE ~(i <= m)
    <3>1. i = m + 1 /\ i - m = 1
      BY <1>6, <1>7, <2>2
    <3>2. ToCome'[i].v = n
      BY <1>5, <1>7, <2>2, <3>1 DEF Unit
    <3>3. n # 500
      BY <3>2, Refusals
    <3>4. srv.error = FALSE
      BY <1>4, <3>3 DEF FishInv, FishTypeInv, ServerSet
    <3>5. fs[job.p] = Upto(Taken - 0)
      BY <1>1, <1>2, <3>4 DEF Written
    <3>6. Taken \in Nat
      BY <1>1, Sizes
    <3>7. Taken - 0 = Taken
      BY <3>6
    <3> QED
      BY <3>5, <3>7
  <2> QED
    BY <2>1, <2>2
<1> QED
  BY <1>3, <1>8

LEMMA ServerKeepsPut ==
  ASSUME FishInv, PlanInv, PutInv, ServerKinds, alive = TRUE, UNCHANGED <<clientVars, appVars>>
  PROVE  PutInv'
<1>1. CASE Stays
  <2>1. UNCHANGED <<cl, job, asked, toPut, fs, srv>> /\ Current' = Current /\ Working' = Working
    BY <1>1 DEF Stays, clientVars, appVars, Current, Working
  <2> QED
    BY <1>1, <2>1, SamePut DEF Stays
<1>2. CASE LogsIn
  BY <1>2, NotWritingPut DEF LogsIn, Writing
<1> QED
  BY <1>1, <1>2, ExecutesPut, OpensPut, RepliesPut, TakesDataPut, EndsWritePut DEF ServerKinds

LEMMA BreakKeepsPut ==
  ASSUME FishInv, PutInv, ConnectionBreaks
  PROVE  PutInv'
<1>1. UNCHANGED <<clientVars, appVars>> /\ UNCHANGED <<fs, srv>> /\ alive' = FALSE
  BY DEF ConnectionBreaks
<1> SUFFICES ASSUME Working, job.op = "put" PROVE Due' /\ Written' /\ OnTheWay' /\ Stored'
  BY <1>1, ServerPutParts
<1>2. /\ Taken' = Taken /\ (\A n : Upto(n)' = Upto(n)) /\ Current' = Current /\ UNCHANGED <<cl, job, asked, toPut>>
      /\ Due /\ Stored
  BY <1>1, ServerPutSame
<1>3. Due' /\ Written' /\ OnTheWay'
  BY <1>1, <1>2, BreakAsked DEF Due, Written, OnTheWay
<1>4. Stored'
  BY <1>1, <1>2, BreakCuts DEF Stored, IsFinal
<1> QED
  BY <1>3, <1>4

-----------------------------------------------------------------------------
(* What has passed is what was asked for.                                  *)
PassInv ==
  Passing => /\ job.op = "get" => delivered = fs[job.p]
             /\ job.op = "put" => fs[job.p] = asked

(* The last status of RETR finds the file passed on.                       *)
LEMMA GetEnds ==
  ASSUME FishInv, PlanInv, DataInv, ReadInv, Working, Current.name = "RETR", job.op = "get",
         ToCome = <<Head(inBuf)>>, Welcome(Head(inBuf)), cl.rawRead = 0
  PROVE  delivered = fs[job.p]
<1>1. IsFinal(ToCome[1]) /\ ToCome[1].v \div 100 = 2 /\ Len(ToCome) = 1 /\ ToCome # << >>
  BY DEF Welcome
<1>2. Arriving
  BY <1>1 DEF ReadInv, Reading, Rejection
<1>3. PICK x \in Seq(Portion), o \in 0 .. 2 : \E r \in 0 .. Len(x) : Sends(x, o, r) /\ Arrived(x, o, r)
  BY <1>2 DEF Arriving
<1>4. PICK r \in 0 .. Len(x) : Sends(x, o, r) /\ Arrived(x, o, r)
  BY <1>3
<1>5. Len(x) \in Nat /\ r \in Nat /\ 1 \in 1 .. Len(ToCome)
  BY <1>1, <1>3, LenProperties
<1>6. o = 0
  <2>1. o # 2
    BY <1>1, <1>4 DEF Sends, IsFinal
  <2>2. o # 1
    BY <1>1, <1>4 DEF Sends, IsFinal, IsGo
  <2> QED
    BY <2>1, <2>2
<1>7. r = 0
  <2>1. ASSUME 1 <= r PROVE FALSE
    <3>1. ToCome[1].k = "data"
      BY <1>4, <1>5, <1>6, <2>1 DEF Sends
    <3> QED
      BY <1>1, <3>1 DEF IsFinal
  <2> QED
    BY <1>5, <2>1
<1>8. x = fs[Current.p]
  <2>1. Ending(ToCome[1], x)
    BY <1>4, <1>5, <1>6, <1>7 DEF Sends
  <2> QED
    BY <1>1, <2>1 DEF Ending
<1>9. PassedOn(x, r)
  BY <1>4, <1>6 DEF Arrived
<1>10. held = << >> /\ delivered \o held = SubSeq(x, 1, Len(x) - r)
  BY <1>7, <1>9 DEF PassedOn
<1>11. Len(x) - r = Len(x)
  <2> DEFINE n == Len(x)
  <2>1. n \in Nat
    BY <1>5
  <2> HIDE DEF n
  <2>2. n - r = n
    BY <1>7, <2>1
  <2> QED
    BY <2>2 DEF n
<1>12. delivered = x
  BY <1>10, <1>11, SubSeqFull, ConcatEmptySeq DEF DataInv
<1>13. Current.p = job.p
  BY DEF PlanInv, Fits
<1> QED
  BY <1>8, <1>12, <1>13

LEMMA NextCommandPasses ==
  ASSUME FishInv, PlanInv, DataInv, ReadInv, PutInv, NextCommand
  PROVE  PassInv'
<1>1. /\ Working /\ Proceeds(cl.commandList) /\ pc' = "parse" /\ UNCHANGED <<job, fs, asked, delivered>>
      /\ ToCome = <<Head(inBuf)>> /\ Welcome(Head(inBuf)) /\ cl.rawRead = 0 /\ Current.name \notin Writing
  BY DEF NextCommand, Proceeds, Working, appVars, serverVars
<1>2. CASE cl.commandList # << >>
  BY <1>1, <1>2 DEF Proceeds, PassInv, Passing
<1>3. CASE cl.commandList = << >>
  <2>1. job.op = "get" => Current.name = "RETR"
    BY <1>1, <1>3 DEF PlanInv, Ordered, EndsWith
  <2>2. job.op = "get" => delivered = fs[job.p]
    BY <1>1, <2>1, GetEnds
  <2>3. job.op = "put" => Current.name = "CHMOD"
    BY <1>1, <1>3 DEF PlanInv, Ordered, EndsWith, Fits, Prelude
  <2>4. job.op = "put" => fs[job.p] = asked
    BY <1>1, <2>3 DEF PutInv, Due
  <2> QED
    BY <1>1, <2>2, <2>4 DEF PassInv
<1> QED
  BY <1>2, <1>3

LEMMA StoresPasses ==
  ASSUME FishInv, PlanInv, PutInv, Stores
  PROVE  PassInv'
<1>1. PICK n \in 0 .. Len(toPut), l \in Seq(RequestSet) : StoresWith(n, l)
  BY DEF Stores
<1>2. /\ Working /\ Proceeds(l) /\ pc' = "parse" /\ UNCHANGED <<job, fs, asked, delivered>>
      /\ ToCome = <<Head(inBuf)>> /\ Welcome(Head(inBuf)) /\ Current.name \in Writing
  BY <1>1 DEF Stores, StoresWith, Proceeds, Working, appVars, serverVars
<1>3. CASE l # << >>
  BY <1>2, <1>3 DEF Proceeds, PassInv, Passing
<1>4. CASE l = << >>
  <2>1. job.op # "get"
    BY <1>2 DEF PlanInv, Fits, Writing
  <2>2. ASSUME job.op = "put" PROVE fs[job.p] = asked
    <3>1. n = 0
      BY <1>1, <1>4, LenProperties DEF StoresWith, FishInv, FishTypeInv
    <3>2. toPut = << >> /\ Split
      BY <1>1, <1>2, <2>2, <3>1 DEF StoresWith, PutInv
    <3>3. fs[job.p] = Upto(Taken)
      BY <1>2, <2>2, StoredWell
    <3>4. Taken = Len(asked) /\ asked \in Seq(Portion)
      <4>1. Len(toPut) = 0
        BY <3>2, Empties
      <4> QED
        BY <3>2, <4>1, LenProperties DEF Split, Taken
    <3> QED
      BY <3>3, <3>4, SubSeqFull DEF Upto
  <2> QED
    BY <1>2, <2>1, <2>2 DEF PassInv
<1> QED
  BY <1>3, <1>4

LEMMA ClientKeepsPass ==
  ASSUME FishInv, PlanInv, DataInv, ReadInv, PutInv, PassInv, ClientKinds
  PROVE  PassInv'
<1>1. CASE Begins \/ Drops
  BY <1>1 DEF Begins, Drops, PassInv, Passing
<1>2. CASE Returns \/ Turns
  <2>1. UNCHANGED <<job, fs, asked, delivered>> /\ (Passing' => Passing)
    BY <1>2 DEF Returns, Turns, Passing, jobVars, serverVars, appVars
  <2> QED
    BY <2>1 DEF PassInv
<1>3. CASE Writes /\ cl.isRunning = TRUE
  BY <1>3 DEF Writes, WriterEffect, WriterKeeps, PassInv, Passing
<1>4. CASE Takes
  <2>1. cl'.isRunning = TRUE /\ pc' = "parse"
    BY <1>4, HandlingFacts DEF Takes, Handling
  <2> QED
    BY <2>1 DEF PassInv, Passing
<1>5. CASE NextCommand
  BY <1>5, NextCommandPasses
<1>6. CASE Stores
  BY <1>6, StoresPasses
<1> QED
  BY <1>1, <1>2, <1>3, <1>4, <1>5, <1>6 DEF ClientKinds

LEMMA ElsePasses ==
  ASSUME PassInv, UNCHANGED <<clientVars, appVars>>, fs' = fs \/ Working
  PROVE  PassInv'
<1>1. UNCHANGED <<cl, pc, result, job, delivered, asked>>
  BY DEF clientVars, appVars
<1>2. Passing' = Passing /\ (Working => ~Passing)
  BY <1>1 DEF Passing, Working
<1> QED
  BY <1>1, <1>2 DEF PassInv

-----------------------------------------------------------------------------
CopyInv == RoomInv /\ DataInv /\ OpenInv /\ ReadInv /\ PutInv /\ PassInv

LEMMA CopyInit == ASSUME Init PROVE CopyInv
<1>1. /\ pc = "idle" /\ job.op = "none" /\ delivered = << >> /\ held = << >> /\ mimeTypeSent = FALSE
  BY DEF Init, ClientInit, NoJob
<1>2. RoomInv
  BY RoomInit
<1> QED
  BY <1>1, <1>2, Empties DEF CopyInv, DataInv, OpenInv, ReadInv, PutInv, PassInv, Working

LEMMA StartJobCopies ==
  ASSUME FishInv, CopyInv, StartJob
  PROVE  (OpenInv /\ ReadInv /\ PutInv /\ PassInv)'
<1>1. pc' = "open"
  BY DEF StartJob, Ask
<1> QED
  BY <1>1, StartJobOpens DEF ReadInv, PutInv, PassInv, Working, Passing

LEMMA ClientCopies ==
  ASSUME FishInv, DoneInv, CopyInv, ClientKinds
  PROVE  (OpenInv /\ ReadInv /\ PutInv /\ PassInv)'
BY ClientKeepsOpen, ClientKeepsRead, ClientKeepsPut, ClientKeepsPass DEF DoneInv, CopyInv

LEMMA ServerCopies ==
  ASSUME FishInv, StaleInv, DoneInv, CopyInv, ServerNext, UNCHANGED <<clientVars, appVars>>
  PROVE  (OpenInv /\ ReadInv /\ PutInv /\ PassInv)'
<1>1. ServerKinds /\ alive = TRUE
  BY ServerSplit, ServerAlive DEF DoneInv
<1>2. OpenInv'
  BY OpenStays DEF CopyInv, clientVars, appVars
<1>3. fs' = fs \/ Working
  BY <1>1 DEF ServerKinds, Stays
<1> QED
  BY <1>1, <1>2, <1>3, ServerKeepsRead, ServerKeepsPut, ElsePasses DEF DoneInv, CopyInv

LEMMA BreakCopies ==
  ASSUME FishInv, CopyInv, ConnectionBreaks
  PROVE  (OpenInv /\ ReadInv /\ PutInv /\ PassInv)'
<1>1. UNCHANGED <<clientVars, appVars>> /\ fs' = fs
  BY DEF ConnectionBreaks
<1>2. OpenInv'
  BY <1>1, OpenStays DEF CopyInv, clientVars, appVars
<1> QED
  BY <1>1, <1>2, BreakKeepsRead, BreakKeepsPut, ElsePasses DEF CopyInv

LEMMA SameCopies ==
  ASSUME CopyInv, UNCHANGED vars
  PROVE  (OpenInv /\ ReadInv /\ PutInv /\ PassInv)'
<1>1. UNCHANGED <<wireVars, serverVars, clientVars, appVars>>
  BY DEF vars
<1>2. /\ Current' = Current /\ ToCome' = ToCome /\ ToRead' = ToRead /\ Working' = Working
      /\ UNCHANGED <<alive, fs, srv, cl, job, pc, toPut, asked, held, mimeTypeSent, delivered>>
  BY <1>1 DEF wireVars, serverVars, clientVars, appVars, Current, ToCome, ToRead, Working
<1>3. Asked' => Asked
  BY <1>2 DEF Asked
<1>4. OpenInv'
  BY <1>2, OpenStays DEF CopyInv
<1>5. ReadInv'
  BY <1>2, <1>3, SameRead DEF CopyInv
<1>6. PutInv'
  BY <1>2, <1>3, SamePut DEF CopyInv
<1>7. PassInv'
  BY <1>1, <1>2, ElsePasses DEF CopyInv
<1> QED
  BY <1>4, <1>5, <1>6, <1>7

LEMMA CopyStep ==
  ASSUME FishInv, StaleInv, DoneInv, CopyInv, [Next]_vars
  PROVE  CopyInv'
<1>1. RoomInv' /\ DataInv'
  BY RoomStep, DataStep DEF CopyInv
<1>2. ASSUME Connect \/ (ClientRun /\ UNCHANGED <<serverVars, appVars>>) PROVE ClientKinds
  <2>1. ASSUME Connect PROVE ClientKinds
    BY <2>1, ConnectBegins DEF ClientKinds
  <2>2. ASSUME ClientRun, UNCHANGED <<serverVars, appVars>> PROVE ClientKinds
    BY <2>2, ClientSplit DEF Elsewhere, DoneInv, PlanInv
  <2> QED
    BY <1>2, <2>1, <2>2
<1>3. (OpenInv /\ ReadInv /\ PutInv /\ PassInv)'
  BY <1>2, StartJobCopies, ClientCopies, ServerCopies, BreakCopies, SameCopies DEF Next, ClientSteps, ServerSteps, AllDone
<1> QED
  BY <1>1, <1>3 DEF CopyInv

LEMMA StepsTyped == ASSUME FishInv, CopyInv PROVE TypeOK
<1>1. cl \in ConnectionSet /\ srv \in ServerSet
  BY DEF FishInv, FishTypeInv
<1>2. /\ cl.rawRead \in Nat /\ cl.rawWrite \in Nat \cup {-1} /\ cl.sendLen \in Nat \cup {-1} /\ cl.isRunning \in BOOLEAN
      /\ srv.mode \in {"login", "code", "main", "alt", "data"} /\ srv.left \in Nat
  BY <1>1, ConnectionFields DEF ServerSet
<1>3. cl.rawWrite > 0 => cl.rawWrite = Len(cl.rawData)
  <2>1. cl.rawWrite > 0 => cl.rawWrite = cl.sendLen
    BY DEF FishInv, BufferInv
  <2>2. cl.sendLen > 0 => Len(cl.rawData) = cl.sendLen
    BY DEF FishInv, CurrentInv
  <2> QED
    BY <2>1, <2>2
<1>4. pc = "idle" => ~cl.isRunning
  BY DEF FishInv, RunInv
<1>5. fs \in [Path -> Value] /\ pc \in {"idle", "open", "select", "parse"}
  BY DEF FishInv, FishTypeInv
<1>6. Len(toServer) <= Room /\ Len(toClient) <= Room /\ delivered \in Seq(0 .. 9)
  BY DEF CopyInv, RoomInv, DataInv, Portion
<1> QED
  BY <1>2, <1>3, <1>4, <1>5, <1>6 DEF TypeOK

LEMMA StepsCopy == ASSUME CopyInv PROVE TransferExact
<1>1. pc = "idle" /\ result = "pass" => Passing
  BY DEF Passing
<1> QED
  BY <1>1 DEF CopyInv, PassInv, TransferExact

-----------------------------------------------------------------------------
(* The theorems *)

OperationInv == FishInv /\ StaleInv /\ WaitInv /\ DoneInv /\ CopyInv /\ "perl" \in Servers

LEMMA OperationInvariant == Spec /\ server = "perl" => []OperationInv
<1>1. Init /\ server = "perl" => OperationInv
  BY FishInit, DoneInit, CopyInit DEF Init, ServerInit, OperationInv
<1>2. OperationInv /\ [Next]_vars => OperationInv'
  BY FishStep, DoneStep, CopyStep DEF OperationInv
<1> QED
  BY <1>1, <1>2, PTL DEF Spec

(* Names and files keep their types; an operation passes only if fish.pl   *)
(* carried out every command of it, but for the LIST that looks whether    *)
(* the destination exists; and put, rename, symlink and copy leave an      *)
(* existing destination alone unless they were asked to overwrite it:      *)
(* manageConnection() sends the command that writes only once LIST has     *)
(* found nothing, or a directory, which none of them turns into a file.    *)
THEOREM FishDoneAsAsked == Spec /\ server = "perl" => []DoneAsAsked
<1>1. OperationInv => DoneAsAsked
  BY StepsDone, StepsTyped DEF DoneAsAsked, OperationInv
<1> QED
  BY <1>1, OperationInvariant, PTL

(* A get that passes has delivered the file and a put that passes has      *)
(* stored what the application sent, byte for byte, wherever read() and    *)
(* write() cut the streams, through mimeBuffer, the size announced in      *)
(* recvLen and the STOR and WRITE commands a put is split into.            *)
THEOREM FishTransferExact == Spec /\ server = "perl" => []TransferExact
<1>1. OperationInv => TransferExact
  BY StepsCopy DEF OperationInv
<1> QED
  BY <1>1, OperationInvariant, PTL
=============================================================================
