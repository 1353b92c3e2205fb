------------------------------ MODULE SmbBrowse ------------------------------
(***************************************************************************)
(* Browsing with the SMB worker: stat() and listDir() of kio_smb_browse,   *)
(* the three discoverers that listDir() runs on one event loop, and the    *)
(* logins they need (smbauthenticator, kio_smb_auth).                      *)
(*                                                                         *)
(* While the loop runs, a step is the handling of one event.  Names equal  *)
(* here are names equal without regard to case.  A URL is a record; host   *)
(* and path say what stands where, with `form' the text after the scheme.  *)
(***************************************************************************)
EXTENDS Naturals, FiniteSets, Sequences, SequencesExt

CONSTANTS Name,        \* names that can be shown
          Service,     \* DNS-SD services, each named by its name
          Endpoint, ComputerOf, \* WS-Discovery endpoints, and their computers
          Share, Entries,       \* shares; "/" or share -> names found in it
          Login, Accepts,       \* logins; share -> those it lets in
          DefaultLogin,         \* of the settings, or Nothing
          Nothing,
          BrowseEvents,         \* subset of {"resolvedTwice", "readFails"}
          MaxBrowse, MaxDialogs

VARIABLES browse, \* the command under way: its URL, the dialogs it has shown, whether the
                  \* login typed last is to be kept, the error it asks for a login on
          list, listed,    \* names to be sent; names sent, in order
          discoveredNames,
          smbc, dnssd, wsd, \* the discoverers
          smbLogins, \* share -> login in the password server, or Nothing
          found,  \* names a discoverer knows of in this listing
          browses \* commands started, for the bound

loopVars == <<list, listed, discoveredNames, smbc, dnssd, wsd, found>>
browseVars == <<browse, loopVars, smbLogins, browses>>

ASSUME BrowseAssumption ==
  /\ Service \subseteq Name /\ ComputerOf \in [Endpoint -> Name] /\ Nothing \notin Login \cup Share /\ Share \cap {"", "/"} = {}
  /\ Entries \in [Share \cup {"/", ""} -> SUBSET Name] /\ Accepts \in [Share -> SUBSET (Login \cup {Nothing})]

----------------------------------------------------------------------------
(* URLs                                                                    *)

Url == [scheme : {"smb", "cifs"}, form : {"//", "/", "@"}, host : {"", "srv", "wsd", "local"},
        user : Login \cup {Nothing}, path : {"", "/"} \cup Share, printer : BOOLEAN]
Root == [scheme |-> "smb", form |-> "//", host |-> "", user |-> Nothing, path |-> "", printer |-> FALSE]

(* getType(): what is left of a URL without host is no share either.       *)
GetType(url) ==
  IF url.scheme # "smb" THEN "unknown"
  ELSE IF url.printer THEN "printer"
  ELSE IF url.path \in {"", "/"} THEN IF url.host = "" THEN "network" ELSE "server"
  ELSE "share"

(* The host of a WS-Discovery name, if DNS-SD knows it or else plain.      *)
PlainHost(url, resolved) == IF url.form = "//" /\ url.host = "wsd" THEN IF resolved THEN "local" ELSE "srv" ELSE url.host

(* checkURL(): the URL the client should have used.                        *)
CheckURL(url, resolved) ==
  LET smb == [url EXCEPT !.scheme = "smb", !.host = PlainHost(url, resolved)]
  IN  IF smb.form = "/" THEN IF smb.host = "" THEN Root ELSE [smb EXCEPT !.form = "//"]
      ELSE IF smb = Root THEN smb
      ELSE IF smb.form = "@" THEN [smb EXCEPT !.form = "//", !.host = "", !.path = IF smb.path \in Share THEN smb.path ELSE "/"]
      ELSE IF smb.path = "" THEN [smb EXCEPT !.path = "/"]
      ELSE smb

----------------------------------------------------------------------------
(* Commands                                                                *)

NoBrowse == [pc |-> "idle", op |-> "none", url |-> Root, dialogs |-> 0, kept |-> FALSE,
             refusal |-> "none", result |-> "none"]
BrowseAt(pc) == browse.pc = pc
BrowseGoto(pc) == browse' = [browse EXCEPT !.pc = pc]
BrowseResult(r) == browse' = [NoBrowse EXCEPT !.result = r]

NoSmbc == [state |-> "none", left |-> {}, error |-> "none", root |-> TRUE]
NoDnssd == [services |-> {}, resolved |-> {}, count |-> 0, disconnected |-> FALSE]
NoWsd == [state |-> "none", probing |-> FALSE, resolving |-> {}, seen |-> {}, pbsd |-> {}]

BrowseInit ==
  /\ browse = NoBrowse /\ browses = 0
  /\ list = {} /\ listed = <<>> /\ discoveredNames = {} /\ found = {}
  /\ smbc = NoSmbc /\ dnssd = NoDnssd /\ wsd = NoWsd
  /\ smbLogins = [s \in Share |-> Nothing]

StartBrowse(op, url) ==
  /\ BrowseAt("idle") /\ browses < MaxBrowse /\ browses' = browses + 1
  /\ browse' = [NoBrowse EXCEPT !.pc = "check", !.op = op, !.url = url]
  /\ UNCHANGED <<loopVars, smbLogins>>

(* The client is redirected, and asks again, until the URL is right.       *)
CheckRequest ==
  /\ BrowseAt("check")
  /\ \E resolved \in BOOLEAN :
       LET url == CheckURL(browse.url, resolved)
       IN  IF url # browse.url THEN browse' = [browse EXCEPT !.url = url] ELSE BrowseGoto(browse.op)
  /\ UNCHANGED <<loopVars, smbLogins, browses>>

(* auth(), libsmbclient's callback: a saved login, unless the URL names    *)
(* another user; the login of the settings; or none.                       *)
Credentials(url, share) ==
  IF smbLogins[share] # Nothing /\ url.user \in {Nothing, smbLogins[share]} THEN smbLogins[share] ELSE DefaultLogin
LetsIn(url) == url.path \in Share => Credentials(url, url.path) \in Accepts[url.path]

(* How a request can fail: the login is refused; "unclear" is an error     *)
(* that stat() or listDir() takes for a refused login though it may be     *)
(* none (EEXIST with the workaround, EINVAL when a directory is opened).   *)
Errors(url) == {"unclear", "other"} \cup IF LetsIn(url) THEN {} ELSE {"access"}
Failed(error) ==
  IF error = "other" THEN BrowseResult("fail") ELSE browse' = [browse EXCEPT !.pc = "password", !.refusal = error]

StatPath ==
  /\ BrowseAt("stat")
  /\ CASE GetType(browse.url) \in {"unknown", "printer"} -> BrowseResult("fail")
       [] GetType(browse.url) \in {"network", "server"} -> BrowseResult("pass")
       [] OTHER -> \/ LetsIn(browse.url) /\ BrowseResult("pass")
                   \/ \E error \in Errors(browse.url) : Failed(error)
  /\ UNCHANGED <<loopVars, smbLogins, browses>>

(* fileSystemFreeSpace(): a name of WS-Discovery is refused here.          *)
FileSystemFreeSpace ==
  /\ BrowseAt("space")
  /\ IF browse.url.host \in {"", "wsd"} THEN BrowseResult("fail") ELSE \E r \in {"pass", "fail"} : BrowseResult(r)
  /\ UNCHANGED <<loopVars, smbLogins, browses>>

(* cacheAuthentication() of checkPassword().                               *)
Cached(share, login) == [smbLogins EXCEPT ![share] = login]

(* checkPassword(): the client is redirected to the URL with the user      *)
(* typed.  A login to be kept is saved; of another the password server, as *)
(* it likes, remembers.  No dialog, or a cancelled one, ends the command.  *)
CheckPassword ==
  /\ BrowseAt("password")
  /\ \/ /\ browse.dialogs < MaxDialogs
        /\ \E login \in Login, keepPassword \in BOOLEAN :
             /\ browse' = [browse EXCEPT !.pc = "check", !.url.user = login, !.dialogs = @ + 1, !.kept = keepPassword]
             /\ \/ browse.url.path \in Share /\ smbLogins' = Cached(browse.url.path, login)
                \/ (browse.url.path \notin Share \/ ~keepPassword) /\ UNCHANGED smbLogins
     \/ BrowseResult("fail") /\ UNCHANGED smbLogins
  /\ UNCHANGED <<loopVars, browses>>

----------------------------------------------------------------------------
(* listDir() and its event loop                                            *)

DnssdFinished(d) == d.disconnected /\ Cardinality(d.services) = d.count
(* Mutant: a device being asked for its name is not waited for.            *)
WsdFinishedEarly(w) == ~w.probing /\ w.resolving = {}
WsdFinished(w) == ~w.probing /\ w.resolving = {} /\ w.pbsd = {}

(* maybeFinished(): the last discoverer to finish sends the list and ends  *)
(* the loop.  `emitted' says that some discoverer has just finished.       *)
MaybeFinished(emitted, s, d, w, names) ==
  LET modern == GetType(browse.url) = "network"
      all == s.state = "finished" /\ (modern => DnssdFinished(d) /\ WsdFinished(w))
  IN  IF emitted /\ all
      THEN listed' = listed \o SetToSeq(names) /\ list' = {} /\ BrowseGoto("after")
      ELSE list' = names /\ UNCHANGED <<browse, listed>>

(* Mutant: entries are not compared with those of other discoverers.       *)
AppendEach(names) == <<names, discoveredNames>>
(* appendDiscovery().                                                      *)
AppendDiscovery(names) == <<names \ discoveredNames, discoveredNames \cup names>>

(* One event: the discoverers become s, d and w; names are announced.      *)
Event(s, d, w, names, emitted) ==
  LET new == AppendDiscovery(names)
  IN  /\ BrowseAt("loop")
      /\ smbc' = s /\ dnssd' = d /\ wsd' = w /\ discoveredNames' = new[2]
      /\ MaybeFinished(emitted, s, d, w, list \cup new[1])
      /\ UNCHANGED <<smbLogins, browses>>
Known(names) == found' = found \cup names

StartListing ==
  /\ BrowseAt("list")
  /\ list' = {} /\ listed' = <<>> /\ discoveredNames' = {} /\ found' = {}
  /\ smbc' = [NoSmbc EXCEPT !.state = "queued"]
  /\ dnssd' = NoDnssd
  /\ wsd' = IF GetType(browse.url) = "network" THEN [NoWsd EXCEPT !.state = "started", !.probing = TRUE] ELSE NoWsd
  /\ BrowseGoto("loop")
  /\ UNCHANGED <<smbLogins, browses>>

(* The timer that sends what has been found so far.                        *)
FlushEntries ==
  /\ BrowseAt("loop") /\ list # {}
  /\ listed' = listed \o SetToSeq(list) /\ list' = {}
  /\ UNCHANGED <<browse, discoveredNames, smbc, dnssd, wsd, found, smbLogins, browses>>

(* init(): smbc_opendir().                                                 *)
SmbcOpen ==
  /\ smbc.state = "queued"
  /\ \/ /\ LetsIn(browse.url)
        /\ Event([smbc EXCEPT !.state = "reading", !.left = Entries[browse.url.path]], dnssd, wsd, {}, FALSE)
     \/ \E error \in Errors(browse.url) : Event([smbc EXCEPT !.state = "finished", !.error = error], dnssd, wsd, {}, TRUE)
  /\ Known({})

(* discoverNext(): one entry for each turn of the loop; one that has       *)
(* disappeared, or is of no known type, is left out.                       *)
SmbcNext ==
  /\ smbc.state = "reading"
  /\ \/ \E n \in smbc.left : Event([smbc EXCEPT !.left = @ \ {n}], dnssd, wsd, {n}, FALSE) /\ Known({n})
     \/ \E n \in smbc.left : Event([smbc EXCEPT !.left = @ \ {n}], dnssd, wsd, {}, FALSE) /\ Known({})
     \/ /\ smbc.root /\ browse.url.path \in Share
        /\ Event([smbc EXCEPT !.root = FALSE], dnssd, wsd, {}, FALSE) /\ Known({})
     \/ /\ smbc.left = {} \/ "readFails" \in BrowseEvents
        /\ Event([smbc EXCEPT !.state = "finished"], dnssd, wsd, {}, TRUE)
        /\ Known(smbc.left)

Browsing == BrowseAt("loop") /\ wsd.state = "started"

(* serviceAdded, resolved and finished of the DNS-SD browser.              *)
DnssdAdded(s) ==
  /\ Browsing /\ ~dnssd.disconnected /\ s \notin dnssd.services
  /\ Event(smbc, [dnssd EXCEPT !.services = @ \cup {s}], wsd, {}, FALSE)
  /\ Known({s})
DnssdResolved(s) ==
  LET d == [dnssd EXCEPT !.count = @ + 1, !.resolved = @ \cup {s}]
  IN  /\ Browsing /\ s \in dnssd.services
      /\ s \in dnssd.resolved => "resolvedTwice" \in BrowseEvents /\ dnssd.count < 2 * Cardinality(Service)
      /\ Event(smbc, d, wsd, {s}, DnssdFinished(d))
      /\ Known({})
DnssdStop ==
  LET d == [dnssd EXCEPT !.disconnected = TRUE]
  IN  Browsing /\ ~dnssd.disconnected /\ Event(smbc, d, wsd, {}, DnssdFinished(d)) /\ Known({})

(* resolveReceived(): an endpoint none of whose addresses resolves is      *)
(* dropped; another is asked what computer it is.                          *)
ResolveReceived(w, e, resolvable) ==
  IF e \in w.seen THEN w ELSE [w EXCEPT !.seen = @ \cup {e}, !.pbsd = IF resolvable THEN @ \cup {e} ELSE @]
NewComputer(w, e, resolvable) == IF e \notin w.seen /\ resolvable THEN {ComputerOf[e]} ELSE {}

(* matchReceived(), while the timer of the probe runs.                     *)
WsdMatch(e, addresses, resolvable) ==
  /\ Browsing /\ wsd.probing
  /\ IF addresses THEN Event(smbc, dnssd, ResolveReceived(wsd, e, resolvable), {}, FALSE) /\ Known(NewComputer(wsd, e, resolvable))
     ELSE /\ e \notin wsd.seen \cup wsd.resolving
          /\ Event(smbc, dnssd, [wsd EXCEPT !.resolving = @ \cup {e}], {}, FALSE) /\ Known({})

(* The answer to a resolver's question, or its timeout; stopped either way.*)
WsdResolveMatch(e, resolvable) ==
  LET w == [ResolveReceived(wsd, e, resolvable) EXCEPT !.resolving = @ \ {e}]
  IN  Browsing /\ e \in wsd.resolving /\ Event(smbc, dnssd, w, {}, WsdFinished(w)) /\ Known(NewComputer(wsd, e, resolvable))
WsdResolverStop(e) ==
  LET w == [wsd EXCEPT !.resolving = @ \ {e}]
  IN  Browsing /\ e \in wsd.resolving /\ Event(smbc, dnssd, w, {}, WsdFinished(w)) /\ Known({})

(* Mutant: the end of the probe is not looked at.                          *)
StopSilently(w) == FALSE
StopEmits(w) == WsdFinished(w)
WsdStop ==
  LET w == [wsd EXCEPT !.probing = FALSE]
  IN  Browsing /\ wsd.probing /\ Event(smbc, dnssd, w, {}, StopEmits(w)) /\ Known({})

(* The computer has told its name, or is shown by its address.             *)
PbsdResolved(e) ==
  LET w == [wsd EXCEPT !.pbsd = @ \ {e}]
  IN  Browsing /\ e \in wsd.pbsd /\ Event(smbc, dnssd, w, {ComputerOf[e]}, WsdFinished(w)) /\ Known({})

(* After the loop: an error counts unless services were looked for; the    *)
(* directory itself is listed last, whether or not it can be looked at.    *)
AfterListing ==
  /\ BrowseAt("after")
  /\ IF GetType(browse.url) # "network" /\ smbc.error # "none"
     THEN Failed(smbc.error)
     ELSE BrowseResult("pass")
  /\ smbc' = NoSmbc /\ dnssd' = NoDnssd /\ wsd' = NoWsd /\ discoveredNames' = {}
  /\ UNCHANGED <<list, listed, found, smbLogins, browses>>

Loop ==
  \/ FlushEntries \/ SmbcOpen \/ SmbcNext \/ DnssdStop \/ WsdStop
  \/ \E s \in Service : DnssdAdded(s) \/ DnssdResolved(s)
  \/ \E e \in Endpoint : WsdResolverStop(e) \/ PbsdResolved(e)
  \/ \E e \in Endpoint, a, r \in BOOLEAN : WsdMatch(e, a, r)
  \/ \E e \in Endpoint, r \in BOOLEAN : WsdResolveMatch(e, r)
Work == CheckRequest \/ StatPath \/ FileSystemFreeSpace \/ CheckPassword \/ StartListing \/ AfterListing \/ Loop
BrowseNext == Work \/ \E op \in {"stat", "list", "space"}, url \in Url : StartBrowse(op, url)

(* Every source of events makes progress: timers fire, the DNS-SD browser  *)
(* finishes and resolves, libsmbclient returns.                            *)
BrowseSpec == BrowseInit /\ [][BrowseNext]_browseVars /\ WF_browseVars(Work) /\ WF_browseVars(WsdStop)

----------------------------------------------------------------------------
(* A listing that has passed shows every name some discoverer knew of, and *)
(* shows it once: listDir() does not end before its last discoverer.       *)
EachListedOnce ==
  BrowseAt("idle") /\ browse.result = "pass" => IsInjective(listed) /\ found = ToSet(listed)

(* Who has typed a login to be kept, one that the share takes, is not      *)
(* asked again for want of a login: the redirect, the saved login and      *)
(* auth() agree on whose it is.  On an error that only may be a refused    *)
(* login the worker does ask again.                                        *)
NotAskedTwice ==
  BrowseAt("password") /\ browse.kept /\ browse.url.path \in Share /\ browse.url.user \in Accepts[browse.url.path] =>
    browse.refusal = "unclear"

(* Browsing: every name once in a listing, whichever discovery found it,   *)
(* and a login that is kept and accepted is not refused.                   *)
ListingRight == EachListedOnce /\ NotAskedTwice

(* Every command ends: redirects do not go round in circles and the loop   *)
(* of listDir() is left.                                                   *)
BrowseEnds == ~BrowseAt("idle") ~> BrowseAt("idle")
=============================================================================
