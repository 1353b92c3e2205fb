---------------------------- MODULE SftpSession ----------------------------
(***************************************************************************)
(* The session of an SFTP worker (src/sftp/kio_sftp.cpp): logging in, the  *)
(* open file, the operations on names, and what a dead connection does to  *)
(* them.  Transfers are in SftpTransfer.                                   *)
(*                                                                         *)
(* A step is one call to libssh, KIO's password server or the user.  A     *)
(* password is named after the user it belongs to, so the server takes p   *)
(* for u exactly when p = u.                                               *)
(***************************************************************************)
EXTENDS Naturals

CONSTANTS User,      \* users of the server, and of this machine
          Self,      \* who runs the worker: the default user
          Nothing,   \* no user, password, method or entry
          File,      \* names on the server
          Urls,      \* what URLs name: [user, password]
          NameOps,   \* the operations of this instance
          Offers,    \* the sets of authentication methods a server may offer
          SftpEvents,   \* subset of {"dies", "symlinkFails"}
          MaxLogins, MaxNameJobs

VARIABLES mUsername, mPassword, mConnected,
          mSession,  \* [state, user, auth]: libssh's session and whom it authenticated
          mOpenFile, \* "none", "open", or "dangling" when its session is gone
          info,      \* the AuthInfo of the login under way
          methods,   \* methods the server still offers in this login
          cached,    \* user -> password in KIO's password server
          request,   \* the command under way
          entries,   \* name -> [kind, was] or Nothing
          logins, requests \* counted, for the bounds

sessionVars == <<mUsername, mPassword, mConnected, mSession, mOpenFile, info, methods, cached, request, entries, logins, requests>>
authVars == <<info, methods, cached, mUsername, mPassword, logins>>

ASSUME SessionAssumption ==
  /\ Self \in User /\ Nothing \notin User
  /\ \A url \in Urls : {url.user, url.password} \subseteq User \cup {Nothing} /\ (url.user = Nothing => url.password = Nothing)

Method == {"publickey", "gssapi", "keyboard", "password"}
Kind == {"file", "dir", "link", "brokenLink"}
NoSession == [state |-> "none", user |-> Nothing, auth |-> FALSE]
NoInfo == [username |-> Nothing, password |-> Nothing, keep |-> FALSE, first |-> TRUE, passphrase |-> FALSE]
NoRequest == [pc |-> "idle", op |-> "none", user |-> Nothing, name |-> Nothing, dest |-> Nothing,
              overwrite |-> FALSE, isfile |-> TRUE, done |-> FALSE, result |-> "none"]

At(pc) == request.pc = pc
SessionGoto(pc) == request' = [request EXCEPT !.pc = pc]
NamesFinish(r) == request' = [NoRequest EXCEPT !.result = r]
Login(username) == IF username = Nothing THEN Self ELSE username

(* closeConnection(): mOpenFile is not looked at.                          *)
CloseConnection ==
  /\ mSession' = NoSession /\ mConnected' = FALSE
  /\ mOpenFile' = IF mOpenFile = "open" THEN "dangling" ELSE mOpenFile
KeepConnection == UNCHANGED <<mSession, mConnected, mOpenFile>>

(* reportError(): a fatal error closes the connection.                     *)
ReportError ==
  /\ NamesFinish("fail")
  /\ IF mSession.state = "dead" THEN CloseConnection ELSE KeepConnection

(* setHost(): a change of user or password closes the connection.          *)
SetHost(user, password) ==
  /\ IF user # mUsername \/ password # mPassword THEN CloseConnection ELSE KeepConnection
  /\ mUsername' = user /\ mPassword' = password

(* checkCachedAuthentication(): without a user, an entry of any will do.   *)
CheckCached(user) ==
  LET known == {u \in User : cached[u] # Nothing /\ user \in {u, Nothing}}
  IN  IF known = {} THEN {[NoInfo EXCEPT !.username = user]}
      ELSE {[NoInfo EXCEPT !.username = u, !.password = cached[u]] : u \in known}

(* A command arrives: setHost(), then sftpLogin(), which does nothing when *)
(* the worker is connected.                                                *)
StartRequest ==
  /\ At("idle") /\ mOpenFile = "none" /\ requests < MaxNameJobs
  /\ requests' = requests + 1
  /\ \E op \in NameOps, url \in Urls, name \in File, dest \in File, overwrite \in BOOLEAN, isfile \in BOOLEAN :
       /\ IF op = "rename" THEN dest # name ELSE dest = name
       /\ overwrite => op \in {"mkdir", "rename", "symlink"}
       /\ isfile = (op # "del" \/ (entries[name] # Nothing => entries[name].kind # "dir"))
       /\ SetHost(url.user, url.password)
       /\ request' = [NoRequest EXCEPT !.pc = IF mConnected' THEN "op" ELSE "connect", !.op = op, !.user = url.user,
                                       !.name = name, !.dest = dest, !.overwrite = overwrite, !.isfile = isfile]
       /\ info' \in IF mConnected' THEN {NoInfo}
                    ELSE IF url.password # Nothing THEN {[NoInfo EXCEPT !.username = url.user, !.password = url.password]}
                    ELSE CheckCached(url.user)
  /\ UNCHANGED <<methods, cached, entries, logins>>

(* openConnection() closes what a failed login has left.                   *)
LoginFails == NamesFinish("fail") /\ CloseConnection /\ info' = NoInfo /\ methods' = {} /\ UNCHANGED cached

(* sftpOpenConnection(): the user is set before the session is connected.  *)
Connected ==
  /\ logins < MaxLogins /\ logins' = logins + 1
  /\ mSession' = [state |-> "alive", user |-> Login(info.username), auth |-> FALSE]
  /\ UNCHANGED <<mConnected, mOpenFile, info, methods, cached>>

SftpOpenConnection ==
  /\ At("connect") /\ mSession = NoSession
  /\ \/ Connected /\ SessionGoto("fingerprint")
     \/ LoginFails /\ UNCHANGED logins
  /\ UNCHANGED <<mUsername, mPassword, entries, requests>>

Step == KeepConnection /\ UNCHANGED cached
SameLogin == UNCHANGED <<mUsername, mPassword, logins, entries, requests>>

(* The hash of the server's key, if libssh can tell it.                    *)
Fingerprint ==
  /\ At("fingerprint")
  /\ \/ SessionGoto("hostKey") /\ Step /\ UNCHANGED <<info, methods>>
     \/ LoginFails
  /\ SameLogin

(* A known key, one the user accepts, or neither.                          *)
CheckHostKey ==
  /\ At("hostKey")
  /\ \/ SessionGoto("none") /\ Step /\ UNCHANGED <<info, methods>>
     \/ LoginFails
  /\ SameLogin

Authenticated ==
  /\ SessionGoto("subsystem") /\ mSession' = [mSession EXCEPT !.auth = TRUE]
  /\ UNCHANGED <<mConnected, mOpenFile, methods, cached>>

(* Methods are tried in this order, each after the last.                   *)
Rank == [m \in Method |-> CASE m = "publickey" -> 1 [] m = "gssapi" -> 2 [] m = "keyboard" -> 3 [] m = "password" -> 4]
After(m) == {n \in Method : Rank[n] > Rank[m]}

(* The next method to try, of those the server offers.                     *)
TryNext(later, offered) ==
  LET left == later \cap offered
  IN  IF left = {} THEN LoginFails
      ELSE /\ \E m \in left : (\A n \in left : Rank[m] <= Rank[n]) /\ SessionGoto(m)
           /\ methods' = offered /\ Step /\ UNCHANGED info

UserauthNone ==
  /\ At("none")
  /\ \/ Authenticated /\ UNCHANGED info
     \/ LoginFails
     \/ \E offered \in Offers : TryNext(Method, offered)
  /\ SameLogin

(* auth_callback(): libssh wants the passphrase of a key; it is asked for  *)
(* again until it is right or the user gives up (mPublicKeyAuthInfo).      *)
AuthCallback ==
  /\ At("publickey") /\ ~info.passphrase
  /\ info' = [info EXCEPT !.passphrase = TRUE]
  /\ Step /\ UNCHANGED <<request, methods>> /\ SameLogin

(* After a partial success the server offers what it still requires.       *)
UserauthPublickey ==
  /\ At("publickey")
  /\ \/ Authenticated /\ UNCHANGED info
     \/ LoginFails
     \/ \E offered \in SUBSET methods : TryNext(After("publickey"), offered)
  /\ SameLogin

UserauthGssapi ==
  /\ At("gssapi")
  /\ (Authenticated /\ UNCHANGED info) \/ LoginFails \/ TryNext(After("gssapi"), methods)
  /\ SameLogin

(* authenticateKeyboardInteractive(): what the user answers last becomes   *)
(* info's password when the server is satisfied.                           *)
AuthenticateKeyboardInteractive ==
  /\ At("keyboard")
  /\ \/ Authenticated /\ info' = [info EXCEPT !.password = Login(info.username)]
     \/ LoginFails
     \/ TryNext(After("keyboard"), methods)
  /\ SameLogin

(* openPasswordDialog(): the user may give another name, which needs       *)
(* another connection.                                                     *)
AskPassword ==
  /\ At("password") /\ (~info.first \/ info.password = Nothing)
  /\ \/ LoginFails
     \/ \E user \in User, password \in User, keep \in BOOLEAN :
          /\ info' = [info EXCEPT !.username = user, !.password = password, !.keep = keep]
          /\ SessionGoto(IF user # Login(info.username) THEN "reconnect" ELSE "send")
          /\ Step /\ UNCHANGED methods
  /\ SameLogin

GivenPassword ==
  /\ At("password") /\ info.first /\ info.password # Nothing
  /\ SessionGoto("send") /\ Step /\ UNCHANGED <<info, methods>> /\ SameLogin

Reconnect ==
  /\ At("reconnect")
  /\ \/ Connected /\ SessionGoto("send")
     \/ LoginFails /\ UNCHANGED logins
  /\ UNCHANGED <<mUsername, mPassword, entries, requests>>

UserauthPassword ==
  /\ At("send")
  /\ \/ info.password = mSession.user /\ Authenticated /\ UNCHANGED info
     \/ info.password # mSession.user /\ SessionGoto("password") /\ Step /\ UNCHANGED methods
        /\ info' = [info EXCEPT !.first = FALSE, !.password = Nothing]
     \/ LoginFails
  /\ SameLogin

(* Mutant: what the user asked to keep is cached under the URL's user. *)
CacheUnderUrl == IF info.keep /\ mUsername # Nothing THEN [cached EXCEPT ![mUsername] = info.password] ELSE cached

CacheAuthentication ==
  IF info.keep /\ info.username # Nothing THEN [cached EXCEPT ![info.username] = info.password] ELSE cached

(* Mutant: nobody is told that the user has changed. *)
UserChangedUnnoticed == FALSE

(* sftpLogin(): the user of the URL was changed in the dialog.             *)
UserChanged == mUsername # Nothing /\ mUsername # info.username

(* The session is set up, and what the user asked to keep is cached.  With *)
(* another user than the URL's the application is sent to the new URL.     *)
SftpInit ==
  /\ At("subsystem")
  /\ \/ /\ mConnected' = TRUE /\ UNCHANGED <<mSession, mOpenFile>>
        /\ cached' = CacheAuthentication
        /\ mUsername' = IF mUsername = Nothing THEN Nothing ELSE info.username
        /\ IF UserChanged THEN NamesFinish("redirect") ELSE SessionGoto("op")
        /\ info' = NoInfo /\ methods' = {}
     \/ LoginFails /\ UNCHANGED mUsername
  /\ UNCHANGED <<mPassword, logins, entries, requests>>

Logging == \/ SftpOpenConnection \/ Fingerprint \/ CheckHostKey \/ AuthCallback \/ UserauthNone \/ UserauthPublickey 
           \/ UserauthGssapi \/ AuthenticateKeyboardInteractive \/ AskPassword \/ GivenPassword \/ Reconnect \/ UserauthPassword \/ SftpInit

=============================================================================
