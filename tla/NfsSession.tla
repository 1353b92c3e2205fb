---------------------------- MODULE NfsSession ----------------------------
(***************************************************************************)
(* Which server the NFS worker talks to (src/nfs/kio_nfs.cpp,              *)
(* nfsv3.cpp): KIO tells a worker the host and the user of the next        *)
(* operation with setHost(), every operation goes through                  *)
(* verifyProtocol(), and a protocol object keeps the exports and handles   *)
(* of NfsHandles.                                                          *)
(***************************************************************************)
EXTENDS Naturals

CONSTANTS
  Account,      \* host and user, as setHost() gives them
  NoProtocol    \* m_protocol is not set

ASSUME NoProtocolAssumption == NoProtocol \notin [account : Account, connected : BOOLEAN, caches : SUBSET Account]

(* What a server may be: answering NFSv3, some other version, or not.      *)
ServerState == {"v3", "other", "down"}

VARIABLES
  server,       \* the state of each account's server
  m_account,    \* m_host and m_user
  m_protocol,   \* NoProtocol, or [account, connected, caches]
  protos,       \* minproto and maxproto of kionfsrc
  outcome       \* of the last call

sessionVars == <<server, m_account, m_protocol, protos, outcome>>

NewProtocol == [account |-> m_account, connected |-> FALSE, caches |-> {}]

(* NFSProtocolV3::openConnection(): mounts the exports, whose handles join *)
(* what the object knows, and connects; either step may fail.              *)
Open(protocol) ==
  LET host == protocol.account
      mounted == [protocol EXCEPT !.caches = @ \cup {host}]
  IN  \/ /\ server[host] # "down"
         /\ m_protocol' = [mounted EXCEPT !.connected = TRUE] /\ outcome' = "pass"
      \/ /\ m_protocol' \in {[protocol EXCEPT !.connected = FALSE]} \cup
                            (IF server[host] = "down" THEN {} ELSE {[mounted EXCEPT !.connected = FALSE]})
         /\ outcome' = "ERR_CANNOT_CONNECT"

(* openConnection() without a protocol: the versions from maxproto down,   *)
(* of which only 3 has a protocol; one that is not compatible is dropped.  *)
FindVersion ==
  IF 3 \in protos.min .. protos.max /\ server[m_account] = "v3" THEN Open(NewProtocol)
  ELSE /\ m_protocol' = NoProtocol
       /\ outcome' = IF 3 \in protos.min .. protos.max /\ server[m_account] = "down"
                     THEN "ERR_CANNOT_CONNECT" ELSE "ERR_WORKER_DEFINED"

(* Mutant: a protocol object serves the next host, too.                    *)
SetHostKeepsProtocol(account) ==
  IF m_protocol = NoProtocol THEN NoProtocol
  ELSE [m_protocol EXCEPT !.account = account, !.connected = @ /\ account = m_account]

(* NFSWorker::setHost(): a new host or user has a new protocol object; for *)
(* the same ones NFSProtocol::setHost() does nothing.                      *)
ProtocolFor(account) == IF account # m_account THEN NoProtocol ELSE m_protocol

SetHost(account) ==
  /\ m_account' = account /\ m_protocol' = ProtocolFor(account) /\ outcome' = "none"
  /\ UNCHANGED <<server, protos>>

(* verifyProtocol() of a URL of this host, and the operation behind it.    *)
Operation ==
  /\ IF m_protocol = NoProtocol THEN FindVersion
     ELSE IF ~m_protocol.connected THEN Open(m_protocol)
     ELSE outcome' = "pass" /\ UNCHANGED m_protocol
  /\ UNCHANGED <<server, m_account, protos>>

(* A host name that cannot be resolved ends the operation before all that. *)
UnknownHost == outcome' = "ERR_UNKNOWN_HOST" /\ UNCHANGED <<server, m_account, m_protocol, protos>>

CloseSession ==
  /\ m_protocol' = IF m_protocol = NoProtocol THEN NoProtocol ELSE [m_protocol EXCEPT !.connected = FALSE]
  /\ outcome' = "none" /\ UNCHANGED <<server, m_account, protos>>

(* Servers come and go; nobody tells the worker.                           *)
ServerChanges ==
  /\ \E a \in Account, s \in ServerState : server' = [server EXCEPT ![a] = s]
  /\ UNCHANGED <<m_account, m_protocol, protos, outcome>>

SessionInit ==
  /\ server \in [Account -> ServerState] /\ m_account \in Account
  /\ m_protocol = NoProtocol /\ outcome = "none"
  /\ protos \in {p \in [min : 2 .. 4, max : 2 .. 4] : p.min <= p.max}

SessionNext ==
  \/ \E a \in Account : SetHost(a)
  \/ Operation \/ UnknownHost \/ CloseSession \/ ServerChanges
SessionSpec == SessionInit /\ [][SessionNext]_sessionVars

(***************************************************************************)
(* Properties                                                              *)
(***************************************************************************)
(* "if the host name changes then the protocol will always be deleted and  *)
(* recreated" (kio_nfs.cpp:903): no operation is carried out with the      *)
(* connection, the exports or the handles of another host or user.         *)
HandlesOfHost ==
  /\ m_protocol # NoProtocol => m_protocol.account = m_account /\ m_protocol.caches \subseteq {m_account}
  /\ outcome = "pass" => m_protocol # NoProtocol /\ m_protocol.connected
=============================================================================
