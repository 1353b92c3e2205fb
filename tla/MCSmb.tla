------------------------------- MODULE MCSmb -------------------------------
(* Instances of the SMB worker and its notifier for TLC.  What the modules *)
(* model shares no state: a behaviour is of one of them, while the others  *)
(* keep one of their initial states.                                       *)
EXTENDS SmbCopy, SmbNamespace, SmbBrowse, SmbFileJobs, SmbNotify

VARIABLE part_
otherVars == <<namesVars, browseVars, fileJobVars, notifyVars, watchVars>>
allVars == <<part_, vars, otherVars>>

MCFolded     == [n \in EntryName |-> IF n = "README" THEN "readme" ELSE n]
MCComputerOf == [e \in Endpoint |-> IF e = "e" THEN "a" ELSE "c"]
MCEntries    == [p \in Share \cup {"/", ""} |-> CASE p = "" -> {"a", "b"} [] p = "/" -> {"s"} [] OTHER -> {"a", "b"}]
MCAccepts    == [s \in Share |-> {"u"}]

MCInit ==
  /\ Init /\ NamesInit /\ BrowseInit /\ FileJobInit /\ NotifyInit
  /\ part_ \in {"copy", "names", "browse", "jobs", "notifier", "watcher"}
  /\ part_ # "copy" => side = "local" /\ dst = NoFile /\ part = NoFile
  /\ part_ # "names" => (\A k \in Keys : tree[k] = NoEntry) /\ renameSrc = "other"
  /\ part_ # "jobs" => length = 1 /\ dirs = {}
  /\ part_ # "notifier" => content = {}

MCNext ==
  \/ part_ = "copy" /\ Next /\ UNCHANGED <<part_, otherVars>>
  \/ part_ = "names" /\ NamesNext /\ UNCHANGED <<part_, vars, browseVars, fileJobVars, notifyVars, watchVars>>
  \/ part_ = "browse" /\ BrowseNext /\ UNCHANGED <<part_, vars, namesVars, fileJobVars, notifyVars, watchVars>>
  \/ part_ = "jobs" /\ FileJobNext /\ UNCHANGED <<part_, vars, namesVars, browseVars, notifyVars, watchVars>>
  \/ part_ = "notifier" /\ NotifierNext /\ UNCHANGED <<part_, vars, namesVars, browseVars, fileJobVars>>
  \/ part_ = "watcher" /\ WatcherNext /\ UNCHANGED <<part_, vars, namesVars, browseVars, fileJobVars>>

(* The fairness of SmbBrowse, for the behaviours that are of it.           *)
MCSpec ==
  /\ MCInit /\ [][MCNext]_allVars
  /\ WF_browseVars(part_ = "browse" /\ Work) /\ WF_browseVars(part_ = "browse" /\ WsdStop)
=============================================================================
