----------------------------- MODULE MCWorkers -----------------------------
(* Instances for TLC of the workers of portable devices (MTP, AFC), of the *)
(* file name search and of the archives.  They share no state: a behaviour *)
(* is of one of them, while the others keep one of their initial states.   *)
EXTENDS Mtp, Afc, NameSearch, SearchTerms, Archive

\* names of a storage; its workers, or names on an AFC device
CONSTANTS a, b, w1, w2
VARIABLE worker_
mtpVars == <<vars, deviceVars>>
workersVars == <<worker_, mtpVars, afcVars, searchVars, termVars, archiveVars>>

Symmetric == Permutations({a, b}) \cup Permutations({w1, w2})

(* A tree with links to a parent, to the outside, to a directory inside it *)
(* and to a special place, a hidden directory and a hidden file that is    *)
(* named alike.                                                            *)
SearchRoot == <<"/", "r">>
Child(dir, name) == dir \o <<"/", name>>
Outer == <<"/", "o">>
Dev == <<"/", "dev">>
Node(p, kind, hidden, dest, matches) ==
  [path |-> p, kind |-> kind, hidden |-> hidden, readable |-> TRUE, dest |-> dest, matches |-> matches]
MCTree ==
  {Node(Child(SearchRoot, "a"), "dir", FALSE, NoLink, FALSE),
   Node(Child(Child(SearchRoot, "a"), "up"), "link", FALSE, SearchRoot, FALSE), Node(Child(SearchRoot, "l"), "link", FALSE, Outer, TRUE),
   Node(Child(SearchRoot, "m"), "link", FALSE, Child(Outer, "s"), FALSE), Node(Child(Outer, "s"), "dir", FALSE, NoLink, FALSE),
   Node(Child(Child(Outer, "s"), "g"), "file", FALSE, NoLink, TRUE),
   Node(Child(SearchRoot, ".h"), "dir", TRUE, NoLink, FALSE), Node(Child(Child(SearchRoot, ".h"), "x"), "file", TRUE, NoLink, TRUE),
   Node(Child(SearchRoot, ".h") \o <<"x">>, "file", TRUE, NoLink, TRUE),
   Node(Child(SearchRoot, "s"), "link", FALSE, Dev, FALSE), Node(Child(Dev, "z"), "file", FALSE, NoLink, TRUE)}
MCOutput == <<"p", Nul, "q", Nul, "w">>

MCSizeOf == [x \in Member |-> CASE x = "d" -> NoEntry [] x = "l" -> 0 [] OTHER -> 3]
MCHolds(v) == IF v = 1 THEN Member ELSE {"f"}

WorkersInit ==
  /\ worker_ \in {"mtp", "devices", "afc", "search", "terms", "archive"}
  /\ ArchiveInit
  /\ disk[<<"a">>] = OnDisk("archive", 1, 0) /\ disk[<<"b", "a">>] = NoEntry
  /\ \/ disk[<<"b">>] = NoEntry
     \/ disk[<<"b">>] = OnDisk("dir", 0, 0) /\ disk[<<"b", "b">>] = OnDisk("archive", 2, 0)
  /\ worker_ # "archive" => disk[<<"b">>] = NoEntry
  /\ AfcInit /\ attached = Device
  /\ \A p \in AfcPath : p[2] # FileSystem \/ worker_ # "afc" => files[p] = Nothing
  /\ SearchInit /\ (worker_ # "search" => searchPc = "tool")
  /\ TermsInit /\ (worker_ # "terms" => fileName = {})
  /\ Init /\ DevicesInit /\ (worker_ # "mtp" => \A w \in Worker : local[w] = Absent)

WorkersNext ==
  \/ worker_ = "devices" /\ DevicesNext /\ UNCHANGED <<worker_, vars, afcVars, searchVars, termVars, archiveVars>>
  \/ worker_ = "mtp" /\ Next /\ UNCHANGED <<worker_, deviceVars, afcVars, searchVars, termVars, archiveVars>>
  \/ worker_ = "afc" /\ AfcNext /\ UNCHANGED <<worker_, mtpVars, searchVars, termVars, archiveVars>>
  \/ worker_ = "search" /\ SearchNext /\ UNCHANGED <<worker_, mtpVars, afcVars, termVars, archiveVars>>
  \/ worker_ = "terms" /\ TermsNext /\ UNCHANGED <<worker_, mtpVars, afcVars, searchVars, archiveVars>>
  \/ worker_ = "archive" /\ ArchiveNext /\ UNCHANGED <<worker_, mtpVars, afcVars, searchVars, termVars>>

WorkersSpec == WorkersInit /\ [][WorkersNext]_workersVars
=============================================================================
