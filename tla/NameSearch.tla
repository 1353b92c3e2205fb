------------------------------ MODULE NameSearch ------------------------------
(***************************************************************************)
(* A file name search (src/filenamesearch): which directories are listed,  *)
(* which of their entries are reported, and the external search tool.      *)
(*                                                                         *)
(* A path is a sequence of names and separators as a string is of          *)
(* characters: that one string starts with another is IsPrefix, and says   *)
(* less than that one is inside the other.                                 *)
(***************************************************************************)
EXTENDS Naturals, Sequences, FiniteSets, SequencesExt

CONSTANTS Tree,      \* the entries: [path, kind, hidden, readable, dest, matches]
          RootPath, NoLink,
          Hidden,    \* subset of {"files", "folders"}: option includeHidden
          SearchSrc, \* subset of {"external", "internal"}
          Output     \* what the tool prints: paths and separators

VARIABLES searchPc, iterated, pending, listing, todo, listed,
          missed,                  \* history: what a listing has not shown
          toolPc, printed, output  \* the tool; what it has printed and we have not read, what we hold

listVars == <<iterated, pending, listing, todo, missed>>
toolVars == <<toolPc, printed, output>>
searchVars == <<searchPc, listVars, listed, toolVars>>

Sep == "/"
Nul == "0"
Folders == {e \in Tree : e.kind = "dir"} \cup {e \in Tree : e.kind = "link"}
Slashed(path) == IF path # <<>> /\ Last(path) = Sep THEN path ELSE path \o <<Sep>>
Inside(path, dir) == IsPrefix(Slashed(dir), path)
(* Listed by listRecursive(): no link is followed, no hidden directory is  *)
(* entered unless hidden entries are included.                             *)
Enters(d) == d.kind = "dir" /\ d.readable /\ (d.hidden => Hidden # {})
Under(dir) ==
  {e \in Tree : /\ Inside(e.path, dir) /\ (e.hidden => Hidden # {})
                /\ \A d \in Tree : Inside(d.path, dir) /\ Inside(e.path, d.path) => Enters(d)}
(* Whatever is listed of such a place is dropped.                          *)
Special == {<<Sep, name, Sep>> : name \in {"dev", "proc", "sys"}}
Skipped(dir) == \E p \in Special : IsPrefix(p, Slashed(dir))
Reads(path) == \A d \in Tree : d.path = path => d.readable

(* Paths are real ones: nothing is inside a link or a file, and the        *)
(* destination of a link is its path.                                      *)
Places == {RootPath} \cup ({e.dest : e \in Tree} \ {NoLink})
TreeAssumption ==
  /\ RootPath # NoLink /\ Output \in Seq(Range(Output))
  /\ \A p \in Places \cup {e.path : e \in Tree} : p \in Seq(Range(p))
  /\ \A e \in Tree : e.path # <<>> /\ Last(e.path) # Sep
  /\ \A e, d \in Tree : (e.path = d.path => e = d) /\ (Inside(e.path, d.path) => d.kind = "dir")
ASSUME TreeAssumption

SearchInit ==
  /\ searchPc \in {p \in {"tool"} : "external" \in SearchSrc} \cup {IF "internal" \in SearchSrc THEN "search" ELSE "done"}
  /\ iterated = {} /\ pending = <<RootPath>> /\ listing = NoLink /\ todo = {} /\ missed = {} /\ listed = <<>>
  /\ toolPc = "none" /\ printed = 0 /\ output = <<>>

----------------------------------------------------------------------------
(* The internal search                                                     *)

(* Mutant: a directory a second link leads to is listed again.             *)
NeverIterated(path) == FALSE
AlreadyIterated(path) == Slashed(path) \in iterated

(* searchDir(): of the directory first in line.                            *)
SearchDir ==
  /\ searchPc = "search" /\ listing = NoLink /\ pending # <<>>
  /\ pending' = Tail(pending)
  /\ IF AlreadyIterated(Head(pending)) \/ ~Reads(Head(pending)) THEN UNCHANGED <<listing, todo>>
     ELSE listing' = Head(pending) /\ todo' = Under(Head(pending))
  /\ UNCHANGED <<searchPc, iterated, missed, listed, toolVars>>

HasBeenVisited(path) == \E d \in iterated : IsPrefix(d, path)

(* A link that is not hidden, or may be followed, is put in line; another  *)
(* directory that may not be entered is marked, without a separator.       *)
MayEnter(e) == e.readable /\ (~e.hidden \/ "folders" \in Hidden)
Enqueued(e) == IF e \in Folders /\ MayEnter(e) /\ e.dest # NoLink THEN Append(pending, e.dest) ELSE pending
Marked(e) == IF e \in Folders /\ ~MayEnter(e) THEN iterated \cup {e.path} ELSE iterated
Reported(e) == e.matches /\ (~e.hidden \/ "files" \in Hidden)

(* One entry of the listing: a directory comes before what is inside it.   *)
ListedEntry ==
  /\ listing # NoLink
  /\ \E e \in todo :
       /\ \A d \in todo : ~Inside(e.path, d.path)
       /\ todo' = todo \ {e}
       /\ IF Skipped(listing) \/ HasBeenVisited(e.path) THEN UNCHANGED <<iterated, pending, listed>>
          ELSE /\ pending' = Enqueued(e) /\ iterated' = Marked(e)
               /\ listed' = IF Reported(e) THEN Append(listed, e.path) ELSE listed
  /\ UNCHANGED <<searchPc, listing, missed, toolVars>>

(* The listing fails, is cut short, or is killed because the application   *)
(* gives up (so are then the next ones), or one of a directory in it does; *)
(* the result is not looked at.                                            *)
ListingFails ==
  /\ listing # NoLink
  /\ \E gone \in {todo} \cup {{e \in todo : Inside(e.path, d.path)} : d \in Folders} :
       gone # {} /\ todo' = todo \ gone /\ missed' = missed \cup gone
  /\ UNCHANGED <<searchPc, iterated, pending, listing, listed, toolVars>>

ListingEnds ==
  /\ listing # NoLink /\ todo = {}
  /\ iterated' = iterated \cup {Slashed(listing)} /\ listing' = NoLink
  /\ UNCHANGED <<searchPc, pending, todo, missed, listed, toolVars>>

SearchDone ==
  /\ searchPc = "search" /\ listing = NoLink /\ pending = <<>> /\ searchPc' = "done"
  /\ UNCHANGED <<listVars, listed, toolVars>>

----------------------------------------------------------------------------
(* The external tool                                                       *)

ToolStarts ==
  /\ searchPc = "tool" /\ toolPc = "none"
  /\ \/ toolPc' = "running" /\ UNCHANGED searchPc
     \/ searchPc' = "failed" /\ UNCHANGED toolPc
  /\ UNCHANGED <<listVars, listed, printed, output>>

(* It prints in pieces that end anywhere, a path without its separator     *)
(* last; it is missing (127), succeeds, or fails with a message.           *)
ToolPrints ==
  /\ toolPc = "running" /\ printed < Len(Output)
  /\ printed' \in printed + 1 .. Len(Output)
  /\ output' = output \o SubSeq(Output, printed + 1, printed')
  /\ UNCHANGED <<searchPc, listVars, listed, toolPc>>
ToolEnds ==
  /\ toolPc = "running"
  /\ \/ printed = Len(Output) /\ toolPc' \in {"success", "error"}
     \/ printed = 0 /\ toolPc' = "missing"
  /\ UNCHANGED <<searchPc, listVars, listed, printed, output>>

(* sendMatch(): of each path that is complete.                             *)
LastNul(s) == IF \E i \in DOMAIN s : s[i] = Nul THEN CHOOSE i \in DOMAIN s : s[i] = Nul /\ \A j \in i + 1 .. Len(s) : s[j] # Nul ELSE 0
Complete(s) == SubSeq(s, 1, LastNul(s))
Rest(s) == SubSeq(s, LastNul(s) + 1, Len(s))
(* The k-th path in s, in the order they were printed.                     *)
Matches(s) ==
  LET at == {i \in DOMAIN s : s[i] # Nul}
      Rank(i) == Cardinality({j \in at : j <= i})
  IN  [k \in 1 .. Cardinality(at) |-> s[CHOOSE i \in at : Rank(i) = k]]
ReadOutput ==
  /\ searchPc = "tool" /\ LastNul(output) # 0
  /\ listed' = listed \o Matches(Complete(output)) /\ output' = Rest(output)
  /\ UNCHANGED <<searchPc, listVars, toolPc, printed>>

(* The tool has ended: what it printed last needs no separator.  Only a    *)
(* tool that is missing leads to the internal search.                      *)
ToolDone ==
  /\ searchPc = "tool" /\ toolPc \in {"success", "error", "missing"} /\ LastNul(output) = 0
  /\ listed' = listed \o Matches(output) /\ output' = <<>>
  /\ searchPc' = CASE toolPc = "success" -> "done"
                   [] toolPc = "missing" /\ "internal" \in SearchSrc -> "search"
                   [] OTHER -> "failed"
  /\ UNCHANGED <<listVars, toolPc, printed>>

SearchWork == SearchDir \/ ListedEntry \/ ListingEnds \/ SearchDone \/ ToolStarts \/ ReadOutput \/ ToolDone
ToolWork == ToolPrints \/ ToolEnds
SearchNext == SearchWork \/ ListingFails \/ ToolWork
SearchSpec == SearchInit /\ [][SearchNext]_searchVars

----------------------------------------------------------------------------
(* What a listing of dir comes upon: nothing of a special place, and       *)
(* nothing that is in a folder in dir that may not be entered.             *)
ComesUpon(dir) ==
  {e \in Under(dir) : /\ ~Skipped(dir)
                      /\ \A d \in Folders : Inside(d.path, dir) /\ Inside(e.path, d.path) => MayEnter(d)}
Follow(es) == {e.dest : e \in {d \in es : d \in Folders /\ MayEnter(d) /\ d.dest # NoLink}}
(* Where the links in es lead, from the root on: the least set of places   *)
(* that holds the root and what is linked to from a place in it.           *)
PlacesReached(es) ==
  {p \in Places : \A S \in SUBSET Places :
     RootPath \in S /\ (\A d \in S : Reads(d) => Follow(ComesUpon(d) \cap es) \subseteq S) => p \in S}
Matching(es) ==
  {e.path : e \in {x \in UNION {ComesUpon(d) \cap es : d \in {p \in PlacesReached(es) : Reads(p)}} : Reported(x)}}

(* The path does not begin with that of a folder that may not be entered.  *)
(* One that does is passed over, be it inside that folder or named alike   *)
(* (foobar beside foo), unless it is come upon first: a link may lead into *)
(* the folder.                                                             *)
Clear(e) == \A d \in Folders : d # e /\ IsPrefix(d.path, e.path) => MayEnter(d)
(* A special place that a link leads to takes what is in it with it, for   *)
(* it has then been searched.                                              *)
InSkipped(e) == \E p \in Places : Skipped(p) /\ Inside(e.path, p)
Sought(e) == Clear(e) /\ ~InSkipped(e) /\ e \notin missed

MayReport == Matching(Tree)
MustReport == Matching({e \in Tree : Sought(e)})

(* No directory is listed twice and no entry reported twice, however many  *)
(* links lead to it, or back; none is reported but one that matches in a   *)
(* place that links lead to, and is not special; and when the internal     *)
(* search ends each such entry has been reported, unless a barred folder   *)
(* stands before it, it is in a special place or a listing failed to show  *)
(* it: what a listing fails to show costs no other entry.                  *)
SearchExact ==
  /\ listing # NoLink => Slashed(listing) \notin iterated
  /\ toolPc \in {"none", "missing"} => IsInjective(listed) /\ Range(listed) \subseteq MayReport
  /\ toolPc \in {"none", "missing"} /\ searchPc = "done" /\ "internal" \in SearchSrc =>
       MustReport \subseteq Range(listed)

(* Every path the tool has printed is reported once and in its order, in   *)
(* whatever pieces its output has come.                                    *)
ToolExact ==
  searchPc # "search" /\ toolPc \in {"running", "success", "error"} =>
    /\ IsPrefix(listed, Matches(Output))
    /\ searchPc \in {"done", "failed"} => listed = Matches(Output)

(* What is reported, by the internal search and by the tool.               *)
SearchRight == SearchExact /\ ToolExact
=============================================================================
