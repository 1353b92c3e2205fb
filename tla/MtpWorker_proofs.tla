-------------------------- MODULE MtpWorker_proofs --------------------------
(***************************************************************************)
(* Proofs about MtpWorker and MtpStorage, for every set of names, number   *)
(* of object ids, workers and jobs, and about MtpDevices, for every set of *)
(* devices and names.                                                      *)
(***************************************************************************)
EXTENDS Mtp, SequenceTheorems, WellFoundedInduction, TLAPS

-----------------------------------------------------------------------------
(* Objects and paths                                                       *)

ObjectType == [name : Name, parent : 1 .. MaxId + 1, folder : BOOLEAN]
InRoot(i) == object[i].parent = Root
ObjectInv ==
  /\ used \in 0 .. MaxId /\ object \in [Id -> {Absent} \cup ObjectType]
  /\ \A i \in Id : Exists(i) =>
       i <= used /\ (InRoot(i) \/ (object[i].parent \in Id /\ IsFolder(object[i].parent) /\ InRoot(object[i].parent)))

(* Object i is at path p.  On a device that renames folders all that is    *)
(* sure is how deep it is.                                                 *)
IsAt(i, p) == PathOf(i) = p \/ (RenamesFolders /\ Len(PathOf(i)) = Len(p))

(* What the cache knows is there: an object that a path leads to and that  *)
(* still exists is at that path.                                           *)
Faithful(known) ==
  known \in [Path -> 0 .. used] /\ \A p \in Path : Exists(known[p]) => IsAt(known[p], p)

(* The directory dir is the object parent, or the root.                    *)
Place(parent, dir) ==
  \/ parent = Root /\ dir = << >>
  \/ parent \in Id /\ Exists(parent) /\ dir \in Path /\ IsAt(parent, dir)

LEMMA NatIsWellFounded == IsWellFoundedOn({ss \in Nat \X Nat : ss[1] < ss[2]}, Nat)
BY NatLessThanWellFounded DEF OpToRel

LEMMA LeastNatural == ASSUME NEW S \in SUBSET Nat, S # {} PROVE \E x \in S : \A y \in S : x <= y
<1> DEFINE R == {ss \in Nat \X Nat : ss[1] < ss[2]}
<1>1. \A x, y \in Nat : x < y => <<x, y>> \in R
  <2> SUFFICES ASSUME NEW x \in Nat, NEW y \in Nat, x < y PROVE <<x, y>> \in R
    OBVIOUS
  <2>1. <<x, y>> \in Nat \X Nat /\ <<x, y>>[1] = x /\ <<x, y>>[2] = y
    OBVIOUS
  <2> QED
    BY <2>1
<1>2. IsWellFoundedOn(R, Nat)
  BY NatIsWellFounded
<1> HIDE DEF R
<1>3. PICK x \in S : \A y \in S : ~(<<y, x>> \in R)
  BY <1>2, WFMin
<1>4. ASSUME NEW y \in S PROVE x <= y
  <2>1. x \in Nat /\ y \in Nat /\ ~(y < x)
    BY <1>1, <1>3
  <2> QED
    BY <2>1
<1> QED
  BY <1>4

LEMMA LeastId == ASSUME NEW S \in SUBSET Nat, S # {} PROVE Min(S) \in S
BY LeastNatural DEF Min

LEMMA GreatestId == ASSUME NEW S \in SUBSET Id, S # {} PROVE Max(S) \in S
<1> DEFINE T == {i \in Nat : \A y \in S : y <= i}
<1>1. MaxId \in T /\ S \in SUBSET Nat
  BY IdAssumption DEF Id
<1>2. PICK t \in T : \A y \in T : t <= y
  BY <1>1, LeastNatural
<1>3. t \in Nat /\ \A y \in S : y <= t
  BY <1>2
<1>4. t \in S
  <2> SUFFICES ASSUME t \notin S PROVE FALSE
    OBVIOUS
  <2>1. \A y \in S : y \in Nat /\ y < t
    BY <1>1, <1>3
  <2>2. t - 1 \in Nat /\ \A y \in S : y <= t - 1
    BY <1>3, <2>1
  <2>3. t <= t - 1
    BY <1>2, <2>2
  <2> QED
    BY <1>3, <2>3
<1>5. \A y \in S : t >= y
  BY <1>1, <1>3
<1> QED
  BY <1>4, <1>5 DEF Max

(* Short sequences.                                                        *)
LEMMA TwoNames ==
  ASSUME NEW m, NEW n
  PROVE  /\ Append(<<m>>, n) = <<m, n>> /\ Append(<< >>, m) = <<m>>
         /\ SubSeq(<<m, n>>, 1, 1) = <<m>> /\ SubSeq(<<m>>, 1, 0) = << >>
<1> DEFINE S == {m, n}
           s == Append(<<m>>, n)
           f == SubSeq(<<m, n>>, 1, 1)
           e == SubSeq(<<m>>, 1, 0)
<1>1. <<m>> \in Seq(S) /\ <<m, n>> \in Seq(S) /\ << >> \in Seq(S)
  OBVIOUS
<1>2. s \in Seq(S) /\ Len(s) = 2 /\ s[1] = m /\ s[2] = n
  BY <1>1
<1>3. f \in Seq(S) /\ Len(f) = 1 /\ f[1] = m
  BY <1>1, SubSeqProperties
<1>4. e = << >>
  BY <1>1, SubSeqEmpty
<1>5. Append(<< >>, m) = <<m>>
  BY <1>1
<1> HIDE DEF s, f
<1>6. s = <<m, n>> /\ f = <<m>>
  BY <1>2, <1>3
<1> QED
  BY <1>4, <1>5, <1>6 DEF s, f

LEMMA PathFacts ==
  ASSUME NEW p \in Path
  PROVE  /\ Len(p) = 1 => p = <<Head(p)>> /\ Last(p) = Head(p) /\ Front(p) = << >>
         /\ Len(p) # 1 => /\ Len(p) = 2 /\ Front(p) \in Path /\ Len(Front(p)) = 1
                          /\ <<Head(p)>> = Front(p) /\ p = <<Head(p), Last(p)>>
         /\ p = Append(Front(p), Last(p)) /\ Last(p) \in Name /\ Head(p) \in Name
         /\ \A n \in Name : Append(Front(p), n) \in Path
<1>1. CASE \E n \in Name : p = <<n>>
  <2>1. PICK n \in Name : p = <<n>>
    BY <1>1
  <2>2. Len(p) = 1 /\ Head(p) = n
    BY <2>1
  <2>3. Last(p) = n /\ Front(p) = << >>
    BY <2>1, <2>2, TwoNames DEF Last, Front
  <2>4. \A l \in Name : Append(<< >>, l) = <<l>> /\ <<l>> \in Path
    BY TwoNames DEF Path
  <2> QED
    BY <2>1, <2>2, <2>3, <2>4
<1>2. CASE \E m, n \in Name : p = <<m, n>>
  <2>1. PICK m, n \in Name : p = <<m, n>>
    BY <1>2
  <2>2. Len(p) = 2 /\ Head(p) = m
    BY <2>1
  <2>3. SubSeq(<<m, n>>, 1, 1) = <<m>>
    BY TwoNames
  <2>4. Last(p) = n /\ Front(p) = <<m>>
    BY <2>1, <2>2, <2>3 DEF Last, Front
  <2>5. <<m>> \in Path /\ Len(<<m>>) = 1
    BY DEF Path
  <2>6. ASSUME NEW l \in Name PROVE Append(<<m>>, l) = <<m, l>> /\ <<m, l>> \in Path
    <3>1. Append(<<m>>, l) = <<m, l>>
      BY TwoNames
    <3>2. <<m, l>> \in Path
      BY DEF Path
    <3> QED
      BY <3>1, <3>2
  <2>7. p = Append(Front(p), Last(p))
    <3>1. Append(<<m>>, n) = <<m, n>>
      BY <2>6
    <3> QED
      BY <2>1, <2>4, <3>1
  <2>8. \A l \in Name : Append(Front(p), l) \in Path
    BY <2>4, <2>6
  <2>9. p = <<Head(p), Last(p)>> /\ <<Head(p)>> = Front(p) /\ Len(Front(p)) = 1 /\ Front(p) \in Path
    BY <2>1, <2>2, <2>4, <2>5
  <2> QED
    BY <2>2, <2>4, <2>7, <2>8, <2>9
<1> QED
  BY <1>1, <1>2 DEF Path

LEMMA ObjectFacts ==
  ASSUME ObjectInv, NEW i \in Id, Exists(i)
  PROVE  /\ object[i] \in ObjectType /\ object[i].name \in Name
         /\ InRoot(i) => PathOf(i) = <<object[i].name>> /\ <<object[i].name>> \in Path
         /\ ~InRoot(i) => /\ PathOf(i) = <<object[object[i].parent].name, object[i].name>>
                          /\ Exists(object[i].parent) /\ object[i].parent \in Id
                          /\ PathOf(object[i].parent) = <<object[object[i].parent].name>>
                          /\ object[object[i].parent].name \in Name
         /\ PathOf(i) \in Path
<1>1. object[i] \in ObjectType /\ object[i].name \in Name
  BY DEF ObjectInv, Exists, ObjectType
<1>2. CASE InRoot(i)
  BY <1>1, <1>2 DEF PathOf, InRoot, Path
<1>3. CASE ~InRoot(i)
  <2> DEFINE q == object[i].parent
  <2>1. q \in Id /\ Exists(q) /\ InRoot(q)
    BY <1>3 DEF ObjectInv, IsFolder
  <2>2. object[q] \in ObjectType /\ object[q].name \in Name
    BY <2>1 DEF ObjectInv, Exists, ObjectType
  <2> QED
    BY <1>1, <1>3, <2>1, <2>2 DEF PathOf, InRoot, Path
<1> QED
  BY <1>1, <1>2, <1>3

(* What is in a directory is at the path of the directory and its name.    *)
LEMMA ChildrenAreThere ==
  ASSUME ObjectInv, NEW parent, NEW dir, Place(parent, dir)
  PROVE  \A i \in Children(parent) : i \in Id /\ Exists(i) /\ IsAt(i, Append(dir, object[i].name))
<1> SUFFICES ASSUME NEW i \in Children(parent) PROVE i \in Id /\ Exists(i) /\ IsAt(i, Append(dir, object[i].name))
  OBVIOUS
<1>1. i \in Id /\ Exists(i) /\ object[i].parent = parent
  BY DEF Children
<1>2. CASE parent = Root /\ dir = << >>
  <2>1. PathOf(i) = <<object[i].name>>
    BY <1>1, <1>2, ObjectFacts DEF InRoot
  <2>2. Append(<< >>, object[i].name) = <<object[i].name>>
    BY TwoNames
  <2> QED
    BY <1>1, <1>2, <2>1, <2>2 DEF IsAt
<1>3. CASE parent \in Id /\ Exists(parent) /\ dir \in Path /\ IsAt(parent, dir)
  <2>1. parent # Root
    BY <1>3, IdAssumption DEF Id, Root
  <2>2. ~InRoot(i)
    BY <1>1, <2>1 DEF InRoot
  <2>3. PathOf(parent) = <<object[parent].name>> /\ PathOf(i) = <<object[parent].name, object[i].name>>
    BY <1>1, <1>3, <2>2, ObjectFacts
  <2>4. Append(<<object[parent].name>>, object[i].name) = <<object[parent].name, object[i].name>>
    BY TwoNames
  <2>5. CASE PathOf(parent) = dir
    BY <1>1, <2>3, <2>4, <2>5 DEF IsAt
  <2>6. CASE RenamesFolders /\ Len(PathOf(parent)) = Len(dir)
    <3>1. Len(dir) = 1 /\ Len(PathOf(i)) = 2
      BY <2>3, <2>6
    <3>2. PICK m : dir = <<m>>
      BY <1>3, <3>1, PathFacts
    <3>3. Append(<<m>>, object[i].name) = <<m, object[i].name>>
      BY TwoNames
    <3>4. Len(Append(dir, object[i].name)) = 2
      BY <3>2, <3>3
    <3> QED
      BY <1>1, <2>6, <3>1, <3>4 DEF IsAt
  <2> QED
    BY <1>3, <2>5, <2>6 DEF IsAt
<1> QED
  BY <1>2, <1>3 DEF Place

LEMMA AddPathsRight ==
  ASSUME ObjectInv, NEW known, Faithful(known), NEW dir, NEW ids \in SUBSET Id,
         \A i \in ids : Exists(i) /\ IsAt(i, Append(dir, object[i].name))
  PROVE  Faithful(AddPaths(known, dir, ids))
<1> DEFINE here(p) == {i \in ids : Append(dir, object[i].name) = p}
           more == AddPaths(known, dir, ids)
<1>1. \A p \in Path : more[p] = (IF here(p) = {} THEN known[p] ELSE Max(here(p)))
  BY DEF AddPaths
<1>2. more = [p \in Path |-> more[p]]
  BY DEF AddPaths
<1>3. ASSUME NEW p \in Path PROVE more[p] \in 0 .. used /\ (Exists(more[p]) => IsAt(more[p], p))
  <2>1. CASE here(p) = {}
    <3>1. more[p] = known[p]
      BY <1>1, <2>1
    <3> QED
      BY <3>1 DEF Faithful
  <2>2. CASE here(p) # {}
    <3>1. here(p) \in SUBSET Id
      OBVIOUS
    <3>2. Max(here(p)) \in here(p)
      BY <2>2, <3>1, GreatestId
    <3>3. more[p] \in here(p)
      BY <1>1, <2>2, <3>2
    <3>4. more[p] \in Id /\ Exists(more[p]) /\ IsAt(more[p], p)
      BY <3>3
    <3> QED
      BY <3>4, IdAssumption DEF ObjectInv, Id
  <2> QED
    BY <2>1, <2>2
<1> HIDE DEF more
<1>4. more \in [Path -> 0 .. used]
  BY <1>2, <1>3
<1>5. Faithful(more)
  BY <1>3, <1>4 DEF Faithful
<1> QED
  BY <1>5 DEF more

(* findEntry() finds what is there, and caches nothing else.               *)
LEMMA FindEntryRight ==
  ASSUME ObjectInv, NEW walk, Faithful(walk.cache), Place(walk.id, walk.at), NEW name
  PROVE  LET found == FindEntry(walk, name)
         IN  /\ Faithful(found.cache) /\ found.at = Append(walk.at, name)
             /\ found.id = NoItem \/ (found.id \in Id /\ Exists(found.id) /\ IsAt(found.id, Append(walk.at, name)))
<1> DEFINE hits == Named(name, walk.id)
           seen == {i \in Children(walk.id) : hits = {} \/ i <= Min(hits)}
           more == AddPaths(walk.cache, walk.at, seen)
           first == IF hits = {} THEN NoItem ELSE Min(hits)
<1>1. walk.id # NoItem
  BY IdAssumption DEF Place, NoItem, Root, Id
<1>2. \A i \in Children(walk.id) : i \in Id /\ Exists(i) /\ IsAt(i, Append(walk.at, object[i].name))
  BY ChildrenAreThere
<1>3. seen \in SUBSET Id
  BY <1>2
<1>4. Faithful(more)
  BY <1>2, <1>3, AddPathsRight
<1>5. hits \in SUBSET Nat /\ \A i \in hits : i \in Children(walk.id) /\ object[i].name = name
  BY <1>2, IdAssumption DEF Named, Id
<1>6. first = NoItem \/ first \in hits
  BY <1>5, LeastId
<1>7. FindEntry(walk, name) = [at |-> Append(walk.at, name), id |-> first, cache |-> more]
  BY <1>1 DEF FindEntry
<1>8. first = NoItem \/ (first \in Id /\ Exists(first) /\ IsAt(first, Append(walk.at, name)))
  <2> HIDE DEF hits, first
  <2> QED
    BY <1>2, <1>5, <1>6
<1> HIDE DEF hits, seen, more, first
<1> DEFINE found == FindEntry(walk, name)
<1>9. found.at = Append(walk.at, name) /\ found.id = first /\ found.cache = more
  BY <1>7
<1> HIDE DEF found
<1>10. Faithful(found.cache)
  BY <1>4, <1>9
<1> QED
  BY <1>8, <1>9, <1>10 DEF found

(* What a lookup finds is at the path that was looked up, and what it      *)
(* leaves in the cache is right.                                           *)
Found(found, path) ==
  Faithful(found.cache) /\ (found.id = NoItem \/ (found.id \in Id /\ Exists(found.id) /\ IsAt(found.id, path)))

LEMMA TreeWalkRight ==
  ASSUME ObjectInv, NEW known, Faithful(known), NEW path \in Path
  PROVE  Found(TreeWalk(path, known), path)
<1> DEFINE start == [at |-> << >>, id |-> Root, cache |-> known]
           top == FindEntry(start, Head(path))
<1>1. Faithful(start.cache) /\ Place(start.id, start.at) /\ start.at = << >>
  BY DEF Place
<1> HIDE DEF start
<1>2. /\ Faithful(top.cache) /\ top.at = <<Head(path)>>
      /\ top.id = NoItem \/ (top.id \in Id /\ Exists(top.id) /\ IsAt(top.id, <<Head(path)>>))
  <2>1. Append(<< >>, Head(path)) = <<Head(path)>>
    BY TwoNames
  <2> QED
    BY <1>1, <2>1, FindEntryRight
<1>3. TreeWalk(path, known) = IF Len(path) = 1 THEN top ELSE FindEntry(top, Last(path))
  BY DEF TreeWalk, start
<1> HIDE DEF top
<1>4. CASE Len(path) = 1
  <2>1. path = <<Head(path)>>
    BY <1>4, PathFacts
  <2> QED
    BY <1>2, <1>3, <1>4, <2>1 DEF Found
<1>5. CASE Len(path) # 1
  <2>1. path = Append(<<Head(path)>>, Last(path)) /\ <<Head(path)>> \in Path
    BY <1>5, PathFacts
  <2>2. TreeWalk(path, known) = FindEntry(top, Last(path))
    BY <1>3, <1>5
  <2>3. CASE top.id = NoItem
    <3>1. FindEntry(top, Last(path)) = top
      BY <2>3 DEF FindEntry
    <3> QED
      BY <1>2, <2>2, <2>3, <3>1 DEF Found
  <2>4. CASE top.id # NoItem
    <3>1. Place(top.id, top.at)
      BY <1>2, <2>1, <2>4 DEF Place
    <3> QED
      BY <1>2, <2>1, <2>2, <3>1, FindEntryRight DEF Found
  <2> QED
    BY <2>3, <2>4
<1> QED
  BY <1>4, <1>5

LEMMA GetFileRight ==
  ASSUME ObjectInv, NEW known, Faithful(known), NEW path \in Path
  PROVE  Found(GetFileFromPathWith(path, known), path)
<1> DEFINE hit == known[path]
           parent == known[Front(path)]
           more == AddPaths(known, Front(path), Children(parent))
           listed == Named(Last(path), parent)
           found == GetFileFromPathWith(path, known)
<1>1. Found(TreeWalk(path, known), path)
  BY TreeWalkRight
<1>2. CASE hit # NoItem /\ Exists(hit)
  <2>1. found = [id |-> hit, cache |-> known]
    BY <1>2 DEF GetFileFromPathWith
  <2>2. hit \in Id /\ IsAt(hit, path)
    BY <1>2 DEF Faithful, Exists
  <2> QED
    BY <1>2, <2>1, <2>2 DEF Found
<1>3. CASE hit = NoItem /\ Len(path) > 1 /\ Exists(parent)
  <2>1. Front(path) \in Path /\ path = Append(Front(path), Last(path))
    BY <1>3, PathFacts
  <2>2. Place(parent, Front(path))
    BY <1>3, <2>1 DEF Place, Faithful, Exists
  <2>3. \A i \in Children(parent) : i \in Id /\ Exists(i) /\ IsAt(i, Append(Front(path), object[i].name))
    BY <2>2, ChildrenAreThere
  <2>4. Faithful(more)
    <3>1. Children(parent) \in SUBSET Id
      BY <2>3
    <3> QED
      BY <2>3, <3>1, AddPathsRight
  <2>5. CASE listed # {}
    <3>1. listed \in SUBSET Nat /\ listed \subseteq Children(parent)
      BY <2>3, IdAssumption DEF Named, Id
    <3>2. Min(listed) \in listed
      BY <2>5, <3>1, LeastId
    <3>3. Min(listed) \in Id /\ Exists(Min(listed)) /\ IsAt(Min(listed), path)
      BY <2>1, <2>3, <3>1, <3>2 DEF Named
    <3>4. found = [id |-> Min(listed), cache |-> more]
      BY <1>3, <2>5 DEF GetFileFromPathWith
    <3> QED
      BY <2>4, <3>3, <3>4 DEF Found
  <2>6. CASE listed = {}
    <3>1. found = TreeWalk(path, more)
      BY <1>3, <2>6 DEF GetFileFromPathWith
    <3> QED
      BY <2>4, <3>1, TreeWalkRight
  <2> QED
    BY <2>5, <2>6
<1>4. CASE ~(hit # NoItem /\ Exists(hit)) /\ ~(hit = NoItem /\ Len(path) > 1 /\ Exists(parent))
  <2>1. found = TreeWalk(path, known)
    BY <1>4 DEF GetFileFromPathWith
  <2> QED
    BY <1>1, <2>1
<1> QED
  BY <1>2, <1>3, <1>4

-----------------------------------------------------------------------------
(* What a step does to the objects                                         *)

(* The device keeps every object where it is, and a folder its name unless *)
(* it renames folders; a new object has a new id.                          *)
Evolves ==
  /\ used' \in used .. MaxId
  /\ \A i \in Id : Exists(i)' /\ i <= used =>
       /\ Exists(i) /\ object'[i].parent = object[i].parent /\ object'[i].folder = object[i].folder
       /\ object[i].folder => object'[i].name = object[i].name \/ RenamesFolders

LEMMA PathsKept ==
  ASSUME ObjectInv, ObjectInv', Evolves, NEW i \in Id, i <= used, Exists(i)'
  PROVE  /\ Exists(i) /\ (InRoot(i)' <=> InRoot(i)) /\ (IsFolder(i)' <=> IsFolder(i))
         /\ \A p : IsAt(i, p) /\ (object'[i].name = object[i].name \/ RenamesFolders) => IsAt(i, p)'
<1>1. Exists(i) /\ object'[i].parent = object[i].parent /\ object'[i].folder = object[i].folder
  BY DEF Evolves
<1>2. (InRoot(i)' <=> InRoot(i)) /\ (IsFolder(i)' <=> IsFolder(i))
  BY <1>1 DEF InRoot, IsFolder
<1> SUFFICES ASSUME NEW p, IsAt(i, p), object'[i].name = object[i].name \/ RenamesFolders PROVE IsAt(i, p)'
  BY <1>1, <1>2
<1>3. CASE InRoot(i)
  <2>1. PathOf(i) = <<object[i].name>> /\ PathOf(i)' = <<object'[i].name>>
    BY <1>2, <1>3 DEF PathOf, InRoot
  <2> QED
    BY <2>1 DEF IsAt
<1>4. CASE ~InRoot(i)
  <2> DEFINE q == object[i].parent
  <2>1. q \in Id /\ Exists(q) /\ IsFolder(q) /\ q <= used
    BY <1>1, <1>4 DEF ObjectInv, IsFolder
  <2>2. object'[i].parent = q /\ Exists(q)'
    BY <1>1, <1>2, <1>4 DEF ObjectInv, IsFolder
  <2>3. object'[q].name = object[q].name \/ RenamesFolders
    BY <2>1, <2>2 DEF Evolves, IsFolder
  <2>4. PathOf(i) = <<object[q].name, object[i].name>> /\ PathOf(i)' = <<object'[q].name, object'[i].name>>
    BY <1>2, <1>4, <2>2 DEF PathOf, InRoot
  <2> QED
    BY <2>3, <2>4 DEF IsAt
<1> QED
  BY <1>3, <1>4

(* The entries of a directory stay its entries.                            *)
LEMMA PlacesKept ==
  ASSUME ObjectInv, ObjectInv', Evolves, NEW i \in Id, i <= used, Exists(i)', NEW dir, Place(object[i].parent, dir)
  PROVE  Place(object[i].parent, dir)'
<1> PICK q : q = object[i].parent
  OBVIOUS
<1>1. Exists(i) /\ object'[i].parent = q /\ (InRoot(i)' <=> InRoot(i))
  BY PathsKept DEF Evolves
<1>2. CASE q = Root /\ dir = << >>
  BY <1>1, <1>2 DEF Place, Root
<1>3. CASE q \in Id /\ Exists(q) /\ dir \in Path /\ IsAt(q, dir)
  <2>1. ~InRoot(i)
    BY <1>3, IdAssumption DEF InRoot, Id, Root
  <2>2. IsFolder(q) /\ q <= used /\ Exists(q)'
    BY <1>1, <1>3, <2>1 DEF ObjectInv, IsFolder
  <2>3. object'[q].name = object[q].name \/ RenamesFolders
    BY <1>3, <2>2 DEF Evolves, IsFolder
  <2>4. IsAt(q, dir)'
    BY <1>3, <2>2, <2>3, PathsKept
  <2> QED
    BY <1>1, <1>3, <2>2, <2>4 DEF Place, Id, Path
<1> QED
  BY <1>2, <1>3 DEF Place

LEMMA FaithfulKept ==
  ASSUME ObjectInv, ObjectInv', Evolves, NEW known, Faithful(known),
         \A p \in Path : Exists(known[p])' => object'[known[p]].name = object[known[p]].name \/ RenamesFolders
  PROVE  Faithful(known)'
<1>1. known \in [Path -> 0 .. used'] /\ \A p \in Path : known[p] <= used
  BY DEF Faithful, Evolves, ObjectInv
<1>2. ASSUME NEW p \in Path, Exists(known[p])' PROVE IsAt(known[p], p)'
  <2> DEFINE i == known[p]
  <2>1. i \in Id /\ i <= used
    BY <1>1, <1>2 DEF Exists
  <2>2. Exists(i)
    BY <1>2, <2>1, PathsKept
  <2>3. IsAt(i, p)
    BY <2>2 DEF Faithful
  <2> QED
    BY <1>2, <2>1, <2>3, PathsKept
<1> QED
  BY <1>1, <1>2 DEF Faithful, Path

LEMMA ObjectsSame ==
  ASSUME ObjectInv, UNCHANGED <<object, used>>
  PROVE  ObjectInv' /\ Evolves /\ \A i \in Id : object'[i] = object[i]
<1>1. \A i : (Exists(i)' <=> Exists(i)) /\ (IsFolder(i)' <=> IsFolder(i)) /\ (InRoot(i)' <=> InRoot(i))
  BY DEF Exists, IsFolder, InRoot
<1>2. ObjectInv'
  BY <1>1 DEF ObjectInv
<1> QED
  BY <1>1, <1>2 DEF Evolves, ObjectInv

LEMMA Removal ==
  ASSUME ObjectInv, NEW f \in Id, used' = used,
         object' = [i \in Id |-> IF i \in {f} \cup Children(f) THEN Absent ELSE object[i]]
  PROVE  ObjectInv' /\ Evolves /\ \A i \in Id : Exists(i)' => object'[i] = object[i]
<1>1. \A i \in Id : object'[i] = IF i \in {f} \cup Children(f) THEN Absent ELSE object[i]
  OBVIOUS
<1>2. \A i \in Id : Exists(i)' => Exists(i) /\ i # f /\ i \notin Children(f) /\ object'[i] = object[i]
  BY <1>1 DEF Exists
<1>3. ASSUME NEW i \in Id, Exists(i)', ~InRoot(i)
      PROVE  \E q \in Id : q = object[i].parent /\ IsFolder(q)' /\ InRoot(q)'
  <2> PICK q : q = object[i].parent
    OBVIOUS
  <2>1. q \in Id /\ IsFolder(q) /\ InRoot(q)
    BY <1>2, <1>3 DEF ObjectInv
  <2>2. q # f
    BY <1>2, <1>3 DEF Children
  <2>3. q \notin Children(f)
    <3>1. f # Root
      BY IdAssumption DEF Id, Root
    <3> QED
      BY <2>1, <3>1 DEF Children, InRoot
  <2>4. object'[q] = object[q]
    BY <1>1, <2>1, <2>2, <2>3
  <2> QED
    BY <2>1, <2>4 DEF IsFolder, InRoot, Exists
<1>4. \A i \in Id : Exists(i)' => i <= used' /\ (InRoot(i)' <=> InRoot(i)) /\ object'[i].parent = object[i].parent
  BY <1>2 DEF ObjectInv, InRoot
<1>5. object' \in [Id -> {Absent} \cup ObjectType]
  BY <1>1 DEF ObjectInv
<1>6. ObjectInv'
  BY <1>3, <1>4, <1>5 DEF ObjectInv, Id, ObjectType
<1>7. Evolves
  BY <1>2 DEF Evolves, ObjectInv
<1> QED
  BY <1>2, <1>6, <1>7

LEMMA Renaming ==
  ASSUME ObjectInv, NEW f \in Id, Exists(f), NEW n \in Name, IsFolder(f) => RenamesFolders, used' = used,
         object' = [object EXCEPT ![f].name = n]
  PROVE  /\ ObjectInv' /\ Evolves /\ object'[f].name = n
         /\ \A i \in Id : (Exists(i)' <=> Exists(i)) /\ (i # f => object'[i] = object[i])
<1>1. object[f] \in ObjectType
  BY DEF ObjectInv, Exists
<1>2. object'[f] = [object[f] EXCEPT !.name = n] /\ \A i \in Id : i # f => object'[i] = object[i]
  BY DEF ObjectInv
<1>3. object'[f] \in ObjectType /\ object'[f].name = n /\ object'[f].parent = object[f].parent /\ object'[f].folder = object[f].folder
  BY <1>1, <1>2 DEF ObjectType
<1>4. object'[f] # Absent
  BY <1>3, IdAssumption DEF ObjectType
<1>5. \A i \in Id : /\ Exists(i)' <=> Exists(i)
                    /\ Exists(i) => object'[i].parent = object[i].parent /\ object'[i].folder = object[i].folder
  BY <1>2, <1>3, <1>4 DEF Exists
<1>6. \A i \in Id : Exists(i) => (InRoot(i)' <=> InRoot(i)) /\ (IsFolder(i)' <=> IsFolder(i))
  BY <1>5 DEF InRoot, IsFolder
<1>7. object' \in [Id -> {Absent} \cup ObjectType]
  <2>1. DOMAIN object' = Id /\ object' = [i \in Id |-> object'[i]]
    BY DEF ObjectInv
  <2>2. \A i \in Id : object'[i] \in {Absent} \cup ObjectType
    BY <1>2, <1>3 DEF ObjectInv
  <2> QED
    BY <2>1, <2>2
<1>8. ObjectInv'
  <2>1. ASSUME NEW i \in Id, Exists(i)', ~InRoot(i)'
        PROVE  \E q \in Id : object'[i].parent = q /\ IsFolder(q)' /\ InRoot(q)'
    <3> PICK q : q = object[i].parent
      OBVIOUS
    <3>1. q \in Id /\ IsFolder(q) /\ InRoot(q) /\ object'[i].parent = q
      BY <1>5, <1>6, <2>1 DEF ObjectInv
    <3> QED
      BY <1>6, <3>1 DEF IsFolder
  <2>2. \A i \in Id : Exists(i)' => i <= used'
    BY <1>5 DEF ObjectInv
  <2> QED
    BY <1>7, <2>1, <2>2 DEF ObjectInv, Id, ObjectType
<1>9. Evolves
  <2>1. \A i \in Id : Exists(i) /\ object[i].folder => object'[i].name = object[i].name \/ RenamesFolders
    BY <1>2 DEF IsFolder
  <2> QED
    BY <1>5, <2>1 DEF Evolves, ObjectInv
<1> QED
  BY <1>2, <1>3, <1>5, <1>8, <1>9

LEMMA Creation ==
  ASSUME ObjectInv, NEW n \in Name, NEW folder \in BOOLEAN, NEW q, Create(n, q, folder),
         q = Root \/ (q \in Id /\ IsFolder(q) /\ InRoot(q))
  PROVE  /\ ObjectInv' /\ Evolves
         /\ \E k \in Id : /\ k = used + 1 /\ used' = k /\ Exists(k)'
                         /\ object'[k].name = n /\ object'[k].parent = q
         /\ \A i \in Id : i <= used => object'[i] = object[i]
<1> DEFINE o == [name |-> n, parent |-> q, folder |-> folder]
<1> PICK k : k = used + 1
  OBVIOUS
<1>1. k \in Id /\ used' = k /\ used \in 0 .. MaxId /\ k = used + 1 /\ object' = [object EXCEPT ![k] = o]
  BY IdAssumption DEF Create, ObjectInv, Id
<1>2. q \in 1 .. MaxId + 1
  BY IdAssumption DEF Root, Id
<1>3. o \in ObjectType /\ o.name = n /\ o.parent = q /\ o # Absent
  BY <1>2, IdAssumption DEF ObjectType
<1> HIDE DEF o
<1>4. object'[k] = o /\ \A i \in Id : i # k => object'[i] = object[i]
  BY <1>1 DEF ObjectInv
<1>5. \A i \in Id : i <= used => object'[i] = object[i]
  BY <1>1, <1>4
<1>6. Exists(k)' /\ \A i \in Id : Exists(i)' /\ i # k => Exists(i) /\ i <= used
  BY <1>1, <1>3, <1>4 DEF Exists, ObjectInv
<1>7. \A i \in Id : i <= used => (InRoot(i)' <=> InRoot(i)) /\ (IsFolder(i)' <=> IsFolder(i)) /\ (Exists(i)' <=> Exists(i))
  BY <1>5 DEF InRoot, IsFolder, Exists
<1>8. object' \in [Id -> {Absent} \cup ObjectType]
  BY <1>1, <1>3 DEF ObjectInv
<1>9. \A i \in Id : Exists(i)' => i <= used'
  BY <1>1, <1>6
<1>10. ASSUME NEW i \in Id, Exists(i)', ~InRoot(i)'
       PROVE  \E p \in Id : object'[i].parent = p /\ IsFolder(p)' /\ InRoot(p)'
  <2>1. CASE i = k
    <3>1. object'[i].parent = q /\ q # Root
      BY <1>3, <1>4, <1>10, <2>1 DEF InRoot, Root
    <3>2. q \in Id /\ IsFolder(q) /\ InRoot(q) /\ q <= used
      BY <3>1 DEF ObjectInv, IsFolder
    <3> QED
      BY <1>7, <3>1, <3>2
  <2>2. CASE i # k
    <3> PICK p : p = object[i].parent
      OBVIOUS
    <3>1. p \in Id /\ IsFolder(p) /\ InRoot(p) /\ object'[i].parent = p
      BY <1>4, <1>6, <1>7, <1>10, <2>2 DEF ObjectInv
    <3> QED
      BY <1>7, <3>1 DEF ObjectInv, IsFolder
  <2> QED
    BY <2>1, <2>2
<1>11. ObjectInv'
  BY <1>1, <1>8, <1>9, <1>10 DEF ObjectInv, Id, ObjectType
<1>12. Evolves
  BY <1>1, <1>5, <1>7, IdAssumption DEF Evolves, Id
<1> QED
  BY <1>1, <1>3, <1>4, <1>5, <1>6, <1>11, <1>12

-----------------------------------------------------------------------------
(* The methods of the daemon                                               *)

StorageInv == ObjectInv /\ Faithful(cache)

(* Where a posted sending goes: the root, or a folder in it, if it is      *)
(* still there.                                                            *)
ToInv(to) == to \in Id => to <= used /\ (Exists(to) => InRoot(to))
CopyType == [from : 0 .. MaxId, to : 0 .. MaxId + 1, name : Name, fd : Worker \cup {Absent}, job : Nat]
CopyOk(c) == c \in CopyType /\ ToInv(c.to) /\ c.job \in 1 .. started

(* What the daemon does in the call of a worker.                           *)
Served ==
  /\ StorageInv' /\ Evolves /\ plugged' = plugged
  /\ copies' = copies \/ \E c : CopyOk(c) /\ copies' = Append(copies, c)

(* The cache after one of its entries is written.                          *)
LEMMA CacheEntry ==
  ASSUME NEW c, Faithful(c)', NEW p \in Path, NEW k \in 0 .. used', Exists(k)' => IsAt(k, p)', cache' = [c EXCEPT ![p] = k]
  PROVE  Faithful(cache)'
<1>1. c \in [Path -> 0 .. used']
  BY DEF Faithful, Path
<1>2. cache' \in [Path -> 0 .. used']
  BY <1>1
<1>3. ASSUME NEW q \in Path, NEW e, e = cache'[q], Exists(e)' PROVE IsAt(e, q)'
  <2>1. CASE q = p
    <3>1. e = k
      BY <1>1, <1>3, <2>1
    <3> QED
      BY <1>3, <2>1, <3>1
  <2>2. CASE q # p
    <3>1. e = c[q]
      BY <1>1, <1>3, <2>2
    <3>2. \A x \in Path : Exists(c[x])' => IsAt(c[x], x)'
      BY DEF Faithful, Path
    <3> QED
      BY <1>3, <3>1, <3>2
  <2> QED
    BY <2>1, <2>2
<1>4. \A q \in Path : Exists(cache[q])' => IsAt(cache[q], q)'
  BY <1>3 DEF Exists, IsAt, PathOf, Path
<1> QED
  BY <1>2, <1>4 DEF Faithful, Path

LEMMA NoSuchId == ~Exists(NoItem) /\ NoItem \notin Id /\ NoItem = 0
BY IdAssumption DEF Exists, Id, NoItem

LEMMA LookupKeeps ==
  ASSUME StorageInv, UNCHANGED <<object, used>>, NEW c, Faithful(c), cache' = c
  PROVE  StorageInv' /\ Evolves
<1>1. ObjectInv' /\ Evolves /\ \A i \in Id : object'[i] = object[i]
  BY ObjectsSame DEF StorageInv
<1>2. \A p \in Path : Exists(c[p])' => object'[c[p]].name = object[c[p]].name
  BY <1>1 DEF Exists, Id
<1>3. Faithful(c)'
  BY <1>1, <1>2, FaithfulKept DEF StorageInv
<1> QED
  BY <1>1, <1>3 DEF StorageInv

LEMMA PathsFound ==
  ASSUME StorageInv, NEW path \in Path
  PROVE  Found(GetFileFromPath(path), path)
BY GetFileRight DEF StorageInv, GetFileFromPath

LEMMA NoReplyServes == ASSUME StorageInv, NoReply PROVE Served
<1>1. UNCHANGED <<object, used>> /\ cache' = cache /\ copies' = copies /\ plugged' = plugged
  BY DEF NoReply, storageVars
<1>2. PICK c : c = cache
  OBVIOUS
<1>3. Faithful(c) /\ cache' = c
  BY <1>1, <1>2 DEF StorageInv
<1>4. StorageInv' /\ Evolves
  BY <1>1, <1>3, LookupKeeps
<1> QED
  BY <1>1, <1>4 DEF Served

LEMMA MetadataServes ==
  ASSUME StorageInv, NEW path \in Path, NEW file, GetFileMetadata(path, file)
  PROVE  Served /\ copies' = copies /\ UNCHANGED object
<1>1. CASE file = NoItem /\ NoReply
  BY <1>1, NoReplyServes DEF NoReply, storageVars
<1>2. CASE plugged /\ cache' = GetFileFromPath(path).cache /\ UNCHANGED <<object, used, copies, plugged>>
  <2>1. PICK c : c = GetFileFromPath(path).cache
    OBVIOUS
  <2>2. Faithful(c) /\ cache' = c
    BY <1>2, <2>1, PathsFound DEF Found
  <2>3. StorageInv' /\ Evolves
    BY <1>2, <2>2, LookupKeeps
  <2> QED
    BY <1>2, <2>3 DEF Served
<1> QED
  BY <1>1, <1>2 DEF GetFileMetadata

LEMMA ListServes ==
  ASSUME StorageInv, NEW dir \in Path, NEW result, NEW ids, GetFilesAndFolders2(dir, result, ids)
  PROVE  /\ Served /\ copies' = copies /\ UNCHANGED object
         /\ ids \in SUBSET Id /\ \A i \in ids : i <= used /\ Place(object[i].parent, dir)
<1>1. CASE ids = {} /\ NoReply
  BY <1>1, NoReplyServes DEF NoReply, storageVars
<1>2. CASE ~(ids = {} /\ NoReply)
  <2> DEFINE found == GetFileFromPath(dir)
  <2>1. dir # << >>
    BY PathFacts
  <2>2. /\ plugged /\ ids = (IF IsFolder(found.id) THEN Children(found.id) ELSE {}) /\ cache' = found.cache
        /\ UNCHANGED <<object, used, copies, plugged>>
    BY <1>2, <2>1 DEF GetFilesAndFolders2
  <2>3. PICK c, f : c = found.cache /\ f = found.id
    OBVIOUS
  <2>4. Faithful(c) /\ cache' = c /\ (f = NoItem \/ (f \in Id /\ Exists(f) /\ IsAt(f, dir)))
    BY <2>2, <2>3, PathsFound DEF Found
  <2>5. StorageInv' /\ Evolves
    BY <2>2, <2>4, LookupKeeps
  <2>6. ASSUME NEW i \in ids PROVE i \in Id /\ i <= used /\ Place(object[i].parent, dir)
    <3>1. IsFolder(f) /\ i \in Children(f)
      BY <2>2, <2>3
    <3>2. f \in Id /\ Exists(f) /\ i \in Id /\ Exists(i) /\ object[i].parent = f
      BY <2>4, <3>1, NoSuchId DEF IsFolder, Children
    <3> QED
      BY <2>4, <3>2, NoSuchId DEF Place, StorageInv, ObjectInv
  <2> QED
    BY <2>2, <2>5, <2>6 DEF Served
<1> QED
  BY <1>1, <1>2

LEMMA GetFileServes ==
  ASSUME StorageInv, NEW path \in Path, NEW job \in 1 .. started, started \in Nat, NEW fd \in Worker \cup {Absent}, NEW result,
         GetFile(path, job, fd, result)
  PROVE  /\ Served /\ UNCHANGED object
         /\ result = 0 => ~plugged \/ \E c : CopyOk(c) /\ c.job = job /\ copies' = Append(copies, c)
<1>1. CASE NoReply
  BY <1>1, NoReplyServes DEF NoReply, storageVars
<1>2. CASE ~NoReply
  <2> DEFINE found == GetFileFromPath(path)
  <2>1. PICK c, f : c = found.cache /\ f = found.id
    OBVIOUS
  <2> DEFINE new == [from |-> f, to |-> NoItem, name |-> Last(path), fd |-> fd, job |-> job]
  <2>2. /\ plugged /\ cache' = c /\ result = (IF f = NoItem THEN 1 ELSE 0) /\ UNCHANGED <<object, used, plugged>>
        /\ copies' = IF f = NoItem THEN copies ELSE Append(copies, new)
    BY <1>2, <2>1 DEF GetFile, GetFileResult
  <2>3. Faithful(c) /\ f \in 0 .. MaxId
    BY <2>1, PathsFound, IdAssumption DEF Found, Id, NoItem
  <2>4. StorageInv' /\ Evolves
    BY <2>2, <2>3, LookupKeeps
  <2>5. CopyOk(new) /\ new.job = job
    BY <2>3, PathFacts, NoSuchId, IdAssumption DEF CopyOk, CopyType, ToInv
  <2> HIDE DEF new
  <2> QED
    BY <2>2, <2>4, <2>5 DEF Served
<1> QED
  BY <1>1, <1>2

(* A directory that a path of two names starts with is in the root.        *)
LEMMA DirectoryInRoot ==
  ASSUME ObjectInv, NEW i \in Id, Exists(i), NEW path \in Path, Len(path) # 1, IsAt(i, Front(path))
  PROVE  InRoot(i)
<1> SUFFICES ASSUME ~InRoot(i) PROVE FALSE
  OBVIOUS
<1>1. PathOf(i) = <<object[object[i].parent].name, object[i].name>>
  BY ObjectFacts
<1>2. Len(PathOf(i)) = 2
  BY <1>1
<1>3. Len(Front(path)) = 1
  BY PathFacts
<1> QED
  BY <1>2, <1>3 DEF IsAt

LEMMA SendServes ==
  ASSUME StorageInv, NEW path \in Path, NEW job \in 1 .. started, started \in Nat, NEW result, SendFile(path, job, result)
  PROVE  /\ Served /\ UNCHANGED object
         /\ result = 0 => ~plugged \/ \E c : CopyOk(c) /\ c.job = job /\ copies' = Append(copies, c)
<1>1. CASE NoReply
  BY <1>1, NoReplyServes DEF NoReply, storageVars
<1>2. CASE ~NoReply
  <2> DEFINE found == IF Len(path) = 1 THEN [id |-> Root, cache |-> cache] ELSE GetFileFromPath(Front(path))
             ok    == Len(path) = 1 \/ IsFolder(found.id)
  <2>1. PICK c, f : c = found.cache /\ f = found.id
    OBVIOUS
  <2> DEFINE new == [from |-> NoItem, to |-> f, name |-> Last(path), fd |-> Absent, job |-> job]
  <2>2. /\ plugged /\ cache' = c /\ result = (IF ok THEN 0 ELSE 2) /\ UNCHANGED <<object, used, plugged>>
        /\ copies' = IF ok THEN Append(copies, new) ELSE copies
    BY <1>2, <2>1 DEF SendFile
  <2>3. Faithful(c) /\ (ok => f \in 0 .. MaxId + 1 /\ ToInv(f))
    <3>1. CASE Len(path) = 1
      BY <2>1, <3>1, IdAssumption DEF StorageInv, Root, ToInv, Id
    <3>2. CASE Len(path) # 1
      <4>1. Found(GetFileFromPath(Front(path)), Front(path))
        BY <3>2, PathFacts, PathsFound
      <4>2. Faithful(c) /\ (f = NoItem \/ (f \in Id /\ Exists(f) /\ IsAt(f, Front(path))))
        BY <2>1, <3>2, <4>1 DEF Found
      <4>3. ok => f # NoItem
        BY <2>1, <3>2, NoSuchId DEF IsFolder
      <4>4. f # NoItem => InRoot(f) /\ f <= used /\ f \in Id
        BY <3>2, <4>2, DirectoryInRoot DEF StorageInv, ObjectInv
      <4> QED
        BY <4>2, <4>3, <4>4, IdAssumption DEF ToInv, Id
    <3> QED
      BY <3>1, <3>2
  <2>4. StorageInv' /\ Evolves
    BY <2>2, <2>3, LookupKeeps
  <2>5. ok => CopyOk(new) /\ new.job = job
    <3> HIDE DEF ok
    <3> QED
      BY <2>3, PathFacts, IdAssumption DEF CopyOk, CopyType, NoItem
  <2> HIDE DEF new, ok
  <2> QED
    BY <2>2, <2>4, <2>5 DEF Served
<1> QED
  BY <1>1, <1>2

LEMMA DeleteServes ==
  ASSUME StorageInv, NEW path \in Path, NEW result, DeleteObject(path, result)
  PROVE  /\ Served /\ copies' = copies
         /\ \A i \in Id : Exists(i) /\ ~Exists(i)' =>
              \E f \in Id : Exists(f) /\ IsAt(f, path) /\ (i = f \/ i \in Children(f))
<1>1. CASE NoReply
  BY <1>1, NoReplyServes DEF NoReply, storageVars, Exists
<1>2. CASE ~NoReply
  <2>1. PICK c, f : c = GetFileFromPath(path).cache /\ f = GetFileFromPath(path).id
    OBVIOUS
  <2>2. Faithful(c) /\ (f = NoItem \/ (f \in Id /\ Exists(f) /\ IsAt(f, path)))
    BY <2>1, PathsFound DEF Found
  <2>3. /\ UNCHANGED <<used, copies, plugged>>
        /\ \/ /\ f # NoItem
              /\ object' = [i \in Id |-> IF i \in {f} \cup Children(f) THEN Absent ELSE object[i]]
              /\ cache' = [c EXCEPT ![path] = NoItem]
           \/ cache' = c /\ UNCHANGED object
    BY <1>2, <2>1 DEF DeleteObject
  <2>4. CASE cache' = c /\ UNCHANGED object
    BY <2>2, <2>3, <2>4, LookupKeeps DEF Served, Exists
  <2>5. CASE /\ f # NoItem
             /\ object' = [i \in Id |-> IF i \in {f} \cup Children(f) THEN Absent ELSE object[i]]
             /\ cache' = [c EXCEPT ![path] = NoItem]
    <3>1. f \in Id /\ Exists(f) /\ IsAt(f, path)
      BY <2>2, <2>5
    <3>2. ObjectInv' /\ Evolves /\ \A i \in Id : Exists(i)' => object'[i] = object[i]
      BY <2>3, <2>5, <3>1, Removal DEF StorageInv
    <3>3. \A p \in Path : Exists(c[p])' => object'[c[p]].name = object[c[p]].name
      BY <3>2 DEF Exists, Id
    <3>4. Faithful(c)'
      BY <2>2, <3>2, <3>3, FaithfulKept DEF StorageInv
    <3>5. NoItem \in 0 .. used' /\ ~Exists(NoItem)'
      BY <3>2, NoSuchId DEF ObjectInv, Exists, Id
    <3>6. Faithful(cache)'
      <4>1. PICK k : k = NoItem
        OBVIOUS
      <4> QED
        BY <2>5, <3>4, <3>5, <4>1, CacheEntry DEF NoItem
    <3>7. \A i \in Id : Exists(i) /\ ~Exists(i)' => i = f \/ i \in Children(f)
      <4>1. \A i \in Id : i # f /\ i \notin Children(f) => object'[i] = object[i]
        BY <2>5
      <4> QED
        BY <4>1 DEF Exists
    <3> QED
      BY <2>3, <3>1, <3>2, <3>6, <3>7 DEF Served, StorageInv
  <2> QED
    BY <2>3, <2>4, <2>5
<1> QED
  BY <1>1, <1>2

LEMMA RenamedIsAt ==
  ASSUME ObjectInv, ObjectInv', Evolves, NEW f \in Id, Exists(f), Exists(f)', NEW path \in Path, IsAt(f, path),
         NEW n \in Name, object'[f].name = n, \A i \in Id : i # f => object'[i] = object[i]
  PROVE  IsAt(f, Append(Front(path), n))'
<1> PICK new : new = Append(Front(path), n)
  OBVIOUS
<1>1. f <= used /\ (InRoot(f)' <=> InRoot(f)) /\ object'[f].parent = object[f].parent
  BY PathsKept DEF ObjectInv, Evolves
<1>2. Len(path) = 1 => new = <<n>>
  <2>1. Append(<< >>, n) = <<n>>
    BY TwoNames
  <2> QED
    BY <2>1, PathFacts
<1>3. Len(path) # 1 => Len(path) = 2 /\ new = <<Head(path), n>>
  <2>1. Append(<<Head(path)>>, n) = <<Head(path), n>>
    BY TwoNames
  <2> QED
    BY <2>1, PathFacts
<1>4. Len(new) = Len(path)
  BY <1>2, <1>3
<1>5. CASE RenamesFolders
  <2>1. IsAt(f, path)'
    BY <1>1, <1>5, PathsKept
  <2> QED
    BY <1>4, <1>5, <2>1 DEF IsAt
<1>6. CASE PathOf(f) = path /\ InRoot(f)
  <2>1. path = <<object[f].name>>
    BY <1>6, ObjectFacts
  <2>2. Len(path) = 1
    BY <2>1
  <2>3. PathOf(f)' = <<n>>
    BY <1>1, <1>6 DEF PathOf, InRoot
  <2> QED
    BY <1>2, <2>2, <2>3 DEF IsAt
<1>7. CASE PathOf(f) = path /\ ~InRoot(f)
  <2>1. PICK q : q = object[f].parent
    OBVIOUS
  <2>2. path = <<object[q].name, object[f].name>>
    BY <1>7, <2>1, ObjectFacts
  <2>3. Len(path) = 2 /\ Head(path) = object[q].name
    BY <2>2
  <2>4. q # f /\ q \in Id
    BY <1>7, <2>1 DEF ObjectInv
  <2>5. PathOf(f)' = <<object[q].name, n>>
    BY <1>1, <1>7, <2>1, <2>4 DEF PathOf, InRoot
  <2>6. new = <<object[q].name, n>>
    BY <1>3, <2>3
  <2>7. PathOf(f)' = new
    BY <2>5, <2>6
  <2> QED
    BY <2>7 DEF IsAt
<1> QED
  BY <1>5, <1>6, <1>7 DEF IsAt

(* The renamed object is at its new path, and nothing that the cache knows *)
(* by another path has been renamed.                                       *)
LEMMA RenameServes ==
  ASSUME StorageInv, NEW path \in Path, NEW newName \in Name, NEW result, SetFileName(path, newName, result)
  PROVE  /\ Served /\ copies' = copies
         /\ \A i \in Id : Exists(i) => Exists(i)'
<1>1. CASE NoReply
  BY <1>1, NoReplyServes DEF NoReply, storageVars, Exists
<1>2. CASE ~NoReply
  <2>1. PICK c, f, new : c = GetFileFromPath(path).cache /\ f = GetFileFromPath(path).id /\ new = Append(Front(path), newName)
    OBVIOUS
  <2>2. Faithful(c) /\ (f = NoItem \/ (f \in Id /\ Exists(f) /\ IsAt(f, path)))
    BY <2>1, PathsFound DEF Found
  <2>3. /\ UNCHANGED <<used, copies, plugged>>
        /\ \/ /\ f # NoItem /\ (IsFolder(f) => RenamesFolders)
              /\ object' = [object EXCEPT ![f].name = newName]
              /\ cache' = [c EXCEPT ![path] = NoItem, ![new] = f]
           \/ cache' = c /\ UNCHANGED object
    BY <1>2, <2>1 DEF SetFileName, CacheRenamed
  <2>4. CASE cache' = c /\ UNCHANGED object
    BY <2>2, <2>3, <2>4, LookupKeeps DEF Served, Exists
  <2>5. CASE /\ f # NoItem /\ (IsFolder(f) => RenamesFolders)
             /\ object' = [object EXCEPT ![f].name = newName]
             /\ cache' = [c EXCEPT ![path] = NoItem, ![new] = f]
    <3>1. f \in Id /\ Exists(f) /\ IsAt(f, path)
      BY <2>2, <2>5
    <3>2. ObjectInv' /\ Evolves /\ object'[f].name = newName
          /\ \A i \in Id : (Exists(i)' <=> Exists(i)) /\ (i # f => object'[i] = object[i])
      BY <2>3, <2>5, <3>1, Renaming DEF StorageInv
    <3>3. PICK d : d = [c EXCEPT ![path] = NoItem]
      OBVIOUS
    <3>4. c \in [Path -> 0 .. used] /\ d \in [Path -> 0 .. used] /\ d[path] = NoItem /\ \A p \in Path : p # path => d[p] = c[p]
      BY <2>2, <3>3, IdAssumption DEF Faithful, StorageInv, ObjectInv, NoItem
    <3>5. Faithful(d)
      BY <2>2, <3>4, NoSuchId DEF Faithful
    <3>6. ASSUME NEW p \in Path, Exists(d[p])' PROVE object'[d[p]].name = object[d[p]].name \/ RenamesFolders
      <4>1. p # path /\ d[p] = c[p] /\ d[p] \in Id
        BY <3>4, <3>6, NoSuchId DEF Exists
      <4>2. CASE d[p] = f
        <5>1. IsAt(f, p)
          BY <2>2, <3>1, <4>1, <4>2 DEF Faithful
        <5> QED
          BY <3>1, <4>1, <5>1 DEF IsAt
      <4>3. CASE d[p] # f
        BY <3>2, <4>1, <4>3
      <4> QED
        BY <4>2, <4>3
    <3>7. Faithful(d)'
      BY <3>2, <3>5, <3>6, FaithfulKept DEF StorageInv
    <3>8. new \in Path /\ cache' = [d EXCEPT ![new] = f]
      BY <2>1, <2>5, <3>3, PathFacts
    <3>9. IsAt(f, new)'
      BY <2>1, <3>1, <3>2, RenamedIsAt DEF StorageInv
    <3>10. f \in 0 .. used'
      BY <2>3, <3>1, IdAssumption DEF StorageInv, ObjectInv, Id
    <3>11. Faithful(cache)'
      BY <3>7, <3>8, <3>9, <3>10, CacheEntry
    <3> QED
      BY <2>3, <3>1, <3>2, <3>11 DEF Served, StorageInv
  <2> QED
    BY <2>3, <2>4, <2>5
<1> QED
  BY <1>1, <1>2

(* A new object in a folder is at the path it was asked for.               *)
LEMMA CreatedIsAt ==
  ASSUME ObjectInv, ObjectInv', Evolves, NEW path \in Path, NEW q, NEW k \in Id, Exists(k)', k = used + 1,
         object'[k].name = Last(path), object'[k].parent = q, \A i \in Id : i <= used => object'[i] = object[i],
         \/ Len(path) = 1 /\ q = Root
         \/ Len(path) # 1 /\ q \in Id /\ Exists(q) /\ IsAt(q, Front(path))
  PROVE  IsAt(k, path)'
<1>1. CASE Len(path) = 1 /\ q = Root
  <2>1. PathOf(k)' = <<Last(path)>>
    BY <1>1 DEF PathOf, Root
  <2>2. path = <<Last(path)>>
    BY <1>1, PathFacts
  <2> QED
    BY <2>1, <2>2 DEF IsAt
<1>2. CASE Len(path) # 1 /\ q \in Id /\ Exists(q) /\ IsAt(q, Front(path))
  <2>1. InRoot(q) /\ q <= used
    BY <1>2, DirectoryInRoot DEF ObjectInv
  <2>2. q # Root /\ object'[q] = object[q]
    BY <1>2, <2>1, IdAssumption DEF Id, Root
  <2>3. PathOf(k)' = <<object[q].name, Last(path)>>
    BY <2>2 DEF PathOf, Root
  <2>4. PathOf(q) = <<object[q].name>>
    BY <1>2, <2>1, ObjectFacts
  <2>5. path = <<Head(path), Last(path)>> /\ Front(path) = <<Head(path)>> /\ Len(path) = 2
    BY <1>2, PathFacts
  <2>6. CASE PathOf(q) = Front(path)
    <3>1. object[q].name = Head(path)
      BY <2>4, <2>5, <2>6
    <3>2. PathOf(k)' = path
      BY <2>3, <2>5, <3>1
    <3> QED
      BY <3>2 DEF IsAt
  <2>7. CASE RenamesFolders
    <3>1. Len(PathOf(k)') = 2
      BY <2>3
    <3> QED
      BY <2>5, <2>7, <3>1 DEF IsAt
  <2> QED
    BY <1>2, <2>6, <2>7 DEF IsAt
<1> QED
  BY <1>1, <1>2

LEMMA FolderServes ==
  ASSUME StorageInv, NEW path \in Path, NEW result, CreateFolder(path, result)
  PROVE  /\ Served /\ copies' = copies
         /\ \A i \in Id : Exists(i) => Exists(i)'
<1>1. CASE NoReply
  BY <1>1, NoReplyServes DEF NoReply, storageVars, Exists
<1>2. CASE ~NoReply
  <2> DEFINE found  == GetFileFromPath(path)
             parent == IF Len(path) = 1 THEN [id |-> Root, cache |-> found.cache]
                       ELSE GetFileFromPathWith(Front(path), found.cache)
  <2>1. PICK c, d, q : c = found.cache /\ d = parent.cache /\ q = parent.id
    OBVIOUS
  <2>2. Faithful(c)
    BY <2>1, PathsFound DEF Found
  <2>3. /\ Faithful(d)
        /\ \/ Len(path) = 1 /\ q = Root
           \/ Len(path) # 1 /\ (q = NoItem \/ (q \in Id /\ Exists(q) /\ IsAt(q, Front(path))))
    <3>1. CASE Len(path) = 1
      BY <2>1, <2>2, <3>1
    <3>2. CASE Len(path) # 1
      <4>1. d = GetFileFromPathWith(Front(path), c).cache /\ q = GetFileFromPathWith(Front(path), c).id
        BY <2>1, <3>2
      <4>2. Found(GetFileFromPathWith(Front(path), c), Front(path))
        BY <2>2, <3>2, PathFacts, GetFileRight DEF StorageInv
      <4> QED
        BY <3>2, <4>1, <4>2 DEF Found
    <3> QED
      BY <3>1, <3>2
  <2>4. /\ UNCHANGED <<copies, plugged>>
        /\ \/ (cache' = c \/ cache' = d) /\ UNCHANGED <<object, used>>
           \/ /\ Len(path) = 1 \/ IsFolder(q)
              /\ Create(Last(path), q, TRUE)
              /\ cache' = [d EXCEPT ![path] = used + 1]
    BY <1>2, <2>1 DEF CreateFolder
  <2>5. CASE (cache' = c \/ cache' = d) /\ UNCHANGED <<object, used>>
    BY <2>2, <2>3, <2>4, <2>5, LookupKeeps DEF Served, Exists
  <2>6. CASE /\ Len(path) = 1 \/ IsFolder(q)
             /\ Create(Last(path), q, TRUE)
             /\ cache' = [d EXCEPT ![path] = used + 1]
    <3>1. \/ Len(path) = 1 /\ q = Root
          \/ Len(path) # 1 /\ q \in Id /\ Exists(q) /\ IsFolder(q) /\ IsAt(q, Front(path))
      BY <2>3, <2>6, NoSuchId DEF IsFolder
    <3>2. q = Root \/ (q \in Id /\ IsFolder(q) /\ InRoot(q))
      BY <3>1, DirectoryInRoot DEF StorageInv
    <3>3. /\ ObjectInv' /\ Evolves /\ \A i \in Id : i <= used => object'[i] = object[i]
          /\ \E k \in Id : /\ k = used + 1 /\ used' = k /\ Exists(k)'
                           /\ object'[k].name = Last(path) /\ object'[k].parent = q
      <4>1. PICK n \in Name : n = Last(path)
        BY PathFacts
      <4>2. PICK yes \in BOOLEAN : yes = TRUE
        OBVIOUS
      <4>3. Create(n, q, yes)
        BY <2>6, <4>1, <4>2
      <4> QED
        BY <3>2, <4>1, <4>3, Creation DEF StorageInv
    <3>4. PICK k \in Id : /\ k = used + 1 /\ used' = k /\ Exists(k)'
                          /\ object'[k].name = Last(path) /\ object'[k].parent = q
      BY <3>3
    <3>5. IsAt(k, path)'
      BY <3>1, <3>3, <3>4, CreatedIsAt DEF StorageInv
    <3>6. Faithful(d)'
      <4>1. \A p \in Path : d[p] \in 0 .. used
        BY <2>3 DEF Faithful
      <4>2. \A p \in Path : Exists(d[p])' => object'[d[p]].name = object[d[p]].name
        BY <3>3, <4>1 DEF Exists
      <4> QED
        BY <2>3, <3>3, <4>2, FaithfulKept DEF StorageInv
    <3>7. Faithful(cache)'
      <4>1. cache' = [d EXCEPT ![path] = k] /\ k \in 0 .. used'
        BY <2>6, <3>4, IdAssumption DEF Id
      <4> QED
        BY <3>5, <3>6, <4>1, CacheEntry
    <3>8. \A i \in Id : Exists(i) => Exists(i)'
      BY <3>3 DEF Exists, StorageInv, ObjectInv
    <3> QED
      BY <2>4, <3>3, <3>7, <3>8 DEF Served, StorageInv
  <2> QED
    BY <2>4, <2>5, <2>6
<1> QED
  BY <1>1, <1>2

-----------------------------------------------------------------------------
(* The jobs of the workers                                                 *)

Pc == {"idle", "check", "delete", "setName", "mkdir", "send", "open", "meta", "fetch", "wait", "list", "entries"}
JobType ==
  [pc : Pc, op : OpName \cup {"none"}, path : Path \cup {<< >>}, dest : Path \cup {<< >>}, overwrite : BOOLEAN, job : Nat,
   ids : SUBSET Id, signals : Seq({0, 1}), done : BOOLEAN, foreign : BOOLEAN, lost : BOOLEAN, result : {"none", "pass", "fail"}]

(* A job under way has a number of its own and no result; it deletes only  *)
(* what it was told to; a signal that is not of a foreign copy is of its   *)
(* own, which is done if the signal says so.                               *)
JobSelf(j) ==
  /\ j \in JobType /\ j.job <= started
  /\ j.pc # "idle" =>
       /\ j.path \in Path /\ j.dest \in Path /\ j.job \in 1 .. started /\ j.result = "none"
       /\ j.pc = "delete" => j.op = "del" \/ j.overwrite
       /\ \A k \in DOMAIN j.signals : j.signals[k] = 0 /\ ~j.foreign => j.done

(* What a job relies on: a job without its storage knows that it was       *)
(* unplugged, a job that waits has something to wait for, and what was in  *)
(* a directory when it was listed stays in it.                             *)
JobThere(j) ==
  j.pc # "idle" =>
    /\ ~plugged => j.lost
    /\ j.pc = "wait" /\ ~j.lost => j.signals # << >> \/ \E k \in DOMAIN copies : copies[k].job = j.job
    /\ j.pc = "entries" => \A i \in j.ids : i <= used /\ (Exists(i) => Place(object[i].parent, j.path))

CopiesInv == copies \in Seq(CopyType) /\ \A k \in DOMAIN copies : ToInv(copies[k].to) /\ copies[k].job \in 1 .. started

Inv ==
  /\ StorageInv /\ CopiesInv /\ started \in Nat /\ plugged \in BOOLEAN
  /\ wk \in [Worker -> JobType] /\ \A w \in Worker : JobSelf(wk[w]) /\ JobThere(wk[w])

LEMMA ToKept ==
  ASSUME ObjectInv, ObjectInv', Evolves, NEW to, ToInv(to)
  PROVE  ToInv(to)'
<1> SUFFICES ASSUME to \in Id PROVE to <= used' /\ (Exists(to)' => InRoot(to)')
  BY DEF ToInv, Id
<1>1. to <= used /\ (Exists(to) => InRoot(to))
  BY DEF ToInv
<1>2. to <= used'
  BY <1>1 DEF Evolves, ObjectInv, Id
<1> QED
  BY <1>1, <1>2, PathsKept

LEMMA CopiesKept ==
  ASSUME StorageInv, CopiesInv, Served, started \in Nat, started' = started
  PROVE  CopiesInv' /\ \A k \in DOMAIN copies : k \in DOMAIN copies' /\ copies'[k] = copies[k]
<1>1. ObjectInv /\ ObjectInv' /\ Evolves
  BY DEF StorageInv, Served
<1>2. ASSUME NEW k \in DOMAIN copies, NEW d, d = copies[k].to PROVE ToInv(d)'
  <2>1. ToInv(d)
    BY <1>2 DEF CopiesInv
  <2> QED
    BY <1>1, <2>1, ToKept
<1>3. CASE copies' = copies
  BY <1>2, <1>3 DEF CopiesInv, ToInv, Exists, InRoot, Id, Root
<1>4. CASE \E c : CopyOk(c) /\ copies' = Append(copies, c)
  <2>1. PICK c : CopyOk(c) /\ copies' = Append(copies, c)
    BY <1>4
  <2>2. c \in CopyType /\ ToInv(c.to)' /\ c.job \in 1 .. started'
    BY <1>1, <2>1, ToKept DEF CopyOk
  <2>3. /\ copies' \in Seq(CopyType) /\ DOMAIN copies' = 1 .. Len(copies) + 1 /\ DOMAIN copies = 1 .. Len(copies)
        /\ copies'[Len(copies) + 1] = c /\ \A k \in 1 .. Len(copies) : copies'[k] = copies[k]
    BY <2>1, <2>2 DEF CopiesInv
  <2>4. ASSUME NEW k \in DOMAIN copies', NEW d, d = copies'[k] PROVE ToInv(d.to)' /\ d.job \in 1 .. started'
    <3>1. CASE k \in DOMAIN copies
      BY <1>2, <2>3, <2>4, <3>1 DEF CopiesInv
    <3>2. CASE k \notin DOMAIN copies
      <4>1. d = c
        BY <2>3, <2>4, <3>2 DEF CopiesInv
      <4> QED
        BY <2>2, <4>1
    <3> QED
      BY <3>1, <3>2
  <2>5. CopiesInv'
    BY <2>3, <2>4 DEF CopiesInv, ToInv, Exists, InRoot, Id, Root, CopyType
  <2> QED
    BY <2>3, <2>5
<1> QED
  BY <1>3, <1>4 DEF Served

LEMMA EntriesKept ==
  ASSUME ObjectInv, ObjectInv', Evolves, NEW i \in Id, NEW dir, i <= used, Exists(i) => Place(object[i].parent, dir)
  PROVE  i <= used' /\ (Exists(i)' => Place(object[i].parent, dir)')
<1>1. i <= used'
  BY DEF Evolves, ObjectInv, Id
<1>2. Exists(i)' => Exists(i)
  BY DEF Evolves
<1> QED
  BY <1>1, <1>2, PlacesKept

LEMMA ThereKept ==
  ASSUME StorageInv, CopiesInv, Served, started \in Nat, started' = started, NEW j, j \in JobType, JobThere(j)
  PROVE  JobThere(j)'
<1> SUFFICES ASSUME j.pc # "idle" PROVE JobThere(j)'
  BY DEF JobThere
<1>1. ~plugged' => j.lost
  BY DEF JobThere, Served
<1>2. j.pc = "wait" /\ ~j.lost => j.signals # << >> \/ \E k \in DOMAIN copies' : copies'[k].job = j.job
  BY CopiesKept DEF JobThere
<1>3. ASSUME j.pc = "entries", NEW i \in j.ids PROVE i <= used' /\ (Exists(i)' => Place(object[i].parent, j.path)')
  <2>1. i \in Id /\ i <= used /\ (Exists(i) => Place(object[i].parent, j.path))
    BY <1>3 DEF JobThere, JobType
  <2> QED
    BY <2>1, EntriesKept DEF StorageInv, Served
<1> QED
  BY <1>1, <1>2, <1>3 DEF JobThere

-----------------------------------------------------------------------------
(* The steps of a worker                                                   *)

LEMMA WorkerStep ==
  ASSUME Inv, Served, started' = started, NEW w \in Worker, NEW j, wk' = [wk EXCEPT ![w] = j], JobSelf(j), JobThere(j)'
  PROVE  Inv'
<1>1. StorageInv' /\ CopiesInv' /\ started' \in Nat /\ plugged' \in BOOLEAN
  BY CopiesKept DEF Inv, Served
<1>2. j \in JobType
  BY DEF JobSelf
<1>3. wk' \in [Worker -> JobType]
  BY <1>2 DEF Inv
<1>4. ASSUME NEW v \in Worker, NEW i, i = wk'[v] PROVE JobSelf(i)' /\ JobThere(i)'
  <2>1. JobSelf(i) => JobSelf(i)'
    BY DEF JobSelf, JobType, Path, Id
  <2>2. CASE v = w
    <3>1. i = j
      BY <1>4, <2>2 DEF Inv
    <3> QED
      BY <2>1, <3>1
  <2>3. CASE v # w
    <3>1. i = wk[v]
      BY <1>4, <2>3 DEF Inv
    <3>2. JobSelf(i) /\ JobThere(i) /\ i \in JobType
      BY <3>1 DEF Inv
    <3> QED
      BY <2>1, <3>2, ThereKept DEF Inv
  <2> QED
    BY <2>2, <2>3
<1>5. \A v \in Worker : JobSelf(wk[v])'
  <2>1. JobType' = JobType /\ Path' = Path
    BY DEF JobType, Path, Id
  <2> QED
    BY <1>4, <2>1 DEF JobSelf
<1>6. \A v \in Worker : JobThere(wk[v])'
  BY SMTT(60), <1>4 DEF JobThere, Place, Exists, IsAt, PathOf, Path, Id, Root
<1> QED
  BY <1>1, <1>3, <1>5, <1>6 DEF Inv, JobType, Path, Id

LEMMA FinishStep ==
  ASSUME Inv, Served, started' = started, NEW w \in Worker, NEW r \in {"pass", "fail"}, Finish(w, r)
  PROVE  Inv'
<1> DEFINE j == [Idle EXCEPT !.result = r]
<1>1. j \in JobType /\ j.pc = "idle" /\ j.job = 0
  <2>1. << >> \in Seq({0, 1})
    OBVIOUS
  <2> QED
    BY <2>1 DEF Idle, JobType, Pc
<1>2. wk' = [wk EXCEPT ![w] = j]
  BY DEF Finish
<1> HIDE DEF j
<1>3. JobSelf(j)
  BY <1>1 DEF JobSelf, Inv
<1>4. JobThere(j)'
  BY <1>1 DEF JobThere
<1> QED
  BY <1>2, <1>3, <1>4, WorkerStep

(* A job at its next step.                                                 *)
LEMMA NextJob ==
  ASSUME Inv, NEW w \in Worker, wk[w].pc # "idle", NEW pc \in Pc \ {"idle"},
         pc = "delete" => wk[w].op = "del" \/ wk[w].overwrite, Goto(w, pc)
  PROVE  \E j : /\ wk' = [wk EXCEPT ![w] = j] /\ JobSelf(j) /\ j.pc = pc
                /\ j.lost = wk[w].lost /\ j.job = wk[w].job
<1> PICK old : old = wk[w]
  OBVIOUS
<1> DEFINE j == [old EXCEPT !.pc = pc]
<1>1. old \in JobType /\ JobSelf(old) /\ old.pc # "idle"
  BY DEF Inv
<1>2. /\ j \in JobType /\ j.pc = pc /\ j.op = old.op /\ j.path = old.path /\ j.dest = old.dest /\ j.overwrite = old.overwrite
      /\ j.job = old.job /\ j.signals = old.signals /\ j.done = old.done /\ j.foreign = old.foreign /\ j.lost = old.lost
      /\ j.result = old.result
  BY <1>1 DEF JobType
<1>3. wk' = [wk EXCEPT ![w] = j]
  BY DEF Goto
<1> HIDE DEF j
<1>4. JobSelf(j)
  BY <1>1, <1>2 DEF JobSelf
<1> QED
  BY <1>2, <1>3, <1>4

LEMMA GotoStep ==
  ASSUME Inv, Served, started' = started, NEW w \in Worker, wk[w].pc # "idle", NEW pc \in Pc \ {"idle", "wait", "entries"},
         pc = "delete" => wk[w].op = "del" \/ wk[w].overwrite, Goto(w, pc)
  PROVE  Inv'
<1>1. PICK j : wk' = [wk EXCEPT ![w] = j] /\ JobSelf(j) /\ j.pc = pc /\ j.lost = wk[w].lost
  BY NextJob
<1>2. ~plugged' => j.lost
  BY <1>1 DEF Inv, JobThere, Served
<1>3. JobThere(j)'
  BY <1>1, <1>2 DEF JobThere
<1> QED
  BY <1>1, <1>3, WorkerStep

(* A worker begins to wait for the copy it has posted, or for nothing when *)
(* the daemon does not serve the storage any more.                         *)
LEMMA WaitStep ==
  ASSUME Inv, Served, started' = started, NEW w \in Worker, wk[w].pc # "idle", Goto(w, "wait"),
         ~plugged \/ \E c : CopyOk(c) /\ c.job = wk[w].job /\ copies' = Append(copies, c)
  PROVE  Inv'
<1>1. PICK j : wk' = [wk EXCEPT ![w] = j] /\ JobSelf(j) /\ j.pc = "wait" /\ j.lost = wk[w].lost /\ j.job = wk[w].job
  <2>1. PICK pc : pc = "wait"
    OBVIOUS
  <2>2. pc \in Pc \ {"idle"} /\ pc # "delete" /\ Goto(w, pc)
    BY <2>1 DEF Pc
  <2> QED
    BY <2>1, <2>2, NextJob
<1>2. (~plugged' => j.lost) /\ (~plugged => j.lost)
  BY <1>1 DEF Inv, JobThere, Served
<1>3. ASSUME plugged PROVE \E k \in DOMAIN copies' : copies'[k].job = j.job
  <2>1. PICK c : CopyOk(c) /\ c.job = j.job /\ copies' = Append(copies, c)
    BY <1>1, <1>3
  <2>2. Len(copies) + 1 \in DOMAIN copies' /\ copies'[Len(copies) + 1] = c
    BY <2>1 DEF Inv, CopiesInv, CopyOk
  <2> QED
    BY <2>1, <2>2
<1>4. JobThere(j)'
  BY <1>1, <1>2, <1>3 DEF JobThere
<1> QED
  BY <1>1, <1>4, WorkerStep

-----------------------------------------------------------------------------
(* The actions                                                             *)

Keeps == \A i \in Id : Exists(i) => Exists(i)'

LEMMA Working ==
  ASSUME Inv, NEW w \in Worker, wk[w].pc # "idle"
  PROVE  /\ StorageInv /\ started \in Nat /\ wk[w].path \in Path /\ wk[w].dest \in Path /\ Target(wk[w]) \in Path
         /\ wk[w].job \in 1 .. started /\ wk[w].result = "none"
BY DEF Inv, JobSelf, Target

LEMMA CheckStep ==
  ASSUME Inv, NEW w \in Worker, CheckDestination(w)
  PROVE  Inv' /\ Keeps
<1>1. wk[w].pc = "check" /\ started' = started
  BY DEF CheckDestination, At, Others
<1>2. PICK path \in Path : path = Target(wk[w])
  BY <1>1, Working
<1>3. PICK file : /\ GetFileMetadata(path, file)
                  /\ \/ file = NoItem /\ Goto(w, IF wk[w].op = "rename" THEN "setName" ELSE "send")
                     \/ file # NoItem /\ MayReplace(wk[w]) /\ Goto(w, "delete")
                     \/ file # NoItem /\ ~MayReplace(wk[w]) /\ Finish(w, "fail")
  BY <1>2 DEF CheckDestination
<1>4. Served /\ UNCHANGED object
  BY <1>2, <1>3, MetadataServes DEF Inv
<1>5. CASE Goto(w, IF wk[w].op = "rename" THEN "setName" ELSE "send")
  <2>1. PICK pc \in {"setName", "send"} : Goto(w, pc)
    BY <1>5
  <2>2. pc \in Pc \ {"idle", "wait", "entries"} /\ pc # "delete"
    BY <2>1 DEF Pc
  <2> QED
    BY <1>1, <1>4, <2>1, <2>2, GotoStep DEF Keeps, Exists
<1>6. CASE MayReplace(wk[w]) /\ Goto(w, "delete")
  <2>1. "delete" \in Pc \ {"idle", "wait", "entries"} /\ wk[w].overwrite
    BY <1>6 DEF Pc, MayReplace
  <2> QED
    BY <1>1, <1>4, <1>6, <2>1, GotoStep DEF Keeps, Exists
<1>7. CASE Finish(w, "fail")
  BY <1>1, <1>4, <1>7, FinishStep DEF Keeps, Exists
<1> QED
  BY <1>3, <1>5, <1>6, <1>7

LEMMA DeleteStep ==
  ASSUME Inv, NEW w \in Worker, Delete(w)
  PROVE  /\ Inv'
         /\ \A i \in Id : Exists(i) /\ ~Exists(i)' =>
              \E f \in Id : Exists(f) /\ IsAt(f, Target(wk[w])) /\ (i = f \/ i \in Children(f))
<1>1. wk[w].pc = "delete" /\ started' = started
  BY DEF Delete, At, Others
<1>2. PICK path \in Path : path = Target(wk[w])
  BY <1>1, Working
<1>3. PICK result \in {0, 1} :
        /\ DeleteObject(path, result)
        /\ CASE result = 1        -> Finish(w, "fail")
             [] wk[w].op = "del"  -> Finish(w, "pass")
             [] wk[w].op = "rename" -> Goto(w, "setName")
             [] OTHER             -> Goto(w, "send")
  BY <1>2 DEF Delete
<1>4. /\ Served
      /\ \A i \in Id : Exists(i) /\ ~Exists(i)' =>
           \E f \in Id : Exists(f) /\ IsAt(f, path) /\ (i = f \/ i \in Children(f))
  BY <1>2, <1>3, DeleteServes DEF Inv
<1>5. Finish(w, "fail") \/ Finish(w, "pass") \/ Goto(w, "setName") \/ Goto(w, "send")
  <2>1. CASE result = 1
    BY <1>3, <2>1
  <2>2. CASE result # 1 /\ wk[w].op = "del"
    BY <1>3, <2>2
  <2>3. CASE result # 1 /\ wk[w].op = "rename"
    BY <1>3, <2>3
  <2>4. CASE result # 1 /\ wk[w].op # "del" /\ wk[w].op # "rename"
    BY <1>3, <2>4
  <2> QED
    BY <2>1, <2>2, <2>3, <2>4
<1>6. Inv'
  <2>1. {"setName", "send"} \subseteq Pc \ {"idle", "wait", "entries"}
    BY DEF Pc
  <2> QED
    BY <1>1, <1>4, <1>5, <2>1, GotoStep, FinishStep
<1> QED
  BY <1>2, <1>4, <1>6

LEMMA SetNameStep ==
  ASSUME Inv, NEW w \in Worker, SetName(w)
  PROVE  Inv' /\ Keeps
<1>1. wk[w].pc = "setName" /\ started' = started
  BY DEF SetName, At, Others
<1>2. PICK path \in Path, n \in Name : path = wk[w].path /\ n = Last(wk[w].dest)
  BY <1>1, Working, PathFacts
<1>3. PICK result \in {0, 1} : SetFileName(path, n, result) /\ Finish(w, IF result = 0 THEN "pass" ELSE "fail")
  BY <1>2 DEF SetName
<1>4. Served /\ Keeps
  BY <1>2, <1>3, RenameServes DEF Inv, Keeps
<1>5. PICK r \in {"pass", "fail"} : Finish(w, r)
  BY <1>3
<1> QED
  BY <1>1, <1>4, <1>5, FinishStep

LEMMA MkdirStep ==
  ASSUME Inv, NEW w \in Worker, Mkdir(w)
  PROVE  Inv' /\ Keeps
<1>1. wk[w].pc = "mkdir" /\ started' = started
  BY DEF Mkdir, At, Others
<1>2. PICK path \in Path : path = wk[w].path
  BY <1>1, Working
<1>3. PICK result : CreateFolder(path, result) /\ Finish(w, IF result = "created" THEN "pass" ELSE "fail")
  BY <1>2 DEF Mkdir
<1>4. Served /\ Keeps
  BY <1>2, <1>3, FolderServes DEF Inv, Keeps
<1>5. PICK r \in {"pass", "fail"} : Finish(w, r)
  BY <1>3
<1> QED
  BY <1>1, <1>4, <1>5, FinishStep

LEMMA SendStep ==
  ASSUME Inv, NEW w \in Worker, Send(w)
  PROVE  Inv' /\ Keeps
<1>1. wk[w].pc = "send" /\ started' = started
  BY DEF Send, At, Others
<1>2. PICK path \in Path, job \in 1 .. started : path = wk[w].path /\ job = wk[w].job
  BY <1>1, Working
<1>3. PICK result : SendFile(path, job, result) /\ IF result = 0 THEN Goto(w, "wait") ELSE Finish(w, "fail")
  BY <1>2 DEF Send
<1>4. /\ Served /\ UNCHANGED object
      /\ result = 0 => ~plugged \/ \E c : CopyOk(c) /\ c.job = job /\ copies' = Append(copies, c)
  BY <1>2, <1>3, SendServes DEF Inv
<1>5. CASE result = 0
  BY <1>1, <1>2, <1>3, <1>4, <1>5, WaitStep DEF Keeps, Exists
<1>6. CASE result # 0
  BY <1>1, <1>3, <1>4, <1>6, FinishStep DEF Keeps, Exists
<1> QED
  BY <1>5, <1>6

LEMMA FetchStep ==
  ASSUME Inv, NEW w \in Worker, Fetch(w)
  PROVE  Inv' /\ Keeps
<1>1. wk[w].pc = "fetch" /\ started' = started
  BY DEF Fetch, At, Others
<1>2. PICK path \in Path, job \in 1 .. started, fd \in Worker \cup {Absent} :
        path = wk[w].path /\ job = wk[w].job /\ fd = (IF wk[w].op = "copyFrom" THEN w ELSE Absent)
  BY <1>1, Working
<1>3. PICK result : GetFile(path, job, fd, result) /\ IF result = 0 THEN Goto(w, "wait") ELSE Finish(w, "fail")
  BY <1>2 DEF Fetch
<1>4. /\ Served /\ UNCHANGED object
      /\ result = 0 => ~plugged \/ \E c : CopyOk(c) /\ c.job = job /\ copies' = Append(copies, c)
  <2>1. GetFile(path, job, fd, result) /\ StorageInv /\ started \in Nat
    BY <1>3 DEF Inv
  <2> QED
    BY <2>1, GetFileServes
<1>5. CASE result = 0
  BY <1>1, <1>2, <1>3, <1>4, <1>5, WaitStep DEF Keeps, Exists
<1>6. CASE result # 0
  BY <1>1, <1>3, <1>4, <1>6, FinishStep DEF Keeps, Exists
<1> QED
  BY <1>5, <1>6

LEMMA NothingServes == ASSUME Inv, UNCHANGED storageVars PROVE Served /\ Keeps
<1>1. UNCHANGED <<object, used>> /\ cache' = cache /\ copies' = copies /\ plugged' = plugged
  BY DEF storageVars
<1>2. PICK c : c = cache
  OBVIOUS
<1>3. StorageInv' /\ Evolves
  BY <1>1, <1>2, LookupKeeps DEF Inv, StorageInv
<1> QED
  BY <1>1, <1>3 DEF Served, Keeps, Exists

LEMMA SimpleSteps ==
  ASSUME Inv, NEW w \in Worker, SourceUnreadable(w) \/ OpenLocal(w) \/ WaitForCopyOperation(w)
  PROVE  Inv' /\ Keeps
<1>1. UNCHANGED storageVars /\ started' = started /\ wk[w].pc # "idle"
  BY DEF SourceUnreadable, OpenLocal, WaitForCopyOperation, Others, At
<1>2. Served /\ Keeps
  BY <1>1, NothingServes
<1>3. Goto(w, "meta") \/ \E r \in {"pass", "fail"} : Finish(w, r)
  BY DEF SourceUnreadable, OpenLocal, WaitForCopyOperation, Outcome
<1>4. "meta" \in Pc \ {"idle", "wait", "entries"}
  BY DEF Pc
<1> QED
  BY <1>1, <1>2, <1>3, <1>4, GotoStep, FinishStep

LEMMA SourceStep ==
  ASSUME Inv, NEW w \in Worker, SourceMetadata(w)
  PROVE  Inv' /\ Keeps
<1>1. wk[w].pc = "meta" /\ started' = started
  BY DEF SourceMetadata, At, Others
<1>2. PICK path \in Path : path = wk[w].path
  BY <1>1, Working
<1>3. PICK file : /\ GetFileMetadata(path, file)
                  /\ CASE file = NoItem       -> Finish(w, "fail")
                       [] wk[w].op = "stat"   -> Finish(w, "pass")
                       [] OTHER               -> Goto(w, "fetch")
  BY <1>2 DEF SourceMetadata
<1>4. Served /\ UNCHANGED object
  BY <1>2, <1>3, MetadataServes DEF Inv
<1>5. Finish(w, "fail") \/ Finish(w, "pass") \/ Goto(w, "fetch")
  <2>1. CASE file = NoItem
    BY <1>3, <2>1
  <2>2. CASE file # NoItem /\ wk[w].op = "stat"
    BY <1>3, <2>2
  <2>3. CASE file # NoItem /\ wk[w].op # "stat"
    BY <1>3, <2>3
  <2> QED
    BY <2>1, <2>2, <2>3
<1>6. "fetch" \in Pc \ {"idle", "wait", "entries"}
  BY DEF Pc
<1> QED
  BY <1>1, <1>4, <1>5, <1>6, GotoStep, FinishStep DEF Keeps, Exists

LEMMA ListStep ==
  ASSUME Inv, NEW w \in Worker, List(w)
  PROVE  Inv' /\ Keeps
<1>1. wk[w].pc = "list" /\ started' = started
  BY DEF List, At, Others
<1>2. PICK path \in Path : path = wk[w].path
  BY <1>1, Working
<1>3. PICK result \in {0, 1}, ids \in SUBSET Id :
        /\ GetFilesAndFolders2(path, result, ids)
        /\ IF result = 0 THEN wk' = [wk EXCEPT ![w].pc = "entries", ![w].ids = ids] ELSE Finish(w, "fail")
  BY <1>2 DEF List
<1>4. Served /\ UNCHANGED object /\ \A i \in ids : i <= used /\ Place(object[i].parent, path)
  BY <1>2, <1>3, ListServes DEF Inv
<1>5. CASE result # 0
  BY <1>1, <1>3, <1>4, <1>5, FinishStep DEF Keeps, Exists
<1>6. CASE result = 0
  <2> PICK old : old = wk[w]
    OBVIOUS
  <2> DEFINE j == [old EXCEPT !.pc = "entries", !.ids = ids]
  <2>1. old \in JobType /\ JobSelf(old) /\ JobThere(old) /\ old.pc # "idle" /\ old.path = path
    BY <1>1, <1>2 DEF Inv
  <2>2. /\ j \in JobType /\ j.pc = "entries" /\ j.ids = ids /\ j.path = old.path /\ j.dest = old.dest /\ j.lost = old.lost
        /\ j.job = old.job /\ j.signals = old.signals /\ j.done = old.done /\ j.foreign = old.foreign /\ j.result = old.result
    BY <2>1 DEF JobType, Pc
  <2>3. wk' = [wk EXCEPT ![w] = j]
    BY <1>3, <1>6
  <2> HIDE DEF j
  <2>4. JobSelf(j)
    BY <2>1, <2>2 DEF JobSelf
  <2>5. \A i \in ids : i <= used' /\ (Exists(i)' => Place(object[i].parent, path)')
    BY <1>4, EntriesKept DEF Inv, StorageInv, Served
  <2>6. ~plugged' => j.lost
    BY <1>4, <2>1, <2>2 DEF JobThere, Served
  <2>7. JobThere(j)'
    BY <2>1, <2>2, <2>5, <2>6 DEF JobThere
  <2> QED
    BY <1>1, <1>4, <2>3, <2>4, <2>7, WorkerStep DEF Keeps, Exists
<1> QED
  BY <1>5, <1>6

LEMMA ListerStep ==
  ASSUME Inv, NEW w \in Worker, ListerRun(w)
  PROVE  Inv' /\ Keeps
<1> PICK old : old = wk[w]
  OBVIOUS
<1>1. /\ old.pc = "entries" /\ started' = started /\ UNCHANGED <<object, used>> /\ copies' = copies /\ plugged' = plugged
  BY DEF ListerRun, At, Others
<1>2. old \in JobType /\ JobSelf(old) /\ JobThere(old) /\ StorageInv /\ old.path \in Path
  BY <1>1 DEF Inv, JobSelf
<1>3. /\ cache' = cache \/ \E i \in old.ids : Exists(i) /\ cache' = AddPaths(cache, old.path, {i})
      /\ Finish(w, "pass") \/ \E ids \in SUBSET old.ids : wk' = [wk EXCEPT ![w].ids = ids]
  BY DEF ListerRun
<1>4. Served
  <2>1. PICK c : c = cache'
    OBVIOUS
  <2>2. Faithful(c)
    <3>1. CASE c = cache
      BY <1>2, <3>1 DEF StorageInv
    <3>2. CASE \E i \in old.ids : Exists(i) /\ c = AddPaths(cache, old.path, {i})
      <4>1. PICK i \in old.ids : Exists(i) /\ c = AddPaths(cache, old.path, {i})
        BY <3>2
      <4>2. i \in Id /\ Place(object[i].parent, old.path)
        BY <1>1, <1>2, <4>1 DEF JobThere, JobType
      <4>3. i \in Children(object[i].parent)
        BY <4>1, <4>2 DEF Children
      <4>4. IsAt(i, Append(old.path, object[i].name))
        BY <1>2, <4>2, <4>3, ChildrenAreThere DEF StorageInv
      <4>5. {i} \in SUBSET Id /\ \A k \in {i} : Exists(k) /\ IsAt(k, Append(old.path, object[k].name))
        BY <4>1, <4>2, <4>4
      <4>6. Faithful(cache) /\ ObjectInv
        BY <1>2 DEF StorageInv
      <4> HIDE DEF Faithful
      <4>7. Faithful(AddPaths(cache, old.path, {i}))
        BY <4>5, <4>6, AddPathsRight
      <4> QED
        BY <4>1, <4>7
    <3> QED
      BY <1>3, <2>1, <3>1, <3>2
  <2>3. StorageInv' /\ Evolves
    BY <1>1, <1>2, <2>1, <2>2, LookupKeeps
  <2> QED
    BY <1>1, <2>3 DEF Served
<1>5. Keeps
  BY <1>1 DEF Keeps, Exists
<1>6. CASE Finish(w, "pass")
  BY <1>1, <1>4, <1>5, <1>6, FinishStep
<1>7. CASE \E ids \in SUBSET old.ids : wk' = [wk EXCEPT ![w].ids = ids]
  <2>1. PICK ids \in SUBSET old.ids : wk' = [wk EXCEPT ![w].ids = ids]
    BY <1>7
  <2> DEFINE j == [old EXCEPT !.ids = ids]
  <2>2. /\ j \in JobType /\ j.pc = "entries" /\ j.ids = ids /\ j.path = old.path /\ j.dest = old.dest /\ j.lost = old.lost
        /\ j.job = old.job /\ j.signals = old.signals /\ j.done = old.done /\ j.foreign = old.foreign /\ j.result = old.result
    BY <1>1, <1>2 DEF JobType
  <2>3. wk' = [wk EXCEPT ![w] = j]
    BY <2>1
  <2> HIDE DEF j
  <2>4. JobSelf(j)
    BY <1>1, <1>2, <2>2 DEF JobSelf
  <2>5. JobThere(old)'
    BY <1>2, <1>4, <1>1, ThereKept DEF Inv
  <2>6. JobThere(j)'
    BY <1>1, <2>2, <2>5 DEF JobThere
  <2> QED
    BY <1>1, <1>4, <1>5, <2>3, <2>4, <2>6, WorkerStep
<1> QED
  BY <1>3, <1>6, <1>7

LEMMA StartStep ==
  ASSUME Inv, NEW w \in Worker, Start(w)
  PROVE  Inv' /\ Keeps
<1>1. UNCHANGED storageVars /\ started' = started + 1 /\ started \in Nat
  BY DEF Start, Inv
<1>2. Served /\ Keeps
  BY <1>1, NothingServes
<1>3. PICK op \in Ops, path \in Path, dest \in Path, overwrite \in BOOLEAN : \E j :
        /\ wk' = [wk EXCEPT ![w] = j]
        /\ \/ j = [Idle EXCEPT !.result = "fail"]
           \/ /\ plugged
              /\ j = [Idle EXCEPT !.pc = FirstStep(op), !.op = op, !.path = path, !.dest = dest,
                                  !.overwrite = overwrite, !.job = started + 1]
  BY DEF Start
<1>4. PICK j :
        /\ wk' = [wk EXCEPT ![w] = j]
        /\ \/ j = [Idle EXCEPT !.result = "fail"]
           \/ /\ plugged
              /\ j = [Idle EXCEPT !.pc = FirstStep(op), !.op = op, !.path = path, !.dest = dest,
                                  !.overwrite = overwrite, !.job = started + 1]
  BY <1>3
<1>5. << >> \in Seq({0, 1})
  OBVIOUS
<1>6. JobSelf(j)' /\ JobThere(j)' /\ j \in JobType
  <2>1. JobType' = JobType /\ Path' = Path
    BY DEF JobType, Path, Id
  <2>2. CASE j = [Idle EXCEPT !.result = "fail"]
    <3>1. j \in JobType /\ j.pc = "idle" /\ j.job = 0
      BY <1>5, <2>2 DEF Idle, JobType, Pc
    <3> QED
      BY <1>1, <2>1, <3>1 DEF JobSelf, JobThere
  <2>3. CASE plugged /\ j = [Idle EXCEPT !.pc = FirstStep(op), !.op = op, !.path = path, !.dest = dest,
                                         !.overwrite = overwrite, !.job = started + 1]
    <3>1. PICK pc : pc = FirstStep(op)
      OBVIOUS
    <3>2. pc \in Pc \ {"idle", "wait", "entries"} /\ (pc = "delete" => op = "del")
      BY <3>1, JobAssumption DEF FirstStep, OpName, Pc
    <3>3. PICK number : number = started + 1
      OBVIOUS
    <3>4. /\ j.pc = pc /\ j.op = op /\ j.path = path /\ j.dest = dest /\ j.overwrite = overwrite /\ j.job = number
          /\ j.ids = {} /\ j.signals = << >> /\ j.done = FALSE /\ j.foreign = FALSE /\ j.lost = FALSE /\ j.result = "none"
          /\ j = [pc |-> pc, op |-> op, path |-> path, dest |-> dest, overwrite |-> overwrite, job |-> number, ids |-> {},
                  signals |-> << >>, done |-> FALSE, foreign |-> FALSE, lost |-> FALSE, result |-> "none"]
      BY <2>3, <3>1, <3>3 DEF Idle
    <3>5. j \in JobType
      BY <1>1, <1>5, <3>2, <3>3, <3>4, JobAssumption DEF JobType
    <3>6. JobSelf(j)'
      BY <1>1, <2>1, <3>2, <3>3, <3>4, <3>5 DEF JobSelf
    <3>7. JobThere(j)'
      BY <1>2, <2>3, <3>2, <3>4 DEF JobThere, Served
    <3> QED
      BY <3>5, <3>6, <3>7
  <2> QED
    BY <1>4, <2>2, <2>3
<1>7. StorageInv' /\ plugged' = plugged /\ copies' = copies /\ UNCHANGED <<object, used>>
  BY <1>1, <1>2 DEF Served, storageVars
<1>8. CopiesInv'
  BY <1>1, <1>7 DEF Inv, CopiesInv, CopyType, ToInv, Exists, InRoot, Id, Root
<1>9. ASSUME NEW v \in Worker, NEW i, i = wk'[v] PROVE JobSelf(i)' /\ JobThere(i)' /\ i \in JobType
  <2>1. CASE v = w
    BY <1>4, <1>6, <1>9, <2>1 DEF Inv
  <2>2. CASE v # w
    <3>1. i = wk[v]
      BY <1>4, <1>9, <2>2 DEF Inv
    <3>2. JobSelf(i) /\ JobThere(i) /\ i \in JobType
      BY <3>1 DEF Inv
    <3>3. JobType' = JobType /\ Path' = Path
      BY DEF JobType, Path, Id
    <3>4. i.job \in Nat
      BY <3>2 DEF JobType
    <3>5. JobSelf(i)'
      BY <1>1, <3>2, <3>3, <3>4 DEF JobSelf
    <3>6. JobThere(i)'
      BY <1>7, <3>2 DEF JobThere, Place, Exists, IsAt, PathOf, Path, Id, Root
    <3> QED
      BY <3>2, <3>5, <3>6
  <2> QED
    BY <2>1, <2>2
<1>10. wk' \in [Worker -> JobType]
  BY <1>4, <1>6 DEF Inv
<1>11. \A v \in Worker : JobSelf(wk[v])'
  <2>1. JobType' = JobType /\ Path' = Path
    BY DEF JobType, Path, Id
  <2> QED
    BY <1>9, <2>1 DEF JobSelf
<1>12. \A v \in Worker : JobThere(wk[v])'
  BY SMTT(60), <1>9 DEF JobThere, Place, Exists, IsAt, PathOf, Path, Id, Root
<1> QED
  BY <1>1, <1>2, <1>7, <1>8, <1>10, <1>11, <1>12 DEF Inv, JobType, Path, Id

LEMMA JobsStep ==
  ASSUME Inv, StorageInv', CopiesInv', started' = started, plugged' \in BOOLEAN, wk' = [v \in Worker |-> wk'[v]],
         \A v \in Worker : \A i : i = wk'[v] => JobSelf(i) /\ JobThere(i)'
  PROVE  Inv'
<1>1. JobType' = JobType /\ Path' = Path
  BY DEF JobType, Path, Id
<1>2. \A v \in Worker : wk'[v] \in JobType
  BY DEF JobSelf
<1>3. wk' \in [Worker -> JobType]
  BY <1>2
<1>4. \A v \in Worker : JobSelf(wk[v])'
  BY <1>1 DEF JobSelf
<1>5. \A v \in Worker : JobThere(wk[v])'
  BY SMTT(60) DEF JobThere, Place, Exists, IsAt, PathOf, Path, Id, Root
<1> QED
  BY <1>1, <1>3, <1>4, <1>5 DEF Inv

(* The daemon carries out a copy.                                          *)
LEMMA RunCopyStep ==
  ASSUME Inv, RunCopy
  PROVE  Inv' /\ Keeps
<1>1. PICK c, rest : c = Head(copies) /\ rest = Tail(copies)
  OBVIOUS
<1>2. /\ copies \in Seq(CopyType) /\ copies # << >> /\ started \in Nat
      /\ started' = started /\ cache' = cache /\ plugged' = plugged /\ plugged
  BY DEF RunCopy, Inv, CopiesInv
<1>3. PICK result \in {0, 1} :
        /\ copies' = rest
        /\ \/ (c.to = Root \/ IsFolder(c.to)) /\ Create(c.name, c.to, FALSE)
           \/ UNCHANGED <<object, used>>
        /\ wk' = [w \in Worker |->
             IF ~InJob(w) THEN wk[w]
             ELSE [wk[w] EXCEPT !.signals = Append(@, result), !.done = @ \/ (wk[w].job = c.job /\ result = 0),
                                !.foreign = @ \/ wk[w].job # c.job]]
  BY <1>1 DEF RunCopy
<1>4. c \in CopyType /\ ToInv(c.to) /\ c.name \in Name
  <2>1. c = copies[1] /\ 1 \in DOMAIN copies /\ c \in CopyType
    BY <1>1, <1>2
  <2>2. c.name \in Name
    BY <2>1 DEF CopyType
  <2> QED
    BY <2>1, <2>2 DEF Inv, CopiesInv
<1>5. ObjectInv' /\ Evolves /\ Keeps /\ \A i \in Id : i <= used => object'[i] = object[i]
  <2>1. CASE UNCHANGED <<object, used>>
    BY <2>1, ObjectsSame DEF Inv, StorageInv, Keeps, Exists
  <2>2. CASE (c.to = Root \/ IsFolder(c.to)) /\ Create(c.name, c.to, FALSE)
    <3>1. PICK n, q, no : n = c.name /\ q = c.to /\ no = FALSE /\ n \in Name /\ no \in BOOLEAN
      BY <1>4
    <3>2. Create(n, q, no) /\ (q = Root \/ (q \in Id /\ IsFolder(q) /\ InRoot(q)))
      BY <1>4, <2>2, <3>1 DEF ToInv, IsFolder, Exists
    <3>3. ObjectInv' /\ Evolves /\ \A i \in Id : i <= used => object'[i] = object[i]
      BY <3>1, <3>2, Creation DEF Inv, StorageInv
    <3> QED
      BY <3>3 DEF Inv, StorageInv, ObjectInv, Keeps, Exists
  <2> QED
    BY <1>3, <2>1, <2>2
<1>6. StorageInv'
  <2>1. PICK known : known = cache
    OBVIOUS
  <2>2. \A p \in Path : Exists(known[p])' => object'[known[p]].name = object[known[p]].name
    BY <1>5, <2>1 DEF Inv, StorageInv, Faithful, Exists
  <2>3. Faithful(known)'
    BY <1>5, <2>1, <2>2, FaithfulKept DEF Inv, StorageInv
  <2> QED
    BY <1>2, <1>5, <2>1, <2>3 DEF StorageInv
<1>7. CopiesInv'
  <2>1. rest \in Seq(CopyType) /\ \A k \in DOMAIN rest : k + 1 \in DOMAIN copies /\ rest[k] = copies[k + 1]
    BY <1>1, <1>2
  <2>2. ASSUME NEW k \in DOMAIN rest, NEW d, d = rest[k].to PROVE ToInv(d)' /\ rest[k].job \in 1 .. started'
    <3>1. ToInv(d) /\ rest[k].job \in 1 .. started
      BY <2>1, <2>2 DEF Inv, CopiesInv
    <3> QED
      BY <1>2, <1>5, <3>1, ToKept DEF Inv, StorageInv
  <2>3. \A k \in DOMAIN copies' : ToInv(copies[k].to)' /\ copies'[k].job \in 1 .. started'
    BY <1>3, <2>2 DEF ToInv, Exists, InRoot, Id, Root
  <2>4. CopyType' = CopyType
    BY DEF CopyType
  <2> QED
    BY <1>3, <2>1, <2>3, <2>4 DEF CopiesInv
<1>8. ASSUME NEW v \in Worker, NEW j, j = wk'[v] PROVE JobSelf(j) /\ JobThere(j)'
  <2>1. PICK old : old = wk[v]
    OBVIOUS
  <2>2. old \in JobType /\ JobSelf(old) /\ JobThere(old)
    BY <2>1 DEF Inv
  <2>3. ASSUME NEW i \in old.ids, old.pc = "entries" PROVE i <= used' /\ (Exists(i)' => Place(object[i].parent, old.path)')
    <3>1. i \in Id /\ i <= used /\ (Exists(i) => Place(object[i].parent, old.path))
      BY <2>2, <2>3 DEF JobThere, JobType
    <3> QED
      BY <1>5, <3>1, EntriesKept DEF Inv, StorageInv
  <2>4. CASE old.pc = "idle"
    <3>1. j = old
      BY <1>3, <1>8, <2>1, <2>4 DEF InJob, At
    <3> QED
      BY <2>2, <2>4, <3>1 DEF JobThere
  <2>5. CASE old.pc # "idle"
    <3>1. PICK signals, done, foreign : /\ signals = Append(old.signals, result)
                                        /\ done = (old.done \/ (old.job = c.job /\ result = 0))
                                        /\ foreign = (old.foreign \/ old.job # c.job)
      OBVIOUS
    <3>2. j = [old EXCEPT !.signals = signals, !.done = done, !.foreign = foreign]
      BY <1>3, <1>8, <2>1, <2>5, <3>1 DEF InJob, At
    <3>3. old.signals \in Seq({0, 1}) /\ signals \in Seq({0, 1}) /\ done \in BOOLEAN /\ foreign \in BOOLEAN
      BY <2>2, <3>1 DEF JobType
    <3>4. /\ j \in JobType /\ j.pc = old.pc /\ j.op = old.op /\ j.path = old.path /\ j.dest = old.dest /\ j.overwrite = old.overwrite
          /\ j.job = old.job /\ j.ids = old.ids /\ j.signals = signals /\ j.done = done /\ j.foreign = foreign
          /\ j.lost = old.lost /\ j.result = old.result
      BY <2>2, <3>2, <3>3 DEF JobType
    <3>5. signals # << >> /\ DOMAIN signals = 1 .. Len(old.signals) + 1 /\ DOMAIN old.signals = 1 .. Len(old.signals)
          /\ signals[Len(old.signals) + 1] = result /\ \A k \in DOMAIN old.signals : signals[k] = old.signals[k]
      BY <3>1, <3>3
    <3>6. ASSUME NEW k \in DOMAIN signals, signals[k] = 0, ~foreign PROVE done
      <4>1. CASE k \in DOMAIN old.signals
        BY <2>2, <2>5, <3>1, <3>5, <3>6, <4>1 DEF JobSelf
      <4>2. CASE k \notin DOMAIN old.signals
        <5>1. k = Len(old.signals) + 1
          BY <3>3, <3>5, <4>2
        <5> QED
          BY <3>1, <3>5, <3>6, <5>1
      <4> QED
        BY <4>1, <4>2
    <3>7. JobSelf(j)
      BY <2>2, <3>4, <3>6 DEF JobSelf
    <3>8. JobThere(j)'
      BY <1>2, <2>2, <2>3, <3>4, <3>5 DEF JobThere
    <3> QED
      BY <3>7, <3>8
  <2> QED
    BY <2>4, <2>5
<1>9. wk' = [v \in Worker |-> wk'[v]]
  BY <1>3
<1> QED
  BY <1>2, <1>5, <1>6, <1>7, <1>8, <1>9, JobsStep DEF Inv

LEMMA ThereSame ==
  ASSUME NEW j, JobThere(j), j.pc # "idle" /\ ~plugged' => j.lost, UNCHANGED <<object, used>>,
         j.pc # "idle" /\ ~j.lost => copies' = copies
  PROVE  JobThere(j)'
BY SMTT(60) DEF JobThere, Place, Exists, IsAt, PathOf, Path, Id, Root

LEMMA UnplugStep ==
  ASSUME Inv, Unplug
  PROVE  Inv' /\ Keeps
<1>1. /\ plugged' = FALSE /\ copies' = << >> /\ cache' = EmptyCache /\ UNCHANGED <<object, used>> /\ started' = started
      /\ wk' = [w \in Worker |-> IF InJob(w) THEN [wk[w] EXCEPT !.lost = TRUE] ELSE wk[w]]
  BY DEF Unplug, StorageDeleted, Others
<1>2. Keeps
  BY <1>1 DEF Keeps, Exists
<1>3. StorageInv'
  <2>1. PICK c : c = EmptyCache
    OBVIOUS
  <2>2. Faithful(c)
    BY <2>1, NoSuchId DEF EmptyCache, Faithful, Inv, StorageInv, ObjectInv
  <2> QED
    BY <1>1, <2>1, <2>2, LookupKeeps DEF Inv, EmptyCache
<1>4. CopiesInv'
  <2>1. << >> \in Seq(CopyType) /\ CopyType' = CopyType
    BY DEF CopyType
  <2> QED
    BY <1>1, <2>1 DEF CopiesInv
<1>5. ASSUME NEW v \in Worker, NEW j, j = wk'[v] PROVE JobSelf(j) /\ JobThere(j)'
  <2>1. PICK old : old = wk[v]
    OBVIOUS
  <2>2. old \in JobType /\ JobSelf(old) /\ JobThere(old)
    BY <2>1 DEF Inv
  <2>3. CASE old.pc = "idle"
    <3>1. j = old
      BY <1>1, <1>5, <2>1, <2>3 DEF InJob, At
    <3> QED
      BY <2>2, <2>3, <3>1 DEF JobThere
  <2>4. CASE old.pc # "idle"
    <3>1. j = [old EXCEPT !.lost = TRUE]
      BY <1>1, <1>5, <2>1, <2>4 DEF InJob, At
    <3>2. /\ j \in JobType /\ j.pc = old.pc /\ j.op = old.op /\ j.path = old.path /\ j.dest = old.dest /\ j.overwrite = old.overwrite
          /\ j.job = old.job /\ j.ids = old.ids /\ j.signals = old.signals /\ j.done = old.done /\ j.foreign = old.foreign
          /\ j.lost = TRUE /\ j.result = old.result
      BY <2>2, <3>1 DEF JobType
    <3>3. JobSelf(j)
      BY <2>2, <3>2 DEF JobSelf
    <3>4. JobThere(j)
      BY <2>2, <3>2 DEF JobThere
    <3>5. JobThere(j)'
      BY <1>1, <3>2, <3>4, ThereSame
    <3> QED
      BY <3>3, <3>5
  <2> QED
    BY <2>3, <2>4
<1>6. wk' = [v \in Worker |-> wk'[v]]
  BY <1>1
<1> QED
  BY <1>1, <1>2, <1>3, <1>4, <1>5, <1>6, JobsStep DEF Inv

LEMMA CacheStep ==
  ASSUME Inv, Replug \/ CacheExpires \/ UNCHANGED vars
  PROVE  Inv' /\ Keeps
<1>1. /\ UNCHANGED <<object, used>> /\ copies' = copies /\ started' = started /\ wk' = wk
      /\ plugged' \in BOOLEAN /\ (~plugged' => ~plugged)
  BY DEF Inv, Replug, CacheExpires, StorageAdded, Expire, workerVars, storageVars, vars
<1>2. Keeps
  BY <1>1 DEF Keeps, Exists
<1>3. StorageInv'
  <2>1. PICK c : c = cache'
    OBVIOUS
  <2>2. Faithful(c)
    <3>1. CASE c = cache
      BY <3>1 DEF Inv, StorageInv
    <3>2. CASE \E p \in Path : c = [cache EXCEPT ![p] = NoItem]
      <4>1. PICK p \in Path : c = [cache EXCEPT ![p] = NoItem]
        BY <3>2
      <4>2. cache \in [Path -> 0 .. used] /\ 0 \in 0 .. used
        BY DEF Inv, StorageInv, Faithful, ObjectInv
      <4>3. c \in [Path -> 0 .. used] /\ c[p] = NoItem /\ \A q \in Path : q # p => c[q] = cache[q]
        BY <4>1, <4>2 DEF NoItem
      <4> QED
        BY <4>3, NoSuchId DEF Inv, StorageInv, Faithful
    <3> QED
      BY <2>1, <3>1, <3>2 DEF Replug, CacheExpires, StorageAdded, Expire, storageVars, vars
  <2> QED
    BY <1>1, <2>1, <2>2, LookupKeeps DEF Inv
<1>4. CopiesInv'
  BY <1>1 DEF Inv, CopiesInv, CopyType, ToInv, Exists, InRoot, Id, Root
<1>5. ASSUME NEW v \in Worker, NEW j, j = wk'[v] PROVE JobSelf(j) /\ JobThere(j)'
  <2>1. JobSelf(j) /\ JobThere(j)
    BY <1>1, <1>5 DEF Inv
  <2>2. j.pc # "idle" /\ ~plugged' => j.lost
    BY <1>1, <2>1 DEF JobThere
  <2> QED
    BY <1>1, <2>1, <2>2, ThereSame
<1>6. wk' = [v \in Worker |-> wk'[v]]
  BY <1>1 DEF Inv
<1> QED
  BY <1>1, <1>2, <1>3, <1>4, <1>5, <1>6, JobsStep

LEMMA MtpInit == Init => Inv
<1> SUFFICES ASSUME Init PROVE Inv
  OBVIOUS
<1>1. PICK a \in Name, b \in Name :
        object = [i \in Id |-> CASE i = 1 -> [name |-> a, parent |-> Root, folder |-> TRUE]
                                 [] i = 2 -> [name |-> b, parent |-> 1, folder |-> FALSE]
                                 [] OTHER -> Absent]
  BY DEF Init
<1>2. /\ used = 2 /\ cache = EmptyCache /\ copies = << >> /\ plugged = TRUE /\ wk = [w \in Worker |-> Idle] /\ started = 0
  BY DEF Init
<1>3. 1 \in Id /\ 2 \in Id /\ Root \in 1 .. MaxId + 1 /\ Root \notin Id
  BY IdAssumption DEF Id, Root
<1>4. /\ object[1] = [name |-> a, parent |-> Root, folder |-> TRUE] /\ object[2] = [name |-> b, parent |-> 1, folder |-> FALSE]
      /\ \A i \in Id : i # 1 /\ i # 2 => object[i] = Absent
  BY <1>1, <1>3
<1>5. object[1] \in ObjectType /\ object[2] \in ObjectType /\ object[1] # Absent
  <2>1. 1 \in 1 .. MaxId + 1
    BY IdAssumption
  <2>2. object[1] \in ObjectType /\ object[2] \in ObjectType
    BY <1>3, <1>4, <2>1 DEF ObjectType
  <2> QED
    BY <2>2, IdAssumption DEF ObjectType
<1>6. object \in [Id -> {Absent} \cup ObjectType]
  <2>1. \A i \in Id : object[i] \in {Absent} \cup ObjectType
    BY <1>4, <1>5
  <2>2. object = [i \in Id |-> object[i]]
    BY <1>1
  <2> QED
    BY <2>1, <2>2
<1>7. ObjectInv
  <2>1. \A i \in Id : Exists(i) => i = 1 \/ i = 2
    BY <1>4 DEF Exists
  <2>2. InRoot(1) /\ IsFolder(1) /\ object[2].parent = 1
    BY <1>3, <1>4, <1>5 DEF InRoot, IsFolder, Exists
  <2>3. used \in 0 .. MaxId
    BY <1>2, IdAssumption
  <2> QED
    BY <1>2, <1>3, <1>6, <2>1, <2>2, <2>3 DEF ObjectInv
<1>8. StorageInv
  <2>1. cache \in [Path -> 0 .. used] /\ \A p \in Path : cache[p] = NoItem
    BY <1>2 DEF EmptyCache, NoItem
  <2> QED
    BY <1>7, <2>1, NoSuchId DEF StorageInv, Faithful
<1>9. CopiesInv
  BY <1>2 DEF CopiesInv
<1>10. Idle \in JobType /\ Idle.pc = "idle" /\ Idle.job = 0
  <2>1. << >> \in Seq({0, 1})
    OBVIOUS
  <2> QED
    BY <2>1 DEF Idle, JobType, Pc
<1>11. wk \in [Worker -> JobType] /\ \A w \in Worker : wk[w] = Idle
  BY <1>2, <1>10
<1>12. \A w \in Worker : JobSelf(wk[w]) /\ JobThere(wk[w])
  BY <1>2, <1>10, <1>11 DEF JobSelf, JobThere
<1> QED
  BY <1>2, <1>8, <1>9, <1>11, <1>12 DEF Inv

LEMMA MtpNext == Inv /\ [Next]_vars => Inv'
<1> SUFFICES ASSUME Inv, [Next]_vars PROVE Inv'
  OBVIOUS
<1>1. CASE \E w \in Worker : Start(w)
  BY <1>1, StartStep
<1>2. CASE \E w \in Worker : Serve(w)
  BY <1>2, CheckStep, DeleteStep, SetNameStep, MkdirStep, SendStep, FetchStep, SimpleSteps, SourceStep, ListStep, ListerStep DEF Serve
<1>3. CASE RunCopy
  BY <1>3, RunCopyStep
<1>4. CASE Environment
  BY <1>4, UnplugStep, CacheStep DEF Environment
<1>5. CASE UNCHANGED vars
  BY <1>5, CacheStep
<1> QED
  BY <1>1, <1>2, <1>3, <1>4, <1>5 DEF Next

-----------------------------------------------------------------------------
(* The theorems                                                            *)

(* In every state of the workers and the daemon every object is in the     *)
(* root or in a folder of the root, the cache leads only to objects at the *)
(* path it knows them by (on a device that renames folders: at its depth), *)
(* and every job that waits has a copy or a signal to wait for             *)
(* (mtpstorage.cpp, kio_mtp.cpp).                                          *)
THEOREM MtpInvariant == Spec => []Inv
BY MtpInit, MtpNext, PTL DEF Spec

LEMMA MtpTypes == Inv => TypeOK
<1> SUFFICES ASSUME Inv PROVE TypeOK
  OBVIOUS
<1>1. ObjectInv /\ Faithful(cache)
  BY DEF Inv, StorageInv
<1>2. ASSUME NEW i \in Id, Exists(i) PROVE i <= used /\ object[i].parent \in {Root} \cup 1 .. used /\ object[i].name \in Name
  <2>1. i <= used /\ object[i].name \in Name
    BY <1>1, <1>2, ObjectFacts DEF ObjectInv
  <2>2. CASE InRoot(i)
    BY <2>1, <2>2 DEF InRoot
  <2>3. CASE ~InRoot(i)
    <3>1. PICK q \in Id : q = object[i].parent /\ Exists(q)
      BY <1>1, <1>2, <2>3, ObjectFacts
    <3>2. q \in 1 .. used
      BY <1>1, <3>1, IdAssumption DEF ObjectInv, Id
    <3> QED
      BY <2>1, <3>1, <3>2
  <2> QED
    BY <2>2, <2>3
<1>3. \A p \in Path : cache[p] \in 0 .. used
  BY <1>1 DEF Faithful
<1>4. \A w \in Worker : wk[w].job \in 0 .. started /\ wk[w].signals \in Seq({0, 1})
  BY DEF Inv, JobSelf, JobType
<1>5. \A k \in DOMAIN copies : copies[k].job \in 1 .. started
  BY DEF Inv, CopiesInv
<1> QED
  BY <1>1, <1>2, <1>3, <1>4, <1>5 DEF TypeOK, ObjectInv

LEMMA MtpLookups == ASSUME ~RenamesFolders, Inv PROVE LookupRight
<1> SUFFICES ASSUME NEW p \in Path, NEW f, f = GetFileFromPath(p).id, f # NoItem PROVE PathOf(f) = p
  BY DEF LookupRight
<1>1. Found(GetFileFromPath(p), p)
  BY PathsFound DEF Inv
<1> QED
  BY <1>1 DEF Found, IsAt

LEMMA MtpSignals == Inv => NoSignalMissed
<1> SUFFICES ASSUME Inv, NEW w \in Worker, wk[w].pc = "wait", ~wk[w].lost
             PROVE  wk[w].signals # << >> \/ \E k \in DOMAIN copies : copies[k].job = wk[w].job
  BY DEF NoSignalMissed, At
<1> QED
  BY DEF Inv, JobThere

(* "any chance to 'miss' the copyFinished signal and dead lock the         *)
(* worker?" (kio_mtp.cpp:864): there is none, on any device, as long as it *)
(* is not unplugged under the job.                                         *)
THEOREM MtpNoSignalMissed == Spec => []NoSignalMissed
BY MtpInvariant, MtpSignals, PTL

(* On a device that does not rename folders what getFileFromPath()         *)
(* (mtpstorage.cpp) finds is at the path that was looked up, whatever      *)
(* listings, renames, deletions and lost entries came before.              *)
THEOREM MtpStorageRight == ASSUME ~RenamesFolders PROVE Spec => []StorageRight
<1>1. Inv => StorageRight
  BY MtpTypes, MtpLookups, MtpSignals DEF StorageRight
<1> QED
  BY <1>1, MtpInvariant, PTL

LEMMA StartsWith ==
  ASSUME NEW p \in Path, NEW n
  PROVE  IsPrefix(p, p) /\ IsPrefix(p, Append(p, n))
<1> DEFINE S == Name \cup {n}
           s == SubSeq(p, 1, Len(p))
           t == SubSeq(Append(p, n), 1, Len(p))
<1>1. p \in Seq(S) /\ Len(p) \in Nat
  <2>1. CASE \E m \in Name : p = <<m>>
    BY <2>1
  <2>2. CASE \E m, k \in Name : p = <<m, k>>
    BY <2>2
  <2> QED
    BY <2>1, <2>2 DEF Path
<1>2. s \in Seq(S) /\ Len(s) = Len(p) /\ \A i \in 1 .. Len(p) : s[i] = p[i]
  BY <1>1, SubSeqProperties
<1>3. Append(p, n) \in Seq(S) /\ Len(Append(p, n)) = Len(p) + 1 /\ \A i \in 1 .. Len(p) : Append(p, n)[i] = p[i]
  BY <1>1, AppendProperties
<1>4. PICK q : q = Append(p, n)
  OBVIOUS
<1>5. t \in Seq(S) /\ Len(t) = Len(p) /\ \A i \in 1 .. Len(p) : t[i] = p[i]
  <2>1. q \in Seq(S) /\ Len(q) = Len(p) + 1 /\ \A i \in 1 .. Len(p) : q[i] = p[i]
    BY <1>3, <1>4
  <2>2. SubSeq(q, 1, Len(p)) \in Seq(S) /\ Len(SubSeq(q, 1, Len(p))) = Len(p) /\ \A i \in 1 .. Len(p) : SubSeq(q, 1, Len(p))[i] = q[i]
    BY <1>1, <2>1, SubSeqProperties
  <2> QED
    BY <1>4, <2>1, <2>2
<1> HIDE DEF s, t
<1>6. s = t
  BY <1>2, <1>5
<1> QED
  BY <1>1, <1>3, <1>6 DEF IsPrefix, s, t

LEMMA StepRemovesOnlyNamed ==
  ASSUME ~RenamesFolders, Inv, [Next]_vars, NEW i \in Id, Exists(i), ~Exists(i)'
  PROVE  \E w \in Worker : /\ At(w, "delete") /\ (wk[w].op = "del" \/ wk[w].overwrite)
                           /\ IsPrefix(Target(wk[w]), PathOf(i))
<1>1. \E w \in Worker : Delete(w)
  <2>1. ~Keeps
    BY DEF Keeps
  <2>2. CASE \E w \in Worker : Start(w)
    BY <2>1, <2>2, StartStep
  <2>3. CASE \E w \in Worker : Serve(w)
    BY <2>1, <2>3, CheckStep, SetNameStep, MkdirStep, SendStep, FetchStep, SimpleSteps, SourceStep, ListStep, ListerStep DEF Serve
  <2>4. CASE RunCopy
    BY <2>1, <2>4, RunCopyStep
  <2>5. CASE Environment
    BY <2>1, <2>5, UnplugStep, CacheStep DEF Environment
  <2>6. CASE UNCHANGED vars
    BY <2>1, <2>6, CacheStep
  <2> QED
    BY <2>2, <2>3, <2>4, <2>5, <2>6 DEF Next
<1>2. PICK w \in Worker : Delete(w)
  BY <1>1
<1>3. wk[w].pc = "delete" /\ At(w, "delete") /\ (wk[w].op = "del" \/ wk[w].overwrite)
  BY <1>2 DEF Delete, At, Inv, JobSelf
<1>4. PICK path \in Path : path = Target(wk[w])
  BY <1>3, Working
<1>5. PICK f \in Id : Exists(f) /\ IsAt(f, path) /\ (i = f \/ i \in Children(f))
  BY <1>2, <1>4, DeleteStep
<1>6. PathOf(f) = path
  BY <1>5 DEF IsAt
<1>7. CASE i = f
  BY <1>3, <1>4, <1>6, <1>7, StartsWith
<1>8. CASE i \in Children(f)
  <2>1. ObjectInv /\ Place(f, path)
    BY <1>5 DEF Inv, StorageInv, Place
  <2>2. IsAt(i, Append(path, object[i].name))
    BY <1>8, <2>1, ChildrenAreThere
  <2>3. PathOf(i) = Append(path, object[i].name)
    BY <2>2 DEF IsAt
  <2> QED
    BY <1>3, <1>4, <2>3, StartsWith
<1> QED
  BY <1>5, <1>7, <1>8

(* Nothing disappears from a device that does not rename folders but what  *)
(* a job was asked to delete or allowed to overwrite, by its path          *)
(* (MTPStorage::deleteObject(), MTPWorker::put(), copy(), rename()).       *)
THEOREM MtpRemovesOnlyNamed == ASSUME ~RenamesFolders PROVE Spec => RemovesOnlyNamed
<1>1. Inv /\ [Next]_vars =>
        [\A i \in Id : Exists(i) /\ ~Exists(i)' =>
           \E w \in Worker : /\ At(w, "delete") /\ (wk[w].op = "del" \/ wk[w].overwrite)
                             /\ IsPrefix(Target(wk[w]), PathOf(i))]_vars
  BY StepRemovesOnlyNamed
<1> QED
  BY <1>1, MtpInvariant, PTL DEF RemovesOnlyNamed, Spec

LEMMA StepPassIsDone ==
  ASSUME Inv, [Next]_vars, NEW w \in Worker, At(w, "wait"), wk'[w].result = "pass", ~wk[w].foreign
  PROVE  wk[w].done
<1>1. wk[w].pc = "wait" /\ wk[w].result = "none" /\ wk \in [Worker -> JobType]
  BY Working DEF At, Inv
<1>2. ASSUME NEW v \in Worker, v # w, NEW j, wk' = [wk EXCEPT ![v] = j] PROVE FALSE
  BY <1>1, <1>2
<1>3. ASSUME wk'[w].result = wk[w].result PROVE FALSE
  BY <1>1, <1>3
<1>4. CASE \E v \in Worker : Start(v)
  <2>1. PICK v \in Worker : wk[v].pc = "idle" /\ \E j : wk' = [wk EXCEPT ![v] = j]
    BY <1>4 DEF Start, At
  <2> QED
    BY <1>1, <1>2, <2>1
<1>5. CASE \E v \in Worker : Serve(v)
  <2>1. PICK v \in Worker : Serve(v)
    BY <1>5
  <2>2. CASE WaitForCopyOperation(v)
    <3>1. v = w
      BY <1>2, <2>2 DEF WaitForCopyOperation, Finish
    <3>2. wk[w].signals \in Seq({0, 1}) /\ wk[w].signals # << >> /\ Finish(w, Outcome(Head(wk[w].signals)))
      BY <1>1, <2>2, <3>1 DEF WaitForCopyOperation, JobType
    <3>3. wk'[w].result = Outcome(Head(wk[w].signals))
      BY <1>1, <3>2 DEF Finish, Idle
    <3>4. Head(wk[w].signals) = 0
      BY <3>3 DEF Outcome
    <3>5. wk[w].signals[1] = 0 /\ 1 \in DOMAIN wk[w].signals
      BY <3>2, <3>4
    <3> QED
      BY <1>1, <3>5 DEF Inv, JobSelf
  <2>3. CASE ~WaitForCopyOperation(v)
    <3>1. wk[v].pc # "wait"
      BY <2>1, <2>3 DEF Serve, CheckDestination, Delete, SetName, Mkdir, Send, SourceUnreadable, OpenLocal, SourceMetadata, Fetch,
                       List, ListerRun, At
    <3>2. \E j : wk' = [wk EXCEPT ![v] = j]
      <4>1. \A pc : Goto(v, pc) => \E j : wk' = [wk EXCEPT ![v] = j]
        BY DEF Goto
      <4>2. \A r : Finish(v, r) => \E j : wk' = [wk EXCEPT ![v] = j]
        BY DEF Finish
      <4>3. CASE CheckDestination(v) \/ SetName(v) \/ Mkdir(v) \/ Send(v) \/ SourceUnreadable(v) \/ OpenLocal(v) \/ Fetch(v)
        BY <4>1, <4>2, <4>3 DEF CheckDestination, SetName, Mkdir, Send, SourceUnreadable, OpenLocal, Fetch
      <4>4. CASE Delete(v)
        <5>1. Finish(v, "fail") \/ Finish(v, "pass") \/ Goto(v, "setName") \/ Goto(v, "send")
          BY <4>4 DEF Delete
        <5> QED
          BY <4>1, <4>2, <5>1
      <4>5. CASE SourceMetadata(v)
        <5>1. Finish(v, "fail") \/ Finish(v, "pass") \/ Goto(v, "fetch")
          BY <4>5 DEF SourceMetadata
        <5> QED
          BY <4>1, <4>2, <5>1
      <4>6. CASE List(v)
        BY <4>2, <4>6 DEF List
      <4>7. CASE ListerRun(v)
        BY <4>2, <4>7 DEF ListerRun
      <4> QED
        BY <2>1, <2>3, <4>3, <4>4, <4>5, <4>6, <4>7 DEF Serve
    <3> QED
      BY <1>1, <1>2, <3>1, <3>2
  <2> QED
    BY <2>2, <2>3
<1>6. CASE RunCopy
  <2>1. PICK c : c = Head(copies)
    OBVIOUS
  <2>2. PICK result \in {0, 1} :
          wk' = [v \in Worker |->
             IF ~InJob(v) THEN wk[v]
             ELSE [wk[v] EXCEPT !.signals = Append(@, result), !.done = @ \/ (wk[v].job = c.job /\ result = 0),
                                !.foreign = @ \/ wk[v].job # c.job]]
    BY <1>6, <2>1 DEF RunCopy
  <2>3. PICK old, signals, done, foreign :
          /\ old = wk[w] /\ signals = Append(old.signals, result)
          /\ done = (old.done \/ (old.job = c.job /\ result = 0)) /\ foreign = (old.foreign \/ old.job # c.job)
    OBVIOUS
  <2>4. wk'[w] = [old EXCEPT !.signals = signals, !.done = done, !.foreign = foreign]
    BY <1>1, <2>2, <2>3 DEF InJob, At
  <2>5. old \in JobType
    BY <1>1, <2>3
  <2>6. wk'[w].result = wk[w].result
    BY <2>3, <2>4, <2>5 DEF JobType
  <2> QED
    BY <1>3, <2>6
<1>7. CASE Environment
  <2>1. wk'[w].result = wk[w].result
    BY <1>1, <1>7 DEF Environment, Unplug, Replug, CacheExpires, workerVars, InJob, At, JobType
  <2> QED
    BY <1>3, <2>1
<1>8. CASE UNCHANGED vars
  BY <1>3, <1>8 DEF vars, workerVars
<1> QED
  BY <1>4, <1>5, <1>6, <1>7, <1>8 DEF Next

(* A transfer that passes was carried out by the device, unless the worker *)
(* was woken by the signal of somebody else's copy                         *)
(* (MTPWorker::waitForCopyOperation(), kio_mtp.cpp).                       *)
THEOREM MtpPassIsDone == Spec => PassIsDone
<1>1. Inv /\ [Next]_vars => [\A w \in Worker : At(w, "wait") /\ wk'[w].result = "pass" /\ ~wk[w].foreign => wk[w].done]_vars
  BY StepPassIsDone
<1> QED
  BY <1>1, MtpInvariant, PTL DEF PassIsDone, Spec

-----------------------------------------------------------------------------
(* The list of devices                                                     *)

DeviceEntry == [udi : Udi, path : Nat, name : DeviceName, updated : BOOLEAN]

(* Each known device is in the list once, under the name it has; no two    *)
(* have one name, and none has the name that a scheduled removal of        *)
(* another will take away.                                                 *)
NamesInv ==
  /\ m_devices \in Seq(DeviceEntry) /\ solid \in [Udi -> DeviceName \cup {Nobody}]
  /\ \A k \in DOMAIN m_devices :
       /\ solid[m_devices[k].udi] = m_devices[k].name
       /\ \A j \in DOMAIN m_devices :
            m_devices[j].udi = m_devices[k].udi \/ m_devices[j].name = m_devices[k].name => j = k
       /\ \A r \in removals : r.name = m_devices[k].name => r.udi = m_devices[k].udi

LEMMA RemoveAtFacts ==
  ASSUME NEW S, NEW s \in Seq(S), NEW k \in DOMAIN s
  PROVE  /\ RemoveAt(s, k) \in Seq(S) /\ Len(RemoveAt(s, k)) = Len(s) - 1
         /\ \A i \in DOMAIN RemoveAt(s, k) : RemoveAt(s, k)[i] = s[IF i < k THEN i ELSE i + 1]
<1> DEFINE front == SubSeq(s, 1, k - 1)
           back == SubSeq(s, k + 1, Len(s))
<1>1. k \in 1 .. Len(s) /\ Len(s) \in Nat
  BY LenProperties
<1>2. front \in Seq(S) /\ Len(front) = k - 1 /\ \A i \in 1 .. k - 1 : front[i] = s[i]
  BY <1>1, SubSeqProperties
<1>3. back \in Seq(S) /\ Len(back) = Len(s) - k /\ \A i \in 1 .. Len(s) - k : back[i] = s[k + i]
  BY <1>1, SubSeqProperties
<1>4. RemoveAt(s, k) = front \o back
  BY DEF RemoveAt
<1> HIDE DEF front, back
<1>5. front \o back \in Seq(S) /\ Len(front \o back) = Len(s) - 1
  BY <1>1, <1>2, <1>3, ConcatProperties
<1>6. ASSUME NEW i \in 1 .. Len(s) - 1 PROVE (front \o back)[i] = s[IF i < k THEN i ELSE i + 1]
  <2>1. CASE i < k
    BY <1>1, <1>2, <1>3, <2>1, ConcatProperties
  <2>2. CASE i >= k
    <3>1. (front \o back)[i] = back[i - (k - 1)]
      BY SMTT(60), <1>1, <1>2, <1>3, <2>2, ConcatProperties
    <3>2. i - (k - 1) \in 1 .. Len(s) - k /\ k + (i - (k - 1)) = i + 1
      BY <1>1, <2>2
    <3>3. back[i - (k - 1)] = s[k + (i - (k - 1))]
      BY <1>3, <3>2
    <3>4. (IF i < k THEN i ELSE i + 1) = i + 1
      BY <1>1, <2>2
    <3> QED
      BY <3>1, <3>2, <3>3, <3>4
  <2>3. i < k \/ i >= k
    BY <1>1
  <2> QED
    BY <2>1, <2>2, <2>3
<1> QED
  BY <1>4, <1>5, <1>6, LenProperties

LEMMA DevicesStart == DevicesInit => NamesInv
<1> SUFFICES ASSUME DevicesInit PROVE NamesInv
  OBVIOUS
<1>1. m_devices = << >> /\ m_devices \in Seq(DeviceEntry) /\ DOMAIN m_devices = {}
  BY EmptySeq DEF DevicesInit
<1> QED
  BY <1>1 DEF DevicesInit, NamesInv

(* Telling all devices of a change touches no name.                        *)
LEMMA ChangedFacts ==
  ASSUME NEW list \in Seq(DeviceEntry)
  PROVE  /\ DevicesChanged(list) \in Seq(DeviceEntry) /\ DOMAIN DevicesChanged(list) = DOMAIN list
         /\ \A k \in DOMAIN list : DevicesChanged(list)[k].udi = list[k].udi /\ DevicesChanged(list)[k].name = list[k].name
<1>1. DOMAIN list = 1 .. Len(list) /\ Len(list) \in Nat
  BY LenProperties
<1>2. \A k \in DOMAIN list : list[k] \in DeviceEntry
  BY <1>1, ElementOfSeq
<1>3. \A k \in DOMAIN list : DevicesChanged(list)[k] \in DeviceEntry
  BY <1>2 DEF DevicesChanged, DeviceEntry
<1>4. DevicesChanged(list) = [k \in 1 .. Len(list) |-> DevicesChanged(list)[k]]
  BY <1>1 DEF DevicesChanged
<1>5. DevicesChanged(list) \in Seq(DeviceEntry)
  BY <1>1, <1>3, <1>4, IsASeq
<1>6. DOMAIN DevicesChanged(list) = DOMAIN list
  BY DEF DevicesChanged
<1>7. \A k \in DOMAIN list : DevicesChanged(list)[k].udi = list[k].udi /\ DevicesChanged(list)[k].name = list[k].name
  BY <1>2 DEF DevicesChanged, DeviceEntry
<1> QED
  BY <1>5, <1>6, <1>7

LEMMA EntryFacts ==
  ASSUME NamesInv
  PROVE  /\ DOMAIN m_devices = 1 .. Len(m_devices) /\ Len(m_devices) \in Nat
         /\ \A k \in DOMAIN m_devices : m_devices[k] \in DeviceEntry /\ m_devices[k].udi \in Udi /\ m_devices[k].name \in DeviceName
<1>1. m_devices \in Seq(DeviceEntry)
  BY DEF NamesInv
<1>2. DOMAIN m_devices = 1 .. Len(m_devices) /\ Len(m_devices) \in Nat
  BY <1>1, LenProperties
<1>3. \A k \in DOMAIN m_devices : m_devices[k] \in DeviceEntry
  BY <1>1, <1>2, ElementOfSeq
<1> QED
  BY <1>2, <1>3 DEF DeviceEntry

LEMMA AddedKeeps == ASSUME OwnNames, NamesInv, NEW udi \in Udi, DeviceAdded(udi) PROVE NamesInv'
<1>1. PICK name \in DeviceName : Plug(udi, name)
  BY DEF DeviceAdded
<1>2. /\ solid[udi] = Nobody /\ (\A u \in Udi : solid[u] # name)
      /\ (\A r \in removals : r.name = name => r.udi = udi) /\ solid' = [solid EXCEPT ![udi] = name] /\ removals' = removals
  BY <1>1 DEF Plug, DeviceAdded
<1>3. solid \in [Udi -> DeviceName \cup {Nobody}] /\ solid' \in [Udi -> DeviceName \cup {Nobody}] /\ solid'[udi] = name
      /\ \A u \in Udi \ {udi} : solid'[u] = solid[u]
  BY <1>2 DEF NamesInv
<1>4. \A k \in DOMAIN m_devices : m_devices[k].udi # udi
  BY <1>2, EntryFacts, NobodyAssumption DEF NamesInv
<1>5. CASE CannotOpen
  BY <1>2, <1>3, <1>4, <1>5, EntryFacts DEF NamesInv, CannotOpen
<1>6. CASE CheckDevice(udi)
  <2> DEFINE new == [udi |-> udi, path |-> Len(m_devices), name |-> name, updated |-> TRUE]
             list == Append(m_devices, new)
  <2>1. m_devices' = DevicesChanged(list)
    BY <1>3, <1>6 DEF CheckDevice
  <2>2. new \in DeviceEntry /\ m_devices \in Seq(DeviceEntry)
    BY EntryFacts DEF DeviceEntry, NamesInv
  <2> HIDE DEF new
  <2>3. /\ list \in Seq(DeviceEntry) /\ Len(list) = Len(m_devices) + 1 /\ list[Len(m_devices) + 1] = new
        /\ \A k \in 1 .. Len(m_devices) : list[k] = m_devices[k]
    BY <2>2, AppendProperties
  <2>4. DOMAIN list = 1 .. Len(m_devices) + 1
    BY <2>3, LenProperties
  <2>5. new.udi = udi /\ new.name = name
    BY DEF new
  <2> HIDE DEF list
  <2>6. /\ m_devices' \in Seq(DeviceEntry) /\ DOMAIN m_devices' = 1 .. Len(m_devices) + 1
        /\ \A k \in 1 .. Len(m_devices) : m_devices'[k].udi = m_devices[k].udi /\ m_devices'[k].name = m_devices[k].name
        /\ m_devices'[Len(m_devices) + 1].udi = udi /\ m_devices'[Len(m_devices) + 1].name = name
    BY <2>1, <2>3, <2>4, <2>5, ChangedFacts, EntryFacts
  <2>7. \A k \in 1 .. Len(m_devices) : solid[m_devices[k].udi] = m_devices[k].name /\ m_devices[k].name # name /\ m_devices[k].udi # udi
    BY <1>2, <1>4, EntryFacts DEF NamesInv
  <2>8. \A k \in 1 .. Len(m_devices) + 1 : k \in 1 .. Len(m_devices) \/ k = Len(m_devices) + 1
    BY EntryFacts
  <2> HIDE DEF new, list
  <2>9. \A k \in DOMAIN m_devices' : solid'[m_devices'[k].udi] = m_devices'[k].name
    BY <1>3, <2>6, <2>7, <2>8, EntryFacts
  <2>10. \A k, j \in DOMAIN m_devices' : m_devices'[j].udi = m_devices'[k].udi \/ m_devices'[j].name = m_devices'[k].name => j = k
    BY <2>6, <2>7, <2>8, EntryFacts DEF NamesInv
  <2>11. \A k \in DOMAIN m_devices' : \A r \in removals' : r.name = m_devices'[k].name => r.udi = m_devices'[k].udi
    BY <1>2, <2>6, <2>8, EntryFacts DEF NamesInv
  <2> QED
    BY <1>3, <2>6, <2>9, <2>10, <2>11 DEF NamesInv
<1> QED
  BY <1>5, <1>6 DEF DeviceAdded

LEMMA RemovedKeeps == ASSUME NamesInv, NEW udi \in Udi, DeviceRemoved(udi) PROVE NamesInv'
<1>1. solid' = [solid EXCEPT ![udi] = Nobody] /\ solid' \in [Udi -> DeviceName \cup {Nobody}] /\ \A u \in Udi \ {udi} : solid'[u] = solid[u]
  BY DEF DeviceRemoved, NamesInv
<1>2. CASE udi \notin Known
  <2>1. removals' = removals /\ m_devices' = m_devices
    BY <1>2 DEF DeviceRemoved
  <2>2. \A k \in DOMAIN m_devices : m_devices[k].udi # udi
    BY <1>2 DEF Known
  <2> QED
    BY <1>1, <2>1, <2>2, EntryFacts DEF NamesInv
<1>3. CASE udi \in Known
  <2>1. PICK k \in DOMAIN m_devices : m_devices[k].udi = udi /\ m_devices' = RemoveAt(DevicesChanged(m_devices), k)
    BY <1>3 DEF DeviceRemoved
  <2>2. NameOf(udi) = m_devices[k].name
    BY <2>1 DEF NameOf, NamesInv
  <2>3. removals' = removals \cup {[udi |-> udi, name |-> m_devices[k].name]}
    BY <1>3, <2>2 DEF DeviceRemoved
  <2> DEFINE list == DevicesChanged(m_devices)
  <2>4. /\ list \in Seq(DeviceEntry) /\ DOMAIN list = DOMAIN m_devices
        /\ \A j \in DOMAIN m_devices : list[j].udi = m_devices[j].udi /\ list[j].name = m_devices[j].name
    BY ChangedFacts DEF NamesInv
  <2>5. m_devices' = RemoveAt(list, k) /\ k \in DOMAIN list
    BY <2>1, <2>4
  <2> HIDE DEF list
  <2>6. /\ m_devices' \in Seq(DeviceEntry) /\ Len(m_devices') = Len(list) - 1
        /\ \A i \in DOMAIN m_devices' : m_devices'[i] = list[IF i < k THEN i ELSE i + 1]
    BY <2>4, <2>5, RemoveAtFacts
  <2>7. DOMAIN list = 1 .. Len(list) /\ Len(list) \in Nat /\ DOMAIN m_devices' = 1 .. Len(m_devices')
    BY <2>4, <2>6, LenProperties
  <2> DEFINE from(i) == IF i < k THEN i ELSE i + 1
  <2>8. \A i \in DOMAIN m_devices' : from(i) \in DOMAIN m_devices \ {k} /\ m_devices'[i] = list[from(i)]
    BY <2>4, <2>5, <2>6, <2>7
  <2>9. \A i, j \in DOMAIN m_devices' : from(i) = from(j) => i = j
    BY <2>5, <2>6, <2>7
  <2> HIDE DEF from
  <2>10. \A i \in DOMAIN m_devices' :
           m_devices'[i].udi = m_devices[from(i)].udi /\ m_devices'[i].name = m_devices[from(i)].name
    BY <2>4, <2>8
  <2>11. \A i \in DOMAIN m_devices' : m_devices'[i].udi # udi /\ m_devices'[i].udi \in Udi /\ m_devices'[i].name # m_devices[k].name
    BY <2>1, <2>8, <2>10, EntryFacts DEF NamesInv
  <2>12. \A i \in DOMAIN m_devices' : solid'[m_devices'[i].udi] = m_devices'[i].name
    BY <1>1, <2>8, <2>10, <2>11 DEF NamesInv
  <2>13. \A i, j \in DOMAIN m_devices' : m_devices'[j].udi = m_devices'[i].udi \/ m_devices'[j].name = m_devices'[i].name => j = i
    BY <2>8, <2>9, <2>10 DEF NamesInv
  <2>14. \A i \in DOMAIN m_devices' : \A r \in removals' : r.name = m_devices'[i].name => r.udi = m_devices'[i].udi
    BY <2>3, <2>8, <2>10, <2>11 DEF NamesInv
  <2> QED
    BY <1>1, <2>6, <2>12, <2>13, <2>14 DEF NamesInv
<1> QED
  BY <1>2, <1>3

LEMMA RenamedKeeps ==
  ASSUME NamesInv, NEW k \in DOMAIN m_devices, NEW name \in DeviceName, SetFriendlyName(k, name) PROVE NamesInv'
<1> DEFINE u == Reached(k)
<1>1. /\ solid' = [solid EXCEPT ![u] = name] /\ removals' = removals
      /\ m_devices' = [j \in DOMAIN m_devices |-> IF m_devices[j].udi = u THEN [m_devices[j] EXCEPT !.name = name] ELSE m_devices[j]]
      /\ name \notin {m_devices[j].name : j \in DOMAIN m_devices} /\ name \notin {r.name : r \in removals}
  BY DEF SetFriendlyName
<1> HIDE DEF u
<1>2. \A j \in DOMAIN m_devices : m_devices[j].name # name
  BY <1>1
<1>3. \A r \in removals : r.name # name
  BY <1>1
<1>4. DOMAIN m_devices' = 1 .. Len(m_devices) /\ DOMAIN m_devices' = DOMAIN m_devices
  BY <1>1, EntryFacts
<1>5. \A j \in DOMAIN m_devices :
        /\ m_devices'[j] \in DeviceEntry /\ m_devices'[j].udi = m_devices[j].udi
        /\ m_devices'[j].name = IF m_devices[j].udi = u THEN name ELSE m_devices[j].name
  BY <1>1, EntryFacts DEF DeviceEntry
<1>6. m_devices' \in Seq(DeviceEntry)
  <2>1. m_devices' = [j \in 1 .. Len(m_devices) |-> m_devices'[j]]
    BY <1>1, <1>4
  <2> QED
    BY <1>4, <1>5, <2>1, EntryFacts, IsASeq
<1>7. solid' \in [Udi -> DeviceName \cup {Nobody}] /\ \A v \in Udi : solid'[v] = IF v = u THEN name ELSE solid[v]
  BY <1>1 DEF NamesInv
<1>8. \A j \in DOMAIN m_devices' : solid'[m_devices'[j].udi] = m_devices'[j].name
  BY <1>4, <1>5, <1>7, EntryFacts DEF NamesInv
<1>9. \A i, j \in DOMAIN m_devices' : m_devices'[j].udi = m_devices'[i].udi \/ m_devices'[j].name = m_devices'[i].name => j = i
  BY <1>2, <1>4, <1>5 DEF NamesInv
<1>10. \A i \in DOMAIN m_devices' : \A r \in removals' : r.name = m_devices'[i].name => r.udi = m_devices'[i].udi
  BY <1>1, <1>3, <1>4, <1>5 DEF NamesInv
<1> QED
  BY <1>6, <1>7, <1>8, <1>9, <1>10 DEF NamesInv

LEMMA SeenKeeps == ASSUME NamesInv, NEW k \in DOMAIN m_devices, ListStorages(k) PROVE NamesInv'
<1>1. /\ solid' = solid /\ removals' = removals
      /\ m_devices' = [j \in DOMAIN m_devices |-> IF m_devices[j].udi = Reached(k) THEN [m_devices[j] EXCEPT !.updated = FALSE] ELSE m_devices[j]]
  BY DEF ListStorages
<1>2. DOMAIN m_devices' = 1 .. Len(m_devices) /\ DOMAIN m_devices' = DOMAIN m_devices
  BY <1>1, EntryFacts
<1>3. \A j \in DOMAIN m_devices :
        m_devices'[j] \in DeviceEntry /\ m_devices'[j].udi = m_devices[j].udi /\ m_devices'[j].name = m_devices[j].name
  BY <1>1, EntryFacts DEF DeviceEntry
<1>4. m_devices' \in Seq(DeviceEntry)
  <2>1. m_devices' = [j \in 1 .. Len(m_devices) |-> m_devices'[j]]
    BY <1>1, <1>2
  <2> QED
    BY <1>2, <1>3, <2>1, EntryFacts, IsASeq
<1> QED
  BY <1>1, <1>2, <1>3, <1>4 DEF NamesInv

LEMMA DevicesStep == ASSUME OwnNames, NamesInv, [DevicesNext]_deviceVars PROVE NamesInv'
<1>1. ASSUME NEW u \in Udi, DeviceAdded(u) \/ DeviceRemoved(u) PROVE NamesInv'
  BY <1>1, AddedKeeps, RemovedKeeps
<1>2. ASSUME NEW r \in removals, ScheduledRemoval(r) PROVE NamesInv'
  BY <1>2 DEF ScheduledRemoval, NamesInv
<1>3. CASE ListDevices
  BY <1>3 DEF ListDevices, NamesInv
<1>4. ASSUME NEW k \in DOMAIN m_devices, ListStorages(k) \/ \E n \in DeviceName : SetFriendlyName(k, n) PROVE NamesInv'
  BY <1>4, SeenKeeps, RenamedKeeps
<1>5. CASE UNCHANGED deviceVars
  BY <1>5 DEF deviceVars, NamesInv
<1> QED
  BY <1>1, <1>2, <1>3, <1>4, <1>5 DEF DevicesNext

LEMMA StepRemovalIsReal ==
  ASSUME NamesInv, DevicesNext, NEW n \in shown \ shown', relist' = relist, m_devices' = m_devices PROVE n \notin Listing
<1> SUFFICES ASSUME n \in Listing PROVE FALSE
  OBVIOUS
<1>1. PICK v : n = NameOf(v) /\ n # Nobody
  BY DEF Listing
<1>2. PICK k \in DOMAIN m_devices : m_devices[k].name = n
  BY <1>1 DEF NameOf
<1>3. ASSUME NEW u \in Udi, DeviceAdded(u) \/ DeviceRemoved(u) PROVE FALSE
  BY <1>3 DEF DeviceAdded, DeviceRemoved
<1>4. ASSUME NEW r \in removals, ScheduledRemoval(r) PROVE FALSE
  <2>1. n = r.name /\ r.udi \notin Known
    BY <1>4 DEF ScheduledRemoval, Returned
  <2>2. r.udi = m_devices[k].udi
    BY <1>2, <2>1 DEF NamesInv
  <2> QED
    BY <2>1, <2>2 DEF Known
<1>5. CASE ListDevices
  BY <1>5 DEF ListDevices
<1>6. ASSUME NEW j \in DOMAIN m_devices, ListStorages(j) PROVE FALSE
  BY <1>6 DEF ListStorages
<1>7. ASSUME NEW j \in DOMAIN m_devices, NEW name \in DeviceName, SetFriendlyName(j, name) PROVE FALSE
  <2>1. n = NameOf(Reached(j))
    BY <1>7 DEF SetFriendlyName
  <2>2. PICK i \in DOMAIN m_devices : m_devices[i].udi = Reached(j)
    BY <1>1, <2>1 DEF NameOf
  <2>3. m_devices'[i].name = name /\ m_devices[i].name # name
    BY <1>7, <2>2, EntryFacts DEF SetFriendlyName, DeviceEntry
  <2> QED
    BY <2>3
<1> QED
  BY <1>3, <1>4, <1>5, <1>6, <1>7 DEF DevicesNext

(* A scheduled removal takes no name from the views that a known device    *)
(* has ("if it was a real removal, rather than a temporary remove-add      *)
(* dance, we'll emit it", kmtpd.cpp:187), as long as two devices have two  *)
(* names.                                                                  *)
THEOREM MtpRemovalIsReal == ASSUME OwnNames PROVE DevicesSpec => RemovalIsReal
<1>1. NamesInv /\ [DevicesNext]_deviceVars => NamesInv'
  BY DevicesStep
<1>2. NamesInv /\ [DevicesNext]_deviceVars =>
        [\A n \in shown \ shown' : relist' = relist /\ m_devices' = m_devices => n \notin Listing]_deviceVars
  BY StepRemovalIsReal
<1> QED
  BY <1>1, <1>2, DevicesStart, PTL DEF RemovalIsReal, DevicesSpec

(* What MTPWorker and kmtpd do to the device and to the views is what they *)
(* were asked to: the three properties together.                           *)
THEOREM MtpDeviceChangesRight == ASSUME OwnNames, ~RenamesFolders PROVE Spec /\ DevicesSpec => DeviceChangesRight
BY MtpRemovesOnlyNamed, MtpPassIsDone, MtpRemovalIsReal DEF DeviceChangesRight
=============================================================================
