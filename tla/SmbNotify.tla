------------------------------ MODULE SmbNotify ------------------------------
(***************************************************************************)
(* Change notification for SMB directories: a notifier process, which      *)
(* turns the server's events into KDirNotify signals (kded/notifier.cpp),  *)
(* and the watcher in kded, which runs one notifier for each directory     *)
(* that a view has open (kded/watcher.cpp).                                *)
(*                                                                         *)
(* The next change on the server happens when the events of the last have  *)
(* been handled.  A view drops what is removed, renames what it shows, and *)
(* lists the directory again when something is added.                      *)
(***************************************************************************)
EXTENDS Naturals, FiniteSets, Sequences

CONSTANTS Item, NoItem,  \* names in the directory watched
          Modified,       \* m_cap: files whose modifications are limited
          Dir, Capacity,  \* directories views open; m_capacity
          StartLimit,     \* m_startCounterLimit
          NotifyEvents,   \* subset of {"lateTimeout", "slowRename", "startFails", "twoTabs"}
          MaxChanges, MaxEntered

ASSUME NotifyAssumption == NoItem \notin Item /\ IsFiniteSet(Dir) /\ Capacity \in Nat \ {0}

VARIABLES content, view, \* the directory, and what views show of it
          wire,          \* events not yet handled: [act, name]
          handling,      \* the event between newEventFor() and its own signal
          m_url, timer,  \* the pending removal, and its timer: off, on or fired
          moveFrom,
          limiter,       \* files whose modification was signalled lately
          changes
VARIABLES open,          \* directory -> tabs that show it
          m_watches,     \* directories watched
          notifier,      \* directory -> [proc, starts, lastEntry]
          gaveUp,        \* directories whose notifier has ended by itself
          entered, entries \* when a directory was last entered, 0 for never; the time

notifyVars == <<content, view, wire, handling, m_url, timer, moveFrom, limiter, changes>>
watchVars == <<open, m_watches, notifier, gaveUp, entered, entries>>

NoEvent == [act |-> "none", name |-> NoItem]
NoNotifier == [proc |-> "none", starts |-> 0, lastEntry |-> 0]

NotifyInit ==
  /\ content \in SUBSET Item /\ view = content /\ wire = <<>> /\ handling = NoEvent
  /\ m_url = NoItem /\ timer = "off" /\ moveFrom = NoItem /\ limiter = {} /\ changes = 0
  /\ open = [d \in Dir |-> 0] /\ m_watches = {} /\ notifier = [d \in Dir |-> NoNotifier]
  /\ gaveUp = {} /\ entered = [d \in Dir |-> 0] /\ entries = 0

----------------------------------------------------------------------------
(* The server.  A rename is told as a removal and then as a rename.        *)
Change(after, events) ==
  /\ wire = <<>> /\ handling = NoEvent /\ changes < MaxChanges
  /\ content' = after /\ changes' = changes + 1
  /\ wire' = [i \in DOMAIN events |-> [act |-> events[i][1], name |-> events[i][2]]]
  /\ UNCHANGED <<view, handling, m_url, timer, moveFrom, limiter, watchVars>>
ServerChanges ==
  \/ \E n \in Item \ content : Change(content \cup {n}, <<<<"added", n>>>>)
  \/ \E n \in content : Change(content \ {n}, <<<<"removed", n>>>>) \/ Change(content, <<<<"modified", n>>>>)
  \/ \E a \in content, b \in Item \ content :
       Change((content \ {a}) \cup {b}, <<<<"removed", a>>, <<"oldName", a>>, <<"newName", b>>>>)

----------------------------------------------------------------------------
(* PendingRemove, under its mutex                                          *)

FilesRemoved(n) == view' = view \ {n}
Stopped == IF timer = "fired" THEN "fired" ELSE "off"
SendWithLock == IF m_url = NoItem THEN UNCHANGED <<view, m_url>> ELSE FilesRemoved(m_url) /\ m_url' = NoItem

(* Mutant: the rename is not taken for the removal just announced.         *)
NeverDiscards(e) == FALSE
Discards(e) == e.act = "oldName" /\ e.name = m_url

(* The callback of smbc_notify() takes an event: newEventFor().            *)
NewEventFor ==
  /\ wire # <<>> /\ handling = NoEvent
  /\ handling' = Head(wire) /\ wire' = Tail(wire)
  /\ limiter' = IF Head(wire).act # "modified" THEN limiter \ {Head(wire).name} ELSE limiter
  /\ IF m_url # NoItem /\ Discards(Head(wire))
     THEN m_url' = NoItem /\ UNCHANGED view
     ELSE SendWithLock
  /\ timer' = Stopped
  /\ UNCHANGED <<content, moveFrom, changes, watchVars>>

(* ModificationLimiter: room is made when there is more than m_cap; a      *)
(* withheld signal is not made up for.                                     *)
LimiterNotify(n) ==
  IF n \in limiter THEN UNCHANGED limiter
  ELSE IF Cardinality(limiter) > Modified THEN \E old \in limiter : limiter' = (limiter \ {old}) \cup {n}
  ELSE limiter' = limiter \cup {n}

(* ... and then signals it, or schedules its removal.                      *)
Signal ==
  /\ handling # NoEvent /\ handling' = NoEvent
  /\ LET n == handling.name
     IN  CASE handling.act = "added" -> view' = content /\ UNCHANGED <<m_url, timer, moveFrom, limiter>>
           [] handling.act = "removed" -> m_url' = n /\ timer' = (IF timer = "fired" THEN "fired" ELSE "on")
                                          /\ UNCHANGED <<view, moveFrom, limiter>>
           [] handling.act = "modified" -> LimiterNotify(n) /\ UNCHANGED <<view, m_url, timer, moveFrom>>
           [] handling.act = "oldName" -> moveFrom' = n /\ UNCHANGED <<view, m_url, timer, limiter>>
           [] handling.act = "newName" ->
                /\ view' = IF moveFrom \in view THEN (view \ {moveFrom}) \cup {n} ELSE view
                /\ moveFrom' = NoItem /\ UNCHANGED <<m_url, timer, limiter>>
  /\ UNCHANGED <<content, wire, changes, watchVars>>

(* After a second the timer's thread sends the removal; a rename follows   *)
(* its removal sooner.  The thread may have to wait for the mutex.         *)
RenameFollows == wire # <<>> /\ Head(wire) = [act |-> "oldName", name |-> m_url]
Timeout ==
  /\ timer = "on" /\ (RenameFollows => "slowRename" \in NotifyEvents)
  /\ IF "lateTimeout" \in NotifyEvents THEN timer' = "fired" /\ UNCHANGED <<view, m_url>>
     ELSE timer' = "off" /\ SendWithLock
  /\ UNCHANGED <<content, wire, handling, moveFrom, limiter, changes, watchVars>>
LateTimeout ==
  /\ timer = "fired" /\ timer' = "off" /\ SendWithLock
  /\ UNCHANGED <<content, wire, handling, moveFrom, limiter, changes, watchVars>>
LimiterExpires ==
  /\ \E n \in limiter : limiter' = limiter \ {n}
  /\ UNCHANGED <<content, view, wire, handling, m_url, timer, moveFrom, changes, watchVars>>

----------------------------------------------------------------------------
(* Watcher                                                                 *)

Start(n, d) == [n EXCEPT ![d].proc = "running", ![d].starts = @ + 1]
Stop(n, d) == [n EXCEPT ![d] = NoNotifier]
Poke(n, d) == [n EXCEPT ![d].lastEntry = entries']

(* makeSpace(): the directory not entered for longest.                     *)
Oldest(d) == d \in m_watches /\ \A x \in m_watches : notifier[d].lastEntry <= notifier[x].lastEntry

(* watchDirectory(): one that is watched already is poked.                 *)
WatchDirectory(d) ==
  /\ entries < MaxEntered /\ entries' = entries + 1
  /\ (open[d] > 0 => "twoTabs" \in NotifyEvents) /\ open[d] < 2
  /\ open' = [open EXCEPT ![d] = @ + 1] /\ entered' = [entered EXCEPT ![d] = entries']
  /\ IF d \in m_watches THEN notifier' = Poke(notifier, d) /\ UNCHANGED <<m_watches, gaveUp>>
     ELSE /\ gaveUp' = gaveUp \ {d}
          /\ \E left \in IF Cardinality(m_watches) < Capacity THEN {{}} ELSE {{o} : o \in {x \in m_watches : Oldest(x)}} :
               LET stopped == [x \in Dir |-> IF x \in left THEN NoNotifier ELSE notifier[x]]
                   started == Poke(Start(stopped, d), d)
               IN  /\ m_watches' = (m_watches \ left) \cup {d}
                   /\ notifier' = IF "startFails" \in NotifyEvents THEN [started EXCEPT ![d].proc = "failed"] ELSE started
  /\ UNCHANGED notifyVars

(* unwatchDirectory(), for the view that leaves.                           *)
LeftDirectory(d) ==
  /\ open[d] > 0 /\ open' = [open EXCEPT ![d] = @ - 1]
  /\ m_watches' = m_watches \ {d} /\ notifier' = Stop(notifier, d)
  /\ UNCHANGED <<gaveUp, entered, entries, notifyVars>>

(* maybeRestart(): one that failed starts again later; one that crashed,   *)
(* was told to end, or has failed too often is not watched any longer.     *)
NotifierEnds(d) ==
  /\ notifier[d].proc = "running"
  /\ \/ notifier[d].starts < StartLimit /\ notifier' = [notifier EXCEPT ![d].proc = "waiting"] /\ UNCHANGED <<m_watches, gaveUp>>
     \/ m_watches' = m_watches \ {d} /\ notifier' = Stop(notifier, d) /\ gaveUp' = gaveUp \cup {d}
  /\ UNCHANGED <<open, entered, entries, notifyVars>>
Restart(d) ==
  /\ notifier[d].proc = "waiting" /\ notifier' = Start(notifier, d)
  /\ UNCHANGED <<open, m_watches, gaveUp, entered, entries, notifyVars>>

NotifierNext == ServerChanges \/ NewEventFor \/ Signal \/ Timeout \/ LateTimeout \/ LimiterExpires
WatcherNext == \E d \in Dir : WatchDirectory(d) \/ LeftDirectory(d) \/ NotifierEnds(d) \/ Restart(d)
NotifySpec == NotifyInit /\ [][NotifierNext \/ WatcherNext]_<<notifyVars, watchVars>>

----------------------------------------------------------------------------
(* When the events have been handled and no removal is pending, views show *)
(* the directory: a rename told as a removal first loses no file.          *)
ViewsRight == wire = <<>> /\ handling = NoEvent /\ m_url = NoItem => view = content

(* Of the directories entered last, up to the capacity, those still open   *)
(* are watched by one process each; only one that gave up is left out.     *)
LastEntered(n) == {d \in Dir : entered[d] > 0 /\ Cardinality({x \in Dir : entered[x] > entered[d]}) < n}
OpenIsWatched ==
  /\ Cardinality(m_watches) <= Capacity
  /\ \A d \in LastEntered(Capacity) : open[d] > 0 => d \in gaveUp \cup m_watches
  /\ \A d \in Dir : notifier[d].proc \in {"running", "waiting"} <=> d \in m_watches

(* A view follows the directory it shows, and a directory that is open is  *)
(* watched.                                                                *)
NotifyRight == ViewsRight /\ OpenIsWatched
=============================================================================
