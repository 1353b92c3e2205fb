----------------------------- MODULE SmbFileJobs -----------------------------
(***************************************************************************)
(* The SMB worker's file jobs (open, read, write, seek, truncate, close in *)
(* kio_smb_file.cpp) and special commands (kio_smb_mount.cpp: mounting,    *)
(* unmounting, access control lists).                                      *)
(*                                                                         *)
(* A file is its length; every call to libsmbclient may fail.  KIO sends   *)
(* no further command of a file job once one of them has failed.           *)
(***************************************************************************)
EXTENDS Naturals, FiniteSets

CONSTANTS FileSize,       \* the longest a file may grow
          Mountpoint,     \* directories for mounts, below one parent
          AclSize,        \* pages an access control list takes at most
          MaxSpecials

ASSUME FileSizeAssumption == FileSize \in Nat

VARIABLES fd,      \* [open, offset, append]: the file of m_openFd at the server
          fds,     \* files this worker has open there
          length,  \* of the file, or -1 where there is none
          job,     \* [pc, mode, told]: the job; `told' is the client's position
          special, \* the special command under way
          mounted, dirs, parent, \* mounts, and the directories that exist
          specials \* started, for the bound

openVars == <<fd, fds, length, job>>
specialVars == <<special, mounted, dirs, parent, specials>>
fileJobVars == <<openVars, specialVars>>

None == 0 - 1
Mode == [read : BOOLEAN, write : BOOLEAN, append : BOOLEAN, truncate : BOOLEAN]
NoMode == [read |-> FALSE, write |-> FALSE, append |-> FALSE, truncate |-> FALSE]
NoFd == [open |-> FALSE, offset |-> 0, append |-> FALSE]
NoJob == [pc |-> "idle", mode |-> NoMode, told |-> 0]
NoSpecial == [pc |-> "idle", op |-> "none", point |-> None, pages |-> 1, result |-> "none"]
Larger(a, b) == IF a > b THEN a ELSE b

FileJobInit ==
  /\ fd = NoFd /\ fds = 0 /\ length \in {None, 1, 2} /\ job = NoJob
  /\ special = NoSpecial /\ mounted = {} /\ dirs \in SUBSET Mountpoint /\ parent = (dirs # {}) /\ specials = 0

(* closeWithoutFinish(): m_openFd keeps its value.                         *)
CloseWithoutFinish == fd' = NoFd /\ fds' = fds - 1
JobFails == job' = NoJob

(* open(): the file is looked at first, so only one that exists is opened, *)
(* whatever O_CREAT says.                                                  *)
OpenFile(mode) ==
  /\ job.pc = "idle"
  /\ mode.read \/ mode.write
  /\ \/ JobFails /\ UNCHANGED <<fd, fds, length>>
     \/ /\ length # None
        /\ fd' = [open |-> TRUE, offset |-> 0, append |-> mode.append] /\ fds' = fds + 1
        /\ length' = IF mode.truncate /\ ~mode.append THEN 0 ELSE length
        /\ job' = [pc |-> IF mode.read THEN "sniff" ELSE "open", mode |-> mode, told |-> 0]
  /\ UNCHANGED specialVars

(* The first bytes tell the type of the file.                              *)
Sniff ==
  /\ job.pc = "sniff"
  /\ \/ fd' = [fd EXCEPT !.offset = length] /\ job' = [job EXCEPT !.pc = "rewind"] /\ UNCHANGED fds
     \/ CloseWithoutFinish /\ JobFails
  /\ UNCHANGED <<length, specialVars>>

(* Mutant: what has been read for the type is not read again.              *)
NotRewound == fd
Rewound == [fd EXCEPT !.offset = 0]
Rewind ==
  /\ job.pc = "rewind"
  /\ \/ fd' = Rewound /\ job' = [job EXCEPT !.pc = "open"] /\ UNCHANGED fds
     \/ CloseWithoutFinish /\ JobFails
  /\ UNCHANGED <<length, specialVars>>

(* read(), write() and seek(): the client counts on from where it was.     *)
ReadFile(n) ==
  LET got == IF fd.offset + n <= length THEN n ELSE IF fd.offset < length THEN length - fd.offset ELSE 0
  IN  /\ job.pc = "open" /\ job.mode.read
      /\ \/ fd' = [fd EXCEPT !.offset = @ + got] /\ job' = [job EXCEPT !.told = @ + got] /\ UNCHANGED fds
         \/ CloseWithoutFinish /\ JobFails
      /\ UNCHANGED <<length, specialVars>>

WriteFile(n) ==
  LET at == IF fd.append THEN length ELSE fd.offset
  IN  /\ job.pc = "open" /\ job.mode.write /\ at + n <= FileSize /\ job.told + n <= FileSize
      /\ \/ \E took \in 0 .. n :
              /\ fd' = [fd EXCEPT !.offset = at + took] /\ length' = Larger(length, at + took)
              /\ job' = [job EXCEPT !.told = @ + took] /\ UNCHANGED fds
         \/ CloseWithoutFinish /\ JobFails /\ UNCHANGED length
      /\ UNCHANGED specialVars

SeekFile(offset) ==
  /\ job.pc = "open"
  /\ \/ fd' = [fd EXCEPT !.offset = offset] /\ job' = [job EXCEPT !.told = offset] /\ UNCHANGED fds
     \/ CloseWithoutFinish /\ JobFails
  /\ UNCHANGED <<length, specialVars>>

(* Mutant: the file stays open when it cannot be cut.                      *)
TruncateLeavesOpen == UNCHANGED <<fd, fds>>
TruncateFails == CloseWithoutFinish
TruncateFile(n) ==
  /\ job.pc = "open" /\ job.mode.write
  /\ \/ length' = n /\ UNCHANGED <<fd, fds, job>>
     \/ TruncateFails /\ JobFails /\ UNCHANGED length
  /\ UNCHANGED specialVars

CloseFile == job.pc = "open" /\ CloseWithoutFinish /\ JobFails /\ UNCHANGED <<length, specialVars>>

----------------------------------------------------------------------------
(* special()                                                               *)

SpecialGoto(pc) == special' = [special EXCEPT !.pc = pc]
SpecialEnds(r) == special' = [special EXCEPT !.pc = "idle", !.result = r]
SameDirs == UNCHANGED <<mounted, dirs, parent>>

StartSpecial(op, point) ==
  /\ special.pc = "idle" /\ job.pc = "idle" /\ specials < MaxSpecials /\ specials' = specials + 1
  /\ special' = [NoSpecial EXCEPT !.pc = op, !.op = op, !.point = point]
  /\ UNCHANGED <<openVars, mounted, dirs, parent>>

(* Commands 1 and 3: mkpath(), if asked for, then the password; a user who *)
(* cancels the dialog mounts as a guest; then smbmount.                    *)
MkPath ==
  /\ special.pc = "mkpathMount"
  /\ \/ parent' = TRUE /\ dirs' = dirs \cup {special.point} /\ SpecialGoto("mount") /\ UNCHANGED mounted
     \/ SpecialEnds("fail") /\ SameDirs
  /\ UNCHANGED <<openVars, specials>>
SmbMount ==
  /\ special.pc = "mount"
  /\ \/ special.point \in dirs \ mounted /\ mounted' = mounted \cup {special.point} /\ SpecialEnds("pass") /\ UNCHANGED <<dirs, parent>>
     \/ SpecialEnds("fail") /\ SameDirs
  /\ UNCHANGED <<openVars, specials>>

(* Commands 2 and 4: smbumount; 4 removes the directory and its parent,    *)
(* and fails when either is left.                                          *)
(* Mutant: what smbumount says is not looked at.                           *)
AlwaysUnmounted(ok) == TRUE
Unmounted(ok) == ok
SmbUmount ==
  /\ special.pc \in {"umount", "umountRmdir"}
  /\ \E ok \in BOOLEAN :
       /\ ok => special.point \in mounted
       /\ mounted' = IF ok THEN mounted \ {special.point} ELSE mounted
       /\ IF ~Unmounted(ok) THEN SpecialEnds("fail")
          ELSE IF special.pc = "umount" THEN SpecialEnds("pass") ELSE SpecialGoto("rmdir")
  /\ UNCHANGED <<openVars, dirs, parent, specials>>
RmdirMountpoint ==
  /\ special.pc = "rmdir"
  /\ \/ special.point \in dirs \ mounted /\ dirs' = dirs \ {special.point} /\ SpecialGoto("rmdirParent")
     \/ SpecialEnds("fail") /\ UNCHANGED dirs
  /\ UNCHANGED <<openVars, mounted, parent, specials>>
RmdirParent ==
  /\ special.pc = "rmdirParent"
  /\ \/ dirs = {} /\ parent' = FALSE /\ SpecialEnds("pass")
     \/ SpecialEnds("fail") /\ UNCHANGED parent
  /\ UNCHANGED <<openVars, mounted, dirs, specials>>

(* getACE(): the buffer grows a page at a time until the list fits.        *)
GetACE ==
  /\ special.pc = "getACE"
  /\ \/ special.pages < AclSize /\ special' = [special EXCEPT !.pages = @ + 1]
     \/ \E r \in {"pass", "fail"} : SpecialEnds(r)
  /\ SameDirs /\ UNCHANGED <<openVars, specials>>
SetACE == special.pc = "setACE" /\ (\E r \in {"pass", "fail"} : SpecialEnds(r)) /\ SameDirs /\ UNCHANGED <<openVars, specials>>

FileJobNext ==
  \/ special.pc = "idle" /\ ((\E mode \in Mode : OpenFile(mode)) \/ Sniff \/ Rewind \/ CloseFile)
  \/ \E n \in 0 .. FileSize : ReadFile(n) \/ WriteFile(n) \/ SeekFile(n) \/ TruncateFile(n)
  \/ \E op \in {"mount", "mkpathMount", "umount", "umountRmdir", "getACE", "setACE"}, p \in Mountpoint : StartSpecial(op, p)
  \/ MkPath \/ SmbMount \/ SmbUmount \/ RmdirMountpoint \/ RmdirParent \/ GetACE \/ SetACE
FileJobSpec == FileJobInit /\ [][FileJobNext]_fileJobVars

----------------------------------------------------------------------------
(* The client of a file job counts its position itself: it is the server's *)
(* as long as the job lives (open() tells a job that appends the start of  *)
(* the file as well), and no file stays open when the job is over.         *)
PositionAgreed ==
  /\ job.pc = "open" => fd.append \/ job.told = fd.offset
  /\ fds = IF job.pc = "idle" THEN 0 ELSE 1

(* A special command that passes has done what it was asked: the share is  *)
(* mounted, or it is not and, with command 4, its directories are gone.    *)
SpecialIsDone ==
  special.pc = "idle" /\ special.result = "pass" =>
    /\ special.op \in {"mount", "mkpathMount"} => special.point \in mounted
    /\ special.op \in {"umount", "umountRmdir"} => special.point \notin mounted
    /\ special.op = "umountRmdir" => special.point \notin dirs /\ ~parent

(* Worker and server agree on the position of an open file; a special job  *)
(* that passes has mounted, unmounted or set what it was asked to.         *)
FileJobsRight == PositionAgreed /\ SpecialIsDone
=============================================================================
