# A TLA+ model of kio-extras

kio-extras is a collection of KIO workers: processes that give KDE applications
access to remote shares (SMB, SFTP, fish, NFS), devices (MTP, AFC) and virtual
directories (archives, searches, thumbnails, recently used files) through one
interface. An application sends a job (get, put, copy, rename, ...) to a worker,
exchanges data with it and may kill it at any time; the worker talks to a server
or a device, which may fail at any request.

This directory keeps TLA+ models of the parts of that code whose correctness
depends on orders of events a test hardly reaches, the TLC configurations that
check them on small instances, and TLAPS proofs about them.
`PROJECT.json` is the index: components, runs, the mutants that show each property
has teeth, the map from definitions to source lines, findings, hazards, theorems.

## 1. Inventory

| Component | State it keeps | Operations | Interacts with | What is hard |
|---|---|---|---|---|
| SMB ring buffer (`smb/transfer.cpp`) | array of segments, head, tail, done flag, mutex, condition variable | nextFree, push, pop, unpop, done | two threads of one transfer | segments are used outside the mutex; lost wake-ups; full/empty at the wrap-around |
| SMB read-ahead (`kio_smb_file.cpp` get, `kio_smb_dir.cpp` smbCopyGet) | read offset, isErr flag, result | one push thread, one worker thread | ring buffer, libsmbclient, application | kill and errors while the other thread is blocked; join |
| SMB copies, put, part files (`kio_smb_dir.cpp`, `kio_smb_file.cpp`, `transfer_resume.h`) | destination, `.part` file, resume offset, flags | copy, put, shouldResume, concludeResumeHasError | server, local file system, application | resuming after a kill, a failure or a crash at any point; replacing the destination |
| SMB namespace (`kio_smb_dir.cpp`) | stat cache of one request | rename, del, mkdir | server with or without case-sensitive names | telling a change of case from an existing file |
| SMB file jobs, mounts, ACLs (`kio_smb_file.cpp` open ... close, `kio_smb_mount.cpp`) | m_openFd, m_openUrl | open, read, write, seek, truncate, close, special | libsmbclient, smbmount | a descriptor and a position kept over commands, two or three calls per special job |
| SMB browsing and discovery (`kio_smb_browse.cpp`, `*discoverer.cpp`) | list of discoverers, pending entries, timers | stat, listDir, fileSystemFreeSpace | DNS-SD, WS-Discovery, libsmbclient | end condition over three asynchronous sources, redirects |
| SMB authentication (`smbauthenticator.cpp`, `kio_smb_auth.cpp`) | credentials of the URL, of the cache, of the settings | auth callback, checkPassword | password server, libsmbclient | retry loop |
| SMB watcher (`smb/kded`) | watched directories, notifier processes, a pending removal | watch, unwatch, restart, events | KDirNotify, helper process | process death and restart, a timer on its own thread |
| Fish client (`fish.cpp`) | command queue, output buffer, raw read and write counters, error count | all KIO operations, run | ssh, fish server, application | two byte streams that must stay in step across errors and operations; state left by earlier commands |
| Fish server (`fish.pl`) | current directory, open file | one handler per command | client | replies with raw data of a promised size |
| SFTP worker (`kio_sftp.cpp`) | connection, user, open file, queue of requests under way | all KIO operations | libssh, password server | pipelined reads and writes, logins with retries, a session that dies, part files |
| NFS worker (`kio_nfs.cpp`, `nfsv3.cpp`) | host, protocol, exports, handle cache, transfer sizes | all KIO operations | RPC server | stale handles, several hosts in turn, copies |
| NFS stubs (`rpc_nfs3_prot_xdr.c`, generated) | none | encode, decode, free | RPC library | choices, pointers and lists that the words themselves describe |
| MTP worker and daemon (`mtp`) | devices with their D-Bus paths, storages with a cache of ids, posted copies | get, put, rename, ... over D-Bus | libmtp, Solid | two workers on one storage, unplugging, delayed removals, reused names |
| AFC worker (`afc`) | devices, clients, open file, apps | all KIO operations | libimobiledevice | removal events on another thread |
| File name search (`filenamesearch`) | queue of directories, visited directories, the tool's output | listDir, stat | KIO jobs, external tool | loops through links, output in pieces |
| Archive workers (`archive`) | open archive, its path and mtime | get, stat, listDir | KArchive | stale archive |
| Thumbnail worker (`thumbnail`) | plugin and folder caches, shared memory | get | thumbnail plugins | several processes share one cache |
| Recently used, activities, info, man, filter, control modules | hardly any | read-only views, formatting, dialogs | databases, text tools | none of the kinds above |

What makes each part correct: a transfer delivers the bytes of the source in
order and reports success only for all of them; threads neither race nor block
for ever; a job that ends, fails, is killed or crashes leaves the destination as
it was or complete, and a part file only if it can be resumed; nothing is
replaced that the application did not allow to be replaced; a client and its
server agree about which bytes are a reply and which are data; a cache never
answers for an object that has changed; every job ends.

## 2. Modules

| Module | Models |
|---|---|
| `TransferRingBuffer` | `TransferRingBuffer` of `smb/transfer.cpp`: each method as the steps between two points at which the mutex is released, with the condition variable as the set of sleeping threads |
| `SegmentQueue` | what the buffer promises: a bounded first-in first-out queue that can be closed |
| `SmbReadAhead` | the two threads of get() and smbCopyGet() around the ring buffer |
| `SmbCopy` | smbCopy, smbCopyGet, smbCopyPut and put with `transfer_resume.h`, over a sequence of jobs |
| `SmbNamespace` | rename, del and mkdir |
| `SmbFileJobs` | open, read, write, seek, truncate, close, and special(): mounts and ACLs |
| `SmbBrowse` | stat, listDir and its discoverers, and the logins they need |
| `SmbNotify` | the notifier process and the watcher of kded |
| `SmbCopy_proofs` | proofs about `SmbCopy`, `SmbFileJobs`, `SmbNotify`, `SmbBrowse` and `SmbNamespace` |
| `NfsCopy_proofs` | proofs about `NfsCopy`, `NfsSession`, `NfsHandles` and `NfsXdr` |
| `SmbReadAhead_proofs` | proofs about `SmbReadAhead` and `TransferRingBuffer` |
| `FishWire` | the two streams between a fish worker and the remote process, and the units they carry |
| `FishServer` | fish.pl, or a shell that runs the shell equivalents of `fishInfo[]` |
| `FishClient` | `fishProtocol`: command queue, output buffer, select loop, parser of replies, every operation |
| `Fish` | both ends, the application and a connection that may break |
| `SftpAsyncRead` | asyncRead of `kio_sftp.cpp` with its requests under way, the loop of sftpGet that consumes it, the server and another client that changes the file |
| `SequentialRead` | what asyncRead promises: the bytes one after the other, success after exactly the size asked for |
| `SftpTransfer` | sftpPut with asyncWrite, sftpCopyPut and sftpCopyGet, over a sequence of jobs on one connection |
| `Fish_proofs`, `FishDone_proofs` | proofs about `Fish` with fish.pl: the two streams, and what the operations do |
| `Sftp_proofs` | proofs about `SftpAsyncRead`, `SftpTransfer`, `SftpSession` and `SftpNames` |
| `SftpSession`, `SftpNames` | logging in; the operations on names and the open file of a logged-in worker |
| `NfsSession` | which server, with which protocol, the worker talks to |
| `NfsHandles` | exports, the cache of handles, and the operations on names |
| `Nfs` | `NfsSession` and `NfsHandles` side by side |
| `NfsCopy` | put, copySame, copyFrom and copyTo, over a sequence of jobs |
| `NfsXdr` | the messages from the writer's stub to the reader's |
| `MtpStorage`, `MtpWorker`, `MtpDevices` | a storage in the daemon; two workers that use it; the daemon's list of devices |
| `Mtp` | `MtpWorker` and `MtpDevices` side by side |
| `MtpWorker_proofs` | proofs about `MtpStorage`, `MtpWorker` and `MtpDevices` |
| `Afc` | the AFC worker and its device events |
| `NameSearch`, `SearchTerms` | which directories are searched and which entries reported; the words of a pattern |
| `Archive` | the archive workers |
| `Workers_proofs` | proofs about `Archive` and `Afc` |
| `MC*` | instances for TLC; a composite instance puts modules that share no state side by side, and a behaviour is of one of them |

### TransferRingBuffer and SmbReadAhead

`head`, `tail`, `m_buffer`, `m_done` and `waiting` (the threads inside
`m_cond.wait`) are the state of the buffer; `SmbReadAhead` adds the program
counters `ppc` and `cpc` of the two threads, the number of chunks read, the
chunks delivered (`out`), the result, `isErr` and whether the job was killed. A
segment is abstracted to the number of the chunk of the file it holds, `EndOfFile` and
`ReadError` standing for sizes 0 and -1. A step is what one thread does between two
points where the other can be observed: a critical section, an access to a segment
outside the mutex, a read or write of the shared flag. Reads and writes may fail at
any chunk, the job may be killed at any time, and a sleeping thread may wake
without a notification (`SpuriousWakeup`), as the standard allows.
`Operation` selects which of the two functions the worker thread runs (the
instance checks both): they differ in what they do after a failed write and after a kill.

Fairness: weak fairness of each thread's own steps. Both are threads of the
operating system, the mutex is held for a few instructions only, and smbc_read()
ends by itself through the timeout set in the context. Nothing is assumed about
kills, spurious wake-ups or failures.

### SmbCopy

The state is the destination, its `.part` file, the running job with its flags and
the `TransferContext` (`ctx`) of `shouldResume`. A file is a sequence of chunk
numbers, the source is 1 .. Chunks, so that a file that holds the right data is
a prefix of the source. Jobs of any kind follow each other, each with any
combination of KIO::Overwrite and KIO::Resume; every request can fail, and
a job can be killed (the loop ends, as `wasKilled()` makes it do) or the worker
can crash (everything but the files is lost) at any point. `RenamePart` is separate
from the removal of the destination because the code makes two requests. A stat of the server
may fail for a file that is there, and the code takes that for absence
(`Stats`); `ctx.unseen` remembers that it happened to the destination, which
`NoUninvitedOverwrite` excepts (section 4), but for smbCopy, whose open has O_EXCL (`Exclusive`).

Assumed of the environment: the source does not change between jobs; the
application passes KIO::Resume only where the destination is absent or a beginning
of the source; one job at a time works on a destination; a negative result of
readData() is treated as a kill; a failed flush of a QFile loses the last chunk.
Permissions and times are left out. `PutSeekFails` says whether put()'s seek to
the end of a resumed file may fail (section 4).

### SmbNamespace

A directory of names, two of which may differ in case only, on a server that
is case-sensitive or not and that reports real inode numbers or none. rename() is
three requests (stat of the source, stat of the destination, rename); del and
mkdir are one. Each stat may fail for a name that is there, and the name then counts as free
(`Stat`); `dstUnseen` remembers it of the destination. `Key` is what the server compares, `Folded` what
`toLower()` compares.

### FishWire, FishServer, FishClient and Fish

fish sends each command twice, as a fish command that a shell takes for a comment and
as a shell command that fish.pl ignores; the reply ends with a line `### nnn`,
and where a file is transferred, as many bytes of data as were announced before
stand between two such lines. Nothing else keeps the two ends in step.

A stream is a sequence of units (a line, a portion of data, the newlines behind data,
the source of fish.pl), with room for `Room` of them. Every unit of a reply carries
the number of the request it answers, which the code does not have: it is there to
say that a reply is read by the command it belongs to (`RepliesInStep`).
`cl` holds the members of `fishProtocol` that several functions change in turn;
writeChild, writeStdin, finished, sent and sendCommand are functions from one such
record to the next, in the order in which the code calls them. The loop of run() is
`SelectWrites`, `SelectReads`, `SelectBroken` and `SelectTimesOut`, in the
code's order of preference: it reads only when nothing can be written.
writeChild() drops a write while another is under way, and only that order
makes sure that it never has to (`NobodyWaits`, and its mutant). received()
and manageConnection() are the actions from `ReceiveData` on, one for each kind of
line and status.

The server is a nondeterministic choice among the outcomes of each command
(`Outcomes`): a file system afterwards, a reply, and whether the command was carried
out, which the properties compare with what the client reports. With a server
of `Faulty` remote calls fail at will and the connection may break at any moment,
after which what was already printed can still be read. A failed COPY leaves a part of
the source behind. `server = "sh"` is the other server the code supports, a host
without Perl.

Abstractions: a path that is a link stands for what is seen through it; the content
of listings is an entry or none; quoting of names and time stamps are left out. The
login (ssh's questions, passwords) is one step that connects or fails. A killed job
ends the worker process, so nothing follows it. A new connection gets a new server, and an
old one that still runs for a moment is taken to stop with its connection. The
fifteen newlines behind data are one unit. In shell mode, a read of a pipe
that returns less than asked for is not modelled for STOR and APPEND, which avoid it
by `ibs=1`.

Fairness: weak fairness of the client's steps and of the server's steps; both are
processes that run, select() returns within a millisecond, and remote system calls
return.

### SftpAsyncRead and SequentialRead

`reqs` is the queue of read requests with their offsets, lengths and answers, the
head of it being the one that was taken while `pc = "wait"`; `queued` and
`received` are the code's two counters, `out` the extents yielded to sftpGet.
The handle's offset advances with every request (libssh does that), so
each assumes that all before it will be answered in full. The server answers in
order, with an error or with any number of bytes up to what was asked for and
to what the file has at that moment; another client truncates or extends the file
at any time. Extents are offsets and lengths: the content of the file is
not modelled, and a file that is changed in place is not either. libssh's blocking mode is assumed,
in which SSH_AGAIN does not occur.

Fairness: the worker runs, and libssh answers or fails every request, by its
timeout at the latest.

### SftpTransfer

As in `SmbCopy`, a file is a sequence of chunk numbers and jobs follow each other
on one destination, which is local (sftpCopyGet) or remote (sftpPut, with its data
from the application or, through sftpCopyPut, from a local file). `worker` holds the
members that outlive a job. `alive` is what the worker does not know: whether the
session still works. A broken one is found out by the first request that fails, and
the next job uses it again, because `mConnected` stays true. A kill is
noticed where the code calls wasKilled(), or makes readData() fail; a crash
loses everything but the files. `pend` are the writes that asyncWrite has under way
and `acks` the answers it has not looked at; the server carries out writes in order.
A request carries one chunk (asyncWrite splits larger ones and queues all pieces).
Removing a file may fail wherever the code ignores the result.

Assumed of the environment: the source does not change between jobs;
lstat() fails only if there is no file or no connection;
the application resumes only where the part file is a beginning of
the source; the two clean-up requests of a broken session have no effect. Owner, group,
times and the values of permissions are left out. The build for libssh without
asynchronous requests (`GetRequest`) is not modelled. `Events` are things that can
happen and that the code does not take care of: the passing run has none of
them, and section 4 says which property each one breaks.

Fairness: weak fairness of the job's steps, the server's writes among them: calls
return, and libssh's timeout ends the ones that would not.

### SmbFileJobs

`fd` is the file behind m_openFd as the server has it, `job.told` the position the
client was told; a file is its length. open() looks at the file first, reads a
beginning for the mimetype and rewinds; each of its calls, and each later one, may fail, and
then the job is over, because KIO sends no further command of it. special() is
`MkPath`, `SmbMount`, `SmbUmount`, `RmdirMountpoint`, `RmdirParent`, `GetACE`
and `SetACE`, one call each.

### SmbBrowse

A command is stat(), listDir() or fileSystemFreeSpace() of a URL, which is a
record of what the code tests: scheme, form, host, user, path. `CheckRequest`
is checkURL() with its redirects, `CheckPassword` the login: the user of the URL, the
password server, the settings, the dialog, in the order auth() tries them. A login typed into the dialog is
saved by the worker when it is to be kept (`kept`); of another the password server may remember or not.
A request fails for want of a login, with an error that stat() or
listDir() takes for that though it may be something else, or otherwise (`Errors`); `refusal` is which
one opened the dialog. In the
loop of listDir() a step is the handling of one event of its QEventLoop: `smbc`,
`dnssd` and `wsd` are the discoverers with what they still wait for,
`listed` is what was sent to the application. Names are equal here when
they are equal without regard to case.

Fairness: the commands' own steps and the WS-Discovery timer. A timer fires, the
DNS-SD browser finishes and resolves by its timeouts, and libsmbclient returns.

### SmbNotify

The notifier has a directory (`content`), the events of the server in their order
(`wire`), the pending removal `m_url` with its timer and the views that
its signals reach (`view`). A rename is told as a removal, then as an old and a new name, which
is what PendingRemove is for. The watcher has `m_watches`, at most `Capacity` of them, and one
`notifier` each: its process, which may end and is started again up to `StartLimit` times, and
the time it was last entered (`lastEntry`), by which makeSpace() finds the `Oldest`. The two
halves share nothing but the process, whose start and end are the watcher's.

### SftpSession and SftpNames

A step is one call to libssh, to the password server or an answer of the user.
`mSession` is libssh's, `mConnected` and `mUsername` are the worker's, `info`
what the dialog holds, `cached` the password server. The server offers any of the
sets in `Offers` and accepts each attempt or not; a password is named after the
user it belongs to, so a right one is right for one user only. Event `dies`: the session ends
between two calls, which the next call finds out. `entries` are names with
what each was in the beginning, so that a rename can be told from a removal.
mOpenFile is `dangling` when the session it belongs to was freed.

### NfsSession, NfsHandles and NfsCopy

`NfsSession` is setHost(), verifyProtocol() and the two openConnection()s: which
account the worker was told, which protocol object it has, whose exports and handles that
one keeps. `NfsHandles` takes one account further: `object` is the server's
objects with the handle numbers it never gives out twice, `m_handleCache` maps
paths to them. The exported directories are a set, since the code only asks whether a path is in, above or
below one. A path has at most three names: an export, a directory in its root, a file. An operation is one step, because the worker has one thread and
waits for every call; within it the server may stop answering before any of its
calls, which is in each action as the variable `up`. Other clients create and remove
between two operations. `NfsCopy` is like `SmbCopy` for put, copySame, copyFrom and
copyTo; `ListedFirst` says whether the worker has asked the server for its transfer sizes.
NFS has no open files and the worker never looks at wasKilled().

### NfsXdr

A stub is data: the stubs it calls in their order, in tables along the file. The writer of a message walks through
it and chooses the words, the reader walks through its own table (`Decoder`; for PATHCONF the
generated code has two bodies) and is led by the words it finds. Words stand
for the values the stubs branch on; others are one word 7. Messages are cut anywhere (`cut`), or
come from a version with other choices and lengths (`otherVersion`).

### MtpStorage, MtpWorker and MtpDevices

`MtpStorage` is the daemon's storage: methods are operators over the object table, the
cache from paths to ids with its expiry, and the copies promised but not begun
(QTimer::singleShot(0)). `MtpWorker` runs two workers (mtp.json allows two) on it, one
step for each call over D-Bus; signals of the storage reach every worker that holds an
interface and wait in its queue. The device may be unplugged and
come back between any two steps. `MtpDevices` is the list of kmtpd:
D-Bus paths, Solid's events, removals that are delayed, friendly names and what views show.

### Afc

Devices come, go and refuse trust; the worker has one client per container, an open file
and the apps it has seen. A file is whose data it holds and how much of it, a
step is one call to libimobiledevice. The handling of a removal takes m_mutex but is
not kept from using what a command holds: `unplugInUse`. A write may succeed and store less than it was given
(`ShortWrite`), which put() and copy() do not notice; the file is then of "cut", and the job's `short`
remembers it for `TransferDone` to except (section 4).

### NameSearch and SearchTerms

`Tree` is a tree of files, directories and links; a path is a sequence of names and separators,
as the code compares strings. `pending`, `iterated` and `todo` are the code's stack,
its set of visited directories and the listing under way. What must be reported is said without them:
`PlacesReached` is the least set of directories that holds the root and what the links lead to, `ComesUpon` what
a listing of one shows, and `Clear` leaves out what has the path of a barred folder at its front. A listing may
fail, of all that is left of it or of one directory in it (`ListingFails`: an error, a kill), and the
worker passes all the same; `missed` are the entries it kept back, and the search owes a report of the others only
(`Sought`). What a link shows of a special file system is dropped (`Skipped`), and owed by nothing. `TreeAssumption` is what a
file system gives: paths are unique and do not end with a separator, nothing is inside a file or a link.
The external tool prints NUL-terminated paths that are read in any pieces, and `SearchRight` joins both searches. `SearchTerms` splits every pattern up to `MaxPattern` characters and
checks the words, and the matching of terms in names and lines, against what they should be.

### Archive

The disk has archives, directories and other files at paths of one or two names; other
programs replace and remove them at any moment, a clock ticks in seconds. `m_archiveName`,
`m_mtime` and the open archive's version are the worker's. KArchive is a table
from versions to members; get() of a member that is a link (`LinkMember`) redirects and sends nothing. `answer` is the version an answer was made from, `seen` the
versions that were on the disk during the command.

## 3. Runs

| Run | Instance | Shows |
|---|---|---|
| `read_ahead` | get and smbCopyGet, capacity 4, 8 chunks, every offset | exclusive use of segments, no lost wake-up, no blocked join, data in order, success only for the complete file, termination, refinement of `SegmentQueue` |
| `smb` | copies: 3 chunks, 3 jobs; renames: 3 names, 3 inodes, a server that ignores case; browsing: 4 names, two DNS-SD services, one WS-Discovery endpoint, two logins; files of up to 3 units, 3 special jobs; 3 items and 5 changes; 3 directories over a capacity of 2 | part files are resumable and only grow, success is complete, the destination survives failures and crashes, nothing is replaced uninvited unless the server could not be asked about it; renames destroy no other file; a listing is complete, without duplicates and ends, a kept login that is accepted is asked for again only on an error that may mean something else; positions agree, special jobs that pass were done; views follow the directory and open directories are watched |
| `rename_case_sensitive` | a case-sensitive server | **violated**: a different file is taken for the source |
| `fish_transfer` | fish.pl with faults and a plain shell without, 1 path, room for 2 units, 2 jobs | get, put, mimetype, stat and pwd (with the shell also the other operations): replies and data stay in step, transfers that pass are exact, nobody waits for nothing, every job ends |
| `fish_namespace` | fish.pl, 2 paths, room for 1 unit, 2 jobs, faults | nothing replaced uninvited, nothing passes that was not done |
| `fish_exec_refused` | fish.pl, exec | **violated**: a refused EXEC leaves the client waiting |
| `sftp` | reads: 7 bytes, chunks of 2, window of 2; transfers: 3 chunks, window of 2, 3 jobs; session: 2 users, 4 sets of methods, 2 names, 2 logins, 2 commands | a pipelined read is in order, complete on success, ends, and implements `SequentialRead`; transfers are sound and end; every operation runs as the user its URL names, cached passwords are right, no freed file is used, changes that pass were made, and no name goes that was not named |
| `sftp_permissions_asked` | 2 jobs, a server that refuses permissions | **violated**: every file is warned about on one connection |
| `nfs` | handles: 2 directories, 2 file names, 5 objects, 5 operations; transfers: 3 chunks, 3 jobs; session: 2 accounts; 17 messages with lists of up to 3 entries, cut or of another version | cached handles are of the object at their path and of the right host, exports stay, only what was named is removed, transfers are sound, a message arrives as it was sent or is refused |
| `nfs_fresh_worker` | a worker that has not listed anything | **violated**: a copy within the server passes and is empty |
| `workers` | MTP: 2 names, 3 objects, 2 workers, 2 jobs, unplugging, expiry; devices: one plugged in at a time, three times; AFC: 1 device, 2 names, 2 jobs; a tree of eleven entries with links up, out, in and into `/dev`, listings that fail; patterns of up to 5 characters; archives: 3 versions, 2 commands | lookups in the cache are right, no signal is missed, nothing goes that was not named, no view loses a plugged device; no AFC handle outlives its device, transfers are whole unless a write was cut short, existing destinations stay; a search finds once everything its listings do not keep back; an answer is fresh and whole |
| `mtp_two_devices` | two devices plugged in at a time | **violated**: two devices share a D-Bus path |

Bounds. Capacity 4 with 8 chunks makes both indices wrap around with the buffer
full, empty and in between (the code's own capacity is 4); the offset at which a copy
resumes ranges over the whole file. Three chunks give a
part file that is empty, shorter than, equal to and longer than `MinKeep`
(the MinimumKeepSize setting), and three jobs are enough for one that leaves a
part file, one that resumes and spoils it and one that publishes it. Three names
are two that differ in case and one that does not. For browsing, one computer is found by
two of the discoverers and one by one of them, one share takes one of the two logins. Three directories
over a capacity of two make entering evict, with the evicted notifier running or
waiting for its restart. For fish, a file of three portions
is longer than `mimeBuffer` (two) and than a stream, so that replies are cut inside
and between their parts; two operations in a row on one connection, or with a
reconnect between them, show whatever one leaves to the next; put sends its three portions
in every grouping. The shell part leaves out mimetype (one dd of a pipe may return less than READ asks for, `fish.cpp:225`, and the client waits for the rest), rename, copy and mkdir, directories
and faults, whose outcomes section 4 describes. For sftp, 7 bytes are three full chunks and a
short one behind a window of two, so that requests are sent ahead, during and
after the first answer; a window of two lets a write fail with another behind it;
two commands show what the first leaves to the second. Five NFS operations are enough
to create, list, rename over, remove and use a path again. Three MTP ids let a file be
overwritten and another take its name while the cache still holds the first; two jobs
of two workers overlap in every order. Two archive commands with three versions
see a file replaced before, between and within them.

Composite runs put modules side by side that share no state in the code either
(other processes, other functions of one idle worker); a behaviour is of one of
them. Properties of such a run are conjunctions of what a module states, named in
that module where a theorem states them too, else in the MC module. Symmetry is used where a set's elements are interchangeable
(`nfs`: file names; `workers`: the names of MTP and AFC, and workers) and no liveness is checked.
`CHECK_DEADLOCK FALSE` stands where the bounds, or an idle worker, end a behaviour.

`MtpDevices` with one device plugged in at a time satisfies `ViewsCatchUp` (views show what is plugged in, in the end) under the fairness of
`MtpDevices`; it is not part of a run because of the symmetry of `workers`.

Every violated run states what a comment, README or protocol description says,
quoted in `findings`. Each property of the passing runs has a mutant in `PROJECT.json`; the
other operators marked "Mutant:" in the modules violate a property of the same run.

## 4. Deviations met while modelling

Five are runs that TLC finds violated (marked above and listed as `findings`).
Others that the models show, without a run of their own:

- A killed smbCopyGet or smbCopyPut leaves its loop with a passing result
  (`kio_smb_dir.cpp:403`), and concludeResumeHasError renames the truncated part
  file over the destination; `transfer_resume.h:163` wants it called "after
  writing to the destination has completed". sftpCopyGet
  (`kio_sftp.cpp:1417`) and, when the data of put() ends by the kill,
  sftpPut do the same. `SuccessIsComplete` and `ContentSafe` therefore except killed jobs.
- In shell mode sendCommand() puts `### 200` behind every command whatever became of
  it (`fish.cpp:851`), so that a failed mkdir passes. `PassIsDone` speaks of fish.pl only.
- In shell mode get() of a directory returns ERR_IS_DIRECTORY in the middle of a
  reply and keeps the connection (`fish.cpp:1121`), so that the rest answers the next command:
  `RepliesInStep` is violated there, although `src/fish/README:182` says that
  RETR can be aborted only by closing the connection.
- A failed smbc_read() of smbCopyGet is pushed as a segment of size -1, which
  QFile::write() rejects, so that the error reported is ERR_CANNOT_WRITE for the local
  file; the test commented "check if read had an error" (`kio_smb_dir.cpp:292`)
  is reached only if the job was killed. get() passes such a segment to data()
  (`kio_smb_file.cpp:97`) before it reports the error.
- A put() with KIO::Resume whose smbc_lseek() fails goes on and writes over the
  beginning of the file (`kio_smb_file.cpp:341`): with
  `PutSeekFails = TRUE` `PartFileRight` is violated.
- cache_stat() returns any errno of smbc_stat() (`kio_smb_browse.cpp:48`), and everything but 0 is taken for a free name:
  after a time-out or a refusal put() truncates an existing file (`kio_smb_file.cpp:315`), smbCopyPut
  renames its part file over it (`transfer_resume.h:42`, 136) and rename() replaces it
  (`kio_smb_dir.cpp:554`), all without KIO::Overwrite. `NoUninvitedOverwrite` and `RenamesRight` are violated by that and
  except it (`ctx.unseen`, `dstUnseen`); nothing else is lost then. smbCopy opens with O_EXCL and is safe from
  it (mutant `OpenNotExclusive`).
- EINVAL from smbc_opendir(), and EEXIST with the workaround for it, open the login dialog whatever the reason
  (`kio_smb_browse.cpp:173`, 482), also after a login that was accepted: `NotAskedTwice` excepts it (`refusal`).
- copy() and put() of the AFC worker take what they gave to a write for what was written: the count that comes back
  is not compared (`kio_afc.cpp:556`, 776 with a TODO, `afcfile.cpp:90`). A
  transfer with a short write passes, with a file that lacks something: `TransferDone` excepts it (`short`).
- The file name search does not look at what `listJob->exec()` returns (`kio_filenamesearch.cpp:628`), marks the
  directory as visited all the same (704) and passes: what a listing that failed, ended early or was killed did not
  give is not reported, nor looked for when another link leads there. `SearchExact` excepts these entries (`missed`), and
  those below `/dev`, `/proc` and `/sys` that the code drops deliberately (636).
- sftpCopyGet asks the application whether to resume with the size of the
  destination, not with that of the part file (`kio_sftp.cpp:1743`).
- asyncWrite may have more than MAX_PENDING_REQUESTS under way when the server's
  limit is below the size of what it reads (`kio_sftp.cpp:2372`).
- rename(), symlink() and copy() of fish do not reset `checkExist`; with a plain shell
  the listing of a missing path succeeds without an entry, so that the value an
  earlier operation left makes the next one fail with ERR_FILE_ALREADY_EXIST.
- When both workers of a storage copy, copyFinished of one wakes the other
  (`org.kde.kmtp.storage.xml:62`), which then passes before its own copy is done:
  `FinishedMeansDone` of `MtpWorker` is violated by two jobs of two workers, and `PassIsDone`
  excepts a job woken this way.
- copyFrom of the NFS worker compares the minimum keep size with a QFileInfo that still knows the
  size it saw before the copy (`nfsv3.cpp:1370`), so that a part file resumed at a small size is
  removed however large it has become: `FailureKeepsProgress` of `NfsCopy` is violated. (What
  QFileInfo remembers of a file that was not there is Qt's choice; the model allows both.)

Things that can happen and that the code does not take care of are values of a
constant of the module. The passing runs have none of them; each, added alone, breaks what the
table says.

| Module | Value | Where | Breaks |
|---|---|---|---|
| `SftpTransfer` | `resumeComplete`: the part file is as long as the source | the offset is used only if it is less than the size (`kio_sftp.cpp:1406`), so the source is appended from its start | `TransfersSound` |
| | `writeHole`: a server carries out a write after it refused the one before | closeOnError keeps the file as it is (1548) | `TransfersSound` |
| | `appLost`: readData() fails without a kill | logged only (1580), the file is published | `TransfersSound` |
| | `localChmodFails` after another error | the job passes (1834) | `TransfersSound` |
| | `closeFails`: close() of the local file | the test before the rename looks at getResult only (1794) | `DestinationSafe` |
| | `renameReplaces`: sftp_rename() replaces, as posix-rename does | a resumed part file turns the test at 1507 off | `DestinationSafe` |
| `SftpNames` | `symlinkFails`: a symlink fails for another reason than an existing name | only KIO::Overwrite alone is told from success (`kio_sftp.cpp:2087`) | `NamesRight` |
| `NfsCopy` | `lookupFails`: a LOOKUP fails though the file exists | taken for a free name | `DestinationSafe` |
| | `shortWrite`: the server stores less than it was given | the count of the reply is not looked at (`nfsv3.cpp:1155`, 1559) | `TransfersSound` |
| | `flushFails`: the local file cannot take what QFile buffers | close() is not looked at (`nfsv3.cpp:1365`) | `TransfersSound` |
| | `appLost`: the application breaks off put() | ends as the end of the data does | `TransfersSound` |
| `NfsHandles` | `renameFolder`, `lookupFails` | only the handle of the source itself is dropped (`nfsv3.cpp:1964`), and only if the new name is found | `HandlesRight` |
| `MtpStorage` | `RenamesFolders`: the device renames folders | paths below the old name stay in the cache (`mtpstorage.cpp:515`) | `StorageRight` |
| `MtpDevices` | `OwnNames = FALSE`: two devices of one friendly name | a delayed removal takes the name of the other (`kmtpd.cpp:187`) | `DeviceChangesRight` |
| `SmbBrowse` | `resolvedTwice`: a service is resolved twice | counted twice (`dnssddiscoverer.cpp:70`), so the loop ends before another is resolved | `ListingRight` |
| | `readFails`: smbc_readdir() fails | taken for the end (`smbcdiscoverer.cpp:213`) | `ListingRight` |
| `SmbNotify` | `lateTimeout`: the timer has fired when the rename comes | sends a removal that was discarded (`notifier.cpp:67`) | `NotifyRight` |
| | `slowRename`: the rename comes more than a second later | the interval is fixed | `NotifyRight` |
| | `twoTabs`: two tabs show one directory | leaving one ends the watch of both (`watcher.cpp:133`) | `NotifyRight` |
| | `startFails`: a notifier cannot be started | it stays in the list (`watcher.cpp:54`) | `NotifyRight` |
| `Afc` | `unplugInUse`: unplugged during a command | the device is deleted under it (`kio_afc.cpp:245`) | `AfcRight` |
| | `acrossContainers`: copy or rename into another app | the client of the source serves both (`kio_afc.cpp:691`) | `AfcRight` |
| | `shrinks`, `killed`, `resumes`, `lost` | a file shorter than announced, a kill (780), a put that resumes, a device lost before the clean-up | `AfcRight` |
| `Archive` | `sameSecond`: two versions of one second | only the time is compared (`kio_archivebase.cpp:66`) | `AnswerRight` |
| | `truncated`, `killed`: the archive ends early, the job is killed | get() passes (`kio_archivebase.cpp:489`) | `AnswerRight` |

Met while reading, and outside the models: two workers that share one part file; a source that changed
since the part file was written; another client that creates the destination between
rename()'s stat and smbc_rename(); put() over NFS with a buffer of no bytes does not end
(`nfsv3.cpp:910`), nor copyFrom() when the source shrinks (1360); the internal search leaves out `d.t` when a directory `d`
beside it is hidden or unreadable, because it enters the name without separator
(`kio_filenamesearch.cpp:679`) and compares beginnings, where the comment at line 44 speaks of what is within
(`Clear` excepts it); and whether an entry of a hidden folder that a link leads to is reported depends on which of them is come upon first; it is used as a fall back only when the tool exits with 127;
the limiter of the notifier holds one file more than m_cap (`notifier.cpp:154`).

## 5. Proofs

`SmbReadAhead_proofs` proves, for every capacity from 2 on, every file length
and both operations: `TypeCorrect`, `Exclusive`, `NoLostWakeup`, `JoinNotStuck`,
`DataInOrder`, `SuccessMeansComplete` and `RingImplementsQueue`. (The
comment in `transfer.h` asks for a capacity of at least three; the proofs show that
two is enough.) The assumptions are the ones `SmbReadAhead` and
`TransferRingBuffer` name about their constants.

The argument is in three layers, each an inductive invariant that uses the one
before.

- `SafetyInv`: which thread owns which segment at which program counter
  (`PushOwnsHead`, `PullOwnsTail`), why a sleeping thread sleeps (`Sleepers`), that
  nothing is pushed after `done()` (`DoneIsLast`), that `isErr` is set before the last
  segment is given back (`ErrState`) and that then there is room for the segment
  the push thread still holds (`RoomForLast`). The last two are why a join
  never blocks; neither is visible in the property itself.
- `OrderInv`: the pending segments hold consecutive chunks (`Consecutive`), the
  newest is the one before the read offset, the oldest the one after the last
  delivered.
- `CompleteInv`: an end of file in the buffer means that all before it was or will
  be delivered, and every other way to end is a failure or a kill.

The refinement maps the pending part of the ring to the queue of `SegmentQueue`,
and shows each step of either thread to be a push, a pop, a close or a stutter.

`Sftp_proofs` proves, of `SftpAsyncRead`, for every size, chunk size and window:
`ReadTypeCorrect`, `ReadWindow`, `ReadIsExact` and
`ReadImplementsSequential`. None of them is inductive. While the transfer runs,
`RunInv` says that the requests form a chain without gaps from `received` to
`queued` (`Chained`), that an answer is never longer than its request
(`AnswersFit`), that the queue is full until everything was asked for
(`KeptFull`), and that what was delivered is what was received. A short answer
breaks the link between the counter and the chain, and the code ends the transfer
at exactly that point: that is why the comparison at `kio_sftp.cpp:2327` is
enough. The refinement maps `count` to the end of the last extent; only a step that yields
changes it.

`SmbCopy_proofs` proves, for every length of the source, every MinimumKeepSize and
every number of jobs: `NothingUninvited`, `PartResumable`, `SuccessMeansWhole`,
`DestinationIsSafe` and `PartFileIsRight`. All but the first assume `~PutSeekFails`,
without which they are false (section 4). The argument:

- `Beginning(n)` is the file of the first n chunks of the source. The lemmas about it say
  what writing the next chunk, losing the last one and seeking to the end make of it;
  every later step is about n alone.
- `GuardInv` follows the flags through shouldResume and the opens:
  no path comes to a write without a flag that allows it, a stat of the destination that failed, or, in
  smbCopy, an open that fails when there is something.
- `DataInv` says, for each program counter, what the file being written is:
  while the loop runs, `Beginning(pos)` with the source at the same chunk;
  when a job ends, crashes or is killed, some beginning. This is why appending at
  the size of the part file is right whatever came before, and why a job that
  passes unkilled ends at `Beginning(Chunks)`, the source.
- `SafeInv` adds that until the last rename the old destination is there, or all
  of the source is in the part file; `ProgressInv` that a resuming job never holds
  less than the offset it resumed from.

`NfsCopy_proofs` proves the same two things of the NFS worker, for every length of the
source, threshold and number of jobs: `NfsTransfersSound` and `NfsDestinationSafe`.
Both assume `AllReported`: the worker has listed or read something before
(`ListedFirst`, without which SuccessIsComplete is false: the run `nfs_fresh_worker`) and
`Events = {}`, since each event breaks one of the two (section 4). `ControlInv`
says where an operation can be and that it has asked before it
writes; `DataInv` that what is written is `Beginning(pos)`, so that an append at
the size of the part file is right; `OldInv` that the old destination stays until the part
file is the source. `TypeInv` needs `DataInv`: what a rename puts at the
destination is a file only because the part file is.

`NfsCopy_proofs` also holds results about other modules of the worker.
`NfsHandlesOfHost`: in whatever order hosts, users, operations, failures and closed sessions
come, no operation uses a connection, exports or handles of another account (`SessionInv`:
the protocol object, when there is one, is of the account setHost() gave last and knows of no other).
`NfsWireFaithful`, for every set of messages and lists of any length, says that each field
is read as what it was written as, that a whole message is never refused and a cut one never accepted.
`EncoderGood` goes through the tables once: every stub calls stubs that
exist, every choice has an arm for each word written for it, every limit admits what is
written. `XdrInv` then says that the writer has left a walk of configurations, the
stubs that were left and the number of words written at each step, in which the reader is at some
place: its next step is the walk's next step (`Follows`), since encoding and
decoding use equal tables. A mutant that decodes PATHCONF in another order breaks just that.
`NfsHandlesRight` and `NfsNamesRight`, for every set of names and exports and any number of objects and
operations of this client and others, come from one invariant, `HandlesInv`:

- `TreeInv`: an export's root stays, a directory is such a root or in one, everything else is in a
  directory under a name that no directory has. So an object has one path (`PathsOfObjects`), and a child
  is below its parent (`ChildrenAreBelow`).
- `GoodCache`: a cached handle is of an object (or link) at its path, or of one that is
  gone for good, as the server gives no handle out twice; and a link leads to no directory. The last is
  what lets `HandlesOfDirs` conclude that a handle through which a child was found is that of
  the path's directory. `LookupIsGood` shows that getFileHandle(), from the cache or by LOOKUPs along the path,
  gives and caches such handles only, and drops none.
- `Evolves` is what every operation does to the server: nothing comes back, nothing with children
  moves. `TreeStays`, `PathsStay` and `CacheStays` follow from it once for all of them; an
  operation then has to say what it adds to the tree (`Arrives`) and to the cache.

Both assume `Cases = {}`: after the rename of a folder, what was cached below it stays, and after a failed
lookup behind a rename the source stays; each makes `HandleRight` false (section 4).

`SmbCopy_proofs` also proves, of the rest of the SMB worker:

- `SmbFileJobsRight`, without hypotheses: `PositionInv` relates the descriptor, its offset
  and what the client was told at each program counter; `SpecialInv` says what the steps of special()
  have done so far to mounts and directories.
- `SmbViewsRight`: `ViewInv` says, for each stage of an event and of the pending removal, by
  what a view differs from the directory: the removal still held back, the rename whose
  old name has come, the change still on the wire. It assumes `lateTimeout` and `slowRename` away;
  both break it (section 4). `SmbOpenIsWatched`: `WatchInv` orders the watches by their last entry,
  so that makeSpace() ends the oldest and the ones entered last stay; it assumes `twoTabs` and
  `startFails` away. `SmbNotifyRight` is both.
- `SmbNotAskedTwice`, without hypotheses: `AskInv` says that a login to be kept is saved and, after the
  redirect, in the URL, before anything is asked again, so that an accepted one is refused by an unclear error only. `SmbEachListedOnce`:
  `ListInv` says that the names known to a discoverer are the ones told to the application with the
  ones it still resolves or asks about (`Discovering`), and that the loop ends only when none
  is left; it assumes that no service is resolved twice or fails to be read. `SmbListingRight` is both.
- `SmbRenamesRight`: `RenameInv` says that a rename without Overwrite comes to its request only when
  its destination is free, is the source under another case, or could not be asked about. It assumes a server that ignores case or tells
  no inodes; on the others the stat that is meant for the source is made of the destination (run `rename_case_sensitive`).

`Sftp_proofs` also carries the argument of the SMB copies over to SFTP, where several writes are
under way when a job fails, for every length, threshold, window and number of
jobs. `GuardInv` gives `SftpNothingUninvited`, as long as `sftp_rename()` replaces nothing
(`renameReplaces`). `InFlight` describes the requests: consecutive chunks from what the server has
carried out on. With `Contiguous` (the server carries out no write behind one it refused) what
was written is a beginning of the source at every step and so after a crash at any step:
`SftpPartResumable`. `WholeInv` follows a job to its end for `SftpTransfersSound`, which also needs
an application that can be reached and a local chmod() that works; `SafeInv` keeps the old destination for
`SftpDestinationSafe`, which needs that close() reports nothing late. Each event assumed
away breaks its theorem (section 4).

Of names and logins `Sftp_proofs` shows, for every set of users, names and methods a server may offer:
`SftpSessionRight` by `LoginInv` (who is being logged in, and what the dialog holds), `KeepInv` (whose password is cached),
`OpenFileInv` (the open file is of this session, or there is none) and `CommandInv`; and the action
properties `SftpNamesSurvive`, without hypotheses, and `SftpNamesRight`, which assumes that no symlink()
fails, since that failure goes unnoticed.

`Fish_proofs`, for every room in the streams, set of paths and contents, number of jobs,
errors, broken connections and ways to cut reads and writes, with fish.pl as the server
(with a plain shell, READ and WRITE have outcomes that section 4 describes):

- `FishInStep`. `BufferInv` says that the output buffer holds the lines of the current command, or
  what a reply has asked for, and is empty when a reply is handled (select() prefers writing to
  reading); `CurrentInv` what the raw counters say of the current command. `PhaseInv`, the core, gives
  for each mode of fish.pl what is on its way in both directions (`ToRead`, `ToCome`): a
  whole command, the announced amount of data, the rest of one reply. `QuietInv` says that nothing
  is left of the replies between two jobs, `StaleInv` that a server whose client has gone reads only
  whole commands of what was left behind.
- `FishNobodyWaits`. `WaitInv` counts the replies that are owed (`CountInv`) against the
  commands sent, and shows that a select loop that waits has a command to write, or a
  server that reads or writes. It leaves out a refused EXEC, where the run `fish_exec_refused`
  shows the client waiting for ever.

`FishDone_proofs` adds to these invariants what is in the files:

- `FishDoneAsAsked` (`DoneInv`). `PlanInv` says that the commands of a job are about its paths and in order: the
  listing that checks comes first, the command that counts last. `RestInv` says that nothing is left to the
  server when no job is under way, so that no command of one job acts in the next. `FailInv`: as long as a
  reply may still come that lets the job go on, fish.pl has refused nothing but the listing that checks.
  `GuardInv`: while a file must be left alone, the job has not come past its LIST, and what
  LIST will still answer, with what it has answered, shows the file; a directory stays one under every command that writes.
- `FishTransferExact` (`CopyInv`). `ReadInv` speaks of the portions that answer a reading command: those that came
  are delivered or in `mimeBuffer`, the others are still on their way in front of the final status, and if that status is a
  success they all make the file. `PutInv` splits what the application gave into what the file holds, what the last STOR, WRITE or APPEND
  has on its way, and what has not been taken (`toPut`), at every step of client and server; `PassInv` is what is left of both
  when the job has passed. `RoomInv` and `DataInv` give the types.

Neither invariant is inductive without `FishInStep`: which reply a status belongs to is what makes
it say anything of the files. With a plain shell, which ends a reply as if all had been carried out,
`FailInv` fails and `DoneAsAsked` is not claimed (section 4); `TransferExact` is model-checked there.

`Workers_proofs`: of the archive workers, `ArchiveAnswerFresh` (`TimesInv`: a version on the disk is
told by its time, as long as no second sees two of them; `SeenInv`: what is open was on the disk since
the command began) and `ArchiveAnswerRight` (`AnswerInv`: what was sent and what is left make the member), for sizes that fit
the integer they are added in. Of the AFC worker, `AfcNothingDangles` (`DeviceInv`: the device of a command stays from the
time its client is there) and `AfcDestKept` assume only that no device goes while a command
uses it; `AfcIsRight` (`TransferInv`: what was written so far is a beginning of the source, as long as no write was short) assumes all the events of `AfcEvents` away, each of which breaks
it. In each of these the run shows the same property on a small instance.

Of the file name search, `SearchIsRight`, for every tree that `TreeAssumption` admits, every knot of links, every setting
and every output of the tool. `SearchIsExact`: `ListingSound` says what `iterated` holds (places with a
separator, barred folders without) and that a barred folder is come upon before what is in it; `ReportedOnce` that
what was reported will be found visited, or is of this listing and gone from `todo`; `NothingMissed`
that of each place listed every clear entry is reported or missed and every link that was seen is followed, so that at the end the places handled
are closed under following links and hold `PlacesReached`. `SearchToolExact`: what was read and what is
held make up what was printed (`ToolInv`), and `MatchesConcat` says that paths cut in pieces
at separators are the paths of the whole.

`MtpWorker_proofs`, for every set of names and workers, every number of ids and jobs, and every choice
of operations and events. One invariant, `Inv`, serves the four theorems about workers and storages:

- `ObjectInv` (every object is in the root or in a folder of the root) and `Faithful` (a path in the
  cache leads to an object at that path, or to one that is gone) are kept by every lookup, listing,
  renaming, creation and deletion. `Found` is what a lookup gives back, from the
  cache or by the walk down the path. The ids are what makes an entry of the cache
  that was never taken out harmless: the device gives none out twice. With this, `MtpStorageRight` and
  `MtpRemovesOnlyNamed` (a job that listed a directory and then deletes or
  replaces an entry has the same object still, or none). Both assume `~RenamesFolders`; without it the first is
  false (section 4), and `Faithful` speaks of the depth of an object only.
- `CopiesInv` says that what is posted goes to the root or to a folder in it, also when the folder is deleted
  before the event loop sends; `JobThere` that a waiting job has its copy posted or a signal in its
  queue, or was unplugged; `JobSelf` that a signal that is not of a foreign copy tells of the
  job's own. `MtpNoSignalMissed` answers the question of `kio_mtp.cpp:864` for every number of workers, and
  `MtpPassIsDone` says that a pass means a copy, unless a foreign signal came first. Neither
  assumes anything of the device.

`MtpRemovalIsReal` is about the list of devices, for every number of them: `NamesInv` says that a
listed device is plugged in under the name the list has, that no two listed devices share a name, and that a
removal still to come has the name of no other listed device. It assumes
`OwnNames`, since two devices of one name are told apart nowhere (section 4). `MtpDeviceChangesRight` joins it with
`MtpRemovesOnlyNamed` and `MtpPassIsDone`.

The assumptions about constants are the ones the modules name; those added for the proofs say
only what kind of value a constant has (sizes are numbers, `NoItem` is no item, capacities are
positive, an initial file holds what InitialValues says, messages are among the
stubs there are, `Absent` is no object of a device or server and neither it nor `Dir` the contents of a file of fish, `Nobody` no device's name, inodes are numbers, names of
directories and of files differ, exports are sequences of paths with a handle to spare, the operations of
an instance are a worker's).

Only model-checked:

- all liveness (`Terminates`, `JobsEnd`, `AllEnd`, `BrowseEnds`): out of the prover's reach;
- `InStep`, `NobodyWaits` and `TransferExact` of fish with a plain shell as the server;
- `WordsRight` of the file name search: what the parser of words and the loop over the lines of a file compute is an
  induction over data.

## 6. Plan

Done: SMB (all of it but the set-up of contexts), fish, SFTP, NFS, MTP, AFC, file
name search, archives; the proofs of section 5.
Left, in this order:

1. The login dialogue of fish and a change of its host; SFTP without asynchronous requests.
2. The kded module of the file name search.

## 7. Not modelled

- Thumbnail worker: drawing; its caches of plugins and folder previews live as long as the worker
  and are read by nothing else.
- Recently used and activities workers: URL rewriting over a database query.
- Info, man and filter workers: formatting and decompression of text, sequential and without state of
  their own. man2html.cpp alone is a seventh of the code.
- Control modules, file item plugins, translations and documentation.
- The set-up of SMB contexts, fish's login dialogue, SFTP's
  `GetRequest`, the kded module of the search, regular expressions.
- The protocols below the client libraries (libsmbclient, libssh, libmtp,
  libimobiledevice), which appear only as calls that succeed or fail.
