# A file synchronisation service, verified: TLA+ models of its servers and clients

The program (C++, `src/`) keeps a directory of every user in step between a
master server, backup servers, and the user's devices. Clients log in at the
master and upload, delete, list and download files; the master sends every
request on to its backups and tells the user's other devices; backups watch the
master and, when it is gone, vote for the next one around a ring, and the winner tells
the clients. On a device a watcher uploads what changes in the user's `sync_dir`, and a
listener writes into it what other devices have uploaded.

This directory holds TLA+ modules translated from that code, the TLC runs that
check them on small instances, and TLAPS proofs for any number of servers, devices,
clients and requests. `PROJECT.json` names, for every definition, the lines it
stands for, and for every hazard of the code the property that covers it.

## 1. The system

| Component | State | Operations | Talks to |
|---|---|---|---|
| Client router (`router.cpp`, `server_socket.cpp`) | `is_waiting` and `out_slave_socket` of the master socket, `routing` | acceptor thread; polling loop, `LOGIN_REQ` | `Manager` (`add_user`, `add_connection`, `lock`), `InternalRouter::broadcast_others` |
| Manager (`manager.cpp`) | `users`, `lock`, one thread per request | scan of all connections; `handle_connection` for LOGOUT, SYNC, STOP, UPLOAD, DOWNLOAD, LIST, DELETE | `User`, controllers, `broadcast_others`, the client's sockets |
| User (`user.cpp`) | two connections: `sockfd`, `is_waiting` | `push_connection`, `close_connection`, the count of active connections | written and read by router, manager and all request threads |
| Internal router, master side (`internal_router.cpp` 200-284) | vector `others` | accept loop; one thread per backup: JOIN_REQ, SERVER_KEEPALIVE; `broadcast_others` | backups |
| Backup (`server/main.cpp` 80-143, `keepalive`) | `_id`, `adjacent`, `users`, its sync directories | join; replicated LOGIN, UPLOAD, DELETE; keepalive and timeout | master |
| Voting round (`InternalRouter::start` 104-199) | `is_master`, the streams to and from the neighbours | connect and accept in either order; VOTE with seqn 0 and 1 | next and previous backup |
| Relaunch (`server/main.cpp`) | the internal router is built again | joins the new master, or starts the routers as the master | clients (UDP), backups |
| Client (`client/main.cpp`, `input_manager`, `sync_manager`, `client_socket`) | two one-packet mailboxes, the ignore flag, the local directory | commands, directory watcher, packet listener, reconnection | master |
| Files (`file.cpp`, `file_manager.cpp`, `controllers/`) | directories on disk | read, write, remove, list, (de)serialise | managers, backups |
| Sockets (`socket.cpp`) | descriptor, `is_waiting` | framed reads and writes, UDP | everyone |
| User interface (`commons/ui`) | log lines | output | nobody |

What is hard about it:

* **shared memory without locks**: the table of connections, the vector
  `others` (with references and iterators into it, and reallocation), the handover
  between acceptor and router, pointers to connections held by request threads;
* **order**: requests are forwarded before they are applied, without a lock;
  answers to a JOIN_REQ race the packets being replicated; a file is read for a device
  and sent to it later, while uploads are broadcast; a client asks for its files
  before it watches its directory;
* **partial failure**: an error on one backup ends a broadcast; a refused
  upload is forwarded and broadcast anyway; most exceptions are caught nowhere
  and end the process;
* **limits**: two connections per user, loops bounded by a count that is not the
  length of the table, and that changes under a loop; a flag that is cleared only
  after the loop; mailboxes for one packet;
* **crashes** of backups during a join, a broadcast or a vote, and of the master
  at any step of a request; and a master that is only slow, which a backup
  cannot tell from one that crashed;
* **feedback**: what a device's listener writes into the `sync_dir` is seen by its own
  watcher, which one flag is to keep from uploading it again;
* **files that are being written**: the watcher reads a file as soon as it is created;
* **bytes**: several threads write to one connection without a lock, and `read()`
  returns some of what was asked for, nothing, or -1.

What makes each component correct: the vote elects one master and only one,
followers follow it; a join gives out ids and closes the ring; an answered
request has reached the backups; replicas, devices and master agree when
nothing is left to do; a logged-in device stays registered, one thread reads
its connection, answers go to who asked, requests are served; the server stops
when told to; there is one master that takes clients, and they come to it; a change
is lost, ignored or echoed only when something else is under way, and echoes end; a
connection is a pipe of packets.

## 2. The modules

| Module | Models | Extends / instantiates |
|---|---|---|
| `LeaderElection` | what a round promises: a leader, once, and followers of it | |
| `RingElection` | the voting round of N backups, with crashes | instantiates `LeaderElection` |
| `RingElectionProofs` | the theorems about it | extends `RingElection` |
| `RingJoin` | accept loop, threads per backup, join of each backup | |
| `RingJoinProofs` | the theorems about it | extends `RingJoin` |
| `Sessions`, `MCSessions` | router, manager, table of connections, request threads | |
| `SessionsProofs` | the theorems about it | extends `Sessions` |
| `Replication`, `MCReplication` | one user's file on master, backups and devices | |
| `ReplicationProofs` | the theorems about it | extends `Replication` |
| `Failover`, `MCFailover` | keepalive timeouts, relaunch of servers, handshake and reconnection of clients | |
| `FailoverProofs` | the theorems about it | extends `Failover` |
| `ClientSync`, `MCClientSync` | watcher, listener and mailboxes of every device, and the files at the server | |
| `ClientSyncProofs` | the theorems about it | extends `ClientSync` |
| `Pipe` | what a connection promises: requests whole, once, in order | |
| `Framing`, `MCFraming` | one connection as bytes, and the codecs of packets | instantiates `Pipe` |
| `FramingProofs` | the codecs undo each other, and a connection keeps packets whole | extends `Framing` |

They meet at these seams. `RingJoin` shows that the k-th backup gets id k and the
next one's address, the last one the first's (`IdsArePlaces`, `RingIsClosed`), which
are the `Backup` and `Adjacent` that `RingElection` starts from; the cases it excludes
(servers started at once, a garbled address, an id hidden by a replicated packet) are
out of the vote's scope too. `RingElection` shows that the first backup wins and that only
its successor follows it, which is the one step `Decides` of `Failover`. `Sessions` shows
that one thread handles a connection at a time while nobody logs out, which `Replication`
takes as `MaySend` and `ClientSync` as one `handler` per device; and `LowestIdWins` is why
`SuccessorIsCurrent` speaks of the first backup. `Framing` shows that a connection is a
pipe of packets until two threads' packets are mixed or a `read()` fails; all other
modules take the pipe.

### RingElection

`pc[i]` is where `InternalRouter::start` is: `keepalive` (the thread it joins), `connect`,
`accept`, `redial` (the catch block), `voting`, and the two exits `master` and
`relaunch`. `votes[i]` is the stream into i. Each branch on a VOTE is one action: `Win`,
`Outbid`, `Relay`, `VoteEnds`. `EndOfStream` and `BrokenPipe` are the exceptions that
nothing catches; `Crash` may come anywhere. The keepalive phase lasts as long as it
likes, so backups enter the round at different times. A message passed on is consumed
and written in one step: nobody else touches the reader's streams in between. Not
modelled: the `usleep` of line 143, the listening backlog filling up, several
crashes followed by a second round (a backup that loses the round and is not told leaves
the program).

### RingJoin

`handler[h]` is the thread started for backup h; its `in` is the index that
`others->back()` had when it got to run, `dangling` says that the vector has
been reallocated since. Everything it says is addressed by position
(`Predecessor`, `Joiner`) at the moment it is said, so that another accept may come
in between. `Text` is the freed temporary: the address, or garbage. A backup reads
p2 and p3 as `main.cpp` does, whatever they are. `serial` is the operator's choice
to wait for one join before starting the next server, made in the initial state. Memory
that was freed keeps its content or yields any descriptor (`HandlerReadFails`).

### Sessions

The acceptor, the router, the manager's scan and every request thread take one step per
access to shared memory or per locked section. A slot keeps `is_waiting` when its
connection is closed, as the code does. `thread[t].sock` is the descriptor `read` was
called with; all later accesses go through the pointer, `Connection(t)`.
`close_all_connections` is a loop of a thread like any other: `ClosesNext` takes the next user,
`ClosesCount` counts before a turn, `ClosesTurn` closes what is in the slot by then, and only
`StopsRouting`, at the end, clears `is_router_routing`; none of them takes the lock, so that the
router registers and answers logins in between, in slots that have just been freed too.
`closed`, `retired`, `late`, `swept` (users whose first slot the closing loop is done with) and
`fresh` (connections of such users, registered after that) are history variables.
Abstracted: a broadcast's loop over one user's sockets is one step; SYNC, LIST and DOWNLOAD are
requests with one answer (`OTHER`); the manager's scan may take any entry the loops can reach, at
any time; the order in which users are closed; descriptors are not reused, so that a thread which
still waits in `read()` on a closed one waits on, and never reads a newer connection; the data
race on `std::map` is not modelled.

### Replication

A job is a login or a request and goes through its `Stages`: forward, apply,
answer, tell; forward and tell are loops with one write per step. The loop of
`broadcast_others` has its iterators from the start: `n` is their distance, and a backup that
joins while it is under way, and finds the vector at its capacity (`Full`), leaves only the turns
that are over `valid`. From then on the loop runs in freed memory (`ForwardsAstray`): a turn
writes to any backup or to nobody, or ends the loop with an error. `log[b]` is
everything written to backup b, `done[b]` how much of it b has handled, so that b
goes on after the master has stopped. `told[d]` is what the packets sent to device d leave
it with. `sync_files` is three steps for each device, with no lock across them: `SyncLists`,
`SyncReads` (into `copy[d]`) and `SyncSends`, so that a file may be deleted or replaced, and the
device told of it, in between. `late` and `overtaken` (devices that a broadcast reached
before the older file of `sync_files`) and `overlapped` are history variables. Abstracted: one
user, one file; writing a file is one step; a device's own
directory is left to `ClientSync`; a write to a crashed backup is lost or fails, and
the SIGPIPE that may follow is one of the moments at which `MasterStops`, as is whatever else ends
the process in freed memory; what a stray write does to a connection that is no backup's
(a client's, or a file) is left out.

### Failover

`server[s]` is how far `server/main.cpp` is: `follows` (`keepalive`), `votes`, `stuck`
(never told who won), `rejoins` and `elected` (past RESTARTING BREAKPOINT), `starts`
(a new `InternalRouter` runs), `announces` (the handshakes of `Router::start`), `master`, `dead`.
`asked[b]` counts the keepalives that the master still owes b; `half[b]` is `half_timeout`.
`Asks` is the first timeout and may come whenever nothing is there to be read; `GivesUp`,
the second one while the master is alive, is bounded by `late`. `Doomed(m)` says that
a thread of master m is about to read the end of a backup's stream: the exception ends the
master (`LosesBackup`). `router[s]` is the login that `Router::start` is forwarding, one
backup per step. A client has three threads: `main[c]`, `udp[c]` (`udp_listener`, which puts
a new descriptor into `sockfd`, connects it and writes LOGIN_REQ, in three steps) and the
input thread (`mail[c]`, `done[c]`); `conn[c]` is what `sockfd` stands for, so that a
command typed between connecting and logging in comes before the LOGIN_REQ. The port for the
datagrams is a constant, so that one client of a machine hears them.
Scenarios say how many of each kind of fault there are. Abstracted: the vote is one
step; requests other than LOGIN and LOGOUT are only read; what `packet_listener` reads
meanwhile is left out.

### ClientSync

`dir[d]` is a device's `sync_dir`, `events[d]` the kernel's inotify queue (with its
coalescing), `batch[d]` what the watcher has read of it, `ignore[d]` the flag. A file is
written in two steps, `Opens` (truncated) and `Writes`, by a user or by the listener, so
that everyone may read it in between; contents are `Absent`, `Empty`, `Mixed` (two
writes at once, or a buffer that was never set) or a version. `watched` and `typed` are
the mailboxes for one packet: a second one replaces the first. `Receives` is the read and the
call of `ignore()`, `Applies` the change that follows. `files` and `handler` are the
server's side: the request is carried out, then the broadcast goes to one device at a time.
The server may fail to write a file (`Refuses`, for the files a scenario names): it keeps the
old one and broadcasts the upload all the same. A device that has been started has its
SYNC_DIR_REQ in the mailbox and does not watch yet; until `BeginsWatching` its user's changes make
no events, and it takes no commands.
`latest`, `lost`, `calm`, `stale`, `echoes` are history variables: what the users want the
files to be, of which files a change was lost and so on. They do not excuse anything the code
does later: a file is put into `lost` at the moment of the loss, by the action that loses it.
Abstracted: the server stores a file in one step, and reads and sends all files of a
SYNC_DIR_REQ in one (`SyncsFiles`): a change of a file made while a device is getting files
counts as lost here anyway, and the steps are in `Replication`; LIST and DOWNLOAD touch no `sync_dir`;
names are atoms; the files of subdirectories and MOVED_FROM are as DELETE.

### Framing

`Reads` is one `read()` of `read_packet`, which returns any number of the bytes there are and
that are wanted; `Writes(w)` is one `write()`, which hands over what the connection has
room for, while thread w keeps the rest in `left[w]`: another thread may come first. `ReadsEnd`
and `ReadsError` are the results 0 and -1; the latter is added to the unsigned count as the
code does. `Sign`, `Extract`, `ToData`, `FromData` are the codecs, by position, with
`Garbage` for memory past the end. The buffer of a new `Socket` holds whatever was there (`Leftover`):
the constructors do not clear it. Sizes are scaled down: two bytes of header, a
name of one byte and its end.

## 3. The runs

| Run | Bounds | Shows |
|---|---|---|
| `ring_round` | N = 5, 2 crashes, fair | at most one master, followers agree, announcement stops at the successor, refinement of `LeaderElection`; without a crash the round decides |
| `ring_stuck` | N = 3, no crash, fair | **violated**: not every backup learns the outcome |
| `ring_join` | 3 backups one by one, or 2 at once; 1 broadcast, 1 crash, fair | ids are places or later ones, the ring closes, only broadcasts hide ids, joins end |
| `sessions_safe` | 3 devices, 2 slots, 2 threads, 5 packets: LOGIN, LOGOUT, STOP, and requests with one answer | registration, one handler, answers, the leaked lock, late logins and the connections that a stop leaves open |
| `sessions_live` | 2 devices of one or two users, 1 hang-up, 4 packets: LOGIN, LOGOUT, DELETE, fair | requests are served, answers stay with the user |
| `sessions_unanswered` | 4 devices, 1 thread, fair | **violated**: the login after a refused one waits for ever |
| `sessions_upload` | 2 devices | **violated**: the uploader gets its own broadcast |
| `replication_master` | 2 backups (one may be late, and then moves the vector), 1 crash, 2 devices, an upload and a delete | what an acknowledgement guarantees, agreement, the successor's file |
| `replication_race` | 1 backup, 2 uploads | **violated**: replicas differ from the master for good |
| `client_sync` | 2 devices, 2 files, 12 scripts, fair | which changes are lost, ignored or echoed; agreement otherwise; echoes end |
| `failover` | 7 scenarios, up to 3 backups, 2 clients, 2 machines, fair | who is given up and when, when there are two masters, which clients follow |
| `framing` | 2 threads, 2 scripts, room for 3 or 20 bytes, fair | refinement of `Pipe` until packets are mixed or a read fails; one forged packet at most |

Why the bounds are enough. Five backups give a round a winner, a successor, backups
that relay and backups that outbid, with two dead ones between live ones. Three
backups make the vector reallocate at sizes 1 and 2 and give a join a first, a last and a
predecessor that differ. A third device meets a full table; five packets let it log in
into a slot that a thread of the first device still points to, or into one that a stop has just
freed. Two backups give a broadcast a prefix that succeeds and a rest that does not; the second
moves the vector, since its capacity is then 1, before or between or after the turns of a loop. In `client_sync` two devices give
every broadcast a sender and a receiver, two files let a change be overtaken by one of
another file, and two changes in a row fill both one-packet mailboxes and meet a
half-written file; after a deletion echoes can go on for ever (an upload in
flight brings the file back, which is deleted again), so `MaxEchoes` allows one, and the claim
that they end is made where nothing is deleted. In `failover` a third backup
is the one that is never told, two clients share a machine and its UDP port or not,
and one crash more than the master's hits the winner at every step. In `framing` three bytes are
less than any packet, twenty more than all. `CHECK_DEADLOCK FALSE` is
said in every cfg because each of these systems ends: a round is over, a server stops,
there is nothing left to send.

Symmetry is used in `sessions_safe` only, for connections of
the same user, which nothing but `UserOf` tells apart; that run checks no liveness.

### Fairness

`RingElection`: each backup's thread runs (WF of its steps), crashes are not forced.
`RingJoin`: accept loop, every handler thread and every backup run; starting a server is the
operator's. `Sessions`: acceptor, router, manager and request threads run (WF);
each table entry is scanned under SF, because the manager goes round the table for ever and
comes to every entry it can reach, while the entry may be disabled in between by its own
request; a client that has connected sends its LOGIN_REQ, and later requests, hang-ups and
stops are never forced; the read of descriptor 0 is not forced. `ClientSync`: the threads of
every client and the server run, a user who has opened a file writes it; what users do next is
never forced. `Failover`: every thread of servers and clients runs, the master answers keepalives;
crashes, early timeouts, lost datagrams, starting a client and typing are never forced.
`Framing`: writers and reader run; nothing makes a connection end. The operating
system's scheduler and TCP justify these: all waiting in the code is polling, blocking reads,
or `Manager::lock`, which is held for a bounded time except where it leaks. WF is enough where
a step stays enabled until it is taken: only the owner of a stream, a mailbox or a slot
takes from it.

### Disagreements between text and code

1. `internal_router.cpp:165` passes on `my_vote`, not the announcement (`ring_stuck`).
2. `router.cpp:85-93` leaves with the lock held (`sessions_unanswered`).
3. `manager.cpp:229` excludes descriptor -1, that is nobody, from a broadcast "to other
   user connections" (`sessions_upload`).
4. `manager.cpp:135` forwards before applying, with no lock, under the heading "State
   replication" (`replication_race`).

### What the models do that a reader may not expect

The properties state when things are right; these are the exceptions they name, all of them in
the state graph.

On a device: two uploads in quick succession can make the second device upload an empty file,
because the flag is cleared between its truncation and its event, and the server sends that
empty file to everyone, its author included. A file that is saved slowly is read
at its CREATE event, and the broadcast of what was read overwrites the file. Changes made in place
are never uploaded (the branch for IN_MODIFY is a comment, `sync_manager.cpp:88-97`). A
DELETE that is refused is broadcast too; it sets the flag and changes nothing, so the next
own change is swallowed (`delete` sends two DELETE_REQ, of which the second one is refused).
`should_ignore` has no initial value (`sync_manager.cpp:3-12`). DELETE_ACCEPT_RESP removes a file
without setting the flag (`client/main.cpp:107`). A device that has got the server's files
uploads everything it has then listed (`client/main.cpp:84-97`), so that a newer version which
is on its way to it is overwritten on the server and everywhere: that change is lost. A change made
before `watch()` (`input_manager.cpp:81-83`) is not seen. When the server cannot write a file, it
keeps its old one and sends the new one to all devices (`manager.cpp:207-229`).

At the master: a backup that joins while a request is being forwarded may move the vector
(`internal_router.cpp:36`, `214`), so that backups behind the turn that was under way, the
successor among them if it was the first turn, miss a request that is carried out and answered. A
device that gets its files while one of them changes may be sent the new content and then the old
one (`manager.cpp:418-424`), or an empty file in place of one that has been deleted. A stop closes the
connections of a user only as far as a count reaches that goes down meanwhile
(`manager.cpp:440`), and a login registered after that, until routing ends, stays open too.

After a failover: a backup that is alone becomes the master with its connection to the old one
open, so that a master that was only slow serves on beside it; with two or more backups
the closed connections end the old master (an uncaught exception). The handshake names the
address 0.0.0.0 (`router.cpp:43-51`), so that only clients on the winner's machine reach it, and the
others end. One client of a machine hears the datagram (its port is a constant), which is sent
once. `cli_addr` is never set (`server_socket.cpp:102`). The login after a failover carries no
address (`client_socket.cpp:113`), so a second failover does not find that client. A command
typed between connecting and logging in makes the router drop the connection. A client that
leaves without LOGOUT ends the server. A client that exits hangs until a handshake comes,
and its LOGOUT may never be sent.

On a connection: when it is full, packets of two threads are mixed (`socket.cpp:68` takes no
lock). A `read()` that returns -1 makes `read_packet` return one packet that nobody wrote
(`socket.cpp:37-43`, `52-57`).

## 4. The proofs

`RingElectionProofs` proves, for every N > 0, any number of crashes and every
interleaving: `TypeCorrect`, `OnlyTheLowestWins`, `FollowersAgree`,
`OnlySuccessorIsTold`, and `Refinement` (the round implements `LeaderElection`). The only
assumption is `ConstantsAssumption`: N is a positive number, and "no address" is not an
address.

None of the properties is inductive by itself: that nobody but 0 wins depends on what
votes can be on their way. `IInv` adds `VotesOK`: a vote with seqn 0 in the stream into
i was sent by i's predecessors, so its id is below i, unless i is 0, where the ring closes;
a vote with seqn 1 is in the stream into 0's successor only, and backup 0 is then the master.
Outbidding keeps this because i writes its own id to the next backup, relaying because the
id was below i, `Win` because only 0 can read its own id, and `VoteEnds` because what it
writes is seqn 0 again. `RoundNeedsTwo` (who entered the ring is not alone) lets
`Adjacent(0)` differ from 0. `Invariance` has one step per action; the theorems follow from
`IInv`. `IInv` was checked by TLC for N = 4 with one crash.

`Refinement` maps `leader` to the backup with `is_master` and `follows` to
`new_master`: `Win` is `Elect`, `VoteEnds` is `Follow`, all else stutters.

`ReplicationProofs` proves, for any finite set of backups, any number of devices, requests
and crashes, and every interleaving: `TypeCorrect` (`TypeOK`) and `AckedWasForwarded`
(`AckedIsForwarded`). The assumption is `ReplicationAssumption`: uploads, deletes and
devices are different things, and every request has a device that sends it.

`AckedIsForwarded` speaks of threads that have answered, and what it says of them was
settled while they were in `broadcast_others`. `IInv` follows the loop: `Reach(j)` is the
number of places thread j has passed through good iterators, and `Forwarded` says that each of them
has been written j, unless a backup up to there has crashed. A turn of the loop passes one more
place, and either writes to it or finds it crashed; a loop that `WRITE_ERROR` cuts short
jumps to its end, but the backup where it stopped has crashed, so nothing is claimed of the
places behind it; a backup that joins goes behind the end that the range-for has fixed, and if the
vector moves, `valid` becomes the places passed so far; a turn in freed memory passes none, and
whatever it writes takes nothing back; all other steps move no loop, and `Keeps` says that they take no packet or place back
(`Kept`, `NoFurther`). `Fresh` (a thread that has not begun is at place 0) is what
`Receives` starts from. `IInv` and `Keeps` were checked by TLC on the instance of
`replication_master`.

`FailoverProofs` proves, for any number of backups and clients, any placement on machines and
any number of crashes, losses and late answers: `TypeCorrect` (`TypeOK`), `SplitOnlyLate`
(`SplitIsLate`), `GivenUpOwed` (`GivenUpOwingAnswer`) and `AcceptedSpreads`
(`AcceptedIsKnown`). The assumption is `FailoverAssumption`: what a scenario consists of, and that
"nothing" and "KEEPALIVE" are not addresses. Three invariants carry it, each of them
checked by TLC on the instance of `failover` before it was proved.

* `SInv`. `SplitIsLate` speaks of two servers that both take clients, but says nothing of how
  a server came to do so. `Ring` says who joined whom (all backups the first master, in their
  order; the second one, after a vote, the first), `Roles` who may be where in
  `server/main.cpp`, and `GivenUpLate` what is true of a master that is still alive although a
  backup votes, has won, or follows the winner: an answer was late, and the connection of that backup to
  it is closed unless it was the only one. That closed connection is what `Doomed` finds. Most steps
  are `Ordinary` (nobody gives up, is told, or joins); `VotesKeeps`,
  `DecidesKeeps` and `RejoinsKeeps` are the other three.
* `HalfOwes`. A backup with `half_timeout` set has asked; the keepalive is unanswered or its
  answer is in the stream. Reading anything ends the wait, and giving up needs an
  empty stream, so that only the unanswered one is left.
* `KInv`. The broadcast of a login goes through `others` in order. `RoutedSent` says that the
  backups before its place know the client, or will read of it; it stops short only at a backup
  that has left, and as long as the master was not given up (`StillLinked`) that is one that crashed,
  so that nothing is claimed of those behind it. `AcceptedSent` is what is left of this when the
  answer is sent; `KnownStays` that a backup forgets nothing it has read and reads all it was sent;
  `NoneStuck` that no backup is beyond reading while the master lives.

`Agreement`, in the same module, is the invariant `AInv` behind `OneByOneAgrees` (`AgreeUnlessRaced`)
and `SuccessorHasFile` (`SuccessorIsCurrent`). Both speak of replicas when everything has been
handled; while something is under way a replica is behind, or ahead, since the master forwards before
it applies. `Current` therefore says what a backup *will* hold once it has handled its stream
(`WillHold`: the last request still to be read, or the replica if only logins are left): the effect of
the request whose loop has passed it, and otherwise the master's file. `Led` is needed
because an upload is only stored where a LOGIN_REQ came before it; this is so for the backups
that joined before the first login. `Counts` are the places that this is claimed of: no backup up to
there has crashed, it was there before the first login, and no loop came to it through bad iterators
(`Sure`). What such a loop writes, to a backup that `Counts` all the same, is the request that this
backup has been written last anyway. `Applied` and `Told` carry the master's file on to the devices:
what has been listed or read for a device, or sent to it, is the master's file (`UpToDate`), or
the device is still owed the request (`Owes`), or a broadcast has overtaken what `sync_files` read for it.
`Alone` says that requests that do not overlap are one at a time, so that there is only one request
to be passed.

`RingJoinProofs` proves, for any number of backups, broadcasts and crashes: `TypeCorrect`
(`TypeOK`), `IdsAndPlaces` (`IdsArePlaces`), `ClosesRing` (`RingIsClosed`) and `HiddenIds`
(`OnlyBroadcastsHideIds`). The assumption is `RingJoinAssumption`. `Counted` is the general half: what
`others->size()` counted, or is on its way, is at most the place it goes to, because the vector only
grows between `size()` and `back()`. The other half needs that joins take turns (`Turns`): while
servers are started one by one, every place but the last is done (its backup has joined, its JOIN_REQ has been
read, its thread reads), so that `back()` is the backup whose thread speaks, the reference it
holds is its own, and no reallocation happens in the middle (`~dangling`). Then `Exact` follows for ids, and
`Links` for addresses: the last but one is told once of the last, the last once of the
first (`Linked`: received, or the only JOIN_RESP in what it has still to read).

`SessionsProofs` proves, for any number of devices, users and request threads, and for the two slots
of the code: `TypeCorrect` (`TypeOK`), `Acceptance` (`AcceptedIsRegistered`), `HandlerIsAlone`
(`OneHandlerPerConnection`), `AnswersWithinUser` (`AnswersStayWithinUser`), `LateLogin`
(`AtMostOneLateLogin`), `StopCloses` (`StopLeavesAtMostOneOpen`), and the action property
`RefusalFreezes` (`RefusalFreezesServer`). The assumption is `SessionsAssumption`.

* `Placed`: a connection is at one place of its way (backlog, `out_slave_socket`, the
  router's socket, one slot, closed) and never goes back; one that has been accepted is registered or
  closed. With `Table` (one slot per connection, of its own user) this gives `AcceptedIsRegistered`.
* `OneHandler` relates `is_waiting` to the threads of a slot; it must also speak of `picked`, the
  entry the manager has looked at and not yet given to a thread: between the look and the start
  nobody else may set the flag there. It excludes `retired` slots, for which it is false.
* `Pointers`: the connection a thread was started for is still what its pointer stands for,
  or is closed; that a slot is only refilled by the same user keeps answers within the user.
* `Stopping`: once routing has ended, the router polls no more, so that only the login it was in the
  middle of is registered late.
* `Sweeping` is about `close_all_connections`. Once the loop is done with the first slot of a user
  (`swept`: it has closed it, or found nothing to count), that slot is empty or holds a connection
  registered since (`fresh`), because only `Registers` fills slots. `Sweeps(t)` says of the thread that
  closes that every user is still to come, swept, or the one it is at, so that all are swept when
  it clears `is_router_routing`. The count goes down as the loop closes, so that the second slot may
  stay open, and of the old connections no other. Two threads may be closing at once: nothing of
  this is taken back by the other.

`ClientSyncProofs` proves, for any finite sets of devices and files and any script: `TypeCorrect`
(`TypeOK`), `EchoesNeedOverlap` (`EchoNeedsOverlap`), `IgnoredNeedOverlap`
(`IgnoredNeedsOverlap`) and `DevicesAgree` (`QuietAgrees`). The assumption is
`ClientSyncAssumption`: what a scenario consists of, and that "no packet" is not a packet. Two
invariants carry it; both were checked by TLC on the instance of `client_sync` first.

* `Flagged(d)`. The flag is one bit for a whole batch of events. While the device is calm (the
  listener began with the watcher and the user idle), the flag is up from before the first
  event of the listener is queued until it has been read, and events of the listener and of the user do
  not share a batch; so the watcher finds it set for the one and, unless it is `stale`,
  clear for the other. The clearing is the delicate step: it comes after the batch, and what
  the listener has yet to do must have begun after it.
* `Followed(f)`, for each file of which no change was lost: every packet, every write and every
  event about f, wherever it is, tells what the last change made of it (`TruePackets`,
  `TrueWrites`, `TrueEvents`, `TrueSyncs`). If the server is behind, the last change is on its way to it
  (`ServerCatchesUp`); if a device is, the server is behind, or the server's file is on its way to the
  device, or is being written there (`DevicesCatchUp`). When nothing is under way none of these is
  possible, so that all agree (`Settled`, `QuietHasNone`). Most steps are `Beside` f; a change of f
  which finds nothing about f under way, at a device that watches, starts from `Settled`, and any other
  puts f into `lost` (`Unsafe`), as does an upload that is refused. What a listener
  writes before the device watches makes no events, and none are needed for it.
  `Tidy` says that the listener's variables fit together.

The proofs corrected the model's history variables: `stale` was also set by the answer to one's own
DELETE, which does not touch the flag, and a change made while a device synchronises
was not counted as lost, although the upload that follows may overwrite it.

`FramingProofs` proves, for any number of threads, any requests and connections of any size:
`SignedRoundTrip`, `TypeCorrect` (`TypeOK`), `ForgesOneAtMost` (`OneForgedAtMost`) and
`ConnectionIsPipe` (`PipeUntilSpoiled`: the connection implements `Pipe` until packets are mixed or
a `read()` fails). The assumption is `FramingAssumption`: a script consists of requests, whose names
leave room for their end, because `serialize` copies them with `strcpy`. The sizes stay the scaled ones.

* `SignedRoundTrip`: what `File::to_data` and `sign_packet` put into a packet,
  `extract_signature` and `File::from_data` take out again. `framing` uses it wherever its properties
  say `Decode`, for four requests. The argument is one lemma on concatenation (`Parts`: each of three
  parts is copied from where the lengths before it say) and one on texts (`TextUpTo`: a text without
  zeros ends at the first zero behind it).
* `Stream` is the invariant about bytes: what the reader has taken, what is on its way, and what a
  thread has still to hand over are, one after another, the frames of the requests that have not been
  delivered. `Carries` says so with the places where the frames begin: a function that must exist, since
  putting all frames together would need recursion. A thread that writes alone appends to them
  (`CarriesMore`); a read moves bytes from the connection to the reader and leaves the whole as it
  was; when a header or a payload is complete, it is compared with the first frame (`CarriesFirst`),
  which is then cut off (`CarriesRest`). What a reset drops is owed for ever.
* `Ending` is why one forged packet is the most: an `error` is reported once, after it
  nothing can arrive, and the reader can only stop.
* `InStep` puts both together; with `TypeOK` and `Scripted` (what is to be written is in the script)
  it is `PInv`, which TLC checked on the instance of `framing` first. Each `Writes` that begins a
  packet is then `Pipe`'s `Write`, each read that completes one its `Read`, and the rest stutters.

Every safety property, action property and refinement that a passing run checks is thereby proved. Only
model-checked is liveness, which needs fairness and ENABLED and is out of the prover's reach:
`RoundDecides`, `SerialJoinsEnd`, `RequestsAreServed`, `EchoesDieOut`, `ReplacedEnds`, `ClientsFollow` and
`AllRead`. What TLC shows of these holds for the instances above.

## 5. Plan

Done, in this order: the vote and its proofs; client sessions; joins; replication and
the proof of what an acknowledgement guarantees; the devices' synchronisation; failover;
framing and the codecs; the proofs about failover, sessions, joins, the agreement of replicas,
the devices' synchronisation, and framing.

What would be next:

1. A second failover, with the ring that the rejoined backup forms with the new master.
2. An abstract specification of replication (one file, written once) that `Replication` implements
   while requests come one by one; `Agreement` is the invariant it would need.

Not modelled, and why:

* the user interface and the log: output only;
* the text of `list_directory` and its parse by lines in `sync_files`: formatting; the set of
  names stands for it (`SYNC`, `LIST`);
* what `packet_listener` reads from a socket that is not connected yet: it spins on errors
  until the connection stands, or takes a forged packet, which `Framing` covers on its own;
* the data race on the `std::map` of users: it breaks the container, which the models do not
  have (listed as a hazard without a property);
* a second vote with more than one backup: after a failover only the successor of the winner
  follows it, so the ring has one member;
* the `usleep` calls and the order they suggest: nothing in the code makes it hold.
