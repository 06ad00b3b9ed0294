---------------------------- MODULE Replication ----------------------------
(***************************************************************************)
(* State replication: what a login, an UPLOAD and a DELETE of one user do to *)
(* one file of that user, on the master, on the backups                      *)
(* (InternalRouter::broadcast_others, and keepalive on their side) and on the *)
(* user's devices (Manager::broadcast_to_user).  Who may send when is module  *)
(* Sessions; how a backup joins is module RingJoin; who succeeds the master   *)
(* is module RingElection.                                                 *)
(*                                                                         *)
(* A request stands for the packet, and an upload for the content it writes. *)
(* The file is written, read and removed in one step.  What a stray write of *)
(* broadcast_others does to the connection it hits is left out.            *)
(***************************************************************************)
EXTENDS Integers, Sequences, FiniteSets

CONSTANTS Backup,     \* the backup servers
          LateBackup, \* those that may join after the first login
          MaxCrashes, \* bound: backups that crash
          Devices,    \* how many devices the user has
          Upload,     \* the UPLOAD_REQs they send, each with its own content
          Delete,     \* the DELETE_REQs they send
          Refused,    \* the uploads that the master's disk refuses
          From,       \* the device that sends each request
          None,       \* there is no file
          Empty       \* a file that could not be read

Device == 1 .. Devices
Request == Upload \cup Delete

\* What goes to the backups: LOGIN_REQs, which a device stands for, and requests
Job == Device \cup Request

ASSUME ReplicationAssumption ==
    /\ IsFiniteSet(Backup) /\ LateBackup \subseteq Backup
    /\ MaxCrashes \in Nat /\ Devices \in Nat
    /\ Upload \cap Delete = {} /\ Device \cap Request = {} /\ Refused \subseteq Upload
    /\ From \in [Request -> Device]
    /\ None \notin Upload /\ Empty \notin Upload \cup {None}

VARIABLES
    others,     \* InternalRouter::others, in the order of joining
    log,        \* all packets written to each backup
    thread,     \* the thread that handles each job: where it is, the loop it
                \* is in (k of n done, its iterators good for the first valid
                \* turns), and whether the files were changed
    sync,       \* how far sync_files is for each device
    copy,       \* the file it has read, until it is sent
    masterFile, \* the file in the master's sync directory
    told,       \* the content that the packets sent leave each device with
    up,         \* the master has not stopped
    done,       \* how many packets each backup has handled
    dir,        \* a backup has the user's sync directory
    replica,    \* the file in it
    crashed,    \* backups that have crashed
    late,       \* history: backups that joined after the first login
    overtaken,  \* history: devices that a broadcast reached before the older
                \* file that sync_files was about to send
    overlapped  \* history: two requests were handled at once

syncVars == <<sync, copy>>
masterVars == <<log, thread, syncVars, masterFile, told, overlapped, overtaken>>
backupVars == <<done, dir, replica>>
vars == <<others, masterVars, up, backupVars, crashed, late>>

Content == Upload \cup {None}

TypeOK ==
    /\ others \in Seq(Backup)
    /\ log \in [Backup -> Seq(Job)]
    /\ thread \in [Job -> [pc : {"none", "forward", "apply", "answer", "tell", "done"},
                           k : Nat, n : Nat, valid : Nat, ok : BOOLEAN]]
    /\ \A j \in Job :
          /\ thread[j].valid <= thread[j].n /\ thread[j].n <= Len(others)
          /\ thread[j].pc = "forward" => thread[j].k <= thread[j].n
    /\ sync \in [Device -> {"no", "listed", "read", "done"}]
    /\ copy \in [Device -> Upload \cup {Empty}]
    /\ masterFile \in Content /\ told \in [Device -> Content \cup {Empty}]
    /\ up \in BOOLEAN
    /\ done \in [Backup -> Nat] /\ \A b \in Backup : done[b] <= Len(log[b])
    /\ dir \in [Backup -> BOOLEAN] /\ replica \in [Backup -> Content]
    /\ crashed \subseteq Backup /\ late \subseteq LateBackup
    /\ overlapped \in BOOLEAN /\ overtaken \subseteq Device

Init ==
    /\ others = << >>
    /\ log = [b \in Backup |-> << >>]
    /\ thread = [j \in Job |-> [pc |-> "none", k |-> 0, n |-> 0, valid |-> 0, ok |-> FALSE]]
    /\ sync = [d \in Device |-> "no"] /\ copy = [d \in Device |-> Empty]
    /\ masterFile = None /\ told = [d \in Device |-> None]
    /\ up = TRUE
    /\ done = [b \in Backup |-> 0]
    /\ dir = [b \in Backup |-> FALSE] /\ replica = [b \in Backup |-> None]
    /\ crashed = {} /\ late = {} /\ overlapped = FALSE /\ overtaken = {}

-----------------------------------------------------------------------------
(* The master.                                                             *)

InFlight(j) == thread[j].pc \notin {"none", "done"}

\* Mutant: clients are answered before the backups are told
AnswersFirst(j) ==
    IF j \in Device
    THEN [none |-> "forward", forward |-> "answer", answer |-> "done"]
    ELSE [none |-> "apply", apply |-> "answer", answer |-> "forward",
          forward |-> "tell", tell |-> "done"]

\* What comes after each stage of Router::start for a login, of
\* handle_connection for a request
Stages(j) ==
    IF j \in Device
    THEN [none |-> "forward", forward |-> "answer", answer |-> "done"]
    ELSE [none |-> "forward", forward |-> "apply", apply |-> "answer",
          answer |-> "tell", tell |-> "done"]

Following(j) == Stages(j)[thread[j].pc]

\* Mutant: the last backup is forgotten
EndTooEarly == Len(others) - 1

\* The range-for of broadcast_others fixes its iterators when it starts
End == Len(others)

\* Thread j is through with its stage
Advance(j) == [thread EXCEPT ![j].pc = Following(j), ![j].k = 0]

\* The router serves one login at a time, and Manager one packet of a
\* connection; a device sends SYNC_DIR_REQ before its requests
MaySend(j) ==
    IF j \in Device THEN \A d \in Device : ~InFlight(d)
    ELSE sync[From[j]] = "done" /\ \A r \in Request : From[r] = From[j] => ~InFlight(r)

\* read_packet, and into broadcast_others
Receives(j) ==
    /\ thread[j].pc = "none" /\ MaySend(j)
    /\ thread' = [thread EXCEPT ![j].pc = Following(j), ![j].n = End, ![j].valid = End]
    /\ overlapped' = (overlapped \/ (j \in Request /\ \E r \in Request : InFlight(r)))
    /\ UNCHANGED <<others, log, syncVars, masterFile, told, up, backupVars, crashed, late, overtaken>>

\* Mutant: every turn writes to the first
FirstOther(j) == others[1]

\* The backup that the loop has come to
Other(j) == others[thread[j].k + 1]

\* One write_packet of the loop.  Its packet is lost if the backup is gone, or
\* it throws WRITE_ERROR, which ends the loop and which no caller looks at.
Forwards(j) ==
    /\ thread[j].pc = "forward" /\ thread[j].k < thread[j].valid
    /\ LET b == Other(j)
       IN  \/ /\ thread' = [thread EXCEPT ![j].k = @ + 1]
              /\ log' = IF b \in crashed THEN log ELSE [log EXCEPT ![b] = Append(@, j)]
           \/ /\ b \in crashed
              /\ thread' = Advance(j)
              /\ UNCHANGED log
    /\ UNCHANGED <<others, syncVars, masterFile, told, overlapped, overtaken, up, backupVars, crashed,
                   late>>

\* A push_back has moved the vector: the loop goes on in freed memory.  What it
\* takes for a descriptor may be any backup's, or none of theirs, or no
\* descriptor.  (MasterStops stands for the end of the process, too.)
ForwardsAstray(j) ==
    /\ thread[j].pc = "forward" /\ thread[j].valid <= thread[j].k /\ thread[j].k < thread[j].n
    /\ \/ /\ thread' = [thread EXCEPT ![j].k = @ + 1]
          /\ \/ UNCHANGED log
             \/ \E i \in DOMAIN others :
                   others[i] \notin crashed /\ log' = [log EXCEPT ![others[i]] = Append(@, j)]
       \/ thread' = Advance(j) /\ UNCHANGED log
    /\ UNCHANGED <<others, syncVars, masterFile, told, overlapped, overtaken, up, backupVars, crashed,
                   late>>

ForwardsLast(j) ==
    /\ thread[j].pc = "forward" /\ thread[j].k = thread[j].n
    /\ thread' = Advance(j)
    /\ UNCHANGED <<others, log, syncVars, masterFile, told, overlapped, overtaken, up, backupVars, crashed,
                   late>>

\* A request succeeds: write_file opens the file, remove finds it
Succeeds(r) == IF r \in Upload THEN r \notin Refused ELSE masterFile # None

\* What it leaves in the directory
Effect(r) == IF r \in Upload THEN r ELSE None

\* UploadController::upload, DeleteController::delete_file
Applies(r) ==
    /\ thread[r].pc = "apply"
    /\ thread' = [Advance(r) EXCEPT ![r].ok = Succeeds(r)]
    /\ masterFile' = IF Succeeds(r) THEN Effect(r) ELSE masterFile
    /\ UNCHANGED <<others, log, syncVars, told, overlapped, overtaken, up, backupVars, crashed, late>>

\* The *_ACCEPT_RESP or *_REFUSE_RESP.  DELETE_ACCEPT_RESP removes the file.
Answers(j) ==
    /\ thread[j].pc = "answer"
    /\ thread' = Advance(j)
    /\ told' = IF j \in Delete /\ thread[j].ok THEN [told EXCEPT ![From[j]] = None] ELSE told
    /\ UNCHANGED <<others, log, syncVars, masterFile, overlapped, overtaken, up, backupVars, crashed,
                   late>>

\* broadcast_to_user: an upload goes to every device, its own and a refused one
\* too; a delete not to its own, and to no effect if refused
Reaches(r, d) ==
    thread[d].pc # "none" /\ (r \in Upload \/ (thread[r].ok /\ d # From[r]))

\* sync_files will send something else after it
Overtakes(r, d) ==
    \/ sync[d] = "listed" /\ r \in Delete
    \/ sync[d] = "read" /\ copy[d] # Effect(r)

\* One turn of it
Tells(r) ==
    /\ thread[r].pc = "tell" /\ thread[r].k < Devices
    /\ LET d == thread[r].k + 1
       IN  /\ thread' = [thread EXCEPT ![r].k = d]
           /\ IF Reaches(r, d)
              THEN /\ told' = [told EXCEPT ![d] = Effect(r)]
                   /\ overtaken' = IF Overtakes(r, d) THEN overtaken \cup {d} ELSE overtaken \ {d}
              ELSE UNCHANGED <<told, overtaken>>
    /\ UNCHANGED <<others, log, syncVars, masterFile, overlapped, up, backupVars, crashed, late>>

TellsLast(r) ==
    /\ thread[r].pc = "tell" /\ thread[r].k = Devices
    /\ thread' = Advance(r)
    /\ UNCHANGED <<others, log, syncVars, masterFile, told, overlapped, overtaken, up, backupVars, crashed,
                   late>>

\* SYNC_DIR_REQ makes the directory; sync_files lists it, and sends nothing if
\* there is no file.  (It is forwarded first, which changes no file.)
SyncLists(d) ==
    /\ thread[d].pc = "done" /\ sync[d] = "no"
    /\ sync' = [sync EXCEPT ![d] = IF masterFile = None THEN "done" ELSE "listed"]
    /\ UNCHANGED <<others, log, thread, copy, masterFile, told, overlapped, overtaken, up, backupVars,
                   crashed, late>>

\* DownloadController::download.  When the file has gone, nobody looks at the
\* error, and the size is not initialised: an empty file, if it happens to be 0.
\* (Otherwise the copy of so many bytes from NULL ends the process.)
SyncReads(d) ==
    /\ sync[d] = "listed"
    /\ sync' = [sync EXCEPT ![d] = "read"]
    /\ copy' = [copy EXCEPT ![d] = IF masterFile = None THEN Empty ELSE masterFile]
    /\ UNCHANGED <<others, log, thread, masterFile, told, overlapped, overtaken, up, backupVars,
                   crashed, late>>

\* Its write_packet, whatever has been broadcast since
SyncSends(d) ==
    /\ sync[d] = "read"
    /\ sync' = [sync EXCEPT ![d] = "done"]
    /\ told' = [told EXCEPT ![d] = copy[d]]
    /\ copy' = [copy EXCEPT ![d] = Empty]
    /\ UNCHANGED <<others, log, thread, masterFile, overlapped, overtaken, up, backupVars,
                   crashed, late>>

MasterStops ==
    /\ up' = FALSE
    /\ UNCHANGED <<others, masterVars, backupVars, crashed, late>>

\* The user is known to the server from the first LOGIN_REQ on
LoggedIn == \E d \in Device : thread[d].pc # "none"

\* The vector is at its capacity, which doubles
Full == Len(others) = 0 \/ \E i \in 0 .. Len(others) : Len(others) = 2 ^ i

\* others.push_back.  Nothing tells the new backup what it has missed; a loop of
\* broadcast_others that is under way keeps its iterators, which are good no more
\* if the vector moves.
BackupJoins(b) ==
    /\ \A i \in DOMAIN others : others[i] # b
    /\ LoggedIn => b \in LateBackup
    /\ others' = Append(others, b)
    /\ thread' = [j \in Job |->
          IF Full /\ thread[j].pc = "forward" /\ thread[j].k < thread[j].valid
          THEN [thread[j] EXCEPT !.valid = thread[j].k] ELSE thread[j]]
    /\ late' = IF LoggedIn THEN late \cup {b} ELSE late
    /\ UNCHANGED <<log, syncVars, masterFile, told, overlapped, overtaken, up, backupVars, crashed>>

-----------------------------------------------------------------------------
(* A backup: the SIGNED_PACKET case of keepalive.  It reads what was written *)
(* to it after the master has stopped, too.                                *)

\* Mutant: a delete is not replicated
UploadsOnly(b, p) ==
    IF p \in Upload /\ dir[b] THEN [replica EXCEPT ![b] = p] ELSE replica

\* UPLOAD_REQ needs the directory, which LOGIN_REQ makes
Replicated(b, p) ==
    IF p \in Delete \/ (p \in Upload /\ dir[b])
    THEN [replica EXCEPT ![b] = Effect(p)] ELSE replica

BackupApplies(b) ==
    /\ b \notin crashed /\ done[b] < Len(log[b])
    /\ LET p == log[b][done[b] + 1]
       IN  /\ dir' = IF p \in Device THEN [dir EXCEPT ![b] = TRUE] ELSE dir
           /\ replica' = Replicated(b, p)
    /\ done' = [done EXCEPT ![b] = @ + 1]
    /\ UNCHANGED <<others, masterVars, up, crashed, late>>

BackupCrashes(b) ==
    /\ b \notin crashed /\ Cardinality(crashed) < MaxCrashes
    /\ crashed' = crashed \cup {b}
    /\ UNCHANGED <<others, masterVars, up, backupVars, late>>

-----------------------------------------------------------------------------
Handles(j) ==
    Receives(j) \/ Forwards(j) \/ ForwardsAstray(j) \/ ForwardsLast(j) \/ Answers(j)
HandlesRequest(r) == Applies(r) \/ Tells(r) \/ TellsLast(r)

Next ==
    \/ /\ up
       /\ \/ \E j \in Job : Handles(j)
          \/ \E r \in Request : HandlesRequest(r)
          \/ \E d \in Device : SyncLists(d) \/ SyncReads(d) \/ SyncSends(d)
          \/ MasterStops
          \/ \E b \in Backup : BackupJoins(b)
    \/ \E b \in Backup : BackupApplies(b) \/ BackupCrashes(b)

Spec == Init /\ [][Next]_vars

-----------------------------------------------------------------------------
(* Properties.                                                             *)

\* No loop has come to place i through an iterator that had become invalid
Sure(i) == \A j \in Job : i <= thread[j].n => i <= thread[j].valid

\* No backup up to place i has crashed: their writes cannot have failed
Intact(i) == \A h \in 1 .. i : others[h] \notin crashed

\* A live backup has handled all that was written to it
Drained == \A b \in Backup \ crashed : done[b] = Len(log[b])

\* Requests came one after the other, and none of them was refused
OneByOne == ~overlapped /\ \A u \in Refused : thread[u].pc = "none"

\* A client that was told that its request succeeded finds it written to every
\* backup that had joined when the request came in, up to the first backup that
\* has crashed and to where the loop was when another one joined, whatever else
\* was going on.
AckedIsForwarded ==
    \A r \in Request : thread[r].pc \in {"tell", "done"} /\ thread[r].ok =>
        \A i \in 1 .. thread[r].valid :
            i \in DOMAIN others /\ Intact(i) => \E m \in DOMAIN log[others[i]] : log[others[i]][m] = r

\* Once everything has been handled, requests that came one by one leave the
\* same file on the master, on the backups that joined before the first login
\* (and that no loop missed because its iterators had become invalid), and on the
\* devices (but for those that got a broadcast before the older file from
\* sync_files).
AgreeUnlessRaced ==
    up /\ Drained /\ OneByOne /\ (\A j \in Job : ~InFlight(j)) =>
        /\ \A i \in DOMAIN others :
              Intact(i) /\ Sure(i) /\ others[i] \notin late => replica[others[i]] = masterFile
        /\ \A d \in Device \ overtaken : sync[d] = "done" => told[d] = masterFile

\* When the master stops, its successor (the first backup: the lowest id wins
\* the vote) is left with the file the master had, or with that of the request
\* that was being handled, unless a backup that joined while the successor was
\* about to be written to has made a loop miss it.
SuccessorIsCurrent ==
    ~up /\ Drained /\ OneByOne /\ others # << >> =>
        (Intact(1) /\ Sure(1) /\ others[1] \notin late =>
            \/ replica[others[1]] = masterFile
            \/ \E r \in Request : thread[r].pc \in {"forward", "apply"}
                                  /\ replica[others[1]] = Effect(r))

\* "State replication" (internal_router.hpp:39-44): once everything has been
\* handled, the backups hold the master's file, however requests interleaved.
StateReplication ==
    up /\ Drained /\ (\A j \in Job : ~InFlight(j)) =>
        \A i \in DOMAIN others : Intact(i) => replica[others[i]] = masterFile
=============================================================================
