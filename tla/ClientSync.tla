----------------------------- MODULE ClientSync -----------------------------
(***************************************************************************)
(* How the sync_dir of a user's devices follow each other: the inotify     *)
(* watcher (SyncManager), the packet listener and the mailboxes of every   *)
(* client, and the requests on files of the server (Manager), which sends   *)
(* every change on to the devices.  The listener tells the watcher not to  *)
(* upload what it is about to write by one flag, should_ignore.            *)
(*                                                                         *)
(* The server takes one request of a device at a time, as in Sessions; it  *)
(* reads or writes a file in one step, and all of sync_files is one step: a  *)
(* change made while that is going on counts as lost here (module           *)
(* Replication has the steps).  What the clients only print is left out, and *)
(* so are LIST and DOWNLOAD, which do not touch a sync_dir.                 *)
(***************************************************************************)
EXTENDS Integers, SequencesExt, FiniteSets

CONSTANTS Device,    \* the devices of one user, all logged in
          File,      \* file names
          Scenario,  \* what users do, and where
          MaxEchoes, \* bound: broadcasts sent back once a file was deleted
          None,      \* no packet, no file that is being written
          NoName     \* "error deleting file", which is no file's name

Change == {"move in", "save", "remove", "upload", "delete", "delete_safe", "get_sync_dir"}

\* What a file can be: missing, truncated, a mix of two writes, or a version.
\* Version 1 is from before, version k + 1 from the k-th change.
Absent == -2
Mixed  == -1
Empty  == 0
Content == {Absent, Mixed} \cup Nat
Whole(c) == c > 0

Event == [kind : {"CREATE", "MOVED_TO", "MODIFY", "DELETE"}, file : File,
          by : {"user", "listener", "unflagged"}]
Opened == [file : File, data : Content]

\* What clients send, and what the server does
Upstream ==
    [type : {"UPLOAD_REQ"}, file : File, data : Content, last : BOOLEAN] \cup
    [type : {"DELETE_REQ", "SYNC_DIR_REQ"}, file : File \cup {NoName}, data : Content,
     last : BOOLEAN]
Downstream ==
    [type : {"UPLOAD_BROADCAST"}, file : File, data : Content, last : {FALSE}] \cup
    [type : {"SYNC_DIR_ACCEPT_RESP"}, file : File, data : Content, last : BOOLEAN] \cup
    [type : {"DELETE_BROADCAST", "DELETE_ACCEPT_RESP"}, file : File \cup {NoName},
     data : Content, last : {FALSE}]

\* A scenario: the devices that have just been started, with an empty
\* sync_dir; the files the user had before; those that the server may fail to
\* open for writing; and what changes are made, in order.
ASSUME ClientSyncAssumption ==
    /\ IsFiniteSet(Device) /\ IsFiniteSet(File) /\ NoName \notin File
    /\ None \notin Opened \cup Upstream \cup Downstream
    /\ MaxEchoes \in Nat
    /\ \A s \in Scenario :
          /\ s.starting \subseteq Device /\ s.old \subseteq File /\ s.refused \subseteq File
          /\ s.script \in Seq([kind : Change, at : Device, file : File])

VARIABLES
    scenario, \* the one that is played
    changes,  \* how many changes of its script users have made
    dir,      \* every device's sync_dir
    open,     \* the file that its user or its listener has opened for writing
    watching, \* SyncManager::watch has been called
    events,   \* inotify: events the watcher has not read
    batch,    \* those that it has read into its buffer and not handled
    watcher,  \* SyncManager::run: "read", "event", "clear"
    ignore,   \* should_ignore
    watched,  \* the mailbox of SyncManager
    typed,    \* the mailbox of InputManager
    listener, \* packet_listener: "read", "apply", "write", "upload"
    received, \* the packet it handles
    listing,  \* the files it has still to upload
    toServer, toClient, \* the connection, either way
    files,    \* the user's directory at the server
    handler,  \* Manager::handle_connection: the broadcast and who is to get it
    latest,   \* history: what the last change made of each file
    lost,     \* history: files of which a change was lost, or made too early
    deleted,  \* history: some file was deleted
    echoes,   \* history: broadcasts that were sent back since then
    calm,     \* history: no broadcast has met a busy watcher, or a busy user
    stale     \* history: the flag is set, with no event to come that clears it

localVars == <<dir, open, watching, events>>
watcherVars == <<batch, watcher>>
listenerVars == <<listener, received, listing>>
serverVars == <<files, handler>>
userVars == <<scenario, changes>>
remoteVars == <<toServer, toClient, serverVars, userVars>>
mailboxes == <<watched, typed>>
outcomes == <<latest, lost, deleted, echoes>>
history == <<outcomes, calm, stale>>
vars == <<localVars, watcherVars, ignore, mailboxes, listenerVars, remoteVars, history>>

TypeOK ==
    /\ dir \in [Device -> [File -> Content]]
    /\ open \in [Device -> [{"user", "listener"} -> Opened \cup {None}]]
    /\ watching \in [Device -> BOOLEAN]
    /\ events \in [Device -> Seq(Event)] /\ batch \in [Device -> Seq(Event)]
    /\ watcher \in [Device -> {"read", "event", "clear"}]
    /\ \A d \in Device : watcher[d] = "event" <=> batch[d] # << >>
    /\ ignore \in [Device -> BOOLEAN]
    /\ watched \in [Device -> Upstream \cup {None}]
    /\ typed \in [Device -> Upstream \cup {None}]
    /\ listener \in [Device -> {"read", "apply", "write", "upload"}]
    /\ received \in [Device -> Downstream \cup {None}]
    /\ \A d \in Device : received[d] # None <=> listener[d] # "read"
    /\ listing \in [Device -> Seq(File)]
    /\ toServer \in [Device -> Seq(Upstream)] /\ toClient \in [Device -> Seq(Downstream)]
    /\ files \in [File -> Content]
    /\ handler \in [Device -> Seq([to : Device, packet : Downstream])]
    /\ scenario \in Scenario /\ changes \in 0 .. Len(scenario.script)
    /\ latest \in [File -> Content]
    /\ lost \subseteq File /\ deleted \in BOOLEAN /\ echoes \in 0 .. MaxEchoes
    /\ calm \in [Device -> BOOLEAN] /\ stale \in [Device -> BOOLEAN]

\* A client that has just been started has queued its SYNC_DIR_REQ, and is about
\* to watch its sync_dir.  should_ignore is not set by the constructor: it may
\* ignore its first events.
Init ==
    /\ scenario \in Scenario /\ changes = 0
    /\ files = [f \in File |-> IF f \in scenario.old THEN 1 ELSE Absent]
    /\ dir = [d \in Device |-> IF d \in scenario.starting THEN [f \in File |-> Absent] ELSE files]
    /\ open = [d \in Device |-> [w \in {"user", "listener"} |-> None]]
    /\ watching = [d \in Device |-> d \notin scenario.starting]
    /\ events = [d \in Device |-> << >>] /\ batch = events
    /\ watcher = [d \in Device |-> "read"]
    /\ ignore \in {i \in [Device -> BOOLEAN] : \A d \in Device \ scenario.starting : ~i[d]}
    /\ watched = [d \in Device |-> None]
    /\ typed = [d \in Device |->
                   IF d \in scenario.starting
                   THEN [type |-> "SYNC_DIR_REQ", file |-> NoName, data |-> Absent, last |-> FALSE]
                   ELSE None]
    /\ listener = watcher /\ received = watched /\ listing = events
    /\ toServer = events /\ toClient = events
    /\ handler = events
    /\ latest = files /\ lost = {} /\ deleted = FALSE /\ echoes = 0
    /\ calm = [d \in Device |-> TRUE] /\ stale = ignore

-----------------------------------------------------------------------------
(* Files, and what inotify says of them.                                   *)

Request(type, f, c) == [type |-> type, file |-> f, data |-> c, last |-> FALSE]

\* The kernel drops an event that repeats the last one in the queue
Queued(q, e) ==
    IF q # << >> /\ Last(q).kind = e.kind /\ Last(q).file = e.file THEN q
    ELSE Append(q, e)

Notify(d, kind, f, by) ==
    /\ events' = IF watching[d]
                 THEN [events EXCEPT ![d] = Queued(@, [kind |-> kind, file |-> f, by |-> by])]
                 ELSE events
    /\ UNCHANGED watching

\* Opening a file for writing creates or truncates it
Opens(d, who, f, c, by) ==
    /\ dir' = [dir EXCEPT ![d][f] = Empty]
    /\ open' = [open EXCEPT ![d][who] = [file |-> f, data |-> c]]
    /\ IF dir[d][f] = Absent THEN Notify(d, "CREATE", f, by)
       ELSE IF dir[d][f] # Empty THEN Notify(d, "MODIFY", f, by)
       ELSE UNCHANGED <<watching, events>>

\* What is written to a file that has lost its name meanwhile is lost
Writes(d, who) ==
    /\ open' = [open EXCEPT ![d][who] = None]
    /\ LET o == open[d][who]
       IN  IF o = None \/ (o # None /\ o.data = Empty) THEN UNCHANGED <<dir, watching, events>>
           ELSE /\ dir' = [dir EXCEPT ![d][o.file] =
                              IF @ \in {Empty, o.data} THEN o.data ELSE Mixed]
                /\ Notify(d, "MODIFY", o.file, IF who = "user" THEN "user" ELSE "listener")

\* remove() or rename() takes the name away from a file that is being written
Unlinked(d, f) ==
    open' = [open EXCEPT ![d] = [w \in {"user", "listener"} |->
                IF @[w] # None /\ @[w].file = f THEN None ELSE @[w]]]

Removed(d, f, by) ==
    IF f \in File /\ dir[d][f] # Absent
    THEN /\ dir' = [dir EXCEPT ![d][f] = Absent]
         /\ Unlinked(d, f)
         /\ Notify(d, "DELETE", f, by)
    ELSE UNCHANGED localVars

-----------------------------------------------------------------------------
(* Users.                                                                  *)

\* Something is under way that concerns f, or every file: a device that has got
\* the files of the server uploads all it has
About(p, f) == p # None /\ (p.file = f \/ p.type \in {"SYNC_DIR_REQ", "SYNC_DIR_ACCEPT_RESP"})

InFlight(f) ==
    \E d \in Device :
        \/ \E p \in {watched[d], typed[d], received[d]} : About(p, f)
        \/ \E h \in Range(handler[d]) : About(h.packet, f)
        \/ \E p \in Range(toServer[d]) \cup Range(toClient[d]) : About(p, f)
        \/ \E e \in Range(events[d]) \cup Range(batch[d]) : e.file = f
        \/ \E w \in {"user", "listener"} : open[d][w] # None /\ open[d][w].file = f
        \/ f \in Range(listing[d])

NewVersion == changes + 2

\* The script's next change
Makes(kind, d, f) ==
    /\ changes < Len(scenario.script)
    /\ scenario.script[changes + 1] = [kind |-> kind, at |-> d, file |-> f]
    /\ open[d]["user"] = None
    /\ changes' = changes + 1 /\ UNCHANGED scenario

\* It makes c of f, at d
Changes(kind, d, f, c) ==
    /\ Makes(kind, d, f)
    /\ latest' = [latest EXCEPT ![f] = c]
    /\ deleted' = (deleted \/ c = Absent)
    /\ calm' = [calm EXCEPT ![d] = @ /\ listener[d] = "read" /\
                   \A e \in Range(events[d]) \cup Range(batch[d]) : e.by = "user"]
    /\ UNCHANGED <<echoes, stale>>

\* set_packet: what was in the mailbox is gone
Types(d, p) == watching[d] /\ typed' = [typed EXCEPT ![d] = p]

\* A change of f at d may be lost: another one is on its way, or nobody watches
Unsafe(d, f) == InFlight(f) \/ ~watching[d]

LostIf(b, f) == lost' = IF b THEN lost \cup {f} ELSE lost

DroppedFrom(mailbox, d, S) ==
    lost' = lost \cup S \cup
        IF mailbox[d] # None THEN {f \in File : About(mailbox[d], f)} ELSE {}

Unaware == UNCHANGED <<watcherVars, ignore, watched, listenerVars, toServer, toClient, serverVars>>

MovesIn(d, f) ==
    /\ Changes("move in", d, f, NewVersion)
    /\ dir' = [dir EXCEPT ![d][f] = NewVersion]
    /\ Unlinked(d, f)
    /\ Notify(d, "MOVED_TO", f, "user")
    /\ LostIf(Unsafe(d, f), f)
    /\ Unaware /\ UNCHANGED typed

\* Writing over a file only makes MODIFY events, which the watcher skips
BeginsSave(d, f) ==
    /\ Changes("save", d, f, NewVersion)
    /\ Opens(d, "user", f, NewVersion, "user")
    /\ LostIf(Unsafe(d, f) \/ dir[d][f] # Absent, f)
    /\ Unaware /\ UNCHANGED typed

EndsSave(d) ==
    /\ open[d]["user"] # None
    /\ Writes(d, "user")
    /\ Unaware /\ UNCHANGED <<typed, userVars, history>>

Removes(d, f) ==
    /\ dir[d][f] # Absent /\ Changes("remove", d, f, Absent)
    /\ Removed(d, f, "user")
    /\ LostIf(Unsafe(d, f), f)
    /\ Unaware /\ UNCHANGED typed

\* InputManager::run, once it has queued the first SYNC_DIR_REQ
BeginsWatching(d) ==
    /\ ~watching[d]
    /\ watching' = [watching EXCEPT ![d] = TRUE]
    /\ Unaware /\ UNCHANGED <<dir, open, events, typed, userVars, history>>

\* Its commands, which it reads from then on
Uploads(d, f) ==
    /\ Changes("upload", d, f, NewVersion)
    /\ Types(d, Request("UPLOAD_REQ", f, NewVersion))
    /\ DroppedFrom(typed, d, IF InFlight(f) THEN {f} ELSE {})
    /\ Unaware /\ UNCHANGED localVars

\* delete removes the local file as well, delete_safe does not
Deletes(d, f) ==
    /\ \/ Changes("delete", d, f, Absent) /\ Removed(d, f, "user")
       \/ Changes("delete_safe", d, f, Absent) /\ UNCHANGED localVars
    /\ Types(d, Request("DELETE_REQ", f, Absent))
    /\ DroppedFrom(typed, d, IF InFlight(f) THEN {f} ELSE {})
    /\ Unaware

GetsSyncDir(d, f) ==
    /\ Makes("get_sync_dir", d, f)
    /\ Types(d, Request("SYNC_DIR_REQ", NoName, Absent))
    /\ DroppedFrom(typed, d, {x \in File : InFlight(x)})
    /\ Unaware /\ UNCHANGED <<localVars, latest, deleted, echoes, calm, stale>>

-----------------------------------------------------------------------------
(* SyncManager::run, the watcher.                                          *)

\* Mutant: read() returning nothing is not noticed
ReadsNothing(d) ==
    /\ watcher[d] = "read"
    /\ batch' = [batch EXCEPT ![d] = events[d]]
    /\ events' = [events EXCEPT ![d] = << >>]
    /\ watcher' = [watcher EXCEPT ![d] = "event"]
    /\ UNCHANGED <<dir, open, watching, ignore, mailboxes, listenerVars, remoteVars, history>>

\* Mutant: the watcher does not read while the flag is set
WaitsForFlag(d) ==
    /\ watcher[d] = "read" /\ events[d] # << >> /\ ~ignore[d]
    /\ batch' = [batch EXCEPT ![d] = events[d]]
    /\ events' = [events EXCEPT ![d] = << >>]
    /\ watcher' = [watcher EXCEPT ![d] = "event"]
    /\ UNCHANGED <<dir, open, watching, ignore, mailboxes, listenerVars, remoteVars, history>>

\* read() of the inotify descriptor
ReadsEvents(d) ==
    /\ watcher[d] = "read" /\ events[d] # << >>
    /\ batch' = [batch EXCEPT ![d] = events[d]]
    /\ events' = [events EXCEPT ![d] = << >>]
    /\ watcher' = [watcher EXCEPT ![d] = "event"]
    /\ UNCHANGED <<dir, open, watching, ignore, mailboxes, listenerVars, remoteVars, history>>

\* Mutant: there is no branch for IN_DELETE
MessageOfNew(d, e) ==
    IF e.kind \in {"CREATE", "MOVED_TO"}
    THEN Request("UPLOAD_REQ", e.file, IF dir[d][e.file] = Absent THEN Mixed ELSE dir[d][e.file])
    ELSE None

\* The branches on the mask: a new file is read at once, whole or not; one
\* that is gone again leaves data and file_size unset (Mixed); MODIFY does
\* nothing (size 0)
MessageOf(d, e) ==
    CASE e.kind = "DELETE" -> Request("DELETE_REQ", e.file, Absent)
      [] e.kind \in {"CREATE", "MOVED_TO"} ->
            Request("UPLOAD_REQ", e.file, IF dir[d][e.file] = Absent THEN Mixed ELSE dir[d][e.file])
      [] OTHER -> None

\* One event: the file is read, and offered to the main loop unless there is
\* nothing to send or the flag is set
HandlesEvent(d) ==
    /\ watcher[d] = "event"
    /\ LET e     == Head(batch[d])
           p     == MessageOf(d, e)
           sends == p # None /\ ~ignore[d]
           echo  == sends /\ e.by = "listener"
           own   == e.by = "user" /\ p # None
           torn  == p # None /\ p.type = "UPLOAD_REQ" /\ ~Whole(p.data)
       IN  /\ watched' = IF sends THEN [watched EXCEPT ![d] = p] ELSE watched
           /\ IF sends THEN DroppedFrom(watched, d, IF torn THEN {e.file} ELSE {})
              ELSE LostIf(own, e.file)
           /\ echo => echoes < MaxEchoes
           /\ echoes' = IF echo /\ deleted THEN echoes + 1 ELSE echoes
    /\ batch' = [batch EXCEPT ![d] = Tail(@)]
    /\ watcher' = [watcher EXCEPT ![d] = IF Len(batch[d]) = 1 THEN "clear" ELSE "event"]
    /\ UNCHANGED <<localVars, ignore, typed, listenerVars, remoteVars, latest, deleted,
                   calm, stale>>

\* Mutant: the flag is not reset
KeepsFlag(d) ==
    /\ watcher[d] = "clear"
    /\ UNCHANGED ignore
    /\ watcher' = [watcher EXCEPT ![d] = "read"]
    /\ stale' = [stale EXCEPT ![d] = FALSE]
    /\ UNCHANGED <<localVars, batch, mailboxes, listenerVars, remoteVars, outcomes, calm>>

\* should_ignore = false, after every batch
ClearsFlag(d) ==
    /\ watcher[d] = "clear"
    /\ ignore' = [ignore EXCEPT ![d] = FALSE]
    /\ watcher' = [watcher EXCEPT ![d] = "read"]
    /\ stale' = [stale EXCEPT ![d] = FALSE]
    /\ UNCHANGED <<localVars, batch, mailboxes, listenerVars, remoteVars, outcomes, calm>>

-----------------------------------------------------------------------------
(* main: the loop that empties the mailboxes.                              *)

Sends(d, p) == toServer' = [toServer EXCEPT ![d] = Append(@, p)]

SendsTyped(d) ==
    /\ typed[d] # None
    /\ Sends(d, typed[d])
    /\ typed' = [typed EXCEPT ![d] = None]
    /\ UNCHANGED <<localVars, watcherVars, ignore, watched, listenerVars, toClient,
                   serverVars, userVars, history>>

SendsWatched(d) ==
    /\ watched[d] # None
    /\ Sends(d, watched[d])
    /\ watched' = [watched EXCEPT ![d] = None]
    /\ UNCHANGED <<localVars, watcherVars, ignore, typed, listenerVars, toClient,
                   serverVars, userVars, history>>

-----------------------------------------------------------------------------
(* packet_listener.                                                        *)

WatcherIsQuiet(d) == events[d] = << >> /\ watcher[d] = "read"

\* Mutant: the files of a SYNC_DIR_ACCEPT_RESP are not ignored
IgnoresBroadcasts(p) == p.type \in {"UPLOAD_BROADCAST", "DELETE_BROADCAST"}

\* Which branches call ignore(): not the one that removes a file of our own
Ignores(p) == p.type # "DELETE_ACCEPT_RESP"

\* read_packet, and ignore()
Receives(d) ==
    /\ listener[d] = "read" /\ toClient[d] # << >>
    /\ received' = [received EXCEPT ![d] = Head(toClient[d])]
    /\ toClient' = [toClient EXCEPT ![d] = Tail(@)]
    /\ listener' = [listener EXCEPT ![d] = "apply"]
    /\ IF ~Ignores(Head(toClient[d])) THEN UNCHANGED <<ignore, calm>>
       ELSE /\ ignore' = [ignore EXCEPT ![d] = TRUE]
            /\ calm' = [calm EXCEPT ![d] = @ /\ WatcherIsQuiet(d) /\ open[d]["user"] = None]
    /\ UNCHANGED <<localVars, watcherVars, mailboxes, listing, toServer, serverVars,
                   userVars, outcomes, stale>>

Done(d) ==
    /\ listener' = [listener EXCEPT ![d] = "read"]
    /\ received' = [received EXCEPT ![d] = None]

\* Once a broadcast is applied: the flag is set for nothing
FlagIsStale(d) ==
    stale' = [stale EXCEPT ![d] = ignore[d] /\ events'[d] = << >> /\ watcher[d] = "read"]

\* remove(), or write_file(), which first opens the file
Applies(d) ==
    /\ listener[d] = "apply"
    /\ LET p == received[d]
       IN  IF p.type \in {"DELETE_BROADCAST", "DELETE_ACCEPT_RESP"}
           THEN /\ Removed(d, p.file, IF p.type = "DELETE_BROADCAST" THEN "listener" ELSE "unflagged")
                /\ Done(d)
           ELSE /\ Opens(d, "listener", p.file, p.data, "listener")
                /\ listener' = [listener EXCEPT ![d] = "write"]
                /\ UNCHANGED received
    /\ IF Ignores(received[d]) THEN FlagIsStale(d) ELSE UNCHANGED stale
    /\ UNCHANGED <<watcherVars, ignore, mailboxes, listing, remoteVars, outcomes, calm>>

\* list_directory
Listed(tab) == SetToSeq({f \in File : tab[f] # Absent})

\* The last file of a SYNC_DIR_ACCEPT_RESP is followed by an upload of all
WritesReceived(d) ==
    /\ listener[d] = "write"
    /\ Writes(d, "listener")
    /\ IF received[d].last
       THEN /\ listing' = [listing EXCEPT ![d] = Listed(dir'[d])]
            /\ listener' = [listener EXCEPT ![d] = "upload"]
            /\ UNCHANGED received
       ELSE Done(d) /\ UNCHANGED listing
    /\ FlagIsStale(d)
    /\ UNCHANGED <<watcherVars, ignore, mailboxes, remoteVars, outcomes, calm>>

\* The listener writes these packets itself, past the mailboxes
UploadsListed(d) ==
    /\ listener[d] = "upload"
    /\ IF listing[d] = << >> THEN Done(d) /\ UNCHANGED <<listing, toServer, lost>>
       ELSE LET f == Head(listing[d])
                c == IF dir[d][f] = Absent THEN Mixed ELSE dir[d][f]
            IN  /\ Sends(d, Request("UPLOAD_REQ", f, c))
                /\ listing' = [listing EXCEPT ![d] = Tail(@)]
                /\ LostIf(~Whole(c), f)
                /\ UNCHANGED <<listener, received>>
    /\ UNCHANGED <<localVars, watcherVars, ignore, mailboxes, toClient, serverVars,
                   userVars, latest, deleted, echoes, calm, stale>>

-----------------------------------------------------------------------------
(* The server: Manager::handle_connection, and broadcast_to_user.          *)

Everyone == SetToSeq(Device)
Broadcast(type, f, c, to) == [k \in DOMAIN to |-> [to |-> to[k], packet |-> Request(type, f, c)]]

\* write_file; the upload goes back to the device it came from as well
Stores(d, p) ==
    /\ p.type = "UPLOAD_REQ"
    /\ files' = [files EXCEPT ![p.file] = p.data]
    /\ handler' = [handler EXCEPT ![d] = Broadcast("UPLOAD_BROADCAST", p.file, p.data, Everyone)]
    /\ UNCHANGED toClient

\* write_file fails, and the upload goes to everyone all the same
Refuses(d, p) ==
    /\ p.type = "UPLOAD_REQ" /\ p.file \in scenario.refused
    /\ lost' = lost \cup {p.file}
    /\ handler' = [handler EXCEPT ![d] = Broadcast("UPLOAD_BROADCAST", p.file, p.data, Everyone)]
    /\ UNCHANGED <<files, toClient>>

\* remove(); a refusal is broadcast too, and then it names no file
Erases(d, p) ==
    LET others == SetToSeq(Device \ {d})
        found  == p.file \in File /\ files[p.file] # Absent
    IN  /\ p.type = "DELETE_REQ"
        /\ IF found
           THEN /\ files' = [files EXCEPT ![p.file] = Absent]
                /\ toClient' = [toClient EXCEPT ![d] =
                                   Append(@, Request("DELETE_ACCEPT_RESP", p.file, Absent))]
           ELSE UNCHANGED <<files, toClient>>
        /\ handler' = [handler EXCEPT ![d] =
              Broadcast("DELETE_BROADCAST", IF found THEN p.file ELSE NoName, Absent, others)]

\* sync_files: one packet for each file, numbered
SyncsFiles(d, p) ==
    LET sent == Listed(files)
    IN  /\ p.type = "SYNC_DIR_REQ"
        /\ toClient' = [toClient EXCEPT ![d] = @ \o
              [k \in DOMAIN sent |-> [type |-> "SYNC_DIR_ACCEPT_RESP", file |-> sent[k],
                                      data |-> files[sent[k]], last |-> k = Len(sent)]]]
        /\ UNCHANGED <<files, handler>>

Serves(d) ==
    /\ handler[d] = << >> /\ toServer[d] # << >>
    /\ toServer' = [toServer EXCEPT ![d] = Tail(@)]
    /\ LET p == Head(toServer[d])
       IN  \/ Refuses(d, p)
           \/ (Stores(d, p) \/ Erases(d, p) \/ SyncsFiles(d, p)) /\ UNCHANGED lost
    /\ UNCHANGED <<localVars, watcherVars, ignore, mailboxes, listenerVars, userVars,
                   latest, deleted, echoes, calm, stale>>

Forwards(d) ==
    /\ handler[d] # << >>
    /\ LET h == Head(handler[d])
       IN  toClient' = [toClient EXCEPT ![h.to] = Append(@, h.packet)]
    /\ handler' = [handler EXCEPT ![d] = Tail(@)]
    /\ UNCHANGED <<localVars, watcherVars, ignore, mailboxes, listenerVars, toServer,
                   files, userVars, history>>

-----------------------------------------------------------------------------
UserChanges(d) ==
    \E f \in File : \/ MovesIn(d, f) \/ BeginsSave(d, f) \/ Removes(d, f)
                    \/ Uploads(d, f) \/ Deletes(d, f) \/ GetsSyncDir(d, f)

Watcher(d) == ReadsEvents(d) \/ HandlesEvent(d) \/ ClearsFlag(d)

Listener(d) == Receives(d) \/ Applies(d) \/ WritesReceived(d) \/ UploadsListed(d)

Next ==
    \E d \in Device :
        \/ UserChanges(d) \/ EndsSave(d) \/ BeginsWatching(d)
        \/ Watcher(d) \/ Listener(d) \/ SendsTyped(d) \/ SendsWatched(d)
        \/ Serves(d) \/ Forwards(d)

Spec == Init /\ [][Next]_vars

\* The threads of every client and of the server run; a user who has opened a
\* file ends by writing it, and need not do anything else.
Fairness ==
    \A d \in Device :
        /\ WF_vars(EndsSave(d)) /\ WF_vars(BeginsWatching(d))
        /\ WF_vars(Watcher(d)) /\ WF_vars(Listener(d))
        /\ WF_vars(SendsTyped(d)) /\ WF_vars(SendsWatched(d))
        /\ WF_vars(Serves(d)) /\ WF_vars(Forwards(d))

FairSpec == Spec /\ Fairness

-----------------------------------------------------------------------------
(* Properties.                                                             *)

\* Nothing is under way at d, or between it and the server
QuietAt(d) ==
    /\ WatcherIsQuiet(d) /\ open[d]["user"] = None /\ listener[d] = "read"
    /\ watched[d] = None /\ typed[d] = None
    /\ toServer[d] = << >> /\ toClient[d] = << >> /\ handler[d] = << >>

Quiet == \A d \in Device : QuietAt(d)

\* The lost changes are those the code can lose: made before the client
\* watches, ignored by the flag, replaced in a mailbox, read before the file was
\* written, made in place, made while another change of the file was on its
\* way, or refused by the server (which sends them to the devices all the same).
\* Any other reaches the server and every device, whatever happens to other
\* files meanwhile.
QuietAgrees ==
    Quiet => \A f \in File \ lost :
        files[f] = latest[f] /\ \A d \in Device : dir[d][f] = latest[f]

\* A broadcast is sent back as a change of the device's own only if it was
\* received while the watcher was busy, or the user: ignore() before the file
\* is touched covers the CREATE and the DELETE event in every other case.
EchoNeedsOverlap ==
    \A d \in Device :
        calm[d] /\ watcher[d] = "event" /\ Head(batch[d]).by = "listener" =>
            ignore[d] \/ MessageOf(d, Head(batch[d])) = None

\* A change made while no broadcast is being applied is ignored only if the
\* flag was left over: by a broadcast that changed nothing in the sync_dir (the
\* refusal of a DELETE is broadcast too), or by the constructor.
IgnoredNeedsOverlap ==
    \A d \in Device :
        calm[d] /\ watcher[d] = "event" /\ Head(batch[d]).by = "user" =>
            ~ignore[d] \/ stale[d]

\* As long as nothing is deleted, echoes die out: what an echo writes to the
\* other devices is there already, and MODIFY events are not sent
\* (sync_manager.cpp:95).
EchoesDieOut == []~deleted => <>[]Quiet
=============================================================================
