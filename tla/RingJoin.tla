------------------------------ MODULE RingJoin ------------------------------
(***************************************************************************)
(* How backups join the master: its accept loop (InternalRouter::start), the *)
(* thread it starts for each of them (InternalRouter::handle_connection),   *)
(* the vector `others` that all of these use without a lock, and the join   *)
(* sequence of a backup (server/main.cpp, keepalive).  It hands out the ids *)
(* and the adjacency that module RingElection starts from.                  *)
(***************************************************************************)
EXTENDS Integers, Sequences, FiniteSets

CONSTANTS Backup,        \* the processes started with role "backup", numbered
                         \* in the order in which the operator starts them
          MaxBroadcasts, \* bound: packets replicated while backups join
          MaxCrashes,    \* bound: backups that crash while joins overlap
          MaxAtOnce,     \* bound: backups started without waiting for others
          None,          \* the empty address, no id yet
          Garbled        \* an address read from freed memory

ASSUME RingJoinAssumption ==
    /\ Backup \subseteq Nat /\ IsFiniteSet(Backup)
    /\ MaxBroadcasts \in Nat /\ MaxCrashes \in Nat /\ MaxAtOnce \in Nat
    /\ None # Garbled /\ {None, Garbled} \cap Int = {}

VARIABLES
    serial,    \* a backup is started only when those before it have joined
    others,    \* the vector: a connection, and server_ip:server_port
    handler,   \* the thread for each connection: pc, `in` (an index of
               \* others, and whether it still points there), new_backup_id
    up,        \* the master process has not been terminated
    pc,        \* each backup in main.cpp
    id,        \* InternalRouter::_id
    adjacent,  \* InternalRouter::adjacent
    toMaster,  \* JOIN_REQ written and not yet read
    inbox,     \* packets the master wrote to each backup and it has not read
    broadcasts \* how many packets have been replicated

joinVars == <<pc, id, adjacent>>
vars == <<serial, others, handler, up, joinVars, toMaster, inbox, broadcasts>>

Address == Backup \cup {None, Garbled}

Packet == [type : {"JOIN_RESP"}, addr : Address]
          \cup [type : {"YOUR_ID_RESP"}, id : Nat] \cup [type : {"SIGNED_PACKET"}]

TypeOK ==
    /\ serial \in BOOLEAN /\ up \in BOOLEAN
    /\ others \in Seq([sock : Backup, addr : Address])
    /\ handler \in [Backup -> [pc : {"none", "start", "read", "reply1", "reply2", "count", "send"},
                               in : 0 .. Cardinality(Backup), dangling : BOOLEAN, new_id : Nat]]
    /\ \A b \in Backup : handler[b].pc # "none" => handler[b].in <= Len(others)
    /\ pc \in [Backup -> {"off", "join", "id", "joined", "dead"}]
    /\ id \in [Backup -> Nat \cup {None}]
    /\ adjacent \in [Backup -> Address]
    /\ toMaster \subseteq Backup
    /\ inbox \in [Backup -> Seq(Packet)]
    /\ broadcasts \in 0 .. MaxBroadcasts

Init ==
    /\ serial \in BOOLEAN
    /\ others = << >>
    /\ handler = [b \in Backup |->
                     [pc |-> "none", in |-> 0, dangling |-> FALSE, new_id |-> 0]]
    /\ up = TRUE
    /\ pc = [b \in Backup |-> "off"]
    /\ id = [b \in Backup |-> None]
    /\ adjacent = [b \in Backup |-> None]
    /\ toMaster = {}
    /\ inbox = [b \in Backup |-> << >>]
    /\ broadcasts = 0

-----------------------------------------------------------------------------
(* The master.                                                             *)

\* push_back moves the elements when the capacity (1, 2, 4, ...) is used up
Reallocates == Len(others) \in {1, 2, 4, 8}

\* accept, others.push_back, pthread_create
Accepts(b) ==
    /\ pc[b] # "off" /\ handler[b].pc = "none"
    /\ others' = Append(others, [sock |-> b, addr |-> None])
    /\ handler' = [h \in Backup |->
          IF h = b THEN [handler[h] EXCEPT !.pc = "start"]
          ELSE [handler[h] EXCEPT !.dangling = @ \/ (handler[h].in # 0 /\ Reallocates)]]
    /\ UNCHANGED <<serial, up, joinVars, toMaster, inbox, broadcasts>>

\* others->back() when the thread gets to run
HandlerStarts(h) ==
    /\ handler[h].pc = "start"
    /\ handler' = [handler EXCEPT ![h].pc = "read", ![h].in = Len(others)]
    /\ UNCHANGED <<serial, others, up, joinVars, toMaster, inbox, broadcasts>>

\* The connection a thread reads: its element keeps the socket, where the
\* vector has it now or in the memory it had before
ReadsFrom(h) == others[handler[h].in].sock

\* JOIN_REQ: the address goes into the element, or into freed memory
HandlerReads(h) ==
    /\ handler[h].pc = "read"
    /\ ReadsFrom(h) \in toMaster
    /\ toMaster' = toMaster \ {ReadsFrom(h)}
    /\ others' = IF handler[h].dangling THEN others
                 ELSE [others EXCEPT ![handler[h].in].addr = ReadsFrom(h)]
    /\ handler' = [handler EXCEPT ![h].pc = "reply1"]
    /\ UNCHANGED <<serial, up, joinVars, inbox, broadcasts>>

\* read_packet throws when the backup is gone, and freed memory may hold any
\* descriptor by now; nothing catches
HandlerReadFails(h) ==
    /\ handler[h].pc = "read"
    /\ pc[ReadsFrom(h)] = "dead" \/ handler[h].dangling
    /\ up' = FALSE
    /\ UNCHANGED <<serial, others, handler, joinVars, toMaster, inbox, broadcasts>>

\* write_packet to the connection of an element; to a dead backup it may raise
\* SIGPIPE
WritesTo(b, p) ==
    /\ inbox' = IF pc[b] = "dead" THEN inbox ELSE [inbox EXCEPT ![b] = Append(@, p)]
    /\ up' \in IF pc[b] = "dead" THEN BOOLEAN ELSE {TRUE}

JoinResp(addr) == [type |-> "JOIN_RESP", addr |-> addr]

\* The text of the address is a temporary that is gone when it is copied
Text(addr) == {addr, Garbled}

\* Mutants: the first element in place of either
PredecessorFirst == others[1]
JoinerFirst == others[1]

\* others->at(others->size() - 2) and others->back(), whoever that is by now
Predecessor == others[Len(others) - 1]
Joiner == others[Len(others)]

\* size() is 1: there is nobody to introduce
Alone(h) ==
    /\ handler[h].pc = "reply1" /\ Len(others) = 1
    /\ handler' = [handler EXCEPT ![h].pc = "count"]
    /\ UNCHANGED <<serial, others, up, joinVars, toMaster, inbox, broadcasts>>

\* r1: the address of the last element to the last but one.  The vector only
\* grows, so that the test of its size may go with the reply.
Reply1(h) ==
    /\ handler[h].pc = "reply1" /\ Len(others) > 1
    /\ \E a \in Text(Joiner.addr) : WritesTo(Predecessor.sock, JoinResp(a))
    /\ handler' = [handler EXCEPT ![h].pc = "reply2"]
    /\ UNCHANGED <<serial, others, joinVars, toMaster, broadcasts>>

\* r2: the address of the first element to the last
Reply2(h) ==
    /\ handler[h].pc = "reply2"
    /\ \E a \in Text(others[1].addr) : WritesTo(Joiner.sock, JoinResp(a))
    /\ handler' = [handler EXCEPT ![h].pc = "count"]
    /\ UNCHANGED <<serial, others, joinVars, toMaster, broadcasts>>

\* Mutants: the size, not the index; the index of the last element but one
NewIdOffByOne == Len(others)
NewIdOfPredecessor == Len(others) - 2

NewId == Len(others) - 1

CountsId(h) ==
    /\ handler[h].pc = "count"
    /\ handler' = [handler EXCEPT ![h].pc = "send", ![h].new_id = NewId]
    /\ UNCHANGED <<serial, others, up, joinVars, toMaster, inbox, broadcasts>>

\* r3, to the last element: a backup may have been accepted since
SendsId(h) ==
    /\ handler[h].pc = "send"
    /\ WritesTo(Joiner.sock, [type |-> "YOUR_ID_RESP", id |-> handler[h].new_id])
    /\ handler' = [handler EXCEPT ![h].pc = "read"]
    /\ UNCHANGED <<serial, others, joinVars, toMaster, broadcasts>>

\* broadcast_others, from the threads of the clients, to the first n: all, or
\* up to a dead one.  A signed packet may reach a backup before the answers to
\* its JOIN_REQ.
Broadcasts ==
    /\ broadcasts < MaxBroadcasts
    /\ \E n \in 0 .. Len(others) :
          /\ n < Len(others) => pc[others[n + 1].sock] = "dead"
          /\ inbox' = [b \in Backup |->
                IF pc[b] # "dead" /\ \E k \in 1 .. n : others[k].sock = b
                THEN Append(inbox[b], [type |-> "SIGNED_PACKET"]) ELSE inbox[b]]
    /\ up' \in IF \E k \in DOMAIN others : pc[others[k].sock] = "dead"
               THEN BOOLEAN ELSE {TRUE}
    /\ broadcasts' = broadcasts + 1
    /\ UNCHANGED <<serial, others, handler, joinVars, toMaster>>

-----------------------------------------------------------------------------
(* A backup.                                                               *)

\* The operator starts b once the join of every other one is over
Settled(b) ==
    \A c \in Backup \ {b} :
        \/ pc[c] \in {"off", "dead"}
        \/ pc[c] = "joined" /\ c \notin toMaster /\ handler[c].pc = "read" /\ inbox[c] = << >>

\* connect_to_server and JOIN_REQ
Joins(b) ==
    /\ pc[b] = "off" /\ \A c \in Backup : c < b => pc[c] # "off"
    /\ IF serial THEN Settled(b)
       ELSE Cardinality({c \in Backup : pc[c] # "off"}) < MaxAtOnce
    /\ pc' = [pc EXCEPT ![b] = "join"]
    /\ toMaster' = toMaster \cup {b}
    /\ UNCHANGED <<serial, others, handler, up, id, adjacent, inbox, broadcasts>>

\* std::stoi of a garbled port throws
SetsAdjacent(b, next) ==
    LET a == Head(inbox[b]).addr
    IN  \/ /\ adjacent' = [adjacent EXCEPT ![b] = a]
           /\ pc' = [pc EXCEPT ![b] = next]
        \/ /\ a \in {Garbled, None}
           /\ pc' = [pc EXCEPT ![b] = "dead"]
           /\ UNCHANGED adjacent

Takes(b, type) ==
    /\ inbox[b] # << >> /\ Head(inbox[b]).type = type
    /\ inbox' = [inbox EXCEPT ![b] = Tail(@)]

\* Mutant: p3 is not read
ReadsJoinRespOnly(b) ==
    /\ pc[b] = "join"
    /\ Takes(b, "JOIN_RESP")
    /\ SetsAdjacent(b, "joined")
    /\ UNCHANGED <<serial, others, handler, up, id, toMaster, broadcasts>>

\* p2 is a JOIN_RESP: p3 is read next
ReadsJoinResp(b) ==
    /\ pc[b] = "join"
    /\ Takes(b, "JOIN_RESP")
    /\ SetsAdjacent(b, "id")
    /\ UNCHANGED <<serial, others, handler, up, id, toMaster, broadcasts>>

ReadsYourId(b) ==
    /\ pc[b] \in {"join", "id"}
    /\ Takes(b, "YOUR_ID_RESP")
    /\ id' = [id EXCEPT ![b] = Head(inbox[b]).id]
    /\ pc' = [pc EXCEPT ![b] = "joined"]
    /\ UNCHANGED <<serial, others, handler, up, adjacent, toMaster, broadcasts>>

\* Any other p2 or p3 is dropped, and the backup goes on without its id
ReadsOther(b) ==
    /\ \/ pc[b] \in {"join", "id"} /\ Takes(b, "SIGNED_PACKET")
       \/ pc[b] = "id" /\ Takes(b, "JOIN_RESP")
    /\ pc' = [pc EXCEPT ![b] = "joined"]
    /\ UNCHANGED <<serial, others, handler, up, id, adjacent, toMaster, broadcasts>>

\* keepalive: a JOIN_RESP sets the adjacent, YOUR_ID_RESP is unknown to it
KeepaliveReads(b) ==
    /\ pc[b] = "joined"
    /\ \/ Takes(b, "JOIN_RESP") /\ SetsAdjacent(b, "joined")
       \/ (Takes(b, "YOUR_ID_RESP") \/ Takes(b, "SIGNED_PACKET"))
          /\ UNCHANGED <<pc, adjacent>>
    /\ UNCHANGED <<serial, others, handler, up, id, toMaster, broadcasts>>

Crashes(b) ==
    /\ pc[b] \notin {"off", "dead"}
    /\ ~serial /\ Cardinality({c \in Backup : pc[c] = "dead"}) < MaxCrashes
    /\ pc' = [pc EXCEPT ![b] = "dead"]
    /\ UNCHANGED <<serial, others, handler, up, id, adjacent, toMaster, inbox, broadcasts>>

-----------------------------------------------------------------------------
Handler(h) ==
    \/ HandlerStarts(h) \/ HandlerReads(h) \/ Alone(h)
    \/ Reply1(h) \/ Reply2(h) \/ CountsId(h) \/ SendsId(h)

BackupReads(b) ==
    ReadsJoinResp(b) \/ ReadsYourId(b) \/ ReadsOther(b) \/ KeepaliveReads(b)

\* Once the master is gone the backups go on to vote: module RingElection
Next ==
    /\ up
    /\ \/ \E b \in Backup :
             \/ Accepts(b) \/ Handler(b) \/ HandlerReadFails(b)
             \/ Joins(b) \/ BackupReads(b) \/ Crashes(b)
       \/ Broadcasts

Spec == Init /\ [][Next]_vars

Fairness ==
    \A b \in Backup :
        /\ WF_vars(up /\ Accepts(b)) /\ WF_vars(up /\ Handler(b))
        /\ WF_vars(up /\ BackupReads(b))

FairSpec == Spec /\ Fairness

-----------------------------------------------------------------------------
(* Properties.                                                             *)

\* Backups are started one by one, and none has died
Orderly == serial /\ \A b \in Backup : pc[b] # "dead"

\* Every backup that was started has joined and nothing is on its way
Quiet ==
    /\ toMaster = {}
    /\ \A b \in Backup : pc[b] \in {"off", "joined"} /\ inbox[b] = << >>
    /\ \A b \in Backup : pc[b] = "joined" => handler[b].pc = "read"

\* Backups started one by one get their place in the vector as their id, the
\* next one starting at 0.  If several join at once an id may go to a later
\* backup than it was counted for (size and back() are read apart), never to
\* an earlier one, and so it may after a crash in the middle of a join.
IdsArePlaces ==
    \A k \in DOMAIN others :
        LET b == others[k].sock
        IN  id[b] # None => IF Orderly THEN id[b] = k - 1 ELSE id[b] <= k - 1

\* Backups started one by one close the ring that a vote will need: each one's
\* adjacent is the next in the vector, the last one's the first, unless the
\* text of the address was read after it was freed.
RingIsClosed ==
    Orderly /\ Quiet /\ Len(others) > 1 =>
        \A k \in DOMAIN others :
            adjacent[others[k].sock] \in
                {others[IF k = Len(others) THEN 1 ELSE k + 1].sock, Garbled}

\* A backup started alone goes without its id only if a replicated packet
\* reached it before the answers to its JOIN_REQ (main.cpp:106-133).
OnlyBroadcastsHideIds ==
    Orderly /\ broadcasts = 0 =>
        \A b \in Backup : pc[b] = "joined" => id[b] # None

\* A backup started alone gets through its join while no server crashes: its
\* JOIN_REQ is read, by whichever thread, and answered to it.  (There is one
\* such backup at a time.)
SerialJoinsEnd ==
    serial /\ (\E b \in Backup : pc[b] = "join") ~>
        (\A b \in Backup : pc[b] \notin {"join", "id"}) \/ ~Orderly \/ ~up
=============================================================================
