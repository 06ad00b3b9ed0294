------------------------------ MODULE Sessions ------------------------------
(***************************************************************************)
(* The client sessions of the master server: the acceptor thread and the   *)
(* polling loop of Router, the dispatching loop of Manager, the thread that *)
(* Manager starts for every request (Manager::handle_connection), and the  *)
(* table of connections in User that they all read and write.              *)
(*                                                                         *)
(* What a request does to files is left to module Replication: here it is   *)
(* answered, and an UPLOAD or a DELETE is broadcast to the user's devices.  *)
(* A step that the code makes under Manager::lock, or that touches one word *)
(* of shared memory, is one action.                                        *)
(***************************************************************************)
EXTENDS Integers, Sequences, FiniteSetsExt

CONSTANTS Conn,        \* the TCP connections that clients open
          User,        \* user names
          Thread,      \* bound: handler threads alive at once
          Kind,        \* the kinds of request that clients send
          MaxPackets,  \* bound: packets that the clients send
          MaxHangUps,  \* bound: clients that vanish without LOGOUT
          None,        \* sockfd 0, the null pointer
          UserOf       \* which user names the connections' LOGIN_REQs may carry

MAX_CONNECTIONS_PER_USER == 2

ASSUME SessionsAssumption ==
    /\ IsFiniteSet(Conn) /\ IsFiniteSet(User) /\ IsFiniteSet(Thread)
    /\ Kind \subseteq {"UPLOAD", "DELETE", "OTHER", "LOGOUT", "STOP"}
    /\ MaxPackets \in Nat /\ MaxHangUps \in Nat
    /\ None \notin Conn \cup User \cup Thread \cup (User \X Nat)
    /\ UserOf \subseteq [Conn -> User]

Slot == 1 .. MAX_CONNECTIONS_PER_USER

\* "RESP" stands for every answer to a request that has one
Packet == {"LOGIN_ACCEPT_RESP", "LOGIN_REFUSE_RESP", "RESP", "LOGOUT_RESP",
           "UPLOAD_BROADCAST", "DELETE_BROADCAST", "STOP_SERVER_BROADCAST"}

VARIABLES
    userOf,   \* the user name in each connection's LOGIN_REQ
    status,   \* each client: "away", "dialled" or "gone"
    sent,     \* how many packets each client has sent
    toServer, \* packets the server has not read
    toClient, \* packets the server has written: kind, and whose request it was
    backlog,  \* connections the kernel holds for accept()
    acceptor, \* Router::handle_connection
    out,      \* out_slave_socket, while the router has not copied it
    waiting,  \* is_waiting of the master socket
    router,   \* Router::start
    slave,    \* its slave_socket, within one turn of the loop
    locked,   \* Manager::lock is held by the router, outside Registers
    slots,    \* User::connections, for every user
    manager,  \* Manager::manage
    picked,   \* the connection it is about to start a thread for
    thread,   \* the threads in Manager::handle_connection
    routing,  \* is_router_routing
    up,       \* the process has not been terminated
    closed,   \* history: connections the server has closed
    retired,  \* history: slots whose connection was closed
    late,     \* history: logins accepted after the stop
    swept,    \* history: users whose first slot close_all_connections is done with
    fresh     \* history: connections of theirs that were registered after that

clientVars == <<userOf, status, sent>>
acceptorVars == <<backlog, acceptor, out>>
managerVars == <<manager, picked>>
history == <<closed, retired, late, swept, fresh>>
vars == <<clientVars, toServer, toClient, acceptorVars, waiting, router, slave,
          locked, slots, managerVars, thread, routing, up, history>>

\* What a handler thread works on; at, turn and left are where it is in
\* close_all_connections: a user, a slot, and the users to come
Idle == [pc |-> "none", user |-> None, slot |-> 1, sock |-> None, req |-> "OTHER",
         at |-> None, turn |-> 1, left |-> {}]

TypeOK ==
    /\ userOf \in UserOf
    /\ status \in [Conn -> {"away", "dialled", "gone"}]
    /\ sent \in [Conn -> Nat]
    /\ toServer \in [Conn -> Seq(Kind \cup {"LOGIN"})]
    /\ toClient \in [Conn -> Seq([kind : Packet, from : Conn \cup {None}])]
    /\ backlog \subseteq Conn
    /\ acceptor \in {"check", "accept", "done"}
    /\ out \in Conn \cup {None} /\ waiting \in BOOLEAN
    /\ waiting <=> out # None
    /\ router \in {"poll", "read", "login", "reply", "done"}
    /\ slave \in Conn \cup {None} /\ locked \in BOOLEAN
    /\ slots \in [User -> [Slot -> [sock : Conn \cup {None}, waiting : BOOLEAN]]]
    /\ manager \in {"scan", "join", "done"}
    /\ picked \in (User \X Slot) \cup {None}
    /\ thread \in [Thread ->
          [pc : {"none", "start", "reading", "serve", "broadcast", "close", "shut",
                 "release"},
           user : User \cup {None}, slot : Slot, sock : Conn \cup {None},
           req : Kind \cup {"LOGIN", "OTHER"},
           at : User \cup {None}, turn : 1 .. MAX_CONNECTIONS_PER_USER + 1, left : SUBSET User]]
    /\ routing \in BOOLEAN /\ up \in BOOLEAN
    /\ closed \subseteq Conn /\ retired \subseteq User \X Slot /\ late \subseteq Conn
    /\ swept \subseteq User /\ fresh \subseteq Conn

Init ==
    /\ userOf \in UserOf
    /\ status = [c \in Conn |-> "away"]
    /\ sent = [c \in Conn |-> 0]
    /\ toServer = [c \in Conn |-> << >>]
    /\ toClient = [c \in Conn |-> << >>]
    /\ backlog = {} /\ acceptor = "check" /\ out = None /\ waiting = FALSE
    /\ router = "poll" /\ slave = None /\ locked = FALSE
    /\ slots = [u \in User |-> [i \in Slot |-> [sock |-> None, waiting |-> FALSE]]]
    /\ manager = "scan" /\ picked = None
    /\ thread = [t \in Thread |-> Idle]
    /\ routing = TRUE /\ up = TRUE
    /\ closed = {} /\ retired = {} /\ late = {} /\ swept = {} /\ fresh = {}

-----------------------------------------------------------------------------
(* Sockets.                                                                *)

\* get_active_connections_count(): how many slots are in use, which is where
\* every loop over a user's connections stops
Count(tab) == Cardinality({i \in Slot : tab[i].sock # None})

\* Mutant: the loop goes over everybody's connections
ReachedOfAll(tab) == {slots[u][i].sock : u \in User, i \in Slot}

\* The descriptors such a loop reaches; 0 (None) if it meets a free slot
Reached(tab) == {tab[i].sock : i \in 1 .. Count(tab)}

\* write_packet to each of the sockets S.  Writing to a client that is gone, to
\* a descriptor that has been closed, or to 0, may throw or raise SIGPIPE:
\* nothing catches either.
Writes(S, kind, from) ==
    /\ toClient' = [c \in Conn |->
          IF c \in S /\ status[c] # "gone" /\ c \notin closed
          THEN Append(toClient[c], [kind |-> kind, from |-> from])
          ELSE toClient[c]]
    /\ up' \in IF \E c \in S : c = None \/ c \in closed \/ status[c] = "gone" THEN BOOLEAN ELSE {TRUE}

\* An exception that no frame catches: std::terminate
Terminates ==
    /\ up' = FALSE
    /\ UNCHANGED <<clientVars, toServer, toClient, acceptorVars, waiting, router, slave,
                   locked, slots, managerVars, thread, routing, history>>

\* read() returns 0
AtEnd(c) == toServer[c] = << >> /\ status[c] = "gone"

-----------------------------------------------------------------------------
(* Clients.                                                                *)

Dial(c) ==
    /\ status[c] = "away"
    /\ status' = [status EXCEPT ![c] = "dialled"]
    /\ backlog' = backlog \cup {c}
    /\ UNCHANGED <<userOf, sent, toServer, toClient, acceptor, out, waiting, router, slave,
                   locked, slots, managerVars, thread, routing, up, history>>

\* LOGIN_REQ comes first; the client waits for one packet, whatever it says,
\* and then sends the requests of its user.
Send(c, kind) ==
    /\ status[c] = "dialled" /\ c \notin closed
    /\ sent[c] # 0 => toClient[c] # << >>
    /\ kind = "LOGIN" <=> sent[c] = 0
    /\ MapThenSumSet(LAMBDA d : sent[d], Conn) < MaxPackets
    /\ sent' = [sent EXCEPT ![c] = @ + 1]
    /\ toServer' = [toServer EXCEPT ![c] = Append(@, kind)]
    /\ UNCHANGED <<userOf, status, toClient, acceptorVars, waiting, router, slave, locked,
                   slots, managerVars, thread, routing, up, history>>

HangUp(c) ==
    /\ status[c] = "dialled"
    /\ Cardinality({d \in Conn : status[d] = "gone"}) < MaxHangUps
    /\ status' = [status EXCEPT ![c] = "gone"]
    /\ UNCHANGED <<userOf, sent, toServer, toClient, acceptorVars, waiting, router, slave,
                   locked, slots, managerVars, thread, routing, up, history>>

-----------------------------------------------------------------------------
(* Router::handle_connection, the acceptor.                                *)

AcceptorChecks ==
    /\ acceptor = "check"
    /\ \/ ~routing /\ acceptor' = "done"
       \/ routing /\ ~waiting /\ acceptor' = "accept"
    /\ UNCHANGED <<clientVars, toServer, toClient, backlog, out, waiting, router, slave,
                   locked, slots, managerVars, thread, routing, up, history>>

\* Mutant: is_waiting is set before the socket is stored
SignalsTooEarly(c) ==
    /\ acceptor = "accept"
    /\ c \in backlog
    /\ waiting' = TRUE
    /\ UNCHANGED <<clientVars, toServer, toClient, acceptorVars, router, slave, locked,
                   slots, managerVars, thread, routing, up, history>>

Accepts(c) ==
    /\ acceptor = "accept"
    /\ c \in backlog
    /\ backlog' = backlog \ {c}
    /\ out' = c
    /\ waiting' = TRUE
    /\ acceptor' = "check"
    /\ UNCHANGED <<clientVars, toServer, toClient, router, slave, locked, slots,
                   managerVars, thread, routing, up, history>>

-----------------------------------------------------------------------------
(* Router::start.                                                          *)

\* Mutant: while (true)
RouterPollsForever ==
    /\ router = "poll" /\ waiting
    /\ router' = "read" /\ slave' = out /\ waiting' = FALSE /\ out' = None
    /\ UNCHANGED <<clientVars, toServer, toClient, backlog, acceptor, locked, slots,
                   managerVars, thread, routing, up, history>>

RouterPolls ==
    /\ router = "poll"
    /\ \/ ~routing /\ router' = "done" /\ UNCHANGED <<slave, waiting, out>>
       \/ /\ routing /\ waiting
          /\ router' = "read" /\ slave' = out /\ waiting' = FALSE /\ out' = None
    /\ UNCHANGED <<clientVars, toServer, toClient, backlog, acceptor, locked, slots,
                   managerVars, thread, routing, up, history>>

\* Anything but a LOGIN_REQ is dropped
RouterReads ==
    /\ router = "read"
    /\ toServer[slave] # << >>
    /\ toServer' = [toServer EXCEPT ![slave] = Tail(@)]
    /\ IF Head(toServer[slave]) = "LOGIN"
       THEN router' = "login" /\ UNCHANGED slave
       ELSE router' = "poll" /\ slave' = None
    /\ UNCHANGED <<clientVars, toClient, acceptorVars, waiting, locked, slots,
                   managerVars, thread, routing, up, history>>

RouterReadFails == router = "read" /\ AtEnd(slave) /\ Terminates

\* Mutant: the lock is not taken
LockIgnored == TRUE

\* lock.lock() returns
LockIsFree == ~locked

FreeSlots(u) == {i \in Slot : slots[u][i].sock = None}

\* Mutant: push_connection takes the first slot, free or not
FirstOfAll(u) == 1

\* push_connection: the first slot whose sockfd is 0
FirstFree(u) == CHOOSE i \in FreeSlots(u) : \A j \in FreeSlots(u) : i <= j

\* add_user and add_connection, under the lock
Registers ==
    /\ router = "login" /\ LockIsFree
    /\ FreeSlots(userOf[slave]) # {}
    /\ slots' = [slots EXCEPT ![userOf[slave]][FirstFree(userOf[slave])] =
                    [sock |-> slave, waiting |-> FALSE]]
    /\ fresh' = IF userOf[slave] \in swept THEN fresh \cup {slave} ELSE fresh
    /\ router' = "reply"
    /\ UNCHANGED <<clientVars, toServer, toClient, acceptorVars, waiting, slave, locked,
                   managerVars, thread, routing, up, closed, retired, late, swept>>

\* "Max connections reached": the break leaves the lock held for ever
Refuses ==
    /\ router = "login" /\ LockIsFree
    /\ FreeSlots(userOf[slave]) = {}
    /\ locked' = TRUE
    /\ Writes({slave}, "LOGIN_REFUSE_RESP", slave)
    /\ router' = "poll" /\ slave' = None
    /\ UNCHANGED <<clientVars, toServer, acceptorVars, waiting, slots,
                   managerVars, thread, routing, history>>

RepliesToLogin ==
    /\ router = "reply"
    /\ Writes({slave}, "LOGIN_ACCEPT_RESP", slave)
    /\ router' = "poll" /\ slave' = None
    /\ late' = IF routing THEN late ELSE late \cup {slave}
    /\ UNCHANGED <<clientVars, toServer, acceptorVars, waiting, locked, slots,
                   managerVars, thread, routing, closed, retired, swept, fresh>>

-----------------------------------------------------------------------------
(* Manager::manage.                                                        *)

\* Mutant: is_waiting is not looked at
NeverBusy(u, i) == FALSE

\* get_is_waiting() of a connection
Busy(u, i) == slots[u][i].waiting

\* The scan reads the table without the lock
Examines(u, i) ==
    /\ manager = "scan" /\ picked = None
    /\ i <= Count(slots[u])
    /\ slots[u][i].sock # None /\ ~Busy(u, i)
    /\ picked' = <<u, i>>
    /\ UNCHANGED <<clientVars, toServer, toClient, acceptorVars, waiting, router, slave,
                   locked, slots, manager, thread, routing, up, history>>

\* pthread_create: threads are alike, so any one that is not in use
NewThread == CHOOSE t \in Thread : thread[t].pc = "none"

Dispatches ==
    /\ picked # None /\ LockIsFree
    /\ \E t \in Thread : thread[t].pc = "none"
    /\ thread' = [thread EXCEPT ![NewThread] =
                     [Idle EXCEPT !.pc = "start", !.user = picked[1], !.slot = picked[2]]]
    /\ slots' = [slots EXCEPT ![picked[1]][picked[2]].waiting = TRUE]
    /\ picked' = None
    /\ UNCHANGED <<clientVars, toServer, toClient, acceptorVars, waiting, router, slave,
                   locked, manager, routing, up, history>>

\* The loop ends when routing does; it joins every thread it has started
ManagerEnds ==
    /\ \/ manager = "scan" /\ picked = None /\ ~routing /\ manager' = "join"
       \/ /\ manager = "join" /\ manager' = "done"
          /\ \A t \in Thread : thread[t].pc = "none"
    /\ UNCHANGED <<clientVars, toServer, toClient, acceptorVars, waiting, router, slave,
                   locked, slots, picked, thread, routing, up, history>>

-----------------------------------------------------------------------------
(* Manager::handle_connection.                                             *)

\* in->connection points into the table: its sockfd is whatever is there now
Connection(t) == slots[thread[t].user][thread[t].slot]

ThreadAt(t, pc) == thread[t].pc = pc

Goto(t, pc) == thread' = [thread EXCEPT ![t].pc = pc]

\* The descriptor that read() is called with
Starts(t) ==
    /\ ThreadAt(t, "start")
    /\ thread' = [thread EXCEPT ![t].pc = "reading", ![t].sock = Connection(t).sock]
    /\ UNCHANGED <<clientVars, toServer, toClient, acceptorVars, waiting, router, slave,
                   locked, slots, managerVars, routing, up, history>>

Reads(t) ==
    /\ ThreadAt(t, "reading") /\ thread[t].sock # None
    /\ toServer[thread[t].sock] # << >>
    /\ toServer' = [toServer EXCEPT ![thread[t].sock] = Tail(@)]
    /\ thread' = [thread EXCEPT ![t].pc = "serve", ![t].req = Head(toServer[thread[t].sock])]
    /\ UNCHANGED <<clientVars, toClient, acceptorVars, waiting, router, slave, locked,
                   slots, managerVars, routing, up, history>>

ReadFails(t) ==
    /\ ThreadAt(t, "reading") /\ thread[t].sock # None
    /\ AtEnd(thread[t].sock)
    /\ Terminates

\* The connection was closed before read() was called: descriptor 0 is the
\* server's own terminal, which may be at its end, or say nothing for ever.
ReadsTerminal(t) ==
    /\ ThreadAt(t, "reading") /\ thread[t].sock = None
    /\ Terminates

\* The branch of the switch: one answer, and a broadcast still to come
Serves(t) ==
    /\ ThreadAt(t, "serve") /\ thread[t].req \notin {"LOGOUT", "STOP"}
    /\ Writes({Connection(t).sock}, "RESP", thread[t].sock)
    /\ Goto(t, IF thread[t].req \in {"UPLOAD", "DELETE"} THEN "broadcast" ELSE "release")
    /\ UNCHANGED <<clientVars, toServer, acceptorVars, waiting, router, slave, locked,
                   slots, managerVars, routing, history>>

\* broadcast_to_user: an UPLOAD excepts descriptor -1, that is nobody
Broadcasts(t) ==
    /\ ThreadAt(t, "broadcast")
    /\ LET reached == Reached(slots[thread[t].user])
       IN  IF thread[t].req = "UPLOAD"
           THEN Writes(reached, "UPLOAD_BROADCAST", thread[t].sock)
           ELSE Writes(reached \ {Connection(t).sock}, "DELETE_BROADCAST", thread[t].sock)
    /\ Goto(t, "release")
    /\ UNCHANGED <<clientVars, toServer, acceptorVars, waiting, router, slave, locked,
                   slots, managerVars, routing, history>>

LogsOut(t) ==
    /\ ThreadAt(t, "serve") /\ thread[t].req = "LOGOUT"
    /\ Writes({Connection(t).sock}, "LOGOUT_RESP", thread[t].sock)
    /\ slots' = [slots EXCEPT ![thread[t].user][thread[t].slot].sock = None]
    /\ closed' = closed \cup ({Connection(t).sock} \ {None})
    /\ retired' = retired \cup {<<thread[t].user, thread[t].slot>>}
    /\ Goto(t, "release")
    /\ UNCHANGED <<clientVars, toServer, acceptorVars, waiting, router, slave, locked,
                   managerVars, routing, late, swept, fresh>>

\* broadcast() skips descriptor 0
StopIsBroadcast(t) ==
    /\ ThreadAt(t, "serve") /\ thread[t].req = "STOP"
    /\ Writes(UNION {Reached(slots[u]) : u \in User} \ {None},
              "STOP_SERVER_BROADCAST", thread[t].sock)
    /\ thread' = [thread EXCEPT ![t].pc = "close", ![t].left = User]
    /\ UNCHANGED <<clientVars, toServer, acceptorVars, waiting, router, slave, locked,
                   slots, managerVars, routing, history>>

\* close_all_connections: the next user.  (It goes over them in alphabetical
\* order, which nothing here depends on.)
ClosesNext(t) ==
    /\ ThreadAt(t, "close") /\ thread[t].at = None
    /\ \E u \in thread[t].left :
          thread' = [thread EXCEPT ![t].at = u, ![t].left = @ \ {u}]
    /\ UNCHANGED <<clientVars, toServer, toClient, acceptorVars, waiting, router, slave,
                   locked, slots, managerVars, routing, up, history>>

\* It counts before every turn; the loop may be over
ClosesCount(t) ==
    /\ ThreadAt(t, "close") /\ thread[t].at # None
    /\ \/ /\ thread[t].turn <= Count(slots[thread[t].at])
          /\ Goto(t, "shut")
          /\ UNCHANGED swept
       \/ /\ thread[t].turn > Count(slots[thread[t].at])
          /\ thread' = [thread EXCEPT ![t].at = None, ![t].turn = 1]
          /\ swept' = swept \cup {thread[t].at}
    /\ UNCHANGED <<clientVars, toServer, toClient, acceptorVars, waiting, router, slave,
                   locked, slots, managerVars, routing, up, closed, retired, late, fresh>>

\* Mutant: the connection is left as it is
StaysOpen(u, i) == slots

\* close_connection
Closed(u, i) == [slots EXCEPT ![u][i].sock = None]

\* The turn itself, on whatever is in the slot by now
ClosesTurn(t) ==
    /\ ThreadAt(t, "shut")
    /\ LET u == thread[t].at
           i == thread[t].turn
       IN  /\ slots' = Closed(u, i)
           /\ IF slots[u][i].sock = None THEN UNCHANGED <<closed, retired>>
              ELSE closed' = closed \cup {slots[u][i].sock} /\ retired' = retired \cup {<<u, i>>}
           /\ swept' = swept \cup {u}
    /\ thread' = [thread EXCEPT ![t].pc = "close", ![t].turn = @ + 1]
    /\ UNCHANGED <<clientVars, toServer, toClient, acceptorVars, waiting, router, slave,
                   locked, managerVars, routing, up, late, fresh>>

\* After the last user, without the lock: *is_router_routing = false
StopsRouting(t) ==
    /\ ThreadAt(t, "close") /\ thread[t].at = None /\ thread[t].left = {}
    /\ routing' = FALSE
    /\ Goto(t, "release")
    /\ UNCHANGED <<clientVars, toServer, toClient, acceptorVars, waiting, router, slave,
                   locked, slots, managerVars, up, history>>

Closes(t) == ClosesNext(t) \/ ClosesCount(t) \/ ClosesTurn(t) \/ StopsRouting(t)

\* Mutant: is_waiting is left set
ReleasesSilently(t) ==
    /\ ThreadAt(t, "release")
    /\ thread' = [thread EXCEPT ![t] = Idle]
    /\ UNCHANGED <<clientVars, toServer, toClient, acceptorVars, waiting, router, slave,
                   locked, slots, managerVars, routing, up, history>>

\* set_is_waiting(false) on whatever connection is in the slot by now
Releases(t) ==
    /\ ThreadAt(t, "release")
    /\ slots' = [slots EXCEPT ![thread[t].user][thread[t].slot].waiting = FALSE]
    /\ thread' = [thread EXCEPT ![t] = Idle]
    /\ UNCHANGED <<clientVars, toServer, toClient, acceptorVars, waiting, router, slave,
                   locked, managerVars, routing, up, history>>

-----------------------------------------------------------------------------
Acceptor == up /\ (AcceptorChecks \/ \E c \in Conn : Accepts(c))

RouterStep ==
    /\ up
    /\ \/ RouterPolls \/ RouterReads \/ RouterReadFails
       \/ Registers \/ Refuses \/ RepliesToLogin

ManagerStep == up /\ (ManagerEnds \/ Dispatches)

Scan(u, i) == up /\ Examines(u, i)

Handler(t) ==
    /\ up
    /\ \/ Starts(t) \/ Reads(t) \/ ReadFails(t) \/ Serves(t) \/ Broadcasts(t)
       \/ LogsOut(t) \/ StopIsBroadcast(t) \/ Closes(t) \/ Releases(t)

\* Clients are not followed beyond the end of the server
Client(c) == up /\ (Dial(c) \/ HangUp(c) \/ \E k \in Kind \cup {"LOGIN"} : Send(c, k))

Next ==
    \/ \E c \in Conn : Client(c)
    \/ Acceptor
    \/ RouterStep
    \/ ManagerStep
    \/ \E u \in User, i \in Slot : Scan(u, i)
    \/ \E t \in Thread : Handler(t) \/ (up /\ ReadsTerminal(t))

Spec == Init /\ [][Next]_vars

\* The server's threads run.  The scan goes round the table again and again,
\* whatever it starts on the way: strong fairness for every entry.  A client
\* that has connected writes its LOGIN_REQ, and owes nothing after that.
Fairness ==
    /\ \A c \in Conn : WF_vars(up /\ Send(c, "LOGIN"))
    /\ WF_vars(Acceptor) /\ WF_vars(RouterStep) /\ WF_vars(ManagerStep)
    /\ \A u \in User, i \in Slot : SF_vars(Scan(u, i))
    /\ \A t \in Thread : WF_vars(Handler(t))

FairSpec == Spec /\ Fairness

-----------------------------------------------------------------------------
(* Properties.                                                             *)

Got(c, kind) == \E k \in DOMAIN toClient[c] : toClient[c][k].kind = kind

SlotsOf(c) == {g \in User \X Slot : slots[g[1]][g[2]].sock = c}

HandlersOn(u, i) ==
    {t \in Thread : thread[t].pc # "none" /\ thread[t].user = u /\ thread[t].slot = i}

\* A client that has its LOGIN_ACCEPT_RESP is in the table, once, until the
\* server closes its connection: push_connection never overwrites a device.
AcceptedIsRegistered ==
    \A c \in Conn : Got(c, "LOGIN_ACCEPT_RESP") /\ c \notin closed =>
        Cardinality(SlotsOf(c)) = 1

\* is_waiting says whether a thread reads the connection, as long as the slot
\* has had one connection only.  (LOGOUT frees the slot before its thread
\* clears is_waiting: from then on two threads may read one connection.)
OneHandlerPerConnection ==
    \A u \in User, i \in Slot : <<u, i>> \notin retired =>
        Cardinality(HandlersOn(u, i)) = IF slots[u][i].waiting THEN 1 ELSE 0

\* An answer reaches another connection than the one that asked only if that
\* one has been closed in between (in->connection points into the table), and
\* neither answers nor broadcasts reach another user's devices.
AnswersStayWithinUser ==
    \A c \in Conn : \A k \in DOMAIN toClient[c] :
        LET p == toClient[c][k]
        IN  /\ p.kind # "STOP_SERVER_BROADCAST" => userOf[p.from] = userOf[c]
            /\ p.kind \in {"RESP", "LOGOUT_RESP"} /\ p.from # c => p.from \in closed

\* A refused login leaves the lock held (router.cpp:83-93): from then on no
\* connection is registered and no thread is started for anyone.
RefusalFreezesServer ==
    [][locked =>
          /\ \A c \in Conn : SlotsOf(c)' \subseteq SlotsOf(c)
          /\ \A t \in Thread : thread[t].pc = "none" => thread'[t].pc = "none"]_vars

\* STOP_SERVER_REQ ends routing, yet a login the router has already taken is
\* accepted by a server that will not serve it; there is at most one.
AtMostOneLateLogin == Cardinality(late) <= 1

\* Of the connections that a user has when close_all_connections comes to its
\* first slot, a stop leaves at most one open.  (The loop counts those that are
\* left, so that it ends too early; and the router goes on registering logins
\* until is_router_routing is cleared at the very end: those stay open too.)
StopLeavesAtMostOneOpen ==
    ~routing => \A u \in User :
        Cardinality({slots[u][i].sock : i \in Slot} \ (fresh \cup {None})) <= 1

\* What keeps a registered device from being served: the count of its user's
\* connections stops the scan below its slot.
BeyondCount(c) ==
    \E u \in User, i \in Slot : slots[u][i].sock = c /\ i > Count(slots[u])

\* A request of a registered device is read by a thread, unless a login was
\* refused, the server stops, or a device in a lower slot has logged out.
RequestsAreServed ==
    \A c \in Conn :
        SlotsOf(c) # {} /\ toServer[c] # << >> ~>
            \/ toServer[c] = << >>
            \/ ~up \/ locked \/ ~routing \/ c \in closed \/ BeyondCount(c)

\* "start handling the messages" (router.hpp:15): whoever sends a LOGIN_REQ is
\* accepted or refused while the server runs.
EveryLoginIsAnswered ==
    \A c \in Conn :
        sent[c] > 0 ~> Got(c, "LOGIN_ACCEPT_RESP") \/ Got(c, "LOGIN_REFUSE_RESP")
                       \/ status[c] = "gone" \/ ~up \/ ~routing

\* "broadcast the upload to other user connections" (manager.cpp:225): not to
\* the connection that uploaded.
UploadGoesToOthers ==
    \A c \in Conn : \A k \in DOMAIN toClient[c] :
        toClient[c][k].kind = "UPLOAD_BROADCAST" => toClient[c][k].from # c
=============================================================================
