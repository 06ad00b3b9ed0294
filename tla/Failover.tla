------------------------------ MODULE Failover ------------------------------
(***************************************************************************)
(* What follows the end of the master: its backups' keepalives give it up  *)
(* (InternalRouter::keepalive), one of them becomes the new master and      *)
(* another joins it (server/main.cpp), and the clients, told by a UDP       *)
(* datagram (Router::start), connect to it (ClientSocket::udp_listener)     *)
(* while their main loops run on.                                          *)
(*                                                                         *)
(* The ring of the first master is complete; how it came about is in module *)
(* RingJoin.  A voting round is one step, by the outcome that RingElection  *)
(* shows: the first backup wins, only the second one follows it.  Of the    *)
(* requests of a client only that they are read matters here.              *)
(***************************************************************************)
EXTENDS Integers, SequencesExt, FiniteSets

CONSTANTS Client,   \* clients, each of its own user
          Backups,  \* bound: backups of the first master
          Host,     \* machines
          Scenario, \* the instances that are looked at
          None,     \* no address, no client, no connection
          Closed    \* sockfd 0

First == 0
Server == 0 .. Backups

\* A scenario: how many backups there are, which clients are started, who is
\* on which machine, and how many servers crash, timeouts come while the master
\* is alive, datagrams or addresses come to nothing, and commands are typed at
\* each client, at most.
ASSUME FailoverAssumption ==
    /\ Backups \in Nat /\ IsFiniteSet(Client)
    /\ {None, Closed} \cap (Client \cup Host \cup Server) = {}
    /\ "KEEPALIVE" \notin Host
    /\ Scenario \subseteq
          [backups : 1 .. Backups, clients : SUBSET Client, hostOf : [Client \cup Server -> Host],
           crashes : Nat, late : Nat, lost : Nat, commands : Nat]

VARIABLES
    scenario, \* the one that is played
    server,  \* how far each server is
    master,  \* the server whose backup it is, or was
    linked,  \* the servers to which its connection is open
    joined,  \* others: its own backups, in the order they joined
    stream,  \* what its master wrote to it: "KEEPALIVE" or a client's address
    asked,   \* its keepalives that the master has not answered
    half,    \* half_timeout
    users,   \* the addresses of clients it has heard of
    context, \* those it has still to send a SERVER_HANDSHAKE
    router,  \* the login that Router::start is at
    session, \* each client at each server
    wire,    \* what the client wrote to it
    accepted, \* who has been sent LOGIN_ACCEPT_RESP, by whom
    main,    \* each client's main thread
    udp,     \* its udp_listener
    told,    \* the server that a handshake named
    conn,    \* what its sockfd is connected to: None when it is a new socket
    open,    \* servers it has an open connection to
    mail,    \* the mailbox of InputManager
    done,    \* of the input thread: is_done(), or about to be
    crashes, late, lost, typed \* how often each of the bounded things happened

backupVars == <<master, linked, asked, half, users>>
routerVars == <<router, accepted>>
clientVars == <<main, udp, told, conn, mail, done>>
bounds == <<crashes, late, lost, typed>>
vars == <<scenario, server, backupVars, joined, stream, context, routerVars, session,
          wire, clientVars, open, bounds>>

\* Mutant: bind_and_listen comes after the handshakes
ListeningLate == {"master"}

\* In these states a server takes connections of clients
Listening == {"announces", "master"}
Address == Host \cup {None}

ServersTyped ==
    /\ server \in [Server -> {"follows", "votes", "stuck", "rejoins", "elected",
                              "starts", "announces", "master", "dead"}]
    /\ master \in [Server -> Server] /\ linked \in [Server -> SUBSET Server]
    /\ joined \in [Server -> Seq(Server)]
    /\ stream \in [Server -> Seq(Address \cup {"KEEPALIVE"})]
    /\ asked \in [Server -> Nat] /\ half \in [Server -> BOOLEAN]
    /\ users \in [Server -> SUBSET Address] /\ context \in [Server -> SUBSET Address]
    /\ router \in [Server -> [client : Client, address : Address, left : Seq(Server)] \cup {None}]
    /\ accepted \subseteq Server \X Client

ClientsTyped ==
    /\ session \in [Server -> [Client -> {"none", "queued", "dropped", "registered"}]]
    /\ wire \in [Server -> [Client -> Seq({"LOGIN", "REQUEST", "LOGOUT"})]]
    /\ main \in [Client -> {"dial", "login", "loop", "closing", "ended", "dead"}]
    /\ udp \in [Client -> {"off", "deaf", "listens", "told", "opened", "connected", "done"}]
    /\ told \in [Client -> Server \cup {None}] /\ conn \in [Client -> Server \cup {None, Closed}]
    /\ \A c \in Client : udp[c] \in {"told", "opened"} => told[c] \in Server
    /\ open \in [Client -> SUBSET Server]
    /\ mail \in [Client -> {"REQUEST", "LOGOUT", None}]
    /\ done \in [Client -> {"no", "leaving", "yes"}]

BoundsTyped ==
    /\ scenario \in Scenario
    /\ crashes \in 0 .. scenario.crashes /\ late \in 0 .. scenario.late
    /\ lost \in 0 .. scenario.lost /\ typed \in [Client -> 0 .. scenario.commands]

TypeOK == ServersTyped /\ ClientsTyped /\ BoundsTyped

Init ==
    /\ scenario \in Scenario
    /\ LET n == scenario.backups IN
          /\ server = [s \in Server |-> IF s = First THEN "master"
                                        ELSE IF s <= n THEN "follows" ELSE "dead"]
          /\ joined = [s \in Server |-> IF s = First THEN [i \in 1 .. n |-> i] ELSE << >>]
    /\ master = [s \in Server |-> First] /\ linked = [s \in Server |-> {First}]
    /\ stream = [s \in Server |-> << >>]
    /\ asked = [s \in Server |-> 0] /\ half = [s \in Server |-> FALSE]
    /\ users = [s \in Server |-> {}] /\ context = users
    /\ router = [s \in Server |-> None] /\ accepted = {}
    /\ session = [s \in Server |-> [c \in Client |-> "none"]]
    /\ wire = [s \in Server |-> [c \in Client |-> << >>]]
    /\ main = [c \in Client |-> "dial"] /\ udp = [c \in Client |-> "off"]
    /\ told = [c \in Client |-> None] /\ conn = [c \in Client |-> None]
    /\ open = [c \in Client |-> {}]
    /\ mail = [c \in Client |-> None] /\ done = [c \in Client |-> "no"]
    /\ crashes = 0 /\ late = 0 /\ lost = 0 /\ typed = [c \in Client |-> 0]

Up(s) == server[s] # "dead"

HostOf(x) == scenario.hostOf[x]

\* An uncaught exception, SIGPIPE or exit()
Dies(s) == server' = [server EXCEPT ![s] = "dead"]

Crashes(s) ==
    /\ Up(s) /\ crashes < scenario.crashes
    /\ Dies(s) /\ crashes' = crashes + 1
    /\ UNCHANGED <<scenario, backupVars, joined, stream, context, routerVars, session,
                   wire, clientVars, open, late, lost, typed>>

-----------------------------------------------------------------------------
(* InternalRouter: the backups and their master.                           *)

\* Mutant: a packet does not reset half_timeout
KeepsHalf(b) ==
    /\ server[b] = "follows" /\ stream[b] # << >>
    /\ stream' = [stream EXCEPT ![b] = Tail(@)]
    /\ UNCHANGED half
    /\ users' = [users EXCEPT ![b] = @ \cup ({Head(stream[b])} \ {"KEEPALIVE"})]
    /\ UNCHANGED <<scenario, server, master, linked, asked, joined, context, routerVars,
                   session, wire, clientVars, open, bounds>>

\* Mutant: the sender of a keepalive is taken for a client
ReadsAll(b) ==
    /\ server[b] = "follows" /\ stream[b] # << >>
    /\ stream' = [stream EXCEPT ![b] = Tail(@)]
    /\ half' = [half EXCEPT ![b] = FALSE]
    /\ users' = [users EXCEPT ![b] = @ \cup {Head(stream[b])}]
    /\ UNCHANGED <<scenario, server, master, linked, asked, joined, context, routerVars,
                   session, wire, clientVars, open, bounds>>

\* keepalive: select() returns, and a packet is read
Reads(b) ==
    /\ server[b] = "follows" /\ stream[b] # << >>
    /\ stream' = [stream EXCEPT ![b] = Tail(@)]
    /\ half' = [half EXCEPT ![b] = FALSE]
    /\ users' = [users EXCEPT ![b] = @ \cup ({Head(stream[b])} \ {"KEEPALIVE"})]
    /\ UNCHANGED <<scenario, server, master, linked, asked, joined, context, routerVars,
                   session, wire, clientVars, open, bounds>>

\* The first timeout: a keepalive is written
Asks(b) ==
    /\ server[b] = "follows" /\ stream[b] = << >> /\ Up(master[b]) /\ ~half[b]
    /\ half' = [half EXCEPT ![b] = TRUE]
    /\ asked' = [asked EXCEPT ![b] = @ + 1]
    /\ UNCHANGED <<scenario, server, master, linked, users, joined, stream, context,
                   routerVars, session, wire, clientVars, open, bounds>>

\* handle_connection
Answers(b) ==
    /\ master[b] \in linked[b] /\ asked[b] > 0 /\ Up(master[b])
    /\ asked' = [asked EXCEPT ![b] = @ - 1]
    /\ stream' = [stream EXCEPT ![b] = Append(@, "KEEPALIVE")]
    /\ UNCHANGED <<scenario, server, master, linked, half, users, joined, context, routerVars,
                   session, wire, clientVars, open, bounds>>

\* No other backup: get_adjacent().server_ip is empty
Alone(b) == Len(joined[master[b]]) = 1

\* Mutant: the connection to the master stays open
VotesLinked(b) ==
    /\ server[b] = "follows" /\ stream[b] = << >>
    /\ context' = [context EXCEPT ![b] = users[b]]
    /\ server' = [server EXCEPT ![b] = IF Alone(b) THEN "elected" ELSE "votes"]
    /\ UNCHANGED linked

\* start, once keepalive has ended: the context is built; a backup that is
\* alone is the master at once, any other closes its connection and votes
Votes(b) ==
    /\ server[b] = "follows" /\ stream[b] = << >>
    /\ context' = [context EXCEPT ![b] = users[b]]
    /\ server' = [server EXCEPT ![b] = IF Alone(b) THEN "elected" ELSE "votes"]
    /\ linked' = IF Alone(b) THEN linked ELSE [linked EXCEPT ![b] = @ \ {master[b]}]

\* The master is gone: read() returns 0
SeesEnd(b) ==
    /\ ~Up(master[b]) /\ Votes(b)
    /\ UNCHANGED <<scenario, master, asked, half, users, joined, stream, routerVars, session,
                   wire, clientVars, open, bounds>>

\* The second timeout in a row, though the master is only slow
GivesUp(b) ==
    /\ Up(master[b]) /\ half[b] /\ late < scenario.late /\ Votes(b)
    /\ late' = late + 1
    /\ UNCHANGED <<scenario, master, asked, half, users, joined, stream, routerVars, session,
                   wire, clientVars, open, crashes, lost, typed>>

HasLeft(b, m) == ~Up(b) \/ m \notin linked[b]

\* handle_connection of the master: the read for a backup that has closed its
\* connection throws, and nothing catches it
Doomed(m) == \E b \in Range(joined[m]) : HasLeft(b, m)

LosesBackup(m) ==
    /\ Up(m) /\ Doomed(m) /\ Dies(m)
    /\ UNCHANGED <<scenario, backupVars, joined, stream, context, routerVars, session,
                   wire, clientVars, open, bounds>>

\* The voting round of the backups of m, when all have come to it
Decides(m) ==
    /\ Len(joined[m]) > 1
    /\ \A b \in Range(joined[m]) : server[b] = "votes" /\ master[b] = m
    /\ server' = [s \in Server |-> CASE s = joined[m][1] -> "elected"
                                     [] s = joined[m][2] -> "rejoins"
                                     [] s \in Range(joined[m]) \ {joined[m][1], joined[m][2]} -> "stuck"
                                     [] OTHER -> server[s]]
    /\ master' = [master EXCEPT ![joined[m][2]] = joined[m][1]]
    /\ UNCHANGED <<scenario, linked, asked, half, users, joined, stream, context, routerVars,
                   session, wire, clientVars, open, bounds>>

-----------------------------------------------------------------------------
(* server/main.cpp, and Router::start up to its loop.                      *)

\* The loop of a backup, again: it exits if the winner cannot be reached
Rejoins(b) ==
    /\ server[b] = "rejoins"
    /\ LET m == master[b]
       IN  \/ /\ ~Up(m) /\ Dies(b)
              /\ UNCHANGED <<backupVars, joined, stream>>
           \/ /\ Up(m) /\ server[m] # "elected"
              /\ server' = [server EXCEPT ![b] = "follows"]
              /\ joined' = [joined EXCEPT ![m] = Append(@, b)]
              /\ linked' = [linked EXCEPT ![b] = @ \cup {m}] /\ half' = [half EXCEPT ![b] = FALSE]
              /\ asked' = [asked EXCEPT ![b] = 0] /\ users' = [users EXCEPT ![b] = {}]
              /\ stream' = [stream EXCEPT ![b] = << >>] /\ UNCHANGED master
    /\ UNCHANGED <<scenario, context, routerVars, session, wire, clientVars, open, bounds>>

\* The winner: a new InternalRouter first, that accepts backups; then
\* bind_and_listen for clients, and the threads that accept and serve them
Launches(s) ==
    /\ \/ server[s] = "elected" /\ server' = [server EXCEPT ![s] = "starts"]
       \/ server[s] = "starts" /\ server' = [server EXCEPT ![s] = "announces"]
    /\ UNCHANGED <<scenario, backupVars, joined, stream, context, routerVars, session,
                   wire, clientVars, open, bounds>>

\* udp_send of one SERVER_HANDSHAKE: a client has the datagram if its
\* udp_listener is bound and has not had one
Handshakes(s) ==
    /\ server[s] = "announces"
    /\ \/ /\ context[s] = {} /\ server' = [server EXCEPT ![s] = "master"]
          /\ UNCHANGED <<context, udp, told, lost>>
       \/ \E a \in context[s] :
             /\ context' = [context EXCEPT ![s] = @ \ {a}]
             /\ \/ a # None /\ lost < scenario.lost /\ lost' = lost + 1 /\ UNCHANGED <<udp, told>>
                \/ LET there == {c \in Client : udp[c] = "listens" /\ HostOf(c) = a}
                   IN  /\ udp' = [c \in Client |-> IF c \in there THEN "told" ELSE udp[c]]
                       /\ told' = [c \in Client |-> IF c \in there THEN s ELSE told[c]]
                       /\ UNCHANGED lost
             /\ UNCHANGED server
    /\ UNCHANGED <<scenario, backupVars, joined, stream, routerVars, session, wire, main,
                   conn, mail, done, open, crashes, late, typed>>

-----------------------------------------------------------------------------
(* The loop of Router::start, and the sessions.                            *)

\* The client has closed the connection and nothing is left to read
Ended(s, c) == wire[s][c] = << >> /\ s \notin open[c]

TakesFrom(s, c) == wire' = [wire EXCEPT ![s][c] = Tail(@)]

\* A LOGIN_REQ of main.cpp names the client's machine, but the rest of the
\* sockaddr is never set; that of udp_listener does not name it
Addresses(s, c) == IF told[c] = s THEN {None}
                   ELSE IF lost < scenario.lost THEN {HostOf(c), None} ELSE {HostOf(c)}

\* The first packet of a connection, which is dropped unless it is a LOGIN_REQ
Routes(s, c) ==
    /\ server[s] = "master" /\ router[s] = None /\ session[s][c] = "queued"
    /\ \/ /\ wire[s][c] # << >> /\ Head(wire[s][c]) = "LOGIN" /\ TakesFrom(s, c)
          /\ session' = [session EXCEPT ![s][c] = "registered"]
          /\ \E a \in Addresses(s, c) :
                /\ router' = [router EXCEPT ![s] =
                                 [client |-> c, address |-> a, left |-> joined[s]]]
                /\ lost' = IF a = None /\ told[c] # s THEN lost + 1 ELSE lost
          /\ UNCHANGED server
       \/ /\ wire[s][c] # << >> /\ Head(wire[s][c]) # "LOGIN" /\ TakesFrom(s, c)
          /\ session' = [session EXCEPT ![s][c] = "dropped"]
          /\ UNCHANGED <<server, router, lost>>
       \/ Ended(s, c) /\ Dies(s) /\ UNCHANGED <<session, wire, router, lost>>
    /\ UNCHANGED <<scenario, backupVars, joined, stream, context, accepted, clientVars, open,
                   crashes, late, typed>>

\* broadcast_others, which gives up at the first backup it cannot write to
Replicates(s) ==
    /\ Up(s) /\ router[s] # None /\ router[s].left # << >>
    /\ LET b == Head(router[s].left)
       IN  IF HasLeft(b, s)
           THEN router' = [router EXCEPT ![s].left = << >>] /\ UNCHANGED stream
           ELSE /\ router' = [router EXCEPT ![s].left = Tail(@)]
                /\ stream' = [stream EXCEPT ![b] = Append(@, router[s].address)]
    /\ UNCHANGED <<scenario, server, backupVars, joined, context, accepted, session, wire,
                   clientVars, open, bounds>>

\* Mutant: the answer comes before the broadcast
AcceptsFirst(s) ==
    /\ Up(s) /\ router[s] # None
    /\ accepted' = accepted \cup {<<s, router[s].client>>}
    /\ router' = IF router[s].left = << >> THEN [router EXCEPT ![s] = None] ELSE router
    /\ UNCHANGED <<scenario, server, backupVars, joined, stream, context, session, wire,
                   clientVars, open, bounds>>

Accepts(s) ==
    /\ Up(s) /\ router[s] # None /\ router[s].left = << >>
    /\ accepted' = accepted \cup {<<s, router[s].client>>}
    /\ router' = [router EXCEPT ![s] = None]
    /\ UNCHANGED <<scenario, server, backupVars, joined, stream, context, session, wire,
                   clientVars, open, bounds>>

\* Manager::handle_connection; its read throws at the end of the connection
Serves(s, c) ==
    /\ Up(s) /\ session[s][c] = "registered"
    /\ \/ /\ wire[s][c] # << >> /\ TakesFrom(s, c)
          /\ session' = IF Head(wire[s][c]) = "LOGOUT"
                        THEN [session EXCEPT ![s][c] = "none"] ELSE session
          /\ UNCHANGED server
       \/ Ended(s, c) /\ Dies(s) /\ UNCHANGED <<session, wire>>
    /\ UNCHANGED <<scenario, backupVars, joined, stream, context, routerVars, clientVars,
                   open, bounds>>

-----------------------------------------------------------------------------
(* Clients.                                                                *)

Connected(c, s) ==
    /\ conn' = [conn EXCEPT ![c] = s]
    /\ open' = [open EXCEPT ![c] = @ \cup {s}]
    /\ session' = [session EXCEPT ![s][c] = "queued"]

Terminated(c) ==
    /\ main' = [main EXCEPT ![c] = "dead"]
    /\ open' = [open EXCEPT ![c] = {}]

\* write_packet: to a server that is gone it may succeed once, or raise SIGPIPE
Writes(c, p) ==
    \/ /\ conn[c] \in Server /\ Up(conn[c])
       /\ wire' = [wire EXCEPT ![conn[c]][c] = Append(@, p)]
       /\ UNCHANGED <<main, open>>
    \/ /\ conn[c] \in Server /\ ~Up(conn[c])
       /\ UNCHANGED <<wire, main, open>>
    \/ /\ conn[c] \notin Server \/ (conn[c] \in Server /\ ~Up(conn[c]))
       /\ Terminated(c) /\ UNCHANGED wire

ServerSide == UNCHANGED <<scenario, server, backupVars, joined, stream, context, routerVars>>

\* main, up to LOGIN_REQ
Dials(c) ==
    /\ c \in scenario.clients /\ main[c] = "dial" /\ server[First] = "master"
    /\ Connected(c, First)
    /\ wire' = [wire EXCEPT ![First][c] = <<"LOGIN">>]
    /\ main' = [main EXCEPT ![c] = "login"]
    /\ ServerSide /\ UNCHANGED <<udp, told, mail, done, bounds>>

\* The answer is read before any thread is started; without one the process ends
LogsIn(c) ==
    /\ main[c] = "login"
    /\ \/ /\ <<First, c>> \in accepted
          /\ main' = [main EXCEPT ![c] = "loop"] /\ UNCHANGED open
       \/ ~Up(First) /\ Terminated(c)
    /\ ServerSide /\ UNCHANGED <<session, wire, udp, told, conn, mail, done, bounds>>

Runs(c) == main[c] \in {"loop", "closing"}

\* udp_server, for one port: the result of bind() is not looked at
ListensUdp(c) ==
    /\ Runs(c) /\ udp[c] = "off"
    /\ udp' = [udp EXCEPT ![c] =
          IF \E d \in Client : HostOf(d) = HostOf(c) /\ Runs(d) /\ udp[d] \notin {"off", "deaf"}
          THEN "deaf" ELSE "listens"]
    /\ ServerSide /\ UNCHANGED <<session, wire, main, told, conn, mail, done, open, bounds>>

\* udp_listener, after udp_recv: sockfd is replaced by a new socket
OpensSocket(c) ==
    /\ Runs(c) /\ udp[c] = "told"
    /\ udp' = [udp EXCEPT ![c] = "opened"]
    /\ conn' = [conn EXCEPT ![c] = None]
    /\ ServerSide /\ UNCHANGED <<session, wire, main, told, mail, done, open, bounds>>

\* The handshake names INADDR_ANY, which here is the client's own machine
Reaches(c) ==
    conn[c] = None /\ HostOf(told[c]) = HostOf(c) /\ server[told[c]] \in Listening

Connects(c) ==
    /\ Runs(c) /\ udp[c] = "opened"
    /\ \/ /\ Reaches(c) /\ Connected(c, told[c])
          /\ udp' = [udp EXCEPT ![c] = "connected"] /\ UNCHANGED main
       \/ /\ ~Reaches(c) /\ Terminated(c)
          /\ UNCHANGED <<udp, conn, session>>
    /\ ServerSide /\ UNCHANGED <<wire, told, mail, done, bounds>>

\* Descriptor 0 may take the packet as well
LogsInAgain(c) ==
    /\ Runs(c) /\ udp[c] = "connected"
    /\ udp' = [udp EXCEPT ![c] = "done"]
    /\ \/ Writes(c, "LOGIN")
       \/ conn[c] = Closed /\ UNCHANGED <<wire, main, open>>
    /\ ServerSide /\ UNCHANGED <<session, told, conn, mail, done, bounds>>

\* The input thread: after "exit" it also sets done
Types(c, p) ==
    /\ main[c] = "loop" /\ done[c] = "no" /\ typed[c] < scenario.commands
    /\ mail' = [mail EXCEPT ![c] = p]
    /\ typed' = [typed EXCEPT ![c] = @ + 1]
    /\ done' = [done EXCEPT ![c] = IF p = "LOGOUT" THEN "leaving" ELSE "no"]
    /\ ServerSide /\ UNCHANGED <<session, wire, main, udp, told, conn, open, crashes, late, lost>>

EndsInput(c) ==
    /\ Runs(c) /\ done[c] = "leaving"
    /\ done' = [done EXCEPT ![c] = "yes"]
    /\ ServerSide /\ UNCHANGED <<session, wire, main, udp, told, conn, mail, open, bounds>>

\* One turn of the main loop; done was read at its top
Sends(c) ==
    /\ main[c] = "loop" /\ mail[c] # None
    /\ mail' = [mail EXCEPT ![c] = None]
    /\ Writes(c, mail[c])
    /\ ServerSide /\ UNCHANGED <<session, udp, told, conn, done, bounds>>

\* The end of the loop, with or without its last packet
Leaves(c) ==
    /\ main[c] = "loop" /\ done[c] = "yes"
    /\ main' = [main EXCEPT ![c] = "closing"]
    /\ open' = [open EXCEPT ![c] = @ \ {conn[c]}]
    /\ conn' = [conn EXCEPT ![c] = Closed]
    /\ ServerSide /\ UNCHANGED <<session, wire, udp, told, mail, done, bounds>>

\* pthread_join of udp_listener comes last
Exits(c) ==
    /\ main[c] = "closing" /\ udp[c] = "done"
    /\ main' = [main EXCEPT ![c] = "ended"]
    /\ open' = [open EXCEPT ![c] = {}]
    /\ ServerSide /\ UNCHANGED <<session, wire, udp, told, conn, mail, done, bounds>>

-----------------------------------------------------------------------------
Backup(b) == Reads(b) \/ Asks(b) \/ Answers(b) \/ SeesEnd(b) \/ Rejoins(b)

Winner(s) == Launches(s) \/ Handshakes(s)

Udp(c) == ListensUdp(c) \/ OpensSocket(c) \/ Connects(c) \/ LogsInAgain(c)

Next ==
    \/ \E s \in Server :
          \/ Crashes(s) \/ LosesBackup(s) \/ Decides(s)
          \/ Backup(s) \/ GivesUp(s) \/ Winner(s)
          \/ Replicates(s) \/ Accepts(s)
          \/ \E c \in Client : Routes(s, c) \/ Serves(s, c)
    \/ \E c \in Client :
          \/ Dials(c) \/ LogsIn(c) \/ Udp(c)
          \/ \E p \in {"REQUEST", "LOGOUT"} : Types(c, p)
          \/ EndsInput(c) \/ Sends(c) \/ Leaves(c) \/ Exits(c)

Spec == Init /\ [][Next]_vars

\* Every thread runs.  Nothing makes a server crash, a timeout come too early,
\* or a user start a client or type.
Fairness ==
    /\ \A s \in Server :
          /\ WF_vars(LosesBackup(s)) /\ WF_vars(Decides(s))
          /\ WF_vars(Reads(s)) /\ WF_vars(Asks(s)) /\ WF_vars(Answers(s))
          /\ WF_vars(SeesEnd(s)) /\ WF_vars(Rejoins(s)) /\ WF_vars(Winner(s))
          /\ WF_vars(Replicates(s)) /\ WF_vars(Accepts(s))
          /\ \A c \in Client : WF_vars(Routes(s, c)) /\ WF_vars(Serves(s, c))
    /\ \A c \in Client :
          /\ WF_vars(LogsIn(c)) /\ WF_vars(Udp(c)) /\ WF_vars(EndsInput(c))
          /\ WF_vars(Sends(c)) /\ WF_vars(Leaves(c)) /\ WF_vars(Exits(c))

FairSpec == Spec /\ Fairness

-----------------------------------------------------------------------------
(* Properties.                                                             *)

\* A client that has been told that it is logged in is known to every backup
\* of the first master, or will be before that backup gives the master up: the
\* broadcast comes before the answer, and a backup reads all there is before
\* it sees the end.  Otherwise a backup that crashed has stopped the broadcast,
\* a master that was given up lives on, or the address was never whole.
AcceptedIsKnown ==
    \A c \in Client, b \in Range(joined[First]) :
        /\ <<First, c>> \in accepted /\ master[b] = First /\ Up(b)
        /\ late = 0 /\ lost = 0 /\ \A d \in Range(joined[First]) : d < b => Up(d)
        => \/ HostOf(c) \in users[b]
           \/ server[b] = "follows" /\ HostOf(c) \in Range(stream[b])

Serving == {s \in Server : server[s] \in Listening}

\* Two servers take clients only if one was given up though it was alive; and
\* then it either had a single backup, which leaves the connection open, or
\* is about to end because a backup has closed it (internal_router.cpp:137).
SplitIsLate ==
    \A s, t \in Serving : s < t => late > 0 /\ (Len(joined[s]) = 1 \/ Doomed(s))

\* A master that is alive is given up only while it owes a keepalive: any
\* packet of its, the answer to an earlier one too, starts both timeouts anew.
GivenUpOwingAnswer ==
    [][\A b \in Server : Up(master[b]) /\ master[b] \in linked[b] /\ server[b] = "follows"
                         /\ server'[b] \in {"votes", "elected"} => asked[b] > 0]_vars

\* The first master does end once a backup of its has replaced it, if it has two.
ReplacedEnds ==
    Len(joined[First]) > 1 /\ Range(joined[First]) \cap Serving # {} ~> ~Up(First)

\* Nothing was in the clients' way but the end of the first master
OnlyMasterFailed ==
    /\ ~Up(First) /\ \A b \in Range(joined[First]) : Up(b)
    /\ crashes <= 1 /\ late = 0 /\ lost = 0 /\ \A c \in Client : typed[c] = 0

\* When only the first master fails, every client that listens, on the machine
\* of the winner, is in the end a client of the winner: it is told only once
\* the winner listens, and logs in again.
ClientsFollow ==
    LET winner == joined[First][1]
    IN  \A c \in Client :
            /\ OnlyMasterFailed /\ HostOf(c) = HostOf(winner)
            /\ udp[c] = "listens" /\ HostOf(c) \in context[winner]
            ~> session[winner][c] = "registered" \/ ~OnlyMasterFailed
=============================================================================
