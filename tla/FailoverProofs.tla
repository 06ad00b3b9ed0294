--------------------------- MODULE FailoverProofs ---------------------------
(***************************************************************************)
(* What holds of the end of a master for any number of backups and clients, *)
(* any placement on machines, and any crashes, losses and late answers.     *)
(*                                                                         *)
(* Two masters: only the first server and the two that the voting round     *)
(* names ever reign, and the second of these follows the first.  A master   *)
(* that is alive and was given up has another's vote or rule to show for    *)
(* it, and both come from a timeout and from a closed connection (SInv).    *)
(*                                                                         *)
(* Who is given up: as long as a backup waits with its half timeout, either *)
(* its keepalive is unanswered or the answer is unread (HalfOwes); with     *)
(* nothing to read, only the former is left.                               *)
(*                                                                         *)
(* Who knows a client: the broadcast goes through the backups in the order  *)
(* they joined, and passes over none of which anything is claimed; what it  *)
(* wrote stays in the stream until it is read, and is then in the table     *)
(* of clients, which nothing empties while the first master is its master   *)
(* (KInv).                                                                 *)
(***************************************************************************)
EXTENDS Failover, SequenceTheorems, TLAPS

\* What the assumption says of the scenario that is played.
LEMMA ScenarioTyped ==
    ASSUME scenario \in Scenario
    PROVE  /\ scenario.backups \in 1 .. Backups /\ scenario.clients \subseteq Client
           /\ scenario.hostOf \in [Client \cup Server -> Host]
           /\ scenario.crashes \in Nat /\ scenario.late \in Nat /\ scenario.lost \in Nat
           /\ scenario.commands \in Nat
<1>1. scenario \in [backups : 1 .. Backups, clients : SUBSET Client,
                    hostOf : [Client \cup Server -> Host],
                    crashes : Nat, late : Nat, lost : Nat, commands : Nat]
  BY FailoverAssumption
<1>2. QED BY <1>1

\* Servers are numbers, and the first one is a server.
LEMMA ServerNumbers == First \in Server /\ Server \subseteq Nat
BY FailoverAssumption DEF First, Server

\* A packet that a client writes leaves the connections typed.
LEMMA WriteTyped ==
    ASSUME ClientsTyped, NEW c \in Client, NEW p \in {"LOGIN", "REQUEST", "LOGOUT"}, Writes(c, p)
    PROVE  /\ wire' \in [Server -> [Client -> Seq({"LOGIN", "REQUEST", "LOGOUT"})]]
           /\ main' \in [Client -> {"dial", "login", "loop", "closing", "ended", "dead"}]
           /\ open' \in [Client -> SUBSET Server]
<1>1. conn[c] \in Server => Append(wire[conn[c]][c], p) \in Seq({"LOGIN", "REQUEST", "LOGOUT"})
  BY AppendProperties DEF ClientsTyped
<1>2. CASE UNCHANGED wire /\ (Terminated(c) \/ UNCHANGED <<main, open>>)
  BY <1>2 DEF ClientsTyped, Terminated
<1>3. CASE /\ conn[c] \in Server /\ UNCHANGED <<main, open>>
           /\ wire' = [wire EXCEPT ![conn[c]][c] = Append(@, p)]
  BY <1>1, <1>3 DEF ClientsTyped
<1>4. QED BY <1>2, <1>3 DEF Writes

\* A session that changes, or none, leaves the sessions typed.
LEMMA SessionTyped ==
    ASSUME ClientsTyped, NEW s \in Server, NEW c \in Client,
           \/ UNCHANGED session
           \/ \E v \in {"none", "queued", "dropped", "registered"} :
                 session' = [session EXCEPT ![s][c] = v]
    PROVE  session' \in [Server -> [Client -> {"none", "queued", "dropped", "registered"}]]
<1>1. CASE UNCHANGED session
  BY <1>1 DEF ClientsTyped
<1>2. ASSUME NEW v \in {"none", "queued", "dropped", "registered"},
             session' = [session EXCEPT ![s][c] = v]
      PROVE  session' \in [Server -> [Client -> {"none", "queued", "dropped", "registered"}]]
  BY <1>2 DEF ClientsTyped
<1>3. QED BY <1>1, <1>2

\* The first state is typed: the backups are those of the scenario.
LEMMA InitTyped == Init => TypeOK
<1> SUFFICES ASSUME Init PROVE TypeOK OBVIOUS
<1>1. BoundsTyped
  BY ScenarioTyped DEF Init, BoundsTyped
<1>2. ServersTyped
  <2>1. scenario.backups \in 1 .. Backups
    BY ScenarioTyped DEF Init
  <2>2. [i \in 1 .. scenario.backups |-> i] \in Seq(Server)
    BY <2>1, FailoverAssumption DEF Server
  <2>3. joined \in [Server -> Seq(Server)]
    <3>1. joined = [s \in Server |-> IF s = First THEN [i \in 1 .. scenario.backups |-> i] ELSE << >>]
      BY DEF Init
    <3>2. << >> \in Seq(Server)
      OBVIOUS
    <3>3. QED BY <2>2, <3>1, <3>2
  <2>4. stream \in [Server -> Seq(Address \cup {"KEEPALIVE"})]
    BY DEF Init
  <2>5. QED BY <2>3, <2>4, ServerNumbers DEF Init, ServersTyped
<1>3. ClientsTyped
  BY ServerNumbers DEF Init, ClientsTyped
<1>4. QED BY <1>1, <1>2, <1>3 DEF TypeOK

\* Every step leaves every variable typed, and every count within its bound.
LEMMA StepTyped == TypeOK /\ [Next]_vars => TypeOK'
<1> SUFFICES ASSUME ServersTyped, ClientsTyped, BoundsTyped, [Next]_vars PROVE TypeOK'
  BY DEF TypeOK
<1> USE DEF backupVars, routerVars, clientVars, bounds
<1>s. /\ scenario.crashes \in Nat /\ scenario.late \in Nat /\ scenario.lost \in Nat
      /\ scenario.commands \in Nat /\ \A c \in Client : HostOf(c) \in Host
  BY ScenarioTyped DEF BoundsTyped, HostOf
<1>0. CASE UNCHANGED vars
  BY <1>0 DEF TypeOK, ServersTyped, ClientsTyped, BoundsTyped, vars
<1>1. ASSUME NEW s \in Server, Crashes(s) PROVE TypeOK'
  <2>1. ServersTyped'
    BY <1>1 DEF ServersTyped, Crashes, Dies
  <2>2. ClientsTyped'
    BY <1>1 DEF ClientsTyped, Crashes, Dies
  <2>3. BoundsTyped'
    BY <1>1, <1>s DEF BoundsTyped, Crashes, Dies
  <2>4. QED BY <2>1, <2>2, <2>3 DEF TypeOK
<1>2. ASSUME NEW s \in Server, LosesBackup(s) PROVE TypeOK'
  <2>1. ServersTyped'
    BY <1>2 DEF ServersTyped, LosesBackup, Dies
  <2>2. ClientsTyped'
    BY <1>2 DEF ClientsTyped, LosesBackup, Dies
  <2>3. BoundsTyped'
    BY <1>2 DEF BoundsTyped, LosesBackup, Dies
  <2>4. QED BY <2>1, <2>2, <2>3 DEF TypeOK
<1>3. ASSUME NEW s \in Server, Decides(s) PROVE TypeOK'
  <2>1. joined[s][1] \in Server /\ joined[s][2] \in Server
    BY <1>3, ElementOfSeq, LenProperties DEF ServersTyped, Decides
  <2>2. ServersTyped'
    BY <1>3, <2>1 DEF ServersTyped, Decides
  <2>3. ClientsTyped'
    BY <1>3 DEF ClientsTyped, Decides
  <2>4. BoundsTyped'
    BY <1>3 DEF BoundsTyped, Decides
  <2>5. QED BY <2>2, <2>3, <2>4 DEF TypeOK
<1>4. ASSUME NEW b \in Server, Reads(b) PROVE TypeOK'
  <2>1. /\ Head(stream[b]) \in Address \cup {"KEEPALIVE"}
           /\ Tail(stream[b]) \in Seq(Address \cup {"KEEPALIVE"})
    BY <1>4, HeadTailProperties DEF ServersTyped, Reads
  <2>2. ServersTyped'
    BY <1>4, <2>1 DEF ServersTyped, Reads
  <2>3. ClientsTyped'
    BY <1>4 DEF ClientsTyped, Reads
  <2>4. BoundsTyped'
    BY <1>4 DEF BoundsTyped, Reads
  <2>5. QED BY <2>2, <2>3, <2>4 DEF TypeOK
<1>5. ASSUME NEW b \in Server, Asks(b) PROVE TypeOK'
  <2>1. ServersTyped'
    BY <1>5 DEF ServersTyped, Asks
  <2>2. ClientsTyped'
    BY <1>5 DEF ClientsTyped, Asks
  <2>3. BoundsTyped'
    BY <1>5 DEF BoundsTyped, Asks
  <2>4. QED BY <2>1, <2>2, <2>3 DEF TypeOK
<1>6. ASSUME NEW b \in Server, Answers(b) PROVE TypeOK'
  <2>1. Append(stream[b], "KEEPALIVE") \in Seq(Address \cup {"KEEPALIVE"})
    BY AppendProperties DEF ServersTyped
  <2>2. ServersTyped'
    BY <1>6, <2>1, SMTT(30) DEF ServersTyped, Answers
  <2>3. ClientsTyped'
    BY <1>6 DEF ClientsTyped, Answers
  <2>4. BoundsTyped'
    BY <1>6 DEF BoundsTyped, Answers
  <2>5. QED BY <2>2, <2>3, <2>4 DEF TypeOK
<1>7. ASSUME NEW b \in Server, SeesEnd(b) PROVE TypeOK'
  <2>1. ServersTyped'
    BY <1>7 DEF ServersTyped, SeesEnd, Votes
  <2>2. ClientsTyped'
    BY <1>7 DEF ClientsTyped, SeesEnd, Votes
  <2>3. BoundsTyped'
    BY <1>7 DEF BoundsTyped, SeesEnd, Votes
  <2>4. QED BY <2>1, <2>2, <2>3 DEF TypeOK
<1>8. ASSUME NEW b \in Server, GivesUp(b) PROVE TypeOK'
  <2>1. ServersTyped'
    BY <1>8 DEF ServersTyped, GivesUp, Votes
  <2>2. ClientsTyped'
    BY <1>8 DEF ClientsTyped, GivesUp, Votes
  <2>3. BoundsTyped'
    BY <1>8, <1>s DEF BoundsTyped, GivesUp, Votes
  <2>4. QED BY <2>1, <2>2, <2>3 DEF TypeOK
<1>9. ASSUME NEW b \in Server, Rejoins(b) PROVE TypeOK'
  <2>1. master[b] \in Server
    BY DEF ServersTyped
  <2>2. Append(joined[master[b]], b) \in Seq(Server)
    BY <2>1, AppendProperties DEF ServersTyped
  <2>3. ServersTyped'
    <3>1. CASE Dies(b) /\ UNCHANGED <<backupVars, joined, stream>>
      BY <1>9, <3>1 DEF ServersTyped, Rejoins, Dies
    <3>2. CASE /\ server' = [server EXCEPT ![b] = "follows"]
               /\ joined' = [joined EXCEPT ![master[b]] = Append(@, b)]
               /\ linked' = [linked EXCEPT ![b] = @ \cup {master[b]}]
               /\ half' = [half EXCEPT ![b] = FALSE] /\ asked' = [asked EXCEPT ![b] = 0]
               /\ users' = [users EXCEPT ![b] = {}] /\ stream' = [stream EXCEPT ![b] = << >>]
               /\ UNCHANGED master
      <4>1. << >> \in Seq(Address \cup {"KEEPALIVE"})
        OBVIOUS
      <4>2. joined' \in [Server -> Seq(Server)] /\ stream' \in [Server -> Seq(Address \cup {"KEEPALIVE"})]
        BY <2>1, <2>2, <3>2, <4>1 DEF ServersTyped
      <4>3. QED BY <1>9, <2>1, <3>2, <4>2 DEF ServersTyped, Rejoins
    <3>3. QED BY <1>9, <3>1, <3>2 DEF Rejoins
  <2>4. ClientsTyped'
    BY <1>9 DEF ClientsTyped, Rejoins, Dies
  <2>5. BoundsTyped'
    BY <1>9 DEF BoundsTyped, Rejoins, Dies
  <2>6. QED BY <2>3, <2>4, <2>5 DEF TypeOK
<1>10. ASSUME NEW s \in Server, Launches(s) PROVE TypeOK'
  <2>1. ServersTyped'
    BY <1>10 DEF ServersTyped, Launches
  <2>2. ClientsTyped'
    BY <1>10 DEF ClientsTyped, Launches
  <2>3. BoundsTyped'
    BY <1>10 DEF BoundsTyped, Launches
  <2>4. QED BY <2>1, <2>2, <2>3 DEF TypeOK
<1>11. ASSUME NEW s \in Server, Handshakes(s) PROVE TypeOK'
  <2>1. ServersTyped'
    <3>1. CASE server' = [server EXCEPT ![s] = "master"] /\ UNCHANGED context
      BY <1>11, <3>1 DEF ServersTyped, Handshakes
    <3>2. CASE UNCHANGED server /\ \E a \in context[s] : context' = [context EXCEPT ![s] = @ \ {a}]
      BY <1>11, <3>2 DEF ServersTyped, Handshakes
    <3>3. QED BY <1>11, <3>1, <3>2 DEF Handshakes
  <2>2. ClientsTyped'
    <3>1. CASE UNCHANGED <<udp, told>>
      BY <1>11, <3>1 DEF ClientsTyped, Handshakes
    <3>2. CASE \E there \in SUBSET Client :
                  /\ udp' = [c \in Client |-> IF c \in there THEN "told" ELSE udp[c]]
                  /\ told' = [c \in Client |-> IF c \in there THEN s ELSE told[c]]
      BY <1>11, <3>2 DEF ClientsTyped, Handshakes
    <3>3. QED
      <4>1. \A a : {c \in Client : udp[c] = "listens" /\ HostOf(c) = a} \in SUBSET Client
        OBVIOUS
      <4>2. QED BY <1>11, <3>1, <3>2, <4>1 DEF Handshakes
  <2>3. BoundsTyped'
    BY <1>11, <1>s DEF BoundsTyped, Handshakes
  <2>4. QED BY <2>1, <2>2, <2>3 DEF TypeOK
<1>12. ASSUME NEW s \in Server, Replicates(s) PROVE TypeOK'
  <2>1. router[s] \in [client : Client, address : Address, left : Seq(Server)]
    BY <1>12 DEF ServersTyped, Replicates
  <2>2. Head(router[s].left) \in Server /\ Tail(router[s].left) \in Seq(Server)
    BY <1>12, <2>1, HeadTailProperties DEF Replicates
  <2>3. Append(stream[Head(router[s].left)], router[s].address) \in Seq(Address \cup {"KEEPALIVE"})
    BY <2>1, <2>2, AppendProperties DEF ServersTyped
  <2>4. ServersTyped'
    <3>1. CASE router' = [router EXCEPT ![s].left = << >>] /\ UNCHANGED stream
      <4>1. << >> \in Seq(Server)
        OBVIOUS
      <4>2. router' \in [Server -> [client : Client, address : Address, left : Seq(Server)] \cup {None}]
        BY <2>1, <3>1, <4>1 DEF ServersTyped
      <4>3. QED BY <1>12, <3>1, <4>2 DEF ServersTyped, Replicates
    <3>2. CASE /\ router' = [router EXCEPT ![s].left = Tail(@)]
               /\ stream' = [stream EXCEPT ![Head(router[s].left)] = Append(@, router[s].address)]
      <4>1. router' \in [Server -> [client : Client, address : Address, left : Seq(Server)] \cup {None}]
        BY <2>1, <2>2, <3>2 DEF ServersTyped
      <4>2. stream' \in [Server -> Seq(Address \cup {"KEEPALIVE"})]
        BY <2>2, <2>3, <3>2 DEF ServersTyped
      <4>3. QED BY <1>12, <4>1, <4>2 DEF ServersTyped, Replicates
    <3>3. QED BY <1>12, <3>1, <3>2 DEF Replicates
  <2>5. ClientsTyped'
    BY <1>12 DEF ClientsTyped, Replicates
  <2>6. BoundsTyped'
    BY <1>12 DEF BoundsTyped, Replicates
  <2>7. QED BY <2>4, <2>5, <2>6 DEF TypeOK
<1>13. ASSUME NEW s \in Server, Accepts(s) PROVE TypeOK'
  <2>1. router[s] \in [client : Client, address : Address, left : Seq(Server)]
    BY <1>13 DEF ServersTyped, Accepts
  <2>2. ServersTyped'
    BY <1>13, <2>1 DEF ServersTyped, Accepts
  <2>3. ClientsTyped'
    BY <1>13 DEF ClientsTyped, Accepts
  <2>4. BoundsTyped'
    BY <1>13 DEF BoundsTyped, Accepts
  <2>5. QED BY <2>2, <2>3, <2>4 DEF TypeOK
<1>14. ASSUME NEW s \in Server, NEW c \in Client, Routes(s, c) PROVE TypeOK'
  <2>1. wire[s][c] \in Seq({"LOGIN", "REQUEST", "LOGOUT"})
    BY DEF ClientsTyped
  <2>2. wire[s][c] # << >> => Tail(wire[s][c]) \in Seq({"LOGIN", "REQUEST", "LOGOUT"})
    BY <2>1, HeadTailProperties
  <2>. DEFINE Logs == /\ TakesFrom(s, c) /\ wire[s][c] # << >>
                      /\ session' = [session EXCEPT ![s][c] = "registered"]
                      /\ \E a \in Addresses(s, c) :
                            /\ router' = [router EXCEPT ![s] =
                                             [client |-> c, address |-> a, left |-> joined[s]]]
                            /\ lost' = IF a = None /\ told[c] # s THEN lost + 1 ELSE lost
                      /\ UNCHANGED server
              Drops == /\ TakesFrom(s, c) /\ wire[s][c] # << >>
                       /\ session' = [session EXCEPT ![s][c] = "dropped"]
                       /\ UNCHANGED <<server, router, lost>>
              Fails == Dies(s) /\ UNCHANGED <<session, wire, router, lost>>
  <2>o. Logs \/ Drops \/ Fails
    BY <1>14 DEF Routes
  <2>3. ServersTyped'
    <3>1. CASE Logs
      <4>1. PICK a \in Addresses(s, c) :
               router' = [router EXCEPT ![s] = [client |-> c, address |-> a, left |-> joined[s]]]
        BY <3>1
      <4>2. a \in Address
        BY <1>s DEF Addresses, Address
      <4>3. [client |-> c, address |-> a, left |-> joined[s]]
               \in [client : Client, address : Address, left : Seq(Server)]
        BY <4>2 DEF ServersTyped
      <4>4. QED BY <1>14, <3>1, <4>1, <4>3 DEF ServersTyped, Routes
    <3>2. CASE Drops
      BY <1>14, <3>2 DEF ServersTyped, Routes
    <3>3. CASE Fails
      BY <1>14, <3>3 DEF ServersTyped, Routes, Dies
    <3>4. QED BY <2>o, <3>1, <3>2, <3>3
  <2>4. ClientsTyped'
    <3>1. CASE TakesFrom(s, c) /\ wire[s][c] # << >>
      <4>1. wire' \in [Server -> [Client -> Seq({"LOGIN", "REQUEST", "LOGOUT"})]]
        BY <2>2, <3>1 DEF ClientsTyped, TakesFrom
      <4>2. session' \in [Server -> [Client -> {"none", "queued", "dropped", "registered"}]]
        BY <2>o, SessionTyped
      <4>3. QED BY <1>14, <4>1, <4>2 DEF ClientsTyped, Routes
    <3>2. CASE Fails
      BY <1>14, <3>2 DEF ClientsTyped, Routes
    <3>3. QED BY <2>o, <3>1, <3>2
  <2>5. BoundsTyped'
    <3>1. UNCHANGED lost \/ (lost < scenario.lost /\ lost' = lost + 1)
      <4>1. None \notin Host
        BY FailoverAssumption
      <4>2. QED BY <1>s, <2>o, <4>1 DEF Addresses
    <3>2. QED BY <1>14, <1>s, <3>1 DEF BoundsTyped, Routes
  <2>6. QED BY <2>3, <2>4, <2>5 DEF TypeOK
<1>15. ASSUME NEW s \in Server, NEW c \in Client, Serves(s, c) PROVE TypeOK'
  <2>1. wire[s][c] \in Seq({"LOGIN", "REQUEST", "LOGOUT"})
    BY DEF ClientsTyped
  <2>2. wire[s][c] # << >> => Tail(wire[s][c]) \in Seq({"LOGIN", "REQUEST", "LOGOUT"})
    BY <2>1, HeadTailProperties
  <2>3. ServersTyped'
    BY <1>15, <2>1, <2>2 DEF ServersTyped, Serves, TakesFrom, Ended, Dies
  <2>4. ClientsTyped'
    <3>1. CASE UNCHANGED <<session, wire>>
      BY <1>15, <3>1 DEF ClientsTyped, Serves
    <3>2. CASE /\ wire[s][c] # << >> /\ TakesFrom(s, c)
               /\ UNCHANGED session \/ session' = [session EXCEPT ![s][c] = "none"]
      <4>1. wire' \in [Server -> [Client -> Seq({"LOGIN", "REQUEST", "LOGOUT"})]]
        BY <2>2, <3>2 DEF ClientsTyped, TakesFrom
      <4>2. session' \in [Server -> [Client -> {"none", "queued", "dropped", "registered"}]]
        BY <3>2, SessionTyped
      <4>3. QED BY <1>15, <4>1, <4>2 DEF ClientsTyped, Serves
    <3>3. QED BY <1>15, <3>1, <3>2 DEF Serves
  <2>5. BoundsTyped'
    BY <1>15 DEF BoundsTyped, Serves, TakesFrom, Ended, Dies
  <2>6. QED BY <2>3, <2>4, <2>5 DEF TypeOK
<1>16. ASSUME NEW c \in Client, Dials(c) PROVE TypeOK'
  <2>1. ServersTyped'
    BY <1>16 DEF ServersTyped, Dials, Connected, ServerSide
  <2>2. ClientsTyped'
    BY <1>16, ServerNumbers DEF ClientsTyped, Dials, Connected, ServerSide
  <2>3. BoundsTyped'
    BY <1>16 DEF BoundsTyped, Dials, Connected, ServerSide
  <2>4. QED BY <2>1, <2>2, <2>3 DEF TypeOK
<1>17. ASSUME NEW c \in Client, LogsIn(c) PROVE TypeOK'
  <2>1. ServersTyped'
    BY <1>17 DEF ServersTyped, LogsIn, Terminated, ServerSide
  <2>2. ClientsTyped'
    BY <1>17 DEF ClientsTyped, LogsIn, Terminated, ServerSide
  <2>3. BoundsTyped'
    BY <1>17 DEF BoundsTyped, LogsIn, Terminated, ServerSide
  <2>4. QED BY <2>1, <2>2, <2>3 DEF TypeOK
<1>18. ASSUME NEW c \in Client, ListensUdp(c) PROVE TypeOK'
  <2>1. ServersTyped'
    BY <1>18 DEF ServersTyped, ListensUdp, ServerSide
  <2>2. ClientsTyped'
    BY <1>18 DEF ClientsTyped, ListensUdp, ServerSide
  <2>3. BoundsTyped'
    BY <1>18 DEF BoundsTyped, ListensUdp, ServerSide
  <2>4. QED BY <2>1, <2>2, <2>3 DEF TypeOK
<1>19. ASSUME NEW c \in Client, OpensSocket(c) PROVE TypeOK'
  <2>1. ServersTyped'
    BY <1>19 DEF ServersTyped, OpensSocket, ServerSide
  <2>2. ClientsTyped'
    BY <1>19 DEF ClientsTyped, OpensSocket, ServerSide
  <2>3. BoundsTyped'
    BY <1>19 DEF BoundsTyped, OpensSocket, ServerSide
  <2>4. QED BY <2>1, <2>2, <2>3 DEF TypeOK
<1>20. ASSUME NEW c \in Client, Connects(c) PROVE TypeOK'
  <2>1. ServersTyped'
    BY <1>20 DEF ServersTyped, Connects, Connected, Terminated, ServerSide
  <2>2. ClientsTyped'
    <3>1. CASE Connected(c, told[c]) /\ udp' = [udp EXCEPT ![c] = "connected"] /\ UNCHANGED main
      <4>1. told[c] \in Server
        BY <1>20 DEF ClientsTyped, Connects
      <4>2. session' \in [Server -> [Client -> {"none", "queued", "dropped", "registered"}]]
        BY <3>1, <4>1 DEF ClientsTyped, Connected
      <4>3. QED BY <1>20, <3>1, <4>1, <4>2 DEF ClientsTyped, Connects, Connected
    <3>2. CASE Terminated(c) /\ UNCHANGED <<udp, conn, session>>
      BY <1>20, <3>2 DEF ClientsTyped, Connects, Terminated
    <3>3. QED BY <1>20, <3>1, <3>2 DEF Connects
  <2>3. BoundsTyped'
    BY <1>20 DEF BoundsTyped, Connects, Connected, Terminated, ServerSide
  <2>4. QED BY <2>1, <2>2, <2>3 DEF TypeOK
<1>21. ASSUME NEW c \in Client, LogsInAgain(c) PROVE TypeOK'
  <2>1. /\ wire' \in [Server -> [Client -> Seq({"LOGIN", "REQUEST", "LOGOUT"})]]
           /\ main' \in [Client -> {"dial", "login", "loop", "closing", "ended", "dead"}]
           /\ open' \in [Client -> SUBSET Server]
    BY <1>21, WriteTyped DEF LogsInAgain, ClientsTyped
  <2>2. ServersTyped'
    BY <1>21 DEF ServersTyped, LogsInAgain, ServerSide
  <2>3. ClientsTyped'
    BY <1>21, <2>1 DEF ClientsTyped, LogsInAgain, ServerSide
  <2>4. BoundsTyped'
    BY <1>21 DEF BoundsTyped, LogsInAgain, ServerSide
  <2>5. QED BY <2>2, <2>3, <2>4 DEF TypeOK
<1>22. ASSUME NEW c \in Client, NEW p \in {"REQUEST", "LOGOUT"}, Types(c, p) PROVE TypeOK'
  <2>1. ServersTyped'
    BY <1>22 DEF ServersTyped, Types, ServerSide
  <2>2. ClientsTyped'
    BY <1>22 DEF ClientsTyped, Types, ServerSide
  <2>3. BoundsTyped'
    BY <1>22, <1>s DEF BoundsTyped, Types, ServerSide
  <2>4. QED BY <2>1, <2>2, <2>3 DEF TypeOK
<1>23. ASSUME NEW c \in Client, EndsInput(c) PROVE TypeOK'
  <2>1. ServersTyped'
    BY <1>23 DEF ServersTyped, EndsInput, ServerSide
  <2>2. ClientsTyped'
    BY <1>23 DEF ClientsTyped, EndsInput, ServerSide
  <2>3. BoundsTyped'
    BY <1>23 DEF BoundsTyped, EndsInput, ServerSide
  <2>4. QED BY <2>1, <2>2, <2>3 DEF TypeOK
<1>24. ASSUME NEW c \in Client, Sends(c) PROVE TypeOK'
  <2>1. /\ wire' \in [Server -> [Client -> Seq({"LOGIN", "REQUEST", "LOGOUT"})]]
           /\ main' \in [Client -> {"dial", "login", "loop", "closing", "ended", "dead"}]
           /\ open' \in [Client -> SUBSET Server]
    BY <1>24, WriteTyped DEF Sends, ClientsTyped
  <2>2. ServersTyped'
    BY <1>24 DEF ServersTyped, Sends, ServerSide
  <2>3. ClientsTyped'
    BY <1>24, <2>1 DEF ClientsTyped, Sends, ServerSide
  <2>4. BoundsTyped'
    BY <1>24 DEF BoundsTyped, Sends, ServerSide
  <2>5. QED BY <2>2, <2>3, <2>4 DEF TypeOK
<1>25. ASSUME NEW c \in Client, Leaves(c) PROVE TypeOK'
  <2>1. ServersTyped'
    BY <1>25 DEF ServersTyped, Leaves, ServerSide
  <2>2. ClientsTyped'
    BY <1>25 DEF ClientsTyped, Leaves, ServerSide
  <2>3. BoundsTyped'
    BY <1>25 DEF BoundsTyped, Leaves, ServerSide
  <2>4. QED BY <2>1, <2>2, <2>3 DEF TypeOK
<1>26. ASSUME NEW c \in Client, Exits(c) PROVE TypeOK'
  <2>1. ServersTyped'
    BY <1>26 DEF ServersTyped, Exits, ServerSide
  <2>2. ClientsTyped'
    BY <1>26 DEF ClientsTyped, Exits, ServerSide
  <2>3. BoundsTyped'
    BY <1>26 DEF BoundsTyped, Exits, ServerSide
  <2>4. QED BY <2>1, <2>2, <2>3 DEF TypeOK
<1>27. QED
  BY <1>0, <1>1, <1>2, <1>3, <1>4, <1>5, <1>6, <1>7, <1>8, <1>9, <1>10, <1>11, <1>12, <1>13, <1>14, <1>15, <1>16, <1>17, <1>18, <1>19, <1>20, <1>21, <1>22, <1>23, <1>24, <1>25, <1>26
  DEF Next, Backup, Winner, Udp

-----------------------------------------------------------------------------
(* Who gives a master up that is alive.                                    *)

\* A backup that has timed out once waits for an answer
Waits(b) ==
    server[b] = "follows" /\ half[b] /\ Up(master[b]) /\ master[b] \in linked[b]

\* Its keepalive has not been answered, or the answer has not been read
HalfOwes ==
    \A b \in Server : Waits(b) =>
        asked[b] > 0 \/ \E k \in DOMAIN stream[b] : stream[b][k] = "KEEPALIVE"

-----------------------------------------------------------------------------
(* When there are two masters.                                             *)

Reigns(s) == server[s] \in {"elected", "starts", "announces", "master"}

\* Who joined whom: everyone the first master, in order, and after a vote the
\* second server the winner
Ring ==
    /\ Len(joined[0]) = scenario.backups /\ \A i \in 1 .. scenario.backups : joined[0][i] = i
    /\ joined[1] \in {<< >>, <<2>>}
    /\ \A m \in Server : m > 1 => joined[m] = << >>
    /\ \A b \in Server : master[b] # 0 => b = 2 /\ master[b] = 1 /\ scenario.backups >= 2
    /\ joined[1] = <<2>> => 2 \in Server /\ master[2] = 1 /\ server[2] \notin {"rejoins", "votes"}

Roles ==
    /\ server[0] \in {"master", "dead"}
    /\ \A b \in Server \ {0} :
          /\ Reigns(b) => b = 1 \/ (b = 2 /\ master[2] = 1 /\ joined[1] = <<2>>)
          /\ server[b] = "rejoins" => master[b] = 1 /\ joined[1] = << >>
          /\ server[b] = "votes" => master[b] = 0
          /\ server[b] \in {"follows", "votes"} /\ master[b] = 0 => b <= scenario.backups
          /\ server[b] = "follows" /\ master[b] = 1 => joined[1] = <<2>>

\* A master that lives on was given up too early; its backup has closed the
\* connection to it, unless it was the only one
GivenUpLate ==
    /\ \A b \in Server \ {0} :
          /\ server[b] = "votes" /\ Up(0) => late > 0 /\ 0 \notin linked[b]
          /\ b = 1 /\ Reigns(b) /\ Up(0) => late > 0 /\ (scenario.backups = 1 \/ 0 \notin linked[b])
          /\ b = 2 /\ Reigns(b) /\ Up(1) => late > 0
          /\ master[b] = 1 /\ Up(0) => late > 0 /\ 0 \notin linked[b]

SInv == Ring /\ Roles /\ GivenUpLate

\* In every state the variables have their types, and the counts of crashes,
\* late answers, lost datagrams and commands stay within the scenario.
THEOREM TypeCorrect == Spec => []TypeOK
<1>1. QED BY InitTyped, StepTyped, PTL DEF Spec

\* A step in which no server gives its master up, is told who won, or joins
Ordinary ==
    /\ UNCHANGED <<scenario, master, linked, joined, late>>
    /\ \A s \in Server :
          \/ server'[s] = server[s] \/ server'[s] = "dead"
          \/ s # 0 /\ Reigns(s) /\ Reigns(s)'

\* What the lemmas below need of the types.
LEMMA Basics ==
    ASSUME TypeOK
    PROVE  /\ 0 \in Server /\ 1 \in Server /\ Server \subseteq Nat
           /\ scenario.backups \in Nat /\ scenario.backups >= 1
           /\ \A i \in 1 .. scenario.backups : i \in Server
           /\ server \in [Server -> {"follows", "votes", "stuck", "rejoins", "elected",
                                     "starts", "announces", "master", "dead"}]
           /\ master \in [Server -> Server] /\ linked \in [Server -> SUBSET Server]
           /\ joined \in [Server -> Seq(Server)] /\ late \in Nat
<1>1. scenario.backups \in 1 .. Backups /\ scenario.late \in Nat
  BY ScenarioTyped DEF TypeOK, BoundsTyped
<1>2. late \in Nat
  BY <1>1 DEF TypeOK, BoundsTyped
<1>3. Backups \in Nat
  BY FailoverAssumption
<1>4. /\ 0 \in Server /\ 1 \in Server /\ Server \subseteq Nat
      /\ \A i \in 1 .. scenario.backups : i \in Server
  BY <1>1, <1>3 DEF Server
<1>5. QED BY <1>1, <1>2, <1>3, <1>4 DEF TypeOK, ServersTyped

\* Such a step leaves it as it is who rules and why.
LEMMA OrdinaryKeeps ==
    ASSUME TypeOK, SInv, Ordinary
    PROVE  SInv'
<1>1. /\ 0 \in Server /\ 1 \in Server
      /\ server \in [Server -> {"follows", "votes", "stuck", "rejoins", "elected",
                                "starts", "announces", "master", "dead"}]
  BY Basics
<1>2. /\ scenario' = scenario /\ master' = master /\ linked' = linked
      /\ joined' = joined /\ late' = late
  BY DEF Ordinary
<1>3. \A s \in Server :
         /\ Up(s)' => Up(s)
         /\ Reigns(s)' => Reigns(s)
         /\ server'[s] = "votes" => server[s] = "votes"
         /\ server'[s] = "follows" => server[s] = "follows"
         /\ server'[s] = "rejoins" => server[s] = "rejoins"
  BY DEF Ordinary, Up, Reigns
<1>4. Ring'
  BY <1>2, <1>3 DEF SInv, Ring
<1>5. Roles'
  <2>1. server'[0] \in {"master", "dead"}
    BY <1>1 DEF SInv, Roles, Ordinary
  <2>2. QED BY <1>2, <1>3, <2>1 DEF SInv, Roles
<1>6. GivenUpLate'
  BY <1>1, <1>2, <1>3 DEF SInv, GivenUpLate
<1>7. QED BY <1>4, <1>5, <1>6 DEF SInv

\* A backup that gives its master up for dead, or too early
LEMMA VotesKeeps ==
    ASSUME TypeOK, SInv, NEW b \in Server, SeesEnd(b) \/ GivesUp(b)
    PROVE  SInv'
<1> USE Basics
<1>1. /\ Votes(b) /\ UNCHANGED <<scenario, master, joined>>
      /\ Up(master[b]) => late' > 0
      /\ late > 0 => late' > 0
  BY DEF SeesEnd, GivesUp, bounds
<1>3. b # 0 /\ server[b] = "follows"
  BY <1>1 DEF SInv, Roles, Votes
<1>4. \A s \in Server : s # b => server'[s] = server[s] /\ linked'[s] = linked[s]
  BY <1>1 DEF Votes
<1>5. /\ server'[b] = IF Alone(b) THEN "elected" ELSE "votes"
      /\ linked'[b] = IF Alone(b) THEN linked[b] ELSE linked[b] \ {master[b]}
  BY <1>1 DEF Votes
<1>6. CASE master[b] = 0
  <2>1. b <= scenario.backups /\ Len(joined[0]) = scenario.backups
    BY <1>3, <1>6 DEF SInv, Roles, Ring
  <2>2. Alone(b) <=> scenario.backups = 1
    BY <1>6, <2>1 DEF Alone
  <2>3. Alone(b) => b = 1
    BY <1>3, <2>1, <2>2
  <2>4. Ring'
    BY <1>1, <1>4, <1>5, <1>6 DEF SInv, Ring
  <2>5. Roles'
    BY <1>1, <1>3, <1>4, <1>5, <1>6, <2>1, <2>3, SMTT(60) DEF SInv, Roles, Reigns
  <2>6. GivenUpLate'
    BY <1>1, <1>3, <1>4, <1>5, <1>6, <2>2, <2>3 DEF SInv, GivenUpLate, Reigns, Up
  <2>7. QED BY <2>4, <2>5, <2>6 DEF SInv
<1>7. CASE master[b] # 0
  <2>1. b = 2 /\ master[b] = 1 /\ joined[1] = <<2>>
    BY <1>3, <1>7 DEF SInv, Roles, Ring
  <2>2. Alone(b)
    BY <2>1 DEF Alone
  <2>3. Ring'
    BY <1>1, <1>4, <1>5, <2>1, <2>2 DEF SInv, Ring
  <2>4. Roles'
    BY <1>1, <1>3, <1>4, <1>5, <2>1, <2>2 DEF SInv, Roles, Reigns
  <2>5. GivenUpLate'
    BY <1>1, <1>3, <1>4, <1>5, <2>1, <2>2 DEF SInv, GivenUpLate, Reigns, Up
  <2>6. QED BY <2>3, <2>4, <2>5 DEF SInv
<1>8. QED BY <1>6, <1>7

\* The vote: only the backups of the first master ever hold one
LEMMA DecidesKeeps ==
    ASSUME TypeOK, SInv, NEW m \in Server, Decides(m)
    PROVE  SInv'
<1> USE Basics
<1>2. m = 0
  <2>1. m > 1 => Len(joined[m]) = 0
    BY DEF SInv, Ring
  <2>2. Len(joined[1]) <= 1
    <3>1. joined[1] = << >> \/ joined[1] = <<2>>
      BY DEF SInv, Ring
    <3>2. Len(<< >>) = 0 /\ Len(<<2>>) = 1
      OBVIOUS
    <3>3. 0 <= 1 /\ 1 <= 1
      OBVIOUS
    <3>4. QED BY <3>1, <3>2, <3>3, Zenon
  <2>3. m \in Nat /\ Len(joined[m]) > 1
    BY DEF Decides
  <2>4. QED BY <2>1, <2>2, <2>3
<1>3. /\ scenario.backups >= 2 /\ 2 \in Server /\ joined[0][1] = 1 /\ joined[0][2] = 2
      /\ Range(joined[0]) = 1 .. scenario.backups
  <2>1. Len(joined[0]) = scenario.backups /\ \A i \in 1 .. scenario.backups : joined[0][i] = i
    BY DEF SInv, Ring
  <2>2. scenario.backups >= 2 /\ joined[0][1] = 1 /\ joined[0][2] = 2
    <3>1. scenario.backups > 1
      BY <1>2, <2>1 DEF Decides
    <3>2. 1 \in 1 .. scenario.backups /\ 2 \in 1 .. scenario.backups
      BY <3>1
    <3>3. QED BY <2>1, <3>1, <3>2
  <2>3. joined[0] \in Seq(Server) /\ DOMAIN joined[0] = 1 .. scenario.backups
    BY <2>1
  <2>4. Range(joined[0]) = 1 .. scenario.backups
    <3>1. Range(joined[0]) = {joined[0][i] : i \in 1 .. scenario.backups}
      BY <2>3 DEF Range
    <3>2. QED BY <2>1, <3>1
  <2>5. QED BY <2>2, <2>4
<1>4. /\ \A s \in 1 .. scenario.backups : server[s] = "votes" /\ master[s] = 0
      /\ server'[1] = "elected" /\ server'[2] = "rejoins"
      /\ \A s \in 3 .. scenario.backups : server'[s] = "stuck"
      /\ \A s \in Server \ (1 .. scenario.backups) : server'[s] = server[s]
      /\ master' = [master EXCEPT ![2] = 1]
      /\ UNCHANGED <<scenario, linked, joined, late>>
  <2>1. server' = [s \in Server |-> CASE s = 1 -> "elected" [] s = 2 -> "rejoins"
                                      [] s \in (1 .. scenario.backups) \ {1, 2} -> "stuck"
                                      [] OTHER -> server[s]]
    BY <1>2, <1>3 DEF Decides
  <2>2. QED BY <1>2, <1>3, <2>1, SMTT(30) DEF Decides, bounds
<1>5. joined[1] = << >>
  BY <1>3, <1>4 DEF SInv, Ring
<1>6. \A s \in Server \ {0, 1, 2} : /\ server'[s] \in {"stuck", server[s]} /\ master'[s] = master[s]
                                    /\ server'[s] # "votes"
  <2> TAKE s \in Server \ {0, 1, 2}
  <2>1. CASE s \in 1 .. scenario.backups
    BY <1>4, <2>1
  <2>2. CASE s \notin 1 .. scenario.backups
    <3>1. server'[s] = server[s] /\ master'[s] = master[s]
      BY <1>4, <2>2
    <3>2. server[s] = "votes" => s <= scenario.backups
      BY DEF SInv, Roles
    <3>3. s \in Nat /\ s >= 1
      OBVIOUS
    <3>4. QED BY <2>2, <3>1, <3>2, <3>3
  <2>3. QED BY <2>1, <2>2
<1>7. Ring'
  BY <1>3, <1>4, <1>5 DEF SInv, Ring
<1>o. /\ server'[1] = "elected" /\ master'[1] = 0
      /\ server'[2] = "rejoins" /\ master'[2] = 1 /\ joined'[1] = << >>
      /\ server'[0] = server[0] /\ scenario' = scenario /\ linked' = linked /\ late' = late
  <2>1. master \in [Server -> Server] /\ 1 \in 1 .. scenario.backups /\ 0 \notin 1 .. scenario.backups
    BY Basics
  <2>2. QED BY <1>3, <1>4, <1>5, <2>1
<1>8. Roles'
  <2>1. server'[0] \in {"master", "dead"}
    BY <1>o DEF SInv, Roles
  <2>2. ASSUME NEW b \in Server \ {0, 1, 2}
        PROVE  ~Reigns(b)' /\ server'[b] # "rejoins" /\ server'[b] # "votes"
               /\ (server'[b] = "follows" => server[b] = "follows" /\ master'[b] = master[b])
    BY <1>6, SMTT(30) DEF SInv, Roles, Ring, Reigns
  <2>3. ASSUME NEW b \in Server \ {0, 1, 2}, server'[b] = "follows"
        PROVE  (master'[b] = 0 => b <= scenario.backups) /\ master'[b] # 1
    BY <2>2, <2>3, <1>5 DEF SInv, Roles
  <2>4. QED BY <1>o, <2>1, <2>2, <2>3 DEF Roles, Reigns
<1>9. GivenUpLate'
  <2>1. Up(0)' => Up(0)
    BY <1>o DEF Up
  <2>2. ASSUME NEW b \in {1, 2} PROVE Up(0) => late > 0 /\ 0 \notin linked[b]
    <3>1. b \in Server \ {0} /\ b \in 1 .. scenario.backups
      BY <1>3
    <3>2. server[b] = "votes"
      BY <1>4, <3>1
    <3>3. QED BY <3>1, <3>2 DEF SInv, GivenUpLate
  <2>3. ASSUME NEW b \in Server \ {0, 1, 2} PROVE server'[b] # "votes" /\ master'[b] = 0
    BY <1>6 DEF SInv, Ring
  <2>4. QED BY <1>o, <2>1, <2>2, <2>3 DEF GivenUpLate, Reigns
<1>10. QED BY <1>7, <1>8, <1>9 DEF SInv

\* The second server joins the winner, or ends
LEMMA RejoinsKeeps ==
    ASSUME TypeOK, SInv, NEW b \in Server, Rejoins(b)
    PROVE  SInv'
<1> USE Basics
<1>2. b = 2 /\ master[b] = 1 /\ joined[1] = << >> /\ server[2] = "rejoins"
  BY DEF SInv, Roles, Ring, Rejoins
<1>3. CASE Dies(b) /\ UNCHANGED <<backupVars, joined, stream>>
  <2>1. Ordinary
    BY <1>3 DEF Rejoins, Ordinary, Dies, backupVars, bounds
  <2>2. QED BY <2>1, OrdinaryKeeps
<1>4. CASE /\ server' = [server EXCEPT ![2] = "follows"]
           /\ joined' = [joined EXCEPT ![1] = Append(@, 2)]
           /\ linked' = [linked EXCEPT ![2] = @ \cup {1}]
           /\ UNCHANGED master
  <2>1. joined'[1] = <<2>> /\ \A s \in Server : s # 1 => joined'[s] = joined[s]
    BY <1>2, <1>4
  <2>2. server'[2] = "follows" /\ \A s \in Server : s # 2 => server'[s] = server[s]
    <3>1. server \in [Server -> {"follows", "votes", "stuck", "rejoins", "elected",
                                "starts", "announces", "master", "dead"}]
      BY Basics
    <3>2. QED BY <1>2, <1>4, <3>1
  <2>3. UNCHANGED <<scenario, late>>
    BY DEF Rejoins, bounds
  <2>4. \A s \in Server : 0 \in linked'[s] => 0 \in linked[s]
    BY <1>2, <1>4
  <2>5. Ring'
    BY <1>2, <1>4, <2>1, <2>2, <2>3 DEF SInv, Ring
  <2>6. Roles'
    <3>1. server'[0] \in {"master", "dead"} /\ master'[2] = 1 /\ scenario' = scenario
      BY <1>2, <1>4, <2>2, <2>3 DEF SInv, Roles
    <3>2. ASSUME NEW s \in Server \ {0, 2}
          PROVE  /\ server'[s] = server[s] /\ master'[s] = 0 /\ server[s] # "rejoins"
                 /\ (Reigns(s)' => s = 1)
      BY <1>4, <2>2, SMTT(30) DEF SInv, Roles, Ring, Reigns
    <3>3. ASSUME NEW s \in Server \ {0, 2}, server'[s] \in {"follows", "votes"}
          PROVE  s <= scenario.backups
      BY <3>2, <3>3 DEF SInv, Roles, Ring
    <3>4. ~Reigns(2)' /\ 2 \in Server
      BY <1>2, <2>2 DEF Reigns
    <3>5. QED BY <2>1, <2>2, <3>1, <3>2, <3>3, <3>4 DEF Roles
  <2>7. GivenUpLate'
    BY <1>2, <1>4, <2>2, <2>3, <2>4 DEF SInv, GivenUpLate, Reigns, Up
  <2>8. QED BY <2>5, <2>6, <2>7 DEF SInv
<1>5. QED BY <1>2, <1>3, <1>4 DEF Rejoins

\* At first nobody but the first server rules.
LEMMA InitSplit == Init => SInv
<1> SUFFICES ASSUME Init PROVE SInv OBVIOUS
<1>1. /\ 0 \in Server /\ Server \subseteq Nat /\ 1 \in Server
      /\ scenario.backups \in 1 .. Backups
  BY ScenarioTyped, FailoverAssumption DEF Server, Init
<1>2. joined = [s \in Server |-> IF s = 0 THEN [i \in 1 .. scenario.backups |-> i] ELSE << >>]
  BY DEF Init, First
<1>3. server = [s \in Server |-> IF s = 0 THEN "master"
                                 ELSE IF s <= scenario.backups THEN "follows" ELSE "dead"]
  BY DEF Init, First
<1>4. master = [s \in Server |-> 0]
  BY DEF Init, First
<1>5. Ring
  BY <1>1, <1>2, <1>4 DEF Ring
<1>6. Roles /\ GivenUpLate
  BY <1>1, <1>2, <1>3, <1>4 DEF Roles, GivenUpLate, Reigns
<1>7. QED BY <1>5, <1>6 DEF SInv

\* No step makes another server rule than the ones the vote named.
LEMMA StepSplit == TypeOK /\ SInv /\ [Next]_vars => SInv'
<1> SUFFICES ASSUME TypeOK, SInv, [Next]_vars PROVE SInv'
  OBVIOUS
<1> USE DEF backupVars, clientVars, routerVars, bounds
<1>s. server \in [Server -> {"follows", "votes", "stuck", "rejoins", "elected",
                            "starts", "announces", "master", "dead"}]
  BY DEF TypeOK, ServersTyped
<1>0. CASE UNCHANGED vars
  BY <1>0, OrdinaryKeeps DEF vars, Ordinary
<1>1. ASSUME NEW s \in Server, Crashes(s) \/ LosesBackup(s) PROVE Ordinary
  BY <1>1, <1>s DEF Ordinary, Crashes, LosesBackup, Dies
<1>2. ASSUME NEW s \in Server, Reads(s) \/ Asks(s) \/ Answers(s) \/ Replicates(s) \/ Accepts(s)
      PROVE  Ordinary
  BY <1>2 DEF Ordinary, Reads, Asks, Answers, Replicates, Accepts
<1>3. ASSUME NEW s \in Server, Winner(s) PROVE Ordinary
  <2>1. server[0] \in {"master", "dead"}
    BY DEF SInv, Roles
  <2>2. s # 0
    BY <1>3, <2>1 DEF Winner, Launches, Handshakes
  <2>3. UNCHANGED <<scenario, master, linked, joined, late>>
    BY <1>3 DEF Winner, Launches, Handshakes
  <2>4. UNCHANGED server \/ (Reigns(s) /\ \E r \in {"starts", "announces", "master"} :
                              server' = [server EXCEPT ![s] = r])
    BY <1>3 DEF Winner, Launches, Handshakes, Reigns
  <2>5. QED BY <1>s, <2>2, <2>3, <2>4 DEF Ordinary, Reigns
<1>4. ASSUME NEW s \in Server, NEW c \in Client, Routes(s, c) \/ Serves(s, c) PROVE Ordinary
  BY <1>4, <1>s DEF Ordinary, Routes, Serves, Dies
<1>5. ASSUME NEW c \in Client, Dials(c) \/ LogsIn(c) \/ Udp(c) PROVE Ordinary
  BY <1>5 DEF Ordinary, Dials, LogsIn, Udp, ListensUdp, OpensSocket, Connects, LogsInAgain, ServerSide
<1>6. ASSUME NEW c \in Client, NEW p \in {"REQUEST", "LOGOUT"},
             Types(c, p) \/ EndsInput(c) \/ Sends(c) \/ Leaves(c) \/ Exits(c)
      PROVE  Ordinary
  BY <1>6 DEF Ordinary, Types, EndsInput, Sends, Leaves, Exits, ServerSide
<1>7. QED
  BY <1>0, <1>1, <1>2, <1>3, <1>4, <1>5, <1>6, OrdinaryKeeps, VotesKeeps, DecidesKeeps, RejoinsKeeps
     DEF Next, Backup

\* Two servers take clients only if one of them was given up while it was
\* alive, and had a single backup or is about to end.
THEOREM SplitOnlyLate == Spec => []SplitIsLate
<1>1. TypeOK /\ SInv => SplitIsLate
  <2> SUFFICES ASSUME TypeOK, SInv, NEW s \in Serving, NEW t \in Serving, s < t
               PROVE  late > 0 /\ (Len(joined[s]) = 1 \/ Doomed(s))
    BY DEF SplitIsLate
  <2>1. /\ 0 \in Server /\ Server \subseteq Nat /\ scenario.backups \in 1 .. Backups
    BY ScenarioTyped, FailoverAssumption DEF TypeOK, BoundsTyped, Server
  <2>2. s \in Server /\ t \in Server /\ Reigns(s) /\ Reigns(t) /\ Up(s) /\ Up(t)
    BY DEF Serving, Listening, Reigns, Up
  <2>3. t \in {1, 2} /\ s \in {0, 1} /\ (t = 2 => master[2] = 1 /\ joined[1] = <<2>>)
    BY <2>1, <2>2 DEF SInv, Roles
  <2>4. CASE s = 0
    <3>1. late > 0 /\ (scenario.backups = 1 \/ 0 \notin linked[t])
      BY <2>2, <2>3, <2>4 DEF SInv, GivenUpLate
    <3>2. t = 2 => scenario.backups >= 2
      BY <2>2, <2>3 DEF SInv, Ring
    <3>3. t \in 1 .. scenario.backups
      BY <2>1, <2>3, <3>2
    <3>4. t \in Range(joined[0]) /\ Len(joined[0]) = scenario.backups
      BY <2>1, <3>3 DEF SInv, Ring, Range
    <3>5. QED BY <2>4, <3>1, <3>4 DEF Doomed, HasLeft
  <2>5. CASE s = 1
    <3>1. t = 2
      BY <2>3, <2>5
    <3>2. late > 0
      BY <2>2, <2>5, <3>1 DEF SInv, GivenUpLate
    <3>3. QED BY <2>3, <2>5, <3>1, <3>2
  <2>6. QED BY <2>3, <2>4, <2>5
<1>2. QED BY <1>1, InitTyped, StepTyped, InitSplit, StepSplit, PTL DEF Spec

-----------------------------------------------------------------------------
\* What a step leaves to backup b
Same(b) ==
    /\ server[b] = "follows" /\ master'[b] = master[b] /\ linked'[b] = linked[b]
    /\ half'[b] = half[b] /\ asked'[b] = asked[b] /\ stream'[b] = stream[b]

Owes(b) == asked[b] > 0 \/ \E k \in DOMAIN stream[b] : stream[b][k] = "KEEPALIVE"

\* Who wins and who follows a vote are backups of the master that is gone.
LEMMA Winners ==
    ASSUME TypeOK, NEW m \in Server, Len(joined[m]) > 1
    PROVE  joined[m][1] \in Range(joined[m]) /\ joined[m][2] \in Range(joined[m])
<1>1. joined[m] \in Seq(Server)
  BY Basics
<1>2. 1 \in DOMAIN joined[m] /\ 2 \in DOMAIN joined[m]
  BY <1>1, LenProperties
<1>3. QED BY <1>2 DEF Range

\* No server comes back from the dead, and a backup votes only in the step in
\* which it gives its master up.
LEMMA ServersGoOn ==
    ASSUME TypeOK, [Next]_vars
    PROVE  /\ \A s \in Server : Up(s)' => Up(s)
           /\ \A s \in Server : server[s] = "follows" /\ server'[s] \in {"votes", "elected"} =>
                 SeesEnd(s) \/ GivesUp(s)
<1> DEFINE Goal == /\ \A s \in Server : Up(s)' => Up(s)
                   /\ \A s \in Server : server[s] = "follows" /\ server'[s] \in {"votes", "elected"} =>
                         SeesEnd(s) \/ GivesUp(s)
<1>s. /\ server \in [Server -> {"follows", "votes", "stuck", "rejoins", "elected",
                                "starts", "announces", "master", "dead"}]
      /\ joined \in [Server -> Seq(Server)]
  BY Basics
<1>0. ASSUME UNCHANGED server PROVE Goal
  BY <1>0 DEF Up
<1>1. ASSUME NEW s \in Server, server[s] # "dead",
             \E r \in {"starts", "announces", "master", "dead"} : server' = [server EXCEPT ![s] = r]
      PROVE  Goal
  BY <1>s, <1>1 DEF Up
<1>2. ASSUME NEW s \in Server, Crashes(s) \/ LosesBackup(s) \/ Winner(s) PROVE Goal
  <2>1. CASE UNCHANGED server
    BY <1>0, <2>1
  <2>2. CASE ~UNCHANGED server
    BY <1>1, <1>2, <2>2 DEF Crashes, LosesBackup, Winner, Launches, Handshakes, Dies, Up
  <2>3. QED BY <2>1, <2>2
<1>3. ASSUME NEW s \in Server, NEW c \in Client, Routes(s, c) \/ Serves(s, c) PROVE Goal
  <2>1. CASE UNCHANGED server
    BY <1>0, <2>1
  <2>2. CASE ~UNCHANGED server
    BY <1>1, <1>3, <2>2 DEF Routes, Serves, Dies, Up
  <2>3. QED BY <2>1, <2>2
<1>4. ASSUME NEW s \in Server, SeesEnd(s) \/ GivesUp(s) PROVE Goal
  <2>1. \A t \in Server : t # s => server'[t] = server[t]
    BY <1>s, <1>4 DEF SeesEnd, GivesUp, Votes
  <2>2. Up(s)
    BY <1>4 DEF SeesEnd, GivesUp, Votes, Up
  <2>3. QED BY <1>4, <2>1, <2>2 DEF Up
<1>5. ASSUME NEW m \in Server, Decides(m) PROVE Goal
  <2>1. /\ \A b \in Range(joined[m]) : server[b] = "votes"
        /\ \A b \in Server \ Range(joined[m]) : server'[b] = server[b]
    <3>1. joined[m][1] \in Range(joined[m]) /\ joined[m][2] \in Range(joined[m])
      BY <1>5, Winners DEF Decides
    <3>2. QED BY <1>5, <3>1 DEF Decides
  <2>2. ASSUME NEW s \in Server PROVE Up(s)' => Up(s)
    BY <2>1 DEF Up
  <2>3. ASSUME NEW s \in Server, server[s] = "follows" PROVE server'[s] = "follows"
    BY <2>1, <2>3
  <2>4. QED BY <2>2, <2>3
<1>6. ASSUME NEW b \in Server, Rejoins(b) PROVE Goal
  <2>1. /\ server[b] = "rejoins"
        /\ \A t \in Server : t # b => server'[t] = server[t]
    BY <1>s, <1>6 DEF Rejoins, Dies
  <2>2. QED BY <2>1 DEF Up
<1>7. ASSUME NEW s \in Server, Reads(s) \/ Asks(s) \/ Answers(s) \/ Replicates(s) \/ Accepts(s)
      PROVE  Goal
  BY <1>0, <1>7 DEF Reads, Asks, Answers, Replicates, Accepts
<1>8. ASSUME NEW c \in Client, NEW p \in {"REQUEST", "LOGOUT"},
             \/ Dials(c) \/ LogsIn(c) \/ Udp(c) \/ Types(c, p)
             \/ EndsInput(c) \/ Sends(c) \/ Leaves(c) \/ Exits(c)
      PROVE  Goal
  BY <1>0, <1>8 DEF Dials, LogsIn, Udp, ListensUdp, OpensSocket, Connects, LogsInAgain, Types,
                    EndsInput, Sends, Leaves, Exits, ServerSide
<1>9. CASE UNCHANGED vars
  BY <1>0, <1>9 DEF vars
<1>10. QED
  BY <1>2, <1>3, <1>4, <1>5, <1>6, <1>7, <1>8, <1>9 DEF Next, Backup

\* A backup that the step leaves alone owes what it owed.
LEMMA SameOwes ==
    ASSUME TypeOK, HalfOwes, NEW b \in Server, \A s \in Server : Up(s)' => Up(s),
           server'[b] = "follows" => Same(b)
    PROVE  Waits(b)' => Owes(b)'
<1> SUFFICES ASSUME Waits(b)' PROVE Owes(b)'
  OBVIOUS
<1>1. Same(b)
  BY DEF Waits
<1>2. master[b] \in Server
  BY Basics
<1>3. Waits(b)
  BY <1>1, <1>2 DEF Same, Waits
<1>4. QED BY <1>1, <1>3 DEF Same, HalfOwes, Owes

\* No step takes an unanswered keepalive away from a backup that waits for it:
\* the answer goes into the stream, and the first packet read ends the wait.
LEMMA StepOwes ==
    ASSUME TypeOK, HalfOwes, [Next]_vars
    PROVE  HalfOwes'
<1> SUFFICES ASSUME NEW b \in Server PROVE Waits(b)' => Owes(b)'
  BY DEF HalfOwes, Owes
<1> USE DEF backupVars, clientVars, routerVars, bounds
<1>s. \A s \in Server : Up(s)' => Up(s)
  BY ServersGoOn
<1>t. /\ server \in [Server -> {"follows", "votes", "stuck", "rejoins", "elected",
                                "starts", "announces", "master", "dead"}]
      /\ half \in [Server -> BOOLEAN] /\ asked \in [Server -> Nat]
      /\ stream \in [Server -> Seq(Address \cup {"KEEPALIVE"})]
      /\ master \in [Server -> Server] /\ joined \in [Server -> Seq(Server)]
      /\ linked \in [Server -> SUBSET Server]
  BY DEF TypeOK, ServersTyped
<1>f. ASSUME server'[b] = "follows" => Same(b) PROVE Waits(b)' => Owes(b)'
  BY <1>f, <1>s, SameOwes
<1>0. CASE UNCHANGED vars
  BY <1>0, <1>f DEF vars, Same
<1>1. ASSUME NEW s \in Server, Crashes(s) \/ LosesBackup(s) \/ Winner(s) PROVE server'[b] = "follows" => Same(b)
  BY <1>1, <1>t DEF Crashes, LosesBackup, Winner, Launches, Handshakes, Dies, Same
<1>2. ASSUME NEW s \in Server, NEW c \in Client, Routes(s, c) \/ Serves(s, c)
      PROVE  server'[b] = "follows" => Same(b)
  BY <1>2, <1>t DEF Routes, Serves, Dies, Same
<1>3. ASSUME NEW s \in Server, SeesEnd(s) \/ GivesUp(s) PROVE server'[b] = "follows" => Same(b)
  <2>1. /\ s = b => server'[b] # "follows"
        /\ s # b => server'[b] = server[b] /\ linked'[b] = linked[b]
    BY <1>3, <1>t DEF SeesEnd, GivesUp, Votes
  <2>2. UNCHANGED <<master, half, asked, stream>>
    BY <1>3 DEF SeesEnd, GivesUp
  <2>3. QED BY <2>1, <2>2 DEF Same
<1>4. ASSUME NEW m \in Server, Decides(m) PROVE server'[b] = "follows" => Same(b)
  <2>1. joined[m][1] \in Range(joined[m]) /\ joined[m][2] \in Range(joined[m])
    BY <1>4, Winners DEF Decides
  <2>2. b \in Range(joined[m]) => server'[b] # "follows"
    BY <1>4, <2>1 DEF Decides
  <2>3. b \notin Range(joined[m]) => server'[b] = server[b] /\ master'[b] = master[b]
    BY <1>4, <1>t, <2>1 DEF Decides
  <2>4. UNCHANGED <<linked, half, asked, stream>>
    BY <1>4 DEF Decides
  <2>5. QED BY <2>2, <2>3, <2>4 DEF Same
<1>5. ASSUME NEW s \in Server, Rejoins(s) PROVE Waits(b)' => Owes(b)'
  <2>1. CASE s # b
    <3>1. UNCHANGED master /\ server'[b] = server[b] /\ linked'[b] = linked[b] /\ half'[b] = half[b]
          /\ asked'[b] = asked[b] /\ stream'[b] = stream[b]
      BY <1>5, <1>t, <2>1 DEF Rejoins, Dies
    <3>2. QED BY <3>1, <1>f DEF Same
  <2>2. CASE s = b
    <3>1. server'[b] = "dead" \/ half'[b] = FALSE
      BY <1>5, <1>t, <2>2 DEF Rejoins, Dies
    <3>2. QED BY <3>1 DEF Waits
  <2>3. QED BY <2>1, <2>2
<1>6. ASSUME NEW s \in Server, Reads(s) PROVE Waits(b)' => Owes(b)'
  <2>1. CASE s # b
    BY <1>6, <1>t, <2>1, <1>f DEF Reads, Same
  <2>2. CASE s = b
    BY <1>6, <1>t, <2>2 DEF Reads, Waits
  <2>3. QED BY <2>1, <2>2
<1>7. ASSUME NEW s \in Server, Asks(s) PROVE Waits(b)' => Owes(b)'
  <2>1. CASE s # b
    BY <1>7, <1>t, <2>1, <1>f DEF Asks, Same
  <2>2. CASE s = b
    BY <1>7, <1>t, <2>2 DEF Asks, Owes
  <2>3. QED BY <2>1, <2>2
<1>8. ASSUME NEW s \in Server, Answers(s) PROVE Waits(b)' => Owes(b)'
  <2>1. CASE s # b
    BY <1>8, <1>t, <2>1, <1>f DEF Answers, Same
  <2>2. CASE s = b
    <3>1. stream'[b] = Append(stream[b], "KEEPALIVE")
      BY <1>8, <1>t, <2>2 DEF Answers
    <3>2. /\ Len(stream[b]) + 1 \in DOMAIN stream'[b]
          /\ stream'[b][Len(stream[b]) + 1] = "KEEPALIVE"
      BY <1>t, <3>1
    <3>3. QED BY <3>2 DEF Owes
  <2>3. QED BY <2>1, <2>2
<1>9. ASSUME NEW s \in Server, Replicates(s) PROVE Waits(b)' => Owes(b)'
  <2>1. UNCHANGED <<server, master, linked, half, asked>>
    BY <1>9 DEF Replicates
  <2>2. stream'[b] = stream[b] \/ stream'[b] = Append(stream[b], router[s].address)
    BY <1>9, <1>t DEF Replicates
  <2>3. router[s].address \in Address
    BY <1>9 DEF Replicates, TypeOK, ServersTyped
  <2>4. Owes(b) => Owes(b)'
    <3>1. ASSUME NEW k \in DOMAIN stream[b], stream[b][k] = "KEEPALIVE"
          PROVE  k \in DOMAIN stream'[b] /\ stream'[b][k] = "KEEPALIVE"
      <4>1. stream[b] \in Seq(Address \cup {"KEEPALIVE"}) /\ router[s].address \in Address \cup {"KEEPALIVE"}
        BY <1>t, <2>3
      <4>2. k \in 1 .. Len(stream[b])
        BY <3>1, <4>1
      <4>3. CASE stream'[b] = stream[b]
        BY <3>1, <4>3
      <4>4. CASE stream'[b] = Append(stream[b], router[s].address)
        BY <3>1, <4>1, <4>2, <4>4
      <4>5. QED BY <2>2, <4>3, <4>4
    <3>2. QED BY <2>1, <3>1 DEF Owes
  <2>5. Waits(b)' => Waits(b)
    BY <2>1 DEF Waits, Up
  <2>6. QED BY <2>4, <2>5 DEF HalfOwes, Owes
<1>10. ASSUME NEW s \in Server, Accepts(s) PROVE server'[b] = "follows" => Same(b)
  BY <1>10 DEF Accepts, Same
<1>11. ASSUME NEW c \in Client, NEW p \in {"REQUEST", "LOGOUT"},
              \/ Dials(c) \/ LogsIn(c) \/ Udp(c) \/ Types(c, p)
              \/ EndsInput(c) \/ Sends(c) \/ Leaves(c) \/ Exits(c)
       PROVE  server'[b] = "follows" => Same(b)
  BY <1>11 DEF Dials, LogsIn, Udp, ListensUdp, OpensSocket, Connects, LogsInAgain, Types,
               EndsInput, Sends, Leaves, Exits, ServerSide, Same
<1>12. QED
  BY <1>f, <1>0, <1>1, <1>2, <1>3, <1>4, <1>5, <1>6, <1>7, <1>8, <1>9, <1>10, <1>11
     DEF Next, Backup

\* A master that is alive is given up only by a backup that it owes a keepalive.
THEOREM GivenUpOwed == Spec => GivenUpOwingAnswer
<1>1. Init => HalfOwes
  BY DEF Init, HalfOwes, Waits
<1>2. TypeOK /\ HalfOwes /\ [Next]_vars =>
         [\A b \in Server : Up(master[b]) /\ master[b] \in linked[b] /\ server[b] = "follows"
                           /\ server'[b] \in {"votes", "elected"} => asked[b] > 0]_vars
  <2> SUFFICES ASSUME TypeOK, HalfOwes, [Next]_vars, NEW b \in Server,
                      Up(master[b]), master[b] \in linked[b], server[b] = "follows",
                      server'[b] \in {"votes", "elected"}
               PROVE  asked[b] > 0
    OBVIOUS
  <2>1. GivesUp(b)
    BY ServersGoOn DEF SeesEnd
  <2>2. Waits(b) /\ stream[b] = << >>
    BY <2>1 DEF Waits, GivesUp, Votes
  <2>3. QED BY <2>2 DEF HalfOwes
<1>3. QED
  BY <1>1, <1>2, InitTyped, StepTyped, StepOwes, PTL DEF Spec, GivenUpOwingAnswer

-----------------------------------------------------------------------------
(* What the backups know of the clients.                                   *)

Known(a, b) == a \in users[b] \/ (server[b] = "follows" /\ a \in Range(stream[b]))

\* Something is claimed of backup b
Claimed(b) ==
    /\ master[b] = 0 /\ Up(b) /\ late = 0 /\ lost = 0
    /\ \A d \in 1 .. scenario.backups : d < b => Up(d)

\* How many backups the login at the first master has still to be sent to
Places == Len(router[0].left)

\* Handshakes are sent by others, and connections closed once a master is given up
NotTold == \A c \in Client : told[c] # 0
StillLinked == \A b \in 1 .. scenario.backups : Up(0) /\ late = 0 /\ Up(b) => 0 \in linked[b]
NoneStuck == \A b \in Server : Up(0) /\ late = 0 => server[b] # "stuck"

AcceptedSent ==
    \A c \in Client, b \in 1 .. scenario.backups :
        <<0, c>> \in accepted /\ Claimed(b) => Known(HostOf(c), b)

\* The login that is being forwarded has come to the backups before its place
RoutedSent ==
    router[0] # None =>
        /\ lost = 0 => router[0].address = HostOf(router[0].client)
        /\ Places <= scenario.backups
        /\ \A i \in 1 .. Places : router[0].left[i] = scenario.backups - Places + i
        /\ \A b \in 1 .. scenario.backups :
              Claimed(b) => Known(router[0].address, b) \/ b > scenario.backups - Places

KInv == NotTold /\ StillLinked /\ NoneStuck /\ AcceptedSent /\ RoutedSent

\* What the lemmas below need of the types.
LEMMA MoreBasics ==
    ASSUME TypeOK
    PROVE  /\ stream \in [Server -> Seq(Address \cup {"KEEPALIVE"})]
           /\ users \in [Server -> SUBSET Address]
           /\ router \in [Server -> [client : Client, address : Address, left : Seq(Server)] \cup {None}]
           /\ told \in [Client -> Server \cup {None}]
           /\ lost \in Nat /\ \A c \in Client : HostOf(c) \in Host
           /\ None \notin Server /\ None \notin Host /\ "KEEPALIVE" \notin Host
<1>1. /\ scenario.hostOf \in [Client \cup Server -> Host] /\ scenario.lost \in Nat
  BY ScenarioTyped DEF TypeOK, BoundsTyped
<1>2. lost \in Nat
  BY <1>1 DEF TypeOK, BoundsTyped
<1>3. QED BY <1>1, <1>2, FailoverAssumption DEF TypeOK, ServersTyped, ClientsTyped, HostOf

\* A packet is at the end of the stream it is appended to, and nothing else changes.
LEMMA RangeAppend ==
    ASSUME NEW S, NEW q \in Seq(S), NEW x \in S
    PROVE  x \in Range(Append(q, x)) /\ \A a \in Range(q) : a \in Range(Append(q, x))
<1>1. /\ Append(q, x) \in Seq(S) /\ Len(Append(q, x)) = Len(q) + 1
      /\ \A k \in 1 .. Len(q) : Append(q, x)[k] = q[k]
      /\ Append(q, x)[Len(q) + 1] = x
  BY AppendProperties
<1>2. DOMAIN q = 1 .. Len(q) /\ DOMAIN Append(q, x) = 1 .. Len(q) + 1 /\ Len(q) \in Nat
  BY <1>1, LenProperties
<1>3. QED BY <1>1, <1>2 DEF Range

\* A packet that is read was the first, the others are still there.
LEMMA RangeTail ==
    ASSUME NEW S, NEW q \in Seq(S), q # << >>, NEW a \in Range(q)
    PROVE  a = Head(q) \/ a \in Range(Tail(q))
<1>1. /\ Tail(q) \in Seq(S) /\ Len(Tail(q)) = Len(q) - 1
      /\ \A i \in 1 .. Len(Tail(q)) : Tail(q)[i] = q[i + 1]
      /\ Head(q) = q[1]
  BY HeadTailProperties
<1>2. DOMAIN q = 1 .. Len(q) /\ DOMAIN Tail(q) = 1 .. Len(q) - 1 /\ Len(q) \in Nat
  BY <1>1, LenProperties
<1>3. PICK k \in 1 .. Len(q) : q[k] = a
  BY <1>2 DEF Range
<1>4. CASE k = 1
  BY <1>1, <1>3, <1>4
<1>5. CASE k # 1
  <2>1. k - 1 \in 1 .. Len(q) - 1 /\ Tail(q)[k - 1] = a
    BY <1>1, <1>2, <1>3, <1>5
  <2>2. QED BY <1>2, <2>1 DEF Range
<1>6. QED BY <1>4, <1>5

\* What happened stays, and nobody gets the first master back.
LEMMA ClaimShrinks ==
    ASSUME TypeOK, SInv, [Next]_vars
    PROVE  /\ scenario' = scenario
           /\ \A b \in 1 .. scenario.backups : Claimed(b)' => Claimed(b)
           /\ late' = 0 => late = 0
           /\ lost' = 0 => lost = 0
           /\ Up(0)' => Up(0)
<1> USE DEF backupVars, clientVars, routerVars, bounds
<1> DEFINE Grows == scenario' = scenario /\ late' \in {late, late + 1} /\ lost' \in {lost, lost + 1}
           Keeps == master' = master
<1>a. ASSUME NEW s \in Server, Crashes(s) \/ LosesBackup(s) \/ Backup(s) \/ GivesUp(s)
      PROVE  Grows /\ Keeps
  BY <1>a DEF Crashes, LosesBackup, Backup, Reads, Asks, Answers, SeesEnd, Rejoins, GivesUp
<1>b. ASSUME NEW s \in Server, Winner(s) \/ Replicates(s) \/ Accepts(s) PROVE Grows /\ Keeps
  BY <1>b DEF Winner, Launches, Handshakes, Replicates, Accepts
<1>c. ASSUME NEW s \in Server, NEW c \in Client, Routes(s, c) \/ Serves(s, c) PROVE Grows /\ Keeps
  BY <1>c DEF Routes, Serves
<1>d. ASSUME NEW c \in Client, NEW p \in {"REQUEST", "LOGOUT"},
             \/ Dials(c) \/ LogsIn(c) \/ Udp(c) \/ Types(c, p)
             \/ EndsInput(c) \/ Sends(c) \/ Leaves(c) \/ Exits(c)
      PROVE  Grows /\ Keeps
  BY <1>d DEF Dials, LogsIn, Udp, ListensUdp, OpensSocket, Connects, LogsInAgain, Types,
              EndsInput, Sends, Leaves, Exits, ServerSide
<1>e. ASSUME NEW m \in Server, Decides(m) PROVE Grows
  BY <1>e DEF Decides
<1>f. ASSUME UNCHANGED vars PROVE Grows /\ Keeps
  BY <1>f DEF vars
<1>1. Grows
  BY <1>a, <1>b, <1>c, <1>d, <1>e, <1>f DEF Next
<1>2. late \in Nat /\ lost \in Nat
  BY Basics, MoreBasics
<1>3. ASSUME NEW m \in Server, Decides(m), NEW b \in Server, master'[b] = 0 PROVE master[b] = 0
  <2>1. joined[m][1] \in Range(joined[m])
    BY <1>3, Winners DEF Decides
  <2>2. joined[m][1] # 0
    BY <1>3, <2>1 DEF Decides, SInv, Roles
  <2>3. QED BY <1>3, <2>2, Basics DEF Decides
<1>4. (\E m \in Server : Decides(m)) \/ Keeps
  BY <1>a, <1>b, <1>c, <1>d, <1>f DEF Next
<1>5. \A b \in Server : master'[b] = 0 => master[b] = 0
  BY <1>3, <1>4
<1>6. /\ \A b \in Server : Up(b)' => Up(b)
      /\ 0 \in Server /\ \A b \in 1 .. scenario.backups : b \in Server
  BY ServersGoOn, Basics
<1>7. late' = 0 => late = 0
  BY <1>1, <1>2
<1>8. lost' = 0 => lost = 0
  BY <1>1, <1>2
<1>9. QED BY <1>1, <1>5, <1>6, <1>7, <1>8 DEF Claimed
\* What a backup knows it does not forget.
LEMMA KnownStays ==
    ASSUME TypeOK, SInv, [Next]_vars, NEW a \in Host, NEW b \in 1 .. scenario.backups,
           Claimed(b)', Known(a, b)
    PROVE  Known(a, b)'
<1> USE DEF backupVars, clientVars, routerVars, bounds
<1>s. /\ b \in Server /\ Claimed(b) /\ a # "KEEPALIVE"
      /\ server \in [Server -> {"follows", "votes", "stuck", "rejoins", "elected",
                                "starts", "announces", "master", "dead"}]
      /\ joined \in [Server -> Seq(Server)]
      /\ stream \in [Server -> Seq(Address \cup {"KEEPALIVE"})] /\ users \in [Server -> SUBSET Address]
  BY Basics, MoreBasics, ClaimShrinks
<1>u. Up(b)' /\ Up(b) /\ master[b] = 0
  BY <1>s DEF Claimed
<1>f. ASSUME users'[b] = users[b], server'[b] = server[b] \/ server'[b] = "dead" \/ server[b] # "follows",
             stream'[b] = stream[b]
      PROVE  Known(a, b)'
  BY <1>f, <1>u DEF Known, Up
<1>0. CASE UNCHANGED vars
  BY <1>0, <1>f DEF vars
<1>1. ASSUME NEW s \in Server, Crashes(s) \/ LosesBackup(s) \/ Winner(s) \/ Asks(s) \/ Accepts(s)
      PROVE  Known(a, b)'
  <2>1. UNCHANGED <<users, stream>>
    BY <1>1 DEF Crashes, LosesBackup, Winner, Launches, Handshakes, Asks, Accepts
  <2>2. server'[b] = server[b] \/ server'[b] = "dead" \/ server[b] # "follows"
    BY <1>1, <1>s DEF Crashes, LosesBackup, Dies, Winner, Launches, Handshakes, Asks, Accepts
  <2>3. QED BY <1>f, <2>1, <2>2
<1>2. ASSUME NEW s \in Server, NEW c \in Client, Routes(s, c) \/ Serves(s, c) PROVE Known(a, b)'
  <2>1. UNCHANGED <<users, stream>>
    BY <1>2 DEF Routes, Serves
  <2>2. server'[b] = server[b] \/ server'[b] = "dead"
    BY <1>2, <1>s DEF Routes, Serves, Dies
  <2>3. QED BY <1>f, <2>1, <2>2
<1>3. ASSUME NEW s \in Server, SeesEnd(s) \/ GivesUp(s) PROVE Known(a, b)'
  <2>1. UNCHANGED <<users, stream>> /\ (s # b => server'[b] = server[b]) /\ stream[s] = << >>
    BY <1>3, <1>s DEF SeesEnd, GivesUp, Votes
  <2>2. s = b => a \in users[b]
    BY <2>1 DEF Known, Range
  <2>3. QED BY <1>f, <2>1, <2>2 DEF Known
<1>4. ASSUME NEW m \in Server, Decides(m) PROVE Known(a, b)'
  <2>1. UNCHANGED <<users, stream>>
    BY <1>4 DEF Decides
  <2>2. joined[m][1] \in Range(joined[m]) /\ joined[m][2] \in Range(joined[m])
    BY <1>4, Winners DEF Decides
  <2>3. server'[b] = server[b] \/ server[b] # "follows"
    BY <1>4, <1>s, <2>2 DEF Decides
  <2>4. QED BY <1>f, <2>1, <2>3
<1>5. ASSUME NEW s \in Server, Rejoins(s) PROVE Known(a, b)'
  <2>1. s # b
    BY <1>5, <1>s, <1>u DEF SInv, Roles, Rejoins
  <2>2. users'[b] = users[b] /\ stream'[b] = stream[b] /\ server'[b] = server[b]
    BY <1>5, <1>s, <2>1 DEF Rejoins, Dies
  <2>3. QED BY <1>f, <2>2
<1>6. ASSUME NEW s \in Server, Reads(s) PROVE Known(a, b)'
  <2>1. CASE s # b
    <3>1. users'[b] = users[b] /\ stream'[b] = stream[b] /\ server'[b] = server[b]
      BY <1>6, <1>s, <2>1 DEF Reads
    <3>2. QED BY <1>f, <3>1
  <2>2. CASE s = b
    <3>1. /\ users'[b] = users[b] \cup ({Head(stream[b])} \ {"KEEPALIVE"})
          /\ stream'[b] = Tail(stream[b]) /\ server' = server
          /\ server[b] = "follows" /\ stream[b] # << >>
      BY <1>6, <1>s, <2>2 DEF Reads
    <3>2. a \in Range(stream[b]) => a = Head(stream[b]) \/ a \in Range(Tail(stream[b]))
      BY <1>s, <3>1, RangeTail
    <3>3. QED BY <1>s, <3>1, <3>2 DEF Known
  <2>3. QED BY <2>1, <2>2
<1>7. ASSUME NEW s \in Server, Answers(s) \/ Replicates(s) PROVE Known(a, b)'
  <2>1. UNCHANGED <<users, server>>
    BY <1>7 DEF Answers, Replicates
  <2>2. stream'[b] = stream[b] \/ \E x \in Address \cup {"KEEPALIVE"} : stream'[b] = Append(stream[b], x)
    <3>1. CASE Answers(s)
      BY <1>s, <3>1 DEF Answers
    <3>2. CASE Replicates(s)
      <4>1. router[s].address \in Address
        BY <3>2, MoreBasics DEF Replicates
      <4>2. QED BY <1>s, <3>2, <4>1, ZenonT(30) DEF Replicates
    <3>3. QED BY <1>7, <3>1, <3>2
  <2>3. a \in Range(stream[b]) => a \in Range(stream'[b])
    BY <1>s, <2>2, RangeAppend
  <2>4. QED BY <2>1, <2>3 DEF Known
<1>8. ASSUME NEW c \in Client, NEW p \in {"REQUEST", "LOGOUT"},
             \/ Dials(c) \/ LogsIn(c) \/ Udp(c) \/ Types(c, p)
             \/ EndsInput(c) \/ Sends(c) \/ Leaves(c) \/ Exits(c)
      PROVE  Known(a, b)'
  <2>1. UNCHANGED <<users, stream, server>>
    BY <1>8 DEF Dials, LogsIn, Udp, ListensUdp, OpensSocket, Connects, LogsInAgain, Types,
                EndsInput, Sends, Leaves, Exits, ServerSide
  <2>2. QED BY <1>f, <2>1
<1>9. QED
  BY <1>0, <1>1, <1>2, <1>3, <1>4, <1>5, <1>6, <1>7, <1>8 DEF Next, Backup

\* At first nobody is logged in.
LEMMA InitKnown == Init => KInv
<1> SUFFICES ASSUME Init PROVE KInv
  OBVIOUS
<1>t. TypeOK
  BY InitTyped
<1>1. 0 \in Server /\ None # 0 /\ \A b \in 1 .. scenario.backups : b \in Server
  BY <1>t, Basics, MoreBasics
<1>2. /\ told = [c \in Client |-> None] /\ linked = [s \in Server |-> {0}]
      /\ accepted = {} /\ router = [s \in Server |-> None]
  BY DEF Init, First
<1>3. \A b \in Server : server[b] # "stuck"
  BY DEF Init
<1>4. NotTold
  BY <1>1, <1>2 DEF NotTold
<1>5. StillLinked
  BY <1>1, <1>2 DEF StillLinked
<1>6. AcceptedSent /\ RoutedSent
  BY <1>1, <1>2 DEF AcceptedSent, RoutedSent
<1>7. QED BY <1>3, <1>4, <1>5, <1>6 DEF KInv, NoneStuck

\* The first master never sends a SERVER_HANDSHAKE.
LEMMA NotToldStays ==
    ASSUME TypeOK, SInv, NotTold, [Next]_vars
    PROVE  NotTold'
<1> USE DEF backupVars, clientVars, routerVars, bounds
<1>0. ASSUME UNCHANGED told PROVE NotTold'
  BY <1>0 DEF NotTold
<1>1. ASSUME NEW s \in Server, Handshakes(s) PROVE NotTold'
  <2>1. s # 0
    BY <1>1 DEF Handshakes, SInv, Roles
  <2>2. told' = told \/ \E D \in SUBSET Client : told' = [c \in Client |-> IF c \in D THEN s ELSE told[c]]
    <3>1. \A a : {c \in Client : udp[c] = "listens" /\ HostOf(c) = a} \in SUBSET Client
      OBVIOUS
    <3>2. QED BY <1>1, <3>1 DEF Handshakes
  <2>3. QED BY <2>1, <2>2 DEF NotTold
<1>2. ASSUME NEW s \in Server, Crashes(s) \/ LosesBackup(s) \/ Decides(s) \/ Backup(s) \/ GivesUp(s)
      PROVE  UNCHANGED told
  BY <1>2 DEF Crashes, LosesBackup, Decides, Backup, Reads, Asks, Answers, SeesEnd, Rejoins, GivesUp
<1>3. ASSUME NEW s \in Server, Launches(s) \/ Replicates(s) \/ Accepts(s) PROVE UNCHANGED told
  BY <1>3 DEF Launches, Replicates, Accepts
<1>4. ASSUME NEW s \in Server, NEW c \in Client, Routes(s, c) \/ Serves(s, c) PROVE UNCHANGED told
  BY <1>4 DEF Routes, Serves
<1>5. ASSUME NEW c \in Client, NEW p \in {"REQUEST", "LOGOUT"},
             \/ Dials(c) \/ LogsIn(c) \/ Udp(c) \/ Types(c, p)
             \/ EndsInput(c) \/ Sends(c) \/ Leaves(c) \/ Exits(c)
      PROVE  UNCHANGED told
  BY <1>5 DEF Dials, LogsIn, Udp, ListensUdp, OpensSocket, Connects, LogsInAgain, Types,
              EndsInput, Sends, Leaves, Exits
<1>6. ASSUME UNCHANGED vars PROVE UNCHANGED told
  BY <1>6 DEF vars
<1>7. QED BY <1>0, <1>1, <1>2, <1>3, <1>4, <1>5, <1>6 DEF Next, Winner

\* Nobody closes its connection to the first master, unless it gave it up.
LEMMA StillLinkedStays ==
    ASSUME TypeOK, SInv, StillLinked, [Next]_vars
    PROVE  StillLinked'
<1> USE DEF backupVars, clientVars, routerVars, bounds
<1> SUFFICES ASSUME NEW b \in 1 .. scenario.backups, Up(0)', late' = 0, Up(b)' PROVE 0 \in linked'[b]
  BY ClaimShrinks DEF StillLinked
<1>1. /\ Up(0) /\ late = 0 /\ Up(b) /\ b \in Server
      /\ linked \in [Server -> SUBSET Server] /\ master \in [Server -> Server]
  BY Basics, ClaimShrinks, ServersGoOn
<1>2. 0 \in linked[b]
  BY <1>1 DEF StillLinked
<1>3. ASSUME NEW s \in Server, SeesEnd(s) \/ GivesUp(s) PROVE 0 \in linked'[b]
  <2>1. SeesEnd(s) /\ ~Up(master[s])
    BY <1>1, <1>3, Basics DEF SeesEnd, GivesUp
  <2>2. master[s] # 0
    BY <1>1, <2>1
  <2>3. QED BY <1>1, <1>2, <2>1, <2>2 DEF SeesEnd, Votes
<1>4. ASSUME NEW s \in Server, Rejoins(s) PROVE 0 \in linked'[b]
  BY <1>1, <1>2, <1>4 DEF Rejoins
<1>5. ASSUME NEW s \in Server, \/ Crashes(s) \/ LosesBackup(s) \/ Decides(s) \/ Reads(s) \/ Asks(s)
                               \/ Answers(s) \/ Winner(s) \/ Replicates(s) \/ Accepts(s)
      PROVE  UNCHANGED linked
  BY <1>5 DEF Crashes, LosesBackup, Decides, Reads, Asks, Answers, Winner, Launches, Handshakes,
              Replicates, Accepts
<1>6. ASSUME NEW s \in Server, NEW c \in Client, Routes(s, c) \/ Serves(s, c) PROVE UNCHANGED linked
  BY <1>6 DEF Routes, Serves
<1>7. ASSUME NEW c \in Client, NEW p \in {"REQUEST", "LOGOUT"},
             \/ Dials(c) \/ LogsIn(c) \/ Udp(c) \/ Types(c, p)
             \/ EndsInput(c) \/ Sends(c) \/ Leaves(c) \/ Exits(c)
      PROVE  UNCHANGED linked
  BY <1>7 DEF Dials, LogsIn, Udp, ListensUdp, OpensSocket, Connects, LogsInAgain, Types,
              EndsInput, Sends, Leaves, Exits, ServerSide
<1>8. ASSUME UNCHANGED vars PROVE UNCHANGED linked
  BY <1>8 DEF vars
<1>9. QED BY <1>2, <1>3, <1>4, <1>5, <1>6, <1>7, <1>8 DEF Next, Backup

\* Nobody has lost a vote, unless the first master is gone or was given up.
LEMMA NoneStuckStays ==
    ASSUME TypeOK, SInv, NoneStuck, [Next]_vars
    PROVE  NoneStuck'
<1> USE DEF backupVars, clientVars, routerVars, bounds
<1> SUFFICES ASSUME NEW b \in Server, Up(0)', late' = 0, server'[b] = "stuck" PROVE FALSE
  BY DEF NoneStuck
<1>s. /\ Up(0) /\ late = 0 /\ 0 \in Server
      /\ server \in [Server -> {"follows", "votes", "stuck", "rejoins", "elected",
                                "starts", "announces", "master", "dead"}]
  BY Basics, ClaimShrinks
<1>v. server[b] \notin {"stuck", "votes"}
  BY <1>s DEF NoneStuck, SInv, Roles, GivenUpLate
<1>1. ASSUME NEW s \in Server, \/ Crashes(s) \/ LosesBackup(s) \/ Backup(s) \/ GivesUp(s)
                               \/ Winner(s) \/ Replicates(s) \/ Accepts(s)
      PROVE  FALSE
  <2>1. CASE Crashes(s) \/ LosesBackup(s) \/ Replicates(s) \/ Accepts(s)
    BY <1>s, <1>v, <2>1 DEF Crashes, LosesBackup, Dies, Replicates, Accepts
  <2>2. CASE Reads(s) \/ Asks(s) \/ Answers(s) \/ Rejoins(s)
    BY <1>s, <1>v, <2>2 DEF Reads, Asks, Answers, Rejoins, Dies
  <2>3. CASE SeesEnd(s) \/ GivesUp(s)
    BY <1>s, <1>v, <2>3 DEF SeesEnd, GivesUp, Votes
  <2>4. CASE Winner(s)
    BY <1>s, <1>v, <2>4 DEF Winner, Launches, Handshakes
  <2>5. QED BY <1>1, <2>1, <2>2, <2>3, <2>4 DEF Backup
<1>2. ASSUME NEW m \in Server, Decides(m) PROVE FALSE
  <2>1. joined[m][1] \in Range(joined[m]) /\ joined[m][2] \in Range(joined[m])
    BY <1>2, Winners DEF Decides
  <2>2. b \in Range(joined[m])
    BY <1>2, <1>s, <1>v, <2>1 DEF Decides
  <2>3. QED BY <1>2, <1>v, <2>2 DEF Decides
<1>3. ASSUME NEW s \in Server, NEW c \in Client, Routes(s, c) \/ Serves(s, c) PROVE FALSE
  BY <1>3, <1>s, <1>v DEF Routes, Serves, Dies
<1>4. ASSUME NEW c \in Client, NEW p \in {"REQUEST", "LOGOUT"},
             \/ Dials(c) \/ LogsIn(c) \/ Udp(c) \/ Types(c, p)
             \/ EndsInput(c) \/ Sends(c) \/ Leaves(c) \/ Exits(c)
      PROVE  UNCHANGED server
  BY <1>4 DEF Dials, LogsIn, Udp, ListensUdp, OpensSocket, Connects, LogsInAgain, Types,
              EndsInput, Sends, Leaves, Exits, ServerSide
<1>5. ASSUME UNCHANGED vars PROVE UNCHANGED server
  BY <1>5 DEF vars
<1>6. QED BY <1>v, <1>1, <1>2, <1>3, <1>4, <1>5 DEF Next

\* A login that has gone through its broadcast is known to all that count.
LEMMA AcceptedStays ==
    ASSUME TypeOK, SInv, KInv, [Next]_vars
    PROVE  AcceptedSent'
<1> USE DEF backupVars, clientVars, routerVars, bounds
<1>s. /\ scenario' = scenario /\ \A c \in Client : HostOf(c) \in Host /\ HostOf(c)' = HostOf(c)
  BY ClaimShrinks, MoreBasics DEF HostOf
<1>k. ASSUME NEW c \in Client, NEW b \in 1 .. scenario.backups, Claimed(b)', Known(HostOf(c), b)
      PROVE  Known(HostOf(c), b)'
  BY <1>k, <1>s, KnownStays
<1>0. ASSUME UNCHANGED accepted PROVE AcceptedSent'
  <2> SUFFICES ASSUME NEW c \in Client, NEW b \in 1 .. scenario.backups, <<0, c>> \in accepted, Claimed(b)'
               PROVE  Known(HostOf(c), b)'
    BY <1>0, <1>s DEF AcceptedSent
  <2>1. Claimed(b)
    BY ClaimShrinks
  <2>2. QED BY <1>k, <2>1 DEF KInv, AcceptedSent
<1>1. ASSUME NEW s \in Server, Accepts(s) PROVE AcceptedSent'
  <2> SUFFICES ASSUME NEW c \in Client, NEW b \in 1 .. scenario.backups, <<0, c>> \in accepted', Claimed(b)'
               PROVE  Known(HostOf(c), b)'
    BY <1>s DEF AcceptedSent
  <2>1. Claimed(b)
    BY ClaimShrinks
  <2>2. CASE <<0, c>> \in accepted
    BY <1>k, <2>1, <2>2 DEF KInv, AcceptedSent
  <2>3. CASE <<0, c>> \notin accepted
    <3>1. s = 0 /\ c = router[0].client /\ router[0] # None /\ router[0].left = << >>
      BY <1>1, <2>3 DEF Accepts
    <3>2. Places = 0 /\ lost = 0
      BY <2>1, <3>1 DEF Places, Claimed
    <3>3. ~(b > scenario.backups - 0)
      BY Basics
    <3>4. Known(router[0].address, b) /\ router[0].address = HostOf(c)
      BY <2>1, <3>1, <3>2, <3>3 DEF KInv, RoutedSent
    <3>5. QED BY <1>k, <3>4
  <2>4. QED BY <2>2, <2>3
<1>2. ASSUME NEW s \in Server, Crashes(s) \/ LosesBackup(s) \/ Decides(s) \/ Backup(s) \/ GivesUp(s)
      PROVE  UNCHANGED accepted
  BY <1>2 DEF Crashes, LosesBackup, Decides, Backup, Reads, Asks, Answers, SeesEnd, Rejoins, GivesUp
<1>3. ASSUME NEW s \in Server, Winner(s) \/ Replicates(s) PROVE UNCHANGED accepted
  BY <1>3 DEF Winner, Launches, Handshakes, Replicates
<1>4. ASSUME NEW s \in Server, NEW c \in Client, Routes(s, c) \/ Serves(s, c) PROVE UNCHANGED accepted
  BY <1>4 DEF Routes, Serves
<1>5. ASSUME NEW c \in Client, NEW p \in {"REQUEST", "LOGOUT"},
             \/ Dials(c) \/ LogsIn(c) \/ Udp(c) \/ Types(c, p)
             \/ EndsInput(c) \/ Sends(c) \/ Leaves(c) \/ Exits(c)
      PROVE  UNCHANGED accepted
  BY <1>5 DEF Dials, LogsIn, Udp, ListensUdp, OpensSocket, Connects, LogsInAgain, Types,
              EndsInput, Sends, Leaves, Exits, ServerSide
<1>6. ASSUME UNCHANGED vars PROVE UNCHANGED accepted
  BY <1>6 DEF vars
<1>7. QED BY <1>0, <1>1, <1>2, <1>3, <1>4, <1>5, <1>6 DEF Next

\* The broadcast of a login goes through the backups in their order, and stops
\* short only where nothing is claimed of those behind.
LEMMA RoutedStays ==
    ASSUME TypeOK, SInv, KInv, [Next]_vars
    PROVE  RoutedSent'
<1> USE DEF backupVars, clientVars, routerVars, bounds
<1>s. /\ scenario' = scenario /\ \A c \in Client : HostOf(c) \in Host /\ HostOf(c)' = HostOf(c)
      /\ 0 \in Server /\ scenario.backups \in Nat
      /\ router \in [Server -> [client : Client, address : Address, left : Seq(Server)] \cup {None}]
      /\ joined \in [Server -> Seq(Server)]
  BY ClaimShrinks, Basics, MoreBasics DEF HostOf
<1>r. ASSUME router[0] # None
      PROVE  /\ router[0] \in [client : Client, address : Address, left : Seq(Server)]
             /\ Places \in Nat /\ Places <= scenario.backups
             /\ lost = 0 => router[0].address = HostOf(router[0].client)
             /\ \A i \in 1 .. Places : router[0].left[i] = scenario.backups - Places + i
             /\ \A b \in 1 .. scenario.backups :
                   Claimed(b) => Known(router[0].address, b) \/ b > scenario.backups - Places
  <2>1. router[0] \in [client : Client, address : Address, left : Seq(Server)]
    BY <1>r, <1>s
  <2>2. Places \in Nat
    BY <2>1 DEF Places
  <2>3. QED BY <1>r, <2>1, <2>2 DEF KInv, RoutedSent
<1>k. ASSUME router[0] # None, NEW a, a = router[0].address, NEW b \in 1 .. scenario.backups,
             Claimed(b)', Known(a, b)
      PROVE  Known(a, b)'
  <2>1. Claimed(b)
    BY <1>k, ClaimShrinks
  <2>2. a \in Host
    <3>1. lost = 0
      BY <2>1 DEF Claimed
    <3>2. a = HostOf(router[0].client)
      BY <1>k, <1>r, <3>1
    <3>3. router[0].client \in Client
      BY <1>k, <1>r
    <3>4. QED BY <1>s, <3>2, <3>3
  <2>3. QED BY <1>k, <2>2, KnownStays
<1>0. ASSUME router'[0] = router[0] PROVE RoutedSent'
  <2> SUFFICES ASSUME router[0] # None, NEW a, a = router[0].address
               PROVE  /\ lost' = 0 => a = HostOf(router[0].client)
                      /\ Places <= scenario.backups
                      /\ \A i \in 1 .. Places : router[0].left[i] = scenario.backups - Places + i
                      /\ \A b \in 1 .. scenario.backups :
                            Claimed(b)' => Known(a, b)' \/ b > scenario.backups - Places
    BY <1>0, <1>s, <1>r DEF RoutedSent, Places, HostOf, Known
  <2>1. lost' = 0 => lost = 0
    BY ClaimShrinks
  <2>2. ASSUME NEW b \in 1 .. scenario.backups, Claimed(b)'
        PROVE  Known(a, b)' \/ b > scenario.backups - Places
    BY <1>k, <1>r, <2>2, ClaimShrinks
  <2>3. QED BY <1>r, <2>1, <2>2
<1>1. ASSUME NEW c \in Client, Routes(0, c) PROVE RoutedSent'
  <2>1. CASE router'[0] = router[0]
    BY <1>0, <2>1
  <2>2. CASE router'[0] # router[0]
    <3>1. PICK a \in Addresses(0, c) :
             /\ router' = [router EXCEPT ![0] = [client |-> c, address |-> a, left |-> joined[0]]]
             /\ lost' = IF a = None /\ told[c] # 0 THEN lost + 1 ELSE lost
      BY <1>1, <2>2 DEF Routes
    <3>2. router'[0] = [client |-> c, address |-> a, left |-> joined[0]]
      BY <1>s, <3>1
    <3>3. told[c] # 0 /\ lost \in Nat
      BY MoreBasics DEF KInv, NotTold
    <3>4. lost' = 0 => a = HostOf(c)
      BY <3>1, <3>3 DEF Addresses
    <3>5. Places' = scenario.backups /\ \A i \in 1 .. scenario.backups : joined[0][i] = i
      BY <3>2 DEF Places, SInv, Ring
    <3>6. \A b \in 1 .. scenario.backups : b > scenario.backups - scenario.backups
      BY <1>s
    <3>7. \A i \in 1 .. scenario.backups : i = scenario.backups - scenario.backups + i
      BY <1>s
    <3>8. HostOf(c)' = HostOf(c)
      BY <1>s
    <3>9. lost' = 0 => router'[0].address = HostOf(router[0].client)'
      BY <3>2, <3>4, <3>8
    <3>10. \A i \in 1 .. Places' : router'[0].left[i] = scenario'.backups - Places' + i
      BY <1>s, <3>2, <3>5, <3>7
    <3>11. \A b \in 1 .. scenario'.backups : b > scenario'.backups - Places'
      BY <1>s, <3>5, <3>6
    <3>12. Places' <= scenario'.backups
      BY <1>s, <3>5
    <3>13. QED BY <3>9, <3>10, <3>11, <3>12 DEF RoutedSent
  <2>3. QED BY <2>1, <2>2
<1>2. ASSUME Replicates(0) PROVE RoutedSent'
  <2> DEFINE n == scenario.backups
             h == Head(router[0].left)
  <2>r. /\ router[0] # None /\ router[0].left # << >> /\ router[0].left \in Seq(Server)
        /\ Up(0) /\ lost' = lost /\ late' = late /\ server' = server /\ linked' = linked
    BY <1>2, <1>r DEF Replicates
  <2>h. /\ Places \in 1 .. n /\ h = n - Places + 1 /\ h \in 1 .. n /\ h \in Server
    <3>1. Len(router[0].left) > 0 /\ h = router[0].left[1] /\ h \in Server
      BY <2>r, HeadTailProperties, LenProperties, EmptySeq
    <3>2. Places \in 1 .. n
      BY <1>r, <1>s, <2>r, <3>1 DEF Places
    <3>3. QED BY <1>r, <1>s, <2>r, <3>1, <3>2
  <2>u. ASSUME NEW b \in 1 .. n, Claimed(b), b >= h PROVE ~HasLeft(h, 0) /\ Up(h)
    <3>1. Up(h) /\ late = 0
      BY <1>s, <2>h, <2>u DEF Claimed
    <3>2. 0 \in linked[h]
      BY <2>h, <2>r, <3>1 DEF KInv, StillLinked
    <3>3. QED BY <3>1, <3>2 DEF HasLeft
  <2>1. CASE HasLeft(h, 0)
    <3>1. router' = [router EXCEPT ![0].left = << >>]
      BY <1>2, <2>1 DEF Replicates
    <3>2. /\ router'[0].left = << >> /\ router'[0].client = router[0].client
          /\ router'[0].address = router[0].address
      <4>1. router'[0] = [router[0] EXCEPT !.left = << >>]
        BY <1>s, <3>1
      <4>2. QED BY <1>r, <2>r, <4>1
    <3>3. ASSUME NEW a, a = router[0].address, NEW b \in 1 .. n, Claimed(b)' PROVE Known(a, b)'
      <4>1. Claimed(b)
        BY <3>3, ClaimShrinks
      <4>2. ~(b >= h)
        BY <2>1, <2>u, <4>1
      <4>3. ~(b > n - Places)
        BY <1>s, <2>h, <4>2
      <4>4. Known(a, b)
        BY <1>r, <2>r, <3>3, <4>1, <4>3
      <4>5. QED BY <1>k, <2>r, <3>3, <4>4
    <3>4. PICK a : a = router[0].address
      OBVIOUS
    <3>5. \A b \in 1 .. n : Claimed(b)' => Known(router[0].address, b)'
      BY <3>2, <3>3, <3>4 DEF Known
    <3>6. Places' = 0
      BY <3>2 DEF Places
    <3>7. lost' = 0 => router'[0].address = HostOf(router[0].client)'
      BY <1>r, <1>s, <2>r, <3>2
    <3>8. QED BY <1>s, <3>5, <3>6, <3>7 DEF RoutedSent
  <2>2. CASE ~HasLeft(h, 0)
    <3>1. /\ router' = [router EXCEPT ![0].left = Tail(@)]
          /\ stream' = [stream EXCEPT ![h] = Append(@, router[0].address)]
      BY <1>2, <2>2 DEF Replicates
    <3>2. /\ router'[0].left = Tail(router[0].left)
          /\ router'[0].client = router[0].client /\ router'[0].address = router[0].address
      <4>1. router'[0] = [router[0] EXCEPT !.left = Tail(router[0].left)]
        BY <1>s, <3>1
      <4>2. QED BY <1>r, <2>r, <4>1
    <3>3. /\ Places' = Places - 1
          /\ \A i \in 1 .. Places - 1 : router'[0].left[i] = router[0].left[i + 1]
      BY <2>r, <3>2, HeadTailProperties DEF Places
    <3>4. ASSUME NEW a, a = router[0].address, NEW b \in 1 .. n, Claimed(b)', b <= h PROVE Known(a, b)'
      <4>1. Claimed(b)
        BY <3>4, ClaimShrinks
      <4>2. CASE b # h
        <5>1. ~(b > n - Places)
          BY <1>s, <2>h, <3>4, <4>2
        <5>2. Known(a, b)
          BY <1>r, <2>r, <3>4, <4>1, <5>1
        <5>3. QED BY <1>k, <2>r, <3>4, <5>2
      <4>3. CASE b = h
        <5>1. server[h] = "follows"
          <6>1. /\ Up(h) /\ master[h] = 0 /\ late = 0 /\ h # 0
            BY <2>h, <4>1, <4>3 DEF Claimed
          <6>2. server[h] \in {"follows", "votes", "stuck", "rejoins", "elected",
                               "starts", "announces", "master", "dead"}
            BY <2>h, Basics
          <6>3. server[h] # "stuck" /\ server[h] # "votes" /\ server[h] # "rejoins"
            BY <2>h, <2>r, <6>1 DEF KInv, NoneStuck, SInv, Roles, GivenUpLate
          <6>4. ~Reigns(h)
            BY <2>h, <2>r, <6>1 DEF SInv, Roles, GivenUpLate
          <6>5. QED BY <6>1, <6>2, <6>3, <6>4 DEF Reigns, Up
        <5>2. stream[h] \in Seq(Address \cup {"KEEPALIVE"}) /\ a \in Address \cup {"KEEPALIVE"}
          BY <1>r, <2>h, <2>r, <3>4, MoreBasics
        <5>3. stream'[h] = Append(stream[h], a)
          BY <2>h, <3>1, <3>4, MoreBasics
        <5>4. a \in Range(stream'[h])
          BY <5>2, <5>3, RangeAppend
        <5>5. QED BY <2>r, <4>3, <5>1, <5>4 DEF Known
      <4>4. QED BY <4>2, <4>3
    <3>5. \A b \in 1 .. n : b <= h \/ b > n - (Places - 1)
      BY <1>s, <2>h
    <3>6. Places - 1 <= n
      BY <1>s, <2>h
    <3>7. ASSUME NEW i \in 1 .. Places - 1
          PROVE  router[0].left[i + 1] = n - (Places - 1) + i
      <4>1. i + 1 \in 1 .. Places
        BY <2>h
      <4>2. router[0].left[i + 1] = n - Places + (i + 1)
        BY <1>r, <2>r, <4>1
      <4>3. \A p, m \in Nat : m - p + (i + 1) = m - (p - 1) + i
        OBVIOUS
      <4>4. Places \in Nat /\ n \in Nat
        BY <1>s, <2>h
      <4>5. QED BY <4>2, <4>3, <4>4
    <3>8. lost' = 0 => router'[0].address = HostOf(router[0].client)'
      BY <1>r, <1>s, <2>r, <3>2
    <3>9. \A i \in 1 .. Places' : router'[0].left[i] = scenario'.backups - Places' + i
      BY <1>s, <3>3, <3>7
    <3>10. ASSUME NEW b \in 1 .. n, Claimed(b)'
           PROVE  Known(router[0].address, b)' \/ b > scenario'.backups - Places'
      <4>1. CASE b <= h
        <5>1. PICK a : a = router[0].address
          OBVIOUS
        <5>2. Known(a, b)'
          BY <3>4, <3>10, <4>1, <5>1
        <5>3. QED BY <3>2, <5>1, <5>2 DEF Known
      <4>2. CASE ~(b <= h)
        BY <1>s, <3>3, <3>5, <4>2
      <4>3. QED BY <4>1, <4>2
    <3>11. Places' <= scenario'.backups
      BY <1>s, <3>3, <3>6
    <3>12. QED BY <1>s, <3>2, <3>8, <3>9, <3>10, <3>11 DEF RoutedSent, Known
  <2>3. QED BY <2>1, <2>2
<1>3. ASSUME Accepts(0) PROVE RoutedSent'
  BY <1>3, <1>s DEF Accepts, RoutedSent
<1>4. ASSUME NEW s \in Server \ {0}, Replicates(s) \/ Accepts(s) PROVE router'[0] = router[0]
  BY <1>4, <1>s DEF Replicates, Accepts
<1>5. ASSUME NEW s \in Server \ {0}, NEW c \in Client, Routes(s, c) PROVE router'[0] = router[0]
  BY <1>5, <1>s DEF Routes
<1>6. ASSUME NEW s \in Server, \/ Crashes(s) \/ LosesBackup(s) \/ Decides(s) \/ Backup(s) \/ GivesUp(s)
                               \/ Winner(s)
      PROVE  UNCHANGED router
  BY <1>6 DEF Crashes, LosesBackup, Decides, Backup, Reads, Asks, Answers, SeesEnd, Rejoins, GivesUp,
              Winner, Launches, Handshakes
<1>7. ASSUME NEW c \in Client, NEW p \in {"REQUEST", "LOGOUT"},
             \/ Dials(c) \/ LogsIn(c) \/ Udp(c) \/ Types(c, p)
             \/ EndsInput(c) \/ Sends(c) \/ Leaves(c) \/ Exits(c)
      PROVE  UNCHANGED router
  BY <1>7 DEF Dials, LogsIn, Udp, ListensUdp, OpensSocket, Connects, LogsInAgain, Types,
              EndsInput, Sends, Leaves, Exits, ServerSide
<1>8. ASSUME NEW s \in Server, NEW c \in Client, Serves(s, c) PROVE UNCHANGED router
  BY <1>8 DEF Serves
<1>9. ASSUME UNCHANGED vars PROVE UNCHANGED router
  BY <1>9 DEF vars
<1>10. QED BY <1>0, <1>1, <1>2, <1>3, <1>4, <1>5, <1>6, <1>7, <1>8, <1>9 DEF Next

\* A client that has been told that it is logged in is known to every backup
\* of the first master, or will be before that backup gives the master up.
THEOREM AcceptedSpreads == Spec => []AcceptedIsKnown
<1>1. TypeOK /\ SInv /\ KInv => AcceptedIsKnown
  <2> SUFFICES ASSUME TypeOK, SInv, KInv, NEW c \in Client, NEW b \in Range(joined[0]),
                      <<0, c>> \in accepted, master[b] = 0, Up(b), late = 0, lost = 0,
                      \A d \in Range(joined[0]) : d < b => Up(d)
               PROVE  HostOf(c) \in users[b] \/ (server[b] = "follows" /\ HostOf(c) \in Range(stream[b]))
    BY DEF AcceptedIsKnown, First
  <2>1. joined[0] \in Seq(Server) /\ Len(joined[0]) = scenario.backups
    BY Basics DEF SInv, Ring
  <2>2. DOMAIN joined[0] = 1 .. scenario.backups
    BY <2>1, LenProperties
  <2>3. b \in 1 .. scenario.backups
    BY <2>2 DEF SInv, Ring, Range
  <2>4. \A d \in 1 .. scenario.backups : d \in Range(joined[0])
    BY <2>2 DEF SInv, Ring, Range
  <2>5. Claimed(b)
    BY <2>3, <2>4 DEF Claimed
  <2>6. QED BY <2>3, <2>5 DEF KInv, AcceptedSent, Known
<1>2. TypeOK /\ SInv /\ KInv /\ [Next]_vars => KInv'
  BY NotToldStays, StillLinkedStays, NoneStuckStays, AcceptedStays, RoutedStays DEF KInv
<1>3. QED
  BY <1>1, <1>2, InitTyped, StepTyped, InitSplit, StepSplit, InitKnown, PTL DEF Spec

=============================================================================
