--------------------------- MODULE SessionsProofs ---------------------------
(***************************************************************************)
(* What holds of the client sessions for any number of connections, users,  *)
(* handler threads and packets, and any interleaving.                      *)
(*                                                                         *)
(* The argument: a connection is at one place of its way (the kernel's      *)
(* backlog, out_slave_socket, slave_socket, one slot of the table, closed)  *)
(* and never goes back; a slot that has had one connection has as many      *)
(* threads as is_waiting says; a thread whose connection has left its slot  *)
(* was serving one that is closed.                                         *)
(***************************************************************************)
EXTENDS Sessions, SequenceTheorems, FiniteSetTheorems, TLAPS

\* Accepted or about to be, and not yet given to push_connection
Unserved(c) == c \in backlog \/ out = c \/ (slave = c /\ router \in {"read", "login"})

Registered(c) == \E u \in User, i \in Slot : slots[u][i].sock = c

\* Where connections are
Placed ==
    /\ \A c \in Conn :
          /\ status[c] = "away" => ~Unserved(c) /\ ~Registered(c) /\ c \notin closed
          /\ Unserved(c) => ~Registered(c) /\ c \notin closed
          /\ Registered(c) => c \notin closed
          /\ Got(c, "LOGIN_ACCEPT_RESP") => Registered(c) \/ c \in closed
    /\ out \notin backlog /\ slave \notin backlog
    /\ slave # None => slave # out
    /\ slave # None <=> router \in {"read", "login", "reply"}
    /\ router = "reply" => Registered(slave) \/ slave \in closed

\* A connection is in one slot, of its own user
Table ==
    /\ \A u, v \in User : \A i, j \in Slot :
          slots[u][i].sock # None /\ slots[u][i].sock = slots[v][j].sock => u = v /\ i = j
    /\ \A u \in User, i \in Slot : slots[u][i].sock # None => userOf[slots[u][i].sock] = u

Handles(t, u, i) == thread[t].pc # "none" /\ thread[t].user = u /\ thread[t].slot = i

\* is_waiting, as long as a slot has had one connection
OneHandler ==
    /\ \A u \in User, i \in Slot : <<u, i>> \notin retired =>
          /\ \A t \in Thread : Handles(t, u, i) => slots[u][i].waiting
          /\ slots[u][i].waiting => \E t \in Thread : Handles(t, u, i)
          /\ \A s, t \in Thread : Handles(s, u, i) /\ Handles(t, u, i) => s = t
          /\ slots[u][i].waiting \/ picked = <<u, i>> => slots[u][i].sock # None
    /\ picked # None /\ picked \notin retired => ~slots[picked[1]][picked[2]].waiting

\* What a thread keeps of the connection it was started for
Pointers ==
    \A t \in Thread : thread[t].pc # "none" =>
        /\ thread[t].user \in User
        /\ thread[t].pc = "start" => thread[t].sock = None
        /\ thread[t].pc \in {"serve", "broadcast", "close", "shut", "release"} =>
              thread[t].sock # None
        /\ thread[t].sock # None =>
              /\ userOf[thread[t].sock] = thread[t].user
              /\ Connection(t).sock = thread[t].sock \/ thread[t].sock \in closed

\* How the server stops
Stopping == late # {} => ~routing /\ router \in {"poll", "done"} /\ \E c \in Conn : late = {c}

\* How far a thread is in close_all_connections: every user is still to come,
\* done with (the first slot is), or the one it is at
Sweeps(t) ==
    /\ thread[t].at = None => thread[t].turn = 1
    /\ thread[t].at # None /\ thread[t].turn # 1 => thread[t].at \in swept
    /\ thread[t].pc \in {"close", "shut"} => User \subseteq thread[t].left \cup swept \cup {thread[t].at}
    /\ thread[t].pc = "shut" => thread[t].at \in User /\ thread[t].turn \in Slot

Sweeping ==
    /\ \A u \in swept : slots[u][1].sock \in fresh \cup {None}
    /\ \A t \in Thread : Sweeps(t)
    /\ ~routing => User \subseteq swept

\* The inductive invariant
IInv ==
    /\ TypeOK /\ Placed /\ Table /\ OneHandler /\ Pointers /\ AnswersStayWithinUser
    /\ Stopping /\ Sweeping

-----------------------------------------------------------------------------
(* Types, and what the operators of the model do.                          *)

Messages == [kind : Packet, from : Conn \cup {None}]

\* What a handler thread keeps
Threads ==
    [pc : {"none", "start", "reading", "serve", "broadcast", "close", "shut", "release"},
     user : User \cup {None}, slot : Slot, sock : Conn \cup {None},
     req : Kind \cup {"LOGIN", "OTHER"},
     at : User \cup {None}, turn : 1 .. MAX_CONNECTIONS_PER_USER + 1, left : SUBSET User]

Tables == [User -> [Slot -> [sock : Conn \cup {None}, waiting : BOOLEAN]]]

LEMMA Constants ==
    /\ Slot = {1, 2} /\ 1 \in Slot /\ 2 \in Slot
    /\ None \notin Conn /\ None \notin Thread /\ None \notin User
    /\ \A u \in User, i \in Slot : <<u, i>> # None
<1>1. Slot = {1, 2}
  BY DEF Slot, MAX_CONNECTIONS_PER_USER
<1>2. Slot \subseteq Nat
  BY <1>1
<1>3. QED BY <1>1, <1>2, SessionsAssumption

\* A thread that is not in use, and one that has just been started.
LEMMA IdleTyped ==
    /\ Idle \in Threads
    /\ \A u \in User, i \in Slot :
          [Idle EXCEPT !.pc = "start", !.user = u, !.slot = i] \in Threads
<1>1. 1 \in 1 .. MAX_CONNECTIONS_PER_USER + 1
  BY DEF MAX_CONNECTIONS_PER_USER
<1>2. Idle \in Threads
  BY <1>1, Constants DEF Idle, Threads
<1>3. QED BY <1>2 DEF Threads

\* The parts of the type invariant that steps need again and again.
LEMMA Typed ==
    ASSUME TypeOK
    PROVE  /\ thread \in [Thread -> Threads] /\ slots \in Tables
           /\ toClient \in [Conn -> Seq(Messages)]
           /\ userOf \in [Conn -> User]
BY SessionsAssumption DEF TypeOK, Threads, Tables, Messages

\* write_packet adds at most one packet to what a connection was sent, and only
\* to those it is called for.
LEMMA WritesAppends ==
    ASSUME TypeOK, NEW S, NEW kind \in Packet, NEW from \in Conn \cup {None},
           Writes(S, kind, from)
    PROVE  /\ toClient' \in [Conn -> Seq(Messages)] /\ up' \in BOOLEAN
           /\ \A c \in Conn :
                 \/ toClient'[c] = toClient[c]
                 \/ c \in S /\ toClient'[c] = Append(toClient[c], [kind |-> kind, from |-> from])
<1>1. up' \in BOOLEAN
  BY DEF Writes
<1>2. [kind |-> kind, from |-> from] \in Messages
  BY DEF Messages
<1>3. ASSUME NEW c \in Conn
      PROVE  /\ \/ toClient'[c] = toClient[c]
                \/ c \in S /\ toClient'[c] = Append(toClient[c], [kind |-> kind, from |-> from])
             /\ toClient'[c] \in Seq(Messages)
  <2>1. toClient[c] \in Seq(Messages)
    BY Typed
  <2>2. Append(toClient[c], [kind |-> kind, from |-> from]) \in Seq(Messages)
    BY <2>1, <1>2, AppendProperties
  <2>3. QED BY <2>1, <2>2 DEF Writes
<1>4. toClient' \in [Conn -> Seq(Messages)]
  BY <1>3 DEF Writes
<1>5. QED BY <1>1, <1>3, <1>4

\* Only the thread t moves, to stage pc.
LEMMA GotoMoves ==
    ASSUME TypeOK, NEW t \in Thread, NEW pc, Goto(t, pc),
           pc \in {"start", "reading", "serve", "broadcast", "close", "shut", "release"}
    PROVE  /\ thread' \in [Thread -> Threads]
           /\ \A s \in Thread : s # t => thread'[s] = thread[s]
           /\ thread'[t].pc = pc /\ thread'[t].user = thread[t].user
           /\ thread'[t].slot = thread[t].slot /\ thread'[t].sock = thread[t].sock
           /\ thread'[t].at = thread[t].at /\ thread'[t].turn = thread[t].turn
           /\ thread'[t].left = thread[t].left
BY Typed, ZenonT(30) DEF Goto, Threads

\* After the broadcast of a STOP all users are to come.
LEMMA StopMoves ==
    ASSUME TypeOK, NEW t \in Thread, StopIsBroadcast(t)
    PROVE  /\ thread[t].pc = "serve"
           /\ thread' \in [Thread -> Threads]
           /\ \A s \in Thread : s # t => thread'[s] = thread[s]
           /\ thread'[t] = [thread[t] EXCEPT !.pc = "close", !.left = User]
<1>1. thread' = [thread EXCEPT ![t] = [thread[t] EXCEPT !.pc = "close", !.left = User]]
  BY Typed DEF StopIsBroadcast
<1>2. [thread[t] EXCEPT !.pc = "close", !.left = User] \in Threads
  BY Typed DEF Threads
<1>3. QED BY <1>1, <1>2, Typed DEF StopIsBroadcast, ThreadAt

\* The count of a user's connections is what it says.
LEMMA CountTyped ==
    ASSUME NEW tab \in [Slot -> [sock : Conn \cup {None}, waiting : BOOLEAN]]
    PROVE  Count(tab) \in 0 .. 2 /\ (tab[1].sock # None => Count(tab) >= 1)
<1> DEFINE used == {i \in Slot : tab[i].sock # None}
<1>1. /\ IsFiniteSet(used) /\ Cardinality(used) \in Nat /\ (Cardinality(used) = 0 <=> used = {})
      /\ Cardinality(used) <= 2
  <2>1. IsFiniteSet(Slot) /\ Cardinality(Slot) = 2
    <3>1. IsFiniteSet(1 .. 2) /\ Cardinality(1 .. 2) = IF 1 > 2 THEN 0 ELSE 2 - 1 + 1
      <4>1. 1 \in Int /\ 2 \in Int
        OBVIOUS
      <4>2. QED BY <4>1, FS_Interval, Zenon
    <3>2. QED BY <3>1 DEF Slot, MAX_CONNECTIONS_PER_USER
  <2>2. IsFiniteSet(used) /\ Cardinality(used) <= Cardinality(Slot)
    <3>1. used \subseteq Slot
      OBVIOUS
    <3> HIDE DEF used
    <3>2. QED BY <2>1, <3>1, FS_Subset
  <2> HIDE DEF used
  <2>3. QED BY <2>1, <2>2, FS_CardinalityType, FS_EmptySet
<1>2. tab[1].sock # None => used # {}
  BY Constants
<1>3. Count(tab) = Cardinality(used)
  BY DEF Count
<1> HIDE DEF used
<1>4. QED BY <1>1, <1>2, <1>3

\* push_connection takes a slot that is free.
LEMMA FirstFreeIsFree ==
    ASSUME TypeOK, NEW u \in User, FreeSlots(u) # {}
    PROVE  FirstFree(u) \in Slot /\ slots[u][FirstFree(u)].sock = None
<1>1. FreeSlots(u) \subseteq Slot /\ Slot = {1, 2}
  BY Constants DEF FreeSlots
<1>2. \E i \in FreeSlots(u) : \A j \in FreeSlots(u) : i <= j
  BY <1>1
<1>3. FirstFree(u) \in FreeSlots(u)
  BY <1>2 DEF FirstFree
<1>4. QED BY <1>3 DEF FreeSlots

\* pthread_create yields a thread that is not in use.
LEMMA NewThreadIsNew ==
    ASSUME \E t \in Thread : thread[t].pc = "none"
    PROVE  NewThread \in Thread /\ thread[NewThread].pc = "none"
BY DEF NewThread

\* One of a slot's two words is written.
LEMMA WritesWaiting ==
    ASSUME TypeOK, NEW u \in User, NEW i \in Slot, NEW w \in BOOLEAN,
           slots' = [slots EXCEPT ![u][i].waiting = w]
    PROVE  /\ slots' \in Tables
           /\ \A v \in User, j \in Slot :
                 /\ slots'[v][j].sock = slots[v][j].sock
                 /\ slots'[v][j].waiting = IF v = u /\ j = i THEN w ELSE slots[v][j].waiting
<1> DEFINE entry == [slots[u][i] EXCEPT !.waiting = w]
           tab == [slots[u] EXCEPT ![i] = entry]
<1>1. slots \in Tables
  BY Typed
<1>2. /\ entry \in [sock : Conn \cup {None}, waiting : BOOLEAN]
      /\ entry.sock = slots[u][i].sock /\ entry.waiting = w
  <2>1. slots[u][i] \in [sock : Conn \cup {None}, waiting : BOOLEAN]
    BY <1>1 DEF Tables
  <2>2. CASE w = TRUE
    BY <2>1, <2>2
  <2>3. CASE w = FALSE
    BY <2>1, <2>3
  <2>4. QED BY <2>2, <2>3
<1> HIDE DEF entry
<1>3. /\ tab \in [Slot -> [sock : Conn \cup {None}, waiting : BOOLEAN]]
      /\ tab[i] = entry /\ \A j \in Slot : j # i => tab[j] = slots[u][j]
  BY <1>1, <1>2 DEF Tables
<1>4. slots' = [slots EXCEPT ![u] = tab]
  BY DEF entry
<1> HIDE DEF tab
<1>5. slots' \in Tables /\ slots'[u] = tab /\ \A v \in User : v # u => slots'[v] = slots[v]
  BY <1>1, <1>3, <1>4 DEF Tables
<1>6. QED BY <1>2, <1>3, <1>5

LEMMA FreesSlot ==
    ASSUME TypeOK, NEW u \in User, NEW i \in Slot,
           slots' = [slots EXCEPT ![u][i].sock = None]
    PROVE  /\ slots' \in Tables
           /\ \A v \in User, j \in Slot :
                 /\ slots'[v][j].sock = IF v = u /\ j = i THEN None ELSE slots[v][j].sock
                 /\ slots'[v][j].waiting = slots[v][j].waiting
<1> DEFINE entry == [slots[u][i] EXCEPT !.sock = None]
           tab == [slots[u] EXCEPT ![i] = entry]
<1>1. slots \in Tables
  BY Typed
<1>2. /\ entry \in [sock : Conn \cup {None}, waiting : BOOLEAN]
      /\ entry.sock = None /\ entry.waiting = slots[u][i].waiting
  BY <1>1 DEF Tables
<1> HIDE DEF entry
<1>3. /\ tab \in [Slot -> [sock : Conn \cup {None}, waiting : BOOLEAN]]
      /\ tab[i] = entry /\ \A j \in Slot : j # i => tab[j] = slots[u][j]
  BY <1>1, <1>2 DEF Tables
<1>4. slots' = [slots EXCEPT ![u] = tab]
  BY DEF entry
<1> HIDE DEF tab
<1>5. slots' \in Tables /\ slots'[u] = tab /\ \A v \in User : v # u => slots'[v] = slots[v]
  BY <1>1, <1>3, <1>4 DEF Tables
<1>6. QED BY <1>2, <1>3, <1>5

\* A LOGOUT frees the slot of its thread, the end of a request clears is_waiting
\* there, whatever connection is in it by then.
LEMMA LogsOutFrees ==
    ASSUME TypeOK, NEW t \in Thread, LogsOut(t), thread[t].user \in User
    PROVE  /\ slots' \in Tables
           /\ \A v \in User, j \in Slot :
                 /\ slots'[v][j].sock =
                       IF v = thread[t].user /\ j = thread[t].slot THEN None ELSE slots[v][j].sock
                 /\ slots'[v][j].waiting = slots[v][j].waiting
<1>1. thread[t].slot \in Slot
  BY Typed DEF Threads
<1>2. PICK u \in User, i \in Slot : u = thread[t].user /\ i = thread[t].slot
  BY <1>1
<1>3. slots' = [slots EXCEPT ![u][i].sock = None]
  BY <1>2 DEF LogsOut
<1>4. /\ slots' \in Tables
      /\ \A v \in User, j \in Slot :
            /\ slots'[v][j].sock = IF v = u /\ j = i THEN None ELSE slots[v][j].sock
            /\ slots'[v][j].waiting = slots[v][j].waiting
  BY <1>3, FreesSlot
<1>5. QED BY <1>2, <1>4

LEMMA ReleasesClears ==
    ASSUME TypeOK, NEW t \in Thread, Releases(t), thread[t].user \in User
    PROVE  /\ slots' \in Tables
           /\ \A v \in User, j \in Slot :
                 /\ slots'[v][j].sock = slots[v][j].sock
                 /\ slots'[v][j].waiting =
                       IF v = thread[t].user /\ j = thread[t].slot
                       THEN FALSE ELSE slots[v][j].waiting
<1>1. thread[t].slot \in Slot
  BY Typed DEF Threads
<1>2. PICK u \in User, i \in Slot : u = thread[t].user /\ i = thread[t].slot
  BY <1>1
<1>3. slots' = [slots EXCEPT ![u][i].waiting = FALSE]
  BY <1>2 DEF Releases
<1>4. /\ slots' \in Tables
      /\ \A v \in User, j \in Slot :
            /\ slots'[v][j].sock = slots[v][j].sock
            /\ slots'[v][j].waiting = IF v = u /\ j = i THEN FALSE ELSE slots[v][j].waiting
  BY <1>3, WritesWaiting
<1>5. QED BY <1>2, <1>4, ZenonT(30)

\* close_all_connections only moves its thread and frees slots, whose connections
\* are closed.
LEMMA ClosesFrees ==
    ASSUME TypeOK, NEW t \in Thread, Closes(t), Sweeps(t)
    PROVE  /\ slots' \in Tables
           /\ \A u \in User, i \in Slot :
                 /\ slots'[u][i].waiting = slots[u][i].waiting
                 /\ slots'[u][i].sock \in {slots[u][i].sock, None}
                 /\ slots'[u][i].sock # slots[u][i].sock =>
                       slots[u][i].sock \in closed' /\ <<u, i>> \in retired'
           /\ closed \subseteq closed' /\ closed' \subseteq Conn
           /\ retired \subseteq retired' /\ retired' \subseteq User \X Slot
           /\ \A c \in closed' \ closed :
                 \E u \in User, i \in Slot : slots[u][i].sock = c /\ slots'[u][i].sock = None
           /\ UNCHANGED <<clientVars, toServer, toClient, acceptorVars, waiting, router, slave,
                          locked, managerVars, up, late, fresh>>
<1> USE DEF clientVars, acceptorVars, managerVars, history
<1>1. CASE ClosesNext(t) \/ ClosesCount(t) \/ StopsRouting(t)
  <2>1. UNCHANGED <<clientVars, toServer, toClient, acceptorVars, waiting, router, slave,
                    locked, managerVars, up, late, fresh, slots, closed, retired>>
    BY <1>1 DEF ClosesNext, ClosesCount, StopsRouting
  <2>2. slots \in Tables /\ closed \subseteq Conn /\ retired \subseteq User \X Slot
    BY Typed DEF TypeOK
  <2>3. QED BY <2>1, <2>2
<1>2. CASE ClosesTurn(t)
  <2>1. PICK u \in User, i \in Slot : u = thread[t].at /\ i = thread[t].turn
    BY <1>2 DEF ClosesTurn, ThreadAt, Sweeps
  <2>2. /\ slots' = [slots EXCEPT ![u][i].sock = None]
        /\ IF slots[u][i].sock = None THEN closed' = closed /\ retired' = retired
           ELSE closed' = closed \cup {slots[u][i].sock} /\ retired' = retired \cup {<<u, i>>}
        /\ UNCHANGED <<clientVars, toServer, toClient, acceptorVars, waiting, router, slave,
                       locked, managerVars, up, late, fresh>>
    BY <1>2, <2>1 DEF ClosesTurn, Closed
  <2>3. /\ slots' \in Tables
        /\ \A v \in User, j \in Slot :
              /\ slots'[v][j].sock = IF v = u /\ j = i THEN None ELSE slots[v][j].sock
              /\ slots'[v][j].waiting = slots[v][j].waiting
    BY <2>2, FreesSlot
  <2>4. /\ slots[u][i].sock \in Conn \cup {None} /\ closed \subseteq Conn
        /\ retired \subseteq User \X Slot
    BY Typed DEF Tables, TypeOK
  <2>5. /\ closed \subseteq closed' /\ closed' \subseteq Conn
        /\ retired \subseteq retired' /\ retired' \subseteq User \X Slot
    BY <2>2, <2>4
  <2>6. \A c \in closed' \ closed : c = slots[u][i].sock /\ slots'[u][i].sock = None
    BY <2>2, <2>3
  <2>7. slots[u][i].sock # None => slots[u][i].sock \in closed' /\ <<u, i>> \in retired'
    BY <2>2
  <2>8. QED BY <2>2, <2>3, <2>5, <2>6, <2>7
<1>3. QED BY <1>1, <1>2 DEF Closes

\* Where its thread goes.
LEMMA ClosesMoves ==
    ASSUME TypeOK, NEW t \in Thread, Closes(t), Sweeps(t)
    PROVE  /\ thread' \in [Thread -> Threads] /\ swept \subseteq swept' /\ swept' \subseteq User
           /\ routing' \in BOOLEAN
           /\ thread[t].pc \in {"close", "shut"}
           /\ \A s \in Thread : s # t => thread'[s] = thread[s]
           /\ thread'[t].pc \in {"close", "shut", "release"}
           /\ thread'[t].user = thread[t].user /\ thread'[t].slot = thread[t].slot
           /\ thread'[t].sock = thread[t].sock
<1> USE DEF history
<1>1. /\ thread[t] \in Threads /\ thread \in [Thread -> Threads] /\ routing \in BOOLEAN
      /\ swept \subseteq User
  BY Typed DEF TypeOK
<1>2. CASE ClosesNext(t)
  <2>1. PICK u \in thread[t].left :
           thread' = [thread EXCEPT ![t] = [thread[t] EXCEPT !.at = u, !.left = thread[t].left \ {u}]]
    BY <1>1, <1>2 DEF ClosesNext
  <2>2. u \in User /\ thread[t].left \ {u} \subseteq User
    BY <1>1 DEF Threads
  <2>3. [thread[t] EXCEPT !.at = u, !.left = thread[t].left \ {u}] \in Threads
    BY <1>1, <2>2 DEF Threads
  <2>4. UNCHANGED <<swept, routing>> /\ thread[t].pc = "close"
    BY <1>2 DEF ClosesNext, ThreadAt
  <2>5. QED BY <1>1, <2>1, <2>3, <2>4 DEF Threads
<1>3. CASE ClosesCount(t)
  <2>1. /\ routing' = routing /\ thread[t].pc = "close" /\ thread[t].at # None
        /\ \/ Goto(t, "shut") /\ swept' = swept
           \/ /\ thread' = [thread EXCEPT ![t].at = None, ![t].turn = 1]
              /\ swept' = swept \cup {thread[t].at}
    BY <1>3 DEF ClosesCount, ThreadAt
  <2>2. CASE Goto(t, "shut") /\ swept' = swept
    BY <1>1, <2>1, <2>2, GotoMoves
  <2>3. CASE /\ thread' = [thread EXCEPT ![t].at = None, ![t].turn = 1]
             /\ swept' = swept \cup {thread[t].at}
    <3>1. thread' = [thread EXCEPT ![t] = [thread[t] EXCEPT !.at = None, !.turn = 1]]
      BY <1>1, <2>3
    <3>2. 1 \in 1 .. MAX_CONNECTIONS_PER_USER + 1
      BY DEF MAX_CONNECTIONS_PER_USER
    <3>3. [thread[t] EXCEPT !.at = None, !.turn = 1] \in Threads
      BY <1>1, <3>2 DEF Threads
    <3>4. thread[t].at \in User
      BY <1>1, <2>1 DEF Threads
    <3>5. QED BY <1>1, <2>1, <2>3, <3>1, <3>3, <3>4 DEF Threads
  <2>4. QED BY <2>1, <2>2, <2>3
<1>4. CASE ClosesTurn(t)
  <2>1. /\ thread' = [thread EXCEPT ![t] = [thread[t] EXCEPT !.pc = "close", !.turn = thread[t].turn + 1]]
        /\ swept' = swept \cup {thread[t].at} /\ routing' = routing /\ thread[t].pc = "shut"
    BY <1>1, <1>4 DEF ClosesTurn, ThreadAt
  <2>2. thread[t].at \in User /\ thread[t].turn \in {1, 2}
    BY <2>1, Constants DEF Sweeps
  <2>3. thread[t].turn + 1 \in 1 .. MAX_CONNECTIONS_PER_USER + 1
    BY <2>2 DEF MAX_CONNECTIONS_PER_USER
  <2>4. [thread[t] EXCEPT !.pc = "close", !.turn = thread[t].turn + 1] \in Threads
    BY <1>1, <2>3 DEF Threads
  <2>5. QED BY <1>1, <2>1, <2>2, <2>4 DEF Threads
<1>5. CASE StopsRouting(t)
  <2>1. Goto(t, "release") /\ routing' = FALSE /\ swept' = swept /\ thread[t].pc = "close"
    BY <1>5 DEF StopsRouting, ThreadAt
  <2>2. QED BY <1>1, <2>1, GotoMoves
<1>6. QED BY <1>2, <1>3, <1>4, <1>5 DEF Closes

\* push_connection fills a free slot, and no other.
LEMMA RegistersFills ==
    ASSUME TypeOK, Registers, slave \in Conn
    PROVE  \E i \in Slot :
              /\ slots[userOf[slave]][i].sock = None
              /\ slots' \in Tables
              /\ \A v \in User, j \in Slot :
                    /\ slots'[v][j].sock =
                          IF v = userOf[slave] /\ j = i THEN slave ELSE slots[v][j].sock
                    /\ slots'[v][j].waiting =
                          IF v = userOf[slave] /\ j = i THEN FALSE ELSE slots[v][j].waiting
<1> DEFINE u == userOf[slave]
           i == FirstFree(u)
<1>1. u \in User /\ slots \in Tables
  BY Typed
<1>2. i \in Slot /\ slots[u][i].sock = None
  BY <1>1, FirstFreeIsFree DEF Registers
<1>3. slots' = [slots EXCEPT ![u][i] = [sock |-> slave, waiting |-> FALSE]]
  BY DEF Registers
<1> HIDE DEF i, u
<1>4. /\ slots' \in Tables
      /\ \A v \in User, j \in Slot :
            /\ slots'[v][j].sock = IF v = u /\ j = i THEN slave ELSE slots[v][j].sock
            /\ slots'[v][j].waiting = IF v = u /\ j = i THEN FALSE ELSE slots[v][j].waiting
  BY <1>1, <1>2, <1>3 DEF Tables
<1>5. QED BY <1>2, <1>4 DEF u

\* A handler thread notes the descriptor it reads from, and what it has read.
LEMMA StartsMoves ==
    ASSUME TypeOK, NEW t \in Thread, Starts(t), thread[t].user \in User
    PROVE  /\ thread' \in [Thread -> Threads]
           /\ \A s \in Thread : s # t => thread'[s] = thread[s]
           /\ thread'[t] = [thread[t] EXCEPT !.pc = "reading", !.sock = Connection(t).sock]
<1>1. Connection(t).sock \in Conn \cup {None}
  BY Typed DEF Connection, Tables, Threads
<1>2. thread' = [thread EXCEPT ![t] = [thread[t] EXCEPT !.pc = "reading", !.sock = Connection(t).sock]]
  BY Typed DEF Starts
<1>3. [thread[t] EXCEPT !.pc = "reading", !.sock = Connection(t).sock] \in Threads
  BY <1>1, Typed, ZenonT(30) DEF Threads
<1>4. QED BY <1>2, <1>3, Typed

LEMMA ReadsMoves ==
    ASSUME TypeOK, NEW t \in Thread, Reads(t)
    PROVE  /\ thread[t].sock \in Conn
           /\ toServer' \in [Conn -> Seq(Kind \cup {"LOGIN"})]
           /\ thread' \in [Thread -> Threads]
           /\ \A s \in Thread : s # t => thread'[s] = thread[s]
           /\ \E r \in Kind \cup {"LOGIN"} :
                 thread'[t] = [thread[t] EXCEPT !.pc = "serve", !.req = r]
<1>1. thread[t].sock \in Conn /\ toServer[thread[t].sock] \in Seq(Kind \cup {"LOGIN"})
  BY Typed DEF Reads, Threads, TypeOK
<1>2. /\ Head(toServer[thread[t].sock]) \in Kind \cup {"LOGIN"}
      /\ Tail(toServer[thread[t].sock]) \in Seq(Kind \cup {"LOGIN"})
  BY <1>1, HeadTailProperties DEF Reads
<1>3. toServer' \in [Conn -> Seq(Kind \cup {"LOGIN"})]
  BY <1>2 DEF Reads, TypeOK
<1>4. PICK r \in Kind \cup {"LOGIN"} :
         thread' = [thread EXCEPT ![t] = [thread[t] EXCEPT !.pc = "serve", !.req = r]]
  BY <1>2, Typed DEF Reads
<1>5. [thread[t] EXCEPT !.pc = "serve", !.req = r] \in Threads
  BY Typed DEF Threads
<1>6. QED BY <1>1, <1>3, <1>4, <1>5, Typed

-----------------------------------------------------------------------------
(* Type correctness.                                                       *)

ClientTypes ==
    /\ userOf \in UserOf
    /\ status \in [Conn -> {"away", "dialled", "gone"}]
    /\ sent \in [Conn -> Nat]
    /\ toServer \in [Conn -> Seq(Kind \cup {"LOGIN"})]
    /\ toClient \in [Conn -> Seq(Messages)]

RouterTypes ==
    /\ backlog \subseteq Conn
    /\ acceptor \in {"check", "accept", "done"}
    /\ out \in Conn \cup {None} /\ waiting \in BOOLEAN
    /\ waiting <=> out # None
    /\ router \in {"poll", "read", "login", "reply", "done"}
    /\ slave \in Conn \cup {None} /\ locked \in BOOLEAN

ManagerTypes ==
    /\ slots \in Tables
    /\ manager \in {"scan", "join", "done"}
    /\ picked \in (User \X Slot) \cup {None}
    /\ thread \in [Thread -> Threads]

OtherTypes ==
    /\ routing \in BOOLEAN /\ up \in BOOLEAN
    /\ closed \subseteq Conn /\ retired \subseteq User \X Slot /\ late \subseteq Conn
    /\ swept \subseteq User /\ fresh \subseteq Conn

\* The parts of the type invariant, each with the steps that leave it alone.
LEMMA TypeParts == TypeOK <=> ClientTypes /\ RouterTypes /\ ManagerTypes /\ OtherTypes
BY DEF TypeOK, ClientTypes, RouterTypes, ManagerTypes, OtherTypes, Messages, Tables, Threads

LEMMA TypePartsNext == TypeOK' <=> ClientTypes' /\ RouterTypes' /\ ManagerTypes' /\ OtherTypes'
BY DEF TypeOK, ClientTypes, RouterTypes, ManagerTypes, OtherTypes, Messages, Tables, Threads

LEMMA Unmoved ==
    ASSUME TypeOK
    PROVE  /\ UNCHANGED <<userOf, status, sent, toServer, toClient>> => ClientTypes'
           /\ UNCHANGED <<backlog, acceptor, out, waiting, router, slave, locked>> => RouterTypes'
           /\ UNCHANGED <<slots, manager, picked, thread>> => ManagerTypes'
           /\ UNCHANGED <<routing, up, closed, retired, late, swept, fresh>> => OtherTypes'
<1>1. UNCHANGED <<userOf, status, sent, toServer, toClient>> => ClientTypes'
  BY TypeParts DEF ClientTypes
<1>2. UNCHANGED <<backlog, acceptor, out, waiting, router, slave, locked>> => RouterTypes'
  BY TypeParts DEF RouterTypes
<1>3. UNCHANGED <<slots, manager, picked, thread>> => ManagerTypes'
  BY TypeParts DEF ManagerTypes
<1>4. UNCHANGED <<routing, up, closed, retired, late, swept, fresh>> => OtherTypes'
  BY TypeParts DEF OtherTypes
<1>5. QED BY <1>1, <1>2, <1>3, <1>4

\* The clients' steps keep the types.
LEMMA ClientTyped ==
    ASSUME TypeOK, NEW c \in Conn, Client(c)
    PROVE  TypeOK'
<1> USE DEF clientVars, acceptorVars, managerVars, history
<1>1. CASE Dial(c)
  <2>1. ClientTypes' /\ RouterTypes'
    BY <1>1, TypeParts DEF Dial, ClientTypes, RouterTypes
  <2>2. QED BY <1>1, <2>1, Unmoved, TypePartsNext DEF Dial
<1>2. CASE HangUp(c)
  <2>1. ClientTypes'
    BY <1>2, TypeParts DEF HangUp, ClientTypes
  <2>2. QED BY <1>2, <2>1, Unmoved, TypePartsNext DEF HangUp
<1>3. ASSUME NEW k \in Kind \cup {"LOGIN"}, Send(c, k) PROVE TypeOK'
  <2>1. toServer' \in [Conn -> Seq(Kind \cup {"LOGIN"})]
    <3>1. toServer[c] \in Seq(Kind \cup {"LOGIN"})
      BY DEF TypeOK
    <3>2. Append(toServer[c], k) \in Seq(Kind \cup {"LOGIN"})
      BY <3>1, AppendProperties
    <3>3. QED BY <3>2, <1>3 DEF Send, TypeOK
  <2>2. ClientTypes'
    BY <2>1, <1>3, TypeParts DEF Send, ClientTypes
  <2>3. QED BY <2>2, <1>3, Unmoved, TypePartsNext DEF Send
<1>4. QED BY <1>1, <1>2, <1>3 DEF Client

\* The steps of the acceptor and of the router keep the types.
LEMMA RouterTyped ==
    ASSUME TypeOK, Acceptor \/ RouterStep, router \in {"login", "reply"} => slave # None
    PROVE  TypeOK'
<1> USE DEF clientVars, acceptorVars, managerVars, history
<1>1. CASE AcceptorChecks
  <2>1. RouterTypes'
    BY <1>1, TypeParts DEF AcceptorChecks, RouterTypes
  <2>2. QED BY <1>1, <2>1, Unmoved, TypePartsNext DEF AcceptorChecks
<1>2. ASSUME NEW c \in Conn, Accepts(c) PROVE TypeOK'
  <2>1. RouterTypes'
    BY <1>2, TypeParts, Constants DEF Accepts, RouterTypes
  <2>2. QED BY <1>2, <2>1, Unmoved, TypePartsNext DEF Accepts
<1>3. CASE RouterPolls
  <2>1. RouterTypes'
    <3>1. CASE router' = "done" /\ UNCHANGED <<slave, waiting, out>>
      BY <1>3, <3>1, TypeParts DEF RouterPolls, RouterTypes
    <3>2. CASE router' = "read" /\ slave' = out /\ waiting' = FALSE /\ out' = None
      BY <1>3, <3>2, TypeParts DEF RouterPolls, RouterTypes
    <3>3. QED BY <1>3, <3>1, <3>2 DEF RouterPolls
  <2>2. QED BY <1>3, <2>1, Unmoved, TypePartsNext DEF RouterPolls
<1>4. CASE RouterReads
  <2>1. toServer' \in [Conn -> Seq(Kind \cup {"LOGIN"})]
    <3>1. slave \in Conn => toServer[slave] \in Seq(Kind \cup {"LOGIN"})
      BY DEF TypeOK
    <3>2. slave \in Conn => Tail(toServer[slave]) \in Seq(Kind \cup {"LOGIN"})
      BY <3>1, <1>4, HeadTailProperties DEF RouterReads
    <3>3. QED BY <1>4, <3>2 DEF RouterReads, TypeOK
  <2>2. ClientTypes' /\ RouterTypes'
    BY <1>4, <2>1, TypeParts DEF RouterReads, ClientTypes, RouterTypes
  <2>3. QED BY <1>4, <2>2, Unmoved, TypePartsNext DEF RouterReads
<1>5. CASE RouterReadFails
  <2>1. OtherTypes'
    BY <1>5, TypeParts DEF RouterReadFails, Terminates, OtherTypes
  <2>2. QED BY <1>5, <2>1, Unmoved, TypePartsNext DEF RouterReadFails, Terminates
<1>6. CASE Registers
  <2>1. slots' \in Tables
    <3>1. slave \in Conn
      BY <1>6, TypeParts DEF Registers, RouterTypes
    <3>2. QED BY <1>6, <3>1, RegistersFills
  <2>2. RouterTypes' /\ ManagerTypes'
    BY <1>6, <2>1, TypeParts DEF Registers, RouterTypes, ManagerTypes
  <2>4. slave \in Conn
    BY <1>6, TypeParts DEF Registers, RouterTypes
  <2>5. OtherTypes'
    BY <1>6, <2>4, TypeParts DEF Registers, OtherTypes
  <2>3. QED BY <1>6, <2>2, <2>5, Unmoved, TypePartsNext DEF Registers
<1>7. CASE Refuses
  <2>1. slave \in Conn \cup {None} /\ "LOGIN_REFUSE_RESP" \in Packet
    BY DEF TypeOK, Packet
  <2>2. toClient' \in [Conn -> Seq(Messages)] /\ up' \in BOOLEAN
    BY <1>7, <2>1, WritesAppends DEF Refuses
  <2>3. ClientTypes' /\ RouterTypes' /\ OtherTypes'
    BY <1>7, <2>2, TypeParts DEF Refuses, ClientTypes, RouterTypes, OtherTypes
  <2>4. QED BY <1>7, <2>3, Unmoved, TypePartsNext DEF Refuses
<1>8. CASE RepliesToLogin
  <2>1. slave \in Conn /\ "LOGIN_ACCEPT_RESP" \in Packet
    BY <1>8, TypeParts DEF RouterTypes, RepliesToLogin, Packet
  <2>2. toClient' \in [Conn -> Seq(Messages)] /\ up' \in BOOLEAN
    BY <1>8, <2>1, WritesAppends DEF RepliesToLogin
  <2>3. ClientTypes' /\ RouterTypes'
    BY <1>8, <2>2, TypeParts DEF RepliesToLogin, ClientTypes, RouterTypes
  <2>4. OtherTypes'
    BY <1>8, <2>1, <2>2, TypeParts DEF RepliesToLogin, OtherTypes
  <2>5. QED BY <1>8, <2>3, <2>4, Unmoved, TypePartsNext DEF RepliesToLogin
<1>9. QED BY <1>1, <1>2, <1>3, <1>4, <1>5, <1>6, <1>7, <1>8 DEF Acceptor, RouterStep

\* The manager's steps keep the types.
LEMMA ManagerTyped ==
    ASSUME TypeOK, ManagerStep \/ \E u \in User, i \in Slot : Scan(u, i)
    PROVE  TypeOK'
<1> USE DEF clientVars, acceptorVars, managerVars, history
<1>1. CASE ManagerEnds
  <2>1. ManagerTypes'
    BY <1>1, TypeParts DEF ManagerEnds, ManagerTypes
  <2>2. QED BY <1>1, <2>1, Unmoved, TypePartsNext DEF ManagerEnds
<1>2. CASE Dispatches
  <2>1. picked \in User \X Slot /\ picked[1] \in User /\ picked[2] \in Slot
    BY <1>2, TypeParts DEF Dispatches, ManagerTypes
  <2>2. NewThread \in Thread
    BY <1>2, NewThreadIsNew DEF Dispatches
  <2>3. thread' \in [Thread -> Threads]
    <3>1. thread' = [thread EXCEPT ![NewThread] =
                        [Idle EXCEPT !.pc = "start", !.user = picked[1], !.slot = picked[2]]]
      BY <1>2 DEF Dispatches
    <3>2. QED BY <2>1, <2>2, <3>1, Typed, IdleTyped
  <2>4. slots' \in Tables
    BY <1>2, <2>1, WritesWaiting DEF Dispatches
  <2>5. ManagerTypes'
    BY <1>2, <2>3, <2>4, TypeParts DEF Dispatches, ManagerTypes
  <2>6. QED BY <1>2, <2>5, Unmoved, TypePartsNext DEF Dispatches
<1>3. ASSUME NEW u \in User, NEW i \in Slot, Examines(u, i) PROVE TypeOK'
  <2>1. ManagerTypes'
    BY <1>3, TypeParts DEF Examines, ManagerTypes
  <2>2. QED BY <1>3, <2>1, Unmoved, TypePartsNext DEF Examines
<1>4. QED BY <1>1, <1>2, <1>3 DEF ManagerStep, Scan

\* A handler's step that writes and goes on keeps the types.
LEMMA WritingTyped ==
    ASSUME TypeOK, NEW t \in Thread, NEW pc, Goto(t, pc),
           pc \in {"start", "reading", "serve", "broadcast", "close", "shut", "release"},
           NEW S, NEW kind \in Packet, Writes(S, kind, thread[t].sock)
    PROVE  /\ toClient' \in [Conn -> Seq(Messages)] /\ up' \in BOOLEAN
           /\ thread' \in [Thread -> Threads]
<1>1. thread[t].sock \in Conn \cup {None}
  BY Typed DEF Threads
<1>2. QED BY <1>1, GotoMoves, WritesAppends

\* The steps of the handler threads keep the types.
LEMMA HandlerTyped ==
    ASSUME TypeOK, NEW t \in Thread, Handler(t) \/ ReadsTerminal(t),
           thread[t].pc # "none" => thread[t].user \in User, Sweeps(t)
    PROVE  TypeOK'
<1> USE DEF clientVars, acceptorVars, managerVars, history
<1>1. CASE Starts(t)
  <2>2. thread' \in [Thread -> Threads]
    BY <1>1, StartsMoves DEF Starts, ThreadAt
  <2>3. ManagerTypes'
    BY <1>1, <2>2, TypeParts DEF Starts, ManagerTypes
  <2>4. QED BY <1>1, <2>3, Unmoved, TypePartsNext DEF Starts
<1>2. CASE Reads(t)
  <2>1. thread' \in [Thread -> Threads] /\ toServer' \in [Conn -> Seq(Kind \cup {"LOGIN"})]
    BY <1>2, ReadsMoves
  <2>5. ClientTypes' /\ ManagerTypes'
    BY <1>2, <2>1, TypeParts DEF Reads, ClientTypes, ManagerTypes
  <2>6. QED BY <1>2, <2>5, Unmoved, TypePartsNext DEF Reads
<1>3. CASE ReadFails(t) \/ ReadsTerminal(t)
  <2>1. OtherTypes'
    BY <1>3, TypeParts DEF ReadFails, ReadsTerminal, Terminates, OtherTypes
  <2>2. QED BY <1>3, <2>1, Unmoved, TypePartsNext DEF ReadFails, ReadsTerminal, Terminates
<1>4. CASE Serves(t)
  <2>1. /\ toClient' \in [Conn -> Seq(Messages)] /\ up' \in BOOLEAN
        /\ thread' \in [Thread -> Threads]
    BY <1>4, WritingTyped DEF Serves, Packet
  <2>2. ClientTypes' /\ ManagerTypes' /\ OtherTypes'
    BY <1>4, <2>1, TypeParts DEF Serves, ClientTypes, ManagerTypes, OtherTypes
  <2>3. QED BY <1>4, <2>2, Unmoved, TypePartsNext DEF Serves
<1>5. CASE Broadcasts(t)
  <2>1. /\ toClient' \in [Conn -> Seq(Messages)] /\ up' \in BOOLEAN
        /\ thread' \in [Thread -> Threads]
    BY <1>5, WritingTyped DEF Broadcasts, Packet
  <2>2. ClientTypes' /\ ManagerTypes' /\ OtherTypes'
    BY <1>5, <2>1, TypeParts DEF Broadcasts, ClientTypes, ManagerTypes, OtherTypes
  <2>3. QED BY <1>5, <2>2, Unmoved, TypePartsNext DEF Broadcasts
<1>6. CASE LogsOut(t)
  <2>1. /\ toClient' \in [Conn -> Seq(Messages)] /\ up' \in BOOLEAN
        /\ thread' \in [Thread -> Threads]
    BY <1>6, WritingTyped DEF LogsOut, Packet
  <2>2. /\ thread[t].user \in User /\ thread[t].slot \in Slot
        /\ Connection(t).sock \in Conn \cup {None}
    BY <1>6, Typed DEF LogsOut, ThreadAt, Connection, Tables, Threads
  <2>3. slots' \in Tables
    BY <1>6, <2>2, LogsOutFrees
  <2>4. closed' \subseteq Conn /\ retired' \subseteq User \X Slot
    BY <1>6, <2>2, TypeParts DEF LogsOut, OtherTypes
  <2>5. ClientTypes' /\ ManagerTypes' /\ OtherTypes'
    BY <1>6, <2>1, <2>3, <2>4, TypeParts DEF LogsOut, ClientTypes, ManagerTypes, OtherTypes
  <2>6. QED BY <1>6, <2>5, Unmoved, TypePartsNext DEF LogsOut
<1>7. CASE StopIsBroadcast(t)
  <2>3. thread' \in [Thread -> Threads] /\ thread[t].sock \in Conn \cup {None}
    BY <1>7, StopMoves, Typed DEF Threads
  <2>1. toClient' \in [Conn -> Seq(Messages)] /\ up' \in BOOLEAN
    BY <1>7, <2>3, WritesAppends DEF StopIsBroadcast, Packet
  <2>2. ClientTypes' /\ ManagerTypes' /\ OtherTypes'
    BY <1>7, <2>1, <2>3, TypeParts DEF StopIsBroadcast, ClientTypes, ManagerTypes, OtherTypes
  <2>4. QED BY <1>7, <2>2, Unmoved, TypePartsNext DEF StopIsBroadcast
<1>8. CASE Closes(t)
  <2>1. /\ thread' \in [Thread -> Threads] /\ swept' \subseteq User /\ routing' \in BOOLEAN
        /\ slots' \in Tables /\ closed' \subseteq Conn /\ retired' \subseteq User \X Slot
    BY <1>8, ClosesMoves, ClosesFrees
  <2>2. UNCHANGED <<clientVars, toServer, toClient, acceptorVars, waiting, router, slave,
                    locked, managerVars, up, late, fresh>>
    BY <1>8, ClosesFrees
  <2>3. ManagerTypes' /\ OtherTypes'
    BY <2>1, <2>2, TypeParts DEF ManagerTypes, OtherTypes
  <2>4. QED BY <2>2, <2>3, Unmoved, TypePartsNext
<1>9. CASE Releases(t)
  <2>1. thread[t].user \in User /\ thread[t].slot \in Slot
    BY <1>9, Typed DEF Releases, ThreadAt, Threads
  <2>2. slots' \in Tables
    BY <1>9, <2>1, WritesWaiting DEF Releases
  <2>3. thread' \in [Thread -> Threads]
    BY <1>9, Typed, IdleTyped DEF Releases
  <2>4. ManagerTypes'
    BY <1>9, <2>2, <2>3, TypeParts DEF Releases, ManagerTypes
  <2>5. QED BY <1>9, <2>4, Unmoved, TypePartsNext DEF Releases
<1>10. QED BY <1>1, <1>2, <1>3, <1>4, <1>5, <1>6, <1>7, <1>8, <1>9 DEF Handler

-----------------------------------------------------------------------------
(* Where connections are.                                                  *)

\* A client gets only what is written to it.
LEMMA GetsWhatIsWritten ==
    ASSUME TypeOK, NEW S, NEW kind \in Packet, NEW from \in Conn \cup {None},
           Writes(S, kind, from), NEW c \in Conn, NEW k \in DOMAIN toClient'[c]
    PROVE  \/ k \in DOMAIN toClient[c] /\ toClient'[c][k] = toClient[c][k]
           \/ c \in S /\ toClient'[c][k] = [kind |-> kind, from |-> from]
<1> DEFINE m == [kind |-> kind, from |-> from]
<1>1. toClient[c] \in Seq(Messages) /\ m \in Messages
  BY Typed DEF Messages
<1> HIDE DEF m
<1>2. CASE toClient'[c] = toClient[c]
  BY <1>2
<1>3. CASE c \in S /\ toClient'[c] = Append(toClient[c], m)
  <2>1. /\ Len(Append(toClient[c], m)) = Len(toClient[c]) + 1 /\ Len(toClient[c]) \in Nat
        /\ DOMAIN toClient[c] = 1 .. Len(toClient[c])
        /\ DOMAIN Append(toClient[c], m) = 1 .. Len(Append(toClient[c], m))
        /\ \A j \in 1 .. Len(toClient[c]) : Append(toClient[c], m)[j] = toClient[c][j]
        /\ Append(toClient[c], m)[Len(toClient[c]) + 1] = m
    BY <1>1, AppendProperties, LenProperties
  <2>2. QED BY <1>3, <2>1 DEF m
<1>4. QED BY <1>2, <1>3, WritesAppends DEF m

\* No step but the router's answer makes a client believe that it is logged in.
LEMMA OtherAnswers ==
    ASSUME TypeOK, NEW S, NEW kind \in Packet, NEW from \in Conn \cup {None},
           Writes(S, kind, from), NEW c \in Conn, Got(c, "LOGIN_ACCEPT_RESP")'
    PROVE  Got(c, "LOGIN_ACCEPT_RESP") \/ (kind = "LOGIN_ACCEPT_RESP" /\ c \in S)
<1>1. PICK k \in DOMAIN toClient'[c] : toClient'[c][k].kind = "LOGIN_ACCEPT_RESP"
  BY DEF Got
<1>2. CASE k \in DOMAIN toClient[c] /\ toClient'[c][k] = toClient[c][k]
  BY <1>1, <1>2 DEF Got
<1>3. CASE c \in S /\ toClient'[c][k] = [kind |-> kind, from |-> from]
  BY <1>1, <1>3
<1>4. QED BY <1>2, <1>3, GetsWhatIsWritten

\* Connections that stay where they are, or leave the table and are closed.
LEMMA Leaving ==
    ASSUME TypeOK, TypeOK', Placed, Table,
           UNCHANGED <<userOf, backlog, out, slave, router>>,
           \A c \in Conn : status'[c] = "away" => status[c] = "away",
           \A c \in Conn : Got(c, "LOGIN_ACCEPT_RESP")' => Got(c, "LOGIN_ACCEPT_RESP"),
           \A u \in User, i \in Slot :
              \/ slots'[u][i].sock = slots[u][i].sock
              \/ /\ slots'[u][i].sock = None
                 /\ slots[u][i].sock # None => slots[u][i].sock \in closed',
           closed \subseteq closed',
           \A c \in closed' \ closed :
              \E u \in User, i \in Slot : slots[u][i].sock = c /\ slots'[u][i].sock = None
    PROVE  Placed' /\ Table'
<1>1. ASSUME NEW c \in Conn PROVE Registered(c)' => Registered(c)
  BY Constants DEF Registered
<1>2. ASSUME NEW c \in Conn, Registered(c) PROVE Registered(c)' \/ c \in closed'
  BY <1>2, Constants DEF Registered
<1>3. ASSUME NEW c \in closed' \ closed PROVE Registered(c) /\ ~Registered(c)'
  <2>1. PICK u \in User, i \in Slot : slots[u][i].sock = c /\ slots'[u][i].sock = None
    BY <1>3
  <2>2. c # None
    BY <1>3, Constants DEF TypeOK
  <2>3. ASSUME NEW v \in User, NEW j \in Slot, slots'[v][j].sock = c PROVE FALSE
    BY <2>1, <2>2, <2>3 DEF Table
  <2>4. QED BY <2>1, <2>3 DEF Registered
<1>4. \A c \in Conn : Unserved(c)' <=> Unserved(c)
  BY DEF Unserved
<1>5. ASSUME NEW c \in Conn
      PROVE  /\ status'[c] = "away" => ~Unserved(c)' /\ ~Registered(c)' /\ c \notin closed'
             /\ Unserved(c)' => ~Registered(c)' /\ c \notin closed'
             /\ Registered(c)' => c \notin closed'
             /\ Got(c, "LOGIN_ACCEPT_RESP")' => Registered(c)' \/ c \in closed'
  BY <1>1, <1>2, <1>3, <1>4 DEF Placed
<1>6. router' = "reply" => Registered(slave)' \/ slave' \in closed'
  <2>1. slave # None => slave \in Conn
    BY DEF TypeOK
  <2>2. QED BY <2>1, <1>2 DEF Placed
<1>7. Placed'
  BY <1>5, <1>6 DEF Placed
<1>8. Table'
  BY DEF Table
<1>9. QED BY <1>7, <1>8

\* A client connects.
LEMMA DialPlaced ==
    ASSUME TypeOK, Placed, Table, NEW d \in Conn, Dial(d)
    PROVE  Placed' /\ Table'
<1> USE DEF clientVars, acceptorVars, managerVars, history
<1>1. UNCHANGED <<userOf, out, slave, router, closed, slots, toClient>>
  BY DEF Dial
<1>2. backlog' = backlog \cup {d} /\ status[d] = "away" /\ status'[d] # "away"
      /\ \A c \in Conn : c # d => status'[c] = status[c]
  BY DEF Dial, TypeOK
<1>3. ASSUME NEW c \in Conn
      PROVE  /\ Registered(c)' <=> Registered(c)
             /\ Got(c, "LOGIN_ACCEPT_RESP")' <=> Got(c, "LOGIN_ACCEPT_RESP")
  BY <1>1 DEF Registered, Got
<1>4. ~Unserved(d) /\ ~Registered(d) /\ d \notin closed
  BY <1>2 DEF Placed
<1>5. d # None
  BY Constants
<1>6. out # d /\ slave # d
  <2>1. router \in {"read", "login"} \/ (router = "reply" /\ (Registered(slave) \/ slave \in closed))
           \/ slave = None
    BY DEF Placed
  <2>2. QED BY <1>4, <1>5, <2>1 DEF Unserved
<1>7. ASSUME NEW c \in Conn PROVE Unserved(c)' <=> Unserved(c) \/ c = d
  BY <1>1, <1>2 DEF Unserved
<1>8. Placed'
  <2>1. ASSUME NEW c \in Conn
        PROVE  /\ status'[c] = "away" => ~Unserved(c)' /\ ~Registered(c)' /\ c \notin closed'
               /\ Unserved(c)' => ~Registered(c)' /\ c \notin closed'
               /\ Registered(c)' => c \notin closed'
               /\ Got(c, "LOGIN_ACCEPT_RESP")' => Registered(c)' \/ c \in closed'
    BY <1>1, <1>2, <1>3, <1>4, <1>7 DEF Placed
  <2>2. out' \notin backlog' /\ slave' \notin backlog' /\ (slave' # None => slave' # out')
    BY <1>1, <1>2, <1>6 DEF Placed
  <2>3. slave' # None <=> router' \in {"read", "login", "reply"}
    BY <1>1 DEF Placed
  <2>4. router' = "reply" => Registered(slave)' \/ slave' \in closed'
    BY <1>1 DEF Placed, Registered
  <2>5. QED BY <2>1, <2>2, <2>3, <2>4 DEF Placed
<1>9. Table'
  BY <1>1 DEF Table
<1>10. QED BY <1>8, <1>9

\* The acceptor and the router pass a connection on until it is registered.
LEMMA PassedOn ==
    ASSUME TypeOK, Placed, Table,
           UNCHANGED <<userOf, status, closed, slots>>,
           \A c \in Conn : Got(c, "LOGIN_ACCEPT_RESP")' => Got(c, "LOGIN_ACCEPT_RESP"),
           \A c \in Conn : Unserved(c)' => Unserved(c),
           out' \notin backlog', slave' \notin backlog', slave' # None => slave' # out',
           slave' # None <=> router' \in {"read", "login", "reply"},
           router' = "reply" => Registered(slave)' \/ slave' \in closed'
    PROVE  Placed' /\ Table'
<1>1. \A c \in Conn : Registered(c)' <=> Registered(c)
  BY DEF Registered
<1>2. Placed'
  BY <1>1 DEF Placed
<1>3. Table'
  BY DEF Table
<1>4. QED BY <1>2, <1>3

\* Steps of the clients and of the acceptor.
LEMMA ClientPlaces ==
    ASSUME TypeOK, TypeOK', Placed, Table, NEW d \in Conn, Client(d)
    PROVE  Placed' /\ Table'
<1> USE DEF clientVars, acceptorVars, managerVars, history
<1>1. CASE Dial(d)
  BY <1>1, DialPlaced
<1>2. CASE HangUp(d)
  <2>1. /\ UNCHANGED <<userOf, backlog, out, slave, router, closed, slots, toClient>>
        /\ \A c \in Conn : status'[c] = "away" => status[c] = "away"
    BY <1>2 DEF HangUp, TypeOK
  <2>2. \A c \in Conn : Got(c, "LOGIN_ACCEPT_RESP")' => Got(c, "LOGIN_ACCEPT_RESP")
    BY <2>1 DEF Got
  <2>3. QED BY <2>1, <2>2, Leaving
<1>3. ASSUME NEW k \in Kind \cup {"LOGIN"}, Send(d, k) PROVE Placed' /\ Table'
  <2>1. UNCHANGED <<userOf, status, backlog, out, slave, router, closed, slots, toClient>>
    BY <1>3 DEF Send
  <2>2. \A c \in Conn : Got(c, "LOGIN_ACCEPT_RESP")' => Got(c, "LOGIN_ACCEPT_RESP")
    BY <2>1 DEF Got
  <2>3. QED BY <2>1, <2>2, Leaving
<1>4. QED BY <1>1, <1>2, <1>3 DEF Client

\* Steps that only the end of the process or of a loop is decided by.
LEMMA Resting ==
    ASSUME TypeOK, TypeOK', Placed, Table,
           UNCHANGED <<userOf, status, backlog, out, slave, closed, slots, toClient>>,
           router' = router
    PROVE  Placed' /\ Table'
<1>1. \A c \in Conn : Got(c, "LOGIN_ACCEPT_RESP")' => Got(c, "LOGIN_ACCEPT_RESP")
  BY DEF Got
<1>2. QED BY <1>1, Leaving

LEMMA AcceptorPlaces ==
    ASSUME TypeOK, TypeOK', Placed, Table, Acceptor
    PROVE  Placed' /\ Table'
<1> USE DEF clientVars, acceptorVars, managerVars, history
<1>1. CASE AcceptorChecks
  BY <1>1, Resting DEF AcceptorChecks
<1>2. ASSUME NEW d \in Conn, Accepts(d) PROVE Placed' /\ Table'
  <2>1. UNCHANGED <<userOf, status, closed, slots, slave, router, toClient>>
    BY <1>2 DEF Accepts
  <2>2. d \in backlog /\ out' = d /\ backlog' = backlog \ {d}
    BY <1>2 DEF Accepts
  <2>3. ASSUME NEW c \in Conn PROVE Unserved(c)' => Unserved(c)
    BY <2>1, <2>2 DEF Unserved
  <2>4. \A c \in Conn : Got(c, "LOGIN_ACCEPT_RESP")' => Got(c, "LOGIN_ACCEPT_RESP")
    BY <2>1 DEF Got
  <2>5. out' \notin backlog' /\ slave' \notin backlog' /\ (slave' # None => slave' # out')
    BY <2>1, <2>2 DEF Placed
  <2>6. slave' # None <=> router' \in {"read", "login", "reply"}
    BY <2>1 DEF Placed
  <2>7. router' = "reply" => Registered(slave)' \/ slave' \in closed'
    BY <2>1 DEF Placed, Registered
  <2>8. QED BY <2>1, <2>3, <2>4, <2>5, <2>6, <2>7, PassedOn
<1>3. QED BY <1>1, <1>2 DEF Acceptor

\* The router registers the connection it holds.
LEMMA RegistersPlaces ==
    ASSUME TypeOK, TypeOK', Placed, Table, Registers
    PROVE  Placed' /\ Table'
<1> USE DEF clientVars, acceptorVars, managerVars, history
<1>1. slave \in Conn /\ slave # None /\ router = "login"
  BY DEF Placed, Registers, TypeOK
<1>2. Unserved(slave) /\ ~Registered(slave) /\ slave \notin closed
  BY <1>1 DEF Unserved, Placed
<1>3. PICK i \in Slot :
         /\ slots[userOf[slave]][i].sock = None
         /\ slots' \in Tables
         /\ \A v \in User, j \in Slot :
               /\ slots'[v][j].sock = IF v = userOf[slave] /\ j = i THEN slave ELSE slots[v][j].sock
               /\ slots'[v][j].waiting =
                     IF v = userOf[slave] /\ j = i THEN FALSE ELSE slots[v][j].waiting
  BY <1>1, RegistersFills
<1>4. /\ UNCHANGED <<userOf, status, closed, toClient, backlog, out, slave>>
      /\ router' = "reply"
  BY DEF Registers
<1>5. /\ userOf[slave] \in User /\ slots'[userOf[slave]][i].sock = slave
      /\ \A v \in User, j \in Slot :
            v # userOf[slave] \/ j # i => slots'[v][j].sock = slots[v][j].sock
  BY <1>1, <1>3, Typed
<1>6. ASSUME NEW c \in Conn PROVE Registered(c)' <=> Registered(c) \/ c = slave
  <2>1. ASSUME NEW v \in User, NEW j \in Slot, slots[v][j].sock = c PROVE slots'[v][j].sock = c
    BY <1>3, <1>5, <2>1, Constants
  <2>2. ASSUME NEW v \in User, NEW j \in Slot, slots'[v][j].sock = c, c # slave
        PROVE  slots[v][j].sock = c
    BY <1>5, <2>2
  <2>3. QED BY <1>5, <2>1, <2>2 DEF Registered
<1>7. ASSUME NEW c \in Conn PROVE Unserved(c)' <=> Unserved(c) /\ c # slave
  <2>1. slave \notin backlog /\ slave # out
    BY <1>1 DEF Placed
  <2>2. QED BY <1>1, <1>4, <2>1 DEF Unserved
<1>8. ASSUME NEW c \in Conn
      PROVE  /\ status'[c] = "away" => ~Unserved(c)' /\ ~Registered(c)' /\ c \notin closed'
             /\ Unserved(c)' => ~Registered(c)' /\ c \notin closed'
             /\ Registered(c)' => c \notin closed'
             /\ Got(c, "LOGIN_ACCEPT_RESP")' => Registered(c)' \/ c \in closed'
  <2>1. Got(c, "LOGIN_ACCEPT_RESP")' => Got(c, "LOGIN_ACCEPT_RESP")
    BY <1>4 DEF Got
  <2>2. QED BY <2>1, <1>2, <1>4, <1>6, <1>7 DEF Placed
<1>9. Placed'
  <2>1. Registered(slave)'
    BY <1>4, <1>5 DEF Registered
  <2>2. out' \notin backlog' /\ slave' \notin backlog' /\ slave' # None /\ slave' # out'
    BY <1>1, <1>4 DEF Placed
  <2>3. QED BY <1>4, <1>8, <2>1, <2>2 DEF Placed
<1>10. ASSUME NEW v \in User, NEW j \in Slot PROVE slots[v][j].sock # slave
  BY <1>2 DEF Registered
<1>11. Table'
  <2>1. ASSUME NEW u \in User, NEW v \in User, NEW j \in Slot, NEW k \in Slot,
               slots'[u][j].sock # None, slots'[u][j].sock = slots'[v][k].sock
        PROVE  u = v /\ j = k
    <3>1. slots[u][j].sock # None /\ slots[u][j].sock = slots[v][k].sock => u = v /\ j = k
      BY DEF Table
    <3>2. CASE slots'[u][j].sock = slave
      <4>1. ASSUME NEW w \in User, NEW l \in Slot, slots'[w][l].sock = slave
            PROVE  w = userOf[slave] /\ l = i
        BY <1>5, <1>10, <4>1
      <4>2. slots'[v][k].sock = slave
        BY <2>1, <3>2
      <4>3. QED BY <3>2, <4>1, <4>2
    <3>3. CASE slots'[u][j].sock # slave
      BY <1>5, <2>1, <3>1, <3>3
    <3>4. QED BY <3>2, <3>3
  <2>2. ASSUME NEW u \in User, NEW j \in Slot, slots'[u][j].sock # None
        PROVE  userOf'[slots'[u][j].sock] = u
    <3>1. slots[u][j].sock # None => userOf[slots[u][j].sock] = u
      BY DEF Table
    <3>2. CASE u = userOf[slave] /\ j = i
      BY <1>4, <1>5, <3>2
    <3>3. CASE u # userOf[slave] \/ j # i
      BY <1>4, <1>5, <2>2, <3>1, <3>3
    <3>4. QED BY <3>2, <3>3
  <2>3. QED BY <2>1, <2>2 DEF Table
<1>12. QED BY <1>9, <1>11

LEMMA RouterPlaces ==
    ASSUME TypeOK, TypeOK', Placed, Table, RouterStep
    PROVE  Placed' /\ Table'
<1> USE DEF clientVars, acceptorVars, managerVars, history
<1>1. CASE RouterPolls
  <2>1. /\ UNCHANGED <<userOf, status, closed, slots, toClient, backlog>>
        /\ router = "poll" /\ slave = None
    BY <1>1 DEF RouterPolls, Placed
  <2>2. \A c \in Conn : Got(c, "LOGIN_ACCEPT_RESP")' => Got(c, "LOGIN_ACCEPT_RESP")
    BY <2>1 DEF Got
  <2>3. CASE router' = "done" /\ UNCHANGED <<slave, waiting, out>>
    <3>1. \A c \in Conn : Unserved(c)' => Unserved(c)
      BY <2>1, <2>3 DEF Unserved
    <3>2. QED BY <2>1, <2>2, <2>3, <3>1, PassedOn DEF Placed
  <2>4. CASE waiting /\ router' = "read" /\ slave' = out /\ out' = None
    <3>1. out \in Conn /\ out \notin backlog
      BY <2>4 DEF TypeOK, Placed
    <3>2. ASSUME NEW c \in Conn PROVE Unserved(c)' => Unserved(c)
      BY <2>1, <2>4, Constants DEF Unserved
    <3>3. out' \notin backlog'
      BY <2>1, <2>4, Constants DEF TypeOK
    <3>4. slave' \notin backlog' /\ slave' # None /\ slave' # out'
      BY <2>1, <2>4, <3>1, Constants
    <3>5. QED BY <2>1, <2>2, <2>4, <3>2, <3>3, <3>4, PassedOn
  <2>5. QED BY <1>1, <2>3, <2>4 DEF RouterPolls
<1>2. CASE RouterReads
  <2>1. /\ UNCHANGED <<userOf, status, closed, slots, toClient, backlog, out>>
        /\ router = "read"
        /\ \/ router' = "login" /\ slave' = slave
           \/ router' = "poll" /\ slave' = None
    BY <1>2 DEF RouterReads
  <2>2. \A c \in Conn : Got(c, "LOGIN_ACCEPT_RESP")' => Got(c, "LOGIN_ACCEPT_RESP")
    BY <2>1 DEF Got
  <2>3. ASSUME NEW c \in Conn PROVE Unserved(c)' => Unserved(c)
    BY <2>1, Constants DEF Unserved
  <2>4. out' \notin backlog' /\ slave' \notin backlog' /\ (slave' # None => slave' # out')
    BY <2>1, Constants DEF Placed, TypeOK
  <2>5. slave' # None <=> router' \in {"read", "login", "reply"}
    BY <2>1 DEF Placed
  <2>6. QED BY <2>1, <2>2, <2>3, <2>4, <2>5, PassedOn
<1>3. CASE RouterReadFails
  BY <1>3, Resting DEF RouterReadFails, Terminates
<1>4. CASE Registers
  BY <1>4, RegistersPlaces
<1>5. CASE Refuses
  <2>1. /\ UNCHANGED <<userOf, status, closed, slots, backlog, out>>
        /\ router' = "poll" /\ slave' = None
    BY <1>5 DEF Refuses
  <2>2. ASSUME NEW c \in Conn, Got(c, "LOGIN_ACCEPT_RESP")'
        PROVE  Got(c, "LOGIN_ACCEPT_RESP")
    <3>1. slave \in Conn \cup {None} /\ "LOGIN_REFUSE_RESP" \in Packet
      BY DEF TypeOK, Packet
    <3>2. QED BY <1>5, <2>2, <3>1, OtherAnswers DEF Refuses
  <2>3. ASSUME NEW c \in Conn PROVE Unserved(c)' => Unserved(c)
    BY <2>1, Constants DEF Unserved
  <2>4. out' \notin backlog' /\ slave' \notin backlog'
    BY <2>1, Constants DEF Placed, TypeOK
  <2>5. QED BY <2>1, <2>2, <2>3, <2>4, PassedOn
<1>6. CASE RepliesToLogin
  <2>1. /\ UNCHANGED <<userOf, status, closed, slots, backlog, out>>
        /\ router = "reply" /\ router' = "poll" /\ slave' = None
    BY <1>6 DEF RepliesToLogin
  <2>2. slave \in Conn /\ (Registered(slave) \/ slave \in closed)
    BY <2>1 DEF Placed, TypeOK
  <2>3. ASSUME NEW c \in Conn PROVE Registered(c)' <=> Registered(c)
    BY <2>1 DEF Registered
  <2>4. ASSUME NEW c \in Conn, Got(c, "LOGIN_ACCEPT_RESP")'
        PROVE  Got(c, "LOGIN_ACCEPT_RESP") \/ c = slave
    <3>1. slave \in Conn \cup {None} /\ "LOGIN_ACCEPT_RESP" \in Packet
      BY DEF TypeOK, Packet
    <3>2. QED BY <1>6, <2>4, <3>1, OtherAnswers DEF RepliesToLogin
  <2>5. ASSUME NEW c \in Conn PROVE Unserved(c)' => Unserved(c)
    BY <2>1, Constants DEF Unserved
  <2>6. ASSUME NEW c \in Conn
        PROVE  /\ status'[c] = "away" => ~Unserved(c)' /\ ~Registered(c)' /\ c \notin closed'
               /\ Unserved(c)' => ~Registered(c)' /\ c \notin closed'
               /\ Registered(c)' => c \notin closed'
               /\ Got(c, "LOGIN_ACCEPT_RESP")' => Registered(c)' \/ c \in closed'
    BY <2>1, <2>2, <2>3, <2>4, <2>5 DEF Placed
  <2>7. out' \notin backlog' /\ slave' \notin backlog'
    BY <2>1, Constants DEF Placed, TypeOK
  <2>8. Placed'
    BY <2>1, <2>6, <2>7 DEF Placed
  <2>9. Table'
    BY <2>1 DEF Table
  <2>10. QED BY <2>8, <2>9
<1>7. QED BY <1>1, <1>2, <1>3, <1>4, <1>5, <1>6 DEF RouterStep

LEMMA ManagerPlaces ==
    ASSUME TypeOK, TypeOK', Placed, Table,
           ManagerStep \/ \E u \in User, i \in Slot : Scan(u, i)
    PROVE  Placed' /\ Table'
<1> USE DEF clientVars, acceptorVars, managerVars, history
<1>1. CASE ManagerEnds
  BY <1>1, Resting DEF ManagerEnds
<1>2. ASSUME NEW u \in User, NEW i \in Slot, Examines(u, i) PROVE Placed' /\ Table'
  BY <1>2, Resting DEF Examines
<1>3. CASE Dispatches
  <2>1. picked[1] \in User /\ picked[2] \in Slot
    BY <1>3 DEF Dispatches, TypeOK
  <2>2. \A v \in User, j \in Slot : slots'[v][j].sock = slots[v][j].sock
    BY <1>3, <2>1, WritesWaiting DEF Dispatches
  <2>3. UNCHANGED <<userOf, status, backlog, out, slave, router, closed, toClient>>
    BY <1>3 DEF Dispatches
  <2>4. \A c \in Conn : Got(c, "LOGIN_ACCEPT_RESP")' => Got(c, "LOGIN_ACCEPT_RESP")
    BY <2>3 DEF Got
  <2>5. QED BY <2>2, <2>3, <2>4, Leaving
<1>4. QED BY <1>1, <1>2, <1>3 DEF ManagerStep, Scan

\* A handler's answer or broadcast leaves the table alone.
LEMMA WritingPlaces ==
    ASSUME TypeOK, TypeOK', Placed, Table, NEW t \in Thread,
           NEW S, NEW kind \in Packet \ {"LOGIN_ACCEPT_RESP"}, Writes(S, kind, thread[t].sock),
           UNCHANGED <<userOf, status, backlog, out, slave, router>>,
           \A u \in User, i \in Slot :
              \/ slots'[u][i].sock = slots[u][i].sock
              \/ /\ slots'[u][i].sock = None
                 /\ slots[u][i].sock # None => slots[u][i].sock \in closed',
           closed \subseteq closed',
           \A c \in closed' \ closed :
              \E u \in User, i \in Slot : slots[u][i].sock = c /\ slots'[u][i].sock = None
    PROVE  Placed' /\ Table'
<1>1. thread[t].sock \in Conn \cup {None}
  BY Typed DEF Threads
<1>2. \A c \in Conn : Got(c, "LOGIN_ACCEPT_RESP")' => Got(c, "LOGIN_ACCEPT_RESP")
  BY <1>1, OtherAnswers
<1>3. QED BY <1>2, Leaving

LEMMA HandlerPlaces ==
    ASSUME TypeOK, TypeOK', Placed, Table, NEW t \in Thread, Handler(t) \/ ReadsTerminal(t),
           thread[t].pc # "none" => thread[t].user \in User, Sweeps(t)
    PROVE  Placed' /\ Table'
<1> USE DEF clientVars, acceptorVars, managerVars, history
<1>1. CASE Starts(t)
  BY <1>1, Resting DEF Starts
<1>2. CASE Reads(t)
  BY <1>2, Resting DEF Reads
<1>3. CASE ReadFails(t) \/ ReadsTerminal(t)
  BY <1>3, Resting DEF ReadFails, ReadsTerminal, Terminates
<1>4. CASE Serves(t)
  BY <1>4, WritingPlaces DEF Serves, Packet
<1>5. CASE Broadcasts(t)
  BY <1>5, WritingPlaces DEF Broadcasts, Packet
<1>6. CASE LogsOut(t)
  <2>1. thread[t].user \in User /\ thread[t].slot \in Slot
    BY <1>6, Typed DEF LogsOut, ThreadAt, Threads
  <2>2. \A v \in User, j \in Slot :
           slots'[v][j].sock =
              IF v = thread[t].user /\ j = thread[t].slot THEN None ELSE slots[v][j].sock
    BY <1>6, <2>1, LogsOutFrees
  <2>3. closed' = closed \cup ({slots[thread[t].user][thread[t].slot].sock} \ {None})
    BY <1>6 DEF LogsOut, Connection
  <2>4. UNCHANGED <<userOf, status, backlog, out, slave, router>>
    BY <1>6 DEF LogsOut
  <2>5. "LOGOUT_RESP" \in Packet /\ "LOGOUT_RESP" # "LOGIN_ACCEPT_RESP"
    BY DEF Packet
  <2>6. QED BY <1>6, <2>1, <2>2, <2>3, <2>4, <2>5, WritingPlaces, SMTT(30) DEF LogsOut
<1>7. CASE StopIsBroadcast(t)
  BY <1>7, WritingPlaces DEF StopIsBroadcast, Packet
<1>8. CASE Closes(t)
  <2>1. UNCHANGED <<userOf, status, backlog, out, slave, router, toClient>>
    BY <1>8, ClosesFrees
  <2>2. /\ \A u \in User, i \in Slot :
              \/ slots'[u][i].sock = slots[u][i].sock
              \/ /\ slots'[u][i].sock = None
                 /\ slots[u][i].sock # None => slots[u][i].sock \in closed'
        /\ closed \subseteq closed'
        /\ \A c \in closed' \ closed :
              \E u \in User, i \in Slot : slots[u][i].sock = c /\ slots'[u][i].sock = None
    BY <1>8, ClosesFrees
  <2>3. \A c \in Conn : Got(c, "LOGIN_ACCEPT_RESP")' => Got(c, "LOGIN_ACCEPT_RESP")
    BY <2>1 DEF Got
  <2>4. QED BY <2>1, <2>2, <2>3, Leaving
<1>9. CASE Releases(t)
  <2>1. thread[t].user \in User /\ thread[t].slot \in Slot
    BY <1>9, Typed DEF Releases, ThreadAt, Threads
  <2>2. \A v \in User, j \in Slot : slots'[v][j].sock = slots[v][j].sock
    BY <1>9, <2>1, ReleasesClears
  <2>3. UNCHANGED <<userOf, status, backlog, out, slave, router, closed, toClient>>
    BY <1>9 DEF Releases
  <2>4. \A c \in Conn : Got(c, "LOGIN_ACCEPT_RESP")' => Got(c, "LOGIN_ACCEPT_RESP")
    BY <2>3 DEF Got
  <2>5. QED BY <2>2, <2>3, <2>4, Leaving
<1>10. QED BY <1>1, <1>2, <1>3, <1>4, <1>5, <1>6, <1>7, <1>8, <1>9 DEF Handler

-----------------------------------------------------------------------------
(* Which thread serves which slot.                                         *)

\* Steps that neither start nor end a thread, nor change is_waiting of a slot
\* that has had one connection.
LEMMA HandlersStay ==
    ASSUME TypeOK, OneHandler,
           \A t \in Thread, u \in User, i \in Slot : Handles(t, u, i)' <=> Handles(t, u, i),
           \A u \in User, i \in Slot : <<u, i>> \notin retired' =>
              /\ slots'[u][i].waiting = slots[u][i].waiting
              /\ slots[u][i].sock # None => slots'[u][i].sock # None,
           retired \subseteq retired', picked' = picked
    PROVE  OneHandler'
<1>1. ASSUME NEW u \in User, NEW i \in Slot, <<u, i>> \notin retired'
      PROVE  /\ \A t \in Thread : Handles(t, u, i)' => slots'[u][i].waiting
             /\ slots'[u][i].waiting => \E t \in Thread : Handles(t, u, i)'
             /\ \A s, t \in Thread : Handles(s, u, i)' /\ Handles(t, u, i)' => s = t
             /\ slots'[u][i].waiting \/ picked' = <<u, i>> => slots'[u][i].sock # None
  <2>1. /\ \A t \in Thread : Handles(t, u, i) => slots[u][i].waiting
        /\ slots[u][i].waiting => \E t \in Thread : Handles(t, u, i)
        /\ \A s, t \in Thread : Handles(s, u, i) /\ Handles(t, u, i) => s = t
        /\ slots[u][i].waiting \/ picked = <<u, i>> => slots[u][i].sock # None
    BY <1>1 DEF OneHandler
  <2>2. QED BY <1>1, <2>1
<1>2. ASSUME picked' # None, picked' \notin retired'
      PROVE  ~slots'[picked'[1]][picked'[2]].waiting
  <2>1. PICK u \in User, i \in Slot : picked = <<u, i>>
    BY <1>2 DEF TypeOK
  <2>2. ~slots[u][i].waiting
    BY <1>2, <2>1 DEF OneHandler
  <2>3. QED BY <1>2, <2>1, <2>2
<1>3. QED BY <1>1, <1>2 DEF OneHandler

\* Steps outside the table and the threads.
LEMMA HandlersRest ==
    ASSUME TypeOK, OneHandler, UNCHANGED <<slots, thread, picked, retired>>
    PROVE  OneHandler'
<1>1. \A t \in Thread, u \in User, i \in Slot : Handles(t, u, i)' <=> Handles(t, u, i)
  BY DEF Handles
<1>2. QED BY <1>1, HandlersStay

\* A thread goes on with its request.
LEMMA HandlersMove ==
    ASSUME TypeOK, OneHandler, NEW t \in Thread, thread[t].pc # "none",
           \A s \in Thread : s # t => thread'[s] = thread[s],
           thread'[t].pc # "none", thread'[t].user = thread[t].user,
           thread'[t].slot = thread[t].slot,
           \A u \in User, i \in Slot : <<u, i>> \notin retired' =>
              /\ slots'[u][i].waiting = slots[u][i].waiting
              /\ slots[u][i].sock # None => slots'[u][i].sock # None,
           retired \subseteq retired', picked' = picked
    PROVE  OneHandler'
<1>1. ASSUME NEW s \in Thread, NEW u \in User, NEW i \in Slot
      PROVE  Handles(s, u, i)' <=> Handles(s, u, i)
  BY DEF Handles
<1>2. QED BY <1>1, HandlersStay

LEMMA RouterHandles ==
    ASSUME TypeOK, Placed, OneHandler, RouterStep
    PROVE  OneHandler'
<1> USE DEF clientVars, acceptorVars, managerVars, history
<1>1. CASE RouterPolls \/ RouterReads \/ RouterReadFails \/ Refuses \/ RepliesToLogin
  BY <1>1, HandlersRest DEF RouterPolls, RouterReads, RouterReadFails, Terminates, Refuses,
                            RepliesToLogin
<1>2. CASE Registers
  <2>1. slave \in Conn /\ slave # None
    BY <1>2, Constants DEF Placed, Registers, TypeOK
  <2>2. UNCHANGED <<thread, picked, retired>>
    BY <1>2 DEF Registers
  <2>3. PICK i \in Slot :
           /\ slots[userOf[slave]][i].sock = None
           /\ slots' \in Tables
           /\ \A v \in User, j \in Slot :
                 /\ slots'[v][j].sock =
                       IF v = userOf[slave] /\ j = i THEN slave ELSE slots[v][j].sock
                 /\ slots'[v][j].waiting =
                       IF v = userOf[slave] /\ j = i THEN FALSE ELSE slots[v][j].waiting
    BY <1>2, <2>1, RegistersFills
  <2>4. ASSUME NEW v \in User, NEW j \in Slot, <<v, j>> \notin retired'
        PROVE  /\ slots'[v][j].waiting = slots[v][j].waiting
               /\ slots[v][j].sock # None => slots'[v][j].sock # None
    <3>1. slots[v][j].waiting => slots[v][j].sock # None
      BY <2>2, <2>4 DEF OneHandler
    <3>2. CASE v = userOf[slave] /\ j = i
      <4>1. slots'[v][j].waiting = FALSE /\ slots[v][j].waiting \in BOOLEAN
        BY <2>3, <3>2, Typed DEF Tables
      <4>2. QED BY <2>3, <3>1, <3>2, <4>1
    <3>3. CASE ~(v = userOf[slave] /\ j = i)
      BY <2>3, <3>3
    <3>4. QED BY <3>2, <3>3
  <2>5. \A t \in Thread, u \in User, j \in Slot : Handles(t, u, j)' <=> Handles(t, u, j)
    BY <2>2 DEF Handles
  <2>6. QED BY <2>2, <2>4, <2>5, HandlersStay
<1>3. QED BY <1>1, <1>2 DEF RouterStep

LEMMA ManagerHandles ==
    ASSUME TypeOK, OneHandler, ManagerStep \/ \E u \in User, i \in Slot : Scan(u, i)
    PROVE  OneHandler'
<1> USE DEF clientVars, acceptorVars, managerVars, history
<1>1. CASE ManagerEnds
  BY <1>1, HandlersRest DEF ManagerEnds
<1>2. ASSUME NEW u \in User, NEW i \in Slot, Examines(u, i) PROVE OneHandler'
  <2>1. /\ UNCHANGED <<slots, thread, retired>> /\ picked' = <<u, i>>
        /\ slots[u][i].sock # None /\ ~slots[u][i].waiting
    BY <1>2 DEF Examines, Busy
  <2>2. \A t \in Thread, v \in User, j \in Slot : Handles(t, v, j)' <=> Handles(t, v, j)
    BY <2>1 DEF Handles
  <2>3. ASSUME NEW v \in User, NEW j \in Slot, <<v, j>> \notin retired'
        PROVE  /\ \A t \in Thread : Handles(t, v, j)' => slots'[v][j].waiting
               /\ slots'[v][j].waiting => \E t \in Thread : Handles(t, v, j)'
               /\ \A s, t \in Thread : Handles(s, v, j)' /\ Handles(t, v, j)' => s = t
               /\ slots'[v][j].waiting \/ picked' = <<v, j>> => slots'[v][j].sock # None
    BY <2>1, <2>2, <2>3 DEF OneHandler
  <2>4. ~slots'[picked'[1]][picked'[2]].waiting
    BY <2>1
  <2>5. QED BY <2>3, <2>4 DEF OneHandler
<1>3. CASE Dispatches
  <2>1. PICK u \in User, i \in Slot : picked = <<u, i>>
    BY <1>3 DEF Dispatches, TypeOK
  <2>2. PICK n \in Thread : n = NewThread /\ thread[n].pc = "none"
    BY <1>3, NewThreadIsNew DEF Dispatches
  <2>3. slots' = [slots EXCEPT ![u][i].waiting = TRUE] /\ picked' = None /\ retired' = retired
    BY <1>3, <2>1 DEF Dispatches
  <2>4. \A v \in User, j \in Slot :
           /\ slots'[v][j].sock = slots[v][j].sock
           /\ slots'[v][j].waiting = IF v = u /\ j = i THEN TRUE ELSE slots[v][j].waiting
    BY <2>3, WritesWaiting
  <2>5. /\ \A s \in Thread : s # n => thread'[s] = thread[s]
        /\ thread'[n].pc = "start" /\ thread'[n].user = u /\ thread'[n].slot = i
    BY <1>3, <2>1, <2>2, Typed DEF Dispatches, Idle
  <2>6. ASSUME NEW s \in Thread, NEW v \in User, NEW j \in Slot
        PROVE  Handles(s, v, j)' <=> Handles(s, v, j) \/ (s = n /\ v = u /\ j = i)
    BY <2>2, <2>5 DEF Handles
  <2>7. ASSUME NEW v \in User, NEW j \in Slot, <<v, j>> \notin retired'
        PROVE  /\ \A t \in Thread : Handles(t, v, j)' => slots'[v][j].waiting
               /\ slots'[v][j].waiting => \E t \in Thread : Handles(t, v, j)'
               /\ \A s, t \in Thread : Handles(s, v, j)' /\ Handles(t, v, j)' => s = t
               /\ slots'[v][j].waiting \/ picked' = <<v, j>> => slots'[v][j].sock # None
    <3>1. /\ \A t \in Thread : Handles(t, v, j) => slots[v][j].waiting
          /\ slots[v][j].waiting => \E t \in Thread : Handles(t, v, j)
          /\ \A s, t \in Thread : Handles(s, v, j) /\ Handles(t, v, j) => s = t
          /\ slots[v][j].waiting \/ picked = <<v, j>> => slots[v][j].sock # None
      BY <2>3, <2>7 DEF OneHandler
    <3>2. picked' # <<v, j>>
      BY <2>3, Constants
    <3>3. CASE v = u /\ j = i
      <4>1. ~slots[v][j].waiting
        BY <2>1, <2>3, <2>7, <3>3, Constants DEF OneHandler
      <4>2. \A t \in Thread : Handles(t, v, j)' <=> t = n
        BY <2>6, <3>1, <3>3, <4>1
      <4>3. slots'[v][j].waiting /\ slots'[v][j].sock # None
        BY <2>1, <2>4, <3>1, <3>3
      <4>4. QED BY <4>2, <4>3
    <3>4. CASE ~(v = u /\ j = i)
      <4>1. \A t \in Thread : Handles(t, v, j)' <=> Handles(t, v, j)
        BY <2>6, <3>4
      <4>2. slots'[v][j].waiting = slots[v][j].waiting /\ slots'[v][j].sock = slots[v][j].sock
        BY <2>4, <3>4
      <4>3. QED BY <3>1, <3>2, <4>1, <4>2
    <3>5. QED BY <3>3, <3>4
  <2>8. QED BY <2>3, <2>7 DEF OneHandler
<1>4. QED BY <1>1, <1>2, <1>3 DEF ManagerStep, Scan

LEMMA HandlerHandles ==
    ASSUME TypeOK, OneHandler, NEW t \in Thread, Handler(t) \/ ReadsTerminal(t),
           thread[t].pc # "none" => thread[t].user \in User, Sweeps(t)
    PROVE  OneHandler'
<1> USE DEF clientVars, acceptorVars, managerVars, history
<1>1. CASE Starts(t)
  <2>1. thread[t].pc = "start" /\ UNCHANGED <<slots, retired, picked>>
    BY <1>1 DEF Starts, ThreadAt
  <2>2. /\ \A s \in Thread : s # t => thread'[s] = thread[s]
        /\ thread'[t].pc = "reading" /\ thread'[t].user = thread[t].user
        /\ thread'[t].slot = thread[t].slot
    BY <1>1, <2>1, StartsMoves, Typed DEF Threads
  <2>3. QED BY <2>1, <2>2, HandlersMove
<1>2. CASE Reads(t)
  <2>1. thread[t].pc = "reading" /\ UNCHANGED <<slots, retired, picked>>
    BY <1>2 DEF Reads, ThreadAt
  <2>2. /\ \A s \in Thread : s # t => thread'[s] = thread[s]
        /\ thread'[t].pc = "serve" /\ thread'[t].user = thread[t].user
        /\ thread'[t].slot = thread[t].slot
    BY <1>2, <2>1, ReadsMoves, Typed DEF Threads
  <2>3. QED BY <2>1, <2>2, HandlersMove
<1>3. CASE ReadFails(t) \/ ReadsTerminal(t)
  BY <1>3, HandlersRest DEF ReadFails, ReadsTerminal, Terminates
<1>4. ASSUME NEW pc \in {"broadcast", "close", "release"}, Goto(t, pc), thread[t].pc # "none",
             picked' = picked, retired \subseteq retired',
             \A u \in User, i \in Slot : <<u, i>> \notin retired' =>
                /\ slots'[u][i].waiting = slots[u][i].waiting
                /\ slots[u][i].sock # None => slots'[u][i].sock # None
      PROVE  OneHandler'
  <2>1. /\ \A s \in Thread : s # t => thread'[s] = thread[s]
        /\ thread'[t].pc = pc /\ thread'[t].user = thread[t].user
        /\ thread'[t].slot = thread[t].slot
    BY <1>4, GotoMoves
  <2>2. QED BY <1>4, <2>1, HandlersMove
<1>5. CASE Serves(t)
  BY <1>4, <1>5 DEF Serves, ThreadAt
<1>6. CASE Broadcasts(t)
  BY <1>4, <1>6 DEF Broadcasts, ThreadAt
<1>7. CASE LogsOut(t)
  <2>1. thread[t].pc = "serve" /\ thread[t].user \in User /\ picked' = picked
        /\ Goto(t, "release") /\ retired' = retired \cup {<<thread[t].user, thread[t].slot>>}
    BY <1>7 DEF LogsOut, ThreadAt
  <2>2. ASSUME NEW u \in User, NEW i \in Slot, <<u, i>> \notin retired'
        PROVE  /\ slots'[u][i].waiting = slots[u][i].waiting
               /\ slots[u][i].sock # None => slots'[u][i].sock # None
    BY <1>7, <2>1, <2>2, LogsOutFrees
  <2>3. QED BY <1>4, <2>1, <2>2
<1>8. CASE StopIsBroadcast(t)
  <2>1. UNCHANGED <<slots, retired, picked>> /\ thread[t].pc = "serve"
    BY <1>8 DEF StopIsBroadcast, ThreadAt
  <2>2. /\ \A s \in Thread : s # t => thread'[s] = thread[s]
        /\ thread'[t].pc = "close" /\ thread'[t].user = thread[t].user
        /\ thread'[t].slot = thread[t].slot
    BY <1>8, StopMoves, Typed, ZenonT(30) DEF Threads
  <2>3. QED BY <2>1, <2>2, HandlersMove
<1>9. CASE Closes(t)
  <2>1. /\ thread[t].pc # "none" /\ thread'[t].pc # "none"
        /\ \A s \in Thread : s # t => thread'[s] = thread[s]
        /\ thread'[t].user = thread[t].user /\ thread'[t].slot = thread[t].slot
    BY <1>9, ClosesMoves
  <2>2. /\ picked' = picked /\ retired \subseteq retired'
        /\ \A u \in User, i \in Slot : <<u, i>> \notin retired' =>
              slots'[u][i].waiting = slots[u][i].waiting /\ slots'[u][i].sock = slots[u][i].sock
    BY <1>9, ClosesFrees DEF managerVars
  <2>3. QED BY <2>1, <2>2, HandlersMove
<1>10. CASE Releases(t)
  <2>1. /\ thread[t].pc = "release" /\ UNCHANGED <<retired, picked>>
        /\ \A s \in Thread : s # t => thread'[s] = thread[s]
        /\ thread'[t].pc = "none"
    BY <1>10, Typed DEF Releases, ThreadAt, Idle
  <2>2. \A v \in User, j \in Slot :
           /\ slots'[v][j].sock = slots[v][j].sock
           /\ slots'[v][j].waiting =
                 IF v = thread[t].user /\ j = thread[t].slot THEN FALSE ELSE slots[v][j].waiting
    BY <1>10, <2>1, ReleasesClears
  <2>3. ASSUME NEW s \in Thread, NEW v \in User, NEW j \in Slot
        PROVE  Handles(s, v, j)' <=> Handles(s, v, j) /\ s # t
    BY <2>1 DEF Handles
  <2>4. ASSUME NEW v \in User, NEW j \in Slot, <<v, j>> \notin retired'
        PROVE  /\ \A r \in Thread : Handles(r, v, j)' => slots'[v][j].waiting
               /\ slots'[v][j].waiting => \E r \in Thread : Handles(r, v, j)'
               /\ \A s, r \in Thread : Handles(s, v, j)' /\ Handles(r, v, j)' => s = r
               /\ slots'[v][j].waiting \/ picked' = <<v, j>> => slots'[v][j].sock # None
    <3>1. /\ \A r \in Thread : Handles(r, v, j) => slots[v][j].waiting
          /\ slots[v][j].waiting => \E r \in Thread : Handles(r, v, j)
          /\ \A s, r \in Thread : Handles(s, v, j) /\ Handles(r, v, j) => s = r
          /\ slots[v][j].waiting \/ picked = <<v, j>> => slots[v][j].sock # None
      BY <2>1, <2>4 DEF OneHandler
    <3>2. Handles(t, v, j) <=> v = thread[t].user /\ j = thread[t].slot
      BY <2>1 DEF Handles
    <3>3. CASE Handles(t, v, j)
      <4>1. \A r \in Thread : ~Handles(r, v, j)'
        BY <2>3, <3>1, <3>3
      <4>2. ~slots'[v][j].waiting /\ slots'[v][j].sock # None
        BY <2>2, <3>1, <3>2, <3>3, ZenonT(30)
      <4>3. QED BY <4>1, <4>2
    <3>4. CASE ~Handles(t, v, j)
      <4>1. \A r \in Thread : Handles(r, v, j)' <=> Handles(r, v, j)
        BY <2>3, <3>4
      <4>2. slots'[v][j].waiting = slots[v][j].waiting /\ slots'[v][j].sock = slots[v][j].sock
        BY <2>2, <3>2, <3>4
      <4>3. QED BY <2>1, <3>1, <4>1, <4>2
    <3>5. QED BY <3>3, <3>4
  <2>5. ASSUME picked' # None, picked' \notin retired'
        PROVE  ~slots'[picked'[1]][picked'[2]].waiting
    <3>1. PICK u \in User, i \in Slot : picked = <<u, i>>
      BY <2>1, <2>5 DEF TypeOK
    <3>2. ~slots[u][i].waiting
      BY <2>1, <2>5, <3>1 DEF OneHandler
    <3>3. ~slots'[u][i].waiting
      BY <2>2, <3>2
    <3>4. QED BY <2>1, <3>1, <3>3
  <2>6. QED BY <2>4, <2>5 DEF OneHandler
<1>11. QED BY <1>1, <1>2, <1>3, <1>5, <1>6, <1>7, <1>8, <1>9, <1>10 DEF Handler

-----------------------------------------------------------------------------
(* What a thread keeps of its connection.                                  *)

\* What Pointers says of one thread.
Points(t) ==
    thread[t].pc # "none" =>
        /\ thread[t].user \in User
        /\ thread[t].pc = "start" => thread[t].sock = None
        /\ thread[t].pc \in {"serve", "broadcast", "close", "shut", "release"} =>
              thread[t].sock # None
        /\ thread[t].sock # None =>
              /\ userOf[thread[t].sock] = thread[t].user
              /\ Connection(t).sock = thread[t].sock \/ thread[t].sock \in closed

LEMMA PointersPoint == Pointers <=> \A t \in Thread : Points(t)
BY DEF Pointers, Points

\* A connection that leaves its slot is closed: whoever points to it does not
\* mind.
LEMMA PointsStays ==
    ASSUME TypeOK, NEW t \in Thread, Points(t), thread'[t] = thread[t], userOf' = userOf,
           closed \subseteq closed',
           \A u \in User, i \in Slot :
              slots'[u][i].sock = slots[u][i].sock \/ slots[u][i].sock \in closed' \cup {None}
    PROVE  Points(t)'
<1>1. thread[t].slot \in Slot
  BY Typed DEF Threads
<1>2. CASE thread[t].pc # "none" /\ thread[t].sock # None /\ thread[t].sock \notin closed
  <2>1. thread[t].user \in User /\ Connection(t).sock = thread[t].sock
    BY <1>2 DEF Points
  <2>2. Connection(t)'.sock = Connection(t).sock \/ Connection(t).sock \in closed'
    BY <1>1, <1>2, <2>1 DEF Connection
  <2>3. QED BY <1>2, <2>1, <2>2 DEF Points
<1>3. CASE ~(thread[t].pc # "none" /\ thread[t].sock # None /\ thread[t].sock \notin closed)
  BY <1>3 DEF Points
<1>4. QED BY <1>2, <1>3

LEMMA PointersStay ==
    ASSUME TypeOK, Pointers, thread' = thread, userOf' = userOf, closed \subseteq closed',
           \A u \in User, i \in Slot :
              slots'[u][i].sock = slots[u][i].sock \/ slots[u][i].sock \in closed' \cup {None}
    PROVE  Pointers'
<1>1. \A t \in Thread : Points(t)'
  BY PointersPoint, PointsStays
<1>2. QED BY <1>1 DEF Pointers, Points

\* A thread goes on with its request.
LEMMA PointersMove ==
    ASSUME TypeOK, Pointers, NEW t \in Thread, thread[t].pc # "none",
           \A s \in Thread : s # t => thread'[s] = thread[s],
           thread'[t].pc \notin {"none", "start"}, thread'[t].user = thread[t].user,
           thread'[t].slot = thread[t].slot, thread'[t].sock = thread[t].sock,
           thread[t].sock # None, userOf' = userOf, closed \subseteq closed',
           \A u \in User, i \in Slot :
              slots'[u][i].sock = slots[u][i].sock \/ slots[u][i].sock \in closed' \cup {None}
    PROVE  Pointers'
<1>1. ASSUME NEW s \in Thread, s # t PROVE Points(s)'
  BY <1>1, PointersPoint, PointsStays
<1>2. Points(t)'
  <2>1. /\ thread[t].user \in User /\ userOf[thread[t].sock] = thread[t].user
        /\ Connection(t).sock = thread[t].sock \/ thread[t].sock \in closed
    BY DEF Pointers
  <2>2. thread[t].slot \in Slot
    BY Typed DEF Threads
  <2>3. Connection(t)'.sock = Connection(t).sock \/ Connection(t).sock \in closed' \cup {None}
    BY <2>1, <2>2 DEF Connection
  <2>4. Connection(t)'.sock = thread[t].sock \/ thread[t].sock \in closed'
    BY <2>1, <2>3
  <2>5. QED BY <2>1, <2>4 DEF Points
<1>3. QED BY <1>1, <1>2 DEF Pointers, Points

LEMMA ManagerPoints ==
    ASSUME TypeOK, Pointers, ManagerStep \/ \E u \in User, i \in Slot : Scan(u, i)
    PROVE  Pointers'
<1> USE DEF clientVars, acceptorVars, managerVars, history
<1>1. CASE ManagerEnds
  BY <1>1, PointersStay DEF ManagerEnds
<1>2. ASSUME NEW u \in User, NEW i \in Slot, Examines(u, i) PROVE Pointers'
  BY <1>2, PointersStay DEF Examines
<1>3. CASE Dispatches
  <2>1. PICK u \in User, i \in Slot : picked = <<u, i>>
    BY <1>3 DEF Dispatches, TypeOK
  <2>2. PICK n \in Thread : n = NewThread
    BY <1>3, NewThreadIsNew DEF Dispatches
  <2>3. slots' = [slots EXCEPT ![u][i].waiting = TRUE] /\ UNCHANGED <<userOf, closed>>
    BY <1>3, <2>1 DEF Dispatches
  <2>4. \A v \in User, j \in Slot : slots'[v][j].sock = slots[v][j].sock
    BY <2>3, WritesWaiting
  <2>5. /\ \A s \in Thread : s # n => thread'[s] = thread[s]
        /\ thread'[n].pc = "start" /\ thread'[n].user = u /\ thread'[n].sock = None
    BY <1>3, <2>1, <2>2, Typed DEF Dispatches, Idle
  <2>6. ASSUME NEW s \in Thread, s # n PROVE Points(s)'
    BY <2>3, <2>4, <2>5, <2>6, PointersPoint, PointsStays
  <2>7. Points(n)'
    BY <2>5 DEF Points
  <2>8. QED BY <2>6, <2>7 DEF Pointers, Points
<1>4. QED BY <1>1, <1>2, <1>3 DEF ManagerStep, Scan

LEMMA RouterPoints ==
    ASSUME TypeOK, Placed, Pointers, Acceptor \/ RouterStep
    PROVE  Pointers'
<1> USE DEF clientVars, acceptorVars, managerVars, history
<1>1. CASE AcceptorChecks \/ RouterPolls \/ RouterReads \/ RouterReadFails \/ Refuses
            \/ RepliesToLogin \/ \E c \in Conn : Accepts(c)
  BY <1>1, PointersStay DEF AcceptorChecks, RouterPolls, RouterReads, RouterReadFails, Terminates,
                            Refuses, RepliesToLogin, Accepts
<1>2. CASE Registers
  <2>1. slave \in Conn
    BY <1>2 DEF Placed, Registers, TypeOK
  <2>2. UNCHANGED <<thread, userOf, closed>>
    BY <1>2 DEF Registers
  <2>3. \A v \in User, j \in Slot :
           slots'[v][j].sock = slots[v][j].sock \/ slots[v][j].sock = None
    BY <1>2, <2>1, RegistersFills
  <2>4. QED BY <2>2, <2>3, PointersStay
<1>3. QED BY <1>1, <1>2 DEF Acceptor, RouterStep

LEMMA HandlerPoints ==
    ASSUME TypeOK, Table, Pointers, NEW t \in Thread, Handler(t) \/ ReadsTerminal(t), Sweeps(t)
    PROVE  Pointers'
<1> USE DEF clientVars, acceptorVars, managerVars, history
<1>1. CASE Starts(t)
  <2>1. /\ thread[t].pc = "start" /\ thread[t].user \in User /\ UNCHANGED <<slots, closed, userOf>>
        /\ thread[t].slot \in Slot
    BY <1>1, Typed DEF Starts, ThreadAt, Pointers, Threads
  <2>2. /\ \A s \in Thread : s # t => thread'[s] = thread[s]
        /\ thread'[t].pc = "reading" /\ thread'[t].user = thread[t].user
        /\ thread'[t].slot = thread[t].slot /\ thread'[t].sock = Connection(t).sock
    BY <1>1, <2>1, StartsMoves, Typed DEF Threads
  <2>3. Connection(t)'.sock = Connection(t).sock
    BY <2>1, <2>2 DEF Connection
  <2>4. Connection(t).sock # None => userOf[Connection(t).sock] = thread[t].user
    BY <2>1 DEF Table, Connection
  <2>5. Points(t)'
    BY <2>1, <2>2, <2>3, <2>4 DEF Points
  <2>6. ASSUME NEW s \in Thread, s # t PROVE Points(s)'
    BY <2>1, <2>2, <2>6, PointersPoint, PointsStays
  <2>7. QED BY <2>5, <2>6 DEF Pointers, Points
<1>2. CASE Reads(t)
  <2>1. /\ thread[t].pc = "reading" /\ UNCHANGED <<slots, closed, userOf>>
        /\ thread[t].sock # None
    BY <1>2 DEF Reads, ThreadAt
  <2>2. /\ \A s \in Thread : s # t => thread'[s] = thread[s]
        /\ thread'[t].pc = "serve" /\ thread'[t].user = thread[t].user
        /\ thread'[t].slot = thread[t].slot /\ thread'[t].sock = thread[t].sock
    BY <1>2, <2>1, ReadsMoves, Typed DEF Threads
  <2>3. QED BY <2>1, <2>2, PointersMove
<1>3. CASE ReadFails(t) \/ ReadsTerminal(t)
  BY <1>3, PointersStay DEF ReadFails, ReadsTerminal, Terminates
<1>4. ASSUME NEW pc \in {"broadcast", "close", "release"}, Goto(t, pc),
             thread[t].pc \in {"serve", "broadcast", "close"},
             userOf' = userOf, closed \subseteq closed',
             \A u \in User, i \in Slot :
                slots'[u][i].sock = slots[u][i].sock \/ slots[u][i].sock \in closed' \cup {None}
      PROVE  Pointers'
  <2>1. /\ \A s \in Thread : s # t => thread'[s] = thread[s]
        /\ thread'[t].pc = pc /\ thread'[t].user = thread[t].user
        /\ thread'[t].slot = thread[t].slot /\ thread'[t].sock = thread[t].sock
    BY <1>4, GotoMoves
  <2>2. thread[t].sock # None
    BY <1>4 DEF Pointers
  <2>3. QED BY <1>4, <2>1, <2>2, PointersMove
<1>5. CASE Serves(t)
  BY <1>4, <1>5 DEF Serves, ThreadAt
<1>6. CASE Broadcasts(t)
  BY <1>4, <1>6 DEF Broadcasts, ThreadAt
<1>7. CASE LogsOut(t)
  <2>1. /\ thread[t].pc = "serve" /\ thread[t].user \in User /\ userOf' = userOf
        /\ Goto(t, "release")
        /\ closed' = closed \cup ({slots[thread[t].user][thread[t].slot].sock} \ {None})
    BY <1>7 DEF LogsOut, ThreadAt, Connection, Pointers
  <2>2. ASSUME NEW u \in User, NEW i \in Slot
        PROVE  slots'[u][i].sock = slots[u][i].sock \/ slots[u][i].sock \in closed' \cup {None}
    BY <1>7, <2>1, LogsOutFrees
  <2>3. QED BY <1>4, <2>1, <2>2
<1>8. CASE StopIsBroadcast(t)
  <2>1. UNCHANGED <<slots, closed, userOf>> /\ thread[t].pc = "serve" /\ thread[t].sock # None
    BY <1>8 DEF StopIsBroadcast, ThreadAt, Pointers
  <2>2. /\ \A s \in Thread : s # t => thread'[s] = thread[s]
        /\ thread'[t].pc = "close" /\ thread'[t].user = thread[t].user
        /\ thread'[t].slot = thread[t].slot /\ thread'[t].sock = thread[t].sock
    BY <1>8, StopMoves, Typed, ZenonT(30) DEF Threads
  <2>3. QED BY <2>1, <2>2, PointersMove
<1>9. CASE Closes(t)
  <2>1. /\ thread[t].pc \in {"close", "shut"} /\ thread'[t].pc \notin {"none", "start"}
        /\ \A s \in Thread : s # t => thread'[s] = thread[s]
        /\ thread'[t].user = thread[t].user /\ thread'[t].slot = thread[t].slot
        /\ thread'[t].sock = thread[t].sock
    BY <1>9, ClosesMoves
  <2>2. /\ userOf' = userOf /\ closed \subseteq closed'
        /\ \A u \in User, i \in Slot :
              slots'[u][i].sock = slots[u][i].sock \/ slots[u][i].sock \in closed' \cup {None}
    BY <1>9, ClosesFrees DEF clientVars
  <2>3. thread[t].sock # None
    BY <2>1 DEF Pointers
  <2>4. QED BY <2>1, <2>2, <2>3, PointersMove
<1>10. CASE Releases(t)
  <2>1. /\ thread[t].pc = "release" /\ UNCHANGED <<userOf, closed>> /\ thread[t].user \in User
        /\ \A s \in Thread : s # t => thread'[s] = thread[s]
        /\ thread'[t].pc = "none"
    BY <1>10, Typed DEF Releases, ThreadAt, Idle, Pointers
  <2>2. \A v \in User, j \in Slot : slots'[v][j].sock = slots[v][j].sock
    BY <1>10, <2>1, ReleasesClears
  <2>3. Points(t)'
    BY <2>1 DEF Points
  <2>4. ASSUME NEW s \in Thread, s # t PROVE Points(s)'
    BY <2>1, <2>2, <2>4, PointersPoint, PointsStays
  <2>5. QED BY <2>3, <2>4 DEF Pointers, Points
<1>11. QED BY <1>1, <1>2, <1>3, <1>5, <1>6, <1>7, <1>8, <1>9, <1>10 DEF Handler

-----------------------------------------------------------------------------
(* Who is answered.                                                        *)

\* Packets that were delivered stay within their user as closed grows.
LEMMA AnswersKept ==
    ASSUME TypeOK, AnswersStayWithinUser, toClient' = toClient, userOf' = userOf,
           closed \subseteq closed'
    PROVE  AnswersStayWithinUser'
BY DEF AnswersStayWithinUser

\* One more packet, written for a request of the connection from.
LEMMA AnswersGrow ==
    ASSUME TypeOK, AnswersStayWithinUser, NEW S, NEW kind \in Packet,
           NEW from \in Conn \cup {None}, Writes(S, kind, from), userOf' = userOf,
           closed \subseteq closed',
           \A c \in Conn : c \in S =>
              /\ kind # "STOP_SERVER_BROADCAST" => userOf[from] = userOf[c]
              /\ kind \in {"RESP", "LOGOUT_RESP"} /\ from # c => from \in closed'
    PROVE  AnswersStayWithinUser'
<1>1. ASSUME NEW c \in Conn, NEW k \in DOMAIN toClient'[c]
      PROVE  /\ toClient'[c][k].kind # "STOP_SERVER_BROADCAST" =>
                   userOf'[toClient'[c][k].from] = userOf'[c]
             /\ toClient'[c][k].kind \in {"RESP", "LOGOUT_RESP"} /\ toClient'[c][k].from # c =>
                   toClient'[c][k].from \in closed'
  <2>1. CASE k \in DOMAIN toClient[c] /\ toClient'[c][k] = toClient[c][k]
    BY <2>1 DEF AnswersStayWithinUser
  <2>2. CASE c \in S /\ toClient'[c][k] = [kind |-> kind, from |-> from]
    BY <2>2
  <2>3. QED BY <2>1, <2>2, GetsWhatIsWritten
<1>2. QED BY <1>1 DEF AnswersStayWithinUser

\* The sockets that a loop over a user's connections reaches are the user's.
LEMMA ReachedAreOfUser ==
    ASSUME TypeOK, Table, NEW u \in User, NEW c \in Conn, c \in Reached(slots[u])
    PROVE  userOf[c] = u
<1>1. slots[u] \in [Slot -> [sock : Conn \cup {None}, waiting : BOOLEAN]]
  BY Typed DEF Tables
<1>2. Count(slots[u]) \in 0 .. 2
  BY <1>1, CountTyped
<1>3. PICK i \in 1 .. Count(slots[u]) : c = slots[u][i].sock
  BY DEF Reached
<1>4. i \in Slot
  BY <1>2, <1>3 DEF Slot, MAX_CONNECTIONS_PER_USER
<1>5. QED BY <1>3, <1>4, Constants DEF Table

LEMMA RouterAnswers ==
    ASSUME TypeOK, Placed, AnswersStayWithinUser, Acceptor \/ RouterStep
    PROVE  AnswersStayWithinUser'
<1> USE DEF clientVars, acceptorVars, managerVars, history
<1>1. CASE AcceptorChecks \/ RouterPolls \/ RouterReads \/ RouterReadFails \/ Registers
            \/ \E c \in Conn : Accepts(c)
  BY <1>1, AnswersKept DEF AcceptorChecks, RouterPolls, RouterReads, RouterReadFails, Terminates,
                           Registers, Accepts
<1>2. CASE Refuses
  <2>1. /\ slave \in Conn \cup {None} /\ "LOGIN_REFUSE_RESP" \in Packet
        /\ UNCHANGED <<userOf, closed>> /\ Writes({slave}, "LOGIN_REFUSE_RESP", slave)
    BY <1>2 DEF TypeOK, Packet, Refuses
  <2>2. QED BY <2>1, AnswersGrow
<1>3. CASE RepliesToLogin
  <2>1. /\ slave \in Conn \cup {None} /\ "LOGIN_ACCEPT_RESP" \in Packet
        /\ UNCHANGED <<userOf, closed>> /\ Writes({slave}, "LOGIN_ACCEPT_RESP", slave)
    BY <1>3 DEF TypeOK, Packet, RepliesToLogin
  <2>2. QED BY <2>1, AnswersGrow
<1>4. QED BY <1>1, <1>2, <1>3 DEF Acceptor, RouterStep

LEMMA HandlerAnswers ==
    ASSUME TypeOK, Table, Pointers, AnswersStayWithinUser, NEW t \in Thread,
           Handler(t) \/ ReadsTerminal(t), Sweeps(t)
    PROVE  AnswersStayWithinUser'
<1> USE DEF clientVars, acceptorVars, managerVars, history
<1> DEFINE from == thread[t].sock
<1>1. CASE Starts(t) \/ Reads(t) \/ ReadFails(t) \/ ReadsTerminal(t) \/ Closes(t) \/ Releases(t)
  <2>1. toClient' = toClient /\ userOf' = userOf /\ closed \subseteq closed'
    BY <1>1, ClosesFrees DEF Starts, Reads, ReadFails, ReadsTerminal, Terminates, Releases
  <2>2. QED BY <2>1, AnswersKept
<1>2. from \in Conn \cup {None} /\ thread[t].slot \in Slot
  BY Typed DEF Threads
<1>3. ASSUME thread[t].pc \in {"serve", "broadcast"}
      PROVE  /\ thread[t].user \in User /\ from # None /\ userOf[from] = thread[t].user
             /\ Connection(t).sock = from \/ from \in closed
             /\ Connection(t).sock # None => userOf[Connection(t).sock] = thread[t].user
  <2>1. /\ thread[t].user \in User /\ from # None /\ userOf[from] = thread[t].user
        /\ Connection(t).sock = from \/ from \in closed
    BY <1>3 DEF Pointers
  <2>2. Connection(t).sock # None => userOf[Connection(t).sock] = thread[t].user
    BY <1>2, <2>1 DEF Table, Connection
  <2>3. QED BY <2>1, <2>2
<1>4. CASE Serves(t) \/ LogsOut(t)
  <2>1. PICK kind \in {"RESP", "LOGOUT_RESP"} : Writes({Connection(t).sock}, kind, from)
    BY <1>4 DEF Serves, LogsOut
  <2>2. userOf' = userOf /\ closed \subseteq closed' /\ thread[t].pc = "serve"
    BY <1>4 DEF Serves, LogsOut, ThreadAt
  <2>3. ASSUME NEW c \in Conn, c \in {Connection(t).sock}
        PROVE  userOf[from] = userOf[c] /\ (from # c => from \in closed')
    BY <1>3, <2>2, <2>3, Constants
  <2>4. kind \in Packet
    BY DEF Packet
  <2> HIDE DEF from
  <2>5. QED BY <1>2, <2>1, <2>2, <2>3, <2>4, AnswersGrow
<1>5. CASE Broadcasts(t)
  <2>1. PICK S \in SUBSET Reached(slots[thread[t].user]),
             kind \in {"UPLOAD_BROADCAST", "DELETE_BROADCAST"} : Writes(S, kind, from)
    BY <1>5 DEF Broadcasts
  <2>2. userOf' = userOf /\ closed' = closed /\ thread[t].pc = "broadcast"
    BY <1>5 DEF Broadcasts, ThreadAt
  <2>3. ASSUME NEW c \in Conn, c \in S PROVE userOf[from] = userOf[c]
    BY <1>3, <2>1, <2>2, <2>3, ReachedAreOfUser
  <2>4. kind \in Packet
    BY DEF Packet
  <2> HIDE DEF from
  <2>5. QED BY <1>2, <2>1, <2>2, <2>3, <2>4, AnswersGrow
<1>6. CASE StopIsBroadcast(t)
  <2>1. PICK S : Writes(S, "STOP_SERVER_BROADCAST", from)
    BY <1>6 DEF StopIsBroadcast
  <2>2. userOf' = userOf /\ closed' = closed
    BY <1>6 DEF StopIsBroadcast
  <2>3. "STOP_SERVER_BROADCAST" \in Packet
    BY DEF Packet
  <2> HIDE DEF from
  <2>4. QED BY <1>2, <2>1, <2>2, <2>3, AnswersGrow
<1>7. QED BY <1>1, <1>4, <1>5, <1>6 DEF Handler

-----------------------------------------------------------------------------
(* How the server stops.                                                   *)

LEMMA RouterStops ==
    ASSUME TypeOK, Placed, Stopping, RouterStep
    PROVE  Stopping'
<1> USE DEF clientVars, acceptorVars, managerVars, history
<1>1. CASE RouterPolls
  <2>1. UNCHANGED <<late, routing>> /\ (~routing => router' = "done")
    BY <1>1 DEF RouterPolls
  <2>2. QED BY <2>1 DEF Stopping
<1>2. CASE RouterReads \/ Registers \/ Refuses
  <2>1. UNCHANGED <<late, routing>> /\ router \in {"read", "login"}
    BY <1>2 DEF RouterReads, Registers, Refuses
  <2>2. QED BY <2>1 DEF Stopping
<1>3. CASE RouterReadFails
  BY <1>3 DEF RouterReadFails, Terminates, Stopping
<1>4. CASE RepliesToLogin
  <2>1. /\ router = "reply" /\ router' = "poll" /\ UNCHANGED <<routing, slots>> /\ slave \in Conn
        /\ late' = IF routing THEN late ELSE late \cup {slave}
    BY <1>4 DEF RepliesToLogin, Placed, TypeOK
  <2>2. late = {}
    BY <2>1 DEF Stopping
  <2>3. QED BY <2>1, <2>2 DEF Stopping
<1>5. QED BY <1>1, <1>2, <1>3, <1>4 DEF RouterStep

LEMMA HandlerStops ==
    ASSUME TypeOK, Stopping, NEW t \in Thread, Handler(t) \/ ReadsTerminal(t), Sweeps(t)
    PROVE  Stopping'
<1> USE DEF clientVars, acceptorVars, managerVars, history
<1>1. CASE Starts(t) \/ Reads(t) \/ ReadFails(t) \/ ReadsTerminal(t) \/ Serves(t) \/ Broadcasts(t)
            \/ StopIsBroadcast(t) \/ LogsOut(t) \/ Releases(t)
  BY <1>1 DEF Starts, Reads, ReadFails, ReadsTerminal, Terminates, Serves, Broadcasts,
              StopIsBroadcast, LogsOut, Releases, Stopping
<1>2. CASE Closes(t)
  <2>1. UNCHANGED <<late, router>> /\ (~routing => ~routing')
    BY <1>2 DEF Closes, ClosesNext, ClosesCount, ClosesTurn, StopsRouting
  <2>2. QED BY <2>1 DEF Stopping
<1>3. QED BY <1>1, <1>2 DEF Handler

\* Steps that leave the users that are done with, and fill no first slot.
LEMMA SweepingStays ==
    ASSUME TypeOK, Sweeping, UNCHANGED <<swept, fresh, routing>>,
           \A u \in User : slots'[u][1].sock \in {slots[u][1].sock, None},
           \A t \in Thread : Sweeps(t)'
    PROVE  Sweeping'
BY DEF Sweeping, TypeOK

LEMMA SweepingRests ==
    ASSUME TypeOK, Sweeping, UNCHANGED <<swept, fresh, routing, slots, thread>>
    PROVE  Sweeping'
BY DEF Sweeping, Sweeps

\* A thread outside close_all_connections goes on.
LEMMA SweepingMoves ==
    ASSUME TypeOK, Sweeping, UNCHANGED <<swept, fresh, routing>>, NEW t \in Thread,
           \A u \in User : slots'[u][1].sock \in {slots[u][1].sock, None},
           \A s \in Thread : s # t => thread'[s] = thread[s],
           thread'[t].pc \notin {"close", "shut"},
           \/ thread'[t].at = thread[t].at /\ thread'[t].turn = thread[t].turn
           \/ thread'[t].at = None /\ thread'[t].turn = 1
    PROVE  Sweeping'
<1>1. ASSUME NEW s \in Thread, s # t PROVE Sweeps(s)'
  BY <1>1 DEF Sweeping, Sweeps
<1>2. Sweeps(t)'
  BY DEF Sweeping, Sweeps
<1>3. QED BY <1>1, <1>2, SweepingStays

LEMMA RouterSweeps ==
    ASSUME TypeOK, Placed, Sweeping, RouterStep
    PROVE  Sweeping'
<1> USE DEF clientVars, acceptorVars, managerVars, history
<1>1. CASE RouterPolls \/ RouterReads \/ RouterReadFails \/ Refuses \/ RepliesToLogin
  BY <1>1, SweepingRests DEF RouterPolls, RouterReads, RouterReadFails, Terminates, Refuses,
                             RepliesToLogin
<1>2. CASE Registers
  <2>1. /\ UNCHANGED <<routing, swept, thread>> /\ slave \in Conn
        /\ fresh' = IF userOf[slave] \in swept THEN fresh \cup {slave} ELSE fresh
    BY <1>2 DEF Registers, Placed, TypeOK
  <2>2. PICK i \in Slot :
           \A v \in User, j \in Slot :
              slots'[v][j].sock = IF v = userOf[slave] /\ j = i THEN slave ELSE slots[v][j].sock
    BY <1>2, <2>1, RegistersFills
  <2>3. ASSUME NEW u \in swept PROVE slots'[u][1].sock \in fresh' \cup {None}
    <3>1. u \in User /\ slots[u][1].sock \in fresh \cup {None}
      BY DEF Sweeping, TypeOK
    <3>2. CASE u = userOf[slave] /\ 1 = i
      BY <2>1, <2>2, <3>1, <3>2, Constants
    <3>3. CASE ~(u = userOf[slave] /\ 1 = i)
      BY <2>1, <2>2, <3>1, <3>3, Constants
    <3>4. QED BY <3>2, <3>3
  <2>4. \A t \in Thread : Sweeps(t)'
    BY <2>1 DEF Sweeping, Sweeps
  <2>5. QED BY <2>1, <2>3, <2>4 DEF Sweeping
<1>3. QED BY <1>1, <1>2 DEF RouterStep

LEMMA ManagerSweeps ==
    ASSUME TypeOK, Sweeping, ManagerStep \/ \E u \in User, i \in Slot : Scan(u, i)
    PROVE  Sweeping'
<1> USE DEF clientVars, acceptorVars, managerVars, history
<1>1. CASE ManagerEnds
  BY <1>1, SweepingRests DEF ManagerEnds
<1>2. ASSUME NEW u \in User, NEW i \in Slot, Examines(u, i) PROVE Sweeping'
  BY <1>2, SweepingRests DEF Examines
<1>3. CASE Dispatches
  <2>1. PICK u \in User, i \in Slot : picked = <<u, i>>
    BY <1>3 DEF Dispatches, TypeOK
  <2>2. PICK n \in Thread : n = NewThread
    BY <1>3, NewThreadIsNew DEF Dispatches
  <2>3. slots' = [slots EXCEPT ![u][i].waiting = TRUE] /\ UNCHANGED <<routing, swept, fresh>>
    BY <1>3, <2>1 DEF Dispatches
  <2>4. \A v \in User : slots'[v][1].sock = slots[v][1].sock
    BY <2>3, WritesWaiting, Constants
  <2>5. /\ \A s \in Thread : s # n => thread'[s] = thread[s]
        /\ thread'[n].pc = "start" /\ thread'[n].at = None /\ thread'[n].turn = 1
    BY <1>3, <2>1, <2>2, Typed DEF Dispatches, Idle
  <2>6. QED BY <2>3, <2>4, <2>5, SweepingMoves
<1>4. QED BY <1>1, <1>2, <1>3 DEF ManagerStep, Scan

\* One step of close_all_connections.
LEMMA ClosesSweeps ==
    ASSUME TypeOK, Sweeping, NEW t \in Thread, Closes(t)
    PROVE  Sweeping'
<1> USE DEF history
<1>1. /\ Sweeps(t) /\ thread[t] \in Threads /\ thread \in [Thread -> Threads] /\ swept \subseteq User
      /\ \A s \in Thread : s # t => thread'[s] = thread[s]
      /\ swept \subseteq swept' /\ fresh' = fresh
      /\ \A u \in User : slots'[u][1].sock \in {slots[u][1].sock, None}
  <2>1. Sweeps(t) /\ thread \in [Thread -> Threads] /\ swept \subseteq User
    BY Typed DEF Sweeping, TypeOK
  <2>2. swept \subseteq swept' /\ \A s \in Thread : s # t => thread'[s] = thread[s]
    BY <2>1, ClosesMoves
  <2>3. fresh' = fresh /\ \A u \in User : slots'[u][1].sock \in {slots[u][1].sock, None}
    BY <2>1, ClosesFrees, Constants
  <2>4. QED BY <2>1, <2>2, <2>3
<1>2. ASSUME NEW s \in Thread, s # t PROVE Sweeps(s)'
  BY <1>1, <1>2 DEF Sweeping, Sweeps
<1>3. ASSUME NEW u \in User, swept' \subseteq swept \cup {u}, routing' = routing,
             u \in swept \/ slots'[u][1].sock = None, Sweeps(t)'
      PROVE  Sweeping'
  BY <1>1, <1>2, <1>3 DEF Sweeping
<1>4. CASE ClosesNext(t)
  <2>1. PICK u \in thread[t].left :
           thread' = [thread EXCEPT ![t] = [thread[t] EXCEPT !.at = u, !.left = thread[t].left \ {u}]]
    BY <1>1, <1>4 DEF ClosesNext
  <2>2. /\ UNCHANGED <<routing, swept, slots>> /\ thread[t].at = None /\ thread[t].turn = 1
        /\ thread[t].pc = "close"
    BY <1>1, <1>4 DEF ClosesNext, ThreadAt, Sweeps
  <2>3. /\ thread'[t].at = u /\ thread'[t].left = thread[t].left \ {u}
        /\ thread'[t].pc = "close" /\ thread'[t].turn = 1
    BY <1>1, <2>1, <2>2 DEF Threads
  <2>4. User \subseteq thread[t].left \cup swept \cup {None}
    BY <1>1, <2>2 DEF Sweeps
  <2>5. User \subseteq thread'[t].left \cup swept' \cup {thread'[t].at}
    BY <2>2, <2>3, <2>4, Constants
  <2>6. Sweeps(t)'
    BY <2>3, <2>5 DEF Sweeps
  <2>7. QED BY <1>1, <1>2, <2>2, <2>6, SweepingStays
<1>5. CASE ClosesCount(t)
  <2>1. PICK u \in User : u = thread[t].at
    BY <1>1, <1>5 DEF ClosesCount, Threads
  <2>2. /\ UNCHANGED <<routing, slots>> /\ thread[t].pc = "close"
        /\ \/ thread[t].turn <= Count(slots[u]) /\ Goto(t, "shut") /\ swept' = swept
           \/ /\ thread[t].turn > Count(slots[u])
              /\ thread' = [thread EXCEPT ![t] = [thread[t] EXCEPT !.at = None, !.turn = 1]]
              /\ swept' = swept \cup {u}
    BY <1>1, <1>5, <2>1 DEF ClosesCount, ThreadAt
  <2>3. /\ Count(slots[u]) \in 0 .. 2 /\ (slots[u][1].sock # None => Count(slots[u]) >= 1)
        /\ thread[t].turn \in 1 .. 3
    <3>1. slots[u] \in [Slot -> [sock : Conn \cup {None}, waiting : BOOLEAN]]
      BY Typed DEF Tables
    <3>2. thread[t].turn \in 1 .. 3
      BY <1>1 DEF Threads, MAX_CONNECTIONS_PER_USER
    <3>3. QED BY <3>1, <3>2, CountTyped
  <2>4. CASE thread[t].turn <= Count(slots[u]) /\ Goto(t, "shut") /\ swept' = swept
    <3>1. /\ thread'[t].pc = "shut" /\ thread'[t].at = u /\ thread'[t].turn = thread[t].turn
          /\ thread'[t].left = thread[t].left
      BY <2>1, <2>4, GotoMoves
    <3>2. thread[t].turn \in Slot
      BY <2>3, <2>4 DEF Slot, MAX_CONNECTIONS_PER_USER
    <3>3. Sweeps(t)'
      BY <1>1, <2>1, <2>2, <2>4, <3>1, <3>2 DEF Sweeps
    <3>4. QED BY <1>1, <1>2, <2>2, <2>4, <3>3, SweepingStays
  <2>5. CASE /\ thread[t].turn > Count(slots[u])
             /\ thread' = [thread EXCEPT ![t] = [thread[t] EXCEPT !.at = None, !.turn = 1]]
             /\ swept' = swept \cup {u}
    <3>1. /\ thread'[t].pc = "close" /\ thread'[t].at = None /\ thread'[t].turn = 1
          /\ thread'[t].left = thread[t].left
      BY <1>1, <2>2, <2>5 DEF Threads
    <3>2. u \in swept \/ slots[u][1].sock = None
      <4>1. CASE thread[t].turn = 1
        BY <2>3, <2>5, <4>1
      <4>2. CASE thread[t].turn # 1
        BY <1>1, <2>1, <4>2, Constants DEF Sweeps
      <4>3. QED BY <4>1, <4>2
    <3>3. Sweeps(t)'
      BY <1>1, <2>1, <2>2, <2>5, <3>1 DEF Sweeps
    <3>4. QED BY <1>3, <2>2, <2>5, <3>2, <3>3
  <2>6. QED BY <2>2, <2>4, <2>5
<1>6. CASE ClosesTurn(t)
  <2>1. PICK u \in User, i \in Slot : u = thread[t].at /\ i = thread[t].turn
    BY <1>1, <1>6 DEF ClosesTurn, ThreadAt, Sweeps
  <2>2. /\ slots' = [slots EXCEPT ![u][i].sock = None] /\ swept' = swept \cup {u}
        /\ routing' = routing /\ thread[t].pc = "shut"
        /\ thread' = [thread EXCEPT ![t] = [thread[t] EXCEPT !.pc = "close", !.turn = thread[t].turn + 1]]
    BY <1>1, <1>6, <2>1 DEF ClosesTurn, ThreadAt, Closed
  <2>3. u \in swept \/ slots'[u][1].sock = None
    <3>1. CASE i = 1
      <4>1. \A v \in User, j \in Slot :
               /\ slots'[v][j].sock = IF v = u /\ j = i THEN None ELSE slots[v][j].sock
               /\ slots'[v][j].waiting = slots[v][j].waiting
        BY <2>2, FreesSlot
      <4>2. slots'[u][i].sock = None
        BY <4>1
      <4>3. QED BY <3>1, <4>2
    <3>2. CASE i # 1
      BY <1>1, <2>1, <3>2, Constants DEF Sweeps
    <3>3. QED BY <3>1, <3>2
  <2>4. /\ thread'[t].pc = "close" /\ thread'[t].at = u /\ thread'[t].left = thread[t].left
    BY <1>1, <2>1, <2>2 DEF Threads
  <2>5. Sweeps(t)'
    BY <1>1, <2>1, <2>2, <2>4, Constants DEF Sweeps
  <2>6. QED BY <1>3, <2>2, <2>3, <2>5
<1>7. CASE StopsRouting(t)
  <2>1. /\ Goto(t, "release") /\ UNCHANGED <<slots, swept>> /\ thread[t].pc = "close"
        /\ thread[t].at = None /\ thread[t].left = {} /\ thread[t].turn = 1
    BY <1>1, <1>7 DEF StopsRouting, ThreadAt, Sweeps
  <2>2. User \subseteq swept
    BY <1>1, <2>1, Constants DEF Sweeps
  <2>3. thread'[t].pc = "release" /\ thread'[t].at = None /\ thread'[t].turn = 1
    BY <2>1, GotoMoves
  <2>4. Sweeps(t)'
    BY <2>3 DEF Sweeps
  <2>5. QED BY <1>1, <1>2, <2>1, <2>2, <2>4 DEF Sweeping
<1>8. QED BY <1>4, <1>5, <1>6, <1>7 DEF Closes

LEMMA HandlerSweeps ==
    ASSUME TypeOK, Sweeping, NEW t \in Thread, Handler(t) \/ ReadsTerminal(t),
           thread[t].pc # "none" => thread[t].user \in User
    PROVE  Sweeping'
<1> USE DEF clientVars, acceptorVars, managerVars, history
<1>1. CASE ReadFails(t) \/ ReadsTerminal(t)
  BY <1>1, SweepingRests DEF ReadFails, ReadsTerminal, Terminates
<1>2. CASE Starts(t)
  <2>1. UNCHANGED <<swept, fresh, routing, slots>> /\ thread[t].user \in User
    BY <1>2 DEF Starts, ThreadAt
  <2>4. /\ thread[t] \in Threads /\ \A s \in Thread : s # t => thread'[s] = thread[s]
        /\ thread'[t] = [thread[t] EXCEPT !.pc = "reading", !.sock = Connection(t).sock]
    BY <1>2, <2>1, StartsMoves, Typed
  <2>2. /\ thread'[t].pc = "reading" /\ thread'[t].at = thread[t].at
        /\ thread'[t].turn = thread[t].turn
    BY <2>4 DEF Threads
  <2>3. QED BY <2>1, <2>2, <2>4, SweepingMoves
<1>3. CASE Reads(t)
  <2>1. UNCHANGED <<swept, fresh, routing, slots>>
    BY <1>3 DEF Reads
  <2>4. PICK r \in Kind \cup {"LOGIN"} :
           /\ thread[t] \in Threads /\ \A s \in Thread : s # t => thread'[s] = thread[s]
           /\ thread'[t] = [thread[t] EXCEPT !.pc = "serve", !.req = r]
    BY <1>3, ReadsMoves, Typed
  <2>2. /\ thread'[t].pc = "serve" /\ thread'[t].at = thread[t].at
        /\ thread'[t].turn = thread[t].turn
    BY <2>4 DEF Threads
  <2>3. QED BY <2>1, <2>2, <2>4, SweepingMoves
<1>4. ASSUME NEW pc \in {"broadcast", "release"}, Goto(t, pc),
             UNCHANGED <<swept, fresh, routing>>,
             \A u \in User : slots'[u][1].sock \in {slots[u][1].sock, None}
      PROVE  Sweeping'
  <2>1. /\ \A s \in Thread : s # t => thread'[s] = thread[s]
        /\ thread'[t].pc = pc /\ thread'[t].at = thread[t].at /\ thread'[t].turn = thread[t].turn
    BY <1>4, GotoMoves
  <2>2. QED BY <1>4, <2>1, SweepingMoves
<1>5. CASE Serves(t) \/ Broadcasts(t)
  <2>1. PICK pc \in {"broadcast", "release"} : Goto(t, pc)
    BY <1>5 DEF Serves, Broadcasts
  <2>2. UNCHANGED <<swept, fresh, routing, slots>>
    BY <1>5 DEF Serves, Broadcasts
  <2>3. QED BY <1>4, <2>1, <2>2
<1>6. CASE LogsOut(t)
  <2>1. /\ thread[t].user \in User /\ UNCHANGED <<swept, fresh, routing>> /\ Goto(t, "release")
    BY <1>6 DEF LogsOut, ThreadAt
  <2>2. \A u \in User : slots'[u][1].sock \in {slots[u][1].sock, None}
    BY <1>6, <2>1, LogsOutFrees, Constants
  <2>3. QED BY <1>4, <2>1, <2>2
<1>7. CASE StopIsBroadcast(t)
  <2>1. UNCHANGED <<swept, fresh, routing, slots>>
    BY <1>7 DEF StopIsBroadcast
  <2>2. /\ \A s \in Thread : s # t => thread'[s] = thread[s]
        /\ thread'[t].pc = "close" /\ thread'[t].at = thread[t].at
        /\ thread'[t].turn = thread[t].turn /\ thread'[t].left = User
    BY <1>7, StopMoves, Typed, ZenonT(30) DEF Threads
  <2>3. ASSUME NEW s \in Thread PROVE Sweeps(s)'
    <3>1. CASE s = t
      BY <2>1, <2>2, <3>1 DEF Sweeping, Sweeps
    <3>2. CASE s # t
      BY <2>1, <2>2, <3>2 DEF Sweeping, Sweeps
    <3>3. QED BY <3>1, <3>2
  <2>4. QED BY <2>1, <2>3, SweepingStays
<1>8. CASE Closes(t)
  BY <1>8, ClosesSweeps
<1>9. CASE Releases(t)
  <2>1. /\ thread[t].user \in User /\ UNCHANGED <<swept, fresh, routing>>
    BY <1>9 DEF Releases, ThreadAt
  <2>2. \A u \in User : slots'[u][1].sock \in {slots[u][1].sock, None}
    BY <1>9, <2>1, ReleasesClears, Constants
  <2>3. /\ \A s \in Thread : s # t => thread'[s] = thread[s]
        /\ thread'[t].pc = "none" /\ thread'[t].at = None /\ thread'[t].turn = 1
    BY <1>9, Typed DEF Releases, Idle
  <2>4. QED BY <2>1, <2>2, <2>3, SweepingMoves
<1>10. QED BY <1>1, <1>2, <1>3, <1>5, <1>6, <1>7, <1>8, <1>9 DEF Handler

-----------------------------------------------------------------------------
(* The invariant.                                                          *)

LEMMA InitOK == Init => IInv
<1> SUFFICES ASSUME Init PROVE IInv
  OBVIOUS
<1>1. \A u \in User, i \in Slot : slots[u][i].sock = None /\ ~slots[u][i].waiting
  BY DEF Init
<1>2. \A t \in Thread : thread[t].pc = "none"
  BY DEF Init, Idle
<1>3. TypeOK
  <2>1. thread \in [Thread -> Threads] /\ slots \in Tables
    BY Constants DEF Init, Idle, Threads, Tables, MAX_CONNECTIONS_PER_USER
  <2>2. ClientTypes
    BY DEF Init, ClientTypes, Messages
  <2>3. RouterTypes /\ OtherTypes
    BY DEF Init, RouterTypes, OtherTypes
  <2>4. ManagerTypes
    BY <2>1 DEF Init, ManagerTypes
  <2>5. QED BY <2>2, <2>3, <2>4, TypeParts
<1>4. \A c \in Conn : ~Registered(c) /\ ~Unserved(c) /\ ~Got(c, "LOGIN_ACCEPT_RESP")
  <2>1. \A c \in Conn : ~Registered(c)
    BY <1>1, Constants DEF Registered
  <2>2. \A c \in Conn : ~Unserved(c)
    BY Constants DEF Init, Unserved
  <2>3. \A c \in Conn : ~Got(c, "LOGIN_ACCEPT_RESP")
    BY DEF Init, Got
  <2>4. QED BY <2>1, <2>2, <2>3
<1>5. Placed
  BY <1>4 DEF Init, Placed
<1>6. Table
  BY <1>1 DEF Table
<1>7. OneHandler
  <2>1. picked = None
    BY DEF Init
  <2>2. \A t \in Thread, u \in User, i \in Slot : ~Handles(t, u, i)
    BY <1>2 DEF Handles
  <2>3. \A u \in User, i \in Slot : picked # <<u, i>>
    BY <2>1, Constants
  <2>4. QED BY <1>1, <2>1, <2>2, <2>3 DEF OneHandler
<1>8. Pointers
  BY <1>2 DEF Pointers
<1>9. AnswersStayWithinUser
  BY DEF Init, AnswersStayWithinUser
<1>10. Stopping /\ Sweeping
  BY DEF Init, Idle, Stopping, Sweeping, Sweeps
<1>11. QED BY <1>3, <1>5, <1>6, <1>7, <1>8, <1>9, <1>10 DEF IInv

LEMMA NextOK == IInv /\ [Next]_vars => IInv'
<1> SUFFICES ASSUME IInv, [Next]_vars PROVE IInv'
  OBVIOUS
<1> USE DEF IInv
<1>1. \A t \in Thread : (thread[t].pc # "none" => thread[t].user \in User) /\ Sweeps(t)
  BY DEF Pointers, Sweeping
<1>2. ASSUME NEW c \in Conn, Client(c) PROVE IInv'
  <2>1. TypeOK'
    BY <1>2, ClientTyped
  <2>2. Placed' /\ Table'
    BY <1>2, <2>1, ClientPlaces
  <2>3. UNCHANGED <<userOf, toClient, router, slave, slots, managerVars, thread, routing, history>>
    BY <1>2 DEF Client, Dial, HangUp, Send
  <2>4. OneHandler' /\ Pointers'
    BY <2>3, HandlersRest, PointersStay DEF managerVars, history
  <2>5. AnswersStayWithinUser' /\ Stopping' /\ Sweeping'
    BY <2>3, AnswersKept, SweepingRests DEF Stopping, history
  <2>6. QED BY <2>1, <2>2, <2>4, <2>5
<1>3. CASE Acceptor
  <2>1. TypeOK'
    BY <1>3, RouterTyped DEF Placed
  <2>2. Placed' /\ Table'
    BY <1>3, <2>1, AcceptorPlaces
  <2>3. Pointers' /\ AnswersStayWithinUser'
    BY <1>3, RouterPoints, RouterAnswers
  <2>4. UNCHANGED <<router, slave, slots, managerVars, thread, routing, history>>
    BY <1>3 DEF Acceptor, AcceptorChecks, Accepts
  <2>5. OneHandler' /\ Stopping' /\ Sweeping'
    BY <2>4, HandlersRest, SweepingRests DEF Stopping, managerVars, history
  <2>6. QED BY <2>1, <2>2, <2>3, <2>5
<1>4. CASE RouterStep
  <2>1. TypeOK'
    BY <1>4, RouterTyped DEF Placed
  <2>2. QED BY <1>4, <2>1, RouterPlaces, RouterHandles, RouterPoints, RouterAnswers, RouterStops,
            RouterSweeps
<1>5. CASE ManagerStep \/ \E u \in User, i \in Slot : Scan(u, i)
  <2>1. TypeOK'
    BY <1>5, ManagerTyped
  <2>2. Placed' /\ Table' /\ OneHandler' /\ Pointers'
    BY <1>5, <2>1, ManagerPlaces, ManagerHandles, ManagerPoints
  <2>3. UNCHANGED <<userOf, toClient, router, slave, routing, history>>
    BY <1>5 DEF ManagerStep, ManagerEnds, Dispatches, Scan, Examines, clientVars, history
  <2>4. AnswersStayWithinUser' /\ Stopping' /\ Sweeping'
    BY <1>5, <2>3, AnswersKept, ManagerSweeps DEF Stopping, history
  <2>5. QED BY <2>1, <2>2, <2>4
<1>6. ASSUME NEW t \in Thread, Handler(t) \/ ReadsTerminal(t) PROVE IInv'
  <2>1. TypeOK'
    BY <1>1, <1>6, HandlerTyped
  <2>2. Placed' /\ Table'
    BY <1>1, <1>6, <2>1, HandlerPlaces
  <2>3. OneHandler' /\ Pointers' /\ AnswersStayWithinUser' /\ Stopping' /\ Sweeping'
    BY <1>1, <1>6, HandlerHandles, HandlerPoints, HandlerAnswers, HandlerStops, HandlerSweeps
  <2>4. QED BY <2>1, <2>2, <2>3
<1>7. CASE UNCHANGED vars
  <2>1. UNCHANGED <<userOf, status, sent, toServer, toClient, backlog, acceptor, out, waiting,
                    router, slave, locked, slots, manager, picked, thread, routing, up,
                    closed, retired, late, swept, fresh>>
    BY <1>7 DEF vars, clientVars, acceptorVars, managerVars, history
  <2>2. TypeOK'
    BY <2>1, Unmoved, TypePartsNext
  <2>3. Placed' /\ Table'
    BY <2>1, <2>2, Resting
  <2>4. OneHandler' /\ Pointers' /\ AnswersStayWithinUser' /\ Stopping' /\ Sweeping'
    BY <2>1, HandlersRest, PointersStay, AnswersKept, SweepingRests DEF Stopping
  <2>5. QED BY <2>2, <2>3, <2>4
<1>8. QED BY <1>2, <1>3, <1>4, <1>5, <1>6, <1>7 DEF Next

\* The inductive invariant holds throughout: sessions for any numbers of
\* connections, users and handler threads.
THEOREM Invariance == Spec => []IInv
<1>1. QED BY InitOK, NextOK, PTL DEF Spec

-----------------------------------------------------------------------------
(* The theorems.                                                           *)

\* The variables of router, manager, acceptor and handlers keep their types.
THEOREM TypeCorrect == Spec => []TypeOK
<1>1. IInv => TypeOK
  BY DEF IInv
<1>2. QED BY <1>1, Invariance, PTL

\* A client that has its LOGIN_ACCEPT_RESP is in one slot of the table until the
\* server closes its connection (push_connection and the closing loops).
THEOREM Acceptance == Spec => []AcceptedIsRegistered
<1>1. IInv => AcceptedIsRegistered
  <2> SUFFICES ASSUME IInv, NEW c \in Conn, Got(c, "LOGIN_ACCEPT_RESP"), c \notin closed
               PROVE  Cardinality(SlotsOf(c)) = 1
    BY DEF AcceptedIsRegistered
  <2>1. PICK u \in User, i \in Slot : slots[u][i].sock = c
    BY DEF IInv, Placed, Registered
  <2>2. c # None
    BY Constants
  <2>3. ASSUME NEW g \in User \X Slot, slots[g[1]][g[2]].sock = c PROVE g = <<u, i>>
    <3>1. PICK v \in User, j \in Slot : g = <<v, j>>
      OBVIOUS
    <3>2. v = u /\ j = i
      BY <2>1, <2>2, <2>3, <3>1 DEF IInv, Table
    <3>3. QED BY <3>1, <3>2
  <2>4. <<u, i>> \in SlotsOf(c)
    BY <2>1 DEF SlotsOf
  <2>5. SlotsOf(c) = {<<u, i>>}
    BY <2>3, <2>4 DEF SlotsOf
  <2>6. QED BY <2>5, FS_Singleton
<1>2. QED BY <1>1, Invariance, PTL

\* is_waiting keeps a second thread from reading a connection, as long as its
\* slot has had one connection only (Manager::manage and handle_connection).
THEOREM HandlerIsAlone == Spec => []OneHandlerPerConnection
<1>1. IInv => OneHandlerPerConnection
  <2> SUFFICES ASSUME IInv, NEW u \in User, NEW i \in Slot, <<u, i>> \notin retired
               PROVE  Cardinality(HandlersOn(u, i)) = IF slots[u][i].waiting THEN 1 ELSE 0
    BY DEF OneHandlerPerConnection
  <2>1. HandlersOn(u, i) = {t \in Thread : Handles(t, u, i)}
    BY DEF HandlersOn, Handles
  <2>2. /\ \A t \in Thread : Handles(t, u, i) => slots[u][i].waiting
        /\ slots[u][i].waiting => \E t \in Thread : Handles(t, u, i)
        /\ \A s, t \in Thread : Handles(s, u, i) /\ Handles(t, u, i) => s = t
    BY DEF IInv, OneHandler
  <2>3. CASE slots[u][i].waiting
    <3>1. PICK t \in Thread : Handles(t, u, i)
      BY <2>2, <2>3
    <3>2. HandlersOn(u, i) = {t}
      BY <2>1, <2>2, <3>1
    <3>3. QED BY <2>3, <3>2, FS_Singleton
  <2>4. CASE ~slots[u][i].waiting
    <3>1. HandlersOn(u, i) = {}
      BY <2>1, <2>2, <2>4
    <3>2. QED BY <2>4, <3>1, FS_EmptySet
  <2>5. QED BY <2>3, <2>4
<1>2. QED BY <1>1, Invariance, PTL

\* Neither answers nor broadcasts reach another user's devices, and an answer
\* reaches another device only if the one that asked has been closed.
THEOREM AnswersWithinUser == Spec => []AnswersStayWithinUser
<1>1. IInv => AnswersStayWithinUser
  BY DEF IInv
<1>2. QED BY <1>1, Invariance, PTL

\* At most one login is accepted by a server that has stopped.
THEOREM LateLogin == Spec => []AtMostOneLateLogin
<1>1. IInv => AtMostOneLateLogin
  <2>1. ASSUME IInv, late = {} PROVE AtMostOneLateLogin
    BY <2>1, FS_EmptySet DEF AtMostOneLateLogin
  <2>2. ASSUME NEW c, late = {c} PROVE AtMostOneLateLogin
    <3>1. Cardinality({c}) = 1
      BY FS_Singleton
    <3>2. QED BY <2>2, <3>1 DEF AtMostOneLateLogin
  <2>3. QED BY <2>1, <2>2 DEF IInv, Stopping
<1>2. QED BY <1>1, Invariance, PTL

\* Of the connections that a user has when close_all_connections comes to its
\* first slot, a STOP leaves at most one open, whoever logs in meanwhile, also
\* while the loop, which counts again before every turn, is at work and before
\* is_router_routing is cleared after it (manager.cpp:435-450).
THEOREM StopCloses == Spec => []StopLeavesAtMostOneOpen
<1>1. IInv => StopLeavesAtMostOneOpen
  <2> SUFFICES ASSUME IInv, ~routing, NEW u \in User
               PROVE  Cardinality({slots[u][i].sock : i \in Slot} \ (fresh \cup {None})) <= 1
    BY DEF StopLeavesAtMostOneOpen
  <2> DEFINE open == {slots[u][i].sock : i \in Slot} \ (fresh \cup {None})
             last == {slots[u][2].sock}
  <2>1. slots[u][1].sock \in fresh \cup {None}
    BY DEF IInv, Sweeping
  <2>2. open \subseteq last
    BY <2>1, Constants
  <2>3. IsFiniteSet(last) /\ Cardinality(last) = 1
    BY FS_Singleton
  <2> HIDE DEF open, last
  <2>4. Cardinality(open) <= 1
    BY <2>2, <2>3, FS_Subset
  <2>5. QED BY <2>4 DEF open
<1>2. QED BY <1>1, Invariance, PTL

\* A refused login leaves the lock held: from then on no connection enters the
\* table and no thread is started (router.cpp:83-93).
THEOREM RefusalFreezes == Spec => RefusalFreezesServer
<1> DEFINE Frozen ==
        locked => /\ \A c \in Conn : SlotsOf(c)' \subseteq SlotsOf(c)
                  /\ \A t \in Thread : thread[t].pc = "none" => thread'[t].pc = "none"
<1>1. IInv /\ [Next]_vars => [Frozen]_vars
  <2> SUFFICES ASSUME IInv, Next, locked PROVE Frozen
    BY DEF Frozen
  <2> USE DEF clientVars, acceptorVars, managerVars, history
  <2>1. TypeOK /\ \A t \in Thread : (thread[t].pc # "none" => thread[t].user \in User) /\ Sweeps(t)
    BY DEF IInv, Pointers, Sweeping
  <2>2. /\ \A u \in User, i \in Slot : slots'[u][i].sock \in {slots[u][i].sock, None}
        /\ \A t \in Thread : thread[t].pc = "none" => thread'[t].pc = "none"
    <3>1. CASE UNCHANGED <<slots, thread>>
      BY <3>1, Typed DEF Tables
    <3>2. ASSUME NEW c \in Conn, Client(c) PROVE UNCHANGED <<slots, thread>>
      BY <3>2 DEF Client, Dial, HangUp, Send
    <3>3. CASE Acceptor
      BY <3>1, <3>3 DEF Acceptor, AcceptorChecks, Accepts
    <3>4. CASE RouterStep
      <4>1. ~Registers
        BY DEF Registers, LockIsFree
      <4>2. QED BY <3>1, <3>4, <4>1 DEF RouterStep, RouterPolls, RouterReads, RouterReadFails,
                                        Terminates, Refuses, RepliesToLogin
    <3>5. CASE ManagerStep \/ \E u \in User, i \in Slot : Scan(u, i)
      <4>1. ~Dispatches
        BY DEF Dispatches, LockIsFree
      <4>2. QED BY <3>1, <3>5, <4>1 DEF ManagerStep, ManagerEnds, Scan, Examines
    <3>6. ASSUME NEW t \in Thread, Handler(t) \/ ReadsTerminal(t)
          PROVE  /\ \A u \in User, i \in Slot : slots'[u][i].sock \in {slots[u][i].sock, None}
                 /\ \A s \in Thread : thread[s].pc = "none" => thread'[s].pc = "none"
      <4>1. CASE ReadFails(t) \/ ReadsTerminal(t)
        BY <3>1, <4>1 DEF ReadFails, ReadsTerminal, Terminates
      <4>2. CASE Starts(t)
        <5>1. thread[t].pc # "none" /\ slots' = slots
          BY <4>2 DEF Starts, ThreadAt
        <5>2. QED BY <2>1, <4>2, <5>1, StartsMoves
      <4>3. CASE Reads(t)
        <5>1. thread[t].pc # "none" /\ slots' = slots
          BY <4>3 DEF Reads, ThreadAt
        <5>2. QED BY <2>1, <4>3, <5>1, ReadsMoves
      <4>4. CASE Releases(t)
        <5>1. /\ thread[t].user \in User
              /\ \A s \in Thread : s # t => thread'[s] = thread[s]
              /\ thread'[t].pc = "none"
          BY <2>1, <4>4, Typed DEF Releases, ThreadAt, Idle
        <5>2. QED BY <2>1, <4>4, <5>1, ReleasesClears
      <4>5. ASSUME NEW pc \in {"broadcast", "close", "release"}, Goto(t, pc), thread[t].pc # "none"
            PROVE  \A s \in Thread : thread[s].pc = "none" => thread'[s].pc = "none"
        BY <2>1, <4>5, GotoMoves
      <4>6. CASE Serves(t) \/ Broadcasts(t)
        <5>1. slots' = slots
          BY <4>6 DEF Serves, Broadcasts
        <5>2. QED BY <4>5, <4>6, <5>1 DEF Serves, Broadcasts, ThreadAt
      <4>10. CASE StopIsBroadcast(t)
        <5>1. slots' = slots
          BY <4>10 DEF StopIsBroadcast
        <5>2. QED BY <2>1, <4>10, <5>1, StopMoves
      <4>7. CASE LogsOut(t)
        <5>1. thread[t].pc # "none" /\ thread[t].user \in User /\ Goto(t, "release")
          BY <2>1, <4>7 DEF LogsOut, ThreadAt
        <5>2. QED BY <2>1, <4>5, <4>7, <5>1, LogsOutFrees
      <4>8. CASE Closes(t)
        <5>1. /\ thread[t].pc # "none"
              /\ \A s \in Thread : s # t => thread'[s] = thread[s]
          BY <2>1, <4>8, ClosesMoves
        <5>2. QED BY <2>1, <4>8, <5>1, ClosesFrees
      <4>9. QED BY <3>6, <4>1, <4>2, <4>3, <4>4, <4>6, <4>7, <4>8, <4>10 DEF Handler
    <3>7. QED BY <3>1, <3>2, <3>3, <3>4, <3>5, <3>6 DEF Next
  <2>3. QED BY <2>2, Constants DEF SlotsOf
<1>2. QED BY <1>1, Invariance, PTL DEF Spec, RefusalFreezesServer
=============================================================================
