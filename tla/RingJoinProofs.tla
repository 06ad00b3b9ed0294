--------------------------- MODULE RingJoinProofs ---------------------------
(***************************************************************************)
(* Proofs about module RingJoin: ids and places, the ring that the backups  *)
(* close, and ids that get lost.                                            *)
(*                                                                         *)
(* The argument: a place of the vector, once taken, stays with its backup;  *)
(* an id is counted from the size and written to the last place, so that it *)
(* can only be too small for the place it reaches.  When backups are started*)
(* one by one, everything that happens in the master is about the last      *)
(* place: every other backup has joined, its JOIN_REQ has been read, and    *)
(* its thread reads.  Hence the last place is that of the thread that       *)
(* answers, its neighbour in the vector is told once of it, and it is told  *)
(* once of the first.                                                       *)
(***************************************************************************)
EXTENDS RingJoin, SequenceTheorems, FiniteSetTheorems, TLAPS

Sock(k) == others[k].sock

Accepted(b) == handler[b].pc # "none"

\* Started, and not yet accepted
Pending(b) == pc[b] # "off" /\ ~Accepted(b)

\* Places of the vector and threads of the master belong together
Placed ==
    /\ \A k, l \in DOMAIN others : Sock(k) = Sock(l) => k = l
    /\ \A k \in DOMAIN others : Accepted(Sock(k))
    /\ \A b \in Backup : Accepted(b) => \E k \in DOMAIN others : Sock(k) = b
    /\ \A b \in Backup : handler[b].pc \in {"none", "start"} => handler[b].in = 0
    /\ \A b \in Backup : handler[b].pc \notin {"none", "start"} => handler[b].in \in DOMAIN others
    /\ \A b \in Backup : handler[b].pc = "reply2" => Len(others) > 1
    /\ \A b \in Backup : ~Accepted(b) =>
          /\ inbox[b] = << >> /\ id[b] = None /\ ~handler[b].dangling
          /\ pc[b] \in {"off", "join", "dead"}
    /\ \A b \in Backup : pc[b] = "off" => ~Accepted(b)

\* The packets that b has not read
Mail(b) == {inbox[b][m] : m \in DOMAIN inbox[b]}

\* What is counted, on its way or received is at most the place it goes to
Counted ==
    /\ \A h \in Backup : handler[h].pc = "send" => handler[h].new_id <= Len(others) - 1
    /\ \A k \in DOMAIN others : \A p \in Mail(Sock(k)) : p.type = "YOUR_ID_RESP" => p.id <= k - 1
    /\ \A k \in DOMAIN others : id[Sock(k)] # None => id[Sock(k)] <= k - 1

\* b's join is over, for the master and for itself
Rested(b) == pc[b] = "joined" /\ b \notin toMaster /\ handler[b].pc = "read"

\* One join at a time: the last place is the only one that is not done
Turns ==
    /\ \A b, c \in Backup : Pending(b) /\ c # b => pc[c] = "off" \/ Rested(c)
    /\ \A k \in DOMAIN others : k < Len(others) => Rested(Sock(k))
    /\ \A b \in Backup : pc[b] # "off" /\ handler[b].pc \in {"none", "start"} => b \in toMaster
    /\ \A b \in toMaster : handler[b].pc \in {"none", "start", "read"}
    /\ \A b \in toMaster : ~handler[b].dangling
    /\ \A b \in Backup : handler[b].in # 0 => ReadsFrom(b) = b
    /\ \A k \in DOMAIN others : Sock(k) \notin toMaster => others[k].addr = Sock(k)

OneByOne == Orderly => Turns

\* What is counted, on its way or received is the place it goes to
Exact ==
    Orderly =>
        /\ \A h \in Backup : handler[h].pc = "send" => handler[h].new_id = Len(others) - 1
        /\ \A k \in DOMAIN others : \A p \in Mail(Sock(k)) : p.type = "YOUR_ID_RESP" => p.id = k - 1
        /\ \A k \in DOMAIN others : id[Sock(k)] # None => id[Sock(k)] = k - 1

IsResp(p) == p.type = "JOIN_RESP"

NoResp(b) == \A p \in Mail(b) : ~IsResp(p)

OneResp(b) == \A l, m \in DOMAIN inbox[b] : IsResp(inbox[b][l]) /\ IsResp(inbox[b][m]) => l = m

\* b has a as its adjacent, or is going to
Linked(b, a) ==
    /\ \A p \in Mail(b) : IsResp(p) => p.addr \in {a, Garbled}
    /\ adjacent[b] \in {a, Garbled} \/ \E p \in Mail(b) : IsResp(p)

\* r1, and r2, are still to be written in the join of b
Before1(b) == b \in toMaster \/ handler[b].pc = "reply1"
Before2(b) == Before1(b) \/ handler[b].pc = "reply2"

\* Who has been told, and of whom
Links ==
    /\ \A b \in Backup : OneResp(b)
    /\ \A k \in DOMAIN others : k < Len(others) =>
          IF Before1(Sock(k + 1)) THEN NoResp(Sock(k)) ELSE Linked(Sock(k), Sock(k + 1))
    /\ Len(others) > 1 =>
          IF Before2(Sock(Len(others))) THEN NoResp(Sock(Len(others)))
          ELSE Linked(Sock(Len(others)), Sock(1))
    /\ Len(others) = 1 => NoResp(Sock(1))
    /\ \A b, c \in Backup : Pending(b) => NoResp(c)
    /\ \A b \in Backup : pc[b] = "id" => NoResp(b) /\ ~Before2(b)

Ring == Orderly => Links

\* Signed packets come from broadcasts only
Signed ==
    broadcasts = 0 =>
        \A b \in Backup : \A p \in Mail(b) : p.type # "SIGNED_PACKET"

IInv ==
    /\ TypeOK /\ Placed /\ Counted /\ OneByOne /\ Exact /\ Ring
    /\ Signed /\ OnlyBroadcastsHideIds

-----------------------------------------------------------------------------
(* Types, and what the operators of the model do.                          *)

Place == [sock : Backup, addr : Address]

Thread == [pc : {"none", "start", "read", "reply1", "reply2", "count", "send"},
           in : 0 .. Cardinality(Backup), dangling : BOOLEAN, new_id : Nat]

LEMMA Constants ==
    /\ None \notin Int /\ Garbled \notin Int /\ None # Garbled
    /\ Backup \subseteq Nat /\ IsFiniteSet(Backup) /\ Cardinality(Backup) \in Nat
    /\ MaxBroadcasts \in Nat
BY RingJoinAssumption, FS_CardinalityType

\* The parts of the type invariant that steps need again and again.
LEMMA Typed ==
    ASSUME TypeOK
    PROVE  /\ others \in Seq(Place) /\ Len(others) \in Nat /\ DOMAIN others = 1 .. Len(others)
           /\ \A k \in DOMAIN others : Sock(k) \in Backup /\ others[k].addr \in Address
           /\ handler \in [Backup -> Thread]
           /\ inbox \in [Backup -> Seq(Packet)]
           /\ toMaster \subseteq Backup
<1>1. others \in Seq(Place)
  BY DEF TypeOK, Place
<1>2. Len(others) \in Nat /\ DOMAIN others = 1 .. Len(others)
  BY <1>1, LenProperties
<1>3. ASSUME NEW k \in DOMAIN others
      PROVE  Sock(k) \in Backup /\ others[k].addr \in Address
  <2>1. others[k] \in Place
    BY <1>1, <1>2, <1>3, ElementOfSeq
  <2>2. QED BY <2>1 DEF Place, Sock
<1>4. handler \in [Backup -> Thread] /\ inbox \in [Backup -> Seq(Packet)] /\ toMaster \subseteq Backup
  BY DEF TypeOK, Thread
<1>5. QED BY <1>1, <1>2, <1>3, <1>4

\* The packets of the master.
LEMMA Packets ==
    /\ \A a \in Address : JoinResp(a) \in Packet /\ JoinResp(a).type = "JOIN_RESP" /\ JoinResp(a).addr = a
    /\ \A n \in Nat : [type |-> "YOUR_ID_RESP", id |-> n] \in Packet
    /\ [type |-> "SIGNED_PACKET"] \in Packet
    /\ \A p \in Packet : /\ p.type = "JOIN_RESP" => p.addr \in Address
                         /\ p.type = "YOUR_ID_RESP" => p.id \in Nat
BY DEF Packet, JoinResp

\* A packet p reaches b, or is lost because b is dead.
Adds(b, p) ==
    /\ inbox' \in [Backup -> Seq(Packet)]
    /\ \A c \in Backup \ {b} : inbox'[c] = inbox[c]
    /\ inbox'[b] = IF pc[b] = "dead" THEN inbox[b] ELSE Append(inbox[b], p)

LEMMA WritesAdds ==
    ASSUME TypeOK, NEW b \in Backup, NEW p \in Packet, WritesTo(b, p)
    PROVE  Adds(b, p) /\ up' \in BOOLEAN
<1>1. inbox \in [Backup -> Seq(Packet)]
  BY Typed
<1>2. Append(inbox[b], p) \in Seq(Packet)
  BY <1>1, AppendProperties
<1>3. QED BY <1>1, <1>2 DEF WritesTo, Adds

\* What Append does to the mail of b, whatever it appends.
LEMMA AppendedMail ==
    ASSUME NEW s \in Seq(Packet), NEW p \in Packet
    PROVE  LET t == Append(s, p)
           IN  /\ DOMAIN t = DOMAIN s \cup {Len(s) + 1} /\ Len(s) + 1 \notin DOMAIN s
               /\ t[Len(s) + 1] = p /\ \A m \in DOMAIN s : t[m] = s[m]
               /\ {t[m] : m \in DOMAIN t} = {s[m] : m \in DOMAIN s} \cup {p}
<1> DEFINE t == Append(s, p)
<1>1. t \in Seq(Packet) /\ Len(t) = Len(s) + 1 /\ t[Len(s) + 1] = p
      /\ \A i \in 1 .. Len(s) : t[i] = s[i]
  BY AppendProperties
<1>2. DOMAIN s = 1 .. Len(s) /\ Len(s) \in Nat
  BY LenProperties
<1>3. DOMAIN t = 1 .. Len(t)
  BY <1>1, LenProperties
<1> HIDE DEF t
<1>4. DOMAIN t = DOMAIN s \cup {Len(s) + 1} /\ Len(s) + 1 \notin DOMAIN s
      /\ \A m \in DOMAIN s : t[m] = s[m]
  BY <1>1, <1>2, <1>3
<1>5. {t[m] : m \in DOMAIN t} = {s[m] : m \in DOMAIN s} \cup {p}
  BY <1>1, <1>4
<1>6. QED BY <1>1, <1>4, <1>5 DEF t

LEMMA AddsMail ==
    ASSUME TypeOK, NEW b \in Backup, NEW p \in Packet, Adds(b, p)
    PROVE  /\ \A c \in Backup \ {b} : Mail(c)' = Mail(c) /\ OneResp(c)' = OneResp(c)
           /\ Mail(b)' = IF pc[b] = "dead" THEN Mail(b) ELSE Mail(b) \cup {p}
           /\ OneResp(b) /\ (IsResp(p) => NoResp(b)) => OneResp(b)'
<1>1. inbox[b] \in Seq(Packet)
  BY Typed
<1>2. \A c \in Backup \ {b} : Mail(c)' = Mail(c) /\ OneResp(c)' = OneResp(c)
  BY DEF Adds, Mail, OneResp
<1>3. Mail(b)' = IF pc[b] = "dead" THEN Mail(b) ELSE Mail(b) \cup {p}
  BY <1>1, AppendedMail DEF Adds, Mail
<1>4. ASSUME OneResp(b), IsResp(p) => NoResp(b)
      PROVE  OneResp(b)'
  <2>1. CASE pc[b] = "dead"
    BY <2>1, <1>4 DEF Adds, OneResp
  <2>2. CASE pc[b] # "dead"
    <3>1. inbox'[b] = Append(inbox[b], p)
      BY <2>2 DEF Adds
    <3>2. SUFFICES ASSUME NEW l \in DOMAIN inbox'[b], NEW m \in DOMAIN inbox'[b],
                          IsResp(inbox'[b][l]), IsResp(inbox'[b][m])
                   PROVE  l = m
      BY DEF OneResp
    <3>3. CASE l \in DOMAIN inbox[b] /\ m \in DOMAIN inbox[b]
      BY <3>1, <3>2, <3>3, <1>1, <1>4, AppendedMail DEF OneResp
    <3>4. CASE ~IsResp(p)
      BY <3>1, <3>2, <3>3, <3>4, <1>1, AppendedMail
    <3>5. CASE IsResp(p)
      BY <3>1, <3>2, <3>5, <1>1, <1>4, AppendedMail DEF NoResp, Mail
    <3>6. QED BY <3>4, <3>5
  <2>3. QED BY <2>1, <2>2
<1>5. QED BY <1>2, <1>3, <1>4

\* A backup takes the first packet of its mail.
LEMMA TakesMail ==
    ASSUME TypeOK, NEW b \in Backup, NEW type, Takes(b, type)
    PROVE  LET p == Head(inbox[b])
           IN  /\ p \in Packet /\ p.type = type /\ inbox' \in [Backup -> Seq(Packet)]
               /\ \A c \in Backup \ {b} :
                     inbox'[c] = inbox[c] /\ Mail(c)' = Mail(c) /\ OneResp(c)' = OneResp(c)
               /\ Mail(b) = Mail(b)' \cup {p}
               /\ OneResp(b) => OneResp(b)' /\ (IsResp(p) => NoResp(b)')
<1> DEFINE s == inbox[b]
           t == Tail(s)
           p == Head(s)
<1>1. s \in Seq(Packet) /\ s # << >> /\ p.type = type /\ inbox' = [inbox EXCEPT ![b] = t]
  BY Typed DEF Takes
<1>2. p \in Packet /\ t \in Seq(Packet) /\ Len(t) = Len(s) - 1
      /\ \A i \in 1 .. Len(t) : t[i] = s[i + 1]
  BY <1>1, HeadTailProperties
<1>3. DOMAIN s = 1 .. Len(s) /\ Len(s) \in Nat \ {0} /\ DOMAIN t = 1 .. Len(t)
  BY <1>1, <1>2, LenProperties, EmptySeq
<1>4. p = s[1]
  BY <1>1
<1>5. inbox' \in [Backup -> Seq(Packet)] /\ inbox'[b] = t
      /\ \A c \in Backup \ {b} : inbox'[c] = inbox[c]
  BY <1>1, <1>2, Typed
<1>6. \A c \in Backup \ {b} : Mail(c)' = Mail(c) /\ OneResp(c)' = OneResp(c)
  BY <1>5 DEF Mail, OneResp
<1> HIDE DEF t, p
<1>7. \A m \in DOMAIN t : m + 1 \in DOMAIN s /\ t[m] = s[m + 1] /\ m + 1 # 1
  BY <1>2, <1>3
<1>8. \A m \in DOMAIN s : m = 1 \/ (m - 1 \in DOMAIN t /\ t[m - 1] = s[m])
  BY <1>2, <1>3
<1>9. {s[m] : m \in DOMAIN s} = {t[m] : m \in DOMAIN t} \cup {p}
  <2>1. 1 \in DOMAIN s
    BY <1>3
  <2>2. QED BY <1>4, <1>7, <1>8, <2>1
<1>10. Mail(b) = Mail(b)' \cup {p}
  BY <1>5, <1>9 DEF Mail
<1>11. ASSUME OneResp(b)
       PROVE  OneResp(b)' /\ (IsResp(p) => NoResp(b)')
  <2>1. OneResp(b)'
    <3>1. ASSUME NEW l \in DOMAIN t, NEW m \in DOMAIN t, IsResp(t[l]), IsResp(t[m])
          PROVE  l = m
      <4>1. l + 1 = m + 1
        BY <1>7, <1>11, <3>1 DEF OneResp
      <4>2. QED BY <4>1, <1>2, <1>3
    <3>2. QED BY <1>5, <3>1 DEF OneResp
  <2>2. ASSUME IsResp(p)
        PROVE  NoResp(b)'
    <3>1. \A m \in DOMAIN t : ~IsResp(t[m])
      BY <1>3, <1>4, <1>7, <1>11, <2>2 DEF OneResp
    <3>2. QED BY <1>5, <3>1 DEF NoResp, Mail
  <2>3. QED BY <2>1, <2>2
<1>12. QED BY <1>1, <1>2, <1>5, <1>6, <1>10, <1>11 DEF p

\* The vector has at most one place for each backup.
LEMMA Room == ASSUME TypeOK, Placed PROVE Len(others) <= Cardinality(Backup)
<1> DEFINE f == [k \in 1 .. Len(others) |-> Sock(k)]
<1>1. f \in [1 .. Len(others) -> Backup]
  BY Typed
<1>2. \A k, l \in 1 .. Len(others) : f[k] = f[l] => k = l
  BY Typed DEF Placed
<1>3. f \in Injection(1 .. Len(others), Backup)
  BY <1>1, <1>2 DEF Injection, IsInjective
<1>4. Cardinality(1 .. Len(others)) <= Cardinality(Backup)
  BY <1>3, Constants, FS_Injection
<1>5. Len(others) \in Nat
  BY Typed
<1>6. Cardinality(1 .. Len(others)) = Len(others)
  <2>1. Cardinality(1 .. Len(others)) = IF 1 > Len(others) THEN 0 ELSE Len(others) - 1 + 1
    BY <1>5, FS_Interval
  <2>2. QED BY <1>5, <2>1
<1>7. QED BY <1>4, <1>6

\* accept takes the next place, and starts a thread.
LEMMA AcceptsAppends ==
    ASSUME TypeOK, Placed, NEW b \in Backup, Accepts(b)
    PROVE  /\ others' \in Seq(Place) /\ Len(others') = Len(others) + 1
           /\ DOMAIN others' = 1 .. Len(others') /\ DOMAIN others' = DOMAIN others \cup {Len(others) + 1}
           /\ \A k \in DOMAIN others : others'[k] = others[k]
           /\ others'[Len(others) + 1] = [sock |-> b, addr |-> None]
           /\ handler' \in [Backup -> Thread]
           /\ \A h \in Backup \ {b} :
                 /\ handler'[h].pc = handler[h].pc /\ handler'[h].in = handler[h].in
                 /\ handler'[h].new_id = handler[h].new_id
                 /\ handler'[h].dangling => handler[h].dangling \/ handler[h].in # 0
           /\ handler'[b].pc = "start" /\ handler'[b].in = 0 /\ ~handler'[b].dangling
           /\ handler[b].pc = "none" /\ handler[b].in = 0 /\ pc[b] # "off"
<1>1. [sock |-> b, addr |-> None] \in Place
  BY DEF Place, Address
<1>2. others' \in Seq(Place) /\ Len(others') = Len(others) + 1
      /\ others'[Len(others) + 1] = [sock |-> b, addr |-> None]
      /\ \A k \in 1 .. Len(others) : others'[k] = others[k]
  BY <1>1, Typed, AppendProperties DEF Accepts
<1>3. DOMAIN others' = 1 .. Len(others')
  BY <1>2, LenProperties
<1>4. DOMAIN others = 1 .. Len(others) /\ Len(others) \in Nat
  BY Typed
<1>5. DOMAIN others' = DOMAIN others \cup {Len(others) + 1}
  BY <1>2, <1>3, <1>4
<1>6. handler[b].pc = "none" /\ handler[b].in = 0 /\ pc[b] # "off" /\ ~handler[b].dangling
  BY DEF Accepts, Placed, Accepted
<1>7. ASSUME NEW h \in Backup
      PROVE  /\ handler'[h] = IF h = b THEN [handler[h] EXCEPT !.pc = "start"]
                  ELSE [handler[h] EXCEPT !.dangling = @ \/ (handler[h].in # 0 /\ Reallocates)]
             /\ handler'[h] \in Thread
  <2>1. handler'[h] = IF h = b THEN [handler[h] EXCEPT !.pc = "start"]
             ELSE [handler[h] EXCEPT !.dangling = @ \/ (handler[h].in # 0 /\ Reallocates)]
    BY DEF Accepts
  <2>2. handler[h] \in Thread
    BY Typed
  <2>3. (handler[h].dangling \/ (handler[h].in # 0 /\ Reallocates)) \in BOOLEAN
    BY <2>2 DEF Thread
  <2>4. QED BY <2>1, <2>2, <2>3 DEF Thread
<1>8. handler' \in [Backup -> Thread]
  BY <1>7 DEF Accepts
<1>9. \A h \in Backup \ {b} :
          /\ handler'[h].pc = handler[h].pc /\ handler'[h].in = handler[h].in
          /\ handler'[h].new_id = handler[h].new_id
          /\ handler'[h].dangling => handler[h].dangling \/ handler[h].in # 0
  <2>1. TAKE h \in Backup \ {b}
  <2>2. PICK q \in BOOLEAN : q = (handler[h].dangling \/ (handler[h].in # 0 /\ Reallocates))
    OBVIOUS
  <2>3. handler'[h] = [handler[h] EXCEPT !.dangling = q]
    BY <1>7, <2>2, Typed DEF Thread
  <2>4. handler[h] \in Thread
    BY Typed
  <2>5. CASE q = TRUE
    BY <2>2, <2>3, <2>4, <2>5 DEF Thread
  <2>6. CASE q = FALSE
    BY <2>3, <2>4, <2>6 DEF Thread
  <2>7. QED BY <2>5, <2>6
<1>10. handler'[b].pc = "start" /\ handler'[b].in = 0 /\ ~handler'[b].dangling
  BY <1>6, <1>7, Typed, ZenonT(30) DEF Thread
<1>11. QED BY <1>2, <1>3, <1>4, <1>5, <1>6, <1>8, <1>9, <1>10

\* A thread moves, and no other does.
Moves(h) ==
    /\ handler' \in [Backup -> Thread]
    /\ \A c \in Backup \ {h} : handler'[c] = handler[c]
    /\ handler'[h].dangling = handler[h].dangling

SamePlaces ==
    /\ others' \in Seq(Place) /\ Len(others') = Len(others) /\ DOMAIN others' = DOMAIN others
    /\ \A k \in DOMAIN others : Sock(k)' = Sock(k)

LEMMA StartsMoves ==
    ASSUME TypeOK, Placed, NEW h \in Backup, HandlerStarts(h)
    PROVE  /\ Moves(h) /\ SamePlaces /\ handler[h].pc = "start" /\ handler'[h].pc = "read"
           /\ handler'[h].in = Len(others) /\ Len(others) \in DOMAIN others
           /\ handler'[h].new_id = handler[h].new_id
<1>1. Len(others) \in 1 .. Len(others) /\ Len(others) \in 0 .. Cardinality(Backup)
  BY Typed, Room, Constants DEF HandlerStarts, Placed, Accepted
<1>2. QED BY <1>1, Typed DEF HandlerStarts, Thread, Moves, SamePlaces, Sock

LEMMA ReadsMoves ==
    ASSUME TypeOK, Placed, NEW h \in Backup, HandlerReads(h)
    PROVE  /\ Moves(h) /\ SamePlaces /\ handler[h].pc = "read"
           /\ handler'[h].pc = "reply1"
           /\ handler'[h].in = handler[h].in /\ handler[h].in \in DOMAIN others
           /\ handler'[h].new_id = handler[h].new_id
           /\ ReadsFrom(h) \in Backup /\ ReadsFrom(h) = Sock(handler[h].in)
           /\ \A k \in DOMAIN others : others'[k].addr =
                 IF k = handler[h].in /\ ~handler[h].dangling THEN ReadsFrom(h) ELSE others[k].addr
<1> DEFINE i == handler[h].in
<1>1. handler[h].pc = "read" /\ i \in DOMAIN others
  BY DEF HandlerReads, Placed
<1>2. ReadsFrom(h) = Sock(i) /\ Sock(i) \in Backup
  BY <1>1, Typed DEF ReadsFrom, Sock
<1>3. others \in Seq(Place) /\ DOMAIN others = 1 .. Len(others) /\ others[i] \in Place
  BY <1>1, Typed, ElementOfSeq
<1>4. Moves(h) /\ handler'[h].in = i /\ handler'[h].new_id = handler[h].new_id
      /\ handler'[h].pc = "reply1"
  BY Typed DEF HandlerReads, Thread, Moves
<1>5. CASE handler[h].dangling
  BY <1>1, <1>2, <1>3, <1>4, <1>5 DEF HandlerReads, SamePlaces, Sock
<1>6. CASE ~handler[h].dangling
  <2> DEFINE e == [others[i] EXCEPT !.addr = ReadsFrom(h)]
  <2>1. e \in Place /\ e.sock = others[i].sock /\ e.addr = ReadsFrom(h)
    BY <1>2, <1>3 DEF Place, Address
  <2>2. others' = [others EXCEPT ![i] = e]
    BY <1>6 DEF HandlerReads
  <2> HIDE DEF e
  <2>3. others' \in Seq(Place) /\ Len(others') = Len(others)
        /\ \A k \in 1 .. Len(others) : others'[k] = IF k = i THEN e ELSE others[k]
    BY <1>1, <1>3, <2>1, <2>2, ExceptSeq
  <2>4. DOMAIN others' = DOMAIN others
    BY <1>3, <2>3, LenProperties
  <2>5. QED BY <1>1, <1>2, <1>3, <1>4, <1>6, <2>1, <2>3, <2>4 DEF SamePlaces, Sock
<1>7. QED BY <1>5, <1>6

LEMMA AloneMoves ==
    ASSUME TypeOK, Placed, NEW h \in Backup, Alone(h)
    PROVE  /\ Moves(h) /\ SamePlaces /\ handler[h].pc = "reply1" /\ handler'[h].pc = "count"
           /\ handler'[h].in = handler[h].in /\ handler'[h].new_id = handler[h].new_id
           /\ Len(others) = 1 /\ UNCHANGED <<others, toMaster, inbox>>
BY Typed DEF Alone, Thread, Moves, SamePlaces, Sock

\* The answers go to the last but one and to the last element.
LEMMA LastPlaces ==
    ASSUME TypeOK, Placed, NEW h \in Backup, Accepted(h)
    PROVE  /\ Len(others) \in DOMAIN others /\ Joiner.sock = Sock(Len(others))
           /\ Joiner.sock \in Backup /\ Joiner.addr \in Address /\ NewId \in Nat /\ 1 \in DOMAIN others
           /\ Len(others) > 1 =>
                 /\ Len(others) - 1 \in DOMAIN others /\ Predecessor.sock = Sock(Len(others) - 1)
                 /\ Predecessor.sock \in Backup /\ Predecessor.sock # Joiner.sock
                 /\ others[1].addr \in Address
<1>1. Len(others) \in Nat /\ Len(others) >= 1 /\ DOMAIN others = 1 .. Len(others)
  BY Typed DEF Placed
<1>2. /\ Len(others) \in DOMAIN others /\ 1 \in DOMAIN others /\ Len(others) - 1 \in Nat
      /\ Len(others) > 1 => Len(others) - 1 \in DOMAIN others
      /\ Len(others) - 1 # Len(others)
  <2>1. ASSUME NEW n \in Nat, n >= 1
        PROVE  n \in 1 .. n /\ 1 \in 1 .. n /\ n - 1 \in Nat /\ n - 1 # n
               /\ (n > 1 => n - 1 \in 1 .. n)
    BY <2>1
  <2>2. QED BY <1>1, <2>1, Zenon
<1>3. Joiner.sock = Sock(Len(others)) /\ Predecessor.sock = Sock(Len(others) - 1)
  BY DEF Joiner, Predecessor, Sock
<1>4. Joiner.sock \in Backup /\ Joiner.addr \in Address
  BY <1>2, <1>3, Typed DEF Joiner
<1>5. ASSUME Len(others) > 1
      PROVE  /\ Predecessor.sock \in Backup /\ Predecessor.sock # Joiner.sock
             /\ others[1].addr \in Address
  <2>1. Len(others) - 1 \in DOMAIN others
    BY <1>2, <1>5
  <2>2. Sock(Len(others) - 1) # Sock(Len(others))
    BY <1>2, <2>1 DEF Placed
  <2>3. QED BY <1>2, <1>3, <2>1, <2>2, Typed, Zenon
<1>6. QED BY <1>2, <1>3, <1>4, <1>5 DEF NewId

Answer == {JoinResp(a) : a \in Address} \cup {[type |-> "YOUR_ID_RESP", id |-> n] : n \in Nat}

LEMMA Reply1Moves ==
    ASSUME TypeOK, Placed, NEW h \in Backup, Reply1(h)
    PROVE  /\ Moves(h) /\ handler[h].pc = "reply1" /\ handler'[h].pc = "reply2"
           /\ handler'[h].in = handler[h].in /\ handler'[h].new_id = handler[h].new_id
           /\ SamePlaces /\ others' = others /\ Len(others) > 1 /\ up' \in BOOLEAN
           /\ \E a \in {Joiner.addr, Garbled} \cap Address : Adds(Predecessor.sock, JoinResp(a))
<1>1. Moves(h) /\ handler[h].pc = "reply1" /\ handler'[h].pc = "reply2"
      /\ handler'[h].in = handler[h].in /\ handler'[h].new_id = handler[h].new_id
  BY Typed DEF Reply1, Thread, Moves
<1>2. SamePlaces /\ others' = others /\ Len(others) > 1
  BY <1>1, Typed DEF Reply1, SamePlaces, Sock, Placed
<1>3. PICK a \in Text(Joiner.addr) : WritesTo(Predecessor.sock, JoinResp(a))
  BY DEF Reply1
<1>4. a \in {Joiner.addr, Garbled} /\ a \in Address /\ Predecessor.sock \in Backup
  BY <1>1, <1>2, LastPlaces DEF Text, Address, Accepted
<1>5. Adds(Predecessor.sock, JoinResp(a)) /\ up' \in BOOLEAN
  BY <1>3, <1>4, Packets, WritesAdds
<1>6. QED BY <1>1, <1>2, <1>4, <1>5

LEMMA Reply2Moves ==
    ASSUME TypeOK, Placed, NEW h \in Backup, Reply2(h)
    PROVE  /\ Moves(h) /\ handler[h].pc = "reply2" /\ handler'[h].pc = "count"
           /\ handler'[h].in = handler[h].in /\ handler'[h].new_id = handler[h].new_id
           /\ SamePlaces /\ others' = others /\ Len(others) > 1 /\ up' \in BOOLEAN
           /\ \E a \in {others[1].addr, Garbled} \cap Address : Adds(Joiner.sock, JoinResp(a))
<1>1. Moves(h) /\ handler[h].pc = "reply2" /\ handler'[h].pc = "count"
      /\ handler'[h].in = handler[h].in /\ handler'[h].new_id = handler[h].new_id
  BY Typed DEF Reply2, Thread, Moves
<1>2. SamePlaces /\ others' = others /\ Len(others) > 1
  BY <1>1, Typed DEF Reply2, SamePlaces, Sock, Placed
<1>3. PICK a \in Text(others[1].addr) : WritesTo(Joiner.sock, JoinResp(a))
  BY DEF Reply2
<1>4. a \in {others[1].addr, Garbled} /\ a \in Address /\ Joiner.sock \in Backup
  BY <1>1, <1>2, LastPlaces DEF Text, Address, Accepted
<1>5. Adds(Joiner.sock, JoinResp(a)) /\ up' \in BOOLEAN
  BY <1>3, <1>4, Packets, WritesAdds
<1>6. QED BY <1>1, <1>2, <1>4, <1>5

LEMMA CountsMoves ==
    ASSUME TypeOK, Placed, NEW h \in Backup, CountsId(h)
    PROVE  /\ Moves(h) /\ SamePlaces /\ handler[h].pc = "count" /\ handler'[h].pc = "send"
           /\ handler'[h].in = handler[h].in /\ handler'[h].new_id = Len(others) - 1
<1>1. NewId \in Nat /\ NewId = Len(others) - 1
  BY LastPlaces DEF CountsId, Accepted, NewId
<1>2. QED BY <1>1, Typed DEF CountsId, Thread, Moves, SamePlaces, Sock

LEMMA SendsMoves ==
    ASSUME TypeOK, Placed, NEW h \in Backup, SendsId(h)
    PROVE  /\ Moves(h) /\ SamePlaces /\ others' = others
           /\ handler[h].pc = "send" /\ handler'[h].pc = "read"
           /\ handler'[h].in = handler[h].in /\ handler'[h].new_id = handler[h].new_id
           /\ handler[h].new_id \in Nat /\ up' \in BOOLEAN
           /\ Adds(Joiner.sock, [type |-> "YOUR_ID_RESP", id |-> handler[h].new_id])
<1>1. Moves(h) /\ SamePlaces /\ others' = others /\ handler[h].pc = "send" /\ handler'[h].pc = "read"
      /\ handler'[h].in = handler[h].in /\ handler'[h].new_id = handler[h].new_id
      /\ handler[h].new_id \in Nat
  BY Typed DEF SendsId, Thread, Moves, SamePlaces, Sock
<1>2. Joiner.sock \in Backup
  BY <1>1, LastPlaces DEF Accepted
<1>3. WritesTo(Joiner.sock, [type |-> "YOUR_ID_RESP", id |-> handler[h].new_id])
  BY DEF SendsId
<1>4. QED BY <1>1, <1>2, <1>3, Packets, WritesAdds

\* A broadcast adds its packet, if anything, to the mail of some backups.
LEMMA BroadcastsMail ==
    ASSUME TypeOK, Placed, Broadcasts
    PROVE  /\ inbox' \in [Backup -> Seq(Packet)] /\ up' \in BOOLEAN /\ broadcasts' \in 1 .. MaxBroadcasts
           /\ \A b \in Backup :
                 /\ Mail(b)' = Mail(b) \/ Mail(b)' = Mail(b) \cup {[type |-> "SIGNED_PACKET"]}
                 /\ OneResp(b) => OneResp(b)'
                 /\ ~Accepted(b) => inbox'[b] = inbox[b]
<1> DEFINE p == [type |-> "SIGNED_PACKET"]
<1>1. up' \in BOOLEAN /\ broadcasts' \in 1 .. MaxBroadcasts
  <2>1. broadcasts \in 0 .. MaxBroadcasts /\ broadcasts < MaxBroadcasts /\ broadcasts' = broadcasts + 1
    BY DEF Broadcasts, TypeOK
  <2>2. up' \in BOOLEAN
    BY DEF Broadcasts
  <2>3. QED BY <2>1, <2>2, Constants
<1>2. PICK n \in 0 .. Len(others) :
          inbox' = [b \in Backup |->
             IF pc[b] # "dead" /\ \E k \in 1 .. n : others[k].sock = b
             THEN Append(inbox[b], p) ELSE inbox[b]]
  BY DEF Broadcasts
<1>3. ASSUME NEW b \in Backup
      PROVE  \/ inbox'[b] = inbox[b]
             \/ inbox'[b] = Append(inbox[b], p) /\ \E k \in DOMAIN others : Sock(k) = b
  <2>1. 1 .. n \subseteq DOMAIN others
    BY Typed
  <2>2. inbox'[b] = IF pc[b] # "dead" /\ \E k \in 1 .. n : others[k].sock = b
                    THEN Append(inbox[b], p) ELSE inbox[b]
    BY <1>2
  <2>3. CASE pc[b] # "dead" /\ \E k \in 1 .. n : others[k].sock = b
    BY <2>1, <2>2, <2>3 DEF Sock
  <2>4. QED BY <2>2, <2>3
<1>4. \A b \in Backup : ~Accepted(b) => inbox'[b] = inbox[b]
  BY <1>3 DEF Placed
<1>5. p \in Packet /\ ~IsResp(p)
  BY Packets DEF IsResp
<1>6. ASSUME NEW b \in Backup
      PROVE  /\ Mail(b)' = Mail(b) \/ Mail(b)' = Mail(b) \cup {p}
             /\ OneResp(b) => OneResp(b)'
             /\ inbox'[b] \in Seq(Packet)
  <2>1. inbox[b] \in Seq(Packet)
    BY Typed
  <2>2. CASE inbox'[b] = inbox[b]
    BY <2>1, <2>2 DEF Mail, OneResp
  <2>3. CASE inbox'[b] = Append(inbox[b], p)
    <3>1. Mail(b)' = Mail(b) \cup {p}
      BY <2>1, <2>3, <1>5, AppendedMail DEF Mail
    <3>2. ASSUME OneResp(b)
          PROVE  OneResp(b)'
      BY <2>1, <2>3, <3>2, <1>5, AppendedMail DEF OneResp
    <3>3. QED BY <3>1, <3>2, <2>1, <2>3, <1>5, AppendProperties
  <2>4. QED BY <1>3, <2>2, <2>3
<1>7. inbox' \in [Backup -> Seq(Packet)]
  BY <1>2, <1>6
<1>8. QED BY <1>1, <1>4, <1>6, <1>7

\* What a backup does with the packet it takes, whatever it waits for.
Reads(b) ==
    LET p == Head(inbox[b])
    IN  /\ UNCHANGED <<serial, others, handler, up, toMaster, broadcasts>>
        /\ \E type : Takes(b, type)
        /\ \A c \in Backup \ {b} : pc'[c] = pc[c] /\ id'[c] = id[c] /\ adjacent'[c] = adjacent[c]
        /\ pc[b] \in {"join", "id", "joined"} /\ pc'[b] \in {"id", "joined", "dead"}
        /\ pc[b] = "joined" => pc'[b] # "id"
        /\ id'[b] = id[b] \/ (p.type = "YOUR_ID_RESP" /\ id'[b] = p.id)
        /\ adjacent'[b] = adjacent[b] \/ (IsResp(p) /\ adjacent'[b] = p.addr)
        /\ IsResp(p) => pc'[b] = "dead" \/ pc[b] = "id" \/ adjacent'[b] = p.addr
        /\ pc'[b] = "id" => pc[b] = "join" /\ IsResp(p)
        /\ pc'[b] = "joined" /\ pc[b] # "joined" =>
              \/ p.type = "YOUR_ID_RESP" /\ id'[b] = p.id
              \/ p.type = "SIGNED_PACKET"
              \/ pc[b] = "id" /\ IsResp(p)

LEMMA BackupReadsMail ==
    ASSUME TypeOK, NEW b \in Backup, BackupReads(b)
    PROVE  /\ Reads(b)
           /\ pc' \in [Backup -> {"off", "join", "id", "joined", "dead"}]
           /\ id' \in [Backup -> Nat \cup {None}] /\ adjacent' \in [Backup -> Address]
<1> DEFINE p == Head(inbox[b])
<1>1. ASSUME NEW type, Takes(b, type)
      PROVE  p.type = type /\ (p.type = "JOIN_RESP" => p.addr \in Address)
             /\ (p.type = "YOUR_ID_RESP" => p.id \in Nat)
  BY <1>1, TakesMail, Packets
<1>2. pc \in [Backup -> {"off", "join", "id", "joined", "dead"}]
      /\ id \in [Backup -> Nat \cup {None}] /\ adjacent \in [Backup -> Address]
  BY DEF TypeOK
<1>3. CASE ReadsJoinResp(b)
  <2>1. Takes(b, "JOIN_RESP") /\ p.type = "JOIN_RESP" /\ p.addr \in Address
    BY <1>1, <1>3 DEF ReadsJoinResp
  <2>2. \/ adjacent' = [adjacent EXCEPT ![b] = p.addr] /\ pc' = [pc EXCEPT ![b] = "id"]
        \/ pc' = [pc EXCEPT ![b] = "dead"] /\ adjacent' = adjacent
    BY <1>3 DEF ReadsJoinResp, SetsAdjacent
  <2>3. pc[b] = "join" /\ UNCHANGED <<serial, others, handler, up, id, toMaster, broadcasts>>
    BY <1>3 DEF ReadsJoinResp
  <2>4. QED BY <1>2, <2>1, <2>2, <2>3 DEF Reads, IsResp
<1>4. CASE ReadsYourId(b)
  <2>1. Takes(b, "YOUR_ID_RESP") /\ p.type = "YOUR_ID_RESP" /\ p.id \in Nat
    BY <1>1, <1>4 DEF ReadsYourId
  <2>2. QED BY <1>2, <1>4, <2>1 DEF ReadsYourId, Reads, IsResp
<1>5. CASE ReadsOther(b)
  <2>1. \/ pc[b] \in {"join", "id"} /\ Takes(b, "SIGNED_PACKET") /\ p.type = "SIGNED_PACKET"
        \/ pc[b] = "id" /\ Takes(b, "JOIN_RESP") /\ p.type = "JOIN_RESP"
    BY <1>1, <1>5 DEF ReadsOther
  <2>2. QED BY <1>2, <1>5, <2>1 DEF ReadsOther, Reads, IsResp
<1>6. CASE KeepaliveReads(b)
  <2>1. pc[b] = "joined" /\ UNCHANGED <<serial, others, handler, up, id, toMaster, broadcasts>>
    BY <1>6 DEF KeepaliveReads
  <2>2. CASE Takes(b, "JOIN_RESP") /\ SetsAdjacent(b, "joined")
    <3>1. p.type = "JOIN_RESP" /\ p.addr \in Address
      BY <1>1, <2>2
    <3>2. \/ adjacent' = [adjacent EXCEPT ![b] = p.addr] /\ pc' = [pc EXCEPT ![b] = "joined"]
          \/ pc' = [pc EXCEPT ![b] = "dead"] /\ adjacent' = adjacent
      BY <2>2 DEF SetsAdjacent
    <3>3. QED BY <1>2, <2>1, <2>2, <3>1, <3>2 DEF Reads, IsResp
  <2>3. CASE Takes(b, "YOUR_ID_RESP") /\ UNCHANGED <<pc, adjacent>>
    BY <1>1, <1>2, <2>1, <2>3 DEF Reads, IsResp
  <2>4. CASE Takes(b, "SIGNED_PACKET") /\ UNCHANGED <<pc, adjacent>>
    BY <1>1, <1>2, <2>1, <2>4 DEF Reads, IsResp
  <2>5. QED BY <1>6, <2>2, <2>3, <2>4 DEF KeepaliveReads
<1>7. QED BY <1>3, <1>4, <1>5, <1>6 DEF BackupReads

-----------------------------------------------------------------------------
(* Places.                                                                 *)

LEMMA TypeStep ==
    ASSUME TypeOK, Placed, Next
    PROVE  TypeOK'
<1>1. ASSUME NEW b \in Backup, Accepts(b)
      PROVE  TypeOK'
  <2>1. UNCHANGED <<serial, up, joinVars, toMaster, inbox, broadcasts>>
    BY <1>1 DEF Accepts
  <2>2. \A h \in Backup : handler'[h].pc # "none" => handler'[h].in <= Len(others')
    <3>1. \A h \in Backup : handler'[h].in = handler[h].in
      BY <1>1, AcceptsAppends, Zenon
    <3>2. \A h \in Backup : handler[h].in = 0 \/ handler[h].in \in DOMAIN others
      BY Typed DEF Placed, Thread
    <3>3. Len(others) \in Nat /\ DOMAIN others = 1 .. Len(others) /\ Len(others') = Len(others) + 1
      BY <1>1, Typed, AcceptsAppends, Zenon
    <3>4. QED BY <3>1, <3>2, <3>3
  <2>3. others' \in Seq(Place) /\ handler' \in [Backup -> Thread]
    BY <1>1, AcceptsAppends, Zenon
  <2>4. QED BY <2>1, <2>2, <2>3 DEF TypeOK, joinVars, Place, Thread
<1>2. ASSUME NEW h \in Backup, Handler(h)
      PROVE  TypeOK'
  <2>1. Moves(h) /\ SamePlaces /\ handler'[h].in \in 0 .. Len(others) /\ handler[h].pc # "none"
    <3>1. handler[h].in \in DOMAIN others \cup {0} /\ Len(others) \in Nat /\ DOMAIN others = 1 .. Len(others)
      BY Typed DEF Placed, Thread
    <3>2. handler[h].in \in 0 .. Len(others) /\ \A i \in DOMAIN others : i \in 0 .. Len(others)
      BY <3>1
    <3>3. QED BY <1>2, <3>2, StartsMoves, ReadsMoves, AloneMoves, Reply1Moves, Reply2Moves, CountsMoves, SendsMoves, ZenonT(30)
              DEF Handler
  <2>2. UNCHANGED <<serial, joinVars, broadcasts>>
    BY <1>2 DEF Handler, HandlerStarts, HandlerReads, Alone, Reply1, Reply2, CountsId, SendsId
  <2>3. inbox' \in [Backup -> Seq(Packet)] /\ up' \in BOOLEAN /\ toMaster' \subseteq Backup
    <3>1. CASE HandlerStarts(h) \/ HandlerReads(h) \/ Alone(h) \/ CountsId(h)
      BY <3>1, Typed DEF HandlerStarts, HandlerReads, Alone, CountsId, TypeOK
    <3>2. CASE Reply1(h) \/ Reply2(h) \/ SendsId(h)
      <4>1. toMaster' = toMaster
        BY <3>2 DEF Reply1, Reply2, SendsId
      <4>2. up' \in BOOLEAN /\ \E b, p : Adds(b, p)
        BY <3>2, Reply1Moves, Reply2Moves, SendsMoves
      <4>3. QED BY <4>1, <4>2, Typed DEF Adds
    <3>3. QED BY <1>2, <3>1, <3>2 DEF Handler
  <2>4. \A c \in Backup : handler'[c].pc # "none" => handler'[c].in <= Len(others')
    <3>1. \A c \in Backup : handler[c].pc # "none" => handler[c].in <= Len(others)
      BY DEF TypeOK
    <3>2. handler'[h].in <= Len(others')
      BY <2>1, Typed DEF SamePlaces
    <3>3. QED BY <2>1, <3>1, <3>2 DEF Moves, SamePlaces
  <2>5. QED BY <2>1, <2>2, <2>3, <2>4 DEF TypeOK, joinVars, Place, Thread, Moves, SamePlaces
<1>3. ASSUME NEW h \in Backup, HandlerReadFails(h)
      PROVE  TypeOK'
  BY <1>3 DEF HandlerReadFails, TypeOK, joinVars
<1>4. ASSUME NEW b \in Backup, Joins(b)
      PROVE  TypeOK'
  BY <1>4 DEF Joins, TypeOK
<1>5. ASSUME NEW b \in Backup, BackupReads(b)
      PROVE  TypeOK'
  <2>1. inbox' \in [Backup -> Seq(Packet)]
    <3>1. PICK type : Takes(b, type)
      BY <1>5, BackupReadsMail DEF Reads
    <3>2. QED BY <3>1, TakesMail
  <2>2. QED BY <1>5, <2>1, BackupReadsMail DEF Reads, TypeOK
<1>6. ASSUME NEW b \in Backup, Crashes(b)
      PROVE  TypeOK'
  BY <1>6 DEF Crashes, TypeOK
<1>7. ASSUME Broadcasts
      PROVE  TypeOK'
  <2>1. inbox' \in [Backup -> Seq(Packet)] /\ up' \in BOOLEAN /\ broadcasts' \in 0 .. MaxBroadcasts
    BY <1>7, BroadcastsMail, Constants
  <2>2. UNCHANGED <<serial, others, handler, joinVars, toMaster>>
    BY <1>7 DEF Broadcasts
  <2>3. QED BY <2>1, <2>2 DEF TypeOK, joinVars
<1>8. QED BY <1>1, <1>2, <1>3, <1>4, <1>5, <1>6, <1>7 DEF Next

\* A step of a thread that has been started; what it writes goes to accepted
\* backups.
LEMMA HandlerKeeps ==
    ASSUME TypeOK, Placed, NEW h \in Backup, Handler(h)
    PROVE  /\ Moves(h) /\ SamePlaces /\ UNCHANGED <<serial, pc, id, adjacent, broadcasts>>
           /\ Accepted(h) /\ handler'[h].pc \notin {"none", "start"}
           /\ handler'[h].in \in DOMAIN others
           /\ handler[h].pc = "start" \/ handler'[h].in = handler[h].in
           /\ handler'[h].pc = "reply2" => Len(others) > 1
           /\ \A c \in Backup : ~Accepted(c) => inbox'[c] = inbox[c]
<1>1. UNCHANGED <<serial, pc, id, adjacent, broadcasts>>
  BY DEF Handler, HandlerStarts, HandlerReads, Alone, Reply1, Reply2, CountsId, SendsId, joinVars
<1>2. handler[h].pc \notin {"none", "start"} => handler[h].in \in DOMAIN others
  BY DEF Placed
<1>3. CASE HandlerStarts(h)
  BY <1>1, <1>3, StartsMoves DEF HandlerStarts, Accepted
<1>4. CASE HandlerReads(h)
  <2>1. handler'[h].pc = "reply1"
    BY <1>4, ReadsMoves
  <2>2. /\ Moves(h) /\ SamePlaces /\ Accepted(h) /\ handler'[h].in = handler[h].in
        /\ handler[h].in \in DOMAIN others /\ inbox' = inbox
    BY <1>4, ReadsMoves DEF HandlerReads, Accepted
  <2>3. QED BY <1>1, <2>1, <2>2
<1>5. CASE Reply1(h)
  <2>1. \A c \in Backup : ~Accepted(c) => inbox'[c] = inbox[c]
    BY <1>5, Reply1Moves, LastPlaces DEF Placed, Adds, Accepted
  <2>2. QED BY <1>1, <1>2, <1>5, <2>1, Reply1Moves DEF Accepted
<1>6. CASE Reply2(h)
  <2>1. \A c \in Backup : ~Accepted(c) => inbox'[c] = inbox[c]
    BY <1>6, Reply2Moves, LastPlaces DEF Placed, Adds, Accepted
  <2>2. QED BY <1>1, <1>2, <1>6, <2>1, Reply2Moves DEF Accepted
<1>7. CASE CountsId(h)
  BY <1>1, <1>2, <1>7, CountsMoves DEF CountsId, Accepted
<1>8. CASE SendsId(h)
  <2>1. \A c \in Backup : ~Accepted(c) => inbox'[c] = inbox[c]
    <3>1. Accepted(h) /\ \E p : Adds(Joiner.sock, p)
      BY <1>8, SendsMoves DEF Accepted
    <3>2. Accepted(Joiner.sock)
      BY <3>1, LastPlaces DEF Placed
    <3>3. QED BY <3>1, <3>2 DEF Adds
  <2>2. QED BY <1>1, <1>2, <1>8, <2>1, SendsMoves DEF Accepted
<1>9. CASE Alone(h)
  BY <1>1, <1>2, <1>9, AloneMoves DEF Accepted
<1>10. QED BY <1>3, <1>4, <1>5, <1>6, <1>7, <1>8, <1>9 DEF Handler

\* What a backup that has not been accepted has seen: nothing
Unseen(b) ==
    /\ inbox[b] = << >> /\ id[b] = None /\ ~handler[b].dangling
    /\ pc[b] \in {"off", "join", "dead"}

LEMMA PlacedStep ==
    ASSUME TypeOK, Placed, Next
    PROVE  Placed'
<1>1. ASSUME NEW b \in Backup, Accepts(b)
      PROVE  Placed'
  <2>0. PICK n : n = Len(others) + 1
    OBVIOUS
  <2>1. UNCHANGED joinVars /\ inbox' = inbox
    BY <1>1 DEF Accepts
  <2>2. /\ \A k \in DOMAIN others : Sock(k)' = Sock(k)
        /\ Sock(n)' = b
        /\ DOMAIN others' = DOMAIN others \cup {n} /\ ~Accepted(b)
    <3>1. /\ \A k \in DOMAIN others : others'[k] = others[k]
          /\ others'[n] = [sock |-> b, addr |-> None]
          /\ DOMAIN others' = DOMAIN others \cup {n} /\ handler[b].pc = "none"
      BY <1>1, <2>0, AcceptsAppends, Zenon
    <3>2. QED BY <3>1 DEF Sock, Accepted
  <2>3. \A h \in Backup : Accepted(h)' <=> Accepted(h) \/ h = b
    BY <1>1, AcceptsAppends, Zenon DEF Accepted
  <2>4. \A k, l \in DOMAIN others' : Sock(k)' = Sock(l)' => k = l
    BY <2>2 DEF Placed
  <2>5. \A k \in DOMAIN others' : Accepted(Sock(k))'
    <3>1. \A k \in DOMAIN others : Sock(k) \in Backup
      BY Typed
    <3>2. TAKE k \in DOMAIN others'
    <3>3. PICK c \in Backup : c = Sock(k)' /\ (Accepted(c) \/ c = b)
      BY <2>2, <3>1, <3>2 DEF Placed
    <3>4. handler'[c].pc # "none"
      BY <2>3, <3>3 DEF Accepted
    <3>5. QED BY <3>3, <3>4 DEF Accepted
  <2>6. \A h \in Backup : Accepted(h)' => \E k \in DOMAIN others' : Sock(k)' = h
    BY <2>2, <2>3 DEF Placed
  <2>7. \A h \in Backup : handler'[h].pc \in {"none", "start"} => handler'[h].in = 0
    <3>1. \A h \in Backup : handler[h].pc \in {"none", "start"} => handler[h].in = 0
      BY DEF Placed
    <3>2. /\ \A h \in Backup \ {b} : handler'[h].pc = handler[h].pc /\ handler'[h].in = handler[h].in
          /\ handler'[b].in = 0
      BY <1>1, AcceptsAppends, Zenon
    <3>3. QED BY <3>1, <3>2
  <2>8. \A h \in Backup : handler'[h].pc \notin {"none", "start"} => handler'[h].in \in DOMAIN others'
    BY <1>1, <2>2, AcceptsAppends, Zenon DEF Placed
  <2>9. \A h \in Backup : handler'[h].pc = "reply2" => Len(others') > 1
    <3>1. Len(others') = Len(others) + 1 /\ Len(others) \in Nat
      BY <1>1, AcceptsAppends, Typed
    <3>2. handler'[b].pc = "start" /\ \A h \in Backup \ {b} : handler'[h].pc = handler[h].pc
      BY <1>1, AcceptsAppends, Zenon
    <3>3. \A h \in Backup : handler'[h].pc = "reply2" => Len(others) > 1
      BY <3>2 DEF Placed
    <3>4. QED BY <3>1, <3>3
  <2>10. \A h \in Backup : ~Accepted(h)' => Unseen(h)'
    <3>1. TAKE h \in Backup
    <3>2. HAVE ~Accepted(h)'
    <3>3. ~Accepted(h) /\ h # b
      BY <2>3, <3>2
    <3>4. Unseen(h) /\ handler[h].in = 0
      BY <3>3 DEF Placed, Unseen, Accepted
    <3>5. ~handler'[h].dangling
      BY <1>1, <3>3, <3>4, AcceptsAppends, Zenon DEF Unseen
    <3>6. QED BY <2>1, <3>4, <3>5 DEF Unseen, joinVars
  <2>11. \A h \in Backup : pc'[h] = "off" => ~Accepted(h)'
    BY <1>1, <2>1, <2>3 DEF Placed, joinVars, Accepts
  <2>12. QED BY <2>4, <2>5, <2>6, <2>7, <2>8, <2>9, <2>10, <2>11 DEF Placed, Unseen
<1>2. ASSUME NEW h \in Backup, Handler(h)
      PROVE  Placed'
  <2>1. /\ Moves(h) /\ SamePlaces /\ UNCHANGED <<serial, pc, id, adjacent, broadcasts>>
        /\ Accepted(h) /\ handler'[h].pc \notin {"none", "start"}
        /\ handler'[h].in \in DOMAIN others
        /\ handler'[h].pc = "reply2" => Len(others) > 1
        /\ \A c \in Backup : ~Accepted(c) => inbox'[c] = inbox[c]
    BY <1>2, HandlerKeeps
  <2>2. \A c \in Backup : Accepted(c)' = Accepted(c)
    BY <2>1 DEF Moves, Accepted
  <2>3. \A k, l \in DOMAIN others' : Sock(k)' = Sock(l)' => k = l
    BY <2>1 DEF Placed, SamePlaces
  <2>4. \A k \in DOMAIN others' : Accepted(Sock(k))'
    <3>1. \A k \in DOMAIN others : handler'[Sock(k)].pc # "none"
      BY <2>2, Typed DEF Placed, Accepted
    <3>2. QED BY <2>1, <3>1 DEF SamePlaces, Accepted
  <2>5. \A c \in Backup : Accepted(c)' => \E k \in DOMAIN others' : Sock(k)' = c
    BY <2>1, <2>2 DEF Placed, SamePlaces
  <2>6. \A c \in Backup : handler'[c].pc \in {"none", "start"} => handler'[c].in = 0
    BY <2>1 DEF Placed, Moves
  <2>7. \A c \in Backup : handler'[c].pc \notin {"none", "start"} => handler'[c].in \in DOMAIN others'
    BY <2>1 DEF Placed, Moves, SamePlaces
  <2>8. \A c \in Backup : handler'[c].pc = "reply2" => Len(others') > 1
    BY <2>1 DEF Placed, Moves, SamePlaces
  <2>9. \A c \in Backup : ~Accepted(c)' => Unseen(c)'
    BY <2>1, <2>2 DEF Placed, Moves, Unseen, Accepted
  <2>10. \A c \in Backup : pc'[c] = "off" => ~Accepted(c)'
    BY <2>1, <2>2 DEF Placed
  <2>11. QED BY <2>3, <2>4, <2>5, <2>6, <2>7, <2>8, <2>9, <2>10 DEF Placed, Unseen
<1>3. ASSUME NEW h \in Backup, HandlerReadFails(h)
      PROVE  Placed'
  BY <1>3 DEF HandlerReadFails, Placed, joinVars, Sock, Accepted
<1>4. ASSUME UNCHANGED <<others, handler>>,
             \A c \in Backup : Accepted(c) => pc'[c] # "off",
             \A c \in Backup : ~Accepted(c) => Unseen(c)'
      PROVE  Placed'
  BY <1>4 DEF Placed, Sock, Accepted, Unseen
<1>5. \A c \in Backup : (Accepted(c) => pc[c] # "off") /\ (~Accepted(c) => Unseen(c))
  BY DEF Placed, Unseen, Accepted
<1>6. ASSUME NEW b \in Backup, Joins(b)
      PROVE  Placed'
  <2>1. UNCHANGED <<others, handler, id, inbox>> /\ pc' = [pc EXCEPT ![b] = "join"]
    BY <1>6 DEF Joins
  <2>2. QED BY <1>4, <1>5, <2>1 DEF Unseen, TypeOK
<1>7. ASSUME NEW b \in Backup, BackupReads(b)
      PROVE  Placed'
  <2>1. Reads(b)
    BY <1>7, BackupReadsMail
  <2>2. inbox[b] # << >> /\ \A c \in Backup \ {b} : inbox'[c] = inbox[c]
    BY <2>1, TakesMail DEF Reads, Takes
  <2>3. Accepted(b)
    BY <1>5, <2>2 DEF Unseen
  <2>4. QED BY <1>4, <1>5, <2>1, <2>2, <2>3 DEF Reads, Unseen
<1>8. ASSUME NEW b \in Backup, Crashes(b)
      PROVE  Placed'
  <2>1. UNCHANGED <<others, handler, id, inbox>> /\ pc' = [pc EXCEPT ![b] = "dead"]
    BY <1>8 DEF Crashes
  <2>2. QED BY <1>4, <1>5, <2>1 DEF Unseen, TypeOK
<1>9. ASSUME Broadcasts
      PROVE  Placed'
  <2>1. UNCHANGED <<others, handler, pc, id>>
    BY <1>9 DEF Broadcasts, joinVars
  <2>2. \A c \in Backup : ~Accepted(c) => inbox'[c] = inbox[c]
    BY <1>9, BroadcastsMail
  <2>3. QED BY <1>4, <1>5, <2>1, <2>2 DEF Unseen
<1>10. QED BY <1>1, <1>2, <1>3, <1>6, <1>7, <1>8, <1>9 DEF Next

\* Where a packet that is new in the mail of b comes from.
LEMMA NewMail ==
    ASSUME TypeOK, Placed, Next, NEW b \in Backup, NEW p \in Mail(b)', p \notin Mail(b)
    PROVE  \/ p.type = "SIGNED_PACKET" /\ broadcasts' # 0
           \/ p.type = "JOIN_RESP"
           \/ \E h \in Backup :
                 /\ SendsId(h) /\ Len(others) \in DOMAIN others /\ b = Sock(Len(others))
                 /\ p.type = "YOUR_ID_RESP" /\ p.id = handler[h].new_id
<1>1. inbox' # inbox
  BY DEF Mail
<1>2. ASSUME NEW c \in Backup, NEW q \in Packet, Adds(c, q)
      PROVE  p = q /\ b = c
  BY <1>2, AddsMail
<1>3. ASSUME NEW h \in Backup, Reply1(h)
      PROVE  p.type = "JOIN_RESP"
  <2>1. PICK a \in Address : Adds(Predecessor.sock, JoinResp(a))
    BY <1>3, Reply1Moves
  <2>2. Predecessor.sock \in Backup
    BY <1>3, Reply1Moves, LastPlaces DEF Accepted
  <2>3. QED BY <2>1, <2>2, <1>2, Packets
<1>4. ASSUME NEW h \in Backup, Reply2(h)
      PROVE  p.type = "JOIN_RESP"
  <2>1. PICK a \in Address : Adds(Joiner.sock, JoinResp(a))
    BY <1>4, Reply2Moves
  <2>2. Joiner.sock \in Backup
    BY <1>4, Reply2Moves, LastPlaces DEF Accepted
  <2>3. QED BY <2>1, <2>2, <1>2, Packets
<1>5. ASSUME NEW h \in Backup, SendsId(h)
      PROVE  /\ Len(others) \in DOMAIN others /\ b = Sock(Len(others))
             /\ p.type = "YOUR_ID_RESP" /\ p.id = handler[h].new_id
  <2>1. Accepted(h) /\ handler[h].new_id \in Nat
        /\ Adds(Joiner.sock, [type |-> "YOUR_ID_RESP", id |-> handler[h].new_id])
    BY <1>5, SendsMoves DEF Accepted
  <2>2. Joiner.sock \in Backup /\ Len(others) \in DOMAIN others /\ Joiner.sock = Sock(Len(others))
    BY <2>1, LastPlaces
  <2>3. p = [type |-> "YOUR_ID_RESP", id |-> handler[h].new_id] /\ b = Joiner.sock
    BY <2>1, <2>2, <1>2, Packets
  <2>4. QED BY <2>2, <2>3
<1>6. ASSUME Broadcasts
      PROVE  p.type = "SIGNED_PACKET" /\ broadcasts' # 0
  <2>1. p = [type |-> "SIGNED_PACKET"] /\ broadcasts' \in 1 .. MaxBroadcasts
    BY <1>6, BroadcastsMail
  <2>2. QED BY <2>1, Constants
<1>7. ASSUME NEW c \in Backup, BackupReads(c)
      PROVE  FALSE
  <2>1. PICK type : Takes(c, type)
    BY <1>7, BackupReadsMail DEF Reads
  <2>2. Mail(b)' \subseteq Mail(b)
    BY <2>1, TakesMail
  <2>3. QED BY <2>2
<1>8. \A c \in Backup : ~(Accepts(c) \/ HandlerStarts(c) \/ HandlerReads(c) \/ Alone(c)
                          \/ CountsId(c) \/ HandlerReadFails(c) \/ Joins(c) \/ Crashes(c))
  BY <1>1 DEF Accepts, HandlerStarts, HandlerReads, Alone, CountsId, HandlerReadFails, Joins, Crashes
<1>9. QED BY <1>3, <1>4, <1>5, <1>6, <1>7, <1>8 DEF Next, Handler

\* An id that is new at b is in its mail.
LEMMA NewAtBackup ==
    ASSUME TypeOK, Next, NEW b \in Backup, id'[b] # id[b]
    PROVE  \E p \in Mail(b) : p.type = "YOUR_ID_RESP" /\ id'[b] = p.id
<1>1. PICK c \in Backup : BackupReads(c)
  BY DEF Next, Accepts, Handler, HandlerStarts, HandlerReads, Alone, Reply1, Reply2, CountsId, SendsId,
         HandlerReadFails, Joins, Crashes, Broadcasts, joinVars
<1>2. Reads(c)
  BY <1>1, BackupReadsMail
<1>3. c = b
  BY <1>2 DEF Reads
<1>4. Head(inbox[b]) \in Mail(b)
  <2>1. PICK type : Takes(b, type)
    BY <1>2, <1>3 DEF Reads
  <2>2. QED BY <2>1, TakesMail
<1>5. QED BY <1>2, <1>3, <1>4 DEF Reads

\* An id that is to be written was counted.
LEMMA NewInThread ==
    ASSUME TypeOK, Placed, Next, NEW h \in Backup, handler'[h].pc = "send"
    PROVE  \/ handler[h].pc = "send" /\ handler'[h].new_id = handler[h].new_id
           \/ CountsId(h) /\ handler'[h].new_id = Len(others) - 1
<1>1. CASE UNCHANGED handler
  BY <1>1
<1>2. ASSUME NEW b \in Backup, Accepts(b)
      PROVE  handler[h].pc = "send" /\ handler'[h].new_id = handler[h].new_id
  BY <1>2, AcceptsAppends
<1>3. ASSUME NEW b \in Backup, Handler(b)
      PROVE  \/ handler[h].pc = "send" /\ handler'[h].new_id = handler[h].new_id
             \/ CountsId(h) /\ handler'[h].new_id = Len(others) - 1
  <2>1. CASE h # b
    BY <2>1, <1>3, HandlerKeeps DEF Moves
  <2>2. CASE h = b
    <3>1. CASE HandlerReads(h)
      <4>1. handler'[h].pc = "reply1"
        BY <3>1, ReadsMoves
      <4>2. QED BY <4>1
    <3>2. CASE ~HandlerReads(h)
      BY <2>2, <3>2, <1>3, StartsMoves, AloneMoves, Reply1Moves, Reply2Moves, CountsMoves, SendsMoves DEF Handler
    <3>3. QED BY <3>1, <3>2
  <2>3. QED BY <2>1, <2>2
<1>4. (\E b \in Backup : Accepts(b) \/ Handler(b)) \/ UNCHANGED handler
  BY DEF Next, HandlerReadFails, Joins, BackupReads, ReadsJoinResp, ReadsYourId, ReadsOther,
         KeepaliveReads, Crashes, Broadcasts
<1>5. QED BY <1>1, <1>2, <1>3, <1>4

\* A place that was taken stays with its backup; a new one is the next.
LEMMA PlacesStay ==
    ASSUME TypeOK, Placed, Next
    PROVE  /\ Len(others) \in Nat /\ Len(others') \in Nat /\ Len(others) <= Len(others')
           /\ DOMAIN others = 1 .. Len(others) /\ DOMAIN others' = 1 .. Len(others')
           /\ \A k \in DOMAIN others : k \in DOMAIN others' /\ Sock(k)' = Sock(k) /\ Sock(k) \in Backup
           /\ \A k \in DOMAIN others' \ DOMAIN others :
                 /\ k = Len(others) + 1 /\ Len(others') = k /\ Sock(k)' \in Backup
                 /\ Accepts(Sock(k)') /\ Mail(Sock(k))' = {} /\ id'[Sock(k)'] = None
<1>1. TypeOK'
  BY TypeStep
<1>2. Len(others') \in Nat /\ DOMAIN others' = 1 .. Len(others')
  BY <1>1, Typed
<1>3. Len(others) \in Nat /\ DOMAIN others = 1 .. Len(others) /\ \A k \in DOMAIN others : Sock(k) \in Backup
  BY Typed
<1>4. CASE \E b \in Backup : Accepts(b)
  <2>1. PICK b \in Backup : Accepts(b)
    BY <1>4
  <2>2. PICK n \in Nat : n = Len(others) + 1
    BY <1>3
  <2>3. /\ Len(others') = n /\ DOMAIN others' = DOMAIN others \cup {n}
        /\ \A k \in DOMAIN others : others'[k] = others[k]
        /\ others'[n] = [sock |-> b, addr |-> None] /\ ~Accepted(b)
    BY <2>1, <2>2, AcceptsAppends, Zenon DEF Accepted
  <2>4. (\A k \in DOMAIN others : Sock(k)' = Sock(k)) /\ Sock(n)' = b
    BY <2>3 DEF Sock
  <2>5. inbox'[b] = << >> /\ id'[b] = None
    BY <2>1, <2>3 DEF Accepts, Placed, joinVars
  <2>6. Mail(b)' = {}
    BY <2>5 DEF Mail
  <2>7. Mail(Sock(n))' = {}
    BY <2>4, <2>6 DEF Mail
  <2>8. Len(others) <= Len(others')
    BY <1>3, <2>2, <2>3
  <2>9. \A k \in DOMAIN others' \ DOMAIN others : k = n
    BY <2>3
  <2>10. ASSUME NEW k \in DOMAIN others' \ DOMAIN others
         PROVE  /\ k = Len(others) + 1 /\ Len(others') = k /\ Sock(k)' \in Backup
                /\ Accepts(Sock(k)') /\ Mail(Sock(k))' = {} /\ id'[Sock(k)'] = None
    BY <2>1, <2>2, <2>3, <2>4, <2>5, <2>7, <2>9
  <2>11. QED BY <1>2, <1>3, <2>3, <2>4, <2>8, <2>10
<1>5. CASE SamePlaces
  BY <1>2, <1>3, <1>5 DEF SamePlaces
<1>6. ASSUME NEW h \in Backup, Handler(h)
      PROVE  SamePlaces
  BY <1>6, HandlerKeeps
<1>7. UNCHANGED others => SamePlaces
  BY Typed DEF SamePlaces, Sock
<1>8. (\E b \in Backup : Accepts(b) \/ Handler(b)) \/ UNCHANGED others
  BY DEF Next, HandlerReadFails, Joins, BackupReads, ReadsJoinResp, ReadsYourId, ReadsOther,
         KeepaliveReads, Crashes, Broadcasts
<1>9. QED BY <1>4, <1>5, <1>6, <1>7, <1>8

\* Counted is kept: the size does not shrink, and the last place is at its end.
LEMMA CountedStep ==
    ASSUME TypeOK, Placed, Counted, Next
    PROVE  Counted'
<1>1. TypeOK'
  BY TypeStep
<1>2. ASSUME NEW h \in Backup, handler'[h].pc = "send"
      PROVE  handler'[h].new_id <= Len(others') - 1
  <2>1. handler'[h].new_id <= Len(others) - 1 /\ handler'[h].new_id \in Nat
    <3>1. handler'[h].new_id \in Nat
      BY <1>1 DEF TypeOK
    <3>2. Len(others) - 1 <= Len(others) - 1
      BY PlacesStay
    <3>3. QED BY <1>2, <3>1, <3>2, NewInThread DEF Counted
  <2>2. QED BY <2>1, PlacesStay
<1>3. ASSUME NEW k \in DOMAIN others', NEW p \in Mail(Sock(k))', p.type = "YOUR_ID_RESP"
      PROVE  p.id <= k - 1
  <2>1. CASE k \notin DOMAIN others
    BY <2>1, <1>3, PlacesStay
  <2>2. CASE k \in DOMAIN others
    <3>1. Sock(k) \in Backup /\ Sock(k)' = Sock(k)
      BY <2>2, PlacesStay
    <3>2. PICK b \in Backup : b = Sock(k)
      BY <3>1
    <3>3. p \in Mail(b)'
      BY <1>3, <3>1, <3>2 DEF Mail
    <3>4. CASE p \in Mail(b)
      BY <1>3, <2>2, <3>2, <3>4 DEF Counted
    <3>5. CASE p \notin Mail(b)
      <4>1. PICK h \in Backup : SendsId(h) /\ Len(others) \in DOMAIN others
                                /\ b = Sock(Len(others)) /\ p.id = handler[h].new_id
        BY <1>3, <3>3, <3>5, NewMail
      <4>2. k = Len(others)
        BY <2>2, <3>2, <4>1, Zenon DEF Placed
      <4>3. handler[h].new_id <= Len(others) - 1
        BY <4>1, SendsMoves, Zenon DEF Counted
      <4>4. QED BY <4>1, <4>2, <4>3
    <3>6. QED BY <3>4, <3>5
  <2>3. QED BY <2>1, <2>2
<1>4. ASSUME NEW k \in DOMAIN others', id'[Sock(k)'] # None
      PROVE  id'[Sock(k)'] <= k - 1
  <2>1. CASE k \notin DOMAIN others
    BY <2>1, <1>4, PlacesStay
  <2>2. CASE k \in DOMAIN others
    <3>1. Sock(k) \in Backup /\ Sock(k)' = Sock(k)
      BY <2>2, PlacesStay
    <3>2. CASE id'[Sock(k)] = id[Sock(k)]
      BY <1>4, <2>2, <3>1, <3>2 DEF Counted
    <3>3. CASE id'[Sock(k)] # id[Sock(k)]
      BY <2>2, <3>1, <3>3, NewAtBackup DEF Counted
    <3>4. QED BY <3>1, <3>2, <3>3
  <2>3. QED BY <2>1, <2>2
<1>5. QED BY <1>2, <1>3, <1>4 DEF Counted

-----------------------------------------------------------------------------
(* One join at a time.                                                     *)

\* No backup comes back, and what is orderly now was orderly before.
LEMMA OrderlyBefore ==
    ASSUME TypeOK, Next, Orderly'
    PROVE  Orderly /\ serial /\ \A b \in Backup : pc[b] # "dead" /\ pc'[b] # "dead"
<1>1. serial' = serial
  BY DEF Next, Accepts, Handler, HandlerStarts, HandlerReads, Alone, Reply1, Reply2, CountsId, SendsId,
         HandlerReadFails, Joins, BackupReads, ReadsJoinResp, ReadsYourId, ReadsOther, KeepaliveReads,
         Crashes, Broadcasts
<1>2. ASSUME NEW b \in Backup, pc[b] = "dead"
      PROVE  pc'[b] = "dead"
  <2>1. UNCHANGED pc \/ \E c \in Backup : Joins(c) \/ BackupReads(c) \/ Crashes(c)
    BY DEF Next, Accepts, Handler, HandlerStarts, HandlerReads, Alone, Reply1, Reply2, CountsId, SendsId,
           HandlerReadFails, Broadcasts, joinVars
  <2>2. ASSUME NEW c \in Backup, Joins(c) \/ Crashes(c)
        PROVE  pc'[b] = "dead"
    BY <1>2, <2>2 DEF Joins, Crashes, TypeOK
  <2>3. ASSUME NEW c \in Backup, BackupReads(c)
        PROVE  pc'[b] = "dead"
    <3>1. Reads(c)
      BY <2>3, BackupReadsMail
    <3>2. QED BY <1>2, <3>1 DEF Reads
  <2>4. QED BY <1>2, <2>1, <2>2, <2>3
<1>3. QED BY <1>1, <1>2 DEF Orderly

\* A backup whose join is not over has the last place, and no other is pending.
LEMMA LastIsBusy ==
    ASSUME TypeOK, Placed, OneByOne, Orderly, NEW h \in Backup, Accepted(h), ~Rested(h)
    PROVE  /\ Len(others) \in DOMAIN others /\ Sock(Len(others)) = h
           /\ \A b \in Backup : ~Pending(b)
           /\ \A k \in DOMAIN others : Sock(k) # h => k < Len(others) /\ Rested(Sock(k))
<1>1. PICK k \in DOMAIN others : Sock(k) = h
  BY DEF Placed
<1>2. DOMAIN others = 1 .. Len(others) /\ Len(others) \in Nat
  BY Typed
<1>3. k = Len(others)
  BY <1>1, <1>2 DEF OneByOne, Turns
<1>4. \A b \in Backup : ~Pending(b)
  <2>1. pc[h] # "off"
    BY DEF Placed
  <2>2. QED BY <2>1 DEF OneByOne, Turns, Pending
<1>5. ASSUME NEW l \in DOMAIN others, Sock(l) # h
      PROVE  l < Len(others) /\ Rested(Sock(l))
  BY <1>1, <1>2, <1>3, <1>5 DEF OneByOne, Turns
<1>6. QED BY <1>1, <1>3, <1>4, <1>5

\* Every thread that moves does so for the last place, its own.
LEMMA MoverIsLast ==
    ASSUME TypeOK, Placed, OneByOne, Orderly, NEW h \in Backup, Handler(h)
    PROVE  /\ Accepted(h) /\ Len(others) \in DOMAIN others /\ Sock(Len(others)) = h
           /\ \A b \in Backup : ~Pending(b)
           /\ \A k \in DOMAIN others : Sock(k) # h => k < Len(others) /\ Rested(Sock(k))
           /\ HandlerReads(h) => ReadsFrom(h) = h /\ h \in toMaster /\ ~handler[h].dangling
<1>1. Accepted(h)
  BY HandlerKeeps
<1>2. HandlerReads(h) => ReadsFrom(h) = h /\ h \in toMaster /\ ~handler[h].dangling
  <2>1. HAVE HandlerReads(h)
  <2>2. handler[h].in # 0 /\ ReadsFrom(h) \in toMaster
    <3>1. handler[h].in \in DOMAIN others /\ DOMAIN others = 1 .. Len(others)
      BY <2>1, ReadsMoves, Typed
    <3>2. QED BY <2>1, <3>1, Typed DEF HandlerReads
  <2>3. QED BY <2>2 DEF OneByOne, Turns
<1>3. ~Rested(h)
  BY <1>2, StartsMoves, AloneMoves, Reply1Moves, Reply2Moves, CountsMoves, SendsMoves DEF Handler, Rested
<1>4. QED BY <1>1, <1>2, <1>3, LastIsBusy

\* A backup is accepted, or started, when the join of every other one is over.
LEMMA OthersRest ==
    ASSUME TypeOK, Placed, OneByOne, Orderly, NEW b \in Backup, Accepts(b) \/ Joins(b)
    PROVE  /\ ~Accepted(b)
           /\ \A c \in Backup \ {b} : pc[c] = "off" \/ Rested(c)
           /\ Joins(b) => pc[b] = "off" /\ \A c \in Backup : inbox[c] = << >>
<1>1. CASE Accepts(b)
  <2>1. Pending(b) /\ ~Joins(b)
    BY <1>1 DEF Accepts, Joins, Pending, Accepted
  <2>2. QED BY <2>1 DEF OneByOne, Turns, Pending
<1>2. CASE Joins(b)
  <2>1. pc[b] = "off" /\ Settled(b)
    BY <1>2 DEF Joins, Orderly
  <2>2. ~Accepted(b) /\ inbox[b] = << >>
    BY <2>1 DEF Placed, Accepted
  <2>3. ASSUME NEW c \in Backup \ {b}
        PROVE  (pc[c] = "off" \/ Rested(c)) /\ inbox[c] = << >>
    BY <2>1 DEF Settled, Orderly, Rested, Placed
  <2>4. QED BY <2>1, <2>2, <2>3
<1>3. QED BY <1>1, <1>2

LEMMA AcceptsTurns ==
    ASSUME TypeOK, Placed, OneByOne, Orderly, Turns, NEW b \in Backup, Accepts(b)
    PROVE  Turns'
<1>1. PICK n \in Nat : n = Len(others) + 1
  BY Typed
<1>2. UNCHANGED <<pc, toMaster>>
  BY DEF Accepts, joinVars
<1>3. /\ Len(others') = n /\ DOMAIN others' = DOMAIN others \cup {n} /\ DOMAIN others = 1 .. Len(others)
      /\ \A k \in DOMAIN others : others'[k] = others[k] /\ Sock(k)' = Sock(k) /\ Sock(k) \in Backup
      /\ others'[n] = [sock |-> b, addr |-> None] /\ Sock(n)' = b
  <2>1. /\ Len(others') = n /\ DOMAIN others' = DOMAIN others \cup {n}
        /\ \A k \in DOMAIN others : others'[k] = others[k]
        /\ others'[n] = [sock |-> b, addr |-> None]
    BY <1>1, AcceptsAppends, Zenon
  <2>2. DOMAIN others = 1 .. Len(others) /\ \A k \in DOMAIN others : Sock(k) \in Backup
    BY Typed
  <2>3. QED BY <2>1, <2>2 DEF Sock
<1>4. ~Accepted(b) /\ pc[b] # "off" /\ \A c \in Backup \ {b} : pc[c] = "off" \/ Rested(c)
  BY OthersRest, AcceptsAppends, Zenon DEF Accepted
<1>5. /\ handler'[b].pc = "start" /\ handler'[b].in = 0 /\ ~handler'[b].dangling
      /\ \A h \in Backup \ {b} : /\ handler'[h].pc = handler[h].pc /\ handler'[h].in = handler[h].in
                                 /\ handler'[h].dangling => handler[h].dangling \/ handler[h].in # 0
  BY AcceptsAppends, Zenon
<1>6. \A c \in Backup \ {b} : Rested(c) => Rested(c)'
  BY <1>2, <1>5 DEF Rested
<1>7. \A x \in Backup : ~Pending(x)'
  BY <1>2, <1>4, <1>5 DEF Pending, Accepted, Rested
<1>8. ASSUME NEW k \in DOMAIN others', k < n
      PROVE  Rested(Sock(k))'
  <2>1. k \in DOMAIN others
    BY <1>3, <1>8
  <2>2. PICK c \in Backup : c = Sock(k) /\ Sock(k)' = c
    BY <2>1, <1>3
  <2>3. Accepted(c) /\ pc[c] # "off" /\ c # b
    BY <2>1, <2>2, <1>4 DEF Placed
  <2>4. Rested(c)'
    BY <2>3, <1>4, <1>6
  <2>5. QED BY <2>2, <2>4 DEF Rested
<1>9. b \in toMaster
  BY <1>4 DEF Turns, Accepted
<1>10. \A h \in toMaster : ~handler'[h].dangling
  <2>1. TAKE h \in toMaster
  <2>2. h \in Backup
    BY Typed
  <2>3. CASE h # b
    <3>1. pc[h] = "off"
      BY <2>2, <2>3, <1>4 DEF Rested
    <3>2. handler[h].in = 0 /\ ~handler[h].dangling
      BY <2>2, <3>1 DEF Placed, Accepted
    <3>3. QED BY <2>2, <2>3, <3>2, <1>5
  <2>4. QED BY <2>3, <1>5
<1>11. \A h \in Backup : handler'[h].in # 0 => ReadsFrom(h)' = h
  <2>1. TAKE h \in Backup
  <2>2. HAVE handler'[h].in # 0
  <2>3. handler'[h].in = handler[h].in /\ handler[h].in # 0 /\ ReadsFrom(h) = h
    BY <2>2, <1>5 DEF Turns
  <2>4. handler[h].in \in DOMAIN others
    BY <2>3 DEF Placed
  <2>5. QED BY <2>3, <2>4, <1>3 DEF ReadsFrom
<1>12. \A k \in DOMAIN others' : Sock(k)' \notin toMaster => others'[k].addr = Sock(k)'
  BY <1>3, <1>9 DEF Turns
<1>13. \A h \in Backup : pc[h] # "off" /\ handler'[h].pc \in {"none", "start"} => h \in toMaster
  BY <1>5, <1>9 DEF Turns
<1>14. \A h \in toMaster : handler'[h].pc \in {"none", "start", "read"}
  BY <1>5, Typed DEF Turns
<1>15. QED BY <1>2, <1>3, <1>7, <1>8, <1>10, <1>11, <1>12, <1>13, <1>14 DEF Turns

LEMMA HandlerTurns ==
    ASSUME TypeOK, Placed, OneByOne, Orderly, Turns, NEW h \in Backup, Handler(h)
    PROVE  Turns'
<1>1. /\ Accepted(h) /\ Len(others) \in DOMAIN others /\ Sock(Len(others)) = h
      /\ \A b \in Backup : ~Pending(b)
      /\ \A k \in DOMAIN others : Sock(k) # h => k < Len(others) /\ Rested(Sock(k))
      /\ HandlerReads(h) => ReadsFrom(h) = h /\ h \in toMaster /\ ~handler[h].dangling
  BY MoverIsLast
<1>2. /\ Moves(h) /\ SamePlaces /\ UNCHANGED <<serial, pc, id, adjacent, broadcasts>>
      /\ handler'[h].pc \notin {"none", "start"}
      /\ handler'[h].in \in DOMAIN others
      /\ handler[h].pc = "start" \/ handler'[h].in = handler[h].in
  BY HandlerKeeps
<1>3. toMaster' = IF HandlerReads(h) THEN toMaster \ {h} ELSE toMaster
  BY <1>1 DEF Handler, HandlerStarts, HandlerReads, Alone, Reply1, Reply2, CountsId, SendsId
<1>4. DOMAIN others = 1 .. Len(others) /\ Len(others) \in Nat
      /\ \A k \in DOMAIN others : Sock(k) \in Backup
  BY Typed
<1>5. \A b \in Backup : ~Pending(b)'
  BY <1>1, <1>2 DEF Pending, Accepted, Moves
<1>6. ASSUME NEW k \in DOMAIN others', k < Len(others')
      PROVE  Rested(Sock(k))'
  <2>1. k \in DOMAIN others /\ k # Len(others)
    BY <1>2, <1>4, <1>6 DEF SamePlaces
  <2>2. Sock(k) # h
    BY <1>1, <2>1 DEF Placed
  <2>3. PICK c \in Backup : c = Sock(k) /\ Sock(k)' = c
    BY <1>2, <1>4, <2>1 DEF SamePlaces
  <2>4. Rested(c) /\ c # h
    BY <1>1, <2>1, <2>2, <2>3
  <2>5. Rested(c)'
    BY <2>4, <1>2, <1>3 DEF Rested, Moves
  <2>6. QED BY <2>3, <2>5 DEF Rested
<1>7. \A b \in Backup : pc'[b] # "off" /\ handler'[b].pc \in {"none", "start"} => b \in toMaster'
  BY <1>2, <1>3 DEF Turns, Moves
<1>8. \A b \in toMaster' : handler'[b].pc \in {"none", "start", "read"}
  <2>1. \A b \in toMaster' : b \in toMaster /\ b \in Backup
    BY <1>3, Typed
  <2>2. h \in toMaster' => handler'[h].pc = "read"
    <3>1. HAVE h \in toMaster'
    <3>2. handler[h].pc \in {"none", "start", "read"} /\ ~HandlerReads(h)
      BY <3>1, <2>1, <1>3 DEF Turns
    <3>3. HandlerStarts(h)
      BY <3>2 DEF Handler, Alone, Reply1, Reply2, CountsId, SendsId
    <3>4. QED BY <3>3, StartsMoves
  <2>3. QED BY <2>1, <2>2, <1>2 DEF Turns, Moves
<1>9. \A b \in toMaster' : ~handler'[b].dangling
  BY <1>2, <1>3, Typed DEF Turns, Moves
<1>10. \A b \in Backup : handler'[b].in # 0 => ReadsFrom(b)' = b
  <2>1. TAKE b \in Backup
  <2>2. HAVE handler'[b].in # 0
  <2>3. CASE b = h /\ handler[h].pc = "start"
    <3>1. HandlerStarts(h)
      BY <2>3 DEF Handler, HandlerReads, Alone, Reply1, Reply2, CountsId, SendsId
    <3>2. handler'[h].in = Len(others)
      BY <3>1, StartsMoves
    <3>3. QED BY <2>3, <3>2, <1>1, <1>2 DEF ReadsFrom, Sock, SamePlaces
  <2>4. CASE ~(b = h /\ handler[h].pc = "start")
    <3>1. handler'[b].in = handler[b].in
      BY <2>4, <1>2 DEF Moves
    <3>2. ReadsFrom(b) = b /\ handler[b].in \in DOMAIN others
      BY <2>2, <3>1 DEF Turns, Placed
    <3>3. QED BY <3>1, <3>2, <1>2 DEF ReadsFrom, Sock, SamePlaces
  <2>5. QED BY <2>3, <2>4
<1>11. \A k \in DOMAIN others' : Sock(k)' \notin toMaster' => others'[k].addr = Sock(k)'
  <2>1. CASE HandlerReads(h)
    <3>1. handler[h].in \in DOMAIN others /\ Sock(handler[h].in) = h
          /\ \A k \in DOMAIN others : others'[k].addr = IF k = handler[h].in THEN h ELSE others[k].addr
      BY <2>1, <1>1, ReadsMoves
    <3>2. \A k \in DOMAIN others : Sock(k) = h => k = handler[h].in
      BY <3>1 DEF Placed
    <3>3. \A k \in DOMAIN others' : k \in DOMAIN others /\ Sock(k)' = Sock(k)
      BY <1>2 DEF SamePlaces
    <3>4. QED BY <3>1, <3>2, <3>3, <1>3 DEF Turns
  <2>2. CASE ~HandlerReads(h)
    <3>1. others' = others
      BY <2>2 DEF Handler, HandlerStarts, Alone, Reply1, Reply2, CountsId, SendsId
    <3>2. QED BY <2>2, <3>1, <1>3 DEF Turns, Sock
  <2>3. QED BY <2>1, <2>2
<1>12. QED BY <1>5, <1>6, <1>7, <1>8, <1>9, <1>10, <1>11 DEF Turns

\* Only pc and toMaster matter when the master does not move.
LEMMA JoinsTurns ==
    ASSUME TypeOK, Placed, OneByOne, Orderly, Turns, NEW b \in Backup, Joins(b)
    PROVE  Turns'
<1>1. ~Accepted(b) /\ pc[b] = "off" /\ \A c \in Backup \ {b} : pc[c] = "off" \/ Rested(c)
  BY OthersRest
<1>2. UNCHANGED <<others, handler>> /\ pc' = [pc EXCEPT ![b] = "join"] /\ toMaster' = toMaster \cup {b}
  BY DEF Joins
<1>3. \A c \in Backup \ {b} : pc'[c] = pc[c] /\ (Rested(c) => Rested(c)')
  BY <1>2 DEF Rested, TypeOK
<1>4. \A x, c \in Backup : Pending(x)' /\ c # x => pc'[c] = "off" \/ Rested(c)'
  BY <1>1, <1>2, <1>3 DEF Pending, Accepted, Rested
<1>5. \A k \in DOMAIN others : k < Len(others) => Rested(Sock(k))'
  <2>1. TAKE k \in DOMAIN others
  <2>2. HAVE k < Len(others)
  <2>3. PICK c \in Backup : c = Sock(k) /\ Sock(k)' = c
    BY <1>2, Typed DEF Sock
  <2>4. Rested(c) /\ c # b
    BY <1>1, <2>2, <2>3 DEF Turns, Rested
  <2>5. Rested(c)'
    BY <1>3, <2>4
  <2>6. QED BY <2>3, <2>5 DEF Rested
<1>6. handler[b].pc = "none" /\ ~handler[b].dangling
  BY <1>1 DEF Placed, Accepted
<1>7. \A x \in Backup : pc'[x] # "off" /\ handler'[x].pc \in {"none", "start"} => x \in toMaster'
  BY <1>2, <1>3 DEF Turns
<1>8. QED BY <1>2, <1>4, <1>5, <1>6, <1>7 DEF Turns, Sock, ReadsFrom

LEMMA ReadsTurns ==
    ASSUME TypeOK, Placed, OneByOne, Orderly', Turns, NEW b \in Backup, BackupReads(b)
    PROVE  Turns'
<1>1. Reads(b)
  BY BackupReadsMail
<1>2. /\ UNCHANGED <<others, handler, toMaster>> /\ \A c \in Backup \ {b} : pc'[c] = pc[c]
      /\ pc[b] # "off" /\ pc'[b] # "off" /\ (pc[b] = "joined" => pc'[b] = "joined")
  BY <1>1 DEF Reads, Orderly
<1>3. \A c \in Backup : Rested(c) => Rested(c)'
  BY <1>2 DEF Rested
<1>4. \A c \in Backup : pc'[c] = "off" <=> pc[c] = "off"
  BY <1>2
<1>5. \A c \in Backup : Pending(c)' <=> Pending(c)
  BY <1>2, <1>4 DEF Pending, Accepted
<1>6. \A x, c \in Backup : Pending(x)' /\ c # x => pc'[c] = "off" \/ Rested(c)'
  BY <1>3, <1>4, <1>5 DEF Turns
<1>7. \A k \in DOMAIN others : k < Len(others) => Rested(Sock(k))'
  <2>1. TAKE k \in DOMAIN others
  <2>2. HAVE k < Len(others)
  <2>3. PICK c \in Backup : c = Sock(k) /\ Sock(k)' = c
    BY <1>2, Typed DEF Sock
  <2>4. Rested(c)'
    BY <1>3, <2>2, <2>3 DEF Turns
  <2>5. QED BY <2>3, <2>4 DEF Rested
<1>8. QED BY <1>2, <1>4, <1>6, <1>7 DEF Turns, Sock, ReadsFrom

LEMMA OneByOneStep ==
    ASSUME TypeOK, Placed, OneByOne, Next
    PROVE  OneByOne'
<1>1. SUFFICES ASSUME Orderly' PROVE Turns'
  BY DEF OneByOne, Turns
<1>2. Orderly /\ \A b \in Backup : pc'[b] # "dead"
  BY <1>1, OrderlyBefore
<1>3. Turns
  BY <1>2 DEF OneByOne, Turns
<1>4. ASSUME UNCHANGED <<pc, handler, toMaster, others>>
      PROVE  Turns'
  BY <1>3, <1>4 DEF Turns, Rested, Pending, Accepted, Sock, ReadsFrom
<1>5. ASSUME NEW b \in Backup, HandlerReadFails(b)
      PROVE  Turns'
  BY <1>4, <1>5 DEF HandlerReadFails, joinVars
<1>6. ASSUME NEW b \in Backup, Crashes(b)
      PROVE  Turns'
  BY <1>2, <1>6 DEF Crashes, TypeOK
<1>7. ASSUME Broadcasts
      PROVE  Turns'
  BY <1>4, <1>7 DEF Broadcasts, joinVars
<1>8. QED BY <1>1, <1>2, <1>3, <1>5, <1>6, <1>7, AcceptsTurns, HandlerTurns, JoinsTurns, ReadsTurns DEF Next

\* Exact is kept: nothing is counted between a count and the answer.
LEMMA ExactStep ==
    ASSUME TypeOK, Placed, OneByOne, Exact, Next
    PROVE  Exact'
<1>1. SUFFICES ASSUME Orderly' PROVE Exact'
  BY DEF Exact
<1>2. Orderly
  BY <1>1, OrderlyBefore
<1>3. ASSUME NEW h \in Backup, handler'[h].pc = "send"
      PROVE  handler'[h].new_id = Len(others') - 1
  <2>1. CASE handler[h].pc = "send" /\ handler'[h].new_id = handler[h].new_id
    <3>1. handler[h].new_id = Len(others) - 1
      BY <1>2, <2>1 DEF Exact
    <3>2. Len(others') = Len(others)
      <4>1. SUFFICES ASSUME Len(others') # Len(others) PROVE FALSE
        OBVIOUS
      <4>2. PICK b \in Backup : Accepts(b)
        <5>1. Len(others') \in DOMAIN others' \ DOMAIN others
          <6>1. /\ Len(others) \in Nat /\ Len(others') \in Nat /\ Len(others) <= Len(others')
                /\ DOMAIN others = 1 .. Len(others) /\ DOMAIN others' = 1 .. Len(others')
            BY PlacesStay
          <6>2. Len(others) < Len(others') /\ 1 <= Len(others')
            <7>1. \A m, n \in Nat : m <= n /\ n # m => m < n /\ 1 <= n
              OBVIOUS
            <7>2. QED BY <4>1, <6>1, <7>1
          <6>3. QED BY <6>1, <6>2
        <5>2. QED BY <5>1, PlacesStay
      <4>3. h # b /\ pc[h] # "off"
        BY <2>1, <4>2 DEF Accepts, Placed, Accepted
      <4>4. Rested(h)
        BY <1>2, <4>2, <4>3, OthersRest
      <4>5. QED BY <2>1, <4>4 DEF Rested
    <3>3. QED BY <2>1, <3>1, <3>2
  <2>2. CASE CountsId(h) /\ handler'[h].new_id = Len(others) - 1
    BY <2>2, CountsMoves DEF SamePlaces
  <2>3. QED BY <1>3, <2>1, <2>2, NewInThread
<1>4. ASSUME NEW k \in DOMAIN others', NEW p \in Mail(Sock(k))', p.type = "YOUR_ID_RESP"
      PROVE  p.id = k - 1
  <2>1. CASE k \notin DOMAIN others
    BY <2>1, <1>4, PlacesStay
  <2>2. CASE k \in DOMAIN others
    <3>1. Sock(k) \in Backup /\ Sock(k)' = Sock(k)
      BY <2>2, PlacesStay
    <3>2. PICK b \in Backup : b = Sock(k)
      BY <3>1
    <3>3. p \in Mail(b)'
      BY <1>4, <3>1, <3>2 DEF Mail
    <3>4. CASE p \in Mail(b)
      BY <1>2, <1>4, <2>2, <3>2, <3>4 DEF Exact
    <3>5. CASE p \notin Mail(b)
      <4>1. PICK h \in Backup : SendsId(h) /\ Len(others) \in DOMAIN others
                                /\ b = Sock(Len(others)) /\ p.id = handler[h].new_id
        BY <1>4, <3>3, <3>5, NewMail
      <4>2. k = Len(others)
        BY <2>2, <3>2, <4>1, Zenon DEF Placed
      <4>3. handler[h].new_id = Len(others) - 1
        BY <1>2, <4>1, SendsMoves, Zenon DEF Exact
      <4>4. QED BY <4>1, <4>2, <4>3
    <3>6. QED BY <3>4, <3>5
  <2>3. QED BY <2>1, <2>2
<1>5. ASSUME NEW k \in DOMAIN others', id'[Sock(k)'] # None
      PROVE  id'[Sock(k)'] = k - 1
  <2>1. CASE k \notin DOMAIN others
    BY <2>1, <1>5, PlacesStay
  <2>2. CASE k \in DOMAIN others
    <3>1. Sock(k) \in Backup /\ Sock(k)' = Sock(k)
      BY <2>2, PlacesStay
    <3>2. CASE id'[Sock(k)] = id[Sock(k)]
      BY <1>2, <1>5, <2>2, <3>1, <3>2 DEF Exact
    <3>3. CASE id'[Sock(k)] # id[Sock(k)]
      BY <1>2, <2>2, <3>1, <3>3, NewAtBackup DEF Exact
    <3>4. QED BY <3>1, <3>2, <3>3
  <2>3. QED BY <2>1, <2>2
<1>6. QED BY <1>3, <1>4, <1>5 DEF Exact

-----------------------------------------------------------------------------
(* The ring.                                                               *)

\* Mail that tells b of no one changes nothing for it.
LEMMA OtherMail ==
    ASSUME NEW b \in Backup, NEW p, ~IsResp(p), Mail(b)' \in {Mail(b), Mail(b) \cup {p}},
           adjacent'[b] = adjacent[b]
    PROVE  NoResp(b)' = NoResp(b) /\ \A a : Linked(b, a)' = Linked(b, a)
<1>1. \A q : q \in Mail(b)' /\ IsResp(q) <=> q \in Mail(b) /\ IsResp(q)
  OBVIOUS
<1>2. NoResp(b)' = NoResp(b)
  BY <1>1 DEF NoResp
<1>3. ASSUME NEW a PROVE Linked(b, a)' = Linked(b, a)
  BY <1>1 DEF Linked
<1>4. QED BY <1>2, <1>3

\* What it takes for the links to stay, when the vector does.
LEMMA LinksStay ==
    ASSUME TypeOK, Placed, Links, SamePlaces,
           \A b \in Backup : /\ OneResp(b)' /\ (NoResp(b) => NoResp(b)')
                             /\ \A a : Linked(b, a) => Linked(b, a)',
           Len(others) > 1 => \A b \in Backup : Accepted(b) =>
              Before1(b)' = Before1(b) /\ Before2(b)' = Before2(b),
           \A b, c \in Backup : Pending(b)' => NoResp(c)',
           \A b \in Backup : pc'[b] = "id" => NoResp(b)' /\ ~Before2(b)'
    PROVE  Links'
<1>1. Len(others) \in Nat /\ DOMAIN others = 1 .. Len(others)
      /\ Len(others') = Len(others) /\ DOMAIN others' = DOMAIN others
  BY Typed DEF SamePlaces
<1>2. ASSUME NEW k \in DOMAIN others
      PROVE  \E b \in Backup : b = Sock(k) /\ Sock(k)' = b /\ Accepted(b)
  BY <1>2, Typed DEF Placed, SamePlaces
<1>3. ASSUME NEW k \in DOMAIN others', k < Len(others')
      PROVE  IF Before1(Sock(k + 1))' THEN NoResp(Sock(k))' ELSE Linked(Sock(k), Sock(k + 1))'
  <2>1. k \in DOMAIN others /\ k + 1 \in DOMAIN others /\ k < Len(others) /\ Len(others) > 1
    BY <1>1, <1>3
  <2>2. PICK b \in Backup : b = Sock(k) /\ Sock(k)' = b
    BY <1>2, <2>1
  <2>3. PICK c \in Backup : c = Sock(k + 1) /\ Sock(k + 1)' = c /\ Accepted(c)
    BY <1>2, <2>1
  <2>4. IF Before1(c) THEN NoResp(b) ELSE Linked(b, c)
    BY <2>1, <2>2, <2>3 DEF Links
  <2>5. IF Before1(c)' THEN NoResp(b)' ELSE Linked(b, c)'
    BY <2>1, <2>3, <2>4
  <2>6. QED BY <2>2, <2>3, <2>5 DEF Before1, NoResp, Linked, Mail
<1>4. ASSUME Len(others') > 1
      PROVE  IF Before2(Sock(Len(others)))' THEN NoResp(Sock(Len(others)))'
             ELSE Linked(Sock(Len(others)), Sock(1))'
  <2>1. Len(others) \in DOMAIN others /\ 1 \in DOMAIN others /\ Len(others) > 1
    BY <1>1, <1>4
  <2>2. PICK b \in Backup : b = Sock(Len(others)) /\ others'[Len(others)].sock = b /\ Accepted(b)
    BY <1>2, <2>1 DEF Sock
  <2>3. PICK c \in Backup : c = Sock(1) /\ Sock(1)' = c
    BY <1>2, <2>1
  <2>4. IF Before2(b) THEN NoResp(b) ELSE Linked(b, c)
    BY <2>1, <2>2, <2>3 DEF Links
  <2>5. IF Before2(b)' THEN NoResp(b)' ELSE Linked(b, c)'
    BY <2>1, <2>2, <2>4
  <2>6. b = Sock(Len(others))'
    BY <1>1, <2>2 DEF Sock
  <2>7. QED BY <2>3, <2>5, <2>6 DEF Before2, Before1, NoResp, Linked, Mail
<1>5. ASSUME Len(others') = 1
      PROVE  NoResp(Sock(1))'
  <2>1. 1 \in DOMAIN others
    BY <1>1, <1>5
  <2>2. PICK b \in Backup : b = Sock(1) /\ Sock(1)' = b
    BY <1>2, <2>1
  <2>3. NoResp(b)'
    BY <1>1, <1>5, <2>2 DEF Links
  <2>4. QED BY <2>2, <2>3 DEF NoResp, Mail
<1>6. QED BY <1>3, <1>4, <1>5 DEF Links

LEMMA AcceptsLinks ==
    ASSUME TypeOK, Placed, OneByOne, Orderly, Links, NEW b \in Backup, Accepts(b)
    PROVE  Links'
<1>1. PICK n \in Nat : n = Len(others) + 1
  BY Typed
<1>2. UNCHANGED <<pc, toMaster, inbox, adjacent>>
  BY DEF Accepts, joinVars
<1>3. /\ Len(others) \in Nat /\ Len(others') = n /\ DOMAIN others' = DOMAIN others \cup {n}
      /\ DOMAIN others = 1 .. Len(others)
      /\ \A k \in DOMAIN others : Sock(k)' = Sock(k) /\ Sock(k) \in Backup /\ Accepted(Sock(k))
      /\ Sock(n)' = b /\ ~Accepted(b)
  <2>1. /\ Len(others') = n /\ DOMAIN others' = DOMAIN others \cup {n}
        /\ \A k \in DOMAIN others : others'[k] = others[k]
        /\ others'[n] = [sock |-> b, addr |-> None] /\ handler[b].pc = "none"
    BY <1>1, AcceptsAppends, Zenon
  <2>2. DOMAIN others = 1 .. Len(others) /\ Len(others) \in Nat
        /\ \A k \in DOMAIN others : Sock(k) \in Backup /\ Accepted(Sock(k))
    BY Typed DEF Placed
  <2>3. QED BY <2>1, <2>2 DEF Sock, Accepted
<1>4. Pending(b) /\ b \in toMaster
  BY <1>3 DEF Accepts, Pending, OneByOne, Turns, Accepted
<1>5. \A c \in Backup : NoResp(c) /\ NoResp(c)' /\ OneResp(c)'
  BY <1>2, <1>4 DEF Links, NoResp, OneResp, Mail
<1>6. ASSUME NEW c \in Backup
      PROVE  /\ c # b => Before1(c)' = Before1(c) /\ Before2(c)' = Before2(c)
             /\ \A a : Linked(c, a)' = Linked(c, a)
  <2>1. c # b => handler'[c].pc = handler[c].pc
    BY AcceptsAppends, Zenon
  <2>2. c # b => Before1(c)' = Before1(c) /\ Before2(c)' = Before2(c)
    BY <1>2, <2>1 DEF Before1, Before2
  <2>3. \A a : Linked(c, a)' = Linked(c, a)
    BY <1>2 DEF Linked, Mail
  <2>4. QED BY <2>2, <2>3
<1>7. Before1(b)' /\ Before2(b)'
  BY <1>2, <1>4 DEF Before1, Before2
<1>8. ASSUME NEW k \in DOMAIN others', k < n
      PROVE  IF Before1(Sock(k + 1))' THEN NoResp(Sock(k))' ELSE Linked(Sock(k), Sock(k + 1))'
  <2>1. k \in DOMAIN others /\ (k = Len(others) \/ (k < Len(others) /\ k + 1 \in DOMAIN others))
    BY <1>1, <1>3, <1>8
  <2>2. PICK c \in Backup : c = Sock(k) /\ Sock(k)' = c
    BY <1>3, <2>1
  <2>3. CASE k = Len(others)
    <3>1. Sock(k + 1)' = b
      BY <1>1, <1>3, <2>3, Zenon
    <3>2. Before1(Sock(k + 1))' /\ NoResp(Sock(k))'
      BY <1>5, <1>7, <2>2, <3>1 DEF Before1, NoResp, Mail
    <3>3. QED BY <3>2
  <2>4. CASE k < Len(others) /\ k + 1 \in DOMAIN others
    <3>1. PICK d \in Backup : d = Sock(k + 1) /\ Sock(k + 1)' = d /\ d # b
      BY <1>3, <2>4
    <3>2. IF Before1(d) THEN NoResp(c) ELSE Linked(c, d)
      BY <2>1, <2>2, <2>4, <3>1 DEF Links
    <3>3. IF Before1(d)' THEN NoResp(c)' ELSE Linked(c, d)'
      BY <3>1, <3>2, <1>5, <1>6
    <3>4. QED BY <2>2, <3>1, <3>3 DEF Before1, NoResp, Linked, Mail
  <2>5. QED BY <2>1, <2>3, <2>4
<1>9. Before2(Sock(n))' /\ NoResp(Sock(n))'
  BY <1>3, <1>5, <1>7 DEF Before2, Before1, NoResp, Mail
<1>10. Before2(Sock(Len(others)))' /\ NoResp(Sock(Len(others)))'
  BY <1>3, <1>9 DEF Before2, Before1, NoResp, Mail, Sock
<1>11. Len(others') = 1 => NoResp(Sock(1))'
  BY <1>3, <1>9
<1>12. \A c \in Backup : pc'[c] = "id" => NoResp(c)' /\ ~Before2(c)'
  <2>1. pc[b] # "id"
    BY <1>3 DEF Placed
  <2>2. QED BY <2>1, <1>2, <1>5, <1>6 DEF Links
<1>13. QED BY <1>3, <1>5, <1>8, <1>10, <1>11, <1>12 DEF Links

\* What is common to the threads' steps: who is where, and the others rest.
LEMMA AnswersLinks ==
    ASSUME TypeOK, Placed, OneByOne, Orderly, Links, NEW h \in Backup, Reply1(h) \/ Reply2(h)
    PROVE  /\ Len(others) > 1 /\ Len(others) \in Nat /\ DOMAIN others = 1 .. Len(others)
           /\ UNCHANGED <<others, pc, adjacent, toMaster>>
           /\ Joiner.sock = h /\ Sock(Len(others)) = h /\ Joiner.addr = h
           /\ others[1].addr = Sock(1) /\ Before2(h) /\ NoResp(h)
           /\ \A k \in DOMAIN others : Sock(k) \in Backup
           /\ \A k \in DOMAIN others : Sock(k) # h => pc[Sock(k)] = "joined"
           /\ \A k, l \in DOMAIN others : Sock(k) = Sock(l) => k = l
           /\ \A b \in Backup : ~Pending(b)'
           /\ \A c \in Backup \ {h} : Before1(c)' = Before1(c) /\ Before2(c)' = Before2(c)
           /\ pc[h] # "id" /\ h \notin toMaster
<1>1. Handler(h) /\ Moves(h) /\ Len(others) > 1 /\ UNCHANGED <<others, pc, adjacent, toMaster>>
      /\ handler[h].pc \in {"reply1", "reply2"} /\ handler'[h].pc # "none"
  BY Reply1Moves, Reply2Moves DEF Handler, Reply1, Reply2, joinVars
<1>2. Len(others) \in Nat /\ DOMAIN others = 1 .. Len(others) /\ 1 \in DOMAIN others
      /\ Len(others) \in DOMAIN others /\ \A k \in DOMAIN others : Sock(k) \in Backup
  BY <1>1, Typed
<1>3. /\ Sock(Len(others)) = h /\ \A b \in Backup : ~Pending(b)
      /\ \A k \in DOMAIN others : Sock(k) # h => Rested(Sock(k))
  BY <1>1, MoverIsLast
<1>4. \A k, l \in DOMAIN others : Sock(k) = Sock(l) => k = l
  BY DEF Placed
<1>5. h \notin toMaster
  BY <1>1, <1>2 DEF OneByOne, Turns
<1>6. Joiner.sock = h /\ Joiner.addr = h
  BY <1>2, <1>3, <1>5 DEF Joiner, Sock, OneByOne, Turns
<1>7. others[1].addr = Sock(1)
  <2>1. Sock(1) # h
    BY <1>1, <1>2, <1>3, <1>4
  <2>2. Sock(1) \notin toMaster
    BY <1>2, <1>3, <2>1 DEF Rested
  <2>3. QED BY <1>2, <2>2 DEF OneByOne, Turns
<1>8. Before2(h) /\ NoResp(h)
  BY <1>1, <1>3 DEF Before2, Before1, Links
<1>9. pc[h] # "id"
  BY <1>8 DEF Links
<1>10. \A b \in Backup : ~Pending(b)'
  BY <1>1, <1>3 DEF Pending, Accepted, Moves
<1>11. \A c \in Backup \ {h} : Before1(c)' = Before1(c) /\ Before2(c)' = Before2(c)
  BY <1>1 DEF Before1, Before2, Moves
<1>12. \A k \in DOMAIN others : Sock(k) # h => pc[Sock(k)] = "joined"
  BY <1>3 DEF Rested
<1>13. QED BY <1>1, <1>2, <1>3, <1>4, <1>5, <1>6, <1>7, <1>8, <1>9, <1>10, <1>11, <1>12

\* The neighbour is told of the last place, once.
LEMMA Reply1Links ==
    ASSUME TypeOK, Placed, OneByOne, Orderly, Links, NEW h \in Backup, Reply1(h)
    PROVE  Links'
<1> DEFINE n == Len(others)
<1>1. /\ n > 1 /\ n \in Nat /\ DOMAIN others = 1 .. n
      /\ UNCHANGED <<others, pc, adjacent, toMaster>>
      /\ Sock(n) = h /\ Joiner.addr = h /\ NoResp(h)
      /\ \A k \in DOMAIN others : Sock(k) \in Backup
      /\ \A k \in DOMAIN others : Sock(k) # h => pc[Sock(k)] = "joined"
      /\ \A k, l \in DOMAIN others : Sock(k) = Sock(l) => k = l
      /\ \A b \in Backup : ~Pending(b)'
      /\ \A c \in Backup \ {h} : Before1(c)' = Before1(c) /\ Before2(c)' = Before2(c)
      /\ pc[h] # "id" /\ h \notin toMaster
  BY AnswersLinks
<1>2. handler[h].pc = "reply1" /\ handler'[h].pc = "reply2"
  BY Reply1Moves
<1>3. Before1(h) /\ ~Before1(h)' /\ Before2(h)'
  BY <1>1, <1>2 DEF Before1, Before2
<1>4. PICK c \in Backup : c = Sock(n - 1) /\ c = Predecessor.sock
  BY <1>1 DEF Predecessor, Sock
<1>5. PICK p \in Packet : Adds(c, p) /\ IsResp(p) /\ p.addr \in {h, Garbled}
  <2>1. PICK a \in {Joiner.addr, Garbled} \cap Address : Adds(c, JoinResp(a))
    BY <1>4, Reply1Moves
  <2>2. QED BY <1>1, <2>1, Packets DEF IsResp
<1>6. n - 1 \in DOMAIN others /\ n \in DOMAIN others /\ n - 1 < n /\ (n - 1) + 1 = n /\ n - 1 # n
  <2>1. ASSUME NEW i \in Nat, i > 1
        PROVE  i - 1 \in 1 .. i /\ i \in 1 .. i /\ i - 1 < i /\ (i - 1) + 1 = i /\ i - 1 # i
    BY <2>1
  <2>2. QED BY <1>1, <2>1, Zenon
<1>7. c # h /\ pc[c] = "joined"
  BY <1>1, <1>4, <1>6, Zenon
<1>8. NoResp(c)
  <2>1. PICK m \in DOMAIN others : m = n - 1 /\ m < n /\ m + 1 = n
    BY <1>6, Zenon
  <2>2. Before1(Sock(m + 1)) /\ c = Sock(m)
    BY <1>1, <1>3, <1>4, <2>1
  <2>3. QED BY <2>1, <2>2 DEF Links
<1>9. /\ \A b \in Backup \ {c} : Mail(b)' = Mail(b) /\ OneResp(b)' = OneResp(b)
      /\ Mail(c)' = Mail(c) \cup {p} /\ OneResp(c)'
  BY <1>5, <1>7, <1>8, AddsMail DEF Links
<1>10. \A b \in Backup \ {c} : NoResp(b)' = NoResp(b) /\ \A a : Linked(b, a)' = Linked(b, a)
  BY <1>1, <1>9 DEF NoResp, Linked
<1>11. Linked(c, h)'
  BY <1>5, <1>8, <1>9 DEF Linked, NoResp
<1>12. ASSUME NEW k \in DOMAIN others, k < n
       PROVE  IF Before1(Sock(k + 1))' THEN NoResp(Sock(k))' ELSE Linked(Sock(k), Sock(k + 1))'
  <2>1. k + 1 \in DOMAIN others /\ k \in Nat
    BY <1>1, <1>12
  <2>2. PICK b \in Backup : b = Sock(k) /\ Sock(k)' = b
    BY <1>1 DEF Sock
  <2>3. PICK d \in Backup : d = Sock(k + 1) /\ Sock(k + 1)' = d
    BY <1>1, <2>1 DEF Sock
  <2>4. IF Before1(d)' THEN NoResp(b)' ELSE Linked(b, d)'
    <3>1. CASE k + 1 = n
      <4>1. k = n - 1
        BY <1>1, <2>1, <3>1
      <4>2. d = h /\ b = c
        BY <1>1, <1>4, <2>2, <2>3, <3>1, <4>1
      <4>3. QED BY <4>2, <1>3, <1>11
    <3>2. CASE k + 1 # n
      <4>1. k # n - 1
        BY <1>1, <2>1, <3>2
      <4>2. b # c /\ d # h
        BY <1>1, <1>4, <1>6, <2>1, <2>2, <2>3, <3>2, <4>1, Zenon
      <4>3. IF Before1(d) THEN NoResp(b) ELSE Linked(b, d)
        BY <1>12, <2>2, <2>3 DEF Links
      <4>4. QED BY <4>2, <4>3, <1>1, <1>10
    <3>3. QED BY <3>1, <3>2
  <2>5. QED BY <2>2, <2>3, <2>4 DEF Before1, NoResp, Linked, Mail
<1>13. NoResp(h)'
  BY <1>1, <1>7, <1>10
<1>14. Before2(Sock(n))' /\ NoResp(Sock(n))'
  <2>1. Sock(n)' = h
    BY <1>1 DEF Sock
  <2>2. QED BY <2>1, <1>3, <1>13 DEF Before2, Before1, NoResp, Mail
<1>15. \A b \in Backup : pc'[b] = "id" => NoResp(b)' /\ ~Before2(b)'
  BY <1>1, <1>7, <1>10 DEF Links
<1>16. \A b \in Backup : OneResp(b)'
  BY <1>9 DEF Links
<1>17. Len(others') = n /\ DOMAIN others' = DOMAIN others /\ n # 1
  BY <1>1
<1>18. QED BY <1>1, <1>12, <1>14, <1>15, <1>16, <1>17 DEF Links

\* The last place is told of the first, once.
LEMMA Reply2Links ==
    ASSUME TypeOK, Placed, OneByOne, Orderly, Links, NEW h \in Backup, Reply2(h)
    PROVE  Links'
<1> DEFINE n == Len(others)
<1>1. /\ n > 1 /\ n \in Nat /\ DOMAIN others = 1 .. n
      /\ UNCHANGED <<others, pc, adjacent, toMaster>>
      /\ Joiner.sock = h /\ Sock(n) = h /\ others[1].addr = Sock(1) /\ NoResp(h)
      /\ \A k \in DOMAIN others : Sock(k) \in Backup
      /\ \A k, l \in DOMAIN others : Sock(k) = Sock(l) => k = l
      /\ \A b \in Backup : ~Pending(b)'
      /\ \A c \in Backup \ {h} : Before1(c)' = Before1(c) /\ Before2(c)' = Before2(c)
      /\ pc[h] # "id" /\ h \notin toMaster
  BY AnswersLinks
<1>2. handler[h].pc = "reply2" /\ handler'[h].pc = "count"
  BY Reply2Moves
<1>3. ~Before1(h) /\ ~Before1(h)' /\ ~Before2(h)'
  BY <1>1, <1>2 DEF Before1, Before2
<1>4. PICK c \in Backup : c = Sock(1)
  BY <1>1
<1>5. PICK p \in Packet : Adds(h, p) /\ IsResp(p) /\ p.addr \in {c, Garbled}
  <2>1. PICK a \in {others[1].addr, Garbled} \cap Address : Adds(h, JoinResp(a))
    BY <1>1, Reply2Moves
  <2>2. QED BY <1>1, <1>4, <2>1, Packets DEF IsResp
<1>6. pc[h] # "dead"
  BY DEF Orderly
<1>7. /\ \A b \in Backup \ {h} : Mail(b)' = Mail(b) /\ OneResp(b)' = OneResp(b)
      /\ Mail(h)' = Mail(h) \cup {p} /\ OneResp(h)'
  BY <1>1, <1>5, <1>6, AddsMail DEF Links
<1>8. \A b \in Backup \ {h} : NoResp(b)' = NoResp(b) /\ \A a : Linked(b, a)' = Linked(b, a)
  BY <1>1, <1>7 DEF NoResp, Linked
<1>9. Linked(h, c)'
  BY <1>1, <1>5, <1>7 DEF Linked, NoResp
<1>10. ASSUME NEW k \in DOMAIN others, k < n
       PROVE  IF Before1(Sock(k + 1))' THEN NoResp(Sock(k))' ELSE Linked(Sock(k), Sock(k + 1))'
  <2>1. k + 1 \in DOMAIN others /\ k \in Nat /\ n \in DOMAIN others /\ k # n
    BY <1>1, <1>10
  <2>2. PICK b \in Backup : b = Sock(k) /\ Sock(k)' = b
    BY <1>1 DEF Sock
  <2>3. PICK d \in Backup : d = Sock(k + 1) /\ Sock(k + 1)' = d
    BY <1>1, <2>1 DEF Sock
  <2>4. b # h
    BY <1>1, <2>1, <2>2
  <2>5. IF Before1(d) THEN NoResp(b) ELSE Linked(b, d)
    BY <1>10, <2>2, <2>3 DEF Links
  <2>6. IF Before1(d)' THEN NoResp(b)' ELSE Linked(b, d)'
    BY <1>1, <1>3, <1>8, <2>4, <2>5
  <2>7. QED BY <2>2, <2>3, <2>6 DEF Before1, NoResp, Linked, Mail
<1>11. ~Before2(Sock(n))' /\ Linked(Sock(n), Sock(1))'
  <2>1. Sock(n)' = h /\ Sock(1)' = c
    BY <1>1, <1>4 DEF Sock
  <2>2. QED BY <2>1, <1>3, <1>9 DEF Before2, Before1, Linked, Mail
<1>12. \A b \in Backup : pc'[b] = "id" => NoResp(b)' /\ ~Before2(b)'
  BY <1>1, <1>8 DEF Links
<1>13. \A b \in Backup : OneResp(b)'
  BY <1>7 DEF Links
<1>14. Len(others') = n /\ DOMAIN others' = DOMAIN others /\ n # 1
  BY <1>1
<1>15. QED BY <1>1, <1>10, <1>11, <1>12, <1>13, <1>14 DEF Links

LEMMA HandlerLinks ==
    ASSUME TypeOK, Placed, OneByOne, Orderly, Links, NEW h \in Backup, Handler(h)
    PROVE  Links'
<1>1. /\ Moves(h) /\ SamePlaces /\ UNCHANGED <<pc, adjacent>> /\ handler'[h].pc # "none"
      /\ Accepted(h) /\ Len(others) \in DOMAIN others /\ Sock(Len(others)) = h
      /\ \A b \in Backup : ~Pending(b)
      /\ HandlerReads(h) => ReadsFrom(h) = h /\ h \in toMaster
  BY HandlerKeeps, MoverIsLast
<1>2. \A b \in Backup : ~Pending(b)'
  BY <1>1 DEF Pending, Accepted, Moves
<1>3. CASE HandlerStarts(h) \/ CountsId(h)
  <2>1. UNCHANGED <<inbox, toMaster>>
    BY <1>3 DEF HandlerStarts, CountsId, joinVars
  <2>2. handler[h].pc \notin {"reply1", "reply2"} /\ handler'[h].pc \notin {"reply1", "reply2"}
    BY <1>3, StartsMoves, CountsMoves
  <2>3. \A b \in Backup : Before1(b)' = Before1(b) /\ Before2(b)' = Before2(b)
    BY <1>1, <2>1, <2>2 DEF Before1, Before2, Moves
  <2>4. \A b \in Backup : /\ OneResp(b)' = OneResp(b) /\ NoResp(b)' = NoResp(b)
                          /\ \A a : Linked(b, a)' = Linked(b, a)
    BY <1>1, <2>1 DEF OneResp, NoResp, Linked, Mail
  <2>5. \A b \in Backup : pc'[b] = "id" => NoResp(b)' /\ ~Before2(b)'
    BY <1>1, <2>3, <2>4 DEF Links
  <2>6. \A b \in Backup : OneResp(b)'
    BY <2>4 DEF Links
  <2>7. QED BY <1>1, <1>2, <2>3, <2>4, <2>5, <2>6, LinksStay
<1>4. CASE HandlerReads(h)
  <2>1. inbox' = inbox /\ toMaster' = toMaster \ {h} /\ h \in toMaster
    BY <1>1, <1>4 DEF HandlerReads
  <2>2. handler'[h].pc = "reply1"
    BY <1>4, ReadsMoves
  <2>3. \A b \in Backup \ {h} : Before1(b)' = Before1(b) /\ Before2(b)' = Before2(b)
    BY <1>1, <2>1 DEF Before1, Before2, Moves
  <2>4. Before1(h) /\ Before2(h)
    BY <2>1 DEF Before1, Before2
  <2>5. Len(others) > 1 => Before1(h)' /\ Before2(h)'
    BY <2>2 DEF Before1, Before2
  <2>6. Len(others) > 1 => \A b \in Backup : Before1(b)' = Before1(b) /\ Before2(b)' = Before2(b)
    BY <2>3, <2>4, <2>5 DEF Before1, Before2
  <2>7. \A b \in Backup : /\ OneResp(b)' = OneResp(b) /\ NoResp(b)' = NoResp(b)
                          /\ \A a : Linked(b, a)' = Linked(b, a)
    BY <1>1, <2>1 DEF OneResp, NoResp, Linked, Mail
  <2>8. \A b \in Backup : pc'[b] = "id" => NoResp(b)' /\ ~Before2(b)'
    BY <1>1, <2>3, <2>4, <2>7 DEF Links
  <2>9. \A b \in Backup : OneResp(b)'
    BY <2>7 DEF Links
  <2>10. QED BY <1>1, <1>2, <2>6, <2>7, <2>8, <2>9, LinksStay
<1>5. CASE SendsId(h)
  <2>1. PICK p \in Packet : Adds(h, p) /\ ~IsResp(p)
    <3>1. Joiner.sock = h
      BY <1>1 DEF Joiner, Sock
    <3>2. QED BY <1>5, <3>1, SendsMoves, Packets DEF IsResp
  <2>2. toMaster' = toMaster /\ handler[h].pc = "send" /\ handler'[h].pc = "read"
    BY <1>5, SendsMoves DEF SendsId
  <2>3. \A b \in Backup : Before1(b)' = Before1(b) /\ Before2(b)' = Before2(b)
    BY <1>1, <2>2 DEF Before1, Before2, Moves
  <2>4. \A b \in Backup : OneResp(b)' /\ Mail(b)' \in {Mail(b), Mail(b) \cup {p}}
    BY <2>1, AddsMail DEF Links
  <2>5. \A b \in Backup : NoResp(b)' = NoResp(b) /\ \A a : Linked(b, a)' = Linked(b, a)
    BY <1>1, <2>1, <2>4, OtherMail
  <2>6. \A b \in Backup : pc'[b] = "id" => NoResp(b)' /\ ~Before2(b)'
    BY <1>1, <2>3, <2>5 DEF Links
  <2>7. QED BY <1>1, <1>2, <2>3, <2>4, <2>5, <2>6, LinksStay
<1>6. CASE Alone(h)
  <2>1. UNCHANGED <<others, inbox, toMaster>> /\ Len(others) = 1 /\ handler'[h].pc = "count"
        /\ handler[h].pc = "reply1"
    BY <1>6, AloneMoves
  <2>2. ~(Len(others) > 1)
    BY <2>1
  <2>3. \A b \in Backup : ~Before2(b) => ~Before2(b)'
    BY <1>1, <2>1 DEF Before1, Before2, Moves
  <2>4. \A b \in Backup : /\ OneResp(b)' = OneResp(b) /\ NoResp(b)' = NoResp(b)
                          /\ \A a : Linked(b, a)' = Linked(b, a)
    BY <1>1, <2>1 DEF OneResp, NoResp, Linked, Mail
  <2>5. \A b \in Backup : pc'[b] = "id" => NoResp(b)' /\ ~Before2(b)'
    BY <1>1, <2>3, <2>4 DEF Links
  <2>6. \A b \in Backup : OneResp(b)'
    BY <2>4 DEF Links
  <2>7. QED BY <1>1, <1>2, <2>2, <2>4, <2>5, <2>6, LinksStay
<1>7. QED BY <1>3, <1>4, <1>5, <1>6, Reply1Links, Reply2Links DEF Handler

LEMMA JoinsLinks ==
    ASSUME TypeOK, Placed, OneByOne, Orderly, Links, NEW b \in Backup, Joins(b)
    PROVE  Links'
<1>1. UNCHANGED <<others, handler, adjacent, inbox>> /\ pc' = [pc EXCEPT ![b] = "join"]
      /\ toMaster' = toMaster \cup {b}
  BY DEF Joins
<1>2. SamePlaces /\ ~Accepted(b) /\ \A c \in Backup : inbox[c] = << >>
  BY <1>1, OthersRest, Typed DEF SamePlaces, Sock
<1>3. \A c \in Backup : NoResp(c)' /\ OneResp(c)' /\ \A a : Linked(c, a) => Linked(c, a)'
  <2>1. TAKE c \in Backup
  <2>2. DOMAIN inbox[c] = {}
    BY <1>2
  <2>3. Mail(c) = {} /\ Mail(c)' = {} /\ DOMAIN inbox'[c] = {}
    BY <1>1, <2>2 DEF Mail
  <2>4. QED BY <1>1, <2>3 DEF NoResp, OneResp, Linked
<1>4. \A c \in Backup \ {b} : Before1(c)' = Before1(c) /\ Before2(c)' = Before2(c) /\ pc'[c] = pc[c]
  BY <1>1 DEF Before1, Before2, TypeOK
<1>5. \A c \in Backup : pc'[c] = "id" => NoResp(c)' /\ ~Before2(c)'
  <2>1. pc'[b] # "id"
    BY <1>1 DEF TypeOK
  <2>2. QED BY <2>1, <1>3, <1>4 DEF Links
<1>6. \A c \in Backup : Accepted(c) => Before1(c)' = Before1(c) /\ Before2(c)' = Before2(c)
  BY <1>2, <1>4
<1>7. QED BY <1>2, <1>3, <1>5, <1>6, LinksStay

\* A backup takes over what it is told; it is not told while it waits for its id.
LEMMA ReadsLinks ==
    ASSUME TypeOK, Placed, OneByOne, Orderly, Orderly', Links, NEW b \in Backup, BackupReads(b)
    PROVE  Links'
<1>1. PICK p \in Packet : p = Head(inbox[b])
  BY BackupReadsMail, TakesMail DEF Reads
<1>2. Reads(b)
  BY BackupReadsMail
<1>3. /\ UNCHANGED <<others, handler, toMaster>>
      /\ \A c \in Backup \ {b} : pc'[c] = pc[c] /\ adjacent'[c] = adjacent[c]
      /\ pc[b] # "off" /\ pc'[b] # "dead"
      /\ adjacent'[b] = adjacent[b] \/ (IsResp(p) /\ adjacent'[b] = p.addr)
      /\ IsResp(p) => pc[b] = "id" \/ adjacent'[b] = p.addr
      /\ pc'[b] = "id" => pc[b] = "join" /\ IsResp(p)
  BY <1>1, <1>2 DEF Reads, Orderly
<1>4. /\ \A c \in Backup \ {b} : Mail(c)' = Mail(c) /\ OneResp(c)' = OneResp(c)
      /\ Mail(b) = Mail(b)' \cup {p}
      /\ OneResp(b)' /\ (IsResp(p) => NoResp(b)')
  <2>1. PICK type : Takes(b, type)
    BY <1>2 DEF Reads
  <2>2. OneResp(b)
    BY DEF Links
  <2>3. QED BY <1>1, <2>1, <2>2, TakesMail
<1>5. IsResp(p) => ~NoResp(b) /\ pc[b] # "id" /\ adjacent'[b] = p.addr
  <2>1. IsResp(p) => ~NoResp(b)
    BY <1>4 DEF NoResp
  <2>2. QED BY <1>3, <2>1 DEF Links
<1>6. ASSUME NEW c \in Backup
      PROVE  /\ OneResp(c)' /\ (NoResp(c) => NoResp(c)')
             /\ \A a : Linked(c, a) => Linked(c, a)'
  <2>1. CASE c # b
    BY <1>3, <1>4, <2>1 DEF NoResp, Linked, Links
  <2>2. CASE c = b
    <3>1. OneResp(b)' /\ (NoResp(b) => NoResp(b)')
      BY <1>4 DEF NoResp
    <3>2. ASSUME NEW a, Linked(b, a)
          PROVE  Linked(b, a)'
      <4>1. \A q \in Mail(b)' : IsResp(q) => q.addr \in {a, Garbled}
        BY <1>4, <3>2 DEF Linked
      <4>2. CASE IsResp(p)
        <5>1. adjacent'[b] \in {a, Garbled}
          BY <1>4, <1>5, <3>2, <4>2 DEF Linked
        <5>2. QED BY <4>1, <5>1 DEF Linked
      <4>3. CASE ~IsResp(p)
        BY <1>3, <1>4, <3>2, <4>1, <4>3 DEF Linked
      <4>4. QED BY <4>2, <4>3
    <3>3. QED BY <2>2, <3>1, <3>2
  <2>3. QED BY <2>1, <2>2
<1>7. \A c \in Backup : Before1(c)' = Before1(c) /\ Before2(c)' = Before2(c)
  BY <1>3 DEF Before1, Before2
<1>8. SamePlaces
  BY <1>3, Typed DEF SamePlaces, Sock
<1>9. \A x, c \in Backup : Pending(x)' => NoResp(c)'
  <2>1. ASSUME NEW x \in Backup, Pending(x)'
        PROVE  Pending(x)
    BY <1>3, <2>1 DEF Pending, Accepted
  <2>2. QED BY <1>6, <2>1 DEF Links
<1>10. \A c \in Backup : pc'[c] = "id" => NoResp(c)' /\ ~Before2(c)'
  <2>1. CASE pc'[b] # "id"
    BY <2>1, <1>3, <1>6, <1>7 DEF Links
  <2>2. CASE pc'[b] = "id"
    <3>1. pc[b] = "join" /\ IsResp(p) /\ NoResp(b)' /\ ~NoResp(b)
      BY <1>3, <1>4, <1>5, <2>2
    <3>2. Accepted(b)
      BY <1>3, <3>1 DEF Links, Pending
    <3>3. Sock(Len(others)) = b /\ Len(others) \in 1 .. Len(others) /\ Len(others) \in Nat
      BY <3>1, <3>2, LastIsBusy, Typed DEF Rested
    <3>4. Len(others) > 1
      <4>1. Len(others) # 1
        BY <3>1, <3>3 DEF Links
      <4>2. \A n \in Nat : n \in 1 .. n /\ n # 1 => n > 1
        OBVIOUS
      <4>3. QED BY <3>3, <4>1, <4>2
    <3>5. ~Before2(b)
      BY <3>1, <3>3, <3>4 DEF Links
    <3>6. \A c \in Backup \ {b} : pc'[c] = "id" => NoResp(c)' /\ ~Before2(c)'
      BY <1>3, <1>6, <1>7 DEF Links
    <3>7. QED BY <3>1, <3>5, <3>6, <1>7
  <2>3. QED BY <2>1, <2>2
<1>11. QED BY <1>6, <1>7, <1>8, <1>9, <1>10, LinksStay

LEMMA BroadcastsLinks ==
    ASSUME TypeOK, Placed, Links, Broadcasts
    PROVE  Links'
<1> DEFINE p == [type |-> "SIGNED_PACKET"]
<1>1. UNCHANGED <<others, handler, pc, adjacent, toMaster>>
  BY DEF Broadcasts, joinVars
<1>2. \A b \in Backup : Mail(b)' \in {Mail(b), Mail(b) \cup {p}} /\ OneResp(b)'
  BY BroadcastsMail DEF Links
<1>3. ~IsResp(p)
  BY DEF IsResp
<1>4. \A b \in Backup : NoResp(b)' = NoResp(b) /\ \A a : Linked(b, a)' = Linked(b, a)
  BY <1>1, <1>2, <1>3, OtherMail
<1>5. \A b \in Backup : Before1(b)' = Before1(b) /\ Before2(b)' = Before2(b) /\ Pending(b)' = Pending(b)
  BY <1>1 DEF Before1, Before2, Pending, Accepted
<1>6. SamePlaces
  BY <1>1, Typed DEF SamePlaces, Sock
<1>7. \A b \in Backup : pc'[b] = "id" => NoResp(b)' /\ ~Before2(b)'
  BY <1>1, <1>4, <1>5 DEF Links
<1>8. \A x, c \in Backup : Pending(x)' => NoResp(c)'
  BY <1>4, <1>5 DEF Links
<1>9. QED BY <1>2, <1>4, <1>5, <1>6, <1>7, <1>8, LinksStay

LEMMA RingStep ==
    ASSUME TypeOK, Placed, OneByOne, Ring, Next
    PROVE  Ring'
<1>1. SUFFICES ASSUME Orderly' PROVE Links'
  BY DEF Ring
<1>2. Orderly /\ \A b \in Backup : pc'[b] # "dead"
  BY <1>1, OrderlyBefore
<1>3. Links
  BY <1>2 DEF Ring
<1>4. ASSUME NEW b \in Backup, HandlerReadFails(b)
      PROVE  Links'
  <2>1. UNCHANGED <<others, handler, pc, adjacent, toMaster, inbox>>
    BY <1>4 DEF HandlerReadFails, joinVars
  <2>2. QED BY <1>3, <2>1 DEF Links, Pending, Accepted, Sock, Before1, Before2, OneResp, NoResp, Linked, Mail
<1>5. ASSUME NEW b \in Backup, Crashes(b)
      PROVE  Links'
  BY <1>2, <1>5 DEF Crashes, TypeOK
<1>6. QED BY <1>1, <1>2, <1>3, <1>4, <1>5, AcceptsLinks, HandlerLinks, JoinsLinks, ReadsLinks,
             BroadcastsLinks DEF Next

-----------------------------------------------------------------------------
(* Lost ids.                                                               *)

LEMMA BroadcastsGrow ==
    ASSUME TypeOK, Next, broadcasts' = 0
    PROVE  broadcasts = 0
<1>1. broadcasts \in Nat
  BY Constants DEF TypeOK
<1>2. broadcasts' = broadcasts \/ broadcasts' = broadcasts + 1
  BY DEF Next, Accepts, Handler, HandlerStarts, HandlerReads, Alone, Reply1, Reply2, CountsId, SendsId,
         HandlerReadFails, Joins, BackupReads, ReadsJoinResp, ReadsYourId, ReadsOther, KeepaliveReads,
         Crashes, Broadcasts
<1>3. QED BY <1>1, <1>2

LEMMA SignedStep ==
    ASSUME TypeOK, Placed, Signed, Next
    PROVE  Signed'
<1>1. SUFFICES ASSUME broadcasts' = 0, NEW b \in Backup, NEW p \in Mail(b)', p.type = "SIGNED_PACKET"
               PROVE  FALSE
  BY DEF Signed
<1>2. p \notin Mail(b)
  BY <1>1, BroadcastsGrow DEF Signed
<1>3. QED BY <1>1, <1>2, NewMail

LEMMA HiddenStep ==
    ASSUME TypeOK, Ring, Signed, OnlyBroadcastsHideIds, Next
    PROVE  OnlyBroadcastsHideIds'
<1>1. SUFFICES ASSUME Orderly', broadcasts' = 0, NEW b \in Backup, pc'[b] = "joined", id'[b] = None
               PROVE  FALSE
  BY DEF OnlyBroadcastsHideIds
<1>2. Orderly /\ broadcasts = 0
  BY <1>1, OrderlyBefore, BroadcastsGrow
<1>3. id[b] = None
  <2>1. SUFFICES ASSUME id'[b] # id[b] PROVE FALSE
    BY <1>1
  <2>2. PICK p \in Mail(b) : p.type = "YOUR_ID_RESP" /\ id'[b] = p.id
    BY <2>1, NewAtBackup
  <2>3. p \in Packet
    BY <2>2, Typed, ElementOfSeq, LenProperties DEF Mail
  <2>4. QED BY <1>1, <2>2, <2>3, Packets, Constants
<1>4. pc[b] # "joined"
  BY <1>2, <1>3 DEF OnlyBroadcastsHideIds
<1>5. Reads(b)
  <2>1. PICK c \in Backup : Joins(c) \/ Crashes(c) \/ BackupReads(c)
    BY <1>1, <1>4 DEF Next, Accepts, Handler, HandlerStarts, HandlerReads, Alone, Reply1, Reply2, CountsId,
                      SendsId, HandlerReadFails, Broadcasts, joinVars
  <2>2. ~Joins(c) /\ ~Crashes(c)
    BY <1>1, <1>4 DEF Joins, Crashes, TypeOK
  <2>3. Reads(c)
    BY <2>1, <2>2, BackupReadsMail
  <2>4. c = b
    BY <1>1, <1>4, <2>3 DEF Reads
  <2>5. QED BY <2>3, <2>4
<1>6. PICK p \in Mail(b) : p = Head(inbox[b]) /\ p \in Packet
  <2>1. PICK type : Takes(b, type)
    BY <1>5 DEF Reads
  <2>2. QED BY <2>1, TakesMail
<1>7. CASE p.type = "YOUR_ID_RESP" /\ id'[b] = p.id
  BY <1>1, <1>6, <1>7, Packets, Constants
<1>8. CASE p.type = "SIGNED_PACKET"
  BY <1>2, <1>6, <1>8 DEF Signed
<1>9. CASE pc[b] = "id" /\ IsResp(p)
  BY <1>2, <1>6, <1>9 DEF Ring, Links, NoResp
<1>10. QED BY <1>1, <1>4, <1>5, <1>6, <1>7, <1>8, <1>9 DEF Reads

-----------------------------------------------------------------------------
(* The theorems.                                                           *)

LEMMA InitOK == Init => IInv
<1>1. SUFFICES ASSUME Init PROVE IInv
  OBVIOUS
<1>2. /\ others = << >> /\ up = TRUE /\ serial \in BOOLEAN /\ toMaster = {} /\ broadcasts = 0
      /\ \A b \in Backup : inbox[b] = << >> /\ pc[b] = "off" /\ id[b] = None
  BY <1>1 DEF Init
<1>3. Len(others) = 0 /\ DOMAIN others = {} /\ \A b \in Backup : DOMAIN inbox[b] = {} /\ Mail(b) = {}
  <2>1. Len(<< >>) = 0 /\ DOMAIN << >> = {}
    OBVIOUS
  <2>2. QED BY <1>2, <2>1 DEF Mail
<1> DEFINE idle == [pc |-> "none", in |-> 0, dangling |-> FALSE, new_id |-> 0]
<1>4. handler = [b \in Backup |-> idle]
  BY <1>1 DEF Init
<1>5. idle.pc = "none" /\ idle.in = 0 /\ idle.dangling = FALSE /\ idle \in Thread
  <2>1. 0 \in 0 .. Cardinality(Backup)
    BY Constants
  <2>2. idle \in Thread
    BY <2>1 DEF Thread
  <2>3. QED BY <2>2
<1> HIDE DEF idle
<1>6. \A b \in Backup : handler[b].pc = "none" /\ handler[b].in = 0 /\ ~handler[b].dangling
  BY <1>4, <1>5
<1>7. TypeOK
  <2>1. << >> \in Seq([sock : Backup, addr : Address]) /\ << >> \in Seq(Packet)
    BY EmptySeq
  <2>2. broadcasts \in 0 .. MaxBroadcasts
    BY <1>2, Constants
  <2>3. handler \in [Backup -> Thread] /\ \A b \in Backup : handler[b].pc = "none"
    BY <1>4, <1>5
  <2>4. /\ pc \in [Backup -> {"off", "join", "id", "joined", "dead"}]
        /\ id \in [Backup -> Nat \cup {None}] /\ adjacent \in [Backup -> Address]
        /\ inbox \in [Backup -> Seq(Packet)]
    BY <1>1, <2>1 DEF Init, Address
  <2>5. QED BY <1>2, <2>1, <2>2, <2>3, <2>4 DEF TypeOK, Thread
<1>8. Placed
  BY <1>2, <1>3, <1>6 DEF Placed, Accepted
<1>9. Counted /\ Exact
  BY <1>3, <1>6 DEF Counted, Exact
<1>10. Turns
  BY <1>2, <1>3, <1>6 DEF Turns, Pending
<1>11. Links
  BY <1>2, <1>3, <1>6 DEF Links, Pending, OneResp, NoResp
<1>12. Signed /\ OnlyBroadcastsHideIds
  BY <1>2, <1>3 DEF Signed, OnlyBroadcastsHideIds
<1>13. QED BY <1>7, <1>8, <1>9, <1>10, <1>11, <1>12 DEF IInv, OneByOne, Ring

LEMMA NextOK == IInv /\ [Next]_vars => IInv'
<1>1. SUFFICES ASSUME IInv, [Next]_vars PROVE IInv'
  OBVIOUS
<1>2. CASE Next
  BY <1>1, <1>2, TypeStep, PlacedStep, CountedStep, OneByOneStep, ExactStep, RingStep, SignedStep,
     HiddenStep DEF IInv
<1>3. CASE UNCHANGED vars
  <2>1. TypeOK' /\ Placed'
    BY <1>1, <1>3 DEF IInv, vars, joinVars, TypeOK, Placed, Sock, Accepted
  <2>2. Counted' /\ Exact'
    BY <1>1, <1>3 DEF IInv, vars, joinVars, Counted, Exact, Orderly, Sock, Mail
  <2>3. OneByOne'
    BY <1>1, <1>3 DEF IInv, vars, joinVars, OneByOne, Turns, Orderly, Sock, Pending, Accepted,
                      Rested, ReadsFrom
  <2>4. Ring'
    BY <1>1, <1>3 DEF IInv, vars, joinVars, Ring, Links, Orderly, Sock, Pending, Accepted, Mail,
                      OneResp, NoResp, Linked, Before1, Before2
  <2>5. Signed' /\ OnlyBroadcastsHideIds'
    BY <1>1, <1>3 DEF IInv, vars, joinVars, Signed, OnlyBroadcastsHideIds, Orderly, Mail
  <2>6. QED BY <2>1, <2>2, <2>3, <2>4, <2>5 DEF IInv
<1>4. QED BY <1>1, <1>2, <1>3

\* The inductive invariant holds in every reachable state.
THEOREM Invariance == Spec => []IInv
<1>1. Init => IInv
  BY InitOK
<1>2. IInv /\ [Next]_vars => IInv'
  BY NextOK
<1>3. QED BY <1>1, <1>2, PTL DEF Spec

\* Every variable keeps its type; in particular a thread's place is a place of
\* the vector, which never has more of them than there are backups.
THEOREM TypeCorrect == Spec => []TypeOK
<1>1. IInv => TypeOK
  BY DEF IInv
<1>2. QED BY <1>1, Invariance, PTL

\* Ids are places when backups are started one by one, and never beyond the
\* place of the backup that gets them however they join
\* (InternalRouter::handle_connection, others->size() and others->back()).
THEOREM IdsAndPlaces == Spec => []IdsArePlaces
<1>1. IInv => IdsArePlaces
  BY DEF IInv, IdsArePlaces, Counted, Exact, Sock
<1>2. QED BY <1>1, Invariance, PTL

\* The adjacent addresses close the ring of the vote when backups are started
\* one by one (r1 and r2 of InternalRouter::handle_connection).
THEOREM ClosesRing == Spec => []RingIsClosed
<1>1. ASSUME IInv PROVE RingIsClosed
  <2>1. SUFFICES ASSUME Orderly, Quiet, Len(others) > 1, NEW k \in DOMAIN others
                 PROVE  adjacent[Sock(k)] \in
                            {Sock(IF k = Len(others) THEN 1 ELSE k + 1), Garbled}
    BY DEF RingIsClosed, Sock
  <2>2. Links /\ TypeOK
    BY <1>1, <2>1 DEF IInv, Ring
  <2>3. DOMAIN others = 1 .. Len(others) /\ Len(others) \in Nat
        /\ \A l \in DOMAIN others : Sock(l) \in Backup
    BY <2>2, Typed
  <2>4. \A b \in Backup : pc[b] # "off" => ~Before1(b) /\ ~Before2(b)
    BY <2>1 DEF Quiet, Before1, Before2
  <2>5. \A l \in DOMAIN others : pc[Sock(l)] # "off"
    BY <1>1, <2>3 DEF IInv, Placed
  <2>6. \A b \in Backup : Mail(b) = {}
    BY <2>1 DEF Quiet, Mail
  <2>7. CASE k = Len(others)
    <3>1. ~Before2(Sock(Len(others)))
      BY <2>3, <2>4, <2>5, <2>7
    <3>2. Linked(Sock(Len(others)), Sock(1))
      BY <2>1, <2>2, <3>1 DEF Links
    <3>3. QED BY <2>3, <2>6, <2>7, <3>2 DEF Linked
  <2>8. CASE k # Len(others)
    <3>1. k < Len(others) /\ k + 1 \in DOMAIN others
      BY <2>3, <2>8
    <3>2. ~Before1(Sock(k + 1))
      BY <2>3, <2>4, <2>5, <3>1
    <3>3. Linked(Sock(k), Sock(k + 1))
      BY <2>2, <3>1, <3>2 DEF Links
    <3>4. QED BY <2>3, <2>6, <2>8, <3>3 DEF Linked
  <2>9. QED BY <2>7, <2>8
<1>2. QED BY <1>1, Invariance, PTL

\* A backup that was started alone lacks its id only if a replicated packet was
\* taken for an answer (main.cpp reads p2 and p3 without looking further).
THEOREM HiddenIds == Spec => []OnlyBroadcastsHideIds
<1>1. IInv => OnlyBroadcastsHideIds
  BY DEF IInv
<1>2. QED BY <1>1, Invariance, PTL

=============================================================================
