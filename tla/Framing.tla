------------------------------ MODULE Framing -------------------------------
(***************************************************************************)
(* One TCP connection: packets as bytes, written by several threads that   *)
(* share no lock (Socket::write_packet), read piecemeal (read_packet), and  *)
(* what the payload carries on the way to a backup: a request of a user,    *)
(* signed (InternalRouter::sign_packet), and in an upload a file (File).    *)
(*                                                                         *)
(* Sizes are scaled down: a header has two bytes, the type and the length,  *)
(* a file name has room for NAME_SIZE.  Bytes are numbers; 0 ends a string. *)
(***************************************************************************)
EXTENDS Integers, SequencesExt, FiniteSets

CONSTANTS Writer, \* threads that write to the connection
          Script, \* what they may write: for each a sequence of requests
          Rooms,  \* how many bytes the connection may hold
          Leftover \* what the memory of a new Socket may hold where the header goes

HEADER_SIZE == 2
NAME_SIZE == 2
UPLOAD_REQ == 6
SIGNED_PACKET == 36

String == Seq(Nat \ {0})

\* An UPLOAD_REQ with a file, or another request with a text for its name
Item == [type : Nat \ {SIGNED_PACKET}, user : String, name : String, data : Seq(Nat)]

\* The name leaves room for its end
Fits(i) == Len(i.name) < NAME_SIZE /\ (i.type # UPLOAD_REQ => i.data = << >>)

ASSUME FramingAssumption ==
    /\ Rooms \subseteq Nat \ {0}
    /\ Leftover \subseteq [1 .. HEADER_SIZE -> Nat]
    /\ Script \subseteq [Writer -> Seq(Item)]
    /\ \A s \in Script, w \in Writer : \A k \in DOMAIN s[w] : Fits(s[w][k])

-----------------------------------------------------------------------------
(* The codecs.                                                             *)

\* Memory that nobody has written
Garbage == -1
Byte == Nat \cup {Garbage}

\* memcpy of n bytes from b, which may go past its end
Copy(b, from, n) ==
    [k \in 1 .. Max({n, 0}) |-> IF from + k - 1 \in DOMAIN b THEN b[from + k - 1] ELSE Garbage]

\* std::string(b)
Text(b) ==
    LET ends == {k \in DOMAIN b : b[k] = 0}
    IN  IF ends = {} THEN Append(b, Garbage) ELSE SubSeq(b, 1, Min(ends) - 1)

\* File::to_data and File::from_data: the size, the name padded, the data
ToData(f) ==
    <<Len(f.data)>> \o f.name \o [k \in 1 .. NAME_SIZE - Len(f.name) |-> 0] \o f.data

FromData(b) ==
    [name |-> Text(Copy(b, 2, NAME_SIZE)), data |-> Copy(b, NAME_SIZE + 2, Copy(b, 1, 1)[1])]

\* The packet of a request, as it is built
Request(i) ==
    [type |-> i.type, payload |-> IF i.type = UPLOAD_REQ THEN ToData(i) ELSE Append(i.name, 0)]

\* What write_packet sends of it
Bytes(p) == <<p.type, Len(p.payload)>> \o p.payload

\* Mutant: the user name is copied without its end
SignUnended(p, user) == [type |-> SIGNED_PACKET, payload |-> Bytes(p) \o user]

\* sign_packet
Sign(p, user) == [type |-> SIGNED_PACKET, payload |-> Bytes(p) \o Append(user, 0)]

\* extract_signature
Extract(p) ==
    LET n == Copy(p.payload, HEADER_SIZE, 1)[1]
    IN  IF p.type # SIGNED_PACKET THEN [type |-> p.type, payload |-> p.payload, user |-> << >>]
        ELSE [type    |-> Copy(p.payload, 1, 1)[1],
              payload |-> Copy(p.payload, HEADER_SIZE + 1, n),
              user    |-> Text(Copy(p.payload, HEADER_SIZE + n + 1,
                                    Len(p.payload) - HEADER_SIZE - n))]

\* What the keepalive thread makes of a packet
Decode(p) ==
    LET r == Extract(p)
        f == IF r.type = UPLOAD_REQ THEN FromData(r.payload)
             ELSE [name |-> Text(r.payload), data |-> << >>]
    IN  [type |-> r.type, user |-> r.user, name |-> f.name, data |-> f.data]

-----------------------------------------------------------------------------
VARIABLES
    todo,      \* the requests each thread has still to write
    left,      \* the bytes of its packet that write() has not handed over
    room,      \* how many bytes the connection holds
    wire,      \* those on their way
    closed,    \* the writing process has ended, or the connection was reset
    error,     \* the next read() with nothing on its way returns -1
    reader,    \* read_packet: "header", "payload", or "stopped" by an exception
    buffer,    \* the last header
    got,       \* the bytes read of the one that is being read, or of the payload
    delivered, \* history: the packets that read_packet returned
    order,     \* history: the requests, in the order they were begun
    overlapped, \* history: a packet was written within another one
    failed     \* history: a read() returned -1

writerVars == <<todo, left, order, overlapped>>
readerVars == <<reader, buffer, got, delivered>>
vars == <<writerVars, room, wire, closed, error, readerVars, failed>>

\* Mutant: more is wanted than was sent
WantedTooMuch == IF reader = "header" THEN HEADER_SIZE ELSE buffer[2] + 1

\* How many bytes a loop of read_packet is for
Wanted == IF reader = "header" THEN HEADER_SIZE ELSE buffer[2]

TypeOK ==
    /\ todo \in [Writer -> Seq(Item)] /\ left \in [Writer -> Seq(Nat)]
    /\ room \in Rooms /\ wire \in Seq(Nat) /\ Len(wire) <= room
    /\ closed \in BOOLEAN /\ error \in BOOLEAN /\ failed \in BOOLEAN
    /\ overlapped \in BOOLEAN
    /\ reader \in {"header", "payload", "stopped"}
    /\ buffer \in Seq(Nat) /\ Len(buffer) = HEADER_SIZE
    /\ got \in Seq(Nat) /\ (reader # "stopped" => Len(got) < Wanted)
    /\ delivered \in Seq([type : Byte, payload : Seq(Byte)])
    /\ order \in Seq(Item)

\* The constructors set no byte of the buffer: when the first read() fails, it
\* is what was in memory that is taken for a header
Init ==
    /\ todo \in Script /\ left = [w \in Writer |-> << >>]
    /\ room \in Rooms /\ wire = << >> /\ closed = FALSE /\ error = FALSE
    /\ reader = "header" /\ buffer \in Leftover /\ got = << >>
    /\ delivered = << >> /\ order = << >> /\ overlapped = FALSE /\ failed = FALSE

\* write() hands over what there is room for, and then waits for more; other
\* threads may find the room first
Writes(w) ==
    /\ ~closed /\ Len(wire) < room
    /\ LET begins == left[w] = << >>
           bytes  == IF begins THEN Bytes(Sign(Request(Head(todo[w])), Head(todo[w]).user))
                     ELSE left[w]
           n      == Min({room - Len(wire), Len(bytes)})
       IN  /\ begins => todo[w] # << >>
           /\ todo' = IF begins THEN [todo EXCEPT ![w] = Tail(@)] ELSE todo
           /\ order' = IF begins THEN Append(order, Head(todo[w])) ELSE order
           /\ wire' = wire \o SubSeq(bytes, 1, n)
           /\ left' = [left EXCEPT ![w] = SubSeq(bytes, n + 1, Len(bytes))]
    /\ overlapped' = (overlapped \/ \E v \in Writer \ {w} : left[v] # << >>)
    /\ UNCHANGED <<room, closed, error, readerVars, failed>>

\* The process of the writers ends, or the connection is reset, which drops
\* some of what was on its way
Closes ==
    /\ ~closed /\ closed' = TRUE
    /\ \/ UNCHANGED <<wire, error>>
       \/ error' = TRUE /\ \E n \in 0 .. Len(wire) : wire' = SubSeq(wire, 1, n)
    /\ UNCHANGED <<writerVars, room, readerVars, failed>>

Delivers(type, payload) ==
    /\ delivered' = Append(delivered, [type |-> type, payload |-> payload])
    /\ reader' = "header" /\ got' = << >>

\* One loop of read_packet is over: a payload of no bytes is not read at all
HasHeader(h) ==
    /\ buffer' = h
    /\ IF h[2] = 0 THEN Delivers(h[1], << >>)
       ELSE reader' = "payload" /\ got' = << >> /\ UNCHANGED delivered

\* Mutant: as many bytes are read as there are
ReadsBeyond ==
    /\ reader # "stopped" /\ wire # << >>
    /\ \E n \in 1 .. Len(wire) :
          LET g == got \o SubSeq(wire, 1, n)
          IN  /\ wire' = SubSeq(wire, n + 1, Len(wire))
              /\ IF Len(g) < Wanted \/ reader = "payload"
                 THEN got' = g /\ UNCHANGED <<reader, buffer, delivered>>
                 ELSE HasHeader(SubSeq(g, 1, HEADER_SIZE))
    /\ UNCHANGED <<writerVars, room, closed, error, failed>>

\* Mutant: one read() for the payload
ReadsOnce ==
    /\ reader # "stopped" /\ wire # << >>
    /\ \E n \in 1 .. Min({Len(wire), Wanted - Len(got)}) :
          LET g == got \o SubSeq(wire, 1, n)
          IN  /\ wire' = SubSeq(wire, n + 1, Len(wire))
              /\ IF reader = "payload" THEN Delivers(buffer[1], Copy(g, 1, Wanted)) /\ UNCHANGED buffer
                 ELSE IF Len(g) < Wanted
                      THEN got' = g /\ UNCHANGED <<reader, buffer, delivered>>
                      ELSE HasHeader(g)
    /\ UNCHANGED <<writerVars, room, closed, error, failed>>

\* read() returns some of the bytes that are wanted
Reads ==
    /\ reader # "stopped" /\ wire # << >>
    /\ \E n \in 1 .. Min({Len(wire), Wanted - Len(got)}) :
          LET g == got \o SubSeq(wire, 1, n)
          IN  /\ wire' = SubSeq(wire, n + 1, Len(wire))
              /\ \/ /\ Len(g) < Wanted /\ got' = g
                    /\ UNCHANGED <<reader, buffer, delivered>>
                 \/ /\ Len(g) = Wanted /\ reader = "header" /\ HasHeader(g)
                 \/ /\ Len(g) = Wanted /\ reader = "payload" /\ Delivers(buffer[1], g)
                    /\ UNCHANGED buffer
    /\ UNCHANGED <<writerVars, room, closed, error, failed>>

\* Mutant: the loop for the payload ends where it should throw
ReadsShort ==
    /\ reader # "stopped" /\ wire = << >> /\ closed /\ ~error
    /\ IF reader = "payload" THEN Delivers(buffer[1], Copy(got, 1, Wanted))
       ELSE reader' = "stopped" /\ UNCHANGED <<got, delivered>>
    /\ UNCHANGED <<writerVars, room, wire, closed, error, buffer, failed>>

\* read() returns 0: READ_HEADER_ERROR or READ_PAYLOAD_ERROR
ReadsEnd ==
    /\ reader # "stopped" /\ wire = << >> /\ closed /\ ~error
    /\ reader' = "stopped"
    /\ UNCHANGED <<writerVars, room, wire, closed, error, buffer, got, delivered, failed>>

\* read() returns -1, which is added to n.  When n was 0 it is now more than
\* HEADER_SIZE or p.length, which are unsigned, and the loop ends: with the
\* header of the packet before, or a payload that was never written.
\* Otherwise the byte before is read again.
ReadsError ==
    /\ reader # "stopped" /\ wire = << >> /\ error
    /\ error' = FALSE /\ failed' = TRUE
    /\ \/ /\ got = << >> /\ reader = "header" /\ HasHeader(buffer)
       \/ /\ got = << >> /\ reader = "payload"
          /\ Delivers(buffer[1], Copy(got, 1, Wanted)) /\ UNCHANGED buffer
       \/ got # << >> /\ got' = Front(got) /\ UNCHANGED <<reader, buffer, delivered>>
    /\ UNCHANGED <<writerVars, room, wire, closed>>

Next == Closes \/ Reads \/ ReadsEnd \/ ReadsError \/ \E w \in Writer : Writes(w)

Spec == Init /\ [][Next]_vars

\* The threads run, and the network delivers; nothing makes a connection end.
Fairness ==
    /\ WF_vars(Reads) /\ WF_vars(ReadsEnd) /\ WF_vars(ReadsError)
    /\ \A w \in Writer : WF_vars(Writes(w))

FairSpec == Spec /\ Fairness

-----------------------------------------------------------------------------
(* Properties.                                                             *)

Asked == UNION {UNION {Range(s[w]) : w \in Writer} : s \in Script}

Unread == SubSeq(order, Len(delivered) + 1, Len(order))

Decoded == [k \in DOMAIN delivered |-> Decode(delivered[k])]

P == INSTANCE Pipe WITH Item <- Asked, queue <- Unread, received <- Decoded

\* Until packets of two threads are mixed (write_packet takes no lock) or a
\* read() fails, the connection is a pipe of requests: however write() and
\* read() cut them up, each arrives whole, once, in order, with its user, name
\* and data.
PipeUntilSpoiled ==
    P!Init /\ [][P!Next \/ overlapped' \/ failed']_<<Unread, Decoded>>

\* A connection that ends, however it does, adds at most one packet that
\* nobody wrote, after all others, and only when it was reset: half a packet
\* is never returned, as long as packets are not mixed.
OneForgedAtMost ==
    ~overlapped =>
        \A k \in DOMAIN delivered :
            \/ k \in DOMAIN order /\ Decoded[k] = order[k]
            \/ failed /\ k = Len(delivered)

\* Every request is read in the end, unless the connection ends or packets are mixed.
AllRead ==
    <>(closed \/ overlapped \/
       \A w \in Writer : todo[w] = << >> /\ left[w] = << >> /\ Unread = << >>)
=============================================================================
