-------------------------- MODULE ClientSyncProofs --------------------------
(***************************************************************************)
(* What holds of the synchronised directories for any number of devices and *)
(* files, any script of the users, and any interleaving.                    *)
(***************************************************************************)
EXTENDS ClientSync, SequenceTheorems, FiniteSetTheorems, TLAPS

Who == {"user", "listener"}

Reports(e) == e.kind # "MODIFY"

-----------------------------------------------------------------------------
(* Sequences, and what the operators of the model do to them.              *)

\* What is appended is added to what is there.
LEMMA RangeAppend ==
    ASSUME NEW S, NEW q \in Seq(S), NEW x \in S
    PROVE  /\ Append(q, x) \in Seq(S) /\ Append(q, x) # << >>
           /\ Range(Append(q, x)) = Range(q) \cup {x}
<1>1. /\ Append(q, x) \in Seq(S) /\ Append(q, x) # << >> /\ Len(Append(q, x)) = Len(q) + 1
      /\ \A i \in 1 .. Len(q) : Append(q, x)[i] = q[i]
      /\ Append(q, x)[Len(q) + 1] = x
  BY AppendProperties
<1>2. Range(Append(q, x)) = {Append(q, x)[i] : i \in 1 .. Len(q) + 1}
  BY <1>1, RangeEquality
<1>3. Range(q) = {q[i] : i \in 1 .. Len(q)} /\ Len(q) \in Nat
  BY RangeEquality, LenProperties
<1>4. 1 .. Len(q) + 1 = 1 .. Len(q) \cup {Len(q) + 1}
  BY <1>3
<1>5. QED BY <1>1, <1>2, <1>3, <1>4

\* A queue consists of its head and its tail.
LEMMA RangeHeadTail ==
    ASSUME NEW S, NEW q \in Seq(S), q # << >>
    PROVE  /\ Head(q) \in S /\ Tail(q) \in Seq(S)
           /\ Range(q) = {Head(q)} \cup Range(Tail(q))
<1>1. /\ Head(q) \in S /\ Tail(q) \in Seq(S) /\ Len(Tail(q)) = Len(q) - 1
      /\ \A i \in 1 .. Len(Tail(q)) : Tail(q)[i] = q[i + 1]
  BY HeadTailProperties
<1>2. Len(q) \in Nat /\ Len(q) # 0 /\ q \in [1 .. Len(q) -> S]
  BY LenProperties, EmptySeq
<1>3. Head(q) = q[1]
  OBVIOUS
<1>4. /\ Range(q) = {q[i] : i \in 1 .. Len(q)}
      /\ Range(Tail(q)) = {Tail(q)[i] : i \in 1 .. Len(q) - 1}
  BY <1>1, RangeEquality
<1>5. ASSUME NEW x \in Range(q) PROVE x \in {Head(q)} \cup Range(Tail(q))
  <2>1. PICK i \in 1 .. Len(q) : x = q[i]
    BY <1>4
  <2>2. CASE i = 1
    BY <2>1, <2>2, <1>3
  <2>3. CASE i # 1
    <3>1. i - 1 \in 1 .. Len(q) - 1 /\ (i - 1) + 1 = i
      BY <2>3, <1>2
    <3>2. Tail(q)[i - 1] = q[i]
      BY <3>1, <1>1
    <3>3. QED BY <3>1, <3>2, <2>1, <1>4
  <2>4. QED BY <2>2, <2>3
<1>6. ASSUME NEW x \in Range(Tail(q)) PROVE x \in Range(q)
  <2>1. PICK i \in 1 .. Len(q) - 1 : x = Tail(q)[i]
    BY <1>4
  <2>2. x = q[i + 1] /\ i + 1 \in 1 .. Len(q)
    BY <2>1, <1>1, <1>2
  <2>3. QED BY <2>2, <1>4
<1>7. Head(q) \in Range(q)
  BY <1>2, <1>3, <1>4
<1>8. QED BY <1>1, <1>5, <1>6, <1>7

LEMMA RangeEmpty == Range(<< >>) = {}
BY DEF Range

\* What is in a queue is of its elements' kind.
LEMMA RangeType ==
    ASSUME NEW S, NEW q \in Seq(S), NEW x \in Range(q)
    PROVE  x \in S /\ q # << >>
<1>1. x \in S
  BY RangeOfSeq
<1>2. q # << >>
  BY RangeEmpty
<1>3. QED BY <1>1, <1>2

\* The elements of a finite set, in some order.
LEMMA Enumerated ==
    ASSUME NEW S, IsFiniteSet(S)
    PROVE  SetToSeq(S) \in Seq(S) /\ Range(SetToSeq(S)) = S
<1> DEFINE n == Cardinality(S)
<1>1. n \in Nat /\ ExistsBijection(1 .. n, S)
  BY FS_CardinalityType
<1>2. \E f \in [1 .. n -> S] : IsInjective(f)
  BY <1>1 DEF ExistsBijection, Bijection, Injection
<1>3. PICK f : f = SetToSeq(S)
  OBVIOUS
<1>4. f \in [1 .. n -> S] /\ IsInjective(f)
  BY <1>2, <1>3 DEF SetToSeq
<1>5. f \in Injection(1 .. n, S)
  BY <1>4 DEF Injection
<1>6. Cardinality(1 .. n) = n
  BY <1>1, FS_Interval
<1>7. f \in Surjection(1 .. n, S)
  BY <1>5, <1>6, FS_Injection
<1>8. Range(f) = S
  BY <1>4, <1>7 DEF Surjection, Range
<1>9. f \in Seq(S)
  BY <1>1, <1>4, SeqDef
<1>10. QED BY <1>3, <1>8, <1>9


-----------------------------------------------------------------------------
(* Types.                                                                  *)

\* What packets are, and that none of them is None.
LEMMA Packets ==
    /\ \A p \in Upstream :
          /\ p.type \in {"UPLOAD_REQ", "DELETE_REQ", "SYNC_DIR_REQ"}
          /\ p.file \in File \cup {NoName} /\ p.data \in Content
          /\ p.type = "UPLOAD_REQ" => p.file \in File
          /\ p # None
    /\ \A p \in Downstream :
          /\ p.type \in {"UPLOAD_BROADCAST", "SYNC_DIR_ACCEPT_RESP", "DELETE_BROADCAST",
                         "DELETE_ACCEPT_RESP"}
          /\ p.file \in File \cup {NoName} /\ p.data \in Content
          /\ p.type \in {"UPLOAD_BROADCAST", "SYNC_DIR_ACCEPT_RESP"} => p.file \in File
          /\ p.last \in BOOLEAN /\ (p.last => p.type = "SYNC_DIR_ACCEPT_RESP")
          /\ p # None
    /\ \A o \in Opened : o.file \in File /\ o.data \in Content /\ o # None
BY ClientSyncAssumption DEF Upstream, Downstream, Opened

LEMMA Requests ==
    ASSUME NEW f \in File \cup {NoName}, NEW c \in Content
    PROVE  /\ f \in File => Request("UPLOAD_REQ", f, c) \in Upstream
           /\ Request("DELETE_REQ", f, c) \in Upstream
           /\ Request("SYNC_DIR_REQ", f, c) \in Upstream
           /\ f \in File => Request("UPLOAD_BROADCAST", f, c) \in Downstream
           /\ Request("DELETE_BROADCAST", f, c) \in Downstream
           /\ Request("DELETE_ACCEPT_RESP", f, c) \in Downstream
BY DEF Request, Upstream, Downstream

LEMMA Contents ==
    /\ Absent \in Content /\ Mixed \in Content /\ Empty \in Content /\ 1 \in Content
    /\ Absent # Mixed /\ Absent # Empty /\ Mixed # Empty
    /\ ~Whole(Absent) /\ ~Whole(Mixed) /\ ~Whole(Empty) /\ Whole(1)
BY DEF Absent, Mixed, Empty, Content, Whole

\* The kernel's queue keeps what it has, and takes a new event unless the last
\* one was of the same file.
LEMMA QueuedKeeps ==
    ASSUME NEW q \in Seq(Event), NEW e \in Event
    PROVE  /\ Queued(q, e) \in Seq(Event) /\ Queued(q, e) # << >>
           /\ Range(q) \subseteq Range(Queued(q, e))
           /\ Range(Queued(q, e)) \subseteq Range(q) \cup {e}
           /\ e \in Range(Queued(q, e)) \/ \E x \in Range(q) : x.file = e.file
           /\ q = << >> => Range(Queued(q, e)) = {e}
<1>1. CASE Queued(q, e) = Append(q, e)
  BY <1>1, RangeAppend, RangeEmpty
<1>2. CASE q # << >> /\ Last(q).file = e.file /\ Queued(q, e) = q
  <2>1. Len(q) \in Nat /\ Len(q) # 0
    BY <1>2, EmptySeq
  <2>2. Len(q) \in 1 .. Len(q) /\ Range(q) = {q[i] : i \in 1 .. Len(q)}
    BY <2>1, RangeEquality
  <2>3. Last(q) \in Range(q)
    BY <2>2 DEF Last
  <2>4. QED BY <1>2, <2>3
<1>3. QED BY <1>1, <1>2 DEF Queued

LocalTypes ==
    /\ dir \in [Device -> [File -> Content]]
    /\ open \in [Device -> [Who -> Opened \cup {None}]]
    /\ events \in [Device -> Seq(Event)]
    /\ watching \in [Device -> BOOLEAN]

\* What a step may do to the files of d: those of the other devices stay, and
\* so do the other files of d; the events that come are e.
Local(d, f) ==
    /\ LocalTypes'
    /\ \A x \in Device : x # d => dir'[x] = dir[x] /\ open'[x] = open[x] /\ events'[x] = events[x]
    /\ \A g \in File : g # f => dir'[d][g] = dir[d][g]
    /\ Range(events[d]) \subseteq Range(events'[d])

\* Events of the kind, of file f
NewEvents(d, f, kinds, by) ==
    \A e \in Range(events'[d]) :
        e \in Range(events[d]) \/ (e.file = f /\ e.by = by /\ e.kind \in kinds)

LEMMA NotifyAdds ==
    ASSUME LocalTypes, NEW d \in Device, NEW f \in File,
           NEW kind \in {"CREATE", "MOVED_TO", "MODIFY", "DELETE"},
           NEW by \in {"user", "listener", "unflagged"}, Notify(d, kind, f, by)
    PROVE  /\ events' \in [Device -> Seq(Event)]
           /\ \A x \in Device : x # d => events'[x] = events[x]
           /\ Range(events[d]) \subseteq Range(events'[d])
           /\ NewEvents(d, f, {kind}, by)
           /\ events[d] # << >> => events'[d] # << >>
           /\ watching[d] =>
                 \/ \E e \in Range(events'[d]) : e.file = f /\ e.kind = kind /\ e.by = by
                 \/ \E e \in Range(events[d]) : e.file = f
           /\ UNCHANGED watching
<1> DEFINE e == [kind |-> kind, file |-> f, by |-> by]
<1>1. e \in Event /\ e.kind = kind /\ e.file = f /\ e.by = by
  BY DEF Event
<1>2. events[d] \in Seq(Event)
  BY DEF LocalTypes
<1>3. UNCHANGED watching
  BY DEF Notify
<1>4. CASE ~watching[d]
  <2>1. events' = events
    BY <1>4 DEF Notify
  <2>2. NewEvents(d, f, {kind}, by)
    BY <2>1 DEF NewEvents
  <2>3. QED BY <1>3, <1>4, <2>1, <2>2 DEF LocalTypes
<1>5. CASE watching[d]
  <2>1. events' = [events EXCEPT ![d] = Queued(events[d], e)]
    BY <1>5 DEF Notify
  <2>2. events'[d] = Queued(events[d], e) /\ \A x \in Device : x # d => events'[x] = events[x]
    BY <2>1 DEF LocalTypes
  <2>3. Queued(events[d], e) \in Seq(Event)
    BY <1>1, <1>2, QueuedKeeps
  <2>4. events' \in [Device -> Seq(Event)]
    BY <2>1, <2>3 DEF LocalTypes
  <2> HIDE DEF e
  <2>5. /\ events'[d] # << >> /\ Range(events[d]) \subseteq Range(events'[d])
        /\ Range(events'[d]) \subseteq Range(events[d]) \cup {e}
        /\ e \in Range(events'[d]) \/ \E x \in Range(events[d]) : x.file = e.file
    BY <1>1, <1>2, <2>2, QueuedKeeps
  <2>6. NewEvents(d, f, {kind}, by)
    BY <1>1, <2>5 DEF NewEvents
  <2>7. QED BY <1>1, <1>3, <2>2, <2>4, <2>5, <2>6
<1>6. QED BY <1>4, <1>5

LEMMA WhoIs == Who = {"user", "listener"} /\ "user" \in Who /\ "listener" \in Who
BY DEF Who

\* Opening a file leaves it empty.
LEMMA OpensKeeps ==
    ASSUME LocalTypes, NEW d \in Device, NEW who \in Who, NEW f \in File, NEW c \in Content,
           NEW by \in {"user", "listener", "unflagged"}, Opens(d, who, f, c, by)
    PROVE  /\ Local(d, f) /\ dir'[d][f] = Empty
           /\ open'[d][who] = [file |-> f, data |-> c]
           /\ \A w \in Who : w # who => open'[d][w] = open[d][w]
           /\ NewEvents(d, f, {"CREATE", "MODIFY"}, by)
           /\ dir[d][f] = Absent /\ watching[d] =>
                 \/ \E e \in Range(events'[d]) : e.file = f /\ e.kind = "CREATE" /\ e.by = by
                 \/ \E e \in Range(events[d]) : e.file = f
<1>1. /\ dir' \in [Device -> [File -> Content]]
      /\ \A x \in Device : x # d => dir'[x] = dir[x]
      /\ \A g \in File : g # f => dir'[d][g] = dir[d][g]
      /\ dir'[d][f] = Empty
  BY Contents DEF LocalTypes, Opens
<1>2. [file |-> f, data |-> c] \in Opened
  BY DEF Opened
<1>3. /\ open' \in [Device -> [Who -> Opened \cup {None}]]
      /\ \A x \in Device : x # d => open'[x] = open[x]
      /\ open'[d][who] = [file |-> f, data |-> c]
      /\ \A w \in Who : w # who => open'[d][w] = open[d][w]
  BY <1>2 DEF LocalTypes, Opens
<1>4. CASE dir[d][f] = Absent
  <2>1. Notify(d, "CREATE", f, by)
    BY <1>4 DEF Opens
  <2>2. /\ events' \in [Device -> Seq(Event)]
        /\ \A x \in Device : x # d => events'[x] = events[x]
        /\ Range(events[d]) \subseteq Range(events'[d])
        /\ NewEvents(d, f, {"CREATE"}, by)
        /\ watching[d] =>
              \/ \E e \in Range(events'[d]) : e.file = f /\ e.kind = "CREATE" /\ e.by = by
              \/ \E e \in Range(events[d]) : e.file = f
        /\ UNCHANGED watching
    BY <2>1, NotifyAdds, ZenonT(60)
  <2>3. NewEvents(d, f, {"CREATE", "MODIFY"}, by)
    BY <2>2 DEF NewEvents
  <2>4. Local(d, f)
    BY <1>1, <1>3, <2>2 DEF Local, LocalTypes
  <2>5. QED BY <1>1, <1>3, <2>2, <2>3, <2>4
<1>5. CASE dir[d][f] # Absent /\ dir[d][f] # Empty
  <2>1. Notify(d, "MODIFY", f, by)
    BY <1>5 DEF Opens
  <2>2. /\ events' \in [Device -> Seq(Event)]
        /\ \A x \in Device : x # d => events'[x] = events[x]
        /\ Range(events[d]) \subseteq Range(events'[d])
        /\ NewEvents(d, f, {"MODIFY"}, by)
        /\ UNCHANGED watching
    BY <2>1, NotifyAdds, ZenonT(60)
  <2>3. NewEvents(d, f, {"CREATE", "MODIFY"}, by)
    BY <2>2 DEF NewEvents
  <2>4. Local(d, f)
    BY <1>1, <1>3, <2>2 DEF Local, LocalTypes
  <2>5. QED BY <1>1, <1>3, <1>5, <2>3, <2>4
<1>6. CASE dir[d][f] # Absent /\ dir[d][f] = Empty
  <2>1. events' = events /\ UNCHANGED watching
    BY <1>6 DEF Opens
  <2>2. NewEvents(d, f, {"CREATE", "MODIFY"}, by)
    BY <2>1 DEF NewEvents
  <2>3. Local(d, f)
    BY <1>1, <1>3, <2>1 DEF Local, LocalTypes
  <2>4. QED BY <1>1, <1>3, <1>6, <2>2, <2>3
<1>7. QED BY <1>4, <1>5, <1>6

\* Writing makes the file whole, unless something else was written to it.
LEMMA WritesKeeps ==
    ASSUME LocalTypes, NEW d \in Device, NEW who \in Who, Writes(d, who),
           NEW o, o = open[d][who]
    PROVE  /\ o = None => UNCHANGED <<dir, events>>
           /\ open' = [open EXCEPT ![d][who] = None]
           /\ LocalTypes'
           /\ \A x \in Device : x # d => dir'[x] = dir[x] /\ open'[x] = open[x] /\ events'[x] = events[x]
           /\ Range(events[d]) \subseteq Range(events'[d])
           /\ events[d] # << >> => events'[d] # << >>
           /\ o # None =>
                 /\ o \in Opened
                 /\ \A g \in File : g # o.file => dir'[d][g] = dir[d][g]
                 /\ NewEvents(d, o.file, {"MODIFY"}, who)
                 /\ o.data = Empty => dir' = dir
                 /\ o.data # Empty /\ dir[d][o.file] \in {Empty, o.data} => dir'[d][o.file] = o.data
<1>1. /\ open' = [open EXCEPT ![d][who] = None]
      /\ open' \in [Device -> [Who -> Opened \cup {None}]]
      /\ \A x \in Device : x # d => open'[x] = open[x]
  BY DEF LocalTypes, Writes
<1>2. CASE o = None \/ (o # None /\ o.data = Empty)
  <2>1. UNCHANGED <<dir, watching, events>>
    BY <1>2 DEF Writes
  <2>2. NewEvents(d, o.file, {"MODIFY"}, who)
    BY <2>1 DEF NewEvents
  <2>3. o # None => o \in Opened
    BY DEF LocalTypes
  <2>4. QED BY <1>1, <1>2, <2>1, <2>2, <2>3 DEF LocalTypes
<1>3. CASE o # None /\ o.data # Empty
  <2>1. o \in Opened /\ o.file \in File /\ o.data \in Content
    BY <1>3, Packets DEF LocalTypes
  <2>2. /\ dir' = [dir EXCEPT ![d][o.file] =
                      IF dir[d][o.file] \in {Empty, o.data} THEN o.data ELSE Mixed]
        /\ Notify(d, "MODIFY", o.file, IF who = "user" THEN "user" ELSE "listener")
    BY <1>3 DEF Writes
  <2>3. Notify(d, "MODIFY", o.file, who) /\ who \in {"user", "listener", "unflagged"}
    BY <2>2, WhoIs
  <2>4. /\ events' \in [Device -> Seq(Event)]
        /\ \A x \in Device : x # d => events'[x] = events[x]
        /\ Range(events[d]) \subseteq Range(events'[d])
        /\ events[d] # << >> => events'[d] # << >>
        /\ NewEvents(d, o.file, {"MODIFY"}, who)
        /\ UNCHANGED watching
    BY <2>1, <2>3, NotifyAdds, ZenonT(60)
  <2>5. PICK c : c = IF dir[d][o.file] \in {Empty, o.data} THEN o.data ELSE Mixed
    OBVIOUS
  <2>6. c \in Content
    BY <2>1, <2>5, Contents
  <2>7. /\ dir' \in [Device -> [File -> Content]]
        /\ \A x \in Device : x # d => dir'[x] = dir[x]
        /\ \A g \in File : g # o.file => dir'[d][g] = dir[d][g]
        /\ dir'[d][o.file] = c
    BY <2>1, <2>2, <2>5, <2>6 DEF LocalTypes
  <2>8. LocalTypes'
    BY <1>1, <2>4, <2>7 DEF LocalTypes
  <2>9. QED BY <1>1, <1>3, <2>1, <2>4, <2>5, <2>7, <2>8
<1>4. QED BY <1>2, <1>3

\* A file whose name goes is no longer open.
LEMMA UnlinkedKeeps ==
    ASSUME LocalTypes, NEW d \in Device, NEW f \in File, Unlinked(d, f)
    PROVE  /\ open' \in [Device -> [Who -> Opened \cup {None}]]
           /\ \A x \in Device : x # d => open'[x] = open[x]
           /\ \A w \in Who : open'[d][w] = IF open[d][w] # None /\ open[d][w].file = f
                                           THEN None ELSE open[d][w]
<1>1. open' = [open EXCEPT ![d] = [w \in Who |->
                  IF open[d][w] # None /\ open[d][w].file = f THEN None ELSE open[d][w]]]
  BY DEF Unlinked, Who
<1>2. \A w \in Who : open[d][w] \in Opened \cup {None}
  BY DEF LocalTypes
<1>3. QED BY <1>1, <1>2 DEF LocalTypes

\* Removing a file that is there makes it absent, and says so.
LEMMA RemovedKeeps ==
    ASSUME LocalTypes, NEW d \in Device, NEW f \in File \cup {NoName},
           NEW by \in {"user", "listener", "unflagged"}, Removed(d, f, by)
    PROVE  /\ Local(d, f) /\ (f \in File => dir'[d][f] = Absent)
           /\ \A w \in Who : open'[d][w] \in {None, open[d][w]}
           /\ \A w \in Who : f \in File /\ dir[d][f] # Absent /\ open'[d][w] # None => open'[d][w].file # f
           /\ \A w \in Who : open[d][w] # None /\ open[d][w].file # f => open'[d][w] = open[d][w]
           /\ NewEvents(d, f, {"DELETE"}, by)
           /\ events[d] # << >> => events'[d] # << >>
           /\ f \in File /\ dir[d][f] # Absent /\ watching[d] =>
                 \/ \E e \in Range(events'[d]) : e.file = f /\ e.kind = "DELETE" /\ e.by = by
                 \/ \E e \in Range(events[d]) : e.file = f
<1>1. CASE f \in File /\ dir[d][f] # Absent
  <2>1. /\ dir' = [dir EXCEPT ![d][f] = Absent]
        /\ Unlinked(d, f) /\ Notify(d, "DELETE", f, by)
    BY <1>1 DEF Removed
  <2>2. /\ dir' \in [Device -> [File -> Content]]
        /\ \A x \in Device : x # d => dir'[x] = dir[x]
        /\ \A g \in File : g # f => dir'[d][g] = dir[d][g]
        /\ dir'[d][f] = Absent
    BY <1>1, <2>1, Contents DEF LocalTypes
  <2>3. /\ open' \in [Device -> [Who -> Opened \cup {None}]]
        /\ \A x \in Device : x # d => open'[x] = open[x]
        /\ \A w \in Who : open'[d][w] = IF open[d][w] # None /\ open[d][w].file = f
                                        THEN None ELSE open[d][w]
    BY <1>1, <2>1, UnlinkedKeeps
  <2>4. /\ events' \in [Device -> Seq(Event)]
        /\ \A x \in Device : x # d => events'[x] = events[x]
        /\ Range(events[d]) \subseteq Range(events'[d])
        /\ events[d] # << >> => events'[d] # << >>
        /\ NewEvents(d, f, {"DELETE"}, by)
        /\ watching[d] =>
              \/ \E e \in Range(events'[d]) : e.file = f /\ e.kind = "DELETE" /\ e.by = by
              \/ \E e \in Range(events[d]) : e.file = f
        /\ UNCHANGED watching
    <3>1. f \in File /\ "DELETE" \in {"CREATE", "MOVED_TO", "MODIFY", "DELETE"}
      BY <1>1
    <3>2. QED BY <2>1, <3>1, NotifyAdds, ZenonT(60)
  <2>5. Local(d, f)
    BY <2>2, <2>3, <2>4 DEF Local, LocalTypes
  <2>6. QED BY <1>1, <2>2, <2>3, <2>4, <2>5
<1>2. CASE ~(f \in File /\ dir[d][f] # Absent)
  <2>1. UNCHANGED <<dir, open, watching, events>>
    BY <1>2 DEF Removed, localVars
  <2>2. NewEvents(d, f, {"DELETE"}, by)
    BY <2>1 DEF NewEvents
  <2>3. Local(d, f)
    BY <2>1 DEF Local, LocalTypes
  <2>4. QED BY <1>2, <2>1, <2>2, <2>3
<1>3. QED BY <1>1, <1>2

LEMMA LocallyTyped == TypeOK => LocalTypes
BY DEF TypeOK, LocalTypes, Who

\* A truth value can be put into a history variable.
LEMMA Update ==
    ASSUME NEW F \in [Device -> BOOLEAN], NEW d \in Device, NEW q \in BOOLEAN
    PROVE  /\ [F EXCEPT ![d] = q] \in [Device -> BOOLEAN]
           /\ [F EXCEPT ![d] = q][d] = q
           /\ \A x \in Device : x # d => [F EXCEPT ![d] = q][x] = F[x]
OBVIOUS

\* What a change in the script does to the history.
LEMMA ChangesKeeps ==
    ASSUME TypeOK, NEW kind, NEW d \in Device, NEW f \in File, NEW c \in Content,
           Changes(kind, d, f, c)
    PROVE  /\ scenario' = scenario /\ changes' \in 0 .. Len(scenario.script)
           /\ latest' = [latest EXCEPT ![f] = c] /\ latest' \in [File -> Content]
           /\ deleted' \in BOOLEAN /\ UNCHANGED <<echoes, stale>>
           /\ open[d]["user"] = None
           /\ calm' \in [Device -> BOOLEAN]
           /\ \A x \in Device : x # d => calm'[x] = calm[x]
           /\ calm'[d] => /\ calm[d] /\ listener[d] = "read"
                          /\ \A e \in Range(events[d]) \cup Range(batch[d]) : e.by = "user"
<1> DEFINE q == calm[d] /\ listener[d] = "read" /\
                \A e \in Range(events[d]) \cup Range(batch[d]) : e.by = "user"
<1>1. q \in BOOLEAN
  BY DEF TypeOK
<1>2. calm' = [calm EXCEPT ![d] = q]
  BY DEF Changes
<1>3. calm \in [Device -> BOOLEAN]
  BY DEF TypeOK
<1>4. PICK b \in BOOLEAN : b = q
  BY <1>1
<1>5. /\ calm' \in [Device -> BOOLEAN] /\ calm'[d] = q
      /\ \A x \in Device : x # d => calm'[x] = calm[x]
  <2>1. calm' = [calm EXCEPT ![d] = b]
    BY <1>2, <1>4
  <2>2. QED BY <2>1, <1>3, <1>4, Update
<1>6. deleted' \in BOOLEAN
  BY DEF Changes, TypeOK
<1>7. latest' \in [File -> Content]
  BY DEF Changes, TypeOK
<1>8. changes' \in 0 .. Len(scenario.script)
  <2>1. scenario.script \in Seq([kind : Change, at : Device, file : File])
    BY ClientSyncAssumption DEF TypeOK
  <2>2. Len(scenario.script) \in Nat
    BY <2>1, LenProperties
  <2>3. QED BY <2>2 DEF Changes, Makes, TypeOK
<1>9. QED BY <1>5, <1>6, <1>7, <1>8 DEF Changes, Makes

LEMMA NewVersions ==
    ASSUME TypeOK
    PROVE  NewVersion \in Content /\ Whole(NewVersion)
<1>1. scenario.script \in Seq([kind : Change, at : Device, file : File])
  BY ClientSyncAssumption DEF TypeOK
<1>2. Len(scenario.script) \in Nat
  BY <1>1, LenProperties
<1>3. changes \in Nat
  BY <1>2 DEF TypeOK
<1>4. QED BY <1>3 DEF NewVersion, Content, Whole

LEMMA LostTyped ==
    ASSUME TypeOK, NEW f \in File
    PROVE  /\ \A b \in BOOLEAN : LostIf(b, f) => lost' \subseteq File
           /\ \A mailbox, d, S : S \subseteq File /\ DroppedFrom(mailbox, d, S) => lost' \subseteq File
BY DEF TypeOK, LostIf, DroppedFrom

LEMMA InitTyped == Init => TypeOK
<1> SUFFICES ASSUME Init PROVE TypeOK
  OBVIOUS
<1>1. scenario.script \in Seq([kind : Change, at : Device, file : File])
  BY ClientSyncAssumption DEF Init
<1>2. changes \in 0 .. Len(scenario.script)
  BY <1>1, LenProperties DEF Init
<1>3. files \in [File -> Content]
  BY Contents DEF Init
<1>4. dir \in [Device -> [File -> Content]]
  BY <1>3, Contents DEF Init
<1>5. [type |-> "SYNC_DIR_REQ", file |-> NoName, data |-> Absent, last |-> FALSE] \in Upstream
  BY Contents DEF Upstream
<1>6. typed \in [Device -> Upstream \cup {None}]
  BY <1>5 DEF Init
<1>7. \A S : [d \in Device |-> << >>] \in [Device -> Seq(S)]
  BY EmptySeq
<1>8. /\ events \in [Device -> Seq(Event)] /\ batch \in [Device -> Seq(Event)]
      /\ listing \in [Device -> Seq(File)]
      /\ toServer \in [Device -> Seq(Upstream)] /\ toClient \in [Device -> Seq(Downstream)]
      /\ handler \in [Device -> Seq([to : Device, packet : Downstream])]
  BY <1>7 DEF Init
<1>9. /\ watcher \in [Device -> {"read", "event", "clear"}]
      /\ \A d \in Device : watcher[d] = "event" <=> batch[d] # << >>
      /\ listener \in [Device -> {"read", "apply", "write", "upload"}]
      /\ watched \in [Device -> Upstream \cup {None}]
      /\ received \in [Device -> Downstream \cup {None}]
      /\ \A d \in Device : received[d] # None <=> listener[d] # "read"
  BY DEF Init
<1>10. open \in [Device -> [{"user", "listener"} -> Opened \cup {None}]]
  BY DEF Init
<1>11. /\ ignore \in [Device -> BOOLEAN] /\ stale \in [Device -> BOOLEAN]
       /\ calm \in [Device -> BOOLEAN] /\ deleted \in BOOLEAN /\ lost \subseteq File
       /\ watching \in [Device -> BOOLEAN]
  BY DEF Init
<1>12. echoes \in 0 .. MaxEchoes
  BY ClientSyncAssumption DEF Init
<1>13. QED BY <1>2, <1>3, <1>4, <1>6, <1>8, <1>9, <1>10, <1>11, <1>12 DEF TypeOK, Init

LEMMA MovesInTyped ==
    ASSUME TypeOK, NEW d \in Device, NEW f \in File, MovesIn(d, f)
    PROVE  TypeOK'
<1>1. /\ Changes("move in", d, f, NewVersion) /\ NewVersion \in Content
  BY NewVersions DEF MovesIn
<1>2. /\ scenario' = scenario /\ changes' \in 0 .. Len(scenario.script)
      /\ latest' \in [File -> Content] /\ deleted' \in BOOLEAN /\ UNCHANGED <<echoes, stale>>
      /\ calm' \in [Device -> BOOLEAN]
  BY <1>1, ChangesKeeps
<1>3. dir' \in [Device -> [File -> Content]]
  BY <1>1 DEF MovesIn, TypeOK
<1>4. open' \in [Device -> [Who -> Opened \cup {None}]]
  BY LocallyTyped, UnlinkedKeeps DEF MovesIn
<1>5. events' \in [Device -> Seq(Event)] /\ UNCHANGED watching
  BY LocallyTyped, NotifyAdds, ZenonT(30) DEF MovesIn
<1>6. lost' \subseteq File
  BY DEF MovesIn, LostIf, TypeOK
<1>7. QED BY <1>2, <1>3, <1>4, <1>5, <1>6
          DEF TypeOK, MovesIn, Unaware, watcherVars, listenerVars, serverVars, Who

LEMMA BeginsSaveTyped ==
    ASSUME TypeOK, NEW d \in Device, NEW f \in File, BeginsSave(d, f)
    PROVE  TypeOK'
<1>1. /\ Changes("save", d, f, NewVersion) /\ NewVersion \in Content
  BY NewVersions DEF BeginsSave
<1>2. /\ scenario' = scenario /\ changes' \in 0 .. Len(scenario.script)
      /\ latest' \in [File -> Content] /\ deleted' \in BOOLEAN /\ UNCHANGED <<echoes, stale>>
      /\ calm' \in [Device -> BOOLEAN]
  BY <1>1, ChangesKeeps
<1>3. Opens(d, "user", f, NewVersion, "user") /\ "user" \in Who
  BY WhoIs DEF BeginsSave
<1>4. LocalTypes'
  BY <1>1, <1>3, LocallyTyped, OpensKeeps, ZenonT(30) DEF Local
<1>5. lost' \subseteq File
  BY DEF BeginsSave, LostIf, TypeOK
<1>6. QED BY <1>2, <1>4, <1>5
          DEF TypeOK, LocalTypes, BeginsSave, Unaware, watcherVars, listenerVars, serverVars, Who

LEMMA EndsSaveTyped ==
    ASSUME TypeOK, NEW d \in Device, EndsSave(d)
    PROVE  TypeOK'
<1>1. Writes(d, "user") /\ "user" \in Who
  BY WhoIs DEF EndsSave
<1>2. LocalTypes'
  BY <1>1, LocallyTyped, WritesKeeps
<1>3. QED BY <1>2
          DEF TypeOK, LocalTypes, EndsSave, Unaware, watcherVars, listenerVars, serverVars, Who,
              userVars, history, outcomes

LEMMA BeginsWatchingTyped ==
    ASSUME TypeOK, NEW d \in Device, BeginsWatching(d)
    PROVE  TypeOK'
<1>1. watching' \in [Device -> BOOLEAN]
  BY DEF BeginsWatching, TypeOK
<1>2. QED BY <1>1
          DEF TypeOK, BeginsWatching, Unaware, watcherVars, listenerVars, serverVars, userVars,
              history, outcomes

LEMMA RemovesTyped ==
    ASSUME TypeOK, NEW d \in Device, NEW f \in File, Removes(d, f)
    PROVE  TypeOK'
<1>1. Changes("remove", d, f, Absent)
  BY DEF Removes
<1>2. /\ scenario' = scenario /\ changes' \in 0 .. Len(scenario.script)
      /\ latest' \in [File -> Content] /\ deleted' \in BOOLEAN /\ UNCHANGED <<echoes, stale>>
      /\ calm' \in [Device -> BOOLEAN]
  BY <1>1, Contents, ChangesKeeps
<1>3. LocalTypes'
  <2>1. Removed(d, f, "user") /\ f \in File \cup {NoName}
    BY DEF Removes
  <2>2. QED BY <2>1, LocallyTyped, RemovedKeeps, ZenonT(30) DEF Local
<1>4. lost' \subseteq File
  BY DEF Removes, LostIf, TypeOK
<1>5. QED BY <1>2, <1>3, <1>4
          DEF TypeOK, LocalTypes, Removes, Unaware, watcherVars, listenerVars, serverVars, Who

LEMMA TypesTyped ==
    ASSUME TypeOK, NEW d \in Device, NEW p \in Upstream, Types(d, p)
    PROVE  typed' \in [Device -> Upstream \cup {None}]
BY DEF TypeOK, Types

LEMMA UploadsTyped ==
    ASSUME TypeOK, NEW d \in Device, NEW f \in File, Uploads(d, f)
    PROVE  TypeOK'
<1>1. /\ Changes("upload", d, f, NewVersion) /\ NewVersion \in Content
  BY NewVersions DEF Uploads
<1>2. /\ scenario' = scenario /\ changes' \in 0 .. Len(scenario.script)
      /\ latest' \in [File -> Content] /\ deleted' \in BOOLEAN /\ UNCHANGED <<echoes, stale>>
      /\ calm' \in [Device -> BOOLEAN]
  BY <1>1, ChangesKeeps
<1>3. typed' \in [Device -> Upstream \cup {None}]
  BY <1>1, Requests, TypesTyped DEF Uploads
<1>4. lost' \subseteq File
  BY DEF Uploads, DroppedFrom, TypeOK
<1>5. QED BY <1>2, <1>3, <1>4
          DEF TypeOK, Uploads, Unaware, watcherVars, listenerVars, serverVars, localVars

LEMMA DeletesTyped ==
    ASSUME TypeOK, NEW d \in Device, NEW f \in File, Deletes(d, f)
    PROVE  TypeOK'
<1>1. \E kind : Changes(kind, d, f, Absent)
  BY DEF Deletes
<1>2. /\ scenario' = scenario /\ changes' \in 0 .. Len(scenario.script)
      /\ latest' \in [File -> Content] /\ deleted' \in BOOLEAN /\ UNCHANGED <<echoes, stale>>
      /\ calm' \in [Device -> BOOLEAN]
  BY <1>1, Contents, ChangesKeeps
<1>3. LocalTypes'
  <2>1. CASE Removed(d, f, "user")
    <3>1. f \in File \cup {NoName}
      OBVIOUS
    <3>2. QED BY <2>1, <3>1, LocallyTyped, RemovedKeeps, ZenonT(30) DEF Local
  <2>2. CASE UNCHANGED localVars
    BY <2>2, LocallyTyped DEF LocalTypes, localVars
  <2>3. QED BY <2>1, <2>2 DEF Deletes
<1>4. typed' \in [Device -> Upstream \cup {None}]
  BY Contents, Requests, TypesTyped DEF Deletes
<1>5. lost' \subseteq File
  BY DEF Deletes, DroppedFrom, TypeOK
<1>6. QED BY <1>2, <1>3, <1>4, <1>5
          DEF TypeOK, LocalTypes, Deletes, Unaware, watcherVars, listenerVars, serverVars, Who

LEMMA GetsSyncDirTyped ==
    ASSUME TypeOK, NEW d \in Device, NEW f \in File, GetsSyncDir(d, f)
    PROVE  TypeOK'
<1>1. scenario' = scenario /\ changes' \in 0 .. Len(scenario.script)
  <2>1. scenario.script \in Seq([kind : Change, at : Device, file : File])
    BY ClientSyncAssumption DEF TypeOK
  <2>2. Len(scenario.script) \in Nat
    BY <2>1, LenProperties
  <2>3. QED BY <2>2 DEF GetsSyncDir, Makes, TypeOK
<1>2. typed' \in [Device -> Upstream \cup {None}]
  BY Contents, Requests, TypesTyped DEF GetsSyncDir
<1>3. lost' \subseteq File
  BY DEF GetsSyncDir, DroppedFrom, TypeOK
<1>4. QED BY <1>1, <1>2, <1>3
          DEF TypeOK, GetsSyncDir, Unaware, watcherVars, listenerVars, serverVars, localVars

LEMMA ReadsEventsTyped ==
    ASSUME TypeOK, NEW d \in Device, ReadsEvents(d)
    PROVE  TypeOK'
<1>1. /\ batch' \in [Device -> Seq(Event)] /\ events' \in [Device -> Seq(Event)]
      /\ watcher' \in [Device -> {"read", "event", "clear"}]
  BY EmptySeq DEF ReadsEvents, TypeOK
<1>2. \A x \in Device : watcher'[x] = "event" <=> batch'[x] # << >>
  BY DEF ReadsEvents, TypeOK
<1>3. QED BY <1>1, <1>2
          DEF TypeOK, ReadsEvents, mailboxes, listenerVars, remoteVars, serverVars, userVars,
              history, outcomes

\* What the watcher makes of an event.
LEMMA MessageTyped ==
    ASSUME TypeOK, NEW d \in Device, NEW e \in Event
    PROVE  /\ e.file \in File /\ e.kind \in {"CREATE", "MOVED_TO", "MODIFY", "DELETE"}
           /\ MessageOf(d, e) # None => MessageOf(d, e) \in Upstream /\ MessageOf(d, e).file = e.file
           /\ MessageOf(d, e) # None <=> Reports(e)
           /\ e.kind = "DELETE" => MessageOf(d, e) = Request("DELETE_REQ", e.file, Absent)
           /\ e.kind \in {"CREATE", "MOVED_TO"} =>
                 MessageOf(d, e) = Request("UPLOAD_REQ", e.file,
                                           IF dir[d][e.file] = Absent THEN Mixed ELSE dir[d][e.file])
<1>1. e.file \in File /\ e.kind \in {"CREATE", "MOVED_TO", "MODIFY", "DELETE"}
  BY DEF Event
<1>2. dir[d][e.file] \in Content
  BY <1>1 DEF TypeOK
<1>3. CASE e.kind = "DELETE"
  <2>1. MessageOf(d, e) = Request("DELETE_REQ", e.file, Absent)
    BY <1>3 DEF MessageOf
  <2>2. Request("DELETE_REQ", e.file, Absent) \in Upstream
    BY <1>1, Contents, Requests
  <2>3. MessageOf(d, e) # None /\ MessageOf(d, e) \in Upstream
    BY <2>1, <2>2, Packets
  <2>4. MessageOf(d, e).file = e.file
    BY <2>1 DEF Request
  <2>5. QED BY <1>1, <1>3, <2>1, <2>3, <2>4 DEF Reports
<1>4. CASE e.kind \in {"CREATE", "MOVED_TO"}
  <2>1. PICK c : c = IF dir[d][e.file] = Absent THEN Mixed ELSE dir[d][e.file]
    OBVIOUS
  <2>2. MessageOf(d, e) = Request("UPLOAD_REQ", e.file, c)
    BY <1>4, <2>1 DEF MessageOf
  <2>3. c \in Content
    BY <1>2, <2>1, Contents
  <2>4. Request("UPLOAD_REQ", e.file, c) \in Upstream
    BY <1>1, <2>3, Requests
  <2>5. MessageOf(d, e) # None /\ MessageOf(d, e) \in Upstream
    BY <2>2, <2>4, Packets
  <2>6. MessageOf(d, e).file = e.file
    BY <2>2 DEF Request
  <2>7. QED BY <1>1, <1>4, <2>1, <2>2, <2>5, <2>6 DEF Reports
<1>5. CASE e.kind = "MODIFY"
  BY <1>1, <1>5 DEF MessageOf, Reports
<1>6. QED BY <1>1, <1>3, <1>4, <1>5

LEMMA BatchHead ==
    ASSUME TypeOK, NEW d \in Device, watcher[d] = "event"
    PROVE  /\ Head(batch[d]) \in Event /\ Tail(batch[d]) \in Seq(Event)
           /\ Range(batch[d]) = {Head(batch[d])} \cup Range(Tail(batch[d]))
           /\ Len(batch[d]) = 1 <=> Tail(batch[d]) = << >>
<1>1. batch[d] \in Seq(Event) /\ batch[d] # << >>
  BY DEF TypeOK
<1>2. /\ Head(batch[d]) \in Event /\ Tail(batch[d]) \in Seq(Event)
      /\ Range(batch[d]) = {Head(batch[d])} \cup Range(Tail(batch[d]))
  BY <1>1, RangeHeadTail
<1>3. Len(Tail(batch[d])) = Len(batch[d]) - 1 /\ Len(batch[d]) \in Nat
  BY <1>1, HeadTailProperties, LenProperties
<1>4. Len(Tail(batch[d])) = 0 <=> Tail(batch[d]) = << >>
  BY <1>2, EmptySeq
<1>5. QED BY <1>2, <1>3, <1>4

LEMMA HandlesEventTyped ==
    ASSUME TypeOK, NEW d \in Device, HandlesEvent(d)
    PROVE  TypeOK'
<1>1. PICK e : e = Head(batch[d])
  OBVIOUS
<1>2. PICK p : p = MessageOf(d, e)
  OBVIOUS
<1>3. watcher[d] = "event" /\ e \in Event
  BY <1>1, BatchHead DEF HandlesEvent
<1>4. p \in Upstream \cup {None} /\ e.file \in File
  BY <1>2, <1>3, MessageTyped
<1>5. watched' = watched \/ (watched' = [watched EXCEPT ![d] = p])
  BY <1>1, <1>2 DEF HandlesEvent
<1>6. watched' \in [Device -> Upstream \cup {None}]
  BY <1>4, <1>5 DEF TypeOK
<1>7. lost' \subseteq File
  BY <1>1, <1>2, <1>4 DEF HandlesEvent, DroppedFrom, LostIf, TypeOK
<1>8. echoes' \in 0 .. MaxEchoes
  <2>1. \/ echoes' = echoes
        \/ echoes < MaxEchoes /\ echoes' = echoes + 1
    BY DEF HandlesEvent
  <2>2. QED BY <2>1, ClientSyncAssumption DEF TypeOK
<1>9. /\ batch' \in [Device -> Seq(Event)]
      /\ watcher' \in [Device -> {"read", "event", "clear"}]
      /\ \A x \in Device : watcher'[x] = "event" <=> batch'[x] # << >>
  <2>1. /\ batch' = [batch EXCEPT ![d] = Tail(batch[d])]
        /\ watcher' = [watcher EXCEPT ![d] = IF Len(batch[d]) = 1 THEN "clear" ELSE "event"]
    BY DEF HandlesEvent
  <2>2. QED BY <1>3, <2>1, BatchHead DEF TypeOK
<1>10. QED BY <1>6, <1>7, <1>8, <1>9
          DEF TypeOK, HandlesEvent, localVars, listenerVars, remoteVars, serverVars, userVars

LEMMA ClearsFlagTyped ==
    ASSUME TypeOK, NEW d \in Device, ClearsFlag(d)
    PROVE  TypeOK'
BY DEF TypeOK, ClearsFlag, localVars, mailboxes, listenerVars, remoteVars, serverVars, userVars,
       outcomes

\* A packet goes into the connection.
LEMMA SendsAdds ==
    ASSUME TypeOK, NEW d \in Device, NEW p \in Upstream, Sends(d, p)
    PROVE  /\ toServer' \in [Device -> Seq(Upstream)]
           /\ \A x \in Device : x # d => toServer'[x] = toServer[x]
           /\ Range(toServer'[d]) = Range(toServer[d]) \cup {p}
<1>1. toServer[d] \in Seq(Upstream)
  BY DEF TypeOK
<1>2. toServer' = [toServer EXCEPT ![d] = Append(toServer[d], p)]
  BY DEF Sends
<1>3. /\ Append(toServer[d], p) \in Seq(Upstream)
      /\ Range(Append(toServer[d], p)) = Range(toServer[d]) \cup {p}
  BY <1>1, RangeAppend
<1>4. QED BY <1>2, <1>3 DEF TypeOK

LEMMA SendsTypedTyped ==
    ASSUME TypeOK, NEW d \in Device, SendsTyped(d)
    PROVE  TypeOK'
<1>1. typed[d] \in Upstream /\ Sends(d, typed[d])
  BY DEF SendsTyped, TypeOK
<1>2. toServer' \in [Device -> Seq(Upstream)]
  BY <1>1, SendsAdds
<1>3. typed' \in [Device -> Upstream \cup {None}]
  BY DEF SendsTyped, TypeOK
<1>4. QED BY <1>2, <1>3
          DEF TypeOK, SendsTyped, localVars, watcherVars, listenerVars, serverVars, userVars,
              history, outcomes

LEMMA SendsWatchedTyped ==
    ASSUME TypeOK, NEW d \in Device, SendsWatched(d)
    PROVE  TypeOK'
<1>1. watched[d] \in Upstream /\ Sends(d, watched[d])
  BY DEF SendsWatched, TypeOK
<1>2. toServer' \in [Device -> Seq(Upstream)]
  BY <1>1, SendsAdds
<1>3. watched' \in [Device -> Upstream \cup {None}]
  BY DEF SendsWatched, TypeOK
<1>4. QED BY <1>2, <1>3
          DEF TypeOK, SendsWatched, localVars, watcherVars, listenerVars, serverVars, userVars,
              history, outcomes

\* A packet is read from the connection.
LEMMA ReceivesKeeps ==
    ASSUME TypeOK, NEW d \in Device, Receives(d)
    PROVE  /\ listener[d] = "read" /\ received[d] = None
           /\ received'[d] \in Downstream /\ received'[d] = Head(toClient[d])
           /\ received' \in [Device -> Downstream \cup {None}]
           /\ toClient' \in [Device -> Seq(Downstream)]
           /\ Range(toClient[d]) = {received'[d]} \cup Range(toClient'[d])
           /\ listener' = [listener EXCEPT ![d] = "apply"]
           /\ \A x \in Device : x # d => received'[x] = received[x] /\ toClient'[x] = toClient[x]
           /\ ignore' \in [Device -> BOOLEAN] /\ calm' \in [Device -> BOOLEAN]
           /\ \A x \in Device : x # d => ignore'[x] = ignore[x] /\ calm'[x] = calm[x]
           /\ calm'[d] => calm[d]
           /\ IF Ignores(received'[d])
              THEN ignore'[d] /\ (calm'[d] => WatcherIsQuiet(d) /\ open[d]["user"] = None)
              ELSE UNCHANGED <<ignore, calm>>
<1>1. toClient[d] \in Seq(Downstream) /\ toClient[d] # << >> /\ listener[d] = "read"
  BY DEF Receives, TypeOK
<1>2. PICK p : p = Head(toClient[d])
  OBVIOUS
<1>3. PICK q : q = Tail(toClient[d])
  OBVIOUS
<1>4. p \in Downstream /\ q \in Seq(Downstream) /\ Range(toClient[d]) = {p} \cup Range(q)
  BY <1>1, <1>2, <1>3, RangeHeadTail
<1>5. /\ received' = [received EXCEPT ![d] = p]
      /\ toClient' = [toClient EXCEPT ![d] = q]
      /\ listener' = [listener EXCEPT ![d] = "apply"]
  BY <1>2, <1>3 DEF Receives
<1>6. CASE ~Ignores(p)
  <2>1. UNCHANGED <<ignore, calm>>
    BY <1>2, <1>6 DEF Receives
  <2>2. QED BY <1>1, <1>2, <1>4, <1>5, <1>6, <2>1 DEF TypeOK
<1>7. CASE Ignores(p)
  <2>1. PICK b \in BOOLEAN : b = (calm[d] /\ WatcherIsQuiet(d) /\ open[d]["user"] = None)
    OBVIOUS
  <2>2. /\ ignore' = [ignore EXCEPT ![d] = TRUE]
        /\ calm' = [calm EXCEPT ![d] = calm[d] /\ WatcherIsQuiet(d) /\ open[d]["user"] = None]
    BY <1>2, <1>7 DEF Receives
  <2>3. calm' = [calm EXCEPT ![d] = b]
    BY <2>1, <2>2
  <2>4. calm \in [Device -> BOOLEAN] /\ ignore \in [Device -> BOOLEAN]
    BY DEF TypeOK
  <2>5. /\ calm' \in [Device -> BOOLEAN] /\ calm'[d] = b
        /\ \A x \in Device : x # d => calm'[x] = calm[x]
    BY <2>3, <2>4, Update
  <2>6. /\ ignore' \in [Device -> BOOLEAN] /\ ignore'[d] = TRUE
        /\ \A x \in Device : x # d => ignore'[x] = ignore[x]
    BY <2>2, <2>4
  <2>7. calm'[d] => calm[d] /\ WatcherIsQuiet(d) /\ open[d]["user"] = None
    BY <2>1, <2>5
  <2>8. QED BY <1>1, <1>2, <1>4, <1>5, <1>7, <2>5, <2>6, <2>7 DEF TypeOK
<1>8. QED BY <1>6, <1>7

LEMMA ReceivesTyped ==
    ASSUME TypeOK, NEW d \in Device, Receives(d)
    PROVE  TypeOK'
<1>1. \A x \in Device : received'[x] # None <=> listener'[x] # "read"
  <2>1. /\ received'[d] \in Downstream /\ listener' = [listener EXCEPT ![d] = "apply"]
        /\ \A x \in Device : x # d => received'[x] = received[x]
    BY ReceivesKeeps
  <2>2. received'[d] # None
    BY <2>1, Packets
  <2>3. QED BY <2>1, <2>2 DEF TypeOK
<1>2. listener' \in [Device -> {"read", "apply", "write", "upload"}]
  BY DEF Receives, TypeOK
<1>3. QED BY <1>1, <1>2, ReceivesKeeps
          DEF TypeOK, Receives, localVars, watcherVars, mailboxes, serverVars, userVars, outcomes

\* The packet that is being handled.
LEMMA Received ==
    ASSUME TypeOK, NEW d \in Device, listener[d] # "read"
    PROVE  /\ received[d] \in Downstream
           /\ received[d].type \notin {"DELETE_BROADCAST", "DELETE_ACCEPT_RESP"} =>
                 received[d].file \in File /\ Ignores(received[d])
           /\ received[d].file \in File \cup {NoName} /\ received[d].data \in Content
BY Packets DEF TypeOK, Ignores

LEMMA StaleTyped ==
    ASSUME TypeOK, NEW d \in Device, FlagIsStale(d)
    PROVE  /\ stale' \in [Device -> BOOLEAN]
           /\ \A x \in Device : x # d => stale'[x] = stale[x]
           /\ stale'[d] <=> ignore[d] /\ events'[d] = << >> /\ watcher[d] = "read"
<1>1. PICK b \in BOOLEAN : b = (ignore[d] /\ events'[d] = << >> /\ watcher[d] = "read")
  OBVIOUS
<1>2. stale' = [stale EXCEPT ![d] = b]
  BY <1>1 DEF FlagIsStale
<1>3. stale \in [Device -> BOOLEAN]
  BY DEF TypeOK
<1>4. QED BY <1>1, <1>2, <1>3, Update, ZenonT(30)

LEMMA DoneTyped ==
    ASSUME TypeOK, NEW d \in Device, Done(d)
    PROVE  /\ listener' = [listener EXCEPT ![d] = "read"]
           /\ listener' \in [Device -> {"read", "apply", "write", "upload"}]
           /\ received' \in [Device -> Downstream \cup {None}]
           /\ received'[d] = None /\ \A x \in Device : x # d => received'[x] = received[x]
           /\ \A x \in Device : received'[x] # None <=> listener'[x] # "read"
BY DEF Done, TypeOK

\* Applies does one of two things.
Erased(d) ==
    /\ received[d].type \in {"DELETE_BROADCAST", "DELETE_ACCEPT_RESP"}
    /\ Removed(d, received[d].file,
               IF received[d].type = "DELETE_BROADCAST" THEN "listener" ELSE "unflagged")
    /\ Done(d)

Begun(d) ==
    /\ received[d].type \in {"UPLOAD_BROADCAST", "SYNC_DIR_ACCEPT_RESP"}
    /\ Opens(d, "listener", received[d].file, received[d].data, "listener")
    /\ listener' = [listener EXCEPT ![d] = "write"]
    /\ UNCHANGED received

LEMMA AppliesEither ==
    ASSUME TypeOK, NEW d \in Device, Applies(d)
    PROVE  (Erased(d) \/ Begun(d)) /\ listener[d] = "apply"
<1>1. listener[d] = "apply" /\ received[d] \in Downstream
  BY Received DEF Applies
<1>2. QED BY <1>1, Packets DEF Applies, Erased, Begun

LEMMA AppliesTyped ==
    ASSUME TypeOK, NEW d \in Device, Applies(d)
    PROVE  TypeOK'
<1>1. listener[d] = "apply" /\ (Erased(d) \/ Begun(d))
  BY AppliesEither
<1>2. stale' \in [Device -> BOOLEAN]
  BY StaleTyped DEF Applies, TypeOK
<1>3. CASE Erased(d)
  <2>1. PICK by : by = IF received[d].type = "DELETE_BROADCAST" THEN "listener" ELSE "unflagged"
    OBVIOUS
  <2>2. by \in {"user", "listener", "unflagged"} /\ Removed(d, received[d].file, by)
    BY <1>3, <2>1 DEF Erased
  <2>3. received[d].file \in File \cup {NoName}
    BY <1>1, Received
  <2>4. LocalTypes'
    BY <2>2, <2>3, LocallyTyped, RemovedKeeps DEF Local
  <2>5. Done(d)
    BY <1>3 DEF Erased
  <2>6. QED BY <1>2, <2>4, <2>5, DoneTyped
            DEF TypeOK, LocalTypes, Who, Applies, watcherVars, mailboxes, remoteVars, serverVars,
                userVars, outcomes
<1>4. CASE Begun(d)
  <2>1. received[d].file \in File /\ received[d].data \in Content /\ received[d] # None
    BY <1>1, <1>4, Received, Packets DEF Begun
  <2>2. LocalTypes'
    BY <1>4, <2>1, WhoIs, LocallyTyped, OpensKeeps, ZenonT(30) DEF Begun, Local
  <2>3. /\ listener' \in [Device -> {"read", "apply", "write", "upload"}]
        /\ received' = received
        /\ \A x \in Device : received'[x] # None <=> listener'[x] # "read"
    BY <1>4, <2>1 DEF Begun, TypeOK
  <2>4. QED BY <1>2, <2>2, <2>3
            DEF TypeOK, LocalTypes, Who, Applies, watcherVars, mailboxes, remoteVars, serverVars,
                userVars, outcomes
<1>5. QED BY <1>1, <1>3, <1>4

\* list_directory names the files that are there.
LEMMA ListedFiles ==
    ASSUME NEW tab
    PROVE  /\ Listed(tab) \in Seq(File)
           /\ Range(Listed(tab)) = {f \in File : tab[f] # Absent}
<1> DEFINE S == {f \in File : tab[f] # Absent}
<1>1. S \in SUBSET File /\ IsFiniteSet(File)
  BY ClientSyncAssumption
<1>2. IsFiniteSet(S)
  BY <1>1, FS_Subset
<1>3. SetToSeq(S) \in Seq(S) /\ Range(SetToSeq(S)) = S
  BY <1>2, Enumerated
<1>4. SetToSeq(S) \in Seq(File)
  BY <1>1, <1>3, SeqMonotonic
<1>5. QED BY <1>3, <1>4 DEF Listed

LEMMA WritesReceivedTyped ==
    ASSUME TypeOK, NEW d \in Device, WritesReceived(d)
    PROVE  TypeOK'
<1>1. Writes(d, "listener") /\ "listener" \in Who /\ listener[d] = "write"
  BY WhoIs DEF WritesReceived
<1>2. LocalTypes'
  BY <1>1, LocallyTyped, WritesKeeps
<1>3. stale' \in [Device -> BOOLEAN]
  BY StaleTyped DEF WritesReceived
<1>4. CASE received[d].last
  <2>1. /\ listing' = [listing EXCEPT ![d] = Listed(dir'[d])]
        /\ listener' = [listener EXCEPT ![d] = "upload"] /\ received' = received
    BY <1>4 DEF WritesReceived
  <2>2. Listed(dir'[d]) \in Seq(File)
    BY ListedFiles
  <2>3. listing' \in [Device -> Seq(File)]
    BY <2>1, <2>2 DEF TypeOK
  <2>4. /\ listener' \in [Device -> {"read", "apply", "write", "upload"}]
        /\ \A x \in Device : received'[x] # None <=> listener'[x] # "read"
    BY <1>1, <2>1 DEF TypeOK
  <2>5. QED BY <1>2, <1>3, <2>1, <2>3, <2>4
            DEF TypeOK, LocalTypes, Who, WritesReceived, watcherVars, mailboxes, remoteVars,
                serverVars, userVars, outcomes
<1>5. CASE ~received[d].last
  <2>1. Done(d) /\ listing' = listing
    BY <1>5 DEF WritesReceived
  <2>2. QED BY <1>2, <1>3, <2>1, DoneTyped
            DEF TypeOK, LocalTypes, Who, WritesReceived, watcherVars, mailboxes, remoteVars,
                serverVars, userVars, outcomes
<1>6. QED BY <1>4, <1>5

\* The next file of the listing is sent, or the listener is done.
Relisted(d, f) ==
    /\ f \in File /\ listing[d] # << >> /\ f = Head(listing[d])
    /\ Range(listing[d]) = {f} \cup Range(listing'[d])
    /\ Sends(d, Request("UPLOAD_REQ", f, IF dir[d][f] = Absent THEN Mixed ELSE dir[d][f]))
    /\ LostIf(~Whole(IF dir[d][f] = Absent THEN Mixed ELSE dir[d][f]), f)
    /\ listing' \in [Device -> Seq(File)]
    /\ \A x \in Device : x # d => listing'[x] = listing[x]
    /\ UNCHANGED <<listener, received>>

LEMMA UploadsListedEither ==
    ASSUME TypeOK, NEW d \in Device, UploadsListed(d)
    PROVE  \/ listing[d] = << >> /\ Done(d) /\ UNCHANGED <<listing, toServer, lost>>
           \/ \E f \in File : Relisted(d, f)
<1>1. CASE listing[d] = << >>
  BY <1>1 DEF UploadsListed
<1>2. CASE listing[d] # << >>
  <2>1. listing[d] \in Seq(File)
    BY DEF TypeOK
  <2>2. PICK f : f = Head(listing[d])
    OBVIOUS
  <2>3. PICK q : q = Tail(listing[d])
    OBVIOUS
  <2>4. f \in File /\ q \in Seq(File) /\ Range(listing[d]) = {f} \cup Range(q)
    BY <1>2, <2>1, <2>2, <2>3, RangeHeadTail
  <2>5. /\ Sends(d, Request("UPLOAD_REQ", f, IF dir[d][f] = Absent THEN Mixed ELSE dir[d][f]))
        /\ LostIf(~Whole(IF dir[d][f] = Absent THEN Mixed ELSE dir[d][f]), f)
        /\ listing' = [listing EXCEPT ![d] = q]
        /\ UNCHANGED <<listener, received>>
    BY <1>2, <2>2, <2>3 DEF UploadsListed
  <2>6. /\ listing' \in [Device -> Seq(File)] /\ listing'[d] = q
        /\ \A x \in Device : x # d => listing'[x] = listing[x]
    BY <2>4, <2>5 DEF TypeOK
  <2>7. Relisted(d, f)
    BY <1>2, <2>2, <2>4, <2>5, <2>6 DEF Relisted
  <2>8. QED BY <2>4, <2>7
<1>3. QED BY <1>1, <1>2

LEMMA UploadsListedTyped ==
    ASSUME TypeOK, NEW d \in Device, UploadsListed(d)
    PROVE  TypeOK'
<1>1. CASE Done(d) /\ UNCHANGED <<listing, toServer, lost>>
  BY <1>1, DoneTyped
     DEF TypeOK, UploadsListed, localVars, watcherVars, mailboxes, serverVars, userVars
<1>2. ASSUME NEW f \in File, Relisted(d, f) PROVE TypeOK'
  <2>1. PICK c : c = IF dir[d][f] = Absent THEN Mixed ELSE dir[d][f]
    OBVIOUS
  <2>2. c \in Content
    BY <2>1, Contents DEF TypeOK
  <2>3. Request("UPLOAD_REQ", f, c) \in Upstream /\ Sends(d, Request("UPLOAD_REQ", f, c))
    BY <1>2, <2>1, <2>2, Requests DEF Relisted
  <2>4. toServer' \in [Device -> Seq(Upstream)]
    BY <2>3, SendsAdds
  <2>5. lost' \subseteq File
    BY <1>2 DEF Relisted, LostIf, TypeOK
  <2>6. QED BY <1>2, <2>4, <2>5
            DEF Relisted, TypeOK, UploadsListed, localVars, watcherVars, mailboxes, serverVars, userVars
<1>3. QED BY <1>1, <1>2, UploadsListedEither

-----------------------------------------------------------------------------
(* The server's steps.                                                     *)

Handled == [to : Device, packet : Downstream]

\* A broadcast is one packet for each of those it goes to.
LEMMA Broadcasts ==
    ASSUME NEW S \in SUBSET Device, NEW type, NEW f, NEW c, Request(type, f, c) \in Downstream
    PROVE  /\ Broadcast(type, f, c, SetToSeq(S)) \in Seq(Handled)
           /\ \A h \in Range(Broadcast(type, f, c, SetToSeq(S))) :
                 h.to \in S /\ h.packet = Request(type, f, c)
           /\ \A x \in S : \E h \in Range(Broadcast(type, f, c, SetToSeq(S))) :
                 h.to = x /\ h.packet = Request(type, f, c)
<1>1. IsFiniteSet(S)
  BY ClientSyncAssumption, FS_Subset
<1>2. SetToSeq(S) \in Seq(S) /\ Range(SetToSeq(S)) = S
  BY <1>1, Enumerated
<1>3. PICK to : to = SetToSeq(S)
  OBVIOUS
<1>4. PICK p : p = Request(type, f, c)
  OBVIOUS
<1>5. /\ to \in Seq(S) /\ DOMAIN to = 1 .. Len(to) /\ Len(to) \in Nat
      /\ \A k \in 1 .. Len(to) : to[k] \in S
  BY <1>2, <1>3, LenProperties, ElementOfSeq
<1>6. PICK b : b = [k \in 1 .. Len(to) |-> [to |-> to[k], packet |-> p]]
  OBVIOUS
<1>7. b = Broadcast(type, f, c, SetToSeq(S))
  BY <1>3, <1>4, <1>5, <1>6 DEF Broadcast
<1>8. \A k \in 1 .. Len(to) : [to |-> to[k], packet |-> p] \in Handled
  BY <1>4, <1>5 DEF Handled
<1>9. b \in [1 .. Len(to) -> Handled]
  BY <1>6, <1>8
<1>10. b \in Seq(Handled)
  BY <1>5, <1>9, SeqDef
<1>11. Range(b) = {[to |-> to[k], packet |-> p] : k \in 1 .. Len(to)}
  BY <1>6 DEF Range
<1>12. Range(to) = S /\ Range(to) = {to[k] : k \in 1 .. Len(to)}
  BY <1>2, <1>3, <1>5 DEF Range
<1>13. \A h \in Range(b) : h.to \in S /\ h.packet = p
  BY <1>5, <1>11
<1>14. \A x \in S : \E h \in Range(b) : h.to = x /\ h.packet = p
  <2>1. ASSUME NEW x \in S PROVE \E h \in Range(b) : h.to = x /\ h.packet = p
    <3>1. PICK k \in 1 .. Len(to) : to[k] = x
      BY <1>12
    <3>2. [to |-> to[k], packet |-> p] \in Range(b)
      BY <1>11
    <3>3. QED BY <3>1, <3>2
  <2>2. QED BY <2>1
<1>15. QED BY <1>4, <1>7, <1>10, <1>13, <1>14

LEMMA ServesTakes ==
    ASSUME TypeOK, NEW d \in Device, Serves(d)
    PROVE  \E p \in Upstream :
              /\ toServer' \in [Device -> Seq(Upstream)]
              /\ Range(toServer[d]) = {p} \cup Range(toServer'[d])
              /\ \A x \in Device : x # d => toServer'[x] = toServer[x]
              /\ \/ Refuses(d, p)
                 \/ (Stores(d, p) \/ Erases(d, p) \/ SyncsFiles(d, p)) /\ UNCHANGED lost
<1>1. toServer[d] \in Seq(Upstream) /\ toServer[d] # << >>
  BY DEF Serves, TypeOK
<1>2. PICK p : p = Head(toServer[d])
  OBVIOUS
<1>3. PICK q : q = Tail(toServer[d])
  OBVIOUS
<1>4. p \in Upstream /\ q \in Seq(Upstream) /\ Range(toServer[d]) = {p} \cup Range(q)
  BY <1>1, <1>2, <1>3, RangeHeadTail
<1>5. /\ toServer' = [toServer EXCEPT ![d] = q]
      /\ \/ Refuses(d, p)
         \/ (Stores(d, p) \/ Erases(d, p) \/ SyncsFiles(d, p)) /\ UNCHANGED lost
  BY <1>2, <1>3 DEF Serves
<1>6. QED BY <1>4, <1>5 DEF TypeOK

\* The handler of d has n to send to S: n is the packet p of everyone in S.
Announces(d, S, p) ==
    /\ handler' \in [Device -> Seq(Handled)]
    /\ \A x \in Device : x # d => handler'[x] = handler[x]
    /\ \A h \in Range(handler'[d]) : h.to \in S /\ h.packet = p
    /\ \A x \in S : \E h \in Range(handler'[d]) : h.to = x /\ h.packet = p

LEMMA AnnouncesOf ==
    ASSUME TypeOK, NEW d \in Device, NEW S \in SUBSET Device, NEW type, NEW f, NEW c,
           Request(type, f, c) \in Downstream,
           handler' = [handler EXCEPT ![d] = Broadcast(type, f, c, SetToSeq(S))]
    PROVE  Announces(d, S, Request(type, f, c))
<1>1. PICK b : b = Broadcast(type, f, c, SetToSeq(S))
  OBVIOUS
<1>2. handler \in [Device -> Seq(Handled)]
  BY DEF TypeOK, Handled
<1>3. b \in Seq(Handled)
  BY <1>1, Broadcasts
<1>4. /\ handler' \in [Device -> Seq(Handled)] /\ handler'[d] = b
      /\ \A x \in Device : x # d => handler'[x] = handler[x]
  BY <1>1, <1>2, <1>3
<1>5. /\ \A h \in Range(b) : h.to \in S /\ h.packet = Request(type, f, c)
      /\ \A x \in S : \E h \in Range(b) : h.to = x /\ h.packet = Request(type, f, c)
  BY <1>1, Broadcasts
<1>6. QED BY <1>4, <1>5 DEF Announces

LEMMA StoresKeeps ==
    ASSUME TypeOK, NEW d \in Device, NEW p \in Upstream, Stores(d, p)
    PROVE  /\ p.file \in File /\ files' = [files EXCEPT ![p.file] = p.data]
           /\ files' \in [File -> Content] /\ UNCHANGED toClient
           /\ Announces(d, Device, Request("UPLOAD_BROADCAST", p.file, p.data))
<1>1. p.file \in File /\ p.data \in Content
  BY Packets DEF Stores
<1>2. Request("UPLOAD_BROADCAST", p.file, p.data) \in Downstream
  BY <1>1, Requests
<1>3. handler' = [handler EXCEPT ![d] =
                     Broadcast("UPLOAD_BROADCAST", p.file, p.data, SetToSeq(Device))]
  BY DEF Stores, Everyone
<1>4. Announces(d, Device, Request("UPLOAD_BROADCAST", p.file, p.data))
  BY <1>2, <1>3, AnnouncesOf
<1>5. QED BY <1>1, <1>4 DEF Stores, TypeOK

LEMMA RefusesKeeps ==
    ASSUME TypeOK, NEW d \in Device, NEW p \in Upstream, Refuses(d, p)
    PROVE  /\ p.file \in File /\ UNCHANGED <<files, toClient>>
           /\ lost' = lost \cup {p.file} /\ lost' \subseteq File
           /\ Announces(d, Device, Request("UPLOAD_BROADCAST", p.file, p.data))
<1>1. p.file \in File /\ p.data \in Content
  BY Packets DEF Refuses
<1>2. Request("UPLOAD_BROADCAST", p.file, p.data) \in Downstream
  BY <1>1, Requests
<1>3. handler' = [handler EXCEPT ![d] =
                     Broadcast("UPLOAD_BROADCAST", p.file, p.data, SetToSeq(Device))]
  BY DEF Refuses, Everyone
<1>4. Announces(d, Device, Request("UPLOAD_BROADCAST", p.file, p.data))
  BY <1>2, <1>3, AnnouncesOf
<1>5. QED BY <1>1, <1>4 DEF Refuses, TypeOK

\* A file is deleted, and the one who asked is told.
Deleted(d, f) ==
    /\ f \in File /\ files[f] # Absent
    /\ files' = [files EXCEPT ![f] = Absent] /\ files' \in [File -> Content]
    /\ toClient' \in [Device -> Seq(Downstream)]
    /\ \A x \in Device : x # d => toClient'[x] = toClient[x]
    /\ Range(toClient'[d]) = Range(toClient[d]) \cup {Request("DELETE_ACCEPT_RESP", f, Absent)}
    /\ Announces(d, Device \ {d}, Request("DELETE_BROADCAST", f, Absent))

LEMMA ErasesEither ==
    ASSUME TypeOK, NEW d \in Device, NEW p \in Upstream, Erases(d, p)
    PROVE  \/ Deleted(d, p.file)
           \/ /\ p.file \in File => files[p.file] = Absent
              /\ UNCHANGED <<files, toClient>>
              /\ Announces(d, Device \ {d}, Request("DELETE_BROADCAST", NoName, Absent))
<1>1. CASE p.file \in File /\ files[p.file] # Absent
  <2>1. PICK r : r = Request("DELETE_ACCEPT_RESP", p.file, Absent)
    OBVIOUS
  <2>2. r \in Downstream /\ Request("DELETE_BROADCAST", p.file, Absent) \in Downstream
    BY <1>1, <2>1, Requests, Contents
  <2>3. /\ files' = [files EXCEPT ![p.file] = Absent]
        /\ toClient' = [toClient EXCEPT ![d] = Append(toClient[d], r)]
        /\ handler' = [handler EXCEPT ![d] =
              Broadcast("DELETE_BROADCAST", p.file, Absent, SetToSeq(Device \ {d}))]
    BY <1>1, <2>1 DEF Erases
  <2>4. toClient[d] \in Seq(Downstream)
    BY DEF TypeOK
  <2>5. /\ Append(toClient[d], r) \in Seq(Downstream)
        /\ Range(Append(toClient[d], r)) = Range(toClient[d]) \cup {r}
    BY <2>2, <2>4, RangeAppend
  <2>6. /\ toClient' \in [Device -> Seq(Downstream)]
        /\ \A x \in Device : x # d => toClient'[x] = toClient[x]
        /\ Range(toClient'[d]) = Range(toClient[d]) \cup {r}
    BY <2>3, <2>5 DEF TypeOK
  <2>7. Announces(d, Device \ {d}, Request("DELETE_BROADCAST", p.file, Absent))
    BY <2>2, <2>3, AnnouncesOf
  <2>8. files' \in [File -> Content]
    BY <2>3, Contents DEF TypeOK
  <2>9. QED BY <1>1, <2>1, <2>3, <2>6, <2>7, <2>8 DEF Deleted
<1>2. CASE ~(p.file \in File /\ files[p.file] # Absent)
  <2>1. Request("DELETE_BROADCAST", NoName, Absent) \in Downstream
    BY Requests, Contents
  <2>2. /\ UNCHANGED <<files, toClient>>
        /\ handler' = [handler EXCEPT ![d] =
              Broadcast("DELETE_BROADCAST", NoName, Absent, SetToSeq(Device \ {d}))]
    BY <1>2 DEF Erases
  <2>3. Announces(d, Device \ {d}, Request("DELETE_BROADCAST", NoName, Absent))
    BY <2>1, <2>2, AnnouncesOf
  <2>4. QED BY <1>2, <2>2, <2>3
<1>3. QED BY <1>1, <1>2

\* The files that are at the server are on their way.
SyncPacket(f, b) ==
    [type |-> "SYNC_DIR_ACCEPT_RESP", file |-> f, data |-> files[f], last |-> b]

LEMMA SyncsKeeps ==
    ASSUME TypeOK, NEW d \in Device, NEW p \in Upstream, SyncsFiles(d, p)
    PROVE  /\ UNCHANGED <<files, handler>>
           /\ toClient' \in [Device -> Seq(Downstream)]
           /\ \A x \in Device : x # d => toClient'[x] = toClient[x]
           /\ Range(toClient[d]) \subseteq Range(toClient'[d])
           /\ \A q \in Range(toClient'[d]) :
                 \/ q \in Range(toClient[d])
                 \/ \E f \in File, b \in BOOLEAN : files[f] # Absent /\ q = SyncPacket(f, b)
           /\ \A f \in File : files[f] # Absent =>
                 \E b \in BOOLEAN : SyncPacket(f, b) \in Range(toClient'[d])
<1>1. PICK sent : sent = Listed(files)
  OBVIOUS
<1>2. sent \in Seq(File) /\ Range(sent) = {f \in File : files[f] # Absent}
  BY <1>1, ListedFiles
<1>3. /\ DOMAIN sent = 1 .. Len(sent) /\ Len(sent) \in Nat
      /\ \A k \in 1 .. Len(sent) : sent[k] \in File /\ files[sent[k]] # Absent
      /\ \A f \in File : files[f] # Absent => \E k \in 1 .. Len(sent) : sent[k] = f
  <2>1. DOMAIN sent = 1 .. Len(sent) /\ Len(sent) \in Nat
    BY <1>2, LenProperties
  <2>2. Range(sent) = {sent[k] : k \in 1 .. Len(sent)}
    BY <2>1 DEF Range
  <2>3. QED BY <1>2, <2>1, <2>2
<1>4. PICK s : s = [k \in 1 .. Len(sent) |-> SyncPacket(sent[k], k = Len(sent))]
  OBVIOUS
<1>5. toClient' = [toClient EXCEPT ![d] = toClient[d] \o s]
  BY <1>1, <1>3, <1>4 DEF SyncsFiles, SyncPacket
<1>6. \A k \in 1 .. Len(sent) : SyncPacket(sent[k], k = Len(sent)) \in Downstream
  <2>1. ASSUME NEW f \in File, NEW b \in BOOLEAN PROVE SyncPacket(f, b) \in Downstream
    BY DEF SyncPacket, Downstream, TypeOK
  <2>2. \A k \in 1 .. Len(sent) : (k = Len(sent)) \in BOOLEAN
    OBVIOUS
  <2>3. QED BY <1>3, <2>1, <2>2
<1>7. s \in Seq(Downstream)
  <2>1. s \in [1 .. Len(sent) -> Downstream]
    BY <1>4, <1>6
  <2>2. QED BY <1>3, <2>1, SeqDef
<1>8. Range(s) = {SyncPacket(sent[k], k = Len(sent)) : k \in 1 .. Len(sent)}
  BY <1>4 DEF Range
<1>9. toClient[d] \in Seq(Downstream)
  BY DEF TypeOK
<1>10. PICK t : t = toClient[d] \o s
  OBVIOUS
<1>11. t \in Seq(Downstream) /\ Range(t) = Range(toClient[d]) \cup Range(s)
  BY <1>7, <1>9, <1>10, ConcatProperties, RangeConcatenation
<1>12. toClient' \in [Device -> Seq(Downstream)] /\ toClient'[d] = t
       /\ \A x \in Device : x # d => toClient'[x] = toClient[x]
  BY <1>5, <1>10, <1>11 DEF TypeOK
<1>13. ASSUME NEW q \in Range(s)
       PROVE  \E f \in File, b \in BOOLEAN : files[f] # Absent /\ q = SyncPacket(f, b)
  <2>1. PICK k \in 1 .. Len(sent) : q = SyncPacket(sent[k], k = Len(sent))
    BY <1>8
  <2>2. PICK b \in BOOLEAN : b = (k = Len(sent))
    OBVIOUS
  <2>3. q = SyncPacket(sent[k], b)
    BY <2>1, <2>2
  <2>4. QED BY <1>3, <2>3
<1>14. ASSUME NEW f \in File, files[f] # Absent
       PROVE  \E b \in BOOLEAN : SyncPacket(f, b) \in Range(s)
  <2>1. PICK k \in 1 .. Len(sent) : sent[k] = f
    BY <1>3, <1>14
  <2>2. PICK b \in BOOLEAN : b = (k = Len(sent))
    OBVIOUS
  <2>3. SyncPacket(f, b) \in Range(s)
    BY <1>8, <2>1, <2>2
  <2>4. QED BY <2>3
<1>15. QED BY <1>11, <1>12, <1>13, <1>14 DEF SyncsFiles

LEMMA ServesTyped ==
    ASSUME TypeOK, NEW d \in Device, Serves(d)
    PROVE  TypeOK'
<1>1. PICK p \in Upstream :
        /\ toServer' \in [Device -> Seq(Upstream)]
        /\ \/ Refuses(d, p)
           \/ (Stores(d, p) \/ Erases(d, p) \/ SyncsFiles(d, p)) /\ UNCHANGED lost
  BY ServesTakes
<1>2. /\ files' \in [File -> Content] /\ handler' \in [Device -> Seq(Handled)]
      /\ toClient' \in [Device -> Seq(Downstream)]
  <2>1. CASE Stores(d, p) \/ Refuses(d, p)
    BY <2>1, StoresKeeps, RefusesKeeps DEF Announces, TypeOK
  <2>2. CASE Erases(d, p)
    <3>1. CASE Deleted(d, p.file)
      BY <3>1 DEF Announces, Deleted
    <3>2. CASE /\ UNCHANGED <<files, toClient>>
               /\ Announces(d, Device \ {d}, Request("DELETE_BROADCAST", NoName, Absent))
      BY <3>2 DEF Announces, TypeOK
    <3>3. QED BY <2>2, <3>1, <3>2, ErasesEither
  <2>3. CASE SyncsFiles(d, p)
    BY <2>3, SyncsKeeps DEF TypeOK, Handled
  <2>4. QED BY <1>1, <2>1, <2>2, <2>3
<1>3. lost' \subseteq File
  BY <1>1, RefusesKeeps DEF TypeOK
<1>4. QED BY <1>1, <1>2, <1>3
          DEF TypeOK, Handled, Serves, localVars, watcherVars, mailboxes, listenerVars, userVars

LEMMA ForwardsKeeps ==
    ASSUME TypeOK, NEW d \in Device, Forwards(d)
    PROVE  \E h \in Handled :
              /\ handler' \in [Device -> Seq(Handled)] /\ toClient' \in [Device -> Seq(Downstream)]
              /\ Range(handler[d]) = {h} \cup Range(handler'[d])
              /\ \A x \in Device : x # d => handler'[x] = handler[x]
              /\ \A x \in Device : x # h.to => toClient'[x] = toClient[x]
              /\ Range(toClient'[h.to]) = Range(toClient[h.to]) \cup {h.packet}
<1>1. handler[d] \in Seq(Handled) /\ handler[d] # << >>
  BY DEF Forwards, TypeOK, Handled
<1>2. PICK h : h = Head(handler[d])
  OBVIOUS
<1>3. PICK q : q = Tail(handler[d])
  OBVIOUS
<1>4. h \in Handled /\ q \in Seq(Handled) /\ Range(handler[d]) = {h} \cup Range(q)
  BY <1>1, <1>2, <1>3, RangeHeadTail
<1>5. h.to \in Device /\ h.packet \in Downstream
  BY <1>4 DEF Handled
<1>6. /\ handler' = [handler EXCEPT ![d] = q]
      /\ toClient' = [toClient EXCEPT ![h.to] = Append(toClient[h.to], h.packet)]
  BY <1>2, <1>3 DEF Forwards
<1>7. toClient[h.to] \in Seq(Downstream)
  BY <1>5 DEF TypeOK
<1>8. /\ Append(toClient[h.to], h.packet) \in Seq(Downstream)
      /\ Range(Append(toClient[h.to], h.packet)) = Range(toClient[h.to]) \cup {h.packet}
  BY <1>5, <1>7, RangeAppend
<1>9. /\ handler' \in [Device -> Seq(Handled)] /\ handler'[d] = q
      /\ \A x \in Device : x # d => handler'[x] = handler[x]
  BY <1>4, <1>6 DEF TypeOK, Handled
<1>10. /\ toClient' \in [Device -> Seq(Downstream)]
       /\ \A x \in Device : x # h.to => toClient'[x] = toClient[x]
       /\ Range(toClient'[h.to]) = Range(toClient[h.to]) \cup {h.packet}
  BY <1>5, <1>6, <1>8 DEF TypeOK
<1>11. QED BY <1>4, <1>9, <1>10

LEMMA ForwardsTyped ==
    ASSUME TypeOK, NEW d \in Device, Forwards(d)
    PROVE  TypeOK'
<1>1. handler' \in [Device -> Seq(Handled)] /\ toClient' \in [Device -> Seq(Downstream)]
  BY ForwardsKeeps
<1>2. QED BY <1>1
          DEF TypeOK, Handled, Forwards, localVars, watcherVars, mailboxes, listenerVars, userVars,
              history, outcomes

LEMMA NextTyped == TypeOK /\ [Next]_vars => TypeOK'
<1> SUFFICES ASSUME TypeOK, [Next]_vars PROVE TypeOK'
  OBVIOUS
<1>1. CASE UNCHANGED vars
  BY <1>1 DEF TypeOK, vars, localVars, watcherVars, mailboxes, listenerVars, remoteVars, serverVars,
              userVars, history, outcomes
<1>2. ASSUME NEW d \in Device,
             UserChanges(d) \/ EndsSave(d) \/ BeginsWatching(d) \/ Watcher(d) \/ Listener(d)
               \/ SendsTyped(d) \/ SendsWatched(d) \/ Serves(d) \/ Forwards(d)
      PROVE  TypeOK'
  <2>1. CASE UserChanges(d)
    BY <2>1, MovesInTyped, BeginsSaveTyped, RemovesTyped, UploadsTyped, DeletesTyped,
       GetsSyncDirTyped DEF UserChanges
  <2>2. CASE Watcher(d)
    BY <2>2, ReadsEventsTyped, HandlesEventTyped, ClearsFlagTyped DEF Watcher
  <2>3. CASE Listener(d)
    BY <2>3, ReceivesTyped, AppliesTyped, WritesReceivedTyped, UploadsListedTyped DEF Listener
  <2>4. CASE EndsSave(d) \/ BeginsWatching(d) \/ SendsTyped(d) \/ SendsWatched(d) \/ Serves(d)
               \/ Forwards(d)
    BY <2>4, EndsSaveTyped, BeginsWatchingTyped, SendsTypedTyped, SendsWatchedTyped, ServesTyped, ForwardsTyped
  <2>5. QED BY <1>2, <2>1, <2>2, <2>3, <2>4
<1>3. QED BY <1>1, <1>2 DEF Next

\* The directories, queues, mailboxes and connections of every device keep their types.
THEOREM TypeCorrect == Spec => []TypeOK
BY InitTyped, NextTyped, PTL DEF Spec

-----------------------------------------------------------------------------
(* The flag.                                                               *)
(*                                                                         *)
(* The argument: while nothing disturbs it, the flag is set before a file   *)
(* is touched and the queue is empty then, so that the event of a broadcast *)
(* is read, alone or with what is the listener's too, before the flag is    *)
(* cleared; what a user does before that makes the device not calm.  A flag *)
(* without such an event is stale.                                         *)

\* Between ignore() and the change that is to be ignored
Applying(d) == listener[d] = "apply" /\ Ignores(received[d])

NoneOfUser(q) == \A e \in Range(q) : e.by # "user"

Flagged(d) ==
    calm[d] =>
        /\ Applying(d) => ignore[d] /\ WatcherIsQuiet(d)
        /\ Applying(d) \/ listener[d] = "write" =>
              open[d]["user"] = None /\ NoneOfUser(events[d]) /\ NoneOfUser(batch[d])
        /\ \A e \in Range(events[d]) :
              e.by = "listener" /\ Reports(e) => ignore[d] /\ watcher[d] = "read"
        /\ \A e \in Range(batch[d]) : e.by = "listener" /\ Reports(e) => ignore[d]
        /\ ignore[d] /\ ~stale[d] =>
              /\ NoneOfUser(batch[d])
              /\ watcher[d] # "clear" => NoneOfUser(events[d]) /\ open[d]["user"] = None
              /\ watcher[d] = "read" => events[d] # << >> \/ Applying(d)

\* Nothing that the flag depends on changes at d
FlagSame(d) ==
    /\ calm'[d] = calm[d] /\ ignore'[d] = ignore[d] /\ stale'[d] = stale[d]
    /\ events'[d] = events[d] /\ batch'[d] = batch[d] /\ watcher'[d] = watcher[d]
    /\ listener'[d] = listener[d] /\ received'[d] = received[d]
    /\ open'[d]["user"] = open[d]["user"]

LEMMA SameFlagged ==
    ASSUME NEW d \in Device, Flagged(d), FlagSame(d)
    PROVE  Flagged(d)'
BY DEF Flagged, FlagSame, Applying, WatcherIsQuiet, NoneOfUser, Ignores

LEMMA InitFlagged ==
    ASSUME Init, NEW d \in Device
    PROVE  Flagged(d)
<1>1. /\ events[d] = << >> /\ batch[d] = << >> /\ listener[d] = "read" /\ stale[d] = ignore[d]
  BY DEF Init
<1>2. Range(events[d]) = {} /\ Range(batch[d]) = {}
  BY <1>1, RangeEmpty
<1>3. QED BY <1>1, <1>2 DEF Flagged, Applying, NoneOfUser

\* There is something in a queue that is not empty.
LEMMA Someone ==
    ASSUME NEW S, NEW q \in Seq(S), q # << >>
    PROVE  \E e \in Range(q) : e \in S
BY RangeHeadTail

LEMMA ChangesFlagged ==
    ASSUME TypeOK, NEW kind, NEW d \in Device, NEW f \in File, NEW c \in Content,
           Changes(kind, d, f, c), Flagged(d),
           \A e \in Range(events'[d]) : e \in Range(events[d]) \/ e.by = "user",
           UNCHANGED <<watcherVars, ignore, listenerVars>>
    PROVE  Flagged(d)'
<1> SUFFICES ASSUME calm'[d] PROVE Flagged(d)'
  BY DEF Flagged
<1>1. /\ calm[d] /\ listener[d] = "read" /\ stale' = stale
      /\ \A e \in Range(events[d]) \cup Range(batch[d]) : e.by = "user"
  BY ChangesKeeps
<1>2. ignore' = ignore /\ batch' = batch /\ watcher' = watcher /\ listener' = listener
  BY DEF watcherVars, listenerVars
<1>3. \A e \in Range(events'[d]) \cup Range(batch'[d]) : e.by = "user"
  BY <1>1, <1>2
<1>4. ~(Applying(d)') /\ ~Applying(d) /\ listener'[d] # "write"
  BY <1>1, <1>2 DEF Applying
<1>5. ASSUME ignore[d], ~stale[d] PROVE watcher[d] = "clear" /\ NoneOfUser(batch[d])
  <2>1. /\ NoneOfUser(batch[d])
        /\ watcher[d] # "clear" => NoneOfUser(events[d])
        /\ watcher[d] = "read" => events[d] # << >>
    BY <1>1, <1>4, <1>5 DEF Flagged
  <2>2. watcher[d] # "event"
    <3>1. SUFFICES ASSUME watcher[d] = "event" PROVE FALSE
      OBVIOUS
    <3>2. batch[d] \in Seq(Event) /\ batch[d] # << >>
      BY <3>1 DEF TypeOK
    <3>3. QED BY <1>1, <2>1, <3>2, Someone DEF NoneOfUser
  <2>3. watcher[d] # "read"
    <3>1. SUFFICES ASSUME watcher[d] = "read" PROVE FALSE
      OBVIOUS
    <3>2. events[d] \in Seq(Event) /\ events[d] # << >>
      BY <2>1, <3>1 DEF TypeOK
    <3>3. QED BY <1>1, <2>1, <3>1, <3>2, Someone DEF NoneOfUser
  <2>4. watcher[d] \in {"read", "event", "clear"}
    BY DEF TypeOK
  <2>5. QED BY <2>1, <2>2, <2>3, <2>4
<1>6. QED BY <1>1, <1>2, <1>3, <1>4, <1>5 DEF Flagged

\* A step of the user's at d that is not the end of a save.
LEMMA UserFlagged ==
    ASSUME TypeOK, NEW d \in Device, Flagged(d), UserChanges(d)
    PROVE  Flagged(d)' /\ \A x \in Device : x # d => FlagSame(x)
<1>1. PICK f \in File : \/ MovesIn(d, f) \/ BeginsSave(d, f) \/ Removes(d, f)
                        \/ Uploads(d, f) \/ Deletes(d, f) \/ GetsSyncDir(d, f)
  BY DEF UserChanges
<1>2. UNCHANGED <<watcherVars, ignore, listenerVars>>
  BY <1>1 DEF MovesIn, BeginsSave, Removes, Uploads, Deletes, GetsSyncDir, Unaware
<1>3. CASE GetsSyncDir(d, f)
  BY <1>2, <1>3, SameFlagged
     DEF GetsSyncDir, FlagSame, watcherVars, listenerVars, localVars
<1>4. ASSUME ~GetsSyncDir(d, f)
      PROVE  /\ \E kind \in Change, c \in Content : Changes(kind, d, f, c)
             /\ \A e \in Range(events'[d]) : e \in Range(events[d]) \/ e.by = "user"
             /\ \A x \in Device : x # d => events'[x] = events[x] /\ open'[x] = open[x]
  <2>1. NewVersion \in Content /\ Absent \in Content /\ LocalTypes
    BY NewVersions, Contents, LocallyTyped
  <2>2. CASE MovesIn(d, f)
    <3>1. Notify(d, "MOVED_TO", f, "user") /\ Unlinked(d, f)
      BY <2>2 DEF MovesIn, Change
    <3>2. /\ \A x \in Device : x # d => events'[x] = events[x]
          /\ NewEvents(d, f, {"MOVED_TO"}, "user")
      BY <2>1, <3>1, NotifyAdds, ZenonT(30)
    <3>3. \A x \in Device : x # d => open'[x] = open[x]
      BY <2>1, <3>1, UnlinkedKeeps
    <3>4. \E kind \in Change, c \in Content : Changes(kind, d, f, c)
      BY <2>1, <2>2 DEF MovesIn, Change
    <3>5. QED BY <3>2, <3>3, <3>4 DEF NewEvents
  <2>3. CASE BeginsSave(d, f)
    <3>1. Opens(d, "user", f, NewVersion, "user") /\ "user" \in Who
      BY <2>3, WhoIs DEF BeginsSave, Change
    <3>2. Local(d, f) /\ NewEvents(d, f, {"CREATE", "MODIFY"}, "user")
      BY <2>1, <3>1, OpensKeeps, ZenonT(30)
    <3>3. \E kind \in Change, c \in Content : Changes(kind, d, f, c)
      BY <2>1, <2>3 DEF BeginsSave, Change
    <3>4. QED BY <3>2, <3>3 DEF NewEvents, Local
  <2>4. CASE (Removes(d, f) \/ Deletes(d, f)) /\ Removed(d, f, "user")
    <3>1. f \in File \cup {NoName}
      OBVIOUS
    <3>2. Local(d, f) /\ NewEvents(d, f, {"DELETE"}, "user")
      BY <2>1, <2>4, <3>1, RemovedKeeps, ZenonT(30)
    <3>3. \E kind \in Change, c \in Content : Changes(kind, d, f, c)
      BY <2>1, <2>4 DEF Removes, Deletes, Change
    <3>4. QED BY <3>2, <3>3 DEF NewEvents, Local
  <2>5. CASE (Uploads(d, f) \/ Deletes(d, f)) /\ UNCHANGED localVars
    <3>1. \E kind \in Change, c \in Content : Changes(kind, d, f, c)
      BY <2>1, <2>5 DEF Uploads, Deletes, Change
    <3>2. QED BY <2>5, <3>1 DEF localVars
  <2>6. QED BY <1>1, <1>4, <2>2, <2>3, <2>4, <2>5 DEF Removes, Deletes, Uploads
<1>5. CASE ~GetsSyncDir(d, f)
  <2>1. PICK kind \in Change, c \in Content : Changes(kind, d, f, c)
    BY <1>4, <1>5
  <2>2. Flagged(d)'
    BY <1>2, <1>4, <1>5, <2>1, ChangesFlagged
  <2>3. stale' = stale /\ \A x \in Device : x # d => calm'[x] = calm[x]
    BY <2>1, ChangesKeeps
  <2>4. QED BY <1>2, <1>4, <1>5, <2>2, <2>3 DEF FlagSame, watcherVars, listenerVars
<1>6. QED BY <1>3, <1>5

\* The end of a save: while a file is open no broadcast is being applied, and
\* the flag is not up for one.
LEMMA EndsSaveFlagged ==
    ASSUME TypeOK, NEW d \in Device, Flagged(d), EndsSave(d)
    PROVE  Flagged(d)' /\ \A x \in Device : x # d => FlagSame(x)
<1>1. /\ open[d]["user"] # None /\ Writes(d, "user") /\ "user" \in Who /\ LocalTypes
      /\ UNCHANGED <<watcherVars, ignore, listenerVars, calm, stale>>
  BY WhoIs, LocallyTyped DEF EndsSave, Unaware, history
<1>2. PICK o : o = open[d]["user"]
  OBVIOUS
<1>3. /\ \A x \in Device : x # d => open'[x] = open[x] /\ events'[x] = events[x]
      /\ NewEvents(d, o.file, {"MODIFY"}, "user")
  BY <1>1, <1>2, WritesKeeps, ZenonT(30)
<1>4. \A e \in Range(events'[d]) : e \in Range(events[d]) \/ e.by = "user"
  BY <1>3 DEF NewEvents
<1>5. \A x \in Device : x # d => FlagSame(x)
  BY <1>1, <1>3 DEF FlagSame, watcherVars, listenerVars
<1>6. SUFFICES ASSUME calm[d] PROVE Flagged(d)'
  BY <1>1, <1>5 DEF Flagged
<1>7. ~Applying(d) /\ listener[d] # "write"
  BY <1>1, <1>6 DEF Flagged
<1>8. ~(Applying(d)') /\ listener'[d] # "write"
  BY <1>1, <1>7 DEF Applying, listenerVars, Ignores
<1>9. ignore[d] /\ ~stale[d] => NoneOfUser(batch[d]) /\ watcher[d] = "clear"
  BY <1>1, <1>6 DEF Flagged
<1>10. \A e \in Range(events[d]) \cup Range(batch[d]) :
          e.by = "listener" /\ Reports(e) => ignore[d]
  BY <1>6 DEF Flagged
<1>11. \A e \in Range(events[d]) : e.by = "listener" /\ Reports(e) => watcher[d] = "read"
  BY <1>6 DEF Flagged
<1>12. QED BY <1>1, <1>4, <1>8, <1>9, <1>10, <1>11 DEF Flagged, NoneOfUser, Reports, watcherVars

LEMMA ReadsEventsFlagged ==
    ASSUME TypeOK, NEW d \in Device, Flagged(d), ReadsEvents(d)
    PROVE  Flagged(d)' /\ \A x \in Device : x # d => FlagSame(x)
<1>1. /\ watcher[d] = "read" /\ events[d] # << >>
      /\ batch'[d] = events[d] /\ events'[d] = << >> /\ watcher'[d] = "event"
      /\ \A x \in Device : x # d => batch'[x] = batch[x] /\ events'[x] = events[x]
                                    /\ watcher'[x] = watcher[x]
      /\ UNCHANGED <<open, ignore, listener, received, calm, stale>>
  BY DEF ReadsEvents, TypeOK, listenerVars, history
<1>2. \A x \in Device : x # d => FlagSame(x)
  BY <1>1 DEF FlagSame
<1>3. SUFFICES ASSUME calm[d] PROVE Flagged(d)'
  BY <1>1, <1>2 DEF Flagged
<1>4. ~Applying(d)
  BY <1>1, <1>3 DEF Flagged, WatcherIsQuiet
<1>5. ~(Applying(d)')
  BY <1>1, <1>4 DEF Applying, Ignores
<1>6. Range(events'[d]) = {}
  BY <1>1, RangeEmpty
<1>7. /\ listener[d] = "write" => open[d]["user"] = None /\ NoneOfUser(events[d])
      /\ ignore[d] /\ ~stale[d] => open[d]["user"] = None /\ NoneOfUser(events[d])
      /\ \A e \in Range(events[d]) : e.by = "listener" /\ Reports(e) => ignore[d]
  BY <1>1, <1>3 DEF Flagged
<1>8. QED BY <1>1, <1>5, <1>6, <1>7 DEF Flagged, NoneOfUser, Reports

LEMMA HandlesEventFlagged ==
    ASSUME TypeOK, NEW d \in Device, Flagged(d), HandlesEvent(d)
    PROVE  Flagged(d)' /\ \A x \in Device : x # d => FlagSame(x)
<1>1. /\ watcher[d] = "event" /\ batch'[d] = Tail(batch[d])
      /\ watcher'[d] \in {"event", "clear"}
      /\ \A x \in Device : x # d => batch'[x] = batch[x] /\ watcher'[x] = watcher[x]
      /\ UNCHANGED <<events, open, ignore, listener, received, calm, stale>>
  BY DEF HandlesEvent, TypeOK, listenerVars, localVars
<1>2. \A x \in Device : x # d => FlagSame(x)
  BY <1>1 DEF FlagSame
<1>3. SUFFICES ASSUME calm[d] PROVE Flagged(d)'
  BY <1>1, <1>2 DEF Flagged
<1>4. ~Applying(d)
  BY <1>1, <1>3 DEF Flagged, WatcherIsQuiet
<1>5. ~(Applying(d)')
  BY <1>1, <1>4 DEF Applying, Ignores
<1>6. Range(batch'[d]) \subseteq Range(batch[d])
  BY <1>1, BatchHead
<1>7. /\ listener[d] = "write" => /\ open[d]["user"] = None
                                  /\ NoneOfUser(events[d]) /\ NoneOfUser(batch[d])
      /\ ignore[d] /\ ~stale[d] => /\ open[d]["user"] = None
                                   /\ NoneOfUser(events[d]) /\ NoneOfUser(batch[d])
      /\ \A e \in Range(batch[d]) : e.by = "listener" /\ Reports(e) => ignore[d]
      /\ \A e \in Range(events[d]) : ~(e.by = "listener" /\ Reports(e))
  BY <1>1, <1>3 DEF Flagged
<1>8. QED BY <1>1, <1>5, <1>6, <1>7 DEF Flagged, NoneOfUser, Reports

\* The flag is cleared when no event is left that needed it.
LEMMA ClearsFlagFlagged ==
    ASSUME TypeOK, NEW d \in Device, Flagged(d), ClearsFlag(d)
    PROVE  Flagged(d)' /\ \A x \in Device : x # d => FlagSame(x)
<1>1. /\ watcher[d] = "clear" /\ watcher'[d] = "read" /\ ~ignore'[d] /\ ~stale'[d]
      /\ \A x \in Device : x # d => watcher'[x] = watcher[x] /\ ignore'[x] = ignore[x]
                                    /\ stale'[x] = stale[x]
      /\ UNCHANGED <<events, batch, open, listener, received, calm>>
  BY DEF ClearsFlag, TypeOK, listenerVars, localVars
<1>2. \A x \in Device : x # d => FlagSame(x)
  BY <1>1 DEF FlagSame
<1>3. SUFFICES ASSUME calm[d] PROVE Flagged(d)'
  BY <1>1, <1>2 DEF Flagged
<1>4. ~Applying(d)
  BY <1>1, <1>3 DEF Flagged, WatcherIsQuiet
<1>5. ~(Applying(d)')
  BY <1>1, <1>4 DEF Applying, Ignores
<1>6. Range(batch[d]) = {}
  BY <1>1, RangeEmpty DEF TypeOK
<1>7. /\ listener[d] = "write" => /\ open[d]["user"] = None
                                  /\ NoneOfUser(events[d]) /\ NoneOfUser(batch[d])
      /\ \A e \in Range(events[d]) : ~(e.by = "listener" /\ Reports(e))
  BY <1>1, <1>3 DEF Flagged
<1>8. QED BY <1>1, <1>5, <1>6, <1>7 DEF Flagged, NoneOfUser, Reports

\* A broadcast that is received while all is quiet is received in calm.
LEMMA ReceivesFlagged ==
    ASSUME TypeOK, NEW d \in Device, Flagged(d), Receives(d)
    PROVE  Flagged(d)' /\ \A x \in Device : x # d => FlagSame(x)
<1>1. /\ listener[d] = "read" /\ listener'[d] = "apply" /\ (calm'[d] => calm[d])
      /\ \A x \in Device : x # d => /\ listener'[x] = listener[x] /\ received'[x] = received[x]
                                    /\ ignore'[x] = ignore[x] /\ calm'[x] = calm[x]
      /\ IF Ignores(received'[d])
         THEN ignore'[d] /\ (calm'[d] => WatcherIsQuiet(d) /\ open[d]["user"] = None)
         ELSE UNCHANGED <<ignore, calm>>
  <2>1. listener' = [listener EXCEPT ![d] = "apply"] /\ listener[d] = "read"
    BY ReceivesKeeps, ZenonT(30)
  <2>2. listener'[d] = "apply" /\ \A x \in Device : x # d => listener'[x] = listener[x]
    BY <2>1 DEF TypeOK
  <2>3. QED BY <2>1, <2>2, ReceivesKeeps, ZenonT(30)
<1>2. UNCHANGED <<events, open, batch, watcher, stale>>
  BY DEF Receives, localVars, watcherVars
<1>3. \A x \in Device : x # d => FlagSame(x)
  BY <1>1, <1>2 DEF FlagSame
<1>4. SUFFICES ASSUME calm'[d] PROVE Flagged(d)'
  BY <1>3 DEF Flagged
<1>5. CASE Ignores(received'[d])
  <2>1. /\ events[d] = << >> /\ watcher[d] = "read" /\ open[d]["user"] = None
        /\ batch[d] = << >> /\ ignore'[d]
    BY <1>1, <1>4, <1>5 DEF WatcherIsQuiet, TypeOK
  <2>2. Range(events'[d]) = {} /\ Range(batch'[d]) = {}
    BY <1>2, <2>1, RangeEmpty
  <2>3. Applying(d)'
    BY <1>1, <1>5 DEF Applying, Ignores
  <2>4. WatcherIsQuiet(d)'
    BY <1>2, <2>1 DEF WatcherIsQuiet
  <2>5. QED BY <1>2, <2>1, <2>2, <2>3, <2>4 DEF Flagged, NoneOfUser
<1>6. CASE ~Ignores(received'[d])
  <2>1. ~Applying(d) /\ UNCHANGED <<ignore, calm>> /\ calm[d]
    BY <1>1, <1>4, <1>6 DEF Applying
  <2>2. ~(Applying(d)')
    BY <1>6 DEF Applying, Ignores
  <2>3. QED BY <1>1, <1>2, <2>1, <2>2 DEF Flagged, NoneOfUser
<1>7. QED BY <1>5, <1>6

\* The events of a step that erases or begins a file.
LEMMA AppliesEvents ==
    ASSUME TypeOK, NEW d \in Device, Applies(d)
    PROVE  /\ \A x \in Device : x # d =>
                 events'[x] = events[x] /\ open'[x] = open[x] /\ stale'[x] = stale[x]
                 /\ listener'[x] = listener[x] /\ received'[x] = received[x]
           /\ open'[d]["user"] \in {None, open[d]["user"]}
           /\ \A e \in Range(events'[d]) :
                 e \in Range(events[d]) \/ e.by = IF Ignores(received[d]) THEN "listener" ELSE "unflagged"
           /\ events[d] # << >> => events'[d] # << >>
           /\ listener'[d] \in {"read", "write"}
           /\ Ignores(received[d]) \/ listener'[d] = "read"
<1>1. received[d] \in Downstream /\ listener[d] = "apply" /\ LocalTypes
      /\ received[d].file \in File \cup {NoName} /\ received[d].data \in Content
  BY Received, LocallyTyped DEF Applies
<1>2. \A x \in Device : x # d => stale'[x] = stale[x]
  <2>1. CASE Ignores(received[d])
    <3>1. FlagIsStale(d)
      BY <2>1 DEF Applies
    <3>2. QED BY <3>1, StaleTyped, ZenonT(30)
  <2>2. CASE ~Ignores(received[d])
    BY <2>2 DEF Applies
  <2>3. QED BY <2>1, <2>2
<1>3. CASE Erased(d)
  <2>1. PICK f \in File \cup {NoName} : f = received[d].file
    BY <1>1
  <2>2. PICK by \in {"listener", "unflagged"} :
            by = IF received[d].type = "DELETE_BROADCAST" THEN "listener" ELSE "unflagged"
    OBVIOUS
  <2>3. Removed(d, f, by) /\ Done(d) /\ by \in {"user", "listener", "unflagged"}
    BY <1>3, <2>1, <2>2 DEF Erased
  <2>4. /\ Local(d, f) /\ NewEvents(d, f, {"DELETE"}, by)
        /\ \A w \in Who : open'[d][w] \in {None, open[d][w]}
        /\ events[d] # << >> => events'[d] # << >>
    BY <1>1, <2>1, <2>2, <2>3, RemovedKeeps
  <2>5. by = IF Ignores(received[d]) THEN "listener" ELSE "unflagged"
    BY <1>3, <2>2 DEF Erased, Ignores
  <2>6. listener'[d] = "read" /\ \A x \in Device : x # d => listener'[x] = listener[x]
                                                            /\ received'[x] = received[x]
    BY <2>3 DEF Done, TypeOK
  <2>7. \A e \in Range(events'[d]) : e \in Range(events[d]) \/ e.by = by
    BY <2>4 DEF NewEvents
  <2>8. QED BY <1>2, <2>4, <2>5, <2>6, <2>7, WhoIs DEF Local
<1>4. CASE Begun(d)
  <2>1. PICK f \in File : f = received[d].file
    BY <1>4, Received DEF Applies, Begun
  <2>2. PICK c \in Content : c = received[d].data
    BY <1>1
  <2>3. Opens(d, "listener", f, c, "listener") /\ Ignores(received[d])
    BY <1>4, <2>1, <2>2 DEF Begun, Ignores
  <2>4. /\ Local(d, f) /\ NewEvents(d, f, {"CREATE", "MODIFY"}, "listener")
        /\ \A w \in Who : w # "listener" => open'[d][w] = open[d][w]
    BY <1>1, <2>3, OpensKeeps, WhoIs, ZenonT(30)
  <2>5. open'[d]["user"] = open[d]["user"]
    BY <2>4, WhoIs
  <2>6. \A e \in Range(events'[d]) : e \in Range(events[d]) \/ e.by = "listener"
    BY <2>4 DEF NewEvents
  <2>7. events[d] # << >> => events'[d] # << >>
    <3>1. SUFFICES ASSUME events[d] # << >> PROVE events'[d] # << >>
      OBVIOUS
    <3>2. PICK e : e \in Range(events[d])
      BY <1>1, <3>1, Someone DEF LocalTypes
    <3>3. e \in Range(events'[d])
      BY <2>4, <3>2 DEF Local
    <3>4. QED BY <3>3, RangeEmpty
  <2>8. listener'[d] = "write" /\ \A x \in Device : x # d => listener'[x] = listener[x]
                                                             /\ received'[x] = received[x]
    BY <1>4 DEF Begun, TypeOK
  <2>9. QED BY <1>2, <2>3, <2>4, <2>5, <2>6, <2>7, <2>8 DEF Local
<1>5. QED BY <1>3, <1>4, AppliesEither

\* What a broadcast changes at d happens under the flag.
LEMMA AppliesFlagged ==
    ASSUME TypeOK, NEW d \in Device, Flagged(d), Applies(d)
    PROVE  Flagged(d)' /\ \A x \in Device : x # d => FlagSame(x)
<1>1. UNCHANGED <<batch, watcher, ignore, calm>> /\ listener[d] = "apply"
  BY DEF Applies, watcherVars
<1>2. \A x \in Device : x # d => FlagSame(x)
  BY <1>1, AppliesEvents DEF FlagSame
<1>3. SUFFICES ASSUME calm[d] PROVE Flagged(d)'
  BY <1>1, <1>2 DEF Flagged
<1>4. /\ open'[d]["user"] \in {None, open[d]["user"]}
      /\ events[d] # << >> => events'[d] # << >>
      /\ listener'[d] \in {"read", "write"}
  BY AppliesEvents
<1>5. ~(Applying(d)')
  BY <1>4 DEF Applying, Ignores
<1>6. CASE Ignores(received[d])
  <2>1. Applying(d)
    BY <1>1, <1>6 DEF Applying
  <2>2. /\ ignore[d] /\ events[d] = << >> /\ watcher[d] = "read" /\ batch[d] = << >>
        /\ open[d]["user"] = None
    BY <1>3, <2>1 DEF Flagged, WatcherIsQuiet, TypeOK
  <2>3. \A e \in Range(events'[d]) : e.by = "listener"
    BY <1>6, <2>2, AppliesEvents, RangeEmpty
  <2>4. Range(batch'[d]) = {}
    BY <1>1, <2>2, RangeEmpty
  <2>5. FlagIsStale(d)
    BY <1>6 DEF Applies
  <2>6. stale'[d] <=> ignore[d] /\ events'[d] = << >> /\ watcher[d] = "read"
    BY <2>5, StaleTyped, ZenonT(30)
  <2>7. QED BY <1>1, <1>4, <1>5, <2>2, <2>3, <2>4, <2>6 DEF Flagged, NoneOfUser
<1>7. CASE ~Ignores(received[d])
  <2>1. ~Applying(d) /\ stale' = stale /\ listener'[d] = "read"
    BY <1>7, AppliesEvents DEF Applying, Applies
  <2>2. \A e \in Range(events'[d]) : e \in Range(events[d]) \/ e.by = "unflagged"
    BY <1>7, AppliesEvents
  <2>3. QED BY <1>1, <1>3, <1>4, <1>5, <2>1, <2>2 DEF Flagged, NoneOfUser
<1>8. QED BY <1>6, <1>7

\* The data that follow only make MODIFY events.
LEMMA WritesReceivedFlagged ==
    ASSUME TypeOK, NEW d \in Device, Flagged(d), WritesReceived(d)
    PROVE  Flagged(d)' /\ \A x \in Device : x # d => FlagSame(x)
<1>1. /\ UNCHANGED <<batch, watcher, ignore, calm>> /\ listener[d] = "write"
      /\ Writes(d, "listener") /\ LocalTypes /\ FlagIsStale(d)
  BY LocallyTyped DEF WritesReceived, watcherVars
<1>2. /\ \A x \in Device : x # d => stale'[x] = stale[x]
      /\ stale'[d] <=> ignore[d] /\ events'[d] = << >> /\ watcher[d] = "read"
  BY <1>1, StaleTyped, ZenonT(30)
<1>3. PICK o : o = open[d]["listener"]
  OBVIOUS
<1>4. /\ open' = [open EXCEPT ![d]["listener"] = None]
      /\ \A x \in Device : x # d => open'[x] = open[x] /\ events'[x] = events[x]
      /\ o = None => UNCHANGED <<dir, events>>
      /\ o # None => NewEvents(d, o.file, {"MODIFY"}, "listener")
  BY <1>1, <1>3, WritesKeeps, WhoIs, ZenonT(30)
<1>5. open'[d]["user"] = open[d]["user"]
  BY <1>1, <1>4, WhoIs DEF LocalTypes
<1>6. \A e \in Range(events'[d]) :
          e \in Range(events[d]) \/ (e.by = "listener" /\ ~Reports(e))
  BY <1>4 DEF NewEvents, Reports
<1>7. /\ listener'[d] \in {"read", "upload"}
      /\ \A x \in Device : x # d => listener'[x] = listener[x] /\ received'[x] = received[x]
  <2>1. CASE received[d].last
    BY <2>1 DEF WritesReceived, TypeOK
  <2>2. CASE ~received[d].last
    BY <2>2 DEF WritesReceived, Done, TypeOK
  <2>3. QED BY <2>1, <2>2
<1>8. \A x \in Device : x # d => FlagSame(x)
  BY <1>1, <1>2, <1>4, <1>7 DEF FlagSame
<1>9. SUFFICES ASSUME calm[d] PROVE Flagged(d)'
  BY <1>1, <1>8 DEF Flagged
<1>10. ~(Applying(d)')
  BY <1>7 DEF Applying, Ignores
<1>11. /\ open[d]["user"] = None /\ NoneOfUser(events[d]) /\ NoneOfUser(batch[d])
       /\ \A e \in Range(events[d]) : e.by = "listener" /\ Reports(e) => ignore[d] /\ watcher[d] = "read"
       /\ \A e \in Range(batch[d]) : e.by = "listener" /\ Reports(e) => ignore[d]
  BY <1>1, <1>9 DEF Flagged
<1>12. QED BY <1>1, <1>2, <1>5, <1>6, <1>7, <1>10, <1>11 DEF Flagged, NoneOfUser, Reports

LEMMA UploadsListedFlagged ==
    ASSUME TypeOK, NEW d \in Device, Flagged(d), UploadsListed(d)
    PROVE  Flagged(d)' /\ \A x \in Device : x # d => FlagSame(x)
<1>1. UNCHANGED <<localVars, watcherVars, ignore, calm, stale>> /\ listener[d] = "upload"
  BY DEF UploadsListed
<1>2. /\ listener'[d] \in {"read", "upload"}
      /\ \A x \in Device : x # d => listener'[x] = listener[x] /\ received'[x] = received[x]
  <2>1. CASE Done(d)
    BY <2>1 DEF Done, TypeOK
  <2>2. CASE UNCHANGED <<listener, received>>
    BY <1>1, <2>2
  <2>3. QED BY <2>1, <2>2 DEF UploadsListed
<1>3. \A x \in Device : x # d => FlagSame(x)
  BY <1>1, <1>2 DEF FlagSame, localVars, watcherVars
<1>4. ~(Applying(d)') /\ ~Applying(d) /\ listener'[d] # "write"
  BY <1>1, <1>2 DEF Applying, Ignores
<1>5. QED BY <1>1, <1>3, <1>4 DEF Flagged, NoneOfUser, Reports, localVars, watcherVars

\* The main loop and the server do not touch the flag.
LEMMA OthersFlagged ==
    ASSUME NEW d \in Device,
           BeginsWatching(d) \/ SendsTyped(d) \/ SendsWatched(d) \/ Serves(d) \/ Forwards(d)
    PROVE  \A x \in Device : FlagSame(x)
BY DEF BeginsWatching, Unaware, SendsTyped, SendsWatched, Serves, Forwards, vars, FlagSame, localVars, watcherVars,
       listenerVars, history

AllFlagged == \A d \in Device : Flagged(d)

LEMMA NextFlagged ==
    ASSUME TypeOK, AllFlagged, [Next]_vars
    PROVE  AllFlagged'
<1> SUFFICES \A d \in Device : Flagged(d)'
  BY DEF AllFlagged
<1>1. CASE UNCHANGED vars
  BY <1>1, SameFlagged
     DEF AllFlagged, vars, FlagSame, localVars, watcherVars, listenerVars, history
<1>2. CASE Next
  <2>1. PICK d \in Device :
            \/ UserChanges(d) \/ EndsSave(d) \/ BeginsWatching(d) \/ Watcher(d) \/ Listener(d)
            \/ SendsTyped(d) \/ SendsWatched(d) \/ Serves(d) \/ Forwards(d)
    BY <1>2 DEF Next
  <2>2. Flagged(d)
    BY DEF AllFlagged
  <2>3. CASE BeginsWatching(d) \/ SendsTyped(d) \/ SendsWatched(d) \/ Serves(d) \/ Forwards(d)
    BY <2>3, OthersFlagged, SameFlagged DEF AllFlagged
  <2>4. CASE \/ UserChanges(d) \/ EndsSave(d) \/ Watcher(d) \/ Listener(d)
    <3>1. Flagged(d)' /\ \A x \in Device : x # d => FlagSame(x)
      BY <2>2, <2>4, UserFlagged, EndsSaveFlagged, ReadsEventsFlagged, HandlesEventFlagged,
         ClearsFlagFlagged, ReceivesFlagged, AppliesFlagged, WritesReceivedFlagged,
         UploadsListedFlagged, ZenonT(30)
         DEF Watcher, Listener
    <3>2. QED BY <3>1, SameFlagged DEF AllFlagged
  <2>5. QED BY <2>1, <2>3, <2>4
<1>3. QED BY <1>1, <1>2

\* In every state: TypeOK, and the flag is what a calm device needs.
LEMMA FlagInvariant == Spec => [](TypeOK /\ AllFlagged)
<1>1. Init => TypeOK /\ AllFlagged
  BY InitTyped, InitFlagged DEF AllFlagged
<1>2. TypeOK /\ AllFlagged /\ [Next]_vars => TypeOK' /\ AllFlagged'
  BY NextTyped, NextFlagged
<1>3. QED BY <1>1, <1>2, PTL DEF Spec

\* The watcher sends a broadcast back as a change of the device's own only if
\* the broadcast was received while the watcher was busy, or the user: ignore()
\* before the file is touched (socket.cpp, sync_manager.cpp) covers the CREATE
\* and the DELETE event in every other case.
THEOREM EchoesNeedOverlap == Spec => []EchoNeedsOverlap
<1>1. TypeOK /\ AllFlagged => EchoNeedsOverlap
  <2>1. SUFFICES ASSUME TypeOK, \A d \in Device : Flagged(d), NEW d \in Device, calm[d],
                        watcher[d] = "event", Head(batch[d]).by = "listener"
                 PROVE  ignore[d] \/ MessageOf(d, Head(batch[d])) = None
    BY DEF EchoNeedsOverlap, AllFlagged
  <2>2. Head(batch[d]) \in Event /\ Head(batch[d]) \in Range(batch[d])
    BY <2>1, BatchHead
  <2>3. Reports(Head(batch[d])) => ignore[d]
    BY <2>1, <2>2 DEF Flagged
  <2>4. MessageOf(d, Head(batch[d])) # None <=> Reports(Head(batch[d]))
    BY <2>1, <2>2, MessageTyped
  <2>5. QED BY <2>3, <2>4
<1>2. QED BY <1>1, FlagInvariant, PTL

\* A change made while no broadcast is being applied is ignored only if the
\* flag was left over, by a broadcast that changed nothing in the sync_dir or by
\* the constructor, which leaves should_ignore unset (sync_manager.hpp).
THEOREM IgnoredNeedOverlap == Spec => []IgnoredNeedsOverlap
<1>1. TypeOK /\ AllFlagged => IgnoredNeedsOverlap
  <2>1. SUFFICES ASSUME TypeOK, \A d \in Device : Flagged(d), NEW d \in Device, calm[d],
                        watcher[d] = "event", Head(batch[d]).by = "user"
                 PROVE  ~ignore[d] \/ stale[d]
    BY DEF IgnoredNeedsOverlap, AllFlagged
  <2>2. Head(batch[d]) \in Range(batch[d])
    BY <2>1, BatchHead
  <2>3. ignore[d] /\ ~stale[d] => NoneOfUser(batch[d])
    BY <2>1 DEF Flagged
  <2>4. QED BY <2>1, <2>2, <2>3 DEF NoneOfUser
<1>2. QED BY <1>1, FlagInvariant, PTL

-----------------------------------------------------------------------------
(* What is under way about a file of which no change was lost.              *)

Uploading == {"UPLOAD_REQ", "UPLOAD_BROADCAST", "SYNC_DIR_ACCEPT_RESP"}
Deleting == {"DELETE_REQ", "DELETE_BROADCAST", "DELETE_ACCEPT_RESP"}

\* Packets of d's that the server has not handled, that d has not applied, and
\* that d's handler has to send
Sent(d) == {watched[d], typed[d]} \cup Range(toServer[d])
Coming(d) == {received[d]} \cup Range(toClient[d])
Waiting(d) == {h.packet : h \in Range(handler[d])}

\* d is to get all files of the server, or is getting them
Asks(d) == \E p \in Sent(d) : p # None /\ p.type = "SYNC_DIR_REQ"
Gets(d) == \E p \in Coming(d) : p # None /\ p.type = "SYNC_DIR_ACCEPT_RESP"

\* A packet about f tells what the last change made of it.
TruePacket(p, f) ==
    p # None /\ p.file = f =>
        /\ p.type \in Uploading => p.data = latest[f] /\ Whole(latest[f])
        /\ p.type \in Deleting => latest[f] = Absent

TruePackets(f) ==
    \A d \in Device : \A p \in Sent(d) \cup Coming(d) \cup Waiting(d) : TruePacket(p, f)

\* So does what is written into it.
TrueWrites(f) ==
    \A d \in Device, w \in Who :
        open[d][w] # None /\ open[d][w].file = f =>
            /\ open[d][w].data = latest[f] /\ Whole(latest[f])
            /\ dir[d][f] \in {Empty, latest[f]}

\* The watcher reads f as it was left by the last change, or notices that it is
\* not whole.
Settling(d, f) == dir[d][f] \in {latest[f], Empty, Absent}

TrueEvents(f) ==
    \A d \in Device : \A e \in Range(events[d]) \cup Range(batch[d]) :
        e.file = f =>
            /\ e.kind = "DELETE" => latest[f] = Absent
            /\ e.kind \in {"CREATE", "MOVED_TO"} => Settling(d, f)

\* A device that synchronises has nothing else to upload.
TrueSyncs(f) ==
    \A d \in Device : /\ Asks(d) => files[f] = latest[f]
                      /\ Asks(d) \/ Gets(d) => Settling(d, f)

\* The last change of f is on its way to the server
Carried(f) ==
    \E d \in Device :
        \/ \E p \in Sent(d) : p # None /\ p.file = f /\ p.type # "SYNC_DIR_REQ"
        \/ \E e \in Range(events[d]) \cup Range(batch[d]) :
              e.file = f /\ e.by = "user" /\ Reports(e)

\* f, as it is at the server, is on its way to d
Inbound(d, f) ==
    \/ \E p \in Range(toClient[d]) : p.file = f
    \/ listener[d] = "apply" /\ received[d].file = f
    \/ \E x \in Device : \E h \in Range(handler[x]) : h.to = d /\ h.packet.file = f
    \/ Asks(d) /\ dir[d][f] = Absent

BeingWritten(d, f) == \E w \in Who : open[d][w] # None /\ open[d][w].file = f

ServerCatchesUp(f) == files[f] # latest[f] => Carried(f)

DevicesCatchUp(f) ==
    \A d \in Device : dir[d][f] # latest[f] =>
        \/ files[f] # latest[f]
        \/ Inbound(d, f)
        \/ dir[d][f] = Empty /\ BeingWritten(d, f)

Followed(f) ==
    /\ TruePackets(f) /\ TrueWrites(f) /\ TrueEvents(f) /\ TrueSyncs(f)
    /\ ServerCatchesUp(f) /\ DevicesCatchUp(f)

\* The listener's variables fit together, and a version is whole.
Tidy ==
    /\ \A d \in Device :
          /\ open[d]["listener"] # None => listener[d] = "write"
          /\ listing[d] # << >> => listener[d] = "upload"
          /\ listener[d] = "upload" => received[d].type = "SYNC_DIR_ACCEPT_RESP"
          /\ listener[d] = "write" => received[d].type \notin Deleting
          /\ \A h \in Range(handler[d]) : h.packet.type # "SYNC_DIR_ACCEPT_RESP"
    /\ \A f \in File : latest[f] = Absent \/ Whole(latest[f])

AllFollowed == \A f \in File \ lost : Followed(f)

\* A step that does not concern f leaves what holds of it: it may add packets
\* that tell the truth, and MODIFY events.
LEMMA Beside ==
    ASSUME NEW f \in File, Followed(f),
           latest'[f] = latest[f], files'[f] = files[f],
           \A d \in Device : dir'[d][f] = dir[d][f],
           TruePackets(f)',
           \A d \in Device : (Asks(d)' => Asks(d)) /\ (Gets(d)' => Asks(d) \/ Gets(d)),
           \A d \in Device, w \in Who :
              open'[d][w] # None /\ open'[d][w].file = f => open'[d][w] = open[d][w],
           \A d \in Device : \A e \in Range(events'[d]) \cup Range(batch'[d]) :
              e.file = f => e \in Range(events[d]) \cup Range(batch[d]) \/ e.kind = "MODIFY",
           Carried(f) => Carried(f)',
           \A d \in Device : Inbound(d, f) => Inbound(d, f)',
           \A d \in Device : BeingWritten(d, f) => BeingWritten(d, f)'
    PROVE  Followed(f)'
<1>1. TruePackets(f)'
  OBVIOUS
<1>2. TrueWrites(f)'
  BY DEF Followed, TrueWrites
<1>3. \A d \in Device : Settling(d, f) => Settling(d, f)'
  BY DEF Settling
<1>4. TrueEvents(f)'
  BY <1>3 DEF Followed, TrueEvents
<1>5. TrueSyncs(f)'
  BY <1>3 DEF Followed, TrueSyncs
<1>6. ServerCatchesUp(f)'
  BY DEF Followed, ServerCatchesUp
<1>7. DevicesCatchUp(f)'
  BY DEF Followed, DevicesCatchUp
<1>8. QED BY <1>1, <1>2, <1>4, <1>5, <1>6, <1>7 DEF Followed

\* When nothing is under way about f, the server and the devices agree on it.
LEMMA Settled ==
    ASSUME TypeOK, NEW f \in File, Followed(f), ~InFlight(f)
    PROVE  /\ files[f] = latest[f]
           /\ \A d \in Device :
                 /\ dir[d][f] = latest[f]
                 /\ ~Asks(d) /\ ~Gets(d)
                 /\ \A p \in Sent(d) \cup Coming(d) \cup Waiting(d) : p # None => p.file # f
                 /\ \A w \in Who : open[d][w] # None => open[d][w].file # f
                 /\ \A e \in Range(events[d]) \cup Range(batch[d]) : e.file # f
<1>1. ASSUME NEW d \in Device
      PROVE  /\ \A p \in Sent(d) \cup Coming(d) \cup Waiting(d) : p # None =>
                   /\ p.file # f
                   /\ p.type \notin {"SYNC_DIR_REQ", "SYNC_DIR_ACCEPT_RESP"}
             /\ \A w \in Who : open[d][w] # None => open[d][w].file # f
             /\ \A e \in Range(events[d]) \cup Range(batch[d]) : e.file # f
  <2>1. /\ \A p \in {watched[d], typed[d], received[d]} : ~About(p, f)
        /\ \A h \in Range(handler[d]) : ~About(h.packet, f)
        /\ \A p \in Range(toServer[d]) \cup Range(toClient[d]) : ~About(p, f)
    BY DEF InFlight
  <2>2. \A p \in Sent(d) \cup Coming(d) \cup Waiting(d) : ~About(p, f)
    BY <2>1 DEF Sent, Coming, Waiting
  <2>3. QED BY <2>2 DEF InFlight, About, Who
<1>2. \A d \in Device : ~Asks(d) /\ ~Gets(d)
  BY <1>1 DEF Asks, Gets
<1>3. ~Carried(f)
  BY <1>1 DEF Carried
<1>4. files[f] = latest[f]
  BY <1>3 DEF Followed, ServerCatchesUp
<1>5. ASSUME NEW d \in Device PROVE dir[d][f] = latest[f]
  <2>1. ~BeingWritten(d, f)
    BY <1>1 DEF BeingWritten
  <2>2. ~Inbound(d, f)
    <3>1. \A p \in Range(toClient[d]) : p # None
      <4>1. toClient[d] \in Seq(Downstream)
        BY DEF TypeOK
      <4>2. QED BY <4>1, RangeType, Packets
    <3>2. \A x \in Device : \A h \in Range(handler[x]) : h.packet # None
      <4>1. \A x \in Device : handler[x] \in Seq(Handled)
        BY DEF TypeOK, Handled
      <4>2. \A h \in Handled : h.packet # None
        BY Packets DEF Handled
      <4>3. QED BY <4>1, <4>2, RangeType
    <3>3. listener[d] = "apply" => received[d] # None
      BY DEF TypeOK
    <3>4. QED BY <1>1, <1>2, <3>1, <3>2, <3>3 DEF Inbound, Coming, Waiting
  <2>3. QED BY <1>4, <2>1, <2>2 DEF Followed, DevicesCatchUp
<1>6. QED BY <1>1, <1>2, <1>4, <1>5

LEMMA InitFollowed == Init => Tidy /\ AllFollowed
<1> SUFFICES ASSUME Init PROVE Tidy /\ AllFollowed
  OBVIOUS
<1> USE DEF Init
<1>1. /\ latest = files /\ \A f \in File : files[f] = Absent \/ files[f] = 1
      /\ \A d \in Device : dir[d] = files \/ (d \in scenario.starting /\ \A f \in File : dir[d][f] = Absent)
  OBVIOUS
<1>2. \A d \in Device : /\ events[d] = << >> /\ batch[d] = << >> /\ handler[d] = << >>
                        /\ toServer[d] = << >> /\ toClient[d] = << >> /\ listing[d] = << >>
                        /\ received[d] = None /\ watched[d] = None /\ listener[d] = "read"
                        /\ open[d] = [w \in Who |-> None]
  BY DEF Who
<1>3. \A d \in Device : /\ typed[d] # None <=> d \in scenario.starting
                        /\ typed[d] # None => typed[d].type = "SYNC_DIR_REQ" /\ typed[d].file = NoName
  <2>1. None # [type |-> "SYNC_DIR_REQ", file |-> NoName, data |-> Absent, last |-> FALSE]
    <3>1. [type |-> "SYNC_DIR_REQ", file |-> NoName, data |-> Absent, last |-> FALSE] \in Upstream
      BY Contents DEF Upstream
    <3>2. QED BY <3>1, Packets
  <2>2. QED BY <2>1
<1>4. \A d \in Device : /\ Sent(d) = {None, typed[d]} /\ Coming(d) = {None} /\ Waiting(d) = {}
                        /\ Range(events[d]) = {} /\ Range(batch[d]) = {} /\ Range(handler[d]) = {}
  BY <1>2, RangeEmpty DEF Sent, Coming, Waiting
<1>5. Tidy
  BY <1>1, <1>2, <1>4, WhoIs, Contents DEF Tidy
<1>6. ASSUME NEW f \in File PROVE Followed(f)
  <2>1. TruePackets(f)
    BY <1>3, <1>4, ClientSyncAssumption DEF TruePackets, TruePacket
  <2>2. TrueWrites(f)
    BY <1>2 DEF TrueWrites
  <2>3. TrueEvents(f)
    BY <1>4 DEF TrueEvents
  <2>4. TrueSyncs(f)
    BY <1>1 DEF TrueSyncs, Settling
  <2>5. ServerCatchesUp(f)
    BY <1>1 DEF ServerCatchesUp
  <2>6. \A d \in Device : d \in scenario.starting => Asks(d)
    BY <1>3, <1>4 DEF Asks
  <2>7. DevicesCatchUp(f)
    BY <1>1, <2>6 DEF DevicesCatchUp, Inbound
  <2>8. QED BY <2>1, <2>2, <2>3, <2>4, <2>5, <2>7 DEF Followed
<1>7. QED BY <1>5, <1>6 DEF AllFollowed

LEMMA TidyStays ==
    ASSUME Tidy, UNCHANGED listenerVars,
           \A x \in Device : open'[x]["listener"] \in {None, open[x]["listener"]},
           \A x \in Device : \A h \in Range(handler'[x]) :
              h \in Range(handler[x]) \/ h.packet.type # "SYNC_DIR_ACCEPT_RESP",
           \A f \in File : latest'[f] \in {latest[f], Absent} \/ Whole(latest'[f])
    PROVE  Tidy'
BY DEF Tidy, listenerVars, Whole

\* What a change of the user's does, but for GetsSyncDir: it is a change of f,
\* at d, and what it takes out of the mailbox counts as lost.
ChangesOnly(d, f) ==
    /\ Local(d, f)
    /\ \A w \in Who : \/ open'[d][w] \in {None, open[d][w]}
                      \/ w = "user" /\ open'[d][w] # None /\ open'[d][w].file = f
    /\ \A w \in Who : open[d][w] # None /\ open[d][w].file # f => open'[d][w] = open[d][w]
    /\ \A e \in Range(events'[d]) : e \in Range(events[d]) \/ e.file = f
    /\ \A g \in File : g # f => latest'[g] = latest[g]
    /\ latest'[f] = Absent \/ Whole(latest'[f])
    /\ \A x \in Device : x # d => typed'[x] = typed[x]
    /\ \/ typed' = typed
       \/ /\ typed'[d] # None /\ typed'[d].file = f
          /\ typed'[d].type \in {"UPLOAD_REQ", "DELETE_REQ"}
          /\ \A g \in File \ lost' : ~About(typed[d], g)
    /\ lost \subseteq lost'
    /\ f \notin lost' => ~InFlight(f) /\ watching[d]
    /\ Unaware

\* DroppedFrom, for the mailbox of InputManager and for the watcher's
LEMMA Drops ==
    ASSUME NEW mailbox, NEW d \in Device, NEW S \in SUBSET File, DroppedFrom(mailbox, d, S)
    PROVE  /\ lost \subseteq lost' /\ S \subseteq lost'
           /\ \A g \in File \ lost' : mailbox[d] # None => ~About(mailbox[d], g)
BY DEF DroppedFrom

LEMMA TypesRequest ==
    ASSUME TypeOK, NEW d \in Device, NEW f \in File,
           NEW type \in {"UPLOAD_REQ", "DELETE_REQ"}, NEW c \in Content,
           Types(d, Request(type, f, c)),
           DroppedFrom(typed, d, IF InFlight(f) THEN {f} ELSE {})
    PROVE  /\ \A x \in Device : x # d => typed'[x] = typed[x]
           /\ typed'[d] = Request(type, f, c) /\ typed'[d] # None
           /\ typed'[d].file = f /\ typed'[d].type = type /\ typed'[d].data = c
           /\ \A g \in File \ lost' : ~About(typed[d], g)
           /\ lost \subseteq lost'
           /\ f \notin lost' => ~InFlight(f)
<1>1. Request(type, f, c) \in Upstream
  BY Requests
<1>2. Request(type, f, c) # None
  BY <1>1, Packets
<1>3. /\ typed'[d] = Request(type, f, c)
      /\ \A x \in Device : x # d => typed'[x] = typed[x]
  BY DEF Types, TypeOK
<1>4. PICK S \in SUBSET File : S = IF InFlight(f) THEN {f} ELSE {}
  OBVIOUS
<1>5. DroppedFrom(typed, d, S)
  BY <1>4
<1>6. /\ lost \subseteq lost' /\ S \subseteq lost'
      /\ \A g \in File \ lost' : typed[d] # None => ~About(typed[d], g)
  BY <1>5, Drops
<1>7. \A g \in File \ lost' : ~About(typed[d], g)
  BY <1>6 DEF About
<1>8. f \notin lost' => ~InFlight(f)
  BY <1>4, <1>6
<1>9. QED BY <1>2, <1>3, <1>6, <1>7, <1>8 DEF Request

LEMMA LostsIf ==
    ASSUME NEW b, NEW f \in File, LostIf(b, f)
    PROVE  lost \subseteq lost' /\ (f \notin lost' => ~b)
BY DEF LostIf

LEMMA ChangesMade ==
    ASSUME TypeOK, NEW kind, NEW d \in Device, NEW f \in File, NEW c \in Content,
           Changes(kind, d, f, c), c = Absent \/ Whole(c)
    PROVE  /\ \A g \in File : g # f => latest'[g] = latest[g]
           /\ latest'[f] = c
           /\ latest'[f] = Absent \/ Whole(latest'[f])
BY DEF Changes, TypeOK

LEMMA UserMakes ==
    ASSUME TypeOK, NEW d \in Device, NEW f \in File,
           MovesIn(d, f) \/ BeginsSave(d, f) \/ Removes(d, f) \/ Uploads(d, f) \/ Deletes(d, f)
    PROVE  ChangesOnly(d, f)
<1>1. /\ NewVersion \in Content /\ Absent \in Content /\ Whole(NewVersion) /\ LocalTypes
      /\ f \in File \cup {NoName} /\ "user" \in Who
  BY NewVersions, Contents, LocallyTyped, WhoIs
<1>2. UNCHANGED localVars => Local(d, f)
  BY <1>1 DEF Local, LocalTypes, localVars
<1>3. CASE MovesIn(d, f)
  <2>1. /\ Notify(d, "MOVED_TO", f, "user") /\ Unlinked(d, f) /\ LostIf(Unsafe(d, f), f)
        /\ dir' = [dir EXCEPT ![d][f] = NewVersion] /\ UNCHANGED typed /\ Unaware
        /\ Changes("move in", d, f, NewVersion)
    BY <1>3 DEF MovesIn
  <2>2. /\ events' \in [Device -> Seq(Event)]
        /\ \A x \in Device : x # d => events'[x] = events[x]
        /\ Range(events[d]) \subseteq Range(events'[d])
        /\ NewEvents(d, f, {"MOVED_TO"}, "user")
        /\ UNCHANGED watching
    BY <1>1, <2>1, NotifyAdds, ZenonT(30)
  <2>3. /\ open' \in [Device -> [Who -> Opened \cup {None}]]
        /\ \A x \in Device : x # d => open'[x] = open[x]
        /\ \A w \in Who : open'[d][w] = IF open[d][w] # None /\ open[d][w].file = f
                                        THEN None ELSE open[d][w]
    BY <1>1, <2>1, UnlinkedKeeps
  <2>4. Local(d, f)
    BY <1>1, <2>1, <2>2, <2>3 DEF Local, LocalTypes
  <2>5. lost \subseteq lost' /\ (f \notin lost' => ~InFlight(f) /\ watching[d])
    BY <2>1, LostsIf DEF Unsafe
  <2>6. QED BY <1>1, <2>1, <2>2, <2>3, <2>4, <2>5, ChangesMade, ZenonT(30) DEF ChangesOnly, NewEvents
<1>4. CASE BeginsSave(d, f)
  <2>1. /\ Opens(d, "user", f, NewVersion, "user") /\ open[d]["user"] = None
        /\ LostIf(Unsafe(d, f) \/ dir[d][f] # Absent, f) /\ UNCHANGED typed /\ Unaware
        /\ Changes("save", d, f, NewVersion)
    BY <1>4 DEF BeginsSave, Changes, Makes
  <2>2. /\ Local(d, f)
        /\ open'[d]["user"] = [file |-> f, data |-> NewVersion]
        /\ \A w \in Who : w # "user" => open'[d][w] = open[d][w]
        /\ NewEvents(d, f, {"CREATE", "MODIFY"}, "user")
    <3>1. /\ Local(d, f) /\ NewEvents(d, f, {"CREATE", "MODIFY"}, "user")
          /\ \A w \in Who : w # "user" => open'[d][w] = open[d][w]
      BY <1>1, <2>1, OpensKeeps, ZenonT(30)
    <3>2. open' = [open EXCEPT ![d]["user"] = [file |-> f, data |-> NewVersion]]
      BY <2>1 DEF Opens
    <3>3. QED BY <1>1, <3>1, <3>2 DEF LocalTypes
  <2>3. lost \subseteq lost' /\ (f \notin lost' => ~InFlight(f) /\ watching[d])
    BY <2>1, LostsIf DEF Unsafe
  <2>4. [file |-> f, data |-> NewVersion] # None
    BY <1>1, Packets DEF Opened
  <2>5. QED BY <1>1, <2>1, <2>2, <2>3, <2>4, ChangesMade DEF ChangesOnly, NewEvents
<1>5. ASSUME Removed(d, f, "user")
      PROVE  /\ Local(d, f)
             /\ \A w \in Who : open'[d][w] \in {None, open[d][w]}
             /\ \A w \in Who : open[d][w] # None /\ open[d][w].file # f => open'[d][w] = open[d][w]
             /\ \A e \in Range(events'[d]) : e \in Range(events[d]) \/ e.file = f
  <2>1. /\ Local(d, f)
        /\ \A w \in Who : open'[d][w] \in {None, open[d][w]}
        /\ \A w \in Who : open[d][w] # None /\ open[d][w].file # f => open'[d][w] = open[d][w]
        /\ NewEvents(d, f, {"DELETE"}, "user")
    BY <1>1, <1>5, RemovedKeeps, ZenonT(30)
  <2>2. QED BY <2>1 DEF NewEvents
<1>6. CASE Removes(d, f)
  <2>1. /\ Removed(d, f, "user") /\ LostIf(Unsafe(d, f), f) /\ UNCHANGED typed /\ Unaware
        /\ Changes("remove", d, f, Absent)
    BY <1>6 DEF Removes
  <2>2. lost \subseteq lost' /\ (f \notin lost' => ~InFlight(f) /\ watching[d])
    BY <2>1, LostsIf DEF Unsafe
  <2>3. QED BY <1>1, <1>5, <2>1, <2>2, ChangesMade DEF ChangesOnly
<1>7. CASE Uploads(d, f)
  <2>1. /\ Types(d, Request("UPLOAD_REQ", f, NewVersion)) /\ Unaware /\ UNCHANGED localVars
        /\ DroppedFrom(typed, d, IF InFlight(f) THEN {f} ELSE {})
        /\ Changes("upload", d, f, NewVersion)
        /\ watching[d]
    BY <1>7 DEF Uploads, Types
  <2>2. /\ \A x \in Device : x # d => typed'[x] = typed[x]
        /\ typed'[d] # None /\ typed'[d].file = f /\ typed'[d].type = "UPLOAD_REQ"
        /\ \A g \in File \ lost' : ~About(typed[d], g)
        /\ lost \subseteq lost' /\ (f \notin lost' => ~InFlight(f))
    BY <1>1, <2>1, TypesRequest, ZenonT(30)
  <2>3. QED BY <1>1, <1>2, <2>1, <2>2, ChangesMade DEF ChangesOnly, localVars
<1>8. CASE Deletes(d, f)
  <2>1. /\ Types(d, Request("DELETE_REQ", f, Absent)) /\ Unaware
        /\ DroppedFrom(typed, d, IF InFlight(f) THEN {f} ELSE {})
        /\ \/ Changes("delete", d, f, Absent) /\ Removed(d, f, "user")
           \/ Changes("delete_safe", d, f, Absent) /\ UNCHANGED localVars
        /\ watching[d]
    BY <1>8 DEF Deletes, Types
  <2>2. /\ \A x \in Device : x # d => typed'[x] = typed[x]
        /\ typed'[d] # None /\ typed'[d].file = f /\ typed'[d].type = "DELETE_REQ"
        /\ \A g \in File \ lost' : ~About(typed[d], g)
        /\ lost \subseteq lost' /\ (f \notin lost' => ~InFlight(f))
    BY <1>1, <2>1, TypesRequest, ZenonT(30)
  <2>3. /\ \A g \in File : g # f => latest'[g] = latest[g]
        /\ latest'[f] = Absent
    BY <1>1, <2>1, ChangesMade
  <2>4. CASE Removed(d, f, "user")
    BY <1>5, <2>1, <2>2, <2>3, <2>4 DEF ChangesOnly
  <2>5. CASE UNCHANGED localVars
    BY <1>2, <2>1, <2>2, <2>3, <2>5 DEF ChangesOnly, localVars
  <2>6. QED BY <2>1, <2>4, <2>5
<1>9. QED BY <1>3, <1>4, <1>6, <1>7, <1>8

\* A change of one file leaves the others alone.
LEMMA UserBeside ==
    ASSUME TypeOK, NEW d \in Device, NEW f \in File, ChangesOnly(d, f),
           NEW g \in File, g # f, g \notin lost', Followed(g)
    PROVE  Followed(g)'
<1>1. /\ UNCHANGED <<batch, watched, listener, received, toServer, toClient, files, handler>>
      /\ latest'[g] = latest[g] /\ Local(d, f)
  BY DEF ChangesOnly, Unaware, watcherVars, listenerVars, serverVars
<1>2. \A x \in Device : dir'[x][g] = dir[x][g]
  BY <1>1 DEF Local
<1>3. \A x \in Device : Coming(x)' = Coming(x) /\ Waiting(x)' = Waiting(x)
  BY <1>1 DEF Coming, Waiting
<1>4. \A x \in Device : \A p \in Sent(x)' :
          p \in Sent(x) \/ (p # None /\ p.file = f /\ p.type \in {"UPLOAD_REQ", "DELETE_REQ"})
  <2>1. \A x \in Device : typed'[x] = typed[x] \/
            (typed'[x] # None /\ typed'[x].file = f /\ typed'[x].type \in {"UPLOAD_REQ", "DELETE_REQ"})
    BY DEF ChangesOnly
  <2>2. QED BY <1>1, <2>1 DEF Sent
<1>5. \A x \in Device : \A p \in Sent(x) : p \in Sent(x)' \/ ~About(p, g)
  <2>1. \A x \in Device : typed'[x] = typed[x] \/ ~About(typed[x], g)
    BY DEF ChangesOnly
  <2>2. QED BY <1>1, <2>1 DEF Sent
<1>6. TruePackets(g)'
  <2>1. \A p : TruePacket(p, g) => TruePacket(p, g)'
    BY <1>1 DEF TruePacket
  <2>2. \A x \in Device : \A p \in Sent(x)' : TruePacket(p, g)'
    <3>1. ASSUME NEW x \in Device, NEW p \in Sent(x)' PROVE TruePacket(p, g)'
      <4>1. CASE p \in Sent(x)
        BY <2>1, <4>1 DEF Followed, TruePackets
      <4>2. CASE p.file = f
        BY <4>2 DEF TruePacket
      <4>3. QED BY <1>4, <4>1, <4>2
    <3>2. QED BY <3>1
  <2>3. QED BY <1>3, <2>1, <2>2 DEF Followed, TruePackets
<1>7. \A x \in Device : (Asks(x)' <=> Asks(x)) /\ (Gets(x)' => Gets(x))
  BY <1>3, <1>4, <1>5 DEF Asks, Gets, About
<1>8. \A x \in Device, w \in Who :
         /\ open'[x][w] # None /\ open'[x][w].file = g => open'[x][w] = open[x][w]
         /\ open[x][w] # None /\ open[x][w].file = g => open'[x][w] = open[x][w]
  BY <1>1 DEF ChangesOnly, Local
<1>9. \A x \in Device : /\ \A e \in Range(events'[x]) : e.file = g => e \in Range(events[x])
                        /\ Range(events[x]) \subseteq Range(events'[x])
  BY <1>1 DEF ChangesOnly, Local
<1>10. Carried(g) => Carried(g)'
  <2>1. ASSUME NEW x \in Device, NEW p \in Sent(x), p # None, p.file = g, p.type # "SYNC_DIR_REQ"
        PROVE  Carried(g)'
    <3>1. p \in Sent(x)'
      BY <1>5, <2>1 DEF About
    <3>2. QED BY <2>1, <3>1 DEF Carried
  <2>2. ASSUME NEW x \in Device, NEW e \in Range(events[x]) \cup Range(batch[x]),
               e.file = g, e.by = "user", Reports(e)
        PROVE  Carried(g)'
    <3>1. e \in Range(events'[x]) \cup Range(batch'[x])
      BY <1>1, <1>9
    <3>2. QED BY <2>2, <3>1 DEF Carried, Reports
  <2>3. QED BY <2>1, <2>2 DEF Carried
<1>11. \A x \in Device : Inbound(x, g) => Inbound(x, g)'
  BY <1>1, <1>2, <1>7 DEF Inbound
<1>12. \A x \in Device : BeingWritten(x, g) => BeingWritten(x, g)'
  BY <1>8 DEF BeingWritten
<1>13. files'[g] = files[g]
  BY <1>1
<1>14. \A x \in Device : \A e \in Range(events'[x]) \cup Range(batch'[x]) :
          e.file = g => e \in Range(events[x]) \cup Range(batch[x]) \/ e.kind = "MODIFY"
  BY <1>1, <1>9
<1>15. QED BY <1>1, <1>2, <1>6, <1>7, <1>8, <1>10, <1>11, <1>12, <1>13, <1>14, Beside

\* The new version, or the deletion, is the only thing that is under way about
\* f if no change of f was.
LEMMA UserFollowed ==
    ASSUME TypeOK, NEW d \in Device, NEW f \in File,
           MovesIn(d, f) \/ BeginsSave(d, f) \/ Removes(d, f) \/ Uploads(d, f) \/ Deletes(d, f),
           f \notin lost', Followed(f)
    PROVE  Followed(f)'
<1>1. ChangesOnly(d, f) /\ ~InFlight(f) /\ watching[d]
  BY UserMakes DEF ChangesOnly
<1>2. /\ UNCHANGED <<batch, watched, listener, received, toServer, toClient, files, handler>>
      /\ Local(d, f) /\ LocalTypes
  BY <1>1, LocallyTyped DEF ChangesOnly, Unaware, watcherVars, listenerVars, serverVars
<1>3. PICK v : v = latest'[f]
  OBVIOUS
<1>4. v = Absent \/ Whole(v)
  BY <1>1, <1>3 DEF ChangesOnly
<1>5. /\ files[f] = latest[f]
      /\ \A x \in Device :
           /\ dir[x][f] = latest[f] /\ ~Asks(x) /\ ~Gets(x)
           /\ \A p \in Sent(x) \cup Coming(x) \cup Waiting(x) : p # None => p.file # f
           /\ \A w \in Who : open[x][w] # None => open[x][w].file # f
           /\ \A e \in Range(events[x]) \cup Range(batch[x]) : e.file # f
  BY <1>1, Settled
<1>6. \A x \in Device : Coming(x)' = Coming(x) /\ Waiting(x)' = Waiting(x)
  BY <1>2 DEF Coming, Waiting
<1>7. \A x \in Device : \A p \in Sent(x)' :
          \/ p \in Sent(x)
          \/ p = typed'[d] /\ p # None /\ p.file = f /\ p.type \in {"UPLOAD_REQ", "DELETE_REQ"}
  <2>1. \A x \in Device : typed'[x] = typed[x] \/
            (x = d /\ typed'[x] # None /\ typed'[x].file = f /\ typed'[x].type \in {"UPLOAD_REQ", "DELETE_REQ"})
    BY <1>1 DEF ChangesOnly
  <2>2. QED BY <1>2, <2>1 DEF Sent
<1>8. \A x \in Device : ~Asks(x)' /\ ~Gets(x)'
  BY <1>5, <1>6, <1>7 DEF Asks, Gets
\* What each of the changes does to the file and to the mailbox
<1>9. /\ \/ typed' = typed
         \/ typed'[d].type = "UPLOAD_REQ" /\ typed'[d].data = v /\ Whole(v)
         \/ typed'[d].type = "DELETE_REQ" /\ v = Absent
      /\ \A w \in Who : open'[d][w] # None /\ open'[d][w].file = f =>
            open'[d][w].data = v /\ Whole(v) /\ dir'[d][f] = Empty
      /\ \A e \in Range(events'[d]) : e.file = f =>
            \/ e.kind = "DELETE" /\ v = Absent
            \/ e.kind \in {"CREATE", "MOVED_TO"} /\ dir'[d][f] \in {v, Empty}
            \/ e.kind = "MODIFY"
      /\ \/ \E e \in Range(events'[d]) : e.file = f /\ e.by = "user" /\ Reports(e)
         \/ typed'[d] # None /\ typed'[d].file = f /\ typed'[d].type # "SYNC_DIR_REQ"
      /\ \/ dir'[d][f] \in {v, dir[d][f]}
         \/ dir'[d][f] = Empty /\ BeingWritten(d, f)'
  <2>1. /\ NewVersion \in Content /\ Absent \in Content /\ Whole(NewVersion)
        /\ f \in File \cup {NoName} /\ "user" \in Who /\ ~Whole(Absent)
    BY NewVersions, Contents, WhoIs
  <2>2. \A e \in Range(events[d]) : e.file # f
    BY <1>5
  <2>3. CASE MovesIn(d, f)
    <3>1. /\ Notify(d, "MOVED_TO", f, "user") /\ Unlinked(d, f) /\ UNCHANGED typed
          /\ dir' = [dir EXCEPT ![d][f] = NewVersion]
          /\ Changes("move in", d, f, NewVersion)
      BY <2>3 DEF MovesIn
    <3>2. /\ NewEvents(d, f, {"MOVED_TO"}, "user")
          /\ \/ \E e \in Range(events'[d]) : e.file = f /\ e.kind = "MOVED_TO" /\ e.by = "user"
             \/ \E e \in Range(events[d]) : e.file = f
      BY <1>1, <1>2, <3>1, NotifyAdds, ZenonT(30)
    <3>3. \A w \in Who : open'[d][w] = None \/ open'[d][w].file # f
      <4>1. \A w \in Who : open'[d][w] = IF open[d][w] # None /\ open[d][w].file = f
                                         THEN None ELSE open[d][w]
        BY <1>2, <3>1, UnlinkedKeeps, ZenonT(30)
      <4>2. QED BY <1>5, <4>1
    <3>4. v = NewVersion /\ dir'[d][f] = NewVersion
      BY <1>2, <1>3, <2>1, <3>1, ChangesMade, ZenonT(30) DEF LocalTypes
    <3>5. QED BY <2>2, <3>1, <3>2, <3>3, <3>4 DEF NewEvents, Reports
  <2>4. CASE BeginsSave(d, f)
    <3>1. /\ Opens(d, "user", f, NewVersion, "user") /\ UNCHANGED typed
          /\ LostIf(Unsafe(d, f) \/ dir[d][f] # Absent, f)
          /\ Changes("save", d, f, NewVersion)
      BY <2>4 DEF BeginsSave
    <3>2. dir[d][f] = Absent
      BY <3>1, LostsIf
    <3>3. /\ NewEvents(d, f, {"CREATE"}, "user")
          /\ dir'[d][f] = Empty
          /\ \A w \in Who : w # "user" => open'[d][w] = open[d][w]
          /\ \E e \in Range(events'[d]) : e.file = f /\ e.kind = "CREATE" /\ e.by = "user"
      <4>1. Notify(d, "CREATE", f, "user") /\ dir' = [dir EXCEPT ![d][f] = Empty]
        BY <3>1, <3>2 DEF Opens
      <4>2. /\ NewEvents(d, f, {"CREATE"}, "user")
            /\ \/ \E e \in Range(events'[d]) : e.file = f /\ e.kind = "CREATE" /\ e.by = "user"
               \/ \E e \in Range(events[d]) : e.file = f
        BY <1>1, <1>2, <4>1, NotifyAdds, ZenonT(30)
      <4>3. \A w \in Who : w # "user" => open'[d][w] = open[d][w]
        BY <1>2, <2>1, <3>1, OpensKeeps, ZenonT(30)
      <4>4. dir'[d][f] = Empty
        BY <1>2, <4>1 DEF LocalTypes
      <4>5. QED BY <2>2, <4>2, <4>3, <4>4
    <3>4. open' = [open EXCEPT ![d]["user"] = [file |-> f, data |-> NewVersion]]
      BY <3>1 DEF Opens
    <3>5. open'[d]["user"] = [file |-> f, data |-> NewVersion]
      BY <1>2, <2>1, <3>4 DEF LocalTypes
    <3>6. [file |-> f, data |-> NewVersion] # None
      BY <2>1, Packets DEF Opened
    <3>7. BeingWritten(d, f)'
      BY <2>1, <3>5, <3>6 DEF BeingWritten
    <3>8. v = NewVersion
      BY <1>3, <2>1, <3>1, ChangesMade
    <3>9. \A w \in Who : open'[d][w] # None /\ open'[d][w].file = f => open'[d][w].data = v
      BY <1>5, <3>3, <3>5, <3>8
    <3>10. QED BY <2>1, <2>2, <3>1, <3>2, <3>3, <3>7, <3>8, <3>9 DEF NewEvents, Reports
  <2>5. ASSUME Removed(d, f, "user"), v = Absent
        PROVE  /\ \A w \in Who : open'[d][w] # None => open'[d][w].file # f
               /\ \A e \in Range(events'[d]) : e.file = f => e.kind = "DELETE"
               /\ dir[d][f] # Absent =>
                     \E e \in Range(events'[d]) : e.file = f /\ e.by = "user" /\ Reports(e)
               /\ dir'[d][f] = v
    <3>1. /\ dir'[d][f] = Absent
          /\ \A w \in Who : open'[d][w] \in {None, open[d][w]}
          /\ NewEvents(d, f, {"DELETE"}, "user")
          /\ f \in File /\ dir[d][f] # Absent =>
                \/ \E e \in Range(events'[d]) : e.file = f /\ e.kind = "DELETE" /\ e.by = "user"
                \/ \E e \in Range(events[d]) : e.file = f
      BY <1>1, <1>2, <2>1, <2>5, RemovedKeeps, ZenonT(30)
    <3>2. QED BY <1>5, <2>2, <2>5, <3>1 DEF NewEvents, Reports
  <2>6. CASE Removes(d, f)
    <3>1. /\ Removed(d, f, "user") /\ UNCHANGED typed /\ dir[d][f] # Absent
          /\ Changes("remove", d, f, Absent)
      BY <2>6 DEF Removes
    <3>2. v = Absent
      BY <1>3, <2>1, <3>1, ChangesMade
    <3>3. QED BY <2>5, <3>1, <3>2
  <2>7. CASE Uploads(d, f)
    <3>1. /\ Types(d, Request("UPLOAD_REQ", f, NewVersion)) /\ UNCHANGED localVars
          /\ DroppedFrom(typed, d, IF InFlight(f) THEN {f} ELSE {})
          /\ Changes("upload", d, f, NewVersion)
      BY <2>7 DEF Uploads
    <3>2. /\ typed'[d] # None /\ typed'[d].file = f /\ typed'[d].type = "UPLOAD_REQ"
          /\ typed'[d].data = NewVersion
      <4>1. typed'[d] = Request("UPLOAD_REQ", f, NewVersion)
        BY <3>1 DEF Types, TypeOK
      <4>2. typed'[d] # None
        BY <2>1, <4>1, Requests, Packets
      <4>3. QED BY <4>1, <4>2 DEF Request
    <3>3. v = NewVersion
      BY <1>3, <2>1, <3>1, ChangesMade
    <3>4. QED BY <1>5, <2>1, <2>2, <3>1, <3>2, <3>3 DEF localVars
  <2>8. CASE Deletes(d, f)
    <3>1. /\ Types(d, Request("DELETE_REQ", f, Absent))
          /\ DroppedFrom(typed, d, IF InFlight(f) THEN {f} ELSE {})
          /\ \/ Changes("delete", d, f, Absent) /\ Removed(d, f, "user")
             \/ Changes("delete_safe", d, f, Absent) /\ UNCHANGED localVars
      BY <2>8 DEF Deletes
    <3>2. typed'[d] # None /\ typed'[d].file = f /\ typed'[d].type = "DELETE_REQ"
      BY <2>1, <3>1, TypesRequest, ZenonT(30)
    <3>3. v = Absent
      BY <1>3, <2>1, <3>1, ChangesMade
    <3>4. CASE Removed(d, f, "user")
      BY <2>5, <3>2, <3>3, <3>4
    <3>5. CASE UNCHANGED localVars
      BY <1>5, <2>2, <3>2, <3>3, <3>5 DEF localVars
    <3>6. QED BY <3>1, <3>4, <3>5
  <2>9. QED BY <2>3, <2>4, <2>6, <2>7, <2>8
<1>10. TruePackets(f)'
  <2>1. \A x \in Device : \A p \in Sent(x)' \cup Coming(x)' \cup Waiting(x)' : TruePacket(p, f)'
    <3>1. ASSUME NEW x \in Device, NEW p \in Sent(x)' \cup Coming(x)' \cup Waiting(x)'
          PROVE  TruePacket(p, f)'
      <4>1. CASE p \in Sent(x) \cup Coming(x) \cup Waiting(x)
        BY <1>5, <4>1 DEF TruePacket
      <4>2. CASE p = typed'[d] /\ p \notin Sent(x) /\ p \in Sent(x)'
        <5>1. typed' # typed
          BY <1>2, <1>7, <4>2 DEF Sent
        <5>2. QED BY <1>3, <1>9, <4>2, <5>1 DEF TruePacket, Uploading, Deleting
      <4>3. QED BY <1>6, <1>7, <4>1, <4>2
    <3>2. QED BY <3>1
  <2>2. QED BY <2>1 DEF TruePackets
<1>11. TrueWrites(f)'
  <2>1. \A x \in Device : x # d => open'[x] = open[x]
    BY <1>2 DEF Local
  <2>2. QED BY <1>3, <1>5, <1>9, <2>1 DEF TrueWrites
<1>12. TrueEvents(f)'
  <2>1. \A x \in Device : x # d => events'[x] = events[x]
    BY <1>2 DEF Local
  <2>2. \A x \in Device : \A e \in Range(events'[x]) \cup Range(batch'[x]) : e.file = f =>
            x = d /\ e \in Range(events'[d])
    BY <1>2, <1>5, <2>1
  <2>3. QED BY <1>3, <1>9, <2>2 DEF TrueEvents, Settling
<1>13. TrueSyncs(f)'
  BY <1>8 DEF TrueSyncs
<1>14. ServerCatchesUp(f)'
  <2>1. Carried(f)'
    <3>1. CASE \E e \in Range(events'[d]) : e.file = f /\ e.by = "user" /\ Reports(e)
      BY <3>1 DEF Carried, Reports
    <3>2. CASE typed'[d] # None /\ typed'[d].file = f /\ typed'[d].type # "SYNC_DIR_REQ"
      <4>1. typed'[d] \in Sent(d)'
        BY DEF Sent
      <4>2. QED BY <3>2, <4>1 DEF Carried
    <3>3. QED BY <1>9, <3>1, <3>2
  <2>2. QED BY <2>1 DEF ServerCatchesUp
<1>15. DevicesCatchUp(f)'
  <2>1. \A x \in Device : x # d => dir'[x] = dir[x]
    BY <1>2 DEF Local
  <2>2. \A x \in Device : dir'[x][f] # v => files'[f] # v \/ (dir'[x][f] = Empty /\ BeingWritten(x, f)')
    BY <1>2, <1>5, <1>9, <2>1
  <2>3. QED BY <1>3, <2>2 DEF DevicesCatchUp
<1>16. QED BY <1>10, <1>11, <1>12, <1>13, <1>14, <1>15 DEF Followed

LEMMA GetsSyncDirFollowed ==
    ASSUME TypeOK, NEW d \in Device, NEW g \in File, GetsSyncDir(d, g),
           NEW f \in File, f \notin lost', Followed(f)
    PROVE  Followed(f)'
<1>1. /\ UNCHANGED <<dir, open, events, batch, watched, listener, received, toServer, toClient,
                     files, handler, latest>>
      /\ Types(d, Request("SYNC_DIR_REQ", NoName, Absent))
      /\ DroppedFrom(typed, d, {x \in File : InFlight(x)})
  BY DEF GetsSyncDir, Unaware, localVars, watcherVars, listenerVars, serverVars
<1>2. PICK S \in SUBSET File : S = {x \in File : InFlight(x)}
  OBVIOUS
<1>3. S \subseteq lost'
  BY <1>1, <1>2, Drops
<1>4. ~InFlight(f)
  BY <1>2, <1>3
<1>5. /\ files[f] = latest[f]
      /\ \A x \in Device :
           /\ dir[x][f] = latest[f]
           /\ \A p \in Sent(x) \cup Coming(x) \cup Waiting(x) : p # None => p.file # f
           /\ \A w \in Who : open[x][w] # None => open[x][w].file # f
           /\ \A e \in Range(events[x]) \cup Range(batch[x]) : e.file # f
  BY <1>4, Settled
<1>6. \A x \in Device : typed'[x] = typed[x] \/ typed'[x].file = NoName
  BY <1>1 DEF Types, Request, TypeOK
<1>7. \A x \in Device : \A p \in Sent(x)' \cup Coming(x)' \cup Waiting(x)' : p # None => p.file # f
  BY <1>1, <1>5, <1>6, ClientSyncAssumption DEF Sent, Coming, Waiting
<1>8. TruePackets(f)'
  BY <1>7 DEF TruePackets, TruePacket
<1>9. TrueWrites(f)' /\ TrueEvents(f)'
  BY <1>1, <1>5 DEF TrueWrites, TrueEvents
<1>10. TrueSyncs(f)' /\ ServerCatchesUp(f)' /\ DevicesCatchUp(f)'
  BY <1>1, <1>5 DEF TrueSyncs, Settling, ServerCatchesUp, DevicesCatchUp
<1>11. QED BY <1>8, <1>9, <1>10 DEF Followed

\* The change stays on its way to the server.
LEMMA CarriedStays ==
    ASSUME NEW f \in File, Carried(f),
           \A x \in Device : \A p \in Sent(x) : p # None /\ p.file = f => p \in Sent(x)',
           \A x \in Device : \A e \in Range(events[x]) \cup Range(batch[x]) :
              e.file = f => e \in Range(events'[x]) \cup Range(batch'[x])
    PROVE  Carried(f)'
<1>1. ASSUME NEW x \in Device, NEW p \in Sent(x), p # None, p.file = f, p.type # "SYNC_DIR_REQ"
      PROVE  Carried(f)'
  <2>1. p \in Sent(x)'
    BY <1>1
  <2>2. QED BY <1>1, <2>1 DEF Carried
<1>2. ASSUME NEW x \in Device, NEW e \in Range(events[x]) \cup Range(batch[x]),
             e.file = f, e.by = "user", Reports(e)
      PROVE  Carried(f)'
  <2>1. e \in Range(events'[x]) \cup Range(batch'[x])
    BY <1>2
  <2>2. QED BY <1>2, <2>1 DEF Carried, Reports
<1>3. QED BY <1>1, <1>2 DEF Carried

\* A step that sends nothing.
SendsNothing ==
    /\ UNCHANGED <<watched, typed, toServer, toClient, files, handler, latest>>
    /\ \A x \in Device : received'[x] \in {received[x], None}

LEMMA NothingSent ==
    ASSUME SendsNothing, NEW f \in File, Followed(f)
    PROVE  /\ TruePackets(f)'
           /\ \A x \in Device : /\ Sent(x)' = Sent(x) /\ (Asks(x)' <=> Asks(x))
                                /\ Coming(x)' \subseteq Coming(x) \cup {None}
                                /\ Gets(x)' => Gets(x)
<1>1. \A x \in Device : /\ Sent(x)' = Sent(x) /\ Waiting(x)' = Waiting(x)
                        /\ Coming(x)' \subseteq Coming(x) \cup {None}
  BY DEF SendsNothing, Sent, Coming, Waiting
<1>2. \A p : TruePacket(p, f) => TruePacket(p, f)'
  BY DEF SendsNothing, TruePacket
<1>3. TruePacket(None, f)
  BY DEF TruePacket
<1>4. TruePackets(f)'
  BY <1>1, <1>2, <1>3 DEF Followed, TruePackets
<1>5. \A x \in Device : (Asks(x)' <=> Asks(x)) /\ (Gets(x)' => Gets(x))
  BY <1>1 DEF Asks, Gets
<1>6. QED BY <1>1, <1>4, <1>5

\* A file is finished: what is written is the last version.
LEMMA WritesFollowed ==
    ASSUME TypeOK, NEW d \in Device, NEW who \in Who, Writes(d, who), SendsNothing,
           UNCHANGED batch,
           \A x \in Device : listener[x] = "apply" => /\ listener'[x] = "apply"
                                                      /\ received'[x] = received[x],
           NEW f \in File, Followed(f)
    PROVE  Followed(f)'
<1>1. PICK o : o = open[d][who]
  OBVIOUS
<1>2. LocalTypes
  BY LocallyTyped
<1>3. /\ o = None => UNCHANGED <<dir, events>>
      /\ open' = [open EXCEPT ![d][who] = None]
      /\ LocalTypes'
      /\ \A x \in Device : x # d => dir'[x] = dir[x] /\ open'[x] = open[x] /\ events'[x] = events[x]
      /\ Range(events[d]) \subseteq Range(events'[d])
      /\ o # None =>
            /\ o \in Opened
            /\ \A g \in File : g # o.file => dir'[d][g] = dir[d][g]
            /\ NewEvents(d, o.file, {"MODIFY"}, who)
            /\ o.data # Empty /\ dir[d][o.file] \in {Empty, o.data} => dir'[d][o.file] = o.data
  BY <1>1, <1>2, WritesKeeps, SMTT(30)
<1>4. /\ open'[d][who] = None
      /\ \A w \in Who : w # who => open'[d][w] = open[d][w]
  BY <1>2, <1>3 DEF LocalTypes
<1>5. /\ TruePackets(f)'
      /\ \A x \in Device : Sent(x)' = Sent(x) /\ (Asks(x)' <=> Asks(x)) /\ (Gets(x)' => Gets(x))
  BY NothingSent
<1>6. latest' = latest /\ files' = files /\ toClient' = toClient /\ handler' = handler
  BY DEF SendsNothing
<1>7. /\ \A x \in Device : Range(events[x]) \subseteq Range(events'[x])
      /\ \A x \in Device : \A e \in Range(events'[x]) :
            e \in Range(events[x]) \/ e.kind = "MODIFY"
  BY <1>3 DEF NewEvents
<1>8. Carried(f) => Carried(f)'
  BY <1>5, <1>7, CarriedStays
<1>9. ASSUME NEW x \in Device, dir'[x][f] = dir[x][f], Inbound(x, f) PROVE Inbound(x, f)'
  BY <1>5, <1>6, <1>9 DEF Inbound
<1>10. CASE o = None \/ o.file # f
  <2>1. \A x \in Device : dir'[x][f] = dir[x][f]
    BY <1>3, <1>10
  <2>2. \A x \in Device, w \in Who :
          /\ open'[x][w] # None => open'[x][w] = open[x][w]
          /\ open[x][w] # None /\ open[x][w].file = f => open'[x][w] = open[x][w]
    BY <1>1, <1>3, <1>4, <1>10
  <2>3. \A x \in Device : BeingWritten(x, f) => BeingWritten(x, f)'
    BY <2>2 DEF BeingWritten
  <2>4. \A x \in Device : \A e \in Range(events'[x]) \cup Range(batch'[x]) :
          e.file = f => e \in Range(events[x]) \cup Range(batch[x]) \/ e.kind = "MODIFY"
    BY <1>7
  <2>5. \A x \in Device : Inbound(x, f) => Inbound(x, f)'
    BY <1>9, <2>1
  <2>6. QED BY <1>5, <1>6, <1>8, <2>1, <2>2, <2>3, <2>4, <2>5, Beside
<1>11. CASE o # None /\ o.file = f
  <2>1. o.data = latest[f] /\ Whole(latest[f]) /\ dir[d][f] \in {Empty, latest[f]}
    BY <1>1, <1>11 DEF Followed, TrueWrites
  <2>2. dir'[d][f] = latest[f]
    BY <1>3, <1>11, <2>1, Contents
  <2>3. TrueWrites(f)'
    BY <1>3, <1>4, <1>6, <2>2 DEF Followed, TrueWrites
  <2>4. \A x \in Device : Settling(x, f) => Settling(x, f)'
    BY <1>3, <1>6, <2>2 DEF Settling
  <2>5. TrueEvents(f)'
    BY <1>6, <1>7, <2>4 DEF Followed, TrueEvents
  <2>6. TrueSyncs(f)'
    BY <1>5, <1>6, <2>4 DEF Followed, TrueSyncs
  <2>7. ServerCatchesUp(f)'
    BY <1>6, <1>8 DEF Followed, ServerCatchesUp
  <2>8. \A x \in Device : x # d => dir'[x] = dir[x] /\ (BeingWritten(x, f) => BeingWritten(x, f)')
    BY <1>3 DEF BeingWritten
  <2>9. DevicesCatchUp(f)'
    BY <1>6, <1>9, <2>2, <2>8 DEF Followed, DevicesCatchUp
  <2>10. QED BY <1>5, <2>3, <2>5, <2>6, <2>7, <2>9 DEF Followed
<1>12. QED BY <1>10, <1>11

LEMMA EndsSaveFollowed ==
    ASSUME TypeOK, NEW d \in Device, EndsSave(d), NEW f \in File, Followed(f)
    PROVE  Followed(f)'
<1>1. /\ Writes(d, "user") /\ "user" \in Who /\ UNCHANGED <<batch, listener, received>>
      /\ UNCHANGED <<watched, typed, toServer, toClient, files, handler, latest>>
  BY WhoIs DEF EndsSave, Unaware, watcherVars, listenerVars, serverVars, history, outcomes
<1>2. SendsNothing
  BY <1>1 DEF SendsNothing
<1>3. \A x \in Device : listener[x] = "apply" => /\ listener'[x] = "apply"
                                                 /\ received'[x] = received[x]
  BY <1>1
<1>4. QED BY <1>1, <1>2, <1>3, WritesFollowed, ZenonT(30)

LEMMA ReadsEventsFollowed ==
    ASSUME TypeOK, NEW d \in Device, ReadsEvents(d) \/ ClearsFlag(d), NEW f \in File, Followed(f)
    PROVE  Followed(f)'
<1>1. /\ UNCHANGED <<dir, open, listener, received, watched, typed, toServer, toClient, files,
                     handler, latest>>
      /\ \/ UNCHANGED <<events, batch>>
         \/ /\ watcher[d] = "read" /\ batch'[d] = events[d] /\ events'[d] = << >>
            /\ \A x \in Device : x # d => batch'[x] = batch[x] /\ events'[x] = events[x]
  BY DEF ReadsEvents, ClearsFlag, TypeOK, localVars, listenerVars, mailboxes, remoteVars, serverVars,
         history, outcomes
<1>2. \A x \in Device : Range(events'[x]) \cup Range(batch'[x]) = Range(events[x]) \cup Range(batch[x])
  <2>1. watcher[d] = "read" => batch[d] = << >>
    BY DEF TypeOK
  <2>2. QED BY <1>1, <2>1, RangeEmpty
<1>3. SendsNothing
  BY <1>1 DEF SendsNothing
<1>4. /\ TruePackets(f)'
      /\ \A x \in Device : Sent(x)' = Sent(x) /\ (Asks(x)' <=> Asks(x)) /\ (Gets(x)' => Gets(x))
  BY <1>3, NothingSent
<1>5. Carried(f) => Carried(f)'
  BY <1>2, <1>4, CarriedStays
<1>6. \A x \in Device : Inbound(x, f) => Inbound(x, f)'
  BY <1>1, <1>4 DEF Inbound
<1>7. \A x \in Device : BeingWritten(x, f) => BeingWritten(x, f)'
  BY <1>1 DEF BeingWritten
<1>8. /\ latest'[f] = latest[f] /\ files'[f] = files[f] /\ \A x \in Device : dir'[x][f] = dir[x][f]
      /\ \A x \in Device, w \in Who : open'[x][w] = open[x][w]
  BY <1>1
<1>9. QED BY <1>2, <1>4, <1>5, <1>6, <1>7, <1>8, Beside

\* What the watcher reads of f is its last version, or f counts as lost.
LEMMA HandlesEventFollowed ==
    ASSUME TypeOK, NEW d \in Device, HandlesEvent(d), NEW f \in File, f \notin lost', Followed(f)
    PROVE  Followed(f)'
<1>1. PICK e : e = Head(batch[d])
  OBVIOUS
<1>2. PICK p : p = MessageOf(d, e)
  OBVIOUS
<1>3. /\ watcher[d] = "event" /\ batch'[d] = Tail(batch[d])
      /\ \A x \in Device : x # d => batch'[x] = batch[x]
      /\ UNCHANGED <<dir, open, events, listener, received, typed, toServer, toClient, files,
                     handler, latest>>
  BY DEF HandlesEvent, TypeOK, localVars, listenerVars, remoteVars, serverVars
<1>4. /\ e \in Event /\ Range(batch[d]) = {e} \cup Range(batch'[d])
  BY <1>1, <1>3, BatchHead
<1>5. /\ e.file \in File /\ e.kind \in {"CREATE", "MOVED_TO", "MODIFY", "DELETE"}
      /\ p # None => p \in Upstream /\ p.file = e.file
      /\ p # None <=> Reports(e)
      /\ e.kind = "DELETE" => p = Request("DELETE_REQ", e.file, Absent)
      /\ e.kind \in {"CREATE", "MOVED_TO"} =>
            p = Request("UPLOAD_REQ", e.file, IF dir[d][e.file] = Absent THEN Mixed ELSE dir[d][e.file])
  BY <1>2, <1>4, MessageTyped
<1>6. PICK torn \in BOOLEAN : torn = (p # None /\ p.type = "UPLOAD_REQ" /\ ~Whole(p.data))
  OBVIOUS
<1>7. \/ /\ p # None /\ watched' = [watched EXCEPT ![d] = p]
         /\ DroppedFrom(watched, d, IF torn THEN {e.file} ELSE {})
      \/ /\ watched' = watched
         /\ LostIf(e.by = "user" /\ p # None, e.file)
  BY <1>1, <1>2, <1>6 DEF HandlesEvent
<1>8. \/ /\ p # None /\ watched' = [watched EXCEPT ![d] = p]
         /\ ~About(watched[d], f) /\ (e.file = f => ~torn)
      \/ /\ watched' = watched
         /\ e.file = f => ~(e.by = "user" /\ Reports(e))
  <2>1. CASE /\ p # None /\ watched' = [watched EXCEPT ![d] = p]
             /\ DroppedFrom(watched, d, IF torn THEN {e.file} ELSE {})
    <3>1. PICK S \in SUBSET File : S = IF torn THEN {e.file} ELSE {}
      BY <1>5
    <3>2. /\ S \subseteq lost'
          /\ \A g \in File \ lost' : watched[d] # None => ~About(watched[d], g)
      BY <2>1, <3>1, Drops
    <3>3. QED BY <2>1, <3>1, <3>2 DEF About
  <2>2. CASE watched' = watched /\ LostIf(e.by = "user" /\ p # None, e.file)
    BY <1>5, <2>2 DEF LostIf
  <2>3. QED BY <1>7, <2>1, <2>2
<1>9. \A x \in Device : watched'[x] = watched[x] \/
          (x = d /\ watched'[x] = p /\ p # None /\ ~About(watched[x], f) /\ (e.file = f => ~torn))
  BY <1>8 DEF TypeOK
<1>10. \A x \in Device : \A q \in Sent(x)' :
          q \in Sent(x) \/ (q = p /\ p # None /\ (e.file = f => ~torn))
  BY <1>3, <1>9 DEF Sent
<1>11. \A x \in Device : \A q \in Sent(x) : q \in Sent(x)' \/ ~About(q, f)
  BY <1>3, <1>9 DEF Sent
<1>12. p # None => p.type \in {"UPLOAD_REQ", "DELETE_REQ"}
  BY <1>5 DEF Request, Reports
<1>13. ASSUME p # None, e.file = f => ~torn PROVE TruePacket(p, f)
  <2>1. SUFFICES ASSUME e.file = f PROVE TruePacket(p, f)
    BY <1>5 DEF TruePacket
  <2>2. /\ e.kind = "DELETE" => latest[f] = Absent
        /\ e.kind \in {"CREATE", "MOVED_TO"} => dir[d][f] \in {latest[f], Empty, Absent}
    BY <1>4, <2>1 DEF Followed, TrueEvents, Settling
  <2>3. CASE e.kind = "DELETE"
    BY <1>5, <2>2, <2>3 DEF Request, TruePacket, Uploading, Deleting
  <2>4. CASE e.kind \in {"CREATE", "MOVED_TO"}
    <3>1. /\ p.type = "UPLOAD_REQ" /\ Whole(p.data)
          /\ p.data = IF dir[d][f] = Absent THEN Mixed ELSE dir[d][f]
      <4>1. p = Request("UPLOAD_REQ", f, IF dir[d][f] = Absent THEN Mixed ELSE dir[d][f])
        BY <1>5, <2>1, <2>4
      <4>2. p.type = "UPLOAD_REQ" /\ p.data = IF dir[d][f] = Absent THEN Mixed ELSE dir[d][f]
        BY <4>1 DEF Request
      <4>3. ~torn
        BY <1>13, <2>1
      <4>4. QED BY <1>6, <1>13, <4>2, <4>3
    <3>2. p.data = latest[f]
      BY <2>2, <2>4, <3>1, Contents
    <3>3. QED BY <3>1, <3>2 DEF TruePacket, Uploading, Deleting
  <2>5. QED BY <1>5, <1>13, <2>3, <2>4 DEF Reports
<1>14. TruePackets(f)'
  <2>1. \A q : TruePacket(q, f) => TruePacket(q, f)'
    BY <1>3 DEF TruePacket
  <2>2. \A x \in Device : Coming(x)' = Coming(x) /\ Waiting(x)' = Waiting(x)
    BY <1>3 DEF Coming, Waiting
  <2>3. \A x \in Device : \A q \in Sent(x)' : TruePacket(q, f)
    BY <1>10, <1>13 DEF Followed, TruePackets
  <2>4. QED BY <2>1, <2>2, <2>3 DEF Followed, TruePackets
<1>15. \A x \in Device : (Asks(x)' <=> Asks(x)) /\ (Gets(x)' => Gets(x))
  <2>1. \A x \in Device : Coming(x)' = Coming(x)
    BY <1>3 DEF Coming
  <2>2. QED BY <1>10, <1>11, <1>12, <2>1 DEF Asks, Gets, About
<1>16. \A x \in Device : Range(batch'[x]) \subseteq Range(batch[x])
  BY <1>3, <1>4
<1>17. Carried(f) => Carried(f)'
  <2>1. ASSUME NEW x \in Device, NEW q \in Sent(x), q # None, q.file = f, q.type # "SYNC_DIR_REQ"
        PROVE  Carried(f)'
    <3>1. q \in Sent(x)'
      BY <1>11, <2>1 DEF About
    <3>2. QED BY <2>1, <3>1 DEF Carried
  <2>2. ASSUME NEW x \in Device, NEW a \in Range(events[x]) \cup Range(batch[x]),
               a.file = f, a.by = "user", Reports(a)
        PROVE  Carried(f)'
    <3>1. CASE a \in Range(events'[x]) \cup Range(batch'[x])
      BY <2>2, <3>1 DEF Carried, Reports
    <3>2. CASE a \notin Range(events'[x]) \cup Range(batch'[x])
      <4>1. x = d /\ a = e
        BY <1>3, <1>4, <2>2, <3>2
      <4>2. p # None /\ watched'[d] = p
        BY <1>5, <1>8, <2>2, <4>1 DEF TypeOK
      <4>3. p \in Sent(d)'
        BY <4>2 DEF Sent
      <4>4. QED BY <1>5, <1>12, <2>2, <4>1, <4>2, <4>3 DEF Carried
    <3>3. QED BY <3>1, <3>2
  <2>3. QED BY <2>1, <2>2 DEF Carried
<1>18. \A x \in Device : Inbound(x, f) => Inbound(x, f)'
  BY <1>3, <1>15 DEF Inbound
<1>19. \A x \in Device : BeingWritten(x, f) => BeingWritten(x, f)'
  BY <1>3 DEF BeingWritten
<1>20. /\ latest'[f] = latest[f] /\ files'[f] = files[f] /\ \A x \in Device : dir'[x][f] = dir[x][f]
       /\ \A x \in Device, w \in Who : open'[x][w] = open[x][w]
       /\ \A x \in Device : \A a \in Range(events'[x]) \cup Range(batch'[x]) :
              a \in Range(events[x]) \cup Range(batch[x])
  BY <1>3, <1>16
<1>21. QED BY <1>14, <1>15, <1>17, <1>18, <1>19, <1>20, Beside

\* The main loop only moves a packet from a mailbox to the connection.
LEMMA SendsFollowed ==
    ASSUME TypeOK, NEW d \in Device, SendsTyped(d) \/ SendsWatched(d), NEW f \in File, Followed(f)
    PROVE  Followed(f)'
<1>1. /\ UNCHANGED <<dir, open, events, batch, listener, received, toClient, files, handler, latest>>
      /\ \A x \in Device : Sent(x)' \cup {None} = Sent(x) \cup {None}
  <2>1. CASE SendsTyped(d)
    <3>1. typed[d] \in Upstream /\ Sends(d, typed[d])
      BY <2>1 DEF SendsTyped, TypeOK
    <3>2. /\ Range(toServer'[d]) = Range(toServer[d]) \cup {typed[d]}
          /\ \A x \in Device : x # d => toServer'[x] = toServer[x]
      BY <3>1, SendsAdds
    <3>3. /\ UNCHANGED <<dir, open, events, batch, listener, received, watched, toClient, files,
                         handler, latest>>
          /\ typed'[d] = None /\ \A x \in Device : x # d => typed'[x] = typed[x]
      BY <2>1 DEF SendsTyped, TypeOK, localVars, watcherVars, listenerVars, serverVars, history, outcomes
    <3>4. QED BY <3>2, <3>3 DEF Sent
  <2>2. CASE SendsWatched(d)
    <3>1. watched[d] \in Upstream /\ Sends(d, watched[d])
      BY <2>2 DEF SendsWatched, TypeOK
    <3>2. /\ Range(toServer'[d]) = Range(toServer[d]) \cup {watched[d]}
          /\ \A x \in Device : x # d => toServer'[x] = toServer[x]
      BY <3>1, SendsAdds
    <3>3. /\ UNCHANGED <<dir, open, events, batch, listener, received, typed, toClient, files,
                         handler, latest>>
          /\ watched'[d] = None /\ \A x \in Device : x # d => watched'[x] = watched[x]
      BY <2>2 DEF SendsWatched, TypeOK, localVars, watcherVars, listenerVars, serverVars, history, outcomes
    <3>4. QED BY <3>2, <3>3 DEF Sent
  <2>3. QED BY <2>1, <2>2
<1>2. \A x \in Device : Coming(x)' = Coming(x) /\ Waiting(x)' = Waiting(x)
  BY <1>1 DEF Coming, Waiting
<1>3. TruePackets(f)'
  <2>1. \A q : TruePacket(q, f) => TruePacket(q, f)'
    BY <1>1 DEF TruePacket
  <2>2. TruePacket(None, f)
    BY DEF TruePacket
  <2>3. \A x \in Device : \A q \in Sent(x)' : TruePacket(q, f)
    BY <1>1, <2>2 DEF Followed, TruePackets
  <2>4. QED BY <1>2, <2>1, <2>3 DEF Followed, TruePackets
<1>4. \A x \in Device : (Asks(x)' <=> Asks(x)) /\ (Gets(x)' => Gets(x))
  BY <1>1, <1>2 DEF Asks, Gets
<1>5. Carried(f) => Carried(f)'
  <2>1. \A x \in Device : \A p \in Sent(x) : p # None => p \in Sent(x)'
    BY <1>1
  <2>2. QED BY <1>1, <2>1, CarriedStays
<1>6. \A x \in Device : Inbound(x, f) => Inbound(x, f)'
  BY <1>1, <1>4 DEF Inbound
<1>7. \A x \in Device : BeingWritten(x, f) => BeingWritten(x, f)'
  BY <1>1 DEF BeingWritten
<1>8. /\ latest'[f] = latest[f] /\ files'[f] = files[f] /\ \A x \in Device : dir'[x][f] = dir[x][f]
      /\ \A x \in Device, w \in Who : open'[x][w] = open[x][w]
      /\ events' = events /\ batch' = batch
  BY <1>1
<1>9. QED BY <1>3, <1>4, <1>5, <1>6, <1>7, <1>8, Beside

\* The next packet is taken from the connection.
LEMMA ReceivesFollowed ==
    ASSUME TypeOK, NEW d \in Device, Receives(d), NEW f \in File, Followed(f)
    PROVE  Followed(f)'
<1>1. /\ listener[d] = "read" /\ received[d] = None
      /\ Range(toClient[d]) = {received'[d]} \cup Range(toClient'[d])
      /\ \A x \in Device : x # d => received'[x] = received[x] /\ toClient'[x] = toClient[x]
  BY ReceivesKeeps
<1>2. /\ UNCHANGED <<dir, open, events, batch, watched, typed, toServer, files, handler, latest>>
      /\ listener'[d] = "apply" /\ \A x \in Device : x # d => listener'[x] = listener[x]
  BY DEF Receives, TypeOK, localVars, watcherVars, mailboxes, serverVars, outcomes
<1>3. \A x \in Device : /\ Coming(x)' \subseteq Coming(x) /\ Waiting(x)' = Waiting(x)
                        /\ Sent(x)' = Sent(x)
  BY <1>1, <1>2 DEF Coming, Waiting, Sent
<1>4. TruePackets(f)'
  <2>1. \A q : TruePacket(q, f) => TruePacket(q, f)'
    BY <1>2 DEF TruePacket
  <2>2. QED BY <1>3, <2>1 DEF Followed, TruePackets
<1>5. \A x \in Device : (Asks(x)' <=> Asks(x)) /\ (Gets(x)' => Gets(x))
  BY <1>3 DEF Asks, Gets
<1>6. Carried(f) => Carried(f)'
  BY <1>2, <1>3, CarriedStays
<1>7. ASSUME NEW x \in Device, Inbound(x, f) PROVE Inbound(x, f)'
  <2>1. ASSUME NEW p \in Range(toClient[x]), p.file = f PROVE Inbound(x, f)'
    <3>1. p \in Range(toClient'[x]) \/ (x = d /\ p = received'[d])
      BY <1>1
    <3>2. QED BY <1>2, <2>1, <3>1 DEF Inbound
  <2>2. CASE listener[x] = "apply" /\ received[x].file = f
    <3>1. x # d
      BY <1>1, <2>2
    <3>2. QED BY <1>1, <1>2, <2>2, <3>1 DEF Inbound
  <2>3. CASE \E y \in Device : \E h \in Range(handler[y]) : h.to = x /\ h.packet.file = f
    BY <1>2, <2>3 DEF Inbound
  <2>4. CASE Asks(x) /\ dir[x][f] = Absent
    BY <1>2, <1>5, <2>4 DEF Inbound
  <2>5. QED BY <1>7, <2>1, <2>2, <2>3, <2>4 DEF Inbound
<1>8. \A x \in Device : BeingWritten(x, f) => BeingWritten(x, f)'
  BY <1>2 DEF BeingWritten
<1>9. /\ latest'[f] = latest[f] /\ files'[f] = files[f] /\ \A x \in Device : dir'[x][f] = dir[x][f]
      /\ \A x \in Device, w \in Who : open'[x][w] = open[x][w]
      /\ events' = events /\ batch' = batch
  BY <1>2
<1>10. QED BY <1>4, <1>5, <1>6, <1>7, <1>8, <1>9, Beside

\* What the listener begins to write, or removes, is the last version.
LEMMA AppliesFollowed ==
    ASSUME TypeOK, Tidy, NEW d \in Device, Applies(d), NEW f \in File, Followed(f)
    PROVE  Followed(f)'
<1>1. /\ listener[d] = "apply" /\ received[d] \in Downstream /\ LocalTypes
      /\ received[d].file \in File \cup {NoName} /\ received[d].data \in Content
      /\ received[d] # None /\ received[d] \in Coming(d)
      /\ open[d]["listener"] = None
  BY Received, LocallyTyped, Packets DEF Applies, Coming, Tidy
<1>2. PICK g \in File \cup {NoName} : g = received[d].file
  BY <1>1
<1>3. /\ UNCHANGED <<batch, watched, typed, toServer, toClient, files, handler, latest>>
  BY DEF Applies, watcherVars, mailboxes, remoteVars, serverVars, outcomes
<1>4. /\ \A x \in Device : x # d => listener'[x] = listener[x] /\ received'[x] = received[x]
      /\ received'[d] \in {received[d], None}
      /\ Range(events[d]) \subseteq Range(events'[d])
      /\ \A x \in Device : x # d => dir'[x] = dir[x] /\ open'[x] = open[x] /\ events'[x] = events[x]
      /\ \A h \in File : h # g => dir'[d][h] = dir[d][h]
      /\ \/ /\ received[d].type \in {"DELETE_BROADCAST", "DELETE_ACCEPT_RESP"}
            /\ \A w \in Who : open'[d][w] \in {None, open[d][w]}
            /\ \A w \in Who : open[d][w] # None /\ open[d][w].file # g => open'[d][w] = open[d][w]
            /\ \A e \in Range(events'[d]) : e \in Range(events[d]) \/ (e.file = g /\ e.kind = "DELETE")
            /\ g \in File => dir'[d][g] = Absent
         \/ /\ received[d].type \in {"UPLOAD_BROADCAST", "SYNC_DIR_ACCEPT_RESP"}
            /\ open'[d]["listener"] = [file |-> g, data |-> received[d].data]
            /\ open'[d]["user"] = open[d]["user"]
            /\ \A e \in Range(events'[d]) : e \in Range(events[d]) \/
                   (e.file = g /\ e.kind \in {"CREATE", "MODIFY"})
            /\ g \in File /\ dir'[d][g] = Empty
  <2>1. CASE Erased(d)
    <3>1. PICK by \in {"user", "listener", "unflagged"} :
              by = IF received[d].type = "DELETE_BROADCAST" THEN "listener" ELSE "unflagged"
      OBVIOUS
    <3>2. Removed(d, g, by) /\ Done(d)
      BY <1>2, <2>1, <3>1 DEF Erased
    <3>3. /\ Local(d, g) /\ (g \in File => dir'[d][g] = Absent)
          /\ \A w \in Who : open'[d][w] \in {None, open[d][w]}
          /\ \A w \in Who : open[d][w] # None /\ open[d][w].file # g => open'[d][w] = open[d][w]
          /\ NewEvents(d, g, {"DELETE"}, by)
      BY <1>1, <3>2, RemovedKeeps
    <3>4. \A x \in Device : x # d => listener'[x] = listener[x] /\ received'[x] = received[x]
      BY <3>2 DEF Done, TypeOK
    <3>5. received'[d] = None
      BY <3>2 DEF Done, TypeOK
    <3>6. QED BY <2>1, <3>3, <3>4, <3>5 DEF Local, NewEvents, Erased
  <2>2. CASE Begun(d)
    <3>1. g \in File
      BY <1>1, <1>2, <2>2, Packets DEF Begun
    <3>2. PICK c \in Content : c = received[d].data
      BY <1>1
    <3>3. Opens(d, "listener", g, c, "listener")
      BY <1>2, <2>2, <3>2 DEF Begun
    <3>4. /\ Local(d, g) /\ NewEvents(d, g, {"CREATE", "MODIFY"}, "listener")
          /\ \A w \in Who : w # "listener" => open'[d][w] = open[d][w]
      BY <1>1, <3>1, <3>3, OpensKeeps, WhoIs, ZenonT(30)
    <3>5. /\ dir' = [dir EXCEPT ![d][g] = Empty]
          /\ open' = [open EXCEPT ![d]["listener"] = [file |-> g, data |-> c]]
      BY <3>3 DEF Opens
    <3>6. dir'[d][g] = Empty /\ open'[d]["listener"] = [file |-> g, data |-> c]
      BY <1>1, <3>1, <3>5, WhoIs DEF LocalTypes
    <3>7. \A x \in Device : x # d => listener'[x] = listener[x] /\ received'[x] = received[x]
      BY <2>2 DEF Begun, TypeOK
    <3>8. received' = received
      BY <2>2 DEF Begun
    <3>9. QED BY <2>2, <3>1, <3>2, <3>4, <3>6, <3>7, <3>8, WhoIs DEF Local, NewEvents, Begun
  <2>3. QED BY <2>1, <2>2, AppliesEither
<1>5. SendsNothing
  BY <1>3, <1>4 DEF SendsNothing
<1>6. /\ TruePackets(f)'
      /\ \A x \in Device : Sent(x)' = Sent(x) /\ (Asks(x)' <=> Asks(x)) /\ (Gets(x)' => Gets(x))
  BY <1>5, NothingSent
<1>7. Carried(f) => Carried(f)'
  <2>1. \A x \in Device : Range(events[x]) \cup Range(batch[x]) \subseteq
                          Range(events'[x]) \cup Range(batch'[x])
    BY <1>3, <1>4
  <2>2. QED BY <1>6, <2>1, CarriedStays
<1>8. ASSUME NEW x \in Device, dir'[x][f] = dir[x][f], x # d \/ g # f, Inbound(x, f)
      PROVE  Inbound(x, f)'
  BY <1>2, <1>3, <1>4, <1>6, <1>8 DEF Inbound
<1>9. CASE g # f
  <2>1. \A x \in Device : dir'[x][f] = dir[x][f]
    BY <1>4, <1>9
  <2>2. \A x \in Device, w \in Who :
          /\ open'[x][w] # None /\ open'[x][w].file = f => open'[x][w] = open[x][w]
          /\ open[x][w] # None /\ open[x][w].file = f => open'[x][w] = open[x][w]
    BY <1>1, <1>4, <1>9, WhoIs
  <2>3. \A x \in Device : BeingWritten(x, f) => BeingWritten(x, f)'
    BY <2>2 DEF BeingWritten
  <2>4. \A x \in Device : \A e \in Range(events'[x]) \cup Range(batch'[x]) :
          e.file = f => e \in Range(events[x]) \cup Range(batch[x]) \/ e.kind = "MODIFY"
    BY <1>3, <1>4, <1>9
  <2>5. \A x \in Device : Inbound(x, f) => Inbound(x, f)'
    BY <1>8, <1>9, <2>1
  <2>6. latest'[f] = latest[f] /\ files'[f] = files[f]
    BY <1>3
  <2>7. QED BY <1>6, <1>7, <2>1, <2>2, <2>3, <2>4, <2>5, <2>6, Beside
<1>10. CASE g = f
  <2>1. TruePacket(received[d], f)
    BY <1>1 DEF Followed, TruePackets
  <2>2. \/ /\ latest[f] = Absent /\ dir'[d][f] = Absent
           /\ \A w \in Who : open'[d][w] \in {None, open[d][w]}
           /\ \A e \in Range(events'[d]) : e \in Range(events[d]) \/ e.kind = "DELETE"
        \/ /\ received[d].data = latest[f] /\ Whole(latest[f]) /\ dir'[d][f] = Empty
           /\ open'[d]["listener"] = [file |-> f, data |-> latest[f]]
           /\ open'[d]["user"] = open[d]["user"]
           /\ \A e \in Range(events'[d]) : e \in Range(events[d]) \/ e.kind \in {"CREATE", "MODIFY"}
    <3>1. CASE received[d].type \in {"DELETE_BROADCAST", "DELETE_ACCEPT_RESP"}
      BY <1>1, <1>2, <1>4, <1>10, <2>1, <3>1 DEF TruePacket, Deleting
    <3>2. CASE received[d].type \in {"UPLOAD_BROADCAST", "SYNC_DIR_ACCEPT_RESP"}
      BY <1>1, <1>2, <1>4, <1>10, <2>1, <3>2 DEF TruePacket, Uploading
    <3>3. QED BY <1>4, <3>1, <3>2
  <2>3. TrueWrites(f)'
    <3>1. ASSUME NEW x \in Device, NEW w \in Who, open'[x][w] # None, open'[x][w].file = f
          PROVE  /\ open'[x][w].data = latest[f] /\ Whole(latest[f])
                 /\ dir'[x][f] \in {Empty, latest[f]}
      <4>1. CASE x # d
        BY <1>4, <3>1, <4>1 DEF Followed, TrueWrites
      <4>2. CASE x = d /\ open'[x][w] = open[x][w]
        BY <2>2, <3>1, <4>2, Contents DEF Followed, TrueWrites
      <4>3. CASE x = d /\ open'[x][w] # open[x][w]
        BY <2>2, <3>1, <4>3, WhoIs
      <4>4. QED BY <4>1, <4>2, <4>3
    <3>2. QED BY <1>3, <3>1 DEF TrueWrites
  <2>4. \A x \in Device : Settling(x, f) => Settling(x, f)'
    BY <1>3, <1>4, <2>2 DEF Settling
  <2>5. Settling(d, f)'
    BY <2>2 DEF Settling
  <2>6. TrueEvents(f)'
    <3>1. ASSUME NEW x \in Device, NEW e \in Range(events'[x]) \cup Range(batch'[x]), e.file = f
          PROVE  /\ e.kind = "DELETE" => latest[f] = Absent
                 /\ e.kind \in {"CREATE", "MOVED_TO"} => Settling(x, f)'
      <4>1. CASE e \in Range(events[x]) \cup Range(batch[x])
        BY <2>4, <3>1, <4>1 DEF Followed, TrueEvents
      <4>2. CASE e \notin Range(events[x]) \cup Range(batch[x])
        BY <1>3, <1>4, <2>2, <2>5, <3>1, <4>2
      <4>3. QED BY <4>1, <4>2
    <3>2. QED BY <1>3, <3>1 DEF TrueEvents
  <2>7. TrueSyncs(f)'
    BY <1>3, <1>6, <2>4 DEF Followed, TrueSyncs
  <2>8. ServerCatchesUp(f)'
    BY <1>3, <1>7 DEF Followed, ServerCatchesUp
  <2>9. DevicesCatchUp(f)'
    <3>1. ASSUME NEW x \in Device, dir'[x][f] # latest[f]
          PROVE  \/ files[f] # latest[f]
                 \/ Inbound(x, f)'
                 \/ dir'[x][f] = Empty /\ BeingWritten(x, f)'
      <4>1. CASE x # d
        <5>1. dir'[x] = dir[x] /\ (BeingWritten(x, f) => BeingWritten(x, f)')
          BY <1>4, <4>1 DEF BeingWritten
        <5>2. QED BY <1>8, <3>1, <4>1, <5>1 DEF Followed, DevicesCatchUp
      <4>2. CASE x = d
        <5>1. /\ dir'[d][f] = Empty /\ open'[d]["listener"] = [file |-> f, data |-> latest[f]]
              /\ Whole(latest[f])
          BY <2>2, <3>1, <4>2
        <5>2. [file |-> f, data |-> latest[f]] # None
          BY Packets DEF Opened, TypeOK
        <5>3. BeingWritten(d, f)'
          BY <5>1, <5>2, WhoIs DEF BeingWritten
        <5>4. QED BY <4>2, <5>1, <5>3
      <4>3. QED BY <4>1, <4>2
    <3>2. QED BY <1>3, <3>1 DEF DevicesCatchUp
  <2>10. QED BY <1>6, <2>3, <2>6, <2>7, <2>8, <2>9 DEF Followed
<1>11. QED BY <1>9, <1>10

LEMMA WritesReceivedFollowed ==
    ASSUME TypeOK, NEW d \in Device, WritesReceived(d), NEW f \in File, Followed(f)
    PROVE  Followed(f)'
<1>1. /\ Writes(d, "listener") /\ "listener" \in Who /\ listener[d] = "write"
      /\ UNCHANGED <<batch, watched, typed, toServer, toClient, files, handler, latest>>
  BY WhoIs DEF WritesReceived, watcherVars, mailboxes, remoteVars, serverVars, outcomes
<1>2. \A x \in Device : received'[x] \in {received[x], None}
  BY DEF WritesReceived, Done, TypeOK
<1>3. SendsNothing
  BY <1>1, <1>2 DEF SendsNothing
<1>4. \A x \in Device : listener[x] = "apply" => /\ listener'[x] = "apply"
                                                 /\ received'[x] = received[x]
  BY <1>1 DEF WritesReceived, Done, TypeOK
<1>5. UNCHANGED batch
  BY <1>1
<1>6. QED BY <1>1, <1>3, <1>4, <1>5, WritesFollowed, ZenonT(30)

\* A device that synchronises has the last version, or one that is not whole.
LEMMA UploadsListedFollowed ==
    ASSUME TypeOK, Tidy, NEW d \in Device, UploadsListed(d), NEW f \in File, f \notin lost', Followed(f)
    PROVE  Followed(f)'
<1>1. /\ UNCHANGED <<dir, open, events, batch, watched, typed, toClient, files, handler, latest>>
      /\ listener[d] = "upload"
  BY DEF UploadsListed, localVars, watcherVars, mailboxes, serverVars
<1>2. /\ \A x \in Device : x # d => listener'[x] = listener[x] /\ received'[x] = received[x]
      /\ received'[d] \in {received[d], None}
      /\ \A x \in Device : x # d => Sent(x)' = Sent(x)
      /\ Sent(d) \subseteq Sent(d)'
      /\ \A p \in Sent(d)' : p \in Sent(d) \/ (p.type = "UPLOAD_REQ" /\ TruePacket(p, f))
  <2>1. CASE listing[d] = << >> /\ Done(d) /\ UNCHANGED <<listing, toServer, lost>>
    <3>1. /\ \A x \in Device : x # d => listener'[x] = listener[x] /\ received'[x] = received[x]
          /\ received'[d] = None
      BY <2>1 DEF Done, TypeOK
    <3>2. \A x \in Device : Sent(x)' = Sent(x)
      BY <1>1, <2>1 DEF Sent
    <3>3. QED BY <3>1, <3>2
  <2>2. ASSUME NEW g \in File, Relisted(d, g)
        PROVE  /\ UNCHANGED <<listener, received>>
               /\ \A x \in Device : x # d => Sent(x)' = Sent(x)
               /\ Sent(d) \subseteq Sent(d)'
               /\ \A p \in Sent(d)' : p \in Sent(d) \/ (p.type = "UPLOAD_REQ" /\ TruePacket(p, f))
    <3>1. PICK c : c = IF dir[d][g] = Absent THEN Mixed ELSE dir[d][g]
      OBVIOUS
    <3>2. PICK p : p = Request("UPLOAD_REQ", g, c)
      OBVIOUS
    <3>3. c \in Content /\ p \in Upstream
      BY <3>1, <3>2, Contents, Requests DEF TypeOK
    <3>4. Sends(d, p) /\ LostIf(~Whole(c), g)
      BY <2>2, <3>1, <3>2 DEF Relisted
    <3>5. /\ Range(toServer'[d]) = Range(toServer[d]) \cup {p}
          /\ \A x \in Device : x # d => toServer'[x] = toServer[x]
      BY <3>3, <3>4, SendsAdds
    <3>6. /\ \A x \in Device : x # d => Sent(x)' = Sent(x)
          /\ Sent(d)' = Sent(d) \cup {p}
      BY <1>1, <3>5 DEF Sent
    <3>7. TruePacket(p, f)
      <4>1. SUFFICES ASSUME g = f PROVE TruePacket(p, f)
        BY <3>2 DEF TruePacket, Request
      <4>2. Whole(c)
        BY <3>4, <4>1 DEF LostIf
      <4>3. Gets(d)
        BY <1>1 DEF Tidy, Gets, Coming, TypeOK
      <4>4. dir[d][f] \in {latest[f], Empty, Absent}
        BY <4>3 DEF Followed, TrueSyncs, Settling
      <4>5. c = latest[f]
        BY <3>1, <4>1, <4>2, <4>4, Contents
      <4>6. QED BY <3>2, <4>2, <4>5 DEF TruePacket, Request, Uploading, Deleting
    <3>8. p.type = "UPLOAD_REQ" /\ UNCHANGED <<listener, received>>
      BY <2>2, <3>2 DEF Relisted, Request
    <3>9. QED BY <3>6, <3>7, <3>8
  <2>3. QED BY <2>1, <2>2, UploadsListedEither
<1>3. \A x \in Device : Coming(x)' \subseteq Coming(x) \cup {None} /\ Waiting(x)' = Waiting(x)
  BY <1>1, <1>2 DEF Coming, Waiting
<1>4. TruePackets(f)'
  <2>1. \A q : TruePacket(q, f) => TruePacket(q, f)'
    BY <1>1 DEF TruePacket
  <2>2. TruePacket(None, f)
    BY DEF TruePacket
  <2>3. \A x \in Device : \A p \in Sent(x)' : TruePacket(p, f)
    BY <1>2 DEF Followed, TruePackets
  <2>4. QED BY <1>3, <2>1, <2>2, <2>3 DEF Followed, TruePackets
<1>5. \A x \in Device : (Asks(x)' <=> Asks(x)) /\ (Gets(x)' => Gets(x))
  BY <1>2, <1>3 DEF Asks, Gets
<1>6. Carried(f) => Carried(f)'
  BY <1>1, <1>2, CarriedStays
<1>7. \A x \in Device : Inbound(x, f) => Inbound(x, f)'
  BY <1>1, <1>2, <1>5 DEF Inbound
<1>8. \A x \in Device : BeingWritten(x, f) => BeingWritten(x, f)'
  BY <1>1 DEF BeingWritten
<1>9. /\ latest'[f] = latest[f] /\ files'[f] = files[f] /\ \A x \in Device : dir'[x][f] = dir[x][f]
      /\ \A x \in Device, w \in Who : open'[x][w] = open[x][w]
      /\ events' = events /\ batch' = batch
  BY <1>1
<1>10. QED BY <1>4, <1>5, <1>6, <1>7, <1>8, <1>9, Beside

\* The server has caught up, and every device has or is going to.
LEMMA Answered ==
    ASSUME NEW f \in File, Followed(f),
           UNCHANGED <<dir, open, events, batch, latest>>, files'[f] = latest[f],
           TruePackets(f)',
           \A x \in Device : (Asks(x)' => Asks(x)) /\ (Gets(x)' => Asks(x) \/ Gets(x)),
           \A x \in Device : \/ dir[x][f] = latest[f] \/ Inbound(x, f)'
                             \/ dir[x][f] = Empty /\ BeingWritten(x, f)
    PROVE  Followed(f)'
<1>1. TrueWrites(f)'
  BY DEF Followed, TrueWrites
<1>2. \A x \in Device : Settling(x, f) => Settling(x, f)'
  BY DEF Settling
<1>3. TrueEvents(f)'
  BY <1>2 DEF Followed, TrueEvents
<1>4. TrueSyncs(f)'
  BY <1>2 DEF Followed, TrueSyncs
<1>5. ServerCatchesUp(f)'
  BY DEF ServerCatchesUp
<1>6. \A x \in Device : BeingWritten(x, f) => BeingWritten(x, f)'
  BY DEF BeingWritten
<1>7. DevicesCatchUp(f)'
  BY <1>6 DEF DevicesCatchUp
<1>8. QED BY <1>1, <1>3, <1>4, <1>5, <1>7 DEF Followed

\* New packets that tell the truth.
LEMMA TrueAnswers ==
    ASSUME NEW f \in File, TruePackets(f), latest' = latest,
           NEW S, \A p \in S : TruePacket(p, f),
           \A x \in Device : \A p \in Sent(x)' \cup Coming(x)' \cup Waiting(x)' :
              p \in S \/ p \in Sent(x) \cup Coming(x) \cup Waiting(x)
    PROVE  TruePackets(f)'
<1>1. \A p : TruePacket(p, f) => TruePacket(p, f)'
  BY DEF TruePacket
<1>2. \A x \in Device : \A p \in Sent(x)' \cup Coming(x)' \cup Waiting(x)' : TruePacket(p, f)
  BY DEF TruePackets
<1>3. QED BY <1>1, <1>2 DEF TruePackets

LEMMA ServesFollowed ==
    ASSUME TypeOK, Tidy, NEW d \in Device, Serves(d), NEW f \in File, f \notin lost', Followed(f)
    PROVE  Followed(f)'
<1>1. /\ UNCHANGED <<dir, open, events, batch, watched, typed, listener, received, latest>>
      /\ handler[d] = << >>
  BY DEF Serves, localVars, watcherVars, mailboxes, listenerVars
<1>2. PICK p \in Upstream :
          /\ Range(toServer[d]) = {p} \cup Range(toServer'[d])
          /\ \A x \in Device : x # d => toServer'[x] = toServer[x]
          /\ \/ Refuses(d, p)
             \/ Stores(d, p) \/ Erases(d, p) \/ SyncsFiles(d, p)
  BY ServesTakes, ZenonT(30)
<1>3. /\ \A x \in Device : Sent(x)' \subseteq Sent(x)
      /\ p \in Sent(d) /\ p # None
      /\ \A x \in Device : \A q \in Sent(x) : q \in Sent(x)' \/ (x = d /\ q = p)
  BY <1>1, <1>2, Packets DEF Sent
<1>4. /\ \A x \in Device : Asks(x)' => Asks(x)
      /\ p.type # "SYNC_DIR_REQ" => \A x \in Device : Asks(x) => Asks(x)'
      /\ \A x \in Device : x # d => (Asks(x) => Asks(x)')
  BY <1>3 DEF Asks
<1>5. p.file # f => (Carried(f) => Carried(f)')
  <2>1. ASSUME p.file # f, Carried(f) PROVE Carried(f)'
    <3>1. \A x \in Device : \A q \in Sent(x) : q # None /\ q.file = f => q \in Sent(x)'
      BY <1>3, <2>1
    <3>2. QED BY <1>1, <2>1, <3>1, CarriedStays
  <2>2. QED BY <2>1
<1>6. \A x \in Device : BeingWritten(x, f) => BeingWritten(x, f)'
  BY <1>1 DEF BeingWritten
<1>7. TruePacket(p, f)
  BY <1>3 DEF Followed, TruePackets
\* What the server sends comes on top of what it had sent
<1>8. ASSUME \A x \in Device : Range(toClient[x]) \subseteq Range(toClient'[x]),
             \A x \in Device : x # d => handler'[x] = handler[x],
             NEW x \in Device, Inbound(x, f), p.type = "SYNC_DIR_REQ" => ~(Asks(x) /\ dir[x][f] = Absent)
      PROVE  Inbound(x, f)'
  <2>1. CASE \E q \in Range(toClient[x]) : q.file = f
    BY <1>8, <2>1 DEF Inbound
  <2>2. CASE listener[x] = "apply" /\ received[x].file = f
    BY <1>1, <2>2 DEF Inbound
  <2>3. ASSUME NEW y \in Device, NEW h \in Range(handler[y]), h.to = x, h.packet.file = f
        PROVE  Inbound(x, f)'
    <3>1. y # d
      BY <1>1, <2>3, RangeEmpty
    <3>2. QED BY <1>8, <2>3, <3>1 DEF Inbound
  <2>4. CASE Asks(x) /\ dir[x][f] = Absent
    BY <1>1, <1>4, <1>8, <2>4 DEF Inbound
  <2>5. QED BY <1>8, <2>1, <2>2, <2>3, <2>4 DEF Inbound
<1>9. ASSUME \A x \in Device : Range(toClient[x]) \subseteq Range(toClient'[x]),
             \A x \in Device : x # d => handler'[x] = handler[x],
             TruePackets(f)', files'[f] = files[f], p.file # f, p.type # "SYNC_DIR_REQ",
             \A x \in Device : Gets(x)' => Gets(x)
      PROVE  Followed(f)'
  <2>1. \A x \in Device : Inbound(x, f) => Inbound(x, f)'
    BY <1>8, <1>9
  <2>2. /\ latest'[f] = latest[f] /\ \A x \in Device : dir'[x][f] = dir[x][f]
        /\ \A x \in Device, w \in Who : open'[x][w] = open[x][w]
        /\ events' = events /\ batch' = batch
    BY <1>1
  <2>3. QED BY <1>4, <1>5, <1>6, <1>9, <2>1, <2>2, Beside
\* An upload is announced, written or not; f is not one that is refused
<1>10. CASE Stores(d, p) \/ Refuses(d, p)
  <2>1. PICK g \in File : g = p.file
    BY <1>10, StoresKeeps, RefusesKeeps
  <2>2. PICK n : n = Request("UPLOAD_BROADCAST", g, p.data)
    OBVIOUS
  <2>3. /\ p.type = "UPLOAD_REQ" /\ UNCHANGED toClient
        /\ Announces(d, Device, n)
        /\ \/ files' = [files EXCEPT ![g] = p.data]
           \/ files' = files /\ g # f
    <3>1. CASE Stores(d, p)
      BY <2>1, <2>2, <3>1, StoresKeeps DEF Stores
    <3>2. CASE Refuses(d, p)
      BY <2>1, <2>2, <3>2, RefusesKeeps DEF Refuses
    <3>3. QED BY <1>10, <3>1, <3>2
  <2>4. /\ \A x \in Device : x # d => handler'[x] = handler[x]
        /\ \A h \in Range(handler'[d]) : h.packet = n
        /\ \A x \in Device : \E h \in Range(handler'[d]) : h.to = x /\ h.packet = n
    BY <2>3 DEF Announces
  <2>5. TruePacket(n, f)
    BY <1>3, <1>7, <2>1, <2>2, <2>3 DEF TruePacket, Request, Uploading, Deleting
  <2>6. \A x \in Device : /\ Coming(x)' = Coming(x)
                          /\ \A q \in Waiting(x)' : q \in Waiting(x) \/ q = n
    BY <1>1, <2>3, <2>4 DEF Coming, Waiting
  <2>7. TruePackets(f)'
    <3>1. \A x \in Device : \A q \in Sent(x)' \cup Coming(x)' \cup Waiting(x)' :
              q \in {n} \/ q \in Sent(x) \cup Coming(x) \cup Waiting(x)
      BY <1>3, <2>6
    <3>2. \A q \in {n} : TruePacket(q, f)
      BY <2>5
    <3>3. TruePackets(f) /\ latest' = latest
      BY <1>1 DEF Followed
    <3>4. QED BY <3>1, <3>2, <3>3, TrueAnswers
  <2>8. \A x \in Device : Gets(x)' => Gets(x)
    BY <2>6 DEF Gets
  <2>9. CASE g # f
    <3>1. files'[f] = files[f]
      BY <2>3, <2>9 DEF TypeOK
    <3>2. QED BY <1>9, <2>1, <2>3, <2>4, <2>7, <2>8, <2>9, <3>1
  <2>10. CASE g = f
    <3>1. files'[f] = latest[f]
      BY <1>3, <1>7, <2>1, <2>3, <2>10 DEF TruePacket, Uploading, TypeOK
    <3>2. n.file = f
      BY <2>2, <2>10 DEF Request
    <3>3. \A x \in Device : Inbound(x, f)'
      BY <2>4, <3>2 DEF Inbound
    <3>4. QED BY <1>1, <1>4, <2>7, <2>8, <3>1, <3>3, Answered
  <2>11. QED BY <2>9, <2>10
<1>11. CASE Erases(d, p)
  <2>1. p.type = "DELETE_REQ" /\ p.file \in File \cup {NoName}
    BY <1>11, Packets DEF Erases
  <2>2. CASE Deleted(d, p.file)
    <3>1. PICK g \in File : g = p.file
      BY <2>2 DEF Deleted
    <3>2. PICK n : n = Request("DELETE_BROADCAST", g, Absent)
      OBVIOUS
    <3>3. PICK r : r = Request("DELETE_ACCEPT_RESP", g, Absent)
      OBVIOUS
    <3>4. /\ files' = [files EXCEPT ![g] = Absent]
          /\ \A x \in Device : x # d => toClient'[x] = toClient[x] /\ handler'[x] = handler[x]
          /\ Range(toClient'[d]) = Range(toClient[d]) \cup {r}
          /\ \A h \in Range(handler'[d]) : h.packet = n
          /\ \A x \in Device \ {d} : \E h \in Range(handler'[d]) : h.to = x /\ h.packet = n
      BY <2>2, <3>1, <3>2, <3>3 DEF Deleted, Announces
    <3>5. /\ n.type = "DELETE_BROADCAST" /\ n.file = g
          /\ r.type = "DELETE_ACCEPT_RESP" /\ r.file = g
      BY <3>2, <3>3 DEF Request
    <3>6. g = f => latest[f] = Absent
      BY <1>3, <1>7, <2>1, <3>1 DEF TruePacket, Deleting
    <3>7. TruePacket(n, f) /\ TruePacket(r, f)
      BY <3>5, <3>6 DEF TruePacket, Uploading, Deleting
    <3>8. \A x \in Device : /\ \A q \in Coming(x)' : q \in Coming(x) \/ q = r
                            /\ \A q \in Waiting(x)' : q \in Waiting(x) \/ q = n
      BY <1>1, <3>4 DEF Coming, Waiting
    <3>9. TruePackets(f)'
      <4>1. \A x \in Device : \A q \in Sent(x)' \cup Coming(x)' \cup Waiting(x)' :
                q \in {n, r} \/ q \in Sent(x) \cup Coming(x) \cup Waiting(x)
        BY <1>3, <3>8
      <4>2. \A q \in {n, r} : TruePacket(q, f)
        BY <3>7
      <4>3. TruePackets(f) /\ latest' = latest
        BY <1>1 DEF Followed
      <4>4. QED BY <4>1, <4>2, <4>3, TrueAnswers
    <3>10. \A x \in Device : Gets(x)' => Gets(x)
      BY <3>5, <3>8 DEF Gets
    <3>11. CASE g # f
      <4>1. files'[f] = files[f]
        BY <3>4, <3>11 DEF TypeOK
      <4>2. \A x \in Device : Range(toClient[x]) \subseteq Range(toClient'[x])
        BY <3>4
      <4>3. QED BY <1>9, <2>1, <3>1, <3>4, <3>9, <3>10, <3>11, <4>1, <4>2
    <3>12. CASE g = f
      <4>1. files'[f] = latest[f]
        BY <3>4, <3>6, <3>12 DEF TypeOK
      <4>2. ASSUME NEW x \in Device PROVE Inbound(x, f)'
        <5>1. CASE x = d
          BY <3>4, <3>5, <3>12, <5>1 DEF Inbound
        <5>2. CASE x # d
          BY <3>4, <3>5, <3>12, <5>2 DEF Inbound
        <5>3. QED BY <5>1, <5>2
      <4>3. QED BY <1>1, <1>4, <3>9, <3>10, <4>1, <4>2, Answered
    <3>13. QED BY <3>11, <3>12
  <2>3. CASE /\ p.file \in File => files[p.file] = Absent
             /\ UNCHANGED <<files, toClient>>
             /\ Announces(d, Device \ {d}, Request("DELETE_BROADCAST", NoName, Absent))
    <3>1. PICK n : n = Request("DELETE_BROADCAST", NoName, Absent)
      OBVIOUS
    <3>2. /\ \A x \in Device : x # d => handler'[x] = handler[x]
          /\ \A h \in Range(handler'[d]) : h.packet = n
      BY <2>3, <3>1 DEF Announces
    <3>3. TruePacket(n, f)
      BY <3>1, ClientSyncAssumption DEF TruePacket, Request
    <3>4. \A x \in Device : /\ Coming(x)' = Coming(x)
                            /\ \A q \in Waiting(x)' : q \in Waiting(x) \/ q = n
      BY <1>1, <2>3, <3>2 DEF Coming, Waiting
    <3>5. TruePackets(f)'
      <4>1. \A x \in Device : \A q \in Sent(x)' \cup Coming(x)' \cup Waiting(x)' :
                q \in {n} \/ q \in Sent(x) \cup Coming(x) \cup Waiting(x)
        BY <1>3, <3>4
      <4>2. \A q \in {n} : TruePacket(q, f)
        BY <3>3
      <4>3. TruePackets(f) /\ latest' = latest
        BY <1>1 DEF Followed
      <4>4. QED BY <4>1, <4>2, <4>3, TrueAnswers
    <3>6. \A x \in Device : Gets(x)' => Gets(x)
      BY <3>4 DEF Gets
    <3>7. CASE p.file # f
      BY <1>9, <2>1, <2>3, <3>2, <3>5, <3>6, <3>7
    <3>8. CASE p.file = f
      <4>1. latest[f] = Absent /\ files[f] = Absent
        BY <1>3, <1>7, <2>1, <2>3, <3>8 DEF TruePacket, Deleting
      <4>2. \A x \in Device : Inbound(x, f) => Inbound(x, f)'
        BY <1>8, <2>1, <2>3, <3>2
      <4>3. \A x \in Device : \/ dir[x][f] = latest[f] \/ Inbound(x, f)'
                              \/ dir[x][f] = Empty /\ BeingWritten(x, f)
        BY <4>1, <4>2 DEF Followed, DevicesCatchUp
      <4>4. QED BY <1>1, <1>4, <2>3, <3>5, <3>6, <4>1, <4>3, Answered
    <3>9. QED BY <3>7, <3>8
  <2>4. QED BY <1>11, <2>2, <2>3, ErasesEither
<1>12. CASE SyncsFiles(d, p)
  <2>1. p.type = "SYNC_DIR_REQ" /\ Asks(d)
    BY <1>3, <1>12 DEF SyncsFiles, Asks
  <2>2. /\ UNCHANGED <<files, handler>>
        /\ \A x \in Device : x # d => toClient'[x] = toClient[x]
        /\ Range(toClient[d]) \subseteq Range(toClient'[d])
        /\ \A q \in Range(toClient'[d]) :
              \/ q \in Range(toClient[d])
              \/ \E g \in File, b \in BOOLEAN : files[g] # Absent /\ q = SyncPacket(g, b)
        /\ \A g \in File : files[g] # Absent =>
              \E b \in BOOLEAN : SyncPacket(g, b) \in Range(toClient'[d])
    BY <1>12, SyncsKeeps, ZenonT(30)
  <2>3. files[f] = latest[f]
    BY <2>1 DEF Followed, TrueSyncs
  <2>4. PICK S : S = {q \in Range(toClient'[d]) : q \notin Range(toClient[d])}
    OBVIOUS
  <2>5. ASSUME NEW q \in S PROVE TruePacket(q, f)
    <3>1. PICK g \in File, b \in BOOLEAN : files[g] # Absent /\ q = SyncPacket(g, b)
      BY <2>2, <2>4, <2>5
    <3>2. q.type = "SYNC_DIR_ACCEPT_RESP" /\ q.file = g /\ q.data = files[g]
      BY <3>1 DEF SyncPacket
    <3>3. g = f => Whole(latest[f])
      BY <2>3, <3>1 DEF Tidy
    <3>4. QED BY <2>3, <3>2, <3>3 DEF TruePacket, Uploading, Deleting
  <2>6. \A x \in Device : /\ \A q \in Coming(x)' : q \in Coming(x) \/ (x = d /\ q \in S)
                          /\ Waiting(x)' = Waiting(x)
    BY <1>1, <2>2, <2>4 DEF Coming, Waiting
  <2>7. TruePackets(f)'
    <3>1. \A x \in Device : \A q \in Sent(x)' \cup Coming(x)' \cup Waiting(x)' :
              q \in S \/ q \in Sent(x) \cup Coming(x) \cup Waiting(x)
      BY <1>3, <2>6
    <3>2. TruePackets(f) /\ latest' = latest
      BY <1>1 DEF Followed
    <3>3. QED BY <2>5, <3>1, <3>2, TrueAnswers
  <2>8. \A x \in Device : Gets(x)' => Asks(x) \/ Gets(x)
    BY <2>1, <2>6 DEF Gets
  <2>9. \A x \in Device : Range(toClient[x]) \subseteq Range(toClient'[x])
    BY <2>2
  <2>10. ASSUME NEW x \in Device, Inbound(x, f) PROVE dir[x][f] = latest[f] \/ Inbound(x, f)'
    <3>1. CASE x = d /\ Asks(x) /\ dir[x][f] = Absent /\ dir[x][f] # latest[f]
      <4>1. PICK b \in BOOLEAN : SyncPacket(f, b) \in Range(toClient'[d])
        BY <2>2, <2>3, <3>1
      <4>2. SyncPacket(f, b).file = f
        BY DEF SyncPacket
      <4>3. QED BY <3>1, <4>1, <4>2 DEF Inbound
    <3>2. CASE x # d /\ Asks(x) /\ dir[x][f] = Absent
      BY <1>1, <1>4, <3>2 DEF Inbound
    <3>3. CASE ~(Asks(x) /\ dir[x][f] = Absent)
      BY <1>8, <2>2, <2>9, <2>10, <3>3
    <3>4. QED BY <3>1, <3>2, <3>3
  <2>11. \A x \in Device : \/ dir[x][f] = latest[f] \/ Inbound(x, f)'
                           \/ dir[x][f] = Empty /\ BeingWritten(x, f)
    BY <2>3, <2>10 DEF Followed, DevicesCatchUp
  <2>12. files'[f] = latest[f]
    BY <2>2, <2>3
  <2>13. QED BY <1>1, <1>4, <2>7, <2>8, <2>11, <2>12, Answered
<1>13. QED BY <1>2, <1>10, <1>11, <1>12

LEMMA ForwardsFollowed ==
    ASSUME TypeOK, Tidy, NEW d \in Device, Forwards(d), NEW f \in File, Followed(f)
    PROVE  Followed(f)'
<1>1. /\ UNCHANGED <<dir, open, events, batch, watched, typed, listener, received, toServer, files,
                     latest>>
  BY DEF Forwards, localVars, watcherVars, mailboxes, listenerVars, history, outcomes
<1>2. PICK h \in Handled :
          /\ Range(handler[d]) = {h} \cup Range(handler'[d])
          /\ \A x \in Device : x # d => handler'[x] = handler[x]
          /\ \A x \in Device : x # h.to => toClient'[x] = toClient[x]
          /\ Range(toClient'[h.to]) = Range(toClient[h.to]) \cup {h.packet}
  BY ForwardsKeeps, ZenonT(30)
<1>3. h.to \in Device /\ h.packet \in Waiting(d)
  BY <1>2 DEF Handled, Waiting
<1>4. \A x \in Device : /\ Sent(x)' = Sent(x)
                        /\ \A p \in Coming(x)' : p \in Coming(x) \/ p = h.packet
                        /\ Waiting(x)' \subseteq Waiting(x)
  BY <1>1, <1>2 DEF Sent, Coming, Waiting
<1>5. TruePackets(f)'
  <2>1. \A p : TruePacket(p, f) => TruePacket(p, f)'
    BY <1>1 DEF TruePacket
  <2>2. TruePacket(h.packet, f)
    BY <1>3 DEF Followed, TruePackets
  <2>3. \A x \in Device : \A p \in Sent(x)' \cup Coming(x)' \cup Waiting(x)' : TruePacket(p, f)
    BY <1>4, <2>2 DEF Followed, TruePackets
  <2>4. QED BY <2>1, <2>3 DEF TruePackets
<1>6. h.packet.type # "SYNC_DIR_ACCEPT_RESP"
  BY <1>2 DEF Tidy
<1>7. \A x \in Device : (Asks(x)' <=> Asks(x)) /\ (Gets(x)' => Gets(x))
  BY <1>4, <1>6 DEF Asks, Gets
<1>8. Carried(f) => Carried(f)'
  BY <1>1, <1>4, CarriedStays
<1>9. \A x \in Device : Range(toClient[x]) \subseteq Range(toClient'[x])
  BY <1>2
<1>10. ASSUME NEW x \in Device, Inbound(x, f) PROVE Inbound(x, f)'
  <2>1. CASE \E p \in Range(toClient[x]) : p.file = f
    BY <1>9, <2>1 DEF Inbound
  <2>2. CASE listener[x] = "apply" /\ received[x].file = f
    BY <1>1, <2>2 DEF Inbound
  <2>3. ASSUME NEW y \in Device, NEW k \in Range(handler[y]), k.to = x, k.packet.file = f
        PROVE  Inbound(x, f)'
    <3>1. CASE k \in Range(handler'[y])
      BY <2>3, <3>1 DEF Inbound
    <3>2. CASE k \notin Range(handler'[y])
      <4>1. k = h
        BY <1>2, <2>3, <3>2
      <4>2. k.packet \in Range(toClient'[x])
        BY <1>2, <2>3, <4>1
      <4>3. QED BY <2>3, <4>2 DEF Inbound
    <3>3. QED BY <3>1, <3>2
  <2>4. CASE Asks(x) /\ dir[x][f] = Absent
    BY <1>1, <1>7, <2>4 DEF Inbound
  <2>5. QED BY <1>10, <2>1, <2>2, <2>3, <2>4 DEF Inbound
<1>11. \A x \in Device : BeingWritten(x, f) => BeingWritten(x, f)'
  BY <1>1 DEF BeingWritten
<1>12. /\ latest'[f] = latest[f] /\ files'[f] = files[f] /\ \A x \in Device : dir'[x][f] = dir[x][f]
       /\ \A x \in Device, w \in Who : open'[x][w] = open[x][w]
       /\ events' = events /\ batch' = batch
  BY <1>1
<1>13. QED BY <1>5, <1>7, <1>8, <1>10, <1>11, <1>12, Beside

\* A step of d's listener: what it leaves at d is tidy.
LEMMA TidyAt ==
    ASSUME Tidy, NEW d \in Device, UNCHANGED <<handler, latest>>,
           \A x \in Device : x # d =>
              /\ open'[x] = open[x] /\ listener'[x] = listener[x] /\ received'[x] = received[x]
              /\ listing'[x] = listing[x],
           open'[d]["listener"] # None => listener'[d] = "write",
           listing'[d] # << >> => listener'[d] = "upload",
           listener'[d] = "upload" => received'[d].type = "SYNC_DIR_ACCEPT_RESP",
           listener'[d] = "write" => received'[d].type \notin Deleting
    PROVE  Tidy'
BY DEF Tidy, Whole, Deleting

LEMMA UserTidy ==
    ASSUME TypeOK, Tidy, NEW d \in Device, UserChanges(d)
    PROVE  Tidy'
<1>1. PICK f \in File : \/ MovesIn(d, f) \/ BeginsSave(d, f) \/ Removes(d, f)
                        \/ Uploads(d, f) \/ Deletes(d, f) \/ GetsSyncDir(d, f)
  BY DEF UserChanges
<1>2. CASE GetsSyncDir(d, f)
  <2>1. UNCHANGED <<open, latest, handler, listenerVars>>
    BY <1>2 DEF GetsSyncDir, Unaware, localVars, serverVars
  <2>2. QED BY <2>1, TidyStays
<1>3. CASE MovesIn(d, f) \/ BeginsSave(d, f) \/ Removes(d, f) \/ Uploads(d, f) \/ Deletes(d, f)
  <2>1. ChangesOnly(d, f)
    BY <1>3, UserMakes
  <2>2. UNCHANGED <<handler, listenerVars>>
    BY <2>1 DEF ChangesOnly, Unaware, serverVars
  <2>3. \A x \in Device : open'[x]["listener"] \in {None, open[x]["listener"]}
    BY <2>1, WhoIs DEF ChangesOnly, Local
  <2>4. \A g \in File : latest'[g] \in {latest[g], Absent} \/ Whole(latest'[g])
    BY <2>1 DEF ChangesOnly
  <2>5. QED BY <2>2, <2>3, <2>4, TidyStays
<1>4. QED BY <1>1, <1>2, <1>3

LEMMA OthersTidy ==
    ASSUME TypeOK, Tidy, NEW d \in Device,
           \/ EndsSave(d) \/ BeginsWatching(d) \/ Watcher(d) \/ SendsTyped(d) \/ SendsWatched(d)
           \/ Forwards(d)
    PROVE  Tidy'
<1>1. UNCHANGED <<listenerVars, latest>>
  BY DEF EndsSave, BeginsWatching, Unaware, Watcher, ReadsEvents, HandlesEvent, ClearsFlag, SendsTyped, SendsWatched,
         Forwards, history, outcomes
<1>2. \A x \in Device : open'[x]["listener"] \in {None, open[x]["listener"]}
  <2>1. CASE EndsSave(d)
    <3>1. open' = [open EXCEPT ![d]["user"] = None]
      BY <2>1 DEF EndsSave, Writes
    <3>2. QED BY <3>1 DEF TypeOK
  <2>2. CASE UNCHANGED open
    BY <2>2
  <2>3. QED BY <2>1, <2>2 DEF BeginsWatching, Watcher, ReadsEvents, HandlesEvent, ClearsFlag,
                              SendsTyped, SendsWatched, Forwards, localVars
<1>3. \A x \in Device : Range(handler'[x]) \subseteq Range(handler[x])
  <2>1. CASE Forwards(d)
    <3>1. /\ Range(handler'[d]) \subseteq Range(handler[d])
          /\ \A x \in Device : x # d => handler'[x] = handler[x]
      BY <2>1, ForwardsKeeps, ZenonT(30)
    <3>2. QED BY <3>1
  <2>2. CASE UNCHANGED handler
    BY <2>2
  <2>3. QED BY <2>1, <2>2 DEF EndsSave, BeginsWatching, Unaware, Watcher, ReadsEvents, HandlesEvent,
                              ClearsFlag, SendsTyped, SendsWatched, serverVars, remoteVars
<1>4. QED BY <1>1, <1>2, <1>3, TidyStays

LEMMA ServesTidy ==
    ASSUME TypeOK, Tidy, NEW d \in Device, Serves(d)
    PROVE  Tidy'
<1>1. UNCHANGED <<open, latest, listenerVars>> /\ handler[d] = << >>
  BY DEF Serves, localVars
<1>2. PICK p \in Upstream : Refuses(d, p) \/ Stores(d, p) \/ Erases(d, p) \/ SyncsFiles(d, p)
  BY ServesTakes
<1>3. \A x \in Device : \A h \in Range(handler'[x]) :
          h \in Range(handler[x]) \/ h.packet.type # "SYNC_DIR_ACCEPT_RESP"
  <2>1. ASSUME NEW S, NEW type, NEW g, NEW c, Announces(d, S, Request(type, g, c)),
               type # "SYNC_DIR_ACCEPT_RESP"
        PROVE  \A x \in Device : \A h \in Range(handler'[x]) :
                  h \in Range(handler[x]) \/ h.packet.type # "SYNC_DIR_ACCEPT_RESP"
    <3>1. Request(type, g, c).type = type
      BY DEF Request
    <3>2. QED BY <2>1, <3>1 DEF Announces
  <2>2. CASE Stores(d, p) \/ Refuses(d, p)
    BY <2>1, <2>2, StoresKeeps, RefusesKeeps
  <2>3. CASE Erases(d, p)
    BY <2>1, <2>3, ErasesEither DEF Deleted
  <2>4. CASE SyncsFiles(d, p)
    BY <2>4 DEF SyncsFiles
  <2>5. QED BY <1>2, <2>2, <2>3, <2>4
<1>4. QED BY <1>1, <1>3, TidyStays

LEMMA ListenerTidy ==
    ASSUME TypeOK, Tidy, NEW d \in Device, Listener(d)
    PROVE  Tidy'
<1>1. UNCHANGED <<handler, latest>>
  BY DEF Listener, Receives, Applies, WritesReceived, UploadsListed, remoteVars, serverVars, outcomes
<1>2. CASE Receives(d)
  <2>1. /\ listener[d] = "read" /\ listener'[d] = "apply" /\ UNCHANGED <<open, listing>>
        /\ \A x \in Device : x # d => listener'[x] = listener[x] /\ received'[x] = received[x]
    BY <1>2 DEF Receives, TypeOK, localVars
  <2>2. open'[d]["listener"] = None /\ listing'[d] = << >>
    BY <2>1 DEF Tidy
  <2>3. QED BY <1>1, <2>1, <2>2, TidyAt
<1>3. CASE Applies(d)
  <2>1. listener[d] = "apply" /\ UNCHANGED listing /\ LocalTypes
    BY <1>3, LocallyTyped DEF Applies
  <2>2. open[d]["listener"] = None /\ listing'[d] = << >>
    BY <2>1 DEF Tidy
  <2>3. \A x \in Device : x # d =>
          /\ open'[x] = open[x] /\ listener'[x] = listener[x] /\ received'[x] = received[x]
    BY <1>3, AppliesEvents
  <2>4. CASE Erased(d)
    <3>1. listener'[d] = "read"
      BY <2>4 DEF Erased, Done, TypeOK
    <3>2. open'[d]["listener"] = None
      <4>1. PICK f \in File \cup {NoName} : f = received[d].file
        BY <2>1, Received
      <4>2. PICK by \in {"user", "listener", "unflagged"} :
                by = IF received[d].type = "DELETE_BROADCAST" THEN "listener" ELSE "unflagged"
        OBVIOUS
      <4>3. Removed(d, f, by)
        BY <2>4, <4>1, <4>2 DEF Erased
      <4>4. \A w \in Who : open'[d][w] \in {None, open[d][w]}
        BY <2>1, <4>3, RemovedKeeps
      <4>5. QED BY <2>2, <4>4, WhoIs
    <3>3. QED BY <1>1, <2>1, <2>2, <2>3, <3>1, <3>2, TidyAt
  <2>5. CASE Begun(d)
    <3>1. listener'[d] = "write" /\ received'[d].type \notin Deleting
      BY <2>5 DEF Begun, TypeOK, Deleting
    <3>2. QED BY <1>1, <2>1, <2>2, <2>3, <3>1, TidyAt
  <2>6. QED BY <1>3, <2>4, <2>5, AppliesEither
<1>4. CASE WritesReceived(d)
  <2>1. /\ listener[d] = "write" /\ open' = [open EXCEPT ![d]["listener"] = None]
        /\ \A x \in Device : x # d => listener'[x] = listener[x] /\ received'[x] = received[x]
                                      /\ listing'[x] = listing[x]
    BY <1>4 DEF WritesReceived, Writes, Done, TypeOK
  <2>2. open'[d]["listener"] = None /\ \A x \in Device : x # d => open'[x] = open[x]
    BY <2>1 DEF TypeOK
  <2>3. received[d] \in Downstream /\ listing[d] = << >>
    BY <2>1, Received DEF Tidy
  <2>4. CASE received[d].last
    <3>1. listener'[d] = "upload" /\ received'[d].type = "SYNC_DIR_ACCEPT_RESP"
      BY <1>4, <2>3, <2>4, Packets DEF WritesReceived, TypeOK
    <3>2. QED BY <1>1, <2>1, <2>2, <3>1, TidyAt
  <2>5. CASE ~received[d].last
    <3>1. listener'[d] = "read" /\ listing'[d] = << >>
      BY <1>4, <2>3, <2>5 DEF WritesReceived, Done, TypeOK
    <3>2. QED BY <1>1, <2>1, <2>2, <3>1, TidyAt
  <2>6. QED BY <2>4, <2>5
<1>5. CASE UploadsListed(d)
  <2>1. listener[d] = "upload" /\ UNCHANGED open
    BY <1>5 DEF UploadsListed, localVars
  <2>2. open'[d]["listener"] = None /\ received[d].type = "SYNC_DIR_ACCEPT_RESP"
    BY <2>1 DEF Tidy
  <2>3. CASE listing[d] = << >> /\ Done(d) /\ UNCHANGED <<listing, toServer, lost>>
    <3>1. /\ listener'[d] = "read"
          /\ \A x \in Device : x # d => listener'[x] = listener[x] /\ received'[x] = received[x]
      BY <2>3 DEF Done, TypeOK
    <3>2. QED BY <1>1, <2>1, <2>2, <2>3, <3>1, TidyAt
  <2>4. ASSUME NEW f \in File, Relisted(d, f) PROVE Tidy'
    <3>1. /\ UNCHANGED <<listener, received>>
          /\ \A x \in Device : x # d => listing'[x] = listing[x]
      BY <2>4 DEF Relisted
    <3>2. QED BY <1>1, <2>1, <2>2, <3>1, TidyAt
  <2>5. QED BY <1>5, <2>3, <2>4, UploadsListedEither
<1>6. QED BY <1>2, <1>3, <1>4, <1>5 DEF Listener

LEMMA NextTidy ==
    ASSUME TypeOK, Tidy, [Next]_vars
    PROVE  Tidy'
<1>1. CASE UNCHANGED vars
  <2>1. UNCHANGED <<open, listener, received, listing, handler, latest>>
    BY <1>1 DEF vars, localVars, listenerVars, remoteVars, serverVars, history, outcomes
  <2>2. QED BY <2>1 DEF Tidy, Whole, Deleting
<1>2. CASE Next
  BY <1>2, UserTidy, OthersTidy, ServesTidy, ListenerTidy DEF Next
<1>3. QED BY <1>1, <1>2

\* No step takes a file off the list of those that may differ.
LEMMA LostGrows ==
    ASSUME TypeOK, [Next]_vars
    PROVE  lost \subseteq lost'
<1>1. CASE UNCHANGED vars
  BY <1>1 DEF vars, history, outcomes
<1>2. ASSUME NEW d \in Device, NEW f \in File,
             MovesIn(d, f) \/ BeginsSave(d, f) \/ Removes(d, f) \/ Uploads(d, f) \/ Deletes(d, f)
      PROVE  lost \subseteq lost'
  BY <1>2, UserMakes DEF ChangesOnly
<1>3. ASSUME NEW d \in Device,
             \/ \E f \in File : GetsSyncDir(d, f)
             \/ EndsSave(d) \/ BeginsWatching(d) \/ Watcher(d) \/ Listener(d) \/ SendsTyped(d)
             \/ SendsWatched(d) \/ Serves(d) \/ Forwards(d)
      PROVE  lost \subseteq lost'
  BY <1>3 DEF Refuses, BeginsWatching, GetsSyncDir, EndsSave, Watcher, ReadsEvents, HandlesEvent, ClearsFlag, Listener, Receives,
              Applies, WritesReceived, UploadsListed, SendsTyped, SendsWatched, Serves, Forwards,
              history, outcomes, LostIf, DroppedFrom
<1>4. QED BY <1>1, <1>2, <1>3 DEF Next, UserChanges

LEMMA NextFollowed ==
    ASSUME TypeOK, Tidy, AllFollowed, [Next]_vars
    PROVE  AllFollowed'
<1>1. SUFFICES ASSUME NEW f \in File, f \notin lost' PROVE Followed(f)'
  BY DEF AllFollowed
<1>2. Followed(f)
  BY <1>1, LostGrows DEF AllFollowed
<1>3. CASE UNCHANGED vars \/ \E d \in Device : BeginsWatching(d)
  <2>1. UNCHANGED <<dir, open, events, batch, watched, typed, listener, received, toServer, toClient,
                    files, handler, latest>>
    BY <1>3 DEF vars, localVars, watcherVars, mailboxes, listenerVars, remoteVars, serverVars,
                history, outcomes, BeginsWatching, Unaware
  <2>2. SendsNothing
    BY <2>1 DEF SendsNothing
  <2>3. /\ TruePackets(f)'
        /\ \A x \in Device : Sent(x)' = Sent(x) /\ (Asks(x)' <=> Asks(x)) /\ (Gets(x)' => Gets(x))
    BY <1>2, <2>2, NothingSent
  <2>4. Carried(f) => Carried(f)'
    BY <2>1, <2>3, CarriedStays
  <2>5. \A x \in Device : Inbound(x, f) => Inbound(x, f)'
    BY <2>1, <2>3 DEF Inbound
  <2>6. \A x \in Device : BeingWritten(x, f) => BeingWritten(x, f)'
    BY <2>1 DEF BeingWritten
  <2>7. QED BY <1>2, <2>1, <2>3, <2>4, <2>5, <2>6, Beside
<1>4. CASE Next
  <2>1. PICK d \in Device :
            \/ UserChanges(d) \/ EndsSave(d) \/ BeginsWatching(d) \/ Watcher(d) \/ Listener(d)
            \/ SendsTyped(d) \/ SendsWatched(d) \/ Serves(d) \/ Forwards(d)
    BY <1>4 DEF Next
  <2>2. CASE UserChanges(d)
    <3>1. PICK g \in File : \/ MovesIn(d, g) \/ BeginsSave(d, g) \/ Removes(d, g)
                            \/ Uploads(d, g) \/ Deletes(d, g) \/ GetsSyncDir(d, g)
      BY <2>2 DEF UserChanges
    <3>2. CASE GetsSyncDir(d, g)
      BY <1>1, <1>2, <3>2, GetsSyncDirFollowed
    <3>3. CASE MovesIn(d, g) \/ BeginsSave(d, g) \/ Removes(d, g) \/ Uploads(d, g) \/ Deletes(d, g)
      <4>1. CASE g = f
        BY <1>1, <1>2, <3>3, <4>1, UserFollowed
      <4>2. CASE g # f
        BY <1>1, <1>2, <3>3, <4>2, UserMakes, UserBeside
      <4>3. QED BY <4>1, <4>2
    <3>4. QED BY <3>1, <3>2, <3>3
  <2>3. CASE EndsSave(d) \/ BeginsWatching(d)
    BY <1>2, <1>3, <2>3, EndsSaveFollowed
  <2>4. CASE Watcher(d)
    BY <1>1, <1>2, <2>4, ReadsEventsFollowed, HandlesEventFollowed DEF Watcher
  <2>5. CASE Listener(d)
    BY <1>1, <1>2, <2>5, ReceivesFollowed, AppliesFollowed, WritesReceivedFollowed,
       UploadsListedFollowed DEF Listener
  <2>6. CASE SendsTyped(d) \/ SendsWatched(d)
    BY <1>2, <2>6, SendsFollowed
  <2>7. CASE Serves(d) \/ Forwards(d)
    BY <1>1, <1>2, <2>7, ServesFollowed, ForwardsFollowed
  <2>8. QED BY <2>1, <2>2, <2>3, <2>4, <2>5, <2>6, <2>7
<1>5. QED BY <1>3, <1>4

\* When nothing is under way anywhere, nothing is under way about f.
LEMMA QuietHasNone ==
    ASSUME TypeOK, Tidy, Quiet, NEW f \in File
    PROVE  ~InFlight(f)
<1>1. SUFFICES ASSUME NEW d \in Device
               PROVE  /\ \A p \in {watched[d], typed[d], received[d]} : p = None
                      /\ Range(handler[d]) = {} /\ Range(toServer[d]) = {} /\ Range(toClient[d]) = {}
                      /\ Range(events[d]) = {} /\ Range(batch[d]) = {} /\ Range(listing[d]) = {}
                      /\ \A w \in {"user", "listener"} : open[d][w] = None
  BY DEF InFlight, About
<1>2. /\ events[d] = << >> /\ watcher[d] = "read" /\ open[d]["user"] = None /\ listener[d] = "read"
      /\ watched[d] = None /\ typed[d] = None
      /\ toServer[d] = << >> /\ toClient[d] = << >> /\ handler[d] = << >>
  BY DEF Quiet, QuietAt, WatcherIsQuiet
<1>3. batch[d] = << >> /\ received[d] = None
  BY <1>2 DEF TypeOK
<1>4. listing[d] = << >> /\ open[d]["listener"] = None
  BY <1>2 DEF Tidy
<1>5. QED BY <1>2, <1>3, <1>4, RangeEmpty

LEMMA FollowInvariant == Spec => [](TypeOK /\ Tidy /\ AllFollowed)
<1>1. Init => TypeOK /\ Tidy /\ AllFollowed
  BY InitTyped, InitFollowed
<1>2. TypeOK /\ Tidy /\ AllFollowed /\ [Next]_vars => TypeOK' /\ Tidy' /\ AllFollowed'
  BY NextTyped, NextTidy, NextFollowed
<1>3. QED BY <1>1, <1>2, PTL DEF Spec

\* Whenever nothing is under way, the server and every device have what the
\* last change made of each file, unless a change of it was lost in one of the
\* ways the code can lose one: for any number of devices and files, and for
\* every script.
THEOREM DevicesAgree == Spec => []QuietAgrees
<1>1. TypeOK /\ Tidy /\ AllFollowed => QuietAgrees
  <2>1. SUFFICES ASSUME TypeOK, Tidy, AllFollowed, Quiet, NEW f \in File \ lost
                 PROVE  files[f] = latest[f] /\ \A d \in Device : dir[d][f] = latest[f]
    BY DEF QuietAgrees
  <2>2. Followed(f) /\ ~InFlight(f)
    BY <2>1, QuietHasNone DEF AllFollowed
  <2>3. QED BY <2>1, <2>2, Settled
<1>2. QED BY <1>1, FollowInvariant, PTL

=============================================================================
