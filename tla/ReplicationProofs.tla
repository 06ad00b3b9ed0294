-------------------------- MODULE ReplicationProofs --------------------------
(***************************************************************************)
(* What an acknowledged request guarantees, and when replicas agree, for    *)
(* any number of backups, devices and requests, any interleaving, and any   *)
(* crashes.                                                                *)
(*                                                                         *)
(* The argument: the thread of a request that has come to place k of its    *)
(* loop has written to the backups before k, as far as none has crashed and  *)
(* its iterators were good; if the loop is cut short before they went bad,   *)
(* the backup at k has crashed and nothing is claimed of those behind it.   *)
(* Packets and places are never taken back, and writes that go astray only  *)
(* add packets.                                                            *)
(***************************************************************************)
EXTENDS Replication, SequenceTheorems, TLAPS

\* The i-th backup has been written j
Written(j, i) == \E m \in DOMAIN log[others[i]] : log[others[i]][m] = j

\* How far the loop of thread j has come through good iterators
Reach(j) ==
    IF thread[j].pc = "none" THEN 0
    ELSE IF thread[j].pc = "forward" /\ thread[j].k < thread[j].valid
    THEN thread[j].k ELSE thread[j].valid

Forwarded ==
    \A j \in Job : \A i \in 1 .. Reach(j) : Intact(i) => Written(j, i)

Fresh == \A j \in Job : thread[j].pc = "none" => thread[j].k = 0 /\ thread[j].n = 0

\* The inductive invariant
IInv == TypeOK /\ Fresh /\ Forwarded

\* What the thread of a job keeps
Threads == [pc : {"none", "forward", "apply", "answer", "tell", "done"},
            k : Nat, n : Nat, valid : Nat, ok : BOOLEAN]

\* What no step takes back: places, packets written, crashes
Keeps ==
    /\ Len(others) <= Len(others')
    /\ \A h \in 1 .. Len(others) : others'[h] = others[h]
    /\ crashed \subseteq crashed'
    /\ \A b \in Backup : \A m \in DOMAIN log[b] :
          m \in DOMAIN log'[b] /\ log'[b][m] = log[b][m]

-----------------------------------------------------------------------------
\* Every thread starts with the loop that forwards its packet, and goes through
\* the stages in their order.
LEMMA StageOrder ==
    ASSUME NEW j \in Job
    PROVE  /\ thread[j].pc = "none" => Following(j) = "forward"
           /\ j \in Request /\ thread[j].pc = "forward" => Following(j) = "apply"
           /\ j \in Device /\ thread[j].pc = "forward" => Following(j) = "answer"
           /\ j \in Request /\ thread[j].pc = "apply" => Following(j) = "answer"
           /\ j \in Request /\ thread[j].pc = "answer" => Following(j) = "tell"
           /\ j \in Device /\ thread[j].pc = "answer" => Following(j) = "done"
           /\ j \in Request /\ thread[j].pc = "tell" => Following(j) = "done"
<1>1. j \in Request => j \notin Device
  BY ReplicationAssumption
<1>2. QED BY <1>1 DEF Following, Stages, Job

\* A loop never goes beyond the backups there are.
LEMMA ReachBound ==
    ASSUME TypeOK, NEW j \in Job
    PROVE  /\ thread[j].k \in Nat /\ thread[j].n \in Nat /\ thread[j].valid \in Nat
           /\ thread[j].valid <= thread[j].n /\ thread[j].n <= Len(others)
           /\ Reach(j) \in Nat /\ Reach(j) <= Len(others) /\ Len(others) \in Nat
BY LenProperties DEF TypeOK, Reach

\* What has been written stays written.
LEMMA Kept ==
    ASSUME TypeOK, Forwarded, Keeps, NEW j \in Job, NEW i \in 1 .. Reach(j), Intact(i)'
    PROVE  Written(j, i)'
<1>1. i \in 1 .. Len(others) /\ \A h \in 1 .. i : h \in 1 .. Len(others)
  BY ReachBound
<1>2. Intact(i)
  BY <1>1 DEF Intact, Keeps
<1>3. PICK m \in DOMAIN log[others[i]] : log[others[i]][m] = j
  BY <1>2 DEF Forwarded, Written
<1>4. others[i] \in Backup
  BY <1>1, ElementOfSeq DEF TypeOK
<1>5. others'[i] = others[i]
  BY <1>1 DEF Keeps
<1>6. QED BY <1>3, <1>4, <1>5 DEF Written, Keeps

\* A step in which no loop advances keeps what the loops have written.
LEMMA NoFurther ==
    ASSUME TypeOK, Forwarded, Keeps, \A j \in Job : Reach(j)' \in Nat /\ Reach(j)' <= Reach(j)
    PROVE  Forwarded'
<1> SUFFICES ASSUME NEW j \in Job, NEW i \in 1 .. Reach(j)', Intact(i)'
             PROVE  Written(j, i)'
  BY DEF Forwarded
<1>1. i \in 1 .. Reach(j)
  BY ReachBound
<1>2. QED BY <1>1, Kept

\* Leaving the vector, the packets and the crashes alone keeps them.
LEMMA KeepsUnchanged ==
    ASSUME TypeOK, UNCHANGED <<others, log, crashed>>
    PROVE  Keeps
BY LenProperties DEF Keeps, TypeOK

\* Only the thread of job j moves, to stage pc and place k of a loop of n, the
\* first v of them good.
Moves(j, pc, k, n, v) ==
    /\ thread' \in [Job -> Threads]
    /\ \A q \in Job : q # j => thread'[q] = thread[q]
    /\ thread'[j].pc = pc /\ thread'[j].k = k /\ thread'[j].n = n /\ thread'[j].valid = v

\* The type of the threads, as a fact of its own for the leaves below.
LEMMA ThreadsTyped == TypeOK => thread \in [Job -> Threads]
BY DEF TypeOK, Threads

\* A thread that is through with its stage goes to the next, at place 0.
LEMMA AdvanceMoves ==
    ASSUME TypeOK, NEW j \in Job, thread[j].pc # "done",
           thread[j].pc = "apply" \/ thread[j].pc = "tell" => j \in Request,
           thread' = Advance(j) \/ \E ok \in BOOLEAN : thread' = [Advance(j) EXCEPT ![j].ok = ok]
    PROVE  Moves(j, Following(j), 0, thread[j].n, thread[j].valid)
<1>1. Following(j) \in {"forward", "apply", "answer", "tell", "done"}
  <2>1. thread[j].pc \in {"none", "forward", "apply", "answer", "tell"} /\ (j \in Device \/ j \in Request)
    BY DEF TypeOK, Job
  <2>2. QED BY <2>1, StageOrder
<1>2. thread \in [Job -> Threads]
  BY ThreadsTyped
<1>3. CASE thread' = Advance(j)
  <2>1. thread' = [thread EXCEPT ![j].pc = Following(j), ![j].k = 0]
    BY <1>3 DEF Advance
  <2>2. QED BY <1>1, <1>2, <2>1 DEF Moves, Threads
<1>4. ASSUME NEW ok \in BOOLEAN, thread' = [Advance(j) EXCEPT ![j].ok = ok]
      PROVE  Moves(j, Following(j), 0, thread[j].n, thread[j].valid)
  <2>1. thread' = [[thread EXCEPT ![j].pc = Following(j), ![j].k = 0] EXCEPT ![j].ok = ok]
    BY <1>4 DEF Advance
  <2>2. QED BY <1>1, <1>2, <2>1 DEF Moves, Threads
<1>5. QED BY <1>3, <1>4

\* A turn of a loop moves it one place.
LEMMA TurnMoves ==
    ASSUME TypeOK, NEW j \in Job, thread' = [thread EXCEPT ![j].k = thread[j].k + 1]
    PROVE  Moves(j, thread[j].pc, thread[j].k + 1, thread[j].n, thread[j].valid)
<1>1. thread \in [Job -> Threads]
  BY ThreadsTyped
<1>2. QED BY <1>1 DEF Moves, Threads

\* A job that comes in starts its loop over the backups there are.
LEMMA ReceivesMoves ==
    ASSUME TypeOK, NEW j \in Job,
           thread' = [thread EXCEPT ![j].pc = Following(j), ![j].n = Len(others),
                                    ![j].valid = Len(others)],
           thread[j].pc = "none"
    PROVE  Moves(j, "forward", thread[j].k, Len(others), Len(others))
<1>1. thread \in [Job -> Threads]
  BY ThreadsTyped
<1>2. Len(others) \in Nat /\ Following(j) = "forward"
  BY LenProperties, StageOrder DEF TypeOK
<1>3. QED BY <1>1, <1>2 DEF Moves, Threads

\* The types of what the master's threads share
MasterTyped ==
    /\ sync \in [Device -> {"no", "listed", "read", "done"}]
    /\ copy \in [Device -> Upload \cup {Empty}]
    /\ masterFile \in Content /\ told \in [Device -> Content \cup {Empty}]
    /\ overlapped \in BOOLEAN /\ overtaken \subseteq Device

\* The types, when a thread moves and others, packets and backups are left alone
\* but for packets added.
LEMMA MovesTyped ==
    ASSUME TypeOK, NEW j \in Job, NEW pc, NEW k, NEW n, NEW v, Moves(j, pc, k, n, v),
           v <= n, n <= Len(others), pc = "forward" => k <= n,
           UNCHANGED <<others, up, backupVars, crashed, late>>,
           log' \in [Backup -> Seq(Job)], \A b \in Backup : Len(log[b]) <= Len(log'[b]),
           MasterTyped'
    PROVE  TypeOK'
<1>1. thread' \in [Job -> [pc : {"none", "forward", "apply", "answer", "tell", "done"},
                           k : Nat, n : Nat, valid : Nat, ok : BOOLEAN]]
  BY DEF Moves, Threads
<1>2. ASSUME NEW q \in Job
      PROVE  /\ thread'[q].valid <= thread'[q].n /\ thread'[q].n <= Len(others')
             /\ thread'[q].pc = "forward" => thread'[q].k <= thread'[q].n
  <2>1. CASE q = j
    BY <2>1 DEF Moves
  <2>2. CASE q # j
    <3>1. thread'[q] = thread[q]
      BY <2>2 DEF Moves
    <3>2. QED BY <3>1 DEF TypeOK
  <2>3. QED BY <2>1, <2>2
<1>3. others' \in Seq(Backup) /\ up' \in BOOLEAN /\ crashed' \subseteq Backup
      /\ late' \subseteq LateBackup /\ dir' \in [Backup -> BOOLEAN]
      /\ replica' \in [Backup -> Content] /\ done' \in [Backup -> Nat]
  BY DEF TypeOK, backupVars
<1>4. ASSUME NEW b \in Backup PROVE done'[b] <= Len(log'[b])
  <2>1. done'[b] = done[b] /\ done[b] \in Nat /\ done[b] <= Len(log[b])
    BY DEF TypeOK, backupVars
  <2>2. Len(log[b]) \in Nat /\ Len(log'[b]) \in Nat /\ Len(log[b]) <= Len(log'[b])
    BY LenProperties DEF TypeOK
  <2>3. QED BY <2>1, <2>2
<1>5. QED BY <1>1, <1>2, <1>3, <1>4 DEF TypeOK, MasterTyped

\* A thread that writes nothing, and is not in the middle of its loop, keeps all.
LEMMA ThreadStep ==
    ASSUME IInv, NEW j \in Job, NEW pc, NEW k, NEW n, NEW v, Moves(j, pc, k, n, v),
           pc # "none", v <= n, n <= Len(others),
           \/ pc = "forward" /\ k = 0
           \/ pc # "forward" /\ v = thread[j].valid /\ Reach(j) = v,
           UNCHANGED <<others, log, up, backupVars, crashed, late>>,
           MasterTyped'
    PROVE  IInv'
<1>1. TypeOK'
  <2>1. n \in Nat /\ v \in Nat /\ (pc = "forward" => k <= n)
    BY DEF Moves, Threads
  <2>2. log' \in [Backup -> Seq(Job)] /\ \A b \in Backup : Len(log[b]) <= Len(log'[b])
    BY LenProperties DEF IInv, TypeOK
  <2>3. QED BY <2>1, <2>2, MovesTyped DEF IInv
<1>2. Fresh'
  BY DEF IInv, Fresh, Moves
<1>3. Keeps
  BY KeepsUnchanged DEF IInv
<1>4. ASSUME NEW q \in Job PROVE Reach(q)' \in Nat /\ Reach(q)' <= Reach(q)
  <2>1. CASE q = j
    <3>1. v \in Nat /\ thread'[j].pc = pc /\ thread'[j].k = k /\ thread'[j].valid = v
      BY DEF Moves, Threads
    <3>2. Reach(j) \in Nat
      BY ReachBound DEF IInv
    <3>3. CASE pc = "forward" /\ k = 0
      <4>1. Reach(j)' = 0
        BY <3>1, <3>3 DEF Reach
      <4>2. QED BY <2>1, <3>2, <4>1
    <3>4. CASE pc # "forward" /\ Reach(j) = v
      <4>1. Reach(j)' = v
        BY <3>1, <3>4 DEF Reach
      <4>2. QED BY <2>1, <3>1, <3>4, <4>1
    <3>5. QED BY <3>3, <3>4
  <2>2. CASE q # j
    <3>1. thread'[q] = thread[q]
      BY <2>2 DEF Moves
    <3>2. Reach(q)' = Reach(q)
      BY <3>1 DEF Reach
    <3>3. QED BY <3>2, ReachBound DEF IInv
  <2>3. QED BY <2>1, <2>2
<1>5. Forwarded'
  BY <1>3, <1>4, NoFurther DEF IInv
<1>6. QED BY <1>1, <1>2, <1>5 DEF IInv

-----------------------------------------------------------------------------
(* The actions.                                                            *)

\* The loop starts at 0, having written to nobody.
LEMMA ReceivesStep == ASSUME IInv, NEW j \in Job, Receives(j) PROVE IInv'
<1>1. thread[j].k = 0
  BY DEF Receives, IInv, Fresh
<1>2. Moves(j, "forward", 0, Len(others), Len(others))
  BY <1>1, ReceivesMoves DEF Receives, End, IInv
<1>3. Len(others) \in Nat /\ Len(others) <= Len(others)
  BY LenProperties DEF IInv, TypeOK
<1>4. MasterTyped'
  BY DEF Receives, IInv, TypeOK, MasterTyped, syncVars
<1>5. UNCHANGED <<others, log, up, backupVars, crashed, late>>
  BY DEF Receives
<1>6. QED BY <1>2, <1>3, <1>4, <1>5, ThreadStep

\* Append keeps the elements of a sequence where they are, and has the new one.
LEMMA Appended ==
    ASSUME NEW S, NEW seq \in Seq(S), NEW e \in S
    PROVE  /\ Append(seq, e) \in Seq(S) /\ Len(seq) <= Len(Append(seq, e))
           /\ \A m \in DOMAIN seq : m \in DOMAIN Append(seq, e) /\ Append(seq, e)[m] = seq[m]
           /\ \E m \in DOMAIN Append(seq, e) : Append(seq, e)[m] = e
<1> DEFINE t == Append(seq, e)
<1>1. t \in Seq(S) /\ Len(t) = Len(seq) + 1 /\ t[Len(seq) + 1] = e
      /\ \A i \in 1 .. Len(seq) : t[i] = seq[i]
  BY AppendProperties
<1>2. DOMAIN seq = 1 .. Len(seq) /\ Len(seq) \in Nat
  BY LenProperties
<1>3. DOMAIN t = 1 .. Len(t)
  BY <1>1, LenProperties
<1> HIDE DEF t
<1>4. /\ t \in Seq(S) /\ Len(seq) <= Len(t)
      /\ \A m \in DOMAIN seq : m \in DOMAIN t /\ t[m] = seq[m]
      /\ \E m \in DOMAIN t : t[m] = e
  BY <1>1, <1>2, <1>3
<1>5. QED BY <1>4 DEF t

\* The loop has written to the backup it came to, unless that one has crashed;
\* if it gives up, the one it came to has crashed.
LEMMA ForwardsStep == ASSUME IInv, NEW j \in Job, Forwards(j) PROVE IInv'
<1> DEFINE here == thread[j].k + 1
<1>1. thread[j].k \in Nat /\ thread[j].n \in Nat /\ thread[j].valid \in Nat /\ Len(others) \in Nat
      /\ thread[j].k < thread[j].valid /\ thread[j].valid <= thread[j].n
  BY ReachBound DEF IInv, Forwards
<1>2. here <= thread[j].n /\ thread[j].n <= Len(others) /\ here \in 1 .. Len(others)
  <2>1. thread[j].k < thread[j].n /\ thread[j].n <= Len(others)
    BY DEF Forwards, IInv, TypeOK
  <2>2. QED BY <1>1, <2>1
<1>3. others[here] \in Backup /\ Other(j) = others[here]
  BY <1>2, ElementOfSeq DEF IInv, TypeOK, Other
<1>4. \/ log' = log
      \/ others[here] \notin crashed
         /\ log' = [log EXCEPT ![others[here]] = Append(@, j)]
  BY <1>3 DEF Forwards
<1>5. ASSUME NEW b \in Backup
      PROVE  /\ log'[b] \in Seq(Job) /\ Len(log[b]) <= Len(log'[b])
             /\ \A m \in DOMAIN log[b] : m \in DOMAIN log'[b] /\ log'[b][m] = log[b][m]
  <2>1. log[b] \in Seq(Job)
    BY DEF IInv, TypeOK
  <2>2. log'[b] = log[b] \/ log'[b] = Append(log[b], j)
    BY <1>4 DEF IInv, TypeOK
  <2>3. CASE log'[b] = log[b]
    BY <2>1, <2>3, LenProperties
  <2>4. CASE log'[b] = Append(log[b], j)
    BY <2>1, <2>4, Appended
  <2>5. QED BY <2>2, <2>3, <2>4
<1>6. log' \in [Backup -> Seq(Job)]
  <2>1. log \in [Backup -> Seq(Job)] /\ log[others[here]] \in Seq(Job)
    BY <1>3 DEF IInv, TypeOK
  <2>2. Append(log[others[here]], j) \in Seq(Job)
    BY <2>1, AppendProperties
  <2>3. QED BY <2>1, <2>2, <1>4
<1>7. UNCHANGED <<others, up, backupVars, crashed, late>>
      /\ UNCHANGED <<sync, copy, masterFile, told, overlapped, overtaken>>
  BY DEF Forwards, syncVars
<1>8. Keeps
  BY <1>1, <1>5, <1>7 DEF Keeps
<1>9. MasterTyped'
  BY <1>7 DEF IInv, TypeOK, MasterTyped
<1>10. ASSUME NEW q \in Job, q # j, thread'[q] = thread[q],
              NEW i \in 1 .. Reach(q)', Intact(i)'
       PROVE  Written(q, i)'
  <2>1. i \in 1 .. Reach(q)
    BY <1>10 DEF Reach
  <2>2. QED BY <1>8, <1>10, <2>1, Kept DEF IInv
<1>11. CASE thread' = [thread EXCEPT ![j].k = @ + 1]
            /\ log' = IF Other(j) \in crashed THEN log
                      ELSE [log EXCEPT ![Other(j)] = Append(@, j)]
  <2>1. Moves(j, "forward", here, thread[j].n, thread[j].valid)
    BY <1>11, TurnMoves DEF Forwards, IInv
  <2>2. TypeOK'
    BY <1>1, <1>2, <1>5, <1>6, <1>7, <1>9, <2>1, MovesTyped DEF IInv
  <2>3. Fresh'
    BY <2>1 DEF IInv, Fresh, Moves
  <2>4. ASSUME NEW i \in 1 .. Reach(j)', Intact(i)' PROVE Written(j, i)'
    <3>1. Reach(j)' = here /\ Reach(j) = thread[j].k
      BY <1>1, <2>1 DEF Reach, Moves, Forwards
    <3>2. CASE i \in 1 .. Reach(j)
      BY <3>2, <1>8, <2>4, Kept DEF IInv
    <3>3. CASE i \notin 1 .. Reach(j)
      <4>1. i = here
        BY <3>1, <3>3, <1>1, <2>4
      <4>2. others[here] \notin crashed
        BY <4>1, <2>4, <1>2, <1>7 DEF Intact
      <4>3. log' = [log EXCEPT ![others[here]] = Append(@, j)]
        BY <4>2, <1>3, <1>11
      <4>4. log[others[here]] \in Seq(Job)
            /\ log'[others[here]] = Append(log[others[here]], j)
        BY <4>3, <1>3 DEF IInv, TypeOK
      <4>5. \E m \in DOMAIN log'[others[here]] : log'[others[here]][m] = j
        BY <4>4, Appended
      <4>6. QED BY <4>1, <4>5, <1>7 DEF Written
    <3>4. QED BY <3>2, <3>3
  <2>5. \A q \in Job : q # j => thread'[q] = thread[q]
    BY <2>1 DEF Moves
  <2>6. Forwarded'
    BY <2>4, <2>5, <1>10 DEF Forwarded
  <2>7. QED BY <2>2, <2>3, <2>6 DEF IInv
<1>12. CASE Other(j) \in crashed /\ thread' = Advance(j) /\ UNCHANGED log
  <2>1. Following(j) \in {"apply", "answer"} /\ thread[j].pc = "forward"
    BY StageOrder DEF Forwards, Job
  <2>2. Moves(j, Following(j), 0, thread[j].n, thread[j].valid)
    BY <1>12, <2>1, AdvanceMoves DEF IInv
  <2>3. TypeOK'
    BY <1>1, <1>2, <1>5, <1>6, <1>7, <1>9, <2>1, <2>2, MovesTyped DEF IInv
  <2>4. Fresh'
    BY <2>1, <2>2 DEF IInv, Fresh, Moves
  <2>5. ASSUME NEW i \in 1 .. Reach(j)', Intact(i)' PROVE Written(j, i)'
    <3>1. Reach(j)' = thread[j].valid /\ Reach(j) = thread[j].k
      BY <1>1, <2>1, <2>2 DEF Reach, Moves
    <3>2. CASE i \in 1 .. Reach(j)
      BY <3>2, <1>8, <2>5, Kept DEF IInv
    <3>3. CASE i \notin 1 .. Reach(j)
      <4>1. here \in 1 .. i
        BY <3>1, <3>3, <1>1, <2>5
      <4>2. others'[here] \in crashed'
        BY <1>3, <1>7, <1>12
      <4>3. QED BY <4>1, <4>2, <2>5 DEF Intact
    <3>4. QED BY <3>2, <3>3
  <2>6. \A q \in Job : q # j => thread'[q] = thread[q]
    BY <2>2 DEF Moves
  <2>7. Forwarded'
    BY <2>5, <2>6, <1>10 DEF Forwarded
  <2>8. QED BY <2>3, <2>4, <2>7 DEF IInv
<1>13. QED BY <1>11, <1>12 DEF Forwards

\* Packets added by one thread at most, to one backup
LEMMA LogsGrow ==
    ASSUME TypeOK, NEW j \in Job, NEW i \in DOMAIN others,
           log' = log \/ log' = [log EXCEPT ![others[i]] = Append(@, j)]
    PROVE  /\ log' \in [Backup -> Seq(Job)]
           /\ \A b \in Backup :
                 /\ Len(log[b]) <= Len(log'[b])
                 /\ \A m \in DOMAIN log[b] : m \in DOMAIN log'[b] /\ log'[b][m] = log[b][m]
<1>1. others[i] \in Backup /\ log \in [Backup -> Seq(Job)]
  BY ElementOfSeq, LenProperties DEF TypeOK
<1>2. Append(log[others[i]], j) \in Seq(Job)
  BY <1>1, AppendProperties
<1>3. log' \in [Backup -> Seq(Job)]
  BY <1>1, <1>2
<1>4. ASSUME NEW b \in Backup
      PROVE  /\ Len(log[b]) <= Len(log'[b])
             /\ \A m \in DOMAIN log[b] : m \in DOMAIN log'[b] /\ log'[b][m] = log[b][m]
  <2>1. log[b] \in Seq(Job)
    BY <1>1
  <2>2. log'[b] = log[b] \/ log'[b] = Append(log[b], j)
    BY <1>1
  <2>3. CASE log'[b] = log[b]
    BY <2>1, <2>3, LenProperties
  <2>4. CASE log'[b] = Append(log[b], j)
    BY <2>1, <2>4, Appended
  <2>5. QED BY <2>2, <2>3, <2>4
<1>5. QED BY <1>3, <1>4

\* A loop that has gone astray passes no place that counts, and takes nothing
\* back.
LEMMA ForwardsAstrayStep == ASSUME IInv, NEW j \in Job, ForwardsAstray(j) PROVE IInv'
<1>1. /\ thread[j].k \in Nat /\ thread[j].n \in Nat /\ thread[j].valid \in Nat
      /\ Len(others) \in Nat /\ thread[j].valid <= thread[j].n /\ thread[j].n <= Len(others)
      /\ thread[j].valid <= thread[j].k /\ thread[j].k < thread[j].n /\ thread[j].pc = "forward"
  BY ReachBound DEF IInv, ForwardsAstray
<1>2. /\ UNCHANGED <<others, up, backupVars, crashed, late>>
      /\ UNCHANGED <<sync, copy, masterFile, told, overlapped, overtaken>>
  BY DEF ForwardsAstray, syncVars
<1>3. PICK i \in DOMAIN others : log' = log \/ log' = [log EXCEPT ![others[i]] = Append(@, j)]
  <2>1. 1 \in DOMAIN others
    BY <1>1, LenProperties DEF IInv, TypeOK
  <2>2. QED BY <2>1 DEF ForwardsAstray
<1>4. /\ log' \in [Backup -> Seq(Job)]
      /\ \A b \in Backup :
            /\ Len(log[b]) <= Len(log'[b])
            /\ \A m \in DOMAIN log[b] : m \in DOMAIN log'[b] /\ log'[b][m] = log[b][m]
  BY <1>3, LogsGrow DEF IInv
<1>5. Keeps
  BY <1>1, <1>2, <1>4 DEF Keeps
<1>6. MasterTyped'
  BY <1>2 DEF IInv, TypeOK, MasterTyped
<1>7. PICK pc, k : /\ Moves(j, pc, k, thread[j].n, thread[j].valid)
                   /\ \/ pc = "forward" /\ k = thread[j].k + 1
                      \/ pc \in {"apply", "answer"}
  <2>1. CASE thread' = [thread EXCEPT ![j].k = @ + 1]
    <3>1. Moves(j, thread[j].pc, thread[j].k + 1, thread[j].n, thread[j].valid)
      BY <2>1, TurnMoves DEF IInv
    <3>2. QED BY <1>1, <3>1
  <2>2. CASE thread' = Advance(j)
    <3>1. Following(j) \in {"apply", "answer"}
      BY <1>1, StageOrder DEF Job
    <3>2. Moves(j, Following(j), 0, thread[j].n, thread[j].valid)
      BY <1>1, <2>2, AdvanceMoves DEF IInv
    <3>3. QED BY <3>1, <3>2
  <2>3. QED BY <2>1, <2>2 DEF ForwardsAstray
<1>8. TypeOK'
  BY <1>1, <1>2, <1>4, <1>6, <1>7, MovesTyped DEF IInv
<1>9. Fresh'
  BY <1>7 DEF IInv, Fresh, Moves
<1>10. ASSUME NEW q \in Job PROVE Reach(q)' \in Nat /\ Reach(q)' <= Reach(q)
  <2>1. CASE q = j
    BY <1>1, <1>7, <2>1 DEF Reach, Moves
  <2>2. CASE q # j
    <3>1. thread'[q] = thread[q]
      BY <1>7, <2>2 DEF Moves
    <3>2. Reach(q)' = Reach(q)
      BY <3>1 DEF Reach
    <3>3. QED BY <3>2, ReachBound DEF IInv
  <2>3. QED BY <2>1, <2>2
<1>11. Forwarded'
  BY <1>5, <1>10, NoFurther DEF IInv
<1>12. QED BY <1>8, <1>9, <1>11 DEF IInv

\* A thread that is through with its loop, or with a later stage, goes on to one
\* in which it writes nothing to the backups.
LEMMA AdvanceStep ==
    ASSUME IInv, NEW j \in Job, Reach(j) = thread[j].valid,
           thread[j].pc \in {"forward", "apply", "answer", "tell"},
           thread[j].pc \in {"apply", "tell"} => j \in Request,
           thread' = Advance(j) \/ \E ok \in BOOLEAN : thread' = [Advance(j) EXCEPT ![j].ok = ok],
           UNCHANGED <<others, log, up, backupVars, crashed, late>>,
           MasterTyped'
    PROVE  IInv'
<1>1. Moves(j, Following(j), 0, thread[j].n, thread[j].valid)
  BY AdvanceMoves DEF IInv
<1>2. Following(j) \in {"apply", "answer", "tell", "done"}
  BY StageOrder DEF Job
<1>3. thread[j].valid <= thread[j].n /\ thread[j].n <= Len(others)
  BY DEF IInv, TypeOK
<1>4. QED BY <1>1, <1>2, <1>3, ThreadStep

\* The loop has ended at n.
LEMMA ForwardsLastStep == ASSUME IInv, NEW j \in Job, ForwardsLast(j) PROVE IInv'
<1>1. Reach(j) = thread[j].valid
  BY ReachBound DEF ForwardsLast, Reach, IInv
<1>2. MasterTyped'
  BY DEF ForwardsLast, IInv, TypeOK, MasterTyped, syncVars
<1>3. QED BY <1>1, <1>2, AdvanceStep DEF ForwardsLast

\* What a request may leave in the directory
LEMMA EffectTyped == ASSUME NEW r \in Request PROVE Effect(r) \in Content
BY DEF Effect, Content

\* The request is carried out on the master.
LEMMA AppliesStep == ASSUME IInv, NEW r \in Request, Applies(r) PROVE IInv'
<1>1. Reach(r) = thread[r].valid /\ thread[r].pc = "apply"
  BY DEF Applies, Reach
<1>2. Succeeds(r) \in BOOLEAN
  BY DEF Succeeds
<1>3. MasterTyped'
  BY EffectTyped DEF Applies, IInv, TypeOK, MasterTyped, syncVars
<1>4. UNCHANGED <<others, log, up, backupVars, crashed, late>>
      /\ thread' = [Advance(r) EXCEPT ![r].ok = Succeeds(r)]
  BY DEF Applies
<1>5. r \in Job
  BY DEF Job
<1>6. QED BY <1>1, <1>2, <1>3, <1>4, <1>5, AdvanceStep

\* The client is answered.
LEMMA AnswersStep == ASSUME IInv, NEW j \in Job, Answers(j) PROVE IInv'
<1>1. Reach(j) = thread[j].valid /\ thread[j].pc = "answer"
  BY DEF Answers, Reach
<1>2. told' \in [Device -> Content \cup {Empty}]
  <2>1. told \in [Device -> Content \cup {Empty}] /\ None \in Content
    BY DEF IInv, TypeOK, Content
  <2>2. QED BY <2>1 DEF Answers
<1>3. MasterTyped'
  BY <1>2 DEF Answers, IInv, TypeOK, MasterTyped, syncVars
<1>4. UNCHANGED <<others, log, up, backupVars, crashed, late>> /\ thread' = Advance(j)
  BY DEF Answers
<1>5. QED BY <1>1, <1>2, <1>3, <1>4, AdvanceStep

\* A turn of broadcast_to_user counts k, which no longer says how far the loop
\* over the backups came.
LEMMA TellsStep == ASSUME IInv, NEW r \in Request, Tells(r) PROVE IInv'
<1>1. r \in Job /\ thread[r].pc = "tell" /\ Reach(r) = thread[r].valid
  BY DEF Tells, Reach, Job
<1>2. Moves(r, "tell", thread[r].k + 1, thread[r].n, thread[r].valid)
  BY <1>1, TurnMoves DEF Tells, IInv
<1>3. told' \in [Device -> Content \cup {Empty}] /\ overtaken' \subseteq Device
  <2>1. told \in [Device -> Content \cup {Empty}] /\ Effect(r) \in Content
        /\ overtaken \subseteq Device
    BY EffectTyped DEF IInv, TypeOK
  <2>2. thread[r].k + 1 \in Device
    BY <1>1, ReachBound, ReplicationAssumption DEF Tells, Device, IInv
  <2>3. QED BY <2>1, <2>2 DEF Tells
<1>4. MasterTyped'
  BY <1>3 DEF Tells, IInv, TypeOK, MasterTyped, syncVars
<1>5. UNCHANGED <<others, log, up, backupVars, crashed, late>>
  BY DEF Tells
<1>6. thread[r].valid <= thread[r].n /\ thread[r].n <= Len(others)
  BY <1>1 DEF IInv, TypeOK
<1>7. QED BY <1>1, <1>2, <1>3, <1>4, <1>5, <1>6, ThreadStep

\* All devices were told.
LEMMA TellsLastStep == ASSUME IInv, NEW r \in Request, TellsLast(r) PROVE IInv'
<1>1. r \in Job /\ thread[r].pc = "tell" /\ Reach(r) = thread[r].valid
  BY DEF TellsLast, Reach, Job
<1>2. MasterTyped'
  BY DEF TellsLast, IInv, TypeOK, MasterTyped, syncVars
<1>3. QED BY <1>1, <1>2, AdvanceStep DEF TellsLast

\* A step that moves no thread.
LEMMA OtherStep ==
    ASSUME IInv, TypeOK', Keeps, UNCHANGED thread
    PROVE  IInv'
<1>1. Fresh'
  BY DEF IInv, Fresh
<1>2. ASSUME NEW j \in Job PROVE Reach(j)' \in Nat /\ Reach(j)' <= Reach(j)
  <2>1. Reach(j)' = Reach(j)
    BY DEF Reach
  <2>2. QED BY <2>1, ReachBound DEF IInv
<1>3. Forwarded'
  BY <1>2, NoFurther DEF IInv
<1>4. QED BY <1>1, <1>3 DEF IInv

\* A device is sent the directory.
LEMMA SyncsStep ==
    ASSUME IInv, NEW d \in Device, SyncLists(d) \/ SyncReads(d) \/ SyncSends(d)
    PROVE  IInv'
<1>1. /\ UNCHANGED <<others, log, thread, masterFile, overlapped, overtaken, up, crashed, late>>
      /\ UNCHANGED <<done, dir, replica>>
  BY DEF SyncLists, SyncReads, SyncSends, backupVars
<1>2. MasterTyped'
  <2>1. /\ sync \in [Device -> {"no", "listed", "read", "done"}]
        /\ copy \in [Device -> Upload \cup {Empty}] /\ copy[d] \in Upload \cup {Empty}
        /\ masterFile \in Content /\ told \in [Device -> Content \cup {Empty}]
        /\ overlapped \in BOOLEAN /\ overtaken \subseteq Device
    BY DEF IInv, TypeOK
  <2>2. CASE SyncLists(d)
    BY <1>1, <2>1, <2>2 DEF SyncLists, MasterTyped
  <2>3. CASE SyncReads(d)
    BY <1>1, <2>1, <2>3 DEF SyncReads, MasterTyped, Content
  <2>4. CASE SyncSends(d)
    BY <1>1, <2>1, <2>4 DEF SyncSends, MasterTyped, Content
  <2>5. QED BY <2>2, <2>3, <2>4
<1>3. TypeOK'
  BY <1>1, <1>2 DEF IInv, TypeOK, MasterTyped
<1>4. Keeps
  BY <1>1, KeepsUnchanged DEF IInv
<1>5. QED BY <1>1, <1>3, <1>4, OtherStep

\* The master stops where it is.
LEMMA MasterStopsStep == ASSUME IInv, MasterStops PROVE IInv'
<1>1. TypeOK'
  BY DEF MasterStops, IInv, TypeOK, masterVars, syncVars, backupVars
<1>2. Keeps /\ UNCHANGED thread
  BY KeepsUnchanged DEF MasterStops, IInv, masterVars
<1>3. QED BY <1>1, <1>2, OtherStep

\* What a push_back leaves of the iterators of the loops under way
LEMMA JoinMoves ==
    ASSUME TypeOK, NEW b \in Backup, BackupJoins(b)
    PROVE  /\ thread' \in [Job -> Threads]
           /\ \A j \in Job :
                 /\ thread'[j].pc = thread[j].pc /\ thread'[j].k = thread[j].k
                 /\ thread'[j].n = thread[j].n /\ thread'[j].ok = thread[j].ok
                 /\ thread'[j].valid <= thread[j].valid /\ Reach(j)' = Reach(j)
<1>1. thread \in [Job -> Threads]
  BY ThreadsTyped
<1>2. PICK cut \in SUBSET Job :
         /\ thread' = [j \in Job |-> IF j \in cut THEN [thread[j] EXCEPT !.valid = thread[j].k]
                                    ELSE thread[j]]
         /\ \A j \in cut : thread[j].pc = "forward" /\ thread[j].k < thread[j].valid
  <2> DEFINE hit == {j \in Job : Full /\ thread[j].pc = "forward" /\ thread[j].k < thread[j].valid}
  <2>1. thread' = [j \in Job |-> IF j \in hit THEN [thread[j] EXCEPT !.valid = thread[j].k]
                                ELSE thread[j]]
    BY DEF BackupJoins
  <2>2. hit \in SUBSET Job
    OBVIOUS
  <2>3. \A j \in hit : thread[j].pc = "forward" /\ thread[j].k < thread[j].valid
    OBVIOUS
  <2> HIDE DEF hit
  <2>4. QED BY <2>1, <2>2, <2>3
<1>3. ASSUME NEW j \in Job
      PROVE  /\ thread'[j] \in Threads
             /\ thread'[j].pc = thread[j].pc /\ thread'[j].k = thread[j].k
             /\ thread'[j].n = thread[j].n /\ thread'[j].ok = thread[j].ok
             /\ thread'[j].valid <= thread[j].valid /\ Reach(j)' = Reach(j)
  <2>1. thread[j] \in Threads
    BY <1>1
  <2>2. CASE j \notin cut
    <3>1. thread'[j] = thread[j]
      BY <1>2, <2>2
    <3>2. QED BY <2>1, <3>1 DEF Threads, Reach
  <2>3. CASE j \in cut
    <3>1. thread'[j] = [thread[j] EXCEPT !.valid = thread[j].k]
      BY <1>2, <2>3
    <3>2. /\ thread'[j] \in Threads /\ thread'[j].valid = thread[j].k
          /\ thread'[j].pc = thread[j].pc /\ thread'[j].k = thread[j].k
          /\ thread'[j].n = thread[j].n /\ thread'[j].ok = thread[j].ok
      BY <2>1, <3>1 DEF Threads
    <3>3. thread[j].pc = "forward" /\ thread[j].k < thread[j].valid
          /\ thread[j].k \in Nat /\ thread[j].valid \in Nat
      BY <1>2, <2>1, <2>3 DEF Threads
    <3>4. QED BY <3>2, <3>3 DEF Reach
  <2>4. QED BY <2>2, <2>3
<1>4. thread' \in [Job -> Threads]
  <2>1. thread' = [j \in Job |-> thread'[j]]
    BY <1>2
  <2>2. QED BY <1>3, <2>1
<1>5. QED BY <1>3, <1>4

\* A new backup goes behind all places that loops have passed.
LEMMA BackupJoinsStep == ASSUME IInv, NEW b \in Backup, BackupJoins(b) PROVE IInv'
<1>1. others \in Seq(Backup) /\ others' = Append(others, b) /\ Len(others) \in Nat
  BY LenProperties DEF BackupJoins, IInv, TypeOK
<1>2. others' \in Seq(Backup) /\ Len(others') = Len(others) + 1
      /\ \A h \in 1 .. Len(others) : others'[h] = others[h]
  BY <1>1, AppendProperties
<1>3. UNCHANGED <<log, sync, copy, masterFile, told, overlapped, overtaken>>
      /\ UNCHANGED <<up, done, dir, replica, crashed>>
  BY DEF BackupJoins, syncVars, backupVars
<1>4. late' \subseteq LateBackup
  BY DEF BackupJoins, IInv, TypeOK
<1>5. /\ thread' \in [Job -> Threads]
      /\ \A j \in Job :
            /\ thread'[j].pc = thread[j].pc /\ thread'[j].k = thread[j].k
            /\ thread'[j].n = thread[j].n /\ thread'[j].ok = thread[j].ok
            /\ thread'[j].valid <= thread[j].valid /\ Reach(j)' = Reach(j)
  BY JoinMoves DEF IInv
<1>6. ASSUME NEW j \in Job
      PROVE  /\ thread'[j].valid <= thread'[j].n /\ thread'[j].n <= Len(others')
             /\ (thread'[j].pc = "forward" => thread'[j].k <= thread'[j].n)
  <2>1. /\ thread[j].n \in Nat /\ thread[j].valid \in Nat /\ thread'[j].valid \in Nat
        /\ thread[j].valid <= thread[j].n /\ thread[j].n <= Len(others)
        /\ (thread[j].pc = "forward" => thread[j].k <= thread[j].n)
    BY <1>5 DEF IInv, TypeOK, Threads
  <2>2. QED BY <2>1, <1>1, <1>2, <1>5
<1>7. TypeOK'
  BY <1>2, <1>3, <1>4, <1>5, <1>6 DEF IInv, TypeOK, Threads
<1>8. Keeps
  BY <1>1, <1>2, <1>3 DEF Keeps
<1>9. Fresh'
  BY <1>5 DEF IInv, Fresh
<1>10. ASSUME NEW j \in Job PROVE Reach(j)' \in Nat /\ Reach(j)' <= Reach(j)
  BY <1>5, ReachBound DEF IInv
<1>11. Forwarded'
  BY <1>8, <1>10, NoFurther DEF IInv
<1>12. QED BY <1>7, <1>9, <1>11 DEF IInv

\* A backup handles a packet that was written to it.
LEMMA BackupAppliesStep == ASSUME IInv, NEW b \in Backup, BackupApplies(b) PROVE IInv'
<1>1. UNCHANGED <<others, log, thread, sync, copy, masterFile, told, overlapped, overtaken>>
      /\ UNCHANGED <<up, crashed, late>>
  BY DEF BackupApplies, masterVars, syncVars
<1>2. done' \in [Backup -> Nat] /\ \A c \in Backup : done'[c] <= Len(log'[c])
  <2>1. done \in [Backup -> Nat] /\ done' = [done EXCEPT ![b] = @ + 1]
        /\ done[b] < Len(log[b]) /\ \A c \in Backup : done[c] <= Len(log[c])
    BY DEF BackupApplies, IInv, TypeOK
  <2>2. Len(log[b]) \in Nat
    BY LenProperties DEF IInv, TypeOK
  <2>3. QED BY <2>1, <2>2, <1>1
<1>3. LET p == log[b][done[b] + 1]
      IN  /\ p \in Job /\ dir' = IF p \in Device THEN [dir EXCEPT ![b] = TRUE] ELSE dir
          /\ replica' = Replicated(b, p)
  <2>1. log[b] \in Seq(Job) /\ done[b] \in Nat /\ done[b] < Len(log[b]) /\ Len(log[b]) \in Nat
    BY LenProperties DEF BackupApplies, IInv, TypeOK
  <2>2. done[b] + 1 \in 1 .. Len(log[b])
    BY <2>1
  <2>3. log[b][done[b] + 1] \in Job
    BY <2>1, <2>2, ElementOfSeq
  <2>4. QED BY <2>3 DEF BackupApplies
<1>4. dir' \in [Backup -> BOOLEAN]
  BY <1>3 DEF IInv, TypeOK
<1>5. replica' \in [Backup -> Content]
  <2>1. ASSUME NEW p \in Job PROVE Replicated(b, p) \in [Backup -> Content]
    <3>1. replica \in [Backup -> Content]
      BY DEF IInv, TypeOK
    <3>2. p \in Delete \/ p \in Upload => Effect(p) \in Content
      BY DEF Effect, Content
    <3>3. QED BY <3>1, <3>2 DEF Replicated
  <2>2. QED BY <1>3, <2>1
<1>6. TypeOK'
  BY <1>1, <1>2, <1>4, <1>5 DEF IInv, TypeOK
<1>7. Keeps
  BY <1>1, KeepsUnchanged DEF IInv
<1>8. QED BY <1>1, <1>6, <1>7, OtherStep

\* A crash only weakens what is claimed.
LEMMA BackupCrashesStep == ASSUME IInv, NEW b \in Backup, BackupCrashes(b) PROVE IInv'
<1>1. TypeOK'
  BY DEF BackupCrashes, IInv, TypeOK, masterVars, syncVars, backupVars
<1>2. Keeps /\ UNCHANGED thread
  BY LenProperties DEF BackupCrashes, IInv, TypeOK, masterVars, Keeps
<1>3. QED BY <1>1, <1>2, OtherStep

\* Nothing happens.
LEMMA StutteringStep == ASSUME IInv, UNCHANGED vars PROVE IInv'
<1>1. TypeOK'
  BY DEF vars, IInv, TypeOK, masterVars, syncVars, backupVars
<1>2. Keeps /\ UNCHANGED thread
  BY KeepsUnchanged DEF vars, IInv, masterVars
<1>3. QED BY <1>1, <1>2, OtherStep

-----------------------------------------------------------------------------
\* The invariant holds at the start: no thread has come anywhere.
LEMMA InitInv == Init => IInv
<1> SUFFICES ASSUME Init PROVE IInv
  OBVIOUS
<1>1. TypeOK
  <2>1. others \in Seq(Backup) /\ Len(others) = 0
    BY EmptySeq DEF Init
  <2>2. log \in [Backup -> Seq(Job)] /\ \A b \in Backup : Len(log[b]) = 0 /\ done[b] = 0
    BY EmptySeq DEF Init
  <2>3. thread \in [Job -> [pc : {"none", "forward", "apply", "answer", "tell", "done"},
                            k : Nat, n : Nat, valid : Nat, ok : BOOLEAN]]
        /\ \A j \in Job : thread[j].n = 0 /\ thread[j].valid = 0 /\ thread[j].pc = "none"
    BY DEF Init
  <2>4. MasterTyped /\ up \in BOOLEAN
    BY DEF Init, Content, MasterTyped
  <2>5. done \in [Backup -> Nat] /\ dir \in [Backup -> BOOLEAN]
        /\ replica \in [Backup -> Content]
        /\ crashed \subseteq Backup /\ late \subseteq LateBackup
    BY DEF Init, Content
  <2>6. QED BY <2>1, <2>2, <2>3, <2>4, <2>5 DEF TypeOK, MasterTyped
<1>2. Fresh /\ Forwarded
  BY DEF Init, Fresh, Forwarded, Reach
<1>3. QED BY <1>1, <1>2 DEF IInv

\* Every action keeps the invariant.
LEMMA NextInv == IInv /\ [Next]_vars => IInv'
<1> SUFFICES ASSUME IInv, [Next]_vars PROVE IInv'
  OBVIOUS
<1>1. ASSUME NEW j \in Job, Handles(j) PROVE IInv'
  BY <1>1, ReceivesStep, ForwardsStep, ForwardsAstrayStep, ForwardsLastStep, AnswersStep DEF Handles
<1>2. ASSUME NEW r \in Request, HandlesRequest(r) PROVE IInv'
  BY <1>2, AppliesStep, TellsStep, TellsLastStep DEF HandlesRequest
<1>3. ASSUME NEW d \in Device, SyncLists(d) \/ SyncReads(d) \/ SyncSends(d) PROVE IInv'
  BY <1>3, SyncsStep
<1>4. CASE MasterStops
  BY <1>4, MasterStopsStep
<1>5. ASSUME NEW b \in Backup, BackupJoins(b) \/ BackupApplies(b) \/ BackupCrashes(b)
      PROVE  IInv'
  BY <1>5, BackupJoinsStep, BackupAppliesStep, BackupCrashesStep
<1>6. CASE UNCHANGED vars
  BY <1>6, StutteringStep
<1>7. QED BY <1>1, <1>2, <1>3, <1>4, <1>5, <1>6 DEF Next

\* The inductive invariant holds throughout: whatever requests and logins are
\* handled at once, each broadcast_others loop has written to the backups it has
\* passed, up to the first that has crashed and to where the loop was when a
\* push_back took its iterators away.
THEOREM Invariance == Spec => []IInv
BY InitInv, NextInv, PTL DEF Spec

\* Every variable of the replication, the loop counters of broadcast_others and
\* the read positions of the backups among them, keeps its type and its bound.
THEOREM TypeCorrect == Spec => []TypeOK
<1>1. IInv => TypeOK
  BY DEF IInv
<1>2. QED BY <1>1, Invariance, PTL

\* A request that was acknowledged to its client as successful has been written
\* to every backup that had joined when it came in, up to the first that has
\* crashed and to where the loop was when another joined and the vector moved:
\* handle_connection calls broadcast_others before it acts and answers.
THEOREM AckedWasForwarded == Spec => []AckedIsForwarded
<1>1. IInv => AckedIsForwarded
  <2> SUFFICES ASSUME IInv, NEW r \in Request, thread[r].pc \in {"tell", "done"},
                      NEW i \in 1 .. thread[r].valid, Intact(i)
               PROVE  \E m \in DOMAIN log[others[i]] : log[others[i]][m] = r
    BY DEF AckedIsForwarded
  <2>1. r \in Job /\ Reach(r) = thread[r].valid
    BY DEF Reach, Job
  <2>2. QED BY <2>1 DEF IInv, Forwarded, Written
<1>2. QED BY <1>1, Invariance, PTL

-----------------------------------------------------------------------------
(* Agreement of master, backups and devices.                               *)
(*                                                                         *)
(* The argument: the last request in what a backup has still to handle (or  *)
(* its replica, if there is none) is the request that the master's loop has *)
(* passed it with, and the master's file if there is no such request.  A    *)
(* backup that joined before the first login was written a LOGIN_REQ first, *)
(* so that it has the directory when an upload comes.  All this is claimed  *)
(* of places that no loop came to through a bad iterator; the writes of a    *)
(* loop gone astray add a packet to a backup it has passed already, which    *)
(* would have been the last one there anyway.  What was read for a device,  *)
(* or sent to it, is the master's file, or it is still to be told of it.     *)

\* Place i was taken before the first login
Early(i) == others[i] \notin late

Started(j) == thread[j].pc # "none"

\* The places that the claims are about
Counts(i) == Intact(i) /\ Early(i) /\ Sure(i)

\* The order in which things start
Ordered ==
    /\ \A d \in Device : sync[d] # "no" => thread[d].pc = "done"
    /\ \A r \in Request : Started(r) => sync[From[r]] = "done"
    /\ \A h, i \in DOMAIN others : others[h] = others[i] => h = i
    /\ \A j \in Job : Started(j) => \A i \in DOMAIN others : Early(i) => i <= thread[j].n

\* Before the first login, nothing has been written anywhere
Quiet ==
    LoggedIn \/ /\ masterFile = None
                /\ \A b \in Backup : log[b] = << >> /\ replica[b] = None

\* A device is told nothing before its login
Silent == \A d \in Device : ~Started(d) => told[d] = None

Alone ==
    ~overlapped => \A r, s \in Request : InFlight(r) /\ InFlight(s) => r = s

\* A backup's first packet is a login, which makes it the directory
Led ==
    \A i \in DOMAIN others : Counts(i) =>
        /\ log[others[i]] # << >> => log[others[i]][1] \in Device
        /\ done[others[i]] > 0 => dir[others[i]]

OnlyLoginsAfter(b, m) == \A h \in DOMAIN log[b] : h > m => log[b][h] \in Device

\* The file that backup b will have when it has handled what was written to it
WillHold(b, x) ==
    \/ \E m \in DOMAIN log[b] :
          /\ m > done[b] /\ log[b][m] \in Request /\ Effect(log[b][m]) = x
          /\ OnlyLoginsAfter(b, m)
    \/ replica[b] = x /\ OnlyLoginsAfter(b, done[b])

\* The loop of request r has passed place i, and the master has yet to carry it out
Passed(r, i) == thread[r].pc = "apply" \/ (thread[r].pc = "forward" /\ i <= thread[r].k)

Current ==
    OneByOne => \A i \in DOMAIN others : Counts(i) =>
        /\ \A r \in Request : Passed(r, i) => WillHold(others[i], Effect(r))
        /\ (\A r \in Request : ~Passed(r, i)) => WillHold(others[i], masterFile)

\* The request r was carried out, and its devices have to be told
Effective(r) == r \in Upload \/ thread[r].ok

Applied ==
    OneByOne => \A r \in Request :
        thread[r].pc \in {"answer", "tell"} /\ Effective(r) => masterFile = Effect(r)

\* Device d is still to be told of request r
Owes(r, d) ==
    /\ Effective(r)
    /\ \/ thread[r].pc = "answer"
       \/ thread[r].pc = "tell" /\ thread[r].k < d /\ (r \in Delete => d # From[r])

\* What has been listed or read for device d, or sent to it, is what there is
UpToDate(d) ==
    \/ sync[d] = "no" /\ (masterFile = None => told[d] = None)
    \/ sync[d] = "listed" /\ masterFile # None
    \/ sync[d] = "read" /\ copy[d] = masterFile
    \/ sync[d] = "done" /\ told[d] = masterFile

Told ==
    OneByOne => \A d \in Device \ overtaken : UpToDate(d) \/ \E r \in Request : Owes(r, d)

\* The inductive invariant of agreement
AInv == Ordered /\ Quiet /\ Silent /\ Alone /\ Led /\ Current /\ Applied /\ Told

\* What the lemmas below need of the types and the assumptions.
LEMMA Basics ==
    ASSUME TypeOK
    PROVE  /\ thread \in [Job -> Threads] /\ Request \subseteq Job /\ Device \subseteq Job
           /\ Device \cap Request = {} /\ Device \subseteq Nat /\ \A d \in Device : d >= 1
           /\ \A r \in Request : From[r] \in Device
           /\ \A j \in Job : /\ thread[j].n \in Nat /\ thread[j].valid \in Nat
                              /\ thread[j].valid <= thread[j].n
           /\ Len(others) \in Nat /\ DOMAIN others = 1 .. Len(others)
           /\ \A i \in DOMAIN others : others[i] \in Backup
           /\ \A b \in Backup : /\ log[b] \in Seq(Job) /\ done[b] \in Nat
                                /\ Len(log[b]) \in Nat /\ DOMAIN log[b] = 1 .. Len(log[b])
                                /\ \A m \in DOMAIN log[b] : log[b][m] \in Job
<1>1. /\ thread \in [Job -> Threads] /\ Request \subseteq Job /\ Device \subseteq Job
      /\ Device \cap Request = {} /\ \A r \in Request : From[r] \in Device
  BY ThreadsTyped, ReplicationAssumption DEF Job
<1>2. Device \subseteq Nat /\ \A d \in Device : d >= 1
  BY ReplicationAssumption DEF Device
<1>3. /\ Len(others) \in Nat /\ DOMAIN others = 1 .. Len(others)
      /\ \A i \in DOMAIN others : others[i] \in Backup
  BY LenProperties, ElementOfSeq DEF TypeOK
<1>4. ASSUME NEW b \in Backup
      PROVE  /\ log[b] \in Seq(Job) /\ done[b] \in Nat
             /\ Len(log[b]) \in Nat /\ DOMAIN log[b] = 1 .. Len(log[b])
             /\ \A m \in DOMAIN log[b] : log[b][m] \in Job
  <2>1. log[b] \in Seq(Job) /\ done[b] \in Nat
    BY DEF TypeOK
  <2>2. QED BY <2>1, LenProperties, ElementOfSeq
<1>5. QED BY <1>1, <1>2, <1>3, <1>4, ReachBound

\* No place is counted again: none becomes early, none recovers, and no iterator
\* becomes good.
LEMMA CountedBefore ==
    ASSUME TypeOK, late \subseteq late', crashed \subseteq crashed',
           \A q \in Job : thread[q].n = 0 \/ (thread'[q].n = thread[q].n
                                              /\ thread'[q].valid <= thread[q].valid),
           thread' \in [Job -> Threads],
           NEW i \in DOMAIN others, \A h \in 1 .. i : others'[h] = others[h], Counts(i)'
    PROVE  Counts(i)
<1>1. i \in Nat /\ i >= 1
  BY Basics
<1>2. Intact(i) /\ Early(i)
  BY <1>1 DEF Counts, Intact, Early
<1>3. ASSUME NEW q \in Job, i <= thread[q].n PROVE i <= thread[q].valid
  <2>1. /\ thread[q].n \in Nat /\ thread[q].valid \in Nat
        /\ thread'[q].n \in Nat /\ thread'[q].valid \in Nat
    BY Basics DEF Threads
  <2>2. thread'[q].n = thread[q].n /\ thread'[q].valid <= thread[q].valid
    BY <1>1, <1>3, <2>1
  <2>3. i <= thread'[q].valid
    BY <1>3, <2>2 DEF Counts, Sure
  <2>4. QED BY <1>1, <2>1, <2>2, <2>3
<1>4. QED BY <1>2, <1>3 DEF Counts, Sure

\* A thread that moves in its loop, or goes on, changes no place that counts.
LEMMA CountedSame ==
    ASSUME TypeOK, UNCHANGED <<others, late, crashed>>,
           \A q \in Job : thread'[q].n = thread[q].n /\ thread'[q].valid = thread[q].valid
    PROVE  \A i \in DOMAIN others : Counts(i)' <=> Counts(i)
BY DEF Counts, Intact, Early, Sure

\* A refused upload or an overlap is never undone.
LEMMA OneByOneBefore ==
    ASSUME overlapped => overlapped', \A j \in Job : Started(j) => Started(j)', OneByOne'
    PROVE  OneByOne
<1>1. Refused \subseteq Job
  BY ReplicationAssumption DEF Job, Request
<1>2. QED BY <1>1 DEF OneByOne, Started

\* Nobody sends anything before the first login.
LEMMA StartedAfterLogin ==
    ASSUME TypeOK, Ordered, NEW j \in Job, Started(j)
    PROVE  LoggedIn
<1>1. CASE j \in Device
  BY <1>1 DEF LoggedIn, Started
<1>2. CASE j \in Request
  <2>1. From[j] \in Device /\ sync[From[j]] = "done"
    BY <1>2, Basics DEF Ordered
  <2>2. thread[From[j]].pc = "done"
    BY <2>1 DEF Ordered
  <2>3. QED BY <2>1, <2>2 DEF LoggedIn
<1>3. QED BY <1>1, <1>2 DEF Job

LEMMA OrderedStays ==
    ASSUME TypeOK, Ordered, UNCHANGED <<others, sync>>, late \subseteq late',
           \A j \in Job : Started(j)' => Started(j) /\ thread'[j].n = thread[j].n,
           \A d \in Device : thread[d].pc = "done" => thread'[d].pc = "done"
    PROVE  Ordered'
<1>1. Request \subseteq Job /\ Device \subseteq Job
  BY Basics
<1>2. \A d \in Device : sync'[d] # "no" => thread'[d].pc = "done"
  BY DEF Ordered
<1>3. \A r \in Request : Started(r)' => sync'[From[r]] = "done"
  BY <1>1 DEF Ordered
<1>4. ASSUME NEW q \in Job, Started(q)', NEW i \in DOMAIN others', Early(i)'
      PROVE  i <= thread'[q].n
  BY <1>4 DEF Ordered, Early
<1>5. \A h, i \in DOMAIN others' : others'[h] = others'[i] => h = i
  BY DEF Ordered
<1>6. QED BY <1>2, <1>3, <1>4, <1>5 DEF Ordered

LEMMA QuietStays ==
    ASSUME Quiet, LoggedIn => LoggedIn', UNCHANGED <<masterFile, log, replica>>
    PROVE  Quiet'
BY DEF Quiet

LEMMA SilentStays ==
    ASSUME Silent, \A d \in Device : ~Started(d)' => ~Started(d) /\ told'[d] = told[d]
    PROVE  Silent'
BY DEF Silent

LEMMA AloneStays ==
    ASSUME Alone, overlapped => overlapped', \A r \in Request : InFlight(r)' => InFlight(r)
    PROVE  Alone'
BY DEF Alone

LEMMA LedStays ==
    ASSUME Led, UNCHANGED <<others, log, done, dir>>,
           \A i \in DOMAIN others : Counts(i)' => Counts(i)
    PROVE  Led'
BY DEF Led

\* Nothing is written, handled or carried out, and no loop passes a backup that
\* counts.
LEMMA CurrentStays ==
    ASSUME Current, OneByOne' => OneByOne, UNCHANGED <<others, log, done, replica, masterFile>>,
           \A i \in DOMAIN others : Counts(i)' => Counts(i),
           \A r \in Request, i \in DOMAIN others :
              Counts(i) => (Passed(r, i)' <=> Passed(r, i))
    PROVE  Current'
<1> SUFFICES ASSUME OneByOne', NEW i \in DOMAIN others, Counts(i)'
             PROVE  /\ \A r \in Request : Passed(r, i)' => WillHold(others[i], Effect(r))'
                    /\ (\A r \in Request : ~Passed(r, i)') => WillHold(others[i], masterFile)'
  BY DEF Current
<1>1. Counts(i) /\ OneByOne
  OBVIOUS
<1>2. \A x : WillHold(others[i], x)' <=> WillHold(others[i], x)
  BY DEF WillHold, OnlyLoginsAfter
<1>3. QED BY <1>1, <1>2 DEF Current

LEMMA AppliedStays ==
    ASSUME Applied, OneByOne' => OneByOne, masterFile' = masterFile,
           \A r \in Request :
              thread'[r].pc \in {"answer", "tell"} =>
                 thread[r].pc \in {"answer", "tell"} /\ thread'[r].ok = thread[r].ok
    PROVE  Applied'
BY DEF Applied, Effective

LEMMA ToldStays ==
    ASSUME Told, OneByOne' => OneByOne, UNCHANGED <<masterFile, sync, copy, told, overtaken>>,
           \A r \in Request, d \in Device : Owes(r, d) => Owes(r, d)'
    PROVE  Told'
BY DEF Told, UpToDate

\* A thread goes on, and writes to nobody but devices.
LEMMA StageAgrees ==
    ASSUME IInv, AInv, NEW j \in Job, NEW pc, NEW k, Moves(j, pc, k, thread[j].n, thread[j].valid),
           thread'[j].ok = thread[j].ok, InFlight(j), pc # "none",
           UNCHANGED <<others, log, sync, masterFile, overlapped, done, dir, replica,
                       crashed, late>>,
           \A d \in Device : ~Started(d) => told'[d] = told[d],
           \A i \in DOMAIN others : j \in Request /\ Counts(i) =>
              (Passed(j, i)' <=> Passed(j, i)),
           j \in Request /\ pc \in {"answer", "tell"} => thread[j].pc \in {"answer", "tell"},
           Told'
    PROVE  AInv'
<1>1. /\ \A q \in Job : q # j => thread'[q] = thread[q]
      /\ thread'[j].pc = pc /\ thread'[j].k = k /\ thread'[j].n = thread[j].n
      /\ thread'[j].valid = thread[j].valid
  BY DEF Moves
<1>2. TypeOK /\ Request \subseteq Job /\ Device \subseteq Job
  BY Basics DEF IInv
<1>3. \A q \in Job : Started(q)' <=> Started(q)
  BY <1>1 DEF Started, InFlight
<1>4. OneByOne' => OneByOne
  BY <1>3, OneByOneBefore
<1>5. Ordered'
  <2>1. \A d \in Device : thread[d].pc = "done" => thread'[d].pc = "done"
    BY <1>1, <1>2 DEF InFlight
  <2>2. \A q \in Job : Started(q)' => Started(q) /\ thread'[q].n = thread[q].n
    BY <1>1, <1>3
  <2>3. QED BY <1>2, <2>1, <2>2, OrderedStays DEF AInv
<1>6. Quiet'
  <2>1. LoggedIn => LoggedIn'
    BY <1>2, <1>3 DEF LoggedIn, Started
  <2>2. QED BY <2>1, QuietStays DEF AInv
<1>7. Alone'
  <2>1. \A r \in Request : InFlight(r)' => InFlight(r)
    BY <1>1, <1>2 DEF InFlight
  <2>2. QED BY <2>1, AloneStays DEF AInv
<1>8. Silent'
  BY <1>2, <1>3, SilentStays DEF AInv
<1>9. \A i \in DOMAIN others : Counts(i)' <=> Counts(i)
  <2>1. \A q \in Job : thread'[q].n = thread[q].n /\ thread'[q].valid = thread[q].valid
    BY <1>1
  <2>2. QED BY <1>2, <2>1, CountedSame
<1>10. Led'
  BY <1>9, LedStays DEF AInv
<1>11. Current'
  <2>1. ASSUME NEW r \in Request, NEW i \in DOMAIN others, Counts(i)
        PROVE  Passed(r, i)' <=> Passed(r, i)
    <3>1. CASE r = j
      BY <2>1, <3>1
    <3>2. CASE r # j
      BY <1>1, <1>2, <3>2 DEF Passed
    <3>3. QED BY <3>1, <3>2
  <2>2. QED BY <1>4, <1>9, <2>1, CurrentStays DEF AInv
<1>12. Applied'
  <2>1. ASSUME NEW r \in Request, thread'[r].pc \in {"answer", "tell"}
        PROVE  thread[r].pc \in {"answer", "tell"} /\ thread'[r].ok = thread[r].ok
    BY <1>1, <1>2, <2>1
  <2>2. QED BY <1>4, <2>1, AppliedStays DEF AInv
<1>13. QED BY <1>5, <1>6, <1>7, <1>10, <1>11, <1>12, <1>8 DEF AInv

LEMMA AdvanceKeepsOk ==
    ASSUME TypeOK, NEW j \in Job, thread' = Advance(j)
    PROVE  thread'[j].ok = thread[j].ok
<1>1. thread \in [Job -> Threads]
  BY ThreadsTyped
<1>2. thread' = [thread EXCEPT ![j] = [thread[j] EXCEPT !.pc = Following(j), !.k = 0]]
  BY <1>1 DEF Advance
<1>3. QED BY <1>1, <1>2 DEF Threads

LEMMA TurnKeepsOk ==
    ASSUME TypeOK, NEW j \in Job, NEW k, thread' = [thread EXCEPT ![j].k = k]
    PROVE  thread'[j].ok = thread[j].ok
<1>1. thread \in [Job -> Threads]
  BY ThreadsTyped
<1>2. thread' = [thread EXCEPT ![j] = [thread[j] EXCEPT !.k = k]]
  BY <1>1
<1>3. QED BY <1>1, <1>2 DEF Threads

\* A loop over the backups ends, at its end, because the one it has come to has
\* crashed, or astray: it has passed every place that counts.
LEMMA LoopEndAgrees ==
    ASSUME IInv, AInv, NEW j \in Job, thread[j].pc = "forward", thread' = Advance(j),
           \/ thread[j].k = thread[j].n
           \/ Other(j) \in crashed
           \/ thread[j].valid <= thread[j].k,
           UNCHANGED <<others, log, sync, copy, masterFile, told, overlapped, overtaken, done, dir,
                       replica, crashed, late>>
    PROVE  AInv'
<1>1. /\ Following(j) \in {"apply", "answer"} /\ (j \in Request => Following(j) = "apply")
      /\ (j \in Device => Following(j) = "answer")
  BY StageOrder DEF Job
<1>2. Moves(j, Following(j), 0, thread[j].n, thread[j].valid) /\ thread'[j].ok = thread[j].ok
  BY AdvanceMoves, AdvanceKeepsOk DEF IInv
<1>3. InFlight(j) /\ Started(j) /\ TypeOK
  BY DEF InFlight, Started, IInv
<1>4. ASSUME NEW i \in DOMAIN others, j \in Request, Counts(i)
      PROVE  Passed(j, i)' <=> Passed(j, i)
  <2>1. /\ i \in Nat /\ thread[j].k \in Nat /\ thread[j].n \in Nat /\ thread[j].valid \in Nat
        /\ i <= thread[j].n /\ i <= thread[j].valid
    <3>1. i <= thread[j].n
      BY <1>3, <1>4 DEF AInv, Ordered, Counts
    <3>2. i <= thread[j].valid
      BY <1>4, <3>1 DEF Counts, Sure
    <3>3. QED BY <1>3, <3>1, <3>2, Basics, ReachBound
  <2>2. i <= thread[j].k
    <3>1. CASE thread[j].k = thread[j].n \/ thread[j].valid <= thread[j].k
      BY <2>1, <3>1
    <3>2. CASE Other(j) \in crashed
      <4>1. \A h \in 1 .. i : others[h] \notin crashed
        BY <1>4 DEF Counts, Intact
      <4>2. thread[j].k + 1 \notin 1 .. i
        BY <3>2, <4>1 DEF Other
      <4>3. QED BY <2>1, <4>2
    <3>3. QED BY <3>1, <3>2
  <2>3. thread'[j].pc = "apply"
    BY <1>1, <1>2, <1>4 DEF Moves
  <2>4. QED BY <2>2, <2>3 DEF Passed
<1>5. Told'
  <2>1. OneByOne' => OneByOne
    <3>1. \A q \in Job : Started(q) => Started(q)'
      BY <1>1, <1>2 DEF Started, Moves
    <3>2. QED BY <3>1, OneByOneBefore
  <2>2. ASSUME NEW r \in Request, NEW d \in Device, Owes(r, d) PROVE Owes(r, d)'
    <3>1. r # j /\ r \in Job
      BY <2>2, <1>3, Basics DEF Owes
    <3>2. thread'[r] = thread[r]
      BY <1>2, <3>1 DEF Moves
    <3>3. QED BY <2>2, <3>2 DEF Owes, Effective
  <2>3. QED BY <2>1, <2>2, ToldStays DEF AInv
<1>6. Following(j) # "none" /\ (j \in Request => Following(j) \notin {"answer", "tell"})
  BY <1>1
<1>7. QED BY <1>2, <1>3, <1>4, <1>5, <1>6, StageAgrees

\* While one request is in flight, nobody is owed anything by another.
LEMMA OneOwes ==
    ASSUME AInv, OneByOne, NEW r \in Request, InFlight(r), NEW q \in Request, NEW d, Owes(q, d)
    PROVE  q = r
BY DEF AInv, Alone, OneByOne, Owes, InFlight

\* A client is answered: DELETE_ACCEPT_RESP removes its file, the others are told.
LEMMA AnswersAgrees ==
    ASSUME IInv, AInv, NEW j \in Job, Answers(j)
    PROVE  AInv'
<1>1. /\ thread[j].pc = "answer" /\ thread' = Advance(j)
      /\ told' = IF j \in Delete /\ thread[j].ok THEN [told EXCEPT ![From[j]] = None] ELSE told
      /\ UNCHANGED <<others, log, sync, copy, masterFile, overlapped, overtaken, done, dir, replica,
                     crashed, late>>
  BY DEF Answers, syncVars, backupVars
<1>2. /\ Following(j) \in {"tell", "done"} /\ (j \in Request => Following(j) = "tell")
      /\ (j \in Device => Following(j) = "done")
  BY <1>1, StageOrder DEF Job
<1>3. Moves(j, Following(j), 0, thread[j].n, thread[j].valid) /\ thread'[j].ok = thread[j].ok
  BY <1>1, AdvanceMoves, AdvanceKeepsOk DEF IInv
<1>4. /\ InFlight(j) /\ TypeOK /\ Request \subseteq Job /\ told \in [Device -> Content \cup {Empty}]
      /\ j \in Request => From[j] \in Device /\ sync[From[j]] = "done" /\ Started(From[j])
  <2>1. InFlight(j) /\ Started(j) /\ TypeOK /\ Request \subseteq Job
    BY <1>1, Basics DEF InFlight, Started, IInv
  <2>2. ASSUME j \in Request PROVE From[j] \in Device /\ sync[From[j]] = "done"
    BY <2>1, <2>2, Basics DEF AInv, Ordered
  <2>3. ASSUME j \in Request PROVE Started(From[j])
    BY <2>2, <2>3 DEF AInv, Ordered, Started
  <2>4. QED BY <2>1, <2>2, <2>3 DEF TypeOK
<1>5. \A i \in DOMAIN others : Passed(j, i)' <=> Passed(j, i)
  BY <1>1, <1>2, <1>3 DEF Passed, Moves
<1>6. Told'
  <2>1. OneByOne' => OneByOne
    <3>1. \A q \in Job : Started(q) => Started(q)'
      BY <1>2, <1>3 DEF Started, Moves
    <3>2. QED BY <1>1, <3>1, OneByOneBefore
  <2>2. SUFFICES ASSUME OneByOne', NEW d \in Device \ overtaken
                 PROVE  UpToDate(d)' \/ \E r \in Request : Owes(r, d)'
    BY <1>1 DEF Told
  <2>3. UpToDate(d) \/ \E r \in Request : Owes(r, d)
    BY <2>1, <2>2 DEF AInv, Told
  <2>4. d \in Device /\ d \in Nat /\ d >= 1
    BY <1>4, Basics
  <2>5. ASSUME NEW r \in Request, r # j, Owes(r, d) PROVE Owes(r, d)'
    <3>1. thread'[r] = thread[r]
      BY <1>3, <1>4, <2>5 DEF Moves
    <3>2. QED BY <2>5, <3>1 DEF Owes, Effective
  <2>6. CASE j \in Request /\ Effective(j)
    <3>1. thread'[j].pc = "tell" /\ thread'[j].k = 0 /\ Effective(j)'
      BY <1>2, <1>3, <2>6 DEF Moves, Effective
    <3>2. CASE j \in Delete /\ d = From[j]
      <4>1. j \notin Upload /\ thread[j].ok
        BY <2>6, <3>2, ReplicationAssumption DEF Effective
      <4>2. told'[d] = None /\ Effect(j) = None
        BY <1>1, <1>4, <2>4, <3>2, <4>1 DEF Effect
      <4>3. masterFile = Effect(j)
        BY <1>1, <2>1, <2>2, <2>6 DEF AInv, Applied
      <4>4. UpToDate(d)'
        BY <1>1, <1>4, <2>6, <3>2, <4>2, <4>3 DEF UpToDate
      <4>5. QED BY <4>4
    <3>3. CASE ~(j \in Delete /\ d = From[j])
      <4>1. Owes(j, d)'
        BY <2>4, <3>1, <3>3 DEF Owes
      <4>2. QED BY <2>6, <4>1
    <3>4. QED BY <3>2, <3>3
  <2>7. CASE ~(j \in Request /\ Effective(j))
    <3>1. ~(j \in Request /\ Owes(j, d))
      BY <2>7 DEF Owes
    <3>2. told' = told
      BY <1>1, <2>7 DEF Effective, Request
    <3>3. UpToDate(d) => UpToDate(d)'
      BY <1>1, <3>2 DEF UpToDate
    <3>4. QED BY <2>3, <2>5, <3>1, <3>3
  <2>8. QED BY <2>6, <2>7
<1>7. ASSUME NEW d \in Device, ~Started(d) PROVE told'[d] = told[d]
  BY <1>1, <1>4, <1>7 DEF Request
<1>8. QED BY <1>1, <1>2, <1>3, <1>4, <1>5, <1>6, <1>7, StageAgrees

\* A device is told, and is owed nothing any more.
LEMMA TellsAgrees ==
    ASSUME IInv, AInv, NEW r \in Request, Tells(r)
    PROVE  AInv'
<1> DEFINE d == thread[r].k + 1
<1>1. /\ thread[r].pc = "tell" /\ thread' = [thread EXCEPT ![r].k = d] /\ thread[r].k < Devices
      /\ IF Reaches(r, d)
         THEN /\ told' = [told EXCEPT ![d] = Effect(r)]
              /\ overtaken' = IF Overtakes(r, d) THEN overtaken \cup {d} ELSE overtaken \ {d}
         ELSE UNCHANGED <<told, overtaken>>
      /\ UNCHANGED <<others, log, sync, copy, masterFile, overlapped, done, dir, replica, crashed,
                     late>>
  BY DEF Tells, syncVars, backupVars
<1>2. r \in Job /\ TypeOK /\ Request \subseteq Job /\ InFlight(r) /\ thread[r].k \in Nat
  BY <1>1, Basics, ReachBound DEF IInv, InFlight
<1>3. Moves(r, "tell", d, thread[r].n, thread[r].valid) /\ thread'[r].ok = thread[r].ok
  BY <1>1, <1>2, TurnMoves, TurnKeepsOk
<1>4. \A i \in DOMAIN others : Passed(r, i)' <=> Passed(r, i)
  BY <1>1, <1>3 DEF Passed, Moves
<1>5. Told'
  <2>1. OneByOne' => OneByOne
    <3>1. \A q \in Job : Started(q) => Started(q)'
      BY <1>3 DEF Started, Moves
    <3>2. QED BY <1>1, <3>1, OneByOneBefore
  <2>2. SUFFICES ASSUME OneByOne', NEW e \in Device \ overtaken'
                 PROVE  UpToDate(e)' \/ Owes(r, e)'
    BY <1>1 DEF Told
  <2>3. CASE e = d /\ Reaches(r, d)
    <3>1. told'[e] = Effect(r) /\ ~Overtakes(r, d)
      BY <1>1, <1>2, <2>2, <2>3 DEF TypeOK
    <3>2. Effective(r)
      BY <2>3 DEF Reaches, Effective
    <3>3. masterFile = Effect(r)
      BY <1>1, <2>1, <2>2, <3>2 DEF AInv, Applied
    <3>4. sync[e] \in {"no", "listed", "read", "done"}
      BY <1>2, <2>2 DEF TypeOK
    <3>5. sync[e] = "listed" => masterFile # None
      BY <2>3, <3>1, <3>3, ReplicationAssumption DEF Overtakes, Effect, Request
    <3>6. sync[e] = "read" => copy[e] = masterFile
      BY <2>3, <3>1, <3>3 DEF Overtakes
    <3>7. UpToDate(e)'
      BY <1>1, <3>1, <3>3, <3>4, <3>5, <3>6 DEF UpToDate
    <3>8. QED BY <3>7
  <2>4. CASE ~(e = d /\ Reaches(r, d))
    <3>1. told'[e] = told[e] /\ e \notin overtaken
      BY <1>1, <1>2, <2>2, <2>4 DEF TypeOK
    <3>2. UpToDate(e) => UpToDate(e)'
      BY <1>1, <3>1 DEF UpToDate
    <3>3. UpToDate(e) \/ Owes(r, e)
      BY <1>2, <2>1, <2>2, <3>1, OneOwes DEF AInv, Told
    <3>4. CASE Owes(r, e) /\ e # d
      <4>1. thread[r].k < e /\ d < e
        <5>1. e \in Nat
          BY <1>2, <2>2, Basics
        <5>2. QED BY <1>1, <1>2, <3>4, <5>1 DEF Owes
      <4>2. Owes(r, e)'
        BY <1>1, <1>3, <3>4, <4>1 DEF Owes, Effective, Moves
      <4>3. QED BY <4>2
    <3>5. CASE Owes(r, e) /\ e = d
      <4>1. ~Started(e)
        BY <1>1, <2>4, <3>5 DEF Owes, Effective, Reaches, Started, Request
      <4>2. sync[e] = "no" /\ told[e] = None
        BY <2>2, <4>1 DEF AInv, Ordered, Silent, Started
      <4>3. UpToDate(e)
        BY <4>2 DEF UpToDate
      <4>4. QED BY <3>2, <4>3
    <3>6. QED BY <3>2, <3>3, <3>4, <3>5
  <2>5. QED BY <2>3, <2>4
<1>6. ASSUME NEW e \in Device, ~Started(e) PROVE told'[e] = told[e]
  BY <1>1, <1>2, <1>6 DEF Reaches, Started, TypeOK
<1> HIDE DEF d
<1>7. QED BY <1>1, <1>2, <1>3, <1>4, <1>5, <1>6, StageAgrees

LEMMA TellsLastAgrees ==
    ASSUME IInv, AInv, NEW r \in Request, TellsLast(r)
    PROVE  AInv'
<1>1. /\ thread[r].pc = "tell" /\ thread[r].k = Devices /\ thread' = Advance(r)
      /\ UNCHANGED <<others, log, sync, copy, masterFile, told, overlapped, overtaken, done, dir,
                     replica, crashed, late>>
  BY DEF TellsLast, syncVars, backupVars
<1>2. r \in Job /\ TypeOK /\ Request \subseteq Job /\ InFlight(r) /\ Following(r) = "done"
  BY <1>1, Basics, StageOrder DEF IInv, InFlight
<1>3. Moves(r, "done", 0, thread[r].n, thread[r].valid) /\ thread'[r].ok = thread[r].ok
  BY <1>1, <1>2, AdvanceMoves, AdvanceKeepsOk
<1>4. \A i \in DOMAIN others : Passed(r, i)' <=> Passed(r, i)
  BY <1>1, <1>3 DEF Passed, Moves
<1>5. Told'
  <2>1. OneByOne' => OneByOne
    <3>1. \A q \in Job : Started(q) => Started(q)'
      BY <1>3 DEF Started, Moves
    <3>2. QED BY <1>1, <3>1, OneByOneBefore
  <2>2. ASSUME NEW q \in Request, NEW e \in Device, Owes(q, e) PROVE Owes(q, e)'
    <3>1. e <= Devices /\ e \in Nat /\ Devices \in Nat
      BY <1>2, ReplicationAssumption DEF TypeOK, Device
    <3>2. q # r
      BY <1>1, <2>2, <3>1 DEF Owes
    <3>3. thread'[q] = thread[q]
      BY <1>2, <1>3, <3>2 DEF Moves
    <3>4. QED BY <2>2, <3>3 DEF Owes, Effective
  <2>3. QED BY <1>1, <2>1, <2>2, ToldStays DEF AInv
<1>6. QED BY <1>1, <1>2, <1>3, <1>4, <1>5, StageAgrees

\* A request or a login comes in: its loop has passed nobody.
LEMMA ReceivesAgrees ==
    ASSUME IInv, AInv, NEW j \in Job, Receives(j)
    PROVE  AInv'
<1>1. /\ thread[j].pc = "none" /\ MaySend(j)
      /\ overlapped' = (overlapped \/ (j \in Request /\ \E r \in Request : InFlight(r)))
      /\ UNCHANGED <<others, log, sync, copy, masterFile, told, overtaken, done, dir, replica,
                     crashed, late>>
  BY DEF Receives, syncVars, backupVars
<1>2. /\ TypeOK /\ Request \subseteq Job /\ Device \subseteq Job
      /\ Len(others) \in Nat /\ DOMAIN others = 1 .. Len(others)
  BY Basics DEF IInv, TypeOK
<1>3. Moves(j, "forward", 0, Len(others), Len(others))
  <2>1. thread[j].k = 0
    BY <1>1 DEF IInv, Fresh
  <2>2. QED BY <1>1, <1>2, <2>1, ReceivesMoves DEF Receives, End
<1>4. /\ \A q \in Job : q # j => thread'[q] = thread[q]
      /\ thread'[j].pc = "forward" /\ thread'[j].k = 0 /\ thread'[j].n = Len(others)
  BY <1>3 DEF Moves
<1>5. OneByOne' => OneByOne
  <2>1. \A q \in Job : Started(q) => Started(q)'
    BY <1>4 DEF Started
  <2>2. QED BY <1>1, <2>1, OneByOneBefore
<1>6. Ordered'
  <2>1. \A d \in Device : sync'[d] # "no" => thread'[d].pc = "done"
    BY <1>1, <1>2, <1>4 DEF AInv, Ordered
  <2>2. ASSUME NEW r \in Request, Started(r)' PROVE sync'[From[r]] = "done"
    <3>1. CASE r = j
      BY <1>1, <1>2, <3>1, ReplicationAssumption DEF MaySend
    <3>2. CASE r # j
      <4>1. Started(r)
        BY <1>2, <1>4, <2>2, <3>2 DEF Started
      <4>2. QED BY <1>1, <4>1 DEF AInv, Ordered
    <3>3. QED BY <3>1, <3>2
  <2>3. ASSUME NEW q \in Job, Started(q)', NEW i \in DOMAIN others', Early(i)'
        PROVE  i <= thread'[q].n
    <3>1. CASE q = j
      BY <1>1, <1>2, <1>4, <2>3, <3>1
    <3>2. CASE q # j
      BY <1>1, <1>4, <2>3, <3>2 DEF AInv, Ordered, Started, Early
    <3>3. QED BY <3>1, <3>2
  <2>4. \A h, i \in DOMAIN others' : others'[h] = others'[i] => h = i
    BY <1>1 DEF AInv, Ordered
  <2>5. QED BY <2>1, <2>2, <2>3, <2>4 DEF Ordered
<1>7. Quiet'
  <2>1. \E d \in Device : thread'[d].pc # "none"
    <3>1. CASE j \in Device
      BY <1>4, <3>1
    <3>2. CASE j \in Request
      <4>1. sync[From[j]] = "done" /\ From[j] \in Device
        BY <1>1, <1>2, <3>2, ReplicationAssumption DEF MaySend
      <4>2. thread[From[j]].pc = "done" /\ From[j] # j
        BY <1>1, <4>1 DEF AInv, Ordered
      <4>3. QED BY <1>2, <1>4, <4>1, <4>2
    <3>3. QED BY <3>1, <3>2 DEF Job
  <2>2. QED BY <2>1 DEF Quiet, LoggedIn
<1>8. Alone'
  <2>1. \A r \in Request : r # j => (InFlight(r)' <=> InFlight(r))
    BY <1>2, <1>4 DEF InFlight
  <2>2. QED BY <1>1, <2>1 DEF AInv, Alone
<1>9. Silent'
  BY <1>1, <1>2, <1>4, SilentStays DEF AInv, Started
<1>10. \A i \in DOMAIN others : Counts(i)' => Counts(i)
  <2>1. ASSUME NEW q \in Job
        PROVE  thread[q].n = 0 \/ (thread'[q].n = thread[q].n /\ thread'[q].valid <= thread[q].valid)
    <3>1. CASE q = j
      BY <1>1, <3>1 DEF IInv, Fresh
    <3>2. CASE q # j
      BY <1>2, <1>4, <3>2, Basics
    <3>3. QED BY <3>1, <3>2
  <2>2. thread' \in [Job -> Threads]
    BY <1>3 DEF Moves
  <2>3. QED BY <1>1, <1>2, <2>1, <2>2, CountedBefore
<1>11. Led'
  BY <1>1, <1>10, LedStays DEF AInv
<1>12. Current'
  <2>1. ASSUME NEW r \in Request, NEW i \in DOMAIN others
        PROVE  Passed(r, i)' <=> Passed(r, i)
    <3>1. CASE r = j
      BY <1>1, <1>2, <1>4, <3>1 DEF Passed
    <3>2. CASE r # j
      BY <1>2, <1>4, <3>2 DEF Passed
    <3>3. QED BY <3>1, <3>2
  <2>2. QED BY <1>1, <1>5, <1>10, <2>1, CurrentStays DEF AInv
<1>13. Applied'
  <2>1. ASSUME NEW r \in Request, thread'[r].pc \in {"answer", "tell"}
        PROVE  thread[r].pc \in {"answer", "tell"} /\ thread'[r].ok = thread[r].ok
    BY <1>2, <1>4, <2>1
  <2>2. QED BY <1>1, <1>5, <2>1, AppliedStays DEF AInv
<1>14. Told'
  <2>1. ASSUME NEW r \in Request, NEW d \in Device, Owes(r, d) PROVE Owes(r, d)'
    <3>1. r # j
      BY <1>1, <2>1 DEF Owes
    <3>2. thread'[r] = thread[r]
      BY <1>2, <1>4, <3>1
    <3>3. QED BY <2>1, <3>2 DEF Owes, Effective
  <2>2. QED BY <1>1, <1>5, <2>1, ToldStays DEF AInv
<1>15. QED BY <1>6, <1>7, <1>8, <1>11, <1>12, <1>13, <1>14, <1>9 DEF AInv

\* One more packet for a backup: a request decides, a login does not.
LEMMA HoldsAppended ==
    ASSUME TypeOK, NEW b \in Backup, NEW j \in Job, log'[b] = Append(log[b], j),
           done'[b] = done[b], replica'[b] = replica[b]
    PROVE  /\ j \in Request => WillHold(b, Effect(j))'
           /\ j \in Device => \A x : WillHold(b, x) => WillHold(b, x)'
<1>1. PICK new : new = Len(log[b]) + 1
  OBVIOUS
<1>2. /\ log[b] \in Seq(Job) /\ Len(log[b]) \in Nat /\ DOMAIN log[b] = 1 .. Len(log[b])
      /\ done[b] \in Nat /\ done[b] <= Len(log[b])
  BY Basics DEF TypeOK
<1>3. /\ DOMAIN log'[b] = 1 .. new /\ log'[b][new] = j
      /\ \A m \in DOMAIN log[b] : log'[b][m] = log[b][m]
  BY <1>1, <1>2, AppendProperties, LenProperties
<1>4. ASSUME j \in Request PROVE WillHold(b, Effect(j))'
  <2>1. OnlyLoginsAfter(b, new)'
    BY <1>1, <1>2, <1>3 DEF OnlyLoginsAfter
  <2>2. new \in DOMAIN log'[b] /\ new > done'[b]
    BY <1>1, <1>2, <1>3
  <2>3. log'[b][new] \in Request
    BY <1>3, <1>4
  <2>4. QED BY <1>3, <2>1, <2>2, <2>3 DEF WillHold
<1>5. ASSUME j \in Device, NEW m, OnlyLoginsAfter(b, m) PROVE OnlyLoginsAfter(b, m)'
  <2>1. SUFFICES ASSUME NEW h \in DOMAIN log'[b], h > m PROVE log'[b][h] \in Device
    BY DEF OnlyLoginsAfter
  <2>2. h \in DOMAIN log[b] \/ h = new
    BY <1>1, <1>2, <1>3
  <2>3. QED BY <1>3, <1>5, <2>1, <2>2 DEF OnlyLoginsAfter
<1>6. ASSUME j \in Device, NEW x, WillHold(b, x) PROVE WillHold(b, x)'
  <2>1. CASE replica[b] = x /\ OnlyLoginsAfter(b, done[b])
    BY <1>5, <1>6, <2>1 DEF WillHold
  <2>2. ASSUME NEW m \in DOMAIN log[b], m > done[b], log[b][m] \in Request,
               Effect(log[b][m]) = x, OnlyLoginsAfter(b, m)
        PROVE  WillHold(b, x)'
    <3>1. m \in DOMAIN log'[b] /\ log'[b][m] = log[b][m]
      BY <1>1, <1>2, <1>3
    <3>2. OnlyLoginsAfter(b, m)'
      BY <1>5, <1>6, <2>2
    <3>3. QED BY <2>2, <3>1, <3>2 DEF WillHold
  <2>3. QED BY <1>6, <2>1, <2>2 DEF WillHold
<1>7. QED BY <1>4, <1>6

\* A backup that got its logins first does what was written to it.
LEMMA HoldsHandled ==
    ASSUME TypeOK, NEW b \in Backup, BackupApplies(b), NEW x, WillHold(b, x),
           log[b] # << >> => log[b][1] \in Device, done[b] > 0 => dir[b]
    PROVE  WillHold(b, x)'
<1> DEFINE here == done[b] + 1
           p == log[b][here]
<1>1. /\ log[b] \in Seq(Job) /\ Len(log[b]) \in Nat /\ DOMAIN log[b] = 1 .. Len(log[b])
      /\ done[b] \in Nat /\ done[b] < Len(log[b]) /\ Device \cap Request = {}
  BY Basics DEF BackupApplies
<1>2. here \in DOMAIN log[b] /\ p \in Job
  BY <1>1, Basics
<1>3. /\ log' = log /\ replica' = Replicated(b, p)
      /\ done'[b] = here
  BY DEF BackupApplies, masterVars, TypeOK
<1>4. replica \in [Backup -> Content]
  BY DEF TypeOK
<1>5. CASE p \in Device
  <2>1. p \notin Request
    BY <1>1, <1>5
  <2>2. replica' = replica
    BY <1>3, <2>1 DEF Replicated, Request
  <2>3. CASE replica[b] = x /\ OnlyLoginsAfter(b, done[b])
    BY <1>1, <1>3, <2>2, <2>3 DEF WillHold, OnlyLoginsAfter
  <2>4. ASSUME NEW m \in DOMAIN log[b], m > done[b], log[b][m] \in Request,
               Effect(log[b][m]) = x, OnlyLoginsAfter(b, m)
        PROVE  WillHold(b, x)'
    <3>1. m # here
      BY <2>1, <2>4
    <3>2. m > here
      BY <1>1, <2>4, <3>1
    <3>3. OnlyLoginsAfter(b, m)'
      BY <1>3, <2>4 DEF OnlyLoginsAfter
    <3>4. QED BY <1>3, <2>4, <3>2, <3>3 DEF WillHold
  <2>5. QED BY <2>3, <2>4 DEF WillHold
<1>6. CASE p \in Request
  <2>1. p \notin Device
    BY <1>1, <1>6
  <2>2. ~OnlyLoginsAfter(b, done[b])
    BY <1>1, <1>2, <2>1 DEF OnlyLoginsAfter
  <2>3. dir[b]
    <3>1. here # 1
      BY <1>1, <2>1
    <3>2. QED BY <1>1, <3>1
  <2>4. replica'[b] = Effect(p)
    BY <1>3, <1>4, <1>6, <2>3 DEF Replicated, Request
  <2>5. PICK m \in DOMAIN log[b] : /\ m > done[b] /\ log[b][m] \in Request
                                   /\ Effect(log[b][m]) = x /\ OnlyLoginsAfter(b, m)
    BY <2>2 DEF WillHold
  <2>6. OnlyLoginsAfter(b, m)'
    BY <1>3, <2>5 DEF OnlyLoginsAfter
  <2>7. CASE m = here
    BY <1>3, <2>4, <2>5, <2>6, <2>7 DEF WillHold
  <2>8. CASE m # here
    <3>1. m > here
      BY <1>1, <2>5, <2>8
    <3>2. QED BY <1>3, <2>5, <2>6, <3>1 DEF WillHold
  <2>9. QED BY <2>7, <2>8
<1>7. QED BY <1>2, <1>5, <1>6 DEF Job

\* What was neither written to nor handled stays.
LEMMA HoldsSame ==
    ASSUME NEW b, log'[b] = log[b], done'[b] = done[b], replica'[b] = replica[b], NEW x
    PROVE  WillHold(b, x)' <=> WillHold(b, x)
BY DEF WillHold, OnlyLoginsAfter

\* A turn of a loop: a place that counts and that it has come to is written to;
\* what else is written goes to a place it has passed, if that counts.
LEMMA TurnAgrees ==
    ASSUME IInv, AInv, NEW j \in Job, thread[j].pc = "forward", thread[j].k < thread[j].n,
           NEW here, here = thread[j].k + 1, thread' = [thread EXCEPT ![j].k = here],
           NEW at \in DOMAIN others, NEW wrote \in BOOLEAN,
           log' = IF wrote THEN [log EXCEPT ![others[at]] = Append(@, j)] ELSE log,
           Counts(here) => wrote /\ at = here,
           Counts(at) /\ wrote => at <= here,
           UNCHANGED <<others, sync, copy, masterFile, told, overlapped, overtaken, done, dir,
                       replica, crashed, late>>
    PROVE  AInv'
<1>1. PICK b : b = others[at]
  OBVIOUS
<1>2. /\ TypeOK /\ Request \subseteq Job /\ Device \subseteq Job
      /\ Len(others) \in Nat /\ DOMAIN others = 1 .. Len(others)
  BY Basics DEF IInv
<1>3. b \in Backup /\ thread[j].k \in Nat
  BY <1>1, <1>2, Basics, ReachBound
<1>4. Moves(j, "forward", here, thread[j].n, thread[j].valid) /\ thread'[j].ok = thread[j].ok
  <2>1. Moves(j, thread[j].pc, thread[j].k + 1, thread[j].n, thread[j].valid)
    BY <1>2, TurnMoves
  <2>2. thread'[j].ok = thread[j].ok
    BY <1>2, TurnKeepsOk
  <2>3. QED BY <2>1, <2>2
<1>5. /\ \A q \in Job : q # j => thread'[q] = thread[q]
      /\ thread'[j].pc = "forward" /\ thread'[j].k = here /\ thread'[j].n = thread[j].n
      /\ thread'[j].valid = thread[j].valid
  BY <1>4 DEF Moves
<1>6. \A q \in Job : Started(q)' <=> Started(q)
  BY <1>5 DEF Started
<1>7. OneByOne' => OneByOne
  BY <1>6, OneByOneBefore
<1>8. /\ \A i \in DOMAIN others : i # at \/ ~wrote => log'[others[i]] = log[others[i]]
      /\ wrote => log'[b] = Append(log[b], j)
  <2>1. ASSUME NEW i \in DOMAIN others, i # at PROVE others[i] # b
    BY <1>1, <2>1 DEF AInv, Ordered
  <2>2. log \in [Backup -> Seq(Job)]
    BY <1>2 DEF TypeOK
  <2>3. QED BY <1>1, <1>2, <1>3, <2>1, <2>2, Basics
<1>9. \A i \in DOMAIN others : Counts(i)' <=> Counts(i)
  <2>1. \A q \in Job : thread'[q].n = thread[q].n /\ thread'[q].valid = thread[q].valid
    BY <1>5
  <2>2. QED BY <1>2, <2>1, CountedSame
<1>10. Silent'
  BY <1>2, <1>6, SilentStays DEF AInv
<1>11. Ordered'
  <2>1. \A d \in Device : thread[d].pc = "done" => thread'[d].pc = "done"
    BY <1>2, <1>5
  <2>2. \A q \in Job : Started(q)' => Started(q) /\ thread'[q].n = thread[q].n
    BY <1>5, <1>6
  <2>3. QED BY <1>2, <2>1, <2>2, OrderedStays DEF AInv
<1>12. Quiet'
  <2>1. LoggedIn
    BY <1>2, StartedAfterLogin DEF AInv, Started
  <2>2. LoggedIn'
    BY <1>2, <1>6, <2>1 DEF LoggedIn, Started
  <2>3. QED BY <2>2 DEF Quiet
<1>13. Alone'
  <2>1. \A r \in Request : InFlight(r)' => InFlight(r)
    BY <1>2, <1>5 DEF InFlight
  <2>2. QED BY <2>1, AloneStays DEF AInv
<1>14. Led'
  <2>1. SUFFICES ASSUME NEW i \in DOMAIN others, Counts(i)
                 PROVE  /\ log'[others[i]] # << >> => log'[others[i]][1] \in Device
                        /\ done[others[i]] > 0 => dir[others[i]]
    BY <1>9 DEF Led
  <2>2. /\ log[others[i]] # << >> => log[others[i]][1] \in Device
        /\ done[others[i]] > 0 => dir[others[i]]
    BY <2>1 DEF AInv, Led
  <2>3. CASE i # at \/ ~wrote
    BY <1>8, <2>1, <2>2, <2>3
  <2>4. CASE i = at /\ wrote
    <3>1. log'[b] = Append(log[b], j) /\ log[b] \in Seq(Job) /\ others[i] = b
      BY <1>1, <1>2, <1>3, <1>8, <2>1, <2>4, Basics
    <3>2. CASE log[b] = << >>
      <4>1. j \notin Request
        <5>1. SUFFICES ASSUME j \in Request PROVE FALSE
          OBVIOUS
        <5>2. From[j] \in Device /\ From[j] \in Job /\ thread[From[j]].pc = "done"
          <6>1. From[j] \in Device /\ sync[From[j]] = "done"
            BY <1>2, <5>1, Basics DEF AInv, Ordered, Started
          <6>2. QED BY <1>2, <6>1 DEF AInv, Ordered
        <5>3. i <= thread[From[j]].n /\ Reach(From[j]) = thread[From[j]].valid
              /\ i \in 1 .. Len(others)
          BY <1>2, <2>1, <5>2 DEF AInv, Ordered, Started, Reach, Counts
        <5>4. i \in 1 .. Reach(From[j])
          <6>1. i <= thread[From[j]].valid
            BY <2>1, <5>2, <5>3 DEF Counts, Sure
          <6>2. QED BY <1>2, <5>2, <5>3, <6>1, ReachBound
        <5>5. Written(From[j], i)
          BY <2>1, <5>2, <5>4 DEF IInv, Forwarded, Counts
        <5>6. QED BY <3>1, <3>2, <5>5 DEF Written
      <4>2. log'[b][1] = j
        BY <3>1, <3>2, AppendProperties
      <4>3. QED BY <2>2, <3>1, <4>1, <4>2 DEF Job
    <3>3. CASE log[b] # << >>
      <4>1. log'[b][1] = log[b][1]
        <5>1. 1 \in 1 .. Len(log[b])
          BY <3>1, <3>3, EmptySeq, LenProperties
        <5>2. QED BY <3>1, <5>1, AppendProperties
      <4>2. QED BY <2>2, <3>1, <3>3, <4>1
    <3>4. QED BY <3>2, <3>3
  <2>5. QED BY <2>3, <2>4
<1>15. Current'
  <2>1. SUFFICES ASSUME OneByOne', NEW i \in DOMAIN others, Counts(i)
                 PROVE  /\ \A r \in Request : Passed(r, i)' => WillHold(others[i], Effect(r))'
                        /\ (\A r \in Request : ~Passed(r, i)') => WillHold(others[i], masterFile)'
    BY <1>9 DEF Current
  <2>2. /\ \A r \in Request : Passed(r, i) => WillHold(others[i], Effect(r))
        /\ (\A r \in Request : ~Passed(r, i)) => WillHold(others[i], masterFile)
    BY <1>7, <2>1 DEF AInv, Current
  <2>3. \A r \in Request : r # j => (Passed(r, i)' <=> Passed(r, i))
    BY <1>2, <1>5 DEF Passed
  <2>4. CASE i # at \/ ~wrote
    <3>1. i # here
      BY <2>1, <2>4
    <3>2. Passed(j, i)' <=> Passed(j, i)
      BY <1>2, <1>3, <1>5, <2>1, <3>1 DEF Passed
    <3>3. \A x : WillHold(others[i], x)' <=> WillHold(others[i], x)
      BY <1>8, <2>1, <2>4 DEF WillHold, OnlyLoginsAfter
    <3>4. QED BY <2>2, <2>3, <3>2, <3>3
  <2>5. CASE i = at /\ wrote
    <3>1. log'[b] = Append(log[b], j) /\ others[i] = b /\ others'[i] = b /\ i <= here
      BY <1>1, <1>8, <2>1, <2>5
    <3>2. /\ j \in Request => WillHold(b, Effect(j))'
          /\ j \in Device => \A x : WillHold(b, x) => WillHold(b, x)'
      BY <1>2, <1>3, <3>1, HoldsAppended
    <3>3. CASE j \in Request
      <4>1. \A r \in Request : Passed(r, i)' => r = j
        <5>1. ASSUME NEW r \in Request, r # j, Passed(r, i) PROVE FALSE
          <6>1. InFlight(r) /\ InFlight(j)
            BY <5>1 DEF InFlight, Passed
          <6>2. QED BY <1>7, <2>1, <3>3, <5>1, <6>1 DEF AInv, Alone, OneByOne
        <5>2. QED BY <2>3, <5>1
      <4>2. Passed(j, i)'
        BY <1>5, <3>1 DEF Passed
      <4>3. QED BY <3>1, <3>2, <3>3, <4>1, <4>2
    <3>4. CASE j \in Device
      <4>1. j \notin Request
        BY <1>2, <3>4, Basics
      <4>2. QED BY <2>2, <2>3, <3>1, <3>2, <3>4, <4>1
    <3>5. QED BY <3>3, <3>4 DEF Job
  <2>6. QED BY <2>4, <2>5
<1>16. Applied'
  <2>1. ASSUME NEW r \in Request, thread'[r].pc \in {"answer", "tell"}
        PROVE  thread[r].pc \in {"answer", "tell"} /\ thread'[r].ok = thread[r].ok
    BY <1>2, <1>5, <2>1
  <2>2. QED BY <1>7, <2>1, AppliedStays DEF AInv
<1>17. Told'
  <2>1. ASSUME NEW r \in Request, NEW d \in Device, Owes(r, d) PROVE Owes(r, d)'
    <3>1. thread'[r] = thread[r]
      BY <1>2, <1>5, <2>1 DEF Owes
    <3>2. QED BY <2>1, <3>1 DEF Owes, Effective
  <2>2. QED BY <1>7, <2>1, ToldStays DEF AInv
<1>18. QED BY <1>10, <1>11, <1>12, <1>13, <1>14, <1>15, <1>16, <1>17 DEF AInv

\* A loop writes its packet to the backup it has come to, or gives up there.
LEMMA ForwardsAgrees == ASSUME IInv, AInv, NEW j \in Job, Forwards(j) PROVE AInv'
<1>1. /\ thread[j].pc = "forward" /\ thread[j].k < thread[j].valid
      /\ thread[j].k \in Nat /\ thread[j].valid \in Nat /\ thread[j].n \in Nat
      /\ thread[j].valid <= thread[j].n /\ thread[j].n <= Len(others)
      /\ UNCHANGED <<others, sync, copy, masterFile, told, overlapped, overtaken, done, dir, replica,
                     crashed, late>>
  BY ReachBound DEF Forwards, syncVars, backupVars, IInv
<1>2. CASE Other(j) \in crashed /\ thread' = Advance(j) /\ UNCHANGED log
  BY <1>1, <1>2, LoopEndAgrees
<1>3. CASE /\ thread' = [thread EXCEPT ![j].k = @ + 1]
           /\ log' = IF Other(j) \in crashed THEN log ELSE [log EXCEPT ![Other(j)] = Append(@, j)]
  <2>1. PICK here : here = thread[j].k + 1
    OBVIOUS
  <2>2. PICK wrote \in BOOLEAN : wrote <=> Other(j) \notin crashed
    OBVIOUS
  <2>3. here \in DOMAIN others /\ thread[j].k < thread[j].n /\ Other(j) = others[here]
    BY <1>1, <2>1, Basics DEF Other, IInv
  <2>4. Counts(here) => wrote
    BY <2>2, <2>3, Basics DEF Counts, Intact, IInv
  <2>5. thread' = [thread EXCEPT ![j].k = here]
    BY <1>3, <2>1
  <2>6. log' = IF wrote THEN [log EXCEPT ![others[here]] = Append(@, j)] ELSE log
    BY <1>3, <2>2, <2>3
  <2>7. here <= here
    BY <1>1, <2>1
  <2>8. QED BY <1>1, <2>1, <2>3, <2>4, <2>5, <2>6, <2>7, TurnAgrees
<1>4. QED BY <1>2, <1>3 DEF Forwards

\* A loop that has gone astray writes to a backup that it had passed, if to one
\* that counts.
LEMMA AstrayAgrees == ASSUME IInv, AInv, NEW j \in Job, ForwardsAstray(j) PROVE AInv'
<1>1. /\ thread[j].pc = "forward" /\ thread[j].valid <= thread[j].k /\ thread[j].k < thread[j].n
      /\ thread[j].k \in Nat /\ thread[j].valid \in Nat /\ thread[j].n \in Nat
      /\ thread[j].n <= Len(others) /\ Len(others) \in Nat /\ DOMAIN others = 1 .. Len(others)
      /\ UNCHANGED <<others, sync, copy, masterFile, told, overlapped, overtaken, done, dir, replica,
                     crashed, late>>
  BY ReachBound, Basics DEF ForwardsAstray, syncVars, backupVars, IInv
<1>2. ASSUME NEW i \in DOMAIN others, Counts(i) PROVE i <= thread[j].k
  <2>1. i <= thread[j].n
    BY <1>1, <1>2 DEF AInv, Ordered, Counts, Started
  <2>2. i <= thread[j].valid
    BY <1>2, <2>1 DEF Counts, Sure
  <2>3. QED BY <1>1, <1>2, <2>2
<1>3. CASE thread' = Advance(j) /\ UNCHANGED log
  BY <1>1, <1>3, LoopEndAgrees
<1>4. CASE thread' = [thread EXCEPT ![j].k = @ + 1]
  <2>1. PICK here : here = thread[j].k + 1
    OBVIOUS
  <2>2. PICK at \in DOMAIN others, wrote \in BOOLEAN :
           log' = IF wrote THEN [log EXCEPT ![others[at]] = Append(@, j)] ELSE log
    <3>1. 1 \in DOMAIN others
      BY <1>1
    <3>2. log' = log \/ \E i \in DOMAIN others : log' = [log EXCEPT ![others[i]] = Append(@, j)]
      BY DEF ForwardsAstray
    <3>3. QED BY <3>1, <3>2
  <2>3. here \in DOMAIN others
    BY <1>1, <2>1
  <2>4. ~Counts(here)
    BY <1>1, <1>2, <2>1, <2>3
  <2>5. Counts(at) => at <= here
    BY <1>1, <1>2, <2>1
  <2>6. thread' = [thread EXCEPT ![j].k = here]
    BY <1>4, <2>1
  <2>7. QED BY <1>1, <2>1, <2>2, <2>4, <2>5, <2>6, TurnAgrees
<1>5. QED BY <1>3, <1>4 DEF ForwardsAstray

\* The thread of a request that is carried out notes whether it succeeded.
LEMMA AppliesNotes ==
    ASSUME TypeOK, NEW r \in Request, Applies(r)
    PROVE  /\ thread[r].pc = "apply"
           /\ \A q \in Job : q # r => thread'[q] = thread[q]
           /\ thread'[r].pc = "answer" /\ thread'[r].n = thread[r].n
           /\ thread'[r].valid = thread[r].valid
           /\ thread'[r].ok = Succeeds(r)
<1>1. r \in Job /\ Succeeds(r) \in BOOLEAN /\ thread[r].pc = "apply" /\ thread \in [Job -> Threads]
  BY Basics DEF Applies, Succeeds
<1>2. Following(r) = "answer"
  BY <1>1, StageOrder
<1>3. thread' = [thread EXCEPT ![r] = [[thread[r] EXCEPT !.pc = "answer", !.k = 0] EXCEPT !.ok = Succeeds(r)]]
  BY <1>1, <1>2 DEF Applies, Advance
<1>4. PICK ok \in BOOLEAN : ok = Succeeds(r)
  BY <1>1
<1>5. thread' = [thread EXCEPT ![r] = [[thread[r] EXCEPT !.pc = "answer", !.k = 0] EXCEPT !.ok = ok]]
  BY <1>3, <1>4
<1>6. /\ \A q \in Job : q # r => thread'[q] = thread[q]
      /\ thread'[r].pc = "answer" /\ thread'[r].n = thread[r].n
      /\ thread'[r].valid = thread[r].valid
  BY <1>1, <1>5 DEF Threads
<1>7. thread'[r].ok = ok
  <2>1. CASE ok = TRUE
    BY <1>1, <1>5, <2>1 DEF Threads
  <2>2. CASE ok = FALSE
    BY <1>1, <1>5, <2>2 DEF Threads
  <2>3. QED BY <2>1, <2>2
<1>8. QED BY <1>1, <1>4, <1>6, <1>7

\* The master carries a request out, and has the file that the backups that count
\* will have.
LEMMA AppliesAgrees ==
    ASSUME IInv, AInv, NEW r \in Request, Applies(r)
    PROVE  AInv'
<1>1. /\ masterFile' = IF Succeeds(r) THEN Effect(r) ELSE masterFile
      /\ UNCHANGED <<others, log, sync, copy, told, overlapped, overtaken, done, dir, replica,
                     crashed, late>>
  BY DEF Applies, syncVars, backupVars
<1>2. TypeOK /\ r \in Job /\ Request \subseteq Job /\ Device \subseteq Job
  BY Basics DEF IInv
<1>3. /\ thread[r].pc = "apply"
      /\ \A q \in Job : q # r => thread'[q] = thread[q]
      /\ thread'[r].pc = "answer" /\ thread'[r].n = thread[r].n
      /\ thread'[r].valid = thread[r].valid
      /\ thread'[r].ok = Succeeds(r)
  BY <1>2, AppliesNotes
<1>4. \A q \in Job : Started(q)' <=> Started(q)
  BY <1>3 DEF Started
<1>5. OneByOne' => OneByOne
  BY <1>1, <1>4, OneByOneBefore
<1>6. ASSUME OneByOne
      PROVE  /\ masterFile' = Effect(r)
             /\ ~Succeeds(r) => masterFile' = masterFile
             /\ r \in Upload => Succeeds(r)
  <2>1. r \notin Refused
    BY <1>3, <1>6 DEF OneByOne
  <2>2. CASE r \in Upload
    BY <1>1, <2>1, <2>2 DEF Succeeds
  <2>3. CASE r \notin Upload
    BY <1>1, <2>3 DEF Succeeds, Effect
  <2>4. QED BY <2>2, <2>3
<1>7. ASSUME OneByOne, NEW q \in Request, InFlight(q) PROVE q = r
  BY <1>3, <1>7 DEF AInv, Alone, OneByOne, InFlight
<1>8. Ordered'
  <2>1. \A d \in Device : thread[d].pc = "done" => thread'[d].pc = "done"
    BY <1>2, <1>3
  <2>2. \A q \in Job : Started(q)' => Started(q) /\ thread'[q].n = thread[q].n
    BY <1>3, <1>4
  <2>3. QED BY <1>1, <1>2, <2>1, <2>2, OrderedStays DEF AInv
<1>9. Quiet'
  <2>1. LoggedIn
    BY <1>2, <1>3, StartedAfterLogin DEF AInv, Started
  <2>2. LoggedIn'
    BY <1>2, <1>4, <2>1 DEF LoggedIn, Started
  <2>3. QED BY <2>2 DEF Quiet
<1>10. Alone'
  <2>1. \A q \in Request : InFlight(q)' => InFlight(q)
    BY <1>2, <1>3 DEF InFlight
  <2>2. QED BY <1>1, <2>1, AloneStays DEF AInv
<1>11. Silent'
  BY <1>1, <1>2, <1>4, SilentStays DEF AInv
<1>12. \A i \in DOMAIN others : Counts(i)' <=> Counts(i)
  <2>1. \A q \in Job : thread'[q].n = thread[q].n /\ thread'[q].valid = thread[q].valid
    BY <1>3
  <2>2. QED BY <1>1, <1>2, <2>1, CountedSame
<1>13. Led'
  BY <1>1, <1>12, LedStays DEF AInv
<1>14. Current'
  <2>1. SUFFICES ASSUME OneByOne', NEW i \in DOMAIN others, Counts(i)
                 PROVE  /\ \A q \in Request : ~Passed(q, i)'
                        /\ WillHold(others[i], masterFile)'
    BY <1>1, <1>12 DEF Current
  <2>2. \A q \in Request : ~Passed(q, i)'
    <3>1. ASSUME NEW q \in Request, q # r, Passed(q, i) PROVE FALSE
      BY <1>5, <1>7, <2>1, <3>1 DEF InFlight, Passed
    <3>2. QED BY <1>2, <1>3, <3>1 DEF Passed
  <2>3. WillHold(others[i], Effect(r))
    BY <1>3, <1>5, <2>1 DEF AInv, Current, Passed
  <2>4. WillHold(others[i], masterFile)'
    BY <1>1, <1>5, <1>6, <2>1, <2>3 DEF WillHold, OnlyLoginsAfter
  <2>5. QED BY <2>2, <2>4
<1>15. Applied'
  <2>1. SUFFICES ASSUME OneByOne', NEW q \in Request, thread'[q].pc \in {"answer", "tell"}
                 PROVE  masterFile' = Effect(q)
    BY DEF Applied
  <2>2. q = r
    <3>1. ASSUME q # r PROVE FALSE
      <4>1. InFlight(q)
        BY <1>2, <1>3, <2>1, <3>1 DEF InFlight
      <4>2. QED BY <1>5, <1>7, <2>1, <3>1, <4>1
    <3>2. QED BY <3>1
  <2>3. QED BY <1>5, <1>6, <2>1, <2>2
<1>16. Told'
  <2>1. SUFFICES ASSUME OneByOne', NEW d \in Device \ overtaken
                 PROVE  UpToDate(d)' \/ \E q \in Request : Owes(q, d)'
    BY <1>1 DEF Told
  <2>2. CASE r \in Upload \/ Succeeds(r)
    <3>1. Effective(r)'
      BY <1>3, <2>2 DEF Effective
    <3>2. Owes(r, d)'
      BY <1>3, <3>1 DEF Owes
    <3>3. QED BY <3>2
  <2>3. CASE ~(r \in Upload \/ Succeeds(r))
    <3>1. \A q \in Request : ~Owes(q, d)
      BY <1>3, <1>5, <2>1, OneOwes DEF Owes, InFlight
    <3>2. UpToDate(d)
      BY <1>5, <2>1, <3>1 DEF AInv, Told
    <3>3. masterFile' = masterFile
      BY <1>5, <1>6, <2>1, <2>3
    <3>4. UpToDate(d)'
      BY <1>1, <3>2, <3>3 DEF UpToDate
    <3>5. QED BY <3>4
  <2>4. QED BY <2>2, <2>3
<1>17. QED BY <1>8, <1>9, <1>10, <1>13, <1>14, <1>15, <1>16, <1>11 DEF AInv

\* Steps that move no thread, and write to no backup.
LEMMA RestAgrees ==
    ASSUME IInv, AInv,
           UNCHANGED <<others, log, thread, masterFile, overlapped, done, dir, replica, late>>,
           crashed \subseteq crashed',
           \A d \in Device : /\ sync'[d] # "no" => thread[d].pc = "done"
                             /\ sync[d] = "done" => sync'[d] = "done"
                             /\ ~Started(d) => told'[d] = told[d],
           Told'
    PROVE  AInv'
<1>1. OneByOne' => OneByOne
  BY OneByOneBefore DEF Started
<1>2. Ordered'
  <2>1. \A r \in Request : Started(r)' => sync'[From[r]] = "done"
    BY Basics DEF AInv, Ordered, Started, IInv
  <2>2. QED BY <2>1 DEF AInv, Ordered, Started, Early
<1>3. Quiet'
  BY QuietStays DEF AInv, LoggedIn
<1>4. Alone'
  BY AloneStays DEF AInv, InFlight
<1>5. Silent'
  BY SilentStays DEF AInv, Started
<1>6. \A i \in DOMAIN others : Counts(i)' => Counts(i)
  BY DEF Counts, Intact, Early, Sure
<1>7. Led'
  BY <1>6, LedStays DEF AInv
<1>8. Current'
  <2>1. \A r \in Request, i \in DOMAIN others : Passed(r, i)' <=> Passed(r, i)
    BY DEF Passed
  <2>2. QED BY <1>1, <1>6, <2>1, CurrentStays DEF AInv
<1>9. Applied'
  BY <1>1, AppliedStays DEF AInv
<1>10. QED BY <1>2, <1>3, <1>4, <1>7, <1>8, <1>9, <1>5 DEF AInv

\* A device is sent the directory: what has been listed, read or sent is up to
\* date, or a broadcast is still to come.
LEMMA SyncsAgrees ==
    ASSUME IInv, AInv, NEW d \in Device, SyncLists(d) \/ SyncReads(d) \/ SyncSends(d)
    PROVE  AInv'
<1>1. UNCHANGED <<others, log, thread, masterFile, overlapped, overtaken, done, dir, replica,
                  crashed, late>>
  BY DEF SyncLists, SyncReads, SyncSends, backupVars
<1>2. /\ told \in [Device -> Content \cup {Empty}] /\ copy \in [Device -> Upload \cup {Empty}]
      /\ sync \in [Device -> {"no", "listed", "read", "done"}]
  BY DEF IInv, TypeOK
<1>3. \A e \in Device : e # d => sync'[e] = sync[e] /\ copy'[e] = copy[e] /\ told'[e] = told[e]
  BY <1>2 DEF SyncLists, SyncReads, SyncSends
<1>4. thread[d].pc = "done" /\ sync[d] # "done"
  BY DEF AInv, Ordered, SyncLists, SyncReads, SyncSends
<1>5. UpToDate(d) => UpToDate(d)' \/ (sync[d] = "listed" /\ masterFile = None)
  <2>1. CASE SyncLists(d)
    BY <1>1, <1>2, <2>1 DEF SyncLists, UpToDate
  <2>2. CASE SyncReads(d)
    BY <1>1, <1>2, <2>2 DEF SyncReads, UpToDate
  <2>3. CASE SyncSends(d)
    BY <1>1, <1>2, <2>3 DEF SyncSends, UpToDate
  <2>4. QED BY <2>1, <2>2, <2>3
<1>6. Told'
  <2>1. OneByOne' => OneByOne
    BY <1>1 DEF OneByOne
  <2>2. SUFFICES ASSUME OneByOne', NEW e \in Device \ overtaken
                 PROVE  UpToDate(e)' \/ \E r \in Request : Owes(r, e)
    BY <1>1 DEF Told, Owes, Effective
  <2>3. UpToDate(e) \/ \E r \in Request : Owes(r, e)
    BY <2>1, <2>2 DEF AInv, Told
  <2>4. UpToDate(e) => UpToDate(e)'
    <3>1. CASE e = d
      BY <1>5, <3>1 DEF UpToDate
    <3>2. CASE e # d
      BY <1>1, <1>3, <2>2, <3>2 DEF UpToDate
    <3>3. QED BY <3>1, <3>2
  <2>5. QED BY <2>3, <2>4
<1>7. \A e \in Device : /\ sync'[e] # "no" => thread[e].pc = "done"
                        /\ sync[e] = "done" => sync'[e] = "done"
                        /\ ~Started(e) => told'[e] = told[e]
  BY <1>3, <1>4 DEF AInv, Ordered, Started
<1>8. QED BY <1>1, <1>6, <1>7, RestAgrees

\* The master stops, or a backup crashes, or nothing happens.
LEMMA CrashAgrees ==
    ASSUME IInv, AInv, MasterStops \/ (\E b \in Backup : BackupCrashes(b)) \/ UNCHANGED vars
    PROVE  AInv'
<1>1. /\ UNCHANGED <<others, log, thread, sync, copy, masterFile, told, overlapped, overtaken,
                     done, dir, replica, late>>
      /\ crashed \subseteq crashed'
  BY DEF MasterStops, BackupCrashes, vars, masterVars, syncVars, backupVars
<1>2. Told'
  BY <1>1 DEF AInv, Told, OneByOne, Owes, Effective, UpToDate
<1>3. \A e \in Device : /\ sync'[e] # "no" => thread[e].pc = "done"
                        /\ sync[e] = "done" => sync'[e] = "done"
                        /\ ~Started(e) => told'[e] = told[e]
  BY <1>1 DEF AInv, Ordered
<1>4. QED BY <1>1, <1>2, <1>3, RestAgrees

\* A backup that joins before the first login has what there is: nothing.
LEMMA JoinsAgrees ==
    ASSUME IInv, AInv, NEW b \in Backup, BackupJoins(b)
    PROVE  AInv'
<1>1. /\ \A i \in DOMAIN others : others[i] # b
      /\ others' = Append(others, b)
      /\ late' = IF LoggedIn THEN late \cup {b} ELSE late
      /\ UNCHANGED <<log, sync, copy, masterFile, told, overlapped, overtaken, done, dir, replica,
                     crashed>>
  BY DEF BackupJoins, syncVars, backupVars
<1>2. /\ thread' \in [Job -> Threads]
      /\ \A j \in Job :
            /\ thread'[j].pc = thread[j].pc /\ thread'[j].k = thread[j].k
            /\ thread'[j].n = thread[j].n /\ thread'[j].ok = thread[j].ok
            /\ thread'[j].valid <= thread[j].valid
  BY JoinMoves DEF IInv
<1>3. /\ \A j \in Job : (Started(j)' <=> Started(j)) /\ (InFlight(j)' <=> InFlight(j))
      /\ (LoggedIn' <=> LoggedIn)
      /\ \A r \in Request, i \in Nat : (Passed(r, i)' <=> Passed(r, i))
      /\ \A r \in Request, d \in Device : (Owes(r, d)' <=> Owes(r, d))
      /\ (OneByOne' <=> OneByOne)
  <2>1. Request \subseteq Job /\ Device \subseteq Job /\ Refused \subseteq Job
    BY ReplicationAssumption DEF Job, Request
  <2>2. QED BY <1>1, <1>2, <2>1 DEF Started, InFlight, LoggedIn, Passed, Owes, Effective, OneByOne
<1>4. /\ TypeOK /\ Len(others) \in Nat /\ DOMAIN others = 1 .. Len(others)
      /\ others \in Seq(Backup) /\ Request \subseteq Job
  BY Basics DEF IInv, TypeOK
<1>5. PICK new : new = Len(others) + 1
  OBVIOUS
<1>6. /\ DOMAIN others' = 1 .. new /\ others'[new] = b
      /\ \A i \in DOMAIN others : others'[i] = others[i]
  BY <1>1, <1>4, <1>5, AppendProperties, LenProperties
<1>7. /\ \A i \in DOMAIN others' : i \in DOMAIN others \/ i = new
      /\ new \notin DOMAIN others
  BY <1>4, <1>5, <1>6
<1>8. /\ \A i \in DOMAIN others : (Counts(i)' => Counts(i)) /\ (Early(i)' => Early(i))
      /\ Early(new)' => ~LoggedIn
  <2>1. ASSUME NEW i \in DOMAIN others PROVE \A h \in 1 .. i : others'[h] = others[h]
    BY <1>4, <1>6
  <2>2. ASSUME NEW i \in DOMAIN others, Counts(i)' PROVE Counts(i)
    BY <1>1, <1>4, <1>2, <2>1, <2>2, CountedBefore
  <2>3. QED BY <1>1, <1>6, <2>2 DEF Early
<1>9. \A j \in Job : Started(j) => LoggedIn
  BY <1>4, StartedAfterLogin DEF AInv
<1>10. ~LoggedIn => masterFile = None /\ log[b] = << >> /\ replica[b] = None /\ done[b] = 0
  <2>1. log[b] = << >> => done[b] = 0
    <3>1. done[b] \in Nat /\ done[b] <= Len(log[b])
      BY <1>4 DEF TypeOK
    <3>2. QED BY <3>1, EmptySeq
  <2>2. QED BY <2>1 DEF AInv, Quiet
<1>11. Ordered'
  <2>1. \A d \in Device : sync'[d] # "no" => thread'[d].pc = "done"
    BY <1>1, <1>4, <1>2, Basics DEF AInv, Ordered
  <2>2. \A r \in Request : Started(r)' => sync'[From[r]] = "done"
    BY <1>1, <1>4, <1>3 DEF AInv, Ordered
  <2>3. \A h, i \in DOMAIN others' : others'[h] = others'[i] => h = i
    BY <1>1, <1>6, <1>7 DEF AInv, Ordered
  <2>4. ASSUME NEW j \in Job, Started(j)', NEW i \in DOMAIN others', Early(i)'
        PROVE  i <= thread'[j].n
    <3>1. Started(j)
      BY <1>3, <2>4
    <3>2. i \in DOMAIN others /\ Early(i)
      BY <1>7, <1>8, <1>9, <2>4, <3>1
    <3>3. QED BY <1>2, <3>1, <3>2 DEF AInv, Ordered
  <2>5. QED BY <2>1, <2>2, <2>3, <2>4 DEF Ordered
<1>12. Quiet'
  BY <1>1, <1>3 DEF AInv, Quiet
<1>13. Silent'
  BY <1>1, <1>4, <1>3, Basics DEF AInv, Silent
<1>14. Alone'
  BY <1>1, <1>4, <1>3 DEF AInv, Alone
<1>15. Led'
  <2>1. SUFFICES ASSUME NEW i \in DOMAIN others', Counts(i)'
                 PROVE  /\ log[others'[i]] # << >> => log[others'[i]][1] \in Device
                        /\ done[others'[i]] > 0 => dir[others'[i]]
    BY <1>1 DEF Led
  <2>2. CASE i \in DOMAIN others
    BY <1>6, <1>8, <2>1, <2>2 DEF AInv, Led
  <2>3. CASE i = new
    BY <1>6, <1>8, <1>10, <2>1, <2>3 DEF Counts
  <2>4. QED BY <1>7, <2>2, <2>3
<1>16. OneByOne' => OneByOne
  BY <1>3
<1>17. Current'
  <2>1. SUFFICES ASSUME OneByOne', NEW i \in DOMAIN others', Counts(i)'
                 PROVE  /\ \A r \in Request : Passed(r, i) => WillHold(others'[i], Effect(r))
                        /\ (\A r \in Request : ~Passed(r, i)) => WillHold(others'[i], masterFile)
    <3>1. \A r \in Request, i \in DOMAIN others' : Passed(r, i)' <=> Passed(r, i)
      BY <1>6, <1>3
    <3>2. \A i \in DOMAIN others' : \A x : WillHold(others[i], x)' <=> WillHold(others'[i], x)
      BY <1>1 DEF WillHold, OnlyLoginsAfter
    <3>3. QED BY <1>1, <2>1, <3>1, <3>2 DEF Current
  <2>2. CASE i \in DOMAIN others
    BY <1>6, <1>8, <1>16, <2>1, <2>2 DEF AInv, Current
  <2>3. CASE i = new
    <3>1. \A r \in Request : ~Passed(r, i)
      BY <1>4, <1>8, <1>9, <2>1, <2>3 DEF Passed, Started, Counts
    <3>2. WillHold(b, masterFile)
      BY <1>8, <1>10, <2>1, <2>3 DEF WillHold, OnlyLoginsAfter, Counts
    <3>3. QED BY <1>6, <2>3, <3>1, <3>2
  <2>4. QED BY <1>7, <2>2, <2>3
<1>18. Applied'
  BY <1>1, <1>4, <1>2, <1>3 DEF AInv, Applied, Effective
<1>19. Told'
  BY <1>1, <1>3 DEF AInv, Told, UpToDate
<1>20. QED BY <1>11, <1>12, <1>14, <1>15, <1>17, <1>18, <1>13, <1>19 DEF AInv

\* A backup handles a packet, and goes where it was going.
LEMMA HandledAgrees ==
    ASSUME IInv, AInv, NEW b \in Backup, BackupApplies(b)
    PROVE  AInv'
<1>1. /\ UNCHANGED <<others, log, thread, sync, copy, masterFile, told, overlapped, overtaken,
                     crashed, late>>
      /\ done' = [done EXCEPT ![b] = @ + 1] /\ done[b] < Len(log[b])
      /\ dir' = IF log[b][done[b] + 1] \in Device THEN [dir EXCEPT ![b] = TRUE] ELSE dir
      /\ replica' = Replicated(b, log[b][done[b] + 1])
  BY DEF BackupApplies, masterVars, syncVars
<1>2. /\ TypeOK /\ done \in [Backup -> Nat] /\ dir \in [Backup -> BOOLEAN]
      /\ replica \in [Backup -> Content] /\ \A i \in DOMAIN others : others[i] \in Backup
  BY Basics DEF IInv, TypeOK
<1>3. \A c \in Backup : c # b => done'[c] = done[c] /\ dir'[c] = dir[c] /\ replica'[c] = replica[c]
  BY <1>1, <1>2 DEF Replicated
<1>4. LoggedIn
  <2>1. log[b] # << >>
    BY <1>1, <1>2, EmptySeq
  <2>2. QED BY <2>1 DEF AInv, Quiet
<1>5. Led'
  <2>1. SUFFICES ASSUME NEW i \in DOMAIN others, Counts(i)
                 PROVE  /\ log[others[i]] # << >> => log[others[i]][1] \in Device
                        /\ done'[others[i]] > 0 => dir'[others[i]]
    BY <1>1 DEF Led, Counts, Intact, Early, Sure
  <2>2. /\ log[others[i]] # << >> => log[others[i]][1] \in Device
        /\ done[others[i]] > 0 => dir[others[i]]
    BY <2>1 DEF AInv, Led
  <2>3. CASE others[i] # b
    BY <1>2, <1>3, <2>1, <2>2, <2>3
  <2>4. CASE others[i] = b
    <3>1. CASE done[b] > 0
      <4>1. dir'[b]
        BY <1>1, <1>2, <2>2, <2>4, <3>1
      <4>2. QED BY <2>2, <2>4, <4>1
    <3>2. CASE ~(done[b] > 0)
      <4>1. done[b] = 0 /\ log[b] # << >>
        BY <1>1, <1>2, <3>2, EmptySeq
      <4>2. log[b][done[b] + 1] \in Device
        BY <2>2, <2>4, <4>1
      <4>3. dir'[b]
        BY <1>1, <1>2, <4>2
      <4>4. QED BY <2>2, <2>4, <4>3
    <3>3. QED BY <3>1, <3>2
  <2>5. QED BY <2>3, <2>4
<1>6. Current'
  <2>1. OneByOne' => OneByOne
    BY <1>1 DEF OneByOne
  <2>2. ASSUME NEW i \in DOMAIN others, Counts(i), NEW x, WillHold(others[i], x)
        PROVE  WillHold(others[i], x)'
    <3>1. CASE others[i] # b
      BY <1>1, <1>2, <1>3, <2>2, <3>1 DEF WillHold, OnlyLoginsAfter
    <3>2. CASE others[i] = b
      <4>1. /\ log[b] # << >> => log[b][1] \in Device
            /\ done[b] > 0 => dir[b]
        BY <2>2, <3>2 DEF AInv, Led
      <4>2. WillHold(b, x)
        BY <2>2, <3>2
      <4>3. WillHold(b, x)'
        BY <1>2, <4>1, <4>2, HoldsHandled
      <4>4. QED BY <1>1, <3>2, <4>3
    <3>3. QED BY <3>1, <3>2
  <2>3. \A r \in Request, i \in DOMAIN others : Passed(r, i)' <=> Passed(r, i)
    BY <1>1 DEF Passed
  <2>4. ASSUME OneByOne', NEW i \in DOMAIN others, Counts(i)
        PROVE  /\ \A r \in Request : Passed(r, i)' => WillHold(others[i], Effect(r))'
               /\ (\A r \in Request : ~Passed(r, i)') => WillHold(others[i], masterFile)'
    <3>1. /\ \A r \in Request : Passed(r, i) => WillHold(others[i], Effect(r))
          /\ (\A r \in Request : ~Passed(r, i)) => WillHold(others[i], masterFile)
      BY <2>1, <2>4 DEF AInv, Current
    <3>2. WillHold(others[i], masterFile) => WillHold(others[i], masterFile)'
      <4>1. PICK x : x = masterFile
        OBVIOUS
      <4>2. WillHold(others[i], x) => WillHold(others[i], x)'
        BY <2>2, <2>4
      <4>3. QED BY <1>1, <4>1, <4>2
    <3>3. QED BY <2>2, <2>3, <2>4, <3>1, <3>2
  <2>5. QED BY <1>1, <2>4 DEF Current, Counts, Intact, Early, Sure
<1>7. Ordered' /\ Alone' /\ Silent'
  BY <1>1 DEF AInv, Ordered, Alone, Silent, Started, Early, InFlight
<1>8. Quiet'
  BY <1>1, <1>4 DEF Quiet, LoggedIn
<1>9. Applied' /\ Told'
  BY <1>1 DEF AInv, Applied, Told, OneByOne, Owes, Effective, UpToDate
<1>10. QED BY <1>5, <1>6, <1>7, <1>8, <1>9 DEF AInv

-----------------------------------------------------------------------------
LEMMA InitAgrees == Init => AInv
<1> SUFFICES ASSUME Init PROVE AInv
  OBVIOUS
<1>1. \A j \in Job : thread[j].pc = "none"
  BY DEF Init
<1>2. others = << >> /\ DOMAIN others = {} /\ \A d \in Device : sync[d] = "no" /\ told[d] = None
  BY DEF Init
<1>3. Ordered /\ Silent
  BY <1>1, <1>2 DEF Ordered, Started, Job, Silent
<1>4. Quiet
  BY DEF Init, Quiet
<1>5. Alone
  BY <1>1 DEF Alone, InFlight, Job
<1>6. Led /\ Current
  BY <1>2 DEF Led, Current
<1>7. Applied
  BY <1>1 DEF Applied, Job
<1>8. Told
  BY <1>2 DEF Told, UpToDate
<1>9. QED BY <1>3, <1>4, <1>5, <1>6, <1>7, <1>8 DEF AInv

LEMMA NextAgrees == IInv /\ AInv /\ [Next]_vars => AInv'
<1> SUFFICES ASSUME IInv, AInv, [Next]_vars PROVE AInv'
  OBVIOUS
<1>1. ASSUME NEW j \in Job, Handles(j) PROVE AInv'
  <2>1. CASE Forwards(j)
    BY <2>1, ForwardsAgrees
  <2>2. CASE ForwardsAstray(j)
    BY <2>2, AstrayAgrees
  <2>3. CASE ForwardsLast(j)
    BY <2>3, LoopEndAgrees DEF ForwardsLast, syncVars, backupVars
  <2>4. QED BY <1>1, <2>1, <2>2, <2>3, ReceivesAgrees, AnswersAgrees DEF Handles
<1>2. ASSUME NEW r \in Request, HandlesRequest(r) PROVE AInv'
  BY <1>2, AppliesAgrees, TellsAgrees, TellsLastAgrees DEF HandlesRequest
<1>3. ASSUME NEW d \in Device, SyncLists(d) \/ SyncReads(d) \/ SyncSends(d) PROVE AInv'
  BY <1>3, SyncsAgrees
<1>4. ASSUME NEW b \in Backup, BackupJoins(b) \/ BackupApplies(b) PROVE AInv'
  BY <1>4, JoinsAgrees, HandledAgrees
<1>5. CASE MasterStops \/ (\E b \in Backup : BackupCrashes(b)) \/ UNCHANGED vars
  BY <1>5, CrashAgrees
<1>6. QED BY <1>1, <1>2, <1>3, <1>4, <1>5 DEF Next

\* What every backup that counts is going to hold, throughout.
THEOREM Agreement == Spec => []AInv
<1>1. IInv /\ AInv /\ [Next]_vars => AInv'
  BY NextAgrees
<1>2. QED BY <1>1, InitAgrees, Invariance, PTL DEF Spec

\* A backup that has handled all that was written to it has what it was going to.
LEMMA DrainedHolds ==
    ASSUME TypeOK, NEW b \in Backup, done[b] = Len(log[b]), NEW x, WillHold(b, x)
    PROVE  replica[b] = x
<1>1. DOMAIN log[b] = 1 .. Len(log[b]) /\ Len(log[b]) \in Nat
  BY Basics
<1>2. QED BY <1>1 DEF WillHold

\* Requests that come one by one leave the same file on the master, on the
\* backups that joined before the first login, and on the devices.
THEOREM OneByOneAgrees == Spec => []AgreeUnlessRaced
<1>1. IInv /\ AInv => AgreeUnlessRaced
  <2> SUFFICES ASSUME IInv, AInv, Drained, OneByOne, \A j \in Job : ~InFlight(j)
               PROVE  /\ \A i \in DOMAIN others :
                            Counts(i) => replica[others[i]] = masterFile
                      /\ \A d \in Device \ overtaken : sync[d] = "done" => told[d] = masterFile
    BY DEF AgreeUnlessRaced, Counts, Early
  <2>1. TypeOK /\ Request \subseteq Job /\ DOMAIN others = 1 .. Len(others)
        /\ \A i \in DOMAIN others : others[i] \in Backup
    BY Basics DEF IInv
  <2>2. \A r \in Request : ~InFlight(r)
    BY <2>1
  <2>3. ASSUME NEW i \in DOMAIN others, Counts(i)
        PROVE  replica[others[i]] = masterFile
    <3>1. \A r \in Request : ~Passed(r, i)
      BY <2>2 DEF Passed, InFlight
    <3>2. WillHold(others[i], masterFile)
      BY <2>3, <3>1 DEF AInv, Current
    <3>3. others[i] \notin crashed
      BY <2>1, <2>3 DEF Counts, Intact
    <3>4. done[others[i]] = Len(log[others[i]])
      BY <2>1, <3>3 DEF Drained
    <3>5. QED BY <2>1, <3>2, <3>4, DrainedHolds
  <2>4. ASSUME NEW d \in Device \ overtaken, sync[d] = "done" PROVE told[d] = masterFile
    <3>1. \A r \in Request : ~Owes(r, d)
      BY <2>2 DEF Owes, InFlight
    <3>2. QED BY <2>4, <3>1 DEF AInv, Told, UpToDate
  <2>5. QED BY <2>3, <2>4
<1>2. QED BY <1>1, Invariance, Agreement, PTL

\* The first backup succeeds a master that stops: it is left with the master's
\* file, or with that of the request the master was handling.
THEOREM SuccessorHasFile == Spec => []SuccessorIsCurrent
<1>1. IInv /\ AInv => SuccessorIsCurrent
  <2> SUFFICES ASSUME IInv, AInv, Drained, OneByOne, others # << >>, Counts(1)
               PROVE  \/ replica[others[1]] = masterFile
                      \/ \E r \in Request : thread[r].pc \in {"forward", "apply"}
                                            /\ replica[others[1]] = Effect(r)
    BY DEF SuccessorIsCurrent, Counts, Early
  <2>1. TypeOK /\ others \in Seq(Backup) /\ Len(others) \in Nat /\ DOMAIN others = 1 .. Len(others)
    BY Basics DEF IInv, TypeOK
  <2>2. 1 \in DOMAIN others
    BY <2>1, EmptySeq
  <2>3. others[1] \in Backup /\ done[others[1]] = Len(log[others[1]])
    BY <2>1, <2>2, Basics DEF Drained, Counts, Intact
  <2>4. /\ \A r \in Request : Passed(r, 1) => WillHold(others[1], Effect(r))
        /\ (\A r \in Request : ~Passed(r, 1)) => WillHold(others[1], masterFile)
    BY <2>2 DEF AInv, Current
  <2>5. CASE \A r \in Request : ~Passed(r, 1)
    BY <2>1, <2>3, <2>4, <2>5, DrainedHolds
  <2>6. ASSUME NEW r \in Request, Passed(r, 1)
        PROVE  thread[r].pc \in {"forward", "apply"} /\ replica[others[1]] = Effect(r)
    BY <2>1, <2>3, <2>4, <2>6, DrainedHolds DEF Passed
  <2>7. QED BY <2>5, <2>6
<1>2. QED BY <1>1, Invariance, Agreement, PTL
=============================================================================
