-------------------------- MODULE RingElectionProofs --------------------------
(***************************************************************************)
(* The safety of the voting round for every number of backups, every        *)
(* interleaving of their votes and every number of crashes.                *)
(*                                                                         *)
(* The argument: a vote that has come as far as backup i and is not yet an  *)
(* announcement carries an id below i, unless i is 0, where the ring closes;*)
(* so only 0 can meet its own id, only 0 announces, and only the backup     *)
(* after 0 ever reads an announcement.                                     *)
(***************************************************************************)
EXTENDS RingElection, SequenceTheorems, TLAPS

InRound == {"connect", "accept", "redial", "voting", "relaunch"}

\* What a vote on its way to i can be
VoteOK(i, v) ==
    /\ v.addr = v.id
    /\ v.seqn = 0 => i = 0 \/ v.id < i
    /\ v.seqn = 1 => i = Adjacent(0) /\ v.id = 0 /\ is_master[0]

VotesOK == \A i \in Backup : \A k \in DOMAIN votes[i] : VoteOK(i, votes[i][k])

RoundNeedsTwo == \A i \in Backup : pc[i] \in InRound => N > 1

MasterOK ==
    \A i \in Backup : is_master[i] => i = 0 /\ pc[i] \in {"master", "dead"}

FollowerOK ==
    \A i \in Backup : new_master[i] # None =>
        /\ i = Adjacent(0) /\ i # 0
        /\ new_master[i] = 0 /\ is_master[0]
        /\ pc[i] \in {"relaunch", "dead"}

\* The inductive invariant
IInv == TypeOK /\ RoundNeedsTwo /\ VotesOK /\ MasterOK /\ FollowerOK

-----------------------------------------------------------------------------
\* The ring is a permutation of the backups, and 0 is one of them.
LEMMA RingFacts ==
    /\ N \in Nat /\ N > 0 /\ 0 \in Backup /\ Backup \subseteq Nat
    /\ None \notin Backup
    /\ \A i \in Backup : Adjacent(i) \in Backup
    /\ \A i \in Backup : Adjacent(i) = 0 \/ i < Adjacent(i)
BY ConstantsAssumption DEF Backup, Adjacent

\* Reading and passing on leaves every stream a sequence of votes.
LEMMA AnswerTyped ==
    ASSUME TypeOK, NEW i \in Backup, votes[i] # << >>, NEW v \in Vote, Answer(i, v)
    PROVE  votes' \in [Backup -> Seq(Vote)]
<1>1. Tail(votes[i]) \in Seq(Vote)
  BY HeadTailProperties DEF TypeOK
<1>2. Arriving(i, v) \in Seq(Vote)
  <2>1. votes[Adjacent(i)] \in Seq(Vote)
    BY RingFacts DEF TypeOK
  <2>2. Append(votes[Adjacent(i)], v) \in Seq(Vote)
    BY <2>1, AppendProperties
  <2>3. QED BY <2>1, <2>2 DEF Arriving
<1>3. QED BY <1>1, <1>2, RingFacts DEF TypeOK, Answer

\* A stream after a write holds what it held, and what was written if it is
\* the stream to the adjacent backup.
LEMMA ArrivingHolds ==
    ASSUME TypeOK, NEW i \in Backup, NEW v \in Vote,
           NEW k \in DOMAIN Arriving(i, v)
    PROVE  \/ k \in DOMAIN votes[Adjacent(i)]
              /\ Arriving(i, v)[k] = votes[Adjacent(i)][k]
           \/ Arriving(i, v)[k] = v
<1> DEFINE s == votes[Adjacent(i)]
<1>1. s \in Seq(Vote)
  BY RingFacts DEF TypeOK
<1>2. CASE pc[Adjacent(i)] = "dead"
  BY <1>2 DEF Arriving
<1>3. CASE pc[Adjacent(i)] # "dead"
  <2>1. Arriving(i, v) = Append(s, v)
    BY <1>3 DEF Arriving
  <2>2. /\ Len(s) \in Nat /\ DOMAIN s = 1 .. Len(s)
        /\ DOMAIN Append(s, v) = 1 .. Len(s) + 1
        /\ \A n \in 1 .. Len(s) : Append(s, v)[n] = s[n]
        /\ Append(s, v)[Len(s) + 1] = v
    BY <1>1, AppendProperties, LenProperties
  <2>3. k \in 1 .. Len(s) \/ k = Len(s) + 1
    BY <2>1, <2>2
  <2>4. QED BY <2>1, <2>2, <2>3
<1>4. QED BY <1>2, <1>3

\* After an answer every vote on its way is an old one or the answer.
LEMMA AnswerHolds ==
    ASSUME TypeOK, NEW i \in Backup, votes[i] # << >>, NEW v \in Vote,
           Answer(i, v), NEW j \in Backup, NEW k \in DOMAIN votes'[j]
    PROVE  \/ \E n \in DOMAIN votes[j] : votes'[j][k] = votes[j][n]
           \/ j = Adjacent(i) /\ votes'[j][k] = v
<1>1. CASE j = Adjacent(i)
  <2>1. votes'[j] = Arriving(i, v)
    BY <1>1, RingFacts DEF Answer, TypeOK
  <2>2. QED BY <1>1, <2>1, ArrivingHolds
<1>2. CASE j # Adjacent(i) /\ j = i
  <2>1. votes'[j] = Tail(votes[i])
    BY <1>2, RingFacts DEF Answer, TypeOK
  <2>2. votes[i] \in Seq(Vote)
    BY DEF TypeOK
  <2>3. /\ Len(votes[i]) \in Nat /\ DOMAIN votes[i] = 1 .. Len(votes[i])
        /\ Len(Tail(votes[i])) = Len(votes[i]) - 1
        /\ \A n \in 1 .. Len(Tail(votes[i])) : Tail(votes[i])[n] = votes[i][n + 1]
    BY <2>2, HeadTailProperties, LenProperties
  <2>4. DOMAIN Tail(votes[i]) = 1 .. Len(Tail(votes[i]))
    BY <2>2, HeadTailProperties, LenProperties
  <2>5. /\ k \in 1 .. Len(Tail(votes[i])) /\ k + 1 \in DOMAIN votes[i]
        /\ votes'[j][k] = votes[i][k + 1]
    BY <2>1, <2>3, <2>4
  <2>6. QED BY <1>2, <2>5
<1>3. CASE j # Adjacent(i) /\ j # i
  <2>1. votes'[j] = votes[j]
    BY <1>3, RingFacts DEF Answer, TypeOK
  <2>2. QED BY <2>1
<1>4. QED BY <1>1, <1>2, <1>3

\* What a backup reads is a vote, and is as the invariant says.
LEMMA HeadHolds ==
    ASSUME TypeOK, VotesOK, NEW i \in Backup, votes[i] # << >>
    PROVE  Head(votes[i]) \in Vote /\ VoteOK(i, Head(votes[i]))
<1>1. votes[i] \in Seq(Vote)
  BY DEF TypeOK
<1>2. Head(votes[i]) \in Vote /\ Head(votes[i]) = votes[i][1] /\ 1 \in DOMAIN votes[i]
  BY <1>1, HeadTailProperties, LenProperties, EmptySeq
<1>3. QED BY <1>2 DEF VotesOK

\* If what is on its way afterwards was on its way before or is the answer v,
\* and no master resigns, the votes stay as the invariant says.
LEMMA VotesStayOK ==
    ASSUME TypeOK, VotesOK, NEW i \in Backup, NEW v,
           is_master[0] => is_master'[0],
           VoteOK(Adjacent(i), v)',
           \A j \in Backup : \A k \in DOMAIN votes'[j] :
               \/ \E n \in DOMAIN votes[j] : votes'[j][k] = votes[j][n]
               \/ j = Adjacent(i) /\ votes'[j][k] = v
    PROVE  VotesOK'
<1> SUFFICES ASSUME NEW j \in Backup, NEW k \in DOMAIN votes'[j]
             PROVE  VoteOK(j, votes[j][k])'
  BY DEF VotesOK
<1>1. CASE j = Adjacent(i) /\ votes'[j][k] = v
  BY <1>1
<1>2. CASE \E n \in DOMAIN votes[j] : votes'[j][k] = votes[j][n]
  BY <1>2 DEF VotesOK, VoteOK
<1>3. QED BY <1>1, <1>2

\* The three answers that are not announcements, and the end of the vote,
\* preserve the invariant on the votes.
LEMMA OwnVoteOK ==
    ASSUME NEW i \in Backup PROVE MyVote(i) \in Vote /\ VoteOK(Adjacent(i), MyVote(i))
BY ConstantsAssumption DEF MyVote, Vote, VoteOK, Adjacent, Backup

-----------------------------------------------------------------------------
LEMMA InitIInv == Init => IInv
<1> SUFFICES ASSUME Init PROVE IInv
  OBVIOUS
<1>1. TypeOK
  BY ConstantsAssumption DEF Init, TypeOK, Location, Backup, Vote
<1>2. RoundNeedsTwo /\ MasterOK /\ FollowerOK
  BY DEF Init, RoundNeedsTwo, InRound, MasterOK, FollowerOK
<1>3. VotesOK
  BY DEF Init, VotesOK
<1>4. QED BY <1>1, <1>2, <1>3 DEF IInv

\* A step that writes no vote and makes no decision.
LEMMA SilentStep ==
    ASSUME IInv, NEW i \in Backup, NEW loc \in Location, Goto(i, loc),
           UNCHANGED <<is_master, votes, new_master>>,
           connected' \in [Backup -> BOOLEAN], crashes' \in 0 .. MaxCrashes,
           loc \in InRound => N > 1,
           is_master[i] => loc = "dead",
           new_master[i] # None => loc = "dead"
    PROVE  IInv'
<1>1. TypeOK'
  BY DEF IInv, TypeOK, Goto
<1>2. RoundNeedsTwo' /\ MasterOK' /\ FollowerOK'
  BY DEF IInv, TypeOK, RoundNeedsTwo, MasterOK, FollowerOK, Goto, InRound
<1>3. VotesOK'
  BY DEF IInv, VotesOK, VoteOK
<1>4. QED BY <1>1, <1>2, <1>3 DEF IInv

\* A step that writes the vote v and changes neither the masters nor who
\* follows: it leaves the invariant on the votes if v fits the next stream.
LEMMA AnswerStep ==
    ASSUME IInv, NEW i \in Backup, votes[i] # << >>, NEW v \in Vote, Answer(i, v),
           VoteOK(Adjacent(i), v), UNCHANGED is_master
    PROVE  votes' \in [Backup -> Seq(Vote)] /\ VotesOK'
<1>1. votes' \in [Backup -> Seq(Vote)]
  BY AnswerTyped DEF IInv
<1>2. VoteOK(Adjacent(i), v)'
  BY DEF VoteOK
<1>3. \A j \in Backup : \A k \in DOMAIN votes'[j] :
        \/ \E n \in DOMAIN votes[j] : votes'[j][k] = votes[j][n]
        \/ j = Adjacent(i) /\ votes'[j][k] = v
  BY AnswerHolds DEF IInv
<1>4. VotesOK'
  BY <1>2, <1>3, VotesStayOK DEF IInv
<1>5. QED BY <1>1, <1>4

LEMMA StepIInv == IInv /\ [Next]_vars => IInv'
<1> SUFFICES ASSUME IInv, [Next]_vars PROVE IInv'
  OBVIOUS
<1> USE RingFacts
<1>1. ASSUME NEW i \in Backup, KeepaliveEnds(i) PROVE IInv'
  <2>1. CASE N = 1
    <3>1. /\ i = 0 /\ is_master' = [is_master EXCEPT ![i] = TRUE] /\ Goto(i, "master")
          /\ UNCHANGED <<connected, votes, new_master, crashes>>
      BY <1>1, <2>1 DEF KeepaliveEnds, Backup
    <3>2. TypeOK'
      BY <3>1 DEF IInv, TypeOK, Goto, Location
    <3>3. RoundNeedsTwo' /\ MasterOK' /\ FollowerOK'
      BY <3>1, <1>1 DEF IInv, TypeOK, RoundNeedsTwo, MasterOK, FollowerOK, Goto,
                   InRound, KeepaliveEnds
    <3>4. VotesOK'
      BY <3>1 DEF IInv, TypeOK, VotesOK, VoteOK
    <3>5. QED BY <3>2, <3>3, <3>4 DEF IInv
  <2>2. CASE N # 1
    <3>1. /\ pc[i] = "keepalive" /\ Goto(i, "connect") /\ N > 1
          /\ UNCHANGED <<is_master, connected, votes, new_master, crashes>>
      BY <1>1, <2>2 DEF KeepaliveEnds
    <3>2. QED BY <3>1, SilentStep DEF IInv, TypeOK, MasterOK, FollowerOK, Location
  <2>3. QED BY <2>1, <2>2
<1>2. ASSUME NEW i \in Backup, Connect(i) PROVE IInv'
  <2>1. "connect" \in InRound /\ N > 1
    BY <1>2 DEF IInv, Connect, RoundNeedsTwo, InRound
  <2>2. QED
    BY <1>2, <2>1, SilentStep DEF Connect, IInv, TypeOK, MasterOK, FollowerOK, Location
<1>3. ASSUME NEW i \in Backup, ConnectRefused(i) PROVE IInv'
  <2>1. N > 1
    BY <1>3 DEF IInv, ConnectRefused, RoundNeedsTwo, InRound
  <2>2. QED
    BY <1>3, <2>1, SilentStep
       DEF ConnectRefused, IInv, TypeOK, MasterOK, FollowerOK, Location
<1>4. ASSUME NEW i \in Backup, RedialFails(i) PROVE IInv'
  BY <1>4, SilentStep DEF RedialFails, IInv, TypeOK, Location, InRound
<1>5. ASSUME NEW i \in Backup, AcceptAndVote(i) PROVE IInv'
  <2>1. /\ pc[i] = "accept" /\ N > 1
        /\ votes' = [votes EXCEPT ![Adjacent(i)] = Arriving(i, MyVote(i))]
        /\ Goto(i, "voting") /\ UNCHANGED <<is_master, connected, new_master, crashes>>
    BY <1>5 DEF IInv, AcceptAndVote, RoundNeedsTwo, InRound
  <2>2. Arriving(i, MyVote(i)) \in Seq(Vote)
    <3>1. votes[Adjacent(i)] \in Seq(Vote) /\ MyVote(i) \in Vote
      BY OwnVoteOK DEF IInv, TypeOK
    <3>2. QED BY <3>1, AppendProperties DEF Arriving
  <2>3. votes' \in [Backup -> Seq(Vote)]
    BY <2>1, <2>2 DEF IInv, TypeOK
  <2>4. TypeOK'
    BY <2>1, <2>3 DEF IInv, TypeOK, Goto, Location
  <2>5. \A j \in Backup : \A k \in DOMAIN votes'[j] :
          \/ \E n \in DOMAIN votes[j] : votes'[j][k] = votes[j][n]
          \/ j = Adjacent(i) /\ votes'[j][k] = MyVote(i)
    <3>1. TAKE j \in Backup
    <3>2. TAKE k \in DOMAIN votes'[j]
    <3>3. CASE j = Adjacent(i)
      <4>1. votes'[j] = Arriving(i, MyVote(i))
        BY <2>1, <3>3 DEF IInv, TypeOK
      <4>2. QED BY <3>3, <4>1, ArrivingHolds, OwnVoteOK DEF IInv
    <3>4. CASE j # Adjacent(i)
      BY <2>1, <3>4 DEF IInv, TypeOK
    <3>5. QED BY <3>3, <3>4
  <2>6. VoteOK(Adjacent(i), MyVote(i))'
    BY <2>1, OwnVoteOK DEF VoteOK
  <2>7. VotesOK'
    BY <2>1, <2>5, <2>6, VotesStayOK DEF IInv
  <2>8. RoundNeedsTwo' /\ MasterOK' /\ FollowerOK'
    BY <2>1 DEF IInv, TypeOK, RoundNeedsTwo, MasterOK, FollowerOK, Goto, InRound
  <2>9. QED BY <2>4, <2>7, <2>8 DEF IInv
<1>6. ASSUME NEW i \in Backup, Win(i) PROVE IInv'
  <2>0. PICK v : v = [Head(votes[i]) EXCEPT !.seqn = 1]
    OBVIOUS
  <2>1. /\ pc[i] = "voting" /\ votes[i] # << >> /\ Answer(i, v) /\ Goto(i, "master")
        /\ is_master' = [is_master EXCEPT ![i] = TRUE]
        /\ UNCHANGED <<connected, new_master, crashes>>
        /\ Head(votes[i]).seqn = 0 /\ Head(votes[i]).id = i
    BY <1>6, <2>0 DEF Win, Reads
  <2>2. Head(votes[i]) \in Vote /\ VoteOK(i, Head(votes[i]))
    BY <2>1, HeadHolds DEF IInv
  <2>3. i = 0
    BY <2>1, <2>2 DEF VoteOK
  <2>4. v \in Vote /\ v.seqn = 1 /\ v.id = 0 /\ v.addr = 0
    BY <2>0, <2>1, <2>2, <2>3 DEF Vote, VoteOK
  <2>5. TypeOK'
    BY <2>1, <2>4, AnswerTyped DEF IInv, TypeOK, Goto, Location
  <2>6. is_master'[0]
    BY <2>1, <2>3 DEF IInv, TypeOK
  <2>7. VoteOK(Adjacent(i), v)'
    BY <2>3, <2>4, <2>6 DEF VoteOK
  <2>8. \A j \in Backup : \A k \in DOMAIN votes'[j] :
          \/ \E n \in DOMAIN votes[j] : votes'[j][k] = votes[j][n]
          \/ j = Adjacent(i) /\ votes'[j][k] = v
    BY <2>1, <2>4, AnswerHolds DEF IInv
  <2>9. VotesOK'
    BY <2>4, <2>6, <2>7, <2>8, VotesStayOK DEF IInv
  <2>10. RoundNeedsTwo' /\ MasterOK' /\ FollowerOK'
    BY <2>1, <2>3, <2>6
       DEF IInv, TypeOK, RoundNeedsTwo, MasterOK, FollowerOK, Goto, InRound
  <2>11. QED BY <2>5, <2>9, <2>10 DEF IInv
<1>7. ASSUME NEW i \in Backup, Outbid(i) \/ Relay(i) PROVE IInv'
  <2>1. PICK v \in Vote : Answer(i, v) /\ VoteOK(Adjacent(i), v)
    <3>1. Head(votes[i]) \in Vote /\ VoteOK(i, Head(votes[i]))
      BY <1>7, HeadHolds DEF IInv, Outbid, Relay, Reads
    <3>2. CASE Outbid(i)
      BY <3>2, OwnVoteOK DEF Outbid
    <3>3. CASE Relay(i)
      <4>1. /\ Head(votes[i]).seqn = 0 /\ Head(votes[i]).id < i
            /\ Answer(i, Head(votes[i]))
        <5>1. Head(votes[i]).id \in Backup
          BY <3>1 DEF Vote
        <5>2. QED BY <3>3, <5>1 DEF Relay
      <4>2. Adjacent(i) = 0 \/ Head(votes[i]).id < Adjacent(i)
        <5>1. Head(votes[i]).id \in Nat /\ i \in Nat /\ Adjacent(i) \in Nat
          BY <3>1 DEF Vote
        <5>2. QED BY <4>1, <5>1
      <4>3. VoteOK(Adjacent(i), Head(votes[i]))
        BY <3>1, <4>1, <4>2 DEF VoteOK
      <4>4. QED BY <3>1, <4>1, <4>3
    <3>4. QED BY <1>7, <3>2, <3>3
  <2>2. votes[i] # << >> /\ UNCHANGED <<pc, is_master, connected, new_master, crashes>>
    BY <1>7 DEF Outbid, Relay, Reads
  <2>3. votes' \in [Backup -> Seq(Vote)] /\ VotesOK'
    BY <2>1, <2>2, AnswerStep
  <2>4. TypeOK' /\ RoundNeedsTwo' /\ MasterOK' /\ FollowerOK'
    BY <2>2, <2>3 DEF IInv, TypeOK, RoundNeedsTwo, MasterOK, FollowerOK
  <2>5. QED BY <2>3, <2>4 DEF IInv
<1>8. ASSUME NEW i \in Backup, VoteEnds(i) PROVE IInv'
  <2>1. /\ pc[i] = "voting" /\ votes[i] # << >> /\ Answer(i, MyVote(i))
        /\ Goto(i, "relaunch") /\ UNCHANGED <<is_master, connected, crashes>>
        /\ new_master' = [new_master EXCEPT ![i] = Head(votes[i]).addr]
        /\ Head(votes[i]).seqn = 1
    BY <1>8 DEF VoteEnds, Reads
  <2>2. Head(votes[i]) \in Vote /\ VoteOK(i, Head(votes[i]))
    BY <2>1, HeadHolds DEF IInv
  <2>3. N > 1
    BY <2>1 DEF IInv, RoundNeedsTwo, InRound
  <2>4. i = Adjacent(0) /\ i # 0 /\ Head(votes[i]).addr = 0 /\ is_master[0]
    BY <2>1, <2>2, <2>3, ConstantsAssumption DEF VoteOK, Adjacent, Backup
  <2>5. votes' \in [Backup -> Seq(Vote)] /\ VotesOK'
    BY <2>1, OwnVoteOK, AnswerStep
  <2>6. TypeOK'
    BY <2>1, <2>4, <2>5 DEF IInv, TypeOK, Goto, Location
  <2>7. RoundNeedsTwo' /\ MasterOK' /\ FollowerOK'
    BY <2>1, <2>3, <2>4
       DEF IInv, TypeOK, RoundNeedsTwo, MasterOK, FollowerOK, Goto, InRound
  <2>8. QED BY <2>5, <2>6, <2>7 DEF IInv
<1>9. ASSUME NEW i \in Backup, EndOfStream(i) \/ BrokenPipe(i) PROVE IInv'
  BY <1>9, SilentStep DEF EndOfStream, BrokenPipe, IInv, TypeOK, Location, InRound
<1>10. ASSUME NEW i \in Backup, Crash(i) PROVE IInv'
  <2>1. crashes' \in 0 .. MaxCrashes
    BY <1>10, ConstantsAssumption DEF Crash, IInv, TypeOK
  <2>2. QED BY <1>10, <2>1, SilentStep DEF Crash, IInv, TypeOK, Location, InRound
<1>11. CASE UNCHANGED vars
  BY <1>11 DEF vars, IInv, TypeOK, RoundNeedsTwo, VotesOK, VoteOK, MasterOK, FollowerOK
<1>12. QED
  BY <1>1, <1>2, <1>3, <1>4, <1>5, <1>6, <1>7, <1>8, <1>9, <1>10, <1>11
     DEF Next, Step

-----------------------------------------------------------------------------
LEMMA Invariance == Spec => []IInv
BY InitIInv, StepIInv, PTL DEF Spec

\* Type correctness of the voting round.
THEOREM TypeCorrect == Spec => []TypeOK
BY Invariance, PTL DEF IInv

\* For every ring, every interleaving and every crash, nobody but backup 0 is
\* ever the master (the comparison of ids in InternalRouter::start).
THEOREM OnlyTheLowestWins == Spec => []LowestIdWins
<1>1. IInv => LowestIdWins
  BY DEF IInv, MasterOK, LowestIdWins
<1>2. QED BY <1>1, Invariance, PTL

\* Whoever relaunches does so against a backup that is the master.
THEOREM FollowersAgree == Spec => []AgreeOnMaster
<1>1. IInv => AgreeOnMaster
  BY DEF IInv, FollowerOK, AgreeOnMaster
<1>2. QED BY <1>1, Invariance, PTL

\* In a ring of any size only the backup after the master ever hears that the
\* vote is over: my_vote is written where p was meant.
THEOREM OnlySuccessorIsTold == Spec => []AnnouncementStopsAtSuccessor
<1>1. IInv => AnnouncementStopsAtSuccessor
  BY DEF IInv, FollowerOK, AnnouncementStopsAtSuccessor
<1>2. QED BY <1>1, Invariance, PTL

-----------------------------------------------------------------------------
\* Under the invariant the leader of the abstract election is backup 0 or nobody.
LEMMA LeaderIs == IInv => Leader = IF is_master[0] THEN 0 ELSE None
<1> SUFFICES ASSUME IInv PROVE Leader = IF is_master[0] THEN 0 ELSE None
  OBVIOUS
<1>1. \A i \in Backup : is_master[i] => i = 0
  BY DEF IInv, MasterOK
<1>2. CASE is_master[0]
  BY <1>1, <1>2, RingFacts DEF Leader
<1>3. CASE ~is_master[0]
  BY <1>1, <1>3 DEF Leader
<1>4. QED BY <1>2, <1>3

\* A step that makes nobody the master and gives no backup a new one is a
\* stutter of the election.
LEMMA Stutters ==
    ASSUME UNCHANGED <<is_master, new_master>>
    PROVE  UNCHANGED <<Leader, new_master>>
BY DEF Leader

LEMMA StepRefines ==
    ASSUME IInv, [Next]_vars
    PROVE  Election!Next \/ UNCHANGED <<Leader, new_master>>
<1> USE RingFacts
<1>1. Leader = IF is_master[0] THEN 0 ELSE None
  BY LeaderIs
<1>2. IInv'
  BY StepIInv
<1>3. Leader' = IF is_master'[0] THEN 0 ELSE None
  <2>1. (\A i \in Backup : is_master[i] => i = 0)'
    BY <1>2 DEF IInv, MasterOK
  <2>2. CASE is_master'[0]
    BY <2>1, <2>2 DEF Leader
  <2>3. CASE ~is_master'[0]
    BY <2>1, <2>3 DEF Leader
  <2>4. QED BY <2>2, <2>3
<1>4. ASSUME NEW i \in Backup, is_master' = [is_master EXCEPT ![i] = TRUE],
             UNCHANGED new_master, ~is_master[0]
      PROVE  Election!Elect(i)
  <2>1. is_master'[i]
    BY <1>4 DEF IInv, TypeOK
  <2>2. i = 0
    BY <1>2, <2>1 DEF IInv, MasterOK
  <2>3. QED BY <1>1, <1>3, <1>4, <2>1, <2>2 DEF Election!Elect
<1>5. ASSUME NEW i \in Backup, KeepaliveEnds(i)
      PROVE  Election!Next \/ UNCHANGED <<Leader, new_master>>
  <2>1. CASE N = 1
    <3>1. i = 0 /\ ~is_master[0]
      BY <1>5, <2>1 DEF KeepaliveEnds, Backup, IInv, MasterOK
    <3>2. QED BY <1>4, <1>5, <2>1, <3>1 DEF KeepaliveEnds, Election!Next
  <2>2. CASE N # 1
    BY <1>5, <2>2, Stutters DEF KeepaliveEnds
  <2>3. QED BY <2>1, <2>2
<1>6. ASSUME NEW i \in Backup, Win(i) PROVE Election!Next
  <2>1. ~is_master[i] /\ is_master' = [is_master EXCEPT ![i] = TRUE]
        /\ UNCHANGED new_master
    BY <1>6 DEF Win, Reads, IInv, MasterOK
  <2>2. is_master'[i]
    BY <2>1 DEF IInv, TypeOK
  <2>3. i = 0
    BY <1>2, <2>2 DEF IInv, MasterOK
  <2>4. QED BY <1>4, <2>1, <2>3 DEF Election!Next
<1>7. ASSUME NEW i \in Backup, VoteEnds(i) PROVE Election!Next
  <2>1. /\ new_master[i] = None /\ Head(votes[i]).addr \in Backup
        /\ new_master' = [new_master EXCEPT ![i] = Head(votes[i]).addr]
        /\ UNCHANGED is_master
    <3>1. Head(votes[i]) \in Vote
      BY <1>7, HeadHolds DEF VoteEnds, Reads, IInv
    <3>2. QED BY <1>7, <3>1 DEF VoteEnds, Reads, IInv, FollowerOK, Vote
  <2>2. new_master'[i] \in Backup /\ new_master'[i] = Head(votes[i]).addr
    BY <2>1 DEF IInv, TypeOK
  <2>3. i # 0 /\ Head(votes[i]).addr = 0 /\ is_master[0]
    BY <1>2, <2>1, <2>2 DEF IInv, FollowerOK
  <2>4. Election!Follow(i)
    BY <1>1, <1>3, <2>1, <2>3 DEF Election!Follow
  <2>5. QED BY <2>4 DEF Election!Next
<1>8. ASSUME NEW i \in Backup,
             \/ Connect(i) \/ ConnectRefused(i) \/ RedialFails(i) \/ AcceptAndVote(i)
             \/ Outbid(i) \/ Relay(i) \/ EndOfStream(i) \/ BrokenPipe(i) \/ Crash(i)
      PROVE  UNCHANGED <<Leader, new_master>>
  <2>1. UNCHANGED <<is_master, new_master>>
    BY <1>8 DEF Connect, ConnectRefused, RedialFails, AcceptAndVote, Outbid, Relay,
                EndOfStream, BrokenPipe, Crash
  <2>2. QED BY <2>1, Stutters
<1>9. CASE UNCHANGED vars
  BY <1>9, Stutters DEF vars
<1>10. QED BY <1>5, <1>6, <1>7, <1>8, <1>9 DEF Next, Step

\* The voting round implements the abstract election: a decision is made once,
\* by one backup, and followers follow that one.
THEOREM Refinement == Spec => ElectsOneLeader
<1>1. Init => Election!Init
  BY DEF Init, Election!Init, Leader
<1>2. IInv /\ [Next]_vars => [Election!Next]_(Election!vars)
  BY StepRefines DEF Election!vars
<1>3. QED BY <1>1, <1>2, Invariance, PTL DEF Spec, ElectsOneLeader, Election!Spec
=============================================================================
