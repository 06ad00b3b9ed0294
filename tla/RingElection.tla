---------------------------- MODULE RingElection ----------------------------
(***************************************************************************)
(* The voting round that the backups run once their keepalive thread has   *)
(* returned: InternalRouter::start, internal_router.cpp.  Every backup     *)
(* opens a stream to its adjacent backup, accepts the stream of the one    *)
(* before it, writes a VOTE with its own id, and then answers each VOTE it *)
(* reads.  Ids and adjacency are those the join protocol gives out (module *)
(* RingJoin): the k-th backup has id k and the last one closes the ring.   *)
(*                                                                         *)
(* A process that dies has its streams closed by the kernel: the next      *)
(* backup reads what was written and then the end of the stream.           *)
(***************************************************************************)
EXTENDS Integers, Sequences

CONSTANTS N,          \* how many backups had joined the master that is gone
          MaxCrashes, \* bound: how many backups crash during the round
          None        \* "no address"

ASSUME ConstantsAssumption ==
    /\ N \in Nat \ {0}
    /\ MaxCrashes \in Nat
    /\ None \notin 0 .. N - 1

Backup == 0 .. N - 1

\* get_adjacent(): the address each backup was given by its JOIN_RESP
Adjacent(i) == IF i = N - 1 THEN 0 ELSE i + 1

\* The backup whose stream i accepts
Previous(i) == IF i = 0 THEN N - 1 ELSE i - 1

\* A VOTE packet: seqn, total_size (the id) and payload (the ip:port)
Vote == [seqn : {0, 1}, id : Backup, addr : Backup]

VARIABLES
    pc,         \* where InternalRouter::start is, for every backup
    is_master,  \* InternalRouter::is_master
    connected,  \* client_socket of i is connected to Adjacent(i)
    votes,      \* the stream from Previous(i) to i: written, not yet read
    new_master, \* the address client_socket was reset to when the vote ended
    crashes     \* how many crashes have happened

vars == <<pc, is_master, connected, votes, new_master, crashes>>

\* "redial" is the catch block around connect_to_server; "master" and
\* "relaunch" are the two ways out of the round.
Location == {"keepalive", "connect", "accept", "redial", "voting",
             "master", "relaunch", "dead"}

TypeOK ==
    /\ pc \in [Backup -> Location]
    /\ is_master \in [Backup -> BOOLEAN]
    /\ connected \in [Backup -> BOOLEAN]
    /\ votes \in [Backup -> Seq(Vote)]
    /\ new_master \in [Backup -> Backup \cup {None}]
    /\ crashes \in 0 .. MaxCrashes

Init ==
    /\ pc = [i \in Backup |-> "keepalive"]
    /\ is_master = [i \in Backup |-> FALSE]
    /\ connected = [i \in Backup |-> FALSE]
    /\ votes = [i \in Backup |-> << >>]
    /\ new_master = [i \in Backup |-> None]
    /\ crashes = 0

Goto(i, loc) == pc' = [pc EXCEPT ![i] = loc]

\* Mutants of my_vote: a wrong id, and the adjacent's address for one's own
MyVoteOffByOne(i) == [seqn |-> 0, id |-> i + 1, addr |-> i]
MyVoteWrongAddress(i) == [seqn |-> 0, id |-> i, addr |-> Adjacent(i)]

MyVote(i) == [seqn |-> 0, id |-> i, addr |-> i]

\* write_packet to the adjacent backup; what is written to a dead one is lost
Arriving(i, v) ==
    IF pc[Adjacent(i)] = "dead" THEN votes[Adjacent(i)]
    ELSE Append(votes[Adjacent(i)], v)

-----------------------------------------------------------------------------
(* Entering the round.                                                     *)

\* The keepalive thread has returned.  A backup that never got a JOIN_RESP
\* has no adjacent and is the master at once.
KeepaliveEnds(i) ==
    /\ pc[i] = "keepalive"
    /\ IF N = 1
       THEN /\ is_master' = [is_master EXCEPT ![i] = TRUE]
            /\ Goto(i, "master")
       ELSE Goto(i, "connect") /\ UNCHANGED is_master
    /\ UNCHANGED <<connected, votes, new_master, crashes>>

\* The listening socket of a live process accepts before accept() is called
Connect(i) ==
    /\ pc[i] = "connect"
    /\ pc[Adjacent(i)] # "dead"
    /\ connected' = [connected EXCEPT ![i] = TRUE]
    /\ Goto(i, "accept")
    /\ UNCHANGED <<is_master, votes, new_master, crashes>>

ConnectRefused(i) ==
    /\ pc[i] = "connect"
    /\ pc[Adjacent(i)] = "dead"
    /\ Goto(i, "redial")
    /\ UNCHANGED <<is_master, connected, votes, new_master, crashes>>

\* The catch block accepts first and connects again; the process that was
\* gone is still gone, and nothing catches the second CONNECT_ERROR.
RedialFails(i) ==
    /\ pc[i] = "redial"
    /\ connected[Previous(i)]
    /\ Goto(i, "dead")
    /\ UNCHANGED <<is_master, connected, votes, new_master, crashes>>

AcceptAndVote(i) ==
    /\ pc[i] = "accept"
    /\ connected[Previous(i)]
    /\ votes' = [votes EXCEPT ![Adjacent(i)] = Arriving(i, MyVote(i))]
    /\ Goto(i, "voting")
    /\ UNCHANGED <<is_master, connected, new_master, crashes>>

-----------------------------------------------------------------------------
(* The loop "while (voting)": one action per branch on the packet read.    *)

Reads(i) == pc[i] = "voting" /\ votes[i] # << >>

\* i consumes the packet it read and writes v to its adjacent backup
Answer(i, v) ==
    votes' = [votes EXCEPT ![i] = Tail(@), ![Adjacent(i)] = Arriving(i, v)]

\* seqn 0 with our own id: it went all the way round
Win(i) ==
    /\ Reads(i)
    /\ Head(votes[i]).seqn = 0
    /\ Head(votes[i]).id = i
    /\ is_master' = [is_master EXCEPT ![i] = TRUE]
    /\ Answer(i, [Head(votes[i]) EXCEPT !.seqn = 1])
    /\ Goto(i, "master")
    /\ UNCHANGED <<connected, new_master, crashes>>

\* Mutant: a greater id is passed on as well
OutbidRelays(i) ==
    /\ Reads(i)
    /\ Head(votes[i]).seqn = 0
    /\ i < Head(votes[i]).id
    /\ Answer(i, Head(votes[i]))
    /\ UNCHANGED <<pc, is_master, connected, new_master, crashes>>

\* seqn 0 with a greater id: "I want to be the master"
Outbid(i) ==
    /\ Reads(i)
    /\ Head(votes[i]).seqn = 0
    /\ i < Head(votes[i]).id
    /\ Answer(i, MyVote(i))
    /\ UNCHANGED <<pc, is_master, connected, new_master, crashes>>

\* Mutant: a smaller id is answered with one's own vote
RelayOutbids(i) ==
    /\ Reads(i)
    /\ Head(votes[i]).seqn = 0
    /\ i > Head(votes[i]).id
    /\ Answer(i, MyVote(i))
    /\ UNCHANGED <<pc, is_master, connected, new_master, crashes>>

\* seqn 0 with a smaller id: "I don't want to be the master"
Relay(i) ==
    /\ Reads(i)
    /\ Head(votes[i]).seqn = 0
    /\ i > Head(votes[i]).id
    /\ Answer(i, Head(votes[i]))
    /\ UNCHANGED <<pc, is_master, connected, new_master, crashes>>

\* Mutant: the announcement itself goes on to the next backup
VoteEndsForwards(i) ==
    /\ Reads(i)
    /\ Head(votes[i]).seqn = 1
    /\ new_master' = [new_master EXCEPT ![i] = Head(votes[i]).addr]
    /\ Answer(i, Head(votes[i]))
    /\ Goto(i, "relaunch")
    /\ UNCHANGED <<is_master, connected, crashes>>

\* seqn 1: the vote is over.  What goes on to the next backup is my_vote,
\* not the packet that was read.
VoteEnds(i) ==
    /\ Reads(i)
    /\ Head(votes[i]).seqn = 1
    /\ new_master' = [new_master EXCEPT ![i] = Head(votes[i]).addr]
    /\ Answer(i, MyVote(i))
    /\ Goto(i, "relaunch")
    /\ UNCHANGED <<is_master, connected, crashes>>

\* read() returns 0 once the writer is gone or, as the winner does, has
\* closed its stream: READ_HEADER_ERROR, which start() does not catch.
EndOfStream(i) ==
    /\ pc[i] = "voting"
    /\ votes[i] = << >>
    /\ pc[Previous(i)] \in {"dead", "master"}
    /\ Goto(i, "dead")
    /\ UNCHANGED <<is_master, connected, votes, new_master, crashes>>

\* Writing to a dead backup may instead fail: SIGPIPE or WRITE_ERROR
BrokenPipe(i) ==
    /\ \/ pc[i] = "accept" /\ connected[Previous(i)]
       \/ Reads(i)
    /\ pc[Adjacent(i)] = "dead"
    /\ Goto(i, "dead")
    /\ UNCHANGED <<is_master, connected, votes, new_master, crashes>>

Crash(i) ==
    /\ pc[i] # "dead"
    /\ crashes < MaxCrashes
    /\ crashes' = crashes + 1
    /\ Goto(i, "dead")
    /\ UNCHANGED <<is_master, connected, votes, new_master>>

Step(i) ==
    \/ KeepaliveEnds(i)
    \/ Connect(i)
    \/ ConnectRefused(i)
    \/ RedialFails(i)
    \/ AcceptAndVote(i)
    \/ Win(i)
    \/ Outbid(i)
    \/ Relay(i)
    \/ VoteEnds(i)
    \/ EndOfStream(i)
    \/ BrokenPipe(i)

Next == \E i \in Backup : Step(i) \/ Crash(i)

Spec == Init /\ [][Next]_vars

\* Every backup runs its thread; nobody has to crash
Fairness == \A i \in Backup : WF_vars(Step(i))

FairSpec == Spec /\ Fairness

-----------------------------------------------------------------------------
(* Properties.                                                             *)

\* However the votes interleave and whoever crashes, only the backup with the
\* lowest id can find its own id in a vote (the three branches of the loop):
\* hence there is never a second master.
LowestIdWins == \A i \in Backup : is_master[i] => i = 0

\* A backup that leaves the vote relaunches against another backup, one that
\* has made itself the master (payload of the seqn 1 packet).
AgreeOnMaster ==
    \A i \in Backup : new_master[i] # None =>
        new_master[i] # i /\ is_master[new_master[i]]

\* The branch for seqn 1 writes my_vote, not p: the announcement dies with the
\* first backup that reads it, the one after the master.
AnnouncementStopsAtSuccessor ==
    \A i \in Backup : new_master[i] # None => i = Adjacent(0)

\* RingElection implements LeaderElection
Leader == IF \E i \in Backup : is_master[i]
          THEN CHOOSE i \in Backup : is_master[i]
          ELSE None

Election == INSTANCE LeaderElection WITH leader <- Leader, follows <- new_master

\* Every step of the ring elects, makes one backup follow the elected one, or
\* changes neither: a decision is never revised.
ElectsOneLeader == Election!Spec

\* Unless somebody crashes the round decides: the master finds its own vote
\* and its successor is told (the loop ends for these two).
RoundDecides ==
    <>(crashes > 0 \/ (is_master[0] /\ new_master[Adjacent(0)] = 0))

\* "Voting round to determine new master" (internal_router.cpp:128): every
\* backup that took part ends it as the master or following the new one.
EveryBackupLeavesTheVote ==
    <>(\A i \in Backup : pc[i] \in {"master", "relaunch"})
=============================================================================
