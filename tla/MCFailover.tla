----------------------------- MODULE MCFailover -----------------------------
(* Two clients and three backups at most for TLC: the scenarios of module  *)
(* Failover.                                                               *)
EXTENDS Failover, TLC

CONSTANTS c1, c2, h1, h2

\* The second client is on the machine of the first one and the first backup,
\* or not
Together == [x \in Client \cup Server |-> h1]
Apart == [x \in Client \cup Server |-> IF x \in {c1, 1} THEN h1 ELSE h2]

Plays(backups, clients, placement, crash, slow, loss, typing) ==
    [backups |-> backups, clients |-> clients, hostOf |-> placement, crashes |-> crash, late |-> slow,
     lost |-> loss, commands |-> typing]

\* A backup that is alone, two of them and three; the master crashes, or the
\* winner as well, or the master is only slow; a datagram is lost; the users
\* type meanwhile, and leave
SmallScenarios ==
    {Plays(1, {c1, c2}, Together, 1, 0, 0, 0),
     Plays(1, {c1, c2}, Apart, 1, 0, 1, 0),
     Plays(1, {c1}, Apart, 1, 1, 0, 1),
     Plays(1, {c1}, Apart, 1, 0, 0, 2),
     Plays(2, {c1}, Together, 2, 0, 0, 0),
     Plays(2, {c1}, Together, 0, 2, 0, 0),
     Plays(3, {c1}, Apart, 0, 1, 0, 0)}
=============================================================================
