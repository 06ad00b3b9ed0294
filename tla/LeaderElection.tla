--------------------------- MODULE LeaderElection ---------------------------
(***************************************************************************)
(* What one voting round of the backups promises, without the ring: at     *)
(* most one backup is ever chosen, and a backup that leaves the round as a *)
(* follower follows that one.  RingElection implements this module.        *)
(***************************************************************************)
CONSTANTS Backup,   \* the backups that take part in the round
          None      \* "no backup", not one of them

VARIABLES leader,   \* the chosen backup, or None
          follows   \* for every backup, the one it follows, or None

vars == <<leader, follows>>

Init ==
    /\ leader = None
    /\ follows = [b \in Backup |-> None]

Elect(b) ==
    /\ leader = None
    /\ leader' = b
    /\ UNCHANGED follows

Follow(b) ==
    /\ leader \notin {None, b}
    /\ follows[b] = None
    /\ follows' = [follows EXCEPT ![b] = leader]
    /\ UNCHANGED leader

Next == \E b \in Backup : Elect(b) \/ Follow(b)

Spec == Init /\ [][Next]_vars
=============================================================================
