--------------------------- MODULE MCReplication ---------------------------
(* A few requests of two devices for TLC: who sends them in module          *)
(* Replication.                                                            *)
EXTENDS Replication, TLC

CONSTANTS b1, b2, b3, u1, u2, x1

\* The first device uploads twice, the second deletes
TwoDevices == [r \in Request |-> IF r \in Upload THEN 1 ELSE 2]

\* Each device uploads
EachUploads == [r \in Request |-> IF r = u1 THEN 1 ELSE 2]
=============================================================================
