----------------------------- MODULE MCSessions -----------------------------
(* Small servers for TLC: who opens the connections of module Sessions.    *)
EXTENDS Sessions, TLC

CONSTANTS c1, c2, c3, c4, ana, bia

\* All devices of one user
OneUser == {[c \in Conn |-> ana]}

\* The second one may be another user's
OneOrTwoUsers == OneUser \cup {[c \in Conn |-> IF c = c2 THEN bia ELSE ana]}

\* The connections of one user are interchangeable
OneUserSymmetry == Permutations(Conn)
=============================================================================
