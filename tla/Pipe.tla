-------------------------------- MODULE Pipe --------------------------------
(***************************************************************************)
(* What a connection promises to the threads at both its ends: requests    *)
(* arrive whole, once, in the order in which they were written.            *)
(***************************************************************************)
EXTENDS Sequences

CONSTANT Item

VARIABLES queue,    \* what was written and has not been read
          received  \* what has been read

Init == queue = << >> /\ received = << >>

Write(i) == queue' = Append(queue, i) /\ UNCHANGED received

Read ==
    /\ queue # << >>
    /\ queue' = Tail(queue)
    /\ received' = Append(received, Head(queue))

Next == Read \/ \E i \in Item : Write(i)

Spec == Init /\ [][Next]_<<queue, received>>
=============================================================================
