------------------------------ MODULE MCFraming -----------------------------
(* Two threads and short requests for TLC.                                 *)
EXTENDS Framing, TLC

CONSTANTS w1, w2

Upload(data) == [type |-> UPLOAD_REQ, user |-> <<7>>, name |-> <<4>>, data |-> data]
Delete(user) == [type |-> 13, user |-> user, name |-> <<4>>, data |-> << >>]

\* A file with a zero byte and an empty one; one thread that writes twice, and
\* two that write at once
SmallScripts ==
    {w1 :> <<Upload(<<0, 9>>), Delete(<<7>>)>> @@ w2 :> << >>,
     w1 :> <<Upload(<< >>)>> @@ w2 :> <<Delete(<<8>>)>>}

\* A header without payload and one with
SmallLeftover == {<<3, 0>>, <<5, 2>>}
=============================================================================
