---------------------------- MODULE MCEstablishment ----------------------------
EXTENDS Establishment

\* One hash above the mask of U8, one that every mask takes to 0.
MCShake == [pair \in Peers \X Peers |-> IF pair[1] = Connector THEN 131 ELSE 268435456]

\* A datagram link between peers with an open timeout, a stream between peers of
\* which either may have none.
MCLinks == {[streamed |-> FALSE, timeout |-> TRUE]} \cup [streamed : {TRUE}, timeout : BOOLEAN]
===============================================================================
