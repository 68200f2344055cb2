----------------------------- MODULE MCStateDiff ----------------------------
EXTENDS StateDiff

MCValues == {[balance |-> 0, nonce |-> 0], [balance |-> 1, nonce |-> 0]}
=============================================================================
