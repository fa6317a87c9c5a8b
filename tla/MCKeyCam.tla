------------------------------ MODULE MCKeyCam ------------------------------
(* KeyCam with two group keys (of two vaps) that share an index, two node     *)
(* keys and a table of two slots: with RTWN_CRYPTO_FULL one for group keys and *)
(* one for node keys, with RTWN_CRYPTO_PAIR both for node keys.  So there is   *)
(* always one key more than slots, and two commands fill the queue.           *)
EXTENDS KeyCam, TLC

CONSTANTS g1, g2, n1, n2, m1, m2

MCGroupKeys == {g1, g2}
MCPairKeys == {n1, n2}
MCValues == {m1, m2}
MCWepidx == [g \in MCGroupKeys |-> 0]
Symmetry == Permutations(MCGroupKeys) \union Permutations(MCPairKeys)
                \union Permutations(MCValues)
=============================================================================
