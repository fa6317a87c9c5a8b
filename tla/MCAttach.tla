------------------------------ MODULE MCAttach ------------------------------
(* Attach on every chip, with one ROM image of each shape.                    *)
EXTENDS Attach

MCImages ==
    LET full(w) == [i \in BlockWords |-> w]
    IN {<<>>,
        <<[off |-> 0, words |-> (1 :> 1)], [off |-> 0, words |-> (0 :> 0) @@ (1 :> 2)]>>,
        <<[off |-> 14, words |-> full(1)], [off |-> 3, words |-> (3 :> 2)]>>,
        <<[off |-> 15, words |-> (2 :> 1)], [off |-> 2, words |-> <<>>]>>,
        <<[off |-> 21, words |-> (0 :> 1)], [off |-> 63, words |-> (2 :> 2)],
          [off |-> 21, words |-> (0 :> 2)]>>,
        <<[off |-> 18, words |-> <<>>], [off |-> 1, words |-> (0 :> 1)]>>,
        <<[off |-> 64, words |-> (0 :> 1)]>>}
=============================================================================
