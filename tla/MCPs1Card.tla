----------------------------- MODULE MCPs1Card -----------------------------
(* Small instances of Ps1Card for TLC. *)
EXTENDS Ps1Card

\* A save of one block, one that fills a card, and one of none; no two blocks
\* are alike.
MCGames == {[name |-> "a", data |-> <<"a1">>],
            [name |-> "c", data |-> <<"c1", "c2", "c3">>],
            [name |-> "z", data |-> <<>>]}
=============================================================================
