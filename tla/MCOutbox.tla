------------------------------ MODULE MCOutbox ------------------------------
(***************************************************************************)
(* A small instance of Outbox for TLC: a sweeper of the engine, and one    *)
(* elsewhere.                                                              *)
(***************************************************************************)
EXTENDS Outbox

CONSTANTS s1, o1

OneEngine == {s1}
OneElsewhere == {o1}

=============================================================================
