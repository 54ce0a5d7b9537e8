---------------------------- MODULE MCScreening ----------------------------
(***************************************************************************)
(* A small instance of Screening for TLC.                                  *)
(***************************************************************************)
EXTENDS Screening

CONSTANTS s1, s2, dash, engine

\* A scan of the dashboard's process, and one of the engine's.
OnePerProcess == [r \in Runners |-> IF r = s1 THEN dash ELSE engine]

=============================================================================
