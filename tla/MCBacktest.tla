----------------------------- MODULE MCBacktest -----------------------------
(***************************************************************************)
(* A small instance of Backtest for TLC.  From a close of 10 a breakout    *)
(* stops at 6, reaches its gates at 19 and 21 and its target at 22; from a *)
(* close of 4 no stop is left.                                             *)
(***************************************************************************)
EXTENDS Backtest

Levels == {4, 6, 10, 20, 22}

=============================================================================
