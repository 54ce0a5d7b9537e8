--------------------------- MODULE MCTradingGraph ---------------------------
(***************************************************************************)
(* Small instances of TradingGraph for TLC.  Prices are two model values:  *)
(* they differ by more than STALE_PROPOSAL_PRICE_MOVE_PCT.  Symbols and    *)
(* actors are interchangeable within their sets.                           *)
(***************************************************************************)
EXTENDS TradingGraph, TLC

ActorSymmetry ==
  Permutations(WebActors) \cup Permutations(TelegramActors) \cup Permutations(RunActors)
PriceSymmetry == Permutations(Prices)
Symmetry == ActorSymmetry \cup PriceSymmetry

=============================================================================
