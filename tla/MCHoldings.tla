----------------------------- MODULE MCHoldings -----------------------------
(***************************************************************************)
(* Small instances of Holdings for TLC.                                    *)
(***************************************************************************)
EXTENDS Holdings, TLC

CONSTANTS dash

\* Every syncer is a thread of the dashboard.
AllInDash == [t \in Syncers |-> dash]

Symmetry == Permutations(Syncers)

=============================================================================
