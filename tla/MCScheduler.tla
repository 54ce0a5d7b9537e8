----------------------------- MODULE MCScheduler -----------------------------
(***************************************************************************)
(* Small instances of Scheduler for TLC.  No two members of a set are told *)
(* apart, so each set is symmetric.                                        *)
(***************************************************************************)
EXTENDS Scheduler, TLC

Symmetry ==
  Permutations(Engines) \cup Permutations(Requests) \cup Permutations(Ids)
    \cup Permutations(Triggers) \cup Permutations(Pages)

=============================================================================
