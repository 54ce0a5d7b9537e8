---------------------------- MODULE ApprovalGate ----------------------------
(***************************************************************************)
(* What the approval pipeline promises, with everything else left out: a   *)
(* run of the graph is filled only once a human has approved it; every     *)
(* fill is paid for by a decision of its own; and a run is filled again    *)
(* only on a thread that had been broken before, by calls that overlapped  *)
(* or got lost.  Whether a run is filled at all is not promised.           *)
(***************************************************************************)
EXTENDS Naturals, Sequences

CONSTANT Run          \* the runs of the trading graph: symbol, day and number

VARIABLES approved,   \* runs whose pause was answered with APPROVED
          fills,      \* the runs of the audit log, in insertion order
          decided,    \* how many decisions humans have submitted
          broken      \* threads, each a symbol and a day

Thread(r) == <<r[1], r[2]>>
IsFilled(r) == \E i \in DOMAIN fills : fills[i] = r

Init ==
  /\ approved = {}
  /\ fills = <<>>
  /\ decided = 0
  /\ broken = {}

Submit ==
  /\ decided' = decided + 1
  /\ UNCHANGED <<approved, fills>>

Approve(r) ==
  /\ approved' = approved \cup {r}
  /\ UNCHANGED <<fills, decided>>

Fill(r) ==
  /\ r \in approved
  /\ Len(fills) < decided
  /\ IsFilled(r) => Thread(r) \in broken
  /\ fills' = Append(fills, r)
  /\ UNCHANGED <<approved, decided>>

\* Threads may break in any step, and stay broken.
Next ==
  /\ broken \subseteq broken'
  /\ \/ Submit
     \/ \E r \in Run : Approve(r) \/ Fill(r)
     \/ UNCHANGED <<approved, fills, decided>>

Spec == Init /\ [][Next]_<<approved, fills, decided, broken>>

=============================================================================
