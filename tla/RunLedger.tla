----------------------------- MODULE RunLedger -----------------------------
(***************************************************************************)
(* What "run now" promises: a request is claimed once, its action runs at  *)
(* most once and only for the one who claimed it, and a closed request     *)
(* stays closed.                                                           *)
(***************************************************************************)
EXTENDS Naturals

CONSTANT Request

VARIABLES state,   \* [Request -> "new", "waiting", "claimed" or "closed"]
          ran      \* [Request -> how often its action has been started]

Init ==
  /\ state = [r \in Request |-> "new"]
  /\ ran = [r \in Request |-> 0]

Move(r, from, to) ==
  /\ state[r] = from
  /\ state' = [state EXCEPT ![r] = to]
  /\ UNCHANGED ran

Submit(r) == Move(r, "new", "waiting")
Claim(r) == Move(r, "waiting", "claimed")
Close(r) == Move(r, "claimed", "closed")

Run(r) ==
  /\ state[r] = "claimed" /\ ran[r] = 0
  /\ ran' = [ran EXCEPT ![r] = 1]
  /\ UNCHANGED state

Next == \E r \in Request : Submit(r) \/ Claim(r) \/ Close(r) \/ Run(r)

Spec == Init /\ [][Next]_<<state, ran>>

=============================================================================
