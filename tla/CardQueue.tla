----------------------------- MODULE CardQueue -----------------------------
(***************************************************************************)
(* What the notification outbox promises, with everything else left out: a *)
(* row's card is issued once, and again only where something broke; a row  *)
(* counts as delivered only once its card was issued; and one that is set  *)
(* aside never had a card.  That a card arrives is not promised: it may be *)
(* lost behind the hand of whoever issued it.                              *)
(***************************************************************************)
EXTENDS Naturals

CONSTANT Event

VARIABLES rows,       \* the events that were enqueued
          issued,     \* those whose card was ever sent or handed on
          cards,      \* [event -> its cards that arrived or are on their way]
          delivered,  \* rows that are marked delivered
          aside,      \* rows that are set aside
          broken      \* rows whose delivery broke

Init ==
  /\ rows = {} /\ issued = {} /\ delivered = {} /\ aside = {} /\ broken = {}
  /\ cards = [e \in Event |-> 0]

Enqueue(e) ==
  /\ e \notin rows
  /\ rows' = rows \cup {e}
  /\ UNCHANGED <<issued, cards, delivered, aside>>

Issue(e) ==
  /\ e \in rows \ aside
  /\ e \in issued \cup delivered => e \in broken
  /\ issued' = issued \cup {e}
  /\ cards' = [cards EXCEPT ![e] = @ + 1]
  /\ UNCHANGED <<rows, delivered, aside>>

\* A card that is lost is not issued again for that.
Lose ==
  /\ cards' \in [Event -> Nat] /\ \A e \in Event : cards'[e] <= cards[e]
  /\ UNCHANGED <<rows, issued, delivered, aside>>

Deliver(e) ==
  /\ e \in issued
  /\ delivered' = delivered \cup {e}
  /\ UNCHANGED <<rows, issued, cards, aside>>

SetAside(e) ==
  /\ e \in rows \ (issued \cup delivered)
  /\ aside' = aside \cup {e}
  /\ UNCHANGED <<rows, issued, cards, delivered>>

\* Rows may break in any step, and stay broken.
Next ==
  /\ broken \subseteq broken'
  /\ \/ \E e \in Event : Enqueue(e) \/ Issue(e) \/ Deliver(e) \/ SetAside(e)
     \/ Lose

vars == <<rows, issued, cards, delivered, aside, broken>>
Spec == Init /\ [][Next]_vars

=============================================================================
