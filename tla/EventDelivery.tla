--------------------------- MODULE EventDelivery ----------------------------
(***************************************************************************)
(* What the event bus promises the publisher of a domain event: whoever    *)
(* subscribed is reached, nobody is reached for an event that was not      *)
(* published, and a dispatch that counts as done has left nobody out.      *)
(* EventBus implements it.                                                 *)
(***************************************************************************)
CONSTANTS
  Entities,       \* the orders an event may be about
  Subscribed      \* the jobs subscribed to the event

VARIABLES
  announced,      \* entities the event was published for
  reached,        \* reached[e]: subscribers whose job was created
  dispatched      \* entities whose dispatch is on record as done

deliveryVars == <<announced, reached, dispatched>>

Init ==
  /\ announced = {}
  /\ reached = [e \in Entities |-> {}]
  /\ dispatched = {}

Announce(e) ==
  /\ announced' = announced \cup {e}
  /\ UNCHANGED <<reached, dispatched>>

Reach(e, s) ==
  /\ e \in announced
  /\ reached' = [reached EXCEPT ![e] = @ \cup {s}]
  /\ UNCHANGED <<announced, dispatched>>

\* The dispatch is done.  Recording it may drop older records ...
Dispatch(e, forgotten) ==
  /\ reached[e] = Subscribed
  /\ dispatched' = (dispatched \cup {e}) \ forgotten
  /\ UNCHANGED <<announced, reached>>

\* ... and a second dispatch of the event starts with no record.
Forget(forgotten) ==
  /\ dispatched' = dispatched \ forgotten
  /\ UNCHANGED <<announced, reached>>

Next ==
  \/ \E e \in Entities : Announce(e)
  \/ \E e \in Entities, s \in Subscribed : Reach(e, s)
  \/ \E e \in Entities, forgotten \in SUBSET Entities : Dispatch(e, forgotten)
  \/ \E forgotten \in SUBSET Entities : Forget(forgotten)

Spec == Init /\ [][Next]_deliveryVars
=============================================================================
