----------------------------- MODULE MCEventBus -----------------------------
(* Small instances of EventBus for TLC. *)
EXTENDS EventBus, TLC

CONSTANTS e1, e2, d1, d2, credit, mail, commission, orders, affiliate, events

\* Subscribers of two queues; of the code's six, four share a queue, as
\* credit and mail do here.
MCSubscribers == <<credit, commission>>
MCSubscribers3 == <<credit, mail, commission>>
MCQueueOf == (credit :> orders) @@ (commission :> affiliate)
               @@ (Event :> events)
MCQueueOf3 == MCQueueOf @@ (mail :> orders)

BusSymmetry == Permutations(Dispatchers) \cup Permutations(Entities)
=============================================================================
