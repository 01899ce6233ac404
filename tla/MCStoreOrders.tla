--------------------------- MODULE MCStoreOrders ---------------------------
(* Small instances of StoreOrders for TLC. *)
EXTENDS StoreOrders, TLC

CONSTANTS s1, s2, n1, n2, r1, r2

EveryOperation ==
  {"cancelOrder", "adminCancelOrder", "updateStatus", "markShipped",
   "updateStoreOrder", "setStage", "moveOrders", "markStoreOrderShipped",
   "saveSteps", "handleWebhook", "purchaseLabel", "createRefund"}

\* What moves an order whose number the carrier does not report on.
NoCarrier == EveryOperation \ {"handleWebhook", "purchaseLabel"}

StoreSymmetry == Permutations(Shops) \cup Permutations(Parcels)
                   \cup Permutations(Requests)
=============================================================================
