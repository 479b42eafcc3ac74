------------------------------ MODULE Delivery ------------------------------
(***************************************************************************)
(* What Send (go/internal_helpers/notify_client.go) promises a producer,   *)
(* with no HTTP in sight: a notification travels once, it may get lost,    *)
(* the consumer's handler runs for it at most once, possibly after the     *)
(* producer has given up or stopped, and Send returns nil only if it ran.  *)
(***************************************************************************)
CONSTANT Sends

VARIABLES
  call,       \* call[s]: "none", "open", or what Send returned: "nil" or "error"
  travelling, \* the sends whose notification is on its way
  ran         \* the sends for whose last notification the handler ran

deliveryVars == <<call, travelling, ran>>

DeliveryInit ==
  /\ call = [s \in Sends |-> "none"]
  /\ travelling = {}
  /\ ran = {}

Send(s) ==
  /\ call[s] = "none" /\ s \notin travelling
  /\ call' = [call EXCEPT ![s] = "open"]
  /\ travelling' = travelling \cup {s}
  /\ ran' = ran \ {s}

Run(s) ==
  /\ s \in travelling
  /\ travelling' = travelling \ {s}
  /\ ran' = ran \cup {s}
  /\ UNCHANGED call

Drop(s) ==
  /\ s \in travelling
  /\ travelling' = travelling \ {s}
  /\ UNCHANGED <<call, ran>>

Return(s, result) ==
  /\ call[s] = "open"
  /\ result = "nil" => s \in ran
  /\ call' = [call EXCEPT ![s] = result]
  /\ UNCHANGED <<travelling, ran>>

Finished(s) ==
  /\ call[s] \in {"nil", "error"}
  /\ call' = [call EXCEPT ![s] = "none"]
  /\ UNCHANGED <<travelling, ran>>

\* The slot is used for a call nothing is promised of.
Reuse(s) ==
  /\ call[s] = "none" /\ s \notin travelling
  /\ ran' = ran \ {s}
  /\ UNCHANGED <<call, travelling>>

\* The producer's process ends; what it sent does not.
Stop ==
  /\ call' = [s \in Sends |-> "none"]
  /\ UNCHANGED <<travelling, ran>>

DeliveryNext ==
  \/ \E s \in Sends :
       \/ Send(s) \/ Run(s) \/ Drop(s) \/ Finished(s) \/ Reuse(s)
       \/ \E result \in {"nil", "error"} : Return(s, result)
  \/ Stop

DeliverySpec == DeliveryInit /\ [][DeliveryNext]_deliveryVars
=============================================================================
