------------------------------ MODULE MCSweeps ------------------------------
(* The worker's queues and sweeps: webhooks, notifications, cloud imports    *)
(* and the delivery of an order share no table, so a behaviour is about one  *)
(* of them, its channel.                                                     *)
EXTENDS Outbound, CloudImport, Fulfillment

SweepsInit ==
  /\ Init /\ ImportInit /\ (channel # "import" => oauth)
  /\ FulfilInit /\ (channel # "order" => content = "print" /\ adapter)

SweepsNext ==
  \/ Next /\ UNCHANGED <<importVars, fulfilVars>>
  \/ channel = "import" /\ ImportNext /\ UNCHANGED <<vars, fulfilVars>>
  \/ channel = "order" /\ FulfilNext /\ UNCHANGED <<vars, importVars>>

SweepsSpec ==
  /\ SweepsInit /\ [][SweepsNext]_<<vars, importVars, fulfilVars>>
  /\ Fairness /\ WF_importVars(TickNext) /\ FulfilFairness
=============================================================================
