-------------------------------- MODULE Outbox --------------------------------
(***************************************************************************)
(* What the two senders of the worker promise of a message, a webhook      *)
(* delivery (jobs/webhook-delivery.ts) or a notification of a participant  *)
(* (jobs/notifications-send.ts): it goes out while its row is queued and   *)
(* at no other time, perhaps more than once, it is called delivered only   *)
(* after it went out, and a queued message is settled in the end.          *)
(***************************************************************************)
EXTENDS Naturals

CONSTANT Messages

VARIABLES
  state, \* of the row of each message
  sent   \* how often each message went out

vars == <<state, sent>>

\* An event is queued for several receivers at once; a message to a suppressed
\* address is recorded, and never goes out.
Put ==
  /\ \A m \in Messages :
       \/ state'[m] = state[m]
       \/ state[m] = "absent" /\ state'[m] \in {"queued", "dropped"}
  /\ sent' = sent

Send(m) ==
  /\ state[m] = "queued"
  /\ sent' = [sent EXCEPT ![m] = @ + 1] /\ state' = state

Settle(m) ==
  /\ state[m] = "queued"
  /\ \/ sent[m] > 0 /\ state' = [state EXCEPT ![m] = "delivered"]
     \/ state' = [state EXCEPT ![m] = "dropped"]
  /\ sent' = sent

Init == state = [m \in Messages |-> "absent"] /\ sent = [m \in Messages |-> 0]

Next ==
  \/ Put
  \/ \E m \in Messages : Send(m) \/ Settle(m)

Spec == Init /\ [][Next]_vars /\ \A m \in Messages : WF_vars(Settle(m))
=============================================================================
