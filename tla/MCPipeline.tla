----------------------------- MODULE MCPipeline -----------------------------
(***************************************************************************)
(* The parts of a node that must go on by themselves, with the fairness    *)
(* that tokio justifies.  In the model they share no state, so a behaviour *)
(* runs one of them while the others stay in their initial state; a step   *)
(* that is enabled in an initial state is fair only in its own part.       *)
(***************************************************************************)
EXTENDS BusPublisher, WebhookDelivery, Connections, Keepalive, BusSubscription, TLC

CONSTANTS a

VARIABLE part

Origins == a :> "home"
Tables == {Gone, [key |-> "k1", origins |-> {"home"}]}
Targets == "e1" :> {"t1"} @@ "e2" :> {"t2"}

Init ==
    /\ part \in {"publisher", "webhooks", "connection", "keepalive", "subscription"}
    /\ PubInit /\ HookInit /\ ConnInit /\ KeepInit /\ SubscriptionInit
    /\ part # "publisher" => mode = "block"
    /\ part # "webhooks" => hookMode = "block"

Next ==
    /\ UNCHANGED part
    /\ \/ /\ part = "publisher" /\ PubNext
          /\ UNCHANGED <<hookVars, connVars, keepVars, subscriptionVars>>
       \/ /\ part = "webhooks" /\ HookNext
          /\ UNCHANGED <<pubVars, connVars, keepVars, subscriptionVars>>
       \/ /\ part = "connection" /\ ConnNext
          /\ UNCHANGED <<pubVars, hookVars, keepVars, subscriptionVars>>
       \/ /\ part = "keepalive" /\ KeepNext
          /\ UNCHANGED <<pubVars, hookVars, connVars, subscriptionVars>>
       \/ /\ part = "subscription" /\ SubscriptionNext
          /\ UNCHANGED <<pubVars, hookVars, connVars, keepVars>>

vars == <<part, pubVars, hookVars, connVars, keepVars, subscriptionVars>>

Spec ==
    /\ Init /\ [][Next]_vars
    /\ PubFairness /\ HookFairness /\ ConnFairness
    /\ WF_keepVars(part = "keepalive" /\ ServerStep)
    /\ WF_subscriptionVars(part = "subscription" /\ WatchdogStep)
    /\ WF_subscriptionVars(part = "subscription" /\ ReaderStep)
    /\ SF_subscriptionVars(ForceReconnection(TRUE))
=============================================================================
