------------------------------- MODULE MCNode -------------------------------
(***************************************************************************)
(* The parts of a node around its presence channels.  In the model they    *)
(* share no state, so a behaviour runs one of them while the others stay   *)
(* in an initial state.                                                    *)
(***************************************************************************)
EXTENDS CacheChannel, Connections, Keepalive, MetricsQuery, BusPublisher, WebhookDelivery, TLC

CONSTANTS a, b

VARIABLE part

Requests == {<<TRUE>>, <<TRUE, FALSE>>, <<TRUE, TRUE>>}
Origins == a :> "home" @@ b :> "away"
K1 == [key |-> "k1", origins |-> {"home", "away"}]
Tables == {K1, [K1 EXCEPT !.origins = {"home"}], [K1 EXCEPT !.key = "k2"]}
Targets == "e1" :> {"t1", "t2"} @@ "e2" :> {}

Init ==
    /\ part \in {"cache", "connections", "keepalive", "query", "publisher", "webhooks"}
    /\ CacheInit /\ ConnInit /\ KeepInit /\ QueryInit /\ PubInit /\ HookInit
    /\ part # "connections" => conf = K1
    /\ part # "query" => present = [n \in Server |-> {}]
    /\ part # "publisher" => mode = "block"
    /\ part # "webhooks" => hookMode = "block"

Next ==
    /\ UNCHANGED part
    /\ \/ /\ part = "cache" /\ CacheNext
          /\ UNCHANGED <<connVars, keepVars, queryVars, pubVars, hookVars>>
       \/ /\ part = "connections" /\ ConnNext
          /\ UNCHANGED <<cacheVars, keepVars, queryVars, pubVars, hookVars>>
       \/ /\ part = "keepalive" /\ KeepNext
          /\ UNCHANGED <<cacheVars, connVars, queryVars, pubVars, hookVars>>
       \/ /\ part = "query" /\ QueryNext
          /\ UNCHANGED <<cacheVars, connVars, keepVars, pubVars, hookVars>>
       \/ /\ part = "publisher" /\ PubNext
          /\ UNCHANGED <<cacheVars, connVars, keepVars, queryVars, hookVars>>
       \/ /\ part = "webhooks" /\ HookNext
          /\ UNCHANGED <<cacheVars, connVars, keepVars, queryVars, pubVars>>

Spec == Init /\ [][Next]_<<part, cacheVars, connVars, keepVars, queryVars, pubVars, hookVars>>
=============================================================================
