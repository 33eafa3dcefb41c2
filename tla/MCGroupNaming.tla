--------------------------- MODULE MCGroupNaming ---------------------------
(* Two production processes and one development process share the broker   *)
(* namespace; ShopQueue (topic "shop", group "GID_test", internal/mq/queues)*)
(* is registered, a legacy queue whose group is "GID_<topic>" is not.      *)
EXTENDS GroupNaming, TLC

CONSTANTS p1, p2, d1, shop, legacy

MCDeployments == {p1, p2, d1}
MCQueues == {shop, legacy}
MCAppEnv == (p1 :> "prod") @@ (p2 :> "prod") @@ (d1 :> "dev")
MCQTopic == (shop :> <<"shop">>) @@ (legacy :> <<"legacy">>)
MCQGroup == (shop :> <<"GID", "_", "test">>) @@ (legacy :> <<"GID", "_", "legacy">>)
MCRegistered == [d \in MCDeployments |-> {shop}]
MCConsumes == [d \in MCDeployments |-> MCQueues]
(* Production ignores MQ.Env, so a copied development tag is allowed there.*)
MCMQEnvTagged == (p1 :> {<< >>, <<"dev">>}) @@ (p2 :> {<< >>}) @@ (d1 :> {<<"dev">>})
(* A development process whose MQ.Env is left empty.                       *)
MCMQEnvUntagged == (p1 :> {<< >>}) @@ (p2 :> {<< >>}) @@ (d1 :> {<< >>, <<"dev">>})
(* A producer service that does not register ShopQueue.                    *)
MCRegisteredPartly == (p1 :> {shop}) @@ (p2 :> {}) @@ (d1 :> {shop})
=============================================================================
