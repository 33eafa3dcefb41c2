CONSTANTS
    p1 = p1
    p2 = p2
    d1 = d1
    shop = shop
    legacy = legacy
    Deployments <- MCDeployments
    Queues <- MCQueues
    AppEnv <- MCAppEnv
    QTopic <- MCQTopic
    QGroup <- MCQGroup
    Registered <- MCRegisteredPartly
    Consumes <- MCConsumes
    MQEnvChoice <- MCMQEnvTagged
    MaxMsgs = 2
SPECIFICATION Spec
INVARIANT OwnEnvironmentKept
CHECK_DEADLOCK FALSE
