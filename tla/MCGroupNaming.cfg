CONSTANTS
    p1 = p1
    p2 = p2
    d1 = d1
    shop = shop
    legacy = legacy
    Deployments <- MCDeployments
    Queues <- MCQueues
    AppEnv <- MCAppEnv
    QTopic <- MCQTopic
    QGroup <- MCQGroup
    Registered <- MCRegistered
    Consumes <- MCConsumes
    MQEnvChoice <- MCMQEnvTagged
    MaxMsgs = 2
SPECIFICATION Spec
INVARIANT EnvIsolation OwnEnvironmentKept
CHECK_DEADLOCK FALSE
