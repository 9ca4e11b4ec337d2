SPECIFICATION ClusterSpec
CONSTANTS
    Secrets = {"password"}
    ServiceOf <- MCServiceOf
    StackOf <- MCStackOf
    ClusterStack = "platform"
    UsedByCluster = {}
    SecretIds = {"a"}
    Targets = {"default"}
    MaxRegistered = 0
INVARIANT PodsMayLog
CHECK_DEADLOCK FALSE
