CONSTANTS
    DBs = {"mysql", "clickhouse", "hologres"}
    MaxFailures = 2
SPECIFICATION Spec
INVARIANT NoTransactionLeftOpen
CHECK_DEADLOCK FALSE
