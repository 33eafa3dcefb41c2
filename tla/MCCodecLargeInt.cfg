CONSTANTS
    JobNames <- MCJobNames
    ProducerJobs <- MCProducerJobs
    ConsumerJobs <- MCConsumerJobs
    Values <- MCLargeValues
    MantissaBits = 3
    MaxBodies = 2
SPECIFICATION Spec
INVARIANT RoundTrip
CHECK_DEADLOCK FALSE
