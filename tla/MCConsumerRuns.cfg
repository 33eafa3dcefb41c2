CONSTANTS
    c1 = c1
    c2 = c2
    m1 = m1
    m2 = m2
    None = None
SPECIFICATION Spec
INVARIANT TypeOK NoConcurrentProcessing AckImpliesHandled
CHECK_DEADLOCK FALSE
