SPECIFICATION FairSpec
CONSTANTS
    Callers = {c1, c2}
    MaxDispatch = 2
INVARIANTS
    TypeOK
    NoLostWakeup
PROPERTIES
    CallersReturn
    ImplementsDelivery
    DeliveryGoesOn
