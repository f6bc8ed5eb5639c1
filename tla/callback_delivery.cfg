SPECIFICATION FairSpec
CONSTANTS
    Deliveries = {d1, d2}
    Attempts = 3
    Delay = 1
    MaxSteps = 2
    MaxWrites = 1
INVARIANTS TypeOK AcceptedOnce ResultIsSnapshot NotGivenUpEarly
PROPERTY DeliveryEnds
