SPECIFICATION Spec
CONSTANTS
    Configurations <- MCConfigurations
    Carried <- MCCarried
    Readers = {r1}
    Listers = {l1}
    Queriers = {q1}
    Nsas = {n1, n2}
    Urls = {u1, u2}
    NoUrl = none
    MaxChanges = 1
SYMMETRY MCSymmetry
INVARIANTS TypeOK OnlyPeersAreAsked SamePolicy
PROPERTIES ListIsExact
CHECK_DEADLOCK FALSE
