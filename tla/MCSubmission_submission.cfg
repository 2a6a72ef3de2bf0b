CONSTANTS
    Hosts = {h1, h2}
    Bindings = {b1, b2}
    FirstTab = b1
    NewTargets = {TRUE, FALSE}
    ActionIds = {a1, a2}
SYMMETRY Symmetry
SPECIFICATION Spec
INVARIANTS TypeOK HandoffBudget OpenSendRecoverable SendFollowsProvenHandoff
PROPERTIES SendsOnce
