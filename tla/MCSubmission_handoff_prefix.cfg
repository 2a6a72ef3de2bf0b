CONSTANTS
    Hosts = {h1, h2}
    Bindings = {b1}
    FirstTab = b1
    NewTargets = {FALSE}
    ActionIds = {a1, a2}
SYMMETRY Symmetry
SPECIFICATION Spec
INVARIANTS HandoffPrefixResumable
