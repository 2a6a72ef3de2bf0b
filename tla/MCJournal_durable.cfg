CONSTANTS
    NoFile = NoFile
    Events = {"created", "done", "withheld"}
    MaxLines = 3
    MaxTemps = 1
SPECIFICATION Spec
INVARIANT CompactedIsDurable
