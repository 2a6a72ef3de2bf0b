CONSTANTS
    ActionIds = {a1, a2, a3}
    Bindings = {b1, b2}
    Turns = {t1, t2}
    Artifacts = {x1}
    Destinations = {d1, d2}
    UsedKinds = {"status_read", "power_discovery", "composer_set", "file_handoff", "send", "work_steer", "stop", "local_output_commit", "download"}
    Policies = {"receipt_only", "transfer"}
SYMMETRY Symmetry
SPECIFICATION Spec
INVARIANTS TypeOK Coherent TerminalAccountsForTransfers RecoveryNeverReplays RecoveryDecides
PROPERTIES EvidenceIsImmutable TargetReplacedOnlyByRearm CompletionIsFinal
