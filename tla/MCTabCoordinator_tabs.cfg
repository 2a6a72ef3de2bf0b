CONSTANTS
    open1 = open1
    read1 = read1
    write1 = write1
    stop1 = stop1
    read2 = read2
    Requests = {open1, read1, write1, stop1, read2}
    ActorOf <- MCActorOf
    PriorityOf <- MCPriorityOf
    Browser = "browser"
    Gates = {1, 2}
    NoGate = 0
    MaxQueueSize = 2
    MaxConsecutiveReads = 1
    MaxConsecutiveMutations = 1
    MaxConsecutiveControls = 1
    MaxConsecutiveBrowserExclusives = 1
SPECIFICATION FairSpec
INVARIANTS TypeOK OneTurn GateAccounts PassedBounded
PROPERTIES EveryRequestEnds
