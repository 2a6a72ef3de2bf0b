---------------------------- MODULE MCTabCoordinator ----------------------------
EXTENDS TabCoordinator, TLC

CONSTANTS open1, read1, write1, stop1, read2

MCActorOf == open1 :> "browser" @@ read1 :> "tab1" @@ write1 :> "tab1" @@ stop1 :> "tab1"
             @@ read2 :> "tab2"
MCPriorityOf == open1 :> "mutation" @@ read1 :> "read" @@ write1 :> "mutation"
                @@ stop1 :> "control" @@ read2 :> "read"
=============================================================================
