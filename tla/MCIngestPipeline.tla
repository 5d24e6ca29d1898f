-------------------------- MODULE MCIngestPipeline --------------------------
(***************************************************************************)
(* Values of the constants of IngestPipeline for TLC.  Each .cfg picks the *)
(* files, the budget of faults and requests, and the steps that may throw. *)
(***************************************************************************)
EXTENDS IngestPipeline, TLC

CONSTANTS s1, s2, p1, p2, r1, r2

OneSplitter == {s1}
TwoSplitters == {s1, s2}
NoProcessors == {}
OneProcessor == {p1}
TwoProcessors == {p1, p2}
OneClient == {r1}
TwoClients == {r1, r2}

Empty == [full |-> 0, tail |-> FALSE, ok |-> TRUE]
OneFull == [full |-> 1, tail |-> FALSE, ok |-> TRUE]
TwoFull == [full |-> 2, tail |-> FALSE, ok |-> TRUE]
FullAndTail == [full |-> 1, tail |-> TRUE, ok |-> TRUE]
BadHeader == [full |-> 0, tail |-> FALSE, ok |-> FALSE]
BadMidway == [full |-> 1, tail |-> FALSE, ok |-> FALSE]

EveryFile == {Empty, TwoFull, FullAndTail, BadHeader, BadMidway}
GoodFiles == {TwoFull, FullAndTail}
OnlyOneFull == {OneFull}

Budget(errors, crashes, pauses, uploads, replays) ==
  [errors |-> errors, crashes |-> crashes, pauses |-> pauses,
   uploads |-> uploads, replays |-> replays]

SplitBudget == Budget(1, 1, 1, 2, 0)
RetryBudget == Budget(3, 0, 0, 1, 0)
CrashBudget == Budget(2, 1, 0, 1, 0)
ReplayBudget == Budget(1, 1, 1, 1, 1)
TwoReplayBudget == Budget(3, 0, 0, 1, 2)
OneErrorOneReplay == Budget(1, 0, 0, 1, 1)

NoSteps == {}
ProcessSteps == {"process"}
ReplaySteps == {"remove", "enqueue", "reset", "splitRemove", "splitEnqueue", "flip"}
OfferSteps == {"offer"}
FinishSteps == {"finish"}
SplitWorkSteps == {"claim", "read", "row", "offer", "checkpoint", "pause"}
SplitSteps == {"claim", "read", "row", "offer", "checkpoint", "pause", "finish", "bump"}

ProcessorSymmetry == Permutations(Processors)
=============================================================================
