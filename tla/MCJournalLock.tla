----------------------------- MODULE MCJournalLock -----------------------------
EXTENDS JournalLock, TLC

CONSTANTS p1, p2, p3

\* One host, so that any of them may find any other dead; the claims of p3 cannot be probed.
MCHostOf == p1 :> "here" @@ p2 :> "here" @@ p3 :> "here"
=============================================================================
