------------------------------- MODULE MCJournal -------------------------------
EXTENDS Journal

\* Nothing is claimed after power failed under something that relied on an unsynced entry.
Claimed == power # "relied"
=============================================================================
