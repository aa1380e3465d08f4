----------------------------- MODULE MCTrackers -----------------------------
(***************************************************************************)
(* Small instances of Trackers for TLC.                                    *)
(***************************************************************************)
EXTENDS Trackers

CONSTANTS d1, d2, u1, w1, bad

\* An unparsable URI and a UDP tracker in the first tier, an HTTP tracker in
\* the second.
TwoTiers == [d \in Download |-> <<<<bad, u1>>, <<w1>>>>]

\* All downloads share one UDP tracker.
SharedTracker == [d \in Download |-> <<<<u1>>>>]

DownloadSymmetry == Permutations(Download)

=============================================================================
