------------------------- MODULE MCBlockedBroadcast -------------------------
\* Two publishers of one manager.
EXTENDS BlockedBroadcast, TLC
CONSTANTS p1, p2
MCPublishers == {p1, p2}
PublisherSymmetry == Permutations(MCPublishers)
=============================================================================
