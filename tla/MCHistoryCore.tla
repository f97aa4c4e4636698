--------------------------- MODULE MCHistoryCore ---------------------------
(* HistoryCore for TLC: the antennas are interchangeable, and the reader asks *)
(* for few <<offset, bin>> pairs.                                             *)
EXTENDS HistoryCore, TLC

Symmetry == Permutations(Ant)

\* Every offset that is in range of a full ring and the first that is not, in the
\* bin that is written over first.
RingRequests == {<<0, 0>>, <<1, 0>>, <<2, 0>>}

\* The newest frame and the one before it.
NearRequests == {<<0, 1>>, <<1, 0>>}
=============================================================================
