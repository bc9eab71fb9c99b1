---------------------------------- MODULE MCTime ----------------------------------
(* CTime for TLC: a second of a few nanoseconds, both signs of everything. *)
EXTENDS CTime

MCSeconds  == -2 .. 2
MCNanosecs == -3 * nsecInSec .. 3 * nsecInSec
MCCounts   == -3 .. 3
=============================================================================
