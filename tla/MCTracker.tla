------------------------------ MODULE MCTracker ------------------------------
(* A small instance of Tracker: two windows that are alike, a poll every unit *)
(* of time, sleeps too short and long enough to be noticed.                   *)
EXTENDS Tracker, TLC

MCSymmetry == Permutations(Windows)
=============================================================================
