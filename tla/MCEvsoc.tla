------------------------------ MODULE MCEvsoc ------------------------------
(* Small instances of Evsoc for TLC.                                        *)
EXTENDS Evsoc

CONSTANTS p1, p2

TwoProcs == {p1, p2}
=============================================================================
