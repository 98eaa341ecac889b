------------------------------- MODULE MCTseTx ------------------------------
(* Small instances of TseTx for TLC.                                        *)
EXTENDS TseTx

TwoBytes == {2}
=============================================================================
