----------------------------- MODULE MCEfxRproc -----------------------------
(* Small instances of EfxRproc for TLC.                                     *)
EXTENDS EfxRproc

CONSTANTS h0, h1, tx, rx

OneHart  == {h0}
TwoHarts == {h0, h1}
TwoKickers == {tx, rx}

NoFaults == {}
\* Every failure the driver or the core undoes; "table" strands the hart.
HandledFaults == FaultKinds \ {"table"}
AllFaults == FaultKinds
=============================================================================
