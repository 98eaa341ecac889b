--------------------------- MODULE MCEvsocCamera ----------------------------
EXTENDS EvsocCamera

CONSTANT c1

OneClient == {c1}
AllEndpoints == {"camera", "load", "page", "file", "setting", "bad", "btn_capture", "btn_filter"}
BlockCounts == {1, 3}
=============================================================================
