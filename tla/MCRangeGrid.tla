---------------------------- MODULE MCRangeGrid -----------------------------
(* Small instances of RangeGrid for TLC.                                    *)
EXTENDS RangeGrid

CONSTANTS d1, d2, d3

OneDatum  == {d1}
ThreeData == {d1, d2, d3}

=============================================================================
