------------------------------ MODULE MCCapture ------------------------------
(* Instances of WfbCapture for TLC.                                          *)
EXTENDS WfbCapture
CONSTANTS c1, c2
MCBoth == {c1, c2}
MCOne == {c1}
=============================================================================
