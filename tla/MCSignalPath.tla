----------------------------- MODULE MCSignalPath ------------------------------
(* Model-checking instances of SignalPath.                                      *)
EXTENDS SignalPath

UnitReturns == {-1, 0, 1}
================================================================================
