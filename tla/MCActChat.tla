------------------------------ MODULE MCActChat ------------------------------
(* Small instances of ActChat for TLC.                                      *)
EXTENDS ActChat, TLC

AnyNode == {Bare, Idle}
==============================================================================
