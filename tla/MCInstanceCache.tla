-------------------------- MODULE MCInstanceCache --------------------------
(* Instances of InstanceCache for TLC.                                        *)
EXTENDS InstanceCache

CONSTANTS i1, account, c1
=============================================================================
