-------------------------- MODULE MCWrapperObjects --------------------------
(* Values of the constants for the runs of WrapperObjects.                  *)
EXTENDS WrapperObjects

AllDecode == [s \in Servers |-> Ids]
=============================================================================
