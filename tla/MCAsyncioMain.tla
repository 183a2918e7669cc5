---------------------------- MODULE MCAsyncioMain ----------------------------
(* Values of the constants for the runs of AsyncioMain, whose clients all    *)
(* encode the same valid data with the right keys.                           *)
EXTENDS AsyncioMain

AllDecode == [s \in Servers |-> Ids]
=============================================================================
