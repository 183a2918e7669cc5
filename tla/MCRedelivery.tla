---------------------------- MODULE MCRedelivery ----------------------------
(* Values of the constants for the runs of Redelivery. *)
EXTENDS Redelivery

CONSTANTS good, forged, lost

\* B cannot decrypt its share of the row "lost".
LostAtB == [s \in Servers |-> IF s = A THEN Ids ELSE Ids \ {lost}]
NotForged == Ids \ {forged}
=============================================================================
