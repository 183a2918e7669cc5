-------------------------- MODULE MCPacketExchange --------------------------
(* Values of the constants for the runs of PacketExchange. *)
EXTENDS PacketExchange

CONSTANTS good, forged, lost

\* B cannot decrypt its share of the row "lost".
LostAtB == [s \in Servers |-> IF s = A THEN Ids ELSE Ids \ {lost}]
NotForged == Ids \ {forged}
=============================================================================
