----------------------------- MODULE MCPipeline -----------------------------
(* Values of the constants for the runs of Pipeline. *)
EXTENDS Pipeline

CONSTANTS good, forged, lost, b1, b2

\* B cannot decrypt its share of the row "lost".
MCDecodes == [s \in Servers |-> IF s = A THEN {good, forged, lost} ELSE {good, forged}]
MCHonest == {good, lost}

\* Every row at both servers.
FullInputs == {[s \in Servers |-> [b \in Batches |-> Ids]]}

\* b1 is complete; b2 has the rows atA at one server and atB at the other.
Second(atA, atB) ==
  [s \in Servers |-> [b \in Batches |->
     IF b = b1 THEN Ids ELSE IF s = A THEN atA ELSE atB]]
MixedInputs == {Second({good}, {good, forged}), Second({}, {}), Second({lost}, {lost})}

\* b1 in every way rows can be present or missing at the two servers, b2 absent.
Firsts ==
  {[s \in Servers |-> [b \in Batches |->
      IF b = b2 THEN {} ELSE IF s = A THEN atA ELSE atB]] : atA, atB \in SUBSET Ids}
VariedInputs == Firsts \cup MixedInputs
OneSidedInputs == {Second({good}, {})}
=============================================================================
