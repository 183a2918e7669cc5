---------------------------- MODULE MCCliStages ----------------------------
(* Values of the constants for the runs of CliStages. *)
EXTENDS CliStages

CONSTANTS good, forged, lost, f1, f2

\* B cannot decrypt its share of the row "lost".
MCDecodes == [s \in Servers |-> IF s = A THEN {good, forged, lost} ELSE {good, forged}]
MCHonest == {good, lost}

\* The first file with every row missing, there, or there twice; no second.
OneFile ==
  {[s \in Servers |-> [f \in Files |->
      IF f = f2 THEN None ELSE IF s = A THEN atA ELSE atB]] : atA, atB \in [Ids -> 0..2]}

\* Two files: the first complete; the second equal, unequal or missing.
Second(atA, atB) ==
  [s \in Servers |-> [f \in Files |->
     IF f = f1 THEN RowSet(Ids) ELSE IF s = A THEN atA ELSE atB]]
MixedFiles ==
  {Second(a, b) : a, b \in {RowSet({good, forged}), RowSet({lost}), None}}
VariedFiles == OneFile \cup MixedFiles
=============================================================================
