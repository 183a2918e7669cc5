------------------------------ MODULE JointSum ------------------------------
(***************************************************************************)
(* What two servers that exchange packets promise about their sums: a      *)
(* server counts a row at most once, only when its proof verifies, and     *)
(* only when both servers hold their share of it.  Queues and packets do   *)
(* not appear.                                                             *)
(***************************************************************************)
EXTENDS RowData

VARIABLES
  held,   \* held[s]: rows whose share server s has decoded
  sum     \* sum[s]: how often s has added each row to its total

sumVars == <<held, sum>>

SumInit ==
  /\ held = [s \in Servers |-> {}]
  /\ sum = [s \in Servers |-> NoRows]

Hold(s, i) ==
  /\ i \in Decodes[s] \ held[s]
  /\ held' = [held EXCEPT ![s] = @ \cup {i}]
  /\ UNCHANGED sum

Count(s, i) ==
  /\ i \in held[A] \cap held[B] \cap Honest
  /\ sum[s][i] = 0
  /\ sum' = [sum EXCEPT ![s][i] = 1]
  /\ UNCHANGED held

SumNext == \E s \in Servers, i \in Ids : Hold(s, i) \/ Count(s, i)

SumSpec == SumInit /\ [][SumNext]_sumVars
=============================================================================
