-------------------------- MODULE IdealAggregation --------------------------
(***************************************************************************)
(* What the two servers promise together: for each batch, each server ends *)
(* up with the report of the rows both of them received and can decode,    *)
(* every row counted once and every forged row counted as an error only.   *)
(* A report, once published, is withdrawn only by a server that was        *)
(* started again, and only an unsafe rerun can put anything else in its    *)
(* place.  Buckets, stages and markers do not appear.                      *)
(***************************************************************************)
EXTENDS RowData

CONSTANTS Batches, Inputs, None

VARIABLES
  raw,      \* the rows each server received
  report,   \* report[s][b]: what s has published for b, or None
  rerun,    \* servers started more than once
  unsafe    \* a rerun interfered with its peer

idealVars == <<raw, report, rerun, unsafe>>

Shared(b) == raw[A][b] \cap raw[B][b] \cap Decodes[A] \cap Decodes[B]

IdealInit ==
  /\ raw \in Inputs
  /\ report = [s \in Servers |-> [b \in Batches |-> None]]
  /\ rerun = {}
  /\ unsafe = FALSE

Publish(s, b) ==
  /\ Shared(b) # {} /\ report[s][b] = None
  /\ report' = [report EXCEPT ![s][b] = Report(Shared(b))]
  /\ UNCHANGED <<raw, rerun, unsafe>>

Withdraw(s, b) ==
  /\ s \in rerun
  /\ report' = [report EXCEPT ![s][b] = None]
  /\ UNCHANGED <<raw, rerun, unsafe>>

Rerun(s) ==
  /\ rerun' = rerun \cup {s}
  /\ unsafe' \in {unsafe, TRUE}
  /\ UNCHANGED <<raw, report>>

\* After an unsafe rerun nothing is promised about the one entry a step
\* writes.
Misreport(s, b) ==
  /\ unsafe
  /\ report' = [report EXCEPT ![s][b] = report'[s][b]]
  /\ UNCHANGED <<raw, rerun, unsafe>>

IdealNext ==
  \E s \in Servers :
    \/ Rerun(s)
    \/ \E b \in Batches : Publish(s, b) \/ Withdraw(s, b) \/ Misreport(s, b)

IdealSpec == IdealInit /\ [][IdealNext]_idealVars
=============================================================================
