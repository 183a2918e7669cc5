------------------------------ MODULE RowData ------------------------------
(***************************************************************************)
(* What the Spark jobs of one server compute (prio_processor/spark/        *)
(* commands.py and prio_processor/spark/udf.py), as operators on row       *)
(* multiplicities.                                                         *)
(*                                                                         *)
(* A client uploads one row per submission: an id and one encrypted share  *)
(* for each server.  Everything the jobs do with a row depends on three    *)
(* facts: whether a server can decrypt and parse its share (Decodes),      *)
(* whether the proof the two shares carry is a proof of a well-formed      *)
(* submission (Honest), and how many copies of the row a join produces.    *)
(* A dataset is therefore a function from ids to multiplicities; the       *)
(* packets themselves are left out, because each row is processed with a   *)
(* fresh verifier, so equal shares give equal packets.                     *)
(***************************************************************************)
EXTENDS Integers, FiniteSets

CONSTANTS
  A, B,        \* the two servers, PRIO_SERVER_A and PRIO_SERVER_B
  Ids,         \* ids of client rows
  Decodes,     \* Decodes[s]: ids whose share server s can decrypt and parse
  Honest,      \* ids whose shares carry a proof that verifies
  Garbled      \* what combining two shares of different sums yields

Servers == {A, B}
Peer(s) == IF s = A THEN B ELSE A

ASSUME ServersDiffer == A # B
ASSUME IdsFinite == IsFiniteSet(Ids)
ASSUME DecodesType == Decodes \in [Servers -> SUBSET Ids]
ASSUME HonestType == Honest \in SUBSET Ids

Rows == [Ids -> Nat]
NoRows == [i \in Ids |-> 0]
RowSet(S) == [i \in Ids |-> IF i \in S THEN 1 ELSE 0]
Present(rows) == \E i \in Ids : rows[i] > 0
Where(rows, S) == [i \in Ids |-> IF i \in S THEN rows[i] ELSE 0]
Sum(rows) == Cardinality(UNION {{i} \X (1..rows[i]) : i \in Ids})

\* spark.read.json of a directory: the rows of all its part objects.
Copies(parts, i) == UNION {{o} \X (1..o.rows[i]) : o \in parts}
Load(parts) == [i \in Ids |-> Cardinality(Copies(parts, i))]

\* Mutant: a left join keeps rows that have no partner.
JoinLeft(x, y, z) ==
  LET OrOne(n) == IF n = 0 THEN 1 ELSE n
  IN  [i \in Ids |-> x[i] * OrOne(y[i]) * OrOne(z[i])]

\* Inner join of three datasets on "id": rows without a partner vanish,
\* duplicates multiply.
Join(x, y, z) == [i \in Ids |-> x[i] * y[i] * z[i]]

(***************************************************************************)
(* The jobs.  raw is the server's own share data, internal and external    *)
(* are its own and its peer's output of the previous stage.                *)
(***************************************************************************)
\* The udfs return None for a share that set_data refuses.  The packets of
\* joined rows are readable: null payloads are never written.
UdfVerify1(s, rows) == Where(rows, Decodes[s])
UdfVerify2(s, rows) == Where(rows, Decodes[s])

\* The jobs keep "payload is not null".
Verify1Rows(s, raw) == UdfVerify1(s, raw)
Verify2Rows(s, raw, internal, external) == UdfVerify2(s, Join(raw, internal, external))

\* The rows handed to udf.aggregate.  Its payload, error and total are
\* functions of them (Accepted, Report), so the rows stand for the output.
AggregateRows(raw, internal, external) == Join(raw, internal, external)

\* Mutant: the result of isValid is not looked at.
AcceptedUnverified(s) == Decodes[s]

\* udf.aggregate adds a row to the server's share when set_data, the reads
\* and isValid all succeed, and otherwise counts it in "error".
Accepted(s) == Decodes[s] \cap Honest

TotalShare(s, rows) == Where(rows, Accepted(s))

\* Mutant: both servers put their own share first.
ShareOrderUnswapped(s, internal, external) == <<internal, external>>

\* udf.publish: "ordering matters", server B swaps the two shares ...
ShareOrder(s, internal, external) ==
  IF s = B THEN <<external, internal>> ELSE <<internal, external>>

\* ... because PrioTotalShare_final refuses shares that are not A's, then B's.
Combinable(s) == ShareOrder(s, s, Peer(s)) = <<A, B>>

\* The sum of two shares is meaningful only when both servers added the same
\* rows the same number of times.
TotalShareFinal(first, second) == IF first = second THEN first ELSE Garbled

UdfPublish(s, internal, external) ==
  LET shares == ShareOrder(s, TotalShare(s, internal), TotalShare(Peer(s), external))
  IN  TotalShareFinal(shares[1], shares[2])

\* The published record: the histogram, and the publisher's own error and
\* total counters.
PublishReport(s, internal, external) ==
  [payload |-> UdfPublish(s, internal, external),
   error   |-> Sum(Where(internal, Ids \ Accepted(s))),
   total   |-> Sum(internal)]

(***************************************************************************)
(* Reference definition: the report of a set of rows, each counted once.   *)
(***************************************************************************)
Report(S) ==
  [payload |-> RowSet(S \cap Honest),
   error   |-> Cardinality(S \ Honest),
   total   |-> Cardinality(S)]
Reports == [payload : Rows \cup {Garbled}, error : Nat, total : Nat]
=============================================================================
