------------------------------ MODULE MCOrigin ------------------------------
(* Values of the constants for the run of OriginJobs. *)
EXTENDS OriginJobs

CONSTANTS p1, p2, u1, u2, u3, b1, b2

\* The first ping has an entry of each batch, the second one of the first.
MCPingOf == [u \in Subs |-> IF u = u2 THEN p2 ELSE p1]
MCBatchOf == [u \in Subs |-> IF u = u3 THEN b2 ELSE b1]

\* The list on different days, in any order: extended at its end, with an origin
\* inserted (or removed, if it comes first), and without an origin.
MCLists == {<<1, 2, 3>>, <<1, Comment, 2, 3, 4>>, <<1, 5, 2, 3>>, <<Comment>>}

Parts01(m, n) == [p \in {0, 1} |-> IF p = 0 THEN m ELSE n]

\* Configurations that fit some clients, that have a part too many or lack one,
\* and that have a batch which does not consist of two parts.
MCConfigs ==
  {Parts01(2, 2), Parts01(3, 1), Parts01(3, 2), Parts01(1, 2),
   [p \in {1} |-> 2], [p \in {0, 1, 2} |-> IF p = 2 THEN 1 ELSE 2], [p \in {Odd} |-> 2]}

\* The list of origins.py is the filter of the lines it keeps.
ASSUME ListedFilters ==
  \A lines \in Lists \cup UNION {[1..n -> {1, 2, Comment}] : n \in 0..4} :
    Indexing!Listed(lines) = Append(SelectSeq(lines, Indexing!Keep), Unknown)
=============================================================================
