---------------------------- MODULE OriginIndex ----------------------------
(***************************************************************************)
(* From positions back to origins (prio_processor/origin).                 *)
(*                                                                         *)
(* A client counts origins by their position in the list its Firefox was   *)
(* built with, cut into parts of a fixed number of positions, one batch    *)
(* per part.  What is needed to undo this is kept elsewhere and changes at *)
(* other times: the file origins.py fetches, which is the tip of a list    *)
(* whose lines may be added, moved and removed, and the configuration,     *)
(* which maintainers edit by hand.  indexing.py joins both with the        *)
(* aggregates by position, whatever their age.                             *)
(***************************************************************************)
EXTENDS Integers, Sequences, FiniteSets

CONSTANTS
  Lists,          \* the lists upstream, of different days: origins and comments
  Cuts,           \* positions of a full part, of different client versions
  Configs,        \* the configurations: n_data of some parts
  MaxAggregates,  \* bound: published aggregates
  Comment,        \* a line of the list that is no origin
  Unknown,        \* the position for origins a client does not know
  Odd,            \* part of a batch id that does not consist of two parts
  None            \* no file

VARIABLES
  origins,     \* the fetched list, None before the first fetch
  fetched,     \* the lines it was made of
  config,      \* the configuration
  aggregates,  \* published aggregates, in order
  output,      \* the set of indexed rows
  read,        \* the lines, the configuration and how many aggregates it is from
  status       \* of the last index job

vars == <<origins, fetched, config, aggregates, output, read, status>>

Parts == {0, 1, 2, Odd}

Init ==
  /\ origins = None /\ fetched = <<>>
  /\ config = [p \in {} |-> 0]
  /\ aggregates = <<>>
  /\ output = {} /\ status = "idle"
  /\ read = [lines |-> <<>>, config |-> config, aggregates |-> 0]
-----------------------------------------------------------------------------
(* The list and what is derived from it. *)

\* Mutant: comments and empty lines count as positions.
KeepAll(line) == TRUE

\* ignore() is a filter of what to keep.
Keep(line) == line # Comment

\* The lines at some positions, in order.
At(lines, S) ==
  [k \in 1..Cardinality(S) |-> lines[CHOOSE l \in S : Cardinality(S \cap (1..l)) = k]]
Kept(lines) == {l \in DOMAIN lines : Keep(lines[l])}

\* origins.run: an entry for each remaining line, and one for __UNKNOWN__.
Listed(lines) == Append(At(lines, Kept(lines)), Unknown)

\* The clients' own view of the list they were built with.
ClientList(lines) == Append(At(lines, {l \in DOMAIN lines : lines[l] # Comment}), Unknown)

\* The positions of part p, among len that are cut in parts of cut.
Offset(p, cut) == IF p = Odd THEN 0 ELSE p * cut
SizeOf(p, cut, len) == IF len - Offset(p, cut) <= cut THEN len - Offset(p, cut) ELSE cut

\* data[-1] of an empty list raises before anything is written.
FetchOrigins ==
  /\ \E lines \in Lists : Kept(lines) # {} /\ fetched' = lines
  /\ origins' = Listed(fetched')
  /\ UNCHANGED <<config, aggregates, output, read, status>>

Configure ==
  /\ config' \in Configs \ {config}
  /\ UNCHANGED <<origins, fetched, aggregates, output, read, status>>

\* The servers publish a part that clients of one version have sent in.  Only
\* submissions of the configured size are decoded.
Publish(p) ==
  /\ Len(aggregates) < MaxAggregates /\ p \in DOMAIN config
  /\ \E lines \in Lists, cut \in Cuts :
       /\ config[p] = SizeOf(p, cut, Len(ClientList(lines)))
       /\ aggregates' = Append(aggregates,
            [part |-> p, lines |-> lines, cut |-> cut,
             payload |-> SubSeq(ClientList(lines), Offset(p, cut) + 1, Offset(p, cut) + config[p])])
  /\ UNCHANGED <<origins, fetched, config, output, read, status>>
-----------------------------------------------------------------------------
(* indexing.run *)

\* Parts for which _apply_structure raises.
Raises(p) == p \in DOMAIN config /\ (p \in {2, Odd} \/ (p = 1 /\ 0 \notin DOMAIN config))

\* Mutant: the second part starts after as many positions as it has itself.
OwnOffset(p) == IF p = 0 THEN 0 ELSE config[p]

\* The second part starts where the first is configured to end.
StartOf(p) == IF p = 0 THEN 0 ELSE config[0]

\* zip stops at the end of the shorter list; a part that is not configured has
\* no rows.
Structure(k) ==
  LET p == aggregates[k].part
      payload == aggregates[k].payload
      rest == IF p \in DOMAIN config
              THEN SubSeq(origins, StartOf(p) + 1, Len(origins))
              ELSE <<>>
  IN  {[aggregate |-> k, index |-> StartOf(p) + j - 1, origin |-> rest[j], counted |-> payload[j]] :
         j \in DOMAIN rest \cap DOMAIN payload}

Index ==
  /\ origins # None /\ aggregates # <<>>
  /\ \A k \in DOMAIN aggregates : ~Raises(aggregates[k].part)
  /\ output' = UNION {Structure(k) : k \in DOMAIN aggregates}
  /\ read' = [lines |-> fetched, config |-> config, aggregates |-> Len(aggregates)]
  /\ status' = "done"
  /\ UNCHANGED <<origins, fetched, config, aggregates>>

\* The overwriting write has removed the old output before a row raises.
FailIndex ==
  /\ origins # None
  /\ \E k \in DOMAIN aggregates : Raises(aggregates[k].part)
  /\ output' = {} /\ status' = "failed"
  /\ UNCHANGED <<origins, fetched, config, aggregates, read>>

\* There is no file of origins, or no aggregate that would have the columns the
\* job asks for: it ends before it writes, and the old output stays.
RejectIndex ==
  /\ origins = None \/ aggregates = <<>>
  /\ status' = "failed"
  /\ UNCHANGED <<origins, fetched, config, aggregates, output, read>>

Next ==
  \/ FetchOrigins \/ Configure
  \/ \E p \in Parts : Publish(p)
  \/ Index \/ FailIndex \/ RejectIndex

Spec == Init /\ [][Next]_vars
-----------------------------------------------------------------------------
(* Properties. *)

\* The job that has made the output started the part where its clients do.
OffsetFits(a) ==
  a.part = 1 => 0 \in DOMAIN read.config /\ read.config[0] = Offset(1, a.cut)

\* As far as both lists go, they have the same origins at the same positions:
\* between the two, origins were only added, and at the end.
Agree(x, y) ==
  \A k \in 1..(Len(ClientList(x)) - 1) :
    k < Len(ClientList(y)) => ClientList(x)[k] = ClientList(y)[k]

\* The count of an origin is never reported as that of another one, even if the
\* list is older or newer than that of the clients, as long as it has only grown
\* at its end and the first part is configured with the clients' size: only the
\* position of __UNKNOWN__ moves.  If one of the two conditions fails, rows are
\* swapped and the job does not notice (indexing.py 64-79, origins.py 24-32).
NeverSwapped ==
  \A row \in output :
    LET a == aggregates[row.aggregate] IN
    OffsetFits(a) /\ Agree(read.lines, a.lines) =>
      row.origin = row.counted \/ Unknown \in {row.origin, row.counted}

\* If in addition the list is not shorter than that of the clients, zip cuts
\* nothing off: each count of a configured part is there, under the index of its
\* position and, if it is an origin's, under that origin (indexing.py 75-79).
NothingDropped ==
  status = "done" =>
    \A k \in 1..read.aggregates :
      LET a == aggregates[k] IN
      /\ a.part \in DOMAIN read.config /\ OffsetFits(a)
      /\ Agree(read.lines, a.lines)
      /\ Len(ClientList(read.lines)) >= Len(ClientList(a.lines))
      => \A j \in DOMAIN a.payload :
           \E row \in output :
             /\ row.aggregate = k /\ row.index = Offset(a.part, a.cut) + j - 1
             /\ row.counted = a.payload[j]
             /\ row.origin = row.counted \/ row.counted = Unknown
=============================================================================
