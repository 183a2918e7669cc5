----------------------------- MODULE CliStages -----------------------------
(***************************************************************************)
(* The stages as commands on files (prio_processor/prio/commands.py), in   *)
(* the order examples/batched-processing/scripts/server.sh runs them.      *)
(*                                                                         *)
(* A stage waits for a marker, copies the files next to it to its own      *)
(* disk, runs one command per file, and sends the outputs and a marker:    *)
(* first from the client, then to and from the peer, and at last to the    *)
(* server's own bucket.                                                    *)
(* Where the Spark jobs join datasets, a command indexes its two packet    *)
(* files by id and walks through the share file once: a line that repeats  *)
(* a row finds the same packets again, and a row without packets is an     *)
(* error instead of being left out.                                        *)
(***************************************************************************)
EXTENDS RowData

CONSTANTS
  Files,    \* names of the share files
  Inputs,   \* possible share files of the servers
  None      \* no file

Stages == {"verify1", "verify2", "aggregate", "publish"}
Phases == {"poll", "run", "send", "done", "failed", "timeout"}

\* What aggregate writes.
Totals == [payload : Rows, error : Int, total : Int]

ASSUME FilesInputsType == Inputs \subseteq [Servers -> [Files -> Rows \cup {None}]]
ASSUME NoneIsNoContent == None \notin Rows \cup Totals \cup {Garbled}
ASSUME GarbledNotRows == Garbled \notin Rows

VARIABLES
  raw,      \* raw[s][f]: share file f of server s
  delivered,\* servers that have the marker of the share files
  out,      \* out[s][k][f]: file f written by stage k
  bucket,   \* bucket[s][k][f]: file f of stage k, as sent to s
  local,    \* local[s][k][f]: the same, as copied to the disk of s
  marked,   \* marked[s][k]: _SUCCESS is next to bucket[s][k]
  stage,    \* the section of server.sh a server is in
  phase,    \* and where in it
  todo      \* files the loop has not come to

vars == <<raw, delivered, out, bucket, local, marked, stage, phase, todo>>

NoFiles == [f \in Files |-> None]
Existing(dir) == {f \in Files : dir[f] # None}

Init ==
  /\ raw \in Inputs /\ delivered = {}
  /\ out = [s \in Servers |-> [k \in Stages |-> NoFiles]]
  /\ bucket = [s \in Servers |-> [k \in Stages |-> NoFiles]]
  /\ local = [s \in Servers |-> [k \in Stages |-> NoFiles]]
  /\ marked = [s \in Servers |-> [k \in Stages |-> FALSE]]
  /\ stage = [s \in Servers |-> "verify1"]
  /\ phase = [s \in Servers |-> "poll"]
  /\ todo = [s \in Servers |-> {}]
-----------------------------------------------------------------------------
(* The commands. *)

\* Every line whose share set_data accepts becomes a line of packets.
Verify1(s, share) == Where(share, Decodes[s])

\* {d["id"]: d["payload"] for d in data}: of equal lines the last one stays.
Index(packets) == {i \in Ids : packets[i] > 0}

\* Mutant: a missing external packet is not noticed.
UsableInternalOnly(s, internal, external) == Index(internal) \cap Decodes[s]

\* Rows for which neither the indexes raise a KeyError nor set_data a
\* RuntimeError.
Usable(s, internal, external) == Index(internal) \cap Index(external) \cap Decodes[s]

Verify2(s, share, internal, external) == Where(share, Usable(s, internal, external))

\* Mutant: a line without packets is counted neither in error nor in total.
AggregateMatched(s, share, internal, external) ==
  LET lines == Where(share, Usable(s, internal, external))
      added == Where(lines, Honest)
  IN  [payload |-> added, error |-> Sum(share) - Sum(added), total |-> Sum(lines)]

\* isValid raises for a forged row before it is added.  error and total count
\* lines of the share file.
Aggregate(s, share, internal, external) ==
  LET added == Where(share, Usable(s, internal, external) \cap Honest)
  IN  [payload |-> added, error |-> Sum(share) - Sum(added), total |-> Sum(share)]

\* Only the histogram is published, not the counters of the two shares.
Publish(s, internal, external) ==
  LET shares == ShareOrder(s, internal.payload, external.payload)
  IN  TotalShareFinal(shares[1], shares[2])
-----------------------------------------------------------------------------
(* The script of one server. *)

Prev(k) == CASE k = "verify2" -> "verify1"
             [] k = "aggregate" -> "verify2"
             [] OTHER -> "aggregate"
Following(k) == CASE k = "verify1" -> "verify2"
                  [] k = "verify2" -> "aggregate"
                  [] OTHER -> "publish"

Internal(s) == out[s][Prev(stage[s])]
External(s) == local[s][Prev(stage[s])]
Goto(s, ph) == phase' = [phase EXCEPT ![s] = ph]

Output(s, f) ==
  CASE stage[s] = "verify1" -> Verify1(s, raw[s][f])
    [] stage[s] = "verify2" -> Verify2(s, raw[s][f], Internal(s)[f], External(s)[f])
    [] stage[s] = "aggregate" -> Aggregate(s, raw[s][f], Internal(s)[f], External(s)[f])
    [] OTHER -> Publish(s, Internal(s)[f], External(s)[f])

\* Mutant: the marker is not waited for.
ArrivedUnmarked(s) == TRUE

Arrived(s) == IF stage[s] = "verify1" THEN s \in delivered ELSE marked[s][Prev(stage[s])]

\* list_partitions: the server's own input of the stage.
Partitions(s) == Existing(IF stage[s] = "verify1" THEN raw[s] ELSE Internal(s))

\* The client copies the marker after all share files (client.sh).
Deliver(s) ==
  /\ s \notin delivered
  /\ delivered' = delivered \cup {s}
  /\ UNCHANGED <<raw, out, bucket, local, marked, stage, phase, todo>>

\* fetch_input_blocked copies what is next to the marker; list_partitions then
\* lists the server's own input.  The copy of the share files stays raw.
Fetch(s) ==
  /\ phase[s] = "poll" /\ Arrived(s)
  /\ local' = IF stage[s] = "verify1" THEN local
              ELSE [local EXCEPT ![s][Prev(stage[s])] = bucket[s][Prev(stage[s])]]
  /\ todo' = [todo EXCEPT ![s] = Partitions(s)]
  /\ Goto(s, "run")
  /\ UNCHANGED <<raw, delivered, out, bucket, marked, stage>>

\* poll_for_data runs out of retries.  How many it has made is left open.
GiveUp(s) ==
  /\ phase[s] = "poll" /\ ~Arrived(s)
  /\ Goto(s, "timeout")
  /\ UNCHANGED <<raw, delivered, out, bucket, local, marked, stage, todo>>

\* --input-external must exist, and the two shares must be in the right order.
Runs(s, f) ==
  /\ stage[s] # "verify1" => External(s)[f] # None
  /\ stage[s] = "publish" => Combinable(s)

RunCommand(s, f) ==
  /\ phase[s] = "run" /\ f \in todo[s] /\ Runs(s, f)
  /\ out' = [out EXCEPT ![s][stage[s]][f] = Output(s, f)]
  /\ todo' = [todo EXCEPT ![s] = @ \ {f}]
  /\ UNCHANGED <<raw, delivered, bucket, local, marked, stage, phase>>

FailCommand(s, f) ==
  /\ phase[s] = "run" /\ f \in todo[s] /\ ~Runs(s, f)
  /\ Goto(s, "failed")
  /\ UNCHANGED <<raw, delivered, out, bucket, local, marked, stage, todo>>

EndLoop(s) ==
  /\ phase[s] = "run" /\ todo[s] = {}
  /\ Goto(s, "send")
  /\ UNCHANGED <<raw, delivered, out, bucket, local, marked, stage, todo>>

\* Histograms go to $BUCKET_INTERNAL, all else to $BUCKET_EXTERNAL.
Target(s) == IF stage[s] = "publish" THEN s ELSE Peer(s)

\* mc cp --recursive to that bucket, file by file ...
SendFile(s, f) ==
  /\ phase[s] = "send"
  /\ out[s][stage[s]][f] # bucket[Target(s)][stage[s]][f]
  /\ bucket' = [bucket EXCEPT ![Target(s)][stage[s]][f] = out[s][stage[s]][f]]
  /\ UNCHANGED <<raw, delivered, out, local, marked, stage, phase, todo>>

\* ... then the marker.
Mark(s) ==
  /\ phase[s] = "send" /\ bucket[Target(s)][stage[s]] = out[s][stage[s]]
  /\ marked' = [marked EXCEPT ![Target(s)][stage[s]] = TRUE]
  /\ stage' = [stage EXCEPT ![s] = Following(@)]
  /\ Goto(s, IF stage[s] = "publish" THEN "done" ELSE "poll")
  /\ UNCHANGED <<raw, delivered, out, bucket, local, todo>>

Step(s) ==
  \/ Fetch(s) \/ GiveUp(s) \/ EndLoop(s) \/ Mark(s)
  \/ \E f \in Files : RunCommand(s, f) \/ FailCommand(s, f) \/ SendFile(s, f)

Next == \E s \in Servers : Deliver(s) \/ Step(s)

Spec == Init /\ [][Next]_vars
FairSpec == Spec /\ \A s \in Servers : WF_vars(Step(s))
-----------------------------------------------------------------------------
(* Properties. *)

\* The rows of a file that both servers can use, and whether both hold the
\* valid ones among them equally often.
Share(s, f) == IF raw[s][f] = None THEN NoRows ELSE raw[s][f]
Joint(f) == Index(Verify1(A, Share(A, f))) \cap Index(Verify1(B, Share(B, f)))
Balanced(f) == \A i \in Joint(f) \cap Honest : Share(A, f)[i] = Share(B, f)[i]

Directories == [Servers -> [Stages -> [Files -> Rows \cup Totals \cup {Garbled, None}]]]

TypeOK ==
  /\ raw \in Inputs /\ delivered \subseteq Servers
  /\ out \in Directories /\ bucket \in Directories /\ local \in Directories
  /\ marked \in [Servers -> [Stages -> BOOLEAN]]
  /\ stage \in [Servers -> Stages]
  /\ phase \in [Servers -> Phases]
  /\ todo \in [Servers -> SUBSET Files]
  /\ \A s \in Servers : todo[s] \subseteq Existing(raw[s])

\* A published histogram counts each line of a valid row both servers can use,
\* as often as the line is repeated; if the servers do not hold it equally
\* often, the shares do not fit and the histogram means nothing (verify1 to
\* publish, commands.py 103-376).
ExactHistogram ==
  \A s \in Servers, f \in Files :
    out[s]["publish"][f] # None =>
      out[s]["publish"][f] =
        IF Balanced(f) THEN Where(Share(s, f), Joint(f) \cap Honest) ELSE Garbled

\* Although each server counts errors against a file of its own, and a row may
\* fail at the peer only, the counters of the two servers reconcile: what is
\* not an error is the same number of lines (commands.py 291-315).
CountersReconcile ==
  \A f \in Files :
    LET a == out[A]["aggregate"][f]
        b == out[B]["aggregate"][f]
    IN  a # None /\ b # None /\ Balanced(f) =>
          /\ a.total - a.error = b.total - b.error
          /\ a.total = Sum(raw[A][f]) /\ b.total = Sum(raw[B][f])

\* The Spark jobs of the same stages on the same rows.
SparkVerify1(s, f) == Verify1Rows(s, Share(s, f))
SparkVerify2(s, f) ==
  Verify2Rows(s, Share(s, f), SparkVerify1(s, f), SparkVerify1(Peer(s), f))
SparkAggregate(s, f) ==
  AggregateRows(Share(s, f), SparkVerify2(s, f), SparkVerify2(Peer(s), f))

\* A job fails on a directory without rows, which has no schema to select from;
\* what follows it at either server then has no input.
SparkReads(s, f) ==
  /\ Present(Share(s, f)) /\ Present(SparkVerify1(s, f))
  /\ Present(SparkVerify2(s, f)) /\ Present(SparkAggregate(s, f))
SparkPublish(s, f) ==
  IF \A t \in Servers : SparkReads(t, f)
  THEN UdfPublish(s, SparkAggregate(s, f), SparkAggregate(Peer(s), f))
  ELSE None
Repeated(f) == \E s \in Servers, i \in Ids : Share(s, f)[i] > 1

\* Where the two implementations of the stages agree, and where they do not.
\* Spark publishes nothing just if no row is joint, and then the commands
\* publish zeros.  Otherwise they agree on whether the shares fit, and on the
\* histogram if no row is repeated: repeated rows are counted as often as the
\* joins multiply them by Spark, and once per line here (spark/commands.py 282,
\* 310-316, 361-366, prio/commands.py 208-237).
AgreesWithSpark ==
  \A s \in Servers, f \in Files :
    LET histogram == out[s]["publish"][f]
        spark == SparkPublish(s, f)
    IN  histogram # None =>
          /\ spark = None <=> Joint(f) = {}
          /\ spark = None => histogram = NoRows
          /\ spark # None => (histogram = Garbled <=> spark = Garbled)
          /\ spark # None /\ ~Repeated(f) => histogram = spark

\* Both scripts come to an end, and one fails only for want of a file that its
\* peer has never had.
StopsInOrder ==
  \A s \in Servers : <>[](
    \/ phase[s] \in {"done", "timeout"}
    \/ phase[s] = "failed" /\ \E f \in Existing(raw[s]) : raw[Peer(s)][f] = None)

\* Why ExactHistogram holds: the content of every file is fixed by the share
\* files, whoever has written or copied it so far.
Yield(s, k, f) ==
  CASE k = "verify1" -> Verify1(s, Share(s, f))
    [] k = "verify2" -> Where(Share(s, f), Joint(f))
    [] k = "aggregate" ->
         [payload |-> Where(Share(s, f), Joint(f) \cap Honest),
          error |-> Sum(Share(s, f)) - Sum(Where(Share(s, f), Joint(f) \cap Honest)),
          total |-> Sum(Share(s, f))]
    [] OTHER ->
         IF Balanced(f) THEN Where(Share(s, f), Joint(f) \cap Honest) ELSE Garbled
Sender(s, k) == IF k = "publish" THEN s ELSE Peer(s)
FilesExact ==
  \A s \in Servers, k \in Stages, f \in Files :
    /\ out[s][k][f] \in {None, Yield(s, k, f)}
    /\ bucket[s][k][f] \in {None, Yield(Sender(s, k), k, f)}
    /\ local[s][k][f] \in {None, Yield(Peer(s), k, f)}

\* Files come from share files, one stage after the other.
FilesFollow ==
  \A s \in Servers, k \in Stages, f \in Files :
    /\ out[s][k][f] # None => raw[s][f] # None
    /\ bucket[s][k][f] # None => raw[Sender(s, k)][f] # None
    /\ local[s][k][f] # None => raw[Peer(s)][f] # None
    /\ phase[s] = "run" /\ f \in todo[s] /\ stage[s] # "verify1" =>
         Internal(s)[f] # None
=============================================================================
