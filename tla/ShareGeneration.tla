-------------------------- MODULE ShareGeneration --------------------------
(***************************************************************************)
(* Test data for the two servers: the commands generate and                *)
(* generate_integration (prio_processor/spark/commands.py), the script     *)
(* bin/generate that mirrors the second one's output to the two ingest     *)
(* buckets, and the command encode_shares of the Spark package.            *)
(*                                                                         *)
(* Encoding a row draws new shares, and its id is a new uuid: when Spark   *)
(* evaluates a row again, because the node that had computed it was lost   *)
(* or the job is run anew, the row comes out as another line, with an id   *)
(* and shares of its own.                                                  *)
(***************************************************************************)
EXTENDS Naturals, FiniteSets

CONSTANTS
  A, B,            \* server ids
  Configured,      \* batch ids of the configuration, as numbers for their order
  BadId, Single,   \* the batch outside the configuration; the batch of generate
  NRows, NDrop, Scale,
  MaxTasks,        \* bound: partitions of a job
  MaxEvaluations   \* bound: evaluations, of all rows or of some again

ASSUME SomeRows == NRows \in Nat \ {0}  \* "assert n_rows > 0"
ASSUME BoundsType == MaxEvaluations \in Nat /\ MaxTasks \in Nat \ {0}

Servers == {A, B}
Tasks == 1..MaxTasks

VARIABLES
  command,     \* what was started last
  phase,
  eval,        \* the evaluation each row was last computed in
  evals,       \* evaluations so far
  task,        \* the range of ids each row fell into
  left,        \* tasks that have not written yet
  files,       \* files[s]: lines in the directory server_id=s
  bucket,      \* bucket[s]: lines in the ingest bucket of s
  marked,      \* servers with _SUCCESS in their bucket
  recomputed   \* rows were evaluated again in this run

vars == <<command, phase, eval, evals, task, left, files, bucket, marked, recomputed>>

Init ==
  /\ command = "none" /\ phase = "idle"
  /\ eval = [r \in {} |-> 0] /\ evals = 0
  /\ task = [r \in {} |-> 0] /\ left = {}
  /\ files = [s \in Servers |-> {}] /\ bucket = [s \in Servers |-> {}]
  /\ marked = {} /\ recomputed = FALSE
-----------------------------------------------------------------------------
(* The rows. *)

\* generate: n_rows random vectors, each repeated scale times.
GenerateRows == {[batch |-> Single, n |-> n, copy |-> c] : n \in 1..NRows, c \in 1..Scale}

\* collected_rows[n_drop_batch:], sorted in reverse: the last batches are dropped.
KeptBatches == {b \in Configured : Cardinality({c \in Configured : c > b}) >= NDrop}

IntegrationRows ==
  {[batch |-> b, n |-> n, copy |-> 1] : b \in KeptBatches \cup {BadId}, n \in 1..NRows}

RowsOf(cmd) == IF cmd = "generate" THEN GenerateRows ELSE IntegrationRows

\* A new id for each evaluation of a row, copies told apart.
Uuid(k, r) == <<k, r>>

\* What each server gets of a row: its share, drawn in the same evaluation as
\* the id.  Every row is encoded, the last of a batch as well: its vector has an
\* entry more, and so has the configuration it is encoded under.  Copies of
\* generate are copies of the shares, under ids of their own.
Line(r) == [row |-> r, id |-> Uuid(eval[r], r)]

\* Mutant: rows are cut into ranges after they are split, for each server anew.
LinesSplit(s, t) ==
  {Line(r) : r \in {q \in DOMAIN eval : task[q] = IF s = A THEN t ELSE MaxTasks + 1 - t}}

\* Both lines of a row are in the partition of its id.
LinesOf(s, t) == {Line(r) : r \in {q \in DOMAIN eval : task[q] = t}}
-----------------------------------------------------------------------------
(* The jobs.  Evaluations that only serve to estimate the size or to sample   *)
(* the ids leave nothing behind.                                              *)

\* Mutant: the job adds to the directory it finds.
Kept == files

\* The overwriting write removes the old directory first.
Emptied == [s \in Servers |-> {}]

Start(cmd) ==
  /\ phase \in {"idle", "done", "failed"} /\ evals < MaxEvaluations
  /\ command' = cmd
  /\ evals' = evals + 1
  /\ eval' = [r \in RowsOf(cmd) |-> evals']
  /\ task' \in [RowsOf(cmd) -> Tasks]
  /\ phase' = "write" /\ left' = Tasks
  /\ files' = Emptied /\ recomputed' = FALSE
  /\ UNCHANGED <<bucket, marked>>

WriteTask(t) ==
  /\ phase = "write" /\ t \in left
  /\ left' = left \ {t}
  /\ files' = [s \in Servers |-> files[s] \cup LinesOf(s, t)]
  /\ phase' = IF left' # {} THEN "write" ELSE IF command = "generate" THEN "done" ELSE "mirror"
  /\ UNCHANGED <<command, eval, evals, task, bucket, marked, recomputed>>

\* Some rows are evaluated again, and fall into the ranges of their new ids;
\* a task that has written does not write again.
Recompute ==
  /\ phase = "write" /\ evals < MaxEvaluations
  /\ evals' = evals + 1
  /\ \E again \in SUBSET DOMAIN eval \ {{}} :
       /\ eval' = [r \in DOMAIN eval |-> IF r \in again THEN evals' ELSE eval[r]]
       /\ \E anew \in [again -> Tasks] :
            task' = [r \in DOMAIN eval |-> IF r \in again THEN anew[r] ELSE task[r]]
  /\ recomputed' = TRUE
  /\ UNCHANGED <<command, phase, left, files, bucket, marked>>

\* main mirrors the first directory, then the second.
Turn(s) == phase = "mirror" /\ (s = B => A \in marked /\ bucket[A] = files[A])
OfBatch(lines, b) == {l \in lines : l.row.batch = b}

\* mc mirror --remove --overwrite
MirrorReplacing(s, b) == (bucket[s] \ OfBatch(bucket[s], b)) \cup OfBatch(files[s], b)

MirrorBatch(s, b) ==
  /\ Turn(s) /\ bucket[s] # files[s]
  /\ bucket' = [bucket EXCEPT ![s] = MirrorReplacing(s, b)]
  /\ marked' \in {marked, marked \ {s}}
  /\ UNCHANGED <<command, phase, eval, evals, task, left, files, recomputed>>

Mark(s) ==
  /\ Turn(s) /\ bucket[s] = files[s] /\ (s = A => ~(A \in marked))
  /\ marked' = marked \cup {s}
  /\ phase' = IF s = B THEN "done" ELSE phase
  /\ UNCHANGED <<command, eval, evals, task, left, files, bucket, recomputed>>

Crash ==
  /\ phase \in {"write", "mirror"}
  /\ phase' = "failed"
  /\ UNCHANGED <<command, eval, evals, task, left, files, bucket, marked, recomputed>>

\* prio-spark encode-shares: udf.encode is handed a data frame and iterates
\* over its column names, and the row it returns has no "shares": the command
\* raises before it writes.
SparkEncodeShares ==
  /\ phase \in {"idle", "done", "failed"}
  /\ command' = "encode_shares" /\ phase' = "failed"
  /\ UNCHANGED <<eval, evals, task, left, files, bucket, marked, recomputed>>

Batches == Configured \cup {BadId}
Work ==
  \/ \E t \in Tasks : WriteTask(t)
  \/ \E s \in Servers : Mark(s)
  \/ \E s \in Servers, b \in Batches : MirrorBatch(s, b)

Next ==
  \/ \E cmd \in {"generate", "generate_integration"} : Start(cmd)
  \/ SparkEncodeShares \/ Recompute \/ Crash \/ Work

Spec == Init /\ [][Next]_vars
-----------------------------------------------------------------------------
(* Properties. *)

\* Lines with each row of the command once, and nothing else.
Once(lines) ==
  /\ {l.row : l \in lines} = RowsOf(command)
  /\ \A x, y \in lines : x.row = y.row => x = y

\* A job whose rows were evaluated once ends with each row once in what either
\* server is given, whatever the task it fell into and whatever an earlier job,
\* complete or not, had left in the directories and the buckets.  A job some of
\* whose rows were evaluated again may lose or repeat these (commands.py 93-104,
\* 182-194, bin/generate 23-31, 54-61).
EachRowOnce ==
  phase = "done" /\ ~recomputed =>
    \A s \in Servers :
      Once(files[s]) /\ (command = "generate_integration" => Once(bucket[s]))

\* When the script ends, both buckets have the same rows, those of the last job
\* and no others, although rows may have been evaluated again between two tasks
\* (commands.py 182-194, bin/generate 23-31, 54-61).
SameRows ==
  phase = "done" /\ command = "generate_integration" =>
    /\ \A s \in Servers : bucket[s] = files[s] /\ s \in marked
    /\ {l.id : l \in bucket[A]} = {l.id : l \in bucket[B]}
=============================================================================
