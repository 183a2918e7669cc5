------------------------------ MODULE Staging ------------------------------
(***************************************************************************)
(* The daily job that turns pings into share data for both servers         *)
(* (prio_processor/origin/staging.py), run again when it has failed or     *)
(* when more pings of the day have arrived.                                *)
(*                                                                         *)
(* The job numbers the submissions of a batch in no particular order; the  *)
(* number is the key by which the servers will match their shares.  A task *)
(* writes a range of keys, for both servers.  When a node is lost, Spark   *)
(* computes its rows again for the tasks still to run: another order gives *)
(* the same keys to other submissions.                                     *)
(*                                                                         *)
(* The commit is not atomic: one directory after the other is deleted and  *)
(* filled with the files the tasks have staged, an object at a time.       *)
(***************************************************************************)
EXTENDS Naturals, FiniteSets

CONSTANTS
  Servers,     \* keys of a "prio" entry: each entry has a share for each
  Pings,       \* document ids
  Subs,        \* entries of prioData of all pings
  PingOf,      \* the ping an entry belongs to
  BatchOf,     \* its encoding
  MaxTasks,    \* bound: partitions of the job
  MaxCopies,   \* bound: deliveries of a ping
  MaxRuns      \* bound: runs of the job

ASSUME EntriesAreOfPings == PingOf \in [Subs -> Pings]
ASSUME EntriesAreFinite == IsFiniteSet(Subs)
ASSUME TasksArePositive == MaxTasks \in Nat \ {0}
ASSUME CopiesAreNat == MaxCopies \in Nat

Batches == {BatchOf[u] : u \in Subs}
Keys == 1..(MaxCopies * Cardinality(Subs))
Tasks == 1..MaxTasks
Lines == [key : Keys, sub : Subs]

VARIABLES
  messages,    \* how often each ping has been delivered for the day
  id,          \* row_number of each entry, as last computed
  task,        \* the task of each <<batch, key>>, by range
  left,        \* tasks that have not written yet
  written,     \* written[s][b]: lines the tasks have written
  output,      \* output[s][b]: lines in the output directory
  commit,      \* how far the commit is with each directory
  status,
  runs,
  recomputed   \* rows were computed again in this run

vars == <<messages, id, task, left, written, output, commit, status, runs, recomputed>>

Empty == [s \in Servers |-> [b \in Batches |-> {}]]
Directories == Servers \X Batches
Staged == [d \in Directories |-> "staged"]

Init ==
  /\ messages = [p \in Pings |-> 0]
  /\ id = [u \in {} |-> 0] /\ task = [x \in {} |-> 0] /\ left = {}
  /\ written = Empty /\ output = Empty /\ commit = Staged
  /\ status = "idle" /\ runs = 0 /\ recomputed = FALSE
-----------------------------------------------------------------------------
\* Pings that arrive while a run is under way are for the next one, and are
\* taken to arrive before it.
Arrive(p) ==
  /\ status # "running" /\ runs < MaxRuns
  /\ messages[p] < MaxCopies
  /\ messages' = [messages EXCEPT ![p] = @ + 1]
  /\ status' = "idle"
  /\ UNCHANGED <<id, task, left, written, output, commit, runs, recomputed>>

\* An entry of each copy of a ping.
Copies(pings) == {r \in Subs \X (1..MaxCopies) : r[2] <= pings[PingOf[r[1]]]}

\* Mutant: duplicates are dropped after explode, which leaves one entry of a ping.
DropExploded(copies) ==
  {r \in copies : r[2] = 1 /\ r[1] = CHOOSE u \in Subs : PingOf[u] = PingOf[r[1]]}

\* dropDuplicates(["id"]) keeps one copy, all its entries; which one makes no
\* difference.
DropDuplicates(copies) == {r \in copies : r[2] = 1}

Rows(pings) == DropDuplicates(Copies(pings))
InBatch(rows, b) == {r \in rows : BatchOf[r[1]] = b}

\* row_number over each batch, in any order.
Numberings(rows) ==
  {f \in [rows -> {k \in Keys : k <= Cardinality(rows)}] :
     \A b \in Batches :
       {f[r] : r \in InBatch(rows, b)} = 1..Cardinality(InBatch(rows, b))}

\* estimate_num_partitions and repartitionByRange: keys of a batch are cut into
\* ranges.
Ranges(rows) ==
  LET keyed == {x \in Batches \X Keys : x[2] <= Cardinality(InBatch(rows, x[1]))}
  IN  {f \in [keyed -> Tasks] :
         \A x, y \in keyed : x[1] = y[1] /\ x[2] <= y[2] => f[x] <= f[y]}

\* The sum over no shares is null, and multiplying it raises.
NoSize(rows) == rows = {}

\* The day is read, and the size of its shares estimated in a job of its own.
Run ==
  /\ status # "running" /\ runs < MaxRuns
  /\ runs' = runs + 1 /\ recomputed' = FALSE
  /\ written' = Empty /\ commit' = Staged
  /\ LET rows == Rows(messages) IN
       \/ /\ NoSize(rows)
          /\ status' = "failed" /\ UNCHANGED <<id, task, left>>
       \/ /\ ~NoSize(rows)
          /\ status' = "running" /\ left' = Tasks
          /\ id' \in Numberings(rows) /\ task' \in Ranges(rows)
  /\ UNCHANGED <<messages, output>>

\* Mutant: rows are cut into ranges after they are split, for each server anew.
LinesOfSplit(t, s, b) ==
  {[key |-> id[r], sub |-> r[1]] : r \in {q \in InBatch(DOMAIN id, b) :
     task[<<b, id[q]>>] = IF s = "b" THEN MaxTasks + 1 - t ELSE t}}

\* What task t writes for server s: explode keeps both shares of a row in one
\* task.
LinesOf(t, s, b) ==
  {[key |-> id[r], sub |-> r[1]] : r \in {q \in InBatch(DOMAIN id, b) : task[<<b, id[q]>>] = t}}

WriteTask(t) ==
  /\ status = "running" /\ t \in left
  /\ left' = left \ {t}
  /\ written' = [s \in Servers |-> [b \in Batches |-> written[s][b] \cup LinesOf(t, s, b)]]
  /\ UNCHANGED <<messages, id, task, output, commit, status, runs, recomputed>>

\* A node is lost with the rows that tasks have yet to read.
Recompute ==
  /\ status = "running" /\ left # {}
  /\ id' \in Numberings(Rows(messages)) /\ id' # id
  /\ recomputed' = TRUE
  /\ UNCHANGED <<messages, task, left, written, output, commit, status, runs>>

\* Mutant: files are moved before the last task has written.
Written(t) == Cardinality(t) <= 1

\* The commit starts when every task has written.
AllWritten(t) == t = {}

\* partitionOverwriteMode=dynamic: a directory is replaced if the run has
\* written to it, and otherwise left as it is.
InPlace(d) == commit[d] = "replaced" \/ written[d[1]][d[2]] = {}

\* Mutant: files are moved when the deletion has begun.
PartlyGone(lines) == TRUE

Gone(lines) == lines = {}

\* One directory at a time: what is there is deleted, an object or more per
\* step, and any part of it may still be to go.
Delete(s, b) ==
  /\ status = "running" /\ AllWritten(left) /\ written[s][b] # {}
  /\ commit[<<s, b>>] \in {"staged", "deleting"}
  /\ \A d \in Directories \ {<<s, b>>} : commit[d] \in {"staged", "replaced"}
  /\ \E rest \in SUBSET output[s][b] :
       /\ rest = output[s][b] => rest = {}
       /\ output' = [output EXCEPT ![s][b] = rest]
       /\ commit' = [commit EXCEPT ![<<s, b>>] = IF Gone(rest) THEN "filling" ELSE "deleting"]
  /\ UNCHANGED <<messages, id, task, left, written, status, runs, recomputed>>

\* The file that task t has staged for a directory.
File(s, b, t) == {line \in written[s][b] : task[<<b, line.key>>] = t}

Move(s, b, t) ==
  /\ status = "running" /\ commit[<<s, b>>] = "filling"
  /\ ~(File(s, b, t) \subseteq output[s][b])
  /\ output' = [output EXCEPT ![s][b] = @ \cup File(s, b, t)]
  /\ commit' = IF written[s][b] \subseteq output'[s][b]
                THEN [commit EXCEPT ![<<s, b>>] = "replaced"] ELSE commit
  /\ UNCHANGED <<messages, id, task, left, written, status, runs, recomputed>>

Finish ==
  /\ status = "running" /\ AllWritten(left)
  /\ \A d \in Directories : InPlace(d)
  /\ status' = "done"
  /\ UNCHANGED <<messages, id, task, left, written, output, commit, runs, recomputed>>

Crash ==
  /\ status = "running" /\ runs < MaxRuns
  /\ status' = "failed"
  /\ UNCHANGED <<messages, id, task, left, written, output, commit, runs, recomputed>>

Work ==
  \/ \E t \in Tasks : WriteTask(t)
  \/ \E s \in Servers, b \in Batches : Delete(s, b) \/ \E t \in Tasks : Move(s, b, t)
  \/ Finish

Next == (\E p \in Pings : Arrive(p)) \/ Run \/ Recompute \/ Crash \/ Work

Spec == Init /\ [][Next]_vars
-----------------------------------------------------------------------------
(* Properties. *)

KeysOf(lines) == {line.key : line \in lines}
SubsOf(lines) == {line.sub : line \in lines}
Submitted(b) == {u \in Subs : BatchOf[u] = b /\ messages[PingOf[u]] > 0}

\* The outcome of a run that succeeds is share data the servers can match:
\* under one key they hold shares of the same submission, whatever was
\* computed twice, and whatever earlier runs have left (staging.py 119-123).
Matched ==
  status = "done" =>
    \A b \in Batches, s, t \in Servers :
      \A x \in output[s][b], y \in output[t][b] : x.key = y.key => x.sub = y.sub

\* "The partitions for each server should contain the same set of join keys",
\* and the keys of a batch are 1, 2, ... without a gap: the number of lines is
\* that of the submissions even if some are lost (staging.py 122-135).
KeysComplete ==
  status = "done" =>
    \A s \in Servers, b \in Batches : KeysOf(output[s][b]) = 1..Cardinality(Submitted(b))

\* Unless rows were computed twice, each submission is there once, however
\* often its ping was delivered (staging.py 127-136).
EachOnce ==
  status = "done" /\ ~recomputed =>
    \A s \in Servers, b \in Batches :
      /\ SubsOf(output[s][b]) = Submitted(b)
      /\ Cardinality(output[s][b]) = Cardinality(Submitted(b))

\* No directory has two lines under one key at any time: not while the commit
\* replaces it, not when a crash has left it half deleted or half filled, and
\* not after the run that follows.  The join of verify would multiply the rows
\* of such a key (staging.py 130-135, 149-152, 185, spark/commands.py 310-316).
NoKeyTwice ==
  \A s \in Servers, b \in Batches :
    \A x, y \in output[s][b] : x.key = y.key => x = y
=============================================================================
