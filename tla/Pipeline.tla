------------------------------ MODULE Pipeline ------------------------------
(***************************************************************************)
(* The batched pipeline of bin/process, run by two servers that only share *)
(* object-store buckets.  Each server takes its own rows through verify1,  *)
(* verify2, aggregate and publish.  A stage waits for a _SUCCESS marker,   *)
(* runs one Spark job per configured batch, mirrors its output into the    *)
(* peer's shared bucket one object at a time, and marks it with _SUCCESS.  *)
(* A process may be killed between any two steps, and may be started again *)
(* from the first stage over whatever the buckets then hold.               *)
(***************************************************************************)
EXTENDS RowData

CONSTANTS
  Batches,     \* batch ids of DATA_CONFIG, the same at both servers
  Inputs,      \* possible contents of the ingest buckets
  RetryLimit,  \* RETRY_LIMIT
  MaxRuns,     \* how often a server is started, a bound of the model
  None         \* no value

Mirrored == {"verify1", "verify2", "aggregate"}
Stages == Mirrored \cup {"publish"}
Running == {"wait", "batches", "job", "mirror"}
Stopped == {"done", "timeout", "aborted", "crashed"}

ASSUME InputsType == Inputs \subseteq [Servers -> [Batches -> SUBSET Ids]]
ASSUME BoundsType == RetryLimit \in Nat /\ MaxRuns \in Nat \ {0}

\* A part file of one job's output, named by the run that wrote it, and the
\* _SUCCESS file Spark leaves in the directory of the batch.
Part(b, r, rows) == [batch |-> b, run |-> r, rows |-> rows]
Commit(b) == [batch |-> b, run |-> 0, rows |-> NoRows]
Objects == [batch : Batches, run : Nat, rows : Rows]
Directories == {D \in SUBSET Objects : IsFiniteSet(D)}
Of(dir, b) == {o \in dir : o.batch = b}
Parts(dir, b) == {o \in Of(dir, b) : o.run # 0}

NoJob == [batch |-> None, listed |-> {}]

VARIABLES
  raw,        \* raw[s][b]: ids of the rows in the ingest bucket, {} if no batch
  delivered,  \* delivered[s]: the ingest bucket is complete and marked
  private,    \* private[s][k]: objects of stage k in the private bucket
  shared,     \* shared[s][k]: objects of the peer's stage k in s's shared bucket
  marked,     \* marked[s][k]: _SUCCESS is in shared[s][k]
  published,  \* published[s][b]: record in processed/publish, or None
  stage,      \* the shell function a server executes
  phase,      \* where in that function
  todo,       \* batches the loop has not come to
  job,        \* the batch being processed and the external parts it listed
  retries,    \* failed polls of the current wait_for_data
  run,        \* how often the server was started
  dirty       \* history: a rerun touched data its peer might still read

buckets == <<private, shared, marked, published>>
procs == <<stage, phase, todo, job, retries, run>>
vars == <<raw, delivered, buckets, procs, dirty>>

TypeOK ==
  /\ raw \in Inputs
  /\ delivered \in [Servers -> BOOLEAN]
  /\ private \in [Servers -> [Mirrored -> Directories]]
  /\ shared \in [Servers -> [Mirrored -> Directories]]
  /\ marked \in [Servers -> [Mirrored -> BOOLEAN]]
  /\ published \in [Servers -> [Batches -> Reports \cup {None}]]
  /\ stage \in [Servers -> Stages]
  /\ phase \in [Servers -> Running \cup Stopped]
  /\ todo \in [Servers -> SUBSET Batches]
  /\ job \in [Servers -> [batch : Batches \cup {None}, listed : Directories]]
  /\ retries \in [Servers -> 0..(RetryLimit + 1)]
  /\ run \in [Servers -> 1..MaxRuns]
  /\ dirty \in BOOLEAN
  /\ \A s \in Servers : phase[s] = "job" => job[s].batch \in Batches
  /\ \A s \in Servers : retries[s] > RetryLimit => phase[s] = "timeout"
  /\ \A s \in Servers : phase[s] = "mirror" => stage[s] \in Mirrored

Init ==
  /\ raw \in Inputs
  /\ delivered = [s \in Servers |-> FALSE]
  /\ private = [s \in Servers |-> [k \in Mirrored |-> {}]]
  /\ shared = [s \in Servers |-> [k \in Mirrored |-> {}]]
  /\ marked = [s \in Servers |-> [k \in Mirrored |-> FALSE]]
  /\ published = [s \in Servers |-> [b \in Batches |-> None]]
  /\ stage = [s \in Servers |-> "verify1"]
  /\ phase = [s \in Servers |-> "wait"]
  /\ todo = [s \in Servers |-> {}]
  /\ job = [s \in Servers |-> NoJob]
  /\ retries = [s \in Servers |-> 0]
  /\ run = [s \in Servers |-> 1]
  /\ dirty = FALSE

-----------------------------------------------------------------------------
(* What a stage reads. *)

Prev(k) == CASE k = "verify2" -> "verify1"
             [] k = "aggregate" -> "verify2"
             [] k = "publish" -> "aggregate"
             [] OTHER -> k
Following(k) == CASE k = "verify1" -> "verify2"
                  [] k = "verify2" -> "aggregate"
                  [] OTHER -> "publish"

\* Mutant: a stage waits for the marker of the server's own output.
InputMarkedOwn(s) ==
  IF stage[s] = "verify1" THEN delivered[s]
                          ELSE marked[Peer(s)][Prev(stage[s])]

\* wait_for_data stats the ingest marker for verify1, else the peer's marker.
InputMarked(s) ==
  IF stage[s] = "verify1" THEN delivered[s] ELSE marked[s][Prev(stage[s])]

\* The loop's mc stat of the batch prefix looks at one input only: the
\* server's shares for verify1, the peer's output for the other stages.
HasInput(s, b) ==
  IF stage[s] = "verify1" THEN raw[s][b] # {}
                          ELSE Of(shared[s][Prev(stage[s])], b) # {}

InternalRows(s, b) == Load(Parts(private[s][Prev(stage[s])], b))
ExternalParts(s, b) ==
  IF stage[s] = "verify1" THEN {} ELSE Parts(shared[s][Prev(stage[s])], b)

\* Spark infers the schema of every input when it is opened, which fails for
\* a directory that is missing or holds no row.
Readable(s, b) ==
  /\ stage[s] # "publish" => raw[s][b] # {}
  /\ stage[s] # "verify1" => /\ Present(InternalRows(s, b))
                             /\ Present(Load(ExternalParts(s, b)))

JobRows(s, b) ==
  LET shares == RowSet(raw[s][b])
      external == Load(job[s].listed)
  IN  CASE stage[s] = "verify1" -> Verify1Rows(s, shares)
        [] stage[s] = "verify2" ->
             Verify2Rows(s, shares, InternalRows(s, b), external)
        [] OTHER -> AggregateRows(shares, InternalRows(s, b), external)
-----------------------------------------------------------------------------
(* One server. *)

Goto(s, ph) == phase' = [phase EXCEPT ![s] = ph]

\* The ingest bucket receives all batches and then the marker.  The pipeline
\* looks at neither before the marker is there, so both arrive in one step.
Deliver(s) ==
  /\ ~delivered[s]
  /\ delivered' = [delivered EXCEPT ![s] = TRUE]
  /\ UNCHANGED <<raw, buckets, procs, dirty>>

\* wait_for_data finds the marker.
FindData(s) ==
  /\ phase[s] = "wait" /\ InputMarked(s)
  /\ Goto(s, "batches")
  /\ todo' = [todo EXCEPT ![s] = Batches]
  /\ retries' = [retries EXCEPT ![s] = 0]
  /\ UNCHANGED <<raw, delivered, buckets, stage, job, run, dirty>>

\* Mutants: the counter is never incremented; one poll too many.
RetriedNever(n) == n
GivesUpLate(n) == n > RetryLimit + 1

\* wait_for_data sleeps after a failed stat, and gives up with exit 1 when the
\* count passes RETRY_LIMIT, without looking again.
Retried(n) == n + 1
GivesUp(n) == n > RetryLimit

PollAgain(s) ==
  /\ phase[s] = "wait" /\ ~InputMarked(s)
  /\ retries' = [retries EXCEPT ![s] = Retried(@)]
  /\ Goto(s, IF GivesUp(retries'[s]) THEN "timeout" ELSE "wait")
  /\ UNCHANGED <<raw, delivered, buckets, stage, todo, job, run, dirty>>

\* "data for ... does not exist, skipping..."
SkipBatch(s, b) ==
  /\ phase[s] = "batches" /\ b \in todo[s] /\ ~HasInput(s, b)
  /\ todo' = [todo EXCEPT ![s] = @ \ {b}]
  /\ UNCHANGED <<raw, delivered, buckets, stage, phase, job, retries, run, dirty>>

\* spark_submit opens and lists the inputs, then clears the output directory
\* (mode="overwrite").
StartJob(s, b) ==
  /\ phase[s] = "batches" /\ b \in todo[s] /\ HasInput(s, b) /\ Readable(s, b)
  /\ Goto(s, "job")
  /\ todo' = [todo EXCEPT ![s] = @ \ {b}]
  /\ job' = [job EXCEPT ![s] = [batch |-> b, listed |-> ExternalParts(s, b)]]
  /\ IF stage[s] = "publish"
     THEN /\ published' = [published EXCEPT ![s][b] = None]
          /\ UNCHANGED private
     ELSE /\ private' = [private EXCEPT ![s][stage[s]] = @ \ Of(@, b)]
          /\ UNCHANGED published
  /\ UNCHANGED <<raw, delivered, shared, marked, stage, retries, run, dirty>>

\* spark_submit fails on an input it cannot open; set -e ends the process.
RejectJob(s, b) ==
  /\ phase[s] = "batches" /\ b \in todo[s] /\ HasInput(s, b) /\ ~Readable(s, b)
  /\ Goto(s, "aborted")
  /\ UNCHANGED <<raw, delivered, buckets, stage, todo, job, retries, run, dirty>>

\* The tasks read the files listed before, which must all still be there, and
\* publish must hand the two aggregate shares over in the right order.
JobSucceeds(s) ==
  /\ job[s].listed \subseteq ExternalParts(s, job[s].batch)
  /\ stage[s] = "publish" => Combinable(s)

FinishStageJob(s) ==
  LET b == job[s].batch IN
  /\ phase[s] = "job" /\ stage[s] # "publish" /\ JobSucceeds(s)
  /\ private' = [private EXCEPT ![s][stage[s]] =
                   @ \cup {Part(b, run[s], JobRows(s, b)), Commit(b)}]
  /\ Goto(s, "batches")
  /\ job' = [job EXCEPT ![s] = NoJob]
  /\ UNCHANGED <<raw, delivered, shared, marked, published, stage, todo,
                 retries, run, dirty>>

\* publish takes the minimum payload on each side: of several external parts
\* any one may have it.
FinishPublishJob(s) ==
  LET b == job[s].batch IN
  /\ phase[s] = "job" /\ stage[s] = "publish" /\ JobSucceeds(s)
  /\ \E o \in job[s].listed :
       published' = [published EXCEPT ![s][b] =
                       PublishReport(s, InternalRows(s, b), o.rows)]
  /\ Goto(s, "batches")
  /\ job' = [job EXCEPT ![s] = NoJob]
  /\ UNCHANGED <<raw, delivered, private, shared, marked, stage, todo,
                 retries, run, dirty>>

\* The job fails after its output directory was cleared; set -e as above.
FailJob(s) ==
  /\ phase[s] = "job" /\ ~JobSucceeds(s)
  /\ Goto(s, "aborted")
  /\ job' = [job EXCEPT ![s] = NoJob]
  /\ UNCHANGED <<raw, delivered, buckets, stage, todo, retries, run, dirty>>

\* The batch loop is over: rsync_delete begins, or main returns.
EndLoop(s) ==
  /\ phase[s] = "batches" /\ todo[s] = {}
  /\ Goto(s, IF stage[s] = "publish" THEN "done" ELSE "mirror")
  /\ UNCHANGED <<raw, delivered, buckets, stage, todo, job, retries, run, dirty>>

-----------------------------------------------------------------------------
(* rsync_delete: one object at a time, in any order; then the marker. *)

Source(s) == private[s][stage[s]]
Target(s) == shared[Peer(s)][stage[s]]

CopyObject(s) ==
  /\ phase[s] = "mirror"
  /\ \E o \in Source(s) \ Target(s) :
       shared' = [shared EXCEPT ![Peer(s)][stage[s]] = @ \cup {o}]
  /\ UNCHANGED <<raw, delivered, private, marked, published, procs, dirty>>

RemoveObject(s) ==
  /\ phase[s] = "mirror"
  /\ \E o \in Target(s) \ Source(s) :
       shared' = [shared EXCEPT ![Peer(s)][stage[s]] = @ \ {o}]
  /\ UNCHANGED <<raw, delivered, private, marked, published, procs, dirty>>

\* The marker of an earlier run is on the receiving end and not in the source,
\* so --remove deletes it like any other object.
RemoveMarker(s) ==
  /\ phase[s] = "mirror" /\ marked[Peer(s)][stage[s]]
  /\ marked' = [marked EXCEPT ![Peer(s)][stage[s]] = FALSE]
  /\ UNCHANGED <<raw, delivered, private, shared, published, procs, dirty>>

\* Mutants: the marker does not wait for the mirror; the mirror runs without
\* --remove.
MirrorCompleteUnchecked(s) == TRUE
MirrorCompleteNoRemove(s) ==
  /\ Source(s) \subseteq Target(s)
  /\ ~marked[Peer(s)][stage[s]]

\* mc mirror returns once both ends agree.
MirrorComplete(s) ==
  /\ Source(s) = Target(s)
  /\ ~marked[Peer(s)][stage[s]]

\* touch _SUCCESS; mc cp _SUCCESS: the next function of main follows.
Mark(s) ==
  /\ phase[s] = "mirror" /\ MirrorComplete(s)
  /\ marked' = [marked EXCEPT ![Peer(s)][stage[s]] = TRUE]
  /\ stage' = [stage EXCEPT ![s] = Following(@)]
  /\ Goto(s, "wait")
  /\ UNCHANGED <<raw, delivered, private, shared, published, todo, job,
                 retries, run, dirty>>

\* mc refuses to mirror a source that does not exist, in some versions.
RejectMirror(s) ==
  /\ phase[s] = "mirror" /\ Source(s) = {}
  /\ Goto(s, "aborted")
  /\ UNCHANGED <<raw, delivered, buckets, stage, todo, job, retries, run, dirty>>

-----------------------------------------------------------------------------
(* The environment. *)

Crash(s) ==
  /\ phase[s] \in Running
  /\ Goto(s, "crashed")
  /\ job' = [job EXCEPT ![s] = NoJob]
  /\ UNCHANGED <<raw, delivered, buckets, stage, todo, retries, run, dirty>>

\* A rerun of s overwrites what the peer reads.  That can matter only if some
\* of it is marked as complete and the peer has not finished.
Unsafe(s) ==
  /\ \E k \in Mirrored : marked[Peer(s)][k]
  /\ phase[Peer(s)] # "done"

Restart(s) ==
  /\ phase[s] \in Stopped /\ run[s] < MaxRuns
  /\ run' = [run EXCEPT ![s] = @ + 1]
  /\ stage' = [stage EXCEPT ![s] = "verify1"]
  /\ Goto(s, "wait")
  /\ todo' = [todo EXCEPT ![s] = {}]
  /\ retries' = [retries EXCEPT ![s] = 0]
  /\ dirty' = (dirty \/ Unsafe(s))
  /\ UNCHANGED <<raw, delivered, buckets, job>>

Step(s) ==
  \/ FindData(s) \/ PollAgain(s)
  \/ \E b \in Batches : SkipBatch(s, b) \/ StartJob(s, b) \/ RejectJob(s, b)
  \/ FinishStageJob(s) \/ FinishPublishJob(s) \/ FailJob(s)
  \/ EndLoop(s)
  \/ CopyObject(s) \/ RemoveObject(s) \/ RemoveMarker(s) \/ Mark(s)
  \/ RejectMirror(s)

Next == \E s \in Servers : Deliver(s) \/ Step(s) \/ Crash(s) \/ Restart(s)

Spec == Init /\ [][Next]_vars

\* The operating system keeps a started process running; nothing obliges the
\* ingest data to arrive, a process to crash or anyone to restart it.
FairSpec == Spec /\ \A s \in Servers : WF_vars(Step(s))

-----------------------------------------------------------------------------
(* Properties. *)

\* Rows that both servers hold and can decode.
Joint(b) == raw[A][b] \cap raw[B][b] \cap Decodes[A] \cap Decodes[B]
Expected(b) == Report(Joint(b))
BadBatch(b) == Joint(b) = {} /\ (raw[A][b] # {} \/ raw[B][b] # {})
NothingToDo(s) == \A b \in Batches : raw[s][b] = {}

\* Exactness.  Whatever the interleaving, the crashes and the safe reruns, a
\* published record counts each row both servers could use exactly once, with
\* forged rows as errors: both publishers of a batch agree (publish, 192-215).
ExactReports ==
  ~dirty => \A s \in Servers, b \in Batches : published[s][b] \in {None, Expected(b)}

\* A server that returns from main has published every batch that has rows,
\* and none was skipped at one server and processed at the other: the "does
\* not exist, skipping" branches never lose a batch silently.
DoneHasEverything ==
  ~dirty => \A s \in Servers : phase[s] = "done" => \A b \in Batches :
    /\ ~BadBatch(b)
    /\ published[s][b] = IF Joint(b) = {} THEN None ELSE Expected(b)

\* set -e ends a server only because of its input: a batch with no row that
\* survives at both servers, or no batch at all.  No interleaving with the
\* peer's mirror, and no earlier crash, makes a Spark job fail.
AbortOnlyOnBadInput ==
  ~dirty => \A s \in Servers :
    phase[s] = "aborted" => NothingToDo(s) \/ \E b \in Batches : BadBatch(b)

\* The markers act as a barrier: while each server runs for the first time,
\* neither is ever more than one stage ahead of the other.
StageNo == [verify1 |-> 1, verify2 |-> 2, aggregate |-> 3, publish |-> 4]
Lockstep ==
  (\A s \in Servers : run[s] = 1) =>
    StageNo[stage[A]] - StageNo[stage[B]] \in -1..1

\* While a stage runs, its external input does not change under it: the marker
\* was read once, in wait_for_data, and stays true until the stage is over.
InputStays ==
  \A s \in Servers :
    phase[s] \in {"batches", "job"} /\ stage[s] # "verify1" /\ ~dirty' =>
      shared'[s][Prev(stage[s])] = shared[s][Prev(stage[s])]
StableInput == [][InputStays]_vars

\* wait_for_data waits "for a completed batch of data, signaled by the
\* appearance of a _SUCCESS file" (69-70): every batch directory a running stage
\* finds in its external input is the output of exactly one run.
CompletedBatches ==
  \A s \in Servers :
    phase[s] \in {"batches", "job"} /\ stage[s] # "verify1" =>
      \A b \in Batches :
        LET dir == shared[s][Prev(stage[s])]
        IN  Of(dir, b) # {} => Cardinality(Parts(dir, b)) = 1

\* "we may be missing data sometimes" (bin/generate, 39): a batch that one server
\* lacks is skipped ("does not exist, skipping...", 119) and the run goes on.
MissingBatchIsSkipped == \A s \in Servers : phase[s] # "aborted"

\* What survives even unsafe reruns: an aggregate share never counts a row that
\* one of the servers did not receive or could not decode.
OnlyJointRows ==
  \A s \in Servers : \A o \in private[s]["aggregate"] : \A i \in Ids :
    o.rows[i] > 0 => i \in Joint(o.batch)

\* The pipeline promises what IdealAggregation says.
Ideal == INSTANCE IdealAggregation WITH
           report <- published,
           rerun  <- {s \in Servers : run[s] > 1},
           unsafe <- dirty
RefinesIdeal == Ideal!IdealSpec

\* Each server waits for the other before three of its stages, and yet both
\* stop: no crash, missing batch or missing peer leaves one waiting for ever.
Termination == \A s \in Servers : <>[](phase[s] \in Stopped)

-----------------------------------------------------------------------------
(***************************************************************************)
(* Why ExactReports holds: an inductive invariant.                         *)
(***************************************************************************)

\* In its current run s has marked stage k.
Past(s, k) == StageNo[stage[s]] > StageNo[k]
Reading(s) == phase[s] \in {"batches", "job"} /\ stage[s] # "verify1"
OnePart(dir) ==
  \A o1, o2 \in dir : o1.batch = o2.batch /\ o1.run # 0 /\ o2.run # 0 => o1 = o2

\* A private directory holds one part per batch; the job that runs has cleared
\* its own output and has found rows in its inputs.
SingleParts ==
  /\ \A s \in Servers, k \in Mirrored : OnePart(private[s][k])
  /\ \A s \in Servers : phase[s] = "job" /\ stage[s] # "publish" =>
       Of(private[s][stage[s]], job[s].batch) = {}
  /\ \A s \in Servers : phase[s] = "job" /\ stage[s] # "verify1" =>
       /\ Parts(private[s][Prev(stage[s])], job[s].batch) # {}
       /\ job[s].listed # {}

\* What a server has marked in this run is a faithful copy of its output.
Faithful ==
  /\ \A s \in Servers, k \in Mirrored : Past(s, k) =>
       /\ marked[Peer(s)][k]
       /\ shared[Peer(s)][k] = private[s][k]
  /\ \A s \in Servers : phase[s] = "done" => stage[s] = "publish"

\* A server that may still read a marker is right to trust it, and the job it
\* runs has listed all of its input.
Trust ==
  /\ \A s \in Servers, k \in Mirrored :
       marked[s][k] /\ phase[s] # "done" => Past(Peer(s), k)
  /\ \A s \in Servers : Reading(s) => marked[s][Prev(stage[s])]
  /\ \A s \in Servers : phase[s] = "job" /\ stage[s] # "verify1" =>
       job[s].listed = Parts(shared[s][Prev(stage[s])], job[s].batch)

\* Every part ever written has the rows it should have.
Yield(s, k, b) ==
  IF k = "verify1" THEN RowSet(raw[s][b] \cap Decodes[s]) ELSE RowSet(Joint(b))
ExactParts ==
  \A s \in Servers, k \in Mirrored : \A o \in private[s][k] :
    o.run # 0 => o.rows = Yield(s, k, o.batch)

\* The state behind ExactReports: directories hold one part per batch, markers
\* vouch for complete copies, and, without an unsafe rerun, every part and
\* every report is exact (bin/process, 102-215).
ExactInv ==
  /\ SingleParts
  /\ Faithful
  /\ ~dirty => Trust /\ ExactParts /\ ExactReports
=============================================================================
