--------------------------- MODULE PipelineProofs ---------------------------
(***************************************************************************)
(* Theorems about Pipeline, for every set of rows and batches, every input,*)
(* every interleaving of the two servers, crashes and any number of        *)
(* reruns: types, and ExactInv, from which follows that all reports are    *)
(* exact unless a rerun was unsafe.                                        *)
(***************************************************************************)
EXTENDS Pipeline, RowDataProofs

USE DEF Servers

-----------------------------------------------------------------------------
(* Facts about stages, servers and directories. *)

LEMMA StageOrder ==
  /\ \A k \in Mirrored : Following(k) \in Stages
  /\ \A k \in Stages \ {"verify1"} : Prev(k) \in Mirrored
BY DEF Stages, Mirrored, Following, Prev

LEMMA PeerType == \A s \in Servers : Peer(s) \in Servers /\ Peer(s) # s /\ Peer(Peer(s)) = s
BY ServersDiffer DEF Peer

(* Directories stay finite sets of objects when the pipeline writes them.  *)
LEMMA DirectoryOperators ==
  ASSUME NEW D \in Directories
  PROVE  /\ \A b \in Batches : Of(D, b) \in Directories /\ Parts(D, b) \in Directories
         /\ \A S : D \ S \in Directories
         /\ \A o \in Objects : D \cup {o} \in Directories
<1>1. \A S \in SUBSET D : S \in Directories
  BY FS_Subset DEF Directories
<1>2. ASSUME NEW b \in Batches PROVE Of(D, b) \subseteq D /\ Parts(D, b) \subseteq D
  BY DEF Of, Parts
<1>3. ASSUME NEW o \in Objects PROVE D \cup {o} \in Directories
  BY FS_AddElement DEF Directories
<1> QED BY <1>1, <1>2, <1>3

LEMMA EmptyDirectory == {} \in Directories
BY FS_EmptySet DEF Directories

LEMMA LoadDirectory == \A D \in Directories : Load(D) \in Rows
<1> TAKE D \in Directories
<1> QED BY LoadType DEF Directories, Objects

LEMMA ObjectTypes ==
  ASSUME NEW b \in Batches
  PROVE  /\ Commit(b) \in Objects
         /\ \A r \in Nat, rows \in Rows : Part(b, r, rows) \in Objects
BY RowOperators DEF Commit, Part, Objects

-----------------------------------------------------------------------------
(* Type correctness. *)

LEMMA InputTypes ==
  ASSUME TypeOK, NEW s \in Servers, NEW b \in Batches
  PROVE  /\ raw[s][b] \in SUBSET Ids
         /\ RowSet(raw[s][b]) \in Rows
         /\ ExternalParts(s, b) \in Directories
         /\ Load(job[s].listed) \in Rows
         /\ stage[s] # "verify1" => InternalRows(s, b) \in Rows
<1>1. raw[s][b] \in SUBSET Ids
  BY InputsType DEF TypeOK
<1>2. RowSet(raw[s][b]) \in Rows
  BY <1>1, RowOperators
<1>3. ASSUME stage[s] # "verify1"
      PROVE  /\ private[s][Prev(stage[s])] \in Directories
             /\ shared[s][Prev(stage[s])] \in Directories
  BY <1>3, StageOrder DEF TypeOK
<1>4. ExternalParts(s, b) \in Directories
  <2>1. CASE stage[s] = "verify1"
    BY <2>1, EmptyDirectory DEF ExternalParts
  <2>2. CASE stage[s] # "verify1"
    BY <2>2, <1>3, DirectoryOperators DEF ExternalParts
  <2> QED BY <2>1, <2>2
<1>5. Load(job[s].listed) \in Rows
  BY LoadDirectory DEF TypeOK
<1>6. ASSUME stage[s] # "verify1" PROVE InternalRows(s, b) \in Rows
  BY <1>3, <1>6, DirectoryOperators, LoadDirectory DEF InternalRows
<1> QED BY <1>1, <1>2, <1>4, <1>5, <1>6

LEMMA JobRowsType ==
  ASSUME TypeOK, NEW s \in Servers, NEW b \in Batches
  PROVE  JobRows(s, b) \in Rows
<1> DEFINE shares == RowSet(raw[s][b])
           external == Load(job[s].listed)
<1>1. shares \in Rows /\ external \in Rows
  BY InputTypes
<1>2. Decodes[s] \in SUBSET Ids
  BY DecodesType
<1>3. CASE stage[s] = "verify1"
  BY <1>1, <1>2, <1>3, RowOperators DEF JobRows, Verify1Rows, UdfVerify1
<1>4. CASE stage[s] # "verify1"
  <2>1. InternalRows(s, b) \in Rows
    BY <1>4, InputTypes
  <2>2. Join(shares, InternalRows(s, b), external) \in Rows
    BY <1>1, <2>1, RowOperators
  <2>3. Where(Join(shares, InternalRows(s, b), external), Decodes[s]) \in Rows
    BY <2>2, <1>2, RowOperators
  <2> QED
    BY <1>4, <2>2, <2>3 DEF JobRows, Verify2Rows, UdfVerify2, AggregateRows
<1> QED BY <1>3, <1>4

LEMMA InitTypeOK == Init => TypeOK
<1> SUFFICES ASSUME Init PROVE TypeOK
  OBVIOUS
<1>1. job \in [Servers -> [batch : Batches \cup {None}, listed : Directories]]
  BY EmptyDirectory DEF Init, NoJob
<1>2. \A s \in Servers : phase[s] # "job" /\ phase[s] # "mirror"
  BY DEF Init
<1>3. stage \in [Servers -> Stages] /\ phase \in [Servers -> Running \cup Stopped]
  BY DEF Init, Stages, Mirrored, Running
<1>4. /\ private \in [Servers -> [Mirrored -> Directories]]
      /\ shared \in [Servers -> [Mirrored -> Directories]]
      /\ marked \in [Servers -> [Mirrored -> BOOLEAN]]
  BY EmptyDirectory DEF Init
<1>5. retries \in [Servers -> 0..(RetryLimit + 1)] /\ run \in [Servers -> 1..MaxRuns]
  BY BoundsType DEF Init
<1>7. \A s \in Servers : ~(retries[s] > RetryLimit)
  BY BoundsType DEF Init
<1>6. /\ delivered \in [Servers -> BOOLEAN]
      /\ published \in [Servers -> [Batches -> Reports \cup {None}]]
      /\ todo \in [Servers -> SUBSET Batches]
      /\ dirty \in BOOLEAN
      /\ raw \in Inputs
  BY DEF Init
<1> QED
  BY <1>1, <1>2, <1>3, <1>4, <1>5, <1>6, <1>7 DEF TypeOK

(* One lemma per group of actions. *)
LEMMA TypeOKControl ==
  ASSUME TypeOK, NEW s \in Servers,
         \/ Deliver(s) \/ FindData(s) \/ PollAgain(s) \/ EndLoop(s)
         \/ RejectMirror(s) \/ Crash(s) \/ Restart(s) \/ FailJob(s)
         \/ \E b \in Batches : SkipBatch(s, b) \/ RejectJob(s, b)
  PROVE  TypeOK'
<1> USE DEF TypeOK, buckets, procs, Goto
<1>1. CASE Deliver(s)
  BY <1>1 DEF Deliver
<1>2. CASE FindData(s)
  BY <1>2, BoundsType DEF FindData, Running
<1>3. CASE PollAgain(s)
  <2>1. retries[s] \in Nat /\ RetryLimit \in Nat /\ ~(retries[s] > RetryLimit)
    BY <1>3, BoundsType DEF PollAgain
  <2>2. retries'[s] = retries[s] + 1
    BY <1>3 DEF PollAgain, Retried
  <2>3. retries'[s] \in 0..(RetryLimit + 1)
    BY <2>1, <2>2
  <2>4. retries' \in [Servers -> 0..(RetryLimit + 1)]
    BY <1>3, <2>3 DEF PollAgain
  <2>5. phase' = [phase EXCEPT ![s] = IF retries'[s] > RetryLimit THEN "timeout" ELSE "wait"]
    BY <1>3 DEF PollAgain, GivesUp
  <2>6. \A t \in Servers : retries'[t] > RetryLimit => phase'[t] = "timeout"
    BY <1>3, <2>5 DEF PollAgain
  <2> QED BY <1>3, <2>4, <2>5, <2>6 DEF PollAgain, Running, Stopped
<1>4. CASE EndLoop(s)
  BY <1>4 DEF EndLoop, Running, Stopped, Stages
<1>5. CASE RejectMirror(s)
  BY <1>5 DEF RejectMirror, Stopped
<1>6. CASE Crash(s)
  BY <1>6, EmptyDirectory DEF Crash, NoJob, Running, Stopped
<1>7. CASE Restart(s)
  BY <1>7, BoundsType DEF Restart, Running, Stages, Mirrored
<1>8. CASE FailJob(s)
  BY <1>8, EmptyDirectory DEF FailJob, NoJob, Stopped
<1>9. ASSUME NEW b \in Batches, SkipBatch(s, b) PROVE TypeOK'
  BY <1>9 DEF SkipBatch
<1>10. ASSUME NEW b \in Batches, RejectJob(s, b) PROVE TypeOK'
  BY <1>10 DEF RejectJob, Stopped
<1> QED
  BY <1>1, <1>2, <1>3, <1>4, <1>5, <1>6, <1>7, <1>8, <1>9, <1>10

LEMMA TypeOKStartJob ==
  ASSUME TypeOK, NEW s \in Servers, NEW b \in Batches, StartJob(s, b)
  PROVE  TypeOK'
<1> USE DEF TypeOK, Goto
<1>1. ExternalParts(s, b) \in Directories
  BY InputTypes
<1>2. /\ job' \in [Servers -> [batch : Batches \cup {None}, listed : Directories]]
      /\ \A t \in Servers : phase'[t] = "job" => job'[t].batch \in Batches
  BY <1>1 DEF StartJob
<1>3. /\ phase' \in [Servers -> Running \cup Stopped]
      /\ \A t \in Servers : retries'[t] > RetryLimit => phase'[t] = "timeout"
  BY DEF StartJob, Running
<1>4. /\ private' \in [Servers -> [Mirrored -> Directories]]
      /\ published' \in [Servers -> [Batches -> Reports \cup {None}]]
  <2>1. CASE stage[s] = "publish"
    <3>1. published' = [published EXCEPT ![s] = [published[s] EXCEPT ![b] = None]]
      BY <2>1 DEF StartJob
    <3> QED BY <2>1, <3>1 DEF StartJob
  <2>2. CASE stage[s] # "publish"
    <3>1. stage[s] \in Mirrored
      BY <2>2 DEF Stages
    <3>2. private[s][stage[s]] \ Of(private[s][stage[s]], b) \in Directories
      BY <3>1, DirectoryOperators
    <3> DEFINE D == private[s][stage[s]] \ Of(private[s][stage[s]], b)
    <3>3. private' = [private EXCEPT ![s] = [private[s] EXCEPT ![stage[s]] = D]]
      BY <2>2 DEF StartJob
    <3>4. published' = published
      BY <2>2 DEF StartJob
    <3> HIDE DEF D
    <3> QED BY <3>1, <3>2, <3>3, <3>4 DEF D
  <2> QED BY <2>1, <2>2
<1> QED
  BY <1>2, <1>3, <1>4 DEF StartJob

LEMMA TypeOKFinishStageJob ==
  ASSUME TypeOK, NEW s \in Servers, FinishStageJob(s)
  PROVE  TypeOK'
<1> DEFINE b == job[s].batch
           out == {Part(b, run[s], JobRows(s, b)), Commit(b)}
<1>1. b \in Batches /\ stage[s] \in Mirrored /\ run[s] \in Nat
  BY BoundsType DEF TypeOK, FinishStageJob, Stages
<1>2. Part(b, run[s], JobRows(s, b)) \in Objects /\ Commit(b) \in Objects
  BY <1>1, ObjectTypes, JobRowsType
<1>3. private[s][stage[s]] \cup out \in Directories
  <2>1. private[s][stage[s]] \in Directories
    BY <1>1 DEF TypeOK
  <2>2. private[s][stage[s]] \cup {Part(b, run[s], JobRows(s, b))} \in Directories
    BY <1>2, <2>1, DirectoryOperators
  <2>3. (private[s][stage[s]] \cup {Part(b, run[s], JobRows(s, b))}) \cup {Commit(b)} \in Directories
    BY <1>2, <2>2, DirectoryOperators
  <2> QED BY <2>3
<1>4. private' = [private EXCEPT ![s][stage[s]] = @ \cup out]
  BY DEF FinishStageJob
<1>5. private' \in [Servers -> [Mirrored -> Directories]]
  <2> HIDE DEF out
  <2> QED BY <1>1, <1>3, <1>4 DEF TypeOK
<1>6. /\ job' \in [Servers -> [batch : Batches \cup {None}, listed : Directories]]
      /\ phase' \in [Servers -> Running \cup Stopped]
      /\ \A t \in Servers : phase'[t] = "job" => job'[t].batch \in Batches
      /\ \A t \in Servers : retries'[t] > RetryLimit => phase'[t] = "timeout"
      /\ \A t \in Servers : phase'[t] = "mirror" => stage'[t] \in Mirrored
  BY EmptyDirectory DEF TypeOK, FinishStageJob, Goto, NoJob, Running
<1> QED
  BY <1>5, <1>6 DEF TypeOK, FinishStageJob

LEMMA TypeOKFinishPublishJob ==
  ASSUME TypeOK, NEW s \in Servers, FinishPublishJob(s)
  PROVE  TypeOK'
<1> DEFINE b == job[s].batch
<1>1. b \in Batches /\ stage[s] # "verify1"
  BY DEF TypeOK, FinishPublishJob
<1>2. InternalRows(s, b) \in Rows
  BY <1>1, InputTypes
<1>3. \A o \in job[s].listed : o.rows \in Rows
  BY DEF TypeOK, Directories, Objects
<1>4. \A o \in job[s].listed : PublishReport(s, InternalRows(s, b), o.rows) \in Reports
  BY <1>2, <1>3, PublishReportType
<1>5. published' \in [Servers -> [Batches -> Reports \cup {None}]]
  <2>1. PICK o \in job[s].listed :
          published' = [published EXCEPT ![s][b] =
                          PublishReport(s, InternalRows(s, b), o.rows)]
    BY DEF FinishPublishJob
  <2>2. PublishReport(s, InternalRows(s, b), o.rows) \in Reports
    BY <1>4
  <2> QED BY <1>1, <2>1, <2>2 DEF TypeOK
<1>6. /\ job' \in [Servers -> [batch : Batches \cup {None}, listed : Directories]]
      /\ phase' \in [Servers -> Running \cup Stopped]
      /\ \A t \in Servers : phase'[t] = "job" => job'[t].batch \in Batches
      /\ \A t \in Servers : retries'[t] > RetryLimit => phase'[t] = "timeout"
      /\ \A t \in Servers : phase'[t] = "mirror" => stage'[t] \in Mirrored
  BY EmptyDirectory DEF TypeOK, FinishPublishJob, Goto, NoJob, Running
<1> QED
  BY <1>5, <1>6 DEF TypeOK, FinishPublishJob

LEMMA TypeOKMirror ==
  ASSUME TypeOK, NEW s \in Servers,
         CopyObject(s) \/ RemoveObject(s) \/ RemoveMarker(s) \/ Mark(s)
  PROVE  TypeOK'
<1> DEFINE k == stage[s]
<1>1. k \in Mirrored /\ Peer(s) \in Servers
  BY PeerType DEF TypeOK, CopyObject, RemoveObject, RemoveMarker, Mark
<1>2. shared[Peer(s)][k] \in Directories /\ private[s][k] \subseteq Objects
  BY <1>1 DEF TypeOK, Directories
<1>3. CASE CopyObject(s)
  <2>1. PICK o \in private[s][k] :
          shared' = [shared EXCEPT ![Peer(s)][k] = @ \cup {o}]
    BY <1>3 DEF CopyObject, Source
  <2>2. shared[Peer(s)][k] \cup {o} \in Directories
    BY <1>2, <2>1, DirectoryOperators
  <2>3. shared' \in [Servers -> [Mirrored -> Directories]]
    BY <1>1, <2>1, <2>2 DEF TypeOK
  <2> QED BY <1>3, <2>3 DEF CopyObject, TypeOK, procs
<1>4. CASE RemoveObject(s)
  <2>1. PICK o : shared' = [shared EXCEPT ![Peer(s)][k] = @ \ {o}]
    BY <1>4 DEF RemoveObject
  <2>2. shared[Peer(s)][k] \ {o} \in Directories
    BY <1>2, DirectoryOperators
  <2>3. shared' \in [Servers -> [Mirrored -> Directories]]
    BY <1>1, <2>1, <2>2 DEF TypeOK
  <2> QED BY <1>4, <2>3 DEF RemoveObject, TypeOK, procs
<1>5. CASE RemoveMarker(s)
  BY <1>1, <1>5 DEF RemoveMarker, TypeOK, procs
<1>6. CASE Mark(s)
  <2>1. stage' \in [Servers -> Stages]
    BY <1>1, <1>6, StageOrder DEF Mark, TypeOK
  <2>2. /\ phase' \in [Servers -> Running \cup Stopped]
        /\ \A t \in Servers : phase'[t] = "job" => job'[t].batch \in Batches
        /\ \A t \in Servers : retries'[t] > RetryLimit => phase'[t] = "timeout"
        /\ \A t \in Servers : phase'[t] = "mirror" => stage'[t] \in Mirrored
    BY <1>6 DEF Mark, TypeOK, Goto, Running
  <2>3. marked' \in [Servers -> [Mirrored -> BOOLEAN]]
    BY <1>1, <1>6 DEF Mark, TypeOK
  <2> QED BY <1>6, <2>1, <2>2, <2>3 DEF Mark, TypeOK
<1> QED BY <1>3, <1>4, <1>5, <1>6

(* Every value a variable ever takes has its declared type: directories    *)
(* hold finitely many well-formed objects, published records are reports,  *)
(* and the poll counter never passes RETRY_LIMIT + 1 (wait_for_data,       *)
(* 68-90).                                                                 *)
THEOREM TypeCorrect == Spec => []TypeOK
<1>1. Init => TypeOK
  BY InitTypeOK
<1>2. TypeOK /\ [Next]_vars => TypeOK'
  <2> SUFFICES ASSUME TypeOK, [Next]_vars PROVE TypeOK'
    OBVIOUS
  <2>1. CASE UNCHANGED vars
    BY <2>1 DEF vars, buckets, procs, TypeOK
  <2>2. ASSUME NEW s \in Servers, Deliver(s) \/ Step(s) \/ Crash(s) \/ Restart(s)
        PROVE  TypeOK'
    BY <2>2, TypeOKControl, TypeOKStartJob, TypeOKFinishStageJob,
       TypeOKFinishPublishJob, TypeOKMirror DEF Step
  <2> QED BY <2>1, <2>2 DEF Next
<1> QED BY <1>1, <1>2, PTL DEF Spec

-----------------------------------------------------------------------------
(* What the actions leave alone. *)

Quiet(s) ==
  \/ Deliver(s) \/ FindData(s) \/ PollAgain(s) \/ EndLoop(s) \/ FailJob(s)
  \/ RejectMirror(s) \/ Crash(s)
  \/ \E b \in Batches : SkipBatch(s, b) \/ RejectJob(s, b)

QuietEffect ==
  /\ UNCHANGED <<raw, private, shared, marked, published, stage, run, dirty>>
  /\ \A t \in Servers : phase'[t] = "job" => phase[t] = "job" /\ job'[t] = job[t]
  /\ \A t \in Servers : phase[t] = "done" => phase'[t] = "done"
  /\ \A t \in Servers : phase'[t] = "done" => phase[t] = "done" \/ stage[t] = "publish"
  /\ \A t \in Servers : phase'[t] \in {"batches", "job"} =>
       phase[t] \in {"batches", "job"} \/ InputMarked(t)

(* A quiet step touches no bucket and starts no job.                       *)
LEMMA QuietStep ==
  ASSUME TypeOK, NEW s \in Servers, Quiet(s)
  PROVE  QuietEffect
<1> USE DEF buckets, procs, Goto, TypeOK, Running, QuietEffect
<1>1. CASE Deliver(s) BY <1>1 DEF Deliver
<1>2. CASE FindData(s) BY <1>2 DEF FindData
<1>3. CASE PollAgain(s) BY <1>3 DEF PollAgain
<1>4. CASE EndLoop(s) BY <1>4 DEF EndLoop
<1>5. CASE FailJob(s) BY <1>5 DEF FailJob
<1>6. CASE RejectMirror(s) BY <1>6 DEF RejectMirror
<1>7. CASE Crash(s) BY <1>7 DEF Crash
<1>8. ASSUME NEW b \in Batches, SkipBatch(s, b) PROVE QuietEffect
  BY <1>8 DEF SkipBatch
<1>9. ASSUME NEW b \in Batches, RejectJob(s, b) PROVE QuietEffect
  BY <1>9 DEF RejectJob
<1> QED
  BY <1>1, <1>2, <1>3, <1>4, <1>5, <1>6, <1>7, <1>8, <1>9 DEF Quiet

(* A step is one of these.                                                 *)
LEMMA StepCases ==
  ASSUME NEW s \in Servers, Deliver(s) \/ Step(s) \/ Crash(s) \/ Restart(s)
  PROVE  \/ Quiet(s)
         \/ \E b \in Batches : StartJob(s, b)
         \/ FinishStageJob(s) \/ FinishPublishJob(s)
         \/ CopyObject(s) \/ RemoveObject(s) \/ RemoveMarker(s) \/ Mark(s)
         \/ Restart(s)
BY DEF Step, Quiet

(* Stages in terms of their names.                                         *)
LEMMA PastCases ==
  ASSUME NEW s \in Servers, stage[s] \in Stages
  PROVE  /\ Past(s, "verify1") <=> stage[s] # "verify1"
         /\ Past(s, "verify2") <=> stage[s] \in {"aggregate", "publish"}
         /\ Past(s, "aggregate") <=> stage[s] = "publish"
BY DEF Past, StageNo, Stages, Mirrored

-----------------------------------------------------------------------------
(* The inductive invariant, conjunct by conjunct. *)

LEMMA SinglePartsUnchanged ==
  ASSUME SingleParts, UNCHANGED private,
         \A t \in Servers : phase'[t] = "job" =>
           phase[t] = "job" /\ stage'[t] = stage[t] /\ job'[t] = job[t]
  PROVE  SingleParts'
BY DEF SingleParts, OnePart, Of, Parts

LEMMA SinglePartsStartJob ==
  ASSUME TypeOK, SingleParts, NEW s \in Servers, NEW b \in Batches, StartJob(s, b)
  PROVE  SingleParts'
<1> DEFINE k == stage[s]
<1>1. /\ phase' = [phase EXCEPT ![s] = "job"]
      /\ job' = [job EXCEPT ![s] = [batch |-> b, listed |-> ExternalParts(s, b)]]
      /\ stage' = stage
  BY DEF StartJob, Goto
<1>2. /\ \A t \in Servers \ {s} : private'[t] = private[t]
      /\ \A j \in Mirrored \ {k} : private'[s][j] = private[s][j]
      /\ k # "publish" => private'[s][k] = private[s][k] \ Of(private[s][k], b)
  BY DEF StartJob, TypeOK, Stages
<1>3. \A t \in Servers, j \in Mirrored : private'[t][j] \subseteq private[t][j]
  <2>1. k = "publish" => UNCHANGED private
    BY DEF StartJob
  <2> QED BY <1>2, <2>1
<1>4. job'[s].batch = b /\ job'[s].listed = ExternalParts(s, b)
  BY <1>1 DEF TypeOK
<1>5. \A t \in Servers, j \in Mirrored : OnePart(private'[t][j])
  BY <1>3 DEF SingleParts, OnePart
<1>6. k # "publish" => Of(private'[s][k], b) = {}
  BY <1>2 DEF Of
<1>7. k # "verify1" => Parts(private'[s][Prev(k)], b) # {} /\ ExternalParts(s, b) # {}
  <2> SUFFICES ASSUME k # "verify1"
               PROVE  Parts(private'[s][Prev(k)], b) # {} /\ ExternalParts(s, b) # {}
    OBVIOUS
  <2>1. Present(Load(Parts(private[s][Prev(k)], b))) /\ Present(Load(ExternalParts(s, b)))
    BY DEF StartJob, Readable, InternalRows
  <2>2. Parts(private[s][Prev(k)], b) # {} /\ ExternalParts(s, b) # {}
    BY <2>1, LoadEmpty
  <2>3. Prev(k) \in Mirrored /\ Prev(k) # k
    BY DEF TypeOK, Stages, Mirrored, Prev
  <2> QED BY <1>2, <2>2, <2>3
<1>8. ASSUME NEW t \in Servers \ {s}
      PROVE  /\ phase'[t] = phase[t] /\ job'[t] = job[t]
             /\ stage'[t] = stage[t] /\ private'[t] = private[t]
  BY <1>1, <1>2 DEF TypeOK
<1>9. ASSUME NEW t \in Servers, phase'[t] = "job"
      PROVE  /\ stage'[t] # "publish" => Of(private'[t][stage'[t]], job'[t].batch) = {}
             /\ stage'[t] # "verify1" =>
                  /\ Parts(private'[t][Prev(stage'[t])], job'[t].batch) # {}
                  /\ job'[t].listed # {}
  <2>1. CASE t = s
    BY <2>1, <1>1, <1>4, <1>6, <1>7
  <2>2. CASE t # s
    BY <2>2, <1>8, <1>9 DEF SingleParts
  <2> QED BY <2>1, <2>2
<1> QED
  BY <1>5, <1>9 DEF SingleParts, OnePart, Of, Parts

LEMMA SinglePartsFinishStageJob ==
  ASSUME TypeOK, SingleParts, NEW s \in Servers, FinishStageJob(s)
  PROVE  SingleParts'
<1> DEFINE k == stage[s]
           b == job[s].batch
           part == Part(b, run[s], JobRows(s, b))
<1>1. k \in Mirrored /\ phase[s] = "job" /\ k # "publish"
  BY DEF FinishStageJob, TypeOK, Stages
<1>2. /\ private' = [private EXCEPT ![s][k] = @ \cup {part, Commit(b)}]
      /\ stage' = stage
      /\ phase' = [phase EXCEPT ![s] = "batches"]
      /\ job' = [job EXCEPT ![s] = NoJob]
  BY DEF FinishStageJob, Goto
<1>3. OnePart(private[s][k]) /\ Of(private[s][k], b) = {}
  BY <1>1 DEF SingleParts
<1>4. Commit(b).run = 0 /\ part.batch = b
  BY DEF Commit, Part
<1>5. /\ \A t \in Servers \ {s} : private'[t] = private[t]
      /\ \A j \in Mirrored \ {k} : private'[s][j] = private[s][j]
      /\ private'[s][k] = private[s][k] \cup {part, Commit(b)}
  <2> HIDE DEF part
  <2> QED BY <1>1, <1>2 DEF TypeOK
<1>6. OnePart(private'[s][k])
  <2> HIDE DEF part
  <2> QED BY <1>3, <1>4, <1>5 DEF OnePart, Of
<1>7. \A t \in Servers, j \in Mirrored : OnePart(private'[t][j])
  <2> SUFFICES ASSUME NEW t \in Servers, NEW j \in Mirrored
               PROVE  OnePart(private'[t][j])
    OBVIOUS
  <2>1. CASE t = s /\ j = k
    BY <2>1, <1>6
  <2>2. CASE ~(t = s /\ j = k)
    <3>1. private'[t][j] = private[t][j]
      BY <2>2, <1>5
    <3> QED BY <3>1 DEF SingleParts
  <2> QED BY <2>1, <2>2
<1>8. ASSUME NEW t \in Servers, phase'[t] = "job"
      PROVE  /\ phase[t] = "job" /\ stage'[t] = stage[t]
             /\ job'[t] = job[t] /\ private'[t] = private[t]
  <2>1. t # s
    BY <1>2, <1>8 DEF TypeOK
  <2> QED BY <2>1, <1>2, <1>5, <1>8 DEF TypeOK
<1> QED
  BY <1>7, <1>8 DEF SingleParts, OnePart, Of, Parts

LEMMA SinglePartsStep ==
  ASSUME TypeOK, SingleParts, NEW s \in Servers,
         Deliver(s) \/ Step(s) \/ Crash(s) \/ Restart(s)
  PROVE  SingleParts'
<1> USE DEF TypeOK, Goto, buckets, procs
<1>1. CASE Quiet(s)
  <2>1. QuietEffect
    BY <1>1, QuietStep
  <2> QED BY <2>1, SinglePartsUnchanged DEF QuietEffect
<1>2. ASSUME NEW b \in Batches, StartJob(s, b) PROVE SingleParts'
  BY <1>2, SinglePartsStartJob
<1>3. CASE FinishStageJob(s)
  BY <1>3, SinglePartsFinishStageJob
<1>4. CASE FinishPublishJob(s)
  BY <1>4, SinglePartsUnchanged DEF FinishPublishJob
<1>5. CASE CopyObject(s) \/ RemoveObject(s) \/ RemoveMarker(s)
  BY <1>5, SinglePartsUnchanged DEF CopyObject, RemoveObject, RemoveMarker
<1>6. CASE Mark(s)
  BY <1>6, SinglePartsUnchanged DEF Mark
<1>7. CASE Restart(s)
  BY <1>7, SinglePartsUnchanged DEF Restart
<1> QED BY <1>1, <1>2, <1>3, <1>4, <1>5, <1>6, <1>7, StepCases

-----------------------------------------------------------------------------
(* Steps that write the output of the current stage of s, and nothing else. *)

Output(s) ==
  \/ \E b \in Batches : StartJob(s, b)
  \/ FinishStageJob(s) \/ FinishPublishJob(s)
  \/ CopyObject(s) \/ RemoveObject(s) \/ RemoveMarker(s)

OutputEffect(s) ==
  /\ UNCHANGED <<raw, stage, run, dirty>>
  /\ \A t \in Servers, k \in Mirrored : ~(t = s /\ k = stage[s]) =>
       /\ private'[t][k] = private[t][k]
       /\ shared'[Peer(t)][k] = shared[Peer(t)][k]
       /\ marked'[Peer(t)][k] = marked[Peer(t)][k]
  /\ \A t \in Servers, k \in Mirrored : marked'[t][k] => marked[t][k]
  /\ \A t \in Servers :
       /\ phase'[t] = "done" <=> phase[t] = "done"
       /\ phase'[t] \in {"batches", "job"} => phase[t] \in {"batches", "job"}

(* An output step of s touches no stage but its own.                       *)
LEMMA OutputStep ==
  ASSUME TypeOK, NEW s \in Servers, Output(s)
  PROVE  OutputEffect(s)
<1> USE DEF Goto, procs
<1>1. ASSUME NEW b \in Batches, StartJob(s, b) PROVE OutputEffect(s)
  BY <1>1 DEF StartJob, OutputEffect, TypeOK
<1>2. CASE FinishStageJob(s)
  BY <1>2 DEF FinishStageJob, OutputEffect, TypeOK
<1>3. CASE FinishPublishJob(s)
  BY <1>3 DEF FinishPublishJob, OutputEffect, TypeOK
<1>4. CASE CopyObject(s) \/ RemoveObject(s)
  BY <1>4, PeerType DEF CopyObject, RemoveObject, OutputEffect, TypeOK
<1>5. CASE RemoveMarker(s)
  BY <1>5, PeerType DEF RemoveMarker, OutputEffect, TypeOK
<1> QED BY <1>1, <1>2, <1>3, <1>4, <1>5 DEF Output

(* No server is past its current stage.                                    *)
LEMMA CurrentNotPast ==
  ASSUME TypeOK, NEW s \in Servers, stage[s] \in Mirrored
  PROVE  ~Past(s, stage[s])
BY PastCases DEF TypeOK, Mirrored

(* Marking stage k of s makes s past k, and past nothing else.             *)
LEMMA MarkPast ==
  ASSUME TypeOK, NEW s \in Servers, Mark(s)
  PROVE  /\ stage[s] \in Mirrored
         /\ \A k \in Mirrored : Past(s, k)' <=> Past(s, k) \/ k = stage[s]
         /\ \A t \in Servers \ {s}, k \in Mirrored : Past(t, k)' <=> Past(t, k)
<1>1. stage[s] \in Mirrored
  BY DEF Mark, TypeOK
<1>2. stage' = [stage EXCEPT ![s] = Following(stage[s])]
  BY DEF Mark
<1>3. stage'[s] = Following(stage[s]) /\ \A t \in Servers \ {s} : stage'[t] = stage[t]
  BY <1>2 DEF TypeOK
<1>4. \A k \in Mirrored : Past(s, k)' <=> Past(s, k) \/ k = stage[s]
  BY <1>1, <1>3 DEF Past, StageNo, Following, Mirrored, Stages
<1> QED BY <1>1, <1>3, <1>4 DEF Past

LEMMA FaithfulStep ==
  ASSUME TypeOK, Faithful, NEW s \in Servers,
         Deliver(s) \/ Step(s) \/ Crash(s) \/ Restart(s)
  PROVE  Faithful'
<1>1. CASE Quiet(s)
  BY <1>1, QuietStep DEF QuietEffect, Faithful, Past
<1>2. CASE Output(s)
  <2>1. OutputEffect(s)
    BY <1>2, OutputStep
  <2>2. ASSUME NEW t \in Servers, NEW k \in Mirrored, Past(t, k)'
        PROVE  /\ marked'[Peer(t)][k]
               /\ shared'[Peer(t)][k] = private'[t][k]
    <3>1. Past(t, k)
      BY <2>1, <2>2 DEF OutputEffect, Past
    <3>2. ~(t = s /\ k = stage[s])
      BY <3>1, CurrentNotPast
    <3> QED BY <2>1, <3>1, <3>2 DEF OutputEffect, Faithful
  <2> QED BY <2>1, <2>2 DEF OutputEffect, Faithful
<1>3. CASE Mark(s)
  <2>1. /\ UNCHANGED <<private, shared>>
        /\ marked' = [marked EXCEPT ![Peer(s)][stage[s]] = TRUE]
        /\ phase' = [phase EXCEPT ![s] = "wait"]
        /\ stage' = [stage EXCEPT ![s] = Following(stage[s])]
        /\ shared[Peer(s)][stage[s]] = private[s][stage[s]]
    BY <1>3 DEF Mark, Goto, MirrorComplete, Source, Target
  <2>2. \A t \in Servers, k \in Mirrored : marked[t][k] => marked'[t][k]
    BY <2>1 DEF TypeOK
  <2>3. marked'[Peer(s)][stage[s]]
    BY <1>3, <2>1, MarkPast, PeerType DEF TypeOK
  <2>4. ASSUME NEW t \in Servers, NEW k \in Mirrored, Past(t, k)'
        PROVE  /\ marked'[Peer(t)][k]
               /\ shared'[Peer(t)][k] = private'[t][k]
    <3>1. Past(t, k) \/ (t = s /\ k = stage[s])
      BY <1>3, <2>4, MarkPast
    <3> QED BY <2>1, <2>2, <2>3, <3>1, PeerType DEF Faithful
  <2>5. \A t \in Servers : phase'[t] = "done" => stage'[t] = "publish"
    BY <2>1 DEF Faithful, TypeOK
  <2> QED BY <2>4, <2>5 DEF Faithful
<1>4. CASE Restart(s)
  <2>1. /\ UNCHANGED <<private, shared, marked>>
        /\ stage'[s] = "verify1" /\ phase'[s] = "wait"
        /\ \A t \in Servers \ {s} : stage'[t] = stage[t] /\ phase'[t] = phase[t]
    BY <1>4 DEF Restart, Goto, buckets, TypeOK
  <2>2. \A k \in Mirrored : ~Past(s, k)'
    BY <2>1 DEF Past, StageNo, Mirrored
  <2>3. \A t \in Servers \ {s}, k \in Mirrored : Past(t, k)' <=> Past(t, k)
    BY <2>1 DEF Past
  <2> QED BY <2>1, <2>2, <2>3 DEF Faithful
<1> QED BY <1>1, <1>2, <1>3, <1>4, StepCases DEF Output

(* What a server is reading was marked by a peer that is past writing it.  *)
LEMMA InputIsPast ==
  ASSUME TypeOK, Trust, NEW t \in Servers, Reading(t)
  PROVE  /\ Prev(stage[t]) \in Mirrored
         /\ marked[t][Prev(stage[t])]
         /\ Past(Peer(t), Prev(stage[t]))
<1>1. Prev(stage[t]) \in Mirrored /\ phase[t] # "done"
  BY StageOrder DEF Reading, TypeOK
<1> QED BY <1>1 DEF Trust

(* An output step of either server leaves what a stage reads as it is.     *)
LEMMA InputStable ==
  ASSUME TypeOK, Trust, NEW s \in Servers, Output(s),
         NEW t \in Servers, Reading(t)
  PROVE  /\ shared'[t][Prev(stage[t])] = shared[t][Prev(stage[t])]
         /\ marked'[t][Prev(stage[t])]
<1> DEFINE k == Prev(stage[t])
<1>1. k \in Mirrored /\ marked[t][k] /\ Past(Peer(t), k)
  BY InputIsPast
<1>2. Peer(t) \in Servers /\ Peer(Peer(t)) = t
  BY PeerType
<1>3. ~(Peer(t) = s /\ k = stage[s])
  BY <1>1, CurrentNotPast
<1>4. OutputEffect(s)
  BY OutputStep
<1>5. shared'[Peer(Peer(t))][k] = shared[Peer(Peer(t))][k]
      /\ marked'[Peer(Peer(t))][k] = marked[Peer(Peer(t))][k]
  <2> HIDE DEF k
  <2> QED BY <1>1, <1>2, <1>3, <1>4 DEF OutputEffect
<1> QED BY <1>1, <1>2, <1>5

(* Only StartJob starts a job.                                             *)
LEMMA JobKept ==
  ASSUME TypeOK, NEW s \in Servers,
         \/ FinishStageJob(s) \/ FinishPublishJob(s)
         \/ CopyObject(s) \/ RemoveObject(s) \/ RemoveMarker(s)
  PROVE  \A t \in Servers : phase'[t] = "job" => phase[t] = "job" /\ job'[t] = job[t]
BY DEF FinishStageJob, FinishPublishJob, CopyObject, RemoveObject, RemoveMarker,
       Goto, procs, TypeOK

LEMMA TrustOutput ==
  ASSUME TypeOK, Trust, NEW s \in Servers, Output(s)
  PROVE  Trust'
<1>1. OutputEffect(s)
  BY OutputStep
<1>2. ASSUME NEW t \in Servers, NEW k \in Mirrored, marked'[t][k], phase'[t] # "done"
      PROVE  Past(Peer(t), k)'
  BY <1>1, <1>2 DEF OutputEffect, Trust, Past
<1>3. ASSUME NEW t \in Servers, Reading(t)'
      PROVE  Reading(t) /\ stage'[t] = stage[t]
  BY <1>1, <1>3 DEF OutputEffect, Reading
<1>4. ASSUME NEW t \in Servers, Reading(t)'
      PROVE  marked'[t][Prev(stage'[t])]
  BY <1>3, <1>4, InputStable
<1>5. ASSUME NEW t \in Servers, phase'[t] = "job", stage'[t] # "verify1"
      PROVE  job'[t].listed = Parts(shared'[t][Prev(stage'[t])], job'[t].batch)
  <2>1. Reading(t) /\ stage'[t] = stage[t]
    BY <1>3, <1>5 DEF Reading
  <2>2. shared'[t][Prev(stage[t])] = shared[t][Prev(stage[t])]
    BY <2>1, InputStable
  <2>3. CASE phase[t] = "job" /\ job'[t] = job[t]
    BY <1>5, <2>1, <2>2, <2>3 DEF Trust
  <2>4. ASSUME NEW b \in Batches, StartJob(s, b)
        PROVE  job'[t].listed = Parts(shared'[t][Prev(stage'[t])], job'[t].batch)
    <3>1. CASE t = s
      <4>1. job'[t] = [batch |-> b, listed |-> ExternalParts(s, b)]
        BY <2>4, <3>1 DEF StartJob, TypeOK
      <4>2. ExternalParts(s, b) = Parts(shared[s][Prev(stage[s])], b)
        BY <1>5, <2>1, <3>1 DEF ExternalParts
      <4> QED BY <2>1, <2>2, <3>1, <4>1, <4>2
    <3>2. CASE t # s
      <4>1. phase[t] = "job" /\ job'[t] = job[t]
        BY <1>5, <2>4, <3>2 DEF StartJob, Goto, TypeOK
      <4> QED BY <2>3, <4>1
    <3> QED BY <3>1, <3>2
  <2> QED BY <1>5, <2>3, <2>4, JobKept DEF Output
<1> QED BY <1>2, <1>4, <1>5 DEF Trust

LEMMA TrustMark ==
  ASSUME TypeOK, Trust, NEW s \in Servers, Mark(s)
  PROVE  Trust'
<1>1. /\ UNCHANGED <<private, shared, job>>
      /\ marked' = [marked EXCEPT ![Peer(s)][stage[s]] = TRUE]
      /\ phase[s] = "mirror" /\ phase'[s] = "wait"
      /\ \A t \in Servers \ {s} : phase'[t] = phase[t] /\ stage'[t] = stage[t]
  BY DEF Mark, Goto, TypeOK
<1>2. \A t \in Servers, k \in Mirrored :
        marked'[t][k] <=> marked[t][k] \/ (t = Peer(s) /\ k = stage[s])
  BY <1>1, MarkPast, PeerType DEF TypeOK
<1>3. \A t \in Servers : phase'[t] # "done" => phase[t] # "done"
  BY <1>1
<1>4. ASSUME NEW t \in Servers, NEW k \in Mirrored, marked'[t][k], phase'[t] # "done"
      PROVE  Past(Peer(t), k)'
  <2>1. CASE marked[t][k]
    BY <1>3, <1>4, <2>1, MarkPast, PeerType DEF Trust
  <2>2. CASE t = Peer(s) /\ k = stage[s]
    BY <2>2, MarkPast, PeerType
  <2> QED BY <1>2, <1>4, <2>1, <2>2
<1>5. ASSUME NEW t \in Servers, Reading(t)'
      PROVE  t # s /\ Reading(t) /\ stage'[t] = stage[t]
  BY <1>1, <1>5 DEF Reading
<1>6. ASSUME NEW t \in Servers, Reading(t)'
      PROVE  marked'[t][Prev(stage'[t])]
  BY <1>2, <1>5, <1>6, InputIsPast
<1>7. ASSUME NEW t \in Servers, phase'[t] = "job", stage'[t] # "verify1"
      PROVE  job'[t].listed = Parts(shared'[t][Prev(stage'[t])], job'[t].batch)
  BY <1>1, <1>7 DEF Trust
<1> QED BY <1>4, <1>6, <1>7 DEF Trust

(* A rerun that is safe finds no marker its peer could still trust.        *)
LEMMA TrustRestart ==
  ASSUME TypeOK, Faithful, Trust, NEW s \in Servers, Restart(s), ~dirty'
  PROVE  Trust'
<1>1. /\ UNCHANGED <<shared, marked, job>>
      /\ phase'[s] = "wait" /\ stage'[s] = "verify1"
      /\ \A t \in Servers \ {s} : phase'[t] = phase[t] /\ stage'[t] = stage[t]
      /\ ~Unsafe(s)
  BY DEF Restart, Goto, buckets, TypeOK
<1>2. \A k \in Mirrored : phase[Peer(s)] = "done" => Past(Peer(s), k)
  BY PeerType, PastCases DEF Faithful, TypeOK, Mirrored
<1>3. ASSUME NEW k \in Mirrored, marked[s][k] PROVE Past(Peer(s), k)
  <2>1. CASE phase[s] # "done"
    BY <1>3, <2>1 DEF Trust
  <2>2. CASE phase[s] = "done"
    <3>1. Past(s, k)
      BY <2>2, PastCases DEF Faithful, TypeOK, Mirrored
    <3>2. marked[Peer(s)][k]
      BY <3>1 DEF Faithful
    <3>3. phase[Peer(s)] = "done"
      BY <1>1, <3>2 DEF Unsafe
    <3> QED BY <1>2, <3>3
  <2> QED BY <2>1, <2>2
<1>4. \A k \in Mirrored : Past(Peer(s), k)' <=> Past(Peer(s), k)
  BY <1>1, PeerType DEF Past
<1>5. ASSUME NEW t \in Servers, NEW k \in Mirrored, marked'[t][k], phase'[t] # "done"
      PROVE  Past(Peer(t), k)'
  <2>1. CASE t = s
    BY <1>1, <1>3, <1>4, <1>5, <2>1
  <2>2. CASE t = Peer(s)
    BY <1>1, <1>5, <2>2, PeerType DEF Unsafe
  <2> QED BY <2>1, <2>2, PeerType DEF Peer
<1>6. ASSUME NEW t \in Servers, phase'[t] \in {"batches", "job"}
      PROVE  phase[t] = phase'[t] /\ stage[t] = stage'[t]
  BY <1>1, <1>6
<1>7. ASSUME NEW t \in Servers, Reading(t)'
      PROVE  marked'[t][Prev(stage'[t])]
  BY <1>1, <1>6, <1>7 DEF Trust, Reading
<1>8. ASSUME NEW t \in Servers, phase'[t] = "job", stage'[t] # "verify1"
      PROVE  job'[t].listed = Parts(shared'[t][Prev(stage'[t])], job'[t].batch)
  BY <1>1, <1>6, <1>8 DEF Trust
<1> QED BY <1>5, <1>7, <1>8 DEF Trust

LEMMA TrustStep ==
  ASSUME TypeOK, Faithful, Trust, NEW s \in Servers, ~dirty',
         Deliver(s) \/ Step(s) \/ Crash(s) \/ Restart(s)
  PROVE  Trust'
<1>1. CASE Quiet(s)
  <2>1. QuietEffect
    BY <1>1, QuietStep
  <2>2. \A t \in Servers, k \in Mirrored :
          marked'[t][k] /\ phase'[t] # "done" => Past(Peer(t), k)'
    BY <2>1 DEF QuietEffect, Trust, Past
  <2>3. ASSUME NEW t \in Servers, Reading(t)'
        PROVE  marked'[t][Prev(stage'[t])]
    <3>1. Reading(t) \/ (InputMarked(t) /\ stage[t] # "verify1")
      BY <2>1, <2>3 DEF QuietEffect, Reading
    <3>2. marked[t][Prev(stage[t])]
      BY <3>1, InputIsPast DEF InputMarked
    <3> QED BY <2>1, <3>2 DEF QuietEffect
  <2>4. ASSUME NEW t \in Servers, phase'[t] = "job", stage'[t] # "verify1"
        PROVE  job'[t].listed = Parts(shared'[t][Prev(stage'[t])], job'[t].batch)
    BY <2>1, <2>4 DEF QuietEffect, Trust
  <2> QED BY <2>2, <2>3, <2>4 DEF Trust
<1>2. CASE Output(s)
  BY <1>2, TrustOutput
<1>3. CASE Mark(s)
  BY <1>3, TrustMark
<1>4. CASE Restart(s)
  BY <1>4, TrustRestart
<1> QED BY <1>1, <1>2, <1>3, <1>4, StepCases DEF Output

-----------------------------------------------------------------------------
(* The rows of parts and reports. *)

(* A directory with one part for a batch reads as the rows of that part.   *)
LEMMA OnePartRows ==
  ASSUME NEW D \in Directories, OnePart(D), NEW b \in Batches, Parts(D, b) # {},
         NEW rows, \A o \in D : o.batch = b /\ o.run # 0 => o.rows = rows
  PROVE  /\ Load(Parts(D, b)) = rows
         /\ \A o \in Parts(D, b) : o.rows = rows
<1>1. PICK o \in D : o.batch = b /\ o.run # 0
  BY DEF Parts, Of
<1>2. Parts(D, b) = {o}
  BY <1>1 DEF OnePart, Parts, Of
<1>3. o.rows \in Rows /\ o.rows = rows
  BY <1>1 DEF Directories, Objects
<1>4. Load({o}) = o.rows
  BY <1>3, LoadSingleton
<1> QED BY <1>2, <1>3, <1>4

(* What a job reads: on either side the rows the previous stage should     *)
(* have produced.                                                          *)
LEMMA JobInputs ==
  ASSUME TypeOK, SingleParts, Faithful, Trust, ExactParts,
         NEW s \in Servers, phase[s] = "job", stage[s] # "verify1"
  PROVE  LET b == job[s].batch
             k == Prev(stage[s])
         IN  /\ InternalRows(s, b) = Yield(s, k, b)
             /\ Load(job[s].listed) = Yield(Peer(s), k, b)
             /\ \A o \in job[s].listed : o.rows = Yield(Peer(s), k, b)
<1> DEFINE b == job[s].batch
           k == Prev(stage[s])
           p == Peer(s)
<1>1. b \in Batches /\ p \in Servers /\ Peer(p) = s
  BY PeerType DEF TypeOK
<1>2. k \in Mirrored /\ Past(p, k)
  BY InputIsPast DEF Reading
<1>3. shared[s][k] = private[p][k]
  BY <1>1, <1>2 DEF Faithful
<1>4. job[s].listed = Parts(private[p][k], b)
  BY <1>3 DEF Trust
<1>5. ASSUME NEW t \in Servers, Parts(private[t][k], b) # {}
      PROVE  /\ Load(Parts(private[t][k], b)) = Yield(t, k, b)
             /\ \A o \in Parts(private[t][k], b) : o.rows = Yield(t, k, b)
  <2>1. private[t][k] \in Directories
    BY <1>2 DEF TypeOK
  <2>2. OnePart(private[t][k])
    BY <1>2 DEF SingleParts
  <2>3. \A o \in private[t][k] : o.batch = b /\ o.run # 0 => o.rows = Yield(t, k, b)
    BY <1>2 DEF ExactParts
  <2> HIDE DEF b, k
  <2> QED BY <1>1, <1>5, <2>1, <2>2, <2>3, OnePartRows
<1>6. Parts(private[s][k], b) # {} /\ job[s].listed # {}
  BY DEF SingleParts
<1> QED BY <1>1, <1>4, <1>5, <1>6 DEF InternalRows

(* A stage job writes the rows it should.                                  *)
LEMMA JobYield ==
  ASSUME TypeOK, SingleParts, Faithful, Trust, ExactParts,
         NEW s \in Servers, FinishStageJob(s)
  PROVE  JobRows(s, job[s].batch) = Yield(s, stage[s], job[s].batch)
<1> DEFINE b == job[s].batch
           p == Peer(s)
           mine == raw[s][b] \cap Decodes[s]
           theirs == raw[p][b] \cap Decodes[p]
<1>1. b \in Batches /\ p \in Servers /\ phase[s] = "job"
  BY PeerType DEF TypeOK, FinishStageJob
<1>2. raw[s][b] \in SUBSET Ids /\ raw[p][b] \in SUBSET Ids
  BY <1>1, InputTypes
<1>3. Joint(b) = mine \cap theirs /\ Joint(b) \in SUBSET Ids
  BY <1>2 DEF Joint, Peer
<1>4. CASE stage[s] = "verify1"
  BY <1>2, <1>4, WhereRowSet DEF JobRows, Verify1Rows, UdfVerify1, Yield
<1>5. CASE stage[s] = "verify2"
  <2>1. InternalRows(s, b) = RowSet(mine) /\ Load(job[s].listed) = RowSet(theirs)
    BY <1>1, <1>5, JobInputs DEF Prev, Yield
  <2>2. Join(RowSet(raw[s][b]), RowSet(mine), RowSet(theirs)) =
          RowSet(raw[s][b] \cap mine \cap theirs)
    BY <1>2, JoinRowSet
  <2>3. (raw[s][b] \cap mine \cap theirs) \cap Decodes[s] = Joint(b)
    BY <1>3
  <2>4. Where(RowSet(raw[s][b] \cap mine \cap theirs), Decodes[s]) = RowSet(Joint(b))
    <3>1. raw[s][b] \cap mine \cap theirs \in SUBSET Ids
      BY <1>2
    <3> QED BY <2>3, <3>1, WhereRowSet
  <2>5. JobRows(s, b) = Verify2Rows(s, RowSet(raw[s][b]), RowSet(mine), RowSet(theirs))
    BY <1>5, <2>1 DEF JobRows
  <2> QED BY <1>5, <2>2, <2>4, <2>5 DEF Verify2Rows, UdfVerify2, Yield
<1>6. CASE stage[s] = "aggregate"
  <2>1. InternalRows(s, b) = RowSet(Joint(b)) /\ Load(job[s].listed) = RowSet(Joint(b))
    BY <1>1, <1>6, JobInputs DEF Prev, Yield
  <2>2. Join(RowSet(raw[s][b]), RowSet(Joint(b)), RowSet(Joint(b))) =
          RowSet(raw[s][b] \cap Joint(b) \cap Joint(b))
    BY <1>2, <1>3, JoinRowSet
  <2>3. raw[s][b] \cap Joint(b) \cap Joint(b) = Joint(b)
    BY <1>3
  <2> QED BY <1>6, <2>1, <2>2, <2>3 DEF JobRows, AggregateRows, Yield
<1>7. stage[s] \in Mirrored
  BY DEF FinishStageJob, TypeOK, Stages
<1> QED BY <1>4, <1>5, <1>6, <1>7 DEF Mirrored

LEMMA ExactPartsStep ==
  ASSUME TypeOK, SingleParts, Faithful, Trust, ExactParts, NEW s \in Servers,
         Deliver(s) \/ Step(s) \/ Crash(s) \/ Restart(s)
  PROVE  ExactParts'
<1>1. ASSUME UNCHANGED raw,
             \A t \in Servers, k \in Mirrored : private'[t][k] \subseteq private[t][k]
      PROVE  ExactParts'
  BY <1>1 DEF ExactParts, Yield, Joint
<1>2. CASE Quiet(s)
  BY <1>1, <1>2, QuietStep DEF QuietEffect
<1>3. ASSUME NEW b \in Batches, StartJob(s, b) PROVE ExactParts'
  <2>1. CASE stage[s] = "publish"
    BY <1>1, <1>3, <2>1 DEF StartJob
  <2>2. CASE stage[s] # "publish"
    <3>1. private' = [private EXCEPT ![s][stage[s]] =
                        private[s][stage[s]] \ Of(private[s][stage[s]], b)]
      BY <1>3, <2>2 DEF StartJob
    <3>2. \A t \in Servers, k \in Mirrored : private'[t][k] \subseteq private[t][k]
      BY <3>1 DEF TypeOK
    <3> QED BY <1>1, <1>3, <3>2 DEF StartJob
  <2> QED BY <2>1, <2>2
<1>4. CASE FinishStageJob(s)
  <2> DEFINE k == stage[s]
             b == job[s].batch
             part == Part(b, run[s], JobRows(s, b))
  <2>1. k \in Mirrored
    BY <1>4 DEF FinishStageJob, TypeOK, Stages
  <2>2. part.batch = b /\ part.rows = Yield(s, k, b) /\ Commit(b).run = 0
    BY <1>4, JobYield DEF Part, Commit
  <2>3. private' = [private EXCEPT ![s][k] = private[s][k] \cup {part, Commit(b)}]
    BY <1>4 DEF FinishStageJob
  <2>4. ASSUME NEW t \in Servers, NEW j \in Mirrored, NEW o \in private'[t][j], o.run # 0
        PROVE  o.rows = Yield(t, j, o.batch)
    <3> HIDE DEF part
    <3>1. CASE t = s /\ j = k
      <4>1. o \in private[s][k] \/ o = part
        BY <2>1, <2>2, <2>3, <2>4, <3>1 DEF TypeOK
      <4> QED BY <2>1, <2>2, <2>4, <3>1, <4>1 DEF ExactParts
    <3>2. CASE ~(t = s /\ j = k)
      <4>1. o \in private[t][j]
        BY <2>1, <2>3, <2>4, <3>2 DEF TypeOK
      <4> QED BY <2>4, <4>1 DEF ExactParts
    <3> QED BY <3>1, <3>2
  <2>5. UNCHANGED raw
    BY <1>4 DEF FinishStageJob
  <2>6. \A t \in Servers, j \in Mirrored : \A c : Yield(t, j, c)' = Yield(t, j, c)
    BY <2>5 DEF Yield, Joint
  <2> HIDE DEF k, b, part
  <2> QED BY <2>4, <2>6 DEF ExactParts
<1>5. CASE FinishPublishJob(s)
  BY <1>1, <1>5 DEF FinishPublishJob
<1>6. CASE CopyObject(s) \/ RemoveObject(s) \/ RemoveMarker(s)
  BY <1>1, <1>6 DEF CopyObject, RemoveObject, RemoveMarker
<1>7. CASE Mark(s)
  BY <1>1, <1>7 DEF Mark
<1>8. CASE Restart(s)
  BY <1>1, <1>8 DEF Restart, buckets
<1> QED BY <1>2, <1>3, <1>4, <1>5, <1>6, <1>7, <1>8, StepCases

LEMMA ExactReportsStep ==
  ASSUME TypeOK, SingleParts, Faithful, Trust, ExactParts, ExactReports, ~dirty,
         NEW s \in Servers,
         Deliver(s) \/ Step(s) \/ Crash(s) \/ Restart(s)
  PROVE  ExactReports'
<1> DEFINE Exact == \A t \in Servers, b \in Batches : published[t][b] \in {None, Expected(b)}
<1>1. Exact
  BY DEF ExactReports
<1>2. ASSUME UNCHANGED raw, Exact' PROVE ExactReports'
  BY <1>2 DEF ExactReports
<1>3. ASSUME UNCHANGED <<raw, published>> PROVE ExactReports'
  <2>1. Exact'
    BY <1>1, <1>3 DEF Expected, Joint
  <2> QED BY <1>2, <1>3, <2>1
<1>4. CASE Quiet(s)
  BY <1>3, <1>4, QuietStep DEF QuietEffect
<1>5. ASSUME NEW b \in Batches, StartJob(s, b) PROVE ExactReports'
  <2>1. CASE stage[s] = "publish"
    <3>1. published' = [published EXCEPT ![s][b] = None] /\ UNCHANGED raw
      BY <1>5, <2>1 DEF StartJob
    <3>2. \A c \in Batches : Expected(c)' = Expected(c)
      BY <3>1 DEF Expected, Joint
    <3>3. \A t \in Servers, c \in Batches : published'[t][c] \in {None, published[t][c]}
      BY <3>1 DEF TypeOK
    <3>4. Exact'
      BY <1>1, <3>2, <3>3
    <3> QED BY <1>2, <3>1, <3>4
  <2>2. CASE stage[s] # "publish"
    BY <1>3, <1>5, <2>2 DEF StartJob
  <2> QED BY <2>1, <2>2
<1>6. CASE FinishStageJob(s)
  BY <1>3, <1>6 DEF FinishStageJob
<1>7. CASE FinishPublishJob(s)
  <2> DEFINE b == job[s].batch
  <2>1. b \in Batches /\ Peer(s) \in Servers /\ phase[s] = "job" /\ stage[s] = "publish"
    BY <1>7, PeerType DEF TypeOK, FinishPublishJob
  <2>2. /\ InternalRows(s, b) = RowSet(Joint(b))
        /\ \A o \in job[s].listed : o.rows = RowSet(Joint(b))
    BY <2>1, JobInputs DEF Prev, Yield
  <2>3. /\ Joint(b) \in SUBSET Ids
        /\ Joint(b) \subseteq Decodes[s] /\ Joint(b) \subseteq Decodes[Peer(s)]
    <3>1. raw[s][b] \in SUBSET Ids
      BY <2>1, InputTypes
    <3> QED BY <3>1 DEF Joint, Peer
  <2>4. PublishReport(s, RowSet(Joint(b)), RowSet(Joint(b))) = Expected(b)
    BY <2>3, PublishSameRows DEF Expected
  <2>5. published' = [published EXCEPT ![s][b] = Expected(b)] /\ UNCHANGED raw
    BY <1>7, <2>2, <2>4 DEF FinishPublishJob
  <2>6. \A c \in Batches : Expected(c)' = Expected(c)
    BY <2>5 DEF Expected, Joint
  <2>7. \A t \in Servers, c \in Batches :
          published'[t][c] = IF t = s /\ c = b THEN Expected(b) ELSE published[t][c]
    <3> HIDE DEF b
    <3> QED BY <2>1, <2>5 DEF TypeOK
  <2>8. Exact'
    <3> HIDE DEF b
    <3> QED BY <1>1, <2>6, <2>7
  <2> QED BY <1>2, <2>5, <2>8
<1>8. CASE CopyObject(s) \/ RemoveObject(s) \/ RemoveMarker(s) \/ Mark(s)
  BY <1>3, <1>8 DEF CopyObject, RemoveObject, RemoveMarker, Mark
<1>9. CASE Restart(s)
  BY <1>3, <1>9 DEF Restart, buckets
<1> QED BY <1>4, <1>5, <1>6, <1>7, <1>8, <1>9, StepCases

-----------------------------------------------------------------------------
(* The theorems. *)

LEMMA InitExactInv == Init => ExactInv
<1> SUFFICES ASSUME Init PROVE ExactInv
  OBVIOUS
<1>1. SingleParts
  BY DEF Init, SingleParts, OnePart
<1>2. Faithful
  BY DEF Init, Faithful, Past, StageNo, Mirrored
<1>3. Trust
  BY DEF Init, Trust, Reading
<1>4. ExactParts /\ ExactReports
  BY DEF Init, ExactParts, ExactReports
<1> QED BY <1>1, <1>2, <1>3, <1>4 DEF ExactInv

(* A rerun that was unsafe stays so.                                       *)
LEMMA DirtyStays ==
  ASSUME TypeOK, NEW s \in Servers,
         Deliver(s) \/ Step(s) \/ Crash(s) \/ Restart(s)
  PROVE  dirty => dirty'
<1>1. CASE Quiet(s)
  BY <1>1, QuietStep DEF QuietEffect
<1>2. CASE Output(s)
  BY <1>2, OutputStep DEF OutputEffect
<1>3. CASE Mark(s) \/ Restart(s)
  BY <1>3 DEF Mark, Restart
<1> QED BY <1>1, <1>2, <1>3, StepCases DEF Output

LEMMA ExactInvStep ==
  ASSUME TypeOK, ExactInv, [Next]_vars
  PROVE  ExactInv'
<1>1. ASSUME UNCHANGED vars PROVE ExactInv'
  <2> USE <1>1 DEF vars, buckets, procs
  <2>1. SingleParts'
    BY DEF ExactInv, SingleParts, OnePart, Of, Parts
  <2>2. Faithful'
    BY DEF ExactInv, Faithful, Past
  <2>3. Trust => Trust'
    BY DEF Trust, Past, Reading, Parts, Of
  <2>4. ExactParts => ExactParts'
    BY DEF ExactParts, Yield, Joint
  <2>5. ExactReports => ExactReports'
    BY DEF ExactReports, Expected, Joint
  <2> QED BY <2>1, <2>2, <2>3, <2>4, <2>5 DEF ExactInv
<1>2. ASSUME NEW s \in Servers, Deliver(s) \/ Step(s) \/ Crash(s) \/ Restart(s)
      PROVE  ExactInv'
  <2>1. SingleParts' /\ Faithful'
    BY <1>2, SinglePartsStep, FaithfulStep DEF ExactInv
  <2>2. ASSUME ~dirty' PROVE Trust' /\ ExactParts' /\ ExactReports'
    <3>1. ~dirty
      BY <1>2, <2>2, DirtyStays
    <3>2. SingleParts /\ Faithful /\ Trust /\ ExactParts /\ ExactReports
      BY <3>1 DEF ExactInv
    <3> QED BY <1>2, <2>2, <3>1, <3>2, TrustStep, ExactPartsStep, ExactReportsStep
  <2> QED BY <2>1, <2>2 DEF ExactInv
<1> QED BY <1>1, <1>2 DEF Next

(* The state behind exactness is an invariant: one part per batch and run, *)
(* markers that vouch for complete copies, exact parts (bin/process,       *)
(* 102-230).                                                               *)
THEOREM Inductive == Spec => []ExactInv
<1>1. TypeOK /\ ExactInv /\ [Next]_vars => ExactInv'
  BY ExactInvStep
<1> QED BY InitExactInv, <1>1, TypeCorrect, PTL DEF Spec

(* Whatever the interleaving of the two servers, the crashes and the safe  *)
(* reruns, every published record counts exactly the rows that both        *)
(* servers hold and can decode, each once (publish, 192-215).              *)
THEOREM Exactness == Spec => []ExactReports
<1>1. ExactInv => ExactReports
  BY DEF ExactInv, ExactReports
<1> QED BY <1>1, Inductive, PTL

(* The batches a stage reads do not change under it: wait_for_data looks   *)
(* at the marker once, and that is enough (wait_for_data, 68-90).          *)
THEOREM Stability == Spec => StableInput
<1> DEFINE Same(t) == shared'[t][Prev(stage[t])] = shared[t][Prev(stage[t])]
<1>1. ASSUME TypeOK, ExactInv, [Next]_vars, NEW t \in Servers, Reading(t), ~dirty'
      PROVE  Same(t)
  <2>1. CASE UNCHANGED vars
    BY <2>1 DEF vars, buckets
  <2>2. ASSUME NEW s \in Servers, Deliver(s) \/ Step(s) \/ Crash(s) \/ Restart(s)
        PROVE  Same(t)
    <3>1. Trust
      BY <1>1, <2>2, DirtyStays DEF ExactInv
    <3>2. CASE Quiet(s)
      BY <1>1, <3>2, QuietStep DEF QuietEffect
    <3>3. CASE Output(s)
      BY <1>1, <3>1, <3>3, InputStable
    <3>4. CASE Mark(s) \/ Restart(s)
      BY <3>4 DEF Mark, Restart, buckets
    <3> QED BY <2>2, <3>2, <3>3, <3>4, StepCases DEF Output
  <2> QED BY <1>1, <2>1, <2>2 DEF Next
<1>2. TypeOK /\ ExactInv /\ [Next]_vars => [InputStays]_vars
  BY <1>1 DEF Reading, InputStays
<1> QED BY <1>2, TypeCorrect, Inductive, PTL DEF Spec, StableInput

=============================================================================
