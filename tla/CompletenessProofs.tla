------------------------- MODULE CompletenessProofs -------------------------
(***************************************************************************)
(* More theorems about the pipeline, for every set of rows and batches and *)
(* every input: the barrier the markers make, what survives even unsafe    *)
(* reruns, what a server that has finished, or failed, tells about its     *)
(* input, and that the pipeline implements IdealAggregation.               *)
(***************************************************************************)
EXTENDS PipelineProofs

USE DEF Servers

-----------------------------------------------------------------------------
(* Lockstep. *)

Busy == {"batches", "job", "mirror"}

(* While both servers run for the first time, a marker is there only if    *)
(* the peer is past the stage, and a server works on a stage only if its   *)
(* peer is past the one before.                                            *)
LockInv ==
  (\A s \in Servers : run[s] = 1) =>
    \A s \in Servers :
      /\ \A k \in Mirrored : marked[s][k] => Past(Peer(s), k)
      /\ stage[s] # "verify1" /\ phase[s] \in Busy => Past(Peer(s), Prev(stage[s]))
      /\ StageNo[stage[s]] <= StageNo[stage[Peer(s)]] + 1

(* Stages in terms of their numbers.                                       *)
LEMMA StageNumbers ==
  /\ \A k \in Stages : StageNo[k] \in 1..4
  /\ \A k \in Mirrored : StageNo[Following(k)] = StageNo[k] + 1
  /\ \A k \in Stages \ {"verify1"} : StageNo[k] = StageNo[Prev(k)] + 1
  /\ StageNo["verify1"] = 1
BY DEF Stages, Mirrored, StageNo, Following, Prev

(* Steps that keep a server in its stage start work only where the marker  *)
(* is, and place no marker.                                                *)
LEMMA StaysInStage ==
  ASSUME TypeOK, NEW s \in Servers,
         Deliver(s) \/ Step(s) \/ Crash(s), ~Mark(s)
  PROVE  /\ UNCHANGED <<stage, run>>
         /\ \A t \in Servers, k \in Mirrored : marked'[t][k] => marked[t][k]
         /\ \A t \in Servers : phase'[t] \in Busy => phase[t] \in Busy \/ InputMarked(t)
<1> USE DEF TypeOK, Goto, buckets, procs, Busy
<1> DEFINE Goal == /\ UNCHANGED <<stage, run>>
                   /\ \A t \in Servers, k \in Mirrored : marked'[t][k] => marked[t][k]
                   /\ \A t \in Servers : phase'[t] \in Busy => phase[t] \in Busy \/ InputMarked(t)
<1>1. CASE Deliver(s) \/ FindData(s) \/ PollAgain(s)
  BY <1>1 DEF Deliver, FindData, PollAgain
<1>2. CASE EndLoop(s) \/ FailJob(s) \/ RejectMirror(s) \/ Crash(s)
  BY <1>2 DEF EndLoop, FailJob, RejectMirror, Crash
<1>3. CASE FinishStageJob(s) \/ FinishPublishJob(s)
  BY <1>3 DEF FinishStageJob, FinishPublishJob
<1>4. ASSUME NEW b \in Batches, SkipBatch(s, b) \/ StartJob(s, b) \/ RejectJob(s, b)
      PROVE  Goal
  BY <1>4 DEF SkipBatch, StartJob, RejectJob
<1>5. CASE CopyObject(s) \/ RemoveObject(s)
  BY <1>5 DEF CopyObject, RemoveObject
<1>6. CASE RemoveMarker(s)
  BY <1>6 DEF RemoveMarker
<1> QED BY <1>1, <1>2, <1>3, <1>4, <1>5, <1>6 DEF Step

LEMMA LockInvStep ==
  ASSUME TypeOK, LockInv, NEW s \in Servers,
         Deliver(s) \/ Step(s) \/ Crash(s) \/ Restart(s)
  PROVE  LockInv'
<1>1. CASE (Deliver(s) \/ Step(s) \/ Crash(s)) /\ ~Mark(s)
  <2> SUFFICES ASSUME \A t \in Servers : run'[t] = 1, NEW t \in Servers
               PROVE  /\ \A k \in Mirrored : marked'[t][k] => Past(Peer(t), k)'
                      /\ stage'[t] # "verify1" /\ phase'[t] \in Busy =>
                           Past(Peer(t), Prev(stage[t]))'
                      /\ StageNo[stage'[t]] <= StageNo[stage'[Peer(t)]] + 1
    BY DEF LockInv, Past
  <2>1. /\ stage' = stage /\ run' = run
        /\ \A k \in Mirrored : marked'[t][k] => marked[t][k]
        /\ phase'[t] \in Busy => phase[t] \in Busy \/ InputMarked(t)
    BY <1>1, StaysInStage
  <2>2. stage[t] # "verify1" => Prev(stage[t]) \in Mirrored
    BY StageOrder DEF TypeOK
  <2> QED BY <2>1, <2>2 DEF LockInv, Past, InputMarked
<1>2. CASE Mark(s)
  <2> DEFINE k == stage[s]
             p == Peer(s)
  <2> SUFFICES ASSUME \A t \in Servers : run'[t] = 1, NEW t \in Servers
               PROVE  /\ \A j \in Mirrored : marked'[t][j] => Past(Peer(t), j)'
                      /\ stage'[t] # "verify1" /\ phase'[t] \in Busy =>
                           Past(Peer(t), Prev(stage[t]))'
                      /\ StageNo[stage'[t]] <= StageNo[stage'[Peer(t)]] + 1
    BY DEF LockInv, Past
  <2>1. /\ k \in Mirrored /\ p \in Servers /\ p # s /\ Peer(p) = s
        /\ \A u \in Servers : u = s \/ u = p
        /\ stage[p] \in Stages
    BY <1>2, PeerType DEF Mark, TypeOK
  <2>2. /\ run' = run /\ phase[s] = "mirror" /\ phase'[s] = "wait" /\ phase'[p] = phase[p]
        /\ stage'[s] = Following(k) /\ stage'[p] = stage[p]
        /\ \A u \in Servers, j \in Mirrored : marked'[u][j] => marked[u][j] \/ (u = p /\ j = k)
    BY <1>2, <2>1 DEF Mark, TypeOK, Goto
  <2>3. /\ StageNo[Following(k)] = StageNo[k] + 1 /\ StageNo[k] \in 1..4
        /\ StageNo[stage[p]] \in 1..4
        /\ k # "verify1" => Prev(k) \in Mirrored /\ StageNo[k] = StageNo[Prev(k)] + 1
        /\ StageNo["verify1"] = 1
        /\ \A j \in Mirrored : StageNo[j] \in 1..4
    BY <2>1, StageNumbers, StageOrder DEF Stages
  <2>4. /\ \A j \in Mirrored : marked[s][j] => StageNo[stage[p]] > StageNo[j]
        /\ \A j \in Mirrored : marked[p][j] => StageNo[k] > StageNo[j]
        /\ k # "verify1" => StageNo[stage[p]] > StageNo[Prev(k)]
        /\ stage[p] # "verify1" /\ phase[p] \in Busy => StageNo[k] > StageNo[Prev(stage[p])]
        /\ StageNo[stage[p]] <= StageNo[k] + 1
    BY <2>1, <2>2 DEF LockInv, Past, Busy
  <2>5. CASE t = s
    <3>1. StageNo[k] <= StageNo[stage[p]]
      BY <2>3, <2>4
    <3> QED BY <2>1, <2>2, <2>3, <2>4, <2>5, <3>1 DEF Past, Busy
  <2>6. CASE t = p
    <3>1. stage[p] # "verify1" => Prev(stage[p]) \in Mirrored
      BY <2>1, StageOrder
    <3> QED BY <2>1, <2>2, <2>3, <2>4, <2>6, <3>1 DEF Past
  <2> QED BY <2>1, <2>5, <2>6
<1>3. CASE Restart(s)
  <2>1. run'[s] # 1
    BY <1>3, BoundsType DEF Restart, TypeOK
  <2> QED BY <2>1 DEF LockInv
<1> QED BY <1>1, <1>2, <1>3

(* The markers act as a barrier: while each server runs for the first      *)
(* time, neither is ever more than one stage ahead (main, 217-230).        *)
THEOREM Barrier == Spec => []Lockstep
<1>1. Init => LockInv
  BY DEF Init, LockInv, Past, StageNo, Busy, Mirrored, Peer
<1>2. TypeOK /\ LockInv /\ [Next]_vars => LockInv'
  <2> SUFFICES ASSUME TypeOK, LockInv, [Next]_vars PROVE LockInv'
    OBVIOUS
  <2>1. CASE UNCHANGED vars
    BY <2>1 DEF vars, buckets, procs, LockInv, Past
  <2> QED BY <2>1, LockInvStep DEF Next
<1>3. TypeOK /\ LockInv => Lockstep
  <2> SUFFICES ASSUME TypeOK, LockInv, \A s \in Servers : run[s] = 1
               PROVE  StageNo[stage[A]] - StageNo[stage[B]] \in -1..1
    BY DEF Lockstep
  <2>1. StageNo[stage[A]] \in 1..4 /\ StageNo[stage[B]] \in 1..4
    BY StageNumbers DEF TypeOK
  <2>2. StageNo[stage[A]] <= StageNo[stage[B]] + 1 /\ StageNo[stage[B]] <= StageNo[stage[A]] + 1
    BY ServersDiffer DEF LockInv, Peer
  <2> QED BY <2>1, <2>2
<1> QED BY <1>1, <1>2, <1>3, TypeCorrect, PTL DEF Spec

-----------------------------------------------------------------------------
(* What no rerun can spoil. *)

Allowed(s, k, b) == IF k = "verify1" THEN raw[s][b] \cap Decodes[s] ELSE Joint(b)
Within(D, s, k) == \A o \in D : \A i \in Ids : o.rows[i] > 0 => i \in Allowed(s, k, o.batch)

(* No object, wherever it was mirrored to and whichever run wrote it, has  *)
(* a row its stage could not have: this does not depend on markers, so     *)
(* that unsafe reruns keep it.                                             *)
JointInv ==
  /\ \A s \in Servers, k \in Mirrored :
       Within(private[s][k], s, k) /\ Within(shared[Peer(s)][k], s, k)
  /\ \A s \in Servers : phase[s] = "job" /\ stage[s] # "verify1" =>
       /\ Within(job[s].listed, Peer(s), Prev(stage[s]))
       /\ \A o \in job[s].listed : o.batch = job[s].batch

(* A row that is loaded is in one of the parts.                            *)
LEMMA LoadPositive ==
  ASSUME NEW P, \A o \in P : o.rows \in Rows, NEW i \in Ids, Load(P)[i] > 0
  PROVE  \E o \in P : o.rows[i] > 0
<1> SUFFICES ASSUME \A o \in P : ~(o.rows[i] > 0) PROVE FALSE
  OBVIOUS
<1>1. \A o \in P : 1..o.rows[i] = {}
  BY DEF Rows
<1>2. Copies(P, i) = {}
  <2>1. \A o \in P : {o} \X (1..o.rows[i]) = {}
    BY <1>1
  <2> QED BY <2>1, Zenon DEF Copies
<1>3. Load(P)[i] = Cardinality(Copies(P, i))
  BY DEF Load
<1>4. Cardinality(Copies(P, i)) = 0
  BY <1>2, FS_EmptySet
<1> QED BY <1>3, <1>4

(* A row of a join is in each of the three.                                *)
LEMMA JoinPositive ==
  ASSUME NEW x \in Rows, NEW y \in Rows, NEW z \in Rows, NEW i \in Ids, Join(x, y, z)[i] > 0
  PROVE  x[i] > 0 /\ y[i] > 0 /\ z[i] > 0
<1>1. x[i] \in Nat /\ y[i] \in Nat /\ z[i] \in Nat
  BY DEF Rows
<1>2. x[i] * y[i] * z[i] > 0
  BY DEF Join
<1>3. \A m, n \in Nat : m * n \in Nat
  BY ProductType
<1>4. \A n \in Nat : 0 * n = 0 /\ n * 0 = 0
  OBVIOUS
<1>5. x[i] # 0
  BY <1>1, <1>2, <1>4
<1>6. y[i] # 0
  BY <1>1, <1>2, <1>4
<1>7. z[i] # 0
  BY <1>1, <1>2, <1>3, <1>4
<1> QED BY <1>1, <1>5, <1>6, <1>7

LEMMA JobWithin ==
  ASSUME TypeOK, JointInv, NEW s \in Servers, FinishStageJob(s), NEW i \in Ids,
         JobRows(s, job[s].batch)[i] > 0
  PROVE  i \in Allowed(s, stage[s], job[s].batch)
<1> DEFINE b == job[s].batch
           p == Peer(s)
           k == Prev(stage[s])
<1>1. b \in Batches /\ p \in Servers /\ p # s /\ phase[s] = "job" /\ stage[s] \in Mirrored
  BY PeerType DEF FinishStageJob, TypeOK, Stages
<1>2. raw[s][b] \in SUBSET Ids /\ RowSet(raw[s][b]) \in Rows /\ Load(job[s].listed) \in Rows
  BY <1>1, InputTypes
<1>3. RowSet(raw[s][b])[i] > 0 => i \in raw[s][b]
  BY <1>2 DEF RowSet
<1>4. CASE stage[s] = "verify1"
  <2>1. Where(RowSet(raw[s][b]), Decodes[s])[i] > 0
    BY <1>4 DEF JobRows, Verify1Rows, UdfVerify1
  <2> QED BY <1>3, <1>4, <2>1 DEF Where, Allowed
<1>5. CASE stage[s] # "verify1"
  <2>1. k \in Mirrored /\ InternalRows(s, b) \in Rows
    BY <1>1, <1>5, InputTypes, StageOrder DEF TypeOK
  <2>2. Join(RowSet(raw[s][b]), InternalRows(s, b), Load(job[s].listed))[i] > 0
    BY <1>5 DEF JobRows, Verify2Rows, UdfVerify2, AggregateRows, Where
  <2>3. RowSet(raw[s][b])[i] > 0 /\ InternalRows(s, b)[i] > 0 /\ Load(job[s].listed)[i] > 0
    BY <1>2, <2>1, <2>2, JoinPositive
  <2>4. i \in Allowed(s, k, b)
    <3>1. \A o \in Parts(private[s][k], b) : o.rows \in Rows /\ o \in private[s][k] /\ o.batch = b
      BY <2>1 DEF TypeOK, Directories, Objects, Parts, Of
    <3>2. PICK o \in Parts(private[s][k], b) : o.rows[i] > 0
      BY <2>3, <3>1, LoadPositive DEF InternalRows
    <3> QED BY <2>1, <3>1, <3>2 DEF JointInv, Within
  <2>5. i \in Allowed(p, k, b)
    <3>1. \A o \in job[s].listed : o.rows \in Rows /\ o.batch = b
      BY <1>1, <1>5 DEF TypeOK, Directories, Objects, JointInv
    <3>2. PICK o \in job[s].listed : o.rows[i] > 0
      BY <2>3, <3>1, LoadPositive
    <3> QED BY <1>1, <1>5, <3>1, <3>2 DEF JointInv, Within
  <2>6. i \in Joint(b)
    BY <1>1, <2>4, <2>5 DEF Allowed, Joint, Peer
  <2> QED BY <1>5, <2>6 DEF Allowed
<1> QED BY <1>4, <1>5

(* Steps that write no object but copy or remove some keep every directory *)
(* within its bounds.                                                      *)
LEMMA JointInvUnchanged ==
  ASSUME JointInv, UNCHANGED raw,
         \A s \in Servers, k \in Mirrored :
           /\ private'[s][k] \subseteq private[s][k]
           /\ shared'[Peer(s)][k] \subseteq shared[Peer(s)][k] \cup private[s][k],
         \A t \in Servers : phase'[t] = "job" =>
           phase[t] = "job" /\ job'[t] = job[t] /\ stage'[t] = stage[t]
  PROVE  JointInv'
BY DEF JointInv, Within, Allowed, Joint

LEMMA JointInvStep ==
  ASSUME TypeOK, JointInv, NEW s \in Servers,
         Deliver(s) \/ Step(s) \/ Crash(s) \/ Restart(s)
  PROVE  JointInv'
<1> DEFINE p == Peer(s)
<1>0. p \in Servers /\ p # s /\ Peer(p) = s /\ \A t \in Servers : t = s \/ t = p
  BY PeerType
<1>1. CASE Quiet(s)
  BY <1>1, QuietStep, JointInvUnchanged DEF QuietEffect
<1>2. ASSUME NEW b \in Batches, StartJob(s, b) PROVE JointInv'
  <2> DEFINE k == Prev(stage[s])
  <2>1. /\ UNCHANGED <<raw, shared, stage>>
        /\ phase'[s] = "job" /\ phase'[p] = phase[p] /\ job'[p] = job[p]
        /\ job'[s].batch = b /\ job'[s].listed = ExternalParts(s, b)
        /\ \A t \in Servers, j \in Mirrored : private'[t][j] \subseteq private[t][j]
    BY <1>0, <1>2 DEF StartJob, Goto, TypeOK, Stages
  <2>2. stage[s] # "verify1" =>
          /\ Within(ExternalParts(s, b), p, k)
          /\ \A o \in ExternalParts(s, b) : o.batch = b
    <3> SUFFICES ASSUME stage[s] # "verify1"
                 PROVE  /\ Within(ExternalParts(s, b), p, k)
                        /\ \A o \in ExternalParts(s, b) : o.batch = b
      OBVIOUS
    <3>1. k \in Mirrored
      BY StageOrder DEF TypeOK
    <3>2. Within(shared[s][k], p, k)
      BY <1>0, <3>1 DEF JointInv
    <3>3. ExternalParts(s, b) = Parts(shared[s][k], b)
      BY DEF ExternalParts
    <3> QED BY <3>2, <3>3 DEF Parts, Of, Within
  <2> QED BY <1>0, <2>1, <2>2 DEF JointInv, Within, Allowed, Joint
<1>3. CASE FinishStageJob(s)
  <2> DEFINE b == job[s].batch
             part == Part(b, run[s], JobRows(s, b))
  <2>1. /\ UNCHANGED <<raw, shared, stage>>
        /\ phase'[s] = "batches" /\ phase'[p] = phase[p] /\ job'[p] = job[p]
        /\ private' = [private EXCEPT ![s][stage[s]] = @ \cup {part, Commit(b)}]
        /\ stage[s] \in Mirrored
    BY <1>0, <1>3 DEF FinishStageJob, Goto, TypeOK, Stages
  <2>2. \A t \in Servers, k \in Mirrored :
          \A o \in private'[t][k] : o \in private[t][k] \/ (t = s /\ k = stage[s] /\ o \in {part, Commit(b)})
    BY <2>1 DEF TypeOK
  <2>3. part.batch = b /\ part.rows = JobRows(s, b)
    BY DEF Part
  <2>4. \A i \in Ids : ~(Commit(b).rows[i] > 0)
    BY DEF Commit, NoRows
  <2>5. Within({part, Commit(b)}, s, stage[s])
    <3>1. \A i \in Ids : part.rows[i] > 0 => i \in Allowed(s, stage[s], part.batch)
      BY <1>3, <2>3, JobWithin
    <3> QED BY <3>1, <2>4 DEF Within
  <2> HIDE DEF part
  <2>6. \A t \in Servers, k \in Mirrored : Within(private'[t][k], t, k)
    BY <2>2, <2>5 DEF JointInv, Within
  <2> QED BY <1>0, <2>1, <2>6 DEF JointInv, Within, Allowed, Joint
<1>4. CASE FinishPublishJob(s)
  BY <1>4, JointInvUnchanged DEF FinishPublishJob, Goto, TypeOK
<1>5. CASE CopyObject(s)
  <2>1. PICK o \in private[s][stage[s]] :
          shared' = [shared EXCEPT ![p][stage[s]] = @ \cup {o}]
    BY <1>5 DEF CopyObject, Source
  <2>2. \A t \in Servers, k \in Mirrored :
          shared'[Peer(t)][k] \subseteq shared[Peer(t)][k] \cup private[t][k]
    BY <1>0, <2>1, PeerType DEF TypeOK
  <2> QED BY <1>5, <2>2, JointInvUnchanged DEF CopyObject, procs
<1>6. CASE RemoveObject(s)
  <2>1. PICK o : shared' = [shared EXCEPT ![p][stage[s]] = @ \ {o}]
    BY <1>6 DEF RemoveObject
  <2>2. \A t \in Servers, k \in Mirrored : shared'[Peer(t)][k] \subseteq shared[Peer(t)][k]
    BY <1>0, <2>1, PeerType DEF TypeOK
  <2> QED BY <1>6, <2>2, JointInvUnchanged DEF RemoveObject, procs
<1>7. CASE RemoveMarker(s)
  BY <1>7, JointInvUnchanged DEF RemoveMarker, procs
<1>8. CASE Mark(s)
  BY <1>8, JointInvUnchanged DEF Mark, Goto, TypeOK
<1>9. CASE Restart(s)
  BY <1>9, JointInvUnchanged DEF Restart, Goto, buckets, TypeOK
<1> QED BY <1>1, <1>2, <1>3, <1>4, <1>5, <1>6, <1>7, <1>8, <1>9, StepCases

(* However often the servers are started, safely or not, an aggregate      *)
(* share counts no row that one of the servers lacks or cannot decode      *)
(* (spark/commands.py 305-342, 356-394).                                   *)
THEOREM JointRows == Spec => []OnlyJointRows
<1>1. Init => JointInv
  BY PeerType DEF Init, JointInv, Within
<1>2. TypeOK /\ JointInv /\ [Next]_vars => JointInv'
  <2> SUFFICES ASSUME TypeOK, JointInv, [Next]_vars PROVE JointInv'
    OBVIOUS
  <2>1. CASE UNCHANGED vars
    BY <2>1, JointInvUnchanged DEF vars, buckets, procs
  <2> QED BY <2>1, JointInvStep DEF Next
<1>3. JointInv => OnlyJointRows
  BY DEF JointInv, Within, Allowed, OnlyJointRows, Mirrored
<1> QED BY <1>1, <1>2, <1>3, TypeCorrect, PTL DEF Spec

-----------------------------------------------------------------------------
(* What a finished, or failed, server tells about its input. *)

(* The inputs without which no job of stage k ever writes batch b.         *)
Needs(s, k, b) ==
  CASE k = "verify1" -> raw[s][b] # {}
    [] k = "verify2" -> raw[A][b] # {} /\ raw[B][b] # {}
    [] OTHER -> Joint(b) # {}

(* The input that makes stage k of s run a job for batch b.                *)
Trigger(s, k, b) ==
  IF k \in {"verify1", "aggregate"} THEN raw[s][b] # {} ELSE raw[Peer(s)][b] # {}

(* In its current run, s has dealt with batch b in stage k.                *)
Treated(s, k, b) ==
  \/ Past(s, k)
  \/ /\ stage[s] = k
     /\ \/ phase[s] \in {"mirror", "done"}
        \/ /\ phase[s] \in {"batches", "job"} /\ b \notin todo[s]
           /\ ~(phase[s] = "job" /\ job[s].batch = b)

Supported ==
  /\ \A s \in Servers, k \in Mirrored : \A o \in private[s][k] : Needs(s, k, o.batch)
  /\ \A s \in Servers, b \in Batches : published[s][b] # None => Needs(s, "publish", b)
  /\ \A s \in Servers : phase[s] = "job" =>
       /\ Needs(s, stage[s], job[s].batch)
       /\ stage[s] = "verify1" => job[s].listed = {}

Complete ==
  \A s \in Servers, b \in Batches :
    /\ \A k \in Mirrored :
         Treated(s, k, b) /\ Trigger(s, k, b) => Parts(private[s][k], b) # {}
    /\ Treated(s, "publish", b) /\ Trigger(s, "publish", b) => published[s][b] = Expected(b)

Excused(s) == NothingToDo(s) \/ \E b \in Batches : BadBatch(b)

CompleteInv ==
  ~dirty => /\ Supported
            /\ Complete
            /\ \A s \in Servers : phase[s] = "aborted" => Excused(s)

(* What triggers a stage is what triggers the stage before at the peer.    *)
LEMMA TriggerLinks ==
  ASSUME TypeOK, NEW s \in Servers, NEW b \in Batches
  PROVE  /\ \A k \in Stages \ {"verify1"} :
              /\ Trigger(s, k, b) <=> Trigger(Peer(s), Prev(k), b)
              /\ Needs(Peer(s), Prev(k), b) => Trigger(s, k, b)
         /\ \A k \in Stages : Trigger(s, k, b) => raw[A][b] # {} \/ raw[B][b] # {}
         /\ Joint(b) # {} => \A k \in Stages : Trigger(s, k, b)
<1>1. raw[s][b] = {} \/ raw[Peer(s)][b] = {} => Joint(b) = {}
  BY DEF Joint, Peer
<1>2. Joint(b) # {} => \A k \in Stages : Trigger(s, k, b)
  BY <1>1 DEF Trigger
<1>3. \A k \in Stages : Trigger(s, k, b) => raw[A][b] # {} \/ raw[B][b] # {}
  BY DEF Trigger, Peer
<1>4. ASSUME NEW k \in Stages \ {"verify1"}
      PROVE  /\ Trigger(s, k, b) <=> Trigger(Peer(s), Prev(k), b)
             /\ Needs(Peer(s), Prev(k), b) => Trigger(s, k, b)
  <2>1. Peer(Peer(s)) = s /\ Peer(s) \in Servers
    BY PeerType
  <2>2. CASE k = "verify2"
    BY <2>1, <2>2 DEF Prev, Trigger, Needs
  <2>3. CASE k = "aggregate"
    BY <2>1, <2>3 DEF Prev, Trigger, Needs
  <2>4. CASE k = "publish"
    BY <1>1, <2>1, <2>4 DEF Prev, Trigger, Needs
  <2> QED BY <2>2, <2>3, <2>4 DEF Stages, Mirrored
<1> QED BY <1>2, <1>3, <1>4

(* Both servers are past the stage before the one that s reads for, and    *)
(* every batch they wrote there reads as it should.                        *)
LEMMA PreviousStage ==
  ASSUME TypeOK, ExactInv, ~dirty, NEW s \in Servers, Reading(s)
  PROVE  LET k == Prev(stage[s])
         IN  /\ k \in Mirrored
             /\ shared[s][k] = private[Peer(s)][k]
             /\ \A t \in Servers : Past(t, k)
             /\ \A t \in Servers, b \in Batches : Parts(private[t][k], b) # {} =>
                  Load(Parts(private[t][k], b)) = Yield(t, k, b)
<1> DEFINE k == Prev(stage[s])
<1>0. Trust /\ Faithful /\ SingleParts /\ ExactParts
  BY DEF ExactInv
<1>1. k \in Mirrored /\ Past(Peer(s), k)
  BY <1>0, InputIsPast
<1>2. shared[s][k] = private[Peer(s)][k]
  BY <1>0, <1>1, PeerType DEF Faithful
<1>3. Past(s, k)
  <2>1. stage[s] \in Stages \ {"verify1"} /\ k \in Stages
    BY <1>1 DEF Reading, TypeOK, Stages
  <2>2. StageNo[stage[s]] = StageNo[k] + 1 /\ StageNo[k] \in 1..4
    BY <2>1, StageNumbers
  <2> QED BY <2>2 DEF Past
<1>4. \A t \in Servers : Past(t, k)
  BY <1>1, <1>3, PeerType
<1>5. ASSUME NEW t \in Servers, NEW b \in Batches, Parts(private[t][k], b) # {}
      PROVE  Load(Parts(private[t][k], b)) = Yield(t, k, b)
  <2>1. private[t][k] \in Directories /\ OnePart(private[t][k])
    BY <1>0, <1>1 DEF TypeOK, SingleParts
  <2>2. \A o \in private[t][k] : o.batch = b /\ o.run # 0 => o.rows = Yield(t, k, b)
    BY <1>0, <1>1 DEF ExactParts
  <2> HIDE DEF k
  <2> QED BY <1>5, <2>1, <2>2, OnePartRows
<1> QED BY <1>1, <1>2, <1>4, <1>5

(* The loop's existence test tells, of every batch, whether it is due.     *)
LEMMA InputMeansTrigger ==
  ASSUME TypeOK, ExactInv, CompleteInv, ~dirty, NEW s \in Servers,
         phase[s] \in {"batches", "job"}, NEW b \in Batches
  PROVE  HasInput(s, b) <=> Trigger(s, stage[s], b)
<1> DEFINE k == stage[s]
           p == Peer(s)
<1>1. CASE k = "verify1"
  BY <1>1 DEF HasInput, Trigger
<1>2. CASE k # "verify1"
  <2>1. k \in Stages /\ p \in Servers /\ Reading(s)
    BY <1>2, PeerType DEF TypeOK, Reading
  <2>2. /\ Prev(k) \in Mirrored /\ shared[s][Prev(k)] = private[p][Prev(k)]
        /\ Past(p, Prev(k))
    BY <2>1, PreviousStage
  <2>3. HasInput(s, b) <=> Of(private[p][Prev(k)], b) # {}
    BY <1>2, <2>2 DEF HasInput
  <2>4. ASSUME Of(private[p][Prev(k)], b) # {} PROVE Trigger(s, k, b)
    <3>1. PICK o \in private[p][Prev(k)] : o.batch = b
      BY <2>4 DEF Of
    <3>2. Needs(p, Prev(k), b)
      BY <2>1, <2>2, <3>1 DEF CompleteInv, Supported
    <3> QED BY <1>2, <2>1, <3>2, TriggerLinks
  <2>5. ASSUME Trigger(s, k, b) PROVE Of(private[p][Prev(k)], b) # {}
    <3>1. Trigger(p, Prev(k), b)
      BY <1>2, <2>1, <2>5, TriggerLinks
    <3>2. Parts(private[p][Prev(k)], b) # {}
      BY <2>1, <2>2, <3>1 DEF CompleteInv, Complete, Treated
    <3> QED BY <3>2 DEF Parts
  <2> QED BY <2>3, <2>4, <2>5
<1> QED BY <1>1, <1>2

(* A batch both servers can use is readable wherever it is found.          *)
LEMMA JointReadable ==
  ASSUME TypeOK, ExactInv, CompleteInv, ~dirty, NEW s \in Servers,
         phase[s] = "batches", NEW b \in Batches, Joint(b) # {}, HasInput(s, b)
  PROVE  Readable(s, b)
<1> DEFINE k == Prev(stage[s])
           p == Peer(s)
<1>1. raw[s][b] # {}
  BY DEF Joint
<1>2. CASE stage[s] = "verify1"
  BY <1>1, <1>2 DEF Readable
<1>3. CASE stage[s] # "verify1"
  <2>1. p \in Servers /\ Reading(s)
    BY <1>3, PeerType DEF Reading
  <2>2. /\ k \in Mirrored /\ shared[s][k] = private[p][k]
        /\ \A t \in Servers : Past(t, k)
        /\ \A t \in Servers : Parts(private[t][k], b) # {} =>
             Load(Parts(private[t][k], b)) = Yield(t, k, b)
    BY <2>1, PreviousStage
  <2>3. ASSUME NEW t \in Servers PROVE Present(Load(Parts(private[t][k], b)))
    <3>1. k \in Stages /\ Trigger(t, k, b)
      BY <2>2, TriggerLinks DEF Stages
    <3>2. Parts(private[t][k], b) # {}
      BY <2>2, <3>1 DEF CompleteInv, Complete, Treated
    <3>3. Load(Parts(private[t][k], b)) = Yield(t, k, b)
      BY <2>2, <3>2
    <3>4. PICK i \in Joint(b) : TRUE
      OBVIOUS
    <3>5. i \in Ids /\ i \in raw[t][b] \cap Decodes[t]
      BY <3>4, InputTypes DEF Joint
    <3>6. Yield(t, k, b)[i] = 1
      BY <3>4, <3>5 DEF Yield, RowSet
    <3> QED BY <3>3, <3>5, <3>6 DEF Present
  <2>4. Present(InternalRows(s, b)) /\ Present(Load(ExternalParts(s, b)))
    BY <1>3, <2>1, <2>2, <2>3 DEF InternalRows, ExternalParts
  <2> QED BY <1>1, <2>4 DEF Readable
<1> QED BY <1>2, <1>3

(* A job that starts has what its output needs.                            *)
LEMMA StartNeeds ==
  ASSUME TypeOK, ExactInv, CompleteInv, ~dirty, NEW s \in Servers, NEW b \in Batches,
         StartJob(s, b)
  PROVE  Needs(s, stage[s], b)
<1> DEFINE k == Prev(stage[s])
           p == Peer(s)
<1>1. phase[s] = "batches" /\ HasInput(s, b) /\ Readable(s, b) /\ stage[s] \in Stages
  BY DEF StartJob, TypeOK
<1>2. CASE stage[s] = "verify1"
  BY <1>1, <1>2 DEF HasInput, Needs
<1>3. CASE stage[s] = "verify2"
  <2>1. raw[s][b] # {} /\ raw[p][b] # {}
    BY <1>1, <1>3, InputMeansTrigger DEF Readable, Trigger
  <2> QED BY <1>3, <2>1 DEF Needs, Peer
<1>4. CASE stage[s] \in {"aggregate", "publish"}
  <2>1. Reading(s)
    BY <1>1, <1>4 DEF Reading
  <2>2. Present(Load(Parts(private[s][k], b)))
    BY <1>1, <1>4 DEF Readable, InternalRows
  <2>3. Present(Yield(s, k, b))
    BY <2>1, <2>2, LoadEmpty, PreviousStage
  <2>4. Yield(s, k, b) = RowSet(Joint(b))
    BY <1>4 DEF Yield, Prev
  <2>5. Joint(b) # {}
    BY <2>3, <2>4 DEF Present, RowSet
  <2> QED BY <1>4, <2>5 DEF Needs
<1> QED BY <1>1, <1>2, <1>3, <1>4 DEF Stages, Mirrored

(* Steps that write no output can only lose track of a batch.              *)
LEMMA CompleteUnchanged ==
  ASSUME Complete, UNCHANGED <<raw, private, published>>,
         \A t \in Servers, k \in Stages, b \in Batches :
           Treated(t, k, b)' /\ Trigger(t, k, b) => Treated(t, k, b)
  PROVE  Complete'
BY DEF Complete, Trigger, Expected, Joint, Stages

LEMMA SupportedUnchanged ==
  ASSUME Supported, UNCHANGED <<raw, private, published>>,
         \A t \in Servers : phase'[t] = "job" =>
           phase[t] = "job" /\ job'[t] = job[t] /\ stage'[t] = stage[t]
  PROVE  Supported'
BY DEF Supported, Needs, Joint

LEMMA ExcusedUnchanged ==
  ASSUME UNCHANGED raw
  PROVE  \A s \in Servers : Excused(s)' <=> Excused(s)
BY DEF Excused, NothingToDo, BadBatch, Joint

(* The jobs of a clean run do not fail.                                    *)
LEMMA JobsSucceed ==
  ASSUME TypeOK, ExactInv, CompleteInv, ~dirty, NEW s \in Servers, phase[s] = "job"
  PROVE  JobSucceeds(s)
<1>1. Combinable(s)
  BY ServersDiffer DEF Combinable, ShareOrder, Peer
<1>2. job[s].listed = ExternalParts(s, job[s].batch)
  <2>1. CASE stage[s] = "verify1"
    BY <2>1 DEF CompleteInv, Supported, ExternalParts
  <2>2. CASE stage[s] # "verify1"
    BY <2>2 DEF ExactInv, Trust, ExternalParts
  <2> QED BY <2>1, <2>2
<1> QED BY <1>1, <1>2 DEF JobSucceeds

(* Quiet steps treat no batch that is due, and none treats it wrongly.     *)
LEMMA QuietTreats ==
  ASSUME TypeOK, ExactInv, CompleteInv, ~dirty, NEW s \in Servers, Quiet(s),
         NEW t \in Servers, NEW k \in Stages, NEW b \in Batches,
         Treated(t, k, b)', Trigger(t, k, b)
  PROVE  Treated(t, k, b)
<1> USE DEF TypeOK, Goto, procs, buckets, Treated, Past
<1>1. CASE Deliver(s) BY <1>1 DEF Deliver
<1>2. CASE FindData(s) BY <1>2 DEF FindData
<1>3. CASE PollAgain(s) BY <1>3 DEF PollAgain
<1>4. CASE EndLoop(s) BY <1>4 DEF EndLoop
<1>5. CASE FailJob(s) BY <1>5 DEF FailJob
<1>6. CASE RejectMirror(s) BY <1>6 DEF RejectMirror
<1>7. CASE Crash(s) BY <1>7 DEF Crash
<1>8. ASSUME NEW c \in Batches, SkipBatch(s, c) PROVE Treated(t, k, b)
  <2>1. phase[s] = "batches" /\ ~HasInput(s, c)
    BY <1>8 DEF SkipBatch
  <2>2. ~Trigger(s, stage[s], c)
    BY <2>1, InputMeansTrigger
  <2>3. ~(t = s /\ k = stage[s] /\ b = c)
    BY <2>2
  <2> QED BY <1>8, <2>3 DEF SkipBatch
<1>9. ASSUME NEW c \in Batches, RejectJob(s, c) PROVE Treated(t, k, b)
  BY <1>9 DEF RejectJob
<1> QED BY <1>1, <1>2, <1>3, <1>4, <1>5, <1>6, <1>7, <1>8, <1>9 DEF Quiet

(* A server ends early only for a reason in its input.                     *)
LEMMA QuietAborts ==
  ASSUME TypeOK, ExactInv, CompleteInv, ~dirty, NEW s \in Servers, Quiet(s),
         NEW t \in Servers, phase'[t] = "aborted", phase[t] # "aborted"
  PROVE  Excused(t)
<1> USE DEF TypeOK, Goto, procs
<1>1. CASE Deliver(s) \/ FindData(s) \/ PollAgain(s) \/ EndLoop(s) \/ Crash(s)
  BY <1>1 DEF Deliver, FindData, PollAgain, EndLoop, Crash
<1>2. CASE FailJob(s)
  BY <1>2, JobsSucceed DEF FailJob
<1>3. CASE RejectMirror(s)
  <2> DEFINE k == stage[s]
  <2>1. t = s /\ k \in Mirrored /\ private[s][k] = {} /\ phase[s] = "mirror"
    BY <1>3 DEF RejectMirror, Source
  <2>2. \A b \in Batches : ~Trigger(s, k, b)
    BY <2>1 DEF CompleteInv, Complete, Treated, Parts, Of
  <2>3. SUFFICES ASSUME NEW b \in Batches, raw[s][b] # {} PROVE BadBatch(b)
    BY <2>1 DEF Excused, NothingToDo
  <2>4. k = "verify2" /\ raw[Peer(s)][b] = {}
    BY <2>1, <2>2, <2>3 DEF Trigger, Mirrored
  <2> QED BY <2>3, <2>4 DEF BadBatch, Joint, Peer
<1>4. ASSUME NEW b \in Batches, SkipBatch(s, b) PROVE Excused(t)
  BY <1>4 DEF SkipBatch
<1>5. ASSUME NEW b \in Batches, RejectJob(s, b) PROVE Excused(t)
  <2>1. phase[s] = "batches" /\ HasInput(s, b) /\ ~Readable(s, b) /\ stage[s] \in Stages
    BY <1>5 DEF RejectJob
  <2>2. Joint(b) = {}
    BY <2>1, JointReadable
  <2>3. raw[A][b] # {} \/ raw[B][b] # {}
    BY <2>1, InputMeansTrigger, TriggerLinks
  <2> QED BY <2>2, <2>3 DEF Excused, BadBatch
<1> QED BY <1>1, <1>2, <1>3, <1>4, <1>5 DEF Quiet

(* The invariant, for the steps that write output.                         *)
LEMMA CompleteStartJob ==
  ASSUME TypeOK, ExactInv, CompleteInv, ~dirty, NEW s \in Servers, NEW b \in Batches,
         StartJob(s, b)
  PROVE  Supported' /\ Complete'
<1> DEFINE k == stage[s]
<1>1. /\ UNCHANGED <<raw, stage>> /\ phase[s] = "batches" /\ k \in Stages
      /\ phase' = [phase EXCEPT ![s] = "job"]
      /\ todo' = [todo EXCEPT ![s] = @ \ {b}]
      /\ job' = [job EXCEPT ![s] = [batch |-> b, listed |-> ExternalParts(s, b)]]
  BY DEF StartJob, Goto, TypeOK
<1>2. /\ phase'[s] = "job" /\ job'[s].batch = b /\ todo'[s] = todo[s] \ {b}
      /\ job'[s].listed = ExternalParts(s, b)
      /\ \A t \in Servers \ {s} :
           phase'[t] = phase[t] /\ job'[t] = job[t] /\ todo'[t] = todo[t]
  BY <1>1 DEF TypeOK
<1>3. \A t \in Servers, j \in Mirrored, c \in Batches : ~(t = s /\ j = k /\ c = b) =>
        Parts(private'[t][j], c) = Parts(private[t][j], c)
  BY DEF StartJob, TypeOK, Parts, Of
<1>4. \A t \in Servers, j \in Mirrored : private'[t][j] \subseteq private[t][j]
  BY DEF StartJob, TypeOK
<1>5. \A t \in Servers, c \in Batches :
        \/ published'[t][c] = published[t][c]
        \/ t = s /\ k = "publish" /\ c = b /\ published'[t][c] = None
  BY DEF StartJob, TypeOK
<1>6. \A t \in Servers, j \in Stages, c \in Batches :
        Treated(t, j, c)' => Treated(t, j, c) /\ ~(t = s /\ j = k /\ c = b)
  <2>1. ~Past(s, k)
    BY <1>1, PastCases DEF Past, StageNo, Stages, Mirrored
  <2> QED BY <1>1, <1>2, <2>1 DEF Treated, Past
<1>7. Needs(s, k, b) /\ (k = "verify1" => ExternalParts(s, b) = {})
  BY StartNeeds DEF ExternalParts
<1>8. /\ \A t \in Servers : \A j, c : Needs(t, j, c)' <=> Needs(t, j, c)
      /\ \A t \in Servers : \A j, c : Trigger(t, j, c)' <=> Trigger(t, j, c)
      /\ \A c : Expected(c)' = Expected(c)
  BY <1>1, PeerType DEF Needs, Trigger, Joint, Expected
<1>9. Supported'
  BY <1>1, <1>2, <1>4, <1>5, <1>7, <1>8 DEF CompleteInv, Supported
<1>10. Complete'
  BY <1>3, <1>5, <1>6, <1>8 DEF CompleteInv, Complete, Stages
<1> QED BY <1>9, <1>10

LEMMA PublishedExpected ==
  ASSUME TypeOK, ExactInv, ~dirty, NEW s \in Servers, FinishPublishJob(s)
  PROVE  published' = [published EXCEPT ![s][job[s].batch] = Expected(job[s].batch)]
<1> DEFINE b == job[s].batch
<1>1. b \in Batches /\ Peer(s) \in Servers /\ phase[s] = "job" /\ stage[s] = "publish"
  BY PeerType DEF TypeOK, FinishPublishJob
<1>2. /\ InternalRows(s, b) = RowSet(Joint(b))
      /\ \A o \in job[s].listed : o.rows = RowSet(Joint(b))
  BY <1>1, JobInputs DEF Prev, Yield, ExactInv
<1>3. raw[s][b] \in SUBSET Ids
  BY <1>1, InputTypes
<1>4. PublishReport(s, RowSet(Joint(b)), RowSet(Joint(b))) = Expected(b)
  <2>1. /\ Joint(b) \in SUBSET Ids
        /\ Joint(b) \subseteq Decodes[s] /\ Joint(b) \subseteq Decodes[Peer(s)]
    BY <1>3 DEF Joint, Peer
  <2> QED BY <2>1, PublishSameRows DEF Expected
<1> QED BY <1>2, <1>4 DEF FinishPublishJob

LEMMA CompleteFinishJob ==
  ASSUME TypeOK, ExactInv, CompleteInv, ~dirty, NEW s \in Servers,
         FinishStageJob(s) \/ FinishPublishJob(s)
  PROVE  Supported' /\ Complete'
<1> DEFINE k == stage[s]
           b == job[s].batch
<1>1. /\ UNCHANGED <<raw, stage, todo>> /\ phase[s] = "job" /\ k \in Stages /\ b \in Batches
      /\ phase' = [phase EXCEPT ![s] = "batches"]
      /\ job' = [job EXCEPT ![s] = NoJob]
  BY DEF FinishStageJob, FinishPublishJob, Goto, TypeOK
<1>2. /\ phase'[s] = "batches"
      /\ \A t \in Servers \ {s} : phase'[t] = phase[t] /\ job'[t] = job[t]
  BY <1>1 DEF TypeOK
<1>3. \A t \in Servers, j \in Stages, c \in Batches :
        Treated(t, j, c)' => Treated(t, j, c) \/ (t = s /\ j = k /\ c = b)
  BY <1>1, <1>2 DEF Treated, Past
<1>4. Needs(s, k, b)
  BY <1>1 DEF CompleteInv, Supported
<1>5. /\ \A t \in Servers : \A j, c : Needs(t, j, c)' <=> Needs(t, j, c)
      /\ \A t \in Servers : \A j, c : Trigger(t, j, c)' <=> Trigger(t, j, c)
      /\ \A c : Expected(c)' = Expected(c)
  BY <1>1, PeerType DEF Needs, Trigger, Joint, Expected
<1>6. CASE FinishStageJob(s)
  <2> DEFINE part == Part(b, run[s], JobRows(s, b))
  <2>1. /\ UNCHANGED published /\ k \in Mirrored
        /\ private' = [private EXCEPT ![s][k] = @ \cup {part, Commit(b)}]
    BY <1>1, <1>6 DEF FinishStageJob, Stages
  <2>2. part.batch = b /\ Commit(b).batch = b /\ part.run # 0
    BY BoundsType DEF Part, Commit, TypeOK
  <2> HIDE DEF part
  <2>3. \A t \in Servers, j \in Mirrored :
          private'[t][j] = IF t = s /\ j = k THEN private[s][k] \cup {part, Commit(b)}
                                             ELSE private[t][j]
    BY <2>1 DEF TypeOK
  <2>4. \A t \in Servers, j \in Mirrored : \A o \in private'[t][j] : Needs(t, j, o.batch)
    BY <1>4, <2>2, <2>3 DEF CompleteInv, Supported
  <2>5. Supported'
    BY <1>1, <1>2, <1>5, <2>1, <2>4 DEF CompleteInv, Supported
  <2>6. Parts(private'[s][k], b) # {}
    BY <2>1, <2>2, <2>3 DEF Parts, Of
  <2>7. \A t \in Servers, j \in Mirrored, c \in Batches :
          Parts(private[t][j], c) # {} => Parts(private'[t][j], c) # {}
    BY <2>3 DEF Parts, Of
  <2>8. k # "publish"
    BY <1>6 DEF FinishStageJob
  <2> HIDE DEF k, b
  <2>9. ASSUME NEW t \in Servers, NEW j \in Mirrored, NEW c \in Batches,
               Treated(t, j, c)', Trigger(t, j, c)'
        PROVE  Parts(private'[t][j], c) # {}
    <3>1. Treated(t, j, c) \/ (t = s /\ j = k /\ c = b)
      BY <1>3, <2>9 DEF Stages
    <3>2. Trigger(t, j, c)
      BY <1>5, <2>9
    <3> QED BY <2>6, <2>7, <3>1, <3>2 DEF CompleteInv, Complete
  <2>10. ASSUME NEW t \in Servers, NEW c \in Batches,
                Treated(t, "publish", c)', Trigger(t, "publish", c)'
         PROVE  published'[t][c] = Expected(c)'
    <3>1. Treated(t, "publish", c)
      BY <1>3, <2>8, <2>10 DEF Stages
    <3>2. Trigger(t, "publish", c)
      BY <1>5, <2>10
    <3> QED BY <1>5, <2>1, <3>1, <3>2 DEF CompleteInv, Complete
  <2>11. Complete'
    BY <2>9, <2>10 DEF Complete, Parts, Of
  <2> QED BY <2>5, <2>11
<1>7. CASE FinishPublishJob(s)
  <2>1. UNCHANGED private /\ k = "publish"
    BY <1>7 DEF FinishPublishJob
  <2>2. published' = [published EXCEPT ![s][b] = Expected(b)]
    BY <1>7, PublishedExpected
  <2>3. \A t \in Servers, c \in Batches :
          published'[t][c] = IF t = s /\ c = b THEN Expected(b) ELSE published[t][c]
    <3> HIDE DEF b
    <3> QED BY <1>1, <2>2 DEF TypeOK
  <2> HIDE DEF b
  <2>4. Supported'
    BY <1>1, <1>2, <1>4, <1>5, <2>1, <2>3 DEF CompleteInv, Supported
  <2>5. Complete'
    BY <1>3, <1>5, <2>1, <2>3 DEF CompleteInv, Complete, Stages, Mirrored
  <2> QED BY <2>4, <2>5
<1> QED BY <1>6, <1>7

LEMMA CompleteInvStep ==
  ASSUME TypeOK, ExactInv, CompleteInv, NEW s \in Servers,
         Deliver(s) \/ Step(s) \/ Crash(s) \/ Restart(s)
  PROVE  CompleteInv'
<1> DEFINE Aborts == \A t \in Servers : phase'[t] = "aborted" => Excused(t)'
<1> SUFFICES ASSUME ~dirty' PROVE CompleteInv'
  BY DEF CompleteInv
<1>0. ~dirty
  BY DirtyStays
<1>1. CASE Quiet(s)
  <2>1. QuietEffect
    BY <1>1, QuietStep
  <2>2. Supported'
    BY <1>0, <2>1, SupportedUnchanged DEF QuietEffect, CompleteInv
  <2>3. Complete'
    BY <1>0, <1>1, <2>1, QuietTreats, CompleteUnchanged DEF QuietEffect, CompleteInv
  <2>4. \A t \in Servers : phase'[t] = "aborted" => Excused(t)
    BY <1>0, <1>1, QuietAborts DEF CompleteInv
  <2>5. Aborts
    BY <2>1, <2>4, ExcusedUnchanged DEF QuietEffect
  <2> QED BY <2>2, <2>3, <2>5 DEF CompleteInv
<1>2. ASSUME UNCHANGED raw, \A t \in Servers : phase'[t] = "aborted" => phase[t] = "aborted"
      PROVE  Aborts
  BY <1>0, <1>2, ExcusedUnchanged DEF CompleteInv
<1>3. ASSUME NEW b \in Batches, StartJob(s, b) PROVE CompleteInv'
  <2>1. UNCHANGED raw /\ \A t \in Servers : phase'[t] = "aborted" => phase[t] = "aborted"
    BY <1>3 DEF StartJob, Goto, TypeOK
  <2> QED BY <1>0, <1>2, <1>3, <2>1, CompleteStartJob DEF CompleteInv
<1>4. CASE FinishStageJob(s) \/ FinishPublishJob(s)
  <2>1. UNCHANGED raw /\ \A t \in Servers : phase'[t] = "aborted" => phase[t] = "aborted"
    BY <1>4 DEF FinishStageJob, FinishPublishJob, Goto, TypeOK
  <2> QED BY <1>0, <1>2, <1>4, <2>1, CompleteFinishJob DEF CompleteInv
<1>5. ASSUME UNCHANGED <<raw, private, published>>,
             \A t \in Servers : phase'[t] = "aborted" => phase[t] = "aborted",
             \A t \in Servers : phase'[t] = "job" =>
               phase[t] = "job" /\ job'[t] = job[t] /\ stage'[t] = stage[t],
             \A t \in Servers, k \in Stages, b \in Batches :
               Treated(t, k, b)' => Treated(t, k, b)
      PROVE  CompleteInv'
  BY <1>0, <1>2, <1>5, SupportedUnchanged, CompleteUnchanged DEF CompleteInv
<1>6. CASE CopyObject(s) \/ RemoveObject(s) \/ RemoveMarker(s)
  BY <1>5, <1>6 DEF CopyObject, RemoveObject, RemoveMarker, procs, Treated, Past
<1>7. CASE Mark(s)
  <2>1. /\ UNCHANGED <<raw, private, published, todo, job>>
        /\ phase[s] = "mirror" /\ phase'[s] = "wait"
        /\ \A t \in Servers \ {s} : phase'[t] = phase[t] /\ stage'[t] = stage[t]
    BY <1>7 DEF Mark, Goto, TypeOK
  <2>2. \A t \in Servers, k \in Mirrored : Past(t, k)' <=> Past(t, k) \/ (t = s /\ k = stage[s])
    BY <1>7, MarkPast
  <2>3. \A t \in Servers : ~Past(t, "publish")'
    <3>1. stage' \in [Servers -> Stages]
      BY <1>7, StageOrder DEF Mark, TypeOK
    <3> QED BY <3>1 DEF Past, StageNo, Stages, Mirrored
  <2>4. \A t \in Servers, k \in Stages, b \in Batches : Treated(t, k, b)' => Treated(t, k, b)
    BY <2>1, <2>2, <2>3 DEF Treated, Stages
  <2> QED BY <1>5, <2>1, <2>4
<1>8. CASE Restart(s)
  <2>1. /\ UNCHANGED <<raw, private, published, job>>
        /\ stage'[s] = "verify1" /\ phase'[s] = "wait"
        /\ \A t \in Servers \ {s} :
             phase'[t] = phase[t] /\ stage'[t] = stage[t] /\ todo'[t] = todo[t]
    BY <1>8 DEF Restart, Goto, buckets, TypeOK
  <2>2. \A k \in Stages : ~Past(s, k)'
    BY <2>1, StageNumbers DEF Past, StageNo, Stages, Mirrored
  <2>3. \A t \in Servers, k \in Stages, b \in Batches : Treated(t, k, b)' => Treated(t, k, b)
    BY <2>1, <2>2 DEF Treated, Past
  <2> QED BY <1>5, <2>1, <2>3
<1> QED BY <1>1, <1>3, <1>4, <1>6, <1>7, <1>8, StepCases

(* The invariant behind the two theorems below: every batch a finished     *)
(* stage was due to process is in its output, and nothing else is          *)
(* (bin/process, 102-215).                                                 *)
THEOREM CompleteInductive == Spec => []CompleteInv
<1>1. Init => CompleteInv
  <2> SUFFICES ASSUME Init PROVE CompleteInv
    OBVIOUS
  <2>1. \A s \in Servers : \A k \in Stages : ~Past(s, k)
    BY DEF Init, Past, StageNo, Stages, Mirrored
  <2> QED BY <2>1 DEF Init, CompleteInv, Supported, Complete, Treated, Stages
<1>2. TypeOK /\ ExactInv /\ CompleteInv /\ [Next]_vars => CompleteInv'
  <2> SUFFICES ASSUME TypeOK, ExactInv, CompleteInv, [Next]_vars PROVE CompleteInv'
    OBVIOUS
  <2>1. CASE UNCHANGED vars
    <3> USE <2>1 DEF vars, buckets, procs
    <3>1. Supported => Supported'
      BY SupportedUnchanged
    <3>2. Complete => Complete'
      BY CompleteUnchanged DEF Treated, Past
    <3> QED BY <3>1, <3>2, ExcusedUnchanged DEF CompleteInv
  <2> QED BY <2>1, CompleteInvStep DEF Next
<1> QED BY <1>1, <1>2, TypeCorrect, Inductive, PTL DEF Spec

(* A server that returns from main has published, exactly, every batch     *)
(* that has rows: no batch is skipped at one server and processed at the   *)
(* other (bin/process, 115-122, 217-230).                                  *)
THEOREM NothingSkipped == Spec => []DoneHasEverything
<1>1. TypeOK /\ ExactInv /\ CompleteInv => DoneHasEverything
  <2> SUFFICES ASSUME TypeOK, ExactInv, CompleteInv, ~dirty,
                      NEW s \in Servers, phase[s] = "done", NEW b \in Batches
               PROVE  /\ ~BadBatch(b)
                      /\ published[s][b] = IF Joint(b) = {} THEN None ELSE Expected(b)
    BY DEF DoneHasEverything
  <2>1. stage[s] = "publish" /\ Supported /\ Complete
    BY DEF ExactInv, Faithful, CompleteInv
  <2>2. \A k \in Stages : Treated(s, k, b)
    BY <2>1, PastCases DEF Treated, Stages, Mirrored, TypeOK
  <2>3. \A k \in Mirrored : Trigger(s, k, b) => Needs(s, k, b)
    BY <2>1, <2>2 DEF Supported, Complete, Parts, Of, Stages
  <2>4. raw[Peer(s)][b] # {} => raw[s][b] # {}
    BY <2>3 DEF Mirrored, Trigger, Needs, Peer
  <2>5. raw[s][b] # {} => Joint(b) # {}
    BY <2>3 DEF Mirrored, Trigger, Needs
  <2>6. ~BadBatch(b)
    BY <2>4, <2>5 DEF BadBatch, Peer
  <2>7. Joint(b) # {} => published[s][b] = Expected(b)
    BY <2>1, <2>2, TriggerLinks DEF Complete, Stages
  <2>8. Joint(b) = {} => published[s][b] = None
    BY <2>1 DEF Supported, Needs
  <2> QED BY <2>6, <2>7, <2>8
<1> QED BY <1>1, TypeCorrect, Inductive, CompleteInductive, PTL

(* A server fails only because of its input: no interleaving with the      *)
(* peer's mirror and no earlier crash makes a job fail (set -e, and        *)
(* spark_submit, 12, 40-66).                                               *)
THEOREM NoFalseAborts == Spec => []AbortOnlyOnBadInput
<1>1. CompleteInv => AbortOnlyOnBadInput
  BY DEF CompleteInv, AbortOnlyOnBadInput, Excused
<1> QED BY <1>1, CompleteInductive, PTL

-----------------------------------------------------------------------------
(* The pipeline implements IdealAggregation. *)

(* A server that was started once has published a batch only if its loop   *)
(* is past it.                                                             *)
FirstRun ==
  /\ \A s \in Servers : phase[s] = "job" => job[s].batch \notin todo[s]
  /\ \A s \in Servers, b \in Batches :
       run[s] = 1 /\ published[s][b] # None =>
         /\ stage[s] = "publish" /\ phase[s] # "wait"
         /\ phase[s] \in {"batches", "job"} => b \notin todo[s]

LEMMA FirstRunStep ==
  ASSUME TypeOK, FirstRun, NEW s \in Servers,
         Deliver(s) \/ Step(s) \/ Crash(s) \/ Restart(s)
  PROVE  FirstRun'
<1> USE DEF TypeOK, FirstRun, Goto, buckets, procs
<1>1. CASE Deliver(s) BY <1>1 DEF Deliver
<1>2. CASE FindData(s) BY <1>2 DEF FindData
<1>3. CASE PollAgain(s) BY <1>3 DEF PollAgain
<1>4. ASSUME NEW b \in Batches, SkipBatch(s, b) PROVE FirstRun'
  BY <1>4 DEF SkipBatch
<1>5. ASSUME NEW b \in Batches, StartJob(s, b) PROVE FirstRun'
  BY <1>5 DEF StartJob
<1>6. ASSUME NEW b \in Batches, RejectJob(s, b) PROVE FirstRun'
  BY <1>6 DEF RejectJob
<1>7. CASE FinishStageJob(s) BY <1>7 DEF FinishStageJob
<1>8. CASE FinishPublishJob(s) BY <1>8 DEF FinishPublishJob
<1>9. CASE FailJob(s) BY <1>9 DEF FailJob
<1>10. CASE EndLoop(s) BY <1>10 DEF EndLoop
<1>11. CASE CopyObject(s) \/ RemoveObject(s) \/ RemoveMarker(s)
  BY <1>11 DEF CopyObject, RemoveObject, RemoveMarker
<1>12. CASE Mark(s) BY <1>12 DEF Mark, Mirrored
<1>13. CASE RejectMirror(s) BY <1>13 DEF RejectMirror
<1>14. CASE Crash(s) BY <1>14 DEF Crash
<1>15. CASE Restart(s)
  <2>1. run'[s] # 1
    BY <1>15, BoundsType DEF Restart
  <2> QED BY <1>15, <2>1 DEF Restart
<1> QED BY <1>1, <1>2, <1>3, <1>4, <1>5, <1>6, <1>7, <1>8, <1>9, <1>10, <1>11, <1>12,
           <1>13, <1>14, <1>15 DEF Step

(* Every step is one of the ideal system, or leaves it as it is.           *)
LEMMA IdealStep ==
  ASSUME TypeOK, ExactInv, CompleteInv, FirstRun, NEW s \in Servers,
         Deliver(s) \/ Step(s) \/ Crash(s) \/ Restart(s)
  PROVE  [Ideal!IdealNext]_(Ideal!idealVars)
<1> DEFINE same == UNCHANGED <<raw, published, run, dirty>>
<1> USE DEF Ideal!IdealNext, Ideal!idealVars, Ideal!Servers
<1>1. ASSUME same PROVE [Ideal!IdealNext]_(Ideal!idealVars)
  BY <1>1
<1>2. CASE Quiet(s)
  <2>1. UNCHANGED published
    BY <1>2, QuietStep DEF QuietEffect
  <2> QED BY <1>1, <1>2, <2>1, QuietStep DEF QuietEffect
<1>3. ASSUME NEW b \in Batches, StartJob(s, b)
      PROVE  [Ideal!IdealNext]_(Ideal!idealVars)
  <2>1. UNCHANGED <<raw, run, dirty>> /\ phase[s] = "batches" /\ b \in todo[s]
    BY <1>3 DEF StartJob
  <2>2. CASE stage[s] = "publish" /\ published[s][b] # None
    <3>1. published' = [published EXCEPT ![s][b] = None]
      BY <1>3, <2>2 DEF StartJob
    <3>2. run[s] > 1
      BY <2>1, <2>2 DEF FirstRun, TypeOK
    <3>3. Ideal!Withdraw(s, b)
      BY <2>1, <3>1, <3>2 DEF Ideal!Withdraw
    <3> QED BY <3>3
  <2>3. CASE ~(stage[s] = "publish" /\ published[s][b] # None)
    <3>1. UNCHANGED published
      BY <1>3, <2>3 DEF StartJob, TypeOK
    <3> QED BY <1>1, <2>1, <3>1
  <2> QED BY <2>2, <2>3
<1>4. CASE FinishStageJob(s)
  BY <1>1, <1>4 DEF FinishStageJob
<1>5. CASE FinishPublishJob(s)
  <2> DEFINE b == job[s].batch
  <2>1. UNCHANGED <<raw, run, dirty>> /\ b \in Batches /\ phase[s] = "job" /\ stage[s] = "publish"
    BY <1>5 DEF FinishPublishJob, TypeOK
  <2>2. CASE dirty
    <3>1. PICK r : published' = [published EXCEPT ![s][b] = r]
      BY <1>5 DEF FinishPublishJob
    <3>2. published'[s][b] = r
      BY <2>1, <3>1 DEF TypeOK
    <3>3. Ideal!Misreport(s, b)
      BY <2>1, <2>2, <3>1, <3>2 DEF Ideal!Misreport
    <3> QED BY <2>1, <3>3
  <2>3. CASE ~dirty
    <3>1. published' = [published EXCEPT ![s][b] = Expected(b)]
      BY <1>5, <2>3, PublishedExpected
    <3>2. published[s][b] \in {None, Expected(b)}
      BY <2>1, <2>3 DEF ExactInv, ExactReports
    <3>3. Joint(b) # {} /\ Ideal!Shared(b) = Joint(b) /\ Expected(b) = Ideal!Report(Joint(b))
      <4>1. Joint(b) # {}
        BY <2>1, <2>3 DEF CompleteInv, Supported, Needs
      <4>2. Ideal!Shared(b) = Joint(b)
        BY DEF Ideal!Shared, Joint
      <4>3. Expected(b) = Ideal!Report(Joint(b))
        <5>1. \A S : Ideal!Cardinality(S) = Cardinality(S)
          BY Zenon DEF Cardinality, Ideal!Cardinality, IsFiniteSet, Ideal!IsFiniteSet
        <5> QED BY <5>1 DEF Expected, Report, Ideal!Report, RowSet, Ideal!RowSet
      <4> QED BY <4>1, <4>2, <4>3
    <3>4. CASE published[s][b] = None
      <4>1. Ideal!Publish(s, b)
        BY <2>1, <3>1, <3>3, <3>4 DEF Ideal!Publish
      <4> QED BY <2>1, <4>1
    <3>5. CASE published[s][b] = Expected(b)
      <4>1. UNCHANGED published
        BY <2>1, <3>1, <3>5 DEF TypeOK
      <4> QED BY <1>1, <2>1, <4>1
    <3> QED BY <3>2, <3>4, <3>5
  <2> QED BY <2>2, <2>3
<1>6. CASE CopyObject(s) \/ RemoveObject(s) \/ RemoveMarker(s) \/ Mark(s)
  BY <1>1, <1>6 DEF CopyObject, RemoveObject, RemoveMarker, Mark, procs
<1>7. CASE Restart(s)
  <2>1. /\ UNCHANGED <<raw, published>>
        /\ run' = [run EXCEPT ![s] = run[s] + 1]
        /\ dirty' \in {dirty, TRUE}
    BY <1>7 DEF Restart, buckets, TypeOK, Unsafe
  <2>2. run'[s] > 1 /\ \A t \in Servers \ {s} : run'[t] = run[t]
    BY <2>1, BoundsType DEF TypeOK
  <2>3. {t \in Servers : run'[t] > 1} = {t \in Servers : run[t] > 1} \cup {s}
    BY <2>2
  <2>4. Ideal!Rerun(s)
    BY <2>1, <2>3 DEF Ideal!Rerun
  <2> QED BY <2>4
<1> QED BY <1>2, <1>3, <1>4, <1>5, <1>6, <1>7, StepCases

(* The pipeline keeps the promise of IdealAggregation: reports appear      *)
(* once, exact, and only reruns withdraw or, unsafe, falsify them          *)
(* (bin/process, 192-230).                                                 *)
THEOREM ImplementsIdeal == Spec => RefinesIdeal
<1>1. Init => Ideal!IdealInit
  BY DEF Init, Ideal!IdealInit, Ideal!Servers
<1>2. Init => FirstRun
  BY DEF Init, FirstRun
<1>3. TypeOK /\ FirstRun /\ [Next]_vars => FirstRun'
  <2> SUFFICES ASSUME TypeOK, FirstRun, [Next]_vars PROVE FirstRun'
    OBVIOUS
  <2>1. CASE UNCHANGED vars
    BY <2>1 DEF vars, buckets, procs, FirstRun
  <2> QED BY <2>1, FirstRunStep DEF Next
<1>4. TypeOK /\ ExactInv /\ CompleteInv /\ FirstRun /\ [Next]_vars
        => [Ideal!IdealNext]_(Ideal!idealVars)
  <2> SUFFICES ASSUME TypeOK, ExactInv, CompleteInv, FirstRun, [Next]_vars
               PROVE  [Ideal!IdealNext]_(Ideal!idealVars)
    OBVIOUS
  <2>1. CASE UNCHANGED vars
    BY <2>1 DEF vars, buckets, procs, Ideal!idealVars
  <2> QED BY <2>1, IdealStep DEF Next
<1> QED BY <1>1, <1>2, <1>3, <1>4, TypeCorrect, Inductive, CompleteInductive, PTL
        DEF Spec, RefinesIdeal, Ideal!IdealSpec
=============================================================================
