------------------------------ MODULE CliProofs ------------------------------
(***************************************************************************)
(* Theorems about CliStages, for every set of files, every content of the  *)
(* share files and any number of repeated lines: what every file holds,    *)
(* and what follows for the histograms and the counters.                   *)
(***************************************************************************)
EXTENDS CliStages, RowDataProofs

USE DEF Servers

-----------------------------------------------------------------------------
(* Facts about the stages. *)

LEMMA CliStageOrder ==
  /\ \A k \in Stages : Prev(k) \in Stages /\ Following(k) \in Stages
  /\ Prev("verify2") = "verify1" /\ Prev("aggregate") = "verify2"
  /\ Prev("publish") = "aggregate" /\ Following("publish") = "publish"
  /\ \A k \in Stages : Prev(k) # "publish"
BY DEF Prev, Following, Stages

LEMMA CliPeer == \A s \in Servers : Peer(s) \in Servers /\ Peer(s) # s /\ Peer(Peer(s)) = s
BY ServersDiffer DEF Peer

(* Share files hold rows, and the rows two servers can use are rows of     *)
(* both.                                                                   *)
LEMMA ShareType ==
  ASSUME TypeOK, NEW f \in Files
  PROVE  /\ \A s \in Servers : Share(s, f) \in Rows
         /\ \A s \in Servers : raw[s][f] # None => raw[s][f] = Share(s, f)
         /\ \A s \in Servers : Joint(f) \subseteq Decodes[s]
         /\ \A s \in Servers, i \in Joint(f) : i \in Ids /\ Share(s, f)[i] > 0
<1>1. \A s \in Servers : Share(s, f) \in Rows
  BY FilesInputsType, RowOperators DEF TypeOK, Share
<1>2. \A s \in Servers : \A i \in Index(Verify1(s, Share(s, f))) :
        i \in Decodes[s] /\ i \in Ids /\ Share(s, f)[i] > 0
  BY <1>1 DEF Index, Verify1, Where
<1> QED BY <1>1, <1>2 DEF Joint, Share

LEMMA JointUsable ==
  ASSUME TypeOK, NEW s \in Servers, NEW f \in Files
  PROVE  /\ Usable(s, Verify1(s, Share(s, f)), Verify1(Peer(s), Share(Peer(s), f))) = Joint(f)
         /\ Usable(s, Where(Share(s, f), Joint(f)), Where(Share(Peer(s), f), Joint(f))) = Joint(f)
<1>1. Usable(s, Verify1(s, Share(s, f)), Verify1(Peer(s), Share(Peer(s), f))) = Joint(f)
  <2>1. Joint(f) = Index(Verify1(s, Share(s, f))) \cap Index(Verify1(Peer(s), Share(Peer(s), f)))
    BY DEF Joint, Peer
  <2> QED BY <2>1, ShareType DEF Usable
<1>2. ASSUME NEW t \in Servers PROVE Index(Where(Share(t, f), Joint(f))) = Joint(f)
  BY ShareType DEF Index, Where
<1>3. Usable(s, Where(Share(s, f), Joint(f)), Where(Share(Peer(s), f), Joint(f))) = Joint(f)
  BY <1>2, CliPeer, ShareType DEF Usable
<1> QED BY <1>1, <1>3

-----------------------------------------------------------------------------
(* What a command writes. *)

LEMMA YieldType ==
  ASSUME TypeOK, NEW s \in Servers, NEW k \in Stages, NEW f \in Files
  PROVE  Yield(s, k, f) \in Rows \cup Totals \cup {Garbled}
<1>1. Share(s, f) \in Rows /\ Decodes[s] \in SUBSET Ids
  BY ShareType, DecodesType
<1>2. Joint(f) \in SUBSET Ids /\ Joint(f) \cap Honest \in SUBSET Ids
  BY ShareType, HonestType
<1>3. /\ Where(Share(s, f), Decodes[s]) \in Rows
      /\ Where(Share(s, f), Joint(f)) \in Rows
      /\ Where(Share(s, f), Joint(f) \cap Honest) \in Rows
  BY <1>1, <1>2, RowOperators
<1>4. Sum(Share(s, f)) \in Nat /\ Sum(Where(Share(s, f), Joint(f) \cap Honest)) \in Nat
  BY <1>1, <1>3, SumType
<1>5. CASE k = "verify1"
  BY <1>3, <1>5 DEF Yield, Verify1
<1>6. CASE k = "verify2"
  BY <1>3, <1>6 DEF Yield
<1>7. CASE k = "aggregate"
  BY <1>3, <1>4, <1>7 DEF Yield, Totals
<1>8. CASE k = "publish"
  BY <1>3, <1>8 DEF Yield
<1> QED BY <1>5, <1>6, <1>7, <1>8 DEF Stages

(* Two sums over the joint rows agree just if the rows are balanced.       *)
LEMMA BalancedSums ==
  ASSUME TypeOK, NEW f \in Files
  PROVE  Balanced(f) <=> Where(Share(A, f), Joint(f) \cap Honest) =
                         Where(Share(B, f), Joint(f) \cap Honest)
<1> DEFINE J == Joint(f) \cap Honest
           a == Where(Share(A, f), J)
           b == Where(Share(B, f), J)
<1>1. J \subseteq Ids
  BY ShareType
<1>2. \A i \in Ids : /\ a[i] = IF i \in J THEN Share(A, f)[i] ELSE 0
                     /\ b[i] = IF i \in J THEN Share(B, f)[i] ELSE 0
  BY DEF Where
<1>3. ASSUME Balanced(f) PROVE a = b
  <2>1. \A i \in Ids : (IF i \in J THEN Share(A, f)[i] ELSE 0) = IF i \in J THEN Share(B, f)[i] ELSE 0
    BY <1>3 DEF Balanced
  <2> QED BY <2>1 DEF Where
<1>4. ASSUME a = b PROVE Balanced(f)
  <2> HIDE DEF a, b
  <2> QED BY <1>1, <1>2, <1>4 DEF Balanced
<1> QED BY <1>3, <1>4

LEMMA OutputYield ==
  ASSUME TypeOK, FilesExact, FilesFollow, NEW s \in Servers, NEW f \in Files, RunCommand(s, f)
  PROVE  Output(s, f) = Yield(s, stage[s], f)
<1> DEFINE p == Peer(s)
           k == stage[s]
<1>1. k \in Stages /\ p \in Servers /\ Peer(p) = s /\ raw[s][f] = Share(s, f)
  BY CliPeer, ShareType DEF TypeOK, RunCommand, Existing
<1>2. k # "verify1" => /\ Internal(s)[f] = Yield(s, Prev(k), f)
                       /\ External(s)[f] = Yield(p, Prev(k), f)
  <2> SUFFICES ASSUME k # "verify1"
               PROVE  /\ Internal(s)[f] = Yield(s, Prev(k), f)
                      /\ External(s)[f] = Yield(p, Prev(k), f)
    OBVIOUS
  <2>1. Internal(s)[f] # None /\ External(s)[f] # None /\ Prev(k) \in Stages
    BY <1>1, CliStageOrder DEF RunCommand, Runs, FilesFollow
  <2> QED BY <2>1 DEF FilesExact, Internal, External
<1>3. CASE k = "verify1"
  BY <1>1, <1>3 DEF Output, Yield
<1>4. CASE k = "verify2"
  <2>1. Internal(s)[f] = Verify1(s, Share(s, f)) /\ External(s)[f] = Verify1(p, Share(p, f))
    BY <1>2, <1>4, CliStageOrder DEF Yield
  <2> QED BY <1>1, <1>4, <2>1, JointUsable DEF Output, Verify2, Yield
<1>5. CASE k = "aggregate"
  <2>1. /\ Internal(s)[f] = Where(Share(s, f), Joint(f))
        /\ External(s)[f] = Where(Share(p, f), Joint(f))
    BY <1>2, <1>5, CliStageOrder DEF Yield
  <2>2. Usable(s, Internal(s)[f], External(s)[f]) = Joint(f)
    BY <2>1, JointUsable
  <2> QED BY <1>1, <1>5, <2>2 DEF Output, Aggregate, Yield
<1>6. CASE k = "publish"
  <2> DEFINE mine == Where(Share(s, f), Joint(f) \cap Honest)
             theirs == Where(Share(p, f), Joint(f) \cap Honest)
  <2>1. Internal(s)[f].payload = mine /\ External(s)[f].payload = theirs
    <3>1. \A t \in Servers :
            Yield(t, "aggregate", f).payload = Where(Share(t, f), Joint(f) \cap Honest)
      BY DEF Yield
    <3>2. /\ Internal(s)[f] = Yield(s, "aggregate", f)
          /\ External(s)[f] = Yield(p, "aggregate", f)
      BY <1>2, <1>6, CliStageOrder
    <3> QED BY <1>1, <3>1, <3>2
  <2>2. Balanced(f) <=> mine = theirs
    BY BalancedSums DEF Peer
  <2> HIDE DEF mine, theirs
  <2>3. Publish(s, Internal(s)[f], External(s)[f]) = IF Balanced(f) THEN mine ELSE Garbled
    BY <2>1, <2>2 DEF Publish, ShareOrder, TotalShareFinal
  <2> QED BY <1>6, <2>3 DEF Output, Yield, mine
<1> QED BY <1>1, <1>3, <1>4, <1>5, <1>6 DEF Stages

-----------------------------------------------------------------------------
(* The inductive invariant. *)

CliInv == TypeOK /\ FilesExact /\ FilesFollow

LEMMA CliInvInit == Init => CliInv
<1> SUFFICES ASSUME Init PROVE CliInv
  OBVIOUS
<1>1. TypeOK
  BY DEF Init, TypeOK, NoFiles, Directories, Stages, Phases, Existing
<1>2. FilesExact /\ FilesFollow
  BY DEF Init, FilesExact, FilesFollow, NoFiles
<1> QED BY <1>1, <1>2 DEF CliInv

(* The content a file should have depends on the share files only.         *)
LEMMA YieldStays ==
  ASSUME UNCHANGED raw
  PROVE  \A s, k, f : Yield(s, k, f)' = Yield(s, k, f)
BY DEF Yield, Share, Joint, Balanced

(* A step that copies files, or writes one that is exact, keeps all exact. *)
LEMMA CliControl ==
  ASSUME CliInv, NEW s \in Servers,
         \/ Deliver(s) \/ GiveUp(s) \/ EndLoop(s) \/ Mark(s)
         \/ \E f \in Files : FailCommand(s, f)
  PROVE  CliInv'
<1>1. UNCHANGED <<raw, out, bucket, local, todo>>
  BY DEF Deliver, GiveUp, EndLoop, Mark, FailCommand
<1>2. TypeOK'
  <2> USE DEF CliInv, TypeOK, Goto, Phases, Existing
  <2>1. CASE GiveUp(s)
    BY <2>1 DEF GiveUp
  <2>2. CASE EndLoop(s)
    BY <2>2 DEF EndLoop
  <2>3. CASE Mark(s)
    <3>1. /\ marked' \in [Servers -> [Stages -> BOOLEAN]]
          /\ stage' \in [Servers -> Stages] /\ phase' \in [Servers -> Phases]
          /\ UNCHANGED delivered
      BY <2>3, CliStageOrder DEF Mark, Target
    <3> QED BY <1>1, <3>1
  <2>5. CASE Deliver(s)
    BY <2>5 DEF Deliver
  <2>4. ASSUME NEW f \in Files, FailCommand(s, f) PROVE TypeOK'
    BY <2>4 DEF FailCommand
  <2> QED BY <2>1, <2>2, <2>3, <2>4, <2>5
<1>3. FilesExact'
  BY <1>1, YieldStays DEF CliInv, FilesExact
<1>4. \A t \in Servers : phase'[t] = "run" => phase[t] = "run" /\ stage'[t] = stage[t]
  BY DEF CliInv, TypeOK, Deliver, GiveUp, EndLoop, Mark, FailCommand, Goto
<1>5. FilesFollow'
  BY <1>1, <1>4 DEF CliInv, FilesFollow, Internal
<1> QED BY <1>2, <1>3, <1>5 DEF CliInv

LEMMA FetchFacts ==
  ASSUME CliInv, NEW s \in Servers, Fetch(s)
  PROVE  LET k == Prev(stage[s]) IN
         /\ UNCHANGED <<raw, delivered, out, bucket, marked, stage>> /\ k \in Stages
         /\ Partitions(s) \subseteq Existing(raw[s]) /\ Partitions(s) \subseteq Files
         /\ stage[s] = "verify1" => local' = local /\ Partitions(s) = Existing(raw[s])
         /\ stage[s] # "verify1" => /\ local' = [local EXCEPT ![s][k] = bucket[s][k]]
                                    /\ Partitions(s) = Existing(out[s][k])
         /\ todo'[s] = Partitions(s) /\ phase'[s] = "run"
         /\ \A t \in Servers : t # s => todo'[t] = todo[t] /\ phase'[t] = phase[t]
         /\ todo' \in [Servers -> SUBSET Files] /\ phase' \in [Servers -> Phases]
<1>1. Partitions(s) \subseteq Existing(raw[s]) /\ Partitions(s) \subseteq Files
  BY CliStageOrder DEF CliInv, TypeOK, FilesFollow, Partitions, Existing, Internal
<1>2. /\ todo' = [todo EXCEPT ![s] = Partitions(s)] /\ phase' = [phase EXCEPT ![s] = "run"]
      /\ todo \in [Servers -> SUBSET Files] /\ phase \in [Servers -> Phases] /\ "run" \in Phases
  BY DEF Fetch, Goto, CliInv, TypeOK, Phases
<1>3. /\ todo'[s] = Partitions(s) /\ phase'[s] = "run"
      /\ \A t \in Servers : t # s => todo'[t] = todo[t] /\ phase'[t] = phase[t]
      /\ todo' \in [Servers -> SUBSET Files] /\ phase' \in [Servers -> Phases]
  BY <1>1, <1>2
<1>4. /\ stage[s] = "verify1" => Partitions(s) = Existing(raw[s])
      /\ stage[s] # "verify1" => Partitions(s) = Existing(out[s][Prev(stage[s])])
  BY DEF Partitions, Internal
<1>5. /\ UNCHANGED <<raw, delivered, out, bucket, marked, stage>>
      /\ stage[s] = "verify1" => local' = local
      /\ stage[s] # "verify1" =>
           local' = [local EXCEPT ![s][Prev(stage[s])] = bucket[s][Prev(stage[s])]]
  BY DEF Fetch
<1>6. Prev(stage[s]) \in Stages
  BY CliStageOrder DEF CliInv, TypeOK
<1> QED BY <1>1, <1>3, <1>4, <1>5, <1>6

LEMMA CliFetch ==
  ASSUME CliInv, NEW s \in Servers, Fetch(s)
  PROVE  CliInv'
<1> DEFINE k == Prev(stage[s])
<1>1. /\ UNCHANGED <<raw, delivered, out, bucket, marked, stage>> /\ k \in Stages /\ k # "publish"
      /\ local' = local \/ local' = [local EXCEPT ![s][k] = bucket[s][k]]
  <2>1. /\ UNCHANGED <<raw, delivered, out, bucket, marked, stage>>
        /\ local' = local \/ local' = [local EXCEPT ![s][k] = bucket[s][k]]
    BY DEF Fetch
  <2>2. stage[s] \in Stages
    BY DEF CliInv, TypeOK
  <2> QED BY <2>1, <2>2, CliStageOrder
<1> HIDE DEF k
<1>2. local' \in Directories
  <2>1. local \in Directories /\ bucket \in Directories
    BY DEF CliInv, TypeOK
  <2>2. CASE local' = local
    BY <2>1, <2>2
  <2>3. CASE local' = [local EXCEPT ![s][k] = bucket[s][k]]
    <3> DEFINE X == [Files -> Rows \cup Totals \cup {Garbled, None}]
    <3>1. Directories = [Servers -> [Stages -> X]]
      BY DEF Directories
    <3> HIDE DEF X
    <3> QED BY <1>1, <2>1, <2>3, <3>1
  <2> QED BY <1>1, <2>2, <2>3
<1>3. TypeOK'
  <2>1. \A t \in Servers : todo'[t] \subseteq Existing(raw[t])
    BY FetchFacts DEF CliInv, TypeOK
  <2>2. todo' \in [Servers -> SUBSET Files] /\ phase' \in [Servers -> Phases]
    BY FetchFacts
  <2> QED BY <1>1, <1>2, <2>1, <2>2 DEF CliInv, TypeOK, Existing
<1>4. \A t \in Servers, j \in Stages :
        local'[t][j] = local[t][j] \/ (t = s /\ j = k /\ local'[t][j] = bucket[t][j])
  BY <1>1 DEF CliInv, TypeOK, Directories
<1>5. FilesExact'
  BY <1>1, <1>4, YieldStays DEF CliInv, FilesExact, Sender
<1>6. FilesFollow'
  <2> SUFFICES ASSUME NEW t \in Servers, NEW j \in Stages, NEW f \in Files
               PROVE  /\ local'[t][j][f] # None => raw[Peer(t)][f] # None
                      /\ phase'[t] = "run" /\ f \in todo'[t] /\ stage[t] # "verify1" =>
                           out[t][Prev(stage[t])][f] # None
    BY <1>1 DEF CliInv, FilesFollow, Internal
  <2>1. local'[t][j][f] # None => raw[Peer(t)][f] # None
    BY <1>1, <1>4 DEF CliInv, FilesFollow, Sender
  <2>2. CASE t = s
    BY <2>1, <2>2, FetchFacts DEF Existing
  <2>3. CASE t # s
    BY <2>1, <2>3, FetchFacts DEF CliInv, FilesFollow, Internal
  <2> QED BY <2>2, <2>3
<1> QED BY <1>3, <1>5, <1>6 DEF CliInv

LEMMA CliRunCommand ==
  ASSUME CliInv, NEW s \in Servers, NEW f \in Files, RunCommand(s, f)
  PROVE  CliInv'
<1> DEFINE k == stage[s]
           file == Output(s, f)
<1>1. /\ UNCHANGED <<raw, delivered, bucket, local, marked, stage, phase>> /\ k \in Stages
      /\ out' = [out EXCEPT ![s][k][f] = file]
      /\ todo' = [todo EXCEPT ![s] = @ \ {f}] /\ f \in todo[s]
  BY DEF CliInv, TypeOK, RunCommand
<1>2. file = Yield(s, k, f) /\ raw[s][f] # None
  BY OutputYield DEF CliInv, RunCommand, TypeOK, Existing
<1>3. file \in Rows \cup Totals \cup {Garbled, None}
  BY <1>1, <1>2, YieldType DEF CliInv
<1> HIDE DEF k, file
<1>4. TypeOK'
  BY <1>1, <1>3 DEF CliInv, TypeOK, Directories, Existing
<1>5. \A t \in Servers, j \in Stages, g \in Files :
        out'[t][j][g] = IF t = s /\ j = k /\ g = f THEN file ELSE out[t][j][g]
  BY <1>1 DEF CliInv, TypeOK, Directories
<1>6. FilesExact'
  BY <1>1, <1>2, <1>5, YieldStays DEF CliInv, FilesExact
<1>7. \A t \in Servers : todo'[t] \subseteq todo[t]
  BY <1>1 DEF CliInv, TypeOK
<1>8. \A t \in Servers : stage[t] # "verify1" => Prev(stage[t]) # stage[t] /\ Prev(stage[t]) \in Stages
  BY DEF CliInv, TypeOK, Prev, Stages
<1>9. FilesFollow'
  BY <1>1, <1>2, <1>5, <1>7, <1>8 DEF CliInv, FilesFollow, Internal, k
<1> QED BY <1>4, <1>6, <1>9 DEF CliInv

(* Where a stage's files are sent, and where those in a bucket are from.   *)
LEMMA TargetFacts ==
  ASSUME CliInv, NEW s \in Servers
  PROVE  Target(s) \in Servers /\ Sender(Target(s), stage[s]) = s
BY CliPeer DEF Target, Sender

LEMMA CliSendFile ==
  ASSUME CliInv, NEW s \in Servers, NEW f \in Files, SendFile(s, f)
  PROVE  CliInv'
<1> DEFINE k == stage[s]
           p == Target(s)
<1>1. /\ UNCHANGED <<raw, delivered, out, local, marked, stage, phase, todo>> /\ k \in Stages
      /\ bucket' = [bucket EXCEPT ![p][k][f] = out[s][k][f]]
      /\ p \in Servers /\ Sender(p, k) = s
  BY TargetFacts DEF CliInv, TypeOK, SendFile
<1> HIDE DEF k, p
<1>2. TypeOK'
  BY <1>1 DEF CliInv, TypeOK, Directories, Existing
<1>3. \A t \in Servers, j \in Stages, g \in Files :
        bucket'[t][j][g] = IF t = p /\ j = k /\ g = f THEN out[s][k][f] ELSE bucket[t][j][g]
  BY <1>1 DEF CliInv, TypeOK, Directories
<1>4. FilesExact'
  BY <1>1, <1>3, YieldStays DEF CliInv, FilesExact
<1>5. FilesFollow'
  BY <1>1, <1>3 DEF CliInv, FilesFollow, Internal
<1> QED BY <1>2, <1>4, <1>5 DEF CliInv

LEMMA CliNext == CliInv /\ [Next]_vars => CliInv'
<1> SUFFICES ASSUME CliInv, [Next]_vars PROVE CliInv'
  OBVIOUS
<1>1. CASE UNCHANGED vars
  <2>1. FilesExact'
    BY <1>1, YieldStays DEF vars, CliInv, FilesExact
  <2> QED BY <1>1, <2>1 DEF vars, CliInv, TypeOK, FilesFollow, Internal, Existing
<1> QED BY <1>1, CliControl, CliFetch, CliRunCommand, CliSendFile DEF Next, Step

(* Every file, wherever it was copied, holds what the share files of the   *)
(* two servers determine, and follows from a file of the stage before      *)
(* (commands.py 103-376).                                                  *)
THEOREM FilesDetermined == Spec => [](TypeOK /\ FilesExact /\ FilesFollow)
<1>1. CliInv <=> TypeOK /\ FilesExact /\ FilesFollow
  BY DEF CliInv
<1> QED BY <1>1, CliInvInit, CliNext, PTL DEF Spec

(* A published histogram counts each line of a valid row that both servers *)
(* can use, or is recognisably meaningless (publish, 318-376).             *)
THEOREM HistogramsExact == Spec => []ExactHistogram
<1>1. FilesExact => ExactHistogram
  BY DEF FilesExact, ExactHistogram, Yield, Stages
<1> QED BY <1>1, FilesDetermined, PTL

(* The error and total counters of the two servers leave the same number   *)
(* of good lines, although each is counted against a file of its own       *)
(* (aggregate, 291-315).                                                   *)
THEOREM CountersFit == Spec => []CountersReconcile
<1>1. TypeOK /\ FilesExact /\ FilesFollow => CountersReconcile
  <2> SUFFICES ASSUME TypeOK, FilesExact, FilesFollow, NEW f \in Files,
                      out[A]["aggregate"][f] # None, out[B]["aggregate"][f] # None,
                      Balanced(f)
               PROVE  LET a == out[A]["aggregate"][f]
                          b == out[B]["aggregate"][f]
                      IN  /\ a.total - a.error = b.total - b.error
                          /\ a.total = Sum(raw[A][f]) /\ b.total = Sum(raw[B][f])
    BY DEF CountersReconcile
  <2> DEFINE good(s) == Where(Share(s, f), Joint(f) \cap Honest)
  <2>1. ASSUME NEW s \in Servers
        PROVE  LET c == out[s]["aggregate"][f]
               IN  /\ c.total = Sum(raw[s][f])
                   /\ c.total - c.error = Sum(good(s))
    <3>1. out[s]["aggregate"][f] = Yield(s, "aggregate", f) /\ raw[s][f] # None
      BY DEF FilesExact, FilesFollow, Stages
    <3>2. raw[s][f] = Share(s, f) /\ Share(s, f) \in Rows /\ Joint(f) \cap Honest \in SUBSET Ids
      BY <3>1, ShareType
    <3>3. Sum(Share(s, f)) \in Nat /\ Sum(good(s)) \in Nat
      BY <3>2, RowOperators, SumType
    <3>4. /\ Yield(s, "aggregate", f).total = Sum(Share(s, f))
          /\ Yield(s, "aggregate", f).error = Sum(Share(s, f)) - Sum(good(s))
      BY DEF Yield
    <3> HIDE DEF good
    <3> QED BY <3>1, <3>2, <3>3, <3>4
  <2>2. Sum(good(A)) = Sum(good(B))
    BY BalancedSums
  <2> QED BY <2>1, <2>2
<1> QED BY <1>1, FilesDetermined, PTL

-----------------------------------------------------------------------------
(* The Spark jobs on the same share files.  A joint row goes through two   *)
(* joins: its own lines count four times over, those of the peer three.    *)

LEMMA Cancel ==
  ASSUME NEW c \in Nat, c > 0, NEW x \in Nat, NEW y \in Nat, c * x = c * y
  PROVE  x = y
<1>1. c * (x - y) = 0
  OBVIOUS
<1> QED BY <1>1

Spread(n, m) == (n * ((n * n) * m)) * ((m * m) * n)

LEMMA SpreadCompares ==
  ASSUME NEW n \in Nat, NEW m \in Nat, n > 0, m > 0
  PROVE  Spread(n, m) = Spread(m, n) <=> n = m
<1> DEFINE c == (n * n * n) * (m * m * m)
<1>1. n * n \in Nat /\ n * n > 0 /\ m * m \in Nat /\ m * m > 0
  OBVIOUS
<1>2. n * n * n \in Nat /\ n * n * n > 0 /\ m * m * m \in Nat /\ m * m * m > 0
  BY <1>1
<1>3. c \in Nat /\ c > 0
  BY <1>2
<1>4. Spread(n, m) = c * n /\ Spread(m, n) = c * m
  BY DEF Spread
<1> HIDE DEF c
<1> QED BY <1>3, <1>4, Cancel

LEMMA SparkRows ==
  ASSUME TypeOK, NEW s \in Servers, NEW f \in Files, NEW i \in Ids
  PROVE  SparkAggregate(s, f)[i] =
           IF i \in Joint(f) THEN Spread(Share(s, f)[i], Share(Peer(s), f)[i]) ELSE 0
<1> DEFINE p == Peer(s)
           n == Share(s, f)[i]
           m == Share(p, f)[i]
<1>1. p \in Servers /\ Peer(p) = s /\ n \in Nat /\ m \in Nat
  BY CliPeer, ShareType DEF Rows
<1>2. ASSUME NEW t \in Servers
      PROVE  SparkVerify1(t, f)[i] = IF i \in Decodes[t] THEN Share(t, f)[i] ELSE 0
  BY DEF SparkVerify1, Verify1Rows, UdfVerify1, Where
<1>3. ASSUME NEW t \in Servers
      PROVE  SparkVerify2(t, f)[i] =
               IF i \in Decodes[t]
               THEN Share(t, f)[i] * SparkVerify1(t, f)[i] * SparkVerify1(Peer(t), f)[i] ELSE 0
  BY DEF SparkVerify2, Verify2Rows, UdfVerify2, Where, Join
<1>4. SparkAggregate(s, f)[i] = n * SparkVerify2(s, f)[i] * SparkVerify2(p, f)[i]
  BY DEF SparkAggregate, AggregateRows, Join
<1>5. i \in Joint(f) <=> /\ i \in Decodes[s] /\ n > 0
                        /\ i \in Decodes[p] /\ m > 0
  <2>1. \A t \in Servers : i \in Index(Verify1(t, Share(t, f))) <=>
                             i \in Decodes[t] /\ Share(t, f)[i] > 0
    BY DEF Index, Verify1, Where
  <2>2. Joint(f) = Index(Verify1(s, Share(s, f))) \cap Index(Verify1(p, Share(p, f)))
    BY DEF Joint, Peer
  <2> QED BY <1>1, <2>1, <2>2
<1> HIDE DEF p, n, m
<1>6. CASE i \in Joint(f)
  <2>1. SparkVerify1(s, f)[i] = n /\ SparkVerify1(p, f)[i] = m
    BY <1>1, <1>2, <1>5, <1>6 DEF n, m
  <2>2. SparkVerify2(s, f)[i] = (n * n) * m /\ SparkVerify2(p, f)[i] = (m * m) * n
    BY <1>1, <1>3, <1>5, <1>6, <2>1 DEF n, m, p
  <2> QED BY <1>4, <1>6, <2>2 DEF Spread, n, m, p
<1>7. CASE i \notin Joint(f)
  <2>1. SparkVerify1(s, f)[i] \in Nat /\ SparkVerify1(p, f)[i] \in Nat
    BY <1>1, <1>2 DEF n, m
  <2>2. CASE n = 0 \/ m = 0
    <3>1. SparkVerify2(s, f)[i] = 0 /\ SparkVerify2(p, f)[i] = 0
      <4>1. n = 0 => SparkVerify1(s, f)[i] = 0
        BY <1>1, <1>2 DEF n
      <4>2. m = 0 => SparkVerify1(p, f)[i] = 0
        BY <1>1, <1>2 DEF m, p
      <4>3. \A x \in Nat : x * 0 = 0 /\ 0 * x = 0
        OBVIOUS
      <4>4. n * SparkVerify1(s, f)[i] \in Nat /\ m * SparkVerify1(p, f)[i] \in Nat
        BY <1>1, <2>1, ProductType
      <4>5. n * SparkVerify1(s, f)[i] * SparkVerify1(p, f)[i] = 0
        BY <1>1, <2>1, <2>2, <4>1, <4>2, <4>3, <4>4
      <4>6. m * SparkVerify1(p, f)[i] * SparkVerify1(s, f)[i] = 0
        BY <1>1, <2>1, <2>2, <4>1, <4>2, <4>3, <4>4
      <4> QED BY <1>1, <1>3, <4>5, <4>6 DEF n, m, p
    <3> QED BY <1>1, <1>4, <1>7, <3>1
  <2>3. CASE i \notin Decodes[s] \/ i \notin Decodes[p]
    <3>1. SparkVerify1(s, f)[i] = 0 \/ SparkVerify1(p, f)[i] = 0
      BY <1>1, <1>2, <2>3
    <3>2. \A x \in Nat : x * 0 = 0 /\ 0 * x = 0
      OBVIOUS
    <3>3. n * SparkVerify1(s, f)[i] \in Nat /\ m * SparkVerify1(p, f)[i] \in Nat
      BY <1>1, <2>1, ProductType
    <3>4. /\ n * SparkVerify1(s, f)[i] * SparkVerify1(p, f)[i] = 0
          /\ m * SparkVerify1(p, f)[i] * SparkVerify1(s, f)[i] = 0
      BY <1>1, <2>1, <3>1, <3>2, <3>3
    <3>5. SparkVerify2(s, f)[i] = 0 /\ SparkVerify2(p, f)[i] = 0
      BY <1>1, <1>3, <3>4 DEF n, m, p
    <3> QED BY <1>1, <1>4, <1>7, <3>5
  <2> QED BY <1>1, <1>5, <1>7, <2>2, <2>3
<1> QED BY <1>6, <1>7 DEF n, m, p

(* The sums of the two servers, as Spark computes them.                    *)
LEMMA SparkFits ==
  ASSUME TypeOK, NEW s \in Servers, NEW f \in Files
  PROVE  LET mine == TotalShare(s, SparkAggregate(s, f))
             theirs == TotalShare(Peer(s), SparkAggregate(Peer(s), f))
         IN  /\ mine \in Rows
             /\ UdfPublish(s, SparkAggregate(s, f), SparkAggregate(Peer(s), f)) =
                  IF mine = theirs THEN mine ELSE Garbled
             /\ mine = theirs <=> Balanced(f)
             /\ ~Repeated(f) => mine = Where(Share(s, f), Joint(f) \cap Honest)
<1> DEFINE p == Peer(s)
           mine == TotalShare(s, SparkAggregate(s, f))
           theirs == TotalShare(p, SparkAggregate(p, f))
           n(i) == Share(s, f)[i]
           m(i) == Share(p, f)[i]
           J == Joint(f) \cap Honest
<1>1. p \in Servers /\ Peer(p) = s /\ Share(s, f) \in Rows /\ Share(p, f) \in Rows
  BY CliPeer, ShareType
<1>2. \A i \in Ids : n(i) \in Nat /\ m(i) \in Nat
  BY <1>1 DEF Rows
<1>3. \A i \in J : i \in Ids /\ n(i) > 0 /\ m(i) > 0 /\ i \in Decodes[s] /\ i \in Decodes[p]
  BY <1>1, ShareType
<1>4. ASSUME NEW i \in Ids
      PROVE  /\ mine[i] = IF i \in J THEN Spread(n(i), m(i)) ELSE 0
             /\ theirs[i] = IF i \in J THEN Spread(m(i), n(i)) ELSE 0
  <2>1. /\ mine[i] = IF i \in Decodes[s] \cap Honest THEN SparkAggregate(s, f)[i] ELSE 0
        /\ theirs[i] = IF i \in Decodes[p] \cap Honest THEN SparkAggregate(p, f)[i] ELSE 0
    BY DEF TotalShare, Where, Accepted
  <2>2. /\ SparkAggregate(s, f)[i] = IF i \in Joint(f) THEN Spread(n(i), m(i)) ELSE 0
        /\ SparkAggregate(p, f)[i] = IF i \in Joint(f) THEN Spread(m(i), n(i)) ELSE 0
    BY <1>1, SparkRows
  <2> QED BY <1>3, <2>1, <2>2
<1>5. ASSUME NEW x \in Nat, NEW y \in Nat PROVE Spread(x, y) \in Nat
  <2>1. x * x \in Nat /\ y * y \in Nat
    BY ProductType
  <2>2. (x * x) * y \in Nat /\ (y * y) * x \in Nat
    BY <2>1, ProductType
  <2>3. x * ((x * x) * y) \in Nat
    BY <2>2, ProductType
  <2> QED BY <2>2, <2>3, ProductType DEF Spread
<1>6. /\ mine = [i \in Ids |-> mine[i]]
      /\ theirs = [i \in Ids |-> theirs[i]]
  BY DEF TotalShare, Where
<1>7. UdfPublish(s, SparkAggregate(s, f), SparkAggregate(p, f)) =
        IF mine = theirs THEN mine ELSE Garbled
  BY <1>1 DEF UdfPublish, ShareOrder, TotalShareFinal
<1> HIDE DEF mine, theirs, p
<1>8. mine \in Rows
  BY <1>2, <1>4, <1>5, <1>6 DEF Rows
<1>9. Balanced(f) <=> \A i \in J : n(i) = m(i)
  BY DEF Balanced, Peer, p
<1>10. mine = theirs <=> \A i \in J : n(i) = m(i)
  <2>1. \A i \in J : mine[i] = theirs[i] <=> n(i) = m(i)
    BY <1>2, <1>3, <1>4, SpreadCompares
  <2>2. \A i \in Ids \ J : mine[i] = theirs[i]
    BY <1>4
  <2>3. mine = theirs <=> \A i \in Ids : mine[i] = theirs[i]
    BY <1>6
  <2> QED BY <1>3, <2>1, <2>2, <2>3
<1>11. ASSUME ~Repeated(f) PROVE mine = Where(Share(s, f), J)
  <2>1. ASSUME NEW i \in J PROVE n(i) = 1 /\ mine[i] = 1
    <3>1. n(i) = 1 /\ m(i) = 1
      BY <1>1, <1>2, <1>3, <1>11 DEF Repeated
    <3> QED BY <1>3, <1>4, <3>1 DEF Spread
  <2>2. \A i \in Ids : mine[i] = IF i \in J THEN n(i) ELSE 0
    BY <1>4, <2>1
  <2> QED BY <1>6, <2>2 DEF Where
<1> QED BY <1>7, <1>8, <1>9, <1>10, <1>11 DEF mine, theirs, p

(* A row that is joint is in every dataset of both servers, and a row that *)
(* is not is in no input of publish.                                       *)
LEMMA SparkReadsJoint ==
  ASSUME TypeOK, NEW f \in Files
  PROVE  (\A t \in Servers : SparkReads(t, f)) <=> Joint(f) # {}
<1>1. ASSUME NEW i \in Joint(f), NEW t \in Servers PROVE SparkReads(t, f)
  <2> DEFINE n == Share(t, f)[i]
             m == Share(Peer(t), f)[i]
  <2>1. /\ i \in Ids /\ Peer(t) \in Servers
        /\ n > 0 /\ m > 0 /\ i \in Decodes[t] /\ i \in Decodes[Peer(t)]
        /\ Share(t, f) \in Rows /\ Share(Peer(t), f) \in Rows
    BY CliPeer, ShareType
  <2>2. n \in Nat /\ m \in Nat
    BY <2>1 DEF Rows
  <2>3. SparkVerify1(t, f)[i] = n /\ SparkVerify1(Peer(t), f)[i] = m
    BY <2>1 DEF SparkVerify1, Verify1Rows, UdfVerify1, Where
  <2>4. SparkVerify2(t, f)[i] = n * n * m
    BY <2>1, <2>3 DEF SparkVerify2, Verify2Rows, UdfVerify2, Where, Join
  <2>5. SparkAggregate(t, f)[i] = Spread(n, m)
    BY <1>1, <2>1, SparkRows
  <2> HIDE DEF n, m
  <2>6. n * n * m > 0 /\ n * n * m \in Nat
    <3>1. n * n \in Nat /\ n * n > 0
      BY <2>1, <2>2 DEF n, m
    <3> QED BY <2>1, <2>2, <3>1 DEF n, m
  <2>7. Spread(n, m) > 0
    <3>1. m * m \in Nat /\ m * m > 0
      BY <2>1, <2>2 DEF n, m
    <3>2. m * m * n \in Nat /\ m * m * n > 0
      BY <2>1, <2>2, <3>1 DEF n, m
    <3>3. n * (n * n * m) \in Nat /\ n * (n * n * m) > 0
      BY <2>1, <2>2, <2>6 DEF n, m
    <3> QED BY <3>2, <3>3 DEF Spread
  <2> QED BY <2>1, <2>3, <2>4, <2>5, <2>6, <2>7 DEF SparkReads, Present, n, m
<1>2. ASSUME \A t \in Servers : SparkReads(t, f) PROVE Joint(f) # {}
  <2>1. PICK i \in Ids : SparkAggregate(A, f)[i] > 0
    BY <1>2 DEF SparkReads, Present
  <2> QED BY <2>1, SparkRows
<1> QED BY <1>1, <1>2

(* Where no row is joint, the Spark jobs publish nothing and the commands  *)
(* zeros.  Otherwise they agree on whether the shares of the two servers   *)
(* fit, and, unless a row is repeated, on the histogram (commands.py       *)
(* 103-376, spark/commands.py 282, 310-316 and 361-366).                   *)
THEOREM ImplementationsAgree == Spec => []AgreesWithSpark
<1>1. TypeOK /\ FilesExact => AgreesWithSpark
  <2> DEFINE histogram(s, f) == out[s]["publish"][f]
             spark(s, f) == SparkPublish(s, f)
  <2> SUFFICES ASSUME TypeOK, FilesExact, NEW s \in Servers, NEW f \in Files,
                      histogram(s, f) # None
               PROVE  /\ spark(s, f) = None <=> Joint(f) = {}
                      /\ spark(s, f) = None => histogram(s, f) = NoRows
                      /\ spark(s, f) # None =>
                           (histogram(s, f) = Garbled <=> spark(s, f) = Garbled)
                      /\ spark(s, f) # None /\ ~Repeated(f) => histogram(s, f) = spark(s, f)
    BY DEF AgreesWithSpark
  <2> DEFINE exact == Where(Share(s, f), Joint(f) \cap Honest)
             mine == TotalShare(s, SparkAggregate(s, f))
             theirs == TotalShare(Peer(s), SparkAggregate(Peer(s), f))
             udf == UdfPublish(s, SparkAggregate(s, f), SparkAggregate(Peer(s), f))
  <2>1. histogram(s, f) = IF Balanced(f) THEN exact ELSE Garbled
    BY DEF FilesExact, Yield, Stages
  <2>2. exact \in Rows
    BY ShareType, HonestType, RowOperators
  <2>3. /\ mine \in Rows
        /\ udf = IF mine = theirs THEN mine ELSE Garbled
        /\ mine = theirs <=> Balanced(f)
        /\ ~Repeated(f) => mine = exact
    BY SparkFits
  <2>4. udf # None
    BY <2>3, NoneIsNoContent
  <2>5. spark(s, f) = IF Joint(f) # {} THEN udf ELSE None
    BY SparkReadsJoint DEF SparkPublish
  <2>6. Joint(f) = {} => Balanced(f) /\ exact = NoRows
    BY DEF Balanced, Where, NoRows
  <2> HIDE DEF histogram, spark, exact, mine, theirs, udf
  <2> QED BY <2>1, <2>2, <2>3, <2>4, <2>5, <2>6, GarbledNotRows
<1> QED BY <1>1, FilesDetermined, PTL

-----------------------------------------------------------------------------
(* What is there, and when: the state behind how the scripts end.          *)

Place(k) == CASE k = "verify1" -> 1 [] k = "verify2" -> 2 [] k = "aggregate" -> 3 [] OTHER -> 4

\* The stages whose loop is over.
Past(s, k) == Place(k) < Place(stage[s]) \/ (k = stage[s] /\ phase[s] \in {"send", "done"})

\* They have written a file for each share file.
WrittenWhole ==
  \A s \in Servers, k \in Stages : Past(s, k) =>
    \A f \in Existing(raw[s]) : out[s][k][f] # None

StillToDo ==
  \A s \in Servers : phase[s] = "run" =>
    \A f \in Existing(raw[s]) : f \in todo[s] \/ out[s][stage[s]][f] # None

\* A marker is next to all that was written, and so is what was fetched with it.
SentWhole ==
  \A s \in Servers, k \in Stages : marked[s][k] =>
    \A f \in Existing(raw[Sender(s, k)]) : bucket[s][k][f] # None

FetchedWhole ==
  \A s \in Servers : phase[s] = "run" /\ stage[s] # "verify1" =>
    \A f \in Existing(raw[Peer(s)]) : External(s)[f] # None

PhaseOfStage ==
  \A s \in Servers : phase[s] = "done" => stage[s] = "publish" /\ marked[s]["publish"]

\* A script that failed had a share file that its peer did not have ...
FailedForWant ==
  \A s \in Servers : phase[s] = "failed" =>
    \E f \in Existing(raw[s]) : raw[Peer(s)][f] = None

\* ... and one that finished has a histogram of each of its share files in its
\* bucket.
DonePublished ==
  \A s \in Servers : phase[s] = "done" =>
    \A f \in Existing(raw[s]) : bucket[s]["publish"][f] # None

ProgressInv ==
  /\ CliInv
  /\ WrittenWhole /\ StillToDo /\ SentWhole /\ FetchedWhole /\ PhaseOfStage /\ FailedForWant

LEMMA PlaceFacts ==
  ASSUME NEW k \in Stages
  PROVE  /\ Place(k) \in Nat
         /\ k # "verify1" => Prev(k) \in Stages /\ Place(Prev(k)) < Place(k)
         /\ k # "publish" =>
              /\ Following(k) \in Stages /\ Following(k) # "verify1" /\ Prev(Following(k)) = k
              /\ \A j \in Stages : Place(j) < Place(Following(k)) => Place(j) < Place(k) \/ j = k
BY DEF Stages, Place, Prev, Following

LEMMA ProgressInit == Init => ProgressInv
<1> SUFFICES ASSUME Init PROVE ProgressInv
  OBVIOUS
<1>1. /\ \A s \in Servers : stage[s] = "verify1" /\ phase[s] = "poll"
      /\ \A s \in Servers, k \in Stages : ~marked[s][k]
  BY DEF Init
<1>2. \A s \in Servers, k \in Stages : ~Past(s, k)
  BY <1>1 DEF Past, Place, Stages
<1> QED BY <1>1, <1>2, CliInvInit
        DEF ProgressInv, WrittenWhole, StillToDo, SentWhole, FetchedWhole, PhaseOfStage, FailedForWant

(* Steps that only move the script on, and do not begin another stage.     *)
LEMMA ProgressControl ==
  ASSUME ProgressInv, CliInv', NEW s \in Servers,
         Deliver(s) \/ GiveUp(s) \/ EndLoop(s) \/ \E f \in Files : FailCommand(s, f)
  PROVE  ProgressInv'
<1>1. UNCHANGED <<raw, out, bucket, local, marked, stage, todo>>
  BY DEF Deliver, GiveUp, EndLoop, FailCommand
<1>2. \A t \in Servers : t # s => phase'[t] = phase[t]
  BY DEF ProgressInv, CliInv, TypeOK, Deliver, GiveUp, EndLoop, FailCommand, Goto
<1>3. \/ phase'[s] = phase[s]
      \/ phase[s] = "poll" /\ phase'[s] = "timeout"
      \/ phase[s] = "run" /\ phase'[s] = "failed"
      \/ phase[s] = "run" /\ todo[s] = {} /\ phase'[s] = "send"
  BY DEF ProgressInv, CliInv, TypeOK, Deliver, GiveUp, EndLoop, FailCommand, Goto
<1>4. \A t \in Servers : phase'[t] = "run" => phase[t] = "run"
  BY <1>2, <1>3
<1>5. StillToDo' /\ FetchedWhole' /\ SentWhole' /\ PhaseOfStage'
  BY <1>1, <1>2, <1>3, <1>4
     DEF ProgressInv, StillToDo, FetchedWhole, SentWhole, PhaseOfStage, External, Existing
<1>6. WrittenWhole'
  <2> SUFFICES ASSUME NEW t \in Servers, NEW k \in Stages, Past(t, k)',
                      NEW f \in Existing(raw[t])
               PROVE  out[t][k][f] # None
    BY <1>1 DEF WrittenWhole, Existing
  <2>1. CASE Past(t, k)
    BY <2>1 DEF ProgressInv, WrittenWhole
  <2>2. CASE ~Past(t, k)
    <3>1. t = s /\ k = stage[s] /\ phase[s] = "run" /\ todo[s] = {}
      BY <1>1, <1>2, <1>3, <2>2 DEF Past
    <3> QED BY <3>1 DEF ProgressInv, StillToDo
  <2> QED BY <2>1, <2>2
<1>7. FailedForWant'
  <2> SUFFICES ASSUME NEW t \in Servers, phase'[t] = "failed"
               PROVE  \E f \in Existing(raw[t]) : raw[Peer(t)][f] = None
    BY <1>1 DEF FailedForWant, Existing
  <2>1. CASE phase[t] = "failed"
    BY <2>1 DEF ProgressInv, FailedForWant
  <2>2. CASE phase[t] # "failed"
    <3>1. t = s
      BY <1>2, <2>2
    <3>2. PICK f \in Files : FailCommand(s, f)
      BY <2>2, <3>1 DEF ProgressInv, CliInv, TypeOK, Deliver, GiveUp, EndLoop, Goto
    <3>3. f \in Existing(raw[s]) /\ phase[s] = "run" /\ ~Runs(s, f)
      BY <3>2 DEF ProgressInv, CliInv, TypeOK, FailCommand
    <3>4. Combinable(s)
      BY DEF Combinable, ShareOrder, Peer
    <3>5. stage[s] # "verify1" /\ External(s)[f] = None
      BY <3>3, <3>4 DEF Runs
    <3>6. raw[Peer(s)][f] = None
      BY <3>3, <3>5 DEF ProgressInv, FetchedWhole, Existing
    <3> QED BY <3>1, <3>3, <3>6
  <2> QED BY <2>1, <2>2
<1> QED BY <1>5, <1>6, <1>7 DEF ProgressInv

LEMMA ProgressMark ==
  ASSUME ProgressInv, CliInv', NEW s \in Servers, Mark(s)
  PROVE  ProgressInv'
<1> DEFINE k == stage[s]
           p == Target(s)
<1>1. /\ UNCHANGED <<raw, out, bucket, local, todo>> /\ phase[s] = "send"
      /\ bucket[p][k] = out[s][k] /\ k \in Stages /\ p \in Servers /\ Sender(p, k) = s
      /\ k = "publish" => p = s
  BY TargetFacts DEF Mark, Target, ProgressInv, CliInv, TypeOK
<1>2. /\ \A t \in Servers : t # s => stage'[t] = stage[t] /\ phase'[t] = phase[t]
      /\ stage'[s] = Following(k) /\ phase'[s] = IF k = "publish" THEN "done" ELSE "poll"
  BY DEF Mark, Goto, ProgressInv, CliInv, TypeOK
<1>3. /\ marked'[p][k]
      /\ \A t \in Servers, j \in Stages : marked[t][j] => marked'[t][j]
      /\ \A t \in Servers, j \in Stages : marked'[t][j] => marked[t][j] \/ (t = p /\ j = k)
  <2>1. /\ marked' = [marked EXCEPT ![p][k] = TRUE]
        /\ marked \in [Servers -> [Stages -> BOOLEAN]]
    BY DEF Mark, ProgressInv, CliInv, TypeOK
  <2> HIDE DEF k, p
  <2>2. /\ marked'[p] = [marked[p] EXCEPT ![k] = TRUE] /\ marked[p] \in [Stages -> BOOLEAN]
        /\ \A t \in Servers : t # p => marked'[t] = marked[t]
    BY <1>1, <2>1
  <2>3. marked'[p][k] /\ \A j \in Stages : j # k => marked'[p][j] = marked[p][j]
    BY <1>1, <2>2
  <2> QED BY <1>1, <2>2, <2>3
<1>4. k # "publish" => Following(k) # "verify1"
  BY <1>1, PlaceFacts
<1> HIDE DEF k, p
<1>5. \A t \in Servers, j \in Stages : Past(t, j)' => Past(t, j)
  <2> SUFFICES ASSUME NEW t \in Servers, NEW j \in Stages, Past(t, j)'
               PROVE  Past(t, j)
    OBVIOUS
  <2>1. CASE t # s
    BY <1>2, <2>1 DEF Past
  <2>2. CASE t = s /\ k # "publish"
    <3>1. Place(j) < Place(Following(k))
      BY <1>2, <2>2 DEF Past
    <3>2. Place(j) < Place(k) \/ j = k
      BY <1>1, <2>2, <3>1, PlaceFacts
    <3> QED BY <1>1, <2>2, <3>2 DEF Past, k
  <2>3. CASE t = s /\ k = "publish"
    <3>1. stage'[s] = k
      BY <1>2, <2>3, CliStageOrder
    <3>2. Place(j) < Place(k) \/ j = k
      BY <2>3, <3>1 DEF Past
    <3> QED BY <1>1, <2>3, <3>2 DEF Past, k
  <2> QED BY <2>1, <2>2, <2>3
<1>6. WrittenWhole'
  BY <1>1, <1>5 DEF ProgressInv, WrittenWhole, Existing
<1>7. \A f \in Existing(raw[s]) : out[s][k][f] # None
  <2>1. Past(s, k)
    BY <1>1 DEF Past, k
  <2> QED BY <1>1, <2>1 DEF ProgressInv, WrittenWhole
<1>8. SentWhole'
  BY <1>1, <1>3, <1>7 DEF ProgressInv, SentWhole, Existing
<1>9. StillToDo' /\ FetchedWhole' /\ FailedForWant'
  BY <1>1, <1>2
     DEF ProgressInv, StillToDo, FetchedWhole, FailedForWant, External, Existing
<1>10. PhaseOfStage'
  BY <1>1, <1>2, <1>3, CliStageOrder DEF ProgressInv, PhaseOfStage, Stages
<1> QED BY <1>6, <1>8, <1>9, <1>10 DEF ProgressInv

LEMMA ProgressFetch ==
  ASSUME ProgressInv, CliInv', NEW s \in Servers, Fetch(s)
  PROVE  ProgressInv'
<1> DEFINE k == Prev(stage[s])
<1>1. /\ UNCHANGED <<raw, out, bucket, marked, stage>> /\ k \in Stages
      /\ phase[s] = "poll" /\ stage[s] \in Stages
      /\ stage[s] # "verify1" => marked[s][k]
      /\ stage[s] = "verify1" => local' = local
      /\ stage[s] # "verify1" => local' = [local EXCEPT ![s][k] = bucket[s][k]]
  BY FetchFacts DEF ProgressInv, CliInv, TypeOK, Fetch, Arrived
<1>2. /\ phase'[s] = "run" /\ todo'[s] = Partitions(s)
      /\ \A t \in Servers : t # s => todo'[t] = todo[t] /\ phase'[t] = phase[t]
  BY FetchFacts DEF ProgressInv
<1>3. Existing(raw[s]) \subseteq Partitions(s)
  <2>1. CASE stage[s] = "verify1"
    BY <2>1 DEF Partitions
  <2>2. CASE stage[s] # "verify1"
    <3>1. Past(s, k)
      BY <1>1, <2>2, PlaceFacts DEF Past
    <3> QED BY <1>1, <2>2, <3>1 DEF ProgressInv, WrittenWhole, Partitions, Internal, Existing
  <2> QED BY <2>1, <2>2
<1>4. stage[s] # "verify1" =>
        /\ k # "publish" /\ local'[s][k] = bucket[s][k]
        /\ \A f \in Existing(raw[Peer(s)]) : bucket[s][k][f] # None
  <2>1. stage[s] # "verify1" => local'[s][k] = bucket[s][k]
    BY <1>1 DEF ProgressInv, CliInv, TypeOK, Directories
  <2> QED BY <1>1, <2>1, CliStageOrder DEF ProgressInv, SentWhole, Sender
<1>5. \A t \in Servers : t # s => local'[t] = local[t]
  BY <1>1 DEF ProgressInv, CliInv, TypeOK, Directories
<1>6. FetchedWhole'
  <2> SUFFICES ASSUME NEW t \in Servers, phase'[t] = "run", stage[t] # "verify1",
                      NEW f \in Existing(raw[Peer(t)])
               PROVE  local'[t][Prev(stage[t])][f] # None
    BY <1>1 DEF FetchedWhole, External, Existing
  <2>1. CASE t = s
    BY <1>4, <2>1
  <2>2. CASE t # s
    BY <1>2, <1>5, <2>2 DEF ProgressInv, FetchedWhole, External
  <2> QED BY <2>1, <2>2
<1> HIDE DEF k
<1>7. StillToDo'
  BY <1>1, <1>2, <1>3 DEF ProgressInv, StillToDo, Existing
<1>8. \A t \in Servers, j \in Stages : Past(t, j)' => Past(t, j)
  BY <1>1, <1>2 DEF Past
<1>9. WrittenWhole' /\ SentWhole' /\ PhaseOfStage' /\ FailedForWant'
  BY <1>1, <1>2, <1>8
     DEF ProgressInv, WrittenWhole, SentWhole, PhaseOfStage, FailedForWant, Existing
<1> QED BY <1>6, <1>7, <1>9 DEF ProgressInv

LEMMA ProgressRunCommand ==
  ASSUME ProgressInv, CliInv', NEW s \in Servers, NEW f \in Files, RunCommand(s, f)
  PROVE  ProgressInv'
<1> DEFINE k == stage[s]
           file == Output(s, f)
<1>1. /\ UNCHANGED <<raw, bucket, local, marked, stage, phase>> /\ k \in Stages
      /\ out' = [out EXCEPT ![s][k][f] = file]
      /\ todo' = [todo EXCEPT ![s] = @ \ {f}]
  BY DEF ProgressInv, CliInv, TypeOK, RunCommand
<1>2. file # None
  <2>1. file = Yield(s, k, f)
    BY OutputYield DEF ProgressInv, CliInv
  <2> QED BY <1>1, <2>1, YieldType, NoneIsNoContent DEF ProgressInv, CliInv
<1> HIDE DEF k, file
<1>3. \A t \in Servers, j \in Stages, g \in Files :
        out'[t][j][g] = IF t = s /\ j = k /\ g = f THEN file ELSE out[t][j][g]
  BY <1>1 DEF ProgressInv, CliInv, TypeOK, Directories
<1>4. \A t \in Servers, j \in Stages, g \in Files : out[t][j][g] # None => out'[t][j][g] # None
  BY <1>2, <1>3
<1>5. \A t \in Servers : todo'[t] = IF t = s THEN todo[t] \ {f} ELSE todo[t]
  BY <1>1 DEF ProgressInv, CliInv, TypeOK
<1>6. StillToDo'
  <2> SUFFICES ASSUME NEW t \in Servers, phase[t] = "run", NEW g \in Existing(raw[t]),
                      g \notin todo'[t]
               PROVE  out'[t][stage[t]][g] # None
    BY <1>1 DEF StillToDo, Existing
  <2>1. g \in Files /\ stage[t] \in Stages
    BY DEF Existing, ProgressInv, CliInv, TypeOK
  <2>2. CASE g \in todo[t]
    <3>1. t = s /\ g = f
      BY <1>5, <2>2
    <3> QED BY <1>2, <1>3, <2>1, <3>1 DEF k
  <2>3. CASE g \notin todo[t]
    BY <1>4, <2>1, <2>3 DEF ProgressInv, StillToDo
  <2> QED BY <2>2, <2>3
<1>7. WrittenWhole'
  <2> SUFFICES ASSUME NEW t \in Servers, NEW j \in Stages, Past(t, j), NEW g \in Existing(raw[t])
               PROVE  out'[t][j][g] # None
    BY <1>1 DEF WrittenWhole, Existing, Past
  <2> QED BY <1>4 DEF ProgressInv, WrittenWhole, Existing
<1>8. SentWhole' /\ FetchedWhole' /\ PhaseOfStage' /\ FailedForWant'
  BY <1>1 DEF ProgressInv, SentWhole, FetchedWhole, PhaseOfStage, FailedForWant, External, Existing
<1> QED BY <1>6, <1>7, <1>8 DEF ProgressInv

LEMMA ProgressSendFile ==
  ASSUME ProgressInv, CliInv', NEW s \in Servers, NEW f \in Files, SendFile(s, f)
  PROVE  ProgressInv'
<1> DEFINE k == stage[s]
           p == Target(s)
<1>1. /\ UNCHANGED <<raw, out, local, marked, stage, phase, todo>> /\ k \in Stages
      /\ phase[s] = "send" /\ bucket' = [bucket EXCEPT ![p][k][f] = out[s][k][f]]
      /\ p \in Servers /\ Sender(p, k) = s
  BY TargetFacts DEF ProgressInv, CliInv, TypeOK, SendFile
<1>2. \A g \in Existing(raw[s]) : out[s][k][g] # None
  <2>1. Past(s, k)
    BY <1>1 DEF Past
  <2> QED BY <1>1, <2>1 DEF ProgressInv, WrittenWhole
<1> HIDE DEF k, p
<1>3. \A t \in Servers, j \in Stages, g \in Files :
        bucket'[t][j][g] = IF t = p /\ j = k /\ g = f THEN out[s][k][f] ELSE bucket[t][j][g]
  BY <1>1 DEF ProgressInv, CliInv, TypeOK, Directories
<1>4. SentWhole'
  BY <1>1, <1>2, <1>3 DEF ProgressInv, SentWhole, Existing
<1>5. WrittenWhole' /\ StillToDo' /\ FetchedWhole' /\ PhaseOfStage' /\ FailedForWant'
  BY <1>1 DEF ProgressInv, WrittenWhole, StillToDo, FetchedWhole, PhaseOfStage, FailedForWant,
              External, Existing, Past
<1> QED BY <1>4, <1>5 DEF ProgressInv

(* The inductive invariant of the scripts: stages past are complete, what  *)
(* is marked is complete at the peer, what was fetched as well (server.sh  *)
(* 61-115).                                                                *)
THEOREM ScriptsProgress == Spec => []ProgressInv
<1>1. ProgressInv /\ [Next]_vars => ProgressInv'
  <2> SUFFICES ASSUME ProgressInv, [Next]_vars PROVE ProgressInv'
    OBVIOUS
  <2>1. CliInv'
    BY CliNext DEF ProgressInv
  <2>2. CASE UNCHANGED vars
    BY <2>1, <2>2 DEF vars, ProgressInv, WrittenWhole, StillToDo, SentWhole, FetchedWhole,
                      PhaseOfStage, FailedForWant, External, Existing, Past
  <2> QED BY <2>1, <2>2, ProgressControl, ProgressMark, ProgressFetch, ProgressRunCommand,
             ProgressSendFile DEF Next, Step
<1> QED BY <1>1, ProgressInit, PTL DEF Spec

(* Whatever the order of the two scripts, a command fails only on a share  *)
(* file that the peer has never had: the safety part of StopsInOrder       *)
(* (server.sh 127-208).                                                    *)
THEOREM FailuresAreForWant == Spec => []FailedForWant
<1>1. ProgressInv => FailedForWant
  BY DEF ProgressInv
<1> QED BY <1>1, ScriptsProgress, PTL

(* A script that gets to its end has the histogram of each of its share    *)
(* files in its own bucket (server.sh 183-208).                            *)
THEOREM ScriptsPublishAll == Spec => []DonePublished
<1>1. ProgressInv => DonePublished
  BY DEF ProgressInv, DonePublished, SentWhole, PhaseOfStage, Sender, Stages
<1> QED BY <1>1, ScriptsProgress, PTL
=============================================================================
