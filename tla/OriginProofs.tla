---------------------------- MODULE OriginProofs ----------------------------
(***************************************************************************)
(* Theorems about the two programs of OriginJobs, for every set of pings   *)
(* and submissions, any number of tasks, runs and repeated deliveries, and *)
(* lists of any length.                                                    *)
(***************************************************************************)
EXTENDS OriginJobs, FiniteSetTheorems,
        SequenceTheorems, TLAPS

-----------------------------------------------------------------------------
(* Staging: the rows of a day. *)

MessagesType == messages \in [Pings -> 0..MaxCopies]

(* Whatever copies there are, a batch has one row for each submission of   *)
(* the pings that have arrived.                                            *)
LEMMA RowsOfBatch ==
  ASSUME MessagesType, NEW b
  PROVE  /\ InBatch(Rows(messages), b) = Submitted(b) \X {1}
         /\ IsFiniteSet(Submitted(b))
         /\ Cardinality(Submitted(b)) \in Nat
         /\ Cardinality(InBatch(Rows(messages), b)) = Cardinality(Submitted(b))
<1>1. InBatch(Rows(messages), b) = Submitted(b) \X {1}
  <2>1. ASSUME NEW u \in Subs PROVE messages[PingOf[u]] \in 0..MaxCopies
    BY EntriesAreOfPings DEF MessagesType
  <2>2. ASSUME NEW r
        PROVE  r \in InBatch(Rows(messages), b) <=>
                 r \in Subs \X (1..MaxCopies) /\ r[2] <= messages[PingOf[r[1]]] /\ r[2] = 1
                 /\ BatchOf[r[1]] = b
    BY DEF InBatch, Rows, DropDuplicates, Copies
  <2>3. ASSUME NEW r
        PROVE  r \in Submitted(b) \X {1} <=>
                 r \in Subs \X {1} /\ messages[PingOf[r[1]]] > 0 /\ BatchOf[r[1]] = b
    BY DEF Submitted
  <2> QED BY <2>1, <2>2, <2>3, CopiesAreNat
<1>2. IsFiniteSet(Submitted(b)) /\ Cardinality(Submitted(b)) \in Nat
  BY EntriesAreFinite, FS_Subset, FS_CardinalityType DEF Submitted
<1>3. IsFiniteSet({1}) /\ Cardinality({1}) = 1
  BY FS_Singleton
<1>4. Cardinality(Submitted(b) \X {1}) = Cardinality(Submitted(b)) * 1
  BY <1>2, <1>3, FS_Product
<1> QED BY <1>1, <1>2, <1>4

(* A numbering of the rows gives the keys 1, 2, ... of a batch to one      *)
(* submission each.                                                        *)
LEMMA NumberingFacts ==
  ASSUME MessagesType, NEW f \in Numberings(Rows(messages)), NEW b \in Batches
  PROVE  LET rows == InBatch(Rows(messages), b) IN
         /\ rows \subseteq DOMAIN f
         /\ {f[r] : r \in rows} = 1..Cardinality(Submitted(b))
         /\ 1..Cardinality(Submitted(b)) \subseteq Keys
         /\ \A q, r \in rows : f[q] = f[r] => q = r
<1> DEFINE rows == InBatch(Rows(messages), b)
           n == Cardinality(Submitted(b))
           g == [r \in rows |-> f[r]]
<1>1. /\ f \in [Rows(messages) -> Keys] /\ rows \subseteq Rows(messages)
      /\ {f[r] : r \in rows} = 1..n
  BY RowsOfBatch DEF Numberings, InBatch
<1>2. 1..n \subseteq Keys
  BY <1>1
<1>3. g \in Surjection(rows, 1..n)
  BY <1>1 DEF Surjection
<1>4. IsFiniteSet(rows) /\ Cardinality(rows) = n /\ n \in Nat
  <2>1. IsFiniteSet(Submitted(b)) /\ IsFiniteSet({1}) /\ rows = Submitted(b) \X {1}
    BY RowsOfBatch, FS_Singleton
  <2>2. IsFiniteSet(Submitted(b) \X {1})
    BY ONLY <2>1, FS_Product
  <2> QED BY <2>1, <2>2, RowsOfBatch
<1>5. Cardinality(1..n) = n
  BY <1>4, FS_Interval
<1> HIDE DEF rows, n, g
<1>6. g \in Injection(rows, 1..n)
  BY <1>3, <1>4, <1>5, FS_SurjSameCardinalityImpliesInj
<1>7. \A q, r \in rows : g[q] = g[r] => q = r
  BY <1>6 DEF Injection, IsInjective
<1> QED BY <1>1, <1>2, <1>7 DEF g, rows, n

(* Every key of a batch is in the range of one task.                       *)
LEMMA RangeFacts ==
  ASSUME MessagesType, NEW f \in Numberings(Rows(messages)), NEW g \in Ranges(Rows(messages)),
         NEW b \in Batches, NEW k \in 1..Cardinality(Submitted(b))
  PROVE  g[<<b, k>>] \in Tasks
<1>1. k \in Keys /\ k <= Cardinality(InBatch(Rows(messages), b))
  BY RowsOfBatch, NumberingFacts
<1> QED BY <1>1 DEF Ranges

-----------------------------------------------------------------------------
(* Staging: the inductive invariant. *)

StagingType ==
  /\ MessagesType
  /\ left \in SUBSET Tasks
  /\ written \in [Servers -> [Batches -> SUBSET Lines]]
  /\ output \in [Servers -> [Batches -> SUBSET Lines]]
  /\ commit \in [Directories -> {"staged", "deleting", "filling", "replaced"}]
  /\ recomputed \in BOOLEAN

AtWork == status \in {"running", "done"}

\* The rows of a run are those of the pings of the day.
Numbered ==
  AtWork => id \in Numberings(Rows(messages)) /\ task \in Ranges(Rows(messages))

\* The keys of the tasks that have written, whichever rows had them.
KeysWritten ==
  AtWork =>
    \A s \in Servers, b \in Batches :
      KeysOf(written[s][b]) = {k \in 1..Cardinality(Submitted(b)) : task[<<b, k>>] \notin left}

\* Both servers' lines of a key come from one task.
WrittenMatched ==
  AtWork =>
    \A b \in Batches, s, t \in Servers :
      \A x \in written[s][b], y \in written[t][b] : x.key = y.key => x.sub = y.sub

\* Rows that are computed once are written once.
WrittenOnce ==
  AtWork /\ ~recomputed =>
    \A s \in Servers, b \in Batches :
      written[s][b] = {[key |-> id[r], sub |-> r[1]] :
                         r \in {q \in InBatch(Rows(messages), b) : task[<<b, id[q]>>] \notin left}}

\* What the commit has moved is from this run, and complete in the end.
Moved ==
  status = "running" =>
    \A s \in Servers, b \in Batches :
      /\ commit[<<s, b>>] # "staged" => left = {}
      /\ commit[<<s, b>>] = "filling" => output[s][b] \subseteq written[s][b]
      /\ commit[<<s, b>>] = "replaced" => output[s][b] = written[s][b]

Committed ==
  status = "done" => left = {} /\ output = written

\* A directory is of a batch with submissions, as no ping is taken back.
OutputSubmitted ==
  \A s \in Servers, b \in Batches : output[s][b] # {} => Submitted(b) # {}

StagingInv ==
  /\ StagingType /\ Numbered /\ KeysWritten /\ WrittenMatched /\ WrittenOnce
  /\ Moved /\ Committed /\ OutputSubmitted /\ NoKeyTwice

(* What a task writes: the lines of its keys, one submission each, and the *)
(* same for every server.                                                  *)
LEMMA LinesOfTask ==
  ASSUME StagingType, Numbered, AtWork, NEW t \in Tasks, NEW s, NEW b \in Batches
  PROVE  /\ LinesOf(t, s, b) \subseteq Lines
         /\ KeysOf(LinesOf(t, s, b)) = {k \in 1..Cardinality(Submitted(b)) : task[<<b, k>>] = t}
         /\ LinesOf(t, s, b) = {[key |-> id[r], sub |-> r[1]] :
              r \in {q \in InBatch(Rows(messages), b) : task[<<b, id[q]>>] = t}}
         /\ \A u : \A x \in LinesOf(t, s, b), y \in LinesOf(t, u, b) : x.key = y.key => x.sub = y.sub
<1> DEFINE rows == InBatch(Rows(messages), b)
           n == Cardinality(Submitted(b))
           Line(r) == [key |-> id[r], sub |-> r[1]]
<1>1. MessagesType /\ id \in Numberings(Rows(messages)) /\ DOMAIN id = Rows(messages)
  BY DEF StagingType, Numbered, Numberings
<1>2. ASSUME NEW u PROVE LinesOf(t, u, b) = {Line(r) : r \in {q \in rows : task[<<b, id[q]>>] = t}}
  BY <1>1 DEF LinesOf
<1>3. /\ {id[r] : r \in rows} = 1..n
      /\ 1..n \subseteq Keys
      /\ \A q, r \in rows : id[q] = id[r] => q = r
  BY <1>1, NumberingFacts
<1>4. ASSUME NEW r \in rows PROVE r[1] \in Subs
  <2>1. rows = Submitted(b) \X {1}
    BY <1>1, RowsOfBatch
  <2> QED BY <2>1 DEF Submitted
<1> HIDE DEF rows, n
<1>0. ASSUME NEW u, NEW x
      PROVE  x \in LinesOf(t, u, b) <=> \E r \in rows : task[<<b, id[r]>>] = t /\ x = Line(r)
  BY <1>2
<1>8. \A r : Line(r).key = id[r] /\ Line(r).sub = r[1]
  OBVIOUS
<1>5. LinesOf(t, s, b) \subseteq Lines
  <2> SUFFICES ASSUME NEW x \in LinesOf(t, s, b) PROVE x \in Lines
    OBVIOUS
  <2>0. PICK r \in rows : x = Line(r)
    BY <1>0
  <2>1. id[r] \in Keys /\ r[1] \in Subs
    BY <1>3, <1>4
  <2> QED BY <2>0, <2>1 DEF Lines
<1> HIDE DEF Line
<1>6. KeysOf(LinesOf(t, s, b)) = {k \in 1..n : task[<<b, k>>] = t}
  <2>1. ASSUME NEW k PROVE k \in KeysOf(LinesOf(t, s, b)) <=> \E r \in rows : task[<<b, id[r]>>] = t /\ k = id[r]
    <3>1. k \in KeysOf(LinesOf(t, s, b)) <=> \E x \in LinesOf(t, s, b) : k = x.key
      BY DEF KeysOf
    <3>2. ASSUME NEW x \in LinesOf(t, s, b), k = x.key
          PROVE  \E r \in rows : task[<<b, id[r]>>] = t /\ k = id[r]
      <4>1. PICK r \in rows : task[<<b, id[r]>>] = t /\ x = Line(r)
        BY <1>0
      <4> QED BY <1>8, <3>2, <4>1
    <3>3. ASSUME NEW r \in rows, task[<<b, id[r]>>] = t, k = id[r]
          PROVE  \E x \in LinesOf(t, s, b) : k = x.key
      <4>1. Line(r) \in LinesOf(t, s, b) /\ k = Line(r).key
        BY <1>0, <1>8, <3>3
      <4> QED BY <4>1
    <3> QED BY <3>1, <3>2, <3>3
  <2>2. ASSUME NEW k PROVE k \in 1..n <=> \E r \in rows : k = id[r]
    BY <1>3
  <2> HIDE DEF n
  <2> QED BY <2>1, <2>2
<1>7. ASSUME NEW u, NEW x \in LinesOf(t, s, b), NEW y \in LinesOf(t, u, b), x.key = y.key
      PROVE  x.sub = y.sub
  <2>1. PICK q \in rows : x = Line(q)
    BY <1>0
  <2>2. PICK r \in rows : y = Line(r)
    BY <1>0
  <2>3. id[q] = id[r]
    BY <1>7, <1>8, <2>1, <2>2
  <2>4. q = r
    BY <1>3, <2>3
  <2> QED BY <2>1, <2>2, <2>4
<1> QED BY <1>2, <1>5, <1>6, <1>7 DEF rows, n, Line

(* A batch has keys if and only if it has submissions.                     *)
LEMMA SubmittedCounted ==
  ASSUME MessagesType, NEW b
  PROVE  Submitted(b) # {} <=> 1 \in 1..Cardinality(Submitted(b))
BY RowsOfBatch, FS_EmptySet

(* A step that writes no lines keeps those that are written.               *)
LEMMA WrittenOnceStays ==
  ASSUME WrittenOnce, UNCHANGED <<messages, id, task, left, written, status, recomputed>>
  PROVE  WrittenOnce'
<1>1. /\ messages' = messages /\ id' = id /\ task' = task /\ left' = left
      /\ written' = written /\ status' = status /\ recomputed' = recomputed
  OBVIOUS
<1> SUFFICES ASSUME AtWork', ~recomputed', NEW s \in Servers, NEW b \in Batches
             PROVE  written'[s][b] = {[key |-> id'[r], sub |-> r[1]] :
                      r \in {q \in InBatch(Rows(messages'), b) : task'[<<b, id'[q]>>] \notin left'}}
  BY DEF WrittenOnce
<1>2. AtWork /\ ~recomputed
  BY <1>1 DEF AtWork
<1>3. written[s][b] = {[key |-> id[r], sub |-> r[1]] :
                         r \in {q \in InBatch(Rows(messages), b) : task[<<b, id[q]>>] \notin left}}
  BY <1>2 DEF WrittenOnce
<1> QED BY <1>1, <1>3, Zenon

LEMMA StagingInit == Init => StagingInv
<1> SUFFICES ASSUME Init PROVE StagingInv
  OBVIOUS
<1>1. MessagesType
  BY CopiesAreNat DEF Init, MessagesType
<1>2. StagingType
  BY <1>1 DEF Init, StagingType, Empty, Staged
<1>3. \A s \in Servers, b \in Batches : output[s][b] = {}
  BY DEF Init, Empty
<1> QED BY <1>2, <1>3 DEF Init, StagingInv, AtWork, Numbered, KeysWritten, WrittenMatched, WrittenOnce,
             Moved, Committed, OutputSubmitted, NoKeyTwice

LEMMA StagingNext == StagingInv /\ [Next]_vars => StagingInv'
<1> SUFFICES ASSUME StagingInv, [Next]_vars PROVE StagingInv'
  OBVIOUS
<1> USE DEF StagingInv
<1>1. ASSUME NEW p \in Pings, Arrive(p) PROVE StagingInv'
  <2>1. MessagesType'
    BY <1>1, CopiesAreNat DEF Arrive, StagingType, MessagesType
  <2>2. ASSUME NEW b PROVE Submitted(b) \subseteq Submitted(b)'
    BY <1>1, CopiesAreNat, EntriesAreOfPings DEF Arrive, StagingType, MessagesType, Submitted
  <2>3. OutputSubmitted'
    BY <1>1, <2>2 DEF Arrive, OutputSubmitted
  <2> QED BY <1>1, <2>1, <2>3 DEF Arrive, StagingType, AtWork, Numbered, KeysWritten, WrittenMatched,
               WrittenOnce, Moved, Committed, NoKeyTwice
<1>2. CASE Run
  <2> USE <1>2 DEF Run
  <2>1. StagingType'
    BY DEF StagingType, MessagesType, Empty, Staged
  <2>2. OutputSubmitted' /\ NoKeyTwice'
    BY DEF OutputSubmitted, Submitted, NoKeyTwice
  <2>3. /\ Numbered' /\ Moved' /\ Committed'
        /\ AtWork' => left' = Tasks
        /\ \A s \in Servers, b \in Batches : written'[s][b] = {}
    BY DEF AtWork, Numbered, Moved, Committed, Empty, Staged, Directories
  <2>4. ASSUME AtWork', NEW b \in Batches, NEW k \in 1..Cardinality(Submitted(b)')
        PROVE  task'[<<b, k>>] \in Tasks
    <3>1. MessagesType /\ id' \in Numberings(Rows(messages)) /\ task' \in Ranges(Rows(messages))
      BY <2>3, <2>4 DEF StagingType, Numbered
    <3>2. Submitted(b)' = Submitted(b)
      BY DEF Submitted
    <3> QED BY <2>4, <3>1, <3>2, RangeFacts
  <2>5. KeysWritten'
    BY <2>3, <2>4 DEF KeysWritten, KeysOf
  <2>6. WrittenMatched'
    BY <2>3 DEF WrittenMatched
  <2>7. WrittenOnce'
    <3>1. ASSUME AtWork', NEW b \in Batches, NEW r \in InBatch(Rows(messages), b)
          PROVE  task'[<<b, id'[r]>>] \in Tasks
      <4>1. MessagesType /\ id' \in Numberings(Rows(messages)) /\ Submitted(b)' = Submitted(b)
        BY <2>3, <3>1 DEF StagingType, Numbered, Submitted
      <4>2. {id'[q] : q \in InBatch(Rows(messages), b)} = 1..Cardinality(Submitted(b))
        BY <4>1, NumberingFacts
      <4> QED BY <2>4, <3>1, <4>1, <4>2
    <3> QED BY <2>3, <3>1 DEF WrittenOnce
  <2> QED BY <2>1, <2>2, <2>3, <2>5, <2>6, <2>7
<1>3. CASE Recompute
  <2> USE <1>3 DEF Recompute
  <2>1. StagingType' /\ OutputSubmitted' /\ NoKeyTwice' /\ Moved' /\ Committed' /\ AtWork
    BY DEF StagingType, MessagesType, OutputSubmitted, Submitted, NoKeyTwice, Moved, Committed, AtWork, Directories
  <2>2. Numbered' /\ KeysWritten' /\ WrittenMatched' /\ WrittenOnce'
    BY <2>1 DEF AtWork, Numbered, KeysWritten, WrittenMatched, WrittenOnce, Submitted
  <2> QED BY <2>1, <2>2
<1>4. CASE Crash
  BY <1>4 DEF Crash, StagingType, MessagesType, AtWork, Numbered, KeysWritten, WrittenMatched, WrittenOnce,
       Moved, Committed, OutputSubmitted, Submitted, NoKeyTwice
<1>5. ASSUME NEW t \in Tasks, WriteTask(t) PROVE StagingInv'
  <2> DEFINE new(s, b) == LinesOf(t, s, b)
  <2>1. /\ AtWork /\ t \in left /\ left' = left \ {t} /\ status = "running" /\ status' = status
        /\ \A s \in Servers, b \in Batches : written'[s][b] = written[s][b] \cup new(s, b)
        /\ UNCHANGED <<messages, id, task, output, commit, recomputed>>
    BY <1>5 DEF WriteTask, AtWork
  <2>2. ASSUME NEW s \in Servers, NEW b \in Batches
        PROVE  /\ new(s, b) \subseteq Lines
               /\ KeysOf(new(s, b)) = {k \in 1..Cardinality(Submitted(b)) : task[<<b, k>>] = t}
               /\ new(s, b) = {[key |-> id[r], sub |-> r[1]] :
                    r \in {q \in InBatch(Rows(messages), b) : task[<<b, id[q]>>] = t}}
               /\ \A u : \A x \in new(s, b), y \in new(u, b) : x.key = y.key => x.sub = y.sub
    BY <2>1, LinesOfTask
  <2> HIDE DEF new
  <2>3. StagingType'
    <3>1. written' = [s \in Servers |-> [b \in Batches |-> written[s][b] \cup new(s, b)]]
      BY <1>5 DEF WriteTask, new
    <3>2. written' \in [Servers -> [Batches -> SUBSET Lines]]
      BY <2>2, <3>1 DEF StagingType
    <3> QED BY <2>1, <3>2 DEF StagingType, MessagesType
  <2>4. Numbered' /\ Moved' /\ Committed' /\ OutputSubmitted' /\ NoKeyTwice' /\ AtWork'
    BY <2>1 DEF AtWork, Numbered, Moved, Committed, OutputSubmitted, Submitted, NoKeyTwice
  <2>5. ASSUME NEW s \in Servers, NEW b \in Batches
        PROVE  KeysOf(written[s][b]) = {k \in 1..Cardinality(Submitted(b)) : task[<<b, k>>] \notin left}
    BY <2>1 DEF KeysWritten
  <2>6. KeysWritten'
    <3>1. ASSUME NEW s \in Servers, NEW b \in Batches
          PROVE  KeysOf(written'[s][b])
                   = {k \in 1..Cardinality(Submitted(b)) : task[<<b, k>>] \notin left \ {t}}
      <4>1. KeysOf(written'[s][b]) = KeysOf(written[s][b]) \cup KeysOf(new(s, b))
        BY <2>1 DEF KeysOf
      <4> QED BY <2>1, <2>2, <2>5, <4>1
    <3>2. \A b : Submitted(b)' = Submitted(b)
      BY <2>1 DEF Submitted
    <3>3. \A s \in Servers, b \in Batches : KeysOf(written[s][b])' = KeysOf(written'[s][b])
      BY DEF KeysOf
    <3> QED BY <2>1, <3>1, <3>2, <3>3 DEF KeysWritten
  <2>7. WrittenMatched'
    <3> SUFFICES ASSUME NEW b \in Batches, NEW s \in Servers, NEW u \in Servers,
                        NEW x \in written[s][b] \cup new(s, b), NEW y \in written[u][b] \cup new(u, b),
                        x.key = y.key
                 PROVE  x.sub = y.sub
      BY <2>1 DEF WrittenMatched
    <3>1. ASSUME NEW z, NEW v \in Servers
          PROVE  /\ z \in written[v][b] => task[<<b, z.key>>] \notin left
                 /\ z \in new(v, b) => task[<<b, z.key>>] = t
      <4>1. ASSUME z \in written[v][b] PROVE z.key \in KeysOf(written[v][b])
        BY <4>1 DEF KeysOf
      <4>2. ASSUME z \in new(v, b) PROVE z.key \in KeysOf(new(v, b))
        BY <4>2 DEF KeysOf
      <4> QED BY <2>2, <2>5, <4>1, <4>2
    <3>2. CASE x \in written[s][b] /\ y \in written[u][b]
      BY <2>1, <3>2 DEF WrittenMatched
    <3>3. CASE x \in new(s, b) /\ y \in new(u, b)
      BY <2>2, <3>3
    <3>4. CASE x \in written[s][b] /\ y \in new(u, b)
      <4>1. task[<<b, x.key>>] \notin left /\ task[<<b, y.key>>] = t
        BY <3>1, <3>4
      <4> QED BY <2>1, <4>1
    <3>5. CASE x \in new(s, b) /\ y \in written[u][b]
      <4>1. task[<<b, x.key>>] = t /\ task[<<b, y.key>>] \notin left
        BY <3>1, <3>5
      <4> QED BY <2>1, <4>1
    <3> QED BY <3>2, <3>3, <3>4, <3>5
  <2>8. WrittenOnce'
    <3> SUFFICES ASSUME ~recomputed, NEW s \in Servers, NEW b \in Batches
                 PROVE  written'[s][b]
                          = {[key |-> id'[r], sub |-> r[1]] :
                               r \in {q \in InBatch(Rows(messages)', b) : task'[<<b, id'[q]>>] \notin left'}}
      BY <2>1 DEF WrittenOnce
    <3> SUFFICES written[s][b] \cup new(s, b)
                   = {[key |-> id[r], sub |-> r[1]] :
                        r \in {q \in InBatch(Rows(messages), b) : task[<<b, id[q]>>] \notin left \ {t}}}
      BY <2>1
    <3>1. written[s][b] = {[key |-> id[r], sub |-> r[1]] :
                             r \in {q \in InBatch(Rows(messages), b) : task[<<b, id[q]>>] \notin left}}
      BY <2>1 DEF WrittenOnce
    <3> DEFINE Line(r) == [key |-> id[r], sub |-> r[1]]
               rows == InBatch(Rows(messages), b)
    <3>2. new(s, b) = {Line(r) : r \in {q \in rows : task[<<b, id[q]>>] = t}}
      BY <2>2
    <3> HIDE DEF Line, rows
    <3>4. {Line(r) : r \in {q \in rows : task[<<b, id[q]>>] \notin left}}
            \cup {Line(r) : r \in {q \in rows : task[<<b, id[q]>>] = t}}
            = {Line(r) : r \in {q \in rows : task[<<b, id[q]>>] \notin left \ {t}}}
      BY <2>1
    <3> QED BY <3>1, <3>2, <3>4 DEF Line, rows
  <2> QED BY <2>3, <2>4, <2>6, <2>7, <2>8
<1>6. ASSUME NEW s \in Servers, NEW b \in Batches, Delete(s, b) PROVE StagingInv'
  <2>1. PICK rest \in SUBSET output[s][b] :
          /\ output' = [output EXCEPT ![s][b] = rest]
          /\ commit' = [commit EXCEPT ![<<s, b>>] = IF Gone(rest) THEN "filling" ELSE "deleting"]
    BY <1>6 DEF Delete
  <2>2. /\ status = "running" /\ left = {}
        /\ UNCHANGED <<messages, id, task, left, written, status, recomputed>>
    BY <1>6 DEF Delete, AllWritten
  <2>3. /\ <<s, b>> \in Directories
        /\ \A v \in Servers, c \in Batches :
             /\ output'[v][c] = IF <<v, c>> = <<s, b>> THEN rest ELSE output[v][c]
             /\ commit'[<<v, c>>] = IF <<v, c>> = <<s, b>>
                                    THEN IF Gone(rest) THEN "filling" ELSE "deleting"
                                    ELSE commit[<<v, c>>]
    BY <2>1 DEF StagingType, Directories
  <2>4. StagingType'
    BY <2>1, <2>2 DEF StagingType, MessagesType
  <2>5. Numbered' /\ KeysWritten' /\ WrittenMatched' /\ WrittenOnce' /\ Committed'
    BY <2>2 DEF AtWork, Numbered, KeysWritten, WrittenMatched, WrittenOnce, Committed, Submitted
  <2>6. Moved'
    <3> SUFFICES ASSUME NEW v \in Servers, NEW c \in Batches
                 PROVE  /\ commit'[<<v, c>>] # "staged" => left = {}
                        /\ commit'[<<v, c>>] = "filling" => output'[v][c] \subseteq written[v][c]
                        /\ commit'[<<v, c>>] = "replaced" => output'[v][c] = written[v][c]
      BY <2>2 DEF Moved
    <3>1. CASE <<v, c>> = <<s, b>>
      BY <2>2, <2>3, <3>1 DEF Gone
    <3>2. CASE <<v, c>> # <<s, b>>
      BY <2>2, <2>3, <3>2 DEF Moved
    <3> QED BY <3>1, <3>2
  <2>7. OutputSubmitted'
    <3>1. \A c : Submitted(c)' = Submitted(c)
      BY <2>2 DEF Submitted
    <3> QED BY <2>3, <3>1 DEF OutputSubmitted
  <2>8. NoKeyTwice'
    BY <2>3 DEF NoKeyTwice
  <2> QED BY <2>4, <2>5, <2>6, <2>7, <2>8
<1>9. ASSUME NEW s \in Servers, NEW b \in Batches, NEW t \in Tasks, Move(s, b, t) PROVE StagingInv'
  <2> DEFINE grown == output[s][b] \cup File(s, b, t)
  <2>1. /\ status = "running" /\ commit[<<s, b>>] = "filling"
        /\ output' = [output EXCEPT ![s][b] = grown]
        /\ ~(File(s, b, t) \subseteq output[s][b])
    BY <1>9 DEF Move
  <2>0. status = "running" /\ UNCHANGED <<messages, id, task, left, written, status, recomputed>>
    BY <1>9 DEF Move
  <2>2. /\ <<s, b>> \in Directories
        /\ \A v \in Servers, c \in Batches :
             output'[v][c] = IF <<v, c>> = <<s, b>> THEN grown ELSE output[v][c]
    BY <2>1 DEF StagingType, Directories
  <2>3. commit' = IF written[s][b] \subseteq grown THEN [commit EXCEPT ![<<s, b>>] = "replaced"] ELSE commit
    BY <1>9, <2>2 DEF Move
  <2>4. left = {} /\ grown \subseteq written[s][b] /\ written[s][b] # {}
    BY <2>1 DEF Moved, File
  <2> HIDE DEF grown
  <2>5. StagingType'
    <3>1. grown \in SUBSET Lines
      BY <2>4 DEF StagingType
    <3>2. output' \in [Servers -> [Batches -> SUBSET Lines]]
      BY <2>1, <3>1 DEF StagingType
    <3>3. commit' \in [Directories -> {"staged", "deleting", "filling", "replaced"}]
      BY <2>3 DEF StagingType
    <3> QED BY <2>0, <3>2, <3>3 DEF StagingType, MessagesType
  <2>6. Numbered' /\ KeysWritten' /\ WrittenMatched' /\ WrittenOnce' /\ Committed'
    <3>1. Numbered' /\ WrittenMatched' /\ Committed'
      BY <2>0 DEF AtWork, Numbered, WrittenMatched, Committed
    <3>2. KeysWritten'
      BY <2>0 DEF AtWork, KeysWritten, Submitted
    <3>3. WrittenOnce'
      BY <2>0, WrittenOnceStays
    <3> QED BY <3>1, <3>2, <3>3
  <2>7. Moved'
    <3> SUFFICES ASSUME NEW v \in Servers, NEW c \in Batches
                 PROVE  /\ commit'[<<v, c>>] # "staged" => left = {}
                        /\ commit'[<<v, c>>] = "filling" => output'[v][c] \subseteq written[v][c]
                        /\ commit'[<<v, c>>] = "replaced" => output'[v][c] = written[v][c]
      BY <2>0 DEF Moved
    <3>1. CASE <<v, c>> = <<s, b>>
      <4>1. output'[v][c] = grown /\ written[v][c] = written[s][b]
        BY <2>2, <3>1
      <4>2. commit'[<<v, c>>] = IF written[s][b] \subseteq grown THEN "replaced" ELSE "filling"
        BY <2>1, <2>2, <2>3, <3>1 DEF StagingType
      <4> QED BY <2>4, <4>1, <4>2
    <3>2. CASE <<v, c>> # <<s, b>>
      <4>1. output'[v][c] = output[v][c] /\ commit'[<<v, c>>] = commit[<<v, c>>]
        BY <2>2, <2>3, <3>2 DEF StagingType, Directories
      <4> QED BY <2>1, <4>1 DEF Moved
    <3> QED BY <3>1, <3>2
  <2>8. Submitted(b) # {}
    <3>1. PICK x : x \in written[s][b]
      BY <2>4
    <3>2. x.key \in KeysOf(written[s][b])
      BY <3>1 DEF KeysOf
    <3>3. 1..Cardinality(Submitted(b)) # {}
      BY <2>1, <3>2 DEF KeysWritten, AtWork
    <3>4. Submitted(b) # {}
      BY <3>3, SubmittedCounted, RowsOfBatch DEF StagingType
    <3> QED BY <3>4
  <2>9. OutputSubmitted'
    <3>1. \A c : Submitted(c)' = Submitted(c)
      BY <2>0 DEF Submitted
    <3> QED BY <2>2, <2>8, <3>1 DEF OutputSubmitted
  <2>10. NoKeyTwice'
    <3>1. ASSUME NEW x \in written[s][b], NEW y \in written[s][b], x.key = y.key PROVE x = y
      <4>1. x.sub = y.sub
        BY <2>1, <3>1 DEF WrittenMatched, AtWork
      <4>2. x \in Lines /\ y \in Lines
        BY DEF StagingType
      <4> QED BY <3>1, <4>1, <4>2 DEF Lines
    <3>2. ASSUME NEW v \in Servers, NEW c \in Batches, NEW x \in output'[v][c], NEW y \in output'[v][c],
                 x.key = y.key
          PROVE  x = y
      <4>1. CASE <<v, c>> = <<s, b>>
        <5>1. x \in written[s][b] /\ y \in written[s][b]
          BY <2>2, <2>4, <3>2, <4>1
        <5> QED BY <3>1, <3>2, <5>1
      <4>2. CASE <<v, c>> # <<s, b>>
        BY <2>2, <3>2, <4>2 DEF NoKeyTwice
      <4> QED BY <4>1, <4>2
    <3> QED BY <3>2 DEF NoKeyTwice
  <2> QED BY <2>5, <2>6, <2>7, <2>9, <2>10
<1>7. CASE Finish
  <2> USE <1>7 DEF Finish, AllWritten
  <2>1. StagingType' /\ Numbered' /\ KeysWritten' /\ WrittenMatched' /\ WrittenOnce' /\ Moved' /\ OutputSubmitted'
        /\ NoKeyTwice'
    BY DEF StagingType, MessagesType, AtWork, Numbered, KeysWritten, WrittenMatched, WrittenOnce,
         Moved, OutputSubmitted, Submitted, NoKeyTwice
  <2>2. ASSUME NEW s \in Servers, NEW b \in Batches PROVE output[s][b] = written[s][b]
    <3>1. CASE commit[<<s, b>>] = "replaced"
      BY <3>1 DEF Moved
    <3>2. CASE commit[<<s, b>>] # "replaced"
      <4>1. written[s][b] = {}
        BY <3>2 DEF InPlace, Directories
      <4>2. 1..Cardinality(Submitted(b)) = {}
        BY <4>1 DEF KeysWritten, AtWork, KeysOf
      <4>3. Submitted(b) = {}
        BY <4>2, SubmittedCounted DEF StagingType
      <4> QED BY <4>1, <4>3 DEF OutputSubmitted
    <3> QED BY <3>1, <3>2
  <2>3. output = written
    BY <2>2 DEF StagingType
  <2>4. Committed'
    BY <2>3 DEF Committed
  <2> QED BY <2>1, <2>4
<1>8. CASE UNCHANGED vars
  <2> USE <1>8 DEF vars
  <2>1. StagingType' /\ Moved' /\ Committed' /\ NoKeyTwice'
    <3>1. StagingType'
      BY DEF StagingType, MessagesType
    <3>2. Moved'
      BY DEF Moved
    <3> QED BY <3>1, <3>2 DEF Committed, NoKeyTwice
  <2>2. Numbered' /\ WrittenMatched'
    BY DEF AtWork, Numbered, WrittenMatched
  <2>4. WrittenOnce'
    BY WrittenOnceStays
  <2>3. KeysWritten' /\ OutputSubmitted'
    BY DEF AtWork, KeysWritten, OutputSubmitted, Submitted
  <2> QED BY <2>1, <2>2, <2>3, <2>4
<1> QED BY <1>1, <1>2, <1>3, <1>4, <1>5, <1>6, <1>7, <1>8, <1>9 DEF Next, Work

-----------------------------------------------------------------------------
(* Staging: the properties. *)

LEMMA MatchedFromInv == StagingInv => Matched
<1> SUFFICES ASSUME StagingInv, status = "done", NEW b \in Batches, NEW s \in Servers, NEW t \in Servers
             PROVE  \A x \in output[s][b], y \in output[t][b] : x.key = y.key => x.sub = y.sub
  BY DEF Matched
<1> QED BY DEF StagingInv, AtWork, WrittenMatched, Committed

LEMMA KeysCompleteFromInv == StagingInv => KeysComplete
<1> SUFFICES ASSUME StagingInv, status = "done", NEW s \in Servers, NEW b \in Batches
             PROVE  KeysOf(output[s][b]) = 1..Cardinality(Submitted(b))
  BY DEF KeysComplete
<1> QED BY DEF StagingInv, AtWork, KeysWritten, Committed

(* A line for each submission and no other, all of them different.         *)
LEMMA EachOnceFromInv == StagingInv => EachOnce
<1> SUFFICES ASSUME StagingInv, status = "done", ~recomputed, NEW s \in Servers, NEW b \in Batches
             PROVE  /\ SubsOf(output[s][b]) = Submitted(b)
                    /\ Cardinality(output[s][b]) = Cardinality(Submitted(b))
  BY DEF EachOnce
<1> DEFINE rows == InBatch(Rows(messages), b)
           Line(u) == [key |-> id[<<u, 1>>], sub |-> u]
           line == [u \in Submitted(b) |-> Line(u)]
<1>1. MessagesType /\ rows = Submitted(b) \X {1} /\ IsFiniteSet(Submitted(b))
  BY RowsOfBatch DEF StagingInv, StagingType
<1>2. output[s][b] = {[key |-> id[r], sub |-> r[1]] : r \in rows}
  BY DEF StagingInv, AtWork, WrittenOnce, Committed
<1>3. output[s][b] = {Line(u) : u \in Submitted(b)}
  <2>1. ASSUME NEW x \in output[s][b] PROVE \E u \in Submitted(b) : x = Line(u)
    <3>1. PICK r \in rows : x = [key |-> id[r], sub |-> r[1]]
      BY <1>2
    <3>2. r[1] \in Submitted(b) /\ r = <<r[1], 1>>
      BY <1>1
    <3> QED BY <3>1, <3>2
  <2>2. ASSUME NEW u \in Submitted(b) PROVE Line(u) \in output[s][b]
    <3>1. <<u, 1>> \in rows /\ <<u, 1>>[1] = u
      BY <1>1
    <3> QED BY <1>2, <3>1
  <2> QED BY <2>1, <2>2
<1>4. \A u : Line(u).sub = u
  OBVIOUS
<1> HIDE DEF Line, rows
<1>5. SubsOf(output[s][b]) = Submitted(b)
  BY <1>3, <1>4 DEF SubsOf
<1>6. line \in Bijection(Submitted(b), output[s][b])
  <2>1. line \in [Submitted(b) -> output[s][b]]
    BY <1>3
  <2>2. \A u, v \in Submitted(b) : line[u] = line[v] => u = v
    BY <1>4
  <2>3. \A x \in output[s][b] : \E u \in Submitted(b) : line[u] = x
    BY <1>3
  <2> QED BY <2>1, <2>2, <2>3 DEF Bijection, Injection, Surjection, IsInjective
<1>7. Cardinality(output[s][b]) = Cardinality(Submitted(b))
  BY <1>1, <1>6, FS_Bijection DEF ExistsBijection
<1> QED BY <1>5, <1>7

(* A behaviour of both programs is one of staging, with steps of the other *)
(* program that staging does not see.                                      *)
LEMMA OriginIsStaging == OriginSpec => Spec
<1>1. OriginInit => Init
  BY DEF OriginInit
<1>2. [OriginNext]_originVars => [Next]_vars
  BY DEF OriginNext, originVars, vars
<1> QED BY <1>1, <1>2, PTL DEF OriginSpec, Spec

(* The inductive invariant of staging: what rows are numbered, written and *)
(* moved, and what a directory holds in between (staging.py 100-152).      *)
THEOREM StagingInvariant == OriginSpec => []StagingInv
BY StagingInit, StagingNext, OriginIsStaging, PTL DEF Spec

(* Under one key the servers hold shares of one submission, whatever was   *)
(* computed twice, and whatever earlier runs have left (staging.py         *)
(* 119-123).                                                               *)
THEOREM StagedSharesMatch == OriginSpec => []Matched
BY StagingInvariant, MatchedFromInv, PTL

(* Both servers get the keys 1, 2, ... as far as there are submissions,    *)
(* even if rows were lost and computed again (staging.py 122-135).         *)
THEOREM StagedKeysAreComplete == OriginSpec => []KeysComplete
BY StagingInvariant, KeysCompleteFromInv, PTL

(* Each submission is there once if no row was computed twice, however     *)
(* often its ping was delivered (staging.py 127-136).                      *)
THEOREM StagedOnce == OriginSpec => []EachOnce
BY StagingInvariant, EachOnceFromInv, PTL

(* No directory has two lines under one key, even between a crash in the   *)
(* middle of the commit and the end of the run that follows (staging.py    *)
(* 130-135, 149-152, 185).                                                 *)
THEOREM KeysAreUnique == OriginSpec => []NoKeyTwice
<1>1. StagingInv => NoKeyTwice
  BY DEF StagingInv
<1> QED BY <1>1, StagingInvariant, PTL

-----------------------------------------------------------------------------
(* Indexing: the lists. *)

Client(lines) == Indexing!ClientList(lines)
Entries(lines) == {Client(lines)[k] : k \in Nat}

(* The file of origins.py is the list that clients of its day have; its    *)
(* last entry, and only a last entry, stands for origins not in the list.  *)
LEMMA ListFacts ==
  ASSUME NEW lines \in Lists
  PROVE  /\ Indexing!Listed(lines) = Client(lines)
         /\ Client(lines) \in Seq(Entries(lines))
         /\ Len(Client(lines)) \in Nat \ {0}
         /\ Client(lines)[Len(Client(lines))] = Unknown
<1> DEFINE S == Indexing!Kept(lines)
           c == Cardinality(S)
           at == Indexing!At(lines, S)
           X == {at[k] : k \in 1..c} \cup {Unknown}
<1>1. S = {l \in DOMAIN lines : lines[l] # Comment}
  BY DEF Indexing!Kept, Indexing!Keep
<1>2. c \in Nat
  <2>1. lines \in Seq(Nat \cup {Comment})
    BY ListsOfLines
  <2> DEFINE len == Len(lines)
  <2>2. len \in Nat /\ S \subseteq 1..len
    BY <1>1, <2>1
  <2> HIDE DEF S, len
  <2>3. IsFiniteSet(1..len)
    BY <2>2, FS_Interval
  <2>4. IsFiniteSet(S)
    BY <2>2, <2>3, FS_Subset
  <2> QED BY <2>4, FS_CardinalityType DEF c
<1>3. DOMAIN at = 1..c /\ at = [k \in 1..c |-> at[k]]
  BY DEF Indexing!At, Indexing!Cardinality, Cardinality
<1>4. Client(lines) = Append(at, Unknown) /\ Indexing!Listed(lines) = Append(at, Unknown)
  BY <1>1 DEF Client, Indexing!ClientList, Indexing!Listed
<1> HIDE DEF at, c, S
<1>5. at \in Seq(X)
  <2>1. at \in [1..c -> X]
    BY <1>3
  <2> HIDE DEF X
  <2> QED BY <1>2, <2>1
<1>6. Len(at) = c
  BY <1>2, <1>3, <1>5
<1>7. Append(at, Unknown) \in Seq(X) /\ Len(Append(at, Unknown)) = c + 1 /\ Append(at, Unknown)[c + 1] = Unknown
  <2>1. Unknown \in X
    OBVIOUS
  <2> HIDE DEF X
  <2> QED BY <1>2, <1>5, <1>6, <2>1
<1> HIDE DEF X
<1>8. Client(lines) \in Seq(Entries(lines))
  <2> DEFINE list == Client(lines)
             len == Len(list)
  <2>1. list \in Seq(X)
    BY <1>4, <1>7
  <2>2. len \in Nat /\ list \in [1..len -> X]
    BY <2>1
  <2>3. \A k \in 1..len : list[k] \in Entries(lines)
    BY <2>2 DEF Entries
  <2> HIDE DEF list, len
  <2>4. list \in [1..len -> Entries(lines)]
    BY <2>2, <2>3
  <2>5. list \in Seq(Entries(lines))
    BY <2>2, <2>4
  <2> QED BY <2>5 DEF list
<1> QED BY <1>2, <1>4, <1>7, <1>8

-----------------------------------------------------------------------------
(* Indexing: the inductive invariant. *)

Configured(c) ==
  DOMAIN c \subseteq Indexing!Parts /\ \A p \in DOMAIN c : c[p] \in Nat \ {0}

\* The file of origins is the list of the lines it was made of.
FetchedList ==
  origins # None => fetched \in Lists /\ origins = Client(fetched)

\* An aggregate counts the positions of one part of one list.
Aggregates ==
  [part : Indexing!Parts, lines : Lists, cut : Cuts,
   payload : UNION {Seq(Entries(lines)) : lines \in Lists}]

CountsPart(a) ==
  LET off == Indexing!Offset(a.part, a.cut) IN
  /\ off + Len(a.payload) <= Len(Client(a.lines))
  /\ \A j \in 1..Len(a.payload) : a.payload[j] = Client(a.lines)[off + j]

Counted ==
  aggregates \in Seq(Aggregates) /\ \A k \in 1..Len(aggregates) : CountsPart(aggregates[k])

\* What the last job to end has read is still there, and did not raise.
Start(p) == IF p = 0 THEN 0 ELSE read.config[0]
Sound(p) == p \in DOMAIN read.config => p = 0 \/ (p = 1 /\ 0 \in DOMAIN read.config)

ReadBefore ==
  /\ read.aggregates \in 0..Len(aggregates)
  /\ Configured(read.config)

\* Its output joins the list with each aggregate by position, from the start of
\* the part to where the shorter of the two ends.
RowAt(k, j) ==
  LET start == Start(aggregates[k].part) IN
  [aggregate |-> k, index |-> start + j - 1, origin |-> Client(read.lines)[start + j],
   counted |-> aggregates[k].payload[j]]

Zipped(k) ==
  {RowAt(k, j) : j \in {i \in 1..Len(aggregates[k].payload) :
     /\ aggregates[k].part \in DOMAIN read.config
     /\ Start(aggregates[k].part) + i <= Len(Client(read.lines))}}

Joined ==
  indexed # {} \/ indexing = "done" =>
    /\ read.lines \in Lists
    /\ \A k \in 1..read.aggregates : Sound(aggregates[k].part)
    /\ indexed = UNION {Zipped(k) : k \in 1..read.aggregates}

IndexInv == Configured(config) /\ FetchedList /\ Counted /\ ReadBefore /\ Joined

(* Types of an aggregate. *)
LEMMA AggregateFacts ==
  ASSUME Counted, NEW k \in 1..Len(aggregates)
  PROVE  /\ aggregates[k] \in Aggregates /\ CountsPart(aggregates[k])
         /\ aggregates[k].part \in Indexing!Parts
         /\ aggregates[k].lines \in Lists
         /\ aggregates[k].cut \in Nat \ {0}
         /\ Len(aggregates[k].payload) \in Nat
         /\ DOMAIN aggregates[k].payload = 1..Len(aggregates[k].payload)
<1>1. aggregates[k] \in Aggregates /\ CountsPart(aggregates[k])
  BY DEF Counted
<1>2. \E x \in Lists : aggregates[k].payload \in Seq(Entries(x))
  BY <1>1 DEF Aggregates
<1>3. ASSUME NEW x \in Lists, aggregates[k].payload \in Seq(Entries(x))
      PROVE  /\ Len(aggregates[k].payload) \in Nat
             /\ DOMAIN aggregates[k].payload = 1..Len(aggregates[k].payload)
  BY <1>3
<1>4. /\ aggregates[k].part \in Indexing!Parts /\ aggregates[k].lines \in Lists
      /\ aggregates[k].cut \in Nat \ {0}
  BY <1>1, CutsArePositive DEF Aggregates
<1> QED BY <1>1, <1>2, <1>3, <1>4

LEMMA IndexInit == Indexing!Init => IndexInv
<1> SUFFICES ASSUME Indexing!Init PROVE IndexInv
  OBVIOUS
<1>1. /\ origins = None /\ DOMAIN config = {} /\ aggregates = <<>> /\ Len(aggregates) = 0
      /\ indexed = {} /\ indexing = "idle" /\ read.aggregates = 0 /\ DOMAIN read.config = {}
  BY DEF Indexing!Init
<1>2. Counted
  BY <1>1 DEF Counted
<1> QED BY <1>1, <1>2 DEF IndexInv, Configured, FetchedList, ReadBefore, Joined

(* A step that leaves the output and what it was made of.                  *)
LEMMA JoinedStays ==
  ASSUME Joined, ReadBefore, Counted, UNCHANGED <<indexed, read>>,
         indexing' = "done" => indexing = "done",
         \A k \in 1..Len(aggregates) : aggregates'[k] = aggregates[k]
  PROVE  Joined'
<1>0. indexed' = indexed /\ read' = read
  OBVIOUS
<1>1. ASSUME NEW k \in 1..read.aggregates
      PROVE  aggregates'[k] = aggregates[k]
  <2> DEFINE m == read.aggregates
             len == Len(aggregates)
  <2>1. len \in Nat /\ m \in 0..len /\ k \in 1..m
    BY DEF ReadBefore, Counted
  <2>2. \A i \in 1..len : aggregates'[i] = aggregates[i]
    OBVIOUS
  <2> HIDE DEF m, len
  <2> QED BY <2>1, <2>2
<1>2. ASSUME NEW k \in 1..read.aggregates PROVE Zipped(k)' = Zipped(k)
  BY <1>0, <1>1 DEF Zipped, RowAt, Start
<1>3. ASSUME NEW k \in 1..read.aggregates
      PROVE  Sound(aggregates[k].part)' <=> Sound(aggregates[k].part)
  BY <1>0, <1>1 DEF Sound
<1>4. UNION {Zipped(k)' : k \in 1..read.aggregates} = UNION {Zipped(k) : k \in 1..read.aggregates}
  BY <1>2
<1> QED BY <1>0, <1>3, <1>4 DEF Joined

LEMMA IndexStays ==
  ASSUME IndexInv, UNCHANGED indexingVars
  PROVE  IndexInv'
<1>1. UNCHANGED <<origins, fetched, config, aggregates, indexed, read, indexing>>
  BY DEF indexingVars
<1>2. Joined'
  BY <1>1, JoinedStays DEF IndexInv
<1> QED BY <1>1, <1>2 DEF IndexInv, Configured, FetchedList, Counted, CountsPart, ReadBefore

LEMMA FetchOriginsStep ==
  ASSUME IndexInv, Indexing!FetchOrigins
  PROVE  IndexInv'
<1>1. /\ fetched' \in Lists /\ origins' = Indexing!Listed(fetched')
      /\ UNCHANGED <<config, aggregates, indexed, read, indexing>>
  BY DEF Indexing!FetchOrigins
<1>2. FetchedList'
  BY <1>1, ListFacts DEF FetchedList
<1>3. Joined'
  BY <1>1, JoinedStays DEF IndexInv
<1> QED BY <1>1, <1>2, <1>3 DEF IndexInv, Configured, Counted, CountsPart, ReadBefore

LEMMA ConfigureStep ==
  ASSUME IndexInv, Indexing!Configure
  PROVE  IndexInv'
<1>1. config' \in Configs /\ UNCHANGED <<origins, fetched, aggregates, indexed, read, indexing>>
  BY DEF Indexing!Configure
<1>2. Configured(config)'
  BY <1>1, ConfigsOfParts DEF Configured
<1>3. Joined'
  BY <1>1, JoinedStays DEF IndexInv
<1> QED BY <1>1, <1>2, <1>3 DEF IndexInv, FetchedList, Counted, CountsPart, ReadBefore

LEMMA FailIndexStep ==
  ASSUME IndexInv, Indexing!FailIndex \/ Indexing!RejectIndex
  PROVE  IndexInv'
<1>1. /\ UNCHANGED <<origins, fetched, config, aggregates, read>>
      /\ indexing' = "failed" /\ indexed' \in {{}, indexed}
  BY DEF Indexing!FailIndex, Indexing!RejectIndex
<1>2. Joined'
  <2>1. CASE indexed' = {}
    BY <1>1, <2>1 DEF Joined
  <2>2. CASE indexed' = indexed
    BY <1>1, <2>2, JoinedStays DEF IndexInv
  <2> QED BY <1>1, <2>1, <2>2
<1> QED BY <1>1, <1>2 DEF IndexInv, Configured, FetchedList, Counted, CountsPart, ReadBefore

LEMMA PublishStep ==
  ASSUME IndexInv, NEW p \in Indexing!Parts, Indexing!Publish(p)
  PROVE  IndexInv'
<1>1. PICK lines \in Lists, cut \in Cuts :
        /\ config[p] = Indexing!SizeOf(p, cut, Len(Client(lines)))
        /\ aggregates' = Append(aggregates,
             [part |-> p, lines |-> lines, cut |-> cut,
              payload |-> SubSeq(Client(lines), Indexing!Offset(p, cut) + 1,
                                 Indexing!Offset(p, cut) + config[p])])
  BY DEF Indexing!Publish, Client
<1> DEFINE list == Client(lines)
           len == Len(list)
           off == Indexing!Offset(p, cut)
           z == config[p]
           payload == SubSeq(list, off + 1, off + z)
           a == [part |-> p, lines |-> lines, cut |-> cut, payload |-> payload]
<1>2. UNCHANGED <<origins, fetched, config, indexed, read, indexing>> /\ p \in DOMAIN config
  BY DEF Indexing!Publish
<1>3. z \in Nat \ {0} /\ cut \in Nat \ {0}
  BY <1>2, CutsArePositive DEF IndexInv, Configured
<1>4. list \in Seq(Entries(lines)) /\ len \in Nat
  BY ListFacts
<1>5. off \in Nat
  BY <1>3, OddIsNoPart DEF Indexing!Offset, Indexing!Parts
<1>6. z <= len - off
  <2>1. z = IF len - off <= cut THEN len - off ELSE cut
    BY <1>1 DEF Indexing!SizeOf
  <2> HIDE DEF z, len, off
  <2> QED BY <1>3, <1>4, <1>5, <2>1
<1> HIDE DEF list, len, off, z
<1>7. off + z <= len
  BY <1>3, <1>4, <1>5, <1>6
<1>8. /\ payload \in Seq(Entries(lines)) /\ Len(payload) = z
      /\ \A j \in 1..z : payload[j] = list[off + j]
  <2>1. \A j \in (off + 1)..(off + z) : list[j] \in Entries(lines)
    <3>1. \A j \in (off + 1)..(off + z) : j \in 1..len
      BY <1>3, <1>4, <1>5, <1>7
    <3>2. \A j \in 1..len : list[j] \in Entries(lines)
      BY <1>4 DEF len
    <3> QED BY <3>1, <3>2
  <2>2. /\ payload \in Seq(Entries(lines))
        /\ Len(payload) = IF off + 1 <= off + z THEN (off + z) - (off + 1) + 1 ELSE 0
        /\ \A j \in 1..((off + z) - (off + 1) + 1) : payload[j] = list[(off + 1) + j - 1]
    BY <1>3, <1>5, <2>1, SubSeqProperties
  <2> HIDE DEF payload
  <2>3. (off + z) - (off + 1) + 1 = z /\ off + 1 <= off + z
    BY <1>3, <1>5
  <2>4. \A j \in 1..z : (off + 1) + j - 1 = off + j
    BY <1>3, <1>5
  <2> QED BY <2>2, <2>3, <2>4
<1> HIDE DEF payload
<1>9. a \in Aggregates
  BY <1>8 DEF Aggregates
<1>10. CountsPart(a)
  <2>1. a.part = p /\ a.lines = lines /\ a.cut = cut /\ a.payload = payload
    OBVIOUS
  <2> HIDE DEF a
  <2> QED BY <1>7, <1>8, <2>1 DEF CountsPart, off, len, list
<1>11. aggregates \in Seq(Aggregates) /\ aggregates' = Append(aggregates, a)
  BY <1>1 DEF IndexInv, Counted, payload, list, off, z
<1> HIDE DEF a
<1> DEFINE count == Len(aggregates)
<1>12. /\ aggregates' \in Seq(Aggregates) /\ count \in Nat /\ Len(aggregates') = count + 1
       /\ \A k \in 1..count : aggregates'[k] = aggregates[k]
       /\ aggregates'[count + 1] = a
  BY <1>9, <1>11
<1>13. Counted'
  <2>1. \A k \in 1..count : CountsPart(aggregates[k])
    BY DEF IndexInv, Counted
  <2> HIDE DEF count
  <2>2. ASSUME NEW k \in 1..Len(aggregates') PROVE CountsPart(aggregates'[k])
    <3>1. k \in 1..count \/ k = count + 1
      BY <1>12
    <3> QED BY <1>10, <1>12, <2>1, <3>1
  <2>3. \A b : CountsPart(b)' <=> CountsPart(b)
    BY DEF CountsPart
  <2>4. \A k \in 1..Len(aggregates') : CountsPart(aggregates[k])'
    BY <2>2 DEF CountsPart
  <2> QED BY <1>12, <2>4 DEF Counted
<1>14. ReadBefore'
  <2>1. read.aggregates \in 0..count /\ Configured(read.config)
    BY DEF IndexInv, ReadBefore
  <2> HIDE DEF count
  <2> QED BY <1>2, <1>12, <2>1 DEF ReadBefore, Configured
<1>15. Joined'
  BY <1>2, <1>12, JoinedStays DEF IndexInv
<1> QED BY <1>2, <1>13, <1>14, <1>15 DEF IndexInv, Configured, FetchedList


(* A job that does not raise joins by position.                            *)
LEMMA StructureZips ==
  ASSUME IndexInv, Indexing!Index, NEW k \in 1..Len(aggregates)
  PROVE  Sound(aggregates[k].part)' /\ Indexing!Structure(k) = Zipped(k)'
<1> DEFINE p == aggregates[k].part
           payload == aggregates[k].payload
           count == Len(payload)
           list == Client(fetched)
           len == Len(list)
           start == Indexing!StartOf(p)
           rest == IF p \in DOMAIN config THEN SubSeq(list, start + 1, len) ELSE <<>>
<1>1. /\ read' = [lines |-> fetched, config |-> config, aggregates |-> Len(aggregates)]
      /\ aggregates' = aggregates /\ origins # None
      /\ DOMAIN aggregates = 1..Len(aggregates)
  BY DEF Indexing!Index, IndexInv, Counted
<1>2. fetched \in Lists /\ origins = list
  BY <1>1 DEF IndexInv, FetchedList
<1>3. list \in Seq(Entries(fetched)) /\ len \in Nat
  BY <1>2, ListFacts
<1>4. p \in Indexing!Parts /\ count \in Nat /\ DOMAIN payload = 1..count
  BY AggregateFacts DEF IndexInv
<1>5. ~Indexing!Raises(p)
  BY <1>1 DEF Indexing!Index
<1>6. p \in DOMAIN config => p = 0 \/ (p = 1 /\ 0 \in DOMAIN config)
  BY <1>4, <1>5 DEF Indexing!Raises, Indexing!Parts
<1>7. Sound(p)'
  BY <1>1, <1>6 DEF Sound
<1>8. start = Start(p)'
  BY <1>1 DEF Indexing!StartOf, Start
<1>9. p \in DOMAIN config => start \in Nat
  BY <1>6 DEF IndexInv, Configured, Indexing!StartOf
<1>10. Indexing!Structure(k) =
         {[aggregate |-> k, index |-> start + j - 1, origin |-> rest[j], counted |-> payload[j]] :
            j \in DOMAIN rest \cap DOMAIN payload}
  BY <1>2 DEF Indexing!Structure
<1>11. Zipped(k)' =
         {[aggregate |-> k, index |-> start + j - 1, origin |-> list[start + j], counted |-> payload[j]] :
            j \in {i \in 1..count : p \in DOMAIN config /\ start + i <= len}}
  <2>1. aggregates'[k] = aggregates[k] /\ read'.lines = fetched /\ read'.config = config
    BY <1>1
  <2>2. Start(aggregates[k].part)' = start /\ Client(read.lines)' = list
    BY <1>8, <2>1 DEF Client, Indexing!ClientList, Start, Indexing!StartOf
  <2>3. ASSUME NEW j
        PROVE  RowAt(k, j)' = [aggregate |-> k, index |-> start + j - 1, origin |-> list[start + j],
                               counted |-> payload[j]]
    <3> DEFINE file == Client(read.lines)'
               first == Start(aggregates[k].part)'
    <3>1. RowAt(k, j)' = [aggregate |-> k, index |-> first + j - 1, origin |-> file[first + j],
                          counted |-> aggregates'[k].payload[j]]
      BY DEF RowAt
    <3>2. first = start /\ file = list /\ aggregates'[k].payload = payload
      BY <2>1, <2>2
    <3> HIDE DEF first, file, start, list, payload
    <3> QED BY <3>1, <3>2
  <2> HIDE DEF start, list
  <2> QED BY <2>1, <2>2, <2>3 DEF Zipped
<1> HIDE DEF start, list, len, count, payload, p
<1>12. CASE p \notin DOMAIN config
  BY <1>7, <1>10, <1>11, <1>12 DEF p
<1>13. CASE p \in DOMAIN config
  <2>1. \A i \in (start + 1)..len : list[i] \in Entries(fetched)
    <3>1. \A i \in (start + 1)..len : i \in 1..len
      BY <1>3, <1>9, <1>13
    <3>2. \A i \in 1..len : list[i] \in Entries(fetched)
      BY <1>3 DEF len
    <3> QED BY <3>1, <3>2
  <2>2. /\ rest \in Seq(Entries(fetched))
        /\ Len(rest) = IF start + 1 <= len THEN len - (start + 1) + 1 ELSE 0
        /\ \A i \in 1..(len - (start + 1) + 1) : rest[i] = list[(start + 1) + i - 1]
    <3> DEFINE sub == SubSeq(list, start + 1, len)
    <3>1. start + 1 \in Int /\ len \in Int
      BY <1>3, <1>9, <1>13
    <3>2. /\ sub \in Seq(Entries(fetched))
          /\ Len(sub) = IF start + 1 <= len THEN len - (start + 1) + 1 ELSE 0
          /\ \A i \in 1..(len - (start + 1) + 1) : sub[i] = list[(start + 1) + i - 1]
      BY ONLY <2>1, <3>1, SubSeqProperties
    <3>3. rest = sub
      BY <1>13
    <3> HIDE DEF rest, sub
    <3> QED BY <3>2, <3>3
  <2> DEFINE more == Len(rest)
  <2>3. DOMAIN rest = 1..more /\ more \in Nat /\ more = IF start + 1 <= len THEN len - (start + 1) + 1 ELSE 0
    BY <2>2
  <2>4. \A i \in 1..(len - (start + 1) + 1) : rest[i] = list[(start + 1) + i - 1]
    BY <2>2
  <2> HIDE DEF more, rest
  <2>5. \A j \in Int : j \in 1..more <=> j >= 1 /\ start + j <= len
    BY <1>3, <1>9, <1>13, <2>3
  <2>6. \A j \in 1..more : rest[j] = list[start + j]
    <3>1. \A j \in 1..more : j \in 1..(len - (start + 1) + 1) /\ (start + 1) + j - 1 = start + j
      BY <1>3, <1>9, <1>13, <2>3
    <3> QED BY <2>4, <3>1
  <2>7. DOMAIN rest \cap DOMAIN payload = {i \in 1..count : start + i <= len}
    BY <1>4, <2>3, <2>5
  <2>8. \A j \in DOMAIN rest \cap DOMAIN payload : rest[j] = list[start + j]
    BY <2>3, <2>6
  <2>9. Indexing!Structure(k) = Zipped(k)'
    BY <1>10, <1>11, <1>13, <2>7, <2>8
  <2> QED BY <1>7, <2>9 DEF p
<1> QED BY <1>12, <1>13

LEMMA IndexStep ==
  ASSUME IndexInv, Indexing!Index
  PROVE  IndexInv'
<1>1. /\ read' = [lines |-> fetched, config |-> config, aggregates |-> Len(aggregates)]
      /\ UNCHANGED <<origins, fetched, config, aggregates>>
      /\ origins # None
      /\ indexed' = UNION {Indexing!Structure(k) : k \in DOMAIN aggregates}
  BY DEF Indexing!Index
<1>2. DOMAIN aggregates = 1..Len(aggregates) /\ Len(aggregates) \in Nat
  BY DEF IndexInv, Counted
<1>3. ReadBefore'
  BY <1>1, <1>2 DEF IndexInv, ReadBefore, Configured
<1>4. Joined'
  <2>1. \A k \in 1..Len(aggregates) : Sound(aggregates[k].part)' /\ Indexing!Structure(k) = Zipped(k)'
    BY StructureZips
  <2>2. UNION {Indexing!Structure(k) : k \in 1..Len(aggregates)} = UNION {Zipped(k)' : k \in 1..Len(aggregates)}
    BY <2>1
  <2>3. fetched \in Lists
    BY <1>1 DEF IndexInv, FetchedList
  <2>4. read'.lines = fetched /\ read'.aggregates = Len(aggregates)
    BY <1>1
  <2> QED BY <1>1, <1>2, <2>1, <2>2, <2>3, <2>4 DEF Joined
<1> QED BY <1>1, <1>3, <1>4 DEF IndexInv, Configured, FetchedList, Counted, CountsPart

LEMMA IndexNext == IndexInv /\ [OriginNext]_originVars => IndexInv'
<1> SUFFICES ASSUME IndexInv, [OriginNext]_originVars
             PROVE  IndexInv'
  OBVIOUS
<1>1. CASE UNCHANGED indexingVars
  BY <1>1, IndexStays
<1>2. CASE Indexing!Next
  BY <1>2, FetchOriginsStep, ConfigureStep, PublishStep, IndexStep, FailIndexStep
     DEF Indexing!Next
<1> QED BY <1>1, <1>2 DEF OriginNext, originVars

-----------------------------------------------------------------------------
(* Indexing: what follows from it. *)

(* Where its offset fits, the job reads a count at its client's position.  *)
LEMMA RowFacts ==
  ASSUME IndexInv, NEW k \in 1..read.aggregates,
         aggregates[k].part \in DOMAIN read.config, Sound(aggregates[k].part),
         Indexing!OffsetFits(aggregates[k]),
         NEW j \in 1..Len(aggregates[k].payload)
  PROVE  LET q == Start(aggregates[k].part) + j IN
         /\ q \in Nat \ {0}
         /\ Start(aggregates[k].part) = Indexing!Offset(aggregates[k].part, aggregates[k].cut)
         /\ q <= Len(Client(aggregates[k].lines))
         /\ aggregates[k].payload[j] = Client(aggregates[k].lines)[q]
         /\ aggregates[k].lines \in Lists
<1> DEFINE a == aggregates[k]
           count == Len(a.payload)
           len == Len(Client(a.lines))
           start == Start(a.part)
<1>1. k \in 1..Len(aggregates)
  <2> DEFINE m == read.aggregates
             n == Len(aggregates)
  <2>1. n \in Nat /\ m \in 0..n /\ k \in 1..m
    BY DEF IndexInv, ReadBefore, Counted
  <2> HIDE DEF m, n
  <2> QED BY <2>1 DEF n
<1>2. /\ CountsPart(a) /\ a.part \in Indexing!Parts /\ a.lines \in Lists /\ a.cut \in Nat \ {0}
      /\ count \in Nat
  BY <1>1, AggregateFacts DEF IndexInv
<1>3. start = Indexing!Offset(a.part, a.cut) /\ start \in Nat
  <2>1. CASE a.part = 0
    BY <1>2, <2>1, OddIsNoPart DEF Indexing!Offset, Start
  <2>2. CASE a.part = 1
    <3>1. read.config[0] = Indexing!Offset(1, a.cut) /\ 0 \in DOMAIN read.config
      BY <2>2 DEF Indexing!OffsetFits
    <3>2. read.config[0] \in Nat
      BY <3>1 DEF IndexInv, ReadBefore, Configured
    <3> QED BY <2>2, <3>1, <3>2 DEF Start
  <2> QED BY <2>1, <2>2 DEF Sound
<1>4. len \in Nat
  BY <1>2, ListFacts
<1>5. start + count <= len /\ \A i \in 1..count : a.payload[i] = Client(a.lines)[start + i]
  BY <1>2, <1>3 DEF CountsPart
<1>6. j \in 1..count
  OBVIOUS
<1> HIDE DEF a, count, len, start
<1>7. start + j \in Nat \ {0} /\ start + j <= len
  BY <1>2, <1>3, <1>4, <1>5, <1>6
<1> QED BY <1>2, <1>3, <1>5, <1>6, <1>7 DEF a, len, start

LEMMA NeverSwappedFromInv == IndexInv => NeverSwapped
<1> SUFFICES ASSUME IndexInv, NEW row \in indexed,
                    Indexing!OffsetFits(aggregates[row.aggregate]),
                    Indexing!Agree(read.lines, aggregates[row.aggregate].lines)
             PROVE  row.origin = row.counted \/ Unknown \in {row.origin, row.counted}
  BY DEF NeverSwapped, Indexing!NeverSwapped
<1>1. /\ read.lines \in Lists
      /\ \A k \in 1..read.aggregates : Sound(aggregates[k].part)
      /\ indexed = UNION {Zipped(k) : k \in 1..read.aggregates}
  BY DEF IndexInv, Joined
<1>2. PICK k \in 1..read.aggregates : row \in Zipped(k)
  BY <1>1
<1> DEFINE a == aggregates[k]
           q(j) == Start(a.part) + j
           mine == Client(read.lines)
           theirs == Client(a.lines)
<1>3. PICK j \in 1..Len(a.payload) :
        /\ a.part \in DOMAIN read.config /\ q(j) <= Len(mine)
        /\ row = RowAt(k, j)
  BY <1>2 DEF Zipped
<1>4. row.aggregate = k /\ row.origin = mine[q(j)] /\ row.counted = a.payload[j]
  BY <1>3 DEF RowAt
<1>5. /\ q(j) \in Nat \ {0} /\ q(j) <= Len(theirs) /\ a.payload[j] = theirs[q(j)]
      /\ a.lines \in Lists
  BY <1>1, <1>3, <1>4, RowFacts
<1> DEFINE at == q(j)
           m == Len(mine)
           n == Len(theirs)
<1>6. /\ m \in Nat \ {0} /\ n \in Nat \ {0} /\ mine[m] = Unknown /\ theirs[n] = Unknown
  BY <1>1, <1>5, ListFacts
<1>7. \A i \in 1..(m - 1) : i < n => mine[i] = theirs[i]
  BY <1>4 DEF Indexing!Agree, Client
<1>8. at \in Nat \ {0} /\ at <= m /\ at <= n /\ row.origin = mine[at] /\ row.counted = theirs[at]
  BY <1>3, <1>4, <1>5
<1> HIDE DEF at, m, n, mine, theirs
<1>9. CASE at = m
  BY <1>6, <1>8, <1>9
<1>10. CASE at = n
  BY <1>6, <1>8, <1>10
<1>11. CASE at # m /\ at # n
  <2>1. at \in 1..(m - 1) /\ at < n
    BY <1>6, <1>8, <1>11
  <2> QED BY <1>7, <1>8, <2>1
<1> QED BY <1>9, <1>10, <1>11

LEMMA NothingDroppedFromInv == IndexInv => NothingDropped
<1> SUFFICES ASSUME IndexInv, indexing = "done", NEW k \in 1..read.aggregates,
                    aggregates[k].part \in DOMAIN read.config,
                    Indexing!OffsetFits(aggregates[k]),
                    Indexing!Agree(read.lines, aggregates[k].lines),
                    Len(Client(read.lines)) >= Len(Client(aggregates[k].lines)),
                    NEW j \in DOMAIN aggregates[k].payload
             PROVE  \E row \in indexed :
                      /\ row.aggregate = k
                      /\ row.index = Indexing!Offset(aggregates[k].part, aggregates[k].cut) + j - 1
                      /\ row.counted = aggregates[k].payload[j]
                      /\ row.origin = row.counted \/ row.counted = Unknown
  BY DEF NothingDropped, Indexing!NothingDropped, Client
<1> DEFINE a == aggregates[k]
           at == Start(a.part) + j
           mine == Client(read.lines)
           theirs == Client(a.lines)
           m == Len(mine)
           n == Len(theirs)
<1>1. /\ read.lines \in Lists /\ Sound(a.part)
      /\ indexed = UNION {Zipped(i) : i \in 1..read.aggregates}
  BY DEF IndexInv, Joined
<1>2. j \in 1..Len(a.payload)
  <2>1. k \in 1..Len(aggregates)
    <3> DEFINE x == read.aggregates
               y == Len(aggregates)
    <3>1. y \in Nat /\ x \in 0..y /\ k \in 1..x
      BY DEF IndexInv, ReadBefore, Counted
    <3> HIDE DEF x, y
    <3> QED BY <3>1 DEF y
  <2> QED BY <2>1, AggregateFacts DEF IndexInv
<1>3. /\ at \in Nat \ {0} /\ at <= n /\ a.payload[j] = theirs[at] /\ a.lines \in Lists
      /\ Start(a.part) = Indexing!Offset(a.part, a.cut)
  BY <1>1, <1>2, RowFacts
<1>4. /\ m \in Nat \ {0} /\ n \in Nat \ {0} /\ theirs[n] = Unknown /\ m >= n
  BY <1>1, <1>3, ListFacts
<1>5. \A i \in 1..(m - 1) : i < n => mine[i] = theirs[i]
  BY DEF Indexing!Agree, Client
<1>6. at <= m
  <2> HIDE DEF at, m, n
  <2> QED BY <1>3, <1>4
<1>7. mine[at] = a.payload[j] \/ a.payload[j] = Unknown
  <2> HIDE DEF at, m, n, mine, theirs
  <2>1. CASE at = n
    BY <1>3, <1>4, <2>1
  <2>2. CASE at # n
    <3>1. at \in 1..(m - 1) /\ at < n
      BY <1>3, <1>4, <2>2
    <3> QED BY <1>3, <1>5, <3>1
  <2> QED BY <2>1, <2>2
<1>8. RowAt(k, j) \in Zipped(k)
  BY <1>2, <1>6 DEF Zipped
<1>9. RowAt(k, j) \in indexed
  BY <1>1, <1>8
<1>10. /\ RowAt(k, j).aggregate = k
       /\ RowAt(k, j).index = Indexing!Offset(a.part, a.cut) + j - 1
       /\ RowAt(k, j).counted = a.payload[j]
       /\ RowAt(k, j).origin = mine[at]
  <2> DEFINE start == Start(a.part)
  <2>1. RowAt(k, j) = [aggregate |-> k, index |-> start + j - 1, origin |-> mine[at],
                       counted |-> a.payload[j]]
    BY DEF RowAt
  <2>2. start = Indexing!Offset(a.part, a.cut)
    BY <1>3
  <2> HIDE DEF at, mine, start
  <2> QED BY <2>1, <2>2
<1> WITNESS RowAt(k, j) \in indexed
<1> QED BY <1>7, <1>10

(* What was fetched is the list of a day, an aggregate counts the positions *)
(* of one part of one list, and the output joins the list and each          *)
(* aggregate that the last complete job has read by position, from the      *)
(* configured start of the part to the end of the shorter, and holds        *)
(* nothing else.  Lists, cuts and configurations change in any order, and   *)
(* none of them needs to fit another (origins.py 15-33, indexing.py 18-79). *)
THEOREM IndexInvariant == OriginSpec => []IndexInv
<1>1. OriginInit => IndexInv
  BY IndexInit DEF OriginInit
<1> QED BY <1>1, IndexNext, PTL DEF OriginSpec

(* One origin's count is never reported as that of another, for lists of   *)
(* any length, provided the two lists agree as far as both go and the job  *)
(* was configured with the size the clients cut parts to (indexing.py      *)
(* 64-79).                                                                 *)
THEOREM CountsStayWithOrigins == OriginSpec => []NeverSwapped
BY IndexInvariant, NeverSwappedFromInv, PTL

(* Nor is a count lost, if the list is not shorter than the one the        *)
(* clients had (indexing.py 75-79).                                        *)
THEOREM NoCountIsDropped == OriginSpec => []NothingDropped
BY IndexInvariant, NothingDroppedFromInv, PTL
=============================================================================
