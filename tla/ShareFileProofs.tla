--------------------------- MODULE ShareFileProofs ---------------------------
(***************************************************************************)
(* Theorems about the three programs of ShareFiles, for any number of      *)
(* batches, rows, tasks, evaluations, runs and pings, and input files of   *)
(* any length.                                                             *)
(***************************************************************************)
EXTENDS ShareFiles, Sequences, FiniteSetTheorems, TLAPS

-----------------------------------------------------------------------------
(* ShareGeneration: the inductive invariant. *)

AllRows == GenerateRows \cup IntegrationRows

GenerationType ==
  /\ evals \in Nat
  /\ left \subseteq Tasks
  /\ DOMAIN files = Servers /\ DOMAIN bucket = Servers

\* Both lines of a row are written by one task.
SameFiles == files[A] = files[B]

Mirrored ==
  phase = "done" /\ command = "generate_integration" =>
    \A s \in Servers : bucket[s] = files[s] /\ s \in marked

\* Unless rows were evaluated again, a directory holds the rows whose tasks have
\* written, each under the id it still has.
Written ==
  phase \in {"write", "mirror", "done"} =>
    /\ command \in {"generate", "generate_integration"}
    /\ phase \in {"mirror", "done"} => left = {}
    /\ ~recomputed =>
         /\ DOMAIN eval = RowsOf(command)
         /\ task \in [RowsOf(command) -> Tasks]
         /\ \A s \in Servers : files[s] = {Line(r) : r \in {q \in DOMAIN eval : task[q] \notin left}}

GenerationInv == GenerationType /\ SameFiles /\ Mirrored /\ Written

LEMMA GenerationInit == Init => GenerationInv
BY DEF Init, GenerationInv, GenerationType, SameFiles, Mirrored, Written, Servers

LEMMA GenerationNext == GenerationInv /\ [Next]_vars => GenerationInv'
<1> SUFFICES ASSUME GenerationInv, [Next]_vars PROVE GenerationInv'
  OBVIOUS
<1> USE DEF GenerationInv
<1>1. ASSUME NEW cmd \in {"generate", "generate_integration"}, Start(cmd) PROVE GenerationInv'
  <2>1. /\ command' = cmd /\ phase' = "write" /\ left' = Tasks /\ recomputed' = FALSE
        /\ eval' = [r \in RowsOf(cmd) |-> evals'] /\ task' \in [RowsOf(cmd) -> Tasks]
        /\ evals' = evals + 1 /\ files' = [s \in Servers |-> {}] /\ UNCHANGED bucket
    BY <1>1 DEF Start, Emptied
  <2>2. GenerationType'
    BY <2>1 DEF GenerationType
  <2>3. SameFiles' /\ Mirrored'
    BY <2>1 DEF SameFiles, Mirrored, Servers
  <2>4. RowsOf(command)' = RowsOf(cmd)
    BY <2>1 DEF RowsOf
  <2>5. ASSUME NEW s \in Servers
        PROVE  files'[s] = {Line(r)' : r \in {q \in DOMAIN eval' : task'[q] \notin left'}}
    <3>1. {q \in DOMAIN eval' : task'[q] \notin left'} = {}
      BY <2>1
    <3>2. files'[s] = {}
      BY <2>1
    <3> QED BY <3>1, <3>2
  <2>6. Written'
    BY <2>1, <2>4, <2>5 DEF Written
  <2> QED BY <2>2, <2>3, <2>6
<1>2. CASE SparkEncodeShares
  BY <1>2 DEF SparkEncodeShares, GenerationType, SameFiles, Mirrored, Written
<1>3. CASE Recompute
  BY <1>3 DEF Recompute, GenerationType, SameFiles, Mirrored, Written
<1>4. CASE Crash
  BY <1>4 DEF Crash, GenerationType, SameFiles, Mirrored, Written
<1>5. ASSUME NEW t \in Tasks, WriteTask(t) PROVE GenerationInv'
  <2>1. /\ phase = "write" /\ left' = left \ {t}
        /\ files' = [s \in Servers |-> files[s] \cup LinesOf(s, t)]
        /\ phase' = IF left' # {} THEN "write" ELSE IF command = "generate" THEN "done" ELSE "mirror"
        /\ UNCHANGED <<command, eval, evals, task, bucket, marked, recomputed>>
    BY <1>5 DEF WriteTask
  <2>2. GenerationType'
    BY <2>1 DEF GenerationType
  <2>3. SameFiles'
    BY <2>1 DEF SameFiles, Servers, LinesOf
  <2>4. Mirrored'
    BY <2>1 DEF Mirrored
  <2>5. ASSUME ~recomputed, NEW s \in Servers
        PROVE  files'[s] = {Line(r) : r \in {q \in DOMAIN eval : task[q] \notin left'}}
    <3>1. files[s] = {Line(r) : r \in {q \in DOMAIN eval : task[q] \notin left}}
      BY <2>1, <2>5 DEF Written
    <3>2. files'[s] = files[s] \cup LinesOf(s, t)
      BY <2>1
    <3>3. \A q \in DOMAIN eval : task[q] \notin left' <=> task[q] \notin left \/ task[q] = t
      BY <2>1
    <3> QED BY <3>1, <3>2, <3>3 DEF LinesOf
  <2>6. Written'
    <3>1. \A r : Line(r)' = Line(r)
      BY <2>1 DEF Line
    <3>2. RowsOf(command)' = RowsOf(command)
      BY <2>1 DEF RowsOf
    <3> QED BY <2>1, <2>5, <3>1, <3>2 DEF Written
  <2> QED BY <2>2, <2>3, <2>4, <2>6
<1>6. ASSUME NEW s \in Servers, Mark(s) PROVE GenerationInv'
  <2>1. GenerationType' /\ SameFiles'
    BY <1>6 DEF Mark, GenerationType, SameFiles
  <2>2. Mirrored'
    BY <1>6, ServersDiffer DEF Mark, Mirrored, Turn, Servers
  <2>3. Written'
    BY <1>6 DEF Mark, Turn, Written, RowsOf, Line
  <2> QED BY <2>1, <2>2, <2>3
<1>7. ASSUME NEW s \in Servers, NEW b, MirrorBatch(s, b) PROVE GenerationInv'
  <2>1. GenerationType' /\ SameFiles' /\ Mirrored'
    BY <1>7 DEF MirrorBatch, Turn, GenerationType, SameFiles, Mirrored
  <2>2. Written'
    BY <1>7 DEF MirrorBatch, Turn, Written, RowsOf, Line
  <2> QED BY <2>1, <2>2
<1>8. CASE UNCHANGED vars
  BY <1>8 DEF vars, GenerationType, SameFiles, Mirrored, Written, RowsOf, Line
<1> QED BY <1>1, <1>2, <1>3, <1>4, <1>5, <1>6, <1>7, <1>8 DEF Next, Work

-----------------------------------------------------------------------------
(* ShareGeneration: the properties. *)

LEMMA EachRowOnceFromInv == GenerationInv => EachRowOnce
<1> SUFFICES ASSUME GenerationInv, phase = "done", ~recomputed, NEW s \in Servers
             PROVE  Once(files[s]) /\ (command = "generate_integration" => Once(bucket[s]))
  BY DEF EachRowOnce
<1>1. /\ left = {} /\ DOMAIN eval = RowsOf(command)
      /\ files[s] = {Line(r) : r \in {q \in DOMAIN eval : task[q] \notin left}}
  BY DEF GenerationInv, Written
<1>2. files[s] = {Line(r) : r \in RowsOf(command)}
  BY <1>1
<1>3. \A r : Line(r).row = r
  BY DEF Line
<1>4. Once(files[s])
  <2>1. {l.row : l \in files[s]} = RowsOf(command)
    BY <1>2, <1>3
  <2>2. \A x, y \in files[s] : x.row = y.row => x = y
    BY <1>2, <1>3
  <2> QED BY <2>1, <2>2 DEF Once
<1>5. command = "generate_integration" => bucket[s] = files[s]
  BY DEF GenerationInv, Mirrored
<1> QED BY <1>4, <1>5

LEMMA SameRowsFromInv == GenerationInv => SameRows
BY DEF GenerationInv, SameFiles, Mirrored, SameRows, Servers

LEMMA FilesAreGenerated == FilesSpec => Spec
<1>1. FilesInit => Init
  BY DEF FilesInit
<1>2. [FilesNext]_filesVars => [Next]_vars
  BY DEF FilesNext, filesVars, vars
<1> QED BY <1>1, <1>2, PTL DEF FilesSpec, Spec

(* The inductive invariant of test data: one task writes both lines of a   *)
(* row, the directories hold the rows of the tasks that have written, and  *)
(* what the script has marked mirrors the files of the last job            *)
(* (commands.py 79-104, 182-194, bin/generate 23-31, 54-61).               *)
THEOREM GenerationInvariant == FilesSpec => []GenerationInv
BY GenerationInit, GenerationNext, FilesAreGenerated, PTL DEF Spec

(* A job whose rows were evaluated once ends with each row once in what    *)
(* either server is given, and nothing of an earlier job (commands.py      *)
(* 93-104, 182-194, bin/generate 23-31, 54-61).                            *)
THEOREM JobsWriteEachRowOnce == FilesSpec => []EachRowOnce
BY GenerationInvariant, EachRowOnceFromInv, PTL

(* When the script ends, both buckets have the rows of the last job and no *)
(* others (commands.py 182-194, bin/generate 23-31, 54-61).                *)
THEOREM BucketsHaveSameRows == FilesSpec => []SameRows
BY GenerationInvariant, SameRowsFromInv, PTL

-----------------------------------------------------------------------------
(* EncodeFiles: the inductive invariant. *)

EncodedLines == [row : Nat, call : Nat]

EncodingType ==
  /\ lines \in Seq(BOOLEAN)
  /\ row \in Nat \ {0} /\ calls \in Nat /\ row <= calls + 1
  /\ buffer \in [Encoding!Outputs -> Seq(EncodedLines)]
  /\ file \in [Encoding!Outputs -> Seq(EncodedLines)]
  /\ DOMAIN torn = Encoding!Outputs

\* The line of row k of this run: one call for each row.
LineAt(k) == [row |-> k, call |-> calls + 1 - row + k]

\* A file holds the lines of the first rows.
Streamed == \A o \in Encoding!Outputs : \A k \in 1..Len(file[o]) : file[o][k] = LineAt(k)

\* The buffer continues where the file ends.
Buffered ==
  encoding = "loop" =>
    \A o \in Encoding!Outputs :
      /\ Len(file[o]) + Len(buffer[o]) = row - 1
      /\ \A k \in 1..Len(buffer[o]) : buffer[o][k] = LineAt(Len(file[o]) + k)

Encodable ==
  encoding \in {"loop", "done", "raised"} =>
    row - 1 <= Len(lines) /\ \A k \in 1..(row - 1) : lines[k]

\* What an ending with closed files says of the row.
Ended ==
  /\ encoding \in {"done", "raised"} =>
       \A o \in Encoding!Outputs : Len(file[o]) = row - 1 /\ ~torn[o]
  /\ encoding = "done" => row - 1 = Len(lines)
  /\ encoding = "raised" => row <= Len(lines) /\ ~lines[row]

\* The second file is that of another run only until it is opened, or if it is
\* not.
OtherRun == encoding \in {"opened_A", "not_opened", "killed"} /\ file[A] = <<>>

EncodingInv ==
  /\ EncodingType
  /\ encoding = "opened_A" => OtherRun /\ row = 1 /\ \A o \in Encoding!Outputs : buffer[o] = <<>>
  /\ Streamed \/ OtherRun
  /\ Buffered /\ Encodable /\ Ended

LEMMA EncodingInit == Encoding!Init => EncodingInv
<1> SUFFICES ASSUME Encoding!Init PROVE EncodingInv
  OBVIOUS
<1>1. EncodingType
  BY DEF Encoding!Init, EncodingType
<1>2. Streamed
  BY DEF Encoding!Init, Streamed
<1> QED BY <1>1, <1>2 DEF Encoding!Init, EncodingInv, OtherRun, Buffered, Encodable, Ended


(* The lines of a file and those of its buffer, one after the other.       *)
LEMMA StreamOfBoth ==
  ASSUME row \in Nat, calls \in Nat, NEW f \in Seq(EncodedLines), NEW g \in Seq(EncodedLines),
         \A k \in 1..Len(f) : f[k] = LineAt(k),
         \A k \in 1..Len(g) : g[k] = LineAt(Len(f) + k)
  PROVE  /\ f \o g \in Seq(EncodedLines)
         /\ Len(f \o g) = Len(f) + Len(g)
         /\ \A k \in 1..Len(f \o g) : (f \o g)[k] = LineAt(k)
<1>1. /\ f \o g \in Seq(EncodedLines)
      /\ Len(f \o g) = Len(f) + Len(g)
      /\ Len(f) \in Nat /\ Len(g) \in Nat
  OBVIOUS
<1>2. ASSUME NEW k \in 1..Len(f \o g) PROVE (f \o g)[k] = LineAt(k)
  <2>1. CASE k <= Len(f)
    BY <1>1, <2>1
  <2>2. CASE k > Len(f)
    <3>1. k - Len(f) \in 1..Len(g) /\ Len(f) + (k - Len(f)) = k
      BY <1>1, <2>2
    <3>2. (f \o g)[k] = g[k - Len(f)]
      BY <1>1, <2>2
    <3>3. g[k - Len(f)] = LineAt(Len(f) + (k - Len(f)))
      BY <3>1
    <3> QED BY <3>1, <3>2, <3>3
  <2> QED BY <1>1, <2>1, <2>2
<1> QED BY <1>1, <1>2

(* A row more.                                                             *)
LEMMA StreamAppended ==
  ASSUME row \in Nat, calls \in Nat, NEW n \in Nat, NEW g \in Seq(EncodedLines), n + Len(g) = row - 1,
         \A k \in 1..Len(g) : g[k] = LineAt(n + k)
  PROVE  /\ Append(g, LineAt(row)) \in Seq(EncodedLines)
         /\ n + Len(Append(g, LineAt(row))) = row
         /\ \A k \in 1..Len(Append(g, LineAt(row))) : Append(g, LineAt(row))[k] = LineAt(n + k)
<1>1. LineAt(row) \in EncodedLines
  BY DEF EncodedLines, LineAt
<1>2. /\ Append(g, LineAt(row)) \in Seq(EncodedLines)
      /\ Len(Append(g, LineAt(row))) = Len(g) + 1 /\ Len(g) \in Nat
  BY <1>1
<1>3. n + Len(Append(g, LineAt(row))) = row
  BY <1>2
<1>4. ASSUME NEW k \in 1..Len(Append(g, LineAt(row))) PROVE Append(g, LineAt(row))[k] = LineAt(n + k)
  <2>1. CASE k = Len(g) + 1
    <3>1. Append(g, LineAt(row))[k] = LineAt(row)
      BY <1>1, <2>1
    <3>2. n + k = row
      BY <1>2, <2>1
    <3> QED BY <3>1, <3>2
  <2>2. CASE k # Len(g) + 1
    <3>1. k \in 1..Len(g)
      BY <1>2, <2>2
    <3>2. Append(g, LineAt(row))[k] = g[k]
      BY <1>1, <3>1
    <3> QED BY <3>1, <3>2
  <2> QED BY <2>1, <2>2
<1> QED BY <1>2, <1>3, <1>4

LEMMA EncodingNext == EncodingInv /\ [Encoding!Next]_encodingVars => EncodingInv'
<1> SUFFICES ASSUME EncodingInv, [Encoding!Next]_encodingVars PROVE EncodingInv'
  OBVIOUS
<1>0. /\ lines \in Seq(BOOLEAN) /\ Len(lines) \in Nat
      /\ row \in Nat \ {0} /\ calls \in Nat /\ row <= calls + 1
      /\ \A o \in Encoding!Outputs : buffer[o] \in Seq(EncodedLines) /\ file[o] \in Seq(EncodedLines)
      /\ buffer \in [Encoding!Outputs -> Seq(EncodedLines)]
      /\ file \in [Encoding!Outputs -> Seq(EncodedLines)]
  BY DEF EncodingInv, EncodingType
<1>1. CASE Encoding!OpenA
  <2>1. lines' \in Seq(BOOLEAN)
    <3>1. PICK m \in 0..MaxRows : lines' \in [1..m -> BOOLEAN]
      BY <1>1 DEF Encoding!OpenA, Encoding!SeqOf
    <3>2. m \in Nat
      OBVIOUS
    <3> QED BY <3>1, <3>2
  <2>2. /\ row' = 1 /\ calls' = calls /\ encoding' = "opened_A"
        /\ buffer' = [o \in Encoding!Outputs |-> <<>>] /\ file' = [file EXCEPT ![A] = <<>>]
        /\ torn' = [torn EXCEPT ![A] = FALSE] /\ DOMAIN torn = Encoding!Outputs
    BY <1>1 DEF Encoding!OpenA, EncodingInv, EncodingType
  <2>3. EncodingType'
    <3>1. <<>> \in Seq(EncodedLines)
      OBVIOUS
    <3>2. buffer' \in [Encoding!Outputs -> Seq(EncodedLines)]
      BY <2>2, <3>1
    <3>3. file' \in [Encoding!Outputs -> Seq(EncodedLines)]
      BY <1>0, <2>2, <3>1
    <3> QED BY <1>0, <2>1, <2>2, <3>2, <3>3 DEF EncodingType
  <2>4. OtherRun' /\ \A o \in Encoding!Outputs : buffer'[o] = <<>>
    BY <1>0, <2>2 DEF OtherRun, Encoding!Outputs
  <2> QED BY <2>2, <2>3, <2>4 DEF EncodingInv, Buffered, Encodable, Ended
<1>2. CASE Encoding!OpenB
  <2>1. /\ encoding = "opened_A" /\ encoding' = "loop" /\ file' = [file EXCEPT ![B] = <<>>]
        /\ torn' = [torn EXCEPT ![B] = FALSE] /\ DOMAIN torn = Encoding!Outputs
        /\ UNCHANGED <<lines, row, buffer, calls>>
    BY <1>2 DEF Encoding!OpenB, EncodingInv, EncodingType
  <2>2. row = 1 /\ \A o \in Encoding!Outputs : file'[o] = <<>> /\ buffer'[o] = <<>>
    BY <1>0, <2>1 DEF EncodingInv, OtherRun, Encoding!Outputs
  <2>3. Len(<<>>) = 0 /\ 1..0 = {} /\ row' - 1 = 0
    BY <2>1, <2>2
  <2>4. EncodingType'
    <3>1. <<>> \in Seq(EncodedLines)
      OBVIOUS
    <3>2. file' \in [Encoding!Outputs -> Seq(EncodedLines)]
      BY <1>0, <2>1, <3>1
    <3> QED BY <1>0, <2>1, <3>2 DEF EncodingType
  <2>5. Streamed'
    BY <2>2, <2>3 DEF Streamed
  <2>6. Buffered'
    <3> SUFFICES ASSUME NEW o \in Encoding!Outputs
                 PROVE  /\ Len(file'[o]) + Len(buffer'[o]) = row' - 1
                        /\ \A k \in 1..Len(buffer'[o]) : buffer'[o][k] = LineAt(Len(file[o]) + k)'
      BY DEF Buffered
    <3>1. Len(file'[o]) = 0 /\ Len(buffer'[o]) = 0
      BY <2>2, <2>3
    <3> QED BY <2>3, <3>1
  <2>7. Encodable' /\ Ended'
    BY <1>0, <2>1, <2>3 DEF Encodable, Ended
  <2> QED BY <2>1, <2>4, <2>5, <2>6, <2>7 DEF EncodingInv
<1>3. CASE Encoding!NoDirectoryB
  BY <1>3 DEF Encoding!NoDirectoryB, EncodingInv, EncodingType, OtherRun, Buffered, Encodable, Ended
<1>4. CASE Encoding!EncodeRow
  <2>1. /\ encoding = "loop" /\ encoding' = "loop" /\ row <= Len(lines) /\ lines[row]
        /\ buffer' = [o \in Encoding!Outputs |-> Append(buffer[o], [row |-> row, call |-> calls + 1])]
        /\ row' = row + 1 /\ calls' = calls + 1 /\ UNCHANGED <<lines, file, torn>>
        /\ DOMAIN torn = Encoding!Outputs
    BY <1>4 DEF EncodingInv, EncodingType, Encoding!EncodeRow, Encoding!Encodes, Encoding!LineOf
  <2>2. \A k \in Nat : LineAt(k)' = LineAt(k)
    BY <1>0, <2>1 DEF LineAt
  <2>3. ASSUME NEW o \in Encoding!Outputs
        PROVE  /\ buffer'[o] \in Seq(EncodedLines)
               /\ Len(file[o]) + Len(buffer'[o]) = row
               /\ \A k \in 1..Len(buffer'[o]) : buffer'[o][k] = LineAt(Len(file[o]) + k)
               /\ \A k \in 1..Len(file[o]) : file[o][k] = LineAt(k)
    <3>1. /\ Len(file[o]) + Len(buffer[o]) = row - 1
          /\ \A k \in 1..Len(buffer[o]) : buffer[o][k] = LineAt(Len(file[o]) + k)
          /\ \A k \in 1..Len(file[o]) : file[o][k] = LineAt(k)
      BY <2>1 DEF EncodingInv, Buffered, Streamed, OtherRun
    <3>2. Len(file[o]) \in Nat /\ buffer'[o] = Append(buffer[o], [row |-> row, call |-> calls + 1])
      BY <1>0, <2>1
    <3>3. row \in Nat /\ calls \in Nat /\ buffer[o] \in Seq(EncodedLines)
      BY <1>0
    <3>4. buffer'[o] = Append(buffer[o], LineAt(row))
      BY <3>2, <3>3 DEF LineAt
    <3>5. /\ Append(buffer[o], LineAt(row)) \in Seq(EncodedLines)
          /\ Len(file[o]) + Len(Append(buffer[o], LineAt(row))) = row
          /\ \A k \in 1..Len(Append(buffer[o], LineAt(row))) :
               Append(buffer[o], LineAt(row))[k] = LineAt(Len(file[o]) + k)
      BY ONLY <3>1, <3>2, <3>3, StreamAppended
    <3> QED BY ONLY <3>1, <3>4, <3>5
  <2>4. EncodingType'
    BY <1>0, <2>1, <2>3 DEF EncodingType
  <2>5. Streamed'
    <3>1. ASSUME NEW o \in Encoding!Outputs, NEW k \in 1..Len(file[o]) PROVE k \in Nat
      BY <1>0
    <3> QED BY <2>1, <2>2, <2>3, <3>1 DEF Streamed
  <2>6. Buffered'
    <3>1. ASSUME NEW o \in Encoding!Outputs, NEW k \in 1..Len(buffer'[o]) PROVE Len(file[o]) + k \in Nat
      BY <1>0, <2>3
    <3>2. ASSUME NEW o \in Encoding!Outputs, NEW k \in 1..Len(buffer'[o])
          PROVE  buffer'[o][k] = LineAt(Len(file[o]) + k)'
      BY <2>1, <2>2, <2>3, <3>1
    <3>3. row' - 1 = row
      BY <1>0, <2>1
    <3> QED BY <2>1, <2>3, <3>2, <3>3 DEF Buffered
  <2>7. Encodable' /\ Ended'
    <3>1. row - 1 <= Len(lines) /\ \A k \in 1..(row - 1) : lines[k]
      BY <2>1 DEF EncodingInv, Encodable
    <3>2. \A k \in 1..row : k \in 1..(row - 1) \/ k = row
      BY <1>0
    <3>3. row' - 1 = row
      BY <1>0, <2>1
    <3> QED BY <2>1, <3>1, <3>2, <3>3 DEF Encodable, Ended
  <2> QED BY <2>1, <2>4, <2>5, <2>6, <2>7 DEF EncodingInv
<1>5. ASSUME NEW p \in Encoding!Outputs, Encoding!Spill(p) PROVE EncodingInv'
  <2>1. PICK n \in 0..Len(buffer[p]), part \in BOOLEAN :
          /\ encoding = "loop" /\ UNCHANGED <<lines, row, calls, encoding>>
          /\ file' = [file EXCEPT ![p] = file[p] \o SubSeq(buffer[p], 1, n)]
          /\ buffer' = [buffer EXCEPT ![p] = SubSeq(buffer[p], n + 1, Len(buffer[p]))]
          /\ torn' = [torn EXCEPT ![p] = part]
    BY <1>5 DEF Encoding!Spill
  <2> DEFINE spilt == SubSeq(buffer[p], 1, n)
             kept == SubSeq(buffer[p], n + 1, Len(buffer[p]))
  <2>2. /\ \A o \in Encoding!Outputs : o # p => file'[o] = file[o] /\ buffer'[o] = buffer[o]
        /\ file'[p] = file[p] \o spilt /\ buffer'[p] = kept
        /\ \A k : LineAt(k)' = LineAt(k)
    BY <1>0, <2>1 DEF LineAt
  <2>3. ASSUME NEW o \in Encoding!Outputs
        PROVE  /\ Len(file[o]) + Len(buffer[o]) = row - 1
               /\ \A k \in 1..Len(buffer[o]) : buffer[o][k] = LineAt(Len(file[o]) + k)
               /\ \A k \in 1..Len(file[o]) : file[o][k] = LineAt(k)
    BY <2>1 DEF EncodingInv, Buffered, Streamed, OtherRun
  <2>4. /\ Len(file[p]) \in Nat /\ Len(buffer[p]) \in Nat /\ n \in Nat /\ n <= Len(buffer[p])
        /\ spilt \in Seq(EncodedLines) /\ Len(spilt) = n
        /\ \A k \in 1..n : spilt[k] = buffer[p][k]
        /\ kept \in Seq(EncodedLines) /\ Len(kept) \in Nat /\ n + Len(kept) = Len(buffer[p])
        /\ \A k \in 1..Len(kept) : kept[k] = buffer[p][n + k]
    <3>1. /\ Len(file[p]) \in Nat /\ Len(buffer[p]) \in Nat /\ n \in Nat /\ n <= Len(buffer[p])
          /\ spilt \in Seq(EncodedLines) /\ Len(spilt) = n
          /\ \A k \in 1..n : spilt[k] = buffer[p][k]
      BY <1>0
    <3>2. kept \in Seq(EncodedLines) /\ Len(kept) = Len(buffer[p]) - n
      BY <1>0
    <3>3. \A k \in 1..Len(kept) : kept[k] = buffer[p][n + k]
      BY <1>0
    <3> DEFINE b == Len(buffer[p])
    <3>4. b \in Nat /\ n \in Nat /\ n <= b
      BY <3>1
    <3> HIDE DEF b
    <3>5. b - n \in Nat /\ n + (b - n) = b
      BY ONLY <3>4
    <3> QED BY <3>1, <3>2, <3>3, <3>5 DEF b
  <2> HIDE DEF spilt, kept
  <2>5. /\ file'[p] \in Seq(EncodedLines) /\ Len(file'[p]) = Len(file[p]) + n
        /\ \A k \in 1..Len(file'[p]) : file'[p][k] = LineAt(k)
    <3>1. ASSUME NEW k \in 1..Len(spilt) PROVE spilt[k] = LineAt(Len(file[p]) + k)
      <4>1. k \in 1..n /\ k \in 1..Len(buffer[p])
        BY <2>4
      <4> QED BY <2>3, <2>4, <4>1
    <3>2. /\ row \in Nat /\ calls \in Nat /\ file[p] \in Seq(EncodedLines)
          /\ \A k \in 1..Len(file[p]) : file[p][k] = LineAt(k)
      BY <1>0, <2>3
    <3>3. /\ file[p] \o spilt \in Seq(EncodedLines)
          /\ Len(file[p] \o spilt) = Len(file[p]) + Len(spilt)
          /\ \A k \in 1..Len(file[p] \o spilt) : (file[p] \o spilt)[k] = LineAt(k)
      BY ONLY <2>4, <3>1, <3>2, StreamOfBoth
    <3> QED BY <2>2, <2>4, <3>3
  <2>6. ASSUME NEW k \in 1..Len(kept) PROVE kept[k] = LineAt(Len(file'[p]) + k)
    <3>1. n + k \in 1..Len(buffer[p]) /\ Len(file[p]) + (n + k) = (Len(file[p]) + n) + k
      <4>1. Len(file[p]) \in Nat /\ Len(buffer[p]) \in Nat /\ n \in Nat /\ n <= Len(buffer[p])
        BY <2>4
      <4>2. Len(kept) \in Nat /\ n + Len(kept) = Len(buffer[p])
        BY <2>4
      <4> DEFINE f == Len(file[p])  b == Len(buffer[p])  m == Len(kept)
      <4>3. f \in Nat /\ b \in Nat /\ m \in Nat /\ n \in Nat /\ n + m = b /\ k \in 1..m
        BY <4>1, <4>2
      <4> HIDE DEF f, b, m
      <4>4. n + k \in 1..b /\ f + (n + k) = (f + n) + k
        BY ONLY <4>3
      <4> QED BY <4>4 DEF f, b
    <3>2. kept[k] = buffer[p][n + k]
      BY <2>4
    <3>3. buffer[p][n + k] = LineAt(Len(file[p]) + (n + k))
      BY <2>3, <3>1
    <3> QED BY <2>5, <3>1, <3>2, <3>3
  <2>7. EncodingType'
    BY <1>0, <2>1, <2>2, <2>4, <2>5 DEF EncodingInv, EncodingType, spilt, kept
  <2>8. Streamed'
    <3>1. ASSUME NEW o \in Encoding!Outputs, NEW k \in 1..Len(file'[o]) PROVE file'[o][k] = LineAt(k)
      <4>1. CASE o = p
        BY <2>5, <4>1
      <4>2. CASE o # p
        <5>1. file'[o] = file[o]
          BY <2>2, <4>2
        <5> QED BY <2>3, <5>1
      <4> QED BY <4>1, <4>2
    <3> QED BY <2>2, <3>1 DEF Streamed
  <2>9. Buffered'
    <3>1. ASSUME NEW o \in Encoding!Outputs
          PROVE  /\ Len(file'[o]) + Len(buffer'[o]) = row - 1
                 /\ \A k \in 1..Len(buffer'[o]) : buffer'[o][k] = LineAt(Len(file'[o]) + k)
      <4>1. CASE o = p
        <5>1. Len(file'[p]) + Len(kept) = row - 1
          <6>1. /\ Len(file[p]) \in Nat /\ Len(buffer[p]) \in Nat /\ n \in Nat /\ n <= Len(buffer[p])
                /\ Len(kept) \in Nat /\ n + Len(kept) = Len(buffer[p])
            BY <2>4
          <6>2. Len(file'[p]) = Len(file[p]) + n /\ Len(file[p]) + Len(buffer[p]) = row - 1
            BY <2>3, <2>5
          <6> DEFINE f == Len(file[p])  b == Len(buffer[p])  m == Len(kept)
          <6>3. f \in Nat /\ b \in Nat /\ m \in Nat /\ n \in Nat /\ n + m = b
            BY <6>1
          <6> HIDE DEF f, b, m
          <6>4. (f + n) + m = f + b
            BY ONLY <6>3
          <6>5. Len(file'[p]) = f + n /\ f + b = row - 1
            BY <6>2 DEF f, b
          <6>6. Len(file'[p]) + m = row - 1
            BY ONLY <6>4, <6>5
          <6> QED BY <6>6 DEF m
        <5> QED BY <2>2, <2>6, <4>1, <5>1
      <4>2. CASE o # p
        <5>1. file'[o] = file[o] /\ buffer'[o] = buffer[o]
          BY <2>2, <4>2
        <5>2. /\ Len(file[o]) + Len(buffer[o]) = row - 1
              /\ \A k \in 1..Len(buffer[o]) : buffer[o][k] = LineAt(Len(file[o]) + k)
          BY <2>3
        <5> QED BY ONLY <5>1, <5>2
      <4> QED BY <4>1, <4>2
    <3> QED BY <2>1, <2>2, <3>1 DEF Buffered
  <2>10. Encodable' /\ Ended'
    BY <2>1 DEF EncodingInv, Encodable, Ended
  <2> QED BY <2>1, <2>7, <2>8, <2>9, <2>10 DEF EncodingInv
<1>6. ASSUME NEW ending \in {"done", "raised"}, encoding = "loop", Encoding!Close(ending),
             ending = "done" => row > Len(lines),
             ending = "raised" => row <= Len(lines) /\ ~lines[row]
      PROVE  EncodingInv'
  <2>1. /\ encoding' = ending /\ UNCHANGED <<lines, row, calls>>
        /\ file' = [o \in Encoding!Outputs |-> file[o] \o buffer[o]]
        /\ buffer' = [o \in Encoding!Outputs |-> <<>>] /\ torn' = [o \in Encoding!Outputs |-> FALSE]
    BY <1>6 DEF Encoding!Close, Encoding!Flushed
  <2>2. \A k : LineAt(k)' = LineAt(k)
    BY <2>1 DEF LineAt
  <2>3. ASSUME NEW o \in Encoding!Outputs
        PROVE  /\ Len(file[o]) + Len(buffer[o]) = row - 1
               /\ \A k \in 1..Len(buffer[o]) : buffer[o][k] = LineAt(Len(file[o]) + k)
               /\ \A k \in 1..Len(file[o]) : file[o][k] = LineAt(k)
    BY <1>6 DEF EncodingInv, Buffered, Streamed, OtherRun
  <2>4. ASSUME NEW o \in Encoding!Outputs
        PROVE  /\ file'[o] \in Seq(EncodedLines) /\ Len(file'[o]) = row - 1
               /\ \A k \in 1..Len(file'[o]) : file'[o][k] = LineAt(k)
    <3>1. file'[o] = file[o] \o buffer[o]
      BY <2>1
    <3> QED BY <1>0, <2>3, <3>1, StreamOfBoth
  <2>5. EncodingType'
    BY <1>0, <2>1, <2>4 DEF EncodingType
  <2>6. Streamed'
    BY <2>2, <2>4 DEF Streamed
  <2>7. Encodable'
    BY <1>6, <2>1 DEF EncodingInv, Encodable
  <2>8. Ended'
    <3>1. row - 1 <= Len(lines)
      BY <1>6 DEF EncodingInv, Encodable
    <3> QED BY <1>0, <1>6, <2>1, <2>4, <3>1 DEF Ended
  <2> QED BY <2>1, <2>5, <2>6, <2>7, <2>8 DEF EncodingInv, Buffered
<1>7. CASE Encoding!Finish
  BY <1>6, <1>7 DEF Encoding!Finish
<1>8. CASE Encoding!Raise
  <2>1. encoding = "loop" /\ row <= Len(lines) /\ ~lines[row] /\ Encoding!Close("raised")
    BY <1>8 DEF Encoding!Raise, Encoding!Encodes
  <2> QED BY <1>6, <2>1
<1>9. CASE Encoding!Kill
  <2>1. /\ encoding \in {"opened_A", "loop"} /\ encoding' = "killed" /\ UNCHANGED <<lines, row, file, torn, calls>>
        /\ buffer' = [o \in Encoding!Outputs |-> <<>>]
    BY <1>9 DEF Encoding!Kill
  <2>2. EncodingType'
    BY <1>0, <2>1 DEF EncodingInv, EncodingType
  <2>3. Streamed' \/ OtherRun'
    BY <2>1 DEF EncodingInv, Streamed, LineAt, OtherRun
  <2> QED BY <2>1, <2>2, <2>3 DEF EncodingInv, Buffered, Encodable, Ended
<1>10. CASE UNCHANGED encodingVars
  <2>1. UNCHANGED <<lines, row, buffer, file, torn, calls, encoding>>
    BY <1>10 DEF encodingVars
  <2>2. EncodingType' /\ (Streamed' \/ OtherRun')
    BY <2>1 DEF EncodingInv, EncodingType, Streamed, LineAt, OtherRun
  <2>3. Buffered' /\ Encodable' /\ Ended'
    BY <2>1 DEF EncodingInv, Buffered, LineAt, Encodable, Ended
  <2> QED BY <2>1, <2>2, <2>3 DEF EncodingInv, OtherRun
<1> QED BY <1>1, <1>2, <1>3, <1>4, <1>5, <1>7, <1>8, <1>9, <1>10 DEF Encoding!Next

-----------------------------------------------------------------------------
(* EncodeFiles: the properties. *)

LEMMA ShorterIsPrefix ==
  ASSUME NEW f \in Seq(EncodedLines), NEW g \in Seq(EncodedLines), Len(f) <= Len(g),
         \A k \in 1..Len(f) : f[k] = g[k]
  PROVE  Encoding!IsPrefix(f, g)
<1>1. Len(f) \in Nat /\ Len(g) \in Nat
  OBVIOUS
<1>2. SubSeq(f, 1, Len(f)) = [k \in 1..Len(f) |-> f[k]]
  BY <1>1
<1>3. SubSeq(g, 1, Len(f)) = [k \in 1..Len(f) |-> g[k]]
  BY <1>1
<1>4. [k \in 1..Len(f) |-> f[k]] = [k \in 1..Len(f) |-> g[k]]
  OBVIOUS
<1> QED BY <1>2, <1>3, <1>4 DEF Encoding!IsPrefix

LEMMA SameLines ==
  ASSUME NEW f \in Seq(EncodedLines), NEW g \in Seq(EncodedLines), Len(f) = Len(g),
         \A k \in 1..Len(f) : f[k] = g[k]
  PROVE  f = g
<1>1. f = [k \in 1..Len(f) |-> f[k]] /\ g = [k \in 1..Len(g) |-> g[k]]
  OBVIOUS
<1> QED BY <1>1

LEMMA PrefixFromInv == EncodingInv => OneIsPrefix
<1> SUFFICES ASSUME EncodingInv PROVE Encoding!IsPrefix(file[A], file[B]) \/ Encoding!IsPrefix(file[B], file[A])
  BY DEF OneIsPrefix, Encoding!OneIsPrefix
<1>1. file[A] \in Seq(EncodedLines) /\ file[B] \in Seq(EncodedLines)
  BY DEF EncodingInv, EncodingType, Encoding!Outputs
<1>2. Len(file[A]) \in Nat /\ Len(file[B]) \in Nat
  BY <1>1
<1>3. CASE OtherRun
  <2>1. Len(file[A]) = 0 /\ 1..0 = {}
    BY <1>3 DEF OtherRun
  <2> QED BY <1>1, <1>2, <2>1, ShorterIsPrefix
<1>4. CASE Streamed
  <2>1. /\ \A k \in 1..Len(file[A]) : file[A][k] = LineAt(k)
        /\ \A k \in 1..Len(file[B]) : file[B][k] = LineAt(k)
    BY <1>4 DEF Streamed, Encoding!Outputs
  <2>2. CASE Len(file[A]) <= Len(file[B])
    <3>1. \A k \in 1..Len(file[A]) : file[A][k] = file[B][k]
      BY <1>2, <2>1, <2>2
    <3> QED BY <1>1, <2>2, <3>1, ShorterIsPrefix
  <2>3. CASE Len(file[B]) <= Len(file[A])
    <3>1. \A k \in 1..Len(file[B]) : file[B][k] = file[A][k]
      BY <1>2, <2>1, <2>3
    <3> QED BY <1>1, <2>3, <3>1, ShorterIsPrefix
  <2> QED BY <1>2, <2>2, <2>3
<1> QED BY <1>3, <1>4 DEF EncodingInv

LEMMA EncodesSameRowsFromInv == EncodingInv => EncodesSameRows
<1> SUFFICES ASSUME EncodingInv, encoding \in {"done", "raised"}
             PROVE  /\ file[A] = file[B]
                    /\ \A o \in Encoding!Outputs : ~torn[o]
                    /\ \A k \in DOMAIN file[A] : file[A][k].row = k /\ lines[k]
                    /\ encoding = "done" => Len(file[A]) = Len(lines)
                    /\ encoding = "raised" => ~lines[Len(file[A]) + 1]
  BY DEF EncodesSameRows, Encoding!SameRows
<1>1. file[A] \in Seq(EncodedLines) /\ file[B] \in Seq(EncodedLines) /\ row \in Nat /\ Len(lines) \in Nat
  BY DEF EncodingInv, EncodingType, Encoding!Outputs
<1>2. Len(file[A]) = row - 1 /\ Len(file[B]) = row - 1 /\ \A o \in Encoding!Outputs : ~torn[o]
  BY DEF EncodingInv, Ended, Encoding!Outputs
<1>3. /\ \A k \in 1..Len(file[A]) : file[A][k] = LineAt(k)
      /\ \A k \in 1..Len(file[B]) : file[B][k] = LineAt(k)
  BY DEF EncodingInv, OtherRun, Streamed, Encoding!Outputs
<1>4. file[A] = file[B]
  BY <1>1, <1>2, <1>3, SameLines
<1>5. ASSUME NEW k \in DOMAIN file[A] PROVE file[A][k].row = k /\ lines[k]
  <2>1. k \in 1..(row - 1)
    BY <1>1, <1>2
  <2>2. file[A][k] = LineAt(k)
    BY <1>2, <1>3, <2>1
  <2>3. lines[k]
    BY <2>1 DEF EncodingInv, Encodable
  <2> QED BY <2>2, <2>3 DEF LineAt
<1>6. Len(file[A]) + 1 = row
  BY <1>1, <1>2
<1> QED BY <1>2, <1>4, <1>5, <1>6 DEF EncodingInv, Ended

(* The inductive invariant of encode_shares: each file has the whole lines *)
(* of the first rows, wherever its buffer was cut, and the buffer the      *)
(* lines after them (commands.py 91-100).                                  *)
THEOREM EncodingInvariant == FilesSpec => []EncodingInv
<1>1. [FilesNext]_filesVars => [Encoding!Next]_encodingVars
  BY DEF FilesNext, filesVars
<1>2. FilesInit => Encoding!Init
  BY DEF FilesInit
<1> QED BY <1>1, <1>2, EncodingInit, EncodingNext, PTL DEF FilesSpec

(* The whole lines of one file are the first whole lines of the other,     *)
(* wherever a run stops, a torn line at the end of a killed one left aside *)
(* (commands.py 91-100).                                                   *)
THEOREM FilesFit == FilesSpec => []OneIsPrefix
BY EncodingInvariant, PrefixFromInv, PTL

(* A run that is not killed leaves both files with the same rows and no    *)
(* torn line: the rows before the first that cannot be encoded             *)
(* (commands.py 91-100).                                                   *)
THEOREM FilesHaveSameRows == FilesSpec => []EncodesSameRows
BY EncodingInvariant, EncodesSameRowsFromInv, PTL

-----------------------------------------------------------------------------
(* BrowserValidation: the inductive invariant. *)

TestPings ==
  {[prefix |-> None, build |-> TestBuild, bits |-> v, share |-> "valid"] : v \in Validation!Vectors}
AllPings == Pings \cup TestPings

ValidationType ==
  /\ store \subseteq Pings
  /\ testFile \subseteq TestPings
  /\ input \subseteq AllPings
  /\ cached = None \/ cached \in [pings : SUBSET Pings, whole : BOOLEAN]
  /\ option \in Validation!Options

\* What extract reads: pings of the date from valid builds.
Valid(pings) == \A p \in pings : p \in store /\ p.build >= MinBuild

CacheValid == cached # None => Valid(cached.pings)

\* The pings of a run are those of the bucket or of the cache.
InputOfRun ==
  validating \in {"caching", "group", "done"} =>
    /\ validating = "caching" => cached # None
    /\ option.source # "pings" =>
         /\ Valid(input)
         /\ ~option.cache => \A p \in input : p.prefix = option.source
         /\ option.cache => cached # None /\ input = cached.pings
         /\ option.cache /\ validating # "caching" => cached.whole

\* A row of the report is about the pings of its build, all of them decodable.
Reported ==
  \A b \in DOMAIN report :
    /\ report[b] = Validation!Aggregated(Validation!Group(b))
    /\ \A p \in Validation!Group(b) : p.share # "undecodable"

ValidationInv == ValidationType /\ CacheValid /\ InputOfRun /\ Reported

LEMMA ValidationInit == Validation!Init => ValidationInv
BY DEF Validation!Init, ValidationInv, ValidationType, CacheValid, InputOfRun, Reported,
   Validation!NoReport, Validation!Options

LEMMA ValidationNext == ValidationInv /\ [Validation!Next]_validationVars => ValidationInv'
<1> SUFFICES ASSUME ValidationInv, [Validation!Next]_validationVars PROVE ValidationInv'
  OBVIOUS
<1> USE DEF ValidationInv
<1>1. ASSUME NEW p \in Pings, Validation!Upload(p) PROVE ValidationInv'
  <2>1. store' = store \cup {p} /\ UNCHANGED <<testFile, cached, option, validating, input, report>>
    BY <1>1 DEF Validation!Upload
  <2>2. ValidationType'
    BY <2>1 DEF ValidationType
  <2>3. CacheValid' /\ InputOfRun'
    BY <2>1 DEF CacheValid, InputOfRun, Valid
  <2>4. Reported'
    BY <2>1 DEF Reported, Validation!Group
  <2> QED BY <2>2, <2>3, <2>4
<1>2. CASE Validation!Generate
  <2>1. testFile' = TestPings /\ UNCHANGED <<store, cached, option, validating, input, report>>
    BY <1>2 DEF Validation!Generate, TestPings
  <2>2. ValidationType'
    BY <2>1 DEF ValidationType
  <2>3. CacheValid' /\ InputOfRun'
    BY <2>1 DEF CacheValid, InputOfRun, Valid
  <2>4. Reported'
    BY <2>1 DEF Reported, Validation!Group
  <2> QED BY <2>2, <2>3, <2>4
<1>3. ASSUME NEW opt \in Validation!Options, Validation!Run(opt) PROVE ValidationInv'
  <2>1. option' = opt /\ report' = Validation!NoReport /\ UNCHANGED <<store, testFile>>
    BY <1>3 DEF Validation!Run
  <2>2. Reported'
    BY <2>1 DEF Reported, Validation!NoReport
  <2>3. CASE opt.source = "pings" /\ input' = testFile /\ validating' = "group" /\ cached' = cached
    <3>1. ValidationType'
      BY <2>1, <2>3 DEF ValidationType, AllPings
    <3>2. CacheValid' /\ InputOfRun'
      BY <2>1, <2>3 DEF CacheValid, InputOfRun, Valid
    <3> QED BY <2>2, <3>1, <3>2
  <2>4. CASE /\ Validation!UsesCache(opt) /\ input' = cached.pings /\ cached' = cached
             /\ validating' = IF cached.whole THEN "group" ELSE "bad_cache"
    <3>1. opt.cache /\ cached # None /\ cached.pings \subseteq Pings
      BY <2>4 DEF Validation!UsesCache, ValidationType
    <3>2. ValidationType'
      BY <2>1, <2>4, <3>1 DEF ValidationType, AllPings
    <3>3. CacheValid' /\ Valid(input)'
      BY <2>1, <2>4, <3>1 DEF CacheValid, Valid
    <3>4. InputOfRun'
      BY <2>1, <2>4, <3>1, <3>3 DEF InputOfRun
    <3> QED BY <2>2, <3>2, <3>3, <3>4
  <2>5. CASE input' = {} /\ validating' = "no_files" /\ cached' = cached
    <3>1. ValidationType'
      BY <2>1, <2>5 DEF ValidationType
    <3>2. CacheValid' /\ InputOfRun'
      BY <2>1, <2>5 DEF CacheValid, InputOfRun, Valid
    <3> QED BY <2>2, <3>1, <3>2
  <2>6. CASE /\ input' = Validation!Loaded(opt.source)
             /\ validating' = IF opt.cache THEN "caching" ELSE "group"
             /\ cached' = IF opt.cache THEN [pings |-> input', whole |-> FALSE] ELSE cached
    <3>1. input' \subseteq Pings /\ \A p \in input' : p \in store /\ p.prefix = opt.source /\ p.build >= MinBuild
      BY <2>6 DEF Validation!Loaded, ValidationType
    <3>2. Valid(input)'
      BY <2>1, <3>1 DEF Valid
    <3>3. CASE opt.cache
      <4>1. cached' = [pings |-> input', whole |-> FALSE] /\ validating' = "caching"
        BY <2>6, <3>3
      <4>2. cached' \in [pings : SUBSET Pings, whole : BOOLEAN] /\ cached'.pings = input'
        BY <3>1, <4>1
      <4>3. cached' # None
        BY <4>2, NoneIsNoCache
      <4>4. ValidationType'
        BY <2>1, <3>1, <4>2 DEF ValidationType, AllPings
      <4>5. CacheValid' /\ InputOfRun'
        BY <2>1, <3>2, <3>3, <4>1, <4>2, <4>3 DEF CacheValid, InputOfRun, Valid
      <4> QED BY <2>2, <4>4, <4>5
    <3>4. CASE ~opt.cache
      <4>1. cached' = cached /\ validating' = "group"
        BY <2>6, <3>4
      <4>2. ValidationType'
        BY <2>1, <3>1, <4>1 DEF ValidationType, AllPings
      <4>3. CacheValid'
        BY <2>1, <4>1 DEF CacheValid, Valid
      <4>4. InputOfRun'
        BY <2>1, <3>1, <3>2, <3>4, <4>1 DEF InputOfRun
      <4> QED BY <2>2, <4>2, <4>3, <4>4
    <3> QED BY <3>3, <3>4
  <2> QED BY <1>3, <2>3, <2>4, <2>5, <2>6 DEF Validation!Run
<1>4. CASE Validation!FinishCache
  <2>1. /\ validating = "caching" /\ validating' = "group" /\ cached' = [cached EXCEPT !.whole = TRUE]
        /\ UNCHANGED <<store, testFile, option, input, report>>
    BY <1>4 DEF Validation!FinishCache
  <2>2. cached \in [pings : SUBSET Pings, whole : BOOLEAN] /\ cached # None
    BY <2>1 DEF ValidationType, InputOfRun
  <2>3. /\ cached' \in [pings : SUBSET Pings, whole : BOOLEAN]
        /\ cached'.pings = cached.pings /\ cached'.whole
    BY <2>1, <2>2
  <2>4. cached' # None
    BY <2>3, NoneIsNoCache
  <2>5. ValidationType' /\ CacheValid'
    BY <2>1, <2>2, <2>3, <2>4 DEF ValidationType, CacheValid, Valid
  <2>6. InputOfRun'
    BY <2>1, <2>2, <2>3, <2>4 DEF InputOfRun, Valid
  <2>7. Reported'
    BY <2>1 DEF Reported, Validation!Group
  <2> QED BY <2>5, <2>6, <2>7
<1>5. CASE Validation!Crash
  <2>1. validating' = "crashed" /\ UNCHANGED <<store, testFile, cached, option, input, report>>
    BY <1>5 DEF Validation!Crash
  <2>2. ValidationType' /\ CacheValid' /\ InputOfRun'
    BY <2>1 DEF ValidationType, CacheValid, InputOfRun, Valid
  <2>3. Reported'
    BY <2>1 DEF Reported, Validation!Group
  <2> QED BY <2>2, <2>3
<1>6. ASSUME NEW b, Validation!AggregateGroup(b) PROVE ValidationInv'
  <2>1. /\ validating = "group" /\ validating' \in {"group", "done"}
        /\ \A p \in Validation!Group(b) : p.share # "undecodable"
        /\ report' = [c \in DOMAIN report \cup {b} |->
                        IF c = b THEN Validation!Aggregated(Validation!Group(b)) ELSE report[c]]
        /\ UNCHANGED <<store, testFile, cached, option, input>>
    BY <1>6 DEF Validation!AggregateGroup
  <2>2. ValidationType' /\ CacheValid'
    BY <2>1 DEF ValidationType, CacheValid, Valid
  <2>3. InputOfRun'
    BY <2>1 DEF InputOfRun, Valid
  <2>4. \A c : Validation!Group(c)' = Validation!Group(c)
    BY <2>1 DEF Validation!Group
  <2>5. Reported'
    BY <2>1, <2>4 DEF Reported
  <2> QED BY <2>2, <2>3, <2>5
<1>7. ASSUME NEW b, Validation!FailGroup(b) PROVE ValidationInv'
  <2>1. /\ validating' = "undecodable" /\ report' = Validation!NoReport
        /\ UNCHANGED <<store, testFile, cached, option, input>>
    BY <1>7 DEF Validation!FailGroup
  <2>2. ValidationType' /\ CacheValid' /\ InputOfRun'
    BY <2>1 DEF ValidationType, CacheValid, InputOfRun, Valid
  <2>3. Reported'
    BY <2>1 DEF Reported, Validation!NoReport
  <2> QED BY <2>2, <2>3
<1>8. CASE Validation!Nothing
  <2>1. /\ validating = "group" /\ validating' = "done"
        /\ UNCHANGED <<store, testFile, cached, option, input, report>>
    BY <1>8 DEF Validation!Nothing
  <2>2. ValidationType' /\ CacheValid' /\ InputOfRun'
    BY <2>1 DEF ValidationType, CacheValid, InputOfRun, Valid
  <2>3. Reported'
    BY <2>1 DEF Reported, Validation!Group
  <2> QED BY <2>2, <2>3
<1>9. CASE UNCHANGED validationVars
  <2>1. UNCHANGED <<store, testFile, cached, option, validating, input, report>>
    BY <1>9 DEF validationVars
  <2>2. ValidationType' /\ CacheValid' /\ InputOfRun'
    BY <2>1 DEF ValidationType, CacheValid, InputOfRun, Valid
  <2>3. Reported'
    BY <2>1 DEF Reported, Validation!Group
  <2> QED BY <2>2, <2>3
<1> QED BY <1>1, <1>2, <1>3, <1>4, <1>5, <1>6, <1>7, <1>8, <1>9 DEF Validation!Next, Validation!Step

-----------------------------------------------------------------------------
(* BrowserValidation: the properties. *)

(* There are finitely many test pings: one for each set of fields.         *)
LEMMA TestPingsAreFinite == IsFiniteSet(TestPings)
<1> DEFINE bits == [p \in TestPings |-> {f \in Validation!Fields : p.bits[f] = 1}]
<1>1. IsFiniteSet(Validation!Fields)
  <2>1. IsFiniteSet({"default"}) /\ IsFiniteSet({"newtab"}) /\ IsFiniteSet({"pdf"})
    BY FS_Singleton
  <2>2. IsFiniteSet({"default"} \cup {"newtab"})
    BY <2>1, FS_Union
  <2>3. IsFiniteSet(({"default"} \cup {"newtab"}) \cup {"pdf"})
    BY <2>1, <2>2, FS_Union
  <2>4. Validation!Fields = ({"default"} \cup {"newtab"}) \cup {"pdf"}
    BY DEF Validation!Fields
  <2> QED BY <2>3, <2>4
<1>2. IsFiniteSet(SUBSET Validation!Fields)
  BY <1>1, FS_SUBSET
<1>3. ASSUME NEW p \in TestPings, NEW q \in TestPings, bits[p] = bits[q] PROVE p = q
  <2>1. PICK v \in Validation!Vectors : p = [prefix |-> None, build |-> TestBuild, bits |-> v, share |-> "valid"]
    BY DEF TestPings
  <2>2. PICK w \in Validation!Vectors : q = [prefix |-> None, build |-> TestBuild, bits |-> w, share |-> "valid"]
    BY DEF TestPings
  <2>3. bits[p] = {f \in Validation!Fields : v[f] = 1} /\ bits[q] = {f \in Validation!Fields : w[f] = 1}
    BY <2>1, <2>2
  <2>4. v \in [Validation!Fields -> 0..1] /\ w \in [Validation!Fields -> 0..1]
    BY DEF Validation!Vectors
  <2>5. ASSUME NEW f \in Validation!Fields PROVE v[f] = w[f]
    <3>1. v[f] = 1 <=> w[f] = 1
      BY <1>3, <2>3
    <3>2. v[f] \in {0, 1} /\ w[f] \in {0, 1}
      BY <2>4
    <3> QED BY <3>1, <3>2
  <2>6. v = w
    BY <2>4, <2>5
  <2> QED BY <2>1, <2>2, <2>6
<1>4. bits \in Injection(TestPings, SUBSET Validation!Fields)
  <2>1. bits \in [TestPings -> SUBSET Validation!Fields]
    OBVIOUS
  <2> HIDE DEF bits
  <2> QED BY <1>3, <2>1 DEF Injection, IsInjective
<1> HIDE DEF bits
<1> QED BY <1>2, <1>4, FS_Injection

(* The instance brings its own copy of the definition.                     *)
LEMMA CountsAgree == ASSUME NEW S PROVE Validation!Cardinality(S) = Cardinality(S)
BY DEF Validation!Cardinality, Cardinality

(* Two groups without a common ping.                                       *)
LEMMA TotalOfBoth ==
  ASSUME NEW P, IsFiniteSet(P), NEW Q, IsFiniteSet(Q), P \cap Q = {}, NEW f
  PROVE  /\ Validation!Total(P, f) \in Nat /\ Validation!Total(Q, f) \in Nat
         /\ Validation!Total(P \cup Q, f) = Validation!Total(P, f) + Validation!Total(Q, f)
         /\ Cardinality(P) \in Nat /\ Cardinality(Q) \in Nat
         /\ Cardinality(P \cup Q) = Cardinality(P) + Cardinality(Q)
<1> DEFINE With(S) == {p \in S : p.bits[f] = 1}
<1>1. IsFiniteSet(With(P)) /\ IsFiniteSet(With(Q))
  BY FS_Subset
<1>2. With(P \cup Q) = With(P) \cup With(Q) /\ With(P) \cap With(Q) = {}
  OBVIOUS
<1>5. ASSUME NEW S PROVE Validation!Total(S, f) = Cardinality(With(S))
  BY CountsAgree DEF Validation!Total
<1> HIDE DEF With
<1>3. /\ Cardinality(With(P)) \in Nat /\ Cardinality(With(Q)) \in Nat
      /\ Cardinality(With(P) \cup With(Q)) = Cardinality(With(P)) + Cardinality(With(Q))
  <2>1. Cardinality(With(P) \cup With(Q))
          = Cardinality(With(P)) + Cardinality(With(Q)) - Cardinality(With(P) \cap With(Q))
    BY <1>1, FS_Union
  <2>2. Cardinality(With(P) \cap With(Q)) = 0
    BY <1>2, FS_EmptySet
  <2>3. Cardinality(With(P)) \in Nat /\ Cardinality(With(Q)) \in Nat
    BY <1>1, FS_CardinalityType
  <2> QED BY <2>1, <2>2, <2>3
<1>4. /\ Cardinality(P) \in Nat /\ Cardinality(Q) \in Nat
      /\ Cardinality(P \cup Q) = Cardinality(P) + Cardinality(Q)
  <2>1. Cardinality(P \cup Q) = Cardinality(P) + Cardinality(Q) - Cardinality(P \cap Q)
    BY FS_Union
  <2> QED BY <2>1, FS_EmptySet, FS_CardinalityType
<1> QED BY <1>2, <1>3, <1>4, <1>5

(* The pings of a group without undecodable ones are added, null or        *)
(* forged.                                                                 *)
LEMMA AggregatedExplained ==
  ASSUME NEW group, group \subseteq AllPings, \A p \in group : p.share # "undecodable"
  PROVE  LET rejected == {p \in group : p.share \in {"null", "forged"}}
             result == Validation!Aggregated(group)
         IN  /\ result.diff = [f \in Validation!Fields |-> Validation!Total(rejected, f)]
             /\ result.null + result.invalid = Validation!Cardinality(rejected)
             /\ result.count = result.null + result.invalid + Validation!Cardinality(Validation!Added(group))
<1> DEFINE added == {p \in group : p.share = "valid"}
           null == {p \in group : p.share = "null"}
           forged == {p \in group : p.share = "forged"}
           rejected == {p \in group : p.share \in {"null", "forged"}}
           result == Validation!Aggregated(group)
<1>1. Validation!Added(group) = added
  BY DEF Validation!Added
<1>2. \A p \in group : p.share \in {"valid", "forged", "null"}
  <2>1. \A p \in Pings : p.share \in {"valid", "forged", "undecodable", "null"}
    BY PingsType DEF Validation!Shares
  <2>2. \A p \in TestPings : p.share = "valid"
    BY DEF TestPings
  <2> QED BY <2>1, <2>2 DEF AllPings
<1>3. IsFiniteSet(group)
  <2>1. IsFiniteSet(AllPings)
    BY PingsAreFinite, TestPingsAreFinite, FS_Union DEF AllPings
  <2> QED BY <2>1, FS_Subset
<1>4. IsFiniteSet(added) /\ IsFiniteSet(null) /\ IsFiniteSet(forged) /\ IsFiniteSet(rejected)
  BY <1>3, FS_Subset
<1>5. /\ group = added \cup rejected /\ added \cap rejected = {}
      /\ rejected = null \cup forged /\ null \cap forged = {}
  BY <1>2
<1>6. /\ result.diff = [f \in Validation!Fields |-> Validation!Total(group, f) - Validation!Total(added, f)]
      /\ result.null = Cardinality(null) /\ result.invalid = Cardinality(forged) /\ result.count = Cardinality(group)
  <2>1. result = [diff |-> [f \in Validation!Fields |->
                              Validation!Control(group)[f] - Validation!Total(added, f)],
                  observed |-> [f \in Validation!Fields |-> Validation!Total(added, f)],
                  null |-> Cardinality(null),
                  invalid |-> Cardinality(forged),
                  count |-> Cardinality(group)]
    BY <1>1, CountsAgree DEF Validation!Aggregated
  <2>2. \A f \in Validation!Fields : Validation!Control(group)[f] = Validation!Total(group, f)
    BY DEF Validation!Control
  <2> QED BY <2>1, <2>2
<1> HIDE DEF added, null, forged, rejected, result
<1>7. \A f \in Validation!Fields : Validation!Total(group, f) - Validation!Total(added, f) = Validation!Total(rejected, f)
  <2>1. ASSUME NEW f
        PROVE  /\ Validation!Total(added, f) \in Nat /\ Validation!Total(rejected, f) \in Nat
               /\ Validation!Total(group, f) = Validation!Total(added, f) + Validation!Total(rejected, f)
    <3>1. /\ Validation!Total(added, f) \in Nat /\ Validation!Total(rejected, f) \in Nat
          /\ Validation!Total(added \cup rejected, f) = Validation!Total(added, f) + Validation!Total(rejected, f)
      <4>1. IsFiniteSet(added) /\ IsFiniteSet(rejected) /\ added \cap rejected = {}
        BY <1>4, <1>5
      <4>2. \A P, Q : IsFiniteSet(P) /\ IsFiniteSet(Q) /\ P \cap Q = {} =>
              /\ Validation!Total(P, f) \in Nat /\ Validation!Total(Q, f) \in Nat
              /\ Validation!Total(P \cup Q, f) = Validation!Total(P, f) + Validation!Total(Q, f)
        BY TotalOfBoth
      <4> QED BY <4>1, <4>2
    <3> QED BY <1>5, <3>1
  <2> QED BY <2>1
<1>8. /\ Cardinality(null) \in Nat /\ Cardinality(forged) \in Nat /\ Cardinality(added) \in Nat
      /\ Cardinality(rejected) = Cardinality(null) + Cardinality(forged)
      /\ Cardinality(group) = Cardinality(added) + Cardinality(rejected)
  BY <1>4, <1>5, TotalOfBoth
<1>9. result.diff = [f \in Validation!Fields |-> Validation!Total(rejected, f)]
  BY <1>6, <1>7
<1>10. result.null + result.invalid = Cardinality(rejected) /\ result.count = result.null + result.invalid + Cardinality(added)
  BY <1>6, <1>8
<1> QED BY <1>1, <1>9, <1>10, CountsAgree DEF rejected, result

LEMMA DiffExplainedFromInv == ValidationInv => DiffExplained
<1>1. ASSUME ValidationInv, NEW b \in DOMAIN report
      PROVE  /\ report[b] = Validation!Aggregated(Validation!Group(b))
             /\ Validation!Group(b) \subseteq AllPings
             /\ \A p \in Validation!Group(b) : p.share # "undecodable"
  BY <1>1 DEF ValidationInv, ValidationType, Validation!Group, Reported
<1> QED BY <1>1, AggregatedExplained DEF DiffExplained, Validation!DiffExplained

LEMMA ReportOfDayFromInv == ValidationInv => ReportOfDay
BY DEF ReportOfDay, Validation!ReportOfDay, ValidationInv, ValidationType, InputOfRun, Valid

(* The inductive invariant of the validation program: what a run reads was *)
(* uploaded for the date and built late enough, from the source it was     *)
(* asked for or from the one whole cache file, and a row of the report is  *)
(* about the pings of its build (main.py 20-123).                          *)
THEOREM ValidationInvariant == FilesSpec => []ValidationInv
<1>1. [FilesNext]_filesVars => [Validation!Next]_validationVars
  BY DEF FilesNext, filesVars
<1>2. FilesInit => Validation!Init
  BY DEF FilesInit
<1> QED BY <1>1, <1>2, ValidationInit, ValidationNext, PTL DEF FilesSpec

(* A difference between the histograms and the sums is the bits of the     *)
(* pings that were not added, and the counters say how many those are      *)
(* (browser-validation/main.py 75-123).                                    *)
THEOREM DifferencesAreExplained == FilesSpec => []DiffExplained
BY ValidationInvariant, DiffExplainedFromInv, PTL

(* A report is about the pings that were asked for, or those of the cache  *)
(* (browser-validation/main.py 20-43).                                     *)
THEOREM ReportsAreOfTheDay == FilesSpec => []ReportOfDay
BY ValidationInvariant, ReportOfDayFromInv, PTL
=============================================================================
