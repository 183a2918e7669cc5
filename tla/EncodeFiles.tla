----------------------------- MODULE EncodeFiles -----------------------------
(***************************************************************************)
(* The command encode_shares on files (prio_processor/prio/commands.py):   *)
(* one input file becomes two share files, written side by side through    *)
(* buffers of their own.  The servers will match the lines of the two      *)
(* files, so what counts is what the two have in common when the command   *)
(* ends in the middle: by a row it cannot encode, a directory that is not  *)
(* there, or a kill.  The buffers are emptied at any byte, not at the end  *)
(* of a line, so a kill may leave part of a line at the end of a file.     *)
(***************************************************************************)
EXTENDS Naturals, Sequences, SequencesExt

CONSTANTS
  A, B,      \* the two outputs
  MaxRows,   \* bound: lines of an input file
  MaxRuns    \* bound: runs of the command

Outputs == {A, B}

VARIABLES
  input,   \* for each row of the input, whether it can be encoded
  row,     \* the row the loop has come to
  buffer,  \* buffer[o]: lines of o that are not in the file yet
  file,    \* file[o]: whole lines in the output file
  torn,    \* torn[o]: the file ends in part of one more line
  calls,   \* calls to PrioClient_encode so far: each draws its shares and an id
  phase,
  runs

vars == <<input, row, buffer, file, torn, calls, phase, runs>>

Init ==
  /\ input = <<>> /\ row = 1
  /\ buffer = [o \in Outputs |-> <<>>] /\ file = [o \in Outputs |-> <<>>]
  /\ torn = [o \in Outputs |-> FALSE]
  /\ calls = 0 /\ phase = "idle" /\ runs = 0
-----------------------------------------------------------------------------
\* The first output is opened, and emptied, before the second one.
OpenA ==
  /\ phase \notin {"opened_A", "loop"} /\ runs < MaxRuns
  /\ runs' = runs + 1
  /\ input' \in SeqOf(BOOLEAN, MaxRows) /\ row' = 1
  /\ buffer' = [o \in Outputs |-> <<>>]
  /\ file' = [file EXCEPT ![A] = <<>>] /\ torn' = [torn EXCEPT ![A] = FALSE]
  /\ phase' = "opened_A"
  /\ UNCHANGED calls

OpenB ==
  /\ phase = "opened_A"
  /\ file' = [file EXCEPT ![B] = <<>>] /\ torn' = [torn EXCEPT ![B] = FALSE]
  /\ phase' = "loop"
  /\ UNCHANGED <<input, row, buffer, calls, runs>>

NoDirectoryB ==
  /\ phase = "opened_A" /\ phase' = "not_opened"
  /\ UNCHANGED <<input, row, buffer, file, torn, calls, runs>>

Encodes == row <= Len(input) /\ input[row]

\* Mutant: each line has a share and an id of its own call.
LineOfOwn(o) == [row |-> row, call |-> IF o = A THEN calls + 1 ELSE calls + 2]

LineOf(o) == [row |-> row, call |-> calls + 1]

EncodeRow ==
  /\ phase = "loop" /\ Encodes
  /\ buffer' = [o \in Outputs |-> Append(buffer[o], LineOf(o))]
  /\ calls' = calls + 1 /\ row' = row + 1
  /\ UNCHANGED <<input, file, torn, phase, runs>>

\* A buffer is full, the other one need not be: n lines of it go to the file,
\* and it may be part of the next.
Spill(o) ==
  /\ phase = "loop"
  /\ \E n \in 0..Len(buffer[o]), part \in BOOLEAN :
       /\ n > 0 \/ part
       /\ part => n < Len(buffer[o])
       /\ file' = [file EXCEPT ![o] = @ \o SubSeq(buffer[o], 1, n)]
       /\ buffer' = [buffer EXCEPT ![o] = SubSeq(@, n + 1, Len(@))]
       /\ torn' = [torn EXCEPT ![o] = part]
  /\ UNCHANGED <<input, row, calls, phase, runs>>

\* Mutant: only the first output is flushed.
FlushedA == [file EXCEPT ![A] = @ \o buffer[A]]

\* Leaving the with statement, by an exception or not, closes both files.
Flushed == [o \in Outputs |-> file[o] \o buffer[o]]

Close(ending) ==
  /\ file' = Flushed
  /\ torn' = [o \in Outputs |-> FALSE]
  /\ buffer' = [o \in Outputs |-> <<>>]
  /\ phase' = ending
  /\ UNCHANGED <<input, row, calls, runs>>

Finish == phase = "loop" /\ row > Len(input) /\ Close("done")

\* PrioClient_encode, or bytes before it, raises, and nothing catches it.
Raise == phase = "loop" /\ row <= Len(input) /\ ~Encodes /\ Close("raised")

Kill ==
  /\ phase \in {"opened_A", "loop"} /\ phase' = "killed"
  /\ buffer' = [o \in Outputs |-> <<>>]
  /\ UNCHANGED <<input, row, file, torn, calls, runs>>

Next ==
  \/ OpenA \/ OpenB \/ NoDirectoryB
  \/ EncodeRow \/ \E o \in Outputs : Spill(o)
  \/ Finish \/ Raise \/ Kill

Spec == Init /\ [][Next]_vars
-----------------------------------------------------------------------------
(* Properties. *)

\* Wherever a run stops, and whatever an earlier run had left in the two
\* places, the whole lines of one file are the first whole lines of the other:
\* a server may miss rows of its peer, but the rows both have fit.  Nothing is
\* said of the torn line a kill may leave at the end of a file, which is no row
\* (commands.py 91-100).
OneIsPrefix == IsPrefix(file[A], file[B]) \/ IsPrefix(file[B], file[A])

\* A run that is not killed leaves both files with the same rows, and no torn
\* line: all rows, or those before the first that cannot be encoded, which the
\* command does not skip as its Spark counterpart does (commands.py 91-100,
\* udf.py 50-54).
SameRows ==
  phase \in {"done", "raised"} =>
    /\ file[A] = file[B]
    /\ \A o \in Outputs : ~torn[o]
    /\ \A k \in DOMAIN file[A] : file[A][k].row = k /\ input[k]
    /\ phase = "done" => Len(file[A]) = Len(input)
    /\ phase = "raised" => ~input[Len(file[A]) + 1]
=============================================================================
