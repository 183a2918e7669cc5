----------------------------- MODULE ShareFiles -----------------------------
(***************************************************************************)
(* The programs that make or check share data outside of the pipeline:     *)
(* generation of test data (ShareGeneration), encoding of a file           *)
(* (EncodeFiles), and validation of a day's pings (BrowserValidation).     *)
(* They share no data, so each behaviour is one of a single program.       *)
(***************************************************************************)
EXTENDS ShareGeneration, Integers

CONSTANTS
  MaxRows, MaxRuns,
  Pings, Prefixes, MinBuild, TestBuild, None

VARIABLES
  program,   \* the program at work
  lines, row, buffer, file, torn, calls, encoding, encodings,
  store, testFile, cached, option, validating, input, builds, report, validations

ASSUME ServersDiffer == A # B

Encoding == INSTANCE EncodeFiles WITH
  input <- lines, phase <- encoding, runs <- encodings
Validation == INSTANCE BrowserValidation WITH
  file <- testFile, phase <- validating, left <- builds, runs <- validations

\* Pings are decoded against the schema of the ping, which has three bits.
ASSUME PingsType ==
  Pings \subseteq [prefix : Prefixes, build : Int, bits : Validation!Vectors, share : Validation!Shares]
ASSUME PingsAreFinite == IsFiniteSet(Pings)
ASSUME BuildsAreNumbers == MinBuild \in Int /\ TestBuild \in Int
ASSUME NoneIsNoCache == None \notin [pings : SUBSET Pings, whole : BOOLEAN]

encodingVars == <<lines, row, buffer, file, torn, calls, encoding, encodings>>
validationVars ==
  <<store, testFile, cached, option, validating, input, builds, report, validations>>
filesVars == <<vars, encodingVars, validationVars, program>>

FilesInit ==
  /\ program \in {"generation", "encoding", "validation"}
  /\ Init /\ Encoding!Init /\ Validation!Init

FilesNext ==
  \/ /\ program = "generation" /\ Next
     /\ UNCHANGED <<encodingVars, validationVars, program>>
  \/ /\ program = "encoding" /\ Encoding!Next
     /\ UNCHANGED <<vars, validationVars, program>>
  \/ /\ program = "validation" /\ Validation!Next
     /\ UNCHANGED <<vars, encodingVars, program>>

FilesSpec == FilesInit /\ [][FilesNext]_filesVars

-----------------------------------------------------------------------------
(* Properties of EncodeFiles and BrowserValidation, under names of this      *)
(* module.                                                                   *)

\* The whole lines of one file are the first whole lines of the other
\* (prio/commands.py 91-100).
OneIsPrefix == Encoding!OneIsPrefix

\* A run that is not killed leaves both files with the same rows and no torn
\* line (prio/commands.py 91-100).
EncodesSameRows == Encoding!SameRows

\* A difference between histograms and sums is that of the pings that were not
\* added (browser-validation/main.py 75-123).
DiffExplained == Validation!DiffExplained

\* A report is about the pings that were asked for, or the cache
\* (browser-validation/main.py 20-43).
ReportOfDay == Validation!ReportOfDay
=============================================================================
