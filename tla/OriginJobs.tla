----------------------------- MODULE OriginJobs -----------------------------
(***************************************************************************)
(* The two ends of the pipeline in prio_processor/origin: the job that     *)
(* makes share data of pings (Staging), and the one that relates published *)
(* aggregates to origins (OriginIndex).  They share no data and run on     *)
(* different days, so each behaviour is one of either program.             *)
(***************************************************************************)
EXTENDS Staging, Sequences

CONSTANTS
  Lists, Cuts, Configs, MaxAggregates, Comment, Unknown, Odd, None

VARIABLES
  program,     \* the program at work
  origins, fetched, config, aggregates, indexed, read, indexing

Indexing == INSTANCE OriginIndex WITH output <- indexed, status <- indexing

ASSUME ListsOfLines == Lists \subseteq Seq(Nat \cup {Comment})
ASSUME CutsArePositive == Cuts \subseteq Nat \ {0}
ASSUME ConfigsOfParts ==
  \A c \in Configs :
    DOMAIN c \subseteq Indexing!Parts /\ \A p \in DOMAIN c : c[p] \in Nat \ {0}
ASSUME UnknownIsNoOrigin == Unknown \notin Nat \cup {Comment}
ASSUME OddIsNoPart == Odd \notin {0, 1, 2}
ASSUME NoneIsNoList == None \notin Seq(Nat \cup {Comment, Unknown})

indexingVars == <<origins, fetched, config, aggregates, indexed, read, indexing>>
originVars == <<vars, indexingVars, program>>

OriginInit ==
  /\ program \in {"staging", "indexing"}
  /\ Init /\ Indexing!Init

OriginNext ==
  \/ program = "staging" /\ Next /\ UNCHANGED <<indexingVars, program>>
  \/ program = "indexing" /\ Indexing!Next /\ UNCHANGED <<vars, program>>

OriginSpec == OriginInit /\ [][OriginNext]_originVars
-----------------------------------------------------------------------------
(* Properties of OriginIndex, under names of this module. *)

\* The count of an origin is never reported as that of another one, if the list
\* has only grown at its end and the parts are configured as the clients cut
\* them (indexing.py 64-79).
NeverSwapped == Indexing!NeverSwapped

\* Nor is a count dropped, if the list is not shorter than that of the clients
\* (indexing.py 75-79).
NothingDropped == Indexing!NothingDropped
=============================================================================
