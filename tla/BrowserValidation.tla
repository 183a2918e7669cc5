-------------------------- MODULE BrowserValidation --------------------------
(***************************************************************************)
(* The pilot's validation program (examples/browser-validation): pings     *)
(* carry three histograms in the clear and the same three bits as shares;  *)
(* per build, both servers aggregate the shares in one process and the     *)
(* sums are compared.  generate.py writes a file of test pings.            *)
(*                                                                         *)
(* Pings of a day arrive while the program is run again and again; with    *)
(* --cache it keeps what it has read in a file named after the date alone. *)
(***************************************************************************)
EXTENDS Integers, FiniteSets

CONSTANTS
  Pings,      \* pings that may arrive: [prefix, build, bits, share]
  Prefixes,   \* locations in the bucket
  MinBuild,   \* builds are numbers
  TestBuild,  \* batch id of generate.py
  MaxRuns,    \* bound: runs of the program
  None        \* no file

Fields == {"default", "newtab", "pdf"}
Vectors == [Fields -> 0..1]
Shares == {"valid", "forged", "undecodable", "null"}

VARIABLES
  store,     \* pings in the bucket for the date
  file,      \* test pings written by generate.py
  cached,    \* the cache file for the date: [pings, whole], or None
  option,    \* options of the run: source and cache
  phase,
  input,     \* the data frame of the run
  left,      \* builds that apply has not come to
  report,    \* rows of the result so far, by build
  runs

vars == <<store, file, cached, option, phase, input, left, report, runs>>

NoReport == [b \in {} |-> 0]

Init ==
  /\ store = {} /\ file = {} /\ cached = None
  /\ option = [source |-> "pings", cache |-> FALSE]
  /\ phase = "idle" /\ input = {} /\ left = {} /\ report = NoReport /\ runs = 0
-----------------------------------------------------------------------------
Upload(p) ==
  /\ p \notin store
  /\ store' = store \cup {p}
  /\ UNCHANGED <<file, cached, option, phase, input, left, report, runs>>

\* generate.py: a ping for each vector, its histograms in the order of the bits.
Generate ==
  /\ file = {}
  /\ file' = {[prefix |-> None, build |-> TestBuild, bits |-> v, share |-> "valid"] : v \in Vectors}
  /\ UNCHANGED <<store, cached, option, phase, input, left, report, runs>>

Builds(pings) == {p.build : p \in pings}

\* Mutant: old builds are only left out of the cache.
Unfiltered(prefix) == {p \in store : p.prefix = prefix}

\* The parquet files of the date, from the first valid build on.
Loaded(prefix) == {p \in store : p.prefix = prefix /\ p.build >= MinBuild}

UsesCache(opt) == opt.cache /\ cached # None

\* main and extract: --pings, the cache file, or the bucket.
Run(opt) ==
  /\ phase \notin {"group", "caching"} /\ runs < MaxRuns
  /\ runs' = runs + 1 /\ option' = opt /\ report' = NoReport
  /\ \/ /\ opt.source = "pings" /\ file # {}
        /\ input' = file /\ phase' = "group"
        /\ UNCHANGED cached
     \/ /\ opt.source \in Prefixes /\ UsesCache(opt)
        /\ input' = cached.pings
        /\ phase' = IF cached.whole THEN "group" ELSE "bad_cache"
        /\ UNCHANGED cached
     \/ /\ opt.source \in Prefixes /\ ~UsesCache(opt)
        /\ \A p \in store : p.prefix # opt.source
        /\ input' = {} /\ phase' = "no_files"
        /\ UNCHANGED cached
     \/ /\ opt.source \in Prefixes /\ ~UsesCache(opt)
        /\ \E p \in store : p.prefix = opt.source
        /\ input' = Loaded(opt.source)
        /\ phase' = IF opt.cache THEN "caching" ELSE "group"
        /\ cached' = IF opt.cache THEN [pings |-> input', whole |-> FALSE] ELSE cached
  /\ left' = Builds(input')
  /\ UNCHANGED <<store, file>>

\* to_parquet has written its footer.
FinishCache ==
  /\ phase = "caching"
  /\ cached' = [cached EXCEPT !.whole = TRUE]
  /\ phase' = "group"
  /\ UNCHANGED <<store, file, option, input, left, report, runs>>

Crash ==
  /\ phase \in {"caching", "group"}
  /\ phase' = "crashed"
  /\ UNCHANGED <<store, file, cached, option, input, left, report, runs>>
-----------------------------------------------------------------------------
(* prio_aggregate *)

\* A bit is 0 or 1.
Total(pings, f) == Cardinality({p \in pings : p.bits[f] = 1})

\* Mutant: the columns of the control values are in another order.
ControlSwapped(group) ==
  [f \in Fields |-> Total(group, CASE f = "newtab" -> "pdf" [] f = "pdf" -> "newtab" [] OTHER -> f)]

Control(group) == [f \in Fields |-> Total(group, f)]

\* Pings both servers find valid.
Added(group) == {p \in group : p.share = "valid"}

Aggregated(group) ==
  LET added == Added(group)
      null == {p \in group : p.share = "null"}
  IN  [diff |-> [f \in Fields |-> Control(group)[f] - Total(added, f)],
       observed |-> [f \in Fields |-> Total(added, f)],
       null |-> Cardinality(null),
       invalid |-> Cardinality({p \in group : p.share = "forged"}),
       count |-> Cardinality(group)]

Group(b) == {p \in input : p.build = b}

\* create_verifier raises on a share it cannot decode, and nothing catches it.
AggregateGroup(b) ==
  /\ phase = "group" /\ b \in left
  /\ \A p \in Group(b) : p.share # "undecodable"
  /\ report' = [c \in DOMAIN report \cup {b} |-> IF c = b THEN Aggregated(Group(b)) ELSE report[c]]
  /\ left' = left \ {b}
  /\ phase' = IF left' = {} THEN "done" ELSE phase
  /\ UNCHANGED <<store, file, cached, option, input, runs>>

FailGroup(b) ==
  /\ phase = "group" /\ b \in left
  /\ \E p \in Group(b) : p.share = "undecodable"
  /\ phase' = "undecodable" /\ report' = NoReport
  /\ UNCHANGED <<store, file, cached, option, input, left, runs>>

\* No ping, no group.
Nothing ==
  /\ phase = "group" /\ input = {}
  /\ phase' = "done"
  /\ UNCHANGED <<store, file, cached, option, input, left, report, runs>>

Options == [source : Prefixes \cup {"pings"}, cache : BOOLEAN]

Step == FinishCache \/ Nothing \/ \E b \in Builds(input) : AggregateGroup(b) \/ FailGroup(b)

Next ==
  \/ \E p \in Pings : Upload(p)
  \/ Generate
  \/ \E opt \in Options : Run(opt)
  \/ Crash \/ Step

Spec == Init /\ [][Next]_vars
-----------------------------------------------------------------------------
(* Properties. *)

\* What validation is for: a difference between the histograms and the sums is
\* the bits of the pings that were not added, the counters say how many those
\* are, and pings of one build do not show in the row of another (main.py
\* 75-123).
DiffExplained ==
  \A b \in DOMAIN report :
    LET rejected == {p \in Group(b) : p.share \in {"null", "forged"}}
    IN  /\ report[b].diff = [f \in Fields |-> Total(rejected, f)]
        /\ report[b].null + report[b].invalid = Cardinality(rejected)
        /\ report[b].count = report[b].null + report[b].invalid + Cardinality(Added(Group(b)))

\* Without --cache a report is about the pings that were asked for; with it,
\* it may be about fewer pings of the day and about another prefix, but never
\* about an older build or a file that a run stopped writing, and it is about
\* the same pings as every other cached report of the date (main.py 20-43).
ReportOfDay ==
  phase = "done" /\ option.source # "pings" =>
    /\ \A p \in input : p \in store /\ p.build >= MinBuild
    /\ ~option.cache => \A p \in input : p.prefix = option.source
    /\ option.cache => cached # None /\ cached.whole /\ input = cached.pings
=============================================================================
