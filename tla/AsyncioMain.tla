----------------------------- MODULE AsyncioMain -----------------------------
(***************************************************************************)
(* examples/asyncio/main.py: the same two servers as coroutines of one     *)
(* process.  main puts all shares into the two queues, starts the          *)
(* consumers, waits for queue_a.join() and queue_b.join(), and reads the   *)
(* totals.  A queue counts the items put and the calls of task_done, and   *)
(* join returns once the count has been zero, whatever is put afterwards.  *)
(***************************************************************************)
EXTENDS PacketExchange

CONSTANT None   \* no output yet

VARIABLES
  unfinished,   \* unfinished[s]: items of queue s without a task_done
  joined,       \* joined[s]: join() of queue s has returned
  main,         \* what main is doing
  output        \* what total_share_final returned

mainVars == <<vars, unfinished, joined, main, output>>

\* The counter of a queue is the length of the queue: no item is done twice,
\* and only the one a consumer died of is never done.
MainTypeOK ==
  /\ TypeOK
  /\ unfinished = [s \in Servers |-> Len(queue[s]) + (IF alive[s] THEN 0 ELSE 1)]
  /\ joined \in [Servers -> BOOLEAN]
  /\ main \in {"produce", "join", "done"}
  /\ output \in Rows \cup {Garbled, None}

MainInit ==
  /\ Init
  /\ unfinished = [s \in Servers |-> 0]
  /\ joined = [s \in Servers |-> FALSE]
  /\ main = "produce"
  /\ output = None

\* client_produce runs to its end before anything else.
ProduceRow ==
  /\ main = "produce"
  /\ \E s \in Servers, i \in Ids :
       /\ Submit(s, i)
       /\ unfinished' = [unfinished EXCEPT ![s] = @ + 1]
  /\ UNCHANGED <<joined, main, output>>

StartConsumers ==
  /\ main = "produce" /\ \A s \in Servers : sent[s] = Ids
  /\ main' = "join"
  /\ UNCHANGED <<vars, unfinished, joined, output>>

\* Mutant: the consumers are started before the shares are produced.
ConsumingEarly == main \in {"produce", "join"}

Consuming == main = "join"

\* Mutant: a verify2 packet is not marked as done.
TasksDoneForgotten(s) ==
  IF alive'[s] /\ Head(queue[s]).type # "verify2" THEN 1 ELSE 0

\* Every branch of the handler calls task_done once, after what it puts.
TasksDone(s) == IF alive'[s] THEN 1 ELSE 0

\* Items the handler of s puts into the queue of t.
Puts(s, t) == Len(queue'[t]) - Len(queue[t]) + (IF s = t THEN 1 ELSE 0)

ConsumePacket(s) ==
  /\ Consuming
  /\ Consume(s)
  /\ unfinished' = [t \in Servers |->
       unfinished[t] + Puts(s, t) - (IF s = t THEN TasksDone(s) ELSE 0)]
  /\ joined' = [joined EXCEPT ![s] = @ \/ unfinished'[s] = 0]
  /\ UNCHANGED <<main, output>>

\* gather returns when both joins have: the totals are read and the consumers
\* cancelled.
ReadTotals ==
  /\ main = "join" /\ \A s \in Servers : joined[s]
  /\ output' = TotalShareFinal(added[A], added[B])
  /\ main' = "done"
  /\ UNCHANGED <<vars, unfinished, joined>>

MainNext ==
  \/ ProduceRow \/ StartConsumers \/ ReadTotals
  \/ \E s \in Servers : ConsumePacket(s)

MainSpec == MainInit /\ [][MainNext]_mainVars

\* The event loop runs main and both consumers, whose sleeps are finite.
FairMainSpec ==
  /\ MainSpec
  /\ WF_mainVars(ProduceRow \/ StartConsumers)
  /\ WF_mainVars(ReadTotals)
  /\ \A s \in Servers : WF_mainVars(ConsumePacket(s))
-----------------------------------------------------------------------------
(* Properties. *)

\* With all shares queued before the consumers start, no packet is early when a
\* running consumer comes to it, and the requeueing of main.py (lines 50-53 and
\* 58-61) never happens.
NeverEarly ==
  \A s \in Servers : alive[s] /\ queue[s] # <<>> => Ready(s, Head(queue[s]))

\* main does not wait on the joins forever when all shares can be decoded
\* (main.py 108).
MainReturns == <>(main = "done")

\* "assert list(output) == expected" (main.py 116): the totals count every
\* row.
OutputExpected == main = "done" => output = RowSet(Ids)
=============================================================================
