--------------------------- MODULE PacketExchange ---------------------------
(***************************************************************************)
(* The message-driven servers of examples/docker-asyncio.  Each server     *)
(* consumes one queue of data, verify1 and verify2 packets, keeps a cache  *)
(* of what it has computed for each row, and sends its own verify1 and     *)
(* verify2 packets to the queue of its peer.  A packet that comes before   *)
(* the server is ready for it goes back to the end of the queue.           *)
(*                                                                         *)
(* A server handles one packet at a time and its handler touches the       *)
(* peer's queue once, so one packet is one step.                           *)
(***************************************************************************)
EXTENDS RowData, Sequences

PacketTypes == {"data", "verify1", "verify2"}

VARIABLES
  queue,   \* queue[s]: the packets for server s, oldest first
  sent,    \* sent[s]: rows whose share the client has put into queue[s]
  cache,   \* cache[s][i]: which of its packets p1, p2 for row i server s has
  added,   \* added[s][i]: how often s has added row i to its total
  alive    \* alive[s]: the server is running

vars == <<queue, sent, cache, added, alive>>

Packet(t, i) == [type |-> t, id |-> i]
Packets == [type : PacketTypes, id : Ids]

TypeOK ==
  /\ queue \in [Servers -> Seq(Packets)]
  /\ sent \in [Servers -> SUBSET Ids]
  /\ cache \in [Servers -> [Ids -> SUBSET {"p1", "p2"}]]
  /\ added \in [Servers -> Rows]
  /\ alive \in [Servers -> BOOLEAN]

Init ==
  /\ queue = [s \in Servers |-> <<>>]
  /\ sent = [s \in Servers |-> {}]
  /\ cache = [s \in Servers |-> [i \in Ids |-> {}]]
  /\ added = [s \in Servers |-> NoRows]
  /\ alive = [s \in Servers |-> TRUE]
-----------------------------------------------------------------------------
(* The client. *)

\* Mutant: the newest packet comes first.
PutFirst(q, p) == <<p>> \o q

\* Queues are first in, first out.
Put(q, p) == Append(q, p)

\* For each row in turn the client publishes the share of A, then B's.
MaySubmit(s, i) ==
  IF s = A THEN sent[A] = sent[B] /\ i \notin sent[A]
           ELSE i \in sent[A] \ sent[B]

Submit(s, i) ==
  /\ MaySubmit(s, i)
  /\ queue' = [queue EXCEPT ![s] = Put(@, Packet("data", i))]
  /\ sent' = [sent EXCEPT ![s] = @ \cup {i}]
  /\ UNCHANGED <<cache, added, alive>>
-----------------------------------------------------------------------------
(* One server. *)

\* Mutant: the servers of the two routing keys are the same.
OtherServerFixed(s) == A

\* get_other_server, the routing key of what s sends.
OtherServer(s) == Peer(s)

\* Mutant: a verify1 packet waits for p2, which only it can produce.
ReadySwapped(s, p) ==
  /\ p.type = "verify1" => "p2" \in cache[s][p.id]
  /\ p.type = "verify2" => "p2" \in cache[s][p.id]

\* Otherwise "Re-queuing message!".
Ready(s, p) ==
  /\ p.type = "verify1" => "p1" \in cache[s][p.id]
  /\ p.type = "verify2" => "p2" \in cache[s][p.id]

\* The packet at hand, whose reply is to be sent.
Handles(s, p) == alive[s] /\ queue[s] # <<>> /\ p = Head(queue[s])

\* Mutant: a packet is never acknowledged.
ConsumesNot(s) == UNCHANGED queue

Consumes(s) == queue' = [queue EXCEPT ![s] = Tail(@)]
Replies(s, p) ==
  LET rest == [queue EXCEPT ![s] = Tail(@)]
  IN  queue' = [rest EXCEPT ![OtherServer(s)] = Put(@, p)]
Keeps(s, i, packet) == cache' = [cache EXCEPT ![s][i] = @ \cup {packet}]

\* Mutant: an early packet is consumed and not put back.
RequeueForgotten(s, p) ==
  /\ Handles(s, p) /\ ~Ready(s, p)
  /\ Consumes(s)
  /\ UNCHANGED <<sent, cache, added, alive>>

Requeue(s, p) ==
  /\ Handles(s, p) /\ ~Ready(s, p)
  /\ queue' = [queue EXCEPT ![s] = Put(Tail(@), p)]
  /\ UNCHANGED <<sent, cache, added, alive>>

TakeData(s, i) ==
  /\ Handles(s, Packet("data", i)) /\ i \in Decodes[s]
  /\ Keeps(s, i, "p1") /\ Replies(s, Packet("verify1", i))
  /\ UNCHANGED <<sent, added, alive>>

\* create_verifier raises on a share it cannot decode.  Nothing catches the
\* exception: the packet is rejected and the server ends.
DieOfData(s, i) ==
  /\ Handles(s, Packet("data", i)) /\ i \notin Decodes[s]
  /\ alive' = [alive EXCEPT ![s] = FALSE]
  /\ Consumes(s)
  /\ UNCHANGED <<sent, cache, added>>

TakeVerify1(s, i) ==
  LET p == Packet("verify1", i) IN
  /\ Handles(s, p) /\ Ready(s, p)
  /\ Keeps(s, i, "p2") /\ Replies(s, Packet("verify2", i))
  /\ UNCHANGED <<sent, added, alive>>

\* Mutant: the result of is_valid is not looked at.
ValidAlways(i) == TRUE

\* Both servers compute is_valid from the same two verify2 packets.
Valid(i) == i \in Honest

\* Mutant: the deleted cache entry is not stored again.
TakeVerify2Forgetting(s, i) ==
  LET p == Packet("verify2", i) IN
  /\ Handles(s, p) /\ Ready(s, p)
  /\ added' = [added EXCEPT ![s][i] = IF Valid(i) THEN @ + 1 ELSE @]
  /\ cache' = [cache EXCEPT ![s][i] = {}]
  /\ Consumes(s)
  /\ UNCHANGED <<sent, alive>>

\* The cache entry is deleted, and stored again at the end of the handler.
TakeVerify2(s, i) ==
  LET p == Packet("verify2", i) IN
  /\ Handles(s, p) /\ Ready(s, p)
  /\ added' = [added EXCEPT ![s][i] = IF Valid(i) THEN @ + 1 ELSE @]
  /\ Consumes(s)
  /\ UNCHANGED <<sent, cache, alive>>

Consume(s) ==
  \/ \E p \in Packets : Requeue(s, p)
  \/ \E i \in Ids : \/ TakeData(s, i) \/ DieOfData(s, i)
                    \/ TakeVerify1(s, i) \/ TakeVerify2(s, i)

Produce == \E s \in Servers, i \in Ids : Submit(s, i)

Next == Produce \/ \E s \in Servers : Consume(s)

Spec == Init /\ [][Next]_vars

\* A running server goes on consuming.  Nothing obliges the client, which may
\* stop between the two shares of a row.
FairSpec == Spec /\ \A s \in Servers : WF_vars(Consume(s))
-----------------------------------------------------------------------------
(* Properties. *)

Contains(q, p) == \E k \in 1..Len(q) : q[k] = p
Distinct(q) == \A j, k \in 1..Len(q) : q[j] = q[k] => j = k
Precedes(q, p, r) == \A j, k \in 1..Len(q) : q[j] = p /\ q[k] = r => j < k

Queued(s, t, i) == Contains(queue[s], Packet(t, i))

\* A verify2 packet is never early: when one is queued, the server has made
\* its own p2 already, or will before it comes to the packet.  The branch of
\* server.py (examples/docker-asyncio, lines 58-67) that puts back an early
\* verify2 packet therefore never runs, in spite of the requeueing of
\* verify1 packets, as long as the queues deliver in order.
Verify2InOrder ==
  \A s \in Servers, i \in Ids :
    Queued(s, "verify2", i) =>
      \/ "p2" \in cache[s][i]
      \/ /\ Queued(s, "verify1", i)
         /\ Precedes(queue[s], Packet("verify1", i), Packet("verify2", i))

\* No packet is lost: a valid row that both servers decoded and one of them
\* has not added yet still has the packet under way that will make it do so,
\* be it verify2, the verify1 that goes before it, or the verify1 its peer
\* answers with it (server.py 68-90).
NothingLost ==
  \A s \in Servers, i \in Ids :
    LET t == Peer(s) IN
    /\ i \in Honest /\ "p1" \in cache[s][i] /\ "p1" \in cache[t][i]
    /\ added[s][i] = 0
    => Queued(s, "verify2", i) \/ Queued(t, "verify1", i)

\* The handlers of the two servers together implement JointSum: whatever the
\* order of packets, a total never counts a row twice, a row whose proof
\* fails, or a row the peer has not decoded (server.py 91-97).
Held == [s \in Servers |-> {i \in Ids : "p1" \in cache[s][i]}]
Sums == INSTANCE JointSum WITH held <- Held, sum <- added
RefinesJointSum == Sums!SumSpec

\* The inductive invariant behind the three properties above.  It says from
\* what each packet is made, and until when it can be queued.  A share is
\* queued once, until the server has p1 ...
DataOnce ==
  \A s \in Servers, i \in Ids :
    /\ Queued(s, "data", i) => i \in sent[s] /\ "p1" \notin cache[s][i]
    /\ "p1" \in cache[s][i] => i \in sent[s] /\ i \in Decodes[s]
\* ... verify1 when the peer has p1, until the server has p2 ...
Verify1Once ==
  \A s \in Servers, i \in Ids :
    /\ "p2" \in cache[s][i] => "p1" \in cache[s][i] /\ ~Queued(s, "verify1", i)
    /\ "p1" \in cache[Peer(s)][i] <=>
         Queued(s, "verify1", i) \/ "p2" \in cache[s][i]
\* ... and verify2 when the peer has p2, until the row is settled.
Verify2Once ==
  \A s \in Servers, i \in Ids :
    /\ Queued(s, "verify2", i) => "p2" \in cache[Peer(s)][i] /\ added[s][i] = 0
    /\ added[s][i] # 0 => i \in Honest /\ "p2" \in cache[Peer(s)][i]
    /\ i \in Honest /\ "p2" \in cache[Peer(s)][i] =>
         Queued(s, "verify2", i) \/ added[s][i] # 0
\* No packet is queued twice, and verify1 stays ahead of verify2.
QueueOrder ==
  \A s \in Servers :
    /\ Distinct(queue[s])
    /\ \A i \in Ids :
         Precedes(queue[s], Packet("verify1", i), Packet("verify2", i))

\* What holds of queues, caches and totals after every handler of server.py
\* (47-101), and implies Verify2InOrder, NothingLost and each step of
\* RefinesJointSum.
ExchangeInv == DataOnce /\ Verify1Once /\ Verify2Once /\ QueueOrder

\* A row whose two shares the client has published is settled for good: no
\* packet of it is put back for ever, and both servers have counted it once, or
\* not at all if it is forged.  That holds of each row whether or not the client
\* goes on, and even if it stops between the two shares of another row, whose
\* verify1 packet then circulates between all others (server.py 58-67).  Only a
\* share that cannot be decoded is in the way, because it ends its server.
SettledRow(i) ==
  \A s \in Servers :
    /\ \A t \in PacketTypes : ~Queued(s, t, i)
    /\ added[s][i] = (IF i \in Honest THEN 1 ELSE 0)
RowsSettle ==
  \A i \in Ids :
    (\A s \in Servers : i \in sent[s]) ~> ([]SettledRow(i) \/ \E s \in Servers : ~alive[s])
=============================================================================
