----------------------------- MODULE Redelivery -----------------------------
(***************************************************************************)
(* PacketExchange over a broker that delivers at least once.  A server     *)
(* acknowledges a packet when its handler has run                          *)
(* (examples/docker-asyncio/server.py, "with message.process()").  When    *)
(* the connection is lost before the broker has the acknowledgement,       *)
(* connect_robust opens another, and the packet comes again, ahead of the  *)
(* packets behind it, to a server that has already acted on it.            *)
(***************************************************************************)
EXTENDS PacketExchange

CONSTANTS
  MaxLosses,  \* bound: acknowledgements lost
  Nothing     \* no packet

ASSUME LossesAreNat == MaxLosses \in Nat
ASSUME NothingIsNoPacket == Nothing \notin Packets

VARIABLES
  unacked,  \* unacked[s]: the packet s has handled last, if the broker may not know
  losses    \* acknowledgements lost so far

rvars == <<queue, sent, cache, added, alive, unacked, losses>>

RInit ==
  /\ Init
  /\ unacked = [s \in Servers |-> Nothing]
  /\ losses = 0

Deliver ==
  /\ Produce
  /\ UNCHANGED <<unacked, losses>>

\* The broker has acknowledged the packet before by the time s takes another.
Handle(s) ==
  /\ Consume(s)
  /\ unacked' = [unacked EXCEPT ![s] = Head(queue[s])]
  /\ UNCHANGED losses

LoseAck(s) ==
  /\ alive[s] /\ unacked[s] # Nothing /\ losses < MaxLosses
  /\ queue' = [queue EXCEPT ![s] = <<unacked[s]>> \o @]
  /\ unacked' = [unacked EXCEPT ![s] = Nothing]
  /\ losses' = losses + 1
  /\ UNCHANGED <<sent, cache, added, alive>>

RNext == Deliver \/ \E s \in Servers : Handle(s) \/ LoseAck(s)

RSpec == RInit /\ [][RNext]_rvars /\ \A s \in Servers : WF_rvars(Handle(s))
-----------------------------------------------------------------------------
(* Properties. *)

\* Each acknowledgement lost makes a total count at most one row once too
\* often, wherever in the exchange it was lost: a data packet is answered
\* again, verify1 is answered again, or verify2 is added again (server.py
\* 47-101).
Beyond(s) == [i \in Ids |-> IF added[s][i] > 1 THEN added[s][i] - 1 ELSE 0]
Excess == Sum(Beyond(A)) + Sum(Beyond(B))
ExcessBounded == Excess <= losses

\* No repetition makes a server count a row whose proof fails, or one its peer
\* has not decoded (server.py 91-97).
OnlyJointValid ==
  \A s \in Servers, i \in Ids :
    added[s][i] > 0 =>
      i \in Honest /\ \A t \in Servers : i \in Decodes[t] /\ i \in sent[t]

\* Whatever is delivered again, each valid row both shares of which have been
\* published is counted in the end, and no packet of it goes round for ever: a
\* packet that comes when its row is settled still finds the cache entry, which
\* is stored again after del, and is not put back (server.py 97-101).
CountedRow(i) ==
  \A s \in Servers :
    /\ \A t \in PacketTypes : ~Queued(s, t, i)
    /\ added[s][i] > 0 <=> i \in Honest
RowsSettleAgain ==
  \A i \in Ids :
    (\A s \in Servers : i \in sent[s]) ~> ([]CountedRow(i) \/ \E s \in Servers : ~alive[s])
=============================================================================
