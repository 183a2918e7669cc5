---------------------------- MODULE PacketProofs ----------------------------
(***************************************************************************)
(* Theorems about the packets of two servers, for every finite set of      *)
(* rows, whichever of them decode and verify, and every interleaving.      *)
(* PacketExchange keeps ExchangeInv and implements JointSum; under the     *)
(* main program of AsyncioMain no packet is early; and what a broker that  *)
(* repeats packets (Redelivery) can add to a sum is bounded by the losses. *)
(***************************************************************************)
EXTENDS AsyncioMain, Redelivery, RowDataProofs

-----------------------------------------------------------------------------
(* Sequences. *)

LEMMA TailFacts ==
  ASSUME NEW S, NEW q \in Seq(S), q # <<>>
  PROVE  /\ Len(q) \in Nat \ {0}
         /\ Head(q) = q[1] /\ Head(q) \in S
         /\ Tail(q) \in Seq(S)
         /\ Len(Tail(q)) = Len(q) - 1
         /\ \A k \in 1..(Len(q) - 1) : Tail(q)[k] = q[k + 1]
OBVIOUS

LEMMA AppendFacts ==
  ASSUME NEW S, NEW q \in Seq(S), NEW p \in S
  PROVE  /\ Append(q, p) \in Seq(S)
         /\ Len(q) \in Nat
         /\ Len(Append(q, p)) = Len(q) + 1
         /\ \A k \in 1..Len(q) : Append(q, p)[k] = q[k]
         /\ Append(q, p)[Len(q) + 1] = p
OBVIOUS

(* Taking the first packet of a queue without duplicates removes it.       *)
LEMMA TakeFirst ==
  ASSUME NEW S, NEW q \in Seq(S), q # <<>>, Distinct(q)
  PROVE  /\ Distinct(Tail(q))
         /\ \A p : Contains(Tail(q), p) <=> Contains(q, p) /\ p # Head(q)
         /\ \A p, r : Precedes(q, p, r) => Precedes(Tail(q), p, r)
<1>1. /\ Len(q) \in Nat \ {0} /\ Head(q) = q[1]
      /\ Len(Tail(q)) = Len(q) - 1
      /\ \A k \in 1..(Len(q) - 1) : Tail(q)[k] = q[k + 1]
  BY TailFacts
<1>2. Distinct(Tail(q))
  BY <1>1 DEF Distinct
<1>3. ASSUME NEW p PROVE Contains(Tail(q), p) => Contains(q, p) /\ p # Head(q)
  BY <1>1 DEF Distinct, Contains
<1>4. ASSUME NEW p, Contains(q, p), p # Head(q) PROVE Contains(Tail(q), p)
  <2>1. PICK k \in 1..Len(q) : q[k] = p BY <1>4 DEF Contains
  <2>2. k # 1 BY <2>1, <1>1, <1>4
  <2>3. k - 1 \in 1..(Len(q) - 1) /\ Tail(q)[k - 1] = q[k] BY <2>1, <2>2, <1>1
  <2> QED BY <2>1, <2>3, <1>1 DEF Contains
<1>5. ASSUME NEW p, NEW r, Precedes(q, p, r) PROVE Precedes(Tail(q), p, r)
  BY <1>1, <1>5 DEF Precedes
<1> QED BY <1>2, <1>3, <1>4, <1>5

(* Putting a new packet at the end of a queue adds it, behind all others.  *)
LEMMA PutLast ==
  ASSUME NEW S, NEW q \in Seq(S), NEW p \in S, Distinct(q), ~Contains(q, p)
  PROVE  /\ Distinct(Put(q, p))
         /\ \A r : Contains(Put(q, p), r) <=> Contains(q, r) \/ r = p
         /\ \A r, t : Precedes(q, r, t) /\ r # t /\ (r = p => ~Contains(q, t))
                      => Precedes(Put(q, p), r, t)
<1> USE DEF Put
<1>1. /\ Len(q) \in Nat
      /\ Len(Append(q, p)) = Len(q) + 1
      /\ \A k \in 1..Len(q) : Append(q, p)[k] = q[k]
      /\ Append(q, p)[Len(q) + 1] = p
  BY AppendFacts
<1>2. Distinct(Append(q, p))
  BY <1>1 DEF Distinct, Contains
<1>3. ASSUME NEW r PROVE Contains(Append(q, p), r) <=> Contains(q, r) \/ r = p
  BY <1>1 DEF Contains
<1>4. ASSUME NEW r, NEW t, Precedes(q, r, t), r # t, r = p => ~Contains(q, t)
      PROVE  Precedes(Append(q, p), r, t)
  BY <1>1, <1>4 DEF Precedes, Contains
<1> QED BY <1>2, <1>3, <1>4

-----------------------------------------------------------------------------
(* Types. *)

USE DEF Servers

(* A packet is what Packet makes it.                                       *)
LEMMA PacketType ==
  ASSUME NEW t \in PacketTypes, NEW i \in Ids
  PROVE  /\ Packet(t, i) \in Packets
         /\ Packet(t, i).type = t /\ Packet(t, i).id = i
         /\ \A u \in PacketTypes, j \in Ids :
              Packet(u, j) = Packet(t, i) => u = t /\ j = i
BY DEF Packet, Packets

LEMMA PeerFacts ==
  ASSUME NEW s \in Servers
  PROVE  Peer(s) \in Servers /\ Peer(s) # s /\ Peer(Peer(s)) = s
BY ServersDiffer DEF Peer

(* What an action does to the queues keeps them sequences of packets.      *)
LEMMA QueueTyped ==
  ASSUME TypeOK, NEW s \in Servers, NEW p \in Packets
  PROVE  /\ Put(queue[s], p) \in Seq(Packets)
         /\ queue[s] # <<>> => /\ Tail(queue[s]) \in Seq(Packets)
                               /\ Put(Tail(queue[s]), p) \in Seq(Packets)
BY TailFacts, AppendFacts DEF TypeOK, Put

LEMMA TypeStep ==
  ASSUME TypeOK, [Next]_vars
  PROVE  TypeOK'
<1> USE DEF TypeOK, Handles
<1>1. ASSUME NEW s \in Servers, NEW i \in Ids, Submit(s, i) PROVE TypeOK'
  BY <1>1, QueueTyped, PacketType DEF Submit, PacketTypes
<1>2. ASSUME NEW s \in Servers, NEW p \in Packets, Requeue(s, p) PROVE TypeOK'
  BY <1>2, QueueTyped DEF Requeue
<1>3. ASSUME NEW s \in Servers, NEW p, queue[s] # <<>>, p \in Packets, Replies(s, p)
      PROVE  queue' \in [Servers -> Seq(Packets)]
  <2>1. OtherServer(s) \in Servers /\ OtherServer(s) # s
    BY PeerFacts DEF OtherServer
  <2>2. queue' = [[queue EXCEPT ![s] = Tail(@)] EXCEPT
                    ![OtherServer(s)] = Put(queue[OtherServer(s)], p)]
    BY <1>3, <2>1 DEF Replies
  <2> QED BY <1>3, <2>1, <2>2, QueueTyped
<1>4. ASSUME NEW s \in Servers, NEW i \in Ids, TakeData(s, i) PROVE TypeOK'
  <2>1. queue' \in [Servers -> Seq(Packets)]
    BY <1>3, <1>4, PacketType DEF TakeData, PacketTypes
  <2> QED BY <2>1, <1>4 DEF TakeData, Keeps
<1>5. ASSUME NEW s \in Servers, NEW i \in Ids, DieOfData(s, i) PROVE TypeOK'
  BY <1>5, QueueTyped DEF DieOfData, Consumes
<1>6. ASSUME NEW s \in Servers, NEW i \in Ids, TakeVerify1(s, i) PROVE TypeOK'
  <2>1. queue' \in [Servers -> Seq(Packets)]
    BY <1>3, <1>6, PacketType DEF TakeVerify1, PacketTypes
  <2> QED BY <2>1, <1>6 DEF TakeVerify1, Keeps
<1>7. ASSUME NEW s \in Servers, NEW i \in Ids, TakeVerify2(s, i) PROVE TypeOK'
  <2>1. queue' \in [Servers -> Seq(Packets)]
    BY <1>7, QueueTyped DEF TakeVerify2, Consumes
  <2>2. added' \in [Servers -> Rows]
    BY <1>7 DEF TakeVerify2, Rows
  <2> QED BY <2>1, <2>2, <1>7 DEF TakeVerify2
<1>8. CASE UNCHANGED vars BY <1>8 DEF vars
<1> QED
  BY <1>1, <1>2, <1>4, <1>5, <1>6, <1>7, <1>8 DEF Next, Produce, Consume

(* TypeOK is an invariant.                                                 *)
THEOREM PacketTypeCorrect == Spec => []TypeOK
<1>1. Init => TypeOK
  <2>1. <<>> \in Seq(Packets) OBVIOUS
  <2> QED BY <2>1 DEF Init, TypeOK, NoRows, Rows
<1> QED BY <1>1, TypeStep, PTL DEF Spec

-----------------------------------------------------------------------------
(* What the steps do to the contents of the queues. *)

(* Handling a packet without a reply removes it.                           *)
LEMMA ConsumeEffect ==
  ASSUME TypeOK, QueueOrder, NEW s \in Servers, NEW p, Handles(s, p), Consumes(s)
  PROVE  /\ \A u \in Servers : \A r :
              Contains(queue'[u], r) <=> Contains(queue[u], r) /\ ~(u = s /\ r = p)
         /\ QueueOrder'
         /\ Contains(queue[s], p)
<1>1. /\ queue[s] \in Seq(Packets) /\ queue[s] # <<>> /\ p = Head(queue[s])
      /\ Distinct(queue[s])
  BY DEF TypeOK, QueueOrder, Handles
<1>2. /\ queue'[s] = Tail(queue[s])
      /\ \A u \in Servers : u # s => queue'[u] = queue[u]
  BY DEF Consumes, TypeOK
<1>3. /\ Distinct(Tail(queue[s]))
      /\ \A r : Contains(Tail(queue[s]), r) <=> Contains(queue[s], r) /\ r # p
      /\ \A r, t : Precedes(queue[s], r, t) => Precedes(Tail(queue[s]), r, t)
  BY <1>1, TakeFirst
<1>4. Contains(queue[s], p)
  BY <1>1, TailFacts DEF Contains
<1>5. QueueOrder'
  BY <1>2, <1>3 DEF QueueOrder
<1> QED BY <1>2, <1>3, <1>4, <1>5

(* A packet that is new to a queue is added at its end.                    *)
LEMMA PutEffect ==
  ASSUME NEW S, NEW q \in Seq(S), NEW p \in S, Distinct(q), ~Contains(q, p),
         \A i \in Ids : Precedes(q, Packet("verify1", i), Packet("verify2", i)),
         \A i \in Ids : p = Packet("verify1", i) => ~Contains(q, Packet("verify2", i))
  PROVE  /\ Distinct(Put(q, p))
         /\ \A r : Contains(Put(q, p), r) <=> Contains(q, r) \/ r = p
         /\ \A i \in Ids :
              Precedes(Put(q, p), Packet("verify1", i), Packet("verify2", i))
<1>1. \A i \in Ids : Packet("verify1", i) # Packet("verify2", i)
  BY DEF Packet
<1> QED BY <1>1, PutLast

(* Handling a packet with a reply that is new to the peer's queue.         *)
LEMMA ReplyEffect ==
  ASSUME TypeOK, QueueOrder, NEW s \in Servers, NEW p, Handles(s, p),
         NEW r \in Packets, Replies(s, r), ~Contains(queue[Peer(s)], r),
         \A i \in Ids : r = Packet("verify1", i) =>
           ~Contains(queue[Peer(s)], Packet("verify2", i))
  PROVE  /\ \A u \in Servers : \A x : Contains(queue'[u], x) <=>
              \/ Contains(queue[u], x) /\ ~(u = s /\ x = p)
              \/ u = Peer(s) /\ x = r
         /\ QueueOrder'
         /\ Contains(queue[s], p)
<1> DEFINE t == Peer(s)
<1>1. t \in Servers /\ t # s /\ \A u \in Servers : u = s \/ u = t
  BY PeerFacts, ServersDiffer DEF Peer
<1>2. /\ queue[s] \in Seq(Packets) /\ queue[s] # <<>> /\ p = Head(queue[s])
      /\ queue[t] \in Seq(Packets)
      /\ Distinct(queue[s]) /\ Distinct(queue[t])
  BY <1>1 DEF TypeOK, QueueOrder, Handles
<1>3. queue'[s] = Tail(queue[s]) /\ queue'[t] = Put(queue[t], r)
  BY <1>1 DEF Replies, OtherServer, TypeOK
<1>4. /\ Distinct(Tail(queue[s]))
      /\ \A x : Contains(Tail(queue[s]), x) <=> Contains(queue[s], x) /\ x # p
      /\ \A x, y : Precedes(queue[s], x, y) => Precedes(Tail(queue[s]), x, y)
  BY <1>2, TakeFirst
<1>5. /\ Distinct(Put(queue[t], r))
      /\ \A x : Contains(Put(queue[t], r), x) <=> Contains(queue[t], x) \/ x = r
      /\ \A i \in Ids : Precedes(Put(queue[t], r), Packet("verify1", i), Packet("verify2", i))
  BY <1>1, <1>2, PutEffect DEF QueueOrder
<1>6. Contains(queue[s], p)
  BY <1>2, TailFacts DEF Contains
<1>7. QueueOrder'
  BY <1>1, <1>3, <1>4, <1>5 DEF QueueOrder
<1>8. \A u \in Servers : \A x : Contains(queue'[u], x) <=>
        \/ Contains(queue[u], x) /\ ~(u = s /\ x = p)
        \/ u = t /\ x = r
  BY <1>1, <1>3, <1>4, <1>5
<1> QED BY <1>6, <1>7, <1>8

-----------------------------------------------------------------------------
(* ExchangeInv, action by action. *)

(* Packets of different types or rows differ.                              *)
LEMMA PacketsDiffer ==
  ASSUME NEW i \in Ids, NEW j \in Ids
  PROVE  /\ Packet("data", i) # Packet("verify1", j)
         /\ Packet("data", i) # Packet("verify2", j)
         /\ Packet("verify1", i) # Packet("verify2", j)
         /\ \A t \in PacketTypes : Packet(t, i) = Packet(t, j) => i = j
BY DEF Packet, PacketTypes

LEMMA SubmitStep ==
  ASSUME TypeOK, ExchangeInv, NEW s \in Servers, NEW i \in Ids, Submit(s, i)
  PROVE  ExchangeInv'
<1> DEFINE p == Packet("data", i)
<1>1. /\ i \notin sent[s]
      /\ sent' = [sent EXCEPT ![s] = @ \cup {i}]
      /\ UNCHANGED <<cache, added, alive>>
      /\ queue'[s] = Put(queue[s], p)
      /\ \A u \in Servers : u # s => queue'[u] = queue[u]
  BY DEF Submit, MaySubmit, TypeOK
<1>2. ~Contains(queue[s], p)
  BY <1>1 DEF ExchangeInv, DataOnce, Queued
<1>3. queue[s] \in Seq(Packets) /\ p \in Packets /\ Distinct(queue[s])
      /\ \A j \in Ids : Precedes(queue[s], Packet("verify1", j), Packet("verify2", j))
  BY PacketType DEF TypeOK, ExchangeInv, QueueOrder, PacketTypes
<1>4. \A j \in Ids : p # Packet("verify1", j)
  BY PacketsDiffer
<1>5. /\ Distinct(Put(queue[s], p))
      /\ \A r : Contains(Put(queue[s], p), r) <=> Contains(queue[s], r) \/ r = p
      /\ \A j \in Ids :
           Precedes(Put(queue[s], p), Packet("verify1", j), Packet("verify2", j))
  BY <1>2, <1>3, <1>4, PutEffect
<1>6. QueueOrder'
  BY <1>1, <1>5 DEF ExchangeInv, QueueOrder
<1>7. \A u \in Servers, j \in Ids :
        /\ Queued(u, "data", j)' <=> Queued(u, "data", j) \/ (u = s /\ j = i)
        /\ Queued(u, "verify1", j)' <=> Queued(u, "verify1", j)
        /\ Queued(u, "verify2", j)' <=> Queued(u, "verify2", j)
  BY <1>1, <1>5, PacketsDiffer DEF Queued, PacketTypes
<1>8. DataOnce'
  BY <1>1, <1>7 DEF ExchangeInv, DataOnce, TypeOK
<1>9. Verify1Once' /\ Verify2Once'
  BY <1>1, <1>7 DEF ExchangeInv, Verify1Once, Verify2Once
<1> QED BY <1>6, <1>8, <1>9 DEF ExchangeInv

LEMMA RequeueStep ==
  ASSUME TypeOK, ExchangeInv, NEW s \in Servers, NEW p \in Packets, Requeue(s, p)
  PROVE  ExchangeInv'
<1>1. /\ Handles(s, p) /\ ~Ready(s, p)
      /\ UNCHANGED <<sent, cache, added, alive>>
      /\ queue'[s] = Put(Tail(queue[s]), p)
      /\ \A u \in Servers : u # s => queue'[u] = queue[u]
  BY DEF Requeue, TypeOK
<1>2. /\ queue[s] \in Seq(Packets) /\ queue[s] # <<>> /\ p = Head(queue[s])
      /\ Distinct(queue[s])
      /\ Contains(queue[s], p)
      /\ Tail(queue[s]) \in Seq(Packets)
  BY <1>1, TailFacts DEF TypeOK, ExchangeInv, QueueOrder, Handles, Contains
<1>3. /\ Distinct(Tail(queue[s]))
      /\ \A r : Contains(Tail(queue[s]), r) <=> Contains(queue[s], r) /\ r # p
      /\ \A r, t : Precedes(queue[s], r, t) => Precedes(Tail(queue[s]), r, t)
  BY <1>2, TakeFirst
<1>4. \A i \in Ids : p = Packet("verify1", i) =>
        ~Contains(Tail(queue[s]), Packet("verify2", i))
  <2> SUFFICES ASSUME NEW i \in Ids, p = Packet("verify1", i)
               PROVE  ~Contains(Tail(queue[s]), Packet("verify2", i))
    OBVIOUS
  <2>1. "p1" \notin cache[s][i]
    BY <1>1 DEF Ready, Packet
  <2>2. "p2" \notin cache[Peer(s)][i]
    BY <2>1, PeerFacts DEF ExchangeInv, Verify1Once
  <2>3. ~Queued(s, "verify2", i)
    BY <2>2 DEF ExchangeInv, Verify2Once
  <2> QED BY <2>3, <1>3 DEF Queued
<1>5. \A i \in Ids :
        Precedes(Tail(queue[s]), Packet("verify1", i), Packet("verify2", i))
  BY <1>3 DEF ExchangeInv, QueueOrder
<1>6. /\ Distinct(queue'[s])
      /\ \A r : Contains(queue'[s], r) <=> Contains(Tail(queue[s]), r) \/ r = p
      /\ \A i \in Ids : Precedes(queue'[s], Packet("verify1", i), Packet("verify2", i))
  <2> DEFINE q == Tail(queue[s])
  <2>1. /\ q \in Seq(Packets) /\ Distinct(q) /\ ~Contains(q, p)
        /\ \A i \in Ids : Precedes(q, Packet("verify1", i), Packet("verify2", i))
        /\ \A i \in Ids : p = Packet("verify1", i) => ~Contains(q, Packet("verify2", i))
        /\ queue'[s] = Put(q, p)
    BY <1>1, <1>2, <1>3, <1>4, <1>5
  <2> HIDE DEF q
  <2>2. /\ Distinct(Put(q, p))
        /\ \A r : Contains(Put(q, p), r) <=> Contains(q, r) \/ r = p
        /\ \A i \in Ids : Precedes(Put(q, p), Packet("verify1", i), Packet("verify2", i))
    BY <2>1, PutEffect
  <2> QED BY <2>1, <2>2 DEF q
<1>7. \A u \in Servers : \A r : Contains(queue'[u], r) <=> Contains(queue[u], r)
  BY <1>1, <1>2, <1>3, <1>6
<1>8. QueueOrder'
  BY <1>1, <1>6 DEF ExchangeInv, QueueOrder
<1>9. DataOnce' /\ Verify1Once' /\ Verify2Once'
  BY <1>1, <1>7 DEF ExchangeInv, DataOnce, Verify1Once, Verify2Once, Queued
<1> QED BY <1>8, <1>9 DEF ExchangeInv

LEMMA DieStep ==
  ASSUME TypeOK, ExchangeInv, NEW s \in Servers, NEW i \in Ids, DieOfData(s, i)
  PROVE  ExchangeInv'
<1>1. /\ Handles(s, Packet("data", i)) /\ Consumes(s)
      /\ UNCHANGED <<sent, cache, added>>
  BY DEF DieOfData
<1>2. /\ \A u \in Servers : \A r : Contains(queue'[u], r) <=>
           Contains(queue[u], r) /\ ~(u = s /\ r = Packet("data", i))
      /\ QueueOrder'
  BY <1>1, ConsumeEffect DEF ExchangeInv
<1>3. \A u \in Servers, j \in Ids :
        /\ Queued(u, "data", j)' => Queued(u, "data", j)
        /\ Queued(u, "verify1", j)' <=> Queued(u, "verify1", j)
        /\ Queued(u, "verify2", j)' <=> Queued(u, "verify2", j)
  BY <1>2, PacketsDiffer DEF Queued
<1>4. DataOnce' /\ Verify1Once' /\ Verify2Once'
  BY <1>1, <1>3 DEF ExchangeInv, DataOnce, Verify1Once, Verify2Once
<1> QED BY <1>2, <1>4 DEF ExchangeInv

LEMMA DataStep ==
  ASSUME TypeOK, ExchangeInv, NEW s \in Servers, NEW i \in Ids, TakeData(s, i)
  PROVE  ExchangeInv'
<1> DEFINE t == Peer(s)
           p == Packet("data", i)
           r == Packet("verify1", i)
<1>1. /\ Handles(s, p) /\ i \in Decodes[s]
      /\ Replies(s, r)
      /\ UNCHANGED <<sent, added, alive>>
      /\ \A u \in Servers, j \in Ids : \A x :
           x \in cache'[u][j] <=> x \in cache[u][j] \/ (u = s /\ j = i /\ x = "p1")
  BY DEF TakeData, Keeps, TypeOK
<1>2. t \in Servers /\ t # s /\ Peer(t) = s /\ \A u \in Servers : u = s \/ u = t
  BY PeerFacts, ServersDiffer DEF Peer
<1>3. Contains(queue[s], p)
  BY <1>1, TailFacts DEF Handles, Contains, TypeOK
<1>4. i \in sent[s] /\ "p1" \notin cache[s][i]
  BY <1>3 DEF ExchangeInv, DataOnce, Queued
<1>5. ~Queued(t, "verify1", i) /\ "p2" \notin cache[t][i]
  BY <1>2, <1>4 DEF ExchangeInv, Verify1Once
<1>6. "p2" \notin cache[s][i] /\ ~Queued(t, "verify2", i)
  BY <1>2, <1>4 DEF ExchangeInv, Verify1Once, Verify2Once
<1>7. /\ ~Contains(queue[t], r)
      /\ \A j \in Ids : r = Packet("verify1", j) => ~Contains(queue[t], Packet("verify2", j))
  BY <1>5, <1>6, PacketsDiffer DEF Queued, PacketTypes
<1>8. /\ \A u \in Servers : \A x : Contains(queue'[u], x) <=>
           \/ Contains(queue[u], x) /\ ~(u = s /\ x = p)
           \/ u = t /\ x = r
      /\ QueueOrder'
  BY <1>1, <1>7, ReplyEffect, PacketType DEF ExchangeInv, PacketTypes
<1>9. \A u \in Servers, j \in Ids :
        /\ Queued(u, "data", j)' <=> Queued(u, "data", j) /\ ~(u = s /\ j = i)
        /\ Queued(u, "verify1", j)' <=> Queued(u, "verify1", j) \/ (u = t /\ j = i)
        /\ Queued(u, "verify2", j)' <=> Queued(u, "verify2", j)
  BY <1>8, PacketsDiffer DEF Queued, PacketTypes
<1>10. DataOnce'
  BY <1>1, <1>4, <1>9 DEF ExchangeInv, DataOnce
<1>11. Verify1Once'
  BY <1>1, <1>2, <1>5, <1>6, <1>9 DEF ExchangeInv, Verify1Once
<1>12. Verify2Once'
  BY <1>1, <1>2, <1>9 DEF ExchangeInv, Verify2Once
<1> QED BY <1>8, <1>10, <1>11, <1>12 DEF ExchangeInv

LEMMA Verify1Step ==
  ASSUME TypeOK, ExchangeInv, NEW s \in Servers, NEW i \in Ids, TakeVerify1(s, i)
  PROVE  ExchangeInv'
<1> DEFINE t == Peer(s)
           p == Packet("verify1", i)
           r == Packet("verify2", i)
<1>1. /\ Handles(s, p) /\ Ready(s, p)
      /\ Replies(s, r)
      /\ UNCHANGED <<sent, added, alive>>
      /\ \A u \in Servers, j \in Ids : \A x :
           x \in cache'[u][j] <=> x \in cache[u][j] \/ (u = s /\ j = i /\ x = "p2")
  BY DEF TakeVerify1, Keeps, TypeOK
<1>2. t \in Servers /\ t # s /\ Peer(t) = s /\ \A u \in Servers : u = s \/ u = t
  BY PeerFacts, ServersDiffer DEF Peer
<1>3. Contains(queue[s], p)
  BY <1>1, TailFacts DEF Handles, Contains, TypeOK
<1>4. "p1" \in cache[s][i] /\ "p2" \notin cache[s][i]
  BY <1>1, <1>3 DEF ExchangeInv, Verify1Once, Queued, Ready, Packet
<1>5. ~Queued(t, "verify2", i) /\ added[t][i] = 0
  BY <1>2, <1>4 DEF ExchangeInv, Verify2Once
<1>6. /\ ~Contains(queue[t], r)
      /\ \A j \in Ids : r = Packet("verify1", j) => ~Contains(queue[t], Packet("verify2", j))
  BY <1>5, PacketsDiffer DEF Queued
<1>7. /\ \A u \in Servers : \A x : Contains(queue'[u], x) <=>
           \/ Contains(queue[u], x) /\ ~(u = s /\ x = p)
           \/ u = t /\ x = r
      /\ QueueOrder'
  BY <1>1, <1>6, ReplyEffect, PacketType DEF ExchangeInv, PacketTypes
<1>8. \A u \in Servers, j \in Ids :
        /\ Queued(u, "data", j)' <=> Queued(u, "data", j)
        /\ Queued(u, "verify1", j)' <=> Queued(u, "verify1", j) /\ ~(u = s /\ j = i)
        /\ Queued(u, "verify2", j)' <=> Queued(u, "verify2", j) \/ (u = t /\ j = i)
  BY <1>7, PacketsDiffer DEF Queued, PacketTypes
<1>9. DataOnce'
  BY <1>1, <1>8 DEF ExchangeInv, DataOnce
<1>10. Verify1Once'
  BY <1>1, <1>2, <1>3, <1>4, <1>8 DEF ExchangeInv, Verify1Once, Queued
<1>11. Verify2Once'
  BY <1>1, <1>2, <1>5, <1>8 DEF ExchangeInv, Verify2Once
<1> QED BY <1>7, <1>9, <1>10, <1>11 DEF ExchangeInv

LEMMA Verify2Step ==
  ASSUME TypeOK, ExchangeInv, NEW s \in Servers, NEW i \in Ids, TakeVerify2(s, i)
  PROVE  /\ ExchangeInv'
         /\ "p2" \in cache[Peer(s)][i] /\ "p2" \in cache[s][i] /\ added[s][i] = 0
<1> DEFINE p == Packet("verify2", i)
<1>1. /\ Handles(s, p) /\ Ready(s, p) /\ Consumes(s)
      /\ UNCHANGED <<sent, cache, alive>>
      /\ \A u \in Servers, j \in Ids :
           added'[u][j] = IF u = s /\ j = i /\ i \in Honest
                          THEN added[u][j] + 1 ELSE added[u][j]
  BY DEF TakeVerify2, TypeOK, Rows, Valid
<1>2. /\ \A u \in Servers : \A r : Contains(queue'[u], r) <=>
           Contains(queue[u], r) /\ ~(u = s /\ r = p)
      /\ QueueOrder'
      /\ Contains(queue[s], p)
  BY <1>1, ConsumeEffect DEF ExchangeInv
<1>3. /\ "p2" \in cache[Peer(s)][i] /\ added[s][i] = 0
      /\ "p2" \in cache[s][i]
  BY <1>1, <1>2 DEF ExchangeInv, Verify2Once, Queued, Ready, Packet
<1>4. \A u \in Servers, j \in Ids :
        /\ Queued(u, "data", j)' <=> Queued(u, "data", j)
        /\ Queued(u, "verify1", j)' <=> Queued(u, "verify1", j)
        /\ Queued(u, "verify2", j)' <=> Queued(u, "verify2", j) /\ ~(u = s /\ j = i)
  BY <1>2, PacketsDiffer DEF Queued, PacketTypes
<1>5. DataOnce' /\ Verify1Once'
  BY <1>1, <1>4 DEF ExchangeInv, DataOnce, Verify1Once
<1>6. Verify2Once'
  BY <1>1, <1>3, <1>4 DEF ExchangeInv, Verify2Once
<1> QED BY <1>2, <1>3, <1>5, <1>6 DEF ExchangeInv

LEMMA ExchangeStep ==
  ASSUME TypeOK, ExchangeInv, [Next]_vars
  PROVE  ExchangeInv'
<1>1. CASE UNCHANGED vars
  BY <1>1 DEF vars, ExchangeInv, DataOnce, Verify1Once, Verify2Once, QueueOrder, Queued
<1>2. CASE Next
  BY <1>2, SubmitStep, RequeueStep, DieStep, DataStep, Verify1Step, Verify2Step
  DEF Next, Produce, Consume
<1> QED BY <1>1, <1>2

(* ExchangeInv is an invariant: it holds at first, and every step keeps it. *)
THEOREM ExchangeInductive == Spec => []ExchangeInv
<1>1. Init => ExchangeInv
  BY PeerFacts DEF Init, ExchangeInv, DataOnce, Verify1Once, Verify2Once, QueueOrder,
                   Queued, Contains, Distinct, Precedes, NoRows
<1> QED BY <1>1, ExchangeStep, PacketTypeCorrect, PTL DEF Spec

-----------------------------------------------------------------------------
(* What follows. *)

(* No verify2 packet comes before the server has made its own p2, so none  *)
(* is ever put back.                                                       *)
THEOREM InOrder == Spec => []Verify2InOrder
<1>1. ExchangeInv => Verify2InOrder
  <2> SUFFICES ASSUME ExchangeInv, NEW s \in Servers, NEW i \in Ids,
                      Queued(s, "verify2", i), "p2" \notin cache[s][i]
               PROVE  /\ Queued(s, "verify1", i)
                      /\ Precedes(queue[s], Packet("verify1", i), Packet("verify2", i))
    BY DEF Verify2InOrder
  <2>1. "p2" \in cache[Peer(s)][i]
    BY DEF ExchangeInv, Verify2Once
  <2>2. "p1" \in cache[Peer(s)][i]
    BY <2>1, PeerFacts DEF ExchangeInv, Verify1Once
  <2> QED BY <2>2 DEF ExchangeInv, Verify1Once, QueueOrder
<1> QED BY <1>1, ExchangeInductive, PTL

(* A valid row that a server has decoded and not added always has a packet *)
(* under way that will make it do so.                                      *)
THEOREM Lossless == Spec => []NothingLost
<1>1. ExchangeInv => NothingLost
  <2> SUFFICES ASSUME ExchangeInv, NEW s \in Servers, NEW i \in Ids,
                      i \in Honest, "p1" \in cache[s][i], added[s][i] = 0,
                      ~Queued(Peer(s), "verify1", i)
               PROVE  Queued(s, "verify2", i)
    BY DEF NothingLost
  <2>1. "p2" \in cache[Peer(s)][i]
    BY PeerFacts DEF ExchangeInv, Verify1Once
  <2> QED BY <2>1 DEF ExchangeInv, Verify2Once
<1> QED BY <1>1, ExchangeInductive, PTL

(* A step of the servers is a step of JointSum, or invisible to it.        *)
LEMMA SumStep ==
  ASSUME TypeOK, ExchangeInv, [Next]_vars
  PROVE  [Sums!SumNext]_(Sums!sumVars)
<1> USE DEF Sums!sumVars
<1>1. CASE UNCHANGED vars
  BY <1>1 DEF vars, Held
<1>2. CASE Produce
  BY <1>2 DEF Produce, Submit, Held
<1>3. ASSUME NEW s \in Servers, Consume(s) PROVE [Sums!SumNext]_(Sums!sumVars)
  <2>1. ASSUME NEW p \in Packets, Requeue(s, p) PROVE UNCHANGED <<Held, added>>
    BY <2>1 DEF Requeue, Held
  <2>2. ASSUME NEW i \in Ids, DieOfData(s, i) PROVE UNCHANGED <<Held, added>>
    BY <2>2 DEF DieOfData, Held
  <2>3. ASSUME NEW i \in Ids, TakeData(s, i) PROVE Sums!Hold(s, i)
    <3>1. Contains(queue[s], Packet("data", i))
      BY <2>3, TailFacts DEF TakeData, Handles, Contains, TypeOK
    <3>2. i \in Decodes[s] /\ "p1" \notin cache[s][i]
      BY <2>3, <3>1 DEF TakeData, ExchangeInv, DataOnce, Queued
    <3>3. \A u \in Servers, j \in Ids :
            "p1" \in cache'[u][j] <=> "p1" \in cache[u][j] \/ (u = s /\ j = i)
      BY <2>3 DEF TakeData, Keeps, TypeOK
    <3>4. Held' = [Held EXCEPT ![s] = @ \cup {i}]
      BY <3>3 DEF Held
    <3> QED BY <2>3, <3>2, <3>4 DEF Sums!Hold, TakeData, Held
  <2>4. ASSUME NEW i \in Ids, TakeVerify1(s, i) PROVE UNCHANGED <<Held, added>>
    <3>1. \A u \in Servers, j \in Ids : "p1" \in cache'[u][j] <=> "p1" \in cache[u][j]
      BY <2>4 DEF TakeVerify1, Keeps, TypeOK
    <3> QED BY <2>4, <3>1 DEF TakeVerify1, Held
  <2>5. ASSUME NEW i \in Ids, TakeVerify2(s, i)
        PROVE  Sums!Count(s, i) \/ UNCHANGED <<Held, added>>
    <3>1. added[s][i] = 0 /\ "p1" \in cache[s][i] /\ "p1" \in cache[Peer(s)][i]
      BY <2>5, Verify2Step, PeerFacts DEF ExchangeInv, Verify1Once
    <3>2. i \in Held[A] \cap Held[B]
      BY <3>1 DEF Held, Peer
    <3>3. UNCHANGED Held
      BY <2>5 DEF TakeVerify2, Held
    <3>4. CASE i \in Honest
      <4>1. added' = [added EXCEPT ![s][i] = 1]
        BY <2>5, <3>1, <3>4 DEF TakeVerify2, Valid, TypeOK, Rows
      <4> QED BY <3>1, <3>2, <3>3, <3>4, <4>1 DEF Sums!Count
    <3>5. CASE i \notin Honest
      <4>1. added' = added
        BY <2>5, <3>5 DEF TakeVerify2, Valid, TypeOK, Rows
      <4> QED BY <3>3, <4>1
    <3> QED BY <3>4, <3>5
  <2> QED
    BY <1>3, <2>1, <2>2, <2>3, <2>4, <2>5 DEF Consume, Sums!SumNext, Sums!Servers
<1> QED BY <1>1, <1>2, <1>3 DEF Next

(* The servers implement JointSum: no interleaving of handlers makes a     *)
(* total count a row twice, a row that does not verify, or a row that the  *)
(* peer has not decoded.                                                   *)
THEOREM ImplementsJointSum == Spec => RefinesJointSum
<1>1. Init => Sums!SumInit
  BY DEF Init, Sums!SumInit, Sums!NoRows, Sums!Servers, Held, NoRows
<1> QED
  BY <1>1, SumStep, PacketTypeCorrect, ExchangeInductive, PTL
  DEF Spec, RefinesJointSum, Sums!SumSpec
-----------------------------------------------------------------------------
(* AsyncioMain: the counters of the queues count what is not done, and no  *)
(* consumer ever puts a packet back.                                       *)

(* Before the consumers start, nothing is computed ...                     *)
NothingYet ==
  main = "produce" =>
    \A s \in Servers : alive[s] /\ \A i \in Ids : cache[s][i] = {}

(* ... all shares have been produced ...                                   *)
AllProduced ==
  main # "produce" => \A s \in Servers : sent[s] = Ids

(* ... and a running server has p1 of every row whose share was queued and *)
(* is no longer.                                                           *)
SharesTaken ==
  \A s \in Servers, i \in Ids :
    alive[s] /\ i \in sent[s] => "p1" \in cache[s][i] \/ Queued(s, "data", i)

(* So the shares come before the packets computed from them.               *)
SharesFirst ==
  \A s \in Servers, i \in Ids :
    Precedes(queue[s], Packet("data", i), Packet("verify1", i))

MainInv ==
  ExchangeInv /\ MainTypeOK /\ NothingYet /\ AllProduced /\ SharesTaken /\ SharesFirst
-----------------------------------------------------------------------------
(* What comes first in a queue that holds another packet before it.        *)
LEMMA HeadFirst ==
  ASSUME NEW q \in Seq(Packets), q # <<>>, NEW p, Contains(q, p),
         Precedes(q, p, Head(q))
  PROVE  FALSE
<1>1. Head(q) = q[1] /\ Len(q) \in Nat \ {0}
  BY TailFacts
<1> QED BY <1>1 DEF Contains, Precedes

LEMMA NoPacketEarly == MainInv => NeverEarly
<1> SUFFICES ASSUME MainInv, NEW s \in Servers, alive[s], queue[s] # <<>>
             PROVE  Ready(s, Head(queue[s]))
  BY DEF NeverEarly
<1> DEFINE p == Head(queue[s])
<1>1. queue[s] \in Seq(Packets) /\ p \in Packets
  BY TailFacts DEF MainInv, MainTypeOK, TypeOK
<1>2. Contains(queue[s], p)
  BY <1>1, TailFacts DEF Contains
<1>3. p.id \in Ids /\ p.type \in PacketTypes /\ p = Packet(p.type, p.id)
  BY <1>1 DEF Packets, Packet
<1> HIDE DEF p
<1>4. ASSUME p.type = "verify1" PROVE "p1" \in cache[s][p.id]
  <2>1. Queued(s, "verify1", p.id)
    BY <1>2, <1>3, <1>4 DEF Queued
  <2>2. "p1" \in cache[Peer(s)][p.id] /\ Peer(s) \in Servers
    BY <1>3, <2>1, PeerFacts DEF MainInv, ExchangeInv, Verify1Once
  <2>3. main # "produce"
    BY <1>3, <2>2 DEF MainInv, NothingYet
  <2>4. ~Queued(s, "data", p.id)
    BY <1>1, <1>3, <1>4, HeadFirst DEF MainInv, SharesFirst, Queued, p
  <2> QED BY <1>3, <2>3, <2>4 DEF MainInv, AllProduced, SharesTaken
<1>5. ASSUME p.type = "verify2" PROVE "p2" \in cache[s][p.id]
  <2>1. Queued(s, "verify2", p.id)
    BY <1>2, <1>3, <1>5 DEF Queued
  <2>2. "p2" \in cache[Peer(s)][p.id] /\ Peer(s) \in Servers
    BY <1>3, <2>1, PeerFacts DEF MainInv, ExchangeInv, Verify2Once
  <2>3. "p1" \in cache[Peer(s)][p.id]
    BY <1>3, <2>2 DEF MainInv, ExchangeInv, Verify1Once
  <2>4. Queued(s, "verify1", p.id) \/ "p2" \in cache[s][p.id]
    BY <1>3, <2>3 DEF MainInv, ExchangeInv, Verify1Once
  <2>5. ~Queued(s, "verify1", p.id)
    BY <1>1, <1>3, <1>5, HeadFirst DEF MainInv, ExchangeInv, QueueOrder, Queued, p
  <2> QED BY <2>4, <2>5
<1> QED BY <1>4, <1>5 DEF Ready, p
-----------------------------------------------------------------------------
(* One handler. *)

(* What the handler of s does to the queues: it takes the first packet of  *)
(* its own and may put one, which is no share, at the end of its peer's.   *)
Handled(s) ==
  /\ queue'[s] = Tail(queue[s])
  /\ \/ queue'[Peer(s)] = queue[Peer(s)]
     \/ \E t \in {"verify1", "verify2"}, i \in Ids :
          queue'[Peer(s)] = Put(queue[Peer(s)], Packet(t, i))

(* Since no packet is early, a step of a consumer handles its first packet.*)
LEMMA ConsumeHandles ==
  ASSUME MainInv, NEW s \in Servers, Consume(s)
  PROVE  /\ alive[s] /\ queue[s] # <<>>
         /\ Handled(s)
         /\ \A t \in Servers : t # s => alive'[t] = alive[t]
         /\ alive' \in [Servers -> BOOLEAN] /\ sent' = sent
         /\ \A i \in Ids : alive'[s] /\ Head(queue[s]) = Packet("data", i) => "p1" \in cache'[s][i]
         /\ \A t \in Servers, i \in Ids : cache[t][i] \subseteq cache'[t][i]
<1>1. TypeOK /\ Peer(s) \in Servers /\ Peer(s) # s
  BY PeerFacts DEF MainInv, MainTypeOK
<1>2. ASSUME NEW p \in Packets, Requeue(s, p) PROVE FALSE
  BY <1>2, NoPacketEarly DEF Requeue, Handles, NeverEarly
<1>3. ASSUME Consumes(s) PROVE Handled(s)
  BY <1>1, <1>3 DEF Consumes, Handled, TypeOK
<1>4. ASSUME NEW t \in {"verify1", "verify2"}, NEW i \in Ids, Replies(s, Packet(t, i))
      PROVE  Handled(s)
  <2>1. /\ queue'[s] = Tail(queue[s])
        /\ queue'[Peer(s)] = Put(queue[Peer(s)], Packet(t, i))
    BY <1>1, <1>4 DEF Replies, OtherServer, TypeOK
  <2> QED BY <2>1 DEF Handled
<1>5. ASSUME NEW i \in Ids, NEW x \in {"p1", "p2"}, Keeps(s, i, x)
      PROVE  /\ x \in cache'[s][i]
             /\ \A t \in Servers, j \in Ids : cache[t][j] \subseteq cache'[t][j]
  BY <1>1, <1>5 DEF Keeps, TypeOK
<1>6. ASSUME NEW i \in Ids, TakeData(s, i) PROVE
         /\ alive[s] /\ queue[s] # <<>> /\ Head(queue[s]) = Packet("data", i)
         /\ Handled(s) /\ UNCHANGED <<alive, sent>>
         /\ "p1" \in cache'[s][i]
         /\ \A t \in Servers, j \in Ids : cache[t][j] \subseteq cache'[t][j]
  BY <1>4, <1>5, <1>6 DEF TakeData, Handles
<1>7. ASSUME NEW i \in Ids, DieOfData(s, i) PROVE
         /\ alive[s] /\ queue[s] # <<>>
         /\ Handled(s) /\ alive' = [alive EXCEPT ![s] = FALSE]
         /\ UNCHANGED <<sent, cache>>
  BY <1>3, <1>7 DEF DieOfData, Handles
<1>8. ASSUME NEW i \in Ids, TakeVerify1(s, i) PROVE
         /\ alive[s] /\ queue[s] # <<>> /\ Head(queue[s]) = Packet("verify1", i)
         /\ Handled(s) /\ UNCHANGED <<alive, sent>>
         /\ \A t \in Servers, j \in Ids : cache[t][j] \subseteq cache'[t][j]
  BY <1>4, <1>5, <1>8 DEF TakeVerify1, Handles
<1>9. ASSUME NEW i \in Ids, TakeVerify2(s, i) PROVE
         /\ alive[s] /\ queue[s] # <<>> /\ Head(queue[s]) = Packet("verify2", i)
         /\ Handled(s) /\ UNCHANGED <<alive, sent>> /\ cache' = cache
  BY <1>3, <1>9 DEF TakeVerify2, Handles
<1>10. alive \in [Servers -> BOOLEAN]
  BY <1>1 DEF TypeOK
<1> QED BY <1>2, <1>6, <1>7, <1>8, <1>9, <1>10, PacketsDiffer DEF Consume, PacketTypes

LEMMA PutAfter ==
  ASSUME NEW q \in Seq(Packets), NEW p \in Packets
  PROVE  /\ Len(Put(q, p)) = Len(q) + 1
         /\ \A r : Contains(q, r) \/ r = p => Contains(Put(q, p), r)
         /\ \A r, t : r # p /\ Precedes(q, r, t) => Precedes(Put(q, p), r, t)
<1>1. /\ Len(q) \in Nat
      /\ Len(Put(q, p)) = Len(q) + 1
      /\ \A k \in 1..Len(q) : Put(q, p)[k] = q[k]
      /\ Put(q, p)[Len(q) + 1] = p
  BY AppendFacts DEF Put
<1>2. \A r : Contains(q, r) \/ r = p => Contains(Put(q, p), r)
  BY <1>1 DEF Contains
<1>3. ASSUME NEW r, NEW t, r # p, Precedes(q, r, t) PROVE Precedes(Put(q, p), r, t)
  BY <1>1, <1>3 DEF Precedes
<1> QED BY <1>1, <1>2, <1>3

(* A handler leaves shares queued, but for the one it takes, and leaves    *)
(* them first.                                                             *)
LEMMA HandledShares ==
  ASSUME TypeOK, QueueOrder, SharesFirst, NEW s \in Servers, queue[s] # <<>>, Handled(s)
  PROVE  /\ Len(queue'[s]) = Len(queue[s]) - 1
         /\ \A t \in Servers, i \in Ids :
              Queued(t, "data", i) /\ ~(t = s /\ Head(queue[s]) = Packet("data", i))
              => Queued(t, "data", i)'
         /\ SharesFirst'
<1> DEFINE t == Peer(s)
<1>1. t \in Servers /\ t # s /\ \A u \in Servers : u = s \/ u = t
  BY PeerFacts, ServersDiffer DEF Peer
<1>2. /\ queue[s] \in Seq(Packets) /\ queue[t] \in Seq(Packets)
      /\ queue'[s] = Tail(queue[s]) /\ Distinct(queue[s])
  BY <1>1 DEF TypeOK, Handled, QueueOrder
<1>3. /\ \A r : Contains(queue[s], r) /\ r # Head(queue[s]) => Contains(queue'[s], r)
      /\ \A r, x : Precedes(queue[s], r, x) => Precedes(queue'[s], r, x)
  BY <1>2, TakeFirst
<1>4. \A i \in Ids : /\ Contains(queue[t], Packet("data", i)) => Contains(queue'[t], Packet("data", i))
                    /\ Precedes(queue'[t], Packet("data", i), Packet("verify1", i))
  <2>1. CASE queue'[t] = queue[t]
    BY <1>1, <2>1 DEF SharesFirst
  <2>2. ASSUME NEW x \in {"verify1", "verify2"}, NEW j \in Ids,
               queue'[t] = Put(queue[t], Packet(x, j))
        PROVE  \A i \in Ids :
                 /\ Contains(queue[t], Packet("data", i)) => Contains(queue'[t], Packet("data", i))
                 /\ Precedes(queue'[t], Packet("data", i), Packet("verify1", i))
    <3>1. Packet(x, j) \in Packets /\ \A i \in Ids : Packet("data", i) # Packet(x, j)
      BY PacketType, PacketsDiffer DEF PacketTypes
    <3> QED BY <1>1, <1>2, <2>2, <3>1, PutAfter DEF SharesFirst
  <2> QED BY <2>1, <2>2 DEF Handled
<1>5. Len(queue'[s]) = Len(queue[s]) - 1
  BY <1>2, TailFacts
<1>6. SharesFirst'
  BY <1>1, <1>3, <1>4 DEF SharesFirst
<1>7. ASSUME NEW u \in Servers, NEW i \in Ids, Queued(u, "data", i),
             ~(u = s /\ Head(queue[s]) = Packet("data", i))
      PROVE  Queued(u, "data", i)'
  BY <1>1, <1>3, <1>4, <1>7 DEF Queued
<1> QED BY <1>5, <1>6, <1>7

LEMMA Balance ==
  ASSUME NEW n \in Nat, NEW m \in Nat, NEW dead \in {0, 1}
  PROVE  /\ (n + dead) + (m - n + 0) - 0 = m + dead
         /\ (n + 0) + (m - n + 1) - 1 = m + 0
         /\ (n + 0) + (m - n + 1) - 0 = m + 1
         /\ (n + 0) + 1 = n + 1 + 0
OBVIOUS

LEMMA ConsumePacketStep ==
  ASSUME MainInv, NEW s \in Servers, ConsumePacket(s)
  PROVE  MainInv'
<1>1. /\ main = "join" /\ Consume(s)
      /\ unfinished' = [t \in Servers |->
           unfinished[t] + Puts(s, t) - (IF s = t THEN TasksDone(s) ELSE 0)]
      /\ joined' = [joined EXCEPT ![s] = @ \/ unfinished'[s] = 0]
      /\ UNCHANGED <<main, output>>
  BY DEF ConsumePacket, Consuming
<1>2. TypeOK' /\ ExchangeInv'
  BY <1>1, TypeStep, ExchangeStep DEF Next, MainInv, MainTypeOK
<1>3. /\ alive[s] /\ queue[s] # <<>> /\ Handled(s)
      /\ \A t \in Servers : t # s => alive'[t] = alive[t]
      /\ alive' \in [Servers -> BOOLEAN] /\ sent' = sent
      /\ \A i \in Ids : alive'[s] /\ Head(queue[s]) = Packet("data", i) => "p1" \in cache'[s][i]
      /\ \A t \in Servers, i \in Ids : cache[t][i] \subseteq cache'[t][i]
  BY <1>1, ConsumeHandles
<1>4. /\ \A t \in Servers, i \in Ids :
           Queued(t, "data", i) /\ ~(t = s /\ Head(queue[s]) = Packet("data", i))
           => Queued(t, "data", i)'
      /\ SharesFirst'
  BY <1>3, HandledShares DEF MainInv, MainTypeOK, ExchangeInv
<1>5. SharesTaken'
  BY <1>1, <1>3, <1>4 DEF MainInv, SharesTaken
<1>6. NothingYet' /\ AllProduced'
  BY <1>1, <1>3 DEF MainInv, NothingYet, AllProduced
<1>7. unfinished' = [t \in Servers |-> Len(queue'[t]) + (IF alive'[t] THEN 0 ELSE 1)]
  <2>1. /\ unfinished = [t \in Servers |-> Len(queue[t]) + (IF alive[t] THEN 0 ELSE 1)]
        /\ \A t \in Servers : Len(queue[t]) \in Nat /\ Len(queue'[t]) \in Nat
    BY <1>2 DEF MainInv, MainTypeOK, TypeOK
  <2>2. ASSUME NEW t \in Servers
        PROVE  unfinished'[t] = Len(queue'[t]) + (IF alive'[t] THEN 0 ELSE 1)
    <3> DEFINE n == Len(queue[t])
               m == Len(queue'[t])
    <3>1. /\ n \in Nat /\ m \in Nat
          /\ unfinished'[t] = unfinished[t] + Puts(s, t) - (IF s = t THEN TasksDone(s) ELSE 0)
          /\ unfinished[t] = n + (IF alive[t] THEN 0 ELSE 1)
      BY <1>1, <2>1
    <3>2. CASE t # s
      <4> DEFINE dead == IF alive[t] THEN 0 ELSE 1
      <4>1. Puts(s, t) = m - n + 0
        BY <3>2 DEF Puts
      <4>2. unfinished'[t] = (n + dead) + (m - n + 0) - 0
        BY <3>1, <3>2, <4>1, Zenon
      <4>3. dead \in {0, 1} /\ dead = IF alive'[t] THEN 0 ELSE 1
        BY <1>3, <3>2
      <4> HIDE DEF dead, n, m
      <4>4. unfinished'[t] = m + dead
        BY <3>1, <4>2, <4>3, Balance
      <4> QED BY <4>3, <4>4 DEF m
    <3>3. CASE t = s
      <4>1. Puts(s, t) = m - n + 1
        BY <3>3 DEF Puts
      <4>2. unfinished'[t] = (n + 0) + (m - n + 1) - TasksDone(s)
        BY <1>3, <3>1, <3>3, <4>1, Zenon
      <4>3. TasksDone(s) = IF alive'[t] THEN 1 ELSE 0
        BY <3>3 DEF TasksDone
      <4> HIDE DEF n, m
      <4>4. CASE alive'[t]
        <5>1. unfinished'[t] = m + 0
          BY <3>1, <4>2, <4>3, <4>4, Balance
        <5> QED BY <4>4, <5>1 DEF m
      <4>5. CASE ~alive'[t]
        <5>1. unfinished'[t] = m + 1
          BY <3>1, <4>2, <4>3, <4>5, Balance
        <5> QED BY <4>5, <5>1 DEF m
      <4> QED BY <4>4, <4>5
    <3> QED BY <3>2, <3>3
  <2> QED BY <1>1, <2>2
<1>8. joined' \in [Servers -> BOOLEAN]
  BY <1>1 DEF MainInv, MainTypeOK
<1> QED BY <1>1, <1>2, <1>4, <1>5, <1>6, <1>7, <1>8 DEF MainInv, MainTypeOK

-----------------------------------------------------------------------------
(* The steps of main, and what follows.                                    *)

LEMMA ProduceRowStep ==
  ASSUME MainInv, ProduceRow
  PROVE  MainInv'
<1>1. PICK s \in Servers, i \in Ids :
        /\ Submit(s, i)
        /\ unfinished' = [unfinished EXCEPT ![s] = @ + 1]
  BY DEF ProduceRow
<1>2. main = "produce" /\ UNCHANGED <<joined, main, output, cache, alive>>
  BY <1>1 DEF ProduceRow, Submit
<1>3. TypeOK' /\ ExchangeInv'
  BY <1>1, TypeStep, ExchangeStep DEF Next, Produce, MainInv, MainTypeOK
<1>4. \A t \in Servers : alive'[t] /\ \A j \in Ids : cache'[t][j] = {}
  BY <1>2 DEF MainInv, NothingYet
<1>5. \A t \in Servers, j \in Ids : ~Queued(t, "verify1", j)'
  BY <1>3, <1>4, PeerFacts DEF ExchangeInv, Verify1Once
<1>6. SharesFirst'
  BY <1>5 DEF SharesFirst, Precedes, Queued, Contains
<1>7. /\ queue[s] \in Seq(Packets) /\ Packet("data", i) \in Packets
      /\ \A t \in Servers : t # s => queue'[t] = queue[t]
      /\ queue'[s] = Put(queue[s], Packet("data", i))
      /\ sent' = [sent EXCEPT ![s] = @ \cup {i}]
  BY <1>1, PacketType DEF Submit, MainInv, MainTypeOK, TypeOK, PacketTypes
<1>8. /\ Len(queue'[s]) = Len(queue[s]) + 1 /\ Len(queue[s]) \in Nat
      /\ \A r : Contains(queue[s], r) \/ r = Packet("data", i) => Contains(queue'[s], r)
  BY <1>7, PutAfter
<1>9. unfinished' = [t \in Servers |-> Len(queue'[t]) + (IF alive'[t] THEN 0 ELSE 1)]
  <2>1. unfinished = [t \in Servers |-> Len(queue[t]) + (IF alive[t] THEN 0 ELSE 1)]
    BY DEF MainInv, MainTypeOK
  <2>2. \A t \in Servers : unfinished'[t] = Len(queue'[t]) + (IF alive'[t] THEN 0 ELSE 1)
    <3> TAKE t \in Servers
    <3>1. alive'[t] /\ alive[t] /\ unfinished[t] = Len(queue[t]) + 0
      BY <1>2, <1>4, <2>1
    <3>2. CASE t = s
      <4>1. unfinished'[t] = (Len(queue[t]) + 0) + 1
        BY <1>1, <2>1, <3>1, <3>2
      <4>2. Len(queue'[t]) = Len(queue[t]) + 1 /\ Len(queue[t]) \in Nat
        BY <1>8, <3>2
      <4>3. unfinished'[t] = Len(queue'[t]) + 0
        BY <4>1, <4>2, Balance
      <4> QED BY <3>1, <4>3
    <3>3. CASE t # s
      BY <1>1, <1>7, <2>1, <3>1, <3>3
    <3> QED BY <3>2, <3>3
  <2>3. unfinished' = [t \in Servers |-> unfinished'[t]]
    BY <1>1, <2>1
  <2> QED BY <2>2, <2>3
<1>10. SharesTaken'
  BY <1>2, <1>7, <1>8 DEF MainInv, MainTypeOK, TypeOK, SharesTaken, Queued
<1> QED BY <1>2, <1>3, <1>4, <1>6, <1>9, <1>10 DEF MainInv, MainTypeOK, NothingYet, AllProduced

LEMMA MainOnlyStep ==
  ASSUME MainInv, UNCHANGED vars, UNCHANGED unfinished, joined' = joined,
         main' \in {"produce", "join", "done"}, output' \in Rows \cup {Garbled, None},
         main' = "produce" => main = "produce",
         AllProduced'
  PROVE  MainInv'
<1>1. TypeOK' /\ ExchangeInv'
  BY TypeStep, ExchangeStep DEF MainInv, MainTypeOK
<1> QED BY <1>1 DEF MainInv, MainTypeOK, NothingYet, SharesTaken, SharesFirst, vars, Queued

LEMMA MainInvStep ==
  ASSUME MainInv, [MainNext]_mainVars
  PROVE  MainInv'
<1>1. ASSUME StartConsumers PROVE MainInv'
  BY <1>1, MainOnlyStep DEF StartConsumers, AllProduced, MainInv, MainTypeOK, vars
<1>2. ASSUME ReadTotals PROVE MainInv'
  <2>1. output' \in Rows \cup {Garbled, None}
    BY <1>2 DEF ReadTotals, TotalShareFinal, MainInv, MainTypeOK, TypeOK, Servers
  <2> QED BY <1>2, <2>1, MainOnlyStep DEF ReadTotals, AllProduced, MainInv, MainTypeOK, vars
<1>3. CASE UNCHANGED mainVars
  BY <1>3, MainOnlyStep DEF mainVars, vars, AllProduced, MainInv, MainTypeOK
<1> QED BY <1>1, <1>2, <1>3, ProduceRowStep, ConsumePacketStep DEF MainNext

LEMMA MainInvInit == MainInit => MainInv
<1> SUFFICES ASSUME MainInit PROVE MainInv
  OBVIOUS
<1>1. <<>> \in Seq(Packets) /\ Len(<<>>) = 0
  OBVIOUS
<1>2. TypeOK
  BY <1>1 DEF MainInit, Init, TypeOK, NoRows, Rows
<1>3. ExchangeInv
  BY PeerFacts DEF MainInit, Init, ExchangeInv, DataOnce, Verify1Once, Verify2Once, QueueOrder,
                   Queued, Contains, Distinct, Precedes, NoRows
<1>4. MainTypeOK
  BY <1>1, <1>2 DEF MainInit, Init, MainTypeOK
<1> QED BY <1>3, <1>4 DEF MainInit, Init, MainInv, NothingYet, AllProduced, SharesTaken,
                          SharesFirst, Precedes

(* A queue's counter is what keeps join() waiting: it counts the packets   *)
(* in the queue, and one more for the packet a consumer died of, so join() *)
(* returns only when nothing is queued, and never once a consumer died     *)
(* (asyncio/main.py 44-70 and 108).                                        *)
THEOREM CountersCount == MainSpec => []MainTypeOK
<1>1. MainInv => MainTypeOK
  BY DEF MainInv
<1> QED BY <1>1, MainInvInit, MainInvStep, PTL DEF MainSpec

(* The branches of the handler that put a packet back (asyncio/main.py     *)
(* 50-53 and 58-61) never run.                                             *)
THEOREM NothingPutBack == MainSpec => []NeverEarly
<1> QED BY NoPacketEarly, MainInvInit, MainInvStep, PTL DEF MainSpec

-----------------------------------------------------------------------------
(* A broker that repeats packets: how often a packet is in a queue.        *)

Count(q, p) == Cardinality({k \in 1..Len(q) : q[k] = p})

LEMMA CountType ==
  ASSUME NEW S, NEW q \in Seq(S), NEW p
  PROVE  IsFiniteSet({k \in 1..Len(q) : q[k] = p}) /\ Count(q, p) \in Nat
<1>1. Len(q) \in Nat
  OBVIOUS
<1>2. IsFiniteSet(1..Len(q))
  BY <1>1, FS_Interval
<1>3. IsFiniteSet({k \in 1..Len(q) : q[k] = p})
  BY <1>2, FS_Subset
<1> QED BY <1>3, FS_CardinalityType DEF Count

LEMMA CountAppend ==
  ASSUME NEW S, NEW q \in Seq(S), NEW p \in S, NEW r
  PROVE  Count(Put(q, p), r) = Count(q, r) + (IF r = p THEN 1 ELSE 0)
<1> DEFINE n == Len(q)
           D == {k \in 1..n : q[k] = r}
           E == {k \in 1..Len(Put(q, p)) : Put(q, p)[k] = r}
<1>1. /\ n \in Nat /\ Len(Put(q, p)) = n + 1
      /\ \A k \in 1..n : Put(q, p)[k] = q[k]
      /\ Put(q, p)[n + 1] = p
  BY AppendFacts DEF Put
<1>2. 1..(n + 1) = (1..n) \cup {n + 1} /\ n + 1 \notin 1..n
  BY <1>1
<1>3. IsFiniteSet(D) /\ Cardinality(D) \in Nat
  BY CountType DEF Count
<1>4. CASE r = p
  <2>1. E = D \cup {n + 1} /\ n + 1 \notin D
    BY <1>1, <1>2, <1>4
  <2>2. Cardinality(E) = Cardinality(D) + 1
    BY <1>3, <2>1, FS_AddElement
  <2> QED BY <1>4, <2>2 DEF Count
<1>5. CASE r # p
  <2>1. E = D
    BY <1>1, <1>2, <1>5
  <2>2. Cardinality(E) = Cardinality(D)
    BY <2>1
  <2> QED BY <1>3, <1>5, <2>2 DEF Count
<1> QED BY <1>4, <1>5

LEMMA CountTail ==
  ASSUME NEW S, NEW q \in Seq(S), q # <<>>, NEW r
  PROVE  Count(q, r) = Count(Tail(q), r) + (IF r = Head(q) THEN 1 ELSE 0)
<1> DEFINE n == Len(q)
           D == {k \in 1..n : q[k] = r}
           E == {k \in 1..Len(Tail(q)) : Tail(q)[k] = r}
           F == {k + 1 : k \in E}
           shift == [k \in E |-> k + 1]
<1>1. /\ n \in Nat \ {0} /\ Head(q) = q[1] /\ Tail(q) \in Seq(S)
      /\ Len(Tail(q)) = n - 1
      /\ \A k \in 1..(n - 1) : Tail(q)[k] = q[k + 1]
  BY TailFacts
<1>2. IsFiniteSet(E) /\ Cardinality(E) \in Nat
  BY <1>1, CountType DEF Count
<1>3. IsFiniteSet(F) /\ Cardinality(F) = Cardinality(E)
  <2>1. \A k \in E : k \in Nat
    BY <1>1
  <2> HIDE DEF E
  <2>2. shift \in Bijection(E, F)
    BY <2>1 DEF Bijection, Injection, Surjection, IsInjective
  <2>3. ExistsBijection(E, F)
    BY <2>2 DEF ExistsBijection
  <2> QED BY <1>2, <2>3, FS_Bijection
<1>4. F = D \ {1}
  <2>1. ASSUME NEW k \in E PROVE k + 1 \in D \ {1}
    BY <1>1
  <2>2. ASSUME NEW k \in D \ {1} PROVE k \in F
    <3>1. k - 1 \in E /\ k = (k - 1) + 1
      BY <1>1
    <3> QED BY <3>1
  <2> QED BY <2>1, <2>2
<1>5. 1 \in D <=> r = Head(q)
  BY <1>1
<1>6. CASE r = Head(q)
  <2>1. D = F \cup {1} /\ 1 \notin F
    BY <1>4, <1>5, <1>6
  <2> HIDE DEF D, E, F
  <2>2. Cardinality(D) = Cardinality(F) + 1
    BY <1>3, <2>1, FS_AddElement
  <2> QED BY <1>3, <1>6, <2>2 DEF Count, D, E
<1>7. CASE r # Head(q)
  <2>1. D = F
    BY <1>4, <1>5, <1>7
  <2>2. Cardinality(D) = Cardinality(E)
    BY <1>3, <2>1
  <2>3. Count(q, r) = Cardinality(D) /\ Count(Tail(q), r) = Cardinality(E)
    BY DEF Count
  <2> HIDE DEF D, E
  <2> QED BY <1>2, <1>7, <2>2, <2>3
<1> QED BY <1>6, <1>7

LEMMA CountCons ==
  ASSUME NEW S, NEW q \in Seq(S), NEW p \in S, NEW r
  PROVE  /\ <<p>> \o q \in Seq(S)
         /\ Count(<<p>> \o q, r) = Count(q, r) + (IF r = p THEN 1 ELSE 0)
<1>1. /\ <<p>> \o q \in Seq(S) /\ <<p>> \o q # <<>>
      /\ Head(<<p>> \o q) = p /\ Tail(<<p>> \o q) = q
  OBVIOUS
<1> QED BY <1>1, CountTail

-----------------------------------------------------------------------------
(* The state behind the theorems about Redelivery.                         *)

Waiting(s, t, i) == Count(queue[s], Packet(t, i))

RTypeOK ==
  /\ TypeOK
  /\ unacked \in [Servers -> Packets \cup {Nothing}]
  /\ losses \in Nat

(* What has been made is in a cache, however often its packets come: a     *)
(* packet may come if it is queued, or handled and not acknowledged.       *)
MayCome(s, t, i) == Waiting(s, t, i) > 0 \/ unacked[s] = Packet(t, i)
MadeFrom ==
  \A s \in Servers, i \in Ids :
    /\ MayCome(s, "data", i) => i \in sent[s]
    /\ MayCome(s, "verify1", i) => "p1" \in cache[Peer(s)][i]
    /\ MayCome(s, "verify2", i) => "p2" \in cache[Peer(s)][i]
    /\ "p1" \in cache[s][i] => i \in sent[s] /\ i \in Decodes[s]
    /\ "p2" \in cache[s][i] => "p1" \in cache[s][i] /\ "p1" \in cache[Peer(s)][i]
    /\ added[s][i] > 0 => i \in Honest /\ "p2" \in cache[s][i]

(* How often s may still count row i in the end: each packet on the way    *)
(* from the client by way of the peer stands for one time.                 *)
Ways(s, i) ==
  added[s][i] + Waiting(s, "verify2", i) + Waiting(Peer(s), "verify1", i)
    + Waiting(s, "data", i) + (IF i \in sent[s] THEN 0 ELSE 1)

(* Each lost acknowledgement is charged to one row of one server.          *)
Charged ==
  \E credit \in [Servers -> Rows] :
    /\ losses = Sum(credit[A]) + Sum(credit[B])
    /\ \A s \in Servers, i \in Ids : Ways(s, i) <= 1 + credit[s][i]

RedeliveryInv == RTypeOK /\ MadeFrom /\ Charged

LEMMA Counts ==
  ASSUME NEW q \in [Servers -> Seq(Packets)]
  PROVE  \A u \in Servers, t \in PacketTypes, i \in Ids : Count(q[u], Packet(t, i)) \in Nat
BY CountType, PacketType

LEMMA WaysType == TypeOK => \A s \in Servers, i \in Ids : Ways(s, i) \in Nat
<1> SUFFICES ASSUME TypeOK, NEW s \in Servers, NEW i \in Ids PROVE Ways(s, i) \in Nat
  OBVIOUS
<1>1. \A u \in Servers, t \in PacketTypes : Waiting(u, t, i) \in Nat
  BY Counts DEF TypeOK, Waiting
<1>2. added[s][i] \in Nat /\ Peer(s) \in Servers
  BY PeerFacts DEF TypeOK, Rows
<1> QED BY <1>1, <1>2 DEF Ways, PacketTypes

(* What handling a packet does to the queues, without a reply and with     *)
(* one.                                                                    *)
LEMMA TakenOut ==
  ASSUME TypeOK, NEW s \in Servers, NEW p, Handles(s, p), Consumes(s)
  PROVE  \A u \in Servers, r \in Packets :
           Count(queue[u], r) = Count(queue'[u], r) + (IF u = s /\ r = p THEN 1 ELSE 0)
<1>1. /\ queue[s] \in Seq(Packets) /\ queue[s] # <<>> /\ p = Head(queue[s])
      /\ queue'[s] = Tail(queue[s])
      /\ \A u \in Servers : u # s => queue'[u] = queue[u]
      /\ \A u \in Servers : queue[u] \in Seq(Packets)
  BY DEF Handles, Consumes, TypeOK
<1>2. \A r \in Packets :
        Count(queue[s], r) = Count(Tail(queue[s]), r) + (IF r = p THEN 1 ELSE 0)
  BY <1>1, CountTail
<1>3. \A u \in Servers, r \in Packets : Count(queue[u], r) \in Nat
  BY <1>1, CountType
<1> QED BY <1>1, <1>2, <1>3

LEMMA AnsweredTo ==
  ASSUME TypeOK, NEW s \in Servers, NEW p, Handles(s, p), NEW x \in Packets, Replies(s, x)
  PROVE  \A u \in Servers, r \in Packets :
           Count(queue[u], r) + (IF u = Peer(s) /\ r = x THEN 1 ELSE 0)
             = Count(queue'[u], r) + (IF u = s /\ r = p THEN 1 ELSE 0)
<1> DEFINE t == Peer(s)
<1>1. t \in Servers /\ t # s /\ \A u \in Servers : u = s \/ u = t
  BY PeerFacts, ServersDiffer DEF Peer
<1>2. /\ queue[s] \in Seq(Packets) /\ queue[s] # <<>> /\ p = Head(queue[s])
      /\ queue[t] \in Seq(Packets) /\ Tail(queue[s]) \in Seq(Packets)
  BY <1>1, TailFacts DEF Handles, TypeOK
<1>3. queue'[s] = Tail(queue[s]) /\ queue'[t] = Put(queue[t], x)
  BY <1>1 DEF Replies, OtherServer, TypeOK
<1>4. \A r \in Packets :
        Count(queue[s], r) = Count(Tail(queue[s]), r) + (IF r = p THEN 1 ELSE 0)
  BY <1>2, CountTail
<1>5. \A r \in Packets :
        Count(Put(queue[t], x), r) = Count(queue[t], r) + (IF r = x THEN 1 ELSE 0)
  BY <1>2, CountAppend
<1>6. \A r \in Packets : Count(Tail(queue[s]), r) \in Nat /\ Count(queue[t], r) \in Nat
  BY <1>2, CountType
<1> HIDE DEF t
<1>7. ASSUME NEW r \in Packets
      PROVE  /\ Count(queue[s], r) = Count(queue'[s], r) + (IF r = p THEN 1 ELSE 0)
             /\ Count(queue'[t], r) = Count(queue[t], r) + (IF r = x THEN 1 ELSE 0)
             /\ Count(queue'[s], r) \in Nat /\ Count(queue[t], r) \in Nat
  BY <1>3, <1>4, <1>5, <1>6
<1> QED BY <1>1, <1>7 DEF t

LEMMA PutBack ==
  ASSUME TypeOK, NEW s \in Servers, NEW p \in Packets, Requeue(s, p)
  PROVE  \A u \in Servers, r \in Packets : Count(queue'[u], r) = Count(queue[u], r)
<1> DEFINE rest == Tail(queue[s])
<1>1. /\ queue[s] \in Seq(Packets) /\ queue[s] # <<>> /\ p = Head(queue[s])
      /\ rest \in Seq(Packets) /\ queue'[s] = Put(rest, p)
      /\ \A u \in Servers : u # s => queue'[u] = queue[u]
  BY TailFacts DEF Requeue, Handles, TypeOK
<1>2. \A r \in Packets :
        Count(queue[s], r) = Count(rest, r) + (IF r = p THEN 1 ELSE 0)
  BY <1>1, CountTail
<1> HIDE DEF rest
<1>3. \A r \in Packets :
        Count(Put(rest, p), r) = Count(rest, r) + (IF r = p THEN 1 ELSE 0)
  BY <1>1, CountAppend
<1> QED BY <1>1, <1>2, <1>3

(* As long as nothing is lost, no further way is opened.                   *)
LEMMA ChargedStays ==
  ASSUME TypeOK, TypeOK', Charged, UNCHANGED losses,
         \A s \in Servers, i \in Ids : Ways(s, i)' <= Ways(s, i)
  PROVE  Charged'
<1>1. PICK credit \in [Servers -> Rows] :
        /\ losses = Sum(credit[A]) + Sum(credit[B])
        /\ \A s \in Servers, i \in Ids : Ways(s, i) <= 1 + credit[s][i]
  BY DEF Charged
<1>2. (TypeOK => \A s \in Servers, i \in Ids : Ways(s, i) \in Nat)'
  BY WaysType, PTL
<1>3. \A s \in Servers, i \in Ids : Ways(s, i) \in Nat /\ Ways(s, i)' \in Nat
  BY <1>2, WaysType
<1>4. \A s \in Servers, i \in Ids : credit[s][i] \in Nat
  BY DEF Rows
<1>5. \A s \in Servers, i \in Ids : Ways(s, i)' <= 1 + credit[s][i]
  BY <1>1, <1>3, <1>4
<1>6. losses' = Sum(credit[A]) + Sum(credit[B])
  BY <1>1
<1> QED BY <1>5, <1>6 DEF Charged

(* RedeliveryInv, action by action.                                        *)

LEMMA DeliverStep ==
  ASSUME RedeliveryInv, Deliver
  PROVE  RedeliveryInv'
<1>1. PICK s \in Servers, i \in Ids : Submit(s, i)
  BY DEF Deliver, Produce
<1>2. /\ i \notin sent[s]
      /\ \A u \in Servers : sent'[u] = IF u = s THEN sent[u] \cup {i} ELSE sent[u]
      /\ UNCHANGED <<cache, added, alive, unacked, losses>>
      /\ queue'[s] = Put(queue[s], Packet("data", i))
      /\ \A u \in Servers : u # s => queue'[u] = queue[u]
      /\ Packet("data", i) \in Packets
  BY <1>1, PacketType DEF Deliver, Submit, MaySubmit, RedeliveryInv, RTypeOK, TypeOK, PacketTypes
<1>3. TypeOK /\ TypeOK'
  BY <1>1, TypeStep DEF Next, Produce, RedeliveryInv, RTypeOK
<1>4. RTypeOK'
  BY <1>2, <1>3 DEF RedeliveryInv, RTypeOK
<1>5. \A u \in Servers, t \in PacketTypes, j \in Ids :
        Waiting(u, t, j)' =
          Waiting(u, t, j) + (IF u = s /\ t = "data" /\ j = i THEN 1 ELSE 0)
  <2> TAKE u \in Servers, t \in PacketTypes, j \in Ids
  <2>1. Packet(t, j) = Packet("data", i) <=> t = "data" /\ j = i
    BY PacketType DEF PacketTypes
  <2>2. queue[s] \in Seq(Packets)
    BY <1>3 DEF TypeOK
  <2>3. Count(queue'[s], Packet(t, j)) =
          Count(queue[s], Packet(t, j)) + (IF Packet(t, j) = Packet("data", i) THEN 1 ELSE 0)
    BY <1>2, <2>2, CountAppend
  <2>4. Waiting(u, t, j) \in Nat
    BY <1>3, Counts DEF TypeOK, Waiting
  <2> QED BY <1>2, <2>1, <2>3, <2>4 DEF Waiting
<1>6. \A u \in Servers, t \in PacketTypes, j \in Ids : Waiting(u, t, j) \in Nat
  BY <1>3, Counts DEF TypeOK, Waiting
<1>7. \A u \in Servers, j \in Ids : Ways(u, j)' <= Ways(u, j)
  <2> TAKE u \in Servers, j \in Ids
  <2> DEFINE a == added[u][j] + Waiting(u, "verify2", j) + Waiting(Peer(u), "verify1", j)
             d == Waiting(u, "data", j)
  <2>1. a \in Nat /\ d \in Nat
    <3>1. added[u][j] \in Nat /\ Peer(u) \in Servers
      BY <1>3, PeerFacts DEF TypeOK, Rows
    <3> QED BY <1>6, <3>1 DEF PacketTypes
  <2>2. a' = a
    <3>1. Peer(u) \in Servers
      BY PeerFacts
    <3>2. /\ Waiting(u, "verify2", j)' = Waiting(u, "verify2", j)
          /\ Waiting(Peer(u), "verify1", j)' = Waiting(Peer(u), "verify1", j)
      BY <1>5, <1>6, <3>1 DEF PacketTypes
    <3> QED BY <1>2, <3>2
  <2>3. d' = d + (IF u = s /\ j = i THEN 1 ELSE 0)
    BY <1>5 DEF PacketTypes
  <2>4. /\ Ways(u, j) = a + d + (IF j \in sent[u] THEN 0 ELSE 1)
        /\ Ways(u, j)' = a' + d' + (IF j \in sent'[u] THEN 0 ELSE 1)
    BY DEF Ways
  <2> HIDE DEF a, d
  <2> QED BY <1>2, <2>1, <2>2, <2>3, <2>4
<1>8. Charged'
  BY <1>2, <1>3, <1>7, ChargedStays DEF RedeliveryInv
<1>9. \A u \in Servers, t \in PacketTypes, j \in Ids :
        MayCome(u, t, j)' => \/ MayCome(u, t, j)
                             \/ u = s /\ t = "data" /\ j = i
  BY <1>2, <1>5, <1>6 DEF MayCome
<1>10. MadeFrom'
  <2>1. \A u \in Servers : sent[u] \subseteq sent'[u] /\ Peer(u) \in Servers
    BY <1>2, PeerFacts
  <2> QED BY <1>2, <1>9, <2>1 DEF RedeliveryInv, MadeFrom, PacketTypes
<1> QED BY <1>4, <1>8, <1>10 DEF RedeliveryInv

(* Handling one packet: the types stay, the packet at hand had to come, and *)
(* a reply may come next.                                                  *)
LEMMA HandledType ==
  ASSUME RedeliveryInv, NEW s \in Servers, Handle(s)
  PROVE  /\ TypeOK /\ TypeOK' /\ RTypeOK' /\ UNCHANGED losses
         /\ \A u \in Servers, t \in PacketTypes, i \in Ids :
              Waiting(u, t, i) \in Nat /\ Waiting(u, t, i)' \in Nat
<1>1. TypeOK /\ TypeOK'
  BY TypeStep DEF Next, Handle, RedeliveryInv, RTypeOK
<1>2. queue[s] # <<>>
  BY DEF Handle, Consume, Requeue, TakeData, DieOfData, TakeVerify1, TakeVerify2, Handles
<1>3. Head(queue[s]) \in Packets
  <2>1. queue[s] \in Seq(Packets)
    BY <1>1 DEF TypeOK
  <2> QED BY <1>2, <2>1, TailFacts
<1>4. RTypeOK' /\ UNCHANGED losses
  BY <1>1, <1>3 DEF Handle, RedeliveryInv, RTypeOK
<1>5. \A u \in Servers, t \in PacketTypes, i \in Ids :
        Waiting(u, t, i) \in Nat /\ Waiting(u, t, i)' \in Nat
  <2>1. queue \in [Servers -> Seq(Packets)] /\ queue' \in [Servers -> Seq(Packets)]
    BY <1>1 DEF TypeOK
  <2> QED BY <2>1, Counts DEF Waiting
<1> QED BY <1>1, <1>4, <1>5

LEMMA HandledConsumes ==
  ASSUME RedeliveryInv, NEW s \in Servers, Handle(s),
         NEW k \in PacketTypes, NEW i \in Ids, Handles(s, Packet(k, i)), Consumes(s)
  PROVE  /\ MayCome(s, k, i)
         /\ \A u \in Servers, t \in PacketTypes, j \in Ids :
              /\ MayCome(u, t, j)' => MayCome(u, t, j)
              /\ Waiting(u, t, j)
                   = Waiting(u, t, j)' + (IF u = s /\ t = k /\ j = i THEN 1 ELSE 0)
<1> DEFINE p == Packet(k, i)
<1>1. /\ TypeOK /\ RTypeOK /\ p \in Packets
      /\ \A u \in Servers, t \in PacketTypes, j \in Ids :
           Waiting(u, t, j) \in Nat /\ Waiting(u, t, j)' \in Nat
  BY HandledType, PacketType DEF RedeliveryInv
<1>2. \A u \in Servers, r \in Packets :
        Count(queue[u], r) = Count(queue'[u], r) + (IF u = s /\ r = p THEN 1 ELSE 0)
  BY <1>1, TakenOut
<1>3. ASSUME NEW u \in Servers, NEW t \in PacketTypes, NEW j \in Ids
      PROVE  /\ Waiting(u, t, j)
                  = Waiting(u, t, j)' + (IF u = s /\ t = k /\ j = i THEN 1 ELSE 0)
             /\ Packet(t, j) \in Packets
  <2>1. Packet(t, j) \in Packets /\ (Packet(t, j) = p <=> t = k /\ j = i)
    BY PacketType
  <2> QED BY <1>2, <2>1 DEF Waiting
<1>4. unacked' = [unacked EXCEPT ![s] = Head(queue[s])] /\ p = Head(queue[s])
  BY DEF Handle, Handles
<1>5. \A u \in Servers : \A t \in PacketTypes, j \in Ids :
        Waiting(u, t, j)' > 0 => Waiting(u, t, j) > 0
  BY <1>1, <1>3
<1>6. \A u \in Servers : unacked'[u] = IF u = s THEN p ELSE unacked[u]
  BY <1>1, <1>4 DEF RTypeOK
<1>7. Waiting(s, k, i) > 0
  BY <1>1, <1>3
<1>8. ASSUME NEW u \in Servers, NEW t \in PacketTypes, NEW j \in Ids, MayCome(u, t, j)'
      PROVE  MayCome(u, t, j)
  <2>1. Waiting(u, t, j)' > 0 \/ unacked'[u] = Packet(t, j)
    BY <1>8 DEF MayCome
  <2>2. unacked'[u] = Packet(t, j) /\ u = s => t = k /\ j = i
    BY <1>6, PacketType
  <2> QED BY <1>5, <1>6, <1>7, <2>1, <2>2 DEF MayCome
<1> QED BY <1>3, <1>7, <1>8 DEF MayCome

LEMMA HandledReplies ==
  ASSUME RedeliveryInv, NEW s \in Servers, Handle(s),
         NEW k \in PacketTypes, NEW i \in Ids, Handles(s, Packet(k, i)),
         NEW l \in PacketTypes, Replies(s, Packet(l, i))
  PROVE  /\ MayCome(s, k, i)
         /\ \A u \in Servers, t \in PacketTypes, j \in Ids :
              /\ MayCome(u, t, j)' => \/ MayCome(u, t, j)
                                      \/ u = Peer(s) /\ t = l /\ j = i
              /\ Waiting(u, t, j) + (IF u = Peer(s) /\ t = l /\ j = i THEN 1 ELSE 0)
                   = Waiting(u, t, j)' + (IF u = s /\ t = k /\ j = i THEN 1 ELSE 0)
<1> DEFINE p == Packet(k, i)
           x == Packet(l, i)
<1>1. /\ TypeOK /\ RTypeOK /\ p \in Packets /\ x \in Packets
      /\ \A u \in Servers, t \in PacketTypes, j \in Ids :
           Waiting(u, t, j) \in Nat /\ Waiting(u, t, j)' \in Nat
  BY HandledType, PacketType DEF RedeliveryInv
<1>2. \A u \in Servers, r \in Packets :
        Count(queue[u], r) + (IF u = Peer(s) /\ r = x THEN 1 ELSE 0)
          = Count(queue'[u], r) + (IF u = s /\ r = p THEN 1 ELSE 0)
  BY <1>1, AnsweredTo
<1>3. ASSUME NEW u \in Servers, NEW t \in PacketTypes, NEW j \in Ids
      PROVE  Waiting(u, t, j) + (IF u = Peer(s) /\ t = l /\ j = i THEN 1 ELSE 0)
               = Waiting(u, t, j)' + (IF u = s /\ t = k /\ j = i THEN 1 ELSE 0)
  <2>1. /\ Packet(t, j) \in Packets
        /\ Packet(t, j) = p <=> t = k /\ j = i
        /\ Packet(t, j) = x <=> t = l /\ j = i
    BY PacketType
  <2> QED BY <1>2, <2>1 DEF Waiting
<1>4. unacked' = [unacked EXCEPT ![s] = Head(queue[s])] /\ p = Head(queue[s])
  BY DEF Handle, Handles
<1>5. \A u \in Servers, t \in PacketTypes, j \in Ids :
        Waiting(u, t, j)' > 0 => Waiting(u, t, j) > 0 \/ (u = Peer(s) /\ t = l /\ j = i)
  BY <1>1, <1>3
<1>6. \A u \in Servers : unacked'[u] = IF u = s THEN p ELSE unacked[u]
  BY <1>1, <1>4 DEF RTypeOK
<1>7. Waiting(s, k, i) > 0
  <2>1. s # Peer(s)
    BY PeerFacts
  <2>2. Waiting(s, k, i) + 0 = Waiting(s, k, i)' + 1
    BY <1>3, <2>1
  <2> QED BY <1>1, <2>2
<1>8. ASSUME NEW u \in Servers, NEW t \in PacketTypes, NEW j \in Ids, MayCome(u, t, j)'
      PROVE  MayCome(u, t, j) \/ (u = Peer(s) /\ t = l /\ j = i)
  <2>1. Waiting(u, t, j)' > 0 \/ unacked'[u] = Packet(t, j)
    BY <1>8 DEF MayCome
  <2>2. unacked'[u] = Packet(t, j) /\ u = s => t = k /\ j = i
    BY <1>6, PacketType
  <2> QED BY <1>5, <1>6, <1>7, <2>1, <2>2 DEF MayCome
<1> QED BY <1>3, <1>7, <1>8 DEF MayCome

(* The parts of Ways that a step leaves alone.                             *)
LEMMA WaysParts ==
  ASSUME RedeliveryInv, NEW s \in Servers, Handle(s), NEW u \in Servers, NEW j \in Ids
  PROVE  LET client == IF j \in sent[u] THEN 0 ELSE 1
             client2 == IF j \in sent'[u] THEN 0 ELSE 1
         IN  /\ Peer(u) \in Servers /\ Peer(u) # u /\ Peer(Peer(u)) = u
             /\ Ways(u, j) = added[u][j] + Waiting(u, "verify2", j)
                              + Waiting(Peer(u), "verify1", j) + Waiting(u, "data", j) + client
             /\ Ways(u, j)' = added'[u][j] + Waiting(u, "verify2", j)'
                              + Waiting(Peer(u), "verify1", j)' + Waiting(u, "data", j)' + client2
             /\ added[u][j] \in Nat /\ added'[u][j] \in Nat
             /\ \A t \in PacketTypes, v \in Servers :
                  Waiting(v, t, j) \in Nat /\ Waiting(v, t, j)' \in Nat
             /\ "data" \in PacketTypes /\ "verify1" \in PacketTypes /\ "verify2" \in PacketTypes
             /\ u = Peer(s) \/ u = s
<1>1. added[u][j] \in Nat /\ added'[u][j] \in Nat
  BY HandledType DEF TypeOK, Rows
<1>2. \A t \in PacketTypes, v \in Servers : Waiting(v, t, j) \in Nat /\ Waiting(v, t, j)' \in Nat
  BY HandledType
<1>3. /\ Ways(u, j) = added[u][j] + Waiting(u, "verify2", j)
                       + Waiting(Peer(u), "verify1", j) + Waiting(u, "data", j)
                       + IF j \in sent[u] THEN 0 ELSE 1
      /\ Ways(u, j)' = added'[u][j] + Waiting(u, "verify2", j)'
                       + Waiting(Peer(u), "verify1", j)' + Waiting(u, "data", j)'
                       + IF j \in sent'[u] THEN 0 ELSE 1
  BY DEF Ways
<1>4. Peer(u) \in Servers /\ Peer(u) # u /\ Peer(Peer(u)) = u /\ (u = Peer(s) \/ u = s)
  BY PeerFacts, ServersDiffer DEF Peer
<1> QED BY <1>1, <1>2, <1>3, <1>4 DEF PacketTypes

LEMMA RequeueAgain ==
  ASSUME RedeliveryInv, NEW s \in Servers, Handle(s), NEW p \in Packets, Requeue(s, p)
  PROVE  RedeliveryInv'
<1>1. /\ TypeOK /\ TypeOK' /\ RTypeOK /\ RTypeOK' /\ UNCHANGED losses
      /\ UNCHANGED <<sent, cache, added, alive>>
  BY HandledType DEF Requeue, RedeliveryInv
<1>2. \A u \in Servers, t \in PacketTypes, j \in Ids : Waiting(u, t, j)' = Waiting(u, t, j)
  BY <1>1, PutBack, PacketType DEF Waiting
<1>3. \A u \in Servers, j \in Ids : Ways(u, j)' <= Ways(u, j)
  <2> TAKE u \in Servers, j \in Ids
  <2>1. Ways(u, j)' = Ways(u, j)
    BY <1>1, <1>2, PeerFacts DEF Ways, PacketTypes
  <2>2. Ways(u, j) \in Nat
    BY <1>1, WaysType
  <2> QED BY <2>1, <2>2
<1>4. unacked' = [unacked EXCEPT ![s] = p]
  BY DEF Handle, Requeue, Handles
<1>5. Count(queue[s], p) > 0
  <2>1. queue[s] \in Seq(Packets) /\ queue[s] # <<>> /\ p = Head(queue[s])
    BY <1>1 DEF Requeue, Handles, TypeOK
  <2>2. Count(queue[s], p) = Count(Tail(queue[s]), p) + 1
    BY <2>1, CountTail
  <2>3. Tail(queue[s]) \in Seq(Packets)
    BY <2>1, TailFacts
  <2>4. Count(Tail(queue[s]), p) \in Nat
    BY <2>3, CountType
  <2> QED BY <2>2, <2>4
<1>6. \A u \in Servers : unacked'[u] = IF u = s THEN p ELSE unacked[u]
  BY <1>1, <1>4 DEF RTypeOK
<1>7. \A u \in Servers, t \in PacketTypes, j \in Ids : MayCome(u, t, j)' => MayCome(u, t, j)
  BY <1>2, <1>5, <1>6 DEF MayCome, Waiting
<1>8. MadeFrom'
  BY <1>1, <1>7 DEF RedeliveryInv, MadeFrom, PacketTypes
<1>9. Charged'
  BY <1>1, <1>3, ChargedStays DEF RedeliveryInv
<1> QED BY <1>1, <1>8, <1>9 DEF RedeliveryInv

LEMMA DieAgain ==
  ASSUME RedeliveryInv, NEW s \in Servers, Handle(s), NEW i \in Ids, DieOfData(s, i)
  PROVE  RedeliveryInv'
<1>1. /\ TypeOK /\ TypeOK' /\ RTypeOK' /\ UNCHANGED losses
      /\ Handles(s, Packet("data", i)) /\ Consumes(s)
      /\ UNCHANGED <<sent, cache, added>>
  BY HandledType DEF DieOfData
<1>2. \A u \in Servers, t \in PacketTypes, j \in Ids :
        /\ MayCome(u, t, j)' => MayCome(u, t, j)
        /\ Waiting(u, t, j) = Waiting(u, t, j)' + (IF u = s /\ t = "data" /\ j = i THEN 1 ELSE 0)
  BY <1>1, HandledConsumes DEF PacketTypes
<1>3. \A u \in Servers, j \in Ids : Ways(u, j)' <= Ways(u, j)
  BY <1>1, <1>2, WaysParts
<1>4. MadeFrom'
  BY <1>1, <1>2 DEF RedeliveryInv, MadeFrom, PacketTypes
<1>5. Charged'
  BY <1>1, <1>3, ChargedStays DEF RedeliveryInv
<1> QED BY <1>1, <1>4, <1>5 DEF RedeliveryInv

LEMMA DataAgain ==
  ASSUME RedeliveryInv, NEW s \in Servers, Handle(s), NEW i \in Ids, TakeData(s, i)
  PROVE  RedeliveryInv'
<1>1. /\ TypeOK /\ TypeOK' /\ RTypeOK' /\ UNCHANGED losses
      /\ Handles(s, Packet("data", i)) /\ Replies(s, Packet("verify1", i)) /\ i \in Decodes[s]
      /\ UNCHANGED <<sent, added>>
      /\ \A u \in Servers, j \in Ids :
           cache'[u][j] = IF u = s /\ j = i THEN cache[u][j] \cup {"p1"} ELSE cache[u][j]
  BY HandledType DEF TakeData, Keeps, TypeOK
<1>2. MayCome(s, "data", i)
  BY <1>1, HandledReplies DEF PacketTypes
<1>3. \A u \in Servers, t \in PacketTypes, j \in Ids :
        /\ MayCome(u, t, j)' => MayCome(u, t, j) \/ (u = Peer(s) /\ t = "verify1" /\ j = i)
        /\ Waiting(u, t, j) + (IF u = Peer(s) /\ t = "verify1" /\ j = i THEN 1 ELSE 0)
             = Waiting(u, t, j)' + (IF u = s /\ t = "data" /\ j = i THEN 1 ELSE 0)
  BY <1>1, HandledReplies DEF PacketTypes
<1>4. \A u \in Servers, j \in Ids : Ways(u, j)' <= Ways(u, j)
  BY <1>1, <1>3, WaysParts
<1>5. MadeFrom'
  <2>1. /\ Peer(s) \in Servers /\ Peer(Peer(s)) = s
        /\ \A u \in Servers : Peer(u) \in Servers
        /\ \A u \in Servers, j \in Ids : cache[u][j] \subseteq cache'[u][j]
    BY <1>1, PeerFacts
  <2>2. ASSUME NEW u \in Servers, NEW j \in Ids
        PROVE  /\ MayCome(u, "data", j)' => j \in sent'[u]
               /\ MayCome(u, "verify1", j)' => "p1" \in cache'[Peer(u)][j]
               /\ MayCome(u, "verify2", j)' => "p2" \in cache'[Peer(u)][j]
    <3>1. /\ MayCome(u, "data", j)' => MayCome(u, "data", j)
          /\ MayCome(u, "verify2", j)' => MayCome(u, "verify2", j)
          /\ MayCome(u, "verify1", j)' => MayCome(u, "verify1", j) \/ (u = Peer(s) /\ j = i)
      BY <1>3 DEF PacketTypes
    <3>2. "p1" \in cache'[s][i]
      <4>1. cache'[s][i] = cache[s][i] \cup {"p1"}
        BY <1>1
      <4> QED BY <4>1
    <3> QED BY <1>1, <2>1, <3>1, <3>2 DEF RedeliveryInv, MadeFrom
  <2>3. ASSUME NEW u \in Servers, NEW j \in Ids
        PROVE  /\ "p1" \in cache'[u][j] => j \in sent'[u] /\ j \in Decodes[u]
               /\ "p2" \in cache'[u][j] => "p1" \in cache'[u][j] /\ "p1" \in cache'[Peer(u)][j]
               /\ added'[u][j] > 0 => j \in Honest /\ "p2" \in cache'[u][j]
    <3>1. /\ "p1" \in cache'[u][j] => "p1" \in cache[u][j] \/ (u = s /\ j = i)
          /\ "p2" \in cache'[u][j] => "p2" \in cache[u][j]
      <4>1. CASE u = s /\ j = i
        <5>1. cache'[u][j] = cache[u][j] \cup {"p1"}
          BY <1>1, <4>1
        <5> QED BY <4>1, <5>1
      <4>2. CASE ~(u = s /\ j = i)
        <5>1. cache'[u][j] = cache[u][j]
          BY <1>1, <4>2
        <5> QED BY <5>1
      <4> QED BY <4>1, <4>2
    <3> QED BY <1>1, <1>2, <2>1, <3>1 DEF RedeliveryInv, MadeFrom
  <2> QED BY <2>2, <2>3 DEF MadeFrom
<1>6. Charged'
  BY <1>1, <1>4, ChargedStays DEF RedeliveryInv
<1> QED BY <1>1, <1>5, <1>6 DEF RedeliveryInv

LEMMA Verify1Again ==
  ASSUME RedeliveryInv, NEW s \in Servers, Handle(s), NEW i \in Ids, TakeVerify1(s, i)
  PROVE  RedeliveryInv'
<1>1. /\ TypeOK /\ TypeOK' /\ RTypeOK' /\ UNCHANGED losses
      /\ Handles(s, Packet("verify1", i)) /\ Replies(s, Packet("verify2", i))
      /\ UNCHANGED <<sent, added>>
      /\ \A u \in Servers, j \in Ids :
           cache'[u][j] = IF u = s /\ j = i THEN cache[u][j] \cup {"p2"} ELSE cache[u][j]
  BY HandledType DEF TakeVerify1, Keeps, TypeOK
<1>2. "p1" \in cache[s][i]
  BY PacketType DEF TakeVerify1, Ready, PacketTypes
<1>3. MayCome(s, "verify1", i)
  BY <1>1, HandledReplies DEF PacketTypes
<1>4. \A u \in Servers, t \in PacketTypes, j \in Ids :
        /\ MayCome(u, t, j)' => MayCome(u, t, j) \/ (u = Peer(s) /\ t = "verify2" /\ j = i)
        /\ Waiting(u, t, j) + (IF u = Peer(s) /\ t = "verify2" /\ j = i THEN 1 ELSE 0)
             = Waiting(u, t, j)' + (IF u = s /\ t = "verify1" /\ j = i THEN 1 ELSE 0)
  BY <1>1, HandledReplies DEF PacketTypes
<1>5. \A u \in Servers, j \in Ids : Ways(u, j)' <= Ways(u, j)
  BY <1>1, <1>4, WaysParts
<1>6. MadeFrom'
  <2>1. /\ Peer(s) \in Servers /\ Peer(Peer(s)) = s
        /\ \A u \in Servers : Peer(u) \in Servers
        /\ \A u \in Servers, j \in Ids : cache[u][j] \subseteq cache'[u][j]
    BY <1>1, PeerFacts
  <2>2. ASSUME NEW u \in Servers, NEW j \in Ids
        PROVE  /\ MayCome(u, "data", j)' => j \in sent'[u]
               /\ MayCome(u, "verify1", j)' => "p1" \in cache'[Peer(u)][j]
               /\ MayCome(u, "verify2", j)' => "p2" \in cache'[Peer(u)][j]
    <3>1. /\ MayCome(u, "data", j)' => MayCome(u, "data", j)
          /\ MayCome(u, "verify1", j)' => MayCome(u, "verify1", j)
          /\ MayCome(u, "verify2", j)' => MayCome(u, "verify2", j) \/ (u = Peer(s) /\ j = i)
      BY <1>4 DEF PacketTypes
    <3>2. "p2" \in cache'[s][i]
      <4>1. cache'[s][i] = cache[s][i] \cup {"p2"}
        BY <1>1
      <4> QED BY <4>1
    <3> QED BY <1>1, <2>1, <3>1, <3>2 DEF RedeliveryInv, MadeFrom
  <2>3. ASSUME NEW u \in Servers, NEW j \in Ids
        PROVE  /\ "p1" \in cache'[u][j] => j \in sent'[u] /\ j \in Decodes[u]
               /\ "p2" \in cache'[u][j] => "p1" \in cache'[u][j] /\ "p1" \in cache'[Peer(u)][j]
               /\ added'[u][j] > 0 => j \in Honest /\ "p2" \in cache'[u][j]
    <3>1. /\ "p1" \in cache'[u][j] => "p1" \in cache[u][j]
          /\ "p2" \in cache'[u][j] => "p2" \in cache[u][j] \/ (u = s /\ j = i)
      <4>1. CASE u = s /\ j = i
        <5>1. cache'[u][j] = cache[u][j] \cup {"p2"}
          BY <1>1, <4>1
        <5> QED BY <4>1, <5>1
      <4>2. CASE ~(u = s /\ j = i)
        <5>1. cache'[u][j] = cache[u][j]
          BY <1>1, <4>2
        <5> QED BY <5>1
      <4> QED BY <4>1, <4>2
    <3>2. "p1" \in cache[Peer(s)][i]
      BY <1>3 DEF RedeliveryInv, MadeFrom
    <3> QED BY <1>1, <1>2, <2>1, <3>1, <3>2 DEF RedeliveryInv, MadeFrom
  <2> QED BY <2>2, <2>3 DEF MadeFrom
<1>7. Charged'
  BY <1>1, <1>5, ChargedStays DEF RedeliveryInv
<1> QED BY <1>1, <1>6, <1>7 DEF RedeliveryInv

LEMMA Verify2Again ==
  ASSUME RedeliveryInv, NEW s \in Servers, Handle(s), NEW i \in Ids, TakeVerify2(s, i)
  PROVE  RedeliveryInv'
<1>1. /\ TypeOK /\ TypeOK' /\ RTypeOK' /\ UNCHANGED losses
      /\ Handles(s, Packet("verify2", i)) /\ Consumes(s)
      /\ UNCHANGED <<sent, cache>>
  BY HandledType DEF TakeVerify2
<1>2. \A u \in Servers, j \in Ids :
        added'[u][j] = IF u = s /\ j = i /\ i \in Honest THEN added[u][j] + 1 ELSE added[u][j]
  BY <1>1 DEF TakeVerify2, Valid, TypeOK, Rows
<1>3. "p2" \in cache[s][i]
  BY PacketType DEF TakeVerify2, Ready, PacketTypes
<1>4. \A u \in Servers, t \in PacketTypes, j \in Ids :
        /\ MayCome(u, t, j)' => MayCome(u, t, j)
        /\ Waiting(u, t, j)
             = Waiting(u, t, j)' + (IF u = s /\ t = "verify2" /\ j = i THEN 1 ELSE 0)
  BY <1>1, HandledConsumes DEF PacketTypes
<1>5. \A u \in Servers, j \in Ids : Ways(u, j)' <= Ways(u, j)
  BY <1>1, <1>2, <1>4, WaysParts
<1>6. MadeFrom'
  BY <1>1, <1>2, <1>3, <1>4 DEF RedeliveryInv, MadeFrom, PacketTypes
<1>7. Charged'
  BY <1>1, <1>5, ChargedStays DEF RedeliveryInv
<1> QED BY <1>1, <1>6, <1>7 DEF RedeliveryInv

(* A packet that comes again opens one way more, for one row.              *)
LEMMA LossStep ==
  ASSUME RedeliveryInv, NEW s \in Servers, LoseAck(s)
  PROVE  RedeliveryInv'
<1>1. /\ TypeOK /\ RTypeOK /\ unacked[s] # Nothing /\ unacked[s] \in Packets
      /\ UNCHANGED <<sent, cache, added, alive>>
      /\ losses' = losses + 1 /\ losses \in Nat
      /\ queue[s] \in Seq(Packets)
      /\ queue' = [queue EXCEPT ![s] = <<unacked[s]>> \o @]
      /\ unacked' = [unacked EXCEPT ![s] = Nothing]
  BY DEF LoseAck, RedeliveryInv, RTypeOK, TypeOK
<1>2. PICK k \in PacketTypes, i \in Ids : unacked[s] = Packet(k, i)
  BY <1>1 DEF Packets, Packet
<1>3. \A r : /\ <<unacked[s]>> \o queue[s] \in Seq(Packets)
             /\ Count(<<unacked[s]>> \o queue[s], r)
                  = Count(queue[s], r) + (IF r = unacked[s] THEN 1 ELSE 0)
  BY <1>1, CountCons
<1>4. \A u \in Servers :
        /\ queue'[u] = IF u = s THEN <<unacked[s]>> \o queue[s] ELSE queue[u]
        /\ unacked'[u] = IF u = s THEN Nothing ELSE unacked[u]
  BY <1>1 DEF RTypeOK, TypeOK
<1>5. RTypeOK'
  <2>1. queue' \in [Servers -> Seq(Packets)]
    BY <1>1, <1>3 DEF TypeOK
  <2> QED BY <1>1, <2>1 DEF RTypeOK, TypeOK
<1>6. \A u \in Servers, t \in PacketTypes, j \in Ids : Waiting(u, t, j) \in Nat
  BY <1>1, Counts DEF TypeOK, Waiting
<1>7. \A u \in Servers, t \in PacketTypes, j \in Ids :
        Waiting(u, t, j)' = Waiting(u, t, j) + (IF u = s /\ t = k /\ j = i THEN 1 ELSE 0)
  <2> TAKE u \in Servers, t \in PacketTypes, j \in Ids
  <2>1. Packet(t, j) = unacked[s] <=> t = k /\ j = i
    BY <1>2, PacketType
  <2>2. Waiting(u, t, j) \in Nat
    BY <1>6
  <2> QED BY <1>3, <1>4, <2>1, <2>2 DEF Waiting
<1>8. \A u \in Servers, t \in PacketTypes, j \in Ids : MayCome(u, t, j)' => MayCome(u, t, j)
  <2> SUFFICES ASSUME NEW u \in Servers, NEW t \in PacketTypes, NEW j \in Ids, MayCome(u, t, j)'
               PROVE  MayCome(u, t, j)
    OBVIOUS
  <2>1. Waiting(u, t, j)' > 0 \/ unacked'[u] = Packet(t, j)
    BY DEF MayCome
  <2>2. Packet(t, j) # Nothing
    BY PacketType, NothingIsNoPacket
  <2>3. Waiting(u, t, j)' > 0 => Waiting(u, t, j) > 0 \/ unacked[u] = Packet(t, j)
    BY <1>2, <1>6, <1>7
  <2> QED BY <1>4, <2>1, <2>2, <2>3 DEF MayCome
<1>9. MadeFrom'
  BY <1>1, <1>8 DEF RedeliveryInv, MadeFrom, PacketTypes
<1>10. Charged'
  <2> DEFINE o == IF k = "verify1" THEN Peer(s) ELSE s
  <2>1. PICK credit \in [Servers -> Rows] :
          /\ losses = Sum(credit[A]) + Sum(credit[B])
          /\ \A u \in Servers, j \in Ids : Ways(u, j) <= 1 + credit[u][j]
    BY DEF RedeliveryInv, Charged
  <2> DEFINE more == [credit[o] EXCEPT ![i] = @ + 1]
             credits == [credit EXCEPT ![o] = more]
  <2>2. o \in Servers /\ \A u \in Servers : Peer(u) \in Servers /\ Peer(Peer(u)) = u /\ Peer(u) # u
    BY PeerFacts
  <2>3. more \in Rows /\ Sum(more) = Sum(credit[o]) + 1
    BY <2>2, SumOneMore
  <2>4. \A u \in Servers : credits[u] = IF u = o THEN more ELSE credit[u]
    BY <2>2
  <2>5. \A u \in Servers, j \in Ids :
          /\ credit[u][j] \in Nat
          /\ credits[u][j] = credit[u][j] + (IF u = o /\ j = i THEN 1 ELSE 0)
    BY <2>2, <2>4 DEF Rows
  <2>6. \A u \in Servers, j \in Ids :
          Ways(u, j)' = Ways(u, j) + (IF u = o /\ j = i THEN 1 ELSE 0) /\ Ways(u, j) \in Nat
    <3> TAKE u \in Servers, j \in Ids
    <3>1. /\ Waiting(u, "verify2", j) \in Nat
          /\ Waiting(Peer(u), "verify1", j) \in Nat
          /\ Waiting(u, "data", j) \in Nat
          /\ added[u][j] \in Nat
      BY <1>1, <1>6, <2>2 DEF PacketTypes, TypeOK, Rows
    <3>2. /\ Waiting(u, "verify2", j)' = Waiting(u, "verify2", j)
                                          + (IF u = s /\ k = "verify2" /\ j = i THEN 1 ELSE 0)
          /\ Waiting(Peer(u), "verify1", j)' = Waiting(Peer(u), "verify1", j)
                                          + (IF Peer(u) = s /\ k = "verify1" /\ j = i THEN 1 ELSE 0)
          /\ Waiting(u, "data", j)' = Waiting(u, "data", j)
                                          + (IF u = s /\ k = "data" /\ j = i THEN 1 ELSE 0)
      BY <1>7, <2>2 DEF PacketTypes
    <3>3. /\ Ways(u, j) = added[u][j] + Waiting(u, "verify2", j)
                           + Waiting(Peer(u), "verify1", j) + Waiting(u, "data", j)
                           + IF j \in sent[u] THEN 0 ELSE 1
          /\ Ways(u, j)' = added[u][j] + Waiting(u, "verify2", j)'
                           + Waiting(Peer(u), "verify1", j)' + Waiting(u, "data", j)'
                           + IF j \in sent[u] THEN 0 ELSE 1
      BY <1>1 DEF Ways
    <3>4. k \in {"data", "verify1", "verify2"} /\ (Peer(u) = s <=> u = Peer(s))
      BY <2>2 DEF PacketTypes
    <3> QED BY <3>1, <3>2, <3>3, <3>4
  <2> HIDE DEF more, credits, o
  <2>7. \A u \in Servers, j \in Ids : Ways(u, j)' <= 1 + credits[u][j]
    BY <2>1, <2>5, <2>6
  <2>8. losses' = Sum(credits[A]) + Sum(credits[B])
    <3>1. Sum(credit[A]) \in Nat /\ Sum(credit[B]) \in Nat
      BY SumType
    <3> QED BY <1>1, <2>1, <2>2, <2>3, <2>4, <3>1, ServersDiffer
  <2>9. credits \in [Servers -> Rows]
    BY <2>2, <2>3 DEF credits
  <2> QED BY <2>7, <2>8, <2>9 DEF Charged
<1> QED BY <1>5, <1>9, <1>10 DEF RedeliveryInv

LEMMA RedeliveryInvInit == RInit => RedeliveryInv
<1> SUFFICES ASSUME RInit PROVE RedeliveryInv
  OBVIOUS
<1>1. <<>> \in Seq(Packets) /\ Len(<<>>) = 0 /\ 1..0 = {}
  OBVIOUS
<1>2. RTypeOK
  BY <1>1 DEF RInit, Init, RTypeOK, TypeOK, NoRows, Rows
<1>3. \A u \in Servers, t \in PacketTypes, i \in Ids : Waiting(u, t, i) = 0
  <2>1. \A p : Count(<<>>, p) = 0
    <3>1. \A p : {k \in 1..Len(<<>>) : <<>>[k] = p} = {}
      BY <1>1
    <3> QED BY <3>1, FS_EmptySet DEF Count
  <2> QED BY <2>1 DEF RInit, Init, Waiting
<1>4. MadeFrom
  <2>1. \A u \in Servers, t \in PacketTypes, i \in Ids : ~MayCome(u, t, i)
    BY <1>3, PacketType, NothingIsNoPacket DEF RInit, MayCome
  <2> QED BY <2>1 DEF RInit, Init, MadeFrom, NoRows, PacketTypes
<1>5. Charged
  <2> DEFINE credit == [u \in Servers |-> NoRows]
  <2>1. credit \in [Servers -> Rows]
    BY RowOperators
  <2>2. Sum(NoRows) = 0
    <3>1. NoRows = RowSet({})
      BY DEF NoRows, RowSet
    <3> QED BY <3>1, SumRowSet, FS_EmptySet
  <2>3. \A u \in Servers, i \in Ids : Ways(u, i) = 1 /\ credit[u][i] = 0
    <3> TAKE u \in Servers, i \in Ids
    <3>1. Peer(u) \in Servers
      BY PeerFacts
    <3>2. added[u][i] = 0 /\ i \notin sent[u] /\ credit[u][i] = 0
      BY DEF RInit, Init, NoRows
    <3> QED BY <1>3, <3>1, <3>2 DEF Ways, PacketTypes
  <2>4. losses = Sum(credit[A]) + Sum(credit[B])
    BY <2>2 DEF RInit
  <2> HIDE DEF credit
  <2>5. \A u \in Servers, i \in Ids : Ways(u, i) <= 1 + credit[u][i]
    BY <2>3
  <2> QED BY <2>1, <2>4, <2>5 DEF Charged
<1> QED BY <1>2, <1>4, <1>5 DEF RedeliveryInv

(* The invariant of the exchange over a broker that repeats packets.  A    *)
(* packet that may come again is one whose maker still holds what it made  *)
(* it from, and each lost acknowledgement lets one row of one server be    *)
(* counted once more at most (server.py 47-101).                           *)
THEOREM RedeliveryInvariant == RSpec => []RedeliveryInv
<1>1. RedeliveryInv /\ [RNext]_rvars => RedeliveryInv'
  <2> SUFFICES ASSUME RedeliveryInv, [RNext]_rvars PROVE RedeliveryInv'
    OBVIOUS
  <2>1. ASSUME NEW s \in Servers, Handle(s) PROVE RedeliveryInv'
    <3>1. Consume(s)
      BY <2>1 DEF Handle
    <3> QED BY <2>1, <3>1, RequeueAgain, DieAgain, DataAgain, Verify1Again, Verify2Again
            DEF Consume
  <2>2. CASE UNCHANGED rvars
    BY <2>2 DEF rvars, RedeliveryInv, RTypeOK, TypeOK, MadeFrom, MayCome, Waiting, Charged, Ways
  <2> QED BY <2>1, <2>2, DeliverStep, LossStep DEF RNext
<1> QED BY <1>1, RedeliveryInvInit, PTL DEF RSpec

(* Whatever is delivered again, a server counts only rows whose proof      *)
(* verifies, and that both servers were sent and have decoded (91-97).     *)
THEOREM RepeatsAreValid == RSpec => []OnlyJointValid
<1>1. RedeliveryInv => OnlyJointValid
  <2> SUFFICES ASSUME RedeliveryInv, NEW s \in Servers, NEW i \in Ids, added[s][i] > 0
               PROVE  i \in Honest /\ \A t \in Servers : i \in Decodes[t] /\ i \in sent[t]
    BY DEF OnlyJointValid
  <2>1. i \in Honest /\ "p1" \in cache[s][i] /\ "p1" \in cache[Peer(s)][i]
    BY DEF RedeliveryInv, MadeFrom
  <2>2. \A t \in Servers : t = s \/ t = Peer(s)
    BY ServersDiffer DEF Peer
  <2> QED BY <2>1, <2>2 DEF RedeliveryInv, MadeFrom
<1> QED BY <1>1, RedeliveryInvariant, PTL

(* The totals count at most as many rows too often as acknowledgements     *)
(* were lost (47-101).                                                     *)
THEOREM RepeatsAreBounded == RSpec => []ExcessBounded
<1>1. RedeliveryInv => ExcessBounded
  <2> SUFFICES ASSUME RedeliveryInv PROVE ExcessBounded
    OBVIOUS
  <2>1. PICK credit \in [Servers -> Rows] :
          /\ losses = Sum(credit[A]) + Sum(credit[B])
          /\ \A u \in Servers, j \in Ids : Ways(u, j) <= 1 + credit[u][j]
    BY DEF RedeliveryInv, Charged
  <2>2. ASSUME NEW u \in Servers
        PROVE  Beyond(u) \in Rows /\ Sum(Beyond(u)) <= Sum(credit[u])
               /\ Sum(Beyond(u)) \in Nat /\ Sum(credit[u]) \in Nat
    <3>1. \A i \in Ids : added[u][i] \in Nat /\ credit[u][i] \in Nat
      BY DEF RedeliveryInv, RTypeOK, TypeOK, Rows
    <3>2. Beyond(u) \in Rows
      BY <3>1 DEF Beyond, Rows
    <3>3. \A i \in Ids : added[u][i] <= Ways(u, i) /\ Ways(u, i) \in Nat
      <4> TAKE i \in Ids
      <4>1. Peer(u) \in Servers /\ TypeOK
        BY PeerFacts DEF RedeliveryInv, RTypeOK
      <4>2. /\ Waiting(u, "verify2", i) \in Nat
            /\ Waiting(Peer(u), "verify1", i) \in Nat
            /\ Waiting(u, "data", i) \in Nat
        BY <4>1, Counts DEF TypeOK, Waiting, PacketTypes
      <4> QED BY <3>1, <4>2 DEF Ways
    <3>4. \A i \in Ids : Beyond(u)[i] <= credit[u][i]
      BY <2>1, <3>1, <3>3 DEF Beyond
    <3> QED BY <3>2, <3>4, SumMonotone, SumType
  <2> QED BY <2>1, <2>2 DEF ExcessBounded, Excess
<1> QED BY <1>1, RedeliveryInvariant, PTL
=============================================================================
