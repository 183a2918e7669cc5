--------------------------- MODULE WrapperObjects ---------------------------
(***************************************************************************)
(* The objects of prio_processor/prio/wrapper.py under any legal order of  *)
(* calls: the protocol of one process that plays both servers              *)
(* (examples/python-wrapper; examples/swig-wrapper makes the same calls to *)
(* the library below).                                                     *)
(*                                                                         *)
(* A packet or total share is a library object that can travel: within the *)
(* process as a reference, otherwise pickled.  Unpickling keeps the bytes  *)
(* aside, because reading them takes a configuration; the object is empty  *)
(* until deserialize(config) is called, and pickling it before that        *)
(* pickles the empty object.                                               *)
(***************************************************************************)
EXTENDS RowData

CONSTANTS
  Blank,      \* content of an object that has not been read
  None,       \* no object, or no bytes kept aside
  MaxPickles  \* bound: objects pickled in a run

Kinds == {"p1", "p2"}
Slots == Servers \X Kinds \X Servers \X Ids

ASSUME NoneIsNothing == None \notin Ids \cup BOOLEAN /\ None \notin Rows

VARIABLES
  verifier,   \* verifier[s]: rows for which server s has a Verifier
  packet,     \* packet[<<h, k, s, i>>]: what holder h has of packet k of server s
  verdict,    \* verdict[s][i]: what is_valid returned at s
  added,      \* added[s]: the rows in the sum of s
  total,      \* total[s]: the TotalShare of s
  output,     \* what total_share_final returned
  pickles     \* objects pickled so far

vars == <<verifier, packet, verdict, added, total, output, pickles>>

Init ==
  /\ verifier = [s \in Servers |-> {}]
  /\ packet = [slot \in Slots |-> None]
  /\ verdict = [s \in Servers |-> [i \in Ids |-> None]]
  /\ added = [s \in Servers |-> NoRows]
  /\ total = [s \in Servers |-> None]
  /\ output = None
  /\ pickles = 0
-----------------------------------------------------------------------------
(* PacketVerify1, PacketVerify2 and TotalShare. *)

\* A new object has its content and no bytes.
New(content) == [inst |-> content, serial |-> None]

\* __getstate__ writes the instance, whether or not it has been read.
Dumps(o) == o.inst

\* __setstate__
Loads(bytes) == [inst |-> Blank, serial |-> bytes]

\* Mutant: the bytes are forgotten before they are read.
DeserializeNothing(o) == [o EXCEPT !.serial = None]

Deserialize(o) == IF o.serial # None THEN New(o.serial) ELSE o

\* Packets stand for the row they were computed from.
Combined(i, o1, o2) == IF o1.inst = i /\ o2.inst = i THEN i ELSE Garbled
-----------------------------------------------------------------------------
(* Server and Verifier. *)

CreateVerifier(s, i) ==
  /\ i \in Decodes[s] \ verifier[s]
  /\ verifier' = [verifier EXCEPT ![s] = @ \cup {i}]
  /\ UNCHANGED <<packet, verdict, added, total, output, pickles>>

CreateVerify1(s, i) ==
  /\ i \in verifier[s] /\ packet[<<s, "p1", s, i>>] = None
  /\ packet' = [packet EXCEPT ![<<s, "p1", s, i>>] = New(i)]
  /\ UNCHANGED <<verifier, verdict, added, total, output, pickles>>

Has(s, k, i) == \A t \in Servers : packet[<<s, k, t, i>>] # None

\* create_verify2 and is_valid read both packets first.
ReadBoth(s, k, i) ==
  [slot \in Slots |-> IF slot \in {<<s, k, t, i>> : t \in Servers}
                      THEN Deserialize(packet[slot]) ELSE packet[slot]]

CreateVerify2(s, i) ==
  /\ i \in verifier[s] /\ Has(s, "p1", i) /\ packet[<<s, "p2", s, i>>] = None
  /\ LET read == ReadBoth(s, "p1", i)
         p1(t) == read[<<s, "p1", t, i>>]
     IN  packet' = [read EXCEPT ![<<s, "p2", s, i>>] = New(Combined(i, p1(A), p1(B)))]
  /\ UNCHANGED <<verifier, verdict, added, total, output, pickles>>

IsValid(s, i) ==
  /\ i \in verifier[s] /\ Has(s, "p2", i) /\ verdict[s][i] = None
  /\ packet' = ReadBoth(s, "p2", i)
  /\ LET p2(t) == packet'[<<s, "p2", t, i>>]
         valid == Combined(i, p2(A), p2(B)) = i /\ i \in Honest
     IN  verdict' = [verdict EXCEPT ![s][i] = valid]
  /\ UNCHANGED <<verifier, added, total, output, pickles>>

AggregateRow(s, i) ==
  /\ verdict[s][i] = TRUE /\ added[s][i] = 0 /\ total[s] = None
  /\ added' = [added EXCEPT ![s][i] = 1]
  /\ UNCHANGED <<verifier, packet, verdict, total, output, pickles>>

\* The programs collect the shares once every row is settled.
TotalShares(s) ==
  /\ total[s] = None
  /\ \A i \in Ids : verdict[s][i] = FALSE \/ added[s][i] = 1
  /\ total' = [total EXCEPT ![s] = New(added[s])]
  /\ UNCHANGED <<verifier, packet, verdict, added, output, pickles>>

\* total_share_final(config, tA, tB)
Final ==
  /\ \A s \in Servers : total[s] # None
  /\ output = None
  /\ total' = [s \in Servers |-> Deserialize(total[s])]
  /\ output' = TotalShareFinal(total'[A].inst, total'[B].inst)
  /\ UNCHANGED <<verifier, packet, verdict, added, pickles>>
-----------------------------------------------------------------------------
(* Travelling. *)

Pickle == pickles < MaxPickles /\ pickles' = pickles + 1

\* The peer is handed the object itself.
Send(s, k, i) ==
  /\ packet[<<s, k, s, i>>] # None /\ packet[<<Peer(s), k, s, i>>] = None
  /\ packet' = [packet EXCEPT ![<<Peer(s), k, s, i>>] = packet[<<s, k, s, i>>]]
  /\ UNCHANGED <<verifier, verdict, added, total, output, pickles>>

\* A packet, a server's own or its peer's, is pickled and unpickled.
Repickle(h, s, k, i) ==
  /\ packet[<<h, k, s, i>>] # None /\ Pickle
  /\ packet' = [packet EXCEPT ![<<h, k, s, i>>] = Loads(Dumps(@))]
  /\ UNCHANGED <<verifier, verdict, added, total, output>>

RepickleTotal(s) ==
  /\ total[s] # None /\ Pickle
  /\ total' = [total EXCEPT ![s] = Loads(Dumps(@))]
  /\ UNCHANGED <<verifier, packet, verdict, added, output>>

\* Mutant: an unread packet is pickled too.
ReadOrNot(o) == TRUE

\* The programs of the repository only pickle what they have made or read: a
\* packet that is put back unread is forwarded as the bytes it came in
\* (server.py 60-66), and one that was kept aside is read by is_valid.
Read(o) == o.serial = None
CarefulRepickle ==
  \E s \in Servers :
    \/ total[s] # None /\ Read(total[s]) /\ RepickleTotal(s)
    \/ \E h \in Servers, k \in Kinds, i \in Ids :
         /\ packet[<<h, k, s, i>>] # None /\ Read(packet[<<h, k, s, i>>])
         /\ Repickle(h, s, k, i)

Calls ==
  \/ \E s \in Servers : TotalShares(s)
  \/ \E s \in Servers, i \in Ids :
       \/ CreateVerifier(s, i) \/ CreateVerify1(s, i) \/ CreateVerify2(s, i)
       \/ IsValid(s, i) \/ AggregateRow(s, i)
       \/ \E k \in Kinds : Send(s, k, i)
  \/ Final

Next == Calls \/ CarefulRepickle
Spec == Init /\ [][Next]_vars
-----------------------------------------------------------------------------
(* Properties. *)

Denotes(o) == IF o.serial # None THEN o.serial ELSE o.inst

Contents == Ids \cup {Garbled, Blank}
Objects == [inst : Contents, serial : Contents \cup {None}]
Totals == [inst : Rows \cup {Blank}, serial : Rows \cup {Blank, None}]

TypeOK ==
  /\ packet \in [Slots -> Objects \cup {None}]
  /\ total \in [Servers -> Totals \cup {None}]
  /\ verifier \in [Servers -> SUBSET Ids]
  /\ verdict \in [Servers -> [Ids -> BOOLEAN \cup {None}]]
  /\ added \in [Servers -> [Ids -> {0, 1}]]
  /\ output \in Rows \cup {Garbled, Blank, None}

\* Whatever the order of the calls and however the packets travelled, is_valid
\* tells the forged rows from the others, at both servers (wrapper.py 163-183).
VerdictsRight ==
  \A s \in Servers, i \in Ids : verdict[s][i] # None => verdict[s][i] = (i \in Honest)

\* "assert list(data_items) == list(output)" (python-wrapper 57, swig-wrapper
\* 62): the output counts each valid row once, forged rows aside.
OutputRight == output # None => output = RowSet(Honest)

PacketsKeep ==
  \A slot \in Slots : packet[slot] # None => Denotes(packet[slot]) = slot[4]
TotalsKeep == \A s \in Servers : total[s] # None => Denotes(total[s]) = added[s]

\* Pickling and unpickling keeps what an object stands for ("Serializable",
\* wrapper.py 186, 208, 232), whatever has been read, sent on or pickled again
\* before; for that the programs' care not to pickle what is unread is needed.
Serializable == PacketsKeep /\ TotalsKeep
=============================================================================
