--------------------------- MODULE WrapperProofs ---------------------------
(***************************************************************************)
(* Theorems about WrapperObjects, for every set of rows and any number of  *)
(* pickled objects: what an object stands for survives the journeys the    *)
(* programs send it on, and so verdicts and totals are right.              *)
(***************************************************************************)
EXTENDS WrapperObjects, RowDataProofs

Packets == [Slots -> Objects \cup {None}]

LEMMA SlotOf ==
  ASSUME NEW h \in Servers, NEW k \in Kinds, NEW s \in Servers, NEW i \in Ids
  PROVE  <<h, k, s, i>> \in Slots /\ <<h, k, s, i>>[4] = i
BY DEF Slots

LEMMA BothServers == A \in Servers /\ B \in Servers /\ A # B /\ \A s \in Servers : s = A \/ s = B
BY ServersDiffer DEF Servers

(* What an object stands for, through the operations of the wrapper.       *)
LEMMA ObjectOperations ==
  ASSUME NEW x, x # None
  PROVE  /\ Denotes(New(x)) = x
         /\ \A o : Denotes(o) = x /\ Read(o) => Denotes(Loads(Dumps(o))) = x
         /\ \A o : Denotes(o) = x => Deserialize(o).inst = x \/ (Deserialize(o) = o /\ o.inst = x)
         /\ \A o : Denotes(o) = x => Denotes(Deserialize(o)) = x
BY DEF Denotes, New, Read, Loads, Dumps, Deserialize

LEMMA ObjectTypes ==
  /\ \A i \in Ids : New(i) \in Objects
  /\ \A o \in Objects : Loads(Dumps(o)) \in Objects /\ Deserialize(o) \in Objects
  /\ \A r \in Rows : New(r) \in Totals
  /\ \A o \in Totals : Loads(Dumps(o)) \in Totals /\ Deserialize(o) \in Totals
BY DEF New, Loads, Dumps, Deserialize, Objects, Totals, Contents

(* The state behind the theorems: objects stand for what they were made    *)
(* from, verdicts are right, and a sum that is collected is complete.      *)
WrapperInv ==
  /\ TypeOK /\ VerdictsRight /\ OutputRight
  /\ PacketsKeep /\ TotalsKeep
  /\ \A s \in Servers, i \in Ids : added[s][i] = 1 => i \in Honest
  /\ \A s \in Servers : total[s] # None => added[s] = RowSet(Honest)

LEMMA WrapperInvInit == Init => WrapperInv
<1> SUFFICES ASSUME Init PROVE WrapperInv
  OBVIOUS
<1>1. TypeOK
  BY DEF Init, TypeOK, NoRows
<1>2. VerdictsRight /\ OutputRight /\ PacketsKeep /\ TotalsKeep
  BY DEF Init, VerdictsRight, OutputRight, PacketsKeep, TotalsKeep, Kinds
<1> QED BY <1>1, <1>2 DEF Init, WrapperInv, NoRows

(* Steps that only put an object in the place of one, or of none.          *)
LEMMA PacketReplaced ==
  ASSUME WrapperInv, NEW slot \in Slots, NEW o \in Objects, Denotes(o) = slot[4],
         packet' = [packet EXCEPT ![slot] = o]
  PROVE  packet' \in Packets /\ PacketsKeep'
<1>1. packet \in Packets
  BY DEF WrapperInv, TypeOK, Packets
<1>2. packet' \in Packets /\ \A x \in Slots : packet'[x] = IF x = slot THEN o ELSE packet[x]
  BY <1>1 DEF Packets
<1> QED BY <1>2 DEF WrapperInv, PacketsKeep, Denotes

LEMMA OnlyPackets ==
  ASSUME WrapperInv, UNCHANGED <<verifier, verdict, added, total, output>>,
         packet' \in Packets,
         PacketsKeep'
  PROVE  WrapperInv'
BY DEF WrapperInv, TypeOK, VerdictsRight, OutputRight, TotalsKeep, Denotes, Packets

(* Reading both packets of a row leaves what they stand for.               *)
LEMMA ReadBothKeeps ==
  ASSUME WrapperInv, NEW s \in Servers, NEW k \in Kinds, NEW i \in Ids, Has(s, k, i),
         NEW read, read = ReadBoth(s, k, i)
  PROVE  /\ read \in Packets
         /\ \A x \in Slots : read[x] # None => Denotes(read[x]) = x[4]
         /\ Combined(i, read[<<s, k, A, i>>], read[<<s, k, B, i>>]) = i
<1> DEFINE a == <<s, k, A, i>>
           b == <<s, k, B, i>>
<1>1. a \in Slots /\ b \in Slots /\ a # b /\ a[4] = i /\ b[4] = i
  BY BothServers DEF Slots
<1>2. packet \in Packets /\ i # None
  BY NoneIsNothing DEF WrapperInv, TypeOK, Packets
<1>3. /\ packet[a] \in Objects /\ Denotes(packet[a]) = i
      /\ packet[b] \in Objects /\ Denotes(packet[b]) = i
  BY <1>1, <1>2, BothServers DEF WrapperInv, PacketsKeep, Has, Packets
<1>4. /\ Deserialize(packet[a]) \in Objects /\ Denotes(Deserialize(packet[a])) = i
      /\ Deserialize(packet[b]) \in Objects /\ Denotes(Deserialize(packet[b])) = i
      /\ Deserialize(packet[a]).inst = i /\ Deserialize(packet[b]).inst = i
  BY <1>2, <1>3, ObjectTypes, ObjectOperations
<1>5. \A x : x \in {<<s, k, t, i>> : t \in Servers} <=> x = a \/ x = b
  BY BothServers
<1>6. read = [x \in Slots |-> IF x = a \/ x = b THEN Deserialize(packet[x]) ELSE packet[x]]
  BY <1>5 DEF ReadBoth
<1> HIDE DEF a, b
<1>7. \A x \in Slots : read[x] = IF x = a \/ x = b THEN Deserialize(packet[x]) ELSE packet[x]
  BY <1>6
<1>8. read \in Packets
  BY <1>2, <1>4, <1>6 DEF Packets
<1>9. \A x \in Slots : read[x] # None => Denotes(read[x]) = x[4]
  BY <1>1, <1>4, <1>7 DEF WrapperInv, PacketsKeep
<1>10. read[a].inst = i /\ read[b].inst = i
  BY <1>1, <1>4, <1>7
<1> QED BY <1>8, <1>9, <1>10 DEF Combined, a, b

LEMMA WrapperInvStep ==
  ASSUME WrapperInv, Next
  PROVE  WrapperInv'
<1>1. ASSUME NEW s \in Servers, NEW i \in Ids, CreateVerifier(s, i) PROVE WrapperInv'
  BY <1>1 DEF CreateVerifier, WrapperInv, TypeOK, VerdictsRight, OutputRight, PacketsKeep,
              TotalsKeep, Denotes
<1>2. ASSUME NEW s \in Servers, NEW i \in Ids, CreateVerify1(s, i) PROVE WrapperInv'
  <2>1. /\ <<s, "p1", s, i>> \in Slots /\ <<s, "p1", s, i>>[4] = i
        /\ New(i) \in Objects /\ Denotes(New(i)) = i
    BY NoneIsNothing, ObjectTypes, ObjectOperations, SlotOf DEF Kinds
  <2>2. packet' \in Packets /\ PacketsKeep'
    BY <1>2, <2>1, PacketReplaced DEF CreateVerify1
  <2> QED BY <1>2, <2>2, OnlyPackets DEF CreateVerify1
<1>3. ASSUME NEW s \in Servers, NEW i \in Ids, CreateVerify2(s, i) PROVE WrapperInv'
  <2> DEFINE read == ReadBoth(s, "p1", i)
             slot == <<s, "p2", s, i>>
  <2>1. "p1" \in Kinds /\ slot \in Slots /\ slot[4] = i
    BY SlotOf DEF Kinds
  <2>2. /\ read \in Packets
        /\ \A x \in Slots : read[x] # None => Denotes(read[x]) = x[4]
        /\ Combined(i, read[<<s, "p1", A, i>>], read[<<s, "p1", B, i>>]) = i
    BY <1>3, <2>1, ReadBothKeeps DEF CreateVerify2
  <2>3. New(i) \in Objects /\ Denotes(New(i)) = i
    BY NoneIsNothing, ObjectTypes, ObjectOperations
  <2>4. packet' = [read EXCEPT ![slot] = New(i)]
    BY <1>3, <2>2 DEF CreateVerify2
  <2> HIDE DEF read, slot
  <2>5. /\ packet' \in Packets
        /\ \A x \in Slots : packet'[x] = IF x = slot THEN New(i) ELSE read[x]
    BY <2>1, <2>2, <2>3, <2>4 DEF Packets
  <2>6. PacketsKeep'
    BY <2>1, <2>2, <2>3, <2>5 DEF PacketsKeep, Denotes
  <2> QED BY <1>3, <2>5, <2>6, OnlyPackets DEF CreateVerify2
<1>4. ASSUME NEW s \in Servers, NEW i \in Ids, IsValid(s, i) PROVE WrapperInv'
  <2>1. "p2" \in Kinds /\ packet' = ReadBoth(s, "p2", i) /\ Has(s, "p2", i)
    BY <1>4 DEF IsValid, Kinds
  <2>2. /\ packet' \in Packets
        /\ \A x \in Slots : packet'[x] # None => Denotes(packet'[x]) = x[4]
        /\ Combined(i, packet'[<<s, "p2", A, i>>], packet'[<<s, "p2", B, i>>]) = i
    BY <2>1, ReadBothKeeps
  <2>3. PacketsKeep'
    BY <2>2 DEF PacketsKeep, Denotes
  <2>4. UNCHANGED <<verifier, added, total, output>>
    BY <1>4 DEF IsValid
  <2> DEFINE valid == i \in Honest
  <2>5. /\ verdict' = [verdict EXCEPT ![s][i] = valid]
    <3> DEFINE checked == /\ Combined(i, packet'[<<s, "p2", A, i>>], packet'[<<s, "p2", B, i>>]) = i
                          /\ i \in Honest
    <3>1. verdict' = [verdict EXCEPT ![s][i] = checked]
      BY <1>4, Zenon DEF IsValid
    <3>2. CASE i \in Honest
      <4>1. checked = TRUE /\ valid = TRUE
        BY <2>2, <3>2
      <4> QED BY <3>1, <4>1, Zenon
    <3>3. CASE ~(i \in Honest)
      <4>1. checked = FALSE /\ valid = FALSE
        BY <3>3
      <4> QED BY <3>1, <4>1, Zenon
    <3> QED BY <3>2, <3>3
  <2>6. valid \in BOOLEAN /\ verdict \in [Servers -> [Ids -> BOOLEAN \cup {None}]]
    BY DEF WrapperInv, TypeOK
  <2> HIDE DEF valid
  <2>7. /\ verdict' \in [Servers -> [Ids -> BOOLEAN \cup {None}]]
        /\ \A t \in Servers, j \in Ids :
             verdict'[t][j] = IF t = s /\ j = i THEN valid ELSE verdict[t][j]
    BY <2>5, <2>6
  <2>8. VerdictsRight'
    BY <2>7 DEF WrapperInv, VerdictsRight, valid
  <2>9. TypeOK'
    BY <2>2, <2>4, <2>7 DEF WrapperInv, TypeOK, Packets
  <2> QED BY <2>3, <2>4, <2>8, <2>9 DEF WrapperInv, OutputRight, TotalsKeep, Denotes
<1>5. ASSUME NEW s \in Servers, NEW i \in Ids, AggregateRow(s, i) PROVE WrapperInv'
  <2>1. /\ UNCHANGED <<verifier, packet, verdict, total, output>> /\ total[s] = None
        /\ added' = [added EXCEPT ![s][i] = 1]
    BY <1>5 DEF AggregateRow
  <2>2. verdict[s][i] = TRUE /\ i \in Honest
    BY <1>5, NoneIsNothing DEF AggregateRow, WrapperInv, VerdictsRight
  <2>3. TypeOK' /\ PacketsKeep' /\ VerdictsRight' /\ OutputRight'
    BY <2>1 DEF WrapperInv, TypeOK, PacketsKeep, VerdictsRight, OutputRight, Denotes
  <2>4. \A t \in Servers, j \in Ids : added'[t][j] = 1 => j \in Honest
    BY <2>1, <2>2 DEF WrapperInv, TypeOK
  <2>5. \A t \in Servers : t # s => added'[t] = added[t]
    BY <2>1 DEF WrapperInv, TypeOK
  <2>6. TotalsKeep' /\ \A t \in Servers : total'[t] # None => added'[t] = RowSet(Honest)
    BY <2>1, <2>5 DEF WrapperInv, TotalsKeep, Denotes
  <2> QED BY <2>3, <2>4, <2>6 DEF WrapperInv
<1>6. ASSUME NEW s \in Servers, NEW k \in Kinds, NEW i \in Ids, Send(s, k, i) PROVE WrapperInv'
  <2>1. Peer(s) \in Servers
    BY DEF Peer, Servers
  <2>2. /\ <<s, k, s, i>> \in Slots /\ <<s, k, s, i>>[4] = i
        /\ <<Peer(s), k, s, i>> \in Slots /\ <<Peer(s), k, s, i>>[4] = i
    BY <2>1, SlotOf
  <2>3. packet[<<s, k, s, i>>] \in Objects /\ Denotes(packet[<<s, k, s, i>>]) = i
    BY <1>6, <2>2 DEF Send, WrapperInv, TypeOK, PacketsKeep
  <2>4. packet' \in Packets /\ PacketsKeep'
    BY <1>6, <2>2, <2>3, PacketReplaced DEF Send
  <2> QED BY <1>6, <2>4, OnlyPackets DEF Send
<1>7. ASSUME NEW s \in Servers, TotalShares(s) PROVE WrapperInv'
  <2>1. /\ UNCHANGED <<verifier, packet, verdict, added, output>>
        /\ total' = [total EXCEPT ![s] = New(added[s])]
    BY <1>7 DEF TotalShares
  <2>2. ASSUME NEW j \in Ids PROVE added[s][j] = IF j \in Honest THEN 1 ELSE 0
    <3>1. (verdict[s][j] = FALSE \/ added[s][j] = 1) /\ added[s][j] \in {0, 1}
      BY <1>7 DEF TotalShares, WrapperInv, TypeOK
    <3>2. added[s][j] = 1 => j \in Honest
      BY DEF WrapperInv
    <3>3. verdict[s][j] = FALSE => ~(j \in Honest)
      BY NoneIsNothing, Zenon DEF WrapperInv, VerdictsRight
    <3> QED BY <3>1, <3>2, <3>3
  <2>3. added[s] = RowSet(Honest)
    BY <2>2 DEF WrapperInv, TypeOK, RowSet
  <2>4. added[s] \in Rows /\ added[s] # None
    BY <2>3, HonestType, RowOperators, NoneIsNothing
  <2>5. New(added[s]) \in Totals /\ Denotes(New(added[s])) = added[s]
    BY <2>4, ObjectTypes, ObjectOperations
  <2>6. \A t \in Servers : total'[t] = IF t = s THEN New(added[s]) ELSE total[t]
    BY <2>1 DEF WrapperInv, TypeOK
  <2>7. TypeOK'
    BY <2>1, <2>5 DEF WrapperInv, TypeOK
  <2>8. TotalsKeep' /\ \A t \in Servers : total'[t] # None => added'[t] = RowSet(Honest)
    BY <2>1, <2>3, <2>5, <2>6 DEF WrapperInv, TotalsKeep, Denotes
  <2> QED BY <2>1, <2>7, <2>8 DEF WrapperInv, VerdictsRight, OutputRight, PacketsKeep, Denotes
<1>8. CASE Final
  <2>1. /\ UNCHANGED <<verifier, packet, verdict, added>>
        /\ total' = [s \in Servers |-> Deserialize(total[s])]
        /\ output' = TotalShareFinal(total'[A].inst, total'[B].inst)
        /\ \A s \in Servers : total[s] # None
    BY <1>8 DEF Final
  <2>2. ASSUME NEW s \in Servers
        PROVE  /\ total'[s] \in Totals /\ Denotes(total'[s]) = added[s]
               /\ total'[s].inst = added[s] /\ added[s] = RowSet(Honest)
    <3>1. total[s] \in Totals /\ Denotes(total[s]) = added[s] /\ added[s] = RowSet(Honest)
      BY <2>1 DEF WrapperInv, TypeOK, TotalsKeep
    <3>2. added[s] # None
      BY <3>1, HonestType, RowOperators, NoneIsNothing
    <3> QED BY <2>1, <3>1, <3>2, ObjectTypes, ObjectOperations
  <2>3. output' = RowSet(Honest)
    BY <2>1, <2>2, BothServers DEF TotalShareFinal
  <2>4. RowSet(Honest) \in Rows
    BY HonestType, RowOperators
  <2>5. TypeOK'
    BY <2>1, <2>2, <2>3, <2>4 DEF WrapperInv, TypeOK
  <2>6. TotalsKeep' /\ \A s \in Servers : total'[s] # None => added'[s] = RowSet(Honest)
    BY <2>1, <2>2 DEF TotalsKeep, Denotes
  <2> QED BY <2>1, <2>3, <2>5, <2>6 DEF WrapperInv, VerdictsRight, OutputRight, PacketsKeep, Denotes
<1>9. CASE CarefulRepickle
  <2>1. ASSUME NEW s \in Servers, total[s] # None, Read(total[s]), RepickleTotal(s)
        PROVE  WrapperInv'
    <3>1. /\ UNCHANGED <<verifier, packet, verdict, added, output>>
          /\ total' = [total EXCEPT ![s] = Loads(Dumps(total[s]))]
      BY <2>1 DEF RepickleTotal
    <3>2. total[s] \in Totals /\ Denotes(total[s]) = added[s] /\ added[s] = RowSet(Honest)
      BY <2>1 DEF WrapperInv, TypeOK, TotalsKeep
    <3>3. added[s] # None
      BY <3>2, HonestType, RowOperators, NoneIsNothing
    <3>4. Loads(Dumps(total[s])) \in Totals /\ Denotes(Loads(Dumps(total[s]))) = added[s]
      BY <2>1, <3>2, <3>3, ObjectTypes, ObjectOperations
    <3>5. \A t \in Servers : total'[t] = IF t = s THEN Loads(Dumps(total[s])) ELSE total[t]
      BY <3>1 DEF WrapperInv, TypeOK
    <3>6. TypeOK'
      BY <3>1, <3>4 DEF WrapperInv, TypeOK
    <3>7. TotalsKeep' /\ \A t \in Servers : total'[t] # None => added'[t] = RowSet(Honest)
      BY <3>1, <3>2, <3>4, <3>5 DEF WrapperInv, TotalsKeep, Denotes
    <3> QED BY <3>1, <3>6, <3>7 DEF WrapperInv, VerdictsRight, OutputRight, PacketsKeep, Denotes
  <2>2. ASSUME NEW s \in Servers, NEW h \in Servers, NEW k \in Kinds, NEW i \in Ids,
               packet[<<h, k, s, i>>] # None, Read(packet[<<h, k, s, i>>]), Repickle(h, s, k, i)
        PROVE  WrapperInv'
    <3>1. <<h, k, s, i>> \in Slots /\ <<h, k, s, i>>[4] = i /\ i # None
      BY SlotOf, NoneIsNothing
    <3>2. packet[<<h, k, s, i>>] \in Objects /\ Denotes(packet[<<h, k, s, i>>]) = i
      BY <2>2, <3>1 DEF WrapperInv, TypeOK, PacketsKeep
    <3>3. /\ Loads(Dumps(packet[<<h, k, s, i>>])) \in Objects
          /\ Denotes(Loads(Dumps(packet[<<h, k, s, i>>]))) = i
      BY <2>2, <3>1, <3>2, ObjectTypes, ObjectOperations
    <3>4. packet' = [packet EXCEPT ![<<h, k, s, i>>] = Loads(Dumps(packet[<<h, k, s, i>>]))]
      BY <2>2 DEF Repickle
    <3>5. packet' \in Packets /\ PacketsKeep'
      BY <3>1, <3>3, <3>4, PacketReplaced
    <3> QED BY <2>2, <3>5, OnlyPackets DEF Repickle
  <2> QED BY <1>9, <2>1, <2>2 DEF CarefulRepickle
<1> QED BY <1>1, <1>2, <1>3, <1>4, <1>5, <1>6, <1>7, <1>8, <1>9 DEF Next, Calls

(* Pickled as the programs pickle them, objects keep what they stand for,  *)
(* and a sum that a program reads is complete (wrapper.py 163-240).        *)
THEOREM WrapperInvariant == Spec => []WrapperInv
<1>1. WrapperInv /\ [Next]_vars => WrapperInv'
  <2> SUFFICES ASSUME WrapperInv, [Next]_vars PROVE WrapperInv'
    OBVIOUS
  <2>1. CASE UNCHANGED vars
    BY <2>1 DEF vars, WrapperInv, TypeOK, VerdictsRight, OutputRight, PacketsKeep,
                TotalsKeep, Denotes
  <2> QED BY <2>1, WrapperInvStep
<1> QED BY <1>1, WrapperInvInit, PTL DEF Spec

(* A packet or a total share stands for the row or the sum it was made     *)
(* from, whoever pickled, sent or unpickled it (wrapper.py 179-240).       *)
THEOREM PicklesKeep == Spec => []Serializable
<1>1. WrapperInv => Serializable
  BY DEF WrapperInv, Serializable
<1> QED BY <1>1, WrapperInvariant, PTL

(* is_valid tells the rows whose proofs verify from the others, at both    *)
(* servers and whatever was pickled on the way (wrapper.py 179-202).       *)
THEOREM VerdictsTellForged == Spec => []VerdictsRight
<1>1. WrapperInv => VerdictsRight
  BY DEF WrapperInv
<1> QED BY <1>1, WrapperInvariant, PTL

(* The histogram of both total shares counts each valid row once           *)
(* (wrapper.py 203-240).                                                   *)
THEOREM OutputCounts == Spec => []OutputRight
<1>1. WrapperInv => OutputRight
  BY DEF WrapperInv
<1> QED BY <1>1, WrapperInvariant, PTL
=============================================================================
