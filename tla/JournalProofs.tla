---------------------------- MODULE JournalProofs ----------------------------
(***************************************************************************)
(* Proofs about the event journal, for any number of connections, times    *)
(* and events.                                                             *)
(***************************************************************************)
EXTENDS Journal, TLAPS

\* While a connection is open every event is chained.
Complete == open # {} => DOMAIN chain = 1..Len(events)

\* What holds between any two transactions.
IInv == TypeOK /\ NeverRefused /\ Complete

\* The hash expected of an event binds the one expected of the event before.
LEMMA ExpectedNext ==
  ASSUME events \in Seq(Event), NEW n \in 1..Len(events)
  PROVE  Expected(n) = EventHash(n, events[n], Expected(n - 1))
BY DEF Expected, EventHash

\* Appending an event changes nothing that is expected of those before it.
LEMMA RowsStay ==
  ASSUME events \in Seq(Event), NEW e \in Event, events' = Append(events, e),
         NEW n \in 1..Len(events)
  PROVE  Row(n)' = Row(n)
<1>1. events'[n] = events[n] /\ \A i \in 1..n : events'[i] = events[i]
  OBVIOUS
<1>2. Expected(n)' = Expected(n) /\ Expected(n - 1)' = Expected(n - 1)
  BY <1>1 DEF Expected
<1>. QED BY <1>1, <1>2 DEF Row

\* The last chained hash, when every event is chained.
LEMMA LastHashIs ==
  ASSUME TypeOK, NeverRefused, DOMAIN chain = 1..Len(events)
  PROVE  LastHash = Expected(Len(events))
<1>1. CASE Len(events) = 0
  BY <1>1 DEF LastHash, Genesis, Expected, TypeOK
<1>2. CASE Len(events) # 0
  <2>1. Len(events) \in Nat
    BY DEF TypeOK
  <2>2. Len(events) \in DOMAIN chain /\ \A m \in DOMAIN chain : m <= Len(events)
    BY <1>2, <2>1
  <2>3. ASSUME NEW k \in DOMAIN chain, \A m \in DOMAIN chain : m <= k PROVE k = Len(events)
    BY <2>1, <2>2, <2>3
  <2>4. (CHOOSE k \in DOMAIN chain : \A m \in DOMAIN chain : m <= k) = Len(events)
    BY <2>2, <2>3
  <2>5. chain[Len(events)].hash = Expected(Len(events))
    BY <2>2 DEF NeverRefused, ChainAgrees, Row
  <2>. QED BY <2>2, <2>4, <2>5 DEF LastHash
<1>. QED BY <1>1, <1>2

\* A chained transaction leaves the chain as backfilling would rebuild it.
LEMMA ChainedStep ==
  ASSUME IInv, NEW c \in Connections, NEW e \in Event, SetArtifactActive(c, e)
  PROVE  IInv'
<1>1. DOMAIN chain = 1..Len(events) /\ events \in Seq(Event)
  BY DEF SetArtifactActive, IInv, Complete, TypeOK
<1>2. open' = open /\ active' \in BOOLEAN
  BY DEF SetArtifactActive, Event
<1>3. CASE Journalled(e)
  BY <1>1, <1>2, <1>3
  DEF SetArtifactActive, EventsAfter, ChainAfter, IInv, TypeOK, NeverRefused, ChainAgrees,
      Complete, Row, Expected
<1>4. CASE ~Journalled(e)
  <2>0. PICK n \in Nat : n = Len(events) + 1
    BY <1>1
  <2> DEFINE r == [event |-> e, previous |-> LastHash, hash |-> EventHash(n, e, LastHash)]
  <2>1. events' = Append(events, e) /\ events' \in Seq(Event) /\ Len(events') = n
    BY <1>1, <1>4, <2>0 DEF SetArtifactActive, EventsAfter
  <2>2. chain' = [i \in DOMAIN chain \cup {n} |-> IF i = n THEN r ELSE chain[i]]
    BY <1>4, <2>0 DEF SetArtifactActive, ChainAfter
  <2>3. DOMAIN chain' = 1..Len(events')
    BY <1>1, <2>0, <2>1, <2>2
  <2>4. ASSUME NEW i \in 1..Len(events) PROVE chain'[i] = Row(i)'
    <3>1. chain'[i] = chain[i]
      BY <1>1, <2>0, <2>2
    <3>2. chain[i] = Row(i)
      BY <1>1 DEF IInv, NeverRefused, ChainAgrees
    <3>. QED BY <1>1, <2>1, <3>1, <3>2, RowsStay
  <2>5. chain'[n] = Row(n)'
    <3>1. LastHash = Expected(n - 1)
      BY <1>1, <2>0, LastHashIs DEF IInv
    <3>2. \A i \in 1..(n - 1) : events'[i] = events[i]
      BY <1>1, <2>0, <2>1
    <3>3. Expected(n - 1)' = Expected(n - 1)
      BY <3>2 DEF Expected
    <3>4. events'[n] = e
      BY <1>1, <2>0, <2>1
    <3>5. Expected(n)' = EventHash(n, e, Expected(n - 1))
      <4>1. n \in 1..Len(events')
        BY <2>0, <2>1, <1>1
      <4>2. Expected(n)' = EventHash(n, events'[n], Expected(n - 1)')
        BY <2>1, <4>1 DEF Expected, EventHash
      <4>. QED BY <3>3, <3>4, <4>2
    <3>6. chain'[n] = r
      BY <2>2
    <3> HIDE DEF r
    <3>7. r = [event |-> e, previous |-> LastHash, hash |-> EventHash(n, e, LastHash)]
      BY DEF r
    <3>. QED BY <3>1, <3>3, <3>4, <3>5, <3>6, <3>7 DEF Row
  <2>6. NeverRefused'
    BY <1>1, <2>0, <2>1, <2>3, <2>4, <2>5 DEF NeverRefused, ChainAgrees
  <2>. QED BY <1>2, <2>1, <2>3, <2>6 DEF IInv, TypeOK, Complete
<1>. QED BY <1>3, <1>4

\* Every step keeps the invariant.
LEMMA InvStep == IInv /\ [Next]_vars => IInv'
<1> SUFFICES ASSUME IInv, [Next]_vars PROVE IInv'
  OBVIOUS
<1>t. events \in Seq(Event) /\ DOMAIN chain \subseteq 1..Len(events)
  BY DEF IInv, TypeOK
<1>1. CASE UNCHANGED vars
  BY <1>1 DEF vars, IInv, TypeOK, NeverRefused, ChainAgrees, Row, Expected, Complete
<1>2. ASSUME NEW c \in Connections, Connect(c) PROVE IInv'
  <2>1. events' = events /\ active' = active /\ open' \subseteq Connections
    BY <1>2 DEF Connect, IInv, TypeOK
  <2>2. chain' = [n \in 1..Len(events) |-> Row(n)]
    BY <1>2 DEF Connect, Backfilled
  <2>3. \A n \in DOMAIN chain' : chain'[n] = Row(n) /\ Row(n) = Row(n)'
    BY <2>1, <2>2 DEF Row, Expected
  <2>. QED
    BY <2>1, <2>2, <2>3 DEF IInv, TypeOK, NeverRefused, ChainAgrees, Complete
<1>3. ASSUME NEW c \in Connections, Close(c) PROVE IInv'
  BY <1>3 DEF Close, IInv, TypeOK, NeverRefused, ChainAgrees, Row, Expected, Complete
<1>4. ASSUME NEW c \in OldConnections, NEW e \in Event, SetArtifactActiveUnchained(c, e)
      PROVE  IInv'
  <2>1. chain' = chain /\ open' = open /\ open = {} /\ active' \in BOOLEAN
    BY <1>4 DEF SetArtifactActiveUnchained, Event
  <2>2. CASE Journalled(e)
    BY <1>4, <2>1, <2>2
    DEF SetArtifactActiveUnchained, EventsAfter, IInv, TypeOK, NeverRefused, ChainAgrees, Row,
        Expected, Complete
  <2>3. CASE ~Journalled(e)
    <3>1. events' = Append(events, e)
      BY <1>4, <2>3 DEF SetArtifactActiveUnchained, EventsAfter
    <3>2. events' \in Seq(Event) /\ 1..Len(events) \subseteq 1..Len(events')
      BY <1>t, <3>1
    <3>3. \A n \in DOMAIN chain' : chain'[n] = Row(n)'
      BY <1>t, <2>1, <3>1, RowsStay DEF IInv, NeverRefused, ChainAgrees
    <3>. QED
      BY <1>t, <2>1, <3>2, <3>3 DEF IInv, TypeOK, NeverRefused, ChainAgrees, Complete
  <2>. QED BY <2>2, <2>3
<1>. QED
  BY <1>1, <1>2, <1>3, <1>4, ChainedStep DEF Next

\* The inductive invariant holds in every state of the journal.
THEOREM Invariance == Spec => []IInv
<1>1. Init => IInv
  BY DEF Init, IInv, TypeOK, NeverRefused, ChainAgrees, Complete
<1>. QED BY <1>1, InvStep, PTL DEF Spec

\* The journal, its chain and the connections always have their declared shape.
THEOREM TypeCorrect == Spec => []TypeOK
<1>1. IInv => TypeOK
  BY DEF IInv
<1>. QED BY <1>1, Invariance, PTL

\* No chained row is ever one that opening the database would refuse.
THEOREM AlwaysOpens == Spec => []NeverRefused
<1>1. IInv => NeverRefused
  BY DEF IInv
<1>. QED BY <1>1, Invariance, PTL

\* The journal verifies whenever a connection of this release is open.
THEOREM JournalVerifies == Spec => []ChainVerifies
<1>1. IInv => ChainVerifies
  <2> SUFFICES ASSUME IInv, open # {}, NEW n \in DOMAIN chain
               PROVE  /\ chain[n].previous = IF n = 1 THEN Genesis ELSE chain[n - 1].hash
                      /\ chain[n].hash = EventHash(n, events[n], chain[n].previous)
    BY DEF IInv, Complete, ChainVerifies
  <2>1. DOMAIN chain = 1..Len(events) /\ events \in Seq(Event)
    BY DEF IInv, Complete, TypeOK
  <2>2. \A m \in DOMAIN chain : chain[m].previous = Expected(m - 1) /\ chain[m].hash = Expected(m)
    BY DEF IInv, NeverRefused, ChainAgrees, Row
  <2>3. n # 1 => n - 1 \in DOMAIN chain
    BY <2>1
  <2>4. n = 1 => Expected(n - 1) = Genesis
    BY DEF Expected, Genesis
  <2>5. chain[n].hash = EventHash(n, events[n], Expected(n - 1))
    BY <2>1, <2>2, ExpectedNext
  <2>. QED BY <2>2, <2>3, <2>4, <2>5
<1>. QED BY <1>1, Invariance, PTL

\* Nothing recorded is ever changed, moved or removed.
THEOREM RecordsStay == Spec => AppendOnly
<1> DEFINE Kept == /\ \A n \in DOMAIN events : n \in DOMAIN events' /\ events'[n] = events[n]
                   /\ \A n \in DOMAIN chain : n \in DOMAIN chain' /\ chain'[n] = chain[n]
<1>1. IInv /\ [Next]_vars => [Kept]_vars
  <2> SUFFICES ASSUME IInv, Next PROVE Kept
    OBVIOUS
  <2>t. events \in Seq(Event) /\ DOMAIN chain \subseteq 1..Len(events)
    BY DEF IInv, TypeOK
  <2>1. ASSUME NEW e \in Event, events' = EventsAfter(e)
        PROVE  \A n \in DOMAIN events : n \in DOMAIN events' /\ events'[n] = events[n]
    BY <2>t, <2>1 DEF EventsAfter
  <2>2. ASSUME NEW c \in Connections, Connect(c) PROVE Kept
    BY <2>t, <2>2 DEF Connect, Backfilled, ChainAgrees
  <2>3. ASSUME NEW c \in Connections, Close(c) PROVE Kept
    BY <2>3 DEF Close
  <2>4. ASSUME NEW c \in Connections, NEW e \in Event, SetArtifactActive(c, e) PROVE Kept
    <3>1. \A n \in DOMAIN chain : n # Len(events) + 1
      BY <2>t
    <3>2. \A n \in DOMAIN chain : n \in DOMAIN chain' /\ chain'[n] = chain[n]
      BY <2>4, <3>1 DEF SetArtifactActive, ChainAfter
    <3>. QED BY <2>1, <2>4, <3>2 DEF SetArtifactActive
  <2>5. ASSUME NEW c \in OldConnections, NEW e \in Event, SetArtifactActiveUnchained(c, e)
        PROVE  Kept
    BY <2>1, <2>5 DEF SetArtifactActiveUnchained
  <2>. QED BY <2>2, <2>3, <2>4, <2>5 DEF Next
<1>. QED BY <1>1, Invariance, PTL DEF Spec, AppendOnly
=============================================================================
