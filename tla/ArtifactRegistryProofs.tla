----------------------- MODULE ArtifactRegistryProofs -----------------------
(***************************************************************************)
(* Proofs about the artifact registry, for any artifacts, names, planes,   *)
(* sites, pointers, receipts and claims.                                   *)
(***************************************************************************)
EXTENDS ArtifactRegistry, TLAPS

USE NoneAssumption, ClaimsAssumption

-----------------------------------------------------------------------------
(* Lemmas about the parts of a decision *)

\* Each part of what reconcile can find is among the findings.
LEMMA FindingsTyped ==
  ASSUME NEW a, NEW n, NEW required
  PROVE  /\ ReplicaFindings(a, required) \in SUBSET Findings
         /\ PointerFindings(n, a) \in SUBSET Findings
         /\ ReceiptFindings(n) \in SUBSET Findings
<1>1. ASSUME NEW p PROVE PlaneFindings(a, p) \in SUBSET Findings
  BY DEF PlaneFindings, Findings
<1>2. ReplicaFindings(a, required) \in SUBSET Findings
  BY <1>1 DEF ReplicaFindings
<1>. QED BY <1>2 DEF PointerFindings, ReceiptFindings, Findings

\* Unchanged tables are read the same way.
LEMMA ReadAgain ==
  ASSUME UNCHANGED tables, NEW n, NEW a, NEW required
  PROVE  /\ Active(n)' = Active(n)
         /\ ReplicaFindings(a, required)' = ReplicaFindings(a, required)
         /\ PointerFindings(n, a)' = PointerFindings(n, a)
         /\ Conflicting(n)' = Conflicting(n)
         /\ ReceiptFindings(n)' = ReceiptFindings(n)
<1>. USE DEF tables
<1>1. Active(n)' = Active(n)
  BY DEF Active
<1>2. ASSUME NEW p PROVE PlaneFindings(a, p)' = PlaneFindings(a, p)
  <2>1. Candidates(a, p)' = Candidates(a, p)
    BY DEF Candidates
  <2>. QED BY <2>1 DEF PlaneFindings
<1>3. ReplicaFindings(a, required)' = ReplicaFindings(a, required)
  BY <1>2 DEF ReplicaFindings
<1>4. PointerFindings(n, a)' = PointerFindings(n, a)
  BY DEF PointerFindings
<1>5. EverNamed(n)' = EverNamed(n)
  BY DEF EverNamed
<1>6. Selected(n)' = Selected(n)
  BY <1>5 DEF Selected
<1>7. Conflicting(n)' = Conflicting(n)
  BY <1>6 DEF Conflicting, Outputs
<1>8. ReceiptFindings(n)' = ReceiptFindings(n)
  BY <1>7 DEF ReceiptFindings
<1>. QED BY <1>1, <1>3, <1>4, <1>7, <1>8

\* What was found stays so as long as the tables do.
LEMMA StillSoStable ==
  ASSUME UNCHANGED tables, NEW s, NEW n, NEW required, NEW a, NEW found,
         StillSo(s, n, required, a, found)
  PROVE  StillSo(s, n, required, a, found)'
BY ReadAgain DEF StillSo

\* Whatever was found, the decision is one of the six.
LEMMA DecisionTyped ==
  ASSUME NEW found, NEW a \in Contents \cup {None}
  PROVE  RulingOn(a, found) \in RulingRow
<1>1. Decision(found) \in Decisions
  BY DEF Decision, WithoutConflict, Decisions
<1>. QED BY <1>1 DEF RulingOn, RulingRow

-----------------------------------------------------------------------------
(* Type correctness *)

\* The empty tables are tables.
LEMMA InitTyped == Init => TypeOK
BY DEF Init, TypeOK

\* A registration leaves every row a row of its table.
LEMMA RegistersTyped ==
  ASSUME TypeOK, NEW c \in Callers, Registers(c)
  PROVE  TypeOK'
<1>. USE DEF TypeOK, Registers
<1>1. CASE \E n \in Names, a \in Contents, active \in BOOLEAN : RegisterArtifact(c, n, a, active)
  BY <1>1 DEF RegisterArtifact, Flag
<1>2. CASE \E a \in Contents, active \in BOOLEAN : SetArtifactActive(c, a, active)
  BY <1>2 DEF SetArtifactActive, Flag
<1>3. CASE \E s \in Sites, a \in Contents, o \in Observations : RegisterReplica(c, s, a, o)
  BY <1>3 DEF RegisterReplica, ReplicaRow
<1>4. CASE \E n \in Names, q \in Pointers : RegisterPointer(c, n, q)
  <2>1. PICK n \in Names, q \in Pointers : RegisterPointer(c, n, q)
    BY <1>4
  <2>2. PICK row \in PointerRow : pointer' = [pointer EXCEPT ![n][q] = row]
    BY <2>1 DEF RegisterPointer, PointerRow
  <2>. QED BY <2>1, <2>2 DEF RegisterPointer
<1>5. CASE \E r \in Receipts, k \in Claims : RegisterReceipt(c, r, k)
  BY <1>5 DEF RegisterReceipt
<1>. QED BY <1>1, <1>2, <1>3, <1>4, <1>5

\* A statement of reconcile only adds findings to what its caller keeps.
LEMMA FindsTyped ==
  ASSUME TypeOK, NEW c \in Callers, NEW from, NEW to, NEW findings,
         from # "idle", findings \in SUBSET Findings,
         to \in {"replicas", "pointers", "receipts", "decide"},
         Finds(c, from, to, findings)
  PROVE  TypeOK'
<1>1. call[c] \in Reconciling
  BY DEF TypeOK, Finds, Idle
<1>2. [call[c] EXCEPT !.stage = to, !.found = @ \cup findings] \in Reconciling
  BY <1>1 DEF Reconciling
<1>3. call' = [call EXCEPT ![c] = [call[c] EXCEPT !.stage = to, !.found = @ \cup findings]]
  BY <1>1 DEF Finds, TypeOK
<1>. QED BY <1>2, <1>3 DEF Finds, TypeOK, tables

\* The call of ReadArtifacts keeps a record of Reconciling.
LEMMA ReadArtifactsReads ==
  ASSUME TypeOK, NEW c \in Callers, NEW n \in Names, NEW required \in SUBSET Planes,
         ReadArtifacts(c, n, required)
  PROVE  \E stage \in {"replicas", "decide"}, a \in Contents \cup {None},
            found \in SUBSET Findings :
           /\ call' = [call EXCEPT ![c] = [stage |-> stage, name |-> n, required |-> required,
                                           artifact |-> a, found |-> found]]
           /\ StillSo(stage, n, required, a, found)
<1>1. CASE Active(n) = {}
  <2>1. {"missing_artifact"} \in SUBSET Findings
    BY DEF Findings
  <2>2. call' = [call EXCEPT ![c] = [stage |-> "decide", name |-> n, required |-> required,
                                     artifact |-> None, found |-> {"missing_artifact"}]]
    BY <1>1 DEF ReadArtifacts
  <2>3. StillSo("decide", n, required, None, {"missing_artifact"})
    BY <1>1 DEF StillSo
  <2>. QED BY <2>1, <2>2, <2>3
<1>2. CASE \E x, y \in Active(n) : x # y
  <2>1. {"duplicate_logical_name"} \in SUBSET Findings
    BY DEF Findings
  <2>2. call' = [call EXCEPT ![c] = [stage |-> "decide", name |-> n, required |-> required,
                                     artifact |-> None, found |-> {"duplicate_logical_name"}]]
    BY <1>2 DEF ReadArtifacts
  <2>3. StillSo("decide", n, required, None, {"duplicate_logical_name"})
    BY <1>2 DEF StillSo
  <2>. QED BY <2>1, <2>2, <2>3
<1>3. CASE Active(n) # {} /\ ~(\E x, y \in Active(n) : x # y)
  <2>1. PICK a \in Active(n) :
          /\ Active(n) = {a}
          /\ call' = [call EXCEPT ![c] = [stage |-> "replicas", name |-> n, required |-> required,
                                          artifact |-> a, found |-> {}]]
    BY <1>3 DEF ReadArtifacts
  <2>2. a \in Contents /\ a # None
    BY <2>1 DEF Active
  <2>3. StillSo("replicas", n, required, a, {})
    BY <2>1, <2>2 DEF StillSo
  <2>. QED BY <2>1, <2>2, <2>3
<1>. QED BY <1>1, <1>2, <1>3

\* So does each other step of reconcile; a ruling is a row of its table.
LEMMA ReconcilesTyped ==
  ASSUME TypeOK, NEW c \in Callers, Reconciles(c)
  PROVE  TypeOK'
<1>1. CASE \E n \in Names, required \in SUBSET Planes : ReadArtifacts(c, n, required)
  <2>1. PICK n \in Names, required \in SUBSET Planes : ReadArtifacts(c, n, required)
    BY <1>1
  <2>2. PICK stage \in {"replicas", "decide"}, a \in Contents \cup {None},
      found \in SUBSET Findings :
          call' = [call EXCEPT ![c] = [stage |-> stage, name |-> n, required |-> required,
                                       artifact |-> a, found |-> found]]
    BY <2>1, ReadArtifactsReads
  <2>3. [stage |-> stage, name |-> n, required |-> required, artifact |-> a, found |-> found]
          \in Reconciling
    BY DEF Reconciling
  <2>. QED BY <2>1, <2>2, <2>3 DEF ReadArtifacts, TypeOK, tables
<1>2. CASE ReadReplicas(c)
  BY <1>2, FindingsTyped, FindsTyped DEF ReadReplicas
<1>3. CASE ReadPointers(c)
  BY <1>3, FindingsTyped, FindsTyped DEF ReadPointers
<1>4. CASE ReadReceipts(c)
  BY <1>4, FindingsTyped, FindsTyped DEF ReadReceipts
<1>5. CASE Commit(c)
  <2>1. call[c] \in Reconciling
    BY <1>5 DEF Commit, TypeOK, Idle
  <2>2. RulingOn(call[c].artifact, call[c].found) \in RulingRow
    BY <2>1, DecisionTyped DEF Reconciling
  <2>. QED BY <1>5, <2>2 DEF Commit, TypeOK, tables
<1>6. CASE Abandon(c)
  BY <1>6 DEF Abandon, TypeOK, tables
<1>. QED BY <1>1, <1>2, <1>3, <1>4, <1>5, <1>6 DEF Reconciles

\* A step of any number of callers keeps the rows of the tables.
LEMMA NextTyped == TypeOK /\ [Next]_vars => TypeOK'
<1>. SUFFICES ASSUME TypeOK, [Next]_vars PROVE TypeOK'
  OBVIOUS
<1>1. CASE Next
  BY <1>1, RegistersTyped, ReconcilesTyped DEF Next
<1>2. CASE UNCHANGED vars
  BY <1>2 DEF TypeOK, vars, tables
<1>. QED BY <1>1, <1>2

\* Every row stays a row of its table, whatever is reported and however many
\* callers there are.
THEOREM TypeCorrect == Spec => []TypeOK
BY InitTyped, NextTyped, PTL DEF Spec

-----------------------------------------------------------------------------
(* Conflicting receipts *)

\* No registration takes back a name or a receipt.
LEMMA RegistersKeep ==
  ASSUME TypeOK, NEW c \in Callers, Registers(c)
  PROVE  /\ \A n \in Names, a \in Contents : named[n][a] # "none" => named'[n][a] # "none"
         /\ \A r \in Receipts : receipt[r] # None => receipt'[r] = receipt[r]
         /\ UNCHANGED <<ruling, call>>
<1>. USE DEF TypeOK, Registers
<1>1. CASE \E n \in Names, a \in Contents, active \in BOOLEAN : RegisterArtifact(c, n, a, active)
  BY <1>1 DEF RegisterArtifact, Flag
<1>2. CASE \E a \in Contents, active \in BOOLEAN : SetArtifactActive(c, a, active)
  BY <1>2 DEF SetArtifactActive, Flag
<1>3. CASE \E s \in Sites, a \in Contents, o \in Observations : RegisterReplica(c, s, a, o)
  BY <1>3 DEF RegisterReplica
<1>4. CASE \E n \in Names, q \in Pointers : RegisterPointer(c, n, q)
  BY <1>4 DEF RegisterPointer
<1>5. CASE \E r \in Receipts, k \in Claims : RegisterReceipt(c, r, k)
  BY <1>5 DEF RegisterReceipt, ReceiptFree
<1>. QED BY <1>1, <1>2, <1>3, <1>4, <1>5

\* reconcile changes no table but its own.
LEMMA ReconcilesKeep ==
  ASSUME NEW c \in Callers, Reconciles(c)
  PROVE  UNCHANGED tables
BY DEF Reconciles, ReadArtifacts, ReadReplicas, ReadPointers, ReadReceipts, Finds, Commit,
       Abandon, tables

\* With names and receipts kept, what conflicts over a name still does.
LEMMA ConflictKept ==
  ASSUME TypeOK, NEW n \in Names, Conflicting(n),
         \A a \in Contents : named[n][a] # "none" => named'[n][a] # "none",
         \A r \in Receipts : receipt[r] # None => receipt'[r] = receipt[r]
  PROVE  Conflicting(n)'
<1>1. PICK r \in Selected(n) : \E x, y \in Outputs(n, receipt[r].job) : x # y
  BY DEF Conflicting
<1>2. PICK s \in Selected(n), t \in Selected(n) :
        /\ receipt[s].job = receipt[r].job /\ receipt[s].completed /\ receipt[s].output # None
        /\ receipt[t].job = receipt[r].job /\ receipt[t].completed /\ receipt[t].output # None
        /\ receipt[s].output # receipt[t].output
  BY <1>1 DEF Outputs
<1>3. ASSUME NEW q \in Selected(n)
      PROVE  q \in Selected(n)' /\ receipt'[q] = receipt[q]
  BY <1>3 DEF Selected, EverNamed
<1>4. /\ r \in Selected(n)' /\ s \in Selected(n)' /\ t \in Selected(n)'
      /\ receipt'[r] = receipt[r] /\ receipt'[s] = receipt[s] /\ receipt'[t] = receipt[t]
  BY <1>1, <1>2, <1>3
<1>5. ASSUME NEW q \in Selected(n)', receipt'[q].job = receipt'[r].job,
             receipt'[q].completed, receipt'[q].output # None
      PROVE  receipt'[q].output \in Outputs(n, receipt[r].job)'
  BY <1>5 DEF Outputs
<1>6. /\ receipt'[s].output \in Outputs(n, receipt[r].job)'
      /\ receipt'[t].output \in Outputs(n, receipt[r].job)'
  BY <1>2, <1>4, <1>5
<1>. QED BY <1>2, <1>4, <1>6 DEF Conflicting

\* Receipts that conflict over a name conflict for ever, with any number of callers.
THEOREM ConflictsRemain == Spec => ConflictsStay
<1>1. ASSUME TypeOK, [Next]_vars, NEW n \in Names, Conflicting(n)
      PROVE  Conflicting(n)'
  <2>1. CASE \E c \in Callers : Registers(c)
    BY <1>1, <2>1, RegistersKeep, ConflictKept
  <2>2. CASE UNCHANGED tables
    BY <1>1, <2>2, ReadAgain
  <2>. QED BY <1>1, <2>1, <2>2, ReconcilesKeep DEF Next, vars
<1>2. TypeOK /\ [Next]_vars => [\A n \in Names : Conflicting(n) => Conflicting(n)']_vars
  BY <1>1
<1>. QED BY <1>2, TypeCorrect, PTL DEF Spec, ConflictsStay

-----------------------------------------------------------------------------
(* What has been read is still so, when nothing is registered meanwhile *)

\* What another call has read stays so as long as the tables do.
LEMMA OthersHold ==
  ASSUME UNCHANGED tables, NEW d \in Callers, call'[d] = call[d], ReadingHolds(d)
  PROVE  ReadingHolds(d)'
<1>1. ASSUME NEW n \in Names, NEW required \in SUBSET Planes, NEW a \in Contents \cup {None},
             call[d] # Idle, call[d].name = n, call[d].required = required, call[d].artifact = a
      PROVE  StillSo(call[d].stage, n, required, a, call[d].found)'
  <2>1. PICK stage, found : stage = call[d].stage /\ found = call[d].found
    OBVIOUS
  <2>2. StillSo(stage, n, required, a, found)
    BY <1>1, <2>1 DEF ReadingHolds
  <2>3. StillSo(stage, n, required, a, found)'
    BY <2>2, StillSoStable
  <2>. QED BY <2>1, <2>3 DEF StillSo
<1>. QED BY <1>1 DEF ReadingHolds

\* A call that begins has read the versions as they are.
LEMMA ReadArtifactsHold ==
  ASSUME TypeOK, NEW c \in Callers,
         \E n \in Names, required \in SUBSET Planes : ReadArtifacts(c, n, required)
  PROVE  ReadingHolds(c)'
<1>1. PICK n \in Names, required \in SUBSET Planes : ReadArtifacts(c, n, required)
  OBVIOUS
<1>2. PICK stage \in {"replicas", "decide"}, a \in Contents \cup {None}, found \in SUBSET Findings :
        /\ call' = [call EXCEPT ![c] = [stage |-> stage, name |-> n, required |-> required,
                                        artifact |-> a, found |-> found]]
        /\ StillSo(stage, n, required, a, found)
  BY <1>1, ReadArtifactsReads
<1>3. UNCHANGED tables
  BY <1>1 DEF ReadArtifacts
<1>4. StillSo(stage, n, required, a, found)'
  BY <1>2, <1>3, StillSoStable
<1>5. call'[c] = [stage |-> stage, name |-> n, required |-> required,
                  artifact |-> a, found |-> found]
  BY <1>2 DEF TypeOK
<1>. QED BY <1>4, <1>5 DEF ReadingHolds

\* A statement adds what its table says now to what still holds.
LEMMA FindsHold ==
  ASSUME TypeOK, NEW c \in Callers, ReadingHolds(c),
         ReadReplicas(c) \/ ReadPointers(c) \/ ReadReceipts(c)
  PROVE  ReadingHolds(c)'
<1>1. call[c] \in Reconciling /\ UNCHANGED tables
  BY DEF ReadReplicas, ReadPointers, ReadReceipts, Finds, TypeOK, Idle
<1>2. PICK n \in Names, required \in SUBSET Planes, a \in Contents \cup {None} :
        call[c].name = n /\ call[c].required = required /\ call[c].artifact = a
  BY <1>1 DEF Reconciling
<1>3. StillSo(call[c].stage, n, required, a, call[c].found)
  <2>1. call[c] # Idle
    BY DEF ReadReplicas, ReadPointers, ReadReceipts, Finds, Idle
  <2>. QED BY <1>2, <2>1 DEF ReadingHolds
<1>4. PICK stage \in {"pointers", "receipts", "decide"}, found \in SUBSET Findings :
        /\ call' = [call EXCEPT ![c].stage = stage, ![c].found = found]
        /\ StillSo(stage, n, required, a, found)
  <2>1. CASE ReadReplicas(c)
    <3>1. /\ call' = [call EXCEPT ![c].stage = "pointers",
                                  ![c].found = @ \cup ReplicaFindings(a, required)]
          /\ call[c].stage = "replicas"
      BY <1>2, <2>1 DEF ReadReplicas, Finds
    <3>2. call[c].found = {} /\ a # None /\ Active(n) = {a}
      BY <1>3, <3>1 DEF StillSo
    <3>3. StillSo("pointers", n, required, a, ReplicaFindings(a, required))
      BY <3>2 DEF StillSo
    <3>. QED BY <1>1, <3>1, <3>2, <3>3, FindingsTyped
  <2>2. CASE ReadPointers(c)
    <3>1. /\ call' = [call EXCEPT ![c].stage = "receipts", ![c].found = @ \cup PointerFindings(n, a)]
          /\ call[c].stage = "pointers"
      BY <1>2, <2>2 DEF ReadPointers, Finds
    <3>2. call[c].found = ReplicaFindings(a, required) /\ a # None /\ Active(n) = {a}
      BY <1>3, <3>1 DEF StillSo
    <3>3. StillSo("receipts", n, required, a,
                  ReplicaFindings(a, required) \cup PointerFindings(n, a))
      BY <3>2 DEF StillSo
    <3>. QED BY <1>1, <3>1, <3>2, <3>3, FindingsTyped
  <2>3. CASE ReadReceipts(c)
    <3>1. /\ call' = [call EXCEPT ![c].stage = "decide", ![c].found = @ \cup ReceiptFindings(n)]
          /\ call[c].stage = "receipts"
      BY <1>2, <2>3 DEF ReadReceipts, Finds
    <3>2. /\ call[c].found = ReplicaFindings(a, required) \cup PointerFindings(n, a)
          /\ a # None /\ Active(n) = {a}
      BY <1>3, <3>1 DEF StillSo
    <3>3. StillSo("decide", n, required, a,
                  ReplicaFindings(a, required) \cup PointerFindings(n, a) \cup ReceiptFindings(n))
      BY <3>2 DEF StillSo
    <3>. QED BY <1>1, <3>1, <3>2, <3>3, FindingsTyped
  <2>. QED BY <2>1, <2>2, <2>3
<1>5. StillSo(stage, n, required, a, found)'
  BY <1>1, <1>4, StillSoStable
<1>6. /\ call'[c].stage = stage /\ call'[c].found = found
      /\ call'[c].name = n /\ call'[c].required = required /\ call'[c].artifact = a
  BY <1>1, <1>2, <1>4 DEF TypeOK, Reconciling
<1>. QED BY <1>5, <1>6 DEF ReadingHolds

\* No statement of one call makes untrue what it or another one has read.
LEMMA ReconcilesHold ==
  ASSUME TypeOK, ReadingsHold, NEW c \in Callers, Reconciles(c)
  PROVE  ReadingsHold'
<1>1. UNCHANGED tables
  BY ReconcilesKeep
<1>2. ASSUME NEW d \in Callers, d # c PROVE call'[d] = call[d]
  BY <1>2 DEF Reconciles, ReadArtifacts, ReadReplicas, ReadPointers, ReadReceipts, Finds, Commit,
              Abandon, TypeOK
<1>3. ReadingHolds(c)'
  <2>1. CASE Commit(c) \/ Abandon(c)
    <3>1. call'[c] = Idle
      BY <2>1 DEF Commit, Abandon, TypeOK
    <3>. QED BY <3>1 DEF ReadingHolds
  <2>. QED BY <2>1, ReadArtifactsHold, FindsHold DEF Reconciles, ReadingsHold
<1>. QED BY <1>1, <1>2, <1>3, OthersHold DEF ReadingsHold

\* Nor does a registration, which waits until no call is under way.
LEMMA ReadingsStay ==
  ASSUME IInv, [QuietNext]_vars
  PROVE  ReadingsHold'
<1>. USE DEF IInv
<1>1. ASSUME NEW c \in Callers, Quiet, Registers(c) PROVE ReadingsHold'
  <2>1. \A d \in Callers : call'[d] = Idle
    BY <1>1, RegistersKeep DEF Quiet
  <2>. QED BY <2>1 DEF ReadingsHold, ReadingHolds
<1>2. CASE UNCHANGED vars
  <2>1. UNCHANGED tables /\ UNCHANGED call
    BY <1>2 DEF vars
  <2>. QED BY <2>1, OthersHold DEF ReadingsHold
<1>. QED BY <1>1, <1>2, ReconcilesHold DEF QuietNext

\* Reconciling in quiet is reconciling.
LEMMA QuietSteps == [QuietNext]_vars => [Next]_vars
BY DEF QuietNext, Next

\* With one connection it is quiet whenever something is registered.
THEOREM OneCallerIsQuiet == (\A c, d \in Callers : c = d) => (Spec => QuietSpec)
<1>. SUFFICES ASSUME \A c, d \in Callers : c = d PROVE Spec => QuietSpec
  OBVIOUS
<1>1. ASSUME NEW c \in Callers, Registers(c) PROVE Quiet
  BY <1>1 DEF Registers, RegisterArtifact, SetArtifactActive, RegisterReplica,
              RegisterPointer, RegisterReceipt, Quiet
<1>2. [Next]_vars => [QuietNext]_vars
  BY <1>1 DEF Next, QuietNext
<1>. QED BY <1>2, PTL DEF Spec, QuietSpec

\* When nothing is registered meanwhile, whatever reconcile has found is true of
\* the tables as they stand, until it commits, however many calls are under way.
THEOREM Invariance == QuietSpec => []IInv
<1>1. Init => IInv
  BY InitTyped DEF Init, IInv, ReadingsHold, ReadingHolds
<1>2. IInv /\ [QuietNext]_vars => IInv'
  BY NextTyped, ReadingsStay, QuietSteps DEF IInv
<1>. QED BY <1>1, <1>2, PTL DEF QuietSpec

-----------------------------------------------------------------------------
(* What a ruling says *)

\* What a call about to commit knows, by the name it asks for.
LEMMA KnownAtCommit ==
  ASSUME IInv, NEW c \in Callers, Commit(c)
  PROVE  \E n \in Names, required \in SUBSET Planes, a \in Contents \cup {None},
            found \in SUBSET Findings :
           /\ call[c].name = n /\ call[c].required = required
           /\ call[c].artifact = a /\ call[c].found = found
           /\ StillSo("decide", n, required, a, found)
<1>1. call[c] \in Reconciling /\ call[c] # Idle /\ call[c].stage = "decide"
  BY DEF IInv, TypeOK, Commit, Idle
<1>2. /\ call[c].name \in Names /\ call[c].required \in SUBSET Planes
      /\ call[c].artifact \in Contents \cup {None} /\ call[c].found \in SUBSET Findings
  BY <1>1 DEF Reconciling
<1>3. StillSo("decide", call[c].name, call[c].required, call[c].artifact, call[c].found)
  BY <1>1, <1>2 DEF IInv, ReadingsHold, ReadingHolds
<1>. QED BY <1>2, <1>3

\* A copy whose bytes have changed is found on its plane.
LEMMA ChangedFound ==
  ASSUME NEW a, NEW required, NEW s \in Sites, s[1] \in required,
         replica[s] # None, replica[s].artifact = a, replica[s].observed = "changed"
  PROVE  "changed_bytes" \in ReplicaFindings(a, required)
<1>1. s \in Candidates(a, s[1])
  BY DEF Candidates
<1>2. "changed_bytes" \in PlaneFindings(a, s[1])
  BY <1>1 DEF PlaneFindings
<1>. QED BY <1>2 DEF ReplicaFindings

\* When nothing is registered meanwhile, a ruling that names an artifact is recorded
\* while that is the only active version and nothing conflicts.
THEOREM FailClosed == QuietSpec => FailsClosed
<1>1. ASSUME IInv, NEW c \in Callers, Commit(c),
             ruling'[call[c].name].artifact # None
      PROVE  LET n == call[c].name
                 a == ruling'[n].artifact
             IN /\ Active(n) = {a}
                /\ ~Conflicting(n)
                /\ \A s \in Sites :
                     s[1] \in call[c].required /\ replica[s] # None /\ replica[s].artifact = a
                     => replica[s].observed # "changed"
  <2>1. PICK n \in Names, required \in SUBSET Planes, a \in Contents \cup {None},
             found \in SUBSET Findings :
          /\ call[c].name = n /\ call[c].required = required
          /\ call[c].artifact = a /\ call[c].found = found
          /\ StillSo("decide", n, required, a, found)
    BY <1>1, KnownAtCommit
  <2>2. ruling'[n] = RulingOn(a, found)
    BY <1>1, <2>1 DEF Commit, IInv, TypeOK
  <2>3. ruling'[n].artifact = a /\ a # None /\ found \cap Conflicts = {}
    BY <1>1, <2>1, <2>2 DEF RulingOn, Decision
  <2>4. /\ Active(n) = {a}
        /\ found = ReplicaFindings(a, required) \cup PointerFindings(n, a) \cup ReceiptFindings(n)
    BY <2>1, <2>3 DEF StillSo
  <2>5. ~Conflicting(n)
    BY <2>3, <2>4 DEF ReceiptFindings, Conflicts
  <2>6. "changed_bytes" \notin ReplicaFindings(a, required)
    BY <2>3, <2>4 DEF Conflicts
  <2>. QED BY <2>1, <2>3, <2>4, <2>5, <2>6, ChangedFound
<1>2. IInv /\ [QuietNext]_vars =>
        [\A c \in Callers : Commit(c) =>
           LET n == call[c].name
               a == ruling'[n].artifact
           IN a # None => /\ Active(n) = {a}
                          /\ ~Conflicting(n)
                          /\ \A s \in Sites :
                               s[1] \in call[c].required /\ replica[s] # None
                                 /\ replica[s].artifact = a
                               => replica[s].observed # "changed"]_vars
  BY <1>1
<1>. QED BY <1>2, Invariance, PTL DEF QuietSpec, FailsClosed

-----------------------------------------------------------------------------
(* The statements of reconcile are one verdict *)

\* What is found among copies, pointers and receipts is what the verdict asks.
LEMMA FindingsMean ==
  ASSUME NEW n \in Names, NEW required \in SUBSET Planes, NEW a \in Contents
  PROVE  LET found == ReplicaFindings(a, required) \cup PointerFindings(n, a)
                      \cup ReceiptFindings(n)
         IN /\ "missing_artifact" \notin found
            /\ "duplicate_logical_name" \notin found
            /\ "changed_bytes" \in found <=> \E p \in required : Abstract!Copied(a, p, {"changed"})
            /\ "conflicting_receipts" \in found <=> Abstract!Disputed(n)
            /\ "stale_pointer" \in found <=> Abstract!Redirect(n, a)
<1>1. ASSUME NEW p, NEW obs
      PROVE  Abstract!Copied(a, p, obs)
               <=> {replica[s].observed : s \in Candidates(a, p)} \cap obs # {}
  BY DEF Abstract!Copied, Candidates
<1>2. ASSUME NEW p
      PROVE  /\ "changed_bytes" \in PlaneFindings(a, p) <=> Abstract!Copied(a, p, {"changed"})
             /\ PlaneFindings(a, p) \in
                  {{}, {"changed_bytes"}, {"missing_replica"}, {"persisted_not_indexed"}}
  BY <1>1 DEF PlaneFindings
<1>3. /\ "changed_bytes" \in ReplicaFindings(a, required)
          <=> \E p \in required : Abstract!Copied(a, p, {"changed"})
      /\ ReplicaFindings(a, required) \in
           SUBSET {"changed_bytes", "missing_replica", "persisted_not_indexed"}
  BY <1>2 DEF ReplicaFindings
<1>4. Conflicting(n) <=> Abstract!Disputed(n)
  <2>1. ASSUME NEW r \in Receipts PROVE r \in Selected(n) <=> Abstract!SpeaksOf(r, n)
    BY DEF Selected, EverNamed, Abstract!SpeaksOf, Abstract!Known
  <2>2. Selected(n) \subseteq Receipts
    BY DEF Selected
  <2>3. Conflicting(n) =>
          \E r, s \in Selected(n) : Abstract!Disagree(r, s)
    BY DEF Conflicting, Outputs, Abstract!Disagree
  <2>4. ASSUME NEW r \in Selected(n), NEW s \in Selected(n), Abstract!Disagree(r, s)
        PROVE  Conflicting(n)
    <3>1. /\ receipt[r].output \in Outputs(n, receipt[r].job)
          /\ receipt[s].output \in Outputs(n, receipt[r].job)
      BY <2>4 DEF Outputs, Abstract!Disagree
    <3>. QED BY <2>4, <3>1 DEF Conflicting, Abstract!Disagree
  <2>. QED BY <2>1, <2>2, <2>3, <2>4 DEF Abstract!Disputed
<1>. QED BY <1>3, <1>4 DEF PointerFindings, ReceiptFindings, Abstract!Redirect

\* Of a name without conflicts, what is missing or not indexed is found as well.
LEMMA CopiesMean ==
  ASSUME NEW required \in SUBSET Planes, NEW a \in Contents,
         \A p \in required : ~Abstract!Copied(a, p, {"changed"})
  PROVE  /\ "missing_replica" \in ReplicaFindings(a, required) <=> Abstract!Repair(a, required)
         /\ "missing_replica" \notin ReplicaFindings(a, required) =>
              ("persisted_not_indexed" \in ReplicaFindings(a, required)
                 <=> Abstract!Unindexed(a, required))
<1>1. ASSUME NEW p, NEW obs
      PROVE  Abstract!Copied(a, p, obs)
               <=> {replica[s].observed : s \in Candidates(a, p)} \cap obs # {}
  BY DEF Abstract!Copied, Candidates
<1>2. ASSUME NEW p \in required
      PROVE  /\ "missing_replica" \in PlaneFindings(a, p)
                  <=> ~Abstract!Copied(a, p, {"indexed", "pending"})
             /\ "persisted_not_indexed" \in PlaneFindings(a, p)
                  <=> p = Library /\ Abstract!Copied(a, p, {"pending"})
  BY <1>1, <1>2 DEF PlaneFindings
<1>. QED BY <1>2 DEF ReplicaFindings, Abstract!Repair, Abstract!Unindexed

\* What is recorded of complete findings is the verdict.
LEMMA VerdictFound ==
  ASSUME NEW n \in Names, NEW required \in SUBSET Planes, NEW a \in Contents \cup {None},
         NEW found \in SUBSET Findings, StillSo("decide", n, required, a, found)
  PROVE  RulingOn(a, found) = Abstract!Verdict(n, required)
<1>. USE DEF RulingOn, Decision, WithoutConflict, Conflicts, Abstract!Verdict, Abstract!Ruling
<1>1. Active(n) = Abstract!Current(n)
  BY DEF Active, Abstract!Current
<1>2. CASE a = None /\ Active(n) = {} /\ found = {"missing_artifact"}
  BY <1>1, <1>2
<1>3. CASE a = None /\ (\E x, y \in Active(n) : x # y) /\ found = {"duplicate_logical_name"}
  <2>1. Abstract!Current(n) # {} /\ Abstract!Suspect(n, required)
    BY <1>1, <1>3 DEF Abstract!Suspect
  <2>. QED BY <1>3, <2>1
<1>4. CASE /\ a # None /\ Active(n) = {a}
           /\ found = ReplicaFindings(a, required) \cup PointerFindings(n, a) \cup ReceiptFindings(n)
  <2>1. a \in Contents /\ Abstract!Current(n) = {a}
    BY <1>1, <1>4
  <2>2. Abstract!Suspect(n, required)
          <=> (\E p \in required : Abstract!Copied(a, p, {"changed"})) \/ Abstract!Disputed(n)
    BY <2>1 DEF Abstract!Suspect
  <2>3. found \cap Conflicts # {} <=> Abstract!Suspect(n, required)
    BY <1>4, <2>1, <2>2, FindingsMean
  <2>4. CASE Abstract!Suspect(n, required)
    BY <2>1, <2>3, <2>4
  <2>5. CASE ~Abstract!Suspect(n, required)
    <3>1. /\ "missing_replica" \in ReplicaFindings(a, required) <=> Abstract!Repair(a, required)
          /\ "missing_replica" \notin ReplicaFindings(a, required) =>
               ("persisted_not_indexed" \in ReplicaFindings(a, required)
                  <=> Abstract!Unindexed(a, required))
      BY <2>1, <2>2, <2>5, CopiesMean
    <3>2. /\ "missing_replica" \in found <=> Abstract!Repair(a, required)
          /\ "missing_replica" \notin found =>
               ("persisted_not_indexed" \in found <=> Abstract!Unindexed(a, required))
      BY <1>4, <3>1 DEF PointerFindings, ReceiptFindings
    <3>3. /\ "missing_artifact" \notin found
          /\ "stale_pointer" \in found <=> Abstract!Redirect(n, a)
      BY <1>4, <2>1, FindingsMean
    <3>4. (CHOOSE x \in Abstract!Current(n) : TRUE) = a
      BY <2>1
    <3>. QED BY <2>1, <2>3, <2>5, <3>2, <3>3, <3>4
  <2>. QED BY <2>4, <2>5
<1>. QED BY <1>2, <1>3, <1>4 DEF StillSo

\* When nothing is registered meanwhile, reconcile's reads and its transaction are
\* one verdict on the tables as they stand together.
THEOREM Implementation == QuietSpec => RulesAtOnce
<1>1. Init => Abstract!Init
  BY DEF Init, Abstract!Init
<1>2. ASSUME IInv, NEW c \in Callers, Registers(c) PROVE Abstract!Register
  BY <1>2, RegistersKeep DEF IInv, Abstract!Register
<1>3. ASSUME IInv, NEW c \in Callers, Commit(c)
      PROVE  \E n \in Names, required \in SUBSET Planes : Abstract!Rule(n, required)
  <2>1. PICK n \in Names, required \in SUBSET Planes, a \in Contents \cup {None},
             found \in SUBSET Findings :
          /\ call[c].name = n /\ call[c].required = required
          /\ call[c].artifact = a /\ call[c].found = found
          /\ StillSo("decide", n, required, a, found)
    BY <1>3, KnownAtCommit
  <2>2. RulingOn(a, found) = Abstract!Verdict(n, required)
    BY <2>1, VerdictFound
  <2>3. ruling' = [ruling EXCEPT ![n] = RulingOn(a, found)]
    BY <1>3, <2>1 DEF Commit
  <2>. QED BY <1>3, <2>2, <2>3 DEF Commit, Abstract!Rule, Abstract!tables, tables
<1>4. ASSUME NEW c \in Callers, Reconciles(c), ~Commit(c)
      PROVE  UNCHANGED Abstract!vars
  BY <1>4 DEF Reconciles, ReadArtifacts, ReadReplicas, ReadPointers, ReadReceipts, Finds,
              Abandon, tables, Abstract!vars, Abstract!tables
<1>5. IInv /\ [QuietNext]_vars => [Abstract!Next]_(Abstract!vars)
  <2>. SUFFICES ASSUME IInv, [QuietNext]_vars PROVE [Abstract!Next]_(Abstract!vars)
    OBVIOUS
  <2>1. CASE UNCHANGED vars
    BY <2>1 DEF vars, tables, Abstract!vars, Abstract!tables
  <2>2. CASE QuietNext
    BY <2>2, <1>2, <1>3, <1>4 DEF QuietNext, Abstract!Next
  <2>. QED BY <2>1, <2>2
<1>. QED BY <1>1, <1>5, Invariance, PTL DEF QuietSpec, RulesAtOnce, Abstract!Spec
=============================================================================
