----------------------------- MODULE StateProofs -----------------------------
(***************************************************************************)
(* Proofs about the two halves of the state feedback: StateMonitor, for    *)
(* words of any width and arrays of any size, and StateEnergy, for maps,   *)
(* counters and limits of any size.                                        *)
(***************************************************************************)
EXTENDS StateMonitor, StateEnergy, FiniteSetTheorems, TLAPS

-----------------------------------------------------------------------------
(* The monitors.  The ring invariant is what updatePos keeps: the two      *)
(* indices are equal only before the first value of a run, and the ring is *)
(* zero then.                                                              *)

(* A ring with equal indices has not been written to in this run.          *)
RingOK(r) == r \in Ring /\ (r.last = r.cur => r = Fresh)

Rings == RingOK(stateMachine) /\ RingOK(substate)

Arrays ==
  /\ state \in Words
  /\ single \in [Positions -> [cur : 0..MaxFeed, array : [Slots -> Words]]]
  /\ fed \subseteq Positions \X Words \X Words /\ lost \subseteq fed

(* Without a state machine variable the state stays zero, and each value   *)
(* that was reported, zero aside, is in a used slot.                       *)
Unused == \A p \in Positions, i \in Slots : i >= single[p].cur => single[p].array[i] = Zero

InSlot(p, w) == \E i \in Slots : i < single[p].cur /\ single[p].array[i] = w
Recorded ==
  ~has_state =>
    /\ state = Zero
    /\ \A p \in Positions, s \in Words, w \in Words : <<p, s, w>> \in fed /\ w # Zero => InSlot(p, w)

MonitorIInv == Rings /\ Arrays /\ Unused /\ Recorded /\ KnownStaysKnown

LEMMA XorType == ASSUME NEW a \in Words, NEW b \in Words PROVE Xor(a, b) \in Words
  BY DEF Xor, Words

LEMMA XorZero == ASSUME NEW b \in Words PROVE Xor(Zero, b) = b
  BY DEF Xor, Zero

LEMMA FreshOK == RingOK(Fresh) /\ Prev(Fresh) = <<>>
  BY DEF RingOK, Ring, Fresh, Words, Zero, Prev

(* Storing a word moves the ring on, and makes it the word before.         *)
LEMMA PushedOK ==
  ASSUME NEW r, RingOK(r), NEW w \in Words
  PROVE  RingOK(Pushed(r, w)) /\ Prev(Pushed(r, w)) = <<w>>
<1>1. /\ r.last \in 0..1 /\ r.cur \in 0..1 /\ r.loop \in [0..1 -> Words]
      /\ r = [last |-> r.last, cur |-> r.cur, loop |-> r.loop]
  BY DEF RingOK, Ring
<1>2. Pushed(r, w) = [last |-> r.cur, cur |-> (r.cur + 1) % 2, loop |-> [r.loop EXCEPT ![r.cur] = w]]
  BY DEF Pushed, Moved
<1>3. (r.cur + 1) % 2 \in 0..1 /\ (r.cur + 1) % 2 # r.cur
  BY <1>1
<1>4. [r.loop EXCEPT ![r.cur] = w] \in [0..1 -> Words]
  BY <1>1
<1> QED
  BY <1>1, <1>2, <1>3, <1>4 DEF RingOK, Ring, Prev

(* The edge a monitor reports is the one from the word before.             *)
LEMMA EdgesAreFromPrev ==
  ASSUME NEW r, RingOK(r), NEW w \in Words
  PROVE  /\ EdgeAfter(r, w) = <<IF Prev(r) = <<>> THEN w ELSE Prev(r)[1], w>>
         /\ EdgeBefore(r, w) = <<IF Prev(r) = <<>> THEN Zero ELSE Prev(r)[1], w>>
<1>1. CASE r.last = r.cur
  BY <1>1 DEF RingOK, Ring, Fresh, Prev, EdgeAfter, EdgeBefore
<1>2. CASE r.last # r.cur
  BY <1>2 DEF RingOK, Ring, Prev, EdgeAfter, EdgeBefore
<1> QED
  BY <1>1, <1>2

-----------------------------------------------------------------------------
(* Reporting a single value moves the ring of the substates on.            *)
LEMMA ReportOK ==
  ASSUME Rings, Arrays, NEW p \in Positions, NEW w \in Words, ReportSingle(p, w)
  PROVE  Rings' /\ state' \in Words /\ fed' \subseteq Positions \X Words \X Words /\ lost' \subseteq fed'
<1>1. Xor(state, w) \in Words
  BY XorType DEF Arrays
<1>2. RingOK(substate') /\ stateMachine' = stateMachine
  BY <1>1, PushedOK DEF Rings, ReportSingle
<1> QED
  BY <1>2 DEF Rings, Arrays, ReportSingle

LEMMA MonitorInitOK == ASSUME MonitorInit PROVE MonitorIInv
<1>1. Rings
  BY FreshOK DEF MonitorInit, Rings
<1>2. Arrays /\ Unused
  BY MonitorAssumption DEF MonitorInit, Arrays, Unused, Empty, Words, Zero
<1>3. Recorded /\ KnownStaysKnown
  BY DEF MonitorInit, Recorded, KnownStaysKnown
<1> QED
  BY <1>1, <1>2, <1>3 DEF MonitorIInv

LEMMA NewRunOK == ASSUME MonitorIInv, NewRun PROVE MonitorIInv'
<1>1. Rings'
  BY FreshOK DEF NewRun, Rings, FirstRing
<1>2. Arrays' /\ Unused'
  BY DEF MonitorIInv, NewRun, Arrays, Unused, Words, Zero
<1>3. Recorded' /\ KnownStaysKnown'
  BY DEF MonitorIInv, NewRun, Recorded, KnownStaysKnown, InSlot
<1> QED
  BY <1>1, <1>2, <1>3 DEF MonitorIInv

LEMMA StateMachineVarOK == ASSUME MonitorIInv, NEW w \in StateWords, StateMachineVar(w) PROVE MonitorIInv'
<1>1. w \in Words
  BY MonitorAssumption DEF Words
<1>2. Rings'
  BY <1>1, PushedOK DEF MonitorIInv, Rings, StateMachineVar
<1>3. Arrays' /\ Unused'
  BY <1>1 DEF MonitorIInv, StateMachineVar, Arrays, Unused
<1>4. Recorded' /\ KnownStaysKnown'
  BY DEF StateMachineVar, Hit, Recorded, KnownStaysKnown
<1> QED
  BY <1>2, <1>3, <1>4 DEF MonitorIInv

LEMMA MultiStateOK == ASSUME MonitorIInv, NEW w \in Words, MultiState(w) PROVE MonitorIInv'
<1>1. Xor(state, w) \in Words
  BY XorType DEF MonitorIInv, Arrays
<1>2. Rings'
  BY <1>1, PushedOK DEF MonitorIInv, Rings, MultiState
<1>3. Arrays' /\ Unused'
  BY DEF MonitorIInv, MultiState, Arrays, Unused
<1>4. Recorded' /\ KnownStaysKnown'
  BY DEF MonitorIInv, MultiState, Hit, Recorded, KnownStaysKnown, InSlot
<1> QED
  BY <1>2, <1>3, <1>4 DEF MonitorIInv

(* A known value is in a slot; one that is not zero is in a used slot.     *)
LEMMA KnownSingleOK ==
  ASSUME MonitorIInv, NEW p \in Positions, NEW w \in Words, KnownSingle(p, w)
  PROVE  MonitorIInv'
<1>. USE DEF KnownSingle
<1>1. Rings' /\ Arrays'
  BY ReportOK DEF MonitorIInv, Arrays
<1>2. Unused' /\ KnownStaysKnown'
  BY DEF MonitorIInv, Unused, KnownStaysKnown, ReportSingle, Hit
<1>3. Recorded'
  <2>. SUFFICES ASSUME ~has_state'
       PROVE  /\ state' = Zero
              /\ \A q \in Positions, s \in Words, v \in Words :
                   <<q, s, v>> \in fed' /\ v # Zero => InSlot(q, v)'
    BY DEF Recorded
  <2>1. ~has_state /\ state = Zero /\ state' = Zero /\ fed' = fed \cup {<<p, state, w>>}
    BY DEF MonitorIInv, Recorded, ReportSingle, Hit
  <2>2. ASSUME NEW q \in Positions, NEW s \in Words, NEW v \in Words, <<q, s, v>> \in fed', v # Zero
        PROVE  InSlot(q, v)'
    <3>1. CASE <<q, s, v>> \in fed
      BY <2>1, <2>2, <3>1 DEF MonitorIInv, Recorded, InSlot
    <3>2. CASE q = p /\ v = w
      <4>1. PICK i \in Slots : single[p].array[i] = w
        BY DEF Found
      <4>2. single[p].cur \in Nat /\ i \in Nat
        BY MonitorAssumption DEF MonitorIInv, Arrays, Slots
      <4>3. i < single[p].cur
        BY <2>2, <3>2, <4>1, <4>2 DEF MonitorIInv, Unused
      <4>. QED
        BY <3>2, <4>1, <4>3 DEF InSlot
    <3>. QED
      BY <2>1, <2>2, <3>1, <3>2
  <2>. QED
    BY <2>1, <2>2
<1>. QED
  BY <1>1, <1>2, <1>3 DEF MonitorIInv

(* A new value takes the first unused slot.                                *)
LEMMA NewSingleOK ==
  ASSUME MonitorIInv, NEW p \in Positions, NEW w \in Words, NewSingle(p, w)
  PROVE  MonitorIInv'
<1>. USE DEF NewSingle
<1>. DEFINE c == single[p].cur
            s == Xor(state, w)
<1>1. c \in Slots /\ c + 1 \in 0..MaxFeed /\ s \in Words
  BY XorType, MonitorAssumption DEF RoomFor, MonitorIInv, Arrays, Slots
<1>2. single[p].array \in [Slots -> Words] /\ [single[p].array EXCEPT ![c] = s] \in [Slots -> Words]
  BY <1>1 DEF MonitorIInv, Arrays
<1>3. single' = [single EXCEPT ![p] = [cur |-> c + 1, array |-> [single[p].array EXCEPT ![c] = s]]]
  OBVIOUS
<1>4. /\ \A q \in Positions \ {p} : single'[q] = single[q]
      /\ single'[p] = [cur |-> c + 1, array |-> [single[p].array EXCEPT ![c] = s]]
      /\ single' \in [Positions -> [cur : 0..MaxFeed, array : [Slots -> Words]]]
  <2>. DEFINE R == [cur : 0..MaxFeed, array : [Slots -> Words]]
              t == [cur |-> c + 1, array |-> [single[p].array EXCEPT ![c] = s]]
  <2>1. t \in R
    <3>. HIDE DEF c, s
    <3>. QED  BY <1>1, <1>2
  <2>2. single \in [Positions -> R] /\ single' = [single EXCEPT ![p] = t]
    BY <1>3 DEF MonitorIInv, Arrays
  <2>3. /\ \A q \in Positions \ {p} : single'[q] = single[q]
        /\ single'[p] = t /\ single' \in [Positions -> R]
    <3>. HIDE DEF t, R
    <3>. QED  BY <2>1, <2>2
  <2>. QED  BY <2>3
<1>5. Rings' /\ Arrays'
  BY <1>4, ReportOK DEF MonitorIInv, Arrays
<1>6. Unused'
  BY <1>1, <1>4, MonitorAssumption DEF MonitorIInv, Arrays, Unused, Slots
<1>7. KnownStaysKnown'
  BY DEF MonitorIInv, KnownStaysKnown, ReportSingle, Hit
<1>8. ASSUME NEW q \in Positions, NEW v \in Words, InSlot(q, v) PROVE InSlot(q, v)'
  <2>1. PICK i \in Slots : i < single[q].cur /\ single[q].array[i] = v
    BY <1>8 DEF InSlot
  <2>2. CASE q # p
    BY <1>4, <2>1, <2>2 DEF InSlot
  <2>3. CASE q = p
    <3>1. i < c + 1 /\ i # c /\ c \in Nat
      BY <1>1, <2>1, <2>3, MonitorAssumption DEF Slots
    <3>2. single'[p].cur = c + 1 /\ single'[p].array[i] = v
      BY <1>2, <1>4, <2>1, <2>3, <3>1
    <3>. QED
      BY <2>3, <3>1, <3>2 DEF InSlot
  <2>. QED
    BY <2>2, <2>3
<1>9. ASSUME ~has_state PROVE InSlot(p, w)'
  <2>1. s = w
    BY <1>9, XorZero DEF MonitorIInv, Recorded
  <2>2. single'[p].cur = c + 1 /\ single'[p].array[c] = w
    BY <1>1, <1>2, <1>4, <2>1
  <2>3. c \in Slots /\ c < single'[p].cur
    BY <1>1, <2>2, MonitorAssumption DEF Slots
  <2>. QED
    <3>. HIDE DEF c, s
    <3>. QED  BY <2>2, <2>3 DEF InSlot
<1>10. Recorded'
  BY <1>8, <1>9 DEF MonitorIInv, Recorded, ReportSingle, Hit
<1>. QED
  BY <1>5, <1>6, <1>7, <1>10 DEF MonitorIInv

(* A dropped value that was reported before would be in a slot.            *)
LEMMA DropSingleOK ==
  ASSUME MonitorIInv, NEW p \in Positions, NEW w \in Words, DropSingle(p, w)
  PROVE  MonitorIInv'
<1>. USE DEF DropSingle
<1>1. Rings' /\ Arrays' /\ Unused' /\ Recorded'
  BY DEF MonitorIInv, Rings, rings, Arrays, Unused, Recorded, InSlot, Hit
<1>2. ASSUME ~has_state, <<p, state, w>> \in fed PROVE ~Findable(w)
  BY <1>2 DEF MonitorIInv, Arrays, Recorded, InSlot, Found, Findable
<1>3. KnownStaysKnown'
  BY <1>2 DEF MonitorIInv, KnownStaysKnown, Hit
<1>. QED
  BY <1>1, <1>3 DEF MonitorIInv

LEMMA MonitorStepOK == ASSUME MonitorIInv, [MonitorNext]_monitorVars PROVE MonitorIInv'
<1>1. CASE UNCHANGED monitorVars
  BY <1>1 DEF MonitorIInv, Rings, Arrays, Unused, Recorded, InSlot, KnownStaysKnown, monitorVars, rings
<1>. QED
  BY <1>1, NewRunOK, StateMachineVarOK, MultiStateOK, KnownSingleOK, NewSingleOK, DropSingleOK DEF MonitorNext

THEOREM MonitorInvHolds == MonitorSpec => []MonitorIInv
  BY MonitorInitOK, MonitorStepOK, PTL DEF MonitorSpec

-----------------------------------------------------------------------------
(* The ends of a reported edge are words.                                  *)
LEMMA EdgeType ==
  ASSUME NEW r, RingOK(r), NEW w \in Words
  PROVE  EdgeAfter(r, w) \in Words \X Words /\ EdgeBefore(r, w) \in Words \X Words
  BY DEF RingOK, Ring, EdgeAfter, EdgeBefore

(* The rest of the types: the map has pairs of words, and the hits of a    *)
(* run are counted up to their bound.                                      *)
MapOK == has_state \in BOOLEAN /\ map \subseteq Words \X Words /\ hits \in 0..MaxHits

LEMMA MapStep == ASSUME MonitorIInv, MapOK, [MonitorNext]_monitorVars PROVE MapOK'
<1>1. ASSUME Hit PROVE has_state' \in BOOLEAN /\ hits' \in 0..MaxHits
  BY <1>1, MonitorAssumption DEF Hit, MapOK
<1>2. CASE UNCHANGED monitorVars
  BY <1>2 DEF monitorVars, MapOK
<1>3. CASE NewRun
  BY <1>3, MonitorAssumption DEF NewRun, MapOK
<1>4. ASSUME NEW w \in StateWords, StateMachineVar(w) PROVE MapOK'
  <2>1. EdgeAfter(stateMachine, w) \in Words \X Words
    BY EdgeType, MonitorAssumption DEF MonitorIInv, Rings, Words
  <2>. QED  BY <1>1, <1>4, <2>1 DEF StateMachineVar, MapOK
<1>5. ASSUME NEW w \in Words, MultiState(w) PROVE MapOK'
  <2>1. EdgeAfter(substate, Xor(state, w)) \in Words \X Words
    BY EdgeType, XorType DEF MonitorIInv, Rings, Arrays
  <2>. QED  BY <1>1, <1>5, <2>1 DEF MultiState, MapOK
<1>6. ASSUME NEW p \in Positions, NEW w \in Words, KnownSingle(p, w) \/ NewSingle(p, w) PROVE MapOK'
  <2>1. EdgeBefore(substate, Xor(state, w)) \in Words \X Words
    BY EdgeType, XorType DEF MonitorIInv, Rings, Arrays
  <2>. QED  BY <1>1, <1>6, <2>1 DEF KnownSingle, NewSingle, ReportSingle, MapOK
<1>7. ASSUME NEW p \in Positions, NEW w \in Words, DropSingle(p, w) PROVE MapOK'
  BY <1>1, <1>7 DEF DropSingle, MapOK
<1>. QED
  BY <1>2, <1>3, <1>4, <1>5, <1>6, <1>7 DEF MonitorNext

(* No index leaves its ring or its array: not cur of a single-valued       *)
(* variable at MaxFeed either, however many values are assigned to it.     *)
THEOREM MonitorTypeCorrect == MonitorSpec => []MonitorTypeOK
<1>1. MonitorInit => MapOK
  BY MonitorAssumption DEF MonitorInit, MapOK
<1>2. MonitorIInv /\ MapOK /\ [MonitorNext]_monitorVars => MapOK'
  BY MapStep
<1>3. MonitorIInv /\ MapOK => MonitorTypeOK
  BY DEF MonitorIInv, Rings, RingOK, Arrays, MapOK, MonitorTypeOK
<1>. QED  BY <1>1, <1>2, <1>3, MonitorInvHolds, PTL DEF MonitorSpec

-----------------------------------------------------------------------------
(* Without a state machine variable the monitors never lose a value, other *)
(* than zero, that they reported once.                                     *)
THEOREM KnownStaysKnownHolds == MonitorSpec => []KnownStaysKnown
  BY MonitorInvHolds, PTL DEF MonitorIInv

(* A variable adds at most MaxFeed values to the map over all runs: each   *)
(* is in a slot of its own.                                                *)
LEMMA FedInSlots == ASSUME MonitorIInv PROVE FeedBounded
<1>. SUFFICES ASSUME ~has_state, NEW p \in Positions
     PROVE  Cardinality({w \in Words \ {Zero} : <<p, Zero, w>> \in fed}) <= MaxFeed
  BY DEF FeedBounded
<1>. DEFINE F == {w \in (Words \ {Zero}) : <<p, Zero, w>> \in fed}
            A == {i \in Slots : single[p].array[i] \in F}
            f == [i \in A |-> single[p].array[i]]
<1>1. \A w \in F : \E i \in Slots : single[p].array[i] = w
  BY DEF MonitorIInv, Recorded, InSlot, Words, Zero
<1>2. f \in Surjection(A, F)
  BY <1>1 DEF Surjection
<1>3. IsFiniteSet(Slots) /\ Cardinality(Slots) = MaxFeed
  BY FS_Interval, MonitorAssumption DEF Slots
<1>4. IsFiniteSet(A) /\ Cardinality(A) <= Cardinality(Slots)
  BY <1>3, FS_Subset
<1>5. IsFiniteSet(F) /\ Cardinality(F) <= Cardinality(A)
  <2>. HIDE DEF A, F, f
  <2>. QED  BY <1>2, <1>4, FS_Surjection
<1>6. Cardinality(F) \in Nat /\ Cardinality(A) \in Nat
  <2>. HIDE DEF A, F
  <2>. QED  BY <1>4, <1>5, FS_CardinalityType
<1>7. Cardinality(F) <= MaxFeed
  <2>. HIDE DEF A, F
  <2>. QED  BY <1>3, <1>4, <1>5, <1>6, MonitorAssumption
<1>. QED
  BY <1>7

THEOREM FeedBoundedHolds == MonitorSpec => []FeedBounded
  BY MonitorInvHolds, FedInSlots, PTL

-----------------------------------------------------------------------------
(* The rings implement the value before: StateEdges is implemented, each   *)
(* dropped value by a stutter and every other step by its edge.            *)
LEMMA RefineInit == ASSUME MonitorInit PROVE Edges!Init
  BY FreshOK DEF MonitorInit, Edges!Init

LEMMA RefineReport ==
  ASSUME MonitorIInv, NEW p \in Positions, NEW w \in Words, ReportSingle(p, w)
  PROVE  Edges!Next
<1>. DEFINE x == Xor(state, w)
<1>1. x \in Words
  BY XorType DEF MonitorIInv, Arrays
<1>2. map' = map \cup {EdgeBefore(substate, x)} /\ substate' = Pushed(substate, x)
      /\ stateMachine' = stateMachine
  BY DEF ReportSingle
<1>3. /\ EdgeBefore(substate, x) = <<IF Prev(substate) = <<>> THEN Zero ELSE Prev(substate)[1], x>>
      /\ Prev(Pushed(substate, x)) = <<x>>
  BY <1>1, EdgesAreFromPrev, PushedOK DEF MonitorIInv, Rings
<1>4. Edges!Substate(x)
  <2>. HIDE DEF x
  <2>. QED  BY <1>2, <1>3 DEF Edges!Substate
<1>. QED
  BY <1>1, <1>4 DEF Edges!Next

LEMMA RefineNext == ASSUME MonitorIInv, [MonitorNext]_monitorVars PROVE [Edges!Next]_(Edges!vars)
<1>1. CASE UNCHANGED monitorVars
  BY <1>1 DEF monitorVars, rings, Edges!vars
<1>2. CASE NewRun
  BY <1>2, FreshOK DEF NewRun, FirstRing, Edges!Next, Edges!NewRun
<1>3. ASSUME NEW w \in StateWords, StateMachineVar(w) PROVE Edges!Next
  <2>1. w \in Words
    BY MonitorAssumption DEF Words
  <2>2. /\ EdgeAfter(stateMachine, w)
             = <<IF Prev(stateMachine) = <<>> THEN w ELSE Prev(stateMachine)[1], w>>
        /\ Prev(Pushed(stateMachine, w)) = <<w>>
    BY <2>1, EdgesAreFromPrev, PushedOK DEF MonitorIInv, Rings
  <2>3. Edges!StateMachine(w)
    BY <1>3, <2>2 DEF StateMachineVar, Edges!StateMachine
  <2>. QED
    BY <2>1, <2>3 DEF Edges!Next
<1>4. ASSUME NEW w \in Words, MultiState(w) PROVE Edges!Next
  <2>. DEFINE x == Xor(state, w)
  <2>1. x \in Words
    BY XorType DEF MonitorIInv, Arrays
  <2>2. /\ EdgeAfter(substate, x) = <<IF Prev(substate) = <<>> THEN x ELSE Prev(substate)[1], x>>
        /\ Prev(Pushed(substate, x)) = <<x>>
    BY <2>1, EdgesAreFromPrev, PushedOK DEF MonitorIInv, Rings
  <2>3. map' = map \cup {EdgeAfter(substate, x)} /\ substate' = Pushed(substate, x)
        /\ stateMachine' = stateMachine
    BY <1>4 DEF MultiState
  <2>4. Edges!Substate(x)
    <3>. HIDE DEF x
    <3>. QED  BY <2>2, <2>3 DEF Edges!Substate
  <2>. QED
    BY <2>1, <2>4 DEF Edges!Next
<1>5. ASSUME NEW p \in Positions, NEW w \in Words, KnownSingle(p, w) \/ NewSingle(p, w)
      PROVE  Edges!Next
  BY <1>5, RefineReport DEF KnownSingle, NewSingle
<1>6. ASSUME NEW p \in Positions, NEW w \in Words, DropSingle(p, w)
      PROVE  UNCHANGED Edges!vars
  BY <1>6 DEF DropSingle, rings, Edges!vars
<1>. QED
  BY <1>1, <1>2, <1>3, <1>4, <1>5, <1>6 DEF MonitorNext

(* The state map of a run is its consecutive values.                       *)
THEOREM ImplementsEdges == MonitorSpec => Implements
  BY MonitorInvHolds, RefineInit, RefineNext, PTL DEF Implements, MonitorSpec, Edges!Spec

-----------------------------------------------------------------------------
(* The energy.  The counters of an entry stay far from the modulus: while  *)
(* fewer than MaxFuzz executions were counted they are below a multiple of *)
(* Top, and after that they are capped before each addition, where they    *)
(* are watched.                                                            *)

Types ==
  /\ virgin \in [Node -> SUBSET Buckets] /\ node_nums \in Nat
  /\ queued \in Seeds..MaxEntries /\ cur \in 1..queued /\ traced \subseteq 1..queued
  /\ bits \in [Entry -> [Node -> 0..Modulus - 1]] /\ fuzzed_times \in [Entry -> 0..MaxFuzz]
  /\ found \subseteq Node

(* A found node is not pristine.                                           *)
FoundIsSeen == found \cap Pristine(virgin) = {}

(* What a counter of entry q can be after fuzzed_times[q] executions.      *)
Bound(f) == IF f < MaxFuzz THEN (f + 1) * Top ELSE Low + Top
CountersBounded ==
  /\ \A q \in Entry : q > queued => fuzzed_times[q] = 0
  /\ \A q \in traced : \A n \in Scanned : bits[q][n] <= Bound(fuzzed_times[q])

IInv == Types /\ FoundIsSeen /\ NodesCounted /\ CountersBounded /\ FoundIsRecorded

-----------------------------------------------------------------------------
LEMMA ScannedNodes == Scanned \subseteq Node
  BY EnergyAssumption DEF Scanned, Node

LEMMA TraceType ==
  ASSUME NEW t \in Traces PROVE t \in [Node -> 0..Top] /\ t \in [Node -> Buckets \cup {0}]
<1>1. t \in [Node -> Buckets \cup {0}]
  BY DEF Traces
<1>2. Buckets \cup {0} \subseteq 0..Top
  BY EnergyAssumption
<1> QED
  BY <1>1, <1>2

LEMMA ClearedType ==
  ASSUME virgin \in [Node -> SUBSET Buckets], NEW t
  PROVE  Cleared(virgin, t) \in [Node -> SUBSET Buckets]
  BY DEF Cleared

(* Clearing makes no node pristine again, and a node that is hit is not.   *)
LEMMA ClearedSeen ==
  ASSUME NEW v \in [Node -> SUBSET Buckets], NEW t \in Traces
  PROVE  /\ Pristine(Cleared(v, t)) \subseteq Pristine(v)
         /\ \A n \in Node : t[n] # 0 => n \notin Pristine(Cleared(v, t))
<1>1. Cleared(v, t) \in [Node -> SUBSET Buckets]
      /\ \A n \in Node : Cleared(v, t)[n] = v[n] \ {t[n]}
  BY DEF Cleared
<1>2. \A n \in Node : t[n] # 0 => t[n] \in Buckets
  BY TraceType
<1> QED
  BY <1>1, <1>2 DEF Pristine

LEMMA NodeFinite ==
  /\ IsFiniteSet(Node)
  /\ \A S \in SUBSET Node : IsFiniteSet(S) /\ Cardinality(S) \in Nat
<1>1. IsFiniteSet(Node)
  BY FS_Interval, EnergyAssumption DEF Node
<1> QED
  BY <1>1, FS_Subset, FS_CardinalityType

LEMMA CardMono ==
  ASSUME NEW S, NEW T, S \subseteq T, T \subseteq Node PROVE Cardinality(S) <= Cardinality(T)
<1>1. IsFiniteSet(T)
  BY NodeFinite
<1> QED
  BY <1>1, FS_Subset

(* NodesCounted is kept by a step that clears some virgin bits, counts the *)
(* new nodes if there are any, and adds them to found.                     *)
LEMMA Counting ==
  ASSUME Types, FoundIsSeen, NodesCounted, NEW t \in Traces, NEW w \in [Node -> SUBSET Buckets],
         Pristine(w) \subseteq Pristine(Cleared(virgin, t)),
         virgin' = w,
         node_nums' = IF NewNodes(t) # {} THEN NodesSeen(Cleared(virgin, t)) ELSE node_nums,
         found' = found \cup NewNodes(t)
  PROVE  NodesCounted' /\ FoundIsSeen' /\ node_nums' \in Nat /\ found' \subseteq Node
<1>. DEFINE v == Cleared(virgin, t)
            S == Node \ Pristine(virgin)
            T == Node \ Pristine(v)
            U == Node \ Pristine(w)
<1>1. /\ Pristine(v) \subseteq Pristine(virgin)
      /\ NewNodes(t) \subseteq Node /\ NewNodes(t) \cap Pristine(v) = {}
  BY ClearedSeen DEF Types, NewNodes, Pristine
<1>2. S \subseteq T /\ T \subseteq U /\ U \subseteq Node
  BY <1>1
<1>3. FoundIsSeen' /\ found' \subseteq T
  BY <1>1 DEF FoundIsSeen, Types
<1>4. NodesSeen(virgin) = Cardinality(S) /\ NodesSeen(v) = Cardinality(T)
      /\ NodesSeen(virgin)' = Cardinality(U)
  BY DEF NodesSeen
<1>5. /\ Cardinality(S) <= Cardinality(U) /\ Cardinality(T) <= Cardinality(U)
      /\ Cardinality(found') <= Cardinality(T)
      /\ Cardinality(S) \in Nat /\ Cardinality(T) \in Nat /\ Cardinality(U) \in Nat
      /\ Cardinality(found) \in Nat /\ Cardinality(found') \in Nat
  <2>1. T \subseteq Node /\ S \subseteq Node /\ S \subseteq U /\ found \subseteq Node /\ found' \subseteq Node
    BY <1>2, <1>3 DEF Types
  <2>. HIDE DEF S, T, U, v
  <2>. QED  BY <1>2, <1>3, <2>1, CardMono, NodeFinite
<1>6. CASE NewNodes(t) # {}
  <2>1. node_nums' = Cardinality(T)
    BY <1>4, <1>6
  <2>2. Cardinality(found') <= node_nums' /\ node_nums' <= NodesSeen(virgin)' /\ node_nums' \in Nat
    <3>. HIDE DEF S, T, U, v
    <3>. QED  BY <1>4, <1>5, <2>1
  <2>. QED
    BY <1>3, <2>2 DEF NodesCounted
<1>7. CASE NewNodes(t) = {}
  <2>1. node_nums' = node_nums /\ found' = found
    BY <1>7
  <2>2. Cardinality(found) <= node_nums /\ node_nums <= Cardinality(S) /\ node_nums \in Nat
    BY <1>4 DEF NodesCounted, Types
  <2>3. Cardinality(found') <= node_nums' /\ node_nums' <= Cardinality(U) /\ node_nums' \in Nat
    <3>. HIDE DEF S, T, U, v
    <3>. QED  BY <1>5, <2>1, <2>2
  <2>. QED
    BY <1>3, <1>4, <2>3 DEF NodesCounted
<1>. QED
  BY <1>6, <1>7

-----------------------------------------------------------------------------
(* One more execution leaves room under the modulus.                       *)
LEMMA BoundStep ==
  ASSUME NEW f \in 0..MaxFuzz, NEW c \in Nat, c <= Bound(f), NEW a \in 0..Top
  PROVE  LET g == IF f < MaxFuzz THEN f + 1 ELSE MaxFuzz
             d == IF g >= MaxFuzz /\ c >= Low THEN Low ELSE c
         IN  /\ d + a < Modulus /\ d + a <= Bound(g)
             /\ (d + a >= c \/ (c > Low /\ d + a >= Low))
<1>1. MaxFuzz \in Nat \ {0} /\ Top \in Nat /\ Low \in Nat /\ Modulus \in Nat
      /\ MaxFuzz * Top < Modulus /\ Low + Top < Modulus /\ f \in Nat /\ a \in Nat /\ a <= Top
  BY EnergyAssumption
<1>2. CASE f + 1 < MaxFuzz
  <2>1. c <= (f + 1) * Top
    BY <1>1, <1>2 DEF Bound
  <2>2. (f + 1) * Top + Top = ((f + 1) + 1) * Top
    BY <1>1
  <2>3. ((f + 1) + 1) * Top <= MaxFuzz * Top
    <3>1. PICK k \in Nat : MaxFuzz = ((f + 1) + 1) + k
      <4>1. MaxFuzz - (f + 2) \in Nat /\ MaxFuzz = ((f + 1) + 1) + (MaxFuzz - (f + 2))
        BY <1>1, <1>2
      <4>. QED  BY <4>1
    <3>2. MaxFuzz * Top = ((f + 1) + 1) * Top + k * Top /\ k * Top \in Nat
      BY <1>1, <3>1
    <3>. QED
      BY <1>1, <3>2
  <2>4. Bound(f + 1) = ((f + 1) + 1) * Top /\ f + 1 \in Nat /\ (f + 1) * Top \in Nat
    BY <1>1, <1>2 DEF Bound
  <2>5. c + a < Modulus /\ c + a <= Bound(f + 1)
    BY <1>1, <2>1, <2>2, <2>3, <2>4
  <2>. QED
    BY <1>1, <1>2, <2>5
<1>3. CASE f + 1 >= MaxFuzz
  <2>1. Bound(MaxFuzz) = Low + Top
    BY <1>1 DEF Bound
  <2>2. (IF f < MaxFuzz THEN f + 1 ELSE MaxFuzz) = MaxFuzz
    BY <1>1, <1>3
  <2>3. PICK d \in Nat : d = IF c >= Low THEN Low ELSE c
    BY <1>1
  <2>4. d + a <= Low + Top /\ (d + a >= c \/ (c > Low /\ d + a >= Low))
    BY <1>1, <2>3
  <2>. QED
    BY <1>1, <2>1, <2>2, <2>3, <2>4
<1>. QED
  BY <1>1, <1>2, <1>3

-----------------------------------------------------------------------------
(* What an execution does to the counters of an entry that were there.     *)
LEMMA EntryCounters ==
  ASSUME Types, CountersBounded, NEW t \in Traces, CountHits(t), NEW q \in traced
  PROVE  LET c == IF q = cur THEN CountedForCur(t) ELSE bits[q]
         IN  \A n \in Scanned :
               /\ c[n] <= Bound(fuzzed_times'[q])
               /\ (c[n] >= bits[q][n] \/ (bits[q][n] > Low /\ c[n] >= Low))
<1>. DEFINE f == fuzzed_times[q]
<1>1. q \in Entry /\ f \in 0..MaxFuzz /\ MaxFuzz \in Nat
      /\ \A n \in Scanned : bits[q][n] \in Nat /\ bits[q][n] <= Bound(f)
  BY ScannedNodes, EnergyAssumption DEF Types, CountersBounded, Entry
<1>2. CASE q # cur
  <2>1. fuzzed_times'[q] = f
    BY <1>1, <1>2 DEF CountHits, Types
  <2>. QED
    BY <1>1, <1>2, <2>1
<1>3. CASE q = cur
  <2>. SUFFICES ASSUME NEW n \in Scanned
       PROVE  /\ CountedForCur(t)[n] <= Bound(fuzzed_times'[q])
              /\ (CountedForCur(t)[n] >= bits[q][n] \/ (bits[q][n] > Low /\ CountedForCur(t)[n] >= Low))
    BY <1>3
  <2>. DEFINE g == IF f < MaxFuzz THEN f + 1 ELSE MaxFuzz
              c == bits[q][n]
              d == IF g >= MaxFuzz /\ c >= Low THEN Low ELSE c
  <2>1. fuzzed_times'[q] = g
    BY <1>1, <1>3 DEF CountHits, Types
  <2>2. n \in Node /\ t[n] \in 0..Top
    BY ScannedNodes, TraceType
  <2>3. /\ d + t[n] < Modulus /\ d + t[n] <= Bound(g)
        /\ (d + t[n] >= c \/ (c > Low /\ d + t[n] >= Low))
    BY <1>1, <2>2, BoundStep
  <2>4. CountedForCur(t)[n] = (d + t[n]) % Modulus
    BY <1>3, <2>1, <2>2 DEF CountedForCur, Added, Capped
  <2>5. d \in Nat /\ t[n] \in Nat /\ Modulus \in Nat
    BY <1>1, <2>2, EnergyAssumption
  <2>6. CountedForCur(t)[n] = d + t[n]
    <3>. HIDE DEF d
    <3>. QED  BY <2>3, <2>4, <2>5
  <2>. QED
    BY <2>1, <2>3, <2>6
<1>. QED
  BY <1>2, <1>3

LEMMA CountedType ==
  ASSUME Types, NEW t \in Traces PROVE CountedForCur(t) \in [Node -> 0..Modulus - 1]
<1>1. cur \in Entry /\ bits[cur] \in [Node -> 0..Modulus - 1]
  BY EnergyAssumption DEF Types, Entry
<1>2. ASSUME NEW c \in [Node -> Nat] PROVE Added(c, t) \in [Node -> 0..Modulus - 1]
  <2>1. \A n \in Node : c[n] + t[n] \in Nat
    BY TraceType, EnergyAssumption
  <2>2. Modulus \in Nat /\ Modulus > 0
    BY EnergyAssumption
  <2>3. \A x \in Nat : x % Modulus \in 0..Modulus - 1
    BY <2>2
  <2>. QED
    BY <2>1, <2>3 DEF Added
<1>3. bits[cur] \in [Node -> Nat] /\ Capped(bits[cur]) \in [Node -> Nat]
  BY <1>1, EnergyAssumption DEF Capped
<1>. QED
  BY <1>1, <1>2, <1>3 DEF CountedForCur

LEMMA TimesType ==
  ASSUME Types, NEW t \in Traces, CountHits(t)
  PROVE  /\ fuzzed_times' \in [Entry -> 0..MaxFuzz]
         /\ \A q \in Entry : q # cur => fuzzed_times'[q] = fuzzed_times[q]
<1>1. cur \in Entry /\ fuzzed_times[cur] \in 0..MaxFuzz /\ MaxFuzz \in Nat
  BY EnergyAssumption DEF Types, Entry
<1>2. (IF fuzzed_times[cur] < MaxFuzz THEN fuzzed_times[cur] + 1 ELSE MaxFuzz) \in 0..MaxFuzz
  BY <1>1
<1>. QED
  BY <1>1, <1>2 DEF CountHits, Types

-----------------------------------------------------------------------------
(* A new node is a new count: a discarded run has none.                    *)
LEMMA NewNodesCount ==
  ASSUME Types, NEW t \in Traces PROVE NewNodes(t) \subseteq NewCounts(t)
  BY TraceType DEF NewNodes, NewCounts, Pristine, Types

LEMMA InitOK == ASSUME Init PROVE IInv
<1>1. Types
  BY EnergyAssumption DEF Init, Types, Silent
<1>2. FoundIsSeen /\ CountersBounded /\ FoundIsRecorded
  BY DEF Init, FoundIsSeen, CountersBounded, FoundIsRecorded
<1>3. NodesCounted
  <2>1. Node \ Pristine(virgin) = {} /\ found = {} /\ node_nums = 0
    BY DEF Init, Pristine
  <2>2. NodesSeen(virgin) = Cardinality({}) /\ Cardinality(found) = Cardinality({})
    BY <2>1 DEF NodesSeen
  <2>. QED
    BY <2>1, <2>2, FS_EmptySet DEF NodesCounted
<1>. QED
  BY <1>1, <1>2, <1>3 DEF IInv

(* Counters that were above zero, or capped, stay so.                      *)
LEMMA StaysRecorded ==
  ASSUME IInv, NEW t \in Traces, CountHits(t),
         NEW b, \A q \in traced : b[q] = IF q = cur THEN CountedForCur(t) ELSE bits[q],
         bits' = b, traced \subseteq traced'
  PROVE  \A n \in found \cap Scanned : \E q \in traced' : bits'[q][n] # 0
<1>. TAKE n \in found \cap Scanned
<1>1. PICK q \in traced : bits[q][n] # 0
  BY DEF IInv, FoundIsRecorded
<1>2. bits[q][n] \in Nat /\ Low \in Nat /\ Low > 0
  BY ScannedNodes, EnergyAssumption DEF IInv, Types, Entry
<1>3. bits'[q][n] >= bits[q][n] \/ bits'[q][n] >= Low
  BY EntryCounters DEF IInv
<1>4. bits'[q][n] # 0
  BY <1>1, <1>2, <1>3
<1>. QED
  BY <1>4

LEMMA DiscardOK ==
  ASSUME IInv, NEW t \in Traces, NEW new_cov \in BOOLEAN, Discard(t, new_cov)
  PROVE  IInv'
<1>. USE DEF Discard
<1>1. CountHits(t) /\ NewNodes(t) = {} /\ found' = found
  BY NewNodesCount DEF Interesting, CountHits, IInv
<1>2. Cleared(virgin, t) \in [Node -> SUBSET Buckets]
  BY ClearedType DEF IInv, Types
<1>3. NodesCounted' /\ FoundIsSeen' /\ node_nums' \in Nat
  BY <1>1, <1>2, Counting DEF IInv, CountHits
<1>4. CountedForCur(t) \in [Node -> 0..Modulus - 1]
  BY CountedType DEF IInv
<1>5. bits' \in [Entry -> [Node -> 0..Modulus - 1]]
      /\ \A q \in Entry : bits'[q] = IF q = cur THEN CountedForCur(t) ELSE bits[q]
  BY <1>4 DEF IInv, Types
<1>6. Types'
  <2>1. fuzzed_times' \in [Entry -> 0..MaxFuzz]
    BY <1>1, TimesType DEF IInv
  <2>. QED
    BY <1>1, <1>2, <1>3, <1>5, <2>1 DEF IInv, Types
<1>7. traced \subseteq Entry /\ cur <= queued /\ queued \in Nat /\ cur \in Nat
  BY EnergyAssumption DEF IInv, Types, Entry
<1>8. CountersBounded'
  <2>1. \A q \in Entry : q > queued => fuzzed_times'[q] = 0
    BY <1>1, <1>7, TimesType DEF IInv, CountersBounded, Entry
  <2>2. \A q \in traced : \A n \in Scanned : bits'[q][n] <= Bound(fuzzed_times'[q])
    BY <1>1, <1>5, <1>7, EntryCounters DEF IInv
  <2>. QED
    BY <2>1, <2>2 DEF CountersBounded
<1>9. FoundIsRecorded'
  BY <1>1, <1>5, <1>7, StaysRecorded DEF FoundIsRecorded
<1>. QED
  BY <1>3, <1>6, <1>8, <1>9 DEF IInv

LEMMA SaveOK ==
  ASSUME IInv, NEW t \in Traces, NEW new_cov \in BOOLEAN, NEW flaky \in Traces,
         Save(t, new_cov, flaky)
  PROVE  IInv'
<1>. USE DEF Save
<1>. DEFINE v == Cleared(virgin, t)
            w == Cleared(v, flaky)
            new == queued + 1
<1>1. v \in [Node -> SUBSET Buckets] /\ w \in [Node -> SUBSET Buckets]
      /\ Pristine(w) \subseteq Pristine(v)
  BY ClearedType, ClearedSeen DEF IInv, Types, Cleared
<1>2. NodesCounted' /\ FoundIsSeen' /\ node_nums' \in Nat /\ found' \subseteq Node
  <2>1. virgin' = w
    OBVIOUS
  <2>. HIDE DEF w
  <2>. QED  BY <1>1, <2>1, Counting DEF IInv, CountHits
<1>3. /\ queued \in Nat /\ cur \in Nat /\ new \in Entry /\ cur \in Entry /\ cur # new
      /\ traced \subseteq Entry /\ new \notin traced /\ cur <= queued
  BY EnergyAssumption DEF IInv, Types, Entry
<1>4. CountedForCur(t) \in [Node -> 0..Modulus - 1]
  BY CountedType DEF IInv
<1>5. t \in [Node -> 0..Modulus - 1]
  <2>1. Top \in Nat /\ Modulus \in Nat /\ Top < Modulus
    BY EnergyAssumption
  <2>. QED
    BY <2>1, TraceType
<1>6. /\ bits' \in [Entry -> [Node -> 0..Modulus - 1]]
      /\ \A q \in Entry : bits'[q] = IF q = new THEN t ELSE IF q = cur THEN CountedForCur(t) ELSE bits[q]
  BY <1>3, <1>4, <1>5 DEF IInv, Types
<1>7. fuzzed_times' \in [Entry -> 0..MaxFuzz] /\ fuzzed_times'[new] = 0
      /\ \A q \in Entry : q > queued => fuzzed_times'[q] = 0
  BY <1>3, TimesType DEF IInv, CountersBounded, Entry
<1>8. Types'
  <2>1. queued' \in Seeds..MaxEntries /\ cur' \in 1..queued' /\ traced' \subseteq 1..queued'
    BY <1>3, EnergyAssumption DEF IInv, Types
  <2>2. virgin' = w
    OBVIOUS
  <2>. HIDE DEF w
  <2>. QED  BY <1>1, <1>2, <1>6, <1>7, <2>1, <2>2 DEF Types
<1>9. CountersBounded'
  <2>1. \A q \in Entry : q > queued' => fuzzed_times'[q] = 0
    BY <1>3, <1>7 DEF Entry
  <2>2. \A n \in Scanned : bits'[new][n] <= Bound(fuzzed_times'[new])
    <3>1. Bound(0) >= Top
      BY EnergyAssumption DEF Bound
    <3>2. \A n \in Scanned : t[n] <= Top /\ t[n] \in Nat
      BY TraceType, ScannedNodes, EnergyAssumption
    <3>. QED
      BY <1>3, <1>6, <1>7, <3>1, <3>2, EnergyAssumption DEF Bound
  <2>3. \A q \in traced : \A n \in Scanned : bits'[q][n] <= Bound(fuzzed_times'[q])
    BY <1>3, <1>6, EntryCounters DEF IInv
  <2>4. traced' = traced \cup {new}
    OBVIOUS
  <2>. QED
    BY <2>1, <2>2, <2>3, <2>4 DEF CountersBounded
<1>10. FoundIsRecorded'
  <2>1. \A q \in traced : bits'[q] = IF q = cur THEN CountedForCur(t) ELSE bits[q]
    BY <1>3, <1>6
  <2>2. \A n \in found \cap Scanned : \E q \in traced' : bits'[q][n] # 0
    BY <2>1, StaysRecorded
  <2>3. \A n \in NewNodes(t) : t[n] # 0
    BY DEF NewNodes
  <2>4. new \in traced' /\ bits'[new] = t /\ found' = found \cup NewNodes(t)
    BY <1>3, <1>6 DEF CountHits
  <2>. QED
    BY <2>2, <2>3, <2>4 DEF FoundIsRecorded
<1>. QED
  BY <1>2, <1>8, <1>9, <1>10 DEF IInv

LEMMA CalibrateOK == ASSUME IInv, NEW t \in Traces, Calibrate(t) PROVE IInv'
<1>. USE DEF Calibrate
<1>1. Cleared(virgin, t) \in [Node -> SUBSET Buckets]
      /\ Pristine(Cleared(virgin, t)) \subseteq Pristine(virgin)
  BY ClearedType, ClearedSeen DEF IInv, Types
<1>2. Types' /\ FoundIsSeen'
  BY <1>1 DEF IInv, Types, FoundIsSeen
<1>3. CountersBounded' /\ FoundIsRecorded'
  BY DEF IInv, CountersBounded, FoundIsRecorded
<1>4. NodesCounted'
  <2>. DEFINE S == Node \ Pristine(virgin)
              T == Node \ Pristine(Cleared(virgin, t))
  <2>1. S \subseteq T /\ T \subseteq Node /\ S \subseteq Node
    BY <1>1
  <2>2. NodesSeen(virgin) = Cardinality(S) /\ NodesSeen(virgin)' = Cardinality(T)
    BY DEF NodesSeen
  <2>3. Cardinality(found) <= node_nums /\ node_nums <= Cardinality(S) /\ node_nums \in Nat
    BY <2>2 DEF IInv, NodesCounted, Types
  <2>4. Cardinality(found) <= node_nums /\ node_nums <= Cardinality(T)
    <3>. HIDE DEF S, T
    <3>. QED  BY <2>1, <2>3, CardMono, NodeFinite
  <2>. QED
    BY <2>2, <2>4 DEF NodesCounted
<1>. QED
  BY <1>2, <1>3, <1>4 DEF IInv

LEMMA ScoreOK == ASSUME IInv, Score \/ ScoreDies PROVE IInv'
<1>1. NextOf(cur) \in 1..queued
  BY EnergyAssumption DEF NextOf, IInv, Types
<1>2. Types'
  BY <1>1 DEF Score, ScoreDies, IInv, Types
<1>3. FoundIsSeen' /\ CountersBounded' /\ FoundIsRecorded'
  BY DEF Score, ScoreDies, IInv, FoundIsSeen, CountersBounded, FoundIsRecorded, Pristine
<1>4. NodesCounted'
  BY DEF Score, ScoreDies, IInv, NodesCounted, NodesSeen, Pristine
<1>. QED
  BY <1>2, <1>3, <1>4 DEF IInv

LEMMA FlickersAreTraces == Flickers \subseteq Traces
  BY DEF Flickers

LEMMA StepOK == ASSUME IInv, [Next]_vars PROVE IInv'
<1>1. CASE UNCHANGED vars
  BY <1>1 DEF vars, IInv, Types, FoundIsSeen, NodesCounted, NodesSeen, Pristine,
              CountersBounded, FoundIsRecorded
<1>. QED
  BY <1>1, DiscardOK, SaveOK, CalibrateOK, ScoreOK, FlickersAreTraces DEF Next

THEOREM InvHolds == Spec => []IInv
  BY InitOK, StepOK, PTL DEF Spec

(* The divisor of the average is at least the nodes fuzzing found, and at  *)
(* most those that were seen.                                              *)
THEOREM NodesCountedHolds == Spec => []NodesCounted
  BY InvHolds, PTL DEF IInv

(* What fuzzing found stays recorded in an entry, where it is watched.     *)
THEOREM FoundIsRecordedHolds == Spec => []FoundIsRecorded
  BY InvHolds, PTL DEF IInv

(* No watched counter wraps around.                                        *)
LEMMA WatchedStep ==
  ASSUME IInv, [Next]_vars
  PROVE  [\A q \in traced : \A n \in Scanned :
            bits'[q][n] >= bits[q][n] \/ (bits[q][n] > Low /\ bits'[q][n] >= Low)]_vars
<1>. DEFINE Watched == \A q \in traced : \A n \in Scanned :
               bits'[q][n] >= bits[q][n] \/ (bits[q][n] > Low /\ bits'[q][n] >= Low)
<1>1. \A q \in traced : q \in Entry /\ q <= queued /\ bits[q] \in [Node -> Nat]
  BY EnergyAssumption DEF IInv, Types, Entry
<1>2. ASSUME NEW t \in Traces, NEW new_cov \in BOOLEAN, Discard(t, new_cov) PROVE Watched
  <2>1. CountHits(t) /\ \A q \in traced : bits'[q] = IF q = cur THEN CountedForCur(t) ELSE bits[q]
    BY <1>1, <1>2 DEF Discard, IInv, Types
  <2>. QED
    BY <2>1, EntryCounters DEF IInv
<1>3. ASSUME NEW t \in Traces, NEW new_cov \in BOOLEAN, NEW flaky \in Traces,
             Save(t, new_cov, flaky)
      PROVE  Watched
  <2>1. queued \in Nat
    BY EnergyAssumption DEF IInv, Types
  <2>2. CountHits(t) /\ \A q \in traced : bits'[q] = IF q = cur THEN CountedForCur(t) ELSE bits[q]
    BY <1>1, <1>3, <2>1 DEF Save, IInv, Types
  <2>. QED
    BY <2>2, EntryCounters DEF IInv
<1>4. ASSUME UNCHANGED bits PROVE Watched
  BY <1>1, <1>4, ScannedNodes
<1>. QED
  BY <1>2, <1>3, <1>4, FlickersAreTraces DEF Next, Calibrate, Score, ScoreDies, vars

THEOREM WatchedNeverWrapHolds == Spec => WatchedNeverWrap
<1>1. IInv /\ [Next]_vars =>
        [\A q \in traced : \A n \in Scanned :
            bits'[q][n] >= bits[q][n] \/ (bits[q][n] > Low /\ bits'[q][n] >= Low)]_vars
  BY WatchedStep
<1>. QED
  BY <1>1, InvHolds, PTL DEF Spec, WatchedNeverWrap

-----------------------------------------------------------------------------
(***************************************************************************)
(* Sums.  HitsOf adds up a trace by FoldFunction, which takes one node at  *)
(* a time out of the set of nodes.  That this is a number, and that there  *)
(* is such a function at all, follows by induction on the number of nodes, *)
(* stated as the least counterexample.                                     *)
(***************************************************************************)
Pick(s) == CHOOSE x \in s : TRUE
SumsTo(t, g) == g = [s \in SUBSET Node |-> IF s = {} THEN 0 ELSE t[Pick(s)] + g[s \ {Pick(s)}]]

(* What FoldFunction makes of a trace.                                     *)
LEMMA HitsIter ==
  ASSUME NEW t \in Traces PROVE HitsOf(t) = (CHOOSE g : SumsTo(t, g))[Node]
<1>1. DOMAIN t = Node
  BY TraceType
<1>. QED  BY <1>1, Zenon DEF HitsOf, FoldFunction, FoldFunctionOnSet, MapThenFoldSet, SumsTo, Pick

(* The least-number principle.                                             *)
LEMMA LeastNat ==
  ASSUME NEW T, T \subseteq Nat, T # {}
  PROVE  \E m \in T : \A k \in T : m <= k
<1>1. IsWellFoundedOn({p \in Nat \X Nat : p[1] < p[2]}, Nat)
  BY NatLessThanWellFounded DEF OpToRel
<1>2. PICK m \in T : \A k \in T : ~ (<<k, m>> \in {p \in Nat \X Nat : p[1] < p[2]})
  BY <1>1, WFMin
<1>3. ASSUME NEW k \in T PROVE m <= k
  <2>1. m \in Nat /\ k \in Nat /\ <<k, m>> \in Nat \X Nat
    OBVIOUS
  <2>2. ~ (k < m)
    BY <1>2, <2>1
  <2>. QED  BY <2>1, <2>2
<1>. QED  BY <1>3

(* The sums over the sets of at most k nodes.                              *)
Small(k) == {s \in SUBSET Node : Cardinality(s) <= k}
SumsUpTo(t, k, h) ==
  /\ h \in [Small(k) -> Nat]
  /\ \A s \in Small(k) : h[s] = IF s = {} THEN 0 ELSE t[Pick(s)] + h[s \ {Pick(s)}]

(* A set without the node that is taken first.                             *)
LEMMA SmallerSet ==
  ASSUME NEW s, s \in SUBSET Node, s # {}
  PROVE  /\ Pick(s) \in s /\ s \ {Pick(s)} \in SUBSET Node
         /\ Cardinality(s \ {Pick(s)}) = Cardinality(s) - 1
         /\ Cardinality(s) \in Nat \ {0}
<1>1. Pick(s) \in s
  BY DEF Pick
<1>2. IsFiniteSet(s) /\ Cardinality(s) \in Nat
  BY NodeFinite
<1>3. Cardinality(s) # 0
  BY <1>2, FS_EmptySet
<1>4. Cardinality(s \ {Pick(s)}) = Cardinality(s) - 1
  BY <1>1, <1>2, FS_RemoveElement
<1>. QED  BY <1>1, <1>2, <1>3, <1>4

(* There are such sums.                                                    *)
LEMMA SumsExist ==
  ASSUME NEW t \in Traces PROVE \A k \in Nat : \E h : SumsUpTo(t, k, h)
<1>. DEFINE Fails == {k \in Nat : ~ \E h : SumsUpTo(t, k, h)}
<1>1. SUFFICES ASSUME Fails # {} PROVE FALSE
  OBVIOUS
<1>2. PICK k \in Fails : \A j \in Fails : k <= j
  <2>. HIDE DEF Fails
  <2>1. Fails \subseteq Nat
    BY DEF Fails
  <2>. QED  BY <1>1, <2>1, LeastNat
<1>3. CASE k = 0
  <2>1. \A s \in Small(k) : s = {}
    <3>1. SUFFICES ASSUME NEW s \in SUBSET Node, Cardinality(s) <= 0, s # {} PROVE FALSE
      BY <1>3 DEF Small
    <3>2. Cardinality(s) \in Nat \ {0}
      BY <3>1, SmallerSet
    <3>. QED  BY <3>1, <3>2
  <2>2. SumsUpTo(t, k, [s \in Small(k) |-> 0])
    BY <2>1 DEF SumsUpTo
  <2>. QED  BY <1>2, <2>2
<1>4. CASE k # 0
  <2>1. k - 1 \in Nat /\ k \in Nat
    BY <1>2, <1>4
  <2>2. PICK g : SumsUpTo(t, k - 1, g)
    BY <1>2, <2>1
  <2>. DEFINE Sum(s) == IF s = {} THEN 0 ELSE t[Pick(s)] + g[s \ {Pick(s)}]
              h == [s \in Small(k) |-> Sum(s)]
  <2>3. ASSUME NEW s \in Small(k), s # {}
        PROVE  s \ {Pick(s)} \in Small(k - 1) /\ s \ {Pick(s)} \in Small(k) /\ t[Pick(s)] \in Nat
    BY <2>1, <2>3, SmallerSet, TraceType, EnergyAssumption DEF Small
  <2>4. \A s \in Small(k) : Sum(s) \in Nat
    BY <2>2, <2>3 DEF SumsUpTo
  <2>5. \A s \in Small(k - 1) : s \in Small(k) /\ Sum(s) = g[s]
    BY <2>1, <2>2, NodeFinite DEF SumsUpTo, Small
  <2>6. SumsUpTo(t, k, h)
    BY <2>3, <2>4, <2>5 DEF SumsUpTo
  <2>. QED  BY <1>2, <2>6
<1>. QED  BY <1>3, <1>4

(* What a run hits is a number.                                            *)
LEMMA HitsType == ASSUME NEW t \in Traces PROVE HitsOf(t) \in Nat
<1>1. Small(N) = SUBSET Node
  <2>1. \A s \in SUBSET Node : Cardinality(s) <= N
    <3>1. Cardinality(Node) = N
      BY FS_Interval, EnergyAssumption DEF Node
    <3>. QED  BY <3>1, CardMono
  <2>. QED  BY <2>1 DEF Small
<1>2. PICK h : SumsUpTo(t, N, h)
  BY SumsExist, EnergyAssumption
<1>3. SumsTo(t, h)
  BY <1>1, <1>2 DEF SumsUpTo, SumsTo
<1>. DEFINE g == CHOOSE g : SumsTo(t, g)
<1>4. SumsTo(t, g)
  BY <1>3
<1>. HIDE DEF g
<1>5. \A s \in SUBSET Node : g[s] = IF s = {} THEN 0 ELSE t[Pick(s)] + g[s \ {Pick(s)}]
  BY <1>4 DEF SumsTo
<1>. DEFINE Bad == {k \in Nat : \E s \in SUBSET Node : Cardinality(s) = k /\ g[s] \notin Nat}
<1>6. Bad = {}
  <2>1. SUFFICES ASSUME Bad # {} PROVE FALSE
    OBVIOUS
  <2>2. PICK k \in Bad : \A j \in Bad : k <= j
    BY <2>1, LeastNat
  <2>3. PICK s \in SUBSET Node : Cardinality(s) = k /\ g[s] \notin Nat
    BY <2>2
  <2>4. s # {}
    <3>1. g[{}] = 0
      BY <1>5
    <3>. QED  BY <2>3, <3>1
  <2>5. g[s \ {Pick(s)}] \in Nat
    BY <2>2, <2>3, <2>4, SmallerSet
  <2>6. t[Pick(s)] \in Nat
    <3>1. Pick(s) \in Node
      BY <2>4, SmallerSet
    <3>. QED  BY <3>1, TraceType, EnergyAssumption
  <2>7. g[s] = t[Pick(s)] + g[s \ {Pick(s)}]
    BY <1>5, <2>4
  <2>. QED  BY <2>3, <2>5, <2>6, <2>7
<1>7. g[Node] \in Nat
  BY <1>6, NodeFinite
<1>. QED  BY <1>7, HitsIter DEF g

(* The rest of the types.                                                  *)
Sums ==
  /\ hitcounts_sum \in Nat /\ traced \subseteq Seeds + 1..queued
  /\ energy \in {0, 1, 5} /\ crashed \in BOOLEAN /\ execs \in 0..MaxExecs

(* Dividing by the number of rare counters that were met leaves the points *)
(* each of them gives, however often the windows of the loop meet one.     *)
LEMMA EnergyType == ASSUME NEW q PROVE EnergyOf(q) \in {1, 5}
<1>1. CASE q \notin traced \/ RareMet(q) = {}
  BY <1>1 DEF EnergyOf
<1>2. CASE q \in traced /\ RareMet(q) # {}
  <2>. DEFINE Windows == (0..(N \div 4) - 1) \X (0..3)
              c == Cardinality(RareMet(q))
  <2>1. IsFiniteSet(Windows)
    <3>1. (N \div 4) - 1 \in Int /\ 0 \in Int /\ 3 \in Int
      BY EnergyAssumption
    <3>2. IsFiniteSet(0..(N \div 4) - 1) /\ IsFiniteSet(0..3)
      BY <3>1, FS_Interval
    <3>. QED  BY <3>2, FS_Product
  <2>2. RareMet(q) \subseteq Windows
    BY DEF RareMet
  <2>3. c \in Nat /\ c # 0
    <3>. HIDE DEF Windows
    <3>. QED  BY <1>2, <2>1, <2>2, FS_Subset, FS_CardinalityType, FS_EmptySet
  <2>4. EnergyOf(q) = (5 * c) \div c
    BY <1>2 DEF EnergyOf, NodeNumbers
  <2>5. (5 * c) \div c = 5
    <3>. HIDE DEF c
    <3>. QED  BY <2>3
  <2>. QED  BY <2>4, <2>5
<1>. QED  BY <1>1, <1>2

LEMMA SumsStep == ASSUME IInv, Sums, [Next]_vars PROVE Sums'
<1>1. queued \in Nat /\ Seeds \in Nat /\ queued >= Seeds /\ MaxExecs \in Nat
  BY EnergyAssumption DEF IInv, Types
<1>2. ASSUME NEW t \in Traces, CountHits(t) PROVE hitcounts_sum' \in Nat
  BY <1>2, HitsType DEF CountHits, Sums
<1>3. ASSUME Execs PROVE execs' \in 0..MaxExecs
  BY <1>1, <1>3 DEF Execs, Sums
<1>4. CASE UNCHANGED vars
  BY <1>4 DEF vars, Sums
<1>5. ASSUME NEW t \in Traces, NEW new_cov \in BOOLEAN, Discard(t, new_cov) PROVE Sums'
  BY <1>2, <1>3, <1>5 DEF Discard, Sums
<1>6. ASSUME NEW t \in Traces, NEW new_cov \in BOOLEAN, NEW flaky, Save(t, new_cov, flaky) PROVE Sums'
  <2>1. traced' \subseteq Seeds + 1..queued'
    BY <1>1, <1>6 DEF Save, Sums
  <2>. QED  BY <1>2, <1>3, <1>6, <2>1 DEF Save, Sums
<1>7. ASSUME NEW t, Calibrate(t) PROVE Sums'
  BY <1>7 DEF Calibrate, Sums
<1>8. CASE Score \/ ScoreDies
  BY <1>8, EnergyType DEF Score, ScoreDies, Sums
<1>. QED  BY <1>4, <1>5, <1>6, <1>7, <1>8 DEF Next

(* For every map and any limits, the energy of an entry is 1 or 5, the     *)
(* average is over no more nodes than there are, and no counter reaches    *)
(* the modulus.                                                            *)
THEOREM TypeCorrect == Spec => []TypeOK
<1>1. Init => Sums
  <2>. SUFFICES ASSUME Init PROVE Sums
    OBVIOUS
  <2>1. execs \in 0..MaxExecs
    BY EnergyAssumption DEF Init
  <2>. QED  BY <2>1 DEF Init, Sums
<1>2. IInv /\ Sums /\ [Next]_vars => Sums'
  BY SumsStep
<1>3. IInv /\ Sums => TypeOK
  <2>. SUFFICES ASSUME IInv, Sums PROVE TypeOK
    OBVIOUS
  <2>1. node_nums \in 0..N
    <3>1. NodesSeen(virgin) <= N /\ NodesSeen(virgin) \in Nat
      <4>1. Cardinality(Node) = N
        BY FS_Interval, EnergyAssumption DEF Node
      <4>2. Node \ Pristine(virgin) \subseteq Node
        OBVIOUS
      <4>. QED  BY <4>1, <4>2, CardMono, NodeFinite DEF NodesSeen
    <3>. QED  BY <3>1, EnergyAssumption DEF IInv, NodesCounted, Types
  <2>. QED  BY <2>1 DEF IInv, Types, Sums, TypeOK
<1>. QED  BY <1>1, <1>2, <1>3, InvHolds, PTL DEF Spec
=============================================================================
