---------------------------- MODULE QueueProofs ----------------------------
(***************************************************************************)
(* Proofs about Queue, for every size of the map and of the queue, and for *)
(* every length and speed of the test cases.                               *)
(*                                                                         *)
(* RefCounts is kept by update_bitmap_score alone (ScoreRefCounts below).  *)
(* That winners only improve rests on when calibrate_case may run: an      *)
(* entry is measured again only while it owns no byte, because only a      *)
(* completed calibration wins bytes and it also ends the retries.          *)
(*                                                                         *)
(* The second half, Exact, is about the flags and the counters that        *)
(* cull_queue sets and fuzz_one reads, and rests on the first.             *)
(***************************************************************************)
EXTENDS Queue, FiniteSetTheorems, FunctionTheorems, SequenceTheorems, TLAPS

(* p is a seed whose dry run has not come yet. *)
Waiting(p) == pc = "dry_run" /\ p >= queue_cur

(* fuzz_one works on an entry of the queue, main may stand behind its end. *)
Places ==
  /\ queued_paths \in Entries /\ queue_cur \in Queued \cup {NoEntry}
  /\ pc \notin {"main", "stopped"} => queue_cur \in Queued
  /\ pc = "dry_run" => queued_paths = Seeds

Fields ==
  /\ len \in [Entries -> Nat] /\ exec_us \in [Entries -> Nat]
  /\ cal_failed \in [Entries -> Nat] /\ exec_cksum \in [Entries -> SUBSET Bytes]

Slots ==
  /\ trace_mini \in [Entries -> SUBSET Bytes] /\ tc_ref \in [Entries -> Nat]
  /\ top_rated \in [Bytes -> Queued \cup {NoEntry}]

(* Where a retry and a trimming find the entry they work on.               *)
Chances ==
  /\ pc = "calibrate" => cal_failed[queue_cur] # 0
  /\ pc = "trim" => cal_failed[queue_cur] = 0

Calibrated(p) == exec_us[p] \in Times /\ exec_cksum[p] # None

Measured == \A p \in Queued : ~Waiting(p) /\ cal_failed[p] = 0 => Calibrated(p)

Winners ==
  \A i \in Bytes : \A p \in Queued :
    top_rated[i] = p => cal_failed[p] = 0 /\ Calibrated(p) /\ ~Waiting(p)

(* The step part of WinnersOnlyImprove. *)
Improves ==
  \A i \in Bytes : top_rated[i] # NoEntry =>
    top_rated'[i] # NoEntry /\ WinnerFav(i)' <= WinnerFav(i)

IInv == Places /\ Fields /\ Slots /\ Chances /\ Measured /\ Winners /\ RefCounts

-----------------------------------------------------------------------------
(* Sets of bytes. *)

LEMMA SetsOfBytes ==
  ASSUME NEW S \in SUBSET Bytes
  PROVE  IsFiniteSet(S) /\ Cardinality(S) \in Nat /\ (Cardinality(S) = 0 <=> S = {})
<1>1. IsFiniteSet(Bytes)
  BY FS_Interval, QueueAssumption DEF Bytes
<1>2. IsFiniteSet(S)
  BY <1>1, FS_Subset
<1> QED
  BY <1>2, FS_CardinalityType, FS_EmptySet

LEMMA Added ==
  ASSUME NEW S \in SUBSET Bytes, NEW T \in SUBSET Bytes
  PROVE  Cardinality(S \cup T) = Cardinality(S) + Cardinality(T \ S)
<1>1. /\ IsFiniteSet(S) /\ Cardinality(S) \in Nat
      /\ IsFiniteSet(T \ S) /\ Cardinality(T \ S) \in Nat
  BY SetsOfBytes
<1>2. S \cup T = S \cup (T \ S) /\ S \cap (T \ S) = {} /\ Cardinality({}) = 0
  BY FS_EmptySet
<1>3. Cardinality(S \cup (T \ S)) = Cardinality(S) + Cardinality(T \ S) - Cardinality(S \cap (T \ S))
  BY <1>1, FS_Union
<1>4. Cardinality(S \cap (T \ S)) = 0 /\ Cardinality(S \cup T) = Cardinality(S \cup (T \ S))
  BY <1>2, Zenon
<1> QED
  BY <1>1, <1>3, <1>4

LEMMA Removed ==
  ASSUME NEW S \in SUBSET Bytes, NEW T \in SUBSET S
  PROVE  Cardinality(S \ T) = Cardinality(S) - Cardinality(T)
<1>1. T \cup (S \ T) = S
  OBVIOUS
<1>2. /\ Cardinality(S) \in Nat /\ Cardinality(T) \in Nat /\ Cardinality(S \ T) \in Nat
  BY SetsOfBytes
<1>3. Cardinality(T \cup S) = Cardinality(T) + Cardinality(S \ T)
  BY Added
<1>4. Cardinality(T \cup S) = Cardinality(S)
  <2>1. T \cup S = S
    OBVIOUS
  <2> QED
    BY <2>1, Zenon
<1> QED
  BY <1>2, <1>3, <1>4

-----------------------------------------------------------------------------
(* update_bitmap_score keeps the reference counts right, for any trace and *)
(* any factor, whoever owned the bytes before.                             *)
LEMMA ScoreRefCounts ==
  ASSUME NEW q \in Entries, NEW f \in Nat, NEW trace \in Traces,
         Slots, RefCounts, UpdateBitmapScore(q, f, trace)
  PROVE  /\ RefCounts'
         /\ trace_mini' \in [Entries -> SUBSET Bytes] /\ tc_ref' \in [Entries -> Nat]
         /\ top_rated' = [i \in Bytes |-> IF i \in Won(f, trace) THEN q ELSE top_rated[i]]
<1> DEFINE won == Won(f, trace)
           lost(p) == {i \in won : top_rated[i] = p}
<1>1. won \in SUBSET Bytes /\ trace \in SUBSET Bytes /\ trace # {}
  <2>1. trace \in SUBSET Bytes /\ trace # {}
    BY DEF Traces
  <2>2. won \subseteq trace
    BY DEF Won
  <2> QED
    BY <2>1, <2>2
<1>2. /\ top_rated' = [i \in Bytes |-> IF i \in won THEN q ELSE top_rated[i]]
      /\ tc_ref' = [p \in Entries |-> IF p = q THEN tc_ref[p] + Cardinality(won \ Owned(p))
                                               ELSE tc_ref[p] - Cardinality(lost(p))]
      /\ trace_mini' = [p \in Entries |->
           IF p = q THEN IF won # {} /\ Rebuilt(p, won) THEN trace ELSE trace_mini[p]
                    ELSE IF lost(p) # {} /\ FreesTrace(p) THEN None ELSE trace_mini[p]]
  BY DEF UpdateBitmapScore
<1> HIDE DEF won
<1>3. ASSUME NEW p \in Entries
      PROVE  /\ Owned(p) \in SUBSET Bytes /\ lost(p) \in SUBSET Owned(p)
             /\ tc_ref[p] = Cardinality(Owned(p)) /\ (tc_ref[p] > 0 <=> trace_mini[p] # None)
  BY <1>1 DEF Owned, RefCounts
<1>4. /\ Owned(q)' = Owned(q) \cup won
      /\ \A p \in Entries \ {q} : Owned(p)' = Owned(p) \ lost(p)
  BY <1>1, <1>2 DEF Owned, Slots
<1>5. tc_ref'[q] = Cardinality(Owned(q)')
  BY <1>1, <1>2, <1>3, <1>4, Added
<1>6. \A p \in Entries \ {q} : tc_ref'[p] = Cardinality(Owned(p)')
  BY <1>2, <1>3, <1>4, Removed
<1>7. \A p \in Entries : Owned(p)' \in SUBSET Bytes /\ Cardinality(Owned(p)') \in Nat
                         /\ (Cardinality(Owned(p)') = 0 <=> Owned(p)' = {})
  <2>1. \A p \in Entries : Owned(p)' \in SUBSET Bytes
    BY <1>1, <1>3, <1>4
  <2> QED
    BY <2>1, SetsOfBytes
<1>8. tc_ref'[q] > 0 <=> trace_mini'[q] # None
  <2>1. CASE won = {}
    BY <2>1, <1>2, <1>3, <1>4, <1>5
  <2>2. CASE won # {} /\ Rebuilt(q, won)
    <3>1. trace_mini'[q] = trace
      BY <2>2, <1>2
    <3>2. Owned(q)' # {}
      BY <2>2, <1>4
    <3>3. Cardinality(Owned(q)') \in Nat /\ Cardinality(Owned(q)') # 0
      BY <3>2, <1>7
    <3> QED
      BY <3>1, <3>3, <1>1, <1>5 DEF None
  <2>3. CASE won # {} /\ ~Rebuilt(q, won)
    <3>1. tc_ref[q] # 0 /\ trace_mini[q] # None
      BY <2>3, <1>3 DEF Rebuilt, Slots
    <3>2. trace_mini'[q] = trace_mini[q]
      BY <2>3, <1>2
    <3>3. Owned(q)' # {}
      BY <2>3, <1>4
    <3>4. Cardinality(Owned(q)') \in Nat /\ Cardinality(Owned(q)') # 0
      BY <3>3, <1>7
    <3> QED
      BY <3>1, <3>2, <3>4, <1>5
  <2> QED
    BY <2>1, <2>2, <2>3
<1>9. ASSUME NEW p \in Entries, p # q
      PROVE  tc_ref'[p] > 0 <=> trace_mini'[p] # None
  <2>1. CASE lost(p) = {}
    <3>1. trace_mini'[p] = trace_mini[p]
      BY <2>1, <1>2, <1>9
    <3>2. Owned(p)' = Owned(p)
      BY <2>1, <1>4, <1>9
    <3>3. tc_ref'[p] = tc_ref[p]
      BY <3>2, <1>3, <1>6, <1>9
    <3> QED
      BY <3>1, <3>3, <1>3
  <2>2. CASE lost(p) # {}
    <3>1. tc_ref[p] > 0
      BY <2>2, <1>3, SetsOfBytes DEF Slots
    <3> QED
      BY <3>1, <2>2, <1>2, <1>3, <1>6, <1>7, <1>9 DEF FreesTrace, None
  <2> QED
    BY <2>1, <2>2
<1>10. RefCounts'
  BY <1>5, <1>6, <1>8, <1>9 DEF RefCounts
<1>11. tc_ref' \in [Entries -> Nat]
  BY <1>2, <1>5, <1>6, <1>7
<1>12. trace_mini' \in [Entries -> SUBSET Bytes]
  BY <1>1, <1>2 DEF Slots, None
<1> QED
  BY <1>2, <1>10, <1>11, <1>12 DEF won

-----------------------------------------------------------------------------
(* A calibration leaves all entries but q as they were; q is measured, and *)
(* wins bytes from slower or larger entries, when all its runs succeed.    *)
LEMMA RunsOfCalibration ==
  ASSUME NEW runs \in Calibrations
  PROVE  /\ Len(runs) \in Nat /\ Len(runs) <= CalRuns
         /\ \A k \in 1..Len(runs) : runs[k] \in Traces
<1>1. PICK n \in 0..CalRuns : runs \in [1..n -> Traces]
  BY DEF Calibrations
<1>2. n \in Nat /\ n <= CalRuns
  BY QueueAssumption
<1>3. runs \in Seq(Traces)
  BY <1>1, <1>2
<1>4. Len(runs) \in Nat /\ DOMAIN runs = 1..Len(runs) /\ DOMAIN runs = 1..n
  BY <1>1, <1>3, LenProperties
<1>5. Len(runs) = n
  <2>1. n > 0 => n \in 1..Len(runs)
    BY <1>2, <1>4
  <2>2. Len(runs) > 0 => Len(runs) \in 1..n
    BY <1>2, <1>4
  <2>3. Len(runs) \in Nat
    BY <1>4
  <2> QED
    BY <1>2, <2>1, <2>2, <2>3
<1> QED
  BY <1>1, <1>2, <1>5

LEMMA CalibrateStep ==
  ASSUME NEW q \in Entries, NEW known \in SUBSET Bytes, NEW runs \in Calibrations,
         NEW us \in Times, NEW l \in Nat, Fields, Slots, RefCounts,
         Calibrate(q, known, runs, us, l)
  PROVE  /\ exec_us' \in [Entries -> Nat] /\ cal_failed' \in [Entries -> Nat]
         /\ exec_cksum' \in [Entries -> SUBSET Bytes]
         /\ trace_mini' \in [Entries -> SUBSET Bytes] /\ tc_ref' \in [Entries -> Nat]
         /\ top_rated' \in [Bytes -> Queued \cup {NoEntry, q}]
         /\ RefCounts'
         /\ \A p \in Entries \ {q} : /\ exec_us'[p] = exec_us[p] /\ cal_failed'[p] = cal_failed[p]
                                    /\ exec_cksum'[p] = exec_cksum[p]
         /\ Len(runs) = CalRuns <=> cal_failed'[q] = 0
         /\ cal_failed'[q] = 0 => Calibrated(q)'
         /\ \A i \in Bytes :
              \/ top_rated'[i] = top_rated[i]
              \/ /\ top_rated'[i] = q /\ cal_failed'[q] = 0
                 /\ top_rated[i] = NoEntry \/ Factor(exec_us'[q], l) <= Fav(top_rated[i])
<1> USE DEF Calibrate
<1>1. /\ Len(runs) \in Nat /\ Len(runs) <= CalRuns /\ CalRuns \in Nat \ {0}
      /\ \A k \in 1..Len(runs) : runs[k] \in Traces
      /\ Times \subseteq Nat
  BY RunsOfCalibration, QueueAssumption
<1>2. Len(runs) > 0 => runs[1] \in SUBSET Bytes /\ runs[1] # None
  <2>1. Len(runs) > 0 => runs[1] \in Traces
    BY <1>1
  <2> QED
    BY <2>1 DEF Traces, None
<1>3. /\ exec_cksum' \in [Entries -> SUBSET Bytes]
      /\ \A p \in Entries \ {q} : exec_cksum'[p] = exec_cksum[p]
      /\ Len(runs) > 0 => exec_cksum'[q] # None
  BY <1>1, <1>2 DEF CalibrateRuns, Fields
<1>4. CASE Len(runs) = CalRuns
  <2>1. /\ cal_failed' = [cal_failed EXCEPT ![q] = 0] /\ exec_us' = [exec_us EXCEPT ![q] = us]
        /\ UpdateBitmapScore(q, Factor(us, l), runs[Len(runs)])
    BY <1>4 DEF CalibrateRuns
  <2>2. Factor(us, l) \in Nat /\ runs[Len(runs)] \in Traces
    BY <1>1, <1>4 DEF Factor
  <2>3. /\ RefCounts' /\ trace_mini' \in [Entries -> SUBSET Bytes] /\ tc_ref' \in [Entries -> Nat]
        /\ top_rated' = [i \in Bytes |-> IF i \in Won(Factor(us, l), runs[Len(runs)])
                                         THEN q ELSE top_rated[i]]
    BY <2>1, <2>2, ScoreRefCounts
  <2>4. /\ exec_us' \in [Entries -> Nat] /\ cal_failed' \in [Entries -> Nat]
        /\ \A p \in Entries \ {q} : exec_us'[p] = exec_us[p] /\ cal_failed'[p] = cal_failed[p]
        /\ cal_failed'[q] = 0 /\ exec_us'[q] = us
    BY <1>1, <2>1 DEF Fields
  <2>5. top_rated' \in [Bytes -> Queued \cup {NoEntry, q}]
    BY <2>3 DEF Slots
  <2>6. ASSUME NEW i \in Bytes
        PROVE  \/ top_rated'[i] = top_rated[i]
               \/ /\ top_rated'[i] = q
                  /\ top_rated[i] = NoEntry \/ Factor(exec_us'[q], l) <= Fav(top_rated[i])
    BY <2>3, <2>4 DEF Won
  <2>7. Calibrated(q)'
    BY <1>1, <1>3, <1>4, <2>4 DEF Calibrated
  <2> QED
    BY <1>3, <1>4, <2>3, <2>4, <2>5, <2>6, <2>7
<1>5. CASE Len(runs) # CalRuns
  <2>1. /\ cal_failed' = [cal_failed EXCEPT ![q] = @ + 1]
        /\ UNCHANGED <<exec_us, trace_mini, tc_ref, top_rated>>
    BY <1>5 DEF CalibrateRuns, scores
  <2>2. RefCounts'
    BY <2>1 DEF RefCounts, Owned
  <2>3. /\ cal_failed' \in [Entries -> Nat] /\ cal_failed'[q] # 0
        /\ \A p \in Entries \ {q} : cal_failed'[p] = cal_failed[p]
    BY <2>1 DEF Fields
  <2>4. top_rated' \in [Bytes -> Queued \cup {NoEntry, q}]
    BY <2>1 DEF Slots
  <2> QED
    BY <1>3, <1>5, <2>1, <2>2, <2>3, <2>4 DEF Fields, Slots
<1> QED
  BY <1>4, <1>5

LEMMA Monotone ==
  ASSUME NEW a \in Nat, NEW b \in Nat, NEW c \in Nat, b <= c
  PROVE  a * b <= a * c
  OBVIOUS

-----------------------------------------------------------------------------
(* What a step makes of the parts of IInv that speak of measures and       *)
(* scores, by the kind of the step.                                        *)
Kept == Fields' /\ Slots' /\ Measured' /\ Winners' /\ RefCounts' /\ Improves

(* A step that measures and scores nothing, once the dry run is over.      *)
LEMMA QuietStep ==
  ASSUME IInv, pc # "dry_run", pc' # "dry_run",
         UNCHANGED <<queued_paths, len, measures, trace_mini, tc_ref, top_rated>>
  PROVE  Kept
<1> USE DEF measures
<1>1. Fields' /\ Slots'
  BY DEF IInv, Fields, Slots, Queued
<1>2. RefCounts'
  BY DEF IInv, RefCounts, Owned
<1>3. Measured'
  BY DEF IInv, Measured, Calibrated, Waiting, Queued
<1>4. Winners'
  BY DEF IInv, Winners, Calibrated, Waiting, Queued
<1>5. Improves
  <2>1. ASSUME NEW i \in Bytes, top_rated[i] # NoEntry
        PROVE  WinnerFav(i)' = WinnerFav(i) /\ WinnerFav(i) \in Nat
    <3>1. top_rated[i] \in Entries
      BY <2>1, QueueAssumption DEF IInv, Places, Slots, Queued, Entries
    <3>2. exec_us[top_rated[i]] \in Nat /\ len[top_rated[i]] \in Nat
      BY <3>1 DEF IInv, Fields
    <3> QED
      BY <3>2 DEF WinnerFav, Fav, Factor
  <2> QED
    BY <2>1 DEF Improves
<1> QED
  BY <1>1, <1>2, <1>3, <1>4, <1>5 DEF Kept

(* A calibration of an entry that owns no byte.                            *)
LEMMA CalibrationKeeps ==
  ASSUME IInv, Places', NEW q \in Queued', Owned(q) = {}, ~Waiting(q)',
         \A p \in Queued' \ {q} : p \in Queued /\ (Waiting(p)' => Waiting(p))
                                  /\ (Waiting(p) => Waiting(p)'),
         Queued \subseteq Queued',
         len' \in [Entries -> Nat], \A p \in Entries \ {q} : len'[p] = len[p],
         NEW known \in SUBSET Bytes, NEW runs \in Calibrations, NEW us \in Times,
         Calibrate(q, known, runs, us, len'[q])
  PROVE  Kept /\ (Len(runs) = CalRuns <=> cal_failed'[q] = 0)
<1> DEFINE l == len'[q]
<1>0. Queued' \subseteq Entries /\ Queued \subseteq Entries /\ q \in Entries /\ q # NoEntry
      /\ Entries \subseteq Nat /\ NoEntry \notin Entries /\ l \in Nat
  BY QueueAssumption DEF IInv, Places, Queued, Entries, NoEntry
<1> HIDE DEF l
<1>1. /\ exec_us' \in [Entries -> Nat] /\ cal_failed' \in [Entries -> Nat]
      /\ exec_cksum' \in [Entries -> SUBSET Bytes]
      /\ trace_mini' \in [Entries -> SUBSET Bytes] /\ tc_ref' \in [Entries -> Nat]
      /\ top_rated' \in [Bytes -> Queued \cup {NoEntry, q}]
      /\ RefCounts'
      /\ \A p \in Entries \ {q} : /\ exec_us'[p] = exec_us[p] /\ cal_failed'[p] = cal_failed[p]
                                 /\ exec_cksum'[p] = exec_cksum[p]
      /\ Len(runs) = CalRuns <=> cal_failed'[q] = 0
      /\ cal_failed'[q] = 0 => Calibrated(q)'
      /\ \A i \in Bytes :
           \/ top_rated'[i] = top_rated[i]
           \/ /\ top_rated'[i] = q /\ cal_failed'[q] = 0
              /\ top_rated[i] = NoEntry \/ Factor(exec_us'[q], l) <= Fav(top_rated[i])
  BY <1>0, CalibrateStep DEF IInv, l
<1>2. Fields'
  BY <1>1 DEF Fields
<1>3. Slots'
  <2>1. Queued \cup {NoEntry, q} \subseteq Queued' \cup {NoEntry}
    OBVIOUS
  <2>2. top_rated' \in [Bytes -> Queued' \cup {NoEntry}]
    BY <1>1, <2>1
  <2> QED
    BY <1>1, <2>2 DEF Slots
<1>4. Measured'
  <2>1. ASSUME NEW p \in Queued', ~Waiting(p)', cal_failed'[p] = 0
        PROVE  Calibrated(p)'
    <3>1. CASE p = q
      BY <3>1, <1>1, <2>1
    <3>2. CASE p # q
      BY <3>2, <2>1, <1>0, <1>1 DEF IInv, Measured, Calibrated
    <3> QED
      BY <3>1, <3>2
  <2> QED
    BY <2>1 DEF Measured
<1>5. \A i \in Bytes : top_rated[i] # q /\ top_rated[i] \in Queued \cup {NoEntry}
  BY DEF Owned, IInv, Slots
<1>6. ASSUME NEW i \in Bytes, NEW p \in Queued', top_rated'[i] = p
      PROVE  cal_failed'[p] = 0 /\ Calibrated(p)' /\ ~Waiting(p)'
  <2>1. CASE p = q
    BY <2>1, <1>1, <1>5, <1>6
  <2>2. CASE p # q
    <3>1. top_rated[i] = p /\ p \in Queued /\ p \in Entries \ {q} /\ p \in Queued' \ {q}
      BY <2>2, <1>0, <1>1, <1>6
    <3>2. cal_failed[p] = 0 /\ Calibrated(p) /\ ~Waiting(p)
      BY <3>1 DEF IInv, Winners
    <3>3. cal_failed'[p] = 0 /\ exec_us'[p] = exec_us[p] /\ exec_cksum'[p] = exec_cksum[p]
      BY <3>1, <3>2, <1>1
    <3>4. ~Waiting(p)'
      BY <3>1, <3>2
    <3>5. Calibrated(p)'
      BY <3>2, <3>3 DEF Calibrated
    <3> QED
      BY <3>3, <3>4, <3>5
  <2> QED
    BY <2>1, <2>2
<1>7. Winners'
  BY <1>6 DEF Winners
<1>8. ASSUME NEW i \in Bytes, top_rated[i] # NoEntry
      PROVE  top_rated'[i] # NoEntry /\ WinnerFav(i)' <= WinnerFav(i)
  <2>1. CASE top_rated'[i] = top_rated[i]
    <3>1. PICK p \in Entries \ {q} : p = top_rated[i]
      BY <1>0, <1>5, <1>8
    <3>2. /\ exec_us'[p] = exec_us[p] /\ len'[p] = len[p]
          /\ exec_us[p] * len[p] \in Nat
      BY <1>1 DEF IInv, Fields
    <3> QED
      BY <2>1, <3>1, <3>2, <1>8 DEF WinnerFav, Fav, Factor
  <2>2. CASE top_rated'[i] = q /\ Factor(exec_us'[q], l) <= Fav(top_rated[i])
    BY <2>2, <1>0 DEF WinnerFav, Fav, Factor, l
  <2> QED
    BY <2>1, <2>2, <1>1, <1>8
<1>9. Improves
  BY <1>8 DEF Improves
<1> QED
  BY <1>1, <1>2, <1>3, <1>4, <1>7, <1>9 DEF Kept

(* A seed that is given up owns no byte, and is never measured.            *)
LEMMA GiveUpKeeps ==
  ASSUME IInv, Places', NEW runs \in Calibrations, GiveUpSeed(runs)
  PROVE  Kept
<1>1. /\ queue_cur \in Queued /\ queue_cur \in Entries /\ Waiting(queue_cur)
      /\ queued_paths' = queued_paths /\ Queued \subseteq Entries /\ Queued \subseteq Nat
      /\ queued_paths = Seeds
  BY QueueAssumption DEF GiveUpSeed, IInv, Places, Queued, Entries, Waiting
<1>2. /\ cal_failed' = [cal_failed EXCEPT ![queue_cur] = CalChances]
      /\ UNCHANGED <<len, exec_us, trace_mini, tc_ref, top_rated>>
      /\ CalChances \in Nat \ {0}
  BY QueueAssumption DEF GiveUpSeed, scores
<1>3. /\ exec_cksum' \in [Entries -> SUBSET Bytes]
      /\ \A p \in Entries \ {queue_cur} : exec_cksum'[p] = exec_cksum[p]
  <2>1. runs # <<>> => Len(runs) > 0
    <3>1. PICK n \in 0..CalRuns : runs \in [1..n -> Traces]
      BY DEF Calibrations
    <3>2. runs \in Seq(Traces)
      BY <3>1, QueueAssumption
    <3> QED
      BY <3>2, EmptySeq, LenProperties
  <2>2. runs # <<>> => runs[1] \in SUBSET Bytes
    <3>1. runs # <<>> => runs[1] \in Traces
      BY <2>1, RunsOfCalibration
    <3> QED
      BY <3>1 DEF Traces
  <2>3. exec_cksum' = [exec_cksum EXCEPT ![queue_cur] = IF runs = <<>> THEN None ELSE runs[1]]
    BY DEF GiveUpSeed
  <2> QED
    BY <1>1, <2>2, <2>3 DEF IInv, Fields, None
<1>4. Fields' /\ Slots'
  <2>1. Fields'
    BY <1>1, <1>2, <1>3 DEF IInv, Fields
  <2> QED
    BY <2>1, <1>1, <1>2 DEF IInv, Slots, Queued
<1>5. RefCounts'
  BY <1>2 DEF IInv, RefCounts, Owned
<1>6. \A p \in Queued' : p \in Queued /\ (~Waiting(p) => ~Waiting(p)')
  BY <1>1 DEF GiveUpSeed, Waiting, Queued
<1>7. \A p \in Queued : p # queue_cur /\ ~Waiting(p)' => ~Waiting(p)
  <2>1. CASE queue_cur < Seeds
    BY <2>1, <1>1, QueueAssumption DEF GiveUpSeed, Waiting
  <2>2. CASE ~(queue_cur < Seeds)
    BY <2>2, <1>1, QueueAssumption DEF Waiting, Queued
  <2> QED
    BY <2>1, <2>2
<1>8. Measured'
  <2>1. ASSUME NEW p \in Queued', ~Waiting(p)', cal_failed'[p] = 0
        PROVE  Calibrated(p)'
    <3>1. p \in Queued /\ p \in Entries /\ p # queue_cur
      BY <2>1, <1>1, <1>2, <1>6 DEF IInv, Fields
    <3>2. cal_failed[p] = 0 /\ ~Waiting(p)
      BY <2>1, <3>1, <1>2, <1>7 DEF IInv, Fields
    <3> QED
      BY <3>1, <3>2, <1>2, <1>3 DEF IInv, Measured, Calibrated
  <2> QED
    BY <2>1 DEF Measured
<1>9. Winners'
  <2>1. ASSUME NEW i \in Bytes, NEW p \in Queued', top_rated'[i] = p
        PROVE  cal_failed'[p] = 0 /\ Calibrated(p)' /\ ~Waiting(p)'
    <3>1. p \in Queued /\ p \in Entries /\ cal_failed[p] = 0 /\ Calibrated(p) /\ ~Waiting(p)
      BY <2>1, <1>1, <1>2, <1>6 DEF IInv, Winners
    <3>2. p # queue_cur
      BY <3>1, <1>1
    <3> QED
      BY <3>1, <3>2, <1>2, <1>3, <1>6 DEF IInv, Fields, Calibrated
  <2> QED
    BY <2>1 DEF Winners
<1>10. Improves
  <2>1. ASSUME NEW i \in Bytes, top_rated[i] # NoEntry
        PROVE  WinnerFav(i)' = WinnerFav(i) /\ WinnerFav(i) \in Nat
    <3>1. top_rated[i] \in Entries
      BY <2>1, <1>1 DEF IInv, Slots
    <3>2. exec_us[top_rated[i]] \in Nat /\ len[top_rated[i]] \in Nat
      BY <3>1 DEF IInv, Fields
    <3> QED
      BY <3>2, <1>2 DEF WinnerFav, Fav, Factor
  <2> QED
    BY <2>1, <1>2 DEF Improves
<1> QED
  BY <1>4, <1>5, <1>8, <1>9, <1>10 DEF Kept

(* A trimmed entry is at most as large as before, whether it is scored     *)
(* again or the trimming is cut short.                                     *)
LEMMA ShrunkWinners ==
  ASSUME IInv, NEW q \in Queued, pc = "trim", pc' # "dry_run", NEW l \in Nat, l <= len[q],
         len' = [len EXCEPT ![q] = l],
         UNCHANGED <<queued_paths, measures>>,
         Slots', RefCounts', cal_failed[q] = 0,
         \A i \in Bytes :
           \/ top_rated'[i] = top_rated[i]
           \/ /\ top_rated'[i] = q
              /\ top_rated[i] = NoEntry \/ Factor(exec_us[q], l) <= Fav(top_rated[i])
  PROVE  Kept
<1> USE DEF measures
<1>1. q \in Entries /\ Queued \subseteq Entries /\ q # NoEntry /\ Queued' = Queued
  BY QueueAssumption DEF IInv, Places, Queued, Entries, NoEntry
<1>2. Fields'
  BY <1>1 DEF IInv, Fields
<1>3. \A p \in Queued : ~Waiting(p) /\ ~Waiting(p)'
  BY DEF Waiting
<1>4. Measured'
  BY <1>1, <1>3 DEF IInv, Measured, Calibrated
<1>5. Calibrated(q)
  BY <1>3 DEF IInv, Measured
<1>6. Winners'
  <2>1. ASSUME NEW i \in Bytes, NEW p \in Queued, top_rated'[i] = p
        PROVE  cal_failed[p] = 0 /\ Calibrated(p)
    BY <2>1, <1>5 DEF IInv, Winners
  <2> QED
    BY <2>1, <1>1, <1>3 DEF Winners, Calibrated
<1>7. ASSUME NEW i \in Bytes, top_rated[i] # NoEntry
      PROVE  top_rated'[i] # NoEntry /\ WinnerFav(i)' <= WinnerFav(i)
  <2>1. PICK p \in Entries : p = top_rated[i]
    BY <1>1, <1>7 DEF IInv, Slots
  <2>2. exec_us[p] \in Nat /\ len[p] \in Nat /\ exec_us[q] \in Nat /\ len[q] \in Nat
    BY <1>1, <2>1 DEF IInv, Fields
  <2>3. CASE top_rated'[i] = top_rated[i]
    <3>1. len'[p] \in Nat /\ len'[p] <= len[p]
      BY <1>1, <2>1, <2>2 DEF IInv, Fields
    <3>2. exec_us[p] * len'[p] <= exec_us[p] * len[p]
      BY <3>1, <2>2, Monotone
    <3> QED
      BY <3>2, <2>1, <2>3, <1>7 DEF WinnerFav, Fav, Factor
  <2>4. CASE top_rated'[i] = q /\ Factor(exec_us[q], l) <= Fav(top_rated[i])
    BY <2>4, <1>1 DEF WinnerFav, Fav, Factor, IInv, Fields
  <2> QED
    BY <2>3, <2>4, <1>7
<1>8. Improves
  BY <1>7 DEF Improves
<1> QED
  BY <1>2, <1>4, <1>6, <1>8 DEF Kept

LEMMA TrimKeeps ==
  ASSUME IInv, NEW l \in Lens, Trim(l) \/ AbortTrim(l)
  PROVE  Kept
<1>1. /\ queue_cur \in Queued /\ queue_cur \in Entries /\ pc = "trim"
      /\ Queued \subseteq Entries /\ queued_paths' = queued_paths
  BY QueueAssumption DEF Trim, AbortTrim, IInv, Places, Queued, Entries
<1>2. /\ l \in Nat /\ l < len[queue_cur] /\ l <= len[queue_cur]
      /\ len' = [len EXCEPT ![queue_cur] = l]
  BY <1>1, QueueAssumption DEF Trim, AbortTrim, IInv, Fields
<1>3. cal_failed[queue_cur] = 0 /\ Calibrated(queue_cur)
  BY <1>1 DEF IInv, Chances, Measured, Waiting
<1>4. pc' # "dry_run" /\ UNCHANGED <<queued_paths, measures>>
  BY DEF Trim, AbortTrim
<1>5. CASE Trim(l)
  <2>1. /\ exec_us[queue_cur] \in Nat /\ exec_cksum[queue_cur] \in Traces
    BY <1>1, <1>3 DEF IInv, Fields, Calibrated, Traces, None
  <2>2. Factor(exec_us[queue_cur], l) \in Nat
    BY <1>2, <2>1 DEF Factor
  <2>3. UpdateBitmapScore(queue_cur, Factor(exec_us[queue_cur], l), exec_cksum[queue_cur])
    BY <1>5 DEF Trim
  <2>4. /\ RefCounts' /\ trace_mini' \in [Entries -> SUBSET Bytes] /\ tc_ref' \in [Entries -> Nat]
        /\ top_rated' = [i \in Bytes |->
             IF i \in Won(Factor(exec_us[queue_cur], l), exec_cksum[queue_cur])
             THEN queue_cur ELSE top_rated[i]]
    BY <1>1, <2>1, <2>2, <2>3, ScoreRefCounts DEF IInv
  <2>5. Slots'
    BY <1>1, <2>4 DEF IInv, Slots, Queued
  <2>6. \A i \in Bytes :
          \/ top_rated'[i] = top_rated[i]
          \/ /\ top_rated'[i] = queue_cur
             /\ top_rated[i] = NoEntry \/ Factor(exec_us[queue_cur], l) <= Fav(top_rated[i])
    BY <2>4 DEF Won
  <2> QED
    BY <1>1, <1>2, <1>3, <1>4, <2>4, <2>5, <2>6, ShrunkWinners
<1>6. CASE AbortTrim(l)
  <2>1. UNCHANGED <<trace_mini, tc_ref, top_rated>>
    BY <1>6 DEF AbortTrim, scores
  <2>2. Slots' /\ RefCounts'
    BY <1>1, <2>1 DEF IInv, Slots, RefCounts, Owned, Queued
  <2> QED
    BY <1>1, <1>2, <1>3, <1>4, <2>1, <2>2, ShrunkWinners
<1> QED
  BY <1>5, <1>6

(* The entry a calibrating step works on owns no byte yet.                 *)
LEMMA WaitingOwnsNothing ==
  ASSUME IInv, NEW q \in Nat \ {NoEntry}, q \in Queued => Waiting(q) \/ cal_failed[q] # 0
  PROVE  Owned(q) = {}
<1> SUFFICES ASSUME NEW i \in Bytes, top_rated[i] = q PROVE FALSE
  BY DEF Owned
<1>1. q \in Queued
  BY DEF IInv, Slots
<1>2. cal_failed[q] = 0 /\ ~Waiting(q)
  BY <1>1 DEF IInv, Winners
<1> QED
  BY <1>1, <1>2

LEMMA CalibratingSteps ==
  ASSUME IInv, Places', NEW runs \in Calibrations, NEW us \in Times
  PROVE  /\ DryRun(runs, us) => Kept
         /\ \A new_counts \in BOOLEAN : Recalibrate(runs, us, new_counts) =>
              Kept /\ (Len(runs) = CalRuns <=> cal_failed'[queue_cur] = 0)
         /\ \A trace \in Traces, new_state \in BOOLEAN, l \in Lens :
              Save(trace, new_state, l, runs, us) => Kept
<1>1. /\ Queued \subseteq Entries /\ Entries \subseteq Nat \ {NoEntry} /\ Queued \subseteq Nat
      /\ queued_paths \in Nat
  BY QueueAssumption DEF IInv, Places, Queued, Entries, NoEntry
<1>2. ASSUME DryRun(runs, us)
      PROVE  Kept
  <2>0. PICK q \in Queued : q = queue_cur
    BY <1>2 DEF DryRun, IInv, Places
  <2>1. /\ q \in Queued /\ q \in Entries /\ Waiting(q)
        /\ queued_paths' = queued_paths /\ Queued' = Queued /\ len' = len
        /\ queued_paths = Seeds
    BY <1>1, <1>2, <2>0 DEF DryRun, IInv, Places, Queued, Waiting
  <2>2. Calibrate(q, None, runs, us, len'[q]) /\ None \in SUBSET Bytes
    BY <1>2, <2>0, <2>1 DEF DryRun, None
  <2>3. ~Waiting(q)' /\ \A p \in Queued' \ {q} :
          p \in Queued /\ (Waiting(p)' => Waiting(p)) /\ (Waiting(p) => Waiting(p)')
    <3>1. CASE q < Seeds
      BY <3>1, <1>1, <1>2, <2>0, <2>1, QueueAssumption DEF DryRun, Waiting
    <3>2. CASE ~(q < Seeds)
      BY <3>2, <1>1, <1>2, <2>0, <2>1, QueueAssumption DEF DryRun, Waiting, Queued
    <3> QED
      BY <3>1, <3>2
  <2>4. Owned(q) = {}
    BY <1>1, <2>1, WaitingOwnsNothing
  <2>5. /\ q \in Queued' /\ Queued \subseteq Queued'
        /\ len' \in [Entries -> Nat] /\ \A p \in Entries \ {q} : len'[p] = len[p]
    BY <2>1 DEF IInv, Fields
  <2> QED
    BY <2>1, <2>2, <2>3, <2>4, <2>5, CalibrationKeeps
<1>3. ASSUME NEW new_counts \in BOOLEAN, Recalibrate(runs, us, new_counts)
      PROVE  Kept /\ (Len(runs) = CalRuns <=> cal_failed'[queue_cur] = 0)
  <2>0. PICK q \in Queued : q = queue_cur
    BY <1>3 DEF Recalibrate, IInv, Places
  <2>1. /\ q \in Queued /\ q \in Entries /\ cal_failed[q] # 0
        /\ queued_paths' = queued_paths /\ Queued' = Queued /\ len' = len
        /\ pc = "calibrate" /\ pc' # "dry_run"
    BY <1>1, <1>3, <2>0 DEF Recalibrate, IInv, Places, Chances, Queued
  <2>2. Calibrate(q, None, runs, us, len'[q]) /\ None \in SUBSET Bytes
    BY <1>3, <2>0, <2>1 DEF Recalibrate, None
  <2>3. ~Waiting(q)' /\ \A p \in Queued' \ {q} :
          p \in Queued /\ (Waiting(p)' => Waiting(p)) /\ (Waiting(p) => Waiting(p)')
    BY <2>1 DEF Waiting
  <2>4. Owned(q) = {}
    BY <1>1, <2>1, WaitingOwnsNothing
  <2>5. /\ q \in Queued' /\ Queued \subseteq Queued'
        /\ len' \in [Entries -> Nat] /\ \A p \in Entries \ {q} : len'[p] = len[p]
    BY <2>1 DEF IInv, Fields
  <2> QED
    BY <2>0, <2>1, <2>2, <2>3, <2>4, <2>5, CalibrationKeeps
<1>4. ASSUME NEW trace \in Traces, NEW new_state \in BOOLEAN, NEW l \in Lens,
             Save(trace, new_state, l, runs, us)
      PROVE  Kept
  <2>0. PICK q \in Nat : q = queued_paths + 1
    BY <1>1
  <2>1. /\ q \in Queued' /\ q \in Nat \ {NoEntry} /\ q \notin Queued /\ q \in Entries
        /\ Queued' = Queued \cup {q} /\ Queued \subseteq Queued' /\ pc = "fuzz" /\ pc' = "fuzz" /\ l \in Nat
    BY <1>1, <1>4, <2>0, QueueAssumption DEF Save, Queued, Entries, NoEntry
  <2>2. /\ len' = [len EXCEPT ![q] = l] /\ Calibrate(q, trace, runs, us, l)
    BY <1>4, <2>0 DEF Save
  <2>3. len' \in [Entries -> Nat] /\ len'[q] = l /\ \A p \in Entries \ {q} : len'[p] = len[p]
    BY <2>1, <2>2 DEF IInv, Fields
  <2>4. ~Waiting(q)' /\ \A p \in Queued' \ {q} :
          p \in Queued /\ (Waiting(p)' => Waiting(p)) /\ (Waiting(p) => Waiting(p)')
    BY <2>1 DEF Waiting
  <2>5. Owned(q) = {}
    BY <2>1, WaitingOwnsNothing
  <2>6. trace \in SUBSET Bytes
    BY DEF Traces
  <2> QED
    BY <2>1, <2>2, <2>3, <2>4, <2>5, <2>6, CalibrationKeeps
<1> QED
  BY <1>2, <1>3, <1>4

-----------------------------------------------------------------------------
(* The invariant. *)

LEMMA InitInv == Init => IInv
<1> SUFFICES ASSUME Init PROVE IInv
  OBVIOUS
<1>1. /\ 1 \in Entries /\ Seeds \in Entries /\ 1 \in Queued /\ Lens \subseteq Nat
      /\ NoEntry \notin Entries
  BY QueueAssumption DEF Init, Entries, Queued, NoEntry
<1>2. Places /\ Chances
  BY <1>1 DEF Init, Places, Chances
<1>3. len \in [Entries -> Nat]
  <2>1. Lens \cup {0} \subseteq Nat
    BY <1>1
  <2> QED
    BY <2>1 DEF Init
<1>4. Fields
  BY <1>3 DEF Init, Fields, None
<1>5. Slots
  BY DEF Init, Slots, None
<1>6. Measured
  BY QueueAssumption DEF Init, Measured, Waiting, Queued
<1>7. Winners
  BY DEF Init, Winners, Queued, NoEntry
<1>8. RefCounts
  <2>1. \A p \in Entries : Owned(p) = {}
    BY <1>1 DEF Init, Owned
  <2> QED
    BY <2>1, FS_EmptySet DEF Init, RefCounts
<1> QED
  BY <1>2, <1>4, <1>5, <1>6, <1>7, <1>8 DEF IInv

LEMMA StepPlaces == IInv /\ [Next]_vars => Places'
<1> SUFFICES ASSUME IInv, [Next]_vars PROVE Places'
  OBVIOUS
<1> USE DEF Places, Queued, Entries, NoEntry
<1>0. /\ queued_paths \in 1..MaxEntries /\ queue_cur \in 0..queued_paths
      /\ MaxEntries \in Nat /\ Seeds \in 1..MaxEntries
      /\ pc \notin {"main", "stopped"} => queue_cur \in 1..queued_paths
      /\ pc = "dry_run" => queued_paths = Seeds
  BY QueueAssumption DEF IInv
<1>1. CASE DryRuns
  BY <1>0, <1>1 DEF DryRuns, DryRun
<1>2. CASE GivenUpSeeds
  BY <1>0, <1>2 DEF GivenUpSeeds, GiveUpSeed
<1>3. CASE NextEntry
  BY <1>0, <1>3 DEF NextEntry
<1>4. CASE Skip \/ Abandon
  BY <1>0, <1>4 DEF Skip, Abandon, Advance
<1>5. CASE Enter \/ TrimNothing \/ StagesEnd
  BY <1>0, <1>5 DEF Enter, TrimNothing, StagesEnd
<1>6. CASE Recalibrations
  BY <1>0, <1>6 DEF Recalibrations, Recalibrate
<1>7. CASE Trims
  BY <1>0, <1>7 DEF Trims, Trim, AbortTrim
<1>8. CASE Saves
  BY <1>0, <1>8 DEF Saves, Save
<1>9. CASE Interrupt
  BY <1>0, <1>9 DEF Interrupt
<1>10. CASE UNCHANGED vars
  BY <1>0, <1>10 DEF vars
<1> QED
  BY <1>1, <1>2, <1>3, <1>4, <1>5, <1>6, <1>7, <1>8, <1>9, <1>10 DEF Next, Step

LEMMA StepInv == IInv /\ [Next]_vars => IInv' /\ Improves
<1> SUFFICES ASSUME IInv, [Next]_vars PROVE Kept /\ Chances'
  BY StepPlaces DEF IInv, Kept
<1>0. Places'
  BY StepPlaces
<1>1. CASE DryRuns
  <2>1. Chances'
    BY <1>1 DEF DryRuns, DryRun, Chances
  <2> QED
    BY <2>1, <1>0, <1>1, CalibratingSteps DEF DryRuns
<1>2. CASE GivenUpSeeds
  <2>1. Chances'
    BY <1>2 DEF GivenUpSeeds, GiveUpSeed, Chances
  <2> QED
    BY <2>1, <1>0, <1>2, GiveUpKeeps DEF GivenUpSeeds
<1>3. CASE NextEntry
  <2>1. Chances' /\ pc # "dry_run" /\ pc' # "dry_run"
    BY <1>3 DEF NextEntry, Chances
  <2> QED
    BY <2>1, <1>3, QuietStep DEF NextEntry
<1>4. CASE Skip \/ Abandon \/ StagesEnd
  <2>1. Chances' /\ pc # "dry_run" /\ pc' # "dry_run"
    BY <1>4 DEF Skip, Abandon, StagesEnd, Chances
  <2>2. UNCHANGED <<queued_paths, len, measures, trace_mini, tc_ref, top_rated>>
    BY <1>4 DEF Skip, Abandon, StagesEnd, scores
  <2> QED
    BY <2>1, <2>2, QuietStep
<1>5. CASE Enter \/ TrimNothing
  <2>1. Chances' /\ pc # "dry_run" /\ pc' # "dry_run"
    BY <1>5 DEF Enter, TrimNothing, Chances, measures
  <2>2. UNCHANGED <<queued_paths, len, measures, trace_mini, tc_ref, top_rated>>
    BY <1>5 DEF Enter, TrimNothing, scores
  <2> QED
    BY <2>1, <2>2, QuietStep
<1>6. CASE Recalibrations
  <2>1. PICK runs \in Calibrations, us \in Times, new_counts \in BOOLEAN :
          Recalibrate(runs, us, new_counts)
    BY <1>6 DEF Recalibrations
  <2>2. Kept /\ (Len(runs) = CalRuns <=> cal_failed'[queue_cur] = 0)
    BY <1>0, <2>1, CalibratingSteps
  <2>3. Len(runs) \in Nat /\ Len(runs) <= CalRuns /\ CalRuns \in Nat
    BY RunsOfCalibration, QueueAssumption
  <2>4. pc' # "calibrate" /\ (pc' = "trim" => ~(Len(runs) < CalRuns)) /\ queue_cur' = queue_cur
    BY <2>1 DEF Recalibrate
  <2> QED
    BY <2>2, <2>3, <2>4 DEF Chances
<1>7. CASE Trims
  <2>1. Chances'
    BY <1>7 DEF Trims, Trim, AbortTrim, Chances
  <2> QED
    BY <2>1, <1>7, TrimKeeps DEF Trims
<1>8. CASE Saves
  <2>1. Chances'
    BY <1>8 DEF Saves, Save, Chances
  <2> QED
    BY <2>1, <1>0, <1>8, CalibratingSteps DEF Saves
<1>9. CASE Interrupt
  <2>1. Chances' /\ pc # "dry_run" /\ pc' # "dry_run"
    BY <1>9 DEF Interrupt, IInv, Chances, measures
  <2>2. UNCHANGED <<queued_paths, len, measures, trace_mini, tc_ref, top_rated>>
    BY <1>9 DEF Interrupt, scores
  <2> QED
    BY <2>1, <2>2, QuietStep
<1>10. CASE UNCHANGED vars
  <2>1. /\ Fields' /\ Slots' /\ Measured' /\ Winners' /\ RefCounts' /\ Chances'
    BY <1>10 DEF vars, measures, scores, IInv, Fields, Slots, Measured, Winners, RefCounts, Chances,
              Waiting, Calibrated, Queued, Owned
  <2>2. Improves
    <3>1. ASSUME NEW i \in Bytes, top_rated[i] # NoEntry
          PROVE  WinnerFav(i)' = WinnerFav(i) /\ WinnerFav(i) \in Nat
      <4>1. top_rated[i] \in Entries
        BY <3>1, QueueAssumption DEF IInv, Places, Slots, Queued, Entries
      <4>2. exec_us[top_rated[i]] \in Nat /\ len[top_rated[i]] \in Nat
        BY <4>1 DEF IInv, Fields
      <4> QED
        BY <4>2, <1>10 DEF vars, measures, scores, WinnerFav, Fav, Factor
    <3> QED
      BY <3>1, <1>10 DEF Improves, vars, scores
  <2> QED
    BY <2>1, <2>2 DEF Kept
<1> QED
  BY <1>1, <1>2, <1>3, <1>4, <1>5, <1>6, <1>7, <1>8, <1>9, <1>10 DEF Next, Step

THEOREM InvHolds == Spec => []IInv
<1>1. IInv /\ [Next]_vars => IInv'
  BY StepInv
<1> QED
  BY InitInv, <1>1, PTL DEF Spec

(* The reference counts and the trace_mini of every entry agree with the   *)
(* bytes it owns, for maps and queues of any size.                         *)
THEOREM RefCountsHold == Spec => []RefCounts
<1>1. IInv => RefCounts
  BY DEF IInv
<1> QED
  BY InvHolds, <1>1, PTL

(* Every winner has completed a calibration.                               *)
THEOREM WinnersCalibratedHold == Spec => []WinnersCalibrated
<1>1. IInv => WinnersCalibrated
  BY DEF IInv, Slots, Winners, Calibrated, WinnersCalibrated
<1> QED
  BY InvHolds, <1>1, PTL

(* No step makes the winner of a byte slower or larger, or loses it.       *)
THEOREM WinnersOnlyImproveHold == Spec => WinnersOnlyImprove
<1>1. IInv /\ [Next]_vars => [\A i \in Bytes : top_rated[i] # NoEntry =>
        top_rated'[i] # NoEntry /\ WinnerFav(i)' <= WinnerFav(i)]_vars
  BY StepInv DEF Improves
<1> QED
  BY InvHolds, <1>1, PTL DEF Spec, WinnersOnlyImprove

-----------------------------------------------------------------------------
(* The flags and the counters.  An entry that has not been fuzzed has all  *)
(* it owns in its trace_mini, but for the one that may just be trimmed:    *)
(* that one is fuzzed before the next cull, or the session ends.           *)
Unused == \A p \in Entries : p > queued_paths => ~favored[p] /\ ~was_fuzzed[p] /\ cal_failed[p] = 0
Retried == pc = "calibrate" => cal_failed[queue_cur] < CalChances
FullTraces ==
  \A p \in Queued : ~was_fuzzed[p] =>
    \/ Owned(p) \subseteq trace_mini[p]
    \/ p = queue_cur /\ pc \in {"fuzz", "skipped", "fuzzed"}
    \/ pc = "stopped"

Exact == TypeOK /\ Unused /\ Retried /\ FullTraces /\ FavoredCover /\ Counters

(* The rest of TypeOK: where main stands, the flags, and fields that hold  *)
(* lengths, times and counts of failures the code gave them.               *)
Typed ==
  /\ PlaceTypes /\ FlagTypes /\ FieldTypes /\ seen \subseteq Bytes /\ queued_favored \in 0..MapSize

LEMMA SetsOfEntries ==
  ASSUME NEW S \in SUBSET Queued, IInv
  PROVE  /\ IsFiniteSet(S) /\ Cardinality(S) \in 0..queued_paths
         /\ Cardinality(S) = 0 <=> S = {}
<1>1. queued_paths \in Nat /\ queued_paths \in Int /\ 1 \in Int
  BY QueueAssumption DEF IInv, Places, Entries
<1>2. IsFiniteSet(Queued) /\ Cardinality(Queued) = queued_paths
  BY <1>1, FS_Interval DEF Queued
<1>3. IsFiniteSet(S) /\ Cardinality(S) <= queued_paths
  BY <1>2, FS_Subset
<1>4. Cardinality(S) \in Nat
  BY <1>3, FS_CardinalityType
<1>5. Cardinality(S) = 0 <=> S = {}
  BY <1>3, FS_EmptySet
<1> QED
  BY <1>1, <1>3, <1>4, <1>5

(* What the exact counters and the reference counts say of the ranges.     *)
LEMMA RangesFollow ==
  ASSUME IInv, Typed, Counters
  PROVE  TypeOK
<1>1. ScoreTypes
  <2>1. \A p \in Entries : tc_ref[p] \in 0..MapSize
    <3>1. ASSUME NEW p \in Entries
          PROVE  tc_ref[p] \in 0..MapSize
      <4>1. Owned(p) \in SUBSET Bytes /\ tc_ref[p] = Cardinality(Owned(p))
        BY DEF Owned, IInv, RefCounts
      <4>2. IsFiniteSet(Bytes) /\ Cardinality(Bytes) = MapSize
        BY FS_Interval, QueueAssumption DEF Bytes
      <4>3. Cardinality(Owned(p)) <= MapSize
        BY <4>1, <4>2, FS_Subset
      <4>4. Cardinality(Owned(p)) \in Nat
        BY <4>1, SetsOfBytes
      <4> QED
        BY <4>1, <4>3, <4>4, QueueAssumption
    <3> QED
      BY <3>1
  <2> QED
    BY <2>1 DEF IInv, Slots, Typed, ScoreTypes
<1>2. CounterTypes
  <2>1. PendingFavored \in SUBSET Queued /\ {p \in Queued : ~was_fuzzed[p]} \in SUBSET Queued
        /\ {p \in Queued : favored[p]} \in SUBSET Queued
    BY DEF PendingFavored
  <2>2. /\ Cardinality(PendingFavored) \in 0..queued_paths
        /\ Cardinality({p \in Queued : ~was_fuzzed[p]}) \in 0..queued_paths
        /\ Cardinality({p \in Queued : favored[p]}) \in 0..queued_paths
        /\ IsFiniteSet({p \in Queued : favored[p]})
    BY <2>1, SetsOfEntries
  <2>3. PendingFavored \in SUBSET {p \in Queued : favored[p]}
    BY DEF PendingFavored
  <2>4. Cardinality(PendingFavored) <= Cardinality({p \in Queued : favored[p]})
    BY <2>2, <2>3, FS_Subset
  <2>5. queued_paths \in Nat /\ MapSize \in Nat /\ queued_favored \in 0..MapSize
    BY QueueAssumption DEF IInv, Places, Entries, Typed
  <2> QED
    BY <2>2, <2>4, <2>5 DEF Counters, CounterTypes
<1> QED
  BY <1>1, <1>2 DEF Typed, TypeOK

-----------------------------------------------------------------------------
(* Culling.  The bytes it visits have as many winners as there are entries *)
(* made favored, or more: an entry that waits to be fuzzed is visited      *)
(* once, because its trace_mini holds every other byte it owns.            *)
LEMMA CullCovers ==
  ASSUME NEW visited \in SUBSET Rated, Visits(visited), favored' = CullFlags(visited),
         UNCHANGED <<queued_paths, trace_mini, top_rated>>, IInv
  PROVE  FavoredCover'
<1> SUFFICES ASSUME NEW i \in Bytes, top_rated[i] # NoEntry
             PROVE  \E p \in Queued' : favored'[p] /\ (i \in trace_mini[p] \/ top_rated[i] = p)
  BY DEF FavoredCover
<1>1. /\ Queued' = Queued /\ Queued \subseteq Entries
      /\ \A j \in Rated : top_rated[j] \in Queued /\ j \in Bytes
  BY QueueAssumption DEF Rated, Queued, IInv, Slots, Places, Entries
<1>2. CASE i \in visited
  <2>1. top_rated[i] \in Queued /\ top_rated[i] \in Entries
    BY <1>1, <1>2
  <2>2. favored'[top_rated[i]]
    BY <1>2, <2>1 DEF CullFlags
  <2> QED
    BY <1>1, <2>1, <2>2
<1>3. CASE i \notin visited
  <2>1. i \in Rated
    BY DEF Rated
  <2>2. PICK j \in visited : i \in trace_mini[top_rated[j]]
    BY <1>3, <2>1 DEF Visits
  <2>3. top_rated[j] \in Queued /\ top_rated[j] \in Entries
    BY <1>1
  <2>4. favored'[top_rated[j]]
    BY <2>3 DEF CullFlags
  <2> QED
    BY <1>1, <2>2, <2>3, <2>4
<1> QED
  BY <1>2, <1>3

LEMMA VisitsOnce ==
  ASSUME NEW visited \in SUBSET Rated, Visits(visited), IInv, FullTraces, pc = "main",
         NEW i \in visited, NEW j \in visited, top_rated[i] = top_rated[j], PendingAt(i)
  PROVE  i = j
<1>1. ASSUME NEW a \in visited, NEW b \in visited, a < b, top_rated[a] = top_rated[b],
             ~was_fuzzed[top_rated[a]]
      PROVE  FALSE
  <2>1. b \in Bytes /\ top_rated[a] \in Queued
    BY DEF Rated, IInv, Slots
  <2>2. PICK p \in Queued : p = top_rated[a]
    BY <2>1
  <2>3. b \in Owned(p)
    BY <1>1, <2>1, <2>2 DEF Owned
  <2>4. Owned(p) \subseteq trace_mini[p]
    BY <1>1, <2>2 DEF FullTraces
  <2>5. b \notin trace_mini[top_rated[a]]
    BY <1>1 DEF Visits
  <2> QED
    BY <2>2, <2>3, <2>4, <2>5
<1>2. i \in Nat /\ j \in Nat /\ ~was_fuzzed[top_rated[i]] /\ ~was_fuzzed[top_rated[j]]
  BY QueueAssumption DEF Rated, Bytes, PendingAt
<1>3. ~(i < j) /\ ~(j < i)
  BY <1>1, <1>2
<1> QED
  BY <1>2, <1>3

LEMMA CullCounts ==
  ASSUME NEW visited \in SUBSET Rated, Visits(visited), favored' = CullFlags(visited),
         UNCHANGED <<queued_paths, top_rated, was_fuzzed>>, IInv, FullTraces, pc = "main"
  PROVE  /\ Cardinality(visited) \in 0..MapSize
         /\ Cardinality({i \in visited : PendingAt(i)}) = Cardinality(PendingFavored')
         /\ Cardinality(visited) >= Cardinality({p \in Queued' : favored'[p]})
<1> DEFINE pend == {i \in visited : PendingAt(i)}
           F == {p \in Queued' : favored'[p]}
           P == PendingFavored'
           f == [i \in visited |-> top_rated[i]]
           g == [i \in pend |-> top_rated[i]]
<1>1. /\ visited \in SUBSET Bytes /\ pend \in SUBSET visited
      /\ Queued' = Queued /\ Queued \subseteq Entries
      /\ \A i \in visited : top_rated[i] \in Queued
      /\ \A p \in Entries : favored'[p] <=> \E i \in visited : top_rated[i] = p
  BY QueueAssumption DEF Rated, Queued, IInv, Slots, Places, Entries, CullFlags
<1>2. IsFiniteSet(Bytes) /\ Cardinality(Bytes) = MapSize /\ MapSize \in Nat
  BY FS_Interval, QueueAssumption DEF Bytes
<1>3. /\ IsFiniteSet(visited) /\ Cardinality(visited) \in Nat /\ Cardinality(visited) <= MapSize
      /\ IsFiniteSet(pend)
  BY <1>1, <1>2, FS_Subset, FS_CardinalityType
<1>4. f \in Surjection(visited, F)
  <2>1. f \in [visited -> F]
    BY <1>1
  <2>2. \A p \in F : \E i \in visited : f[i] = p
    BY <1>1
  <2> HIDE DEF f, F
  <2> QED
    BY <2>1, <2>2, Fun_IsSurj
<1>5. g \in Bijection(pend, P)
  <2>1. g \in [pend -> P]
    BY <1>1 DEF PendingFavored, PendingAt
  <2>2. \A p \in P : \E i \in pend : g[i] = p
    BY <1>1 DEF PendingFavored, PendingAt
  <2>3. \A i, j \in pend : g[i] = g[j] => i = j
    BY VisitsOnce
  <2> HIDE DEF g, P, pend
  <2>4. g \in Injection(pend, P) /\ g \in Surjection(pend, P)
    BY <2>1, <2>2, <2>3, Fun_IsInj, Fun_IsSurj
  <2> QED
    BY <2>4 DEF Bijection
<1> HIDE DEF f, g, F, P, pend
<1>6. Cardinality(F) <= Cardinality(visited)
  BY <1>3, <1>4, FS_Surjection
<1>7. Cardinality(P) = Cardinality(pend)
  BY <1>3, <1>5, FS_Bijection DEF ExistsBijection
<1>8. IsFiniteSet(F) /\ Cardinality(F) \in Nat
  BY <1>3, <1>4, FS_Surjection, FS_CardinalityType
<1>9. Cardinality(visited) >= Cardinality(F)
  BY <1>3, <1>6, <1>8
<1> QED
  BY <1>2, <1>3, <1>7, <1>9 DEF F, P, pend

-----------------------------------------------------------------------------
(* Scoring.  An entry that had all it owned in its trace_mini, or owned    *)
(* nothing, has it all there after update_bitmap_score too, for whichever  *)
(* entry that was called; and where it marks no change, nothing changed.   *)
LEMMA ScoreKeepsTraces ==
  ASSUME NEW q \in Entries, NEW f \in Nat, NEW trace \in Traces,
         Slots, RefCounts, score_changed \in BOOLEAN, UpdateBitmapScore(q, f, trace)
  PROVE  /\ \A p \in Entries \ {q} : Owned(p) \subseteq trace_mini[p] =>
              (Owned(p) \subseteq trace_mini[p])'
         /\ Owned(q) = {} => (Owned(q) \subseteq trace_mini[q])'
         /\ score_changed' \in BOOLEAN
         /\ ~score_changed' => ~score_changed /\ UNCHANGED <<trace_mini, top_rated>>
<1> DEFINE won == Won(f, trace)
           lost(p) == {i \in won : top_rated[i] = p}
<1>1. /\ top_rated' = [i \in Bytes |-> IF i \in won THEN q ELSE top_rated[i]]
      /\ trace_mini' = [p \in Entries |->
           IF p = q THEN IF won # {} /\ Rebuilt(p, won) THEN trace ELSE trace_mini[p]
                    ELSE IF lost(p) # {} /\ FreesTrace(p) THEN None ELSE trace_mini[p]]
      /\ score_changed' <=> (score_changed \/ won # {})
      /\ score_changed' = (score_changed \/ won # {})
  BY DEF UpdateBitmapScore
<1>2. won \subseteq trace /\ won \in SUBSET Bytes
  BY DEF Won, Traces
<1>3. RefCounts'
  BY ScoreRefCounts
<1> HIDE DEF won
<1>4. /\ \A i \in Bytes : top_rated'[i] = IF i \in won THEN q ELSE top_rated[i]
      /\ \A p \in Entries \ {q} : Owned(p)' \subseteq Owned(p)
      /\ Owned(q)' = Owned(q) \cup won
  BY <1>1, <1>2 DEF Owned
<1>5. ASSUME NEW p \in Entries \ {q}, Owned(p) \subseteq trace_mini[p]
      PROVE  (Owned(p) \subseteq trace_mini[p])'
  <2>1. CASE trace_mini'[p] = trace_mini[p]
    BY <2>1, <1>4, <1>5
  <2>2. CASE trace_mini'[p] # trace_mini[p]
    <3>1. FreesTrace(p)
      BY <2>2, <1>1
    <3>2. tc_ref'[p] = Cardinality(Owned(p)') /\ tc_ref'[p] = 0
      BY <3>1, <1>3 DEF FreesTrace, RefCounts
    <3>3. Owned(p)' \in SUBSET Bytes
      BY DEF Owned
    <3>4. Owned(p)' = {}
      BY <3>2, <3>3, SetsOfBytes
    <3> QED
      BY <3>4
  <2> QED
    BY <2>1, <2>2
<1>6. ASSUME Owned(q) = {}
      PROVE  (Owned(q) \subseteq trace_mini[q])'
  <2>1. tc_ref[q] = 0
    BY <1>6, FS_EmptySet DEF RefCounts
  <2>2. Owned(q)' = won
    BY <1>4, <1>6
  <2>3. won # {} => trace_mini'[q] = trace
    BY <1>1, <2>1 DEF Rebuilt
  <2> QED
    BY <1>2, <2>2, <2>3
<1>7. ~score_changed' => ~score_changed /\ UNCHANGED <<trace_mini, top_rated>>
  <2>1. SUFFICES ASSUME ~score_changed' PROVE ~score_changed /\ UNCHANGED <<trace_mini, top_rated>>
    OBVIOUS
  <2>2. ~score_changed /\ won = {}
    BY <1>1, <2>1
  <2>3. trace_mini' = trace_mini
    BY <1>1, <2>2 DEF Slots
  <2>4. top_rated' = top_rated
    BY <1>1, <2>2 DEF Slots
  <2> QED
    BY <2>2, <2>3, <2>4
<1>8. score_changed' \in BOOLEAN
  BY <1>1
<1> QED
  BY <1>5, <1>6, <1>7, <1>8

(* The cover after a step that keeps the favored entries, where it marks   *)
(* no change only if it made none.                                         *)
LEMMA CoverKept ==
  ASSUME FavoredCover, favored' = favored, Queued \subseteq Queued',
         ~score_changed' => ~score_changed /\ UNCHANGED <<trace_mini, top_rated>>
  PROVE  FavoredCover'
<1> SUFFICES ASSUME ~score_changed', NEW i \in Bytes, (top_rated[i] # NoEntry)'
             PROVE  (\E p \in Queued : favored[p] /\ (i \in trace_mini[p] \/ top_rated[i] = p))'
  BY DEF FavoredCover
<1>1. ~score_changed /\ trace_mini' = trace_mini /\ top_rated' = top_rated
  OBVIOUS
<1>2. PICK p \in Queued : favored[p] /\ (i \in trace_mini[p] \/ top_rated[i] = p)
  BY <1>1 DEF FavoredCover
<1> QED
  BY <1>1, <1>2

(* What a calibration does beside measuring: the bytes it has seen, and    *)
(* one failure more at most.                                               *)
LEMMA CalibrateMore ==
  ASSUME NEW q \in Entries, NEW known \in SUBSET Bytes, NEW runs \in Calibrations,
         NEW us \in Times, NEW l \in Nat, Slots, RefCounts, seen \subseteq Bytes,
         score_changed \in BOOLEAN, Calibrate(q, known, runs, us, l)
  PROVE  /\ seen' \subseteq Bytes /\ score_changed' \in BOOLEAN
         /\ exec_us' = [exec_us EXCEPT ![q] = us] \/ exec_us' = exec_us
         /\ \/ cal_failed' = [cal_failed EXCEPT ![q] = 0]
            \/ Len(runs) # CalRuns /\ cal_failed' = [cal_failed EXCEPT ![q] = @ + 1]
         /\ \A p \in Entries \ {q} : Owned(p) \subseteq trace_mini[p] =>
              (Owned(p) \subseteq trace_mini[p])'
         /\ Owned(q) = {} => (Owned(q) \subseteq trace_mini[q])'
         /\ ~score_changed' => ~score_changed /\ UNCHANGED <<trace_mini, top_rated>>
<1> USE DEF Calibrate
<1>1. /\ Len(runs) \in Nat /\ CalRuns \in Nat \ {0} /\ Times \subseteq Nat
      /\ \A k \in 1..Len(runs) : runs[k] \in Traces
  BY RunsOfCalibration, QueueAssumption
<1>2. seen' \subseteq Bytes
  <2>1. seen' = seen \cup known \cup UNION {runs[k] : k \in 1..Len(runs)}
    BY DEF CalibrateRuns
  <2>2. \A k \in 1..Len(runs) : runs[k] \subseteq Bytes
    BY <1>1 DEF Traces
  <2> QED
    BY <2>1, <2>2
<1>3. CASE Len(runs) = CalRuns
  <2>1. /\ cal_failed' = [cal_failed EXCEPT ![q] = 0] /\ exec_us' = [exec_us EXCEPT ![q] = us]
        /\ UpdateBitmapScore(q, Factor(us, l), runs[Len(runs)])
    BY <1>3 DEF CalibrateRuns
  <2>2. Factor(us, l) \in Nat /\ runs[Len(runs)] \in Traces
    BY <1>1, <1>3 DEF Factor
  <2> QED
    BY <1>2, <2>1, <2>2, ScoreKeepsTraces
<1>4. CASE Len(runs) # CalRuns
  <2>1. /\ cal_failed' = [cal_failed EXCEPT ![q] = @ + 1]
        /\ UNCHANGED <<exec_us, trace_mini, tc_ref, top_rated, score_changed>>
    BY <1>4 DEF CalibrateRuns, scores
  <2> QED
    BY <1>2, <1>4, <2>1 DEF Owned
<1> QED
  BY <1>3, <1>4

-----------------------------------------------------------------------------
(* What the steps make of Exact, but for its ranges: those follow from     *)
(* Typed and the counts.                                                   *)
Accounts == Unused /\ Retried /\ FullTraces /\ FavoredCover /\ Counters
Due == Typed' /\ Accounts'

(* A step that leaves the scores, the flags and the counters alone, and    *)
(* does not leave the entry it works on with a trace that is not full.     *)
LEMMA SameAccounts ==
  ASSUME IInv, Exact, pc' # "calibrate",
         UNCHANGED <<queued_paths, was_fuzzed, favored, trace_mini, top_rated, score_changed,
                     queued_favored, pending_favored, pending_not_fuzzed>>,
         \A p \in Entries : p > queued_paths => cal_failed'[p] = cal_failed[p],
         pc \in {"fuzz", "skipped", "fuzzed"} =>
           pc' = "stopped" \/ (pc' \in {"fuzz", "skipped", "fuzzed"} /\ queue_cur' = queue_cur),
         pc = "stopped" => pc' = "stopped"
  PROVE  Accounts'
<1>1. Queued' = Queued
  BY DEF Queued
<1>2. Unused'
  BY DEF Exact, Unused
<1>3. Retried'
  BY DEF Retried
<1>4. FullTraces'
  BY <1>1 DEF Exact, FullTraces, Owned
<1>5. FavoredCover'
  BY <1>1, CoverKept DEF Exact
<1>6. Counters'
  BY <1>1 DEF Exact, Counters, PendingFavored
<1> QED
  BY <1>2, <1>3, <1>4, <1>5, <1>6 DEF Accounts

(* The steps that score nothing and count nothing.                         *)
LEMMA QuietAccounts ==
  ASSUME IInv, IInv', Exact,
         Skip \/ TrimNothing \/ StagesEnd \/ Interrupt \/ UNCHANGED vars
  PROVE  Due
<1> USE DEF scores, measures, counters, vars
<1>1. UNCHANGED <<queued_paths, len, was_fuzzed, favored, exec_us, exec_cksum, cal_failed, seen,
                  trace_mini, top_rated, score_changed, queued_favored, pending_favored,
                  pending_not_fuzzed>>
  BY DEF Skip, TrimNothing, StagesEnd, Interrupt
<1>2. Typed'
  <2>1. trim_done' \in [Entries -> BOOLEAN]
    BY DEF Skip, TrimNothing, StagesEnd, Interrupt, Exact, TypeOK, FlagTypes
  <2>2. pc' \in {"dry_run", "main", "fuzz_one", "calibrate", "trim", "fuzz", "skipped", "fuzzed",
                 "stopped"} /\ stop_soon' \in BOOLEAN
    BY DEF Skip, TrimNothing, StagesEnd, Interrupt, Exact, TypeOK, PlaceTypes, FlagTypes
  <2>3. PlaceTypes'
    BY <2>2 DEF IInv, Places, PlaceTypes
  <2>4. FlagTypes'
    BY <1>1, <2>1, <2>2 DEF Exact, TypeOK, FlagTypes
  <2>5. FieldTypes' /\ seen' \subseteq Bytes /\ queued_favored' \in 0..MapSize
    BY <1>1 DEF Exact, TypeOK, FieldTypes, ScoreTypes, CounterTypes
  <2> QED
    BY <2>3, <2>4, <2>5 DEF Typed
<1>3. CASE UNCHANGED vars
  BY <1>3, <1>2 DEF Due, Accounts, Exact, Unused, Retried, FullTraces, FavoredCover, Counters,
                    Owned, Queued, PendingFavored
<1>4. CASE Interrupt /\ pc = "calibrate"
  BY <1>4, <1>2 DEF Interrupt, Due, Accounts, Exact, Unused, Retried, FullTraces, FavoredCover,
                    Counters, Owned, Queued, PendingFavored
<1>5. CASE Skip \/ TrimNothing \/ StagesEnd \/ (Interrupt /\ pc # "calibrate")
  <2>1. /\ pc' # "calibrate"
        /\ pc \in {"fuzz", "skipped", "fuzzed"} =>
             pc' = "stopped" \/ (pc' \in {"fuzz", "skipped", "fuzzed"} /\ queue_cur' = queue_cur)
        /\ pc = "stopped" => pc' = "stopped"
    BY <1>5 DEF Skip, TrimNothing, StagesEnd, Interrupt
  <2>2. Accounts'
    BY <1>1, <2>1, SameAccounts
  <2> QED
    BY <1>2, <2>2 DEF Due
<1> QED
  BY <1>3, <1>4, <1>5

LEMMA EnterAccounts ==
  ASSUME IInv, IInv', Exact, Enter
  PROVE  Due
<1> USE DEF scores, measures, counters, Enter
<1>1. Typed'
  <2>1. PlaceTypes'
    BY DEF IInv, Places, PlaceTypes
  <2> QED
    BY <2>1 DEF Exact, TypeOK, Typed, FlagTypes, FieldTypes, ScoreTypes, CounterTypes
<1>2. Retried'
  BY DEF Retried
<1>3. Unused' /\ FavoredCover' /\ Counters'
  BY DEF Exact, Unused, FavoredCover, Counters, Owned, Queued, PendingFavored
<1>4. FullTraces'
  BY DEF Exact, FullTraces, Owned, Queued
<1> QED
  BY <1>1, <1>2, <1>3, <1>4 DEF Due, Accounts

(* A seed that is given up: its failures are counted up to CAL_CHANCES.    *)
LEMMA GiveUpAccounts ==
  ASSUME IInv, IInv', Exact, NEW runs \in Calibrations, GiveUpSeed(runs)
  PROVE  Due
<1> USE DEF scores, counters
<1>1. /\ UNCHANGED <<queued_paths, len, exec_us, trim_done, was_fuzzed, favored, trace_mini, tc_ref,
                     top_rated, score_changed, queued_favored, pending_favored,
                     pending_not_fuzzed, stop_soon>>
      /\ cal_failed' = [cal_failed EXCEPT ![queue_cur] = CalChances]
      /\ seen' = seen \cup UNION {runs[k] : k \in 1..Len(runs)}
      /\ pc = "dry_run" /\ pc' \in {"dry_run", "main", "stopped"}
      /\ queue_cur \in Queued /\ queue_cur \in Entries
  BY QueueAssumption DEF GiveUpSeed, IInv, Places, Queued, Entries
<1>2. seen' \subseteq Bytes
  <2>1. \A k \in 1..Len(runs) : runs[k] \subseteq Bytes
    BY RunsOfCalibration DEF Traces
  <2> QED
    BY <1>1, <2>1 DEF Exact, TypeOK, ScoreTypes
<1>3. Typed'
  <2>1. PlaceTypes'
    BY <1>1 DEF IInv, Places, PlaceTypes
  <2>2. cal_failed' \in [Entries -> 0..CalChances]
    <3>1. CalChances \in 0..CalChances
      BY QueueAssumption
    <3> QED
      BY <1>1, <3>1 DEF Exact, TypeOK, FieldTypes
  <2>3. FieldTypes'
    BY <1>1, <2>2 DEF IInv, Fields, Exact, TypeOK, FieldTypes
  <2> QED
    BY <1>1, <1>2, <2>1, <2>3 DEF Exact, TypeOK, Typed, FlagTypes, CounterTypes
<1>4. \A p \in Entries : p > queued_paths => cal_failed'[p] = cal_failed[p]
  <2>1. queue_cur \in Nat /\ queued_paths \in Nat /\ queue_cur <= queued_paths
    BY <1>1, QueueAssumption DEF Queued, Entries, IInv, Places
  <2>2. \A p \in Entries : p > queued_paths => p # queue_cur
    BY <2>1 DEF Entries
  <2> QED
    BY <1>1, <2>2 DEF Exact, TypeOK, FieldTypes
<1>5. Accounts'
  BY <1>1, <1>4, SameAccounts
<1> QED
  BY <1>3, <1>5 DEF Due

(* One turn of the main loop.                                              *)
LEMMA NextEntryAccounts ==
  ASSUME IInv, IInv', Exact, NextEntry
  PROVE  Due
<1>1. /\ pc = "main" /\ pc' = "fuzz_one"
      /\ UNCHANGED <<queued_paths, len, trim_done, was_fuzzed, exec_us, exec_cksum, cal_failed, seen,
                     trace_mini, top_rated, pending_not_fuzzed, stop_soon>>
      /\ Queued' = Queued /\ Queued \subseteq Entries
  BY QueueAssumption DEF NextEntry, measures, Queued, IInv, Places, Entries
<1>2. PlaceTypes'
  BY <1>1 DEF IInv, Places, PlaceTypes
<1>3. Retried'
  BY <1>1 DEF Retried
<1>4. FullTraces'
  BY <1>1 DEF Exact, FullTraces, Owned
<1>5. CASE ~score_changed
  <2>1. UNCHANGED <<score_changed, favored, queued_favored, pending_favored>>
    BY <1>5 DEF NextEntry, CullQueue
  <2>2. Unused' /\ FavoredCover' /\ Counters'
    BY <1>1, <2>1 DEF Exact, Unused, FavoredCover, Counters, PendingFavored
  <2>3. Typed'
    BY <1>1, <1>2, <2>1 DEF Exact, TypeOK, Typed, FlagTypes, FieldTypes, ScoreTypes, CounterTypes
  <2> QED
    BY <1>3, <1>4, <2>2, <2>3 DEF Due, Accounts
<1>6. CASE score_changed
  <2>1. PICK visited \in SUBSET Rated :
          /\ Visits(visited)
          /\ score_changed' = FALSE /\ favored' = CullFlags(visited)
          /\ queued_favored' = Cardinality(visited)
          /\ pending_favored' = Cardinality({i \in visited : PendingAt(i)})
    BY <1>6 DEF NextEntry, CullQueue
  <2>2. FavoredCover'
    BY <1>1, <2>1, CullCovers
  <2>3. /\ queued_favored' \in 0..MapSize
        /\ pending_favored' = Cardinality(PendingFavored')
        /\ queued_favored' >= Cardinality({p \in Queued' : favored'[p]})
    BY <1>1, <2>1, CullCounts DEF Exact
  <2>4. Counters'
    BY <1>1, <2>3 DEF Exact, Counters
  <2>5. favored' \in [Entries -> BOOLEAN] /\ \A p \in Entries : p > queued_paths => ~favored'[p]
    <3>1. \A i \in visited : top_rated[i] \in Queued
      BY DEF Rated, IInv, Slots
    <3>2. \A p \in Queued : ~(p > queued_paths)
      BY QueueAssumption DEF Queued, IInv, Places, Entries
    <3> QED
      BY <2>1, <3>1, <3>2 DEF CullFlags
  <2>6. Unused'
    BY <1>1, <2>5 DEF Exact, Unused
  <2>7. Typed'
    BY <1>1, <1>2, <2>1, <2>3, <2>5 DEF Exact, TypeOK, Typed, FlagTypes, FieldTypes, ScoreTypes
  <2> QED
    BY <1>3, <1>4, <2>2, <2>4, <2>6, <2>7 DEF Due, Accounts
<1> QED
  BY <1>5, <1>6

(* A calibration of an entry that owns nothing, which leaves the flags and *)
(* the counters alone: the dry run and the second chances.                 *)
LEMMA CalibrationAccounts ==
  ASSUME IInv, IInv', Exact, NEW q \in Queued, Owned(q) = {}, pc' # "calibrate",
         NEW runs \in Calibrations, NEW us \in Times, Len(runs) = CalRuns \/ cal_failed[q] < CalChances,
         Calibrate(q, None, runs, us, len[q]), PlaceTypes',
         UNCHANGED <<queued_paths, len, trim_done, was_fuzzed, favored, counters, stop_soon>>,
         pc \in {"dry_run", "calibrate"}
  PROVE  Due
<1> USE DEF counters
<1>1. /\ q \in Entries /\ None \in SUBSET Bytes /\ len[q] \in Nat /\ Queued' = Queued
      /\ Queued \subseteq Entries /\ queued_paths \in Nat
      /\ \A p \in Queued : p <= queued_paths
  <2>1. queued_paths \in Nat /\ queued_paths <= MaxEntries /\ MaxEntries \in Nat
    BY QueueAssumption DEF IInv, Places, Entries
  <2>2. Queued \subseteq Entries /\ \A p \in Queued : p <= queued_paths
    BY <2>1 DEF Queued, Entries
  <2>3. q \in Entries /\ len[q] \in Nat
    BY <2>2 DEF IInv, Fields
  <2> QED
    BY <2>1, <2>2, <2>3 DEF None, Queued
<1>2. Slots /\ RefCounts /\ seen \subseteq Bytes /\ score_changed \in BOOLEAN
  BY DEF IInv, Exact, TypeOK, ScoreTypes, FlagTypes
<1>3. /\ seen' \subseteq Bytes /\ score_changed' \in BOOLEAN
      /\ exec_us' = [exec_us EXCEPT ![q] = us] \/ exec_us' = exec_us
      /\ \/ cal_failed' = [cal_failed EXCEPT ![q] = 0]
         \/ Len(runs) # CalRuns /\ cal_failed' = [cal_failed EXCEPT ![q] = @ + 1]
      /\ \A p \in Entries \ {q} : Owned(p) \subseteq trace_mini[p] =>
           (Owned(p) \subseteq trace_mini[p])'
      /\ (Owned(q) \subseteq trace_mini[q])'
      /\ ~score_changed' => ~score_changed /\ UNCHANGED <<trace_mini, top_rated>>
  BY <1>1, <1>2, CalibrateMore
<1>4. exec_us' \in [Entries -> Times \cup {0}]
  BY <1>3 DEF Exact, TypeOK, FieldTypes
<1>5. cal_failed' \in [Entries -> 0..CalChances] /\ \A p \in Entries \ {q} : cal_failed'[p] = cal_failed[p]
  <2>1. CASE cal_failed' = [cal_failed EXCEPT ![q] = 0]
    <3>1. 0 \in 0..CalChances
      BY QueueAssumption
    <3> QED
      BY <2>1, <3>1 DEF Exact, TypeOK, FieldTypes
  <2>2. CASE Len(runs) # CalRuns /\ cal_failed' = [cal_failed EXCEPT ![q] = @ + 1]
    <3>1. PICK c \in 0..CalChances : c = cal_failed[q] /\ c < CalChances
      BY <1>1, <2>2 DEF Exact, TypeOK, FieldTypes
    <3>2. c + 1 \in 0..CalChances
      BY <3>1, QueueAssumption
    <3>3. cal_failed' = [cal_failed EXCEPT ![q] = c + 1]
      BY <2>2, <3>1
    <3> QED
      BY <3>2, <3>3 DEF Exact, TypeOK, FieldTypes
  <2> QED
    BY <1>3, <2>1, <2>2
<1>6. Typed'
  <2>1. FieldTypes'
    BY <1>4, <1>5 DEF IInv, Fields, Exact, TypeOK, FieldTypes
  <2> QED
    BY <1>3, <2>1 DEF Exact, TypeOK, Typed, FlagTypes, CounterTypes
<1>7. Unused'
  <2>1. \A p \in Entries : p > queued_paths => p # q
    BY <1>1 DEF Entries
  <2> QED
    BY <1>5, <2>1 DEF Exact, Unused
<1>8. Retried'
  BY DEF Retried
<1>9. FullTraces'
  <2>1. \A p \in Queued : ~was_fuzzed[p] => Owned(p) \subseteq trace_mini[p]
    BY DEF Exact, FullTraces
  <2>2. \A p \in Queued : ~was_fuzzed[p] => (Owned(p) \subseteq trace_mini[p])'
    BY <1>1, <1>3, <2>1
  <2> QED
    BY <1>1, <2>2 DEF FullTraces
<1>10. FavoredCover'
  BY <1>1, <1>3, CoverKept DEF Exact
<1>11. Counters'
  BY <1>1 DEF Exact, Counters, PendingFavored
<1> QED
  BY <1>6, <1>7, <1>8, <1>9, <1>10, <1>11 DEF Due, Accounts

LEMMA DryRunAccounts ==
  ASSUME IInv, IInv', Exact, NEW runs \in Calibrations, NEW us \in Times,
         Len(runs) = CalRuns, DryRun(runs, us)
  PROVE  Due
<1>1. PICK q \in Queued : q = queue_cur
  BY DEF DryRun, IInv, Places
<1>2. /\ pc = "dry_run" /\ pc' \in {"dry_run", "main"} /\ Waiting(q) /\ q \in Nat \ {NoEntry}
      /\ Calibrate(q, None, runs, us, len[q])
      /\ UNCHANGED <<queued_paths, len, trim_done, was_fuzzed, favored, counters, stop_soon>>
  BY <1>1, QueueAssumption DEF DryRun, Waiting, Queued, NoEntry, IInv, Places, Entries
<1>3. Owned(q) = {}
  BY <1>2, WaitingOwnsNothing
<1>4. PlaceTypes'
  BY <1>2 DEF IInv, Places, PlaceTypes
<1> QED
  BY <1>2, <1>3, <1>4, CalibrationAccounts

LEMMA RecalibrateAccounts ==
  ASSUME IInv, IInv', Exact, NEW runs \in Calibrations, NEW us \in Times, NEW new_counts \in BOOLEAN,
         Recalibrate(runs, us, new_counts)
  PROVE  Due
<1>1. PICK q \in Queued : q = queue_cur
  BY DEF Recalibrate, IInv, Places
<1>2. /\ pc = "calibrate" /\ pc' \in {"skipped", "trim"} /\ q \in Nat \ {NoEntry}
      /\ cal_failed[q] # 0 /\ cal_failed[q] < CalChances
      /\ Calibrate(q, None, runs, us, len[q])
      /\ UNCHANGED <<queued_paths, len, trim_done, was_fuzzed, favored, counters, stop_soon>>
  BY <1>1, QueueAssumption DEF Recalibrate, Queued, NoEntry, IInv, Places, Chances, Entries, Exact, Retried
<1>3. Owned(q) = {}
  BY <1>2, WaitingOwnsNothing
<1>4. PlaceTypes'
  BY <1>2 DEF IInv, Places, PlaceTypes
<1> QED
  BY <1>2, <1>3, <1>4, CalibrationAccounts

(* Trimming: the one entry whose trace_mini may not be full any more is    *)
(* the one fuzz_one works on.                                              *)
LEMMA TrimAccounts ==
  ASSUME IInv, IInv', Exact, NEW l \in Lens, Trim(l) \/ AbortTrim(l)
  PROVE  Due
<1> USE DEF counters, measures, scores
<1>1. /\ queue_cur \in Queued /\ queue_cur \in Entries /\ pc = "trim"
      /\ pc' \in {"skipped", "fuzz"} /\ queue_cur' = queue_cur
      /\ Queued \subseteq Entries /\ queued_paths' = queued_paths /\ Queued' = Queued
      /\ len' = [len EXCEPT ![queue_cur] = l]
      /\ UNCHANGED <<was_fuzzed, favored, exec_us, exec_cksum, cal_failed, seen, queued_favored,
                     pending_favored, pending_not_fuzzed, stop_soon>>
  BY QueueAssumption DEF Trim, AbortTrim, IInv, Places, Queued, Entries
<1>2. PlaceTypes'
  BY <1>1 DEF IInv, Places, PlaceTypes
<1>3. trim_done' \in [Entries -> BOOLEAN]
  BY DEF Trim, AbortTrim, Exact, TypeOK, FlagTypes
<1>4. FieldTypes'
  <2>1. len' \in [Entries -> Lens \cup {0}]
    BY <1>1 DEF Exact, TypeOK, FieldTypes
  <2> QED
    BY <1>1, <2>1 DEF Exact, TypeOK, FieldTypes
<1>5. Unused' /\ Retried' /\ Counters'
  BY <1>1 DEF Exact, Unused, Retried, Counters, PendingFavored
<1>6. /\ score_changed' \in BOOLEAN
      /\ \A p \in Queued \ {queue_cur} : Owned(p) \subseteq trace_mini[p] =>
           (Owned(p) \subseteq trace_mini[p])'
      /\ ~score_changed' => ~score_changed /\ UNCHANGED <<trace_mini, top_rated>>
  <2>1. CASE Trim(l)
    <3>1. l \in Nat /\ l < len[queue_cur] /\ cal_failed[queue_cur] = 0
      BY <2>1, QueueAssumption DEF Trim, IInv, Chances
    <3>2. Calibrated(queue_cur)
      BY <1>1, <3>1 DEF IInv, Measured, Waiting
    <3>3. exec_us[queue_cur] \in Nat /\ exec_cksum[queue_cur] \in Traces
      BY <1>1, <3>2 DEF IInv, Fields, Calibrated, Traces, None
    <3>4. Factor(exec_us[queue_cur], l) \in Nat
      BY <3>1, <3>3 DEF Factor
    <3>5. UpdateBitmapScore(queue_cur, Factor(exec_us[queue_cur], l), exec_cksum[queue_cur])
      BY <2>1 DEF Trim
    <3>6. Slots /\ RefCounts /\ score_changed \in BOOLEAN
      BY DEF IInv, Exact, TypeOK, FlagTypes
    <3>7. /\ \A p \in Entries \ {queue_cur} : Owned(p) \subseteq trace_mini[p] =>
               (Owned(p) \subseteq trace_mini[p])'
          /\ score_changed' \in BOOLEAN
          /\ ~score_changed' => ~score_changed /\ UNCHANGED <<trace_mini, top_rated>>
      BY <1>1, <3>3, <3>4, <3>5, <3>6, ScoreKeepsTraces
    <3> QED
      BY <1>1, <3>7
  <2>2. CASE AbortTrim(l)
    BY <2>2 DEF AbortTrim, Owned, Exact, TypeOK, FlagTypes
  <2> QED
    BY <2>1, <2>2
<1>7. FullTraces'
  <2>1. \A p \in Queued : ~was_fuzzed[p] => Owned(p) \subseteq trace_mini[p]
    BY <1>1 DEF Exact, FullTraces
  <2>2. \A p \in Queued \ {queue_cur} : ~was_fuzzed[p] => (Owned(p) \subseteq trace_mini[p])'
    BY <1>6, <2>1
  <2> QED
    BY <1>1, <2>2 DEF FullTraces
<1>8. FavoredCover'
  BY <1>1, <1>6, CoverKept DEF Exact
<1>9. Typed'
  BY <1>1, <1>2, <1>3, <1>4, <1>6 DEF Exact, TypeOK, Typed, FlagTypes, ScoreTypes, CounterTypes
<1> QED
  BY <1>5, <1>7, <1>8, <1>9 DEF Due, Accounts

(* A new entry: nobody has favored it, it waits to be fuzzed, and its      *)
(* trace_mini holds all it wins.                                           *)
LEMMA SaveAccounts ==
  ASSUME IInv, IInv', Exact, NEW trace \in Traces, NEW new_state \in BOOLEAN, NEW l \in Lens,
         NEW runs \in Calibrations, NEW us \in Times, Save(trace, new_state, l, runs, us)
  PROVE  Due
<1>1. PICK q \in Nat \ {NoEntry} : q = queued_paths + 1
  BY QueueAssumption DEF IInv, Places, Entries, NoEntry
<1>2. /\ q \in Entries /\ q \in Queued' /\ q \notin Queued /\ Queued' = Queued \cup {q}
      /\ Queued \subseteq Entries /\ queued_paths \in Nat /\ MaxEntries \in Nat
      /\ queued_paths' = q /\ pc = "fuzz" /\ pc' = "fuzz" /\ queue_cur' = queue_cur
      /\ queue_cur \in Queued
  BY <1>1, QueueAssumption DEF Save, IInv, Places, Queued, Entries, NoEntry
<1>3. /\ len' = [len EXCEPT ![q] = l] /\ Calibrate(q, trace, runs, us, l)
      /\ pending_not_fuzzed' = pending_not_fuzzed + 1
      /\ UNCHANGED <<trim_done, was_fuzzed, favored, queued_favored, pending_favored, stop_soon>>
  BY <1>1 DEF Save
<1>4. l \in Nat /\ trace \in SUBSET Bytes /\ Owned(q) = {}
      /\ cal_failed[q] = 0 /\ ~favored[q] /\ ~was_fuzzed[q]
  <2>1. l \in Nat /\ trace \in SUBSET Bytes
    BY QueueAssumption DEF Traces
  <2>2. Owned(q) = {}
    BY <1>2, WaitingOwnsNothing
  <2>3. q > queued_paths
    BY <1>1, <1>2
  <2> QED
    BY <1>2, <2>1, <2>2, <2>3 DEF Exact, Unused
<1>5. Slots /\ RefCounts /\ seen \subseteq Bytes /\ score_changed \in BOOLEAN
  BY DEF IInv, Exact, TypeOK, ScoreTypes, FlagTypes
<1>6. /\ seen' \subseteq Bytes /\ score_changed' \in BOOLEAN
      /\ exec_us' = [exec_us EXCEPT ![q] = us] \/ exec_us' = exec_us
      /\ \/ cal_failed' = [cal_failed EXCEPT ![q] = 0]
         \/ cal_failed' = [cal_failed EXCEPT ![q] = 1]
      /\ \A p \in Entries \ {q} : Owned(p) \subseteq trace_mini[p] =>
           (Owned(p) \subseteq trace_mini[p])'
      /\ (Owned(q) \subseteq trace_mini[q])'
      /\ ~score_changed' => ~score_changed /\ UNCHANGED <<trace_mini, top_rated>>
  <2>1. /\ seen' \subseteq Bytes /\ score_changed' \in BOOLEAN
        /\ exec_us' = [exec_us EXCEPT ![q] = us] \/ exec_us' = exec_us
        /\ \/ cal_failed' = [cal_failed EXCEPT ![q] = 0]
           \/ Len(runs) # CalRuns /\ cal_failed' = [cal_failed EXCEPT ![q] = @ + 1]
        /\ \A p \in Entries \ {q} : Owned(p) \subseteq trace_mini[p] =>
             (Owned(p) \subseteq trace_mini[p])'
        /\ Owned(q) = {} => (Owned(q) \subseteq trace_mini[q])'
        /\ ~score_changed' => ~score_changed /\ UNCHANGED <<trace_mini, top_rated>>
    BY <1>2, <1>3, <1>4, <1>5, CalibrateMore
  <2>2. [cal_failed EXCEPT ![q] = @ + 1] = [cal_failed EXCEPT ![q] = 1]
    BY <1>4
  <2> QED
    BY <1>4, <2>1, <2>2
<1>7. /\ cal_failed' \in [Entries -> 0..CalChances]
      /\ \A p \in Entries \ {q} : cal_failed'[p] = cal_failed[p]
  <2>1. 0 \in 0..CalChances /\ 1 \in 0..CalChances
    BY QueueAssumption
  <2> QED
    BY <1>6, <2>1 DEF Exact, TypeOK, FieldTypes
<1>8. FieldTypes'
  <2>1. exec_us' \in [Entries -> Times \cup {0}]
    BY <1>6 DEF Exact, TypeOK, FieldTypes
  <2>2. len' \in [Entries -> Lens \cup {0}]
    BY <1>3 DEF Exact, TypeOK, FieldTypes
  <2> QED
    BY <1>7, <2>1, <2>2 DEF IInv, Fields, FieldTypes
<1>9. PlaceTypes'
  BY <1>2 DEF IInv, Places, PlaceTypes
<1>10. Typed'
  BY <1>3, <1>6, <1>8, <1>9 DEF Exact, TypeOK, Typed, FlagTypes, CounterTypes
<1>11. Unused'
  <2>1. ASSUME NEW p \in Entries, p > q
        PROVE  ~favored'[p] /\ ~was_fuzzed'[p] /\ cal_failed'[p] = 0
    <3>1. p > queued_paths /\ p # q
      BY <2>1, <1>1, <1>2, QueueAssumption DEF Entries
    <3> QED
      BY <3>1, <1>3, <1>7 DEF Exact, Unused
  <2> QED
    BY <2>1, <1>2 DEF Unused
<1>12. Retried'
  BY <1>2 DEF Retried
<1>13. FullTraces'
  <2>1. ASSUME NEW p \in Queued, p # queue_cur, ~was_fuzzed[p]
        PROVE  (Owned(p) \subseteq trace_mini[p])'
    <3>1. Owned(p) \subseteq trace_mini[p]
      BY <2>1, <1>2 DEF Exact, FullTraces
    <3> QED
      BY <3>1, <1>2, <1>6
  <2> QED
    BY <2>1, <1>2, <1>3, <1>6 DEF FullTraces
<1>14. FavoredCover'
  <2>1. Queued \subseteq Queued' /\ favored' = favored
    BY <1>2, <1>3
  <2> QED
    BY <2>1, <1>6, CoverKept DEF Exact
<1>15. Counters'
  <2>1. /\ {p \in Queued' : ~was_fuzzed'[p]} = {p \in Queued : ~was_fuzzed[p]} \cup {q}
        /\ q \notin {p \in Queued : ~was_fuzzed[p]}
    BY <1>2, <1>3, <1>4
  <2>2. PendingFavored' = PendingFavored /\ {p \in Queued' : favored'[p]} = {p \in Queued : favored[p]}
    BY <1>2, <1>3, <1>4 DEF PendingFavored
  <2>3. IsFiniteSet({p \in Queued : ~was_fuzzed[p]})
    BY SetsOfEntries
  <2>4. Cardinality({p \in Queued' : ~was_fuzzed'[p]}) = Cardinality({p \in Queued : ~was_fuzzed[p]}) + 1
    <3>1. Cardinality({p \in Queued : ~was_fuzzed[p]} \cup {q})
            = Cardinality({p \in Queued : ~was_fuzzed[p]}) + 1
      BY <2>1, <2>3, FS_AddElement
    <3> QED
      BY <2>1, <3>1
  <2> QED
    BY <1>3, <2>2, <2>4 DEF Exact, Counters
<1> QED
  BY <1>10, <1>11, <1>12, <1>13, <1>14, <1>15 DEF Due, Accounts

(* The end of fuzz_one.  An entry that is not marked then either failed    *)
(* its calibration, and owns nothing, or the session ends.                 *)
LEMMA AbandonAccounts ==
  ASSUME IInv, IInv', Exact, Abandon
  PROVE  Due
<1> USE DEF scores, measures
<1>1. /\ queue_cur \in Queued /\ queue_cur \in Entries /\ Queued \subseteq Entries
      /\ queue_cur \in Nat \ {NoEntry}
      /\ pc \in {"skipped", "fuzzed"} /\ Queued' = Queued
      /\ UNCHANGED <<queued_paths, len, trim_done, favored, exec_us, exec_cksum, cal_failed, seen,
                     trace_mini, top_rated, score_changed, queued_favored, stop_soon>>
      /\ pc' \in {"main", "stopped"} /\ (stop_soon => pc' = "stopped")
  BY QueueAssumption DEF Abandon, IInv, Places, Queued, Entries, NoEntry
<1>2. PlaceTypes'
  BY <1>1 DEF IInv, Places, PlaceTypes
<1>3. was_fuzzed' \in [Entries -> BOOLEAN]
  BY DEF Abandon, Exact, TypeOK, FlagTypes
<1>4. Typed'
  BY <1>1, <1>2, <1>3 DEF Exact, TypeOK, Typed, FlagTypes, FieldTypes, ScoreTypes, CounterTypes
<1>5. Retried'
  BY <1>1 DEF Retried
<1>6. FavoredCover'
  BY <1>1, CoverKept DEF Exact
<1>7. \A p \in Queued : p # queue_cur => was_fuzzed'[p] = was_fuzzed[p]
  BY <1>1 DEF Abandon, Exact, TypeOK, FlagTypes
<1>8. CASE CountsAsFuzzed
  <2>1. /\ was_fuzzed' = [was_fuzzed EXCEPT ![queue_cur] = TRUE]
        /\ pending_not_fuzzed' = pending_not_fuzzed - 1
        /\ pending_favored' = pending_favored - (IF favored[queue_cur] THEN 1 ELSE 0)
        /\ ~was_fuzzed[queue_cur] /\ was_fuzzed'[queue_cur]
    BY <1>1, <1>8 DEF Abandon, CountsAsFuzzed, Exact, TypeOK, FlagTypes
  <2>2. Unused'
    <3>1. \A p \in Entries : p > queued_paths => p # queue_cur
      BY <1>1, QueueAssumption DEF Queued, Entries, IInv, Places
    <3> QED
      BY <1>1, <2>1, <3>1 DEF Exact, Unused, TypeOK, FlagTypes
  <2>3. FullTraces'
    <3>1. \A p \in Queued : p # queue_cur /\ ~was_fuzzed[p] => Owned(p) \subseteq trace_mini[p]
      BY <1>1 DEF Exact, FullTraces
    <3> QED
      BY <1>1, <1>7, <2>1, <3>1 DEF FullTraces, Owned
  <2>4. Counters'
    <3> DEFINE W == {p \in Queued : ~was_fuzzed[p]}
    <3>1. W' = W \ {queue_cur} /\ queue_cur \in W /\ W \in SUBSET Queued
      BY <1>1, <1>7, <2>1
    <3>2. PendingFavored' = PendingFavored \ {queue_cur} /\ PendingFavored \in SUBSET Queued
          /\ (queue_cur \in PendingFavored <=> favored[queue_cur])
      BY <1>1, <1>7, <2>1 DEF PendingFavored
    <3>3. {p \in Queued' : favored'[p]} = {p \in Queued : favored[p]}
      BY <1>1
    <3> HIDE DEF W
    <3>4. IsFiniteSet(W) /\ IsFiniteSet(PendingFavored)
      BY <3>1, <3>2, SetsOfEntries
    <3>5. Cardinality(W') = Cardinality(W) - 1
      BY <3>1, <3>4, FS_RemoveElement
    <3>6. Cardinality(PendingFavored')
            = Cardinality(PendingFavored) - (IF favored[queue_cur] THEN 1 ELSE 0)
      <4>1. CASE favored[queue_cur]
        BY <4>1, <3>2, <3>4, FS_RemoveElement
      <4>2. CASE ~favored[queue_cur]
        <5>1. PendingFavored' = PendingFavored
          BY <4>2, <3>2
        <5>2. Cardinality(PendingFavored) \in Nat
          BY <3>4, FS_CardinalityType
        <5> QED
          BY <4>2, <5>1, <5>2
      <4> QED
        BY <4>1, <4>2
    <3>7. pending_not_fuzzed = Cardinality(W) /\ pending_favored = Cardinality(PendingFavored)
          /\ queued_favored >= Cardinality({p \in Queued : favored[p]})
      BY DEF Exact, Counters, W
    <3>8. pending_not_fuzzed' = Cardinality(W')
      BY <2>1, <3>5, <3>7
    <3>9. pending_favored' = Cardinality(PendingFavored')
      BY <2>1, <3>6, <3>7
    <3>10. queued_favored' >= Cardinality({p \in Queued' : favored'[p]})
      BY <1>1, <3>3, <3>7
    <3> QED
      BY <3>8, <3>9, <3>10 DEF Counters, W
  <2> QED
    BY <1>4, <1>5, <1>6, <2>2, <2>3, <2>4 DEF Due, Accounts
<1>9. CASE ~CountsAsFuzzed
  <2>1. UNCHANGED <<was_fuzzed, pending_not_fuzzed, pending_favored>>
    BY <1>9 DEF Abandon
  <2>2. Unused' /\ Counters'
    BY <1>1, <2>1 DEF Exact, Unused, Counters, PendingFavored
  <2>3. ASSUME NEW p \in Queued, ~was_fuzzed[p], ~stop_soon
        PROVE  Owned(p) \subseteq trace_mini[p]
    <3>1. CASE p = queue_cur
      <4>1. cal_failed[p] # 0
        BY <3>1, <2>3, <1>9 DEF CountsAsFuzzed
      <4>2. Owned(p) = {}
        BY <3>1, <4>1, <1>1, WaitingOwnsNothing
      <4> QED
        BY <4>2
    <3>2. CASE p # queue_cur
      BY <3>2, <2>3, <1>1 DEF Exact, FullTraces
    <3> QED
      BY <3>1, <3>2
  <2>4. FullTraces'
    BY <1>1, <2>1, <2>3 DEF FullTraces, Owned
  <2> QED
    BY <1>4, <1>5, <1>6, <2>2, <2>4 DEF Due, Accounts
<1> QED
  BY <1>8, <1>9

-----------------------------------------------------------------------------
LEMMA InitExact == Init => Exact
<1> SUFFICES ASSUME Init PROVE Exact
  OBVIOUS
<1>1. IInv
  BY InitInv
<1>2. /\ queued_paths = Seeds /\ Seeds \in Nat /\ Seeds \in Entries /\ MapSize \in Nat
      /\ favored = [p \in Entries |-> FALSE] /\ was_fuzzed = [p \in Entries |-> FALSE]
      /\ Queued \subseteq Entries
  BY QueueAssumption DEF Init, Entries, Queued
<1>3. Typed
  <2>1. PlaceTypes
    BY <1>1 DEF Init, IInv, Places, PlaceTypes
  <2>2. FlagTypes
    BY DEF Init, FlagTypes
  <2>3. cal_failed \in [Entries -> 0..CalChances]
    BY QueueAssumption DEF Init
  <2>4. FieldTypes
    BY <2>3 DEF Init, FieldTypes, None
  <2>5. seen \subseteq Bytes /\ queued_favored \in 0..MapSize
    BY <1>2 DEF Init
  <2> QED
    BY <2>1, <2>2, <2>4, <2>5 DEF Typed
<1>4. Counters
  <2>1. /\ {p \in Queued : ~was_fuzzed[p]} = 1..Seeds /\ PendingFavored = {}
        /\ {p \in Queued : favored[p]} = {}
    BY <1>2 DEF PendingFavored, Queued
  <2>2. Cardinality(1..Seeds) = Seeds
    BY <1>2, FS_Interval
  <2>3. /\ Cardinality({p \in Queued : ~was_fuzzed[p]}) = Seeds
        /\ Cardinality(PendingFavored) = 0 /\ Cardinality({p \in Queued : favored[p]}) = 0
    BY <2>1, <2>2, FS_EmptySet, Zenon
  <2>4. pending_not_fuzzed = Seeds /\ pending_favored = 0 /\ queued_favored = 0
    BY DEF Init
  <2> QED
    BY <2>3, <2>4 DEF Counters
<1>5. TypeOK
  BY <1>1, <1>3, <1>4, RangesFollow
<1>6. Unused /\ Retried
  BY <1>2 DEF Init, Unused, Retried
<1>7. FullTraces
  <2>1. \A p \in Queued : Owned(p) = {}
    BY QueueAssumption DEF Init, Owned, Queued, NoEntry
  <2> QED
    BY <2>1 DEF FullTraces
<1>8. FavoredCover
  BY DEF Init, FavoredCover
<1> QED
  BY <1>4, <1>5, <1>6, <1>7, <1>8 DEF Exact

LEMMA RangesAlways == IInv /\ Typed /\ Counters => TypeOK
BY RangesFollow

LEMMA StepExact == IInv /\ Exact /\ [Next]_vars => Exact'
<1> SUFFICES ASSUME IInv, Exact, [Next]_vars PROVE Exact'
  OBVIOUS
<1>0. IInv'
  BY StepInv
<1>1. Due
  <2>1. CASE DryRuns
    BY <1>0, <2>1, DryRunAccounts DEF DryRuns
  <2>2. CASE GivenUpSeeds
    BY <1>0, <2>2, GiveUpAccounts DEF GivenUpSeeds
  <2>3. CASE NextEntry
    BY <1>0, <2>3, NextEntryAccounts
  <2>4. CASE Skip \/ TrimNothing \/ StagesEnd \/ Interrupt \/ UNCHANGED vars
    BY <1>0, <2>4, QuietAccounts
  <2>5. CASE Enter
    BY <1>0, <2>5, EnterAccounts
  <2>6. CASE Recalibrations
    BY <1>0, <2>6, RecalibrateAccounts DEF Recalibrations
  <2>7. CASE Trims
    BY <1>0, <2>7, TrimAccounts DEF Trims
  <2>8. CASE Saves
    BY <1>0, <2>8, SaveAccounts DEF Saves
  <2>9. CASE Abandon
    BY <1>0, <2>9, AbandonAccounts
  <2> QED
    BY <2>1, <2>2, <2>3, <2>4, <2>5, <2>6, <2>7, <2>8, <2>9 DEF Next, Step
<1>2. IInv' /\ Typed' /\ Counters' => TypeOK'
  BY RangesAlways, PTL
<1> QED
  BY <1>0, <1>1, <1>2 DEF Due, Accounts, Exact

THEOREM ExactHolds == Spec => []Exact
<1>1. IInv /\ Exact /\ [Next]_vars => Exact'
  BY StepExact
<1> QED
  BY InitExact, InvHolds, <1>1, PTL DEF Spec

(* Positions, winners, fields and counters stay in their ranges, for every *)
(* size of the map and of the queue: no counter of the status screen and   *)
(* no tc_ref wraps.                                                        *)
THEOREM TypeCorrect == Spec => []TypeOK
<1>1. Exact => TypeOK
  BY DEF Exact
<1> QED
  BY ExactHolds, <1>1, PTL

(* What cull_queue favors covers every byte that has a winner.             *)
THEOREM FavoredCoverHolds == Spec => []FavoredCover
<1>1. Exact => FavoredCover
  BY DEF Exact
<1> QED
  BY ExactHolds, <1>1, PTL

(* pending_favored and pending_not_fuzzed are exact, queued_favored is     *)
(* never less than the entries that are favored.                           *)
THEOREM CountersHold == Spec => []Counters
<1>1. Exact => Counters
  BY DEF Exact
<1> QED
  BY ExactHolds, <1>1, PTL
=============================================================================
