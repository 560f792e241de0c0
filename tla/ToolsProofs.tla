----------------------------- MODULE ToolsProofs -----------------------------
(***************************************************************************)
(* What is proved of the tools, for any program, test case, corpus,        *)
(* command line, graph of calls and assembly file: afl-tmin, afl-analyze,  *)
(* afl-cmin, the reading of a command line, the first pass over a program, *)
(* the compiler wrappers and afl-as.  Each has an inductive invariant of   *)
(* its own; ToolsInv joins them.                                           *)
(***************************************************************************)
EXTENDS MCParts, FiniteSetTheorems, FunctionTheorems, SequenceTheorems, WellFoundedInduction, NaturalsInduction, TLAPS

-----------------------------------------------------------------------------
(* The least-number principle: a set of numbers that is not empty has a    *)
(* least one.                                                              *)
LEMMA LeastNat ==
  ASSUME NEW T, T \subseteq Nat, T # {}
  PROVE  \E m \in T : \A k \in T : m <= k
<1>1. IsWellFoundedOn({p \in Nat \X Nat : p[1] < p[2]}, Nat)
  BY NatLessThanWellFounded DEF OpToRel
<1>2. PICK m \in T : \A k \in T : ~ (<<k, m>> \in {p \in Nat \X Nat : p[1] < p[2]})
  BY <1>1, WFMin
<1>3. ASSUME NEW k \in T PROVE m <= k
  <2>1. m \in Nat /\ k \in Nat /\ <<k, m>> \in Nat \X Nat
    OBVIOUS
  <2>2. ~ (k < m)
    BY <1>2, <2>1
  <2>. QED  BY <2>1, <2>2
<1>. QED  BY <1>3

LEMMA Quotient == ASSUME NEW a \in Nat, NEW m \in Nat \ {0} PROVE a \div m \in Nat
OBVIOUS

(* A power of two is read off the size of a set of subsets: 2^n is not     *)
(* less than n, as the subsets of one element are n already.               *)
LEMMA PowerAbove == ASSUME NEW n \in Nat PROVE 2^n \in Nat /\ n <= 2^n
<1>. DEFINE S == 1 .. n
            T == SUBSET S
            single == [i \in S |-> {i}]
<1>1. IsFiniteSet(S) /\ Cardinality(S) = n
  <2>1. 1 \in Int /\ n \in Int /\ n >= 1 - 1
    OBVIOUS
  <2>. QED  BY <2>1, FS_Interval
<1>2. IsFiniteSet(T) /\ Cardinality(T) = 2^n
  BY <1>1, FS_SUBSET, Zenon
<1>3. single \in Injection(S, T)
  <2>1. single \in [S -> T]
    OBVIOUS
  <2>2. \A i, j \in S : single[i] = single[j] => i = j
    OBVIOUS
  <2>. HIDE DEF S, T, single
  <2>. QED  BY <2>1, <2>2, Fun_IsInj
<1>. HIDE DEF S, T, single
<1>4. Cardinality(S) <= Cardinality(T) /\ Cardinality(T) \in Nat
  BY <1>2, <1>3, FS_Injection, FS_CardinalityType
<1>. QED  BY <1>1, <1>2, <1>4

LEMMA PowerPositive == ASSUME NEW n \in Nat PROVE 2^n >= 1
<1>. DEFINE T == SUBSET (1 .. n)
<1>1. IsFiniteSet(1 .. n) /\ Cardinality(1 .. n) = n
  <2>1. 1 \in Int /\ n \in Int /\ n >= 1 - 1
    OBVIOUS
  <2>. QED  BY <2>1, FS_Interval
<1>2. IsFiniteSet(T) /\ Cardinality(T) = 2^n
  BY <1>1, FS_SUBSET, Zenon
<1>3. T # {}
  OBVIOUS
<1>. HIDE DEF T
<1>4. Cardinality(T) \in Nat /\ Cardinality(T) # 0
  BY <1>2, <1>3, FS_CardinalityType, FS_EmptySet
<1>. QED  BY <1>2, <1>4

LEMMA NextP2Type == ASSUME NEW n \in Nat PROVE Tm!NextP2(n) \in Nat /\ Tm!NextP2(n) >= 1
<1>. DEFINE Powers == {2^i : i \in 0 .. n}
            Above == {p \in Powers : p >= n}
<1>1. \A p \in Powers : p \in Nat /\ p >= 1
  <2>1. ASSUME NEW i \in 0 .. n PROVE 2^i \in Nat /\ 2^i >= 1
    <3>1. i \in Nat
      OBVIOUS
    <3>. QED  BY <3>1, PowerAbove, PowerPositive
  <2>. QED  BY <2>1
<1>2. 2^n \in Above
  <2>1. 2^n \in Nat /\ n <= 2^n
    BY PowerAbove
  <2>. QED  BY <2>1
<1>. HIDE DEF Powers
<1>3. \E p \in Above : \A q \in Above : p <= q
  BY <1>1, <1>2, LeastNat
<1>4. \E p \in Powers : p >= n /\ \A q \in Powers : q >= n => p <= q
  BY <1>3
<1>5. Tm!NextP2(n) \in Powers
  BY <1>4 DEF Tm!NextP2, Powers
<1>. QED  BY <1>1, <1>5

-----------------------------------------------------------------------------
(* Parts of a test case.                                                   *)
LEMMA CutIs ==
  ASSUME NEW d \in Seq(Nat), NEW p \in Nat, NEW n \in Nat, p < Len(d), n >= 1
  PROVE  /\ Tm!Cut(d, p, n) \in Seq(Nat)
         /\ Len(Tm!Cut(d, p, n)) = p + (IF p + n <= Len(d) THEN Len(d) - (p + n) ELSE 0)
         /\ \A i \in 1 .. Len(Tm!Cut(d, p, n)) : Tm!Cut(d, p, n)[i] = IF i <= p THEN d[i] ELSE d[i + n]
<1>. DEFINE a == SubSeq(d, 1, p)
            b == SubSeq(d, p + n + 1, Len(d))
            m == IF p + n <= Len(d) THEN Len(d) - (p + n) ELSE 0
<1>0. Len(d) \in Nat /\ \A i \in 1 .. Len(d) : d[i] \in Nat
  BY LenProperties, ElementOfSeq
<1>1. a \in Seq(Nat) /\ Len(a) = p /\ \A i \in 1 .. p : a[i] = d[i]
  <2>1. 1 \in Int /\ p \in Int /\ \A i \in 1 .. p : d[i] \in Nat
    BY <1>0
  <2>. QED  BY <2>1, SubSeqProperties
<1>2. b \in Seq(Nat) /\ Len(b) = m /\ \A i \in 1 .. m : b[i] = d[p + n + i]
  <2>1. p + n + 1 \in Int /\ Len(d) \in Int /\ \A i \in p + n + 1 .. Len(d) : d[i] \in Nat
    BY <1>0
  <2>2. /\ b \in Seq(Nat) /\ Len(b) = IF p + n + 1 <= Len(d) THEN Len(d) - (p + n + 1) + 1 ELSE 0
        /\ \A i \in 1 .. Len(d) - (p + n + 1) + 1 : b[i] = d[p + n + 1 + i - 1]
    <3>. DEFINE k == p + n + 1
    <3>1. /\ SubSeq(d, k, Len(d)) \in Seq(Nat) /\ Len(SubSeq(d, k, Len(d))) = IF k <= Len(d) THEN Len(d) - k + 1 ELSE 0
          /\ \A i \in 1 .. Len(d) - k + 1 : SubSeq(d, k, Len(d))[i] = d[k + i - 1]
      <4>. HIDE DEF k
      <4>1. k \in Int /\ Len(d) \in Int /\ \A i \in k .. Len(d) : d[i] \in Nat
        BY <2>1 DEF k
      <4>. QED  BY <4>1, SubSeqProperties
    <3>. QED  BY <3>1
  <2>. HIDE DEF b
  <2>3. Len(b) = m
    <3>1. Len(d) \in Nat
      BY <1>0
    <3>2. (IF p + n + 1 <= Len(d) THEN Len(d) - (p + n + 1) + 1 ELSE 0) = m
      BY <3>1
    <3>. HIDE DEF m
    <3>. QED  BY <2>2, <3>2
  <2>4. \A i \in 1 .. m : b[i] = d[p + n + i]
    BY <2>2, <1>0
  <2>. QED  BY <2>2, <2>3, <2>4
<1>3. m \in Nat
  BY <1>0
<1>4. Tm!Cut(d, p, n) = a \o b
  BY DEF Tm!Cut
<1>. HIDE DEF a, b, m
<1>5. /\ a \o b \in Seq(Nat) /\ Len(a \o b) = p + m
      /\ \A i \in 1 .. p + m : (a \o b)[i] = IF i <= p THEN a[i] ELSE b[i - p]
  BY ZenonT(60), <1>1, <1>2, ConcatProperties
<1>6. ASSUME NEW i \in 1 .. p + m PROVE (a \o b)[i] = IF i <= p THEN d[i] ELSE d[i + n]
  <2>1. CASE i <= p
    <3>1. i \in 1 .. p
      BY <1>3, <2>1
    <3>. QED  BY <1>1, <1>5, <2>1, <3>1
  <2>2. CASE i > p
    <3>1. i - p \in 1 .. m /\ p + n + (i - p) = i + n
      BY <1>3, <2>2
    <3>2. ~ (i <= p)
      BY <1>3, <2>2
    <3>3. b[i - p] = d[i + n]
      BY <1>2, <3>1
    <3>4. (a \o b)[i] = IF i <= p THEN a[i] ELSE b[i - p]
      BY <1>5
    <3>. QED  BY <3>2, <3>3, <3>4
  <2>3. i <= p \/ i > p
    BY <1>3
  <2>. QED  BY <2>1, <2>2, <2>3
<1>7. Len(Tm!Cut(d, p, n)) = p + m
  BY <1>4, <1>5
<1>8. \A i \in 1 .. Len(Tm!Cut(d, p, n)) : Tm!Cut(d, p, n)[i] = IF i <= p THEN d[i] ELSE d[i + n]
  BY <1>4, <1>6, <1>7
<1>. QED  BY <1>4, <1>5, <1>7, <1>8 DEF m

(* What a test case weighs.                                                *)
Odd(d) == {i \in DOMAIN d : d[i] # Plain}
LEMMA SameCardinality == \A S : Tm!Cardinality(S) = Cardinality(S)
BY DEF Tm!Cardinality, Cardinality

LEMMA Weighs ==
  ASSUME NEW d \in Seq(Nat)
  PROVE  /\ IsFiniteSet(Odd(d)) /\ Cardinality(Odd(d)) \in Nat /\ Len(d) \in Nat
         /\ Tm!Weight(d) = Len(d) + Cardinality(Odd(d)) /\ Tm!Weight(d) \in Nat
<1>1. DOMAIN d = 1 .. Len(d) /\ Len(d) \in Nat
  BY LenProperties
<1>2. IsFiniteSet(1 .. Len(d))
  <2>1. 1 \in Int /\ Len(d) \in Int
    BY <1>1
  <2>. QED  BY <2>1, FS_Interval
<1>3. Odd(d) \in SUBSET (1 .. Len(d))
  BY <1>1 DEF Odd
<1>4. IsFiniteSet(Odd(d))
  BY <1>2, <1>3, FS_Subset
<1>5. Cardinality(Odd(d)) \in Nat
  BY <1>4, FS_CardinalityType
<1>. QED  BY <1>1, <1>4, <1>5, SameCardinality DEF Tm!Weight, Odd

(* A block that goes takes bytes along, and adds no other.                 *)
LEMMA CutWeighs ==
  ASSUME NEW d \in Seq(Nat), NEW p \in Nat, NEW n \in Nat, p < Len(d), n >= 1
  PROVE  Tm!Weight(Tm!Cut(d, p, n)) < Tm!Weight(d)
<1>. DEFINE e == Tm!Cut(d, p, n)
            shift == [i \in Odd(e) |-> IF i <= p THEN i ELSE i + n]
<1>1. /\ e \in Seq(Nat) /\ Len(e) = p + (IF p + n <= Len(d) THEN Len(d) - (p + n) ELSE 0)
      /\ \A i \in 1 .. Len(e) : e[i] = IF i <= p THEN d[i] ELSE d[i + n]
  BY CutIs
<1>. HIDE DEF e
<1>2. DOMAIN d = 1 .. Len(d) /\ DOMAIN e = 1 .. Len(e) /\ Len(d) \in Nat /\ Len(e) \in Nat
  BY <1>1, LenProperties
<1>3. shift \in Injection(Odd(e), Odd(d))
  <2>1. ASSUME NEW i \in Odd(e) PROVE (IF i <= p THEN i ELSE i + n) \in Odd(d)
    <3>1. i \in 1 .. Len(e) /\ e[i] # Plain
      BY <1>2 DEF Odd
    <3>2. CASE i <= p
      <4>1. e[i] = d[i]
        BY <1>1, <3>1, <3>2
      <4>2. i \in 1 .. Len(d)
        BY <1>2, <3>1, <3>2
      <4>. QED  BY <1>2, <3>1, <3>2, <4>1, <4>2 DEF Odd
    <3>3. CASE i > p
      <4>1. i + n \in 1 .. Len(d)
        <5>1. i \in Nat /\ i <= Len(e) /\ Len(e) > p
          BY <1>2, <3>1, <3>3
        <5>2. p + n <= Len(d) /\ Len(e) = p + (Len(d) - (p + n))
          <6>1. Len(e) = p + (IF p + n <= Len(d) THEN Len(d) - (p + n) ELSE 0)
            BY <1>1
          <6>2. p + n <= Len(d)
            <7>. SUFFICES ASSUME ~ (p + n <= Len(d)) PROVE FALSE
              OBVIOUS
            <7>1. Len(e) = p + 0
              BY <6>1
            <7>. QED  BY <5>1, <7>1
          <6>. QED  BY <6>1, <6>2
        <5>. QED  BY <1>2, <5>1, <5>2
      <4>2. d[i + n] # Plain /\ ~ (i <= p)
        <5>1. i \in Nat
          BY <1>2, <3>1
        <5>2. ~ (i <= p)
          BY <5>1, <3>3
        <5>3. e[i] = IF i <= p THEN d[i] ELSE d[i + n]
          BY <1>1, <3>1
        <5>. QED  BY <3>1, <5>2, <5>3
      <4>. QED  BY <1>2, <4>1, <4>2 DEF Odd
    <3>. QED  BY <3>1, <3>2, <3>3
  <2>2. shift \in [Odd(e) -> Odd(d)]
    BY <2>1
  <2>3. \A i \in Odd(e) : i \in Nat
    BY <1>2 DEF Odd
  <2>4. \A i, j \in Odd(e) : shift[i] = shift[j] => i = j
    BY <2>3
  <2>. HIDE DEF shift
  <2>. QED  BY <2>2, <2>4, Fun_IsInj
<1>. HIDE DEF shift
<1>4. /\ IsFiniteSet(Odd(d)) /\ Cardinality(Odd(d)) \in Nat /\ Tm!Weight(d) = Len(d) + Cardinality(Odd(d))
      /\ Cardinality(Odd(e)) \in Nat /\ Tm!Weight(e) = Len(e) + Cardinality(Odd(e))
  BY <1>1, Weighs
<1>5. Cardinality(Odd(e)) <= Cardinality(Odd(d))
  BY <1>3, <1>4, FS_Injection
<1>6. Len(e) < Len(d)
  BY <1>1, <1>2
<1>7. Tm!Weight(e) < Tm!Weight(d)
  BY <1>2, <1>4, <1>5, <1>6
<1>. QED  BY <1>7 DEF e

LEMMA OfLength ==
  ASSUME NEW T, NEW n \in Nat, NEW e, e = [i \in DOMAIN e |-> e[i]], DOMAIN e = 1 .. n, \A i \in 1 .. n : e[i] \in T
  PROVE  e \in Seq(T) /\ Len(e) = n
<1>1. e \in [1 .. n -> T]
  OBVIOUS
<1>. QED  BY <1>1, SeqDef, LenProperties

(* Bytes that are set to '0' weigh no more, and less when there are any.   *)
LEMMA PlainWeighs ==
  ASSUME NEW d \in Seq(Nat), NEW e, e = [i \in DOMAIN d |-> e[i]], \A i \in DOMAIN d : e[i] \in {d[i], Plain}
  PROVE  e \in Seq(Nat) /\ Len(e) = Len(d) /\ Tm!Weight(e) <= Tm!Weight(d)
         /\ (e # d => Tm!Weight(e) < Tm!Weight(d))
<1>1. Len(d) \in Nat /\ DOMAIN d = 1 .. Len(d) /\ d \in [1 .. Len(d) -> Nat]
  BY LenProperties
<1>2. e \in Seq(Nat) /\ Len(e) = Len(d)
  <2>1. \A i \in 1 .. Len(d) : e[i] \in Nat
    BY <1>1, ToolsAssumption
  <2>. QED  BY <1>1, <2>1, OfLength
<1>3. /\ IsFiniteSet(Odd(d)) /\ Cardinality(Odd(d)) \in Nat /\ Tm!Weight(d) = Len(d) + Cardinality(Odd(d))
      /\ IsFiniteSet(Odd(e)) /\ Cardinality(Odd(e)) \in Nat /\ Tm!Weight(e) = Len(e) + Cardinality(Odd(e))
  BY <1>2, Weighs
<1>4. Odd(e) \in SUBSET Odd(d)
  BY DEF Odd
<1>5. Cardinality(Odd(e)) <= Cardinality(Odd(d)) /\ (Cardinality(Odd(e)) = Cardinality(Odd(d)) => Odd(e) = Odd(d))
  BY <1>3, <1>4, FS_Subset
<1>6. Odd(e) = Odd(d) => e = d
  <2>. SUFFICES ASSUME Odd(e) = Odd(d) PROVE e = d
    OBVIOUS
  <2>1. \A i \in 1 .. Len(d) : e[i] = d[i]
    BY <1>1 DEF Odd
  <2>. QED  BY <1>1, <1>2, <2>1, SeqEqual
<1>. QED  BY <1>1, <1>2, <1>3, <1>5, <1>6

-----------------------------------------------------------------------------
(* afl-tmin.                                                               *)
Stuck(d, p) ==
  (\A o, q \in Runs(target, Tm!Cut(d, p, 1)) : o = q) => \A o \in Runs(target, Tm!Cut(d, p, 1)) : ~Tm!Reproduces(o)

TminTypes ==
  /\ tpc \in {"start", "blocks", "delete", "symbols", "chars", "done", "aborted", "failed"}
  /\ in_data \in Seq(Nat) /\ file \in Seq(Nat) /\ {pos, len, cur_pass} \subseteq Nat
  /\ prev_del \in BOOLEAN /\ changed_any \in BOOLEAN

TminPlace ==
  /\ tpc = "start" => len = 0
  /\ tpc \in {"start", "blocks"} => cur_pass = 0 /\ ~changed_any
  /\ tpc \in {"blocks", "delete", "symbols", "chars"} => len >= 1
  /\ tpc = "delete" /\ ~prev_del => pos >= len
  /\ tpc \in {"symbols", "chars"} => pos >= 1
  /\ tpc = "chars" => tmp_buf = in_data
  /\ tpc # "failed" /\ len > 0 => \E o \in Runs(target, in_data) : Tm!Reproduces(o)

(* The first pass adds one to the count, each of the others one for a      *)
(* change that made the test case lighter.                                 *)
TminShrinks ==
  /\ cur_pass = 0 => Tm!Weight(in_data) <= Tm!Weight(file)
  /\ Tm!Weight(in_data) + cur_pass <= Tm!Weight(file) + 1
  /\ changed_any => Tm!Weight(in_data) + cur_pass <= Tm!Weight(file)

(* As long as a pass has changed nothing, all the bytes that single blocks *)
(* have gone over are there to stay.                                       *)
TminStuck ==
  /\ tpc = "delete" /\ ~changed_any /\ len = 1 => \A p \in Nat : p < pos /\ p < Len(in_data) => Stuck(in_data, p)
  /\ tpc \in {"symbols", "chars"} /\ ~changed_any => \A p \in Nat : p < Len(in_data) => Stuck(in_data, p)
  /\ tpc = "done" => out_data = in_data /\ \A p \in Nat : p < Len(in_data) => Stuck(in_data, p)

TminInv == TminTypes /\ TminPlace /\ TminShrinks /\ TminStuck

LEMMA StepsType == {TrimStartSteps, TminSetSteps, TminSetMinSize} \subseteq Nat \ {0} /\ Plain \in Nat
BY ToolsAssumption

LEMMA TminStart == Tm!TminInit => TminInv
<1>. SUFFICES ASSUME Tm!TminInit PROVE TminInv
  OBVIOUS
<1>. USE DEF Tm!TminInit
<1>1. TminTypes
  <2>1. file \in Files /\ in_data = file
    OBVIOUS
  <2>2. file \in Seq(Nat)
    BY <2>1, ToolsAssumption, Zenon
  <2>3. pos = 0 /\ len = 0 /\ cur_pass = 0
    OBVIOUS
  <2>4. prev_del \in BOOLEAN
    OBVIOUS
  <2>5. changed_any \in BOOLEAN
    OBVIOUS
  <2>. QED  BY <2>1, <2>2, <2>3, <2>4, <2>5 DEF TminTypes
<1>2. TminPlace
  BY DEF TminPlace
<1>3. TminShrinks
  BY <1>1, Weighs DEF TminShrinks, TminTypes
<1>4. TminStuck
  BY DEF TminStuck
<1>. QED  BY <1>1, <1>2, <1>3, <1>4 DEF TminInv

LEMMA TminImplies == TminInv => Tm!TminTypeOK /\ Tm!StillReproduces /\ Tm!NoByteToSpare /\ Tm!PassesShrink
<1>. SUFFICES ASSUME TminInv PROVE Tm!TminTypeOK /\ Tm!StillReproduces /\ Tm!NoByteToSpare /\ Tm!PassesShrink
  OBVIOUS
<1>. USE DEF TminInv
<1>1. Tm!TminTypeOK
  BY DEF TminTypes, Tm!TminTypeOK
<1>2. Tm!StillReproduces
  BY DEF TminPlace, Tm!StillReproduces
<1>3. Tm!NoByteToSpare
  <2>. SUFFICES ASSUME tpc = "done"
                PROVE  /\ out_data = in_data
                       /\ \A p \in 0 .. Len(out_data) - 1 : Stuck(out_data, p)
    BY DEF Tm!NoByteToSpare, Stuck
  <2>1. Len(in_data) \in Nat
    BY LenProperties DEF TminTypes
  <2>. QED  BY <2>1 DEF TminStuck
<1>4. Tm!PassesShrink
  BY DEF TminShrinks, Tm!PassesShrink
<1>. QED  BY <1>1, <1>2, <1>3, <1>4

(* The settings stay, and with them what a run has to be like.             *)
LEMMA SettledStays ==
  ASSUME UNCHANGED Tm!settled
  PROVE  /\ target' = target /\ \A o : Tm!Reproduces(o)' = Tm!Reproduces(o)
         /\ \A d, p : Stuck(d, p)' = Stuck(d, p)
<1>1. \A o : Tm!Reproduces(o)' = Tm!Reproduces(o)
  BY DEF Tm!settled, Tm!Reproduces, Tm!Trace, Tm!Masked, Tm!Classified, Tm!Crashes
<1>2. target' = target /\ file' = file
  BY DEF Tm!settled
<1>3. \A d, p : Stuck(d, p)' = Stuck(d, p)
  BY <1>1, <1>2 DEF Stuck
<1>. QED  BY <1>1, <1>2, <1>3

-----------------------------------------------------------------------------
LEMMA TminDryRun == ASSUME TminInv, Tm!DryRun PROVE TminInv'
<1>. DEFINE n == Tm!NextP2(Len(in_data) \div TminSetSteps)
<1>0. TminTypes /\ TminPlace /\ TminShrinks /\ TminStuck /\ tpc = "start"
  BY DEF TminInv, Tm!DryRun
<1>1. /\ UNCHANGED <<target, opts, file, in_data, tmp_buf, pos, prev_del, changed_any, cur_pass, out_data>>
      /\ tpc' \in {"blocks", "failed"} /\ len' = IF n < TminSetMinSize THEN TminSetMinSize ELSE n
  BY DEF Tm!DryRun
<1>2. n \in Nat /\ n >= 1
  <2>1. in_data \in Seq(Nat)
    BY <1>0 DEF TminTypes
  <2>2. Len(in_data) \in Nat /\ TminSetSteps \in Nat \ {0}
    <3>1. Len(in_data) \in Nat
      BY <2>1, LenProperties
    <3>2. TminSetSteps \in Nat \ {0}
      BY StepsType
    <3>. QED  BY <3>1, <3>2
  <2>3. Len(in_data) \div TminSetSteps \in Nat
    BY <2>2, Quotient
  <2>. QED  BY <2>3, NextP2Type
<1>. HIDE DEF n
<1>3. len' \in Nat /\ len' >= 1
  BY <1>1, <1>2, StepsType
<1>4. TminTypes'
  BY <1>0, <1>1, <1>3 DEF TminTypes
<1>5. tpc' # "failed" => \E o \in Runs(target', in_data') : Tm!Reproduces(o)'
  <2>. SUFFICES ASSUME tpc' # "failed" PROVE \E o \in Runs(target, in_data) : Tm!Reproduces(o)'
    BY <1>1
  <2>1. PICK o \in Runs(target, in_data) :
          LET crash == ~o.timed_out /\ Tm!Crashes(o)
              usable == ~o.timed_out /\ (crash \/ \E b \in TraceBytes : Tm!Trace(o)[b] # 0)
          IN  /\ crash_mode' = crash
              /\ orig_cksum' = IF usable /\ (crash => opts.exact_mode) THEN Tm!Trace(o) ELSE <<>>
              /\ tpc' = IF usable THEN "blocks" ELSE "failed"
    BY DEF Tm!DryRun
  <2>2. ~o.timed_out
    BY <2>1
  <2>3. crash_mode' = Tm!Crashes(o)
    <3>1. crash_mode' = (~o.timed_out /\ Tm!Crashes(o))
      BY <2>1
    <3>2. Tm!Crashes(o) \in BOOLEAN
      BY DEF Tm!Crashes
    <3>3. (~o.timed_out /\ Tm!Crashes(o)) = Tm!Crashes(o)
      BY <2>2, <3>2
    <3>. QED  BY <3>1, <3>3
  <2>4. Tm!Crashes(o)' = Tm!Crashes(o) /\ Tm!Trace(o)' = Tm!Trace(o) /\ opts' = opts
    BY <1>1 DEF Tm!Crashes, Tm!Trace, Tm!Masked, Tm!Classified
  <2>5. (crash_mode' /\ ~opts.exact_mode) \/ orig_cksum' = Tm!Trace(o)
    BY <2>1, <2>2
  <2>6. Tm!Reproduces(o)'
    BY <2>2, <2>3, <2>4, <2>5 DEF Tm!Reproduces
  <2>. QED  BY <2>6
<1>6. TminPlace'
  BY <1>0, <1>1, <1>3, <1>5 DEF TminPlace
<1>7. TminShrinks'
  BY <1>0, <1>1 DEF TminShrinks, Tm!Weight, Tm!Cardinality
<1>8. TminStuck'
  BY <1>1 DEF TminStuck
<1>. QED  BY <1>4, <1>6, <1>7, <1>8 DEF TminInv

(* What a step that keeps the settings has to show.                        *)
LEMMA TminFrame ==
  ASSUME TminInv, UNCHANGED Tm!settled, in_data' \in Seq(Nat), tpc \in {"blocks", "delete", "symbols", "chars"},
         in_data' = in_data \/ \E o \in Runs(target, in_data') : Tm!Reproduces(o)
  PROVE  /\ file' \in Seq(Nat) /\ Tm!Weight(file)' = Tm!Weight(file) /\ Tm!Weight(file) \in Nat
         /\ Tm!Weight(in_data)' = Tm!Weight(in_data') /\ Tm!Weight(in_data') \in Nat
         /\ len > 0 => \E o \in Runs(target', in_data') : Tm!Reproduces(o)'
<1>1. file' = file /\ target' = target /\ \A o : Tm!Reproduces(o)' = Tm!Reproduces(o)
  BY SettledStays DEF Tm!settled
<1>2. file \in Seq(Nat)
  BY DEF TminInv, TminTypes
<1>3. Tm!Weight(file)' = Tm!Weight(file) /\ Tm!Weight(in_data)' = Tm!Weight(in_data')
  BY <1>1 DEF Tm!Weight, Tm!Cardinality
<1>4. Tm!Weight(file) \in Nat /\ Tm!Weight(in_data') \in Nat
  BY <1>2, Weighs
<1>5. ASSUME len > 0 PROVE \E o \in Runs(target', in_data') : Tm!Reproduces(o)'
  <2>1. \E o \in Runs(target, in_data) : Tm!Reproduces(o)
    BY <1>5 DEF TminInv, TminPlace
  <2>2. \E o \in Runs(target, in_data') : Tm!Reproduces(o)
    BY <2>1
  <2>. QED  BY <1>1, <2>2
<1>. QED  BY <1>1, <1>2, <1>3, <1>4, <1>5

(* A block or a byte that is set to '0'.                                   *)
LEMMA BlankedIs ==
  ASSUME NEW d \in Seq(Nat), NEW p, NEW n
  PROVE  /\ Tm!Blanked(d, p, n) \in Seq(Nat) /\ Len(Tm!Blanked(d, p, n)) = Len(d)
         /\ Tm!Weight(Tm!Blanked(d, p, n)) <= Tm!Weight(d)
<1>. DEFINE e == Tm!Blanked(d, p, n)
<1>1. e = [i \in DOMAIN d |-> e[i]] /\ \A i \in DOMAIN d : e[i] \in {d[i], Plain}
  BY DEF Tm!Blanked
<1>. HIDE DEF e
<1>2. e \in Seq(Nat) /\ Len(e) = Len(d) /\ Tm!Weight(e) <= Tm!Weight(d)
  BY <1>1, PlainWeighs
<1>. QED  BY <1>2 DEF e

LEMMA WithoutSymbolIs ==
  ASSUME NEW d \in Seq(Nat), NEW x
  PROVE  /\ Tm!WithoutSymbol(d, x) \in Seq(Nat)
         /\ Tm!WithoutSymbol(d, x) # d => Tm!Weight(Tm!WithoutSymbol(d, x)) < Tm!Weight(d)
<1>. DEFINE e == Tm!WithoutSymbol(d, x)
<1>1. e = [i \in DOMAIN d |-> e[i]] /\ \A i \in DOMAIN d : e[i] \in {d[i], Plain}
  BY DEF Tm!WithoutSymbol
<1>. HIDE DEF e
<1>2. e \in Seq(Nat) /\ (e # d => Tm!Weight(e) < Tm!Weight(d))
  BY <1>1, PlainWeighs
<1>. QED  BY <1>2 DEF e

LEMMA OneByteIs ==
  ASSUME NEW d \in Seq(Nat), NEW k \in 1 .. Len(d), d[k] # Plain
  PROVE  /\ [d EXCEPT ![k] = Plain] \in Seq(Nat)
         /\ Tm!Weight([d EXCEPT ![k] = Plain]) < Tm!Weight(d)
<1>. DEFINE e == [d EXCEPT ![k] = Plain]
<1>0. DOMAIN d = 1 .. Len(d)
  BY LenProperties
<1>1. e = [i \in DOMAIN d |-> e[i]] /\ \A i \in DOMAIN d : e[i] \in {d[i], Plain}
  OBVIOUS
<1>2. e[k] = Plain
  BY <1>0
<1>. HIDE DEF e
<1>3. e # d
  BY <1>2
<1>4. e \in Seq(Nat) /\ (e # d => Tm!Weight(e) < Tm!Weight(d))
  BY <1>1, PlainWeighs
<1>. QED  BY <1>3, <1>4 DEF e

LEMMA TminNormalize == ASSUME TminInv, Tm!NormalizeBlock PROVE TminInv'
<1>0. TminTypes /\ TminPlace /\ TminShrinks /\ TminStuck /\ tpc = "blocks" /\ in_data \in Seq(Nat) /\ cur_pass = 0 /\ ~changed_any
  BY DEF TminInv, Tm!NormalizeBlock, TminTypes, TminPlace
<1>1. UNCHANGED <<tpc, Tm!settled, tmp_buf, len, prev_del, changed_any, cur_pass, out_data>> /\ pos' = pos + len
  BY DEF Tm!NormalizeBlock
<1>2. \/ in_data' = in_data
      \/ \E n : in_data' = Tm!Blanked(in_data, pos, n) /\ \E o \in Runs(target, in_data') : Tm!Reproduces(o)
  BY DEF Tm!NormalizeBlock, Tm!Try
<1>3. in_data' \in Seq(Nat) /\ Tm!Weight(in_data') <= Tm!Weight(in_data) /\ Tm!Weight(in_data) \in Nat
  BY <1>0, <1>2, BlankedIs, Weighs
<1>4. /\ file' \in Seq(Nat) /\ Tm!Weight(file)' = Tm!Weight(file) /\ Tm!Weight(file) \in Nat
      /\ Tm!Weight(in_data)' = Tm!Weight(in_data') /\ Tm!Weight(in_data') \in Nat
      /\ len > 0 => \E o \in Runs(target', in_data') : Tm!Reproduces(o)'
  BY <1>0, <1>1, <1>2, <1>3, TminFrame
<1>5. TminTypes'
  BY <1>0, <1>1, <1>3, <1>4 DEF TminTypes
<1>6. TminPlace'
  BY <1>0, <1>1, <1>4 DEF TminPlace
<1>7. TminShrinks'
  BY <1>0, <1>1, <1>3, <1>4 DEF TminShrinks
<1>8. TminStuck'
  BY <1>0, <1>1 DEF TminStuck
<1>. QED  BY <1>5, <1>6, <1>7, <1>8 DEF TminInv

(* A new pass, after a change or after the first normalisation.            *)
LEMMA TminNewPass ==
  ASSUME TminInv, Tm!BeginPass, tpc = "blocks" \/ (tpc = "chars" /\ changed_any)
  PROVE  TminInv'
<1>. DEFINE n == Tm!NextP2(Len(in_data) \div TrimStartSteps)
<1>0. TminTypes /\ TminPlace /\ TminShrinks /\ TminStuck /\ in_data \in Seq(Nat)
  BY DEF TminInv, TminTypes
<1>1. /\ cur_pass' = cur_pass + 1 /\ changed_any' = FALSE /\ tpc' = "delete" /\ len' = n /\ pos' = 0 /\ prev_del' = TRUE
      /\ UNCHANGED <<Tm!settled, in_data, out_data>>
  BY DEF Tm!BeginPass
<1>2. n \in Nat /\ n >= 1
  <2>1. Len(in_data) \in Nat /\ TrimStartSteps \in Nat \ {0}
    BY <1>0, StepsType, LenProperties
  <2>2. Len(in_data) \div TrimStartSteps \in Nat
    BY <2>1, Quotient
  <2>. QED  BY <2>2, NextP2Type
<1>. HIDE DEF n
<1>3. Tm!Weight(in_data) \in Nat
  BY <1>0, Weighs
<1>4. /\ file' \in Seq(Nat) /\ Tm!Weight(file)' = Tm!Weight(file) /\ Tm!Weight(file) \in Nat
      /\ Tm!Weight(in_data)' = Tm!Weight(in_data') /\ Tm!Weight(in_data') \in Nat
  BY <1>0, <1>1, TminFrame
<1>5. TminTypes'
  <2>1. prev_del' \in BOOLEAN
    BY <1>1
  <2>2. changed_any' \in BOOLEAN
    BY <1>1
  <2>3. {pos', len', cur_pass'} \subseteq Nat
    BY <1>0, <1>1, <1>2 DEF TminTypes
  <2>4. in_data' \in Seq(Nat) /\ tpc' = "delete"
    BY <1>0, <1>1
  <2>. QED  BY <1>4, <2>1, <2>2, <2>3, <2>4 DEF TminTypes
<1>6. TminPlace'
  <2>1. tpc' = "delete" /\ len' >= 1 /\ prev_del'
    BY <1>1, <1>2
  <2>2. len > 0
    BY <1>0 DEF TminPlace, TminTypes
  <2>3. \E o \in Runs(target', in_data') : Tm!Reproduces(o)'
    BY <1>0, <1>1, <2>2, TminFrame
  <2>. QED  BY <2>1, <2>3 DEF TminPlace
<1>7. TminShrinks'
  <2>1. cur_pass \in Nat
    BY <1>0 DEF TminTypes
  <2>2. Tm!Weight(in_data) + cur_pass <= Tm!Weight(file)
    BY <1>0, <1>3, <1>4, <2>1 DEF TminShrinks, TminPlace
  <2>. QED  BY <1>1, <1>3, <1>4, <2>1, <2>2 DEF TminShrinks
<1>8. TminStuck'
  BY <1>1 DEF TminStuck
<1>. QED  BY <1>5, <1>6, <1>7, <1>8 DEF TminInv

LEMMA CutSame ==
  ASSUME NEW d \in Seq(Nat), NEW p \in Nat, p >= 1, p < Len(d), d[p] = d[p + 1]
  PROVE  Tm!Cut(d, p, 1) = Tm!Cut(d, p - 1, 1)
<1>1. p - 1 \in Nat /\ p - 1 < Len(d) /\ Len(d) \in Nat
  BY LenProperties
<1>2. /\ Tm!Cut(d, p, 1) \in Seq(Nat)
      /\ Len(Tm!Cut(d, p, 1)) = p + (IF p + 1 <= Len(d) THEN Len(d) - (p + 1) ELSE 0)
      /\ \A i \in 1 .. Len(Tm!Cut(d, p, 1)) : Tm!Cut(d, p, 1)[i] = IF i <= p THEN d[i] ELSE d[i + 1]
  BY CutIs
<1>3. /\ Tm!Cut(d, p - 1, 1) \in Seq(Nat)
      /\ Len(Tm!Cut(d, p - 1, 1)) = (p - 1) + (IF (p - 1) + 1 <= Len(d) THEN Len(d) - ((p - 1) + 1) ELSE 0)
      /\ \A i \in 1 .. Len(Tm!Cut(d, p - 1, 1)) : Tm!Cut(d, p - 1, 1)[i] = IF i <= p - 1 THEN d[i] ELSE d[i + 1]
  <2>. DEFINE k == p - 1
  <2>1. k \in Nat /\ k < Len(d)
    BY <1>1
  <2>. HIDE DEF k
  <2>2. /\ Tm!Cut(d, k, 1) \in Seq(Nat)
        /\ Len(Tm!Cut(d, k, 1)) = k + (IF k + 1 <= Len(d) THEN Len(d) - (k + 1) ELSE 0)
        /\ \A i \in 1 .. Len(Tm!Cut(d, k, 1)) : Tm!Cut(d, k, 1)[i] = IF i <= k THEN d[i] ELSE d[i + 1]
    BY <2>1, CutIs
  <2>. QED  BY <2>2 DEF k
<1>4. Len(Tm!Cut(d, p, 1)) = Len(d) - 1 /\ Len(Tm!Cut(d, p - 1, 1)) = Len(d) - 1
  BY <1>1, <1>2, <1>3
<1>5. ASSUME NEW i \in 1 .. Len(d) - 1 PROVE Tm!Cut(d, p, 1)[i] = Tm!Cut(d, p - 1, 1)[i]
  <2>1. Tm!Cut(d, p, 1)[i] = IF i <= p THEN d[i] ELSE d[i + 1]
    BY <1>2, <1>4
  <2>2. Tm!Cut(d, p - 1, 1)[i] = IF i <= p - 1 THEN d[i] ELSE d[i + 1]
    BY <1>3, <1>4
  <2>3. i = p \/ (i <= p <=> i <= p - 1)
    BY <1>1
  <2>. QED  BY <1>1, <2>1, <2>2, <2>3
<1> DEFINE a == Tm!Cut(d, p, 1)
           b == Tm!Cut(d, p - 1, 1)
<1>6. a \in Seq(Nat) /\ b \in Seq(Nat) /\ Len(a) = Len(d) - 1 /\ Len(b) = Len(d) - 1 /\ \A i \in 1 .. Len(d) - 1 : a[i] = b[i]
  BY <1>2, <1>3, <1>4, <1>5
<1>. HIDE DEF a, b
<1>7. a = b
  BY <1>6, SeqEqual
<1>. QED  BY <1>7 DEF a, b

LEMMA TminDelete == ASSUME TminInv, Tm!DeleteBlock PROVE TminInv'
<1>0. /\ TminTypes /\ TminPlace /\ TminShrinks /\ TminStuck /\ tpc = "delete" /\ pos < Len(in_data)
      /\ in_data \in Seq(Nat) /\ pos \in Nat /\ len \in Nat /\ len >= 1 /\ cur_pass \in Nat
  BY DEF TminInv, Tm!DeleteBlock, TminTypes, TminPlace
<1>1. UNCHANGED <<tpc, Tm!settled, tmp_buf, len, cur_pass, out_data>>
  BY DEF Tm!DeleteBlock
<1>2. Tm!Weight(in_data) \in Nat /\ \A d, p : Stuck(d, p)' = Stuck(d, p)
  BY <1>0, <1>1, Weighs, SettledStays
<1>3. CASE Tm!LooksLikeLast /\ pos' = pos + len /\ UNCHANGED <<in_data, prev_del, changed_any>>
  <2>1. /\ file' \in Seq(Nat) /\ Tm!Weight(file)' = Tm!Weight(file)
        /\ Tm!Weight(in_data)' = Tm!Weight(in_data') /\ \E o \in Runs(target', in_data') : Tm!Reproduces(o)'
    BY <1>0, <1>1, <1>3, TminFrame
  <2>2. TminTypes'
    BY <1>0, <1>1, <1>3, <2>1 DEF TminTypes
  <2>3. TminPlace'
    BY <1>0, <1>1, <1>3, <2>1 DEF TminPlace
  <2>4. TminShrinks'
    BY <1>0, <1>1, <1>3, <2>1 DEF TminShrinks
  <2>5. TminStuck'
    <3>. SUFFICES ASSUME ~changed_any, len = 1, NEW p \in Nat, p < pos + 1, p < Len(in_data)
                  PROVE  Stuck(in_data, p)
      BY <1>0, <1>1, <1>2, <1>3 DEF TminStuck
    <3>1. CASE p < pos
      BY <1>0, <3>1 DEF TminStuck
    <3>2. CASE p = pos
      <4>1. pos >= 1
        BY <1>0, <1>3 DEF TminPlace, Tm!LooksLikeLast
      <4>2. in_data[pos] = in_data[pos + 1]
        <5>1. SubSeq(in_data, pos, pos) = SubSeq(in_data, pos + 1, pos + 1)
          BY <1>0, <1>3 DEF Tm!LooksLikeLast
        <5>2. \A i \in 1 .. Len(in_data) : in_data[i] \in Nat
          BY <1>0, ElementOfSeq
        <5>3. Len(in_data) \in Nat
          BY <1>0, LenProperties
        <5>4. SubSeq(in_data, pos, pos)[1] = in_data[pos]
          <6>1. pos \in Int /\ \A i \in pos .. pos : in_data[i] \in Nat
            BY <1>0, <4>1, <5>2, <5>3
          <6>2. \A i \in 1 .. pos - pos + 1 : SubSeq(in_data, pos, pos)[i] = in_data[pos + i - 1]
            BY <6>1, SubSeqProperties
          <6>. QED  BY <1>0, <6>2
        <5>5. SubSeq(in_data, pos + 1, pos + 1)[1] = in_data[pos + 1]
          <6>. DEFINE k == pos + 1
          <6>1. k \in Int /\ \A i \in k .. k : in_data[i] \in Nat
            BY <1>0, <5>2, <5>3
          <6>. HIDE DEF k
          <6>2. \A i \in 1 .. k - k + 1 : SubSeq(in_data, k, k)[i] = in_data[k + i - 1]
            BY <6>1, SubSeqProperties
          <6>3. SubSeq(in_data, k, k)[1] = in_data[k]
            BY <6>1, <6>2
          <6>. QED  BY <6>3 DEF k
        <5>. QED  BY <5>1, <5>4, <5>5
      <4>3. Tm!Cut(in_data, pos, 1) = Tm!Cut(in_data, pos - 1, 1)
        BY <1>0, <4>1, <4>2, CutSame
      <4>4. Stuck(in_data, pos - 1)
        BY <1>0, <4>1 DEF TminStuck
      <4>. QED  BY <3>2, <4>3, <4>4 DEF Stuck
    <3>. QED  BY <1>0, <3>1, <3>2
  <2>. QED  BY <2>2, <2>3, <2>4, <2>5 DEF TminInv
<1>4. CASE /\ in_data' = Tm!Cut(in_data, pos, len) /\ \E o \in Runs(target, in_data') : Tm!Reproduces(o)
           /\ prev_del' = TRUE /\ changed_any' = TRUE /\ UNCHANGED pos
  <2>0. in_data' \in Seq(Nat) /\ Tm!Weight(in_data') < Tm!Weight(in_data)
    BY <1>0, <1>4, CutIs, CutWeighs
  <2>1. /\ file' \in Seq(Nat) /\ Tm!Weight(file)' = Tm!Weight(file) /\ Tm!Weight(file) \in Nat
        /\ Tm!Weight(in_data)' = Tm!Weight(in_data') /\ Tm!Weight(in_data') \in Nat
        /\ \E o \in Runs(target', in_data') : Tm!Reproduces(o)'
    BY <1>0, <1>1, <1>4, <2>0, TminFrame
  <2>2. TminTypes'
    <3>1. prev_del' \in BOOLEAN
      BY <1>4
    <3>2. changed_any' \in BOOLEAN
      BY <1>4
    <3>. QED  BY <1>0, <1>1, <1>4, <2>0, <2>1, <3>1, <3>2 DEF TminTypes
  <2>3. TminPlace'
    BY <1>0, <1>1, <1>4, <2>1 DEF TminPlace
  <2>4. TminShrinks'
    BY <1>0, <1>1, <1>2, <1>4, <2>0, <2>1 DEF TminShrinks
  <2>5. TminStuck'
    BY <1>0, <1>1, <1>4 DEF TminStuck
  <2>. QED  BY <2>2, <2>3, <2>4, <2>5 DEF TminInv
<1>5. CASE /\ \E o \in Runs(target, Tm!Cut(in_data, pos, len)) : ~Tm!Reproduces(o)
           /\ pos' = pos + len /\ prev_del' = FALSE /\ UNCHANGED <<in_data, changed_any>>
  <2>1. /\ file' \in Seq(Nat) /\ Tm!Weight(file)' = Tm!Weight(file)
        /\ Tm!Weight(in_data)' = Tm!Weight(in_data') /\ \E o \in Runs(target', in_data') : Tm!Reproduces(o)'
    BY <1>0, <1>1, <1>5, TminFrame
  <2>2. TminTypes'
    <3>1. prev_del' \in BOOLEAN
      BY <1>5
    <3>. QED  BY <1>0, <1>1, <1>5, <2>1, <3>1 DEF TminTypes
  <2>3. TminPlace'
    BY <1>0, <1>1, <1>5, <2>1 DEF TminPlace
  <2>4. TminShrinks'
    BY <1>0, <1>1, <1>5, <2>1 DEF TminShrinks
  <2>5. TminStuck'
    <3>. SUFFICES ASSUME ~changed_any, len = 1, NEW p \in Nat, p < pos + 1, p < Len(in_data)
                  PROVE  Stuck(in_data, p)
      BY <1>0, <1>1, <1>2, <1>5 DEF TminStuck
    <3>1. CASE p < pos
      BY <1>0, <3>1 DEF TminStuck
    <3>2. CASE p = pos
      BY <1>5, <3>2 DEF Stuck
    <3>. QED  BY <1>0, <3>1, <3>2
  <2>. QED  BY <2>2, <2>3, <2>4, <2>5 DEF TminInv
<1>. QED  BY <1>3, <1>4, <1>5 DEF Tm!DeleteBlock, Tm!Try

(* The steps that leave the test case alone and are not the first.         *)
LEMMA TminRest ==
  ASSUME TminInv, UNCHANGED <<Tm!settled, in_data, changed_any, cur_pass>>
  PROVE  /\ in_data' \in Seq(Nat) /\ file' \in Seq(Nat) /\ changed_any' \in BOOLEAN /\ cur_pass' \in Nat
         /\ TminShrinks' /\ \A d, p : Stuck(d, p)' = Stuck(d, p)
         /\ tpc # "failed" /\ len > 0 => \E o \in Runs(target', in_data') : Tm!Reproduces(o)'
<1>1. file' = file /\ target' = target /\ (\A o : Tm!Reproduces(o)' = Tm!Reproduces(o))
      /\ \A d, p : Stuck(d, p)' = Stuck(d, p)
  BY SettledStays DEF Tm!settled
<1>2. Tm!Weight(file)' = Tm!Weight(file) /\ Tm!Weight(in_data)' = Tm!Weight(in_data)
  BY <1>1 DEF Tm!Weight, Tm!Cardinality
<1>3. TminShrinks'
  BY <1>2 DEF TminInv, TminShrinks
<1>4. in_data' \in Seq(Nat) /\ file' \in Seq(Nat) /\ cur_pass' \in Nat
  BY <1>1 DEF TminInv, TminTypes
<1>5. changed_any' \in BOOLEAN
  BY DEF TminInv, TminTypes
<1>6. tpc # "failed" /\ len > 0 => \E o \in Runs(target', in_data') : Tm!Reproduces(o)'
  BY <1>1 DEF TminInv, TminPlace
<1>. QED  BY <1>1, <1>3, <1>4, <1>5, <1>6

LEMMA TminSmaller == ASSUME TminInv, Tm!SmallerBlocks PROVE TminInv'
<1>0. /\ TminTypes /\ TminPlace /\ tpc = "delete" /\ len > 1 /\ len \in Nat
      /\ len' = len \div 2 /\ pos' = 0 /\ prev_del' = TRUE
      /\ UNCHANGED <<tpc, Tm!settled, in_data, tmp_buf, changed_any, cur_pass, out_data>>
  BY DEF TminInv, Tm!SmallerBlocks, TminTypes
<1>1. /\ in_data' \in Seq(Nat) /\ file' \in Seq(Nat) /\ cur_pass' \in Nat /\ TminShrinks'
      /\ \E o \in Runs(target', in_data') : Tm!Reproduces(o)'
  BY <1>0, TminRest
<1>2. changed_any' \in BOOLEAN
  BY <1>0, TminRest
<1>3. prev_del' \in BOOLEAN
  BY <1>0
<1>4. len' \in Nat /\ len' >= 1
  BY <1>0
<1>5. TminTypes'
  BY <1>0, <1>1, <1>2, <1>3, <1>4 DEF TminTypes
<1>6. TminPlace'
  BY <1>0, <1>1, <1>4 DEF TminPlace
<1>7. TminStuck'
  BY <1>0 DEF TminStuck
<1>. QED  BY <1>1, <1>5, <1>6, <1>7 DEF TminInv

LEMMA TminDeleted == ASSUME TminInv, Tm!DeletionDone PROVE TminInv'
<1>0. /\ TminTypes /\ TminPlace /\ TminStuck /\ tpc = "delete" /\ len >= 1 /\ len \in Nat /\ pos \in Nat
      /\ pos >= Len(in_data) /\ in_data \in Seq(Nat) /\ ~(len > 1 /\ Len(in_data) >= 1)
      /\ tpc' \in {"done", "symbols"} /\ (tpc' = "done" => ~changed_any /\ out_data' = in_data)
      /\ pos' = 1
      /\ UNCHANGED <<Tm!settled, in_data, tmp_buf, len, prev_del, changed_any, cur_pass>>
  BY DEF TminInv, Tm!DeletionDone, TminTypes, TminPlace
<1>1. /\ in_data' \in Seq(Nat) /\ file' \in Seq(Nat) /\ cur_pass' \in Nat /\ TminShrinks'
      /\ \A d, p : Stuck(d, p)' = Stuck(d, p)
      /\ \E o \in Runs(target', in_data') : Tm!Reproduces(o)'
  BY <1>0, TminRest
<1>2. changed_any' \in BOOLEAN
  BY <1>0, TminRest
<1>3. prev_del' \in BOOLEAN
  BY <1>0 DEF TminTypes
<1>5. TminTypes'
  BY <1>0, <1>1, <1>2, <1>3 DEF TminTypes
<1>6. TminPlace'
  BY <1>0, <1>1 DEF TminPlace
<1>7. ~changed_any => \A p \in Nat : p < Len(in_data) => Stuck(in_data, p)
  <2>1. Len(in_data) \in Nat
    BY <1>0, LenProperties
  <2>. SUFFICES ASSUME ~changed_any, NEW p \in Nat, p < Len(in_data) PROVE Stuck(in_data, p)
    OBVIOUS
  <2>2. len = 1 /\ p < pos
    BY <1>0, <2>1
  <2>. QED  BY <1>0, <2>2 DEF TminStuck
<1>8. TminStuck'
  BY <1>0, <1>1, <1>7 DEF TminStuck
<1>. QED  BY <1>1, <1>5, <1>6, <1>8 DEF TminInv

(* The two stages that set bytes to '0': the data stays, or a run on what  *)
(* weighs less has reproduced.                                             *)
LEMMA TminMinimize ==
  ASSUME TminInv, UNCHANGED <<tpc, Tm!settled, len, prev_del, cur_pass, out_data>>, tpc \in {"symbols", "chars"},
         pos' = pos + 1, tpc = "chars" => tmp_buf' = in_data',
         \/ UNCHANGED <<in_data, changed_any>>
         \/ /\ in_data' \in Seq(Nat) /\ Tm!Weight(in_data') < Tm!Weight(in_data) /\ changed_any' = TRUE
            /\ \E o \in Runs(target, in_data') : Tm!Reproduces(o)
  PROVE  TminInv'
<1>0. /\ TminTypes /\ TminPlace /\ TminShrinks /\ TminStuck /\ in_data \in Seq(Nat) /\ in_data' \in Seq(Nat)
      /\ pos \in Nat /\ pos >= 1 /\ len \in Nat /\ len >= 1 /\ cur_pass \in Nat
  BY DEF TminInv, TminTypes, TminPlace
<1>1. Tm!Weight(in_data) \in Nat /\ \A d, p : Stuck(d, p)' = Stuck(d, p)
  BY <1>0, Weighs, SettledStays
<1>2. /\ file' \in Seq(Nat) /\ Tm!Weight(file)' = Tm!Weight(file) /\ Tm!Weight(file) \in Nat
      /\ Tm!Weight(in_data)' = Tm!Weight(in_data') /\ Tm!Weight(in_data') \in Nat
      /\ \E o \in Runs(target', in_data') : Tm!Reproduces(o)'
  BY <1>0, TminFrame
<1>3. changed_any' \in BOOLEAN
  BY <1>0 DEF TminTypes
<1>4. prev_del' \in BOOLEAN
  BY <1>0 DEF TminTypes
<1>5. TminTypes'
  BY <1>0, <1>2, <1>3, <1>4 DEF TminTypes
<1>6. TminPlace'
  BY <1>0, <1>2 DEF TminPlace
<1>7. TminShrinks'
  BY <1>0, <1>1, <1>2 DEF TminShrinks
<1>8. TminStuck'
  BY <1>0, <1>1 DEF TminStuck
<1>. QED  BY <1>5, <1>6, <1>7, <1>8 DEF TminInv

LEMMA TminSymbol == ASSUME TminInv, Tm!MinimizeSymbol PROVE TminInv'
<1>. DEFINE d == Tm!WithoutSymbol(in_data, Symbols[pos])
<1>0. /\ tpc = "symbols" /\ pos' = pos + 1
      /\ UNCHANGED <<tpc, Tm!settled, len, prev_del, cur_pass, out_data>>
  BY DEF Tm!MinimizeSymbol
<1>1. \/ UNCHANGED <<in_data, changed_any>>
      \/ d # in_data /\ in_data' = d /\ changed_any' = TRUE /\ \E o \in Runs(target, d) : Tm!Reproduces(o)
  BY DEF Tm!MinimizeSymbol, Tm!Try
<1>2. d \in Seq(Nat) /\ (d # in_data => Tm!Weight(d) < Tm!Weight(in_data))
  BY WithoutSymbolIs DEF TminInv, TminTypes
<1>. HIDE DEF d
<1>. QED  BY <1>0, <1>1, <1>2, TminMinimize

LEMMA TminCharacter == ASSUME TminInv, Tm!MinimizeCharacter PROVE TminInv'
<1>. DEFINE d == [in_data EXCEPT ![pos] = Plain]
<1>0. /\ tpc = "chars" /\ pos' = pos + 1 /\ pos <= Len(in_data)
      /\ UNCHANGED <<tpc, Tm!settled, len, prev_del, cur_pass, out_data>>
  BY DEF Tm!MinimizeCharacter
<1>1. tmp_buf = in_data /\ in_data \in Seq(Nat) /\ pos \in Nat /\ pos >= 1 /\ Len(in_data) \in Nat
  BY <1>0, LenProperties DEF TminInv, TminPlace, TminTypes
<1>2. \/ UNCHANGED <<in_data, tmp_buf, changed_any>>
      \/ /\ in_data[pos] # Plain /\ in_data' = d /\ tmp_buf' = d /\ changed_any' = TRUE
         /\ \E o \in Runs(target, d) : Tm!Reproduces(o)
  BY <1>1 DEF Tm!MinimizeCharacter, Tm!Try
<1>3. pos \in 1 .. Len(in_data)
  BY <1>0, <1>1
<1>4. in_data[pos] # Plain => d \in Seq(Nat) /\ Tm!Weight(d) < Tm!Weight(in_data)
  BY <1>1, <1>3, OneByteIs
<1>. HIDE DEF d
<1>. QED  BY <1>0, <1>1, <1>2, <1>4, TminMinimize

LEMMA TminSymbolsDone == ASSUME TminInv, Tm!SymbolsDone PROVE TminInv'
<1>0. /\ TminTypes /\ TminPlace /\ TminStuck /\ tpc = "symbols" /\ len >= 1 /\ len \in Nat
      /\ tpc' = "chars" /\ pos' = 1 /\ tmp_buf' = in_data
      /\ UNCHANGED <<Tm!settled, in_data, len, prev_del, changed_any, cur_pass, out_data>>
  BY DEF TminInv, Tm!SymbolsDone, TminTypes, TminPlace
<1>1. /\ in_data' \in Seq(Nat) /\ file' \in Seq(Nat) /\ cur_pass' \in Nat /\ TminShrinks'
      /\ \A d, p : Stuck(d, p)' = Stuck(d, p)
      /\ \E o \in Runs(target', in_data') : Tm!Reproduces(o)'
  BY <1>0, TminRest
<1>2. changed_any' \in BOOLEAN
  BY <1>0, TminRest
<1>3. prev_del' \in BOOLEAN
  BY <1>0 DEF TminTypes
<1>5. TminTypes'
  BY <1>0, <1>1, <1>2, <1>3 DEF TminTypes
<1>6. TminPlace'
  BY <1>0, <1>1 DEF TminPlace
<1>7. TminStuck'
  BY <1>0, <1>1 DEF TminStuck
<1>. QED  BY <1>1, <1>5, <1>6, <1>7 DEF TminInv

(* The two ends: nothing has changed in a pass, or the run is interrupted. *)
LEMMA TminEnds ==
  ASSUME TminInv, UNCHANGED <<Tm!settled, in_data, tmp_buf, pos, len, prev_del, changed_any, cur_pass>>,
         out_data' = in_data, tpc # "failed",
         tpc' = "aborted" \/ (tpc' = "done" /\ tpc = "chars" /\ ~changed_any)
  PROVE  TminInv'
<1>0. TminTypes /\ TminPlace /\ TminStuck
  BY DEF TminInv
<1>1. /\ in_data' \in Seq(Nat) /\ file' \in Seq(Nat) /\ cur_pass' \in Nat /\ TminShrinks'
      /\ \A d, p : Stuck(d, p)' = Stuck(d, p)
      /\ len > 0 => \E o \in Runs(target', in_data') : Tm!Reproduces(o)'
  BY TminRest
<1>2. changed_any' \in BOOLEAN
  BY TminRest
<1>3. prev_del' \in BOOLEAN
  BY <1>0 DEF TminTypes
<1>5. TminTypes'
  BY <1>0, <1>1, <1>2, <1>3 DEF TminTypes
<1>6. TminPlace'
  BY <1>0, <1>1 DEF TminPlace
<1>7. TminStuck'
  BY <1>0, <1>1 DEF TminStuck
<1>. QED  BY <1>1, <1>5, <1>6, <1>7 DEF TminInv

LEMMA TminStep == TminInv /\ (Tm!TminNext \/ UNCHANGED Tm!tminVars) => TminInv'
<1>. SUFFICES ASSUME TminInv PROVE Tm!TminNext \/ UNCHANGED Tm!tminVars => TminInv'
  OBVIOUS
<1>1. Tm!NormalizationDone => TminInv'
  BY TminNewPass DEF Tm!NormalizationDone
<1>2. Tm!PassDone => TminInv'
  <2>1. CASE changed_any
    BY <2>1, TminNewPass DEF Tm!PassDone
  <2>2. CASE ~changed_any
    BY <2>2, TminEnds DEF Tm!PassDone
  <2>. QED  BY <2>1, <2>2
<1>3. Tm!Interrupted => TminInv'
  BY TminEnds DEF Tm!Interrupted
<1>4. UNCHANGED Tm!tminVars => TminInv'
  <2>. SUFFICES ASSUME UNCHANGED Tm!tminVars PROVE TminInv'
    OBVIOUS
  <2>. USE DEF Tm!tminVars
  <2>1. TminTypes' /\ TminPlace' /\ TminShrinks' /\ TminStuck'
    <3>1. UNCHANGED Tm!settled
      BY DEF Tm!settled
    <3>2. TminTypes'
      BY DEF TminInv, TminTypes
    <3>3. TminShrinks' /\ (tpc # "failed" /\ len > 0 => \E o \in Runs(target', in_data') : Tm!Reproduces(o)')
      BY <3>1, TminRest
    <3>4. TminPlace'
      BY <3>3 DEF TminInv, TminPlace
    <3>5. TminStuck'
      BY <3>1, SettledStays DEF TminInv, TminStuck
    <3>. QED  BY <3>2, <3>3, <3>4, <3>5
  <2>. QED  BY <2>1 DEF TminInv
<1>. QED  BY <1>1, <1>2, <1>3, <1>4, TminDryRun, TminNormalize, TminDelete, TminSmaller, TminDeleted, TminSymbol,
             TminSymbolsDone, TminCharacter DEF Tm!TminNext

-----------------------------------------------------------------------------
(* afl-analyze.                                                            *)
(* What a byte is changed to by each of the four changes, and what is in   *)
(* the buffer while they go on.                                            *)
Tried(c, b) == CASE c = 1 -> An!XorAll(b) [] c = 2 -> An!XorOne(b)
                 [] c = 3 -> (b - Delta) % Limit [] c = 4 -> (b + Delta) % Limit
Stands(c, b) == IF c \in {1, 5} THEN b ELSE Tried(c - 1, b)

LEMMA LimitType ==
  Limit \in Nat \ {0} /\ Limit % 2 = 0 /\ Delta \in 1 .. Limit - 1 /\ Documents \subseteq Seq(0 .. Limit - 1) \ {<<>>}
BY ToolsAssumption

LEMMA Remainder == ASSUME NEW x \in Int, NEW m \in Nat \ {0} PROVE x % m \in 0 .. m - 1
OBVIOUS
LEMMA NoWrap == ASSUME NEW x \in Int, NEW m \in Nat \ {0}, 0 <= x, x < m PROVE x % m = x
OBVIOUS
LEMMA WrapDown == ASSUME NEW x \in Int, NEW m \in Nat \ {0}, m <= x, x < 2 * m PROVE x % m = x - m
OBVIOUS
LEMMA WrapTwice == ASSUME NEW x \in Int, NEW m \in Nat \ {0}, 2 * m <= x, x < 3 * m PROVE x % m = x - 2 * m
OBVIOUS
LEMMA WrapUp == ASSUME NEW x \in Int, NEW m \in Nat \ {0}, -m <= x, x < 0 PROVE x % m = x + m
OBVIOUS
LEMMA Halved == ASSUME NEW b \in Nat PROVE b = 2 * (b \div 2) + (b % 2) /\ b % 2 \in {0, 1} /\ b \div 2 \in Nat
OBVIOUS

LEMMA Flips ==
  ASSUME NEW b \in 0 .. Limit - 1
  PROVE  /\ An!XorAll(b) \in 0 .. Limit - 1 /\ An!XorAll(b) # b /\ An!XorAll(An!XorAll(b)) = b
         /\ An!XorOne(b) \in 0 .. Limit - 1 /\ An!XorOne(b) # b /\ An!XorOne(An!XorOne(b)) = b
<1>1. PICK h \in Nat : Limit = 2 * h
  BY LimitType
<1>2. PICK k \in Nat : b = 2 * k \/ b = 2 * k + 1
  <2>1. b = 2 * (b \div 2) + (b % 2) /\ b % 2 \in {0, 1} /\ b \div 2 \in Nat
    BY Halved
  <2>2. b = 2 * (b \div 2) \/ b = 2 * (b \div 2) + 1
    BY <2>1
  <2>. QED  BY <2>1, <2>2
<1>3. b \in Nat /\ b < 2 * h
  BY <1>1
<1>4. An!XorAll(b) \in 0 .. Limit - 1 /\ An!XorAll(b) # b /\ An!XorAll(An!XorAll(b)) = b
  BY <1>1, <1>3 DEF An!XorAll
<1>5. An!XorOne(b) \in 0 .. Limit - 1 /\ An!XorOne(b) # b /\ An!XorOne(An!XorOne(b)) = b
  BY <1>1, <1>2, <1>3 DEF An!XorOne
<1>. QED  BY <1>4, <1>5

LEMMA FourChanges ==
  ASSUME NEW b \in 0 .. Limit - 1
  PROVE  /\ \A c \in 1 .. 4 : Tried(c, b) \in 0 .. Limit - 1 /\ An!Next4(Stands(c, b), c) = Tried(c, b)
         /\ \A c \in 2 .. 4 : Stands(c, b) # b
         /\ An!Restored4(Tried(4, b)) = b
<1>1. Limit \in Nat \ {0} /\ Delta \in 1 .. Limit - 1
  BY LimitType
<1>2. (b - Delta) % Limit = IF b >= Delta THEN b - Delta ELSE b - Delta + Limit
  <2>1. CASE b >= Delta
    <3>1. b - Delta \in Int /\ 0 <= b - Delta /\ b - Delta < Limit
      BY <1>1, <2>1
    <3>2. (b - Delta) % Limit = b - Delta
      BY <1>1, <3>1, NoWrap
    <3>. QED  BY <2>1, <3>2
  <2>2. CASE ~ (b >= Delta)
    <3>1. b - Delta \in Int /\ -Limit <= b - Delta /\ b - Delta < 0
      BY <1>1, <2>2
    <3>2. (b - Delta) % Limit = b - Delta + Limit
      BY <1>1, <3>1, WrapUp
    <3>. QED  BY <2>2, <3>2
  <2>. QED  BY <2>1, <2>2
<1>3. (b + Delta) % Limit = IF b + Delta >= Limit THEN b + Delta - Limit ELSE b + Delta
  <2>1. CASE b + Delta >= Limit
    <3>1. b + Delta \in Int /\ Limit <= b + Delta /\ b + Delta < 2 * Limit
      BY <1>1, <2>1
    <3>2. (b + Delta) % Limit = b + Delta - Limit
      BY <1>1, <3>1, WrapDown
    <3>. QED  BY <2>1, <3>2
  <2>2. CASE ~ (b + Delta >= Limit)
    <3>1. b + Delta \in Int /\ 0 <= b + Delta /\ b + Delta < Limit
      BY <1>1, <2>2
    <3>2. (b + Delta) % Limit = b + Delta
      BY <1>1, <3>1, NoWrap
    <3>. QED  BY <2>2, <3>2
  <2>. QED  BY <2>1, <2>2
<1>4. (((b - Delta) % Limit) + 2 * Delta) % Limit = (b + Delta) % Limit
  <2>. DEFINE x == ((b - Delta) % Limit) + 2 * Delta
  <2>1. x = b + Delta \/ x = b + Delta + Limit
    BY <1>1, <1>2
  <2>2. x \in Int /\ b + Delta >= 0 /\ b + Delta < 2 * Limit
    BY <1>1, <2>1
  <2>. HIDE DEF x
  <2>5. x % Limit = (b + Delta) % Limit
    <3>1. CASE x = b + Delta
      BY <3>1
    <3>2. CASE x = b + Delta + Limit /\ b + Delta >= Limit
      <4>1. 2 * Limit <= x /\ x < 3 * Limit
        BY <1>1, <2>2, <3>2
      <4>2. x % Limit = x - 2 * Limit
        BY <1>1, <2>2, <4>1, WrapTwice
      <4>. QED  BY <1>1, <1>3, <3>2, <4>2
    <3>3. CASE x = b + Delta + Limit /\ ~ (b + Delta >= Limit)
      <4>1. Limit <= x /\ x < 2 * Limit
        BY <1>1, <2>2, <3>3
      <4>2. x % Limit = x - Limit
        BY <1>1, <2>2, <4>1, WrapDown
      <4>. QED  BY <1>1, <1>3, <3>3, <4>2
    <3>. QED  BY <2>1, <3>1, <3>2, <3>3
  <2>. QED  BY <2>5 DEF x
<1>5. (((b + Delta) % Limit) - Delta) % Limit = b
  <2>. DEFINE x == ((b + Delta) % Limit) - Delta
  <2>1. x = b \/ (x = b - Limit /\ x < 0)
    BY <1>1, <1>3
  <2>2. x \in Int /\ -Limit <= x /\ x < Limit
    BY <1>1, <2>1
  <2>. HIDE DEF x
  <2>3. x % Limit = b
    <3>1. CASE x = b
      <4>1. 0 <= x
        BY <3>1
      <4>. QED  BY <1>1, <2>2, <3>1, <4>1, NoWrap
    <3>2. CASE x = b - Limit /\ x < 0
      <4>1. x % Limit = x + Limit
        BY <1>1, <2>2, <3>2, WrapUp
      <4>. QED  BY <1>1, <3>2, <4>1
    <3>. QED  BY <2>1, <3>1, <3>2
  <2>. QED  BY <2>3 DEF x
<1>6. ASSUME NEW c \in 1 .. 4 PROVE Tried(c, b) \in 0 .. Limit - 1 /\ An!Next4(Stands(c, b), c) = Tried(c, b)
  <2>1. c = 1 \/ c = 2 \/ c = 3 \/ c = 4
    OBVIOUS
  <2>2. /\ Tried(1, b) = An!XorAll(b) /\ Tried(2, b) = An!XorOne(b)
        /\ Tried(3, b) = (b - Delta) % Limit /\ Tried(4, b) = (b + Delta) % Limit
    BY DEF Tried
  <2>3. Stands(1, b) = b /\ Stands(2, b) = Tried(1, b) /\ Stands(3, b) = Tried(2, b) /\ Stands(4, b) = Tried(3, b)
    BY DEF Stands
  <2>4. /\ (b - Delta) % Limit \in 0 .. Limit - 1 /\ (b + Delta) % Limit \in 0 .. Limit - 1
        /\ An!XorAll(b) \in 0 .. Limit - 1 /\ An!XorOne(b) \in 0 .. Limit - 1
    BY <1>1, <1>2, <1>3, Flips
  <2>5. \A y : /\ An!Next4(y, 1) = An!XorAll(y) /\ An!Next4(y, 2) = An!XorOne(An!XorAll(y))
               /\ An!Next4(y, 3) = (An!XorOne(y) - Delta) % Limit /\ An!Next4(y, 4) = (y + 2 * Delta) % Limit
    BY DEF An!Next4
  <2>6. An!XorAll(An!XorAll(b)) = b /\ An!XorOne(An!XorOne(b)) = b
    BY Flips
  <2>7. /\ An!Next4(Stands(1, b), 1) = Tried(1, b) /\ An!Next4(Stands(2, b), 2) = Tried(2, b)
        /\ An!Next4(Stands(3, b), 3) = Tried(3, b) /\ An!Next4(Stands(4, b), 4) = Tried(4, b)
    BY <1>4, <2>2, <2>3, <2>5, <2>6
  <2>. QED  BY <2>1, <2>2, <2>4, <2>7
<1>7. ASSUME NEW c \in 2 .. 4 PROVE Stands(c, b) # b
  <2>1. c = 2 \/ c = 3 \/ c = 4
    OBVIOUS
  <2>2. (b - Delta) % Limit # b
    BY <1>1, <1>2
  <2>. QED  BY <2>1, <2>2, Flips DEF Stands, Tried
<1>8. An!Restored4(Tried(4, b)) = b
  BY <1>5 DEF Tried, An!Restored4
<1>. QED  BY <1>6, <1>7, <1>8

AllSums == UNION {An!AnswersOf(i, b) : i \in 1 .. Len(document), b \in 0 .. Limit - 1}
Byte(i) == document[i]
LastByte(r) == report[r].from + report[r].len - 1

AnalyzeTypes ==
  /\ apc \in {"start", "bytes", "dump", "done", "failed", "aborted"}
  /\ document \in Seq(0 .. Limit - 1) \ {<<>>}
  /\ byte \in 1 .. Len(document) + 1 /\ change \in 1 .. 5 /\ seq_byte \in {0, 1}
  /\ buf \in Seq(0 .. Limit - 1) /\ Len(buf) = Len(document)
  /\ sums \in Seq(AllSums) /\ Len(sums) = change - 1
  /\ b_data \in Seq([type : 0 .. 6, bit : {0, 1}]) /\ Len(b_data) = byte - 1
  /\ report \in Seq([from : Nat \ {0}, len : Nat \ {0}, type : 0 .. 6])

(* The byte stands at the change that is next, the others are as they are  *)
(* in the file.                                                            *)
AnalyzeBuffer ==
  /\ \A i \in 1 .. Len(document) : buf[i] = IF i = byte THEN Stands(change, Byte(i)) ELSE Byte(i)
  /\ apc \in {"start", "bytes"} => byte <= Len(document)
  /\ apc = "start" => change = 1 /\ byte = 1
  /\ apc \in {"dump", "done"} => byte = Len(document) + 1

(* Every answer is one to the file with a single byte changed, and bytes   *)
(* that are called a no-op have had four answers like the first one.       *)
NoOp(i) == \A c \in 1 .. 4 : orig \in An!AnswersOf(i, Tried(c, Byte(i)))
AnalyzeAnswered ==
  /\ apc = "bytes" => \A c \in 1 .. change - 1 : sums[c] \in An!AnswersOf(byte, Tried(c, Byte(byte)))
  /\ \A i \in 1 .. byte - 1 : b_data[i].type = 0 => NoOp(i)

(* The runs reported follow one another, from the first byte on.           *)
AnalyzeReport ==
  /\ report # <<>> => apc \in {"dump", "done"} /\ report[1].from = 1
  /\ \A r \in 1 .. Len(report) - 1 : report[r + 1].from = report[r].from + report[r].len
  /\ \A r \in 1 .. Len(report) : LastByte(r) <= Len(document)
  /\ apc = "dump" /\ report # <<>> => LastByte(Len(report)) < Len(document)
  /\ apc = "done" => report # <<>> /\ LastByte(Len(report)) = Len(document)
  /\ \A r \in 1 .. Len(report) : report[r].type = 0 => \A i \in report[r].from .. LastByte(r) : NoOp(i)

AnalyzeInv == AnalyzeTypes /\ AnalyzeBuffer /\ AnalyzeAnswered /\ AnalyzeReport

LEMMA AnalyzeImplies == AnalyzeInv => An!AnalyzeTypeOK /\ An!OneByteAtATime /\ An!ReportIsSound
<1>. SUFFICES ASSUME AnalyzeInv PROVE An!AnalyzeTypeOK /\ An!OneByteAtATime /\ An!ReportIsSound
  OBVIOUS
<1>0. AnalyzeTypes /\ AnalyzeBuffer /\ AnalyzeReport
  BY DEF AnalyzeInv
<1>1. /\ Len(document) \in Nat /\ Len(document) >= 1 /\ DOMAIN document = 1 .. Len(document) /\ DOMAIN buf = 1 .. Len(document)
      /\ Len(report) \in Nat /\ DOMAIN report = 1 .. Len(report) /\ byte \in Nat /\ change \in 1 .. 5
      /\ \A i \in 1 .. Len(document) : document[i] \in 0 .. Limit - 1 /\ buf[i] \in 0 .. Limit - 1
  <2>1. document \in Seq(0 .. Limit - 1) /\ document # <<>> /\ buf \in Seq(0 .. Limit - 1) /\ Len(buf) = Len(document)
    BY <1>0 DEF AnalyzeTypes
  <2>2. Len(document) \in Nat /\ Len(document) >= 1 /\ DOMAIN document = 1 .. Len(document) /\ DOMAIN buf = 1 .. Len(document)
    BY <2>1, LenProperties, EmptySeq
  <2>3. \A i \in 1 .. Len(document) : document[i] \in 0 .. Limit - 1 /\ buf[i] \in 0 .. Limit - 1
    BY <2>1, ElementOfSeq
  <2>4. Len(report) \in Nat /\ DOMAIN report = 1 .. Len(report)
    BY <1>0, LenProperties DEF AnalyzeTypes
  <2>. QED  BY <1>0, <2>2, <2>3, <2>4 DEF AnalyzeTypes
<1>2. An!AnalyzeTypeOK
  BY <1>0, <1>1 DEF An!AnalyzeTypeOK, AnalyzeTypes
<1>3. An!OneByteAtATime
  <2>1. ASSUME NEW i \in DOMAIN buf, i # byte \/ change \in {1, 5} PROVE buf[i] = document[i]
    BY <1>0, <1>1, <2>1 DEF AnalyzeBuffer, Stands, Byte
  <2>2. ASSUME apc = "bytes", change \in 2 .. 4 PROVE buf[byte] # document[byte]
    <3>1. byte \in 1 .. Len(document)
      BY <1>0, <1>1, <2>2 DEF AnalyzeBuffer, AnalyzeTypes
    <3>2. buf[byte] = Stands(change, document[byte])
      BY <1>0, <3>1 DEF AnalyzeBuffer, Byte
    <3>. QED  BY <1>1, <2>2, <3>1, <3>2, FourChanges
  <2>. QED  BY <2>1, <2>2 DEF An!OneByteAtATime
<1>4. \A r \in 1 .. Len(report) : report[r].from \in Nat /\ report[r].len \in Nat /\ report[r].len >= 1 /\ report[r].from >= 1
  <2>1. \A r \in 1 .. Len(report) : report[r] \in [from : Nat \ {0}, len : Nat \ {0}, type : 0 .. 6]
    BY <1>0, ElementOfSeq DEF AnalyzeTypes
  <2>. QED  BY <2>1
<1>5. An!ReportIsSound
  <2>1. ASSUME apc = "done" PROVE report[1].from = 1 /\ report[Len(report)].from + report[Len(report)].len = Len(document) + 1
    <3>1. report # <<>> /\ LastByte(Len(report)) = Len(document) /\ report[1].from = 1
      BY <1>0, <2>1 DEF AnalyzeReport
    <3>2. Len(report) \in 1 .. Len(report)
      BY <1>0, <1>1, <3>1, EmptySeq DEF AnalyzeTypes
    <3>. QED  BY <1>1, <1>4, <3>1, <3>2 DEF LastByte
  <2>2. ASSUME NEW r \in DOMAIN report, report[r].type = An!Resp.none,
               NEW i \in report[r].from .. report[r].from + report[r].len - 1,
               NEW b \in {An!XorAll(document[i]), An!XorOne(document[i]),
                          (document[i] - Delta) % Limit, (document[i] + Delta) % Limit}
        PROVE  orig \in An!AnswersOf(i, b)
    <3>1. report[r].type = 0
      BY <2>2 DEF An!Resp
    <3>2. NoOp(i)
      BY <1>0, <1>1, <3>1 DEF AnalyzeReport, LastByte
    <3>3. \A c \in 1 .. 4 : orig \in An!AnswersOf(i, Tried(c, document[i]))
      BY <3>2 DEF NoOp, Byte
    <3>4. /\ Tried(1, document[i]) = An!XorAll(document[i]) /\ Tried(2, document[i]) = An!XorOne(document[i])
          /\ Tried(3, document[i]) = (document[i] - Delta) % Limit /\ Tried(4, document[i]) = (document[i] + Delta) % Limit
      BY DEF Tried
    <3>5. \E c \in 1 .. 4 : b = Tried(c, document[i])
      BY <3>4
    <3>. QED  BY <3>3, <3>5
  <2>3. \A r \in 1 .. Len(report) - 1 : report[r + 1].from = report[r].from + report[r].len
    BY <1>0 DEF AnalyzeReport
  <2>. QED  BY <2>1, <2>2, <2>3 DEF An!ReportIsSound
<1>. QED  BY <1>2, <1>3, <1>5

LEMMA AnalyzeStart == An!AnalyzeInit => AnalyzeInv
<1>. SUFFICES ASSUME An!AnalyzeInit PROVE AnalyzeInv
  OBVIOUS
<1>0. /\ apc = "start" /\ document \in Documents /\ buf = document /\ byte = 1 /\ change = 1 /\ sums = <<>>
      /\ seq_byte = 0 /\ b_data = <<>> /\ report = <<>>
  BY DEF An!AnalyzeInit
<1>1. document \in Seq(0 .. Limit - 1) \ {<<>>}
  BY <1>0, LimitType
<1>2. Len(document) \in Nat /\ Len(document) >= 1
  BY <1>1, LenProperties, EmptySeq
<1>3. AnalyzeTypes
  <2>1. sums \in Seq(AllSums) /\ b_data \in Seq([type : 0 .. 6, bit : {0, 1}])
        /\ report \in Seq([from : Nat \ {0}, len : Nat \ {0}, type : 0 .. 6])
    BY <1>0, EmptySeq
  <2>2. Len(sums) = 0 /\ Len(b_data) = 0
    BY <1>0, EmptySeq
  <2>. QED  BY <1>0, <1>1, <1>2, <2>1, <2>2 DEF AnalyzeTypes
<1>4. AnalyzeBuffer
  BY <1>0, <1>2 DEF AnalyzeBuffer, Stands, Byte
<1>5. AnalyzeAnswered
  BY <1>0 DEF AnalyzeAnswered
<1>6. AnalyzeReport
  <2>1. Len(report) = 0
    BY <1>0, EmptySeq
  <2>. QED  BY <1>0, <2>1 DEF AnalyzeReport
<1>. QED  BY <1>3, <1>4, <1>5, <1>6 DEF AnalyzeInv

LEMMA AnalyzeSame ==
  ASSUME UNCHANGED <<program, document>>
  PROVE  /\ \A i, b : An!AnswersOf(i, b)' = An!AnswersOf(i, b)
         /\ AllSums' = AllSums /\ \A i : Byte(i)' = Byte(i)
         /\ orig' = orig => \A i : NoOp(i)' = NoOp(i)
<1>1. \A i, b : An!AnswersOf(i, b)' = An!AnswersOf(i, b)
  BY DEF An!AnswersOf
<1>2. AllSums' = AllSums
  BY <1>1 DEF AllSums
<1>3. \A i : Byte(i)' = Byte(i)
  BY DEF Byte
<1>4. orig' = orig => \A i : NoOp(i)' = NoOp(i)
  BY <1>1, <1>3 DEF NoOp
<1>. QED  BY <1>1, <1>2, <1>3, <1>4

LEMMA AnalyzeSized ==
  ASSUME AnalyzeInv
  PROVE  /\ document \in Seq(0 .. Limit - 1) /\ Len(document) \in Nat /\ Len(document) >= 1 /\ DOMAIN document = 1 .. Len(document)
         /\ buf \in Seq(0 .. Limit - 1) /\ DOMAIN buf = 1 .. Len(document) /\ Len(buf) = Len(document)
         /\ byte \in Nat /\ byte >= 1 /\ byte <= Len(document) + 1 /\ change \in 1 .. 5
         /\ \A i \in 1 .. Len(document) : Byte(i) \in 0 .. Limit - 1 /\ document[i] = Byte(i)
<1>0. AnalyzeTypes
  BY DEF AnalyzeInv
<1>1. document \in Seq(0 .. Limit - 1) /\ document # <<>> /\ buf \in Seq(0 .. Limit - 1) /\ Len(buf) = Len(document)
  BY <1>0 DEF AnalyzeTypes
<1>2. Len(document) \in Nat /\ Len(document) >= 1 /\ DOMAIN document = 1 .. Len(document) /\ DOMAIN buf = 1 .. Len(document)
  BY <1>1, LenProperties, EmptySeq
<1>3. \A i \in 1 .. Len(document) : document[i] \in 0 .. Limit - 1
  BY <1>1, ElementOfSeq
<1>. QED  BY <1>0, <1>1, <1>2, <1>3 DEF AnalyzeTypes, Byte

LEMMA AnalyzeFirst == ASSUME AnalyzeInv, An!FirstRun PROVE AnalyzeInv'
<1>0. /\ AnalyzeTypes /\ AnalyzeBuffer /\ AnalyzeAnswered /\ AnalyzeReport
      /\ apc = "start" /\ apc' \in {"failed", "bytes"} /\ change = 1 /\ byte = 1
      /\ UNCHANGED <<program, document, buf, byte, change, sums, prev_sums, seq_byte, b_data, report>>
  BY DEF AnalyzeInv, An!FirstRun, AnalyzeBuffer
<1>1. AllSums' = AllSums /\ \A i : Byte(i)' = Byte(i)
  BY <1>0, AnalyzeSame
<1>2. AnalyzeTypes'
  BY <1>0, <1>1 DEF AnalyzeTypes
<1>3. AnalyzeBuffer'
  BY <1>0, <1>1 DEF AnalyzeBuffer
<1>4. AnalyzeAnswered'
  BY <1>0 DEF AnalyzeAnswered
<1>5. AnalyzeReport'
  <2>1. report' = <<>>
    BY <1>0 DEF AnalyzeReport
  <2>2. Len(report') = 0
    BY <2>1, EmptySeq
  <2>. QED  BY <1>0, <2>1, <2>2 DEF AnalyzeReport
<1>. QED  BY <1>2, <1>3, <1>4, <1>5 DEF AnalyzeInv

LEMMA AnalyzeChange == ASSUME AnalyzeInv, An!ChangeByte PROVE AnalyzeInv'
<1>. DEFINE b == Byte(byte)
            data == [buf EXCEPT ![byte] = An!Next4(@, change)]
<1>0. /\ AnalyzeTypes /\ AnalyzeBuffer /\ AnalyzeAnswered /\ AnalyzeReport
      /\ apc = "bytes" /\ change <= 4 /\ change' = change + 1
      /\ UNCHANGED <<apc, program, document, byte, orig, prev_sums, seq_byte, b_data, report>>
  BY DEF AnalyzeInv, An!ChangeByte
<1>1. /\ document \in Seq(0 .. Limit - 1) /\ Len(document) \in Nat /\ Len(document) >= 1 /\ DOMAIN document = 1 .. Len(document)
      /\ buf \in Seq(0 .. Limit - 1) /\ DOMAIN buf = 1 .. Len(document) /\ Len(buf) = Len(document)
      /\ byte \in 1 .. Len(document) /\ change \in 1 .. 4
      /\ \A i \in 1 .. Len(document) : Byte(i) \in 0 .. Limit - 1 /\ document[i] = Byte(i)
  BY <1>0, AnalyzeSized DEF AnalyzeBuffer
<1>2. /\ \A i, x : An!AnswersOf(i, x)' = An!AnswersOf(i, x)
      /\ AllSums' = AllSums /\ (\A i : Byte(i)' = Byte(i)) /\ \A i : NoOp(i)' = NoOp(i)
  BY <1>0, AnalyzeSame
<1>3. b \in 0 .. Limit - 1 /\ buf[byte] = Stands(change, b)
  BY <1>0, <1>1 DEF AnalyzeBuffer
<1>4. Tried(change, b) \in 0 .. Limit - 1 /\ An!Next4(Stands(change, b), change) = Tried(change, b) /\ An!Restored4(Tried(4, b)) = b
  BY <1>1, <1>3, FourChanges
<1>5. data = [document EXCEPT ![byte] = Tried(change, b)]
  <2>1. \A i \in 1 .. Len(document) : data[i] = IF i = byte THEN Tried(change, b) ELSE document[i]
    BY <1>0, <1>1, <1>3, <1>4 DEF AnalyzeBuffer
  <2>2. data = [i \in 1 .. Len(document) |-> data[i]]
    BY <1>1
  <2>3. [document EXCEPT ![byte] = Tried(change, b)]
          = [i \in 1 .. Len(document) |-> IF i = byte THEN Tried(change, b) ELSE document[i]]
    BY <1>1
  <2>. HIDE DEF data
  <2>. QED  BY <2>1, <2>2, <2>3
<1>6. PICK a \in Answers(program, data) :
        /\ sums' = Append(sums, An!Checksum(a))
        /\ buf' = IF change = 4 THEN [data EXCEPT ![byte] = An!Restored4(@)] ELSE data
  BY DEF An!ChangeByte
<1>7. An!Checksum(a) \in An!AnswersOf(byte, Tried(change, b))
  BY <1>5, <1>6 DEF An!AnswersOf
<1>8. An!Checksum(a) \in AllSums
  BY <1>1, <1>4, <1>7 DEF AllSums
<1>. HIDE DEF data
<1>9. /\ sums \in Seq(AllSums) /\ Len(sums) = change - 1
      /\ sums' \in Seq(AllSums) /\ Len(sums') = change /\ sums'[change] = An!Checksum(a)
      /\ \A c \in 1 .. change - 1 : sums'[c] = sums[c]
  <2>1. sums \in Seq(AllSums) /\ Len(sums) = change - 1
    BY <1>0 DEF AnalyzeTypes
  <2>. QED  BY <1>1, <1>6, <1>8, <2>1, AppendProperties
<1>10. /\ DOMAIN buf' = 1 .. Len(document) /\ buf' = [i \in DOMAIN buf' |-> buf'[i]]
       /\ \A i \in 1 .. Len(document) : buf'[i] = IF i = byte THEN Stands(change + 1, b) ELSE document[i]
  <2>1. CASE change = 4
    <3>1. buf' = [data EXCEPT ![byte] = An!Restored4(@)]
      BY <1>6, <2>1
    <3>2. DOMAIN data = 1 .. Len(document) /\ \A i \in 1 .. Len(document) : data[i] = IF i = byte THEN Tried(4, b) ELSE document[i]
      BY <1>1, <1>5, <2>1
    <3>3. Stands(change + 1, b) = b
      BY <2>1 DEF Stands
    <3>4. buf' = [i \in 1 .. Len(document) |-> IF i = byte THEN b ELSE document[i]]
      BY <1>1, <1>4, <3>1, <3>2
    <3>. QED  BY <3>3, <3>4
  <2>2. CASE change # 4
    <3>1. buf' = [document EXCEPT ![byte] = Tried(change, b)]
      BY <1>5, <1>6, <2>2
    <3>2. Stands(change + 1, b) = Tried(change, b)
      BY <1>1, <2>2 DEF Stands
    <3>. QED  BY <1>1, <3>1, <3>2
  <2>. QED  BY <2>1, <2>2
<1>11. \A i \in 1 .. Len(document) : buf'[i] \in 0 .. Limit - 1
  <2>1. Stands(change + 1, b) \in 0 .. Limit - 1
    BY <1>1, <1>3, <1>4 DEF Stands
  <2>. QED  BY <1>1, <1>10, <2>1
<1>12. buf' \in Seq(0 .. Limit - 1) /\ Len(buf') = Len(document)
  <2>. DEFINE e == buf'
              n == Len(document)
              T == 0 .. Limit - 1
  <2>1. n \in Nat /\ e = [i \in DOMAIN e |-> e[i]] /\ DOMAIN e = 1 .. n /\ \A i \in 1 .. n : e[i] \in T
    BY <1>1, <1>10, <1>11
  <2>2. e \in Seq(T) /\ Len(e) = n
    <3>. HIDE DEF e, n, T
    <3>. QED  BY <2>1, OfLength
  <2>. QED  BY <2>2
<1>13. AnalyzeTypes'
  BY <1>0, <1>1, <1>2, <1>9, <1>12 DEF AnalyzeTypes
<1>14. AnalyzeBuffer'
  <2>1. \A i \in 1 .. Len(document') : buf'[i] = IF i = byte' THEN Stands(change', Byte(i)') ELSE Byte(i)'
    BY <1>0, <1>1, <1>2, <1>10
  <2>. QED  BY <1>0, <1>1, <2>1 DEF AnalyzeBuffer
<1>15. AnalyzeAnswered'
  <2>1. ASSUME NEW c \in 1 .. change PROVE sums'[c] \in An!AnswersOf(byte, Tried(c, b))
    <3>1. CASE c = change
      BY <1>7, <1>9, <3>1
    <3>2. CASE c # change
      <4>1. c \in 1 .. change - 1
        BY <1>1, <3>2
      <4>. QED  BY <1>0, <1>9, <4>1 DEF AnalyzeAnswered
    <3>. QED  BY <3>1, <3>2
  <2>2. \A c \in 1 .. change' - 1 : (sums[c] \in An!AnswersOf(byte, Tried(c, Byte(byte))))'
    BY <1>0, <1>1, <1>2, <2>1
  <2>3. \A i \in 1 .. byte' - 1 : b_data'[i].type = 0 => NoOp(i)'
    BY <1>0, <1>2 DEF AnalyzeAnswered
  <2>. QED  BY <2>2, <2>3 DEF AnalyzeAnswered
<1>16. AnalyzeReport'
  BY <1>0, <1>2 DEF AnalyzeReport, LastByte
<1>. QED  BY <1>13, <1>14, <1>15, <1>16 DEF AnalyzeInv

LEMMA AnalyzeClassify == ASSUME AnalyzeInv, An!ClassifyByte PROVE AnalyzeInv'
<1>0. /\ AnalyzeTypes /\ AnalyzeBuffer /\ AnalyzeAnswered /\ AnalyzeReport
      /\ apc = "bytes" /\ change > 4 /\ change' = 1 /\ byte' = byte + 1 /\ sums' = <<>>
      /\ seq_byte' \in {seq_byte, 1 - seq_byte}
      /\ b_data' = Append(b_data, [type |-> An!Response, bit |-> seq_byte'])
      /\ apc' = IF byte = Len(buf) THEN "dump" ELSE "bytes"
      /\ UNCHANGED <<program, document, buf, orig, report>>
  BY DEF AnalyzeInv, An!ClassifyByte
<1>1. /\ Len(document) \in Nat /\ Len(document) >= 1 /\ Len(buf) = Len(document)
      /\ byte \in 1 .. Len(document) /\ change = 5
  BY <1>0, AnalyzeSized DEF AnalyzeBuffer
<1>2. AllSums' = AllSums /\ (\A i : Byte(i)' = Byte(i)) /\ \A i : NoOp(i)' = NoOp(i)
  BY <1>0, AnalyzeSame
<1>3. An!Response \in 0 .. 6 /\ (An!Response = 0 => \A c \in 1 .. 4 : sums[c] = orig)
  <2>. DEFINE same == {c \in 1 .. 4 : sums[c] = orig}
  <2>1. An!Resp.none = 0 /\ An!Resp.minor = 1 /\ An!Resp.variable = 2 /\ An!Resp.fixed = 3
    BY DEF An!Resp
  <2>2. \/ same = 1 .. 4 /\ An!Response = 0
        \/ An!Response \in {1, 2, 3}
    BY <2>1 DEF An!Response
  <2>3. same = 1 .. 4 => \A c \in 1 .. 4 : sums[c] = orig
    OBVIOUS
  <2>. HIDE DEF same
  <2>. QED  BY <2>2, <2>3
<1>4. An!Response = 0 => NoOp(byte)
  BY <1>0, <1>1, <1>3 DEF AnalyzeAnswered, NoOp
<1>5. seq_byte' \in {0, 1}
  BY <1>0 DEF AnalyzeTypes
<1>6. /\ b_data' \in Seq([type : 0 .. 6, bit : {0, 1}]) /\ Len(b_data') = byte
      /\ b_data'[byte].type = An!Response /\ \A i \in 1 .. byte - 1 : b_data'[i] = b_data[i]
  <2>. DEFINE e == [type |-> An!Response, bit |-> seq_byte']
              T == [type : 0 .. 6, bit : {0, 1}]
  <2>1. e \in T /\ e.type = An!Response
    BY <1>3, <1>5
  <2>2. b_data \in Seq(T) /\ Len(b_data) = byte - 1 /\ b_data' = Append(b_data, e)
    BY <1>0 DEF AnalyzeTypes
  <2>3. b_data' \in Seq(T) /\ Len(b_data') = byte /\ b_data'[byte] = e /\ \A i \in 1 .. byte - 1 : b_data'[i] = b_data[i]
    <3>. HIDE DEF e, T
    <3>. QED  BY <1>1, <2>1, <2>2, AppendProperties
  <2>. QED  BY <2>1, <2>3
<1>7. sums' \in Seq(AllSums') /\ Len(sums') = 0
  BY <1>0, EmptySeq
<1>8. AnalyzeTypes'
  BY <1>0, <1>1, <1>5, <1>6, <1>7 DEF AnalyzeTypes
<1>9. AnalyzeBuffer'
  <2>1. \A i \in 1 .. Len(document) : buf[i] = Byte(i)
    BY <1>0, <1>1 DEF AnalyzeBuffer, Stands
  <2>2. \A i \in 1 .. Len(document') : buf'[i] = IF i = byte' THEN Stands(change', Byte(i)') ELSE Byte(i)'
    BY <1>0, <1>2, <2>1 DEF Stands
  <2>. QED  BY <1>0, <1>1, <2>2 DEF AnalyzeBuffer
<1>10. AnalyzeAnswered'
  <2>1. ASSUME NEW i \in 1 .. byte, b_data'[i].type = 0 PROVE NoOp(i)
    <3>1. CASE i = byte
      BY <1>4, <1>6, <2>1, <3>1
    <3>2. CASE i # byte
      <4>1. i \in 1 .. byte - 1
        BY <1>1, <3>2
      <4>. QED  BY <1>0, <1>6, <2>1, <4>1 DEF AnalyzeAnswered
    <3>. QED  BY <3>1, <3>2
  <2>2. \A i \in 1 .. byte' - 1 : b_data'[i].type = 0 => NoOp(i)'
    <3>1. byte' - 1 = byte
      BY <1>0, <1>1
    <3>2. \A i \in 1 .. byte : b_data'[i].type = 0 => NoOp(i)'
      BY <1>2, <2>1
    <3>. QED  BY <3>1, <3>2
  <2>3. change' - 1 = 0
    BY <1>0
  <2>. QED  BY <2>2, <2>3 DEF AnalyzeAnswered
<1>11. AnalyzeReport'
  <2>1. report = <<>>
    BY <1>0 DEF AnalyzeReport
  <2>2. Len(report) = 0
    BY <2>1, EmptySeq
  <2>. QED  BY <1>0, <2>1, <2>2 DEF AnalyzeReport
<1>. QED  BY <1>8, <1>9, <1>10, <1>11 DEF AnalyzeInv

(* A run of bytes ends within the file, at the first byte whose bit        *)
(* differs from that of the byte after it.                                 *)
LEMMA RunEnds ==
  ASSUME NEW i \in 1 .. Len(b_data), Len(b_data) \in Nat
  PROVE  An!RunEnd(i) \in i .. Len(b_data)
<1>. DEFINE n == Len(b_data)
            Stops(e) == e = n \/ b_data[e + 1].bit # b_data[i].bit
            T == {e \in i .. n : Stops(e)}
<1>1. n \in T /\ T \subseteq Nat
  OBVIOUS
<1>2. PICK m \in T : \A k \in T : m <= k
  <2>. HIDE DEF T
  <2>. QED  BY <1>1, LeastNat
<1>3. ASSUME NEW k \in i .. m PROVE b_data[k].bit = b_data[i].bit
  <2>1. CASE k = i
    BY <2>1
  <2>2. CASE k # i
    <3>1. k - 1 \in i .. n /\ k - 1 < m /\ k - 1 # n
      BY <2>2
    <3>2. k - 1 \notin T
      <4>. HIDE DEF T
      <4>. QED  BY <1>1, <1>2, <3>1
    <3>3. b_data[(k - 1) + 1].bit = b_data[i].bit
      BY <3>1, <3>2
    <3>. QED  BY <3>3
  <2>. QED  BY <2>1, <2>2
<1>4. \E e \in i .. n : /\ \A k \in i .. e : b_data[k].bit = b_data[i].bit
                        /\ e = n \/ b_data[e + 1].bit # b_data[i].bit
  BY <1>3
<1>. QED  BY <1>4 DEF An!RunEnd

LEMMA StrongestIs ==
  ASSUME NEW i \in Nat, NEW e \in Nat, i <= e, \A k \in i .. e : b_data[k].type \in 0 .. 6
  PROVE  An!Strongest(i, e) \in 0 .. 6 /\ \A k \in i .. e : b_data[k].type <= An!Strongest(i, e)
<1>. DEFINE T == {b_data[k].type : k \in i .. e}
            D == {6 - t : t \in T}
<1>1. T \subseteq 0 .. 6 /\ b_data[i].type \in T
  OBVIOUS
<1>2. D \subseteq Nat /\ D # {}
  <2>. HIDE DEF T
  <2>. QED  BY <1>1
<1>3. PICK m \in D : \A k \in D : m <= k
  <2>. HIDE DEF D
  <2>. QED  BY <1>2, LeastNat
<1>4. PICK t \in T : m = 6 - t
  BY <1>3
<1>5. \A u \in T : u <= t
  <2>. HIDE DEF T
  <2>1. \A u \in T : 6 - t <= 6 - u
    BY <1>3, <1>4
  <2>. QED  BY <1>1, <1>4, <2>1
<1>6. \E x \in T : \A k \in i .. e : b_data[k].type <= x
  BY <1>5
<1>7. An!Strongest(i, e) \in T /\ \A k \in i .. e : b_data[k].type <= An!Strongest(i, e)
  BY <1>6 DEF An!Strongest
<1>. QED  BY <1>1, <1>7

LEMMA RefinedIs == \A d : An!Refined(d) \in {3, 4, 5, 6}
BY DEF An!Refined, An!Resp

LEMMA AnalyzeDump == ASSUME AnalyzeInv, An!DumpRun PROVE AnalyzeInv'
<1>. DEFINE n == Len(report)
            from == IF report = <<>> THEN 1 ELSE report[n].from + report[n].len
            end == An!RunEnd(from)
            type == An!Strongest(from, end)
            shown == IF type = An!Resp.fixed THEN An!Refined(SubSeq(buf, from, end)) ELSE type
            R == [from : Nat \ {0}, len : Nat \ {0}, type : 0 .. 6]
            new == [from |-> from, len |-> end - from + 1, type |-> shown]
<1>0. /\ AnalyzeTypes /\ AnalyzeBuffer /\ AnalyzeAnswered /\ AnalyzeReport
      /\ apc = "dump" /\ report' = Append(report, new) /\ apc' = IF end = Len(b_data) THEN "done" ELSE "dump"
      /\ UNCHANGED <<program, document, buf, byte, change, orig, sums, prev_sums, seq_byte, b_data>>
  BY DEF AnalyzeInv, An!DumpRun
<1>1. /\ Len(document) \in Nat /\ Len(document) >= 1 /\ byte = Len(document) + 1 /\ Len(b_data) = Len(document)
      /\ report \in Seq(R) /\ n \in Nat /\ (report = <<>> <=> n = 0)
      /\ \A r \in 1 .. n : report[r] \in R
      /\ \A i \in 1 .. Len(document) : b_data[i].type \in 0 .. 6 /\ (b_data[i].type = 0 => NoOp(i))
  <2>1. Len(document) \in Nat /\ Len(document) >= 1 /\ byte = Len(document) + 1
    BY <1>0, AnalyzeSized DEF AnalyzeBuffer
  <2>2. b_data \in Seq([type : 0 .. 6, bit : {0, 1}]) /\ Len(b_data) = Len(document)
    BY <1>0, <2>1 DEF AnalyzeTypes
  <2>3. report \in Seq(R)
    BY <1>0 DEF AnalyzeTypes
  <2>4. \A i \in 1 .. Len(document) : b_data[i] \in [type : 0 .. 6, bit : {0, 1}]
    BY <2>2, ElementOfSeq
  <2>5. n \in Nat /\ (report = <<>> <=> n = 0) /\ \A r \in 1 .. n : report[r] \in R
    <3>. HIDE DEF R
    <3>. QED  BY <2>3, ElementOfSeq, LenProperties, EmptySeq
  <2>. QED  BY <1>0, <2>1, <2>2, <2>3, <2>4, <2>5 DEF AnalyzeAnswered
<1>2. from \in 1 .. Len(document)
  <2>1. CASE report = <<>>
    BY <1>1, <2>1
  <2>2. CASE report # <<>>
    <3>1. n \in 1 .. n /\ LastByte(n) < Len(document)
      BY <1>0, <1>1, <2>2 DEF AnalyzeReport
    <3>2. report[n].from \in Nat \ {0} /\ report[n].len \in Nat \ {0}
      BY <1>1, <3>1
    <3>. QED  BY SMTT(40), <1>1, <2>2, <3>1, <3>2 DEF LastByte
  <2>. QED  BY <2>1, <2>2
<1>3. end \in from .. Len(document)
  <2>. HIDE DEF from
  <2>. QED  BY <1>1, <1>2, RunEnds
<1>4. type \in 0 .. 6 /\ \A k \in from .. end : b_data[k].type <= type
  <2>. HIDE DEF from, end
  <2>1. from \in Nat /\ end \in Nat /\ from <= end /\ \A k \in from .. end : b_data[k].type \in 0 .. 6
    BY <1>1, <1>2, <1>3
  <2>. QED  BY <2>1, StrongestIs
<1>5. shown \in 0 .. 6 /\ (shown = 0 => type = 0)
  <2>. HIDE DEF from, end, type
  <2>1. An!Refined(SubSeq(buf, from, end)) \in {3, 4, 5, 6}
    BY RefinedIs
  <2>. QED  BY <1>4, <2>1
<1>6. shown = 0 => \A i \in from .. end : NoOp(i)
  <2>. SUFFICES ASSUME shown = 0, NEW i \in from .. end PROVE NoOp(i)
    OBVIOUS
  <2>. HIDE DEF from, end, type, shown
  <2>1. i \in 1 .. Len(document)
    BY <1>1, <1>2, <1>3
  <2>2. b_data[i].type \in 0 .. 6 /\ b_data[i].type <= 0
    BY <1>1, <1>4, <1>5, <2>1
  <2>3. b_data[i].type = 0
    BY <2>2
  <2>. QED  BY <1>1, <2>1, <2>3
<1>7. new \in R /\ new.from = from /\ new.len = end - from + 1 /\ new.type = shown
  <2>. HIDE DEF from, end, type, shown
  <2>. QED  BY <1>1, <1>2, <1>3, <1>5
<1>8. /\ report' \in Seq(R) /\ Len(report') = n + 1 /\ report'[n + 1] = new
      /\ \A r \in 1 .. n : report'[r] = report[r]
  <2>. HIDE DEF R, new
  <2>. QED  BY <1>0, <1>1, <1>7, AppendProperties
<1>9. AllSums' = AllSums /\ (\A i : Byte(i)' = Byte(i)) /\ \A i : NoOp(i)' = NoOp(i)
  BY <1>0, AnalyzeSame
<1>10. AnalyzeTypes'
  <2>1. apc' \in {"dump", "done"}
    BY <1>0
  <2>. HIDE DEF new, from, end, type, shown, n
  <2>. QED  BY <1>0, <1>8, <1>9, <2>1 DEF AnalyzeTypes
<1>11. AnalyzeBuffer'
  <2>1. apc' \in {"dump", "done"}
    BY <1>0
  <2>. QED  BY <1>0, <1>9, <2>1 DEF AnalyzeBuffer
<1>12. AnalyzeAnswered'
  <2>1. apc' \in {"dump", "done"}
    BY <1>0
  <2>. QED  BY <1>0, <1>9, <2>1 DEF AnalyzeAnswered
<1>13. PICK m \in Nat : m = n
  BY <1>1
<1>14. /\ m = 0 => from = 1
       /\ m # 0 => from = report[m].from + report[m].len
       /\ report' \in Seq(R) /\ Len(report') = m + 1 /\ report'[m + 1] = new /\ Len(report) = m
       /\ \A r \in 1 .. m : report'[r] = report[r]
  BY <1>1, <1>8, <1>13
<1>. HIDE DEF new, from, end, type, shown, n
<1>15. (\A r \in 1 .. m : LastByte(r)' = LastByte(r)) /\ LastByte(m + 1)' = end
  <2>1. \A r \in 1 .. m : LastByte(r)' = LastByte(r)
    BY <1>14 DEF LastByte
  <2>2. from + (end - from + 1) - 1 = end
    BY <1>1, <1>2, <1>3
  <2>3. LastByte(m + 1)' = new.from + new.len - 1
    BY <1>14 DEF LastByte
  <2>. QED  BY <1>7, <2>1, <2>2, <2>3
<1>16. AnalyzeReport'
  <2>1. report' # <<>> /\ report'[1].from = 1
    <3>1. report' # <<>>
      BY <1>14, EmptySeq
    <3>2. CASE m = 0
      BY <1>7, <1>14, <3>1, <3>2
    <3>3. CASE m # 0
      <4>1. report[1].from = 1 /\ 1 \in 1 .. m
        BY <1>0, <1>1, <1>13, <3>3 DEF AnalyzeReport
      <4>. QED  BY <1>14, <3>1, <4>1
    <3>. QED  BY <3>2, <3>3
  <2>2. ASSUME NEW r \in 1 .. m PROVE report'[r + 1].from = report'[r].from + report'[r].len
    <3>1. CASE r = m
      BY <1>7, <1>14, <2>2, <3>1
    <3>2. CASE r # m
      <4>1. r \in 1 .. m - 1 /\ r + 1 \in 1 .. m
        BY <3>2
      <4>. QED  BY <1>0, <1>14, <4>1 DEF AnalyzeReport
    <3>. QED  BY <3>1, <3>2
  <2>3. ASSUME NEW r \in 1 .. m + 1
        PROVE  LastByte(r)' <= Len(document) /\ (report'[r].type = 0 => \A i \in report'[r].from .. LastByte(r)' : NoOp(i))
    <3>1. CASE r = m + 1
      <4>1. end <= Len(document)
        BY <1>1, <1>2, <1>3
      <4>2. LastByte(r)' = end /\ report'[r] = new
        BY <1>14, <1>15, <3>1
      <4>. QED  BY <1>6, <1>7, <4>1, <4>2
    <3>2. CASE r # m + 1
      <4>1. r \in 1 .. m
        BY <3>2
      <4>2. LastByte(r) <= Len(document) /\ (report[r].type = 0 => \A i \in report[r].from .. LastByte(r) : NoOp(i))
        BY <1>0, <1>14, <4>1 DEF AnalyzeReport
      <4>. QED  BY <1>14, <1>15, <4>1, <4>2
    <3>. QED  BY <3>1, <3>2
  <2>4. apc' \in {"dump", "done"} /\ (apc' = "dump" => end < Len(document)) /\ (apc' = "done" => end = Len(document))
    BY <1>0, <1>1, <1>2, <1>3
  <2>5. Len(report') - 1 = m
    BY <1>14
  <2>6. \A r \in 1 .. Len(report') - 1 : report'[r + 1].from = report'[r].from + report'[r].len
    BY <2>2, <2>5
  <2>7. \A r \in 1 .. Len(report') : LastByte(r)' <= Len(document')
    BY <1>0, <1>14, <2>3
  <2>8. \A r \in 1 .. Len(report') : report'[r].type = 0 => \A i \in report'[r].from .. LastByte(r)' : NoOp(i)'
    BY <1>9, <1>14, <2>3
  <2>9. LastByte(Len(report))' = end
    <3>1. LastByte(Len(report))' = report'[Len(report')].from + report'[Len(report')].len - 1
      BY DEF LastByte
    <3>2. LastByte(m + 1)' = report'[m + 1].from + report'[m + 1].len - 1
      BY DEF LastByte
    <3>. QED  BY <1>14, <1>15, <3>1, <3>2
  <2>10. (apc' = "dump" => LastByte(Len(report))' < Len(document')) /\ (apc' = "done" => LastByte(Len(report))' = Len(document'))
    BY <1>0, <2>4, <2>9
  <2>. QED  BY <2>1, <2>4, <2>6, <2>7, <2>8, <2>10 DEF AnalyzeReport
<1>. QED  BY <1>10, <1>11, <1>12, <1>16 DEF AnalyzeInv

LEMMA AnalyzeStep == AnalyzeInv /\ (An!AnalyzeNext \/ UNCHANGED An!analyzeVars) => AnalyzeInv'
<1>. SUFFICES ASSUME AnalyzeInv PROVE An!AnalyzeNext \/ UNCHANGED An!analyzeVars => AnalyzeInv'
  OBVIOUS
<1>1. An!AnalysisAborted => AnalyzeInv'
  <2>. SUFFICES ASSUME An!AnalysisAborted PROVE AnalyzeInv'
    OBVIOUS
  <2>0. /\ AnalyzeTypes /\ AnalyzeBuffer /\ AnalyzeAnswered /\ AnalyzeReport /\ apc \in {"start", "bytes"} /\ apc' = "aborted"
        /\ UNCHANGED <<program, document, buf, byte, change, orig, sums, prev_sums, seq_byte, b_data, report>>
    BY DEF AnalyzeInv, An!AnalysisAborted
  <2>1. AllSums' = AllSums /\ (\A i : Byte(i)' = Byte(i)) /\ \A i : NoOp(i)' = NoOp(i)
    BY <2>0, AnalyzeSame
  <2>2. AnalyzeTypes'
    BY <2>0, <2>1 DEF AnalyzeTypes
  <2>3. AnalyzeBuffer'
    BY <2>0, <2>1 DEF AnalyzeBuffer
  <2>4. AnalyzeAnswered'
    BY <2>0, <2>1 DEF AnalyzeAnswered
  <2>5. AnalyzeReport'
    <3>1. report' = <<>>
      BY <2>0 DEF AnalyzeReport
    <3>2. Len(report') = 0
      BY <3>1, EmptySeq
    <3>. QED  BY <2>0, <3>1, <3>2 DEF AnalyzeReport
  <2>. QED  BY <2>2, <2>3, <2>4, <2>5 DEF AnalyzeInv
<1>2. UNCHANGED An!analyzeVars => AnalyzeInv'
  <2>. SUFFICES ASSUME UNCHANGED An!analyzeVars PROVE AnalyzeInv'
    OBVIOUS
  <2>0. /\ AnalyzeTypes /\ AnalyzeBuffer /\ AnalyzeAnswered /\ AnalyzeReport
        /\ UNCHANGED <<apc, program, document, buf, byte, change, orig, sums, prev_sums, seq_byte, b_data, report>>
    BY DEF AnalyzeInv, An!analyzeVars
  <2>1. (\A i, b : An!AnswersOf(i, b)' = An!AnswersOf(i, b)) /\ AllSums' = AllSums /\ (\A i : Byte(i)' = Byte(i))
        /\ \A i : NoOp(i)' = NoOp(i)
    BY <2>0, AnalyzeSame
  <2>2. AnalyzeTypes'
    BY <2>0, <2>1 DEF AnalyzeTypes
  <2>3. AnalyzeBuffer'
    BY <2>0, <2>1 DEF AnalyzeBuffer
  <2>4. AnalyzeAnswered'
    BY <2>0, <2>1 DEF AnalyzeAnswered
  <2>5. AnalyzeReport'
    BY <2>0, <2>1 DEF AnalyzeReport, LastByte
  <2>. QED  BY <2>2, <2>3, <2>4, <2>5 DEF AnalyzeInv
<1>. QED  BY <1>1, <1>2, AnalyzeFirst, AnalyzeChange, AnalyzeClassify, AnalyzeDump DEF An!AnalyzeNext

-----------------------------------------------------------------------------
(* afl-cmin: what a file shows, and who has it.                            *)
Shows(i) == Cm!Showmap(corpus[i], flags.edges_only, FALSE, flags.crashes_only)
FilesAt == 1 .. Len(corpus)
Linked == out_dir.linked
LeastWith(t, i) == t \in Shows(i) /\ \A j \in FilesAt : t \in Shows(j) => corpus[i].size <= corpus[j].size

Unit(i) == LET above == {p \in {10, 100, 1000, 10000, 100000} : i < p}
           IN  CHOOSE p \in above : \A q \in above : p <= q

LEMMA IndexIs == ASSUME NEW i, i \in Indices PROVE i \in Int /\ i >= 0 /\ i < 100000
<1>1. i \in Int /\ 0 <= i /\ i <= 65535
  BY SMTT(30) DEF Indices
<1>. QED  BY <1>1, SMTT(30)

LEMMA UnitIs ==
  ASSUME NEW i, i \in Indices
  PROVE  \/ Unit(i) = 10 /\ i < 10
         \/ Unit(i) = 100 /\ 10 <= i /\ i < 100
         \/ Unit(i) = 1000 /\ 100 <= i /\ i < 1000
         \/ Unit(i) = 10000 /\ 1000 <= i /\ i < 10000
         \/ Unit(i) = 100000 /\ 10000 <= i
<1>. DEFINE above == {p \in {10, 100, 1000, 10000, 100000} : i < p}
<1>7. i \in Int /\ i >= 0 /\ i < 100000
  BY IndexIs, SMT
<1>1. \A p : p \in above <=> p \in {10, 100, 1000, 10000, 100000} /\ i < p
  BY SMT
<1>2. above \subseteq Nat /\ 100000 \in above
  BY <1>7, SMT
<1>3. Unit(i) = CHOOSE p \in above : \A q \in above : p <= q
  BY SMT DEF Unit
<1>. HIDE DEF above
<1>4. \E p \in above : \A q \in above : p <= q
  <2>1. above \subseteq Nat /\ above # {}
    BY <1>2, SMT
  <2>. QED  BY <2>1, LeastNat
<1>5. Unit(i) \in above /\ \A q \in above : Unit(i) <= q
  BY <1>3, <1>4
<1>6. Unit(i) \in {10, 100, 1000, 10000, 100000} /\ i < Unit(i)
  BY <1>1, <1>5, SMT
<1>8. (i < 10 => Unit(i) <= 10) /\ (i < 100 => Unit(i) <= 100)
  BY <1>1, <1>5, SMT
<1>9. (i < 1000 => Unit(i) <= 1000) /\ (i < 10000 => Unit(i) <= 10000)
  BY <1>1, <1>5, SMT
<1>. QED  BY <1>6, <1>7, <1>8, <1>9, SMT

(* The printed form of a tuple, its class and its index with nothing       *)
(* between, stands for one tuple only: a class is a single digit.          *)
LEMMA TupleNameOnce ==
  ASSUME NEW c \in 1 .. 8, NEW e \in 1 .. 8, NEW i, i \in Indices, NEW j, j \in Indices,
         Cm!TupleName(c, i) = Cm!TupleName(e, j)
  PROVE  c = e /\ i = j
<1>1. Cm!TupleName(c, i) = c * Unit(i) + i /\ Cm!TupleName(e, j) = e * Unit(j) + j
  BY SMT DEF Cm!TupleName, Unit
<1>2. \/ Unit(i) = 10 /\ i < 10
      \/ Unit(i) = 100 /\ 10 <= i /\ i < 100
      \/ Unit(i) = 1000 /\ 100 <= i /\ i < 1000
      \/ Unit(i) = 10000 /\ 1000 <= i /\ i < 10000
      \/ Unit(i) = 100000 /\ 10000 <= i
  BY UnitIs, SMT
<1>3. \/ Unit(j) = 10 /\ j < 10
      \/ Unit(j) = 100 /\ 10 <= j /\ j < 100
      \/ Unit(j) = 1000 /\ 100 <= j /\ j < 1000
      \/ Unit(j) = 10000 /\ 1000 <= j /\ j < 10000
      \/ Unit(j) = 100000 /\ 10000 <= j
  BY UnitIs, SMT
<1>4. i \in Int /\ j \in Int /\ i >= 0 /\ j >= 0 /\ i < 100000 /\ j < 100000
  BY IndexIs, SMT
<1>5. c * Unit(i) + i = e * Unit(j) + j
  BY <1>1
<1>6. Unit(i) = Unit(j)
  <2>. SUFFICES ASSUME Unit(i) # Unit(j) PROVE FALSE
    OBVIOUS
  <2>1. CASE Unit(i) = 10
    BY <1>2, <1>3, <1>4, <1>5, <2>1, SMT
  <2>2. CASE Unit(i) = 100
    BY <1>2, <1>3, <1>4, <1>5, <2>2, SMT
  <2>3. CASE Unit(i) = 1000
    BY <1>2, <1>3, <1>4, <1>5, <2>3, SMT
  <2>4. CASE Unit(i) = 10000
    BY <1>2, <1>3, <1>4, <1>5, <2>4, SMT
  <2>5. CASE Unit(i) = 100000
    BY <1>2, <1>3, <1>4, <1>5, <2>5, SMT
  <2>. QED  BY <1>2, <2>1, <2>2, <2>3, <2>4, <2>5
<1>7. c = e
  <2>1. c * Unit(i) + i = e * Unit(i) + j
    BY <1>5, <1>6
  <2>2. -Unit(i) < i - j /\ i - j < Unit(i)
    BY <1>2, <1>3, <1>4, <1>6, SMT
  <2>. QED  BY <1>2, <1>4, <2>1, <2>2, SMT
<1>8. c * Unit(i) + i = c * Unit(i) + j
  BY <1>5, <1>6, <1>7
<1>9. c * Unit(i) \in Int
  BY <1>2, SMT
<1>. QED  BY <1>4, <1>7, <1>8, <1>9, SMT

LEMMA HumanClassIs == ASSUME NEW n \in Nat PROVE Cm!HumanClass(n) \in 0 .. 8
<1>1. CASE n <= 3
  BY <1>1, SMT DEF Cm!HumanClass
<1>2. CASE n \in 4 .. 7
  BY <1>2, SMT DEF Cm!HumanClass
<1>3. CASE n \in 8 .. 15
  BY <1>3, SMT DEF Cm!HumanClass
<1>4. CASE n \in 16 .. 31
  BY <1>4, SMT DEF Cm!HumanClass
<1>5. CASE n \in 32 .. 127
  BY <1>5, SMT DEF Cm!HumanClass
<1>6. CASE n > 127
  BY <1>6, SMT DEF Cm!HumanClass
<1>. QED  BY <1>1, <1>2, <1>3, <1>4, <1>5, <1>6, SMT

CorpusType ==
  /\ corpus \in Seq({corpus[i] : i \in DOMAIN corpus})
  /\ \A i \in FilesAt :
       /\ corpus[i].size \in Nat /\ DOMAIN corpus[i].trace \subseteq Indices
       /\ \A b \in DOMAIN corpus[i].trace : corpus[i].trace[b] \in Nat
  /\ flags \in [edges_only : BOOLEAN, crashes_only : BOOLEAN]

Class(i) == Cm!Classes(corpus[i].trace, flags.edges_only)

LEMMA ClassesAre ==
  ASSUME CorpusType, NEW i \in FilesAt
  PROVE  DOMAIN Class(i) \subseteq Indices /\ \A b \in DOMAIN Class(i) : Class(i)[b] \in 0 .. 8
<1>1. DOMAIN Class(i) = DOMAIN corpus[i].trace /\ DOMAIN corpus[i].trace \subseteq Indices
      /\ \A b \in DOMAIN corpus[i].trace : corpus[i].trace[b] \in Nat
  BY DEF CorpusType, Class, Cm!Classes
<1>2. ASSUME NEW b \in DOMAIN corpus[i].trace PROVE Class(i)[b] \in 0 .. 8
  <2>1. \/ Class(i)[b] \in {0, 1}
        \/ Class(i)[b] = Cm!HumanClass(corpus[i].trace[b])
    BY <1>2 DEF Class, Cm!Classes
  <2>. QED  BY <1>1, <2>1, HumanClassIs
<1>. QED  BY <1>1, <1>2

(* A usable file shows its edges and no others, under names of their own.  *)
LEMMA ShowsEdges ==
  ASSUME CorpusType, NEW i \in FilesAt
  PROVE  /\ ~Cm!Usable(corpus[i]) => Shows(i) = {}
         /\ Cm!Usable(corpus[i]) =>
              /\ \A x \in Shows(i) : \E b \in Indices : \E c \in 1 .. 8 : x = Cm!TupleName(c, b) /\ <<b, c>> \in Cm!Edges(corpus[i])
              /\ \A b, c : <<b, c>> \in Cm!Edges(corpus[i]) =>
                   b \in Indices /\ c \in 1 .. 8 /\ Cm!TupleName(c, b) \in Shows(i)
<1>1. Cm!Usable(corpus[i]) <=> ~Cm!Filtered(corpus[i], FALSE, flags.crashes_only)
  <2>1. flags.crashes_only \in BOOLEAN /\ Cm!Crashed(corpus[i]) \in BOOLEAN
    BY DEF CorpusType, Cm!Crashed
  <2>. QED  BY <2>1 DEF Cm!Usable, Cm!Filtered
<1>2. ~Cm!Usable(corpus[i]) => Shows(i) = {}
  BY <1>1 DEF Shows, Cm!Showmap
<1>3. ASSUME Cm!Usable(corpus[i])
      PROVE  Shows(i) = {Cm!TupleName(Class(i)[b], b) : b \in {x \in DOMAIN Class(i) : Class(i)[x] # 0}}
  BY <1>1, <1>3 DEF Shows, Cm!Showmap, Class
<1>4. Cm!Edges(corpus[i]) = {<<b, Class(i)[b]>> : b \in {x \in DOMAIN Class(i) : Class(i)[x] # 0}}
  BY DEF Cm!Edges, Class
<1>5. \A b \in DOMAIN Class(i) : Class(i)[b] # 0 => b \in Indices /\ Class(i)[b] \in 1 .. 8
  BY ClassesAre
<1>6. ASSUME Cm!Usable(corpus[i])
      PROVE  /\ \A x \in Shows(i) : \E b \in Indices : \E c \in 1 .. 8 : x = Cm!TupleName(c, b) /\ <<b, c>> \in Cm!Edges(corpus[i])
             /\ \A b, c : <<b, c>> \in Cm!Edges(corpus[i]) => b \in Indices /\ c \in 1 .. 8 /\ Cm!TupleName(c, b) \in Shows(i)
  <2>1. ASSUME NEW x \in Shows(i)
        PROVE  \E b \in Indices : \E c \in 1 .. 8 : x = Cm!TupleName(c, b) /\ <<b, c>> \in Cm!Edges(corpus[i])
    <3>1. PICK b \in DOMAIN Class(i) : Class(i)[b] # 0 /\ x = Cm!TupleName(Class(i)[b], b)
      BY <1>3, <1>6
    <3>. QED  BY <1>4, <1>5, <3>1
  <2>2. ASSUME NEW b, NEW c, <<b, c>> \in Cm!Edges(corpus[i])
        PROVE  b \in Indices /\ c \in 1 .. 8 /\ Cm!TupleName(c, b) \in Shows(i)
    <3>1. b \in DOMAIN Class(i) /\ Class(i)[b] # 0 /\ c = Class(i)[b]
      BY <1>4, <2>2
    <3>. QED  BY <1>3, <1>5, <1>6, <3>1
  <2>. QED  BY <2>1, <2>2
<1>. QED  BY <1>2, <1>6

AllShown == UNION {Shows(i) : i \in FilesAt}
Covered(n) == UNION {Shows(Linked[m]) : m \in 1 .. n}

CminTypes ==
  /\ cpc \in {"off", "setup", "test", "collect", "candidates", "write", "done", "failed"}
  /\ CorpusType
  /\ "linked" \in DOMAIN out_dir
  /\ Linked \in Seq(FilesAt) /\ Len(traces) <= Len(corpus) /\ starts \in Nat /\ starts <= CminRuns

(* The traces are those of the files, as far as they have been run.        *)
CminTraces ==
  /\ traces \in Seq({Shows(i) : i \in FilesAt})
  /\ \A i \in 1 .. Len(traces) : traces[i] = Shows(i)
  /\ cpc \in {"candidates", "write"} => Len(traces) = Len(corpus)
  /\ cpc \in {"test", "collect", "candidates"} => Linked = <<>> /\ already_have = {}
  /\ cpc = "candidates" => DOMAIN all_uniq = AllShown

(* Every tuple that has been looked at is covered, and every linked file   *)
(* came for a tuple that those before it had not, as the smallest with it. *)
CminLinks ==
  cpc \in {"write", "done"} =>
    /\ \A n \in 1 .. Len(Linked) : \E t : LeastWith(t, Linked[n]) /\ t \notin Covered(n - 1)
    /\ AllShown \subseteq DOMAIN all_uniq \cup Covered(Len(Linked))
    /\ DOMAIN all_uniq \subseteq AllShown
    /\ cpc = "write" => /\ already_have = Covered(Len(Linked))
                        /\ \A t \in AllShown : best_file[t] \in FilesAt /\ LeastWith(t, best_file[t])
    /\ cpc = "done" => DOMAIN all_uniq = {}

CminInv == CminTypes /\ CminTraces /\ CminLinks

LEMMA CminStart == Cm!CminInit => CminInv
<1>. SUFFICES ASSUME Cm!CminInit PROVE CminInv
  OBVIOUS
<1>0. /\ cpc = "off" /\ corpus \in Corpora /\ flags \in [edges_only : BOOLEAN, crashes_only : BOOLEAN]
      /\ traces = <<>> /\ starts = 0 /\ Linked = <<>> /\ "linked" \in DOMAIN out_dir
  BY DEF Cm!CminInit, Linked
<1>1. /\ corpus \in Seq({corpus[i] : i \in DOMAIN corpus}) /\ CminRuns \in Nat
      /\ \A i \in DOMAIN corpus :
           /\ corpus[i].size \in Nat /\ DOMAIN corpus[i].trace \subseteq Indices
           /\ \A b \in DOMAIN corpus[i].trace : corpus[i].trace[b] \in Nat
  BY <1>0, CminAssumption, Zenon
<1>2. DOMAIN corpus = FilesAt /\ Len(corpus) \in Nat
  <2>1. corpus \in Seq({corpus[i] : i \in DOMAIN corpus})
    BY <1>1
  <2>. QED  BY <2>1, LenProperties DEF FilesAt
<1>3. CorpusType
  BY <1>0, <1>1, <1>2, Zenon DEF CorpusType
<1>4. CminTypes
  <2>1. Linked \in Seq(FilesAt) /\ Len(traces) = 0
    BY <1>0, EmptySeq
  <2>. QED  BY <1>0, <1>1, <1>2, <1>3, <2>1 DEF CminTypes
<1>5. CminTraces
  BY <1>0, EmptySeq DEF CminTraces
<1>6. CminLinks
  BY <1>0 DEF CminLinks
<1>. QED  BY <1>4, <1>5, <1>6 DEF CminInv

LEMMA CminImplies == CminInv => Cm!CminTypeOK /\ Cm!CorpusIsCovered /\ Cm!SmallestIsKept
<1>. SUFFICES ASSUME CminInv PROVE Cm!CminTypeOK /\ Cm!CorpusIsCovered /\ Cm!SmallestIsKept
  OBVIOUS
<1>0. CminTypes /\ CminTraces /\ CminLinks
  BY DEF CminInv
<1>1. /\ Len(corpus) \in Nat /\ DOMAIN corpus = FilesAt /\ Len(Linked) \in Nat /\ DOMAIN out_dir.linked = 1 .. Len(Linked)
      /\ \A n \in 1 .. Len(Linked) : Linked[n] \in FilesAt
  <2>1. Len(corpus) \in Nat /\ DOMAIN corpus = FilesAt
    BY <1>0, LenProperties DEF CminTypes, CorpusType, FilesAt
  <2>2. Linked \in Seq(FilesAt)
    BY <1>0 DEF CminTypes
  <2>3. Len(Linked) \in Nat /\ DOMAIN Linked = 1 .. Len(Linked) /\ \A n \in 1 .. Len(Linked) : Linked[n] \in FilesAt
    BY <2>2, LenProperties, ElementOfSeq
  <2>. QED  BY <2>1, <2>3 DEF Linked
<1>2. Cm!CminTypeOK
  BY <1>0, <1>1 DEF CminTypes, Cm!CminTypeOK, Linked
<1>. SUFFICES ASSUME cpc = "done" PROVE Cm!CorpusIsCovered /\ Cm!SmallestIsKept
  BY <1>2 DEF Cm!CorpusIsCovered, Cm!SmallestIsKept
<1>3. /\ \A n \in 1 .. Len(Linked) : \E t : LeastWith(t, Linked[n]) /\ t \notin Covered(n - 1)
      /\ AllShown \subseteq Covered(Len(Linked))
  BY <1>0 DEF CminLinks
<1>4. ASSUME NEW i \in FilesAt, Shows(i) # {} PROVE Cm!Usable(corpus[i])
  BY <1>0, <1>4, ShowsEdges DEF CminTypes
<1>5. ASSUME NEW i \in FilesAt, NEW x \in Shows(i)
      PROVE  \E b \in Indices : \E c \in 1 .. 8 : x = Cm!TupleName(c, b) /\ <<b, c>> \in Cm!Edges(corpus[i])
  BY <1>0, <1>4, ShowsEdges DEF CminTypes
<1>6. ASSUME NEW i \in FilesAt, NEW b, NEW c, Cm!Usable(corpus[i]), <<b, c>> \in Cm!Edges(corpus[i])
      PROVE  b \in Indices /\ c \in 1 .. 8 /\ Cm!TupleName(c, b) \in Shows(i)
  BY <1>0, <1>6, ShowsEdges DEF CminTypes
<1>7. ASSUME NEW i \in FilesAt, NEW j \in FilesAt, NEW b, NEW c, Cm!Usable(corpus[i]), <<b, c>> \in Cm!Edges(corpus[i]),
             Cm!TupleName(c, b) \in Shows(j)
      PROVE  <<b, c>> \in Cm!Edges(corpus[j])
  <2>1. b \in Indices /\ c \in 1 .. 8
    BY <1>6, <1>7
  <2>2. PICK x \in Indices, y \in 1 .. 8 : Cm!TupleName(c, b) = Cm!TupleName(y, x) /\ <<x, y>> \in Cm!Edges(corpus[j])
    BY <1>5, <1>7
  <2>3. c = y /\ b = x
    BY <2>1, <2>2, TupleNameOnce
  <2>. QED  BY <2>2, <2>3
<1>8. ASSUME NEW i \in FilesAt, NEW e \in Cm!Edges(corpus[i]) PROVE \E b, c : e = <<b, c>>
  BY DEF Cm!Edges
<1>9. \A k \in Cm!Kept : \E n \in 1 .. Len(Linked) : k = Linked[n]
  BY <1>1 DEF Cm!Kept, Linked
<1>10. \A n \in 1 .. Len(Linked) : Linked[n] \in Cm!Kept
  BY <1>1 DEF Cm!Kept, Linked
<1>11. ASSUME NEW i \in DOMAIN corpus, Cm!Usable(corpus[i]), NEW e \in Cm!Edges(corpus[i])
       PROVE  e \in UNION {Cm!Edges(corpus[k]) : k \in Cm!Kept}
  <2>1. i \in FilesAt
    BY <1>1
  <2>2. PICK b, c : e = <<b, c>>
    BY <1>8, <2>1
  <2>3. Cm!TupleName(c, b) \in Shows(i)
    BY <1>6, <1>11, <2>1, <2>2
  <2>4. Cm!TupleName(c, b) \in Covered(Len(Linked))
    BY <1>3, <2>1, <2>3 DEF AllShown
  <2>5. PICK m \in 1 .. Len(Linked) : Cm!TupleName(c, b) \in Shows(Linked[m])
    BY <2>4 DEF Covered
  <2>6. e \in Cm!Edges(corpus[Linked[m]])
    BY <1>1, <1>7, <1>11, <2>1, <2>2, <2>5
  <2>. QED  BY <1>10, <2>6
<1>12. ASSUME NEW n \in 1 .. Len(Linked) PROVE Cm!Usable(corpus[Linked[n]])
  <2>1. Shows(Linked[n]) # {} /\ Linked[n] \in FilesAt
    BY <1>1, <1>3 DEF LeastWith
  <2>. QED  BY <1>4, <2>1
<1>13. ASSUME NEW n \in 1 .. Len(Linked)
       PROVE  \E e \in Cm!Edges(corpus[Linked[n]]) :
                /\ e \notin UNION {Cm!Edges(corpus[Linked[m]]) : m \in 1 .. n - 1}
                /\ \A i \in FilesAt : Cm!Usable(corpus[i]) /\ e \in Cm!Edges(corpus[i]) => corpus[Linked[n]].size <= corpus[i].size
  <2>1. Linked[n] \in FilesAt
    BY <1>1
  <2>2. PICK t : LeastWith(t, Linked[n]) /\ t \notin Covered(n - 1)
    BY <1>3
  <2>3. PICK b \in Indices, c \in 1 .. 8 : t = Cm!TupleName(c, b) /\ <<b, c>> \in Cm!Edges(corpus[Linked[n]])
    BY <1>5, <2>1, <2>2 DEF LeastWith
  <2>4. ASSUME NEW m \in 1 .. n - 1 PROVE <<b, c>> \notin Cm!Edges(corpus[Linked[m]])
    <3>1. m \in 1 .. Len(Linked) /\ Linked[m] \in FilesAt
      BY <1>1
    <3>2. Cm!Usable(corpus[Linked[m]]) /\ t \notin Shows(Linked[m])
      BY <1>12, <2>2, <3>1 DEF Covered
    <3>. QED  BY <1>6, <2>3, <3>1, <3>2
  <2>5. ASSUME NEW i \in FilesAt, Cm!Usable(corpus[i]), <<b, c>> \in Cm!Edges(corpus[i])
        PROVE  corpus[Linked[n]].size <= corpus[i].size
    <3>1. t \in Shows(i)
      BY <1>6, <2>3, <2>5
    <3>. QED  BY <2>2, <3>1 DEF LeastWith
  <2>. QED  BY <2>3, <2>4, <2>5
<1>14. Cm!CorpusIsCovered
  <2>1. \A i \in DOMAIN corpus : Cm!Usable(corpus[i]) =>
          Cm!Edges(corpus[i]) \subseteq UNION {Cm!Edges(corpus[k]) : k \in Cm!Kept}
    BY <1>11
  <2>2. \A k \in Cm!Kept : Cm!Usable(corpus[k])
    BY <1>9, <1>12
  <2>3. ASSUME NEW n \in DOMAIN out_dir.linked
        PROVE  ~(Cm!Edges(corpus[out_dir.linked[n]]) \subseteq UNION {Cm!Edges(corpus[out_dir.linked[m]]) : m \in 1 .. n - 1})
    <3>1. n \in 1 .. Len(Linked)
      BY <1>1
    <3>. QED  BY <1>13, <3>1 DEF Linked
  <2>. QED  BY <2>1, <2>2, <2>3 DEF Cm!CorpusIsCovered
<1>15. Cm!SmallestIsKept
  BY <1>1, <1>9, <1>13 DEF Cm!SmallestIsKept
<1>. QED  BY <1>14, <1>15

LEMMA CminSame ==
  ASSUME UNCHANGED <<corpus, flags>>
  PROVE  /\ (\A i : Shows(i)' = Shows(i)) /\ FilesAt' = FilesAt /\ AllShown' = AllShown
         /\ \A t, i : LeastWith(t, i)' = LeastWith(t, i)
         /\ CorpusType => CorpusType'
<1>1. \A i : Shows(i)' = Shows(i)
  BY DEF Shows, Cm!Showmap, Cm!Classes, Cm!Filtered, Cm!Crashed
<1>2. FilesAt' = FilesAt
  BY DEF FilesAt
<1>3. AllShown' = AllShown
  BY <1>1, <1>2 DEF AllShown
<1>4. \A t, i : LeastWith(t, i)' = LeastWith(t, i)
  BY <1>1, <1>2 DEF LeastWith
<1>5. CorpusType => CorpusType'
  BY <1>2 DEF CorpusType
<1>. QED  BY <1>1, <1>2, <1>3, <1>4, <1>5

(* The steps that keep what is linked and what has been shown, and do not  *)
(* lead to a place where more is known.                                    *)
LEMMA CminRest ==
  ASSUME CminInv, UNCHANGED <<corpus, flags, out_dir, traces>>, starts' \in Nat, starts' <= CminRuns,
         cpc' \in {"off", "setup", "failed"}
  PROVE  CminInv'
<1>0. CminTypes /\ CminTraces /\ CminLinks
  BY DEF CminInv
<1>1. (\A i : Shows(i)' = Shows(i)) /\ FilesAt' = FilesAt /\ (CorpusType => CorpusType')
  BY CminSame
<1>2. CminTypes'
  BY <1>0, <1>1 DEF CminTypes, Linked
<1>3. CminTraces'
  BY <1>0, <1>1 DEF CminTraces
<1>4. CminLinks'
  BY DEF CminLinks
<1>. QED  BY <1>2, <1>3, <1>4 DEF CminInv

LEMMA CminSetup == ASSUME CminInv, Cm!Setup PROVE CminInv'
<1>0. /\ CminTypes /\ CminTraces /\ cpc' \in {"failed", "test"} /\ Linked' = <<>> /\ traces' = <<>> /\ already_have' = {}
      /\ "linked" \in DOMAIN out_dir'
      /\ UNCHANGED <<corpus, flags, starts>>
  BY DEF CminInv, Cm!Setup, Linked
<1>1. FilesAt' = FilesAt /\ CorpusType' /\ Len(corpus) \in Nat
  BY <1>0, CminSame, LenProperties DEF CminTypes, CorpusType
<1>2. Linked' \in Seq(FilesAt') /\ traces' \in Seq({Shows(i)' : i \in FilesAt'}) /\ Len(traces') = 0
  BY <1>0, EmptySeq
<1>3. CminTypes'
  BY <1>0, <1>1, <1>2 DEF CminTypes
<1>4. CminTraces'
  BY <1>0, <1>2 DEF CminTraces
<1>5. CminLinks'
  BY <1>0 DEF CminLinks
<1>. QED  BY <1>3, <1>4, <1>5 DEF CminInv

LEMMA CminTest == ASSUME CminInv, Cm!TestRun PROVE CminInv'
<1>0. /\ CminTypes /\ CminTraces /\ cpc = "test" /\ cpc' \in {"collect", "failed"}
      /\ UNCHANGED <<corpus, flags, out_dir, traces, best_file, all_uniq, already_have, starts>>
  BY DEF CminInv, Cm!TestRun
<1>1. (\A i : Shows(i)' = Shows(i)) /\ FilesAt' = FilesAt /\ CorpusType'
  BY <1>0, CminSame DEF CminTypes
<1>2. CminTypes'
  BY <1>0, <1>1 DEF CminTypes, Linked
<1>3. CminTraces'
  BY <1>0, <1>1 DEF CminTraces, Linked
<1>4. CminLinks'
  BY <1>0 DEF CminLinks
<1>. QED  BY <1>2, <1>3, <1>4 DEF CminInv

LEMMA CminCollect == ASSUME CminInv, Cm!CollectTrace PROVE CminInv'
<1>. DEFINE n == Len(traces)
            T == {Shows(i) : i \in FilesAt}
<1>0. /\ CminTypes /\ CminTraces /\ cpc = "collect" /\ n < Len(corpus) /\ traces' = Append(traces, Shows(n + 1))
      /\ UNCHANGED <<cpc, corpus, flags, out_dir, best_file, all_uniq, already_have, starts>>
  BY DEF CminInv, Cm!CollectTrace, Shows
<1>1. (\A i : Shows(i)' = Shows(i)) /\ FilesAt' = FilesAt /\ CorpusType'
  BY <1>0, CminSame DEF CminTypes
<1>2. n \in Nat /\ Len(corpus) \in Nat
  BY <1>0, LenProperties DEF CminTypes, CminTraces, CorpusType
<1>3. Shows(n + 1) \in T
  BY <1>0, <1>2 DEF FilesAt
<1>4. traces' \in Seq(T) /\ Len(traces') = n + 1 /\ traces'[n + 1] = Shows(n + 1) /\ \A i \in 1 .. n : traces'[i] = traces[i]
  <2>1. traces \in Seq(T)
    BY <1>0 DEF CminTraces
  <2>. HIDE DEF T
  <2>. QED  BY <1>0, <1>3, <2>1, AppendProperties
<1>5. CminTypes'
  BY <1>0, <1>1, <1>2, <1>4 DEF CminTypes, Linked
<1>6. CminTraces'
  <2>1. traces' \in Seq({Shows(i)' : i \in FilesAt'})
    BY <1>1, <1>4
  <2>2. ASSUME NEW i \in 1 .. n + 1 PROVE traces'[i] = Shows(i)
    <3>1. i = n + 1 \/ i \in 1 .. n
      BY <1>2
    <3>. QED  BY <1>0, <1>4, <3>1 DEF CminTraces
  <2>3. \A i \in 1 .. Len(traces') : traces'[i] = Shows(i)'
    BY <1>1, <1>4, <2>2
  <2>. QED  BY <1>0, <2>1, <2>3 DEF CminTraces, Linked
<1>7. CminLinks'
  BY <1>0 DEF CminLinks
<1>. QED  BY <1>5, <1>6, <1>7 DEF CminInv

LEMMA CminAll ==
  ASSUME CminInv, Len(traces) = Len(corpus)
  PROVE  /\ Cm!AllTuples = AllShown
         /\ \A t : Cm!With(t) = {i \in FilesAt : t \in Shows(i)}
<1>1. DOMAIN traces = FilesAt
  BY LenProperties DEF CminInv, CminTraces, FilesAt
<1>2. \A i \in FilesAt : traces[i] = Shows(i)
  BY DEF CminInv, CminTraces, FilesAt
<1>3. Cm!AllTuples = AllShown
  BY <1>1, <1>2 DEF Cm!AllTuples, AllShown
<1>4. \A t : Cm!With(t) = {i \in FilesAt : t \in Shows(i)}
  BY <1>1, <1>2 DEF Cm!With
<1>. QED  BY <1>3, <1>4

LEMMA CminSort == ASSUME CminInv, Cm!SortTuples PROVE CminInv'
<1>0. /\ CminTypes /\ CminTraces /\ cpc = "collect" /\ Len(traces) = Len(corpus) /\ cpc' = "candidates"
      /\ DOMAIN all_uniq' = Cm!AllTuples
      /\ UNCHANGED <<corpus, flags, out_dir, traces, best_file, already_have, starts>>
  BY DEF CminInv, Cm!SortTuples
<1>1. (\A i : Shows(i)' = Shows(i)) /\ FilesAt' = FilesAt /\ CorpusType' /\ AllShown' = AllShown
  BY <1>0, CminSame DEF CminTypes
<1>2. DOMAIN all_uniq' = AllShown
  BY <1>0, CminAll
<1>3. CminTypes'
  BY <1>0, <1>1 DEF CminTypes, Linked
<1>4. CminTraces'
  BY <1>0, <1>1, <1>2 DEF CminTraces, Linked
<1>5. CminLinks'
  BY <1>0 DEF CminLinks
<1>. QED  BY <1>3, <1>4, <1>5 DEF CminInv

(* The best file for a tuple: the smallest with it, the last of these.     *)
LEMMA BestIs ==
  ASSUME CminInv, Len(traces) = Len(corpus), NEW t \in AllShown
  PROVE  Cm!Best(t) \in FilesAt /\ LeastWith(t, Cm!Best(t))
<1>. DEFINE W == {i \in FilesAt : t \in Shows(i)}
            Size(i) == corpus[i].size
            Sizes == {Size(i) : i \in W}
            n == Len(corpus)
<1>1. Cm!With(t) = W /\ W # {}
  BY CminAll DEF AllShown
<1>2. n \in Nat /\ (\A i \in FilesAt : Size(i) \in Nat) /\ W \subseteq 1 .. n
  BY LenProperties DEF CminInv, CminTypes, CorpusType, FilesAt
<1>3. W \subseteq FilesAt
  OBVIOUS
<1>. HIDE DEF W
<1>4. Sizes \subseteq Nat /\ Sizes # {}
  BY <1>1, <1>2, <1>3
<1>5. PICK least \in Sizes : \A x \in Sizes : least <= x
  <2>. HIDE DEF Sizes
  <2>. QED  BY <1>4, LeastNat
<1>. DEFINE L == {i \in W : Size(i) = least}
            D == {n - i : i \in L}
<1>6. L # {} /\ L \subseteq 1 .. n
  BY <1>2
<1>. HIDE DEF L
<1>7. D \subseteq Nat /\ D # {}
  <2>1. \A i \in L : i \in Nat /\ i <= n
    BY <1>2, <1>6
  <2>2. \A i \in L : n - i \in Nat
    BY <1>2, <2>1
  <2>. QED  BY <1>6, <2>2
<1>8. PICK d \in D : \A x \in D : d <= x
  <2>. HIDE DEF D
  <2>. QED  BY <1>7, LeastNat
<1>9. PICK b \in L : d = n - b
  BY <1>8
<1>10. \A i \in L : i <= b
  <2>1. \A i \in L : n - b <= n - i
    BY <1>8, <1>9
  <2>. QED  BY <1>2, <1>6, <1>9, <2>1
<1>11. b \in W /\ Size(b) = least /\ \A i \in W : least <= Size(i)
  BY <1>5 DEF L
<1>12. ASSUME NEW j \in W \ {b} PROVE Cm!Before(b, j)
  <2>1. Size(b) \in Nat /\ Size(j) \in Nat /\ b \in Nat /\ j \in Nat
    BY <1>2, <1>3, <1>11
  <2>2. CASE Size(j) = least
    <3>1. j \in L
      BY <2>2 DEF L
    <3>2. b > j
      BY <1>10, <2>1, <3>1
    <3>. QED  BY <1>11, <2>2, <3>2 DEF Cm!Before
  <2>3. CASE Size(j) # least
    <3>1. Size(b) < Size(j)
      BY <1>11, <2>1, <2>3
    <3>. QED  BY <3>1 DEF Cm!Before
  <2>. QED  BY <2>2, <2>3
<1>13. \E i \in Cm!With(t) : \A j \in Cm!With(t) \ {i} : Cm!Before(i, j)
  BY <1>1, <1>11, <1>12
<1>14. Cm!Best(t) \in W /\ \A j \in W \ {Cm!Best(t)} : Cm!Before(Cm!Best(t), j)
  BY <1>1, <1>13 DEF Cm!Best
<1>15. ASSUME NEW j \in W PROVE Size(Cm!Best(t)) <= Size(j)
  <2>1. Size(Cm!Best(t)) \in Nat /\ Size(j) \in Nat
    BY <1>2, <1>3, <1>14
  <2>2. j = Cm!Best(t) \/ Cm!Before(Cm!Best(t), j)
    BY <1>14
  <2>. QED  BY <2>1, <2>2 DEF Cm!Before
<1>. QED  BY <1>3, <1>14, <1>15 DEF LeastWith, W

LEMMA CminCandidates == ASSUME CminInv, Cm!FindCandidates PROVE CminInv'
<1>0. /\ CminTypes /\ CminTraces /\ cpc = "candidates" /\ Len(traces) = Len(corpus) /\ cpc' \in {"failed", "write"}
      /\ best_file' = [t \in Cm!AllTuples |-> Cm!Best(t)]
      /\ UNCHANGED <<corpus, flags, out_dir, traces, all_uniq, already_have, starts>>
  BY DEF CminInv, Cm!FindCandidates, CminTraces
<1>1. /\ (\A i : Shows(i)' = Shows(i)) /\ FilesAt' = FilesAt /\ CorpusType' /\ AllShown' = AllShown
      /\ \A t, i : LeastWith(t, i)' = LeastWith(t, i)
  BY <1>0, CminSame DEF CminTypes
<1>2. Cm!AllTuples = AllShown
  BY <1>0, CminAll
<1>3. CminTypes'
  BY <1>0, <1>1 DEF CminTypes, Linked
<1>4. CminTraces'
  BY <1>0, <1>1 DEF CminTraces, Linked
<1>5. CminLinks'
  <2>1. Linked' = <<>> /\ already_have' = {} /\ DOMAIN all_uniq' = AllShown /\ Len(Linked') = 0
    BY <1>0, EmptySeq DEF CminTraces, Linked
  <2>2. \A t \in AllShown : best_file'[t] \in FilesAt /\ LeastWith(t, best_file'[t])
    BY <1>0, <1>2, BestIs
  <2>3. Covered(0)' = {}
    BY DEF Covered
  <2>4. \A t \in AllShown' : best_file'[t] \in FilesAt' /\ LeastWith(t, best_file[t])'
    BY <1>1, <2>2
  <2>5. Covered(Len(Linked))' = {}
    BY <2>1 DEF Covered
  <2>6. \A m \in 1 .. Len(Linked') : FALSE
    BY <2>1
  <2>7. cpc' # "done"
    BY <1>0
  <2>. QED  BY <1>1, <2>1, <2>4, <2>5, <2>6, <2>7 DEF CminLinks
<1>. QED  BY <1>3, <1>4, <1>5 DEF CminInv

LEMMA CminPick == ASSUME CminInv, NEW t \in DOMAIN all_uniq, Cm!PickTuple(t) PROVE CminInv'
<1>. DEFINE f == best_file[t]
<1>0. /\ CminTypes /\ CminTraces /\ CminLinks /\ cpc = "write" /\ Len(traces) = Len(corpus)
      /\ all_uniq' = Cm!Later(t) /\ "linked" \in DOMAIN out_dir'
      /\ UNCHANGED <<cpc, corpus, flags, traces, best_file, starts>>
      /\ \/ t \in already_have /\ UNCHANGED <<Linked, already_have>>
         \/ /\ t \notin already_have /\ Linked' = Append(Linked, f) /\ already_have' = already_have \cup traces[f]
  <2>1. CminTypes /\ CminTraces /\ CminLinks /\ cpc = "write" /\ Len(traces) = Len(corpus) /\ "linked" \in DOMAIN out_dir
    BY DEF CminInv, Cm!PickTuple, CminTraces, CminTypes
  <2>2. CASE t \in already_have
    BY <2>1, <2>2 DEF Cm!PickTuple, Linked
  <2>3. CASE t \notin already_have
    <3>1. out_dir' = [out_dir EXCEPT !.linked = Append(@, f)] /\ already_have' = already_have \cup traces[f]
      BY <2>3 DEF Cm!PickTuple
    <3>2. Linked' = Append(Linked, f) /\ "linked" \in DOMAIN out_dir'
      BY <2>1, <3>1 DEF Linked
    <3>. QED  BY <2>1, <2>3, <3>1, <3>2 DEF Cm!PickTuple
  <2>. QED  BY <2>2, <2>3
<1>1. /\ (\A i : Shows(i)' = Shows(i)) /\ FilesAt' = FilesAt /\ CorpusType' /\ AllShown' = AllShown
      /\ \A x, i : LeastWith(x, i)' = LeastWith(x, i)
  BY <1>0, CminSame DEF CminTypes
<1>2. DOMAIN all_uniq' = DOMAIN all_uniq \ {t}
  BY <1>0 DEF Cm!Later
<1>3. /\ already_have = Covered(Len(Linked)) /\ t \in AllShown
      /\ f \in FilesAt /\ LeastWith(t, f)
  BY <1>0 DEF CminLinks
<1>4. Linked \in Seq(FilesAt) /\ Len(Linked) \in Nat
  <2>1. Linked \in Seq(FilesAt)
    BY <1>0 DEF CminTypes
  <2>. QED  BY <2>1, LenProperties
<1>5. traces[f] = Shows(f)
  BY <1>0, <1>3 DEF CminTraces, FilesAt
<1>6. PICK k \in Nat : k = Len(Linked)
  BY <1>4
<1>. HIDE DEF f
<1>7. CASE t \in already_have /\ UNCHANGED <<Linked, already_have>>
  <2>1. \A n : Covered(n)' = Covered(n)
    BY <1>1, <1>7 DEF Covered
  <2>2. CminTypes'
    BY <1>0, <1>1, <1>7 DEF CminTypes
  <2>3. CminTraces'
    BY <1>0, <1>1, <1>7 DEF CminTraces
  <2>4. CminLinks'
    <3>1. Covered(Len(Linked))' = Covered(Len(Linked))
      BY <1>1, <1>7 DEF Covered
    <3>2. AllShown \subseteq DOMAIN all_uniq' \cup Covered(Len(Linked))
      BY <1>0, <1>2, <1>3, <1>7 DEF CminLinks
    <3>3. DOMAIN all_uniq' \subseteq AllShown
      BY <1>0, <1>2 DEF CminLinks
    <3>4. \A n \in 1 .. Len(Linked) : \E x : LeastWith(x, Linked[n]) /\ x \notin Covered(n - 1)
      BY <1>0 DEF CminLinks
    <3>5. \A n \in 1 .. Len(Linked') : \E x : LeastWith(x, Linked[n])' /\ x \notin Covered(n - 1)'
      BY <1>1, <1>7, <2>1, <3>4
    <3>6. \A x \in AllShown : best_file[x] \in FilesAt /\ LeastWith(x, best_file[x])
      BY <1>0 DEF CminLinks
    <3>7. \A x \in AllShown' : best_file'[x] \in FilesAt' /\ LeastWith(x, best_file[x])'
      BY <1>0, <1>1, <3>6
    <3>8. cpc' # "done" /\ already_have' = Covered(Len(Linked))'
      BY <1>0, <1>3, <1>7, <3>1
    <3>. QED  BY <1>1, <3>1, <3>2, <3>3, <3>5, <3>7, <3>8 DEF CminLinks
  <2>. QED  BY <2>2, <2>3, <2>4 DEF CminInv
<1>8. CASE t \notin already_have /\ Linked' = Append(Linked, f) /\ already_have' = already_have \cup traces[f]
  <2>1. Linked' \in Seq(FilesAt) /\ Len(Linked') = k + 1 /\ Linked'[k + 1] = f /\ \A n \in 1 .. k : Linked'[n] = Linked[n]
    BY <1>3, <1>4, <1>6, <1>8, AppendProperties
  <2>2. \A n \in 0 .. k : Covered(n)' = Covered(n)
    BY <1>1, <1>6, <2>1 DEF Covered
  <2>3. Covered(k + 1)' = Covered(k) \cup Shows(f)
    <3>1. Covered(k + 1)' = UNION {Shows(Linked'[m]) : m \in 1 .. k + 1}
      BY <1>1 DEF Covered
    <3>2. 1 .. k + 1 = 1 .. k \cup {k + 1}
      OBVIOUS
    <3>3. \A m \in 1 .. k : Shows(Linked'[m]) = Shows(Linked[m])
      BY <2>1
    <3>4. Shows(Linked'[k + 1]) = Shows(f)
      BY <2>1
    <3>5. Covered(k) = UNION {Shows(Linked'[m]) : m \in 1 .. k}
      BY <3>3 DEF Covered
    <3>6. (UNION {Shows(Linked'[m]) : m \in 1 .. k + 1}) = (UNION {Shows(Linked'[m]) : m \in 1 .. k}) \cup Shows(f)
      BY <3>2, <3>4
    <3>. QED  BY <3>1, <3>5, <3>6
  <2>4. CminTypes'
    BY <1>0, <1>1, <2>1 DEF CminTypes
  <2>5. CminTraces'
    BY <1>0, <1>1 DEF CminTraces
  <2>6. CminLinks'
    <3>1. Covered(Len(Linked))' = Covered(k) \cup Shows(f)
      <4>1. Covered(Len(Linked))' = UNION {Shows(Linked[m])' : m \in 1 .. Len(Linked')}
        BY DEF Covered
      <4>2. Covered(k + 1)' = UNION {Shows(Linked[m])' : m \in 1 .. k + 1}
        BY DEF Covered
      <4>. QED  BY <2>1, <2>3, <4>1, <4>2
    <3>2. AllShown \subseteq DOMAIN all_uniq' \cup Covered(k) \cup Shows(f)
      <4>1. AllShown \subseteq DOMAIN all_uniq \cup Covered(k)
        BY <1>0, <1>6 DEF CminLinks
      <4>2. t \in Shows(f)
        BY <1>3 DEF LeastWith
      <4>. QED  BY <1>2, <4>1, <4>2
    <3>3. DOMAIN all_uniq' \subseteq AllShown
      BY <1>0, <1>2 DEF CminLinks
    <3>4. ASSUME NEW n \in 1 .. k + 1 PROVE \E x : LeastWith(x, Linked'[n]) /\ x \notin Covered(n - 1)'
      <4>1. CASE n = k + 1
        <5>1. Covered(n - 1)' = Covered(k)
          BY <2>2, <4>1
        <5>2. t \notin Covered(k)
          BY <1>3, <1>6, <1>8
        <5>. QED  BY <1>3, <2>1, <4>1, <5>1, <5>2
      <4>2. CASE n # k + 1
        <5>1. n \in 1 .. k /\ n - 1 \in 0 .. k
          BY <4>2
        <5>2. \E x : LeastWith(x, Linked[n]) /\ x \notin Covered(n - 1)
          BY <1>0, <1>6, <5>1 DEF CminLinks
        <5>. QED  BY <2>1, <2>2, <5>1, <5>2
      <4>. QED  BY <4>1, <4>2
    <3>5. \A n \in 1 .. Len(Linked') : \E x : LeastWith(x, Linked[n])' /\ x \notin Covered(n - 1)'
      <4>1. \A x, i : LeastWith(x, i)' = LeastWith(x, i)
        BY <1>1
      <4>2. \A x, n : LeastWith(x, Linked[n])' = LeastWith(x, Linked'[n])
        BY <1>1 DEF LeastWith
      <4>. QED  BY <2>1, <3>4, <4>2
    <3>6. \A x \in AllShown : best_file[x] \in FilesAt /\ LeastWith(x, best_file[x])
      BY <1>0 DEF CminLinks
    <3>7. \A x \in AllShown' : best_file'[x] \in FilesAt' /\ LeastWith(x, best_file[x])'
      BY <1>0, <1>1, <3>6
    <3>8. cpc' # "done" /\ already_have' = Covered(Len(Linked))'
      BY <1>0, <1>3, <1>5, <1>6, <1>8, <3>1
    <3>. QED  BY <1>1, <3>1, <3>2, <3>3, <3>5, <3>7, <3>8 DEF CminLinks
  <2>. QED  BY <2>4, <2>5, <2>6 DEF CminInv
<1>. QED  BY <1>0, <1>7, <1>8

LEMMA CminWritten == ASSUME CminInv, Cm!AllWritten PROVE CminInv'
<1>0. /\ CminTypes /\ CminLinks /\ cpc = "write" /\ cpc' = "done" /\ DOMAIN all_uniq = {} /\ traces' = <<>>
      /\ UNCHANGED <<corpus, flags, out_dir, all_uniq, starts>>
  BY DEF CminInv, Cm!AllWritten
<1>1. /\ (\A i : Shows(i)' = Shows(i)) /\ FilesAt' = FilesAt /\ CorpusType' /\ AllShown' = AllShown
      /\ \A x, i : LeastWith(x, i)' = LeastWith(x, i)
  BY <1>0, CminSame DEF CminTypes
<1>2. traces' \in Seq({Shows(i)' : i \in FilesAt'}) /\ Len(traces') = 0
  BY <1>0, EmptySeq
<1>3. Linked' = Linked /\ Len(corpus) \in Nat
  BY <1>0, LenProperties DEF Linked, CminTypes, CorpusType
<1>4. CminTypes'
  BY <1>0, <1>1, <1>2, <1>3 DEF CminTypes
<1>5. CminTraces'
  BY <1>0, <1>2 DEF CminTraces
<1>6. (\A n : Covered(n)' = Covered(n)) /\ Covered(Len(Linked))' = Covered(Len(Linked))
  BY <1>1, <1>3 DEF Covered
<1>7. CminLinks'
  <2>1. \A n \in 1 .. Len(Linked) : \E x : LeastWith(x, Linked[n]) /\ x \notin Covered(n - 1)
    BY <1>0 DEF CminLinks
  <2>2. \A n \in 1 .. Len(Linked') : \E x : LeastWith(x, Linked[n])' /\ x \notin Covered(n - 1)'
    BY <1>1, <1>3, <1>6, <2>1
  <2>3. AllShown' \subseteq DOMAIN all_uniq' \cup Covered(Len(Linked))' /\ DOMAIN all_uniq' = {}
    BY <1>0, <1>1, <1>6 DEF CminLinks
  <2>. QED  BY <1>0, <2>2, <2>3 DEF CminLinks
<1>. QED  BY <1>4, <1>5, <1>7 DEF CminInv

LEMMA CminStep == CminInv /\ (Cm!CminNext \/ UNCHANGED Cm!cminVars) => CminInv'
<1>. SUFFICES ASSUME CminInv PROVE Cm!CminNext \/ UNCHANGED Cm!cminVars => CminInv'
  OBVIOUS
<1>0. starts \in Nat /\ starts <= CminRuns /\ CminRuns \in Nat
  <2>1. CminRuns \in Nat
    BY CminAssumption, Zenon
  <2>. QED  BY <2>1 DEF CminInv, CminTypes
<1>1. Cm!Start => CminInv'
  BY <1>0, CminRest DEF Cm!Start
<1>2. Cm!CminKilled => CminInv'
  BY <1>0, CminRest DEF Cm!CminKilled
<1>3. UNCHANGED Cm!cminVars => CminInv'
  <2>. SUFFICES ASSUME UNCHANGED Cm!cminVars PROVE CminInv'
    OBVIOUS
  <2>0. UNCHANGED <<cpc, corpus, flags, out_dir, traces, best_file, all_uniq, already_have, starts>>
    BY DEF Cm!cminVars
  <2>1. CorpusType' = CorpusType /\ FilesAt' = FilesAt /\ Linked' = Linked /\ (\A i : Shows(i)' = Shows(i)) /\ AllShown' = AllShown
        /\ \A x, i : LeastWith(x, i)' = LeastWith(x, i)
    BY <2>0, CminSame DEF CorpusType, FilesAt, Linked
  <2>2. (\A n : Covered(n)' = Covered(n)) /\ Covered(Len(Linked))' = Covered(Len(Linked))
    BY <2>1 DEF Covered
  <2>3. CminTypes' = CminTypes
    BY <2>0, <2>1 DEF CminTypes
  <2>4. CminTraces' = CminTraces
    BY <2>0, <2>1 DEF CminTraces
  <2>5. CminLinks'
    <3>1. CASE cpc \notin {"write", "done"}
      BY <2>0, <3>1 DEF CminLinks
    <3>2. CASE cpc \in {"write", "done"}
      <4>0. CminLinks
        BY DEF CminInv
      <4>1. \A n \in 1 .. Len(Linked') : \E x : LeastWith(x, Linked[n])' /\ x \notin Covered(n - 1)'
        BY <2>1, <2>2, <3>2, <4>0 DEF CminLinks
      <4>2. AllShown' \subseteq DOMAIN all_uniq' \cup Covered(Len(Linked))' /\ DOMAIN all_uniq' \subseteq AllShown'
        BY <2>0, <2>1, <2>2, <3>2, <4>0 DEF CminLinks
      <4>3. cpc' = "done" => DOMAIN all_uniq' = {}
        BY <2>0, <4>0 DEF CminLinks
      <4>4. cpc' = "write" => already_have' = Covered(Len(Linked))'
        BY <2>0, <2>2, <4>0 DEF CminLinks
      <4>5. cpc' = "write" => \A x \in AllShown' : best_file'[x] \in FilesAt' /\ LeastWith(x, best_file[x])'
        BY <2>0, <2>1, <4>0 DEF CminLinks
      <4>. QED  BY <4>1, <4>2, <4>3, <4>4, <4>5 DEF CminLinks
    <3>. QED  BY <3>1, <3>2
  <2>. QED  BY <2>3, <2>4, <2>5 DEF CminInv
<1>. QED  BY <1>1, <1>2, <1>3, CminSetup, CminTest, CminCollect, CminSort, CminCandidates, CminPick, CminWritten DEF Cm!CminNext

-----------------------------------------------------------------------------
(* The command line: after k arguments the settings are what these say,    *)
(* whatever order they came in.                                            *)
ReadSoFar == Len(cl.args) - Len(rest)
MemOf(v) == IF v.unit = "none" THEN 0 ELSE St!MemValue(v)

Fields == {"given", "end", "mem_limit", "exec_tmout", "timeout_given", "force_deterministic", "skip_deterministic",
           "use_splicing", "dumb_mode", "quiet_mode"}
Shaped(t) == DOMAIN t = Fields

(* What an option does to the settings, whichever tool reads it.           *)
Takes(t, o, v) ==
  /\ Shaped(t) /\ t.end = "no"
  /\ DOMAIN t.given = DOMAIN s.given \cup {o}
  /\ o \in DOMAIN s.given => o \in St!Free(cl.tool)
  /\ t.mem_limit = IF o = "m" THEN MemOf(v) ELSE IF o = "Q" /\ "m" \notin DOMAIN s.given THEN QemuMem ELSE s.mem_limit
  /\ t.quiet_mode = IF cl.tool = "afl-showmap" /\ o \in {"q", "Z"} THEN TRUE ELSE s.quiet_mode
  /\ cl.tool = "afl-fuzz" =>
       /\ o \in {"M", "S"} => "M" \notin DOMAIN s.given /\ "S" \notin DOMAIN s.given
       /\ t.force_deterministic = IF o = "M" THEN TRUE ELSE s.force_deterministic
       /\ t.skip_deterministic = IF o = "d" THEN TRUE ELSE s.skip_deterministic
       /\ t.use_splicing = IF o = "d" THEN TRUE ELSE s.use_splicing
       /\ IF o = "n" THEN t.dumb_mode \in {1, 2} ELSE t.dumb_mode = s.dumb_mode

LEMMA KeepIs ==
  ASSUME NEW o, NEW v, Shaped(s)
  PROVE  /\ Shaped(St!Keep(o, v)) /\ St!Keep(o, v) = [s EXCEPT !.given = St!Keep(o, v).given]
         /\ DOMAIN St!Keep(o, v).given = DOMAIN s.given \cup {o}
BY DEF Shaped, Fields, St!Keep

(* An option that is only kept leaves the other settings alone.            *)
Untouched(t) ==
  /\ Shaped(t) /\ t.end = s.end /\ t.mem_limit = s.mem_limit /\ t.quiet_mode = s.quiet_mode
  /\ t.force_deterministic = s.force_deterministic /\ t.skip_deterministic = s.skip_deterministic
  /\ t.use_splicing = s.use_splicing /\ t.dumb_mode = s.dumb_mode
LEMMA KeepOthers == ASSUME NEW o, NEW v, Shaped(s) PROVE Untouched(St!Keep(o, v))
BY DEF Untouched, Shaped, Fields, St!Keep

LEMMA OthersTakes ==
  ASSUME NEW t, NEW o, NEW v, Untouched(t), s.end = "no", DOMAIN t.given = DOMAIN s.given \cup {o},
         o \in DOMAIN s.given => o \in St!Free(cl.tool), o \notin {"m", "Q", "q", "Z", "M", "d", "n"},
         o = "S" => "M" \notin DOMAIN s.given /\ "S" \notin DOMAIN s.given
  PROVE  Takes(t, o, v)
BY DEF Takes, Untouched

LEMMA MemTakes ==
  ASSUME NEW v, Shaped(s), s.end = "no", St!MemOption(v).end = "no" PROVE Takes(St!MemOption(v), "m", v)
<1>1. ~St!Given("m") /\ "m" \notin DOMAIN s.given
  BY DEF St!MemOption, St!Fatal, St!Given, Shaped, Fields
<1>2. St!MemOption(v) = [St!Keep("m", v) EXCEPT !.mem_limit = MemOf(v)]
  BY <1>1 DEF St!MemOption, St!Fatal, Shaped, Fields, MemOf
<1>. QED  BY <1>1, <1>2, KeepIs DEF Takes, Shaped, Fields

LEMMA QemuTakes ==
  ASSUME NEW v, Shaped(s), s.end = "no", St!QemuOption(v).end = "no" PROVE Takes(St!QemuOption(v), "Q", v)
<1>1. ~St!Given("Q") /\ "Q" \notin DOMAIN s.given
  BY DEF St!QemuOption, St!Fatal, St!Given, Shaped, Fields
<1>2. St!QemuOption(v) = [St!Keep("Q", v) EXCEPT !.mem_limit = IF "m" \in DOMAIN s.given THEN s.mem_limit ELSE QemuMem]
  BY <1>1, KeepIs DEF St!QemuOption, St!Given, Shaped, Fields
<1>. QED  BY <1>1, <1>2, KeepIs DEF Takes, Shaped, Fields

LEMMA TmoutTakes ==
  ASSUME NEW v, NEW n, Shaped(s), s.end = "no", St!TmoutOption(v, n).end = "no" PROVE Takes(St!TmoutOption(v, n), "t", v)
<1>1. ~St!Given("t") /\ "t" \notin DOMAIN s.given
  BY DEF St!TmoutOption, St!Fatal, St!Given, Shaped, Fields
<1>2. St!TmoutOption(v, n) = [St!Keep("t", v) EXCEPT !.exec_tmout = v.n]
  BY <1>1 DEF St!TmoutOption, St!Fatal, Shaped, Fields
<1>. QED  BY <1>1, <1>2, KeepIs DEF Takes, Shaped, Fields

Plainly == {"i", "o", "f", "x", "b", "B", "C", "T", "c", "e", "t", "A", "z"}
LEMMA OnceTakes ==
  ASSUME NEW o \in Plainly, NEW v, Shaped(s), s.end = "no", St!Once(o, v).end = "no" PROVE Takes(St!Once(o, v), o, v)
<1>1. ~St!Given(o) /\ o \notin DOMAIN s.given /\ St!Once(o, v) = St!Keep(o, v)
  BY DEF St!Once, St!Fatal, St!Given, Shaped, Fields
<1>2. o \notin {"m", "Q", "q", "Z", "M", "S", "d", "n"}
  BY DEF Plainly
<1>. QED  BY <1>1, <1>2, KeepIs, KeepOthers, OthersTakes

LEMMA FreeTakes ==
  ASSUME NEW o \in Plainly, NEW v, Shaped(s), s.end = "no", o \in St!Free(cl.tool) PROVE Takes(St!Keep(o, v), o, v)
<1>1. o \notin {"m", "Q", "q", "Z", "M", "S", "d", "n"}
  BY DEF Plainly
<1>. QED  BY <1>1, KeepIs, KeepOthers, OthersTakes

LEMMA FuzzTakes ==
  ASSUME NEW o, NEW v, cl.tool = "afl-fuzz", Shaped(s), s.end = "no", St!FuzzOption(o, v).end = "no"
  PROVE  Takes(St!FuzzOption(o, v), o, v)
<1>1. CASE o \in {"i", "o", "f", "x", "b", "B", "C", "T", "c"}
  <2>1. St!FuzzOption(o, v) = St!Once(o, v)
    BY <1>1 DEF St!FuzzOption
  <2>. QED  BY <1>1, <2>1, OnceTakes DEF Plainly
<1>2. CASE o = "M"
  <2>1. St!FuzzOption(o, v) = St!MasterOption(v)
    BY <1>2 DEF St!FuzzOption
  <2>2. ~St!Given("M") /\ ~St!Given("S") /\ St!MasterOption(v) = [St!Keep("M", v) EXCEPT !.force_deterministic = TRUE]
    BY <2>1 DEF St!MasterOption, St!Fatal, Shaped, Fields
  <2>. DEFINE k == St!Keep("M", v)
              t == St!MasterOption(v)
  <2>3. Untouched(k) /\ Shaped(k) /\ DOMAIN k.given = DOMAIN s.given \cup {"M"}
    BY KeepIs, KeepOthers
  <2>4. t = [k EXCEPT !.force_deterministic = TRUE] /\ "M" \notin DOMAIN s.given /\ "S" \notin DOMAIN s.given
    BY <2>2 DEF St!Given
  <2>. HIDE DEF k, t
  <2>5. /\ Shaped(t) /\ t.force_deterministic = TRUE /\ t.given = k.given /\ t.end = k.end
        /\ t.mem_limit = k.mem_limit /\ t.quiet_mode = k.quiet_mode /\ t.skip_deterministic = k.skip_deterministic
        /\ t.use_splicing = k.use_splicing /\ t.dumb_mode = k.dumb_mode
    BY <2>3, <2>4 DEF Shaped, Fields
  <2>6. Takes(t, "M", v)
    BY <2>3, <2>4, <2>5 DEF Takes, Untouched
  <2>. QED  BY <1>2, <2>1, <2>6 DEF t
<1>3. CASE o = "S"
  <2>1. St!FuzzOption(o, v) = St!SlaveOption(v)
    BY <1>3 DEF St!FuzzOption
  <2>2. ~St!Given("M") /\ ~St!Given("S") /\ St!SlaveOption(v) = St!Keep("S", v)
    BY <2>1 DEF St!SlaveOption, St!Fatal, Shaped, Fields
  <2>. QED  BY <1>3, <2>1, <2>2, KeepIs DEF Takes, Shaped, Fields, St!Given
<1>4. CASE o = "t"
  <2>1. St!FuzzOption(o, v) = St!FuzzTmoutOption(v)
    BY <1>4 DEF St!FuzzOption
  <2>2. ~St!Given("t")
        /\ St!FuzzTmoutOption(v) = [St!Keep("t", v) EXCEPT !.exec_tmout = v.n, !.timeout_given = IF v.unit = "+" THEN 2 ELSE 1]
    BY <2>1 DEF St!FuzzTmoutOption, St!Fatal, Shaped, Fields
  <2>. DEFINE k == St!Keep("t", v)
              t == St!FuzzTmoutOption(v)
  <2>3. Untouched(k) /\ Shaped(k) /\ DOMAIN k.given = DOMAIN s.given \cup {"t"}
    BY KeepIs, KeepOthers
  <2>4. t = [k EXCEPT !.exec_tmout = v.n, !.timeout_given = IF v.unit = "+" THEN 2 ELSE 1] /\ "t" \notin DOMAIN s.given
    BY <2>2 DEF St!Given
  <2>. HIDE DEF k, t
  <2>5. Untouched(t) /\ t.given = k.given
    BY <2>3, <2>4 DEF Untouched, Shaped, Fields
  <2>6. Takes(t, "t", v)
    BY <2>3, <2>4, <2>5, OthersTakes
  <2>. QED  BY <1>4, <2>1, <2>6 DEF t
<1>5. CASE o = "m"
  BY <1>5, MemTakes DEF St!FuzzOption
<1>6. CASE o = "d"
  <2>1. St!FuzzOption(o, v) = St!SkipOption(v)
    BY <1>6 DEF St!FuzzOption
  <2>2. ~St!Given("d") /\ St!SkipOption(v) = [St!Keep("d", v) EXCEPT !.skip_deterministic = TRUE, !.use_splicing = TRUE]
    BY <2>1 DEF St!SkipOption, St!Fatal, Shaped, Fields
  <2>. DEFINE k == St!Keep("d", v)
              t == St!SkipOption(v)
  <2>3. Untouched(k) /\ Shaped(k) /\ DOMAIN k.given = DOMAIN s.given \cup {"d"}
    BY KeepIs, KeepOthers
  <2>4. t = [k EXCEPT !.skip_deterministic = TRUE, !.use_splicing = TRUE] /\ "d" \notin DOMAIN s.given
    BY <2>2 DEF St!Given
  <2>. HIDE DEF k, t
  <2>5. /\ Shaped(t) /\ t.skip_deterministic = TRUE /\ t.use_splicing = TRUE /\ t.given = k.given /\ t.end = k.end
        /\ t.mem_limit = k.mem_limit /\ t.quiet_mode = k.quiet_mode /\ t.force_deterministic = k.force_deterministic
        /\ t.dumb_mode = k.dumb_mode
    BY <2>3, <2>4 DEF Shaped, Fields
  <2>6. Takes(t, "d", v)
    BY <2>3, <2>4, <2>5 DEF Takes, Untouched
  <2>. QED  BY <1>6, <2>1, <2>6 DEF t
<1>7. CASE o = "n"
  <2>1. St!FuzzOption(o, v) = St!DumbOption(v)
    BY <1>7 DEF St!FuzzOption
  <2>2. ~St!Given("n") /\ \E b \in {1, 2} : St!DumbOption(v) = [St!Keep("n", v) EXCEPT !.dumb_mode = b]
    BY <2>1 DEF St!DumbOption, St!Fatal, Shaped, Fields
  <2>. QED  BY <1>7, <2>1, <2>2, KeepIs DEF Takes, Shaped, Fields, St!Given
<1>8. CASE o = "Q"
  BY <1>8, QemuTakes DEF St!FuzzOption
<1>9. CASE o = "z"
  <2>1. o \in Plainly /\ o \in St!Free(cl.tool)
    BY <1>9 DEF Plainly, St!Free
  <2>. QED  BY <1>9, <2>1, FreeTakes DEF St!FuzzOption
<1>10. CASE o \notin {"i", "o", "f", "x", "b", "B", "C", "T", "c", "M", "S", "t", "m", "d", "n", "Q", "z"}
  BY <1>10 DEF St!FuzzOption, Shaped, Fields
<1>. QED  BY <1>1, <1>2, <1>3, <1>4, <1>5, <1>6, <1>7, <1>8, <1>9, <1>10

LEMMA TminTakes ==
  ASSUME NEW o, NEW v, Shaped(s), s.end = "no", St!TminOption(o, v).end = "no" PROVE Takes(St!TminOption(o, v), o, v)
<1>1. CASE o \in {"i", "o", "f", "e", "x", "B"}
  BY <1>1, OnceTakes DEF St!TminOption, Plainly
<1>2. CASE o = "m"
  BY <1>2, MemTakes DEF St!TminOption
<1>3. CASE o = "t"
  BY <1>3, TmoutTakes DEF St!TminOption
<1>4. CASE o = "Q"
  BY <1>4, QemuTakes DEF St!TminOption
<1>5. CASE o \notin {"i", "o", "f", "e", "x", "B", "m", "t", "Q"}
  BY <1>5 DEF St!TminOption, Shaped, Fields
<1>. QED  BY <1>1, <1>2, <1>3, <1>4, <1>5

LEMMA AnalyzeTakes ==
  ASSUME NEW o, NEW v, Shaped(s), s.end = "no", St!AnalyzeOption(o, v).end = "no" PROVE Takes(St!AnalyzeOption(o, v), o, v)
<1>1. CASE o \in {"i", "f", "e"}
  BY <1>1, OnceTakes DEF St!AnalyzeOption, Plainly
<1>2. CASE o = "m"
  BY <1>2, MemTakes DEF St!AnalyzeOption
<1>3. CASE o = "t"
  BY <1>3, TmoutTakes DEF St!AnalyzeOption
<1>4. CASE o = "Q"
  BY <1>4, QemuTakes DEF St!AnalyzeOption
<1>5. CASE o \notin {"i", "f", "e", "m", "t", "Q"}
  BY <1>5 DEF St!AnalyzeOption, Shaped, Fields
<1>. QED  BY <1>1, <1>2, <1>3, <1>4, <1>5

LEMMA ShowmapTakes ==
  ASSUME NEW o, NEW v, cl.tool = "afl-showmap", Shaped(s), s.end = "no", s.quiet_mode \in BOOLEAN,
         s.quiet_mode <=> ("q" \in DOMAIN s.given \/ "Z" \in DOMAIN s.given), St!ShowmapOption(o, v).end = "no"
  PROVE  Takes(St!ShowmapOption(o, v), o, v)
<1>1. CASE o \in {"o", "e", "c"}
  BY <1>1, OnceTakes DEF St!ShowmapOption, Plainly
<1>2. CASE o = "m"
  BY <1>2, MemTakes DEF St!ShowmapOption
<1>3. CASE o = "t" /\ v.unit = "none"
  BY <1>3, OnceTakes DEF St!ShowmapOption, Plainly
<1>4. CASE o = "t" /\ v.unit # "none"
  BY <1>4, TmoutTakes DEF St!ShowmapOption
<1>5. CASE o = "q"
  <2>1. s.quiet_mode = FALSE /\ St!ShowmapOption(o, v) = [St!Keep("q", v) EXCEPT !.quiet_mode = TRUE]
    BY <1>5 DEF St!ShowmapOption, St!Fatal, Shaped, Fields
  <2>. DEFINE k == St!Keep("q", v)
              t == St!ShowmapOption(o, v)
  <2>2. Untouched(k) /\ Shaped(k) /\ DOMAIN k.given = DOMAIN s.given \cup {"q"}
    BY KeepIs, KeepOthers
  <2>3. t = [k EXCEPT !.quiet_mode = TRUE] /\ ("q" \in DOMAIN s.given => "q" \in St!Free(cl.tool))
    BY <1>5, <2>1
  <2>. HIDE DEF k, t
  <2>4. /\ Shaped(t) /\ t.quiet_mode = TRUE /\ t.given = k.given /\ t.end = k.end
        /\ t.mem_limit = k.mem_limit /\ t.force_deterministic = k.force_deterministic
        /\ t.skip_deterministic = k.skip_deterministic /\ t.use_splicing = k.use_splicing /\ t.dumb_mode = k.dumb_mode
    BY <2>2, <2>3 DEF Shaped, Fields
  <2>5. Takes(t, "q", v)
    BY <2>2, <2>3, <2>4 DEF Takes, Untouched
  <2>. QED  BY <1>5, <2>5 DEF t
<1>6. CASE o = "Z"
  <2>1. St!ShowmapOption(o, v) = [St!Keep("Z", v) EXCEPT !.quiet_mode = TRUE] /\ o \in St!Free(cl.tool)
    BY <1>6 DEF St!ShowmapOption, St!Free
  <2>. DEFINE k == St!Keep("Z", v)
              t == St!ShowmapOption(o, v)
  <2>2. Untouched(k) /\ Shaped(k) /\ DOMAIN k.given = DOMAIN s.given \cup {"Z"}
    BY KeepIs, KeepOthers
  <2>3. t = [k EXCEPT !.quiet_mode = TRUE] /\ ("Z" \in DOMAIN s.given => "Z" \in St!Free(cl.tool))
    BY <1>6, <2>1
  <2>. HIDE DEF k, t
  <2>4. /\ Shaped(t) /\ t.quiet_mode = TRUE /\ t.given = k.given /\ t.end = k.end
        /\ t.mem_limit = k.mem_limit /\ t.force_deterministic = k.force_deterministic
        /\ t.skip_deterministic = k.skip_deterministic /\ t.use_splicing = k.use_splicing /\ t.dumb_mode = k.dumb_mode
    BY <2>2, <2>3 DEF Shaped, Fields
  <2>5. Takes(t, "Z", v)
    BY <2>2, <2>3, <2>4 DEF Takes, Untouched
  <2>. QED  BY <1>6, <2>5 DEF t
<1>7. CASE o = "A"
  <2>1. o \in Plainly /\ o \in St!Free(cl.tool)
    BY <1>7 DEF Plainly, St!Free
  <2>. QED  BY <1>7, <2>1, FreeTakes DEF St!ShowmapOption
<1>8. CASE o = "b"
  <2>1. o \in Plainly /\ o \in St!Free(cl.tool)
    BY <1>8 DEF Plainly, St!Free
  <2>. QED  BY <1>8, <2>1, FreeTakes DEF St!ShowmapOption
<1>9. CASE o = "Q"
  BY <1>9, QemuTakes DEF St!ShowmapOption
<1>10. CASE o \notin {"o", "e", "c", "m", "t", "q", "Z", "A", "b", "Q"}
  BY <1>10 DEF St!ShowmapOption, Shaped, Fields
<1>. QED  BY <1>1, <1>2, <1>3, <1>4, <1>5, <1>6, <1>7, <1>8, <1>9, <1>10

(* How reading ends, if it does.                                           *)
Ended == {"no", "fatal", "usage", "version"}
LEMMA PartsEnd ==
  ASSUME NEW o, NEW v, NEW n, Shaped(s), s.end = "no"
  PROVE  /\ St!Once(o, v).end \in Ended /\ St!Keep(o, v).end \in Ended
         /\ St!MemOption(v).end \in Ended /\ St!QemuOption(v).end \in Ended
         /\ St!TmoutOption(v, n).end \in Ended /\ St!MasterOption(v).end \in Ended
         /\ St!SlaveOption(v).end \in Ended /\ St!FuzzTmoutOption(v).end \in Ended
         /\ St!SkipOption(v).end \in Ended /\ St!DumbOption(v).end \in Ended
<1>1. ASSUME NEW l PROVE Shaped(St!Keep(l, v)) /\ St!Keep(l, v).end = "no"
  BY KeepOthers DEF Untouched
<1>2. St!Fatal.end = "fatal"
  BY DEF St!Fatal, Shaped, Fields
<1>3. St!Once(o, v).end \in Ended /\ St!Keep(o, v).end \in Ended /\ St!SlaveOption(v).end \in Ended
  BY <1>1, <1>2 DEF St!Once, St!SlaveOption, Ended
<1>4. St!MemOption(v).end \in Ended
  BY <1>1, <1>2 DEF St!MemOption, Ended, Shaped, Fields
<1>5. St!QemuOption(v).end \in Ended
  BY <1>1, <1>2 DEF St!QemuOption, Ended, Shaped, Fields
<1>6. St!TmoutOption(v, n).end \in Ended
  BY <1>1, <1>2 DEF St!TmoutOption, Ended, Shaped, Fields
<1>7. St!MasterOption(v).end \in Ended
  BY <1>1, <1>2 DEF St!MasterOption, Ended, Shaped, Fields
<1>8. St!FuzzTmoutOption(v).end \in Ended
  BY <1>1, <1>2 DEF St!FuzzTmoutOption, Ended, Shaped, Fields
<1>9. St!SkipOption(v).end \in Ended
  BY <1>1, <1>2 DEF St!SkipOption, Ended, Shaped, Fields
<1>10. St!DumbOption(v).end \in Ended
  BY <1>1, <1>2 DEF St!DumbOption, Ended, Shaped, Fields
<1>. QED  BY <1>3, <1>4, <1>5, <1>6, <1>7, <1>8, <1>9, <1>10

LEMMA OptionEnds ==
  ASSUME NEW o, NEW v, cl \in CommandLines, Shaped(s), s.end = "no" PROVE St!Option(o, v).end \in Ended
<1>1. cl.tool \in {"afl-fuzz", "afl-tmin", "afl-analyze", "afl-showmap"}
  BY StartAssumption
<1>2. \A e \in {"usage", "version"} : [s EXCEPT !.end = e].end = e
  BY DEF Shaped, Fields
<1>3. [s EXCEPT !.end = "usage"].end = "usage" /\ [s EXCEPT !.end = "version"].end = "version"
  BY DEF Shaped, Fields
<1>4. St!Fatal.end = "fatal"
  BY DEF St!Fatal, Shaped, Fields
<1>5. \A k : [St!Keep(k, v) EXCEPT !.quiet_mode = TRUE].end = "no"
  <2>. SUFFICES ASSUME NEW k PROVE [St!Keep(k, v) EXCEPT !.quiet_mode = TRUE].end = "no"
    OBVIOUS
  <2>. QED  BY KeepOthers DEF Untouched, Shaped, Fields
<1>6. CASE cl.tool = "afl-fuzz"
  <2>1. St!FuzzOption(o, v).end \in Ended
    BY <1>3, PartsEnd DEF St!FuzzOption, Ended
  <2>. QED  BY <1>6, <2>1 DEF St!Option
<1>7. CASE cl.tool = "afl-tmin"
  <2>1. St!TminOption(o, v).end \in Ended
    BY <1>3, PartsEnd DEF St!TminOption, Ended
  <2>. QED  BY <1>7, <2>1 DEF St!Option
<1>8. CASE cl.tool = "afl-analyze"
  <2>1. St!AnalyzeOption(o, v).end \in Ended
    BY <1>3, PartsEnd DEF St!AnalyzeOption, Ended
  <2>. QED  BY <1>8, <2>1 DEF St!Option
<1>9. CASE cl.tool = "afl-showmap"
  <2>1. St!ShowmapOption(o, v).end \in Ended
    BY <1>3, <1>4, <1>5, PartsEnd DEF St!ShowmapOption, Ended
  <2>. QED  BY <1>9, <2>1 DEF St!Option
<1>. QED  BY <1>1, <1>6, <1>7, <1>8, <1>9

(* What is known once k arguments are read.                                *)
ReadInv(k) ==
  /\ DOMAIN s.given = {cl.args[i].o : i \in 1 .. k}
  /\ \A i, j \in 1 .. k : cl.args[i].o = cl.args[j].o /\ i # j => cl.args[i].o \in St!Free(cl.tool)
  /\ \A i \in 1 .. k : cl.args[i].o = "m" => s.mem_limit = MemOf(cl.args[i].v)
  /\ "m" \notin DOMAIN s.given => s.mem_limit = IF "Q" \in DOMAIN s.given THEN QemuMem ELSE DefaultMem
  /\ s.quiet_mode \in BOOLEAN
  /\ s.quiet_mode <=> cl.tool = "afl-showmap" /\ ("q" \in DOMAIN s.given \/ "Z" \in DOMAIN s.given)
  /\ cl.tool = "afl-fuzz" => "M" \notin DOMAIN s.given \/ "S" \notin DOMAIN s.given
ModesInv ==
  cl.tool = "afl-fuzz" =>
    /\ s.force_deterministic \in BOOLEAN /\ s.skip_deterministic \in BOOLEAN /\ s.use_splicing \in BOOLEAN
    /\ s.force_deterministic <=> "M" \in DOMAIN s.given
    /\ s.skip_deterministic <=> "d" \in DOMAIN s.given
    /\ s.use_splicing <=> "d" \in DOMAIN s.given
    /\ s.dumb_mode = 0 <=> "n" \notin DOMAIN s.given
GroupInv ==
  cl.tool = "afl-fuzz" =>
    /\ s.skip_deterministic \in BOOLEAN
    /\ St!Synced => s.dumb_mode = 0 /\ (s.skip_deterministic <=> "S" \in DOMAIN s.given)
    /\ s.skip_deterministic <=> s.use_splicing
    /\ s.dumb_mode = 0 <=> "n" \notin DOMAIN s.given
    /\ St!Given("n") => ~St!Given("C") /\ ~St!Given("Q")
BinaryInv ==
  cl.tool = "afl-fuzz" /\ "AFL_SKIP_BIN_CHECK" \notin env.set /\ ~St!Given("n") =>
    (St!Given("Q") # ("shm" \in binary.file.has))
Unread ==
  /\ rest \in Seq({cl.args[i] : i \in DOMAIN cl.args}) /\ Len(rest) <= Len(cl.args)
  /\ \A j \in 1 .. Len(rest) : rest[j] = cl.args[ReadSoFar + j]

StartInv ==
  /\ cl \in CommandLines
  /\ stage_of_start = "options" => s.end = "no" /\ Shaped(s) /\ Unread /\ ReadInv(ReadSoFar) /\ ModesInv
  /\ stage_of_start \in {"checks", "binary", "ready"} => ReadInv(Len(cl.args)) /\ Shaped(s)
  /\ stage_of_start = "checks" => ModesInv
  /\ stage_of_start \in {"binary", "ready"} => GroupInv
  /\ stage_of_start = "ready" => BinaryInv

LEMMA ArgsAre == ASSUME cl \in CommandLines PROVE cl.args \in Seq({cl.args[i] : i \in DOMAIN cl.args})
BY StartAssumption

LEMMA CommandLineStart == St!StartInit => StartInv
<1>. SUFFICES ASSUME St!StartInit PROVE StartInv
  OBVIOUS
<1>1. cl \in CommandLines /\ stage_of_start = "options" /\ rest = cl.args /\ s = St!Fresh(cl.tool)
  BY DEF St!StartInit
<1>2. ReadSoFar = 0 /\ Unread
  BY <1>1, ArgsAre DEF ReadSoFar, Unread
<1>3. s.end = "no" /\ Shaped(s) /\ DOMAIN s.given = {} /\ s.mem_limit = DefaultMem /\ s.quiet_mode = FALSE
      /\ s.force_deterministic = FALSE /\ s.skip_deterministic = FALSE /\ s.use_splicing = FALSE /\ s.dumb_mode = 0
  BY <1>1 DEF St!Fresh, Shaped, Fields
<1>4. ReadInv(0)
  <2>1. s.quiet_mode \in BOOLEAN /\ ~s.quiet_mode
    BY <1>3, Zenon
  <2>2. 1 .. 0 = {}
    OBVIOUS
  <2>. QED  BY <1>3, <2>1, <2>2 DEF ReadInv
<1>5. ModesInv
  <2>1. /\ s.force_deterministic \in BOOLEAN /\ s.skip_deterministic \in BOOLEAN /\ s.use_splicing \in BOOLEAN
        /\ ~s.force_deterministic /\ ~s.skip_deterministic /\ ~s.use_splicing
    BY <1>3, Zenon
  <2>. QED  BY <1>3, <2>1 DEF ModesInv
<1>. QED  BY <1>1, <1>2, <1>3, <1>4, <1>5 DEF StartInv

LEMMA OptionTakes ==
  ASSUME NEW o, NEW v, NEW k, cl \in CommandLines, Shaped(s), s.end = "no", ReadInv(k), St!Option(o, v).end = "no"
  PROVE  Takes(St!Option(o, v), o, v)
<1>1. cl.tool \in {"afl-fuzz", "afl-tmin", "afl-analyze", "afl-showmap"}
  BY StartAssumption
<1>2. CASE cl.tool = "afl-fuzz"
  BY <1>2, FuzzTakes DEF St!Option
<1>3. CASE cl.tool = "afl-tmin"
  BY <1>3, TminTakes DEF St!Option
<1>4. CASE cl.tool = "afl-analyze"
  BY <1>4, AnalyzeTakes DEF St!Option
<1>5. CASE cl.tool = "afl-showmap"
  BY <1>5, ShowmapTakes DEF St!Option, ReadInv
<1>. QED  BY <1>1, <1>2, <1>3, <1>4, <1>5

LEMMA ReadStep ==
  ASSUME StartInv, St!ReadOption PROVE StartInv'
<1>. DEFINE a == Head(rest)
<1>a. PICK k : k = ReadSoFar
  OBVIOUS
<1>0. cl \in CommandLines /\ stage_of_start = "options" /\ s.end = "no" /\ Shaped(s) /\ Unread /\ ReadInv(k) /\ ModesInv
      /\ rest # <<>> /\ s' = St!Option(a.o, a.v) /\ rest' = Tail(rest) /\ cl' = cl /\ binary' = binary /\ env' = env
      /\ stage_of_start' = IF s'.end = "no" THEN "options" ELSE s'.end
  BY <1>a DEF StartInv, St!ReadOption
<1>1. s'.end \in Ended
  BY <1>0, OptionEnds
<1>2. CASE s'.end # "no"
  BY <1>0, <1>1, <1>2 DEF StartInv, Ended
<1>3. CASE s'.end = "no"
  <2>1. Takes(s', a.o, a.v)
    BY <1>0, <1>3, OptionTakes
  <2>2. cl.args \in Seq({cl.args[i] : i \in DOMAIN cl.args})
    BY <1>0, ArgsAre
  <2>3. Len(cl.args) \in Nat /\ Len(rest) \in Nat /\ Len(rest) > 0 /\ Len(rest) <= Len(cl.args) /\ k = Len(cl.args) - Len(rest)
    BY <1>a, <1>0, <2>2 DEF Unread, ReadSoFar
  <2>4. k \in Nat /\ k + 1 <= Len(cl.args) /\ a = cl.args[k + 1]
    BY <1>a, <1>0, <2>3 DEF Unread
  <2>5. rest' \in Seq({cl.args[i] : i \in DOMAIN cl.args}) /\ Len(rest') = Len(rest) - 1
        /\ \A j \in 1 .. Len(rest') : rest'[j] = rest[j + 1]
    BY <1>0 DEF Unread
  <2>6. ReadSoFar' = k + 1
    BY <1>0, <2>3, <2>5 DEF ReadSoFar
  <2>7. Unread'
    <3>1. \A j \in 1 .. Len(rest') : rest'[j] = cl.args[k + 1 + j]
      <4>. SUFFICES ASSUME NEW j \in 1 .. Len(rest') PROVE rest'[j] = cl.args[k + 1 + j]
        OBVIOUS
      <4>1. j + 1 \in 1 .. Len(rest) /\ rest'[j] = rest[j + 1]
        BY <2>3, <2>5
      <4>2. rest[j + 1] = cl.args[k + (j + 1)]
        BY <1>a, <1>0, <4>1 DEF Unread
      <4>3. k + (j + 1) = k + 1 + j
        BY <2>4
      <4>. QED  BY <4>1, <4>2, <4>3
    <3>. QED  BY <1>0, <2>3, <2>5, <2>6, <3>1 DEF Unread
  <2>. HIDE DEF a
  <2>8. \A i \in 1 .. k + 1 : i \in 1 .. k \/ i = k + 1
    BY <2>4
  <2>9. 1 .. k \subseteq 1 .. k + 1 /\ k + 1 \in 1 .. k + 1
    BY <2>4
  <2>10. DOMAIN s.given = {cl.args[i].o : i \in 1 .. k} /\ DOMAIN s'.given = DOMAIN s.given \cup {a.o}
    BY <1>0, <2>1 DEF Takes, ReadInv
  <2>11. DOMAIN s'.given = {cl.args[i].o : i \in 1 .. k + 1}
    BY <2>4, <2>8, <2>9, <2>10
  <2>12. ASSUME NEW i \in 1 .. k + 1, NEW j \in 1 .. k + 1, cl.args[i].o = cl.args[j].o, i # j
         PROVE  cl.args[i].o \in St!Free(cl.tool)
    <3>1. \A l \in 1 .. k : cl.args[l].o = a.o => a.o \in St!Free(cl.tool)
      BY <2>1, <2>10 DEF Takes
    <3>2. \A l, m \in 1 .. k : cl.args[l].o = cl.args[m].o /\ l # m => cl.args[l].o \in St!Free(cl.tool)
      BY <1>0 DEF ReadInv
    <3>. QED  BY <2>4, <2>8, <2>12, <3>1, <3>2
  <2>13. s'.mem_limit = IF a.o = "m" THEN MemOf(a.v) ELSE IF a.o = "Q" /\ "m" \notin DOMAIN s.given THEN QemuMem ELSE s.mem_limit
    BY <2>1 DEF Takes
  <2>14. ASSUME NEW i \in 1 .. k + 1, cl.args[i].o = "m" PROVE s'.mem_limit = MemOf(cl.args[i].v)
    <3>1. "m" \notin St!Free(cl.tool)
      <4>1. St!Free(cl.tool) \in {{"z"}, {"Z", "A", "b"}, {}}
        BY DEF St!Free
      <4>. QED  BY <4>1
    <3>2. CASE i = k + 1
      BY <2>4, <2>13, <2>14, <3>2
    <3>3. CASE i # k + 1
      <4>1. i \in 1 .. k /\ s.mem_limit = MemOf(cl.args[i].v) /\ "m" \in DOMAIN s.given
        BY <1>0, <2>8, <2>10, <2>14, <3>3 DEF ReadInv
      <4>2. a.o # "m"
        BY <2>4, <2>9, <2>12, <2>14, <3>1, <3>3
      <4>. QED  BY <2>13, <4>1, <4>2
    <3>. QED  BY <3>2, <3>3
  <2>15. "m" \notin DOMAIN s'.given => s'.mem_limit = IF "Q" \in DOMAIN s'.given THEN QemuMem ELSE DefaultMem
    <3>1. "m" \notin DOMAIN s.given => s.mem_limit = IF "Q" \in DOMAIN s.given THEN QemuMem ELSE DefaultMem
      BY <1>0 DEF ReadInv
    <3>. QED  BY <2>10, <2>13, <3>1
  <2>16. s'.quiet_mode \in BOOLEAN
         /\ (s'.quiet_mode <=> cl.tool = "afl-showmap" /\ ("q" \in DOMAIN s'.given \/ "Z" \in DOMAIN s'.given))
    <3>1. s.quiet_mode \in BOOLEAN
          /\ (s.quiet_mode <=> cl.tool = "afl-showmap" /\ ("q" \in DOMAIN s.given \/ "Z" \in DOMAIN s.given))
      BY <1>0 DEF ReadInv
    <3>2. s'.quiet_mode = IF cl.tool = "afl-showmap" /\ a.o \in {"q", "Z"} THEN TRUE ELSE s.quiet_mode
      BY <2>1 DEF Takes
    <3>3. CASE cl.tool = "afl-showmap" /\ a.o \in {"q", "Z"}
      <4>1. s'.quiet_mode = TRUE
        BY <3>2, <3>3
      <4>2. s'.quiet_mode \in BOOLEAN /\ s'.quiet_mode
        BY <4>1, Zenon
      <4>. QED  BY <2>10, <3>3, <4>2
    <3>4. CASE ~(cl.tool = "afl-showmap" /\ a.o \in {"q", "Z"})
      <4>1. s'.quiet_mode = s.quiet_mode
        BY <3>2, <3>4
      <4>. QED  BY <2>10, <3>1, <3>4, <4>1
    <3>. QED  BY <3>3, <3>4
  <2>17. cl.tool = "afl-fuzz" => "M" \notin DOMAIN s'.given \/ "S" \notin DOMAIN s'.given
    <3>1. cl.tool = "afl-fuzz" => "M" \notin DOMAIN s.given \/ "S" \notin DOMAIN s.given
      BY <1>0 DEF ReadInv
    <3>. QED  BY <2>1, <2>10, <3>1 DEF Takes
  <2>18. ReadInv(k + 1)'
    BY <1>0, <2>11, <2>12, <2>14, <2>15, <2>16, <2>17 DEF ReadInv
  <2>19. ModesInv'
    <3>. SUFFICES ASSUME cl.tool = "afl-fuzz" PROVE ModesInv'
      BY <1>0 DEF ModesInv
    <3>1. /\ s.force_deterministic \in BOOLEAN /\ s.skip_deterministic \in BOOLEAN /\ s.use_splicing \in BOOLEAN
          /\ s.force_deterministic <=> "M" \in DOMAIN s.given
          /\ s.skip_deterministic <=> "d" \in DOMAIN s.given
          /\ s.use_splicing <=> "d" \in DOMAIN s.given
          /\ s.dumb_mode = 0 <=> "n" \notin DOMAIN s.given
      BY <1>0 DEF ModesInv
    <3>2. /\ s'.force_deterministic = IF a.o = "M" THEN TRUE ELSE s.force_deterministic
          /\ s'.skip_deterministic = IF a.o = "d" THEN TRUE ELSE s.skip_deterministic
          /\ s'.use_splicing = IF a.o = "d" THEN TRUE ELSE s.use_splicing
          /\ IF a.o = "n" THEN s'.dumb_mode \in {1, 2} ELSE s'.dumb_mode = s.dumb_mode
      BY <2>1 DEF Takes
    <3>3. s'.force_deterministic \in BOOLEAN /\ (s'.force_deterministic <=> "M" \in DOMAIN s'.given)
      <4>1. CASE a.o = "M"
        <5>1. s'.force_deterministic = TRUE
          BY <3>2, <4>1
        <5>2. s'.force_deterministic \in BOOLEAN /\ s'.force_deterministic
          BY <5>1, Zenon
        <5>. QED  BY <2>10, <4>1, <5>2
      <4>2. CASE a.o # "M"
        <5>1. s'.force_deterministic = s.force_deterministic
          BY <3>2, <4>2
        <5>. QED  BY <2>10, <3>1, <4>2, <5>1
      <4>. QED  BY <4>1, <4>2
    <3>4. /\ s'.skip_deterministic \in BOOLEAN /\ (s'.skip_deterministic <=> "d" \in DOMAIN s'.given)
          /\ s'.use_splicing \in BOOLEAN /\ (s'.use_splicing <=> "d" \in DOMAIN s'.given)
      <4>1. CASE a.o = "d"
        <5>1. s'.skip_deterministic = TRUE /\ s'.use_splicing = TRUE
          BY <3>2, <4>1
        <5>2. s'.skip_deterministic \in BOOLEAN /\ s'.skip_deterministic /\ s'.use_splicing \in BOOLEAN /\ s'.use_splicing
          BY <5>1, Zenon
        <5>. QED  BY <2>10, <4>1, <5>2
      <4>2. CASE a.o # "d"
        <5>1. s'.skip_deterministic = s.skip_deterministic /\ s'.use_splicing = s.use_splicing
          BY <3>2, <4>2
        <5>. QED  BY <2>10, <3>1, <4>2, <5>1
      <4>. QED  BY <4>1, <4>2
    <3>5. s'.dumb_mode = 0 <=> "n" \notin DOMAIN s'.given
      BY <2>10, <3>1, <3>2
    <3>. QED  BY <3>3, <3>4, <3>5 DEF ModesInv
  <2>20. s'.end = "no" /\ Shaped(s)' /\ stage_of_start' = "options"
    BY <1>0, <1>3, <2>1 DEF Takes, Shaped
  <2>21. ReadInv(ReadSoFar)'
    BY <2>6, <2>18 DEF ReadInv
  <2>. QED  BY <1>0, <2>7, <2>19, <2>20, <2>21 DEF StartInv
<1>. QED  BY <1>2, <1>3

LEMMA CommandLineStep == StartInv /\ (St!StartNext \/ UNCHANGED start) => StartInv'
<1>. SUFFICES ASSUME StartInv, St!StartNext \/ UNCHANGED start PROVE StartInv'
  OBVIOUS
<1>1. CASE St!ReadOption
  BY <1>1, ReadStep
<1>2. CASE St!EndOfOptions
  <2>1. stage_of_start = "options" /\ rest = <<>> /\ UNCHANGED <<cl, env, rest, s, binary>>
        /\ stage_of_start' \in {"checks", "usage"} /\ cl \in CommandLines /\ Shaped(s) /\ ReadInv(ReadSoFar) /\ ModesInv
    BY <1>2 DEF St!EndOfOptions, StartInv
  <2>2. ReadSoFar = Len(cl.args)
    BY <2>1, ArgsAre DEF ReadSoFar
  <2>3. ReadInv(Len(cl.args))' /\ Shaped(s)'
    BY <2>1, <2>2 DEF ReadInv, Shaped
  <2>4. ModesInv'
    BY <2>1 DEF ModesInv
  <2>. QED  BY <2>1, <2>3, <2>4 DEF StartInv
<1>3. CASE St!Check
  <2>1. stage_of_start = "checks" /\ UNCHANGED <<cl, env, rest, binary>> /\ cl \in CommandLines /\ Shaped(s)
        /\ ReadInv(Len(cl.args)) /\ ModesInv /\ stage_of_start' \in {"fatal", "binary"}
    BY <1>3 DEF St!Check, StartInv
  <2>2. CASE cl.tool # "afl-fuzz"
    <3>1. UNCHANGED s
      BY <1>3, <2>2 DEF St!Check
    <3>2. ReadInv(Len(cl.args))' /\ Shaped(s)'
      BY <2>1, <3>1 DEF ReadInv, Shaped
    <3>3. GroupInv'
      BY <2>1, <2>2 DEF GroupInv
    <3>. QED  BY <2>1, <3>2, <3>3 DEF StartInv
  <2>3. CASE cl.tool = "afl-fuzz" /\ stage_of_start' = "fatal"
    BY <2>1, <2>3 DEF StartInv
  <2>4. CASE cl.tool = "afl-fuzz" /\ stage_of_start' # "fatal"
    <3>1. s' = St!FixedUp /\ ~St!FuzzChecksFail
      BY <1>3, <2>4 DEF St!Check
    <3>2. ~(St!Synced /\ St!SyncFails) /\ (s.dumb_mode # 0 => ~St!Given("C") /\ ~St!Given("Q"))
      BY <3>1 DEF St!FuzzChecksFail
    <3>3. St!Synced => s.dumb_mode = 0 /\ ~s.skip_deterministic
      BY <3>2 DEF St!SyncFails
    <3>4. /\ s.force_deterministic \in BOOLEAN /\ s.skip_deterministic \in BOOLEAN /\ s.use_splicing \in BOOLEAN
          /\ s.force_deterministic <=> "M" \in DOMAIN s.given
          /\ s.skip_deterministic <=> "d" \in DOMAIN s.given
          /\ s.use_splicing <=> "d" \in DOMAIN s.given
          /\ s.dumb_mode = 0 <=> "n" \notin DOMAIN s.given
      BY <2>1, <2>4 DEF ModesInv
    <3>5. "M" \notin DOMAIN s.given \/ "S" \notin DOMAIN s.given
      BY <2>1, <2>4 DEF ReadInv
    <3>6. CASE St!Synced /\ ~s.force_deterministic
      <4>1. s' = [s EXCEPT !.skip_deterministic = TRUE, !.use_splicing = TRUE]
        BY <3>1, <3>6 DEF St!FixedUp
      <4>2. Shaped(s') /\ s'.given = s.given /\ s'.mem_limit = s.mem_limit /\ s'.quiet_mode = s.quiet_mode
            /\ s'.skip_deterministic = TRUE /\ s'.use_splicing = TRUE /\ s'.dumb_mode = s.dumb_mode
        BY <2>1, <4>1 DEF Shaped, Fields
      <4>3. s'.skip_deterministic \in BOOLEAN /\ s'.skip_deterministic /\ s'.use_splicing
        BY <4>2, Zenon
      <4>4. "S" \in DOMAIN s.given
        BY <3>4, <3>6 DEF St!Synced, St!Given
      <4>5. ReadInv(Len(cl.args))' /\ Shaped(s)'
        BY <2>1, <4>2 DEF ReadInv, Shaped
      <4>6. GroupInv'
        BY <3>2, <3>3, <3>4, <3>6, <4>2, <4>3, <4>4 DEF GroupInv, St!Given, St!Synced
      <4>. QED  BY <2>1, <4>5, <4>6 DEF StartInv
    <3>7. CASE ~(St!Synced /\ ~s.force_deterministic)
      <4>1. s' = s
        BY <3>1, <3>7 DEF St!FixedUp
      <4>2. ReadInv(Len(cl.args))' /\ Shaped(s)'
        BY <2>1, <4>1 DEF ReadInv, Shaped
      <4>3. GroupInv'
        BY <3>2, <3>3, <3>4, <3>5, <3>7, <4>1 DEF GroupInv, St!Given, St!Synced
      <4>. QED  BY <2>1, <4>2, <4>3 DEF StartInv
    <3>. QED  BY <3>6, <3>7
  <2>. QED  BY <2>2, <2>3, <2>4
<1>4. CASE St!FindTarget
  <2>1. stage_of_start = "binary" /\ UNCHANGED <<cl, env, rest, s>> /\ cl \in CommandLines /\ Shaped(s)
        /\ ReadInv(Len(cl.args)) /\ GroupInv /\ stage_of_start' \in {"fatal", "ready"}
    BY <1>4 DEF St!FindTarget, StartInv
  <2>2. ReadInv(Len(cl.args))' /\ Shaped(s)'
    BY <2>1 DEF ReadInv, Shaped
  <2>3. GroupInv'
    BY <2>1 DEF GroupInv, St!Given, St!Synced
  <2>4. ASSUME stage_of_start' = "ready" PROVE BinaryInv'
    <3>. SUFFICES ASSUME cl.tool = "afl-fuzz", "AFL_SKIP_BIN_CHECK" \notin env.set, ~St!Given("n")
                  PROVE  (St!Given("Q") # ("shm" \in binary.file.has))'
      BY <2>1 DEF BinaryInv, St!Given
    <3>1. ~St!Refused(St!Target) /\ binary' = St!CheckBinary(St!Target)
      BY <1>4, <2>4 DEF St!FindTarget
    <3>2. binary'.file = St!Target
      BY <3>1 DEF St!CheckBinary
    <3>3. s.dumb_mode = 0
      BY <2>1 DEF GroupInv, St!Given
    <3>. QED  BY <2>1, <3>1, <3>2, <3>3 DEF St!Refused, St!Given
  <2>. QED  BY <2>1, <2>2, <2>3, <2>4 DEF StartInv
<1>5. CASE UNCHANGED start
  <2>1. UNCHANGED <<cl, env, stage_of_start, rest, s, binary>>
    BY <1>5 DEF start
  <2>2. \A k : ReadInv(k)' <=> ReadInv(k)
    BY <2>1 DEF ReadInv
  <2>. QED  BY <2>1 DEF StartInv, ReadInv, ModesInv, GroupInv, BinaryInv, Unread, ReadSoFar, Shaped, St!Given, St!Synced
<1>. QED  BY <1>1, <1>2, <1>3, <1>4, <1>5 DEF St!StartNext

LEMMA BoolEq == ASSUME NEW a \in BOOLEAN, NEW b \in BOOLEAN, a <=> b PROVE a = b
OBVIOUS

LEMMA CommandLineImplies == StartInv => St!OrderDoesNotMatter /\ St!SettingsAgree
<1>. SUFFICES ASSUME StartInv PROVE St!OrderDoesNotMatter /\ St!SettingsAgree
  OBVIOUS
<1>1. ASSUME stage_of_start \in {"checks", "binary", "ready"}
      PROVE  /\ DOMAIN s.given = St!Letters
             /\ \A i, j \in DOMAIN cl.args : cl.args[i].o = cl.args[j].o /\ i # j => cl.args[i].o \in St!Free(cl.tool)
             /\ s.mem_limit = IF "m" \in St!Letters
                              THEN (IF St!ValueOf("m").unit = "none" THEN 0 ELSE St!MemValue(St!ValueOf("m")))
                              ELSE IF "Q" \in St!Letters THEN QemuMem ELSE DefaultMem
             /\ s.quiet_mode = (cl.tool = "afl-showmap" /\ {"q", "Z"} \cap St!Letters # {})
             /\ ~({"M", "S"} \subseteq St!Letters /\ cl.tool = "afl-fuzz")
  <2>1. ReadInv(Len(cl.args)) /\ cl \in CommandLines
    BY <1>1 DEF StartInv
  <2>2. DOMAIN cl.args = 1 .. Len(cl.args)
    BY <2>1, ArgsAre
  <2>3. DOMAIN s.given = St!Letters
    BY <2>1, <2>2 DEF ReadInv, St!Letters, St!Args
  <2>4. ASSUME "m" \in St!Letters PROVE s.mem_limit = MemOf(St!ValueOf("m"))
    <3>1. PICK i \in DOMAIN cl.args : St!ValueOf("m") = cl.args[i].v /\ cl.args[i].o = "m"
      <4>1. \E x \in St!Args : x.o = "m"
        BY <2>4 DEF St!Letters
      <4>2. PICK x \in St!Args : x.o = "m" /\ St!ValueOf("m") = x.v
        BY <4>1 DEF St!ValueOf
      <4>. QED  BY <4>2 DEF St!Args
    <3>. QED  BY <2>1, <2>2, <3>1 DEF ReadInv
  <2>5. "m" \notin St!Letters => s.mem_limit = IF "Q" \in St!Letters THEN QemuMem ELSE DefaultMem
    BY <2>1, <2>3 DEF ReadInv
  <2>6. s.quiet_mode = (cl.tool = "afl-showmap" /\ {"q", "Z"} \cap St!Letters # {})
    <3>1. s.quiet_mode \in BOOLEAN /\ (s.quiet_mode <=> (cl.tool = "afl-showmap" /\ {"q", "Z"} \cap St!Letters # {}))
      BY <2>1, <2>3 DEF ReadInv
    <3>. DEFINE p == (cl.tool = "afl-showmap" /\ {"q", "Z"} \cap St!Letters # {})
    <3>2. p \in BOOLEAN
      OBVIOUS
    <3>3. s.quiet_mode <=> p
      BY <3>1
    <3>. HIDE DEF p
    <3>4. s.quiet_mode = p
      BY <3>1, <3>2, <3>3, BoolEq
    <3>. QED  BY <3>4 DEF p
  <2>7. ~({"M", "S"} \subseteq St!Letters /\ cl.tool = "afl-fuzz")
    BY <2>1, <2>3 DEF ReadInv
  <2>8. \A i, j \in DOMAIN cl.args : cl.args[i].o = cl.args[j].o /\ i # j => cl.args[i].o \in St!Free(cl.tool)
    BY <2>1, <2>2 DEF ReadInv
  <2>9. s.mem_limit = IF "m" \in St!Letters
                      THEN (IF St!ValueOf("m").unit = "none" THEN 0 ELSE St!MemValue(St!ValueOf("m")))
                      ELSE IF "Q" \in St!Letters THEN QemuMem ELSE DefaultMem
    BY <2>4, <2>5 DEF MemOf
  <2>. QED  BY <2>3, <2>6, <2>7, <2>8, <2>9
<1>2. ASSUME stage_of_start = "ready", cl.tool = "afl-fuzz"
      PROVE  /\ St!Synced => s.dumb_mode = 0 /\ s.skip_deterministic = St!Given("S")
             /\ s.skip_deterministic <=> s.use_splicing
             /\ St!Given("n") => ~St!Given("C") /\ ~St!Given("Q")
             /\ "AFL_SKIP_BIN_CHECK" \notin env.set /\ ~St!Given("n") => (St!Given("Q") # ("shm" \in binary.file.has))
  <2>1. GroupInv /\ BinaryInv
    BY <1>2 DEF StartInv
  <2>2. ASSUME St!Synced PROVE s.skip_deterministic = St!Given("S")
    <3>1. s.skip_deterministic \in BOOLEAN /\ St!Given("S") \in BOOLEAN /\ (s.skip_deterministic <=> St!Given("S"))
      BY <1>2, <2>1, <2>2 DEF GroupInv, St!Given
    <3>. QED  BY <3>1, BoolEq
  <2>. QED  BY <1>2, <2>1, <2>2 DEF GroupInv, BinaryInv
<1>3. St!OrderDoesNotMatter
  BY <1>1 DEF St!OrderDoesNotMatter
<1>4. St!SettingsAgree
  BY <1>2 DEF St!SettingsAgree
<1>. QED  BY <1>3, <1>4

-----------------------------------------------------------------------------
(* The command of the compiler wrappers.                                   *)
Among(x, q) == \E k \in DOMAIN q : q[k] = x
Wrapper == {"-Xclang -load", "AFL_PATH", "argv0", "built-in", "-Qunused-arguments"}
Words ==
  (UNION {{b.args[i] : i \in DOMAIN b.args} : b \in Builds}) \cup Wrapper
  \cup {"-B", "-no-integrated-as", "-fstack-protector-all", "-D_FORTIFY_SOURCE=2", "-U_FORTIFY_SOURCE", "-fsanitize=address",
         "-fsanitize=memory", "-O3", "-x", "none", "afl-llvm-rt-32.o", "afl-llvm-rt-64.o", "afl-llvm-rt.o"}
LEMMA AmongBoth ==
  ASSUME NEW a \in Seq(Words), NEW b \in Seq(Words)
  PROVE  a \o b \in Seq(Words) /\ \A x : Among(x, a \o b) <=> Among(x, a) \/ Among(x, b)
<1>1. a \o b \in Seq(Words) /\ Len(a \o b) = Len(a) + Len(b)
      /\ \A i \in 1 .. Len(a) + Len(b) : (a \o b)[i] = IF i <= Len(a) THEN a[i] ELSE b[i - Len(a)]
  BY ConcatProperties
<1>2. DOMAIN a = 1 .. Len(a) /\ DOMAIN b = 1 .. Len(b) /\ DOMAIN (a \o b) = 1 .. Len(a) + Len(b)
      /\ Len(a) \in Nat /\ Len(b) \in Nat
  BY <1>1
<1>3. ASSUME NEW x, Among(x, a \o b) PROVE Among(x, a) \/ Among(x, b)
  <2>1. PICK i \in 1 .. Len(a) + Len(b) : (a \o b)[i] = x
    BY <1>2, <1>3 DEF Among
  <2>2. CASE i <= Len(a)
    BY <1>1, <1>2, <2>1, <2>2 DEF Among
  <2>3. CASE i > Len(a)
    <3>1. i - Len(a) \in 1 .. Len(b) /\ ~ (i <= Len(a))
      BY <1>2, <2>3
    <3>. QED  BY <1>1, <1>2, <2>1, <3>1 DEF Among
  <2>. QED  BY <1>2, <2>2, <2>3
<1>4. ASSUME NEW x, Among(x, a) PROVE Among(x, a \o b)
  <2>1. PICK i \in 1 .. Len(a) : a[i] = x
    BY <1>2, <1>4 DEF Among
  <2>2. i \in 1 .. Len(a) + Len(b) /\ i <= Len(a)
    BY <1>2
  <2>. QED  BY <1>1, <1>2, <2>1, <2>2 DEF Among
<1>5. ASSUME NEW x, Among(x, b) PROVE Among(x, a \o b)
  <2>1. PICK i \in 1 .. Len(b) : b[i] = x
    BY <1>2, <1>5 DEF Among
  <2>2. i + Len(a) \in 1 .. Len(a) + Len(b) /\ ~(i + Len(a) <= Len(a)) /\ i + Len(a) - Len(a) = i
    BY <1>2
  <2>. QED  BY <1>1, <1>2, <2>1, <2>2 DEF Among
<1>. QED  BY <1>1, <1>3, <1>4, <1>5

BuildIs == build.args \in Seq(Words) /\ build.file \in Seq(STRING) /\ build.ratio \in Nat

LEMMA TheBuild ==
  ASSUME build \in Builds
  PROVE  /\ BuildIs
         /\ build.places \subseteq {"AFL_PATH", "argv0", "built-in"}
         /\ \A i \in DOMAIN build.args : build.args[i] \notin {"-U_FORTIFY_SOURCE", "-fstack-protector-all"}
         /\ \A i \in DOMAIN build.args : i > 1 /\ build.args[i - 1] = "-B" => build.args[i] \notin Co!Sanitizers
<1>1. /\ build.args \in Seq(STRING) /\ build.file \in Seq(STRING) /\ build.ratio \in Nat
      /\ build.places \subseteq {"AFL_PATH", "argv0", "built-in"}
      /\ \A i \in DOMAIN build.args : build.args[i] \notin {"-U_FORTIFY_SOURCE", "-fstack-protector-all"}
      /\ \A i \in DOMAIN build.args : i > 1 /\ build.args[i - 1] = "-B" => build.args[i] \notin Co!Sanitizers
  BY BuildsAssumption, Zenon DEF Co!Sanitizers
<1>2. build.args \in Seq(Words)
  <2>1. \A i \in DOMAIN build.args : build.args[i] \in Words
    BY DEF Words
  <2>2. Len(build.args) \in Nat /\ build.args = [i \in 1 .. Len(build.args) |-> build.args[i]] /\ DOMAIN build.args = 1 .. Len(build.args)
    BY <1>1
  <2>3. build.args \in [1 .. Len(build.args) -> Words]
    BY <2>1, <2>2
  <2>. QED  BY <2>2, <2>3, SeqDef
<1>. QED  BY <1>1, <1>2 DEF BuildIs

(* While the arguments are read none of the sanitizers among them is lost, *)
(* and the command has nothing else of what the wrapper will add.          *)
ArgsDone == Len(build.args) - Len(unread)
ArgsInv ==
  /\ cc_params \in Seq(Words) /\ unread \in Seq(Words) /\ Len(unread) <= Len(build.args)
  /\ \A i \in 1 .. Len(unread) : unread[i] = build.args[ArgsDone + i]
  /\ \A i \in 1 .. ArgsDone : build.args[i] \in Co!Sanitizers => Among(build.args[i], cc_params)
  /\ \A x : Among(x, cc_params) => x \in Wrapper \/ Among(x, build.args)
CommandInv ==
  /\ cc_params \in Seq(Words)
  /\ Among("-U_FORTIFY_SOURCE", cc_params) => ~Co!AsanSet /\ ~Among("-fstack-protector-all", cc_params)
  /\ Co!Sanitized <=> \E x \in Co!Sanitizers : Among(x, cc_params)
AsIs ==
  Co!Wraps => as.inst_ratio = IF Co!Sanitized THEN build.ratio \div 3 ELSE build.ratio
SanitizerInv ==
  /\ build \in Builds
  /\ bstep \in {"find", "args", "as", "lines", "done", "fatal"}
  /\ bstep = "find" => cc_params = <<>> /\ unread = build.args
  /\ bstep = "args" => ArgsInv /\ build.places # {}
  /\ bstep \in {"as", "lines", "done"} => CommandInv
  /\ bstep \in {"lines", "done"} => AsIs

LEMMA SanitizerStart == Co!CompileInit => SanitizerInv
BY DEF Co!CompileInit, SanitizerInv

LEMMA SanitizerImplies == SanitizerInv => Co!SanitizersAgree
<1>. SUFFICES ASSUME SanitizerInv, bstep \in {"as", "lines", "done"}
              PROVE  /\ Co!InCommand("-U_FORTIFY_SOURCE") => ~Co!AsanSet /\ ~Co!InCommand("-fstack-protector-all")
                     /\ bstep # "as" /\ Co!Wraps =>
                          (as.inst_ratio < build.ratio <=> build.ratio > 0 /\ \E x \in Co!Sanitizers : Co!InCommand(x))
  BY DEF Co!SanitizersAgree
<1>1. CommandInv /\ build \in Builds
  BY DEF SanitizerInv
<1>2. \A x : Co!InCommand(x) <=> Among(x, cc_params)
  BY DEF Co!InCommand, Among
<1>3. Co!InCommand("-U_FORTIFY_SOURCE") => ~Co!AsanSet /\ ~Co!InCommand("-fstack-protector-all")
  BY <1>1, <1>2 DEF CommandInv
<1>4. ASSUME bstep # "as", Co!Wraps
      PROVE  as.inst_ratio < build.ratio <=> build.ratio > 0 /\ \E x \in Co!Sanitizers : Co!InCommand(x)
  <2>1. as.inst_ratio = IF Co!Sanitized THEN build.ratio \div 3 ELSE build.ratio
    BY <1>4 DEF SanitizerInv, AsIs
  <2>2. build.ratio \in Nat
    BY <1>1, TheBuild DEF BuildIs
  <2>3. Co!Sanitized <=> \E x \in Co!Sanitizers : Co!InCommand(x)
    BY <1>1, <1>2 DEF CommandInv
  <2>4. CASE Co!Sanitized
    <3>1. as.inst_ratio = build.ratio \div 3
      BY <2>1, <2>4
    <3>. HIDE DEF Co!Sanitized
    <3>. QED  BY <2>2, <2>3, <2>4, <3>1
  <2>5. CASE ~Co!Sanitized
    BY <2>1, <2>2, <2>3, <2>5
  <2>. QED  BY <2>4, <2>5
<1>. QED  BY <1>3, <1>4

LEMMA PathIs ==
  ASSUME build.places \subseteq {"AFL_PATH", "argv0", "built-in"}, build.places # {}
  PROVE  Co!Path \in {"AFL_PATH", "argv0", "built-in"}
<1>. DEFINE order == <<"AFL_PATH", "argv0", "built-in">>
            First(i) == order[i] \in build.places /\ \A j \in 1 .. i - 1 : order[j] \notin build.places
<1>1. order[1] = "AFL_PATH" /\ order[2] = "argv0" /\ order[3] = "built-in"
  OBVIOUS
<1>. HIDE DEF order
<1>2. 1 .. 1 - 1 = {} /\ 1 .. 2 - 1 = {1} /\ 1 .. 3 - 1 = {1, 2} /\ 1 .. 3 = {1, 2, 3}
  OBVIOUS
<1>3. First(1) \/ First(2) \/ First(3)
  <2>1. CASE "AFL_PATH" \in build.places
    BY <1>1, <1>2, <2>1
  <2>2. CASE "AFL_PATH" \notin build.places /\ "argv0" \in build.places
    BY <1>1, <1>2, <2>2
  <2>3. CASE "AFL_PATH" \notin build.places /\ "argv0" \notin build.places
    <3>1. "built-in" \in build.places
      BY <2>3
    <3>. QED  BY <1>1, <1>2, <2>3, <3>1
  <2>. QED  BY <2>1, <2>2, <2>3
<1>4. \E i \in 1 .. 3 : First(i)
  BY <1>2, <1>3
<1>5. (CHOOSE i \in 1 .. 3 : First(i)) \in 1 .. 3
  <2>. HIDE DEF First
  <2>. QED  BY <1>4
<1>6. Co!Path = order[CHOOSE i \in 1 .. 3 : First(i)]
  BY DEF Co!Path, order
<1>. HIDE DEF First
<1>. QED  BY <1>1, <1>2, <1>5, <1>6

LEMMA FindKeeps == ASSUME SanitizerInv, Co!FindAs PROVE SanitizerInv'
<1>1. bstep = "find" /\ cc_params = <<>> /\ unread = build.args /\ UNCHANGED <<build, unread, as>> /\ build \in Builds
  BY DEF Co!FindAs, SanitizerInv
<1>2. CASE build.places = {}
  BY <1>1, <1>2 DEF Co!FindAs, SanitizerInv
<1>3. CASE build.places # {}
  <2>1. bstep' = "args" /\ cc_params' = Co!When(~Co!Wraps, <<"-Xclang -load", Co!Path, "-Qunused-arguments">>)
    BY <1>3 DEF Co!FindAs
  <2>2. build.args \in Seq(Words) /\ Co!Path \in {"AFL_PATH", "argv0", "built-in"}
    BY <1>1, <1>3, TheBuild, PathIs DEF BuildIs
  <2>3. cc_params' \in Seq(Words) /\ \A k \in DOMAIN cc_params' : cc_params'[k] \in Wrapper
    <3>. DEFINE q == <<"-Xclang -load", Co!Path, "-Qunused-arguments">>
    <3>1. q \in Seq(Words)
      <4>1. Co!Path \in Words /\ "-Xclang -load" \in Words /\ "-Qunused-arguments" \in Words
        BY <2>2 DEF Words, Wrapper
      <4>2. \A u, v, w \in Words : <<u, v, w>> \in Seq(Words)
        OBVIOUS
      <4>. QED  BY <4>1, <4>2
    <3>a. q[1] = "-Xclang -load" /\ q[2] = Co!Path /\ q[3] = "-Qunused-arguments"
      OBVIOUS
    <3>b. DOMAIN q = {1, 2, 3}
      OBVIOUS
    <3>. HIDE DEF q
    <3>2. \A k \in DOMAIN q : q[k] \in Wrapper
      BY <2>2, <3>a, <3>b DEF Wrapper
    <3>3. cc_params' = q \/ cc_params' = <<>>
      BY <2>1 DEF Co!When, q
    <3>4. CASE cc_params' = q
      BY <3>1, <3>2, <3>4
    <3>5. CASE cc_params' = <<>>
      BY <3>5
    <3>. QED  BY <3>3, <3>4, <3>5
  <2>4. ArgsDone' = 0
    BY <1>1, <2>2 DEF ArgsDone
  <2>5. ArgsInv'
    BY <1>1, <2>2, <2>3, <2>4 DEF ArgsInv, Among
  <2>. QED  BY <1>1, <1>3, <2>1, <2>5 DEF SanitizerInv
<1>. QED  BY <1>2, <1>3

LEMMA ReadArgKeeps == ASSUME SanitizerInv, Co!ReadArg PROVE SanitizerInv'
<1>1. bstep = "args" /\ unread # <<>> /\ UNCHANGED <<build, bstep, as>> /\ build \in Builds /\ ArgsInv
  BY DEF Co!ReadArg, SanitizerInv
<1>2. PICK p : p = ArgsDone
  OBVIOUS
<1>3. /\ build.args \in Seq(Words) /\ cc_params \in Seq(Words) /\ unread \in Seq(Words)
      /\ Len(unread) \in Nat /\ Len(unread) > 0 /\ Len(build.args) \in Nat /\ Len(unread) <= Len(build.args)
      /\ p = Len(build.args) - Len(unread) /\ \A i \in 1 .. Len(unread) : unread[i] = build.args[p + i]
  BY <1>1, <1>2, TheBuild DEF ArgsInv, BuildIs, ArgsDone
<1>4. p \in Nat /\ p + 1 \in DOMAIN build.args /\ Head(unread) = build.args[p + 1]
  <2>1. 1 \in 1 .. Len(unread) /\ Head(unread) = unread[1]
    BY <1>3
  <2>. QED  BY <1>3, <2>1
<1>5. /\ \A i \in 1 .. p : build.args[i] \in Co!Sanitizers => Among(build.args[i], cc_params)
      /\ \A x : Among(x, cc_params) => x \in Wrapper \/ Among(x, build.args)
  BY <1>1, <1>2 DEF ArgsInv
<1>6. CASE Co!ReplacedArgs > 0
  <2>1. UNCHANGED cc_params /\ unread' = SubSeq(unread, Co!ReplacedArgs + 1, Len(unread))
    BY <1>6 DEF Co!ReadArg
  <2>2. \/ Co!ReplacedArgs = 2 /\ Head(unread) = "-B" /\ Len(unread) > 1
        \/ Co!ReplacedArgs = 1 /\ Head(unread) \notin Co!Sanitizers
    <3>1. CASE Co!Wraps /\ Head(unread) = "-B" /\ Len(unread) > 1
      BY <3>1 DEF Co!ReplacedArgs
    <3>2. CASE ~(Co!Wraps /\ Head(unread) = "-B" /\ Len(unread) > 1)
      <4>. DEFINE drops == IF Co!Wraps THEN {"-B", "-Bdir", "-integrated-as", "-pipe"} ELSE {"-Wl,-z,defs"}
      <4>1. Co!ReplacedArgs = IF Head(unread) \in drops THEN 1 ELSE 0
        BY <3>2 DEF Co!ReplacedArgs
      <4>2. drops \subseteq {"-B", "-Bdir", "-integrated-as", "-pipe", "-Wl,-z,defs"}
        OBVIOUS
      <4>. HIDE DEF drops
      <4>3. Head(unread) \in drops /\ Co!ReplacedArgs = 1
        BY <1>6, <4>1
      <4>. QED  BY <4>2, <4>3 DEF Co!Sanitizers
    <3>. QED  BY <3>1, <3>2
  <2>3. PICK r \in {1, 2} : r = Co!ReplacedArgs
    BY <2>2
  <2>4. r <= Len(unread)
    BY <1>3, <2>2, <2>3
  <2>5. unread' \in Seq(Words) /\ Len(unread') = Len(unread) - r /\ \A i \in 1 .. Len(unread) - r : unread'[i] = unread[i + r]
    <3>1. r + 1 \in 1 .. Len(unread) + 1
      BY <1>3, <2>4
    <3>2. \A i \in r + 1 .. Len(unread) : unread[i] \in Words
      BY <1>3
    <3>. QED  BY <1>3, <2>1, <2>3, <2>4, <3>1, <3>2
  <2>6. ArgsDone' = p + r
    BY <1>1, <1>3, <2>5 DEF ArgsDone
  <2>7. \A i \in 1 .. Len(unread') : unread'[i] = build.args[p + r + i]
    <3>. SUFFICES ASSUME NEW i \in 1 .. Len(unread') PROVE unread'[i] = build.args[p + r + i]
      OBVIOUS
    <3>1. i + r \in 1 .. Len(unread) /\ unread'[i] = unread[i + r]
      BY <1>3, <2>4, <2>5
    <3>. DEFINE j == i + r
    <3>2. p + j = p + r + i
      BY <1>4, <2>3
    <3>. HIDE DEF j
    <3>3. j \in 1 .. Len(unread)
      BY <3>1 DEF j
    <3>4. unread[j] = build.args[p + j]
      BY <1>3, <3>3
    <3>. QED  BY <3>1, <3>2, <3>4 DEF j
  <2>8. \A i \in 1 .. p + r : build.args[i] \in Co!Sanitizers => Among(build.args[i], cc_params')
    <3>. SUFFICES ASSUME NEW i \in 1 .. p + r, build.args[i] \in Co!Sanitizers, i \notin 1 .. p PROVE FALSE
      BY <1>5, <2>1
    <3>1. CASE r = 1
      <4>1. i = p + 1 /\ Head(unread) \notin Co!Sanitizers
        BY <1>4, <2>2, <2>3, <3>1
      <4>. QED  BY <1>4, <4>1
    <3>2. CASE r = 2
      <4>1. Head(unread) = "-B" /\ Len(unread) > 1 /\ (i = p + 1 \/ i = p + 2)
        BY <1>4, <2>2, <2>3, <3>2
      <4>2. i # p + 1
        BY <1>4, <4>1 DEF Co!Sanitizers
      <4>3. i = p + 2 /\ i \in DOMAIN build.args /\ i > 1 /\ i - 1 = p + 1
        BY <1>3, <1>4, <4>1, <4>2
      <4>. QED  BY <1>1, <1>4, <4>1, <4>3, TheBuild
    <3>. QED  BY <2>3, <3>1, <3>2
  <2>9. ArgsInv'
    <3>1. Len(unread') <= Len(build.args) /\ build' = build
      BY <1>1, <1>3, <2>3, <2>5
    <3>2. \A i \in 1 .. Len(unread') : unread'[i] = build'.args[ArgsDone' + i]
      BY <2>6, <2>7, <3>1
    <3>3. \A i \in 1 .. ArgsDone' : build'.args[i] \in Co!Sanitizers => Among(build'.args[i], cc_params')
      BY <2>6, <2>8, <3>1
    <3>4. \A x : Among(x, cc_params') => x \in Wrapper \/ Among(x, build'.args)
      BY <1>5, <2>1, <3>1
    <3>. QED  BY <1>3, <2>1, <2>5, <3>1, <3>2, <3>3, <3>4 DEF ArgsInv, Co!Sanitizers
  <2>. QED  BY <1>1, <2>9 DEF SanitizerInv
<1>7. CASE ~(Co!ReplacedArgs > 0)
  <2>1. unread' = Tail(unread) /\ cc_params' = Append(cc_params, Head(unread))
    BY <1>7 DEF Co!ReadArg
  <2>2. unread' \in Seq(Words) /\ Len(unread') = Len(unread) - 1 /\ \A i \in 1 .. Len(unread) - 1 : unread'[i] = unread[i + 1]
    BY <1>3, <2>1
  <2>3. Head(unread) \in Words
    BY <1>3
  <2>4. cc_params' \in Seq(Words) /\ \A x : Among(x, cc_params') <=> Among(x, cc_params) \/ x = Head(unread)
    <3>1. /\ cc_params' \in Seq(Words) /\ Len(cc_params') = Len(cc_params) + 1
          /\ \A k \in 1 .. Len(cc_params) : cc_params'[k] = cc_params[k]
          /\ cc_params'[Len(cc_params) + 1] = Head(unread)
      BY <1>3, <2>1, <2>3, AppendProperties
    <3>2. DOMAIN cc_params = 1 .. Len(cc_params) /\ DOMAIN cc_params' = 1 .. Len(cc_params) + 1 /\ Len(cc_params) \in Nat
      BY <1>3, <3>1
    <3>. QED  BY <3>1, <3>2 DEF Among
  <2>5. ArgsDone' = p + 1
    BY <1>1, <1>3, <2>2 DEF ArgsDone
  <2>6. \A i \in 1 .. Len(unread') : unread'[i] = build.args[p + 1 + i]
    <3>. SUFFICES ASSUME NEW i \in 1 .. Len(unread') PROVE unread'[i] = build.args[p + 1 + i]
      OBVIOUS
    <3>1. i + 1 \in 1 .. Len(unread) /\ unread'[i] = unread[i + 1]
      BY <1>3, <2>2
    <3>. DEFINE j == i + 1
    <3>2. p + j = p + 1 + i
      BY <1>4
    <3>. HIDE DEF j
    <3>3. j \in 1 .. Len(unread)
      BY <3>1 DEF j
    <3>4. unread[j] = build.args[p + j]
      BY <1>3, <3>3
    <3>. QED  BY <3>1, <3>2, <3>4 DEF j
  <2>7. \A i \in 1 .. p + 1 : build.args[i] \in Co!Sanitizers => Among(build.args[i], cc_params')
    <3>1. \A i \in 1 .. p + 1 : i \in 1 .. p \/ i = p + 1
      BY <1>4
    <3>. QED  BY <1>4, <1>5, <2>4, <3>1
  <2>8. \A x : Among(x, cc_params') => x \in Wrapper \/ Among(x, build.args)
    <3>1. Among(Head(unread), build.args)
      BY <1>4 DEF Among
    <3>. QED  BY <1>5, <2>4, <3>1
  <2>9. ArgsInv'
    BY <1>1, <1>3, <2>2, <2>4, <2>5, <2>6, <2>7, <2>8 DEF ArgsInv
  <2>. QED  BY <1>1, <2>9 DEF SanitizerInv
<1>. QED  BY <1>6, <1>7

LEMMA WhenIs ==
  ASSUME NEW p \in BOOLEAN, NEW q \in Seq(Words)
  PROVE  Co!When(p, q) \in Seq(Words) /\ \A x : Among(x, Co!When(p, q)) <=> p /\ Among(x, q)
BY DEF Co!When, Among

LEMMA OneIs ==
  ASSUME NEW u \in Words PROVE <<u>> \in Seq(Words) /\ \A x : Among(x, <<u>>) <=> x = u
BY DEF Among
LEMMA TwoIs ==
  ASSUME NEW u \in Words, NEW v \in Words PROVE <<u, v>> \in Seq(Words) /\ \A x : Among(x, <<u, v>>) <=> x = u \/ x = v
<1>1. <<u, v>> \in Seq(Words) /\ DOMAIN <<u, v>> = {1, 2} /\ <<u, v>>[1] = u /\ <<u, v>>[2] = v
  OBVIOUS
<1>. QED  BY <1>1 DEF Among

(* What the wrapper adds, as far as sanitizers go.                         *)
Marks == {"-U_FORTIFY_SOURCE", "-fstack-protector-all"} \cup Co!Sanitizers
Plainest(q) == q \in Seq(Words) /\ \A x \in Marks : ~Among(x, q)

LEMMA PlainWhen == ASSUME NEW p \in BOOLEAN, NEW q, Plainest(q) PROVE Plainest(Co!When(p, q))
BY WhenIs DEF Plainest

LEMMA AddedPlain ==
  ASSUME build.places \subseteq {"AFL_PATH", "argv0", "built-in"}, build.places # {}
  PROVE  /\ Plainest(Co!When(Co!Wraps, <<"-B", Co!Path>>))
         /\ Plainest(Co!When(build.tool = "afl-clang", <<"-no-integrated-as">>))
         /\ Plainest(Co!When(~Co!Set("AFL_DONT_OPTIMIZE"), <<"-O3">>))
         /\ Plainest(Co!When(~Co!Wraps, Co!When(Co!GivenTo({"-x"}), <<"-x", "none">>) \o <<Co!Runtime>>))
<1>1. Marks = {"-U_FORTIFY_SOURCE", "-fstack-protector-all", "-fsanitize=address", "-fsanitize=memory"}
  BY DEF Marks, Co!Sanitizers
<1>2. /\ "-B" \in Words \ Marks /\ "-no-integrated-as" \in Words \ Marks /\ "-O3" \in Words \ Marks
      /\ "-x" \in Words \ Marks /\ "none" \in Words \ Marks
  BY <1>1 DEF Words
<1>3. Co!Path \in Words \ Marks
  <2>1. Co!Path \in {"AFL_PATH", "argv0", "built-in"}
    BY PathIs
  <2>. QED  BY <1>1, <2>1 DEF Words, Wrapper
<1>4. Co!Runtime \in Words \ Marks
  <2>1. Co!Runtime \in {"afl-llvm-rt-32.o", "afl-llvm-rt-64.o", "afl-llvm-rt.o"}
    BY DEF Co!Runtime
  <2>. QED  BY <1>1, <2>1 DEF Words
<1>5. \A u \in Words \ Marks : Plainest(<<u>>)
  BY OneIs DEF Plainest
<1>6. \A u, v \in Words \ Marks : Plainest(<<u, v>>)
  BY TwoIs DEF Plainest
<1>7. Co!Wraps \in BOOLEAN /\ (build.tool = "afl-clang") \in BOOLEAN /\ (~Co!Set("AFL_DONT_OPTIMIZE")) \in BOOLEAN
      /\ Co!GivenTo({"-x"}) \in BOOLEAN /\ (~Co!Wraps) \in BOOLEAN
  BY DEF Co!Wraps, Co!Set, Co!GivenTo
<1>8. Plainest(Co!When(Co!Wraps, <<"-B", Co!Path>>))
  BY <1>2, <1>3, <1>6, <1>7, PlainWhen, Zenon
<1>9. Plainest(Co!When(build.tool = "afl-clang", <<"-no-integrated-as">>))
  BY <1>2, <1>5, <1>7, PlainWhen, Zenon
<1>10. Plainest(Co!When(~Co!Set("AFL_DONT_OPTIMIZE"), <<"-O3">>))
  BY <1>2, <1>5, <1>7, PlainWhen, Zenon
<1>11. Plainest(Co!When(Co!GivenTo({"-x"}), <<"-x", "none">>)) /\ Plainest(<<Co!Runtime>>)
  BY <1>2, <1>4, <1>5, <1>6, <1>7, PlainWhen, Zenon
<1>12. \A q, r : Plainest(q) /\ Plainest(r) => Plainest(q \o r)
  BY AmongBoth DEF Plainest
<1>13. Plainest(Co!When(~Co!Wraps, Co!When(Co!GivenTo({"-x"}), <<"-x", "none">>) \o <<Co!Runtime>>))
  BY <1>7, <1>11, <1>12, PlainWhen, Zenon
<1>. QED  BY <1>8, <1>9, <1>10, <1>13

LEMMA HardeningIs ==
  /\ Co!Hardening \in Seq(Words)
  /\ \A x \in Marks : Among(x, Co!Hardening) <=> Co!Set("AFL_HARDEN") /\ x = "-fstack-protector-all"
<1>1. "-fstack-protector-all" \in Words /\ "-D_FORTIFY_SOURCE=2" \in Words /\ "-D_FORTIFY_SOURCE=2" \notin Marks
  BY DEF Words, Marks, Co!Sanitizers
<1>2. (~Co!FortifySet) \in BOOLEAN /\ Co!Set("AFL_HARDEN") \in BOOLEAN
  BY DEF Co!FortifySet, Co!GivenTo, Co!Set
<1>. DEFINE q == Co!When(~Co!FortifySet, <<"-D_FORTIFY_SOURCE=2">>)
            r == <<"-fstack-protector-all">>
<1>3. q \in Seq(Words) /\ \A x \in Marks : ~Among(x, q)
  <2>1. <<"-D_FORTIFY_SOURCE=2">> \in Seq(Words) /\ \A x : Among(x, <<"-D_FORTIFY_SOURCE=2">>) <=> x = "-D_FORTIFY_SOURCE=2"
    BY <1>1, OneIs, Zenon
  <2>. QED  BY <1>1, <1>2, <2>1, WhenIs
<1>4. r \in Seq(Words) /\ \A x : Among(x, r) <=> x = "-fstack-protector-all"
  BY <1>1, OneIs, Zenon
<1>5. Co!Hardening = Co!When(Co!Set("AFL_HARDEN"), r \o q)
  BY DEF Co!Hardening
<1>. HIDE DEF q, r
<1>6. r \o q \in Seq(Words) /\ \A x \in Marks : Among(x, r \o q) <=> x = "-fstack-protector-all"
  BY <1>3, <1>4, AmongBoth
<1>. DEFINE w == r \o q
<1>. HIDE DEF w
<1>7. w \in Seq(Words) /\ (\A x \in Marks : Among(x, w) <=> x = "-fstack-protector-all")
      /\ Co!Hardening = Co!When(Co!Set("AFL_HARDEN"), w)
  BY <1>5, <1>6 DEF w
<1>. QED  BY <1>2, <1>7, WhenIs

LEMMA SanitizingIs ==
  /\ Co!Sanitizing \in Seq(Words)
  /\ \A x \in Marks :
       Among(x, Co!Sanitizing) <=>
         /\ ~Co!AsanSet /\ (Co!Set("AFL_USE_ASAN") \/ Co!Set("AFL_USE_MSAN"))
         /\ x = "-U_FORTIFY_SOURCE" \/ x = (IF Co!Set("AFL_USE_ASAN") THEN "-fsanitize=address" ELSE "-fsanitize=memory")
<1>. DEFINE p == ~Co!AsanSet /\ (Co!Set("AFL_USE_ASAN") \/ Co!Set("AFL_USE_MSAN"))
            u == "-U_FORTIFY_SOURCE"
            v == IF Co!Set("AFL_USE_ASAN") THEN "-fsanitize=address" ELSE "-fsanitize=memory"
<1>1. p \in BOOLEAN /\ u \in Words /\ v \in Words
  BY DEF Words, Co!AsanSet, Co!GivenTo, Co!Set
<1>2. Co!Sanitizing = Co!When(p, <<u, v>>)
  BY DEF Co!Sanitizing
<1>. HIDE DEF p, u, v
<1>3. <<u, v>> \in Seq(Words) /\ \A x : Among(x, <<u, v>>) <=> x = u \/ x = v
  BY <1>1, TwoIs
<1>4. Co!Sanitizing \in Seq(Words) /\ \A x : Among(x, Co!Sanitizing) <=> p /\ (x = u \/ x = v)
  BY <1>1, <1>2, <1>3, WhenIs
<1>. QED  BY <1>4, Zenon DEF p, u, v

(* The command is complete.                                                *)
LEMMA EndKeeps == ASSUME SanitizerInv, Co!EndOfArgs PROVE SanitizerInv'
<1>1. bstep = "args" /\ unread = <<>> /\ UNCHANGED <<build, unread, as>> /\ build \in Builds /\ ArgsInv /\ build.places # {}
  BY DEF Co!EndOfArgs, SanitizerInv
<1>2. CASE Co!Contradicts
  BY <1>1, <1>2 DEF Co!EndOfArgs, SanitizerInv
<1>3. CASE ~Co!Contradicts
  <2>. DEFINE a1 == Co!When(Co!Wraps, <<"-B", Co!Path>>)
              a2 == Co!When(build.tool = "afl-clang", <<"-no-integrated-as">>)
              a3 == Co!Hardening
              a4 == Co!Sanitizing
              a5 == Co!When(~Co!Set("AFL_DONT_OPTIMIZE"), <<"-O3">>)
              a6 == Co!When(~Co!Wraps, Co!When(Co!GivenTo({"-x"}), <<"-x", "none">>) \o <<Co!Runtime>>)
  <2>1. /\ bstep' = IF Co!Wraps THEN "as" ELSE IF Co!Width # "" /\ ~Co!Set(Co!Runtime) THEN "fatal" ELSE "done"
        /\ cc_params' = cc_params \o a1 \o a2 \o a3 \o a4 \o a5 \o a6
    BY <1>3 DEF Co!EndOfArgs
  <2>2. Plainest(a1) /\ Plainest(a2) /\ Plainest(a5) /\ Plainest(a6)
    BY <1>1, TheBuild, AddedPlain
  <2>3. /\ a3 \in Seq(Words)
        /\ \A x \in Marks : Among(x, a3) <=> Co!Set("AFL_HARDEN") /\ x = "-fstack-protector-all"
    BY HardeningIs
  <2>4. /\ a4 \in Seq(Words)
        /\ \A x \in Marks :
             Among(x, a4) <=>
               /\ ~Co!AsanSet /\ (Co!Set("AFL_USE_ASAN") \/ Co!Set("AFL_USE_MSAN"))
               /\ x = "-U_FORTIFY_SOURCE" \/ x = (IF Co!Set("AFL_USE_ASAN") THEN "-fsanitize=address" ELSE "-fsanitize=memory")
    BY SanitizingIs
  <2>. HIDE DEF a1, a2, a3, a4, a5, a6
  <2>5. cc_params \in Seq(Words)
    BY <1>1 DEF ArgsInv
  <2>6. /\ cc_params \o a1 \in Seq(Words)
        /\ \A x : Among(x, cc_params \o a1) <=> Among(x, cc_params) \/ Among(x, a1)
    BY <2>2, <2>5, AmongBoth DEF Plainest
  <2>. DEFINE b1 == cc_params \o a1
              b2 == b1 \o a2
              b3 == b2 \o a3
              b4 == b3 \o a4
              b5 == b4 \o a5
  <2>. HIDE DEF b1, b2, b3, b4, b5
  <2>7. b1 \in Seq(Words) /\ \A x \in Marks : Among(x, b1) <=> Among(x, cc_params)
    BY <2>2, <2>6 DEF b1, Plainest
  <2>8. b2 \in Seq(Words) /\ \A x \in Marks : Among(x, b2) <=> Among(x, cc_params)
    BY <2>2, <2>7, AmongBoth DEF b2, Plainest
  <2>9. b3 \in Seq(Words) /\ \A x \in Marks : Among(x, b3) <=> Among(x, cc_params) \/ Among(x, a3)
    BY <2>3, <2>8, AmongBoth DEF b3
  <2>10. b4 \in Seq(Words) /\ \A x \in Marks : Among(x, b4) <=> Among(x, cc_params) \/ Among(x, a3) \/ Among(x, a4)
    BY <2>4, <2>9, AmongBoth DEF b4
  <2>11. b5 \in Seq(Words) /\ \A x \in Marks : Among(x, b5) <=> Among(x, cc_params) \/ Among(x, a3) \/ Among(x, a4)
    BY <2>2, <2>10, AmongBoth DEF b5, Plainest
  <2>12. cc_params' = b5 \o a6
    BY <2>1 DEF b5, b4, b3, b2, b1
  <2>13. cc_params' \in Seq(Words)
         /\ \A x \in Marks : Among(x, cc_params') <=> Among(x, cc_params) \/ Among(x, a3) \/ Among(x, a4)
    BY <2>2, <2>11, <2>12, AmongBoth DEF Plainest
  <2>14. /\ ~Among("-U_FORTIFY_SOURCE", cc_params) /\ ~Among("-fstack-protector-all", cc_params)
         /\ \A x \in Co!Sanitizers : Among(x, cc_params) <=> Among(x, build.args)
    <3>1. \A x \in Marks : x \notin Wrapper
      BY DEF Marks, Wrapper, Co!Sanitizers
    <3>2. \A x : Among(x, cc_params) => x \in Wrapper \/ Among(x, build.args)
      BY <1>1 DEF ArgsInv
    <3>3. ~Among("-U_FORTIFY_SOURCE", build.args) /\ ~Among("-fstack-protector-all", build.args)
      BY <1>1, TheBuild DEF Among
    <3>4. \A x \in Co!Sanitizers : Among(x, build.args) => Among(x, cc_params)
      <4>1. ArgsDone = Len(build.args) /\ DOMAIN build.args = 1 .. Len(build.args)
        BY <1>1, TheBuild DEF ArgsDone, BuildIs
      <4>. QED  BY <1>1, <4>1 DEF ArgsInv, Among
    <3>. QED  BY <3>1, <3>2, <3>3, <3>4 DEF Marks
  <2>15. \A x \in Co!Sanitizers : Among(x, cc_params) => Among(x, cc_params')
    BY <2>13 DEF Marks
  <2>16. Co!AsanSet <=> \E x \in Co!Sanitizers : Among(x, build.args)
    BY <2>14 DEF Co!AsanSet, Co!GivenTo, Among
  <2>17. Co!AsanSet' <=> Co!AsanSet
    <3>1. Co!AsanSet' <=> \E i \in DOMAIN build.args : build.args[i] \in Co!Sanitizers /\ Among(build.args[i], cc_params')
      BY <1>1 DEF Co!AsanSet, Co!GivenTo, Among, Co!Sanitizers
    <3>2. \A i \in DOMAIN build.args : Among(build.args[i], build.args)
      BY DEF Among
    <3>3. (\E i \in DOMAIN build.args : build.args[i] \in Co!Sanitizers /\ Among(build.args[i], cc_params'))
          <=> \E x \in Co!Sanitizers : Among(x, build.args)
      BY <2>14, <2>15, <3>2 DEF Among
    <3>. QED  BY <2>16, <3>1, <3>3
  <2>18. \A x : Co!Set(x)' <=> Co!Set(x)
    BY <1>1 DEF Co!Set
  <2>19. Marks = {"-U_FORTIFY_SOURCE", "-fstack-protector-all", "-fsanitize=address", "-fsanitize=memory"}
         /\ Co!Sanitizers = {"-fsanitize=address", "-fsanitize=memory"}
    BY DEF Marks, Co!Sanitizers
  <2>20. Among("-U_FORTIFY_SOURCE", cc_params') => ~Co!AsanSet' /\ ~Among("-fstack-protector-all", cc_params')
    <3>. SUFFICES ASSUME Among("-U_FORTIFY_SOURCE", cc_params')
                  PROVE  ~Co!AsanSet' /\ ~Among("-fstack-protector-all", cc_params')
      OBVIOUS
    <3>1. ~Co!AsanSet /\ (Co!Set("AFL_USE_ASAN") \/ Co!Set("AFL_USE_MSAN"))
      BY <2>3, <2>4, <2>13, <2>14, <2>19
    <3>2. ~Co!Set("AFL_HARDEN")
      BY <1>3, <3>1 DEF Co!Contradicts
    <3>3. ~Among("-fstack-protector-all", cc_params')
      BY <2>3, <2>4, <2>13, <2>14, <2>19, <3>2
    <3>. QED  BY <2>17, <3>1, <3>3
  <2>21. Co!Sanitized' <=> \E x \in Co!Sanitizers : Among(x, cc_params')
    <3>1. Co!Sanitized' <=> Co!AsanSet \/ Co!Set("AFL_USE_ASAN") \/ Co!Set("AFL_USE_MSAN")
      BY <2>17, <2>18 DEF Co!Sanitized
    <3>2. CASE Co!AsanSet
      BY <2>14, <2>15, <2>16, <3>1, <3>2
    <3>3. CASE ~Co!AsanSet
      <4>1. \A x \in Co!Sanitizers : ~Among(x, cc_params)
        BY <2>14, <2>16, <3>3
      <4>2. \A x \in Co!Sanitizers : x \in Marks /\ (Among(x, cc_params') <=> Among(x, a4))
        BY <2>3, <2>13, <2>19, <4>1
      <4>3. CASE Co!Set("AFL_USE_ASAN")
        <5>1. Among("-fsanitize=address", a4) /\ "-fsanitize=address" \in Co!Sanitizers
          BY <2>4, <2>19, <3>3, <4>3
        <5>. QED  BY <3>1, <4>2, <4>3, <5>1
      <4>4. CASE ~Co!Set("AFL_USE_ASAN") /\ Co!Set("AFL_USE_MSAN")
        <5>1. Among("-fsanitize=memory", a4) /\ "-fsanitize=memory" \in Co!Sanitizers
          BY <2>4, <2>19, <3>3, <4>4
        <5>. QED  BY <3>1, <4>2, <4>4, <5>1
      <4>5. CASE ~Co!Set("AFL_USE_ASAN") /\ ~Co!Set("AFL_USE_MSAN")
        BY <2>4, <2>19, <3>1, <3>3, <4>2, <4>5
      <4>. QED  BY <4>3, <4>4, <4>5
    <3>. QED  BY <3>2, <3>3
  <2>22. CommandInv'
    BY <2>13, <2>20, <2>21 DEF CommandInv, Co!Sanitizers
  <2>23. bstep' \in {"as", "fatal", "done"} /\ (bstep' = "done" => ~Co!Wraps)
    BY <2>1
  <2>24. bstep' = "done" => AsIs'
    BY <1>1, <2>23 DEF AsIs, Co!Wraps
  <2>. QED  BY <1>1, <2>22, <2>23, <2>24 DEF SanitizerInv
<1>. QED  BY <1>2, <1>3

LEMMA SanitizerStep == SanitizerInv /\ (Co!CompileNext \/ UNCHANGED compile) => SanitizerInv'
<1>. SUFFICES ASSUME SanitizerInv, Co!CompileNext \/ UNCHANGED compile PROVE SanitizerInv'
  OBVIOUS
<1>1. ASSUME UNCHANGED <<build, cc_params>>
      PROVE  (CommandInv <=> CommandInv') /\ (Co!Sanitized' <=> Co!Sanitized) /\ (Co!Wraps' <=> Co!Wraps)
  BY <1>1 DEF CommandInv, Co!AsanSet, Co!GivenTo, Co!Sanitized, Co!Sanitizers, Co!Set, Co!Wraps, Among
<1>2. CASE Co!StartAs
  <2>1. bstep = "as" /\ UNCHANGED <<build, cc_params>> /\ bstep' \in {"fatal", "done", "lines"}
        /\ as'.inst_ratio = IF Co!Sanitized THEN build.ratio \div 3 ELSE build.ratio
    BY <1>2 DEF Co!StartAs
  <2>2. AsIs' /\ CommandInv'
    BY <1>1, <2>1 DEF AsIs, SanitizerInv
  <2>. QED  BY <2>1, <2>2 DEF SanitizerInv
<1>3. CASE \E chosen \in Co!Odds : Co!ReadLine(chosen)
  <2>1. bstep = "lines" /\ bstep' = bstep /\ UNCHANGED <<build, cc_params, as>>
    BY <1>3 DEF Co!ReadLine
  <2>. QED  BY <1>1, <2>1 DEF SanitizerInv, AsIs
<1>4. CASE Co!EndOfFile
  <2>1. bstep = "lines" /\ bstep' = "done" /\ UNCHANGED <<build, cc_params, as>>
    BY <1>4 DEF Co!EndOfFile
  <2>. QED  BY <1>1, <2>1 DEF SanitizerInv, AsIs
<1>5. CASE UNCHANGED compile
  <2>1. UNCHANGED <<build, bstep, unread, cc_params, as>>
    BY <1>5 DEF compile
  <2>2. ArgsInv <=> ArgsInv'
    BY <2>1 DEF ArgsInv, ArgsDone, Co!Sanitizers
  <2>. QED  BY <1>1, <2>1, <2>2 DEF SanitizerInv, AsIs
<1>6. CASE Co!FindAs \/ Co!ReadArg \/ Co!EndOfArgs
  BY <1>6, FindKeeps, ReadArgKeeps, EndKeeps
<1>. QED  BY <1>2, <1>3, <1>4, <1>5, <1>6 DEF Co!CompileNext

-----------------------------------------------------------------------------
(* afl-as, line by line: the sets of lines that the reference names, and   *)
(* what of them lies before a line.                                        *)
CodeLines == IF as.pass_thru THEN {} ELSE Co!Code
Inside == Co!Of(Co!Instructions, CodeLines)
Heads == Co!Of({"main"}, CodeLines)
Labels == Co!Of(Co!BranchLabels, CodeLines)
Branched == Labels \ Co!Tables(CodeLines)
TextKind == {".text", ".data"}
SyntaxKind == {".intel_syntax", ".att_syntax"}
AppKind == {"#APP", "#NO_APP"}
WidthKind == {".code32", ".code64"}
OtherWidth == IF as.use_64bit THEN ".code32" ELSE ".code64"
Aligned(k) == Co!Line(k) = ".p2align" /\ ~as.clang_mode /\ Co!LastOf(TextKind, k) = ".text"

\* A label of this kind up to line n still waits for its first instruction.
Waiting(L, n) == \E j \in L : j <= n /\ \A l \in Inside : ~(j <= l /\ l <= n)
\* An alignment up to line n still waits for its branch label.
TableDue(n) == \E k \in 1 .. n : Aligned(k) /\ \A l \in Labels : ~(k <= l /\ l <= n)

LEMMA FirstAfterIs ==
  ASSUME NEW L, L \subseteq Int, NEW i \in Int, CodeLines \subseteq Int
  PROVE  i \in Co!FirstAfter(L, CodeLines) <=> i \in Inside /\ Waiting(L, i - 1)
<1>1. Inside \subseteq Int
  BY DEF Inside, Co!Of
<1>2. \A j \in L : (j .. i - 1 \cap Inside = {}) <=> \A l \in Inside : ~(j <= l /\ l <= i - 1)
  BY <1>1
<1>3. \A j \in L : j < i <=> j <= i - 1
  OBVIOUS
<1>4. i \in Co!FirstAfter(L, CodeLines) <=> i \in Inside /\ \E j \in L : j < i /\ j .. i - 1 \cap Inside = {}
  BY DEF Co!FirstAfter, Inside
<1>. QED  BY <1>2, <1>3, <1>4 DEF Waiting

LEMMA TablesAre ==
  ASSUME NEW j \in Int, CodeLines \subseteq Int
  PROVE  j \in Co!Tables(CodeLines) <=> j \in Labels /\ TableDue(j - 1)
<1>1. Labels \subseteq Int
  BY DEF Labels, Co!Of
<1>2. \A k \in 1 .. j - 1 : (k .. j - 1 \cap Labels = {}) <=> \A l \in Labels : ~(k <= l /\ l <= j - 1)
  BY <1>1
<1>3. j \in Co!Tables(CodeLines) <=> j \in Labels /\ \E k \in 1 .. j - 1 : Aligned(k) /\ k .. j - 1 \cap Labels = {}
  BY DEF Co!Tables, Labels, Aligned, TextKind
<1>. QED  BY <1>2, <1>3 DEF TableDue

LEMMA LastOfFirst == ASSUME NEW K PROVE Co!LastOf(K, 1) = ""
<1>1. {j \in 1 .. 1 - 1 : Co!Line(j) \in K} = {}
  OBVIOUS
<1>. QED  BY <1>1 DEF Co!LastOf

LEMMA LastOfStep ==
  ASSUME NEW K, NEW i \in Nat \ {0}
  PROVE  Co!LastOf(K, i + 1) = IF Co!Line(i) \in K THEN Co!Line(i) ELSE Co!LastOf(K, i)
<1>. DEFINE before == {j \in 1 .. i - 1 : Co!Line(j) \in K}
            upto == {j \in 1 .. i + 1 - 1 : Co!Line(j) \in K}
<1>1. Co!LastOf(K, i) = IF before = {} THEN "" ELSE Co!Line(CHOOSE j \in before : \A k \in before : k <= j)
  BY DEF Co!LastOf
<1>2. Co!LastOf(K, i + 1) = IF upto = {} THEN "" ELSE Co!Line(CHOOSE j \in upto : \A k \in upto : k <= j)
  BY DEF Co!LastOf
<1>3. CASE Co!Line(i) \notin K
  <2>1. before = upto
    BY <1>3
  <2>. QED  BY <1>1, <1>2, <1>3, <2>1
<1>4. CASE Co!Line(i) \in K
  <2>1. i \in upto /\ \A k \in upto : k <= i /\ k \in Int
    BY <1>4
  <2>. HIDE DEF upto
  <2>2. (CHOOSE j \in upto : \A k \in upto : k <= j) = i
    <3>1. \A j \in upto : (\A k \in upto : k <= j) => j = i
      BY <2>1
    <3>. QED  BY <2>1, <3>1
  <2>. QED  BY <1>2, <1>4, <2>1, <2>2
<1>. QED  BY <1>3, <1>4

LEMMA CodeIs ==
  ASSUME NEW i \in DOMAIN build.file
  PROVE  i \in CodeLines <=>
           /\ ~as.pass_thru
           /\ Co!LastOf(TextKind, i) = ".text"
           /\ Co!LastOf(SyntaxKind, i) # ".intel_syntax"
           /\ Co!LastOf(AppKind, i) # "#APP"
           /\ Co!LastOf(WidthKind, i) # OtherWidth
BY DEF CodeLines, Co!Code, TextKind, SyntaxKind, AppKind, WidthKind, OtherWidth

(* One line more.                                                          *)
LEMMA WaitingStep ==
  ASSUME NEW L, L \subseteq Int, L \cap Inside = {}, Inside \subseteq Int, NEW n \in Nat
  PROVE  Waiting(L, n + 1) <=> n + 1 \in L \/ (Waiting(L, n) /\ n + 1 \notin Inside)
<1>1. ASSUME Waiting(L, n + 1), n + 1 \notin L PROVE Waiting(L, n) /\ n + 1 \notin Inside
  <2>1. PICK j \in L : j <= n + 1 /\ \A l \in Inside : ~(j <= l /\ l <= n + 1)
    BY <1>1 DEF Waiting
  <2>2. j <= n
    BY <1>1, <2>1
  <2>3. \A l \in Inside : ~(j <= l /\ l <= n)
    BY <2>1
  <2>4. n + 1 \notin Inside
    BY <2>1
  <2>. QED  BY <2>2, <2>3, <2>4 DEF Waiting
<1>2. ASSUME n + 1 \in L PROVE Waiting(L, n + 1)
  <2>1. \A l \in Inside : l # n + 1
    BY <1>2
  <2>2. \A l \in Inside : ~(n + 1 <= l /\ l <= n + 1)
    BY <2>1
  <2>. QED  BY <1>2, <2>2 DEF Waiting
<1>3. ASSUME Waiting(L, n), n + 1 \notin Inside PROVE Waiting(L, n + 1)
  <2>1. PICK j \in L : j <= n /\ \A l \in Inside : ~(j <= l /\ l <= n)
    BY <1>3 DEF Waiting
  <2>2. \A l \in Inside : l <= n + 1 => l <= n
    BY <1>3
  <2>3. j <= n + 1 /\ \A l \in Inside : ~(j <= l /\ l <= n + 1)
    BY <2>1, <2>2
  <2>. QED  BY <2>3 DEF Waiting
<1>. QED  BY <1>1, <1>2, <1>3

LEMMA TableStep ==
  ASSUME Labels \subseteq Int, NEW n \in Nat, ~(Aligned(n + 1) /\ n + 1 \in Labels)
  PROVE  TableDue(n + 1) <=> n + 1 \notin Labels /\ (TableDue(n) \/ Aligned(n + 1))
<1>1. ASSUME TableDue(n + 1) PROVE n + 1 \notin Labels /\ (TableDue(n) \/ Aligned(n + 1))
  <2>1. PICK k \in 1 .. n + 1 : Aligned(k) /\ \A l \in Labels : ~(k <= l /\ l <= n + 1)
    BY <1>1 DEF TableDue
  <2>2. n + 1 \notin Labels
    BY <2>1
  <2>3. CASE k = n + 1
    BY <2>1, <2>2, <2>3
  <2>4. CASE k # n + 1
    <3>1. k \in 1 .. n /\ \A l \in Labels : ~(k <= l /\ l <= n)
      BY <2>1, <2>4
    <3>. QED  BY <2>1, <2>2, <3>1 DEF TableDue
  <2>. QED  BY <2>3, <2>4
<1>2. ASSUME n + 1 \notin Labels, TableDue(n) PROVE TableDue(n + 1)
  <2>1. PICK k \in 1 .. n : Aligned(k) /\ \A l \in Labels : ~(k <= l /\ l <= n)
    BY <1>2 DEF TableDue
  <2>2. k \in 1 .. n + 1 /\ \A l \in Labels : ~(k <= l /\ l <= n + 1)
    BY <1>2, <2>1
  <2>. QED  BY <2>1, <2>2 DEF TableDue
<1>3. ASSUME n + 1 \notin Labels, Aligned(n + 1) PROVE TableDue(n + 1)
  <2>1. n + 1 \in 1 .. n + 1 /\ \A l \in Labels : ~(n + 1 <= l /\ l <= n + 1)
    BY <1>3
  <2>. QED  BY <1>3, <2>1 DEF TableDue
<1>. QED  BY <1>1, <1>2, <1>3

Flags == [instr_ok : BOOLEAN, skip_csect : BOOLEAN, skip_next_label : BOOLEAN, skip_intel : BOOLEAN, skip_app : BOOLEAN,
          instrument_next : BOOLEAN, ins_lines : Nat]
AsTyped == as \in [use_64bit : BOOLEAN, clang_mode : BOOLEAN, pass_thru : BOOLEAN, inst_ratio : Nat]

(* The flags after n lines are what the reference finds in them.           *)
FlagsInv(n) ==
  /\ scan.instr_ok <=> Co!LastOf(TextKind, n + 1) = ".text"
  /\ scan.skip_intel <=> Co!LastOf(SyntaxKind, n + 1) = ".intel_syntax"
  /\ scan.skip_app <=> Co!LastOf(AppKind, n + 1) = "#APP"
  /\ scan.skip_csect <=> Co!LastOf(WidthKind, n + 1) = OtherWidth
DueInv(n) ==
  /\ TableDue(n) => scan.skip_next_label
  /\ as.inst_ratio = 100 => (scan.skip_next_label => TableDue(n))
NextInv(n) ==
  /\ Waiting(Heads, n) => scan.instrument_next
  /\ scan.instrument_next => Waiting(Heads, n) \/ Waiting(Branched, n)
  /\ as.inst_ratio = 100 => (Waiting(Branched, n) => scan.instrument_next)
LineInv(i) ==
  LET f == i \in Inside /\ Waiting(Heads, i - 1)
      b == i \in Inside /\ Waiting(Branched, i - 1)
      p == i \in Co!Of({"jcc"}, CodeLines)
  IN  /\ f => asm[i].before
      /\ asm[i].before => f \/ b
      /\ asm[i].after => p
      /\ as.inst_ratio = 100 => (b => asm[i].before) /\ (p => asm[i].after)
LinesInv ==
  /\ asm \in Seq([before : BOOLEAN, after : BOOLEAN]) /\ Len(asm) <= Len(build.file)
  /\ scan \in Flags /\ AsTyped /\ as.inst_ratio <= 100
  /\ ~as.pass_thru => FlagsInv(Len(asm)) /\ DueInv(Len(asm)) /\ NextInv(Len(asm))
  /\ \A i \in 1 .. Len(asm) : LineInv(i)
  /\ scan.ins_lines > 0 <=> \E i \in 1 .. Len(asm) : asm[i].before \/ asm[i].after
CompileInv ==
  /\ SanitizerInv
  /\ bstep \in {"find", "args", "as"} => asm = <<>> /\ scan = Co!FreshScan
  /\ bstep = "lines" => LinesInv
  /\ bstep = "done" /\ asm # <<>> => LinesInv /\ Len(asm) = Len(build.file) /\ (payload <=> scan.ins_lines > 0)

LEMMA CompileStart == Co!CompileInit => CompileInv
<1>. SUFFICES ASSUME Co!CompileInit PROVE CompileInv
  OBVIOUS
<1>1. bstep = "find" /\ asm = <<>> /\ scan = Co!FreshScan
  BY DEF Co!CompileInit
<1>. QED  BY <1>1, SanitizerStart DEF CompileInv

LEMMA InsideAre ==
  ASSUME build \in Builds
  PROVE  /\ build.file \in Seq(STRING) /\ DOMAIN build.file = 1 .. Len(build.file) /\ Len(build.file) \in Nat
         /\ CodeLines \subseteq DOMAIN build.file /\ CodeLines \subseteq Int
         /\ Inside \subseteq CodeLines /\ Heads \subseteq CodeLines /\ Labels \subseteq CodeLines /\ Branched \subseteq Labels
         /\ Heads \cap Inside = {} /\ Labels \cap Inside = {}
         /\ \A i : ~(Aligned(i) /\ i \in Labels)
<1>1. build.file \in Seq(STRING)
  BY TheBuild DEF BuildIs
<1>2. DOMAIN build.file = 1 .. Len(build.file) /\ Len(build.file) \in Nat
  BY <1>1
<1>3. CodeLines \subseteq DOMAIN build.file
  BY DEF CodeLines, Co!Code
<1>4. Inside \subseteq CodeLines /\ Heads \subseteq CodeLines /\ Labels \subseteq CodeLines /\ Branched \subseteq Labels
  BY DEF Inside, Heads, Labels, Branched, Co!Of
<1>5. Co!BranchLabels \subseteq {".L0", ".LBB0_0"}
  BY DEF Co!BranchLabels
<1>6. Heads \cap Inside = {} /\ Labels \cap Inside = {}
  BY <1>5 DEF Inside, Heads, Labels, Co!Of, Co!Instructions
<1>7. \A i : ~(Aligned(i) /\ i \in Labels)
  BY <1>5 DEF Aligned, Labels, Co!Of
<1>8. CodeLines \subseteq Int
  BY <1>2, <1>3
<1>. QED  BY <1>1, <1>2, <1>3, <1>4, <1>6, <1>7, <1>8

(* What counts once the file is read.                                      *)
LEMMA CompileImplies == CompileInv => Co!CompileSound
<1>. SUFFICES ASSUME CompileInv PROVE Co!CompileSound
  OBVIOUS
<1>1. Co!SanitizersAgree
  BY SanitizerImplies DEF CompileInv
<1>2. Co!CountsEachWayOnce
  <2>. SUFFICES ASSUME bstep = "done", asm # <<>> PROVE Co!CountsEachWayOnce
    BY DEF Co!CountsEachWayOnce
  <2>. DEFINE code == IF as.pass_thru THEN {} ELSE Co!Code
              functions == Co!FirstAfter(Co!Of({"main"}, code), code)
              branches == Co!FirstAfter(Co!Of(Co!BranchLabels, code) \ Co!Tables(code), code)
              past == Co!Of({"jcc"}, code)
              counted == [before |-> {i \in DOMAIN asm : asm[i].before}, after |-> {i \in DOMAIN asm : asm[i].after}]
  <2>1. build \in Builds /\ LinesInv /\ Len(asm) = Len(build.file) /\ (payload <=> scan.ins_lines > 0)
    BY DEF CompileInv, SanitizerInv
  <2>2. DOMAIN asm = 1 .. Len(asm) /\ DOMAIN asm = DOMAIN build.file
    BY <2>1, InsideAre DEF LinesInv
  <2>3. code = CodeLines /\ Heads = Co!Of({"main"}, code) /\ Branched = Co!Of(Co!BranchLabels, code) \ Co!Tables(code)
    BY DEF CodeLines, Heads, Branched, Labels
  <2>. HIDE DEF code
  <2>4. /\ functions \subseteq DOMAIN asm /\ branches \subseteq DOMAIN asm /\ past \subseteq DOMAIN asm
        /\ functions \subseteq Inside /\ branches \subseteq Inside /\ past \subseteq Inside
    BY <2>1, <2>2, <2>3, InsideAre DEF Co!FirstAfter, Co!Of, Inside, Co!Instructions
  <2>5. \A i \in DOMAIN asm : /\ i \in functions <=> i \in Inside /\ Waiting(Heads, i - 1)
                              /\ i \in branches <=> i \in Inside /\ Waiting(Branched, i - 1)
    BY <2>1, <2>2, <2>3, InsideAre, FirstAfterIs
  <2>6. \A i \in DOMAIN asm : LineInv(i)
    BY <2>1, <2>2 DEF LinesInv
  <2>. DEFINE befores == {i \in DOMAIN asm : asm[i].before}
              afters == {i \in DOMAIN asm : asm[i].after}
  <2>. HIDE DEF functions, branches, past
  <2>7. functions \subseteq befores /\ befores \subseteq functions \cup branches
    BY <2>4, <2>5, <2>6 DEF LineInv
  <2>8. afters \subseteq past
    BY <2>3, <2>6 DEF LineInv, past
  <2>9. as.inst_ratio = 100 => befores = functions \cup branches /\ afters = past
    <3>. SUFFICES ASSUME as.inst_ratio = 100 PROVE befores = functions \cup branches /\ afters = past
      OBVIOUS
    <3>1. \A i \in branches : i \in befores
      BY <2>4, <2>5, <2>6 DEF LineInv
    <3>2. \A i \in past : i \in afters
      BY <2>3, <2>4, <2>6 DEF LineInv, past
    <3>. HIDE DEF befores, afters
    <3>. QED  BY <2>7, <2>8, <3>1, <3>2
  <2>10. ~\E i \in afters : i + 1 \in befores
    <3>. SUFFICES ASSUME NEW i \in afters, i + 1 \in befores PROVE FALSE
      OBVIOUS
    <3>1. i \in Inside /\ i \in Int /\ i + 1 - 1 = i
      BY <2>2, <2>4, <2>8
    <3>2. Waiting(Heads, i) \/ Waiting(Branched, i)
      BY <2>5, <2>7, <3>1
    <3>. QED  BY <3>1, <3>2, <2>1, InsideAre DEF Waiting
  <2>11. payload <=> befores \cup afters # {}
    BY <2>1, <2>2 DEF LinesInv
  <2>12. counted = [before |-> befores, after |-> afters]
    OBVIOUS
  <2>. HIDE DEF befores, afters
  <2>13. counted.before = befores /\ counted.after = afters
    BY <2>12
  <2>14. /\ functions \subseteq counted.before /\ counted.before \subseteq functions \cup branches
         /\ counted.after \subseteq past
         /\ as.inst_ratio = 100 => counted = [before |-> functions \cup branches, after |-> past]
         /\ ~\E i \in counted.after : i + 1 \in counted.before
         /\ payload <=> counted.before \cup counted.after # {}
    BY <2>7, <2>8, <2>9, <2>10, <2>11, <2>12, <2>13
  <2>. QED  BY <2>14 DEF Co!CountsEachWayOnce, code, functions, branches, past, befores, afters
<1>. QED  BY <1>1, <1>2 DEF Co!CompileSound

(* The flags that a line leaves, and what they make of the next one.       *)
LEMMA NotedIs ==
  ASSUME NEW l, scan \in Flags, AsTyped
  PROVE  LET t == Co!Noted(l)
         IN  /\ t \in Flags /\ t.ins_lines = scan.ins_lines /\ (t.instrument_next <=> scan.instrument_next)
             /\ t.instr_ok <=> l = ".text" \/ (scan.instr_ok /\ l # ".data")
             /\ t.skip_intel <=> l = ".intel_syntax" \/ (scan.skip_intel /\ l # ".att_syntax")
             /\ t.skip_app <=> l = "#APP" \/ (scan.skip_app /\ l # "#NO_APP")
             /\ l = ".code32" => (t.skip_csect <=> as.use_64bit)
             /\ l = ".code64" => (t.skip_csect <=> ~as.use_64bit)
             /\ l \notin WidthKind => (t.skip_csect <=> scan.skip_csect)
             /\ t.skip_next_label <=> scan.skip_next_label \/ (l = ".p2align" /\ ~as.clang_mode /\ scan.instr_ok)
<1>. DEFINE t == Co!Noted(l)
            a == scan.skip_next_label \/ (l = ".p2align" /\ ~as.clang_mode /\ scan.instr_ok)
            b == l = ".text" \/ (scan.instr_ok /\ l # ".data")
            c == IF l = ".code32" THEN as.use_64bit ELSE IF l = ".code64" THEN ~as.use_64bit ELSE scan.skip_csect
            d == l = ".intel_syntax" \/ (scan.skip_intel /\ l # ".att_syntax")
            e == l = "#APP" \/ (scan.skip_app /\ l # "#NO_APP")
<1>1. t = [scan EXCEPT !.skip_next_label = a, !.instr_ok = b, !.skip_csect = c, !.skip_intel = d, !.skip_app = e]
  BY DEF Co!Noted
<1>2. a \in BOOLEAN /\ b \in BOOLEAN /\ d \in BOOLEAN /\ e \in BOOLEAN
  OBVIOUS
<1>3. c \in BOOLEAN
  <2>1. as.use_64bit \in BOOLEAN /\ scan.skip_csect \in BOOLEAN
    BY DEF Flags, AsTyped
  <2>. QED  BY <2>1
<1>. HIDE DEF t, a, b, c, d, e
<1>4. t \in Flags
  <2>. DEFINE t1 == [scan EXCEPT !.skip_next_label = a]
              t2 == [t1 EXCEPT !.instr_ok = b]
              t3 == [t2 EXCEPT !.skip_csect = c]
              t4 == [t3 EXCEPT !.skip_intel = d]
              t5 == [t4 EXCEPT !.skip_app = e]
  <2>1. \A r \in Flags : \A x \in BOOLEAN :
          /\ [r EXCEPT !.skip_next_label = x] \in Flags /\ [r EXCEPT !.instr_ok = x] \in Flags
          /\ [r EXCEPT !.skip_csect = x] \in Flags /\ [r EXCEPT !.skip_intel = x] \in Flags
          /\ [r EXCEPT !.skip_app = x] \in Flags
    BY DEF Flags
  <2>2. t = t5
    BY <1>1
  <2>3. t1 \in Flags
    BY <1>2, <2>1, Zenon
  <2>4. t2 \in Flags
    <3>. HIDE DEF t1
    <3>. QED  BY <1>2, <2>1, <2>3, Zenon
  <2>5. t3 \in Flags
    <3>. HIDE DEF t2
    <3>. QED  BY <1>3, <2>1, <2>4, Zenon
  <2>6. t4 \in Flags
    <3>. HIDE DEF t3
    <3>. QED  BY <1>2, <2>1, <2>5, Zenon
  <2>7. t5 \in Flags
    <3>. HIDE DEF t4
    <3>. QED  BY <1>2, <2>1, <2>6, Zenon
  <2>. QED  BY <2>2, <2>7
<1>5. t.skip_next_label = a /\ t.instr_ok = b /\ t.skip_csect = c /\ t.skip_intel = d /\ t.skip_app = e
      /\ t.ins_lines = scan.ins_lines /\ t.instrument_next = scan.instrument_next
  BY <1>1 DEF Flags
<1>6. /\ t.skip_next_label <=> a
      /\ t.instr_ok <=> b
      /\ t.skip_csect <=> c
      /\ t.skip_intel <=> d
      /\ t.skip_app <=> e
      /\ t.instrument_next <=> scan.instrument_next
  BY <1>5, Zenon
<1>7. /\ l = ".code32" => (t.skip_csect <=> as.use_64bit)
      /\ l = ".code64" => (t.skip_csect <=> ~as.use_64bit)
      /\ l \notin WidthKind => (t.skip_csect <=> scan.skip_csect)
  <2>1. l = ".code32" => (c <=> as.use_64bit)
    BY DEF c
  <2>2. l = ".code64" => (c <=> ~as.use_64bit)
    BY DEF c
  <2>3. l \notin WidthKind => (c <=> scan.skip_csect)
    BY DEF c, WidthKind
  <2>. QED  BY <1>6, <2>1, <2>2, <2>3
<1>8. /\ t.instr_ok <=> l = ".text" \/ (scan.instr_ok /\ l # ".data")
      /\ t.skip_intel <=> l = ".intel_syntax" \/ (scan.skip_intel /\ l # ".att_syntax")
      /\ t.skip_app <=> l = "#APP" \/ (scan.skip_app /\ l # "#NO_APP")
      /\ t.skip_next_label <=> scan.skip_next_label \/ (l = ".p2align" /\ ~as.clang_mode /\ scan.instr_ok)
  BY <1>6 DEF a, b, d, e
<1>. QED  BY <1>4, <1>5, <1>6, <1>7, <1>8 DEF t

LEMMA AfterLabelIs ==
  ASSUME NEW f \in Flags, NEW l, NEW chosen \in BOOLEAN
  PROVE  LET t == Co!AfterLabel(f, l, chosen)
         IN  /\ t \in Flags /\ t.ins_lines = f.ins_lines
             /\ (t.instr_ok <=> f.instr_ok) /\ (t.skip_intel <=> f.skip_intel) /\ (t.skip_app <=> f.skip_app)
             /\ t.skip_csect <=> f.skip_csect
             /\ t.skip_next_label <=> f.skip_next_label /\ ~(l \in Co!BranchLabels /\ chosen)
             /\ t.instrument_next <=>
                  f.instrument_next \/ l = "main" \/ (l \in Co!BranchLabels /\ chosen /\ ~f.skip_next_label)
<1>. DEFINE t == Co!AfterLabel(f, l, chosen)
<1>1. "main" \notin Co!BranchLabels
  BY DEF Co!BranchLabels
<1>2. \A b \in BOOLEAN : /\ [f EXCEPT !.instrument_next = b] \in Flags /\ [f EXCEPT !.skip_next_label = b] \in Flags
                         /\ [f EXCEPT !.instrument_next = b].instrument_next = b
                         /\ [f EXCEPT !.skip_next_label = b].skip_next_label = b
  BY DEF Flags
<1>3. [f EXCEPT !.instrument_next = TRUE] \in Flags /\ [f EXCEPT !.skip_next_label = FALSE] \in Flags
      /\ [f EXCEPT !.instrument_next = TRUE].instrument_next = TRUE
      /\ [f EXCEPT !.skip_next_label = FALSE].skip_next_label = FALSE
  BY <1>2, Zenon
<1>4. [f EXCEPT !.instrument_next = TRUE].instrument_next /\ ~[f EXCEPT !.skip_next_label = FALSE].skip_next_label
  BY <1>3, Zenon
<1>5. CASE l = "main" \/ (l \in Co!BranchLabels /\ chosen /\ ~f.skip_next_label)
  <2>1. t = [f EXCEPT !.instrument_next = TRUE]
    BY <1>1, <1>5 DEF Co!AfterLabel
  <2>. QED  BY <1>1, <1>3, <1>4, <1>5, <2>1 DEF Flags
<1>6. CASE l # "main" /\ l \in Co!BranchLabels /\ chosen /\ f.skip_next_label
  <2>1. t = [f EXCEPT !.skip_next_label = FALSE]
    BY <1>6 DEF Co!AfterLabel
  <2>. QED  BY <1>3, <1>4, <1>6, <2>1 DEF Flags
<1>7. CASE l # "main" /\ ~(l \in Co!BranchLabels /\ chosen)
  <2>1. t = f
    BY <1>7 DEF Co!AfterLabel
  <2>. QED  BY <1>7, <2>1
<1>. QED  BY <1>5, <1>6, <1>7

(* Neither the file nor the settings change, nor what is said of them.     *)
LEMMA FileStays ==
  ASSUME UNCHANGED <<build, as>>
  PROVE  /\ CodeLines' = CodeLines /\ Inside' = Inside /\ Heads' = Heads /\ Labels' = Labels /\ Branched' = Branched
         /\ Co!Of({"jcc"}, CodeLines)' = Co!Of({"jcc"}, CodeLines) /\ OtherWidth' = OtherWidth
         /\ \A K, m : Co!LastOf(K, m)' = Co!LastOf(K, m)
         /\ \A m : (Waiting(Heads, m)' <=> Waiting(Heads, m)) /\ (Waiting(Branched, m)' <=> Waiting(Branched, m))
         /\ \A m : TableDue(m)' <=> TableDue(m)
<1>1. \A K, m : Co!LastOf(K, m)' = Co!LastOf(K, m)
  BY DEF Co!LastOf, Co!Line
<1>2. Co!Code' = Co!Code
  BY <1>1 DEF Co!Code
<1>3. CodeLines' = CodeLines
  BY <1>2 DEF CodeLines
<1>4. \A K : Co!Of(K, CodeLines)' = Co!Of(K, CodeLines)
  BY <1>3 DEF Co!Of, Co!Line
<1>5. Inside' = Inside /\ Heads' = Heads
  BY <1>4 DEF Inside, Heads, Co!Instructions
<1>6. Co!BranchLabels' = Co!BranchLabels
  BY DEF Co!BranchLabels
<1>7. Labels' = Labels
  BY <1>3, <1>6 DEF Labels, Co!Of, Co!Line
<1>8. \A k : Aligned(k)' <=> Aligned(k)
  BY <1>1 DEF Aligned, Co!Line, TextKind
<1>9. Co!Tables(CodeLines)' = Co!Tables(CodeLines)
  <2>1. \A j, k : (k .. j - 1 \cap Labels = {})' <=> k .. j - 1 \cap Labels = {}
    BY <1>7
  <2>2. Co!Tables(CodeLines) = {j \in Labels : \E k \in 1 .. j - 1 : Aligned(k) /\ k .. j - 1 \cap Labels = {}}
    BY DEF Co!Tables, Labels, Aligned, TextKind
  <2>3. Co!Tables(CodeLines)' = {j \in Labels' : \E k \in 1 .. j - 1 : Aligned(k)' /\ (k .. j - 1 \cap Labels = {})'}
    BY DEF Co!Tables, Labels, Aligned, TextKind
  <2>. QED  BY <1>7, <1>8, <2>1, <2>2, <2>3
<1>10. Branched' = Branched
  BY <1>7, <1>9 DEF Branched
<1>11. OtherWidth' = OtherWidth
  BY DEF OtherWidth
<1>12. \A m : (Waiting(Heads, m)' <=> Waiting(Heads, m)) /\ (Waiting(Branched, m)' <=> Waiting(Branched, m))
  BY <1>5, <1>10 DEF Waiting
<1>13. \A m : TableDue(m)' <=> TableDue(m)
  BY <1>7, <1>8 DEF TableDue
<1>. QED  BY <1>1, <1>3, <1>4, <1>5, <1>7, <1>10, <1>11, <1>12, <1>13

(* The flags after line n + 1, with what the line itself has to say.       *)
LEMMA CountsIs ==
  ASSUME build \in Builds, scan \in Flags, AsTyped, ~as.pass_thru, NEW n \in Nat, n + 1 \in DOMAIN build.file, FlagsInv(n)
  PROVE  Co!Counts(scan) <=> n + 1 \in CodeLines
BY CodeIs DEF FlagsInv, Co!Counts

LEMMA NotedFlags ==
  ASSUME scan \in Flags, AsTyped, NEW n \in Nat, FlagsInv(n)
  PROVE  LET t == Co!Noted(Co!Line(n + 1))
         IN  /\ t.instr_ok <=> Co!LastOf(TextKind, n + 2) = ".text"
             /\ t.skip_intel <=> Co!LastOf(SyntaxKind, n + 2) = ".intel_syntax"
             /\ t.skip_app <=> Co!LastOf(AppKind, n + 2) = "#APP"
             /\ t.skip_csect <=> Co!LastOf(WidthKind, n + 2) = OtherWidth
<1>. DEFINE l == Co!Line(n + 1)
            t == Co!Noted(l)
<1>1. n + 1 \in Nat \ {0} /\ n + 1 + 1 = n + 2
  OBVIOUS
<1>2. \A K : Co!LastOf(K, n + 2) = IF l \in K THEN l ELSE Co!LastOf(K, n + 1)
  BY <1>1, LastOfStep
<1>. HIDE DEF l
<1>3. /\ t.instr_ok <=> l = ".text" \/ (scan.instr_ok /\ l # ".data")
      /\ t.skip_intel <=> l = ".intel_syntax" \/ (scan.skip_intel /\ l # ".att_syntax")
      /\ t.skip_app <=> l = "#APP" \/ (scan.skip_app /\ l # "#NO_APP")
      /\ l = ".code32" => (t.skip_csect <=> as.use_64bit)
      /\ l = ".code64" => (t.skip_csect <=> ~as.use_64bit)
      /\ l \notin WidthKind => (t.skip_csect <=> scan.skip_csect)
  BY NotedIs
<1>. HIDE DEF t
<1>4. t.instr_ok <=> Co!LastOf(TextKind, n + 2) = ".text"
  BY <1>2, <1>3 DEF FlagsInv, TextKind
<1>5. t.skip_intel <=> Co!LastOf(SyntaxKind, n + 2) = ".intel_syntax"
  BY <1>2, <1>3 DEF FlagsInv, SyntaxKind
<1>6. t.skip_app <=> Co!LastOf(AppKind, n + 2) = "#APP"
  BY <1>2, <1>3 DEF FlagsInv, AppKind
<1>7. t.skip_csect <=> Co!LastOf(WidthKind, n + 2) = OtherWidth
  <2>1. l = ".code32" => (l = OtherWidth <=> as.use_64bit)
    BY DEF OtherWidth
  <2>2. l = ".code64" => (l = OtherWidth <=> ~as.use_64bit)
    BY DEF OtherWidth
  <2>. QED  BY <1>2, <1>3, <2>1, <2>2 DEF FlagsInv, WidthKind
<1>. QED  BY <1>4, <1>5, <1>6, <1>7 DEF t, l

LEMMA LineStep ==
  ASSUME CompileInv, NEW chosen \in Co!Odds, Co!ReadLine(chosen) PROVE LinesInv'
<1>1. bstep = "lines" /\ LinesInv /\ build \in Builds /\ Len(asm) < Len(build.file) /\ UNCHANGED <<build, bstep, as>>
  BY DEF CompileInv, SanitizerInv, Co!ReadLine
<1>2. PICK n : n = Len(asm)
  OBVIOUS
<1>3. PICK line : line = Co!Line(n + 1)
  OBVIOUS
<1>4. /\ build.file \in Seq(STRING) /\ DOMAIN build.file = 1 .. Len(build.file) /\ Len(build.file) \in Nat
      /\ CodeLines \subseteq Int /\ Inside \subseteq CodeLines /\ Heads \subseteq CodeLines /\ Labels \subseteq CodeLines
      /\ Branched \subseteq Labels /\ Heads \cap Inside = {} /\ Labels \cap Inside = {}
      /\ \A i : ~(Aligned(i) /\ i \in Labels)
  BY <1>1, InsideAre
<1>5. n \in Nat /\ n + 1 \in DOMAIN build.file /\ asm \in Seq([before : BOOLEAN, after : BOOLEAN]) /\ line = build.file[n + 1]
  BY <1>1, <1>2, <1>3, <1>4 DEF LinesInv, Co!Line
<1>6. scan \in Flags /\ AsTyped /\ as.pass_thru \in BOOLEAN /\ as.inst_ratio \in Nat /\ as.inst_ratio <= 100
  BY <1>1 DEF LinesInv, AsTyped
<1>7. chosen \in BOOLEAN /\ (as.inst_ratio = 100 => chosen)
  <2>1. chosen \in BOOLEAN
    BY DEF Co!Odds
  <2>2. ~chosen => as.inst_ratio < 100
    BY DEF Co!Odds
  <2>3. as.inst_ratio = 100 => ~(as.inst_ratio < 100)
    OBVIOUS
  <2>. QED  BY <2>1, <2>2, <2>3, Zenon
<1>. DEFINE before == ~as.pass_thru /\ Co!Counts(scan) /\ scan.instrument_next /\ line \in Co!Instructions
            noted == Co!Noted(line)
            after == ~as.pass_thru /\ Co!Counts(noted) /\ line = "jcc" /\ chosen
            waiting == IF Co!Counts(noted) THEN Co!AfterLabel(noted, line, chosen) ELSE noted
            more == (IF before THEN 1 ELSE 0) + (IF after THEN 1 ELSE 0)
<1>8. /\ asm' = Append(asm, [before |-> before, after |-> after])
      /\ scan' = IF as.pass_thru THEN scan
                 ELSE [waiting EXCEPT !.instrument_next = @ /\ ~before,
                                      !.ins_lines = @ + (IF before THEN 1 ELSE 0) + (IF after THEN 1 ELSE 0)]
  BY <1>2, <1>3 DEF Co!ReadLine, Co!Line
<1>9. before \in BOOLEAN /\ after \in BOOLEAN
  OBVIOUS
<1>10. /\ asm' \in Seq([before : BOOLEAN, after : BOOLEAN]) /\ Len(asm') = n + 1
       /\ \A i \in 1 .. n : asm'[i] = asm[i]
       /\ asm'[n + 1] = [before |-> before, after |-> after]
  <2>1. [before |-> before, after |-> after] \in [before : BOOLEAN, after : BOOLEAN]
    BY <1>9
  <2>. HIDE DEF before, after
  <2>. QED  BY <1>2, <1>5, <1>8, <2>1, AppendProperties
<1>11. (asm'[n + 1].before <=> before) /\ (asm'[n + 1].after <=> after)
  <2>. HIDE DEF before, after
  <2>1. asm'[n + 1].before = before /\ asm'[n + 1].after = after
    BY <1>10
  <2>. QED  BY <2>1, Zenon
<1>12. \A i \in 1 .. n + 1 : i \in 1 .. n \/ i = n + 1
  BY <1>5
<1>13. /\ CodeLines' = CodeLines /\ Inside' = Inside /\ Heads' = Heads /\ Labels' = Labels /\ Branched' = Branched
       /\ Co!Of({"jcc"}, CodeLines)' = Co!Of({"jcc"}, CodeLines) /\ OtherWidth' = OtherWidth
       /\ \A K, m : Co!LastOf(K, m)' = Co!LastOf(K, m)
       /\ \A m : (Waiting(Heads, m)' <=> Waiting(Heads, m)) /\ (Waiting(Branched, m)' <=> Waiting(Branched, m))
       /\ \A m : TableDue(m)' <=> TableDue(m)
  BY <1>1, FileStays
<1>14. \A i \in 1 .. n : LineInv(i)'
  <2>1. \A i \in 1 .. n : LineInv(i)
    BY <1>1, <1>2 DEF LinesInv
  <2>2. \A i \in 1 .. n : LineInv(i)' <=> LineInv(i)
    BY ZenonT(60), <1>1, <1>10, <1>13 DEF LineInv
  <2>. QED  BY <2>1, <2>2
<1>15. scan.ins_lines \in Nat /\ (scan.ins_lines > 0 <=> \E i \in 1 .. n : asm[i].before \/ asm[i].after)
  BY <1>1, <1>2 DEF LinesInv, Flags
<1>16. (\E i \in 1 .. n + 1 : asm'[i].before \/ asm'[i].after) <=> scan.ins_lines > 0 \/ before \/ after
  <2>. HIDE DEF before, after
  <2>1. \A i \in 1 .. n : i \in 1 .. n + 1
    BY <1>5
  <2>2. n + 1 \in 1 .. n + 1
    BY <1>5
  <2>. QED  BY <1>10, <1>11, <1>12, <1>15, <2>1, <2>2
<1>17. CASE as.pass_thru
  <2>1. scan' = scan /\ ~before /\ ~after
    BY <1>8, <1>17
  <2>2. LineInv(n + 1)'
    <3>1. CodeLines = {} /\ Inside = {} /\ Co!Of({"jcc"}, CodeLines) = {}
      BY <1>4, <1>17 DEF CodeLines, Co!Of
    <3>. HIDE DEF before, after
    <3>. QED  BY <1>1, <1>11, <1>13, <2>1, <3>1 DEF LineInv
  <2>. HIDE DEF before, after
  <2>3. \A i \in 1 .. Len(asm') : LineInv(i)'
    BY <1>10, <1>12, <1>14, <2>2
  <2>4. scan'.ins_lines > 0 <=> \E i \in 1 .. Len(asm') : asm'[i].before \/ asm'[i].after
    BY <1>10, <1>16, <2>1
  <2>5. Len(asm') <= Len(build'.file)
    BY <1>1, <1>4, <1>5, <1>10
  <2>6. scan' \in Flags /\ AsTyped' /\ as'.inst_ratio <= 100 /\ as'.pass_thru
    BY <1>1, <1>6, <1>17, <2>1 DEF AsTyped
  <2>. QED  BY <1>10, <2>3, <2>4, <2>5, <2>6 DEF LinesInv, Flags
<1>18. CASE ~as.pass_thru
  <2>1. FlagsInv(n) /\ DueInv(n) /\ NextInv(n)
    BY <1>1, <1>2, <1>18 DEF LinesInv
  <2>2. Co!Counts(scan) <=> n + 1 \in CodeLines
    BY <1>1, <1>5, <1>6, <1>18, <2>1, CountsIs
  <2>3. /\ noted \in Flags /\ noted.ins_lines = scan.ins_lines /\ (noted.instrument_next <=> scan.instrument_next)
        /\ noted.instr_ok <=> line = ".text" \/ (scan.instr_ok /\ line # ".data")
        /\ noted.skip_intel <=> line = ".intel_syntax" \/ (scan.skip_intel /\ line # ".att_syntax")
        /\ noted.skip_app <=> line = "#APP" \/ (scan.skip_app /\ line # "#NO_APP")
        /\ line \notin WidthKind => (noted.skip_csect <=> scan.skip_csect)
        /\ noted.skip_next_label <=> scan.skip_next_label \/ (line = ".p2align" /\ ~as.clang_mode /\ scan.instr_ok)
    BY <1>6, NotedIs
  <2>4. /\ noted.instr_ok <=> Co!LastOf(TextKind, n + 2) = ".text"
        /\ noted.skip_intel <=> Co!LastOf(SyntaxKind, n + 2) = ".intel_syntax"
        /\ noted.skip_app <=> Co!LastOf(AppKind, n + 2) = "#APP"
        /\ noted.skip_csect <=> Co!LastOf(WidthKind, n + 2) = OtherWidth
    BY <1>3, <1>5, <1>6, <2>1, NotedFlags
  <2>. HIDE DEF noted
  <2>5. Co!BranchLabels \subseteq {".L0", ".LBB0_0"}
    BY DEF Co!BranchLabels
  <2>6. line \in Co!Instructions \cup Co!BranchLabels \cup {"main"} => (Co!Counts(noted) <=> n + 1 \in CodeLines)
    <3>1. line \in Co!Instructions \cup Co!BranchLabels \cup {"main"} =>
            line \notin {".text", ".data", ".intel_syntax", ".att_syntax", "#APP", "#NO_APP", ".code32", ".code64"}
      BY <2>5 DEF Co!Instructions
    <3>. QED  BY <2>2, <2>3, <3>1 DEF Co!Counts, WidthKind
  <2>7. /\ n + 1 \in Inside <=> n + 1 \in CodeLines /\ line \in Co!Instructions
        /\ n + 1 \in Heads <=> n + 1 \in CodeLines /\ line = "main"
        /\ n + 1 \in Labels <=> n + 1 \in CodeLines /\ line \in Co!BranchLabels
        /\ n + 1 \in Co!Of({"jcc"}, CodeLines) <=> n + 1 \in CodeLines /\ line = "jcc"
    BY <1>3 DEF Inside, Heads, Labels, Co!Of
  <2>8. before <=> n + 1 \in Inside /\ scan.instrument_next
    BY <1>18, <2>2, <2>7
  <2>9. after <=> n + 1 \in Co!Of({"jcc"}, CodeLines) /\ chosen
    BY <1>18, <2>6, <2>7 DEF Co!Instructions
  <2>. HIDE DEF before, after
  <2>10. /\ waiting \in Flags /\ waiting.ins_lines = scan.ins_lines
         /\ (waiting.instr_ok <=> noted.instr_ok) /\ (waiting.skip_intel <=> noted.skip_intel)
         /\ (waiting.skip_app <=> noted.skip_app) /\ (waiting.skip_csect <=> noted.skip_csect)
         /\ waiting.skip_next_label <=> noted.skip_next_label /\ ~(n + 1 \in Labels /\ chosen)
         /\ waiting.instrument_next <=>
              scan.instrument_next \/ n + 1 \in Heads \/ (n + 1 \in Labels /\ chosen /\ ~noted.skip_next_label)
    <3>1. CASE Co!Counts(noted)
      <4>. DEFINE t == Co!AfterLabel(noted, line, chosen)
      <4>1. /\ t \in Flags /\ t.ins_lines = noted.ins_lines
            /\ (t.instr_ok <=> noted.instr_ok) /\ (t.skip_intel <=> noted.skip_intel) /\ (t.skip_app <=> noted.skip_app)
            /\ t.skip_csect <=> noted.skip_csect
            /\ t.skip_next_label <=> noted.skip_next_label /\ ~(line \in Co!BranchLabels /\ chosen)
            /\ t.instrument_next <=>
                 noted.instrument_next \/ line = "main" \/ (line \in Co!BranchLabels /\ chosen /\ ~noted.skip_next_label)
        BY <1>7, <2>3, AfterLabelIs
      <4>2. waiting = t
        BY <3>1
      <4>3. (n + 1 \in Labels <=> line \in Co!BranchLabels) /\ (n + 1 \in Heads <=> line = "main")
        BY <2>6, <2>7, <3>1
      <4>. HIDE DEF t, waiting
      <4>. QED  BY <2>3, <4>1, <4>2, <4>3
    <3>2. CASE ~Co!Counts(noted)
      <4>1. waiting = noted /\ n + 1 \notin Labels /\ n + 1 \notin Heads
        BY <2>6, <2>7, <3>2
      <4>. HIDE DEF waiting
      <4>. QED  BY <2>3, <4>1
    <3>. QED  BY <3>1, <3>2
  <2>. HIDE DEF waiting
  <2>. DEFINE next == waiting.instrument_next /\ ~before
              count == waiting.ins_lines + (IF before THEN 1 ELSE 0) + (IF after THEN 1 ELSE 0)
  <2>11. scan' = [waiting EXCEPT !.instrument_next = next, !.ins_lines = count]
    BY <1>8, <1>18
  <2>12. next \in BOOLEAN /\ count \in Nat /\ (count > 0 <=> scan.ins_lines > 0 \/ before \/ after)
    <3>1. waiting.ins_lines \in Nat
      BY <1>15, <2>10
    <3>. QED  BY <1>15, <2>10, <3>1
  <2>13. (next <=> waiting.instrument_next /\ ~before)
    OBVIOUS
  <2>. HIDE DEF next, count
  <2>14. scan' \in Flags /\ scan'.instrument_next = next /\ scan'.ins_lines = count
         /\ scan'.instr_ok = waiting.instr_ok /\ scan'.skip_intel = waiting.skip_intel /\ scan'.skip_app = waiting.skip_app
         /\ scan'.skip_csect = waiting.skip_csect /\ scan'.skip_next_label = waiting.skip_next_label
    BY <2>10, <2>11, <2>12 DEF Flags
  <2>15. scan'.instrument_next <=> (waiting.instrument_next /\ ~before)
    BY <2>13, <2>14, Zenon
  <2>16. FlagsInv(n + 1)'
    <3>1. n + 1 + 1 = n + 2
      BY <1>5
    <3>. QED  BY <1>13, <2>4, <2>10, <2>14, <3>1 DEF FlagsInv, TextKind, SyntaxKind, AppKind, WidthKind
  <2>17. Aligned(n + 1) <=> line = ".p2align" /\ ~as.clang_mode /\ scan.instr_ok
    BY <1>3, <2>1 DEF Aligned, FlagsInv
  <2>18. TableDue(n + 1) <=> n + 1 \notin Labels /\ (TableDue(n) \/ Aligned(n + 1))
    BY <1>4, <1>5, TableStep
  <2>19. scan'.skip_next_label <=> (scan.skip_next_label \/ Aligned(n + 1)) /\ ~(n + 1 \in Labels /\ chosen)
    BY <2>3, <2>10, <2>14, <2>17
  <2>20. (TableDue(n) => scan.skip_next_label) /\ (as.inst_ratio = 100 => (scan.skip_next_label => TableDue(n)))
    BY <2>1 DEF DueInv
  <2>21. DueInv(n + 1)'
    BY <1>1, <1>7, <1>13, <2>18, <2>19, <2>20 DEF DueInv
  <2>22. n + 1 \in Labels => (n + 1 \in Branched <=> ~TableDue(n)) /\ ~Aligned(n + 1)
    <3>1. PICK j \in Int : j = n + 1
      BY <1>5
    <3>2. j - 1 = n
      BY <1>5, <3>1
    <3>3. j \in Co!Tables(CodeLines) <=> j \in Labels /\ TableDue(j - 1)
      BY <1>4, TablesAre
    <3>4. n + 1 \in Co!Tables(CodeLines) <=> n + 1 \in Labels /\ TableDue(n)
      BY <3>1, <3>2, <3>3
    <3>. QED  BY <1>4, <3>4 DEF Branched
  <2>23. n + 1 \in Labels => (noted.skip_next_label <=> scan.skip_next_label)
    BY <2>3, <2>17, <2>22
  <2>24. /\ Heads \subseteq Int /\ Branched \subseteq Int /\ Inside \subseteq Int
         /\ Heads \cap Inside = {} /\ Branched \cap Inside = {}
    BY <1>4
  <2>25. /\ Waiting(Heads, n + 1) <=> n + 1 \in Heads \/ (Waiting(Heads, n) /\ n + 1 \notin Inside)
         /\ Waiting(Branched, n + 1) <=> n + 1 \in Branched \/ (Waiting(Branched, n) /\ n + 1 \notin Inside)
    BY <1>5, <2>24, WaitingStep
  <2>26. /\ Waiting(Heads, n) => scan.instrument_next
         /\ scan.instrument_next => Waiting(Heads, n) \/ Waiting(Branched, n)
         /\ as.inst_ratio = 100 => (Waiting(Branched, n) => scan.instrument_next)
    BY <2>1 DEF NextInv
  <2>27. NextInv(n + 1)'
    <3>1. scan'.instrument_next <=>
            /\ ~(n + 1 \in Inside /\ scan.instrument_next)
            /\ scan.instrument_next \/ n + 1 \in Heads \/ (n + 1 \in Labels /\ chosen /\ ~scan.skip_next_label)
      BY <2>8, <2>10, <2>15, <2>23
    <3>2. Waiting(Heads, n + 1) => scan'.instrument_next
      BY <2>24, <2>25, <2>26, <3>1
    <3>3. scan'.instrument_next => Waiting(Heads, n + 1) \/ Waiting(Branched, n + 1)
      BY <1>4, <2>20, <2>22, <2>25, <2>26, <3>1
    <3>4. as.inst_ratio = 100 => (Waiting(Branched, n + 1) => scan'.instrument_next)
      BY <1>4, <1>7, <2>20, <2>22, <2>24, <2>25, <2>26, <3>1
    <3>. QED  BY <1>1, <1>13, <3>2, <3>3, <3>4 DEF NextInv
  <2>28. LineInv(n + 1)'
    <3>1. n + 1 - 1 = n
      BY <1>5
    <3>2. (n + 1 \in Inside /\ Waiting(Heads, n)) => asm'[n + 1].before
      BY <1>11, <2>8, <2>26
    <3>3. asm'[n + 1].before => n + 1 \in Inside /\ (Waiting(Heads, n) \/ Waiting(Branched, n))
      BY <1>11, <2>8, <2>26
    <3>4. asm'[n + 1].after => n + 1 \in Co!Of({"jcc"}, CodeLines)
      BY <1>11, <2>9
    <3>5. as.inst_ratio = 100 =>
            /\ n + 1 \in Inside /\ Waiting(Branched, n) => asm'[n + 1].before
            /\ n + 1 \in Co!Of({"jcc"}, CodeLines) => asm'[n + 1].after
      BY <1>7, <1>11, <2>8, <2>9, <2>26
    <3>6. PICK i : i = n + 1
      OBVIOUS
    <3>7. i - 1 = n
      BY <1>5, <3>6
    <3>8. as' = as
      BY <1>1
    <3>9. /\ (i \in Inside /\ Waiting(Heads, i - 1))' <=> i \in Inside /\ Waiting(Heads, i - 1)
          /\ (i \in Inside /\ Waiting(Branched, i - 1))' <=> i \in Inside /\ Waiting(Branched, i - 1)
          /\ (i \in Co!Of({"jcc"}, CodeLines))' <=> i \in Co!Of({"jcc"}, CodeLines)
      BY <1>13
    <3>10. (i \in Inside /\ Waiting(Heads, i - 1)) => asm'[i].before
      BY <3>2, <3>6, <3>7
    <3>12. asm'[i].before => (i \in Inside /\ Waiting(Heads, i - 1)) \/ (i \in Inside /\ Waiting(Branched, i - 1))
      BY <3>3, <3>6, <3>7
    <3>13. asm'[i].after => i \in Co!Of({"jcc"}, CodeLines)
      BY <3>4, <3>6
    <3>14. as.inst_ratio = 100 => ((i \in Inside /\ Waiting(Branched, i - 1)) => asm'[i].before)
      BY <3>5, <3>6, <3>7
    <3>15. as.inst_ratio = 100 => (i \in Co!Of({"jcc"}, CodeLines) => asm'[i].after)
      BY <3>5, <3>6
    <3>16. LineInv(i)'
      BY <3>8, <3>9, <3>10, <3>12, <3>13, <3>14, <3>15 DEF LineInv
    <3>. QED  BY <3>6, <3>16
  <2>29. \A i \in 1 .. Len(asm') : LineInv(i)'
    BY <1>10, <1>12, <1>14, <2>28
  <2>30. scan'.ins_lines > 0 <=> \E i \in 1 .. Len(asm') : asm'[i].before \/ asm'[i].after
    BY <1>10, <1>16, <2>12, <2>14
  <2>31. Len(asm') <= Len(build'.file) /\ AsTyped' /\ as'.inst_ratio <= 100
    <3>1. Len(asm') <= Len(build'.file)
      BY <1>1, <1>4, <1>5, <1>10
    <3>2. as' = as
      BY <1>1
    <3>. QED  BY <1>6, <3>1, <3>2 DEF AsTyped
  <2>32. (FlagsInv(Len(asm)) /\ DueInv(Len(asm)) /\ NextInv(Len(asm)))'
    BY <1>10, <2>16, <2>21, <2>27 DEF FlagsInv, DueInv, NextInv, TextKind, SyntaxKind, AppKind, WidthKind
  <2>. QED  BY <1>10, <2>14, <2>29, <2>30, <2>31, <2>32 DEF LinesInv, Flags
<1>. QED  BY <1>6, <1>17, <1>18

LEMMA NothingBefore == \A K, m : m = 1 => Co!LastOf(K, m) = ""
BY LastOfFirst

\* Before the first line there is nothing to say.
LEMMA LinesBegin ==
  ASSUME CompileInv, Co!StartAs, bstep' = "lines" PROVE LinesInv'
<1>1. /\ bstep = "as" /\ asm = <<>> /\ scan = Co!FreshScan /\ build \in Builds /\ asm' = <<>> /\ scan' = Co!FreshScan
      /\ UNCHANGED build /\ build.ratio <= 100 /\ build.ratio \in Nat /\ build.file \in Seq(STRING)
  <2>1. bstep = "as" /\ ~(build.ratio > 100) /\ UNCHANGED <<build, asm, scan>>
    BY DEF Co!StartAs
  <2>2. build \in Builds
    BY DEF CompileInv, SanitizerInv
  <2>3. build.ratio \in Nat /\ build.file \in Seq(STRING)
    BY <2>2, TheBuild DEF BuildIs
  <2>. QED  BY <2>1, <2>2, <2>3 DEF CompileInv
<1>2. as' = [use_64bit |-> Co!Width # "-m32", clang_mode |-> build.tool = "afl-clang", pass_thru |-> Co!PassThru,
             inst_ratio |-> IF Co!Sanitized THEN build.ratio \div 3 ELSE build.ratio]
  BY DEF Co!StartAs
<1>3. AsTyped' /\ as'.inst_ratio <= 100
  <2>. DEFINE u == Co!Width # "-m32"
              c == build.tool = "afl-clang"
              p == Co!PassThru
              r == IF Co!Sanitized THEN build.ratio \div 3 ELSE build.ratio
  <2>1. u \in BOOLEAN /\ c \in BOOLEAN
    OBVIOUS
  <2>2. p \in BOOLEAN
    BY DEF Co!PassThru
  <2>3. r \in Nat /\ r <= 100
    <3>1. build.ratio \div 3 \in Nat /\ build.ratio \div 3 <= 100
      BY <1>1
    <3>. QED  BY <1>1, <3>1
  <2>. HIDE DEF u, c, p, r
  <2>4. as' = [use_64bit |-> u, clang_mode |-> c, pass_thru |-> p, inst_ratio |-> r]
    BY <1>2 DEF u, c, p, r
  <2>. QED  BY <2>1, <2>2, <2>3, <2>4 DEF AsTyped
<1>4. Len(asm') = 0 /\ asm' \in Seq([before : BOOLEAN, after : BOOLEAN]) /\ Len(asm') <= Len(build'.file)
  BY <1>1, EmptySeq
<1>5. scan' \in Flags
  BY <1>1 DEF Flags, Co!FreshScan
<1>6. /\ ~scan'.instr_ok /\ ~scan'.skip_intel /\ ~scan'.skip_app /\ ~scan'.skip_csect /\ ~scan'.skip_next_label
      /\ ~scan'.instrument_next /\ scan'.ins_lines = 0
  BY <1>1 DEF Co!FreshScan
<1>7. \A K : Co!LastOf(K, 1) = ""
  BY LastOfFirst
<1>8. \A K : Co!LastOf(K, 0 + 1)' = ""
  <2>1. (\A K, m : m = 1 => Co!LastOf(K, m) = "")'
    BY NothingBefore, PTL
  <2>2. \A K, m : m = 1 => Co!LastOf(K, m)' = ""
    BY <2>1
  <2>3. 0 + 1 = 1
    OBVIOUS
  <2>. QED  BY <2>2, <2>3
<1>9. FlagsInv(0)'
  <2>1. OtherWidth' # ""
    BY DEF OtherWidth
  <2>. QED  BY <1>6, <1>8, <2>1 DEF FlagsInv, TextKind, SyntaxKind, AppKind, WidthKind
<1>10. ~TableDue(0)' /\ ~Waiting(Heads, 0)' /\ ~Waiting(Branched, 0)'
  <2>1. DOMAIN build'.file \subseteq {k \in Int : k > 0}
    BY <1>1
  <2>2. CodeLines' \subseteq DOMAIN build'.file
    BY DEF CodeLines, Co!Code
  <2>3. Heads' \subseteq CodeLines' /\ Labels' \subseteq CodeLines' /\ Branched' \subseteq Labels'
    BY DEF Heads, Labels, Branched, Co!Of
  <2>4. \A k \in Heads' \cup Branched' : ~(k <= 0)
    BY <2>1, <2>2, <2>3
  <2>5. ~Waiting(Heads, 0)' /\ ~Waiting(Branched, 0)'
    BY <2>4 DEF Waiting
  <2>6. ~TableDue(0)'
    BY DEF TableDue
  <2>. QED  BY <2>5, <2>6
<1>11. DueInv(0)' /\ NextInv(0)'
  BY <1>6, <1>10 DEF DueInv, NextInv
<1>12. (FlagsInv(Len(asm)) /\ DueInv(Len(asm)) /\ NextInv(Len(asm)))'
  BY <1>4, <1>9, <1>11 DEF FlagsInv, DueInv, NextInv
<1>13. 1 .. Len(asm') = {}
  BY <1>4
<1>. QED  BY <1>3, <1>4, <1>5, <1>6, <1>12, <1>13 DEF LinesInv

\* What is said of the lines stays as long as file, settings and output do.
LEMMA LinesStay ==
  ASSUME LinesInv, UNCHANGED <<build, as, asm, scan>> PROVE LinesInv'
<1>1. /\ Inside' = Inside /\ Co!Of({"jcc"}, CodeLines)' = Co!Of({"jcc"}, CodeLines) /\ OtherWidth' = OtherWidth
      /\ \A K, m : Co!LastOf(K, m)' = Co!LastOf(K, m)
      /\ \A m : (Waiting(Heads, m)' <=> Waiting(Heads, m)) /\ (Waiting(Branched, m)' <=> Waiting(Branched, m))
      /\ \A m : TableDue(m)' <=> TableDue(m)
  BY FileStays
<1>2. FlagsInv(Len(asm))' <=> FlagsInv(Len(asm))
  BY <1>1 DEF FlagsInv, TextKind, SyntaxKind, AppKind, WidthKind
<1>3. (DueInv(Len(asm))' <=> DueInv(Len(asm))) /\ (NextInv(Len(asm))' <=> NextInv(Len(asm)))
  BY <1>1 DEF DueInv, NextInv
<1>4. \A i : LineInv(i)' <=> LineInv(i)
  BY <1>1 DEF LineInv
<1>5. AsTyped'
  BY DEF LinesInv, AsTyped
<1>6. \A i \in 1 .. Len(asm') : LineInv(i)'
  BY <1>4 DEF LinesInv
<1>7. ~as'.pass_thru => FlagsInv(Len(asm))' /\ DueInv(Len(asm))' /\ NextInv(Len(asm))'
  BY <1>2, <1>3 DEF LinesInv
<1>. QED  BY <1>5, <1>6, <1>7 DEF LinesInv, Flags

LEMMA CompileStep == CompileInv /\ (Co!CompileNext \/ UNCHANGED compile) => CompileInv'
<1>. SUFFICES ASSUME CompileInv, Co!CompileNext \/ UNCHANGED compile PROVE CompileInv'
  OBVIOUS
<1>1. SanitizerInv'
  BY SanitizerStep DEF CompileInv
<1>2. ASSUME Co!FindAs \/ Co!ReadArg \/ Co!EndOfArgs PROVE CompileInv'
  <2>1. bstep \in {"find", "args"} /\ UNCHANGED <<asm, scan>> /\ bstep' \in {"find", "args", "as", "done", "fatal"}
    BY <1>2 DEF Co!FindAs, Co!ReadArg, Co!EndOfArgs
  <2>2. asm' = <<>> /\ scan' = Co!FreshScan
    BY <2>1 DEF CompileInv
  <2>3. Co!FreshScan' = Co!FreshScan
    BY DEF Co!FreshScan
  <2>. QED  BY <1>1, <2>1, <2>2, <2>3 DEF CompileInv
<1>3. ASSUME Co!StartAs PROVE CompileInv'
  <2>1. bstep = "as" /\ UNCHANGED <<asm, scan>> /\ bstep' \in {"fatal", "done", "lines"}
    BY <1>3 DEF Co!StartAs
  <2>2. asm' = <<>>
    BY <2>1 DEF CompileInv
  <2>3. bstep' = "lines" => LinesInv'
    BY <1>3, LinesBegin
  <2>. QED  BY <1>1, <2>1, <2>2, <2>3 DEF CompileInv
<1>4. ASSUME NEW chosen \in Co!Odds, Co!ReadLine(chosen) PROVE CompileInv'
  <2>1. bstep = "lines" /\ bstep' = "lines"
    BY <1>4 DEF Co!ReadLine
  <2>2. LinesInv'
    BY <1>4, LineStep
  <2>. QED  BY <1>1, <2>1, <2>2 DEF CompileInv
<1>5. ASSUME Co!EndOfFile PROVE CompileInv'
  <2>1. /\ bstep = "lines" /\ bstep' = "done" /\ Len(asm) = Len(build.file) /\ UNCHANGED <<build, as, asm, scan>>
        /\ payload' = (scan.ins_lines > 0)
    BY <1>5 DEF Co!EndOfFile
  <2>2. LinesInv'
    BY <2>1, LinesStay DEF CompileInv
  <2>3. payload' <=> scan'.ins_lines > 0
    BY <2>1
  <2>. QED  BY <1>1, <2>1, <2>2, <2>3 DEF CompileInv
<1>6. ASSUME UNCHANGED compile PROVE CompileInv'
  <2>1. UNCHANGED <<build, bstep, as, asm, scan, payload>>
    BY <1>6 DEF compile
  <2>2. LinesInv => LinesInv'
    BY <2>1, LinesStay
  <2>3. Co!FreshScan' = Co!FreshScan
    BY DEF Co!FreshScan
  <2>. QED  BY <1>1, <2>1, <2>2, <2>3 DEF CompileInv
<1>. QED  BY <1>2, <1>3, <1>4, <1>5, <1>6 DEF Co!CompileNext

-----------------------------------------------------------------------------
(* The call graph.                                                         *)
LEMMA MinIn == ASSUME NEW S, S \subseteq Nat, S # {} PROVE CG!Min(S) \in S
BY LeastNat DEF CG!Min

(* A function is known by its name.                                        *)
LEMMA FunctionsNamed ==
  ASSUME cg \in Servers
  PROVE  /\ \A f \in CG!Functions : f.name \in CG!Known /\ CG!FnOf(f.name) = f
         /\ \A n \in CG!Known : CG!FnOf(n) \in CG!Functions /\ CG!FnOf(n).name = n
<1>1. ASSUME NEW f \in CG!Functions, NEW g \in CG!Functions, f.name = g.name PROVE f = g
  <2>1. PICK i \in DOMAIN cg.functions : f = cg.functions[i]
    BY DEF CG!Functions, CG!ToSet
  <2>2. PICK j \in DOMAIN cg.functions : g = cg.functions[j]
    BY DEF CG!Functions, CG!ToSet
  <2>. QED  BY <1>1, <2>1, <2>2, ServersAssumption
<1>2. ASSUME NEW n \in CG!Known PROVE CG!FnOf(n) \in CG!Functions /\ CG!FnOf(n).name = n
  <2>1. \E f \in CG!Functions : f.name = n
    BY DEF CG!Known
  <2>. QED  BY <2>1 DEF CG!FnOf
<1>3. \A f \in CG!Functions : f.name \in CG!Known
  BY DEF CG!Known
<1>. QED  BY <1>1, <1>2, <1>3

(* A stack is a piece of the file.                                         *)
LEMMA StackLines ==
  ASSUME lines \in StackFiles, NEW i \in CG!Stacks
  PROVE  CG!Stack(i) \in Seq(STRING)
<1>. DEFINE n == Len(lines)
<1>1. lines \in Seq(STRING) /\ n \in Nat
  BY ServersAssumption, LenProperties
<1>2. CG!Separators \subseteq 2 .. n - 1
  BY DEF CG!Separators
<1>3. i \in Nat /\ i >= 1 /\ n >= 2
  BY <1>1, <1>2 DEF CG!Stacks
<1>. DEFINE next == {p \in CG!Separators : p >= i}
<1>4. CG!LastOf(i) \in Int /\ CG!LastOf(i) <= n
  <2>1. CG!LastOf(i) = IF next = {} THEN n - 1 ELSE CG!Min(next) - 1
    BY DEF CG!LastOf
  <2>2. next \subseteq CG!Separators
    OBVIOUS
  <2>. HIDE DEF n, next
  <2>3. next \subseteq 2 .. n - 1 /\ next \subseteq Nat
    BY <1>1, <1>2, <2>2
  <2>4. CASE next = {}
    BY <1>1, <2>1, <2>4
  <2>5. CASE next # {}
    <3>1. CG!Min(next) \in 2 .. n - 1
      BY <2>3, <2>5, MinIn
    <3>. QED  BY <1>1, <2>1, <2>5, <3>1
  <2>. QED  BY <2>4, <2>5
<1>5. SubSeq(lines, i, CG!LastOf(i)) \in Seq(STRING)
  BY <1>1, <1>3, <1>4, SubSeqProperties
<1>. QED  BY <1>5 DEF CG!Stack

LEMMA StackNames ==
  ASSUME cg \in Servers, lines \in StackFiles, NEW i \in CG!Stacks, NEW j \in 1 .. Len(CG!Stack(i)),
         CG!Stack(i)[j] \in CG!Known
  PROVE  CG!InStack(CG!FnOf(CG!Stack(i)[j]))
<1>1. CG!Stack(i)[j] \in CG!ToSet(CG!Stack(i))
  BY StackLines, LenProperties DEF CG!ToSet
<1>. QED  BY <1>1, FunctionsNamed DEF CG!InStack

(* The entry is a function of the program.                                 *)
LEMMA StartKnown ==
  ASSUME cg \in Servers, lines \in StackFiles, CG!HasStart
  PROVE  CG!Start \in CG!Known
<1>1. CASE CG!ThreadStacks # {}
  <2>1. CG!Stacks \subseteq Nat
    BY ServersAssumption, LenProperties DEF CG!Stacks, CG!Separators
  <2>2. PICK i \in CG!ThreadStacks : i = CG!Min(CG!ThreadStacks)
    BY <1>1, <2>1, MinIn DEF CG!ThreadStacks
  <2>3. i \in CG!Stacks /\ CG!AfterThread(CG!Stack(i)) # {}
    BY <2>2 DEF CG!ThreadStacks
  <2>4. CG!AfterThread(CG!Stack(i)) \subseteq Nat
    BY <2>3, StackLines, LenProperties DEF CG!AfterThread
  <2>5. CG!Min(CG!AfterThread(CG!Stack(i))) \in CG!AfterThread(CG!Stack(i))
    BY <2>3, <2>4, MinIn
  <2>6. CG!ThreadEntry \in CG!Known
    BY <2>2, <2>5 DEF CG!ThreadEntry, CG!AfterThread
  <2>. QED  BY <1>1, <2>6 DEF CG!Start
<1>2. CASE CG!ThreadStacks = {}
  <2>. DEFINE ks == IF CG!Receivers # {} THEN CG!Receivers ELSE CG!Callers
  <2>1. ks # {} /\ ks \subseteq CG!OnStack
    BY <1>2 DEF CG!HasStart, CG!Receivers, CG!Callers
  <2>2. CG!OnStack \subseteq DOMAIN cg.functions
    BY DEF CG!OnStack
  <2>3. DOMAIN cg.functions \subseteq Nat
    <3>1. cg.functions \in Seq({cg.functions[i] : i \in DOMAIN cg.functions})
      BY ServersAssumption
    <3>. QED  BY <3>1, LenProperties
  <2>. HIDE DEF ks
  <2>4. CG!Min(ks) \in DOMAIN cg.functions
    BY <2>1, <2>2, <2>3, MinIn
  <2>5. cg.functions[CG!Min(ks)] \in CG!Functions
    BY <2>4 DEF CG!Functions, CG!ToSet
  <2>. QED  BY <1>2, <2>5, FunctionsNamed DEF CG!Start, ks
<1>. QED  BY <1>1, <1>2

(* What a number of calls from the entry reach.                            *)
LEMMA WithinIs ==
  /\ CG!Within = [k \in 0 .. 3 |-> CG!Within[k]] /\ CG!Within[0] = {entry}
  /\ \A k \in 1 .. 3 : CG!Within[k] = CG!Within[k - 1] \cup UNION {CG!Leads(n) : n \in CG!Within[k - 1]}
<1>. DEFINE Next1(S) == S \cup UNION {CG!Leads(n) : n \in S}
            w0 == {entry}
            w1 == Next1(w0)
            w2 == Next1(w1)
            w3 == Next1(w2)
            Eq(w) == w = [k \in 0 .. 3 |-> IF k = 0 THEN {entry} ELSE Next1(w[k - 1])]
            W == [k \in 0 .. 3 |-> IF k = 0 THEN w0 ELSE IF k = 1 THEN w1 ELSE IF k = 2 THEN w2 ELSE w3]
<1>1. CG!Within = CHOOSE w : Eq(w)
  BY DEF CG!Within, CG!MaxLevel
<1>2. Eq(W)
  <2>. HIDE DEF Next1
  <2>1. \A k \in 0 .. 3 : W[k] = IF k = 0 THEN {entry} ELSE Next1(W[k - 1])
    OBVIOUS
  <2>. QED  BY <2>1
<1>3. Eq(CG!Within)
  <2>. HIDE DEF Eq, W
  <2>. QED  BY <1>1, <1>2
<1>. HIDE DEF Next1
<1>4. /\ CG!Within = [k \in 0 .. 3 |-> CG!Within[k]] /\ CG!Within[0] = {entry}
      /\ \A k \in 1 .. 3 : CG!Within[k] = Next1(CG!Within[k - 1])
  BY <1>3
<1>. QED  BY <1>4 DEF Next1

(* It grows with the number of calls.                                      *)
LEMMA WithinGrows ==
  \A j, k \in 0 .. 3 : j <= k => CG!Within[j] \subseteq CG!Within[k]
<1>1. \A k \in 1 .. 3 : CG!Within[k - 1] \subseteq CG!Within[k]
  BY WithinIs
<1>2. /\ CG!Within[0] \subseteq CG!Within[1] /\ CG!Within[1] \subseteq CG!Within[2]
      /\ CG!Within[2] \subseteq CG!Within[3]
  BY <1>1
<1>. QED  BY <1>2

LEMMA LeadsKnown == \A n : \A m \in CG!Leads(n) : m \in CG!Known /\ ~CG!BlackListed(CG!FnOf(m))
BY DEF CG!Leads

(* A caller from a stack is a black-listed function that is on the stack.  *)
LEMMA StackedKnown ==
  ASSUME cg \in Servers, lines \in StackFiles, NEW n, NEW m \in CG!StackNext(n)
  PROVE  m \in CG!Known /\ CG!BlackListed(CG!FnOf(m)) /\ CG!InStack(CG!FnOf(m))
<1>1. /\ m \in CG!Known /\ CG!BlackListed(CG!FnOf(m))
      /\ \E i \in CG!Stacks : m \in CG!Below(CG!Stack(i), n)
  BY DEF CG!StackNext
<1>2. PICK i \in CG!Stacks : m \in CG!Below(CG!Stack(i), n)
  BY <1>1
<1>. DEFINE above == {j \in 1 .. Len(CG!Stack(i)) - 1 : CG!Stack(i)[j] = n}
<1>3. above # {} /\ m = CG!Stack(i)[CG!Min(above) + 1]
  BY <1>2 DEF CG!Below
<1>4. Len(CG!Stack(i)) \in Nat
  BY StackLines, LenProperties
<1>5. CG!Min(above) \in 1 .. Len(CG!Stack(i)) - 1
  <2>1. above \subseteq Nat
    BY <1>4
  <2>. HIDE DEF above
  <2>2. CG!Min(above) \in above
    BY <1>3, <2>1, MinIn
  <2>. QED  BY <2>2 DEF above
<1>6. CG!Min(above) + 1 \in 1 .. Len(CG!Stack(i))
  BY <1>4, <1>5
<1>. QED  BY <1>1, <1>3, <1>6, StackNames

-----------------------------------------------------------------------------
(* The inductive invariant.  What is found and not followed yet is in the  *)
(* one set of the queue: from everything else within reach the calls lead  *)
(* to what is found already.                                               *)
InQueue == IF queue = <<>> THEN {} ELSE queue[1]
Found(k) == CG!Within[k] \subseteq DOMAIN levels
AtDistance(n) ==
  \/ n = entry \/ CG!BlackListed(CG!FnOf(n))
  \/ levels[n] \in 1 .. 3 /\ n \in CG!Within[levels[n]] \ CG!Within[levels[n] - 1]
Justified(n) ==
  LET f == CG!FnOf(n) IN
  n \in CG!Within[3] \/ CG!InStack(f) \/ (f.listed /\ f.big /\ ~CG!BlackListed(f))

Walk ==
  /\ queue = <<>> \/ queue = <<InQueue>>
  /\ InQueue \subseteq CG!Within[level - 1]
  /\ \A n \in CG!Within[level - 1] \ InQueue : CG!Leads(n) \subseteq CG!Within[level - 1]
  /\ Found(level - 1)
  /\ \A n \in DOMAIN levels : AtDistance(n) /\ (n = entry \/ CG!BlackListed(CG!FnOf(n)) \/ levels[n] <= level - 1)

CallGraphInv ==
  /\ cg \in Servers /\ lines \in StackFiles /\ level \in 1 .. 4
  /\ cgstep \in {"start", "levels", "others", "files", "done", "aborted"}
  /\ cgstep = "start" => level = 1
  /\ cgstep \notin {"start", "aborted"} =>
       /\ entry \in CG!Known
       /\ \A n \in DOMAIN levels : n \in CG!Known /\ Justified(n)
  /\ cgstep = "levels" => Walk
  /\ cgstep \in {"others", "files", "done"} =>
       Found(3) /\ \A n \in CG!Within[3] : AtDistance(n)
  /\ cgstep = "done" => filelist = {CG!FnOf(n).file : n \in DOMAIN levels}

LEMMA CallGraphStart == CG!CallGraphInit => CallGraphInv
<1>1. CG!CallGraphInit => cg \in Servers /\ lines \in StackFiles /\ level = 1 /\ cgstep = "start"
  BY DEF CG!CallGraphInit
<1>. QED  BY <1>1 DEF CallGraphInv

LEMMA CallGraphImplies == CallGraphInv => CG!CallGraphSound
<1>. SUFFICES ASSUME CallGraphInv PROVE CG!CallGraphSound
  OBVIOUS
<1>1. CG!LevelsAreDistances
  <2>. SUFFICES ASSUME cgstep \in {"others", "files", "done"}
                PROVE  /\ CG!Within[3] \subseteq DOMAIN levels
                       /\ \A n \in CG!Within[3] \ {entry} : \A k \in 1 .. 3 :
                            ~CG!BlackListed(CG!FnOf(n)) =>
                              (levels[n] = k <=> n \in CG!Within[k] \ CG!Within[k - 1])
    BY DEF CG!LevelsAreDistances, CG!MaxLevel
  <2>1. Found(3) /\ \A n \in CG!Within[3] : AtDistance(n)
    BY DEF CallGraphInv
  <2>2. ASSUME NEW n \in CG!Within[3] \ {entry}, NEW k \in 1 .. 3, ~CG!BlackListed(CG!FnOf(n))
        PROVE  levels[n] = k <=> n \in CG!Within[k] \ CG!Within[k - 1]
    <3>1. levels[n] \in 1 .. 3 /\ n \in CG!Within[levels[n]] \ CG!Within[levels[n] - 1]
      BY <2>1, <2>2 DEF AtDistance
    <3>2. ASSUME n \in CG!Within[k] \ CG!Within[k - 1] PROVE levels[n] = k
      <4>1. CASE levels[n] < k
        <5>1. CG!Within[levels[n]] \subseteq CG!Within[k - 1]
          BY <3>1, <4>1, WithinGrows
        <5>. QED  BY <3>1, <3>2, <5>1
      <4>2. CASE k < levels[n]
        <5>1. CG!Within[k] \subseteq CG!Within[levels[n] - 1]
          BY <3>1, <4>2, WithinGrows
        <5>. QED  BY <3>1, <3>2, <5>1
      <4>. QED  BY <3>1, <4>1, <4>2
    <3>. QED  BY <3>1, <3>2
  <2>. QED  BY <2>1, <2>2 DEF Found
<1>2. CG!FilesAreJustified
  <2>. SUFFICES ASSUME cgstep = "done"
                PROVE  /\ {CG!FnOf(n).file : n \in CG!Within[3]} \subseteq filelist
                       /\ \A name \in filelist : \E f \in CG!Functions :
                            f.file = name /\ (f.name \in CG!Within[3] \/ CG!InStack(f)
                                               \/ (f.listed /\ f.big /\ ~CG!BlackListed(f)))
    BY DEF CG!FilesAreJustified, CG!MaxLevel
  <2>1. /\ filelist = {CG!FnOf(n).file : n \in DOMAIN levels} /\ Found(3) /\ cg \in Servers
        /\ \A n \in DOMAIN levels : n \in CG!Known /\ Justified(n)
    BY DEF CallGraphInv
  <2>2. ASSUME NEW name \in filelist
        PROVE  \E f \in CG!Functions : f.file = name /\ (f.name \in CG!Within[3] \/ CG!InStack(f)
                                               \/ (f.listed /\ f.big /\ ~CG!BlackListed(f)))
    <3>1. PICK n \in DOMAIN levels : name = CG!FnOf(n).file
      BY <2>1
    <3>2. n \in CG!Known /\ Justified(n)
      BY <2>1, <3>1
    <3>3. CG!FnOf(n) \in CG!Functions /\ CG!FnOf(n).name = n
      BY <2>1, <3>2, FunctionsNamed
    <3>. QED  BY <3>1, <3>2, <3>3 DEF Justified
  <2>. QED  BY <2>1, <2>2 DEF Found
<1>. QED  BY <1>1, <1>2 DEF CG!CallGraphSound

-----------------------------------------------------------------------------
(* What is found does not depend on what has been found: the graph and the *)
(* stacks stay as they are.                                                *)
LEMMA SameGraph ==
  ASSUME UNCHANGED <<cg, lines>>
  PROVE  /\ CG!Functions' = CG!Functions /\ CG!Known' = CG!Known
         /\ \A n : CG!FnOf(n)' = CG!FnOf(n) /\ CG!Leads(n)' = CG!Leads(n)
         /\ \A f : CG!InStack(f)' = CG!InStack(f) /\ CG!BlackListed(f)' = CG!BlackListed(f)
<1>1. CG!Functions' = CG!Functions
  BY DEF CG!Functions
<1>2. CG!Known' = CG!Known
  BY <1>1 DEF CG!Known
<1>3. \A n : CG!FnOf(n)' = CG!FnOf(n)
  BY <1>1 DEF CG!FnOf
<1>4. \A f : CG!BlackListed(f)' = CG!BlackListed(f)
  BY DEF CG!BlackListed
<1>5. \A c : CG!Reached(c)' = CG!Reached(c)
  BY DEF CG!Reached
<1>6. \A f : CG!Expanded(f)' = CG!Expanded(f)
  BY DEF CG!Expanded, CG!BlackListed
<1>7. \A n : CG!Leads(n)' = CG!Leads(n)
  BY <1>2, <1>3, <1>4, <1>5, <1>6 DEF CG!Leads
<1>8. CG!Stacks' = CG!Stacks /\ CG!Separators' = CG!Separators
  BY DEF CG!Stacks, CG!Separators
<1>9. \A i : CG!LastOf(i)' = CG!LastOf(i)
  BY <1>8 DEF CG!LastOf
<1>10. \A i : CG!Stack(i)' = CG!Stack(i)
  BY <1>9 DEF CG!Stack
<1>11. \A f : CG!InStack(f)' = CG!InStack(f)
  BY <1>8, <1>10 DEF CG!InStack
<1>. QED  BY <1>1, <1>2, <1>3, <1>4, <1>7, <1>11

LEMMA SameWithin == ASSUME UNCHANGED <<cg, lines, entry>> PROVE CG!Within' = CG!Within
<1>. DEFINE w == CG!Within
<1>1. /\ w = [k \in 0 .. 3 |-> w[k]] /\ w[0] = {entry}
      /\ \A k \in 1 .. 3 : w[k] = w[k - 1] \cup UNION {CG!Leads(n) : n \in w[k - 1]}
  BY WithinIs
<1>2. /\ w' = [k \in 0 .. 3 |-> w'[k]] /\ w'[0] = {entry'}
      /\ \A k \in 1 .. 3 : w'[k] = w'[k - 1] \cup UNION {CG!Leads(n)' : n \in w'[k - 1]}
  <2>1. (/\ CG!Within = [k \in 0 .. 3 |-> CG!Within[k]] /\ CG!Within[0] = {entry}
         /\ \A k \in 1 .. 3 : CG!Within[k] = CG!Within[k - 1] \cup UNION {CG!Leads(n) : n \in CG!Within[k - 1]})'
    BY WithinIs, PTL
  <2>. QED  BY <2>1
<1>3. \A S : UNION {CG!Leads(n)' : n \in S} = UNION {CG!Leads(n) : n \in S}
  BY SameGraph
<1>. HIDE DEF w
<1>4. w'[0] = w[0]
  BY <1>1, <1>2
<1>5. ASSUME NEW k \in 1 .. 3, w'[k - 1] = w[k - 1] PROVE w'[k] = w[k]
  <2>1. w'[k] = w'[k - 1] \cup UNION {CG!Leads(n)' : n \in w'[k - 1]}
    BY <1>2
  <2>2. w[k] = w[k - 1] \cup UNION {CG!Leads(n) : n \in w[k - 1]}
    BY <1>1
  <2>3. UNION {CG!Leads(n)' : n \in w'[k - 1]} = UNION {CG!Leads(n) : n \in w[k - 1]}
    BY <1>3, <1>5
  <2>. QED  BY <1>5, <2>1, <2>2, <2>3
<1>6. w'[1] = w[1]
  BY <1>4, <1>5
<1>7. w'[2] = w[2]
  BY <1>5, <1>6
<1>8. w'[3] = w[3]
  BY <1>5, <1>7
<1>9. \A k \in 0 .. 3 : w'[k] = w[k]
  BY <1>4, <1>6, <1>7, <1>8
<1>10. w' = w
  BY <1>1, <1>2, <1>9
<1>. QED  BY <1>10 DEF w

LEMMA SameJustified ==
  ASSUME UNCHANGED <<cg, lines, entry>>
  PROVE  \A n : Justified(n)' <=> Justified(n)
BY SameGraph, SameWithin DEF Justified

LEMMA StartStep == ASSUME CallGraphInv, CG!findStartFunction PROVE CallGraphInv'
<1>1. /\ cgstep = "start" /\ CG!HasStart /\ entry' = CG!Start
      /\ levels' = [n \in {CG!Start} |-> 1] /\ queue' = <<{CG!Start}>> /\ cgstep' = "levels"
      /\ cg' = cg /\ lines' = lines /\ level' = level /\ level = 1
  BY DEF CG!findStartFunction, CallGraphInv
<1>2. cg \in Servers /\ lines \in StackFiles
  BY DEF CallGraphInv
<1>3. entry' \in CG!Known'
  <2>1. entry' \in CG!Known
    BY <1>1, <1>2, StartKnown
  <2>2. CG!Known' = CG!Known
    BY <1>1 DEF CG!Known, CG!Functions
  <2>. QED  BY <2>1, <2>2
<1>4. /\ CG!Within'[0] = {entry'}
      /\ \A j, k \in 0 .. 3 : j <= k => CG!Within'[j] \subseteq CG!Within'[k]
  <2>1. (CG!Within[0] = {entry})'
    BY WithinIs, PTL
  <2>2. (\A j, k \in 0 .. 3 : j <= k => CG!Within[j] \subseteq CG!Within[k])'
    BY WithinGrows, PTL
  <2>. QED  BY <2>1, <2>2
<1>5. DOMAIN levels' = {entry'} /\ InQueue' = {entry'} /\ level' - 1 = 0
  BY <1>1 DEF InQueue
<1>6. Walk'
  BY <1>1, <1>4, <1>5 DEF Walk, Found, AtDistance
<1>7. \A n \in DOMAIN levels' : n \in CG!Known' /\ n \in CG!Within'[3]
  BY <1>3, <1>4, <1>5
<1>. QED  BY <1>1, <1>2, <1>3, <1>6, <1>7 DEF CallGraphInv, Justified

LEMMA OneLeft == \A x : Tail(<<x>>) = <<>> /\ <<>> \o <<x>> = <<x>> /\ <<>> \o <<>> = <<>>
<1>. SUFFICES ASSUME NEW x PROVE Tail(<<x>>) = <<>> /\ <<>> \o <<x>> = <<x>> /\ <<>> \o <<>> = <<>>
  OBVIOUS
<1>1. <<x>> \in Seq({x}) /\ <<>> \in Seq({x})
  OBVIOUS
<1>2. Tail(<<x>>) = <<>>
  BY <1>1
<1>3. <<>> \o <<x>> = <<x>>
  BY <1>1, ConcatEmptySeq
<1>4. <<>> \o <<>> = <<>>
  BY <1>1, ConcatEmptySeq
<1>. QED  BY <1>2, <1>3, <1>4

(* One round: what the last one found is followed, what is new gets the    *)
(* level of the round.                                                     *)
LEMMA LevelStep == ASSUME CallGraphInv, CG!iterateOneLevel PROVE CallGraphInv'
<1>. DEFINE Q == queue[1]
            next == UNION {CG!Leads(n) : n \in Q}
            stacked == UNION {CG!StackNext(n) : n \in Q}
<1>1. /\ cgstep = "levels" /\ cgstep' = "levels" /\ level \in 1 .. 3 /\ level' = level + 1
      /\ levels' = CG!WithLevel(next \cup stacked, level)
      /\ queue' = Tail(queue) \o (IF next = {} THEN <<>> ELSE <<next>>)
      /\ queue # <<>> /\ cg' = cg /\ lines' = lines /\ entry' = entry
  BY DEF CG!iterateOneLevel, CG!MaxLevel, CallGraphInv
<1>2. /\ cg \in Servers /\ lines \in StackFiles /\ entry \in CG!Known /\ Walk
      /\ \A n \in DOMAIN levels : n \in CG!Known /\ Justified(n)
  BY <1>1 DEF CallGraphInv
<1>3. queue = <<Q>> /\ InQueue = Q
  BY <1>1, <1>2 DEF Walk, InQueue
<1>4. Tail(queue) = <<>>
  BY <1>3, OneLeft
<1>. HIDE DEF Q, next, stacked
<1>5. (next = {} => queue' = <<>>) /\ (next # {} => queue' = <<next>>)
  BY <1>1, <1>4, OneLeft
<1>6. InQueue' = next /\ (queue' = <<>> \/ queue' = <<InQueue'>>)
  BY <1>5 DEF InQueue
<1>. DEFINE w == CG!Within
<1>7. /\ w' = w /\ CG!Known' = CG!Known /\ (\A n : CG!FnOf(n)' = CG!FnOf(n)) /\ (\A n : CG!Leads(n)' = CG!Leads(n))
      /\ (\A f : CG!BlackListed(f)' = CG!BlackListed(f)) /\ \A n : Justified(n)' <=> Justified(n)
  BY <1>1, SameGraph, SameWithin, SameJustified
<1>8. w[level] = w[level - 1] \cup UNION {CG!Leads(n) : n \in w[level - 1]} /\ w[level] \subseteq w[3]
      /\ w[level - 1] \subseteq w[level]
  BY <1>1, WithinIs, WithinGrows
<1>9. /\ Q \subseteq w[level - 1] /\ w[level - 1] \subseteq DOMAIN levels
      /\ \A n \in w[level - 1] \ Q : CG!Leads(n) \subseteq w[level - 1]
  BY <1>2, <1>3 DEF Walk, Found
<1>. HIDE DEF w
<1>10. next \subseteq w[level] /\ w[level] = w[level - 1] \cup next
  BY <1>8, <1>9 DEF next
<1>11. \A n \in w[level] \ next : CG!Leads(n) \subseteq w[level]
  <2>. SUFFICES ASSUME NEW n \in w[level] \ next PROVE CG!Leads(n) \subseteq w[level]
    OBVIOUS
  <2>1. n \in w[level - 1]
    BY <1>10
  <2>. QED  BY <1>8, <2>1
<1>12. /\ DOMAIN levels' = DOMAIN levels \cup next \cup stacked
       /\ \A n \in DOMAIN levels' : levels'[n] = IF n \in DOMAIN levels THEN levels[n] ELSE level
  BY <1>1 DEF CG!WithLevel
<1>13. \A n \in next : n \in CG!Known /\ ~CG!BlackListed(CG!FnOf(n))
  BY LeadsKnown DEF next
<1>14. \A n \in stacked : n \in CG!Known /\ CG!BlackListed(CG!FnOf(n)) /\ CG!InStack(CG!FnOf(n))
  BY <1>2, StackedKnown DEF stacked
<1>15. \A n \in DOMAIN levels' : n \in CG!Known /\ Justified(n)
  BY <1>2, <1>8, <1>10, <1>12, <1>13, <1>14 DEF Justified, w
<1>16. ASSUME NEW n \in DOMAIN levels', n # entry, ~CG!BlackListed(CG!FnOf(n))
       PROVE  levels'[n] \in 1 .. 3 /\ levels'[n] <= level /\ n \in w[levels'[n]] \ w[levels'[n] - 1]
  <2>1. CASE n \in DOMAIN levels
    <3>1. AtDistance(n) /\ levels[n] <= level - 1
      BY <1>2, <1>16, <2>1 DEF Walk
    <3>2. levels'[n] = levels[n]
      BY <1>12, <2>1
    <3>. QED  BY <1>1, <1>16, <3>1, <3>2 DEF AtDistance, w
  <2>2. CASE n \notin DOMAIN levels
    <3>1. n \in next /\ levels'[n] = level
      BY <1>12, <1>14, <1>16, <2>2
    <3>. QED  BY <1>1, <1>9, <1>10, <2>2, <3>1
  <2>. QED  BY <2>1, <2>2
<1>17. level' - 1 = level
  BY <1>1
<1>18. \A n \in DOMAIN levels' : AtDistance(n)'
  BY <1>1, <1>7, <1>16 DEF AtDistance, w
<1>19. \A n \in DOMAIN levels' : n = entry' \/ CG!BlackListed(CG!FnOf(n))' \/ levels'[n] <= level' - 1
  BY <1>1, <1>7, <1>16, <1>17
<1>20. Walk'
  BY <1>6, <1>7, <1>9, <1>10, <1>11, <1>12, <1>17, <1>18, <1>19 DEF Walk, Found, w
<1>21. level' \in 1 .. 4
  BY <1>1
<1>. QED  BY <1>1, <1>2, <1>7, <1>15, <1>20, <1>21 DEF CallGraphInv

(* When nothing waits, or the last level is done, all in reach is found.   *)
LEMMA PrintStep == ASSUME CallGraphInv, CG!PrintsLevels PROVE CallGraphInv'
<1>. DEFINE w == CG!Within
<1>1. /\ cgstep = "levels" /\ cgstep' \in {"aborted", "others"} /\ (level > 3 \/ queue = <<>>)
      /\ UNCHANGED <<cg, lines, entry, levels, queue, level>>
  BY DEF CG!PrintsLevels, CG!MaxLevel
<1>2. /\ cg \in Servers /\ lines \in StackFiles /\ entry \in CG!Known /\ Walk /\ level \in 1 .. 4
      /\ \A n \in DOMAIN levels : n \in CG!Known /\ Justified(n)
  BY <1>1 DEF CallGraphInv
<1>3. /\ w' = w /\ CG!Known' = CG!Known /\ \A n : (Justified(n)' <=> Justified(n)) /\ CG!FnOf(n)' = CG!FnOf(n)
      /\ \A f : CG!BlackListed(f)' = CG!BlackListed(f)
  BY <1>1, SameGraph, SameWithin, SameJustified
<1>4. w[3] \subseteq w[level - 1]
  <2>1. CASE level > 3
    BY <1>2, <2>1
  <2>2. CASE queue = <<>>
    <3>1. \A n \in w[level - 1] : CG!Leads(n) \subseteq w[level - 1]
      BY <1>2, <2>2 DEF Walk, InQueue
    <3>2. \A k \in 1 .. 3 : w[k] = w[k - 1] \cup UNION {CG!Leads(n) : n \in w[k - 1]}
      BY WithinIs
    <3>3. w[0] \subseteq w[level - 1]
      BY <1>2, WithinGrows
    <3>. HIDE DEF w
    <3>4. \A k \in 1 .. 3 : w[k - 1] \subseteq w[level - 1] => w[k] \subseteq w[level - 1]
      BY <3>1, <3>2
    <3>5. w[1] \subseteq w[level - 1]
      BY <3>3, <3>4
    <3>6. w[2] \subseteq w[level - 1]
      BY <3>4, <3>5
    <3>. QED  BY <3>4, <3>6
  <2>. QED  BY <1>1, <2>1, <2>2
<1>5. Found(3) /\ \A n \in w[3] : AtDistance(n)
  BY <1>2, <1>4 DEF Walk, Found
<1>6. Found(3)' /\ \A n \in w'[3] : AtDistance(n)'
  BY <1>1, <1>3, <1>5 DEF Found, AtDistance
<1>. QED  BY <1>1, <1>2, <1>3, <1>6 DEF CallGraphInv

(* The white lists add functions, and take none away.                      *)
LEMMA OthersStep == ASSUME CallGraphInv, CG!extractOtherCallGraph PROVE CallGraphInv'
<1>. DEFINE w == CG!Within
            others == {f.name : f \in {f \in CG!Functions : ~CG!BlackListed(f) /\ f.big /\ f.listed}}
<1>1. /\ cgstep = "others" /\ cgstep' = "files" /\ levels' = CG!WithLevel(others, 88)
      /\ UNCHANGED <<cg, lines, entry, level>>
  BY DEF CG!extractOtherCallGraph
<1>2. /\ cg \in Servers /\ lines \in StackFiles /\ entry \in CG!Known /\ level \in 1 .. 4 /\ Found(3)
      /\ \A n \in DOMAIN levels : n \in CG!Known /\ Justified(n)
      /\ \A n \in CG!Within[3] : AtDistance(n)
  BY <1>1 DEF CallGraphInv
<1>3. /\ w' = w /\ CG!Known' = CG!Known /\ \A n : (Justified(n)' <=> Justified(n)) /\ CG!FnOf(n)' = CG!FnOf(n)
      /\ \A f : CG!BlackListed(f)' = CG!BlackListed(f)
  BY <1>1, SameGraph, SameWithin, SameJustified
<1>4. \A n \in others : n \in CG!Known /\ Justified(n)
  BY <1>2, FunctionsNamed DEF Justified
<1>. HIDE DEF others
<1>5. DOMAIN levels' = DOMAIN levels \cup others /\ \A n \in DOMAIN levels : levels'[n] = levels[n]
  BY <1>1 DEF CG!WithLevel
<1>6. Found(3)' /\ \A n \in w'[3] : AtDistance(n)'
  BY <1>1, <1>2, <1>3, <1>5 DEF Found, AtDistance
<1>7. \A n \in DOMAIN levels' : n \in CG!Known' /\ Justified(n)'
  BY <1>2, <1>3, <1>4, <1>5
<1>. QED  BY <1>1, <1>2, <1>3, <1>6, <1>7 DEF CallGraphInv

LEMMA CallGraphStep == CallGraphInv /\ (CG!CallGraphNext \/ UNCHANGED graph) => CallGraphInv'
<1>. SUFFICES ASSUME CallGraphInv, CG!CallGraphNext \/ UNCHANGED graph PROVE CallGraphInv'
  OBVIOUS
<1>1. CASE CG!findStartFunction
  BY <1>1, StartStep
<1>2. CASE CG!NoStart
  BY <1>2 DEF CG!NoStart, CallGraphInv
<1>3. CASE CG!iterateOneLevel
  BY <1>3, LevelStep
<1>4. CASE CG!PrintsLevels
  BY <1>4, PrintStep
<1>5. CASE CG!extractOtherCallGraph
  BY <1>5, OthersStep
<1>. DEFINE w == CG!Within
<1>6. ASSUME UNCHANGED <<cg, lines, entry, levels, level, queue>>
      PROVE  /\ w' = w /\ CG!Known' = CG!Known /\ (\A n : Justified(n)' <=> Justified(n))
             /\ (\A n : CG!FnOf(n)' = CG!FnOf(n))
             /\ (\A f : CG!BlackListed(f)' = CG!BlackListed(f))
             /\ (\A n : AtDistance(n)' <=> AtDistance(n)) /\ (Found(3)' <=> Found(3)) /\ (Walk' <=> Walk)
  <2>1. /\ w' = w /\ CG!Known' = CG!Known /\ (\A n : Justified(n)' <=> Justified(n))
        /\ (\A n : CG!FnOf(n)' = CG!FnOf(n) /\ CG!Leads(n)' = CG!Leads(n))
        /\ (\A f : CG!BlackListed(f)' = CG!BlackListed(f))
    BY <1>6, SameGraph, SameWithin, SameJustified
  <2>2. \A n : AtDistance(n)' <=> AtDistance(n)
    BY <1>6, <2>1 DEF AtDistance
  <2>3. \A k : Found(k)' <=> Found(k)
    BY <1>6, <2>1 DEF Found
  <2>4. InQueue' = InQueue
    BY <1>6 DEF InQueue
  <2>5. Walk' <=> Walk
    BY <1>6, <2>1, <2>2, <2>3, <2>4 DEF Walk
  <2>. QED  BY <2>1, <2>2, <2>3, <2>5
<1>7. CASE CG!WriteFileList
  <2>1. /\ cgstep = "files" /\ cgstep' = "done" /\ filelist' = {CG!FnOf(n).file : n \in DOMAIN levels}
        /\ UNCHANGED <<cg, lines, entry, levels, level, queue>>
    BY <1>7 DEF CG!WriteFileList
  <2>2. filelist' = {CG!FnOf(n)'.file : n \in DOMAIN levels'}
    BY <1>6, <2>1
  <2>. QED  BY <1>6, <2>1, <2>2 DEF CallGraphInv
<1>8. CASE UNCHANGED graph
  <2>1. UNCHANGED <<cg, lines, entry, levels, level, queue>> /\ filelist' = filelist /\ cgstep' = cgstep
    BY <1>8 DEF graph
  <2>2. {CG!FnOf(n)'.file : n \in DOMAIN levels'} = {CG!FnOf(n).file : n \in DOMAIN levels}
    BY <1>6, <2>1
  <2>. QED  BY <1>6, <2>1, <2>2 DEF CallGraphInv
<1>. QED  BY <1>1, <1>2, <1>3, <1>4, <1>5, <1>7, <1>8 DEF CG!CallGraphNext

-----------------------------------------------------------------------------
(* The tools together.                                                     *)
ToolsInv ==
  /\ part = "tmin" => TminInv
  /\ part = "analyze" => AnalyzeInv
  /\ part = "cmin" => CminInv
  /\ part = "start" => StartInv
  /\ part = "callgraph" => CallGraphInv
  /\ part = "compile" => CompileInv

LEMMA ToolsStart == PartsInit => ToolsInv
<1>. SUFFICES ASSUME PartsInit PROVE ToolsInv
  OBVIOUS
<1>1. (part = "tmin" => TminInv) /\ (part = "analyze" => AnalyzeInv) /\ (part = "cmin" => CminInv)
  BY TminStart, AnalyzeStart, CminStart DEF PartsInit
<1>2. (part = "start" => StartInv) /\ (part = "compile" => CompileInv)
  BY CommandLineStart, CompileStart DEF PartsInit
<1>3. part = "callgraph" => CallGraphInv
  BY CallGraphStart DEF PartsInit
<1>. QED  BY <1>1, <1>2, <1>3 DEF ToolsInv

(* One part takes a step, the variables of the others stay.                *)
LEMMA OneTool ==
  ASSUME [PartsNext]_allVars
  PROVE  /\ part' = part
         /\ UNCHANGED tmin \/ (part = "tmin" /\ Tm!TminNext)
         /\ UNCHANGED analyze \/ (part = "analyze" /\ An!AnalyzeNext)
         /\ UNCHANGED cmin \/ (part = "cmin" /\ Cm!CminNext)
         /\ UNCHANGED start \/ (part = "start" /\ St!StartNext)
         /\ UNCHANGED compile \/ (part = "compile" /\ Co!CompileNext)
         /\ UNCHANGED graph \/ (part = "callgraph" /\ CG!CallGraphNext)
<1>1. CASE UNCHANGED allVars
  BY <1>1 DEF allVars
<1>2. CASE PartsNext
  BY <1>2 DEF PartsNext, RunDictionary, RunTriage, RunSession, RunTmin, RunAnalyze, RunCmin, RunCommandLine,
              RunCallGraph, RunStateVars, RunCompile
<1>. QED  BY <1>1, <1>2

LEMMA ToolsStep == ToolsInv /\ [PartsNext]_allVars => ToolsInv'
<1>. SUFFICES ASSUME ToolsInv, [PartsNext]_allVars PROVE ToolsInv'
  OBVIOUS
<1>1. /\ part' = part
      /\ UNCHANGED tmin \/ (part = "tmin" /\ Tm!TminNext)
      /\ UNCHANGED analyze \/ (part = "analyze" /\ An!AnalyzeNext)
      /\ UNCHANGED cmin \/ (part = "cmin" /\ Cm!CminNext)
      /\ UNCHANGED start \/ (part = "start" /\ St!StartNext)
      /\ UNCHANGED compile \/ (part = "compile" /\ Co!CompileNext)
      /\ UNCHANGED graph \/ (part = "callgraph" /\ CG!CallGraphNext)
  BY OneTool
<1>2. part = "tmin" => TminInv'
  BY <1>1, TminStep DEF ToolsInv, tmin, Tm!tminVars
<1>3. part = "analyze" => AnalyzeInv'
  BY <1>1, AnalyzeStep DEF ToolsInv, analyze, An!analyzeVars
<1>4. part = "cmin" => CminInv'
  BY <1>1, CminStep DEF ToolsInv, cmin, Cm!cminVars
<1>5. (part = "start" => StartInv') /\ (part = "compile" => CompileInv')
  BY <1>1, CommandLineStep, CompileStep DEF ToolsInv
<1>6. part = "callgraph" => CallGraphInv'
  BY <1>1, CallGraphStep DEF ToolsInv
<1>. QED  BY <1>1, <1>2, <1>3, <1>4, <1>5, <1>6 DEF ToolsInv

LEMMA ToolsHold == PartsSpec => []ToolsInv
BY ToolsStart, ToolsStep, PTL DEF PartsSpec

(* For any program, test case, corpus, command line, graph of calls and    *)
(* assembly file, the tools keep their word: what afl-tmin writes still    *)
(* reproduces, is no longer, each of its passes takes something away, and  *)
(* no byte it has tried in vain can go if the program always behaves the   *)
(* same (minimize); afl-analyze judges each byte by runs of the file with  *)
(* that byte alone changed, and reports every byte once (analyze,          *)
(* dump_hex); afl-cmin's corpus has every tuple that a usable file of the  *)
(* input shows, and the smallest file for it; the options of a command     *)
(* line mean the same in any order (main); a function's level in the call  *)
(* graph is the length of the shortest chain of calls from the entry, and  *)
(* the files handed on are those of the functions in reach, on a stack or  *)
(* of the white lists (iterateOneLevel, extractOtherCallGraph); the        *)
(* command of the wrappers has one sanitizer of theirs at most, and afl-as *)
(* counts each way control can go once (edit_params, add_instrumentation). *)
THEOREM ToolsSoundHolds == PartsSpec => []ToolsSound
<1>1. ToolsInv => ToolsSound
  BY TminImplies, AnalyzeImplies, CminImplies, CommandLineImplies, CallGraphImplies, CompileImplies
  DEF ToolsInv, ToolsSound
<1>. QED  BY <1>1, ToolsHold, PTL
=============================================================================
