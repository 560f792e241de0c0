------------------------------- MODULE Stages -------------------------------
(***************************************************************************)
(* One call of fuzz_one after calibration and trimming: the deterministic  *)
(* stages on a buffer they mutate in place, the effector map, the tokens   *)
(* that the first stage finds, havoc and splicing.  Bytes have W bits, the *)
(* rest of the numbers of config.h are constants, too.                     *)
(***************************************************************************)
EXTENDS Extras

CONSTANTS
  W,               \* bits per byte
  ArithMax,        \* ARITH_MAX
  Interesting8,    \* interesting_8, a sequence of bytes
  Words, DWords,   \* interesting_16 and interesting_32, in their order
  EffScale,        \* 1 << EFF_MAP_SCALE2, bytes per element of the effector map
  EffMinLen,       \* EFF_MIN_LEN
  EffMaxPerc,      \* EFF_MAX_PERC
  MaxDetExtras,    \* MAX_DET_EXTRAS
  MaxFile,         \* MAX_FILE
  Blocks,          \* HAVOC_BLK_SMALL, _MEDIUM, _LARGE and _XL
  HavocInit, HavocCycles, SpliceHavoc, HavocMin, \* how often havoc runs
  HavocMaxMult,    \* HAVOC_MAX_MULT
  HavocDiv,        \* havoc_div, which show_init_stats sets for slow targets
  Stacked,         \* the numbers of stacked changes
  SpliceCycles,    \* SPLICE_CYCLES
  TmoutLimit,      \* TMOUT_LIMIT
  AvgUs, AvgBits,  \* average time and bitmap size of the queue
  Modes,           \* settings of <<dumb_mode, no_arith, use_splicing>>
  Entries,         \* entries that may be fuzzed: their bytes in data, and their
                   \* rating [exec_us, bitmap_size, handicap, depth, weight]
  Others,          \* the other entries of the queue, in its order
  Dictionaries,    \* what -x may give, [lines, level]
  Cksums,          \* checksums of traces; Same is that of the entry
  Same,
  Mangled          \* the content of out_buf under havoc

ASSUME StagesAssumption ==
  /\ W \in Nat /\ W >= 4                     \* flip4 takes four bits of a byte
  /\ ArithMax \in Nat \ {0} /\ EffScale \in Nat \ {0}
  /\ HavocMaxMult \in Nat \ {0} /\ HavocDiv \in Nat \ {0}
  /\ {MaxFile, HavocInit, HavocCycles, SpliceHavoc, HavocMin} \subseteq Nat /\ HavocMin > 0
  /\ {AvgUs, AvgBits} \subseteq Nat /\ Stacked \subseteq Nat
  /\ Modes \subseteq BOOLEAN \X BOOLEAN \X BOOLEAN
  /\ Same \in Cksums
  /\ LET Bytes == 0 .. 2^W - 1 IN
       /\ Interesting8 \in Seq(Bytes)
       /\ Words \in Seq([1 .. 2 -> Bytes]) /\ DWords \in Seq([1 .. 4 -> Bytes])
       /\ \A e \in Entries :
            /\ e.data \in Seq(Bytes) /\ e.data # <<>>
            /\ {e.rating.exec_us, e.rating.bitmap_size, e.rating.handicap, e.rating.depth,
                e.rating.weight} \subseteq Nat
       /\ Others \in Seq(Seq(Bytes))
       /\ \A d \in Dictionaries : Tokens(d.lines, d.level) \in Seq(Seq(Bytes))
  /\ Blocks \in Seq(Nat \ {0}) /\ Blocks # <<>>
  /\ \A c \in 1 .. Len(Blocks) - 1 : Blocks[c] <= Blocks[c + 1]

VARIABLES
  pc,              \* where fuzz_one is
  entry,           \* the bytes of queue_cur (orig_in)
  in_buf, out_buf, \* the entry or a splice of it, and the buffer the stages change
  dumb_mode, no_arith, use_splicing,
  stage,           \* index of the deterministic stage in DetStages
  at, item,        \* the position and the change that are next
  orig, last_len,  \* what the position held; length of the last token written
  stage_cur, stage_max,
  eff_map,         \* the effector map
  felt,            \* bytes whose flip changed the trace
  prev_cksum, a_collect,
  subseq_tmouts,
  temp_len, cap,   \* under havoc: the length and the size of out_buf
  stacked,         \* changes still to be stacked
  perf_score, orig_perf, doing_det,
  splice_cycle,
  rating,          \* what calculate_score goes by
  ret

bufVars == <<in_buf, out_buf, orig, last_len>>
stageVars == <<stage, at, item, stage_cur, stage_max>>
effVars == <<eff_map, felt>>
autoVars == <<prev_cksum, a_collect>>
havocVars == <<temp_len, cap, stacked, perf_score, orig_perf, doing_det, splice_cycle>>
fixed == <<entry, rating, dumb_mode, no_arith, use_splicing>>
vars == <<pc, bufVars, stageVars, effVars, autoVars, havocVars, fixed, subseq_tmouts,
          ret, dictVars>>

Byte == 0 .. 2^W - 1
Size == Len(in_buf)

-----------------------------------------------------------------------------
(* Bytes and words.  A word is the bytes of the buffer at a position, in    *)
(* memory order; numbers are read with the first byte lowest.               *)

Value(b) == LET v[i \in 0 .. Len(b)] == IF i = 0 THEN 0 ELSE v[i - 1] + b[i] * 2^(W * (i - 1))
            IN  v[Len(b)]
Word(v, n) == [i \in 1 .. n |-> (v \div 2^(W * (i - 1))) % 2^W]
Add(b, k) == Word((Value(b) + k) % 2^(W * Len(b)), Len(b))
AddSwapped(b, k) == Swapped(Add(Swapped(b), k))

Bit(b, i) == (b \div 2^i) % 2
XorByte(a, b) ==
  LET x[i \in 0 .. W] == IF i = 0 THEN 0
                         ELSE x[i - 1] + ((Bit(a, i - 1) + Bit(b, i - 1)) % 2) * 2^(i - 1)
  IN  x[W]
Xor(s, t) == [i \in DOMAIN s |-> XorByte(s[i], t[i])]

At(buf, i, n) == SubSeq(buf, i + 1, i + n)
Put(buf, i, b) == [k \in DOMAIN buf |-> IF k \in i + 1 .. i + Len(b) THEN b[k - i] ELSE buf[k]]

\* FLIP_BIT of n bits from bit i on: bit 0 of a byte is its highest.
FlipBits(buf, i, n) ==
  [k \in DOMAIN buf |->
     LET mask[m \in 0 .. n] ==
           IF m = 0 THEN 0
           ELSE mask[m - 1] + (IF (i + m - 1) \div W = k - 1
                               THEN 2^(W - 1 - ((i + m - 1) % W)) ELSE 0)
     IN  XorByte(buf[k], mask[n])]

-----------------------------------------------------------------------------
(* What a later stage may leave out.                                        *)

\* could_be_bitflip on the difference of two words.
CouldBeBitflip(s, t) ==
  LET x == Value(Xor(s, t)) IN
  \/ x = 0
  \/ \E sh \in 0 .. W * Len(s) - 1 :
       \/ x \in {1 * 2^sh, 3 * 2^sh, 15 * 2^sh}
       \/ sh % W = 0 /\ x \in {(2^W - 1) * 2^sh, (2^(2 * W) - 1) * 2^sh, (2^(4 * W) - 1) * 2^sh}

Near(b, c) == \/ (Value(b) - Value(c)) % 2^(W * Len(b)) <= ArithMax
              \/ (Value(c) - Value(b)) % 2^(W * Len(b)) <= ArithMax

\* The only part of n bytes in which the words differ, if there is one.
DiffAt(s, t, n) ==
  {i \in 0 .. Len(s) \div n - 1 : At(s, i * n, n) # At(t, i * n, n)}
NearEitherEnd(b, c) == Near(b, c) \/ Near(Swapped(b), Swapped(c))
OnlyDiffNear(s, t, n) ==
  \E i \in DiffAt(s, t, n) : DiffAt(s, t, n) = {i} /\ NearEitherEnd(At(s, i * n, n), At(t, i * n, n))

CouldBeArith(s, t) ==
  \/ s = t
  \/ \E n \in {1, 2} : Len(s) >= n /\ OnlyDiffNear(s, t, n)
  \/ Len(s) = 4 /\ NearEitherEnd(s, t)

CouldBeInterest(s, t, check_le) ==
  \/ s = t
  \/ \E i \in 0 .. Len(s) - 1, k \in DOMAIN Interesting8 : t = Put(s, i, <<Interesting8[k]>>)
  \/ /\ Len(s) > 2 \/ check_le
     /\ \E i \in 0 .. Len(s) - 2, k \in DOMAIN Words :
          \/ t = Put(s, i, Words[k])
          \/ Len(s) > 2 /\ t = Put(s, i, Swapped(Words[k]))
  \/ Len(s) = 4 /\ check_le /\ \E k \in DOMAIN DWords : t = DWords[k]

-----------------------------------------------------------------------------
(* The deterministic stages.                                                *)

DetStages == <<"flip1", "flip2", "flip4", "flip8", "flip16", "flip32", "arith8", "arith16",
               "arith32", "int8", "int16", "int32", "ext_UO", "ext_UI", "ext_AO">>
Now == DetStages[stage]

Flips == {"flip1", "flip2", "flip4"}
Bits(s) == CASE s = "flip1" -> 1 [] s = "flip2" -> 2 [] s = "flip4" -> 4
Width(s) == CASE s \in {"flip8", "arith8", "int8"} -> 1
              [] s \in {"flip16", "arith16", "int16"} -> 2
              [] s \in {"flip32", "arith32", "int32"} -> 4
              [] OTHER -> 1
Arithmetic == {"arith8", "arith16", "arith32"}
Integers8To32 == {"int8", "int16", "int32"}
Overwrites == {"ext_UO", "ext_AO"}

\* The jumps to skip_bitflip, skip_arith, skip_interest, skip_user_extras, skip_extras.
Applies(s) ==
  /\ Size >= Width(s)
  /\ s \in Arithmetic \cup {"int16", "int32"} => ~no_arith
  /\ s \in {"ext_UO", "ext_UI"} => extras # <<>>
  /\ s = "ext_AO" => a_extras # <<>>

Positions(s) == CASE s \in Flips -> W * Size - Bits(s) + 1
                  [] s = "ext_UI" -> Size + 1
                  [] OTHER -> Size - Width(s) + 1

Token(s, k) == IF s = "ext_AO" THEN a_extras[k].data ELSE extras[k]

Items(s) == CASE s = "arith8" -> 2 * ArithMax
              [] s \in {"arith16", "arith32"} -> 4 * ArithMax
              [] s = "int8" -> Len(Interesting8)
              [] s = "int16" -> 2 * Len(Words)
              [] s = "int32" -> 2 * Len(DWords)
              [] s \in {"ext_UO", "ext_UI"} -> Len(extras)
              [] s = "ext_AO" -> Least(Len(a_extras), UseAuto)
              [] OTHER -> 1

\* Where change k of an arithmetic stage goes: up and down, then with swapped bytes.
Step(s, k) == LET n == IF s = "arith8" THEN 2 ELSE 4
                  d == (k - 1) \div n + 1
              IN  IF k % 2 = 1 THEN d ELSE 0 - d
BigEndian(s, k) == s # "arith8" /\ (k - 1) % 4 >= 2

\* Change k of stage s to a word w.
Changed(s, w, k) ==
  CASE s \in Arithmetic -> IF BigEndian(s, k) THEN AddSwapped(w, Step(s, k)) ELSE Add(w, Step(s, k))
    [] s = "int8" -> <<Interesting8[k]>>
    [] s \in {"int16", "int32"} ->
         LET v == IF s = "int16" THEN Words[(k + 1) \div 2] ELSE DWords[(k + 1) \div 2]
         IN  IF k % 2 = 1 THEN v ELSE Swapped(v)
    [] s \in Overwrites -> Token(s, k)
    [] OTHER -> [i \in DOMAIN w |-> 2^W - 1 - w[i]]

\* A word only changes where the half of it that a narrower stage did overflows.
Overflows(w, d) ==
  LET n == Len(w) \div 2
      low == Value(At(w, 0, n))
  IN  low + d >= 2^(W * n) \/ low + d < 0

Redundant(s, w, k) ==
  LET c == Changed(s, w, k) IN
  CASE s = "arith8" -> CouldBeBitflip(w, c)
    [] s \in {"arith16", "arith32"} ->
         \/ ~Overflows(IF BigEndian(s, k) THEN Swapped(w) ELSE w, Step(s, k))
         \/ CouldBeBitflip(w, c)
    [] s = "int8" -> CouldBeBitflip(w, c) \/ CouldBeArith(w, c)
    [] s \in {"int16", "int32"} ->
         \/ k % 2 = 0 /\ c = Swapped(c)
         \/ CouldBeBitflip(w, c) \/ CouldBeArith(w, c)
         \/ CouldBeInterest(w, c, k % 2 = 0)
    [] OTHER -> FALSE

\* EFF_APOS and the span of n bytes from p on.
EffPos(p) == p \div EffScale
EffLen == EffPos(Size) + (IF Size % EffScale # 0 THEN 1 ELSE 0)
EffSpan(p, n) == EffPos(p) .. EffPos(p + n - 1)
\* A fault: a word whose first byte has no effect.
EffectiveFirst(s, p) == eff_map[EffPos(p)]

Effective(s, p) == \E k \in 0 .. Width(s) - 1 : eff_map[EffPos(p + k)]
ConsultsMap(s) == s \in {"flip16", "flip32"} \cup Arithmetic \cup Integers8To32

\* A token that does not fit, is there already or only covers bytes without effect.
TokenSkipped(s, p, k) ==
  LET t == Token(s, k) IN
  IF s = "ext_UI" THEN Size + Len(t) > MaxFile
  ELSE Len(t) <= Size - p =>
         At(out_buf, p, Len(t)) = t \/ \A e \in EffSpan(p, Len(t)) : ~eff_map[e]

Skipped(s) ==
  IF s \in Overwrites \cup {"ext_UI"} THEN TokenSkipped(s, at, item) ELSE Redundant(s, orig, item)

-----------------------------------------------------------------------------
(* calculate_score: each factor is rounded down.                            *)

SpeedScore(e) ==
  IF e > 10 * AvgUs THEN 10 ELSE IF e > 4 * AvgUs THEN 25
  ELSE IF e > 2 * AvgUs THEN 50 ELSE IF 3 * e > 4 * AvgUs THEN 75
  ELSE IF 4 * e < AvgUs THEN 300 ELSE IF 3 * e < AvgUs THEN 200
  ELSE IF 2 * e < AvgUs THEN 150 ELSE 100

\* The factor of the bitmap size in quarters.
SizeFactor(b) ==
  IF 3 * b > 10 * AvgBits THEN 12 ELSE IF b > 2 * AvgBits THEN 8
  ELSE IF 3 * b > 4 * AvgBits THEN 6 ELSE IF 3 * b < AvgBits THEN 1
  ELSE IF 2 * b < AvgBits THEN 2 ELSE IF 3 * b < 2 * AvgBits THEN 3 ELSE 4

HandicapFactor(h) == IF h >= 4 THEN 4 ELSE IF h > 0 THEN 2 ELSE 1
DepthFactor(d) == IF d <= 3 THEN 1 ELSE IF d <= 7 THEN 2 ELSE IF d <= 13 THEN 3
                  ELSE IF d <= 25 THEN 4 ELSE 5
WeightFactor(w) == IF w \in 3 .. 5 THEN 2 ELSE 1

CalculateScore(r) ==
  LET sized == (SpeedScore(r.exec_us) * SizeFactor(r.bitmap_size)) \div 4
      deep == sized * HandicapFactor(r.handicap) * DepthFactor(r.depth)
  IN  Least(Least(deep, HavocMaxMult * 100) * WeightFactor(r.weight), HavocMaxMult * 100)

-----------------------------------------------------------------------------
(* Into the stages and through their positions.                             *)

Init ==
  /\ pc = "score"
  /\ \E e \in Entries : entry = e.data /\ rating = e.rating
  /\ in_buf = entry /\ out_buf = entry
  /\ \E m \in Modes : dumb_mode = m[1] /\ no_arith = m[2] /\ use_splicing = m[3]
  /\ stage = 0 /\ at = 0 /\ item = 1 /\ stage_cur = 0 /\ stage_max = 0
  /\ orig = <<>> /\ last_len = 0
  /\ eff_map = <<>> /\ felt = {}
  /\ prev_cksum = Same /\ a_collect = <<>>
  /\ subseq_tmouts = 0
  /\ temp_len = 0 /\ cap = 0 /\ stacked = 0 /\ splice_cycle = 0
  /\ orig_perf = 100 /\ perf_score = 100
  /\ doing_det = FALSE
  /\ ret = 1
  /\ a_extras = <<>> /\ auto_changed = FALSE
  /\ \/ extras = <<>>
     \/ \E d \in Dictionaries :
          /\ ~LoadFails(d.lines, d.level)
          /\ extras \in SortedBySize(Tokens(d.lines, d.level))

\* calculate_score uses up some of the handicap of the entry.
Score ==
  /\ pc = "score"
  /\ perf_score' = CalculateScore(rating) /\ orig_perf' = perf_score'
  /\ rating' = [rating EXCEPT !.handicap = @ - Least(@, IF @ >= 4 THEN 4 ELSE 1)]
  /\ pc' = "enter"
  /\ UNCHANGED <<bufVars, stageVars, effVars, autoVars, temp_len, cap, stacked, doing_det,
                 splice_cycle, entry, dumb_mode, no_arith, use_splicing, subseq_tmouts, ret, dictVars>>

\* -d, an entry that has been through them, or one of another master instance.
SkipDeterministic ==
  /\ pc = "enter" /\ pc' = "havoc"
  /\ UNCHANGED <<bufVars, stageVars, effVars, autoVars, havocVars, fixed, subseq_tmouts, ret, dictVars>>

EnterDeterministic ==
  /\ pc = "enter" /\ pc' = "next"
  /\ doing_det' = TRUE
  /\ UNCHANGED <<bufVars, stageVars, effVars, autoVars, temp_len, cap, stacked, perf_score,
                 orig_perf, splice_cycle, fixed, subseq_tmouts, ret, dictVars>>

Remaining == {s \in stage + 1 .. Len(DetStages) : Applies(DetStages[s])}

\* The first and the last byte are always flagged.  Only flip1 collects a string: no later
\* stage reads what it has left.
FreshMap == [e \in 0 .. EffLen - 1 |-> e \in {0, EffPos(Size - 1)}]

NextStage ==
  /\ pc = "next" /\ Remaining # {}
  /\ LET s == FirstOf(Remaining) IN
       /\ stage' = s
       /\ stage_max' = Positions(DetStages[s]) * Items(DetStages[s])
       /\ eff_map' = IF DetStages[s] = "flip8" THEN FreshMap ELSE eff_map
  /\ at' = 0 /\ item' = 1 /\ stage_cur' = 0
  /\ prev_cksum' = Same /\ a_collect' = <<>>
  /\ pc' = "pos"
  /\ UNCHANGED <<bufVars, felt, havocVars, fixed, subseq_tmouts, ret, dictVars>>

\* mark_as_det_done; the effector map is not used any more.
DeterministicDone ==
  /\ pc = "next" /\ Remaining = {}
  /\ pc' = "havoc"
  /\ eff_map' = <<>> /\ felt' = {} /\ prev_cksum' = Same /\ a_collect' = <<>>
  /\ UNCHANGED <<bufVars, stageVars, havocVars, fixed, subseq_tmouts, ret, dictVars>>

SkipPosition ==
  /\ pc = "pos" /\ at < Positions(Now)
  /\ ConsultsMap(Now) /\ ~Effective(Now, at)
  /\ stage_max' = stage_max - Items(Now)
  /\ at' = at + 1
  /\ UNCHANGED <<pc, stage, item, stage_cur, bufVars, effVars, autoVars, havocVars, fixed,
                 subseq_tmouts, ret, dictVars>>

EnterPosition ==
  /\ pc = "pos" /\ at < Positions(Now)
  /\ ConsultsMap(Now) => Effective(Now, at)
  /\ orig' = IF Now \in Flips \cup Overwrites \cup {"ext_UI"} THEN <<>> ELSE At(out_buf, at, Width(Now))
  /\ last_len' = 0 /\ item' = 1
  /\ pc' = "item"
  /\ UNCHANGED <<stage, at, stage_cur, stage_max, in_buf, out_buf, effVars, autoVars, havocVars,
                 fixed, subseq_tmouts, ret, dictVars>>

\* A fault: both orders of the bytes are taken back where only one is left out.
SkipsBoth ==
  /\ pc = "item" /\ item <= Items(Now)
  /\ Skipped(Now) \/ (Now = "ext_UO" /\ Len(extras) > MaxDetExtras)
  /\ stage_max' = stage_max - 2
  /\ item' = item + 1
  /\ UNCHANGED <<pc, stage, at, stage_cur, bufVars, effVars, autoVars, havocVars, fixed,
                 subseq_tmouts, ret, dictVars>>

SkipItem ==
  /\ pc = "item" /\ item <= Items(Now)
  /\ Skipped(Now) \/ (Now = "ext_UO" /\ Len(extras) > MaxDetExtras)
  /\ stage_max' = stage_max - 1
  /\ item' = item + 1
  /\ UNCHANGED <<pc, stage, at, stage_cur, bufVars, effVars, autoVars, havocVars, fixed,
                 subseq_tmouts, ret, dictVars>>

\* What is in out_buf for the run of this change.
Mutated ==
  CASE Now \in Flips -> FlipBits(out_buf, at, Bits(Now))
    [] Now = "ext_UI" -> out_buf
    [] OTHER -> Put(out_buf, at, Changed(Now, orig, item))

Mutate ==
  /\ pc = "item" /\ item <= Items(Now)
  /\ ~Skipped(Now)
  /\ out_buf' = Mutated
  /\ last_len' = IF Now \in Overwrites THEN Len(Token(Now, item)) ELSE last_len
  /\ pc' = "run"
  /\ UNCHANGED <<stageVars, in_buf, orig, effVars, autoVars, havocVars, fixed, subseq_tmouts,
                 ret, dictVars>>

\* The flips and interest 8/8 undo every change, arithmetics and the other integers only
\* once a position is done, tokens as many bytes as the last one had.
UndoneAfterRun ==
  CASE Now \in Flips -> FlipBits(out_buf, at, Bits(Now))
    [] Now \in {"flip8", "flip16", "flip32", "int8"} -> Put(out_buf, at, orig)
    [] OTHER -> out_buf

\* A fault: tokens are undone by the length of the first.
UndoneShort ==
  CASE Now \in Arithmetic \cup {"int16", "int32"} -> Put(out_buf, at, orig)
    [] Now \in Overwrites -> Put(out_buf, at, At(in_buf, at, Least(last_len, Len(Token(Now, 1)))))
    [] OTHER -> out_buf

UndoneAtPosition ==
  CASE Now \in Arithmetic \cup {"int16", "int32"} -> Put(out_buf, at, orig)
    [] Now \in Overwrites -> Put(out_buf, at, At(in_buf, at, last_len))
    [] OTHER -> out_buf

LeavePosition ==
  /\ pc = "item" /\ item > Items(Now)
  /\ out_buf' = UndoneAtPosition
  /\ at' = at + 1
  /\ pc' = "pos"
  /\ UNCHANGED <<stage, item, stage_cur, stage_max, in_buf, orig, last_len, effVars, autoVars,
                 havocVars, fixed, subseq_tmouts, ret, dictVars>>

\* A map that is more than EFF_MAX_PERC dense is filled.
EndStage ==
  /\ pc = "pos" /\ at = Positions(Now)
  /\ LET flagged == Cardinality({e \in DOMAIN eff_map : eff_map[e]}) IN
       eff_map' = IF /\ Now = "flip8" /\ flagged # EffLen
                     /\ (flagged * 100) \div EffLen > EffMaxPerc
                  THEN [e \in DOMAIN eff_map |-> TRUE] ELSE eff_map
  /\ pc' = "next"
  /\ UNCHANGED <<stageVars, bufVars, felt, autoVars, havocVars, fixed, subseq_tmouts, ret, dictVars>>

-----------------------------------------------------------------------------
(* common_fuzz_stuff.                                                       *)

Abandons ==
  /\ \/ UNCHANGED subseq_tmouts                      \* an interrupt
     \/ subseq_tmouts' = 0                            \* a skip requested
     \/ subseq_tmouts' = subseq_tmouts + 1            \* the same, or a timeout too many
  /\ ret' = 1
  /\ pc' = "abandon"

Goes ==
  \/ subseq_tmouts' = 0
  \/ UNCHANGED subseq_tmouts                          \* the post handler has dropped the case
  \/ subseq_tmouts <= TmoutLimit /\ subseq_tmouts' = subseq_tmouts + 1

RunAbandoned ==
  /\ pc = "run" /\ Abandons
  /\ UNCHANGED <<stageVars, bufVars, effVars, autoVars, havocVars, fixed, dictVars>>

\* The string collected so far goes to the dictionary if its length is right.
Offer(str) ==
  IF Len(str) \in MinAuto .. MaxAuto THEN MaybeAddAuto(str) ELSE UNCHANGED dictVars

\* Flipping the lowest bit of a byte: bytes that change the trace in the same way
\* in a row make a token.  a_len may pass MAX_AUTO_EXTRA, a_collect does not.
Collect(cksum) ==
  LET here == out_buf'[at \div W + 1]
      last == at = Positions(Now) - 1
      ended == cksum # prev_cksum
      forced == last /\ ~ended
      str == IF forced THEN Append(a_collect, here) ELSE a_collect
      kept == IF ended THEN <<>> ELSE str
  IN  /\ IF forced \/ ended THEN Offer(str) ELSE UNCHANGED dictVars
      /\ prev_cksum' = cksum
      /\ a_collect' = IF cksum # Same THEN Append(kept, here) ELSE kept

FlagEffect(cksum) ==
  /\ felt' = IF cksum # Same THEN felt \cup {at} ELSE felt
  /\ eff_map' = IF cksum # Same \/ dumb_mode \/ Size < EffMinLen
                THEN [eff_map EXCEPT ![EffPos(at)] = TRUE] ELSE eff_map

RunDone ==
  /\ pc = "run" /\ Goes
  /\ out_buf' = UndoneAfterRun
  /\ stage_cur' = stage_cur + 1
  /\ item' = item + 1
  /\ pc' = "item"
  /\ IF Now = "flip1" /\ at % W = W - 1 /\ ~dumb_mode
     THEN \E cksum \in Cksums : Collect(cksum)
     ELSE UNCHANGED <<autoVars, dictVars>>
  /\ IF Now = "flip8"
     THEN \E cksum \in Cksums : FlagEffect(cksum)
     ELSE UNCHANGED effVars
  /\ UNCHANGED <<stage, at, stage_max, in_buf, orig, last_len, havocVars, fixed, ret>>

-----------------------------------------------------------------------------
(* Havoc: out_buf is known by its length and its size only.                 *)

\* choose_block_len: the class of the block depends on the age of the session.
ChooseBlockLen(limit) ==
  UNION {LET low == IF c = 1 THEN 1 ELSE Blocks[c - 1]
         IN  (IF low >= limit THEN 1 ELSE low) .. Least(Blocks[c], limit) : c \in DOMAIN Blocks}
BlockMax == Blocks[Len(Blocks)]

AtLeast(n, m) == IF n < m THEN m ELSE n
Cycles == CASE splice_cycle > 0 -> SpliceHavoc
            [] splice_cycle = 0 /\ doing_det -> HavocInit
            [] OTHER -> HavocCycles

HavocStage ==
  /\ pc = "havoc"
  /\ perf_score' = IF splice_cycle > 0 THEN orig_perf ELSE perf_score
  /\ stage_max' = AtLeast(((Cycles * perf_score') \div HavocDiv) \div 100, HavocMin)
  /\ stage_cur' = 0
  /\ temp_len' = Size /\ cap' = Size
  /\ pc' = "hloop"
  /\ UNCHANGED <<stage, at, item, bufVars, effVars, autoVars, stacked, orig_perf, doing_det,
                 splice_cycle, fixed, subseq_tmouts, ret, dictVars>>

HavocStart ==
  /\ pc = "hloop" /\ stage_cur < stage_max
  /\ stacked' \in Stacked
  /\ out_buf' = Mangled
  /\ pc' = "tweak"
  /\ UNCHANGED <<stageVars, in_buf, orig, last_len, effVars, autoVars, temp_len, cap, perf_score,
                 orig_perf, doing_det, splice_cycle, fixed, subseq_tmouts, ret, dictVars>>

\* Bits, bytes, words, blocks and tokens written over others (0-10, 14, 15).
TweakInPlace == UNCHANGED <<temp_len, cap>>

\* A fault: all of it may be deleted.
DeleteAll ==
  /\ temp_len >= 2
  /\ \E n \in ChooseBlockLen(temp_len) : temp_len' = temp_len - n
  /\ UNCHANGED cap

DeleteBytes ==
  /\ temp_len >= 2
  /\ \E n \in ChooseBlockLen(temp_len - 1) : temp_len' = temp_len - n
  /\ UNCHANGED cap

\* The new buffer is as long as what it holds.
CloneBytes ==
  /\ temp_len + BlockMax < MaxFile
  /\ \E n \in ChooseBlockLen(temp_len) \cup ChooseBlockLen(BlockMax) : temp_len' = temp_len + n
  /\ cap' = temp_len'

HavocTokens == {extras[k] : k \in DOMAIN extras} \cup {a_extras[k].data : k \in DOMAIN a_extras}

InsertToken ==
  /\ \E t \in HavocTokens :
       /\ temp_len + Len(t) < MaxFile
       /\ temp_len' = temp_len + Len(t)
  /\ cap' = temp_len'

Tweak ==
  /\ pc = "tweak" /\ stacked > 0
  /\ stacked' = stacked - 1
  /\ \/ TweakInPlace
     \/ DeleteBytes
     \/ CloneBytes
     \/ InsertToken
  /\ UNCHANGED <<pc, bufVars, stageVars, effVars, autoVars, perf_score, orig_perf, doing_det,
                 splice_cycle, fixed, subseq_tmouts, ret, dictVars>>

HavocAbandoned ==
  /\ pc = "tweak" /\ stacked = 0 /\ Abandons
  /\ UNCHANGED <<stageVars, bufVars, effVars, autoVars, havocVars, fixed, dictVars>>

\* The buffer is restored; finds make the stage longer until the score is at its limit.
HavocRun ==
  /\ pc = "tweak" /\ stacked = 0 /\ Goes
  /\ out_buf' = in_buf
  /\ cap' = IF temp_len < Size THEN Size ELSE cap
  /\ temp_len' = Size
  /\ stage_cur' = stage_cur + 1
  /\ \E found \in BOOLEAN :
       LET doubles == found /\ perf_score <= HavocMaxMult * 100 IN
       /\ stage_max' = IF doubles THEN 2 * stage_max ELSE stage_max
       /\ perf_score' = IF doubles THEN 2 * perf_score ELSE perf_score
  /\ pc' = "hloop"
  /\ UNCHANGED <<stage, at, item, in_buf, orig, last_len, effVars, autoVars, stacked, orig_perf,
                 doing_det, splice_cycle, fixed, ret, dictVars>>

HavocDone ==
  /\ pc = "hloop" /\ stage_cur >= stage_max
  /\ pc' = "splice"
  /\ UNCHANGED <<bufVars, stageVars, effVars, autoVars, havocVars, fixed, subseq_tmouts, ret, dictVars>>

-----------------------------------------------------------------------------
(* Splicing: the head of the entry with the tail of another one.            *)

MaySplice == use_splicing /\ splice_cycle < SpliceCycles /\ Others # <<>> /\ Len(entry) > 1

\* The walk from entry tid on to one that is long enough; 0 if there is none.
SpliceTarget(tid) ==
  LET long == {k \in tid .. Len(Others) : Len(Others[k]) >= 2}
  IN  IF long = {} THEN 0 ELSE FirstOf(long)

\* locate_diffs: positions count from 0.
Diffs(b, c) == {i \in 0 .. Least(Len(b), Len(c)) - 1 : b[i + 1] # c[i + 1]}
SplitPoints(b, c) ==
  {s \in 0 .. Least(Len(b), Len(c)) :
     /\ \E f \in Diffs(b, c) : f <= s
     /\ \E l \in Diffs(b, c) : s < l /\ l >= 2}

SpliceWith(tid) ==
  LET k == SpliceTarget(tid) IN
  \/ /\ k = 0 \/ SplitPoints(entry, Others[k]) = {}
     /\ in_buf' = entry
     /\ UNCHANGED <<out_buf, pc>>
  \/ /\ k # 0
     /\ \E split_at \in SplitPoints(entry, Others[k]) :
          in_buf' = SubSeq(entry, 1, split_at) \o SubSeq(Others[k], split_at + 1, Len(Others[k]))
     /\ out_buf' = in_buf'
     /\ pc' = "havoc"

Splice ==
  /\ pc = "splice" /\ MaySplice
  /\ splice_cycle' = splice_cycle + 1
  /\ \E tid \in DOMAIN Others : SpliceWith(tid)
  /\ UNCHANGED <<orig, last_len, stageVars, effVars, autoVars, temp_len, cap, stacked, perf_score,
                 orig_perf, doing_det, fixed, subseq_tmouts, ret, dictVars>>

SpliceDone ==
  /\ pc = "splice" /\ ~MaySplice
  /\ ret' = 0
  /\ pc' = "abandon"
  /\ UNCHANGED <<bufVars, stageVars, effVars, autoVars, havocVars, fixed, subseq_tmouts, dictVars>>

\* abandon_entry: the buffers are freed (the counters of the queue are Queue's).
Leave ==
  /\ pc = "abandon"
  /\ pc' = "done"
  /\ in_buf' = <<>> /\ out_buf' = <<>> /\ orig' = <<>> /\ last_len' = 0
  /\ eff_map' = <<>> /\ felt' = {} /\ a_collect' = <<>> /\ prev_cksum' = Same
  /\ UNCHANGED <<stageVars, havocVars, fixed, subseq_tmouts, ret, dictVars>>

Next ==
  \/ Score \/ SkipDeterministic \/ EnterDeterministic
  \/ NextStage \/ DeterministicDone
  \/ SkipPosition \/ EnterPosition \/ LeavePosition \/ EndStage
  \/ SkipItem \/ Mutate
  \/ RunDone \/ RunAbandoned
  \/ HavocStage \/ HavocStart \/ Tweak \/ HavocRun \/ HavocAbandoned \/ HavocDone
  \/ Splice \/ SpliceDone
  \/ Leave

Spec == Init /\ [][Next]_vars

-----------------------------------------------------------------------------
TokenOK(t) == t \in Seq(Byte)

TypeOK ==
  /\ pc \in {"score", "enter", "next", "pos", "item", "run", "havoc", "hloop", "tweak", "splice",
             "abandon", "done"}
  /\ entry \in Seq(Byte) /\ in_buf \in Seq(Byte) /\ out_buf \in Seq(Byte) \cup {Mangled}
  /\ {dumb_mode, no_arith, use_splicing, doing_det} \subseteq BOOLEAN
  /\ stage \in 0 .. Len(DetStages)
  /\ {at, item, stage_cur, stage_max, last_len, subseq_tmouts, temp_len, cap, stacked,
      perf_score, orig_perf, splice_cycle} \subseteq Nat
  /\ orig \in Seq(Byte) /\ felt \subseteq Nat
  /\ prev_cksum \in Cksums /\ a_collect \in Seq(Byte)
  /\ ret \in {0, 1}
  /\ \A k \in DOMAIN extras : TokenOK(extras[k])
  /\ \A k \in DOMAIN a_extras : TokenOK(a_extras[k].data) /\ a_extras[k].hit_cnt \in Nat
  /\ Len(a_extras) <= MaxAutoExtras

\* Whenever a stage or a round of havoc turns to its next position, the buffer is the
\* entry (or the splice of it) again, whatever has been tried at the positions before.
Restored == pc \in {"next", "pos", "hloop"} => out_buf = in_buf

\* What a stage announces as its length and takes back for what it leaves out is in the
\* end what it has run: stage_cycles and the progress on the screen are right.
StageCounts == pc = "next" /\ stage > 0 => stage_cur = stage_max

\* The deterministic stages leave nothing behind, in the buffer and in their counters,
\* whichever changes they make, undo, skip or lose to a timeout.
DeterministicSound == Restored /\ StageCounts

\* No later stage leaves out a byte whose flip has changed the trace.
EffectKept ==
  [][/\ SkipPosition => felt \cap (at .. at + Width(Now) - 1) = {}
     /\ SkipItem /\ Now \in Overwrites =>
          LET n == Len(Token(Now, item)) IN
          \/ n > Size - at \/ At(out_buf, at, n) = Token(Now, item)
          \/ Now = "ext_UO" /\ Len(extras) > MaxDetExtras
          \/ felt \cap (at .. at + n - 1) = {}]_vars

\* Under havoc out_buf has at least a byte, not more than MAX_FILE, never more than it
\* was allocated with, and room for the entry when that is copied back.
HavocFits ==
  pc \in {"tweak", "hloop"} =>
    /\ temp_len \in 1 .. AtLeast(Size, MaxFile) /\ temp_len <= cap
    /\ pc = "hloop" => cap >= Size

\* The mutations a stage runs on the entry.
Tried(s) ==
  IF s \in Flips THEN {FlipBits(in_buf, p, Bits(s)) : p \in 0 .. Positions(s) - 1}
  ELSE {Put(in_buf, c[1], Changed(s, At(in_buf, c[1], Width(s)), c[2])) :
          c \in {d \in (0 .. Positions(s) - 1) \X (1 .. Items(s)) :
             /\ ConsultsMap(s) => Effective(s, d[1])
             /\ ~Redundant(s, At(in_buf, d[1], Width(s)), d[2])}}

\* What a stage leaves out as a product of an earlier one has been run by one of those:
\* for changes of a single byte, which no effector map comes between.
Earlier == {DetStages[k] : k \in {m \in 1 .. stage - 1 : Applies(DetStages[m])}}
ByteSkipsWereRun ==
  [][SkipItem /\ (Now = "arith8" \/ (Now = "int8" /\ ~no_arith)) =>
       Put(out_buf, at, Changed(Now, orig, item)) \in {in_buf} \cup UNION {Tried(s) : s \in Earlier}]_vars

\* To save runs the deterministic stages leave out positions, by the effector map, and
\* changes, as products of earlier stages: none whose flip was felt, none that was not run.
SkipsLoseNothing == EffectKept /\ ByteSkipsWereRun

\* Havoc ends, even if every run finds something: its length doubles with the score, and
\* only while that is within its limit.
HavocEnds ==
  pc \in {"hloop", "tweak"} =>
    /\ stage_cur <= stage_max
    /\ stage_max <= AtLeast(((Cycles * perf_score) \div HavocDiv) \div 100, HavocMin * AtLeast(perf_score \div orig_perf, 1))
    /\ perf_score <= 2 * HavocMaxMult * 100

\* Neither the buffer nor the number of rounds of havoc outgrows its limits, after any
\* series of stacked changes and finds.
HavocBounded == HavocFits /\ HavocEnds
=============================================================================
