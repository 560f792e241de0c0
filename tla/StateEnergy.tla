---------------------------- MODULE StateEnergy -----------------------------
(***************************************************************************)
(* What afl-fuzz keeps about the nodes of the state map: which of them it  *)
(* has seen (virgin_bits_sensitive), how often they are hit over all       *)
(* executions, and how often each queue entry's own executions hit them    *)
(* (trace_state_bits), from which calculate_energy tells whether an entry  *)
(* reaches rare states.                                                    *)
(*                                                                         *)
(* A run's trace gives each node one of the bits of Buckets, the classes   *)
(* of classify_counts_sensitive, or 0.  The counters of an entry have      *)
(* Modulus values; config.h has 2^32 for it, 4294966295 for Low, 10000000  *)
(* for MaxFuzz, and the highest class is 128.                              *)
(***************************************************************************)
EXTENDS Naturals, FiniteSets, Functions

CONSTANTS
  N,            \* SENSITIVE_MAP_SIZE
  Buckets,      \* the bits of a classified hit count
  Top,          \* the highest of them
  Modulus,      \* of a u32 counter
  Low,          \* MAX_INT32_LOW
  MaxFuzz,      \* MAX_FUZZ_TIMES
  HitNodes,     \* nodes the target can hit
  Seeds,        \* entries that come from the input directory
  MaxEntries,   \* bound on the length of the queue
  MaxExecs      \* bound on the executions of fuzzing

ASSUME EnergyAssumption ==
  /\ N \in Nat /\ N >= 4 /\ HitNodes \subseteq 0..N - 1
  /\ Top \in Nat /\ Buckets \subseteq 1..Top /\ Buckets # {}
  /\ Modulus \in Nat /\ Low \in Nat \ {0} /\ MaxFuzz \in Nat \ {0}
  /\ MaxFuzz * Top < Modulus /\ Low + Top < Modulus
  /\ Seeds \in Nat \ {0} /\ MaxEntries \in Nat /\ Seeds <= MaxEntries /\ MaxExecs \in Nat

Node == 0..N - 1
Entry == 1..MaxEntries
Silent == [n \in Node |-> 0]
Traces == {t \in [Node -> Buckets \cup {0}] : \A n \in Node \ HitNodes : t[n] = 0}
(* Bound: a calibration differs in one node; several in a row, in more.    *)
Flickers == {t \in Traces : \A m, n \in HitNodes : t[m] # 0 /\ t[n] # 0 => m = n}

VARIABLES
  virgin,            \* virgin_bits_sensitive: the buckets of a node not seen yet
  node_nums,         \* global_state_node_nums
  hitcounts_sum,     \* global_state_node_hitcounts_sum
  queued,            \* queued_paths
  cur,               \* queue_cur
  traced,            \* entries whose trace_state_bits is not NULL
  bits,              \* trace_state_bits
  fuzzed_times,      \* counted up to MaxFuzz, with which it is compared
  energy,            \* what calculate_energy last returned, 0 at first
  crashed,           \* the fuzzer has died
  execs,             \* executions of fuzzing so far
  found              \* history: nodes first seen by an execution of fuzzing

vars == <<virgin, node_nums, hitcounts_sum, queued, cur, traced, bits, fuzzed_times,
          energy, crashed, execs, found>>

Init ==
  /\ virgin = [n \in Node |-> Buckets] /\ node_nums = 0 /\ hitcounts_sum = 0
  /\ queued = Seeds /\ cur = 1 /\ traced = {}
  /\ bits = [q \in Entry |-> Silent] /\ fuzzed_times = [q \in Entry |-> 0]
  /\ energy = 0 /\ crashed = FALSE /\ execs = 0 /\ found = {}

-----------------------------------------------------------------------------
(* has_new_bits_sensitive: what a trace has that was not seen before.      *)
Pristine(v) == {n \in Node : v[n] = Buckets}
NewNodes(t) == {n \in Pristine(virgin) : t[n] # 0}
NewCounts(t) == {n \in Node : t[n] \in virgin[n]}
Cleared(v, t) == [n \in Node |-> v[n] \ {t[n]}]

HitsOf(t) == FoldFunction(LAMBDA a, b : a + b, 0, t)
NodesSeenBefore(v) == Cardinality(Node \ Pristine(virgin))  \* a fault: counted too early
NodesSeen(v) == Cardinality(Node \ Pristine(v))

(* check_stateval_if_overflow, whose loop steps by one and looks four      *)
(* ahead, for a quarter of the map.                                        *)
Scanned == 0..(N \div 4) + 2
CappedNot(c) == [n \in Node |-> c[n]]                       \* a fault: no cap
Capped(c) == [n \in Node |-> IF n \in Scanned /\ c[n] >= Low THEN Low ELSE c[n]]

Added(c, t) == [n \in Node |-> (c[n] + t[n]) % Modulus]

(* save_if_interesting counts the hits of a run for the current entry.     *)
CountHits(t) ==
  LET times == IF fuzzed_times[cur] < MaxFuzz THEN fuzzed_times[cur] + 1 ELSE MaxFuzz
  IN  /\ fuzzed_times' = [fuzzed_times EXCEPT ![cur] = times]
      /\ hitcounts_sum' = hitcounts_sum + HitsOf(t)
      /\ node_nums' = IF NewNodes(t) # {} THEN NodesSeen(Cleared(virgin, t)) ELSE node_nums
      /\ found' = found \cup NewNodes(t)

CountedForCur(t) ==
  IF cur \notin traced THEN bits[cur]
  ELSE Added(IF fuzzed_times'[cur] >= MaxFuzz THEN Capped(bits[cur]) ELSE bits[cur], t)

InterestingByCoverage(t, new_cov) == new_cov                \* a fault: states do not count
Interesting(t, new_cov) == new_cov \/ NewCounts(t) # {}

Execs == ~crashed /\ execs < MaxExecs /\ execs' = execs + 1

Discard(t, new_cov) ==
  /\ Execs /\ ~Interesting(t, new_cov)
  /\ CountHits(t)
  /\ bits' = [bits EXCEPT ![cur] = CountedForCur(t)]
  /\ virgin' = Cleared(virgin, t)
  /\ UNCHANGED <<queued, cur, traced, energy, crashed>>

(* The calibration of the new entry clears virgin bits of its own when a   *)
(* run of it has other coverage, and counts nothing.                       *)
Save(t, new_cov, flaky) ==
  /\ Execs /\ Interesting(t, new_cov) /\ queued < MaxEntries
  /\ CountHits(t)
  /\ bits' = [bits EXCEPT ![cur] = CountedForCur(t), ![queued + 1] = t]
  /\ virgin' = Cleared(Cleared(virgin, t), flaky)
  /\ queued' = queued + 1 /\ traced' = traced \cup {queued + 1}
  /\ UNCHANGED <<cur, energy, crashed>>

(* calibrate_case in the dry run and for an entry that failed before.      *)
Calibrate(t) ==
  /\ ~crashed /\ t # Silent
  /\ virgin' = Cleared(virgin, t)
  /\ UNCHANGED <<node_nums, hitcounts_sum, queued, cur, traced, bits, fuzzed_times,
                 energy, crashed, execs, found>>

-----------------------------------------------------------------------------
(* calculate_energy: five points for each rare counter, over their number; *)
(* the loop meets a counter as often as its window covers it.              *)
Rare(q, n) ==
  bits[q][n] # 0 /\ (bits[q][n] < 5 \/ bits[q][n] <= hitcounts_sum \div node_nums)
RareMet(q) == {w \in (0..(N \div 4) - 1) \X (0..3) : Rare(q, w[1] + w[2])}
NodeNumbersOnce(q) == Cardinality({w[1] + w[2] : w \in RareMet(q)}) \* a fault: each once
NodeNumbers(q) == Cardinality(RareMet(q))
EnergyOf(q) ==
  IF q \notin traced \/ RareMet(q) = {} THEN 1
  ELSE (5 * Cardinality(RareMet(q))) \div NodeNumbers(q)

NextOf(q) == IF q < queued THEN q + 1 ELSE 1
Divides(q) == q \in traced

(* fuzz_one goes on to the next entry and scores it.                       *)
Score ==
  /\ ~crashed /\ ~(Divides(NextOf(cur)) /\ node_nums = 0)
  /\ cur' = NextOf(cur) /\ energy' = EnergyOf(NextOf(cur))
  /\ UNCHANGED <<virgin, node_nums, hitcounts_sum, queued, traced, bits, fuzzed_times,
                 crashed, execs, found>>

(* The average over no node is an integer division by zero.                *)
ScoreDies ==
  /\ ~crashed /\ Divides(NextOf(cur)) /\ node_nums = 0
  /\ cur' = NextOf(cur) /\ crashed' = TRUE
  /\ UNCHANGED <<virgin, node_nums, hitcounts_sum, queued, traced, bits, fuzzed_times,
                 energy, execs, found>>

Next ==
  \/ \E t \in Traces, new_cov \in BOOLEAN :
       Discard(t, new_cov) \/ \E flaky \in Flickers : Save(t, new_cov, flaky)
  \/ \E t \in Flickers : Calibrate(t)
  \/ Score \/ ScoreDies

Spec == Init /\ [][Next]_vars

-----------------------------------------------------------------------------
(* Properties. *)

(* The energy is 1 or 5, however the windows of the loop overlap.          *)
TypeOK ==
  /\ virgin \in [Node -> SUBSET Buckets] /\ node_nums \in 0..N /\ hitcounts_sum \in Nat
  /\ queued \in Seeds..MaxEntries /\ cur \in 1..queued /\ traced \subseteq Seeds + 1..queued
  /\ bits \in [Entry -> [Node -> 0..Modulus - 1]] /\ fuzzed_times \in [Entry -> 0..MaxFuzz]
  /\ energy \in {0, 1, 5} /\ crashed \in BOOLEAN /\ execs \in 0..MaxExecs /\ found \subseteq Node

(* The divisor of the average counts every node that fuzzing found, and no *)
(* node that was not seen; nodes that only calibration saw may lack.       *)
NodesCounted ==
  Cardinality(found) <= node_nums /\ node_nums <= NodesSeen(virgin)

(* A node that fuzzing found stays recorded in an entry that reached it,   *)
(* where the counters are watched: no counter wraps around to zero.        *)
FoundIsRecorded == \A n \in found \cap Scanned : \E q \in traced : bits[q][n] # 0

(* A watched counter goes down only when it is capped.                     *)
WatchedNeverWrap ==
  [][\A q \in traced : \A n \in Scanned :
       bits'[q][n] >= bits[q][n] \/ (bits[q][n] > Low /\ bits'[q][n] >= Low)]_vars

(* Violated: calculate_energy takes "the average hitcount of the states",  *)
(* but there is none when an entry was saved for its coverage and no       *)
(* execution of fuzzing, as against calibration, ever saw a new node.      *)
AverageDefined == ~crashed
=============================================================================
