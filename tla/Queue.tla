------------------------------- MODULE Queue -------------------------------
(***************************************************************************)
(* The queue of afl-fuzz and its scheduling: how test cases are added,     *)
(* calibrated, scored against each other, trimmed, favored and fuzzed.     *)
(*                                                                         *)
(* A trace is the set of non-zero bytes of trace_bits, which is all that   *)
(* the scoring looks at; exec_cksum stands for the trace it is the hash    *)
(* of.  The target may be flaky: each execution of a test case picks its   *)
(* trace anew, so the runs of one calibration can differ.                  *)
(***************************************************************************)
EXTENDS Naturals, FiniteSets, Sequences

CONSTANTS
  MapSize,     \* MAP_SIZE
  MaxEntries,  \* bound on the queue
  Seeds,       \* test cases in the input directory
  Lens,        \* lengths of test cases
  Times,       \* exec_us of a calibrated test case
  CalRuns,     \* executions of a calibration, CAL_CYCLES
  CalChances,  \* CAL_CHANCES
  SkipFloor    \* queue size above which old entries may be skipped, 10

ASSUME QueueAssumption ==
  /\ MapSize \in Nat \ {0} /\ MaxEntries \in Nat \ {0} /\ Seeds \in 1..MaxEntries
  /\ Lens \subseteq Nat \ {0} /\ Lens # {} /\ Times \subseteq Nat /\ Times # {}
  /\ CalRuns \in Nat \ {0} /\ CalChances \in Nat \ {0} /\ SkipFloor \in Nat

Bytes   == 1..MapSize
Entries == 1..MaxEntries
Traces  == (SUBSET Bytes) \ {{}}
NoEntry == 0
None    == {}    \* exec_cksum == 0, trace_mini == NULL

VARIABLES
  pc,                  \* where main and fuzz_one stand
  queue_cur,           \* position in the queue, NoEntry at the end of a cycle
  queued_paths,        \* length of the queue
  len, exec_us, exec_cksum, cal_failed, trim_done, was_fuzzed, favored,
  trace_mini, tc_ref,  \* the fields of the queue entries
  top_rated,           \* the winner of each byte of the map
  seen,                \* bytes cleared in virgin_bits
  score_changed, queued_favored, pending_favored, pending_not_fuzzed,
  stop_soon

scores   == <<trace_mini, tc_ref, top_rated, score_changed>>
measures == <<exec_us, exec_cksum, cal_failed, seen>>
counters == <<queued_favored, pending_favored, pending_not_fuzzed>>
vars == <<pc, queue_cur, queued_paths, len, trim_done, was_fuzzed, favored, measures, scores,
          counters, stop_soon>>

Queued == 1..queued_paths

-----------------------------------------------------------------------------
(* Scoring. *)

(* fav_factor *)
Factor(us, l) == us * l
Fav(p) == Factor(exec_us[p], len[p])

(* The bytes of trace that an entry of factor f wins from their owners.    *)
WonByLarger(f, trace) == {i \in trace : top_rated[i] = NoEntry \/ f >= Fav(top_rated[i])}
Won(f, trace) == {i \in trace : top_rated[i] = NoEntry \/ f <= Fav(top_rated[i])}

Owned(p) == {i \in Bytes : top_rated[i] = p}

(* q wins its only byte o from itself before any other byte: the reference *)
(* count touches zero and the trace_mini it had is replaced.               *)
Rebuilt(q, won) ==
  tc_ref[q] = 0 \/ (tc_ref[q] = 1 /\ \E o \in won : top_rated[o] = q /\ \A w \in won : o <= w)

KeepsTrace(p)  == FALSE            \* a fault: a loser's trace is never freed
FreesTrace(p)  == tc_ref'[p] = 0

(* update_bitmap_score(q), for the trace in trace_bits and q's factor f.   *)
UpdateBitmapScore(q, f, trace) ==
  LET won == Won(f, trace)
      lost(p) == {i \in won : top_rated[i] = p}
  IN  /\ top_rated' = [i \in Bytes |-> IF i \in won THEN q ELSE top_rated[i]]
      /\ tc_ref' = [p \in Entries |-> IF p = q
                                      THEN tc_ref[p] + Cardinality(won \ Owned(p))
                                      ELSE tc_ref[p] - Cardinality(lost(p))]
      /\ trace_mini' = [p \in Entries |->
           IF p = q THEN IF won # {} /\ Rebuilt(p, won) THEN trace ELSE trace_mini[p]
                    ELSE IF lost(p) # {} /\ FreesTrace(p) THEN None ELSE trace_mini[p]]
      /\ score_changed' = (score_changed \/ won # {})

(* The bytes cull_queue visits, in the order of the map: those that have a *)
(* winner and are not in the trace_mini of a winner visited before.        *)
Rated == {i \in Bytes : top_rated[i] # NoEntry}
Visits(visited) ==
  visited = {i \in Rated : \A j \in visited : j < i => i \notin trace_mini[top_rated[j]]}

AllPending(i) == TRUE             \* a fault: fuzzed winners are pending too
PendingAt(i) == ~was_fuzzed[top_rated[i]]

(* A fault: only the entries that wait to be fuzzed are favored.           *)
PendingFlags(visited) == [p \in Entries |-> \E i \in visited : top_rated[i] = p /\ PendingAt(i)]
CullFlags(visited) == [p \in Entries |-> \E i \in visited : top_rated[i] = p]

(* cull_queue, which main calls before each entry.                         *)
CullQueue ==
  IF score_changed
  THEN \E visited \in SUBSET Rated :
         /\ Visits(visited)
         /\ score_changed' = FALSE /\ favored' = CullFlags(visited)
         /\ queued_favored' = Cardinality(visited)
         /\ pending_favored' = Cardinality({i \in visited : PendingAt(i)})
  ELSE UNCHANGED <<score_changed, favored, queued_favored, pending_favored>>

-----------------------------------------------------------------------------
(* Calibration. *)

(* calibrate_case(q): q runs with the given traces; the calibration fails  *)
(* when a run ends in an unexpected way.  The first run of a test case     *)
(* whose exec_cksum is unknown sets it; any other trace is checked for new *)
(* bits.  Only a completed calibration measures the test case and scores   *)
(* the trace of its last run.                                              *)
CalibrateRuns(q, known, runs, us, l) ==
  LET n == Len(runs)
      completes == n = CalRuns
  IN  /\ exec_cksum' = [exec_cksum EXCEPT ![q] =
                          IF known = None /\ n > 0 THEN runs[1] ELSE known]
      /\ seen' = seen \cup known \cup UNION {runs[k] : k \in 1..n}
      /\ IF completes
         THEN /\ cal_failed' = [cal_failed EXCEPT ![q] = 0]
              /\ exec_us' = [exec_us EXCEPT ![q] = us]
              /\ UpdateBitmapScore(q, Factor(us, l), runs[n])
         ELSE /\ cal_failed' = [cal_failed EXCEPT ![q] = @ + 1]
              /\ UNCHANGED <<exec_us, scores>>

(* A fault: an incomplete calibration scores its last trace all the same.  *)
ScoresIncomplete(q, known, runs, us, l) ==
  IF runs = <<>> \/ Len(runs) = CalRuns THEN CalibrateRuns(q, known, runs, us, l)
  ELSE /\ exec_cksum' = [exec_cksum EXCEPT ![q] = IF known = None THEN runs[1] ELSE known]
       /\ seen' = seen \cup known \cup runs[1]
       /\ cal_failed' = [cal_failed EXCEPT ![q] = @ + 1]
       /\ UNCHANGED exec_us
       /\ UpdateBitmapScore(q, Fav(q), runs[Len(runs)])
Calibrate(q, known, runs, us, l) == CalibrateRuns(q, known, runs, us, l)

Calibrations == UNION {[1..n -> Traces] : n \in 0..CalRuns}

-----------------------------------------------------------------------------
(* main and fuzz_one. *)

Init ==
  /\ pc = "dry_run" /\ queue_cur = 1 /\ queued_paths = Seeds
  /\ len \in {l \in [Entries -> Lens \cup {0}] : \A p \in Entries : l[p] = 0 <=> p > Seeds}
  /\ exec_us = [p \in Entries |-> 0] /\ exec_cksum = [p \in Entries |-> None]
  /\ cal_failed = [p \in Entries |-> 0] /\ trim_done = [p \in Entries |-> FALSE]
  /\ was_fuzzed = [p \in Entries |-> FALSE] /\ favored = [p \in Entries |-> FALSE]
  /\ trace_mini = [p \in Entries |-> None] /\ tc_ref = [p \in Entries |-> 0]
  /\ top_rated = [i \in Bytes |-> NoEntry] /\ seen = {}
  /\ score_changed = FALSE /\ queued_favored = 0 /\ pending_favored = 0
  /\ pending_not_fuzzed = Seeds /\ stop_soon = FALSE

(* perform_dry_run: one seed.  A seed that cannot be calibrated is given   *)
(* up for good where the options tolerate it; elsewhere afl-fuzz exits.    *)
DryRun(runs, us) ==
  /\ pc = "dry_run"
  /\ Calibrate(queue_cur, None, runs, us, len[queue_cur])
  /\ UNCHANGED <<queued_paths, len, trim_done, was_fuzzed, favored, counters, stop_soon>>
  /\ IF queue_cur < Seeds
     THEN queue_cur' = queue_cur + 1 /\ pc' = "dry_run"
     ELSE queue_cur' = NoEntry /\ pc' = "main"

(* A seed that failed its dry run gets CAL_CHANCES: it is not tried again. *)
(* afl-fuzz exits when it has given up all of them.                        *)
GiveUpSeed(runs) ==
  /\ pc = "dry_run" /\ Len(runs) < CalRuns
  /\ cal_failed' = [cal_failed EXCEPT ![queue_cur] = CalChances]
  /\ exec_cksum' = [exec_cksum EXCEPT ![queue_cur] = IF runs = <<>> THEN None ELSE runs[1]]
  /\ seen' = seen \cup UNION {runs[k] : k \in 1..Len(runs)}
  /\ UNCHANGED <<queued_paths, len, exec_us, trim_done, was_fuzzed, favored, scores, counters,
                 stop_soon>>
  /\ IF queue_cur < Seeds
     THEN queue_cur' = queue_cur + 1 /\ pc' = "dry_run"
     ELSE /\ queue_cur' = NoEntry
          /\ pc' = IF \A p \in 1..Seeds : cal_failed'[p] = CalChances THEN "stopped" ELSE "main"

(* One turn of the main loop: cull, and start a new cycle at its end.      *)
NextEntry ==
  /\ pc = "main" /\ ~stop_soon
  /\ CullQueue
  /\ queue_cur' = IF queue_cur = NoEntry THEN 1 ELSE queue_cur
  /\ pc' = "fuzz_one"
  /\ UNCHANGED <<queued_paths, len, trim_done, was_fuzzed, measures, trace_mini, tc_ref,
                 top_rated, pending_not_fuzzed, stop_soon>>

(* The end of a turn.                                                      *)
Advance == queue_cur' = IF queue_cur < queued_paths THEN queue_cur + 1 ELSE NoEntry

(* fuzz_one may skip an entry that is not favored, and while favored ones  *)
(* are pending also one it has fuzzed before.                              *)
MaySkipAny == TRUE                 \* a fault: pending favorites are skipped too
MaySkip ==
  IF pending_favored > 0 THEN was_fuzzed[queue_cur] \/ ~favored[queue_cur]
  ELSE ~favored[queue_cur] /\ queued_paths > SkipFloor

Skip ==
  /\ pc = "fuzz_one" /\ MaySkip
  /\ Advance
  /\ pc' = IF stop_soon THEN "stopped" ELSE "main"
  /\ UNCHANGED <<queued_paths, len, trim_done, was_fuzzed, favored, measures, scores, counters,
                 stop_soon>>

Enter ==
  /\ pc = "fuzz_one"
  /\ pc' = IF cal_failed[queue_cur] = 0 THEN "trim"
           ELSE IF cal_failed[queue_cur] < CalChances THEN "calibrate" ELSE "skipped"
  /\ UNCHANGED <<queue_cur, queued_paths, len, trim_done, was_fuzzed, favored, measures, scores,
                 counters, stop_soon>>

(* An entry whose calibration failed gets another chance, as if it had     *)
(* never run: a completed calibration that shows no new bits or hit counts *)
(* reports FAULT_NOBITS, and only FAULT_NONE lets fuzz_one go on.          *)
Recalibrate(runs, us, new_counts) ==
  /\ pc = "calibrate"
  /\ Calibrate(queue_cur, None, runs, us, len[queue_cur])
  /\ LET new_bits == new_counts \/ ~(seen' \subseteq seen)
     IN  pc' = IF stop_soon \/ Len(runs) < CalRuns \/ ~new_bits THEN "skipped" ELSE "trim"
  /\ UNCHANGED <<queue_cur, queued_paths, len, trim_done, was_fuzzed, favored, counters, stop_soon>>

(* trim_case and the code around it: a test case trimmed before is left    *)
(* alone; nothing can be removed, or the test case shrinks to one with the *)
(* same checksum and is scored again with that trace; a signal ends the    *)
(* loop with the length it has reached, which is not scored.               *)
TrimNothing ==
  /\ pc = "trim"
  /\ trim_done' = [trim_done EXCEPT ![queue_cur] = @ \/ ~stop_soon]
  /\ pc' = IF stop_soon /\ ~trim_done[queue_cur] THEN "skipped" ELSE "fuzz"
  /\ UNCHANGED <<queue_cur, queued_paths, len, was_fuzzed, favored, measures, scores, counters,
                 stop_soon>>

Trim(l) ==
  /\ pc = "trim" /\ ~trim_done[queue_cur] /\ l < len[queue_cur]
  /\ len' = [len EXCEPT ![queue_cur] = l]
  /\ UpdateBitmapScore(queue_cur, Factor(exec_us[queue_cur], l), exec_cksum[queue_cur])
  /\ trim_done' = [trim_done EXCEPT ![queue_cur] = ~stop_soon]
  /\ pc' = IF stop_soon THEN "skipped" ELSE "fuzz"
  /\ UNCHANGED <<queue_cur, queued_paths, was_fuzzed, favored, measures, counters, stop_soon>>

AbortTrim(l) ==
  /\ pc = "trim" /\ stop_soon /\ ~trim_done[queue_cur] /\ l < len[queue_cur]
  /\ len' = [len EXCEPT ![queue_cur] = l]
  /\ pc' = "skipped"
  /\ UNCHANGED <<queue_cur, queued_paths, trim_done, was_fuzzed, favored, measures, scores,
                 counters, stop_soon>>

(* common_fuzz_stuff and the queue half of save_if_interesting: a mutated  *)
(* input with new coverage, or new states, is queued and calibrated.       *)
Save(trace, new_state, l, runs, us) ==
  /\ pc = "fuzz" /\ ~stop_soon /\ queued_paths < MaxEntries
  /\ new_state \/ ~(trace \subseteq seen)
  /\ LET q == queued_paths + 1
     IN  /\ queued_paths' = q
         /\ len' = [len EXCEPT ![q] = l]
         /\ Calibrate(q, trace, runs, us, l)
  /\ pending_not_fuzzed' = pending_not_fuzzed + 1
  /\ UNCHANGED <<pc, queue_cur, trim_done, was_fuzzed, favored, queued_favored, pending_favored,
                 stop_soon>>

(* The stages end, or are cut short by a signal.                           *)
StagesEnd ==
  /\ pc = "fuzz"
  /\ pc' = "fuzzed"
  /\ UNCHANGED <<queue_cur, queued_paths, len, trim_done, was_fuzzed, favored, measures, scores,
                 counters, stop_soon>>

(* abandon_entry, reached with the stages behind it or from one of the     *)
(* gotos that skip them, then back to main.                                *)
DoneAlways == TRUE               \* a fault: neither a signal nor a failed calibration counts
CountsAsFuzzed ==
  ~stop_soon /\ cal_failed[queue_cur] = 0 /\ ~was_fuzzed[queue_cur]

Abandon ==
  /\ pc \in {"skipped", "fuzzed"}
  /\ IF CountsAsFuzzed
     THEN /\ was_fuzzed' = [was_fuzzed EXCEPT ![queue_cur] = TRUE]
          /\ pending_not_fuzzed' = pending_not_fuzzed - 1
          /\ pending_favored' = pending_favored - (IF favored[queue_cur] THEN 1 ELSE 0)
     ELSE UNCHANGED <<was_fuzzed, pending_not_fuzzed, pending_favored>>
  /\ IF stop_soon THEN pc' = "stopped" /\ UNCHANGED queue_cur
                  ELSE pc' = "main" /\ Advance
  /\ UNCHANGED <<queued_paths, len, trim_done, favored, measures, scores, queued_favored, stop_soon>>

(* handle_stop_sig *)
Interrupt ==
  /\ ~stop_soon /\ pc # "dry_run"
  /\ stop_soon' = TRUE
  /\ pc' = IF pc = "main" THEN "stopped" ELSE pc
  /\ UNCHANGED <<queue_cur, queued_paths, len, trim_done, was_fuzzed, favored, measures, scores,
                 counters>>

DryRuns == \E runs \in Calibrations, us \in Times : Len(runs) = CalRuns /\ DryRun(runs, us)
GivenUpSeeds == \E runs \in Calibrations : GiveUpSeed(runs)
Recalibrations == \E runs \in Calibrations, us \in Times, new_counts \in BOOLEAN :
                    Recalibrate(runs, us, new_counts)
Trims == \E l \in Lens : Trim(l) \/ AbortTrim(l)
Saves == \E trace \in Traces, new_state \in BOOLEAN, l \in Lens, runs \in Calibrations,
            us \in Times : Save(trace, new_state, l, runs, us)

(* What main and fuzz_one do, the saving of finds aside.                   *)
Step ==
  \/ DryRuns \/ GivenUpSeeds \/ NextEntry \/ Skip \/ Enter \/ Recalibrations
  \/ TrimNothing \/ Trims \/ StagesEnd \/ Abandon

Next == Step \/ Saves \/ Interrupt

Spec == Init /\ [][Next]_vars

(* The loop keeps going, and its stages end.  No fairness is assumed of    *)
(* the dice that choose between Skip and Enter.                            *)
FairSpec == Spec /\ WF_vars(Step) /\ WF_vars(StagesEnd)

-----------------------------------------------------------------------------
(* Properties. *)

(* The queue is as long as its counter says, positions and winners are     *)
(* entries of it, and no counter leaves its range.                         *)
PlaceTypes ==
  /\ pc \in {"dry_run", "main", "fuzz_one", "calibrate", "trim", "fuzz", "skipped", "fuzzed",
             "stopped"}
  /\ queued_paths \in Entries /\ queue_cur \in Queued \cup {NoEntry}
FlagTypes ==
  /\ trim_done \in [Entries -> BOOLEAN] /\ was_fuzzed \in [Entries -> BOOLEAN]
  /\ favored \in [Entries -> BOOLEAN] /\ score_changed \in BOOLEAN /\ stop_soon \in BOOLEAN
FieldTypes ==
  /\ len \in [Entries -> Lens \cup {0}] /\ exec_us \in [Entries -> Times \cup {0}]
  /\ cal_failed \in [Entries -> 0..CalChances] /\ exec_cksum \in [Entries -> SUBSET Bytes]
ScoreTypes ==
  /\ trace_mini \in [Entries -> SUBSET Bytes] /\ tc_ref \in [Entries -> 0..MapSize]
  /\ top_rated \in [Bytes -> Queued \cup {NoEntry}] /\ seen \subseteq Bytes
CounterTypes ==
  /\ queued_favored \in 0..MapSize /\ pending_favored \in 0..queued_favored
  /\ pending_not_fuzzed \in 0..queued_paths
TypeOK == PlaceTypes /\ FlagTypes /\ FieldTypes /\ ScoreTypes /\ CounterTypes

(* update_bitmap_score keeps the reference count of every entry equal to   *)
(* the bytes it owns, and a trace_mini exactly for the entries that own    *)
(* some: cull_queue reads trace_mini of every winner without a check.      *)
RefCounts ==
  \A p \in Entries : /\ tc_ref[p] = Cardinality(Owned(p))
                     /\ tc_ref[p] > 0 <=> trace_mini[p] # None

(* Only a calibrated entry wins a byte: calculate_score, trim_case and the *)
(* factors of later contenders use its exec_us and exec_cksum.             *)
WinnersCalibrated ==
  \A i \in Bytes : top_rated[i] # NoEntry =>
    /\ cal_failed[top_rated[i]] = 0 /\ exec_us[top_rated[i]] \in Times
    /\ exec_cksum[top_rated[i]] # None

(* A byte's winner is never replaced by a slower or larger one, nor lost,  *)
(* whatever is calibrated, trimmed or recalibrated.                        *)
WinnerFav(i) == Fav(top_rated[i])
WinnersOnlyImprove ==
  [][\A i \in Bytes : top_rated[i] # NoEntry =>
       top_rated'[i] # NoEntry /\ WinnerFav(i)' <= WinnerFav(i)]_vars

(* Between two culls that nothing was scored after, the favored entries    *)
(* cover every byte that has a winner.                                     *)
FavoredCover ==
  ~score_changed =>
    \A i \in Bytes : top_rated[i] # NoEntry =>
      \E p \in Queued : favored[p] /\ (i \in trace_mini[p] \/ top_rated[i] = p)

(* The counters of the status screen, of the skipping in fuzz_one and of   *)
(* AFL_EXIT_WHEN_DONE are exact.  cull_queue counts winners, not entries:  *)
(* what makes pending_favored right is that an entry that is not fuzzed    *)
(* yet was scored once at most, so that its trace_mini has all it owns.    *)
PendingFavored == {p \in Queued : favored[p] /\ ~was_fuzzed[p]}
Counters ==
  /\ pending_not_fuzzed = Cardinality({p \in Queued : ~was_fuzzed[p]})
  /\ pending_favored = Cardinality(PendingFavored)
  /\ queued_favored >= Cardinality({p \in Queued : favored[p]})

(* A favored entry that has not been fuzzed is entered, or loses its place *)
(* among the favored, unless the fuzzer is stopped: the dice that skip     *)
(* others for its sake cannot skip it.                                     *)
FavoredGetTheirTurn ==
  \A p \in Entries : (favored[p] /\ ~was_fuzzed[p]) ~> (was_fuzzed[p] \/ ~favored[p] \/ stop_soon)

(* Violated: queue_entry says of was_fuzzed "Had any fuzzing done yet?",   *)
(* but an entry whose second calibration succeeds without new bits is      *)
(* marked without a stage having run on it.                                *)
MarkedOnlyWhenFuzzed ==
  [][\A p \in Entries : was_fuzzed'[p] /\ ~was_fuzzed[p] => pc = "fuzzed"]_vars
=============================================================================
