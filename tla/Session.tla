------------------------------ MODULE Session -------------------------------
(***************************************************************************)
(* The sessions of one output directory as afl-fuzz.c's main runs them:    *)
(* the timeouts they settle on, the position in the queue they resume at,  *)
(* the file fuzzer_stats that hands both on, the crashes and hangs that    *)
(* are set aside, AFL_EXIT_WHEN_DONE and AFL_BENCH_UNTIL_CRASH.  A session *)
(* is stopped by ^C at any time, or killed at any time, between the        *)
(* truncation of fuzzer_stats and its writing among others.  OutDir has    *)
(* the queue's files; here they matter by the cases that are lost.         *)
(***************************************************************************)
EXTENDS Naturals, FiniteSets

CONSTANTS
  MaxPaths,       \* bound on the queue
  Timings,        \* what the dry run may measure: [avg, max], in microseconds
  CommandLines,   \* the options a session may be given, see opts
  Seconds,        \* what localtime may say
  Patience,       \* 100 in the code: cycles without finds
  MaxCycles,      \* bound on the cycles
  MaxSessions     \* bound on the sessions

VARIABLES
  at,             \* where main stands
  opts,           \* dumb_mode, done: AFL_EXIT_WHEN_DONE, bench: AFL_BENCH_UNTIL_CRASH,
                  \* t: -t in ms, 5 or more, or 0
  resuming,       \* resuming_fuzz
  stats,          \* fuzzer_stats: [file, cur_path, exec_timeout]
  exec_tmout, timeout_given, hang_tmout, havoc_div,
  paths,          \* queued_paths
  pending,        \* the entries counted in pending_not_fuzzed
  failing,        \* the entries whose calibration fails
  lost,           \* the entries whose file is gone or empty: killed in trim_case
  current_entry, seek_to, prev_queued, cycles_wo_finds, use_splicing, stop_soon,
  dirs,           \* crashes and hangs: [files, readme, backup]
  sessions, cycles,          \* counted for the bounds
  timing,         \* how slow the program is
  origin, settled,           \* history: where exec_tmout comes from, what was written of it,
  quiet, found,              \* the full cycles since the last find, a find in this one,
  kept, clash                \* the sessions that left files, two resumes in one second

timeouts == <<exec_tmout, timeout_given, hang_tmout, havoc_div>>
position == <<current_entry, seek_to, prev_queued, cycles_wo_finds, use_splicing>>
work     == <<paths, pending, failing, lost>>
history  == <<timing, origin, settled, quiet, found, kept, clash>>
sessionVars == <<at, opts, resuming, stats, timeouts, work, position, stop_soon, dirs, sessions, cycles, history>>

EXEC_TIMEOUT == 1000
EXEC_TM_ROUND == 20
AtLeast(x, y) == IF x > y THEN x ELSE y
AtMost(x, y) == IF x < y THEN x ELSE y

NoOptions == [dumb_mode |-> FALSE, done |-> FALSE, bench |-> FALSE, t |-> 0]
Kinds == {"crashes", "hangs"}
Aside(d) == UNION {d.backup[s] : s \in Seconds}
NoStats == [file |-> "none", cur_path |-> 0, exec_timeout |-> 0]

SessionInit ==
  /\ at = "down" /\ resuming = FALSE /\ opts = NoOptions
  /\ stats = NoStats
  /\ exec_tmout = EXEC_TIMEOUT /\ timeout_given = 0 /\ hang_tmout = EXEC_TIMEOUT /\ havoc_div = 1
  /\ paths = 0 /\ pending = {} /\ failing = {} /\ lost = {}
  /\ current_entry = 0 /\ seek_to = 0 /\ prev_queued = 0 /\ cycles_wo_finds = 0 /\ use_splicing = FALSE
  /\ stop_soon = 0
  /\ dirs = [k \in Kinds |-> [files |-> {}, readme |-> FALSE, backup |-> [s \in Seconds |-> {}]]]
  /\ sessions = 0 /\ cycles = 0
  /\ timing \in Timings /\ origin = "none" /\ settled = [tmout |-> 0, origin |-> "none"]
  /\ quiet = 0 /\ found = FALSE /\ kept = [k \in Kinds |-> {}] /\ clash = FALSE

-----------------------------------------------------------------------------
(* The directory is taken over.  A stats file without its first two lines  *)
(* is an error, whatever the session is to do.                             *)
Reads == stats.file # "empty"

Takes(o) ==
  /\ at = "down" /\ sessions < MaxSessions /\ Reads
  /\ opts' = o /\ sessions' = sessions + 1
  /\ exec_tmout' = (IF o.t > 0 THEN o.t ELSE EXEC_TIMEOUT) /\ timeout_given' = (IF o.t > 0 THEN 1 ELSE 0)
  /\ hang_tmout' = EXEC_TIMEOUT /\ havoc_div' = 1
  /\ origin' = (IF o.t > 0 THEN "given" ELSE "none")
  /\ UNCHANGED <<position, stop_soon, cycles, timing, quiet, found>>

Start ==
  /\ \E o \in CommandLines : Takes(o)
  /\ resuming' = FALSE
  /\ at' = "dry_run" /\ stats' = NoStats /\ settled' = [tmout |-> 0, origin |-> "none"]
  /\ paths' \in 1 .. MaxPaths /\ pending' = 1 .. paths' /\ failing' \in {{}, {1}} /\ lost' = {}
  /\ dirs' = [k \in Kinds |-> [dirs[k] EXCEPT !.files = {}, !.readme = FALSE]]
  /\ kept' = [k \in Kinds |-> Aside(dirs[k])] /\ UNCHANGED clash

(* The crashes, and the hangs, go to a directory named after the second.   *)
(* rename fails, silently, when that one is there and holds something: the *)
(* files are deleted then, and what is left of crashes is an error.        *)
SetAside(d, s) ==
  IF d.files = {} /\ ~d.readme THEN d
  ELSE IF d.backup[s] = {} THEN [d EXCEPT !.files = {}, !.readme = FALSE, !.backup[s] = d.files \cup (IF d.readme THEN {0} ELSE {})]
  ELSE [d EXCEPT !.files = {}]

Resume ==
  /\ \E o \in CommandLines : Takes(o)
  /\ paths > 0 /\ resuming' = FALSE
  /\ \E s \in Seconds :
       /\ dirs' = [k \in Kinds |-> SetAside(dirs[k], s)]
       /\ clash' = (clash \/ \E k \in Kinds : dirs[k].backup[s] # {})
  /\ at' = IF \E k \in Kinds : dirs'[k].readme THEN "down" ELSE "pivot_inputs"
  /\ UNCHANGED <<stats, work, settled, kept>>

(* read_testcases leaves out the cases that are lost, and those after them *)
(* move up.  One recorded number that fits its place makes the session a   *)
(* resumed one: none does when the first case is lost.  With no case left  *)
(* it is an error: the process is gone, as in Kill.                        *)
pivot_inputs ==
  /\ at = "pivot_inputs" /\ at' = "find_timeout" /\ lost # 1 .. paths
  /\ resuming' = (1 \notin lost)
  /\ paths' = paths - Cardinality(lost) /\ lost' = {}
  /\ pending' = 1 .. paths' /\ failing' = failing \ lost
  /\ UNCHANGED <<opts, stats, timeouts, position, stop_soon, dirs, sessions, cycles, history>>

TimeoutRecorded == timeout_given = 0 /\ resuming /\ stats.file = "full" /\ stats.exec_timeout > 4

(* A fault: the timeout read back is scaled again.                         *)
FindsButScales ==
  /\ at = "find_timeout" /\ at' = "dry_run"
  /\ IF TimeoutRecorded
     THEN exec_tmout' = stats.exec_timeout /\ origin' = settled.origin
     ELSE UNCHANGED <<exec_tmout, origin>>
  /\ UNCHANGED <<opts, resuming, stats, timeout_given, hang_tmout, havoc_div, work, position, stop_soon, dirs,
                 sessions, cycles, timing, settled, quiet, found, kept, clash>>

find_timeout ==
  /\ at = "find_timeout" /\ at' = "dry_run"
  /\ IF TimeoutRecorded
     THEN exec_tmout' = stats.exec_timeout /\ timeout_given' = 3 /\ origin' = settled.origin
     ELSE UNCHANGED <<exec_tmout, timeout_given, origin>>
  /\ UNCHANGED <<opts, resuming, stats, hang_tmout, havoc_div, work, position, stop_soon, dirs, sessions, cycles,
                 timing, settled, quiet, found, kept, clash>>

-----------------------------------------------------------------------------
(* show_init_stats, after the dry run.                                     *)
Scaled(m) ==
  LET times  == IF m.avg > 50000 THEN 2 ELSE IF m.avg > 10000 THEN 3 ELSE 5
      wanted == (m.avg * times) \div 1000
      enough == AtLeast(wanted, m.max \div 1000)
  IN  AtMost(EXEC_TIMEOUT, ((enough + EXEC_TM_ROUND) \div EXEC_TM_ROUND) * EXEC_TM_ROUND)

show_init_stats(m) ==
  /\ havoc_div' = IF m.avg > 50000 THEN 10 ELSE IF m.avg > 20000 THEN 5 ELSE IF m.avg > 10000 THEN 2 ELSE havoc_div
  /\ exec_tmout' = IF timeout_given = 0 THEN Scaled(m) ELSE exec_tmout
  /\ timeout_given' = IF timeout_given = 0 THEN 1 ELSE timeout_given
  /\ hang_tmout' = IF opts.dumb_mode THEN AtMost(EXEC_TIMEOUT, exec_tmout' * 2 + 100) ELSE hang_tmout

find_start_position ==
  IF resuming /\ stats.file = "full" /\ stats.cur_path < paths THEN stats.cur_path ELSE 0

(* A ^C ends the dry run early, maybe before anything was measured.        *)
Unmeasured == [avg |-> 0, max |-> 0]

DryRun ==
  /\ at = "dry_run" /\ at' = "write_first"
  /\ \E m \in {timing} \cup (IF stop_soon > 0 THEN {Unmeasured} ELSE {}) :
       /\ show_init_stats(m)
       /\ origin' = IF timeout_given > 0 THEN origin ELSE IF m = timing THEN "scaled" ELSE "cut"
  /\ seek_to' = find_start_position
  /\ UNCHANGED <<opts, resuming, stats, work, current_entry, prev_queued, cycles_wo_finds, use_splicing,
                 stop_soon, dirs, sessions, cycles, timing, settled, quiet, found, kept, clash>>

(* The process is gone, and what it had in memory with it.                 *)
Ends ==
  /\ at' = "down" /\ stop_soon' = 0 /\ opts' = NoOptions
  /\ current_entry' = 0 /\ seek_to' = 0 /\ prev_queued' = 0 /\ cycles_wo_finds' = 0 /\ use_splicing' = FALSE
  /\ exec_tmout' = EXEC_TIMEOUT /\ timeout_given' = 0 /\ hang_tmout' = EXEC_TIMEOUT /\ havoc_div' = 1
  /\ pending' = {} /\ quiet' = 0 /\ found' = FALSE /\ origin' = "none"

(* write_stats_file: the file is truncated, and then written.              *)
OpenStats ==
  /\ at \in {"write_first", "write_minute", "write_last"} /\ stats.file # "empty"
  /\ stats' = [NoStats EXCEPT !.file = "empty"]
  /\ UNCHANGED <<at, opts, resuming, timeouts, work, position, stop_soon, dirs, sessions, cycles, history>>

WriteStats ==
  /\ at \in {"write_first", "write_minute", "write_last"} /\ stats.file = "empty"
  /\ stats' = [file |-> "full", cur_path |-> current_entry, exec_timeout |-> exec_tmout]
  /\ settled' = [tmout |-> exec_tmout, origin |-> origin]
  /\ IF at = "write_last" \/ (at = "write_first" /\ stop_soon > 0)
     THEN Ends
     ELSE /\ at' = IF at = "write_first" THEN "cycle" ELSE "fuzz"
          /\ UNCHANGED <<opts, timeouts, pending, position, stop_soon, origin, quiet, found>>
  /\ UNCHANGED <<resuming, paths, failing, lost, dirs, sessions, cycles, timing, kept, clash>>

-----------------------------------------------------------------------------
(* The main loop.  The screen, which is where the two variables of the     *)
(* environment are looked at, comes first, and only when it is time for    *)
(* it.  The first crash of a session is always kept.                       *)
UntilCrash == opts.bench /\ dirs["crashes"].files # {}
ExitWhenDone == opts.done /\ ~opts.dumb_mode /\ cycles_wo_finds > Patience /\ pending = {}

QueueCycle ==
  /\ at = "cycle" /\ at' = "fuzz" /\ cycles < MaxCycles /\ cycles' = cycles + 1
  /\ current_entry' = seek_to /\ seek_to' = 0
  /\ stop_soon' \in {stop_soon} \cup (IF ExitWhenDone \/ UntilCrash THEN {2} ELSE {})
  /\ IF paths = prev_queued
     THEN IF use_splicing THEN cycles_wo_finds' = cycles_wo_finds + 1 /\ UNCHANGED use_splicing
                          ELSE use_splicing' = TRUE /\ UNCHANGED cycles_wo_finds
     ELSE cycles_wo_finds' = 0 /\ UNCHANGED use_splicing
  /\ prev_queued' = paths
  /\ quiet' = (IF prev_queued = 0 \/ found THEN 0 ELSE quiet + 1) /\ found' = FALSE
  /\ UNCHANGED <<opts, resuming, stats, timeouts, work, dirs, sessions, timing, origin, settled, kept, clash>>

(* Inside fuzz_one: a find (add_to_queue), a crash or a hang kept, the     *)
(* screen.                                                                 *)
Find ==
  /\ at = "fuzz" /\ stop_soon = 0 /\ paths < MaxPaths
  /\ paths' = paths + 1 /\ pending' = pending \cup {paths + 1}
  /\ cycles_wo_finds' = 0 /\ quiet' = 0 /\ found' = TRUE
  /\ UNCHANGED <<at, opts, resuming, stats, timeouts, failing, lost, current_entry, seek_to, prev_queued,
                 use_splicing, stop_soon, dirs, sessions, cycles, timing, origin, settled, kept, clash>>

KeepFile(k) ==
  /\ at = "fuzz" /\ dirs[k].files = {}
  /\ dirs' = [dirs EXCEPT ![k].files = {sessions}, ![k].readme = (k = "crashes")]
  /\ kept' = [kept EXCEPT ![k] = @ \cup {sessions}]
  /\ UNCHANGED <<at, opts, resuming, stats, timeouts, work, position, stop_soon, sessions, cycles,
                 timing, origin, settled, quiet, found, clash>>

show_stats ==
  /\ at = "fuzz"
  /\ stop_soon' = IF ExitWhenDone \/ UntilCrash THEN 2 ELSE stop_soon
  /\ \/ at' = "write_minute"
     \/ at' = at /\ stop_soon' # stop_soon
  /\ UNCHANGED <<opts, resuming, stats, timeouts, work, position, dirs, sessions, cycles, history>>

(* fuzz_one returns; an entry passed over stays as it was.                 *)
NextEntry ==
  /\ at = "fuzz"
  /\ pending' \in {pending, IF stop_soon = 0 /\ current_entry + 1 \notin failing
                            THEN pending \ {current_entry + 1} ELSE pending}
  /\ IF stop_soon > 0 THEN at' = "write_last" /\ UNCHANGED current_entry
     ELSE /\ current_entry' = current_entry + 1
          /\ at' = IF current_entry + 1 = paths THEN "cycle" ELSE "fuzz"
  /\ UNCHANGED <<opts, resuming, stats, timeouts, paths, failing, lost, seek_to, prev_queued, cycles_wo_finds, use_splicing,
                 stop_soon, dirs, sessions, cycles, history>>

-----------------------------------------------------------------------------
Interrupt ==
  /\ at # "down" /\ stop_soon = 0 /\ stop_soon' = 1
  /\ UNCHANGED <<at, opts, resuming, stats, timeouts, work, position, dirs, sessions, cycles, history>>

(* Killed between the unlink and the writing in trim_case, which is done   *)
(* once for an entry, the process leaves no file of it.                    *)
Trimmed == IF at = "fuzz" /\ ~opts.dumb_mode THEN (pending \ failing) \cap {current_entry + 1} ELSE {}

Kill ==
  /\ at # "down" /\ Ends
  /\ lost' \in {lost, lost \cup Trimmed}
  /\ UNCHANGED <<resuming, stats, paths, failing, dirs, sessions, cycles, timing, settled, kept, clash>>

SessionNext ==
  \/ Start \/ Resume \/ pivot_inputs \/ find_timeout \/ DryRun \/ OpenStats \/ WriteStats
  \/ QueueCycle \/ Find \/ (\E k \in Kinds : KeepFile(k)) \/ show_stats \/ NextEntry
  \/ Interrupt \/ Kill

SessionSpec == SessionInit /\ [][SessionNext]_sessionVars

-----------------------------------------------------------------------------
SessionTypeOK ==
  /\ at \in {"down", "pivot_inputs", "find_timeout", "dry_run", "write_first", "write_minute", "write_last", "cycle", "fuzz"}
  /\ stats.file \in {"none", "empty", "full"} /\ paths \in 0 .. MaxPaths
  /\ pending \cup lost \subseteq 1 .. paths /\ timeout_given \in {0, 1, 3} /\ stop_soon \in 0 .. 2

Running == at \in {"write_first", "write_minute", "write_last", "cycle", "fuzz"}

(* "When resuming sessions without -t given, we don't want to keep         *)
(* auto-scaling the timeout over and over again": a session that is taken  *)
(* for a resumed one uses the timeout the last one wrote down, whatever    *)
(* happened in between (one whose first case was lost is not taken for     *)
(* one, and scales it anew), and a timeout that was scaled leaves the      *)
(* slowest case its time, unless a ^C cut the dry run short: then 20 ms    *)
(* are written down and kept.                                              *)
TimeoutIsKept ==
  /\ Running /\ resuming /\ opts.t = 0 /\ stats.file = "full" => exec_tmout = settled.tmout
  /\ Running /\ origin = "scaled" => 1000 * exec_tmout > timing.max \/ exec_tmout = EXEC_TIMEOUT

(* The walk to the entry to resume at stays in the queue, and so does the  *)
(* entry being fuzzed.                                                     *)
PositionInQueue == (Running => seek_to < paths) /\ (at = "fuzz" => current_entry < paths)

(* The count of cycles without finds is never ahead of the full cycles     *)
(* since the last find, and a session that stops by itself was to stop at  *)
(* a crash and has one, or was to stop when it is done and is: more than   *)
(* Patience cycles found nothing, and every entry was fuzzed (one that     *)
(* cannot be calibrated is enough to keep it from ever stopping).          *)
DoneIsDone ==
  /\ cycles_wo_finds <= quiet
  /\ stop_soon = 2 =>
       \/ opts.bench /\ dirs["crashes"].files # {}
       \/ opts.done /\ quiet > Patience /\ pending = {} /\ failing = {}

(* The crashes and hangs of every session are still there, under their own *)
(* name or in a directory named after the time of a resume, unless two     *)
(* resumes read the same local time.                                       *)
NothingOverwritten ==
  clash \/ \A k \in Kinds : kept[k] \subseteq dirs[k].files \cup Aside(dirs[k])

SessionSound == TimeoutIsKept /\ PositionInQueue /\ DoneIsDone /\ NothingOverwritten
=============================================================================
