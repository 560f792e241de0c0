------------------------------ MODULE MCParts -------------------------------
(***************************************************************************)
(* The parts of the toolchain that do not run together are checked         *)
(* together: each behaviour is one of the part named by "part", and the    *)
(* variables of the others are idle.                                       *)
(***************************************************************************)
EXTENDS AutoDict, ToolCases, ShapeCases

CONSTANTS
  \* Triage
  MapBytes, Hits, KeepUniqueHang, KeepUniqueCrash, MaxTotal,
  \* Session
  MaxPaths, Timings, SessionOptions, Seconds, Patience, MaxCycles, MaxSessions,
  \* Tmin
  Files, Plain, Symbols, Targets, TminOptions, Runs(_, _), TraceBytes, TrimStartSteps, TminSetSteps, TminSetMinSize,
  \* Analyze
  Documents, AnalyzePrograms, Answers(_, _), Limit, Delta, Apart, MaxAutoExtra,
  \* Cmin
  Corpora, Leftovers, CminRuns,
  \* CommandLine
  CommandLines, Environments, DefaultMem, QemuMem, DefaultTmout,
  \* CallGraph
  Servers, StackFiles,
  \* StateVars
  Analyzed, FirstMealy,
  \* Compile
  Builds

(* afl-fuzz refuses a -t below 5, and times are not negative.              *)
ASSUME PartsAssumption ==
  /\ {KeepUniqueHang, KeepUniqueCrash, MaxTotal, MaxPaths, Patience, MaxCycles, MaxSessions} \subseteq Nat
  /\ \A o \in SessionOptions : o.t = 0 \/ (o.t \in Nat /\ o.t >= 5)
  /\ \A m \in Timings : m.avg \in Nat /\ m.max \in Nat

(* Files are sequences of bytes; a byte has an even number of values, and  *)
(* the change that afl-analyze makes to it is one.                         *)
ASSUME ToolsAssumption ==
  /\ Files \subseteq Seq(Nat) /\ Plain \in Nat
  /\ {TrimStartSteps, TminSetSteps, TminSetMinSize} \subseteq Nat \ {0}
  /\ Limit \in Nat \ {0} /\ Limit % 2 = 0 /\ Delta \in 1 .. Limit - 1
  /\ \A d \in Documents : d \in Seq(0 .. Limit - 1) \ {<<>>}

Indices == 0 .. 65535         \* of the trace map
ASSUME CminAssumption ==
  /\ CminRuns \in Nat
  /\ \A c \in Corpora : c \in Seq({c[i] : i \in DOMAIN c})
  /\ \A c \in Corpora : \A i \in DOMAIN c :
       /\ c[i].size \in Nat /\ DOMAIN c[i].trace \subseteq Indices
       /\ \A b \in DOMAIN c[i].trace : c[i].trace[b] \in Nat

(* An argument is an option letter and its value; the four tools share     *)
(* nothing but the way they are read.  The values of -m and -t are read as *)
(* numbers, and the limits of config.h are ones that could be given.       *)
ASSUME StartAssumption ==
  /\ DefaultMem \in Nat /\ QemuMem \in Nat /\ DefaultMem >= 5 /\ QemuMem >= 5 /\ DefaultTmout \in Nat
  /\ \A c \in CommandLines :
       /\ c.tool \in {"afl-fuzz", "afl-tmin", "afl-analyze", "afl-showmap"}
       /\ c.args \in Seq({c.args[i] : i \in DOMAIN c.args})
       /\ \A i \in DOMAIN c.args : c.args[i].o \in {"m", "t"} => c.args[i].v.n \in Int

(* A module has no two functions of one name (the linker tells them apart).*)
ASSUME ServersAssumption ==
  /\ \A p \in Servers : \A i, j \in DOMAIN p.functions : p.functions[i].name = p.functions[j].name => i = j
  /\ \A p \in Servers : p.functions \in Seq({p.functions[i] : i \in DOMAIN p.functions})
  /\ \A l \in StackFiles : l \in Seq(STRING)

(* A program has a function, or the pass is never called.                  *)
ASSUME AnalyzedAssumption ==
  /\ FirstMealy \in Nat
  /\ \A p \in Analyzed : p.functions \in Seq({p.functions[i] : i \in DOMAIN p.functions}) /\ p.functions # <<>>

(* An argument has the class the code takes it for: one it does not look   *)
(* for is not named like one the wrapper adds, and a directory after -B is *)
(* a directory, whatever it is called.                                     *)
ASSUME BuildsAssumption ==
  \A b \in Builds :
    /\ b.places \subseteq {"AFL_PATH", "argv0", "built-in"}
    /\ b.args \in Seq(STRING) /\ b.file \in Seq(STRING) /\ b.ratio \in Nat
    /\ \A i \in DOMAIN b.args :
         /\ b.args[i] \notin {"-U_FORTIFY_SOURCE", "-fstack-protector-all"}
         /\ i > 1 /\ b.args[i - 1] = "-B" => b.args[i] \notin {"-fsanitize=address", "-fsanitize=memory"}

VARIABLES
  part,
  \* Triage
  settings, virgin_tmout, virgin_crash, total_tmouts, unique_tmouts, unique_hangs, total_crashes, unique_crashes, hangs, crashes,
  \* Session
  at, given, resuming, stats, exec_tmout, timeout_given, hang_tmout, havoc_div, paths, pending, failing, lost, current_entry, seek_to,
  prev_queued, cycles_wo_finds, use_splicing, stop_soon, dirs, sessions, cycles, timing, origin, settled, quiet, found, kept, clash,
  \* Tmin
  tpc, target, opts, file, in_data, tmp_buf, crash_mode, orig_cksum, pos, len, prev_del, changed_any, cur_pass, out_data,
  \* Analyze
  apc, program, document, buf, byte, change, orig, sums, prev_sums, seq_byte, b_data, report,
  \* Cmin
  cpc, corpus, flags, out_dir, traces, best_file, all_uniq, already_have, starts,
  \* CommandLine
  cl, env, stage_of_start, rest, s, binary,
  \* CallGraph
  cg, lines, option, cgstep, entry, skip, levels, queue, level, filelist,
  \* StateVars
  prog, ranges, step, fn, candidates, info, saved, switches, loop, ir,
  \* Compile
  build, bstep, unread, cc_params, as, scan, asm, payload

dict == autoDictVars
triage == <<settings, virgin_tmout, virgin_crash, total_tmouts, unique_tmouts, unique_hangs, total_crashes, unique_crashes, hangs, crashes>>
session == <<at, given, resuming, stats, exec_tmout, timeout_given, hang_tmout, havoc_div, paths, pending, failing, lost, current_entry,
             seek_to, prev_queued, cycles_wo_finds, use_splicing, stop_soon, dirs, sessions, cycles, timing, origin, settled,
             quiet, found, kept, clash>>
tmin == <<tpc, target, opts, file, in_data, tmp_buf, crash_mode, orig_cksum, pos, len, prev_del, changed_any, cur_pass, out_data>>
analyze == <<apc, program, document, buf, byte, change, orig, sums, prev_sums, seq_byte, b_data, report>>
cmin == <<cpc, corpus, flags, out_dir, traces, best_file, all_uniq, already_have, starts>>
start == <<cl, env, stage_of_start, rest, s, binary>>
graph == <<cg, lines, option, cgstep, entry, skip, levels, queue, level, filelist>>
statevars == <<prog, ranges, step, fn, candidates, info, saved, switches, loop, ir>>
compile == <<build, bstep, unread, cc_params, as, scan, asm, payload>>

Tr == INSTANCE Triage
Se == INSTANCE Session WITH opts <- given, CommandLines <- SessionOptions
Tm == INSTANCE Tmin
An == INSTANCE Analyze WITH Programs <- AnalyzePrograms
Cm == INSTANCE Cmin
St == INSTANCE CommandLine
CG == INSTANCE CallGraph WITH CGPrograms <- Servers, Levels <- {1, 3, 5}
SV == INSTANCE StateVars WITH Programs <- Analyzed, Complex <- 3, MinBlocks <- 2
Co == INSTANCE Compile

-----------------------------------------------------------------------------
(* A session with the dumb mode and a timeout of its own that is to end at *)
(* a crash, and one that is to end when it is done.                        *)
MCSessionOptions ==
  {[dumb_mode |-> TRUE, done |-> FALSE, bench |-> TRUE, t |-> 5],
   [dumb_mode |-> FALSE, done |-> TRUE, bench |-> FALSE, t |-> 0]}
MCTimings == {[avg |-> 12000, max |-> 40000]}

(* The dictionary: a token that differs from another by its case, one that *)
(* repeats a byte, one of the interesting values; a file of tokens with a  *)
(* line that is not one, and one that cannot be read.                      *)
MCTokens == {<<1, 2>>, <<1, 3>>, <<4, 5, 6>>, <<7, 8>>, <<8, 9>>, <<9, 1>>, <<1, 1>>}
MCLower == [b \in 0 .. 15 |-> IF b = 2 THEN 3 ELSE b]
MCDictLine(kind, lvl, data) == [kind |-> kind, level |-> lvl, data |-> data]
MCUserDicts ==
  {[level |-> 0, lines |-> <<MCDictLine("token", 0, <<4, 5, 6>>), MCDictLine("blank", 0, <<>>),
                             MCDictLine("token", 0, <<9, 1>>), MCDictLine("malformed", 1, <<6>>)>>],
   [level |-> 0, lines |-> <<MCDictLine("malformed", 0, <<>>)>>]}
MC16 == {<<9, 9>>}
MC32 == {}

-----------------------------------------------------------------------------
NoDict ==
  /\ dphase = "off" /\ dfiles = <<>> /\ dold = NoDir /\ dnext = 0 /\ dsessions = 0
  /\ extras = <<>> /\ a_extras = <<>> /\ auto_changed = FALSE
NoTriage ==
  /\ settings = 0 /\ virgin_tmout = 0 /\ virgin_crash = 0 /\ total_tmouts = 0 /\ unique_tmouts = 0 /\ unique_hangs = 0
  /\ total_crashes = 0 /\ unique_crashes = 0 /\ hangs = 0 /\ crashes = 0
NoSession ==
  /\ at = 0 /\ given = 0 /\ resuming = 0 /\ stats = 0 /\ exec_tmout = 0 /\ timeout_given = 0 /\ hang_tmout = 0 /\ havoc_div = 0
  /\ paths = 0 /\ pending = 0 /\ failing = 0 /\ lost = 0 /\ current_entry = 0 /\ seek_to = 0 /\ prev_queued = 0 /\ cycles_wo_finds = 0
  /\ use_splicing = 0 /\ stop_soon = 0 /\ dirs = 0 /\ sessions = 0 /\ cycles = 0 /\ timing = 0 /\ origin = 0 /\ settled = 0
  /\ quiet = 0 /\ found = 0 /\ kept = 0 /\ clash = 0
NoTmin ==
  /\ tpc = 0 /\ target = 0 /\ opts = 0 /\ file = 0 /\ in_data = 0 /\ tmp_buf = 0 /\ crash_mode = 0 /\ orig_cksum = 0 /\ pos = 0
  /\ len = 0 /\ prev_del = 0 /\ changed_any = 0 /\ cur_pass = 0 /\ out_data = 0
NoAnalyze ==
  /\ apc = 0 /\ program = 0 /\ document = 0 /\ buf = 0 /\ byte = 0 /\ change = 0 /\ orig = 0 /\ sums = 0 /\ prev_sums = 0
  /\ seq_byte = 0 /\ b_data = 0 /\ report = 0
NoCmin ==
  /\ cpc = 0 /\ corpus = 0 /\ flags = 0 /\ out_dir = 0 /\ traces = 0 /\ best_file = 0 /\ all_uniq = 0 /\ already_have = 0 /\ starts = 0
NoStart == cl = 0 /\ env = 0 /\ stage_of_start = 0 /\ rest = 0 /\ s = 0 /\ binary = 0
NoGraph ==
  /\ cg = 0 /\ lines = 0 /\ option = 0 /\ cgstep = 0 /\ entry = 0 /\ skip = 0 /\ levels = 0 /\ queue = 0 /\ level = 0 /\ filelist = 0
NoCompile ==
  build = 0 /\ bstep = 0 /\ unread = 0 /\ cc_params = 0 /\ as = 0 /\ scan = 0 /\ asm = 0 /\ payload = 0
NoStateVars ==
  /\ prog = 0 /\ ranges = 0 /\ step = 0 /\ fn = 0 /\ candidates = 0 /\ info = 0 /\ saved = 0 /\ switches = 0 /\ loop = 0 /\ ir = 0

PartsInit ==
  /\ part \in {"dictionary", "triage", "session", "tmin", "analyze", "cmin", "start", "callgraph", "statevars", "compile"}
  /\ IF part = "dictionary" THEN DictInit ELSE NoDict
  /\ IF part = "triage" THEN Tr!TriageInit ELSE NoTriage
  /\ IF part = "session" THEN Se!SessionInit ELSE NoSession
  /\ IF part = "tmin" THEN Tm!TminInit ELSE NoTmin
  /\ IF part = "analyze" THEN An!AnalyzeInit ELSE NoAnalyze
  /\ IF part = "cmin" THEN Cm!CminInit ELSE NoCmin
  /\ IF part = "start" THEN St!StartInit ELSE NoStart
  /\ IF part = "callgraph" THEN CG!CallGraphInit ELSE NoGraph
  /\ IF part = "statevars" THEN SV!StateVarsInit ELSE NoStateVars
  /\ IF part = "compile" THEN Co!CompileInit ELSE NoCompile

RunDictionary == part = "dictionary" /\ DictNext /\ UNCHANGED <<part, triage, session, tmin, analyze, cmin, start, graph, statevars, compile>>
RunTriage == part = "triage" /\ Tr!TriageNext /\ UNCHANGED <<part, dict, session, tmin, analyze, cmin, start, graph, statevars, compile>>
RunSession == part = "session" /\ Se!SessionNext /\ UNCHANGED <<part, dict, triage, tmin, analyze, cmin, start, graph, statevars, compile>>
RunTmin == part = "tmin" /\ Tm!TminNext /\ UNCHANGED <<part, dict, triage, session, analyze, cmin, start, graph, statevars, compile>>
RunAnalyze == part = "analyze" /\ An!AnalyzeNext /\ UNCHANGED <<part, dict, triage, session, tmin, cmin, start, graph, statevars, compile>>
RunCmin == part = "cmin" /\ Cm!CminNext /\ UNCHANGED <<part, dict, triage, session, tmin, analyze, start, graph, statevars, compile>>
RunCommandLine == part = "start" /\ St!StartNext /\ UNCHANGED <<part, dict, triage, session, tmin, analyze, cmin, graph, statevars, compile>>
RunCallGraph == part = "callgraph" /\ CG!CallGraphNext /\ UNCHANGED <<part, dict, triage, session, tmin, analyze, cmin, start, statevars, compile>>
RunStateVars == part = "statevars" /\ SV!StateVarsNext /\ UNCHANGED <<part, dict, triage, session, tmin, analyze, cmin, start, graph, compile>>
RunCompile == part = "compile" /\ Co!CompileNext /\ UNCHANGED <<part, dict, triage, session, tmin, analyze, cmin, start, graph, statevars>>

PartsNext ==
  \/ RunDictionary \/ RunTriage \/ RunSession \/ RunTmin \/ RunAnalyze \/ RunCmin \/ RunCommandLine
  \/ RunCallGraph \/ RunStateVars \/ RunCompile

allVars == <<part, dict, triage, session, tmin, analyze, cmin, start, graph, statevars, compile>>
PartsSpec == PartsInit /\ [][PartsNext]_allVars

-----------------------------------------------------------------------------
(* The variables of each part have their types. *)
PartsTypeOK ==
  /\ part = "dictionary" => DictTypeOK
  /\ part = "triage" => Tr!TriageTypeOK
  /\ part = "session" => Se!SessionTypeOK
  /\ part = "tmin" => Tm!TminTypeOK
  /\ part = "analyze" => An!AnalyzeTypeOK
  /\ part = "cmin" => Cm!CminTypeOK
  /\ part = "start" => St!StartTypeOK
  /\ part = "statevars" => SV!StateVarsTypeOK
  /\ part = "compile" => Co!CompileTypeOK

(* What afl-fuzz keeps of its work: every crash and hang on disk was new,  *)
(* and the counts agree with the files (save_if_interesting); a later      *)
(* session finds the timeout, the position, the crashes and the hangs of   *)
(* the one before it (find_timeout, find_start_position, write_stats_file, *)
(* maybe_delete_out_dir).                                                  *)
ResultsSound ==
  /\ part = "triage" => Tr!TriageSound
  /\ part = "session" => Se!SessionSound

(* The test case tools keep their word: afl-tmin's file behaves like the   *)
(* one it was given, and no shorter; afl-analyze judges each byte by the   *)
(* file with that byte alone changed; afl-cmin's corpus covers what the    *)
(* whole corpus did; a command line means the same in any order; the call  *)
(* graph's levels are distances, its files those in reach; and the         *)
(* compiler wrappers and afl-as count each way control can go once.        *)
ToolsSound ==
  /\ part = "tmin" => Tm!StillReproduces /\ Tm!NoByteToSpare /\ Tm!PassesShrink
  /\ part = "analyze" => An!OneByteAtATime /\ An!ReportIsSound
  /\ part = "cmin" => Cm!CorpusIsCovered /\ Cm!SmallestIsKept
  /\ part = "start" => St!OrderDoesNotMatter /\ St!SettingsAgree
  /\ part = "callgraph" => CG!CallGraphSound
  /\ part = "compile" => Co!CompileSound


(* The fuzzer tells the state variables apart by the numbers the second    *)
(* run of the pass hands out, from two counters in seven places: no number *)
(* stands for two variables of a kind (InsertFunction and its callers).    *)
NumberingSound == part = "statevars" => SV!NumbersAreDistinct

(* The automatic dictionary over the sessions: a token gives way only to   *)
(* another and only when it was used least, and what the stages would use  *)
(* is on disk again after a resume (maybe_add_auto, save_auto, load_auto). *)
DictionaryKept == LeastUsedGivesWay /\ TokensSurvive /\ []FilesAreUsed
=============================================================================
