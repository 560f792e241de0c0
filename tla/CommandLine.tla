---------------------------- MODULE CommandLine -----------------------------
(***************************************************************************)
(* From the command line to the first run: the options of afl-fuzz,        *)
(* afl-tmin, afl-analyze and afl-showmap, read one after the other, the    *)
(* checks that follow, and the search for the target binary.               *)
(***************************************************************************)
EXTENDS Naturals, Sequences, FiniteSets

CONSTANTS
  CommandLines,       \* [tool, args, target]: args is a sequence of [o, v]
  Environments,       \* [set, asan, path]: variables that are set; whether ASAN_OPTIONS and
                      \* MSAN_OPTIONS will do; the files the PATH search finds, in its order
  DefaultMem, QemuMem,\* MEM_LIMIT, MEM_LIMIT_QEMU
  DefaultTmout        \* EXEC_TIMEOUT

VARIABLES
  cl,                 \* the command line
  env,
  stage_of_start,     \* "options", "checks", "binary", "ready" or an exit: "fatal", "usage", "version"
  rest,               \* arguments still to be read
  s,                  \* the settings: what was given, and what follows from it
  binary              \* target_path and what check_binary has seen in it

startVars == <<cl, env, stage_of_start, rest, s, binary>>

Given(o) == o \in DOMAIN s.given

\* The option and its value are kept; most options may be given once.
Keep(o, v) == [s EXCEPT !.given = [x \in DOMAIN s.given \cup {o} |-> IF x = o THEN v ELSE s.given[x]]]
Fatal == [s EXCEPT !.end = "fatal"]
Once(o, v) == IF Given(o) THEN Fatal ELSE Keep(o, v)

-----------------------------------------------------------------------------
(* Options.                                                                 *)

\* -m: a number and a unit, M if there is none.  A unit of "bad" is a text without a number.
MemValue(v) == CASE v.unit = "T" -> v.n * 1024 * 1024 [] v.unit = "G" -> v.n * 1024
                 [] v.unit = "k" -> v.n \div 1024 [] OTHER -> v.n
MemOption(v) ==
  IF Given("m") THEN Fatal
  ELSE IF v.unit = "none" THEN [Keep("m", v) EXCEPT !.mem_limit = 0]
  ELSE IF v.unit \notin {"T", "G", "k", "M"} \/ MemValue(v) < 5 THEN Fatal
  ELSE [Keep("m", v) EXCEPT !.mem_limit = MemValue(v)]

\* -Q: the larger default, unless -m came before.
QemuOption(v) ==
  IF Given("Q") THEN Fatal
  ELSE [Keep("Q", v) EXCEPT !.mem_limit = IF Given("m") THEN @ ELSE QemuMem]

\* -t of the tools: atoi, and a least value.
TmoutOption(v, least) ==
  IF Given("t") \/ v.n < least \/ v.unit = "bad" THEN Fatal
  ELSE [Keep("t", v) EXCEPT !.exec_tmout = v.n]

\* -M and -S of afl-fuzz share the name of the instance.
MasterOption(v) ==
  IF Given("S") \/ Given("M") \/ (v.part # <<>> /\ ~(v.part[1] \in 1 .. v.part[2] /\ v.part[2] <= 1000000))
  THEN Fatal ELSE [Keep("M", v) EXCEPT !.force_deterministic = TRUE]
SlaveOption(v) == IF Given("S") \/ Given("M") THEN Fatal ELSE Keep("S", v)

\* -t of afl-fuzz: any text may follow the number, and a plus lets it skip slow cases.
FuzzTmoutOption(v) ==
  IF Given("t") \/ v.unit = "bad" \/ v.n < 5 THEN Fatal
  ELSE [Keep("t", v) EXCEPT !.exec_tmout = v.n, !.timeout_given = IF v.unit = "+" THEN 2 ELSE 1]

SkipOption(v) ==
  IF Given("d") THEN Fatal
  ELSE [Keep("d", v) EXCEPT !.skip_deterministic = TRUE, !.use_splicing = TRUE]

\* -n: dumb, with a fork server if the environment says so.
DumbOption(v) ==
  IF Given("n") THEN Fatal
  ELSE [Keep("n", v) EXCEPT !.dumb_mode = IF "AFL_DUMB_FORKSRV" \in env.set THEN 2 ELSE 1]

FuzzOption(o, v) ==
  CASE o \in {"i", "o", "f", "x", "b", "B", "C", "T", "c"} -> Once(o, v)
    [] o = "M" -> MasterOption(v) [] o = "S" -> SlaveOption(v)
    [] o = "t" -> FuzzTmoutOption(v) [] o = "m" -> MemOption(v)
    [] o = "d" -> SkipOption(v) [] o = "n" -> DumbOption(v) [] o = "Q" -> QemuOption(v)
    [] o = "z" -> Keep(o, v)
    [] o = "V" -> [s EXCEPT !.end = "version"]
    [] OTHER -> [s EXCEPT !.end = "usage"]

TminOption(o, v) ==
  CASE o \in {"i", "o", "f", "e", "x", "B"} -> Once(o, v)
    [] o = "m" -> MemOption(v) [] o = "t" -> TmoutOption(v, 10) [] o = "Q" -> QemuOption(v)
    [] o = "V" -> [s EXCEPT !.end = "version"]
    [] OTHER -> [s EXCEPT !.end = "usage"]

AnalyzeOption(o, v) ==
  CASE o \in {"i", "f", "e"} -> Once(o, v)
    [] o = "m" -> MemOption(v) [] o = "t" -> TmoutOption(v, 10) [] o = "Q" -> QemuOption(v)
    [] o = "V" -> [s EXCEPT !.end = "version"]
    [] OTHER -> [s EXCEPT !.end = "usage"]

\* -Z is quiet, too, and -q after it counts as a second one.
ShowmapOption(o, v) ==
  CASE o \in {"o", "e", "c"} -> Once(o, v)
    [] o = "m" -> MemOption(v)
    [] o = "t" -> IF v.unit = "none" THEN Once(o, v) ELSE TmoutOption(v, 20)
    [] o = "q" -> IF s.quiet_mode THEN Fatal ELSE [Keep(o, v) EXCEPT !.quiet_mode = TRUE]
    [] o = "Z" -> [Keep(o, v) EXCEPT !.quiet_mode = TRUE]
    [] o \in {"A", "b"} -> Keep(o, v)
    [] o = "Q" -> QemuOption(v)
    [] o = "V" -> [s EXCEPT !.end = "version"]
    [] OTHER -> [s EXCEPT !.end = "usage"]

Option(o, v) == CASE cl.tool = "afl-fuzz" -> FuzzOption(o, v) [] cl.tool = "afl-tmin" -> TminOption(o, v)
                  [] cl.tool = "afl-analyze" -> AnalyzeOption(o, v)
                  [] cl.tool = "afl-showmap" -> ShowmapOption(o, v)

Required == CASE cl.tool \in {"afl-fuzz", "afl-tmin"} -> {"i", "o"} [] cl.tool = "afl-analyze" -> {"i"}
              [] cl.tool = "afl-showmap" -> {"o"}

Fresh(tool) == [given |-> <<>>, end |-> "no", mem_limit |-> DefaultMem,
                exec_tmout |-> IF tool = "afl-showmap" THEN 0 ELSE DefaultTmout, timeout_given |-> 0,
                force_deterministic |-> FALSE, skip_deterministic |-> FALSE, use_splicing |-> FALSE,
                dumb_mode |-> 0, quiet_mode |-> FALSE]

NoBinary == [file |-> <<>>, uses_asan |-> FALSE, persistent |-> FALSE, deferred |-> FALSE]

StartInit ==
  /\ cl \in CommandLines /\ env \in Environments
  /\ stage_of_start = "options" /\ rest = cl.args
  /\ s = Fresh(cl.tool) /\ binary = NoBinary

ReadOption ==
  /\ stage_of_start = "options" /\ rest # <<>>
  /\ s' = Option(Head(rest).o, Head(rest).v)
  /\ rest' = Tail(rest)
  /\ stage_of_start' = IF s'.end = "no" THEN "options" ELSE s'.end
  /\ UNCHANGED <<cl, env, binary>>

EndOfOptions ==
  /\ stage_of_start = "options" /\ rest = <<>>
  /\ stage_of_start' = IF cl.target /\ Required \subseteq DOMAIN s.given THEN "checks" ELSE "usage"
  /\ UNCHANGED <<cl, env, rest, s, binary>>

-----------------------------------------------------------------------------
(* Checks.                                                                  *)

Synced == Given("M") \/ Given("S")

\* fix_up_sync: a name of another instance than the master skips the deterministic stages.
SyncFails == s.dumb_mode # 0 \/ s.skip_deterministic \/ (IF Given("M") THEN s.given["M"] ELSE s.given["S"]).odd
FixedUp == IF Synced /\ ~s.force_deterministic
           THEN [s EXCEPT !.skip_deterministic = TRUE, !.use_splicing = TRUE] ELSE s

\* The output directory of an instance is one below the one that was given.
SameDirs == ~Synced /\ s.given["i"] = s.given["o"]

\* check_crash_handling and check_cpu_governor.
CrashesAreLost ==
  "core_pattern" \in env.set /\ "AFL_I_DONT_CARE_ABOUT_MISSING_CRASHES" \notin env.set
CpuIsSlow == "ondemand" \in env.set /\ "AFL_SKIP_CPUFREQ" \notin env.set

\* Options for the sanitizers that would hide crashes.
AsanFails == ~env.asan

FuzzChecksFail ==
  \/ AsanFails
  \/ Synced /\ SyncFails
  \/ SameDirs
  \/ s.dumb_mode # 0 /\ (Given("C") \/ Given("Q"))
  \/ "AFL_HANG_TMOUT=0" \in env.set
  \/ s.dumb_mode = 2 /\ "AFL_NO_FORKSRV" \in env.set
  \/ "AFL_LD_PRELOAD" \in env.set
  \/ CrashesAreLost \/ CpuIsSlow

\* afl-showmap sets ASAN_OPTIONS without a look at it.
ToolChecksFail == cl.tool # "afl-showmap" /\ AsanFails

Check ==
  /\ stage_of_start = "checks"
  /\ IF cl.tool = "afl-fuzz"
     THEN s' = FixedUp /\ stage_of_start' = IF FuzzChecksFail THEN "fatal" ELSE "binary"
     ELSE /\ UNCHANGED s
          /\ stage_of_start' = IF ToolChecksFail THEN "fatal" ELSE "binary"
  /\ UNCHANGED <<cl, env, rest, binary>>

-----------------------------------------------------------------------------
(* The target binary.                                                       *)

\* A regular file of some length that may be executed: the first on the PATH.
Executable(f) == f.regular /\ f.executable /\ f.size >= 4
Found == {i \in DOMAIN env.path : Executable(env.path[i])}
Target == env.path[CHOOSE i \in Found : \A j \in Found : i <= j]

\* check_binary of afl-fuzz.
Refused(f) ==
  \/ f.in_tmp
  \/ f.magic # "elf"
  \/ ~Given("Q") /\ s.dumb_mode = 0 /\ "shm" \notin f.has
  \/ Given("Q") /\ "shm" \in f.has

CheckBinary(f) ==
  IF "AFL_SKIP_BIN_CHECK" \in env.set THEN [NoBinary EXCEPT !.file = f]
  ELSE [file |-> f, uses_asan |-> "asan" \in f.has, persistent |-> "persistent" \in f.has,
        deferred |-> "deferred" \in f.has]

QemuMissing == Given("Q") /\ "afl-qemu-trace" \notin env.set

FindTarget ==
  /\ stage_of_start = "binary"
  /\ IF Found = {} \/ (cl.tool = "afl-fuzz" /\ "AFL_SKIP_BIN_CHECK" \notin env.set /\ Refused(Target))
     THEN stage_of_start' = "fatal" /\ UNCHANGED binary
     ELSE /\ stage_of_start' = IF QemuMissing THEN "fatal" ELSE "ready"
          /\ binary' = IF cl.tool = "afl-fuzz" THEN CheckBinary(Target)
                       ELSE [NoBinary EXCEPT !.file = Target]
  /\ UNCHANGED <<cl, env, rest, s>>

StartNext == ReadOption \/ EndOfOptions \/ Check \/ FindTarget

StartSpec == StartInit /\ [][StartNext]_startVars

-----------------------------------------------------------------------------
Args == {cl.args[i] : i \in DOMAIN cl.args}
Letters == {a.o : a \in Args}
ValueOf(o) == (CHOOSE a \in Args : a.o = o).v
Free(tool) == CASE tool = "afl-fuzz" -> {"z"} [] tool = "afl-showmap" -> {"Z", "A", "b"} [] OTHER -> {}

\* Once they are read, the options mean the same in whatever order they were given.
OrderDoesNotMatter ==
  stage_of_start \in {"checks", "binary", "ready"} =>
    /\ DOMAIN s.given = Letters
    /\ \A i, j \in DOMAIN cl.args : cl.args[i].o = cl.args[j].o /\ i # j => cl.args[i].o \in Free(cl.tool)
    /\ s.mem_limit = IF "m" \in Letters THEN (IF ValueOf("m").unit = "none" THEN 0 ELSE MemValue(ValueOf("m")))
                     ELSE IF "Q" \in Letters THEN QemuMem ELSE DefaultMem
    /\ s.quiet_mode = (cl.tool = "afl-showmap" /\ {"q", "Z"} \cap Letters # {})
    /\ ~({"M", "S"} \subseteq Letters /\ cl.tool = "afl-fuzz")

\* The settings that afl-fuzz starts with do not contradict one another: an instance of a
\* group has a fork server and no -d, the master runs the deterministic stages and the others
\* do not; without -n the target is instrumented, by the compiler or by QEMU and not by both.
SettingsAgree ==
  stage_of_start = "ready" /\ cl.tool = "afl-fuzz" =>
    /\ Synced => s.dumb_mode = 0 /\ s.skip_deterministic = Given("S")
    /\ s.skip_deterministic <=> s.use_splicing
    /\ Given("n") => ~Given("C") /\ ~Given("Q")
    /\ "AFL_SKIP_BIN_CHECK" \notin env.set /\ ~Given("n") => (Given("Q") # ("shm" \in binary.file.has))

StartTypeOK ==
  /\ stage_of_start \in {"options", "checks", "binary", "ready", "fatal", "usage", "version"}
  /\ s.mem_limit \in Nat /\ s.exec_tmout \in Nat
  /\ stage_of_start = "ready" => s.mem_limit = 0 \/ s.mem_limit >= 5
=============================================================================
