------------------------------ MODULE Compile -------------------------------
(***************************************************************************)
(* Building an instrumented target: afl-gcc, afl-clang and afl-clang-fast  *)
(* rewrite the command of the compiler; for the first two the compiler     *)
(* calls afl-as, which goes through the assembly line by line and puts a   *)
(* trampoline wherever control may go two ways.                            *)
(*                                                                         *)
(* An argument, an assembly line is the class the code takes it for; a     *)
(* build is [tool, places, args, env, input, ratio, file].                 *)
(***************************************************************************)
EXTENDS Integers, Sequences

CONSTANT Builds

VARIABLES
  build, bstep,
  unread,       \* arguments that edit_params has still to look at
  cc_params,    \* the command it makes of them
  as,           \* the settings of afl-as
  scan,         \* the flags add_instrumentation keeps from line to line
  asm,          \* for each line it writes, is there a trampoline before, after it?
  payload       \* the code that the trampolines call
compileVars == <<build, bstep, unread, cc_params, as, scan, asm, payload>>

When(p, params) == IF p THEN params ELSE <<>>
Set(x) == x \in build.env
Wraps == build.tool \in {"afl-gcc", "afl-clang"}   \* what goes through afl-as
GivenTo(xs) == \E i \in DOMAIN build.args : build.args[i] \in xs /\ build.args[i] \in {cc_params[k] : k \in DOMAIN cc_params}
Sanitizers == {"-fsanitize=address", "-fsanitize=memory"}

FreshScan == [instr_ok |-> FALSE, skip_csect |-> FALSE, skip_next_label |-> FALSE, skip_intel |-> FALSE, skip_app |-> FALSE,
              instrument_next |-> FALSE, ins_lines |-> 0]

CompileInit ==
  /\ build \in Builds
  /\ bstep = "find" /\ unread = build.args /\ cc_params = <<>>
  /\ as = [use_64bit |-> TRUE, clang_mode |-> FALSE, pass_thru |-> FALSE, inst_ratio |-> 100]
  /\ scan = FreshScan /\ asm = <<>> /\ payload = FALSE

-----------------------------------------------------------------------------
(* find_as and find_obj: AFL_PATH, the directory of the program itself, the *)
(* one it was built for.                                                    *)
Path ==
  LET order == <<"AFL_PATH", "argv0", "built-in">>
  IN  order[CHOOSE i \in 1 .. 3 : order[i] \in build.places /\ \A j \in 1 .. i - 1 : order[j] \notin build.places]

FindAs ==
  /\ bstep = "find"
  /\ IF build.places = {} THEN bstep' = "fatal" /\ UNCHANGED cc_params
     ELSE /\ bstep' = "args"
          /\ cc_params' = When(~Wraps, <<"-Xclang -load", Path, "-Qunused-arguments">>)
  /\ UNCHANGED <<build, unread, as, scan, asm, payload>>

\* "-B" alone takes the argument after it along.
ReplacedArgs ==
  IF Wraps /\ Head(unread) = "-B" /\ Len(unread) > 1 THEN 2
  ELSE IF Head(unread) \in (IF Wraps THEN {"-B", "-Bdir", "-integrated-as", "-pipe"} ELSE {"-Wl,-z,defs"}) THEN 1 ELSE 0

ReadArg ==
  /\ bstep = "args" /\ unread # <<>>
  /\ IF ReplacedArgs > 0
     THEN unread' = SubSeq(unread, ReplacedArgs + 1, Len(unread)) /\ UNCHANGED cc_params
     ELSE unread' = Tail(unread) /\ cc_params' = Append(cc_params, Head(unread))
  /\ UNCHANGED <<build, bstep, as, scan, asm, payload>>

AsanSet == GivenTo(Sanitizers)
FortifySet == GivenTo({"FORTIFY_SOURCE"})
Contradicts ==
  /\ ~AsanSet
  /\ \/ Set("AFL_USE_ASAN") /\ (Set("AFL_USE_MSAN") \/ Set("AFL_HARDEN"))
     \/ Set("AFL_USE_MSAN") /\ Set("AFL_HARDEN")

Hardening == When(Set("AFL_HARDEN"), <<"-fstack-protector-all">> \o When(~FortifySet, <<"-D_FORTIFY_SOURCE=2">>))
Sanitizing ==
  When(~AsanSet /\ (Set("AFL_USE_ASAN") \/ Set("AFL_USE_MSAN")),
       <<"-U_FORTIFY_SOURCE", IF Set("AFL_USE_ASAN") THEN "-fsanitize=address" ELSE "-fsanitize=memory">>)

\* The last of -m32 and -m64.
Width ==
  LET given == {i \in DOMAIN cc_params : cc_params[i] \in {"-m32", "-m64"}}
  IN  IF given = {} THEN "" ELSE cc_params[CHOOSE i \in given : \A j \in given : j <= i]
\* One that has not been built with the wrapper is missed at once.
Runtime == CASE Width = "-m32" -> "afl-llvm-rt-32.o" [] Width = "-m64" -> "afl-llvm-rt-64.o" [] OTHER -> "afl-llvm-rt.o"

EndOfArgs ==
  /\ bstep = "args" /\ unread = <<>>
  /\ IF Contradicts THEN bstep' = "fatal" /\ UNCHANGED cc_params
     ELSE /\ bstep' = IF Wraps THEN "as" ELSE IF Width # "" /\ ~Set(Runtime) THEN "fatal" ELSE "done"
          /\ cc_params' =
               cc_params \o When(Wraps, <<"-B", Path>>) \o When(build.tool = "afl-clang", <<"-no-integrated-as">>)
               \o Hardening \o Sanitizing \o When(~Set("AFL_DONT_OPTIMIZE"), <<"-O3">>)
               \o When(~Wraps, When(GivenTo({"-x"}), <<"-x", "none">>) \o <<Runtime>>)
  /\ UNCHANGED <<build, unread, as, scan, asm, payload>>

-----------------------------------------------------------------------------
(* afl-as: main and edit_params.  The compiler passes the width on, and a   *)
(* file it has written itself is in the temporary directory.                *)
Sanitized == AsanSet \/ Set("AFL_USE_ASAN") \/ Set("AFL_USE_MSAN")
\* Somebody's own assembly, in a format afl-as may not understand.
PassThru == build.input = "elsewhere"

StartAs ==
  /\ bstep = "as"
  /\ as' = [use_64bit |-> Width # "-m32", clang_mode |-> build.tool = "afl-clang", pass_thru |-> PassThru,
            inst_ratio |-> IF Sanitized THEN build.ratio \div 3 ELSE build.ratio]
  /\ bstep' = IF build.input = "option" \/ build.ratio > 100 \/ Set("AS_LOOP") THEN "fatal"
              ELSE IF build.input = "--version" THEN "done" ELSE "lines"
  /\ UNCHANGED <<build, unread, cc_params, scan, asm, payload>>

Odds == {d \in BOOLEAN : IF d THEN as.inst_ratio > 0 ELSE as.inst_ratio < 100}   \* R(100) < inst_ratio

\* The flags after a line.
Noted(line) ==
  [scan EXCEPT
     !.skip_next_label = @ \/ (line = ".p2align" /\ ~as.clang_mode /\ scan.instr_ok),
     !.instr_ok = line = ".text" \/ (@ /\ line # ".data"),
     !.skip_csect = IF line = ".code32" THEN as.use_64bit ELSE IF line = ".code64" THEN ~as.use_64bit ELSE @,
     !.skip_intel = line = ".intel_syntax" \/ (@ /\ line # ".att_syntax"),
     !.skip_app = line = "#APP" \/ (@ /\ line # "#NO_APP")]

Counts(flags) == ~flags.skip_intel /\ ~flags.skip_app /\ ~flags.skip_csect /\ flags.instr_ok
Instructions == {"insn", "jcc"}
BranchLabels == {".L0"} \cup (IF as.clang_mode THEN {".LBB0_0"} ELSE {})

\* A label that is meant to be counted waits for its first instruction.
AfterLabel(flags, line, chosen) ==
  IF line = "main" THEN [flags EXCEPT !.instrument_next = TRUE]
  ELSE IF line \in BranchLabels /\ chosen
  THEN IF flags.skip_next_label THEN [flags EXCEPT !.skip_next_label = FALSE] ELSE [flags EXCEPT !.instrument_next = TRUE]
  ELSE flags

ReadLine(chosen) ==
  /\ bstep = "lines" /\ Len(asm) < Len(build.file)
  /\ LET line == build.file[Len(asm) + 1]
         before == ~as.pass_thru /\ Counts(scan) /\ scan.instrument_next /\ line \in Instructions
         noted == Noted(line)
         after == ~as.pass_thru /\ Counts(noted) /\ line = "jcc" /\ chosen
         waiting == IF Counts(noted) THEN AfterLabel(noted, line, chosen) ELSE noted
     IN  /\ asm' = Append(asm, [before |-> before, after |-> after])
         /\ scan' = IF as.pass_thru THEN scan
                    ELSE [waiting EXCEPT !.instrument_next = @ /\ ~before,
                                         !.ins_lines = @ + (IF before THEN 1 ELSE 0) + (IF after THEN 1 ELSE 0)]
  /\ UNCHANGED <<build, bstep, unread, cc_params, as, payload>>

EndOfFile ==
  /\ bstep = "lines" /\ Len(asm) = Len(build.file)
  /\ payload' = (scan.ins_lines > 0)
  /\ bstep' = "done"
  /\ UNCHANGED <<build, unread, cc_params, as, scan, asm>>

CompileNext ==
  FindAs \/ ReadArg \/ EndOfArgs \/ StartAs \/ (\E chosen \in Odds : ReadLine(chosen)) \/ EndOfFile

CompileSpec == CompileInit /\ [][CompileNext]_compileVars

-----------------------------------------------------------------------------
CompileTypeOK ==
  /\ bstep \in {"find", "args", "as", "lines", "done", "fatal"}
  /\ Len(asm) <= Len(build.file) /\ scan.ins_lines \in 0 .. 2 * Len(asm)
  /\ as.inst_ratio \in Nat /\ (bstep \in {"lines", "done"} => as.inst_ratio <= 100)

(* For a reference, the lines from the file alone.  A line is code of the  *)
(* compiler's when the last directive of each kind before it says so.      *)
Line(i) == build.file[i]
LastOf(kinds, i) ==
  LET there == {j \in 1 .. i - 1 : Line(j) \in kinds}
  IN  IF there = {} THEN "" ELSE Line(CHOOSE j \in there : \A k \in there : k <= j)
Code ==
  {i \in DOMAIN build.file :
     /\ LastOf({".text", ".data"}, i) = ".text"
     /\ LastOf({".intel_syntax", ".att_syntax"}, i) # ".intel_syntax"
     /\ LastOf({"#APP", "#NO_APP"}, i) # "#APP"
     /\ LastOf({".code32", ".code64"}, i) # IF as.use_64bit THEN ".code32" ELSE ".code64"}
Of(kinds, code) == {i \in code : Line(i) \in kinds}

\* The first branch label after an alignment is a jump table's, whatever lies between.
Tables(code) ==
  {j \in Of(BranchLabels, code) :
     \E k \in 1 .. j - 1 : /\ Line(k) = ".p2align" /\ ~as.clang_mode /\ LastOf({".text", ".data"}, k) = ".text"
                           /\ k .. j - 1 \cap Of(BranchLabels, code) = {}}
FirstAfter(labels, code) ==
  {i \in Of(Instructions, code) : \E j \in labels : j < i /\ j .. i - 1 \cap Of(Instructions, code) = {}}

(* afl-as counts each way that control can go once: the first instruction  *)
(* of a function or branch label and the way past a conditional branch,    *)
(* all of them at a ratio of 100, functions at any; and nothing in data,   *)
(* inline assembly, another syntax or width; the code it jumps to is there *)
(* when something does (add_instrumentation).                              *)
CountsEachWayOnce ==
  bstep = "done" /\ asm # <<>> =>
    LET code == IF as.pass_thru THEN {} ELSE Code
        functions == FirstAfter(Of({"main"}, code), code)
        branches == FirstAfter(Of(BranchLabels, code) \ Tables(code), code)
        past == Of({"jcc"}, code)
        counted == [before |-> {i \in DOMAIN asm : asm[i].before}, after |-> {i \in DOMAIN asm : asm[i].after}]
    IN  /\ functions \subseteq counted.before /\ counted.before \subseteq functions \cup branches
        /\ counted.after \subseteq past
        /\ as.inst_ratio = 100 => counted = [before |-> functions \cup branches, after |-> past]
        /\ ~\E i \in counted.after : i + 1 \in counted.before
        /\ payload <=> counted.before \cup counted.after # {}

(* The command has one sanitizer of the wrapper's at most, never beside    *)
(* its own hardening or a sanitizer of the user's; and afl-as thins out    *)
(* the trampolines exactly when the code is compiled with one.             *)
InCommand(x) == \E k \in DOMAIN cc_params : cc_params[k] = x
SanitizersAgree ==
  bstep \in {"as", "lines", "done"} =>
    /\ InCommand("-U_FORTIFY_SOURCE") => ~AsanSet /\ ~InCommand("-fstack-protector-all")
    /\ bstep # "as" /\ Wraps =>
         (as.inst_ratio < build.ratio <=> build.ratio > 0 /\ \E x \in Sanitizers : InCommand(x))

CompileSound == CountsEachWayOnce /\ SanitizersAgree
=============================================================================
