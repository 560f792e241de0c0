----------------------------- MODULE ToolCases ------------------------------
(* The inputs, programs and command lines that MCParts gives the test case *)
(* tools: a few of each, chosen for the branches they lead to.             *)
EXTENDS Naturals, Sequences, SequencesExt, FiniteSetsExt

Count(d, x) == Cardinality({i \in DOMAIN d : d[i] = x})
Has(d, x) == Count(d, x) > 0

(* afl-tmin: a program that counts, one that crashes, one that hangs on    *)
(* some inputs, and one whose runs differ.                                 *)
TminFiles == {<<1, 1, 2, 2, 1>>, <<2, 0, 1, 1>>}
TminTargets == {"counts", "crash", "slow", "flaky"}
TminAlphabet == <<0, 1, 2>>
TminCases ==
  {[edges_only |-> FALSE, exact_mode |-> FALSE, exit_crash |-> FALSE, mask |-> {}],
   [edges_only |-> TRUE, exact_mode |-> FALSE, exit_crash |-> TRUE, mask |-> {}],
   [edges_only |-> FALSE, exact_mode |-> TRUE, exit_crash |-> TRUE, mask |-> {1}]}

TminRun(trace, timed_out, ends) == [trace |-> trace, timed_out |-> timed_out, ends |-> ends]
TminRuns(t, d) ==
  CASE t = "counts" -> {TminRun(<<1, Count(d, 1)>>, FALSE, "ok")}
    [] t = "crash"  -> {IF Has(d, 2) /\ Len(d) > 1 THEN TminRun(<<Len(d), 1>>, FALSE, "signal")
                        ELSE TminRun(<<1, 0>>, FALSE, "nonzero")}
    [] t = "slow"   -> {TminRun(<<Count(d, 1) \div 2, 1>>, Has(d, 2) /\ ~Has(d, 1), IF Len(d) < 2 THEN "nonzero" ELSE "ok")}
    [] t = "flaky"  -> {TminRun(<<0, 1>>, FALSE, "ok")}
                       \cup (IF Has(d, 1) THEN {TminRun(<<0, 2>>, FALSE, "msan")} ELSE {})

(* afl-analyze: a magic number, a checksum, a checksummed block, a file    *)
(* checked as a whole, a program that is slow or crashes, and one without  *)
(* instrumentation.                                                        *)
AnalyzeDocuments == {<<0, 3, 1, 6, 2>>, <<5, 0, 2, 2, 7>>}
AnalyzeTargets == {"magic", "sum", "block", "whole", "slow", "none"}

AnalyzeRun(trace, timed_out, crashed) == [trace |-> trace, timed_out |-> timed_out, crashed |-> crashed]
AnalyzeAnswers(p, d) ==
  CASE p = "magic" -> {AnalyzeRun(IF <<d[1], d[2]>> \in {<<0, 3>>, <<5, 0>>} THEN 3 + (d[3] \div 4) ELSE 2, FALSE, d[5] = 0)}
    [] p = "sum"   -> {AnalyzeRun(1 + ((d[1] + d[2] + d[3] + d[4] + d[5]) % 8), FALSE, FALSE)}
    [] p = "block" -> {AnalyzeRun(IF d[5] > 5 THEN 4
                                  ELSE IF \E x \in AnalyzeDocuments : \A i \in 1 .. 4 : d[i] = x[i] THEN 1 ELSE 2, FALSE, FALSE)}
    [] p = "whole" -> {AnalyzeRun(IF d \in AnalyzeDocuments THEN 1 ELSE 2, FALSE, FALSE)}
    [] p = "slow"  -> {AnalyzeRun(1, d[1] > 5, FALSE), AnalyzeRun(1, d[1] > 5, d[2] = 7)}
    [] p = "none"  -> {AnalyzeRun(0, FALSE, FALSE)}

(* afl-cmin: corpora with files that cover one another, that hang, that    *)
(* crash, and none at all.  A trace gives the count of three tuples.       *)
CminFile(id, size, counts, timed_out, signal) ==
  [is_id |-> id, size |-> size, timed_out |-> timed_out, signal |-> signal,
   trace |-> [t \in {5, 12, 65} |-> counts[CASE t = 5 -> 1 [] t = 12 -> 2 [] t = 65 -> 3]]]
CminCorpora ==
  {<<CminFile(TRUE, 3, <<1, 0, 200>>, FALSE, FALSE), CminFile(TRUE, 2, <<9, 1, 0>>, FALSE, FALSE),
     CminFile(TRUE, 2, <<1, 1, 1>>, FALSE, FALSE), CminFile(TRUE, 1, <<0, 0, 9>>, TRUE, TRUE)>>,
   <<CminFile(FALSE, 1, <<0, 3, 0>>, FALSE, TRUE), CminFile(TRUE, 2, <<9, 3, 0>>, FALSE, TRUE),
     CminFile(TRUE, 4, <<0, 3, 1>>, FALSE, FALSE), CminFile(TRUE, 1, <<17, 0, 1>>, FALSE, FALSE)>>,
   <<CminFile(TRUE, 1, <<1, 1, 1>>, TRUE, FALSE)>>, <<>>}
CminLeftovers == {[ids |-> FALSE, others |-> FALSE], [ids |-> TRUE, others |-> FALSE], [ids |-> TRUE, others |-> TRUE]}

(* Command lines: for each tool the options it needs and up to two others  *)
(* in every order, each option given twice, and some odd values.           *)
Value(n, unit) == [n |-> n, unit |-> unit]
Given == [i |-> "in", o |-> "out", f |-> "file", x |-> "dict", b |-> "core", C |-> "yes", z |-> "yes", Z |-> "yes",
          q |-> "yes", d |-> "yes", n |-> "yes", Q |-> "yes", e |-> "yes", A |-> "yes", V |-> "yes", h |-> "yes",
          t |-> Value(1000, ""), m |-> Value(1, "G"), M |-> [odd |-> FALSE, part |-> <<2, 3>>], S |-> [odd |-> FALSE, part |-> <<>>]]
ToolNames == {"afl-fuzz", "afl-tmin", "afl-analyze", "afl-showmap"}
Needed(t) == CASE t \in {"afl-fuzz", "afl-tmin"} -> {"i", "o"} [] t = "afl-analyze" -> {"i"} [] OTHER -> {"o"}
Others(t) == CASE t = "afl-fuzz"    -> {"M", "S", "t", "m", "d", "n", "Q", "C", "z", "V", "h"}
               [] t = "afl-tmin"    -> {"f", "e", "x", "t", "m", "Q", "V"}
               [] t = "afl-analyze" -> {"o", "f", "e", "t", "m", "Q", "V"}
               [] t = "afl-showmap" -> {"Z", "q", "t", "m", "Q", "A"}
Line(t, os) == [tool |-> t, target |-> TRUE, args |-> [k \in DOMAIN os |-> [o |-> os[k], v |-> Given[os[k]]]]]
FuzzWith(o, v) == [tool |-> "afl-fuzz", target |-> TRUE,
                   args |-> <<[o |-> "i", v |-> "in"], [o |-> o, v |-> v], [o |-> "o", v |-> "out"]>>]
Orders2(t) == UNION {SetToSeqs(more \cup (Needed(t) \ {"i"})) : more \in {m \in SUBSET Others(t) : Cardinality(m) <= 2}}
StartLines ==
  UNION {{Line(t, (IF "i" \in Needed(t) THEN <<"i">> ELSE <<>>) \o os) : os \in Orders2(t)} : t \in ToolNames}
  \cup UNION {{Line(t, <<o>> \o SetToSeq(Needed(t)) \o <<o>>) : o \in Others(t)} : t \in ToolNames}
  \cup {FuzzWith("t", Value(4, "")), FuzzWith("t", Value(20, "+")), FuzzWith("t", Value(0, "bad")), FuzzWith("m", Value(0, "none")),
        FuzzWith("m", Value(4, "M")), FuzzWith("m", Value(9000, "k")), FuzzWith("m", Value(1, "T")),
        FuzzWith("S", [odd |-> TRUE, part |-> <<>>]), FuzzWith("M", [odd |-> FALSE, part |-> <<3, 2>>]),
        FuzzWith("M", [odd |-> FALSE, part |-> <<>>]), [FuzzWith("d", "yes") EXCEPT !.target = FALSE]}

Elf(has) == [regular |-> TRUE, executable |-> TRUE, size |-> 100, in_tmp |-> FALSE, magic |-> "elf", has |-> has]
StartEnvironments ==
  {[set |-> x, asan |-> TRUE, path |-> p] :
     x \in {{}, {"afl-qemu-trace", "AFL_SKIP_BIN_CHECK"}, {"afl-qemu-trace", "AFL_DUMB_FORKSRV"}},
     p \in {<<Elf({"shm", "persistent"})>>, <<[Elf({"asan"}) EXCEPT !.size = 3], Elf({"asan"})>>}}

(* Builds: a file with one of everything afl-as looks for, and that file   *)
(* without any of its parts, at three ratios and in both modes; commands   *)
(* whose arguments and environment meet.                                   *)
AsmFile == <<".text", "main", "insn", "jcc", ".p2align", "main", ".L0", "jcc", ".L0", ".data", ".p2align", "#APP", ".text", ".LBB0_0",
             "jcc", "#NO_APP", ".intel_syntax", "insn", ".att_syntax", ".L0", "insn", ".code32", "jcc", ".code64", "insn">>
AsmWithout(i, n) == SubSeq(AsmFile, 1, i - 1) \o SubSeq(AsmFile, i + n, Len(AsmFile))
AsmFiles == {AsmFile} \cup UNION {{AsmWithout(i, n) : i \in 2 .. Len(AsmFile) + 1 - n} : n \in {1, 2, 4}}
Build(tool, args, set, ratio, file) ==
  [tool |-> tool, places |-> {"AFL_PATH", "built-in"}, args |-> args, env |-> set, input |-> "temporary", ratio |-> ratio, file |-> file]
ShortFile == <<".text", "main", "insn", ".L0", "jcc", "insn">>
BuildArgs == {<<"-c">>, <<"-B", "dir", "-m32", "-fsanitize=memory">>, <<"-pipe", "FORTIFY_SOURCE", "-m32", "-m64">>,
              <<"-x", "-Wl,-z,defs", "-Bdir", "-c", "-B">>}
BuildEnvs == SUBSET {"AFL_USE_ASAN", "AFL_USE_MSAN", "AFL_HARDEN"} \cup {{"afl-llvm-rt-32.o"}, {"AS_LOOP"}, {"AFL_DONT_OPTIMIZE"}}
CompileBuilds ==
  {Build(tool, <<"-c">>, {}, 100, file) : tool \in {"afl-gcc", "afl-clang"}, file \in AsmFiles}
  \cup {Build("afl-gcc", <<"-m32">>, {}, ratio, AsmFile) : ratio \in {0, 50, 100, 101}}
  \cup {Build(tool, args, set, 100, ShortFile) : tool \in {"afl-gcc", "afl-clang", "afl-clang-fast"}, args \in BuildArgs, set \in BuildEnvs}
  \cup {[Build("afl-clang", <<"-c">>, {}, 2, ShortFile) EXCEPT !.input = input] : input \in {"elsewhere", "option", "--version"}}
  \cup {[Build("afl-clang-fast", <<"-m32">>, {}, 100, <<>>) EXCEPT !.places = there] : there \in {{}, {"built-in"}, {"argv0", "built-in"}}}
=============================================================================
