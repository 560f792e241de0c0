-------------------------------- MODULE Tmin --------------------------------
(***************************************************************************)
(* afl-tmin: shrink a test case as long as the target reacts the same way. *)
(* What a run does is a nondeterministic choice of the target; the tool    *)
(* may be interrupted during any run.                                      *)
(***************************************************************************)
EXTENDS Naturals, Sequences, FiniteSets

CONSTANTS
  Files,              \* the input files, sequences of symbols
  Plain,              \* the symbol '0'
  Symbols,            \* the symbols in the order of their codes
  Targets,            \* the programs
  TminOptions,        \* the settings [edges_only, exact_mode, exit_crash, mask]
  Runs(_, _),         \* what a run of a program on some data may end like
  TraceBytes,         \* the bytes of a trace
  TrimStartSteps, TminSetSteps, TminSetMinSize

VARIABLES
  tpc,                \* "start", "blocks", "delete", "symbols", "chars", "done", "aborted", "failed"
  target, opts, file, \* file is the input, mask the bytes that -B masks
  in_data, tmp_buf,
  crash_mode, orig_cksum,
  pos, len,           \* the position and the length of the block
  prev_del, changed_any, cur_pass,
  out_data            \* what is in the output file

tminVars == <<tpc, target, opts, file, in_data, tmp_buf, crash_mode, orig_cksum, pos, len, prev_del,
              changed_any, cur_pass, out_data>>
settled == <<target, opts, file, crash_mode, orig_cksum>>

-----------------------------------------------------------------------------
(* A run.  Its outcome is its trace, whether it has timed out, and how the  *)
(* process has ended.                                                       *)

\* classify_counts: the powers of two a count stands for.
Class(n) == CASE n <= 2 -> n [] n = 3 -> 4 [] n \in 4 .. 7 -> 8 [] n \in 8 .. 15 -> 16
              [] n \in 16 .. 31 -> 32 [] n \in 32 .. 127 -> 64 [] OTHER -> 128
Classified(t) == [b \in TraceBytes |-> IF opts.edges_only THEN (IF t[b] = 0 THEN 0 ELSE 1)
                                       ELSE Class(t[b])]
\* apply_mask, with whole bytes for the mask.
Masked(t) == [b \in TraceBytes |-> IF b \in opts.mask THEN 0 ELSE t[b]]
Trace(o) == Masked(Classified(o.trace))

Crashes(o) == o.ends = "signal" \/ o.ends = "msan" \/ (o.ends = "nonzero" /\ opts.exit_crash)

\* What run_target returns.
Reproduces(o) ==
  /\ ~o.timed_out
  /\ Crashes(o) = crash_mode
  /\ (crash_mode /\ ~opts.exact_mode) \/ Trace(o) = orig_cksum

\* Data is tried, and kept or dropped by what the run does.
Try(data, Kept, Dropped) ==
  \E o \in Runs(target, data) : IF Reproduces(o) THEN Kept ELSE Dropped

NextP2(n) == LET Powers == {2^i : i \in 0 .. n}
             IN  CHOOSE p \in Powers : p >= n /\ \A q \in Powers : q >= n => p <= q
Smaller(a, b) == IF a <= b THEN a ELSE b

\* memset and the cut of a block.
Blanked(d, p, n) == [i \in DOMAIN d |-> IF i \in p + 1 .. p + n THEN Plain ELSE d[i]]
Cut(d, p, n) == SubSeq(d, 1, p) \o SubSeq(d, p + n + 1, Len(d))
IsBlank(d, p, n) == \A i \in p + 1 .. p + n : d[i] = Plain

-----------------------------------------------------------------------------
TminInit ==
  /\ tpc = "start"
  /\ target \in Targets
  /\ opts \in TminOptions
  /\ file \in Files /\ in_data = file /\ tmp_buf = <<>>
  /\ crash_mode = FALSE /\ orig_cksum = <<>>
  /\ pos = 0 /\ len = 0 /\ prev_del = TRUE /\ changed_any = FALSE /\ cur_pass = 0
  /\ out_data = <<>>

\* The first run settles what is to be reproduced.
DryRun ==
  /\ tpc = "start"
  /\ \E o \in Runs(target, in_data) :
       LET crash == ~o.timed_out /\ Crashes(o)
           usable == ~o.timed_out /\ (crash \/ \E b \in TraceBytes : Trace(o)[b] # 0)
           n == NextP2(Len(in_data) \div TminSetSteps)
       IN  /\ crash_mode' = crash
           /\ orig_cksum' = IF usable /\ (crash => opts.exact_mode) THEN Trace(o) ELSE <<>>
           /\ tpc' = IF usable THEN "blocks" ELSE "failed"
           /\ len' = IF n < TminSetMinSize THEN TminSetMinSize ELSE n
  /\ UNCHANGED <<target, opts, file, in_data, tmp_buf, pos, prev_del, changed_any, cur_pass, out_data>>

\* Stage 0: blocks are set to '0', once.
NormalizeBlock ==
  /\ tpc = "blocks" /\ pos < Len(in_data)
  /\ LET n == Smaller(len, Len(in_data) - pos) IN
       IF IsBlank(in_data, pos, n) THEN UNCHANGED in_data
       ELSE Try(Blanked(in_data, pos, n),
                in_data' = Blanked(in_data, pos, n), UNCHANGED in_data)
  /\ pos' = pos + len
  /\ UNCHANGED <<tpc, settled, tmp_buf, len, prev_del, changed_any, cur_pass, out_data>>

\* next_pass
BeginPass ==
  /\ cur_pass' = cur_pass + 1
  /\ changed_any' = FALSE
  /\ tpc' = "delete"
  /\ len' = NextP2(Len(in_data) \div TrimStartSteps)
  /\ pos' = 0 /\ prev_del' = TRUE
  /\ tmp_buf' = <<>>
  /\ UNCHANGED <<settled, in_data, out_data>>

NormalizationDone ==
  /\ tpc = "blocks" /\ pos >= Len(in_data)
  /\ BeginPass

\* Stage 1: a block that looks like the one before it, which could not be deleted.
LooksLikeLast ==
  /\ ~prev_del
  /\ Len(in_data) > pos + len
  /\ SubSeq(in_data, pos - len + 1, pos) = SubSeq(in_data, pos + 1, pos + len)

DeleteBlock ==
  /\ tpc = "delete" /\ pos < Len(in_data)
  /\ IF LooksLikeLast
     THEN pos' = pos + len /\ UNCHANGED <<in_data, prev_del, changed_any>>
     ELSE Try(Cut(in_data, pos, len),
              /\ in_data' = Cut(in_data, pos, len)
              /\ prev_del' = TRUE /\ changed_any' = TRUE
              /\ UNCHANGED pos,
              /\ pos' = pos + len /\ prev_del' = FALSE
              /\ UNCHANGED <<in_data, changed_any>>)
  /\ UNCHANGED <<tpc, settled, tmp_buf, len, cur_pass, out_data>>

SmallerBlocks ==
  /\ tpc = "delete" /\ pos >= Len(in_data)
  /\ len > 1 /\ Len(in_data) >= 1
  /\ len' = len \div 2
  /\ pos' = 0 /\ prev_del' = TRUE
  /\ UNCHANGED <<tpc, settled, in_data, tmp_buf, changed_any, cur_pass, out_data>>

DeletionDone ==
  /\ tpc = "delete" /\ pos >= Len(in_data)
  /\ ~(len > 1 /\ Len(in_data) >= 1)
  /\ tpc' = IF cur_pass > 1 /\ ~changed_any THEN "done" ELSE "symbols"
  /\ out_data' = IF tpc' = "done" THEN in_data ELSE out_data
  /\ pos' = 1
  /\ UNCHANGED <<settled, in_data, tmp_buf, len, prev_del, changed_any, cur_pass>>

\* Stage 2: all the bytes with one symbol.
WithoutSymbol(d, s) == [i \in DOMAIN d |-> IF d[i] = s THEN Plain ELSE d[i]]

MinimizeSymbol ==
  /\ tpc = "symbols" /\ pos <= Len(Symbols)
  /\ LET d == WithoutSymbol(in_data, Symbols[pos]) IN
       IF d = in_data THEN UNCHANGED <<in_data, changed_any>>
       ELSE Try(d, in_data' = d /\ changed_any' = TRUE, UNCHANGED <<in_data, changed_any>>)
  /\ pos' = pos + 1
  /\ UNCHANGED <<tpc, settled, tmp_buf, len, prev_del, cur_pass, out_data>>

SymbolsDone ==
  /\ tpc = "symbols" /\ pos > Len(Symbols)
  /\ tpc' = "chars" /\ pos' = 1
  /\ tmp_buf' = in_data
  /\ UNCHANGED <<settled, in_data, len, prev_del, changed_any, cur_pass, out_data>>

\* Stage 3: one byte after the other, in a buffer that follows in_data.
MinimizeCharacter ==
  /\ tpc = "chars" /\ pos <= Len(in_data)
  /\ IF tmp_buf[pos] = Plain THEN UNCHANGED <<in_data, tmp_buf, changed_any>>
     ELSE Try([tmp_buf EXCEPT ![pos] = Plain],
              /\ in_data' = [in_data EXCEPT ![pos] = Plain]
              /\ tmp_buf' = [tmp_buf EXCEPT ![pos] = Plain]
              /\ changed_any' = TRUE,
              UNCHANGED <<in_data, tmp_buf, changed_any>>)
  /\ pos' = pos + 1
  /\ UNCHANGED <<tpc, settled, len, prev_del, cur_pass, out_data>>

PassDone ==
  /\ tpc = "chars" /\ pos > Len(in_data)
  /\ IF changed_any THEN BeginPass
     ELSE /\ tpc' = "done" /\ out_data' = in_data
          /\ UNCHANGED <<settled, in_data, tmp_buf, pos, len, prev_del, changed_any, cur_pass>>

\* An interrupt while the target runs: what there is goes to the output file.
Interrupted ==
  /\ tpc \in {"start", "blocks", "delete", "symbols", "chars"}
  /\ tpc' = "aborted"
  /\ out_data' = in_data
  /\ UNCHANGED <<settled, in_data, tmp_buf, pos, len, prev_del, changed_any, cur_pass>>

TminNext ==
  \/ DryRun \/ NormalizeBlock \/ NormalizationDone
  \/ DeleteBlock \/ SmallerBlocks \/ DeletionDone
  \/ MinimizeSymbol \/ SymbolsDone \/ MinimizeCharacter \/ PassDone \/ Interrupted

TminSpec == TminInit /\ [][TminNext]_tminVars

-----------------------------------------------------------------------------
TminTypeOK ==
  /\ tpc \in {"start", "blocks", "delete", "symbols", "chars", "done", "aborted", "failed"}
  /\ pos \in Nat /\ len \in Nat /\ cur_pass \in Nat

\* What is left of the test case has always reproduced: after every change, and when an
\* interrupt writes it out, there is a run on it that ends like the first one did.
StillReproduces ==
  len > 0 /\ tpc # "failed" => \E o \in Runs(target, in_data) : Reproduces(o)

\* When the tool is done and the target is deterministic, no single byte can be left out of
\* what it wrote: a block that it skips, as it looks like its neighbour, would not go either.
NoByteToSpare ==
  tpc = "done" =>
    /\ out_data = in_data
    /\ \A p \in 0 .. Len(out_data) - 1 :
         LET runs == Runs(target, Cut(out_data, p, 1)) IN
           (\A o, q \in runs : o = q) => \A o \in runs : ~Reproduces(o)

\* Every pass but the last leaves fewer bytes, or fewer that are not '0': the tool comes to
\* an end whatever the target does.
Weight(d) == Len(d) + Cardinality({i \in DOMAIN d : d[i] # Plain})
PassesShrink == cur_pass > 0 => Weight(in_data) + cur_pass <= Weight(file) + 1
=============================================================================
