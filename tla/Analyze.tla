------------------------------ MODULE Analyze -------------------------------
(***************************************************************************)
(* afl-analyze: every byte of a file is changed in four ways, the answers  *)
(* of the target classify the byte, and runs of bytes that the target      *)
(* tells apart from their neighbours are labelled by length and value.     *)
(***************************************************************************)
EXTENDS Integers, Sequences, FiniteSets

CONSTANTS
  Documents,          \* the input files
  Programs,           \* the targets
  Answers(_, _),      \* what a run of a target on some data may end like:
                      \* [timed_out, crashed, trace]; trace 0 has nothing set
  Limit,              \* a byte is below Limit, a power of two
  Delta,              \* 0x10, what is added and subtracted
  Apart,              \* 32, the distance of two bytes of a checksum
  MaxAutoExtra        \* MAX_AUTO_EXTRA

VARIABLES
  apc,                \* "start", "bytes", "dump", "done", "failed", "aborted"
  program, document,  \* what is analysed
  buf,                \* in_data
  byte, change,       \* i, and the change that is next
  orig,               \* orig_cksum
  sums, prev_sums,    \* checksums of this byte and of the byte before
  seq_byte, b_data,   \* the bit that marks a run; for each byte its response and the bit
  report              \* what dump_hex shows: [from, len, type]

analyzeVars == <<apc, program, document, buf, byte, change, orig, sums, prev_sums, seq_byte,
                 b_data, report>>

Resp == [none |-> 0, minor |-> 1, variable |-> 2, fixed |-> 3, length |-> 4, cksum |-> 5, suspect |-> 6]

\* A run that times out has checksum 0, one that crashes that of its trace, inverted.
Timeout == <<0, FALSE>>
Checksum(a) == IF a.timed_out THEN Timeout ELSE <<a.trace + 1, a.crashed>>

XorOne(b) == IF b % 2 = 0 THEN b + 1 ELSE b - 1
XorAll(b) == Limit - 1 - b

\* The changes follow one another on the same byte, and a last one takes them back.
Next4(b, c) == CASE c = 1 -> XorAll(b)
                 [] c = 2 -> XorOne(XorAll(b))
                 [] c = 3 -> (XorOne(b) - Delta) % Limit
                 [] c = 4 -> (b + 2 * Delta) % Limit
Restored4(b) == (b - Delta) % Limit

AnalyzeInit ==
  /\ apc = "start"
  /\ program \in Programs /\ document \in Documents /\ buf = document
  /\ byte = 1 /\ change = 1
  /\ orig = Timeout /\ sums = <<>> /\ prev_sums = [c \in 1 .. 4 |-> Timeout]
  /\ seq_byte = 0 /\ b_data = <<>> /\ report = <<>>

FirstRun ==
  /\ apc = "start"
  /\ \E a \in Answers(program, buf) :
       /\ orig' = Checksum(a)
       /\ apc' = IF a.timed_out \/ a.trace = 0 THEN "failed" ELSE "bytes"
  /\ UNCHANGED <<program, document, buf, byte, change, sums, prev_sums, seq_byte, b_data, report>>

ChangeByte ==
  /\ apc = "bytes" /\ byte <= Len(buf) /\ change <= 4
  /\ LET data == [buf EXCEPT ![byte] = Next4(@, change)] IN
       \E a \in Answers(program, data) :
         /\ sums' = Append(sums, Checksum(a))
         /\ buf' = IF change = 4 THEN [data EXCEPT ![byte] = Restored4(@)] ELSE data
  /\ change' = change + 1
  /\ UNCHANGED <<apc, program, document, byte, orig, prev_sums, seq_byte, b_data, report>>

Response ==
  LET same == {c \in 1 .. 4 : sums[c] = orig} IN
  IF same = 1 .. 4 THEN Resp.none
  ELSE IF same # {} THEN Resp.minor
  ELSE IF \A c \in 2 .. 4 : sums[c] = sums[1] THEN Resp.fixed ELSE Resp.variable

AllDiffer == \A c \in 1 .. 4 : sums[c] # prev_sums[c]

ClassifyByte ==
  /\ apc = "bytes" /\ change > 4
  /\ seq_byte' = IF AllDiffer THEN 1 - seq_byte ELSE seq_byte
  /\ b_data' = Append(b_data, [type |-> Response, bit |-> seq_byte'])
  /\ prev_sums' = sums /\ sums' = <<>>
  /\ byte' = byte + 1 /\ change' = 1
  /\ apc' = IF byte = Len(buf) THEN "dump" ELSE "bytes"
  /\ UNCHANGED <<program, document, buf, orig, report>>

-----------------------------------------------------------------------------
(* dump_hex                                                                 *)

\* The end of the run that starts at i.
RunEnd(i) == CHOOSE e \in i .. Len(b_data) :
  /\ \A k \in i .. e : b_data[k].bit = b_data[i].bit
  /\ e = Len(b_data) \/ b_data[e + 1].bit # b_data[i].bit

Strongest(i, e) == CHOOSE t \in {b_data[k].type : k \in i .. e} : \A k \in i .. e : b_data[k].type <= t

Little(s) == LET v[k \in 0 .. Len(s)] == IF k = 0 THEN 0 ELSE v[k - 1] + s[k] * Limit^(k - 1)
             IN  v[Len(s)]
Reversed(s) == [k \in DOMAIN s |-> s[Len(s) + 1 - k]]
SmallInteger(s) == Little(s) <= Len(buf) \/ Little(Reversed(s)) <= Len(buf)
Uniform(s) ==
  IF Len(s) = 2 THEN s[1] - s[2] > Apart \/ s[2] - s[1] > Apart
  ELSE \E k \in 2 .. 4 : (2 * s[1]) \div Limit # (2 * s[k]) \div Limit

\* A section whose answers are fixed, by its length and value.
Refined(s) ==
  IF Len(s) \in {2, 4}
  THEN IF Little(s) = 0 THEN Resp.fixed
       ELSE IF SmallInteger(s) THEN Resp.length
       ELSE IF Uniform(s) THEN Resp.cksum ELSE Resp.fixed
  ELSE IF Len(s) < MaxAutoExtra THEN Resp.fixed ELSE Resp.suspect

DumpRun ==
  /\ apc = "dump"
  /\ LET from == IF report = <<>> THEN 1 ELSE report[Len(report)].from + report[Len(report)].len
         end == RunEnd(from)
         type == Strongest(from, end)
     IN  /\ report' = Append(report, [from |-> from, len |-> end - from + 1,
                                      type |-> IF type = Resp.fixed
                                               THEN Refined(SubSeq(buf, from, end)) ELSE type])
         /\ apc' = IF end = Len(b_data) THEN "done" ELSE "dump"
  /\ UNCHANGED <<program, document, buf, byte, change, orig, sums, prev_sums, seq_byte, b_data>>

\* An interrupt during a run.
AnalysisAborted ==
  /\ apc \in {"start", "bytes"} /\ change <= 4
  /\ apc' = "aborted"
  /\ UNCHANGED <<program, document, buf, byte, change, orig, sums, prev_sums, seq_byte, b_data, report>>

AnalyzeNext == FirstRun \/ ChangeByte \/ ClassifyByte \/ DumpRun \/ AnalysisAborted

AnalyzeSpec == AnalyzeInit /\ [][AnalyzeNext]_analyzeVars

-----------------------------------------------------------------------------
AnalyzeTypeOK ==
  /\ \A i \in DOMAIN buf : buf[i] \in 0 .. Limit - 1
  /\ Len(buf) = Len(document) /\ Len(b_data) <= Len(document)

\* Every byte is tried with the others as they are in the file, whatever its value is.
OneByteAtATime ==
  /\ \A i \in DOMAIN buf : i # byte \/ change \in {1, 5} => buf[i] = document[i]
  /\ apc = "bytes" /\ change \in 2 .. 4 => buf[byte] # document[byte]

AnswersOf(i, b) == {Checksum(a) : a \in Answers(program, [document EXCEPT ![i] = b])}

\* The report goes through the file once, and a part of it that it calls a no-op does not
\* change the trace under any of the four changes.
ReportIsSound ==
  /\ \A r \in 1 .. Len(report) - 1 : report[r + 1].from = report[r].from + report[r].len
  /\ apc = "done" => /\ report[1].from = 1
                     /\ report[Len(report)].from + report[Len(report)].len = Len(document) + 1
  /\ \A r \in DOMAIN report : report[r].type = Resp.none =>
       \A i \in report[r].from .. report[r].from + report[r].len - 1 :
         \A b \in {XorAll(document[i]), XorOne(document[i]),
                   (document[i] - Delta) % Limit, (document[i] + Delta) % Limit} :
           orig \in AnswersOf(i, b)
=============================================================================
