-------------------------------- MODULE Cmin --------------------------------
(***************************************************************************)
(* afl-cmin: run afl-showmap on every file of a corpus and link a subset   *)
(* that still has every tuple into the output directory.  The script may   *)
(* be killed and started again.  What a run of the target does is recorded *)
(* in the corpus: the hit counts of the tuples, a timeout, a crash.        *)
(***************************************************************************)
EXTENDS Naturals, Sequences, FiniteSets

CONSTANTS
  Corpora,            \* input directories, sequences of files in the order of their names
  Leftovers,          \* what may be in the output directory, [ids, others]
  CminRuns            \* bound: how often the script is started

VARIABLES
  cpc,                \* "off", "setup", "test", "collect", "candidates", "write", "done", "failed"
  corpus, flags,      \* flags: -e and -C
  out_dir,            \* the files the last start has linked, in this order, and what else is there
  traces,             \* .traces: for each file that has been run the tuples written
  best_file,          \* BEST_FILE[tuple]
  all_uniq,           \* the tuples still to be looked at, with their popularity
  already_have,
  starts

cminVars == <<cpc, corpus, flags, out_dir, traces, best_file, all_uniq, already_have, starts>>

-----------------------------------------------------------------------------
(* afl-showmap.                                                             *)

\* A fault: the classes of the binary format, one bit each.
BinaryClass(n) == CASE n <= 2 -> n [] n = 3 -> 4 [] n \in 4 .. 7 -> 8 [] n \in 8 .. 15 -> 16
                    [] n \in 16 .. 31 -> 32 [] n \in 32 .. 127 -> 64 [] OTHER -> 128

\* count_class_human: one digit.
HumanClass(n) == CASE n <= 3 -> n [] n \in 4 .. 7 -> 4 [] n \in 8 .. 15 -> 5
                   [] n \in 16 .. 31 -> 6 [] n \in 32 .. 127 -> 7 [] OTHER -> 8

Classes(trace, edges_only) ==
  [b \in DOMAIN trace |-> IF edges_only THEN (IF trace[b] = 0 THEN 0 ELSE 1) ELSE HumanClass(trace[b])]

\* A tuple in the syntax for afl-cmin: the class and the index, with nothing between.
TupleName(class, index) ==
  LET above == {p \in {10, 100, 1000, 10000, 100000} : index < p}
      unit == CHOOSE p \in above : \A q \in above : p <= q
  IN  class * unit + index

\* run_target and write_results with -Z.  A signal after a timeout is no crash.
Crashed(f) == ~f.timed_out /\ f.signal
Filtered(f, allow_any, crashes_only) ==
  f.timed_out \/ (~allow_any /\ Crashed(f) # crashes_only)
Showmap(f, edges_only, allow_any, crashes_only) ==
  LET c == Classes(f.trace, edges_only) IN
  IF Filtered(f, allow_any, crashes_only) THEN {}
  ELSE {TupleName(c[b], b) : b \in {x \in DOMAIN c : c[x] # 0}}

-----------------------------------------------------------------------------
CminInit ==
  /\ cpc = "off"
  /\ corpus \in Corpora
  /\ flags \in [edges_only : BOOLEAN, crashes_only : BOOLEAN]
  /\ \E l \in Leftovers : out_dir = [linked |-> <<>>, ids |-> l.ids, others |-> l.others]
  /\ traces = <<>> /\ best_file = <<>> /\ all_uniq = <<>> /\ already_have = {}
  /\ starts = 0

Start ==
  /\ cpc = "off" /\ starts < CminRuns
  /\ starts' = starts + 1
  /\ cpc' = "setup"
  /\ UNCHANGED <<corpus, flags, out_dir, traces, best_file, all_uniq, already_have>>

\* Files named id* give way, those of an earlier start as well; anything else stays and is in
\* the way.
Named(i) == corpus[i].is_id

Setup ==
  /\ cpc = "setup"
  /\ LET stays == out_dir.others \/ \E k \in DOMAIN out_dir.linked : ~Named(out_dir.linked[k]) IN
       /\ cpc' = IF stays \/ corpus = <<>> THEN "failed" ELSE "test"
       /\ out_dir' = [linked |-> <<>>, ids |-> FALSE, others |-> stays]
  /\ traces' = <<>> /\ best_file' = <<>> /\ all_uniq' = <<>> /\ already_have' = {}
  /\ UNCHANGED <<corpus, flags, starts>>

\* The first file has to yield tuples, crash or not.
TestRun ==
  /\ cpc = "test"
  /\ cpc' = IF Showmap(corpus[1], flags.edges_only, TRUE, flags.crashes_only) # {}
            THEN "collect" ELSE "failed"
  /\ UNCHANGED <<corpus, flags, out_dir, traces, best_file, all_uniq, already_have, starts>>

\* Step 1.
CollectTrace ==
  /\ cpc = "collect" /\ Len(traces) < Len(corpus)
  /\ traces' = Append(traces, Showmap(corpus[Len(traces) + 1], flags.edges_only, FALSE,
                                      flags.crashes_only))
  /\ UNCHANGED <<cpc, corpus, flags, out_dir, best_file, all_uniq, already_have, starts>>

AllTuples == UNION {traces[i] : i \in DOMAIN traces}
With(t) == {i \in DOMAIN traces : t \in traces[i]}

\* Step 2: sort | uniq -c.
SortTuples ==
  /\ cpc = "collect" /\ Len(traces) = Len(corpus)
  /\ all_uniq' = [t \in AllTuples |-> Cardinality(With(t))]
  /\ cpc' = "candidates"
  /\ UNCHANGED <<corpus, flags, out_dir, traces, best_file, already_have, starts>>

\* Steps 3 and 4: the files in the order of ls -rS, and the first of them for each tuple.
Before(i, j) == corpus[i].size < corpus[j].size \/ (corpus[i].size = corpus[j].size /\ i > j)
Best(t) == CHOOSE i \in With(t) : \A j \in With(t) \ {i} : Before(i, j)

FindCandidates ==
  /\ cpc = "candidates"
  /\ best_file' = [t \in AllTuples |-> Best(t)]
  /\ cpc' = IF AllTuples = {} THEN "failed" ELSE "write"
  /\ UNCHANGED <<corpus, flags, out_dir, traces, all_uniq, already_have, starts>>

\* Step 5: from the least popular tuple on.
IsNext(t) == \A u \in DOMAIN all_uniq : all_uniq[t] <= all_uniq[u]
Later(t) == [u \in DOMAIN all_uniq \ {t} |-> all_uniq[u]]

PickTuple(t) ==
  /\ cpc = "write" /\ t \in DOMAIN all_uniq /\ IsNext(t)
  /\ all_uniq' = Later(t)
  /\ IF t \in already_have THEN UNCHANGED <<out_dir, already_have>>
     ELSE LET f == best_file[t] IN
          /\ out_dir' = [out_dir EXCEPT !.linked = Append(@, f)]
          /\ already_have' = already_have \cup traces[f]
  /\ UNCHANGED <<cpc, corpus, flags, traces, best_file, starts>>

AllWritten ==
  /\ cpc = "write" /\ DOMAIN all_uniq = {}
  /\ cpc' = "done"
  /\ traces' = <<>> /\ best_file' = <<>> /\ already_have' = {}
  /\ UNCHANGED <<corpus, flags, out_dir, all_uniq, starts>>

CminKilled ==
  /\ cpc \in {"setup", "test", "collect", "candidates", "write"}
  /\ cpc' = "off"
  /\ UNCHANGED <<corpus, flags, out_dir, traces, best_file, all_uniq, already_have, starts>>

CminNext ==
  \/ Start \/ Setup \/ TestRun \/ CollectTrace \/ SortTuples \/ FindCandidates
  \/ \E t \in DOMAIN all_uniq : PickTuple(t)
  \/ AllWritten \/ CminKilled

CminSpec == CminInit /\ [][CminNext]_cminVars

-----------------------------------------------------------------------------
CminTypeOK ==
  /\ cpc \in {"off", "setup", "test", "collect", "candidates", "write", "done", "failed"}
  /\ \A k \in DOMAIN out_dir.linked : out_dir.linked[k] \in DOMAIN corpus
  /\ Len(traces) <= Len(corpus) /\ starts <= CminRuns

Kept == {out_dir.linked[k] : k \in DOMAIN out_dir.linked}
Usable(f) == ~f.timed_out /\ Crashed(f) = flags.crashes_only

\* Each edge of a file, as the user asked for it: the edge and how often it is hit.
Edges(f) == LET c == Classes(f.trace, flags.edges_only)
            IN  {<<b, c[b]>> : b \in {x \in DOMAIN c : c[x] # 0}}

\* When the script is done no edge of a usable file is lost, no other file has been kept, and
\* every file had something the earlier ones had not.
CorpusIsCovered ==
  cpc = "done" =>
    /\ \A i \in DOMAIN corpus : Usable(corpus[i]) =>
         Edges(corpus[i]) \subseteq UNION {Edges(corpus[k]) : k \in Kept}
    /\ \A k \in Kept : Usable(corpus[k])
    /\ \A n \in DOMAIN out_dir.linked :
         ~(Edges(corpus[out_dir.linked[n]]) \subseteq
             UNION {Edges(corpus[out_dir.linked[m]]) : m \in 1 .. n - 1})

\* Every kept file is, of all the usable ones, the smallest with one of its edges.
SmallestIsKept ==
  cpc = "done" =>
    \A k \in Kept : \E e \in Edges(corpus[k]) :
      \A i \in DOMAIN corpus : Usable(corpus[i]) /\ e \in Edges(corpus[i]) =>
        corpus[k].size <= corpus[i].size
=============================================================================
