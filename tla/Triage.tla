------------------------------- MODULE Triage -------------------------------
(***************************************************************************)
(* The second half of save_if_interesting: which crashes and hangs are     *)
(* kept.  A trace is simplified to "hit or not" and compared with a map of *)
(* its own, virgin_crash or virgin_tmout.  A hang is run again with the    *)
(* larger limit first, and that run may crash.                             *)
(***************************************************************************)
EXTENDS Naturals, Sequences, FiniteSets

CONSTANTS
  MapBytes,        \* the bytes of the trace
  Hits,            \* classified hit counts: 0 or one bit of the byte
  KeepUniqueHang, KeepUniqueCrash,
  MaxTotal         \* bound: timeouts and crashes seen

VARIABLES
  settings,        \* crash_mode, dumb_mode, and short: exec_tmout < hang_tmout
  virgin_tmout, virgin_crash,   \* for each byte the bits that are still set
  total_tmouts, unique_tmouts, unique_hangs,
  total_crashes, unique_crashes,
  hangs, crashes   \* the files: the run each was kept for, by its trace and its limit

triageVars == <<settings, virgin_tmout, virgin_crash, total_tmouts, unique_tmouts, unique_hangs,
                total_crashes, unique_crashes, hangs, crashes>>

Traces == [MapBytes -> Hits]

\* simplify_lookup: a byte of the trace becomes 1 or 128.
Simplify(t) == [b \in MapBytes |-> IF t[b] = 0 THEN 1 ELSE 128]

\* has_new_bits on one of the two maps.
HasNewBits(t, virgin) == \E b \in MapBytes : t[b] # 0 /\ t[b] \in virgin[b]
WithoutBits(t, virgin) == [b \in MapBytes |-> virgin[b] \ {t[b]}]
Pristine == [b \in MapBytes |-> (Hits \ {0}) \cup {1, 128}]

TriageInit ==
  /\ settings \in [crash_mode : BOOLEAN, dumb_mode : BOOLEAN, short : BOOLEAN]
  /\ virgin_tmout = Pristine /\ virgin_crash = Pristine
  /\ total_tmouts = 0 /\ unique_tmouts = 0 /\ unique_hangs = 0
  /\ total_crashes = 0 /\ unique_crashes = 0
  /\ hangs = <<>> /\ crashes = <<>>

Room == total_tmouts + total_crashes < MaxTotal

\* In crash mode the queue decides first, and a crash it has seen is only counted.
NothingNewForQueue ==
  /\ Room /\ settings.crash_mode
  /\ total_crashes' = total_crashes + 1
  /\ UNCHANGED <<settings, virgin_tmout, virgin_crash, total_tmouts, unique_tmouts, unique_hangs,
                 unique_crashes, hangs, crashes>>

\* keep_as_crash.  The trace is that of the last run there was: in crash mode that of the
\* calibration, after a hang that of the longer run.
KeepAsCrash(t, limit) ==
  LET s == IF settings.dumb_mode THEN t ELSE Simplify(t)
      below == unique_crashes < KeepUniqueCrash
      kept == below /\ (settings.dumb_mode \/ HasNewBits(s, virgin_crash))
  IN  /\ total_crashes' = total_crashes + 1
      /\ virgin_crash' = IF below /\ ~settings.dumb_mode THEN WithoutBits(s, virgin_crash)
                         ELSE virgin_crash
      /\ unique_crashes' = IF kept THEN unique_crashes + 1 ELSE unique_crashes
      /\ crashes' = IF kept THEN Append(crashes, [trace |-> t, limit |-> limit]) ELSE crashes

Crash(t) ==
  /\ Room
  /\ KeepAsCrash(t, "exec")
  /\ UNCHANGED <<settings, virgin_tmout, total_tmouts, unique_tmouts, unique_hangs, hangs>>

IsNewHang(t) ==
  /\ unique_hangs < KeepUniqueHang
  /\ settings.dumb_mode \/ HasNewBits(Simplify(t), virgin_tmout)

\* Counted, and no more.
KnownHang(t) ==
  /\ Room /\ ~IsNewHang(t)
  /\ total_tmouts' = total_tmouts + 1
  /\ UNCHANGED <<settings, virgin_tmout, virgin_crash, unique_tmouts, unique_hangs, total_crashes,
                 unique_crashes, hangs, crashes>>

\* The map of the hangs is written to before the second run is done.
CountNewHang(t) ==
  /\ Room /\ IsNewHang(t)
  /\ total_tmouts' = total_tmouts + 1
  /\ unique_tmouts' = unique_tmouts + 1
  /\ virgin_tmout' = IF settings.dumb_mode THEN virgin_tmout
                     ELSE WithoutBits(Simplify(t), virgin_tmout)

KeepHang(t) ==
  /\ CountNewHang(t)
  /\ unique_hangs' = unique_hangs + 1
  /\ hangs' = Append(hangs, [trace |-> t, limit |-> IF settings.short THEN "long" ELSE "exec"])
  /\ UNCHANGED <<settings, virgin_crash, total_crashes, unique_crashes, crashes>>

HangCrashesLater(t) ==
  /\ settings.short
  /\ CountNewHang(t)
  /\ \E t2 \in Traces : KeepAsCrash(t2, "long")
  /\ UNCHANGED <<settings, unique_hangs, hangs>>

\* The second run ends, or stop_soon has been set.
NotAHang(t) ==
  /\ settings.short
  /\ CountNewHang(t)
  /\ UNCHANGED <<settings, virgin_crash, unique_hangs, total_crashes, unique_crashes, hangs, crashes>>

TriageNext ==
  \/ NothingNewForQueue
  \/ \E t \in Traces : \/ Crash(t) \/ KnownHang(t)
                       \/ KeepHang(t) \/ HangCrashesLater(t) \/ NotAHang(t)

TriageSpec == TriageInit /\ [][TriageNext]_triageVars

-----------------------------------------------------------------------------
TriageTypeOK ==
  /\ \A b \in MapBytes : virgin_tmout[b] \subseteq Pristine[b] /\ virgin_crash[b] \subseteq Pristine[b]
  /\ total_tmouts + total_crashes <= MaxTotal + 1
  /\ Len(hangs) = unique_hangs /\ unique_hangs <= KeepUniqueHang
  /\ Len(crashes) = unique_crashes /\ unique_crashes <= KeepUniqueCrash

HitBy(run) == {b \in MapBytes : run.trace[b] # 0}

\* Which bytes a crash hits, and which it does not, sets every crash that is kept apart from
\* the earlier ones: it is alone with one of them.
NewAmong(files) ==
  \A i \in DOMAIN files :
    \E b \in MapBytes : \A j \in 1 .. i - 1 : (b \in HitBy(files[i])) # (b \in HitBy(files[j]))

\* Nothing but the crashes that are kept has used up what counts as new for a crash: no other
\* run keeps one out.
VirginIsWhatIsKept ==
  \A b \in MapBytes :
    /\ 128 \in virgin_crash[b] <=> \A i \in DOMAIN crashes : b \notin HitBy(crashes[i])
    /\ 1 \in virgin_crash[b] <=> \A i \in DOMAIN crashes : b \in HitBy(crashes[i])

\* A hang is only kept once it has outlasted the larger limit, a hang that was not one has
\* used up a number of unique_tmouts, but none of the files.
TriageSound ==
  /\ ~settings.dumb_mode => NewAmong(crashes) /\ VirginIsWhatIsKept
  /\ \A i \in DOMAIN hangs : hangs[i].limit = "long" <=> settings.short
  /\ unique_hangs <= unique_tmouts /\ unique_tmouts <= total_tmouts
  /\ unique_crashes <= total_crashes
=============================================================================
