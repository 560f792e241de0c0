---------------------------- MODULE PartsProofs -----------------------------
(***************************************************************************)
(* What is proved of triage, of the sessions and of the dictionary of      *)
(* detected tokens, for any map, limits, queue, tokens and number of       *)
(* sessions: the three processes of MCParts that crashes, kills and sorts  *)
(* interrupt.  Each has its own inductive invariant; PartsInv joins them.  *)
(* At the end, with what ToolsProofs has of the tools, the types of all    *)
(* parts, and the numbers of the state variables.                          *)
(***************************************************************************)
EXTENDS ToolsProofs

-----------------------------------------------------------------------------
(* Triage.                                                                 *)
TriageFiles == Seq([trace : Tr!Traces, limit : {"exec", "long"}])

TriageInv ==
  /\ settings \in [crash_mode : BOOLEAN, dumb_mode : BOOLEAN, short : BOOLEAN]
  /\ {total_tmouts, unique_tmouts, unique_hangs, total_crashes, unique_crashes} \subseteq Nat
  /\ hangs \in TriageFiles /\ crashes \in TriageFiles
  /\ Tr!TriageTypeOK /\ Tr!TriageSound

(* What a kept crash takes out of virgin_crash is what it stands for.      *)
LEMMA TriageStart == Tr!TriageInit => TriageInv
<1>. SUFFICES ASSUME Tr!TriageInit PROVE TriageInv
  OBVIOUS
<1>1. /\ settings \in [crash_mode : BOOLEAN, dumb_mode : BOOLEAN, short : BOOLEAN]
      /\ virgin_tmout = Tr!Pristine /\ virgin_crash = Tr!Pristine
      /\ total_tmouts = 0 /\ unique_tmouts = 0 /\ unique_hangs = 0
      /\ total_crashes = 0 /\ unique_crashes = 0 /\ hangs = <<>> /\ crashes = <<>>
  BY DEF Tr!TriageInit
<1>2. hangs \in TriageFiles /\ crashes \in TriageFiles /\ Len(hangs) = 0 /\ Len(crashes) = 0
      /\ DOMAIN hangs = {} /\ DOMAIN crashes = {}
  BY <1>1, EmptySeq DEF TriageFiles
<1>3. \A b \in MapBytes : Tr!Pristine[b] = (Hits \ {0}) \cup {1, 128}
  BY DEF Tr!Pristine
<1>4. Tr!TriageTypeOK
  BY <1>1, <1>2, PartsAssumption DEF Tr!TriageTypeOK
<1>5. Tr!TriageSound
  BY <1>1, <1>2, <1>3 DEF Tr!TriageSound, Tr!NewAmong, Tr!VirginIsWhatIsKept
<1>. QED  BY <1>1, <1>2, <1>4, <1>5 DEF TriageInv

LEMMA Appended ==
  ASSUME NEW T, NEW fs \in Seq(T), NEW x \in T
  PROVE  /\ Append(fs, x) \in Seq(T) /\ Len(Append(fs, x)) = Len(fs) + 1 /\ Len(fs) \in Nat
         /\ DOMAIN fs = 1 .. Len(fs) /\ DOMAIN Append(fs, x) = DOMAIN fs \cup {Len(fs) + 1}
         /\ \A i \in DOMAIN fs : Append(fs, x)[i] = fs[i]
         /\ Append(fs, x)[Len(fs) + 1] = x /\ Len(fs) + 1 \notin DOMAIN fs
<1>1. /\ Append(fs, x) \in Seq(T) /\ Len(Append(fs, x)) = Len(fs) + 1 /\ Len(fs) \in Nat
      /\ DOMAIN fs = 1 .. Len(fs) /\ DOMAIN Append(fs, x) = 1 .. Len(fs) + 1
      /\ \A i \in 1 .. Len(fs) : Append(fs, x)[i] = fs[i]
      /\ Append(fs, x)[Len(fs) + 1] = x
  BY AppendProperties, LenProperties
<1>2. \A n \in Nat : 1 .. n + 1 = (1 .. n) \cup {n + 1} /\ n + 1 \notin 1 .. n
  OBVIOUS
<1>. QED  BY <1>1, <1>2

(* A crash that is kept takes out of virgin_crash what it stands for, one  *)
(* that is not new takes nothing.                                          *)
LEMMA CrashKept ==
  ASSUME TriageInv, NEW t \in Tr!Traces, NEW limit \in {"exec", "long"},
         Tr!KeepAsCrash(t, limit), UNCHANGED settings
  PROVE  /\ total_crashes' = total_crashes + 1 /\ unique_crashes' \in Nat
         /\ unique_crashes' <= total_crashes' /\ unique_crashes' <= KeepUniqueCrash
         /\ crashes' \in TriageFiles /\ Len(crashes') = unique_crashes'
         /\ \A b \in MapBytes : virgin_crash'[b] \subseteq Tr!Pristine[b]
         /\ ~ settings.dumb_mode => Tr!NewAmong(crashes') /\ Tr!VirginIsWhatIsKept'
<1>. DEFINE simple == IF settings.dumb_mode THEN t ELSE Tr!Simplify(t)
            below == unique_crashes < KeepUniqueCrash
            keeps == below /\ (settings.dumb_mode \/ Tr!HasNewBits(simple, virgin_crash))
            run == [trace |-> t, limit |-> limit]
            Run == [trace : Tr!Traces, limit : {"exec", "long"}]
<1>1. /\ total_crashes' = total_crashes + 1
      /\ virgin_crash' = IF below /\ ~settings.dumb_mode THEN Tr!WithoutBits(simple, virgin_crash)
                         ELSE virgin_crash
      /\ unique_crashes' = IF keeps THEN unique_crashes + 1 ELSE unique_crashes
      /\ crashes' = IF keeps THEN Append(crashes, run) ELSE crashes
  BY DEF Tr!KeepAsCrash
<1>2. /\ unique_crashes \in Nat /\ total_crashes \in Nat /\ crashes \in TriageFiles
      /\ \A b \in MapBytes : virgin_crash[b] \subseteq Tr!Pristine[b]
      /\ Len(crashes) = unique_crashes /\ unique_crashes <= KeepUniqueCrash /\ unique_crashes <= total_crashes
      /\ ~ settings.dumb_mode => Tr!NewAmong(crashes) /\ Tr!VirginIsWhatIsKept
  BY DEF TriageInv, Tr!TriageTypeOK, Tr!TriageSound
<1>3. crashes \in Seq(Run) /\ run \in Run
  BY <1>2 DEF TriageFiles
<1>4. KeepUniqueCrash \in Nat
  BY PartsAssumption
<1>5. /\ unique_crashes' \in Nat /\ unique_crashes' <= total_crashes' /\ unique_crashes' <= KeepUniqueCrash
  BY <1>1, <1>2, <1>4
<1>. HIDE DEF Run, run
<1>6. crashes' \in Seq(Run) /\ Len(crashes') = unique_crashes'
  BY <1>1, <1>2, <1>3, Appended
<1>7. \A b \in MapBytes : virgin_crash'[b] \subseteq virgin_crash[b]
  BY <1>1 DEF Tr!WithoutBits
<1>8. ASSUME ~ settings.dumb_mode, below PROVE Tr!NewAmong(crashes') /\ Tr!VirginIsWhatIsKept'
  <2>1. /\ simple = Tr!Simplify(t) /\ virgin_crash' = Tr!WithoutBits(simple, virgin_crash)
        /\ Tr!NewAmong(crashes) /\ Tr!VirginIsWhatIsKept
    BY <1>1, <1>2, <1>8
  <2>2. \A b \in MapBytes : simple[b] = IF b \in Tr!HitBy(run) THEN 128 ELSE 1
    BY <2>1 DEF Tr!Simplify, Tr!HitBy, run
  <2>3. \A b \in MapBytes : virgin_crash'[b] = virgin_crash[b] \ {simple[b]}
    BY <2>1 DEF Tr!WithoutBits
  <2>. HIDE DEF simple
  <2>4. CASE Tr!HasNewBits(simple, virgin_crash)
    <3>1. crashes' = Append(crashes, run)
      BY <1>1, <1>8, <2>4
    <3>. DEFINE n == Len(crashes) + 1
    <3>2. /\ DOMAIN crashes' = DOMAIN crashes \cup {n} /\ n \notin DOMAIN crashes
          /\ DOMAIN crashes = 1 .. n - 1 /\ n \in Nat
          /\ \A i \in DOMAIN crashes : crashes'[i] = crashes[i]
          /\ crashes'[n] = run
      BY <1>3, <3>1, Appended
    <3>. HIDE DEF n
    <3>3. PICK b \in MapBytes : simple[b] \in virgin_crash[b]
      BY <2>4 DEF Tr!HasNewBits
    <3>4. \A j \in 1 .. n - 1 : (b \in Tr!HitBy(run)) # (b \in Tr!HitBy(crashes[j]))
      BY <2>1, <2>2, <3>2, <3>3 DEF Tr!VirginIsWhatIsKept
    <3>5. \A i \in DOMAIN crashes : 1 .. i - 1 \subseteq DOMAIN crashes
      BY <3>2
    <3>6. Tr!NewAmong(crashes')
      <4>1. \A i \in DOMAIN crashes :
              \E c \in MapBytes : \A j \in 1 .. i - 1 :
                (c \in Tr!HitBy(crashes[i])) # (c \in Tr!HitBy(crashes[j]))
        BY <2>1 DEF Tr!NewAmong
      <4>2. \A i \in DOMAIN crashes : \A j \in 1 .. i - 1 : crashes'[j] = crashes[j]
        BY <3>2, <3>5
      <4>3. \A j \in 1 .. n - 1 : crashes'[j] = crashes[j]
        BY <3>2
      <4>. QED  BY <3>2, <3>4, <4>1, <4>2, <4>3 DEF Tr!NewAmong
    <3>7. ASSUME NEW c \in MapBytes
          PROVE  /\ 128 \in virgin_crash'[c] <=> \A i \in DOMAIN crashes' : c \notin Tr!HitBy(crashes'[i])
                 /\ 1 \in virgin_crash'[c] <=> \A i \in DOMAIN crashes' : c \in Tr!HitBy(crashes'[i])
      <4>1. /\ 128 \in virgin_crash[c] <=> \A i \in DOMAIN crashes : c \notin Tr!HitBy(crashes[i])
            /\ 1 \in virgin_crash[c] <=> \A i \in DOMAIN crashes : c \in Tr!HitBy(crashes[i])
        BY <2>1 DEF Tr!VirginIsWhatIsKept
      <4>2. /\ (\A i \in DOMAIN crashes' : c \notin Tr!HitBy(crashes'[i]))
                 <=> (\A i \in DOMAIN crashes : c \notin Tr!HitBy(crashes[i])) /\ c \notin Tr!HitBy(run)
            /\ (\A i \in DOMAIN crashes' : c \in Tr!HitBy(crashes'[i]))
                 <=> (\A i \in DOMAIN crashes : c \in Tr!HitBy(crashes[i])) /\ c \in Tr!HitBy(run)
        BY <3>2
      <4>3. /\ 128 \in virgin_crash'[c] <=> 128 \in virgin_crash[c] /\ c \notin Tr!HitBy(run)
            /\ 1 \in virgin_crash'[c] <=> 1 \in virgin_crash[c] /\ c \in Tr!HitBy(run)
        BY <2>2, <2>3
      <4>. QED  BY <4>1, <4>2, <4>3
    <3>. QED  BY <3>6, <3>7 DEF Tr!VirginIsWhatIsKept
  <2>5. CASE ~ Tr!HasNewBits(simple, virgin_crash)
    <3>1. crashes' = crashes
      BY <1>1, <1>8, <2>5 DEF simple
    <3>2. \A b \in MapBytes : simple[b] \notin virgin_crash[b]
      BY <2>2, <2>5 DEF Tr!HasNewBits
    <3>3. \A b \in MapBytes : virgin_crash'[b] = virgin_crash[b]
      BY <2>3, <3>2
    <3>. QED  BY <2>1, <3>1, <3>3 DEF Tr!VirginIsWhatIsKept
  <2>. QED  BY <2>4, <2>5
<1>9. ASSUME ~ settings.dumb_mode, ~ below PROVE Tr!NewAmong(crashes') /\ Tr!VirginIsWhatIsKept'
  BY <1>1, <1>2, <1>9 DEF Tr!VirginIsWhatIsKept
<1>. HIDE DEF simple
<1>. QED  BY <1>1, <1>2, <1>5, <1>6, <1>7, <1>8, <1>9 DEF TriageFiles, Run

(* Pulling a new hang out of virgin_tmout leaves the map within its bits.  *)
LEMMA HangCounted ==
  ASSUME TriageInv, NEW t \in Tr!Traces, Tr!CountNewHang(t), UNCHANGED settings
  PROVE  /\ total_tmouts' = total_tmouts + 1 /\ unique_tmouts' = unique_tmouts + 1
         /\ unique_hangs < KeepUniqueHang
         /\ total_tmouts + total_crashes < MaxTotal
         /\ \A b \in MapBytes : virgin_tmout'[b] \subseteq Tr!Pristine[b]
<1>1. /\ Tr!Room /\ Tr!IsNewHang(t)
      /\ total_tmouts' = total_tmouts + 1 /\ unique_tmouts' = unique_tmouts + 1
      /\ virgin_tmout' = IF settings.dumb_mode THEN virgin_tmout
                         ELSE Tr!WithoutBits(Tr!Simplify(t), virgin_tmout)
  BY DEF Tr!CountNewHang
<1>2. \A b \in MapBytes : virgin_tmout[b] \subseteq Tr!Pristine[b]
  BY DEF TriageInv, Tr!TriageTypeOK
<1>3. \A b \in MapBytes : virgin_tmout'[b] \subseteq virgin_tmout[b]
  BY <1>1 DEF Tr!WithoutBits
<1>. QED  BY <1>1, <1>2, <1>3 DEF Tr!Room, Tr!IsNewHang

LEMMA TriageFacts ==
  ASSUME TriageInv
  PROVE  /\ settings \in [crash_mode : BOOLEAN, dumb_mode : BOOLEAN, short : BOOLEAN]
         /\ total_tmouts \in Nat /\ unique_tmouts \in Nat /\ unique_hangs \in Nat
         /\ total_crashes \in Nat /\ unique_crashes \in Nat
         /\ hangs \in TriageFiles /\ crashes \in TriageFiles
         /\ \A b \in MapBytes : virgin_tmout[b] \subseteq Tr!Pristine[b] /\ virgin_crash[b] \subseteq Tr!Pristine[b]
         /\ total_tmouts + total_crashes <= MaxTotal + 1
         /\ Len(hangs) = unique_hangs /\ unique_hangs <= KeepUniqueHang
         /\ Len(crashes) = unique_crashes /\ unique_crashes <= KeepUniqueCrash
         /\ ~settings.dumb_mode => Tr!NewAmong(crashes) /\ Tr!VirginIsWhatIsKept
         /\ \A i \in DOMAIN hangs : hangs[i].limit = "long" <=> settings.short
         /\ unique_hangs <= unique_tmouts /\ unique_tmouts <= total_tmouts
         /\ unique_crashes <= total_crashes
         /\ KeepUniqueHang \in Nat /\ KeepUniqueCrash \in Nat /\ MaxTotal \in Nat
BY PartsAssumption DEF TriageInv, Tr!TriageTypeOK, Tr!TriageSound

LEMMA CrashStep == ASSUME TriageInv, NEW t \in Tr!Traces, Tr!Crash(t) PROVE TriageInv'
<1>1. /\ Tr!Room /\ Tr!KeepAsCrash(t, "exec")
      /\ UNCHANGED <<settings, virgin_tmout, total_tmouts, unique_tmouts, unique_hangs, hangs>>
  BY DEF Tr!Crash
<1>2. /\ total_crashes' = total_crashes + 1 /\ unique_crashes' \in Nat
      /\ unique_crashes' <= total_crashes' /\ unique_crashes' <= KeepUniqueCrash
      /\ crashes' \in TriageFiles /\ Len(crashes') = unique_crashes'
      /\ \A b \in MapBytes : virgin_crash'[b] \subseteq Tr!Pristine[b]
      /\ ~ settings.dumb_mode => Tr!NewAmong(crashes') /\ Tr!VirginIsWhatIsKept'
  BY <1>1, CrashKept
<1>3. Tr!TriageTypeOK'
  BY <1>1, <1>2, TriageFacts DEF Tr!TriageTypeOK, Tr!Room
<1>4. Tr!TriageSound'
  BY <1>1, <1>2, TriageFacts DEF Tr!TriageSound
<1>. QED  BY <1>1, <1>2, <1>3, <1>4, TriageFacts DEF TriageInv

LEMMA KeepHangStep == ASSUME TriageInv, NEW t \in Tr!Traces, Tr!KeepHang(t) PROVE TriageInv'
<1>. DEFINE Run == [trace : Tr!Traces, limit : {"exec", "long"}]
            run == [trace |-> t, limit |-> IF settings.short THEN "long" ELSE "exec"]
<1>0. /\ total_tmouts \in Nat /\ unique_tmouts \in Nat /\ unique_hangs \in Nat
      /\ total_crashes \in Nat /\ unique_crashes \in Nat
      /\ \A b \in MapBytes : virgin_crash[b] \subseteq Tr!Pristine[b]
      /\ Len(hangs) = unique_hangs
      /\ Len(crashes) = unique_crashes /\ unique_crashes <= KeepUniqueCrash
      /\ ~settings.dumb_mode => Tr!NewAmong(crashes) /\ Tr!VirginIsWhatIsKept
      /\ unique_hangs <= unique_tmouts /\ unique_tmouts <= total_tmouts
      /\ unique_crashes <= total_crashes
      /\ KeepUniqueHang \in Nat /\ MaxTotal \in Nat
  BY TriageFacts
<1>1. /\ Tr!CountNewHang(t) /\ unique_hangs' = unique_hangs + 1
      /\ hangs' = Append(hangs, run)
      /\ UNCHANGED <<settings, virgin_crash, total_crashes, unique_crashes, crashes>>
  BY DEF Tr!KeepHang
<1>2. /\ total_tmouts' = total_tmouts + 1 /\ unique_tmouts' = unique_tmouts + 1
      /\ unique_hangs < KeepUniqueHang
      /\ total_tmouts + total_crashes < MaxTotal
      /\ \A b \in MapBytes : virgin_tmout'[b] \subseteq Tr!Pristine[b]
  BY <1>1, HangCounted
<1>10. unique_hangs' = unique_hangs + 1 /\ UNCHANGED <<settings, virgin_crash, total_crashes, unique_crashes, crashes>>
  BY <1>1
<1>3. hangs \in Seq(Run) /\ run \in Run /\ (run.limit = "long" <=> settings.short)
  BY TriageFacts DEF TriageFiles
<1>. HIDE DEF Run, run
<1>4. /\ hangs' \in Seq(Run) /\ Len(hangs') = Len(hangs) + 1
      /\ \A i \in DOMAIN hangs' : hangs'[i] = run \/ (i \in DOMAIN hangs /\ hangs'[i] = hangs[i])
  BY <1>1, <1>3, Appended
<1>5. Tr!TriageTypeOK'
  <2>1. \A b \in MapBytes : virgin_tmout'[b] \subseteq Tr!Pristine[b] /\ virgin_crash'[b] \subseteq Tr!Pristine[b]
    BY <1>0, <1>2, <1>10
  <2>2. total_tmouts' + total_crashes' <= MaxTotal + 1
    BY <1>0, <1>2, <1>10
  <2>3. Len(hangs') = unique_hangs' /\ unique_hangs' <= KeepUniqueHang
    BY <1>0, <1>2, <1>4, <1>10
  <2>4. Len(crashes') = unique_crashes' /\ unique_crashes' <= KeepUniqueCrash
    BY <1>0, <1>10
  <2>. QED  BY <2>1, <2>2, <2>3, <2>4 DEF Tr!TriageTypeOK
<1>6. \A i \in DOMAIN hangs' : hangs'[i].limit = "long" <=> settings'.short
  BY <1>1, <1>3, <1>4, TriageFacts
<1>7. ~settings'.dumb_mode => Tr!NewAmong(crashes)' /\ Tr!VirginIsWhatIsKept'
  BY <1>0, <1>10 DEF Tr!VirginIsWhatIsKept
<1>8. Tr!TriageSound'
  <2>1. unique_hangs' <= unique_tmouts' /\ unique_tmouts' <= total_tmouts' /\ unique_crashes' <= total_crashes'
    BY <1>0, <1>2, <1>10
  <2>. QED  BY <1>6, <1>7, <2>1 DEF Tr!TriageSound
<1>9. hangs' \in TriageFiles
  BY <1>4 DEF TriageFiles, Run
<1>. QED  BY SMTT(40), <1>1, <1>2, <1>5, <1>8, <1>9, TriageFacts DEF TriageInv

LEMMA HangCrashesStep == ASSUME TriageInv, NEW t \in Tr!Traces, Tr!HangCrashesLater(t) PROVE TriageInv'
<1>1. /\ Tr!CountNewHang(t) /\ \E t2 \in Tr!Traces : Tr!KeepAsCrash(t2, "long")
      /\ UNCHANGED <<settings, unique_hangs, hangs>>
  BY DEF Tr!HangCrashesLater
<1>2. /\ total_tmouts' = total_tmouts + 1 /\ unique_tmouts' = unique_tmouts + 1
      /\ total_tmouts + total_crashes < MaxTotal
      /\ \A b \in MapBytes : virgin_tmout'[b] \subseteq Tr!Pristine[b]
  BY <1>1, HangCounted
<1>3. /\ total_crashes' = total_crashes + 1 /\ unique_crashes' \in Nat
      /\ unique_crashes' <= total_crashes' /\ unique_crashes' <= KeepUniqueCrash
      /\ crashes' \in TriageFiles /\ Len(crashes') = unique_crashes'
      /\ \A b \in MapBytes : virgin_crash'[b] \subseteq Tr!Pristine[b]
      /\ ~ settings.dumb_mode => Tr!NewAmong(crashes') /\ Tr!VirginIsWhatIsKept'
  BY <1>1, CrashKept
<1>4. Tr!TriageTypeOK'
  BY SMTT(40), <1>1, <1>2, <1>3, TriageFacts DEF Tr!TriageTypeOK
<1>5. Tr!TriageSound'
  BY SMTT(40), <1>1, <1>2, <1>3, TriageFacts DEF Tr!TriageSound
<1>. QED  BY SMTT(40), <1>1, <1>2, <1>3, <1>4, <1>5, TriageFacts DEF TriageInv

(* A step that keeps nothing.                                              *)
LEMMA CountStep ==
  ASSUME TriageInv, UNCHANGED <<settings, virgin_crash, unique_hangs, unique_crashes, hangs, crashes>>,
         total_tmouts' \in Nat, total_crashes' \in Nat, unique_tmouts' \in Nat,
         total_tmouts' + total_crashes' <= MaxTotal + 1,
         unique_hangs <= unique_tmouts', unique_tmouts' <= total_tmouts', unique_crashes <= total_crashes',
         \A b \in MapBytes : virgin_tmout'[b] \subseteq Tr!Pristine[b]
  PROVE  TriageInv'
<1>1. Tr!TriageTypeOK'
  BY TriageFacts DEF Tr!TriageTypeOK
<1>2. ~settings'.dumb_mode => Tr!NewAmong(crashes)' /\ Tr!VirginIsWhatIsKept'
  BY TriageFacts DEF Tr!VirginIsWhatIsKept
<1>3. Tr!TriageSound'
  BY <1>2, TriageFacts DEF Tr!TriageSound
<1>. QED  BY <1>1, <1>3, TriageFacts DEF TriageInv

LEMMA TriageStep == TriageInv /\ (Tr!TriageNext \/ UNCHANGED triage) => TriageInv'
<1>. SUFFICES ASSUME TriageInv, Tr!TriageNext \/ UNCHANGED triage PROVE TriageInv'
  OBVIOUS
<1>1. CASE Tr!NothingNewForQueue
  BY <1>1, CountStep, TriageFacts DEF Tr!NothingNewForQueue, Tr!Room
<1>2. ASSUME NEW t \in Tr!Traces, Tr!Crash(t) PROVE TriageInv'
  BY <1>2, CrashStep
<1>3. ASSUME NEW t \in Tr!Traces, Tr!KnownHang(t) PROVE TriageInv'
  BY <1>3, CountStep, TriageFacts DEF Tr!KnownHang, Tr!Room
<1>4. ASSUME NEW t \in Tr!Traces, Tr!KeepHang(t) PROVE TriageInv'
  BY <1>4, KeepHangStep
<1>5. ASSUME NEW t \in Tr!Traces, Tr!HangCrashesLater(t) PROVE TriageInv'
  BY <1>5, HangCrashesStep
<1>6. ASSUME NEW t \in Tr!Traces, Tr!NotAHang(t) PROVE TriageInv'
  <2>1. /\ Tr!CountNewHang(t)
        /\ UNCHANGED <<settings, virgin_crash, unique_hangs, total_crashes, unique_crashes, hangs, crashes>>
    BY <1>6 DEF Tr!NotAHang
  <2>2. /\ total_tmouts' = total_tmouts + 1 /\ unique_tmouts' = unique_tmouts + 1
        /\ total_tmouts + total_crashes < MaxTotal
        /\ \A b \in MapBytes : virgin_tmout'[b] \subseteq Tr!Pristine[b]
    BY <2>1, HangCounted
  <2>. QED  BY <2>1, <2>2, CountStep, TriageFacts
<1>7. CASE UNCHANGED triage
  BY <1>7, CountStep, TriageFacts DEF triage
<1>. QED  BY <1>1, <1>2, <1>3, <1>4, <1>5, <1>6, <1>7 DEF Tr!TriageNext

-----------------------------------------------------------------------------
(* Sessions.  What is true between two steps of main, whatever part of a   *)
(* session it stands in.                                                   *)
Origins == {"none", "given", "scaled", "cut"}
Early == {"down", "pivot_inputs", "find_timeout", "dry_run"}
Kept == [files : SUBSET Nat, readme : BOOLEAN, backup : [Seconds -> SUBSET Nat]]

SessionTypes ==
  /\ at \in {"down", "pivot_inputs", "find_timeout", "dry_run", "write_first", "write_minute", "write_last", "cycle", "fuzz"}
  /\ given \in SessionOptions \cup {Se!NoOptions}
  /\ resuming \in BOOLEAN /\ found \in BOOLEAN /\ use_splicing \in BOOLEAN
  /\ stats \in [file : {"none", "empty", "full"}, cur_path : Nat, exec_timeout : Nat]
  /\ settled \in [tmout : Nat, origin : Origins] /\ origin \in Origins
  /\ exec_tmout \in Nat /\ timeout_given \in {0, 1, 3} /\ timing \in Timings
  /\ paths \in 0 .. MaxPaths /\ pending \subseteq 1 .. paths /\ failing \subseteq {1} /\ lost \subseteq 1 .. paths
  /\ current_entry \in Nat /\ seek_to \in Nat /\ prev_queued \in Nat /\ cycles_wo_finds \in Nat /\ quiet \in Nat
  /\ stop_soon \in 0 .. 2 /\ sessions \in Nat

(* Long enough for the slowest case the dry run saw.                       *)
Enough(ms) == 1000 * ms > timing.max \/ ms = Se!EXEC_TIMEOUT

(* What the stats file says of the timeout is what was settled on, and     *)
(* nobody scales it again once it is read or given.                        *)
TimeoutInv ==
  /\ exec_tmout >= 5
  /\ stats.file = "full" => stats.exec_timeout = settled.tmout /\ settled.tmout >= 5
  /\ origin = "scaled" => Enough(exec_tmout)
  /\ settled.origin = "scaled" => Enough(settled.tmout)
  /\ at \in {"pivot_inputs", "find_timeout"} => (timeout_given = 0 <=> given.t = 0)
  /\ at = "dry_run" /\ resuming /\ given.t = 0 /\ stats.file = "full" =>
       exec_tmout = settled.tmout /\ timeout_given # 0
  /\ Se!Running /\ resuming /\ given.t = 0 /\ stats.file = "full" => exec_tmout = settled.tmout

PositionInv ==
  /\ at # "down" => paths >= 1
  /\ at \in Early => current_entry = 0 /\ seek_to = 0
  /\ Se!Running => seek_to < paths
  /\ at \in {"fuzz", "write_minute"} => current_entry < paths

(* A find makes the queue longer than it was at the start of the cycle.    *)
DoneInv ==
  /\ at = "down" => stop_soon = 0
  /\ at \in Early \cup {"write_first"} => prev_queued = 0 /\ cycles_wo_finds = 0 /\ quiet = 0 /\ ~found /\ stop_soon # 2
  /\ prev_queued <= paths /\ (found => prev_queued < paths)
  /\ found \/ prev_queued = 0 => cycles_wo_finds = 0
  /\ at = "cycle" => stop_soon # 2
  /\ at \notin {"down", "pivot_inputs"} => failing \subseteq pending
  /\ Se!DoneIsDone

DirsInv ==
  /\ dirs \in [Se!Kinds -> Kept] /\ kept \in [Se!Kinds -> SUBSET Nat] /\ clash \in BOOLEAN
  /\ Se!NothingOverwritten

SessionInv == SessionTypes /\ TimeoutInv /\ PositionInv /\ DoneInv /\ DirsInv

LEMMA SessionStart == Se!SessionInit => SessionInv
<1>. SUFFICES ASSUME Se!SessionInit PROVE SessionInv
  OBVIOUS
<1>. USE DEF Se!SessionInit
<1>1. SessionTypes
  <2>1. /\ given \in SessionOptions \cup {Se!NoOptions} /\ resuming \in BOOLEAN /\ found \in BOOLEAN
        /\ use_splicing \in BOOLEAN
    OBVIOUS
  <2>2. /\ stats \in [file : {"none", "empty", "full"}, cur_path : Nat, exec_timeout : Nat]
        /\ settled \in [tmout : Nat, origin : Origins] /\ origin \in Origins
    BY DEF Se!NoStats, Origins
  <2>3. 0 \in 0 .. MaxPaths
    BY PartsAssumption
  <2>. QED  BY <2>1, <2>2, <2>3 DEF SessionTypes, Se!EXEC_TIMEOUT
<1>2. TimeoutInv
  BY DEF TimeoutInv, Se!EXEC_TIMEOUT, Se!NoStats, Se!Running
<1>3. PositionInv
  BY DEF PositionInv, Early, Se!Running
<1>4. DoneInv
  BY DEF DoneInv, Early, Se!DoneIsDone
<1>5. DirsInv
  BY DEF DirsInv, Kept, Se!NothingOverwritten
<1>. QED  BY <1>1, <1>2, <1>3, <1>4, <1>5 DEF SessionInv

LEMMA SessionImplies == SessionInv => Se!SessionSound
BY DEF SessionInv, TimeoutInv, PositionInv, DoneInv, DirsInv, Se!SessionSound, Se!TimeoutIsKept,
       Se!PositionInQueue, Enough

(* Scaling rounds up to the next 20 ms beyond the slowest case.            *)
LEMMA ScaledEnough ==
  ASSUME NEW m, m.avg \in Nat, m.max \in Nat
  PROVE  /\ Se!Scaled(m) \in Nat /\ Se!Scaled(m) >= 5
         /\ 1000 * Se!Scaled(m) > m.max \/ Se!Scaled(m) = Se!EXEC_TIMEOUT
<1>. DEFINE times  == IF m.avg > 50000 THEN 2 ELSE IF m.avg > 10000 THEN 3 ELSE 5
            wanted == (m.avg * times) \div 1000
            slowest == m.max \div 1000
            enough == Se!AtLeast(wanted, slowest)
            rounded == ((enough + 20) \div 20) * 20
<1>1. wanted \in Nat
  <2>1. m.avg * 2 \in Nat /\ m.avg * 3 \in Nat /\ m.avg * 5 \in Nat
    OBVIOUS
  <2>2. \A x \in Nat : x \div 1000 \in Nat
    OBVIOUS
  <2>. QED  BY <2>1, <2>2
<1>2. slowest \in Nat /\ 1000 * slowest + 1000 > m.max
  OBVIOUS
<1>. HIDE DEF wanted, slowest
<1>3. enough \in Nat /\ enough >= slowest
  BY <1>1, <1>2 DEF Se!AtLeast
<1>. HIDE DEF enough
<1>4. rounded \in Nat /\ rounded > enough /\ rounded >= 20
  <2>1. \A x \in Nat : (x + 20) \div 20 \in Nat /\ 20 * ((x + 20) \div 20) > x /\ (x + 20) \div 20 >= 1
    OBVIOUS
  <2>. QED  BY <1>3, <2>1
<1>5. Se!Scaled(m) = Se!AtMost(Se!EXEC_TIMEOUT, rounded)
  BY DEF Se!Scaled, Se!EXEC_TM_ROUND, enough, wanted, slowest
<1>. HIDE DEF rounded
<1>6. 1000 * rounded > m.max
  <2>1. rounded >= slowest + 1
    BY <1>2, <1>3, <1>4
  <2>2. 1000 * rounded >= 1000 * slowest + 1000
    BY <2>1, <1>2, <1>4
  <2>. QED  BY <2>2, <1>2, <1>4
<1>. QED  BY <1>4, <1>5, <1>6 DEF Se!AtMost, Se!EXEC_TIMEOUT

-----------------------------------------------------------------------------
LEMMA SessionTypesStart == ASSUME SessionInv, Se!Start PROVE SessionTypes'
<1>1. PICK o \in SessionOptions : Se!Takes(o)
  BY DEF Se!Start
<1>2. /\ given' \in SessionOptions /\ sessions' \in Nat /\ origin' \in Origins
      /\ UNCHANGED <<current_entry, seek_to, prev_queued, cycles_wo_finds, use_splicing, stop_soon, timing, quiet, found>>
  BY <1>1 DEF Se!Takes, Se!position, SessionInv, SessionTypes, Origins
<1>3. exec_tmout' \in Nat /\ timeout_given' \in {0, 1, 3}
  BY <1>1, PartsAssumption DEF Se!Takes, Se!EXEC_TIMEOUT
<1>4. paths' \in 1 .. MaxPaths /\ pending' = 1 .. paths' /\ failing' \in {{}, {1}} /\ lost' = {}
  BY DEF Se!Start
<1>5. paths' \in 0 .. MaxPaths /\ pending' \subseteq 1 .. paths' /\ failing' \subseteq {1} /\ lost' \subseteq 1 .. paths'
  BY <1>4, PartsAssumption
<1>6. stats' = Se!NoStats /\ settled' = [tmout |-> 0, origin |-> "none"] /\ resuming' = FALSE /\ at' = "dry_run"
  BY DEF Se!Start
<1>7. /\ stats' \in [file : {"none", "empty", "full"}, cur_path : Nat, exec_timeout : Nat]
      /\ settled' \in [tmout : Nat, origin : Origins]
  BY <1>6 DEF Se!NoStats, Origins
<1>. QED  BY <1>2, <1>3, <1>5, <1>6, <1>7 DEF SessionInv, SessionTypes

LEMMA SessionTypesResume == ASSUME SessionInv, Se!Resume PROVE SessionTypes'
<1>1. PICK o \in SessionOptions : Se!Takes(o)
  BY DEF Se!Resume
<1>2. /\ given' \in SessionOptions /\ sessions' \in Nat /\ origin' \in Origins
      /\ UNCHANGED <<current_entry, seek_to, prev_queued, cycles_wo_finds, use_splicing, stop_soon, timing, quiet, found>>
  BY <1>1 DEF Se!Takes, Se!position, SessionInv, SessionTypes, Origins
<1>3. exec_tmout' \in Nat /\ timeout_given' \in {0, 1, 3}
  BY <1>1, PartsAssumption DEF Se!Takes, Se!EXEC_TIMEOUT
<1>4. UNCHANGED <<paths, pending, failing, lost>>
  BY DEF Se!Resume, Se!work
<1>5. paths' \in 0 .. MaxPaths /\ pending' \subseteq 1 .. paths' /\ failing' \subseteq {1} /\ lost' \subseteq 1 .. paths'
  BY <1>4 DEF SessionInv, SessionTypes
<1>6. resuming' = FALSE /\ at' \in {"down", "pivot_inputs"} /\ UNCHANGED <<stats, settled>>
  BY DEF Se!Resume
<1>. QED  BY <1>2, <1>3, <1>5, <1>6 DEF SessionInv, SessionTypes

(* What read_testcases reads back of a queue with cases left.              *)
LEMMA PivotedQueue ==
  ASSUME SessionInv, Se!pivot_inputs
  PROVE  paths' \in 1 .. MaxPaths /\ paths' <= paths /\ pending' = 1 .. paths' /\ lost' = {} /\ failing' \subseteq failing
<1>1. /\ lost \subseteq 1 .. paths /\ lost # 1 .. paths /\ paths \in 0 .. MaxPaths /\ MaxPaths \in Nat
      /\ paths' = paths - Cardinality(lost) /\ pending' = 1 .. paths' /\ lost' = {} /\ failing' = failing \ lost
  <2>1. lost \subseteq 1 .. paths /\ paths \in 0 .. MaxPaths /\ MaxPaths \in Nat
    BY PartsAssumption DEF SessionInv, SessionTypes
  <2>2. /\ lost # 1 .. paths /\ paths' = paths - Cardinality(lost) /\ pending' = 1 .. paths' /\ lost' = {}
        /\ failing' = failing \ lost
    <3>1. Se!Cardinality(lost) = Cardinality(lost)
      BY DEF Se!Cardinality, Cardinality
    <3>. QED  BY <3>1 DEF Se!pivot_inputs
  <2>. QED  BY <2>1, <2>2
<1>2. IsFiniteSet(1 .. paths) /\ Cardinality(1 .. paths) = paths
  BY <1>1, FS_Interval
<1>3. IsFiniteSet(lost) /\ Cardinality(lost) \in Nat /\ Cardinality(lost) <= paths /\ Cardinality(lost) # paths
  BY <1>1, <1>2, FS_Subset, FS_CardinalityType
<1>4. paths' \in 1 .. MaxPaths /\ paths' <= paths
  BY <1>1, <1>3
<1>. QED  BY <1>1, <1>4

LEMMA SessionTypesPivot == ASSUME SessionInv, Se!pivot_inputs PROVE SessionTypes'
<1>1. /\ at' = "find_timeout" /\ resuming' \in BOOLEAN
      /\ UNCHANGED <<given, stats, exec_tmout, timeout_given, current_entry, seek_to, prev_queued, cycles_wo_finds, use_splicing,
                     stop_soon, sessions, timing, origin, settled, quiet, found>>
  BY DEF Se!pivot_inputs, Se!timeouts, Se!position, Se!history
<1>2. paths' \in 0 .. MaxPaths /\ pending' \subseteq 1 .. paths' /\ failing' \subseteq failing /\ lost' \subseteq 1 .. paths'
  BY PivotedQueue, PartsAssumption
<1>. QED  BY <1>1, <1>2 DEF SessionInv, SessionTypes

LEMMA SessionTypesDryRun == ASSUME SessionInv, Se!DryRun PROVE SessionTypes'
<1>1. /\ at' = "write_first" /\ seek_to' = Se!find_start_position
      /\ UNCHANGED <<given, resuming, stats, paths, pending, failing, lost, current_entry, prev_queued, cycles_wo_finds,
                     use_splicing, stop_soon, sessions, timing, settled, quiet, found>>
  BY DEF Se!DryRun, Se!work
<1>2. PICK m \in {timing, Se!Unmeasured} :
        /\ Se!show_init_stats(m)
        /\ origin' = IF timeout_given > 0 THEN origin ELSE IF m = timing THEN "scaled" ELSE "cut"
  BY DEF Se!DryRun
<1>3. m.avg \in Nat /\ m.max \in Nat
  BY PartsAssumption DEF SessionInv, SessionTypes, Se!Unmeasured
<1>4. Se!Scaled(m) \in Nat
  BY <1>3, ScaledEnough
<1>5. exec_tmout' \in Nat /\ timeout_given' \in {0, 1, 3}
  BY <1>2, <1>4 DEF Se!show_init_stats, SessionInv, SessionTypes
<1>6. seek_to' \in Nat /\ origin' \in Origins
  BY <1>1, <1>2 DEF Se!find_start_position, SessionInv, SessionTypes, Origins
<1>. QED  BY <1>1, <1>5, <1>6 DEF SessionInv, SessionTypes

LEMMA EndsTyped ==
  ASSUME SessionInv, Se!Ends, UNCHANGED <<resuming, paths, failing, sessions, timing>>, lost' \subseteq 1 .. paths,
         stats' \in [file : {"none", "empty", "full"}, cur_path : Nat, exec_timeout : Nat],
         settled' \in [tmout : Nat, origin : Origins]
  PROVE  SessionTypes'
<1>1. SessionTypes
  BY DEF SessionInv
<1>2. /\ at' = "down" /\ stop_soon' = 0 /\ given' = Se!NoOptions /\ use_splicing' = FALSE /\ found' = FALSE
      /\ current_entry' = 0 /\ seek_to' = 0 /\ prev_queued' = 0 /\ cycles_wo_finds' = 0 /\ quiet' = 0
      /\ exec_tmout' = 1000 /\ timeout_given' = 0 /\ pending' = {} /\ origin' = "none"
  BY DEF Se!Ends, Se!EXEC_TIMEOUT
<1>3. origin' \in Origins /\ pending' \subseteq 1 .. paths' /\ use_splicing' \in BOOLEAN /\ found' \in BOOLEAN
  BY <1>2 DEF Origins
<1>4. given' \in SessionOptions \cup {Se!NoOptions}
  BY <1>2
<1>. QED  BY <1>1, <1>2, <1>3, <1>4 DEF SessionTypes

LEMMA SessionTypesWrite == ASSUME SessionInv, Se!WriteStats PROVE SessionTypes'
<1>1. /\ stats' = [file |-> "full", cur_path |-> current_entry, exec_timeout |-> exec_tmout]
      /\ settled' = [tmout |-> exec_tmout, origin |-> origin]
      /\ UNCHANGED <<resuming, paths, failing, lost, sessions, timing>>
  BY DEF Se!WriteStats
<1>2. /\ stats' \in [file : {"none", "empty", "full"}, cur_path : Nat, exec_timeout : Nat]
      /\ settled' \in [tmout : Nat, origin : Origins] /\ lost' \subseteq 1 .. paths
  BY <1>1 DEF SessionInv, SessionTypes
<1>3. CASE Se!Ends
  BY <1>1, <1>2, <1>3, EndsTyped
<1>4. CASE ~ Se!Ends
  <2>1. /\ at' \in {"cycle", "fuzz"}
        /\ UNCHANGED <<given, exec_tmout, timeout_given, pending, current_entry, seek_to, prev_queued, cycles_wo_finds,
                       use_splicing, stop_soon, origin, quiet, found>>
    BY <1>4 DEF Se!WriteStats, Se!timeouts, Se!position
  <2>. QED  BY <1>1, <1>2, <2>1 DEF SessionInv, SessionTypes
<1>. QED  BY <1>3, <1>4

LEMMA SessionTypesStep == ASSUME SessionInv, Se!SessionNext \/ UNCHANGED session PROVE SessionTypes'
<1>. USE DEF Se!timeouts, Se!work, Se!position, Se!history
<1>0. SessionTypes
  BY DEF SessionInv
<1>1. CASE Se!find_timeout
  <2>1. /\ at' = "dry_run" /\ exec_tmout' \in Nat /\ timeout_given' \in {0, 1, 3} /\ origin' \in Origins
    BY <1>0, <1>1 DEF Se!find_timeout, SessionTypes
  <2>. QED  BY <1>0, <1>1, <2>1 DEF Se!find_timeout, SessionTypes
<1>2. CASE Se!OpenStats
  <2>1. stats' \in [file : {"none", "empty", "full"}, cur_path : Nat, exec_timeout : Nat]
    BY <1>2 DEF Se!OpenStats, Se!NoStats
  <2>. QED  BY <1>0, <1>2, <2>1 DEF Se!OpenStats, SessionTypes
<1>3. CASE Se!QueueCycle
  <2>1. /\ cycles_wo_finds' \in Nat /\ use_splicing' \in BOOLEAN /\ quiet' \in Nat /\ stop_soon' \in 0 .. 2
        /\ prev_queued' \in Nat /\ current_entry' \in Nat /\ seek_to' \in Nat
    <3>1. use_splicing' \in BOOLEAN
      BY <1>0, <1>3 DEF Se!QueueCycle, SessionTypes
    <3>2. cycles_wo_finds' \in Nat /\ quiet' \in Nat
      BY <1>0, <1>3 DEF Se!QueueCycle, SessionTypes
    <3>3. stop_soon' \in 0 .. 2 /\ prev_queued' \in Nat /\ current_entry' \in Nat /\ seek_to' \in Nat
      BY <1>0, <1>3 DEF Se!QueueCycle, SessionTypes
    <3>. QED  BY <3>1, <3>2, <3>3
  <2>. QED  BY <1>0, <1>3, <2>1 DEF Se!QueueCycle, SessionTypes
<1>4. CASE Se!Find
  <2>1. /\ paths' \in 0 .. MaxPaths /\ pending' \subseteq 1 .. paths' /\ lost' \subseteq 1 .. paths'
    BY <1>0, <1>4, PartsAssumption DEF Se!Find, SessionTypes
  <2>. QED  BY <1>0, <1>4, <2>1 DEF Se!Find, SessionTypes
<1>5. ASSUME NEW k \in Se!Kinds, Se!KeepFile(k) PROVE SessionTypes'
  BY <1>0, <1>5 DEF Se!KeepFile, SessionTypes
<1>6. CASE Se!show_stats
  <2>1. at' \in {"write_minute", at} /\ stop_soon' \in 0 .. 2
    BY <1>0, <1>6 DEF Se!show_stats, SessionTypes
  <2>. QED  BY <1>0, <1>6, <2>1 DEF Se!show_stats, SessionTypes
<1>7. CASE Se!NextEntry
  <2>1. /\ at' \in {"write_last", "cycle", "fuzz"} /\ current_entry' \in Nat /\ pending' \subseteq pending
    BY <1>0, <1>7 DEF Se!NextEntry, SessionTypes
  <2>. QED  BY <1>0, <1>7, <2>1 DEF Se!NextEntry, SessionTypes
<1>8. CASE Se!Interrupt
  BY <1>0, <1>8 DEF Se!Interrupt, SessionTypes
<1>9. CASE Se!Kill
  <2>1. lost' \subseteq 1 .. paths
    BY <1>0, <1>9 DEF Se!Kill, Se!Trimmed, SessionTypes
  <2>. QED  BY <1>0, <1>9, <2>1, EndsTyped DEF Se!Kill, SessionTypes
<1>10. CASE UNCHANGED session
  BY <1>0, <1>10 DEF session, SessionTypes
<1>. QED  BY <1>1, <1>2, <1>3, <1>4, <1>5, <1>6, <1>7, <1>8, <1>9, <1>10,
             SessionTypesStart, SessionTypesResume, SessionTypesPivot, SessionTypesDryRun, SessionTypesWrite DEF Se!SessionNext

-----------------------------------------------------------------------------
(* The timeout.                                                            *)
LEMMA TakesTimeout ==
  ASSUME NEW o \in SessionOptions, Se!Takes(o)
  PROVE  /\ at = "down" /\ stats.file # "empty" /\ given' = o /\ exec_tmout' >= 5
         /\ timeout_given' \in {0, 1} /\ (timeout_given' = 0 <=> o.t = 0) /\ origin' # "scaled" /\ UNCHANGED timing
BY PartsAssumption DEF Se!Takes, Se!EXEC_TIMEOUT, Se!Reads

LEMMA TimeoutStart == ASSUME SessionInv, Se!Start PROVE TimeoutInv'
<1>1. PICK o \in SessionOptions : Se!Takes(o)
  BY DEF Se!Start
<1>2. at' = "dry_run" /\ resuming' = FALSE /\ stats'.file = "none" /\ settled'.origin = "none"
  BY DEF Se!Start, Se!NoStats
<1>. QED  BY SMTT(40), <1>1, <1>2, TakesTimeout DEF TimeoutInv, Se!Running

LEMMA TimeoutResume == ASSUME SessionInv, Se!Resume PROVE TimeoutInv'
<1>1. PICK o \in SessionOptions : Se!Takes(o)
  BY DEF Se!Resume
<1>2. at' \in {"down", "pivot_inputs"} /\ UNCHANGED <<stats, settled>>
  BY DEF Se!Resume
<1>. QED  BY <1>1, <1>2, TakesTimeout DEF TimeoutInv, Se!Running, SessionInv, Enough

LEMMA TimeoutPivot == ASSUME SessionInv, Se!pivot_inputs PROVE TimeoutInv'
<1>1. /\ at = "pivot_inputs" /\ at' = "find_timeout"
      /\ UNCHANGED <<given, exec_tmout, timeout_given, stats, settled, origin, timing>>
  BY DEF Se!pivot_inputs, Se!timeouts, Se!history
<1>. QED  BY <1>1 DEF TimeoutInv, Se!Running, SessionInv, Enough

LEMMA TimeoutFind == ASSUME SessionInv, Se!find_timeout PROVE TimeoutInv'
<1>1. /\ at = "find_timeout" /\ at' = "dry_run"
      /\ UNCHANGED <<given, resuming, stats, settled, timing>>
  BY DEF Se!find_timeout
<1>2. TimeoutInv /\ SessionTypes
  BY DEF SessionInv
<1>3. CASE Se!TimeoutRecorded
  <2>1. exec_tmout' = settled.tmout /\ timeout_given' = 3 /\ origin' = settled.origin /\ settled.tmout >= 5
    BY <1>2, <1>3 DEF Se!find_timeout, Se!TimeoutRecorded, TimeoutInv
  <2>. QED  BY <1>1, <1>2, <2>1 DEF TimeoutInv, Se!Running, Enough
<1>4. CASE ~ Se!TimeoutRecorded
  <2>1. UNCHANGED <<exec_tmout, timeout_given, origin>>
    BY <1>4 DEF Se!find_timeout
  <2>2. stats.file = "full" => stats.exec_timeout > 4
    BY <1>2 DEF TimeoutInv, SessionTypes
  <2>3. given.t = 0 /\ resuming => stats.file # "full"
    BY <1>1, <1>2, <1>4, <2>2 DEF TimeoutInv, Se!TimeoutRecorded
  <2>. QED  BY <1>1, <1>2, <2>1, <2>3 DEF TimeoutInv, Se!Running, Enough
<1>. QED  BY <1>3, <1>4

LEMMA TimeoutDryRun == ASSUME SessionInv, Se!DryRun PROVE TimeoutInv'
<1>1. /\ at = "dry_run" /\ at' = "write_first"
      /\ UNCHANGED <<given, resuming, stats, settled, timing>>
  BY DEF Se!DryRun
<1>2. TimeoutInv /\ SessionTypes
  BY DEF SessionInv
<1>3. PICK m \in {timing, Se!Unmeasured} :
        /\ Se!show_init_stats(m)
        /\ origin' = IF timeout_given > 0 THEN origin ELSE IF m = timing THEN "scaled" ELSE "cut"
  BY DEF Se!DryRun
<1>4. m.avg \in Nat /\ m.max \in Nat
  BY <1>2, PartsAssumption DEF SessionTypes, Se!Unmeasured
<1>5. /\ Se!Scaled(m) \in Nat /\ Se!Scaled(m) >= 5
      /\ 1000 * Se!Scaled(m) > m.max \/ Se!Scaled(m) = Se!EXEC_TIMEOUT
  BY <1>4, ScaledEnough
<1>6. exec_tmout' = IF timeout_given = 0 THEN Se!Scaled(m) ELSE exec_tmout
  BY <1>3 DEF Se!show_init_stats
<1>7. CASE timeout_given = 0
  <2>1. exec_tmout' = Se!Scaled(m) /\ (origin' = "scaled" => m = timing)
    BY <1>3, <1>6, <1>7
  <2>2. origin' = "scaled" => Enough(exec_tmout)'
    BY <1>1, <1>5, <2>1 DEF Enough
  <2>3. ~ (resuming /\ given.t = 0 /\ stats.file = "full")
    BY <1>1, <1>2, <1>7 DEF TimeoutInv
  <2>. HIDE DEF Enough
  <2>4. settled'.origin = "scaled" => Enough(settled.tmout)'
    BY <1>1, <1>2 DEF TimeoutInv, Enough
  <2>. QED  BY <1>1, <1>2, <1>5, <2>1, <2>2, <2>3, <2>4 DEF TimeoutInv, Se!Running
<1>8. CASE timeout_given # 0
  <2>1. exec_tmout' = exec_tmout /\ origin' = origin
    BY <1>2, <1>3, <1>6, <1>8 DEF SessionTypes
  <2>. QED  BY <1>1, <1>2, <2>1 DEF TimeoutInv, Se!Running, Enough
<1>. QED  BY <1>7, <1>8

(* The process ends: what is on disk is all there is.                      *)
LEMMA TimeoutEnds ==
  ASSUME Se!Ends, UNCHANGED timing,
         stats'.file = "full" => stats'.exec_timeout = settled'.tmout /\ settled'.tmout >= 5,
         settled'.origin = "scaled" => Enough(settled.tmout)'
  PROVE  TimeoutInv'
BY DEF Se!Ends, Se!EXEC_TIMEOUT, TimeoutInv, Se!Running

LEMMA TimeoutWrite == ASSUME SessionInv, Se!WriteStats PROVE TimeoutInv'
<1>1. /\ stats' = [file |-> "full", cur_path |-> current_entry, exec_timeout |-> exec_tmout]
      /\ settled' = [tmout |-> exec_tmout, origin |-> origin]
      /\ UNCHANGED <<resuming, timing>>
  BY DEF Se!WriteStats
<1>2. TimeoutInv /\ SessionTypes
  BY DEF SessionInv
<1>3. /\ stats'.exec_timeout = settled'.tmout /\ settled'.tmout >= 5 /\ settled'.tmout = exec_tmout
      /\ settled'.origin = "scaled" => Enough(settled.tmout)'
  BY <1>1, <1>2 DEF TimeoutInv, Enough
<1>4. CASE Se!Ends
  BY <1>1, <1>3, <1>4, TimeoutEnds
<1>5. CASE ~ Se!Ends
  <2>1. at' \in {"cycle", "fuzz"} /\ UNCHANGED <<given, exec_tmout, timeout_given, origin>>
    BY <1>5 DEF Se!WriteStats, Se!timeouts
  <2>2. origin' = "scaled" => Enough(exec_tmout)'
    BY <1>1, <1>2, <2>1 DEF TimeoutInv, Enough
  <2>. QED  BY <1>1, <1>2, <1>3, <2>1, <2>2 DEF TimeoutInv, Se!Running
<1>. QED  BY <1>4, <1>5

(* The other steps of a session leave the timeout alone.                   *)
LEMMA TimeoutStays ==
  ASSUME TimeoutInv, at' = at \/ (Se!Running /\ Se!Running'),
         UNCHANGED <<given, resuming, exec_tmout, timeout_given, origin, settled, timing>>,
         stats' = stats \/ stats'.file = "empty"
  PROVE  TimeoutInv'
BY DEF TimeoutInv, Se!Running, Enough

LEMMA TimeoutStep == ASSUME SessionInv, Se!SessionNext \/ UNCHANGED session PROVE TimeoutInv'
<1>. USE DEF Se!timeouts, Se!work, Se!position, Se!history
<1>0. TimeoutInv
  BY DEF SessionInv
<1>1. CASE Se!OpenStats
  <2>1. stats'.file = "empty"
    BY <1>1 DEF Se!OpenStats, Se!NoStats
  <2>. QED  BY <1>0, <1>1, <2>1, TimeoutStays DEF Se!OpenStats
<1>2. CASE Se!QueueCycle
  BY <1>0, <1>2, TimeoutStays DEF Se!QueueCycle, Se!Running
<1>3. CASE Se!Find
  BY <1>0, <1>3, TimeoutStays DEF Se!Find
<1>4. ASSUME NEW k \in Se!Kinds, Se!KeepFile(k) PROVE TimeoutInv'
  BY <1>0, <1>4, TimeoutStays DEF Se!KeepFile
<1>5. CASE Se!show_stats
  BY <1>0, <1>5, TimeoutStays DEF Se!show_stats, Se!Running
<1>6. CASE Se!NextEntry
  BY <1>0, <1>6, TimeoutStays DEF Se!NextEntry, Se!Running
<1>7. CASE Se!Interrupt
  BY <1>0, <1>7, TimeoutStays DEF Se!Interrupt
<1>8. CASE Se!Kill
  <2>1. Se!Ends /\ UNCHANGED <<stats, settled, timing>>
    BY <1>8 DEF Se!Kill
  <2>. QED  BY <1>0, <2>1, TimeoutEnds DEF TimeoutInv, Enough
<1>9. CASE UNCHANGED session
  BY <1>0, <1>9, TimeoutStays DEF session
<1>. QED  BY <1>1, <1>2, <1>3, <1>4, <1>5, <1>6, <1>7, <1>8, <1>9,
             TimeoutStart, TimeoutResume, TimeoutPivot, TimeoutFind, TimeoutDryRun, TimeoutWrite DEF Se!SessionNext

-----------------------------------------------------------------------------
(* The position in the queue.                                              *)
LEMMA PositionStep == ASSUME SessionInv, Se!SessionNext \/ UNCHANGED session PROVE PositionInv'
<1>. USE DEF Se!timeouts, Se!work, Se!position, Se!history
<1>0. PositionInv /\ SessionTypes
  BY DEF SessionInv
<1>1. CASE Se!Start
  <2>1. at' = "dry_run" /\ paths' >= 1
    <3>1. at' = "dry_run" /\ paths' \in 1 .. MaxPaths
      BY <1>1 DEF Se!Start
    <3>. QED  BY <3>1, PartsAssumption
  <2>2. at = "down" /\ current_entry' = current_entry /\ seek_to' = seek_to
    BY <1>1 DEF Se!Start, Se!Takes
  <2>. QED  BY <1>0, <2>1, <2>2 DEF PositionInv, Se!Running, Early
<1>2. CASE Se!Resume
  <2>1. paths \in Nat /\ paths > 0 /\ paths' = paths /\ at' \in {"down", "pivot_inputs"}
    BY <1>0, <1>2, PartsAssumption DEF Se!Resume, SessionTypes
  <2>2. paths' >= 1
    BY <2>1
  <2>3. at = "down" /\ current_entry' = current_entry /\ seek_to' = seek_to
    BY <1>2 DEF Se!Resume, Se!Takes
  <2>. QED  BY <1>0, <2>1, <2>2, <2>3 DEF PositionInv, Se!Running, Early
<1>2p. CASE Se!pivot_inputs
  <2>1. at = "pivot_inputs" /\ at' = "find_timeout" /\ current_entry' = current_entry /\ seek_to' = seek_to
    BY <1>2p DEF Se!pivot_inputs
  <2>2. paths' >= 1
    BY <1>2p, PivotedQueue, PartsAssumption
  <2>. QED  BY <1>0, <2>1, <2>2 DEF PositionInv, Se!Running, Early
<1>3. CASE Se!find_timeout
  BY <1>0, <1>3 DEF Se!find_timeout, PositionInv, Se!Running, Early
<1>4. CASE Se!DryRun
  <2>1. /\ at = "dry_run" /\ at' = "write_first" /\ seek_to' = Se!find_start_position
        /\ UNCHANGED <<paths, current_entry>>
    BY <1>4 DEF Se!DryRun
  <2>2. seek_to' < paths
    BY <1>0, <2>1 DEF Se!find_start_position, PositionInv, SessionTypes
  <2>. QED  BY <1>0, <2>1, <2>2 DEF PositionInv, Se!Running, Early
<1>5. CASE Se!OpenStats
  BY <1>0, <1>5 DEF Se!OpenStats, PositionInv, Se!Running, Early
<1>6. CASE Se!WriteStats
  <2>1. CASE Se!Ends
    BY <2>1 DEF Se!Ends, PositionInv, Se!Running, Early
  <2>2. CASE ~ Se!Ends
    BY <1>0, <1>6, <2>2 DEF Se!WriteStats, PositionInv, Se!Running, Early
  <2>. QED  BY <2>1, <2>2
<1>7. CASE Se!QueueCycle
  <2>1. at' = "fuzz" /\ current_entry' = seek_to /\ seek_to' = 0 /\ paths' = paths /\ seek_to < paths
    BY <1>0, <1>7 DEF Se!QueueCycle, PositionInv, Se!Running
  <2>2. paths' >= 1
    BY <1>0, <1>7, <2>1 DEF Se!QueueCycle, PositionInv
  <2>. QED  BY <1>0, <2>1, <2>2 DEF PositionInv, SessionTypes, Se!Running, Early
<1>8. CASE Se!Find
  <2>1. at = "fuzz" /\ at' = at /\ paths' = paths + 1 /\ UNCHANGED <<current_entry, seek_to>>
    BY <1>8 DEF Se!Find
  <2>. QED  BY <1>0, <2>1, PartsAssumption DEF PositionInv, SessionTypes, Se!Running, Early
<1>9. ASSUME NEW k \in Se!Kinds, Se!KeepFile(k) PROVE PositionInv'
  BY <1>0, <1>9 DEF Se!KeepFile, PositionInv, Se!Running
<1>10. CASE Se!show_stats
  BY <1>0, <1>10 DEF Se!show_stats, PositionInv, Se!Running, Early
<1>11. CASE Se!NextEntry
  <2>1. /\ at = "fuzz" /\ paths' = paths /\ seek_to' = seek_to
        /\ \/ at' = "write_last"
           \/ current_entry' = current_entry + 1 /\ at' = IF current_entry + 1 = paths THEN "cycle" ELSE "fuzz"
    BY <1>11 DEF Se!NextEntry
  <2>2. paths >= 1 /\ seek_to < paths /\ current_entry < paths
    BY <1>0, <2>1 DEF PositionInv, Se!Running
  <2>. QED  BY <1>0, <2>1, <2>2, PartsAssumption DEF PositionInv, SessionTypes, Se!Running, Early
<1>12. CASE Se!Interrupt
  BY <1>0, <1>12 DEF Se!Interrupt, PositionInv, Se!Running
<1>13. CASE Se!Kill
  BY <1>13 DEF Se!Kill, Se!Ends, PositionInv, Se!Running, Early
<1>14. CASE UNCHANGED session
  BY <1>0, <1>14 DEF session, PositionInv, Se!Running
<1>. QED  BY <1>1, <1>2, <1>2p, <1>3, <1>4, <1>5, <1>6, <1>7, <1>8, <1>9, <1>10, <1>11, <1>12, <1>13, <1>14 DEF Se!SessionNext

-----------------------------------------------------------------------------
(* AFL_EXIT_WHEN_DONE and AFL_BENCH_UNTIL_CRASH.                           *)
Done == given.done /\ quiet > Patience /\ pending = {} /\ failing = {}

LEMMA ExitIsDone == ASSUME SessionInv, at = "fuzz" \/ at = "cycle", Se!ExitWhenDone PROVE Done /\ ~found /\ prev_queued # 0
<1>1. /\ given.done /\ pending = {} /\ cycles_wo_finds > Patience /\ Patience \in Nat /\ cycles_wo_finds \in Nat /\ quiet \in Nat
  BY PartsAssumption DEF Se!ExitWhenDone, SessionInv, SessionTypes
<1>2. cycles_wo_finds <= quiet /\ failing \subseteq pending /\ (found \/ prev_queued = 0 => cycles_wo_finds = 0)
  BY DEF SessionInv, DoneInv, Se!DoneIsDone
<1>. QED  BY <1>1, <1>2 DEF Done

(* Steps that change neither the queue nor the counts.                     *)
LEMMA DoneStays ==
  ASSUME DoneInv, at # "down" \/ at' = at,
         \/ at' = at
         \/ at' \notin Early \cup {"write_first"}
         \/ at \in Early,
         UNCHANGED <<given, prev_queued, cycles_wo_finds, quiet, found, paths>>,
         at' = "down" => stop_soon' = 0,
         failing' = failing, pending' = pending \/ (stop_soon' # 2 /\ (at' # "down" => failing \subseteq pending')),
         dirs["crashes"].files # {} => dirs'["crashes"].files # {},
         stop_soon' = 2 => stop_soon = 2 \/ (at \in {"fuzz", "cycle"} /\ (Se!UntilCrash \/ Done)),
         at' = "cycle" => stop_soon' # 2,
         at \in {"down", "pivot_inputs"} => at' \in {"down", "pivot_inputs"}
  PROVE  DoneInv'
<1>1. CASE at' = "down"
  BY <1>1 DEF DoneInv, Se!DoneIsDone, Early
<1>2. CASE at' # "down"
  <2>1. Se!DoneIsDone'
    BY <1>2 DEF DoneInv, Se!DoneIsDone, Se!UntilCrash, Done
  <2>. QED  BY <1>2, <2>1 DEF DoneInv, Early
<1>. QED  BY <1>1, <1>2

LEMMA DoneEnds == ASSUME Se!Ends, paths' \in Nat PROVE DoneInv'
BY DEF Se!Ends, DoneInv, Se!DoneIsDone

LEMMA DoneCycle == ASSUME SessionInv, Se!QueueCycle PROVE DoneInv'
<1>0. DoneInv /\ SessionTypes /\ PositionInv
  BY DEF SessionInv
<1>1. /\ at = "cycle" /\ at' = "fuzz"
      /\ stop_soon' \in {stop_soon} \cup (IF Se!ExitWhenDone \/ Se!UntilCrash THEN {2} ELSE {})
      /\ cycles_wo_finds' = IF paths # prev_queued THEN 0
                            ELSE IF use_splicing THEN cycles_wo_finds + 1 ELSE cycles_wo_finds
      /\ prev_queued' = paths /\ found' = FALSE
      /\ quiet' = (IF prev_queued = 0 \/ found THEN 0 ELSE quiet + 1)
      /\ UNCHANGED <<given, paths, pending, failing, dirs>>
  BY DEF Se!QueueCycle, Se!work
<1>2. paths >= 1 /\ paths \in Nat
  BY <1>0, <1>1, PartsAssumption DEF PositionInv, SessionTypes
<1>3. cycles_wo_finds' <= quiet'
  <2>1. cycles_wo_finds <= quiet /\ (found => prev_queued < paths)
    BY <1>0 DEF DoneInv, Se!DoneIsDone
  <2>. QED  BY <1>0, <1>1, <1>2, <2>1 DEF SessionTypes
<1>4. ASSUME stop_soon' = 2, ~Se!UntilCrash PROVE Done'
  <2>1. Se!ExitWhenDone
    BY <1>0, <1>1, <1>4 DEF DoneInv
  <2>2. Done /\ ~found /\ prev_queued # 0
    BY <1>1, <2>1, ExitIsDone
  <2>3. quiet' = quiet + 1 /\ quiet \in Nat /\ Patience \in Nat
    BY <1>0, <1>1, <2>2, PartsAssumption DEF SessionTypes
  <2>. QED  BY <1>1, <2>2, <2>3 DEF Done
<1>5. Se!DoneIsDone'
  <2>1. given' = given /\ dirs' = dirs
    BY <1>1
  <2>. QED  BY <1>3, <1>4, <2>1 DEF Se!DoneIsDone, Se!UntilCrash, Done
<1>6. failing' \subseteq pending' /\ prev_queued' <= paths' /\ prev_queued' # 0
  BY <1>0, <1>1, <1>2 DEF DoneInv
<1>. QED  BY <1>1, <1>5, <1>6 DEF DoneInv, Early

LEMMA DoneStep == ASSUME SessionInv, Se!SessionNext \/ UNCHANGED session PROVE DoneInv'
<1>. USE DEF Se!timeouts, Se!work, Se!position, Se!history
<1>0. DoneInv /\ SessionTypes
  BY DEF SessionInv
<1>1. CASE Se!Start
  <2>1. /\ at = "down" /\ at' = "dry_run" /\ paths' \in 1 .. MaxPaths /\ pending' = 1 .. paths' /\ failing' \in {{}, {1}}
        /\ UNCHANGED <<prev_queued, cycles_wo_finds, quiet, found, stop_soon>>
    BY <1>1 DEF Se!Start, Se!Takes
  <2>2. failing' \subseteq pending' /\ paths' \in Nat
    BY <2>1, PartsAssumption
  <2>. QED  BY <1>0, <2>1, <2>2 DEF DoneInv, Se!DoneIsDone, Early
<1>2. CASE Se!Resume
  <2>1. /\ at = "down" /\ at' \in {"down", "pivot_inputs"} /\ paths' = paths
        /\ UNCHANGED <<prev_queued, cycles_wo_finds, quiet, found, stop_soon>>
    BY <1>2 DEF Se!Resume, Se!Takes
  <2>2. paths' \in Nat
    BY <1>0, <2>1, PartsAssumption DEF SessionTypes
  <2>. QED  BY <1>0, <2>1, <2>2 DEF DoneInv, Se!DoneIsDone, Early
<1>2p. CASE Se!pivot_inputs
  <2>1. /\ at = "pivot_inputs" /\ at' = "find_timeout"
        /\ UNCHANGED <<given, dirs, prev_queued, cycles_wo_finds, quiet, found, stop_soon>>
    BY <1>2p DEF Se!pivot_inputs
  <2>2. failing' \subseteq pending' /\ paths' \in Nat /\ failing' \subseteq failing
    <3>1. paths' \in Nat /\ paths' >= 1 /\ pending' = 1 .. paths' /\ failing' \subseteq failing
      BY <1>2p, PivotedQueue, PartsAssumption
    <3>. QED  BY <1>0, <3>1 DEF SessionTypes
  <2>3. stop_soon # 2 /\ prev_queued = 0 /\ cycles_wo_finds = 0 /\ quiet = 0 /\ ~found
    BY <1>0, <2>1 DEF DoneInv, Early
  <2>. QED  BY <2>1, <2>2, <2>3 DEF DoneInv, Se!DoneIsDone, Early
<1>3. CASE Se!find_timeout
  BY <1>0, <1>3, DoneStays DEF Se!find_timeout, Early
<1>4. CASE Se!DryRun
  <2>1. /\ at = "dry_run" /\ at' = "write_first"
        /\ UNCHANGED <<given, prev_queued, cycles_wo_finds, quiet, found, paths, pending, failing, stop_soon, dirs>>
    BY <1>4 DEF Se!DryRun
  <2>. QED  BY <1>0, <2>1, DoneStays DEF Early
<1>5. CASE Se!OpenStats
  BY <1>0, <1>5, DoneStays DEF Se!OpenStats
<1>6. CASE Se!WriteStats
  <2>1. CASE Se!Ends
    BY <1>0, <1>6, <2>1, DoneEnds, PartsAssumption DEF Se!WriteStats, SessionTypes
  <2>2. CASE ~ Se!Ends
    <3>1. /\ at \in {"write_first", "write_minute", "write_last"} /\ at' \in {"cycle", "fuzz"}
          /\ UNCHANGED <<given, prev_queued, cycles_wo_finds, quiet, found, paths, pending, failing, stop_soon, dirs>>
      BY <1>6, <2>2 DEF Se!WriteStats
    <3>2. at' = "cycle" => stop_soon # 2
      BY <1>0, <1>6, <2>2 DEF Se!WriteStats, DoneInv, Early
    <3>. QED  BY <1>0, <3>1, <3>2, DoneStays DEF Early
  <2>. QED  BY <2>1, <2>2
<1>7. CASE Se!QueueCycle
  BY <1>7, DoneCycle
<1>8. CASE Se!Find
  <2>1. /\ at = "fuzz" /\ at' = at /\ stop_soon = 0 /\ stop_soon' = 0 /\ paths' = paths + 1 /\ paths \in Nat
        /\ pending \subseteq pending' /\ failing' = failing /\ cycles_wo_finds' = 0 /\ quiet' = 0 /\ UNCHANGED prev_queued
    BY <1>0, <1>8, PartsAssumption DEF Se!Find, SessionTypes
  <2>. QED  BY <1>0, <2>1 DEF DoneInv, Se!DoneIsDone, Early, SessionTypes
<1>9. ASSUME NEW k \in Se!Kinds, Se!KeepFile(k) PROVE DoneInv'
  <2>1. dirs \in [Se!Kinds -> Kept] /\ "crashes" \in Se!Kinds
    BY DEF SessionInv, DirsInv, Se!Kinds
  <2>2. dirs[k].files = {} /\ dirs' = [dirs EXCEPT ![k].files = {sessions}, ![k].readme = (k = "crashes")]
    BY <1>9 DEF Se!KeepFile
  <2>3. dirs["crashes"].files # {} => dirs'["crashes"].files # {}
    BY <2>1, <2>2
  <2>. QED  BY <1>0, <1>9, <2>3, DoneStays DEF Se!KeepFile
<1>10. CASE Se!show_stats
  <2>1. /\ at = "fuzz" /\ at' \in {"write_minute", "fuzz"}
        /\ stop_soon' = IF Se!ExitWhenDone \/ Se!UntilCrash THEN 2 ELSE stop_soon
        /\ UNCHANGED <<given, prev_queued, cycles_wo_finds, quiet, found, paths, pending, failing, dirs>>
    BY <1>10 DEF Se!show_stats
  <2>2. stop_soon' = 2 => stop_soon = 2 \/ Se!UntilCrash \/ Done
    BY <2>1, ExitIsDone
  <2>. QED  BY <1>0, <2>1, <2>2, DoneStays DEF Early
<1>11. CASE Se!NextEntry
  <2>1. /\ at = "fuzz" /\ at' \in {"write_last", "cycle", "fuzz"}
        /\ UNCHANGED <<given, prev_queued, cycles_wo_finds, quiet, found, paths, failing, stop_soon, dirs>>
        /\ \/ pending' = pending
           \/ stop_soon = 0 /\ current_entry + 1 \notin failing /\ pending' = pending \ {current_entry + 1}
    BY <1>11 DEF Se!NextEntry
  <2>2. failing \subseteq pending' /\ (at' = "cycle" => stop_soon # 2)
    BY <1>0, <1>11, <2>1 DEF DoneInv, Se!NextEntry
  <2>. QED  BY <1>0, <2>1, <2>2, DoneStays DEF Early
<1>12. CASE Se!Interrupt
  BY <1>0, <1>12, DoneStays DEF Se!Interrupt
<1>13. CASE Se!Kill
  BY <1>0, <1>13, DoneEnds, PartsAssumption DEF Se!Kill, SessionTypes
<1>14. CASE UNCHANGED session
  BY <1>0, <1>14 DEF session, DoneInv, Se!DoneIsDone
<1>. QED  BY <1>1, <1>2, <1>2p, <1>3, <1>4, <1>5, <1>6, <1>7, <1>8, <1>9, <1>10, <1>11, <1>12, <1>13, <1>14 DEF Se!SessionNext

-----------------------------------------------------------------------------
(* The directories of the crashes and the hangs.                           *)
LEMMA AsideOf ==
  ASSUME NEW d \in Kept
  PROVE  /\ d.files \subseteq Nat /\ Se!Aside(d) \subseteq Nat
         /\ \A sec \in Seconds : d.backup[sec] \subseteq Se!Aside(d)
BY DEF Kept, Se!Aside

(* Unless the name is taken nothing is lost when they are set aside.       *)
LEMMA SetAsideKeeps ==
  ASSUME NEW d \in Kept, NEW sec \in Seconds
  PROVE  /\ Se!SetAside(d, sec) \in Kept
         /\ d.backup[sec] = {} => d.files \cup Se!Aside(d) \subseteq Se!SetAside(d, sec).files \cup Se!Aside(Se!SetAside(d, sec))
<1>. DEFINE moved == d.files \cup (IF d.readme THEN {0} ELSE {})
            new == [d EXCEPT !.files = {}, !.readme = FALSE, !.backup[sec] = moved]
<1>1. moved \in SUBSET Nat /\ d.files \subseteq moved
  BY DEF Kept
<1>. HIDE DEF moved
<1>2. /\ new \in Kept /\ new.files = {} /\ new.backup[sec] = moved
      /\ \A x \in Seconds \ {sec} : new.backup[x] = d.backup[x]
  BY <1>1 DEF Kept
<1>3. [d EXCEPT !.files = {}] \in Kept
  BY DEF Kept
<1>4. Se!SetAside(d, sec) \in Kept
  BY <1>2, <1>3 DEF Se!SetAside, moved
<1>. HIDE DEF new
<1>5. ASSUME d.backup[sec] = {} PROVE d.files \cup Se!Aside(d) \subseteq new.files \cup Se!Aside(new)
  BY <1>1, <1>2, <1>5 DEF Se!Aside
<1>6. d.backup[sec] = {} => Se!SetAside(d, sec) \in {d, new}
  BY DEF Se!SetAside, new, moved
<1>. QED  BY <1>4, <1>5, <1>6

LEMMA DirsResume == ASSUME SessionInv, Se!Resume PROVE DirsInv'
<1>0. DirsInv
  BY DEF SessionInv
<1>1. PICK sec \in Seconds :
        /\ dirs' = [k \in Se!Kinds |-> Se!SetAside(dirs[k], sec)]
        /\ clash' = (clash \/ \E k \in Se!Kinds : dirs[k].backup[sec] # {})
  BY DEF Se!Resume
<1>2. kept' = kept
  BY DEF Se!Resume
<1>3. \A k \in Se!Kinds : dirs[k] \in Kept
  BY <1>0 DEF DirsInv
<1>4. \A k \in Se!Kinds :
        /\ dirs'[k] \in Kept
        /\ dirs[k].backup[sec] = {} => dirs[k].files \cup Se!Aside(dirs[k]) \subseteq dirs'[k].files \cup Se!Aside(dirs'[k])
  BY <1>1, <1>3, SetAsideKeeps
<1>5. dirs' \in [Se!Kinds -> Kept]
  BY <1>1, <1>3, SetAsideKeeps
<1>6. clash' \in BOOLEAN /\ (clash => clash')
  BY <1>0, <1>1 DEF DirsInv
<1>7. ASSUME ~ clash', NEW k \in Se!Kinds PROVE kept'[k] \subseteq dirs'[k].files \cup Se!Aside(dirs'[k])
  <2>1. dirs[k].backup[sec] = {} /\ ~ clash
    BY <1>1, <1>7
  <2>. QED  BY <1>0, <1>2, <1>4, <2>1 DEF DirsInv, Se!NothingOverwritten
<1>. QED  BY <1>0, <1>2, <1>5, <1>6, <1>7 DEF DirsInv, Se!NothingOverwritten

LEMMA DirsStart == ASSUME SessionInv, Se!Start PROVE DirsInv'
<1>0. DirsInv
  BY DEF SessionInv
<1>1. /\ dirs' = [k \in Se!Kinds |-> [dirs[k] EXCEPT !.files = {}, !.readme = FALSE]]
      /\ kept' = [k \in Se!Kinds |-> Se!Aside(dirs[k])] /\ clash' = clash
  BY DEF Se!Start
<1>2. \A k \in Se!Kinds : dirs[k] \in Kept
  BY <1>0 DEF DirsInv
<1>3. \A d \in Kept : [d EXCEPT !.files = {}, !.readme = FALSE] \in Kept
                      /\ [d EXCEPT !.files = {}, !.readme = FALSE].backup = d.backup
  BY DEF Kept
<1>4. \A k \in Se!Kinds : dirs'[k] \in Kept /\ dirs'[k].backup = dirs[k].backup
  BY <1>1, <1>2, <1>3
<1>5. dirs' \in [Se!Kinds -> Kept]
  BY <1>1, <1>2, <1>3
<1>6. kept' \in [Se!Kinds -> SUBSET Nat]
  BY <1>1, <1>2, AsideOf
<1>7. \A k \in Se!Kinds : kept'[k] = Se!Aside(dirs'[k])
  BY <1>1, <1>4 DEF Se!Aside
<1>. QED  BY <1>0, <1>1, <1>5, <1>6, <1>7 DEF DirsInv, Se!NothingOverwritten

LEMMA DirsKeepFile == ASSUME SessionInv, NEW k \in Se!Kinds, Se!KeepFile(k) PROVE DirsInv'
<1>0. DirsInv /\ sessions \in Nat
  BY DEF SessionInv, SessionTypes
<1>1. /\ dirs[k].files = {} /\ clash' = clash
      /\ dirs' = [dirs EXCEPT ![k].files = {sessions}, ![k].readme = (k = "crashes")]
      /\ kept' = [kept EXCEPT ![k] = @ \cup {sessions}]
  BY DEF Se!KeepFile
<1>2. \A j \in Se!Kinds : dirs[j] \in Kept
  BY <1>0 DEF DirsInv
<1>. DEFINE Told(d) == [[d EXCEPT !.files = {sessions}] EXCEPT !.readme = TRUE]
            Bare(d) == [[d EXCEPT !.files = {sessions}] EXCEPT !.readme = FALSE]
<1>3. \A d \in Kept : /\ Told(d) \in Kept /\ Told(d).backup = d.backup /\ Told(d).files = {sessions}
                      /\ Bare(d) \in Kept /\ Bare(d).backup = d.backup /\ Bare(d).files = {sessions}
  BY <1>0 DEF Kept
<1>4. /\ dirs'[k] \in {Told(dirs[k]), Bare(dirs[k])}
      /\ \A j \in Se!Kinds \ {k} : dirs'[j] = dirs[j]
      /\ dirs' \in [Se!Kinds -> {dirs'[j] : j \in Se!Kinds}]
  <2>1. /\ dirs'[k] = [[dirs[k] EXCEPT !.files = {sessions}] EXCEPT !.readme = (k = "crashes")]
        /\ \A j \in Se!Kinds \ {k} : dirs'[j] = dirs[j]
        /\ dirs' \in [Se!Kinds -> {dirs'[j] : j \in Se!Kinds}]
    BY <1>0, <1>1 DEF DirsInv
  <2>2. (k = "crashes") = TRUE \/ (k = "crashes") = FALSE
    OBVIOUS
  <2>. QED  BY <2>1, <2>2
<1>. HIDE DEF Told, Bare
<1>5. dirs'[k] \in Kept /\ dirs'[k].backup = dirs[k].backup /\ dirs'[k].files = {sessions}
  BY <1>2, <1>3, <1>4
<1>6. dirs' \in [Se!Kinds -> Kept]
  BY <1>2, <1>4, <1>5
<1>7. kept' \in [Se!Kinds -> SUBSET Nat]
  BY <1>0, <1>1 DEF DirsInv
<1>8. Se!Aside(dirs'[k]) = Se!Aside(dirs[k])
  BY <1>5 DEF Se!Aside
<1>9. ASSUME ~ clash PROVE \A j \in Se!Kinds : kept'[j] \subseteq dirs'[j].files \cup Se!Aside(dirs'[j])
  <2>1. \A j \in Se!Kinds : kept[j] \subseteq dirs[j].files \cup Se!Aside(dirs[j])
    BY <1>0, <1>9 DEF DirsInv, Se!NothingOverwritten
  <2>2. kept'[k] = kept[k] \cup {sessions} /\ \A j \in Se!Kinds \ {k} : kept'[j] = kept[j]
    BY <1>0, <1>1 DEF DirsInv
  <2>. QED  BY <1>1, <1>4, <1>5, <1>8, <2>1, <2>2
<1>. QED  BY <1>0, <1>1, <1>6, <1>7, <1>9 DEF DirsInv, Se!NothingOverwritten

LEMMA DirsStay == DirsInv /\ UNCHANGED <<dirs, kept, clash>> => DirsInv'
BY DEF DirsInv, Se!NothingOverwritten

LEMMA DirsStep == ASSUME SessionInv, Se!SessionNext \/ UNCHANGED session PROVE DirsInv'
<1>1. CASE UNCHANGED <<dirs, kept, clash>>
  BY <1>1, DirsStay DEF SessionInv
<1>2. CASE ~ UNCHANGED <<dirs, kept, clash>>
  <2>1. Se!Start \/ Se!Resume \/ \E k \in Se!Kinds : Se!KeepFile(k)
    BY <1>2 DEF Se!SessionNext, session, Se!pivot_inputs, Se!find_timeout, Se!DryRun, Se!OpenStats, Se!WriteStats, Se!QueueCycle,
                Se!Find, Se!show_stats, Se!NextEntry, Se!Interrupt, Se!Kill, Se!history
  <2>. QED  BY <2>1, DirsStart, DirsResume, DirsKeepFile
<1>. QED  BY <1>1, <1>2

LEMMA SessionStep == SessionInv /\ (Se!SessionNext \/ UNCHANGED session) => SessionInv'
<1>. SUFFICES ASSUME SessionInv, Se!SessionNext \/ UNCHANGED session PROVE SessionInv'
  OBVIOUS
<1>. QED  BY SessionTypesStep, TimeoutStep, PositionStep, DoneStep, DirsStep DEF SessionInv

-----------------------------------------------------------------------------
(* The dictionary over the sessions.                                       *)
FileTokens == DictTokens \cup {<<>>}
AutoTokens == [data : FileTokens, hit_cnt : Nat]
Half == MaxAutoExtras \div 2

DictTypes ==
  /\ dphase \in {"off", "load", "user", "dry", "save", "fuzz"}
  /\ a_extras \in Seq(AutoTokens) /\ Len(a_extras) <= MaxAutoExtras /\ auto_changed \in BOOLEAN
  /\ dfiles \in Seq(FileTokens) /\ dold \in Seq(FileTokens) \cup {NoDir}
  /\ dphase = "load" => dold \in Seq(FileTokens)
  /\ dnext \in Nat /\ (dphase \in {"load", "save"} => dnext >= 1)

(* What the two sorts leave of "the most used first".                      *)
Halves(ts) == \A i, j \in DOMAIN ts : j <= Half /\ Half < i => ts[i].hit_cnt <= ts[j].hit_cnt

(* How far the files of this session have come.                            *)
FilesInv ==
  /\ dphase \in {"load", "user", "dry"} => dfiles = <<>> /\ (~ auto_changed => a_extras = <<>>)
  /\ dphase = "save" =>
       /\ ~ auto_changed /\ dnext - 1 <= Len(dfiles) /\ Len(dfiles) <= Least(UseAuto, Len(a_extras))
       /\ \A i \in 1 .. dnext - 1 : dfiles[i] = a_extras[i].data
  /\ dphase = "fuzz" => Len(dfiles) <= Least(UseAuto, Len(a_extras))
  /\ FilesAreUsed

DictInv == DictTypes /\ Halves(a_extras) /\ FilesInv

LEMMA IsTokenSeq == ASSUME NEW T, NEW n \in Nat, NEW f \in [1 .. n -> T] PROVE f \in Seq(T) /\ Len(f) = n /\ DOMAIN f = 1 .. n
BY SeqDef, LenProperties

(* r holds the elements of ts, the first n of them in the order of key.    *)
Permuted(ts, n, key, r) ==
  \E p \in [1 .. n -> 1 .. n] :
    /\ \A j \in 1 .. n : \E i \in 1 .. n : p[i] = j
    /\ \A i \in 1 .. n : r[i] = ts[p[i]]
    /\ \A i \in n + 1 .. Len(ts) : r[i] = ts[i]
    /\ \A i, j \in 1 .. n : i < j => key[p[i]] <= key[p[j]]

(* An arrangement of the first n loses none of them.                       *)
LEMMA NoneLost ==
  ASSUME NEW n \in Nat, NEW p \in [1 .. n -> 1 .. n], \A i, j \in 1 .. n : i # j => p[i] # p[j]
  PROVE  \A j \in 1 .. n : \E i \in 1 .. n : p[i] = j
<1>. DEFINE D == 1 .. n
<1>1. IsFiniteSet(D)
  BY FS_Interval
<1>2. p \in [D -> D] /\ \A i, j \in D : p[i] = p[j] => i = j
  OBVIOUS
<1>. HIDE DEF D
<1>3. p \in Injection(D, D)
  BY <1>2 DEF Injection, IsInjective
<1>4. p \in Surjection(D, D)
  BY <1>1, <1>3, FS_Injection
<1>. QED  BY <1>4 DEF Surjection, D

LEMMA OrdersKeep ==
  ASSUME NEW T, NEW ts \in Seq(T), NEW n \in 0 .. Len(ts), NEW key, NEW r \in Orders(ts, n, key)
  PROVE  r \in Seq(T) /\ Len(r) = Len(ts) /\ Permuted(ts, n, key, r)
<1>. DEFINE Moves == {p \in [1 .. n -> 1 .. n] : \A i, j \in 1 .. n : i # j => p[i] # p[j]}
            Moved(p) == [i \in DOMAIN ts |-> IF i <= n THEN ts[p[i]] ELSE ts[i]]
<1>1. PICK p \in Moves : (\A i, j \in 1 .. n : i < j => key[p[i]] <= key[p[j]]) /\ r = Moved(p)
  BY DEF Orders
<1>2. p \in [1 .. n -> 1 .. n] /\ \A i, j \in 1 .. n : i # j => p[i] # p[j]
  OBVIOUS
<1>3. /\ Len(ts) \in Nat /\ DOMAIN ts = 1 .. Len(ts) /\ n \in Nat /\ n <= Len(ts)
      /\ \A i \in 1 .. Len(ts) : ts[i] \in T
  BY LenProperties, ElementOfSeq
<1>4. ASSUME NEW i \in 1 .. Len(ts) PROVE (IF i <= n THEN ts[p[i]] ELSE ts[i]) \in T
  <2>1. i <= n => i \in 1 .. n /\ p[i] \in 1 .. n
    BY <1>2, <1>3
  <2>. QED  BY <1>3, <2>1
<1>5. r \in [1 .. Len(ts) -> T]
  BY <1>1, <1>3, <1>4
<1>6. r \in Seq(T) /\ Len(r) = Len(ts)
  BY <1>3, <1>5, IsTokenSeq
<1>7. ASSUME NEW i \in 1 .. n PROVE r[i] = ts[p[i]]
  <2>1. i \in DOMAIN ts /\ i <= n
    BY <1>3
  <2>. QED  BY <1>1, <2>1
<1>8. ASSUME NEW i \in n + 1 .. Len(ts) PROVE r[i] = ts[i]
  <2>1. i \in DOMAIN ts /\ ~ (i <= n)
    BY <1>3
  <2>. QED  BY <1>1, <2>1
<1>9. \A j \in 1 .. n : \E i \in 1 .. n : p[i] = j
  BY <1>2, <1>3, NoneLost
<1>10. Permuted(ts, n, key, r)
  BY <1>1, <1>2, <1>7, <1>8, <1>9 DEF Permuted
<1>. QED  BY <1>6, <1>10

(* The two sorts keep every token, and the upper half on top.              *)
LEMMA SortsKeep ==
  ASSUME NEW ts \in Seq(AutoTokens), NEW r \in ByUseThenSize(ts)
  PROVE  /\ r \in Seq(AutoTokens) /\ Len(r) = Len(ts) /\ Halves(r)
         /\ \A i \in 1 .. Len(ts) : \E j \in 1 .. Len(ts) : r[j] = ts[i]
<1>. DEFINE len0 == Len(ts)
            key == ByUse(ts)
<1>1. PICK u \in Orders(ts, len0, key) : r \in Orders(u, Least(UseAuto, Len(u)), BySize(u))
  BY DEF ByUseThenSize
<1>2. len0 \in Nat /\ len0 \in 0 .. Len(ts) /\ DOMAIN ts = 1 .. len0 /\ \A i \in 1 .. len0 : ts[i] \in AutoTokens
  BY LenProperties, ElementOfSeq
<1>3. \A i \in 1 .. len0 : key[i] = - ts[i].hit_cnt /\ ts[i].hit_cnt \in Nat
  BY <1>2 DEF ByUse, AutoTokens
<1>. HIDE DEF key
<1>4. u \in Seq(AutoTokens) /\ Len(u) = len0 /\ Permuted(ts, len0, key, u)
  BY <1>1, <1>2, OrdersKeep
<1>5. PICK p \in [1 .. len0 -> 1 .. len0] :
         /\ \A j \in 1 .. len0 : \E i \in 1 .. len0 : p[i] = j
         /\ \A i \in 1 .. len0 : u[i] = ts[p[i]]
         /\ \A i, j \in 1 .. len0 : i < j => key[p[i]] <= key[p[j]]
  BY <1>4 DEF Permuted
<1>6. \A i, j \in 1 .. len0 : j < i => u[i].hit_cnt <= u[j].hit_cnt
  <2>. SUFFICES ASSUME NEW i \in 1 .. len0, NEW j \in 1 .. len0, j < i
                PROVE  u[i].hit_cnt <= u[j].hit_cnt
    OBVIOUS
  <2>1. p[i] \in 1 .. len0 /\ p[j] \in 1 .. len0 /\ key[p[j]] <= key[p[i]] /\ u[i] = ts[p[i]] /\ u[j] = ts[p[j]]
    BY <1>5
  <2>. QED  BY <1>3, <2>1
<1>. DEFINE n == Least(UseAuto, Len(u))
            size == BySize(u)
<1>7. /\ n \in 0 .. Len(u) /\ n <= Half /\ Half \in Nat
      /\ \A i \in 1 .. n : i \in 1 .. len0 /\ i <= Half
  <2>1. n \in 0 .. len0 /\ n <= Half /\ Half \in Nat
    BY <1>2, <1>4, DictAssumption DEF Least, Half
  <2>. HIDE DEF n, len0, Half
  <2>. QED  BY <1>2, <1>4, <2>1
<1>. HIDE DEF size, n, len0
<1>8. r \in Seq(AutoTokens) /\ Len(r) = len0 /\ Permuted(u, n, size, r)
  BY <1>1, <1>4, <1>7, OrdersKeep DEF n, size
<1>9. PICK q \in [1 .. n -> 1 .. n] :
         /\ \A j \in 1 .. n : \E i \in 1 .. n : q[i] = j
         /\ \A i \in 1 .. n : r[i] = u[q[i]]
         /\ \A i \in n + 1 .. len0 : r[i] = u[i]
  BY <1>4, <1>8 DEF Permuted
<1>10. \A i \in 1 .. len0 : i <= n \/ i \in n + 1 .. len0
  BY <1>2, <1>4, <1>7
<1>11. \A i \in 1 .. len0 : \E j \in 1 .. len0 : r[j] = u[i]
  <2>. SUFFICES ASSUME NEW i \in 1 .. len0 PROVE \E j \in 1 .. len0 : r[j] = u[i]
    OBVIOUS
  <2>1. CASE i <= n
    <3>1. i \in 1 .. n
      BY <2>1, <1>2, <1>7
    <3>2. PICK j \in 1 .. n : q[j] = i
      BY <1>9, <3>1
    <3>3. j \in 1 .. len0 /\ r[j] = u[i]
      BY <1>7, <1>9, <3>2
    <3>. QED  BY <3>3
  <2>2. CASE i \in n + 1 .. len0
    BY <1>9, <2>2
  <2>. QED  BY <1>10, <2>1, <2>2
<1>12. ASSUME NEW i \in 1 .. len0 PROVE \E j \in 1 .. len0 : r[j] = ts[i]
  <2>1. PICK k \in 1 .. len0 : p[k] = i
    BY <1>5
  <2>. QED  BY ZenonT(60), <1>5, <1>11, <2>1
<1>13. Halves(r)
  <2>1. DOMAIN r = 1 .. len0
    BY <1>8, LenProperties
  <2>. SUFFICES ASSUME NEW i \in 1 .. len0, NEW j \in 1 .. len0, j <= Half, Half < i
                PROVE  r[i].hit_cnt <= r[j].hit_cnt
    BY <2>1 DEF Halves
  <2>2. r[i] = u[i]
    BY <1>2, <1>7, <1>9, <1>10
  <2>3. PICK k \in 1 .. len0 : k <= Half /\ r[j] = u[k]
    <3>1. CASE j <= n
      <4>1. j \in 1 .. n
        BY <3>1, <1>2, <1>7
      <4>2. q[j] \in 1 .. n /\ r[j] = u[q[j]]
        BY <1>9, <4>1
      <4>3. q[j] \in 1 .. len0 /\ q[j] <= Half
        BY <1>7, <4>2
      <4>. QED  BY <4>2, <4>3
    <3>2. CASE j \in n + 1 .. len0
      BY <1>9, <3>2
    <3>. QED  BY <1>10, <3>1, <3>2
  <2>4. k < i
    BY <1>2, <1>7, <2>3
  <2>. QED  BY <1>6, <2>2, <2>3, <2>4
<1>. QED  BY <1>8, <1>12, <1>13 DEF len0

(* A set of numbers has a least one.                                       *)
LEMMA KnownHasFirst == ASSUME NEW t, a_extras \in Seq(AutoTokens), Known(t) # {} PROVE FirstOf(Known(t)) \in Known(t)
<1>1. Known(t) \subseteq Nat
  BY LenProperties DEF Known
<1>2. \E m \in Known(t) : \A k \in Known(t) : m <= k
  <2>1. IsWellFoundedOn({p \in Nat \X Nat : p[1] < p[2]}, Nat)
    BY NatLessThanWellFounded DEF OpToRel
  <2>2. PICK m \in Known(t) : \A k \in Known(t) : ~ (<<k, m>> \in {p \in Nat \X Nat : p[1] < p[2]})
    BY <1>1, <2>1, WFMin
  <2>3. ASSUME NEW k \in Known(t) PROVE m <= k
    <3>1. m \in Nat /\ k \in Nat /\ <<k, m>> \in Nat \X Nat
      BY <1>1
    <3>2. ~ (k < m)
      BY <2>2, <3>1
    <3>. QED  BY <3>1, <3>2
  <2>. QED  BY <2>3
<1>. QED  BY <1>2 DEF FirstOf

(* The tokens that ts lacks had to give way: used no more than any of the  *)
(* upper half.                                                             *)
GivesWay(ts) ==
  \A i \in DOMAIN a_extras :
    \/ \E j \in DOMAIN ts : ts[j].data = a_extras[i].data
    \/ \A j \in 1 .. Half : i # j /\ a_extras[i].hit_cnt <= a_extras[j].hit_cnt

LEMMA WithTokenKeeps ==
  ASSUME DictTypes, Halves(a_extras), NEW t \in FileTokens, NEW ts \in WithToken(t)
  PROVE  /\ ts \in Seq(AutoTokens) /\ Len(ts) <= MaxAutoExtras /\ Len(a_extras) <= Len(ts)
         /\ GivesWay(ts)
<1>1. /\ a_extras \in Seq(AutoTokens) /\ Len(a_extras) \in Nat /\ DOMAIN a_extras = 1 .. Len(a_extras)
      /\ Len(a_extras) <= MaxAutoExtras
      /\ \A i \in 1 .. Len(a_extras) : a_extras[i] \in AutoTokens
  BY LenProperties, ElementOfSeq DEF DictTypes
<1>2. NewToken(t) \in AutoTokens /\ NewToken(t).data = t
  BY DEF NewToken, AutoTokens
<1>3. ASSUME NEW i \in 1 .. Len(a_extras), NEW e \in AutoTokens
      PROVE  /\ [a_extras EXCEPT ![i] = e] \in Seq(AutoTokens)
             /\ Len([a_extras EXCEPT ![i] = e]) = Len(a_extras)
             /\ DOMAIN [a_extras EXCEPT ![i] = e] = DOMAIN a_extras
             /\ [a_extras EXCEPT ![i] = e][i] = e
             /\ \A j \in DOMAIN a_extras \ {i} : [a_extras EXCEPT ![i] = e][j] = a_extras[j]
  BY <1>1, ExceptSeq
<1>4. CASE Known(t) # {}
  <2>. DEFINE i == FirstOf(Known(t))
              e == [a_extras[i] EXCEPT !.hit_cnt = @ + 1]
  <2>1. i \in 1 .. Len(a_extras)
    BY <1>1, <1>4, KnownHasFirst DEF Known
  <2>. HIDE DEF i
  <2>2. e \in AutoTokens /\ e.data = a_extras[i].data
    BY <1>1, <2>1 DEF AutoTokens
  <2>3. ts = [a_extras EXCEPT ![i] = e]
    BY <1>4 DEF WithToken, i
  <2>. HIDE DEF e
  <2>4. \A k \in DOMAIN a_extras : k \in DOMAIN ts /\ ts[k].data = a_extras[k].data
    BY <1>1, <1>3, <2>1, <2>2, <2>3
  <2>. QED  BY <1>1, <1>3, <2>1, <2>2, <2>3, <2>4 DEF GivesWay
<1>5. CASE Known(t) = {} /\ Len(a_extras) < MaxAutoExtras
  <2>1. ts = Append(a_extras, NewToken(t))
    BY <1>5 DEF WithToken
  <2>2. /\ ts \in Seq(AutoTokens) /\ Len(ts) = Len(a_extras) + 1
        /\ \A k \in DOMAIN a_extras : k \in DOMAIN ts /\ ts[k] = a_extras[k]
    BY <1>1, <1>2, <2>1, Appended
  <2>3. GivesWay(ts)
    BY <2>2 DEF GivesWay
  <2>. QED  BY <1>1, <1>5, <2>2, <2>3, DictAssumption
<1>6. CASE Known(t) = {} /\ ~ (Len(a_extras) < MaxAutoExtras)
  <2>1. PICK e \in Evictable : ts = [a_extras EXCEPT ![e] = NewToken(t)]
    BY <1>6 DEF WithToken
  <2>2. /\ Len(a_extras) = MaxAutoExtras /\ MaxAutoExtras \in Nat
    <3>1. MaxAutoExtras \in Nat
      BY DictAssumption
    <3>2. Len(a_extras) \in Nat /\ Len(a_extras) <= MaxAutoExtras /\ ~ (Len(a_extras) < MaxAutoExtras)
      BY <1>1, <1>6
    <3>. QED  BY <3>1, <3>2
  <2>3. e \in 1 .. Len(a_extras) /\ Half < e /\ Half \in Nat /\ Half <= MaxAutoExtras /\ e \in Nat
    BY <2>2 DEF Evictable, Half
  <2>4. \A j \in 1 .. Half : j \in DOMAIN a_extras /\ j # e /\ a_extras[e].hit_cnt <= a_extras[j].hit_cnt
    <3>1. \A j \in 1 .. Half : j \in 1 .. Len(a_extras) /\ j <= Half /\ j # e
      BY <2>2, <2>3
    <3>. QED  BY <1>1, <2>3, <3>1 DEF Halves
  <2>5. \A k \in DOMAIN a_extras : k = e \/ (k \in DOMAIN ts /\ ts[k] = a_extras[k])
    BY <1>2, <1>3, <2>1, <2>3
  <2>6. GivesWay(ts)
    BY <2>4, <2>5 DEF GivesWay
  <2>. QED  BY <1>1, <1>2, <1>3, <2>1, <2>3, <2>6
<1>. QED  BY <1>4, <1>5, <1>6

LEMMA AddKeeps ==
  ASSUME DictTypes, Halves(a_extras), NEW t \in FileTokens, MaybeAddAuto(t)
  PROVE  /\ a_extras' \in Seq(AutoTokens) /\ Len(a_extras') <= MaxAutoExtras /\ Len(a_extras) <= Len(a_extras')
         /\ Halves(a_extras') /\ GivesWay(a_extras') /\ auto_changed' \in BOOLEAN
         /\ auto_changed' \/ UNCHANGED <<a_extras, auto_changed>>
<1>1. CASE Rejected(t)
  <2>1. UNCHANGED <<a_extras, auto_changed>>
    BY <1>1 DEF MaybeAddAuto
  <2>2. Len(a_extras) \in Nat
    BY LenProperties DEF DictTypes
  <2>. QED  BY <2>1, <2>2 DEF DictTypes, GivesWay
<1>2. CASE ~ Rejected(t)
  <2>1. PICK ts \in WithToken(t) : a_extras' \in ByUseThenSize(ts)
    BY <1>2 DEF MaybeAddAuto
  <2>2. /\ ts \in Seq(AutoTokens) /\ Len(ts) <= MaxAutoExtras /\ Len(a_extras) <= Len(ts)
        /\ GivesWay(ts)
    BY <2>1, WithTokenKeeps
  <2>3. /\ a_extras' \in Seq(AutoTokens) /\ Len(a_extras') = Len(ts) /\ Halves(a_extras')
        /\ \A i \in 1 .. Len(ts) : \E j \in 1 .. Len(ts) : a_extras'[j] = ts[i]
    BY <2>1, <2>2, SortsKeep
  <2>4. DOMAIN a_extras' = 1 .. Len(ts) /\ DOMAIN ts = 1 .. Len(ts)
    BY <2>2, <2>3, LenProperties
  <2>5. GivesWay(a_extras')
    <3>1. \A k \in DOMAIN ts : \E j \in DOMAIN a_extras' : a_extras'[j].data = ts[k].data
      BY <2>3, <2>4
    <3>. QED  BY <2>2, <3>1 DEF GivesWay
  <2>6. auto_changed' = TRUE
    BY <1>2 DEF MaybeAddAuto
  <2>. QED  BY <2>2, <2>3, <2>5, <2>6
<1>. QED  BY <1>1, <1>2

LEMMA DictStart == DictInit => DictInv
<1>. SUFFICES ASSUME DictInit PROVE DictInv
  OBVIOUS
<1>1. dphase = "off" /\ dfiles = <<>> /\ dold = NoDir /\ dnext = 1 /\ a_extras = <<>> /\ auto_changed = FALSE
  BY DEF DictInit
<1>2. <<>> \in Seq(AutoTokens) /\ <<>> \in Seq(FileTokens) /\ Len(a_extras) = 0 /\ DOMAIN a_extras = {}
  BY <1>1, EmptySeq
<1>3. DictTypes
  <2>1. auto_changed \in BOOLEAN
    BY <1>1
  <2>2. 0 <= MaxAutoExtras
    BY DictAssumption
  <2>. QED  BY <1>1, <1>2, <2>1, <2>2 DEF DictTypes
<1>4. Halves(a_extras)
  BY <1>2 DEF Halves
<1>5. FilesInv
  BY <1>1 DEF FilesInv, FilesAreUsed
<1>. QED  BY <1>3, <1>4, <1>5 DEF DictInv

(* The number of tokens the stages use and the disk keeps.                 *)
LEMMA UsedIs ==
  ASSUME NEW ts \in Seq(AutoTokens)
  PROVE  /\ Least(UseAuto, Len(ts)) \in Nat /\ Least(UseAuto, Len(ts)) <= Len(ts) /\ Len(ts) \in Nat
         /\ DOMAIN ts = 1 .. Len(ts) /\ \A i \in 1 .. Len(ts) : ts[i] \in AutoTokens
         /\ \A us \in Seq(AutoTokens) : Len(ts) <= Len(us) => Least(UseAuto, Len(ts)) <= Least(UseAuto, Len(us))
<1>1. /\ Len(ts) \in Nat /\ DOMAIN ts = 1 .. Len(ts) /\ \A i \in 1 .. Len(ts) : ts[i] \in AutoTokens
  BY LenProperties, ElementOfSeq
<1>2. \A us \in Seq(AutoTokens) : Len(us) \in Nat
  BY LenProperties
<1>3. UseAuto \in Nat
  BY DictAssumption
<1>. QED  BY <1>1, <1>2, <1>3 DEF Least

LEMMA WrittenFile ==
  ASSUME NEW fs \in Seq(FileTokens), NEW i \in Nat \ {0}, i - 1 <= Len(fs), NEW t \in FileTokens
  PROVE  /\ WrittenTo(fs, i, t) \in Seq(FileTokens)
         /\ Len(WrittenTo(fs, i, t)) \in {Len(fs), i} /\ Len(WrittenTo(fs, i, t)) >= i
         /\ WrittenTo(fs, i, t)[i] = t /\ \A j \in 1 .. i - 1 : WrittenTo(fs, i, t)[j] = fs[j]
<1>1. Len(fs) \in Nat /\ DOMAIN fs = 1 .. Len(fs)
  BY LenProperties
<1>2. CASE i <= Len(fs)
  <2>1. i \in 1 .. Len(fs) /\ \A j \in 1 .. i - 1 : j \in 1 .. Len(fs) /\ j # i
    BY <1>1, <1>2
  <2>2. /\ [fs EXCEPT ![i] = t] \in Seq(FileTokens) /\ Len([fs EXCEPT ![i] = t]) = Len(fs)
        /\ \A j \in 1 .. Len(fs) : [fs EXCEPT ![i] = t][j] = IF j = i THEN t ELSE fs[j]
    BY <2>1, ExceptSeq
  <2>3. WrittenTo(fs, i, t) = [fs EXCEPT ![i] = t]
    BY <1>2 DEF WrittenTo
  <2>. QED  BY <1>2, <2>1, <2>2, <2>3
<1>3. CASE ~ (i <= Len(fs))
  <2>1. i = Len(fs) + 1 /\ \A j \in 1 .. i - 1 : j \in DOMAIN fs
    BY <1>1, <1>3
  <2>2. WrittenTo(fs, i, t) = Append(fs, t)
    BY <1>3 DEF WrittenTo
  <2>. QED  BY <1>1, <2>1, <2>2, Appended
<1>. QED  BY <1>2, <1>3

LEMMA DictTypesStep == ASSUME DictInv, DictNext PROVE DictTypes'
<1>0. DictTypes /\ Halves(a_extras) /\ FilesInv
  BY DEF DictInv
<1>. USE DEF dictVars, sessionVars
<1>1. <<>> \in Seq(AutoTokens) /\ <<>> \in Seq(FileTokens) /\ Len(<<>>) = 0 /\ 0 <= MaxAutoExtras /\ <<>> \in FileTokens
  BY EmptySeq, DictAssumption DEF FileTokens
<1>2. CASE StartSession
  <2>1. /\ a_extras' = <<>> /\ auto_changed' = FALSE /\ dfiles' = <<>> /\ dphase' = "load" /\ dnext' = 1
        /\ dold' = IF dold = NoDir THEN dfiles ELSE dold
    BY <1>2 DEF StartSession
  <2>2. dold' \in Seq(FileTokens)
    BY <1>0, <2>1 DEF DictTypes
  <2>3. auto_changed' \in BOOLEAN
    BY <2>1
  <2>. QED  BY <1>1, <2>1, <2>2, <2>3 DEF DictTypes
<1>3. CASE LoadAuto
  <2>1. dphase = "load" /\ dphase' = "load" /\ dnext' = dnext + 1 /\ UNCHANGED <<dfiles, dold>>
    BY <1>3 DEF LoadAuto
  <2>2. a_extras' \in Seq(AutoTokens) /\ Len(a_extras') <= MaxAutoExtras /\ auto_changed' \in BOOLEAN
    <3>1. CASE UNCHANGED <<a_extras, auto_changed>>
      BY <1>0, <3>1 DEF DictTypes
    <3>2. CASE ~ UNCHANGED <<a_extras, auto_changed>>
      <4>1. MaybeAddAuto(dold[dnext]) /\ dnext <= Least(UseAuto, Len(dold))
        BY <1>3, <3>2 DEF LoadAuto
      <4>2. dold \in Seq(FileTokens) /\ dnext \in Nat /\ dnext >= 1
        BY <1>0, <2>1 DEF DictTypes
      <4>3. Len(dold) \in Nat /\ UseAuto \in Nat /\ \A i \in 1 .. Len(dold) : dold[i] \in FileTokens
        BY <4>2, LenProperties, ElementOfSeq, DictAssumption
      <4>4. dnext \in 1 .. Len(dold)
        BY <4>1, <4>2, <4>3 DEF Least
      <4>5. dold[dnext] \in FileTokens
        BY <4>3, <4>4
      <4>. QED  BY <1>0, <4>1, <4>5, AddKeeps
    <3>. QED  BY <3>1, <3>2
  <2>. QED  BY <1>0, <2>1, <2>2 DEF DictTypes
<1>4. CASE Pivoted
  BY <1>0, <1>4 DEF Pivoted, DictTypes
<1>5. CASE WithoutDict
  BY <1>0, <1>5 DEF WithoutDict, DictTypes
<1>6. CASE WithDict
  <2>1. dphase' \in {"off", "dry"} /\ UNCHANGED <<a_extras, auto_changed, dfiles, dold, dnext>>
    BY <1>6 DEF WithDict, LoadExtras
  <2>. QED  BY <1>0, <2>1 DEF DictTypes
<1>7. CASE BeginSave
  <2>1. /\ dphase' \in {"save", "fuzz"} /\ auto_changed' = FALSE /\ dnext' = 1 /\ UNCHANGED <<a_extras, dfiles, dold>>
    BY <1>7 DEF BeginSave
  <2>2. auto_changed' \in BOOLEAN
    BY <2>1
  <2>. QED  BY <1>0, <2>1, <2>2 DEF DictTypes
<1>8. CASE SaveFile
  <2>1. /\ dphase = "save" /\ dnext \in Used /\ dfiles' = WrittenTo(dfiles, dnext, a_extras[dnext].data)
        /\ dnext' = dnext + 1 /\ UNCHANGED <<a_extras, auto_changed, dphase, dold>>
    BY <1>8 DEF SaveFile
  <2>2. a_extras[dnext].data \in FileTokens /\ dnext \in Nat \ {0} /\ dnext - 1 <= Len(dfiles)
    <3>1. dnext \in 1 .. Len(a_extras) /\ a_extras[dnext] \in AutoTokens
      BY <1>0, <2>1, UsedIs DEF Used, DictTypes
    <3>. QED  BY <1>0, <2>1, <3>1 DEF AutoTokens, FilesInv
  <2>3. dfiles' \in Seq(FileTokens)
    BY <1>0, <2>1, <2>2, WrittenFile DEF DictTypes
  <2>. QED  BY <1>0, <2>1, <2>2, <2>3 DEF DictTypes
<1>9. CASE EndSave
  BY <1>0, <1>9 DEF EndSave, DictTypes
<1>10. CASE KillSession
  <2>1. /\ dphase' = "off" /\ a_extras' = <<>> /\ auto_changed' = FALSE /\ dnext' = 1 /\ dold' = dold
        /\ dfiles' = dfiles \/ (dphase = "save" /\ dnext \in Used /\ dfiles' = WrittenTo(dfiles, dnext, <<>>))
    BY <1>10 DEF KillSession
  <2>2. dfiles' \in Seq(FileTokens)
    <3>1. ASSUME dphase = "save", dnext \in Used PROVE dnext \in Nat \ {0} /\ dnext - 1 <= Len(dfiles)
      BY <1>0, <3>1 DEF FilesInv, Used, DictTypes
    <3>. QED  BY <1>0, <1>1, <2>1, <3>1, WrittenFile DEF DictTypes
  <2>3. auto_changed' \in BOOLEAN
    BY <2>1
  <2>. QED  BY <1>0, <1>1, <2>1, <2>2, <2>3 DEF DictTypes
<1>11. ASSUME NEW t \in DictTokens, FindToken(t) PROVE DictTypes'
  <2>1. MaybeAddAuto(t) /\ UNCHANGED <<dphase, dfiles, dold, dnext>> /\ t \in FileTokens
    BY <1>11 DEF FindToken, FileTokens
  <2>2. a_extras' \in Seq(AutoTokens) /\ Len(a_extras') <= MaxAutoExtras /\ auto_changed' \in BOOLEAN
    BY <1>0, <2>1, AddKeeps
  <2>. QED  BY <1>0, <2>1, <2>2 DEF DictTypes
<1>. QED  BY <1>2, <1>3, <1>4, <1>5, <1>6, <1>7, <1>8, <1>9, <1>10, <1>11 DEF DictNext

LEMMA HalvesStep == ASSUME DictInv, DictNext PROVE Halves(a_extras)' /\ (dphase' = dphase => GivesWay(a_extras'))
<1>0. DictTypes /\ Halves(a_extras) /\ FilesInv
  BY DEF DictInv
<1>. USE DEF dictVars, sessionVars
<1>1. CASE UNCHANGED a_extras
  BY <1>0, <1>1 DEF Halves, GivesWay
<1>2. CASE a_extras' = <<>> /\ dphase' # dphase
  <2>1. DOMAIN a_extras' = {}
    BY <1>2
  <2>. QED  BY <1>2, <2>1 DEF Halves
<1>3. ASSUME NEW t \in FileTokens, MaybeAddAuto(t) PROVE Halves(a_extras)' /\ GivesWay(a_extras')
  BY <1>0, <1>3, AddKeeps
<1>4. UNCHANGED a_extras \/ (a_extras' = <<>> /\ dphase' # dphase) \/ \E t \in FileTokens : MaybeAddAuto(t)
  <2>1. CASE StartSession \/ KillSession
    BY <2>1 DEF StartSession, KillSession
  <2>2. CASE LoadAuto /\ ~ UNCHANGED a_extras
    <3>1. MaybeAddAuto(dold[dnext]) /\ dnext <= Least(UseAuto, Len(dold)) /\ dphase = "load"
      BY <2>2 DEF LoadAuto
    <3>2. dold \in Seq(FileTokens) /\ dnext \in Nat /\ dnext >= 1
      BY <1>0, <3>1 DEF DictTypes
    <3>3. Len(dold) \in Nat /\ UseAuto \in Nat /\ \A i \in 1 .. Len(dold) : dold[i] \in FileTokens
      BY <3>2, LenProperties, ElementOfSeq, DictAssumption
    <3>4. dnext \in 1 .. Len(dold)
      BY <3>1, <3>2, <3>3 DEF Least
    <3>. QED  BY <3>1, <3>3, <3>4
  <2>3. CASE Pivoted \/ WithoutDict \/ WithDict \/ BeginSave \/ SaveFile \/ EndSave
    BY <2>3 DEF Pivoted, WithoutDict, WithDict, LoadExtras, BeginSave, SaveFile, EndSave
  <2>4. ASSUME NEW t \in DictTokens, FindToken(t) PROVE \E u \in FileTokens : MaybeAddAuto(u)
    BY <2>4 DEF FindToken, FileTokens
  <2>. QED  BY <2>1, <2>2, <2>3, <2>4 DEF DictNext
<1>. QED  BY <1>1, <1>2, <1>3, <1>4

(* A step that leaves the files alone while nobody looks at them.          *)
LEMMA FilesOff == ASSUME dphase' = "off" PROVE FilesInv'
BY DEF FilesInv, FilesAreUsed

LEMMA FilesEarly ==
  ASSUME dphase' \in {"load", "user", "dry"}, dfiles' = <<>>, auto_changed' \/ a_extras' = <<>>
  PROVE  FilesInv'
BY DEF FilesInv, FilesAreUsed

LEMMA FilesFuzz ==
  ASSUME dphase' = "fuzz", auto_changed', Len(dfiles') <= Least(UseAuto, Len(a_extras'))
  PROVE  FilesInv'
BY DEF FilesInv, FilesAreUsed

(* The last file is written: all that is used is on disk.                  *)
LEMMA FilesSaved ==
  ASSUME DictInv, dphase = "save", dnext \notin Used
  PROVE  dfiles = [i \in Used |-> a_extras[i].data] /\ Len(dfiles) <= Least(UseAuto, Len(a_extras))
<1>. DEFINE m == Least(UseAuto, Len(a_extras))
<1>1. /\ m \in Nat /\ m <= Len(a_extras) /\ Used = 1 .. m
      /\ \A i \in 1 .. m : i \in 1 .. Len(a_extras) /\ a_extras[i].data \in FileTokens
  <2>1. /\ m \in Nat /\ m <= Len(a_extras) /\ Len(a_extras) \in Nat
        /\ \A i \in 1 .. Len(a_extras) : a_extras[i] \in AutoTokens
    BY UsedIs DEF DictInv, DictTypes
  <2>2. Used = 1 .. m
    BY DEF Used
  <2>. HIDE DEF m
  <2>3. \A i \in 1 .. m : i \in 1 .. Len(a_extras)
    BY <2>1
  <2>. QED  BY <2>1, <2>2, <2>3 DEF AutoTokens
<1>2. /\ dnext \in Nat /\ dnext >= 1 /\ dnext - 1 <= Len(dfiles) /\ Len(dfiles) <= m
      /\ \A i \in 1 .. dnext - 1 : dfiles[i] = a_extras[i].data
  BY DEF DictInv, DictTypes, FilesInv
<1>3. Len(dfiles) \in Nat /\ dfiles \in Seq(FileTokens)
  BY LenProperties DEF DictInv, DictTypes
<1>. HIDE DEF m
<1>4. dnext = m + 1 /\ Len(dfiles) = m
  BY <1>1, <1>2, <1>3
<1>5. dfiles = [i \in 1 .. m |-> dfiles[i]]
  BY <1>3, <1>4, LenProperties
<1>6. \A i \in 1 .. m : dfiles[i] = a_extras[i].data
  BY <1>1, <1>2, <1>4
<1>. QED  BY <1>1, <1>2, <1>5, <1>6 DEF m

LEMMA FilesStep == ASSUME DictInv, DictNext PROVE FilesInv'
<1>0. DictTypes /\ Halves(a_extras) /\ FilesInv
  BY DEF DictInv
<1>. USE DEF dictVars, sessionVars
<1>1. CASE StartSession
  BY <1>1, FilesEarly DEF StartSession
<1>2. CASE LoadAuto
  <2>1. /\ dphase = "load" /\ dphase' = "load" /\ UNCHANGED dfiles
        /\ \/ UNCHANGED <<a_extras, auto_changed>>
           \/ MaybeAddAuto(dold[dnext])
    BY <1>2 DEF LoadAuto
  <2>2. auto_changed' = TRUE \/ UNCHANGED <<a_extras, auto_changed>>
    BY <2>1 DEF MaybeAddAuto
  <2>. QED  BY <1>0, <2>1, <2>2, FilesEarly DEF FilesInv
<1>3. CASE Pivoted
  BY <1>0, <1>3, FilesEarly DEF Pivoted, FilesInv
<1>4. CASE WithoutDict
  BY <1>0, <1>4, FilesEarly DEF WithoutDict, FilesInv
<1>5. CASE WithDict
  <2>1. dphase = "user" /\ dphase' \in {"off", "dry"} /\ UNCHANGED <<a_extras, auto_changed, dfiles>>
    BY <1>5 DEF WithDict, LoadExtras
  <2>. QED  BY <1>0, <2>1, FilesEarly, FilesOff DEF FilesInv
<1>6. CASE BeginSave
  <2>1. /\ dphase \in {"dry", "fuzz"} /\ dphase' = IF auto_changed THEN "save" ELSE "fuzz"
        /\ auto_changed' = FALSE /\ dnext' = 1 /\ UNCHANGED <<a_extras, dfiles>>
    BY <1>6 DEF BeginSave
  <2>2. Len(dfiles) <= Least(UseAuto, Len(a_extras)) /\ Len(dfiles) \in Nat
    <3>1. dphase = "dry" => Len(dfiles) = 0
      BY <1>0, EmptySeq DEF FilesInv
    <3>2. Least(UseAuto, Len(a_extras)) \in Nat /\ Len(dfiles) \in Nat
      BY <1>0, UsedIs, LenProperties DEF DictTypes
    <3>. QED  BY <1>0, <2>1, <3>1, <3>2 DEF FilesInv
  <2>3. CASE auto_changed
    BY <2>1, <2>2, <2>3 DEF FilesInv, FilesAreUsed
  <2>4. CASE ~ auto_changed
    <3>1. dfiles = [i \in Used |-> a_extras[i].data]
      <4>1. CASE dphase = "fuzz"
        BY <1>0, <2>4, <4>1 DEF FilesInv, FilesAreUsed
      <4>2. CASE dphase = "dry"
        <5>1. dfiles = <<>> /\ a_extras = <<>>
          BY <1>0, <2>4, <4>2 DEF FilesInv
        <5>2. Used = {}
          BY <5>1, EmptySeq, DictAssumption DEF Used, Least
        <5>. QED  BY <5>1, <5>2
      <4>. QED  BY <2>1, <4>1, <4>2
    <3>2. Used' = Used
      BY <2>1 DEF Used
    <3>. QED  BY <2>1, <2>2, <2>4, <3>1, <3>2 DEF FilesInv, FilesAreUsed
  <2>. QED  BY <2>3, <2>4
<1>7. CASE SaveFile
  <2>. DEFINE m == Least(UseAuto, Len(a_extras))
              tok == a_extras[dnext].data
  <2>1. /\ dphase = "save" /\ dnext \in Used /\ dfiles' = WrittenTo(dfiles, dnext, tok)
        /\ dnext' = dnext + 1 /\ UNCHANGED <<a_extras, auto_changed, dphase>>
    BY <1>7 DEF SaveFile
  <2>2. /\ m \in Nat /\ m <= Len(a_extras) /\ Len(a_extras) \in Nat /\ dnext \in 1 .. m
        /\ \A i \in 1 .. Len(a_extras) : a_extras[i] \in AutoTokens
    BY <1>0, <2>1, UsedIs DEF Used, DictTypes
  <2>3. /\ ~ auto_changed /\ dnext - 1 <= Len(dfiles) /\ Len(dfiles) <= m
        /\ \A i \in 1 .. dnext - 1 : dfiles[i] = a_extras[i].data
    BY <1>0, <2>1 DEF FilesInv
  <2>4. tok \in FileTokens /\ dnext \in Nat \ {0} /\ dfiles \in Seq(FileTokens)
    BY <1>0, <2>2 DEF AutoTokens, DictTypes
  <2>. HIDE DEF m, tok
  <2>5. /\ Len(dfiles') \in {Len(dfiles), dnext} /\ Len(dfiles') >= dnext
        /\ dfiles'[dnext] = tok /\ \A j \in 1 .. dnext - 1 : dfiles'[j] = dfiles[j]
    <3>1. dnext - 1 <= Len(dfiles)
      BY <2>3
    <3>. DEFINE fs == WrittenTo(dfiles, dnext, tok)
    <3>2. /\ Len(fs) \in {Len(dfiles), dnext} /\ Len(fs) >= dnext
          /\ fs[dnext] = tok /\ \A j \in 1 .. dnext - 1 : fs[j] = dfiles[j]
      BY <2>4, <3>1, WrittenFile
    <3>. QED  BY <2>1, <3>2
  <2>6. Len(dfiles') <= m /\ dnext' - 1 = dnext
    BY <2>1, <2>2, <2>3, <2>5
  <2>7. \A i \in 1 .. dnext' - 1 : dfiles'[i] = a_extras'[i].data
    <3>1. \A i \in 1 .. dnext : i = dnext \/ i \in 1 .. dnext - 1
      BY <2>4
    <3>. QED  BY <2>1, <2>3, <2>5, <2>6, <3>1 DEF tok
  <2>. QED  BY <2>1, <2>3, <2>5, <2>6, <2>7 DEF FilesInv, FilesAreUsed, m
<1>8. CASE EndSave
  <2>1. dphase = "save" /\ dnext \notin Used /\ dphase' = "fuzz" /\ UNCHANGED <<a_extras, auto_changed, dfiles>>
    BY <1>8 DEF EndSave
  <2>2. Used' = Used
    BY <2>1 DEF Used
  <2>. QED  BY <2>1, <2>2, FilesSaved DEF FilesInv, FilesAreUsed
<1>9. CASE KillSession
  BY <1>9, FilesOff DEF KillSession
<1>10. ASSUME NEW t \in DictTokens, FindToken(t) PROVE FilesInv'
  <2>1. MaybeAddAuto(t) /\ dphase = "fuzz" /\ dphase' = "fuzz" /\ dfiles' = dfiles /\ t \in FileTokens
    BY <1>10 DEF FindToken, FileTokens
  <2>2. /\ a_extras' \in Seq(AutoTokens) /\ Len(a_extras) <= Len(a_extras')
        /\ auto_changed' \/ UNCHANGED <<a_extras, auto_changed>>
    BY <1>0, <2>1, AddKeeps
  <2>3. CASE UNCHANGED <<a_extras, auto_changed>>
    <3>1. Used' = Used
      BY <2>3 DEF Used
    <3>. QED  BY <1>0, <2>1, <2>3, <3>1 DEF FilesInv, FilesAreUsed
  <2>4. CASE auto_changed'
    <3>1. /\ Least(UseAuto, Len(a_extras)) <= Least(UseAuto, Len(a_extras'))
          /\ Least(UseAuto, Len(a_extras)) \in Nat /\ Least(UseAuto, Len(a_extras')) \in Nat /\ Len(dfiles) \in Nat
      BY <1>0, <2>2, UsedIs, LenProperties DEF DictTypes
    <3>2. Len(dfiles) <= Least(UseAuto, Len(a_extras))
      BY <1>0, <2>1 DEF FilesInv
    <3>. QED  BY <2>1, <2>4, <3>1, <3>2, FilesFuzz
  <2>. QED  BY <2>2, <2>3, <2>4
<1>. QED  BY <1>1, <1>2, <1>3, <1>4, <1>5, <1>6, <1>7, <1>8, <1>9, <1>10 DEF DictNext

(* What is on disk is only given up in the two windows.                    *)
LEMMA OnDiskStep ==
  ASSUME DictInv, DictNext, dphase \notin {"user", "dry", "save"}, dphase' # "user"
  PROVE  OnDisk \subseteq OnDisk'
<1>. USE DEF dictVars, sessionVars
<1>0. DictTypes
  BY DEF DictInv
<1>1. CASE UNCHANGED <<dfiles, dold>>
  BY <1>1 DEF OnDisk
<1>2. CASE StartSession
  <2>1. dold' = (IF dold = NoDir THEN dfiles ELSE dold) /\ dfiles \in Seq(FileTokens)
    BY <1>0, <1>2 DEF StartSession, DictTypes
  <2>2. dold' = (IF dold = NoDir THEN dfiles ELSE dold) /\ dold' # NoDir
    BY <2>1, AutoDictAssumption DEF FileTokens
  <2>. QED  BY <2>2 DEF OnDisk
<1>3. UNCHANGED <<dfiles, dold>> \/ StartSession
  BY DEF DictNext, LoadAuto, Pivoted, WithoutDict, WithDict, BeginSave, SaveFile, EndSave, KillSession, FindToken
<1>. QED  BY <1>1, <1>2, <1>3

-----------------------------------------------------------------------------
(* The parts together.                                                     *)
PartsInv ==
  /\ part = "dictionary" => DictInv
  /\ part # "dictionary" => dphase = "off"
  /\ part = "triage" => TriageInv
  /\ part = "session" => SessionInv

LEMMA PartsStart == PartsInit => PartsInv
<1>. SUFFICES ASSUME PartsInit PROVE PartsInv
  OBVIOUS
<1>1. part = "dictionary" => DictInv
  BY DictStart DEF PartsInit
<1>2. part # "dictionary" => dphase = "off"
  BY DEF PartsInit, NoDict
<1>3. part = "triage" => TriageInv
  BY TriageStart DEF PartsInit
<1>4. part = "session" => SessionInv
  BY SessionStart DEF PartsInit
<1>. QED  BY <1>1, <1>2, <1>3, <1>4 DEF PartsInv

(* One part takes a step, the variables of the others stay.                *)
LEMMA OnePart ==
  ASSUME [PartsNext]_allVars
  PROVE  /\ part' = part
         /\ UNCHANGED dict \/ (part = "dictionary" /\ DictNext)
         /\ UNCHANGED triage \/ (part = "triage" /\ Tr!TriageNext)
         /\ UNCHANGED session \/ (part = "session" /\ Se!SessionNext)
<1>1. CASE UNCHANGED allVars
  BY <1>1 DEF allVars
<1>2. CASE PartsNext
  BY <1>2 DEF PartsNext, RunDictionary, RunTriage, RunSession, RunTmin, RunAnalyze, RunCmin, RunCommandLine,
              RunCallGraph, RunStateVars, RunCompile
<1>. QED  BY <1>1, <1>2

LEMMA DictStep == DictInv /\ (DictNext \/ UNCHANGED dict) => DictInv'
<1>1. ASSUME DictInv, DictNext PROVE DictInv'
  BY <1>1, DictTypesStep, HalvesStep, FilesStep DEF DictInv
<1>2. ASSUME DictInv, UNCHANGED dict PROVE DictInv'
  <2>1. UNCHANGED <<extras, a_extras, auto_changed, dphase, dfiles, dold, dnext>>
    BY <1>2 DEF dict, autoDictVars, dictVars, sessionVars
  <2>2. DictTypes'
    BY <1>2, <2>1 DEF DictInv, DictTypes
  <2>3. Halves(a_extras)'
    BY <1>2, <2>1 DEF DictInv, Halves
  <2>4. Used' = Used
    BY <2>1 DEF Used
  <2>5. FilesInv'
    BY <1>2, <2>1, <2>4 DEF DictInv, FilesInv, FilesAreUsed
  <2>. QED  BY <2>2, <2>3, <2>5 DEF DictInv
<1>. QED  BY <1>1, <1>2

LEMMA PartsStep == PartsInv /\ [PartsNext]_allVars => PartsInv'
<1>. SUFFICES ASSUME PartsInv, [PartsNext]_allVars PROVE PartsInv'
  OBVIOUS
<1>1. /\ part' = part
      /\ UNCHANGED dict \/ (part = "dictionary" /\ DictNext)
      /\ UNCHANGED triage \/ (part = "triage" /\ Tr!TriageNext)
      /\ UNCHANGED session \/ (part = "session" /\ Se!SessionNext)
  BY OnePart
<1>2. part = "dictionary" => DictInv'
  BY <1>1, DictStep DEF PartsInv
<1>3. part # "dictionary" => dphase' = "off"
  BY <1>1 DEF PartsInv, dict, autoDictVars, sessionVars
<1>4. part = "triage" => TriageInv'
  BY <1>1, TriageStep DEF PartsInv
<1>5. part = "session" => SessionInv'
  BY <1>1, SessionStep DEF PartsInv
<1>. QED  BY <1>1, <1>2, <1>3, <1>4, <1>5 DEF PartsInv

LEMMA PartsHold == PartsSpec => []PartsInv
BY PartsStart, PartsStep, PTL DEF PartsSpec

(* What afl-fuzz keeps of its work is sound, for any map, any number of    *)
(* crashes and hangs it may keep, any queue and any number of sessions: a  *)
(* crash that is kept hits, or misses, a byte none of the kept ones does,  *)
(* and nothing but the kept crashes counts against a new one; a hang has   *)
(* outlasted the larger limit (save_if_interesting); a resumed session has *)
(* the timeout the last one wrote down, the walk to the entry it resumes   *)
(* at ends in the queue, AFL_EXIT_WHEN_DONE leaves nothing unfuzzed, and   *)
(* the crashes and hangs of every session are kept (find_timeout,          *)
(* find_start_position, show_stats, maybe_delete_out_dir).                 *)
THEOREM ResultsSoundHolds == PartsSpec => []ResultsSound
<1>1. PartsInv => ResultsSound
  BY SessionImplies DEF PartsInv, ResultsSound, TriageInv
<1>. QED  BY <1>1, PartsHold, PTL

(* For any dictionary, any limits and any number of sessions and kills: a  *)
(* token gives way only when it was used no more than any of the upper     *)
(* half, what the stages would use is on disk once nothing has changed,    *)
(* and the tokens on disk survive but for two windows (maybe_add_auto,     *)
(* save_auto, load_auto, pivot_inputs).                                    *)
THEOREM DictionaryKeptHolds == PartsSpec => DictionaryKept
<1>. DEFINE Gives == \A i \in DOMAIN a_extras :
                       \/ dphase' # dphase
                       \/ \E j \in DOMAIN a_extras' : a_extras'[j].data = a_extras[i].data
                       \/ \A j \in 1 .. MaxAutoExtras \div 2 :
                            i # j /\ a_extras[i].hit_cnt <= a_extras[j].hit_cnt
            Survive == \/ dphase \in {"user", "dry", "save"} \/ dphase' = "user"
                       \/ OnDisk \subseteq OnDisk'
<1>1. PartsInv => FilesAreUsed
  BY DEF PartsInv, DictInv, FilesInv, FilesAreUsed
<1>2. PartsInv /\ [PartsNext]_allVars => [Gives]_autoDictVars
  <2>. SUFFICES ASSUME PartsInv, DictNext, part = "dictionary" PROVE Gives
    BY OnePart DEF dict
  <2>. QED  BY HalvesStep DEF PartsInv, GivesWay, Half
<1>3. PartsInv /\ [PartsNext]_allVars => [Survive]_autoDictVars
  <2>. SUFFICES ASSUME PartsInv, DictNext, part = "dictionary" PROVE Survive
    BY OnePart DEF dict
  <2>. QED  BY OnDiskStep DEF PartsInv
<1>4. LeastUsedGivesWay <=> [][Gives]_autoDictVars
  BY DEF LeastUsedGivesWay
<1>5. TokensSurvive <=> [][Survive]_autoDictVars
  BY DEF TokensSurvive
<1>. HIDE DEF Gives, Survive
<1>. QED  BY <1>1, <1>2, <1>3, <1>4, <1>5, PartsHold, PTL DEF PartsSpec, DictionaryKept

-----------------------------------------------------------------------------
(* Types.  What ResultsSound and ToolsSound rest on has those of most      *)
(* parts; these are the others.  The settings, whatever was read so far:   *)
(* no option leaves a limit that is neither off nor 5 MB.                  *)
SettingsInv ==
  /\ cl \in CommandLines
  /\ stage_of_start \in {"options", "checks", "binary", "ready", "fatal", "usage", "version"}
  /\ s.end \in {"no", "fatal", "usage", "version"}
  /\ Shaped(s) /\ s.exec_tmout \in Nat /\ s.mem_limit \in Nat /\ (s.mem_limit = 0 \/ s.mem_limit >= 5)
  /\ rest \in Seq({cl.args[i] : i \in DOMAIN cl.args})

(* t is what an option makes of the settings.                              *)
LimitsOf(t) ==
  /\ Shaped(t) /\ t.end \in {"no", "fatal", "usage", "version"}
  /\ t.exec_tmout \in Nat /\ t.mem_limit \in Nat /\ (t.mem_limit = 0 \/ t.mem_limit >= 5)

LEMMA SettingsStart == St!StartInit => SettingsInv
<1>. SUFFICES ASSUME St!StartInit PROVE SettingsInv
  OBVIOUS
<1>1. /\ cl \in CommandLines /\ stage_of_start = "options" /\ rest = cl.args /\ s = St!Fresh(cl.tool)
  BY DEF St!StartInit
<1>2. s.end = "no" /\ s.mem_limit = DefaultMem /\ s.exec_tmout \in {0, DefaultTmout} /\ Shaped(s)
  BY <1>1 DEF St!Fresh, Shaped, Fields
<1>3. DefaultMem \in Nat /\ DefaultMem >= 5 /\ DefaultTmout \in Nat /\ cl.args \in Seq({cl.args[i] : i \in DOMAIN cl.args})
  BY <1>1, StartAssumption
<1>. QED  BY <1>1, <1>2, <1>3 DEF SettingsInv

(* Whatever is kept or refused, limits stay.                               *)
LEMMA LimitsStay ==
  ASSUME NEW t, LimitsOf(s), Shaped(t), t.end \in {"no", "fatal", "usage", "version"},
         t.exec_tmout = s.exec_tmout, t.mem_limit = s.mem_limit
  PROVE  LimitsOf(t)
BY DEF LimitsOf

LEMMA KeepLimits ==
  ASSUME NEW o, NEW v, LimitsOf(s)
  PROVE  /\ Shaped(St!Keep(o, v)) /\ St!Keep(o, v).end = s.end
         /\ St!Keep(o, v).exec_tmout = s.exec_tmout /\ St!Keep(o, v).mem_limit = s.mem_limit
         /\ LimitsOf(St!Keep(o, v)) /\ LimitsOf(St!Fatal) /\ LimitsOf(St!Once(o, v))
         /\ \A e \in {"version", "usage"} : LimitsOf([s EXCEPT !.end = e])
<1>1. /\ Shaped(St!Keep(o, v)) /\ St!Keep(o, v).end = s.end
      /\ St!Keep(o, v).exec_tmout = s.exec_tmout /\ St!Keep(o, v).mem_limit = s.mem_limit
  BY DEF LimitsOf, Shaped, Fields, St!Keep
<1>2. LimitsOf(St!Fatal) /\ \A e \in {"version", "usage"} : LimitsOf([s EXCEPT !.end = e])
  BY DEF LimitsOf, Shaped, Fields, St!Fatal
<1>3. LimitsOf(St!Keep(o, v))
  BY <1>1 DEF LimitsOf
<1>. QED  BY <1>1, <1>2, <1>3 DEF St!Once

LEMMA MemLimits ==
  ASSUME NEW v, LimitsOf(s), v.n \in Int PROVE LimitsOf(St!MemOption(v))
<1>. DEFINE k == St!Keep("m", v)
<1>1. Shaped(k) /\ k.end = s.end /\ k.exec_tmout = s.exec_tmout /\ LimitsOf(St!Fatal)
  BY KeepLimits
<1>2. v.unit \in {"T", "G", "k", "M"} => St!MemValue(v) \in Int
  BY DEF St!MemValue
<1>. HIDE DEF k
<1>3. ASSUME NEW n \in Nat, n = 0 \/ n >= 5 PROVE LimitsOf([k EXCEPT !.mem_limit = n])
  BY <1>1, <1>3 DEF LimitsOf, Shaped, Fields
<1>4. CASE v.unit = "none"
  <2>1. St!MemOption(v) \in {St!Fatal, [k EXCEPT !.mem_limit = 0]}
    BY <1>4 DEF St!MemOption, k
  <2>2. LimitsOf([k EXCEPT !.mem_limit = 0])
    BY <1>3
  <2>. QED  BY <2>1, <2>2, <1>1
<1>5. CASE v.unit \in {"T", "G", "k", "M"} /\ St!MemValue(v) >= 5
  <2>1. St!MemOption(v) \in {St!Fatal, [k EXCEPT !.mem_limit = St!MemValue(v)]}
    BY <1>5 DEF St!MemOption, k
  <2>2. St!MemValue(v) \in Nat
    BY <1>2, <1>5
  <2>3. LimitsOf([k EXCEPT !.mem_limit = St!MemValue(v)])
    BY <1>3, <1>5, <2>2
  <2>. QED  BY <2>1, <2>3, <1>1
<1>6. CASE v.unit # "none" /\ (v.unit \notin {"T", "G", "k", "M"} \/ St!MemValue(v) < 5)
  <2>1. St!MemOption(v) = St!Fatal
    BY <1>6 DEF St!MemOption
  <2>. QED  BY <2>1, <1>1
<1>. QED  BY <1>2, <1>4, <1>5, <1>6

LEMMA QemuLimits == ASSUME NEW v, LimitsOf(s) PROVE LimitsOf(St!QemuOption(v))
<1>. DEFINE k == St!Keep("Q", v)
<1>1. Shaped(k) /\ k.end = s.end /\ k.exec_tmout = s.exec_tmout /\ k.mem_limit = s.mem_limit /\ LimitsOf(St!Fatal) /\ LimitsOf(k)
  BY KeepLimits
<1>2. QemuMem \in Nat /\ QemuMem >= 5
  BY StartAssumption
<1>3. St!QemuOption(v) \in {St!Fatal, [k EXCEPT !.mem_limit = k.mem_limit], [k EXCEPT !.mem_limit = QemuMem]}
  BY DEF St!QemuOption, k
<1>. HIDE DEF k
<1>4. LimitsOf([k EXCEPT !.mem_limit = QemuMem]) /\ LimitsOf([k EXCEPT !.mem_limit = k.mem_limit])
  BY <1>1, <1>2 DEF LimitsOf, Shaped, Fields
<1>. QED  BY <1>1, <1>3, <1>4

LEMMA TmoutLimits ==
  ASSUME NEW v, NEW n \in Nat, LimitsOf(s), v.n \in Int
  PROVE  LimitsOf(St!TmoutOption(v, n)) /\ LimitsOf(St!FuzzTmoutOption(v))
<1>. DEFINE k == St!Keep("t", v)
<1>1. Shaped(k) /\ k.end = s.end /\ k.mem_limit = s.mem_limit /\ LimitsOf(St!Fatal) /\ LimitsOf(k)
  BY KeepLimits
<1>2. \/ St!TmoutOption(v, n) = St!Fatal
      \/ ~(v.n < n) /\ St!TmoutOption(v, n) = [k EXCEPT !.exec_tmout = v.n]
  BY DEF St!TmoutOption
<1>3. \/ St!FuzzTmoutOption(v) = St!Fatal
      \/ ~(v.n < 5) /\ \E g \in {1, 2} : St!FuzzTmoutOption(v) = [k EXCEPT !.exec_tmout = v.n, !.timeout_given = g]
  BY DEF St!FuzzTmoutOption
<1>. HIDE DEF k
<1>4. v.n \in Nat => LimitsOf([k EXCEPT !.exec_tmout = v.n]) /\ \A g \in {1, 2} : LimitsOf([k EXCEPT !.exec_tmout = v.n, !.timeout_given = g])
  BY <1>1 DEF LimitsOf, Shaped, Fields
<1>. QED  BY <1>1, <1>2, <1>3, <1>4

(* The options that only set a switch.                                     *)
LEMMA SwitchLimits ==
  ASSUME NEW o, NEW v, LimitsOf(s)
  PROVE  /\ LimitsOf(St!MasterOption(v)) /\ LimitsOf(St!SlaveOption(v)) /\ LimitsOf(St!SkipOption(v)) /\ LimitsOf(St!DumbOption(v))
         /\ LimitsOf([St!Keep(o, v) EXCEPT !.quiet_mode = TRUE])
<1>1. \A x : LimitsOf(St!Keep(x, v))
  BY KeepLimits
<1>2. LimitsOf(St!Fatal)
  BY KeepLimits
<1>3. LimitsOf(St!MasterOption(v))
  <2>1. LimitsOf([St!Keep("M", v) EXCEPT !.force_deterministic = TRUE])
    BY <1>1 DEF LimitsOf, Shaped, Fields
  <2>. QED  BY <1>2, <2>1 DEF St!MasterOption
<1>4. LimitsOf(St!SlaveOption(v))
  BY <1>1, <1>2 DEF St!SlaveOption
<1>5. LimitsOf(St!SkipOption(v))
  <2>1. LimitsOf([St!Keep("d", v) EXCEPT !.skip_deterministic = TRUE, !.use_splicing = TRUE])
    BY <1>1 DEF LimitsOf, Shaped, Fields
  <2>. QED  BY <1>2, <2>1 DEF St!SkipOption
<1>6. LimitsOf(St!DumbOption(v))
  <2>1. \A d : LimitsOf([St!Keep("n", v) EXCEPT !.dumb_mode = d])
    BY <1>1 DEF LimitsOf, Shaped, Fields
  <2>. QED  BY <1>2, <2>1 DEF St!DumbOption
<1>7. LimitsOf([St!Keep(o, v) EXCEPT !.quiet_mode = TRUE])
  BY <1>1 DEF LimitsOf, Shaped, Fields
<1>. QED  BY <1>3, <1>4, <1>5, <1>6, <1>7

LEMMA OptionLimits ==
  ASSUME NEW o, NEW v, LimitsOf(s), o \in {"m", "t"} => v.n \in Int,
         cl.tool \in {"afl-fuzz", "afl-tmin", "afl-analyze", "afl-showmap"}
  PROVE  LimitsOf(St!Option(o, v))
<1>1. LimitsOf(St!Once(o, v)) /\ LimitsOf(St!Keep(o, v)) /\ LimitsOf(St!Fatal)
      /\ LimitsOf([s EXCEPT !.end = "version"]) /\ LimitsOf([s EXCEPT !.end = "usage"])
  BY KeepLimits
<1>2. o = "m" => LimitsOf(St!MemOption(v))
  BY MemLimits
<1>3. o = "t" => LimitsOf(St!FuzzTmoutOption(v)) /\ LimitsOf(St!TmoutOption(v, 10)) /\ LimitsOf(St!TmoutOption(v, 20))
  <2>1. 10 \in Nat /\ 20 \in Nat
    OBVIOUS
  <2>. QED  BY TmoutLimits, <2>1
<1>4. LimitsOf(St!QemuOption(v))
  BY QemuLimits
<1>5. /\ LimitsOf(St!MasterOption(v)) /\ LimitsOf(St!SlaveOption(v)) /\ LimitsOf(St!SkipOption(v)) /\ LimitsOf(St!DumbOption(v))
      /\ LimitsOf([St!Keep(o, v) EXCEPT !.quiet_mode = TRUE])
  BY SwitchLimits
<1>6. LimitsOf(St!FuzzOption(o, v))
  BY <1>1, <1>2, <1>3, <1>4, <1>5 DEF St!FuzzOption
<1>7. LimitsOf(St!TminOption(o, v)) /\ LimitsOf(St!AnalyzeOption(o, v))
  BY <1>1, <1>2, <1>3, <1>4 DEF St!TminOption, St!AnalyzeOption
<1>8. LimitsOf(St!ShowmapOption(o, v))
  BY <1>1, <1>2, <1>3, <1>4, <1>5 DEF St!ShowmapOption
<1>. QED  BY <1>6, <1>7, <1>8 DEF St!Option

LEMMA SettingsStep == SettingsInv /\ (St!StartNext \/ UNCHANGED start) => SettingsInv'
<1>. SUFFICES ASSUME SettingsInv, St!StartNext \/ UNCHANGED start PROVE SettingsInv'
  OBVIOUS
<1>0. LimitsOf(s)
  BY DEF SettingsInv, LimitsOf
<1>1. CASE St!ReadOption
  <2>1. /\ rest # <<>> /\ s' = St!Option(Head(rest).o, Head(rest).v) /\ rest' = Tail(rest) /\ cl' = cl
        /\ stage_of_start' = IF s'.end = "no" THEN "options" ELSE s'.end
    BY <1>1 DEF St!ReadOption
  <2>2. Head(rest) \in {cl.args[i] : i \in DOMAIN cl.args} /\ Tail(rest) \in Seq({cl.args[i] : i \in DOMAIN cl.args})
    BY <2>1 DEF SettingsInv
  <2>3. /\ cl.tool \in {"afl-fuzz", "afl-tmin", "afl-analyze", "afl-showmap"}
        /\ Head(rest).o \in {"m", "t"} => Head(rest).v.n \in Int
    BY <2>2, StartAssumption DEF SettingsInv
  <2>4. LimitsOf(s')
    BY <1>0, <2>1, <2>3, OptionLimits
  <2>5. Shaped(s)'
    BY <2>4 DEF LimitsOf, Shaped
  <2>. QED  BY <2>1, <2>2, <2>4, <2>5 DEF SettingsInv, LimitsOf
<1>2. CASE St!EndOfOptions
  BY <1>2 DEF St!EndOfOptions, SettingsInv, Shaped
<1>3. CASE St!Check
  <2>1. /\ UNCHANGED <<cl, rest>> /\ stage_of_start' \in {"fatal", "binary"} /\ s' \in {s, St!FixedUp}
    BY <1>3 DEF St!Check
  <2>2. LimitsOf(St!FixedUp)
    BY <1>0 DEF LimitsOf, Shaped, Fields, St!FixedUp
  <2>3. LimitsOf(s')
    BY <1>0, <2>1, <2>2
  <2>4. Shaped(s)'
    BY <2>3 DEF LimitsOf, Shaped
  <2>. QED  BY <2>1, <2>3, <2>4 DEF SettingsInv, LimitsOf
<1>4. CASE St!FindTarget
  BY <1>4 DEF St!FindTarget, SettingsInv, Shaped
<1>5. CASE UNCHANGED start
  BY <1>5 DEF start, SettingsInv, Shaped
<1>. QED  BY <1>1, <1>2, <1>3, <1>4, <1>5 DEF St!StartNext

LEMMA SettingsImply == SettingsInv => St!StartTypeOK
BY DEF SettingsInv, St!StartTypeOK

-----------------------------------------------------------------------------
(* A build: two trampolines a line at most, and no file is read at a ratio *)
(* above 100.                                                              *)
BuildInv ==
  /\ build \in Builds /\ bstep \in {"find", "args", "as", "lines", "done", "fatal"}
  /\ asm \in Seq([before : BOOLEAN, after : BOOLEAN]) /\ Len(asm) <= Len(build.file)
  /\ scan \in Flags /\ scan.ins_lines <= 2 * Len(asm)
  /\ AsTyped /\ (bstep # "fatal" => as.inst_ratio <= 100)

LEMMA BuildStart == Co!CompileInit => BuildInv
<1>. SUFFICES ASSUME Co!CompileInit PROVE BuildInv
  OBVIOUS
<1>1. /\ build \in Builds /\ bstep = "find" /\ asm = <<>> /\ scan = Co!FreshScan
      /\ as = [use_64bit |-> TRUE, clang_mode |-> FALSE, pass_thru |-> FALSE, inst_ratio |-> 100]
  BY DEF Co!CompileInit
<1>2. asm \in Seq([before : BOOLEAN, after : BOOLEAN]) /\ Len(asm) = 0
  BY <1>1, EmptySeq
<1>3. build.file \in Seq(STRING) /\ Len(build.file) \in Nat
  BY <1>1, BuildsAssumption
<1>4. scan \in Flags /\ scan.ins_lines = 0
  BY <1>1 DEF Flags, Co!FreshScan
<1>5. AsTyped /\ as.inst_ratio = 100
  BY <1>1 DEF AsTyped
<1>. QED  BY <1>1, <1>2, <1>3, <1>4, <1>5 DEF BuildInv

LEMMA BuildReadLine ==
  ASSUME BuildInv, CompileInv, NEW chosen \in Co!Odds, Co!ReadLine(chosen) PROVE BuildInv'
<1>1. bstep = "lines" /\ UNCHANGED <<build, bstep, as>>
  BY DEF Co!ReadLine
<1>2. LinesInv'
  BY LineStep
<1>3. asm' \in Seq([before : BOOLEAN, after : BOOLEAN]) /\ Len(asm') <= Len(build'.file) /\ scan' \in Flags
  BY <1>2 DEF LinesInv, Flags
<1>4. scan'.ins_lines <= 2 * Len(asm')
  <2>. DEFINE line == build.file[Len(asm) + 1]
              before == ~as.pass_thru /\ Co!Counts(scan) /\ scan.instrument_next /\ line \in Co!Instructions
              noted == Co!Noted(line)
              after == ~as.pass_thru /\ Co!Counts(noted) /\ line = "jcc" /\ chosen
              waiting == IF Co!Counts(noted) THEN Co!AfterLabel(noted, line, chosen) ELSE noted
              more == (IF before THEN 1 ELSE 0) + (IF after THEN 1 ELSE 0)
  <2>1. /\ asm' = Append(asm, [before |-> before, after |-> after])
        /\ scan' = IF as.pass_thru THEN scan
                   ELSE [waiting EXCEPT !.instrument_next = @ /\ ~before,
                                        !.ins_lines = @ + (IF before THEN 1 ELSE 0) + (IF after THEN 1 ELSE 0)]
    BY DEF Co!ReadLine
  <2>2. scan \in Flags /\ AsTyped /\ scan.ins_lines \in Nat /\ chosen \in BOOLEAN
    BY DEF BuildInv, Flags, Co!Odds
  <2>3. noted \in Flags /\ noted.ins_lines = scan.ins_lines
    BY <2>2, NotedIs
  <2>. HIDE DEF noted
  <2>4. waiting \in Flags /\ waiting.ins_lines = scan.ins_lines
    BY <2>2, <2>3, AfterLabelIs
  <2>. HIDE DEF waiting
  <2>5. more \in 0 .. 2
    <3>. HIDE DEF before, after
    <3>. QED  OBVIOUS
  <2>6. Len(asm') = Len(asm) + 1 /\ Len(asm) \in Nat
    <3>. HIDE DEF before, after
    <3>1. [before |-> before, after |-> after] \in [before : BOOLEAN, after : BOOLEAN]
      BY DEF before, after
    <3>. QED  BY <2>1, <3>1, AppendProperties DEF BuildInv
  <2>7. scan'.ins_lines \in {scan.ins_lines, scan.ins_lines + more}
    <3>. HIDE DEF before, after
    <3>1. CASE as.pass_thru
      BY <2>1, <3>1
    <3>2. CASE ~as.pass_thru
      <4>1. scan'.ins_lines = waiting.ins_lines + (IF before THEN 1 ELSE 0) + (IF after THEN 1 ELSE 0)
        BY <2>1, <2>4, <3>2 DEF Flags
      <4>. QED  BY <2>2, <2>4, <4>1
    <3>. QED  BY <3>1, <3>2
  <2>8. scan.ins_lines <= 2 * Len(asm)
    BY DEF BuildInv
  <2>. HIDE DEF more
  <2>. QED  BY <2>2, <2>5, <2>6, <2>7, <2>8
<1>5. AsTyped'
  BY <1>1 DEF BuildInv, AsTyped
<1>. QED  BY <1>1, <1>3, <1>4, <1>5 DEF BuildInv

LEMMA BuildStep ==
  ASSUME BuildInv, CompileInv, Co!CompileNext \/ UNCHANGED compile PROVE BuildInv'
<1>1. ASSUME UNCHANGED <<build, asm, scan, as>>, bstep' \in {"find", "args", "as", "lines", "done", "fatal"},
             bstep = "fatal" => bstep' = "fatal"
      PROVE  BuildInv'
  <2>1. AsTyped'
    BY <1>1 DEF BuildInv, AsTyped
  <2>2. scan' \in Flags
    BY <1>1 DEF BuildInv, Flags
  <2>. QED  BY <1>1, <2>1, <2>2 DEF BuildInv
<1>2. CASE Co!FindAs \/ Co!ReadArg \/ Co!EndOfArgs \/ Co!EndOfFile
  <2>1. UNCHANGED <<build, asm, scan, as>> /\ bstep' \in {"find", "args", "as", "lines", "done", "fatal"} /\ bstep # "fatal"
    BY <1>2 DEF Co!FindAs, Co!ReadArg, Co!EndOfArgs, Co!EndOfFile
  <2>. QED  BY <1>1, <2>1
<1>3. CASE Co!StartAs
  <2>1. UNCHANGED <<build, asm, scan>> /\ bstep' \in {"fatal", "done", "lines"} /\ (bstep' # "fatal" => ~(build.ratio > 100))
    BY <1>3 DEF Co!StartAs
  <2>2. as' = [use_64bit |-> Co!Width # "-m32", clang_mode |-> build.tool = "afl-clang", pass_thru |-> Co!PassThru,
               inst_ratio |-> IF Co!Sanitized THEN build.ratio \div 3 ELSE build.ratio]
    BY <1>3 DEF Co!StartAs
  <2>3. build.ratio \in Nat
    BY BuildsAssumption DEF BuildInv
  <2>4. AsTyped' /\ (bstep' # "fatal" => as'.inst_ratio <= 100)
    <3>. DEFINE u == Co!Width # "-m32"
                c == build.tool = "afl-clang"
                p == Co!PassThru
                r == IF Co!Sanitized THEN build.ratio \div 3 ELSE build.ratio
    <3>1. u \in BOOLEAN /\ c \in BOOLEAN
      OBVIOUS
    <3>2. p \in BOOLEAN
      BY DEF Co!PassThru
    <3>3. build.ratio \div 3 \in Nat /\ build.ratio \div 3 <= build.ratio
      BY <2>3
    <3>4. r \in Nat /\ r <= build.ratio
      BY <2>3, <3>3
    <3>. HIDE DEF u, c, p, r
    <3>5. as' = [use_64bit |-> u, clang_mode |-> c, pass_thru |-> p, inst_ratio |-> r]
      BY <2>2 DEF u, c, p, r
    <3>6. AsTyped' /\ as'.inst_ratio = r
      BY <3>1, <3>2, <3>4, <3>5 DEF AsTyped
    <3>. QED  BY <2>1, <2>3, <3>4, <3>6
  <2>5. scan' \in Flags
    BY <2>1 DEF BuildInv, Flags
  <2>. QED  BY <2>1, <2>4, <2>5 DEF BuildInv
<1>4. ASSUME NEW chosen \in Co!Odds, Co!ReadLine(chosen) PROVE BuildInv'
  BY <1>4, BuildReadLine
<1>5. CASE UNCHANGED compile
  <2>1. UNCHANGED <<build, asm, scan, as, bstep>>
    BY <1>5 DEF compile
  <2>2. bstep' \in {"find", "args", "as", "lines", "done", "fatal"}
    BY <2>1 DEF BuildInv
  <2>. QED  BY <1>1, <2>1, <2>2
<1>. QED  BY <1>2, <1>3, <1>4, <1>5 DEF Co!CompileNext

LEMMA BuildImplies == BuildInv => Co!CompileTypeOK
<1>. SUFFICES ASSUME BuildInv PROVE Co!CompileTypeOK
  OBVIOUS
<1>1. scan.ins_lines \in Nat
  BY DEF BuildInv, Flags
<1>2. as.inst_ratio \in Nat
  BY DEF BuildInv, AsTyped
<1>3. Len(asm) \in Nat /\ Len(asm) <= Len(build.file) /\ scan.ins_lines <= 2 * Len(asm)
  BY DEF BuildInv
<1>4. scan.ins_lines \in 0 .. 2 * Len(asm)
  BY <1>1, <1>3
<1>. QED  BY <1>2, <1>3, <1>4 DEF BuildInv, Co!CompileTypeOK

-----------------------------------------------------------------------------
(* The pass over a program: it stands at a function, and what the session  *)
(* of the debugger marked are candidates of the first run.                 *)
PassSteps == {"pointers1", "branches1", "classify", "pointers2", "pointers3", "switches", "cases", "ifs", "conditions", "done", "aborted"}
PassInv ==
  /\ prog \in Analyzed /\ step \in PassSteps /\ fn \in SV!Funcs
  /\ step \in {"pointers1", "branches1"} => info = [mealy |-> {}, sub |-> {}]
  /\ info.mealy \cup info.sub \subseteq SV!ToSet(candidates) /\ info.mealy \cap info.sub = {}

LEMMA PassFunctions == ASSUME prog \in Analyzed PROVE Len(prog.functions) \in Nat /\ Len(prog.functions) >= 1 /\ SV!Funcs = 1 .. Len(prog.functions)
<1>1. prog.functions \in Seq({prog.functions[i] : i \in DOMAIN prog.functions}) /\ prog.functions # <<>>
  BY AnalyzedAssumption
<1>. QED  BY <1>1, EmptySeq DEF SV!Funcs

LEMMA PassStart == SV!StateVarsInit => PassInv
<1>. SUFFICES ASSUME SV!StateVarsInit PROVE PassInv
  OBVIOUS
<1>1. prog \in Analyzed /\ step = "pointers1" /\ fn = 1 /\ info = [mealy |-> {}, sub |-> {}]
  BY DEF SV!StateVarsInit
<1>2. fn \in SV!Funcs
  BY <1>1, PassFunctions
<1>. QED  BY <1>1, <1>2 DEF PassInv, PassSteps

(* Only the first run writes candidates, and nothing is marked before.     *)
LEMMA PassMoves ==
  ASSUME PassInv, UNCHANGED <<prog, info>>, step' \in PassSteps, fn' \in SV!Funcs,
         step' \in {"pointers1", "branches1"} => step \in {"pointers1", "branches1"},
         step \in {"pointers1", "branches1"} \/ UNCHANGED candidates
  PROVE  PassInv'
<1>1. SV!Funcs' = SV!Funcs
  BY DEF SV!Funcs
<1>2. step' \in {"pointers1", "branches1"} => info' = [mealy |-> {}, sub |-> {}]
  BY DEF PassInv
<1>3. info'.mealy \cup info'.sub \subseteq SV!ToSet(candidates') /\ info'.mealy \cap info'.sub = {}
  <2>1. CASE step \in {"pointers1", "branches1"}
    BY <2>1 DEF PassInv
  <2>2. CASE UNCHANGED candidates
    BY <2>2 DEF PassInv
  <2>. QED  BY <2>1, <2>2
<1>4. prog' \in Analyzed
  BY DEF PassInv
<1>. QED  BY <1>1, <1>2, <1>3, <1>4 DEF PassInv, SV!ToSet

LEMMA NextFunctionIs ==
  ASSUME PassInv, NEW to, SV!NextFunction(to)
  PROVE  fn' \in SV!Funcs /\ step' \in {step, to}
<1>1. Len(prog.functions) \in Nat /\ Len(prog.functions) >= 1 /\ SV!Funcs = 1 .. Len(prog.functions) /\ fn \in SV!Funcs
  BY PassFunctions DEF PassInv
<1>. QED  BY <1>1 DEF SV!NextFunction

LEMMA PassStep == PassInv /\ (SV!StateVarsNext \/ UNCHANGED statevars) => PassInv'
<1>. SUFFICES ASSUME PassInv, SV!StateVarsNext \/ UNCHANGED statevars PROVE PassInv'
  OBVIOUS
<1>0. step \in PassSteps /\ fn \in SV!Funcs
  BY DEF PassInv
<1>1. CASE SV!checkAllCallSite_Candidate_Mealy
  <2>1. UNCHANGED <<prog, info, fn>> /\ step = "pointers1" /\ step' = "branches1"
    BY <1>1 DEF SV!checkAllCallSite_Candidate_Mealy
  <2>. QED  BY <1>0, <2>1, PassMoves DEF PassSteps
<1>2. CASE SV!handleBranch_Candidate_Mealy
  <2>1. UNCHANGED <<prog, info>> /\ step = "branches1" /\ SV!NextFunction("classify")
    BY <1>2 DEF SV!handleBranch_Candidate_Mealy
  <2>2. fn' \in SV!Funcs /\ step' \in {step, "classify"}
    BY <2>1, NextFunctionIs
  <2>. QED  BY <1>0, <2>1, <2>2, PassMoves DEF PassSteps
<1>3. CASE SV!CompilerAborts
  <2>1. UNCHANGED <<prog, info, fn, candidates>> /\ step' = "aborted"
    BY <1>3 DEF SV!CompilerAborts
  <2>. QED  BY <1>0, <2>1, PassMoves DEF PassSteps
<1>4. CASE SV!Classify
  <2>1. UNCHANGED <<prog, fn, candidates>> /\ step' = "pointers2"
    BY <1>4 DEF SV!Classify
  <2>2. info'.mealy \cup info'.sub \subseteq SV!ToSet(candidates) /\ info'.mealy \cap info'.sub = {}
    <3>1. PICK mealy, sub \in SUBSET SV!ToSet(candidates) : mealy \cap sub = {} /\ info' = [mealy |-> mealy, sub |-> sub]
      BY <1>4 DEF SV!Classify
    <3>. QED  BY <3>1
  <2>3. SV!Funcs' = SV!Funcs /\ SV!ToSet(candidates') = SV!ToSet(candidates)
    BY <2>1 DEF SV!Funcs
  <2>. QED  BY <2>1, <2>2, <2>3 DEF PassInv, PassSteps, SV!ToSet
<1>5. CASE SV!saveStateVarInDirectScene \/ SV!handleCandidateObjForFuncPointer \/ SV!PointersDone \/ SV!handleStateVarInSwitchScene
           \/ SV!InstrumentSwitch \/ SV!SwitchDone \/ SV!SwitchesDone
  <2>1. UNCHANGED <<prog, info, fn, candidates>>
    BY ZenonT(60), <1>5 DEF SV!saveStateVarInDirectScene, SV!handleCandidateObjForFuncPointer, SV!PointersDone, SV!handleStateVarInSwitchScene,
                SV!InstrumentSwitch, SV!SwitchDone, SV!SwitchesDone
  <2>2. step \notin {"pointers1", "branches1"} /\ step' \in {step, "pointers3", "aborted", "switches", "cases", "ifs"}
    BY <1>5 DEF SV!saveStateVarInDirectScene, SV!handleCandidateObjForFuncPointer, SV!PointersDone, SV!handleStateVarInSwitchScene,
                SV!InstrumentSwitch, SV!SwitchDone, SV!SwitchesDone
  <2>. QED  BY <1>0, <2>1, <2>2, PassMoves DEF PassSteps
<1>6. CASE SV!handleStateVarInIfScene \/ SV!iterateAllSwAndIfCondition
  <2>1. /\ UNCHANGED <<prog, info, candidates>> /\ step \in {"ifs", "conditions"}
        /\ UNCHANGED <<step, fn>> \/ \E to \in {"conditions", "done"} : SV!NextFunction(to)
    <3>1. CASE SV!handleStateVarInIfScene
      BY <3>1, Zenon DEF SV!handleStateVarInIfScene, SV!NextIf
    <3>2. CASE SV!iterateAllSwAndIfCondition
      BY <3>2, Zenon DEF SV!iterateAllSwAndIfCondition, SV!NextLoad
    <3>. QED  BY <1>6, <3>1, <3>2
  <2>2. fn' \in SV!Funcs /\ step' \in {step, "conditions", "done"}
    BY <2>1, NextFunctionIs DEF PassInv
  <2>. QED  BY <1>0, <2>1, <2>2, PassMoves DEF PassSteps
<1>7. CASE UNCHANGED statevars
  <2>1. UNCHANGED <<prog, info, fn, candidates, step>>
    BY <1>7 DEF statevars
  <2>. QED  BY <1>0, <2>1, PassMoves
<1>. QED  BY <1>1, <1>2, <1>3, <1>4, <1>5, <1>6, <1>7 DEF SV!StateVarsNext

LEMMA PassImplies == PassInv => SV!StateVarsTypeOK
BY DEF PassInv, PassSteps, SV!StateVarsTypeOK, SV!ToSet

-----------------------------------------------------------------------------
(* The numbers of the state variables: what t has handed out lies below    *)
(* its two counters, and no number stands for two variables of a kind.     *)
IrShaped(t) ==
  t = [monitored |-> t.monitored, calls |-> t.calls, log |-> t.log, mealy |-> t.mealy, sub |-> t.sub,
       error |-> t.error, crashed |-> t.crashed]

(* The number of a sub-state variable that is not from a table.            *)
Counts(scene, num) == scene = "sub" => num < FirstMealy

BelowCounters(t) ==
  \A i \in DOMAIN t.calls :
    /\ t.calls[i].num \in Nat
    /\ t.calls[i].scene \in {"mealy", "sub"}
    /\ Counts(t.calls[i].scene, t.calls[i].num) => t.calls[i].num < SV!Number(t, t.calls[i].scene)

OneVariable(t) ==
  \A i, j \in DOMAIN t.calls :
    /\ t.calls[i].scene = t.calls[j].scene /\ t.calls[i].num = t.calls[j].num
    /\ Counts(t.calls[i].scene, t.calls[i].num)
    => t.calls[i].var = t.calls[j].var

Numbered(t) ==
  /\ IrShaped(t) /\ t.calls \in Seq({t.calls[i] : i \in DOMAIN t.calls})
  /\ t.mealy \in Nat /\ t.mealy >= FirstMealy /\ t.sub \in Nat
  /\ BelowCounters(t) /\ OneVariable(t)

(* num is one that var can be given, or has been given already.            *)
MayHave(t, scene, num, var) ==
  /\ scene \in {"mealy", "sub"} /\ num \in Nat
  /\ Counts(scene, num) => num <= SV!Number(t, scene)
  /\ \A i \in DOMAIN t.calls :
       t.calls[i].scene = scene /\ t.calls[i].num = num /\ Counts(scene, num) => t.calls[i].var = var

LEMMA MealyHasNext ==
  ASSUME NEW t, Numbered(t), NEW var PROVE MayHave(t, "mealy", t.mealy, var) /\ MayHave(t, "sub", t.mealy, var)
BY AnalyzedAssumption DEF Numbered, MayHave, BelowCounters, Counts, SV!Number

LEMMA HasNext ==
  ASSUME NEW t, Numbered(t), NEW var, NEW scene \in {"mealy", "sub"} PROVE MayHave(t, scene, SV!Number(t, scene), var)
BY AnalyzedAssumption DEF Numbered, MayHave, BelowCounters, Counts, SV!Number

(* What is not about calls and counters does not matter.                   *)
LEMMA SameNumbers ==
  ASSUME NEW t, Numbered(t), NEW u, IrShaped(u), u.calls = t.calls, u.mealy = t.mealy, u.sub = t.sub
  PROVE  /\ Numbered(u)
         /\ \A scene, num, var : MayHave(t, scene, num, var) => MayHave(u, scene, num, var)
BY DEF Numbered, MayHave, BelowCounters, OneVariable, SV!Number

LEMMA NumberedFlags ==
  ASSUME NEW t, Numbered(t), NEW b
  PROVE  /\ Numbered([t EXCEPT !.error = b]) /\ Numbered([t EXCEPT !.crashed = b])
         /\ [t EXCEPT !.error = b].mealy = t.mealy /\ [t EXCEPT !.error = b].sub = t.sub
         /\ \A scene, num, var : MayHave(t, scene, num, var) =>
              MayHave([t EXCEPT !.error = b], scene, num, var) /\ MayHave([t EXCEPT !.crashed = b], scene, num, var)
<1>1. IrShaped(t)
  BY DEF Numbered
<1>2. ASSUME NEW u \in {[t EXCEPT !.error = b], [t EXCEPT !.crashed = b]}
      PROVE  IrShaped(u) /\ u.calls = t.calls /\ u.mealy = t.mealy /\ u.sub = t.sub
  BY <1>1 DEF IrShaped
<1>. QED  BY <1>2, SameNumbers

(* One call more.                                                          *)
LEMMA CallAdded ==
  ASSUME NEW t, Numbered(t), NEW scene, NEW num, NEW var, MayHave(t, scene, num, var),
         NEW call, call.scene = scene, call.num = num, call.var = var,
         NEW u, IrShaped(u), u.calls = Append(t.calls, call),
         u.mealy = IF scene = "mealy" THEN t.mealy + 1 ELSE t.mealy,
         u.sub = IF scene = "mealy" THEN t.sub ELSE t.sub + 1
  PROVE  Numbered(u) /\ MayHave(u, scene, num, var)
<1> DEFINE n == Len(t.calls)
<1>1. t.calls \in Seq({t.calls[i] : i \in DOMAIN t.calls}) /\ n \in Nat /\ DOMAIN t.calls = 1 .. n
  BY DEF Numbered
<1>2. /\ DOMAIN u.calls = 1 .. n + 1 /\ u.calls[n + 1] = call
      /\ \A i \in 1 .. n : u.calls[i] = t.calls[i]
  BY <1>1
<1>3. u.calls \in Seq({u.calls[i] : i \in DOMAIN u.calls})
  <2>1. \A i \in 1 .. n + 1 : u.calls[i] \in {u.calls[j] : j \in DOMAIN u.calls}
    BY <1>2
  <2>2. u.calls = [i \in 1 .. n + 1 |-> u.calls[i]]
    BY <1>1, <1>2
  <2> DEFINE S == {u.calls[j] : j \in DOMAIN u.calls}
  <2>3. u.calls \in [1 .. n + 1 -> S] /\ n + 1 \in Nat
    BY <1>1, <2>1, <2>2
  <2>. HIDE DEF S
  <2>4. u.calls \in Seq(S)
    BY <2>3, SeqDef
  <2>. QED  BY <2>4 DEF S
<1>4. /\ u.mealy \in Nat /\ u.mealy >= FirstMealy /\ u.sub \in Nat /\ u.mealy >= t.mealy /\ u.sub >= t.sub
      /\ num \in Nat /\ scene \in {"mealy", "sub"} /\ t.mealy \in Nat /\ t.sub \in Nat /\ FirstMealy \in Nat
  BY AnalyzedAssumption DEF Numbered, MayHave
<1>5. Counts(scene, num) => num < SV!Number(u, scene)
  BY <1>4 DEF MayHave, SV!Number
<1>6. BelowCounters(u)
  <2>1. ASSUME NEW i \in 1 .. n PROVE /\ t.calls[i].num \in Nat /\ t.calls[i].scene \in {"mealy", "sub"}
                                      /\ Counts(t.calls[i].scene, t.calls[i].num) => t.calls[i].num < SV!Number(u, t.calls[i].scene)
    <3>1. /\ t.calls[i].num \in Nat /\ t.calls[i].scene \in {"mealy", "sub"}
          /\ Counts(t.calls[i].scene, t.calls[i].num) => t.calls[i].num < SV!Number(t, t.calls[i].scene)
      BY <1>1 DEF Numbered, BelowCounters
    <3>2. SV!Number(t, t.calls[i].scene) <= SV!Number(u, t.calls[i].scene)
          /\ SV!Number(t, t.calls[i].scene) \in Nat /\ SV!Number(u, t.calls[i].scene) \in Nat
      BY <1>4 DEF SV!Number
    <3>. QED  BY <3>1, <3>2
  <2>2. \A i \in 1 .. n + 1 : i \in 1 .. n \/ i = n + 1
    BY <1>1
  <2>. QED  BY <1>2, <1>4, <1>5, <2>1, <2>2 DEF BelowCounters
<1>7. ASSUME NEW i \in 1 .. n + 1, u.calls[i].scene = scene, u.calls[i].num = num, Counts(scene, num)
      PROVE  u.calls[i].var = var
  <2>1. i \in 1 .. n \/ i = n + 1
    BY <1>1
  <2>. QED  BY <1>1, <1>2, <1>7, <2>1 DEF MayHave
<1>8. OneVariable(u)
  <2>1. SUFFICES ASSUME NEW i \in 1 .. n + 1, NEW j \in 1 .. n + 1,
                        u.calls[i].scene = u.calls[j].scene, u.calls[i].num = u.calls[j].num,
                        Counts(u.calls[i].scene, u.calls[i].num)
                 PROVE  u.calls[i].var = u.calls[j].var
    BY <1>2 DEF OneVariable
  <2>2. CASE i = n + 1 \/ j = n + 1
    <3>1. u.calls[i].scene = scene /\ u.calls[i].num = num
      BY <1>2, <2>1, <2>2
    <3>. QED  BY <1>7, <2>1, <3>1
  <2>3. CASE i \in 1 .. n /\ j \in 1 .. n
    BY ZenonT(60), <1>1, <1>2, <2>1, <2>3 DEF Numbered, OneVariable
  <2>. QED  BY SMTT(40), <1>1, <2>2, <2>3
<1>9. MayHave(u, scene, num, var)
  BY <1>2, <1>4, <1>5, <1>7 DEF MayHave, SV!Number
<1>. QED  BY <1>3, <1>4, <1>6, <1>8, <1>9 DEF Numbered

LEMMA InsertKeeps ==
  ASSUME NEW t, NEW locate, NEW tgt, NEW type, NEW scene, NEW kind, NEW num, NEW var,
         Numbered(t), MayHave(t, scene, num, var)
  PROVE  LET u == SV!Insert(t, locate, tgt, type, scene, kind, num, var) IN Numbered(u) /\ MayHave(u, scene, num, var)
<1> DEFINE u == SV!Insert(t, locate, tgt, type, scene, kind, num, var)
           where == IF SV!Early(SV!LabelOf(tgt)) THEN tgt ELSE locate
           call == [scene |-> scene, num |-> num, at |-> where, on |-> tgt, var |-> var]
<1>1. \/ u = t
      \/ scene = "mealy" /\ u = [t EXCEPT !.calls = Append(@, call), !.mealy = @ + 1]
      \/ scene # "mealy" /\ u = [t EXCEPT !.calls = Append(@, call), !.sub = @ + 1]
      \/ u = [t EXCEPT !.crashed = TRUE] \/ u = [t EXCEPT !.error = TRUE]
  BY DEF SV!Insert
<1>2. IrShaped(t)
  BY DEF Numbered
<1>3. call.scene = scene /\ call.num = num /\ call.var = var
  OBVIOUS
<1>. HIDE DEF u, call
<1>4. ASSUME scene = "mealy", u = [t EXCEPT !.calls = Append(@, call), !.mealy = @ + 1] PROVE Numbered(u) /\ MayHave(u, scene, num, var)
  <2>1. IrShaped(u) /\ u.calls = Append(t.calls, call) /\ u.mealy = t.mealy + 1 /\ u.sub = t.sub
    BY <1>2, <1>4 DEF IrShaped
  <2>. QED  BY <1>3, <1>4, <2>1, CallAdded
<1>5. ASSUME scene # "mealy", u = [t EXCEPT !.calls = Append(@, call), !.sub = @ + 1] PROVE Numbered(u) /\ MayHave(u, scene, num, var)
  <2>1. IrShaped(u) /\ u.calls = Append(t.calls, call) /\ u.mealy = t.mealy /\ u.sub = t.sub + 1
    BY <1>2, <1>5 DEF IrShaped
  <2>. QED  BY ZenonT(60), <1>3, <1>5, <2>1, CallAdded
<1>6. ASSUME NEW v \in {[t EXCEPT !.crashed = TRUE], [t EXCEPT !.error = TRUE]} PROVE Numbered(v) /\ MayHave(v, scene, num, var)
  <2>1. IrShaped(v) /\ v.calls = t.calls /\ v.mealy = t.mealy /\ v.sub = t.sub
    BY <1>2, <1>6 DEF IrShaped
  <2>. QED  BY <2>1, SameNumbers
<1>7. Numbered(u) /\ MayHave(u, scene, num, var)
  <2>1. u = t => Numbered(u) /\ MayHave(u, scene, num, var)
    OBVIOUS
  <2>. QED  BY <1>1, <1>4, <1>5, <1>6, <2>1
<1>. QED  BY <1>7 DEF u

LEMMA LoggedKeeps ==
  ASSUME NEW t, NEW locate, NEW tgt, NEW type, NEW scene, NEW kind, NEW num, NEW var, NEW mark, NEW logged,
         Numbered(t), MayHave(t, scene, num, var)
  PROVE  LET u == SV!Logged(t, locate, tgt, type, scene, kind, num, var, mark, logged) IN Numbered(u) /\ MayHave(u, scene, num, var)
<1> DEFINE v == SV!Insert(t, locate, tgt, type, scene, kind, num, var)
           u == SV!Logged(t, locate, tgt, type, scene, kind, num, var, mark, logged)
<1>1. Numbered(v) /\ MayHave(v, scene, num, var)
  BY InsertKeeps
<1>2. u = v \/ \E l : u = [v EXCEPT !.monitored = @ \cup {mark}, !.log = Append(@, l)]
  BY DEF SV!Logged
<1>. HIDE DEF v, u
<1>3. u = v => Numbered(u) /\ MayHave(u, scene, num, var)
  BY <1>1
<1>4. ASSUME NEW l, u = [v EXCEPT !.monitored = @ \cup {mark}, !.log = Append(@, l)] PROVE Numbered(u) /\ MayHave(u, scene, num, var)
  <2>1. IrShaped(v)
    BY <1>1 DEF Numbered
  <2>2. IrShaped(u) /\ u.calls = v.calls /\ u.mealy = v.mealy /\ u.sub = v.sub
    BY <1>4, <2>1 DEF IrShaped
  <2>. QED  BY <1>1, <2>2, SameNumbers
<1>5. Numbered(u) /\ MayHave(u, scene, num, var)
  BY <1>2, <1>3, <1>4
<1>. QED  BY <1>5 DEF u

(* What a caller of InsertFunction does with a number of the counter.      *)
LEMMA FreshKeeps ==
  ASSUME NEW t, Numbered(t), NEW locate, NEW tgt, NEW type, NEW scene \in {"mealy", "sub"}, NEW kind, NEW num, NEW var, NEW mark, NEW logged,
         num \in {SV!Number(t, scene), t.mealy}
  PROVE  Numbered(SV!Logged([t EXCEPT !.error = FALSE], locate, tgt, type, scene, kind, num, var, mark, logged))
<1> DEFINE u == [t EXCEPT !.error = FALSE]
<1>1. Numbered(u) /\ \A m, v : MayHave(t, scene, m, v) => MayHave(u, scene, m, v)
  BY NumberedFlags
<1>2. MayHave(t, scene, num, var)
  BY HasNext, MealyHasNext
<1>3. MayHave(u, scene, num, var)
  BY <1>1, <1>2
<1>. HIDE DEF u
<1>4. Numbered(SV!Logged(u, locate, tgt, type, scene, kind, num, var, mark, logged))
  BY <1>1, <1>3, LoggedKeeps
<1>. QED  BY <1>4 DEF u

LEMMA TableKeeps == ASSUME NEW t, Numbered(t), NEW o PROVE Numbered(SV!TableVariable(t, o))
<1> DEFINE x == <<o.at[1], o.at[2], SV!ArrayIdx(o.at)>>
           type == SV!At(x).type
           scene == IF o.mealy THEN "mealy" ELSE "sub"
           kind == IF SV!StateType(type) = "int" /\ o.mealy THEN "i8" ELSE SV!StateType(type)
           u == SV!Logged([t EXCEPT !.error = FALSE], x, x, type, scene, kind, t.mealy, x, x, "mealy")
<1>1. SV!TableVariable(t, o) \in {[t EXCEPT !.crashed = TRUE], t, u}
  BY DEF SV!TableVariable
<1>2. scene \in {"mealy", "sub"}
  OBVIOUS
<1>. HIDE DEF x, type, scene, kind
<1>3. Numbered(u)
  BY <1>2, FreshKeeps
<1>4. Numbered([t EXCEPT !.crashed = TRUE])
  BY NumberedFlags
<1>. HIDE DEF u
<1>. QED  BY <1>1, <1>3, <1>4

LEMMA ArgKeeps == ASSUME NEW t, Numbered(t), NEW p, NEW a PROVE Numbered(SV!ArgVariable(t, p, a))
<1> DEFINE x == <<p[1]>> \o a.val
           text == "i8*"
           scene == "mealy"
           u == SV!Logged([t EXCEPT !.error = FALSE], x, x, text, scene, text, SV!Number(t, scene), x, x, scene)
<1>1. SV!ArgVariable(t, p, a) = u
  <2>1. SV!Number(t, "mealy") = t.mealy
    BY DEF SV!Number
  <2>. QED  BY <2>1 DEF SV!ArgVariable
<1>2. scene \in {"mealy", "sub"}
  OBVIOUS
<1>. HIDE DEF x, text, scene
<1>3. Numbered(u)
  BY <1>2, FreshKeeps
<1>. QED  BY <1>1, <1>3

LEMMA MemberKeeps == ASSUME NEW t, Numbered(t), NEW p, NEW before PROVE Numbered(SV!MemberVariable(t, p, before))
<1> DEFINE x == <<p[1], p[2], -p[3]>>
           text == "i8*"
           scene == "mealy"
           u == SV!Logged([t EXCEPT !.error = FALSE], x, x, text, scene, text, SV!Number(t, scene), x, x, scene)
<1>1. SV!MemberVariable(t, p, before) \in {[t EXCEPT !.crashed = TRUE], t, u}
  <2>1. SV!Number(t, "mealy") = t.mealy
    BY DEF SV!Number
  <2>. QED  BY <2>1, Zenon DEF SV!MemberVariable
<1>2. scene \in {"mealy", "sub"}
  OBVIOUS
<1>. HIDE DEF x, text, scene
<1>3. Numbered(u)
  BY <1>2, FreshKeeps
<1>4. Numbered([t EXCEPT !.crashed = TRUE])
  BY NumberedFlags
<1>. HIDE DEF u
<1>. QED  BY <1>1, <1>3, <1>4

LEMMA HandlerKeeps == ASSUME NEW t, Numbered(t), NEW o PROVE Numbered(SV!HandlerVariable(t, o))
<1>1. \/ SV!HandlerVariable(t, o) = t
      \/ \E a : SV!HandlerVariable(t, o) = SV!ArgVariable(t, o.at, a)
      \/ \E before : SV!HandlerVariable(t, o) = SV!MemberVariable(t, o.at, before)
  <2> DEFINE args == SelectSeq(SV!At(o.at).args, LAMBDA a : a.val[1] # 0)
             strings == SelectSeq(args, LAMBDA a : a.str)
             structs == SelectSeq(args, LAMBDA a : a.struct # "" /\ a.mean \in Dictionary)
             upTo(k) == SubSeq(structs, 1, k)
             members == [k \in DOMAIN structs |-> SV!MemberVariable(t, o.at, upTo(k))]
  <2>1. \/ SV!HandlerVariable(t, o) = t
        \/ \E a : SV!HandlerVariable(t, o) = SV!ArgVariable(t, o.at, a)
        \/ \E k \in DOMAIN members : SV!HandlerVariable(t, o) = members[k]
    <3> DEFINE taken(v) == v.crashed \/ Len(v.log) > Len(t.log)
               first(k) == taken(members[k]) /\ \A j \in 1 .. k - 1 : ~taken(members[j])
               outcome == IF \E k \in DOMAIN members : first(k) THEN members[CHOOSE k \in DOMAIN members : first(k)] ELSE t
    <3>1. \/ SV!HandlerVariable(t, o) = t
          \/ \E a : SV!HandlerVariable(t, o) = SV!ArgVariable(t, o.at, a)
          \/ SV!HandlerVariable(t, o) = outcome
      BY Zenon DEF SV!HandlerVariable, SV!FirstOf
    <3>. HIDE DEF members, first
    <3>2. outcome = t \/ \E k \in DOMAIN members : outcome = members[k]
      BY Zenon
    <3>. HIDE DEF outcome
    <3>. QED  BY <3>1, <3>2
  <2>. HIDE DEF structs, upTo
  <2>2. \A k \in DOMAIN members : members[k] = SV!MemberVariable(t, o.at, upTo(k))
    OBVIOUS
  <2>. QED  BY <2>1, <2>2, Zenon
<1>2. \A a : Numbered(SV!ArgVariable(t, o.at, a))
  BY ArgKeeps
<1>3. \A before : Numbered(SV!MemberVariable(t, o.at, before))
  BY MemberKeeps
<1>. QED  BY <1>1, <1>2, <1>3

LEMMA IfKeeps == ASSUME NEW t, Numbered(t), NEW f, NEW o PROVE Numbered(SV!InstrumentIf(t, f, o))
<1> DEFINE args == SV!FlattenSeq([k \in DOMAIN SV!CondCalls(prog.functions[f], o.obj) |->
                     LET p == SV!CondCalls(prog.functions[f], o.obj)[k]
                     IN SelectSeq(SV!Inst(prog.functions[f], p[1], p[2]).args, LAMBDA a : ~a.const /\ a.sem = o.name)])
           then == <<f, o.obj.then, 1>>
           var == <<f, Head(o.obj.cond), 0>>
           scene == IF SV!IsListed(o.first, "if", info.mealy) THEN "mealy" ELSE "sub"
           one(a) == SV!Logged([t EXCEPT !.error = FALSE], then, <<f>> \o a.val, IF a.str THEN "i8*" ELSE "i32", scene, "i8*",
                               SV!Number(t, scene), var, <<f>> \o a.val, scene)
           tried == [k \in DOMAIN args |-> one(args[k])]
           taken(v) == v.crashed \/ Len(v.log) > Len(t.log)
           first(k) == taken(tried[k]) /\ \A j \in 1 .. k - 1 : ~taken(tried[j])
           outcome == IF \E k \in DOMAIN tried : first(k) THEN tried[CHOOSE k \in DOMAIN tried : first(k)] ELSE t
<1>1. SV!InstrumentIf(t, f, o) = outcome
  BY Zenon DEF SV!InstrumentIf, SV!FirstOf
<1>2. scene \in {"mealy", "sub"}
  OBVIOUS
<1>. HIDE DEF args, then, var, scene
<1>3. \A a : Numbered(one(a))
  BY <1>2, FreshKeeps
<1>. HIDE DEF one
<1>4. \A k \in DOMAIN tried : tried[k] = one(args[k])
  OBVIOUS
<1>. HIDE DEF tried, first
<1>5. outcome = t \/ \E k \in DOMAIN tried : outcome = tried[k]
  BY Zenon
<1>. HIDE DEF outcome
<1>. QED  BY <1>1, <1>3, <1>4, <1>5

LEMMA LoadKeeps == ASSUME NEW t, Numbered(t), NEW f, NEW c PROVE Numbered(SV!handleCandidateResult(t, f, c))
<1> DEFINE x == <<f, c.at[1], SV!Watched(prog.functions[f], c.at[1], c.at[2])>>
           type == SV!At(x).type
           u == SV!Logged([t EXCEPT !.error = FALSE], <<f, c.obj.then, 1>>, x, type, "sub", SV!StateType(type), SV!Number(t, "sub"),
                          <<f>> \o c.at, x, "sub")
<1>1. SV!handleCandidateResult(t, f, c) \in {t, u}
  BY Zenon DEF SV!handleCandidateResult
<1>. HIDE DEF x, type
<1>2. Numbered(u)
  BY FreshKeeps
<1>. HIDE DEF u
<1>. QED  BY <1>1, <1>2

-----------------------------------------------------------------------------
(* The pass as it goes: a switch whose first case has been given a number  *)
(* goes on with it, in the scene of the switches and in the last one.      *)
LoadAt == <<fn>> \o SV!LoadsIn(prog.functions[fn])[loop.nth].at

NumbersInv ==
  /\ Numbered(ir)
  /\ loop = [nth |-> loop.nth, label |-> loop.label, num |-> loop.num] /\ loop.label \in Nat \ {0}
  /\ step = "switches" => loop.label = 1
  /\ step = "cases" => \A k \in DOMAIN switches : switches[k].scene \in {"mealy", "sub"}
  /\ step = "cases" /\ loop.nth \in DOMAIN switches /\ loop.label > 1
     => MayHave(ir, switches[loop.nth].scene, loop.num, switches[loop.nth].at)
  /\ step = "conditions" /\ loop.label > 1 => MayHave(ir, "sub", loop.num, LoadAt)

LEMMA NumbersStart == SV!StateVarsInit => NumbersInv
<1>. SUFFICES ASSUME SV!StateVarsInit PROVE NumbersInv
  OBVIOUS
<1>1. /\ ir = [monitored |-> {}, calls |-> <<>>, log |-> <<>>, mealy |-> FirstMealy, sub |-> 0, error |-> FALSE, crashed |-> FALSE]
      /\ loop = [nth |-> 1, label |-> 1, num |-> 0] /\ step = "pointers1"
  BY DEF SV!StateVarsInit, SV!Fresh, SV!Object
<1>2. IrShaped(ir) /\ ir.calls = <<>> /\ ir.mealy = FirstMealy /\ ir.sub = 0
  BY <1>1 DEF IrShaped
<1>3. DOMAIN ir.calls = {} /\ ir.calls \in Seq({ir.calls[i] : i \in DOMAIN ir.calls})
  BY <1>2, EmptySeq
<1>4. Numbered(ir)
  BY <1>2, <1>3, AnalyzedAssumption DEF Numbered, BelowCounters, OneVariable
<1>. QED  BY <1>1, <1>4 DEF NumbersInv

(* Steps of scenes that give each variable one call.                       *)
LEMMA NumbersGoOn ==
  ASSUME NumbersInv, Numbered(ir'), NEW n, loop' = SV!Object(n), step' = "cases" => UNCHANGED switches /\ step = "cases"
  PROVE  NumbersInv'
<1>1. loop' = [nth |-> n, label |-> 1, num |-> 0]
  BY DEF SV!Object
<1>2. loop' = [nth |-> loop'.nth, label |-> loop'.label, num |-> loop'.num] /\ loop'.label = 1
  BY <1>1
<1>3. step' = "cases" => \A k \in DOMAIN switches' : switches'[k].scene \in {"mealy", "sub"}
  BY DEF NumbersInv
<1>4. Numbered(ir)'
  BY DEF Numbered, BelowCounters, OneVariable, IrShaped, SV!Number, Counts
<1>. QED  BY <1>2, <1>3, <1>4 DEF NumbersInv

LEMMA NumbersStep == NumbersInv /\ (SV!StateVarsNext \/ UNCHANGED statevars) => NumbersInv'
<1>. SUFFICES ASSUME NumbersInv, SV!StateVarsNext \/ UNCHANGED statevars PROVE NumbersInv'
  OBVIOUS
<1>0. Numbered(ir)
  BY DEF NumbersInv
<1>1. CASE SV!checkAllCallSite_Candidate_Mealy \/ SV!handleBranch_Candidate_Mealy \/ SV!CompilerAborts \/ SV!Classify \/ SV!saveStateVarInDirectScene
  <2>1. UNCHANGED <<ir, loop>> /\ step' \notin {"cases", "switches", "conditions"}
    BY <1>1 DEF SV!checkAllCallSite_Candidate_Mealy, SV!handleBranch_Candidate_Mealy, SV!CompilerAborts, SV!Classify,
                SV!saveStateVarInDirectScene, SV!NextFunction
  <2>. QED  BY SMTT(40), <2>1 DEF NumbersInv, Numbered, BelowCounters, OneVariable, IrShaped, SV!Number, Counts
<1>2. CASE SV!handleCandidateObjForFuncPointer
  <2>1. /\ loop' = SV!Object(loop.nth + 1) /\ step' # "cases"
        /\ ir' \in {SV!TableVariable(ir, saved[loop.nth]), SV!HandlerVariable(ir, saved[loop.nth])}
    BY <1>2 DEF SV!handleCandidateObjForFuncPointer
  <2>2. Numbered(SV!TableVariable(ir, saved[loop.nth])) /\ Numbered(SV!HandlerVariable(ir, saved[loop.nth]))
    BY <1>0, TableKeeps, HandlerKeeps
  <2>3. Numbered(ir')
    BY <2>1, <2>2
  <2>. QED  BY <2>1, <2>3, NumbersGoOn
<1>3. CASE SV!PointersDone \/ SV!SwitchDone \/ SV!SwitchesDone
  <2>1. /\ UNCHANGED <<ir, switches>> /\ (step' = "cases" => step = "cases")
        /\ \E n : loop' = SV!Object(n)
    BY <1>3 DEF SV!PointersDone, SV!SwitchDone, SV!SwitchesDone
  <2>2. Numbered(ir')
    BY <1>0, <2>1
  <2>. QED  BY <2>1, <2>2, NumbersGoOn
<1>4. CASE SV!handleStateVarInSwitchScene
  <2>1. /\ UNCHANGED <<ir, loop>> /\ step = "switches"
        /\ \A k \in DOMAIN switches' : switches'[k].scene \in {"mealy", "sub"}
    BY <1>4, Zenon DEF SV!handleStateVarInSwitchScene
  <2>2. loop.label = 1
    BY SMTT(40), <2>1 DEF NumbersInv
  <2>3. step' = "cases"
    BY <1>4 DEF SV!handleStateVarInSwitchScene
  <2>. QED  BY <1>0, <2>1, <2>2, <2>3 DEF NumbersInv, Numbered, BelowCounters, OneVariable, IrShaped, SV!Number, Counts
<1>5. CASE SV!InstrumentSwitch
  <2> DEFINE o == switches[loop.nth]
             on == <<o.at[1], o.at[2], SV!At(o.at).on>>
             type == SV!At(on).type
             kind == IF o.scene = "sub" THEN SV!StateType(type) ELSE type
             num == IF loop.label > 1 THEN loop.num ELSE SV!Number(ir, o.scene)
             t == IF loop.label > 1 THEN ir ELSE [ir EXCEPT !.error = FALSE]
             first == <<o.at[1], SV!At(o.at).cases[loop.label], 1>>
             u == SV!Logged(t, first, on, type, o.scene, kind, num, o.at, first, o.scene)
  <2>1. /\ step = "cases" /\ loop.nth \in DOMAIN switches /\ UNCHANGED switches /\ step' \in {"aborted", step}
        /\ loop' = [loop EXCEPT !.label = @ + 1, !.num = num]
    BY <1>5, Zenon DEF SV!InstrumentSwitch
  <2>2. ir' \in {ir, [t EXCEPT !.crashed = TRUE], u}
    BY <1>5, Zenon DEF SV!InstrumentSwitch
  <2>3. o.scene \in {"mealy", "sub"}
    BY <2>1 DEF NumbersInv
  <2>4. MayHave(ir, o.scene, num, o.at)
    <3>1. CASE loop.label > 1
      BY <2>1, <3>1 DEF NumbersInv
    <3>2. CASE ~(loop.label > 1)
      BY <1>0, <2>3, <3>2, HasNext
    <3>. QED  BY <3>1, <3>2
  <2>. HIDE DEF num
  <2>5. Numbered(t) /\ MayHave(t, o.scene, num, o.at)
    BY <1>0, <2>4, NumberedFlags
  <2>. HIDE DEF t, on, type, kind, first, o
  <2>6. Numbered(u) /\ MayHave(u, o.scene, num, o.at)
    BY <2>5, LoggedKeeps
  <2>7. Numbered([t EXCEPT !.crashed = TRUE]) /\ MayHave([t EXCEPT !.crashed = TRUE], o.scene, num, o.at)
    BY <2>5, NumberedFlags
  <2>. HIDE DEF u
  <2>8. Numbered(ir') /\ MayHave(ir', o.scene, num, o.at)
    BY <1>0, <2>2, <2>4, <2>6, <2>7
  <2>9. /\ loop' = [nth |-> loop'.nth, label |-> loop'.label, num |-> loop'.num]
        /\ loop'.label \in Nat \ {0} /\ loop'.nth = loop.nth /\ loop'.num = num
    <3>1. loop = [nth |-> loop.nth, label |-> loop.label, num |-> loop.num] /\ loop.label \in Nat \ {0}
      BY DEF NumbersInv
    <3>2. loop' = [nth |-> loop.nth, label |-> loop.label + 1, num |-> num]
      BY <2>1, <3>1
    <3>. QED  BY <3>1, <3>2
  <2>10. Numbered(ir)'
    BY <2>8 DEF Numbered, BelowCounters, OneVariable, IrShaped, SV!Number, Counts
  <2>11. MayHave(ir, switches[loop.nth].scene, loop.num, switches[loop.nth].at)'
    BY <2>1, <2>8, <2>9 DEF o, MayHave, SV!Number, Counts
  <2>12. step' = "cases" => \A k \in DOMAIN switches' : switches'[k].scene \in {"mealy", "sub"}
    BY <2>1 DEF NumbersInv
  <2>. QED  BY <2>1, <2>9, <2>10, <2>11, <2>12 DEF NumbersInv
<1>6. CASE SV!handleStateVarInIfScene
  <2>1. /\ step' # "cases" /\ \E n : loop' = SV!Object(n)
        /\ UNCHANGED ir \/ \E o : ir' = SV!InstrumentIf(ir, fn, o)
    <3>1. step = "ifs" /\ SV!NextIf(SV!IfsOf(fn))
      BY <1>6, Zenon DEF SV!handleStateVarInIfScene
    <3>. QED  BY <3>1, Zenon DEF SV!NextIf, SV!NextFunction
  <2>2. Numbered(ir')
    BY <1>0, <2>1, IfKeeps
  <2>. QED  BY <2>1, <2>2, NumbersGoOn
<1>7. CASE SV!iterateAllSwAndIfCondition
  <2>1. step = "conditions" /\ UNCHANGED prog /\ SV!NextLoad(SV!LoadsOf(fn))
    BY <1>7, Zenon DEF SV!iterateAllSwAndIfCondition
  <2>2. CASE \E c : ir' = SV!handleCandidateResult(ir, fn, c) /\ UNCHANGED step /\ \E n : loop' = SV!Object(n)
    <3>1. Numbered(ir')
      BY <1>0, <2>2, LoadKeeps
    <3>. QED  BY <2>1, <2>2, <3>1, NumbersGoOn
  <2>3. CASE UNCHANGED ir /\ step' # "cases" /\ \E n : loop' = SV!Object(n)
    BY <1>0, <2>3, NumbersGoOn
  <2>4. CASE /\ loop.nth \in DOMAIN SV!LoadsOf(fn) /\ UNCHANGED <<step, fn>>
             /\ SV!InstrumentCase(fn, SV!LoadsOf(fn)[loop.nth])
    <3> DEFINE c == SV!LoadsOf(fn)[loop.nth]
               on == SV!SwitchedOn(fn, c)
               num == IF loop.label > 1 THEN loop.num ELSE SV!Number(ir, "sub")
               t == IF loop.label > 1 THEN ir ELSE [ir EXCEPT !.error = FALSE]
               first == <<fn, SV!CasesOf(fn, c)[loop.label], 1>>
               u == SV!Logged(t, first, on, SV!At(on).type, "sub", SV!StateType(SV!At(on).type), num, <<fn>> \o c.at, first, "sub")
    <3>1. ir' = u /\ loop' = [loop EXCEPT !.label = @ + 1, !.num = num]
      BY <2>4, Zenon DEF SV!InstrumentCase
    <3>2. <<fn>> \o c.at = LoadAt
      <4>1. SV!LoadsOf(fn) = SV!LoadsIn(prog.functions[fn])
        <5>1. SV!LoadsOf(fn) # <<>>
          BY <2>4
        <5>. QED  BY <5>1, Zenon DEF SV!LoadsOf
      <4>. QED  BY <4>1 DEF LoadAt
    <3>3. MayHave(ir, "sub", num, LoadAt)
      <4>1. CASE loop.label > 1
        BY <2>1, <4>1 DEF NumbersInv
      <4>2. CASE ~(loop.label > 1)
        BY <1>0, <4>2, HasNext
      <4>. QED  BY <4>1, <4>2
    <3>. HIDE DEF num
    <3>4. Numbered(t) /\ MayHave(t, "sub", num, LoadAt)
      BY <1>0, <3>3, NumberedFlags
    <3>. HIDE DEF t, on, first, c
    <3>5. Numbered(u) /\ MayHave(u, "sub", num, LoadAt)
      BY <3>2, <3>4, LoggedKeeps
    <3>. HIDE DEF u
    <3>6. /\ loop' = [nth |-> loop'.nth, label |-> loop'.label, num |-> loop'.num]
          /\ loop'.label \in Nat \ {0} /\ loop'.nth = loop.nth /\ loop'.num = num
      <4>1. loop = [nth |-> loop.nth, label |-> loop.label, num |-> loop.num] /\ loop.label \in Nat \ {0}
        BY DEF NumbersInv
      <4>2. loop' = [nth |-> loop.nth, label |-> loop.label + 1, num |-> num]
        BY <3>1, <4>1
      <4>. QED  BY <4>1, <4>2
    <3>7. Numbered(ir)'
      BY <3>1, <3>5 DEF Numbered, BelowCounters, OneVariable, IrShaped, SV!Number, Counts
    <3>8. LoadAt' = LoadAt
      BY <2>1, <2>4, <3>6 DEF LoadAt
    <3>9. MayHave(ir, "sub", loop.num, LoadAt)'
      BY <3>1, <3>5, <3>6, <3>8 DEF MayHave, SV!Number, Counts
    <3>10. step' = "conditions"
      BY <2>1, <2>4
    <3>. QED  BY <3>6, <3>7, <3>9, <3>10 DEF NumbersInv
  <2>. QED  BY <2>1, <2>2, <2>3, <2>4, Zenon DEF SV!NextLoad, SV!NextFunction
<1>8. CASE UNCHANGED statevars
  <2>1. UNCHANGED <<ir, loop, step, switches>>
    BY <1>8 DEF statevars
  <2>2. LoadAt' = LoadAt
    BY <1>8 DEF statevars, LoadAt
  <2>. QED  BY <2>1, <2>2 DEF NumbersInv, Numbered, BelowCounters, OneVariable, IrShaped, SV!Number, Counts, MayHave
<1>. QED  BY <1>1, <1>2, <1>3, <1>4, <1>5, <1>6, <1>7, <1>8 DEF SV!StateVarsNext

LEMMA NumbersImply == NumbersInv => SV!NumbersAreDistinct
<1>. SUFFICES ASSUME NumbersInv PROVE SV!NumbersAreDistinct
  OBVIOUS
<1>1. SV!ToSet(ir.calls) = {ir.calls[i] : i \in DOMAIN ir.calls}
  BY DEF SV!ToSet
<1>2. ir.mealy >= FirstMealy /\ ir.sub >= 0 /\ OneVariable(ir)
  BY DEF NumbersInv, Numbered
<1>. QED  BY <1>1, <1>2 DEF SV!NumbersAreDistinct, OneVariable, Counts

-----------------------------------------------------------------------------
(* No more than USE_AUTO_EXTRAS files of tokens, whatever is killed.       *)
LEMMA FilesFew ==
  ASSUME DictInv, DictNext, Len(dfiles) <= UseAuto PROVE Len(dfiles') <= UseAuto
<1>0. Len(dfiles) \in Nat /\ UseAuto \in Nat /\ dfiles \in Seq(FileTokens) /\ Len(<<>>) = 0
  BY DictAssumption, LenProperties, EmptySeq DEF DictInv, DictTypes
<1>1. \/ UNCHANGED dfiles \/ dfiles' = <<>>
      \/ dphase = "save" /\ dnext \in Used /\ \E t \in {a_extras[dnext].data, <<>>} : dfiles' = WrittenTo(dfiles, dnext, t)
  BY DEF DictNext, StartSession, LoadAuto, Pivoted, WithoutDict, WithDict, BeginSave, SaveFile, EndSave, KillSession, FindToken, sessionVars
<1>2. ASSUME dphase = "save", dnext \in Used, NEW t \in {a_extras[dnext].data, <<>>}, dfiles' = WrittenTo(dfiles, dnext, t)
      PROVE  Len(dfiles') <= UseAuto
  <2>1. /\ Least(UseAuto, Len(a_extras)) \in Nat /\ Least(UseAuto, Len(a_extras)) <= UseAuto /\ Len(a_extras) \in Nat
        /\ dnext \in 1 .. Least(UseAuto, Len(a_extras)) /\ dnext - 1 <= Len(dfiles)
        /\ \A i \in 1 .. Len(a_extras) : a_extras[i] \in AutoTokens
    <3>1. a_extras \in Seq(AutoTokens) /\ dnext - 1 <= Len(dfiles) /\ dnext \in 1 .. Least(UseAuto, Len(a_extras))
      BY <1>2 DEF DictInv, DictTypes, FilesInv, Used
    <3>2. Least(UseAuto, Len(a_extras)) \in Nat /\ Len(a_extras) \in Nat /\ \A i \in 1 .. Len(a_extras) : a_extras[i] \in AutoTokens
      BY <3>1, UsedIs
    <3>3. Least(UseAuto, Len(a_extras)) <= UseAuto
      BY <1>0, <3>2 DEF Least
    <3>. QED  BY <3>1, <3>2, <3>3
  <2>2. dnext \in Nat \ {0} /\ dnext <= UseAuto /\ dnext \in 1 .. Len(a_extras)
    BY <1>0, <2>1 DEF Least
  <2>3. t \in FileTokens
    BY <2>1, <2>2 DEF AutoTokens, FileTokens
  <2>4. Len(dfiles') \in {Len(dfiles), dnext}
    BY <1>0, <1>2, <2>1, <2>2, <2>3, WrittenFile
  <2>. QED  BY <2>2, <2>4
<1>. QED  BY <1>0, <1>1, <1>2

-----------------------------------------------------------------------------
(* The parts together.                                                     *)
TypesInv ==
  /\ part = "dictionary" => Len(dfiles) <= UseAuto
  /\ part = "start" => SettingsInv
  /\ part = "compile" => BuildInv
  /\ part = "statevars" => PassInv /\ NumbersInv

LEMMA TypesStart == PartsInit => TypesInv
<1>. SUFFICES ASSUME PartsInit PROVE TypesInv
  OBVIOUS
<1>1. (part = "start" => SettingsInv) /\ (part = "compile" => BuildInv)
  BY SettingsStart, BuildStart DEF PartsInit
<1>2. part = "statevars" => PassInv /\ NumbersInv
  BY PassStart, NumbersStart DEF PartsInit
<1>3. part = "dictionary" => Len(dfiles) <= UseAuto
  <2>1. part = "dictionary" => dfiles = <<>>
    BY DEF PartsInit, DictInit
  <2>2. Len(<<>>) = 0 /\ UseAuto \in Nat
    BY DictAssumption, EmptySeq
  <2>. QED  BY <2>1, <2>2
<1>. QED  BY <1>1, <1>2, <1>3 DEF TypesInv

LEMMA TypesStep == TypesInv /\ PartsInv /\ ToolsInv /\ [PartsNext]_allVars => TypesInv'
<1>. SUFFICES ASSUME TypesInv, PartsInv, ToolsInv, [PartsNext]_allVars PROVE TypesInv'
  OBVIOUS
<1>1. /\ part' = part
      /\ UNCHANGED start \/ (part = "start" /\ St!StartNext)
      /\ UNCHANGED compile \/ (part = "compile" /\ Co!CompileNext)
  BY OneTool
<1>2. UNCHANGED statevars \/ (part = "statevars" /\ SV!StateVarsNext)
  <2>1. CASE UNCHANGED allVars
    BY <2>1 DEF allVars
  <2>2. CASE PartsNext
    BY <2>2 DEF PartsNext, RunDictionary, RunTriage, RunSession, RunTmin, RunAnalyze, RunCmin, RunCommandLine,
                RunCallGraph, RunStateVars, RunCompile
  <2>. QED  BY <2>1, <2>2
<1>3. part = "start" => SettingsInv'
  BY <1>1, SettingsStep DEF TypesInv
<1>4. part = "compile" => BuildInv'
  BY <1>1, BuildStep DEF TypesInv, ToolsInv
<1>5. part = "statevars" => PassInv' /\ NumbersInv'
  BY <1>2, PassStep, NumbersStep DEF TypesInv
<1>6. part = "dictionary" => Len(dfiles') <= UseAuto
  <2>1. UNCHANGED dict \/ (part = "dictionary" /\ DictNext)
    BY OnePart
  <2>2. UNCHANGED dict => UNCHANGED dfiles
    BY DEF dict, autoDictVars, sessionVars
  <2>. QED  BY <2>1, <2>2, FilesFew DEF TypesInv, PartsInv
<1>. QED  BY <1>1, <1>3, <1>4, <1>5, <1>6 DEF TypesInv

LEMMA TypesHold == PartsSpec => []TypesInv
BY TypesStart, TypesStep, PartsHold, ToolsHold, PTL DEF PartsSpec

(* The variables of every part keep their types, for any of its inputs: no *)
(* option of a command line leaves a memory limit between 1 and 4 MB, the  *)
(* candidates marked as state variables are ones the first run found, no   *)
(* assembly is read at a ratio above 100 and no line gets more than two    *)
(* trampolines.                                                            *)
THEOREM PartsTypeCorrect == PartsSpec => []PartsTypeOK
<1>1. PartsInv /\ TypesInv =>
        /\ part = "dictionary" => DictTypeOK
        /\ part = "triage" => Tr!TriageTypeOK
        /\ part = "session" => Se!SessionTypeOK
  <2>1. ASSUME DictInv, Len(dfiles) <= UseAuto PROVE DictTypeOK
    <3>1. \A i \in DOMAIN a_extras : a_extras[i] \in AutoTokens
      BY <2>1, UsedIs DEF DictInv, DictTypes
    <3>. QED  BY <2>1, <3>1 DEF DictInv, DictTypes, DictTypeOK, AutoTokens
  <2>2. TriageInv => Tr!TriageTypeOK
    BY DEF TriageInv
  <2>3. SessionInv => Se!SessionTypeOK
    BY DEF SessionInv, SessionTypes, Se!SessionTypeOK
  <2>. QED  BY <2>1, <2>2, <2>3 DEF PartsInv, TypesInv
<1>2. ToolsInv => /\ part = "tmin" => Tm!TminTypeOK
                  /\ part = "analyze" => An!AnalyzeTypeOK
                  /\ part = "cmin" => Cm!CminTypeOK
  BY TminImplies, AnalyzeImplies, CminImplies DEF ToolsInv
<1>3. TypesInv => /\ part = "start" => St!StartTypeOK
                  /\ part = "statevars" => SV!StateVarsTypeOK
                  /\ part = "compile" => Co!CompileTypeOK
  BY SettingsImply, PassImplies, BuildImplies DEF TypesInv
<1>4. PartsInv /\ ToolsInv /\ TypesInv => PartsTypeOK
  BY <1>1, <1>2, <1>3 DEF PartsTypeOK
<1>. QED  BY <1>4, PartsHold, ToolsHold, TypesHold, PTL

(* For any program and whatever is marked in it: no number of a Mealy      *)
(* variable stands for two of them, nor does one of a sub-state variable   *)
(* below FirstMealy; a switch whose cases report one variable keeps the    *)
(* number of the first, wherever the counter has gone since.               *)
THEOREM NumberingSoundHolds == PartsSpec => []NumberingSound
<1>1. TypesInv => NumberingSound
  BY NumbersImply DEF TypesInv, NumberingSound
<1>. QED  BY <1>1, TypesHold, PTL
=============================================================================
