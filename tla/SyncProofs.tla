----------------------------- MODULE SyncProofs -----------------------------
(***************************************************************************)
(* What is proved of the instances that share a sync directory, for any    *)
(* number of instances, cases and kills.                                   *)
(***************************************************************************)
EXTENDS Sync, TLAPS, FiniteSetTheorems, FunctionTheorems

(* A scan is of another directory, and begins where the mark is.           *)
ScanOK(f) ==
  /\ scan[f].dir = None => scan[f] = NoScan
  /\ scan[f].dir \in Fuzzers =>
       scan[f].dir # f /\ scan[f].min = synced[f][scan[f].dir] /\ scan[f].next <= MaxCase + 1
  /\ phase[f] \in {"scan", "open"} => scan[f].dir \in Fuzzers
  /\ phase[f] \in {"fuzz", "down", "moved"} => scan[f] = NoScan
  /\ synced[f][f] = 0

(* The case that is being saved is the one that is known and not yet in    *)
(* the directory.                                                          *)
SavingOK(f) ==
  /\ phase[f] = "write" => saving[f] \in Cases \ CasesOf(f) /\ queued[f] > 0
  /\ phase[f] # "write" => saving[f] = None
  /\ Up(f) => known[f] = CasesOf(f) \cup (IF phase[f] = "write" THEN {saving[f]} ELSE {})

(* The files that have their contents: all, or all but the newest.         *)
Complete(f) == IF phase[f] = "write" THEN queued[f] - 1 ELSE queued[f]
NotYet(f) == {i \in Ids : i >= Complete(f)}
FilesOK(f) ==
  Up(f) =>
    /\ \A i \in Ids : i < Complete(f) => file[f][i].case \in Cases
    /\ \A i \in Ids : i >= Complete(f) => file[f][i] = IF i < queued[f] THEN Empty ELSE Absent

NoTwice(f) == \A i, j \in Ids : file[f][i].case = file[f][j].case /\ file[f][i].case \in Cases => i = j

(* A mark that a directory has not reached yet, because it was made anew   *)
(* behind it, or a file that was passed over: those numbers are excused.   *)
Ahead(f, g) ==
  Up(g) => /\ \A i \in NotYet(g) : i < synced[f][g] => <<g, i>> \in excused[f]
           /\ scan[f].dir = g => scan[f].done \cap NotYet(g) = {}

(* What a scan has run is known, and so is what is below the mark.         *)
RunIsKnown(f, g) ==
  scan[f].dir = g =>
    \A i \in Ids : i \in scan[f].done /\ file[g][i].case \in Cases => file[g][i].case \in known[f]
Marks(f, g) ==
  \A i \in Ids : i < synced[f][g] /\ <<g, i>> \notin excused[f] /\ file[g][i].case \in Cases =>
    file[g][i].case \in CasesOf(f)

Alone(f) == ScanOK(f) /\ SavingOK(f) /\ FilesOK(f) /\ NoTwice(f)
Pair(f, g) == Ahead(f, g) /\ RunIsKnown(f, g) /\ Marks(f, g)

IInv ==
  /\ TypeOK
  /\ \A f \in Fuzzers : Alone(f)
  /\ \A f, g \in Fuzzers : Pair(f, g)
-----------------------------------------------------------------------------
LEMMA TheSets ==
  /\ Cases = Ids /\ Ids \subseteq Nat /\ \A i \in Nat : i \in Ids <=> i <= MaxCase
  /\ MaxCase \in Nat /\ None \notin Cases /\ None \notin Fuzzers /\ Seed \in Cases
  /\ Absent \in File /\ Empty \in File /\ Absent # Empty
  /\ Absent.case = None /\ Empty.case = None /\ NoScan.dir = None
  /\ \A c \in Cases : Holding(c) \in File /\ Holding(c).case = c
  BY SyncAssumption DEF Cases, Ids, Seed, Absent, Empty, File, Holding, NoScan

LEMMA LastOf ==
  ASSUME NEW q \in 1..MaxCase + 1
  PROVE  /\ q - 1 \in Ids /\ q - 1 < q /\ q - 1 >= q - 1
         /\ \A i \in Ids : /\ i < q <=> i < q - 1 \/ i = q - 1
                           /\ i >= q <=> i >= q - 1 /\ i # q - 1
                           /\ i >= q => ~(i < q)
  BY SyncAssumption DEF Ids

LEMMA ScanStarted ==
  ASSUME NEW g \in Fuzzers, NEW m \in Nat, NEW l \in SUBSET Ids
  PROVE  /\ [NoScan EXCEPT !.dir = g, !.min = m, !.next = m, !.listed = l] \in Scan
         /\ NoScan \in Scan
  BY TheSets DEF NoScan, Scan, Seed

(* What an action of another instance does not disturb.                    *)
LEMMA AloneKept ==
  ASSUME NEW f \in Fuzzers, Alone(f),
         phase'[f] = phase[f], known'[f] = known[f], queued'[f] = queued[f], saving'[f] = saving[f],
         file'[f] = file[f], synced'[f] = synced[f], scan'[f] = scan[f]
  PROVE  Alone(f)'
<1>1. CasesOf(f)' = CasesOf(f)
  BY DEF CasesOf
<1>. QED
  BY <1>1 DEF Alone, ScanOK, SavingOK, FilesOK, NoTwice, Complete, Up

(* A directory may lose cases, and gain those that are ahead of the marks. *)
LEMMA PairKept ==
  ASSUME NEW f \in Fuzzers, NEW g \in Fuzzers, Pair(f, g),
         Up(g)' => Up(g) /\ NotYet(g)' \subseteq NotYet(g),
         \A i \in Ids : file'[g][i].case \in Cases =>
           file'[g][i].case = file[g][i].case \/ (Up(g) /\ i \in NotYet(g)),
         synced'[f][g] = synced[f][g], excused[f] \subseteq excused'[f],
         CasesOf(f) \subseteq CasesOf(f)',
         scan'[f].dir = g =>
           scan[f].dir = g /\ scan'[f].done \subseteq scan[f].done /\ known[f] \subseteq known'[f]
  PROVE  Pair(f, g)'
<1> USE DEF Pair
<1>1. Ahead(f, g)'
  BY DEF Ahead
<1>2. RunIsKnown(f, g)'
  BY DEF Ahead, RunIsKnown
<1>3. Marks(f, g)'
  <2> SUFFICES ASSUME NEW i \in Ids, i < synced'[f][g], <<g, i>> \notin excused'[f], file'[g][i].case \in Cases
               PROVE  file'[g][i].case \in CasesOf(f)'
    BY DEF Marks
  <2>. QED  BY DEF Ahead, Marks
<1>. QED  BY <1>1, <1>2, <1>3

LEMMA InitOK == Init => IInv
<1> SUFFICES ASSUME Init PROVE IInv
  OBVIOUS
<1> USE TheSets DEF Init
<1>1. SeedQueue \in [Ids -> File] /\ NoScan \in Scan
  BY DEF SeedQueue, NoScan, Scan
<1>2. TypeOK
  BY <1>1, SyncAssumption DEF TypeOK, Phases
<1>3. ASSUME NEW f \in Fuzzers PROVE Alone(f)
  <2>1. \A i \in Ids : file[f][i] = IF i = 0 THEN Holding(Seed) ELSE Absent
    BY DEF SeedQueue
  <2>2. CasesOf(f) = {Seed} /\ 0 \in Ids
    BY <2>1 DEF CasesOf, Seed
  <2>3. ScanOK(f) /\ SavingOK(f)
    BY <2>2 DEF ScanOK, SavingOK
  <2>4. FilesOK(f)
    <3>1. Complete(f) = 1 /\ queued[f] = 1
      BY DEF Complete
    <3>2. \A i \in Ids : (i < 1 <=> i = 0) /\ (i >= 1 <=> i # 0)
      OBVIOUS
    <3>. QED  BY <2>1, <3>1, <3>2 DEF FilesOK
  <2>5. NoTwice(f)
    BY <2>1 DEF NoTwice
  <2>. QED  BY <2>3, <2>4, <2>5 DEF Alone
<1>4. ASSUME NEW f \in Fuzzers, NEW g \in Fuzzers PROVE Pair(f, g)
  BY DEF Pair, Ahead, RunIsKnown, Marks, Complete, NotYet
<1>. QED  BY <1>2, <1>3, <1>4 DEF IInv

-----------------------------------------------------------------------------
(* So many files with different cases leave no case out.                   *)
LEMMA NoRoom ==
  ASSUME NEW f \in Fuzzers, NEW c \in Cases, \A i \in Ids : file[f][i].case \in Cases \ {c}
  PROVE  \E i, j \in Ids : i # j /\ file[f][i].case = file[f][j].case
<1> DEFINE CaseOf == [i \in Ids |-> file[f][i].case]
<1>1. MaxCase \in Int /\ 0 <= MaxCase
  BY SyncAssumption
<1>2. IsFiniteSet(0..MaxCase) /\ Cardinality(0..MaxCase) = MaxCase + 1
  BY <1>1, FS_Interval
<1>3. IsFiniteSet(Cases \ {c}) /\ Cardinality(Cases \ {c}) = MaxCase
  <2>1. IsFiniteSet(Cases \ {c}) /\ Cardinality(Cases \ {c}) = Cardinality(Cases) - 1
    BY <1>2, FS_RemoveElement DEF Cases
  <2>. QED  BY <1>1, <1>2, <2>1 DEF Cases
<1>4. IsFiniteSet(Ids) /\ Cardinality(Cases \ {c}) < Cardinality(Ids)
  BY <1>1, <1>2, <1>3 DEF Ids
<1>5. CaseOf \in [Ids -> Cases \ {c}]
  OBVIOUS
<1>6. \E i, j \in Ids : i # j /\ CaseOf[i] = CaseOf[j]
  <2> HIDE DEF CaseOf
  <2>. QED  BY <1>3, <1>4, <1>5, FS_PigeonHole
<1>. QED  BY <1>6

(* Saving: there is a name left for a case that is not known.              *)
LEMMA RoomLeft ==
  ASSUME IInv, NEW f \in Fuzzers, Up(f), phase[f] # "write", NEW c \in Cases \ known[f]
  PROVE  queued[f] \in Ids
<1> USE TheSets
<1>1. queued[f] \in 0..MaxCase + 1
  BY DEF IInv, TypeOK
<1>2. SUFFICES ASSUME queued[f] = MaxCase + 1 PROVE FALSE
  BY <1>1
<1>3. Alone(f) /\ Complete(f) = MaxCase + 1
  BY <1>2 DEF IInv, Complete
<1>4. \A i \in Ids : file[f][i].case \in Cases \ {c}
  <2>1. known[f] = CasesOf(f)
    BY <1>3 DEF Alone, SavingOK
  <2>2. \A i \in Ids : file[f][i].case \in Cases
    BY <1>3 DEF Alone, FilesOK
  <2>. QED  BY <2>1, <2>2 DEF CasesOf
<1>. QED  BY <1>3, <1>4, NoRoom DEF Alone, NoTwice

LEMMA CreateOK ==
  ASSUME IInv, NEW f \in Fuzzers, phase[f] \in {"fuzz", "open"}, NEW c \in Cases \ known[f], Create(f, c)
  PROVE  /\ queued[f] \in Ids /\ known'[f] = known[f] \cup {c} /\ phase'[f] = "write"
         /\ CasesOf(f)' = CasesOf(f) /\ NotYet(f)' = NotYet(f)
         /\ \A i \in Ids : file'[f][i].case = file[f][i].case
         /\ SavingOK(f)' /\ FilesOK(f)' /\ NoTwice(f)'
         /\ \A g \in Fuzzers \ {f} : /\ phase'[g] = phase[g] /\ known'[g] = known[g] /\ queued'[g] = queued[g]
                                     /\ saving'[g] = saving[g] /\ file'[g] = file[g]
<1> USE TheSets DEF Create, Learned, Goto
<1>1. Alone(f) /\ queued[f] \in Ids /\ Up(f)
  BY RoomLeft DEF IInv, Up
<1>2. /\ phase'[f] = "write" /\ known'[f] = known[f] \cup {c} /\ saving'[f] = c /\ queued'[f] = queued[f] + 1
      /\ \A i \in Ids : file'[f][i] = IF i = queued[f] THEN Empty ELSE file[f][i]
  BY <1>1 DEF IInv, TypeOK
<1>3. \A g \in Fuzzers \ {f} : /\ phase'[g] = phase[g] /\ known'[g] = known[g] /\ queued'[g] = queued[g]
                               /\ saving'[g] = saving[g] /\ file'[g] = file[g]
  BY DEF IInv, TypeOK
<1>4. Complete(f) = queued[f] /\ Complete(f)' = queued[f]
  BY <1>1, <1>2 DEF Complete
<1>5. NotYet(f)' = NotYet(f)
  BY <1>4 DEF NotYet
<1>6. \A i \in Ids : file'[f][i].case = file[f][i].case
  BY <1>1, <1>2, <1>4 DEF Alone, FilesOK
<1>7. CasesOf(f)' = CasesOf(f)
  BY <1>6 DEF CasesOf
<1>8. SavingOK(f)'
  BY <1>1, <1>2, <1>7 DEF SavingOK, Alone, Up
<1>9. FilesOK(f)'
  BY <1>1, <1>2, <1>4, <1>6 DEF FilesOK, Alone, Up
<1>10. NoTwice(f)'
  BY <1>1, <1>6 DEF NoTwice, Alone
<1>. QED  BY <1>1, <1>2, <1>3, <1>5, <1>6, <1>7, <1>8, <1>9, <1>10

LEMMA CreateKeeps ==
  ASSUME IInv, NEW f \in Fuzzers, phase[f] \in {"fuzz", "open"}, NEW c \in Cases \ known[f], Create(f, c),
         NEW h \in Fuzzers, NEW g \in Fuzzers,
         synced' = synced, excused' = excused,
         scan'[h].dir = g => scan[h].dir = g /\ scan'[h].done \subseteq scan[h].done
  PROVE  Pair(h, g)'
<1>1. Pair(h, g)
  BY DEF IInv
<1>2. Up(g)' => Up(g) /\ NotYet(g)' \subseteq NotYet(g)
  <2>1. CASE g = f
    BY <2>1, CreateOK DEF Up
  <2>2. CASE g # f
    BY <2>2, CreateOK DEF Up, NotYet, Complete
  <2>. QED  BY <2>1, <2>2
<1>3. \A i \in Ids : file'[g][i].case = file[g][i].case
  BY CreateOK
<1>4. CasesOf(h)' = CasesOf(h)
  <2>1. CASE h = f
    BY <2>1, CreateOK
  <2>2. CASE h # f
    BY <2>2, CreateOK DEF CasesOf
  <2>. QED  BY <2>1, <2>2
<1>5. known[h] \subseteq known'[h]
  BY CreateOK
<1>. QED  BY <1>1, <1>2, <1>3, <1>4, <1>5, PairKept

LEMMA FindOK == ASSUME IInv, NEW f \in Fuzzers, NEW c \in Cases, Find(f, c) PROVE IInv'
<1> USE TheSets
<1>1. /\ phase[f] = "fuzz" /\ c \in Cases \ known[f] /\ Create(f, c)
      /\ UNCHANGED <<scan, synced, kills, excused>>
  BY DEF Find, Ready
<1>2. TypeOK'
  <2>1. queued[f] + 1 \in 0..MaxCase + 1
    BY <1>1, CreateOK DEF IInv, TypeOK
  <2>. QED  BY <1>1, <2>1, CreateOK DEF Create, Goto, Learned, IInv, TypeOK, Phases
<1>3. ASSUME NEW g \in Fuzzers PROVE Alone(g)'
  <2>1. CASE g = f
    <3>1. Alone(f)
      BY DEF IInv
    <3>2. ScanOK(f)'
      BY <1>1, <3>1, CreateOK DEF ScanOK, Alone
    <3>. QED  BY <1>1, <2>1, <3>2, CreateOK DEF Alone
  <2>2. CASE g # f
    <3>1. Alone(g)
      BY DEF IInv
    <3>. QED  BY <1>1, <2>2, <3>1, CreateOK, AloneKept
  <2>. QED  BY <2>1, <2>2
<1>4. ASSUME NEW h \in Fuzzers, NEW g \in Fuzzers PROVE Pair(h, g)'
  BY <1>1, CreateOK, CreateKeeps
<1>. QED  BY <1>2, <1>3, <1>4 DEF IInv

LEMMA WriteOK == ASSUME IInv, NEW f \in Fuzzers, Write(f) PROVE IInv'
<1> USE TheSets
<1>1. /\ phase[f] = "write" /\ phase'[f] = IF scan[f] = NoScan THEN "fuzz" ELSE "scan"
      /\ saving[f] \in Cases \ CasesOf(f) /\ saving'[f] = None
      /\ queued[f] \in 1..MaxCase + 1 /\ queued[f] - 1 \in Ids
      /\ UNCHANGED <<known, queued, scan, synced, kills, excused>>
  BY DEF Write, Ready, Goto, IInv, TypeOK, Alone, SavingOK
<1>2. \A i \in Ids : file'[f][i] = IF i = queued[f] - 1 THEN Holding(saving[f]) ELSE file[f][i]
  BY <1>1 DEF Write, IInv, TypeOK
<1>3. \A g \in Fuzzers \ {f} : phase'[g] = phase[g] /\ saving'[g] = saving[g] /\ file'[g] = file[g]
  BY DEF Write, Goto, IInv, TypeOK
<1>4. Complete(f) = queued[f] - 1 /\ Complete(f)' = queued[f] /\ Up(f) /\ Up(f)'
  BY <1>1 DEF Complete, Up
<1>5. TypeOK'
  BY <1>1, <1>2 DEF Write, Goto, IInv, TypeOK, Phases
<1>6. Alone(f)
  BY DEF IInv
<1>7. queued[f] - 1 \in NotYet(f) /\ NotYet(f)' \subseteq NotYet(f) /\ file[f][queued[f] - 1] = Empty
  <2>1. file[f][queued[f] - 1] = Empty
    BY <1>1, <1>4, <1>6, LastOf DEF Alone, FilesOK
  <2>2. NotYet(f) = {i \in Ids : i >= queued[f] - 1} /\ NotYet(f)' = {i \in Ids : i >= queued[f]}
    BY <1>1, <1>4 DEF NotYet
  <2>. QED  BY <1>1, <2>1, <2>2, LastOf
<1>8. CasesOf(f)' = CasesOf(f) \cup {saving[f]}
  <2>1. file[f][queued[f] - 1].case \notin Cases /\ file'[f][queued[f] - 1].case = saving[f]
    BY <1>1, <1>2, <1>7
  <2>2. \A i \in Ids : i # queued[f] - 1 => file'[f][i] = file[f][i]
    BY <1>2
  <2>. QED  BY <1>1, <2>1, <2>2 DEF CasesOf
<1>9. Alone(f)'
  <2>1. ScanOK(f)'
    BY <1>1, <1>6 DEF Alone, ScanOK, IInv, TypeOK, Scan
  <2>2. SavingOK(f)'
    BY <1>1, <1>4, <1>6, <1>8 DEF Alone, SavingOK, Up
  <2>3. FilesOK(f)'
    <3>1. \A i \in Ids : /\ i < queued[f] <=> i < queued[f] - 1 \/ i = queued[f] - 1
                         /\ i >= queued[f] <=> i >= queued[f] - 1 /\ i # queued[f] - 1
                         /\ i >= queued[f] => ~(i < queued[f])
      BY <1>1, LastOf
    <3>0. FilesOK(f)
      BY <1>6 DEF Alone
    <3>2. /\ \A i \in Ids : i < queued[f] - 1 => file[f][i].case \in Cases
          /\ \A i \in Ids : i >= queued[f] => file[f][i] = Absent
      BY <1>4, <3>0, <3>1 DEF FilesOK
    <3>3. /\ \A i \in Ids : i < queued[f] => file'[f][i].case \in Cases
          /\ \A i \in Ids : i >= queued[f] => file'[f][i] = Absent
      BY <1>1, <1>2, <3>1, <3>2
    <3>. QED  BY <1>1, <1>4, <3>1, <3>3 DEF FilesOK
  <2>4. NoTwice(f)'
    <3>1. \A i \in Ids : file[f][i].case # saving[f]
      BY <1>1 DEF CasesOf
    <3>2. \A i \in Ids : file'[f][i].case = IF i = queued[f] - 1 THEN saving[f] ELSE file[f][i].case
      BY <1>1, <1>2
    <3>3. NoTwice(f)
      BY <1>6 DEF Alone
    <3>. QED  BY <3>1, <3>2, <3>3 DEF NoTwice
  <2>. QED  BY <2>1, <2>2, <2>3, <2>4 DEF Alone
<1>10. ASSUME NEW g \in Fuzzers \ {f} PROVE Alone(g)'
  BY <1>1, <1>3, AloneKept DEF IInv
<1>11. ASSUME NEW h \in Fuzzers, NEW g \in Fuzzers PROVE Pair(h, g)'
  <2>1. Up(g)' => Up(g) /\ NotYet(g)' \subseteq NotYet(g)
    BY <1>1, <1>3, <1>4, <1>7 DEF Up, NotYet, Complete
  <2>2. \A i \in Ids : file'[g][i].case \in Cases =>
          file'[g][i].case = file[g][i].case \/ (Up(g) /\ i \in NotYet(g))
    BY <1>2, <1>3, <1>4, <1>7
  <2>3. CasesOf(h) \subseteq CasesOf(h)'
    <3>1. CASE h = f
      BY <1>8, <3>1
    <3>2. CASE h # f
      BY <1>3, <3>2 DEF CasesOf
    <3>. QED  BY <3>1, <3>2
  <2>. QED  BY <1>1, <2>1, <2>2, <2>3, PairKept DEF IInv
<1>. QED  BY <1>5, <1>9, <1>10, <1>11 DEF IInv

-----------------------------------------------------------------------------
(* The steps of a scan but for the saving.                                 *)
LEMMA ScanningKeeps ==
  ASSUME IInv, NEW f \in Fuzzers, NEW p \in {"fuzz", "scan", "open"}, Goto(f, p),
         phase[f] \in {"fuzz", "scan", "open"},
         UNCHANGED <<known, queued, saving, file>>,
         \A g \in Fuzzers \ {f} : scan'[g] = scan[g] /\ synced'[g] = synced[g] /\ excused'[g] = excused[g]
  PROVE  /\ phase' \in [Fuzzers -> Phases] /\ phase'[f] = p
         /\ \A g \in Fuzzers : CasesOf(g)' = CasesOf(g) /\ NotYet(g)' = NotYet(g) /\ (Up(g)' <=> Up(g))
         /\ SavingOK(f)' /\ FilesOK(f)' /\ NoTwice(f)'
         /\ \A g \in Fuzzers \ {f} : Alone(g)'
         /\ \A h \in Fuzzers \ {f}, g \in Fuzzers : Pair(h, g)'
<1>1. /\ phase' \in [Fuzzers -> Phases] /\ phase'[f] = p
      /\ \A g \in Fuzzers \ {f} : phase'[g] = phase[g]
  BY DEF Goto, IInv, TypeOK, Phases
<1>2. \A g \in Fuzzers : CasesOf(g)' = CasesOf(g) /\ Complete(g)' = Complete(g) /\ (Up(g)' <=> Up(g))
  BY <1>1 DEF CasesOf, Complete, Up
<1>3. \A g \in Fuzzers : NotYet(g)' = NotYet(g)
  BY <1>2 DEF NotYet
<1>4. SavingOK(f)' /\ FilesOK(f)' /\ NoTwice(f)'
  BY <1>1, <1>2 DEF IInv, Alone, SavingOK, FilesOK, NoTwice
<1>5. ASSUME NEW g \in Fuzzers \ {f} PROVE Alone(g)'
  BY <1>1, AloneKept DEF IInv
<1>6. ASSUME NEW h \in Fuzzers \ {f}, NEW g \in Fuzzers PROVE Pair(h, g)'
  BY <1>2, <1>3, PairKept DEF IInv
<1>. QED  BY <1>1, <1>2, <1>3, <1>4, <1>5, <1>6

LEMMA StartScanOK == ASSUME IInv, NEW f \in Fuzzers, NEW g \in Fuzzers, StartScan(f, g) PROVE IInv'
<1> USE TheSets
<1>1. /\ phase[f] = "fuzz" /\ g # f /\ Goto(f, "scan")
      /\ scan'[f].dir = g /\ scan'[f].min = synced[f][g] /\ scan'[f].next = synced[f][g] /\ scan'[f].done = {}
      /\ \A h \in Fuzzers \ {f} : scan'[h] = scan[h]
      /\ UNCHANGED <<known, queued, saving, file, synced, kills, excused>>
  BY DEF StartScan, Ready, NoScan, disk, IInv, TypeOK
<1>2. TypeOK'
  <2>1. Visible(g) \subseteq Ids /\ synced[f][g] \in 0..MaxCase + 1 /\ 0 \in Ids
    BY DEF Visible, IInv, TypeOK
  <2>0. synced[f][g] \in Nat /\ Visible(g) \in SUBSET Ids
    BY <2>1
  <2>2. [NoScan EXCEPT !.dir = g, !.min = synced[f][g], !.next = synced[f][g], !.listed = Visible(g)] \in Scan
    BY <2>0, ScanStarted
  <2>3. scan' \in [Fuzzers -> Scan]
    BY <2>2 DEF StartScan, IInv, TypeOK
  <2>. QED  BY <1>1, <2>3, ScanningKeeps DEF IInv, TypeOK
<1>3. Alone(f)'
  <2>1. ScanOK(f)'
    BY <1>1, ScanningKeeps DEF ScanOK, IInv, Alone, TypeOK
  <2>. QED  BY <1>1, <2>1, ScanningKeeps DEF Alone
<1>4. ASSUME NEW h \in Fuzzers PROVE Pair(f, h)'
  <2>1. Pair(f, h)
    BY DEF IInv
  <2>2. Ahead(f, h)' /\ RunIsKnown(f, h)'
    BY <1>1, <2>1, ScanningKeeps DEF Pair, Ahead, RunIsKnown
  <2>3. Marks(f, h)'
    BY <1>1, <2>1, ScanningKeeps DEF Pair, Marks
  <2>. QED  BY <2>2, <2>3 DEF Pair
<1>. QED  BY <1>1, <1>2, <1>3, <1>4, ScanningKeeps DEF IInv

LEMMA TakeOK == ASSUME IInv, NEW f \in Fuzzers, NEW i \in Ids, Take(f, i) PROVE IInv'
<1> USE TheSets
<1>1. /\ phase[f] = "scan" /\ Goto(f, "open") /\ scan[f] \in Scan /\ scan[f].dir \in Fuzzers
      /\ scan'[f] = [scan[f] EXCEPT !.seen = @ \cup {i}, !.id = i, !.next = IF i >= @ THEN i + 1 ELSE @]
      /\ \A h \in Fuzzers \ {f} : scan'[h] = scan[h]
      /\ UNCHANGED <<known, queued, saving, file, synced, kills, excused>>
  BY DEF Take, Ready, disk, IInv, TypeOK, Alone, ScanOK
<1>2. /\ scan'[f] \in Scan /\ scan'[f].dir = scan[f].dir /\ scan'[f].min = scan[f].min
      /\ scan'[f].done = scan[f].done /\ scan'[f].next = IF i >= scan[f].next THEN i + 1 ELSE scan[f].next
  <2>1. PICK n \in Nat : n = IF i >= scan[f].next THEN i + 1 ELSE scan[f].next
    BY <1>1 DEF Scan
  <2>2. scan'[f] = [scan[f] EXCEPT !.seen = @ \cup {i}, !.id = i, !.next = n]
    BY <1>1, <2>1
  <2>3. /\ scan'[f] \in Scan /\ scan'[f].dir = scan[f].dir /\ scan'[f].min = scan[f].min
        /\ scan'[f].done = scan[f].done /\ scan'[f].next = n
    <3>1. PICK s \in Scan : s = scan[f]
      BY <1>1
    <3>2. PICK t : t = scan'[f]
      OBVIOUS
    <3>3. t = [s EXCEPT !.seen = @ \cup {i}, !.id = i, !.next = n]
      BY <2>2, <3>1, <3>2
    <3>4. t \in Scan /\ t.dir = s.dir /\ t.min = s.min /\ t.next = n /\ t.done = s.done
      BY <3>3 DEF Scan
    <3>. QED  BY <3>1, <3>2, <3>4
  <2>. QED  BY <2>1, <2>3
<1>3. TypeOK'
  <2>1. scan' \in [Fuzzers -> Scan]
    BY <1>2 DEF Take, IInv, TypeOK
  <2>. QED  BY <1>1, <2>1, ScanningKeeps DEF IInv, TypeOK
<1>4. Alone(f)'
  <2>1. ScanOK(f)'
    BY <1>1, <1>2, ScanningKeeps DEF ScanOK, IInv, Alone, Scan
  <2>. QED  BY <1>1, <2>1, ScanningKeeps DEF Alone
<1>5. ASSUME NEW h \in Fuzzers PROVE Pair(f, h)'
  <2>1. /\ Pair(f, h) /\ NotYet(h)' = NotYet(h) /\ (Up(h)' <=> Up(h)) /\ CasesOf(f)' = CasesOf(f)
        /\ scan'[f].dir = scan[f].dir /\ scan'[f].done = scan[f].done
    BY <1>1, <1>2, ScanningKeeps DEF IInv
  <2>2. \A j \in Ids : file'[h][j].case = file[h][j].case
    BY <1>1
  <2>. QED  BY <1>1, <2>1, <2>2, PairKept
<1>. QED  BY <1>1, <1>3, <1>4, <1>5, ScanningKeeps DEF IInv

LEMMA PassOverOK == ASSUME IInv, NEW f \in Fuzzers, PassOver(f) PROVE IInv'
<1> USE TheSets
<1>1. /\ phase[f] = "open" /\ Goto(f, "scan") /\ scan[f] \in Scan /\ scan[f].dir \in Fuzzers
      /\ scan'[f] = [scan[f] EXCEPT !.id = 0]
      /\ \A h \in Fuzzers \ {f} : scan'[h] = scan[h]
      /\ UNCHANGED <<known, queued, saving, file, synced, kills, excused>>
  BY DEF PassOver, Ready, disk, IInv, TypeOK, Alone, ScanOK
<1>2. /\ scan'[f] \in Scan /\ scan'[f].dir = scan[f].dir /\ scan'[f].min = scan[f].min
      /\ scan'[f].done = scan[f].done /\ scan'[f].next = scan[f].next
  BY <1>1 DEF Scan
<1>3. TypeOK'
  <2>1. scan' \in [Fuzzers -> Scan]
    BY <1>2 DEF PassOver, IInv, TypeOK
  <2>. QED  BY <1>1, <2>1, ScanningKeeps DEF IInv, TypeOK
<1>4. Alone(f)'
  <2>1. ScanOK(f)'
    BY <1>1, <1>2, ScanningKeeps DEF ScanOK, IInv, Alone
  <2>. QED  BY <1>1, <2>1, ScanningKeeps DEF Alone
<1>5. ASSUME NEW h \in Fuzzers PROVE Pair(f, h)'
  <2>1. /\ Pair(f, h) /\ NotYet(h)' = NotYet(h) /\ (Up(h)' <=> Up(h)) /\ CasesOf(f)' = CasesOf(f)
        /\ scan'[f].dir = scan[f].dir /\ scan'[f].done = scan[f].done
    BY <1>1, <1>2, ScanningKeeps DEF IInv
  <2>2. \A j \in Ids : file'[h][j].case = file[h][j].case
    BY <1>1
  <2>. QED  BY <1>1, <2>1, <2>2, PairKept
<1>. QED  BY <1>1, <1>3, <1>4, <1>5, ScanningKeeps DEF IInv

LEMMA DoneIs ==
  ASSUME IInv, NEW f \in Fuzzers, phase[f] = "open", Opens(f), Done(f)
  PROVE  /\ scan' \in [Fuzzers -> Scan] /\ scan[f].dir \in Fuzzers /\ scan[f].id \in Ids
         /\ scan'[f].dir = scan[f].dir /\ scan'[f].min = scan[f].min /\ scan'[f].next = scan[f].next
         /\ scan'[f].done = scan[f].done \cup {scan[f].id}
         /\ \A g \in Fuzzers \ {f} : scan'[g] = scan[g]
         /\ Up(scan[f].dir) => scan[f].id \notin NotYet(scan[f].dir)
<1> USE TheSets
<1>1. /\ scan[f] \in Scan /\ scan[f].dir \in Fuzzers
      /\ scan'[f] = [scan[f] EXCEPT !.done = @ \cup {scan[f].id}, !.id = 0]
      /\ \A g \in Fuzzers \ {f} : scan'[g] = scan[g]
  BY DEF Done, IInv, TypeOK, Alone, ScanOK
<1>2. /\ scan'[f] \in Scan /\ scan[f].id \in Ids
      /\ scan'[f].dir = scan[f].dir /\ scan'[f].min = scan[f].min /\ scan'[f].next = scan[f].next
      /\ scan'[f].done = scan[f].done \cup {scan[f].id}
  <2>1. PICK s \in Scan : s = scan[f]
    BY <1>1
  <2>2. PICK d \in SUBSET Ids : d = s.done \cup {s.id}
    BY DEF Scan
  <2>3. PICK t : t = scan'[f]
    OBVIOUS
  <2>4. t = [s EXCEPT !.done = d, !.id = 0]
    BY <1>1, <2>1, <2>2, <2>3
  <2>5. t \in Scan /\ t.dir = s.dir /\ t.min = s.min /\ t.next = s.next /\ t.done = d /\ s.id \in Ids
    BY <2>4 DEF Scan, Seed
  <2>. QED  BY <2>1, <2>2, <2>3, <2>5
<1>3. scan' \in [Fuzzers -> Scan]
  BY <1>1, <1>2 DEF Done, IInv, TypeOK
<1>4. ASSUME Up(scan[f].dir) PROVE scan[f].id \notin NotYet(scan[f].dir)
  <2>1. PICK g \in Fuzzers : g = scan[f].dir
    BY <1>1
  <2>2. file[g][scan[f].id].case \in Cases /\ FilesOK(g) /\ Up(g)
    BY <1>4, <2>1 DEF Opens, Tried, IInv, Alone
  <2>. QED  BY <1>2, <2>1, <2>2 DEF FilesOK, NotYet
<1>. QED  BY <1>1, <1>2, <1>3, <1>4

LEMMA RunBoringOK == ASSUME IInv, NEW f \in Fuzzers, RunBoring(f) PROVE IInv'
<1> USE TheSets
<1>1. /\ phase[f] = "open" /\ Goto(f, "scan") /\ Opens(f) /\ Done(f) /\ Tried(f) \in known[f]
      /\ UNCHANGED <<known, queued, saving, file, synced, kills, excused>>
  BY DEF RunBoring, Ready, disk
<1>2. TypeOK'
  BY <1>1, DoneIs, ScanningKeeps DEF IInv, TypeOK
<1>3. Alone(f)'
  <2>1. ScanOK(f)'
    BY <1>1, DoneIs, ScanningKeeps DEF ScanOK, IInv, Alone
  <2>. QED  BY <1>1, <2>1, DoneIs, ScanningKeeps DEF Alone
<1>4. ASSUME NEW h \in Fuzzers PROVE Pair(f, h)'
  <2>1. /\ Pair(f, h) /\ NotYet(h)' = NotYet(h) /\ (Up(h)' <=> Up(h)) /\ CasesOf(f)' = CasesOf(f)
        /\ scan'[f].dir = scan[f].dir /\ scan'[f].done = scan[f].done \cup {scan[f].id}
        /\ scan[f].dir = h /\ Up(h) => scan[f].id \notin NotYet(h)
        /\ scan[f].dir = h => file[h][scan[f].id].case \in known[f]
    BY <1>1, DoneIs, ScanningKeeps DEF IInv, Tried
  <2>2. Ahead(f, h)'
    BY <1>1, <2>1 DEF Pair, Ahead
  <2>3. RunIsKnown(f, h)'
    BY <1>1, <2>1 DEF Pair, RunIsKnown
  <2>4. Marks(f, h)'
    BY <1>1, <2>1 DEF Pair, Marks
  <2>. QED  BY <2>2, <2>3, <2>4 DEF Pair
<1>. QED  BY <1>1, <1>2, <1>3, <1>4, DoneIs, ScanningKeeps DEF IInv

LEMMA ImportOK == ASSUME IInv, NEW f \in Fuzzers, Import(f) PROVE IInv'
<1> USE TheSets
<1>1. PICK c \in Cases \ known[f] : c = Tried(f)
  BY DEF Import, Opens
<1>2. /\ phase[f] = "open" /\ Opens(f) /\ Done(f) /\ Create(f, c)
      /\ UNCHANGED <<synced, kills, excused>>
  BY <1>1 DEF Import, Ready
<1>3. TypeOK'
  <2>1. queued[f] \in Ids
    BY <1>2, CreateOK
  <2>2. queued[f] + 1 \in 0..MaxCase + 1
    BY <2>1, LastOf, SyncAssumption DEF Ids
  <2>. QED  BY <1>2, <2>2, CreateOK, DoneIs DEF Create, Goto, Learned, IInv, TypeOK, Phases
<1>4. ASSUME NEW g \in Fuzzers PROVE Alone(g)'
  <2>1. CASE g = f
    <3>1. Alone(f)
      BY DEF IInv
    <3>2. ScanOK(f)'
      BY <1>2, <3>1, CreateOK, DoneIs DEF ScanOK, Alone
    <3>. QED  BY <1>2, <2>1, <3>2, CreateOK DEF Alone
  <2>2. CASE g # f
    <3>1. Alone(g)
      BY DEF IInv
    <3>2. /\ phase'[g] = phase[g] /\ known'[g] = known[g] /\ queued'[g] = queued[g]
          /\ saving'[g] = saving[g] /\ file'[g] = file[g]
      BY <1>2, <2>2, CreateOK
    <3>3. scan'[g] = scan[g] /\ synced'[g] = synced[g]
      BY <1>2, <2>2, DoneIs
    <3>. QED  BY <3>1, <3>2, <3>3, AloneKept
  <2>. QED  BY <2>1, <2>2
<1>5. ASSUME NEW h \in Fuzzers, NEW g \in Fuzzers PROVE Pair(h, g)'
  <2>1. CASE h = f /\ g = scan[f].dir
    <3>1. g # f /\ phase'[g] = phase[g] /\ queued'[g] = queued[g]
      BY <1>2, <2>1, CreateOK DEF IInv, Alone, ScanOK
    <3>2. /\ Pair(f, g) /\ NotYet(g)' = NotYet(g) /\ (Up(g)' <=> Up(g)) /\ CasesOf(f)' = CasesOf(f)
          /\ scan'[f].dir = g /\ scan'[f].done = scan[f].done \cup {scan[f].id}
          /\ Up(g) => scan[f].id \notin NotYet(g)
          /\ known'[f] = known[f] \cup {file[g][scan[f].id].case}
          /\ \A i \in Ids : file'[g][i].case = file[g][i].case
      <4>1. /\ CasesOf(f)' = CasesOf(f) /\ known'[f] = known[f] \cup {c}
            /\ \A i \in Ids : file'[g][i].case = file[g][i].case
        BY <1>2, <3>1, CreateOK
      <4>2. NotYet(g)' = NotYet(g) /\ (Up(g)' <=> Up(g)) /\ Pair(f, g)
        BY <3>1 DEF NotYet, Complete, Up, IInv
      <4>3. c = file[g][scan[f].id].case
        BY <1>1, <2>1 DEF Tried
      <4>4. /\ scan'[f].dir = g /\ scan'[f].done = scan[f].done \cup {scan[f].id}
            /\ Up(g) => scan[f].id \notin NotYet(g)
        BY <1>2, <2>1, DoneIs
      <4>. QED  BY <4>1, <4>2, <4>3, <4>4
    <3>3. Ahead(f, g)'
      BY <1>2, <3>2, <2>1 DEF Pair, Ahead
    <3>4. RunIsKnown(f, g)'
      BY <1>2, <3>2, <2>1 DEF Pair, RunIsKnown
    <3>5. Marks(f, g)'
      BY <1>2, <3>2 DEF Pair, Marks
    <3>. QED  BY <2>1, <3>3, <3>4, <3>5 DEF Pair
  <2>2. CASE h # f \/ g # scan[f].dir
    <3>1. scan'[h].dir = g => scan[h].dir = g /\ scan'[h].done \subseteq scan[h].done
      BY <1>2, <2>2, DoneIs
    <3>. QED  BY <1>2, <3>1, CreateKeeps
  <2>. QED  BY <2>1, <2>2
<1>. QED  BY <1>3, <1>4, <1>5 DEF IInv

LEMMA EndScanOK == ASSUME IInv, NEW f \in Fuzzers, EndScan(f) PROVE IInv'
<1> USE TheSets
<1>1. PICK g \in Fuzzers : g = scan[f].dir
  BY DEF EndScan, Ready, IInv, Alone, ScanOK
<1>2. /\ phase[f] = "scan" /\ Goto(f, "fuzz") /\ scan[f] \in Scan /\ g # f
      /\ scan[f].min = synced[f][g] /\ scan[f].next \in 0..MaxCase + 1
      /\ scan'[f] = NoScan
      /\ synced'[f] = [synced[f] EXCEPT ![g] = scan[f].next]
      /\ excused'[f] = excused[f] \cup ({g} \X PassedOver(f))
      /\ \A h \in Fuzzers \ {f} : scan'[h] = scan[h] /\ synced'[h] = synced[h] /\ excused'[h] = excused[h]
      /\ UNCHANGED <<known, queued, saving, file, kills>>
  BY <1>1 DEF EndScan, Ready, IInv, TypeOK, Alone, ScanOK, Scan
<1>3. PassedOver(f) = {i \in Ids : synced[f][g] <= i /\ i < scan[f].next} \ scan[f].done
  BY <1>2 DEF PassedOver
<1>4. TypeOK'
  <2>1. scan' \in [Fuzzers -> Scan]
    BY ScanStarted DEF EndScan, IInv, TypeOK
  <2>2. synced' \in [Fuzzers -> [Fuzzers -> 0..MaxCase + 1]]
    BY <1>1, <1>2 DEF EndScan, IInv, TypeOK
  <2>3. excused' \in [Fuzzers -> SUBSET (Fuzzers \X Ids)]
    BY <1>1, <1>3 DEF EndScan, IInv, TypeOK
  <2>. QED  BY <1>2, <2>1, <2>2, <2>3, ScanningKeeps DEF IInv, TypeOK
<1>5. \A h \in Fuzzers : synced'[f][h] = IF h = g THEN scan[f].next ELSE synced[f][h]
  BY <1>2 DEF IInv, TypeOK
<1>6. Alone(f)'
  <2>1. ScanOK(f)'
    BY <1>2, <1>5, ScanningKeeps DEF ScanOK, IInv, Alone
  <2>. QED  BY <1>2, <2>1, ScanningKeeps DEF Alone
<1>7. ASSUME NEW h \in Fuzzers PROVE Pair(f, h)'
  <2>1. /\ Pair(f, h) /\ NotYet(h)' = NotYet(h) /\ (Up(h)' <=> Up(h)) /\ CasesOf(f)' = CasesOf(f)
    BY <1>2, ScanningKeeps DEF IInv
  <2>2. RunIsKnown(f, h)'
    BY <1>2 DEF RunIsKnown
  <2>3. CASE h = g
    <3>1. ASSUME NEW i \in Ids, i < scan[f].next
          PROVE  i < synced[f][g] \/ i \in scan[f].done \/ <<g, i>> \in excused'[f]
      <4>1. synced[f][g] <= i \/ i < synced[f][g]
        BY <1>2 DEF IInv, TypeOK
      <4>2. i \in PassedOver(f) => <<g, i>> \in excused'[f]
        BY <1>2
      <4>. QED  BY <1>3, <3>1, <4>1, <4>2
    <3>2. Ahead(f, g)'
      <4>1. \A i \in NotYet(g) : i \in Ids
        BY DEF NotYet
      <4>2. /\ synced'[f][g] = scan[f].next /\ scan'[f].dir # g /\ scan[f].dir = g
            /\ excused[f] \subseteq excused'[f] /\ Ahead(f, g)
        BY <1>1, <1>2, <1>5, <2>1, <2>3 DEF Pair
      <4>3. ASSUME Up(g), NEW i \in NotYet(g), i < synced'[f][g] PROVE <<g, i>> \in excused'[f]
        <5>1. /\ i < synced[f][g] => <<g, i>> \in excused[f]
              /\ i \notin scan[f].done
          BY <4>2, <4>3 DEF Ahead
        <5>. QED  BY <3>1, <4>1, <4>2, <4>3, <5>1
      <4>4. NotYet(g)' = NotYet(g) /\ (Up(g)' <=> Up(g))
        BY <2>1, <2>3
      <4>5. Up(g)' => \A i \in NotYet(g)' : i < synced'[f][g] => <<g, i>> \in excused'[f]
        BY <4>3, <4>4
      <4>. QED  BY <4>2, <4>5 DEF Ahead
    <3>3. known[f] = CasesOf(f)
      <4>1. SavingOK(f) /\ Up(f) /\ phase[f] # "write"
        BY <1>2 DEF IInv, Alone, Up
      <4>. QED  BY <4>1 DEF SavingOK
    <3>4. Marks(f, g)'
      BY <1>1, <1>2, <1>5, <2>1, <2>3, <3>1, <3>3 DEF Marks, RunIsKnown, Pair
    <3>. QED  BY <2>2, <2>3, <3>2, <3>4 DEF Pair
  <2>4. CASE h # g
    <3>1. Ahead(f, h)'
      BY <1>2, <1>5, <2>1, <2>4 DEF Ahead, Pair
    <3>2. Marks(f, h)'
      BY <1>2, <1>5, <2>1, <2>4 DEF Marks, Pair
    <3>. QED  BY <2>2, <3>1, <3>2 DEF Pair
  <2>. QED  BY <2>3, <2>4
<1>. QED  BY <1>2, <1>4, <1>6, <1>7, ScanningKeeps DEF IInv

-----------------------------------------------------------------------------
(* Kills: a file may go with the process.                                  *)
LEMMA LostOK ==
  ASSUME IInv, NEW f \in Fuzzers, MemoryLost(f),
         file' \in [Fuzzers -> [Ids -> File]], \A g \in Fuzzers \ {f} : file'[g] = file[g],
         \A i \in Ids : file'[f][i].case \in Cases => file'[f][i] = file[f][i],
         synced' = synced, excused' \in [Fuzzers -> SUBSET (Fuzzers \X Ids)],
         \A h \in Fuzzers : excused[h] \subseteq excused'[h],
         \A g \in Fuzzers : Marks(f, g)',
         \A g \in Fuzzers \ {f} : excused'[g] = excused[g]
  PROVE  IInv'
<1> USE TheSets
<1>1. /\ phase'[f] = "down" /\ saving'[f] = None /\ scan'[f] = NoScan /\ kills' \in 0..MaxKills
      /\ \A g \in Fuzzers \ {f} : /\ phase'[g] = phase[g] /\ known'[g] = known[g] /\ queued'[g] = queued[g]
                                  /\ saving'[g] = saving[g] /\ scan'[g] = scan[g]
  BY SyncAssumption DEF MemoryLost, Goto, IInv, TypeOK
<1>2. TypeOK'
  <2>1. /\ phase' \in [Fuzzers -> Phases] /\ known' \in [Fuzzers -> SUBSET Cases]
        /\ queued' \in [Fuzzers -> 0..MaxCase + 1] /\ saving' \in [Fuzzers -> Cases \cup {None}]
    BY DEF MemoryLost, Goto, IInv, TypeOK, Phases
  <2>2. scan' \in [Fuzzers -> Scan]
    BY ScanStarted DEF MemoryLost, IInv, TypeOK
  <2>. QED  BY <1>1, <2>1, <2>2 DEF IInv, TypeOK
<1>3. Alone(f)'
  <2>1. Alone(f)
    BY DEF IInv
  <2>2. ScanOK(f)' /\ SavingOK(f)' /\ FilesOK(f)'
    BY <1>1, <2>1 DEF ScanOK, SavingOK, FilesOK, Alone, Up
  <2>3. NoTwice(f)'
    BY <2>1 DEF NoTwice, Alone
  <2>. QED  BY <2>2, <2>3 DEF Alone
<1>4. ASSUME NEW g \in Fuzzers \ {f} PROVE Alone(g)'
  BY <1>1, AloneKept DEF IInv
<1>5. ASSUME NEW h \in Fuzzers, NEW g \in Fuzzers PROVE Pair(h, g)'
  <2>1. Up(g)' => Up(g) /\ NotYet(g)' \subseteq NotYet(g)
    BY <1>1 DEF Up, NotYet, Complete
  <2>2. \A i \in Ids : file'[g][i].case \in Cases => file'[g][i].case = file[g][i].case
    OBVIOUS
  <2>3. CASE h # f
    <3>1. CasesOf(h)' = CasesOf(h)
      BY <2>3 DEF CasesOf
    <3>. QED  BY <1>1, <2>1, <2>2, <2>3, <3>1, PairKept DEF IInv
  <2>4. CASE h = f
    <3>1. Pair(f, g) /\ scan'[f].dir # g
      BY <1>1 DEF IInv
    <3>2. Ahead(f, g)' /\ RunIsKnown(f, g)'
      BY <2>1, <3>1 DEF Pair, Ahead, RunIsKnown
    <3>. QED  BY <2>4, <3>2 DEF Pair
  <2>. QED  BY <2>3, <2>4
<1>. QED  BY <1>2, <1>3, <1>4, <1>5 DEF IInv

LEMMA KillOK == ASSUME IInv, NEW f \in Fuzzers, Kill(f) PROVE IInv'
<1>1. MemoryLost(f) /\ file' = file /\ synced' = synced /\ excused' = excused
  BY DEF Kill, disk
<1>2. \A g \in Fuzzers : Marks(f, g)'
  BY <1>1 DEF IInv, Pair, Marks, CasesOf
<1>3. file \in [Fuzzers -> [Ids -> File]] /\ excused \in [Fuzzers -> SUBSET (Fuzzers \X Ids)]
  BY DEF IInv, TypeOK
<1>. QED  BY <1>1, <1>2, <1>3, LostOK

LEMMA KillTrimmingOK == ASSUME IInv, NEW f \in Fuzzers, KillTrimming(f) PROVE IInv'
<1> USE TheSets
<1>1. PICK i \in Full(f), left \in {Absent, Empty} :
        /\ file' = [file EXCEPT ![f][i] = left]
        /\ excused' = [excused EXCEPT ![f] = @ \cup Marked(f, file[f][i].case)]
  BY DEF KillTrimming
<1>2. MemoryLost(f) /\ synced' = synced /\ i \in Ids /\ left \in File /\ left.case = None
  BY <1>1 DEF KillTrimming, Full
<1>3. /\ file' \in [Fuzzers -> [Ids -> File]] /\ \A g \in Fuzzers \ {f} : file'[g] = file[g]
      /\ \A j \in Ids : file'[f][j] = IF j = i THEN left ELSE file[f][j]
  BY <1>1, <1>2 DEF IInv, TypeOK
<1>4. /\ excused'[f] = excused[f] \cup Marked(f, file[f][i].case)
      /\ \A g \in Fuzzers \ {f} : excused'[g] = excused[g]
      /\ excused' \in [Fuzzers -> SUBSET (Fuzzers \X Ids)]
  <2>1. Marked(f, file[f][i].case) \subseteq Fuzzers \X Ids
    BY DEF Marked
  <2>. QED  BY <1>1, <2>1 DEF IInv, TypeOK
<1>5. ASSUME NEW g \in Fuzzers PROVE Marks(f, g)'
  <2>1. Marks(f, g) /\ synced[f][f] = 0
    BY DEF IInv, Pair, Alone, ScanOK
  <2>2. SUFFICES ASSUME NEW j \in Ids, j < synced[f][g], <<g, j>> \notin excused'[f], file'[g][j].case \in Cases
                 PROVE  file'[g][j].case \in CasesOf(f)'
    BY <1>2 DEF Marks
  <2>3. g # f
    BY <2>1, <2>2
  <2>4. file[g][j].case # file[f][i].case
    <3>1. PICK c : c = file[f][i].case
      OBVIOUS
    <3>2. PICK m : m = <<g, j>>
      OBVIOUS
    <3>3. m \in Fuzzers \X Ids /\ m[1] = g /\ m[2] = j /\ m \notin Marked(f, c)
      BY <1>4, <2>2, <3>1, <3>2
    <3>4. ~(j < synced[f][g] /\ file[g][j].case = c)
      BY <3>3 DEF Marked
    <3>. QED  BY <2>2, <3>1, <3>4
  <2>5. file[g][j].case \in CasesOf(f)
    BY <1>3, <1>4, <2>1, <2>2, <2>3 DEF Marks
  <2>6. PICK k \in Ids : file[f][k].case = file[g][j].case
    BY <2>5 DEF CasesOf
  <2>7. k # i /\ file'[f][k] = file[f][k] /\ file'[g][j] = file[g][j]
    BY <1>3, <2>3, <2>4, <2>6
  <2>. QED  BY <2>2, <2>6, <2>7 DEF CasesOf
<1>6. \A j \in Ids : file'[f][j].case \in Cases => file'[f][j] = file[f][j]
  BY <1>2, <1>3
<1>7. \A h \in Fuzzers : excused[h] \subseteq excused'[h]
  BY <1>4
<1>. QED  BY <1>2, <1>3, <1>4, <1>5, <1>6, <1>7, LostOK

-----------------------------------------------------------------------------
(* Restarts: the scans of the others, of the directory that was renumbered *)
(* but for the numbers that do not mean something else.                    *)
ScansTorn(f, ids) ==
  /\ scan' \in [Fuzzers -> Scan]
  /\ \A g \in Fuzzers :
       /\ scan'[g].dir = scan[g].dir /\ scan'[g].min = scan[g].min /\ scan'[g].next = scan[g].next
       /\ scan[g].dir # f => scan'[g] = scan[g]
       /\ scan[g].dir = f => scan'[g].done = scan[g].done \ ids

LEMMA MoveTears ==
  ASSUME IInv, NEW f \in Fuzzers, scan' = Torn(f)
  PROVE  ScansTorn(f, {})
<1>1. ASSUME NEW g \in Fuzzers
      PROVE  /\ scan'[g] \in Scan
             /\ scan'[g].dir = scan[g].dir /\ scan'[g].min = scan[g].min /\ scan'[g].next = scan[g].next
             /\ scan[g].dir # f => scan'[g] = scan[g]
             /\ scan[g].dir = f => scan'[g].done = scan[g].done \ {}
  <2>1. PICK s \in Scan : s = scan[g]
    BY DEF IInv, TypeOK
  <2>2. scan'[g] = IF s.dir = f THEN [s EXCEPT !.whole = FALSE] ELSE s
    BY <2>1 DEF Torn
  <2>. QED  BY <2>1, <2>2 DEF Scan
<1>2. scan' \in [Fuzzers -> Scan]
  BY <1>1 DEF Torn
<1>. QED  BY <1>1, <1>2 DEF ScansTorn

LEMMA RenumberedTears ==
  ASSUME IInv, NEW f \in Fuzzers, NEW ids \in SUBSET Ids, NEW own \in SUBSET (Fuzzers \X Ids),
         Renumbered(f, ids, own)
  PROVE  /\ ScansTorn(f, ids)
         /\ excused' \in [Fuzzers -> SUBSET (Fuzzers \X Ids)] /\ excused'[f] = own
         /\ \A g \in Fuzzers \ {f} : excused'[g] = excused[g] \cup Stale(f, g, ids)
<1>1. ASSUME NEW g \in Fuzzers
      PROVE  /\ scan'[g] \in Scan
             /\ scan'[g].dir = scan[g].dir /\ scan'[g].min = scan[g].min /\ scan'[g].next = scan[g].next
             /\ scan[g].dir # f => scan'[g] = scan[g]
             /\ scan[g].dir = f => scan'[g].done = scan[g].done \ ids
  <2>1. PICK s \in Scan : s = scan[g]
    BY DEF IInv, TypeOK
  <2>2. CASE s.dir = f
    <3>1. PICK t : t = [s EXCEPT !.whole = FALSE]
      OBVIOUS
    <3>2. t \in Scan /\ t.dir = s.dir /\ t.min = s.min /\ t.next = s.next /\ t.done = s.done
      BY <3>1 DEF Scan
    <3>3. PICK d \in SUBSET Ids : d = t.done \ ids
      BY <3>2 DEF Scan
    <3>4. scan'[g] = [t EXCEPT !.done = d]
      BY <2>1, <2>2, <3>1, <3>3 DEF Renumbered, Torn
    <3>. QED  BY <2>1, <2>2, <3>2, <3>3, <3>4 DEF Scan
  <2>3. CASE s.dir # f
    BY <2>1, <2>3 DEF Renumbered
  <2>. QED  BY <2>2, <2>3
<1>2. scan' \in [Fuzzers -> Scan]
  BY <1>1 DEF Renumbered
<1>3. \A g \in Fuzzers : Stale(f, g, ids) \subseteq Fuzzers \X Ids
  BY DEF Stale
<1>4. \A g \in Fuzzers : excused'[g] = IF g = f THEN own ELSE excused[g] \cup Stale(f, g, ids)
  BY DEF Renumbered
<1>5. excused' \in [Fuzzers -> SUBSET (Fuzzers \X Ids)]
  BY <1>3 DEF Renumbered, IInv, TypeOK
<1>. QED  BY <1>1, <1>2, <1>4, <1>5 DEF ScansTorn

LEMMA OthersKept ==
  ASSUME IInv, NEW f \in Fuzzers, NEW ids \in SUBSET Ids, ScansTorn(f, ids), NEW g \in Fuzzers \ {f},
         phase'[g] = phase[g], known'[g] = known[g], queued'[g] = queued[g], saving'[g] = saving[g],
         file'[g] = file[g], synced'[g] = synced[g]
  PROVE  Alone(g)'
<1>1. CasesOf(g)' = CasesOf(g) /\ Alone(g)
  BY DEF CasesOf, IInv
<1>2. /\ scan'[g].dir = scan[g].dir /\ scan'[g].min = scan[g].min /\ scan'[g].next = scan[g].next
      /\ scan[g].dir # f => scan'[g] = scan[g]
  BY DEF ScansTorn
<1>3. ScanOK(g)'
  BY <1>1, <1>2, TheSets DEF Alone, ScanOK
<1>4. SavingOK(g)' /\ FilesOK(g)' /\ NoTwice(g)'
  BY <1>1 DEF Alone, SavingOK, FilesOK, NoTwice, Complete, Up
<1>. QED  BY <1>3, <1>4 DEF Alone

LEMMA MoveOK == ASSUME IInv, NEW f \in Fuzzers, Move(f) PROVE IInv'
<1> USE TheSets
<1>1. /\ phase[f] = "down" /\ phase'[f] = "moved" /\ phase' \in [Fuzzers -> Phases]
      /\ \A g \in Fuzzers \ {f} : phase'[g] = phase[g]
      /\ UNCHANGED <<known, queued, saving, file, synced, kills, excused>>
  BY DEF Move, Ready, Goto, disk, IInv, TypeOK, Phases
<1>2. ScansTorn(f, {})
  BY MoveTears DEF Move
<1>3. TypeOK'
  BY <1>1, <1>2 DEF IInv, TypeOK, ScansTorn
<1>4. ASSUME NEW g \in Fuzzers \ {f} PROVE Alone(g)'
  BY <1>1, <1>2, OthersKept
<1>5. CasesOf(f)' = CasesOf(f) /\ Alone(f)
  BY <1>1 DEF CasesOf, IInv
<1>6. Alone(f)'
  <2>1. scan[f] = NoScan /\ scan'[f] = scan[f]
    BY <1>1, <1>2, <1>5 DEF Alone, ScanOK, ScansTorn
  <2>2. ScanOK(f)' /\ SavingOK(f)' /\ FilesOK(f)' /\ NoTwice(f)'
    BY <1>1, <1>5, <2>1 DEF Alone, ScanOK, SavingOK, FilesOK, NoTwice, Up
  <2>. QED  BY <2>2 DEF Alone
<1>7. ASSUME NEW h \in Fuzzers, NEW g \in Fuzzers PROVE Pair(h, g)'
  <2>1. Up(g)' => Up(g) /\ NotYet(g)' \subseteq NotYet(g)
    BY <1>1 DEF Up, NotYet, Complete
  <2>2. CasesOf(h)' = CasesOf(h)
    BY <1>1 DEF CasesOf
  <2>3. scan'[h].dir = g => scan[h].dir = g /\ scan'[h].done \subseteq scan[h].done
    BY <1>2 DEF ScansTorn
  <2>4. \A i \in Ids : file'[g][i].case = file[g][i].case
    BY <1>1
  <2>. QED  BY <1>1, <2>1, <2>2, <2>3, <2>4, PairKept DEF IInv
<1>. QED  BY <1>3, <1>4, <1>6, <1>7 DEF IInv

(* The files that mean something else behind the marks and the scans are   *)
(* excused; the others are where they were.                                *)
LEMMA RenumberedKeeps ==
  ASSUME IInv, NEW f \in Fuzzers, NEW ids \in SUBSET Ids, ScansTorn(f, ids),
         \A g \in Fuzzers \ {f} : /\ phase'[g] = phase[g] /\ known'[g] = known[g] /\ queued'[g] = queued[g]
                                  /\ file'[g] = file[g] /\ synced'[g] = synced[g]
                                  /\ excused'[g] = excused[g] \cup Stale(f, g, ids),
         \A i \in Ids \ ids : file'[f][i] = file[f][i],
         NotYet(f)' \subseteq ids,
         NEW h \in Fuzzers \ {f}, NEW g \in Fuzzers
  PROVE  Pair(h, g)'
<1> USE TheSets
<1>1. /\ Pair(h, g) /\ scan'[h].dir = scan[h].dir
      /\ scan[h].dir # f => scan'[h] = scan[h]
      /\ scan[h].dir = f => scan'[h].done = scan[h].done \ ids
  BY DEF IInv, ScansTorn
<1>2. CasesOf(h)' = CasesOf(h)
  BY DEF CasesOf
<1>3. CASE g # f
  <2>1. Up(g)' => Up(g) /\ NotYet(g)' \subseteq NotYet(g)
    BY <1>3 DEF Up, NotYet, Complete
  <2>2. \A i \in Ids : file'[g][i].case = file[g][i].case
    BY <1>3
  <2>. QED  BY <1>1, <1>2, <1>3, <2>1, <2>2, PairKept
<1>4. CASE g = f
  <2>1. ASSUME NEW i \in ids, i < synced[h][f] PROVE <<f, i>> \in excused'[h]
    BY <2>1 DEF Stale
  <2>2. Ahead(h, f)'
    <3>1. \A i \in NotYet(f)' : i < synced'[h][f] => <<f, i>> \in excused'[h]
      BY <2>1
    <3>2. scan'[h].dir = f => scan'[h].done \cap NotYet(f)' = {}
      BY <1>1
    <3>. QED  BY <3>1, <3>2 DEF Ahead
  <2>3. RunIsKnown(h, f)'
    BY <1>1, <1>4 DEF Pair, RunIsKnown
  <2>4. Marks(h, f)'
    BY <1>1, <1>2, <1>4, <2>1 DEF Pair, Marks
  <2>. QED  BY <1>4, <2>2, <2>3, <2>4 DEF Pair
<1>. QED  BY <1>3, <1>4

-----------------------------------------------------------------------------
(* The members of a set of numbers, in order, are 0, 1, ... without a gap. *)
Before(S, j) == {k \in S : k < j}
Rank(S, j) == Cardinality(Before(S, j))

LEMMA RankBounded ==
  ASSUME NEW S \in SUBSET Ids
  PROVE  /\ IsFiniteSet(S) /\ Cardinality(S) \in 0..MaxCase + 1
         /\ \A j \in S : Rank(S, j) \in 0..Cardinality(S) - 1
         /\ \A i, j \in S : Rank(S, i) = Rank(S, j) => i = j
<1>1. MaxCase \in Int /\ 0 <= MaxCase /\ Ids \subseteq Nat
  BY SyncAssumption DEF Ids
<1>2. IsFiniteSet(Ids) /\ Cardinality(Ids) = MaxCase + 1
  BY <1>1, FS_Interval DEF Ids
<1>3. IsFiniteSet(S) /\ Cardinality(S) \in Nat /\ Cardinality(S) <= MaxCase + 1
  BY <1>2, FS_Subset, FS_CardinalityType
<1>4. ASSUME NEW j \in S PROVE IsFiniteSet(Before(S, j)) /\ Rank(S, j) \in 0..Cardinality(S) - 1
  <2>1. Before(S, j) \in SUBSET S /\ j \notin Before(S, j)
    BY <1>1 DEF Before
  <2>2. /\ IsFiniteSet(Before(S, j)) /\ Rank(S, j) <= Cardinality(S)
        /\ Cardinality(S) = Rank(S, j) => S = Before(S, j)
    BY <1>3, <2>1, FS_Subset DEF Rank
  <2>3. Rank(S, j) \in Nat
    BY <2>2, FS_CardinalityType DEF Rank
  <2>. QED  BY <1>3, <2>1, <2>2, <2>3
<1>5. ASSUME NEW i \in S, NEW j \in S, i < j PROVE Rank(S, i) # Rank(S, j)
  <2>1. i \in Before(S, j) /\ i \notin Before(S, i)
    BY <1>1, <1>5 DEF Before
  <2>2. Before(S, i) \in SUBSET Before(S, j)
    <3>1. ASSUME NEW k \in S, k < i PROVE k < j
      <4>1. k \in Nat /\ i \in Nat /\ j \in Nat
        BY <1>1
      <4>. QED  BY <1>5, <3>1, <4>1
    <3>. QED  BY <3>1 DEF Before
  <2>. QED  BY <1>4, <2>1, <2>2, FS_Subset DEF Rank
<1>6. ASSUME NEW i \in S, NEW j \in S, Rank(S, i) = Rank(S, j) PROVE i = j
  <2>1. i \in Nat /\ j \in Nat
    BY <1>1
  <2>2. ~(i < j) /\ ~(j < i)
    BY <1>5, <1>6
  <2>. QED  BY <2>1, <2>2
<1>. QED  BY <1>1, <1>3, <1>4, <1>6

LEMMA RankOnto ==
  ASSUME NEW S \in SUBSET Ids
  PROVE  \A r \in 0..Cardinality(S) - 1 : \E j \in S : Rank(S, j) = r
<1>1. PICK n \in Nat : n = Cardinality(S)
  BY RankBounded
<1>2. PICK T : T = 0..n - 1
  OBVIOUS
<1>3. PICK F : F = [j \in S |-> Rank(S, j)]
  OBVIOUS
<1>4. F \in [S -> T] /\ \A i, j \in S : F[i] = F[j] => i = j
  BY <1>1, <1>2, <1>3, RankBounded
<1>5. F \in Injection(S, T)
  BY <1>4, Fun_IsInj
<1>6. IsFiniteSet(T) /\ Cardinality(T) = n
  <2>1. IsFiniteSet(0..n - 1) /\ Cardinality(0..n - 1) = IF 0 > n - 1 THEN 0 ELSE n - 1 - 0 + 1
    BY FS_Interval
  <2>. QED  BY <1>2, <2>1
<1>7. F \in Surjection(S, T)
  BY <1>1, <1>5, <1>6, FS_Injection
<1>8. \A r \in T : \E j \in S : F[j] = r
  BY <1>7, Fun_SurjectionProperties
<1>. QED  BY <1>1, <1>2, <1>3, <1>8

(* The queue that is linked anew has the cases of the old one, in order.   *)
RankIn(f, j) == Rank(Full(f), j)
LEMMA RelinkedIs ==
  ASSUME NEW f \in Fuzzers, file[f] \in [Ids -> File]
  PROVE  /\ Cardinality(Full(f)) \in 0..MaxCase + 1
         /\ Relinked(f) \in [Ids -> File]
         /\ \A i \in Ids : i >= Cardinality(Full(f)) => Relinked(f)[i] = Absent
         /\ \A i \in Ids : i < Cardinality(Full(f)) =>
              \E j \in Full(f) : RankIn(f, j) = i /\ Relinked(f)[i] = file[f][j]
         /\ \A j \in Full(f) : RankIn(f, j) \in Ids /\ Relinked(f)[RankIn(f, j)] = file[f][j]
<1>1. Full(f) \in SUBSET Ids
  BY DEF Full
<1>2. /\ Cardinality(Full(f)) \in 0..MaxCase + 1
      /\ \A j \in Full(f) : RankIn(f, j) \in 0..Cardinality(Full(f)) - 1
      /\ \A i, j \in Full(f) : RankIn(f, i) = RankIn(f, j) => i = j
      /\ \A r \in 0..Cardinality(Full(f)) - 1 : \E j \in Full(f) : RankIn(f, j) = r
  BY <1>1, RankBounded, RankOnto DEF RankIn
<1>3. \A i \in Ids : i \in Nat
  BY TheSets
<1>4. ASSUME NEW i \in Ids, i < Cardinality(Full(f))
      PROVE  \E j \in Full(f) : RankIn(f, j) = i /\ Relinked(f)[i] = file[f][j]
  <2> DEFINE At == CHOOSE j \in Full(f) : RankIn(f, j) = i
  <2>1. \E j \in Full(f) : RankIn(f, j) = i
    BY <1>2, <1>3, <1>4
  <2>2. At \in Full(f) /\ RankIn(f, At) = i
    BY <2>1
  <2>3. Relinked(f)[i] = file[f][At]
    BY <1>2, <1>3, <1>4 DEF Relinked, RankIn, Rank, Before
  <2>. QED  BY <2>2, <2>3
<1>5. \A i \in Ids : i >= Cardinality(Full(f)) => Relinked(f)[i] = Absent
  BY DEF Relinked
<1>6. Relinked(f) \in [Ids -> File]
  <2>1. \A i \in Ids : Relinked(f)[i] \in File
    <3>1. ASSUME NEW i \in Ids PROVE Relinked(f)[i] \in File
      <4>1. i >= Cardinality(Full(f)) \/ i < Cardinality(Full(f))
        BY <1>2, <1>3
      <4>. QED  BY <1>1, <1>4, <1>5, <4>1, TheSets
    <3>. QED  BY <3>1
  <2>. QED  BY <2>1 DEF Relinked
<1>7. ASSUME NEW j \in Full(f) PROVE RankIn(f, j) \in Ids /\ Relinked(f)[RankIn(f, j)] = file[f][j]
  <2>1. RankIn(f, j) \in Ids /\ RankIn(f, j) < Cardinality(Full(f))
    BY <1>2, TheSets
  <2>. QED  BY <1>2, <1>4, <2>1
<1>. QED  BY <1>2, <1>4, <1>5, <1>6, <1>7

LEMMA ResumeOK == ASSUME IInv, NEW f \in Fuzzers, Resume(f) PROVE IInv'
<1> USE TheSets
<1> DEFINE n == Cardinality(Full(f))
           ids == {i \in Ids : file[f][i].case = None \/ file[f][i] # Relinked(f)[i]}
<1>1. /\ phase[f] = "moved" /\ Goto(f, "fuzz") /\ file' = [file EXCEPT ![f] = Relinked(f)]
      /\ known' = [known EXCEPT ![f] = CasesOf(f)] /\ queued' = [queued EXCEPT ![f] = n]
      /\ Renumbered(f, ids, excused[f])
      /\ UNCHANGED <<saving, synced, kills>>
  BY DEF Resume, Ready
<1>2. Alone(f) /\ file[f] \in [Ids -> File]
  BY DEF IInv, TypeOK
<1>3. /\ n \in 0..MaxCase + 1 /\ Relinked(f) \in [Ids -> File]
      /\ \A i \in Ids : i >= n => Relinked(f)[i] = Absent
      /\ \A i \in Ids : i < n => \E j \in Full(f) : RankIn(f, j) = i /\ Relinked(f)[i] = file[f][j]
      /\ \A j \in Full(f) : RankIn(f, j) \in Ids /\ Relinked(f)[RankIn(f, j)] = file[f][j]
  BY <1>2, RelinkedIs
<1>4. CasesOf(f) \subseteq Cases
  BY DEF CasesOf
<1>5. /\ ScansTorn(f, ids) /\ excused' \in [Fuzzers -> SUBSET (Fuzzers \X Ids)] /\ excused'[f] = excused[f]
      /\ \A g \in Fuzzers \ {f} : excused'[g] = excused[g] \cup Stale(f, g, ids)
  <2>1. ids \in SUBSET Ids /\ excused[f] \in SUBSET (Fuzzers \X Ids)
    BY DEF IInv, TypeOK
  <2>2. PICK moved, own : moved = ids /\ own = excused[f]
    OBVIOUS
  <2>3. moved \in SUBSET Ids /\ own \in SUBSET (Fuzzers \X Ids) /\ Renumbered(f, moved, own)
    BY <1>1, <2>1, <2>2
  <2>4. /\ ScansTorn(f, moved) /\ excused' \in [Fuzzers -> SUBSET (Fuzzers \X Ids)] /\ excused'[f] = own
        /\ \A g \in Fuzzers \ {f} : excused'[g] = excused[g] \cup Stale(f, g, moved)
    BY <2>3, RenumberedTears
  <2> HIDE DEF ids
  <2>. QED  BY <2>2, <2>4
<1>6. /\ phase'[f] = "fuzz" /\ file'[f] = Relinked(f) /\ known'[f] = CasesOf(f) /\ queued'[f] = n
      /\ \A g \in Fuzzers \ {f} : /\ phase'[g] = phase[g] /\ known'[g] = known[g] /\ queued'[g] = queued[g]
                                  /\ file'[g] = file[g]
  BY <1>1 DEF Goto, IInv, TypeOK
<1>7. TypeOK'
  <2> HIDE DEF n, ids
  <2>. QED  BY <1>1, <1>3, <1>4, <1>5 DEF Goto, IInv, TypeOK, Phases, ScansTorn
<1>8. CasesOf(f)' = CasesOf(f)
  <2>1. ASSUME NEW i \in Ids, Relinked(f)[i].case \in Cases
        PROVE  \E j \in Ids : file[f][j].case = Relinked(f)[i].case
    <3>1. i < n
      BY <1>3, <2>1
    <3>. QED  BY <1>3, <3>1 DEF Full
  <2>2. ASSUME NEW j \in Ids, file[f][j].case \in Cases
        PROVE  \E i \in Ids : Relinked(f)[i].case = file[f][j].case
    BY <1>3, <2>2 DEF Full
  <2> HIDE DEF n, ids
  <2>. QED  BY <1>6, <2>1, <2>2 DEF CasesOf
<1>9. Complete(f)' = n /\ Up(f)'
  BY <1>6 DEF Complete, Up
<1>10. Alone(f)'
  <2> HIDE DEF n, ids
  <2>1. scan[f] = NoScan /\ scan'[f] = scan[f] /\ synced[f][f] = 0 /\ saving[f] = None
    BY <1>1, <1>2, <1>5 DEF Alone, ScanOK, SavingOK, ScansTorn
  <2>2. ScanOK(f)' /\ SavingOK(f)'
    BY <1>1, <1>6, <1>8, <2>1 DEF ScanOK, SavingOK
  <2>3. FilesOK(f)'
    <3>1. ASSUME NEW i \in Ids, i < n PROVE Relinked(f)[i].case \in Cases
      BY <1>3, <3>1 DEF Full
    <3>2. \A i \in Ids : i >= n => ~(i < n)
      BY <1>3
    <3>. QED  BY <1>3, <1>6, <1>9, <3>1, <3>2 DEF FilesOK
  <2>4. NoTwice(f)'
    <3>1. ASSUME NEW i \in Ids, NEW j \in Ids, Relinked(f)[i].case = Relinked(f)[j].case,
                 Relinked(f)[i].case \in Cases
          PROVE  i = j
      <4>1. i < n /\ j < n
        BY <1>3, <3>1
      <4>2. PICK k \in Full(f) : RankIn(f, k) = i /\ Relinked(f)[i] = file[f][k]
        BY <1>3, <4>1
      <4>3. PICK l \in Full(f) : RankIn(f, l) = j /\ Relinked(f)[j] = file[f][l]
        BY <1>3, <4>1
      <4>4. k = l
        BY <1>2, <3>1, <4>2, <4>3 DEF Alone, NoTwice, Full
      <4>. QED  BY <4>2, <4>3, <4>4
    <3>. QED  BY <1>6, <3>1 DEF NoTwice
  <2>. QED  BY <2>2, <2>3, <2>4 DEF Alone
<1>11. ASSUME NEW g \in Fuzzers \ {f} PROVE Alone(g)'
  <2>1. ids \in SUBSET Ids
    OBVIOUS
  <2> HIDE DEF ids
  <2>. QED  BY <1>1, <1>5, <1>6, <2>1, OthersKept
<1>12. ASSUME NEW h \in Fuzzers \ {f}, NEW g \in Fuzzers PROVE Pair(h, g)'
  <2>1. ids \in SUBSET Ids /\ \A i \in Ids \ ids : file'[f][i] = file[f][i]
    BY <1>6
  <2>2. NotYet(f)' \subseteq ids
    <3>1. ASSUME NEW i \in Ids, i >= n PROVE file[f][i].case = None \/ file[f][i] # Relinked(f)[i]
      BY <1>3, <3>1
    <3>. QED  BY <1>9, <3>1 DEF NotYet
  <2> HIDE DEF ids
  <2>. QED  BY <1>1, <1>5, <1>6, <2>1, <2>2, RenumberedKeeps
<1>13. ASSUME NEW g \in Fuzzers PROVE Pair(f, g)'
  <2> HIDE DEF ids, n
  <2>1. Pair(f, g) /\ synced[f][f] = 0 /\ scan'[f].dir = None
    BY <1>1, <1>2, <1>5 DEF IInv, Alone, ScanOK, ScansTorn
  <2>2. CASE g = f
    <3>1. \A i \in Ids : ~(i < synced'[f][f])
      BY <1>1, <2>1
    <3>. QED  BY <2>1, <2>2, <3>1 DEF Pair, Ahead, RunIsKnown, Marks, NotYet
  <2>3. CASE g # f
    <3>1. Up(g)' => Up(g) /\ NotYet(g)' \subseteq NotYet(g)
      BY <1>6, <2>3 DEF Up, NotYet, Complete
    <3>2. \A i \in Ids : file'[g][i].case = file[g][i].case
      BY <1>6, <2>3
    <3>. QED  BY <1>1, <1>5, <1>8, <2>1, <3>1, <3>2, PairKept
  <2>. QED  BY <2>2, <2>3
<1>. QED  BY <1>7, <1>10, <1>11, <1>12, <1>13 DEF IInv

LEMMA StartOverOK == ASSUME IInv, NEW f \in Fuzzers, StartOver(f) PROVE IInv'
<1> USE TheSets
<1>1. /\ phase[f] \in {"down", "moved"} /\ Goto(f, "fuzz") /\ file' = [file EXCEPT ![f] = SeedQueue]
      /\ synced' = [synced EXCEPT ![f] = FreshMarks(f)]
      /\ known' = [known EXCEPT ![f] = {Seed}] /\ queued' = [queued EXCEPT ![f] = 1]
      /\ Renumbered(f, Ids, {})
      /\ UNCHANGED <<saving, kills>>
  BY DEF StartOver, Ready
<1>2. Alone(f) /\ file[f] \in [Ids -> File]
  BY DEF IInv, TypeOK
<1>3. /\ SeedQueue \in [Ids -> File] /\ \A i \in Ids : SeedQueue[i] = IF i = 0 THEN Holding(Seed) ELSE Absent
      /\ FreshMarks(f) \in [Fuzzers -> 0..MaxCase + 1] /\ \A g \in Fuzzers : FreshMarks(f)[g] = 0
      /\ 0 \in Ids /\ \A i \in Ids : (i < 1 <=> i = 0) /\ (i >= 1 <=> i # 0)
  BY DEF SeedQueue, FreshMarks
<1>4. /\ ScansTorn(f, Ids) /\ excused' \in [Fuzzers -> SUBSET (Fuzzers \X Ids)]
      /\ \A g \in Fuzzers \ {f} : excused'[g] = excused[g] \cup Stale(f, g, Ids)
  <2>1. PICK own \in SUBSET (Fuzzers \X Ids) : own = {}
    OBVIOUS
  <2>. QED  BY <1>1, <2>1, RenumberedTears
<1>5. /\ phase'[f] = "fuzz" /\ file'[f] = SeedQueue /\ known'[f] = {Seed} /\ queued'[f] = 1
      /\ synced'[f] = FreshMarks(f)
      /\ \A g \in Fuzzers \ {f} : /\ phase'[g] = phase[g] /\ known'[g] = known[g] /\ queued'[g] = queued[g]
                                  /\ file'[g] = file[g] /\ synced'[g] = synced[g]
  BY <1>1 DEF Goto, IInv, TypeOK
<1>6. TypeOK'
  <2>1. 1 \in 0..MaxCase + 1
    BY SyncAssumption
  <2>2. /\ phase' \in [Fuzzers -> Phases] /\ known' \in [Fuzzers -> SUBSET Cases]
        /\ queued' \in [Fuzzers -> 0..MaxCase + 1] /\ saving' \in [Fuzzers -> Cases \cup {None}]
        /\ file' \in [Fuzzers -> [Ids -> File]] /\ kills' \in 0..MaxKills
        /\ synced' \in [Fuzzers -> [Fuzzers -> 0..MaxCase + 1]]
    BY <1>1, <1>3, <2>1 DEF Goto, IInv, TypeOK, Phases
  <2>. QED  BY <1>4, <2>2 DEF TypeOK, ScansTorn
<1>7. CasesOf(f)' = {Seed}
  BY <1>3, <1>5 DEF CasesOf, Seed
<1>8. Complete(f)' = 1 /\ Up(f)'
  BY <1>5 DEF Complete, Up
<1>9. scan[f] = NoScan /\ scan'[f] = scan[f] /\ saving[f] = None
  BY <1>1, <1>2, <1>4 DEF Alone, ScanOK, SavingOK, ScansTorn
<1>10. Alone(f)'
  <2>1. ScanOK(f)' /\ SavingOK(f)'
    <3>1. ScanOK(f)'
      BY <1>3, <1>5, <1>9 DEF ScanOK
    <3>2. SavingOK(f)'
      BY <1>1, <1>5, <1>7, <1>9 DEF SavingOK
    <3>. QED  BY <3>1, <3>2
  <2>2. FilesOK(f)'
    <3>1. ASSUME NEW i \in Ids, i < 1 PROVE file'[f][i].case \in Cases
      BY <1>3, <1>5, <3>1
    <3>2. ASSUME NEW i \in Ids, i >= 1 PROVE file'[f][i] = Absent /\ ~(i < 1)
      BY <1>3, <1>5, <3>2
    <3>. QED  BY <1>5, <1>8, <3>1, <3>2 DEF FilesOK
  <2>3. NoTwice(f)'
    BY <1>3, <1>5 DEF NoTwice
  <2>. QED  BY <2>1, <2>2, <2>3 DEF Alone
<1>11. ASSUME NEW g \in Fuzzers \ {f} PROVE Alone(g)'
  BY <1>1, <1>4, <1>5, OthersKept
<1>12. ASSUME NEW h \in Fuzzers \ {f}, NEW g \in Fuzzers PROVE Pair(h, g)'
  <2>1. NotYet(f)' \subseteq Ids /\ \A i \in Ids \ Ids : file'[f][i] = file[f][i]
    BY DEF NotYet
  <2>2. PICK ids \in SUBSET Ids : ids = Ids
    OBVIOUS
  <2>. QED  BY <1>4, <1>5, <2>1, <2>2, RenumberedKeeps
<1>13. ASSUME NEW g \in Fuzzers PROVE Pair(f, g)'
  <2>1. scan'[f].dir # g /\ \A i \in Ids : ~(i < synced'[f][g])
    BY <1>3, <1>5, <1>9
  <2>. QED  BY <2>1 DEF Pair, Ahead, RunIsKnown, Marks, NotYet
<1>. QED  BY <1>6, <1>10, <1>11, <1>12, <1>13 DEF IInv

-----------------------------------------------------------------------------
LEMMA NextOK == IInv /\ [Next]_vars => IInv'
<1> SUFFICES ASSUME IInv, [Next]_vars PROVE IInv'
  OBVIOUS
<1>1. CASE UNCHANGED vars
  BY <1>1 DEF vars, disk, IInv, TypeOK, Alone, ScanOK, SavingOK, FilesOK, NoTwice, Complete, NotYet, Up,
     CasesOf, Pair, Ahead, RunIsKnown, Marks
<1>2. ASSUME NEW f \in Fuzzers, NEW c \in Cases, Find(f, c) PROVE IInv'
  BY <1>2, FindOK
<1>3. ASSUME NEW f \in Fuzzers, NEW g \in Fuzzers, StartScan(f, g) PROVE IInv'
  BY <1>3, StartScanOK
<1>4. ASSUME NEW f \in Fuzzers, Syncs(f) PROVE IInv'
  BY <1>4, WriteOK, TakeOK, PassOverOK, RunBoringOK, ImportOK, EndScanOK DEF Syncs
<1>5. ASSUME NEW f \in Fuzzers, Kill(f) \/ KillTrimming(f) PROVE IInv'
  BY <1>5, KillOK, KillTrimmingOK
<1>6. ASSUME NEW f \in Fuzzers, Move(f) \/ Resume(f) \/ StartOver(f) PROVE IInv'
  BY <1>6, MoveOK, ResumeOK, StartOverOK
<1>. QED  BY <1>1, <1>2, <1>3, <1>4, <1>5, <1>6 DEF Next

LEMMA InvHolds == Spec => []IInv
<1>. QED  BY InitOK, NextOK, PTL DEF Spec

(* The variables of every instance keep their types, and no queue outgrows *)
(* the cases there are.                                                    *)
THEOREM TypeCorrect == Spec => []TypeOK
<1>1. IInv => TypeOK
  BY DEF IInv
<1>. QED  BY <1>1, InvHolds, PTL

(* The numbers of a queue have no gap, only its newest file can be empty,  *)
(* and the name of the next one is free, whatever was killed when.         *)
THEOREM QueueDenseHolds == Spec => []QueueDense
<1>1. IInv => QueueDense
  <2> SUFFICES ASSUME IInv, NEW f \in Fuzzers, Up(f)
               PROVE  /\ \A i, j \in Ids : i < j /\ file[f][j] # Absent => file[f][i].case \in Cases
                      /\ queued[f] \in Ids => file[f][queued[f]] = Absent
    BY DEF QueueDense
  <2> USE TheSets
  <2>1. PICK q \in 0..MaxCase + 1 : q = queued[f]
    BY DEF IInv, TypeOK
  <2>2. FilesOK(f) /\ (phase[f] = "write" => q > 0)
    BY <2>1 DEF IInv, Alone, SavingOK
  <2>3. PICK n \in 0..q : n = Complete(f) /\ (n = q \/ n = q - 1)
    BY <2>1, <2>2 DEF Complete
  <2>4. /\ \A i \in Ids : i < n => file[f][i].case \in Cases
        /\ \A i \in Ids : i >= q => file[f][i] = Absent
    <3>1. \A i \in Ids : i >= q => i >= n /\ ~(i < q)
      BY <2>1, <2>3
    <3>. QED  BY <2>1, <2>2, <2>3, <3>1 DEF FilesOK
  <2>5. ASSUME NEW i \in Ids, NEW j \in Ids, i < j, file[f][j] # Absent PROVE file[f][i].case \in Cases
    <3>1. j < q
      BY <2>1, <2>4, <2>5
    <3>2. i < n
      BY <2>1, <2>3, <2>5, <3>1
    <3>. QED  BY <2>4, <3>2
  <2>. QED  BY <2>1, <2>4, <2>5
<1>. QED  BY <1>1, InvHolds, PTL

(* No queue has a case twice, whoever found it first and whatever was      *)
(* killed in the middle of saving it or of scanning for it.                *)
THEOREM SavedOnceHolds == Spec => []SavedOnce
<1>1. IInv => SavedOnce
  BY DEF IInv, Alone, NoTwice, SavedOnce
<1>. QED  BY <1>1, InvHolds, PTL

(* What is below a mark is in the own queue, on disk, unless it was passed *)
(* over: also after the other directory was renumbered or started anew.    *)
THEOREM MarkedIsSavedHolds == Spec => []MarkedIsSaved
<1>1. IInv => MarkedIsSaved
  BY DEF IInv, Pair, Marks, MarkedIsSaved
<1>. QED  BY <1>1, InvHolds, PTL

=============================================================================
