------------------------------- MODULE Sync --------------------------------
(***************************************************************************)
(* afl-fuzz instances that share a sync directory (-M, -S).  Each writes   *)
(* the test cases it saves to its own queue directory and now and then     *)
(* scans the queue directories of the others: a case it has not looked at  *)
(* is run, and saved when it is interesting.  How far it has looked is a   *)
(* number in .synced/<other>.                                              *)
(*                                                                         *)
(* A case stands for the coverage it alone adds: it is interesting to an   *)
(* instance that does not know it.  Cases nobody has are alike, so that    *)
(* the lowest of them is what an instance discovers.  Directories outlive  *)
(* the process, which may be killed at any point and come back with "-i -" *)
(* (its queue renamed to _resume and linked anew) or start over from its   *)
(* input directory.                                                        *)
(***************************************************************************)
EXTENDS Naturals, FiniteSets

CONSTANTS
  Fuzzers,
  MaxCase,      \* bound on the cases there are to find
  None,
  Mortal,       \* the instances that may be killed
  MaxKills      \* bound on the kills, of all instances

ASSUME SyncAssumption ==
  Mortal \subseteq Fuzzers /\ MaxCase \in Nat /\ None \notin 0..MaxCase \cup Fuzzers /\ MaxKills \in Nat

Cases == 0..MaxCase
Seed == 0                          \* the case in everybody's input directory
Ids == 0..MaxCase
Absent == [written |-> FALSE, case |-> None]     \* no such file
File == [written : BOOLEAN, case : Cases \cup {None}]
Empty == [written |-> TRUE, case |-> None]       \* created, nothing in it yet
Holding(c) == [written |-> TRUE, case |-> c]

VARIABLES
  phase,        \* of each instance, see Phases
  known,        \* what its virgin_bits lacks, in cases
  queued,       \* queued_paths
  saving,       \* the case save_if_interesting is about to write
  scan,         \* the locals of sync_fuzzers
  file,         \* the files of its queue directory, by id
  synced,       \* .synced/<other>
  kills,        \* so far
  excused       \* history: <<other, id>> that were passed over, see EndScan

disk == <<file, synced>>
vars == <<phase, known, queued, saving, scan, disk, kills, excused>>

(* "moved": the queue directory is at _resume, and nothing is at queue.    *)
Phases == {"fuzz", "write", "scan", "open", "down", "moved"}
Up(f) == phase[f] \notin {"down", "moved"}

NoScan == [dir |-> None, min |-> 0, next |-> 0, listed |-> {}, seen |-> {}, whole |-> TRUE,
           id |-> 0, done |-> {}]

SeedQueue == [i \in Ids |-> IF i = 0 THEN Holding(Seed) ELSE Absent]

Init ==
  /\ phase = [f \in Fuzzers |-> "fuzz"] /\ known = [f \in Fuzzers |-> {Seed}]
  /\ queued = [f \in Fuzzers |-> 1] /\ saving = [f \in Fuzzers |-> None]
  /\ scan = [f \in Fuzzers |-> NoScan]
  /\ file = [f \in Fuzzers |-> SeedQueue]
  /\ synced = [f \in Fuzzers |-> [g \in Fuzzers |-> 0]]
  /\ kills = 0 /\ excused = [f \in Fuzzers |-> {}]

Ready(f, p) == phase[f] = p
Goto(f, p) == phase' = [phase EXCEPT ![f] = p]
Visible(g) == {i \in Ids : file[g][i] # Absent}
CasesOf(f) == {c \in Cases : \E i \in Ids : file[f][i].case = c}

-----------------------------------------------------------------------------
(* save_if_interesting: into the queue and calibrated, then the file is    *)
(* created, then written.  Nobody else sees the queue in memory, and it is *)
(* gone with the process: the file appears in the same step.               *)
LearnedNothing(f, c) == known[f]               \* a fault: virgin_bits stay as they are
Learned(f, c) == known[f] \cup {c}

Create(f, c) ==
  /\ Goto(f, "write") /\ saving' = [saving EXCEPT ![f] = c]
  /\ known' = [known EXCEPT ![f] = Learned(f, c)] /\ queued' = [queued EXCEPT ![f] = @ + 1]
  /\ file' = [file EXCEPT ![f][queued[f]] = Empty]

Had(c) == \E f \in Fuzzers : c \in known[f] \cup CasesOf(f)

Find(f, c) ==
  /\ Ready(f, "fuzz") /\ c \notin known[f]
  /\ Had(c) \/ \A d \in 0..c - 1 : Had(d)
  /\ Create(f, c)
  /\ UNCHANGED <<scan, synced, kills, excused>>

(* Called from fuzz_one or from sync_fuzzers, which goes on.               *)
Write(f) ==
  /\ Ready(f, "write") /\ Goto(f, IF scan[f] = NoScan THEN "fuzz" ELSE "scan")
  /\ file' = [file EXCEPT ![f][queued[f] - 1] = Holding(saving[f])]
  /\ saving' = [saving EXCEPT ![f] = None]
  /\ UNCHANGED <<known, queued, scan, synced, kills, excused>>

-----------------------------------------------------------------------------
(* sync_fuzzers, for one of the other directories.                         *)
StartScan(f, g) ==
  /\ Ready(f, "fuzz") /\ g # f /\ phase[g] # "moved"
  /\ Goto(f, "scan")
  /\ scan' = [scan EXCEPT ![f] = [NoScan EXCEPT !.dir = g, !.min = synced[f][g],
                                                !.next = synced[f][g], !.listed = Visible(g)]]
  /\ UNCHANGED <<known, queued, saving, disk, kills, excused>>

(* readdir returns each file that was there at opendir, and a later one or *)
(* not; of a directory that was moved away it may return what it held.     *)
Listed(f) == (scan[f].listed \cup Visible(scan[f].dir)) \ scan[f].seen

IsNewer(f, i) == i > scan[f].min               \* a fault: <= for < min_accept
IsNew(f, i) == i >= scan[f].min

Take(f, i) ==
  /\ Ready(f, "scan") /\ i \in Listed(f) /\ IsNew(f, i)
  /\ Goto(f, "open")
  /\ scan' = [scan EXCEPT ![f].seen = @ \cup {i}, ![f].id = i,
                          ![f].next = IF i >= @ THEN i + 1 ELSE @]
  /\ UNCHANGED <<known, queued, saving, disk, kills, excused>>

Tried(f) == file[scan[f].dir][scan[f].id].case
Opens(f) == phase[scan[f].dir] # "moved" /\ Tried(f) \in Cases

(* The open fails, or the file is empty: also that of a case its owner has *)
(* trimmed and is writing anew, from fuzz_one.                             *)
Rewriting(f) == phase[scan[f].dir] = "fuzz"

PassOver(f) ==
  /\ Ready(f, "open") /\ (~Opens(f) \/ Rewriting(f))
  /\ Goto(f, "scan") /\ scan' = [scan EXCEPT ![f].id = 0]
  /\ UNCHANGED <<known, queued, saving, disk, kills, excused>>

Done(f) == scan' = [scan EXCEPT ![f].done = @ \cup {scan[f].id}, ![f].id = 0]

RunBoring(f) ==
  /\ Ready(f, "open") /\ Opens(f) /\ Tried(f) \in known[f]
  /\ Goto(f, "scan") /\ Done(f)
  /\ UNCHANGED <<known, queued, saving, disk, kills, excused>>

Import(f) ==
  /\ Ready(f, "open") /\ Opens(f) /\ Tried(f) \notin known[f]
  /\ Create(f, Tried(f)) /\ Done(f)
  /\ UNCHANGED <<synced, kills, excused>>

(* What the mark passes and the scan did not run is excused.               *)
Seen(f) == scan[f].whole => {i \in scan[f].listed : IsNew(f, i)} \subseteq scan[f].seen
PassedOver(f) == {i \in Ids : scan[f].min <= i /\ i < scan[f].next} \ scan[f].done

EndScan(f) ==
  /\ Ready(f, "scan") /\ Seen(f)
  /\ Goto(f, "fuzz")
  /\ synced' = [synced EXCEPT ![f][scan[f].dir] = scan[f].next]
  /\ excused' = [excused EXCEPT ![f] = @ \cup ({scan[f].dir} \X PassedOver(f))]
  /\ scan' = [scan EXCEPT ![f] = NoScan]
  /\ UNCHANGED <<known, queued, saving, file, kills>>

-----------------------------------------------------------------------------
(* Kill and restart.                                                       *)
MemoryLost(f) ==
  /\ f \in Mortal /\ Up(f) /\ kills < MaxKills /\ kills' = kills + 1
  /\ Goto(f, "down")
  /\ known' = [known EXCEPT ![f] = {}] /\ queued' = [queued EXCEPT ![f] = 0]
  /\ saving' = [saving EXCEPT ![f] = None] /\ scan' = [scan EXCEPT ![f] = NoScan]

Kill(f) == MemoryLost(f) /\ UNCHANGED <<disk, excused>>

(* trim_case unlinks the file before it creates and writes it anew: killed *)
(* in between, the case is gone.  It may not come back from an instance    *)
(* that has it below the mark.                                             *)
Full(f) == {i \in Ids : file[f][i].case \in Cases}
Marked(f, c) == {m \in Fuzzers \X Ids : m[2] < synced[f][m[1]] /\ file[m[1]][m[2]].case = c}

KillTrimming(f) ==
  /\ Ready(f, "fuzz") /\ MemoryLost(f)
  /\ \E i \in Full(f), left \in {Absent, Empty} :
       /\ file' = [file EXCEPT ![f][i] = left]
       /\ excused' = [excused EXCEPT ![f] = @ \cup Marked(f, file[f][i].case)]
  /\ UNCHANGED synced

(* Others that have the directory open may or may not go on listing it.    *)
Torn(g) == [f \in Fuzzers |-> IF scan[f].dir = g THEN [scan[f] EXCEPT !.whole = FALSE] ELSE scan[f]]

Move(f) ==
  /\ Ready(f, "down") /\ Goto(f, "moved") /\ scan' = Torn(f)
  /\ UNCHANGED <<known, queued, saving, disk, kills, excused>>

(* The marks and the scans of the others are for numbers that no longer    *)
(* mean the same cases: those in ids do not.                               *)
Stale(f, g, ids) == {f} \X {i \in ids : i < synced[g][f]}
Renumbered(f, ids, own) ==
  /\ scan' = [g \in Fuzzers |-> IF scan[g].dir = f THEN [Torn(f)[g] EXCEPT !.done = @ \ ids] ELSE scan[g]]
  /\ excused' = [g \in Fuzzers |-> IF g = f THEN own ELSE excused[g] \cup Stale(f, g, ids)]

(* read_testcases leaves the empty files out, and pivot_inputs numbers the *)
(* others from 0; the dry run learns them.                                 *)
RelinkedAsIs(f) == file[f]                     \* a fault: an empty file stays
Relinked(f) ==
  [i \in Ids |->
     IF i >= Cardinality(Full(f)) THEN Absent
     ELSE file[f][CHOOSE j \in Full(f) : Cardinality({k \in Full(f) : k < j}) = i]]

Resume(f) ==
  /\ Ready(f, "moved") /\ Full(f) # {} /\ Goto(f, "fuzz")
  /\ file' = [file EXCEPT ![f] = Relinked(f)]
  /\ known' = [known EXCEPT ![f] = CasesOf(f)]
  /\ queued' = [queued EXCEPT ![f] = Cardinality(Full(f))]
  /\ Renumbered(f, {i \in Ids : file[f][i].case = None \/ file[f][i] # Relinked(f)[i]}, excused[f])
  /\ UNCHANGED <<saving, synced, kills>>

(* Not in place: the queue and .synced are deleted.  The others' marks for *)
(* this instance stay, and so does what they are scanning.                 *)
KeptMarks(f) == synced[f]                      \* a fault: .synced is not deleted
FreshMarks(f) == [g \in Fuzzers |-> 0]

StartOver(f) ==
  /\ Ready(f, "down") \/ (Ready(f, "moved") /\ Full(f) = {})
  /\ Goto(f, "fuzz")
  /\ file' = [file EXCEPT ![f] = SeedQueue]
  /\ synced' = [synced EXCEPT ![f] = FreshMarks(f)]
  /\ known' = [known EXCEPT ![f] = {Seed}] /\ queued' = [queued EXCEPT ![f] = 1]
  /\ Renumbered(f, Ids, {})
  /\ UNCHANGED <<saving, kills>>

-----------------------------------------------------------------------------
Syncs(f) ==
  \/ Write(f)
  \/ \E i \in Ids : Take(f, i)
  \/ PassOver(f) \/ RunBoring(f) \/ Import(f) \/ EndScan(f)

Next ==
  \E f \in Fuzzers :
    \/ \E c \in Cases : Find(f, c)
    \/ \E g \in Fuzzers : StartScan(f, g)
    \/ Syncs(f)
    \/ Kill(f) \/ KillTrimming(f) \/ Move(f) \/ Resume(f) \/ StartOver(f)

Spec == Init /\ [][Next]_vars

(* The main loop calls sync_fuzzers again and again, which takes every     *)
(* directory in turn; an instance that is down may stay so, but one that   *)
(* has begun to resume goes on.                                            *)
Fairness ==
  \A f \in Fuzzers :
    /\ WF_vars(Syncs(f) \/ Resume(f))
    /\ \A g \in Fuzzers \ {f} : SF_vars(StartScan(f, g))

FairSpec == Spec /\ Fairness

-----------------------------------------------------------------------------
(* Properties. *)

Scan == [dir : Fuzzers \cup {None}, min : Nat, next : Nat, listed : SUBSET Ids, seen : SUBSET Ids,
         whole : BOOLEAN, id : Ids, done : SUBSET Ids]

TypeOK ==
  /\ phase \in [Fuzzers -> Phases] /\ known \in [Fuzzers -> SUBSET Cases]
  /\ queued \in [Fuzzers -> 0..MaxCase + 1]
  /\ saving \in [Fuzzers -> Cases \cup {None}]
  /\ scan \in [Fuzzers -> Scan] /\ file \in [Fuzzers -> [Ids -> File]]
  /\ synced \in [Fuzzers -> [Fuzzers -> 0..MaxCase + 1]] /\ kills \in 0..MaxKills
  /\ excused \in [Fuzzers -> SUBSET (Fuzzers \X Ids)]

(* The files of the queue of an instance that runs are numbered without a  *)
(* gap, only the newest can be empty, and the name of the next one is free *)
(* (it is opened O_EXCL, and a name that is taken ends the session), also  *)
(* after a kill between the creation and the writing of a file.            *)
QueueDense ==
  \A f \in Fuzzers : Up(f) =>
    /\ \A i, j \in Ids : i < j /\ file[f][j] # Absent => file[f][i].case \in Cases
    /\ queued[f] \in Ids => file[f][queued[f]] = Absent

(* Instances do not hand a case back and forth: a queue has it once, also  *)
(* after kills in the middle of saving or of a scan.                       *)
SavedOnce ==
  \A f \in Fuzzers : \A i, j \in Ids : file[f][i] = file[f][j] /\ file[f][i].case \in Cases => i = j

(* Below the mark is what is in the own queue, on disk, unless the scan    *)
(* passed it over: a kill between saving and marking loses nothing.        *)
MarkedIsSaved ==
  \A f, g \in Fuzzers : \A i \in Ids :
    i < synced[f][g] /\ <<g, i>> \notin excused[f] /\ file[g][i].case \in Cases =>
      file[g][i].case \in CasesOf(f)

(* Once the kills stop, what an instance has in its queue gets to every    *)
(* other one that runs, unless its scan passed it over.                    *)
HasAll(f, g) ==
  \A i \in Ids : file[g][i].case \in Cases /\ <<g, i>> \notin excused[f] => file[g][i].case \in known[f]
Shared == <>[](\A f, g \in Fuzzers : Up(f) /\ Up(g) => HasAll(f, g))
=============================================================================
