------------------------------- MODULE OutDir -------------------------------
(***************************************************************************)
(* The output directory of one afl-fuzz instance through its sessions: a   *)
(* session may be killed after any step, and the next one starts over from *)
(* the input directory or resumes in place ("-i -").  To resume, queue/ is *)
(* renamed to _resume/, its cases are linked into a new queue/, and        *)
(* _resume/ is deleted.  The output directory itself is there from the     *)
(* start, with nothing in it.                                              *)
(*                                                                         *)
(* The lock on the directory lets one session run at a time.  A case that  *)
(* trimming has shortened is the same case, and a write is done or not.    *)
(***************************************************************************)
EXTENDS Naturals, FiniteSets

CONSTANTS
  MaxCase,          \* bound on the cases there are to find
  Inputs,           \* how many of them are in the input directory
  Absent, Empty     \* no such file, a file with nothing in it

Cases == 0..MaxCase
Ids   == 0..MaxCase

ASSUME OutDirAssumption ==
  MaxCase \in Nat /\ Inputs \in 1..MaxCase + 1 /\ Absent \notin Cases /\ Empty \notin Cases /\ Absent # Empty

(* A directory of cases: its files by number, the numbers with a mark in   *)
(* .state/deterministic_done, and whether there is a .state at all.        *)
Dir(files, marks, has_state) == [exists |-> TRUE, file |-> files, det |-> marks, state |-> has_state]
Dirs == [exists : BOOLEAN, file : [Ids -> Cases \cup {Absent, Empty}], det : SUBSET Ids, state : BOOLEAN]

NoFiles == [i \in Ids |-> Absent]
NoDir   == [exists |-> FALSE, file |-> NoFiles, det |-> {}, state |-> FALSE]
InDir   == Dir([i \in Ids |-> IF i < Inputs THEN i ELSE Absent], {}, FALSE)

There(d)   == {i \in Ids : d.file[i] # Absent}
Full(d)    == {i \in Ids : d.file[i] \in Cases}
CasesOf(d) == {d.file[i] : i \in Full(d)}
DoneIn(d)  == {d.file[i] : i \in Full(d) \cap d.det}
Bare(d)    == There(d) = {} /\ d.det = {} /\ ~d.state

VARIABLES
  pc,               \* where the session stands, see Places
  in_place_resume,
  queue, resume,    \* the directories queue and _resume
  stats,            \* fuzzer_stats: how long the session was that wrote it
  todo,             \* files of the input that are not linked yet
  queued,           \* queued_paths, as far as they are linked
  slot, saving,     \* the file being written, and its case
  stake, done       \* history: the cases saved since the user last started over,
                    \* and those of them whose deterministic stages are done

memory == <<todo, queued, slot, saving>>
vars == <<pc, in_place_resume, queue, resume, stats, memory, stake, done>>

Places == {"down", "rename", "clear", "read", "link", "nuke", "dry_run", "fuzz", "create", "write"}

Init ==
  /\ pc = "down" /\ in_place_resume = FALSE /\ queue = NoDir /\ resume = NoDir /\ stats = "none"
  /\ todo = {} /\ queued = 0 /\ slot = 0 /\ saving = Absent
  /\ stake = {} /\ done = {}

Step(from, to) == pc = from /\ pc' = to

-----------------------------------------------------------------------------
(* Not in place, maybe_delete_out_dir refuses when the last session was    *)
(* long; otherwise what there was is given up.                             *)
Start(in_place) ==
  /\ Step("down", IF in_place THEN "rename" ELSE "clear") /\ (in_place \/ stats # "long")
  /\ in_place_resume' = in_place
  /\ stake' = (IF in_place THEN stake ELSE {}) /\ done' = (IF in_place THEN done ELSE {})
  /\ UNCHANGED <<queue, resume, stats, memory>>

(* A kill, or an input without a usable case.                              *)
MemoryLost ==
  /\ pc' = "down" /\ todo' = {} /\ queued' = 0 /\ slot' = 0 /\ saving' = Absent
  /\ UNCHANGED <<in_place_resume, queue, resume, stats, stake, done>>

Killed == pc # "down" /\ MemoryLost

(* rename fails, silently, over a directory that is not empty.             *)
RenamesOver == queue.exists                     \* a fault: the old _resume is replaced
Renames == queue.exists /\ Bare(resume)

Rename ==
  /\ Step("rename", "clear")
  /\ IF Renames THEN resume' = queue /\ queue' = NoDir ELSE UNCHANGED <<queue, resume>>
  /\ UNCHANGED <<in_place_resume, stats, memory, stake, done>>

(* One deletion: first the marks, then .state, then the cases, then the    *)
(* directory itself.                                                       *)
Deletes(d, e) ==
  \/ \E i \in d.det : e = Dir(d.file, d.det \ {i}, d.state)
  \/ d.det = {} /\ d.state /\ e = Dir(d.file, {}, FALSE)
  \/ d.det = {} /\ ~d.state /\ \E i \in There(d) : e = Dir([d.file EXCEPT ![i] = Absent], {}, FALSE)
  \/ Bare(d) /\ e = NoDir

ClearQueue ==
  /\ pc = "clear" /\ queue.exists /\ Deletes(queue, queue')
  /\ UNCHANGED <<pc, in_place_resume, resume, stats, memory, stake, done>>

(* The finishing touches of the clean-up, then setup_dirs_fds.             *)
MakeDirs ==
  /\ Step("clear", "read") /\ ~queue.exists
  /\ queue' = Dir(NoFiles, {}, TRUE)
  /\ stats' = IF in_place_resume THEN stats ELSE "none"
  /\ UNCHANGED <<in_place_resume, resume, memory, stake, done>>

(* read_testcases, which leaves empty files out.                           *)
Source == IF in_place_resume THEN resume ELSE InDir

ReadTestcases ==
  /\ Step("read", "link") /\ Full(Source) # {}
  /\ todo' = Full(Source) /\ queued' = 0
  /\ UNCHANGED <<in_place_resume, queue, resume, stats, slot, saving, stake, done>>

NoTestcases == pc = "read" /\ Full(Source) = {} /\ MemoryLost

(* pivot_inputs: the cases are linked in the order of their numbers, and a *)
(* mark carries over.                                                      *)
ComesLast(i) == \A j \in todo : j <= i         \* a fault: sorted the other way
ComesNext(i) == \A j \in todo : i <= j

Link(i) ==
  /\ pc = "link" /\ i \in todo /\ ComesNext(i)
  /\ queue' = Dir([queue.file EXCEPT ![queued] = Source.file[i]],
                  queue.det \cup (IF i \in Source.det THEN {queued} ELSE {}), TRUE)
  /\ todo' = todo \ {i} /\ queued' = queued + 1
  /\ UNCHANGED <<pc, in_place_resume, resume, stats, slot, saving, stake, done>>

Pivoted ==
  /\ Step("link", IF in_place_resume THEN "nuke" ELSE "dry_run") /\ todo = {}
  /\ UNCHANGED <<in_place_resume, queue, resume, stats, memory, stake, done>>

(* nuke_resume_dir                                                         *)
Nuke ==
  /\ pc = "nuke" /\ resume.exists /\ Deletes(resume, resume')
  /\ UNCHANGED <<pc, in_place_resume, queue, stats, memory, stake, done>>

Nuked ==
  /\ Step("nuke", "dry_run") /\ ~resume.exists
  /\ UNCHANGED <<in_place_resume, queue, resume, stats, memory, stake, done>>

(* perform_dry_run, then the first write_stats_file of this session.       *)
DryRun ==
  /\ Step("dry_run", "fuzz")
  /\ stats' = "short" /\ stake' = stake \cup CasesOf(queue)
  /\ UNCHANGED <<in_place_resume, queue, resume, memory, done>>

-----------------------------------------------------------------------------
(* Fuzzing: cases are saved, trimmed and marked, and time passes.          *)
WithFile(i, f) == Dir([queue.file EXCEPT ![i] = f], queue.det, TRUE)

NumberAfter == queued + 1                      \* a fault: taken after add_to_queue
Number == queued
Any(c) == TRUE                                 \* a fault: known cases are saved again
IsNew(c) == c \notin CasesOf(queue)

Save(c) ==
  /\ Step("fuzz", "write") /\ IsNew(c)
  /\ queue' = WithFile(Number, Empty) /\ slot' = Number /\ saving' = c
  /\ queued' = queued + 1
  /\ UNCHANGED <<in_place_resume, resume, stats, todo, stake, done>>

TrimUnlink(i) ==
  /\ Step("fuzz", "create") /\ i \in Full(queue)
  /\ queue' = WithFile(i, Absent) /\ slot' = i /\ saving' = queue.file[i]
  /\ UNCHANGED <<in_place_resume, resume, stats, todo, queued, stake, done>>

TrimCreate ==
  /\ Step("create", "write")
  /\ queue' = WithFile(slot, Empty)
  /\ UNCHANGED <<in_place_resume, resume, stats, memory, stake, done>>

Write ==
  /\ Step("write", "fuzz")
  /\ queue' = WithFile(slot, saving) /\ stake' = stake \cup {saving}
  /\ slot' = 0 /\ saving' = Absent
  /\ UNCHANGED <<in_place_resume, resume, stats, todo, queued, done>>

MarkDone(i) ==
  /\ pc = "fuzz" /\ i \in Full(queue) \ queue.det
  /\ queue' = Dir(queue.file, queue.det \cup {i}, TRUE) /\ done' = done \cup {queue.file[i]}
  /\ UNCHANGED <<pc, in_place_resume, resume, stats, memory, stake>>

LongSession ==
  /\ pc = "fuzz" /\ stats' = "long"
  /\ UNCHANGED <<pc, in_place_resume, queue, resume, memory, stake, done>>

-----------------------------------------------------------------------------
Next ==
  \/ \E in_place \in BOOLEAN : Start(in_place)
  \/ Killed \/ Rename \/ ClearQueue \/ MakeDirs \/ ReadTestcases \/ NoTestcases
  \/ \E i \in Ids : Link(i) \/ TrimUnlink(i) \/ MarkDone(i)
  \/ Pivoted \/ Nuke \/ Nuked \/ DryRun
  \/ \E c \in Cases : Save(c)
  \/ TrimCreate \/ Write \/ LongSession

Spec == Init /\ [][Next]_vars
-----------------------------------------------------------------------------
(* Properties. *)

TypeOK ==
  /\ pc \in Places /\ in_place_resume \in BOOLEAN /\ stats \in {"none", "short", "long"}
  /\ queue \in Dirs /\ resume \in Dirs /\ (~queue.exists => queue = NoDir) /\ (~resume.exists => resume = NoDir)
  /\ todo \subseteq Ids /\ queued \in 0..MaxCase + 1 /\ slot \in Ids
  /\ saving \in Cases \cup {Absent} /\ stake \subseteq Cases /\ done \subseteq stake

(* While the instance fuzzes, the files of its queue are those of the      *)
(* entries in memory, under their numbers: the name of the next file is    *)
(* free, and nothing is left over from earlier sessions.                   *)
QueueOnDisk ==
  pc = "fuzz" => Full(queue) = 0..queued - 1 /\ There(queue) = Full(queue)

(* An in-place resume keeps the numbers and marks of a queue without gaps. *)
(* Other instances have marks of their own for these numbers.              *)
Dense(d) == \A i, j \in Ids : i < j /\ j \in There(d) => i \in Full(d)
Kept(d, e) == \A i \in Full(d) : e.file[i] = d.file[i] /\ (i \in d.det <=> i \in e.det)
NumbersKept == [][pc = "link" /\ pc' = "nuke" /\ Dense(resume) => Kept(resume, queue)]_vars

(* What the next resume would read has every case that was saved since the *)
(* user last started over, and knows whose deterministic stages are done.  *)
NextSource == IF queue.exists /\ Bare(resume) THEN queue ELSE resume
Recoverable == stake \subseteq CasesOf(NextSource) /\ done \subseteq DoneIn(NextSource)

(* No kill and no start makes saved work unrecoverable, at any point of an *)
(* in-place resume either.  That only happens while nuke_resume_dir is at  *)
(* work, while trim_case has a file unlinked, and in a session that was    *)
(* started over although a _resume was there; and then the queue itself    *)
(* still has all but the case that is being rewritten.                     *)
LeftOver == ~in_place_resume /\ ~Bare(resume)
KillsLoseNothing ==
  [][Recoverable /\ ~Recoverable' =>
       /\ pc = "nuke" \/ pc' = "create" \/ LeftOver
       /\ stake' \ {saving'} \subseteq CasesOf(queue')
       /\ done' \ {saving'} \subseteq DoneIn(queue')]_vars

(* Does not hold of the code: "If _resume/ already exists, the current     *)
(* queue/ may be incomplete due to an earlier abort, so we want to use the *)
(* old _resume/ dir instead", but it is the incomplete one after a kill in *)
(* nuke_resume_dir, and an old one after a session that was started over.  *)
OldResumeIsComplete == pc = "down" /\ ~Bare(resume) => stake \subseteq CasesOf(resume)
=============================================================================
