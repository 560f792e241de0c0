---------------------------- MODULE OutDirProofs ----------------------------
(***************************************************************************)
(* What is proved of the output directory, for any number of cases and     *)
(* inputs and any sequence of sessions.                                    *)
(***************************************************************************)
EXTENDS OutDir, TLAPS, FiniteSetTheorems

(* The new queue, from its creation on.                                    *)
Steady  == {"link", "nuke", "dry_run", "fuzz"}
Written == {"create", "write"}

Distinct(d) == \A i, j \in Full(d) : d.file[i] = d.file[j] => i = j

(* The files are those of the entries in memory but for the one that is    *)
(* being written.                                                          *)
FilesOK ==
  /\ pc \in {"clear", "rename"} \/ queue.exists \/ pc = "down"
  /\ pc = "read" => queue = Dir(NoFiles, {}, TRUE)
  /\ pc \in Steady \cup Written => queue.det \subseteq 0..queued - 1
  /\ pc \in Steady \cup Written => \A i \in Ids : i >= queued => queue.file[i] = Absent
  /\ pc \in Steady => \A i \in Ids : i < queued => queue.file[i] \in Cases
  /\ pc \in Written =>
       /\ slot < queued /\ queue.file[slot] \notin Cases /\ saving \in Cases \ CasesOf(queue)
       /\ \A i \in Ids : i < queued /\ i # slot => queue.file[i] \in Cases

(* No queue has a case twice.                                              *)
Unique == Distinct(queue) /\ Distinct(resume)

(* Where a session that started over, or one that resumes, has to stand.   *)
Starts ==
  /\ pc \in {"rename", "nuke"} => in_place_resume
  /\ pc \in {"clear", "read", "link", "dry_run"} /\ ~in_place_resume => stake = {}
  /\ pc = "clear" /\ in_place_resume => ~queue.exists \/ ~Bare(resume)
  /\ pc \in {"dry_run", "fuzz"} \cup Written /\ in_place_resume => ~resume.exists

(* While cases are linked, the new queue has those that are not to do.     *)
Linked ==
  pc = "link" =>
    /\ Full(Source) # {} /\ todo \subseteq Full(Source)
    /\ \A i \in todo : queued <= i /\ Source.file[i] \notin CasesOf(queue)
    /\ \A i \in Full(Source) \ todo :
         /\ Source.file[i] \in CasesOf(queue)
         /\ i \in Source.det => Source.file[i] \in DoneIn(queue)
InOrder ==
  pc = "link" /\ Dense(Source) =>
    /\ \A i \in Full(Source) \ todo : i < queued
    /\ \A i \in Ids : i < queued =>
         /\ i \in Full(Source) \ todo
         /\ queue.file[i] = Source.file[i]
         /\ i \in queue.det <=> i \in Source.det
Moved ==
  pc = "nuke" => CasesOf(resume) \subseteq CasesOf(queue) /\ DoneIn(resume) \subseteq DoneIn(queue)

(* What is at stake in a session that fuzzes.                              *)
Stakes ==
  /\ pc \in {"fuzz"} \cup Written => CasesOf(queue) \subseteq stake
  /\ pc \in {"fuzz"} \cup Written /\ ~in_place_resume =>
       stake \ {saving} \subseteq CasesOf(queue) /\ done \ {saving} \subseteq DoneIn(queue)
  /\ pc \in Written /\ ~in_place_resume /\ saving \in done => slot \in queue.det
  /\ pc \notin Written => saving = Absent

IInv == TypeOK /\ FilesOK /\ Unique /\ Starts /\ Linked /\ InOrder /\ Moved /\ Stakes

-----------------------------------------------------------------------------
(* A deletion leaves a part of the directory.                              *)
LEMMA DeletesSome ==
  ASSUME NEW d \in Dirs, d.exists, NEW e, Deletes(d, e)
  PROVE  /\ e \in Dirs /\ (~e.exists => e = NoDir)
         /\ \A i \in Ids : e.file[i] = d.file[i] \/ e.file[i] = Absent
         /\ e.det \subseteq d.det
         /\ ~e.exists => Bare(d)
<1>1. CASE \E i \in d.det : e = Dir(d.file, d.det \ {i}, d.state)
  BY <1>1 DEF Dirs, Dir
<1>2. CASE d.det = {} /\ d.state /\ e = Dir(d.file, {}, FALSE)
  BY <1>2 DEF Dirs, Dir
<1>3. CASE d.det = {} /\ ~d.state /\ \E i \in There(d) : e = Dir([d.file EXCEPT ![i] = Absent], {}, FALSE)
  <2>1. PICK i \in Ids : e = Dir([d.file EXCEPT ![i] = Absent], {}, FALSE)
    BY <1>3 DEF There
  <2>. QED  BY <2>1 DEF Dirs, Dir
<1>4. CASE Bare(d) /\ e = NoDir
  BY <1>4 DEF Dirs, NoDir, NoFiles
<1>. QED  BY <1>1, <1>2, <1>3, <1>4 DEF Deletes

LEMMA PartOfDir ==
  ASSUME NEW d \in Dirs, NEW e \in Dirs, e.det \subseteq d.det, Distinct(d),
         \A i \in Ids : e.file[i] = d.file[i] \/ e.file[i] = Absent
  PROVE  Full(e) \subseteq Full(d) /\ CasesOf(e) \subseteq CasesOf(d) /\ DoneIn(e) \subseteq DoneIn(d)
         /\ Distinct(e)
  BY OutDirAssumption DEF Full, CasesOf, DoneIn, Distinct

LEMMA InDirOK == InDir \in Dirs /\ Distinct(InDir)
  BY OutDirAssumption DEF InDir, Dir, Dirs, Distinct, Full, Ids, Cases

LEMMA InitOK == Init => IInv
<1> SUFFICES ASSUME Init PROVE IInv
  OBVIOUS
<1> USE OutDirAssumption DEF Init
<1>1. NoDir \in Dirs /\ Full(NoDir) = {}
  BY DEF NoDir, NoFiles, Dirs, Full, Ids, Cases
<1>2. TypeOK
  <2>1. 0 \in Ids /\ queued \in 0..MaxCase + 1 /\ slot \in Ids /\ todo \subseteq Ids
    BY DEF Ids
  <2>2. ~queue.exists /\ queue \in Dirs /\ resume \in Dirs /\ queue = NoDir /\ resume = NoDir
    BY <1>1 DEF NoDir
  <2>3. saving \in Cases \cup {Absent} /\ stake \subseteq Cases /\ done \subseteq stake
    OBVIOUS
  <2>4. pc \in Places /\ in_place_resume \in BOOLEAN /\ stats \in {"none", "short", "long"}
    BY DEF Places
  <2>. QED  BY <2>1, <2>2, <2>3, <2>4 DEF TypeOK
<1>3. Unique
  BY <1>1 DEF Unique, Distinct
<1>4. FilesOK /\ Starts /\ Linked /\ InOrder /\ Moved /\ Stakes
  BY DEF FilesOK, Starts, Linked, InOrder, Moved, Stakes, Steady, Written
<1>. QED  BY <1>2, <1>3, <1>4 DEF IInv

LEMMA StartOK == ASSUME IInv, NEW in_place \in BOOLEAN, Start(in_place) PROVE IInv'
  BY DEF Start, Step, memory, IInv, TypeOK, Places, FilesOK, Unique, Starts, Linked, InOrder, Moved, Stakes,
     Steady, Written, Distinct, Full

LEMMA LostOK == ASSUME IInv, MemoryLost PROVE IInv'
  BY OutDirAssumption DEF MemoryLost, IInv, TypeOK, Places, FilesOK, Unique, Starts, Linked, InOrder, Moved, Stakes,
     Steady, Written, Distinct, Full, Ids, Cases

LEMMA RenameOK == ASSUME IInv, Rename PROVE IInv'
<1> USE OutDirAssumption DEF Rename, Step, memory, IInv
<1>0. NoDir \in Dirs /\ Full(NoDir) = {} /\ ~NoDir.exists
  BY DEF NoDir, NoFiles, Dirs, Full, Ids, Cases
<1>1. TypeOK'
  BY <1>0 DEF TypeOK, Places, Renames
<1>2. FilesOK'
  BY DEF FilesOK, Steady, Written
<1>3. Unique'
  <2>1. Distinct(NoDir)
    BY <1>0 DEF Distinct
  <2>2. CASE Renames
    BY <2>1, <2>2 DEF Unique, Distinct, Full
  <2>3. CASE ~Renames
    BY <2>3 DEF Unique, Distinct, Full
  <2>. QED  BY <2>2, <2>3
<1>4. Starts'
  BY <1>0 DEF Starts, Renames, Written, Bare, There
<1>5. Linked' /\ InOrder' /\ Moved' /\ Stakes'
  BY DEF Linked, InOrder, Moved, Stakes, Written
<1>. QED  BY <1>1, <1>2, <1>3, <1>4, <1>5

LEMMA ClearQueueOK == ASSUME IInv, ClearQueue PROVE IInv'
<1> USE DEF ClearQueue, memory, IInv
<1>1. /\ queue' \in Dirs /\ (~queue'.exists => queue' = NoDir)
      /\ Distinct(queue)'
  <2>1. PICK q : q = queue
    OBVIOUS
  <2>2. PICK r : r = queue'
    OBVIOUS
  <2>3. q \in Dirs /\ q.exists /\ Deletes(q, r) /\ Distinct(q)
    BY <2>1, <2>2 DEF TypeOK, Unique
  <2>4. r \in Dirs /\ (~r.exists => r = NoDir) /\ Distinct(r)
    BY <2>3, DeletesSome, PartOfDir
  <2>. QED  BY <2>2, <2>4 DEF Distinct, Full
<1>2. TypeOK'
  BY <1>1 DEF TypeOK, Places
<1>3. Unique'
  BY <1>1 DEF Unique, Distinct, Full
<1>4. FilesOK' /\ Starts'
  BY DEF FilesOK, Starts, Steady, Written, Bare, There
<1>5. Linked' /\ InOrder' /\ Moved' /\ Stakes'
  BY DEF Linked, InOrder, Moved, Stakes, Written
<1>. QED  BY <1>2, <1>3, <1>4, <1>5

LEMMA MakeDirsOK == ASSUME IInv, MakeDirs PROVE IInv'
<1> USE OutDirAssumption DEF MakeDirs, Step, memory, IInv
<1>0. Dir(NoFiles, {}, TRUE) \in Dirs /\ Full(Dir(NoFiles, {}, TRUE)) = {} /\ Dir(NoFiles, {}, TRUE).exists
  BY DEF Dir, NoFiles, Dirs, Full, Ids, Cases
<1>1. TypeOK'
  BY <1>0 DEF TypeOK, Places
<1>2. FilesOK'
  BY <1>0 DEF FilesOK, Steady, Written
<1>3. Unique'
  BY <1>0 DEF Unique, Distinct, Full
<1>4. Starts'
  BY DEF Starts, Written
<1>5. Linked' /\ InOrder' /\ Moved' /\ Stakes'
  BY DEF Linked, InOrder, Moved, Stakes, Written
<1>. QED  BY <1>1, <1>2, <1>3, <1>4, <1>5

LEMMA ReadTestcasesOK == ASSUME IInv, ReadTestcases PROVE IInv'
<1> USE OutDirAssumption DEF ReadTestcases, Step, IInv
<1>0. /\ queue = Dir(NoFiles, {}, TRUE) /\ queue' = queue
      /\ \A i \in Ids : queue.file[i] = Absent
      /\ queue.det = {} /\ queue.exists
      /\ Source' = Source /\ todo' = Full(Source) /\ queued' = 0
  BY DEF FilesOK, Dir, NoFiles, Source
<1>1. TypeOK'
  <2>1. todo' \subseteq Ids /\ queued' \in 0..MaxCase + 1
    BY <1>0 DEF Full
  <2>. QED  BY <2>1 DEF TypeOK, Places
<1>2. FilesOK'
  <2>1. \A i \in Ids : ~(i < 0)
    BY DEF Ids
  <2>. QED  BY <1>0, <2>1 DEF FilesOK, Steady, Written
<1>3. Unique'
  BY DEF Unique, Distinct, Full
<1>4. Starts'
  BY DEF Starts, Written
<1>5. Linked'
  <2>1. Full(queue)' = {}
    BY <1>0 DEF Full
  <2>2. \A i \in Full(Source) : 0 <= i
    BY DEF Full, Ids
  <2>3. Full(Source)' = Full(Source)
    BY <1>0 DEF Full
  <2>4. pc' = "link" /\ Full(Source)' # {} /\ todo' = Full(Source)' /\ queued' = 0
    BY <1>0, <2>3
  <2>5. \A i \in todo' : queued' <= i /\ Source'.file[i] \notin CasesOf(queue)'
    <3>1. CasesOf(queue)' = {}
      BY <2>1 DEF CasesOf
    <3>. QED  BY <1>0, <2>2, <3>1
  <2>. QED  BY <2>4, <2>5 DEF Linked
<1>6. InOrder'
  <2>1. Full(Source)' \ todo' = {}
    BY <1>0 DEF Full
  <2>2. \A i \in Ids : ~(i < 0)
    BY DEF Ids
  <2>. QED  BY <1>0, <2>1, <2>2 DEF InOrder
<1>7. Moved' /\ Stakes'
  BY DEF Moved, Stakes, Written
<1>. QED  BY <1>1, <1>2, <1>3, <1>4, <1>5, <1>6, <1>7

LEMMA NoTestcasesOK == ASSUME IInv, NoTestcases PROVE IInv'
  BY LostOK DEF NoTestcases

LEMMA KilledOK == ASSUME IInv, Killed PROVE IInv'
  BY LostOK DEF Killed

(* A new case in place of none.                                            *)
LEMMA AddedCase ==
  ASSUME NEW d, NEW e, NEW i \in Ids, NEW c \in Cases, i \notin Full(d), c \notin CasesOf(d), Distinct(d),
         e.file[i] = c, \A j \in Ids : j # i => e.file[j] = d.file[j], d.det \subseteq e.det
  PROVE  /\ Full(e) = Full(d) \cup {i} /\ Distinct(e)
         /\ CasesOf(e) = CasesOf(d) \cup {c}
         /\ DoneIn(d) \subseteq DoneIn(e)
         /\ i \in e.det => c \in DoneIn(e)
<1>1. Full(e) = Full(d) \cup {i}
  BY DEF Full
<1>2. \A j \in Full(d) : j # i /\ e.file[j] = d.file[j]
  BY DEF Full
<1>3. Distinct(e)
  BY <1>1, <1>2 DEF Distinct, CasesOf
<1>4. CasesOf(e) = CasesOf(d) \cup {c}
  BY <1>1, <1>2 DEF CasesOf
<1>5. DoneIn(d) \subseteq DoneIn(e) /\ (i \in e.det => c \in DoneIn(e))
  BY <1>1, <1>2 DEF DoneIn
<1>. QED  BY <1>1, <1>3, <1>4, <1>5

LEMMA SourceOK == ASSUME IInv PROVE Source \in Dirs /\ Distinct(Source)
  BY InDirOK DEF IInv, TypeOK, Unique, Source

LEMMA LinkOK == ASSUME IInv, NEW i \in Ids, Link(i) PROVE IInv'
<1> USE OutDirAssumption DEF IInv
<1> PICK s : s = Source
  OBVIOUS
<1> PICK q : q = queue
  OBVIOUS
<1> PICK c : c = s.file[i]
  OBVIOUS
<1> PICK r : r = queue'
  OBVIOUS
<1> PICK n : n = queued
  OBVIOUS
<1>1. /\ pc = "link" /\ pc' = "link" /\ i \in todo /\ todo' = todo \ {i} /\ queued' = n + 1
      /\ \A j \in todo : i <= j
      /\ Source' = s /\ resume' = resume /\ in_place_resume' = in_place_resume
      /\ r = Dir([q.file EXCEPT ![n] = c], q.det \cup (IF i \in s.det THEN {n} ELSE {}), TRUE)
      /\ UNCHANGED <<stats, slot, saving, stake, done>>
  BY DEF Link, ComesNext, Source
<1>2. s \in Dirs /\ Distinct(s)
  BY SourceOK
<1>3. /\ q \in Dirs /\ q.exists /\ q.det \subseteq 0..n - 1 /\ Distinct(q)
      /\ \A j \in Ids : j >= n => q.file[j] = Absent
      /\ \A j \in Ids : j < n => q.file[j] \in Cases
  BY <1>1 DEF FilesOK, TypeOK, Unique, Steady
<1>4. /\ Full(s) # {} /\ todo \subseteq Full(s)
      /\ \A j \in todo : n <= j /\ s.file[j] \notin CasesOf(q)
      /\ \A j \in Full(s) \ todo : s.file[j] \in CasesOf(q) /\ (j \in s.det => s.file[j] \in DoneIn(q))
  BY <1>1 DEF Linked
<1>5. n \in Ids /\ n + 1 \in 0..MaxCase + 1 /\ n \in Nat
  BY <1>1, <1>4 DEF TypeOK, Ids
<1>6. c \in Cases /\ c \notin CasesOf(q) /\ i \in Full(s)
  BY <1>1, <1>4 DEF Full
<1>7. n \notin Full(q) /\ q.file[n] = Absent
  <2>1. n >= n
    BY <1>5
  <2>. QED  BY <1>3, <1>5, <2>1 DEF Full
<1>8. PICK marks \in SUBSET Ids : marks = q.det \cup (IF i \in s.det THEN {n} ELSE {})
  <2>1. q.det \subseteq Ids
    BY <1>3 DEF Dirs
  <2>. QED  BY <1>5, <2>1
<1>9. /\ r \in Dirs /\ r.exists /\ r.det = marks /\ r.file[n] = c
      /\ \A j \in Ids : j # n => r.file[j] = q.file[j]
  <2>1. c \in Cases \cup {Absent, Empty} /\ r = Dir([q.file EXCEPT ![n] = c], marks, TRUE)
    BY <1>1, <1>6, <1>8
  <2>. QED  BY <1>3, <1>5, <2>1, n \in Ids, marks \in SUBSET Ids DEF Dir, Dirs
<1>10. /\ Full(r) = Full(q) \cup {n} /\ Distinct(r) /\ CasesOf(r) = CasesOf(q) \cup {c}
       /\ DoneIn(q) \subseteq DoneIn(r)
       /\ i \in s.det => c \in DoneIn(r)
  <2>1. q.det \subseteq r.det /\ (i \in s.det => n \in r.det)
    BY <1>8, <1>9
  <2>. QED  BY <1>3, <1>5, <1>6, <1>7, <1>9, <2>1, AddedCase
<1>11. TypeOK'
  <2>1. todo' \subseteq Ids /\ queued' \in 0..MaxCase + 1
    BY <1>1, <1>5 DEF TypeOK
  <2>2. queue' \in Dirs /\ queue'.exists
    BY <1>9
  <2>. QED  BY <1>1, <2>1, <2>2 DEF TypeOK, Places
<1>12. FilesOK'
  <2>1. queue'.exists /\ pc' = "link"
    BY <1>1, <1>9
  <2>2. queue'.det \subseteq 0..queued' - 1
    <3>1. 0..n - 1 \subseteq 0..(n + 1) - 1 /\ n \in 0..(n + 1) - 1
      BY <1>5
    <3>. QED  BY <1>1, <1>3, <1>8, <1>9, <3>1
  <2>3. \A j \in Ids : j >= queued' => queue'.file[j] = Absent
    <3>1. \A j \in Ids : j >= n + 1 => j >= n /\ j # n
      BY <1>5 DEF Ids
    <3>. QED  BY <1>1, <1>3, <1>9, <3>1
  <2>4. \A j \in Ids : j < queued' => queue'.file[j] \in Cases
    <3>1. \A j \in Ids : j < n + 1 => j < n \/ j = n
      BY <1>5 DEF Ids
    <3>. QED  BY <1>1, <1>3, <1>6, <1>9, <3>1
  <2>. QED  BY <2>1, <2>2, <2>3, <2>4 DEF FilesOK, Steady, Written
<1>13. Unique'
  BY <1>1, <1>10 DEF Unique, Distinct, Full
<1>14. Starts' /\ Moved' /\ Stakes'
  BY <1>1 DEF Starts, Moved, Stakes, Written
<1>15. Full(Source)' = Full(s) /\ CasesOf(queue)' = CasesOf(r) /\ DoneIn(queue)' = DoneIn(r)
  BY <1>1 DEF Full, CasesOf, DoneIn
<1>16. Linked'
  <2>1. \A j \in todo' : queued' <= j /\ s.file[j] \notin CasesOf(r)
    <3> TAKE j \in todo'
    <3>1. j \in todo /\ j # i /\ j \in Full(s) /\ j \in Ids /\ i <= j /\ n <= i
      BY <1>1, <1>4 DEF TypeOK
    <3>2. queued' <= j
      BY <3>1, <1>1, <1>5 DEF Ids
    <3>3. s.file[j] # c
      BY <3>1, <1>2, <1>6 DEF Distinct
    <3>. QED  BY <3>1, <3>2, <3>3, <1>4, <1>10
  <2>2. \A j \in Full(s) \ todo' : s.file[j] \in CasesOf(r) /\ (j \in s.det => s.file[j] \in DoneIn(r))
    BY <1>1, <1>4, <1>10
  <2>3. todo' \subseteq Full(s) /\ Full(s) # {}
    BY <1>1, <1>4
  <2>. QED  BY <1>1, <1>15, <2>1, <2>2, <2>3 DEF Linked
<1>17. InOrder'
  <2> SUFFICES ASSUME Dense(s)
               PROVE  /\ \A j \in Full(s) \ todo' : j < queued'
                      /\ \A j \in Ids : j < queued' =>
                           /\ j \in Full(s) \ todo'
                           /\ r.file[j] = s.file[j]
                           /\ j \in r.det <=> j \in s.det
    BY <1>1, <1>15 DEF InOrder, Dense, There, Full
  <2>1. /\ \A j \in Full(s) \ todo : j < n
        /\ \A j \in Ids : j < n =>
             /\ j \in Full(s) \ todo
             /\ q.file[j] = s.file[j]
             /\ j \in q.det <=> j \in s.det
    BY <1>1 DEF InOrder
  <2>2. n = i
    <3> SUFFICES ASSUME n # i PROVE FALSE
      OBVIOUS
    <3>1. n < i
      BY <1>1, <1>4, <1>5 DEF Ids
    <3>2. i \in There(s)
      BY <1>6 DEF There, Full
    <3>3. n \in Full(s)
      BY <1>5, <3>1, <3>2 DEF Dense
    <3>4. n \notin todo
      BY <1>1, <1>5, <3>1 DEF Ids
    <3>5. n < n
      BY <2>1, <3>3, <3>4
    <3>. QED  BY <1>5, <3>5
  <2>3. \A j \in Full(s) \ todo' : j < queued'
    BY <1>1, <1>5, <2>1, <2>2 DEF Full, Ids
  <2>4. ASSUME NEW j \in Ids, j < queued'
        PROVE  j \in Full(s) \ todo' /\ r.file[j] = s.file[j] /\ (j \in r.det <=> j \in s.det)
    <3>1. CASE j = i
      <4>1. n \notin q.det
        BY <1>3, <1>5
      <4>. QED  BY <3>1, <4>1, <2>2, <1>1, <1>6, <1>8, <1>9
    <3>2. CASE j # i
      <4>1. j < n /\ j # n
        BY <3>2, <2>2, <2>4, <1>1, <1>5 DEF Ids
      <4>2. j \in Full(s) \ todo /\ q.file[j] = s.file[j] /\ (j \in q.det <=> j \in s.det)
        BY <2>1, <4>1
      <4>. QED  BY <4>1, <4>2, <3>2, <1>1, <1>8, <1>9
    <3>. QED  BY <3>1, <3>2
  <2>. QED  BY <2>3, <2>4
<1>. QED  BY <1>11, <1>12, <1>13, <1>14, <1>16, <1>17

LEMMA PivotedOK == ASSUME IInv, Pivoted PROVE IInv'
<1> USE DEF Pivoted, Step, memory, IInv
<1>0. Full(Source) = Full(Source) \ todo /\ (pc' = "nuke" => in_place_resume /\ Source = resume)
  BY DEF Source
<1>1. TypeOK' /\ Unique'
  BY DEF TypeOK, Places, Unique, Distinct, Full
<1>2. FilesOK'
  BY DEF FilesOK, Steady, Written
<1>3. Starts'
  BY DEF Starts, Written
<1>4. Linked' /\ InOrder' /\ Stakes'
  BY DEF Linked, InOrder, Stakes, Written
<1>5. Moved'
  <2> SUFFICES ASSUME pc' = "nuke"
               PROVE  CasesOf(resume) \subseteq CasesOf(queue) /\ DoneIn(resume) \subseteq DoneIn(queue)
    BY DEF Moved, CasesOf, DoneIn, Full
  <2>1. \A i \in Full(resume) : /\ resume.file[i] \in CasesOf(queue)
                                /\ i \in resume.det => resume.file[i] \in DoneIn(queue)
    BY <1>0 DEF Linked
  <2>2. CasesOf(resume) \subseteq CasesOf(queue)
    BY <2>1 DEF CasesOf
  <2>3. DoneIn(resume) \subseteq DoneIn(queue)
    BY <2>1 DEF DoneIn
  <2>. QED  BY <2>2, <2>3
<1>. QED  BY <1>1, <1>2, <1>3, <1>4, <1>5

LEMMA NukeOK == ASSUME IInv, Nuke PROVE IInv'
<1> USE DEF Nuke, memory, IInv
<1>1. /\ resume' \in Dirs /\ (~resume'.exists => resume' = NoDir)
      /\ Distinct(resume)'
      /\ CasesOf(resume)' \subseteq CasesOf(resume) /\ DoneIn(resume)' \subseteq DoneIn(resume)
  <2>1. PICK q : q = resume
    OBVIOUS
  <2>2. PICK r : r = resume'
    OBVIOUS
  <2>3. q \in Dirs /\ q.exists /\ Deletes(q, r) /\ Distinct(q)
    BY <2>1, <2>2 DEF TypeOK, Unique
  <2>4. r \in Dirs /\ (~r.exists => r = NoDir) /\ Distinct(r)
        /\ CasesOf(r) \subseteq CasesOf(q) /\ DoneIn(r) \subseteq DoneIn(q)
    BY <2>3, DeletesSome, PartOfDir
  <2>. QED  BY <2>1, <2>2, <2>4 DEF Distinct, Full, CasesOf, DoneIn
<1>2. TypeOK'
  BY <1>1 DEF TypeOK, Places
<1>3. Unique'
  BY <1>1 DEF Unique, Distinct, Full
<1>4. FilesOK' /\ Starts'
  BY DEF FilesOK, Starts, Steady, Written
<1>5. Moved'
  BY <1>1 DEF Moved, CasesOf, DoneIn, Full
<1>6. Linked' /\ InOrder' /\ Stakes'
  BY DEF Linked, InOrder, Stakes, Written
<1>. QED  BY <1>2, <1>3, <1>4, <1>5, <1>6

LEMMA NukedOK == ASSUME IInv, Nuked PROVE IInv'
  BY DEF Nuked, Step, memory, IInv, TypeOK, Places, FilesOK, Unique, Starts, Linked, InOrder, Moved, Stakes,
     Steady, Written, Distinct, Full

LEMMA DryRunOK == ASSUME IInv, DryRun PROVE IInv'
<1> USE DEF DryRun, Step, memory, IInv
<1>1. CasesOf(queue) \subseteq Cases
  BY DEF CasesOf, Full
<1>2. TypeOK' /\ Unique'
  BY <1>1 DEF TypeOK, Places, Unique, Distinct, Full
<1>3. FilesOK' /\ Starts'
  BY DEF FilesOK, Steady, Written, Starts
<1>4. Linked' /\ InOrder' /\ Moved'
  BY DEF Linked, InOrder, Moved
<1>5. Stakes'
  <2>1. CasesOf(queue)' = CasesOf(queue) /\ DoneIn(queue)' = DoneIn(queue)
    BY DEF CasesOf, DoneIn, Full
  <2>2. ~in_place_resume => stake = {} /\ done = {}
    BY DEF Starts, TypeOK
  <2>. QED  BY <2>1, <2>2 DEF Stakes, Written
<1>. QED  BY <1>2, <1>3, <1>4, <1>5

(* What writing a file does to the queue.                                  *)
LEMMA WithFileIs ==
  ASSUME TypeOK, NEW i \in Ids, NEW f \in Cases \cup {Absent, Empty}, queue' = WithFile(i, f)
  PROVE  /\ queue' \in Dirs /\ queue'.exists /\ queue'.det = queue.det /\ queue'.file[i] = f
         /\ \A j \in Ids : j # i => queue'.file[j] = queue.file[j]
  BY DEF TypeOK, WithFile, Dir, Dirs

(* A file without a case takes the place of one without a case.            *)
LEMMA SameCases ==
  ASSUME NEW d, NEW e, NEW i \in Ids, d.file[i] \notin Cases, e.file[i] \notin Cases, Distinct(d),
         \A j \in Ids : j # i => e.file[j] = d.file[j], e.det = d.det
  PROVE  /\ Full(e) = Full(d) /\ CasesOf(e) = CasesOf(d) /\ DoneIn(e) = DoneIn(d) /\ Distinct(e)
<1>1. Full(e) = Full(d) /\ \A j \in Full(d) : e.file[j] = d.file[j]
  BY DEF Full
<1>. QED  BY <1>1 DEF CasesOf, DoneIn, Distinct

LEMMA TrimCreateOK ==
  ASSUME IInv, TrimCreate
  PROVE  IInv' /\ CasesOf(queue)' = CasesOf(queue) /\ DoneIn(queue)' = DoneIn(queue)
<1> USE DEF TrimCreate, Step, memory, IInv
<1>1. /\ queue' \in Dirs /\ queue'.exists /\ queue'.det = queue.det /\ queue'.file[slot] = Empty
      /\ \A j \in Ids : j # slot => queue'.file[j] = queue.file[j]
  <2>1. PICK n : n = slot
    OBVIOUS
  <2>2. n \in Ids /\ Empty \in Cases \cup {Absent, Empty} /\ queue' = WithFile(n, Empty)
    BY <2>1 DEF TypeOK, WithFile
  <2>. QED  BY <2>1, <2>2, WithFileIs
<1>2. /\ slot < queued /\ slot \in Ids /\ queue.file[slot] \notin Cases /\ saving \in Cases \ CasesOf(queue)
      /\ \A i \in Ids : i < queued /\ i # slot => queue.file[i] \in Cases
      /\ queue.det \subseteq 0..queued - 1
      /\ \A i \in Ids : i >= queued => queue.file[i] = Absent
  BY DEF FilesOK, Written, TypeOK
<1>3. /\ CasesOf(queue)' = CasesOf(queue) /\ DoneIn(queue)' = DoneIn(queue) /\ Distinct(queue)'
  <2>1. PICK q : q = queue
    OBVIOUS
  <2>2. PICK r : r = queue'
    OBVIOUS
  <2>3. PICK n : n = slot
    OBVIOUS
  <2>4. /\ n \in Ids /\ q.file[n] \notin Cases /\ r.file[n] \notin Cases /\ Distinct(q)
        /\ \A j \in Ids : j # n => r.file[j] = q.file[j]
        /\ r.det = q.det
    BY <2>1, <2>2, <2>3, <1>1, <1>2, OutDirAssumption DEF Unique
  <2>5. CasesOf(r) = CasesOf(q) /\ DoneIn(r) = DoneIn(q) /\ Distinct(r)
    BY <2>4, SameCases
  <2>6. CasesOf(queue)' = CasesOf(r) /\ DoneIn(queue)' = DoneIn(r)
    BY <2>2 DEF CasesOf, DoneIn, Full
  <2>7. Distinct(queue)'
    BY <2>2, <2>5 DEF Distinct, Full
  <2>. QED  BY <2>1, <2>5, <2>6, <2>7
<1>4. TypeOK'
  BY <1>1 DEF TypeOK, Places
<1>5. FilesOK'
  <2>1. \A i \in Ids : i >= queued => i # slot
    BY <1>2 DEF Ids, TypeOK
  <2>2. saving \in Cases \ CasesOf(queue)'
    BY <1>2, <1>3
  <2>. QED  BY <1>1, <1>2, <2>1, <2>2, OutDirAssumption DEF FilesOK, Steady, Written
<1>6. Unique' /\ Starts'
  BY <1>3 DEF Unique, Starts, Written, Distinct, Full
<1>7. Linked' /\ InOrder' /\ Moved'
  BY DEF Linked, InOrder, Moved
<1>8. Stakes'
  BY <1>1, <1>3 DEF Stakes, Written
<1>. QED  BY <1>3, <1>4, <1>5, <1>6, <1>7, <1>8

(* A find that is not in the queue has a number within the bound.          *)
LEMMA NumberBounded == ASSUME IInv, pc = "fuzz", NEW c \in Cases, c \notin CasesOf(queue) PROVE queued \in Ids
<1>1. PICK q : q = queue
  OBVIOUS
<1>2. queued \in 0..MaxCase + 1 /\ MaxCase \in Nat /\ Distinct(q) /\ c \notin CasesOf(q)
      /\ \A i \in Ids : i < queued => q.file[i] \in Cases
  BY <1>1, OutDirAssumption DEF IInv, FilesOK, TypeOK, Unique, Steady
<1> SUFFICES ASSUME queued = MaxCase + 1 PROVE FALSE
  BY <1>2 DEF Ids
<1>3. \A i \in Ids : q.file[i] \in Cases
  <2>1. \A i \in Ids : i < queued
    BY <1>2 DEF Ids
  <2>. QED  BY <1>2, <2>1
<1>4. \A i \in Ids : i \in Full(q) /\ q.file[i] \in Cases \ {c}
  BY <1>2, <1>3 DEF Full, CasesOf
<1>5. IsFiniteSet(Ids) /\ Cardinality(Ids) = MaxCase + 1 /\ Ids = Cases
  BY <1>2, FS_Interval DEF Ids, Cases
<1>6. IsFiniteSet(Cases \ {c}) /\ Cardinality(Cases \ {c}) = MaxCase
  <2>1. IsFiniteSet(Cases \ {c}) /\ Cardinality(Cases \ {c}) = Cardinality(Cases) - 1
    BY <1>5, FS_RemoveElement
  <2>. QED  BY <2>1, <1>2, <1>5
<1>7. PICK f \in [Ids -> Cases \ {c}] : \A i \in Ids : f[i] = q.file[i]
  <2>1. [i \in Ids |-> q.file[i]] \in [Ids -> Cases \ {c}]
    BY <1>4
  <2>. QED  BY <2>1
<1>8. \E i, j \in Ids : i # j /\ f[i] = f[j]
  <2>1. Cardinality(Cases \ {c}) < Cardinality(Ids)
    BY <1>2, <1>5, <1>6
  <2>. QED  BY <1>5, <1>6, <1>7, <2>1, FS_PigeonHole
<1>. QED  BY <1>2, <1>4, <1>7, <1>8 DEF Distinct

LEMMA SaveOK ==
  ASSUME IInv, NEW c \in Cases, Save(c)
  PROVE  IInv' /\ CasesOf(queue)' = CasesOf(queue) /\ DoneIn(queue)' = DoneIn(queue)
<1> USE DEF Save, Step, IInv
<1>0. /\ pc = "fuzz" /\ c \notin CasesOf(queue) /\ queued \in Ids
      /\ slot' = queued /\ saving' = c /\ queued' = queued + 1
  BY NumberBounded DEF IsNew, Number
<1>1. /\ queue' \in Dirs /\ queue'.exists /\ queue'.det = queue.det /\ queue'.file[queued] = Empty
      /\ \A j \in Ids : j # queued => queue'.file[j] = queue.file[j]
  <2>1. PICK n : n = queued
    OBVIOUS
  <2>2. n \in Ids /\ Empty \in Cases \cup {Absent, Empty} /\ queue' = WithFile(n, Empty)
    BY <2>1, <1>0 DEF Number, WithFile
  <2>. QED  BY <2>1, <2>2, WithFileIs
<1>2. /\ \A i \in Ids : i < queued => queue.file[i] \in Cases
      /\ queue.det \subseteq 0..queued - 1
      /\ \A i \in Ids : i >= queued => queue.file[i] = Absent
      /\ queued \in Nat /\ queued <= MaxCase /\ MaxCase \in Nat
  BY <1>0, OutDirAssumption DEF FilesOK, Steady, TypeOK, Ids
<1>3. CasesOf(queue)' = CasesOf(queue) /\ DoneIn(queue)' = DoneIn(queue) /\ Distinct(queue)'
  <2>1. PICK q : q = queue
    OBVIOUS
  <2>2. PICK r : r = queue'
    OBVIOUS
  <2>3. PICK n : n = queued
    OBVIOUS
  <2>4. /\ n \in Ids /\ q.file[n] \notin Cases /\ r.file[n] \notin Cases /\ Distinct(q)
        /\ \A j \in Ids : j # n => r.file[j] = q.file[j]
        /\ r.det = q.det
    <3>1. queued >= queued
      BY <1>2
    <3>. QED  BY <2>1, <2>2, <2>3, <3>1, <1>0, <1>1, <1>2, OutDirAssumption DEF Unique
  <2>5. CasesOf(r) = CasesOf(q) /\ DoneIn(r) = DoneIn(q) /\ Distinct(r)
    BY <2>4, SameCases
  <2>6. CasesOf(queue)' = CasesOf(r) /\ DoneIn(queue)' = DoneIn(r)
    BY <2>2 DEF CasesOf, DoneIn, Full
  <2>7. Distinct(queue)'
    BY <2>2, <2>5 DEF Distinct, Full
  <2>. QED  BY <2>1, <2>5, <2>6, <2>7
<1>4. TypeOK'
  <2>1. queued' \in 0..MaxCase + 1
    BY <1>0, <1>2
  <2>. QED  BY <1>0, <1>1, <2>1 DEF TypeOK, Places
<1>5. FilesOK'
  <2>1. /\ \A i \in Ids : i >= queued + 1 => i >= queued /\ i # queued
        /\ \A i \in Ids : i < queued + 1 /\ i # queued => i < queued
        /\ queued < queued + 1
    BY <1>2 DEF Ids
  <2>2. queue'.det \subseteq 0..queued' - 1
    <3>1. 0..queued - 1 \subseteq 0..(queued + 1) - 1
      BY <1>2
    <3>. QED  BY <1>0, <1>1, <1>2, <3>1
  <2>3. saving' \in Cases \ CasesOf(queue)'
    BY <1>0, <1>3
  <2>4. \A i \in Ids : i >= queued' => queue'.file[i] = Absent
    BY <1>0, <1>1, <1>2, <2>1
  <2>5. \A i \in Ids : i < queued' /\ i # slot' => queue'.file[i] \in Cases
    BY <1>0, <1>1, <1>2, <2>1
  <2>6. slot' < queued' /\ queue'.file[slot'] \notin Cases
    BY <1>0, <1>1, <2>1, OutDirAssumption
  <2>7. pc' = "write" /\ queue'.exists
    BY <1>1
  <2>. QED  BY <2>2, <2>3, <2>4, <2>5, <2>6, <2>7 DEF FilesOK, Steady, Written
<1>6. Unique' /\ Starts'
  BY <1>3 DEF Unique, Starts, Written, Distinct, Full
<1>7. Linked' /\ InOrder' /\ Moved'
  BY DEF Linked, InOrder, Moved
<1>8. Stakes'
  <2>1. DoneIn(queue) \subseteq CasesOf(queue)
    BY DEF DoneIn, CasesOf
  <2>2. /\ CasesOf(queue) \subseteq stake
        /\ ~in_place_resume => stake \ {saving} \subseteq CasesOf(queue) /\ done \ {saving} \subseteq DoneIn(queue)
        /\ saving \notin Cases /\ stake \subseteq Cases /\ done \subseteq stake
    BY <1>0, OutDirAssumption DEF Stakes, Written, TypeOK
  <2>3. ~in_place_resume => c \notin done
    BY <1>0, <2>1, <2>2
  <2>. QED  BY <1>0, <1>3, <2>2, <2>3 DEF Stakes, Written
<1>. QED  BY <1>3, <1>4, <1>5, <1>6, <1>7, <1>8

LEMMA TrimUnlinkOK ==
  ASSUME IInv, NEW i \in Ids, TrimUnlink(i)
  PROVE  /\ IInv'
         /\ CasesOf(queue) \ {saving'} \subseteq CasesOf(queue)' /\ DoneIn(queue) \ {saving'} \subseteq DoneIn(queue)'
<1> USE OutDirAssumption DEF TrimUnlink, Step, IInv
<1> PICK q : q = queue
  OBVIOUS
<1> PICK r : r = queue'
  OBVIOUS
<1> PICK c : c = q.file[i]
  OBVIOUS
<1>0. pc = "fuzz" /\ pc' = "create" /\ i \in Full(q) /\ slot' = i /\ saving' = c /\ c \in Cases
  BY DEF Full
<1>1. /\ r \in Dirs /\ r.exists /\ r.det = q.det /\ r.file[i] = Absent
      /\ \A j \in Ids : j # i => r.file[j] = q.file[j]
  BY Absent \in Cases \cup {Absent, Empty}, WithFileIs
<1>2. /\ \A j \in Ids : j < queued => q.file[j] \in Cases
      /\ q.det \subseteq 0..queued - 1
      /\ \A j \in Ids : j >= queued => q.file[j] = Absent
      /\ q \in Dirs /\ Distinct(q) /\ queued \in 0..MaxCase + 1
  BY <1>0 DEF FilesOK, Steady, TypeOK, Unique
<1>3. i < queued
  <2>1. ~(i >= queued)
    BY <1>0, <1>2
  <2>. QED  BY <1>2, <2>1 DEF Ids
<1>4. Full(r) = Full(q) \ {i}
  BY <1>1 DEF Full
<1>5. \A j \in Full(r) : r.file[j] = q.file[j] /\ q.file[j] # c
  BY <1>0, <1>1, <1>2, <1>4 DEF Full, Distinct
<1>6. CasesOf(q) = CasesOf(r) \cup {c} /\ c \notin CasesOf(r)
  BY <1>0, <1>4, <1>5 DEF CasesOf
<1>7. DoneIn(q) \subseteq DoneIn(r) \cup {c} /\ (c \in DoneIn(q) => i \in r.det)
  <2>1. DoneIn(q) \subseteq DoneIn(r) \cup {c}
    BY <1>0, <1>1, <1>4, <1>5 DEF DoneIn
  <2>2. c \in DoneIn(q) => i \in r.det
    BY <1>0, <1>1, <1>4, <1>5 DEF DoneIn
  <2>. QED  BY <2>1, <2>2
<1>8. Distinct(r)
  BY <1>2, <1>4, <1>5 DEF Distinct
<1>9. CasesOf(queue)' = CasesOf(r) /\ DoneIn(queue)' = DoneIn(r)
  BY DEF CasesOf, DoneIn, Full
<1>10. TypeOK'
  BY <1>0, <1>1 DEF TypeOK, Places
<1>11. FilesOK'
  <2>1. \A j \in Ids : j >= queued => queue'.file[j] = Absent
    BY <1>1, <1>2
  <2>2. \A j \in Ids : j < queued /\ j # i => queue'.file[j] \in Cases
    BY <1>1, <1>2
  <2>3. saving' \in Cases \ CasesOf(queue)'
    BY <1>0, <1>6, <1>9
  <2>4. slot' < queued /\ queue'.file[slot'] \notin Cases /\ queue'.exists /\ queue'.det \subseteq 0..queued - 1
    BY <1>0, <1>1, <1>2, <1>3
  <2>. QED  BY <1>0, <2>1, <2>2, <2>3, <2>4 DEF FilesOK, Steady, Written
<1>12. Unique'
  BY <1>8 DEF Unique, Distinct, Full
<1>13. Starts' /\ Linked' /\ InOrder' /\ Moved'
  BY DEF Starts, Linked, InOrder, Moved, Written
<1>14. Stakes'
  <2>1. /\ CasesOf(q) \subseteq stake
        /\ ~in_place_resume => stake \ {saving} \subseteq CasesOf(q) /\ done \ {saving} \subseteq DoneIn(q)
        /\ saving \notin Cases /\ stake \subseteq Cases /\ done \subseteq stake
    BY <1>0 DEF Stakes, Written, TypeOK
  <2>2. CasesOf(r) \subseteq stake
    BY <1>6, <2>1
  <2>3. ~in_place_resume => stake \ {c} \subseteq CasesOf(r) /\ done \ {c} \subseteq DoneIn(r)
    BY <1>6, <1>7, <2>1
  <2>4. ~in_place_resume /\ c \in done => i \in r.det
    BY <1>0, <1>7, <2>1
  <2>. QED  BY <1>0, <1>9, <2>2, <2>3, <2>4 DEF Stakes, Written
<1>. QED  BY <1>0, <1>6, <1>7, <1>9, <1>10, <1>11, <1>12, <1>13, <1>14

LEMMA WriteOK ==
  ASSUME IInv, Write
  PROVE  IInv' /\ CasesOf(queue)' = CasesOf(queue) \cup {saving} /\ DoneIn(queue) \subseteq DoneIn(queue)'
<1> USE OutDirAssumption DEF Write, Step, IInv
<1> PICK q : q = queue
  OBVIOUS
<1> PICK r : r = queue'
  OBVIOUS
<1> PICK n : n = slot
  OBVIOUS
<1> PICK c : c = saving
  OBVIOUS
<1>1. /\ n < queued /\ n \in Ids /\ q.file[n] \notin Cases /\ c \in Cases /\ c \notin CasesOf(q)
      /\ \A i \in Ids : i < queued /\ i # n => q.file[i] \in Cases
      /\ q.det \subseteq 0..queued - 1
      /\ \A i \in Ids : i >= queued => q.file[i] = Absent
      /\ Distinct(q)
  BY DEF FilesOK, Written, TypeOK, Unique
<1>2. /\ r \in Dirs /\ r.exists /\ r.det = q.det /\ r.file[n] = c
      /\ \A j \in Ids : j # n => r.file[j] = q.file[j]
  <2>1. c \in Cases \cup {Absent, Empty} /\ queue' = WithFile(n, c)
    BY <1>1 DEF WithFile
  <2>. QED  BY <2>1, <1>1, WithFileIs
<1>3. /\ Distinct(r) /\ CasesOf(r) = CasesOf(q) \cup {c}
      /\ DoneIn(q) \subseteq DoneIn(r)
      /\ n \in r.det => c \in DoneIn(r)
  <2>1. n \notin Full(q)
    BY <1>1 DEF Full
  <2>. QED  BY <1>1, <1>2, <2>1, AddedCase
<1>4. CasesOf(queue)' = CasesOf(r) /\ DoneIn(queue)' = DoneIn(r)
  BY DEF CasesOf, DoneIn, Full
<1>5. TypeOK'
  <2>1. 0 \in Ids /\ slot' = 0
    BY DEF Ids
  <2>2. stake' = stake \cup {c} /\ done' = done /\ saving' = Absent
    OBVIOUS
  <2>. QED  BY <1>1, <1>2, <2>1, <2>2 DEF TypeOK, Places
<1>6. FilesOK'
  <2>1. \A i \in Ids : i >= queued => queue'.file[i] = Absent
    <3>1. \A i \in Ids : i >= queued => i # n
      BY <1>1 DEF Ids, TypeOK
    <3>. QED  BY <1>1, <1>2, <3>1
  <2>2. \A i \in Ids : i < queued => queue'.file[i] \in Cases
    BY <1>1, <1>2
  <2>. QED  BY <1>1, <1>2, <2>1, <2>2 DEF FilesOK, Steady, Written
<1>7. Unique'
  BY <1>3 DEF Unique, Distinct, Full
<1>8. Starts' /\ Linked' /\ InOrder' /\ Moved'
  BY DEF Starts, Linked, InOrder, Moved, Written
<1>9. Stakes'
  <2>1. /\ CasesOf(q) \subseteq stake
        /\ ~in_place_resume => stake \ {c} \subseteq CasesOf(q) /\ done \ {c} \subseteq DoneIn(q)
        /\ ~in_place_resume /\ c \in done => n \in q.det
    BY DEF Stakes, Written
  <2>2. stake' = stake \cup {c} /\ done' = done /\ saving' = Absent /\ pc' = "fuzz"
    OBVIOUS
  <2>. QED  BY <1>2, <1>3, <1>4, <2>1, <2>2 DEF Stakes, Written
<1>. QED  BY <1>3, <1>4, <1>5, <1>6, <1>7, <1>8, <1>9

LEMMA MarkDoneOK ==
  ASSUME IInv, NEW i \in Ids, MarkDone(i)
  PROVE  IInv' /\ CasesOf(queue)' = CasesOf(queue) /\ DoneIn(queue)' = DoneIn(queue) \cup {queue.file[i]}
<1> USE OutDirAssumption DEF MarkDone, memory, IInv
<1> PICK q : q = queue
  OBVIOUS
<1> PICK r : r = queue'
  OBVIOUS
<1>1. /\ r \in Dirs /\ r.exists /\ r.det = q.det \cup {i} /\ r.file = q.file /\ q \in Dirs
      /\ i \in Full(q)
  BY DEF TypeOK, Dirs, Dir
<1>2. Full(r) = Full(q) /\ CasesOf(r) = CasesOf(q) /\ DoneIn(r) = DoneIn(q) \cup {q.file[i]}
  <2>1. Full(r) = Full(q)
    BY <1>1 DEF Full
  <2>2. CasesOf(r) = CasesOf(q)
    BY <1>1, <2>1 DEF CasesOf
  <2>3. DoneIn(r) = DoneIn(q) \cup {q.file[i]}
    <3>1. Full(r) \cap r.det = (Full(q) \cap q.det) \cup {i}
      BY <1>1, <2>1
    <3>2. DoneIn(r) = {q.file[j] : j \in (Full(q) \cap q.det) \cup {i}}
      BY <1>1, <3>1 DEF DoneIn
    <3>. QED  BY <3>2 DEF DoneIn
  <2>. QED  BY <2>1, <2>2, <2>3
<1>3. CasesOf(queue)' = CasesOf(r) /\ DoneIn(queue)' = DoneIn(r)
  BY DEF CasesOf, DoneIn, Full
<1>4. CasesOf(q) \subseteq stake /\ q.file[i] \in CasesOf(q)
  BY <1>1 DEF Stakes, CasesOf
<1>5. TypeOK'
  BY <1>1, <1>4 DEF TypeOK, Places
<1>6. FilesOK'
  <2>1. i \in 0..queued - 1
    <3>1. queued \in 0..MaxCase + 1 /\ ~(i >= queued)
      BY <1>1 DEF FilesOK, Steady, TypeOK, Full
    <3>. QED  BY <3>1 DEF Ids
  <2>. QED  BY <1>1, <2>1 DEF FilesOK, Steady, Written
<1>7. Unique'
  BY <1>1 DEF Unique, Distinct, Full
<1>8. Starts' /\ Linked' /\ InOrder' /\ Moved'
  BY DEF Starts, Linked, InOrder, Moved, Written
<1>9. Stakes'
  <2>1. done' = done \cup {q.file[i]}
    OBVIOUS
  <2>. QED  BY <1>2, <1>3, <1>4, <2>1 DEF Stakes, Written
<1>. QED  BY <1>2, <1>3, <1>5, <1>6, <1>7, <1>8, <1>9

LEMMA LongSessionOK == ASSUME IInv, LongSession PROVE IInv'
  BY DEF LongSession, memory, IInv, TypeOK, Places, FilesOK, Unique, Starts, Linked, InOrder, Moved, Stakes,
     Steady, Written, Distinct, Full, CasesOf, DoneIn

LEMMA NextOK == IInv /\ [Next]_vars => IInv'
<1> SUFFICES ASSUME IInv, [Next]_vars PROVE IInv'
  OBVIOUS
<1>1. CASE UNCHANGED vars
  <2> USE <1>1 DEF vars, memory, IInv
  <2>1. TypeOK' /\ FilesOK'
    BY DEF TypeOK, FilesOK, CasesOf, Full
  <2>2. Unique' /\ Starts'
    BY DEF Unique, Starts, Distinct, Full, Bare, There
  <2>3. Linked'
    BY DEF Linked, Source, CasesOf, DoneIn, Full
  <2>4. InOrder'
    BY DEF InOrder, Source, Dense, There, Full
  <2>5. Moved' /\ Stakes'
    BY DEF Moved, Stakes, CasesOf, DoneIn, Full
  <2>. QED  BY <2>1, <2>2, <2>3, <2>4, <2>5
<1>2. CASE \E in_place \in BOOLEAN : Start(in_place)
  BY <1>2, StartOK
<1>3. CASE Killed \/ Rename \/ ClearQueue \/ MakeDirs \/ ReadTestcases \/ NoTestcases
  BY <1>3, KilledOK, RenameOK, ClearQueueOK, MakeDirsOK, ReadTestcasesOK, NoTestcasesOK
<1>4. CASE \E i \in Ids : Link(i) \/ TrimUnlink(i) \/ MarkDone(i)
  BY <1>4, LinkOK, TrimUnlinkOK, MarkDoneOK
<1>5. CASE Pivoted \/ Nuke \/ Nuked \/ DryRun
  BY <1>5, PivotedOK, NukeOK, NukedOK, DryRunOK
<1>6. CASE \E c \in Cases : Save(c)
  BY <1>6, SaveOK
<1>7. CASE TrimCreate \/ Write \/ LongSession
  BY <1>7, TrimCreateOK, WriteOK, LongSessionOK
<1>. QED  BY <1>1, <1>2, <1>3, <1>4, <1>5, <1>6, <1>7 DEF Next

(* The inductive invariant holds in every session.                         *)
THEOREM InvHolds == Spec => []IInv
  BY InitOK, NextOK, PTL DEF Spec

(* For every number of cases and inputs, no session numbers a file past    *)
(* the cases there are, or marks a case that is not at stake as done.      *)
THEOREM TypeCorrect == Spec => []TypeOK
  BY InvHolds, PTL DEF IInv

(* For every number of cases and inputs, the files of a queue that is      *)
(* fuzzed are those of the entries in memory.                              *)
THEOREM QueueOnDiskHolds == Spec => []QueueOnDisk
<1>1. IInv => QueueOnDisk
  <2> SUFFICES ASSUME IInv, pc = "fuzz"
               PROVE  Full(queue) = 0..queued - 1 /\ There(queue) = Full(queue)
    BY DEF QueueOnDisk
  <2>1. /\ \A i \in Ids : i < queued => queue.file[i] \in Cases
        /\ \A i \in Ids : i >= queued => queue.file[i] = Absent
        /\ queued \in 0..MaxCase + 1 /\ MaxCase \in Nat
    BY OutDirAssumption DEF IInv, FilesOK, Steady, TypeOK
  <2>2. 0..queued - 1 = {i \in Ids : i < queued}
    BY <2>1 DEF Ids
  <2>3. \A i \in Ids : i < queued \/ i >= queued
    BY <2>1 DEF Ids
  <2>. QED  BY <2>1, <2>2, <2>3, OutDirAssumption DEF Full, There
<1>. QED  BY <1>1, InvHolds, PTL

(* For every number of cases, a resume keeps the numbers and the marks of  *)
(* a queue without gaps.                                                   *)
THEOREM NumbersKeptHolds == Spec => NumbersKept
<1>1. IInv /\ [Next]_vars => [pc = "link" /\ pc' = "nuke" /\ Dense(resume) => Kept(resume, queue)]_vars
  <2> SUFFICES ASSUME IInv, Next, pc = "link", pc' = "nuke", Dense(resume) PROVE Kept(resume, queue)
    OBVIOUS
  <2>1. todo = {} /\ in_place_resume
    BY DEF Next, Start, Killed, MemoryLost, Rename, ClearQueue, MakeDirs, ReadTestcases, NoTestcases, Link,
       TrimUnlink, MarkDone, Pivoted, Nuke, Nuked, DryRun, Save, TrimCreate, Write, LongSession, Step
  <2>2. /\ \A i \in Full(resume) : i < queued
        /\ \A i \in Ids : i < queued => queue.file[i] = resume.file[i] /\ (i \in queue.det <=> i \in resume.det)
    BY <2>1 DEF IInv, InOrder, Source
  <2>. QED  BY <2>2 DEF Kept, Full
<1>. QED  BY <1>1, InvHolds, PTL DEF Spec, NumbersKept

(* As long as the directories and what is at stake stay, so does what can  *)
(* be recovered.                                                           *)
LEMMA SameSource ==
  ASSUME Recoverable, UNCHANGED <<queue, resume, stake, done>>
  PROVE  Recoverable'
  BY DEF Recoverable, NextSource, Bare, There, CasesOf, DoneIn, Full

LEMMA NothingAtStake == ASSUME stake' = {}, done' = {} PROVE Recoverable'
  BY DEF Recoverable

(* While _resume has anything in it, it is what a resume reads.            *)
LEMMA FromResume ==
  ASSUME Recoverable, ~Bare(resume), UNCHANGED <<resume, stake, done>>
  PROVE  Recoverable'
<1>1. NextSource = resume /\ NextSource' = resume
  BY DEF NextSource, Bare, There
<1>. QED  BY <1>1 DEF Recoverable, CasesOf, DoneIn, Full

(* Otherwise it reads the queue.                                           *)
LEMMA FromQueue ==
  ASSUME queue.exists, queue'.exists, Bare(resume), resume' = resume
  PROVE  /\ Recoverable <=> stake \subseteq CasesOf(queue) /\ done \subseteq DoneIn(queue)
         /\ Recoverable' <=> stake' \subseteq CasesOf(queue)' /\ done' \subseteq DoneIn(queue)'
<1>1. NextSource = queue /\ NextSource' = queue'
  BY DEF NextSource, Bare, There
<1>2. CasesOf(NextSource)' = CasesOf(queue)' /\ DoneIn(NextSource)' = DoneIn(queue)'
  BY <1>1 DEF CasesOf, DoneIn, Full
<1>. QED  BY <1>1, <1>2 DEF Recoverable

LEMMA NoDirBare == Bare(NoDir)
  BY OutDirAssumption DEF Bare, NoDir, NoFiles, There

(* A step of a session that fuzzes keeps what the queue has.               *)
Fuzzing ==
  \/ \E c \in Cases : Save(c)
  \/ \E i \in Ids : TrimUnlink(i) \/ MarkDone(i)
  \/ TrimCreate \/ Write \/ LongSession

LEMMA FuzzingKeeps ==
  ASSUME IInv, Fuzzing, stake \subseteq CasesOf(queue), done \subseteq DoneIn(queue)
  PROVE  /\ stake' \ {saving'} \subseteq CasesOf(queue)' /\ done' \ {saving'} \subseteq DoneIn(queue)'
         /\ pc' = "create" \/ (stake' \subseteq CasesOf(queue)' /\ done' \subseteq DoneIn(queue)')
<1>1. CASE \E c \in Cases : Save(c)
  BY <1>1, SaveOK DEF Save
<1>2. CASE \E i \in Ids : TrimUnlink(i)
  BY <1>2, TrimUnlinkOK DEF TrimUnlink, Step
<1>3. CASE \E i \in Ids : MarkDone(i)
  BY <1>3, MarkDoneOK DEF MarkDone
<1>4. CASE TrimCreate
  BY <1>4, TrimCreateOK DEF TrimCreate
<1>5. CASE Write
  BY <1>5, WriteOK DEF Write
<1>6. CASE LongSession
  BY <1>6 DEF LongSession, CasesOf, DoneIn, Full
<1>. QED  BY <1>1, <1>2, <1>3, <1>4, <1>5, <1>6 DEF Fuzzing

LEMMA FuzzingPlaces ==
  ASSUME IInv, Fuzzing
  PROVE  /\ IInv' /\ pc \in {"fuzz"} \cup Written /\ pc' \in {"fuzz"} \cup Written
         /\ resume' = resume /\ in_place_resume' = in_place_resume
<1>1. IInv'
  BY NextOK DEF Fuzzing, Next
<1>. QED  BY <1>1 DEF Fuzzing, Save, TrimUnlink, MarkDone, TrimCreate, Write, LongSession, Step, memory, Written

(* For every number of cases and any number of sessions, only the steps    *)
(* named lose what a resume would read, and then the queue still has it.   *)
THEOREM KillsLoseNothingHolds == Spec => KillsLoseNothing
<1> DEFINE Excused == /\ pc = "nuke" \/ pc' = "create" \/ LeftOver
                      /\ stake' \ {saving'} \subseteq CasesOf(queue')
                      /\ done' \ {saving'} \subseteq DoneIn(queue')
<1>1. IInv /\ [Next]_vars => [Recoverable /\ ~Recoverable' => Excused]_vars
  <2> SUFFICES ASSUME IInv, Next, Recoverable, ~Recoverable' PROVE Excused
    OBVIOUS
  <2>0. done \subseteq stake
    BY DEF IInv, TypeOK
  <2>1. CASE \E in_place \in BOOLEAN : Start(in_place)
    BY <2>1, SameSource, NothingAtStake DEF Start
  <2>2. CASE Killed \/ NoTestcases \/ ReadTestcases \/ Pivoted \/ Nuked
    BY <2>2, SameSource DEF Killed, NoTestcases, MemoryLost, ReadTestcases, Pivoted, Nuked
  <2>3. CASE Rename
    <3>1. CASE ~Renames
      BY <2>3, <3>1, SameSource DEF Rename
    <3>2. CASE Renames
      <4>1. NextSource = queue /\ resume' = queue /\ ~queue'.exists /\ UNCHANGED <<stake, done>>
        BY <2>3, <3>2 DEF Rename, Renames, NextSource, NoDir
      <4>2. NextSource' = queue
        BY <4>1 DEF NextSource
      <4>3. CasesOf(NextSource)' = CasesOf(queue) /\ DoneIn(NextSource)' = DoneIn(queue)
        BY <4>2 DEF CasesOf, DoneIn, Full
      <4>. QED  BY <4>1, <4>3 DEF Recoverable
    <3>. QED  BY <3>1, <3>2
  <2>4. CASE ClearQueue
    <3>1. CASE in_place_resume
      BY <2>4, <3>1, FromResume DEF ClearQueue, IInv, Starts
    <3>2. CASE ~in_place_resume
      BY <2>4, <3>2, <2>0, NothingAtStake DEF ClearQueue, IInv, Starts
    <3>. QED  BY <3>1, <3>2
  <2>5. CASE MakeDirs
    <3>1. CASE ~Bare(resume)
      BY <2>5, <3>1, FromResume DEF MakeDirs
    <3>2. CASE Bare(resume)
      <4>1. NextSource = resume /\ CasesOf(resume) = {}
        BY <2>5, <3>2, OutDirAssumption DEF MakeDirs, NextSource, Bare, There, Full, CasesOf
      <4>2. stake = {} /\ done = {} /\ UNCHANGED <<stake, done>>
        BY <2>0, <2>5, <4>1 DEF Recoverable, MakeDirs
      <4>. QED  BY <4>2, NothingAtStake
    <3>. QED  BY <3>1, <3>2
  <2>6. CASE \E i \in Ids : Link(i)
    <3>1. pc = "link" /\ UNCHANGED <<resume, stake, done>>
      BY <2>6 DEF Link
    <3>2. CASE in_place_resume
      <4>1. Full(resume) # {}
        BY <3>1, <3>2 DEF IInv, Linked, Source
      <4>2. ~Bare(resume)
        BY <4>1, OutDirAssumption DEF Bare, There, Full
      <4>. QED  BY <3>1, <4>2, FromResume
    <3>3. CASE ~in_place_resume
      BY <3>1, <3>3, <2>0, NothingAtStake DEF IInv, Starts
    <3>. QED  BY <3>2, <3>3
  <2>7. CASE Nuke
    <3>1. pc = "nuke" /\ UNCHANGED <<queue, saving, stake, done>>
      BY <2>7 DEF Nuke, memory
    <3>2. CasesOf(resume) \subseteq CasesOf(queue) /\ DoneIn(resume) \subseteq DoneIn(queue)
      BY <3>1 DEF IInv, Moved
    <3>3. stake \subseteq CasesOf(queue) /\ done \subseteq DoneIn(queue)
      <4>1. CASE NextSource = queue
        BY <4>1 DEF Recoverable
      <4>2. CASE NextSource = resume
        BY <3>2, <4>2 DEF Recoverable
      <4>. QED  BY <4>1, <4>2 DEF NextSource
    <3>. QED  BY <3>1, <3>3
  <2>8. CASE DryRun
    <3>1. /\ pc = "dry_run" /\ queue.exists /\ UNCHANGED <<queue, resume, in_place_resume, done>>
          /\ stake' = stake \cup CasesOf(queue)
      BY <2>8 DEF DryRun, Step, IInv, FilesOK
    <3>2. CASE Bare(resume)
      BY <2>8, <3>1, <3>2, FromQueue DEF CasesOf, DoneIn, Full
    <3>3. CASE ~Bare(resume)
      <4>1. resume = NoDir \/ ~in_place_resume
        BY <3>1 DEF IInv, Starts, TypeOK
      <4>2. ~in_place_resume
        BY <3>3, <4>1, NoDirBare
      <4>3. stake = {} /\ done = {}
        BY <2>0, <3>1, <4>2 DEF IInv, Starts
      <4>. QED  BY <3>1, <3>3, <4>2, <4>3 DEF LeftOver
    <3>. QED  BY <3>2, <3>3
  <2>9. CASE Fuzzing
    <3>1. /\ pc \in {"fuzz"} \cup Written /\ pc' \in {"fuzz"} \cup Written /\ IInv'
          /\ resume' = resume /\ in_place_resume' = in_place_resume
      BY <2>9, FuzzingPlaces
    <3>2. queue.exists /\ queue'.exists
      BY <3>1 DEF IInv, FilesOK, Written
    <3>3. CasesOf(queue)' = CasesOf(queue') /\ DoneIn(queue)' = DoneIn(queue')
      BY DEF CasesOf, DoneIn, Full
    <3>4. CASE Bare(resume)
      <4>1. stake \subseteq CasesOf(queue) /\ done \subseteq DoneIn(queue)
        BY <3>1, <3>2, <3>4, FromQueue
      <4>2. /\ stake' \ {saving'} \subseteq CasesOf(queue)' /\ done' \ {saving'} \subseteq DoneIn(queue)'
            /\ pc' = "create" \/ (stake' \subseteq CasesOf(queue)' /\ done' \subseteq DoneIn(queue)')
        BY <2>9, <4>1, FuzzingKeeps
      <4>3. pc' = "create"
        BY <3>1, <3>2, <3>4, <4>2, FromQueue
      <4>. QED  BY <3>3, <4>2, <4>3
    <3>5. CASE ~Bare(resume)
      <4>1. resume = NoDir \/ ~in_place_resume
        BY <3>1 DEF IInv, Starts, TypeOK
      <4>2. ~in_place_resume
        BY <3>5, <4>1, NoDirBare
      <4>3. stake' \ {saving'} \subseteq CasesOf(queue)' /\ done' \ {saving'} \subseteq DoneIn(queue)'
        BY <3>1, <4>2 DEF IInv, Stakes
      <4>. QED  BY <3>3, <3>5, <4>2, <4>3 DEF LeftOver
    <3>. QED  BY <3>4, <3>5
  <2>. QED  BY <2>1, <2>2, <2>3, <2>4, <2>5, <2>6, <2>7, <2>8, <2>9 DEF Next, Fuzzing
<1>. QED  BY <1>1, InvHolds, PTL DEF Spec, KillsLoseNothing
=============================================================================
