---------------------------- MODULE StateMonitor ----------------------------
(***************************************************************************)
(* The monitors the instrumentation calls when the target assigns a state  *)
(* variable (afl-llvm-rt.o.c): they report an edge of the state map for    *)
(* each pair of consecutive values.  A word is the set of its one bits, so *)
(* that the exclusive or with the current state is what it is in C; the    *)
(* hash of an edge is the edge, and the map is the set of the edges hit.   *)
(*                                                                         *)
(* The rings and the current state belong to the process and start over    *)
(* with each run.  The arrays of the single-valued variables live in the   *)
(* shared memory next to the maps, and nobody ever clears them.            *)
(***************************************************************************)
EXTENDS Naturals, FiniteSets

CONSTANTS
  Bits,          \* of a word
  Sign,          \* the highest of 32
  StateWords,    \* values of the state machine variables
  Positions,     \* numbers of the single-valued variables
  MaxFeed,       \* MAX_SINGLE_STATE_FEED
  MaxHits        \* bound on the monitored assignments of a run

ASSUME MonitorAssumption == MaxFeed \in Nat \ {0} /\ MaxHits \in Nat /\ IsFiniteSet(Bits)
                             /\ StateWords \subseteq SUBSET Bits

Words == SUBSET Bits
Zero  == {}
Xor(a, b) == (a \ b) \cup (b \ a)
Slots == 0..MaxFeed - 1

VARIABLES
  has_state,         \* whether the target has a state machine variable
  state,             \* CurrentStateMachineState
  stateMachine,      \* stateMachineAssistVar
  substate,          \* substateAssistVar
  single,            \* singleStateArray
  map,               \* the state map, trace_bits_sensitive
  hits,              \* monitored assignments of this run
  fed, lost          \* history: single values that were reported once, and
                     \* those of them that a later assignment did not report

rings == <<stateMachine, substate>>
monitorVars == <<has_state, state, rings, single, map, hits, fed, lost>>

Fresh == [last |-> 0, cur |-> 0, loop |-> [i \in 0..1 |-> Zero]]
Empty == [cur |-> 0, array |-> [i \in Slots |-> Zero]]

MonitorInit ==
  /\ has_state \in BOOLEAN /\ state = Zero
  /\ stateMachine = Fresh /\ substate = Fresh
  /\ single = [p \in Positions |-> Empty]
  /\ map = {} /\ hits = 0 /\ fed = {} /\ lost = {}

-----------------------------------------------------------------------------
(* A new run: the fuzzer clears the maps, and the process is a new one or  *)
(* __afl_persistent_loop resets its variables.  The shared arrays stay.    *)
StaleRing == substate        \* a fault: the ring is not reset between iterations
FirstRing == Fresh

NewRun ==
  /\ map' = {} /\ hits' = 0 /\ state' = Zero
  /\ stateMachine' = Fresh /\ substate' = FirstRing
  /\ UNCHANGED <<has_state, single, fed, lost>>

(* Store w in the ring, then updatePos.                                    *)
Stuck(r) == [r EXCEPT !.cur = (r.cur + 1) % 2]  \* a fault: last does not follow
Moved(r) == [last |-> r.cur, cur |-> (r.cur + 1) % 2, loop |-> r.loop]
Pushed(r, w) == Moved([last |-> r.last, cur |-> r.cur, loop |-> [r.loop EXCEPT ![r.cur] = w]])

(* The edge from the ring's last word, read after w is stored or before.   *)
EdgeAfter(r, w)  == <<IF r.last = r.cur THEN w ELSE r.loop[r.last], w>>
EdgeBefore(r, w) == <<r.loop[r.last], w>>

Hit == hits < MaxHits /\ hits' = hits + 1 /\ UNCHANGED has_state

(* stateMachineVarMonitor_*                                                *)
StateMachineVar(w) ==
  /\ Hit /\ has_state
  /\ state' = w
  /\ map' = map \cup {EdgeAfter(stateMachine, w)}
  /\ stateMachine' = Pushed(stateMachine, w)
  /\ UNCHANGED <<substate, single, fed, lost>>

(* make_sensitive_for_multistate_*                                         *)
MultiState(w) ==
  /\ Hit
  /\ map' = map \cup {EdgeAfter(substate, Xor(state, w))}
  /\ substate' = Pushed(substate, Xor(state, w))
  /\ UNCHANGED <<state, stateMachine, single, fed, lost>>

(* make_sensitive_for_singlestate_*: a value in the array is reported; a   *)
(* value that is not is reported and stored while there is room.           *)
(* findInArray takes the word as an int and compares it with the 64 bits   *)
(* of a slot: one with the sign bit is extended and never found.           *)
FoundShort(p, w) ==           \* a fault: the last slot is not looked at
  Sign \notin w /\ \E i \in 0..MaxFeed - 2 : single[p].array[i] = w
Found(p, w) == Sign \notin w /\ \E i \in Slots : single[p].array[i] = w

ReportSingle(p, w) ==
  /\ map' = map \cup {EdgeBefore(substate, Xor(state, w))}
  /\ substate' = Pushed(substate, Xor(state, w))
  /\ fed' = fed \cup {<<p, state, w>>}
  /\ UNCHANGED <<state, stateMachine, lost>>

KnownSingle(p, w) ==
  /\ Hit /\ Found(p, w)
  /\ ReportSingle(p, w)
  /\ UNCHANGED single

RoomOneMore(p) == single[p].cur <= MaxFeed      \* a fault: > for >=
RoomFor(p) == single[p].cur < MaxFeed

NewSingle(p, w) ==
  /\ Hit /\ ~Found(p, w) /\ RoomFor(p)
  /\ ReportSingle(p, w)
  /\ single' = [single EXCEPT ![p] = [cur |-> @.cur + 1, array |-> [@.array EXCEPT ![single[p].cur] = Xor(state, w)]]]

DropSingle(p, w) ==
  /\ Hit /\ ~Found(p, w) /\ ~RoomFor(p)
  /\ lost' = lost \cup (fed \cap {<<p, state, w>>})
  /\ UNCHANGED <<state, rings, single, map, fed>>

MonitorNext ==
  \/ NewRun
  \/ \E w \in StateWords : StateMachineVar(w)
  \/ \E w \in Words : MultiState(w)
  \/ \E p \in Positions, w \in Words : KnownSingle(p, w) \/ NewSingle(p, w) \/ DropSingle(p, w)

MonitorSpec == MonitorInit /\ [][MonitorNext]_monitorVars

-----------------------------------------------------------------------------
(* Properties. *)

Ring == [last : 0..1, cur : 0..1, loop : [0..1 -> Words]]

(* No index leaves its array.                                              *)
MonitorTypeOK ==
  /\ has_state \in BOOLEAN /\ state \in Words
  /\ stateMachine \in Ring /\ substate \in Ring
  /\ single \in [Positions -> [cur : 0..MaxFeed, array : [Slots -> Words]]]
  /\ map \subseteq Words \X Words /\ hits \in 0..MaxHits
  /\ fed \subseteq Positions \X Words \X Words /\ lost \subseteq fed

(* The two rings of two words implement "the value before" of a run: no    *)
(* edge skips a value, and none leads over from an earlier run.            *)
Prev(r) == IF r.last = 0 /\ r.cur = 0 THEN <<>> ELSE <<r.loop[r.last]>>
Edges == INSTANCE StateEdges WITH prev_sm <- Prev(stateMachine), prev_sub <- Prev(substate)
Implements == Edges!Spec

(* A variable adds at most MaxFeed values to the map, over all runs; zero, *)
(* which an unused slot holds, is let through on top of them.              *)
FeedBounded ==
  ~has_state =>
    \A p \in Positions : Cardinality({w \in Words \ {Zero} : <<p, Zero, w>> \in fed}) <= MaxFeed

(* Without a state machine variable a value that was reported once is      *)
(* always reported: the state map of a test case does not lose edges       *)
(* because of what other test cases did to the shared arrays.  Zero and    *)
(* the words that findInArray cannot find are apart.                       *)
Findable(w) == w # Zero /\ Sign \notin w
KnownStaysKnown == ~has_state => \A v \in lost : ~Findable(v[3])

(* Does not hold of the code: the comments in                              *)
(* make_sensitive_for_singlestate_* call a value that is in the array "not *)
(* a new state value" and report it, but under a state other than zero the *)
(* array holds the value combined with the state, and the lookup is for    *)
(* the plain one.                                                          *)
KnownAlwaysReported == \A v \in lost : ~Findable(v[3])
=============================================================================
