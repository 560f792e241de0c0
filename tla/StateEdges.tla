----------------------------- MODULE StateEdges -----------------------------
(***************************************************************************)
(* What the state monitors promise the fuzzer: the state map of a run has  *)
(* one entry for each pair of consecutive values, of the state machine     *)
(* variables and of the other monitored variables, in the order in which   *)
(* the run assigned them.  How the monitors remember the value before, and *)
(* which values of a variable they leave out, is not said here.            *)
(***************************************************************************)
CONSTANTS Words, Zero

VARIABLES
  map,        \* the edges in the state map
  prev_sm,    \* <<the last reported value of a state machine variable>>, <<>> before
  prev_sub    \* <<the last reported value of any other variable>>, <<>> before

vars == <<map, prev_sm, prev_sub>>

Init == map = {} /\ prev_sm = <<>> /\ prev_sub = <<>>

NewRun == map' = {} /\ prev_sm' = <<>> /\ prev_sub' = <<>>

(* The first value of a run has an edge from itself or from the zero word. *)
StateMachine(w) ==
  /\ map' = map \cup {<<IF prev_sm = <<>> THEN w ELSE prev_sm[1], w>>}
  /\ prev_sm' = <<w>>
  /\ UNCHANGED prev_sub

Substate(w) ==
  /\ \E from \in IF prev_sub = <<>> THEN {w, Zero} ELSE {prev_sub[1]} :
       map' = map \cup {<<from, w>>}
  /\ prev_sub' = <<w>>
  /\ UNCHANGED prev_sm

Next == NewRun \/ \E w \in Words : StateMachine(w) \/ Substate(w)

Spec == Init /\ [][Next]_vars
=============================================================================
