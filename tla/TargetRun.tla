----------------------------- MODULE TargetRun -----------------------------
(***************************************************************************)
(* What run_target promises its callers, whatever processes, pipes and     *)
(* signals stand behind it: test cases are run one at a time, and each run *)
(* returns an outcome that its own test case explains, unless the user     *)
(* interrupts the session.                                                 *)
(***************************************************************************)
EXTENDS Naturals

CONSTANT Behaviours

VARIABLES uses_asan, direct,   \* how the session is set up
          phase,      \* "idle", "running", or "off" when the session is over
          behaviour,  \* what the target does with the test case
          verdict     \* the fault run_target returned last
vars == <<uses_asan, direct, phase, behaviour, verdict>>

(* The faults that explain a behaviour.  Any run may be slow enough to be  *)
(* timed out; an execv that fails is reported only without a fork server.  *)
Outcomes(b) ==
  {"tmout"} \cup (IF direct THEN {"error"} ELSE {})
  \cup CASE b = "crash" -> {"crash"}
         [] b = "msan"  -> IF uses_asan THEN {"crash"} ELSE {"none"}
         [] b = "hang"  -> {}
         [] OTHER       -> {"none"}

Init ==
  /\ uses_asan \in BOOLEAN /\ direct \in BOOLEAN
  /\ phase = "idle" /\ behaviour = "ok" /\ verdict = "none"

Run(b) ==
  /\ phase = "idle"
  /\ phase' = "running" /\ behaviour' = b
  /\ UNCHANGED <<uses_asan, direct, verdict>>

Return ==
  /\ phase = "running"
  /\ phase' = "idle" /\ verdict' \in Outcomes(behaviour)
  /\ UNCHANGED <<uses_asan, direct, behaviour>>

(* The session ends: the outcome of a run cut short means nothing, and the *)
(* last test case may never have been run.                                 *)
Stop ==
  /\ phase' = "off"
  /\ behaviour' \in Behaviours
  /\ verdict' \in {"none", "crash", "tmout", "error"}
  /\ UNCHANGED <<uses_asan, direct>>

Next == (\E b \in Behaviours : Run(b)) \/ Return \/ Stop
Spec == Init /\ [][Next]_vars
=============================================================================
