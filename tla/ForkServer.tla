----------------------------- MODULE ForkServer -----------------------------
(***************************************************************************)
(* Executing one test case.  Three processes and a timer cooperate: the    *)
(* fuzzer inside run_target, the fork server injected into the target, and *)
(* the child that processes the test case.  Two pipes connect the fuzzer   *)
(* to the fork server (fsrv_ctl carries was_killed words, fsrv_st carries  *)
(* the hello, pids and wait statuses), SIGALRM and SIGINT interrupt the    *)
(* fuzzer between any two of its steps, and in persistent mode one child   *)
(* processes several test cases, stopping itself after each.               *)
(*                                                                         *)
(* Pids are numbered in the order of the forks, so that a stale pid is     *)
(* never mistaken for a live one.  A kill takes effect at once: a child    *)
(* that still finishes before the signal is delivered gives the same state *)
(* as one that finishes before the kill.                                   *)
(***************************************************************************)
EXTENDS Integers, Sequences

CONSTANTS
  MaxCnt,      \* max_cnt, the iterations of __AFL_LOOP in one process
  MaxRuns      \* bound on the runs explored

ASSUME CountAssumption == MaxCnt \in Nat \ {0} /\ MaxRuns \in Nat

VARIABLES
  mode,             \* set up once: "direct" forks and execs every run (dumb_mode == 1 or
                    \* no_forkserver), "fork" uses the fork server, "persistent" an __AFL_LOOP
  uses_asan,        \* set up once
  fuzzer,           \* where run_target or init_forkserver stands
  child_pid,        \* the fuzzer's child_pid: initially -1, 0 once the child is reaped
  child_timed_out, prev_timed_out, stop_soon,
  timer,            \* ITIMER_REAL is armed
  status,           \* the wait status run_target received last
  verdict,          \* what the last completed run_target returned
  run,              \* number of runs started; names the test case on disk
  behaviour,        \* what the target does with that test case
  fsrv_ctl, fsrv_st,\* the pipes
  server,           \* where __afl_start_forkserver stands; "dead" by a signal or before
                    \* it came up, "failed" when its fork failed
  child_stopped, srv_child, srv_status,   \* its locals
  proc,             \* state of the child process
  proc_pid, proc_input, proc_behaviour, cycle_cnt,
  forks,            \* children forked so far
  trace             \* the runs whose hits are in trace_bits

setup      == <<mode, uses_asan>>
fuzzerVars == <<setup, fuzzer, child_pid, child_timed_out, prev_timed_out, stop_soon, timer,
                status, verdict, run, behaviour>>
serverVars == <<server, child_stopped, srv_child, srv_status>>
procVars   == <<proc, proc_pid, proc_input, proc_behaviour, cycle_cnt, forks>>
vars == <<fuzzerVars, fsrv_ctl, fsrv_st, serverVars, procVars, trace>>

Direct     == mode = "direct"
Persistent == mode = "persistent"

Behaviours == {"ok", "crash", "hang", "msan"}   \* msan: exits with MSAN_ERROR
Dead       == {"exited", "crashed", "killed", "msan", "execfail"}   \* not reaped yet
Alive      == {"fresh", "busy", "stopped"}      \* fresh: has not read its input yet
Statuses   == Dead \cup {"stopped"}

Hello       == [kind |-> "hello",  pid |-> 0, status |-> "exited"]
PidMsg(p)   == [kind |-> "pid",    pid |-> p, status |-> "exited"]
StatMsg(s)  == [kind |-> "status", pid |-> 0, status |-> s]
Messages    == [kind : {"hello", "pid", "status"}, pid : Nat, status : Statuses]

-----------------------------------------------------------------------------
Init ==
  /\ mode \in {"direct", "fork", "persistent"} /\ uses_asan \in BOOLEAN
  /\ fuzzer = IF Direct THEN "idle" ELSE "handshake"
  /\ child_pid = -1 /\ timer = ~Direct
  /\ child_timed_out = FALSE /\ prev_timed_out = FALSE /\ stop_soon = FALSE
  /\ status = "exited" /\ verdict = "none" /\ run = 0 /\ behaviour = "ok"
  /\ fsrv_ctl = <<>> /\ fsrv_st = <<>>
  /\ server = IF Direct THEN "none" ELSE "boot"
  /\ child_stopped = FALSE /\ srv_child = 0 /\ srv_status = "exited"
  /\ proc = "none" /\ proc_pid = 0 /\ proc_input = 0 /\ proc_behaviour = "ok"
  /\ cycle_cnt = 0 /\ forks = 0 /\ trace = {}

(* kill(p, SIGKILL) *)
KillChild(p) ==
  proc' = IF p > 0 /\ p = proc_pid /\ proc \in Alive THEN "killed" ELSE proc

(* fork(): the new process has not read its input yet. *)
Fork ==
  /\ forks' = forks + 1
  /\ proc' = "fresh" /\ proc_pid' = forks' /\ cycle_cnt' = MaxCnt
  /\ UNCHANGED <<proc_input, proc_behaviour>>

-----------------------------------------------------------------------------
(* The fuzzer. *)

(* init_forkserver: the fork server came up and the timer is disarmed.     *)
HandshakeDone ==
  /\ fuzzer = "handshake" /\ fsrv_st # <<>>
  /\ fsrv_st' = Tail(fsrv_st)
  /\ timer' = FALSE /\ fuzzer' = "idle"
  /\ UNCHANGED <<setup, child_pid, child_timed_out, prev_timed_out, stop_soon, status, verdict, run,
                 behaviour, fsrv_ctl, serverVars, procVars, trace>>

(* The status pipe is at end of file: the fork server is gone.  Fatal in   *)
(* init_forkserver; run_target returns quietly when stop_soon is set.      *)
ServerGone ==
  /\ fuzzer \in {"handshake", "await_pid", "await_status"} /\ ~Direct
  /\ server \in {"dead", "failed"} /\ fsrv_st = <<>>
  /\ IF fuzzer # "handshake" /\ stop_soon
     THEN fuzzer' = "stopped" /\ verdict' = "none"
     ELSE fuzzer' = "fatal" /\ UNCHANGED verdict
  /\ UNCHANGED <<setup, child_pid, child_timed_out, prev_timed_out, stop_soon, timer, status, run,
                 behaviour, fsrv_ctl, fsrv_st, serverVars, procVars, trace>>

(* memset(trace_bits, 0, MAP_SIZE) *)
NotCleared   == trace          \* a fault: the memset is left out
ClearedTrace == {}

(* write_to_testcase, then run_target up to the request to the fork server. *)
StartRun(b) ==
  /\ fuzzer = "idle" /\ ~Direct /\ ~stop_soon /\ run < MaxRuns
  /\ run' = run + 1 /\ behaviour' = b
  /\ child_timed_out' = FALSE
  /\ trace' = ClearedTrace
  /\ fsrv_ctl' = Append(fsrv_ctl, prev_timed_out)
  /\ fuzzer' = "await_pid"
  /\ UNCHANGED <<setup, child_pid, timer, prev_timed_out, stop_soon, status, verdict, fsrv_st,
                 serverVars, procVars>>

(* Without a fork server, up to the fork and the timer. *)
StartDirect(b) ==
  /\ fuzzer = "idle" /\ Direct /\ ~stop_soon /\ run < MaxRuns
  /\ run' = run + 1 /\ behaviour' = b
  /\ child_timed_out' = FALSE
  /\ trace' = ClearedTrace
  /\ Fork
  /\ child_pid' = forks' /\ timer' = TRUE
  /\ fuzzer' = "await_status"
  /\ UNCHANGED <<setup, prev_timed_out, stop_soon, status, verdict, fsrv_ctl, fsrv_st, serverVars>>

(* fork fails in the fuzzer itself, which gives up. *)
DirectForkFails(b) ==
  /\ fuzzer = "idle" /\ Direct /\ ~stop_soon /\ run < MaxRuns
  /\ run' = run + 1 /\ behaviour' = b
  /\ child_timed_out' = FALSE
  /\ trace' = ClearedTrace
  /\ child_pid' = -1
  /\ fuzzer' = "fatal"
  /\ UNCHANGED <<setup, timer, prev_timed_out, stop_soon, status, verdict, fsrv_ctl, fsrv_st, serverVars,
                 procVars>>

(* The pid arrives and the timeout is armed. *)
ReadPid ==
  /\ fuzzer = "await_pid" /\ fsrv_st # <<>>
  /\ fsrv_st' = Tail(fsrv_st)
  /\ child_pid' = Head(fsrv_st).pid
  /\ IF child_pid' = 0 THEN fuzzer' = "fatal" /\ UNCHANGED timer
                       ELSE fuzzer' = "await_status" /\ timer' = TRUE
  /\ UNCHANGED <<setup, child_timed_out, prev_timed_out, stop_soon, status, verdict, run, behaviour,
                 fsrv_ctl, serverVars, procVars, trace>>

(* The wait status arrives; a child that is gone is forgotten. *)
ReadStatus ==
  /\ fuzzer = "await_status" /\ ~Direct /\ fsrv_st # <<>>
  /\ fsrv_st' = Tail(fsrv_st)
  /\ status' = Head(fsrv_st).status
  /\ child_pid' = IF status' = "stopped" THEN child_pid ELSE 0
  /\ fuzzer' = "disarm"
  /\ UNCHANGED <<setup, child_timed_out, prev_timed_out, stop_soon, timer, verdict, run, behaviour,
                 fsrv_ctl, serverVars, procVars, trace>>

(* Without a fork server the fuzzer reaps the child itself. *)
ReapDirect ==
  /\ fuzzer = "await_status" /\ Direct /\ proc \in Dead
  /\ status' = proc /\ proc' = "none"
  /\ child_pid' = 0
  /\ fuzzer' = "disarm"
  /\ UNCHANGED <<setup, child_timed_out, prev_timed_out, stop_soon, timer, verdict, run, behaviour,
                 fsrv_ctl, fsrv_st, serverVars, proc_pid, proc_input, proc_behaviour, cycle_cnt,
                 forks, trace>>

(* A fault: any signal is a crash. *)
VerdictNoTimeout(s) == IF s \in {"crashed", "killed"} /\ ~stop_soon THEN "crash" ELSE "none"
Verdict(s) ==
  CASE s \in {"crashed", "killed"} /\ ~stop_soon ->
         IF child_timed_out /\ s = "killed" THEN "tmout" ELSE "crash"
    [] s = "msan" /\ uses_asan -> "crash"
    [] s = "execfail" /\ Direct -> "error"
    [] OTHER -> "none"

(* The timer is disarmed and run_target reports the outcome. *)
FinishRun ==
  /\ fuzzer = "disarm"
  /\ timer' = FALSE
  /\ prev_timed_out' = child_timed_out
  /\ verdict' = Verdict(status)
  /\ fuzzer' = IF stop_soon THEN "stopped" ELSE "idle"
  /\ UNCHANGED <<setup, child_pid, child_timed_out, stop_soon, status, run, behaviour, fsrv_ctl, fsrv_st,
                 serverVars, procVars, trace>>

(* SIGALRM: handle_timeout.  The timer has no interval: it fires once.     *)
(* Before the first pid is known the fork server is what hangs.            *)
KillsServerLate == child_pid \in {-1, 0}   \* a fault: <= 0 for == -1
KillsServer     == child_pid = -1

AlarmBase ==
  /\ timer /\ fuzzer # "fatal"
  /\ timer' = FALSE
  /\ child_timed_out' = (child_pid > 0 \/ KillsServer \/ child_timed_out)
  /\ KillChild(child_pid)
  /\ server' = IF KillsServer THEN "dead" ELSE server
  /\ UNCHANGED <<setup, child_pid, prev_timed_out, stop_soon, status, verdict, run, behaviour,
                 fsrv_ctl, fsrv_st, child_stopped, srv_child, srv_status, proc_pid, proc_input,
                 proc_behaviour, cycle_cnt, forks, trace>>

(* A fault: run_target gives up on the run without reading its status. *)
AlarmAbandons ==
  /\ AlarmBase
  /\ fuzzer' = IF fuzzer = "await_status" THEN "disarm" ELSE fuzzer

Alarm == AlarmBase /\ UNCHANGED fuzzer

(* SIGINT: handle_stop_sig. *)
Interrupt ==
  /\ ~stop_soon /\ fuzzer \notin {"stopped", "fatal"}
  /\ stop_soon' = TRUE
  /\ KillChild(child_pid)
  /\ server' = IF server = "none" THEN "none" ELSE "dead"
  /\ UNCHANGED <<setup, fuzzer, child_pid, child_timed_out, prev_timed_out, timer, status, verdict, run,
                 behaviour, fsrv_ctl, fsrv_st, child_stopped, srv_child, srv_status, proc_pid,
                 proc_input, proc_behaviour, cycle_cnt, forks, trace>>

-----------------------------------------------------------------------------
(* The fork server: __afl_start_forkserver. *)

FsHello ==
  /\ server = "boot"
  /\ fsrv_st' = Append(fsrv_st, Hello)
  /\ server' = "read"
  /\ UNCHANGED <<fuzzerVars, fsrv_ctl, child_stopped, srv_child, srv_status, procVars, trace>>

(* execv failed, or the target died before it reached the fork server. *)
FsBootFail ==
  /\ server = "boot"
  /\ server' = "dead"
  /\ UNCHANGED <<fuzzerVars, fsrv_ctl, fsrv_st, child_stopped, srv_child, srv_status, procVars,
                 trace>>

(* A stopped child the fuzzer has already killed is written off first. *)
WritesOffAnyStopped(was_killed) == child_stopped   \* a fault: was_killed is not asked for
WritesOff(was_killed) == child_stopped /\ was_killed

FsRead ==
  /\ server = "read" /\ fsrv_ctl # <<>>
  /\ fsrv_ctl' = Tail(fsrv_ctl)
  /\ server' = IF WritesOff(Head(fsrv_ctl)) THEN "reap" ELSE "launch"
  /\ UNCHANGED <<fuzzerVars, fsrv_st, child_stopped, srv_child, srv_status, procVars, trace>>

FsReap ==
  /\ server = "reap" /\ proc \in Dead
  /\ proc' = "none"
  /\ child_stopped' = FALSE
  /\ server' = "launch"
  /\ UNCHANGED <<fuzzerVars, fsrv_ctl, fsrv_st, srv_child, srv_status, proc_pid, proc_input,
                 proc_behaviour, cycle_cnt, forks, trace>>

(* Fork a new child, or wake the stopped one with SIGCONT. *)
FsLaunch ==
  /\ server = "launch"
  /\ IF ~child_stopped
     THEN Fork /\ srv_child' = forks' /\ UNCHANGED child_stopped
     ELSE /\ proc' = IF proc = "stopped" THEN "fresh" ELSE proc
          /\ child_stopped' = FALSE
          /\ UNCHANGED <<srv_child, proc_pid, proc_input, proc_behaviour, cycle_cnt, forks>>
  /\ server' = "send_pid"
  /\ UNCHANGED <<fuzzerVars, fsrv_ctl, fsrv_st, srv_status, trace>>

(* fork fails, and the server leaves without a word: _exit(1). *)
FsForkFails ==
  /\ server = "launch" /\ ~child_stopped
  /\ server' = "failed"
  /\ UNCHANGED <<fuzzerVars, fsrv_ctl, fsrv_st, child_stopped, srv_child, srv_status, procVars, trace>>

FsSendPid ==
  /\ server = "send_pid"
  /\ fsrv_st' = Append(fsrv_st, PidMsg(srv_child))
  /\ server' = "wait"
  /\ UNCHANGED <<fuzzerVars, fsrv_ctl, child_stopped, srv_child, srv_status, procVars, trace>>

(* waitpid, with WUNTRACED in persistent mode. *)
FsWait ==
  /\ server = "wait"
  /\ proc \in Dead \/ (Persistent /\ proc = "stopped")
  /\ srv_status' = proc
  /\ child_stopped' = (proc = "stopped")
  /\ proc' = IF proc = "stopped" THEN proc ELSE "none"
  /\ server' = "relay"
  /\ UNCHANGED <<fuzzerVars, fsrv_ctl, fsrv_st, srv_child, proc_pid, proc_input, proc_behaviour,
                 cycle_cnt, forks, trace>>

FsRelay ==
  /\ server = "relay"
  /\ fsrv_st' = Append(fsrv_st, StatMsg(srv_status))
  /\ server' = "read"
  /\ UNCHANGED <<fuzzerVars, fsrv_ctl, child_stopped, srv_child, srv_status, procVars, trace>>

-----------------------------------------------------------------------------
(* The child. *)

ChildRead ==
  /\ proc = "fresh"
  /\ proc' = "busy"
  /\ proc_input' = run /\ proc_behaviour' = behaviour
  /\ UNCHANGED <<fuzzerVars, fsrv_ctl, fsrv_st, serverVars, proc_pid, cycle_cnt, forks, trace>>

(* A busy child hits instrumented code; the shared map remembers for whom. *)
ChildHit ==
  /\ proc = "busy" /\ proc_input \notin trace
  /\ trace' = trace \cup {proc_input}
  /\ UNCHANGED <<fuzzerVars, fsrv_ctl, fsrv_st, serverVars, procVars>>

(* Without a fork server execv itself can fail. *)
ExecFails ==
  /\ proc = "fresh" /\ Direct
  /\ proc' = "execfail"
  /\ UNCHANGED <<fuzzerVars, fsrv_ctl, fsrv_st, serverVars, proc_pid, proc_input, proc_behaviour,
                 cycle_cnt, forks, trace>>

(* --cycle_cnt in __afl_persistent_loop *)
LoopsForever == Persistent     \* a fault: the count is never compared with zero
LoopsAgain   == Persistent /\ cycle_cnt > 1

(* The test case is done, its last hits included.  __afl_persistent_loop   *)
(* raises SIGSTOP while iterations are left; otherwise the process exits.  *)
(* A hang never gets here.                                                 *)
ChildFinish ==
  /\ proc = "busy" /\ proc_behaviour # "hang"
  /\ LET stops == proc_behaviour = "ok" /\ LoopsAgain
     IN  /\ proc' = CASE proc_behaviour = "crash" -> "crashed"
                      [] proc_behaviour = "msan"  -> "msan"
                      [] OTHER -> IF stops THEN "stopped" ELSE "exited"
         /\ cycle_cnt' = IF stops THEN cycle_cnt - 1 ELSE cycle_cnt
  /\ trace' = trace \cup {proc_input}
  /\ UNCHANGED <<fuzzerVars, fsrv_ctl, fsrv_st, serverVars, proc_pid, proc_input, proc_behaviour,
                 forks>>

-----------------------------------------------------------------------------
RunTarget == HandshakeDone \/ ServerGone \/ ReadPid \/ ReadStatus \/ ReapDirect \/ FinishRun
Server    == FsHello \/ FsRead \/ FsReap \/ FsLaunch \/ FsSendPid \/ FsWait \/ FsRelay
Child     == ChildRead \/ ChildHit \/ ChildFinish

Next ==
  \/ HandshakeDone \/ ServerGone \/ (\E b \in Behaviours : StartRun(b) \/ StartDirect(b) \/ DirectForkFails(b))
  \/ ReadPid \/ ReadStatus
  \/ ReapDirect \/ FinishRun \/ Alarm \/ Interrupt
  \/ FsHello \/ FsBootFail \/ FsRead \/ FsReap \/ FsLaunch \/ FsForkFails \/ FsSendPid \/ FsWait \/ FsRelay
  \/ ChildRead \/ ChildHit \/ ExecFails \/ ChildFinish

Spec == Init /\ [][Next]_vars

(* The scheduler runs every process that can run, an armed timer expires.  *)
(* Nothing obliges the user to interrupt or the fuzzer to start a run.     *)
Fairness == WF_vars(RunTarget) /\ WF_vars(Server) /\ WF_vars(Child) /\ WF_vars(Alarm)
FairSpec == Spec /\ Fairness
-----------------------------------------------------------------------------
(* Properties. *)

FlagTypes ==
  /\ uses_asan \in BOOLEAN /\ timer \in BOOLEAN /\ child_timed_out \in BOOLEAN
  /\ prev_timed_out \in BOOLEAN /\ stop_soon \in BOOLEAN /\ child_stopped \in BOOLEAN
PlaceTypes ==
  /\ mode \in {"direct", "fork", "persistent"}
  /\ fuzzer \in {"handshake", "idle", "await_pid", "await_status", "disarm", "stopped", "fatal"}
  /\ status \in Statuses /\ verdict \in {"none", "crash", "tmout", "error"}
  /\ behaviour \in Behaviours
  /\ server \in {"none", "boot", "read", "reap", "launch", "send_pid", "wait", "relay", "dead", "failed"}
  /\ srv_status \in Statuses
  /\ proc \in {"none"} \cup Alive \cup Dead /\ proc_behaviour \in Behaviours
PipeTypes == fsrv_ctl \in Seq(BOOLEAN) /\ fsrv_st \in Seq(Messages)
CountTypes ==
  /\ child_pid \in Int /\ run \in Nat /\ srv_child \in Nat
  /\ proc_pid \in Nat /\ proc_input \in Nat
  /\ cycle_cnt \in Nat /\ forks \in Nat /\ trace \subseteq Nat

(* Every variable has its type; an iteration count never goes below zero.  *)
TypeOK == FlagTypes /\ PlaceTypes /\ PipeTypes /\ CountTypes

(* The two sides of the status pipe agree on what the next word is: the    *)
(* words carry no tag, so a fuzzer that expects a pid where the server has *)
(* sent a wait status would take one for the other (run_target, the reads  *)
(* at 2683 and 2716; __afl_start_forkserver, the writes).                  *)
Framing ==
  /\ Len(fsrv_ctl) <= 1
  /\ fsrv_st # <<>> =>
       \/ fuzzer = "handshake" /\ Head(fsrv_st).kind = "hello"
       \/ fuzzer = "await_pid" /\ Head(fsrv_st).kind = "pid"
       \/ fuzzer = "await_status" /\ Head(fsrv_st).kind = "status"

(* run_target gives up the session ("Fork server is misbehaving", "Unable  *)
(* to communicate") only because a fork failed, or because the target was  *)
(* lost before it forked its first child: no timeout, however late, takes  *)
(* down a fork server that has come up, and no word is read as a bad pid.  *)
GivenUpForCause ==
  fuzzer = "fatal" =>
    \/ Direct /\ child_pid = -1
    \/ server = "failed" /\ proc = "none"
    \/ server = "dead" /\ forks = 0

(* The bitmaps run_target classifies hold the hits of the current test     *)
(* case only: no child of an earlier run writes to the shared map after    *)
(* the memset (run_target 2582), and a child that was not killed has       *)
(* recorded all of its hits.                                               *)
TraceIsOfThisRun ==
  fuzzer = "disarm" =>
    /\ trace \subseteq {run}
    /\ ~stop_soon /\ status \in {"exited", "crashed", "stopped", "msan"} => trace = {run}

(* run_target keeps the promises of TargetRun. *)
Promise == INSTANCE TargetRun WITH
  direct <- Direct,
  phase <- IF stop_soon \/ fuzzer \in {"stopped", "fatal"} THEN "off"
           ELSE IF fuzzer \in {"handshake", "idle"} THEN "idle" ELSE "running"
Implements == Promise!Spec

(* Every run returns: a hanging child is killed, a stopped one is woken or *)
(* written off, and no interleaving of the timer with the fork server      *)
(* leaves the two waiting for each other.                                  *)
RunReturns == (fuzzer \in {"await_pid", "await_status", "disarm"})
                ~> (fuzzer \in {"idle", "stopped", "fatal"})
=============================================================================
