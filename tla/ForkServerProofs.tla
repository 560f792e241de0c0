-------------------------- MODULE ForkServerProofs --------------------------
(***************************************************************************)
(* Proofs about ForkServer, for every number of runs and iterations.       *)
(*                                                                         *)
(* The invariants TLC checks are not inductive: that the next word in the  *)
(* status pipe is a pid depends on where the server stands, and that a     *)
(* verdict is explained by its test case depends on what the child was     *)
(* doing when its status was collected.  IInv adds the two couplings:      *)
(* Link says which words can be in the pipes for each pair of program      *)
(* counters, and Children what the child may be doing meanwhile.           *)
(***************************************************************************)
EXTENDS ForkServer, SequenceTheorems, TLAPS

IsPid(m)      == m.kind = "pid" /\ m.pid > 0
IsStatus(m)   == m.kind = "status"
PidFirst      == Len(fsrv_st) = 1 /\ IsPid(fsrv_st[1])
PidThenStatus == Len(fsrv_st) = 2 /\ IsPid(fsrv_st[1]) /\ IsStatus(fsrv_st[2])
StatusFirst   == Len(fsrv_st) = 1 /\ IsStatus(fsrv_st[1])

(* The words in the pipes, by where the fuzzer and the fork server stand.  *)
Link ==
  \/ /\ fuzzer = "handshake" /\ fsrv_ctl = <<>>
     /\ \/ fsrv_st = <<>>      /\ server \in {"boot", "dead"}
        \/ fsrv_st = <<Hello>> /\ server \in {"read", "dead"}
  \/ /\ fuzzer \in {"idle", "disarm"} /\ fsrv_ctl = <<>> /\ fsrv_st = <<>>
     /\ server \in {"read", "dead"}
  \/ /\ fuzzer = "await_pid" /\ fsrv_ctl = <<prev_timed_out>> /\ fsrv_st = <<>>
     /\ server \in {"read", "dead"}
  \/ /\ fuzzer = "await_pid" /\ fsrv_ctl = <<>>
     /\ \/ fsrv_st = <<>>   /\ server \in {"reap", "launch", "send_pid", "dead", "failed"}
        \/ PidFirst         /\ server \in {"wait", "relay", "dead"}
        \/ PidThenStatus    /\ server \in {"read", "dead"}
  \/ /\ fuzzer = "await_status" /\ fsrv_ctl = <<>>
     /\ \/ fsrv_st = <<>>   /\ server \in {"wait", "relay", "dead"}
        \/ StatusFirst      /\ server \in {"read", "dead"}
  \/ /\ fuzzer \in {"stopped", "fatal"} /\ Len(fsrv_ctl) <= 1 /\ fsrv_st = <<>>
     /\ server \in {"dead", "failed"}

(* Without a fork server the pipes are not used.                           *)
DirectLink ==
  /\ fuzzer \in {"idle", "await_status", "disarm", "stopped", "fatal"}
  /\ fsrv_ctl = <<>> /\ fsrv_st = <<>> /\ server = "none"
  /\ fuzzer = "stopped" => ~timer

(* The outcome s of the current run is explained by its test case.         *)
Explained(s) ==
  /\ s \in {"exited", "stopped"} => behaviour = "ok"
  /\ s = "crashed" => behaviour = "crash"
  /\ s = "msan" => behaviour = "msan"
  /\ s = "killed" => child_timed_out
  /\ s = "execfail" => Direct
  /\ s \in {"exited", "stopped", "crashed", "msan"} => trace = {run}

(* What the child may be doing, while nobody has interrupted the session.  *)
Children ==
  /\ server \in {"boot", "read", "launch", "relay"} /\ ~child_stopped => proc = "none"
  /\ child_stopped =>
       server \in {"read", "reap", "launch", "relay"} /\ proc \in {"stopped", "killed"}
  /\ server = "reap" => child_stopped
  /\ fuzzer = "handshake" => ~child_stopped
  /\ server \in {"send_pid", "wait"} =>
       /\ proc # "none"
       /\ proc = "busy" => proc_behaviour = behaviour
       /\ proc \in Statuses => Explained(proc)
  /\ server = "relay" => Explained(srv_status)
  /\ server = "dead" => proc = "none" /\ child_pid = -1 /\ forks = 0 /\ fuzzer # "await_status"
                        /\ fuzzer # "disarm" /\ (fuzzer = "handshake" \/ fsrv_st = <<>>)
  /\ child_stopped /\ proc = "killed" =>
       CASE server = "reap" -> TRUE
         [] server = "launch" -> FALSE
         [] fuzzer = "idle" \/ fsrv_ctl # <<>> -> prev_timed_out
         [] OTHER -> child_timed_out

DirectChild ==
  /\ fuzzer = "await_status" =>
       /\ proc # "none" /\ child_pid # -1
       /\ proc = "busy" => proc_behaviour = behaviour
       /\ proc \in Statuses => Explained(proc)
  /\ fuzzer # "await_status" => proc = "none"
  /\ proc # "stopped"

(* What the fuzzer has been told, while nobody has interrupted it.         *)
Told ==
  /\ \A i \in 1..Len(fsrv_st) : IsStatus(fsrv_st[i]) => Explained(fsrv_st[i].status)
  /\ fuzzer = "disarm" => Explained(status)

Links == (Direct => DirectLink) /\ (~Direct => Link)
Pids ==
  /\ proc = "busy" => proc_input = run
  /\ trace \subseteq {run}
  /\ timer => fuzzer \notin {"idle", "await_pid"}
  /\ child_pid >= -1
  /\ fuzzer = "handshake" => child_pid = -1 /\ forks = 0
  /\ fuzzer \in {"await_status", "disarm"} => child_pid >= 0
  /\ GivenUpForCause
  /\ server = "failed" => proc = "none"
  /\ server \in {"send_pid", "wait", "relay"} => srv_child > 0
  /\ child_stopped => srv_child > 0
  /\ stop_soon => server \in {"dead", "none"}
  /\ fuzzer = "stopped" => stop_soon
Calm == ~stop_soon /\ fuzzer # "fatal"
Kids == Calm => (Direct => DirectChild) /\ (~Direct => Children)
Words == Calm => Told

IInv == TypeOK /\ Links /\ Pids /\ Kids /\ Words
-----------------------------------------------------------------------------
(* Every variable keeps its type: in particular no iteration count goes    *)
(* below zero in __afl_persistent_loop.                                    *)
LEMMA TypeInit == Init => TypeOK
<1> SUFFICES ASSUME Init PROVE TypeOK
  OBVIOUS
<1>1. FlagTypes
  BY DEF Init, FlagTypes
<1>2. PlaceTypes
  BY DEF Init, PlaceTypes, Statuses, Dead, Behaviours
<1>3. PipeTypes
  BY DEF Init, PipeTypes
<1>4. CountTypes
  BY DEF Init, CountTypes
<1>5. QED
  BY <1>1, <1>2, <1>3, <1>4 DEF TypeOK

LEMMA TypeNext == TypeOK /\ [Next]_vars => TypeOK'
<1> SUFFICES ASSUME TypeOK, [Next]_vars PROVE TypeOK'
  OBVIOUS
<1> USE CountAssumption DEF TypeOK, FlagTypes, PlaceTypes, PipeTypes, CountTypes,
       setup, fuzzerVars, serverVars, procVars
<1>a. ASSUME fsrv_st # <<>> PROVE Head(fsrv_st) \in Messages /\ Tail(fsrv_st) \in Seq(Messages)
  BY <1>a, HeadTailProperties
<1>b. ASSUME fsrv_ctl # <<>> PROVE Tail(fsrv_ctl) \in Seq(BOOLEAN)
  BY <1>b, HeadTailProperties
<1>1. CASE HandshakeDone
  <2>1. FlagTypes'
    BY <1>1, <1>a DEF HandshakeDone
  <2>2. PlaceTypes'
    BY <1>1, <1>a DEF HandshakeDone
  <2>3. PipeTypes'
    BY <1>1, <1>a DEF HandshakeDone
  <2>4. CountTypes'
    BY <1>1, <1>a DEF HandshakeDone
  <2>5. QED
    BY <2>1, <2>2, <2>3, <2>4 DEF TypeOK
<1>2. CASE ServerGone
  <2>1. FlagTypes'
    BY <1>2 DEF ServerGone
  <2>2. PlaceTypes'
    BY <1>2 DEF ServerGone
  <2>3. PipeTypes'
    BY <1>2 DEF ServerGone
  <2>4. CountTypes'
    BY <1>2 DEF ServerGone
  <2>5. QED
    BY <2>1, <2>2, <2>3, <2>4 DEF TypeOK
<1>3. ASSUME NEW b \in Behaviours, StartRun(b) PROVE TypeOK'
  <2>1. FlagTypes'
    BY <1>3 DEF StartRun, ClearedTrace
  <2>2. PlaceTypes'
    BY <1>3 DEF StartRun, ClearedTrace
  <2>3. PipeTypes'
    BY <1>3 DEF StartRun, ClearedTrace
  <2>4. CountTypes'
    BY <1>3 DEF StartRun, ClearedTrace
  <2>5. QED
    BY <2>1, <2>2, <2>3, <2>4 DEF TypeOK
<1>4. ASSUME NEW b \in Behaviours, StartDirect(b) PROVE TypeOK'
  <2>1. FlagTypes'
    BY <1>4 DEF StartDirect, Fork, ClearedTrace, Alive
  <2>2. PlaceTypes'
    BY <1>4 DEF StartDirect, Fork, ClearedTrace, Alive
  <2>3. PipeTypes'
    BY <1>4 DEF StartDirect, Fork, ClearedTrace, Alive
  <2>4. CountTypes'
    BY <1>4 DEF StartDirect, Fork, ClearedTrace, Alive
  <2>5. QED
    BY <2>1, <2>2, <2>3, <2>4 DEF TypeOK
<1>4f. ASSUME NEW b \in Behaviours, DirectForkFails(b) PROVE TypeOK'
  <2>1. FlagTypes'
    BY <1>4f DEF DirectForkFails, ClearedTrace
  <2>2. PlaceTypes'
    BY <1>4f DEF DirectForkFails, ClearedTrace
  <2>3. PipeTypes'
    BY <1>4f DEF DirectForkFails, ClearedTrace
  <2>4. CountTypes'
    BY <1>4f DEF DirectForkFails, ClearedTrace
  <2>5. QED
    BY <2>1, <2>2, <2>3, <2>4 DEF TypeOK
<1>5. CASE ReadPid
  <2>1. FlagTypes'
    BY <1>5, <1>a DEF ReadPid, Messages
  <2>2. PlaceTypes'
    BY <1>5, <1>a DEF ReadPid, Messages
  <2>3. PipeTypes'
    BY <1>5, <1>a DEF ReadPid, Messages
  <2>4. CountTypes'
    BY <1>5, <1>a DEF ReadPid, Messages
  <2>5. QED
    BY <2>1, <2>2, <2>3, <2>4 DEF TypeOK
<1>6. CASE ReadStatus
  <2>1. FlagTypes'
    BY <1>6, <1>a DEF ReadStatus, Messages
  <2>2. PlaceTypes'
    BY <1>6, <1>a DEF ReadStatus, Messages
  <2>3. PipeTypes'
    BY <1>6, <1>a DEF ReadStatus, Messages
  <2>4. CountTypes'
    BY <1>6, <1>a DEF ReadStatus, Messages
  <2>5. QED
    BY <2>1, <2>2, <2>3, <2>4 DEF TypeOK
<1>7. CASE ReapDirect
  <2>1. FlagTypes'
    BY <1>7 DEF ReapDirect, Statuses
  <2>2. PlaceTypes'
    BY <1>7 DEF ReapDirect, Statuses
  <2>3. PipeTypes'
    BY <1>7 DEF ReapDirect, Statuses
  <2>4. CountTypes'
    BY <1>7 DEF ReapDirect, Statuses
  <2>5. QED
    BY <2>1, <2>2, <2>3, <2>4 DEF TypeOK
<1>8. CASE FinishRun
  <2>1. FlagTypes'
    BY <1>8 DEF FinishRun, Verdict
  <2>2. PlaceTypes'
    BY <1>8 DEF FinishRun, Verdict
  <2>3. PipeTypes'
    BY <1>8 DEF FinishRun, Verdict
  <2>4. CountTypes'
    BY <1>8 DEF FinishRun, Verdict
  <2>5. QED
    BY <2>1, <2>2, <2>3, <2>4 DEF TypeOK
<1>9. CASE Alarm
  <2>1. FlagTypes'
    BY <1>9 DEF Alarm, AlarmBase, KillsServer, KillChild, Dead
  <2>2. PlaceTypes'
    BY <1>9 DEF Alarm, AlarmBase, KillsServer, KillChild, Dead
  <2>3. PipeTypes'
    BY <1>9 DEF Alarm, AlarmBase, KillsServer, KillChild, Dead
  <2>4. CountTypes'
    BY <1>9 DEF Alarm, AlarmBase, KillsServer, KillChild, Dead
  <2>5. QED
    BY <2>1, <2>2, <2>3, <2>4 DEF TypeOK
<1>10. CASE Interrupt
  <2>1. FlagTypes'
    BY <1>10 DEF Interrupt, KillChild, Dead
  <2>2. PlaceTypes'
    BY <1>10 DEF Interrupt, KillChild, Dead
  <2>3. PipeTypes'
    BY <1>10 DEF Interrupt, KillChild, Dead
  <2>4. CountTypes'
    BY <1>10 DEF Interrupt, KillChild, Dead
  <2>5. QED
    BY <2>1, <2>2, <2>3, <2>4 DEF TypeOK
<1>11. CASE FsHello
  <2>1. FlagTypes'
    BY <1>11 DEF FsHello, Hello, Messages, Statuses, Dead
  <2>2. PlaceTypes'
    BY <1>11 DEF FsHello, Hello, Messages, Statuses, Dead
  <2>3. PipeTypes'
    BY <1>11 DEF FsHello, Hello, Messages, Statuses, Dead
  <2>4. CountTypes'
    BY <1>11 DEF FsHello, Hello, Messages, Statuses, Dead
  <2>5. QED
    BY <2>1, <2>2, <2>3, <2>4 DEF TypeOK
<1>12. CASE FsBootFail
  <2>1. FlagTypes'
    BY <1>12 DEF FsBootFail
  <2>2. PlaceTypes'
    BY <1>12 DEF FsBootFail
  <2>3. PipeTypes'
    BY <1>12 DEF FsBootFail
  <2>4. CountTypes'
    BY <1>12 DEF FsBootFail
  <2>5. QED
    BY <2>1, <2>2, <2>3, <2>4 DEF TypeOK
<1>13. CASE FsRead
  <2>1. FlagTypes'
    BY <1>13, <1>b DEF FsRead
  <2>2. PlaceTypes'
    BY <1>13, <1>b DEF FsRead
  <2>3. PipeTypes'
    BY <1>13, <1>b DEF FsRead
  <2>4. CountTypes'
    BY <1>13, <1>b DEF FsRead
  <2>5. QED
    BY <2>1, <2>2, <2>3, <2>4 DEF TypeOK
<1>14. CASE FsReap
  <2>1. FlagTypes'
    BY <1>14 DEF FsReap
  <2>2. PlaceTypes'
    BY <1>14 DEF FsReap
  <2>3. PipeTypes'
    BY <1>14 DEF FsReap
  <2>4. CountTypes'
    BY <1>14 DEF FsReap
  <2>5. QED
    BY <2>1, <2>2, <2>3, <2>4 DEF TypeOK
<1>15. CASE FsLaunch
  <2>1. FlagTypes'
    BY <1>15 DEF FsLaunch, Fork, Alive
  <2>2. PlaceTypes'
    BY <1>15 DEF FsLaunch, Fork, Alive
  <2>3. PipeTypes'
    BY <1>15 DEF FsLaunch, Fork, Alive
  <2>4. CountTypes'
    BY <1>15 DEF FsLaunch, Fork, Alive
  <2>5. QED
    BY <2>1, <2>2, <2>3, <2>4 DEF TypeOK
<1>15f. CASE FsForkFails
  <2>1. FlagTypes'
    BY <1>15f DEF FsForkFails
  <2>2. PlaceTypes'
    BY <1>15f DEF FsForkFails
  <2>3. PipeTypes'
    BY <1>15f DEF FsForkFails
  <2>4. CountTypes'
    BY <1>15f DEF FsForkFails
  <2>5. QED
    BY <2>1, <2>2, <2>3, <2>4 DEF TypeOK
<1>16. CASE FsSendPid
  <2>1. FlagTypes'
    BY <1>16 DEF FsSendPid, PidMsg, Messages, Statuses, Dead
  <2>2. PlaceTypes'
    BY <1>16 DEF FsSendPid, PidMsg, Messages, Statuses, Dead
  <2>3. PipeTypes'
    BY <1>16 DEF FsSendPid, PidMsg, Messages, Statuses, Dead
  <2>4. CountTypes'
    BY <1>16 DEF FsSendPid, PidMsg, Messages, Statuses, Dead
  <2>5. QED
    BY <2>1, <2>2, <2>3, <2>4 DEF TypeOK
<1>17. CASE FsWait
  <2>1. FlagTypes'
    BY <1>17 DEF FsWait, Statuses, Dead
  <2>2. PlaceTypes'
    BY <1>17 DEF FsWait, Statuses, Dead
  <2>3. PipeTypes'
    BY <1>17 DEF FsWait, Statuses, Dead
  <2>4. CountTypes'
    BY <1>17 DEF FsWait, Statuses, Dead
  <2>5. QED
    BY <2>1, <2>2, <2>3, <2>4 DEF TypeOK
<1>18. CASE FsRelay
  <2>1. FlagTypes'
    BY <1>18 DEF FsRelay, StatMsg, Messages
  <2>2. PlaceTypes'
    BY <1>18 DEF FsRelay, StatMsg, Messages
  <2>3. PipeTypes'
    BY <1>18 DEF FsRelay, StatMsg, Messages
  <2>4. CountTypes'
    BY <1>18 DEF FsRelay, StatMsg, Messages
  <2>5. QED
    BY <2>1, <2>2, <2>3, <2>4 DEF TypeOK
<1>19. CASE ChildRead
  <2>1. FlagTypes'
    BY <1>19 DEF ChildRead, Alive
  <2>2. PlaceTypes'
    BY <1>19 DEF ChildRead, Alive
  <2>3. PipeTypes'
    BY <1>19 DEF ChildRead, Alive
  <2>4. CountTypes'
    BY <1>19 DEF ChildRead, Alive
  <2>5. QED
    BY <2>1, <2>2, <2>3, <2>4 DEF TypeOK
<1>20. CASE ChildHit
  <2>1. FlagTypes'
    BY <1>20 DEF ChildHit
  <2>2. PlaceTypes'
    BY <1>20 DEF ChildHit
  <2>3. PipeTypes'
    BY <1>20 DEF ChildHit
  <2>4. CountTypes'
    BY <1>20 DEF ChildHit
  <2>5. QED
    BY <2>1, <2>2, <2>3, <2>4 DEF TypeOK
<1>21. CASE ExecFails
  <2>1. FlagTypes'
    BY <1>21 DEF ExecFails, Dead
  <2>2. PlaceTypes'
    BY <1>21 DEF ExecFails, Dead
  <2>3. PipeTypes'
    BY <1>21 DEF ExecFails, Dead
  <2>4. CountTypes'
    BY <1>21 DEF ExecFails, Dead
  <2>5. QED
    BY <2>1, <2>2, <2>3, <2>4 DEF TypeOK
<1>22. CASE ChildFinish
  <2>1. FlagTypes'
    BY <1>22 DEF ChildFinish, LoopsAgain, Alive, Dead
  <2>2. PlaceTypes'
    BY <1>22 DEF ChildFinish, LoopsAgain, Alive, Dead
  <2>3. PipeTypes'
    BY <1>22 DEF ChildFinish, LoopsAgain, Alive, Dead
  <2>4. CountTypes'
    BY <1>22 DEF ChildFinish, LoopsAgain, Alive, Dead
  <2>5. QED
    BY <2>1, <2>2, <2>3, <2>4 DEF TypeOK
<1>23. CASE UNCHANGED vars
  BY <1>23 DEF vars
<1>24. QED
  BY <1>1, <1>2, <1>3, <1>4, <1>4f, <1>5, <1>6, <1>7, <1>8, <1>9, <1>10, <1>11, <1>12, <1>13, <1>14, <1>15, <1>15f, <1>16, <1>17, <1>18, <1>19, <1>20, <1>21, <1>22, <1>23 DEF Next

THEOREM TypeCorrect == Spec => []TypeOK
BY TypeInit, TypeNext, PTL DEF Spec
(* The couplings between the two sides hold initially and are kept by      *)
(* every step, whatever the order of alarms, interrupts and pipe words.    *)
LEMMA TailOfOne ==
  ASSUME NEW S, NEW q \in Seq(S), Len(q) = 1
  PROVE  Tail(q) = <<>> /\ Head(q) = q[1] /\ q # <<>>
<1>1. q # <<>>
  OBVIOUS
<1>2. Tail(q) = <<>>
  <2>1. Tail(q) \in Seq(S) /\ Len(Tail(q)) = 0
    BY <1>1, HeadTailProperties
  <2>2. QED
    BY <2>1, EmptySeq
<1>3. QED
  BY <1>1, <1>2

LEMMA TailOfTwo ==
  ASSUME NEW S, NEW q \in Seq(S), Len(q) = 2
  PROVE  Len(Tail(q)) = 1 /\ Tail(q)[1] = q[2] /\ Head(q) = q[1] /\ q # <<>>
<1>1. q # <<>>
  OBVIOUS
<1>2. Len(Tail(q)) = 1 /\ Tail(q)[1] = q[2]
  BY <1>1, HeadTailProperties
<1>3. QED
  BY <1>1, <1>2

LEMMA AppendToEmpty ==
  ASSUME NEW S, NEW e \in S
  PROVE  Append(<<>>, e) = <<e>>
OBVIOUS

LEMMA AppendToOne ==
  ASSUME NEW S, NEW q \in Seq(S), Len(q) = 1, NEW e \in S
  PROVE  Len(Append(q, e)) = 2 /\ Append(q, e)[1] = q[1] /\ Append(q, e)[2] = e
<1>1. Len(Append(q, e)) = 2
  OBVIOUS
<1>2. Append(q, e)[1] = q[1]
  BY AppendProperties
<1>3. Append(q, e)[2] = e
  <2>1. Append(q, e)[Len(q) + 1] = e
    BY AppendProperties
  <2>2. QED
    BY <2>1
<1>4. QED
  BY <1>1, <1>2, <1>3

LEMMA InvInit == Init => IInv
<1> SUFFICES ASSUME Init PROVE IInv
  OBVIOUS
<1>1. Links
  BY DEF Init, Links, DirectLink, Link, Direct
<1>2. Pids
  <2>1. timer => fuzzer \notin {"idle", "await_pid"}
    BY DEF Init, Direct
  <2>2. QED
    BY <2>1 DEF Init, Pids, GivenUpForCause, Direct
<1>3. Kids /\ Words
  BY DEF Init, Kids, Words, DirectChild, Children, Told, Direct
<1>4. QED
  BY <1>1, <1>2, <1>3, TypeInit DEF IInv

LEMMA InvNext == IInv /\ [Next]_vars => IInv'
<1> SUFFICES ASSUME IInv, [Next]_vars PROVE IInv'
  OBVIOUS
<1>t. TypeOK /\ TypeOK'
  BY TypeNext DEF IInv
<1> USE <1>t DEF IInv, Direct, setup, fuzzerVars, serverVars, procVars
<1>1. CASE HandshakeDone
  <2>1. Links'
    BY <1>1, TailOfOne, TailOfTwo DEF HandshakeDone, Links, DirectLink, Link, TypeOK, PlaceTypes, PipeTypes, Messages, PidFirst, PidThenStatus, StatusFirst, IsPid, IsStatus, Pids
  <2>2. Pids'
    BY <1>1, TailOfOne, TailOfTwo DEF HandshakeDone, Pids, GivenUpForCause, Links, DirectLink, Link, TypeOK, PlaceTypes, CountTypes, PipeTypes, PidFirst, PidThenStatus, IsPid, StatusFirst, IsStatus, Kids, Calm, Children, DirectChild
  <2>3. Kids'
    BY <1>1, TailOfOne, TailOfTwo, <2>1 DEF HandshakeDone, Kids, Calm, DirectChild, Children, Explained, Links, DirectLink, Link, Pids, TypeOK, PlaceTypes, CountTypes, Statuses, Dead, Alive, Behaviours, Persistent
  <2>4. Words'
    BY <1>1, TailOfOne, TailOfTwo, <2>1 DEF HandshakeDone, Words, Calm, Told, Explained, Links, DirectLink, Link, PidFirst, PidThenStatus, StatusFirst, IsPid, IsStatus, Kids, DirectChild, Children, TypeOK, PipeTypes, PlaceTypes
  <2>5. QED
    BY <2>1, <2>2, <2>3, <2>4
<1>2. CASE ServerGone
  <2>1. Links'
    <3>1. ~Direct /\ server \in {"dead", "failed"} /\ fsrv_st = <<>> /\ fuzzer' \in {"stopped", "fatal"}
      BY <1>2 DEF ServerGone
    <3>2. Len(fsrv_ctl) <= 1
      <4>1. fsrv_ctl = <<>> \/ fsrv_ctl = <<prev_timed_out>> \/ Len(fsrv_ctl) <= 1
        BY <3>1 DEF Links, Link
      <4>2. Len(<<prev_timed_out>>) <= 1 /\ Len(<<>>) <= 1
        OBVIOUS
      <4>3. CASE fsrv_ctl = <<prev_timed_out>>
        BY <4>2, <4>3, Zenon
      <4>4. CASE fsrv_ctl = <<>>
        BY <4>2, <4>4
      <4>5. QED
        BY <4>1, <4>3, <4>4
    <3>3. UNCHANGED <<mode, server, fsrv_st, fsrv_ctl>>
      BY <1>2 DEF ServerGone
    <3>4. QED
      BY <3>1, <3>2, <3>3 DEF Links, Link
  <2>2. Pids'
    BY <1>2 DEF ServerGone, Pids, GivenUpForCause, Links, DirectLink, Link, TypeOK, PlaceTypes, CountTypes, PipeTypes, PidFirst, PidThenStatus, IsPid, StatusFirst, IsStatus, Kids, Calm, Children, DirectChild
  <2>3. Kids'
    BY <1>2, <2>1 DEF ServerGone, Kids, Calm, DirectChild, Children, Explained, Links, DirectLink, Link, Pids, TypeOK, PlaceTypes, CountTypes, Statuses, Dead, Alive, Behaviours, Persistent
  <2>4. Words'
    BY <1>2, <2>1 DEF ServerGone, Words, Calm, Told, Explained, Links, DirectLink, Link, PidFirst, PidThenStatus, StatusFirst, IsPid, IsStatus, Kids, DirectChild, Children, TypeOK, PipeTypes, PlaceTypes
  <2>5. QED
    BY <2>1, <2>2, <2>3, <2>4
<1>3. ASSUME NEW b \in Behaviours, StartRun(b) PROVE IInv'
  <2>1. Links'
    BY <1>3 DEF StartRun, ClearedTrace, Links, DirectLink, Link, TypeOK, PlaceTypes, PipeTypes, Messages, PidFirst, PidThenStatus, StatusFirst, IsPid, IsStatus, Pids
  <2>2. Pids'
    BY <1>3 DEF StartRun, ClearedTrace, Pids, GivenUpForCause, Links, DirectLink, Link, TypeOK, PlaceTypes, CountTypes, PipeTypes, PidFirst, PidThenStatus, IsPid, StatusFirst, IsStatus, Kids, Calm, Children, DirectChild
  <2>3. Kids'
    BY SMTT(40), <1>3, <2>1 DEF StartRun, ClearedTrace, Kids, Calm, DirectChild, Children, Explained, Links, DirectLink, Link, Pids, TypeOK, PlaceTypes, CountTypes, Statuses, Dead, Alive, Behaviours, Persistent
  <2>4. Words'
    BY <1>3, <2>1 DEF StartRun, ClearedTrace, Words, Calm, Told, Explained, Links, DirectLink, Link, PidFirst, PidThenStatus, StatusFirst, IsPid, IsStatus, Kids, DirectChild, Children, TypeOK, PipeTypes, PlaceTypes
  <2>5. QED
    BY <2>1, <2>2, <2>3, <2>4
<1>4. ASSUME NEW b \in Behaviours, StartDirect(b) PROVE IInv'
  <2>1. Links'
    BY <1>4 DEF StartDirect, Fork, ClearedTrace, Links, DirectLink, Link, TypeOK, PlaceTypes, PipeTypes, Messages, PidFirst, PidThenStatus, StatusFirst, IsPid, IsStatus, Pids
  <2>2. Pids'
    BY <1>4 DEF StartDirect, Fork, ClearedTrace, Pids, GivenUpForCause, Links, DirectLink, Link, TypeOK, PlaceTypes, CountTypes, PipeTypes, PidFirst, PidThenStatus, IsPid, StatusFirst, IsStatus, Kids, Calm, Children, DirectChild
  <2>3. Kids'
    BY <1>4, <2>1 DEF StartDirect, Fork, ClearedTrace, Kids, Calm, DirectChild, Children, Explained, Links, DirectLink, Link, Pids, TypeOK, PlaceTypes, CountTypes, Statuses, Dead, Alive, Behaviours, Persistent
  <2>4. Words'
    BY <1>4, <2>1 DEF StartDirect, Fork, ClearedTrace, Words, Calm, Told, Explained, Links, DirectLink, Link, PidFirst, PidThenStatus, StatusFirst, IsPid, IsStatus, Kids, DirectChild, Children, TypeOK, PipeTypes, PlaceTypes
  <2>5. QED
    BY <2>1, <2>2, <2>3, <2>4
<1>4f. ASSUME NEW b \in Behaviours, DirectForkFails(b) PROVE IInv'
  <2>1. Links'
    BY <1>4f DEF DirectForkFails, ClearedTrace, Links, DirectLink, Link, TypeOK, PlaceTypes, PipeTypes, Messages, PidFirst, PidThenStatus, StatusFirst, IsPid, IsStatus, Pids
  <2>2. Pids'
    BY <1>4f DEF DirectForkFails, ClearedTrace, Pids, GivenUpForCause, Links, DirectLink, Link, TypeOK, PlaceTypes, CountTypes, PipeTypes, PidFirst, PidThenStatus, IsPid, StatusFirst, IsStatus, Kids, Calm, Children, DirectChild
  <2>3. Kids'
    BY <1>4f, <2>1 DEF DirectForkFails, ClearedTrace, Kids, Calm, DirectChild, Children, Explained, Links, DirectLink, Link, Pids, TypeOK, PlaceTypes, CountTypes, Statuses, Dead, Alive, Behaviours, Persistent
  <2>4. Words'
    BY <1>4f, <2>1 DEF DirectForkFails, ClearedTrace, Words, Calm, Told, Explained, Links, DirectLink, Link, PidFirst, PidThenStatus, StatusFirst, IsPid, IsStatus, Kids, DirectChild, Children, TypeOK, PipeTypes, PlaceTypes
  <2>5. QED
    BY <2>1, <2>2, <2>3, <2>4
<1>5. CASE ReadPid
  <2>1. Links'
    <3>1. ~Direct /\ fsrv_ctl = <<>> /\ UNCHANGED <<mode, server, fsrv_ctl>>
      BY <1>5 DEF ReadPid, Links, Link, DirectLink
    <3>2. /\ Head(fsrv_st).pid > 0
          /\ \/ Tail(fsrv_st) = <<>> /\ server \in {"wait", "relay", "dead"}
             \/ Len(Tail(fsrv_st)) = 1 /\ IsStatus(Tail(fsrv_st)[1]) /\ server \in {"read", "dead"}
      BY <1>5, TailOfOne, TailOfTwo
      DEF ReadPid, Links, Link, DirectLink, PidFirst, PidThenStatus, IsPid, TypeOK, PipeTypes
    <3>3. fuzzer' = "await_status"
      BY <1>5, <3>2 DEF ReadPid
    <3>4. fsrv_st' = Tail(fsrv_st)
      BY <1>5 DEF ReadPid
    <3>5. QED
      BY <3>1, <3>2, <3>3, <3>4 DEF Links, Link, StatusFirst
  <2>2. Pids'
    BY SMTT(40), <1>5, TailOfOne, TailOfTwo DEF ReadPid, Pids, GivenUpForCause, Links, DirectLink, Link, TypeOK, PlaceTypes, CountTypes, PipeTypes, PidFirst, PidThenStatus, IsPid, StatusFirst, IsStatus, Kids, Calm, Children, DirectChild
  <2>3. Kids'
    BY <1>5, TailOfOne, TailOfTwo, <2>1 DEF ReadPid, Kids, Calm, DirectChild, Children, Explained, Links, DirectLink, Link, Pids, TypeOK, PlaceTypes, CountTypes, Statuses, Dead, Alive, Behaviours, Persistent
  <2>4. Words'
    BY <1>5, TailOfOne, TailOfTwo, <2>1 DEF ReadPid, Words, Calm, Told, Explained, Links, DirectLink, Link, PidFirst, PidThenStatus, StatusFirst, IsPid, IsStatus, Kids, DirectChild, Children, TypeOK, PipeTypes, PlaceTypes
  <2>5. QED
    BY <2>1, <2>2, <2>3, <2>4
<1>6. CASE ReadStatus
  <2>1. Links'
    BY <1>6, TailOfOne, TailOfTwo DEF ReadStatus, Links, DirectLink, Link, TypeOK, PlaceTypes, PipeTypes, Messages, PidFirst, PidThenStatus, StatusFirst, IsPid, IsStatus, Pids
  <2>2. Pids'
    BY <1>6, TailOfOne, TailOfTwo DEF ReadStatus, Pids, GivenUpForCause, Links, DirectLink, Link, TypeOK, PlaceTypes, CountTypes, PipeTypes, PidFirst, PidThenStatus, IsPid, StatusFirst, IsStatus, Kids, Calm, Children, DirectChild
  <2>3. Kids'
    BY <1>6, TailOfOne, TailOfTwo, <2>1 DEF ReadStatus, Kids, Calm, DirectChild, Children, Explained, Links, DirectLink, Link, Pids, TypeOK, PlaceTypes, CountTypes, Statuses, Dead, Alive, Behaviours, Persistent
  <2>4. Words'
    BY <1>6, TailOfOne, TailOfTwo, <2>1 DEF ReadStatus, Words, Calm, Told, Explained, Links, DirectLink, Link, PidFirst, PidThenStatus, StatusFirst, IsPid, IsStatus, Kids, DirectChild, Children, TypeOK, PipeTypes, PlaceTypes
  <2>5. QED
    BY <2>1, <2>2, <2>3, <2>4
<1>7. CASE ReapDirect
  <2>1. Links'
    BY <1>7 DEF ReapDirect, Dead, Links, DirectLink, Link, TypeOK, PlaceTypes, PipeTypes, Messages, PidFirst, PidThenStatus, StatusFirst, IsPid, IsStatus, Pids
  <2>2. Pids'
    BY <1>7 DEF ReapDirect, Dead, Pids, GivenUpForCause, Links, DirectLink, Link, TypeOK, PlaceTypes, CountTypes, PipeTypes, PidFirst, PidThenStatus, IsPid, StatusFirst, IsStatus, Kids, Calm, Children, DirectChild
  <2>3. Kids'
    BY <1>7, <2>1 DEF ReapDirect, Dead, Kids, Calm, DirectChild, Children, Explained, Links, DirectLink, Link, Pids, TypeOK, PlaceTypes, CountTypes, Statuses, Dead, Alive, Behaviours, Persistent
  <2>4. Words'
    BY <1>7, <2>1 DEF ReapDirect, Dead, Words, Calm, Told, Explained, Links, DirectLink, Link, PidFirst, PidThenStatus, StatusFirst, IsPid, IsStatus, Kids, DirectChild, Children, TypeOK, PipeTypes, PlaceTypes
  <2>5. QED
    BY <2>1, <2>2, <2>3, <2>4
<1>8. CASE FinishRun
  <2>1. Links'
    BY <1>8 DEF FinishRun, Links, DirectLink, Link, TypeOK, PlaceTypes, PipeTypes, Messages, PidFirst, PidThenStatus, StatusFirst, IsPid, IsStatus, Pids
  <2>2. Pids'
    BY <1>8 DEF FinishRun, Pids, GivenUpForCause, Links, DirectLink, Link, TypeOK, PlaceTypes, CountTypes, PipeTypes, PidFirst, PidThenStatus, IsPid, StatusFirst, IsStatus, Kids, Calm, Children, DirectChild
  <2>3. Kids'
    BY <1>8, <2>1 DEF FinishRun, Kids, Calm, DirectChild, Children, Explained, Links, DirectLink, Link, Pids, TypeOK, PlaceTypes, CountTypes, Statuses, Dead, Alive, Behaviours, Persistent
  <2>4. Words'
    BY <1>8, <2>1 DEF FinishRun, Words, Calm, Told, Explained, Links, DirectLink, Link, PidFirst, PidThenStatus, StatusFirst, IsPid, IsStatus, Kids, DirectChild, Children, TypeOK, PipeTypes, PlaceTypes
  <2>5. QED
    BY <2>1, <2>2, <2>3, <2>4
<1>9. CASE Alarm
  <2>1. Links'
    BY <1>9 DEF Alarm, AlarmBase, KillsServer, KillChild, Dead, Links, DirectLink, Link, TypeOK, PlaceTypes, PipeTypes, Messages, PidFirst, PidThenStatus, StatusFirst, IsPid, IsStatus, Pids
  <2>2. Pids'
    BY <1>9 DEF Alarm, AlarmBase, KillsServer, KillChild, Dead, Pids, GivenUpForCause, Links, DirectLink, Link, TypeOK, PlaceTypes, CountTypes, PipeTypes, PidFirst, PidThenStatus, IsPid, StatusFirst, IsStatus, Kids, Calm, Children, DirectChild
  <2>3. Kids'
    <3> SUFFICES ASSUME Calm' PROVE (Direct => DirectChild)' /\ (~Direct => Children)'
      BY DEF Kids
    <3>1. Calm /\ (Direct => DirectChild) /\ (~Direct => Children)
      BY <1>9 DEF Alarm, AlarmBase, Calm, Kids
    <3>2. CASE KillsServer
      BY <1>9, <2>1, <3>1, <3>2
      DEF Alarm, AlarmBase, KillsServer, KillChild, Pids, DirectChild, Children, Explained,
          Links, DirectLink, Link, TypeOK, PlaceTypes, CountTypes, Statuses, Dead, Alive
    <3>3. CASE ~KillsServer /\ Direct
      BY <1>9, <3>1, <3>3
      DEF Alarm, AlarmBase, KillsServer, KillChild, Pids, DirectChild, Explained,
          DirectLink, Links, TypeOK, PlaceTypes, CountTypes, Statuses, Dead, Alive
    <3>4. CASE ~KillsServer /\ ~Direct
      <4>1. /\ UNCHANGED <<mode, fuzzer, server, child_stopped, fsrv_ctl, fsrv_st, behaviour, trace, run, srv_status, child_pid, prev_timed_out, forks>>
            /\ fuzzer \in {"await_status", "disarm", "stopped"}
            /\ child_timed_out => child_timed_out'
        BY <1>9, <3>1, <3>4 DEF Alarm, AlarmBase, KillsServer, Pids, Links, Link, TypeOK, PlaceTypes, FlagTypes
      <4>2. (proc' = proc /\ proc_behaviour' = proc_behaviour) \/ (proc \in Alive /\ proc' = "killed" /\ child_timed_out')
        BY <1>9, <3>4 DEF Alarm, AlarmBase, KillChild
      <4>3. QED
        BY <3>1, <3>4, <4>1, <4>2 DEF Children, Explained, Link, Links, Alive, Dead, Statuses
    <3>5. QED
      BY <3>2, <3>3, <3>4
  <2>4. Words'
    BY ZenonT(60), <1>9, <2>1 DEF Alarm, AlarmBase, KillsServer, KillChild, Dead, Words, Calm, Told, Explained, Links, DirectLink, Link, PidFirst, PidThenStatus, StatusFirst, IsPid, IsStatus, Kids, DirectChild, Children, TypeOK, PipeTypes, PlaceTypes
  <2>5. QED
    BY <2>1, <2>2, <2>3, <2>4
<1>10. CASE Interrupt
  <2>1. Links'
    BY <1>10 DEF Interrupt, KillChild, Links, DirectLink, Link, TypeOK, PlaceTypes, PipeTypes, Messages, PidFirst, PidThenStatus, StatusFirst, IsPid, IsStatus, Pids
  <2>2. Pids'
    BY <1>10 DEF Interrupt, KillChild, Pids, GivenUpForCause, Links, DirectLink, Link, TypeOK, PlaceTypes, CountTypes, PipeTypes, PidFirst, PidThenStatus, IsPid, StatusFirst, IsStatus, Kids, Calm, Children, DirectChild
  <2>3. Kids'
    BY <1>10, <2>1 DEF Interrupt, KillChild, Kids, Calm, DirectChild, Children, Explained, Links, DirectLink, Link, Pids, TypeOK, PlaceTypes, CountTypes, Statuses, Dead, Alive, Behaviours, Persistent
  <2>4. Words'
    BY <1>10, <2>1 DEF Interrupt, KillChild, Words, Calm, Told, Explained, Links, DirectLink, Link, PidFirst, PidThenStatus, StatusFirst, IsPid, IsStatus, Kids, DirectChild, Children, TypeOK, PipeTypes, PlaceTypes
  <2>5. QED
    BY <2>1, <2>2, <2>3, <2>4
<1>11. CASE FsHello
  <2>1. Links'
    BY <1>11, AppendToEmpty DEF FsHello, Hello, Links, DirectLink, Link, TypeOK, PlaceTypes, PipeTypes, Messages, PidFirst, PidThenStatus, StatusFirst, IsPid, IsStatus, Pids
  <2>2. Pids'
    BY <1>11, AppendToEmpty DEF FsHello, Hello, Pids, GivenUpForCause, Links, DirectLink, Link, TypeOK, PlaceTypes, CountTypes, PipeTypes, PidFirst, PidThenStatus, IsPid, StatusFirst, IsStatus, Kids, Calm, Children, DirectChild
  <2>3. Kids'
    BY <1>11, AppendToEmpty, <2>1 DEF FsHello, Hello, Kids, Calm, DirectChild, Children, Explained, Links, DirectLink, Link, Pids, TypeOK, PlaceTypes, CountTypes, Statuses, Dead, Alive, Behaviours, Persistent
  <2>4. Words'
    BY <1>11, AppendToEmpty, <2>1 DEF FsHello, Hello, Words, Calm, Told, Explained, Links, DirectLink, Link, PidFirst, PidThenStatus, StatusFirst, IsPid, IsStatus, Kids, DirectChild, Children, TypeOK, PipeTypes, PlaceTypes
  <2>5. QED
    BY <2>1, <2>2, <2>3, <2>4
<1>12. CASE FsBootFail
  <2>1. Links'
    BY <1>12 DEF FsBootFail, Links, DirectLink, Link, TypeOK, PlaceTypes, PipeTypes, Messages, PidFirst, PidThenStatus, StatusFirst, IsPid, IsStatus, Pids
  <2>2. Pids'
    BY <1>12 DEF FsBootFail, Pids, GivenUpForCause, Links, DirectLink, Link, TypeOK, PlaceTypes, CountTypes, PipeTypes, PidFirst, PidThenStatus, IsPid, StatusFirst, IsStatus, Kids, Calm, Children, DirectChild
  <2>3. Kids'
    BY <1>12, <2>1 DEF FsBootFail, Kids, Calm, DirectChild, Children, Explained, Links, DirectLink, Link, Pids, TypeOK, PlaceTypes, CountTypes, Statuses, Dead, Alive, Behaviours, Persistent
  <2>4. Words'
    BY <1>12, <2>1 DEF FsBootFail, Words, Calm, Told, Explained, Links, DirectLink, Link, PidFirst, PidThenStatus, StatusFirst, IsPid, IsStatus, Kids, DirectChild, Children, TypeOK, PipeTypes, PlaceTypes
  <2>5. QED
    BY <2>1, <2>2, <2>3, <2>4
<1>13. CASE FsRead
  <2>1. Links'
    BY <1>13, TailOfOne, TailOfTwo DEF FsRead, WritesOff, Links, DirectLink, Link, TypeOK, PlaceTypes, PipeTypes, Messages, PidFirst, PidThenStatus, StatusFirst, IsPid, IsStatus, Pids
  <2>2. Pids'
    BY <1>13, TailOfOne, TailOfTwo DEF FsRead, WritesOff, Pids, GivenUpForCause, Links, DirectLink, Link, TypeOK, PlaceTypes, CountTypes, PipeTypes, PidFirst, PidThenStatus, IsPid, StatusFirst, IsStatus, Kids, Calm, Children, DirectChild
  <2>3. Kids'
    <3> SUFFICES ASSUME Calm' PROVE (Direct => DirectChild)' /\ (~Direct => Children)'
      BY DEF Kids
    <3>1. Calm /\ ~Direct /\ Children /\ UNCHANGED mode
      BY <1>13 DEF FsRead, Calm, Kids, Links, DirectLink
    <3>2. fuzzer = "await_pid" /\ Head(fsrv_ctl) = prev_timed_out /\ fsrv_ctl # <<>>
      BY <1>13, <3>1 DEF FsRead, Links, Link
    <3>3. CASE WritesOff(prev_timed_out)
      BY <1>13, <3>1, <3>2, <3>3 DEF FsRead, WritesOff, Children, Explained
    <3>4. CASE ~WritesOff(prev_timed_out)
      BY <1>13, <3>1, <3>2, <3>4 DEF FsRead, WritesOff, Children, Explained
    <3>5. QED
      BY <3>3, <3>4
  <2>4. Words'
    BY ZenonT(60), <1>13, TailOfOne, TailOfTwo, <2>1 DEF FsRead, WritesOff, Words, Calm, Told, Explained, Links, DirectLink, Link, PidFirst, PidThenStatus, StatusFirst, IsPid, IsStatus, Kids, DirectChild, Children, TypeOK, PipeTypes, PlaceTypes
  <2>5. QED
    BY <2>1, <2>2, <2>3, <2>4
<1>14. CASE FsReap
  <2>1. Links'
    BY <1>14 DEF FsReap, Links, DirectLink, Link, TypeOK, PlaceTypes, PipeTypes, Messages, PidFirst, PidThenStatus, StatusFirst, IsPid, IsStatus, Pids
  <2>2. Pids'
    BY <1>14 DEF FsReap, Pids, GivenUpForCause, Links, DirectLink, Link, TypeOK, PlaceTypes, CountTypes, PipeTypes, PidFirst, PidThenStatus, IsPid, StatusFirst, IsStatus, Kids, Calm, Children, DirectChild
  <2>3. Kids'
    BY <1>14, <2>1 DEF FsReap, Kids, Calm, DirectChild, Children, Explained, Links, DirectLink, Link, Pids, TypeOK, PlaceTypes, CountTypes, Statuses, Dead, Alive, Behaviours, Persistent
  <2>4. Words'
    BY <1>14, <2>1 DEF FsReap, Words, Calm, Told, Explained, Links, DirectLink, Link, PidFirst, PidThenStatus, StatusFirst, IsPid, IsStatus, Kids, DirectChild, Children, TypeOK, PipeTypes, PlaceTypes
  <2>5. QED
    BY <2>1, <2>2, <2>3, <2>4
<1>15. CASE FsLaunch
  <2>1. Links'
    BY <1>15 DEF FsLaunch, Fork, Links, DirectLink, Link, TypeOK, PlaceTypes, PipeTypes, Messages, PidFirst, PidThenStatus, StatusFirst, IsPid, IsStatus, Pids
  <2>2. Pids'
    BY SMTT(40), <1>15 DEF FsLaunch, Fork, Pids, GivenUpForCause, Links, DirectLink, Link, TypeOK, PlaceTypes, CountTypes, PipeTypes, PidFirst, PidThenStatus, IsPid, StatusFirst, IsStatus, Kids, Calm, Children, DirectChild
  <2>3. Kids'
    BY <1>15, <2>1 DEF FsLaunch, Fork, Kids, Calm, DirectChild, Children, Explained, Links, DirectLink, Link, Pids, TypeOK, PlaceTypes, CountTypes, Statuses, Dead, Alive, Behaviours, Persistent
  <2>4. Words'
    BY <1>15, <2>1 DEF FsLaunch, Fork, Words, Calm, Told, Explained, Links, DirectLink, Link, PidFirst, PidThenStatus, StatusFirst, IsPid, IsStatus, Kids, DirectChild, Children, TypeOK, PipeTypes, PlaceTypes
  <2>5. QED
    BY <2>1, <2>2, <2>3, <2>4
<1>15f. CASE FsForkFails
  <2>1. Links'
    BY <1>15f DEF FsForkFails, Links, DirectLink, Link, TypeOK, PlaceTypes, PipeTypes, Messages, PidFirst, PidThenStatus, StatusFirst, IsPid, IsStatus, Pids
  <2>2. Pids'
    BY <1>15f DEF FsForkFails, Pids, GivenUpForCause, Links, DirectLink, Link, TypeOK, PlaceTypes, CountTypes, PipeTypes, PidFirst, PidThenStatus, IsPid, StatusFirst, IsStatus, Kids, Calm, Children, DirectChild
  <2>3. Kids'
    BY <1>15f, <2>1 DEF FsForkFails, Kids, Calm, DirectChild, Children, Explained, Links, DirectLink, Link, Pids, TypeOK, PlaceTypes, CountTypes, Statuses, Dead, Alive, Behaviours, Persistent
  <2>4. Words'
    BY <1>15f, <2>1 DEF FsForkFails, Words, Calm, Told, Explained, Links, DirectLink, Link, PidFirst, PidThenStatus, StatusFirst, IsPid, IsStatus, Kids, DirectChild, Children, TypeOK, PipeTypes, PlaceTypes
  <2>5. QED
    BY <2>1, <2>2, <2>3, <2>4
<1>16. CASE FsSendPid
  <2>1. Links'
    BY <1>16 DEF FsSendPid, PidMsg, Links, DirectLink, Link, TypeOK, PlaceTypes, PipeTypes, Messages, PidFirst, PidThenStatus, StatusFirst, IsPid, IsStatus, Pids
  <2>2. Pids'
    BY <1>16 DEF FsSendPid, PidMsg, Pids, GivenUpForCause, Links, DirectLink, Link, TypeOK, PlaceTypes, CountTypes, PipeTypes, PidFirst, PidThenStatus, IsPid, StatusFirst, IsStatus, Kids, Calm, Children, DirectChild
  <2>3. Kids'
    BY <1>16, <2>1 DEF FsSendPid, PidMsg, Kids, Calm, DirectChild, Children, Explained, Links, DirectLink, Link, Pids, TypeOK, PlaceTypes, CountTypes, Statuses, Dead, Alive, Behaviours, Persistent
  <2>4. Words'
    BY <1>16, <2>1 DEF FsSendPid, PidMsg, Words, Calm, Told, Explained, Links, DirectLink, Link, PidFirst, PidThenStatus, StatusFirst, IsPid, IsStatus, Kids, DirectChild, Children, TypeOK, PipeTypes, PlaceTypes
  <2>5. QED
    BY <2>1, <2>2, <2>3, <2>4
<1>17. CASE FsWait
  <2>1. Links'
    BY <1>17 DEF FsWait, Dead, Links, DirectLink, Link, TypeOK, PlaceTypes, PipeTypes, Messages, PidFirst, PidThenStatus, StatusFirst, IsPid, IsStatus, Pids
  <2>2. Pids'
    BY <1>17 DEF FsWait, Dead, Pids, GivenUpForCause, Links, DirectLink, Link, TypeOK, PlaceTypes, CountTypes, PipeTypes, PidFirst, PidThenStatus, IsPid, StatusFirst, IsStatus, Kids, Calm, Children, DirectChild
  <2>3. Kids'
    BY <1>17, <2>1 DEF FsWait, Dead, Kids, Calm, DirectChild, Children, Explained, Links, DirectLink, Link, Pids, TypeOK, PlaceTypes, CountTypes, Statuses, Dead, Alive, Behaviours, Persistent
  <2>4. Words'
    BY <1>17, <2>1 DEF FsWait, Dead, Words, Calm, Told, Explained, Links, DirectLink, Link, PidFirst, PidThenStatus, StatusFirst, IsPid, IsStatus, Kids, DirectChild, Children, TypeOK, PipeTypes, PlaceTypes
  <2>5. QED
    BY <2>1, <2>2, <2>3, <2>4
<1>18. CASE FsRelay
  <2>1. Links'
    BY <1>18, AppendToOne DEF FsRelay, StatMsg, Links, DirectLink, Link, TypeOK, PlaceTypes, PipeTypes, Messages, PidFirst, PidThenStatus, StatusFirst, IsPid, IsStatus, Pids
  <2>2. Pids'
    BY <1>18, AppendToOne DEF FsRelay, StatMsg, Pids, GivenUpForCause, Links, DirectLink, Link, TypeOK, PlaceTypes, CountTypes, PipeTypes, PidFirst, PidThenStatus, IsPid, StatusFirst, IsStatus, Kids, Calm, Children, DirectChild
  <2>3. Kids'
    BY <1>18, AppendToOne, <2>1 DEF FsRelay, StatMsg, Kids, Calm, DirectChild, Children, Explained, Links, DirectLink, Link, Pids, TypeOK, PlaceTypes, CountTypes, Statuses, Dead, Alive, Behaviours, Persistent
  <2>4. Words'
    BY <1>18, AppendToOne, <2>1 DEF FsRelay, StatMsg, Words, Calm, Told, Explained, Links, DirectLink, Link, PidFirst, PidThenStatus, StatusFirst, IsPid, IsStatus, Kids, DirectChild, Children, TypeOK, PipeTypes, PlaceTypes
  <2>5. QED
    BY <2>1, <2>2, <2>3, <2>4
<1>19. CASE ChildRead
  <2>1. Links'
    BY <1>19 DEF ChildRead, Links, DirectLink, Link, TypeOK, PlaceTypes, PipeTypes, Messages, PidFirst, PidThenStatus, StatusFirst, IsPid, IsStatus, Pids
  <2>2. Pids'
    BY <1>19 DEF ChildRead, Pids, GivenUpForCause, Links, DirectLink, Link, TypeOK, PlaceTypes, CountTypes, PipeTypes, PidFirst, PidThenStatus, IsPid, StatusFirst, IsStatus, Kids, Calm, Children, DirectChild
  <2>3. Kids'
    BY <1>19, <2>1 DEF ChildRead, Kids, Calm, DirectChild, Children, Explained, Links, DirectLink, Link, Pids, TypeOK, PlaceTypes, CountTypes, Statuses, Dead, Alive, Behaviours, Persistent
  <2>4. Words'
    BY <1>19, <2>1 DEF ChildRead, Words, Calm, Told, Explained, Links, DirectLink, Link, PidFirst, PidThenStatus, StatusFirst, IsPid, IsStatus, Kids, DirectChild, Children, TypeOK, PipeTypes, PlaceTypes
  <2>5. QED
    BY <2>1, <2>2, <2>3, <2>4
<1>20. CASE ChildHit
  <2>1. Links'
    BY <1>20 DEF ChildHit, Links, DirectLink, Link, TypeOK, PlaceTypes, PipeTypes, Messages, PidFirst, PidThenStatus, StatusFirst, IsPid, IsStatus, Pids
  <2>2. Pids'
    BY <1>20 DEF ChildHit, Pids, GivenUpForCause, Links, DirectLink, Link, TypeOK, PlaceTypes, CountTypes, PipeTypes, PidFirst, PidThenStatus, IsPid, StatusFirst, IsStatus, Kids, Calm, Children, DirectChild
  <2>3. Kids'
    BY <1>20, <2>1 DEF ChildHit, Kids, Calm, DirectChild, Children, Explained, Links, DirectLink, Link, Pids, TypeOK, PlaceTypes, CountTypes, Statuses, Dead, Alive, Behaviours, Persistent
  <2>4. Words'
    BY <1>20, <2>1 DEF ChildHit, Words, Calm, Told, Explained, Links, DirectLink, Link, PidFirst, PidThenStatus, StatusFirst, IsPid, IsStatus, Kids, DirectChild, Children, TypeOK, PipeTypes, PlaceTypes
  <2>5. QED
    BY <2>1, <2>2, <2>3, <2>4
<1>21. CASE ExecFails
  <2>1. Links'
    BY <1>21 DEF ExecFails, Dead, Links, DirectLink, Link, TypeOK, PlaceTypes, PipeTypes, Messages, PidFirst, PidThenStatus, StatusFirst, IsPid, IsStatus, Pids
  <2>2. Pids'
    BY <1>21 DEF ExecFails, Dead, Pids, GivenUpForCause, Links, DirectLink, Link, TypeOK, PlaceTypes, CountTypes, PipeTypes, PidFirst, PidThenStatus, IsPid, StatusFirst, IsStatus, Kids, Calm, Children, DirectChild
  <2>3. Kids'
    BY <1>21, <2>1 DEF ExecFails, Dead, Kids, Calm, DirectChild, Children, Explained, Links, DirectLink, Link, Pids, TypeOK, PlaceTypes, CountTypes, Statuses, Dead, Alive, Behaviours, Persistent
  <2>4. Words'
    BY <1>21, <2>1 DEF ExecFails, Dead, Words, Calm, Told, Explained, Links, DirectLink, Link, PidFirst, PidThenStatus, StatusFirst, IsPid, IsStatus, Kids, DirectChild, Children, TypeOK, PipeTypes, PlaceTypes
  <2>5. QED
    BY <2>1, <2>2, <2>3, <2>4
<1>22. CASE ChildFinish
  <2>1. Links'
    BY <1>22 DEF ChildFinish, LoopsAgain, Dead, Links, DirectLink, Link, TypeOK, PlaceTypes, PipeTypes, Messages, PidFirst, PidThenStatus, StatusFirst, IsPid, IsStatus, Pids
  <2>2. Pids'
    BY <1>22 DEF ChildFinish, LoopsAgain, Dead, Pids, GivenUpForCause, Links, DirectLink, Link, TypeOK, PlaceTypes, CountTypes, PipeTypes, PidFirst, PidThenStatus, IsPid, StatusFirst, IsStatus, Kids, Calm, Children, DirectChild
  <2>3. Kids'
    BY <1>22, <2>1 DEF ChildFinish, LoopsAgain, Dead, Kids, Calm, DirectChild, Children, Explained, Links, DirectLink, Link, Pids, TypeOK, PlaceTypes, CountTypes, Statuses, Dead, Alive, Behaviours, Persistent
  <2>4. Words'
    BY <1>22, <2>1 DEF ChildFinish, LoopsAgain, Dead, Words, Calm, Told, Explained, Links, DirectLink, Link, PidFirst, PidThenStatus, StatusFirst, IsPid, IsStatus, Kids, DirectChild, Children, TypeOK, PipeTypes, PlaceTypes
  <2>5. QED
    BY <2>1, <2>2, <2>3, <2>4
<1>23. CASE UNCHANGED vars
  BY <1>23 DEF vars, Links, DirectLink, Link, PidFirst, PidThenStatus, StatusFirst, Pids, GivenUpForCause, Kids, Calm, DirectChild, Children, Explained, Words, Told
<1>24. QED
  BY <1>1, <1>2, <1>3, <1>4, <1>4f, <1>5, <1>6, <1>7, <1>8, <1>9, <1>10, <1>11, <1>12, <1>13, <1>14, <1>15, <1>15f, <1>16, <1>17, <1>18, <1>19, <1>20, <1>21, <1>22, <1>23 DEF Next

THEOREM InvHolds == Spec => []IInv
BY InvInit, InvNext, PTL DEF Spec

-----------------------------------------------------------------------------
(* The two ends of the status pipe always agree on what the next word is.  *)
THEOREM FramingHolds == Spec => []Framing
<1>1. IInv => Framing
  <2> SUFFICES ASSUME IInv PROVE Framing
    OBVIOUS
  <2>1. fsrv_st \in Seq(Messages)
    BY DEF IInv, TypeOK, PipeTypes
  <2>2. Len(fsrv_ctl) <= 1
    <3>1. fsrv_ctl = <<>> \/ fsrv_ctl = <<prev_timed_out>> \/ Len(fsrv_ctl) <= 1
      BY DEF IInv, Links, Link, DirectLink
    <3>2. Len(<<prev_timed_out>>) <= 1 /\ Len(<<>>) <= 1
      OBVIOUS
    <3>3. CASE fsrv_ctl = <<prev_timed_out>>
      BY <3>2, <3>3, Zenon
    <3>4. CASE fsrv_ctl = <<>>
      BY <3>2, <3>4
    <3>5. QED
      BY <3>1, <3>3, <3>4
  <2>3. ASSUME fsrv_st # <<>> PROVE
          \/ fuzzer = "handshake" /\ Head(fsrv_st).kind = "hello"
          \/ fuzzer = "await_pid" /\ Head(fsrv_st).kind = "pid"
          \/ fuzzer = "await_status" /\ Head(fsrv_st).kind = "status"
    BY <2>1, <2>3, TailOfOne, TailOfTwo
    DEF IInv, Links, Link, DirectLink, PidFirst, PidThenStatus, StatusFirst, IsPid, IsStatus, Hello
  <2>4. QED
    BY <2>2, <2>3 DEF Framing
<1>2. QED
  BY <1>1, InvHolds, PTL

(* run_target gives up the session only when a fork failed, or when the    *)
(* target was lost before it forked its first child.                       *)
THEOREM GivenUpForCauseHolds == Spec => []GivenUpForCause
<1>1. IInv => GivenUpForCause
  BY DEF IInv, Pids
<1>2. QED
  BY <1>1, InvHolds, PTL

(* The bitmaps that run_target classifies are those of its own run.        *)
THEOREM TraceIsOfThisRunHolds == Spec => []TraceIsOfThisRun
<1>1. IInv => TraceIsOfThisRun
  BY DEF IInv, Pids, Words, Calm, Told, Explained, TraceIsOfThisRun
<1>2. QED
  BY <1>1, InvHolds, PTL

(* run_target implements TargetRun: runs do not overlap, and the fault     *)
(* each one returns is explained by its own test case.                     *)
THEOREM RunTargetImplements == Spec => Implements
<1> DEFINE phase == IF stop_soon \/ fuzzer \in {"stopped", "fatal"} THEN "off"
                    ELSE IF fuzzer \in {"handshake", "idle"} THEN "idle" ELSE "running"
<1>1. Init => Promise!Init
  BY DEF Init, Promise!Init, Direct
<1>2. IInv /\ IInv' /\ [Next]_vars => [Promise!Next]_Promise!vars
  <2> SUFFICES ASSUME IInv, IInv', [Next]_vars
               PROVE  Promise!Next \/ UNCHANGED <<uses_asan, mode, phase, behaviour, verdict>>
    BY DEF Promise!vars, Direct
  <2> USE DEF Direct, setup, fuzzerVars, serverVars, procVars
  <2>0. verdict' \in {"none", "crash", "tmout", "error"}
    BY DEF IInv, TypeOK, PlaceTypes
  <2>00. behaviour \in Behaviours /\ behaviour' \in Behaviours
    BY DEF IInv, TypeOK, PlaceTypes
  <2>1. CASE HandshakeDone
    BY <2>1 DEF HandshakeDone
  <2>2. CASE ServerGone
    BY <2>0, <2>00, <2>2 DEF ServerGone, Promise!Next, Promise!Stop
  <2>3. ASSUME NEW b \in Behaviours, StartRun(b) \/ StartDirect(b) PROVE Promise!Run(b)
    BY <2>3 DEF StartRun, StartDirect, Promise!Run
  <2>3f. ASSUME NEW b \in Behaviours, DirectForkFails(b) PROVE Promise!Stop
    BY <2>0, <2>00, <2>3f DEF DirectForkFails, Promise!Stop
  <2>4. CASE ReadPid
    BY <2>0, <2>00, <2>4 DEF ReadPid, Promise!Next, Promise!Stop
  <2>5. CASE ReadStatus \/ ReapDirect
    BY <2>5 DEF ReadStatus, ReapDirect
  <2>6. CASE FinishRun /\ stop_soon
    BY <2>0, <2>00, <2>6 DEF FinishRun, Promise!Next, Promise!Stop
  <2>7. CASE FinishRun /\ ~stop_soon
    <3>1. Explained(status) /\ status \in Statuses /\ behaviour \in Behaviours
      BY <2>7 DEF FinishRun, IInv, Words, Calm, Told, TypeOK, PlaceTypes
    <3>2. Verdict(status) \in Promise!Outcomes(behaviour)
      BY <2>7, <3>1 DEF Verdict, Promise!Outcomes, Explained, Statuses, Dead, Behaviours
    <3>3. Promise!Return
      BY <2>7, <3>2 DEF FinishRun, Promise!Return
    <3>4. QED
      BY <3>3 DEF Promise!Next
  <2>8. CASE Alarm
    BY <2>8 DEF Alarm, AlarmBase
  <2>9. CASE Interrupt
    BY <2>0, <2>00, <2>9 DEF Interrupt, Promise!Next, Promise!Stop
  <2>10. CASE Server \/ FsBootFail \/ FsForkFails
    BY <2>10 DEF Server, FsBootFail, FsForkFails, FsHello, FsRead, FsReap, FsLaunch, FsSendPid, FsWait, FsRelay
  <2>11. CASE Child \/ ExecFails
    BY <2>11 DEF Child, ExecFails, ChildRead, ChildHit, ChildFinish
  <2>12. CASE UNCHANGED vars
    BY <2>12 DEF vars
  <2>13. QED
    BY <2>1, <2>2, <2>3, <2>3f, <2>4, <2>5, <2>6, <2>7, <2>8, <2>9, <2>10, <2>11, <2>12
    DEF Next, Server, Child, Promise!Next
<1>3. QED
  BY <1>1, <1>2, InvHolds, PTL DEF Spec, Implements, Promise!Spec
=============================================================================
