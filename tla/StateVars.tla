----------------------------- MODULE StateVars ------------------------------
(***************************************************************************)
(* The state variable pass of src/llvm_code: the compiler runs it twice on *)
(* a program.  The first run writes the candidates for the variables of    *)
(* the Mealy machine; the developer's debugger session tells which of them *)
(* are (StateVarInfo.txt); the second run finds the same places again and  *)
(* inserts the calls that tell the fuzzer the variables' values, numbering *)
(* the variables as it goes.                                               *)
(*                                                                         *)
(* A run is followed scene by scene: calls through tables of function      *)
(* pointers, switches, chains of ifs, single conditions.                   *)
(***************************************************************************)
EXTENDS ProgramShape

CONSTANTS Programs,    \* the programs compiled
          FileRanges,  \* the contents of STATEMACHINE_FILE
          FirstMealy   \* 8096 in the code: the first number of a Mealy variable

VARIABLES prog, ranges,  \* the program and the files of its message handlers
          step,          \* the next thing a run of the pass does
          fn,            \* the function it does it to
          candidates,    \* candidate_mealyvar.txt
          info,          \* StateVarInfo.txt: [mealy, sub], sets of candidates
          saved,         \* IdentifiedStateVarInDrectScene
          switches,      \* the switches to instrument
          loop,          \* where the loops of the second run stand
          ir             \* what the second run has done to the program

varsOfStateVars == <<prog, ranges, step, fn, candidates, info, saved, switches, loop, ir>>

(* The nth object of a scene, the label of its case, the number of its     *)
(* variable, which its first case takes from the counter.                  *)
Object(n) == [nth |-> n, label |-> 1, num |-> 0]

(* monitored: AlreadyMonitorVarVec; calls: the monitor calls inserted; log *)
(* is what results.txt will say; mealy and sub are the two counters.       *)
Fresh == [monitored |-> {}, calls |-> <<>>, log |-> <<>>, mealy |-> FirstMealy, sub |-> 0,
          error |-> FALSE, crashed |-> FALSE]

StateVarsInit ==
    /\ prog \in Programs /\ ranges \in FileRanges
    /\ step = "pointers1" /\ fn = 1
    /\ candidates = <<>> /\ info = [mealy |-> {}, sub |-> {}]
    /\ saved = <<>> /\ switches = <<>> /\ loop = Object(1) /\ ir = Fresh

Fn == prog.functions[fn]
Funcs == DOMAIN prog.functions
At(p) == Inst(prog.functions[p[1]], p[2], p[3])       \* p = <<function, block, instruction>>
LabelOf(p) == prog.functions[p[1]].blocks[p[2]].label

(* The positions of a function's instructions, in the order of the code. *)
Positions(f) ==
    FlattenSeq([b \in DOMAIN prog.functions[f].blocks |->
                   [i \in DOMAIN Insts(prog.functions[f], b) |-> <<f, b, i>>]])

AllPositions == FlattenSeq([f \in Funcs |-> IF InCallGraph(prog.functions[f]) THEN Positions(f) ELSE <<>>])

(* An empty list of files stands for all of them in checkFuncInStateMachineCallGraph, *)
(* for none of them in checkFileIfInVector.                                           *)
InRange(f) == ranges = {} \/ f.file \in ranges
InRangeStrictly(f) == f.file \in ranges

Candidate(scene, p, name) ==
    [scene |-> scene, fun |-> prog.functions[p[1]].name, line |-> At(p).line, name |-> name]

(* checkInstructIfStateVar compares scene, function and line. *)
IsListed(p, scene, list) ==
    \E v \in list : v.scene = scene /\ v.fun = prog.functions[p[1]].name /\ v.line = At(p).line

(* The run goes on to the next function, or to the next scene. *)
NextFunction(next) ==
    IF fn < Len(prog.functions) THEN fn' = fn + 1 /\ UNCHANGED step ELSE fn' = 1 /\ step' = next

-----------------------------------------------------------------------------
(* InsertFunction. *)
Callee(kind, type) ==
    \/ kind = "i8" /\ type \in {"i8", "i64"}
    \/ kind = "i32" /\ type = "i32"
    \/ kind = "i64" /\ type = "i64"
    \/ kind = "i8*"

Early(label) == label \in {"lor.lhs.false", "land.lhs.true", "cond.true", "cond.false", "cond.end"}

(* A call is put after an instruction that is not the last of its block;   *)
(* in the second operand of an "or" or an "and", right after the value.    *)
Insert(s, locate, target, type, scene, kind, num, var) ==
    LET where == IF Early(LabelOf(target)) THEN target ELSE locate
        call  == [scene |-> scene, num |-> num, at |-> where, on |-> target, var |-> var]
    IN  IF locate[3] = Len(Insts(prog.functions[locate[1]], locate[2])) \/ target \in s.monitored
        THEN s
        ELSE IF scene = "mealy"
        THEN IF Callee(kind, type)
             THEN [s EXCEPT !.calls = Append(@, call), !.mealy = @ + 1]
             ELSE [s EXCEPT !.crashed = TRUE]
        ELSE IF (kind = "int" /\ type \in {"i8", "i32", "i64"}) \/ (kind = "i8*" /\ type = "i8*")
             THEN [s EXCEPT !.calls = Append(@, call), !.sub = @ + 1]
             ELSE [s EXCEPT !.error = TRUE]

(* What every caller of InsertFunction does when it reports no error. *)
Logged(s, locate, target, type, scene, kind, num, var, mark, logged) ==
    LET t == Insert(s, locate, target, type, scene, kind, num, var) IN
    IF t.error \/ t.crashed THEN t
    ELSE [t EXCEPT !.monitored = @ \cup {mark}, !.log = Append(@, [scene |-> logged, var |-> var, at |-> locate])]

(* A fault: the two counters swapped. *)
SwappedNumber(s, scene) == IF scene = "sub" THEN s.mealy ELSE s.sub

(* The number of the next variable. *)
Number(s, scene) == IF scene = "sub" THEN s.sub ELSE s.mealy

(* The first of the attempts from s that ends without an error. *)
FirstOf(s, attempts) ==
    LET taken(t) == t.crashed \/ Len(t.log) > Len(s.log)
        first(k) == taken(attempts[k]) /\ \A j \in 1 .. k - 1 : ~taken(attempts[j])
    IN IF \E k \in DOMAIN attempts : first(k) THEN attempts[CHOOSE k \in DOMAIN attempts : first(k)] ELSE s

StateType(type) == IF type = "i8*" THEN "i8*" ELSE IF type \in {"i8", "i16", "i32", "i64"} THEN "int" ELSE "none"

-----------------------------------------------------------------------------
(* Calls through tables of function pointers. *)
IsTableCall(p) == At(p).op = "call" /\ ~At(p).direct /\ ~LooksCast(At(p)) /\ At(p).table \in TableNames(prog)

IsHandlerCall(p) ==
    /\ At(p).op = "call" /\ At(p).direct /\ At(p).defined /\ ~LooksCast(At(p))
    /\ ~EvaluatesIf(prog.functions[p[1]], p[2])
    /\ ~\E f \in ToSet(prog.functions) : f.name = At(p).callee /\ f.memory
    /\ At(p).callee \in PointerUsers(prog)
    /\ prog.functions[p[1]].name \in TypeUsers(prog)

checkAllCallSite_Candidate_Mealy ==
    LET inside == SelectSeq(AllPositions, LAMBDA p : InRangeStrictly(prog.functions[p[1]]))
        found == IF Tables(prog) = {} THEN <<>> ELSE SelectSeq(inside, IsTableCall) \o SelectSeq(inside, IsHandlerCall)
    IN  /\ step = "pointers1"
        /\ candidates' = [k \in DOMAIN found |-> Candidate("indirect", found[k], "NULL")]
        /\ step' = "branches1"
        /\ UNCHANGED <<prog, ranges, fn, info, saved, switches, loop, ir>>

saveStateVarInDirectScene ==
    LET listed == SelectSeq(AllPositions, LAMBDA p : IsListed(p, "indirect", info.mealy \cup info.sub))
        object(situation, p) == [at |-> p, situation |-> situation, mealy |-> IsListed(p, "indirect", info.mealy)]
        two == SelectSeq(listed, IsTableCall)
        three == SelectSeq(listed, IsHandlerCall)
    IN  /\ step = "pointers2"
        /\ saved' = IF Tables(prog) = {} THEN <<>>
                    ELSE [k \in DOMAIN two |-> object("table", two[k])] \o [k \in DOMAIN three |-> object("handler", three[k])]
        /\ step' = "pointers3"
        /\ UNCHANGED <<prog, ranges, fn, candidates, info, switches, loop, ir>>

(* extractArrayIdx: the index of the first access to a table in the block, *)
(* 0 when the assertion fails.                                             *)
ArrayIdx(p) ==
    LET geps == SelectSeq(Insts(prog.functions[p[1]], p[2]), LAMBDA g : g.op = "gep" /\ g.of \in TableNames(prog) /\ g.idx # 0)
    IN IF geps = <<>> THEN 0 ELSE geps[1].idx

(* The number of a Mealy variable is passed whatever the scene, and the    *)
(* log says Mealy variable.                                                *)
TableVariable(s, o) ==
    LET x == <<o.at[1], o.at[2], ArrayIdx(o.at)>>
        type == At(x).type
        scene == IF o.mealy THEN "mealy" ELSE "sub"
        kind == IF StateType(type) = "int" /\ o.mealy THEN "i8" ELSE StateType(type)  \* State_Int = Var_Type_Int8
    IN  IF ArrayIdx(o.at) = 0 THEN [s EXCEPT !.crashed = TRUE]
        ELSE IF StateType(type) = "none" THEN s
        ELSE Logged([s EXCEPT !.error = FALSE], x, x, type, scene, kind, s.mealy, x, x, "mealy")

(* handleIndirectScene3: the argument that carries the request.            *)
(* An argument's val is the <<block, position>> of the instruction that     *)
(* computes it, and <<0, k>> when it is none.                              *)
ArgVariable(s, p, a) ==
    LET x == <<p[1]>> \o a.val
    IN Logged([s EXCEPT !.error = FALSE], x, x, "i8*", "mealy", "i8*", s.mealy, x, x, "mealy")

(* A char pointer, or an element of an array of them, in a structure: it   *)
(* is loaded anew before the call.  before: the arguments up to this one.  *)
MemberVariable(s, p, before) ==
    LET a == Last(before)
        m == MainMember(prog, [k \in DOMAIN before |-> before[k].struct])
        x == <<p[1], p[2], -p[3]>>
        kind == prog.structs[a.struct][m].kind
        loads == kind = "i8*" \/ (kind = "i8**" /\ IndexesMember(prog, a.struct, m))
    IN  IF m = 0 THEN s
        ELSE IF m > Len(prog.structs[a.struct]) THEN [s EXCEPT !.crashed = TRUE]
        ELSE IF loads THEN Logged([s EXCEPT !.error = FALSE], x, x, "i8*", "mealy", "i8*", s.mealy, x, x, "mealy")
        ELSE s

HandlerVariable(s, o) ==
    LET args == SelectSeq(At(o.at).args, LAMBDA a : a.val[1] # 0)
        strings == SelectSeq(args, LAMBDA a : a.str)
        known(a) == a.mean \in Dictionary
        \* the search among several strings ends at one without a name
        named == {k \in DOMAIN strings : known(strings[k]) /\ \A j \in 1 .. k : strings[j].mean # ""}
        structs == SelectSeq(args, LAMBDA a : a.struct # "" /\ known(a))
        \* the search ends at the first that is monitored, or crashes
        members == [k \in DOMAIN structs |-> MemberVariable(s, o.at, SubSeq(structs, 1, k))]
    IN  IF strings # <<>>
        THEN IF named = {} THEN s ELSE ArgVariable(s, o.at, strings[Min(named)])
        ELSE FirstOf(s, members)

handleCandidateObjForFuncPointer ==
    /\ step = "pointers3" /\ loop.nth \in DOMAIN saved
    /\ ir' = LET o == saved[loop.nth] IN IF o.situation = "table" THEN TableVariable(ir, o) ELSE HandlerVariable(ir, o)
    /\ step' = IF ir'.crashed THEN "aborted" ELSE step
    /\ loop' = Object(loop.nth + 1)
    /\ UNCHANGED <<prog, ranges, fn, candidates, info, saved, switches>>

PointersDone ==
    /\ step = "pointers3" /\ loop.nth \notin DOMAIN saved
    /\ step' = "switches" /\ loop' = Object(1)
    /\ UNCHANGED <<prog, ranges, fn, candidates, info, saved, switches, ir>>

-----------------------------------------------------------------------------
(* Switches and chains of ifs: the first run. *)
IsSwitch(p) == At(p).op = "switch" /\ At(p).on # 0

SwitchesOf(f) == SelectSeq(Positions(f), IsSwitch)

(* A switch without an end, or a condition without one: an assertion fails, *)
(* or the pass never returns.                                               *)
Unreadable(f) ==
    \/ \E b \in DOMAIN f.blocks : Endless(f, b)
    \/ \E c \in AllInsts(f) : c.op = "switch" /\ c.on # 0 /\ NoEnd(f, c)

handleBranch_Candidate_Mealy ==
    LET good == SelectSeq(SwitchesOf(fn), LAMBDA p : CaseFeatures(Fn, At(p)))
        objs == IfObjects(Fn)
        chains == SelectSeq(Chains(Fn, objs), LAMBDA k : ChainVariable(Fn, objs, k) # "")
        first(k) == <<fn>> \o ChainBreakpoint(Fn, objs, k)
    IN  /\ step = "branches1"
        /\ InCallGraph(Fn) /\ InRange(Fn) => ~Unreadable(Fn)
        /\ candidates' = IF InCallGraph(Fn) /\ InRange(Fn)
                         THEN candidates \o [k \in DOMAIN good |-> Candidate("switch", good[k], At(good[k]).name)]
                                \o [k \in DOMAIN chains |-> Candidate("if", first(chains[k]), ChainVariable(Fn, objs, chains[k]))]
                         ELSE candidates
        /\ NextFunction("classify")
        /\ UNCHANGED <<prog, ranges, info, saved, switches, loop, ir>>

CompilerAborts ==
    /\ \/ step = "branches1" /\ InCallGraph(Fn) /\ InRange(Fn) /\ Unreadable(Fn)
       \/ step = "switches" /\ \E f \in ToSet(prog.functions) : InCallGraph(f) /\ Unreadable(f)
    /\ step' = "aborted"
    /\ UNCHANGED <<prog, ranges, fn, candidates, info, saved, switches, loop, ir>>

(* External: the debugger session marks candidates in StateVarInfo.txt. *)
Classify ==
    /\ step = "classify"
    /\ \E mealy, sub \in SUBSET ToSet(candidates) :
          mealy \cap sub = {} /\ info' = [mealy |-> mealy, sub |-> sub]
    /\ step' = "pointers2"
    /\ UNCHANGED <<prog, ranges, fn, candidates, saved, switches, loop, ir>>

-----------------------------------------------------------------------------
(* Switches: the second run. *)
handleStateVarInSwitchScene ==
    LET all == SelectSeq(AllPositions, IsSwitch)
        shaped(p) == CaseFeatures(prog.functions[p[1]], At(p))
        isMealy(p) == shaped(p) /\ IsListed(p, "switch", info.mealy)
        isSub(p) == \/ shaped(p) /\ ~IsListed(p, "switch", info.mealy)
                    \/ ~shaped(p) /\ Len(At(p).cases) >= 3 /\ At(p).name \in Dictionary
        chosen == SelectSeq(all, isMealy) \o SelectSeq(all, isSub)
        object(p) == [at |-> p, scene |-> IF isMealy(p) THEN "mealy" ELSE "sub"]
    IN  /\ step = "switches" /\ ~\E f \in ToSet(prog.functions) : InCallGraph(f) /\ Unreadable(f)
        /\ switches' = [k \in DOMAIN chosen |-> object(chosen[k])]
        /\ step' = "cases"
        /\ UNCHANGED <<prog, ranges, fn, candidates, info, saved, loop, ir>>

(* Each case gets a call after its first instruction, all of them with the *)
(* number the counter had at the first.                                    *)
InstrumentSwitch ==
    LET o == switches[loop.nth]
        on == <<o.at[1], o.at[2], At(o.at).on>>
        type == At(on).type
        kind == IF o.scene = "sub" THEN StateType(type) ELSE type
        num == IF loop.label > 1 THEN loop.num ELSE Number(ir, o.scene)
        s == IF loop.label > 1 THEN ir ELSE [ir EXCEPT !.error = FALSE]
        first == <<o.at[1], At(o.at).cases[loop.label], 1>>
    IN  /\ step = "cases" /\ loop.nth \in DOMAIN switches /\ loop.label \in DOMAIN At(o.at).cases
        /\ ir' = IF kind = "none" THEN ir ELSE IF kind = "ptr" THEN [s EXCEPT !.crashed = TRUE]
                 ELSE Logged(s, first, on, type, o.scene, kind, num, o.at, first, o.scene)
        /\ step' = IF ir'.crashed THEN "aborted" ELSE step
        /\ loop' = [loop EXCEPT !.label = @ + 1, !.num = num]
        /\ UNCHANGED <<prog, ranges, fn, candidates, info, saved, switches>>

SwitchDone ==
    /\ step = "cases" /\ loop.nth \in DOMAIN switches /\ loop.label \notin DOMAIN At(switches[loop.nth].at).cases
    /\ loop' = Object(loop.nth + 1)
    /\ UNCHANGED <<prog, ranges, step, fn, candidates, info, saved, switches, ir>>

SwitchesDone ==
    /\ step = "cases" /\ loop.nth \notin DOMAIN switches
    /\ step' = "ifs" /\ loop' = Object(1)
    /\ UNCHANGED <<prog, ranges, fn, candidates, info, saved, switches, ir>>

-----------------------------------------------------------------------------
(* Chains of ifs: the second run. *)

(* insertFunctionInOneCondition: the first argument that has the chain's   *)
(* name and can be monitored.  The call goes to the true branch, and each  *)
(* if takes a number of its own.                                           *)
InstrumentIf(s, f, o) ==
    LET args == FlattenSeq([k \in DOMAIN CondCalls(prog.functions[f], o.obj) |->
                    LET p == CondCalls(prog.functions[f], o.obj)[k]
                    IN SelectSeq(Inst(prog.functions[f], p[1], p[2]).args, LAMBDA a : ~a.const /\ a.sem = o.name)])
        then == <<f, o.obj.then, 1>>
        var == <<f, Head(o.obj.cond), 0>>
        scene == IF IsListed(o.first, "if", info.mealy) THEN "mealy" ELSE "sub"
        one(a) ==
            LET x == <<f>> \o a.val IN
            Logged([s EXCEPT !.error = FALSE], then, x, IF a.str THEN "i8*" ELSE "i32", scene, "i8*",
                   Number(s, scene), var, x, scene)
    IN FirstOf(s, [k \in DOMAIN args |-> one(args[k])])

(* The ifs of a chain, each with the name that is monitored in all of them *)
(* and the place the candidate was found at. *)
ChainObject(obj, name, first) == [obj |-> obj, name |-> name, first |-> first]


InstrumentChain(f, objs, k) ==
    LET name == ChainVariable(prog.functions[f], objs, k)
        first == <<f>> \o ChainBreakpoint(prog.functions[f], objs, k)
        group == SetToSortSeq(Members(objs, Leaders(prog.functions[f], objs), k), <)
    IN IF name = "" THEN <<>> ELSE [i \in DOMAIN group |-> ChainObject(objs[group[i]], name, first)]

IfsOf(f) ==
    LET objs == IfObjects(prog.functions[f])
        chains == Chains(prog.functions[f], objs)
    IN IF InCallGraph(prog.functions[f]) THEN FlattenSeq([k \in DOMAIN chains |-> InstrumentChain(f, objs, chains[k])]) ELSE <<>>

(* The next if, or the next function. *)
NextIf(ifs) ==
    \/ /\ loop.nth \in DOMAIN ifs
       /\ ir' = InstrumentIf(ir, fn, ifs[loop.nth])
       /\ loop' = Object(loop.nth + 1) /\ UNCHANGED <<step, fn>>
    \/ /\ loop.nth \notin DOMAIN ifs
       /\ NextFunction("conditions") /\ loop' = Object(1) /\ UNCHANGED ir

handleStateVarInIfScene ==
    step = "ifs" /\ NextIf(IfsOf(fn)) /\ UNCHANGED <<prog, ranges, candidates, info, saved, switches>>

-----------------------------------------------------------------------------
(* Single conditions (LoadsIn).  A load that decides an if: one call, in    *)
(* its true branch.                                                        *)
LoadsOf(f) == IF InCallGraph(prog.functions[f]) THEN LoadsIn(prog.functions[f]) ELSE <<>>

handleCandidateResult(s, f, c) ==
    LET x == <<f, c.at[1], Watched(prog.functions[f], c.at[1], c.at[2])>>
        type == At(x).type
    IN  IF ~DecidesIf(prog.functions[f], c.at[1], c.at[2]) \/ StateType(type) = "none" THEN s
        ELSE Logged([s EXCEPT !.error = FALSE], <<f, c.obj.then, 1>>, x, type, "sub", StateType(type), Number(s, "sub"),
                    <<f>> \o c.at, x, "sub")

(* One that decides a switch: the cases get a call each, all of them with  *)
(* the number the counter had at the first.                                *)
SwitchedOn(f, c) == <<f, c.at[1], Last(Insts(prog.functions[f], c.at[1])).on>>

CasesOf(f, c) ==
    IF \/ DecidesIf(prog.functions[f], c.at[1], c.at[2]) \/ ~DecidesSwitch(prog.functions[f], c.at[1], c.at[2])
       \/ StateType(At(SwitchedOn(f, c)).type) = "none"
    THEN <<>> ELSE Last(Insts(prog.functions[f], c.at[1])).cases

InstrumentCase(f, c) ==
    LET on == SwitchedOn(f, c)
        num == IF loop.label > 1 THEN loop.num ELSE Number(ir, "sub")
        s == IF loop.label > 1 THEN ir ELSE [ir EXCEPT !.error = FALSE]
        first == <<f, CasesOf(f, c)[loop.label], 1>>
    IN  /\ ir' = Logged(s, first, on, At(on).type, "sub", StateType(At(on).type), num, <<f>> \o c.at, first, "sub")
        /\ loop' = [loop EXCEPT !.label = @ + 1, !.num = num]

NextLoad(loads) ==
    \/ /\ loop.nth \in DOMAIN loads /\ loop.label \in DOMAIN CasesOf(fn, loads[loop.nth])
       /\ InstrumentCase(fn, loads[loop.nth]) /\ UNCHANGED <<step, fn>>
    \/ /\ loop.nth \in DOMAIN loads /\ loop.label \notin DOMAIN CasesOf(fn, loads[loop.nth])
       /\ ir' = handleCandidateResult(ir, fn, loads[loop.nth])
       /\ loop' = Object(loop.nth + 1) /\ UNCHANGED <<step, fn>>
    \/ /\ loop.nth \notin DOMAIN loads
       /\ NextFunction("done") /\ loop' = Object(1) /\ UNCHANGED ir

iterateAllSwAndIfCondition ==
    step = "conditions" /\ NextLoad(LoadsOf(fn)) /\ UNCHANGED <<prog, ranges, candidates, info, saved, switches>>

StateVarsNext ==
    \/ checkAllCallSite_Candidate_Mealy \/ handleBranch_Candidate_Mealy \/ CompilerAborts
    \/ Classify
    \/ saveStateVarInDirectScene \/ handleCandidateObjForFuncPointer \/ PointersDone
    \/ handleStateVarInSwitchScene \/ InstrumentSwitch \/ SwitchDone \/ SwitchesDone
    \/ handleStateVarInIfScene \/ iterateAllSwAndIfCondition

StateVarsSpec == StateVarsInit /\ [][StateVarsNext]_varsOfStateVars

-----------------------------------------------------------------------------
CallsOf(p) == {c \in ToSet(ir.calls) : c.var = p}

StateVarsTypeOK ==
    /\ step \in {"pointers1", "branches1", "classify", "pointers2", "pointers3", "switches", "cases",
                 "ifs", "conditions", "done", "aborted"}
    /\ fn \in Funcs
    /\ info.mealy \cup info.sub \subseteq ToSet(candidates) /\ info.mealy \cap info.sub = {}

(* Two variables of the same kind never share a number, so that their      *)
(* values are not taken for one another at run time: each is numbered from *)
(* its counter before its calls move it on.  Left out: the sub-state       *)
(* variables of tables, which are given the number of a Mealy variable     *)
(* (handleCandidateObjForFuncPointer).                                     *)
NumbersAreDistinct ==
    /\ ir.mealy >= FirstMealy /\ ir.sub >= 0
    /\ \A c, d \in ToSet(ir.calls) :
          /\ c.scene = d.scene /\ c.num = d.num /\ (c.scene = "sub" => c.num < FirstMealy)
          => c.var = d.var

(* The second run finds again, at the same line, what the first one wrote  *)
(* down: a switch or a chain of ifs marked as a Mealy variable ends up     *)
(* monitored as one, but where there is no room for a call or where its    *)
(* condition is the first instruction of another switch's case.            *)
HasRoom(f, b) == Len(Insts(f, b)) > 1

MarkedAreMonitored ==
    step = "done" =>
        \A f \in {f \in Funcs : InCallGraph(prog.functions[f])} :
            /\ \A p \in ToSet(SwitchesOf(f)) :
                  /\ IsListed(p, "switch", info.mealy)
                  /\ \E b \in ToSet(At(p).cases) : HasRoom(prog.functions[f], b)
                  /\ ~\E q \in ToSet(SwitchesOf(f)) : q # p /\ At(p).on = 1 /\ p[2] \in ToSet(At(q).cases)
                  => \E c \in CallsOf(p) : c.scene = "mealy"
            /\ LET objs == IfObjects(prog.functions[f]) IN
               \A k \in ToSet(Chains(prog.functions[f], objs)) :
                  IsListed(<<f>> \o ChainBreakpoint(prog.functions[f], objs, k), "if", info.mealy)
                  => \A i \in Members(objs, Leaders(prog.functions[f], objs), k) :
                        HasRoom(prog.functions[f], objs[i].then)
                        => \E c \in CallsOf(<<f, Head(objs[i].cond), 0>>) : c.scene = "mealy"

(* Nothing is monitored as a Mealy variable that was not marked as one. *)
OnlyMarkedAreMealy ==
    \A c \in ToSet(ir.calls) :
        c.scene = "mealy" /\ c.var[3] > 0 /\ At(c.var).op = "switch" => IsListed(c.var, "switch", info.mealy)

(* "Records the instrumented instructions, to avoid monitoring repeatedly  *)
(* within the same basic block" (globalvar.cpp:22): no place is given two  *)
(* calls with the same value.  It does not hold of the code: when two      *)
(* labels share their block, AlreadyMonitorVarVec has the instruction      *)
(* after the call (switchmodule.cpp:1217), and is asked for the condition  *)
(* (globalvar.cpp:119).                                                    *)
MonitoredOnce ==
    \A i, j \in DOMAIN ir.calls :
        i # j => <<ir.calls[i].at, ir.calls[i].on>> # <<ir.calls[j].at, ir.calls[j].on>>

(* Only the values of switches are given two calls at a place, and of these *)
(* only where two labels share their block, where the switch stands in the *)
(* second operand of an "or", an "and" or in a conditional expression, the *)
(* calls of all its cases being put right after the value (globalvar.cpp:  *)
(* 168, 254), and where it stands in the condition of an if and its value  *)
(* is computed there from a variable of the dictionary, the last scene     *)
(* asking for the condition again (commonvar.cpp:480).                     *)
Switch(p) == <<p[1], p[2], At(p).on>>

TwiceExpected(f, p) ==
    \/ ~IsInjective(At(p).cases)
    \/ Early(LabelOf(p))
    \/ \E c \in ToSet(LoadsOf(f)) : c.at[1] = p[2] /\ DecidesSwitch(prog.functions[f], c.at[1], c.at[2])

MonitoredOnceApart ==
    \A i, j \in DOMAIN ir.calls :
        i # j /\ <<ir.calls[i].at, ir.calls[i].on>> = <<ir.calls[j].at, ir.calls[j].on>>
        => \E f \in Funcs : \E p \in ToSet(SwitchesOf(f)) : Switch(p) = ir.calls[i].on /\ TwiceExpected(f, p)

StateVarsSound == MarkedAreMonitored /\ OnlyMarkedAreMealy /\ MonitoredOnceApart
=============================================================================
