---------------------------- MODULE ProgramShape ----------------------------
(***************************************************************************)
(* What src/llvm_code/src/ reads off a program when it looks for state     *)
(* variables: the functions worth analysing, the if statements a function  *)
(* is made of, the switches and their cases, the likeness of the code      *)
(* their branches run, and the functions and structures around a global    *)
(* table of function pointers.                                             *)
(*                                                                         *)
(* A program is a record [functions, tables, structs].  A function is      *)
(* [name, file, header, skipped, defined, params, blocks]; a block is      *)
(* [label, succ, insts], its label being the class LLVM names it by; an    *)
(* instruction is a record with an op and a type, and the operands that    *)
(* live in the same block as a set of positions (uses).  Names are atoms:  *)
(* Prefix and Suffix give their first and last two characters.             *)
(***************************************************************************)
EXTENDS Integers, Sequences, SequencesExt, FiniteSetsExt

CONSTANTS Prefix, Suffix,  \* the ends of a function's name
          Names,           \* the variables' names, as std::map orders them
          Dictionary,      \* the names that match stateVariableDict.txt
          Complex,         \* 30 in the code: the basic blocks of a complex branch
          MinBlocks        \* 5 in the code: fewer blocks and a function is left alone

IsIf(label) == label \in {"if.then", "if.else", "if.end"}

Inst(f, b, i) == f.blocks[b].insts[i]
Insts(f, b) == f.blocks[b].insts

(* extractCallGraph: neither a destructor nor an operator nor black-listed *)
(* (skipped), defined in a source file, and not too small.                 *)
InCallGraph(f) == ~f.skipped /\ f.defined /\ ~f.header /\ Len(f.blocks) >= MinBlocks

-----------------------------------------------------------------------------
(* If statements.  A condition is the list of the blocks that evaluate it. *)
IfSuccs(f, b) ==
    Cardinality({s \in DOMAIN f.blocks[b].succ : IsIf(f.blocks[f.blocks[b].succ[s]].label)})

StartsIf(f, b) == Len(f.blocks[b].succ) = 2 /\ IfSuccs(f, b) > 0

NotIf(f, b) ==
    LET other == SelectSeq(f.blocks[b].succ, LAMBDA s : ~IsIf(f.blocks[s].label) /\ s # b)
    IN IF other = <<>> THEN 0 ELSE other[1]

(* From the first block on, the successor that is no branch of the if,     *)
(* until a block leads to both branches.                                   *)
Walk(f, b) ==
    LET w[n \in 1 .. Len(f.blocks) + 1] ==
            IF n = 1 THEN b ELSE IF w[n - 1] = 0 THEN 0 ELSE NotIf(f, w[n - 1])
    IN w

Ends(f, b) == {n \in 2 .. Len(f.blocks) + 1 : Walk(f, b)[n] # 0 /\ IfSuccs(f, Walk(f, b)[n]) = 2}

(* The walk that never ends, or the assertion of getNotStartWithIfBasicBlock. *)
Endless(f, b) == StartsIf(f, b) /\ IfSuccs(f, b) = 1 /\ Ends(f, b) = {}

(* The second block of a condition is only kept when it is the last one.   *)
Condition(f, b) ==
    IF IfSuccs(f, b) = 2 THEN <<b>>
    ELSE LET n == Min(Ends(f, b)) IN
         IF n = 2 THEN <<b, Walk(f, b)[2]>>
         ELSE <<b>> \o [k \in 1 .. n - 2 |-> Walk(f, b)[k + 2]]

BranchTrue(f, b) ==
    LET thens == SelectSeq(f.blocks[b].succ, LAMBDA s : f.blocks[s].label = "if.then")
        others == SelectSeq(f.blocks[b].succ, LAMBDA s : f.blocks[s].label # "if.then")
    IN <<Last(thens), Last(others)>>

IfObject(f, cond) == [cond |-> cond, then |-> BranchTrue(f, Last(cond))[1], end |-> BranchTrue(f, Last(cond))[2]]

IfObjects(f) ==
    LET from[b \in 1 .. Len(f.blocks) + 1] ==
            IF b > Len(f.blocks) THEN <<>>
            ELSE IF ~StartsIf(f, b) THEN from[b + 1]
            ELSE <<IfObject(f, Condition(f, b))>> \o from[Last(Condition(f, b)) + 1]
    IN from[1]

(* checkIsIFCondition: a block that leads to both branches, or to the true *)
(* branch and the rest of an "or".                                         *)
EvaluatesIf(f, b) ==
    /\ StartsIf(f, b)
    /\ \/ IfSuccs(f, b) = 2
       \/ /\ f.blocks[f.blocks[b].succ[1]].label = "if.then"
          /\ f.blocks[f.blocks[b].succ[2]].label = "lor.lhs.false"

-----------------------------------------------------------------------------
(* The likeness of the functions that the branches of a switch, or of a    *)
(* chain of ifs, call: 70 % of them call one that begins, or ends, alike.  *)
Calls(f, first, end) ==
    UNION {{i \in ToSet(Insts(f, b)) : i.op = "call"} : b \in first .. end - 1}

(* In an if, a call through a pointer is known by its source text.         *)
SwitchNames(f, first, end) == {c.callee : c \in {c \in Calls(f, first, end) : c.direct /\ c.defined}}
IfNames(f, first, end) == SwitchNames(f, first, end) \cup
                          {c.callee : c \in {c \in Calls(f, first, end) : ~c.direct /\ c.callee # ""}}

Times(names, end, x) == Cardinality({k \in DOMAIN names : \E n \in names[k] : end[n] = x})

SameEnd(names, end) ==
    LET ends == {end[n] : n \in UNION ToSet(names)} IN
    /\ ~(Cardinality(ends) = 1 /\ \A x \in ends : 10 * Times(names, end, x) >= 8 * Len(names))
    /\ \E x \in ends : 10 * Times(names, end, x) >= 7 * Len(names)

Alike(names) == SameEnd(names, Prefix) \/ SameEnd(names, Suffix)

-----------------------------------------------------------------------------
(* Switches. *)
SwitchEnd(f, b) ==
    LET labelled(l) == {x \in b .. Len(f.blocks) : f.blocks[x].label = l} IN
    CASE labelled("sw.epilog") # {}  -> Min(labelled("sw.epilog"))
      [] labelled("sw.epilog") = {} /\ labelled("sw.default") # {} -> Min(labelled("sw.default"))
      [] labelled("sw.epilog") \cup labelled("sw.default") = {} /\ labelled("return") # {} -> Min(labelled("return"))
      [] OTHER -> 0

(* A case lasts until the next one begins, the last one until the end.     *)
Cases(f, sw) ==
    [k \in DOMAIN sw.cases |->
        [begin |-> sw.cases[k],
         end |-> IF k = Len(sw.cases) THEN SwitchEnd(f, sw.cases[k]) ELSE sw.cases[k + 1]]]

NoEnd(f, sw) == SwitchEnd(f, Last(sw.cases)) = 0

CaseSize(f, c) == Cardinality({b \in c.begin .. c.end - 1 : f.blocks[b].label # "sw.default"})

CaseFeatures(f, sw) ==
    LET cases == Cases(f, sw)
        names == [k \in DOMAIN cases |-> SwitchNames(f, cases[k].begin, cases[k].end)]
        sizes == [k \in DOMAIN cases |-> CaseSize(f, cases[k])]
    IN /\ Len(cases) >= 3
       /\ \/ FoldSeq(+, 0, sizes) \div Len(cases) >= Complex
          \/ Alike(names)
          \/ 10 * Cardinality(UNION ToSet(names)) >= 7 * Len(cases)

-----------------------------------------------------------------------------
(* Chains of ifs that compare the same string. *)
StrCmpLib == {"strcmp", "strncasecmp", "strcasecmp"}

StrCmp(c) ==
    \/ c.callee \in StrCmpLib
    \/ /\ Len(c.args) \in {2, 3}
       /\ \E k \in DOMAIN c.args : c.args[k].const
       /\ \E k \in DOMAIN c.args : c.args[k].str /\ ~c.args[k].const

(* The string compared: the first char pointer that is not a constant. *)
Subject(c) == SelectSeq(c.args, LAMBDA a : a.str /\ ~a.const)

CondInsts(f, obj) == {<<b, i>> : b \in ToSet(obj.cond), i \in 1 .. Max({Len(Insts(f, x)) : x \in DOMAIN f.blocks})}

Comparisons(f, obj) ==
    {Inst(f, p[1], Inst(f, p[1], p[2]).call) :
        p \in {p \in CondInsts(f, obj) : /\ p[2] <= Len(Insts(f, p[1]))
                                         /\ Inst(f, p[1], p[2]).op = "icmp"
                                         /\ Inst(f, p[1], p[2]).call # 0
                                         /\ Inst(f, p[1], Inst(f, p[1], p[2]).call).direct}}

Templates(f, obj) == {c \in Comparisons(f, obj) : StrCmp(c) /\ Subject(c) # <<>>}

SameTemplate(c, t) ==
    /\ c.callee = t.callee
    /\ Subject(c) # <<>>
    /\ \/ Subject(c)[1].val = Subject(t)[1].val
       \/ Subject(c)[1].name # "" /\ Subject(c)[1].name = Subject(t)[1].name

(* The first if of the chain each if belongs to, or 0. *)
Leaders(f, objs) ==
    LET lead[i \in DOMAIN objs] ==
            LET before == {k \in 1 .. i - 1 : /\ lead[k] = k
                                              /\ \E c \in Comparisons(f, objs[i]), t \in Templates(f, objs[k]) : SameTemplate(c, t)}
            IN IF before # {} THEN Min(before) ELSE IF Templates(f, objs[i]) # {} THEN i ELSE 0
    IN lead

Members(objs, lead, k) == {i \in DOMAIN objs : lead[i] = k}

IfFeatures(f, objs, group) ==
    LET names == [k \in 1 .. Cardinality(group) |->
                     LET o == objs[SetToSortSeq(group, <)[k]] IN IfNames(f, o.then, o.end)]
        size == FoldSet(LAMBDA i, n : n + objs[i].end - objs[i].then, 0, group)
    IN Alike(names) \/ size \div Cardinality(group) >= Complex

(* The chains of three ifs and more that look like a dispatch, the longest first. *)
Chains(f, objs) ==
    LET lead == Leaders(f, objs)
        good == {k \in DOMAIN objs : /\ Cardinality(Members(objs, lead, k)) >= 3
                                     /\ IfFeatures(f, objs, Members(objs, lead, k))}
    IN SetToSortSeq(good, LAMBDA j, k :
            LET a == Cardinality(Members(objs, lead, j))
                b == Cardinality(Members(objs, lead, k)) IN a > b \/ (a = b /\ j < k))

(* The calls of a chain's conditions, in the order of the code. *)
CondCalls(f, obj) ==
    SelectSeq(FlattenSeq([k \in DOMAIN obj.cond |-> [i \in DOMAIN Insts(f, obj.cond[k]) |-> <<obj.cond[k], i>>]]),
              LAMBDA p : Inst(f, p[1], p[2]).op = "call")

ChainCalls(f, objs, k) ==
    LET group == SetToSortSeq(Members(objs, Leaders(f, objs), k), <) IN
    FlattenSeq([i \in DOMAIN group |-> CondCalls(f, objs[group[i]])])

Mentions(c, name) == {k \in DOMAIN c.args : c.args[k].str /\ ~c.args[k].const /\ c.args[k].sem = name}

(* The variable of a chain: the char pointer its calls are given most often. *)
ChainVariable(f, objs, k) ==
    LET calls == ChainCalls(f, objs, k)
        uses(name) == FoldSeq(LAMBDA p, n : n + Cardinality(Mentions(Inst(f, p[1], p[2]), name)), 0, calls)
        most == Max({uses(n) : n \in ToSet(Names)})
    IN Names[Min({i \in DOMAIN Names : uses(Names[i]) = most})]

ChainBreakpoint(f, objs, k) ==
    SelectSeq(ChainCalls(f, objs, k), LAMBDA p : Mentions(Inst(f, p[1], p[2]), ChainVariable(f, objs, k)) # {})[1]

-----------------------------------------------------------------------------
(* Data flow inside a block. *)
Derived(f, b, from, to) ==
    LET reach[j \in DOMAIN Insts(f, b)] ==
            from \in Inst(f, b, j).uses \/ \E u \in Inst(f, b, j).uses : u < j /\ reach[u]
    IN reach[to]

(* determineWhitchToMonitor: the value that is compared, or switched on.   *)
Watched(f, b, i) ==
    LET users(j) == {u \in DOMAIN Insts(f, b) : j \in Inst(f, b, u).uses /\ Inst(f, b, u).op # "call"}
        down[j \in DOMAIN Insts(f, b)] ==
            IF \E u \in users(j) : Inst(f, b, u).op \in {"icmp", "switch"} THEN j
            ELSE IF users(j) = {} THEN 0 ELSE down[Min(users(j))]
    IN IF down[i] = 0 THEN i ELSE down[i]

(* checkInstructionIfIF: a value of a condition's block that decides where *)
(* it branches.                                                            *)
DecidesIf(f, b, i) ==
    LET cmps == {j \in i .. Len(Insts(f, b)) : Inst(f, b, j).op = "icmp"} IN
    /\ Len(f.blocks[b].succ) = 2 /\ Last(Insts(f, b)).op = "br"
    /\ cmps # {}
    /\ Min(cmps) + 1 = Len(Insts(f, b))
    /\ Derived(f, b, i, Min(cmps))
    /\ \/ IfSuccs(f, b) > 0
       \/ \E s \in ToSet(f.blocks[b].succ) : IfSuccs(f, s) > 0

(* checkInstructionIfSwitch: a value from which the block computes what it *)
(* switches on; a value that is switched on as it is does not count.       *)
DecidesSwitch(f, b, i) ==
    LET sw == Last(Insts(f, b)) IN sw.op = "switch" /\ sw.on # 0 /\ Derived(f, b, i, sw.on)

(* Single conditions: the loads of a variable of the dictionary in the     *)
(* condition of an if, one for each if and name, by name.                  *)
LoadsIn(f) ==
    LET objs == IfObjects(f)
        places == FlattenSeq([b \in DOMAIN f.blocks |-> [i \in DOMAIN Insts(f, b) |-> <<b, i>>]])
        name(p) == Inst(f, p[1], p[2]).name
        object(p) == {i \in DOMAIN objs : p[1] \in ToSet(objs[i].cond)}
        good(p) == /\ Inst(f, p[1], p[2]).op = "load" /\ Inst(f, p[1], p[2]).type \in {"i8", "i32", "i64"}
                   /\ name(p) \in Dictionary /\ object(p) # {}
        all == SelectSeq(places, good)
        first(k) == ~\E j \in 1 .. k - 1 : name(all[j]) = name(all[k]) /\ Min(object(all[j])) = Min(object(all[k]))
        kept == [k \in DOMAIN all |-> IF first(k) THEN <<[at |-> all[k], obj |-> objs[Min(object(all[k]))]]>> ELSE <<>>]
    IN FlattenSeq([n \in DOMAIN Names |-> SelectSeq(FlattenSeq(kept), LAMBDA c : name(c.at) = Names[n])])

-----------------------------------------------------------------------------
(* Tables of function pointers: global arrays four fifths of whose entries *)
(* (and one more) are functions of the program.                            *)
Tables(p) == {t \in p.tables : 10 * Len(t.functions) >= 8 * (t.size + 1)}
TableNames(p) == {t.name : t \in Tables(p)}

(* A union ends the search in a structure. *)
HasMember(p, s, types) ==
    \E k \in DOMAIN p.structs[s] :
        /\ p.structs[s][k].kind \in {"struct*", "struct"} /\ p.structs[s][k].type \in types
        /\ \A j \in 1 .. k : p.structs[s][j].kind # "union"

(* extractGlobalStructContainsTargetType: the element types of the tables, *)
(* and the structures that lead to them, found in one pass over the types. *)
(* The first member that decides ends the search in its structure.         *)
TargetTypes(p) ==
    LET leads(m, types) == \/ m.kind = "struct*" /\ HasMember(p, m.type, types)
                           \/ m.kind = "struct" /\ (m.type \in types \/ HasMember(p, m.type, types))
        found(s, types) == SelectSeq(p.structs[s], LAMBDA m : leads(m, types))
        add(types, s) == IF found(s, types) = <<>> THEN types
                         ELSE types \cup {IF found(s, types)[1].kind = "struct*" THEN s ELSE found(s, types)[1].type}
    IN FoldLeft(add, {t.type : t \in {t \in Tables(p) : t.type # ""}}, p.order)

AllInsts(f) == UNION {ToSet(Insts(f, b)) : b \in DOMAIN f.blocks}

(* A call whose first argument is a constant, a literal say, is passed     *)
(* over: the code takes that operand for a callee that is cast.            *)
LooksCast(c) == c.args # <<>> /\ c.args[1].const

(* The functions that call through a pointer, and those that use a target type. *)
PointerUsers(p) == {f.name : f \in {f \in ToSet(p.functions) : InCallGraph(f) /\
                                      \E c \in AllInsts(f) : c.op = "call" /\ ~c.direct /\ ~LooksCast(c)}}
TypeUsers(p) == {f.name : f \in {f \in ToSet(p.functions) : InCallGraph(f) /\
                                   \E g \in AllInsts(f) : g.op = "gep" /\ g.of \in TargetTypes(p)}}

TableFunctions(p) == {f \in ToSet(p.functions) : \E t \in Tables(p) : f.name \in ToSet(t.functions)}

(* checkFuncArgUse: how often the functions of the tables of structures    *)
(* use a member of a structure they are given.                             *)
MemberUses(p, s, m) ==
    LET UsesMember(i) == i.op = "gep" /\ i.of = s /\ i.member = m
        uses(f) == FoldSeq(LAMBDA t, k : IF t = s THEN k + 1 ELSE k, 0, f.params) *
                   Cardinality(UNION {{<<b, i>> : i \in {x \in DOMAIN Insts(f, b) : UsesMember(Inst(f, b, x))}} : b \in DOMAIN f.blocks})
        times(f, t) == Cardinality({i \in DOMAIN t.functions : t.functions[i] = f.name})
        called(f) == FoldSet(LAMBDA t, n : n + times(f, t), 0, {t \in Tables(p) : t.type # ""})
    IN FoldSet(LAMBDA f, n : n + called(f) * uses(f), 0, TableFunctions(p))

(* The one they use most, 0 when they use none.  The count goes on from one *)
(* argument of a call to the next (ss: their types), so that the member may *)
(* be one of another structure.                                            *)
MainMember(p, ss) ==
    LET uses(m) == FoldSeq(LAMBDA s, n : n + MemberUses(p, s, m), 0, ss)
        used == {m \in 1 .. Max({Len(p.structs[s]) : s \in ToSet(ss)}) : uses(m) > 0}
    IN IF used = {} THEN 0 ELSE CHOOSE m \in used : \A n \in used : uses(m) >= uses(n)

(* findSecondGepOperandVal: an element of the member they go on to use. *)
IndexesMember(p, s, m) ==
    \E f \in TableFunctions(p) : \E g \in AllInsts(f) : g.op = "gep" /\ g.of = s /\ g.member = m /\ g.indexed
=============================================================================
