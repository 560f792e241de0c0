----------------------------- MODULE CallGraph ------------------------------
(***************************************************************************)
(* The first pass over a program, src/callgraph: which source files hold   *)
(* the handlers of the protocol's messages.  From the stacks a debugger    *)
(* saw while the program received a message it finds the function where    *)
(* the handling starts, follows the calls from there for a few levels, and *)
(* writes the files of the functions it met to filelist.txt, which the     *)
(* state variable pass reads.                                              *)
(*                                                                         *)
(* A function is [name, file, header, plain, declared, big, listed, aka,   *)
(* body]: plain when its name is not black-listed, big with five blocks or *)
(* more, listed when its name has a word of both white lists, aka the      *)
(* stack lines that are part of its name.  The body is what the pass reads *)
(* of it: calls [kind, callee, args, const] and accesses to tables.        *)
(***************************************************************************)
EXTENDS Integers, Sequences, SequencesExt, FiniteSetsExt

CONSTANTS CGPrograms,  \* [functions, tables, stored]
          StackFiles,  \* the lines of the file of stacks
          Levels       \* what -level asks for

MaxLevel == 3   \* the local variable that hides the option
Waits == {"select", "poll", "epoll_wait"}
Threads == {"clone", "start_thread"}
Separator == "separator"

VARIABLES cg,       \* the program
          lines,    \* the file of stacks
          option,   \* -level
          cgstep, entry, skip,
          levels,   \* CallGraphMap: the level of each function found
          queue,    \* the sets of functions to go on from
          level,
          filelist

cgvars == <<cg, lines, option, cgstep, entry, skip, levels, queue, level, filelist>>

Functions == ToSet(cg.functions)
Known == {f.name : f \in Functions}
FnOf(name) == CHOOSE f \in Functions : f.name = name
EmptyMap == [n \in {} |-> 0]

-----------------------------------------------------------------------------
(* readRecvFuncStackInfo: a stack lasts from one separator to the next,    *)
(* the last one to the line before the last.  It is known by its first     *)
(* line.                                                                   *)
Separators == {i \in 2 .. Len(lines) - 1 : lines[i] = Separator}
Stacks == IF Len(lines) < 2 THEN {} ELSE {1} \cup {i + 1 : i \in Separators}
LastOf(i) ==
    LET next == {s \in Separators : s >= i} IN IF next = {} THEN Len(lines) - 1 ELSE Min(next) - 1
Stack(i) == SubSeq(lines, i, LastOf(i))

(* The first function of the program after the start of a thread. *)
AfterThread(stack) == {j \in DOMAIN stack : stack[j] \in Known /\ \E t \in 1 .. j - 1 : stack[t] \in Threads}
ThreadStacks == {i \in Stacks : AfterThread(Stack(i)) # {}}
ThreadEntry == LET stack == Stack(Min(ThreadStacks)) IN stack[Min(AfterThread(stack))]

(* checkEntryFunction *)
InStack(f) == \E i \in Stacks : \E n \in ToSet(Stack(i)) : n = f.name \/ n \in f.aka

Receives(f) == \E c \in ToSet(f.body) : c.kind = "call" /\ c.callee \in Waits
CallsReceiver(f) == \E c \in ToSet(f.body) : c.kind = "call" /\ ~c.const /\ c.callee \in Known /\
                                             ~FnOf(c.callee).declared /\ Receives(FnOf(c.callee))

(* findStartFunction: a thread's entry, or the first function that waits   *)
(* for messages, or else the first that calls such a function.             *)
OnStack == {k \in DOMAIN cg.functions : ~cg.functions[k].declared /\ InStack(cg.functions[k])}
Receivers == {k \in OnStack : Receives(cg.functions[k])}
Callers == {k \in OnStack : CallsReceiver(cg.functions[k])}
HasStart == ThreadStacks # {} \/ Receivers # {} \/ Callers # {}
Start ==
    IF ThreadStacks # {} THEN ThreadEntry
    ELSE cg.functions[Min(IF Receivers # {} THEN Receivers ELSE Callers)].name

-----------------------------------------------------------------------------
BlackListed(f) == f.header \/ f.declared \/ ~f.plain

(* What one function leads to: the functions it calls by name, unless the  *)
(* first argument is a constant, those it passes to them, and those of the *)
(* tables it uses; a call through a global pointer may reach any function  *)
(* that is stored anywhere.                                                *)
Reached(c) ==
    CASE c.kind = "call"    -> IF c.const THEN {} ELSE {c.callee} \cup c.args
      [] c.kind = "cast"    -> {c.callee}
      [] c.kind = "pointer" -> IF c.callee = "" THEN cg.stored ELSE cg.tables[c.callee]
      [] c.kind = "gep"     -> cg.tables[c.callee]

Expanded(f) == ~BlackListed(f) /\ (f.big \/ \E c \in ToSet(f.body) : c.kind # "gep")

Leads(name) ==
    IF ~Expanded(FnOf(name)) THEN {}
    ELSE {n \in Known \cap UNION {Reached(c) : c \in ToSet(FnOf(name).body)} : ~BlackListed(FnOf(n))}

(* The function below it in a stack, the first time it is there, is taken  *)
(* when it is black-listed.                                                *)
Below(stack, name) ==
    LET above == {j \in 1 .. Len(stack) - 1 : stack[j] = name} IN IF above = {} THEN {} ELSE {stack[Min(above) + 1]}

StackNext(name) ==
    IF ~Expanded(FnOf(name)) THEN {}
    ELSE {n \in Known \cap UNION {Below(Stack(i), name) : i \in Stacks} : BlackListed(FnOf(n))}

(* A fault: the last level is kept. *)
WithNewLevel(names, l) == [n \in DOMAIN levels \cup names |-> IF n \in names THEN l ELSE levels[n]]

(* map::insert keeps the first level. *)
WithLevel(names, l) == [n \in DOMAIN levels \cup names |-> IF n \in DOMAIN levels THEN levels[n] ELSE l]

-----------------------------------------------------------------------------
CallGraphInit ==
    /\ cg \in CGPrograms /\ lines \in StackFiles /\ option \in Levels
    /\ cgstep = "start" /\ entry = "" /\ skip = FALSE
    /\ levels = EmptyMap /\ queue = <<>> /\ level = 1 /\ filelist = {}

findStartFunction ==
    /\ cgstep = "start" /\ HasStart
    /\ entry' = Start /\ skip' = (ThreadStacks # {})
    /\ levels' = [n \in {Start} |-> 1]
    /\ queue' = <<{Start}>> /\ cgstep' = "levels"
    /\ UNCHANGED <<cg, lines, option, level, filelist>>

(* No start is found and the assertion fails. *)
NoStart ==
    /\ cgstep = "start" /\ ~HasStart /\ cgstep' = "aborted"
    /\ UNCHANGED <<cg, lines, option, entry, skip, levels, queue, level, filelist>>

iterateOneLevel ==
    LET next == UNION {Leads(n) : n \in Head(queue)}
        stacked == UNION {StackNext(n) : n \in Head(queue)}
    IN  /\ cgstep = "levels" /\ level <= MaxLevel /\ queue # <<>>
        /\ levels' = WithLevel(next \cup stacked, level)
        /\ queue' = Tail(queue) \o (IF next = {} THEN <<>> ELSE <<next>>)
        /\ level' = level + 1
        /\ UNCHANGED <<cg, lines, option, cgstep, entry, skip, filelist>>

(* The functions found are printed with their debug information, which one *)
(* that is only declared has not.                                          *)
PrintsLevels ==
    /\ cgstep = "levels" /\ (level > MaxLevel \/ queue = <<>>)
    /\ cgstep' = IF \E n \in DOMAIN levels : FnOf(n).declared THEN "aborted" ELSE "others"
    /\ UNCHANGED <<cg, lines, option, entry, skip, levels, queue, level, filelist>>

extractOtherCallGraph ==
    /\ cgstep = "others"
    /\ levels' = WithLevel({f.name : f \in {f \in Functions : ~BlackListed(f) /\ f.big /\ f.listed}}, 88)
    /\ cgstep' = "files"
    /\ UNCHANGED <<cg, lines, option, entry, skip, queue, level, filelist>>

WriteFileList ==
    /\ cgstep = "files"
    /\ filelist' = {FnOf(n).file : n \in DOMAIN levels}
    /\ cgstep' = "done"
    /\ UNCHANGED <<cg, lines, option, entry, skip, levels, queue, level>>

CallGraphNext == findStartFunction \/ NoStart \/ iterateOneLevel \/ PrintsLevels \/ extractOtherCallGraph \/ WriteFileList

CallGraphSpec == CallGraphInit /\ [][CallGraphNext]_cgvars

-----------------------------------------------------------------------------
(* A reference: what k calls from the entry reach. *)
Within ==
    LET w[k \in 0 .. MaxLevel] == IF k = 0 THEN {entry} ELSE w[k - 1] \cup UNION {Leads(n) : n \in w[k - 1]} IN w

(* The level of a function is the length of the shortest chain of calls    *)
(* that leads to it, and nothing in reach is missed: iterateOneLevel has   *)
(* no set of visited functions, only a map that keeps the first level.     *)
LevelsAreDistances ==
    cgstep \in {"others", "files", "done"} =>
        /\ Within[MaxLevel] \subseteq DOMAIN levels
        /\ \A n \in Within[MaxLevel] \ {entry} : \A k \in 1 .. MaxLevel :
              ~BlackListed(FnOf(n)) => (levels[n] = k <=> n \in Within[k] \ Within[k - 1])

(* The files handed on hold every function in reach, and no other than     *)
(* those of functions on a stack or of the white lists.                    *)
FilesAreJustified ==
    cgstep = "done" =>
        /\ {FnOf(n).file : n \in Within[MaxLevel]} \subseteq filelist
        /\ \A file \in filelist : \E f \in Functions :
              f.file = file /\ (f.name \in Within[MaxLevel] \/ InStack(f) \/ (f.listed /\ f.big /\ ~BlackListed(f)))

CallGraphSound == LevelsAreDistances /\ FilesAreJustified
=============================================================================
