----------------------------- MODULE ShapeCases -----------------------------
(* The programs that MCParts gives the analyses: a switch on a state, of   *)
(* each width, with a case that begins with another switch, and on a       *)
(* conditional expression; a chain of ifs that compares a command;         *)
(* conditions with an "or", and with a switch in a statement expression; a *)
(* loop without an end; a table of handlers.  See ProgramShape for what a program is.      *)
EXTENDS Integers, Sequences

SLoad(name, type, line) == [op |-> "load", type |-> type, uses |-> {}, name |-> name, line |-> line]
SCmp(uses, call) == [op |-> "icmp", type |-> "i1", uses |-> uses, call |-> call, line |-> 0]
SBr == [op |-> "br", type |-> "none", uses |-> {}, line |-> 0]
SCall(callee, defined, args, line) ==
    [op |-> "call", type |-> "i32", uses |-> {}, callee |-> callee, direct |-> TRUE, defined |-> defined, table |-> "",
     args |-> args, line |-> line]
SPtrCall(table, args, line) == [SCall("", FALSE, args, line) EXCEPT !.direct = FALSE, !.table = table]
SSwitch(on, name, cases, line) ==
    [op |-> "switch", type |-> "none", uses |-> {on}, on |-> on, name |-> name, cases |-> cases, line |-> line]
SGep(of, member, idx) == [op |-> "gep", type |-> "ptr", uses |-> {}, of |-> of, member |-> member, idx |-> idx, indexed |-> TRUE, line |-> 0]
SOther(type, uses) == [op |-> "other", type |-> type, uses |-> uses, line |-> 0]

SArg(val, sem) == [val |-> val, name |-> "arraydecay", sem |-> sem, mean |-> sem, str |-> TRUE, const |-> FALSE, struct |-> ""]
SConst == [val |-> <<0, 1>>, name |-> "", sem |-> ".str", mean |-> "", str |-> TRUE, const |-> TRUE, struct |-> ""]
SStruct(val, type, mean) == [val |-> val, name |-> "", sem |-> "Null", mean |-> mean, str |-> FALSE, const |-> FALSE, struct |-> type]

SBlock(label, insts, succ) == [label |-> label, insts |-> insts, succ |-> succ]
SFunc(name, file, blocks) ==
    [name |-> name, file |-> file, header |-> FALSE, skipped |-> FALSE, defined |-> TRUE, memory |-> FALSE,
     params |-> <<>>, blocks |-> blocks]
SProgram(functions) == [functions |-> functions, tables |-> {}, structs |-> [t \in {} |-> <<>>], order |-> <<>>]

SCase(callee, end) == SBlock("sw.bb", <<SCall(callee, TRUE, <<>>, 20), SBr>>, <<end>>)
Dispatch(type, cases) ==
    SFunc("dispatch", "proto.c", <<
        SBlock("entry", <<SLoad("state", type, 10), SSwitch(1, "state", cases, 10)>>, cases),
        SCase("handle_a", 8), SCase("handle_b", 8),
        SBlock("sw.bb", <<SLoad("mode", "i32", 13), SSwitch(1, "mode", <<5, 6, 7>>, 13)>>, <<5, 6, 7, 8>>),
        SCase("do_x", 8), SCase("do_y", 8), SCase("handle_a", 8),
        SBlock("sw.epilog", <<SBr>>, <<>>)>>)

SIf(b, then, else, line) ==
    SBlock("if.else", <<SOther("i8*", {}), SCall("strcmp", FALSE, <<SArg(<<b, 1>>, "buf"), SConst>>, line), SCmp({2}, 2), SBr>>, <<then, else>>)
Chain ==
    SFunc("parse", "parse.c", <<
        SIf(1, 2, 3, 30), SBlock("if.then", <<SCall("cmd_a", TRUE, <<>>, 31), SBr>>, <<9>>),
        SIf(3, 4, 5, 32), SBlock("if.then", <<SCall("cmd_b", TRUE, <<>>, 33), SBr>>, <<9>>),
        SIf(5, 6, 7, 34), SBlock("if.then", <<SCall("cmd_c", TRUE, <<>>, 35), SCall("do_x", TRUE, <<>>, 35), SBr>>, <<9>>),
        SBlock("if.end", <<SLoad("state", "i32", 36), SCmp({1}, 0), SBr>>, <<9, 8>>),
        SBlock("lor.lhs.false", <<SLoad("mode", "i32", 36), SOther("i64", {1}), SCmp({2}, 0), SBr>>, <<9, 10>>),
        SBlock("if.then", <<SOther("i32", {}), SBr>>, <<10>>),
        SBlock("if.end", <<SBr>>, <<>>)>>)

\* switch (a ? b : c): the block begins with the phi of the two values.
Conditional ==
    [Dispatch("i64", <<2, 3, 4>>) EXCEPT !.blocks[1].label = "cond.end", !.blocks[1].insts[1] = SOther("i64", {}),
                                         !.blocks[1].insts[2].name = ""]

\* if (a || ({ do { do_y(); } while (0); switch ((int) mode) { ... } mode; }))
Guarded ==
    SFunc("guarded", "proto.c", <<
        SBlock("entry", <<SLoad("a", "i32", 60), SCmp({1}, 0), SBr>>, <<9, 2>>),
        SBlock("lor.lhs.false", <<SBr>>, <<3>>),
        SBlock("do.body", <<SCall("do_y", TRUE, <<>>, 60), SBr>>, <<4>>),
        SBlock("do.end", <<SLoad("mode", "i8", 61), SOther("i32", {1}), SSwitch(2, "mode", <<5, 6, 7>>, 61)>>, <<8, 5, 6, 7>>),
        SCase("handle_a", 8), SCase("handle_b", 8), SCase("do_x", 8),
        SBlock("sw.epilog", <<SLoad("mode", "i8", 65), SCmp({1}, 0), SBr>>, <<9, 10>>),
        SBlock("if.then", <<SOther("i32", {}), SBr>>, <<10>>),
        SBlock("if.end", <<SBr>>, <<>>)>>)

Loop == SFunc("loop", "loop.c", <<SBlock("entry", <<SLoad("a", "i32", 40), SCmp({1}, 0), SBr>>, <<2, 3>>),
                                  SBlock("if.then", <<SBr>>, <<3>>), SBlock("while.body", <<SBr>>, <<3>>)>>)

Handler(name) ==
    [SFunc(name, "table.c", <<SBlock("entry", <<SGep("conn", 2, 0), SBr>>, <<2>>), SBlock("return", <<SBr>>, <<>>)>>)
       EXCEPT !.params = <<"conn">>]
Tabled(type, args) == [
    functions |-> <<
        SFunc("serve", "table.c", <<
            SBlock("entry", <<SLoad("i", type, 50), SGep("handlers", 0, 1), SPtrCall("handlers", <<>>, 51), SBr>>, <<2>>),
            SBlock("return", <<SLoad("i", type, 53), SGep("handlers", 0, 1), SPtrCall("handlers", <<>>, 54),
                               SPtrCall("handlers", <<SConst>>, 55), SBr>>, <<>>)>>),
        SFunc("receive", "table.c", <<
            SBlock("entry", <<SGep("entry_t", 1, 0), SOther("i8*", {}), SOther("ptr", {}), SCall("serve", TRUE, args, 52), SBr>>, <<2>>),
            SBlock("return", <<SBr>>, <<>>)>>),
        Handler("on_a"), Handler("on_b")>>,
    tables |-> {[name |-> "handlers", functions |-> <<"on_a", "on_b", "on_a", "on_b">>, size |-> 4, type |-> "entry_t"]},
    structs |-> [t \in {"conn", "entry_t"} |->
                   IF t = "conn" THEN <<[kind |-> "struct*", type |-> "entry_t"], [kind |-> "i8**", type |-> ""]>>
                                 ELSE <<[kind |-> "scalar", type |-> ""]>>],
    order |-> <<"entry_t", "conn">>]

SharedCases == SProgram(<<Dispatch("i8*", <<2, 2, 3, 4>>)>>)

Programs ==
    {SProgram(<<Dispatch("i32", <<2, 3, 4>>), Chain>>), SProgram(<<Chain, Loop>>), SharedCases,
     Tabled("i64", <<SArg(<<1, 2>>, "cmd")>>), Tabled("i32", <<SStruct(<<1, 3>>, "conn", "conn")>>),
     Tabled("i8", <<SStruct(<<1, 3>>, "entry_t", "state"), SStruct(<<1, 3>>, "conn", "conn")>>),
     Tabled("i8*", <<SArg(<<1, 2>>, "msg"), SArg(<<1, 2>>, "cmd")>>)}
    \cup {SProgram(<<Dispatch(type, <<2, 3, 4>>)>>) : type \in {"i16", "ptr", "i64"}}
    \cup {SProgram(<<Conditional>>), SProgram(<<Guarded>>)}
FileRanges == {{}, {"proto.c", "table.c"}}

FnNames == {"handle_a", "handle_b", "do_x", "do_y", "cmd_a", "cmd_b", "cmd_c", "serve", "receive", "on_a", "on_b", "strcmp"}
Prefix == [n \in FnNames |-> CASE n \in {"handle_a", "handle_b"} -> "ha" [] n \in {"do_x", "do_y"} -> "do"
                               [] n \in {"cmd_a", "cmd_b", "cmd_c"} -> "cm" [] n \in {"on_a", "on_b"} -> "on" [] OTHER -> "se"]
Suffix == [n \in FnNames |-> CASE n \in {"handle_a", "cmd_a", "on_a"} -> "_a" [] n \in {"handle_b", "cmd_b", "on_b"} -> "_b"
                               [] n = "cmd_c" -> "_c" [] n = "do_x" -> "_x" [] n = "do_y" -> "_y" [] OTHER -> "ve"]
Names == <<"", "Null", "a", "buf", "cmd", "conn", "i", "mode", "msg", "state">>
Dictionary == {"state", "mode", "cmd", "conn"}

(* For the call graph: a server with a cycle of calls, functions that are  *)
(* passed, stored and kept in a table, and names of both lists.            *)
GCall(callee) == [kind |-> "call", callee |-> callee, args |-> {}, const |-> FALSE]
GFunc(name, file, body) ==
    [name |-> name, file |-> file, header |-> FALSE, plain |-> TRUE, declared |-> FALSE, big |-> FALSE, listed |-> FALSE,
     aka |-> {}, body |-> body]
Declared(name) == [GFunc(name, "", <<>>) EXCEPT !.declared = TRUE]
Server(main) == [
    functions |-> <<
        Declared("select"), Declared("recv"), GFunc("main", "main.c", main),
        GFunc("serve", "serve.c", <<GCall("select"), GCall("parse"), [GCall("say") EXCEPT !.const = TRUE]>>),
        GFunc("parse", "parse.c", <<GCall("run"), [GCall("walk") EXCEPT !.args = {"each"}], [GCall("table") EXCEPT !.kind = "gep"]>>),
        GFunc("run", "run.c", <<[GCall("") EXCEPT !.kind = "pointer"], GCall("deep"), GCall("main")>>),
        [GFunc("deep", "deep.c", <<GCall("deeper"), GCall("serve")>>) EXCEPT !.big = TRUE],
        GFunc("deeper", "deeper.c", <<GCall("recv")>>), GFunc("each", "each.c", <<>>), GFunc("walk", "walk.c", <<GCall("each")>>),
        GFunc("say", "say.c", <<>>), [GFunc("inline", "h.h", <<>>) EXCEPT !.header = TRUE],
        [GFunc("config_read", "conf.c", <<>>) EXCEPT !.plain = FALSE],
        [GFunc("handle_msg", "msg.c", <<GCall("config_read")>>) EXCEPT !.big = TRUE, !.listed = TRUE],
        GFunc("stored", "stored.c", <<[GCall("deep") EXCEPT !.kind = "cast"]>>), GFunc("cell", "cell.c", <<GCall("inline")>>)>>,
    tables |-> [t \in {"table"} |-> {"cell", "handle_msg"}],
    stored |-> {"stored"}]
MCServers == {Server(<<GCall("serve")>>), Server(<<GCall("select"), GCall("config_read")>>)}

Sep == "separator"
MCStackFiles ==
    {<<>>, <<"main", Sep>>, <<"serve", "main", Sep>>, <<"main", "serve", Sep, "parse", "inline", Sep>>,
     <<"clone", "start_thread", "nowhere", "parse", Sep>>, <<"main", "recv", Sep>>, <<"other", "serve">>, <<"x", Sep>>,
     <<"parse", "config_read", Sep, "clone", "deep", Sep>>, <<"serve", Sep, "walk", "say", "x", Sep>>}
=============================================================================
