--------------------------- MODULE MCGenWasmExec ---------------------------
(* Upstream files of the shapes the patches meet: the releases they were     *)
(* written for, with comments and indentation that could be lost, and ones   *)
(* whose shape has moved on.                                                 *)
EXTENDS GenWasmExec, TLC

Tabs(n) == [tabs |-> n, spaces |-> 0]
Stmt(n, in) == [k |-> "stmt", b |-> 0, n |-> n, at |-> in]
Inner(b) == [k |-> "stmt", b |-> b, n |-> 0, at |-> Tabs(2)]
Open(b) == [k |-> "open", b |-> b]
Close(b) == [k |-> "close", b |-> b]
Global(g) == [k |-> "go", g |-> g]
Run(ps) == [k |-> "run", params |-> ps, at |-> Tabs(2)]
Bare(g) == [k |-> "bare", g |-> g, at |-> Tabs(4)]
Values == [k |-> "values", at |-> Tabs(3)]
EndRun == Mark("endrun")
Comment(n) == <<Mark("/*"), Stmt(n, Tabs(3)), Mark("*/")>>

\* " <tabs>return": a space before the tabs, as in upstream's own text.
Quirk == Stmt(9, [tabs |-> 0, spaces |-> 1])

Class(g, params, body) == <<Global(g), Run(params)>> \o body \o <<EndRun, Quirk>>

GoBody == <<Stmt(1, Tabs(3)), Values, Bare("globalThis")>> \o Comment(2)
            \o <<Bare("globalThis"), Stmt(3, Tabs(4))>>

GoText ==
  [v1 |-> Comment(4) \o Class("globalThis", <<"instance">>, GoBody) \o Comment(5),
   v2 |-> <<Stmt(6, Tabs(2)), Bare("globalThis")>> \o Class("globalThis", <<"instance">>, GoBody),
   v3 |-> Class("globalThis", <<"instance", "options">>, GoBody),
   v4 |-> Class("globalThis", <<"instance">>, GoBody \o <<Bare("globalThis")>>),
   v5 |-> Class("globalThis", <<"instance">>, GoBody),
   v6 |-> Missing]

NodeText ==
  LET lines(env, run) == <<"require">> \o env \o <<"exit", "instantiate">> \o run IN
  [v1 |-> lines(<<"env">>, <<"run">>),
   v2 |-> <<"argv">> \o lines(<<"env">>, <<"run">>),
   v3 |-> lines(<<"env">>, <<"run">>),
   v4 |-> lines(<<"env">>, <<"run">>),
   v5 |-> lines(<<>>, <<"run">>),
   v6 |-> lines(<<"env">>, <<"run", "run">>)]

ExecText == [v1 |-> "exec1", v2 |-> "exec2", v3 |-> "exec3", v4 |-> "exec4", v5 |-> "exec5",
             v6 |-> Missing]

\* The blocks of a legacy text; the fourth is two ifs in a row.
Block(b) == <<Open(b), Inner(b), Close(b)>>
           \o (IF b = 4 THEN <<Inner(4), Close(4)>> ELSE <<>>)
Legacy(last, body) ==
  <<Stmt(7, Tabs(1))>> \o Block(1) \o Block(2) \o Comment(8) \o Block(3) \o Block(4)
    \o Class("global", <<"instance">>, body) \o last \o <<Close(0)>>

TinyText ==
  LET values(g) == <<Values, Bare(g)>> IN
  [t1 |-> Legacy(Block(5), <<Stmt(1, Tabs(3))>> \o values("global") \o Comment(2)),
   t2 |-> Comment(4) \o Class("globalThis", <<"instance">>, values("globalThis")),
   t3 |-> Legacy(<<>>, values("global")),
   t4 |-> Legacy(Block(5), values("global") \o values("global"))]

Tags == [go |-> "v1", tinygo |-> "t1"]
GoTagSet == {"v1", "v2", "v3", "v4", "v5", "v6"}
TinygoTagSet == {"t1", "t2", "t3", "t4"}
=============================================================================
