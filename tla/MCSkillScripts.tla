--------------------------- MODULE MCSkillScripts ---------------------------
(***************************************************************************)
(* Python scripts of up to three statements over two names, in blocks of   *)
(* depth 0 to 2, one assignment at least among the first two; shell        *)
(* scripts of three lines over two variables, one a prefix of the other,   *)
(* with one line of two commands.                                          *)
(***************************************************************************)
EXTENDS SkillScripts

C(source, sink, danger) == [source |-> source, sink |-> sink, danger |-> danger]
GetEnv == C("credential", "none", "none")
Post == C("network_input", "network_output", "none")
Eval == C("none", "code_execution", "builtin")
Popen == C("none", "code_execution", "process")
GetAttr == C("none", "none", "getattr")

St(target, value, callee, args, kws, depth) ==
    [target |-> target, value |-> value, callee |-> callee, args |-> args,
     kws |-> kws, depth |-> depth]
None == C("none", "none", "none")
Assigns(name, other, depth) ==
    {St(name, "call", GetEnv, <<"literal">>, <<>>, depth),
     St(name, "call", C("file_read", "none", "none"), <<"literal">>, <<>>, depth),
     St(name, "environ", None, <<>>, <<>>, depth),
     St(name, "fstring", None, <<"expression", other>>, <<>>, depth),
     St(name, "fstring", None, <<other, name>>, <<>>, depth),
     St(name, "copy", None, <<other>>, <<>>, depth),
     St(name, "other", None, <<>>, <<>>, depth),
     St(name, "call", Post, <<other>>, <<>>, depth)}
Sinks(target, depth) ==
    {St(target, "call", Post, <<"literal">>, <<[name |-> "data", value |-> "a"]>>, depth),
     St(target, "call", Post, <<"literal", "b", "a">>, <<>>, depth),
     St(target, "call", Eval, <<"b">>, <<>>, depth),
     St(target, "call", Eval, <<"decoded">>, <<>>, depth),
     St(target, "call", Eval, <<"fetched">>, <<>>, depth),
     St(target, "call", Popen, <<"a">>, <<[name |-> "shell", value |-> "True"]>>, depth),
     St(target, "call", Popen, <<"literal">>, <<[name |-> "env", value |-> "b"]>>, depth),
     St(target, "call", GetAttr, <<"a", "b">>, <<>>, depth)}
Depths == {0, 2}
FirstStatements == UNION {Assigns("a", "b", d) : d \in Depths}
SecondStatements ==
    UNION {Assigns("a", "b", d) \cup Assigns("b", "a", d) \cup Sinks("none", d) : d \in Depths}
ThirdStatements ==
    Sinks("none", 0) \cup Sinks("b", 0) \cup Sinks("none", 1) \cup Assigns("b", "a", 0)
MCScripts ==
    {<<>>} \cup {<<s, t, u>> : s \in FirstStatements, t \in SecondStatements,
                              u \in ThirdStatements}

Cmd(op, var, value) == [op |-> op, var |-> var, value |-> value]
Commands ==
    {Cmd("assign", v, x) : v \in {"A", "AB"}, x \in {"$1", "$()", "text"}}
    \cup {Cmd("assign", "AB", "A"), Cmd("export", "AB", "A"), Cmd("export", "A", "$1")}
    \cup {Cmd("read", v, "text") : v \in {"A", "AB"}}
    \cup {Cmd("eval", "A", x) : x \in {"A", "AB", "$1", "$()"}}
    \cup {Cmd("exec", "A", x) : x \in {"A", "AB", "text"}}
    \cup {Cmd("fetch", "A", "text"), Cmd("comment", "A", "$1")}
Executions == {c \in Commands : c.op \in {"eval", "exec", "fetch"}}
Pairs == {<<c, d>> : c \in {x \in Commands : x.op # "comment"},
                     d \in Executions \cup {Cmd("assign", "A", "$1"),
                                                           Cmd("export", "AB", "A")}}
MCShScripts ==
    {<<>>} \cup {<<<<c>>, <<d>>, <<e>>>> : c \in Commands, d \in Commands, e \in Executions}
    \cup {<<<<c>>, p, <<e>>>> : c \in {x \in Commands : x.op \in {"assign", "read", "fetch"}},
                                p \in Pairs, e \in Executions}
MCPrefixes == [v \in {"A", "AB"} |-> IF v = "A" THEN {"A"} ELSE {"A", "AB"}]
=============================================================================
