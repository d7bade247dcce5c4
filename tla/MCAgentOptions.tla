--------------------------- MODULE MCAgentOptions ---------------------------
(* TLC instances of AgentLoad and AgentOptions: what the users of the runs write. *)
EXTENDS AgentLoad

Scope(name) == [name |-> name, separator |-> "."]

Pkg == [Item("pkg") EXCEPT !.scopes = <<Scope("app")>>]
SearchTwo == [Item("search") EXCEPT !.scopes = <<Scope("model"), Scope("app")>>]
SearchNone == Item("search")
Ignore == [Item("ignore") EXCEPT !.scopes = <<Scope("util")>>]
Point(line) ==
    [Item("progress-point") EXCEPT !.class = "LMain", !.colon = TRUE, !.number = line]
NoPoint == [Item("progress-point") EXCEPT !.class = "LMain"]
Warmup(ms) == [Item("warmup") EXCEPT !.number = ms]
Level(level) == [Item("logging-level") EXCEPT !.level = level]
Output(path) == [Item("output-file") EXCEPT !.path = path]

\* Single options, one with an underscore inside its value.  The documented fix_exp
\* is left to Documents: it is refused.
Arguments ==
    {<<Pkg>>, <<SearchTwo>>, <<SearchNone>>, <<Ignore>>, <<Point({7})>>, <<Point({8})>>,
     <<Point({-1})>>, <<Point({})>>, <<NoPoint>>, <<Warmup({5})>>, <<Warmup({9})>>, <<Warmup({})>>,
     <<Level("debug")>>, <<Level("loud")>>, <<Item("end-to-end")>>, <<Item("fix-exp")>>,
     <<Output(<<"out", ".", "csv">>)>>,
     <<Pkg, Item("impl")>>}

\* Up to three options.
Three == {FlattenSeq(s) : s \in UNION {[1..n -> Arguments] : n \in 0..3}}

\* What README.md's examples ask for.
Documents == {<<Pkg, Point({7})>> \o rest :
    rest \in {<<>>, <<Item("fix"), Item("exp")>>,
              <<Output(<<"/", "home", "/", "out", ".", "coz">>)>>,
              <<Output(<<".", ".", "/", "out", ".", "coz">>)>>}}

=============================================================================
