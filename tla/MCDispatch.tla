----------------------------- MODULE MCDispatch -----------------------------
EXTENDS Dispatch

MCVarName  == [v \in {"{x}", "{y:a+}", "{_}"} |-> IF v = "{x}" THEN "x" ELSE IF v = "{_}" THEN "_" ELSE "y"]
MCVarChars == [v \in DOMAIN MCVarName |-> IF v = "{y:a+}" THEN {"a"} ELSE {"a", "."}]

MCBasePaths == {<<>>, <<"/">>, <<"a">>, <<"/", "a", "/", "/">>, <<"a", "/">>}

Pattern(conds, text) == [conds |-> conds, text |-> text]

MCPatterns ==
  { Pattern(<<"GET">>, <<"/", "a">>),
    Pattern(<<"GET", "POST">>, <<"/", "{x}", "/">>),
    Pattern(<<>>, <<"/", "{x}", "{y:a+}">>),
    Pattern(<<"*">>, <<"/", "a", "/", "!">>),
    Pattern(<<>>, <<"/", "{_}">>),
    Pattern(<<"GET", "*">>, <<"/">>),
    Pattern(<<>>, <<"/", "{x}", "/", "{x}">>),
    Pattern(<<>>, <<"a">>) }

(* Paths net/http takes: empty, the asterisk, or with a slash at the start. *)
MCPaths ==
  {<<>>, <<"*">>} \cup UNION {{<<"/">> \o p : p \in [1 .. n -> {"/", ".", "a"}]} : n \in 0 .. 4}

MCTarget == <<"/", "a", "/">>
MCGotalkPath == <<"/", "a", "a", "a">>

(* A name without and with blanks around it, one with a blank within, and   *)
(* a line without a name.                                                   *)
MCLines == { <<"c", "=", "1", ";">>, <<" ", "c", "\t", "=", "2", ";">>,
             <<"c", " ", "d", "=", "1", ";">>, <<"c", "=", "3">> }
=============================================================================
