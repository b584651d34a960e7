-------------------------- MODULE MCSharedRuntime --------------------------
(* Values of the constants for TLC: a Claude server with its child, the      *)
(* wizard that asks for a newer SDK (--oauth), and a Codex install that      *)
(* asks for other extras.                                                    *)
EXTENDS SharedRuntime

OneServer == {<<"claude", "server">>, <<"claude", "child">>,
              <<"claude", "setup">>, <<"codex", "wizard">>}

TwoServers == {<<"claude", "server">>, <<"claude", "child">>,
               <<"codex", "server">>, <<"codex", "child">>}

OneServerTexts ==
    [a \in OneServer |->
        IF a[1] = "codex" THEN "cli" ELSE IF a[2] = "setup" THEN "oauth" ELSE "base"]

TwoServerTexts == [a \in TwoServers |-> IF a[1] = "codex" THEN "newer" ELSE "base"]

AcceptsOf ==
    [t \in {"base", "newer", "oauth", "cli"} |-> IF t \in {"base", "cli"} THEN {1, 2} ELSE {2}]

ExtrasOf ==
    [t \in {"base", "newer", "oauth", "cli"} |-> IF t = "cli" THEN {"mcp", "cli"} ELSE {"mcp"}]

=============================================================================
