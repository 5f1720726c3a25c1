----------------------------- MODULE MCServices -----------------------------
(* A condition with and one without hysteresis; two sessions from two       *)
(* addresses, a server with and one without a login, on two ports; two        *)
(* generations of two-line files; a card with a wired and a switched outlet,  *)
(* two syslog slots, and a name it cuts.                                      *)
EXTENDS Services

CONSTANTS s1, s2

Block(enabled, id, port, required) ==
  [enabled |-> enabled, id |-> id, port |-> port, required |-> required, login |-> "right"]
MCSpecs == {Block(TRUE, "", 0, TRUE), Block(TRUE, "lab", 3494, FALSE), Block(TRUE, "lab", 3494, TRUE), Block(FALSE, "ups", 3493, FALSE)}
MCTruncate == [n \in Names |-> IF n = "a name too long to keep" THEN "a name too" ELSE n]
MCLists == {<<>>, <<"h1">>, <<"h2", "h1">>, <<"h1", "h2", "h1">>}
=============================================================================
