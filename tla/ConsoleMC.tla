----------------------------- MODULE ConsoleMC -----------------------------
(***************************************************************************)
(* Values for model checking Console: a screen of six columns and three    *)
(* rows, short enough for a prompt and a line to wrap and to scroll. Other *)
(* programs print a character, and the kernel the code of one that ends.   *)
(***************************************************************************)
EXTENDS Console

CONSTANTS a, x, p

TheChars    == {a, Blank}
TheOutputs  == {<<x>>}
TheCodes    == {-128, 0, 10}
TheGreeting == <<x>>
TheBanner   == <<x>>
ThePrefix   == <<p>>
=============================================================================
