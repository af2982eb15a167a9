----------------------------- MODULE MCConsole -----------------------------
(***************************************************************************)
(* Instance of Console: four lines of eight characters, and texts of none, *)
(* one or two lines that are shorter than four characters, so that every   *)
(* store stays inside the buffer.                                          *)
(***************************************************************************)
EXTENDS Console

ShortTexts == {<<>>, <<"a">>, <<"a", "b", "a">>, <<"b", "b">>,
               <<"a", NewLine, "b", "a">>}
=============================================================================
