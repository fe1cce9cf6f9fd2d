-------------------------- MODULE MCCommandParser --------------------------
(* CommandParser.tla for TLC: all lines over a few characters, and lines   *)
(* that use every command with right and wrong arguments.                  *)
EXTENDS CommandParser

MCSize == 10
MCCommands ==
    { <<"c">>, <<"c", " ", "t">>, <<"c", " ", "1", " ", "1">>,
      <<"c", " ", "t", " ", "1">>, <<"c", " ", "f", " ", "1", " ", "t", " ", "2">>,
      <<"c", " ", "t", " ", "1", " ", "t", " ", "2">>,
      <<"b", " ", "1">>, <<"b", " ", "p">>, <<"b">>, <<"x", " ", "1", "2">>, <<"x">>,
      <<"a", " ", "1", " ", "2", " ", "d">>, <<"a", " ", "1", " ", "2", " ", "p">>,
      <<"m">>, <<"h">>, <<"h", " ", " ", " ", " ", " ", " ", " ", "1">>, <<"e">>, <<" ", "e">>,
      <<"s">>, <<"s", " ", "1">>, <<"s", " ", "1", " ", "2">> }
MCLines == BoundedSeq({" ", "\"", "p"}, 4) \cup MCCommands
=============================================================================
