---------------------------- MODULE MCConnection ----------------------------
(***************************************************************************)
(* Connection for TLC: a few streams with empty lines, lines that end in   *)
(* "\r\n", several lines, and a carriage return within a line.             *)
(***************************************************************************)
EXTENDS Connection, TLC

MCStreams ==
  {<<"x", "lf", "x", "cr", "lf">>, <<"cr", "lf", "lf">>, <<"x", "x", "cr", "x", "lf">>}
MCLengths == <<2, 1, 2>>
=============================================================================
