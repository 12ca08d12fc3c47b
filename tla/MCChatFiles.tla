---------------------------- MODULE MCChatFiles ----------------------------
(* ChatFiles on small instances: a text with two files, the second first,   *)
(* and one with a file and a number that is no file's.  Names of one digit  *)
(* are in the order of the numbers.                                         *)
EXTENDS ChatFiles, TLC

CONSTANTS t1, t2

UsedNumbers == (t1 :> <<2, 1>>) @@ (t2 :> <<1, 3>>)
OneDigitRank == <<1, 2, 3>>
=============================================================================
