-------------------------- MODULE ParameterFileMC --------------------------
(* Small instances of ParameterFile for TLC. *)
EXTENDS ParameterFile

CONSTANT MaxLines     \* the bound on the lines after the first

\* A sensor's block and a line with its key, settings (two of them in one line
\* that ends with ';'), a comment that looks like a block, and the end of a block.
MCLines == {
  <<"(", "s", ")", ":", " ", "{">>,
  <<"(", "s", ")", ":", "v">>,
  <<"n", ":", "1">>,
  <<"\t", "n", " ", ":", "2">>,
  <<"m", ":", "3", ";", "n", ":", "4", ";">>,
  <<"#", ":", "{">>,
  <<" ", "}">>,
  <<" ">>}
\* Every short file, and longer ones that begin with the sensor's block.
MCFiles ==
  BoundedSeq(MCLines, MaxLines - 1) \cup
  {<<<<"(", "s", ")", ":", " ", "{">>>> \o f : f \in BoundedSeq(MCLines, MaxLines)}
=============================================================================
