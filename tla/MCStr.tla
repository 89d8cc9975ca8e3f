------------------------------- MODULE MCStr -------------------------------
(* Instances of Str and Json for TLC.                                      *)
EXTENDS Json

\* Empty, short, and long enough to leave the struct at once
ShortAndLong == {<<>>, <<1>>, <<2, 1>>, <<2, 1, 1, 2, 1, 2>>}

\* The last one grows out of the struct and out of the first block.
SomeLists == {<<>>, <<<<1>>>>, <<<<2>>, <<1, 2>>, <<1>>>>}
=============================================================================
