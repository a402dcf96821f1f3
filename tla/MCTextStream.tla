---------------------------- MODULE MCTextStream ----------------------------
(***************************************************************************)
(* An instance of TextStream over two characters: every choice of at most  *)
(* two stop strings of at most three characters, the empty one included.   *)
(***************************************************************************)
EXTENDS TextStream

CONSTANTS a, b

Characters == {a, b}

Pieces == {<<a>>, <<b>>, <<a, b>>}

Texts == UNION {[1 .. n -> Characters] : n \in 0 .. 3}

UpToTwoStops == {{}} \cup {{s, t} : s, t \in Texts}
=============================================================================
