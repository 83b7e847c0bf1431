--------------------------- MODULE MCComponentMap ---------------------------
(***************************************************************************)
(* Two elements and one of the merged layers between them, and three paths *)
(* of which the third is the second with a blank and another word.         *)
(***************************************************************************)
EXTENDS ComponentMap

MCElement == 1 .. 3
MCLayers == {2}
MCFile == 1 .. 3
MCPathOf == [f \in MCFile |-> IF f = 3 THEN 2 ELSE f]
=============================================================================
