---------------------------- MODULE MCBuildState ----------------------------
(***************************************************************************)
(* A small instance of BuildState: three cache keys, two of them of the    *)
(* same element, and one element that the Failure Summary pattern does not *)
(* recognise.                                                              *)
(***************************************************************************)
EXTENDS BuildState

CONSTANTS h1, h2, h3, kwin, session

MCHash == {h1, h2, h3}
MCElement == {kwin, session}
MCElementOf == [h \in MCHash |-> IF h = h3 THEN session ELSE kwin]
MCKdeElement == {kwin}
=============================================================================
