---------------------------- MODULE MCBuildFeed ----------------------------
(***************************************************************************)
(* A small instance of BuildFeed: two cache keys of an element the Failure *)
(* Summary pattern accepts and one of an element it rejects.               *)
(***************************************************************************)
EXTENDS BuildFeed

CONSTANTS h1, h2, h3, kwin, xfwm

MCHash == {h1, h2, h3}
MCElement == {kwin, xfwm}
MCElementOf == [h \in MCHash |-> IF h = h3 THEN xfwm ELSE kwin]
MCKdeElement == {kwin}
=============================================================================
