----------------------------- MODULE MCStateApi -----------------------------
(***************************************************************************)
(* One cache key of an element the Failure Summary pattern accepts and one *)
(* of an element it rejects.                                               *)
(***************************************************************************)
EXTENDS StateApi

CONSTANTS h1, h2, kwin, session

MCHash == {h1, h2}
MCElement == {kwin, session}
MCElementOf == [h \in MCHash |-> IF h = h1 THEN kwin ELSE session]
MCKdeElement == {kwin}
=============================================================================
