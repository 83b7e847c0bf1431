--------------------------- MODULE MCBuildControl ---------------------------
(***************************************************************************)
(* Two handler threads, two fetch threads and two builds.                  *)
(***************************************************************************)
EXTENDS BuildControl

CONSTANTS r1, r2, f1, f2

MCReq == {r1, r2}
MCFetcher == {f1, f2}
=============================================================================
