---------------------------- MODULE MCCasRestore ----------------------------
(***************************************************************************)
(* Two chunks, one of them without a key of its own; each tarball has an   *)
(* object of core's and one of its own.                                    *)
(***************************************************************************)
EXTENDS CasRestore

MCChunk == <<"c1", "c2">>
MCKeyed == {"c1"}
MCObject == {"base", "x", "y", "z"}
MCTarball ==
    [r \in Ref |->
        CASE r = Core              -> <<"base", "x">>
          [] r = <<"c1", "key">>   -> <<"y", "base">>
          [] OTHER                 -> <<"base", "z">>]
=============================================================================
