---------------------------- MODULE MCVxlLegacy ----------------------------
(***************************************************************************)
(* Small instances of VxlLegacy for TLC.                                   *)
(***************************************************************************)
EXTENDS VxlLegacy, TLC

CONSTANTS t1, t2, A, B, Long

MCFlags == {{"write", "create", "append"}, {"write", "create", "overwrite"}}
Call(component, severity, text) == [component |-> component, severity |-> severity, text |-> text]
(* Texts with a newline at the end, at the beginning, twice and not at all.*)
MCRequests ==
    {Call(A, "error", <<"x">>), Call(A, "debug", <<"x", "y", "z", "\r", "\n">>),
     Call(B, "debug", <<"\r", "\n", "x", "\r", "\n", "z">>),
     Call(B, "error", <<"x", "y", "\r", "\n", "\r", "\n", "z">>),
     Call(Long, "debug", <<"x">>)}
Symmetric == Permutations(Threads)
=============================================================================
