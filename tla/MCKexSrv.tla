------------------------------ MODULE MCKexSrv ------------------------------
(***************************************************************************)
(* Small instances of KexSrv for TLC.                                      *)
(***************************************************************************)
EXTENDS KexSrv, TLC

(* A hard error with its two strings is larger than an announcement: an    *)
(* announcement and an error do not fit into the pipe together.            *)
MCSize == [m \in Kinds |-> IF m = "start" THEN 1 ELSE 2]

(* Process ids are interchangeable; only runs without liveness use this.   *)
MCSymmetry == Permutations(Servers) \cup Permutations(Clients)
=============================================================================
