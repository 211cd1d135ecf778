------------------------------ MODULE MCVxlLog ------------------------------
(***************************************************************************)
(* Small instances of VxlLog for TLC.                                      *)
(***************************************************************************)
EXTENDS VxlLog, TLC

CONSTANTS p1, p2, t1, t2, t3, r1

(* One process with two threads and one with a single thread.              *)
MCProcOf == (t1 :> p1) @@ (t2 :> p1) @@ (t3 :> p2)
MCProcOfOne == (t1 :> p1) @@ (t2 :> p1)

MCApps == {"VxKex", "Other"}
MCAppOf == [p \in Processes |-> "VxKex"]

MCDispositions == {"OPEN_IF", "OVERWRITE_IF"}

MCSeverities == {"error", "debug"}

(* "LdrpHandle" is what the slot keeps of "LdrpHandleOneOldFormat".        *)
MCNames == {"", "Ldrp", "LdrpHandle", "LdrpHandleOneOldFormat"}
MCStored ==
  [n \in MCNames |-> IF n = "LdrpHandleOneOldFormat" THEN "LdrpHandle" ELSE n]

MCFaultReport == [sev |-> "error", src |-> <<"LdrpHandle", "">>]

(* A plain call, one that omits a name, one with a name too long.          *)
MCRequests ==
  {[sev |-> "debug", src |-> <<"Ldrp", "LdrpHandle">>],
   [sev |-> "error", src |-> <<"", "Ldrp">>],
   [sev |-> "error", src |-> <<"Ldrp", "LdrpHandleOneOldFormat">>]}
=============================================================================
