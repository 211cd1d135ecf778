--------------------------- MODULE MCPropagation ---------------------------
(***************************************************************************)
(* Propagation for TLC: three generations of processes.                    *)
(***************************************************************************)
EXTENDS Propagation, TLC

CONSTANTS root, child, grandchild, t1
MCProcs == {root, child, grandchild}
MCThreads == {t1}
MCKeys == [p \in MCProcs |-> CASE p = root -> "spread"
                              [] p = child -> "absent"
                              [] p = grandchild -> "stay"]
MCBits == [p \in MCProcs |-> IF p = child THEN 32 ELSE 64]
============================================================================
