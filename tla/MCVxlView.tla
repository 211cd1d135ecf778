----------------------------- MODULE MCVxlView ------------------------------
(***************************************************************************)
(* Small instances of VxlView for TLC.                                     *)
(***************************************************************************)
EXTENDS VxlView, TLC

MCComponents == {"KexDll"}

(* Two texts and no details, two severities.                               *)
MCEntry(s, t, b) == [sev |-> s, comp |-> "KexDll", header |-> t, body |-> b]

Plain == MCEntry("error", "a", NoText)
Debug == MCEntry("debug", "a", NoText)
Detailed == MCEntry("error", "b", "a")
MCEntries == {Debug}

MCJunk == {Detailed, Unreadable}

MCFilter(s, h, w) ==
  [ResetFilter EXCEPT !.sevs = s, !.empty = FALSE, !.hits = h, !.whole = w,
                      !.wild = w]

(* One severity and both texts; a text in the details; nothing.            *)
MCFilters == {MCFilter({"error"}, {"a", "b"}, FALSE),
              MCFilter(Severities, {"a"}, TRUE),
              MCFilter({"error"}, {}, FALSE)}

(* The first file may grow by an entry, the second is at the bound.        *)
MCInitialLogs ==
  {(1 :> <<Plain, Debug>>) @@ (2 :> <<Plain, Detailed, Debug>>)}
=============================================================================
