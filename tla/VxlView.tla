------------------------------ MODULE VxlView -------------------------------
(***************************************************************************)
(* The back end of VxlView, the viewer of VXL logs: the log that is open,  *)
(* the filter and the lookup table from rows of the list to entries, and   *)
(* the threads that export the log to a text file.                         *)
(*                                                                         *)
(* The window thread opens logs, sets filters and fills rows on demand;    *)
(* export threads share its state without a lock.  Disabling the main      *)
(* window is what is to keep them apart.  A writer may append to any log   *)
(* meanwhile; VxlLog has the details of that, here an entry is counted and *)
(* written at once.  The model is of a release build: ASSERT checks        *)
(* nothing.                                                                *)
(***************************************************************************)
EXTENDS Integers, Sequences, FiniteSets, FiniteSetsExt

CONSTANTS
  Files,        \* log files
  Severities,   \* values of VXLSEVERITY
  Components,   \* source components
  Texts,        \* contents of TextHeader and Text
  NoText,       \* Text.Buffer is NULL: the entry has a header only
  Entries,      \* the log entries that writers write
  Filters,      \* the filters that the user sets
  InitialLogs,  \* what the files may hold when VxlView is started
  MaxEntries,   \* bound: entries of a file
  Threshold,    \* above it the number of rows is only estimated (2000000)
  JunkReads,    \* what a read past the end of an array may return
  Unreadable,   \* GetLogEntryRaw returns NULL
  Freed,        \* a pointer to an entry that has been freed
  Lost,         \* what an export has of an entry that it could not write
  MaxLost,      \* bound: entries that an export cannot write
  Exporters,    \* export threads
  None

(* A log entry; `header' is the part of the text that the list shows.      *)
Entry == [sev : Severities, comp : Components, header : Texts, body : Texts \cup {NoText}]

(* BACKENDFILTERS.  `hits' are the texts that the search expression alone  *)
(* matches, `empty' means that there is none.                              *)
Filter == [sevs : SUBSET Severities, comps : SUBSET Components,
           empty : BOOLEAN, hits : SUBSET Texts, wild : BOOLEAN,
           whole : BOOLEAN, inverted : BOOLEAN]

(* The filter that ResetFilterControls leaves: everything is shown.        *)
ResetFilter == [sevs |-> Severities, comps |-> Components, empty |-> TRUE,
                hits |-> {}, wild |-> FALSE, whole |-> FALSE,
                inverted |-> FALSE]

ASSUME ConstantsAssumption ==
  /\ Entries \subseteq Entry
  /\ Filters \subseteq Filter
  /\ MaxEntries \in Nat
  /\ Threshold \in Nat
  /\ InitialLogs \subseteq [Files -> UNION {[1..n -> Entry] : n \in 0..MaxEntries}]
  /\ Unreadable \notin Entry /\ Freed \notin Entry /\ Lost \notin Entry
  /\ MaxLost \in Nat
  /\ JunkReads \subseteq Entry \cup {Unreadable}
  /\ NoText \notin Texts
  /\ None \notin Files

VARIABLES
  log,      \* log[f]: the entries of file f
  ended,    \* how the process has ended, "no" while it runs
  ui,       \* window thread: "idle", in a dialog ("open", "save"), "opening"
  enabled,  \* the main window takes input
  opening,  \* what VxlOpenLog has indexed: the file, the length of the index
  file,     \* State->LogHandle
  view,     \* what GetLogEntryRaw returns for 0..NumberOfLogEntries-1
  filter,   \* State->Filters
  lookup,   \* State->FilteredLookupCache; its size is the estimate
  items,    \* number of rows of the list view
  exp       \* export threads

viewVars == <<file, view, filter, lookup, items>>
uiVars == <<ui, enabled, opening>>
vars == <<log, ended, uiVars, viewVars, exp>>

Running == ended = "no"
N == Len(view)

(* Unset rows hold (ULONG) -1, whose successor is 0.                       *)
Unset == -1

Rows(n) == 0..(n - 1)

IdleExport == [step |-> "idle", pos |-> 0, max |-> 0, entry |-> None,
               out |-> <<>>, same |-> TRUE]

(* MainWndProc asks for a log at once, and VxlView exits without one.      *)
Init ==
  /\ log \in InitialLogs
  /\ ended = "no"
  /\ ui = "open"
  /\ enabled = FALSE
  /\ opening = None
  /\ file = None
  /\ view = <<>>
  /\ filter = ResetFilter
  /\ lookup = <<>>
  /\ items = 0
  /\ exp = [e \in Exporters |-> IdleExport]

(* The process ends; nothing else of it matters any more.                  *)
End(cause) ==
  /\ ended' = cause
  /\ UNCHANGED <<log, uiVars, viewVars, exp>>

-----------------------------------------------------------------------------
(* Filters                                                                 *)

(* A wildcard search of the whole text keeps the result of the second of   *)
(* its two searches only, the other searches that of either.               *)
TextMatches(e, f) ==
  LET found == \/ e.header \in f.hits /\ ~(f.wild /\ f.whole)
               \/ e.body \in f.hits /\ f.whole
  IN  (f.empty \/ found) # f.inverted

(* The text is looked at last.                                             *)
LooksAtText(e, f) == e.sev \in f.sevs /\ e.comp \in f.comps /\ ~f.empty

(* StringSearch of the body of an entry that has none.                     *)
SearchesNull(e, f) ==
  LooksAtText(e, f) /\ f.whole /\ ~f.wild /\ e.body = NoText

LogEntryMatchesFilters(e, f) ==
  /\ e.sev \in f.sevs
  /\ e.comp \in f.comps
  /\ TextMatches(e, f)

(* Raw indices of the entries that a filter selects.                       *)
Selected(v, f) ==
  {i \in Rows(Len(v)) :
     v[i + 1] # Unreadable /\ LogEntryMatchesFilters(v[i + 1], f)}

Accurate(v) == Len(v) < Threshold

(* The severity counts are those of the header, which a writer may still   *)
(* increment.                                                              *)
EstimateNumberOfFilteredLogEntries(v, g, f) ==
  IF Accurate(v) THEN Cardinality(Selected(v, f))
  ELSE Cardinality({i \in DOMAIN log[g] : log[g][i].sev \in f.sevs})

(* What can go wrong when the raw indices in S are evaluated.  The exact   *)
(* estimate does not test for NULL.                                        *)
Faults(v, f, S) ==
  LET raw == {v[i + 1] : i \in S}
  IN  {c \in {"NULL entry", "NULL text"} :
         \/ c = "NULL entry" /\ Accurate(v) /\ Unreadable \in raw
         \/ c = "NULL text" /\ \E e \in raw \ {Unreadable} : SearchesNull(e, f)}

(* Mutant: the list keeps its number of rows.                              *)
MutantKeepItems(v, g, f) ==
  LET est == EstimateNumberOfFilteredLogEntries(v, g, f)
  IN  /\ filter' = f
      /\ lookup' = [d \in Rows(est) |-> Unset]
      /\ items' = IF items = 0 THEN est ELSE items

(* SetBackendFilters, with the log v of file g: RebuildFilterCache and     *)
(* ListView_SetItemCount.                                                  *)
SetBackendFilters(v, g, f) ==
  LET est == EstimateNumberOfFilteredLogEntries(v, g, f)
  IN  /\ filter' = f
      /\ lookup' = [d \in Rows(est) |-> Unset]
      /\ items' = est

EstimateFaults(v, f) ==
  IF Accurate(v) THEN Faults(v, f, Rows(Len(v))) ELSE {}

(* A control of the filter window was changed.                             *)
UpdateFilters(f) ==
  /\ Running /\ ui = "idle" /\ enabled /\ file # None
  /\ IF EstimateFaults(view, f) # {}
     THEN \E c \in EstimateFaults(view, f) : End(c)
     ELSE /\ SetBackendFilters(view, file, f)
          /\ UNCHANGED <<log, ended, uiVars, file, view, exp>>

-----------------------------------------------------------------------------
(* Rows of the list                                                        *)

(* Mutant: the scan for a row starts at the entry of the row before it.    *)
MutantScanStart(d, previous) == IF d = 0 \/ previous = Unset THEN 0 ELSE previous

(* Where the scan for row d starts: after the entry of the row before it,  *)
(* or at 0 again when that row is unset.                                   *)
ScanStart(d, previous) == IF d = 0 THEN 0 ELSE previous + 1

NextSelected(r) ==
  LET later == {i \in Selected(view, filter) : i >= r}
  IN  IF later = {} THEN Unset ELSE Min(later)

(* The lookup table when all rows up to e have been looked for.            *)
Filled(e) ==
  LET table[d \in DOMAIN lookup] ==
        IF d > e \/ lookup[d] # Unset
        THEN lookup[d]
        ELSE NextSelected(ScanStart(d, table[d - 1]))
  IN  table

(* GetLogEntryRawIndex, when the list draws row e.  A scan that evaluates  *)
(* the last entry and rejects it shrinks the list to the row it was for.   *)
ShowRow(e) ==
  LET table == Filled(e)
      scans == {d \in 0..e : lookup[d] = Unset}
      from(d) == ScanStart(d, table[d - 1])
      to(d) == IF table[d] = Unset THEN N - 1 ELSE table[d]
      faults == Faults(view, filter, UNION {from(d)..to(d) : d \in scans})
      ends == {d \in scans : table[d] = Unset /\ from(d) < N /\ view[N] # Unreadable}
  IN  /\ Running /\ ui \in {"idle", "open", "save"} /\ e < items
      /\ IF faults # {}
         THEN \E c \in faults : End(c)
         ELSE /\ lookup' = table
              /\ items' = IF ends = {} THEN items ELSE Max(ends)
              /\ UNCHANGED <<log, ended, uiVars, file, view, filter, exp>>

-----------------------------------------------------------------------------
(* Opening a log                                                           *)

(* A writer counts and writes an entry.                                    *)
Write(f, e) ==
  /\ Running /\ Len(log[f]) < MaxEntries
  /\ log' = [log EXCEPT ![f] = Append(@, e)]
  /\ UNCHANGED <<ended, uiVars, viewVars, exp>>

(* The dialogs are modal: they disable the main window, and enable it when *)
(* they are closed.                                                        *)
OpenDialog(d) ==
  /\ Running /\ ui = "idle" /\ enabled
  /\ d = "save" => file # None
  /\ ui' = d
  /\ enabled' = FALSE
  /\ UNCHANGED <<log, ended, opening, viewVars, exp>>

(* The dialog was cancelled, or the file is not a log with entries.        *)
CloseDialog ==
  /\ Running /\ ui \in {"open", "save"}
  /\ IF file = None
     THEN End("exit")
     ELSE /\ ui' = "idle"
          /\ enabled' = TRUE
          /\ UNCHANGED <<log, ended, opening, viewVars, exp>>

(* VxlOpenLog builds the index of the entries it finds.                    *)
VxlOpenLog(f) ==
  /\ Running /\ ui = "open" /\ log[f] # <<>>
  /\ ui' = "opening"
  /\ enabled' = TRUE
  /\ opening' = [file |-> f, index |-> Len(log[f])]
  /\ UNCHANGED <<log, ended, viewVars, exp>>

(* NumberOfLogEntries is asked after the index was built: entries that     *)
(* were counted in between are read past the end of the index.             *)
Views ==
  LET more == Len(log[opening.file]) - opening.index
  IN  {SubSeq(log[opening.file], 1, opening.index) \o junk :
         junk \in [1..more -> JunkReads]}

(* The entries of the old log are freed, whoever uses them.  The history   *)
(* `out' is that of an export of one log only.                             *)
Abandon(x) ==
  IF x.step \in {"fetch", "text", "finish"}
  THEN [x EXCEPT !.same = FALSE, !.out = <<>>,
                 !.entry = IF x.step = "text" THEN Freed ELSE @]
  ELSE x

(* PopulateSourceComponents fills and checks the list of components, which *)
(* sets the filter that the controls still show, before they are reset.    *)
OpenFaults(v) ==
  EstimateFaults(v, [filter EXCEPT !.comps = Components])
    \cup EstimateFaults(v, ResetFilter)

(* The rest of OpenLogFile: the new log takes the place of the old one,    *)
(* and the filter controls are reset.                                      *)
OpenLogFile ==
  /\ Running /\ ui = "opening"
  /\ \/ \E v \in Views :
          IF OpenFaults(v) # {}
          THEN \E c \in OpenFaults(v) : End(c)
          ELSE /\ file' = opening.file
               /\ view' = v
               /\ SetBackendFilters(v, opening.file, ResetFilter)
               /\ exp' = [e \in Exporters |-> Abandon(exp[e])]
               /\ ui' = "idle"
               /\ opening' = None
               /\ UNCHANGED <<log, ended, enabled>>
     \/ \* an export thread runs while the state is zeroed
        /\ \E e \in Exporters : exp[e].step \in {"fetch", "text"}
        /\ End("NULL cache")

-----------------------------------------------------------------------------
(* Exporting                                                               *)

Becomes(e, x) ==
  /\ exp' = [exp EXCEPT ![e] = x]
  /\ UNCHANGED <<log, ended, viewVars>>

(* A file name was chosen: ExportLog starts a thread.                      *)
StartExport(e) ==
  /\ Running /\ ui = "save" /\ exp[e].step = "idle"
  /\ ui' = "idle"
  /\ enabled' = TRUE
  /\ Becomes(e, [IdleExport EXCEPT !.step = "start"])
  /\ UNCHANGED opening

(* The thread disables the main window.                                    *)
ExportDisable(e) ==
  /\ Running /\ exp[e].step = "start"
  /\ enabled' = FALSE
  /\ Becomes(e, [exp[e] EXCEPT !.step = "query"])
  /\ UNCHANGED <<ui, opening>>

(* Mutant: the number of entries is taken for the last index less one.     *)
MutantExportQuery(e) ==
  /\ Running /\ exp[e].step = "query"
  /\ \/ Becomes(e, [exp[e] EXCEPT !.step = "fetch", !.max = Len(log[file]) - 2])
     \/ Becomes(e, [exp[e] EXCEPT !.step = "failed"])
  /\ UNCHANGED uiVars

(* The thread asks for the number of entries, of the header again, and     *)
(* creates the text file; either may fail.                                 *)
ExportQuery(e) ==
  /\ Running /\ exp[e].step = "query"
  /\ \/ Becomes(e, [exp[e] EXCEPT !.step = "fetch", !.max = Len(log[file]) - 1])
     \/ Becomes(e, [exp[e] EXCEPT !.step = "failed"])
  /\ UNCHANGED uiVars

(* GetLogEntryRaw.  The cache has N entries, whatever the header says now. *)
ExportFetch(e) ==
  LET raw == IF exp[e].pos < N THEN {view[exp[e].pos + 1]} ELSE JunkReads
  IN  /\ Running /\ exp[e].step = "fetch"
      /\ \/ /\ \E x \in raw \ {Unreadable} :
                 Becomes(e, [exp[e] EXCEPT !.step = "text", !.entry = x,
                                           !.pos = @ + 1])
            /\ UNCHANGED uiVars
         \/ Unreadable \in raw /\ End("NULL entry")
         \/ exp[e].pos >= N /\ End("past cache")

(* What the text file gets for the entry of x.  The statuses of            *)
(* ConvertCacheEntryToText and NtWriteFile are for assertions only: an     *)
(* entry whose text was cut, or that could not be converted or written, is *)
(* missing as a whole or in part, and the loop goes on.                    *)
Outputs(x) ==
  {x.entry} \cup IF Cardinality({i \in DOMAIN x.out : x.out[i] = Lost}) < MaxLost
                 THEN {Lost} ELSE {}

(* ConvertCacheEntryToText and NtWriteFile.                                *)
ExportWrite(e) ==
  /\ Running /\ exp[e].step = "text"
  /\ \/ /\ \E text \in Outputs(exp[e]) :
             Becomes(e, [exp[e] EXCEPT
               !.step = IF exp[e].pos <= exp[e].max THEN "fetch" ELSE "finish",
               !.entry = None,
               !.out = IF exp[e].same THEN Append(@, text) ELSE @])
        /\ UNCHANGED uiVars
     \/ exp[e].entry = Freed /\ End("freed entry")

(* Mutant: an export that failed returns at once.                          *)
MutantExportFinish(e) ==
  /\ Running /\ exp[e].step \in {"finish", "failed"}
  /\ enabled' = (exp[e].step = "finish" \/ enabled)
  /\ Becomes(e, IdleExport)
  /\ UNCHANGED <<ui, opening>>

(* The thread enables the main window and ends.                            *)
ExportFinish(e) ==
  /\ Running /\ exp[e].step \in {"finish", "failed"}
  /\ enabled' = TRUE
  /\ Becomes(e, IdleExport)
  /\ UNCHANGED <<ui, opening>>

ExportSteps(e) ==
  \/ ExportDisable(e)
  \/ ExportQuery(e)
  \/ ExportFetch(e)
  \/ ExportWrite(e)
  \/ ExportFinish(e)

-----------------------------------------------------------------------------
(* WM_CLOSE: the log is closed and the process exits.                      *)
CloseWindow == Running /\ ui = "idle" /\ enabled /\ End("exit")

Next ==
  \/ \E f \in Files, e \in Entries : Write(f, e)
  \/ \E f \in Filters : UpdateFilters(f)
  \/ \E d \in Rows(items) : ShowRow(d)
  \/ \E d \in {"open", "save"} : OpenDialog(d)
  \/ CloseDialog
  \/ \E f \in Files : VxlOpenLog(f)
  \/ OpenLogFile
  \/ \E e \in Exporters : StartExport(e) \/ ExportSteps(e)
  \/ CloseWindow

(* Export threads are scheduled, and so is the window thread when it is in *)
(* the middle of a call; nobody has to use the window.                     *)
Fairness == WF_vars(OpenLogFile) /\ \A e \in Exporters : WF_vars(ExportSteps(e))

Spec == Init /\ [][Next]_vars /\ Fairness

-----------------------------------------------------------------------------
(* Properties                                                              *)

(* The entry that the list shows in row d is one the filter selects, and   *)
(* below the threshold it is the d-th of them: every selected entry has a  *)
(* row, none has two, and the order is that of the log, in whichever order *)
(* rows are drawn and filters are changed (backend.c:371-424).             *)
RowsAreSelected ==
  \A d \in DOMAIN lookup :
    lookup[d] # Unset =>
      LET selected == Selected(view, filter)
      IN  /\ lookup[d] \in selected
          /\ Accurate(view) =>
               Cardinality({i \in selected : i < lookup[d]}) = d

(* Entries of the log itself.  What GetLogEntryRaw returns past the end of *)
(* the index may be any other one.                                         *)
Genuine(v, g) == {i \in Rows(Len(v)) : i < Len(log[g]) /\ v[i + 1] = log[g][i + 1]}
SelectedOfLog(v, g, f) == Selected(v, f) \cap Genuine(v, g)

(* There is a row for every entry of the log that the filter selects: the  *)
(* estimate counts them all, and what is left of the list when its end was *)
(* found still has them; below the threshold both are exact                *)
(* (backend.c:371-424, backendp.c:338-380).                                *)
EveryEntryHasARow ==
  /\ items <= Cardinality(DOMAIN lookup)
  /\ file # None => Cardinality(SelectedOfLog(view, file, filter)) <= items
  /\ Accurate(view) => items = Cardinality(Selected(view, filter))

(* An open log has entries, and an export never asks for more of them than *)
(* it counted (backendp.c:48: "we refuse to open log files with no         *)
(* entries").  One that comes to its end, and whose log was not replaced   *)
(* meanwhile, has gone through every entry of the log once and in order,   *)
(* before whatever else it may have written, and each of them is in the    *)
(* text file as it is in the log, except those whose own conversion or     *)
(* write failed (backendp.c:88-120).                                       *)
ExportIsComplete ==
  /\ file # None => N > 0
  /\ \A e \in Exporters :
       /\ exp[e].step = "fetch" => exp[e].pos <= exp[e].max
       /\ exp[e].step = "finish" /\ exp[e].same =>
            /\ Len(exp[e].out) >= N
            /\ \A i \in 1..N : exp[e].out[i] \in {view[i], Lost}

(* A main window that an export has disabled takes input again, also when  *)
(* the export fails or another log is opened meanwhile.                    *)
WindowComesBack ==
  Running /\ ui = "idle" /\ ~enabled ~> ~Running \/ enabled \/ ui # "idle"
=============================================================================
