----------------------------- MODULE VxlLogSpec -----------------------------
(***************************************************************************)
(* What a VXL log promises to the threads that write to it, without the    *)
(* file format: a thread submits a record; the record is then either added *)
(* to the end of the log, once and exactly as it was submitted, or dropped *)
(* altogether.  Records that are in the log stay there in their order; only*)
(* an opener that asks for a fresh file empties it.                        *)
(*                                                                         *)
(* VxlLog.tla is the file-level specification that implements this one.    *)
(***************************************************************************)
EXTENDS Sequences

CONSTANTS
  Threads,  \* threads that call VxlWriteLogEx
  Records,  \* what a call asks to be recorded: severity and source names
  None      \* no record is pending

VARIABLES
  log,      \* the records of the log, oldest first
  pending   \* pending[t] is the record thread t is trying to write

vars == <<log, pending>>

Init ==
  /\ log = <<>>
  /\ pending = [t \in Threads |-> None]

(* A thread asks for a record to be written.  An exception inside the      *)
(* library makes the thread give up its record for a report of the fault.  *)
Submit(t, r) ==
  /\ pending' = [pending EXCEPT ![t] = r]
  /\ UNCHANGED log

(* The record reaches the end of the log.                                  *)
Commit(t) ==
  /\ pending[t] # None
  /\ log' = Append(log, pending[t])
  /\ pending' = [pending EXCEPT ![t] = None]

(* A failed call, or the end of the process the threads belong to.         *)
Drop(T) ==
  /\ pending' = [t \in Threads |-> IF t \in T THEN None ELSE pending[t]]
  /\ UNCHANGED log

(* The log file is created anew.                                           *)
Erase ==
  /\ log' = <<>>
  /\ UNCHANGED pending

Next ==
  \/ \E t \in Threads : \E r \in Records : Submit(t, r)
  \/ \E t \in Threads : Commit(t)
  \/ \E T \in SUBSET Threads : Drop(T)
  \/ Erase

Spec == Init /\ [][Next]_vars
=============================================================================
