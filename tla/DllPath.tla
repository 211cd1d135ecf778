------------------------------ MODULE DllPath ------------------------------
(***************************************************************************)
(* How KexDll puts its directory in front of the loader's search path      *)
(* (src/KexDll/dllpath.c).  The path is changed in place and must keep its *)
(* length, so room is made by cutting entries out that occur again.        *)
(*                                                                         *)
(* buf is the buffer of Peb->ProcessParameters->DllPath and len its        *)
(* length, both in characters.  Cutting moves the rest of the path to the  *)
(* front, so that old characters remain behind the end of the path; the    *)
(* entries still to be looked at are counted with the length the path had  *)
(* when the search began.                                                  *)
(***************************************************************************)
EXTENDS KexRtl, SequencesExt

CONSTANTS
    Paths,          \* the search paths to begin with
    Prepend,        \* KexDir\Kex32; or KexDir\Kex64;
    AppendFails     \* whether building Prepend may fail

ASSUME DllPathAssumption ==
    /\ \A p \in Paths \cup {Prepend} : p \in Seq(ToSet(p))
    /\ Prepend # <<>> /\ Last(Prepend) = ";"
    /\ AppendFails \in BOOLEAN

Semicolon == ";"

VARIABLES
    path0,      \* the search path before (history)
    buf,        \* the characters of DllPath.Buffer
    len,        \* DllPath.Length
    target,     \* TargetLength
    after,      \* DllPathAfterCurrentEntry
    cur,        \* CurrentPathEntry
    pc          \* where the code is, or what it returned

vars == <<path0, buf, len, target, after, cur, pc>>

Steps == {"begin", "entry", "duplicate", "build"}
Returned == {"success", "not found", "internal error", "append", "exception"}

(* The USHORT lengths are in bytes of two per character.                   *)
Ushort(cch) == cch % 32768
DllPathNow == Str(1, len)
MaximumLength == Len(path0) + 1

Init ==
    /\ path0 \in Paths
    /\ buf = Append(path0, NUL)
    /\ len = Len(path0)
    /\ target = 0
    /\ after = Str(1, Len(path0))
    /\ cur = Str(1, 0)
    /\ pc = "begin"

(* KexpAddKex3264ToDllPath builds the string to prepend and asks for a     *)
(* path that is shorter by its length.                                     *)
Begin ==
    /\ pc = "begin"
    /\ target' = Ushort(len - Len(Prepend))
    /\ pc' = "entry"
    /\ UNCHANGED <<path0, buf, len, after, cur>>

BeginFails ==
    /\ pc = "begin" /\ AppendFails
    /\ pc' = "append"
    /\ UNCHANGED <<path0, buf, len, target, after, cur>>

(* KexpShrinkDllPathLength: the next entry ends at the next semicolon.     *)
Semicolons == {i \in 1 .. after.len : Cell(buf, after.pos + i - 1) = Semicolon}

ShortEnough ==
    /\ pc = "entry" /\ len <= target
    /\ pc' = "build"
    /\ UNCHANGED <<path0, buf, len, target, after, cur>>

NextEntry ==
    /\ pc = "entry" /\ len > target
    /\ \E n \in Semicolons :
         /\ \A i \in Semicolons : n <= i
         /\ cur' = Str(after.pos, n - 1)
         /\ after' = Advance(after, n)
    /\ pc' = "duplicate"
    /\ UNCHANGED <<path0, buf, len, target>>

NoMoreEntries ==
    /\ pc = "entry" /\ len > target
    /\ Semicolons = {}
    /\ pc' = "not found"
    /\ UNCHANGED <<path0, buf, len, target, after, cur>>

(* Mutant: an entry that begins like this one is taken for a duplicate.    *)
MutantPrefix(found) == Cell(buf, found - 1) = Semicolon

(* A duplicate is an entry between two semicolons, or the last one; at the *)
(* first match that is none the search for this entry ends.                *)
Found == FindUnicodeSubstring(buf, after, cur, TRUE)
IsWholeEntry(found) ==
    /\ Cell(buf, found - 1) = Semicolon
    /\ found + cur.len # len + 1 => Cell(buf, found + cur.len) = Semicolon

(* Mutant: a match that is no entry does not end the search.               *)
MutantEndless ==
    /\ pc = "duplicate"
    /\ Found = None
    /\ pc' = "entry"
    /\ UNCHANGED <<path0, buf, len, target, after, cur>>

NoDuplicate ==
    /\ pc = "duplicate"
    /\ LET found == Found IN found = None \/ ~IsWholeEntry(found)
    /\ pc' = "entry"
    /\ UNCHANGED <<path0, buf, len, target, after, cur>>

(* What follows the duplicate, up to the end of the path, is moved onto    *)
(* it, and terminated.                                                     *)
Moved(from, to, n) ==
    [i \in DOMAIN buf |-> CASE i \in to .. (to + n - 1) -> buf[i - to + from]
                            [] i = to + n -> NUL
                            [] OTHER -> buf[i]]

CutDuplicate ==
    /\ pc = "duplicate"
    /\ \E found \in DOMAIN buf \cap {Found} :
         /\ IsWholeEntry(found) /\ found + cur.len <= len + 1
         /\ buf' = Moved(found + cur.len, found, len + 1 - (found + cur.len))
    /\ len' = len - cur.len
    /\ UNCHANGED <<path0, target, after, cur, pc>>

(* When the match lies behind the end of the path, the length of what      *)
(* follows it is negative, almost 64K as a USHORT.  The path has already   *)
(* been shortened when the copy leaves the buffer and faults.              *)
CutBehindTheEnd ==
    /\ pc = "duplicate"
    /\ \E found \in DOMAIN buf \cap {Found} :
         IsWholeEntry(found) /\ found + cur.len > len + 1
    /\ len' = len - cur.len
    /\ pc' = "exception"
    /\ UNCHANGED <<path0, buf, target, after, cur>>

(* The new path is copied over the old one, as far as it fits ...          *)
NewDllPath == Prepend \o Sub(buf, DllPathNow)
Least(a, b) == IF a < b THEN a ELSE b

(* Mutant: the path is not padded.                                         *)
MutantNoPadding ==
    /\ pc = "build"
    /\ LET n == Least(Len(NewDllPath), MaximumLength)
       IN /\ buf' = [i \in DOMAIN buf |-> IF i <= n THEN NewDllPath[i] ELSE buf[i]]
          /\ len' = n
          /\ pc' = "success"
    /\ UNCHANGED <<path0, target, after, cur>>

(* ... and padded with semicolons (KexpPadDllPathToOriginalLength).        *)
Build ==
    /\ pc = "build"
    /\ LET n == Least(Len(NewDllPath), MaximumLength)
           copied == [i \in DOMAIN buf |-> CASE i <= n -> NewDllPath[i]
                                             [] i = n + 1 -> NUL
                                             [] OTHER -> buf[i]]
       IN IF n > Len(path0)
          THEN /\ buf' = copied /\ len' = n
               /\ pc' = "internal error"
          ELSE /\ buf' = [i \in DOMAIN buf |-> IF i \in (n + 1) .. Len(path0)
                                               THEN Semicolon ELSE copied[i]]
               /\ len' = Len(path0)
               /\ pc' = "success"
    /\ UNCHANGED <<path0, target, after, cur>>

Next ==
    \/ Begin \/ BeginFails
    \/ ShortEnough \/ NextEntry \/ NoMoreEntries
    \/ NoDuplicate \/ CutDuplicate \/ CutBehindTheEnd
    \/ Build

Spec == Init /\ [][Next]_vars
FairSpec == Spec /\ WF_vars(Next)

-----------------------------------------------------------------------------
(* Properties                                                              *)

(* The entries of a path that are not empty: each is all there is between  *)
(* two semicolons, or a semicolon and an end of the path.                  *)
IsEntry(p, e) ==
    /\ \A i \in DOMAIN p \cap {e.pos - 1, EndOf(e)} : p[i] = Semicolon
    /\ \A i \in e.pos .. (EndOf(e) - 1) : i \in DOMAIN p /\ p[i] # Semicolon
Entries(p) == {e \in {Str(i, n) : i, n \in DOMAIN p} : IsEntry(p, e)}
Directory(p, e) == Upper(Sub(p, e))
Directories(p) == {Directory(p, e) : e \in Entries(p)}

(* Which directories the loader searches and in which order: the pairs of  *)
(* directories of which the first is found before or as the second is.     *)
SearchOrder(p) ==
    LET entries == Entries(p)
        dirs == {Directory(p, e) : e \in entries}
        FoundAt(d) == {e \in entries : Directory(p, e) = d}
    IN {x \in dirs \X dirs : \E i \in FoundAt(x[1]) : \A j \in FoundAt(x[2]) : i.pos <= j.pos}

Path == Sub(buf, DllPathNow)

(* The directory of VxKex is searched first, then the others in the order  *)
(* they had; until then, and when there is nothing to cut, the search      *)
(* order is the old one (dllpath.c 25-26).                                 *)
SearchOrderIsKept ==
    /\ pc \in Steps \cup {"append", "not found"} => SearchOrder(Path) = SearchOrder(path0)
    /\ pc = "success" => SearchOrder(Path) = SearchOrder(Prepend \o path0)

(* A call that succeeds leaves the path with its old length.  Before that  *)
(* the path only gets shorter, and always ends in a NUL unless the cutting *)
(* faulted; that a new path does not fit, so that DllPath.Length is the    *)
(* whole buffer and nothing ends it, happens only to a path that was       *)
(* shorter than what is prepended.  A call that does not find enough to    *)
(* cut returns with the path as short as it has become, although the path  *)
(* "cannot be extended or contracted" by the comment at dllpath.c 21-23    *)
(* (dllpath.c 107-147, 177-183, 243-265).                                  *)
LengthIsMaintained ==
    /\ pc = "success" => len = Len(path0)
    /\ pc # "internal error" => len <= Len(path0)
    /\ pc \notin {"internal error", "exception"} => buf[len + 1] = NUL
    /\ pc = "internal error" => len = MaximumLength /\ Len(path0) < Len(Prepend)

(* The search for entries to cut ends (dllpath.c 165-238).                 *)
Terminates == <>(pc \in Returned)

(* "We must not disturb the presence or the order of existing search path  *)
(* entries at all" (dllpath.c 25-26).  A path that is shorter than what is *)
(* prepended is left out: the system's directories alone are longer.       *)
EntriesArePresent ==
    Len(path0) >= Len(Prepend) => Directories(path0) \subseteq Directories(Path)
=============================================================================
