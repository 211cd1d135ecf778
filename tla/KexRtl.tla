------------------------------- MODULE KexRtl -------------------------------
(***************************************************************************)
(* String routines of KexDll (src/KexDll/kexrtl.c) and of                  *)
(* src/00-Common Headers/KexStrSafe.h, as functions on a memory: a         *)
(* sequence of characters in which a UNICODE_STRING is a position and a    *)
(* length.  The routines compare before they test for the end, so what     *)
(* they read beyond a string is part of what they do.                      *)
(***************************************************************************)
EXTENDS Integers, Sequences

CONSTANTS NUL       \* the character with the code 0, and what is read
                    \* outside of the memory

None == 0           \* a NULL pointer; the first character is at 1

Cell(mem, i) == IF i \in DOMAIN mem THEN mem[i] ELSE NUL

(* ToUpper: two letters of each case are enough to tell case apart.        *)
ToUpper(c) == CASE c = "a" -> "A" [] c = "b" -> "B" [] OTHER -> c
Case(c, insensitive) == IF insensitive THEN ToUpper(c) ELSE c
Fold(seq, insensitive) == [i \in DOMAIN seq |-> Case(seq[i], insensitive)]
Upper(seq) == Fold(seq, TRUE)

Sub(mem, s) == [i \in 1 .. s.len |-> Cell(mem, s.pos + i - 1)]
Str(pos, n) == [pos |-> pos, len |-> n]
EndOf(s) == s.pos + s.len

(* How many characters from h and n on are equal, up to the given limit.   *)
EqualFrom(mem, h, n, limit, insensitive) ==
    LET Same(k) == Case(Cell(mem, h + k), insensitive)
                     = Case(Cell(mem, n + k), insensitive)
    IN CHOOSE k \in 0 .. limit : (\A j \in 0 .. (k - 1) : Same(j))
                                 /\ (k = limit \/ ~Same(k))

-----------------------------------------------------------------------------
(* KexRtlFindUnicodeSubstring                                              *)

(* The first position from h on that holds the first character of the      *)
(* needle; h itself is accepted even where the needle no longer fits.      *)
FirstFrom(mem, h, last, first, insensitive) ==
    LET found == {i \in {h} \cup ((h + 1) .. last) :
                    Case(Cell(mem, i), insensitive) = first}
    IN IF found = {} THEN None ELSE CHOOSE i \in found : \A j \in found : i <= j

(* Where the search goes on when only k characters behind s are equal: not *)
(* behind s, but where the mismatch was, or behind it when case matters.   *)
Restart(s, k, room, insensitive) ==
    IF insensitive \/ k > room THEN s + 1 + k ELSE s + 2 + k

(* Mutant: the last character is never compared.                           *)
MutantTooFew(needle) == IF needle.len <= 2 THEN 1 ELSE needle.len - 2

(* The rest of the needle is compared before its length is looked at, so a *)
(* needle of one character must be followed by the same character in both  *)
(* strings.                                                                *)
Needed(needle) == IF needle.len = 1 THEN 1 ELSE needle.len - 1

FindUnicodeSubstring(mem, haystack, needle, insensitive) ==
    LET end == EndOf(haystack)
        first == Case(Cell(mem, needle.pos), insensitive)
        need == Needed(needle)
        Find[h \in haystack.pos .. (end + 2)] ==
            LET s == FirstFrom(mem, h, end - needle.len, first, insensitive)
                room == end - (s + 1)
                k == EqualFrom(mem, s + 1, needle.pos + 1,
                               IF need <= room THEN need ELSE room + 1, insensitive)
            IN CASE h >= end \/ s = None -> None
                 [] h < end /\ s # None /\ k = need /\ k <= room -> s
                 [] OTHER -> Find[Restart(s, k, room, insensitive)]
    IN IF needle.len > haystack.len \/ needle.len = 0 THEN None
       ELSE Find[haystack.pos]

-----------------------------------------------------------------------------
(* KexRtlAdvanceUnicodeString, KexRtlRetreatUnicodeString                  *)
Advance(s, n) == Str(s.pos + n, s.len - n)
Retreat(s, n) == Str(s.pos - n, s.len + n)

(* KexRtlUnicodeStringEndsWith                                             *)
EndsWith(mem, s, tail, insensitive) ==
    LET end == Str(EndOf(s) - tail.len, tail.len)
    IN /\ end.pos >= s.pos
       /\ Fold(Sub(mem, end), insensitive) = Fold(Sub(mem, tail), insensitive)

(* RtlFindCharInUnicodeString from the end: how many characters are before *)
(* the last one of a set.                                                  *)
LastOf(mem, s, set) ==
    LET found == {i \in 0 .. (s.len - 1) : Cell(mem, s.pos + i) \in set}
    IN IF found = {} THEN -1 ELSE CHOOSE i \in found : \A j \in found : j <= i

(* RtlGetLengthWithoutLastFullDosOrNtPathElement, of a full path.          *)
LengthWithoutLastElement(mem, s) == LastOf(mem, s, {"\\"}) + 1

(* KexRtlPathFindFileName                                                  *)
PathFindFileName(mem, path) == Advance(path, LengthWithoutLastElement(mem, path))

(* KexRtlPathRemoveExtension                                               *)
PathRemoveExtension(mem, path) ==
    LET n == LastOf(mem, path, {".", "\\", "/"})
    IN IF n # -1 /\ Cell(mem, path.pos + n) = "." THEN Str(path.pos, n) ELSE path

(* KexRtlPathReplaceIllegalCharacters, in place.                           *)
Illegal(separators) == {"<", ">", ":", "\"", "|", "?", "*"}
                         \cup (IF separators THEN {} ELSE {"/", "\\"})
PathReplaceIllegalCharacters(mem, path, by, separators) ==
    [i \in DOMAIN mem |-> IF /\ i \in path.pos .. (EndOf(path) - 1)
                             /\ mem[i] \in Illegal(separators)
                          THEN by ELSE mem[i]]

(* KexRtlShiftUnicodeString: a string of n characters at its front, in a   *)
(* buffer of max; what no longer fits is lost.                             *)
ShiftUnicodeString(seq, max, n, fill) ==
    LET kept == IF Len(seq) + n > max THEN max - n ELSE Len(seq)
    IN IF n = 0 \/ n > max THEN seq
       ELSE [i \in 1 .. (kept + n) |-> IF i <= n THEN fill ELSE seq[i - n]]

(* The StringSearch family: both strings end with NUL, and beyond is what  *)
(* follows the haystack, up to the next NUL.  The search looks for the end *)
(* only after it has gone on, so it runs past the end of an empty haystack *)
(* and never ends if the needle is empty too.                              *)
SearchFrom(haystack, needle, insensitive) ==
    LET mem == Append(haystack, NUL) \o Append(needle, NUL)
        n == Len(haystack) + 2
        Search[h \in 1 .. Len(haystack)] ==
            LET s == FirstFrom(mem, h, Len(haystack), Case(mem[n], insensitive),
                               insensitive)
                k == EqualFrom(mem, s, n, Len(needle), insensitive)
            IN CASE s = None -> FALSE
                 [] s # None /\ k = Len(needle) -> TRUE
                 [] OTHER -> s + k <= Len(haystack) /\ Search[s + k]
    IN haystack # <<>> /\ Search[1]

StringSearch(haystack, beyond, needle, insensitive) ==
    CASE needle # <<>> /\ haystack # <<>> -> SearchFrom(haystack, needle, insensitive)
      [] needle # <<>> /\ haystack = <<>> -> SearchFrom(beyond, needle, insensitive)
      [] needle = <<>> /\ haystack # <<>> -> FALSE
      [] OTHER -> "never returns"

(* The StringEqual family: the characters at which the comparison stops    *)
(* are compared with their case, whatever the function.                    *)
StringEqual(s, t, insensitive) ==
    LET mem == Append(s, NUL) \o Append(t, NUL)
        n == Len(s) + 2
        k == EqualFrom(mem, 1, n, IF Len(s) <= Len(t) THEN Len(s) ELSE Len(t), insensitive)
    IN Cell(mem, 1 + k) = Cell(mem, n + k)
=============================================================================
