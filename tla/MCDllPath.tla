----------------------------- MODULE MCDllPath -----------------------------
(***************************************************************************)
(* DllPath for TLC: all paths of some entries, of which two differ in case *)
(* only, one is empty, one is the beginning of another, and one is so long *)
(* that it makes room for the directory of VxKex.  The paths are also the  *)
(* strings on which the string routines are checked.                       *)
(***************************************************************************)
EXTENDS DllPath, TLC

CONSTANTS MaxEntries, MaxLetters

MCNames == {<<"a", "b">>, <<"A", "b">>, <<"a", "b", "a">>, <<>>, <<"b", "b", "a", "a", "b">>}
Join(es) == FoldLeft(LAMBDA s, e : s \o <<";">> \o e, es[1], Tail(es))
MCPaths == {Join(es) : es \in UNION {[1 .. n -> MCNames] : n \in 1 .. MaxEntries}}
MCPrepend == <<"b", "a", "b", "a", "b", ";">>

(* Reference definitions for the string routines.                          *)
Letters == UNION {[1 .. n -> {"a", "A", "b"}] : n \in 0 .. MaxLetters}
Occurs(s, t, insensitive) ==
    \E i \in 0 .. (Len(s) - Len(t)) :
        Fold(SubSeq(s, i + 1, i + Len(t)), insensitive) = Fold(t, insensitive)
Ends(s, t, insensitive) ==
    Len(t) <= Len(s)
    /\ Fold(SubSeq(s, Len(s) - Len(t) + 1, Len(s)), insensitive) = Fold(t, insensitive)

(* What KexRtlFindUnicodeSubstring and StringSearch report is there, and   *)
(* inside of the string (kexrtl.c 423-501, KexStrSafe.h 371-499), though   *)
(* both read behind it.                                                    *)
FoundIsThere ==
    pc = "begin" =>
      \A t \in Letters, insensitive \in BOOLEAN :
        LET mem == path0 \o <<NUL>> \o t
            s == Str(1, Len(path0))
            n == Str(Len(path0) + 2, Len(t))
            found == FindUnicodeSubstring(mem, s, n, insensitive)
        IN /\ found # None =>
                /\ EndOf(Str(found, n.len)) <= EndOf(s)
                /\ Fold(Sub(mem, Str(found, n.len)), insensitive) = Fold(t, insensitive)
           /\ path0 # <<>> /\ StringSearch(path0, <<>>, t, insensitive)
                => Occurs(path0, t, insensitive)
           /\ EndsWith(mem, s, n, insensitive) <=> Ends(path0, t, insensitive)
=============================================================================
