------------------------------ MODULE MCKexDll ------------------------------
(***************************************************************************)
(* KexDll for TLC, and the functions of kexdata.c, logging.c and kexrtl.c  *)
(* compared with reference definitions.                                    *)
(***************************************************************************)
EXTENDS KexDll, TLC

CONSTANT NUL
Data == INSTANCE KexData

(* Functions of the loader; b and c collide, bc is not in the table.       *)
FnA == <<"a", "a", "a">>
FnB == <<"b", "a", "b">>
FnC == <<"c", "a", "c">>
FnBC == <<"b", "c", "b">>
Cut(s) == {SubSeq(s, i, Len(s)) : i \in 1 .. Len(s) + 1}
MCKeys == Cut(FnA) \cup Cut(FnB) \cup Cut(FnC) \cup Cut(FnBC)
MCUpCase == [k \in MCKeys |-> k]
MCHash == [k \in MCKeys |-> IF k = FnA THEN 1 ELSE 2]
(* As in the code, one function is in the table twice.                     *)
MCTable == << [key |-> FnA, value |-> "a.c"], [key |-> FnB, value |-> "b.c"],
              [key |-> FnC, value |-> "c.c"], [key |-> FnB, value |-> "b.c"] >>

Msg(component, lead, function, severity, fits) ==
    [component |-> component, lead |-> lead, function |-> function,
     severity |-> severity, fits |-> fits]
MCMessages == {Msg("Loader", 25, FnC, ErrorSeverity, TRUE), Msg("Loader", 25, FnBC, ErrorSeverity, TRUE),
               Msg("Loader", 25, FnB, <<"R", "E">>, TRUE), Msg("Loader", 26, FnB, ErrorSeverity, TRUE),
               Msg("Loader", 23, FnB, ErrorSeverity, TRUE), Msg("Loader", 23, FnA, <<"I", "N">>, TRUE),
               Msg("General", 25, FnB, ErrorSeverity, TRUE), Msg("Loader", 25, FnB, ErrorSeverity, FALSE)}

-----------------------------------------------------------------------------
(* Where the state machine starts, the functions are checked once.         *)
Once == pc = "data" /\ winVer = 0 /\ strong = {} /\ "loaderSnaps" \in globalFlag

Default(c) == <<c, " ", " ", NUL>>
StringValues == {Data!Absent} \cup
    [type : {"REG_SZ", "REG_EXPAND_SZ", "other"},
     data : {<<"x", NUL>>, <<"y", "z", "y", NUL>>, <<NUL>>, <<"t", "o", "o", "l", NUL>>, <<"u", "v">>}]
Machine == [exists : BOOLEAN, version : {Data!Absent, [type |-> "REG_DWORD", data |-> <<7>>],
                                         [type |-> "REG_SZ", data |-> <<7>>]},
            kexDir : {Data!Absent, [type |-> "REG_SZ", data |-> <<"k", NUL>>],
                      [type |-> "REG_SZ", data |-> <<"k">>]},
            logDir : StringValues]
User == [opened : BOOLEAN, exists : BOOLEAN, logDir : StringValues]
NewData == [initialized |-> FALSE, propagated |-> FALSE, version |-> <<1>>,
            ifeo |-> [p \in {"WinVerSpoof", "StrongVersionSpoof"} |-> 0],
            winDir |-> "", imageBaseName |-> [pos |-> 0, len |-> 0],
            kexDir |-> Default("K"), logDir |-> Default("L")]
ImagePath == <<"d", "\\", "p", "." , "e">>
Env(machine, user, options, writable) ==
    [magic |-> TRUE, systemRoot |-> "windows", memory |-> ImagePath,
     imagePath |-> [pos |-> 1, len |-> 5], machine |-> machine, user |-> user,
     ifeo |-> [exists |-> TRUE, options |-> options], writable |-> writable]

(* The directories come from the user, else from the machine, else they    *)
(* are the defaults: the whole text of a value that ends with NUL, and at  *)
(* least the beginning is that of a value that does not.  A value that     *)
(* cannot be used, alone, leaves the one below; a second call changes      *)
(* nothing.  Behind a value without NUL the string goes on with what its   *)
(* buffer held, so that the user's overrides the machine's (kexdata.c 134) *)
(* only in part (kexdata.c 80-304, kexrtl.c 197-381, of which 299).        *)
ConfigurationHasPrecedence ==
    Once =>
      \A machine \in Machine, user \in User, writable \in BOOLEAN :
        Data!HasPrecedence(NewData, Env(machine, user, "WinVerSpoof" :> 4, writable),
                           Env([machine EXCEPT !.exists = FALSE],
                               [user EXCEPT !.exists = FALSE], <<>>, TRUE))

Figures == <<"0", "1", "2", "3", "4", "5", "6", "7", "8", "9">>
IsFigure(c) == \E i \in DOMAIN Figures : Figures[i] = c
Figure(c) == CHOOSE i \in DOMAIN Figures : Figures[i] = c
Before(s, t) == \E i \in DOMAIN s : /\ IsFigure(s[i]) /\ IsFigure(t[i]) /\ Figure(s[i]) < Figure(t[i])
                                    /\ SubSeq(s, 1, i - 1) = SubSeq(t, 1, i - 1)
Bases == {<<"p", ".", "e">>, <<"p">>, <<".", "e">>, <<"p", ":", "q", ".", "r", ".", "e">>,
          [i \in 1 .. 105 |-> "n"]}
LongBases == {[i \in 1 .. n |-> "n"] : n \in {106, 107, 110, 125, 130, 131}}
Times == {0, 9, 10, 99, 123, 1000}
Dirs == {SubSeq(<<"a", "b", "c", "d">>, 1, n) : n \in 1 .. 4}

(* The names of the logs of a program whose own name has at most 105       *)
(* characters sort by the time at which they were begun and end with .vxl, *)
(* and the file system takes all names, also those of longer ones, which   *)
(* lack figures or the extension, since half of the buffer is not used     *)
(* (logging.c 57, against 62).  The directory of the logs is made with all *)
(* that is missing above it, or is not there at the end because one of     *)
(* them cannot be made (logging.c 53-87, kexrtl.c 103-156, 521-555,        *)
(* 632-718).                                                               *)
LogsHaveTheirPlace ==
    Once =>
      /\ \A base \in Bases, t \in Times, u \in Times :
           LET s == Data!LogFileName(base, t)
           IN /\ t < u => Before(s, Data!LogFileName(base, u))
              /\ SubSeq(s, Len(s) - 3, Len(s)) = <<".", "v", "x", "l">>
      /\ \A base \in Bases \cup LongBases, t \in Times :
           LET s == Data!LogFileName(base, t)
           IN \A i \in DOMAIN s : s[i] \notin {"/", "\\", "<", ">", ":", "|", "?", "*"}
      /\ \A there \in SUBSET Dirs, denied \in SUBSET Dirs, path \in Dirs :
           Data!IsTree(there) => Data!DirectoryIsMade(path, there, denied)
=============================================================================
