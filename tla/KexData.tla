------------------------------ MODULE KexData ------------------------------
(***************************************************************************)
(* What KexDll knows about its process (src/KexDll/kexdata.c) and where    *)
(* its log goes (logging.c), with the registry and directory routines of   *)
(* kexrtl.c they use, as functions on what is in the registry and in the   *)
(* file system.                                                            *)
(*                                                                         *)
(* A string of the process data is a buffer that ends with NUL and holds a *)
(* default padded with blanks; the registry is read into that buffer.      *)
(***************************************************************************)
EXTENDS KexRtl

(* A value of a key; its data need not end with NUL.                       *)
Absent == [type |-> "absent", data |-> <<>>]
StringTypes == {"REG_SZ", "REG_EXPAND_SZ"}

-----------------------------------------------------------------------------
(* KexRtlQueryKeyValueData: a call that fails leaves the buffer as it was, *)
(* also one that faults because the build has the string constants in      *)
(* read-only memory.  REG_EXPAND_SZ is not expanded.                       *)
QueryKeyValueData(value, buffer, restrict, writable) ==
    LET status ==
            CASE value = Absent -> "not found"
              [] value # Absent /\ Len(value.data) > Len(buffer) -> "overflow"
              [] value # Absent /\ Len(value.data) <= Len(buffer) /\ value.type \notin restrict ->
                   "type mismatch"
              [] OTHER -> IF writable THEN "success" ELSE "exception"
    IN [status |-> status,
        buffer |-> IF status # "success" THEN buffer
                   ELSE [i \in DOMAIN buffer |->
                           IF i \in DOMAIN value.data THEN value.data[i] ELSE buffer[i]]]

(* KexRtlQueryKeyMultipleValueData counts every value it went through; it  *)
(* stops at the first that fails only if it is told to.                    *)
QueryKeyMultipleValueData(values, buffers, restricts, failFast, writable) ==
    LET entry == [i \in DOMAIN values |->
                    QueryKeyValueData(values[i], buffers[i], restricts[i], writable)]
        bad == {i \in DOMAIN values : failFast /\ entry[i].status # "success"}
        first == IF bad = {} THEN Len(values) + 1
                 ELSE CHOOSE i \in bad : \A j \in bad : i <= j
    IN [status |-> IF bad = {} THEN "success" ELSE "unsuccessful",
        buffers |-> [i \in DOMAIN values |->
                       IF i <= first THEN entry[i].buffer ELSE buffers[i]],
        count |-> first - 1]

(* KexRtlUpdateNullTerminatedUnicodeStringLength.  A value that fills the  *)
(* whole buffer without a NUL would be read on behind it.                  *)
String(buffer) ==
    LET nuls == {i \in DOMAIN buffer : buffer[i] = NUL}
        n == IF nuls = {} THEN Len(buffer)
             ELSE (CHOOSE i \in nuls : \A j \in nuls : i <= j) - 1
    IN SubSeq(buffer, 1, n)

-----------------------------------------------------------------------------
(* KexDataInitialize                                                       *)

(* The values of HKLM\Software\VXsoft\VxKex.                               *)
GlobalConfig(data, key, writable) ==
    LET q == QueryKeyMultipleValueData(<<key.kexDir, key.logDir>>, <<data.kexDir, data.logDir>>,
                                       <<StringTypes, StringTypes>>, FALSE, writable)
        v == QueryKeyValueData(key.version, data.version, {"REG_DWORD"}, TRUE)
    IN IF ~key.exists THEN data
       ELSE [data EXCEPT !.version = v.buffer, !.kexDir = q.buffers[1], !.logDir = q.buffers[2]]

(* The values of HKCU\Software\VXsoft\VxKex, which override them.          *)
LocalConfig(data, key, writable) ==
    IF ~key.opened \/ ~key.exists THEN data
    ELSE [data EXCEPT !.logDir = QueryKeyMultipleValueData(
            <<key.logDir>>, <<data.logDir>>, <<StringTypes>>, FALSE, writable).buffers[1]]

(* The KEX_ values of the image; each is read for itself.                  *)
IfeoParameters(data, key) ==
    IF ~key.exists THEN data
    ELSE [data EXCEPT !.ifeo = [p \in DOMAIN data.ifeo |->
            IF p \in DOMAIN key.options THEN key.options[p] ELSE data.ifeo[p]]]

(* Mutant: the user's configuration is read first.                         *)
MutantOverridden(data, env) ==
    GlobalConfig(LocalConfig(data, env.user, env.writable), env.machine, env.writable)

Configuration(data, env) ==
    LocalConfig(GlobalConfig(data, env.machine, env.writable), env.user, env.writable)

(* The first call of a process; a later one returns what there is.         *)
DataInitialize(data, env) ==
    IF data.initialized THEN data
    ELSE LET basic == [data EXCEPT
                         !.initialized = TRUE,
                         !.propagated = env.magic,
                         !.winDir = env.systemRoot,
                         !.imageBaseName = PathFindFileName(env.memory, env.imagePath)]
         IN Configuration(IfeoParameters(basic, env.ifeo), env)

-----------------------------------------------------------------------------
(* KexOpenVxlLogForCurrentApplication                                      *)

(* KexRtlCreateDirectoryRecursive: a directory that cannot be opened or    *)
(* created is tried once more after the one above it was made.  Paths are  *)
(* sequences of elements; the result tells which directories there are.    *)
CreateDirectoryRecursive(path, dirs, denied) ==
    LET Up(k) == SubSeq(path, 1, k)
        Try(k, there) ==
            IF Up(k) \in there THEN [ok |-> TRUE, dirs |-> there]
            ELSE IF k > 1 /\ Up(k - 1) \in there /\ Up(k) \notin denied
                 THEN [ok |-> TRUE, dirs |-> there \cup {Up(k)}]
            ELSE [ok |-> FALSE, dirs |-> there]
        Create[k \in 0 .. Len(path)] ==
            IF k = 0 THEN [ok |-> FALSE, dirs |-> dirs]
            ELSE LET first == Try(k, dirs)
                 IN IF first.ok THEN first
                    ELSE IF ~Create[k - 1].ok THEN Create[k - 1]
                    ELSE Try(k, Create[k - 1].dirs)
    IN Create[Len(path)]

Digits(n) ==
    LET figure == <<"0", "1", "2", "3", "4", "5", "6", "7", "8", "9">>
        Of[m \in 0 .. n] == IF m < 10 THEN <<figure[m + 1]>>
                            ELSE Of[m \div 10] \o <<figure[(m % 10) + 1]>>
    IN Of[n]

(* The buffer has 260 characters, but is said to have 260 bytes.  A string *)
(* that does not fit is not appended.                                      *)
BufferCch == 130
AppendTo(s, t) == IF Len(s) + Len(t) > BufferCch THEN s ELSE s \o t

(* Mutant: the time has the digits it needs.                               *)
MutantUnpadded(digits, room) == digits

Padded(digits, room) == ShiftUnicodeString(digits, room, 20 - Len(digits), "0")

(* The time is written with a NUL behind it.                               *)
LogFileName(base, time) ==
    LET whole == AppendTo(<<>>, base)
        stem == Sub(whole, PathRemoveExtension(whole, Str(1, Len(whole))))
        name == AppendTo(stem, <<"-">>)
        room == BufferCch - Len(name)
        digits == IF Len(Digits(time)) < room THEN Digits(time) ELSE <<>>
        file == AppendTo(name \o Padded(digits, room), <<".", "v", "x", "l">>)
    IN PathReplaceIllegalCharacters(file, Str(1, Len(file)), "_", FALSE)

-----------------------------------------------------------------------------
(* What is to come of it.                                                  *)

Usable(value, types, buffer) ==
    value # Absent /\ value.type \in types /\ Len(value.data) <= Len(buffer)

(* A value that ends with NUL is all of the text.  One that does not is    *)
(* only its beginning: what was in the buffer, the default or a value that *)
(* was read before, goes on behind it.                                     *)
EndsWithNul(value) == \E i \in DOMAIN value.data : value.data[i] = NUL
TextIs(buffer, value) ==
    IF EndsWithNul(value) THEN String(buffer) = String(value.data)
    ELSE SubSeq(String(buffer), 1, Len(value.data)) = value.data

(* The directory of the logs is the user's, else the machine's, else the   *)
(* default: as a whole if the value ends with NUL, or else at its          *)
(* beginning.  Each value that cannot be used, alone, leaves the one below *)
(* in place; the name of the program is its path behind the last           *)
(* backslash; a second call changes nothing (kexdata.c 80-304, kexrtl.c    *)
(* 197-381).                                                               *)
HasPrecedence(data, env, later) ==
    LET d == DataInitialize(data, env)
        name == d.imageBaseName
        machine == env.machine
        user == env.user
        MachineHas(value, buffer) == env.writable /\ machine.exists /\ Usable(value, StringTypes, buffer)
        userHas == /\ env.writable /\ user.opened /\ user.exists
                   /\ Usable(user.logDir, StringTypes, data.logDir)
    IN /\ IF userHas THEN TextIs(d.logDir, user.logDir)
          ELSE IF MachineHas(machine.logDir, data.logDir) THEN TextIs(d.logDir, machine.logDir)
          ELSE d.logDir = data.logDir
       /\ IF MachineHas(machine.kexDir, data.kexDir) THEN TextIs(d.kexDir, machine.kexDir)
          ELSE d.kexDir = data.kexDir
       /\ d.version = IF machine.exists /\ Usable(machine.version, {"REG_DWORD"}, data.version)
                      THEN machine.version.data ELSE data.version
       /\ d.ifeo = [p \in DOMAIN data.ifeo |->
                      IF env.ifeo.exists /\ p \in DOMAIN env.ifeo.options
                      THEN env.ifeo.options[p] ELSE data.ifeo[p]]
       /\ EndOf(name) = EndOf(env.imagePath) /\ name.pos >= env.imagePath.pos
       /\ \A i \in DOMAIN Sub(env.memory, name) : Sub(env.memory, name)[i] # "\\"
       /\ name.pos > env.imagePath.pos => Cell(env.memory, name.pos - 1) = "\\"
       /\ DataInitialize(d, later) = d

(* A directory is made with all that is missing above it, or is not there  *)
(* at the end because one of them cannot be made (kexrtl.c 632-718).       *)
IsTree(dirs) == \A p \in dirs : Len(p) > 1 => SubSeq(p, 1, Len(p) - 1) \in dirs
DirectoryIsMade(path, dirs, denied) ==
    LET r == CreateDirectoryRecursive(path, dirs, denied)
        above == {SubSeq(path, 1, n) : n \in 1 .. Len(path)}
    IN /\ r.ok <=> path \in r.dirs
       /\ r.ok <=> SubSeq(path, 1, 1) \in dirs /\ above \cap denied \subseteq dirs
       /\ dirs \subseteq r.dirs /\ r.dirs \subseteq dirs \cup above
=============================================================================
