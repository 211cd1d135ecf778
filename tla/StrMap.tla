------------------------------- MODULE StrMap -------------------------------
(***************************************************************************)
(* The string mapper of KexDll (src/KexDll/strmap.c): a hash table of      *)
(* key-value pairs over RTL_DYNAMIC_HASH_TABLE.  A mapper is a record with *)
(* the flag of case insensitive keys and the entries of the table, of      *)
(* which the newest with a given signature is met first (external).  The   *)
(* mapper does not look for an entry of the same key when it inserts one.  *)
(***************************************************************************)
EXTENDS Naturals, Sequences, SequencesExt

CONSTANTS
    UpCase,     \* every key in upper case: a function on the keys
    Hash,       \* RtlHashUnicodeString: a function on the keys, collisions
                \* included
    NotFound    \* STATUS_STRING_MAPPER_ENTRY_NOT_FOUND

ASSUME StrMapAssumption ==
    /\ DOMAIN Hash = DOMAIN UpCase
    /\ \A key \in DOMAIN UpCase :
         /\ UpCase[key] \in DOMAIN UpCase
         /\ UpCase[UpCase[key]] = UpCase[key]

None == 0

CreateStringMapper(insensitive) == [insensitive |-> insensitive, entries |-> <<>>]

Form(m, key) == IF m.insensitive THEN UpCase[key] ELSE key
Signature(m, key) == Hash[Form(m, key)]

InsertEntry(m, key, value) ==
    LET entry == [sig |-> Signature(m, key), key |-> key, value |-> value]
    IN [m EXCEPT !.entries = <<entry>> \o @]

(* RtlLookupEntryHashTable, RtlGetNextEntryHashTable: the first entry with *)
(* this signature behind entry i.                                          *)
NextWith(m, sig, i) ==
    LET next == {j \in (i + 1) .. Len(m.entries) : m.entries[j].sig = sig}
    IN IF next = {} THEN None ELSE CHOOSE j \in next : \A k \in next : j <= k

(* Mutant: the other entries with the signature are not looked at.         *)
MutantNoCollisions(m, key) == NextWith(m, Signature(m, key), 0)

(* KexRtlpLookupRawEntryStringMapper goes through the entries with the     *)
(* signature of the key until one has the key.                             *)
LookupRawEntry(m, key) ==
    LET sig == Signature(m, key)
        Walk[i \in 0 .. Len(m.entries)] ==
            IF i = None \/ Form(m, m.entries[i].key) = Form(m, key) THEN i
            ELSE Walk[NextWith(m, sig, i)]
    IN Walk[NextWith(m, sig, 0)]

LookupEntry(m, key) ==
    LET i == LookupRawEntry(m, key)
    IN IF i = None THEN NotFound ELSE m.entries[i].value

RemoveEntry(m, key) ==
    LET i == LookupRawEntry(m, key)
    IN IF i = None THEN m ELSE [m EXCEPT !.entries = RemoveAt(@, i)]

(* KexRtlApplyStringMapper leaves a string without an entry as it is.      *)
ApplyStringMapper(m, key) ==
    LET value == LookupEntry(m, key) IN IF value = NotFound THEN key ELSE value

(* The functions for several entries go from the last to the first; one    *)
(* that fails does not stop them.  noMemory: the insertions that fail.     *)
InsertMultipleEntries(m, pairs, noMemory) ==
    LET Insert(i, acc) == IF i \in noMemory THEN acc
                          ELSE InsertEntry(acc, pairs[i].key, pairs[i].value)
    IN FoldRight(Insert, [i \in DOMAIN pairs |-> i], m)

LookupMultipleEntries(m, pairs) ==
    [i \in DOMAIN pairs |->
        LET value == LookupEntry(m, pairs[i].key)
        IN IF value = NotFound THEN pairs[i] ELSE [pairs[i] EXCEPT !.value = value]]

BatchApply(m, keys) == [i \in DOMAIN keys |-> ApplyStringMapper(m, keys[i])]
=============================================================================
