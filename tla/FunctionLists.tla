--------------------------- MODULE FunctionLists ----------------------------
(***************************************************************************)
(* The function list of a File (file.go): GetFunctions decodes             *)
(* LC_FUNCTION_STARTS, GenerateFunctionStarts searches __text for pacibsp  *)
(* prologues, and both publish to one slot that every later call returns.  *)
(*                                                                         *)
(* functionsMu is held for one check or one publication, not for the call: *)
(* calls that found the slot empty decode side by side.                    *)
(***************************************************************************)
EXTENDS Integers, Sequences, FiniteSetsExt

CONSTANTS
    FunctionFiles,  \* what the file may hold: arm64e, base, starts, text, sections
    Callers,
    Given,          \* streams of deltas a caller may pass to GetFunctions
    AddrSpace,      \* 2^64
    None

VARIABLES
    code,       \* the file
    functions,  \* the published list, <<>> when there is none
    call,       \* per caller: the call in progress, or None
    lists       \* per caller: what its last call returned

functionVars == <<code, functions, call, lists>>

ASSUME AddrSpaceAssumption == AddrSpace \in Nat \ {0}

ASSUME StreamsAssumption == Given \subseteq Seq(Nat)

ASSUME FunctionFilesAssumption ==
    \A f \in FunctionFiles :
        /\ f.base \in Nat
        /\ f.sections \in Seq([addr : Nat, size : Nat])
        /\ f.starts # None => f.starts \in Seq(Nat)
        /\ f.text # None => /\ f.text.addr \in Nat /\ f.text.align \in Nat
                            /\ f.text.words \in Seq(STRING)

Fn(start, end) == [start |-> start, end |-> end]

-----------------------------------------------------------------------------
(* Decoding LC_FUNCTION_STARTS.  A stream is the values ReadUleb128 gives  *)
(* until the data ends; it gives 0 for an overlong value too, so that one  *)
(* ends the list as the terminating 0 does.  Addresses are uint64 and      *)
(* every sum of them wraps.                                                *)

(* How many values of a stream count. *)
Values(stream) ==
    LET zeros == {i \in 2 .. Len(stream) : stream[i] = 0}
    IN  IF zeros = {} THEN Len(stream) ELSE Min(zeros) - 1

(* The address that the first i values lead to. *)
StartAfter(stream) ==
    LET at[i \in 0 .. Values(stream)] ==
            IF i = 0 THEN code.base ELSE (at[i - 1] + stream[i]) % AddrSpace
    IN  at

End(s) == (s.addr + s.size) % AddrSpace

SectionsAt(a) ==
    {i \in DOMAIN code.sections : code.sections[i].addr <= a /\ a < End(code.sections[i])}

FindSectionForVMAddr(a) ==
    IF SectionsAt(a) = {} THEN None ELSE code.sections[Min(SectionsAt(a))]

(* The last function runs to the end of its section, if it is in one. *)
lastFunction(start) ==
    LET s == FindSectionForVMAddr(start)
    IN  IF s = None THEN <<>> ELSE <<Fn(start, End(s))>>

decodeStarts(stream) ==
    LET n == Values(stream)
        at == StartAfter(stream)
    IN  [i \in 1 .. n - 1 |-> Fn(at[i], at[i + 1])] \o lastFunction(at[n])

-----------------------------------------------------------------------------
(* Searching __text.  Word = 4 bytes.  Align masks with its second         *)
(* argument less one, and the caller passes the section's exponent.        *)

Word == 4

(* x without the bits of m. *)
AndNot(x, m) ==
    LET clear[p \in (0 .. x) \X (0 .. m)] ==
            IF p[1] = 0 THEN 0
            ELSE 2 * clear[<<p[1] \div 2, p[2] \div 2>>] + (IF p[2] % 2 = 1 THEN 0 ELSE p[1] % 2)
    IN  clear[<<x, m>>]

Align(a, n) == IF n = 0 THEN 0 ELSE AndNot((a + n - 1) % AddrSpace, n - 1)

(* Where the prologues of the first i words are. *)
Prologues ==
    LET found[i \in 0 .. Len(code.text.words)] ==
            IF i = 0 THEN <<>>
            ELSE IF code.text.words[i] # "pacibsp" THEN found[i - 1]
            ELSE Append(found[i - 1], (code.text.addr + (i - 1) * Word) % AddrSpace)
    IN  found[Len(code.text.words)]

generate ==
    LET n == Len(Prologues)
        end == (code.text.addr + Len(code.text.words) * Word) % AddrSpace
    IN  [i \in 1 .. n |-> Fn(Prologues[i], IF i < n THEN Prologues[i + 1]
                                            ELSE Align(end, code.text.align))]

Generates == code.arm64e /\ code.text # None /\ Prologues # <<>>

-----------------------------------------------------------------------------
FunctionsInit ==
    /\ code \in FunctionFiles
    /\ functions = <<>>
    /\ call = [c \in Callers |-> None]
    /\ lists = [c \in Callers |-> <<>>]

Returns(c, list) ==
    /\ call' = [call EXCEPT ![c] = None]
    /\ lists' = [lists EXCEPT ![c] = list]

(* The first check of a call, GetFunctions(given...) when op is "starts". *)
cachedFunctions(c, op, given) ==
    /\ call[c] = None
    /\ IF functions # <<>>
       THEN Returns(c, functions)
       ELSE call' = [call EXCEPT ![c] = [op |-> op, given |-> given, built |-> None]] /\ UNCHANGED lists
    /\ UNCHANGED <<code, functions>>

(* GetFunctions of a file without LC_FUNCTION_STARTS calls                 *)
(* GenerateFunctionStarts, which checks again.                             *)
searchInstead(c) ==
    /\ call[c] # None /\ call[c].op = "starts" /\ call[c].built = None /\ code.starts = None
    /\ IF functions # <<>>
       THEN Returns(c, functions)
       ELSE call' = [call EXCEPT ![c].op = "search"] /\ UNCHANGED lists
    /\ UNCHANGED <<code, functions>>

(* The data a caller passes replaces the file's, which may fail to be      *)
(* read; a stream with no first value gives nil.                           *)
GetFunctions(c) ==
    /\ call[c] # None /\ call[c].op = "starts" /\ call[c].built = None /\ code.starts # None
    /\ LET stream == IF call[c].given # <<>> THEN call[c].given ELSE code.starts
       IN  \/ /\ call[c].given = <<>> \/ stream = <<>>
              /\ Returns(c, <<>>)
           \/ /\ stream # <<>>
              /\ call' = [call EXCEPT ![c].built = decodeStarts(stream)]
              /\ UNCHANGED lists
    /\ UNCHANGED <<code, functions>>

(* The section's data may fail to be read. *)
GenerateFunctionStarts(c) ==
    /\ call[c] # None /\ call[c].op = "search" /\ call[c].built = None
    /\ \/ Returns(c, <<>>)
       \/ /\ Generates
          /\ call' = [call EXCEPT ![c].built = generate]
          /\ UNCHANGED lists
    /\ UNCHANGED <<code, functions>>

(* Mutant: the last list built is the one that stays. *)
publishFunctionsAlways(c) ==
    /\ call[c] # None /\ call[c].built # None
    /\ functions' = call[c].built
    /\ Returns(c, functions')
    /\ UNCHANGED code

(* A list is published when the slot is empty, and an empty one does not   *)
(* fill it.                                                                *)
publishFunctions(c) ==
    /\ call[c] # None /\ call[c].built # None
    /\ functions' = IF functions = <<>> THEN call[c].built ELSE functions
    /\ Returns(c, functions')
    /\ UNCHANGED code

FunctionsNext ==
    \E c \in Callers :
        \/ cachedFunctions(c, "search", <<>>)
        \/ \E given \in Given : cachedFunctions(c, "starts", given)
        \/ searchInstead(c) \/ GetFunctions(c)
        \/ GenerateFunctionStarts(c) \/ publishFunctions(c)

FunctionsSpec == FunctionsInit /\ [][FunctionsNext]_functionVars

-----------------------------------------------------------------------------
(* Lookups in a list. *)

GetFunctionForVMAddr(list, a) ==
    LET found == {i \in DOMAIN list : a >= list[i].start /\ a < list[i].end}
    IN  IF found = {} THEN None ELSE list[Min(found)]

-----------------------------------------------------------------------------
(* Properties. *)

(* No sum of addresses in the file, or of a stream a caller may pass,      *)
(* wraps.                                                                  *)
Fits(stream) ==
    \A i \in 1 .. Values(stream) : StartAfter(stream)[i - 1] + stream[i] < AddrSpace
NoneWraps ==
    /\ \A stream \in Given : Fits(stream)
    /\ code.starts # None => Fits(code.starts)
    /\ code.text # None => code.text.addr + Len(code.text.words) * Word < AddrSpace

(* Every function but the last, whose end the section gives, has a body.   *)
Ascends(list) == \A i \in 1 .. Len(list) - 1 : list[i].start < list[i].end

(* The comment on publishFunctions: "returns the list every caller now     *)
(* sees".  Whatever races, whichever of the two methods built it and       *)
(* wherever its addresses wrap, a list handed out is the published one and *)
(* each function ends where the next one starts.  The functions ascend     *)
(* when no address wraps, and when they do an address is found in its own  *)
(* function.                                                               *)
FunctionListsAreOne ==
    \A c \in Callers :
        LET list == lists[c]
        IN  /\ list \in {<<>>, functions}
            /\ \A i \in 1 .. Len(list) - 1 : list[i].end = list[i + 1].start
            /\ NoneWraps => Ascends(list)
            /\ Ascends(list) =>
                  \A i \in DOMAIN list : \A a \in {list[i].start, list[i].end - 1} :
                     list[i].start < list[i].end => GetFunctionForVMAddr(list, a) = list[i]

=============================================================================
