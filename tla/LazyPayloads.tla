---------------------------- MODULE LazyPayloads ----------------------------
(***************************************************************************)
(* The payloads a File decodes on demand and caches on the load command:   *)
(* LC_LAZY_LOAD_DYLIB_INFO with its chain of slots, LC_FUNCTION_VARIANTS   *)
(* with the names of its entries, and its fixups (cmds.go, file.go).       *)
(*                                                                         *)
(* A read may fail in one call and succeed in the next: reads is the set   *)
(* of what can be read during a call.                                      *)
(***************************************************************************)
EXTENDS Integers, Sequences, FiniteSetsExt

CONSTANTS
    PayloadFiles,   \* lazies, segments, base, slots, variants, symtab, exports, ...
    HeaderSize,     \* lazyLoadDylibHeaderSize
    MinVMOffset,    \* 0x4000
    MaxAddr,        \* math.MaxUint64
    MaxChain,       \* 1 << 20
    NoData, Bad

VARIABLES
    file,
    lazies,         \* the Data of each LC_LAZY_LOAD_DYLIB_INFO, or NoData
    variants,       \* the Data of LC_FUNCTION_VARIANTS, or NoData
    varFixups,      \* the Data of LC_FUNCTION_VARIANT_FIXUPS, or NoData
    exp,            \* whether the export trie has been parsed
    named           \* exp when the variants were last asked for

payloadVars == <<file, lazies, variants, varFixups, exp, named>>

Slots == [bind : BOOLEAN, low : Nat, high : Nat, next : Nat]

ASSUME LimitsAssumption == MinVMOffset \in Nat /\ MaxAddr \in Nat /\ MaxChain \in Nat

ASSUME PayloadFilesAssumption ==
    \A f \in PayloadFiles :
        /\ f.base \in Nat
        /\ f.segments \subseteq [name : STRING, addr : Nat, size : Nat]
        /\ DOMAIN f.slots \subseteq Nat /\ \A o \in DOMAIN f.slots : f.slots[o] \in Slots
        /\ DOMAIN f.lazies \subseteq Nat /\ \A i \in DOMAIN f.lazies : f.lazies[i].chain \in Nat

-----------------------------------------------------------------------------
(* LC_LAZY_LOAD_DYLIB_INFO.  nuls are the positions of the NUL bytes, strs *)
(* what the array of string offsets holds; a string is where it starts     *)
(* and ends.                                                               *)

Terminated(p, off) == off < p.len /\ \E e \in p.nuls : off <= e /\ e < p.len

StringAt(p, off) == <<off, Min({e \in p.nuls : off <= e})>>

ParseLazyLoadDylibInfo(p) ==
    IF /\ p.len >= HeaderSize
       /\ Terminated(p, p.path)
       /\ p.array + 4 * p.count <= p.len
       /\ \A i \in 1 .. p.count : Terminated(p, p.strs[i])
    THEN [ path |-> StringAt(p, p.path), format |-> p.format, flag |-> p.flag, chain |-> p.chain,
           symbols |-> [i \in 1 .. p.count |-> StringAt(p, p.strs[i])], fixups |-> <<>> ]
    ELSE Bad

(* Segments below the base and __LINKEDIT hold no part of a chain. *)
Reachable == {s \in file.segments : s.name # "__LINKEDIT" /\ s.addr >= file.base}

lazyLoadMaxVMOffset ==
    IF \E s \in Reachable : s.size > MaxAddr - (s.addr - file.base) THEN Bad
    ELSE Max({MinVMOffset} \cup {s.addr - file.base + s.size : s \in Reachable})

validateLazyLoadImageOffsets(lld) ==
    /\ lazyLoadMaxVMOffset # Bad
    /\ lld.flag <= lazyLoadMaxVMOffset
    /\ lld.chain <= lazyLoadMaxVMOffset

(* The formats the walk decodes; "32" stands for those that have a stride  *)
(* and are refused at the first slot.                                      *)
Arm64e == {"ARM64E", "ARM64E_USERLAND", "ARM64E_KERNEL", "ARM64E_FIRMWARE", "ARM64E_USERLAND24"}
Generic64 == {"64", "64_OFFSET"}

Stride(format) ==
    CASE format \in {"ARM64E", "ARM64E_USERLAND", "ARM64E_USERLAND24"} -> 8
      [] format \in {"ARM64E_KERNEL", "ARM64E_FIRMWARE", "64", "64_OFFSET", "32"} -> 4
      [] OTHER -> 0

(* A slot is [bind, low, high, next]; the 24-bit formats take the high     *)
(* part of the ordinal too, the 16-bit ones leave it out.                  *)
Ordinal(format, slot) ==
    IF format \in Generic64 \cup {"ARM64E_USERLAND24"} THEN slot.high * 2 + slot.low ELSE slot.low

decodeLazyLoadFixup(lld, slot, addr) ==
    IF lld.format \notin Arm64e \cup Generic64 THEN Bad
    ELSE IF ~slot.bind THEN [fixup |-> <<>>, next |-> slot.next]
    ELSE IF Ordinal(lld.format, slot) >= Len(lld.symbols) THEN Bad
    ELSE [ fixup |-> <<[ addr |-> addr, ordinal |-> Ordinal(lld.format, slot),
                         symbol |-> lld.symbols[Ordinal(lld.format, slot) + 1] ]>>,
           next |-> slot.next ]

(* The slot at an offset, when it is mapped and can be read whole. *)
SlotAt(off) == IF off \in DOMAIN file.slots THEN file.slots[off] ELSE Bad

(* One slot further: the slot is decoded, and its next leads on or ends    *)
(* the chain.                                                              *)
WalkOn(lld, w) ==
    LET d == decodeLazyLoadFixup(lld, SlotAt(w.off), file.base + w.off)
        advance == d.next * Stride(lld.format)
        found == w.fixups \o d.fixup
    IN  IF w.at # "slot" THEN w
        ELSE IF \/ w.off > lazyLoadMaxVMOffset \/ file.base > MaxAddr - w.off
                \/ SlotAt(w.off) = Bad \/ d = Bad
        THEN [w EXCEPT !.at = "error"]
        ELSE IF d.next = 0 THEN [at |-> "end", off |-> w.off, fixups |-> found]
        ELSE IF w.off > MaxAddr - advance THEN [w EXCEPT !.at = "error"]
        ELSE [at |-> "slot", off |-> w.off + advance, fixups |-> found]

(* The walk after each slot. *)
Walk(lld) ==
    LET walk[n \in 0 .. MaxChain] ==
            IF n = 0 THEN [at |-> "slot", off |-> lld.chain, fixups |-> lld.fixups]
            ELSE WalkOn(lld, walk[n - 1])
    IN  walk

walkLazyLoadChain(lld) ==
    IF lld.chain = 0 THEN lld
    ELSE IF Stride(lld.format) = 0 \/ Walk(lld)[MaxChain].at # "end" THEN Bad
    ELSE [lld EXCEPT !.fixups = Walk(lld)[MaxChain].fixups]

(* Mutant: the payload is cached before its chain is walked. *)
decodeLazyUnwalked(p) ==
    LET lld == ParseLazyLoadDylibInfo(p)
    IN  IF lld = Bad THEN Bad
        ELSE IF ~validateLazyLoadImageOffsets(lld) THEN Bad
        ELSE IF walkLazyLoadChain(lld) = Bad THEN lld ELSE walkLazyLoadChain(lld)

decodeLazy(p) ==
    LET lld == ParseLazyLoadDylibInfo(p)
    IN  IF lld = Bad THEN Bad
        ELSE IF ~validateLazyLoadImageOffsets(lld) THEN Bad
        ELSE walkLazyLoadChain(lld)

(* GetLazyLoadedDylibs: the cache after the call.  A payload that fails    *)
(* is left out, and its siblings are decoded all the same.                 *)
lazyLoaded(cached, reads) ==
    [i \in DOMAIN file.lazies |->
        IF cached[i] # NoData THEN cached[i]
        ELSE IF i \notin reads \/ decodeLazy(file.lazies[i]) = Bad THEN NoData
        ELSE decodeLazy(file.lazies[i])]

-----------------------------------------------------------------------------
(* LC_FUNCTION_VARIANTS.  A payload is its length, the offsets of its      *)
(* tables and what lies at them; an entry is [impl, index, flag].          *)

HeaderEnd(p) == 4 + 4 * Len(p.offsets)
TableEnd(p, i) == IF i < Len(p.offsets) THEN p.offsets[i + 1] ELSE p.len

tableParses(p, i) ==
    LET start == p.offsets[i]
        table == p.at[start]
        size == TableEnd(p, i) - start
    IN  /\ start >= HeaderEnd(p) /\ start < TableEnd(p, i) /\ TableEnd(p, i) <= p.len
        /\ size >= 8
        /\ table.kind \in 1 .. 4
        /\ Len(table.entries) > 0
        /\ size \in {8 + 8 * Len(table.entries), 12 + 8 * Len(table.entries)}
        /\ table.entries[Len(table.entries)].flag = 0

ParseFunctionVariants(p) ==
    IF p.len < 4 THEN Bad
    ELSE IF p.offsets = <<>> THEN <<>>
    ELSE IF HeaderEnd(p) >= p.len \/ \E i \in DOMAIN p.offsets : ~tableParses(p, i) THEN Bad
    ELSE [i \in DOMAIN p.offsets |->
            [j \in DOMAIN p.at[p.offsets[i]].entries |->
                [impl |-> p.at[p.offsets[i]].entries[j].impl, symbol |-> "",
                 index |-> p.at[p.offsets[i]].entries[j].index]]]

NameIn(table, a) ==
    LET found == {i \in DOMAIN table : table[i].addr = a}
    IN  IF found = {} THEN "" ELSE table[Min(found)].name

(* Mutant: the exports are asked before the symbol table. *)
variantNameExportsFirst(a, parsed) ==
    IF parsed /\ NameIn(file.exports, a) # "" THEN NameIn(file.exports, a) ELSE NameIn(file.symtab, a)

(* The first symbol at the address, or the first export that is parsed. *)
variantName(a, parsed) ==
    IF parsed /\ NameIn(file.symtab, a) = "" THEN NameIn(file.exports, a) ELSE NameIn(file.symtab, a)

resolveFunctionVariantSymbolsIfParsed(tables, parsed) ==
    [i \in DOMAIN tables |->
        [j \in DOMAIN tables[i] |->
            LET e == tables[i][j]
            IN  IF e.index \/ e.symbol # "" THEN e
                ELSE [e EXCEPT !.symbol = variantName(file.base + e.impl, parsed)]]]

(* GetFunctionVariants: the cache after the call. *)
functionVariants(cached, parsed, reads) ==
    LET read == IF file.variants = NoData \/ "variants" \notin reads THEN Bad
                ELSE ParseFunctionVariants(file.variants)
    IN  IF cached # NoData THEN resolveFunctionVariantSymbolsIfParsed(cached, parsed)
        ELSE IF read = Bad THEN NoData
        ELSE resolveFunctionVariantSymbolsIfParsed(read, parsed)

(* ParseFunctionVariantFixups: records of eight bytes, each one a word of  *)
(* offset and a word of bit fields (here the record as a whole).           *)
functionVariantFixups(cached, reads) ==
    IF cached # NoData \/ file.fixups = NoData \/ "fixups" \notin reads \/ file.fixups.len % 8 # 0
    THEN cached
    ELSE SubSeq(file.fixups.records, 1, file.fixups.len \div 8)

-----------------------------------------------------------------------------
PayloadsInit ==
    /\ file \in PayloadFiles
    /\ lazies = [i \in DOMAIN file.lazies |-> NoData]
    /\ variants = NoData /\ varFixups = NoData
    /\ exp = FALSE /\ named = FALSE

Readable == SUBSET {"variants", "fixups", "exports"}
ReadableLazies == SUBSET DOMAIN file.lazies

DyldExports ==
    /\ exp' = TRUE
    /\ UNCHANGED <<file, lazies, variants, varFixups, named>>

GetLazyLoadedDylibs ==
    /\ \E reads \in ReadableLazies : lazies' = lazyLoaded(lazies, reads)
    /\ UNCHANGED <<file, variants, varFixups, exp, named>>

GetFunctionVariants ==
    /\ \E reads \in Readable : variants' = functionVariants(variants, exp, reads)
    /\ named' = exp
    /\ UNCHANGED <<file, lazies, varFixups, exp>>

GetFunctionVariantFixups ==
    /\ \E reads \in Readable : varFixups' = functionVariantFixups(varFixups, reads)
    /\ UNCHANGED <<file, lazies, variants, exp, named>>

(* Every step runs, whichever of the others failed. *)
Enrich ==
    /\ \E reads \in Readable :
          /\ exp' = (exp \/ "exports" \in reads)
          /\ variants' = functionVariants(variants, exp', reads)
          /\ varFixups' = functionVariantFixups(varFixups, reads)
    /\ \E reads \in ReadableLazies : lazies' = lazyLoaded(lazies, reads)
    /\ named' = exp'
    /\ UNCHANGED file

PayloadsNext ==
    DyldExports \/ GetLazyLoadedDylibs \/ GetFunctionVariants \/ GetFunctionVariantFixups \/ Enrich

PayloadsSpec == PayloadsInit /\ [][PayloadsNext]_payloadVars

-----------------------------------------------------------------------------
(* Properties. *)

(* "A partially decoded object must not turn a failed first call into a    *)
(* successful cached call": a cached dylib is a whole walk of its chain,   *)
(* whatever failed before.  The walk began at the command's slot, ended at *)
(* a slot with no next, met every bind of the chain once and in order, and *)
(* named each by the symbol of its ordinal.                                *)
LazyDylibsAreWhole ==
    \A i \in DOMAIN lazies : lazies[i] # NoData =>
        LET d == lazies[i]
            reached == {o \in DOMAIN file.slots : d.chain > 0 /\ o >= d.chain}
            next(o) == o + file.slots[o].next * Stride(d.format)
        IN  \E chain \in SUBSET reached :
              /\ (d.chain > 0) <=> (d.chain \in chain)
              /\ \A o \in chain : o <= lazyLoadMaxVMOffset
              /\ \A o \in chain : file.slots[o].next > 0 => next(o) \in chain
              /\ \A o \in chain : o = d.chain \/ \E q \in chain : q < o /\ next(q) = o
              /\ {f.addr : f \in {d.fixups[k] : k \in DOMAIN d.fixups}}
                    = {file.base + o : o \in {q \in chain : file.slots[q].bind}}
              /\ \A k \in DOMAIN d.fixups :
                    /\ d.fixups[k].symbol = d.symbols[d.fixups[k].ordinal + 1]
                    /\ \A l \in DOMAIN d.fixups : k < l => d.fixups[k].addr < d.fixups[l].addr

(* The names of function variants do not depend on the order of calls: a   *)
(* caller who asks after the exports were parsed sees the names a first    *)
(* call would have given, and who asks before sees none of another source. *)
VariantNamesSettle ==
    variants # NoData => variants = functionVariants(NoData, named, {"variants"})
=============================================================================
