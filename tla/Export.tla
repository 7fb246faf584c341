------------------------------- MODULE Export -------------------------------
(***************************************************************************)
(* File.Export (export.go): a Mach-O file, or a dylib inside a shared      *)
(* cache, written as a file of its own with its segments laid out page by  *)
(* page, every file offset in its commands moved along, and, for an image  *)
(* in a cache, __LINKEDIT built anew.                                      *)
(*                                                                         *)
(* A byte is a pair: <<"file", o>> read at a file offset, <<"vm", a>> read *)
(* at an address of the cache, <<"zero", 0>> padding, <<"head", i>> of the *)
(* new header and commands, <<"sym", i>>, <<"ind", i>> and <<"str", i>> of *)
(* the tables built.  A command and a section header are one byte each.    *)
(* The offsets of a command other than a segment are the function at from  *)
(* its fields, their sizes the function size.                              *)
(***************************************************************************)
EXTENDS Integers, Sequences, FiniteSets, FiniteSetsExt, SequencesExt, TLC

CONSTANTS
    Images,         \* the files exported
    Locals,         \* the lists of extra symbols a caller passes
    PageSize, PtrSize, HdrLen,
    ReserveChunk,   \* safeAllocChunk
    MaxU32,
    LocalMark       \* INDIRECT_SYMBOL_LOCAL or _ABS: an entry that is no index

VARIABLES
    image,          \* the file as opened
    opened,         \* the File, which Export changes
    out,            \* what the last Export wrote, or its error
    exported,       \* Export has returned
    extra           \* the extra symbols of the last Export

exportVars == <<image, opened, out, exported, extra>>

(* The elements of s at the indexes in T. *)
Those(s, T) ==
    LET some[i \in 0 .. Len(s)] ==
          IF i = 0 THEN <<>> ELSE IF i \in T THEN Append(some[i - 1], s[i]) ELSE some[i - 1]
    IN  some[Len(s)]

IsSegment(l) == l.cmd = "SEGMENT"
Segments(g) == SelectSeq(g.loads, IsSegment)
SegmentNamed(g, name) == {i \in DOMAIN g.loads : IsSegment(g.loads[i]) /\ g.loads[i].name = name}
U32(n) == n % (MaxU32 + 1)
Zeros(n) == [i \in 1 .. n |-> <<"zero", 0>>]
Run(space, from, n) == [i \in 1 .. n |-> <<space, from + i - 1>>]
PadTo(b, n) == b \o Zeros(IF Len(b) < n THEN n - Len(b) ELSE 0)

-----------------------------------------------------------------------------
(* The map of the segments.                                                *)
pageAlign(off) == IF off % PageSize # 0 THEN off + PageSize - (off % PageSize) ELSE off
pointerAlignPad(n) == IF n % PtrSize = 0 THEN 0 ELSE PtrSize - (n % PtrSize)

Remap(m, off) ==
    LET in == {i \in DOMAIN m : m[i].old.start <= off /\ off <= m[i].old.end}
    IN  IF in = {} THEN -1 ELSE LET s == m[Min(in)] IN s.new.start + (off - s.old.start)

Lookup(m, name) == m[Min({i \in DOMAIN m : m[i].name = name})]

RemapSeg(m, seg) ==
    LET s == Lookup(m, seg.name)
    IN  [off |-> s.new.start + (seg.off - s.old.start), size |-> s.new.end - s.new.start]

(* A trailing __LINKEDIT of a file on its own is not padded.               *)
NewFilesz(g, i) ==
    LET segs == Segments(g)
    IN  IF ~g.inCache /\ i = Len(segs) /\ segs[i].name = "__LINKEDIT" THEN segs[i].filesz
        ELSE pageAlign(segs[i].filesz)

SegMap(g) ==
    LET segs == Segments(g)
        start[i \in 1 .. Len(segs) + 1] ==
            IF i = 1 THEN 0 ELSE start[i - 1] + NewFilesz(g, i - 1)
        Info(i) ==
            [ name |-> segs[i].name,
              old |-> [start |-> segs[i].off, end |-> segs[i].off + segs[i].filesz],
              new |-> [start |-> start[i], end |-> start[i] + NewFilesz(g, i)],
              memsz |-> segs[i].memsz, filesz |-> segs[i].filesz ]
    IN  SortSeq([i \in DOMAIN segs |-> Info(i)], LAMBDA x, y : x.old.start < y.old.start)

(* Bytes of the source: by address in a cache, at an offset in a file.     *)
InSource(g, from, n) == from + n <= (IF g.inCache THEN g.vmEnd ELSE g.length)

(* How much of the buffer is reserved before anything is read.             *)
exportSegmentsReadable(g, total) ==
    LET full == SelectSeq(Segments(g), LAMBDA s : s.filesz # 0)
        LastByte(s) == (IF g.inCache THEN s.addr ELSE s.off) + s.filesz - 1
    IN  /\ \A i \in DOMAIN full : InSource(g, LastByte(full[i]), 1)
        /\ total <= FoldLeft(LAMBDA n, s : n + pageAlign(s.filesz), 0, full)

Reserved(g, m) ==
    IF m = <<>> THEN 0
    ELSE LET total == m[Len(m)].new.end
         IN  IF total < ReserveChunk \/ exportSegmentsReadable(g, total) THEN total ELSE 0

(* Where the sections of __TEXT begin in it; -1 is an error.               *)
textSegmentFirstSectionRelOff(g) ==
    LET at == SegmentNamed(g, "__TEXT")
        seg == g.loads[Min(at)]
        secs == {i \in seg.firstsect + 1 .. seg.firstsect + seg.nsect : g.sects[i].off # 0}
        s == g.sects[Min(secs)]
        rel == IF g.inCache THEN s.addr - seg.addr ELSE s.off - seg.off
    IN  IF at = {} THEN 0 ELSE IF secs = {} THEN 0 ELSE IF rel < 0 THEN -1 ELSE rel

textSegmentWriteStart(firstRel, endOfLoads, n) ==
    LET start == IF endOfLoads > firstRel THEN endOfLoads ELSE firstRel
    IN  IF start > n THEN -1 ELSE start

-----------------------------------------------------------------------------
(* optimizeLoadCommands: every command in turn, stopping at the first that *)
(* cannot be moved.  What was moved before it stays moved.                 *)
exportedSegmentMemsz(filesz, origFilesz, origMemsz) ==
    IF origMemsz <= origFilesz THEN filesz
    ELSE IF filesz > origFilesz THEN Max({filesz, origMemsz})
    ELSE filesz + (origMemsz - origFilesz)

MovedSection(g, m, seg, s) ==
    LET byAddr == seg.off + (s.addr - seg.addr)
        byMap == Remap(m, s.off)
    IN  IF s.off = 0 THEN s
        ELSE [s EXCEPT !.off = U32(IF g.inCache \/ byMap = -1 THEN byAddr ELSE byMap)]

MoveSegmentSectionsByOld(g, m, i) ==
    LET seg == g.loads[i]
        at == RemapSeg(m, seg)
        s == Lookup(m, seg.name)
        new == [seg EXCEPT !.off = at.off, !.filesz = at.size,
                           !.memsz = exportedSegmentMemsz(at.size, s.filesz, s.memsz)]
        own == seg.firstsect + 1 .. seg.firstsect + seg.nsect
    IN  [g EXCEPT !.loads[i] = new,
                  !.sects = [k \in DOMAIN g.sects |->
                               IF k \in own THEN MovedSection(g, m, seg, g.sects[k])
                               ELSE g.sects[k]]]

MoveSegment(g, m, i) ==
    LET seg == g.loads[i]
        at == RemapSeg(m, seg)
        s == Lookup(m, seg.name)
        new == [seg EXCEPT !.off = at.off, !.filesz = at.size,
                           !.memsz = exportedSegmentMemsz(at.size, s.filesz, s.memsz)]
        own == seg.firstsect + 1 .. seg.firstsect + seg.nsect
    IN  [g EXCEPT !.loads[i] = new,
                  !.sects = [k \in DOMAIN g.sects |->
                               IF k \in own THEN MovedSection(g, m, new, g.sects[k])
                               ELSE g.sects[k]]]

FieldsOf(cmd) ==
    CASE cmd = "SYMTAB" -> <<"sym", "str">>
      [] cmd = "DYSYMTAB" -> <<"toc", "mod", "extref", "indirect", "ext", "loc">>
      [] cmd \in {"DYLD_INFO", "DYLD_INFO_ONLY"} -> <<"rebase", "bind", "weak", "lazy", "export">>
      [] OTHER -> <<"data">>

MovedAlways ==
    {"ENCRYPTION_INFO", "ENCRYPTION_INFO_64", "DYLIB_CODE_SIGN_DRS", "LINKER_OPTIMIZATION_HINT",
     "FILESET_ENTRY"}
MovedOutsideCaches ==
    {"SYMTAB", "DYSYMTAB", "CODE_SIGNATURE", "DYLD_INFO", "DYLD_INFO_ONLY", "FUNCTION_STARTS",
     "DATA_IN_CODE", "FUNCTION_VARIANTS", "FUNCTION_VARIANT_FIXUPS", "LAZY_LOAD_DYLIB_INFO",
     "DYLD_EXPORTS_TRIE", "DYLD_CHAINED_FIXUPS"}
Rebuilt ==
    {"DYLD_EXPORTS_TRIE", "DATA_IN_CODE", "FUNCTION_STARTS", "FUNCTION_VARIANTS",
     "FUNCTION_VARIANT_FIXUPS", "LAZY_LOAD_DYLIB_INFO", "SEGMENT_SPLIT_INFO", "DYLD_INFO",
     "DYLD_INFO_ONLY"}
ZeroIsAbsent(cmd) == cmd \in {"DYSYMTAB", "DYLD_INFO", "DYLD_INFO_ONLY"}

(* The fields in order; LC_SYMTAB sets both of its own or neither.         *)
MoveFields(l, m) ==
    LET fields == FieldsOf(l.cmd)
        New(k) == IF ZeroIsAbsent(l.cmd) /\ l.at[fields[k]] = 0 THEN 0
                  ELSE Remap(m, l.at[fields[k]])
        bad == {k \in DOMAIN fields : New(k) = -1}
        moved == IF bad = {} THEN DOMAIN fields
                 ELSE IF l.cmd = "SYMTAB" THEN {} ELSE 1 .. Min(bad) - 1
    IN  [ err |-> bad # {},
          load |-> [l EXCEPT !.at = [x \in DOMAIN l.at |->
                      LET k == {j \in moved : fields[j] = x}
                      IN  IF k = {} THEN l.at[x] ELSE U32(New(Min(k)))]] ]

MoveLoad(g, m, st, i) ==
    LET l == st.f.loads[i]
        new == MoveFields(l, m)
    IN  IF st.err THEN st
        ELSE IF IsSegment(l) THEN [st EXCEPT !.f = MoveSegment(st.f, m, i)]
        ELSE IF l.cmd \in MovedAlways \/ (l.cmd \in MovedOutsideCaches /\ ~g.inCache)
        THEN [f |-> [st.f EXCEPT !.loads[i] = new.load], err |-> new.err]
        ELSE st

MovedUpTo(g, m) ==
    LET st[i \in 0 .. Len(g.loads)] ==
          IF i = 0 THEN [f |-> g, err |-> FALSE] ELSE MoveLoad(g, m, st[i - 1], i)
    IN  st

optimizeLoadCommands(g, m) == MovedUpTo(g, m)[Len(g.loads)]

-----------------------------------------------------------------------------
(* optimizeLinkedit.  The first command of a kind, or all of them.         *)
OfKind(g, cmd) == {i \in DOMAIN g.loads : g.loads[i].cmd = cmd}
FirstOfKind(g, cmd) == IF OfKind(g, cmd) = {} THEN <<>> ELSE <<Min(OfKind(g, cmd))>>
AllOfKind(g, cmd) == Those([i \in 1 .. Len(g.loads) |-> i], OfKind(g, cmd))
LinkeditOff(g) == g.loads[Min(SegmentNamed(g, "__LINKEDIT"))].off

(* What is copied, in order: the field x of command i, or what is missing  *)
(* to a pointer.  The first three kinds are copied when empty too, and only*)
(* copyLinkEditPayload minds an offset that does not fit.                  *)
Field(i, x, kind) == [i |-> i, x |-> x, kind |-> kind]
Align == Field(0, "", "align")

Payloads(g, cmd, kind) ==
    LET is == IF cmd \in {"LAZY_LOAD_DYLIB_INFO", "SEGMENT_SPLIT_INFO"} THEN AllOfKind(g, cmd)
              ELSE FirstOfKind(g, cmd)
        given == IF kind = "data" THEN is ELSE Those(is, {k \in DOMAIN is : g.loads[is[k]].size["data"] # 0})
    IN  [k \in 1 .. 2 * Len(given) |->
           IF k % 2 = 1 THEN Field(given[(k + 1) \div 2], "data", kind) ELSE Align]

(* LC_DYLD_INFO, or LC_DYLD_INFO_ONLY when there is none.                  *)
DyldInfo(g) ==
    LET cmd == IF OfKind(g, "DYLD_INFO") # {} THEN "DYLD_INFO" ELSE "DYLD_INFO_ONLY"
        i == Min(OfKind(g, cmd))
        all == FieldsOf(cmd)
        given == Those(all, {k \in DOMAIN all : g.loads[i].size[all[k]] # 0})
    IN  IF OfKind(g, cmd) = {} THEN <<>>
        ELSE Append([k \in 1 .. Len(given) |-> Field(i, given[k], "data")], Align)

Data(g) ==
    Payloads(g, "DYLD_EXPORTS_TRIE", "data") \o Payloads(g, "DATA_IN_CODE", "data")
      \o Payloads(g, "FUNCTION_STARTS", "data") \o Payloads(g, "FUNCTION_VARIANTS", "payload")
      \o Payloads(g, "FUNCTION_VARIANT_FIXUPS", "payload")
      \o Payloads(g, "LAZY_LOAD_DYLIB_INFO", "payload")
      \o Payloads(g, "SEGMENT_SPLIT_INFO", "payload") \o DyldInfo(g)

(* One payload to the end of the buffer, and the command's offset to it.   *)
CopyField(st, d) ==
    LET l == st.f.loads[d.i]
        new == LinkeditOff(st.f) + Len(st.le)
    IN  IF \/ st.err \/ l.at[d.x] + l.size[d.x] > st.f.length
           \/ d.kind = "payload" /\ new > MaxU32
        THEN [st EXCEPT !.err = TRUE]
        ELSE [st EXCEPT !.f.loads[d.i].at[d.x] = U32(new),
                        !.le = st.le \o Run("file", l.at[d.x], l.size[d.x])]

CopyNext(st, d) ==
    IF d = Align THEN [st EXCEPT !.le = @ \o Zeros(pointerAlignPad(Len(@)))] ELSE CopyField(st, d)

CopiedUpTo(g, ds) ==
    LET st[i \in 0 .. Len(ds)] ==
          IF i = 0 THEN [f |-> g, le |-> <<>>, err |-> FALSE] ELSE CopyNext(st[i - 1], ds[i])
    IN  st

CopyData(g) == CopiedUpTo(g, Data(g))[Len(Data(g))]

(* The symbols: those passed in, those of the table that are not redacted, *)
(* and the re-exports of the trie, each list in the order of its kind.     *)
Entry(sym, orig) == [sym |-> sym, orig |-> orig]
ReExported(e) ==
    [name |-> e.name, ext |-> TRUE, type |-> "indr", value |-> 0,
     target |-> IF e.target = "" THEN e.name ELSE e.target]

Collected(g, locals) ==
    LET own == [i \in 1 .. Len(g.syms) |-> Entry(g.syms[i], i - 1)]
    IN  [i \in 1 .. Len(locals) |-> Entry(locals[i], -1)]
          \o Those(own, {i \in DOMAIN own : own[i].sym.name # "<redacted>"})
TrieEntries(g) ==
    LET all == [i \in 1 .. Len(g.trie) |-> Entry(ReExported(g.trie[i]), -1)]
    IN  IF OfKind(g, "DYLD_EXPORTS_TRIE") = {} THEN <<>>
        ELSE Those(all, {i \in DOMAIN all : g.trie[i].reexport})

IsLocal(e) == ~e.sym.ext
IsUndef(e) == e.sym.ext /\ e.sym.type = "undef"
IsExtdef(e) == e.sym.ext /\ e.sym.type # "undef"

Grouped(g, locals) ==
    LET c == Collected(g, locals)
    IN  [ local |-> Those(c, {i \in DOMAIN c : IsLocal(c[i])}),
          extdef |-> Those(c, {i \in DOMAIN c : IsExtdef(c[i])}) \o TrieEntries(g),
          undef |-> Those(c, {i \in DOMAIN c : IsUndef(c[i])}) ]

(* The names written to the pool, each once, as long as they fit.          *)
NoNames == [n \in {""} |-> 0]
internRebuiltSymbolString(pool, name) ==
    IF name \in DOMAIN pool.at THEN pool
    ELSE IF pool.len > MaxU32 \/ Len(name) + 1 > MaxU32 - pool.len THEN [pool EXCEPT !.err = TRUE]
    ELSE [ at |-> [n \in DOMAIN pool.at \cup {name} |-> IF n = name THEN pool.len ELSE pool.at[n]],
           len |-> pool.len + Len(name) + 1, err |-> pool.err ]

writeRebuiltSymbol(g, st, e) ==
    LET p1 == internRebuiltSymbolString(st.pool, e.sym.name)
        indirect == e.sym.type = "indr"
        p2 == IF indirect /\ e.sym.target # "" THEN internRebuiltSymbolString(p1, e.sym.target)
              ELSE p1
        value == IF indirect /\ e.sym.target # "" /\ ~p2.err THEN p2.at[e.sym.target]
                 ELSE e.sym.value
        bad == p2.err \/ (indirect /\ e.sym.target = "") \/ (~g.is64 /\ value > MaxU32)
    IN  IF st.pool.err \/ bad THEN [st EXCEPT !.pool.err = TRUE]
        ELSE [st EXCEPT !.pool = p2,
                !.table = Append(@, [name |-> p2.at[e.sym.name], value |-> value,
                                     ext |-> e.sym.ext, type |-> e.sym.type, orig |-> e.orig])]

(* The indirect entries, through the indexes the symbols now have.         *)
Sentinel(i) == i >= LocalMark
NewIndex(table, old) == {k \in DOMAIN table : table[k].orig = old}
remapIndirectShifted(indirect, table, n) ==
    LET by == IF NewIndex(table, 0) = {} THEN 0 ELSE Min(NewIndex(table, 0)) - 1
    IN  [err |-> FALSE, list |-> [i \in DOMAIN indirect |->
           IF Sentinel(indirect[i]) THEN indirect[i] ELSE indirect[i] + by]]

remapIndirectSymbols(indirect, table, n) ==
    LET ok == \A i \in DOMAIN indirect :
                 Sentinel(indirect[i])
                   \/ (indirect[i] < n /\ NewIndex(table, indirect[i]) # {}
                         /\ Min(NewIndex(table, indirect[i])) - 1 < LocalMark)
    IN  [err |-> ~ok, list |-> IF ~ok THEN indirect
           ELSE [i \in DOMAIN indirect |->
                   IF Sentinel(indirect[i]) THEN indirect[i]
                   ELSE Min(NewIndex(table, indirect[i])) - 1]]

NotBuilt(g, err) == [f |-> g, le |-> <<>>, table |-> <<>>, at |-> NoNames, err |-> err]

WrittenUpTo(g, es) ==
    LET st[i \in 0 .. Len(es)] ==
          IF i = 0 THEN [pool |-> [at |-> NoNames, len |-> 1, err |-> FALSE], table |-> <<>>]
          ELSE writeRebuiltSymbol(g, st[i - 1], es[i])
    IN  st

InOrder(groups) == groups.local \o groups.extdef \o groups.undef
WrittenSymbols(g, groups) == WrittenUpTo(g, InOrder(groups))[Len(InOrder(groups))]

(* A command once the tables stand at sym, ind and str and __LINKEDIT ends.*)
Tables(l, at, n, end) ==
    IF l.cmd = "SYMTAB"
    THEN [l EXCEPT !.at = [sym |-> at.sym, str |-> at.str], !.size = [sym |-> n.sym, str |-> n.str]]
    ELSE IF l.cmd = "DYSYMTAB"
    THEN [l EXCEPT !.at["ext"] = 0, !.at["loc"] = 0, !.at["indirect"] = at.ind,
                   !.size["ext"] = 0, !.size["loc"] = 0, !.size["indirect"] = n.ind]
    ELSE IF IsSegment(l) /\ l.name = "__LINKEDIT"
    THEN [l EXCEPT !.filesz = end, !.memsz = pageAlign(end)]
    ELSE l

(* LC_DATA_IN_CODE without data stands at the symbols.                     *)
EmptyDataInCode(g, off) ==
    LET i == FirstOfKind(g, "DATA_IN_CODE")
    IN  IF i = <<>> \/ OfKind(g, "SYMTAB") = {} THEN g
        ELSE IF g.loads[i[1]].size["data"] # 0 THEN g
        ELSE [g EXCEPT !.loads[i[1]].at["data"] = off]

(* Symbols, indirect entries and names after the data copied.              *)
Linked(g, groups, copied, written, ind) ==
    LET syms == Len(written.table)
        inds == Len(ind.list)
        symAt == Len(copied.le)
        indAt == symAt + syms + pointerAlignPad(symAt + syms)
        strAt == indAt + inds + pointerAlignPad(indAt + inds)
        strs == written.pool.len + pointerAlignPad(written.pool.len)
        base == LinkeditOff(g)
        at == [sym |-> U32(base + symAt), ind |-> U32(base + indAt), str |-> U32(base + strAt)]
        n == [sym |-> syms, ind |-> inds, str |-> strs]
        done == [copied.f EXCEPT
                   !.loads = [i \in DOMAIN @ |-> Tables(@[i], at, n, strAt + strs)],
                   !.indirect = ind.list,
                   !.ranges = [local |-> Len(groups.local), extdef |-> Len(groups.extdef),
                               undef |-> Len(groups.undef)]]
    IN  IF copied.err \/ written.pool.err \/ ind.err THEN NotBuilt(copied.f, TRUE)
        ELSE [ f |-> EmptyDataInCode(done, at.sym),
               le |-> PadTo(PadTo(copied.le \o Run("sym", 0, syms), indAt)
                              \o Run("ind", 0, inds), strAt) \o Run("str", 0, strs),
               table |-> written.table, at |-> written.pool.at, err |-> FALSE ]

Rebuild(g, groups, written) ==
    Linked(g, groups, CopyData(g), written,
           remapIndirectSymbols(g.indirect, written.table, Len(g.syms)))

Regroup(g, groups) == Rebuild(g, groups, WrittenSymbols(g, groups))

optimizeLinkedit(g, locals) ==
    IF SegmentNamed(g, "__LINKEDIT") = {} \/ OfKind(g, "DYSYMTAB") = {} THEN NotBuilt(g, TRUE)
    ELSE Regroup(g, Grouped(g, locals))

-----------------------------------------------------------------------------
(* The new file: header and commands, then each segment in its place.      *)
WithoutChainedFixups(g) ==
    LET fixups == FirstOfKind(g, "DYLD_CHAINED_FIXUPS")
    IN  [g EXCEPT !.inCache = FALSE, !.loads = IF fixups = <<>> THEN @ ELSE RemoveAt(@, fixups[1])]
LoadsLen(g) == HdrLen + Len(g.loads) + Len(g.sects)

OriginalSegment(g, seg, s) ==
    IF g.inCache THEN Run("vm", seg.addr, s.filesz) ELSE Run("file", s.old.start, s.filesz)

PutSegment(g, m, le, firstRel, endOfLoads, st, seg) ==
    LET s == Lookup(m, seg.name)
        dat == OriginalSegment(g, seg, s)
        rebuilt == g.inCache /\ seg.name = "__LINKEDIT"
        read == rebuilt \/ InSource(g, IF g.inCache THEN seg.addr ELSE s.old.start, s.filesz)
        from == textSegmentWriteStart(firstRel, endOfLoads, Len(dat))
        b1 == PadTo(st.buf, s.new.start)
        data ==
            IF rebuilt THEN le
            ELSE IF seg.name = "__TEXT"
            THEN Zeros(from - endOfLoads) \o SubSeq(dat, from + 1, Len(dat))
            ELSE dat
        bad == seg.filesz > 0 /\ (~read \/ (seg.name = "__TEXT" /\ from = -1))
    IN  IF st.err \/ bad THEN [st EXCEPT !.err = TRUE]
        ELSE [st EXCEPT !.buf =
                PadTo(IF seg.filesz > 0 THEN b1 \o data ELSE st.buf, s.new.end)]

Failed(g) == [err |-> TRUE, f |-> g, buf |-> <<>>, table |-> <<>>, at |-> NoNames, reserved |-> 0]

(* Export from here to Exported, each definition one stage that hands its  *)
(* result to the one above it.  The rebuilt __LINKEDIT has a size of its   *)
(* own in the map.                                                         *)
Regrown(g, m, n) ==
    IF ~g.inCache THEN m
    ELSE LET i == Min({k \in DOMAIN m : m[k].name = "__LINKEDIT"})
         IN  [m EXCEPT ![i].new.end = m[i].new.start + n, ![i].filesz = n]

WrittenFile(g, m, firstRel, built, final, end) ==
    LET Write(st, seg) == PutSegment(g, m, built.le, firstRel, end, st, seg)
    IN  FoldLeft(Write, [buf |-> Run("head", 0, end), err |-> FALSE], Segments(final))

Finish(g, m, built, final, written) ==
    IF written.err THEN Failed(final)
    ELSE [ err |-> FALSE, f |-> final, buf |-> written.buf, table |-> built.table,
           at |-> built.at, reserved |-> Reserved(g, m) ]

WriteOut(g, m, firstRel, built, final) ==
    Finish(g, m, built, final,
           WrittenFile(g, Regrown(g, m, Len(built.le)), firstRel, built, final, LoadsLen(final)))

Built(g, m, firstRel, built) ==
    IF built.err THEN Failed(built.f)
    ELSE WriteOut(g, m, firstRel, built, IF g.inCache THEN WithoutChainedFixups(built.f) ELSE built.f)

Moved(g, m, firstRel, locals, moved) ==
    IF firstRel = -1 THEN Failed(g)
    ELSE IF moved.err THEN Failed(moved.f)
    ELSE Built(g, m, firstRel,
               IF g.inCache THEN optimizeLinkedit(moved.f, locals) ELSE NotBuilt(moved.f, FALSE))

LaidOut(g, m, locals) ==
    Moved(g, m, textSegmentFirstSectionRelOff(g), locals, optimizeLoadCommands(g, m))

Exported(g, locals) == LaidOut(g, SegMap(g), locals)

(* What a File that was read is made of.                                   *)
IsASequence(s) == Len(s) \in Nat /\ s = [i \in 1 .. Len(s) |-> s[i]]

ImagesAreRead ==
    /\ \A g \in Images :
         /\ {"inCache", "loads", "sects", "syms", "indirect", "trie", "ranges"} \subseteq DOMAIN g
         /\ IsASequence(g.loads) /\ IsASequence(g.syms) /\ IsASequence(g.trie)
         /\ IsASequence(g.indirect) /\ \A j \in 1 .. Len(g.indirect) : g.indirect[j] \in Nat
    /\ \A locals \in Locals : IsASequence(locals)

ExportInit ==
    /\ image \in Images
    /\ opened = image
    /\ out = Failed(image)
    /\ exported = FALSE
    /\ extra = <<>>

Export ==
    /\ ~exported
    /\ \E locals \in Locals :
          /\ extra' = locals
          /\ out' = Exported(opened, locals)
    /\ opened' = out'.f
    /\ exported' = TRUE
    /\ UNCHANGED image

ExportNext == Export
ExportSpec == ExportInit /\ [][ExportNext]_exportVars

-----------------------------------------------------------------------------
(* What stands at an offset of the new file.                               *)
StandsAt(off, n) == IF off + n > Len(out.buf) THEN <<>> ELSE SubSeq(out.buf, off + 1, off + n)
Done == exported /\ ~out.err

(* The segments share no byte, so a byte of the source has one new place.  *)
SegmentsApart(g) ==
    \A i, j \in DOMAIN g.loads :
       LET x == g.loads[i]
           y == g.loads[j]
       IN  (i # j /\ IsSegment(x) /\ IsSegment(y) /\ x.filesz > 0 /\ y.filesz > 0 /\ x.off <= y.off)
              => x.off + x.filesz <= y.off

(* Where one segment ends, of less than whole pages, and the next begins.  *)
AtSeam(g, off) ==
    \E i, j \in DOMAIN g.loads :
       LET x == g.loads[i]
           y == g.loads[j]
       IN  /\ IsSegment(x) /\ x.filesz % PageSize # 0 /\ x.off + x.filesz = off
           /\ IsSegment(y) /\ y.filesz > 0 /\ y.off = off

Inside(g, off, n) ==
    \E i \in DOMAIN g.loads :
       LET x == g.loads[i] IN IsSegment(x) /\ x.off <= off /\ off + n <= x.off + x.filesz

(* The command of g that command i of the image became.                    *)
Now(i) ==
    LET fixups == FirstOfKind(image, "DYLD_CHAINED_FIXUPS")
    IN  IF image.inCache /\ fixups # <<>> /\ fixups[1] < i THEN i - 1 ELSE i

(* The fields of the commands of some kinds that have data in the image,   *)
(* and whether the data is at the offset the field has now.                *)
DataFields(kinds) ==
    UNION { {<<i, x>> : x \in {y \in DOMAIN image.loads[i].at :
                LET l == image.loads[i]
                IN  l.size[y] > 0 /\ (image.inCache \/ Inside(image, l.at[y], l.size[y]))}}
              : i \in UNION {OfKind(image, cmd) : cmd \in kinds} }
TableFollows(i, x) ==
    LET l == image.loads[i]
    IN  StandsAt(out.f.loads[Now(i)].at[x], l.size[x]) = Run("file", l.at[x], l.size[x])

(* In an exported file every section with file data that lies behind the   *)
(* commands, and every table of the kinds Export moves (of the kinds it    *)
(* copies, for an image taken out of a cache), is at its new offset what   *)
(* it was in the source: segments, sections and offsets are moved by three *)
(* different rules (RemapSeg, Remap or the address, the growth of the      *)
(* rebuilt __LINKEDIT) that have to agree.  Data at a seam is left to      *)
(* TablesAtSeamsFollow.  Nothing is said of the kinds Export never moves   *)
(* outside a cache (LC_ATOM_INFO, LC_NOTE, LC_SEGMENT_SPLIT_INFO and two   *)
(* that no image here has): their offsets stay those of the old file.      *)
DataFollows ==
    (Done /\ SegmentsApart(image)) =>
       /\ \A k \in DOMAIN image.sects :
             LET s == image.sects[k]
                 new == out.f.sects[k]
                 seg == image.loads[s.seg]
             IN  (s.off # 0 /\ s.addr >= seg.addr /\ s.addr + s.size <= seg.addr + seg.filesz
                    /\ new.off >= LoadsLen(out.f)
                    /\ (image.inCache \/ (s.off - seg.off = s.addr - seg.addr /\ ~AtSeam(image, s.off))))
                   => StandsAt(new.off, s.size) = IF image.inCache THEN Run("vm", s.addr, s.size)
                                                   ELSE Run("file", s.off, s.size)
       /\ \A t \in DataFields(IF image.inCache THEN Rebuilt ELSE MovedAlways \cup MovedOutsideCaches) :
             (image.inCache \/ ~AtSeam(image, image.loads[t[1]].at[t[2]])) => TableFollows(t[1], t[2])

(* So are the tables of an image taken out of a cache, which are new.      *)
NewTablesFollow ==
    (Done /\ image.inCache) =>
       \A i \in DOMAIN out.f.loads :
          LET l == out.f.loads[i]
              inds == Len(image.indirect)
          IN  /\ l.cmd = "SYMTAB" =>
                    /\ StandsAt(l.at["sym"], l.size["sym"]) = Run("sym", 0, Len(out.table))
                    /\ StandsAt(l.at["str"], 1) = Run("str", 0, 1)
              /\ l.cmd = "DYSYMTAB" /\ inds > 0 => StandsAt(l.at["indirect"], inds) = Run("ind", 0, inds)

OffsetsFollowTheirData == DataFollows /\ NewTablesFollow

(* types/commands.go:944 calls the offset of a linkedit command the file   *)
(* offset of its data.  So a table that begins where __LINKEDIT does, or   *)
(* any segment, begins there in an exported file too, however the segment  *)
(* before it ends.                                                         *)
TablesAtSeamsFollow ==
    (Done /\ ~image.inCache /\ SegmentsApart(image)) =>
       \A t \in DataFields(MovedOutsideCaches) :
          AtSeam(image, image.loads[t[1]].at[t[2]]) => TableFollows(t[1], t[2])

(* In an image taken out of a cache the symbols are grouped as LC_DYSYMTAB *)
(* says, none of the table's is lost, and an indirect entry still names    *)
(* the symbol it named, although symbols were inserted, dropped and        *)
(* reordered before its index was rewritten.                               *)
RebuiltSymbolsAgree ==
    (Done /\ image.inCache) =>
       LET t == out.table
           r == out.f.ranges
           Same(i, k) == /\ t[k].type = image.syms[i].type /\ t[k].ext = image.syms[i].ext
                         /\ t[k].name = out.at[image.syms[i].name]
       IN  /\ Len(t) = r.local + r.extdef + r.undef
           /\ \A k \in DOMAIN t :
                 /\ ~t[k].ext <=> k <= r.local
                 /\ (t[k].ext /\ t[k].type = "undef") <=> k > r.local + r.extdef
           /\ \A i \in DOMAIN image.syms :
                 image.syms[i].name # "<redacted>" => \E k \in DOMAIN t : Same(i, k)
           /\ \A j \in DOMAIN image.indirect :
                 IF Sentinel(image.indirect[j]) THEN out.f.indirect[j] = image.indirect[j]
                 ELSE /\ out.f.indirect[j] + 1 \in DOMAIN t
                      /\ Same(image.indirect[j] + 1, out.f.indirect[j] + 1)
=============================================================================
