------------------------------ MODULE Readers -------------------------------
(***************************************************************************)
(* How a File reads its bytes: the cursors of public calls over one shared *)
(* reader (types.CustomSectionReader), the helpers that bound allocations  *)
(* (safealloc.go, internal/saferio), addresses and offsets through the     *)
(* segment table, and the decision of what a pointer slot holds.           *)
(*                                                                         *)
(* The byte at offset o is modelled by o itself, so what was read tells    *)
(* from where.  A result is [data, err]; a sequential one has the position *)
(* it leaves the cursor at too.  Sizes are scaled down: Chunk stands for   *)
(* safeAllocChunk, which is saferio's chunk too, Probe for                 *)
(* safeProbeThreshold, and Wrap for 2^64.                                  *)
(***************************************************************************)
EXTENDS Integers, Sequences, FiniteSetsExt

CONSTANTS
    Calls,          \* public calls in progress
    FileLen,        \* the bytes the underlying io.ReaderAt has
    Chunk, Probe, Wrap,
    SegmentHeaders, \* [addr, memsz, offset, filesz] in the order of the loads
    Addresses,      \* the addresses calls ask for
    Counts, ElemSizes,
    SectionHeaders, \* [size, seg, addr, offset]
    Pointers        \* the pointer slots, see PointersAgree

VARIABLES
    pos,            \* position of each cursor; "cr" is the shared one
    call            \* what each call has sought and read

readerVars == <<pos, call>>

Half == Wrap \div 2                     \* int64(x) < 0
MaxInt == Half - 1
Smaller(m, n) == IF m < n THEN m ELSE n
Bytes(off, n) == [i \in 1 .. n |-> off + i - 1]
Got(off, n) == IF off >= FileLen THEN 0 ELSE Smaller(n, FileLen - off)

(* The io.ReaderAt below: what is there, and io.EOF if that is not all.    *)
ReaderAt(off, n) ==
    [data |-> Bytes(off, Got(off, n)), err |-> IF Got(off, n) < n THEN "EOF" ELSE ""]

(* CustomSectionReader of NewFile: base 0, limit MaxInt64.                 *)
ReadAt(n, off) ==
    IF off < 0 \/ off >= MaxInt THEN [data |-> <<>>, err |-> "EOF"]
    ELSE IF n > MaxInt - off
         THEN [ReaderAt(off, MaxInt - off) EXCEPT !.err = "EOF"]
         ELSE ReaderAt(off, n)

Read(p, n) ==
    IF p >= MaxInt THEN [data |-> <<>>, err |-> "EOF"]
    ELSE ReaderAt(p, Smaller(n, MaxInt - p))

(* io.ReadFull: nothing to read succeeds, and an end in the middle is      *)
(* unexpected.                                                             *)
ReadFull(p, n) ==
    LET r == Read(p, n)
        k == Len(r.data)
    IN  [data |-> r.data, pos |-> p + k,
         err |-> IF n = 0 \/ k = n THEN "" ELSE IF k = 0 THEN "EOF" ELSE "UnexpectedEOF"]

Signed(n) == IF n % Wrap >= Half THEN (n % Wrap) - Wrap ELSE n % Wrap

-----------------------------------------------------------------------------
(* Addresses.  A segment's end wraps, and the bound is memsz on the way to *)
(* an offset and filesz on the way back; the first segment that fits wins. *)
Outside == -1
Fits(x, from, n) == from <= x /\ x < (from + n) % Wrap

Convert(x, from, length, to) ==
    LET fits == {i \in DOMAIN SegmentHeaders : Fits(x, SegmentHeaders[i][from], SegmentHeaders[i][length])}
        g    == SegmentHeaders[Min(fits)]
    IN  IF fits = {} THEN Outside ELSE (x - g[from] + g[to]) % Wrap

getOffset(address) == Convert(address, "addr", "memsz", "offset")
getVMAddress(offset) == Convert(offset, "offset", "filesz", "addr")

ReadAtAddr(n, address) ==
    IF getOffset(address) = Outside THEN [data |-> <<>>, err |-> "address"]
    ELSE ReadAt(n, Signed(getOffset(address)))

(* addrReaderAt: every read of a chunk converts its own address.           *)
addrReaderAt(address, n, off) ==
    IF off < 0 \/ off > Wrap - 1 - address THEN [data |-> <<>>, err |-> "range"]
    ELSE ReadAtAddr(n, address + off)

-----------------------------------------------------------------------------
(* saferio.ReadData and ReadDataAt: no more than a chunk is allocated      *)
(* before its bytes have been seen.                                        *)
Nothing(p, e) == [data |-> <<>>, pos |-> p, err |-> e]

(* A chunk is read on a cursor, at an offset, or through an addrReaderAt.  *)
OnCursor == [kind |-> "cursor", address |-> 0]
AtOffset == [kind |-> "offset", address |-> 0]
AtAddress(a) == [kind |-> "address", address |-> a]

At(by, n, off) ==
    IF by.kind = "address" THEN addrReaderAt(by.address, n, off) ELSE ReadAt(n, off)

ReadChunk(by, p, n) ==
    IF by.kind = "cursor" THEN ReadFull(p, n)
    ELSE [data |-> At(by, n, p).data, err |-> At(by, n, p).err, pos |-> p + n]

(* The loop over chunks: how n bytes are read with the last, short chunk   *)
(* at the end.                                                             *)
Chunked(by, first, n) ==
    LET upTo[k \in 0 .. n] ==
          IF k = 0 THEN Nothing(first, "")
          ELSE LET next == IF k % Chunk = 0 THEN Chunk ELSE k % Chunk
                   prev == upTo[k - next]
                   r    == ReadChunk(by, prev.pos, next)
               IN  IF prev.err # "" THEN prev
                   ELSE IF r.err = "" THEN [r EXCEPT !.data = prev.data \o r.data]
                   ELSE Nothing(r.pos,
                                IF by = OnCursor /\ prev.data # <<>> /\ r.err = "EOF"
                                THEN "UnexpectedEOF" ELSE r.err)
    IN  upTo[n]

ReadData(p, n) ==
    IF Signed(n) < 0 THEN Nothing(p, "UnexpectedEOF")
    ELSE IF n < Chunk
         THEN LET r == ReadFull(p, n) IN IF r.err = "" THEN r ELSE Nothing(r.pos, r.err)
         ELSE Chunked(OnCursor, p, n)

ReadDataAt(by, n, off) ==
    LET r == ReadChunk(by, off, n)
    IN  IF Signed(n) < 0 THEN Nothing(off, "UnexpectedEOF")
        ELSE IF n < Chunk
             THEN IF r.err # "" /\ (r.err # "EOF" \/ n > 0) THEN Nothing(off, r.err)
                  ELSE [r EXCEPT !.err = ""]
             ELSE Chunked(by, off, n)

(* safealloc.go                                                            *)
readDataFrom(p, n) == IF n < Chunk THEN ReadFull(p, n) ELSE ReadData(p, n)

readDataAt(n, off) == IF n < Chunk THEN ReadAt(n, off) ELSE ReadDataAt(AtOffset, n, off)

(* checkReadCount for a reader that knows how much it has left ("len"),    *)
(* the MachoReader, which is probed for the last byte ("macho"), and any   *)
(* other; TRUE lets the read go on.                                        *)
checkReadCount(kind, p, count, elemSize) ==
    \/ count = 0 \/ elemSize = 0
    \/ /\ count <= MaxInt \div elemSize
       /\ LET total == count * elemSize
          IN  CASE kind = "len" -> total <= FileLen - Smaller(p, FileLen)
                [] kind = "macho" -> \/ total <= Probe
                                     \/ /\ p <= MaxInt - total
                                        /\ Len(ReadAt(1, p + total - 1).data) = 1
                [] OTHER -> TRUE

readDataAtAddr(n, address) ==
    IF n < Chunk THEN ReadAtAddr(n, address) ELSE ReadDataAt(AtAddress(address), n, 0)

-----------------------------------------------------------------------------
(* newSectionReader: where the bytes of a section come from, n of them at  *)
(* off within it; the io.SectionReader around it bounds them by the size.  *)
(* Zero-fill sections, which read as zeros, are left out.                  *)
sectionData(s, off, n) ==
    IF s.size > MaxInt THEN [data |-> <<>>, err |-> "size"]
    ELSE IF s.addr = 0 \/ s.seg = "__DWARF" THEN ReadAt(n, s.offset + off)
    ELSE addrReaderAt(s.addr, n, off)

-----------------------------------------------------------------------------
(* Pointer slots.  What the other parts would say of a slot is in s:       *)
(* resolver, the caller's PointerResolver; fixups, whether the file has    *)
(* chained fixups, fix, what GetFixupAtOffset finds, and the base bind; by *)
(* value and by address, whether a bind or rebase of LC_DYLD_INFO claims   *)
(* it; custom, whether the caller converts addresses.  Answers are named   *)
(* by where they come from.                                                *)
resolvePointerAtAddress(s) ==
    CASE s.resolver = "fails" -> "error" [] s.resolver = "knows" -> "resolved" [] OTHER -> "no"

resolveChainedFixupAtOffset(s) ==
    CASE s.fix = "none" -> "no"
      [] s.fix = "rebase" -> "rebased"
      [] s.fix = "self" -> "symbol"
      [] s.fix = "bind" -> "raw"
      [] OTHER -> "error"

convertPointerWithoutChainedFixups(s) ==
    CASE s.value = 0 -> "zero"
      [] s.value # 0 /\ s.byValue -> "dyldinfo"
      [] s.value # 0 /\ ~s.byValue /\ s.custom -> "converted"
      [] OTHER -> "value"

vmaConvert(s) ==
    CASE s.custom -> "converted" [] ~s.custom -> "local"

First(answers) ==
    LET said == {i \in DOMAIN answers : answers[i] # "no"} IN answers[Min(said)]

Readable(off) == ReadAt(1, off).err = ""

GetPointer(s, offset) ==
    IF ~Readable(offset) THEN "unreadable"
    ELSE First(<< IF getVMAddress(offset) = Outside THEN "no" ELSE resolvePointerAtAddress(s),
                  IF s.fixups THEN resolveChainedFixupAtOffset(s) ELSE "no",
                  IF s.fixups THEN convertPointerWithoutChainedFixups(s) ELSE vmaConvert(s) >>)

(* Mutant: the chains are asked before the caller's resolver.              *)
GetPointerAtAddressChainsFirst(s, address) ==
    IF ReadAtAddr(1, address).err # "" THEN "unreadable"
    ELSE First(<< IF s.fixups THEN resolveChainedFixupAtOffset(s) ELSE "no",
                  resolvePointerAtAddress(s),
                  IF s.fixups THEN convertPointerWithoutChainedFixups(s) ELSE vmaConvert(s) >>)

GetPointerAtAddress(s, address) ==
    IF ReadAtAddr(1, address).err # "" THEN "unreadable"
    ELSE First(<< resolvePointerAtAddress(s),
                  IF s.fixups THEN resolveChainedFixupAtOffset(s) ELSE "no",
                  IF s.fixups /\ s.byAddress THEN "dyldinfoAt" ELSE "no",
                  IF s.fixups THEN convertPointerWithoutChainedFixups(s) ELSE vmaConvert(s) >>)

-----------------------------------------------------------------------------
(* Public calls.  newReader gives each a clone of the shared reader, with  *)
(* a position of its own, at the beginning.                                *)
Call(op, want, n, by, got) == [op |-> op, want |-> want, n |-> n, by |-> by, got |-> got]

ReadersInit ==
    /\ pos = [c \in Calls \cup {"cr"} |-> 0]
    /\ call = [c \in Calls |-> Call("idle", 0, 0, Outside, Nothing(0, ""))]

(* Mutant: calls move the position of the shared reader.                   *)
cloneReaderShared(c) == "cr"

cloneReader(c) == c

newReader(c) ==
    /\ call[c].op \in {"idle", "done"}
    /\ pos' = [pos EXCEPT ![cloneReader(c)] = 0]
    /\ call' = [call EXCEPT ![c] = Call("open", 0, 0, Outside, Nothing(0, ""))]

SeekToAddr(c, a) ==
    LET off == getOffset(a)
    IN  /\ call[c].op = "open"
        /\ IF off = Outside \/ Signed(off) < 0
           THEN /\ call' = [call EXCEPT ![c] =
                                Call("done", Outside, 0, Outside, Nothing(0, "address"))]
                /\ UNCHANGED pos
           ELSE /\ call' = [call EXCEPT ![c] = Call("sought", off, 0, Outside, Nothing(0, ""))]
                /\ pos' = [pos EXCEPT ![cloneReader(c)] = off]

(* The count is checked, then its elements are read in one piece.          *)
ReadElements(c, count, elemSize) ==
    LET p == pos[cloneReader(c)]
        n == count * elemSize
        r == IF checkReadCount("macho", p, count, elemSize) THEN readDataFrom(p, n)
             ELSE Nothing(p, "UnexpectedEOF")
    IN  /\ call[c].op = "sought"
        /\ call' = [call EXCEPT ![c] = Call("done", call[c].want, n, Outside, r)]
        /\ pos' = [pos EXCEPT ![cloneReader(c)] = r.pos]

(* Reads that use no cursor.                                               *)
ReadHere(c, a, n) ==
    LET r == readDataAtAddr(n, a)
    IN  /\ call[c].op = "open"
        /\ call' = [call EXCEPT ![c] =
                        Call("done", getOffset(a), n, a,
                             [data |-> r.data, err |-> r.err, pos |-> getOffset(a) + n])]
        /\ UNCHANGED pos

(* Section.ReadAt, within the section.                                     *)
ReadSection(c, s, off, n) ==
    LET r == sectionData(s, off, n)
    IN  /\ call[c].op = "open"
        /\ off < s.size
        /\ off + n <= s.size
        /\ call' = [call EXCEPT ![c] =
                        Call("done", s.offset + off, n, Outside,
                             [data |-> r.data, err |-> r.err, pos |-> s.offset + off + n])]
        /\ UNCHANGED pos

ReadersNext ==
    \E c \in Calls :
        \/ newReader(c)
        \/ \E a \in Addresses : SeekToAddr(c, a)
        \/ \E count \in Counts, e \in ElemSizes : ReadElements(c, count, e)
        \/ \E a \in Addresses, n \in Counts : ReadHere(c, a, n)
        \/ \E s \in SectionHeaders, off \in 0 .. 1, n \in Counts : ReadSection(c, s, off, n)

ReadersSpec == ReadersInit /\ [][ReadersNext]_readerVars

-----------------------------------------------------------------------------
(* A machine that can address the file and a byte more.                    *)
MachineSizes ==
    /\ Wrap \in Nat /\ FileLen \in Nat /\ FileLen < MaxInt
    /\ Chunk \in Nat \ {0} /\ Probe \in Nat
    /\ Addresses \subseteq Nat /\ Counts \subseteq Nat /\ ElemSizes \subseteq Nat
    /\ "cr" \notin Calls

(* SegmentHeaders stay inside the addresses and the file offsets there are, and  *)
(* lie apart in both.                                                      *)
Apart(a, b, from, length) ==
    a[from] + a[length] <= b[from] \/ b[from] + b[length] <= a[from]

SegmentsLieApart ==
    /\ SegmentHeaders \in Seq([addr: Nat, memsz: Nat, offset: Nat, filesz: Nat])
    /\ \A i \in DOMAIN SegmentHeaders :
          /\ SegmentHeaders[i].addr + SegmentHeaders[i].memsz < Wrap
          /\ SegmentHeaders[i].offset + SegmentHeaders[i].memsz <= MaxInt
          /\ SegmentHeaders[i].filesz <= SegmentHeaders[i].memsz
    /\ \A i, j \in DOMAIN SegmentHeaders : i # j =>
          /\ Apart(SegmentHeaders[i], SegmentHeaders[j], "addr", "memsz")
          /\ Apart(SegmentHeaders[i], SegmentHeaders[j], "offset", "filesz")

(* A section read by its address lies in one segment, at the offset it has *)
(* itself.                                                                 *)
SectionsLieInSegments ==
    \A s \in SectionHeaders :
        /\ s.size \in Nat /\ s.addr \in Nat /\ s.offset \in Nat
        /\ s.offset + s.size <= MaxInt
        /\ (s.addr # 0 /\ s.seg # "__DWARF") =>
              \E i \in DOMAIN SegmentHeaders :
                 /\ s.addr >= SegmentHeaders[i].addr
                 /\ s.addr + s.size <= SegmentHeaders[i].addr + SegmentHeaders[i].memsz
                 /\ s.offset - SegmentHeaders[i].offset = s.addr - SegmentHeaders[i].addr

-----------------------------------------------------------------------------
(* Chunks of a read by address convert their own addresses, one read does  *)
(* not, so the two agree only while they stay in one segment.              *)
OneSegment(k) ==
    k.by = Outside \/ \E i \in DOMAIN SegmentHeaders :
        k.by >= SegmentHeaders[i].addr /\ k.by + k.n <= SegmentHeaders[i].addr + SegmentHeaders[i].memsz

(* A call gets the bytes at the address it sought, exactly when the file   *)
(* has them all, whatever other calls read meanwhile and whether its bytes *)
(* were read in one piece, in chunks or after a probe (safealloc.go: the   *)
(* helpers answer as make and one read would).                             *)
ReadsAreOnesOwn ==
    \A c \in Calls :
        LET k == call[c]
        IN  k.op = "done" /\ k.want # Outside /\ OneSegment(k) =>
               IF k.n = 0 \/ k.want + k.n <= FileLen
               THEN k.got = [data |-> Bytes(k.want, k.n), err |-> "", pos |-> k.want + k.n]
               ELSE k.got.err # ""

InFile(a) == \E i \in DOMAIN SegmentHeaders : Fits(a, SegmentHeaders[i].addr, SegmentHeaders[i].filesz)

(* A slot in the file part of a segment holds the same pointer by offset   *)
(* and by address, unless LC_DYLD_INFO claims the address itself, which    *)
(* only GetPointerAtAddress asks.                                          *)
PointersAgree ==
    \A c \in Calls : call[c].op = "sought" =>
        \A s \in Pointers : \A a \in Addresses :
            call[c].want = getOffset(a) /\ InFile(a) /\ ~s.byAddress =>
                /\ getVMAddress(getOffset(a)) = a
                /\ GetPointer(s, getOffset(a)) = GetPointerAtAddress(s, a)
=============================================================================
