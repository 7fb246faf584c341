--------------------------- MODULE CodeSignatures ---------------------------
(***************************************************************************)
(* Reading the data of LC_CODE_SIGNATURE (pkg/codesign/codesign.go): the   *)
(* SuperBlob and its index, the blob of each slot, the requirements vector *)
(* and the CodeDirectory with its hash slots.                              *)
(*                                                                         *)
(* Offsets, lengths and sizes are in bytes.  A signature is                *)
(*   [size, magic, length, index, blobs]                                   *)
(* with the blobs by their offsets; whatever is not a blob reads as one of *)
(* no known magic.  Strings are given by where their NULs are, hashes by   *)
(* where they start.                                                       *)
(***************************************************************************)
EXTENDS Naturals, Sequences, SequencesExt, FiniteSetsExt

CONSTANTS
    Signatures,         \* the data of LC_CODE_SIGNATURE
    ParseBudget,        \* requirementParseBudget
    MaxUint             \* largest uint64 of the model

(* What bytes can say: every field is a number, and any may be wrong.      *)
DirectoryFields(cd) ==
    /\ {cd.version, cd.limit, cd.limit64, cd.ident, cd.team, cd.scatter, cd.hashOffset, cd.hashSize,
        cd.nSpecial, cd.nCode, cd.pageBits, cd.pre, cd.linkType, cd.linkOffset, cd.linkSize} \subseteq Nat
    /\ cd.nuls \subseteq Nat
    /\ \A at \in DOMAIN cd.scatterAt :
          {cd.scatterAt[at].count, cd.scatterAt[at].base, cd.scatterAt[at].target} \subseteq Nat

IsSignature(s) ==
    /\ s = [size |-> s.size, magic |-> s.magic, length |-> s.length, index |-> s.index,
            blobs |-> s.blobs]
    /\ s.size \in Nat /\ s.length \in Nat
    /\ s.index \in Seq([type: Nat, offset: Nat])
    /\ \A at \in DOMAIN s.blobs :
          /\ s.blobs[at].length \in Nat
          /\ s.blobs[at].magic = "codedirectory" => DirectoryFields(s.blobs[at])

ASSUME SignaturesAssumption == \A s \in Signatures : IsSignature(s)

VARIABLES
    sig,        \* the data in the file
    read,       \* the data that was read when the file was opened
    parsed      \* what ParseCodeSignature made of it

(* Slots, CSSLOT_*.  The alternates are 0x1000 up, here 20 up. *)
CodeDirectorySlot == 0
RequirementsSlot == 2
EntitlementsSlot == 5
DERSlot == 7
ConstraintSlots == 8 .. 11
RawSlots == {1, 3, 4, 6, 12, 13}     \* 12: identification, 13: ticket
Alternates == 20 .. 24
CMSSlot == 30
NativeSlots == {EntitlementsSlot, DERSlot} \cup ConstraintSlots
PayloadSlots == NativeSlots \cup RawSlots \cup {CMSSlot}
KnownSlots == PayloadSlots \cup {CodeDirectorySlot, RequirementsSlot} \cup Alternates

MagicOf(slot) ==
    CASE slot = CodeDirectorySlot \/ slot \in Alternates -> "codedirectory"
      [] slot = EntitlementsSlot -> "entitlements"
      [] slot = DERSlot -> "entitlements der"
      [] slot \in ConstraintSlots -> "constraint"
      [] slot \in RawSlots \cup {CMSSlot} -> "wrapper"

SuperHeader == 12
BlobHeader == 8
IndexSize == 8

IndexEnd(s) == SuperHeader + IndexSize * Len(s.index)

NoBlob == [magic |-> "other", length |-> 0]
BlobAt(s, offset) == IF offset \in DOMAIN s.blobs THEN s.blobs[offset] ELSE NoBlob

-----------------------------------------------------------------------------
(* The requirements vector.  An outer blob has count entries [type,        *)
(* offset]; an inner one is [magic, length, kind, good], good when         *)
(* ParseRequirements accepts its expression.  A lone requirement is its    *)
(* own inner blob, at offset 0.                                            *)

RequirementsHeader == 12

innerOK(slot, offset) ==
    /\ offset + RequirementsHeader <= slot.length
    /\ offset \in DOMAIN slot.inner
    /\ LET inner == slot.inner[offset]
       IN  /\ inner.magic = "requirement"
           /\ inner.length >= RequirementsHeader
           /\ offset + inner.length <= slot.length
           /\ \/ inner.kind = 1 /\ inner.length >= RequirementsHeader + 4 /\ inner.good
              \/ inner.kind = 2

(* The bytes that the first n entries make the reader parse.  Entries that *)
(* are not blobs are refused before they are counted.                      *)
parsedBytes(slot, n) ==
    FoldSeq(LAMBDA e, sum : sum + slot.inner[e.offset].length, 0, SubSeq(slot.entries, 1, n))

parseRequirementsSlot(slot, offset, length) ==
    LET end == RequirementsHeader + IndexSize * Len(slot.entries)
    IN  /\ offset + RequirementsHeader <= length
        /\ slot.magic \in {"requirement", "requirements"}
        /\ slot.length >= RequirementsHeader
        /\ offset + slot.length <= length
        /\ IF slot.magic = "requirement" THEN innerOK(slot, 0)
           ELSE /\ end <= slot.length
                /\ \A i \in DOMAIN slot.entries :
                      /\ slot.entries[i].offset >= end
                      /\ innerOK(slot, slot.entries[i].offset)
                      /\ parsedBytes(slot, i) <= Max({slot.length, ParseBudget})

-----------------------------------------------------------------------------
(* The CodeDirectory.  Versions are numbered 1 (EARLIEST_VERSION), 2       *)
(* (SUPPORTS_SCATTER) to 7 (SUPPORTS_LINKAGE); 0 is older than the first   *)
(* and 8 beyond COMPATIBILITY_LIMIT.                                       *)

(* The header of each version, from magic to its last field.               *)
HeaderLength(version) == <<44, 48, 52, 64, 88, 96, 108>>[version]

ScatterSize == 24

span(cd, start, size) == start <= cd.length /\ size <= cd.length - start
interiorSpan(cd, start, size) == start >= BlobHeader /\ span(cd, start, size)

(* Where the string at an offset ends: at its first NUL. *)
Ends(cd, at) == {n \in cd.nuls : n >= at /\ n < cd.length}
cstringOK(cd, at) == at = 0 \/ Ends(cd, at) # {}
cstringAt(cd, at) == IF at = 0 THEN <<0, 0>> ELSE <<at, Min(Ends(cd, at))>>

CodeLimit(cd) == IF cd.version >= 4 /\ cd.limit64 > 0 THEN cd.limit64 ELSE cd.limit

(* The scatter vector up to its sentinel, as the pages it gives to the     *)
(* first code slots; Refused when it leaves the blob or takes more pages   *)
(* than there are code slots.  A page is that of an entry's base, a number *)
(* of pages into it; no vector begins inside an entry.                     *)
Page(page, target, at) == [page |-> page, target |-> target, at |-> at]
Refused == <<Page(0, 0, 1)>>
Sentinel == [count |-> 0, base |-> 0, target |-> 0]

pagesOf(entry) == [k \in 1 .. entry.count |-> Page(entry.base + k - 1, entry.target, k - 1)]
scatterEntry(cd, at) == IF at \in DOMAIN cd.scatterAt THEN cd.scatterAt[at] ELSE Sentinel

Cursors == [at: Nat, consumed: Nat]
Behind(c, entry) == [at |-> c.at + ScatterSize, consumed |-> c.consumed + entry.count]

scatterVector(cd) ==
    LET vector[c \in Cursors] ==
          LET entry == scatterEntry(cd, c.at)
              more == vector[Behind(c, entry)]
          IN  IF ~interiorSpan(cd, c.at, ScatterSize) THEN Refused
              ELSE IF entry.count = 0 THEN <<>>
              ELSE IF c.consumed + entry.count > cd.nCode THEN Refused
              ELSE IF more = Refused THEN Refused ELSE pagesOf(entry) \o more
    IN  vector

scatterPages(cd) ==
    IF cd.version >= 2 /\ cd.scatter > 0
    THEN scatterVector(cd)[[at |-> cd.scatter, consumed |-> 0]] ELSE <<>>

(* 1 << pageBits. *)
pageSize[bits \in Nat] == IF bits = 0 THEN 1 ELSE 2 * pageSize[bits - 1]

hashSlotsOK(cd) ==
    /\ cd.nSpecial + cd.nCode > 0 => cd.hashSize > 0
    /\ cd.hashOffset >= cd.nSpecial * cd.hashSize
    /\ interiorSpan(cd, cd.hashOffset - cd.nSpecial * cd.hashSize,
                    (cd.nSpecial + cd.nCode) * cd.hashSize)

preEncryptOK(cd) ==
    cd.version >= 6 /\ cd.pre > 0 => interiorSpan(cd, cd.pre, cd.nCode * cd.hashSize)

linkageOK(cd) ==
    cd.version >= 7 /\ cd.linkType # 0 => interiorSpan(cd, cd.linkOffset, cd.linkSize)

(* Mutant: a limit at the end of a page counts the page after it. *)
coversLimitAnd(cd) ==
    IF cd.pageBits = 0 THEN (CodeLimit(cd) > 0) = (cd.nCode # 0)
    ELSE CodeLimit(cd) > 0 /\ CodeLimit(cd) \div pageSize[cd.pageBits] + 1 = cd.nCode

coversLimit(cd) ==
    IF cd.pageBits = 0 THEN (CodeLimit(cd) > 0) = (cd.nCode # 0)
    ELSE CodeLimit(cd) > 0 /\ (CodeLimit(cd) - 1) \div pageSize[cd.pageBits] + 1 = cd.nCode

(* The address of a page and its target, in bytes. *)
PageAt(p, size) == p.page * size
TargetAt(p, size) == p.target + p.at * size

CodeSlot(hash, page, target, mapped) ==
    [hash |-> hash, page |-> page, target |-> target, mapped |-> mapped]

codeSlot(cd, pages, i) ==
    LET size == pageSize[cd.pageBits]
        hash == cd.hashOffset + (i - 1) * cd.hashSize
    IN  IF pages = <<>> THEN CodeSlot(hash, (i - 1) * size, 0, FALSE)
        ELSE IF i <= Len(pages)
        THEN CodeSlot(hash, PageAt(pages[i], size), TargetAt(pages[i], size), TRUE)
        ELSE CodeSlot(hash, 0, 0, FALSE)

(* What parseCodeDirectory accepts, in the order of its checks.            *)
directoryOK(cd, offset, length) ==
    /\ offset + BlobHeader <= length
    /\ cd.magic = "codedirectory"
    /\ cd.length >= HeaderLength(1)
    /\ offset + cd.length <= length
    /\ cd.version \in 1 .. 7
    /\ HeaderLength(cd.version) <= cd.length
    /\ cstringOK(cd, cd.ident)
    /\ cd.version >= 3 => cstringOK(cd, cd.team)
    /\ scatterPages(cd) # Refused
    /\ hashSlotsOK(cd) /\ preEncryptOK(cd) /\ linkageOK(cd)
    /\ cd.pageBits < 64
    /\ coversLimit(cd)
    /\ LET size == pageSize[cd.pageBits]
       IN  \A p \in ToSet(scatterPages(cd)) : PageAt(p, size) <= MaxUint /\ TargetAt(p, size) <= MaxUint

parseCodeDirectory(cd, slot, offset) ==
    LET pages == scatterPages(cd)
    IN  [ slot |-> slot, offset |-> offset, length |-> cd.length,
          id |-> cstringAt(cd, cd.ident),
          team |-> IF cd.version >= 3 THEN cstringAt(cd, cd.team) ELSE <<0, 0>>,
          limit |-> CodeLimit(cd), pageBits |-> cd.pageBits, hashType |-> cd.hashType,
          hashSize |-> cd.hashSize,
          special |-> [k \in 1 .. cd.nSpecial |-> cd.hashOffset - k * cd.hashSize],
          code |-> [i \in 1 .. cd.nCode |-> codeSlot(cd, pages, i)],
          scattered |-> pages # <<>>,
          pre |-> IF cd.version >= 6 /\ cd.pre > 0
                  THEN [i \in 1 .. cd.nCode |-> cd.pre + (i - 1) * cd.hashSize] ELSE <<>> ]

-----------------------------------------------------------------------------
(* ParseCodeSignature.                                                     *)

superBlobOK(s) ==
    /\ s.size >= SuperHeader
    /\ s.magic \in {"embedded", "embedded old"}
    /\ s.length >= SuperHeader /\ s.length <= s.size
    /\ IndexEnd(s) <= s.length

(* Every entry is checked, also the duplicate and the unknown ones.        *)
indexOK(s) ==
    \A i \in DOMAIN s.index :
        LET offset == s.index[i].offset
        IN  offset = 0 \/ ( /\ offset >= IndexEnd(s)
                            /\ offset + BlobHeader <= s.length
                            /\ offset + BlobAt(s, offset).length <= s.length )

firstEntries(s) ==
    {i \in DOMAIN s.index : \A j \in 1 .. i - 1 : s.index[j].type # s.index[i].type}

used(s) == {i \in firstEntries(s) : s.index[i].offset # 0}

entryOK(s, entry) ==
    LET blob == BlobAt(s, entry.offset)
    IN  /\ entry.type \in {CodeDirectorySlot} \cup Alternates => directoryOK(blob, entry.offset, s.length)
        /\ entry.type = RequirementsSlot => parseRequirementsSlot(blob, entry.offset, s.length)
        /\ entry.type \in PayloadSlots => blob.magic = MagicOf(entry.type) /\ blob.length >= BlobHeader

Accepted(s) ==
    /\ superBlobOK(s)
    /\ indexOK(s)
    /\ \A i \in used(s) : entryOK(s, s.index[i])

(* The primary directory comes first, the others in the order of the       *)
(* index.                                                                  *)
directory(s, i) ==
    parseCodeDirectory(BlobAt(s, s.index[i].offset), s.index[i].type, s.index[i].offset)

directories(s, taken) ==
    LET found[n \in 0 .. Len(s.index)] ==
          IF n = 0 THEN <<>>
          ELSE IF n \notin taken THEN found[n - 1]
          ELSE IF s.index[n].type = CodeDirectorySlot THEN <<directory(s, n)>> \o found[n - 1]
          ELSE IF s.index[n].type \in Alternates THEN Append(found[n - 1], directory(s, n))
          ELSE found[n - 1]
    IN  found[Len(s.index)]

Nothing == [ok |-> FALSE, directories |-> <<>>, parts |-> <<>>, requirements |-> 0]

(* parts gives the offset of the blob each payload is taken from.          *)
contents(s, taken) ==
    LET types == {s.index[i].type : i \in taken}
        at(t) == s.index[CHOOSE i \in taken : s.index[i].type = t].offset
    IN  [ ok |-> TRUE, directories |-> directories(s, taken),
          parts |-> [t \in types \cap PayloadSlots |-> at(t)],
          requirements |-> IF RequirementsSlot \in types THEN at(RequirementsSlot) ELSE 0 ]

ParseCodeSignature(s) == IF Accepted(s) THEN contents(s, used(s)) ELSE Nothing

-----------------------------------------------------------------------------
ReadSignature ==
    /\ parsed' = ParseCodeSignature(sig)
    /\ read' = sig
    /\ UNCHANGED sig

SignatureInit == sig \in Signatures /\ read = sig /\ parsed = Nothing

SignatureSpec == SignatureInit /\ [][ReadSignature]_<<sig, read, parsed>>

-----------------------------------------------------------------------------
(* The range of the blob that the hashes of slots in use take.             *)
HashSpans(d) ==
    {<<d.special[k], d.special[k] + d.hashSize>> : k \in DOMAIN d.special}
      \cup {<<d.code[i].hash, d.code[i].hash + d.hashSize>> : i \in DOMAIN d.code}

DirectoryIsSound(d) ==
    /\ d.offset + d.length <= read.length
    /\ \A h \in HashSpans(d) :
          /\ h[1] >= BlobHeader /\ h[2] <= d.length
          /\ \A g \in HashSpans(d) : h = g \/ h[2] <= g[1] \/ g[2] <= h[1]
    /\ Cardinality(HashSpans(d)) = Len(d.special) + Len(d.code)
    /\ \A k \in DOMAIN d.pre : d.pre[k] >= BlobHeader /\ d.pre[k] + d.hashSize <= d.length
    /\ \A t \in {d.id, d.team} : t[2] < d.length
    /\ LET size == pageSize[d.pageBits]
       IN  ~d.scattered /\ d.pageBits > 0 =>
             \A b \in 0 .. d.limit + size :
                 Cardinality({i \in DOMAIN d.code : d.code[i].page <= b /\ b < d.code[i].page + size})
                   = (IF b \div size <= (d.limit - 1) \div size THEN 1 ELSE 0)
    /\ d.scattered => \A i, j \in DOMAIN d.code : i < j /\ d.code[j].mapped => d.code[i].mapped

(* What is taken from a signature lies in it, behind its index, whatever   *)
(* its offsets and lengths: no hash slot overlaps another, and the code    *)
(* slots cover every page below the signing limit exactly once and none    *)
(* above.  A later entry for a slot changes nothing: the first one is used *)
(* for every type, and the primary CodeDirectory comes first.              *)
ParsedSignaturesAreSound ==
    parsed.ok =>
      /\ read.length <= read.size
      /\ \A i \in DOMAIN parsed.directories :
            /\ DirectoryIsSound(parsed.directories[i])
            /\ parsed.directories[i].slot = CodeDirectorySlot => i = 1
      /\ \A t \in DOMAIN parsed.parts :
            /\ parsed.parts[t] >= IndexEnd(read)
            /\ parsed.parts[t] + read.blobs[parsed.parts[t]].length <= read.length
      /\ \A i \in DOMAIN read.index : \A j \in 1 .. i - 1 :
            read.index[i].type = read.index[j].type =>
                parsed = ParseCodeSignature([read EXCEPT !.index[i].type = 99])
=============================================================================
