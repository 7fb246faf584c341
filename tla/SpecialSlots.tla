---------------------------- MODULE SpecialSlots ----------------------------
(***************************************************************************)
(* Making a signature (pkg/codesign/codesign.go, Sign): the components of  *)
(* a Config are hashed into the special slots of a CodeDirectory and       *)
(* written behind it; File.CodeSign (export.go) fills in what the caller   *)
(* left nil from the signature the file has.                               *)
(*                                                                         *)
(* A payload is Nil, empty or one of Payloads.  A hash is [alg, size, of]: *)
(* of the bytes `of`, cut to size; alg 0 is a hash of zeros and size 0 no  *)
(* hash at all.  Sign changes the Config it is given, up to the step that  *)
(* fails; CodeSign works on a clone and hands it back on success.          *)
(***************************************************************************)
EXTENDS CodeSignatures

CONSTANTS
    Payloads,       \* contents of components
    Lengths,        \* their lengths, and the lengths of identifiers
    Configs,        \* what callers start with
    Changed, Fresh, \* the payloads and Configs callers change to
    FileInfos,      \* Info.plists embedded in __TEXT, Nil for none
    MaxEdits,       \* bound on the changes callers make to a Config
    MaxSigns,       \* bound on signings
    MaxLength,      \* 2^32 - 1
    CodeSize, PageBits

VARIABLES
    config,         \* the caller's Config
    fileInfo,       \* the Info.plist of the file
    last,           \* a signing just made: [by, ok, request]
    edits, signs

slotVars == <<sig, read, parsed, config, fileInfo, last, edits, signs>>

Nil == "nil"
Empty == ""
Absent == "absent"
Unsupported == 14    \* a slot that no raw component can have
Has(payload) == payload \in Payloads

-----------------------------------------------------------------------------
(* Hashes.                                                                 *)

Sha1 == 1
Sha256 == 2
Truncated == 3
Sha384 == 4
DigestSize == <<20, 32, 20, 48>>

Of(magic, data) == [magic |-> magic, data |-> data]
Digest(type, size, of) ==
    [alg |-> IF type = Truncated THEN Sha256 ELSE type, size |-> size, of |-> of]
Hash(of) == Digest(Sha256, 32, of)
ZeroHash(size) == [alg |-> 0, size |-> size, of |-> Of("", "")]
EmptySlot == ZeroHash(32)
NoHash == ZeroHash(0)
EmptyReqSlot == Hash(Of("requirements", "empty"))

isBound(hash) == hash.size > 0 /\ hash.alg # 0

(* The hash recorded for a slot, by index or, in a list without indexes,   *)
(* by position from the end.                                               *)
specialSlotHash(slots, i) ==
    LET found == {k \in DOMAIN slots : slots[k].index = i}
        at == Len(slots) - i + 1
    IN  IF found # {} THEN slots[Min(found)].hash
        ELSE IF i \in 1 .. Len(slots) THEN IF slots[at].index = 0 THEN slots[at].hash ELSE NoHash
        ELSE NoHash

previousUsesSHA256(c, hash) ==
    IF c.hashType = 0 THEN hash.size = 32
    ELSE /\ c.hashType = Sha256
         /\ c.hashSize \in {0, 32}
         /\ hash.size = 32

(* The digest of a component as the previous directory would have it;      *)
(* NoHash when it cannot be computed.                                      *)
previousSpecialSlotDigest(c, of, previous) ==
    LET type ==
          IF c.hashType # 0 THEN c.hashType
          ELSE CASE previous.size = 20 -> Sha1
                 [] previous.size = 32 -> Sha256
                 [] previous.size = 48 -> Sha384
                 [] previous.size \notin {20, 32, 48} -> 0
        size ==
          IF c.hashType = 0 THEN previous.size
          ELSE IF c.hashSize # 0 THEN c.hashSize
          ELSE IF type \in 1 .. 4 THEN DigestSize[type] ELSE 0
        full == IF type = Truncated THEN 32 ELSE DigestSize[type]
    IN  IF type \notin 1 .. 4 \/ size # previous.size THEN NoHash
        ELSE IF size > full THEN NoHash ELSE Digest(type, size, of)

verifyPrevious(c, i, of) ==
    LET previous == specialSlotHash(c.slots, i)
    IN  isBound(previous) => previousSpecialSlotDigest(c, of, previous) = previous

(* The last slot up to the limit that stays bound without its component:   *)
(* requirements and entitlements never do.                                 *)
maxBoundSpecialSlot(c, limit) ==
    LET index(k) == IF c.slots[k].index = 0 THEN Len(c.slots) - k + 1 ELSE c.slots[k].index
    IN  Max({0} \cup
            {i \in {index(k) : k \in {k \in DOMAIN c.slots :
                        isBound(c.slots[k].hash) /\ previousUsesSHA256(c, c.slots[k].hash)}} :
               i \notin {2, 5} /\ i <= limit})

configuredSpecialSlotHash(c, i) ==
    LET previous == specialSlotHash(c.slots, i)
        hash == IF i > 11 THEN NoHash
                ELSE IF i \in {1, 3, 4, 6} /\ ~isBound(c.hashes[i]) /\ isBound(previous)
                        /\ previousUsesSHA256(c, previous)
                THEN previous ELSE c.hashes[i]
    IN  IF hash.size = 0 THEN EmptySlot ELSE hash

InitSlotHashes == [i \in 1 .. 11 |-> IF i = 2 THEN EmptyReqSlot ELSE EmptySlot]

-----------------------------------------------------------------------------
(* Sign, step by step on the Config; err says that a step failed.          *)

AtLeast(c, n) == [c EXCEPT !.n = Max({c.n, n})]

RequirementsOf(c) == Of("requirements", IF c.adhoc \/ c.id = Empty THEN "empty" ELSE c.id)

Cleared(c) ==
    [c EXCEPT !.hashes[2] = IF c.adhoc THEN @ ELSE Hash(RequirementsOf(c)),
              !.hashes[5] = IF Has(c.native[5]) THEN @ ELSE EmptySlot,
              !.hashes[7] = IF Has(c.native[7]) THEN @ ELSE EmptySlot,
              !.n = Max({2, maxBoundSpecialSlot(c, 6)})]

(* A raw component of slot 1 to 6 must agree with the hash that was set    *)
(* and the one that was there before.                                      *)
RawComponent(c, i) ==
    LET hash == Hash(Of("", c.raw[i]))
    IN  IF c.err \/ c.raw[i] = Absent \/ i > 6 THEN c
        ELSE IF \/ isBound(c.hashes[i]) /\ c.hashes[i] # hash
                \/ ~verifyPrevious(c, i, Of("", c.raw[i]))
        THEN [c EXCEPT !.err = TRUE]
        ELSE AtLeast([c EXCEPT !.hashes[i] = hash], i)

RawComponents(c) ==
    LET done == FoldLeft(RawComponent, c, <<1, 3, 4, 6>>)
    IN  IF c.raw[Unsupported] # Absent THEN [done EXCEPT !.err = TRUE] ELSE done

NativeOf(c, i) == Of(MagicOf(i), c.native[i])

Native(c, i) ==
    IF c.err \/ ~Has(c.native[i]) THEN c
    ELSE LET hashed == AtLeast([c EXCEPT !.hashes[i] = Hash(NativeOf(c, i))], i)
         IN  IF verifyPrevious(c, i, NativeOf(c, i)) THEN hashed ELSE [hashed EXCEPT !.err = TRUE]

(* A signature with entitlements and no DER has no slot 7, and slot 6 only *)
(* when it was bound before.                                               *)
Entitlements(c) ==
    LET plist == Native(c, 5)
    IN  IF plist.err \/ Has(c.native[7]) THEN Native(plist, 7)
        ELSE IF Has(c.native[5]) THEN [plist EXCEPT !.n = Max({5, maxBoundSpecialSlot(plist, 6)})]
        ELSE plist

(* Mutant: the hash of a constraint that is no longer there stays.         *)
ConstraintKept(c, i) ==
    IF c.err \/ Has(c.native[i]) THEN Native(c, i) ELSE c

Constraint(c, i) ==
    IF c.err \/ Has(c.native[i]) THEN Native(c, i) ELSE [c EXCEPT !.hashes[i] = EmptySlot]

Constraints(c) == FoldLeft(Constraint, c, <<8, 9, 10, 11>>)

InfoPlist(c) ==
    LET of == Of("", c.plist)
    IN  IF c.err \/ c.plist = Nil THEN c
        ELSE IF \/ isBound(c.hashes[1]) /\ c.hashes[1] # Hash(of)
                \/ ~verifyPrevious(c, 1, of)
        THEN [c EXCEPT !.err = TRUE]
        ELSE [c EXCEPT !.hashes[1] = Hash(of)]

(* Slots 3, 4 and 6 that nobody set keep the previous hash.                *)
Kept(c) ==
    LET keeps(i) == /\ c.hashes[i] = EmptySlot
                    /\ specialSlotHash(c.slots, i).size > 0
                    /\ previousUsesSHA256(c, specialSlotHash(c.slots, i))
    IN  IF c.err THEN c
        ELSE [c EXCEPT !.hashes = [i \in 1 .. 11 |->
                 IF i \in {3, 4, 6} /\ keeps(i) THEN specialSlotHash(c.slots, i) ELSE c.hashes[i]]]

Slots(c) == [k \in 1 .. c.n |-> configuredSpecialSlotHash(c, k)]

(* createCodeDirectory refuses a slot that is not 32 bytes long.           *)
Checked(c) ==
    IF c.err \/ \A k \in 1 .. c.n : Slots(c)[k].size = 32 THEN c ELSE [c EXCEPT !.err = TRUE]

Prepared(c) == Checked(Kept(InfoPlist(Constraints(Entitlements(RawComponents(Cleared(c)))))))

-----------------------------------------------------------------------------
(* createCodeDirectory: version 6 (SUPPORTS_RUNTIME), the identifiers, the *)
(* special slots from the last to the first, the pages.  The offsets are   *)
(* computed for the newest header and moved by what it has more.           *)

codeSlotCount == (CodeSize + 2 ^ PageBits - 1) \div 2 ^ PageBits

createCodeDirectory(c) ==
    LET team == IF c.team = Empty THEN 0 ELSE Lengths[c.team] + 1
        delta == HeaderLength(7) - HeaderLength(6)
        ident == HeaderLength(7) - delta
        teamAt == IF team = 0 THEN 0 ELSE HeaderLength(7) + Lengths[c.id] + 1 - delta
        hashAt == HeaderLength(7) + Lengths[c.id] + 1 + team + 32 * c.n - delta
        written == HeaderLength(6) + Lengths[c.id] + 1 + team     \* where the hashes start
    IN  [ magic |-> "codedirectory", version |-> 6,
          length |-> written + 32 * (c.n + codeSlotCount),
          limit |-> CodeSize, limit64 |-> 0, ident |-> ident, team |-> teamAt, scatter |-> 0,
          scatterAt |-> <<>>, hashOffset |-> hashAt, hashSize |-> 32, hashType |-> Sha256,
          nSpecial |-> c.n, nCode |-> codeSlotCount, pageBits |-> PageBits, pre |-> 0,
          linkType |-> 0, linkOffset |-> 0, linkSize |-> 0,
          nuls |-> {HeaderLength(6) + Lengths[c.id]} \cup (IF team = 0 THEN {} ELSE {written - 1}),
          hashes |-> [p \in {written + 32 * j : j \in 0 .. c.n - 1} |->
                        Slots(c)[c.n - (p - written) \div 32]],
          names |-> <<c.id, c.team>> ]

NewBlob(magic, data) ==
    [magic |-> magic, length |-> BlobHeader + Lengths[data], data |-> data]

RequirementsBlob(c) ==
    LET of == RequirementsOf(c)
        length == IF of.data = "empty" THEN 12 ELSE 12 + 8 + 12 + 4 * (2 + (Lengths[c.id] + 3) \div 4)
    IN  [ magic |-> "requirements", length |-> length, data |-> of.data,
          entries |-> IF of.data = "empty" THEN <<>> ELSE <<[type |-> 3, offset |-> 20]>>,
          inner |-> [o \in {20} |-> [magic |-> "requirement", length |-> length - 20, kind |-> 1,
                                     good |-> TRUE]] ]

Entry(slot, blob) == [slot |-> slot, blob |-> blob]

ComponentBlob(c, i) ==
    IF i \in DOMAIN c.native THEN NewBlob(MagicOf(i), c.native[i]) ELSE NewBlob("wrapper", c.raw[i])

(* The blobs in the order they are added. *)
Blobs(c) ==
    LET native == SelectSeq(<<5, 7, 8, 9, 10, 11>>, LAMBDA i : Has(c.native[i]))
        raw    == SelectSeq(<<1, 3, 4, 6, 12, 13>>, LAMBDA i : c.raw[i] # Absent)
        given  == native \o raw
    IN  <<Entry(CodeDirectorySlot, createCodeDirectory(c)), Entry(RequirementsSlot, RequirementsBlob(c))>>
          \o [k \in DOMAIN given |-> Entry(given[k], ComponentBlob(c, given[k]))]
          \o <<Entry(CMSSlot, NewBlob("wrapper", Empty))>>

(* SuperBlob.Write: one blob behind the other. *)
Write(bs) ==
    LET Put(s, e) ==
          LET end == s.length + e.blob.length
          IN  [s EXCEPT !.size = end, !.length = end,
                        !.index = Append(@, [type |-> e.slot, offset |-> s.length]),
                        !.blobs = @ @@ (s.length :> e.blob)]
        start == SuperHeader + IndexSize * Len(bs)
    IN  FoldLeft(Put, [size |-> start, magic |-> "embedded", length |-> start, index |-> <<>>,
                       blobs |-> <<>>], bs)

-----------------------------------------------------------------------------
(* CodeSign's import of what the caller left nil.                          *)

Primary(p) == p.ok /\ p.directories # <<>>
PayloadAt(s, p, slot) == IF slot \in DOMAIN p.parts THEN s.blobs[p.parts[slot]].data ELSE Absent
SlotHash(s, p, k) ==
    LET d == p.directories[1]
    IN  IF k <= Len(d.special) THEN s.blobs[d.offset].hashes[d.special[k]] ELSE NoHash

(* The special slots as parsed, from the last to the first. *)
ParsedSlots(s, p) ==
    LET n == Len(p.directories[1].special)
    IN  [j \in 1 .. n |-> [index |-> n - j + 1, hash |-> SlotHash(s, p, n - j + 1)]]

(* Mutant: the component for disk images is not carried over.              *)
ImportedRawBundle(c, s, p, i) ==
    IF c.raw[i] = Absent /\ i \in {1, 3, 4} THEN PayloadAt(s, p, i) ELSE c.raw[i]

ImportedRaw(c, s, p, i) ==
    IF c.raw[i] = Absent /\ i \in {1, 3, 4, 6} THEN PayloadAt(s, p, i) ELSE c.raw[i]

Imported(c, s, p) ==
    LET names == s.blobs[p.directories[1].offset].names
        native(i) ==
          IF c.native[i] # Nil THEN c.native[i]
          ELSE IF PayloadAt(s, p, i) # Absent THEN PayloadAt(s, p, i)
          ELSE IF i = 5 THEN Empty ELSE Nil
    IN  IF ~Primary(p) THEN c
        ELSE [c EXCEPT !.id = IF @ = Empty THEN names[1] ELSE @,
                       !.team = IF @ = Empty THEN names[2] ELSE @,
                       !.native = [i \in NativeSlots |-> native(i)],
                       !.raw = [i \in DOMAIN c.raw |-> ImportedRaw(c, s, p, i)],
                       !.slots = IF c.given THEN @ ELSE ParsedSlots(s, p),
                       !.given = TRUE,
                       !.hashType = IF c.given THEN @ ELSE p.directories[1].hashType,
                       !.hashSize = IF c.given THEN @ ELSE p.directories[1].hashSize]

(* The clone CodeSign works on: fresh slot hashes, the Info.plist of the   *)
(* file, a resource hash of the caller, then the import.                   *)
Working(c, s, p) ==
    LET base == [c EXCEPT !.hashes = [InitSlotHashes EXCEPT ![3] = IF c.resource = NoHash THEN @ ELSE c.resource],
                          !.plist = IF fileInfo # Nil THEN fileInfo ELSE @]
    IN  Imported(base, s, p)

-----------------------------------------------------------------------------
NotSigned == [by |-> "nobody", ok |-> FALSE, request |-> 0]

SlotsInit ==
    /\ sig \in Signatures /\ read = sig /\ parsed = ParseCodeSignature(sig)
    /\ config \in Configs
    /\ fileInfo \in FileInfos
    /\ last = NotSigned /\ edits = 0 /\ signs = 0

(* Sign with a config c: what it leaves in the config, and the signature   *)
(* when the code can be read and the signer does not fail.                 *)
Emit(d, made, by) ==
    \/ /\ ~d.err /\ made.length <= MaxLength
       /\ sig' = made
       /\ config' = d
       /\ last' = [by |-> by, ok |-> TRUE, request |-> config]
    \/ /\ UNCHANGED sig
       /\ config' = IF by = "CodeSign" THEN config ELSE [d EXCEPT !.err = FALSE]
       /\ last' = NotSigned

Sealed(d, by) == Emit(d, Write(Blobs(d)), by)
SignWith(c, by) == Sealed(Prepared(c), by)

Signing ==
    /\ signs < MaxSigns
    /\ signs' = signs + 1
    /\ UNCHANGED <<read, parsed, fileInfo, edits>>

Sign == Signing /\ SignWith(config, "Sign")

CodeSign ==
    /\ Signing
    /\ sig.index = <<>> => config.id # Empty
    /\ SignWith(Working(config, read, parsed), "CodeSign")

(* The file is opened again. *)
Reopen ==
    /\ ReadSignature
    /\ last' = NotSigned
    /\ UNCHANGED <<config, fileInfo, edits, signs>>

(* A caller changes a field, forgets the previous slots, initialises the   *)
(* hashes, or starts with another Config.                                  *)
Edited ==
    {[config EXCEPT !.native[i] = p] : i \in NativeSlots, p \in Changed \cup {Nil, Empty}}
      \cup {[config EXCEPT !.raw[i] = p] : i \in DOMAIN config.raw, p \in Changed \cup {Absent}}
      \cup {[config EXCEPT !.adhoc = ~@], [config EXCEPT !.hashes = InitSlotHashes]}
      \cup {[config EXCEPT !.slots = <<>>, !.given = FALSE, !.hashType = 0, !.hashSize = 0]}
      \cup Fresh

Edit ==
    /\ edits < MaxEdits
    /\ edits' = edits + 1
    /\ config' \in Edited
    /\ last' = NotSigned
    /\ UNCHANGED <<sig, read, parsed, fileInfo, signs>>

SlotsNext == Sign \/ CodeSign \/ Reopen \/ Edit

SlotsSpec == SlotsInit /\ [][SlotsNext]_slotVars

-----------------------------------------------------------------------------
(* The directory of a signature made, for the config it was made with.     *)
Names(d) ==
    LET at == HeaderLength(6)
    IN  /\ d.id = <<at, at + Lengths[config.id]>>
        /\ config.team # Empty => d.team = <<d.id[2] + 1, d.id[2] + 1 + Lengths[config.team]>>
        /\ Len(d.code) = codeSlotCount

BoundIn(made, boundTo) ==
    /\ \A i \in NativeSlots :
          IF Has(config.native[i])
          THEN /\ PayloadAt(sig, made, i) = config.native[i]
               /\ boundTo[i] = Hash(NativeOf(config, i))
          ELSE PayloadAt(sig, made, i) = Absent /\ ~isBound(boundTo[i])
    /\ \A i \in RawSlots :
          /\ PayloadAt(sig, made, i) = config.raw[i]
          /\ i <= 6 /\ config.raw[i] # Absent =>
                \/ boundTo[i] = Hash(Of("", config.raw[i]))
                \/ i = 6 /\ Has(config.native[5]) /\ ~Has(config.native[7])
    /\ config.plist # Nil => boundTo[1] = Hash(Of("", config.plist))
    /\ last.by = "CodeSign" =>
          boundTo[2] = Hash(Of("requirements", sig.blobs[made.requirements].data))

SlotHashes(s, p) == [k \in 1 .. 11 |-> SlotHash(s, p, k)]

(* A signature this package makes is one it reads, with the identifiers    *)
(* and components of the config, however often the config was used before. *)
(* A slot of an embedded component is bound exactly when the component is  *)
(* there, to its hash; so are raw components and the Info.plist.  (Slot 6  *)
(* of a signature with entitlements and no DER is EmbeddedComponentsAreBound.) *)
SignedComponentsAreBound ==
    LET Sound(made) ==
          Primary(made) /\ Names(made.directories[1]) /\ BoundIn(made, SlotHashes(sig, made))
    IN  last.ok => Sound(ParseCodeSignature(sig))

(* c was signed over a signature that was read with the given hashes.      *)
KeptFrom(c, made, boundTo, before) ==
    LET same(i) ==
          LET old == PayloadAt(read, parsed, i)
          IN  PayloadAt(sig, made, i) = (IF old = Empty /\ i \in NativeSlots THEN Absent ELSE old)
    IN  /\ c.id = Empty => config.id = read.blobs[parsed.directories[1].offset].names[1]
        /\ \A i \in NativeSlots : c.native[i] = Nil => same(i)
        /\ \A i \in {1, 3, 4, 6} :
              /\ c.raw[i] = Absent => same(i)
              /\ ~c.given /\ c.resource = NoHash /\ parsed.directories[1].hashType = Sha256
                   /\ isBound(before[i]) => boundTo[i] = before[i]

(* Signing a file again keeps what the caller did not set: identifiers,    *)
(* components, and the hashes of slots bound outside the signature.        *)
SigningAgainKeepsComponents ==
    LET Keeps(made) ==
          KeptFrom(last.request, made, SlotHashes(sig, made), SlotHashes(read, parsed))
    IN  last.ok /\ last.by = "CodeSign" /\ Primary(parsed) => Keeps(ParseCodeSignature(sig))

(* "slot 6 raw component to remain": every raw component embedded in a     *)
(* signature is bound by the CodeDirectory, as the tests of Sign expect    *)
(* for each of the slots 1, 3, 4 and 6.                                    *)
EmbeddedComponentsAreBound ==
    LET Bound(made) ==
          \A i \in {1, 3, 4, 6} \cap DOMAIN made.parts :
              SlotHash(sig, made, i) = Hash(Of("", PayloadAt(sig, made, i)))
    IN  last.ok => Bound(ParseCodeSignature(sig))
=============================================================================
