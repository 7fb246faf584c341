---------------------------- MODULE DyldOpcodes -----------------------------
(***************************************************************************)
(* The machines that run the opcodes of LC_DYLD_INFO(_ONLY): parseRebase   *)
(* for the rebase stream, parseBinds for the bind, weak and lazy streams,  *)
(* with the threaded chains of the original arm64e format (file.go).       *)
(*                                                                         *)
(* The stream is arbitrary: each action is one opcode with any operands,   *)
(* and may come next at any time.  The loops inside opcodes run one round  *)
(* per step, since a round appends a fixup and may still fail.  A call     *)
(* that ends drops its locals.  Names, flags, addends and sections are     *)
(* left out: they are copied and decide nothing.  The two machines have    *)
(* the same kind of locals and share the variables; no call runs both.     *)
(***************************************************************************)
EXTENDS Integers, Sequences

CONSTANTS
    MaxU64,         \* the largest machine word, 2^w - 1
    PointerSize,    \* f.pointerSize(); eight bytes on arm64e
    TextWidth,      \* the width of a text relocation, four bytes
    Segments,       \* sequence of [addr, memsz, filesz, offset]
    Dylibs,         \* number of imported libraries
    Arm64e,         \* "yes" or "no"
    Word,           \* [readable file offsets -> [next, ordinal]]; -1: rebase
    Operands,       \* ULEB operands
    Immediates,     \* immediates, within 0 .. 15
    MaxTable,       \* the largest ordinal table, 65535
    MaxFixups       \* bound on the fixups of a stream

MaxInt64 == MaxU64 \div 2

ASSUME MachineAssumption ==
    /\ MaxU64 \in Nat
    /\ PointerSize \in Nat \ {0} /\ TextWidth \in Nat \ {0}
    /\ Dylibs \in Nat /\ MaxTable \in Nat /\ MaxFixups \in Nat
    /\ Operands \subseteq 0 .. MaxU64
    /\ Immediates \subseteq 0 .. 15
ASSUME SegmentsAssumption ==
    Segments \in Seq([addr: 0 .. MaxU64, memsz: 0 .. MaxU64,
                      filesz: 0 .. MaxU64, offset: 0 .. MaxU64])
ASSUME WordAssumption ==
    \A o \in DOMAIN Word : Word[o].next \in Nat /\ Word[o].ordinal \in Nat \cup {-1}

VARIABLES
    kind,       \* "rebase", "bind", "weak" or "lazy"
    pc,         \* "fetch", in a loop "repeat", "times" or "apply", "done", "error"
    binds,      \* sequence of [tag, segment, offset, ordinal, type]
    rebases,    \* rebases, or threadedRebases: sequence of [segment, offset, width]
    table,      \* ordinalTable, of which the ordinals matter
    tableSize,  \* ordinalTableSize
    threaded,   \* "yes" once the table was declared: useThreadedRebaseBind
    have,       \* which of symbol, ordinal and segment are set
    ordinal,    \* libraryOrdinal
    type,       \* bind.Type or rebase.Type
    segment,    \* SegmentIndex, from 1
    segOffset,  \* segOffset or rebase.Offset
    left,       \* rounds left of a repeat loop
    advance,    \* bytes per round of a repeat loop
    steps       \* rounds of the threaded loop

fixups == <<binds, rebases>>
tables == <<table, tableSize, threaded>>
target == <<ordinal, type>>
loop == <<left, advance, steps>>
vars == <<kind, pc, fixups, tables, have, target, segment, segOffset, loop>>

WeakLookup == -3        \* BIND_SPECIAL_DYLIB_WEAK_LOOKUP
PointerType == 1        \* BIND_TYPE_POINTER, REBASE_TYPE_POINTER
KnownTypes == 1 .. 3
ThreadedBind == 100     \* BIND_TYPE_THREADED_BIND

InitialHave == IF kind = "weak" THEN {"ordinal"} ELSE {}
InitialOrdinal == IF kind = "weak" THEN WeakLookup ELSE 0
InitialType == IF kind = "rebase" THEN 0 ELSE PointerType

Init ==
    /\ kind \in {"rebase", "bind", "weak", "lazy"}
    /\ pc = "fetch"
    /\ binds = <<>> /\ rebases = <<>>
    /\ table = <<>> /\ tableSize = 0 /\ threaded = "no"
    /\ have = InitialHave /\ ordinal = InitialOrdinal /\ type = InitialType
    /\ segment = 1 /\ segOffset = 0
    /\ left = 0 /\ advance = 0 /\ steps = 0

-----------------------------------------------------------------------------
DropLocals ==
    /\ table' = <<>> /\ tableSize' = 0 /\ threaded' = "no"
    /\ have' = InitialHave /\ ordinal' = InitialOrdinal /\ type' = InitialType
    /\ segment' = 1 /\ segOffset' = 0 /\ left' = 0 /\ advance' = 0 /\ steps' = 0
    /\ kind' = kind

Fail == pc' = "error" /\ binds' = <<>> /\ rebases' = <<>> /\ DropLocals

Finish == pc' = "done" /\ UNCHANGED fixups /\ DropLocals

Fetch(kinds) == pc = "fetch" /\ kind \in kinds

Streams == {"rebase", "bind", "weak", "lazy"}
BindStreams == {"bind", "weak", "lazy"}
EagerStreams == {"bind", "weak"}    \* where the opcodes of lazy streams end

(* MaxFixups bounds the lists; the code has no such limit.                 *)
Room(n) == Len(binds) + Len(rebases) + n <= MaxFixups

(* A bind or rebase that is part of a segment.                             *)
segmentForBind == "segment" \in have /\ segment <= Len(Segments)

At == Segments[segment]

(* checkedAdvance, of both machines. *)
MayAdvance(delta) == delta <= MaxU64 - segOffset

MoveTo(off) ==
    /\ segOffset' = off
    /\ UNCHANGED <<kind, pc, fixups, tables, have, target, segment, loop>>

-----------------------------------------------------------------------------
(* What both machines do alike.                                            *)

(* The end of the stream, or DONE where it ends one; in a rebase stream at *)
(* most 15 bytes may follow it.                                            *)
EndOfStream == Fetch(Streams) /\ Finish

(* An operand that is cut off or too long, an opcode or subopcode that is  *)
(* not known, DONE too early in a rebase stream.                           *)
BadOpcode == Fetch(Streams) /\ Fail

SetSegmentAndOffset(imm, off) ==
    /\ Fetch(Streams)
    /\ \/ /\ imm < Len(Segments)
          /\ segment' = imm + 1
          /\ segOffset' = off
          /\ have' = have \cup {"segment"}
          /\ UNCHANGED <<kind, pc, fixups, tables, target, loop>>
       \/ imm >= Len(Segments) /\ Fail

SetType(imm) ==
    /\ Fetch(Streams)
    /\ \/ /\ kind # "lazy"
          /\ type' = imm
          /\ UNCHANGED <<kind, pc, fixups, tables, have, ordinal, segment, segOffset, loop>>
       \/ kind = "lazy" /\ Fail

-----------------------------------------------------------------------------
(* parseBinds.  The checks of the code, in its words.                      *)

validateBindTarget ==
    /\ {"symbol", "ordinal"} \subseteq have
    /\ ordinal <= Dylibs
    /\ ordinal >= WeakLookup
    /\ type \in KnownTypes

Fits(off) == PointerSize <= At.memsz /\ off <= At.memsz - PointerSize

(* Mutant: the address may wrap.                                           *)
validateBindOffset == Fits(segOffset)

validateBindLocation == Fits(segOffset) /\ At.addr <= MaxU64 - segOffset

OrdinaryBindOK == validateBindTarget /\ segmentForBind /\ validateBindLocation

OrdinaryBind ==
    [tag |-> "ordinary", segment |-> segment, offset |-> segOffset,
     ordinal |-> ordinal, type |-> type]

(* Where checkedAddressULEBAdvance takes the offset: addition modulo 2^w,  *)
(* forward below 2^(w-1) and backward from there on.                       *)
AddULEB(delta) == (segOffset + delta) % (MaxU64 + 1)

checkedAddressULEBAdvance(delta) ==
    /\ segmentForBind
    /\ IF delta <= MaxInt64 THEN AddULEB(delta) >= segOffset ELSE AddULEB(delta) <= segOffset
    /\ Fits(AddULEB(delta))

Set(o) ==
    /\ ordinal' = o
    /\ have' = have \cup {"ordinal"}
    /\ UNCHANGED <<kind, pc, fixups, tables, type, segment, segOffset, loop>>

(* BIND_OPCODE_SET_DYLIB_ORDINAL_IMM and _ULEB. *)
SetDylibOrdinal(o) ==
    /\ Fetch(BindStreams)
    /\ \/ kind # "weak" /\ o <= MaxInt64 /\ Set(o)
       \/ (kind = "weak" \/ o > MaxInt64) /\ Fail

(* Mutant: a weak stream may name a library.                               *)
SetDylibSpecialAnywhere(imm) ==
    Fetch(BindStreams) /\ Set(IF imm = 0 THEN 0 ELSE imm - 16)

(* BIND_OPCODE_SET_DYLIB_SPECIAL_IMM: the immediate with its sign.         *)
SetDylibSpecial(imm) ==
    /\ Fetch(BindStreams)
    /\ \/ kind # "weak" /\ Set(IF imm = 0 THEN 0 ELSE imm - 16)
       \/ kind = "weak" /\ Fail

SetSymbol ==
    /\ Fetch(BindStreams)
    /\ have' = have \cup {"symbol"}
    /\ UNCHANGED <<kind, pc, fixups, tables, target, segment, segOffset, loop>>

AddAddr(delta) ==
    /\ Fetch(BindStreams)
    /\ \/ kind # "lazy" /\ checkedAddressULEBAdvance(delta) /\ MoveTo(AddULEB(delta))
       \/ (kind = "lazy" \/ ~checkedAddressULEBAdvance(delta)) /\ Fail

(* appendOrdinaryBind followed by checkedAdvance. *)
BindAndAdvance(delta) ==
    \/ /\ OrdinaryBindOK /\ MayAdvance(delta)
       /\ binds' = Append(binds, OrdinaryBind)
       /\ segOffset' = segOffset + delta
       /\ UNCHANGED <<kind, pc, rebases, tables, have, target, segment, loop>>
    \/ ~(OrdinaryBindOK /\ MayAdvance(delta)) /\ Fail

(* BIND_OPCODE_DO_BIND once the ordinal table was declared. *)
TableEntryOK == validateBindTarget /\ type = PointerType /\ Len(table) < tableSize

AddToTable ==
    \/ /\ TableEntryOK
       /\ table' = Append(table, ordinal)
       /\ UNCHANGED <<kind, pc, fixups, tableSize, threaded, have, target, segment,
                      segOffset, loop>>
    \/ ~TableEntryOK /\ Fail

DoBind ==
    /\ Fetch(BindStreams) /\ Room(1)
    /\ \/ threaded = "yes" /\ AddToTable
       \/ threaded = "no" /\ BindAndAdvance(PointerSize)

DoBindAddAddr(off) ==
    /\ Fetch(BindStreams) /\ Room(1)
    /\ \/ kind # "lazy" /\ off <= MaxU64 - PointerSize /\ BindAndAdvance(off + PointerSize)
       \/ (kind = "lazy" \/ off > MaxU64 - PointerSize) /\ Fail

DoBindAddAddrImmScaled(imm) ==
    /\ Fetch(BindStreams) /\ Room(1)
    /\ \/ kind # "lazy" /\ BindAndAdvance((imm + 1) * PointerSize)
       \/ kind = "lazy" /\ Fail

(* Mutant: what is left of the segment is rounded up.                      *)
largerCount(size, width, adv) == (size - width - segOffset + adv - 1) \div adv + 1

(* How many fixups of this width fit into size, one every adv bytes.       *)
maxCount(size, width, adv) == (size - width - segOffset) \div adv + 1

BindTimesOK(count, skip) ==
    /\ skip <= MaxU64 - PointerSize
    /\ OrdinaryBindOK
    /\ count <= maxCount(At.memsz, PointerSize, skip + PointerSize)

Repeat(count, adv) ==
    /\ Room(count)
    /\ pc' = "repeat" /\ left' = count /\ advance' = adv /\ steps' = steps
    /\ UNCHANGED <<kind, fixups, tables, have, target, segment, segOffset>>

(* BIND_OPCODE_DO_BIND_ULEB_TIMES_SKIPPING_ULEB checks the whole run and   *)
(* then appends one bind per round.  A count of zero does nothing.         *)
DoBindTimesSkipping(count, skip) ==
    /\ Fetch(BindStreams) /\ count # 0
    /\ \/ kind # "lazy" /\ BindTimesOK(count, skip) /\ Repeat(count, skip + PointerSize)
       \/ (kind = "lazy" \/ ~BindTimesOK(count, skip)) /\ Fail

(* The end of a round of a repeat loop. *)
NextRound ==
    /\ segOffset' = segOffset + advance
    /\ left' = left - 1
    /\ pc' = IF left = 1 THEN "fetch" ELSE pc
    /\ advance' = IF left = 1 THEN 0 ELSE advance
    /\ UNCHANGED <<kind, tables, have, target, segment, steps>>

BindRound ==
    /\ pc = "repeat" /\ kind # "rebase"
    /\ \/ /\ OrdinaryBindOK /\ MayAdvance(advance)
          /\ binds' = Append(binds, OrdinaryBind) /\ rebases' = rebases
          /\ NextRound
       \/ ~(OrdinaryBindOK /\ MayAdvance(advance)) /\ Fail

-----------------------------------------------------------------------------
(* BIND_OPCODE_THREADED.                                                   *)
SetTableSize(n) ==
    /\ Fetch(BindStreams)
    /\ \/ /\ kind = "bind" /\ n <= MaxTable
          /\ table' = <<>> /\ tableSize' = n /\ threaded' = "yes"
          /\ UNCHANGED <<kind, pc, fixups, have, target, segment, segOffset, loop>>
       \/ (kind # "bind" \/ n > MaxTable) /\ Fail

ApplyOK == kind = "bind" /\ threaded = "yes" /\ Arm64e = "yes" /\ segmentForBind

Apply ==
    /\ Fetch(BindStreams)
    /\ \/ /\ ApplyOK
          /\ pc' = "apply" /\ steps' = 0
          /\ UNCHANGED <<kind, fixups, tables, have, target, segment, segOffset, left, advance>>
       \/ ~ApplyOK /\ Fail

FileBacked(width) == width <= At.filesz /\ segOffset <= At.filesz - width

(* Mutant: the last slot of the segment is not counted.                    *)
AllSlotsTaken == steps >= At.filesz \div PointerSize - 1

TooManySteps == steps > At.filesz \div PointerSize

FileOffset == At.offset + segOffset

Readable ==
    /\ At.offset <= MaxU64 - segOffset
    /\ FileOffset <= MaxInt64
    /\ At.addr <= MaxU64 - segOffset
    /\ FileOffset \in DOMAIN Word

LinkOK ==
    /\ FileBacked(PointerSize) /\ ~TooManySteps /\ Readable
    /\ Word[FileOffset].ordinal < Len(table)
    /\ Word[FileOffset].next * PointerSize <= MaxU64 - segOffset

(* A word of the chain: a rebase, or a bind through the ordinal table.     *)
Link(w) ==
    \/ /\ w.ordinal = -1
       /\ rebases' = Append(rebases,
              [segment |-> segment, offset |-> segOffset, width |-> PointerSize])
       /\ binds' = binds
    \/ /\ w.ordinal # -1
       /\ binds' = Append(binds,
              [tag |-> "threaded", segment |-> segment, offset |-> segOffset,
               ordinal |-> table[w.ordinal + 1], type |-> ThreadedBind])
       /\ rebases' = rebases

ApplyRound ==
    /\ pc = "apply" /\ Room(1)
    /\ \/ /\ LinkOK
          /\ Link(Word[FileOffset])
          /\ segOffset' = segOffset + Word[FileOffset].next * PointerSize
          /\ pc' = IF Word[FileOffset].next = 0 THEN "fetch" ELSE "apply"
          /\ steps' = IF Word[FileOffset].next = 0 THEN 0 ELSE steps + 1
          /\ UNCHANGED <<kind, tables, have, target, segment, left, advance>>
       \/ ~LinkOK /\ Fail

(* A rebase whose target does not decode.                                  *)
ApplyFails == pc = "apply" /\ Fail

-----------------------------------------------------------------------------
(* parseRebase.                                                            *)

(* classicRebaseSegmentAndWidth *)
rebaseWidth == IF type = PointerType THEN PointerSize ELSE TextWidth

RebaseInSegment == segmentForBind /\ type \in KnownTypes /\ FileBacked(rebaseWidth)

(* readClassicRebaseTarget and appendRebase. *)
RebaseOK == RebaseInSegment /\ Readable

Rebase == [segment |-> segment, offset |-> segOffset, width |-> rebaseWidth]

RebaseAddAddr(delta) ==
    /\ Fetch({"rebase"})
    /\ \/ MayAdvance(delta) /\ MoveTo(segOffset + delta)
       \/ ~MayAdvance(delta) /\ Fail

RebaseAddAddrImmScaled(imm) == RebaseAddAddr(imm * PointerSize)

DoRebaseImmTimes(imm) ==
    /\ Fetch({"rebase"}) /\ imm # 0 /\ Room(imm)
    /\ pc' = "times" /\ left' = imm /\ advance' = PointerSize /\ steps' = steps
    /\ UNCHANGED <<kind, fixups, tables, have, target, segment, segOffset>>

DoRebaseAddAddr(off) ==
    /\ Fetch({"rebase"}) /\ Room(1)
    /\ LET delta == off + PointerSize
           ok    == RebaseOK /\ off <= MaxU64 - PointerSize /\ MayAdvance(delta)
       IN  \/ /\ ok
              /\ rebases' = Append(rebases, Rebase)
              /\ segOffset' = segOffset + delta
              /\ UNCHANGED <<kind, pc, binds, tables, have, target, segment, loop>>
           \/ ~ok /\ Fail

(* maxRepeatCount *)
RebaseTimesOK(count, skip) ==
    /\ skip <= MaxU64 - PointerSize
    /\ RebaseInSegment
    /\ count <= maxCount(At.filesz, rebaseWidth, skip + PointerSize)

(* REBASE_OPCODE_DO_REBASE_ULEB_TIMES, which skips nothing, and            *)
(* REBASE_OPCODE_DO_REBASE_ULEB_TIMES_SKIPPING_ULEB.                       *)
DoRebaseTimesSkipping(count, skip) ==
    /\ Fetch({"rebase"}) /\ count # 0
    /\ \/ RebaseTimesOK(count, skip) /\ Repeat(count, skip + PointerSize)
       \/ ~RebaseTimesOK(count, skip) /\ Fail

RebaseRound ==
    /\ pc \in {"repeat", "times"} /\ kind = "rebase"
    /\ \/ /\ RebaseOK /\ MayAdvance(advance)
          /\ rebases' = Append(rebases, Rebase) /\ binds' = binds
          /\ NextRound
       \/ ~(RebaseOK /\ MayAdvance(advance)) /\ Fail

-----------------------------------------------------------------------------
Next ==
    \/ EndOfStream
    \/ BadOpcode
    \/ \E i \in Immediates, o \in Operands : SetSegmentAndOffset(i, o)
    \/ \E i \in Immediates : SetType(i)
    \/ \E o \in Operands : SetDylibOrdinal(o)
    \/ \E i \in Immediates : SetDylibSpecial(i)
    \/ SetSymbol
    \/ \E d \in Operands : AddAddr(d)
    \/ DoBind
    \/ \E o \in Operands : DoBindAddAddr(o)
    \/ \E i \in Immediates : DoBindAddAddrImmScaled(i)
    \/ \E c, s \in Operands : DoBindTimesSkipping(c, s)
    \/ BindRound
    \/ \E n \in Operands : SetTableSize(n)
    \/ Apply
    \/ ApplyRound
    \/ ApplyFails
    \/ \E d \in Operands : RebaseAddAddr(d)
    \/ \E i \in Immediates : RebaseAddAddrImmScaled(i)
    \/ \E i \in Immediates : DoRebaseImmTimes(i)
    \/ \E o \in Operands : DoRebaseAddAddr(o)
    \/ \E c, s \in Operands : DoRebaseTimesSkipping(c, s)
    \/ RebaseRound

Spec == Init /\ [][Next]_vars

-----------------------------------------------------------------------------
(* Every fixup of a parsed stream lies in the segment it names: a bind of  *)
(* an ordinary stream within the segment's memory, a rebase or a threaded  *)
(* bind, whose word is read from the file, within its bytes in the file,   *)
(* and no address wraps.                                                   *)
Inside(f, width, size) ==
    /\ f.segment \in DOMAIN Segments
    /\ f.offset + width <= size
    /\ Segments[f.segment].addr + f.offset <= MaxU64

FixupsLieInSegments ==
    /\ \A i \in DOMAIN binds :
          Inside(binds[i], PointerSize,
                 IF binds[i].tag = "ordinary" THEN Segments[binds[i].segment].memsz
                                              ELSE Segments[binds[i].segment].filesz)
    /\ \A i \in DOMAIN rebases :
          Inside(rebases[i], rebases[i].width, Segments[rebases[i].segment].filesz)

(* Every bind has a library dyld can look in, also the binds that got      *)
(* theirs through the ordinal table; a weak stream never names one, a lazy *)
(* stream binds pointers, and only the bind stream has threaded binds.     *)
BindsCanBeResolved ==
    \A i \in DOMAIN binds :
        /\ binds[i].ordinal \in WeakLookup .. Dylibs
        /\ kind = "weak" => binds[i].ordinal = WeakLookup
        /\ kind = "lazy" => binds[i].type = PointerType
        /\ binds[i].tag = "threaded" => kind = "bind"

(* The bound on the count of a repeat is exact: a count passes it just     *)
(* when the last fixup it asks for lies in the segment, and no round of a  *)
(* loop that runs leaves it, whatever was done in the rounds before.       *)
LastOf(count, adv) == segOffset + (count - 1) * adv

RepeatsAreCheckedExactly ==
    /\ (pc = "repeat" /\ kind # "rebase") =>
          LastOf(left, advance) + PointerSize <= At.memsz
    /\ (pc = "repeat" /\ kind = "rebase") =>
          LastOf(left, advance) + rebaseWidth <= At.filesz
    /\ \A c \in Operands \ {0}, s \in Operands :
          LET last == LastOf(c, s + PointerSize)
          IN  s <= MaxU64 - PointerSize =>
                /\ Fetch(EagerStreams) /\ OrdinaryBindOK
                      => (BindTimesOK(c, s) <=> last + PointerSize <= At.memsz)
                /\ Fetch({"rebase"}) /\ RebaseInSegment
                      => (RebaseTimesOK(c, s) <=> last + rebaseWidth <= At.filesz)

(* BIND_OPCODE_ADD_ADDR_ULEB adds a signed distance: it is refused exactly *)
(* when the place it names is outside the segment, however the unsigned    *)
(* sum wraps.                                                              *)
Signed(d) == IF d <= MaxInt64 THEN d ELSE d - (MaxU64 + 1)

AddressDeltasAreSigned ==
    Fetch(EagerStreams) /\ segmentForBind =>
        \A d \in 0 .. MaxU64 :
            LET to == segOffset + Signed(d)
            IN  /\ checkedAddressULEBAdvance(d) <=> to \in 0 .. At.memsz - PointerSize
                /\ checkedAddressULEBAdvance(d) => AddULEB(d) = to

(* The bounds of the offsets that opcodes add up are exact: they neither   *)
(* refuse a place in the segment nor let one outside it pass.              *)
OffsetBoundsAreExact == RepeatsAreCheckedExactly /\ AddressDeltasAreSigned

(* The limit on the length of a threaded chain refuses no chain that stays *)
(* in its segment, since links only go forward.                            *)
ChainLimitNeverBites == pc = "apply" /\ FileBacked(PointerSize) => ~TooManySteps
=============================================================================
