---------------------------- MODULE ChainFormats ----------------------------
(***************************************************************************)
(* The pointer formats of chained fixups (pkg/fixupchains/types.go) and    *)
(* the functions that take a pointer apart, each with a switch of its own  *)
(* over the formats: the walk of a chain, the decoder of one slot, the     *)
(* ordinal of a bind, the next link, the target of a rebase, the address   *)
(* it resolves to, IsBind and the limit on imports.                        *)
(*                                                                         *)
(* A number of 64 bits is the set of its one bits.  A type of pointer is a *)
(* record of the places <<lowest bit, width>> of its fields.               *)
(***************************************************************************)
EXTENDS Integers, Sequences, FiniteSets, FiniteSetsExt

CONSTANTS
    Raws,           \* the pointers decoded
    Contexts        \* [format, imports, shared, kernel, segment, preferred, slide, starts,
                    \*  maxValid]: a DyldChainedFixups and the arguments of a resolution

VARIABLES dcf, raw, seen
vars == <<dcf, raw, seen>>

PTR_ARM64E == 1
PTR_64 == 2
PTR_32 == 3
PTR_32_CACHE == 4
PTR_32_FIRMWARE == 5
PTR_64_OFFSET == 6
PTR_ARM64E_KERNEL == 7
PTR_64_KERNEL_CACHE == 8
PTR_ARM64E_USERLAND == 9
PTR_ARM64E_FIRMWARE == 10
PTR_X86_64_KERNEL_CACHE == 11
PTR_ARM64E_USERLAND24 == 12
PTR_ARM64E_SHARED_CACHE == 13
PTR_ARM64E_SEGMENTED == 14
PTR_ARM64E_SHARED_CACHE_V3 == 15
PTR_SHARED_CACHE_V2 == 16
Formats == 1 .. 16

-----------------------------------------------------------------------------
(* Arithmetic of 64-bit words.                                             *)
Shifted(w, n) == {i \in {j + n : j \in w} : i \in 0 .. 63}
ExtractBits(w, place) == Shifted(w \cap (place[1] .. place[1] + place[2] - 1), -place[1])
Bit(w, i) == i \in w
Value(w) == SumSet({2 ^ i : i \in w})                \* of words below 2^30
U32(w) == w \cap (0 .. 31)

Less(v, w) == LET d == (v \ w) \cup (w \ v) IN d # {} /\ Max(d) \in w

(* The carry out of the bits below i, as a function computed bit by bit.   *)
Carries(v, w) ==
    LET c[i \in 0 .. 64] ==
            IF i = 0 THEN {}
            ELSE LET below == c[i - 1]
                     in == i - 1 \in below
                 IN  IF (i - 1 \in v /\ i - 1 \in w) \/ (in /\ i - 1 \in v \cup w)
                     THEN below \cup {i} ELSE below
    IN  c[64]
Plus(v, w) ==
    LET c == Carries(v, w)
    IN  {i \in 0 .. 63 : ((i \in v) # (i \in w)) # (i \in c)}
Overflows(v, w) == 64 \in Carries(v, w)
Minus(v, w) == Plus(Plus(v, (0 .. 63) \ w), {0})

-----------------------------------------------------------------------------
(* The types of pointers.                                                  *)
Arm64eRebase ==
    [type |-> "rebase", bits |-> 64, target |-> <<0, 43>>, high8 |-> <<43, 8>>, next |-> <<51, 11>>]
Arm64eBind ==
    [type |-> "bind", bits |-> 64, ordinal |-> <<0, 16>>, addend |-> <<32, 19>>, signed |-> TRUE,
     next |-> <<51, 11>>]
Arm64eAuthRebase ==
    [type |-> "authRebase", bits |-> 64, target |-> <<0, 32>>, diversity |-> <<32, 16>>,
     addrDiv |-> <<48, 1>>, key |-> <<49, 2>>, next |-> <<51, 11>>]
Arm64eAuthBind ==
    [type |-> "authBind", bits |-> 64, ordinal |-> <<0, 16>>, diversity |-> <<32, 16>>,
     addrDiv |-> <<48, 1>>, key |-> <<49, 2>>, next |-> <<51, 11>>]
Ptr64Rebase ==
    [type |-> "rebase", bits |-> 64, target |-> <<0, 36>>, high8 |-> <<36, 8>>, next |-> <<51, 12>>]
Ptr64RebaseOffset ==
    [type |-> "rebaseOffset", bits |-> 64, target |-> <<0, 36>>, high8 |-> <<36, 8>>,
     next |-> <<51, 12>>]
Arm64eBind24 ==
    [type |-> "bind24", bits |-> 64, ordinal |-> <<0, 24>>, addend |-> <<32, 19>>, signed |-> TRUE,
     next |-> <<51, 11>>]
Arm64eAuthBind24 ==
    [type |-> "authBind24", bits |-> 64, ordinal |-> <<0, 24>>, diversity |-> <<32, 16>>,
     addrDiv |-> <<48, 1>>, key |-> <<49, 2>>, next |-> <<51, 11>>]
Ptr64Bind ==
    [type |-> "bind", bits |-> 64, ordinal |-> <<0, 24>>, addend |-> <<24, 8>>, signed |-> FALSE,
     next |-> <<51, 12>>]
KernelCacheRebase ==
    [type |-> "kernel", bits |-> 64, target |-> <<0, 30>>, level |-> <<30, 2>>,
     diversity |-> <<32, 16>>, addrDiv |-> <<48, 1>>, key |-> <<49, 2>>, next |-> <<51, 12>>]
Ptr32Rebase == [type |-> "rebase32", bits |-> 32, target |-> <<0, 26>>, next |-> <<26, 5>>]
Ptr32Bind ==
    [type |-> "bind32", bits |-> 32, ordinal |-> <<0, 20>>, addend |-> <<20, 6>>, signed |-> FALSE,
     next |-> <<26, 5>>]
Ptr32CacheRebase == [type |-> "cache32", bits |-> 32, target |-> <<0, 30>>, next |-> <<30, 2>>]
Ptr32FirmwareRebase ==
    [type |-> "firmware32", bits |-> 32, target |-> <<0, 26>>, next |-> <<26, 6>>]
SharedCacheRebase ==
    [type |-> "shared", bits |-> 64, target |-> <<0, 34>>, high8 |-> <<34, 8>>, next |-> <<52, 11>>]
SharedCacheAuthRebase ==
    [type |-> "sharedAuth", bits |-> 64, target |-> <<0, 34>>, diversity |-> <<34, 16>>,
     addrDiv |-> <<50, 1>>, dataKey |-> <<51, 1>>, next |-> <<52, 11>>]
SegmentedRebase ==
    [type |-> "segmented", bits |-> 64, target |-> <<0, 28>>, segment |-> <<28, 4>>,
     next |-> <<51, 12>>]
AuthSegmentedRebase ==
    [type |-> "authSegmented", bits |-> 64, target |-> <<0, 28>>, segment |-> <<28, 4>>,
     diversity |-> <<32, 16>>, addrDiv |-> <<48, 1>>, key |-> <<49, 2>>, next |-> <<51, 12>>]
SharedCacheV3Rebase ==
    [type |-> "sharedV3", bits |-> 64, target |-> <<0, 43>>, high8 |-> <<43, 8>>, next |-> <<51, 11>>]
SharedCacheV3AuthRebase ==
    [type |-> "sharedV3Auth", bits |-> 64, target |-> <<0, 32>>, diversity |-> <<32, 16>>,
     addrDiv |-> <<48, 1>>, key |-> <<49, 2>>, next |-> <<51, 11>>]
SharedCacheV2Rebase ==
    [type |-> "sharedV2", bits |-> 64, target |-> <<0, 40>>, high8 |-> <<56, 8>>, next |-> <<40, 16>>]

Get(t, x, w) == ExtractBits(IF t.bits = 32 THEN U32(w) ELSE w, t[x])
Target(t, w) == Get(t, "target", w)
UnpackedTarget(t, w) == Shifted(Get(t, "high8", w), 56) \cup Target(t, w)
Next_(t, w) == Value(Get(t, "next", w))
Ordinal(t, w) == Value(Get(t, "ordinal", w))
IsBindType(t) == "ordinal" \in DOMAIN t

(* SignExtendedAddend and SignedAddend, before the import's own addend.    *)
InlineAddend(t, w) ==
    LET v == Get(t, "addend", w)
    IN  IF "addend" \notin DOMAIN t THEN 0
        ELSE IF t.signed /\ t.addend[2] - 1 \in v THEN Value(v) - 2 ^ t.addend[2] ELSE Value(v)

DcpArm64eIsBind(w) == Bit(w, 62)
DcpArm64eIsAuth(w) == Bit(w, 63)
DcpArm64eNext(w) == Value(ExtractBits(w, <<51, 11>>))
Generic64Next(w) == Value(ExtractBits(w, <<51, 12>>))
Generic64IsBind(w) == Bit(w, 63)
Generic32Next(w) == Value(ExtractBits(U32(w), <<26, 5>>))
Generic32IsBind(w) == Bit(w, 31)

-----------------------------------------------------------------------------
(* decodeFixup: the type of the fixup in one slot.                         *)
Arm64eFormats ==
    {PTR_ARM64E, PTR_ARM64E_KERNEL, PTR_ARM64E_USERLAND, PTR_ARM64E_FIRMWARE}
KernelFormats == {PTR_64_KERNEL_CACHE, PTR_X86_64_KERNEL_CACHE}

Pick4(w, rebase, bind, authRebase, authBind) ==
    IF DcpArm64eIsBind(w) THEN IF DcpArm64eIsAuth(w) THEN authBind ELSE bind
    ELSE IF DcpArm64eIsAuth(w) THEN authRebase ELSE rebase
decodeArm64e(format, w) ==
    IF format = PTR_ARM64E_USERLAND24
    THEN Pick4(w, Arm64eRebase, Arm64eBind24, Arm64eAuthRebase, Arm64eAuthBind24)
    ELSE Pick4(w, Arm64eRebase, Arm64eBind, Arm64eAuthRebase, Arm64eAuthBind)
decodeSharedOrSegmented(format, w) ==
    CASE format = PTR_ARM64E_SHARED_CACHE ->
           IF Bit(w, 63) THEN SharedCacheAuthRebase ELSE SharedCacheRebase
      [] format = PTR_ARM64E_SHARED_CACHE_V3 ->
           IF Bit(w, 63) THEN SharedCacheV3AuthRebase ELSE SharedCacheV3Rebase
      [] format = PTR_SHARED_CACHE_V2 -> SharedCacheV2Rebase
      [] format = PTR_ARM64E_SEGMENTED ->
           IF Bit(w, 63) THEN AuthSegmentedRebase ELSE SegmentedRebase

decodeFixup(format, w) ==
    CASE format = PTR_32 -> IF Generic32IsBind(w) THEN Ptr32Bind ELSE Ptr32Rebase
      [] format = PTR_32_CACHE -> Ptr32CacheRebase
      [] format = PTR_32_FIRMWARE -> Ptr32FirmwareRebase
      [] format = PTR_64 -> IF Generic64IsBind(w) THEN Ptr64Bind ELSE Ptr64Rebase
      [] format = PTR_64_OFFSET -> IF Generic64IsBind(w) THEN Ptr64Bind ELSE Ptr64RebaseOffset
      [] format \in KernelFormats -> KernelCacheRebase
      [] format \in Arm64eFormats \cup {PTR_ARM64E_USERLAND24} -> decodeArm64e(format, w)
      [] OTHER -> decodeSharedOrSegmented(format, w)

(* The walk of a chain decodes and finds the next link in the same switch, *)
(* with Generic32Next and its like or the Next of the type it recorded.    *)
walkArm64e(format, w) ==
    [t |-> decodeArm64e(format, w), next |-> DcpArm64eNext(w)]
walkSharedOrSegmented(format, w) ==
    LET t == decodeSharedOrSegmented(format, w) IN [t |-> t, next |-> Next_(t, w)]
walkGeneric(format, w) ==
    CASE format = PTR_32 -> [t |-> IF Generic32IsBind(w) THEN Ptr32Bind ELSE Ptr32Rebase,
                             next |-> Generic32Next(w)]
      [] format = PTR_32_CACHE -> [t |-> Ptr32CacheRebase, next |-> Next_(Ptr32CacheRebase, w)]
      [] format = PTR_32_FIRMWARE ->
           [t |-> Ptr32FirmwareRebase, next |-> Next_(Ptr32FirmwareRebase, w)]
      [] format = PTR_64 -> [t |-> IF Generic64IsBind(w) THEN Ptr64Bind ELSE Ptr64Rebase,
                             next |-> Generic64Next(w)]
      [] format = PTR_64_OFFSET ->
           [t |-> IF Generic64IsBind(w) THEN Ptr64Bind ELSE Ptr64RebaseOffset,
            next |-> Generic64Next(w)]
      [] format \in KernelFormats -> [t |-> KernelCacheRebase, next |-> Generic64Next(w)]
walkDcFixupChain(format, w) ==
    IF format \in Arm64eFormats \cup {PTR_ARM64E_USERLAND24} THEN walkArm64e(format, w)
    ELSE IF format <= PTR_X86_64_KERNEL_CACHE THEN walkGeneric(format, w)
    ELSE walkSharedOrSegmented(format, w)

chainNextBySize(format, w) ==
    IF format \in {PTR_32, PTR_32_CACHE, PTR_32_FIRMWARE} THEN Generic32Next(w)
    ELSE IF format \in Arm64eFormats \cup {PTR_ARM64E_USERLAND24} THEN DcpArm64eNext(w)
    ELSE Generic64Next(w)

chainNext(format, w) ==
    CASE format = PTR_32 -> Generic32Next(w)
      [] format = PTR_32_CACHE -> Next_(Ptr32CacheRebase, w)
      [] format = PTR_32_FIRMWARE -> Next_(Ptr32FirmwareRebase, w)
      [] format \in {PTR_64, PTR_64_OFFSET} \cup KernelFormats -> Generic64Next(w)
      [] format \in Arm64eFormats \cup {PTR_ARM64E_USERLAND24} -> DcpArm64eNext(w)
      [] format = PTR_ARM64E_SHARED_CACHE ->
           Next_(IF Bit(w, 63) THEN SharedCacheAuthRebase ELSE SharedCacheRebase, w)
      [] format = PTR_ARM64E_SHARED_CACHE_V3 ->
           Next_(IF Bit(w, 63) THEN SharedCacheV3AuthRebase ELSE SharedCacheV3Rebase, w)
      [] format = PTR_SHARED_CACHE_V2 -> Next_(SharedCacheV2Rebase, w)
      [] format = PTR_ARM64E_SEGMENTED ->
           Next_(IF Bit(w, 63) THEN AuthSegmentedRebase ELSE SegmentedRebase, w)

(* The ordinal of a bind, -1 of anything else.                             *)
bindOrdinalForPointer(format, w) ==
    CASE format = PTR_32 -> IF Generic32IsBind(w) THEN Ordinal(Ptr32Bind, w) ELSE -1
      [] format \in {PTR_64, PTR_64_OFFSET} ->
           IF Generic64IsBind(w) THEN Ordinal(Ptr64Bind, w) ELSE -1
      [] format \in Arm64eFormats -> IF DcpArm64eIsBind(w) THEN Ordinal(Arm64eBind, w) ELSE -1
      [] format = PTR_ARM64E_USERLAND24 ->
           IF DcpArm64eIsBind(w) THEN Ordinal(Arm64eBind24, w) ELSE -1
      [] OTHER -> -1

(* The largest ordinal of a format; 0 for a format without binds.          *)
maxOrdinal(format) ==
    CASE format \in Arm64eFormats -> 65535
      [] format \in {PTR_ARM64E_USERLAND24, PTR_64, PTR_64_OFFSET} -> 16777215
      [] format = PTR_32 -> 1048575
      [] OTHER -> 0
validateImportCount(d) == d.imports = 0 \/ (maxOrdinal(d.format) # 0 /\ d.imports < maxOrdinal(d.format))

(* IsBind by the format of the file alone: the import and the addend in    *)
(* the pointer, or none.                                                   *)
None == [ord |-> -1, addend |-> 0]
Bound(d, t, w) ==
    IF Ordinal(t, w) > d.imports - 1 THEN None
    ELSE [ord |-> Ordinal(t, w), addend |-> InlineAddend(t, w)]
IsBind(d, w) ==
    IF ~validateImportCount(d) \/ d.imports = 0 THEN None
    ELSE CASE d.format \in Arm64eFormats \cup {PTR_ARM64E_USERLAND24} ->
                IF ~DcpArm64eIsBind(w) THEN None
                ELSE IF DcpArm64eIsAuth(w)
                THEN Bound(d, IF d.format = PTR_ARM64E_USERLAND24 THEN Arm64eAuthBind24
                              ELSE Arm64eAuthBind, w)
                ELSE Bound(d, IF d.format = PTR_ARM64E_USERLAND24 THEN Arm64eBind24
                              ELSE Arm64eBind, w)
           [] d.format \in {PTR_64, PTR_64_OFFSET} ->
                IF ~Generic64IsBind(w) THEN None ELSE Bound(d, Ptr64Bind, w)
           [] d.format = PTR_32 -> IF ~Generic32IsBind(w) THEN None ELSE Bound(d, Ptr32Bind, w)
           [] OTHER -> None

-----------------------------------------------------------------------------
(* Targets and addresses; an error is [ok |-> FALSE, val |-> {}].          *)
Ok(v) == [ok |-> TRUE, val |-> v]
Err == [ok |-> FALSE, val |-> {}]
SumOf(v, w) == IF Overflows(v, w) THEN Err ELSE Ok(Plus(v, w))

resolveKernelCacheTarget(d, w, slide) ==
    LET level == Value(Get(KernelCacheRebase, "level", w))
        target == Target(KernelCacheRebase, w)
        own == IF d.segment.set THEN d.segment.addr ELSE d.preferred
    IN  IF d.kernel[level].set THEN SumOf(d.kernel[level].addr, target)
        ELSE IF level # 0 \/ Overflows(own, slide) THEN Err
        ELSE SumOf(Plus(own, slide), target)

(* A number kept in a chain of 32-bit pointers, above max_valid_pointer;   *)
(* the bias is (0x04000000 + max) / 2.                                     *)
decode32NonPointer(d, w) ==
    LET target == Target(Ptr32Rebase, w)
        bias == Shifted(Plus({26}, d.maxValid), -1)
    IN  IF Generic32IsBind(w) \/ d.maxValid = {} \/ ~Less(d.maxValid, target) THEN Err
        ELSE Ok(U32(Minus(target, bias)))

Relative(d, t, w, high) ==
    IF Less(Target(t, w), d.preferred) THEN Err
    ELSE Ok(high \cup Minus(Target(t, w), d.preferred))

decodeSharedTarget(d, w) ==
    IF ~d.shared.set THEN Err
    ELSE CASE d.format = PTR_ARM64E_SHARED_CACHE ->
                Ok(IF Bit(w, 63) THEN Target(SharedCacheAuthRebase, w)
                   ELSE UnpackedTarget(SharedCacheRebase, w))
           [] d.format = PTR_ARM64E_SHARED_CACHE_V3 ->
                IF Bit(w, 63) THEN Ok(Target(SharedCacheV3AuthRebase, w))
                ELSE LET v == UnpackedTarget(SharedCacheV3Rebase, w)
                     IN  IF Less(v, d.shared.addr) THEN Err ELSE Ok(Minus(v, d.shared.addr))
           [] d.format = PTR_SHARED_CACHE_V2 -> Ok(UnpackedTarget(SharedCacheV2Rebase, w))

decodeSegmentedTarget(d, w) ==
    LET t == IF Bit(w, 63) THEN AuthSegmentedRebase ELSE SegmentedRebase
        i == Value(Get(t, "segment", w))
        s == d.starts[i + 1]
    IN  IF i >= Len(d.starts) THEN Err
        ELSE SumOf(IF s.vm = {} THEN s.off ELSE s.vm, Target(t, w))

decodeRebaseTarget(d, w) ==
    LET High(t) == Shifted(Get(t, "high8", w), 56)
    IN  CASE d.format \in Arm64eFormats \cup {PTR_ARM64E_USERLAND24} ->
               IF DcpArm64eIsBind(w) THEN Err
               ELSE IF DcpArm64eIsAuth(w) THEN Ok(Target(Arm64eAuthRebase, w))
               ELSE IF d.format \in {PTR_ARM64E, PTR_ARM64E_FIRMWARE}
               THEN Relative(d, Arm64eRebase, w, High(Arm64eRebase))
               ELSE Ok(UnpackedTarget(Arm64eRebase, w))
          [] d.format = PTR_64 ->
               IF Generic64IsBind(w) THEN Err ELSE Relative(d, Ptr64Rebase, w, High(Ptr64Rebase))
          [] d.format = PTR_64_OFFSET ->
               IF Generic64IsBind(w) THEN Err ELSE Ok(UnpackedTarget(Ptr64RebaseOffset, w))
          [] d.format \in KernelFormats ->
               LET a == resolveKernelCacheTarget(d, w, {})
               IN  IF a.ok THEN Ok(Minus(a.val, d.preferred)) ELSE Err
          [] d.format = PTR_32 ->
               IF Generic32IsBind(w) THEN Err
               ELSE IF decode32NonPointer(d, w).ok
               THEN Ok(Minus(decode32NonPointer(d, w).val, d.preferred))
               ELSE Relative(d, Ptr32Rebase, w, {})
          [] d.format = PTR_32_CACHE -> Ok(Target(Ptr32CacheRebase, w))
          [] d.format = PTR_32_FIRMWARE -> Relative(d, Ptr32FirmwareRebase, w, {})
          [] d.format = PTR_ARM64E_SEGMENTED -> decodeSegmentedTarget(d, w)
          [] OTHER -> decodeSharedTarget(d, w)

SharedFormats == {PTR_ARM64E_SHARED_CACHE, PTR_ARM64E_SHARED_CACHE_V3, PTR_SHARED_CACHE_V2}

resolveThroughTheOffset(d, w, slide) ==
    LET off == decodeRebaseTarget(d, w)
        base == IF d.format \in SharedFormats THEN d.shared.addr ELSE d.preferred
    IN  IF ~off.ok THEN Err
        ELSE IF Overflows(base, off.val) THEN Err
        ELSE SumOf(Plus(base, off.val), slide)

(* ResolveRebaseVMAddress: what the pointer is in memory.                  *)
resolveRawRebaseVMAddress(d, w, slide) ==
    LET off == decodeRebaseTarget(d, w)
        base == IF d.format \in SharedFormats THEN d.shared.addr ELSE d.preferred
    IN  IF d.format = PTR_32 /\ decode32NonPointer(d, w).ok THEN decode32NonPointer(d, w)
        ELSE IF d.format \in KernelFormats THEN resolveKernelCacheTarget(d, w, slide)
        ELSE IF ~off.ok THEN Err
        ELSE IF d.format = PTR_SHARED_CACHE_V2 /\ off.val = {} THEN Ok({})
        ELSE IF Overflows(base, off.val) THEN Err
        ELSE SumOf(Plus(base, off.val), slide)

-----------------------------------------------------------------------------
Results ==
    [ walked |-> walkDcFixupChain(dcf.format, raw), decoded |-> decodeFixup(dcf.format, raw),
      next |-> chainNext(dcf.format, raw), ordinal |-> bindOrdinalForPointer(dcf.format, raw),
      bind |-> IsBind(dcf, raw), target |-> decodeRebaseTarget(dcf, raw),
      fixed |-> resolveRawRebaseVMAddress(dcf, raw, {}),
      slid |-> resolveRawRebaseVMAddress(dcf, raw, dcf.slide) ]

Init == dcf \in Contexts /\ raw \in Raws /\ seen = <<>>
Decode == seen' = <<Results>> /\ UNCHANGED <<dcf, raw>>
Spec == Init /\ [][Decode]_vars

-----------------------------------------------------------------------------
(* The seven switches over the formats agree on every pointer: the walk of *)
(* a chain and the lookup of one slot record the same type, step to the    *)
(* same next link, take the same pointers for binds with the same ordinal  *)
(* and addend, and no bind has a rebase target.  An ordinal fits the limit *)
(* that imports of the format are checked against.                         *)
DecodersAgree ==
    seen # <<>> =>
       LET s == seen[1]
           t == s.decoded
       IN  /\ s.walked.t = t
           /\ s.next = s.walked.next /\ s.next = Next_(t, raw)
           /\ (s.ordinal # -1) <=> IsBindType(t)
           /\ IsBindType(t) => /\ s.ordinal = Ordinal(t, raw) /\ ~s.target.ok
                               /\ 2 ^ t.ordinal[2] - 1 = maxOrdinal(dcf.format)
           /\ s.bind.ord # -1 => /\ IsBindType(t) /\ s.ordinal = s.bind.ord
                                 /\ s.bind.addend = InlineAddend(t, raw)
           /\ (IsBindType(t) /\ s.ordinal < dcf.imports /\ validateImportCount(dcf))
                 => s.bind.ord = s.ordinal

(* The two ways to an address agree: the runtime offset of Rebase, IsRebase *)
(* and RebaseRaw plus the base they are relative to, in 64 bits, is what   *)
(* ResolveRebaseVMAddress gives without a slide, and one is an error only  *)
(* where the other is or the sum does not fit.  With a slide, the numbers  *)
(* kept in 32-bit chains, the targets in another kernel collection and the *)
(* nulls of a shared cache stay, and everything else moves by the slide.   *)
ResolutionsAgree ==
    seen # <<>> =>
       LET s == seen[1]
           base == IF dcf.format \in SharedFormats THEN dcf.shared.addr ELSE dcf.preferred
           null == dcf.format = PTR_SHARED_CACHE_V2 /\ s.target.val = {}
           number == dcf.format = PTR_32 /\ decode32NonPointer(dcf, raw).ok
           kernel == dcf.format \in KernelFormats
           elsewhere == kernel /\ dcf.kernel[Value(Get(KernelCacheRebase, "level", raw))].set
       IN  /\ s.fixed.ok => s.target.ok
           /\ s.target.ok => \/ s.fixed.ok
                             \/ ~number /\ ~kernel /\ Overflows(base, s.target.val)
           /\ (s.fixed.ok /\ ~null) => Plus(base, s.target.val) = s.fixed.val
           /\ s.slid.ok => /\ s.fixed.ok
                           /\ s.slid.val = IF null \/ number \/ elsewhere THEN s.fixed.val
                                           ELSE Plus(s.fixed.val, dcf.slide)
=============================================================================
