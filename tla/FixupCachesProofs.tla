------------------------- MODULE FixupCachesProofs --------------------------
(***************************************************************************)
(* Proofs about what a File caches, for every file and any order of calls: *)
(* the fixups with any number of kernel cache levels, the functions with   *)
(* any number of callers, and the payloads decoded on demand.              *)
(***************************************************************************)
EXTENDS FixupCaches, FunctionLists, LazyPayloads, RecursionTheorems, TLAPS

IsCache(c) ==
    /\ c = [ binds |-> c.binds, threaded |-> c.threaded, bindsDone |-> c.bindsDone,
             rebases |-> c.rebases, rebasesDone |-> c.rebasesDone,
             targets |-> c.targets, values |-> c.values, byAddr |-> c.byAddr,
             built |-> c.built ]
    /\ c.bindsDone \in BOOLEAN /\ c.rebasesDone \in BOOLEAN /\ c.built \in BOOLEAN

(* The map of binds is the map of the binds. *)
Mapped(c) == c.built => c.byAddr = bindsByAddr(c.binds)

Sound(c) == IsCache(c) /\ Whole(c) /\ Mapped(c)

IsDcf(d) ==
    /\ d = [chains |-> d.chains, shared |-> d.shared, kernel |-> d.kernel,
            levelZero |-> d.levelZero]
    /\ d.kernel \in [Levels -> Bases \cup {Unset}]

TypeOK ==
    /\ image \in Images
    /\ kernel \in [Levels -> Bases \cup {Unset}]
    /\ levelZero \in Bases \cup {Unset}
    /\ dcf # Nil => IsDcf(dcf)

(* The parsed fixups hold every base that was set, and the level-zero      *)
(* segment address for as long as no base hides it.                        *)
Configured ==
    dcf # Nil => /\ dcf.chains = image.chained /\ dcf.shared = shared
                 /\ dcf.kernel = kernel
                 /\ kernel[0] = Unset =>
                        dcf.levelZero = effectiveKernelCacheLevelZeroSegmentAddress

IInv == TypeOK /\ Sound(cache) /\ Configured

(* getBindInfoLocked publishes a whole parse or nothing. *)
LEMMA BindsSound ==
    ASSUME image \in Images, NEW c, Sound(c), NEW fails
    PROVE  /\ Sound(getBindInfoLocked(c, fails))
           /\ BindsParse(c, fails) => getBindInfoLocked(c, fails).bindsDone
           /\ getBindInfoLocked(c, fails).rebasesDone = c.rebasesDone
           /\ getBindInfoLocked(c, fails).built = c.built
<1> DEFINE b == getBindInfoLocked(c, fails)
<1>1. CASE c.bindsDone \/ ~BindsParse(c, fails)
    <2>1. b = c
        BY <1>1 DEF getBindInfoLocked
    <2> QED BY <1>1, <2>1 DEF Sound, IsCache, BindsParse
<1>2. CASE ~c.bindsDone /\ BindsParse(c, fails)
    <2>1. b = [c EXCEPT !.binds = AllBinds, !.threaded = AllThreaded, !.bindsDone = TRUE]
        BY <1>2 DEF getBindInfoLocked
    <2>2. /\ b.binds = AllBinds /\ b.threaded = AllThreaded /\ b.bindsDone = TRUE
          /\ b.rebases = c.rebases /\ b.rebasesDone = c.rebasesDone
          /\ b.targets = c.targets /\ b.values = c.values /\ b.byAddr = c.byAddr
          /\ b.built = c.built
        BY <2>1 DEF Sound, IsCache
    <2>3. IsCache(b)
        BY <2>1 DEF Sound, IsCache
    <2>4. \A s \in BindStreams : image.stream[s] # Malformed
        BY <1>2, MalformedAssumption DEF BindsParse, Parses
    <2>5. ~c.built /\ ~c.rebasesDone
        BY <1>2 DEF Sound, Whole
    <2>6. Whole(b)
        BY <2>2, <2>4, <2>5 DEF Sound, Whole
    <2> QED BY <2>2, <2>3, <2>5, <2>6 DEF Sound, Mapped
<1> QED
    BY <1>1, <1>2

(* getRebaseInfoLocked publishes a whole parse or nothing. *)
LEMMA RebasesSound ==
    ASSUME image \in Images, NEW c, Sound(c), NEW fails
    PROVE  /\ Sound(getRebaseInfoLocked(c, fails))
           /\ RebasesParse(c, fails) => getRebaseInfoLocked(c, fails).rebasesDone
           /\ getRebaseInfoLocked(c, fails).built = c.built
<1> DEFINE b == getBindInfoLocked(c, fails)
           r == getRebaseInfoLocked(c, fails)
<1>1. Sound(b) /\ (BindsParse(c, fails) => b.bindsDone) /\ b.rebasesDone = c.rebasesDone
          /\ b.built = c.built
    BY BindsSound
<1> HIDE DEF b
<1>2. CASE c.rebasesDone \/ ~image.dyldInfo \/ ~Parses("rebase", fails)
    <2>1. r = c
        BY <1>2 DEF getRebaseInfoLocked
    <2> QED BY <1>2, <2>1 DEF RebasesParse
<1>3. CASE ~c.rebasesDone /\ image.dyldInfo /\ Parses("rebase", fails) /\ ~BindsParse(c, fails)
    <2>1. r = b
        BY <1>3 DEF getRebaseInfoLocked, b
    <2> QED BY <1>1, <1>3, <2>1 DEF RebasesParse
<1>4. CASE ~c.rebasesDone /\ image.dyldInfo /\ Parses("rebase", fails) /\ BindsParse(c, fails)
    <2>1. r = [b EXCEPT !.rebases = image.stream["rebase"].rebases \o b.threaded,
                        !.rebasesDone = TRUE]
        BY <1>4 DEF getRebaseInfoLocked, b
    <2>2. /\ r.binds = b.binds /\ r.threaded = b.threaded /\ r.bindsDone = b.bindsDone
          /\ r.rebases = image.stream["rebase"].rebases \o b.threaded /\ r.rebasesDone = TRUE
          /\ r.targets = b.targets /\ r.values = b.values /\ r.byAddr = b.byAddr
          /\ r.built = b.built
        BY <2>1, <1>1 DEF Sound, IsCache
    <2>3. IsCache(r)
        BY <2>1, <1>1 DEF Sound, IsCache
    <2>4. b.bindsDone /\ b.threaded = AllThreaded /\ ~b.built
        BY <1>1, <1>4 DEF Sound, Whole
    <2>5. Whole(r)
        BY <1>1, <2>2, <2>4 DEF Sound, Whole, WholeRebases
    <2> QED BY <1>1, <2>2, <2>3, <2>4, <2>5 DEF Sound, Mapped
<1> QED
    BY <1>2, <1>3, <1>4 DEF Sound, IsCache

(* buildDyldInfoFixupsCacheLocked publishes maps of whole lists or none. *)
LEMMA BuildSound ==
    ASSUME image \in Images, image.dyldInfo, NEW c, Sound(c), NEW fails
    PROVE  Sound(buildDyldInfoFixupsCacheLocked(c, fails))
<1> DEFINE r == getRebaseInfoLocked(c, fails)
           b == getBindInfoLocked(r, fails)
           m == buildDyldInfoFixupsCacheLocked(c, fails)
<1>1. Sound(r) /\ (RebasesParse(c, fails) => r.rebasesDone) /\ r.built = c.built
    BY RebasesSound
<1> HIDE DEF r
<1>2. Sound(b) /\ (BindsParse(r, fails) => b.bindsDone) /\ b.rebasesDone = r.rebasesDone
          /\ b.built = r.built
    BY <1>1, BindsSound
<1> HIDE DEF b
<1>3. CASE c.built
    BY <1>3 DEF buildDyldInfoFixupsCacheLocked
<1>4. CASE ~c.built /\ ~RebasesParse(c, fails)
    BY <1>1, <1>4 DEF buildDyldInfoFixupsCacheLocked, r
<1>5. CASE ~c.built /\ RebasesParse(c, fails) /\ ~BindsParse(r, fails)
    BY <1>2, <1>5 DEF buildDyldInfoFixupsCacheLocked, r, b
<1>6. CASE ~c.built /\ RebasesParse(c, fails) /\ BindsParse(r, fails)
    <2>1. m = [b EXCEPT !.targets = rebaseTargets(b.rebases),
                        !.values = rebaseValues(b.rebases),
                        !.byAddr = bindsByAddr(b.binds), !.built = TRUE]
        BY <1>6 DEF buildDyldInfoFixupsCacheLocked, r, b
    <2>2. /\ m.binds = b.binds /\ m.threaded = b.threaded /\ m.bindsDone = b.bindsDone
          /\ m.rebases = b.rebases /\ m.rebasesDone = b.rebasesDone
          /\ m.targets = rebaseTargets(b.rebases) /\ m.values = rebaseValues(b.rebases)
          /\ m.byAddr = bindsByAddr(b.binds) /\ m.built = TRUE
        BY <2>1, <1>2 DEF Sound, IsCache
    <2>3. IsCache(m)
        BY <2>1, <1>2 DEF Sound, IsCache
    <2>4. b.bindsDone /\ b.rebasesDone /\ b.rebases = WholeRebases
        BY <1>1, <1>2, <1>6 DEF Sound, Whole
    <2>5. Whole(m)
        BY <1>2, <2>2, <2>4 DEF Sound, Whole
    <2> QED BY <2>2, <2>3, <2>5 DEF Sound, Mapped
<1> QED
    BY <1>3, <1>4, <1>5, <1>6 DEF Sound, IsCache

(* An empty cache is sound. *)
LEMMA NoCacheSound == Sound(NoCache)
BY DEF Sound, IsCache, Whole, Mapped, NoCache

(* What makes a cache sound reads nothing but the image. *)
LEMMA SoundNext ==
    ASSUME NEW c, Sound(c), image' = image, cache' = c
    PROVE  Sound(cache)'
<1>1. AllBinds' = AllBinds /\ AllThreaded' = AllThreaded /\ WholeRebases' = WholeRebases
    BY DEF AllBinds, AllThreaded, WholeRebases
<1>2. rebaseTargets(WholeRebases)' = rebaseTargets(WholeRebases)
    BY <1>1 DEF rebaseTargets, normalizeDyldInfoPointer
<1>3. rebaseValues(WholeRebases)' = rebaseValues(WholeRebases)
    BY <1>1 DEF rebaseValues
<1>4. Whole(cache)'
    BY <1>1, <1>2, <1>3 DEF Sound, Whole
<1>5. IsCache(cache)'
    BY DEF Sound, IsCache
<1>6. Mapped(cache)'
    BY DEF Sound, Mapped, bindsByAddr
<1> QED
    BY <1>4, <1>5, <1>6 DEF Sound

(* Initially nothing is published. *)
LEMMA InitOK == Init => IInv
<1> SUFFICES ASSUME Init PROVE IInv
    OBVIOUS
<1>1. Sound(cache)
    BY NoCacheSound DEF Init
<1> QED
    BY <1>1 DEF Init, IInv, TypeOK, Configured

(* The three calls that fill the dyld-info caches. *)
LEMMA DyldInfoOK ==
    ASSUME IInv, GetBindInfo \/ GetRebaseInfo \/ dyldInfoFixupsSnapshot
    PROVE  IInv'
<1>1. image' = image /\ UNCHANGED <<settings, dcf>>
    BY DEF GetBindInfo, GetRebaseInfo, dyldInfoFixupsSnapshot
<1>2. image \in Images /\ Sound(cache)
    BY DEF IInv, TypeOK
<1>3. Sound(cache)'
    <2>1. CASE GetBindInfo
        <3>1. PICK fails \in SUBSET Streams : cache' = getBindInfoLocked(cache, fails)
            BY <2>1 DEF GetBindInfo
        <3>2. Sound(getBindInfoLocked(cache, fails))
            BY <1>2, BindsSound
        <3> QED BY <1>1, <3>1, <3>2, SoundNext
    <2>2. CASE GetRebaseInfo
        <3>1. PICK fails \in SUBSET Streams : cache' = getRebaseInfoLocked(cache, fails)
            BY <2>2 DEF GetRebaseInfo
        <3>2. Sound(getRebaseInfoLocked(cache, fails))
            BY <1>2, RebasesSound
        <3> QED BY <1>1, <3>1, <3>2, SoundNext
    <2>3. CASE dyldInfoFixupsSnapshot
        <3>1. PICK fails \in SUBSET Streams :
                 cache' = buildDyldInfoFixupsCacheLocked(cache, fails)
            BY <2>3 DEF dyldInfoFixupsSnapshot
        <3>2. Sound(buildDyldInfoFixupsCacheLocked(cache, fails))
            BY <1>2, <2>3, BuildSound DEF dyldInfoFixupsSnapshot
        <3> QED BY <1>1, <3>1, <3>2, SoundNext
    <2> QED BY <2>1, <2>2, <2>3
<1> QED
    BY <1>1, <1>3
    DEF IInv, TypeOK, IsDcf, Configured, settings, effectiveKernelCacheLevelZeroSegmentAddress

(* Parsed fixups are published configured. *)
LEMMA ChainedOK ==
    ASSUME IInv, DyldChainedFixups
    PROVE  IInv'
<1> USE DEF DyldChainedFixups, settings
<1>1. Sound(cache)'
    BY SoundNext DEF IInv
<1>2. dcf' = NewDcf /\ NewDcf.kernel = kernel
    BY DEF NewDcf
<1>3. IsDcf(NewDcf)
    BY DEF NewDcf, IsDcf, IInv, TypeOK
<1>4. Configured'
    BY DEF Configured, NewDcf, effectiveKernelCacheLevelZeroSegmentAddress
<1>5. TypeOK'
    BY <1>2, <1>3 DEF IInv, TypeOK, IsDcf
<1> QED
    BY <1>1, <1>4, <1>5 DEF IInv

(* The setters reach the parsed fixups. *)
LEMMA SettersOK ==
    ASSUME IInv, NEW b \in Bases, NEW level \in Levels,
           \/ SetSharedCacheBaseAddress(b)
           \/ setKernelCacheLevelZeroSegmentAddress(b)
           \/ SetKernelCacheBaseAddress(level, b)
    PROVE  IInv'
<1>1. image' = image /\ cache' = cache
    BY DEF SetSharedCacheBaseAddress, setKernelCacheLevelZeroSegmentAddress,
           SetKernelCacheBaseAddress
<1>2. Sound(cache)'
    BY <1>1, SoundNext DEF IInv
<1>3. b # Unset
    BY UnsetAssumption
<1>4. CASE SetSharedCacheBaseAddress(b)
    <2>1. TypeOK'
        BY <1>1, <1>4 DEF SetSharedCacheBaseAddress, IInv, TypeOK, IsDcf
    <2>2. Configured'
        BY <1>1, <1>4 DEF SetSharedCacheBaseAddress, IInv, TypeOK, IsDcf, Configured,
                          effectiveKernelCacheLevelZeroSegmentAddress
    <2> QED BY <1>2, <2>1, <2>2 DEF IInv
<1>5. CASE setKernelCacheLevelZeroSegmentAddress(b)
    <2>1. TypeOK'
        BY <1>1, <1>5 DEF setKernelCacheLevelZeroSegmentAddress, IInv, TypeOK, IsDcf
    <2>2. Configured'
        BY <1>1, <1>3, <1>5 DEF setKernelCacheLevelZeroSegmentAddress, IInv, TypeOK, IsDcf,
                          Configured, effectiveKernelCacheLevelZeroSegmentAddress
    <2> QED BY <1>2, <2>1, <2>2 DEF IInv
<1>6. CASE SetKernelCacheBaseAddress(level, b)
    <2>1. kernel' \in [Levels -> Bases \cup {Unset}]
        BY <1>6 DEF SetKernelCacheBaseAddress, IInv, TypeOK
    <2>2. dcf # Nil =>
              dcf' = [chains |-> dcf.chains, shared |-> dcf.shared, kernel |-> kernel',
                      levelZero |-> dcf.levelZero]
        BY <1>6 DEF SetKernelCacheBaseAddress, IInv, TypeOK, IsDcf, Configured
    <2>3. dcf = Nil => dcf' = Nil
        BY <1>6 DEF SetKernelCacheBaseAddress
    <2>4. TypeOK'
        BY <1>1, <1>6, <2>1, <2>2, <2>3 DEF SetKernelCacheBaseAddress, IInv, TypeOK, IsDcf
    <2>5. kernel'[0] = Unset => kernel[0] = Unset
        BY <1>3, <1>6 DEF SetKernelCacheBaseAddress, IInv, TypeOK
    <2>6. Configured'
        BY <1>1, <1>6, <2>2, <2>3, <2>5
        DEF SetKernelCacheBaseAddress, IInv, Configured,
            effectiveKernelCacheLevelZeroSegmentAddress
    <2> QED BY <1>2, <2>4, <2>6 DEF IInv
<1> QED
    BY <1>4, <1>5, <1>6

(* A reset forgets all parses and no setting. *)
LEMMA ResetOK ==
    ASSUME IInv, ResetFixupsCache
    PROVE  IInv'
<1>1. Sound(cache)'
    BY DEF ResetFixupsCache, Sound, IsCache, Whole, Mapped, NoCache
<1> QED
    BY <1>1 DEF ResetFixupsCache, settings, IInv, TypeOK, Configured

(* A step that opens a child, or none. *)
LEMMA OtherOK ==
    ASSUME IInv, copyKernelCacheBasesTo \/ UNCHANGED vars
    PROVE  IInv'
<1>1. image' = image /\ cache' = cache /\ UNCHANGED <<settings, dcf>>
    BY DEF copyKernelCacheBasesTo, vars
<1>2. Sound(cache)'
    BY <1>1, SoundNext DEF IInv
<1> QED
    BY <1>1, <1>2
    DEF IInv, TypeOK, IsDcf, Configured, settings, effectiveKernelCacheLevelZeroSegmentAddress

(* One call keeps the invariant. *)
LEMMA Inductive == IInv /\ [Next]_vars => IInv'
<1> SUFFICES ASSUME IInv, [Next]_vars PROVE IInv'
    OBVIOUS
<1>1. CASE GetBindInfo \/ GetRebaseInfo \/ dyldInfoFixupsSnapshot
    BY <1>1, DyldInfoOK
<1>2. CASE DyldChainedFixups
    BY <1>2, ChainedOK
<1>3. ASSUME NEW b \in Bases,
             \/ SetSharedCacheBaseAddress(b)
             \/ setKernelCacheLevelZeroSegmentAddress(b)
             \/ \E level \in Levels : SetKernelCacheBaseAddress(level, b)
      PROVE  IInv'
    BY <1>3, SettersOK, LevelAssumption
<1>4. CASE copyKernelCacheBasesTo \/ UNCHANGED vars
    BY <1>4, OtherOK
<1>5. CASE ResetFixupsCache
    BY <1>5, ResetOK
<1> QED
    BY <1>1, <1>2, <1>3, <1>4, <1>5 DEF Next

(* The inductive invariant holds throughout. *)
THEOREM Invariance == Spec => []IInv
<1> QED
    BY InitOK, Inductive, PTL DEF Spec

(* Whatever reads fail, a published bind or rebase cache is a whole parse, *)
(* and the decoder's bind map agrees with the scan of GetBindName.         *)
THEOREM PublishedWhole == Spec => []CachesAreWhole
<1>1. IInv => Whole(cache)
    BY DEF IInv, Sound
<1>2. IInv => SlotLookupsAgree(cache)
    BY DEF IInv, Sound, Mapped, SlotLookupsAgree, bindsByAddr, bindAtLocked
<1>3. IInv => CachesAreWhole
    BY <1>1, <1>2 DEF CachesAreWhole
<1> QED
    BY <1>3, Invariance, PTL

(* Parsed fixups resolve with the bases the File reports, in whatever      *)
(* order setters, parses and resets were called.                           *)
THEOREM BasesStayInStep == Spec => []BasesAgree
<1>1. IInv => BasesAgree
    BY LevelAssumption DEF IInv, Configured, BasesAgree, BaseUsed, KernelCacheBaseAddress
<1> QED
    BY <1>1, Invariance, PTL

(* A fileset child starts with the bases its parent resolves with. *)
THEOREM ChildrenInherit == Spec => ChildInheritsBases
<1>1. [Next]_vars => [child' # child =>
          \A level \in Levels : BaseUsed(child', level) = KernelCacheBaseAddress(level)]_vars
    <2> SUFFICES ASSUME Next, child' # child
                 PROVE  \A level \in Levels :
                            BaseUsed(child', level) = KernelCacheBaseAddress(level)
        BY DEF vars
    <2>1. copyKernelCacheBasesTo
        BY DEF Next, GetBindInfo, GetRebaseInfo, dyldInfoFixupsSnapshot, DyldChainedFixups,
               SetSharedCacheBaseAddress, setKernelCacheLevelZeroSegmentAddress,
               SetKernelCacheBaseAddress, ResetFixupsCache
    <2> QED
        BY <2>1 DEF copyKernelCacheBasesTo, BaseUsed, KernelCacheBaseAddress
<1> QED
    BY <1>1, PTL DEF Spec, ChildInheritsBases

-----------------------------------------------------------------------------
(* Function lists.                                                         *)

FunctionRecords == [start : Nat, end : Nat]

(* Each function of a list ends where the next one starts; the functions   *)
(* ascend as well when no address wraps.                                   *)
EndToEnd(list) ==
    /\ list \in Seq(FunctionRecords)
    /\ \A i \in 1 .. Len(list) - 1 : list[i].end = list[i + 1].start

Ordered(list) == EndToEnd(list) /\ Ascends(list)

Listed(list) == EndToEnd(list) /\ (NoneWraps => Ordered(list))

(* The fields of a function.                                               *)
LEMMA FunctionIs ==
    /\ \A f \in FunctionRecords : f.start \in Nat /\ f.end \in Nat
    /\ \A a, b \in Nat : Fn(a, b) \in FunctionRecords /\ Fn(a, b).start = a /\ Fn(a, b).end = b
BY DEF FunctionRecords, Fn

(* The functions of an ordered list, and where they start and end.         *)
LEMMA ListIs ==
    ASSUME NEW list, Ordered(list)
    PROVE  /\ Len(list) \in Nat /\ DOMAIN list = 1 .. Len(list)
           /\ \A i \in 1 .. Len(list) : list[i] \in FunctionRecords /\ list[i].start \in Nat /\ list[i].end \in Nat
<1>1. list \in Seq(FunctionRecords)
  BY DEF Ordered, EndToEnd
<1> HIDE DEF FunctionRecords
<1>2. Len(list) \in Nat /\ DOMAIN list = 1 .. Len(list) /\ \A i \in 1 .. Len(list) : list[i] \in FunctionRecords
  BY <1>1
<1> QED BY <1>2, FunctionIs

(* In order, a function begins where all before it have ended.             *)
LEMMA StartsGrow ==
    ASSUME NEW list, Ordered(list), NEW i \in 1 .. Len(list), NEW j \in 1 .. Len(list), i < j
    PROVE  list[i].end <= list[j].start /\ list[i].start < list[j].start
<1> DEFINE n == Len(list)
           S == {k \in 0 .. n : i < k => list[i].end <= list[k].start}
<1>1. n \in Nat /\ \A k \in 1 .. n : list[k].start \in Nat /\ list[k].end \in Nat
  BY ListIs
<1>2. \A k \in 1 .. n - 1 : list[k].start < list[k].end /\ list[k].end = list[k + 1].start
  BY DEF Ordered, EndToEnd, Ascends
<1>3. 0 \in S
  BY <1>1
<1>4. ASSUME NEW k \in 1 .. n, k - 1 \in S PROVE k \in S
  <2>1. CASE i < k
    <3> DEFINE m == k - 1
    <3>1. m \in 1 .. n - 1 /\ k = m + 1
      BY <1>1, <2>1
    <3>2. i = m \/ i < m
      BY <2>1, <3>1
    <3>3. list[m].start < list[m].end /\ list[m].end = list[k].start
      BY <1>2, <3>1
    <3>4. i < m => list[i].end <= list[m].start
      BY <1>4
    <3> HIDE DEF m
    <3>5. list[i].end <= list[k].start
      BY <1>1, <3>1, <3>2, <3>3, <3>4
    <3> QED BY <3>5
  <2> QED BY <2>1
<1>5. j \in S
  <2> HIDE DEF S, n
  <2>1. \A k \in 0 .. n : k \in S
    BY <1>1, <1>3, <1>4, CountInduction
  <2> QED BY <1>1, <2>1 DEF n
<1>6. i \in 1 .. n - 1
  BY <1>1
<1> QED BY <1>1, <1>2, <1>5, <1>6

(* An address lies in one function at most.                                *)
LEMMA FunctionAtIsOne ==
    ASSUME NEW list, Ordered(list), NEW k \in 1 .. Len(list), NEW a \in Int,
           list[k].start <= a, a < list[k].end
    PROVE  GetFunctionForVMAddr(list, a) = list[k]
<1> DEFINE found == {i \in DOMAIN list : a >= list[i].start /\ a < list[i].end}
<1>1. DOMAIN list = 1 .. Len(list)
      /\ \A i \in 1 .. Len(list) : list[i].start \in Nat /\ list[i].end \in Nat
  BY ListIs
<1>2. k \in found
  BY <1>1
<1>3. ASSUME NEW i \in found PROVE i = k
  <2>1. i \in 1 .. Len(list) /\ list[i].start <= a /\ a < list[i].end
    BY <1>1
  <2>2. ~(i < k)
    <3>1. i < k => list[i].end <= list[k].start
      BY <2>1, StartsGrow
    <3> QED BY <1>1, <2>1, <3>1
  <2>3. ~(k < i)
    <3>1. k < i => list[k].end <= list[i].start
      BY <2>1, StartsGrow
    <3> QED BY <1>1, <2>1, <3>1
  <2> QED BY <2>1, <2>2, <2>3
<1>4. found = {k}
  BY <1>2, <1>3
<1>5. GetFunctionForVMAddr(list, a) = IF found = {} THEN None ELSE list[Min(found)]
  BY DEF GetFunctionForVMAddr
<1>6. Min({k}) = k
  BY DEF Min
<1> HIDE DEF found
<1> QED BY <1>4, <1>5, <1>6

(* What a loop that keeps some of its items has kept after each round.     *)
Keeps(f, N, item, K) ==
    \A i \in 0 .. N :
        f[i] = IF i = 0 THEN <<>> ELSE IF i \in K THEN Append(f[i - 1], item[i]) ELSE f[i - 1]

(* Such a loop has a result after each round.                              *)
LEMMA KeptExists ==
    ASSUME NEW N \in Nat, NEW V, NEW item \in [1 .. N -> V], NEW K
    PROVE  \E f \in [0 .. N -> Seq(V)] : Keeps(f, N, item, K)
<1> DEFINE W == Seq(V)
           D == 0 .. N
           step == [y \in D \X W |-> IF y[1] # 0 /\ y[1] \in K THEN Append(y[2], item[y[1]]) ELSE y[2]]
<1>1. step \in [D \X W -> W]
  <2>1. ASSUME NEW i \in D, NEW s \in W, i # 0 PROVE Append(s, item[i]) \in W
    <3>1. item[i] \in V
      BY <2>1
    <3> QED BY <3>1
  <2> HIDE DEF W, D
  <2> QED BY <2>1
<1>2. <<>> \in W
  OBVIOUS
<1>3. PICK f \in [D -> W] : Carries(f, N, <<>>, step)
  <2> HIDE DEF step, W
  <2> QED BY <1>1, <1>2, FoldExists
<1>4. ASSUME NEW i \in D
      PROVE  f[i] = IF i = 0 THEN <<>> ELSE IF i \in K THEN Append(f[i - 1], item[i]) ELSE f[i - 1]
  <2>1. CASE i = 0
    <3> HIDE DEF step
    <3> QED BY <1>3, <2>1 DEF Carries
  <2>2. CASE i # 0
    <3> DEFINE v == f[i - 1]
    <3>1. i - 1 \in D /\ v \in W
      BY <2>2
    <3>2. f[i] = step[<<i, v>>]
      BY <1>3, <2>2 DEF Carries
    <3>3. \A j \in D, w \in W :
             step[<<j, w>>] = IF j # 0 /\ j \in K THEN Append(w, item[j]) ELSE w
      <4> HIDE DEF D, W
      <4> QED OBVIOUS
    <3> HIDE DEF step, D, v, W
    <3>4. f[i] = IF i # 0 /\ i \in K THEN Append(v, item[i]) ELSE v
      BY <3>1, <3>2, <3>3
    <3>5. f[i] = IF i \in K THEN Append(v, item[i]) ELSE v
      BY <2>2, <3>4
    <3> QED BY <2>2, <3>5 DEF v
  <2> QED BY <2>1, <2>2
<1> QED BY <1>3, <1>4 DEF Keeps

(* So an address at either end of a function is found in it. *)
LEMMA OrderedListsAnswer ==
    ASSUME NEW list, Ordered(list), NEW i \in DOMAIN list, NEW a \in {list[i].start, list[i].end - 1},
           list[i].start < list[i].end
    PROVE  GetFunctionForVMAddr(list, a) = list[i]
<1>1. i \in 1 .. Len(list) /\ list[i].start \in Nat /\ list[i].end \in Nat
  BY ListIs
<1>2. a \in Int /\ list[i].start <= a /\ a < list[i].end
  BY <1>1
<1> QED BY <1>1, <1>2, FunctionAtIsOne

(* A sum that wraps stays an address, and one that does not is the sum.    *)
LEMMA SumsWrap ==
    ASSUME NEW x \in Nat
    PROVE  x % AddrSpace \in Nat /\ (x < AddrSpace => x % AddrSpace = x)
BY AddrSpaceAssumption

(* A stream counts up to its first 0, so every value past the first does.  *)
LEMMA ValuesAre ==
    ASSUME NEW stream \in Seq(Nat), stream # <<>>
    PROVE  /\ Values(stream) \in 1 .. Len(stream)
           /\ \A i \in 1 .. Values(stream) : stream[i] \in Nat
           /\ \A i \in 2 .. Values(stream) : stream[i] > 0
<1> DEFINE N == Len(stream)
           zeros == {i \in 2 .. N : stream[i] = 0}
<1>1. N \in Nat /\ N >= 1 /\ \A i \in 1 .. N : stream[i] \in Nat
  OBVIOUS
<1>2. CASE zeros = {}
  <2>1. Values(stream) = N
    BY <1>2 DEF Values
  <2> QED BY <1>1, <1>2, <2>1
<1>3. CASE zeros # {}
  <2>1. PICK z \in zeros : \A y \in zeros : z <= y
    <3>1. zeros \subseteq Nat
      BY <1>1
    <3> HIDE DEF zeros
    <3> QED BY <1>3, <3>1, LeastNatural
  <2>2. Min(zeros) \in zeros /\ \A y \in zeros : Min(zeros) <= y
    <3> HIDE DEF zeros
    <3> QED BY <2>1 DEF Min
  <2>3. Values(stream) = Min(zeros) - 1
    BY <1>3 DEF Values
  <2> DEFINE m == Min(zeros)
  <2>4. m \in 2 .. N /\ \A y \in 2 .. N : stream[y] = 0 => m <= y
    BY <2>2
  <2> HIDE DEF m
  <2>5. Values(stream) = m - 1
    BY <2>3 DEF m
  <2> HIDE DEF N
  <2>6. Values(stream) \in 1 .. N /\ \A i \in 1 .. Values(stream) : i \in 1 .. N
    BY <1>1, <2>4, <2>5
  <2>7. ASSUME NEW i \in 2 .. Values(stream) PROVE stream[i] > 0
    <3>1. i \in 2 .. N /\ i \in 1 .. N /\ ~(m <= i)
      BY <1>1, <2>4, <2>5
    <3> QED BY <1>1, <2>4, <3>1
  <2> QED BY <1>1, <2>6, <2>7 DEF N
<1> QED BY <1>2, <1>3

(* The addresses add up. *)
LEMMA StartsAre ==
    ASSUME NEW stream \in Seq(Nat), stream # <<>>, code.base \in Nat
    PROVE  /\ \A i \in 0 .. Values(stream) : StartAfter(stream)[i] \in Nat
           /\ \A i \in 1 .. Values(stream) :
                 StartAfter(stream)[i] = (StartAfter(stream)[i - 1] + stream[i]) % AddrSpace
<1> DEFINE n == Values(stream)
           D == 0 .. n
           Code(u, i) == IF i = 0 THEN code.base ELSE (u[i - 1] + stream[i]) % AddrSpace
           upTo == CHOOSE u : u = [i \in D |-> Code(u, i)]
           step0 == [y \in D \X Nat |-> IF y[1] = 0 THEN code.base ELSE (y[2] + stream[y[1]]) % AddrSpace]
<1>1. StartAfter(stream) = upTo
  BY DEF StartAfter
<1>2. n \in Nat /\ \A i \in 1 .. n : stream[i] \in Nat
  BY ValuesAre
<1>4. PICK f \in [D -> Nat] : Carries(f, n, code.base, step0)
  <2>1. step0 \in [D \X Nat -> Nat]
    <3>1. ASSUME NEW i \in D, NEW v \in Nat, i # 0 PROVE (v + stream[i]) % AddrSpace \in Nat
      <4>1. stream[i] \in Nat
        BY <1>2, <3>1
      <4>2. v + stream[i] \in Nat
        BY <4>1
      <4> QED BY <4>2, SumsWrap
    <3> HIDE DEF D, n
    <3> QED BY <3>1
  <2> HIDE DEF step0, n
  <2> QED BY <1>2, <2>1, FoldExists
<1>5. \A i \in D : f[i] = Code(f, i)
  <2>1. ASSUME NEW i \in D, i # 0 PROVE f[i] = (f[i - 1] + stream[i]) % AddrSpace
    <3>1. i - 1 \in D /\ f[i - 1] \in Nat
      BY <1>2, <2>1, SMTT(30)
    <3>2. f[i] = step0[<<i, f[i - 1]>>]
      BY <1>4, <2>1 DEF Carries
    <3>3. \A j \in D, v \in Nat :
             step0[<<j, v>>] = IF j = 0 THEN code.base ELSE (v + stream[j]) % AddrSpace
      OBVIOUS
    <3> DEFINE v == f[i - 1]
    <3>4. v \in Nat /\ f[i] = step0[<<i, v>>]
      BY <3>1, <3>2
    <3> HIDE DEF step0, D, v
    <3>5. step0[<<i, v>>] = IF i = 0 THEN code.base ELSE (v + stream[i]) % AddrSpace
      BY <3>3, <3>4
    <3>6. f[i] = (v + stream[i]) % AddrSpace
      BY <2>1, <3>4, <3>5
    <3> QED BY <3>6 DEF v
  <2>2. f[0] = code.base
    <3>1. 0 \in D
      BY <1>2
    <3> HIDE DEF step0
    <3> QED BY <1>4, <3>1 DEF Carries
  <2> QED BY <2>1, <2>2
<1>6. f = [i \in D |-> Code(f, i)]
  <2> HIDE DEF Code, D
  <2> QED BY <1>5
<1>7. upTo = [i \in D |-> Code(upTo, i)]
  <2> HIDE DEF Code, D
  <2> QED BY <1>6
<1> HIDE DEF upTo, step0
<1>8. \A i \in D : upTo[i] = Code(upTo, i)
  BY <1>7
<1>9. upTo[0] = code.base /\ \A i \in 1 .. n : upTo[i] = (upTo[i - 1] + stream[i]) % AddrSpace
  BY <1>2, <1>8
<1>10. \A i \in D : upTo[i] \in Nat
  <2> DEFINE S == {i \in D : upTo[i] \in Nat}
  <2>1. 0 \in S
    BY <1>2, <1>9
  <2>2. \A i \in 1 .. n : i - 1 \in S => i \in S
    <3> SUFFICES ASSUME NEW i \in 1 .. n, i - 1 \in S PROVE i \in S
      OBVIOUS
    <3>1. i \in D /\ upTo[i - 1] \in Nat /\ stream[i] \in Nat
      BY <1>2
    <3>2. upTo[i] = (upTo[i - 1] + stream[i]) % AddrSpace
      BY <1>9
    <3>3. upTo[i - 1] + stream[i] \in Nat
      BY <3>1
    <3>4. upTo[i] \in Nat
      BY <3>2, <3>3, SumsWrap
    <3> HIDE DEF D
    <3> QED BY <3>1, <3>4
  <2> HIDE DEF S, n
  <2>3. \A i \in 0 .. n : i \in S
    BY <1>2, <2>1, <2>2, CountInduction
  <2> QED BY <2>3 DEF S
<1> QED BY <1>1, <1>9, <1>10

(* The last function is in its section. *)
LEMMA LastFunctionIs ==
    ASSUME code.sections \in Seq([addr : Nat, size : Nat]), NEW start \in Nat
    PROVE  \/ lastFunction(start) = <<>>
           \/ \E end \in Nat : lastFunction(start) = <<Fn(start, end)>>
<1> DEFINE at == SectionsAt(start)
           s == FindSectionForVMAddr(start)
<1>1. CASE s = None
  BY <1>1 DEF lastFunction
<1>2. CASE s # None
  <2>1. at # {} /\ s = code.sections[Min(at)]
    BY <1>2 DEF FindSectionForVMAddr
  <2>2. at \subseteq DOMAIN code.sections
    BY DEF SectionsAt
  <2>3. DOMAIN code.sections \subseteq Nat
    OBVIOUS
  <2>4. Min(at) \in at
    <3>1. \E x \in at : \A y \in at : x <= y
      <4> HIDE DEF at
      <4> QED BY <2>1, <2>2, <2>3, LeastNatural
    <3> QED BY <3>1 DEF Min
  <2>5. s \in [addr : Nat, size : Nat]
    <3>1. Min(at) \in DOMAIN code.sections
      BY <2>2, <2>4
    <3> DEFINE ss == code.sections
               R == [addr : Nat, size : Nat]
               m == Min(at)
    <3>2. ss \in Seq(R) /\ m \in DOMAIN ss /\ s = ss[m]
      BY <2>1, <3>1
    <3>3. s \in R
      <4> HIDE DEF ss, R, m, s
      <4> QED BY ONLY <3>2
    <3> QED BY <3>3
  <2>6. End(s) \in Nat
    <3>1. s.addr + s.size \in Nat
      <4> HIDE DEF s
      <4> QED BY <2>5
    <3> QED BY <3>1, SumsWrap DEF End
  <2>7. lastFunction(start) = <<Fn(start, End(s))>>
    BY <1>2 DEF lastFunction
  <2> QED BY <2>6, <2>7
<1> QED BY <1>1, <1>2

Pairs(a, n) == [i \in 1 .. n |-> Fn(a[i], a[i + 1])]

(* A list that goes from one address to the next, with or without a last   *)
(* function behind, is linked, and in order when the addresses grow.       *)
LEMMA PairsAreListed ==
    ASSUME NEW n \in Nat, NEW a, \A i \in 1 .. n + 1 : a[i] \in Nat,
           NoneWraps => \A i \in 1 .. n : a[i] < a[i + 1], NEW end \in Nat
    PROVE  /\ Listed(Pairs(a, n) \o <<>>)
           /\ Listed(Pairs(a, n) \o <<Fn(a[n + 1], end)>>)
<1> DEFINE p == Pairs(a, n)
           f == Fn(a[n + 1], end)
           q == p \o <<f>>
<1>1. \A i \in 1 .. n : /\ i + 1 \in 1 .. n + 1 /\ a[i] \in Nat /\ a[i + 1] \in Nat
  OBVIOUS
<1>2. \A i \in 1 .. n : /\ Fn(a[i], a[i + 1]) \in FunctionRecords
                        /\ Fn(a[i], a[i + 1]).start = a[i] /\ Fn(a[i], a[i + 1]).end = a[i + 1]
  BY <1>1, FunctionIs
<1>3. f \in FunctionRecords /\ f.start = a[n + 1] /\ f.end = end
  <2>1. a[n + 1] \in Nat
    OBVIOUS
  <2> QED BY <2>1, FunctionIs
<1>4. \A i \in 1 .. n : p[i] = Fn(a[i], a[i + 1])
  BY DEF Pairs
<1>5. \A i \in 1 .. n : p[i] \in FunctionRecords /\ p[i].start = a[i] /\ p[i].end = a[i + 1]
  BY <1>2, <1>4
<1>6. p \in Seq(FunctionRecords) /\ Len(p) = n
  <2>1. p \in [1 .. n -> FunctionRecords]
    <3> HIDE DEF FunctionRecords
    <3> QED BY <1>2 DEF Pairs
  <2> HIDE DEF p, FunctionRecords
  <2> QED BY <2>1
<1>7. p \o <<>> = p
  <2> HIDE DEF p, FunctionRecords
  <2> QED BY <1>6
<1>8. Listed(p)
  <2>1. ASSUME NEW i \in 1 .. n - 1
        PROVE  p[i].end = p[i + 1].start /\ (NoneWraps => p[i].start < p[i].end)
    <3>1. i \in 1 .. n /\ i + 1 \in 1 .. n
      BY <2>1
    <3> HIDE DEF p
    <3> QED BY <1>1, <1>5, <3>1
  <2> HIDE DEF p
  <2>2. EndToEnd(p)
    BY <1>6, <2>1 DEF EndToEnd
  <2>3. NoneWraps => Ascends(p)
    BY <1>6, <2>1 DEF Ascends
  <2> QED BY <2>2, <2>3 DEF Listed, Ordered
<1>9. q \in Seq(FunctionRecords) /\ Len(q) = n + 1 /\ q[n + 1] = f
      /\ \A i \in 1 .. n : q[i] = p[i]
  <2> HIDE DEF p, FunctionRecords, f
  <2> QED BY <1>3, <1>6
<1>10. Listed(q)
  <2>1. ASSUME NEW i \in 1 .. n PROVE q[i].end = q[i + 1].start /\ (NoneWraps => q[i].start < q[i].end)
    <3>1. q[i].start = a[i] /\ q[i].end = a[i + 1]
      <4> HIDE DEF p, q
      <4> QED BY <1>5, <1>9
    <3>2. q[i + 1].start = a[i + 1]
      <4>1. CASE i = n
        <5> HIDE DEF p, q, f
        <5> QED BY <1>3, <1>9, <4>1
      <4>2. CASE i < n
        <5> DEFINE j == i + 1
        <5>1. j \in 1 .. n
          BY <4>2
        <5> HIDE DEF p, q, f, j
        <5>2. q[j] = p[j] /\ p[j].start = a[j]
          BY <1>5, <1>9, <5>1
        <5>3. q[j].start = a[j]
          BY <5>2
        <5> QED BY <5>3 DEF j
      <4>3. i = n \/ i < n
        OBVIOUS
      <4> HIDE DEF q
      <4> QED BY <4>1, <4>2, <4>3
    <3> QED BY <1>1, <3>1, <3>2
  <2> HIDE DEF p, q
  <2>2. \A i \in 1 .. Len(q) - 1 : i \in 1 .. n
    BY <1>9
  <2>3. EndToEnd(q)
    BY <1>9, <2>1, <2>2 DEF EndToEnd
  <2>4. NoneWraps => Ascends(q)
    BY <2>1, <2>2 DEF Ascends
  <2> QED BY <2>3, <2>4 DEF Listed, Ordered
<1> QED BY <1>7, <1>8, <1>10

(* GetFunctions decodes a linked list. *)
LEMMA DecodedIsListed ==
    ASSUME NEW stream \in Seq(Nat), stream # <<>>, code.base \in Nat,
           NoneWraps => Fits(stream),
           code.sections \in Seq([addr : Nat, size : Nat])
    PROVE  Listed(decodeStarts(stream))
<1> DEFINE m == Values(stream)
           a == StartAfter(stream)
           n == m - 1
<1>1. n \in Nat /\ m = n + 1 /\ \A i \in 2 .. m : stream[i] \in Nat /\ stream[i] > 0
  <2>1. /\ m \in 1 .. Len(stream) /\ \A i \in 1 .. m : stream[i] \in Nat
        /\ \A i \in 2 .. m : stream[i] > 0
    BY ValuesAre
  <2> HIDE DEF m
  <2> QED BY <2>1
<1>2. \A i \in 0 .. m : a[i] \in Nat
  BY StartsAre
<1>3. \A i \in 1 .. m : a[i] = (a[i - 1] + stream[i]) % AddrSpace
  BY StartsAre
<1>9. NoneWraps => \A i \in 1 .. m : a[i - 1] + stream[i] < AddrSpace
  BY DEF Fits
<1> HIDE DEF m, a
<1>4. ASSUME NoneWraps, NEW i \in 1 .. n PROVE a[i] < a[i + 1]
  <2> DEFINE j == i + 1
  <2>1. j \in 2 .. m /\ j \in 1 .. m /\ i = j - 1 /\ i \in 0 .. m
    BY <1>1
  <2> HIDE DEF j
  <2>4. /\ a[j] = (a[i] + stream[j]) % AddrSpace /\ a[i] + stream[j] < AddrSpace
        /\ stream[j] \in Nat /\ stream[j] > 0 /\ a[i] \in Nat
    BY <1>1, <1>2, <1>3, <1>4, <1>9, <2>1
  <2>5. a[i] + stream[j] \in Nat
    BY <2>4
  <2>2. a[j] = a[i] + stream[j] /\ stream[j] \in Nat /\ stream[j] > 0 /\ a[i] \in Nat
    BY <2>4, <2>5, SumsWrap
  <2>3. a[i] < a[j]
    BY <2>2
  <2> QED BY <2>3 DEF j
<1>5. \A i \in 1 .. n + 1 : a[i] \in Nat
  BY <1>1, <1>2
<1>6. decodeStarts(stream) = Pairs(a, n) \o lastFunction(a[n + 1])
  <2>1. decodeStarts(stream) = Pairs(a, n) \o lastFunction(a[m])
    BY DEF decodeStarts, Pairs, m, a
  <2> QED BY <1>1, <2>1
<1>7. a[n + 1] \in Nat
  BY <1>1, <1>5
<1>8. \/ lastFunction(a[n + 1]) = <<>>
      \/ \E end \in Nat : lastFunction(a[n + 1]) = <<Fn(a[n + 1], end)>>
  BY <1>7, LastFunctionIs
<1> HIDE DEF n
<1> QED BY <1>1, <1>4, <1>5, <1>6, <1>8, PairsAreListed

(* Clearing bits leaves a number. *)
LEMMA Halves ==
    ASSUME NEW x \in Nat
    PROVE  /\ x \div 2 \in Nat /\ x \div 2 <= x /\ (x > 0 => x \div 2 < x)
           /\ x % 2 \in {0, 1}
OBVIOUS

(* Clearing bits leaves a natural number.                                  *)
LEMMA AndNotIs ==
    ASSUME NEW x \in Nat, NEW m \in Nat
    PROVE  AndNot(x, m) \in Nat
<1> DEFINE D == (0 .. x) \X (0 .. m)
           half == [p \in D |-> <<p[1] \div 2, p[2] \div 2>>]
           bit == [p \in D |-> IF p[2] % 2 = 1 THEN 0 ELSE p[1] % 2]
           Code(u, p) == IF p[1] = 0 THEN 0
                         ELSE 2 * u[<<p[1] \div 2, p[2] \div 2>>]
                              + (IF p[2] % 2 = 1 THEN 0 ELSE p[1] % 2)
           upTo == CHOOSE u : u = [p \in D |-> Code(u, p)]
           Stop == {p \in D : p[1] = 0}
           size == [p \in D |-> p[1]]
           base == [p \in D |-> 0]
           step == [y \in D \X Nat |-> 2 * y[2] + bit[y[1]]]
<1>1. AndNot(x, m) = upTo[<<x, m>>]
  BY DEF AndNot
<1>2. ASSUME NEW a \in 0 .. x, NEW b \in 0 .. m
      PROVE  /\ <<a \div 2, b \div 2>> \in D
             /\ (IF b % 2 = 1 THEN 0 ELSE a % 2) \in Nat
             /\ a > 0 => a \div 2 < a
  <2>1. /\ a \div 2 \in Nat /\ a \div 2 <= a /\ (a > 0 => a \div 2 < a) /\ a % 2 \in {0, 1}
        /\ b \div 2 \in Nat /\ b \div 2 <= b
    BY Halves
  <2>2. a \div 2 \in 0 .. x /\ b \div 2 \in 0 .. m
    BY <2>1
  <2> QED BY <2>1, <2>2
<1>3. \A p \in D : /\ half[p] \in D /\ bit[p] \in Nat /\ half[p] = <<p[1] \div 2, p[2] \div 2>>
                   /\ bit[p] = IF p[2] % 2 = 1 THEN 0 ELSE p[1] % 2
                   /\ size[p] = p[1] /\ size[p] \in 0 .. x
                   /\ size[p] > 0 => size[half[p]] < size[p]
  <2> SUFFICES ASSUME NEW p \in D
               PROVE  /\ half[p] \in D /\ bit[p] \in Nat
                      /\ half[p] = <<p[1] \div 2, p[2] \div 2>>
                      /\ bit[p] = IF p[2] % 2 = 1 THEN 0 ELSE p[1] % 2
                      /\ size[p] = p[1] /\ size[p] \in 0 .. x
                      /\ size[p] > 0 => size[half[p]] < size[p]
    OBVIOUS
  <2>1. PICK a \in 0 .. x, b \in 0 .. m : p = <<a, b>>
    OBVIOUS
  <2>2. half[p] = <<a \div 2, b \div 2>> /\ bit[p] = (IF b % 2 = 1 THEN 0 ELSE a % 2) /\ size[p] = a
    BY <2>1
  <2>3. half[p] \in D
    BY <1>2, <2>2
  <2>4. size[half[p]] = a \div 2
    BY <2>2, <2>3
  <2> QED BY <1>2, <2>1, <2>2, <2>3, <2>4
<1>4. PICK f \in [D -> Nat] : Recurses(f, D, Stop, base, half, step)
  <2>1. step \in [D \X Nat -> Nat]
    <3>1. ASSUME NEW p \in D, NEW v \in Nat PROVE 2 * v + bit[p] \in Nat
      <4>1. bit[p] \in Nat
        BY <1>3
      <4> HIDE DEF bit
      <4> QED BY <4>1
    <3> HIDE DEF bit, D
    <3> QED BY <3>1
  <2>2. size \in [D -> 0 .. x] /\ base \in [D -> Nat] /\ half \in [D -> D]
    BY <1>3
  <2>3. \A p \in D \ Stop : size[half[p]] < size[p]
    BY <1>3
  <2> HIDE DEF D, Stop, step, size, base, half
  <2> QED BY <2>1, <2>2, <2>3, RecursiveFunctionExists
<1>5. \A p \in D : f[p] = Code(f, p)
  <2> SUFFICES ASSUME NEW p \in D PROVE f[p] = Code(f, p)
    OBVIOUS
  <2>1. CASE p[1] = 0
    <3>1. p \in Stop /\ base[p] = 0
      BY <2>1
    <3> HIDE DEF D, Stop, step, base, half
    <3> QED BY <1>4, <2>1, <3>1 DEF Recurses
  <2>2. CASE p[1] # 0
    <3> DEFINE v == f[half[p]]
    <3>1. p \notin Stop /\ half[p] \in D /\ v \in Nat
      BY <1>3, <2>2
    <3>2. f[p] = step[<<p, v>>]
      <4> HIDE DEF D, Stop, step, base, half
      <4> QED BY <1>4, <3>1 DEF Recurses
    <3>3. \A w \in Nat : step[<<p, w>>] = 2 * w + bit[p]
      <4> HIDE DEF D, bit
      <4> QED OBVIOUS
    <3>4. f[p] = 2 * v + bit[p]
      <4> HIDE DEF step, v, bit, D
      <4> QED BY <3>1, <3>2, <3>3
    <3>5. f[p] = 2 * f[<<p[1] \div 2, p[2] \div 2>>] + (IF p[2] % 2 = 1 THEN 0 ELSE p[1] % 2)
      <4> HIDE DEF bit, half, D
      <4> QED BY <1>3, <3>4
    <3> QED BY <2>2, <3>5
  <2> QED BY <2>1, <2>2
<1>6. f = [p \in D |-> Code(f, p)]
  <2> HIDE DEF Code, D
  <2> QED BY <1>5
<1>7. upTo = [p \in D |-> Code(upTo, p)]
  <2> HIDE DEF Code, D
  <2> QED BY <1>6
<1> HIDE DEF upTo
<1>8. \A p \in D : upTo[p] = IF size[p] = 0 THEN 0 ELSE 2 * upTo[half[p]] + bit[p]
  <2>1. \A p \in D : upTo[p] = Code(upTo, p)
    BY <1>7
  <2> HIDE DEF D, half, bit, size
  <2> QED BY <1>3, <2>1
<1> DEFINE S == {p \in D : upTo[p] \in Nat}
<1>9. ASSUME NEW p \in D, \A q \in D : size[q] < size[p] => q \in S PROVE p \in S
  <2> DEFINE v == upTo[half[p]]
  <2>1. half[p] \in D /\ bit[p] \in Nat /\ size[p] \in 0 .. x
        /\ (size[p] > 0 => size[half[p]] < size[p])
    BY <1>3
  <2>2. upTo[p] = IF size[p] = 0 THEN 0 ELSE 2 * v + bit[p]
    BY <1>8
  <2>3. size[p] # 0 => v \in Nat
    <3> HIDE DEF D, half, bit, size
    <3> QED BY <1>9, <2>1
  <2>4. upTo[p] \in Nat
    <3> HIDE DEF D, half, bit, size, v
    <3> QED BY <2>1, <2>2, <2>3
  <2> QED BY <2>4
<1>10. <<x, m>> \in S
  <2>1. size \in [D -> 0 .. x] /\ <<x, m>> \in D
    BY <1>3
  <2> HIDE DEF D, S, size
  <2> QED BY <1>9, <2>1, MeasureInduction
<1> QED BY <1>1, <1>10

(* An address that is rounded up is an address.                            *)
LEMMA AlignIs ==
    ASSUME NEW a \in Nat, NEW n \in Nat
    PROVE  Align(a, n) \in Nat
<1>1. CASE n = 0
  BY <1>1 DEF Align
<1>2. CASE n # 0
  <2> DEFINE b == a + n - 1
             r == b % AddrSpace
             m == n - 1
  <2>1. b \in Nat /\ m \in Nat
    BY <1>2
  <2>2. r \in Nat
    <3> HIDE DEF b
    <3> QED BY <2>1, AddrSpaceAssumption
  <2>3. Align(a, n) = AndNot(r, m)
    BY <1>2 DEF Align
  <2> HIDE DEF r, m
  <2> QED BY <2>1, <2>2, <2>3, AndNotIs
<1> QED BY <1>1, <1>2

Increasing(s, limit) ==
    /\ s \in Seq(Nat)
    /\ \A i \in 1 .. Len(s) : s[i] < limit
    /\ \A i \in 1 .. Len(s) - 1 : s[i] < s[i + 1]

(* A later address keeps the addresses increasing.                         *)
LEMMA IncreasingOn ==
    ASSUME NEW s, NEW l \in Nat, Increasing(s, l), NEW k \in Nat, l <= k
    PROVE  Increasing(s, k + 1) /\ Increasing(Append(s, k), k + 1)
<1> DEFINE n == Len(s)
           t == Append(s, k)
<1>1. s \in Seq(Nat) /\ n \in Nat /\ \A i \in 1 .. n : s[i] \in Nat /\ s[i] < l
  BY DEF Increasing
<1>2. \A i \in 1 .. n - 1 : s[i] < s[i + 1]
  BY DEF Increasing
<1>3. t \in Seq(Nat) /\ Len(t) = n + 1 /\ t[n + 1] = k /\ \A i \in 1 .. n : t[i] = s[i]
  BY <1>1
<1> HIDE DEF n, t
<1>4. ASSUME NEW i \in 1 .. n + 1 PROVE t[i] < k + 1
  BY <1>1, <1>3
<1>5. ASSUME NEW i \in 1 .. n PROVE t[i] < t[i + 1]
  <2>1. CASE i = n
    BY <1>1, <1>3, <2>1
  <2>2. CASE i # n
    <3> DEFINE j == i + 1
    <3>1. i \in 1 .. n - 1 /\ j \in 1 .. n
      BY <1>1, <2>2
    <3>2. s[i] < s[j]
      BY <1>2, <3>1
    <3> HIDE DEF j
    <3>3. t[i] < t[j]
      BY <1>3, <3>1, <3>2
    <3> QED BY <3>3 DEF j
  <2> QED BY <2>1, <2>2
<1>6. Increasing(t, k + 1)
  <2>1. \A i \in 1 .. Len(t) : t[i] < k + 1
    BY <1>3, <1>4
  <2>2. \A i \in 1 .. Len(t) - 1 : t[i] < t[i + 1]
    <3>1. Len(t) - 1 = n
      BY <1>1, <1>3
    <3> QED BY <1>5, <3>1
  <2> QED BY <1>3, <2>1, <2>2 DEF Increasing
<1>7. Increasing(s, k + 1)
  BY <1>1, <1>2 DEF Increasing, n
<1> QED BY <1>6, <1>7 DEF t

(* The prologues are found in order when __text does not wrap. *)
LEMMA ProloguesAre ==
    ASSUME code.text.addr \in Nat, code.text.words \in Seq(STRING)
    PROVE  /\ Prologues \in Seq(Nat)
           /\ NoneWraps /\ code.text # None => \E l \in Nat : Increasing(Prologues, l)
<1> DEFINE words == code.text.words
           addr == code.text.addr
           n == Len(words)
           D == 0 .. n
           Code(u, i) == IF i = 0 THEN <<>>
                         ELSE IF words[i] # "pacibsp" THEN u[i - 1]
                         ELSE Append(u[i - 1], (addr + (i - 1) * Word) % AddrSpace)
           upTo == CHOOSE u : u = [i \in D |-> Code(u, i)]
           item == [i \in 1 .. n |-> (addr + (i - 1) * Word) % AddrSpace]
           K == {i \in 1 .. n : words[i] = "pacibsp"}
<1>1. Prologues = upTo[n]
  BY DEF Prologues
<1>2. n \in Nat /\ addr \in Nat
  OBVIOUS
<1>13. NoneWraps /\ code.text # None => addr + n * 4 < AddrSpace
  BY DEF NoneWraps, Word
<1> DEFINE Fit == NoneWraps /\ code.text # None
<1> HIDE DEF n, addr, words
<1>3. \A i \in 1 .. n : /\ item[i] = (addr + (i - 1) * Word) % AddrSpace /\ item[i] \in Nat
                        /\ Fit => item[i] = addr + (i - 1) * 4
  <2> SUFFICES ASSUME NEW i \in 1 .. n
               PROVE  /\ (addr + (i - 1) * Word) % AddrSpace \in Nat
                      /\ Fit => (addr + (i - 1) * Word) % AddrSpace = addr + (i - 1) * 4
    OBVIOUS
  <2> DEFINE x == addr + (i - 1) * Word
  <2>1. x \in Nat /\ x = addr + (i - 1) * 4 /\ x < addr + n * 4
    BY <1>2 DEF Word
  <2>2. Fit => x < AddrSpace
    <3> HIDE DEF x
    <3> QED BY <1>2, <1>13, <2>1, AddrSpaceAssumption
  <2> HIDE DEF x
  <2>3. x % AddrSpace \in Nat /\ (Fit => x % AddrSpace = addr + (i - 1) * 4)
    BY <2>1, <2>2, SumsWrap
  <2> QED BY <2>3 DEF x
<1>4. PICK f \in [D -> Seq(Nat)] : Keeps(f, n, item, K)
  <2>1. item \in [1 .. n -> Nat]
    BY <1>3
  <2> HIDE DEF item, K
  <2> QED BY <1>2, <2>1, KeptExists
<1>5. \A i \in D : f[i] = Code(f, i)
  <2>1. \A i \in D : i # 0 => /\ i \in 1 .. n /\ item[i] = (addr + (i - 1) * Word) % AddrSpace
                              /\ (i \in K <=> words[i] = "pacibsp")
    BY <1>2, <1>3
  <2> HIDE DEF item, K
  <2> QED BY <1>4, <2>1 DEF Keeps
<1>6. f = [i \in D |-> Code(f, i)]
  <2> HIDE DEF Code, D
  <2> QED BY <1>5
<1>7. upTo = [i \in D |-> Code(upTo, i)]
  <2> HIDE DEF Code, D
  <2> QED BY <1>6
<1> HIDE DEF upTo
<1>8. upTo[0] = <<>> /\ \A i \in 1 .. n : upTo[i] = IF i \in K THEN Append(upTo[i - 1], item[i])
                                                    ELSE upTo[i - 1]
  <2>1. \A i \in D : upTo[i] = Code(upTo, i)
    BY <1>7
  <2>2. 0 \in D /\ \A i \in 1 .. n : /\ i \in D /\ i # 0 /\ item[i] = (addr + (i - 1) * Word) % AddrSpace
                                     /\ (i \in K <=> words[i] = "pacibsp")
    BY <1>2, <1>3
  <2> HIDE DEF D, item, K
  <2> QED BY <2>1, <2>2
<1> DEFINE S == {i \in D : upTo[i] \in Seq(Nat) /\ (Fit => Increasing(upTo[i], addr + i * 4))}
<1> HIDE DEF Fit
<1>9. 0 \in S
  <2>1. Increasing(<<>>, addr + 0 * 4)
    BY DEF Increasing
  <2>2. 0 \in D /\ upTo[0] = <<>> /\ <<>> \in Seq(Nat)
    BY <1>2, <1>8
  <2> HIDE DEF D, upTo
  <2> QED BY <2>1, <2>2
<1>10. ASSUME NEW i \in 1 .. n, i - 1 \in S PROVE i \in S
  <2> DEFINE v == upTo[i - 1]
             l == addr + (i - 1) * 4
             m == l + 1
             k == addr + i * 4
  <2>1. v \in Seq(Nat) /\ (Fit => Increasing(v, l)) /\ i \in D
    <3>1. i \in D
      BY <1>2
    <3> HIDE DEF D, upTo, item, K
    <3> QED BY <1>10, <3>1
  <2>2. l \in Nat /\ k \in Nat /\ item[i] \in Nat /\ (Fit => item[i] = l) /\ k = l + 4
    BY <1>2, <1>3
  <2>3. upTo[i] = IF i \in K THEN Append(v, item[i]) ELSE v
    BY <1>8
  <2> HIDE DEF v, k, l, item
  <2>8. upTo[i] \in Seq(Nat)
    BY <2>1, <2>2, <2>3
  <2>4. ASSUME Fit PROVE Increasing(v, m) /\ Increasing(Append(v, l), m)
    <3>1. Increasing(v, l) /\ l \in Nat /\ l <= l
      BY <2>1, <2>2, <2>4
    <3> QED BY <3>1, IncreasingOn
  <2>5. Fit => Increasing(upTo[i], m)
    BY <2>2, <2>3, <2>4
  <2>6. \A s : Increasing(s, m) => Increasing(s, k)
    <3> SUFFICES ASSUME NEW s, Increasing(s, m) PROVE Increasing(s, k)
      OBVIOUS
    <3>1. s \in Seq(Nat) /\ \A j \in 1 .. Len(s) : s[j] \in Nat /\ s[j] < m
      BY DEF Increasing
    <3>2. \A j \in 1 .. Len(s) : s[j] < k
      BY <2>2, <3>1, SMTT(30)
    <3> QED BY <3>1, <3>2 DEF Increasing
  <2>7. Fit => Increasing(upTo[i], k)
    BY <2>5, <2>6
  <2> QED BY <2>1, <2>7, <2>8 DEF k
<1>11. n \in S
  <2> HIDE DEF S
  <2>1. \A i \in 0 .. n : i \in S
    BY <1>2, <1>9, <1>10, CountInduction
  <2> QED BY <1>2, <2>1
<1>12. addr + n * 4 \in Nat
  BY <1>2
<1>14. Prologues \in Seq(Nat) /\ (Fit => Increasing(Prologues, addr + n * 4))
  <2> HIDE DEF D, K, item
  <2> QED BY <1>1, <1>11
<1> QED BY <1>12, <1>14 DEF Fit

(* GenerateFunctionStarts finds a linked list. *)
LEMMA GeneratedIsListed ==
    ASSUME code.text # None, code.text.addr \in Nat, code.text.words \in Seq(STRING), code.text.align \in Nat
    PROVE  Listed(generate)
<1> DEFINE p == Prologues
           n == Len(p)
           end == (code.text.addr + Len(code.text.words) * Word) % AddrSpace
           last == Align(end, code.text.align)
<1>1. p \in Seq(Nat) /\ (NoneWraps => \E l \in Nat : Increasing(p, l))
  BY ProloguesAre
<1>2. n \in Nat /\ \A i \in 1 .. n : p[i] \in Nat
  BY <1>1
<1>3. NoneWraps => \A i \in 1 .. n - 1 : p[i] < p[i + 1]
  BY <1>1 DEF Increasing
<1>4. last \in Nat
  <2>1. end \in Nat
    <3>1. Len(code.text.words) \in Nat
      OBVIOUS
    <3>2. code.text.addr + Len(code.text.words) * Word \in Nat
      BY <3>1 DEF Word
    <3> QED BY <3>2, SumsWrap
  <2> HIDE DEF end
  <2> QED BY <2>1, AlignIs
<1>5. generate = [i \in 1 .. n |-> Fn(p[i], IF i < n THEN p[i + 1] ELSE last)]
  BY DEF generate
<1> HIDE DEF p, n, last
<1> DEFINE To(i) == IF i < n THEN p[i + 1] ELSE last
<1>6. \A i \in 1 .. n : To(i) \in Nat
  <2> SUFFICES ASSUME NEW i \in 1 .. n PROVE To(i) \in Nat
    OBVIOUS
  <2>1. i < n => i + 1 \in 1 .. n
    BY <1>2
  <2> QED BY <1>2, <1>4, <2>1
<1>7. \A i \in 1 .. n : i < n => To(i) = p[i + 1]
  OBVIOUS
<1>8. generate = [i \in 1 .. n |-> Fn(p[i], To(i))]
  BY <1>5
<1> HIDE DEF To
<1>9. \A i \in 1 .. n : Fn(p[i], To(i)) \in FunctionRecords
                        /\ Fn(p[i], To(i)).start = p[i] /\ Fn(p[i], To(i)).end = To(i)
  BY <1>2, <1>6, FunctionIs
<1> DEFINE g == generate
<1>10. g \in Seq(FunctionRecords) /\ Len(g) = n /\ \A i \in 1 .. n : g[i].start = p[i] /\ g[i].end = To(i)
  <2>1. g \in [1 .. n -> FunctionRecords] /\ \A i \in 1 .. n : g[i] = Fn(p[i], To(i))
    <3> HIDE DEF FunctionRecords
    <3> QED BY <1>8, <1>9
  <2> HIDE DEF g, FunctionRecords
  <2>2. g \in Seq(FunctionRecords) /\ Len(g) = n
    BY <1>2, <2>1
  <2>3. \A i \in 1 .. n : g[i].start = p[i] /\ g[i].end = To(i)
    BY <1>9, <2>1
  <2> QED BY <2>2, <2>3
<1> HIDE DEF g
<1>11. ASSUME NEW i \in 1 .. n - 1 PROVE g[i].end = g[i + 1].start /\ (NoneWraps => g[i].start < g[i].end)
  <2> DEFINE j == i + 1
  <2>1. i \in 1 .. n /\ i < n /\ j \in 1 .. n
    BY <1>2
  <2>2. (NoneWraps => p[i] < p[j]) /\ To(i) = p[j]
    BY <1>3, <1>7, <2>1
  <2> HIDE DEF j
  <2>3. g[i].end = g[j].start /\ (NoneWraps => g[i].start < g[i].end)
    BY <1>10, <2>1, <2>2
  <2> QED BY <2>3 DEF j
<1>12. Listed(g)
  <2>1. EndToEnd(g)
    BY <1>2, <1>10, <1>11 DEF EndToEnd
  <2>2. NoneWraps => Ascends(g)
    BY <1>2, <1>10, <1>11 DEF Ascends
  <2> QED BY <2>1, <2>2 DEF Listed, Ordered
<1> QED BY <1>12 DEF g

(* Every list that is built or published is linked, and what a call        *)
(* returned is nothing or what is published.                               *)
IsCall(k) ==
    /\ k = [op |-> k.op, given |-> k.given, built |-> k.built]
    /\ k.given \in Given \cup {<<>>}
    /\ k.built # None => Listed(k.built)

FunctionsInv ==
    /\ code \in FunctionFiles
    /\ Listed(functions)
    /\ call = [c \in Callers |-> call[c]]
    /\ lists = [c \in Callers |-> lists[c]]
    /\ \A c \in Callers :
          /\ lists[c] \in {<<>>, functions}
          /\ call[c] # None => IsCall(call[c])

(* The list that no call has filled is linked.                             *)
LEMMA NoneIsListed == Listed(<<>>)
BY DEF Listed, Ordered, EndToEnd, Ascends

(* The property is what the invariant says of the lists. *)
LEMMA ListsAreOne ==
    ASSUME FunctionsInv
    PROVE  FunctionListsAreOne
<1> SUFFICES ASSUME NEW c \in Callers
             PROVE  LET list == lists[c]
                    IN  /\ list \in {<<>>, functions}
                        /\ \A i \in 1 .. Len(list) - 1 : list[i].end = list[i + 1].start
                        /\ NoneWraps => Ascends(list)
                        /\ Ascends(list) =>
                              \A i \in DOMAIN list : \A a \in {list[i].start, list[i].end - 1} :
                                 list[i].start < list[i].end
                                    => GetFunctionForVMAddr(list, a) = list[i]
  BY DEF FunctionListsAreOne
<1> DEFINE list == lists[c]
<1>1. list \in {<<>>, functions}
  BY DEF FunctionsInv
<1>2. Listed(list)
  BY <1>1, NoneIsListed DEF FunctionsInv
<1>3. /\ \A i \in 1 .. Len(list) - 1 : list[i].end = list[i + 1].start
      /\ NoneWraps => Ascends(list)
      /\ Ascends(list) => Ordered(list)
  BY <1>2 DEF Listed, Ordered, EndToEnd
<1> HIDE DEF list
<1>4. Ascends(list) => \A i \in DOMAIN list : \A a \in {list[i].start, list[i].end - 1} :
         list[i].start < list[i].end => GetFunctionForVMAddr(list, a) = list[i]
  BY <1>3, OrderedListsAnswer
<1> QED BY <1>1, <1>3, <1>4 DEF list

(* Whether addresses wrap depends on the file alone.                       *)
LEMMA WrapsStay ==
    ASSUME UNCHANGED code
    PROVE  NoneWraps' <=> NoneWraps
BY DEF NoneWraps, Fits, StartAfter, Values

(* Nothing is cached or handed out at first.                               *)
LEMMA CallsBegin == FunctionsInit => FunctionsInv
<1> SUFFICES ASSUME FunctionsInit PROVE FunctionsInv
  OBVIOUS
<1> USE DEF FunctionsInit
<1>1. call = [c \in Callers |-> call[c]] /\ lists = [c \in Callers |-> lists[c]]
  OBVIOUS
<1>2. \A c \in Callers : lists[c] = <<>> /\ call[c] = None
  OBVIOUS
<1> QED BY <1>1, <1>2, NoneIsListed DEF FunctionsInv

(* A call that returns nothing or the published list keeps the invariant,  *)
(* and so does one that goes on. *)
LEMMA ReturnsKeeps ==
    ASSUME FunctionsInv, NEW c \in Callers, NEW list, Returns(c, list), UNCHANGED code,
           list \in {<<>>, functions'}, Listed(functions'),
           functions' = functions \/ functions = <<>>
    PROVE  FunctionsInv'
<1>1. call' = [d \in Callers |-> call'[d]] /\ lists' = [d \in Callers |-> lists'[d]]
  BY DEF Returns, FunctionsInv
<1>2. ASSUME NEW d \in Callers PROVE /\ lists'[d] \in {<<>>, functions'}
                                     /\ call'[d] # None => IsCall(call'[d])
  <2>1. CASE d = c
    <3>1. lists'[d] = list /\ call'[d] = None
      BY <2>1 DEF Returns, FunctionsInv
    <3> QED BY <3>1
  <2>2. CASE d # c
    <3>1. lists'[d] = lists[d] /\ call'[d] = call[d]
      BY <2>2 DEF Returns, FunctionsInv
    <3> QED BY <3>1 DEF FunctionsInv
  <2> QED BY <2>1, <2>2
<1>3. (\A d \in Callers : /\ lists[d] \in {<<>>, functions}
                          /\ call[d] # None => IsCall(call[d]))'
  BY <1>2, WrapsStay DEF IsCall, Listed
<1>4. code' \in FunctionFiles
  BY DEF FunctionsInv
<1> QED BY <1>1, <1>3, <1>4, WrapsStay DEF FunctionsInv, Listed

(* A caller that goes on to its next step disturbs no list.                *)
LEMMA GoesOnKeeps ==
    ASSUME FunctionsInv, NEW c \in Callers, NEW k, call' = [call EXCEPT ![c] = k], IsCall(k),
           UNCHANGED <<code, functions, lists>>
    PROVE  FunctionsInv'
<1>1. call' = [d \in Callers |-> call'[d]]
  BY DEF FunctionsInv
<1>2. ASSUME NEW d \in Callers PROVE call'[d] # None => IsCall(call'[d])
  <2>1. call'[d] = k \/ call'[d] = call[d]
    BY DEF FunctionsInv
  <2> QED BY <2>1 DEF FunctionsInv
<1>3. (\A d \in Callers : /\ lists[d] \in {<<>>, functions}
                          /\ call[d] # None => IsCall(call[d]))'
  BY <1>2, WrapsStay DEF IsCall, Listed, FunctionsInv
<1> QED BY <1>1, <1>3, WrapsStay DEF FunctionsInv, Listed

(* What a file and a caller give. *)
LEMMA GivenIs ==
    ASSUME FunctionsInv
    PROVE  /\ code.base \in Nat /\ code.sections \in Seq([addr : Nat, size : Nat])
           /\ code.starts # None => code.starts \in Seq(Nat)
           /\ code.text # None => /\ code.text.addr \in Nat /\ code.text.align \in Nat
                                  /\ code.text.words \in Seq(STRING)
BY FunctionFilesAssumption DEF FunctionsInv

(* Every step of every caller keeps the invariant.                         *)
LEMMA FunctionsKeep == FunctionsInv /\ [FunctionsNext]_functionVars => FunctionsInv'
<1> SUFFICES ASSUME FunctionsInv, [FunctionsNext]_functionVars PROVE FunctionsInv'
  OBVIOUS
<1>0. Listed(functions) /\ code \in FunctionFiles
  BY DEF FunctionsInv
<1>1. ASSUME NEW c \in Callers, NEW op, NEW given \in Given \cup {<<>>},
             cachedFunctions(c, op, given)
      PROVE  FunctionsInv'
  <2> DEFINE k == [op |-> op, given |-> given, built |-> None]
  <2>1. CASE functions # <<>>
    <3>1. Returns(c, functions) /\ UNCHANGED <<code, functions>>
      BY <1>1, <2>1 DEF cachedFunctions
    <3>2. Listed(functions')
      BY <1>0, <3>1
    <3> QED BY <3>1, <3>2, ReturnsKeeps
  <2>2. CASE functions = <<>>
    <3>1. call' = [call EXCEPT ![c] = k] /\ UNCHANGED <<code, functions, lists>>
      BY <1>1, <2>2 DEF cachedFunctions
    <3>2. IsCall(k)
      BY DEF IsCall
    <3> HIDE DEF k
    <3> QED BY <3>1, <3>2, GoesOnKeeps
  <2> QED BY <2>1, <2>2
<1>2. ASSUME NEW c \in Callers, searchInstead(c) PROVE FunctionsInv'
  <2>1. CASE functions # <<>>
    <3>1. Returns(c, functions) /\ UNCHANGED <<code, functions>>
      BY <1>2, <2>1 DEF searchInstead
    <3>2. Listed(functions')
      BY <1>0, <3>1
    <3> QED BY <3>1, <3>2, ReturnsKeeps
  <2>2. CASE functions = <<>>
    <3> DEFINE k == [call[c] EXCEPT !.op = "search"]
    <3>1. call' = [call EXCEPT ![c] = k] /\ UNCHANGED <<code, functions, lists>>
      BY <1>2, <2>2 DEF searchInstead
    <3>2. IsCall(call[c])
      BY <1>2 DEF searchInstead, FunctionsInv
    <3>3. k = [op |-> "search", given |-> call[c].given, built |-> call[c].built]
      BY <3>2 DEF IsCall
    <3>4. IsCall(k)
      <4>1. k.op = "search" /\ k.given = call[c].given /\ k.built = call[c].built
        BY <3>3
      <4> HIDE DEF k
      <4> QED BY <3>2, <3>3, <4>1 DEF IsCall
    <3> HIDE DEF k
    <3> QED BY <3>1, <3>4, GoesOnKeeps
  <2> QED BY <2>1, <2>2
<1>3. ASSUME NEW c \in Callers, NEW list, call[c] # None, Listed(list),
             call' = [call EXCEPT ![c].built = list], UNCHANGED <<code, functions, lists>>
      PROVE  FunctionsInv'
  <2> DEFINE k == [call[c] EXCEPT !.built = list]
  <2>1. call' = [call EXCEPT ![c] = k]
    BY <1>3
  <2>2. IsCall(call[c])
    BY <1>3 DEF FunctionsInv
  <2>3. k = [op |-> call[c].op, given |-> call[c].given, built |-> list]
    BY <2>2 DEF IsCall
  <2>4. IsCall(k)
    <3>1. k.op = call[c].op /\ k.given = call[c].given /\ k.built = list
      BY <2>3
    <3> HIDE DEF k
    <3> QED BY <1>3, <2>2, <2>3, <3>1 DEF IsCall
  <2> HIDE DEF k
  <2> QED BY <1>3, <2>1, <2>4, GoesOnKeeps
<1>4. ASSUME NEW c \in Callers, Returns(c, <<>>), UNCHANGED <<code, functions>> PROVE FunctionsInv'
  <2>1. Listed(functions')
    BY <1>0, <1>4
  <2> QED BY <1>4, <2>1, ReturnsKeeps
<1>5. ASSUME NEW c \in Callers, GetFunctions(c) PROVE FunctionsInv'
  <2> DEFINE stream == IF call[c].given # <<>> THEN call[c].given ELSE code.starts
  <2>1. \/ Returns(c, <<>>) /\ UNCHANGED <<code, functions>>
        \/ /\ call[c] # None /\ stream # <<>> /\ code.starts # None
           /\ call' = [call EXCEPT ![c].built = decodeStarts(stream)]
           /\ UNCHANGED <<code, functions, lists>>
    BY <1>5 DEF GetFunctions
  <2>2. CASE Returns(c, <<>>) /\ UNCHANGED <<code, functions>>
    BY <1>4, <2>2
  <2>3. CASE /\ call[c] # None /\ stream # <<>> /\ code.starts # None
             /\ call' = [call EXCEPT ![c].built = decodeStarts(stream)]
             /\ UNCHANGED <<code, functions, lists>>
    <3>1. call[c].given \in Given \cup {<<>>}
      BY <2>3 DEF FunctionsInv, IsCall
    <3>2. stream \in Seq(Nat)
      <4>1. code.starts \in Seq(Nat)
        BY <2>3, GivenIs
      <4> QED BY <3>1, <4>1, StreamsAssumption
    <3>4. NoneWraps => Fits(stream)
      BY <2>3, <3>1 DEF NoneWraps
    <3> HIDE DEF stream
    <3>3. Listed(decodeStarts(stream))
      BY <2>3, <3>2, <3>4, GivenIs, DecodedIsListed
    <3> QED BY <1>3, <2>3, <3>3
  <2> QED BY <2>1, <2>2, <2>3
<1>6. ASSUME NEW c \in Callers, GenerateFunctionStarts(c) PROVE FunctionsInv'
  <2>1. CASE Returns(c, <<>>)
    BY <1>4, <1>6, <2>1 DEF GenerateFunctionStarts
  <2>2. CASE ~Returns(c, <<>>)
    <3>1. /\ call[c] # None /\ code.text # None /\ call' = [call EXCEPT ![c].built = generate]
          /\ UNCHANGED <<code, functions, lists>>
      BY <1>6, <2>2 DEF GenerateFunctionStarts, Generates
    <3>2. Listed(generate)
      BY <3>1, GivenIs, GeneratedIsListed
    <3> QED BY <1>3, <3>1, <3>2
  <2> QED BY <2>1, <2>2
<1>7. ASSUME NEW c \in Callers, publishFunctions(c) PROVE FunctionsInv'
  <2>1. /\ call[c] # None /\ call[c].built # None /\ Returns(c, functions') /\ UNCHANGED code
        /\ functions' = IF functions = <<>> THEN call[c].built ELSE functions
    BY <1>7 DEF publishFunctions
  <2>2. Listed(call[c].built)
    BY <2>1 DEF FunctionsInv, IsCall
  <2>3. Listed(functions')
    BY <1>0, <2>1, <2>2
  <2> QED BY <2>1, <2>3, ReturnsKeeps
<1>8. CASE UNCHANGED functionVars
  <2>1. code' = code /\ functions' = functions /\ call' = call /\ lists' = lists
    BY <1>8 DEF functionVars
  <2> QED BY <2>1, WrapsStay DEF FunctionsInv, Listed, IsCall
<1>9. CASE FunctionsNext
  <2>1. PICK c \in Callers :
           \/ cachedFunctions(c, "search", <<>>)
           \/ \E given \in Given : cachedFunctions(c, "starts", given)
           \/ searchInstead(c) \/ GetFunctions(c)
           \/ GenerateFunctionStarts(c) \/ publishFunctions(c)
    BY <1>9 DEF FunctionsNext
  <2>2. CASE cachedFunctions(c, "search", <<>>)
    BY <1>1, <2>2
  <2>3. CASE \E given \in Given : cachedFunctions(c, "starts", given)
    BY <1>1, <2>3
  <2> QED BY <1>2, <1>5, <1>6, <1>7, <2>1, <2>2, <2>3
<1> QED BY <1>8, <1>9

(* FunctionListsAreOne: whatever races and wherever addresses wrap, a list *)
(* that is handed out is the published one and each function ends where    *)
(* the next one starts; its functions ascend when no address wraps, and an *)
(* address is then found in its own function.                              *)
THEOREM CallersShareOneList == FunctionsSpec => []FunctionListsAreOne
<1>1. FunctionsInit => FunctionsInv
  BY CallsBegin
<1>2. FunctionsInv /\ [FunctionsNext]_functionVars => FunctionsInv'
  BY FunctionsKeep
<1>3. FunctionsInv => FunctionListsAreOne
  BY ListsAreOne
<1> QED BY <1>1, <1>2, <1>3, PTL DEF FunctionsSpec

-----------------------------------------------------------------------------
(* Payloads decoded on demand.                                             *)

(* The name of an entry once it has been looked for. *)
Named(e, parsed) ==
    IF e.index \/ e.symbol # "" THEN e
    ELSE [e EXCEPT !.symbol = variantName(file.base + e.impl, parsed)]

(* Entries and tables as they are parsed, without names. *)
EntryOf(impl, symbol, index) == [impl |-> impl, symbol |-> symbol, index |-> index]

Rename(e, symbol) == [e EXCEPT !.symbol = symbol]

IsEntry(e) == e = EntryOf(e.impl, "", e.index)

IsTable(r) == r = [j \in DOMAIN r |-> r[j]] /\ \A j \in DOMAIN r : IsEntry(r[j])

IsTables(t) == t = [i \in DOMAIN t |-> t[i]] /\ \A i \in DOMAIN t : IsTable(t[i])

(* The fields of an entry, and the entry under another name.               *)
LEMMA EntryIs ==
    ASSUME NEW a, NEW s, NEW b, NEW m
    PROVE  /\ EntryOf(a, s, b).impl = a /\ EntryOf(a, s, b).symbol = s /\ EntryOf(a, s, b).index = b
           /\ Rename(EntryOf(a, s, b), m) = EntryOf(a, m, b)
BY DEF EntryOf, Rename

(* A name that was found stays when the exports are parsed later.          *)
LEMMA NamesStay ==
    ASSUME NEW a, NEW p \in BOOLEAN, NEW q \in BOOLEAN, p => q, variantName(a, p) # ""
    PROVE  variantName(a, q) = variantName(a, p)
BY DEF variantName

(* An entry looked up twice is what the second look would have found.      *)
LEMMA NamedAgain ==
    ASSUME NEW e, IsEntry(e), NEW p \in BOOLEAN, NEW q \in BOOLEAN, p => q
    PROVE  Named(Named(e, p), q) = Named(e, q)
<1> DEFINE a == file.base + e.impl
           n == variantName(a, p)
           x == Named(e, p)
<1>0. e.symbol = "" /\ \A m : Rename(e, m) = EntryOf(e.impl, m, e.index)
  <2> DEFINE c == e.impl
             d == e.index
  <2>1. e = EntryOf(c, "", d)
    BY DEF IsEntry
  <2> HIDE DEF c, d
  <2>2. EntryOf(c, "", d).symbol = ""
    BY DEF EntryOf
  <2>3. \A s, m : Rename(EntryOf(c, s, d), m) = EntryOf(c, m, d)
    BY DEF EntryOf, Rename
  <2>4. e.symbol = ""
    BY <2>1, <2>2
  <2>5. \A m : Rename(e, m) = EntryOf(c, m, d)
    BY <2>1, <2>3
  <2> QED BY <2>4, <2>5 DEF c, d
<1>1. CASE e.index
  <2>1. x = e
    BY <1>1 DEF Named
  <2> QED BY <2>1
<1>2. CASE ~e.index
  <2>1. \A r : Named(e, r) = EntryOf(e.impl, variantName(a, r), e.index)
    BY <1>0, <1>2 DEF Named, Rename
  <2> HIDE DEF a, n
  <2>2. x = EntryOf(e.impl, n, e.index)
    BY <2>1 DEF n
  <2> HIDE DEF x
  <2>3. x.impl = e.impl /\ x.symbol = n /\ x.index = e.index
    BY <2>2, EntryIs
  <2>4. CASE n # ""
    <3>1. Named(x, q) = x
      BY <2>3, <2>4 DEF Named
    <3>2. variantName(a, q) = n
      BY <2>4, NamesStay DEF n
    <3>3. Named(e, q) = x
      BY <2>1, <2>2, <3>2
    <3> QED BY <3>1, <3>3 DEF x
  <2>5. CASE n = ""
    <3>1. x = e
      BY <2>2, <2>5 DEF IsEntry
    <3> QED BY <3>1 DEF x
  <2> QED BY <2>4, <2>5
<1> QED BY <1>1, <1>2

(* Resolving names each entry by itself.                                   *)
LEMMA ResolvedIs ==
    ASSUME NEW t, NEW p
    PROVE  resolveFunctionVariantSymbolsIfParsed(t, p)
              = [i \in DOMAIN t |-> [j \in DOMAIN t[i] |-> Named(t[i][j], p)]]
BY DEF resolveFunctionVariantSymbolsIfParsed, Named

(* Names are settled: looked for twice, they are what the second look alone *)
(* would have found.                                                       *)
LEMMA ResolvedAgain ==
    ASSUME NEW t, IsTables(t), NEW p \in BOOLEAN, NEW q \in BOOLEAN, p => q
    PROVE  resolveFunctionVariantSymbolsIfParsed(resolveFunctionVariantSymbolsIfParsed(t, p), q)
              = resolveFunctionVariantSymbolsIfParsed(t, q)
<1> DEFINE R(s, r) == [i \in DOMAIN s |-> [j \in DOMAIN s[i] |-> Named(s[i][j], r)]]
           u == R(t, p)
<1>1. \A s, r : resolveFunctionVariantSymbolsIfParsed(s, r) = R(s, r)
  BY ResolvedIs
<1>2. DOMAIN u = DOMAIN t /\ \A i \in DOMAIN t : u[i] = [j \in DOMAIN t[i] |-> Named(t[i][j], p)]
  OBVIOUS
<1>3. ASSUME NEW i \in DOMAIN t
      PROVE  DOMAIN u[i] = DOMAIN t[i] /\ \A j \in DOMAIN t[i] : u[i][j] = Named(t[i][j], p)
  <2>1. u[i] = [j \in DOMAIN t[i] |-> Named(t[i][j], p)]
    BY <1>2
  <2> QED BY <2>1
<1>4. ASSUME NEW i \in DOMAIN t, NEW j \in DOMAIN t[i]
      PROVE  Named(u[i][j], q) = Named(t[i][j], q)
  <2>1. u[i][j] = Named(t[i][j], p)
    BY <1>3
  <2>2. IsEntry(t[i][j])
    BY DEF IsTables, IsTable
  <2>3. Named(Named(t[i][j], p), q) = Named(t[i][j], q)
    BY <2>2, NamedAgain
  <2> QED BY <2>1, <2>3
<1> HIDE DEF u
<1>5. ASSUME NEW i \in DOMAIN t
      PROVE  [j \in DOMAIN u[i] |-> Named(u[i][j], q)] = [j \in DOMAIN t[i] |-> Named(t[i][j], q)]
  BY <1>3, <1>4
<1>6. R(u, q) = R(t, q)
  BY <1>2, <1>5, SMTT(30)
<1> QED BY <1>1, <1>6 DEF u

(* What ParseFunctionVariants returns has no names yet.                    *)
LEMMA ParsedAreTables ==
    ASSUME NEW p, ParseFunctionVariants(p) # Bad
    PROVE  IsTables(ParseFunctionVariants(p))
<1> DEFINE Row(i) == [j \in DOMAIN p.at[p.offsets[i]].entries |->
                        [impl |-> p.at[p.offsets[i]].entries[j].impl, symbol |-> "",
                         index |-> p.at[p.offsets[i]].entries[j].index]]
           t == ParseFunctionVariants(p)
<1>1. t = <<>> \/ t = [i \in DOMAIN p.offsets |-> Row(i)]
  BY DEF ParseFunctionVariants
<1>2. CASE t = <<>>
  BY <1>2 DEF IsTables
<1>3. CASE t = [i \in DOMAIN p.offsets |-> Row(i)]
  <2>1. DOMAIN t = DOMAIN p.offsets /\ \A i \in DOMAIN t : t[i] = Row(i)
    <3> HIDE DEF t, Row
    <3> QED BY <1>3
  <2>2. t = [i \in DOMAIN t |-> t[i]]
    <3> HIDE DEF t, Row
    <3> QED BY <1>3
  <2>3. ASSUME NEW i \in DOMAIN t PROVE IsTable(t[i])
    <3> DEFINE r == t[i]
    <3>1. r = Row(i)
      BY <2>1, ZenonT(40)
    <3> HIDE DEF r, t
    <3>2. r = [j \in DOMAIN r |-> r[j]] /\ DOMAIN r = DOMAIN p.at[p.offsets[i]].entries
      BY <3>1
    <3>3. ASSUME NEW j \in DOMAIN r PROVE IsEntry(r[j])
      <4>1. PICK a, b : r[j] = EntryOf(a, "", b)
        BY <3>1, <3>2 DEF EntryOf
      <4>2. EntryOf(a, "", b).impl = a /\ EntryOf(a, "", b).index = b
        BY DEF EntryOf
      <4>3. r[j].impl = a /\ r[j].index = b
        BY <4>1, <4>2, ZenonT(40)
      <4> HIDE DEF Row
      <4> QED BY <4>1, <4>3, ZenonT(40) DEF IsEntry
    <3>4. IsTable(r)
      BY <3>2, <3>3 DEF IsTable
    <3> QED BY <3>4, SMTT(30) DEF r
  <2>4. IsTables(t)
    <3> HIDE DEF t
    <3> QED BY <2>2, <2>3 DEF IsTables
  <2> QED BY <2>4
<1> QED BY <1>1, <1>2, <1>3, ZenonT(40)

(* Asking again gives what the first to ask would have been given now.     *)
LEMMA NamesSettle ==
    ASSUME NEW p \in BOOLEAN, NEW q \in BOOLEAN, p => q, NEW v, NEW reads,
           v # NoData => v = functionVariants(NoData, p, {"variants"}),
           functionVariants(v, q, reads) # NoData
    PROVE  functionVariants(v, q, reads) = functionVariants(NoData, q, {"variants"})
<1> DEFINE t == ParseFunctionVariants(file.variants)
           whole == IF file.variants = NoData \/ "variants" \notin {"variants"} THEN Bad ELSE t
           read == IF file.variants = NoData \/ "variants" \notin reads THEN Bad ELSE t
           Of(s, r) == resolveFunctionVariantSymbolsIfParsed(s, r)
<1>1. \A r : functionVariants(NoData, r, {"variants"}) = IF whole = Bad THEN NoData ELSE Of(whole, r)
  BY DEF functionVariants
<1>2. CASE v = NoData
  <2>1. functionVariants(v, q, reads) = IF read = Bad THEN NoData ELSE Of(read, q)
    BY <1>2 DEF functionVariants
  <2>2. read # Bad
    BY <2>1
  <2>3. whole = read
    BY <2>2
  <2> QED BY <1>1, <2>1, <2>2, <2>3
<1>3. CASE v # NoData
  <2>1. v = IF whole = Bad THEN NoData ELSE Of(whole, p)
    BY <1>1, <1>3
  <2>2. whole # Bad /\ v = Of(whole, p)
    BY <1>3, <2>1
  <2>3. whole = t /\ t # Bad
    BY <2>2
  <2>4. IsTables(whole)
    BY <2>3, ParsedAreTables
  <2>5. functionVariants(v, q, reads) = Of(v, q)
    BY <1>3 DEF functionVariants
  <2>6. functionVariants(NoData, q, {"variants"}) = Of(whole, q)
    BY <1>1, <2>2
  <2> HIDE DEF whole
  <2>7. Of(Of(whole, p), q) = Of(whole, q)
    BY <2>4, ResolvedAgain
  <2> QED BY <2>2, <2>5, <2>6, <2>7
<1> QED BY <1>2, <1>3

(* A set of naturals with a bound has a greatest member.                   *)
LEMMA GreatestNatural ==
    ASSUME NEW N \in Nat, NEW T, T \subseteq 0 .. N, T # {}
    PROVE  \E x \in T : \A y \in T : x >= y
<1> DEFINE U == {N - x : x \in T}
<1>1. U \subseteq Nat /\ U # {}
  <2>1. \A x \in T : N - x \in Nat
    OBVIOUS
  <2>2. U \subseteq Nat
    BY <2>1
  <2>3. PICK x \in T : TRUE
    OBVIOUS
  <2>4. N - x \in U
    BY <2>3
  <2> QED BY <2>2, <2>4
<1>2. PICK u \in U : \A v \in U : u <= v
  <2> HIDE DEF U
  <2> QED BY <1>1, LeastNatural
<1>3. PICK x \in T : u = N - x
  BY <1>2
<1>4. ASSUME NEW y \in T PROVE x >= y
  <2>1. N - y \in U
    OBVIOUS
  <2>2. u <= N - y
    BY <1>2, <2>1
  <2>3. x \in Nat /\ y \in Nat
    OBVIOUS
  <2> QED BY <1>3, <2>2, <2>3
<1> QED BY <1>4

(* What is assumed of a file.                                              *)
LEMMA PayloadFileIs ==
    ASSUME file \in PayloadFiles
    PROVE  /\ file.base \in Nat
           /\ \A s \in file.segments : s.addr \in Nat /\ s.size \in Nat
           /\ DOMAIN file.slots \subseteq Nat
           /\ \A o \in DOMAIN file.slots : file.slots[o] \in Slots
           /\ \A i \in DOMAIN file.lazies : file.lazies[i].chain \in Nat
<1>1. /\ file.base \in Nat
      /\ file.segments \subseteq [name : STRING, addr : Nat, size : Nat]
      /\ DOMAIN file.slots \subseteq Nat /\ \A o \in DOMAIN file.slots : file.slots[o] \in Slots
      /\ \A i \in DOMAIN file.lazies : file.lazies[i].chain \in Nat
  BY PayloadFilesAssumption
<1>2. \A s \in [name : STRING, addr : Nat, size : Nat] : s.addr \in Nat /\ s.size \in Nat
  OBVIOUS
<1> QED BY <1>1, <1>2

(* The limit of an image is a number unless a segment overflows.           *)
LEMMA MaxVMOffsetIs ==
    ASSUME file \in PayloadFiles, lazyLoadMaxVMOffset # Bad
    PROVE  lazyLoadMaxVMOffset \in Nat
<1> DEFINE T == {MinVMOffset} \cup {s.addr - file.base + s.size : s \in Reachable}
<1>1. /\ lazyLoadMaxVMOffset = Max(T)
      /\ \A s \in Reachable : ~(s.size > MaxAddr - (s.addr - file.base))
  BY DEF lazyLoadMaxVMOffset
<1>2. MinVMOffset \in Nat /\ MaxAddr \in Nat /\ file.base \in Nat
  BY LimitsAssumption, PayloadFileIs
<1>3. ASSUME NEW s \in Reachable
      PROVE  s.addr - file.base + s.size \in 0 .. MaxAddr
  <2>1. s \in file.segments /\ s.addr >= file.base
    BY DEF Reachable
  <2>2. s.addr \in Nat /\ s.size \in Nat
    BY <2>1, PayloadFileIs
  <2> QED BY <1>1, <1>2, <2>1, <2>2
<1> DEFINE N == MaxAddr + MinVMOffset
<1>4. N \in Nat /\ T \subseteq 0 .. N /\ T # {}
  <2>1. \A x \in 0 .. MaxAddr : x \in 0 .. N
    BY <1>2
  <2>2. MinVMOffset \in 0 .. N
    BY <1>2
  <2>3. T \subseteq 0 .. N
    BY <1>3, <2>1, <2>2
  <2> QED BY <1>2, <2>3
<1>5. \E x \in T : \A y \in T : x >= y
  <2> HIDE DEF T, N
  <2> QED BY <1>4, GreatestNatural
<1>6. Max(T) \in T
  <2> HIDE DEF T
  <2> QED BY <1>5 DEF Max
<1>7. Max(T) \in Nat
  <2> DEFINE m == Max(T)
  <2>1. T \subseteq 0 .. N /\ m \in T
    BY <1>4, <1>6
  <2> HIDE DEF T, N, m
  <2>2. m \in 0 .. N
    BY <2>1
  <2>3. m \in Nat
    BY <1>4, <2>2
  <2> QED BY <2>3 DEF m
<1> QED BY <1>1, <1>7

Fix(lld, a, o) == [addr |-> a, ordinal |-> o, symbol |-> lld.symbols[o + 1]]

Fixes(lld) == {Fix(lld, p[1], p[2]) : p \in Nat \X Nat}

(* The fixup of a bind has its address and the symbol of its ordinal.      *)
LEMMA FixIs ==
    ASSUME NEW lld, NEW a \in Nat, NEW o \in Nat
    PROVE  /\ Fix(lld, a, o) \in Fixes(lld) /\ Fix(lld, a, o).addr = a
           /\ Fix(lld, a, o).symbol = lld.symbols[Fix(lld, a, o).ordinal + 1]
<1>1. Fix(lld, a, o).addr = a /\ Fix(lld, a, o).symbol = lld.symbols[Fix(lld, a, o).ordinal + 1]
  BY DEF Fix
<1>2. Fix(lld, a, o) \in Fixes(lld)
  <2>1. <<a, o>> \in Nat \X Nat /\ <<a, o>>[1] = a /\ <<a, o>>[2] = o
    OBVIOUS
  <2> QED BY <2>1 DEF Fixes
<1> QED BY <1>1, <1>2

(* Every fixup of a dylib is named by its ordinal.                         *)
LEMMA FixesAre ==
    ASSUME NEW lld, NEW f \in Fixes(lld)
    PROVE  f.addr \in Nat /\ f.symbol = lld.symbols[f.ordinal + 1]
<1>1. PICK p \in Nat \X Nat : f = Fix(lld, p[1], p[2])
  BY DEF Fixes
<1>2. p[1] \in Nat /\ p[2] \in Nat
  OBVIOUS
<1> QED BY <1>1, <1>2, FixIs

(* A slot that decodes is a bind with its symbol, or nothing.              *)
LEMMA DecodedSlot ==
    ASSUME NEW lld, NEW slot \in Slots, NEW a \in Nat,
           decodeLazyLoadFixup(lld, slot, a) # Bad
    PROVE  /\ decodeLazyLoadFixup(lld, slot, a).next = slot.next /\ slot.next \in Nat
           /\ IF slot.bind
              THEN \E f \in Fixes(lld) : /\ f.addr = a
                                         /\ decodeLazyLoadFixup(lld, slot, a).fixup = <<f>>
              ELSE decodeLazyLoadFixup(lld, slot, a).fixup = <<>>
<1> DEFINE d == decodeLazyLoadFixup(lld, slot, a)
           o == Ordinal(lld.format, slot)
<1>1. slot.next \in Nat /\ slot.low \in Nat /\ slot.high \in Nat /\ slot.bind \in BOOLEAN
  BY DEF Slots
<1>2. o \in Nat
  BY <1>1 DEF Ordinal
<1>3. CASE slot.bind
  <2>1. d = [fixup |-> <<Fix(lld, a, o)>>, next |-> slot.next]
    BY <1>3 DEF decodeLazyLoadFixup, Fix
  <2>2. d.next = slot.next /\ d.fixup = <<Fix(lld, a, o)>>
    <3> HIDE DEF d, o
    <3> QED BY <2>1
  <2> HIDE DEF d, o
  <2> QED BY <1>1, <1>2, <1>3, <2>2, FixIs DEF d
<1>4. CASE ~slot.bind
  <2>1. d = [fixup |-> <<>>, next |-> slot.next]
    BY <1>4 DEF decodeLazyLoadFixup
  <2>2. d.next = slot.next /\ d.fixup = <<>>
    <3> HIDE DEF d
    <3> QED BY <2>1
  <2> QED BY <1>1, <1>4, <2>2
<1> QED BY <1>3, <1>4

(* The strides of the formats.                                             *)
LEMMA StrideIs == \A f : Stride(f) \in {0, 4, 8}
BY DEF Stride

Walks(lld) == [at : {"slot", "end", "error"}, off : Nat, fixups : Seq(Fixes(lld))]

WalkOf(at, off, fixups) == [at |-> at, off |-> off, fixups |-> fixups]

(* What one slot adds to a walk that does not fail there.                  *)
Steps(lld, w, x) ==
    /\ w.off <= lazyLoadMaxVMOffset /\ w.off \in DOMAIN file.slots
    /\ IF file.slots[w.off].bind
       THEN \E f \in Fixes(lld) : f.addr = file.base + w.off /\ x.fixups = Append(w.fixups, f)
       ELSE x.fixups = w.fixups
    /\ \/ file.slots[w.off].next = 0 /\ x.at = "end"
       \/ /\ file.slots[w.off].next > 0 /\ x.at = "slot"
          /\ x.off = w.off + file.slots[w.off].next * Stride(lld.format)

(* The fields of a walk.                                                   *)
LEMMA WalkIs ==
    ASSUME NEW lld, NEW w \in Walks(lld)
    PROVE  /\ w.at \in {"slot", "end", "error"} /\ w.off \in Nat /\ w.fixups \in Seq(Fixes(lld))
           /\ [w EXCEPT !.at = "error"] = WalkOf("error", w.off, w.fixups)
<1> DEFINE F == Seq(Fixes(lld))
<1>1. w \in [at : {"slot", "end", "error"}, off : Nat, fixups : F]
  BY DEF Walks
<1> HIDE DEF F
<1>2. w.at \in {"slot", "end", "error"} /\ w.off \in Nat /\ w.fixups \in F
  BY <1>1
<1>3. [w EXCEPT !.at = "error"] = WalkOf("error", w.off, w.fixups)
  BY <1>1 DEF WalkOf
<1> QED BY <1>2, <1>3 DEF F

(* A walk put together from its fields.                                    *)
LEMMA WalkOfIs ==
    ASSUME NEW lld, NEW a \in {"slot", "end", "error"}, NEW o \in Nat, NEW f \in Seq(Fixes(lld))
    PROVE  /\ WalkOf(a, o, f) \in Walks(lld) /\ WalkOf(a, o, f).at = a
           /\ WalkOf(a, o, f).off = o /\ WalkOf(a, o, f).fixups = f
<1> DEFINE F == Seq(Fixes(lld))
<1>1. f \in F
  OBVIOUS
<1> HIDE DEF F
<1>2. WalkOf(a, o, f) \in [at : {"slot", "end", "error"}, off : Nat, fixups : F]
  BY <1>1 DEF WalkOf
<1>3. WalkOf(a, o, f).at = a /\ WalkOf(a, o, f).off = o /\ WalkOf(a, o, f).fixups = f
  BY DEF WalkOf
<1> QED BY <1>2, <1>3 DEF Walks, F

(* A slot with a next leads further on.                                    *)
LEMMA Advance ==
    ASSUME NEW n \in Nat, NEW s \in {0, 4, 8}
    PROVE  n * s \in Nat /\ (n > 0 /\ s # 0 => n * s > 0)
<1>1. CASE s = 0
  BY <1>1
<1>2. CASE s = 4
  BY <1>2
<1>3. CASE s = 8
  BY <1>3
<1> QED BY <1>1, <1>2, <1>3

(* One slot further, the walk stays as it is, fails, or takes a step.      *)
LEMMA WalkOnIs ==
    ASSUME file \in PayloadFiles, lazyLoadMaxVMOffset \in Nat, NEW lld, NEW w \in Walks(lld)
    PROVE  /\ WalkOn(lld, w) \in Walks(lld)
           /\ \/ w.at # "slot" /\ WalkOn(lld, w) = w
              \/ WalkOn(lld, w).at = "error"
              \/ w.at = "slot" /\ Steps(lld, w, WalkOn(lld, w))
<1> DEFINE x == WalkOn(lld, w)
           slot == SlotAt(w.off)
           d == decodeLazyLoadFixup(lld, slot, file.base + w.off)
           advance == d.next * Stride(lld.format)
           found == w.fixups \o d.fixup
           error == [w EXCEPT !.at = "error"]
           fails == \/ w.off > lazyLoadMaxVMOffset \/ file.base > MaxAddr - w.off
                    \/ SlotAt(w.off) = Bad \/ d = Bad
<1>0. x = IF w.at # "slot" THEN w
          ELSE IF fails THEN error
          ELSE IF d.next = 0 THEN WalkOf("end", w.off, found)
          ELSE IF w.off > MaxAddr - advance THEN error
          ELSE WalkOf("slot", w.off + advance, found)
  BY DEF WalkOn, WalkOf
<1>1. w.at \in {"slot", "end", "error"} /\ w.off \in Nat /\ w.fixups \in Seq(Fixes(lld))
      /\ error = WalkOf("error", w.off, w.fixups)
  BY WalkIs
<1>2. error \in Walks(lld) /\ error.at = "error"
  BY <1>1, WalkOfIs
<1> HIDE DEF error
<1>3. CASE w.at # "slot"
  BY <1>0, <1>3
<1>4. CASE w.at = "slot" /\ fails
  BY <1>0, <1>2, <1>4
<1>5. CASE w.at = "slot" /\ ~fails
  <2>1. w.off <= lazyLoadMaxVMOffset /\ slot # Bad /\ d # Bad
    <3> HIDE DEF slot, d
    <3>1. ~(w.off > lazyLoadMaxVMOffset) /\ d # Bad
      BY <1>5
    <3>2. slot # Bad
      BY <1>5 DEF slot
    <3> QED BY <1>1, <3>1, <3>2
  <2>2. w.off \in DOMAIN file.slots /\ slot = file.slots[w.off]
    BY <2>1 DEF SlotAt
  <2>3. slot \in Slots /\ file.base + w.off \in Nat
    BY <1>1, <2>2, PayloadFileIs
  <2>4. /\ d.next = slot.next /\ slot.next \in Nat
        /\ IF slot.bind THEN \E f \in Fixes(lld) : f.addr = file.base + w.off /\ d.fixup = <<f>>
                        ELSE d.fixup = <<>>
    <3> HIDE DEF slot
    <3>1. decodeLazyLoadFixup(lld, slot, file.base + w.off) # Bad
      BY <2>1
    <3> QED BY <2>3, <3>1, DecodedSlot
  <2> HIDE DEF slot, d
  <2>5. /\ found \in Seq(Fixes(lld))
        /\ IF slot.bind THEN \E f \in Fixes(lld) : f.addr = file.base + w.off
                                                   /\ found = Append(w.fixups, f)
                        ELSE found = w.fixups
    <3>1. CASE slot.bind
      <4>1. PICK f \in Fixes(lld) : f.addr = file.base + w.off /\ d.fixup = <<f>>
        BY <2>4, <3>1
      <4> DEFINE T == Fixes(lld)
                 s == w.fixups
      <4>2. s \in Seq(T) /\ f \in T
        BY <1>1
      <4>3. s \o <<f>> = Append(s, f) /\ Append(s, f) \in Seq(T)
        <5> HIDE DEF T, s
        <5> QED BY ONLY <4>2
      <4> QED BY <3>1, <4>1, <4>3
    <3>2. CASE ~slot.bind
      <4> DEFINE T == Fixes(lld)
                 s == w.fixups
      <4>2. s \in Seq(T) /\ d.fixup = <<>>
        BY <1>1, <2>4, <3>2
      <4>3. s \o <<>> = s
        <5> HIDE DEF T, s
        <5> QED BY ONLY <4>2
      <4> QED BY <3>2, <4>2, <4>3
    <3> QED BY <3>1, <3>2
  <2> HIDE DEF found
  <2>6. x = IF d.next = 0 THEN WalkOf("end", w.off, found)
            ELSE IF w.off > MaxAddr - advance THEN error
            ELSE WalkOf("slot", w.off + advance, found)
    <3> HIDE DEF fails, x, advance
    <3> QED BY <1>0, <1>5
  <2>7. CASE d.next = 0
    <3>1. x = WalkOf("end", w.off, found)
      BY <2>6, <2>7
    <3>2. x \in Walks(lld) /\ x.at = "end" /\ x.fixups = found
      <4> HIDE DEF x
      <4> QED BY <1>1, <2>5, <3>1, WalkOfIs
    <3> HIDE DEF x
    <3>3. Steps(lld, w, x)
      BY <2>1, <2>2, <2>4, <2>5, <2>7, <3>2 DEF Steps
    <3> QED BY <1>5, <3>2, <3>3 DEF x
  <2>8. CASE d.next # 0 /\ w.off > MaxAddr - advance
    BY <1>2, <2>6, <2>8
  <2>9. CASE d.next # 0 /\ ~(w.off > MaxAddr - advance)
    <3>1. x = WalkOf("slot", w.off + advance, found)
      BY <2>6, <2>9
    <3>2. advance \in Nat /\ advance = file.slots[w.off].next * Stride(lld.format)
      BY <2>2, <2>4, Advance, StrideIs
    <3> HIDE DEF advance
    <3>3. w.off + advance \in Nat
      BY <1>1, <3>2
    <3>4. x \in Walks(lld) /\ x.at = "slot" /\ x.off = w.off + advance /\ x.fixups = found
      <4> HIDE DEF x
      <4> QED BY <2>5, <3>1, <3>3, WalkOfIs
    <3> HIDE DEF x
    <3>5. file.slots[w.off].next > 0
      BY <2>2, <2>4, <2>9
    <3>6. Steps(lld, w, x)
      BY <2>1, <2>2, <2>5, <3>2, <3>4, <3>5 DEF Steps
    <3> QED BY <1>5, <3>4, <3>6 DEF x
  <2> QED BY <2>7, <2>8, <2>9
<1> QED BY <1>3, <1>4, <1>5

(* The walk exists. *)
LEMMA WalkExists ==
    ASSUME file \in PayloadFiles, lazyLoadMaxVMOffset \in Nat, NEW lld,
           lld.chain \in Nat, lld.fixups = <<>>
    PROVE  /\ Walk(lld)[0] = WalkOf("slot", lld.chain, <<>>)
           /\ \A n \in 1 .. MaxChain : Walk(lld)[n] = WalkOn(lld, Walk(lld)[n - 1])
           /\ \A n \in 0 .. MaxChain : Walk(lld)[n] \in Walks(lld)
<1> DEFINE D == 0 .. MaxChain
           V == Walks(lld)
           a == WalkOf("slot", lld.chain, lld.fixups)
           On(w) == WalkOn(lld, w)
           Code(u, n) == IF n = 0 THEN a ELSE On(u[n - 1])
           walk == CHOOSE u : u = [n \in D |-> Code(u, n)]
           step == [y \in D \X V |-> On(y[2])]
<1>1. Walk(lld) = walk
  BY DEF Walk, WalkOf
<1>2. MaxChain \in Nat
  BY LimitsAssumption
<1>3. a \in V /\ a = WalkOf("slot", lld.chain, <<>>)
  <2> DEFINE F == Seq(Fixes(lld))
  <2>1. <<>> \in F
    OBVIOUS
  <2> HIDE DEF F
  <2>2. lld.fixups \in F
    BY <2>1
  <2>3. a \in V
    BY <2>2, WalkOfIs DEF F
  <2> QED BY <2>3
<1>4. \A w \in V : On(w) \in V
  BY WalkOnIs
<1> HIDE DEF V, On, a
<1>5. PICK f \in [D -> V] : Carries(f, MaxChain, a, step)
  <2>1. step \in [D \X V -> V]
    BY <1>4
  <2> HIDE DEF step
  <2> QED BY <1>2, <1>3, <2>1, FoldExists
<1>6. \A n \in D : f[n] = Code(f, n)
  <2> SUFFICES ASSUME NEW n \in D PROVE f[n] = Code(f, n)
    OBVIOUS
  <2>1. CASE n = 0
    <3> HIDE DEF step
    <3> QED BY <1>5, <2>1 DEF Carries
  <2>2. CASE n # 0
    <3> DEFINE v == f[n - 1]
    <3>1. v \in V
      BY <1>2, <2>2
    <3>2. f[n] = step[<<n, v>>]
      BY <1>5, <2>2 DEF Carries
    <3> HIDE DEF v
    <3>3. step[<<n, v>>] = On(v)
      BY <3>1
    <3> QED BY <2>2, <3>2, <3>3 DEF v
  <2> QED BY <2>1, <2>2
<1>7. f = [n \in D |-> Code(f, n)]
  <2> HIDE DEF Code, D
  <2> QED BY <1>6
<1>8. walk = [n \in D |-> Code(walk, n)]
  <2> HIDE DEF Code, D
  <2> QED BY <1>7
<1> HIDE DEF walk
<1>9. \A n \in D : walk[n] = Code(walk, n)
  <2> HIDE DEF Code
  <2> QED BY <1>8
<1>10. walk[0] = a /\ \A n \in 1 .. MaxChain : walk[n] = On(walk[n - 1])
  BY <1>2, <1>9
<1> DEFINE S == {n \in D : walk[n] \in V}
<1>11. \A n \in D : n \in S
  <2>1. 0 \in S
    BY <1>2, <1>3, <1>10
  <2>2. \A n \in 1 .. MaxChain : n - 1 \in S => n \in S
    BY <1>2, <1>4, <1>10
  <2> HIDE DEF S
  <2> QED BY <1>2, <2>1, <2>2, CountInduction
<1> QED BY <1>1, <1>3, <1>10, <1>11 DEF V, On

NextOf(lld, o) == o + file.slots[o].next * Stride(lld.format)

Addrs(fixups) == {f.addr : f \in {fixups[k] : k \in DOMAIN fixups}}

Bound(C) == {file.base + o : o \in {q \in C : file.slots[q].bind}}

(* The fixups of a walk are the binds of the slots C it visited, in order. *)
Found(lld, fixups, C) ==
    /\ fixups \in Seq(Fixes(lld))
    /\ Addrs(fixups) = Bound(C)
    /\ \A k \in DOMAIN fixups : \A l \in DOMAIN fixups : k < l => fixups[k].addr < fixups[l].addr

(* The slots lie in the image, each reached from one before. *)
Linked(lld, C) ==
    /\ C \subseteq {o \in DOMAIN file.slots : lld.chain <= o /\ o <= lazyLoadMaxVMOffset}
    /\ \A o \in C : o = lld.chain \/ \E q \in C : q < o /\ NextOf(lld, q) = o

(* The walk is on its way to w.off ... *)
Visits(lld, w, C) ==
    /\ Linked(lld, C) /\ Found(lld, w.fixups, C)
    /\ \A o \in C : o < w.off
    /\ \A k \in DOMAIN w.fixups : w.fixups[k].addr < file.base + w.off
    /\ \A o \in C : file.slots[o].next > 0 => NextOf(lld, o) \in C \cup {w.off}
    /\ \/ C = {} /\ w.off = lld.chain
       \/ lld.chain \in C /\ \E q \in C : q < w.off /\ NextOf(lld, q) = w.off

(* ... or has ended. *)
Walked(lld, fixups, C) ==
    /\ Linked(lld, C) /\ Found(lld, fixups, C)
    /\ lld.chain \in C
    /\ \A o \in C : file.slots[o].next > 0 => NextOf(lld, o) \in C

(* The addresses of the fixups after one more is found.                    *)
LEMMA AddrsOfAppend ==
    ASSUME NEW T, NEW s \in Seq(T), NEW f \in T
    PROVE  /\ Addrs(Append(s, f)) = Addrs(s) \cup {f.addr}
           /\ \A k \in DOMAIN s : s[k].addr \in Addrs(s)
<1> DEFINE n == Len(s)
           t == Append(s, f)
<1>1. n \in Nat /\ DOMAIN s = 1 .. n /\ DOMAIN t = 1 .. n + 1 /\ t[n + 1] = f
      /\ \A k \in 1 .. n : t[k] = s[k]
  OBVIOUS
<1> HIDE DEF n, t
<1>2. {t[k] : k \in DOMAIN t} = {s[k] : k \in DOMAIN s} \cup {f}
  <2>1. 1 .. n + 1 = (1 .. n) \cup {n + 1}
    BY <1>1
  <2> QED BY <1>1, <2>1
<1>3. Addrs(t) = Addrs(s) \cup {f.addr}
  BY <1>2 DEF Addrs
<1> QED BY <1>3 DEF t, Addrs

(* A slot beyond those visited adds its bind, and keeps the order.         *)
LEMMA FoundGrows ==
    ASSUME NEW lld, NEW fixups, NEW C, Found(lld, fixups, C), NEW off \in Nat, file.base \in Nat,
           \A k \in DOMAIN fixups : fixups[k].addr < file.base + off, NEW x,
           IF file.slots[off].bind
           THEN \E f \in Fixes(lld) : f.addr = file.base + off /\ x = Append(fixups, f)
           ELSE x = fixups
    PROVE  /\ Found(lld, x, C \cup {off})
           /\ \A k \in DOMAIN x : x[k].addr <= file.base + off
<1> DEFINE T == Fixes(lld)
<1>0. fixups \in Seq(T)
  BY DEF Found
<1>1. CASE file.slots[off].bind
  <2>1. PICK f \in T : f.addr = file.base + off /\ x = Append(fixups, f)
    BY <1>1
  <2> DEFINE n == Len(fixups)
  <2> HIDE DEF T
  <2>2. n \in Nat /\ DOMAIN fixups = 1 .. n /\ DOMAIN x = 1 .. n + 1 /\ x[n + 1] = f
        /\ x \in Seq(T) /\ \A k \in 1 .. n : x[k] = fixups[k] /\ fixups[k] \in T
    BY <1>0, <2>1
  <2>3. Addrs(x) = Addrs(fixups) \cup {f.addr}
    BY <1>0, <2>1, AddrsOfAppend
  <2>4. Bound(C \cup {off}) = Bound(C) \cup {f.addr}
    BY <1>1, <2>1, SMTT(30) DEF Bound
  <2>5. \A k \in 1 .. n : fixups[k].addr \in Nat /\ fixups[k].addr < f.addr
    BY <2>1, <2>2, FixesAre DEF T
  <2>6. ASSUME NEW k \in DOMAIN x, NEW l \in DOMAIN x, k < l PROVE x[k].addr < x[l].addr
    <3> HIDE DEF n
    <3>1. k \in 1 .. n
      BY <2>2, <2>6
    <3>2. CASE l = n + 1
      BY <2>2, <2>5, <3>1, <3>2
    <3>3. CASE l # n + 1
      <4>1. l \in 1 .. n
        BY <2>2, <3>3
      <4>2. fixups[k].addr < fixups[l].addr
        BY <2>2, <2>6, <3>1, <4>1 DEF Found
      <4> QED BY <2>2, <3>1, <4>1, <4>2
    <3> QED BY <3>2, <3>3
  <2>7. Found(lld, x, C \cup {off})
    BY <2>2, <2>3, <2>4, <2>6 DEF Found, T
  <2>8. ASSUME NEW k \in DOMAIN x PROVE x[k].addr <= file.base + off
    <3> HIDE DEF n
    <3>1. CASE k = n + 1
      BY <2>1, <2>2, <3>1
    <3>2. CASE k # n + 1
      <4>1. k \in 1 .. n
        BY <2>2, <3>2
      <4> QED BY <2>1, <2>2, <2>5, <4>1
    <3> QED BY <3>1, <3>2
  <2> QED BY <2>7, <2>8
<1>2. CASE ~file.slots[off].bind
  <2>1. x = fixups
    BY <1>2
  <2>2. Bound(C \cup {off}) = Bound(C)
    BY <1>2 DEF Bound
  <2>3. \A k \in DOMAIN fixups : fixups[k] \in T
    BY <1>0
  <2>4. \A k \in DOMAIN fixups : fixups[k].addr \in Nat
    BY <2>3, FixesAre
  <2> QED BY <2>1, <2>2, <2>4 DEF Found
<1> QED BY <1>1, <1>2

(* A step adds the slot it leaves to those visited.                        *)
LEMMA StepsKeep ==
    ASSUME file \in PayloadFiles, lazyLoadMaxVMOffset \in Nat, NEW lld, Stride(lld.format) # 0,
           lld.chain \in Nat, NEW w \in Walks(lld), NEW x \in Walks(lld), NEW C,
           Visits(lld, w, C), Steps(lld, w, x)
    PROVE  /\ x.at = "slot" => Visits(lld, x, C \cup {w.off})
           /\ x.at = "end" => Walked(lld, x.fixups, C \cup {w.off})
<1> DEFINE E == C \cup {w.off}
           slot == file.slots[w.off]
<1>1. w.off \in Nat /\ x.off \in Nat /\ file.base \in Nat
  BY WalkIs, PayloadFileIs
<1>2. w.off \in DOMAIN file.slots /\ w.off <= lazyLoadMaxVMOffset
  BY DEF Steps
<1>3. slot.next \in Nat
  BY <1>2, PayloadFileIs DEF Slots
<1>4. Found(lld, x.fixups, E) /\ \A k \in DOMAIN x.fixups : x.fixups[k].addr <= file.base + w.off
  <2>1. /\ Found(lld, w.fixups, C)
        /\ \A k \in DOMAIN w.fixups : w.fixups[k].addr < file.base + w.off
    BY DEF Visits
  <2>2. IF slot.bind
        THEN \E f \in Fixes(lld) : f.addr = file.base + w.off /\ x.fixups = Append(w.fixups, f)
        ELSE x.fixups = w.fixups
    BY DEF Steps
  <2> QED BY <1>1, <2>1, <2>2, FoundGrows
<1>5. lld.chain \in E /\ lld.chain <= w.off
  <2>1. C \subseteq DOMAIN file.slots /\ \A o \in C : o < w.off
    BY DEF Visits, Linked
  <2>2. CASE C = {} /\ w.off = lld.chain
    BY <2>2
  <2>3. CASE lld.chain \in C
    BY <1>1, <2>1, <2>3
  <2> QED BY <2>2, <2>3 DEF Visits
<1>6. Linked(lld, E)
  <2>1. E \subseteq {o \in DOMAIN file.slots : lld.chain <= o /\ o <= lazyLoadMaxVMOffset}
    BY <1>2, <1>5 DEF Visits, Linked
  <2>2. ASSUME NEW o \in E PROVE o = lld.chain \/ \E q \in E : q < o /\ NextOf(lld, q) = o
    <3>1. CASE o \in C
      BY <3>1 DEF Visits, Linked
    <3>2. CASE o = w.off
      BY <3>2 DEF Visits
    <3> QED BY <3>1, <3>2
  <2> QED BY <2>1, <2>2 DEF Linked
<1>7. \A o \in C : file.slots[o].next > 0 => NextOf(lld, o) \in E
  BY DEF Visits
<1>8. ASSUME x.at = "slot" PROVE Visits(lld, x, E)
  <2> DEFINE advance == slot.next * Stride(lld.format)
  <2>1. slot.next > 0 /\ x.off = w.off + advance
    BY <1>8 DEF Steps
  <2>2. advance \in Nat /\ advance > 0
    BY <1>3, <2>1, Advance, StrideIs
  <2>3. NextOf(lld, w.off) = x.off
    BY <2>1 DEF NextOf
  <2> HIDE DEF advance
  <2>4. w.off < x.off
    BY <1>1, <2>1, <2>2
  <2>5. \A o \in E : o < x.off
    <3>1. \A o \in C : o < w.off /\ o \in Nat
      BY PayloadFileIs DEF Visits, Linked
    <3> QED BY <1>1, <2>4, <3>1
  <2>6. \A k \in DOMAIN x.fixups : x.fixups[k].addr < file.base + x.off
    <3>1. \A k \in DOMAIN x.fixups : x.fixups[k] \in Fixes(lld)
      <4> DEFINE T == Fixes(lld)
                 s == x.fixups
      <4>1. s \in Seq(T)
        BY <1>4 DEF Found
      <4> HIDE DEF T, s
      <4>2. \A k \in DOMAIN s : s[k] \in T
        BY <4>1
      <4> QED BY <4>2 DEF T, s
    <3>2. \A k \in DOMAIN x.fixups : x.fixups[k].addr \in Nat
      BY <3>1, FixesAre
    <3> QED BY <1>1, <1>4, <2>4, <3>2
  <2>7. \A o \in E : file.slots[o].next > 0 => NextOf(lld, o) \in E \cup {x.off}
    BY <1>7, <2>3
  <2>8. \E q \in E : q < x.off /\ NextOf(lld, q) = x.off
    BY <2>3, <2>4
  <2> QED BY <1>4, <1>5, <1>6, <2>5, <2>6, <2>7, <2>8 DEF Visits
<1>9. ASSUME x.at = "end" PROVE Walked(lld, x.fixups, E)
  <2>1. ~(slot.next > 0)
    BY <1>9, <1>3 DEF Steps
  <2>2. \A o \in E : file.slots[o].next > 0 => NextOf(lld, o) \in E
    BY <1>7, <2>1
  <2> QED BY <1>4, <1>5, <1>6, <2>2 DEF Walked
<1> QED BY <1>8, <1>9

(* A walk that ends has visited the whole chain.                           *)
LEMMA WalksAreWhole ==
    ASSUME file \in PayloadFiles, lazyLoadMaxVMOffset \in Nat, NEW lld, Stride(lld.format) # 0,
           lld.chain \in Nat, lld.fixups = <<>>, Walk(lld)[MaxChain].at = "end"
    PROVE  \E C : Walked(lld, Walk(lld)[MaxChain].fixups, C)
<1> DEFINE W(n) == Walk(lld)[n]
           Good(w) == /\ w.at = "slot" => \E C : Visits(lld, w, C)
                      /\ w.at = "end" => \E C : Walked(lld, w.fixups, C)
           S == {n \in 0 .. MaxChain : Good(W(n))}
<1>0. MaxChain \in Nat
  BY LimitsAssumption
<1>1. /\ W(0) = WalkOf("slot", lld.chain, <<>>)
      /\ \A n \in 1 .. MaxChain : W(n) = WalkOn(lld, W(n - 1))
      /\ \A n \in 0 .. MaxChain : W(n) \in Walks(lld)
  BY WalkExists
<1> HIDE DEF W
<1>2. 0 \in S
  <2> DEFINE w == W(0)
  <2>1. w.at = "slot" /\ w.off = lld.chain /\ w.fixups = <<>>
    <3> DEFINE F == Seq(Fixes(lld))
    <3>1. <<>> \in F
      OBVIOUS
    <3> HIDE DEF F
    <3>2. <<>> \in Seq(Fixes(lld))
      BY <3>1 DEF F
    <3> HIDE DEF w
    <3>3. w = WalkOf("slot", lld.chain, <<>>)
      BY <1>1 DEF w
    <3> QED BY <3>3 DEF WalkOf
  <2>2. Linked(lld, {})
    BY DEF Linked
  <2>3. Found(lld, <<>>, {})
    <3>1. Addrs(<<>>) = {} /\ Bound({}) = {}
      BY DEF Addrs, Bound
    <3> DEFINE F == Seq(Fixes(lld))
               e == <<>>
    <3>2. e \in F /\ DOMAIN e = {}
      OBVIOUS
    <3> HIDE DEF F, e
    <3>3. Addrs(e) = Bound({})
      BY <3>1 DEF e
    <3>4. Found(lld, e, {})
      BY <3>2, <3>3 DEF Found, F
    <3> QED BY <3>4 DEF e
  <2> HIDE DEF w
  <2>4. Visits(lld, w, {})
    BY <2>1, <2>2, <2>3 DEF Visits
  <2>5. Good(w)
    BY <2>1, <2>4
  <2> HIDE DEF Good
  <2> QED BY <1>0, <2>5 DEF w
<1>3. ASSUME NEW n \in 1 .. MaxChain, n - 1 \in S PROVE n \in S
  <2> DEFINE w == W(n - 1)
             x == W(n)
  <2>1. x = WalkOn(lld, w) /\ w \in Walks(lld) /\ x \in Walks(lld) /\ Good(w)
    BY <1>0, <1>1, <1>3
  <2> HIDE DEF w, x
  <2>2. \/ w.at # "slot" /\ x = w
        \/ x.at = "error"
        \/ w.at = "slot" /\ Steps(lld, w, x)
    BY <2>1, WalkOnIs
  <2>3. ASSUME w.at # "slot" /\ x = w PROVE Good(x)
    BY <2>1, <2>3
  <2>4. ASSUME x.at = "error" PROVE Good(x)
    BY <2>4
  <2>5. ASSUME w.at = "slot" /\ Steps(lld, w, x) PROVE Good(x)
    <3>1. PICK C : Visits(lld, w, C)
      BY <2>1, <2>5
    <3>2. /\ x.at = "slot" => Visits(lld, x, C \cup {w.off})
          /\ x.at = "end" => Walked(lld, x.fixups, C \cup {w.off})
      BY <2>1, <2>5, <3>1, StepsKeep
    <3> QED BY <3>2
  <2>6. Good(x)
    BY <2>2, <2>3, <2>4, <2>5
  <2> HIDE DEF Good
  <2> QED BY <1>0, <2>6 DEF x
<1>4. MaxChain \in S
  <2> HIDE DEF S
  <2>1. \A n \in 0 .. MaxChain : n \in S
    BY <1>0, <1>2, <1>3, CountInduction
  <2> QED BY <1>0, <2>1
<1> QED BY <1>4 DEF W

(* What LazyDylibsAreWhole says of one dylib. *)
WholeDylib(d) ==
    LET reached == {o \in DOMAIN file.slots : d.chain > 0 /\ o >= d.chain}
        next(o) == o + file.slots[o].next * Stride(d.format)
    IN  \E chain \in SUBSET reached :
          /\ (d.chain > 0) <=> (d.chain \in chain)
          /\ \A o \in chain : o <= lazyLoadMaxVMOffset
          /\ \A o \in chain : file.slots[o].next > 0 => next(o) \in chain
          /\ \A o \in chain : o = d.chain \/ \E q \in chain : q < o /\ next(q) = o
          /\ {f.addr : f \in {d.fixups[k] : k \in DOMAIN d.fixups}}
                = {file.base + o : o \in {q \in chain : file.slots[q].bind}}
          /\ \A k \in DOMAIN d.fixups :
                /\ d.fixups[k].symbol = d.symbols[d.fixups[k].ordinal + 1]
                /\ \A l \in DOMAIN d.fixups : k < l => d.fixups[k].addr < d.fixups[l].addr

DylibOf(p, f, fl, c, s, fx) ==
    [path |-> p, format |-> f, flag |-> fl, chain |-> c, symbols |-> s, fixups |-> fx]

(* The fields of a dylib, and the dylib with other fixups.                 *)
LEMMA DylibIs ==
    ASSUME NEW p, NEW f, NEW fl, NEW c, NEW s, NEW fx, NEW g
    PROVE  /\ DylibOf(p, f, fl, c, s, fx).chain = c /\ DylibOf(p, f, fl, c, s, fx).format = f
           /\ DylibOf(p, f, fl, c, s, fx).symbols = s /\ DylibOf(p, f, fl, c, s, fx).fixups = fx
           /\ [DylibOf(p, f, fl, c, s, fx) EXCEPT !.fixups = g] = DylibOf(p, f, fl, c, s, g)
BY DEF DylibOf

(* A walk that ended makes its dylib whole.                                *)
LEMMA WalkedIsWhole ==
    ASSUME file \in PayloadFiles, lazyLoadMaxVMOffset \in Nat, NEW lld, NEW d, NEW C,
           lld.chain \in Nat, lld.chain > 0, Walked(lld, d.fixups, C),
           d.chain = lld.chain, d.format = lld.format, d.symbols = lld.symbols
    PROVE  WholeDylib(d)
<1>1. C \subseteq {o \in DOMAIN file.slots : d.chain > 0 /\ o >= d.chain}
  <2>1. \A o \in C : o \in DOMAIN file.slots /\ o \in Nat /\ lld.chain <= o
    BY PayloadFileIs DEF Walked, Linked
  <2> QED BY <2>1
<1>2. d.chain > 0 /\ d.chain \in C
  BY DEF Walked
<1>3. \A o \in C : o <= lazyLoadMaxVMOffset
  BY DEF Walked, Linked
<1>4. \A o \in C : file.slots[o].next > 0 => o + file.slots[o].next * Stride(d.format) \in C
  BY DEF Walked, NextOf
<1>5. \A o \in C : o = d.chain \/ \E q \in C : q < o /\ q + file.slots[q].next * Stride(d.format) = o
  BY DEF Walked, Linked, NextOf
<1>6. {f.addr : f \in {d.fixups[k] : k \in DOMAIN d.fixups}}
         = {file.base + o : o \in {q \in C : file.slots[q].bind}}
  BY DEF Walked, Found, Addrs, Bound
<1>7. ASSUME NEW k \in DOMAIN d.fixups
      PROVE  /\ d.fixups[k].symbol = d.symbols[d.fixups[k].ordinal + 1]
             /\ \A l \in DOMAIN d.fixups : k < l => d.fixups[k].addr < d.fixups[l].addr
  <2>1. d.fixups[k] \in Fixes(lld)
    <3> DEFINE T == Fixes(lld)
               s == d.fixups
    <3>1. s \in Seq(T) /\ k \in DOMAIN s
      BY DEF Walked, Found
    <3> HIDE DEF T, s
    <3>2. s[k] \in T
      BY <3>1
    <3> QED BY <3>2 DEF T, s
  <2>2. d.fixups[k].symbol = lld.symbols[d.fixups[k].ordinal + 1]
    BY <2>1, FixesAre
  <2>3. \A l \in DOMAIN d.fixups : k < l => d.fixups[k].addr < d.fixups[l].addr
    BY DEF Walked, Found
  <2> QED BY <2>2, <2>3
<1> QED BY <1>1, <1>2, <1>3, <1>4, <1>5, <1>6, <1>7 DEF WholeDylib

(* A payload that decodes is a whole dylib.                                *)
LEMMA DecodedIsWhole ==
    ASSUME file \in PayloadFiles, NEW p, p.chain \in Nat, decodeLazy(p) # Bad
    PROVE  WholeDylib(decodeLazy(p))
<1> DEFINE lld == ParseLazyLoadDylibInfo(p)
           d == decodeLazy(p)
<1>1. /\ lld # Bad /\ validateLazyLoadImageOffsets(lld) /\ d = walkLazyLoadChain(lld)
      /\ walkLazyLoadChain(lld) # Bad
  BY DEF decodeLazy
<1>2. lazyLoadMaxVMOffset \in Nat
  BY <1>1, MaxVMOffsetIs DEF validateLazyLoadImageOffsets
<1>3. \E pa, fo, fl, sy : lld = DylibOf(pa, fo, fl, p.chain, sy, <<>>)
  BY <1>1 DEF ParseLazyLoadDylibInfo, DylibOf
<1>4. PICK pa, fo, fl, sy : lld = DylibOf(pa, fo, fl, p.chain, sy, <<>>)
  BY <1>3
<1> HIDE DEF lld, d
<1>5. /\ lld.chain = p.chain /\ lld.format = fo /\ lld.symbols = sy /\ lld.fixups = <<>>
      /\ \A g : [lld EXCEPT !.fixups = g] = DylibOf(pa, fo, fl, p.chain, sy, g)
  <2> DEFINE e == <<>>
             y == DylibOf(pa, fo, fl, p.chain, sy, e)
  <2> HIDE DEF e
  <2>1. /\ y.chain = p.chain /\ y.format = fo /\ y.symbols = sy /\ y.fixups = e
        /\ \A g : [y EXCEPT !.fixups = g] = DylibOf(pa, fo, fl, p.chain, sy, g)
    BY DylibIs
  <2>2. lld = y
    BY <1>4 DEF e
  <2> HIDE DEF y
  <2> QED BY <2>1, <2>2 DEF e
<1>6. CASE lld.chain = 0
  <2>1. d = lld /\ d.fixups = <<>> /\ d.chain = 0
    BY <1>1, <1>5, <1>6 DEF walkLazyLoadChain
  <2>2. DOMAIN d.fixups = {}
    <3> DEFINE e == <<>>
    <3>1. DOMAIN e = {}
      OBVIOUS
    <3> HIDE DEF e
    <3>2. d.fixups = e
      BY <2>1 DEF e
    <3> QED BY <3>1, <3>2
  <2> DEFINE reached == {o \in DOMAIN file.slots : d.chain > 0 /\ o >= d.chain}
  <2>3. {} \in SUBSET reached /\ ~(d.chain > 0)
    BY <2>1
  <2>4. {f.addr : f \in {d.fixups[k] : k \in DOMAIN d.fixups}}
           = {file.base + o : o \in {q \in {} : file.slots[q].bind}}
    BY <2>2
  <2>5. WholeDylib(d)
    BY <2>2, <2>3, <2>4 DEF WholeDylib
  <2> QED BY <2>5 DEF d
<1>7. CASE lld.chain # 0
  <2> DEFINE F == Walk(lld)[MaxChain].fixups
  <2>1. /\ Stride(lld.format) # 0 /\ Walk(lld)[MaxChain].at = "end"
        /\ d = [lld EXCEPT !.fixups = F]
    BY <1>1, <1>7 DEF walkLazyLoadChain
  <2>2. lld.chain \in Nat /\ lld.chain > 0
    BY <1>5, <1>7
  <2>3. PICK C : Walked(lld, F, C)
    BY <1>2, <1>5, <2>1, <2>2, WalksAreWhole
  <2> HIDE DEF F
  <2>4. d = DylibOf(pa, fo, fl, p.chain, sy, F)
    BY <1>5, <2>1
  <2>5. d.chain = p.chain /\ d.format = fo /\ d.symbols = sy /\ d.fixups = F
    BY <2>4, DylibIs
  <2>6. WholeDylib(d)
    BY <1>2, <1>5, <2>2, <2>3, <2>5, WalkedIsWhole
  <2> QED BY <2>6 DEF d
<1> QED BY <1>6, <1>7

-----------------------------------------------------------------------------
(* The inductive invariant.  A cached dylib is what its payload decodes    *)
(* to, and only a payload that decodes is cached.                          *)
DylibsCached ==
    /\ DOMAIN lazies = DOMAIN file.lazies
    /\ \A i \in DOMAIN lazies : lazies[i] # NoData =>
          lazies[i] = decodeLazy(file.lazies[i]) /\ decodeLazy(file.lazies[i]) # Bad

(* Cached variants have the names a first call would have given when they  *)
(* were last asked for, and the exports stay parsed since.                 *)
NamesKept ==
    /\ exp \in BOOLEAN /\ named \in BOOLEAN /\ (named => exp)
    /\ VariantNamesSettle

PayloadsInv == file \in PayloadFiles /\ DylibsCached /\ NamesKept

(* A call that decodes leaves what is cached, and adds only payloads that  *)
(* decode.                                                                 *)
LEMMA LoadedKeeps ==
    ASSUME DylibsCached, NEW reads
    PROVE  /\ DOMAIN lazyLoaded(lazies, reads) = DOMAIN file.lazies
           /\ \A i \in DOMAIN file.lazies : lazyLoaded(lazies, reads)[i] # NoData =>
                 /\ lazyLoaded(lazies, reads)[i] = decodeLazy(file.lazies[i])
                 /\ decodeLazy(file.lazies[i]) # Bad
<1> DEFINE n == lazyLoaded(lazies, reads)
<1>1. n = [i \in DOMAIN file.lazies |->
             IF lazies[i] # NoData THEN lazies[i]
             ELSE IF i \notin reads \/ decodeLazy(file.lazies[i]) = Bad THEN NoData
             ELSE decodeLazy(file.lazies[i])]
  BY DEF lazyLoaded
<1> HIDE DEF n
<1>2. DOMAIN n = DOMAIN file.lazies
  BY <1>1
<1>3. ASSUME NEW i \in DOMAIN file.lazies, n[i] # NoData
      PROVE  n[i] = decodeLazy(file.lazies[i]) /\ decodeLazy(file.lazies[i]) # Bad
  BY <1>1, <1>3 DEF DylibsCached
<1> QED BY <1>2, <1>3 DEF n

(* What is computed from the file stays as the file does.                  *)
LEMMA FileStays ==
    ASSUME file' = file
    PROVE  /\ lazyLoadMaxVMOffset' = lazyLoadMaxVMOffset
           /\ \A lld : walkLazyLoadChain(lld)' = walkLazyLoadChain(lld)
           /\ \A p : decodeLazy(p)' = decodeLazy(p)
<1>1. lazyLoadMaxVMOffset' = lazyLoadMaxVMOffset
  BY DEF lazyLoadMaxVMOffset, Reachable
<1>2. \A lld, w : WalkOn(lld, w)' = WalkOn(lld, w)
  BY <1>1 DEF WalkOn, SlotAt
<1>3. \A lld : Walk(lld)' = Walk(lld)
  BY <1>2 DEF Walk
<1>4. \A lld : walkLazyLoadChain(lld)' = walkLazyLoadChain(lld)
  BY <1>3 DEF walkLazyLoadChain
<1>5. \A p : decodeLazy(p)' = decodeLazy(p)
  BY <1>1, <1>4 DEF decodeLazy, validateLazyLoadImageOffsets
<1> QED BY <1>1, <1>4, <1>5

(* So do the names that are found in it.                                   *)
LEMMA NamesStayToo ==
    ASSUME file' = file
    PROVE  \A v, p, r : functionVariants(v, p, r)' = functionVariants(v, p, r)
<1>1. \A t, p : resolveFunctionVariantSymbolsIfParsed(t, p)' = resolveFunctionVariantSymbolsIfParsed(t, p)
  <2> SUFFICES ASSUME NEW t, NEW p
               PROVE  resolveFunctionVariantSymbolsIfParsed(t, p)' = resolveFunctionVariantSymbolsIfParsed(t, p)
    OBVIOUS
  <2>1. \A e : variantName(file.base + e.impl, p)' = variantName(file.base + e.impl, p)
    BY DEF variantName
  <2>2. \A e : Named(e, p)' = Named(e, p)
    BY <2>1 DEF Named
  <2>3. resolveFunctionVariantSymbolsIfParsed(t, p)'
           = [i \in DOMAIN t |-> [j \in DOMAIN t[i] |-> Named(t[i][j], p)']]
    BY DEF resolveFunctionVariantSymbolsIfParsed, Named
  <2>4. \A i \in DOMAIN t : [j \in DOMAIN t[i] |-> Named(t[i][j], p)']
                             = [j \in DOMAIN t[i] |-> Named(t[i][j], p)]
    BY <2>2
  <2> QED BY <2>3, <2>4, ResolvedIs
<1> QED BY <1>1 DEF functionVariants

(* What a call to GetLazyLoadedDylibs leaves cached.                       *)
LEMMA LoadingKeeps ==
    ASSUME DylibsCached, file' = file, NEW reads, lazies' = lazyLoaded(lazies, reads)
    PROVE  DylibsCached'
<1>1. /\ DOMAIN lazies' = DOMAIN file.lazies
      /\ \A i \in DOMAIN file.lazies : lazies'[i] # NoData =>
           lazies'[i] = decodeLazy(file.lazies[i]) /\ decodeLazy(file.lazies[i]) # Bad
  BY LoadedKeeps
<1>2. \A p : decodeLazy(p)' = decodeLazy(p)
  BY FileStays
<1> QED BY <1>1, <1>2 DEF DylibsCached

(* The other calls leave the dylibs cached.                                *)
LEMMA CachedStays ==
    ASSUME DylibsCached, file' = file, lazies' = lazies
    PROVE  DylibsCached'
<1>1. \A p : decodeLazy(p)' = decodeLazy(p)
  BY FileStays
<1> QED BY <1>1 DEF DylibsCached

(* What a call to GetFunctionVariants leaves cached.                       *)
LEMMA NamingKeeps ==
    ASSUME NamesKept, file' = file, exp' \in BOOLEAN, exp => exp', named' = exp',
           NEW reads, variants' = functionVariants(variants, exp', reads)
    PROVE  NamesKept'
<1> DEFINE v == variants
           q == exp'
           n == functionVariants(v, q, reads)
           whole == functionVariants(NoData, q, {"variants"})
<1>1. n # NoData => n = whole
  <2>1. v # NoData => v = functionVariants(NoData, named, {"variants"})
    BY DEF NamesKept, VariantNamesSettle
  <2>2. named \in BOOLEAN /\ q \in BOOLEAN /\ (named => q)
    BY DEF NamesKept
  <2> HIDE DEF v, q
  <2> QED BY <2>1, <2>2, NamesSettle
<1>2. \A u, p, r : functionVariants(u, p, r)' = functionVariants(u, p, r)
  BY NamesStayToo
<1>3. VariantNamesSettle'
  BY <1>1, <1>2 DEF VariantNamesSettle
<1> QED BY <1>3 DEF NamesKept

(* The other calls leave the names as they are.                            *)
LEMMA NamesStayKept ==
    ASSUME NamesKept, file' = file, exp' \in BOOLEAN, exp => exp', named' = named, variants' = variants
    PROVE  NamesKept'
<1>1. \A u, p, r : functionVariants(u, p, r)' = functionVariants(u, p, r)
  BY NamesStayToo
<1>2. VariantNamesSettle'
  BY <1>1 DEF NamesKept, VariantNamesSettle
<1> QED BY <1>2 DEF NamesKept

(* Nothing is cached at first.                                             *)
LEMMA PayloadsStart == PayloadsInit => PayloadsInv
BY DEF PayloadsInit, PayloadsInv, DylibsCached, NamesKept, VariantNamesSettle

(* Every call keeps the invariant.                                         *)
LEMMA PayloadsStep == PayloadsInv /\ [PayloadsNext]_payloadVars => PayloadsInv'
<1> SUFFICES ASSUME PayloadsInv, [PayloadsNext]_payloadVars PROVE PayloadsInv'
  OBVIOUS
<1>0. file \in PayloadFiles /\ DylibsCached /\ NamesKept /\ exp \in BOOLEAN
  BY DEF PayloadsInv, NamesKept
<1>1. CASE DyldExports
  BY <1>0, <1>1, CachedStays, NamesStayKept DEF DyldExports, PayloadsInv
<1>2. CASE GetLazyLoadedDylibs
  <2>1. PICK reads \in ReadableLazies : lazies' = lazyLoaded(lazies, reads)
    BY <1>2 DEF GetLazyLoadedDylibs
  <2>2. UNCHANGED <<file, variants, varFixups, exp, named>>
    BY <1>2 DEF GetLazyLoadedDylibs
  <2> QED BY <1>0, <2>1, <2>2, LoadingKeeps, NamesStayKept DEF PayloadsInv
<1>3. CASE GetFunctionVariants
  <2>1. PICK reads \in Readable : variants' = functionVariants(variants, exp, reads)
    BY <1>3 DEF GetFunctionVariants
  <2>2. named' = exp /\ UNCHANGED <<file, lazies, varFixups, exp>>
    BY <1>3 DEF GetFunctionVariants
  <2> QED BY <1>0, <2>1, <2>2, CachedStays, NamingKeeps DEF PayloadsInv
<1>4. CASE GetFunctionVariantFixups
  <2>1. UNCHANGED <<file, lazies, variants, exp, named>>
    BY <1>4 DEF GetFunctionVariantFixups
  <2> QED BY <1>0, <2>1, CachedStays, NamesStayKept DEF PayloadsInv
<1>5. CASE Enrich
  <2>1. PICK reads \in Readable :
           /\ exp' = (exp \/ "exports" \in reads)
           /\ variants' = functionVariants(variants, exp', reads)
    BY <1>5 DEF Enrich
  <2>2. PICK r \in ReadableLazies : lazies' = lazyLoaded(lazies, r)
    BY <1>5 DEF Enrich
  <2>3. named' = exp' /\ file' = file
    BY <1>5 DEF Enrich
  <2>4. exp' \in BOOLEAN /\ (exp => exp')
    BY <1>0, <2>1
  <2>5. DylibsCached'
    BY <1>0, <2>2, <2>3, LoadingKeeps
  <2>6. NamesKept'
    BY <1>0, <2>1, <2>3, <2>4, NamingKeeps
  <2> QED BY <1>0, <2>3, <2>5, <2>6 DEF PayloadsInv
<1>6. CASE UNCHANGED payloadVars
  BY <1>0, <1>6, CachedStays, NamesStayKept DEF payloadVars, PayloadsInv
<1> QED BY <1>1, <1>2, <1>3, <1>4, <1>5, <1>6 DEF PayloadsNext

(* THE THEOREM.  Function variants keep the names of the order of sources  *)
(* that GetFunctionVariants documents, whenever the exports were parsed.   *)
THEOREM NamesStaySettled == PayloadsSpec => []VariantNamesSettle
<1>1. PayloadsInv => VariantNamesSettle
  BY DEF PayloadsInv, NamesKept
<1> QED BY <1>1, PayloadsStart, PayloadsStep, PTL DEF PayloadsSpec

(* THE THEOREM.  A dylib that is cached is a whole walk of its chain: a    *)
(* call that failed has cached nothing of what it had decoded.             *)
THEOREM DylibsStayWhole == PayloadsSpec => []LazyDylibsAreWhole
<1>1. PayloadsInv => LazyDylibsAreWhole
  <2> SUFFICES ASSUME PayloadsInv, NEW i \in DOMAIN lazies, lazies[i] # NoData
               PROVE  WholeDylib(lazies[i])
    BY DEF LazyDylibsAreWhole, WholeDylib
  <2>1. lazies[i] = decodeLazy(file.lazies[i]) /\ decodeLazy(file.lazies[i]) # Bad
    BY DEF PayloadsInv, DylibsCached
  <2>2. file \in PayloadFiles /\ i \in DOMAIN file.lazies
    BY DEF PayloadsInv, DylibsCached
  <2>3. file.lazies[i].chain \in Nat
    BY <2>2, PayloadFilesAssumption
  <2> QED BY <2>1, <2>2, <2>3, DecodedIsWhole
<1> QED BY <1>1, PayloadsStart, PayloadsStep, PTL DEF PayloadsSpec
=============================================================================
