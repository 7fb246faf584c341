---------------------------- MODULE FixupCaches -----------------------------
(***************************************************************************)
(* The lazily published fixup caches of a File (file.go): the binds and    *)
(* rebases of LC_DYLD_INFO(_ONLY), the address maps built from them, the   *)
(* parsed LC_DYLD_CHAINED_FIXUPS, and the base addresses that resolving    *)
(* its pointers needs, which callers may set before or after the parse.    *)
(*                                                                         *)
(* Every public call holds fixupsMu from its first check to its last       *)
(* assignment, so one call is one action.  A read of the file may fail at  *)
(* any time and succeed later; a stream may also be malformed for good.    *)
(***************************************************************************)
EXTENDS Naturals, Sequences, FiniteSets

CONSTANTS
    Images,     \* what the file may hold, see Image below
    Levels,     \* kernel cache levels, 0 among them
    Bases,      \* base addresses callers supply
    Unset,      \* a base address that was not supplied
    Malformed,  \* a stream or chained-fixups payload that does not parse
    Nil

BindStreams == {"bind", "weak", "lazy"}
Streams == BindStreams \cup {"rebase"}

(* A bind is [addr, name], a rebase [addr, value].  A bind stream yields   *)
(* binds and, from its threaded opcodes, rebases.  An absent stream (size  *)
(* 0) is not read.                                                         *)
Absent == [binds |-> <<>>, rebases |-> <<>>]

ASSUME LevelAssumption == 0 \in Levels
ASSUME UnsetAssumption == Unset \notin Bases
ASSUME MalformedAssumption == Malformed # Absent /\ Malformed # Nil
ASSUME ImageAssumption ==
    \A im \in Images : im.dyldInfo \in BOOLEAN /\ im.lowest \in Bases \cup {Unset}

VARIABLES
    image,        \* the file: dyldInfo, stream, chained, lowest, mapped, base
    shared,       \* sharedCacheBase, or Unset
    kernel,       \* kernelCacheBases, or Unset
    levelZero,    \* kernelCacheLevelZeroSegment, or Unset
    dcf,          \* the published chained fixups, or Nil
    cache,        \* the published dyld-info caches
    child         \* bases of the last fileset child opened, or Nil

settings == <<shared, kernel, levelZero>>
vars == <<image, settings, dcf, cache, child>>

NoCache ==
    [ binds |-> <<>>, threaded |-> <<>>, bindsDone |-> FALSE,
      rebases |-> <<>>, rebasesDone |-> FALSE,
      targets |-> <<>>, values |-> {}, byAddr |-> <<>>, built |-> FALSE ]

-----------------------------------------------------------------------------
(* The classic dyld info.  fails is the set of streams whose read fails    *)
(* during the call.                                                        *)

Parses(s, fails) ==
    image.stream[s] = Absent \/ (s \notin fails /\ image.stream[s] # Malformed)

AllBinds ==
    image.stream["bind"].binds \o image.stream["weak"].binds \o image.stream["lazy"].binds

AllThreaded ==
    image.stream["bind"].rebases \o image.stream["weak"].rebases
        \o image.stream["lazy"].rebases

BindsParse(c, fails) ==
    c.bindsDone \/ (image.dyldInfo /\ \A s \in BindStreams : Parses(s, fails))

(* Mutant: binds are published stream by stream. *)
getBindInfoEager(c, fails) ==
    IF c.bindsDone \/ ~image.dyldInfo \/ ~Parses("bind", fails) THEN c
    ELSE IF \A s \in BindStreams : Parses(s, fails)
         THEN [c EXCEPT !.binds = AllBinds, !.threaded = AllThreaded, !.bindsDone = TRUE]
         ELSE [c EXCEPT !.binds = image.stream["bind"].binds,
                        !.threaded = image.stream["bind"].rebases, !.bindsDone = TRUE]

(* The cache after the call; it is unchanged when the call fails. *)
getBindInfoLocked(c, fails) ==
    IF c.bindsDone \/ ~BindsParse(c, fails) THEN c
    ELSE [c EXCEPT !.binds = AllBinds, !.threaded = AllThreaded, !.bindsDone = TRUE]

RebasesParse(c, fails) ==
    c.rebasesDone \/ (image.dyldInfo /\ Parses("rebase", fails) /\ BindsParse(c, fails))

(* Threaded rebases come with the binds, so those are parsed (and stay     *)
(* published) even for an empty rebase stream.                             *)
getRebaseInfoLocked(c, fails) ==
    LET b == getBindInfoLocked(c, fails)
    IN  IF c.rebasesDone \/ ~image.dyldInfo \/ ~Parses("rebase", fails) THEN c
        ELSE IF ~BindsParse(c, fails) THEN b
        ELSE [b EXCEPT !.rebases = image.stream["rebase"].rebases \o b.threaded,
                       !.rebasesDone = TRUE]

normalizeDyldInfoPointer(v) ==
    IF v # 0 /\ v \notin image.mapped /\ v < image.base /\ v + image.base \in image.mapped
    THEN v + image.base
    ELSE v

AddrsOf(t) == {t[i].addr : i \in DOMAIN t}

FirstAt(t, a) == CHOOSE i \in DOMAIN t : t[i].addr = a /\ \A j \in 1..(i-1) : t[j].addr # a

LastAt(t, a) ==
    CHOOSE i \in DOMAIN t : t[i].addr = a /\ \A j \in DOMAIN t : j > i => t[j].addr # a

bindsByAddr(t) == [a \in AddrsOf(t) |-> t[FirstAt(t, a)].name]

rebaseTargets(t) == [a \in AddrsOf(t) |-> normalizeDyldInfoPointer(t[LastAt(t, a)].value)]

rebaseValues(t) == {t[i].value : i \in DOMAIN t}

(* ErrMachODyldInfoNotFound counts as no rebases and no binds. *)
buildDyldInfoFixupsCacheLocked(c, fails) ==
    LET r == getRebaseInfoLocked(c, fails)
        b == getBindInfoLocked(r, fails)
    IN  IF c.built THEN c
        ELSE IF image.dyldInfo /\ ~RebasesParse(c, fails) THEN r
        ELSE IF image.dyldInfo /\ ~BindsParse(r, fails) THEN b
        ELSE [b EXCEPT !.targets = rebaseTargets(b.rebases),
                       !.values = rebaseValues(b.rebases),
                       !.byAddr = bindsByAddr(b.binds), !.built = TRUE]

(* GetBindName on classic dyld info: a scan of the binds. *)
bindAtLocked(c, a) == IF a \in AddrsOf(c.binds) THEN c.binds[FirstAt(c.binds, a)].name ELSE Nil

-----------------------------------------------------------------------------
(* Base addresses. *)

effectiveKernelCacheLevelZeroSegmentAddress ==
    IF levelZero # Unset THEN levelZero ELSE image.lowest

KernelCacheBaseAddress(level) ==
    IF kernel[level] # Unset \/ level # 0 THEN kernel[level]
    ELSE effectiveKernelCacheLevelZeroSegmentAddress

(* The base resolveKernelCacheTarget uses. *)
BaseUsed(d, level) ==
    IF d.kernel[level] # Unset \/ level # 0 THEN d.kernel[level] ELSE d.levelZero

NewDcf ==
    [ chains |-> image.chained, shared |-> shared, kernel |-> kernel,
      levelZero |-> IF kernel[0] # Unset THEN Unset
                    ELSE effectiveKernelCacheLevelZeroSegmentAddress ]

-----------------------------------------------------------------------------
Init ==
    /\ image \in Images
    /\ shared \in Bases \cup {Unset}
    /\ kernel = [l \in Levels |-> Unset]
    /\ levelZero = Unset
    /\ dcf = Nil
    /\ cache = NoCache
    /\ child = Nil

(* GetBindInfo, and GetBindName before its scan. *)
GetBindInfo ==
    /\ \E fails \in SUBSET Streams : cache' = getBindInfoLocked(cache, fails)
    /\ UNCHANGED <<image, settings, dcf, child>>

GetRebaseInfo ==
    /\ \E fails \in SUBSET Streams : cache' = getRebaseInfoLocked(cache, fails)
    /\ UNCHANGED <<image, settings, dcf, child>>

(* decodeDyldInfoPointer and decodeDyldInfoPointerAtAddress, for files     *)
(* with dyld info and no chained fixups.                                   *)
dyldInfoFixupsSnapshot ==
    /\ image.dyldInfo /\ image.chained = Nil
    /\ \E fails \in SUBSET Streams : cache' = buildDyldInfoFixupsCacheLocked(cache, fails)
    /\ UNCHANGED <<image, settings, dcf, child>>

(* dyldChainedFixupsLocked: complete and configured, or not published. *)
DyldChainedFixups ==
    /\ dcf = Nil /\ image.chained \notin {Nil, Malformed}
    /\ dcf' = NewDcf
    /\ UNCHANGED <<image, settings, cache, child>>

SetSharedCacheBaseAddress(b) ==
    /\ shared' = b
    /\ dcf' = IF dcf = Nil THEN Nil ELSE [dcf EXCEPT !.shared = b]
    /\ UNCHANGED <<image, kernel, levelZero, cache, child>>

(* Mutant: fixups that are parsed already keep the old base. *)
SetKernelCacheBaseAddressOnly(level, b) ==
    /\ kernel' = [kernel EXCEPT ![level] = b]
    /\ UNCHANGED <<image, shared, levelZero, dcf, cache, child>>

SetKernelCacheBaseAddress(level, b) ==
    /\ kernel' = [kernel EXCEPT ![level] = b]
    /\ dcf' = IF dcf = Nil THEN Nil ELSE [dcf EXCEPT !.kernel[level] = b]
    /\ UNCHANGED <<image, shared, levelZero, cache, child>>

setKernelCacheLevelZeroSegmentAddress(b) ==
    /\ levelZero' = b
    /\ dcf' = IF dcf = Nil THEN Nil ELSE [dcf EXCEPT !.levelZero = b]
    /\ UNCHANGED <<image, shared, kernel, cache, child>>

(* copyKernelCacheBasesTo the child GetFileSetFileByName has just opened. *)
copyKernelCacheBasesTo ==
    /\ child' = [ kernel |-> kernel,
                  levelZero |-> IF kernel[0] # Unset THEN Unset
                                ELSE effectiveKernelCacheLevelZeroSegmentAddress ]
    /\ UNCHANGED <<image, settings, dcf, cache>>

(* After changing the file a caller resets; the settings stay. *)
ResetFixupsCache ==
    /\ image' \in Images
    /\ dcf' = Nil
    /\ cache' = NoCache
    /\ UNCHANGED <<settings, child>>

Next ==
    \/ GetBindInfo \/ GetRebaseInfo \/ dyldInfoFixupsSnapshot \/ DyldChainedFixups
    \/ \E b \in Bases : \/ SetSharedCacheBaseAddress(b)
                        \/ setKernelCacheLevelZeroSegmentAddress(b)
                        \/ \E level \in Levels : SetKernelCacheBaseAddress(level, b)
    \/ copyKernelCacheBasesTo \/ ResetFixupsCache

Spec == Init /\ [][Next]_vars

-----------------------------------------------------------------------------
(* Properties. *)

(* What a parse of the present file with no failing read would publish. *)
WholeRebases == image.stream["rebase"].rebases \o AllThreaded

Whole(c) ==
    /\ c.bindsDone => /\ \A s \in BindStreams : image.stream[s] # Malformed
                      /\ c.binds = AllBinds /\ c.threaded = AllThreaded
    /\ ~c.bindsDone => c.binds = <<>> /\ c.threaded = <<>>
    /\ c.rebasesDone => c.bindsDone /\ c.rebases = WholeRebases
    /\ ~c.rebasesDone => c.rebases = <<>>
    /\ c.built => /\ c.bindsDone /\ c.rebasesDone
                  /\ c.targets = rebaseTargets(WholeRebases)
                  /\ c.values = rebaseValues(WholeRebases)

(* A slot has one bind name, whichever of the two lookups is asked: the    *)
(* map of the pointer decoder and the scan of GetBindName agree.           *)
SlotLookupsAgree(c) ==
    c.built =>
        /\ DOMAIN c.byAddr = AddrsOf(c.binds)
        /\ \A a \in DOMAIN c.byAddr : c.byAddr[a] = bindAtLocked(c, a)

(* "Build into locals and publish only after every parser succeeds": every *)
(* cache that is marked done is the whole parse of the present file,       *)
(* whatever reads failed, in whatever order the caches were first asked    *)
(* for, nothing is published twice or in part, and the maps built from it  *)
(* answer as the lists do.                                                 *)
CachesAreWhole == Whole(cache) /\ SlotLookupsAgree(cache)

(* Set before or after the parse, before or after a reset: the parsed      *)
(* fixups resolve with exactly the bases the File reports.                 *)
BasesAgree ==
    dcf # Nil => /\ dcf.chains = image.chained
                 /\ dcf.shared = shared
                 /\ \A level \in Levels : BaseUsed(dcf, level) = KernelCacheBaseAddress(level)

(* A fileset child starts with the bases its parent resolves with. *)
ChildInheritsBases ==
    [][child' # child =>
          \A level \in Levels : BaseUsed(child', level) = KernelCacheBaseAddress(level)]_vars

=============================================================================
