# A TLA+ verification project for go-macho

go-macho is a library that parses, edits, signs and writes Mach-O files. A program
opens a file as a `File` and asks it questions, from several goroutines if it likes;
between questions it may edit the load commands, set base addresses, sign and save.
This directory models the parts of the library that keep state between calls, and
the walks over graphs and chains that those parts cache. TLC checks the models on
small instances; TLAPS proves the central invariants for every instance.

Line numbers below and in `PROJECT.json` are those of the sources beside this
directory.

## 1. Inventory

| Part | Source | State it keeps | Operations | What is hard | What makes it correct |
|---|---|---|---|---|---|
| Lookup indexes | `symindex.go`, `symindex_ref.go`, `file.go` (`FindSymbolAddress`, `GetExports`, `DyldExports`) | `symIdx`, `exp`; the public `Symtab.Syms` | look a name up, parse and publish exports, replace or edit the table, reset | concurrent readers, tables recognised by address and length, edits in place of symbols and of the exports handed out, failing parses | an indexed lookup answers as the linear scan over the tables and the exports it copied; the first published parse stays |
| Swift contexts | `swift.go` (`getContextDescChain`), `swift_ctxmemo.go` | `swiftCtx` (depth, entries), the caller's cursor | open and close a scope, look up, store | callers without a scope, cursor replay, parents that form cycles | a remembered lookup cannot be told from an uncached one |
| Fixup caches | `file.go` 2150–2500, 3760–3830, 4120–4390 | `dcf`, `binds`, `rebases`, address maps, base addresses | parse and publish, set a base, reset, open a fileset child | reads that fail halfway, the order of setters and parses, one slot bound twice | caches hold whole parses; parsed fixups use the bases the File reports |
| Chained fixups | `pkg/fixupchains` | `Starts` (public), fixups, page cache, segment index | parse all chains, look one offset up | concurrent page builds, edits of `Starts`, overlapping chains, links at page ends | the page cache answers as the link-by-link walker |
| Table of contents | `toc.go`, `cmds.go`, `export.go` (`writeLoadCommands`) | `Loads`, `Sections`, `NCommands`, `SizeCommands` | add and remove commands, segments, sections; rename; derive a copy; write; read back | sizes computed in one place and written in another, in files of two widths; a section table the segments share, and removals that leave it as it is | what is written reads back command by command |
| Signing and saving | `export.go` 427–890, `cmds.go` | header, loads, `__LINKEDIT` in memory, `LC_CODE_SIGNATURE` | `CodeSign`, `SaveBuffer`, add, remove, reopen | failure after the file was changed, signing twice, room in the header | a failed signing changes nothing; the saved signature covers the saved bytes; `__TEXT` survives |
| Bind and rebase opcodes | `file.go` 4396–5068 | registers, ordinal table and lists of one parse | one per opcode | wrap-around, repeats, threaded chains, table entries used long after they were checked | every fixup lies in its segment and can be resolved; only what leaves the segment is refused |
| Export trie, LEB128 | `pkg/trie` | the place and Brent's anchor of one walk | walk to a symbol, parse all, read and write integers | cycles, empty edges, the last bits of a word | both readings agree; walks end; integers are exact |
| Load-command parsing | `file.go` 300–2050, `cmds.go`, `types/commands.go` | the `File` being built | one case per command, filter, write back | sizes and counts that contradict each other, what one case leaves for another, fields read and not kept | a file written back reads the same; a filter only leaves commands out |
| Readers | `internal/saferio`, `safealloc.go`, `types/types.go`, `types/section.go`, `file.go` | cursors over one file | read, probe, convert addresses, resolve a pointer | calls that share a reader, multiples of a chunk, sizes a file merely claims, sums that wrap | a call reads the bytes it sought; both ways to a pointer agree |
| Export from a cache | `export.go` 26–424, 893–1766 | rewritten commands and `__LINKEDIT` | lay out, remap, rebuild | segments move by name, sections by offset or address, tables by offset; symbols are regrouped under an old indirect table | every offset lands on the bytes it named; the new tables agree |
| Pointer formats, starts and imports | `pkg/fixupchains/types.go`, `fixupchains.go` | `Starts`, imports, `PointerFormat` | decode, resolve, read on demand | seven switches over sixteen formats; a read that fails halfway | decoders agree; what is kept is whole |
| Function lists, lazy dylibs | `file.go` 3120–3600, `cmds.go` | `functions`, the `Data` of three commands | compute, publish | two producers of one list, failed reads that are retried, names that other calls make available | a published value is one whole result; sums that wrap put nothing out of step |
| Code signatures | `pkg/codesign` | the `Config` a caller signs with again | parse, create, print requirements | limits and offsets of blobs, slots named twice, hashes left by an earlier signing, nesting of expressions | what is read lies in the data; a signature binds its components; text means what its words encode |
| ObjC and Swift metadata, fat files | `objc.go`, `swift.go`, `fat.go` | `objc` and Swift caches | decode | – | – |
| Types, names, archives | `types/`, `pkg/xar`, `pkg/cpio` | none | decode, format | – | – |

The parts meet in the `File`. Parsers run on private readers and share only caches,
each behind a lock of its own: `fixupsMu`, `expMu`, `symIndexMu`, `functionsMu`,
`swiftCtxMu`, `swiftMu`, `mu` (ObjC objects), `lazyLoadMu`, and `parseMu` and
`pageCacheMu` inside the chained fixups. Locks do not nest, except that
`ResetFixupsCache` takes `symIndexMu` inside `fixupsMu`, so no cycle of waiting is
possible. The contract (`file.go` 33–60) is: read-only parsers may run concurrently;
whatever modifies the File (`Export`, `CodeSign`, `SaveBuffer`, `AddLoad`, `RemoveLoad`,
base setters, `ResetFixupsCache`, assignment to fields) is serialised with every reader
by the caller. The models keep that contract: concurrent readers interleave at every
critical section, and a modification happens only while no reader is inside a call.

## 2. Modules

| Module | Models | Granularity |
|---|---|---|
| `SymIndex` | the lookup indexes and the export cache | one action per critical section of a reader; one per kind of modification |
| `SymIndexProofs` | theorems about `SymIndex` | |
| `SwiftContext` | `getContextDescChain` as a recursive function over images | one action per lookup |
| `SwiftCtxMemo`, `SwiftCtxMemoProofs` | the memo around it, and theorems about both | one action per critical section of `swiftCtxMu` |
| `FixupCaches` | dyld-info caches, chained fixups, bases | one action per public call: each holds `fixupsMu` throughout |
| `FixupCachesProofs` | theorems about `FixupCaches`, `FunctionLists` and `LazyPayloads` | |
| `ChainWalk` | the walks over chains, as operators | |
| `ChainPages`, `ChainPagesProofs` | `GetFixupAtOffset`, its page cache, `Parse`, edits of `Starts`, and theorems (also about `ChainMetadata`) | check, build and store are separate steps, as the lock is released between them |
| `TOC` | load commands, their computed and written sizes, sections | one action per mutator, in files of either width |
| `Signing`, `SigningProofs` | `CodeSign`, `SaveBuffer`, reopening, and theorems | one action per call, with every early return and the rollback |
| `DyldOpcodes`, `DyldOpcodesProofs` | `parseRebase`, `parseBinds`, and theorems | one action per opcode with any operands, one per round of a loop inside an opcode |
| `RecursionTheorems` | induction over naturals and the existence of functions defined by recursion, for the proofs | |
| `Trie` | `WalkTrie`; `ParseTrie` as a recursive operator | one action per round of the loop |
| `LEB128` | the readers and writers of variable-length integers, at any width | |
| `LoadCommands` | `NewFile` case by case with its filter, and the writing of each type | reading, writing back, reading again |
| `Readers` | chunked reads, probes, cursors, address conversion, `GetPointer` and `GetPointerAtAddress` | a call seeks and reads in two steps |
| `FilesProofs` | theorems about `Readers`, `TOC`, `LoadCommands` and `Export` | |
| `Export` | `File.Export`: layout, remapping, reading of segments, the new `__LINKEDIT` | one action per call, with every early return and what it leaves in the File |
| `ChainFormats` | the decoders of one pointer and the resolution of rebases, bit by bit | one action per pointer |
| `ChainMetadata` | header, starts and imports, read on demand | one action per public call |
| `FunctionLists` | `GetFunctions`, `GenerateFunctionStarts` | check, compute and publish are separate steps |
| `LazyPayloads` | lazily loaded dylibs, function variants and their fixups | one action per call, with the reads that succeed |
| `CodeSignatures` | `ParseCodeSignature` and the blobs of its slots (theorem in `SigningProofs`) | one action per signature |
| `SpecialSlots` | `Sign` and the part of `CodeSign` that prepares its `Config` | one action per signing or change of the `Config`, with early returns |
| `Requirements` | `evalExpression` and `CreateRequirements` | one action per expression or chain |

`ChainPages` extends `ChainWalk`, `SpecialSlots` extends `CodeSignatures` (what is signed is
parsed back); `MCSwift` takes the outcomes of the memo's lookups from
`SwiftContext`, so the memo is checked over what the lookups really compute.
`MCDyldInfo`, `MCFiles`, `MCChainWalk`, `MCFileCaches` and `MCSignatures` each check
modules that belong together in one run: a variable says which part a behaviour is
about, and the other parts stand still.
An `MC` module gives a module's constants their values; properties
and mutated definitions stand in the module they are about. `PROJECT.json` maps every
definition to the lines it models.

How state corresponds to code, where it is not the field of the same name:

* `SymIndex`. Memory is explicit: `symHeap` and `expHeap` are backing arrays, a slice is a
  window `[arr, len]`, and an array that nothing refers to may be reused. That is what
  makes "same address and length" a real test with false positives to worry about. `EditSym` and
  `EditExport` change an entry in place. `copied` is a history variable: what `f.exp` held when the
  list of the cache was stored.
  `pc`, `symbol`, `ix`, `fold`, `src`, `parsed`, `list`, `ret` are a reader's locals.
  `FoldKey` stands for `strings.EqualFold`.
* `SwiftContext`. An image gives each address a descriptor (or an unmapped or truncated
  place) and each slot a pointer; a dotted parent path is the sequence of its names; the
  cursor is the position of the calling method's reader, a place where a reader can start or one
  behind or inside a descriptor. A call is a reference, a position and the descriptors that led to it.
* `SwiftCtxMemo`. Everything a lookup depends on is one value, `fileState`; `Outcome` says what
  the uncached lookup does on it.
* `FixupCaches`. A stream is what its parse yields; `fails` is the set of streams whose read
  fails during the call. `shared`, `kernel`, `levelZero` are the File's settings; `dcf.bases`
  the copy inside the parsed fixups.
* `ChainWalk`. The unit is the 4-byte word. A pointer is its `next` field and what it is
  (rebase, bind, bind without an import). Arithmetic that wraps in the code wraps at `MaxU64`.
  The segment index is the set of segment ranges. `StartsAssumption` says that a segment has as
  many page starts as pages: the parser makes it so, and `Parse` panics on a table of the
  caller that has fewer (`fixupchains.go` 72).
* `TOC`. A command is its kind and sizes: `len` the `cmdsize` field, `head` the struct,
  `body` what follows. `Written` is what `Write` appends, `LoadSize` what the code computes. `Magic`
  is the width of the file; `SizeWrap` stands for the 2^32 of the header's `SizeCommands`. Every command may be
  removed at any time. Two history variables remember what removals and additions did: `measured` says that each
  command that came or went had the `cmdsize` that `LoadSize` computes, `orphans` that a segment was
  removed whose sections were the last of the table, which `RemoveLoad` leaves there.
* `Signing`. The unit is eight bytes, a file a sequence of words tagged by what they hold,
  so "the same bytes" is equality of sequences. A signature is the words it was made
  over. A layout fixes the commands that signing does not touch.
* `DyldOpcodes`. The stream is arbitrary, so an opcode is an action that may come next at any
  time, and its cut-off or overlong operands are `BadOpcode`. Offsets are words up to `MaxU64`;
  `MaxInt64` is half of it. `Word` is the part of the file a chain can be read from: a link
  and an ordinal, or -1 for a rebase. `DONE` in a lazy stream, addends and repeats of zero
  change nothing that is kept and are not actions. When a call returns, its locals go.
* `Trie`. A trie maps offsets to nodes; labels are sequences of characters. `seen` is a history
  variable for `CyclesAreReal` and decides nothing.
* `LEB128`. 7 and 64 bits become `PayloadBits` and `WordBits`: a word of five bits in bytes of
  two has, like 64 in sevens, a last byte of which one bit fits.
* `LoadCommands`. A command in a file has its `cmdsize`, the fields that decide how it is read
  (`val` for all others) and what follows the struct; a Load keeps what its case keeps, and a
  field it drops is written as zero. `Wrap32` is 2^32. `AsLinkersWrite` says what a linker keeps
  to where `NewFile` does not insist on it: a string right behind its struct, as many entries as are counted.
* `Readers`. The byte at offset `o` is `o`, so what was read tells from where. `Chunk`, `Probe` and
  `Wrap` scale `safeAllocChunk`, `safeProbeThreshold` and 2^64 down.
* `Export`. A byte is tagged by where it came from: an offset of the file, an address of the
  cache, padding, the new header, or an entry of a new table. A command is one byte. The relocations of
  a section, which `Export` does not touch, are left out.
* `ChainFormats`. A 64-bit number is the set of its one bits, a pointer type the places and widths
  of its fields, at full width.
* `ChainMetadata`. A payload is its sizes and offsets in bytes and, of its contents, what is
  checked. `answers` is what the calls returned.
* `FunctionLists`. A stream of starts is the values `ReadUleb128` gives; `call` holds the locals of a
  call between its critical sections of `functionsMu`. The loops over a stream, over the words of
  `__text` and over a list are recursive functions of the number of rounds. Sums of addresses wrap at
  `AddrSpace`; a section whose end wraps holds no address, as in the code.
* `LazyPayloads`. `reads` is what can be read during a call; `Walk` is the walk over `slots` after each
  of the at most `MaxChain` rounds. `named` remembers whether the exports were parsed when the
  variants were last asked for.
* `CodeSignatures`, `SpecialSlots`. A signature is its SuperBlob, index and the blobs by offset; a hash
  is an algorithm, a size and what it is a hash of. The alternate CodeDirectories are slots
  20 up in place of 0x1000 up. `Sign` changes the `Config` up to the step that fails; `CodeSign`
  works on a clone.
* `Requirements`. A word is an operand or an opcode with its flags; text is a sequence of tokens.
  The meaning of a text is computed by an independent reader with the usual precedence.

## 3. Runs

All runs finish in less than five minutes with two workers.

| Run | Bounds | Checks |
|---|---|---|
| `symindex_readers` | two readers, one modification, three names two of which fold together, two tables, a classic and a modern trie that share a name, a trie that fails, five export arrays; the modification may be an edit in place of either list | `LookupMatchesCopied`, `IndexesAreFresh`, `PublishedExportsAreFinal` |
| `fixup_caches` | fixups: seven files, two levels, three bases, any set of failing reads; functions: two callers, streams of starts, some of which wrap, a text at the top of the address space among texts with and without prologues, alignment exponents 0 to 4; payloads: two dylibs with fields at and beside their limits, chains that end, run on or leave the image, tables of variants, reads that fail; Swift contexts: every image of three descriptors and one slot, depth limit 2; their memo: two goroutines, two scopes, two references, four files (chain, cycle, binds only, custom resolver) | `CachesAreWhole`, `BasesAgree`; `FunctionListsAreOne`; `LazyDylibsAreWhole`, `VariantNamesSettle`; `ChainsAreExact`; `ReplayIsIndistinguishable`, `DroppedWithLastScope` |
| `chain_walks` | walks: all files of six words with links of 0 to 2 strides (0 or 2 in the last word), without a flaw, with a bad bind at one of two places or cut after five words (1944 in all), ten starts tables, every offset; lookups: two readers, two offsets, a file of five words with every kind of pointer, nine starts tables that differ in one field each, failing reads, with at most one page at a time cached or being built; formats: sixteen formats, each bit alone, pairs of bits, every top, three settings of bases near 0 and 2^64; metadata: two segments, each field at and beside its limits, calls in any order | `WholePageAgrees`, `LookupsFindWhatParseFound`; `LookupMatchesWalker`, `ParsedListIsOneWalk`; `FormatsAgree`; `KeptMetadataIsSound` |
| `files` | contents: up to three commands, of eight a file has and four a caller adds, four sections, real sizes of 64-bit and of 32-bit files, a header count that wraps at 512; commands: every pair of the kinds `NewFile` knows, as linkers write them, and ten it refuses, after and before a symbol table, under four filters; readers: two calls on a file of five bytes, chunks of two, segments with a hole and a zero-fill tail; export: standalone images with and without gaps and odd sizes, images in a cache in either word size with symbols to regroup, with and without extra ones | `CommandsFollowCmdsize`, `SegmentsIndexTheirSections`; `RereadIsTheSame`, `FilterIsProjection`; `ReadsAreOnesOwn`, `PointersAgree`; `OffsetsFollowTheirData`, `RebuiltSymbolsAgree` |
| `signing` | files: nine layouts, three calls of each kind, three identifiers, three estimates, signatures that fit, are too long or fail; words: all expressions of up to five opcodes, each form of operand before and after each other, chains of up to three certificates; data: one CodeDirectory with each field at and beside its limits, indexes of up to three entries; slots: seven Configs, seven old signatures, one change, two signings | `SignatureCoversSavedFile`, `SignedFilesCanBeSaved`, `TextSurvives`, `FailedSignChangesNothing`; `TextMeansWhatIsEncoded`; `ParsedSignaturesAreSound`; `SignedComponentsAreBound`, `SigningAgainKeepsComponents` |
| `dyld_info` | a word of three bits, one segment whose end wraps and that has less in the file than in memory, streams of up to two fixups with any opcodes in between, operands 0, 1, 2, 3 and 7, two types in a bind stream, where the type is only recorded; without tables and dylibs, streams of up to three fixups: repeats of one, two and three rounds, with and without a skip, and counts one below, at and one above what the segment has room for; 5,040 tries of three nodes and four symbols; all words of five bits and all strings of up to four bytes | `FixupsLieInSegments`, `BindsCanBeResolved`, `ChainLimitNeverBites`, `OffsetBoundsAreExact`; `WalksAreExact`, `WalkEnds`; `IntegersAreExact` |
| `symindex_edits` | one reader, one modification, otherwise as `symindex_readers` | violates `LookupMatchesLinear` |
| `toc_padding` | as the contents of `files` | violates `PaddedToLoadAlign` |
| `export_seams` | as the images of `files` | violates `TablesAtSeamsFollow` |
| `signing_thread` | a file with a thread state and no spare room | violates `TextSurvives` |
| `signing_again` | a file that ends off the alignment | violates `SignedFilesCanBeSignedAgain` |
| `signing_slots` | as the slots of `signing` | violates `EmbeddedComponentsAreBound` |

Why these bounds are enough for the cases that matter. A stale index takes one table
that was indexed and one that took its place: two tables and one modification between two
lookups; the theorems of section 4 hold for any number of readers and modifications.
A race between fetching and storing the export list takes two
readers; a third sees nothing a later call of one of the two does not. With `After = 1`
both the scan before an index is built and the index itself are used. Two words
apart is the least distance at which two chains of a page can interleave, and six words are
two pages with a pointer across their boundary; five, that the last pointer is cut.
A bound on the rounds of a repeat that is one too large or too small shows in a segment with
room for two or three fixups, which is why the repeats run to a third fixup and the operand 2 is there. Three signings are a first one, one over the result, and one after it is saved and
reopened. Two fixups are one before and one after any change of the registers; the
opcodes between them are not bounded. Three trie nodes are a root and a cycle of two that
is entered from outside, where the anchor has to move; the operands of the
opcodes include zero, one less and one more than the pointer size, and the largest word.
What one command leaves for another in `NewFile` (sections so far, a symbol table) takes
two commands, or three when one of them is refused. A chunk of two bytes in a file of
five has reads below, at and above a multiple of the chunk and a short last one. Pages of
four and segments of 14 or 16 bytes give aligned and unaligned ends, with and without a
gap before the next segment. No decoder looks at more than two fields at once, so
single bits and pairs of bits, with every value of the top two, reach each branch and
each carry; the formats are all there are. Two signings over a `Config` are
one that fills it and one that reuses it. Five opcodes are a binary operator whose operands are
operators of the other kind or negations, the least at which parentheses matter twice.
Where a bound might hide a case (number of readers, tables, calls), a
theorem covers the rest.

`CHECK_DEADLOCK FALSE` is set where the model stops at its bound (modifications, calls,
commands). The other runs check that no reader gets stuck.

Fairness is assumed once: weak fairness of a round of `WalkTrie`'s loop, since a goroutine
inside a loop that takes no lock goes on, and `WalkEnds` says that every walk then
returns. Elsewhere no liveness is stated. The library has no threads, timers or queues
of its own: every call is a bounded computation between its caller's locks, and whether
a caller calls again is not the library's affair. That the other walks end on cyclic
input is stated as safety: `ChainsAreExact` says which chains are refused, and
`WholePageAgrees` and `ChainLimitNeverBites` cover the limits on links.

### What the runs show

All invariants of the passing runs hold as the code is. Six statements the repository makes do not:

1. `signing_thread`. The space check of `CodeSign` adds up `LoadSize`, which leaves out the
   thread states of `LC_THREAD` and `LC_UNIXTHREAD` (`cmds.go` 549), so a file without
   spare room loses the start of its first section. `TextAlwaysSurvives` proves that this
   difference of sizes is the only way.
2. `signing_again`. A second `CodeSign` before the file is saved reads `__LINKEDIT` up to the
   signature from the opened file; the padding before it exists only in memory, so at
   the end of a file the read fails.
3. `signing_slots`. The tests expect the hash of every embedded raw component in the
   CodeDirectory. For entitlements without a DER form `Sign` sets the number of special
   slots back to 5 (`pkg/codesign/codesign.go` 1090) unless the old signature bound slot 6, so
   a raw component of slot 6 is embedded and not bound. `SignedComponentsAreBound` is what
   does hold of the other components.
4. `symindex_edits`. `symindex.go` 13–14 promises that every lookup returns what the linear scan returns, and
   `file.go` 5265 that the exports slice may be edited in place between calls. `cachedExports` knows
   that slice by its identity only (`symindex.go` 265) and goes on with its copy, whose names it
   checks against themselves. `LookupMatchesCopied` says what holds: an edit of the symbol table or the load commands is
   seen at once, an edit of that one list not before it is copied again.
5. `toc_padding`. Commands of a 32-bit file are to be padded to four bytes (`LoadAlign`, `toc.go` 91). Nothing uses
   `LoadAlign`; the `Write` of a named command pads to eight (`cmds.go` 2923), so one with a `cmdsize` of
   28 takes more, and whatever follows is not where its reader looks.
6. `export_seams`. An offset is to be the "file offset of data in __LINKEDIT segment" (`types/commands.go` 944). `Remap`
   takes the end of a segment as part of it (`export.go` 54), so a table that begins where `__LINKEDIT`
   does, behind a segment of less than whole pages (4 KiB segments when pages are 16 KiB), is sent to
   the padding behind that segment.

## 4. Proofs

A theorem holds for all values of the constants that satisfy the named assumptions of
its module. They say that bounds and sizes are natural numbers, that tables are
sequences of symbols, that special values differ from ordinary ones and, for signing,
that the file as opened is consistent (`LayoutsAssumption`: its commands end before the
first section, its signature lies behind `__TEXT`).

* **`SymIndexProofs`** — `LookupsMatchCopied`, `LookupsMatchLinear`, `IndexesStayFresh` (of `IndexesStayLive` and `ExportCacheIsFresh`),
  `FirstParseWins`, `TypeCorrect`. That an answer is right when it is returned is not
  inductive: the reader decided on it steps earlier. `IInv` says at every step of a
  reader what its locals mean for the live tables: an index it copied describes the table
  it will be used on, the source it recorded is the present one or differs, the list it
  parsed is what `GetExports` would give. `OtherReader` shows that one reader's step keeps
  another's facts, and there is one lemma per action. Two facts carry the argument:
  modifications wait for readers, and an export array is never reused while a cache or a
  reader refers to it. The exports a lookup sees are those of the live tables with `copied` for the
  contents of `f.exp`; `LookupsMatchLinear` is about the behaviours in which `EditExport` does not happen, where the two
  are the same. `symindex_edits` shows that it cannot do without.
* **`SwiftCtxMemoProofs`** — `MemoIsTransparent`, `MemoEndsWithScopes`, `NoStaleEntries`,
  `TypeCorrect`. `IInv` adds that `depth` counts the open scopes, that an entry is a success on the
  present file which moved the cursor, and that a goroutine which decided to store is
  still inside its parser. A scope-less caller that stores late is the case that needs it.
  About `SwiftContext`: `ChainsOfParents`. `getContextDescChain` calls itself with one more descriptor behind it, up to
  `maxSwiftContextDepth`; so it ends (`Left`) and what holds of calls that make no other holds of all by
  `CallInduction`. `OnWay` is the invariant of the way up: the descriptors behind a call are distinct, they
  belong to every set that holds the start and is closed under parents, and each one's parent is the next. So where the
  call stops, they are all of the chain (it ends, or comes back to one of them) or there is one too many.
  `ShorterChain` says that fewer descriptors behind a call do not change an answer it has, which makes the path below a
  parent the parent's own; `AnswersAlike` is one unfolding. `ContextImagesAssumption` says that references lead
  to the addresses of the image, and `AddressesAssumption` that these are finitely many; TLC evaluates both in `fixup_caches`.
* **`FixupCachesProofs`** — `PublishedWhole`, `BasesStayInStep`, `ChildrenInherit` (a fileset child
  starts with the bases its parent resolves with; this one has no run). `IInv` relates each cache to the file (`Sound`) and the bases in the
  parsed object to the settings, level by level.
  About `FunctionLists`: `CallersShareOneList`. That each function of a list ends where the next one starts (`EndToEnd`), and
  that they ascend when no sum of addresses wraps (`Listed`), is kept of the
  published list, of what each caller holds between building and publishing, and of what it was
  handed; `FunctionsInv` adds that a list handed out is empty or the published one, which is never replaced
  once it is not empty. Both builders give such lists: after the first value a delta is positive, so the starts grow
  unless a sum wraps (`Fits`); the search meets the words in order of address. The end of the last function takes no part, and of
  sections and `Align` only that they give numbers is needed. From the order follows what a lookup by address finds.
  About `LazyPayloads`: `DylibsStayWhole`, `NamesStaySettled`. `DylibsCached`: what is cached is what its payload decodes to, and the
  payload decodes. That a payload which decodes is a whole walk is an induction over the rounds: the slots left behind are
  linked from the first to the next, below the limit, and hold exactly the binds gathered, in increasing order (`Visits`); a
  walk ends only at a slot with no next, and a stride of zero is refused before it begins. `NamesKept`: a name found stays when more is
  parsed later (`ResolvedAgain`), as the symbol table is asked first. The hypotheses type the file: addresses, offsets and
  deltas are natural numbers (`FunctionFilesAssumption`, `StreamsAssumption`, `PayloadFilesAssumption`, `LimitsAssumption`); TLC evaluates them in `fixup_caches`.
* **`ChainPagesProofs`** — `PagesStayFresh`: a stored page is the result of some build, and a
  build whose inputs match the present ones is the page of today. `WholePagesAgree`: the walk of a
  whole page (offsets gathered chain by chain, sorted where chains overlap, searched)
  and the link-by-link walk give the same answer, for every file and table. Both
  walks go on until a limit, so the argument is an induction along the chain, on the links that are left
  before the page, the segment or the limit ends; `SegmentsAreIndexed` is its invariant. With it
  `CacheIsTransparent` needs no hypothesis. `ParsedListsAreOneWalk` rests on the invariant
  `ParsedOnce`: the list is empty, or all of it comes from one walk of the `Starts` of that moment,
  whatever failed attempts came before. `LookupsFindTheParsed` assumes `NoneInside`, that no segment's
  range lies inside another's: a lookup searches for one range and looks no
  further, so below it an inner segment would hide the outer one's pages.
  About `ChainMetadata`: `MetadataStaysSound`. `MetadataInv` says that whether a call succeeds depends on the payload
  alone. That is so although a failed `ParseStarts` leaves the format of the segments before the one that failed
  (`format` of `SoundDcf`), with which the next call begins: `ReadAgainAlike`, by induction along the table, shows that a
  table read from there fails as the first did. What was kept then follows from the checks of each record
  (`TableIsRead`, `FittingRecord`). The hypotheses type the payload: its fields are words, and a table that fits has
  entries (`PayloadsAssumption`, `SizesAssumption`); TLC evaluates them in `chain_walks`.
* **`SigningProofs`** — `HeaderStaysRight`, `FailuresAreUndone`, `TextAlwaysSurvives`, `SignaturesCoverTheirFiles`,
  `CommitsCanBeSaved`. `Inv` keeps the counters equal to the commands; `TextInv` says that the opened image and every
  saved one begin with a header no longer than the room before the first section and
  then hold `__TEXT`; `SavedInv` says what a signature in memory was made over and that saving it puts the same
  words in front of it. `Sized` (`LoadSize` is what is written) is assumed where
  `signing_thread` shows it is necessary. `NoDataIsNoFile` keeps the marker for missing data apart from
  files. `Roomy` says that a `__TEXT` without sections has room for the
  header and the commands: `validateCodeSignatureLoadSpace` (`export.go` 491–511) compares them with the first
  section that has an offset and, when there is none, with nothing. The layouts of `signing` satisfy all three, but for the
  one of `signing_thread`.
  About `CodeSignatures`: `ParsedSignatures`, for every signature, whatever its fields say. The hashes of a
  CodeDirectory are spans of one size that follow each other from the first special slot on (`HashesAt`), so they
  are apart and as many as the slots (`HashesAreApart`). A byte lies in the page of its quotient alone, and the check of
  the signing limit makes the last quotient that of the last slot (`PagesCoverTheLimit`). The scatter vector ends because a
  cursor comes nearer to the end of the blob with every entry (`LeftShrinks`). The entries in use are the first of
  their types, so at most one is the primary directory and it stays in front (`DirectoriesAreNamed`), and a
  signature whose duplicate is retyped makes the same use of the others (`SameUse`). The hypothesis is that fields
  are numbers (`SignaturesAssumption`); TLC evaluates it in `signing`.
* **`DyldOpcodesProofs`** — `FixupsStayInside`, `BindsStayResolvable`, `ChainLimitIsSafe`, `OffsetChecksAreExact`, for every
  stream, segment table and word size. `IInv` puts each fixup a machine may gather in a set
  (`GoodBinds`, `GoodRebases`: placed inside the segment, resolvable for the kind of stream)
  and says what the registers promise for the fixups to come: table entries are ordinals
  that were checked, a weak stream never leaves its ordinal, a lazy one its type, only the
  bind stream has a table. In a chain, `steps * PointerSize <= segOffset`, as each link goes at
  least one pointer forward; with the bounds check this gives `steps <= filesz \div PointerSize`.
  That the check itself is exact, also where its 64-bit sums could wrap, takes a second
  invariant, `Loops`: the offset is a word, and inside a repeat loop the rest of the run fits.
* **`FilesProofs`** — about `Readers`: `ReadsStayApart`, `SlotsReadAlike`. `ReadsInv` says of each call that its own
  cursor is where the call put it and that what it got lies there; `newReader` is why no step of
  another call disturbs that. That the loop over chunks delivers the bytes of one read is an induction on
  the bytes left. The hypotheses are about constants: `MachineSizes` (the file is
  shorter than the largest `int`), `SegmentsLieApart` (neither their addresses nor their file parts overlap, and no
  segment has more in the file than in memory) and `SectionsLieInSegments`.
  About `TOC`, for files of either width and every edit the module has: `CommandsStayInStep`, `SectionsStayTheirOwn`. `InStep`
  keeps the header's count equal to the list, its size equal to the sum of the `cmdsize`s modulo `SizeWrap` while `measured`
  (`SizeIsCounted`), and each `cmdsize` as a linker writes it (`AsLinked`: a multiple of the word). In a 64-bit file that makes
  padding that depends on the buffer come out the same everywhere; in a 32-bit file only the named commands pad. The positions
  of all commands are sums over the list, moved by lemmas for a command appended, replaced or left out. `ClaimsAreOwn` adds to the
  indexes that only segments claim sections and, until `orphans`, that the last segment that claims any reaches the end of the
  table (`LastClaims`), which is what lets `AddSection` give it the next index; a removal of any other segment leaves both
  as they are. TLC evaluates the hypotheses in `files` (`ReadersAssumption`, `TocAssumption`).
  About `LoadCommands`: `FiltersOnlyChoose`, `WrittenFilesAreRereadAlike`. Both go command by command through the cases
  of `NewFile`. For the first, what the case of a command looks at in the `File` (`AgreeFor`) is
  the same with and without the filter as long as commands that depend on each other are let through
  together, and then the loads stay in step (`InStepWith`): the filtered ones are those of the whole file the filter wants.
  For the second, what the `Write` of a kind leaves is read by the same case as the same load, for each
  kind of command but the four that lose something; an induction over the commands then carries the
  counters, sections and tables of the `File` along. The invariants `OpenedAsFiltered` and `WrittenAsRead` only remember
  which file a `File` was made from. The first needs a count of commands (`CountsAreNatural`; it is a `uint32`), the
  second files laid out as linkers do (`FilesAreLinked`); TLC evaluates both in `files` (`CommandsAssumption`).
  About `Export`: `RebuiltTablesAgree`. Moving the commands and copying the payloads never touch the symbols, the trie or
  the indirect entries of the `File` (`Movable`, `SameSource`), so the tables are built from those that were
  read. Each group is a choice of the symbols collected (`ChosenFrom`), and the three choices cover them, so none is
  lost and the counts are the bounds of the groups; the pool of names only grows, so a symbol written earlier
  still finds its name (`WrittenSoFar`); an entry with an index of its own is the symbol with that index (`FromTable`),
  so an indirect entry goes where its symbol went. What follows in `Export` keeps the tables. `ExportedAsOpened` only
  remembers what was exported. The hypothesis `ImagesAreRead` says that a `File` has its parts and that
  indexes are numbers; TLC evaluates it in `files` (`ExportAssumption`).

A recursive function is for the prover a `CHOOSE` that says nothing until such a function is known to
exist. `RecursionTheorems` proves that it does, for recursion on a measure, and induction for a set
of numbers; the proofs about walks, loops and sums above rest on it.

`NoStaleEntries`, `TypeCorrect`, `HeaderStaysRight`, `PagesStayFresh` and `ChildrenInherit` are proved and not
run: what they say is part of, or follows with, what the runs check.

Only model-checked: `Trie`, `LEB128` and `Requirements`, whose modules
declare recursive operators, which the prover does not accept (and `WalkEnds`, which is liveness); `ChainFormats` (bit
sets; its inputs are enumerated at full width instead); `OffsetsFollowTheirData` of `Export`, where every byte that was
saved at every offset is compared; and `SpecialSlots`.

## 5. Observations without a run

Seen while modelling; each is in the model as the code has it, and the properties are
stated for what the code does.

* A chain link exactly at the end of a page is parsed, but `GetFixupAtOffset` asks the next
  page for it (`pkg/fixupchains/fixupchains.go` 1218, 1518). Hence `LookupsFindWhatParseFound` is about
  the inside of pages.
* Where `LoadSize` differs from `cmdsize` (threads, `LC_IDENT`, dylibs with spare room: `cmds.go` 549, 751), and for
  named commands of 32-bit files, `AddLoad` and `RemoveLoad` change the header's `SizeCommands` by something else than
  the bytes that come or go (`toc.go` 25, 42), and `TOCSize`, "the size in bytes of the object file representation" (`toc.go` 83), adds up
  the same numbers. `CommandsFollowCmdsize` says that the
  count of commands and their places stay right all the same, and the size while no such command came or went.
* `AddSection` leaves the segment's own list of sections alone, so an added section is counted
  and not written (`toc.go` 65, `export.go` 1776).
* A second `CodeSign` in memory without an identifier signs with the empty one
  (`export.go` 548).
* A bind or rebase outside every section keeps the section of the one before
  (`file.go` 4498, 4845).
* `RemoveLoad` of a segment leaves its sections in the table (`toc.go` 34–46). When they were the last of the table
  and the segment before had some, `AddSection` then counts a section for that one behind the ones left, so that
  its indexes run over them (`toc.go` 61–66). `SegmentsIndexTheirSections` holds until then (`orphans`).
  `AddSection` panics when the last command is no segment (`toc.go` 60), and `AddSegment` clears the number of
  sections of its argument but not its `Len` (`toc.go` 52). `LoadExt` called twice lists everything twice (`file.go` 5344).
* `ReadUleb128FromBuffer` has no limit: bits that do not fit are lost without an error, and an
  empty buffer reads as zero (`pkg/trie/trie.go` 103–134). `ReadSleb128` has no limit on its length
  either (75–101). `IntegersAreExact` is about `ReadUleb128` and relates the other reader to it.
* `WalkTrie` takes a child at offset 0 for no child, and a trie that ends where a node's children
  should be for a leaf, both of which `ParseTrie` refuses (`pkg/trie/trie.go` 380–383, 431).
* The checks of a bind's place keep the address of its first byte from wrapping, not that of
  its last (`file.go` 4450).

Load commands and readers:

* A read by address converts the start of each chunk on its own, so a read longer than a chunk
  may cross into another segment where one read fails; the comment in `safealloc.go` 16 promises
  the bytes of a single read.
* `Iundefsym + Nundefsym` of LC_DYSYMTAB is added in 32 bits, and a second LC_SYMTAB replaces the table
  these were checked against; `ImportedSymbols` slices by them (`file.go` 5081). Offsets of strings
  have no lower bound, so a name may start inside the struct.
* Writing back keeps the count of commands the file had, also of a `File` read with a filter;
  an offset of a name behind the struct is not kept; LC_TWOLEVEL_HINTS, LC_LINKER_OPTION,
  LC_PREBOUND_DYLIB and LC_IDENT lose a count, an offset or a second NUL. `RereadIsTheSame` names
  these kinds.

Export:

* Sections are sent by `Remap` too (`export.go` 932), so one at the start of a segment goes the way of the tables of
  `export_seams`. `OffsetsFollowTheirData` is about segments that share no byte and leaves out data at a seam (`AtSeam`) and the kinds that
  are never moved: `Export` has no case for LC_ATOM_INFO and LC_NOTE, and that of LC_SEGMENT_SPLIT_INFO is commented out
  (`export.go` 1004–1013), so in an exported standalone file these commands point where their data was before the segments
  moved, although `types/commands.go` 944 and 1440 call their fields the file offset of the data. LC_SYMSEG and LC_TWOLEVEL_HINTS have no
  case either; the images have none of them. Relocations (`Reloff`) keep their offsets.
* Of an image in a cache only the first
  of each table is copied and LC_CODE_SIGNATURE keeps its place. `__TEXT` must be the first segment
  with data.
* `Export` changes the `File`: a second call reads the source at the new offsets, a failed one leaves it
  half moved, and `Symtab.Syms` stays old while the indirect symbols are new.

Chained fixups:

* A table of starts that is refused leaves `PointerFormat` set, so `ResolveRawRebaseVMAddress` fails
  once and then resolves. `KeptMetadataIsSound` is about the starts and imports.
* Two records of starts may overlap.
* `file.go` 83–85 promises that published chained-fixup objects are immutable; the base setters write into the
  published object (2186, 2223, 2241). Harmless under the contract that setters are serialised, but a caller who
  kept the object sees it change. `BasesAgree` is what this is for.

Function lists and payloads:

* `GenerateFunctionStarts` hands the exponent of the section's
  alignment to a function that expects the alignment; with exponent 0 the last end is 0.
* What one caller passes to `GetFunctions` is what every later call returns. An overlong integer ends
  the list as a 0 does. Deltas that wrap 2^64 are added without a check (`file.go` 3532, 3551): the functions then
  still follow each other and no longer ascend, and the search for an address finds the first that fits.
* `GetFunctionsForRange` "returns the functions contained in a given" range (`file.go` 3576). It returns those that begin at or
  below the lower end (3580), however far below, and nothing that begins above it. It is not modelled.
* The `Data` of LC_FUNCTION_VARIANTS is filled without a lock, so its readers are one at a time here.

Code signatures:

* `skipGenericRequirementData` steps over the length without its padding
  (`pkg/codesign/types/requirement.go`), which puts the words out of step unless the length is a
  multiple of four; the words of the model are.
* A `Config` used with `Sign` directly, first without and then with the ad-hoc flag, keeps the old hash of
  the requirements in slot 2. `CodeSign` starts from fresh hashes, and `SignedComponentsAreBound` asks for
  slot 2 of `CodeSign` only.
* A caller's hash of the resource directory, without earlier slots and entitlements, is not
  written. The estimate of a signature's size uses the number of slots before `Sign` sets it and
  leaves the team identifier out.

## 6. Not modelled

* **Objective-C metadata** (`objc.go`): decoding one structure after another on private readers. Its
  cache is a map filled under a lock and never emptied, so a lookup after a store is all
  there is between calls.
* **Swift metadata** beyond context descriptors: straight-line decoding, as above.
* **ReadExport** of the trie: every branch is one read of a known form.
* **Fat files**: one pass over a table of slices; nothing is kept but the slices.
* **CMS signatures and DER entitlements**: made by libraries; a component is an opaque payload.
* **Formatting and demangling of names, ObjC type encodings, the archive readers, generated
  constants**: they keep no state, and a model of them would repeat the code.

What could be added to the parts that are modelled: `SignedComponentsAreBound` for all `Config`s.
