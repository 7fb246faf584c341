----------------------------- MODULE ChainWalk ------------------------------
(***************************************************************************)
(* Walking the pointer chains of LC_DYLD_CHAINED_FIXUPS (package           *)
(* pkg/fixupchains): the link-by-link point walker, the walk of a whole    *)
(* page that fills a page-cache entry, and the full walk Parse makes.      *)
(*                                                                         *)
(* The unit of location, page size and stride is the 4-byte word.  An      *)
(* image is [raw, size]: the pointer bits found at each location and the   *)
(* number of readable words.  Of the bits a walk needs the next field and  *)
(* whether they are a rebase, a bind, or a bind whose ordinal is no        *)
(* import.  A starts record is [format, pageSize, pageCount, segOffset,    *)
(* pageStarts, chainStarts].                                               *)
(***************************************************************************)
EXTENDS Integers, Sequences, FiniteSets
LOCAL INSTANCE FiniteSetsExt

CONSTANT MaxU64     \* the largest word of the machine, 2^w - 1
ASSUME MaxAssumption == MaxU64 \in Nat

MaxInt64 == MaxU64 \div 2

(* Formats by what a walk can tell apart: 32-bit pointers; 64-bit pointers *)
(* whose links may lie closer together than a pointer is long; 64-bit      *)
(* pointers eight bytes apart; a format no case lists.                     *)
Formats == {"ptr32", "ptr64", "arm64e", "unknown"}

pointerSize(format) ==
    CASE format = "ptr32" -> 1
      [] format \in {"ptr64", "arm64e"} -> 2
      [] OTHER -> 0

stride(format) ==
    CASE format \in {"ptr32", "ptr64"} -> 1
      [] format = "arm64e" -> 2
      [] OTHER -> 0

Fail(e) == [kind |-> "error", why |-> e]
None == [kind |-> "none"]                     \* ErrNoFixupAtOffset
Found(raw) == [kind |-> "fixup", raw |-> raw]

-----------------------------------------------------------------------------
(* Page starts.  A page_start word is NONE, one offset, or an index (from  *)
(* the first page start on) into the table of chain starts that follows    *)
(* the page starts, where a run of offsets ends with a LAST entry.         *)

NoStart == [tag |-> "none", at |-> 0]
Single(o) == [tag |-> "single", at |-> o]
Multi(i) == [tag |-> "multi", at |-> i]

chainStartsForPage(start, pageStart) ==
    LET cs    == start.chainStarts
        first == pageStart.at - Len(start.pageStarts) + 1
        ends  == {i \in first .. Len(cs) : cs[i].last}
        run   == SubSeq(cs, first, Min(ends))
    IN  CASE pageStart.tag = "none" -> [ok |-> TRUE, starts |-> <<>>]
          [] pageStart.tag = "single" ->
               [ok |-> pageStart.at <= start.pageSize, starts |-> <<pageStart.at>>]
          [] pageStart.tag = "multi" ->
               IF /\ start.format = "ptr32"
                  /\ first \in 1 .. Len(cs)
                  /\ ends # {}
                  /\ \A i \in 1 .. Len(run) : run[i].at <= start.pageSize
                  /\ \A i \in 2 .. Len(run) :
                        run[i - 1].at # 0 => run[i].at > run[i - 1].at
               THEN [ok |-> TRUE, starts |-> [i \in 1 .. Len(run) |-> run[i].at]]
               ELSE [ok |-> FALSE, starts |-> <<>>]

(* The link at offset cur of the page at pcs lies wholly in the segment.   *)
checkedChainFixupLocation(start, pcs, cur) ==
    LET bytes   == pointerSize(start.format)
        segment == start.pageCount * start.pageSize
    IN  /\ start.pageSize # 0
        /\ cur <= start.pageSize
        /\ pcs <= MaxU64 - cur
        /\ bytes # 0
        /\ segment >= bytes
        /\ start.segOffset <= MaxU64 - segment
        /\ pcs + cur >= start.segOffset
        /\ pcs + cur - start.segOffset <= segment - bytes

readRawPointer(image, format, loc) ==
    loc <= MaxInt64 /\ loc + pointerSize(format) <= image.size

chainNext(raw) == raw.next

decodeFixup(raw) ==
    IF raw.is = "badbind" THEN Fail("ordinal") ELSE Found(raw)

-----------------------------------------------------------------------------
(* The link-by-link walker, the reference for every answer and error.      *)

checkChainForOffset(image, start, pcs, first, target) ==
    LET walk[cur \in 0 .. start.pageSize] ==
          LET raw == image.raw[pcs + cur]
              nxt == cur + chainNext(raw) * stride(start.format)
          IN  IF ~checkedChainFixupLocation(start, pcs, cur) THEN Fail("segment")
              ELSE IF ~readRawPointer(image, start.format, pcs + cur) THEN Fail("read")
              ELSE IF cur = target THEN decodeFixup(raw)
              ELSE IF chainNext(raw) = 0 \/ nxt > start.pageSize THEN None
              ELSE walk[nxt]
    IN  walk[first]

walkerFixupInPage(image, start, pageStart, pcs, target) ==
    LET cs == chainStartsForPage(start, pageStart)
        answer(i) == checkChainForOffset(image, start, pcs, cs.starts[i], target)
        final == {i \in DOMAIN cs.starts : answer(i) # None}
    IN  IF ~cs.ok THEN Fail("starts")
        ELSE IF final = {} THEN None
        ELSE answer(Min(final))

-----------------------------------------------------------------------------
(* The walk of a whole page.  buildChainPage copies what it depends on     *)
(* into the page first and walks from there.                               *)

Inputs(start, pageStart, multi) ==
    [ format |-> start.format, pageSize |-> start.pageSize,
      pageCount |-> start.pageCount, segOffset |-> start.segOffset,
      pageStart |-> pageStart, chainStarts |-> multi ]

Page(in, complete, offsets, raws) ==
    [in |-> in, complete |-> complete, offsets |-> offsets, raws |-> raws]

(* One chain, when taken links of earlier chains were already collected:   *)
(* its links, and whether it was walked to its end or cut.                 *)
LinksOfChain(image, in, pcs, avail, maxLinks, first, taken) ==
    LET walk[at \in (0 .. in.pageSize) \X (0 .. maxLinks)] ==
          LET cur == at[1]
              raw == image.raw[pcs + cur]
              nxt == cur + chainNext(raw) * stride(in.format)
          IN  IF \/ ~checkedChainFixupLocation(in, pcs, cur)
                 \/ cur + pointerSize(in.format) > avail
                 \/ at[2] >= maxLinks
              THEN [links |-> <<>>, end |-> "cut"]
              ELSE IF chainNext(raw) = 0 \/ nxt > in.pageSize
              THEN [links |-> <<cur>>, end |-> "whole"]
              ELSE LET rest == walk[<<nxt, at[2] + 1>>]
                   IN  [links |-> <<cur>> \o rest.links, end |-> rest.end]
    IN  walk[<<first, taken>>]

(* The chains in the order of their starts, up to the first that is cut.   *)
LinksOfChains(image, in, pcs, avail, maxLinks, starts) ==
    LET walked[i \in 0 .. Len(starts)] ==
          LET acc == walked[i - 1]
              w   == LinksOfChain(image, in, pcs, avail, maxLinks, starts[i], Len(acc.links))
          IN  IF i = 0 THEN [links |-> <<>>, end |-> "whole"]
              ELSE IF acc.end = "cut" THEN acc
              ELSE [links |-> acc.links \o w.links, end |-> w.end]
    IN  walked[Len(starts)]

strictlyIncreasing(offsets) ==
    \A i \in 2 .. Len(offsets) : offsets[i] > offsets[i - 1]

(* Mutant: links of several chains stay in the order they were walked.     *)
sortChainLinksNot(offsets, pageSize) == offsets

(* The locations in ascending order, each of them once.                    *)
sortChainLinks(offsets, pageSize) ==
    LET sorted[n \in 0 .. pageSize + 1] ==
          IF n = 0 THEN <<>>
          ELSE IF \E k \in DOMAIN offsets : offsets[k] = n - 1
          THEN Append(sorted[n - 1], n - 1) ELSE sorted[n - 1]
    IN  sorted[pageSize + 1]

EmptyPage(in) == Page(in, FALSE, <<>>, <<>>)

buildChainPage(image, in, pcs) ==
    LET size     == pointerSize(in.format)
        span     == in.pageSize + size
        avail    == IF pcs >= image.size THEN 0 ELSE Min({span, image.size - pcs})
        maxLinks == in.pageSize \div stride(in.format) + 2
        starts   == IF in.chainStarts = <<>> THEN <<in.pageStart.at>> ELSE in.chainStarts
        walked   == LinksOfChains(image, in, pcs, avail, maxLinks, starts)
        offsets  == IF Len(starts) > 1 /\ ~strictlyIncreasing(walked.links)
                    THEN sortChainLinks(walked.links, in.pageSize) ELSE walked.links
    IN  IF size = 0 \/ stride(in.format) = 0 \/ in.pageSize = 0
           \/ pcs > MaxInt64 - span
        THEN EmptyPage(in)
        ELSE Page(in, walked.end = "whole", offsets,
                  [i \in DOMAIN offsets |-> image.raw[pcs + offsets[i]]])

(* Mutant: an entry is reused although its page start was edited.          *)
matchesAnyStart(page, start, pageStart, multi) ==
    /\ page.in.format = start.format
    /\ page.in.pageSize = start.pageSize
    /\ page.in.pageCount = start.pageCount
    /\ page.in.segOffset = start.segOffset

matches(page, start, pageStart, multi) ==
    /\ page.in.format = start.format
    /\ page.in.pageSize = start.pageSize
    /\ page.in.pageCount = start.pageCount
    /\ page.in.segOffset = start.segOffset
    /\ page.in.pageStart = pageStart
    /\ page.in.chainStarts = multi

(* sort.Search: the index, from 0, of the first offset not below target.   *)
SearchOffsets(offsets, target) ==
    LET search[at \in (0 .. Len(offsets)) \X (0 .. Len(offsets))] ==
          LET h == (at[1] + at[2]) \div 2
          IN  IF at[1] >= at[2] THEN at[1]
              ELSE IF offsets[h + 1] < target THEN search[<<h + 1, at[2]>>]
              ELSE search[<<at[1], h>>]
    IN  search[<<0, Len(offsets)>>]

Unhandled == [kind |-> "unhandled"]

answerFromPage(page, target) ==
    LET i == SearchOffsets(page.offsets, target)
    IN  IF i + 1 \in DOMAIN page.offsets /\ page.offsets[i + 1] = target
        THEN decodeFixup(page.raws[i + 1])
        ELSE IF page.complete THEN None ELSE Unhandled

-----------------------------------------------------------------------------
(* The full walk: every page of every segment, in order, to the first      *)
(* error.  Locations are those of the fixups appended to the segment.      *)

(* Mutant: the full walk does not validate bind ordinals.                  *)
recordFixupAnyOrdinal(raw) == TRUE

(* The case of each format: a bind whose ordinal is no import is an error, *)
(* any other pointer is appended as a bind or a rebase.                    *)
recordFixup(raw) == raw.is # "badbind"

walkDcFixupChain(image, start, pcs, first) ==
    LET walk[cur \in 0 .. start.pageSize] ==
          LET raw == image.raw[pcs + cur]
              nxt == cur + chainNext(raw) * stride(start.format)
          IN  IF \/ ~checkedChainFixupLocation(start, pcs, cur)
                 \/ ~readRawPointer(image, start.format, pcs + cur)
                 \/ ~recordFixup(raw)
              THEN [locs |-> <<>>, ok |-> FALSE]
              ELSE IF chainNext(raw) = 0 \/ nxt > start.pageSize
              THEN [locs |-> <<pcs + cur>>, ok |-> TRUE]
              ELSE LET rest == walk[nxt]
                   IN  [locs |-> <<pcs + cur>> \o rest.locs, ok |-> rest.ok]
    IN  IF stride(start.format) = 0 THEN [locs |-> <<>>, ok |-> FALSE] ELSE walk[first]

(* One walk after another, unless the first met an error.                  *)
Then(a, b) == IF a.ok THEN [locs |-> a.locs \o b.locs, ok |-> b.ok] ELSE a

walkPage(image, start, page) ==
    LET cs  == chainStartsForPage(start, start.pageStarts[page + 1])
        pcs == start.segOffset + page * start.pageSize
        walked[i \in 0 .. Len(cs.starts)] ==
          IF i = 0 THEN [locs |-> <<>>, ok |-> TRUE]
          ELSE Then(walked[i - 1], walkDcFixupChain(image, start, pcs, cs.starts[i]))
    IN  IF cs.ok THEN walked[Len(cs.starts)] ELSE [locs |-> <<>>, ok |-> FALSE]

walkSegment(image, start) ==
    LET walked[n \in 0 .. start.pageCount] ==
          IF n = 0 THEN [locs |-> <<>>, ok |-> TRUE]
          ELSE Then(walked[n - 1], walkPage(image, start, n - 1))
    IN  walked[start.pageCount]

-----------------------------------------------------------------------------
(* The segment index: the covered ranges.  The end wraps at the word size, *)
(* and a range that wraps is left out.  The code keeps them ordered by     *)
(* start and then end, and searches.                                       *)
segEnd(start) == (start.segOffset + start.pageCount * start.pageSize) % (MaxU64 + 1)

Covers(start) ==
    /\ start.pageCount # 0 /\ start.pageSize # 0 /\ start.pageStarts # <<>>
    /\ segEnd(start) > start.segOffset

buildSegmentIndex(starts) ==
    {[start |-> starts[i].segOffset, end |-> segEnd(starts[i]), index |-> i] :
        i \in {j \in DOMAIN starts : Covers(starts[j])}}

NotAfter(a, b) == a.start < b.start \/ (a.start = b.start /\ a.end <= b.end)

(* The index of the covering segment, or 0: of the ranges that do not      *)
(* start beyond offset only the last in the order is looked at.            *)
findSegmentForOffset(index, offset) ==
    LET below == {r \in index : r.start <= offset}
        last  == CHOOSE r \in below : \A q \in below : NotAfter(q, r)
    IN  IF below # {} /\ offset < last.end THEN last.index ELSE 0
=============================================================================
