---------------------------- MODULE ChainPages ------------------------------
(***************************************************************************)
(* Chained-fixup lookups of one DyldChainedFixups: GetFixupAtOffset called *)
(* by concurrent readers and served from the page cache, Parse filling the *)
(* list of all fixups under parseMu, and the caller's edits of the         *)
(* exported Starts, which the concurrency contract (file.go) serialises    *)
(* with every reader.                                                      *)
(*                                                                         *)
(* A lookup reads the cache in one step (pageCacheMu.RLock), builds a page *)
(* without the lock and stores it in another; between the two other        *)
(* lookups run.  The file does not change, but a read may fail.            *)
(***************************************************************************)
EXTENDS ChainWalk

CONSTANTS
    Procs,      \* concurrent readers
    Images,     \* files
    StartsSets, \* the starts tables that Starts may hold, one per edit
    Offsets,    \* file offsets looked up
    NoPage,     \* no entry for a page
    Idle        \* a reader that is not in a lookup

(* What is read from a file: pointer bits with a next field.               *)
ASSUME ImagesAssumption ==
    \A im \in Images :
        /\ im.size \in Nat
        /\ \A loc \in 0 .. im.size - 1 : im.raw[loc].next \in Nat

StartsRecords ==
    [ format: Formats, pageSize: Nat, pageCount: Nat, segOffset: Nat,
      pageStarts: Seq([tag: {"none", "single", "multi"}, at: Nat]),
      chainStarts: Seq([at: Nat, last: BOOLEAN]) ]

(* A segment with fewer page starts than pages makes the walk of Parse     *)
(* panic; the parser makes as many as there are pages.                     *)
HasItsPages(start) ==
    start.pageStarts # <<>> => Len(start.pageStarts) >= start.pageCount

ASSUME StartsAssumption ==
    /\ \A starts \in StartsSets :
          starts \in Seq(StartsRecords) /\ \A i \in DOMAIN starts : HasItsPages(starts[i])
    /\ Offsets \subseteq Nat

VARIABLES
    image,         \* the file behind dcf.sr
    Starts,        \* dcf.Starts (without Fixups)
    segmentIndex,  \* dcf.segmentIndex
    pageCache,     \* dcf.pageCache: a map from page content starts to pages
    fixups,        \* dcf.Starts[i].Fixups: locations, per segment
    chainsParsed,  \* dcf.chainsParsed
    parsedFrom,    \* history: the Starts of the successful Parse
    lookup,        \* per reader: Idle, or [at, offset] between two steps
    answer         \* history: per reader, the last answer of GetFixupAtOffset

parseVars == <<fixups, chainsParsed, parsedFrom>>
vars == <<image, Starts, segmentIndex, pageCache, parseVars, lookup, answer>>

NoFixups(starts) == [i \in DOMAIN starts |-> <<>>]

Init ==
    /\ image \in Images
    /\ Starts \in StartsSets
    /\ segmentIndex = buildSegmentIndex(Starts)
    /\ pageCache = <<>>
    /\ fixups = NoFixups(Starts)
    /\ chainsParsed = FALSE
    /\ parsedFrom = Starts
    /\ lookup = [p \in Procs |-> Idle]
    /\ answer = [p \in Procs |-> Idle]

-----------------------------------------------------------------------------
(* GetFixupAtOffset, up to the page.                                       *)

SegmentOf(offset) == findSegmentForOffset(segmentIndex, offset)

locateStartForOffset(offset) ==
    LET s == Starts[SegmentOf(offset)]
    IN  /\ s.pageSize # 0
        /\ offset >= s.segOffset
        /\ (offset - s.segOffset) \div s.pageSize < Len(s.pageStarts)

PageIndex(offset) ==
    LET s == Starts[SegmentOf(offset)] IN (offset - s.segOffset) \div s.pageSize

PageContentStart(offset) ==
    LET s == Starts[SegmentOf(offset)]
    IN  s.segOffset + PageIndex(offset) * s.pageSize

PageStart(offset) == Starts[SegmentOf(offset)].pageStarts[PageIndex(offset) + 1]

InPage == [kind |-> "page"]

beforePage(offset) ==
    LET s == Starts[SegmentOf(offset)]
    IN  IF SegmentOf(offset) = 0 THEN None
        ELSE IF ~locateStartForOffset(offset) THEN Fail("locate")
        ELSE IF PageStart(offset).tag = "none" THEN None
        ELSE IF pointerSize(s.format) = 0 \/ stride(s.format) = 0 THEN Fail("format")
        ELSE IF (offset - PageContentStart(offset)) % stride(s.format) # 0 THEN None
        ELSE InPage

(* What the link-by-link walker answers for the page of offset.            *)
Walker(offset) ==
    walkerFixupInPage(image, Starts[SegmentOf(offset)], PageStart(offset),
                      PageContentStart(offset), offset - PageContentStart(offset))

(* The answer with the cache disabled.                                     *)
GetFixupUncached(offset) ==
    IF beforePage(offset).kind = "page" THEN Walker(offset) ELSE beforePage(offset)

-----------------------------------------------------------------------------
(* cachedFixupInPage.  Starts that do not parse and a start beyond the     *)
(* page are left to the walker; otherwise multi is nil or the chain        *)
(* starts of the page.                                                     *)

MultiOf(offset) ==
    IF PageStart(offset).tag = "multi"
    THEN chainStartsForPage(Starts[SegmentOf(offset)], PageStart(offset)).starts
    ELSE <<>>

Cacheable(offset) ==
    chainStartsForPage(Starts[SegmentOf(offset)], PageStart(offset)).ok

InputsOf(offset) ==
    Inputs(Starts[SegmentOf(offset)], PageStart(offset), MultiOf(offset))

FreshPage(offset) == buildChainPage(image, InputsOf(offset), PageContentStart(offset))

(* dcf.pageCache[k], nil where the map has no entry.                       *)
CachedPage(k) == IF k \in DOMAIN pageCache THEN pageCache[k] ELSE NoPage

CanUse(page, offset) ==
    /\ page # NoPage
    /\ matches(page, Starts[SegmentOf(offset)], PageStart(offset), MultiOf(offset))

PageAnswer(page, offset) ==
    LET a == answerFromPage(page, offset - PageContentStart(offset))
    IN  IF a = Unhandled THEN Walker(offset) ELSE a

Return(p, offset, a) ==
    /\ lookup' = [lookup EXCEPT ![p] = Idle]
    /\ answer' = [answer EXCEPT ![p] = [offset |-> offset, got |-> a]]

(* The call up to and including the read of the cache under RLock.         *)
GetFixupAtOffset(p, offset) ==
    /\ lookup[p] = Idle
    /\ IF beforePage(offset).kind # "page" THEN Return(p, offset, beforePage(offset))
       ELSE IF ~Cacheable(offset) THEN Return(p, offset, Walker(offset))
       ELSE IF CanUse(CachedPage(PageContentStart(offset)), offset)
       THEN Return(p, offset, PageAnswer(CachedPage(PageContentStart(offset)), offset))
       ELSE /\ lookup' = [lookup EXCEPT ![p] = [at |-> "build", offset |-> offset]]
            /\ answer' = [answer EXCEPT ![p] = Idle]
    /\ UNCHANGED <<image, Starts, segmentIndex, pageCache, parseVars>>

(* The page was built, from a read that may have failed, and is stored:    *)
(* the last store wins.                                                    *)
storePage(p, readFails) ==
    LET offset == lookup[p].offset
        page   == IF readFails
                  THEN EmptyPage(InputsOf(offset))
                  ELSE FreshPage(offset)
    IN  /\ lookup[p] # Idle
        /\ pageCache' = [k \in DOMAIN pageCache \cup {PageContentStart(offset)} |->
                            IF k = PageContentStart(offset) THEN page ELSE pageCache[k]]
        /\ Return(p, offset, PageAnswer(page, offset))
        /\ UNCHANGED <<image, Starts, segmentIndex, parseVars>>

-----------------------------------------------------------------------------
(* Parse under parseMu.  A failed walk leaves what it had appended; the    *)
(* next call starts over.                                                  *)

(* Mutant: what a failed walk left is kept.                                *)
ClearFixupsNot == fixups

ClearFixups == NoFixups(Starts)

Skipped(start) == start.pageStarts = <<>> \/ start.pageCount = 0

SegmentWalk(i) ==
    IF Skipped(Starts[i]) THEN [locs |-> <<>>, ok |-> TRUE]
    ELSE walkSegment(image, Starts[i])

AllBefore(i) == \A j \in DOMAIN Starts : j < i => SegmentWalk(j).ok

parseLocked ==
    /\ IF chainsParsed THEN UNCHANGED parseVars
       ELSE /\ fixups' = [i \in DOMAIN Starts |->
                             IF AllBefore(i) THEN ClearFixups[i] \o SegmentWalk(i).locs
                             ELSE ClearFixups[i]]
            /\ chainsParsed' = \A i \in DOMAIN Starts : SegmentWalk(i).ok
            /\ parsedFrom' = Starts
    /\ UNCHANGED <<image, Starts, segmentIndex, pageCache, lookup, answer>>

(* LookupByOffset: whether the list of parsed fixups has the location.     *)
LookupByOffset(loc) ==
    \E i \in DOMAIN fixups : \E k \in DOMAIN fixups[i] : fixups[i][k] = loc

-----------------------------------------------------------------------------
(* The caller assigns fields of Starts in place, keeping its Fixups, while *)
(* no reader runs; it may or may not call ResetSegmentIndex.               *)

NoReaders == \A p \in Procs : lookup[p] = Idle

EditStarts ==
    /\ NoReaders
    /\ Starts' \in {s \in StartsSets : Len(s) = Len(Starts)}
    /\ answer' = [p \in Procs |-> Idle]
    /\ UNCHANGED <<image, segmentIndex, pageCache, parseVars, lookup>>

ResetSegmentIndex ==
    /\ NoReaders
    /\ segmentIndex' = buildSegmentIndex(Starts)
    /\ answer' = [p \in Procs |-> Idle]
    /\ UNCHANGED <<image, Starts, pageCache, parseVars, lookup>>

Lookups ==
    \E p \in Procs :
        \/ \E offset \in Offsets : GetFixupAtOffset(p, offset)
        \/ \E readFails \in BOOLEAN : storePage(p, readFails)

Next ==
    \/ Lookups
    \/ parseLocked
    \/ EditStarts
    \/ ResetSegmentIndex

Spec == Init /\ [][Next]_vars
-----------------------------------------------------------------------------
TypeOK ==
    /\ image \in Images
    /\ Starts \in StartsSets
    /\ \A p \in Procs : lookup[p] # Idle => lookup[p].offset \in Offsets
    /\ \A p \in Procs : answer[p] # Idle => answer[p].offset \in Offsets
    /\ chainsParsed \in BOOLEAN

(* A lookup served from the page cache, whatever was stored there by       *)
(* concurrent lookups, after failed reads and after edits of Starts, gives *)
(* the fixup or the error that the link-by-link walker gives for the       *)
(* present Starts (pagecache.go, "the single source of truth").            *)
LookupMatchesWalker ==
    \A p \in Procs, offset \in Offsets :
        (answer[p] # Idle /\ answer[p].offset = offset) =>
            answer[p].got = GetFixupUncached(offset)

(* An entry the matches check lets through is the page a build would       *)
(* produce now, or the empty page of a failed read: the compared inputs    *)
(* are all that a page depends on.                                         *)
UsablePagesAreFresh ==
    \A offset \in Offsets :
        (beforePage(offset) = InPage /\ Cacheable(offset)) =>
          LET page == CachedPage(PageContentStart(offset))
          IN  CanUse(page, offset) =>
                page \in {FreshPage(offset), EmptyPage(InputsOf(offset))}

(* One page walked as a whole answers every offset of the page as the      *)
(* link-by-link walker does: overlapping chains, repeated starts, chains   *)
(* that leave the segment or the file, the limit on the number of links.   *)
WholePageAgrees ==
    \A offset \in Offsets :
        (beforePage(offset) = InPage /\ Cacheable(offset)) =>
          PageAnswer(FreshPage(offset), offset) = Walker(offset)

(* Once Parse has succeeded the fixups are those of exactly one walk of    *)
(* the Starts it saw: nothing is left of an earlier attempt that failed.   *)
ParsedListIsOneWalk ==
    (chainsParsed /\ parsedFrom = Starts) =>
        fixups = [i \in DOMAIN Starts |-> SegmentWalk(i).locs]

(* The segments whose pages hold loc.                                      *)
SegmentsAt(loc) ==
    {i \in DOMAIN Starts : Covers(Starts[i]) /\ loc >= Starts[i].segOffset
                            /\ loc < segEnd(Starts[i])}

ParseIsCurrent ==
    chainsParsed /\ parsedFrom = Starts /\ segmentIndex = buildSegmentIndex(Starts)

(* After a successful Parse no point lookup fails, and it finds a fixup    *)
(* only where LookupByOffset does; inside a page, on a stride boundary,    *)
(* the two agree the other way round.                                      *)
LookupsFindWhatParseFound ==
    ParseIsCurrent =>
        \A offset \in Offsets :
            /\ GetFixupUncached(offset).kind # "error"
            /\ GetFixupUncached(offset).kind = "fixup" => LookupByOffset(offset)
            /\ \A i \in SegmentsAt(offset) :
                  (/\ Cardinality(SegmentsAt(offset)) = 1
                   /\ (offset - Starts[i].segOffset) % Starts[i].pageSize # 0
                   /\ ((offset - Starts[i].segOffset) % Starts[i].pageSize)
                          % stride(Starts[i].format) = 0
                   /\ LookupByOffset(offset))
                  => GetFixupUncached(offset).kind = "fixup"
=============================================================================
