-------------------------- MODULE ChainPagesProofs --------------------------
(***************************************************************************)
(* Proofs about the chained fixups. ChainPages: the first inductive        *)
(* invariant says of every stored page, whether or not the present Starts  *)
(* can use it, that it is what a build from the inputs it carries          *)
(* produces: Starts may be edited away from a page and back again. Then,   *)
(* by induction along a chain, that a page answers as the link-by-link     *)
(* walk does, that lookups therefore do, that a parsed list is that of one *)
(* walk, and that lookups find what was parsed. ChainMetadata: by          *)
(* induction along the table of starts, that a call answers what the       *)
(* payload alone makes it answer, whatever failed before.                  *)
(***************************************************************************)
EXTENDS ChainPages, ChainMetadata, RecursionTheorems, FiniteSetTheorems, TLAPS
LOCAL INSTANCE FiniteSetsExt

IsInputs(in) ==
    in = [ format |-> in.format, pageSize |-> in.pageSize,
           pageCount |-> in.pageCount, segOffset |-> in.segOffset,
           pageStart |-> in.pageStart, chainStarts |-> in.chainStarts ]

BuiltAt(page, k) ==
    /\ IsInputs(page.in)
    /\ page \in {buildChainPage(image, page.in, k), EmptyPage(page.in)}

StoredPagesAreBuilds == \A k \in DOMAIN pageCache : BuiltAt(pageCache[k], k)

(* Both kinds of page carry the inputs they were built from.               *)
LEMMA BuildKeepsInputs ==
    ASSUME NEW im, NEW in, NEW k
    PROVE  /\ buildChainPage(im, in, k).in = in
           /\ EmptyPage(in).in = in
<1>1. EmptyPage(in).in = in
  BY DEF EmptyPage, Page
<1> DEFINE size == pointerSize(in.format)
           span == in.pageSize + size
           avail == IF k >= im.size THEN 0 ELSE Min({span, im.size - k})
           starts == IF in.chainStarts = <<>> THEN <<in.pageStart.at>> ELSE in.chainStarts
           walked == LinksOfChains(im, in, k, avail,
                                   in.pageSize \div stride(in.format) + 2, starts)
           offsets == IF Len(starts) > 1 /\ ~strictlyIncreasing(walked.links)
                      THEN sortChainLinks(walked.links, in.pageSize) ELSE walked.links
           page == Page(in, walked.end = "whole", offsets,
                        [i \in DOMAIN offsets |-> im.raw[k + offsets[i]]])
           bad == size = 0 \/ stride(in.format) = 0 \/ in.pageSize = 0 \/ k > MaxInt64 - span
<1>2. buildChainPage(im, in, k) = IF bad THEN EmptyPage(in) ELSE page
  BY DEF buildChainPage
<1>3. page.in = in
  <2> HIDE DEF offsets, walked
  <2> QED BY DEF Page
<1> HIDE DEF page, bad
<1>4. buildChainPage(im, in, k).in = in
  BY <1>1, <1>2, <1>3
<1> QED BY <1>1, <1>4

(* What a lookup stores is a build, or the page of a failed read.          *)
LEMMA BuildsAreBuilt ==
    ASSUME NEW offset, NEW page,
           page \in {FreshPage(offset), EmptyPage(InputsOf(offset))}
    PROVE  BuiltAt(page, PageContentStart(offset)) /\ page.in = InputsOf(offset)
<1> DEFINE in == InputsOf(offset)
<1>1. page.in = in
  BY BuildKeepsInputs DEF FreshPage
<1>2. IsInputs(in)
  BY DEF IsInputs, InputsOf, Inputs
<1>3. page \in {buildChainPage(image, page.in, PageContentStart(offset)), EmptyPage(page.in)}
  BY <1>1 DEF FreshPage
<1> QED BY <1>1, <1>2, <1>3 DEF BuiltAt

(* The matches check compares every input of a page.                       *)
LEMMA MatchingInputsAreEqual ==
    ASSUME NEW offset, NEW page, IsInputs(page.in), CanUse(page, offset)
    PROVE  page.in = InputsOf(offset)
BY DEF IsInputs, CanUse, matches, InputsOf, Inputs

(* So a usable stored page is a fresh one, or that of a failed read.       *)
LEMMA UsableIsFresh ==
    ASSUME StoredPagesAreBuilds, NEW offset,
           CanUse(CachedPage(PageContentStart(offset)), offset)
    PROVE  CachedPage(PageContentStart(offset))
              \in {FreshPage(offset), EmptyPage(InputsOf(offset))}
<1> DEFINE k == PageContentStart(offset)
<1>1. k \in DOMAIN pageCache /\ CachedPage(k) = pageCache[k]
  BY DEF CanUse, CachedPage
<1>2. BuiltAt(pageCache[k], k)
  BY <1>1 DEF StoredPagesAreBuilds
<1>3. pageCache[k].in = InputsOf(offset)
  BY <1>1, <1>2, MatchingInputsAreEqual DEF BuiltAt
<1> QED BY <1>1, <1>2, <1>3 DEF BuiltAt, FreshPage

(* The caches of a newly parsed file are empty.                            *)
LEMMA InitBuilds == Init => StoredPagesAreBuilds
<1> SUFFICES ASSUME Init PROVE StoredPagesAreBuilds
  OBVIOUS
<1>1. DOMAIN pageCache = {}
  BY DEF Init
<1> QED BY <1>1 DEF StoredPagesAreBuilds

(* Steps that leave the file and the cache alone keep the invariant.       *)
LEMMA SameCacheBuilds ==
    ASSUME StoredPagesAreBuilds, UNCHANGED <<image, pageCache>>
    PROVE  StoredPagesAreBuilds'
BY DEF StoredPagesAreBuilds, BuiltAt

(* A store puts a build under the address it was built for.                *)
LEMMA StoreBuilds ==
    ASSUME StoredPagesAreBuilds, NEW p \in Procs, NEW readFails \in BOOLEAN,
           storePage(p, readFails)
    PROVE  StoredPagesAreBuilds'
<1> DEFINE offset == lookup[p].offset
           page == IF readFails THEN EmptyPage(InputsOf(offset)) ELSE FreshPage(offset)
           at == PageContentStart(offset)
<1>1. pageCache' = [k \in DOMAIN pageCache \cup {at} |->
                       IF k = at THEN page ELSE pageCache[k]]
  BY DEF storePage
<1>2. image' = image
  BY DEF storePage
<1>3. BuiltAt(page, at)
  BY BuildsAreBuilt
<1> HIDE DEF page, at
<1>4. ASSUME NEW k \in DOMAIN pageCache' PROVE BuiltAt(pageCache'[k], k)
  <2>1. CASE k = at
    BY <1>1, <1>3, <2>1
  <2>2. CASE k # at
    BY <1>1, <2>2 DEF StoredPagesAreBuilds
  <2> QED BY <2>1, <2>2
<1> QED BY <1>2, <1>4 DEF StoredPagesAreBuilds, BuiltAt

(* Every step keeps the stored pages builds of the input they record.      *)
LEMMA StepBuilds == StoredPagesAreBuilds /\ [Next]_vars => StoredPagesAreBuilds'
<1> SUFFICES ASSUME StoredPagesAreBuilds, [Next]_vars PROVE StoredPagesAreBuilds'
  OBVIOUS
<1>1. ASSUME NEW p \in Procs, NEW offset \in Offsets, GetFixupAtOffset(p, offset)
      PROVE  StoredPagesAreBuilds'
  BY <1>1, SameCacheBuilds DEF GetFixupAtOffset
<1>2. ASSUME NEW p \in Procs, NEW f \in BOOLEAN, storePage(p, f)
      PROVE  StoredPagesAreBuilds'
  BY <1>2, StoreBuilds
<1>3. CASE parseLocked
  BY <1>3, SameCacheBuilds DEF parseLocked
<1>4. CASE EditStarts
  BY <1>4, SameCacheBuilds DEF EditStarts
<1>5. CASE ResetSegmentIndex
  BY <1>5, SameCacheBuilds DEF ResetSegmentIndex
<1>6. CASE UNCHANGED vars
  BY <1>6, SameCacheBuilds DEF vars
<1> QED BY <1>1, <1>2, <1>3, <1>4, <1>5, <1>6 DEF Next, Lookups

(* Every stored page is a build from the inputs it carries.                *)
THEOREM Invariance == Spec => []StoredPagesAreBuilds
BY InitBuilds, StepBuilds, PTL DEF Spec

(* The matches check is sufficient: whatever edits of Starts, failed reads *)
(* and concurrent stores came before, an entry it lets through is the page *)
(* a build would give now, or the empty page the walker stands in for.     *)
THEOREM PagesStayFresh == Spec => []UsablePagesAreFresh
<1>1. StoredPagesAreBuilds => UsablePagesAreFresh
  BY UsableIsFresh DEF UsablePagesAreFresh
<1> QED BY <1>1, Invariance, PTL
-----------------------------------------------------------------------------
(* Whole pages.  A page is walked as a whole once and answers every offset *)
(* in it; what follows shows that it answers as the link-by-link walker    *)
(* does.  First one chain: the walker's recursion and that of the page     *)
(* walk each have a solution, because a chain goes forward and stays in    *)
(* its page, and the two agree link by link.                               *)

(* A file that can be read. *)
IsImage(im) ==
    /\ im.size \in Nat
    /\ \A loc \in 0 .. im.size - 1 : im.raw[loc].next \in Nat

(* Where the link at cur leads, and whether the chain ends there.          *)
Hop(im, st, pcs, cur) == cur + chainNext(im.raw[pcs + cur]) * stride(st.format)
Ends(im, st, pcs, cur) ==
    chainNext(im.raw[pcs + cur]) = 0 \/ Hop(im, st, pcs, cur) > st.pageSize

(* The link at cur is there to be read. *)
LinkIsThere(im, st, pcs, cur) ==
    /\ checkedChainFixupLocation(st, pcs, cur)
    /\ readRawPointer(im, st.format, pcs + cur)

(* The formats with a pointer size have a stride. *)
LEMMA FormatSizes ==
    ASSUME NEW f \in Formats
    PROVE  /\ pointerSize(f) \in 0 .. 2 /\ stride(f) \in 0 .. 2
           /\ pointerSize(f) # 0 => stride(f) # 0
BY DEF Formats, pointerSize, stride

(* A chain goes forward, inside the page. *)
LEMMA ChainsGoForward ==
    ASSUME NEW im, IsImage(im), NEW st, st.format \in Formats, st.pageSize \in Nat,
           NEW pcs \in Nat, NEW cur \in 0 .. st.pageSize, LinkIsThere(im, st, pcs, cur),
           ~Ends(im, st, pcs, cur)
    PROVE  Hop(im, st, pcs, cur) \in 0 .. st.pageSize /\ Hop(im, st, pcs, cur) > cur
<1> DEFINE ps == st.pageSize
           k == chainNext(im.raw[pcs + cur])
           s == stride(st.format)
           z == pointerSize(st.format)
<1>1. z \in 1 .. 2 /\ s \in 1 .. 2
  BY FormatSizes DEF LinkIsThere, checkedChainFixupLocation
<1>2. cur \in Nat /\ cur <= ps /\ ps \in Nat
  OBVIOUS
<1>3. pcs + cur \in 0 .. im.size - 1
  BY <1>1, <1>2 DEF LinkIsThere, readRawPointer, IsImage
<1>4. k \in Nat
  BY <1>3 DEF IsImage, chainNext
<1>5. k # 0 /\ ~(cur + k * s > ps) /\ Hop(im, st, pcs, cur) = cur + k * s
  BY DEF Ends, Hop
<1> HIDE DEF k, s, ps, z
<1>6. k * s \in Nat \ {0}
  <2>1. CASE s = 1
    BY <2>1, <1>4, <1>5
  <2>2. CASE s = 2
    BY <2>2, <1>4, <1>5
  <2> QED
    BY <1>1, <2>1, <2>2
<1> DEFINE j == k * s
<1> HIDE DEF j
<1>7. cur + j \in 0 .. ps /\ cur + j > cur
  BY <1>2, <1>5, <1>6 DEF j
<1> QED
  BY <1>5, <1>7 DEF j, ps

(* checkChainForOffset, one link at a time. *)
LEMMA WalkerUnfolds ==
    ASSUME NEW im, IsImage(im), NEW st, st.format \in Formats, st.pageSize \in Nat,
           NEW pcs \in Nat, NEW target, NEW cur \in 0 .. st.pageSize
    PROVE  checkChainForOffset(im, st, pcs, cur, target) =
              IF ~checkedChainFixupLocation(st, pcs, cur) THEN Fail("segment")
              ELSE IF ~readRawPointer(im, st.format, pcs + cur) THEN Fail("read")
              ELSE IF cur = target THEN decodeFixup(im.raw[pcs + cur])
              ELSE IF Ends(im, st, pcs, cur) THEN None
              ELSE checkChainForOffset(im, st, pcs, Hop(im, st, pcs, cur), target)
<1> DEFINE ps == st.pageSize
           D == 0 .. ps
           base == [c \in D |-> IF ~checkedChainFixupLocation(st, pcs, c) THEN Fail("segment")
                       ELSE IF ~readRawPointer(im, st.format, pcs + c) THEN Fail("read")
                       ELSE IF c = target THEN decodeFixup(im.raw[pcs + c])
                       ELSE None]
           Stop == {c \in D : ~LinkIsThere(im, st, pcs, c) \/ c = target \/ Ends(im, st, pcs, c)}
           next == [c \in D |-> IF c \in Stop THEN c ELSE Hop(im, st, pcs, c)]
           m == [c \in D |-> ps - c]
           V == {base[c] : c \in D}
           Body(w, c) == IF c \in Stop THEN base[c] ELSE w[Hop(im, st, pcs, c)]
<1>1. ps \in Nat
  OBVIOUS
<1>2. \A c \in D \ Stop : Hop(im, st, pcs, c) \in D /\ Hop(im, st, pcs, c) > c
  BY ChainsGoForward
<1>3. m \in [D -> 0 .. ps] /\ base \in [D -> V]
  BY <1>1
<1>4. next \in [D -> D]
  BY <1>2
<1>5. \A c \in D \ Stop : m[next[c]] < m[c]
  <2> SUFFICES ASSUME NEW c \in D \ Stop PROVE m[next[c]] < m[c]
    OBVIOUS
  <2> DEFINE h == Hop(im, st, pcs, c)
  <2>1. next[c] = h /\ h \in D /\ h > c
    BY <1>2
  <2> HIDE DEF h, next, Stop
  <2>2. m[h] = ps - h /\ m[c] = ps - c
    BY <2>1
  <2> QED
    BY <2>1, <2>2, <1>1
<1>6. PICK f \in [D -> V] : MovesOn(f, D, Stop, base, next)
  <2> HIDE DEF D, base, Stop, next, m, V, ps
  <2> QED
    BY ONLY <1>1, <1>3, <1>4, <1>5, LoopExists
<1>7. f = [c \in D |-> Body(f, c)]
  <2> HIDE DEF base, Stop, V
  <2>1. \A c \in D : f[c] = Body(f, c)
    BY <1>6 DEF MovesOn
  <2> HIDE DEF Body, next
  <2> QED
    BY <2>1, <1>6
<1> DEFINE Code(w, c) ==
              IF ~checkedChainFixupLocation(st, pcs, c) THEN Fail("segment")
              ELSE IF ~readRawPointer(im, st.format, pcs + c) THEN Fail("read")
              ELSE IF c = target THEN decodeFixup(im.raw[pcs + c])
              ELSE IF chainNext(im.raw[pcs + c]) = 0
                      \/ c + chainNext(im.raw[pcs + c]) * stride(st.format) > ps THEN None
              ELSE w[c + chainNext(im.raw[pcs + c]) * stride(st.format)]
           Walk == CHOOSE w : w = [c \in D |-> Code(w, c)]
<1>link. ASSUME NEW w, NEW c \in D
         PROVE  /\ Code(w, c) = Body(w, c)
                /\ Code(w, c) =
                     IF ~checkedChainFixupLocation(st, pcs, c) THEN Fail("segment")
                     ELSE IF ~readRawPointer(im, st.format, pcs + c) THEN Fail("read")
                     ELSE IF c = target THEN decodeFixup(im.raw[pcs + c])
                     ELSE IF Ends(im, st, pcs, c) THEN None
                     ELSE w[Hop(im, st, pcs, c)]
  BY DEF Ends, Hop, LinkIsThere
<1>8. Walk = [c \in D |->
              IF ~checkedChainFixupLocation(st, pcs, c) THEN Fail("segment")
              ELSE IF ~readRawPointer(im, st.format, pcs + c) THEN Fail("read")
              ELSE IF c = target THEN decodeFixup(im.raw[pcs + c])
              ELSE IF Ends(im, st, pcs, c) THEN None
              ELSE Walk[Hop(im, st, pcs, c)]]
  <2> HIDE DEF Code, Body, D
  <2>1. f = [c \in D |-> Code(f, c)]
    BY <1>7, <1>link
  <2>2. Walk = [c \in D |-> Code(Walk, c)]
    BY <2>1
  <2> HIDE DEF Walk
  <2> QED BY <2>2, <1>link
<1>9. \A c \in D : checkChainForOffset(im, st, pcs, c, target) = Walk[c]
  BY DEF checkChainForOffset
<1> DEFINE h == Hop(im, st, pcs, cur)
<1> HIDE DEF Walk, h
<1>10. Walk[cur] = IF ~checkedChainFixupLocation(st, pcs, cur) THEN Fail("segment")
                   ELSE IF ~readRawPointer(im, st.format, pcs + cur) THEN Fail("read")
                   ELSE IF cur = target THEN decodeFixup(im.raw[pcs + cur])
                   ELSE IF Ends(im, st, pcs, cur) THEN None
                   ELSE Walk[h]
  BY <1>8 DEF h
<1>11. checkChainForOffset(im, st, pcs, cur, target) = Walk[cur]
  BY <1>9
<1>12. LinkIsThere(im, st, pcs, cur) /\ ~Ends(im, st, pcs, cur)
          => checkChainForOffset(im, st, pcs, h, target) = Walk[h]
  <2>1. LinkIsThere(im, st, pcs, cur) /\ ~Ends(im, st, pcs, cur) => h \in D
    BY ChainsGoForward DEF h
  <2> QED
    BY <1>9, <2>1
<1> QED
  BY <1>10, <1>11, <1>12 DEF LinkIsThere, h

(* The bytes that were read for a page are those a walker can read there.  *)
PageIsRead(im, in, pcs, avail) ==
    \A c \in 0 .. in.pageSize :
        c + pointerSize(in.format) <= avail <=> readRawPointer(im, in.format, pcs + c)

ChainOf(in) == [links: Seq(0 .. in.pageSize), end: {"cut", "whole"}]

(* What a chain's walk makes of the walk of the rest. *)
WithLink(cur, rest) == [links |-> <<cur>> \o rest.links, end |-> rest.end]
CutChain == [links |-> <<>>, end |-> "cut"]
LastLink(cur) == [links |-> <<cur>>, end |-> "whole"]

(* The walk of one chain, one link at a time. *)
LEMMA LinksUnfold ==
    ASSUME NEW im, IsImage(im), NEW in, in.format \in Formats, in.pageSize \in Nat,
           NEW pcs \in Nat, NEW avail \in Nat, PageIsRead(im, in, pcs, avail), NEW max \in Nat,
           NEW cur \in 0 .. in.pageSize, NEW n \in 0 .. max
    PROVE  /\ LinksOfChain(im, in, pcs, avail, max, cur, n) \in ChainOf(in)
           /\ LinksOfChain(im, in, pcs, avail, max, cur, n) =
                 IF ~LinkIsThere(im, in, pcs, cur) \/ n >= max THEN CutChain
                 ELSE IF Ends(im, in, pcs, cur) THEN LastLink(cur)
                 ELSE WithLink(cur, LinksOfChain(im, in, pcs, avail, max,
                                                 Hop(im, in, pcs, cur), n + 1))
<1> DEFINE ps == in.pageSize
           P == 0 .. ps
           D == P \X (0 .. max)
           V == ChainOf(in)
           Cut(c, k) == ~LinkIsThere(im, in, pcs, c) \/ k >= max
           Stop == {x \in D : Cut(x[1], x[2]) \/ Ends(im, in, pcs, x[1])}
           base == [x \in D |-> IF Cut(x[1], x[2]) THEN CutChain ELSE LastLink(x[1])]
           next == [x \in D |-> IF x \in Stop THEN x
                                ELSE <<Hop(im, in, pcs, x[1]), x[2] + 1>>]
           m == [x \in D |-> ps - x[1]]
           step == [y \in D \X V |-> WithLink(y[1][1], y[2])]
           Body(w, x) == IF x \in Stop THEN base[x]
                         ELSE WithLink(x[1], w[<<Hop(im, in, pcs, x[1]), x[2] + 1>>])
<1>1. ps \in Nat
  OBVIOUS
<1>2. ASSUME NEW x \in D, x \notin Stop
      PROVE  /\ Hop(im, in, pcs, x[1]) \in P /\ Hop(im, in, pcs, x[1]) > x[1]
             /\ x[2] + 1 \in 0 .. max
             /\ <<Hop(im, in, pcs, x[1]), x[2] + 1>> \in D
  <2>1. x[1] \in P /\ x[2] \in 0 .. max /\ LinkIsThere(im, in, pcs, x[1]) /\ x[2] < max
        /\ ~Ends(im, in, pcs, x[1])
    BY <1>2
  <2>2. Hop(im, in, pcs, x[1]) \in P /\ Hop(im, in, pcs, x[1]) > x[1]
    BY <2>1, ChainsGoForward
  <2>3. x[2] + 1 \in 0 .. max
    BY <2>1
  <2> QED
    BY <2>2, <2>3
<1>3. m \in [D -> 0 .. ps]
  BY <1>1
<1>4. base \in [D -> V]
  <2>1. CutChain \in V
    BY DEF CutChain, ChainOf
  <2>2. ASSUME NEW c \in P PROVE LastLink(c) \in V
    BY DEF LastLink, ChainOf
  <2> HIDE DEF V, P
  <2> QED
    BY <2>1, <2>2
<1>5. next \in [D -> D]
  <2> HIDE DEF D, Stop
  <2> QED
    BY <1>2
<1>6. \A x \in D \ Stop : m[next[x]] < m[x]
  <2> SUFFICES ASSUME NEW x \in D, x \notin Stop PROVE m[next[x]] < m[x]
    OBVIOUS
  <2> DEFINE h == Hop(im, in, pcs, x[1])
             y == <<h, x[2] + 1>>
  <2>1. next[x] = y /\ y \in D /\ h \in P /\ h > x[1] /\ x[1] \in P
    BY <1>2
  <2> HIDE DEF h, next, Stop
  <2>2. m[y] = ps - h /\ m[x] = ps - x[1]
    BY <2>1
  <2> QED
    BY <2>1, <2>2, <1>1
<1>7. \A c \in P, v \in V : WithLink(c, v) \in V
  BY DEF WithLink, ChainOf
<1>8. step \in [D \X V -> V]
  <2> HIDE DEF V, P
  <2> QED
    BY <1>7
<1>9. PICK f \in [D -> V] : Recurses(f, D, Stop, base, next, step)
  <2> HIDE DEF D, base, Stop, next, m, V, ps, step
  <2> QED
    BY ONLY <1>1, <1>3, <1>4, <1>5, <1>6, <1>8, RecursiveFunctionExists
<1>10. \A x \in D : f[x] = Body(f, x)
  <2> SUFFICES ASSUME NEW x \in D PROVE f[x] = Body(f, x)
    OBVIOUS
  <2>1. CASE x \in Stop
    BY <1>9, <2>1 DEF Recurses
  <2>2. CASE x \notin Stop
    <3> DEFINE y == <<Hop(im, in, pcs, x[1]), x[2] + 1>>
    <3>1. next[x] = y /\ y \in D
      BY <1>2, <2>2
    <3> HIDE DEF y, next, Stop, D, V
    <3>2. f[y] \in V
      BY <3>1
    <3>3. step[<<x, f[y]>>] = WithLink(x[1], f[y])
      BY <3>2
    <3>4. f[x] = step[<<x, f[y]>>]
      BY <1>9, <2>2, <3>1 DEF Recurses
    <3> QED
      BY <2>2, <3>3, <3>4 DEF y
  <2> QED
    BY <2>1, <2>2
<1>11. f = [x \in D |-> Body(f, x)]
  <2> HIDE DEF Body, D, V
  <2> QED
    BY <1>10
<1> DEFINE Code(w, at) ==
             IF \/ ~checkedChainFixupLocation(in, pcs, at[1])
                \/ at[1] + pointerSize(in.format) > avail
                \/ at[2] >= max
             THEN [links |-> <<>>, end |-> "cut"]
             ELSE IF chainNext(im.raw[pcs + at[1]]) = 0
                     \/ at[1] + chainNext(im.raw[pcs + at[1]]) * stride(in.format)
                           > in.pageSize
             THEN [links |-> <<at[1]>>, end |-> "whole"]
             ELSE LET rest == w[<<at[1] + chainNext(im.raw[pcs + at[1]]) * stride(in.format),
                                  at[2] + 1>>]
                  IN  [links |-> <<at[1]>> \o rest.links, end |-> rest.end]
           Walk == CHOOSE w : w = [at \in D |-> Code(w, at)]
<1>12. \A c \in P, k \in 0 .. max :
          LinksOfChain(im, in, pcs, avail, max, c, k) = Walk[<<c, k>>]
  BY DEF LinksOfChain
<1>13. ASSUME NEW w, NEW x \in D PROVE Code(w, x) = Body(w, x)
  <2>1. x[1] \in P /\ x[2] \in 0 .. max
    OBVIOUS
  <2>2. x[1] + pointerSize(in.format) > avail <=> ~readRawPointer(im, in.format, pcs + x[1])
    <3>1. pointerSize(in.format) \in Nat /\ x[1] \in Nat
      BY <2>1, FormatSizes
    <3>2. x[1] + pointerSize(in.format) <= avail <=> readRawPointer(im, in.format, pcs + x[1])
      BY <2>1 DEF PageIsRead
    <3> DEFINE y == x[1] + pointerSize(in.format)
    <3>3. y \in Nat
      BY <3>1
    <3> HIDE DEF y
    <3>4. y > avail <=> ~(y <= avail)
      BY <3>3
    <3> QED
      BY <3>2, <3>4 DEF y
  <2>3. (\/ ~checkedChainFixupLocation(in, pcs, x[1])
         \/ x[1] + pointerSize(in.format) > avail
         \/ x[2] >= max) <=> Cut(x[1], x[2])
    BY <2>2 DEF LinkIsThere
  <2>4. CASE Cut(x[1], x[2])
    BY <2>3, <2>4 DEF CutChain
  <2>5. CASE ~Cut(x[1], x[2]) /\ Ends(im, in, pcs, x[1])
    BY <2>3, <2>5 DEF Ends, Hop, LastLink
  <2>6. CASE ~Cut(x[1], x[2]) /\ ~Ends(im, in, pcs, x[1])
    BY <2>3, <2>6 DEF Ends, Hop, WithLink
  <2> QED
    BY <2>4, <2>5, <2>6
<1>14. Walk = [x \in D |-> Body(Walk, x)]
  <2> HIDE DEF Code, Body, D
  <2>1. f = [x \in D |-> Code(f, x)]
    BY <1>11, <1>13
  <2>2. Walk = [x \in D |-> Code(Walk, x)]
    BY <2>1
  <2> HIDE DEF Walk
  <2> QED
    BY <2>2, <1>13
<1> HIDE DEF Code, Walk
<1>15. \A x \in D : Walk[x] \in V
  <2> DEFINE S == {x \in D : Walk[x] \in V}
  <2>1. ASSUME NEW x \in D, \A y \in D : m[y] < m[x] => y \in S
        PROVE  x \in S
    <3>1. CASE x \in Stop
      <4>1. Walk[x] = base[x]
        BY <1>14, <3>1
      <4> HIDE DEF base, D, V
      <4> QED
        BY <1>4, <4>1
    <3>2. CASE x \notin Stop
      <4> DEFINE y == <<Hop(im, in, pcs, x[1]), x[2] + 1>>
      <4>1. y \in D /\ m[y] < m[x] /\ x[1] \in P
        BY <1>2, <1>6, <3>2
      <4>2. Walk[y] \in V
        BY <2>1, <4>1
      <4>3. Walk[x] = WithLink(x[1], Walk[y])
        BY <1>14, <3>2
      <4> HIDE DEF y, V, P
      <4>4. Walk[x] \in V
        BY <1>7, <4>1, <4>2, <4>3
      <4> QED
        BY <4>4
    <3> QED
      BY <3>1, <3>2
  <2>2. \A x \in D : x \in S
    <3> HIDE DEF S, D, m, ps
    <3> QED
      BY ONLY <2>1, <1>1, <1>3, MeasureInduction
  <2> QED
    BY <2>2
<1> DEFINE x0 == <<cur, n>>
           y0 == <<Hop(im, in, pcs, cur), n + 1>>
<1>16. x0 \in D /\ x0[1] = cur /\ x0[2] = n
  OBVIOUS
<1>17. LinksOfChain(im, in, pcs, avail, max, cur, n) = Walk[x0]
  BY <1>12
<1>18. CASE x0 \in Stop
  <2>1. Walk[x0] = base[x0]
    BY <1>14, <1>16, <1>18
  <2>2. base[x0] = IF Cut(cur, n) THEN CutChain ELSE LastLink(cur)
    BY <1>16
  <2>3. Cut(cur, n) \/ Ends(im, in, pcs, cur)
    BY <1>16, <1>18
  <2>4. Walk[x0] \in V
    BY <1>15, <1>16
  <2> QED
    BY <1>17, <2>1, <2>2, <2>3, <2>4
<1>19. CASE x0 \notin Stop
  <2>1. y0 \in D /\ Hop(im, in, pcs, cur) \in P /\ n + 1 \in 0 .. max
    BY <1>2, <1>16, <1>19
  <2>2. Walk[x0] = WithLink(cur, Walk[y0])
    BY <1>14, <1>16, <1>19
  <2>3. LinksOfChain(im, in, pcs, avail, max, Hop(im, in, pcs, cur), n + 1) = Walk[y0]
    BY <1>12, <2>1
  <2>4. ~Cut(cur, n) /\ ~Ends(im, in, pcs, cur)
    BY <1>16, <1>19
  <2>5. Walk[x0] \in V
    BY <1>15, <1>16
  <2> QED
    BY <1>17, <2>2, <2>3, <2>4, <2>5
<1> QED
  BY <1>18, <1>19

Members(s) == {s[i] : i \in 1 .. Len(s)}
Ascending(s) == \A i, j \in 1 .. Len(s) : i < j => s[i] < s[j]

(* One element put in front. *)
LEMMA InFront ==
    ASSUME NEW N \in Nat, NEW c \in 0 .. N, NEW r \in Seq(0 .. N)
    PROVE  /\ Members(<<c>> \o r) = {c} \cup Members(r)
           /\ Len(<<c>> \o r) = Len(r) + 1
           /\ (Ascending(r) /\ \A x \in Members(r) : x > c) => Ascending(<<c>> \o r)
<1> DEFINE s == <<c>> \o r
<1>1. Len(s) = Len(r) + 1 /\ Len(r) \in Nat
  OBVIOUS
<1>2. s[1] = c /\ \A i \in 2 .. Len(s) : s[i] = r[i - 1]
  OBVIOUS
<1>3. \A i \in 1 .. Len(r) : s[i + 1] = r[i]
  OBVIOUS
<1> HIDE DEF s
<1>4. Members(s) = {c} \cup Members(r)
  <2>1. Members(s) \subseteq {c} \cup Members(r)
    <3> SUFFICES ASSUME NEW i \in 1 .. Len(s) PROVE s[i] \in {c} \cup Members(r)
      BY DEF Members
    <3>1. CASE i = 1
      BY <1>2, <3>1
    <3>2. CASE i # 1
      <4>1. i - 1 \in 1 .. Len(r) /\ s[i] = r[i - 1]
        BY <1>1, <1>2, <3>2
      <4> QED
        BY <4>1 DEF Members
    <3> QED
      BY <3>1, <3>2
  <2>2. c \in Members(s)
    BY <1>1, <1>2 DEF Members
  <2>3. ASSUME NEW i \in 1 .. Len(r) PROVE r[i] \in Members(s)
    <3>1. i + 1 \in 1 .. Len(s) /\ s[i + 1] = r[i]
      BY <1>1, <1>3
    <3> QED
      BY <3>1 DEF Members
  <2>4. Members(r) \subseteq Members(s)
    BY <2>3 DEF Members
  <2> QED
    BY <2>1, <2>2, <2>4
<1>5. ASSUME Ascending(r), \A x \in Members(r) : x > c PROVE Ascending(s)
  <2> SUFFICES ASSUME NEW i \in 1 .. Len(s), NEW j \in 1 .. Len(s), i < j PROVE s[i] < s[j]
    BY DEF Ascending
  <2>1. j - 1 \in 1 .. Len(r) /\ s[j] = r[j - 1]
    BY <1>1, <1>2
  <2>2. CASE i = 1
    BY <1>2, <1>5, <2>1, <2>2 DEF Members
  <2>3. CASE i # 1
    <3>1. i - 1 \in 1 .. Len(r) /\ s[i] = r[i - 1] /\ i - 1 < j - 1
      BY <1>1, <1>2, <2>3
    <3> QED
      BY <1>5, <2>1, <3>1 DEF Ascending
  <2> QED
    BY <2>2, <2>3
<1> QED
  BY <1>1, <1>4, <1>5 DEF s

(* What the walk of one chain and the walker tell of one location.         *)
Agrees(L, C, dec, target) ==
    /\ target \in Members(L.links) => C = dec
    /\ (L.end = "whole" /\ target \notin Members(L.links)) => C = None

WellMade(L, cur, n, max) ==
    /\ n + Len(L.links) <= max
    /\ Ascending(L.links)
    /\ \A x \in Members(L.links) : x >= cur

(* One chain: its walk finds the links the walker finds, in ascending      *)
(* order, and no more than fit.                                            *)
LEMMA ChainAgrees ==
    ASSUME NEW im, IsImage(im), NEW in, in.format \in Formats, in.pageSize \in Nat,
           NEW pcs \in Nat, NEW avail \in Nat, PageIsRead(im, in, pcs, avail), NEW max \in Nat,
           NEW target
    PROVE  \A cur \in 0 .. in.pageSize, n \in 0 .. max :
              /\ Agrees(LinksOfChain(im, in, pcs, avail, max, cur, n),
                        checkChainForOffset(im, in, pcs, cur, target),
                        decodeFixup(im.raw[pcs + target]), target)
              /\ WellMade(LinksOfChain(im, in, pcs, avail, max, cur, n), cur, n, max)
<1> DEFINE ps == in.pageSize
           P == 0 .. ps
           m == [c \in P |-> ps - c]
           L(c, n) == LinksOfChain(im, in, pcs, avail, max, c, n)
           C(c) == checkChainForOffset(im, in, pcs, c, target)
           dec == decodeFixup(im.raw[pcs + target])
           S == {c \in P : \A n \in 0 .. max :
                    Agrees(L(c, n), C(c), dec, target) /\ WellMade(L(c, n), c, n, max)}
<1>1. ps \in Nat
  OBVIOUS
<1>2. m \in [P -> 0 .. ps]
  BY <1>1
<1>3. Members(<<>>) = {} /\ Ascending(<<>>) /\ Len(<<>>) = 0
  BY DEF Members, Ascending
<1>4. ASSUME NEW c \in P, \A d \in P : m[d] < m[c] => d \in S, NEW n \in 0 .. max
      PROVE  Agrees(L(c, n), C(c), dec, target) /\ WellMade(L(c, n), c, n, max)
  <2> DEFINE h == Hop(im, in, pcs, c)
             l == L(c, n)
             v == C(c)
  <2>1. /\ ~LinkIsThere(im, in, pcs, c) \/ n >= max => l = CutChain
        /\ LinkIsThere(im, in, pcs, c) /\ ~(n >= max) /\ Ends(im, in, pcs, c)
              => l = LastLink(c)
        /\ LinkIsThere(im, in, pcs, c) /\ ~(n >= max) /\ ~Ends(im, in, pcs, c)
              => l = WithLink(c, L(h, n + 1))
    BY LinksUnfold
  <2>2. LinkIsThere(im, in, pcs, c) =>
           v = IF c = target THEN decodeFixup(im.raw[pcs + c])
               ELSE IF Ends(im, in, pcs, c) THEN None ELSE C(h)
    BY WalkerUnfolds DEF LinkIsThere
  <2>3. CASE ~LinkIsThere(im, in, pcs, c) \/ n >= max
    <3>1. l.links = <<>> /\ l.end = "cut"
      BY <2>1, <2>3 DEF CutChain
    <3> HIDE DEF l, v, dec
    <3>2. Agrees(l, v, dec, target)
      BY <1>3, <3>1 DEF Agrees
    <3>3. WellMade(l, c, n, max)
      BY <1>3, <3>1 DEF WellMade
    <3> QED
      BY <3>2, <3>3 DEF l, v
  <2>4. CASE LinkIsThere(im, in, pcs, c) /\ ~(n >= max) /\ Ends(im, in, pcs, c)
    <3>1. l.links = <<c>> /\ l.end = "whole"
      BY <2>1, <2>4 DEF LastLink
    <3>2. v = IF c = target THEN dec ELSE None
      BY <2>2, <2>4
    <3> HIDE DEF l, v, dec
    <3>3. Members(<<c>>) = {c} /\ Ascending(<<c>>) /\ Len(<<c>>) = 1
      BY DEF Members, Ascending
    <3>4. Agrees(l, v, dec, target)
      BY <3>1, <3>2, <3>3 DEF Agrees
    <3>5. WellMade(l, c, n, max)
      BY <2>4, <3>1, <3>3 DEF WellMade
    <3> QED
      BY <3>4, <3>5 DEF l, v
  <2>5. CASE LinkIsThere(im, in, pcs, c) /\ ~(n >= max) /\ ~Ends(im, in, pcs, c)
    <3> DEFINE k == L(h, n + 1)
               u == C(h)
    <3>1. h \in P /\ h > c /\ n + 1 \in 0 .. max /\ c \in Nat /\ h \in Nat
      BY <2>5, ChainsGoForward
    <3>2. m[h] < m[c]
      BY <3>1
    <3>3. Agrees(k, u, dec, target) /\ WellMade(k, h, n + 1, max)
      BY <1>4, <3>1, <3>2
    <3>4. k \in ChainOf(in)
      BY <3>1, LinksUnfold
    <3>5. k.links \in Seq(P)
      BY <3>4 DEF ChainOf
    <3>6. l = WithLink(c, k)
      BY <2>1, <2>5
    <3>7. v = IF c = target THEN dec ELSE u
      BY <2>2, <2>5
    <3> HIDE DEF k, u, l, v, h, dec
    <3>8. l.links = <<c>> \o k.links /\ l.end = k.end
      BY <3>6 DEF WithLink
    <3>9. \A x \in Members(k.links) : x > c
      <4>1. \A x \in Members(k.links) : x \in P /\ x >= h
        BY <3>3, <3>5 DEF WellMade, Members
      <4> QED
        BY <3>1, <4>1
    <3> DEFINE r == k.links
               t == l.links
    <3>10. r \in Seq(P) /\ \A x \in Members(r) : x > c
      BY <3>5, <3>9
    <3>11. Ascending(r) /\ (n + 1) + Len(r) <= max
      BY <3>3 DEF WellMade
    <3>12. t = <<c>> \o r
      BY <3>8
    <3>13. target \in Members(r) => u = dec
      BY <3>3 DEF Agrees
    <3>14. k.end = "whole" /\ target \notin Members(r) => u = None
      BY <3>3 DEF Agrees
    <3> HIDE DEF r, t
    <3>15. Members(t) = {c} \cup Members(r) /\ Len(t) = Len(r) + 1 /\ Ascending(t)
      BY <1>1, <3>10, <3>11, <3>12, InFront
    <3>16. Agrees(l, v, dec, target)
      BY <3>7, <3>8, <3>13, <3>14, <3>15 DEF Agrees, t
    <3>17. WellMade(l, c, n, max)
      <4>1. Len(r) \in Nat
        BY <3>10
      <4>2. n + Len(t) <= max
        BY <3>11, <3>15, <4>1
      <4>3. \A x \in Members(r) : x \in Nat
        BY <3>10 DEF Members
      <4>4. \A x \in Members(t) : x >= c
        BY <3>1, <3>10, <3>15, <4>3
      <4> QED
        BY <3>15, <4>2, <4>4 DEF WellMade, t
    <3> QED
      BY <3>16, <3>17 DEF l, v
  <2> QED
    BY <2>3, <2>4, <2>5
<1>5. \A c \in P : (\A d \in P : m[d] < m[c] => d \in S) => c \in S
  BY <1>4
<1>6. \A c \in P : c \in S
  <2> HIDE DEF S, P, m, ps
  <2> QED
    BY ONLY <1>1, <1>2, <1>5, MeasureInduction
<1> QED
  BY <1>6

NoChains == [links |-> <<>>, end |-> "whole"]
Joined(acc, w) == [links |-> acc.links \o w.links, end |-> w.end]
Room(in, max) == {v \in ChainOf(in) : Len(v.links) <= max}

(* What the walk of the chains has collected after each of them. *)
Collects(W, im, in, pcs, avail, max, starts) ==
    \A i \in 1 .. Len(starts) :
        W[i] = IF W[i - 1].end = "cut" THEN W[i - 1]
               ELSE Joined(W[i - 1], LinksOfChain(im, in, pcs, avail, max, starts[i],
                                                  Len(W[i - 1].links)))

(* Two walks one after the other. *)
LEMMA JoinedChains ==
    ASSUME NEW in, in.pageSize \in Nat, NEW max \in Nat, NEW acc \in Room(in, max),
           NEW w \in ChainOf(in), Len(acc.links) + Len(w.links) <= max
    PROVE  /\ Joined(acc, w) \in Room(in, max)
           /\ Joined(acc, w).end = w.end
           /\ Members(Joined(acc, w).links) = Members(acc.links) \cup Members(w.links)
<1> DEFINE P == 0 .. in.pageSize
           a == acc.links
           b == w.links
           s == a \o b
<1>1. a \in Seq(P) /\ b \in Seq(P) /\ w.end \in {"cut", "whole"}
  BY DEF Room, ChainOf
<1>2. Joined(acc, w).links = s /\ Joined(acc, w).end = w.end
  BY DEF Joined
<1> HIDE DEF P
<1>3. s \in Seq(P) /\ Len(s) = Len(a) + Len(b) /\ Len(a) \in Nat /\ Len(b) \in Nat
  BY <1>1
<1>4. /\ \A i \in 1 .. Len(a) : s[i] = a[i]
      /\ \A i \in 1 .. Len(b) : s[i + Len(a)] = b[i]
  <2>1. ASSUME NEW x \in Seq(P), NEW y \in Seq(P)
        PROVE  /\ \A i \in 1 .. Len(x) : (x \o y)[i] = x[i]
               /\ \A i \in 1 .. Len(y) : (x \o y)[i + Len(x)] = y[i]
    OBVIOUS
  <2> QED
    BY <1>1, <2>1
<1>5. Members(s) = Members(a) \cup Members(b)
  <2> HIDE DEF a, b, s
  <2>1. ASSUME NEW i \in 1 .. Len(s) PROVE s[i] \in Members(a) \cup Members(b)
    <3>1. CASE i <= Len(a)
      BY <1>3, <1>4, <3>1 DEF Members
    <3>2. CASE ~(i <= Len(a))
      <4>1. i - Len(a) \in 1 .. Len(b) /\ i = (i - Len(a)) + Len(a)
        BY <1>3, <3>2
      <4>2. s[i] = b[i - Len(a)]
        BY <1>4, <4>1
      <4> QED
        BY <4>1, <4>2 DEF Members
    <3> QED
      BY <3>1, <3>2
  <2>2. ASSUME NEW i \in 1 .. Len(a) PROVE a[i] \in Members(s)
    <3>1. i \in 1 .. Len(s) /\ s[i] = a[i]
      BY <1>3, <1>4
    <3> QED
      BY <3>1 DEF Members
  <2>3. ASSUME NEW i \in 1 .. Len(b) PROVE b[i] \in Members(s)
    <3>1. i + Len(a) \in 1 .. Len(s) /\ s[i + Len(a)] = b[i]
      BY <1>3, <1>4
    <3> QED
      BY <3>1 DEF Members
  <2>4. Members(s) \subseteq Members(a) \cup Members(b)
    BY <2>1 DEF Members
  <2>5. Members(a) \subseteq Members(s)
    BY <2>2 DEF Members
  <2>6. Members(b) \subseteq Members(s)
    BY <2>3 DEF Members
  <2> QED
    BY <2>4, <2>5, <2>6
<1>6. Joined(acc, w) \in ChainOf(in)
  BY <1>1, <1>3 DEF Joined, ChainOf, P
<1>7. Joined(acc, w) \in Room(in, max)
  BY <1>2, <1>3, <1>6 DEF Room
<1> QED
  BY <1>2, <1>5, <1>7

(* The walk of all chains, one chain at a time. *)
LEMMA ChainsUnfold ==
    ASSUME NEW im, IsImage(im), NEW in, in.format \in Formats, in.pageSize \in Nat,
           NEW pcs \in Nat, NEW avail \in Nat, PageIsRead(im, in, pcs, avail), NEW max \in Nat,
           NEW starts \in Seq(0 .. in.pageSize)
    PROVE  \E W \in [0 .. Len(starts) -> Room(in, max)] :
              /\ LinksOfChains(im, in, pcs, avail, max, starts) = W[Len(starts)]
              /\ W[0] = NoChains
              /\ Collects(W, im, in, pcs, avail, max, starts)
<1> DEFINE N == Len(starts)
           P == 0 .. in.pageSize
           V == Room(in, max)
           One(i, v) == LinksOfChain(im, in, pcs, avail, max, starts[i], Len(v.links))
           After(i, v) == IF v.end = "cut" THEN v ELSE Joined(v, One(i, v))
           step == [y \in (0 .. N) \X V |-> IF y[1] = 0 THEN NoChains ELSE After(y[1], y[2])]
<1>1. N \in Nat /\ \A i \in 1 .. N : starts[i] \in P
  OBVIOUS
<1>2. NoChains \in V
  <2>1. <<>> \in Seq(P) /\ Len(<<>>) = 0
    OBVIOUS
  <2> QED
    BY <2>1 DEF NoChains, Room, ChainOf
<1>3. ASSUME NEW i \in 1 .. N, NEW v \in V PROVE After(i, v) \in V
  <2> DEFINE k == Len(v.links)
  <2>1. k \in 0 .. max
    BY DEF Room, ChainOf
  <2> HIDE DEF k
  <2>2. LinksOfChain(im, in, pcs, avail, max, starts[i], k) \in ChainOf(in)
    BY <1>1, <2>1, LinksUnfold
  <2>3. WellMade(LinksOfChain(im, in, pcs, avail, max, starts[i], k), starts[i], k, max)
    BY <1>1, <2>1, ChainAgrees
  <2>4. k + Len(One(i, v).links) <= max /\ One(i, v) \in ChainOf(in)
    BY <2>2, <2>3 DEF WellMade, k
  <2> HIDE DEF One
  <2>5. Joined(v, One(i, v)) \in V
    BY <2>4, JoinedChains DEF k
  <2> QED
    BY <2>5
<1>4. step \in [(0 .. N) \X V -> V]
  <2> HIDE DEF After, V
  <2>1. \A i \in 0 .. N : i # 0 => i \in 1 .. N
    BY <1>1
  <2> QED
    BY <1>2, <1>3, <2>1
<1>5. PICK f \in [0 .. N -> V] : Carries(f, N, NoChains, step)
  <2> HIDE DEF N, V, step
  <2> QED
    BY ONLY <1>1, <1>2, <1>4, FoldExists
<1> DEFINE Body(w, i) == IF i = 0 THEN NoChains ELSE After(i, w[i - 1])
<1>6. \A i \in 0 .. N : f[i] = Body(f, i)
  <2> SUFFICES ASSUME NEW i \in 0 .. N PROVE f[i] = Body(f, i)
    OBVIOUS
  <2>1. CASE i = 0
    BY <1>5, <2>1 DEF Carries
  <2>2. CASE i # 0
    <3> HIDE DEF After, V, N
    <3>1. i - 1 \in 0 .. N /\ f[i - 1] \in V
      BY <1>1, <2>2
    <3>2. step[<<i, f[i - 1]>>] = After(i, f[i - 1])
      BY <2>2, <3>1
    <3>3. f[i] = step[<<i, f[i - 1]>>]
      BY <1>5, <2>2 DEF Carries
    <3> QED
      BY <2>2, <3>2, <3>3
  <2> QED
    BY <2>1, <2>2
<1>7. f = [i \in 0 .. N |-> Body(f, i)]
  <2> HIDE DEF Body, V, N
  <2> QED
    BY <1>6
<1> DEFINE Code(walked, i) ==
             LET acc == walked[i - 1]
                 w   == LinksOfChain(im, in, pcs, avail, max, starts[i], Len(acc.links))
             IN  IF i = 0 THEN [links |-> <<>>, end |-> "whole"]
                 ELSE IF acc.end = "cut" THEN acc
                 ELSE [links |-> acc.links \o w.links, end |-> w.end]
           Walked == CHOOSE w : w = [i \in 0 .. N |-> Code(w, i)]
<1>8. LinksOfChains(im, in, pcs, avail, max, starts) = Walked[N]
  BY DEF LinksOfChains
<1>9. \A w, i : Code(w, i) = Body(w, i)
  BY DEF NoChains, Joined
<1>10. Walked = [i \in 0 .. N |-> Body(Walked, i)]
  <2> HIDE DEF Code, Body, N
  <2>1. f = [i \in 0 .. N |-> Code(f, i)]
    BY <1>7, <1>9
  <2>2. Walked = [i \in 0 .. N |-> Code(Walked, i)]
    BY <2>1
  <2> HIDE DEF Walked
  <2> QED
    BY <2>2, <1>9
<1> HIDE DEF Walked, Code
<1>11. \A i \in 0 .. N : Walked[i] \in V
  <2> DEFINE S == {i \in 0 .. N : Walked[i] \in V}
  <2>1. 0 \in S
    BY <1>1, <1>2, <1>10
  <2>2. ASSUME NEW i \in 1 .. N, i - 1 \in S PROVE i \in S
    <3> HIDE DEF After, V
    <3>0. i \in 0 .. N /\ i # 0
      BY <1>1
    <3>1. Walked[i] = After(i, Walked[i - 1])
      <4> HIDE DEF Body, N, S
      <4>1. Walked[i] = Body(Walked, i)
        BY ONLY <1>10, <3>0
      <4> QED
        BY ONLY <3>0, <4>1 DEF Body
    <3>2. Walked[i - 1] \in V
      BY <2>2
    <3> QED
      BY <1>1, <1>3, <3>1, <3>2
  <2> HIDE DEF S, N
  <2>3. \A i \in 0 .. N : i \in S
    BY ONLY <1>1, <2>1, <2>2, CountInduction
  <2> QED
    BY <2>3 DEF S
<1>12. Walked \in [0 .. N -> V]
  <2> HIDE DEF Body, V, N
  <2> QED
    BY <1>10, <1>11
<1>13. Walked[0] = NoChains
  BY <1>1, <1>10
<1>14. Collects(Walked, im, in, pcs, avail, max, starts)
  <2> SUFFICES ASSUME NEW i \in 1 .. N PROVE Walked[i] = After(i, Walked[i - 1])
    BY DEF Collects
  <2>1. i \in 0 .. N /\ i # 0
    BY <1>1
  <2> HIDE DEF Body, After, N
  <2>2. Walked[i] = Body(Walked, i)
    BY ONLY <1>10, <2>1
  <2> QED
    BY ONLY <2>1, <2>2 DEF Body
<1> QED
  BY <1>8, <1>12, <1>13, <1>14

(* What the walk of the first i chains tells of the walker's answers for   *)
(* these chains: that it finds the location, or that it does not.          *)
Verdict(L, ans, dec, target, i) ==
    /\ target \in Members(L.links) =>
          \E j \in 1 .. i : ans[j] = dec /\ \A k \in 1 .. j - 1 : ans[k] \in {None, dec}
    /\ L.end = "whole" => \A k \in 1 .. i : ans[k] \in {None, dec}
    /\ (L.end = "whole" /\ target \notin Members(L.links)) => \A k \in 1 .. i : ans[k] = None

(* One more chain. *)
LEMMA OneMoreChain ==
    ASSUME NEW N \in Nat, NEW i \in 1 .. N, NEW ans, NEW dec, NEW target,
           NEW acc, NEW w, NEW L, Verdict(acc, ans, dec, target, i - 1),
           acc.end = "whole", Agrees(w, ans[i], dec, target),
           L.end = w.end, Members(L.links) = Members(acc.links) \cup Members(w.links)
    PROVE  Verdict(L, ans, dec, target, i)
<1>1. \A k \in 1 .. i - 1 : ans[k] \in {None, dec}
  BY DEF Verdict
<1>2. ASSUME target \in Members(L.links)
      PROVE  \E j \in 1 .. i : ans[j] = dec /\ \A k \in 1 .. j - 1 : ans[k] \in {None, dec}
  <2>1. CASE target \in Members(acc.links)
    <3>1. PICK j \in 1 .. i - 1 : ans[j] = dec /\ \A k \in 1 .. j - 1 : ans[k] \in {None, dec}
      BY <2>1 DEF Verdict
    <3>2. j \in 1 .. i
      OBVIOUS
    <3> QED
      BY ONLY <3>1, <3>2
  <2>2. CASE target \notin Members(acc.links)
    <3>1. ans[i] = dec
      BY <1>2, <2>2 DEF Agrees
    <3>2. i \in 1 .. i
      OBVIOUS
    <3>3. ans[i] = dec /\ \A k \in 1 .. i - 1 : ans[k] \in {None, dec}
      BY <1>1, <3>1
    <3> QED
      BY ONLY <3>2, <3>3
  <2> QED
    BY <2>1, <2>2
<1>3. ASSUME L.end = "whole" PROVE ans[i] \in {None, dec}
  BY <1>3 DEF Agrees
<1>4. ASSUME L.end = "whole", target \notin Members(L.links)
      PROVE  ans[i] = None /\ \A k \in 1 .. i - 1 : ans[k] = None
  BY <1>4 DEF Agrees, Verdict
<1>5. \A k \in 1 .. i : k = i \/ k \in 1 .. i - 1
  OBVIOUS
<1>6. ASSUME L.end = "whole" PROVE \A k \in 1 .. i : ans[k] \in {None, dec}
  BY <1>1, <1>3, <1>5, <1>6
<1>7. ASSUME L.end = "whole", target \notin Members(L.links)
      PROVE  \A k \in 1 .. i : ans[k] = None
  BY <1>4, <1>5, <1>7
<1> QED
  BY <1>2, <1>6, <1>7 DEF Verdict

(* All chains of a page. *)
LEMMA ChainsAgree ==
    ASSUME NEW im, IsImage(im), NEW in, in.format \in Formats, in.pageSize \in Nat,
           NEW pcs \in Nat, NEW avail \in Nat, PageIsRead(im, in, pcs, avail), NEW max \in Nat,
           NEW starts \in Seq(0 .. in.pageSize), NEW target,
           NEW ans, \A k \in 1 .. Len(starts) :
                       ans[k] = checkChainForOffset(im, in, pcs, starts[k], target)
    PROVE  /\ Verdict(LinksOfChains(im, in, pcs, avail, max, starts), ans,
                      decodeFixup(im.raw[pcs + target]), target, Len(starts))
           /\ LinksOfChains(im, in, pcs, avail, max, starts) \in ChainOf(in)
           /\ Len(starts) = 1 =>
                 Ascending(LinksOfChains(im, in, pcs, avail, max, starts).links)
<1> DEFINE N == Len(starts)
           P == 0 .. in.pageSize
           V == Room(in, max)
           dec == decodeFixup(im.raw[pcs + target])
<1>1. N \in Nat /\ \A i \in 1 .. N : starts[i] \in P
  OBVIOUS
<1>2. PICK W \in [0 .. N -> V] :
         /\ LinksOfChains(im, in, pcs, avail, max, starts) = W[N]
         /\ W[0] = NoChains
         /\ Collects(W, im, in, pcs, avail, max, starts)
  BY ChainsUnfold
<1> DEFINE One(i) == LinksOfChain(im, in, pcs, avail, max, starts[i], Len(W[i - 1].links))
<1>3. ASSUME NEW i \in 1 .. N
      PROVE  /\ One(i) \in ChainOf(in)
             /\ Agrees(One(i), ans[i], dec, target)
             /\ Len(W[i - 1].links) + Len(One(i).links) <= max
             /\ Ascending(One(i).links)
             /\ W[i - 1] \in V
  <2> DEFINE k == Len(W[i - 1].links)
             s == starts[i]
  <2>1. W[i - 1] \in V
    <3>1. i - 1 \in 0 .. N
      BY <1>1
    <3> HIDE DEF V, N
    <3> QED
      BY <1>2, <3>1
  <2>2. k \in 0 .. max /\ s \in P
    BY <1>1, <2>1 DEF Room, ChainOf
  <2> HIDE DEF k, s
  <2>3. LinksOfChain(im, in, pcs, avail, max, s, k) \in ChainOf(in)
    BY <2>2, LinksUnfold
  <2>4. /\ Agrees(LinksOfChain(im, in, pcs, avail, max, s, k),
                  checkChainForOffset(im, in, pcs, s, target), dec, target)
        /\ WellMade(LinksOfChain(im, in, pcs, avail, max, s, k), s, k, max)
    BY <2>2, ChainAgrees
  <2> QED
    BY <2>1, <2>3, <2>4 DEF WellMade, k, s
<1>4. \A i \in 0 .. N : Verdict(W[i], ans, dec, target, i)
  <2> DEFINE S == {i \in 0 .. N : Verdict(W[i], ans, dec, target, i)}
  <2>1. 0 \in S
    <3>1. Members(W[0].links) = {}
      BY <1>2 DEF NoChains, Members
    <3>2. Verdict(W[0], ans, dec, target, 0)
      BY <3>1 DEF Verdict
    <3> QED
      BY <1>1, <3>2
  <2>2. ASSUME NEW i \in 1 .. N, i - 1 \in S PROVE i \in S
    <3>0. Verdict(W[i - 1], ans, dec, target, i - 1)
      BY <2>2
    <3>1. CASE W[i - 1].end = "cut"
      <4>1. W[i] = W[i - 1]
        BY <1>2, <3>1 DEF Collects
      <4>2. i \in 0 .. N /\ W[i].end = "cut"
        BY <1>1, <3>1, <4>1
      <4>3. Verdict(W[i], ans, dec, target, i)
        <5>1. ASSUME NEW j \in 1 .. i - 1 PROVE j \in 1 .. i
          OBVIOUS
        <5> QED
          BY <3>0, <4>1, <4>2, <5>1 DEF Verdict
      <4> QED
        BY <4>2, <4>3
    <3>2. CASE W[i - 1].end # "cut"
      <4>1. W[i] = Joined(W[i - 1], One(i))
        BY <1>2, <3>2 DEF Collects
      <4>2. W[i - 1].end = "whole"
        BY <1>3, <3>2 DEF Room, ChainOf
      <4> HIDE DEF One
      <4>3. /\ W[i].end = One(i).end
            /\ Members(W[i].links) = Members(W[i - 1].links) \cup Members(One(i).links)
        BY <1>3, <4>1, JoinedChains
      <4>4. Verdict(W[i], ans, dec, target, i)
        <5> HIDE DEF N, dec
        <5> QED
          BY <1>1, <1>3, <3>0, <4>2, <4>3, OneMoreChain
      <4> QED
        BY <4>4
    <3> QED
      BY <3>1, <3>2
  <2> HIDE DEF S, N
  <2>3. \A i \in 0 .. N : i \in S
    BY ONLY <1>1, <2>1, <2>2, CountInduction
  <2> QED
    BY <2>3 DEF S
<1>5. W[N] \in ChainOf(in)
  <2>1. N \in 0 .. N
    BY <1>1
  <2> HIDE DEF V, N
  <2>2. W[N] \in V
    BY <1>2, <2>1
  <2> QED
    BY <2>2 DEF V, Room
<1>6. ASSUME N = 1 PROVE Ascending(W[N].links)
  <2>1. 1 \in 1 .. N
    BY <1>6
  <2>2. Ascending(One(1).links) /\ One(1) \in ChainOf(in)
    BY <1>3, <2>1
  <2>2a. W[1] = Joined(W[0], One(1))
    <3>1. W[0].end # "cut" /\ 1 - 1 = 0
      BY <1>2 DEF NoChains
    <3>2. \A i \in 1 .. N : W[i] = IF W[i - 1].end = "cut" THEN W[i - 1]
                                    ELSE Joined(W[i - 1], One(i))
      BY <1>2 DEF Collects
    <3> HIDE DEF One, N
    <3> QED
      BY <2>1, <3>1, <3>2
  <2>3. W[0].links = <<>>
    BY <1>2 DEF NoChains
  <2> HIDE DEF One
  <2> DEFINE o == One(1).links
  <2>4. W[1].links = <<>> \o o /\ o \in Seq(P)
    BY <2>2, <2>2a, <2>3 DEF Joined, ChainOf
  <2>5. <<>> \o o = o
    <3> HIDE DEF o
    <3> QED
      BY <2>4
  <2> QED
    BY <1>6, <2>2, <2>4, <2>5
<1> QED
  BY <1>1, <1>2, <1>4, <1>5, <1>6

(* Of a chain's answer only four fields of the starts record matter.       *)
LEMMA SameRecordSameAnswer ==
    ASSUME NEW im, NEW a, NEW b, NEW pcs, NEW first, NEW target,
           a.format = b.format, a.pageSize = b.pageSize,
           a.pageCount = b.pageCount, a.segOffset = b.segOffset
    PROVE  checkChainForOffset(im, a, pcs, first, target) =
              checkChainForOffset(im, b, pcs, first, target)
<1> DEFINE There(f, ps, pc, so, cur) ==
              /\ ps # 0
              /\ cur <= ps
              /\ pcs <= MaxU64 - cur
              /\ pointerSize(f) # 0
              /\ pc * ps >= pointerSize(f)
              /\ so <= MaxU64 - pc * ps
              /\ pcs + cur >= so
              /\ pcs + cur - so <= pc * ps - pointerSize(f)
           G(f, ps, pc, so) == CHOOSE w : w = [cur \in 0 .. ps |->
              IF ~There(f, ps, pc, so, cur) THEN Fail("segment")
              ELSE IF ~readRawPointer(im, f, pcs + cur) THEN Fail("read")
              ELSE IF cur = target THEN decodeFixup(im.raw[pcs + cur])
              ELSE IF \/ chainNext(im.raw[pcs + cur]) = 0
                      \/ cur + chainNext(im.raw[pcs + cur]) * stride(f) > ps THEN None
              ELSE w[cur + chainNext(im.raw[pcs + cur]) * stride(f)]]
<1>1. ASSUME NEW r
      PROVE  checkChainForOffset(im, r, pcs, first, target) =
                G(r.format, r.pageSize, r.pageCount, r.segOffset)[first]
  BY DEF checkChainForOffset, checkedChainFixupLocation
<1> HIDE DEF G
<1>2. checkChainForOffset(im, a, pcs, first, target) =
         G(a.format, a.pageSize, a.pageCount, a.segOffset)[first]
  BY <1>1
<1>3. checkChainForOffset(im, b, pcs, first, target) =
         G(b.format, b.pageSize, b.pageCount, b.segOffset)[first]
  BY <1>1
<1> QED
  BY <1>2, <1>3

(* The first chain with an answer, from what is known of all of them. *)
LEMMA FirstAnswer ==
    ASSUME NEW N \in Nat, NEW ans, NEW dec, dec # None, NEW target, NEW L,
           Verdict(L, ans, dec, target, N)
    PROVE  LET final == {i \in 1 .. N : ans[i] # None}
           IN  /\ target \in Members(L.links) => final # {} /\ ans[Min(final)] = dec
               /\ L.end = "whole" /\ target \notin Members(L.links) => final = {}
<1> DEFINE final == {i \in 1 .. N : ans[i] # None}
<1>1. ASSUME target \in Members(L.links) PROVE final # {} /\ ans[Min(final)] = dec
  <2>1. PICK j \in 1 .. N : ans[j] = dec /\ \A k \in 1 .. j - 1 : ans[k] \in {None, dec}
    BY <1>1 DEF Verdict
  <2>2. j \in final
    BY <2>1
  <2>3. final \subseteq Nat /\ final # {}
    BY <2>2
  <2>4. PICK x \in final : \A y \in final : x <= y
    <3> HIDE DEF final
    <3> QED
      BY <2>3, LeastNatural
  <2> DEFINE x0 == Min(final)
  <2>5. x0 \in final /\ \A y \in final : x0 <= y
    <3> HIDE DEF final
    <3> QED
      BY <2>4 DEF Min
  <2> HIDE DEF x0
  <2>6. CASE x0 = j
    BY <2>1, <2>3, <2>6 DEF x0
  <2>7. CASE x0 # j
    <3>1. x0 \in 1 .. j - 1
      BY <2>1, <2>2, <2>5, <2>7
    <3> QED
      BY <2>1, <2>3, <2>5, <3>1 DEF x0
  <2> QED
    BY <2>6, <2>7
<1>2. ASSUME L.end = "whole", target \notin Members(L.links) PROVE final = {}
  BY <1>2 DEF Verdict
<1> QED
  BY <1>1, <1>2

(* One element put at the end. *)
LEMMA AtTheEnd ==
    ASSUME NEW P, P \subseteq Nat, NEW c \in P, NEW r \in Seq(P)
    PROVE  /\ Append(r, c) \in Seq(P)
           /\ Members(Append(r, c)) = Members(r) \cup {c}
           /\ (Ascending(r) /\ \A x \in Members(r) : x < c) => Ascending(Append(r, c))
<1> DEFINE s == Append(r, c)
<1>1. s \in Seq(P) /\ Len(s) = Len(r) + 1 /\ Len(r) \in Nat
  OBVIOUS
<1>2. s[Len(r) + 1] = c /\ \A i \in 1 .. Len(r) : s[i] = r[i]
  OBVIOUS
<1> HIDE DEF s
<1>3. \A i \in 1 .. Len(s) : i = Len(r) + 1 \/ i \in 1 .. Len(r)
  BY <1>1
<1>4. \A i \in 1 .. Len(r) : i \in 1 .. Len(s)
  BY <1>1
<1>5. Members(s) = Members(r) \cup {c}
  <2>1. Members(s) \subseteq Members(r) \cup {c}
    BY <1>2, <1>3 DEF Members
  <2>2. c \in Members(s)
    <3>1. Len(r) + 1 \in 1 .. Len(s)
      BY <1>1
    <3> QED
      BY <1>2, <3>1 DEF Members
  <2>3. Members(r) \subseteq Members(s)
    <3> SUFFICES ASSUME NEW i \in 1 .. Len(r) PROVE r[i] \in Members(s)
      BY DEF Members
    <3>1. i \in 1 .. Len(s) /\ r[i] = s[i]
      BY <1>2, <1>4
    <3> QED
      BY <3>1 DEF Members
  <2> QED
    BY <2>1, <2>2, <2>3
<1>6. ASSUME Ascending(r), \A x \in Members(r) : x < c PROVE Ascending(s)
  <2> SUFFICES ASSUME NEW i \in 1 .. Len(s), NEW j \in 1 .. Len(s), i < j PROVE s[i] < s[j]
    BY DEF Ascending
  <2>1. i \in 1 .. Len(r) /\ s[i] = r[i]
    BY <1>1, <1>2
  <2>2. CASE j = Len(r) + 1
    BY <1>2, <1>6, <2>1, <2>2 DEF Members
  <2>3. CASE j # Len(r) + 1
    <3>1. j \in 1 .. Len(r) /\ s[j] = r[j]
      BY <1>2, <1>3, <2>3
    <3> QED
      BY <1>6, <2>1, <3>1 DEF Ascending
  <2> QED
    BY <2>2, <2>3
<1> QED
  BY <1>1, <1>5, <1>6 DEF s

(* sortChainLinks sorts: it keeps the locations, each once, in order.      *)
LEMMA SortAscends ==
    ASSUME NEW ps \in Nat, NEW offsets \in Seq(0 .. ps)
    PROVE  /\ sortChainLinks(offsets, ps) \in Seq(0 .. ps)
           /\ Ascending(sortChainLinks(offsets, ps))
           /\ Members(sortChainLinks(offsets, ps)) = Members(offsets)
<1> DEFINE P == 0 .. ps
           N == ps + 1
           V == Seq(P)
           Has(n) == \E k \in DOMAIN offsets : offsets[k] = n - 1
           After(n, v) == IF Has(n) THEN Append(v, n - 1) ELSE v
           step == [y \in (0 .. N) \X V |-> IF y[1] = 0 THEN <<>> ELSE After(y[1], y[2])]
           Body(w, n) == IF n = 0 THEN <<>> ELSE After(n, w[n - 1])
           Code(w, n) == IF n = 0 THEN <<>>
                         ELSE IF \E k \in DOMAIN offsets : offsets[k] = n - 1
                         THEN Append(w[n - 1], n - 1) ELSE w[n - 1]
           Sorted == CHOOSE w : w = [n \in 0 .. ps + 1 |-> Code(w, n)]
<1>1. N \in Nat /\ <<>> \in V /\ P \subseteq Nat
  OBVIOUS
<1>2. ASSUME NEW n \in 0 .. N, n # 0 PROVE n - 1 \in P /\ n - 1 \in 0 .. N
  BY <1>2
<1>3. ASSUME NEW n \in 0 .. N, n # 0, NEW v \in V PROVE After(n, v) \in V
  <2> HIDE DEF Has, P
  <2>1. n - 1 \in P
    BY <1>2, <1>3
  <2> QED
    BY <2>1
<1>4. step \in [(0 .. N) \X V -> V]
  <2> HIDE DEF After, V, N
  <2> QED
    BY <1>1, <1>3
<1>5. PICK f \in [0 .. N -> V] : Carries(f, N, <<>>, step)
  <2> HIDE DEF N, V, step
  <2> QED
    BY ONLY <1>1, <1>4, FoldExists
<1>6. \A n \in 0 .. N : f[n] = Body(f, n)
  <2> SUFFICES ASSUME NEW n \in 0 .. N PROVE f[n] = Body(f, n)
    OBVIOUS
  <2>1. CASE n = 0
    BY <1>5, <2>1 DEF Carries
  <2>2. CASE n # 0
    <3>1. n - 1 \in 0 .. N
      BY <1>2, <2>2
    <3> HIDE DEF After, V, N
    <3>2. f[n - 1] \in V
      BY <3>1
    <3>3. step[<<n, f[n - 1]>>] = After(n, f[n - 1])
      BY <2>2, <3>2
    <3>4. f[n] = step[<<n, f[n - 1]>>]
      BY <1>5, <2>2 DEF Carries
    <3> QED
      BY <2>2, <3>3, <3>4
  <2> QED
    BY <2>1, <2>2
<1>7. f = [n \in 0 .. N |-> Body(f, n)]
  <2> HIDE DEF Body, V, N
  <2> QED
    BY <1>6
<1>8. sortChainLinks(offsets, ps) = Sorted[N]
  BY DEF sortChainLinks
<1>9. \A w, n : Code(w, n) = Body(w, n)
  OBVIOUS
<1>10. Sorted = [n \in 0 .. N |-> Body(Sorted, n)]
  <2> HIDE DEF Code, Body
  <2>1. f = [n \in 0 .. N |-> Code(f, n)]
    BY <1>7, <1>9
  <2>2. Sorted = [n \in 0 .. N |-> Code(Sorted, n)]
    BY <2>1
  <2> HIDE DEF Sorted
  <2> QED
    BY <2>2, <1>9
<1> HIDE DEF Sorted, Code
<1> DEFINE Half(n) == /\ Sorted[n] \in V
                      /\ Ascending(Sorted[n])
                      /\ Members(Sorted[n]) = {x \in Members(offsets) : x < n}
           S == {n \in 0 .. N : Half(n)}
<1>11. Members(offsets) \subseteq P
  BY DEF Members
<1>12. 0 \in S
  <2>1. Sorted[0] = <<>>
    BY <1>1, <1>10
  <2>2. Members(<<>>) = {} /\ Ascending(<<>>)
    BY DEF Members, Ascending
  <2>3. {x \in Members(offsets) : x < 0} = {}
    BY <1>11
  <2>4. Half(0)
    <3> HIDE DEF V
    <3> QED
      BY <1>1, <2>1, <2>2, <2>3
  <2> QED
    BY <1>1, <2>4
<1>13. ASSUME NEW n \in 1 .. N, n - 1 \in S PROVE n \in S
  <2> DEFINE r == Sorted[n - 1]
             t == Sorted[n]
  <2>1. n - 1 \in P /\ n \in 0 .. N /\ n \in Nat /\ n # 0
    OBVIOUS
  <2>2. t = After(n, r)
    BY <1>10, <2>1
  <2>3. r \in V /\ Ascending(r) /\ Members(r) = {x \in Members(offsets) : x < n - 1}
    <3>1. Half(n - 1)
      <4> HIDE DEF Half
      <4> QED
        BY <1>13
    <3> HIDE DEF V
    <3> QED
      BY <3>1
  <2>4. Has(n) <=> n - 1 \in Members(offsets)
    <3>1. DOMAIN offsets = 1 .. Len(offsets)
      OBVIOUS
    <3>2. Members(offsets) = {offsets[k] : k \in DOMAIN offsets}
      BY <3>1 DEF Members
    <3> QED
      BY ONLY <3>2, Zenon
  <2>5. \A x \in Members(offsets) : x < n <=> x < n - 1 \/ x = n - 1
    <3>1. \A x \in Nat : x < n <=> (x < n - 1 \/ x = n - 1)
      BY ONLY <2>1
    <3>2. Members(offsets) \subseteq Nat
      BY <1>1, <1>11
    <3> QED
      BY ONLY <3>1, <3>2
  <2>6. CASE Has(n)
    <3> HIDE DEF Has, P, r
    <3>1. t = Append(r, n - 1)
      BY <2>2, <2>6
    <3> HIDE DEF t
    <3> DEFINE c == n - 1
    <3>2. c \in P /\ t = Append(r, c)
      BY <2>1, <3>1
    <3>3. \A x \in Members(r) : x < c
      BY <2>3
    <3> HIDE DEF c
    <3>4. t \in V /\ Ascending(t) /\ Members(t) = Members(r) \cup {c}
      BY <1>1, <2>3, <3>2, <3>3, AtTheEnd
    <3>5. Members(t) = {x \in Members(offsets) : x < n}
      BY <2>3, <2>4, <2>5, <2>6, <3>4 DEF c
    <3>6. Half(n)
      BY <3>4, <3>5 DEF t
    <3> QED
      BY <2>1, <3>6
  <2>7. CASE ~Has(n)
    <3> HIDE DEF Has, P, r
    <3>1. t = r
      BY <2>2, <2>7
    <3> HIDE DEF t
    <3>2. {x \in Members(offsets) : x < n} = {x \in Members(offsets) : x < n - 1}
      BY <2>4, <2>5, <2>7
    <3>3. Half(n)
      BY <2>3, <3>1, <3>2 DEF t
    <3> QED
      BY <2>1, <3>3
  <2> QED
    BY <2>6, <2>7
<1>14. \A n \in 0 .. N : n \in S
  <2> HIDE DEF S, N
  <2> QED
    BY ONLY <1>1, <1>12, <1>13, CountInduction
<1>15. {x \in Members(offsets) : x < N} = Members(offsets)
  BY <1>11
<1>16. N \in 0 .. N
  BY <1>1
<1>17. Half(N)
  <2> HIDE DEF Half
  <2> QED
    BY <1>14, <1>16
<1> QED
  BY <1>8, <1>15, <1>17

(* Links that strictlyIncreasing accepts need no sort. *)
LEMMA IncreasingAscends ==
    ASSUME NEW s \in Seq(Nat), strictlyIncreasing(s)
    PROVE  Ascending(s)
<1> DEFINE N == Len(s)
           S == {j \in 0 .. N : \A i \in 1 .. j - 1 : s[i] < s[j]}
<1>1. N \in Nat /\ \A i \in 1 .. N : s[i] \in Nat
  OBVIOUS
<1>2. 0 \in S
  BY <1>1
<1>3. ASSUME NEW j \in 1 .. N, j - 1 \in S PROVE j \in S
  <2> SUFFICES ASSUME NEW i \in 1 .. j - 1 PROVE s[i] < s[j]
    BY <1>1
  <2>1. s[j - 1] < s[j]
    BY DEF strictlyIncreasing
  <2>2. CASE i = j - 1
    BY <2>1, <2>2
  <2>3. CASE i # j - 1
    <3>1. i \in 1 .. (j - 1) - 1
      BY <2>3
    <3>2. s[i] < s[j - 1]
      BY <1>3, <3>1
    <3>3. s[i] \in Nat /\ s[j - 1] \in Nat /\ s[j] \in Nat
      BY <1>1
    <3> QED
      BY <2>1, <3>2, <3>3
  <2> QED
    BY <2>2, <2>3
<1>4. \A j \in 0 .. N : j \in S
  <2> HIDE DEF S, N
  <2> QED
    BY ONLY <1>1, <1>2, <1>3, CountInduction
<1> QED
  BY <1>4 DEF Ascending

(* The middle of two bounds. *)
LEMMA Middle ==
    ASSUME NEW a \in Nat, NEW b \in Nat, a < b
    PROVE  (a + b) \div 2 \in a .. b - 1
OBVIOUS

(* What the binary search answers for a range: the place where the offsets *)
(* stop being below the target.                                            *)
Splits(offsets, target, a, b, r) ==
    /\ r \in a .. b
    /\ \A k \in a .. r - 1 : offsets[k + 1] < target
    /\ \A k \in r .. b - 1 : offsets[k + 1] >= target

(* The search finds that place. *)
LEMMA SearchSplits ==
    ASSUME NEW offsets \in Seq(Nat), Ascending(offsets), NEW target \in Nat
    PROVE  Splits(offsets, target, 0, Len(offsets), SearchOffsets(offsets, target))
<1> DEFINE N == Len(offsets)
           R == 0 .. N
           D == R \X R
           Mid(x) == (x[1] + x[2]) \div 2
           Stop == {x \in D : x[1] >= x[2]}
           Up(x) == offsets[Mid(x) + 1] < target
           To(x) == IF Up(x) THEN <<Mid(x) + 1, x[2]>> ELSE <<x[1], Mid(x)>>
           base == [x \in D |-> x[1]]
           next == [x \in D |-> IF x \in Stop THEN x ELSE To(x)]
           m == [x \in D |-> IF x[1] >= x[2] THEN 0 ELSE x[2] - x[1]]
           Body(w, x) == IF x \in Stop THEN x[1] ELSE w[To(x)]
           Code(w, at) ==
             LET h == (at[1] + at[2]) \div 2
             IN  IF at[1] >= at[2] THEN at[1]
                 ELSE IF offsets[h + 1] < target THEN w[<<h + 1, at[2]>>]
                 ELSE w[<<at[1], h>>]
           Search == CHOOSE w : w = [at \in D |-> Code(w, at)]
<1>1. N \in Nat /\ \A i \in 1 .. N : offsets[i] \in Nat
  OBVIOUS
<1>ordered. \A i, j \in 1 .. N : i <= j =>
            /\ offsets[i] \in Nat /\ offsets[j] \in Nat
            /\ offsets[i] <= offsets[j]
  <2> SUFFICES ASSUME NEW i \in 1 .. N, NEW j \in 1 .. N, i <= j
               PROVE  /\ offsets[i] \in Nat /\ offsets[j] \in Nat
                      /\ offsets[i] <= offsets[j]
    OBVIOUS
  <2>1. offsets[i] \in Nat /\ offsets[j] \in Nat
    BY <1>1
  <2>2. CASE i = j
    BY <2>1, <2>2
  <2>3. CASE i < j
    <3>1. offsets[i] < offsets[j]
      BY <2>3 DEF Ascending
    <3> QED BY <2>1, <3>1
  <2> QED BY <2>1, <2>2, <2>3
<1>between. ASSUME NEW u \in Nat, NEW v \in Nat
            PROVE  /\ u <= v /\ v < target => u < target
                   /\ v <= u /\ ~(v < target) => u >= target
  BY <1>between
<1>2. ASSUME NEW x \in D, x \notin Stop
      PROVE  /\ Mid(x) \in x[1] .. x[2] - 1 /\ x[1] \in R /\ x[2] \in R /\ x[1] < x[2]
             /\ To(x) \in D
             /\ To(x)[1] \in R /\ To(x)[2] \in R
  <2>1. x[1] \in R /\ x[2] \in R
    OBVIOUS
  <2> DEFINE a == x[1]
             b == x[2]
  <2>2. a \in Nat /\ b \in Nat /\ a < b /\ b <= N
    BY <1>1, <1>2, <2>1
  <2> HIDE DEF a, b, N
  <2>3. (a + b) \div 2 \in a .. b - 1
    BY <2>2, Middle
  <2> DEFINE h == (a + b) \div 2
  <2> HIDE DEF h
  <2>4. h \in R /\ h + 1 \in R /\ a \in R /\ b \in R
    BY <1>1, <2>2, <2>3 DEF h
  <2>5. <<h + 1, b>> \in D /\ <<a, h>> \in D
    BY <2>4
  <2>6. To(x) = <<h + 1, b>> \/ To(x) = <<a, h>>
    BY DEF a, b, h
  <2>7. Mid(x) = h
    BY DEF a, b, h
  <2> HIDE DEF To, R
  <2>8. To(x) \in D /\ To(x)[1] \in R /\ To(x)[2] \in R
    BY <2>4, <2>5, <2>6
  <2> HIDE DEF Mid, D
  <2> QED
    BY <2>1, <2>2, <2>3, <2>7, <2>8 DEF h, a, b
<1>3. m \in [D -> 0 .. N]
  <2> SUFFICES ASSUME NEW x \in D
               PROVE  (IF x[1] >= x[2] THEN 0 ELSE x[2] - x[1]) \in 0 .. N
    OBVIOUS
  <2>1. x[1] \in R /\ x[2] \in R
    OBVIOUS
  <2> QED
    BY <1>1, <2>1
<1>induct. ASSUME NEW T, \A x \in D : (\A y \in D : m[y] < m[x] => y \in T) => x \in T
           PROVE  \A x \in D : x \in T
  <2> HIDE DEF D, m, N
  <2> QED
    BY ONLY <1>1, <1>3, <1>induct, MeasureInduction, SMTT(30)
<1>4. next \in [D -> D] /\ base \in [D -> R]
  <2>1. \A x \in D : x[1] \in R
    OBVIOUS
  <2> HIDE DEF D, Stop, To, R
  <2> QED
    BY <1>2, <2>1
<1>5. ASSUME NEW x \in D, x \notin Stop
      PROVE  next[x] = To(x) /\ m[To(x)] < m[x]
  <2> DEFINE a == x[1]
             b == x[2]
             h == Mid(x)
  <2>1. h \in a .. b - 1 /\ a \in Nat /\ b \in Nat /\ a < b
    BY <1>1, <1>2, <1>5
  <2>2. To(x) = <<h + 1, b>> \/ To(x) = <<a, h>>
    OBVIOUS
  <2>3. m[x] = b - a
    BY <2>1
  <2>4. To(x) \in D
    BY <1>2, <1>5
  <2> HIDE DEF h, D, a, b
  <2>5. CASE To(x) = <<h + 1, b>>
    <3>1. m[To(x)] = IF h + 1 >= b THEN 0 ELSE b - (h + 1)
      BY <2>4, <2>5
    <3> QED
      BY <1>5, <2>1, <2>3, <3>1
  <2>6. CASE To(x) = <<a, h>>
    <3>1. m[To(x)] = IF a >= h THEN 0 ELSE h - a
      BY <2>4, <2>6
    <3> QED
      BY <1>5, <2>1, <2>3, <3>1
  <2> QED
    BY <2>2, <2>5, <2>6
<1>6. PICK f \in [D -> R] : MovesOn(f, D, Stop, base, next)
  <2>1. \A x \in D \ Stop : m[next[x]] < m[x]
    <3> HIDE DEF D, Stop, To, m, next
    <3> QED
      BY <1>5
  <2> HIDE DEF D, base, Stop, next, m, R, N
  <2> QED
    BY ONLY <1>1, <1>3, <1>4, <2>1, LoopExists
<1>7. f = [x \in D |-> Body(f, x)]
  <2>1. \A x \in D : f[x] = Body(f, x)
    <3> HIDE DEF D, Stop, To
    <3> QED
      BY <1>6 DEF MovesOn
  <2> HIDE DEF Body, D
  <2> QED
    BY <1>6, <2>1
<1>8. SearchOffsets(offsets, target) = Search[<<0, N>>]
  BY DEF SearchOffsets
<1>9. ASSUME NEW w, NEW x \in D PROVE Code(w, x) = Body(w, x)
  OBVIOUS
<1>10. Search = [x \in D |-> Body(Search, x)]
  <2> HIDE DEF Code, Body, D
  <2>1. f = [x \in D |-> Code(f, x)]
    BY <1>7, <1>9
  <2>2. Search = [x \in D |-> Code(Search, x)]
    BY <2>1
  <2> HIDE DEF Search
  <2> QED
    BY <2>2, <1>9
<1> HIDE DEF Search, Code
<1> DEFINE Good(x) == x[1] <= x[2] => Splits(offsets, target, x[1], x[2], Search[x])
           S == {x \in D : Good(x)}
<1>11. ASSUME NEW x \in D, \A y \in D : m[y] < m[x] => y \in S PROVE x \in S
  <2> SUFFICES ASSUME x[1] <= x[2] PROVE Splits(offsets, target, x[1], x[2], Search[x])
    OBVIOUS
  <2> DEFINE a == x[1]
             b == x[2]
             h == Mid(x)
  <2>1. a \in Nat /\ b \in Nat /\ a <= b /\ b <= N /\ x \in D
    <3>1. x[1] \in R /\ x[2] \in R
      OBVIOUS
    <3> QED
      BY <1>1, <3>1
  <2>2. CASE x \in Stop
    <3>1. Search[x] = a
      BY <1>10, <2>2
    <3>2. a = b
      BY <2>1, <2>2
    <3> HIDE DEF a, b, D
    <3>3. Splits(offsets, target, a, b, Search[x])
      BY <2>1, <3>1, <3>2 DEF Splits
    <3> QED
      BY <3>3 DEF a, b
  <2>3. CASE x \notin Stop
    <3> DEFINE y == To(x)
               r == Search[y]
    <3>1. h \in a .. b - 1 /\ y \in D /\ m[y] < m[x]
      <4> HIDE DEF D, Stop, To, m
      <4> QED
        BY <1>2, <1>5, <2>1, <2>3
    <3>2. y \in S
      BY <1>11, <3>1
    <3>3. Good(y)
      <4> HIDE DEF Good, y
      <4> QED
        BY <3>2
    <3>4. Search[x] = r
      BY <1>10, <2>3
    <3>5. h + 1 \in 1 .. N /\ offsets[h + 1] \in Nat
      <4> HIDE DEF h, a, b, N, m, D, y
      <4>1. h + 1 \in 1 .. N
        BY <1>1, <2>1, <3>1
      <4> QED
        BY <1>1, <4>1
    <3>6. CASE Up(x)
      <4>1. y[1] = h + 1 /\ y[2] = b
        BY <3>6
      <4> HIDE DEF y, r, h, a, b, D, Stop
      <4>2. Splits(offsets, target, h + 1, b, r)
        <5>1. h + 1 <= b
          BY <2>1, <3>1
        <5> QED
          BY <3>3, <4>1, <5>1 DEF r
      <4>3. r \in a .. b /\ r \in h + 1 .. b
        BY <2>1, <3>1, <4>2 DEF Splits
      <4>4. \A k \in a .. h : offsets[k + 1] < target
        <5> SUFFICES ASSUME NEW k \in a .. h PROVE offsets[k + 1] < target
          OBVIOUS
        <5>1. k + 1 \in 1 .. N /\ k + 1 <= h + 1
          BY <1>1, <2>1, <3>1
        <5>2. offsets[k + 1] \in Nat /\ offsets[k + 1] <= offsets[h + 1]
          BY <1>ordered, <3>5, <5>1, Zenon
        <5>3. offsets[h + 1] < target
          BY <3>6 DEF h
        <5> QED
          BY <1>between, <3>5, <5>2, <5>3, Zenon
      <4>5. \A k \in a .. r - 1 : k \in a .. h \/ k \in h + 1 .. r - 1
        BY <2>1, <3>1, <4>3
      <4>6. Splits(offsets, target, a, b, r)
        BY <4>2, <4>3, <4>4, <4>5 DEF Splits
      <4> QED
        BY <3>4, <4>6 DEF a, b
    <3>7. CASE ~Up(x)
      <4>1. y[1] = a /\ y[2] = h
        BY <3>7
      <4> HIDE DEF y, r, h, a, b, D, Stop
      <4>2. Splits(offsets, target, a, h, r)
        <5>1. a <= h
          BY <2>1, <3>1
        <5> QED
          BY <3>3, <4>1, <5>1 DEF r
      <4>3. r \in a .. b /\ r \in a .. h
        BY <2>1, <3>1, <4>2 DEF Splits
      <4>4. \A k \in h .. b - 1 : offsets[k + 1] >= target
        <5> SUFFICES ASSUME NEW k \in h .. b - 1 PROVE offsets[k + 1] >= target
          OBVIOUS
        <5>1. k + 1 \in 1 .. N /\ h + 1 <= k + 1
          BY <1>1, <2>1, <3>1
        <5>2. offsets[k + 1] \in Nat /\ offsets[h + 1] <= offsets[k + 1]
          BY <1>ordered, <3>5, <5>1, Zenon
        <5>3. ~(offsets[h + 1] < target)
          BY <3>7 DEF h
        <5> QED
          BY <1>between, <3>5, <5>2, <5>3, Zenon
      <4>5. \A k \in r .. b - 1 : k \in r .. h - 1 \/ k \in h .. b - 1
        BY <2>1, <3>1, <4>3
      <4>6. Splits(offsets, target, a, b, r)
        BY <4>2, <4>3, <4>4, <4>5 DEF Splits
      <4> QED
        BY <3>4, <4>6 DEF a, b
    <3> QED
      BY <3>6, <3>7
  <2> QED
    BY <2>2, <2>3
<1>12. \A x \in D : x \in S
  <2>1. \A x \in D : (\A y \in D : m[y] < m[x] => y \in S) => x \in S
    <3> HIDE DEF S, D, m, N
    <3> QED
      BY <1>11
  <2> HIDE DEF S, D, m, N
  <2> QED
    BY ONLY <1>induct, <2>1
<1> DEFINE x0 == <<0, N>>
<1>13. x0 \in D /\ x0[1] = 0 /\ x0[2] = N /\ 0 <= N
  BY <1>1
<1>14. Good(x0)
  <2> HIDE DEF Good, D, x0
  <2> QED
    BY <1>12, <1>13
<1> HIDE DEF x0, D
<1>15. Splits(offsets, target, 0, N, Search[x0])
  BY <1>13, <1>14
<1> QED
  BY <1>8, <1>15 DEF x0

(* So a location is found exactly if it is one of the offsets.             *)
LEMMA SearchFinds ==
    ASSUME NEW offsets \in Seq(Nat), Ascending(offsets), NEW target \in Nat
    PROVE  LET i == SearchOffsets(offsets, target)
           IN  (i + 1 \in DOMAIN offsets /\ offsets[i + 1] = target)
                  <=> target \in Members(offsets)
<1> DEFINE N == Len(offsets)
           i == SearchOffsets(offsets, target)
<1>1. N \in Nat /\ DOMAIN offsets = 1 .. N /\ \A k \in 1 .. N : offsets[k] \in Nat
  OBVIOUS
<1>2. Splits(offsets, target, 0, N, i)
  BY SearchSplits
<1> HIDE DEF i
<1>3. i \in 0 .. N
  BY <1>2 DEF Splits
<1>4. ASSUME i + 1 \in DOMAIN offsets, offsets[i + 1] = target
      PROVE  target \in Members(offsets)
  <2>1. i + 1 \in 1 .. Len(offsets)
    BY <1>1, <1>4
  <2> QED
    BY <1>4, <2>1 DEF Members
<1>5. ASSUME target \in Members(offsets)
      PROVE  i + 1 \in DOMAIN offsets /\ offsets[i + 1] = target
  <2>1. PICK k \in 1 .. N : offsets[k] = target
    BY <1>5 DEF Members
  <2>2. k - 1 >= i
    <3> SUFFICES ASSUME ~(k - 1 >= i) PROVE FALSE
      OBVIOUS
    <3>1. k - 1 \in 0 .. i - 1 /\ (k - 1) + 1 = k
      BY <1>3
    <3>2. offsets[k] < target
      BY <1>2, <3>1 DEF Splits
    <3> QED
      BY <1>1, <2>1, <3>2
  <2>3. i \in i .. N - 1 /\ i + 1 \in 1 .. N
    BY <1>1, <1>3, <2>2
  <2>4. offsets[i + 1] >= target
    BY <1>2, <2>3 DEF Splits
  <2>5. CASE k = i + 1
    BY <1>1, <2>1, <2>3, <2>5
  <2>6. CASE k # i + 1
    <3>1. i + 1 < k
      BY <1>3, <2>2, <2>6
    <3>2. offsets[i + 1] < offsets[k]
      BY <2>3, <3>1 DEF Ascending
    <3> QED
      BY <1>1, <2>1, <2>3, <2>4, <3>2
  <2> QED
    BY <2>5, <2>6
<1> QED
  BY <1>4, <1>5 DEF i

IsStarts(st) ==
    /\ st.format \in Formats
    /\ st.pageSize \in Nat /\ st.pageCount \in Nat /\ st.segOffset \in Nat
    /\ st.pageStarts \in Seq([tag: {"none", "single", "multi"}, at: Nat])
    /\ st.chainStarts \in Seq([at: Nat, last: BOOLEAN])

(* The chain starts of a page lie in it, and a run of them is not empty.   *)
LEMMA ChainStartsInPage ==
    ASSUME NEW st, IsStarts(st), NEW at \in [tag: {"none", "single", "multi"}, at: Nat],
           at.tag # "none", chainStartsForPage(st, at).ok
    PROVE  /\ chainStartsForPage(st, at).starts \in Seq(0 .. st.pageSize)
           /\ chainStartsForPage(st, at).starts # <<>>
           /\ at.tag # "multi" => chainStartsForPage(st, at).starts = <<at.at>>
<1> DEFINE P == 0 .. st.pageSize
           cs == st.chainStarts
           first == at.at - Len(st.pageStarts) + 1
           ends == {i \in first .. Len(cs) : cs[i].last}
           run == SubSeq(cs, first, Min(ends))
           got == chainStartsForPage(st, at)
<1>1. at.at \in Nat /\ st.pageSize \in Nat /\ at.tag \in {"single", "multi"}
  BY DEF IsStarts
<1>2. CASE at.tag = "single"
  <2>1. got = [ok |-> at.at <= st.pageSize, starts |-> <<at.at>>]
    BY <1>2 DEF chainStartsForPage
  <2>2. got.starts = <<at.at>> /\ at.at <= st.pageSize
    <3> DEFINE b == at.at <= st.pageSize
    <3>1. got.starts = <<at.at>> /\ got.ok = b
      <4> HIDE DEF got
      <4> QED
        BY <2>1
    <3> HIDE DEF b
    <3>2. b
      BY <3>1
    <3> QED
      BY <3>1, <3>2 DEF b
  <2>3. at.at \in P
    BY <1>1, <2>2
  <2> HIDE DEF got, P
  <2>4. <<at.at>> \in Seq(P) /\ <<at.at>> # <<>>
    BY <2>3
  <2> QED
    BY <1>2, <2>2, <2>4 DEF got, P
<1>3. CASE at.tag = "multi"
  <2> DEFINE Ok == /\ st.format = "ptr32"
                   /\ first \in 1 .. Len(cs)
                   /\ ends # {}
                   /\ \A i \in 1 .. Len(run) : run[i].at <= st.pageSize
                   /\ \A i \in 2 .. Len(run) :
                         run[i - 1].at # 0 => run[i].at > run[i - 1].at
  <2>1. got = IF Ok THEN [ok |-> TRUE, starts |-> [i \in 1 .. Len(run) |-> run[i].at]]
              ELSE [ok |-> FALSE, starts |-> <<>>]
    BY <1>3 DEF chainStartsForPage
  <2>2. Ok /\ got.starts = [i \in 1 .. Len(run) |-> run[i].at]
    <3> HIDE DEF Ok, run
    <3> QED
      BY <2>1
  <2> DEFINE T == [at: Nat, last: BOOLEAN]
  <2>3. cs \in Seq(T) /\ Len(cs) \in Nat
    BY DEF IsStarts
  <2>4. first \in 1 .. Len(cs) /\ ends # {}
    BY <2>2
  <2> HIDE DEF first, cs, T
  <2>5. ends \subseteq Nat
    BY <2>3, <2>4
  <2> DEFINE e == Min(ends)
  <2>6. e \in ends
    <3>1. PICK x \in ends : \A y \in ends : x <= y
      <4> HIDE DEF ends
      <4> QED
        BY <2>4, <2>5, LeastNatural
    <3> HIDE DEF ends
    <3> QED
      BY <3>1 DEF Min
  <2> HIDE DEF e
  <2>7. e \in first .. Len(cs)
    BY <2>6
  <2>8. run = SubSeq(cs, first, e)
    BY DEF e
  <2> HIDE DEF ends, run
  <2>9. Len(run) = e - first + 1 /\ run \in Seq(T)
    <3>1. ASSUME NEW s \in Seq(T), NEW a \in 1 .. Len(s), NEW b \in a .. Len(s)
          PROVE  Len(SubSeq(s, a, b)) = b - a + 1 /\ SubSeq(s, a, b) \in Seq(T)
      OBVIOUS
    <3> QED
      BY ONLY <2>3, <2>4, <2>7, <2>8, <3>1
  <2>10. Len(run) \in Nat /\ Len(run) >= 1
    BY <2>3, <2>4, <2>7, <2>9
  <2>11. \A i \in 1 .. Len(run) : run[i].at \in P
    <3> SUFFICES ASSUME NEW i \in 1 .. Len(run) PROVE run[i].at \in P
      OBVIOUS
    <3>1. run[i] \in T
      BY ONLY <2>9, i \in 1 .. Len(run)
    <3>2. run[i].at <= st.pageSize
      BY <2>2
    <3> QED
      BY <1>1, <3>1, <3>2 DEF T
  <2> HIDE DEF P, got
  <2>12. [i \in 1 .. Len(run) |-> run[i].at] \in Seq(P)
    BY <2>10, <2>11
  <2>13. Len(got.starts) = Len(run)
    BY <2>2, <2>10
  <2>14. got.starts # <<>>
    BY <2>10, <2>13
  <2> QED
    BY <1>3, <2>2, <2>12, <2>14, SMTT(30) DEF P, got
<1> QED
  BY <1>1, <1>2, <1>3

(* The bytes that are read for a page are those a walker can read there.   *)
LEMMA BytesOfAPage ==
    ASSUME NEW im, IsImage(im), NEW in, in.format \in Formats, in.pageSize \in Nat,
           NEW pcs \in Nat, NEW span, span = in.pageSize + pointerSize(in.format),
           pointerSize(in.format) # 0, ~(pcs > MaxInt64 - span), NEW avail,
           avail = IF pcs >= im.size THEN 0 ELSE Min({span, im.size - pcs})
    PROVE  avail \in Nat /\ PageIsRead(im, in, pcs, avail)
<1> DEFINE z == pointerSize(in.format)
           ps == in.pageSize
           size == im.size
<1>1. z \in {1, 2} /\ ps \in Nat /\ size \in Nat /\ MaxInt64 \in Int
  BY FormatSizes, MaxAssumption DEF IsImage, MaxInt64
<1> HIDE DEF z, ps, size
<1>2. span = ps + z /\ span \in Nat /\ pcs + span <= MaxInt64
  BY <1>1 DEF ps, z
<1>3. \A c \in 0 .. ps : readRawPointer(im, in.format, pcs + c)
                            <=> pcs + c <= MaxInt64 /\ pcs + c + z <= size
  BY DEF readRawPointer, z, size
<1>4. \A c \in 0 .. ps : pcs + c <= MaxInt64
  BY <1>1, <1>2
<1>5. CASE pcs >= size
  <2>1. avail = 0
    BY <1>5 DEF size
  <2>2. \A c \in 0 .. ps : ~(c + z <= 0) /\ ~(pcs + c + z <= size)
    BY <1>1, <1>5
  <2> QED
    BY <1>3, <2>1, <2>2 DEF PageIsRead, z, ps
<1>6. CASE ~(pcs >= size)
  <2>1. avail = Min({span, size - pcs})
    BY <1>6 DEF size
  <2>2. size - pcs \in Nat
    BY <1>1, <1>6
  <2>3. Min({span, size - pcs}) = IF span <= size - pcs THEN span ELSE size - pcs
    <3> DEFINE a == span
               b == size - pcs
    <3>1. a \in Nat /\ b \in Nat
      BY <1>2, <2>2
    <3> HIDE DEF a, b
    <3>2. Min({a, b}) = CHOOSE x \in {a, b} : \A y \in {a, b} : x <= y
      BY DEF Min
    <3> HIDE DEF Min
    <3>3. Min({a, b}) = IF a <= b THEN a ELSE b
      <4> DEFINE M == CHOOSE x \in {a, b} : \A y \in {a, b} : x <= y
      <4>1. \E x \in {a, b} : \A y \in {a, b} : x <= y
        BY <3>1
      <4>2. M \in {a, b} /\ M <= a /\ M <= b
        BY <4>1
      <4> HIDE DEF M
      <4> QED
        BY <3>1, <3>2, <4>2 DEF M
    <3> QED
      BY <3>3 DEF a, b
  <2>4. avail \in Nat /\ (avail = span \/ avail = size - pcs)
        /\ avail <= span /\ avail <= size - pcs
    BY <1>2, <2>1, <2>2, <2>3
  <2> HIDE DEF Min
  <2>5. \A c \in 0 .. ps : c + z <= avail <=> pcs + c + z <= size
    BY <1>1, <1>2, <2>2, <2>4
  <2> QED
    BY <1>3, <1>4, <2>4, <2>5 DEF PageIsRead, z, ps
<1> QED
  BY <1>5, <1>6

(* An answer from the page of all links found is the walker's.             *)
LEMMA AnswerFromOffsets ==
    ASSUME NEW page, page.offsets \in Seq(Nat), Ascending(page.offsets),
           NEW target \in Nat, NEW dec,
           target \in Members(page.offsets) =>
              \A i \in DOMAIN page.offsets :
                 page.offsets[i] = target => decodeFixup(page.raws[i]) = dec
    PROVE  answerFromPage(page, target) =
              IF target \in Members(page.offsets) THEN dec
              ELSE IF page.complete THEN None ELSE Unhandled
<1> DEFINE offsets == page.offsets
           i == SearchOffsets(offsets, target)
<1>1. offsets \in Seq(Nat) /\ Ascending(offsets)
  OBVIOUS
<1>2. (i + 1 \in DOMAIN offsets /\ offsets[i + 1] = target) <=> target \in Members(offsets)
  <2> HIDE DEF offsets
  <2> QED
    BY <1>1, SearchFinds
<1>3. answerFromPage(page, target) =
         IF i + 1 \in DOMAIN offsets /\ offsets[i + 1] = target
         THEN decodeFixup(page.raws[i + 1])
         ELSE IF page.complete THEN None ELSE Unhandled
  BY DEF answerFromPage
<1> HIDE DEF i
<1>4. CASE target \in Members(offsets)
  <2>1. i + 1 \in DOMAIN offsets /\ offsets[i + 1] = target
    BY <1>2, <1>4
  <2>2. decodeFixup(page.raws[i + 1]) = dec
    BY <1>4, <2>1
  <2> HIDE DEF offsets
  <2>3. answerFromPage(page, target) = dec
    BY <1>3, <2>1, <2>2
  <2> QED
    BY <1>4, <2>3 DEF offsets
<1>5. CASE target \notin Members(offsets)
  <2>1. ~(i + 1 \in DOMAIN offsets /\ offsets[i + 1] = target)
    BY <1>2, <1>5
  <2> HIDE DEF offsets
  <2>2. answerFromPage(page, target) = IF page.complete THEN None ELSE Unhandled
    BY <1>3, <2>1
  <2> QED
    BY <1>5, <2>2 DEF offsets
<1> QED
  BY <1>4, <1>5

(* The page that could not be read answers nothing. *)
LEMMA EmptyPageUnhandled ==
    ASSUME NEW in, NEW target
    PROVE  answerFromPage(EmptyPage(in), target) = Unhandled
<1>1. EmptyPage(in).offsets = <<>> /\ EmptyPage(in).complete = FALSE
  BY DEF EmptyPage, Page
<1>2. \A i : i \notin DOMAIN <<>>
  OBVIOUS
<1> QED
  BY <1>1, <1>2 DEF answerFromPage

(* One page, walked as a whole, against the walker. *)
LEMMA PageAgrees ==
    ASSUME NEW im, IsImage(im), NEW st, IsStarts(st), st.pageSize # 0,
           NEW at \in [tag: {"none", "single", "multi"}, at: Nat], at.tag # "none",
           chainStartsForPage(st, at).ok, NEW multi,
           multi = IF at.tag = "multi" THEN chainStartsForPage(st, at).starts ELSE <<>>,
           NEW pcs \in Nat, NEW target \in Nat, NEW a,
           a = answerFromPage(buildChainPage(im, Inputs(st, at, multi), pcs), target),
           a # Unhandled
    PROVE  a = walkerFixupInPage(im, st, at, pcs, target)
<1> DEFINE in == Inputs(st, at, multi)
           size == pointerSize(in.format)
           span == in.pageSize + size
           avail == IF pcs >= im.size THEN 0 ELSE Min({span, im.size - pcs})
           max == in.pageSize \div stride(in.format) + 2
           starts == IF in.chainStarts = <<>> THEN <<in.pageStart.at>> ELSE in.chainStarts
           walked == LinksOfChains(im, in, pcs, avail, max, starts)
           offsets == IF Len(starts) > 1 /\ ~strictlyIncreasing(walked.links)
                      THEN sortChainLinks(walked.links, in.pageSize) ELSE walked.links
           raws == [i \in DOMAIN offsets |-> im.raw[pcs + offsets[i]]]
           page == Page(in, walked.end = "whole", offsets, raws)
           bad == \/ size = 0 \/ stride(in.format) = 0 \/ in.pageSize = 0
                  \/ pcs > MaxInt64 - span
           ps == st.pageSize
           dec == decodeFixup(im.raw[pcs + target])
           cs == chainStartsForPage(st, at)
<1>1. /\ in.format = st.format /\ in.pageSize = ps /\ in.pageCount = st.pageCount
      /\ in.segOffset = st.segOffset /\ in.pageStart = at /\ in.chainStarts = multi
  BY DEF Inputs
<1>2. buildChainPage(im, in, pcs) = IF bad THEN EmptyPage(in) ELSE page
  BY Zenon DEF buildChainPage
<1> HIDE DEF in, page, bad
<1>3. ~bad
  <2> SUFFICES ASSUME bad PROVE FALSE
    OBVIOUS
  <2> HIDE DEF bad
  <2>1. buildChainPage(im, in, pcs) = EmptyPage(in)
    BY <1>2
  <2> QED
    BY <2>1, EmptyPageUnhandled DEF in
<1>4. a = answerFromPage(page, target)
  BY <1>2, <1>3 DEF in
<1>5. cs.starts \in Seq(0 .. ps) /\ cs.starts # <<>>
      /\ (at.tag # "multi" => cs.starts = <<at.at>>)
  BY ChainStartsInPage
<1>6. starts = cs.starts
  <2> HIDE DEF cs, in
  <2>1. CASE at.tag = "multi"
    BY <1>1, <1>5, <2>1 DEF cs
  <2>2. CASE at.tag # "multi"
    BY <1>1, <1>5, <2>2 DEF cs
  <2> QED
    BY <2>1, <2>2
<1>7. starts \in Seq(0 .. in.pageSize) /\ starts # <<>>
  BY <1>1, <1>5, <1>6
<1> HIDE DEF starts
<1>8. size # 0 /\ stride(in.format) # 0 /\ ~(pcs > MaxInt64 - span)
  BY <1>3 DEF bad
<1>9. in.format \in Formats /\ in.pageSize \in Nat
  BY <1>1 DEF IsStarts
<1>10. avail \in Nat /\ PageIsRead(im, in, pcs, avail)
  <2> DEFINE av == avail
             sp == span
  <2>1. av = IF pcs >= im.size THEN 0 ELSE Min({sp, im.size - pcs})
    OBVIOUS
  <2>2. sp = in.pageSize + pointerSize(in.format) /\ ~(pcs > MaxInt64 - sp)
    BY <1>8
  <2> HIDE DEF av, sp
  <2>3. av \in Nat /\ PageIsRead(im, in, pcs, av)
    BY <1>8, <1>9, <2>1, <2>2, BytesOfAPage
  <2> QED
    BY <2>3 DEF av
<1>11. max \in Nat
  <2>1. stride(in.format) \in {1, 2}
    BY <1>8, <1>9, FormatSizes
  <2> QED
    BY <1>9, <2>1
<1> HIDE DEF avail, max
<1> DEFINE N == Len(starts)
           ans == [k \in 1 .. N |-> checkChainForOffset(im, in, pcs, starts[k], target)]
<1>12. N \in Nat /\ N # 0 /\ DOMAIN starts = 1 .. N
  BY <1>7
<1>13. /\ Verdict(walked, ans, dec, target, N)
       /\ walked \in ChainOf(in)
       /\ N = 1 => Ascending(walked.links)
  <2>1. \A k \in 1 .. Len(starts) :
           ans[k] = checkChainForOffset(im, in, pcs, starts[k], target)
    OBVIOUS
  <2> HIDE DEF ans
  <2> QED
    BY <1>7, <1>9, <1>10, <1>11, <2>1, ChainsAgree
<1> HIDE DEF walked, dec, ans
<1>14. walked.links \in Seq(0 .. in.pageSize) /\ walked.end \in {"cut", "whole"}
  BY <1>13 DEF ChainOf
<1>15. /\ offsets \in Seq(0 .. in.pageSize)
       /\ Ascending(offsets)
       /\ Members(offsets) = Members(walked.links)
  <2> DEFINE o == offsets
             l == walked.links
             p == in.pageSize
             n == N
  <2>1. o = IF n > 1 /\ ~strictlyIncreasing(l) THEN sortChainLinks(l, p) ELSE l
    OBVIOUS
  <2>2. n \in Nat \ {0} /\ (n = 1 => Ascending(l)) /\ p \in Nat /\ l \in Seq(0 .. p)
    BY <1>9, <1>12, <1>13, <1>14
  <2> HIDE DEF o, l, p, n
  <2>3. ASSUME n > 1 /\ ~strictlyIncreasing(l)
        PROVE  o \in Seq(0 .. p) /\ Ascending(o) /\ Members(o) = Members(l)
    BY <2>1, <2>2, <2>3, SortAscends
  <2>4. ASSUME n > 1 /\ strictlyIncreasing(l)
        PROVE  o \in Seq(0 .. p) /\ Ascending(o) /\ Members(o) = Members(l)
    <3>1. l \in Seq(Nat)
      BY <2>2
    <3>2. Ascending(l)
      BY <2>4, <3>1, IncreasingAscends
    <3> QED
      BY <2>1, <2>2, <2>4, <3>2
  <2>5. ASSUME ~(n > 1)
        PROVE  o \in Seq(0 .. p) /\ Ascending(o) /\ Members(o) = Members(l)
    BY <2>1, <2>2, <2>5
  <2>6. o \in Seq(0 .. p) /\ Ascending(o) /\ Members(o) = Members(l)
    BY <2>3, <2>4, <2>5
  <2> QED
    BY <2>6 DEF o, l, p
<1> HIDE DEF offsets
<1>16. /\ page.offsets = offsets
       /\ page.complete = (walked.end = "whole")
       /\ page.raws = raws
  BY DEF page, Page
<1>17. \A i \in DOMAIN offsets : offsets[i] = target => decodeFixup(raws[i]) = dec
  BY DEF dec
<1> HIDE DEF raws
<1>18. a = IF target \in Members(offsets) THEN dec
           ELSE IF page.complete THEN None ELSE Unhandled
  <2>1. page.offsets \in Seq(Nat)
    BY <1>9, <1>15, <1>16
  <2>2. \A i \in DOMAIN page.offsets : page.offsets[i] = target => decodeFixup(page.raws[i]) = dec
    BY <1>16, <1>17
  <2>3. Ascending(page.offsets)
    BY <1>15, <1>16
  <2>4. answerFromPage(page, target) =
           IF target \in Members(page.offsets) THEN dec
           ELSE IF page.complete THEN None ELSE Unhandled
    BY <2>1, <2>2, <2>3, AnswerFromOffsets
  <2> QED
    BY <1>4, <1>16, <2>4
<1> DEFINE final == {i \in 1 .. N : ans[i] # None}
<1>19. walkerFixupInPage(im, st, at, pcs, target) =
          IF final = {} THEN None ELSE ans[Min(final)]
  <2> DEFINE reply(i) == checkChainForOffset(im, st, pcs, cs.starts[i], target)
             F == {i \in DOMAIN cs.starts : reply(i) # None}
  <2>1. walkerFixupInPage(im, st, at, pcs, target) =
           IF F = {} THEN None ELSE reply(Min(F))
    BY DEF walkerFixupInPage
  <2>2. \A i \in 1 .. N : ans[i] = reply(i)
    <3>1. \A i : checkChainForOffset(im, in, pcs, cs.starts[i], target) = reply(i)
      BY <1>1, SameRecordSameAnswer
    <3> HIDE DEF reply, cs
    <3> QED
      BY <1>6, <3>1 DEF ans
  <2> HIDE DEF reply
  <2>3. F = final
    BY <1>6, <1>12, <2>2
  <2>4. ASSUME final # {} PROVE Min(final) \in 1 .. N
    <3>1. final \subseteq Nat
      OBVIOUS
    <3> HIDE DEF final
    <3>2. PICK x \in final : \A y \in final : x <= y
      BY <2>4, <3>1, LeastNatural
    <3>3. Min(final) \in final
      BY <3>2 DEF Min
    <3> QED
      BY <3>3 DEF final
  <2> HIDE DEF F, final
  <2> QED
    BY <2>1, <2>2, <2>3, <2>4
<1>20. dec # None
  BY DEF dec, decodeFixup, None, Found, Fail
<1>21. /\ target \in Members(walked.links) => final # {} /\ ans[Min(final)] = dec
       /\ walked.end = "whole" /\ target \notin Members(walked.links) => final = {}
  BY <1>12, <1>13, <1>20, FirstAnswer
<1> HIDE DEF final
<1>22. CASE target \in Members(offsets)
  BY <1>15, <1>18, <1>19, <1>21, <1>22
<1>23. CASE target \notin Members(offsets)
  <2>1. page.complete
    BY <1>18, <1>23
  <2>2. walked.end = "whole"
    BY <1>16, <2>1
  <2>3. a = None
    BY <1>18, <1>23, <2>1
  <2> QED
    BY <1>15, <1>19, <1>21, <1>23, <2>2, <2>3
<1> QED
  BY <1>22, <1>23

(* The word arithmetic of ends and of pages. *)
LEMMA Division ==
    ASSUME NEW d \in Nat, NEW p \in Nat \ {0}
    PROVE  d % p \in 0 .. p - 1 /\ d \div p \in Nat /\ (d \div p) * p <= d
OBVIOUS

(* Where ranges are indexed that start at or before an offset, one of them *)
(* is the last.                                                            *)
LEMMA LastRange ==
    ASSUME NEW offset \in Nat, NEW below, below # {},
           \A r \in below : r.start \in 0 .. offset /\ r.end \in 0 .. MaxU64
    PROVE  \E r \in below : \A q \in below : NotAfter(q, r)
<1> DEFINE A == {offset - r.start : r \in below}
<1>1. A \subseteq Nat /\ A # {}
  OBVIOUS
<1>2. PICK x \in A : \A y \in A : x <= y
  <2> HIDE DEF A
  <2> QED
    BY <1>1, LeastNatural
<1>3. PICK r0 \in below : x = offset - r0.start
  OBVIOUS
<1>4. \A r \in below : r.start <= r0.start
  <2> SUFFICES ASSUME NEW r \in below PROVE r.start <= r0.start
    OBVIOUS
  <2>1. offset - r0.start <= offset - r.start
    BY <1>2, <1>3
  <2> QED
    BY <2>1
<1> DEFINE late == {r \in below : r.start = r0.start}
           B == {MaxU64 - r.end : r \in late}
<1>5. B \subseteq Nat /\ B # {}
  BY MaxAssumption
<1>6. PICK z \in B : \A y \in B : z <= y
  <2> HIDE DEF B
  <2> QED
    BY <1>5, LeastNatural
<1>7. PICK r1 \in late : z = MaxU64 - r1.end
  OBVIOUS
<1>8. \A r \in late : r.end <= r1.end
  <2> SUFFICES ASSUME NEW r \in late PROVE r.end <= r1.end
    OBVIOUS
  <2>1. MaxU64 - r1.end <= MaxU64 - r.end
    BY <1>6, <1>7
  <2> QED
    BY <2>1, MaxAssumption
<1>9. ASSUME NEW r \in below PROVE NotAfter(r, r1)
  <2>1. CASE r \in late
    BY <1>7, <1>8, <2>1 DEF NotAfter
  <2>2. CASE r \notin late
    <3>1. r.start # r0.start /\ r1.start = r0.start
      BY <1>7, <2>2
    <3> HIDE DEF late, B, A
    <3> QED
      BY <1>3, <1>4, <3>1 DEF NotAfter
  <2> QED
    BY <2>1, <2>2
<1> QED
  BY <1>7, <1>9

(* The segment found is one of the table the index was built from.         *)
LEMMA SegmentIsIndexed ==
    ASSUME NEW starts \in Seq(StartsRecords), NEW offset \in Nat
    PROVE  findSegmentForOffset(buildSegmentIndex(starts), offset) \in {0} \cup DOMAIN starts
<1> DEFINE index == buildSegmentIndex(starts)
           below == {r \in index : r.start <= offset}
           last == CHOOSE r \in below : \A q \in below : NotAfter(q, r)
<1>1. ASSUME NEW r \in index
      PROVE  r.index \in DOMAIN starts /\ r.start \in Nat /\ r.end \in 0 .. MaxU64
  <2>1. PICK i \in DOMAIN starts :
           r = [start |-> starts[i].segOffset, end |-> segEnd(starts[i]), index |-> i]
    BY DEF buildSegmentIndex
  <2>2. starts[i] \in StartsRecords
    OBVIOUS
  <2> DEFINE c == starts[i].pageCount
             s == starts[i].pageSize
             o == starts[i].segOffset
             d == o + c * s
  <2>3. o \in Nat /\ d \in Nat
    <3>1. c \in Nat /\ s \in Nat /\ o \in Nat
      BY <2>2 DEF StartsRecords
    <3> HIDE DEF c, s, o
    <3> QED
      BY <3>1
  <2>4. segEnd(starts[i]) = d % (MaxU64 + 1)
    BY DEF segEnd
  <2> HIDE DEF d
  <2>5. d % (MaxU64 + 1) \in 0 .. MaxU64
    <3> DEFINE m == MaxU64 + 1
    <3>1. m \in Nat \ {0} /\ m - 1 = MaxU64
      BY MaxAssumption
    <3> HIDE DEF m
    <3>2. d % m \in 0 .. m - 1
      BY <2>3, <3>1, Division
    <3> QED
      BY <3>1, <3>2 DEF m
  <2> QED
    BY <2>1, <2>3, <2>4, <2>5
<1>2. findSegmentForOffset(index, offset) =
         IF below # {} /\ offset < last.end THEN last.index ELSE 0
  BY DEF findSegmentForOffset
<1>3. ASSUME below # {} PROVE last.index \in DOMAIN starts
  <2>1. \A r \in below : r.start \in 0 .. offset /\ r.end \in 0 .. MaxU64
    BY <1>1
  <2> HIDE DEF below
  <2>2. \E r \in below : \A q \in below : NotAfter(q, r)
    BY <1>3, <2>1, LastRange
  <2>3. last \in below
    BY <2>2
  <2> HIDE DEF last
  <2> QED
    BY <1>1, <2>3 DEF below
<1> HIDE DEF last, below, index
<1>4. findSegmentForOffset(index, offset) \in {0} \cup DOMAIN starts
  BY <1>2, <1>3
<1> QED
  BY <1>4 DEF index

(* The segment index is that of a table that Starts has held: an edit that *)
(* is not followed by ResetSegmentIndex leaves the old one.                *)
SegmentsAreIndexed ==
    /\ image \in Images
    /\ Starts \in StartsSets
    /\ \E s \in StartsSets : Len(s) = Len(Starts) /\ segmentIndex = buildSegmentIndex(s)

(* Every step keeps an index of a table as long as Starts. *)
LEMMA IndexedAlways == Spec => []SegmentsAreIndexed
<1>1. Init => SegmentsAreIndexed
  BY DEF Init, SegmentsAreIndexed
<1>2. SegmentsAreIndexed /\ [Next]_vars => SegmentsAreIndexed'
  <2> SUFFICES ASSUME SegmentsAreIndexed, [Next]_vars PROVE SegmentsAreIndexed'
    OBVIOUS
  <2>1. ASSUME UNCHANGED <<image, Starts, segmentIndex>> PROVE SegmentsAreIndexed'
    BY <2>1 DEF SegmentsAreIndexed
  <2>2. CASE Lookups
    BY <2>1, <2>2 DEF Lookups, GetFixupAtOffset, storePage
  <2>3. CASE parseLocked
    <3>1. UNCHANGED <<image, Starts, segmentIndex>>
      BY <2>3 DEF parseLocked
    <3> QED
      BY <2>1, <3>1
  <2>4. CASE EditStarts
    <3>1. Starts' \in StartsSets /\ Len(Starts') = Len(Starts)
          /\ image' = image /\ segmentIndex' = segmentIndex
      BY <2>4 DEF EditStarts
    <3> QED
      BY <3>1 DEF SegmentsAreIndexed
  <2>5. CASE ResetSegmentIndex
    <3>1. Starts' = Starts /\ image' = image /\ segmentIndex' = buildSegmentIndex(Starts)
      BY <2>5 DEF ResetSegmentIndex
    <3> QED
      BY <3>1 DEF SegmentsAreIndexed
  <2>6. CASE UNCHANGED vars
    BY <2>1, <2>6 DEF vars
  <2> QED
    BY <2>2, <2>3, <2>4, <2>5, <2>6 DEF Next
<1> QED
  BY <1>1, <1>2, PTL DEF Spec

(* Where a lookup reaches a page, the page is one of a segment of Starts,  *)
(* and the offset lies in it.                                              *)
LEMMA PageReached ==
    ASSUME SegmentsAreIndexed, NEW offset \in Offsets, beforePage(offset) = InPage
    PROVE  /\ IsStarts(Starts[SegmentOf(offset)])
           /\ Starts[SegmentOf(offset)].pageSize # 0
           /\ PageStart(offset) \in [tag: {"none", "single", "multi"}, at: Nat]
           /\ PageStart(offset).tag # "none"
           /\ PageContentStart(offset) \in Nat
           /\ offset - PageContentStart(offset) \in Nat
<1> DEFINE i == SegmentOf(offset)
           st == Starts[i]
           k == PageIndex(offset)
           at == PageStart(offset)
<1>1. i # 0 /\ locateStartForOffset(offset) /\ at.tag # "none"
  BY DEF beforePage, InPage, None, Fail
<1>2. offset \in Nat
  BY StartsAssumption
<1>3. i \in DOMAIN Starts
  <2>1. PICK s \in StartsSets : Len(s) = Len(Starts) /\ segmentIndex = buildSegmentIndex(s)
    BY DEF SegmentsAreIndexed
  <2>2. s \in Seq(StartsRecords) /\ Starts \in Seq(StartsRecords)
    BY StartsAssumption DEF SegmentsAreIndexed
  <2>3. findSegmentForOffset(buildSegmentIndex(s), offset) \in {0} \cup DOMAIN s
    BY <1>2, <2>2, SegmentIsIndexed
  <2>4. DOMAIN s = DOMAIN Starts
    BY <2>1, <2>2
  <2> QED
    BY <1>1, <2>1, <2>3, <2>4 DEF SegmentOf
<1> HIDE DEF i
<1>4. st \in StartsRecords
  <2>1. Starts \in Seq(StartsRecords)
    BY StartsAssumption DEF SegmentsAreIndexed
  <2> QED
    BY <1>3, <2>1
<1>5. IsStarts(st)
  BY <1>4 DEF StartsRecords, IsStarts
<1> HIDE DEF st
<1> DEFINE o == st.segOffset
           p == st.pageSize
           d == offset - o
<1>6. p # 0 /\ offset >= o /\ k < Len(st.pageStarts) /\ k = d \div p
  BY <1>1 DEF locateStartForOffset, PageIndex, st, i
<1>7. p \in Nat \ {0} /\ o \in Nat
  BY <1>5, <1>6 DEF IsStarts
<1> HIDE DEF p, o
<1>8. d \in Nat
  BY <1>2, <1>6, <1>7
<1> HIDE DEF d, k
<1>9. k \in Nat /\ k * p <= d
  BY <1>6, <1>7, <1>8, Division
<1>10. k + 1 \in 1 .. Len(st.pageStarts)
  <2>1. Len(st.pageStarts) \in Nat
    BY <1>5 DEF IsStarts
  <2> QED
    BY <1>6, <1>9, <2>1
<1>11. at \in [tag: {"none", "single", "multi"}, at: Nat]
  <2>1. at = st.pageStarts[k + 1]
    BY DEF PageStart, st, k, i
  <2> DEFINE ats == st.pageStarts
             T == [tag: {"none", "single", "multi"}, at: Nat]
  <2>2. ats \in Seq(T)
    BY <1>5 DEF IsStarts
  <2>3. k + 1 \in 1 .. Len(ats)
    BY <1>10
  <2> HIDE DEF ats, T
  <2>4. ats[k + 1] \in T
    BY ONLY <2>2, <2>3
  <2> QED
    BY <2>1, <2>4 DEF ats, T
<1>12. PageContentStart(offset) = o + k * p
  BY DEF PageContentStart, st, k, i, o, p
<1> DEFINE j == k * p
<1>13. j \in Nat /\ j <= d /\ PageContentStart(offset) = o + j
  BY <1>7, <1>9, <1>12
<1> HIDE DEF j
<1>14. PageContentStart(offset) \in Nat /\ offset - PageContentStart(offset) \in Nat
  BY <1>2, <1>7, <1>8, <1>13 DEF d
<1> QED
  BY <1>1, <1>5, <1>7, <1>11, <1>14 DEF st, i, p

(* One whole-page walk answers as the walker does. *)
LEMMA PagesAgree == SegmentsAreIndexed => WholePageAgrees
<1> SUFFICES ASSUME SegmentsAreIndexed, NEW offset \in Offsets,
                    beforePage(offset) = InPage, Cacheable(offset)
             PROVE  PageAnswer(FreshPage(offset), offset) = Walker(offset)
  BY DEF WholePageAgrees
<1> DEFINE st == Starts[SegmentOf(offset)]
           at == PageStart(offset)
           pcs == PageContentStart(offset)
           target == offset - pcs
           multi == MultiOf(offset)
           a == answerFromPage(FreshPage(offset), target)
<1>1. PageAnswer(FreshPage(offset), offset) = IF a = Unhandled THEN Walker(offset) ELSE a
  BY DEF PageAnswer
<1>2. Walker(offset) = walkerFixupInPage(image, st, at, pcs, target)
  BY DEF Walker
<1>3. a = answerFromPage(buildChainPage(image, Inputs(st, at, multi), pcs), target)
  BY DEF FreshPage, InputsOf
<1>4. multi = IF at.tag = "multi" THEN chainStartsForPage(st, at).starts ELSE <<>>
  BY DEF MultiOf
<1>5. /\ IsStarts(st) /\ st.pageSize # 0
      /\ at \in [tag: {"none", "single", "multi"}, at: Nat] /\ at.tag # "none"
      /\ pcs \in Nat /\ target \in Nat
  BY PageReached
<1>6. chainStartsForPage(st, at).ok
  BY DEF Cacheable
<1>7. IsImage(image)
  BY ImagesAssumption DEF SegmentsAreIndexed, IsImage
<1> HIDE DEF a, st, at, pcs, target, multi
<1>8. a # Unhandled => a = walkerFixupInPage(image, st, at, pcs, target)
  BY <1>3, <1>4, <1>5, <1>6, <1>7, PageAgrees
<1> QED
  BY <1>1, <1>2, <1>8

(* One page walked as a whole answers every offset of the page as the      *)
(* link-by-link walker does: for every file, every starts table and page   *)
(* size, overlapping and repeated chains, chains that leave the segment or *)
(* the file, and chains cut by the limit on the number of links.           *)
THEOREM WholePagesAgree == Spec => []WholePageAgrees
BY IndexedAlways, PagesAgree, PTL
-----------------------------------------------------------------------------
(* The answers.  A lookup between its two steps is at an offset whose page *)
(* can be cached, and stays so because Starts is only edited while no      *)
(* lookup runs.                                                            *)

Pending ==
    \A p \in Procs, offset \in Offsets :
        (lookup[p] # Idle /\ lookup[p].offset = offset) =>
            beforePage(offset) = InPage /\ Cacheable(offset)

ReaderState ==
    /\ lookup = [p \in Procs |-> lookup[p]]
    /\ answer = [p \in Procs |-> answer[p]]

AInv == TypeOK /\ ReaderState /\ Pending /\ LookupMatchesWalker

(* A page that a lookup may use answers as the walker does.                *)
LEMMA GoodPageAnswer ==
    ASSUME WholePageAgrees, NEW offset \in Offsets,
           beforePage(offset) = InPage, Cacheable(offset),
           NEW page, page \in {FreshPage(offset), EmptyPage(InputsOf(offset))}
    PROVE  PageAnswer(page, offset) = GetFixupUncached(offset)
<1>1. GetFixupUncached(offset) = Walker(offset)
  BY DEF GetFixupUncached, InPage
<1>2. CASE page = FreshPage(offset)
  BY <1>1, <1>2 DEF WholePageAgrees
<1>3. CASE page = EmptyPage(InputsOf(offset))
  <2>1. page.offsets = <<>> /\ page.complete = FALSE
    BY <1>3 DEF EmptyPage, Page
  <2>2. DOMAIN page.offsets = {}
    BY <2>1
  <2> QED BY <1>1, <2>1, <2>2 DEF PageAnswer, answerFromPage
<1> QED BY <1>2, <1>3

(* What a point lookup answers depends on the file, Starts and the index.  *)
LEMMA SameAnswers ==
    ASSUME UNCHANGED <<image, Starts, segmentIndex>>, NEW offset
    PROVE  /\ GetFixupUncached(offset)' = GetFixupUncached(offset)
           /\ beforePage(offset)' = beforePage(offset)
           /\ Cacheable(offset)' = Cacheable(offset)
<1>1. SegmentOf(offset)' = SegmentOf(offset)
  BY DEF SegmentOf
<1>2. PageIndex(offset)' = PageIndex(offset)
  BY <1>1 DEF PageIndex
<1>3. PageContentStart(offset)' = PageContentStart(offset)
  BY <1>1, <1>2 DEF PageContentStart
<1>4. PageStart(offset)' = PageStart(offset)
  BY <1>1, <1>2 DEF PageStart
<1>5. locateStartForOffset(offset)' = locateStartForOffset(offset)
  BY <1>1 DEF locateStartForOffset
<1>6. beforePage(offset)' = beforePage(offset)
  BY <1>1, <1>3, <1>4, <1>5 DEF beforePage, InPage
<1>7. Walker(offset)' = Walker(offset)
  BY <1>1, <1>3, <1>4 DEF Walker
<1>8. GetFixupUncached(offset)' = GetFixupUncached(offset)
  BY <1>6, <1>7 DEF GetFixupUncached
<1>9. Cacheable(offset)' = Cacheable(offset)
  BY <1>1, <1>4 DEF Cacheable
<1> QED BY <1>6, <1>8, <1>9
(* A call that returns at once: the answer is the uncached one, and the    *)
(* reader is idle.                                                         *)
LEMMA ReturnKeeps ==
    ASSUME AInv, NEW p \in Procs, NEW offset \in Offsets,
           UNCHANGED <<image, Starts, segmentIndex, chainsParsed>>,
           Return(p, offset, GetFixupUncached(offset))
    PROVE  AInv'
<1>1. /\ lookup' = [lookup EXCEPT ![p] = Idle]
      /\ answer' = [answer EXCEPT ![p] = [offset |-> offset, got |-> GetFixupUncached(offset)]]
  BY DEF Return
<1>2. ReaderState'
  BY <1>1 DEF AInv, ReaderState
<1>3. \A q \in Procs : lookup'[q] # Idle => lookup'[q] = lookup[q]
  BY <1>1 DEF AInv, ReaderState
<1>4. \A q \in Procs : q # p => answer'[q] = answer[q]
  BY <1>1 DEF AInv, ReaderState
<1>5. answer'[p] = [offset |-> offset, got |-> GetFixupUncached(offset)]
  BY <1>1 DEF AInv, ReaderState
<1>6. TypeOK'
  BY <1>3, <1>4, <1>5 DEF AInv, TypeOK
<1>7. Pending'
  <2> SUFFICES ASSUME NEW q \in Procs, NEW o \in Offsets,
                      lookup'[q] # Idle, lookup'[q].offset = o
               PROVE  beforePage(o)' = InPage /\ Cacheable(o)'
    BY DEF Pending, InPage
  <2>1. beforePage(o) = InPage /\ Cacheable(o)
    BY <1>3 DEF AInv, Pending
  <2> QED BY <2>1, SameAnswers
<1>8. LookupMatchesWalker'
  <2> SUFFICES ASSUME NEW q \in Procs, NEW o \in Offsets,
                      answer'[q] # Idle, answer'[q].offset = o
               PROVE  answer'[q].got = GetFixupUncached(o)'
    BY DEF LookupMatchesWalker
  <2>1. GetFixupUncached(o)' = GetFixupUncached(o)
    BY SameAnswers
  <2>2. CASE q = p
    BY <1>5, <2>1, <2>2
  <2>3. CASE q # p
    BY <1>4, <2>1, <2>3 DEF AInv, LookupMatchesWalker
  <2> QED BY <2>2, <2>3
<1> QED BY <1>2, <1>6, <1>7, <1>8 DEF AInv

(* A call that goes on to build a page.                                    *)
LEMMA BeginKeeps ==
    ASSUME AInv, NEW p \in Procs, NEW offset \in Offsets,
           UNCHANGED <<image, Starts, segmentIndex, chainsParsed>>,
           beforePage(offset) = InPage, Cacheable(offset),
           lookup' = [lookup EXCEPT ![p] = [at |-> "build", offset |-> offset]],
           answer' = [answer EXCEPT ![p] = Idle]
    PROVE  AInv'
<1>1. ReaderState'
  BY DEF AInv, ReaderState
<1>2. \A q \in Procs : answer'[q] # Idle => answer'[q] = answer[q]
  BY DEF AInv, ReaderState
<1>3. \A q \in Procs : q # p => lookup'[q] = lookup[q]
  BY DEF AInv, ReaderState
<1>4. lookup'[p] = [at |-> "build", offset |-> offset]
  BY DEF AInv, ReaderState
<1>5. TypeOK'
  BY <1>2, <1>3, <1>4 DEF AInv, TypeOK
<1>6. Pending'
  <2> SUFFICES ASSUME NEW q \in Procs, NEW o \in Offsets,
                      lookup'[q] # Idle, lookup'[q].offset = o
               PROVE  beforePage(o)' = InPage /\ Cacheable(o)'
    BY DEF Pending, InPage
  <2>1. beforePage(o) = InPage /\ Cacheable(o)
    BY <1>3, <1>4 DEF AInv, Pending
  <2> QED BY <2>1, SameAnswers
<1>7. LookupMatchesWalker'
  <2> SUFFICES ASSUME NEW q \in Procs, NEW o \in Offsets,
                      answer'[q] # Idle, answer'[q].offset = o
               PROVE  answer'[q].got = GetFixupUncached(o)'
    BY DEF LookupMatchesWalker
  <2>1. GetFixupUncached(o)' = GetFixupUncached(o)
    BY SameAnswers
  <2> QED BY <1>2, <2>1 DEF AInv, LookupMatchesWalker
<1> QED BY <1>1, <1>5, <1>6, <1>7 DEF AInv

(* Edits and index resets happen while no lookup runs, and what was        *)
(* answered before is no claim about the new Starts.                       *)
LEMMA EditKeeps ==
    ASSUME AInv, NoReaders, Starts' \in StartsSets,
           UNCHANGED <<image, chainsParsed, lookup>>,
           answer' = [p \in Procs |-> Idle]
    PROVE  AInv'
<1>1. ReaderState'
  BY DEF AInv, ReaderState
<1>2. TypeOK'
  BY DEF AInv, TypeOK, NoReaders
<1>3. Pending'
  BY DEF Pending, NoReaders
<1>4. LookupMatchesWalker'
  BY DEF LookupMatchesWalker
<1> QED BY <1>1, <1>2, <1>3, <1>4 DEF AInv

(* Steps that touch nothing a lookup depends on.                           *)
LEMMA ElseKeeps ==
    ASSUME AInv, UNCHANGED <<image, Starts, segmentIndex, lookup, answer>>,
           chainsParsed' \in BOOLEAN
    PROVE  AInv'
<1>1. ReaderState'
  BY DEF AInv, ReaderState
<1>2. TypeOK'
  BY DEF AInv, TypeOK
<1>3. Pending'
  <2> SUFFICES ASSUME NEW q \in Procs, NEW o \in Offsets,
                      lookup'[q] # Idle, lookup'[q].offset = o
               PROVE  beforePage(o)' = InPage /\ Cacheable(o)'
    BY DEF Pending, InPage
  <2> QED BY SameAnswers DEF AInv, Pending
<1>4. LookupMatchesWalker'
  <2> SUFFICES ASSUME NEW q \in Procs, NEW o \in Offsets,
                      answer'[q] # Idle, answer'[q].offset = o
               PROVE  answer'[q].got = GetFixupUncached(o)'
    BY DEF LookupMatchesWalker
  <2> QED BY SameAnswers DEF AInv, LookupMatchesWalker
<1> QED BY <1>1, <1>2, <1>3, <1>4 DEF AInv

(* Before the first lookup there is nothing a cache could have answered.   *)
LEMMA AnswersInit == Init => AInv
<1> SUFFICES ASSUME Init PROVE AInv
  OBVIOUS
<1>1. lookup = [p \in Procs |-> Idle] /\ answer = [p \in Procs |-> Idle]
  BY DEF Init
<1>2. TypeOK
  BY <1>1 DEF Init, TypeOK
<1>3. ReaderState
  BY <1>1 DEF ReaderState
<1>4. Pending /\ LookupMatchesWalker
  BY <1>1 DEF Pending, LookupMatchesWalker
<1> QED BY <1>2, <1>3, <1>4 DEF AInv

(* Every step keeps the answers of the readers those of the walker.        *)
LEMMA AnswersStep ==
    AInv /\ StoredPagesAreBuilds /\ WholePageAgrees /\ [Next]_vars => AInv'
<1> SUFFICES ASSUME AInv, StoredPagesAreBuilds, WholePageAgrees, [Next]_vars
             PROVE  AInv'
  OBVIOUS
<1>1. ASSUME NEW p \in Procs, NEW offset \in Offsets, GetFixupAtOffset(p, offset)
      PROVE  AInv'
  <2> DEFINE page == CachedPage(PageContentStart(offset))
  <2>0. UNCHANGED <<image, Starts, segmentIndex, chainsParsed>>
    BY <1>1 DEF GetFixupAtOffset, parseVars
  <2>1. CASE beforePage(offset).kind # "page"
    <3>1. GetFixupUncached(offset) = beforePage(offset)
      BY <2>1 DEF GetFixupUncached
    <3> QED BY <1>1, <2>0, <2>1, <3>1, ReturnKeeps DEF GetFixupAtOffset
  <2>2. CASE beforePage(offset).kind = "page"
    <3>1. beforePage(offset) = InPage
      BY <2>2 DEF beforePage, InPage, None, Fail
    <3>2. GetFixupUncached(offset) = Walker(offset)
      BY <2>2 DEF GetFixupUncached
    <3>3. CASE ~Cacheable(offset)
      BY <1>1, <2>0, <2>2, <3>2, <3>3, ReturnKeeps DEF GetFixupAtOffset
    <3>4. CASE Cacheable(offset) /\ CanUse(page, offset)
      <4>1. page \in {FreshPage(offset), EmptyPage(InputsOf(offset))}
        BY <3>4, UsableIsFresh
      <4>2. PageAnswer(page, offset) = GetFixupUncached(offset)
        BY <3>1, <3>4, <4>1, GoodPageAnswer
      <4> QED BY <1>1, <2>0, <2>2, <3>4, <4>2, ReturnKeeps DEF GetFixupAtOffset
    <3>5. CASE Cacheable(offset) /\ ~CanUse(page, offset)
      BY <1>1, <2>0, <2>2, <3>1, <3>5, BeginKeeps DEF GetFixupAtOffset
    <3> QED BY <3>3, <3>4, <3>5
  <2> QED BY <2>1, <2>2
<1>2. ASSUME NEW p \in Procs, NEW f \in BOOLEAN, storePage(p, f)
      PROVE  AInv'
  <2>1. PICK offset \in Offsets : offset = lookup[p].offset
    BY <1>2 DEF storePage, AInv, TypeOK
  <2> DEFINE page == IF f THEN EmptyPage(InputsOf(offset)) ELSE FreshPage(offset)
  <2>2. beforePage(offset) = InPage /\ Cacheable(offset)
    BY <1>2, <2>1 DEF storePage, AInv, Pending
  <2>3. PageAnswer(page, offset) = GetFixupUncached(offset)
    BY <2>2, GoodPageAnswer
  <2>4. Return(p, offset, PageAnswer(page, offset))
    BY <1>2, <2>1 DEF storePage
  <2>5. UNCHANGED <<image, Starts, segmentIndex, chainsParsed>>
    BY <1>2 DEF storePage, parseVars
  <2> QED BY <2>3, <2>4, <2>5, ReturnKeeps
<1>3. CASE parseLocked
  BY <1>3, ElseKeeps DEF parseLocked, parseVars, AInv, TypeOK
<1>4. CASE EditStarts
  BY <1>4, EditKeeps DEF EditStarts, parseVars
<1>5. CASE ResetSegmentIndex
  BY <1>5, EditKeeps DEF ResetSegmentIndex, parseVars, AInv, TypeOK
<1>6. CASE UNCHANGED vars
  BY <1>6, ElseKeeps DEF vars, parseVars, AInv, TypeOK
<1> QED BY <1>1, <1>2, <1>3, <1>4, <1>5, <1>6 DEF Next, Lookups

(* Every lookup answers as the walker does: over any file and starts table *)
(* and any number of concurrent readers, after failed reads, stores that   *)
(* overtake each other and edits of Starts between calls.                  *)
THEOREM CacheIsTransparent == Spec => []LookupMatchesWalker
<1>1. AInv => LookupMatchesWalker
  BY DEF AInv
<1>2. AInv /\ StoredPagesAreBuilds /\ SegmentsAreIndexed /\ [Next]_vars => AInv'
  BY AnswersStep, PagesAgree
<1> QED BY <1>1, <1>2, Invariance, IndexedAlways, AnswersInit, PTL DEF Spec

-----------------------------------------------------------------------------
(* What a full walk has recorded, and whether it met no error.             *)
Walked == [locs: Seq(Nat), ok: BOOLEAN]
BadWalk == [locs |-> <<>>, ok |-> FALSE]
NoWalk == [locs |-> <<>>, ok |-> TRUE]
WithLocation(loc, rest) == [locs |-> <<loc>> \o rest.locs, ok |-> rest.ok]
LastLocation(loc) == [locs |-> <<loc>>, ok |-> TRUE]

(* The results of walks are walks. *)
LEMMA WalksAreTyped ==
    /\ BadWalk \in Walked /\ NoWalk \in Walked
    /\ \A loc \in Nat : LastLocation(loc) \in Walked
    /\ \A loc \in Nat, w \in Walked : WithLocation(loc, w) \in Walked
    /\ \A v \in Walked, w \in Walked : Then(v, w) \in Walked
<1>1. <<>> \in Seq(Nat)
  OBVIOUS
<1>2. BadWalk \in Walked /\ NoWalk \in Walked
  BY <1>1 DEF BadWalk, NoWalk, Walked
<1>3. ASSUME NEW loc \in Nat PROVE LastLocation(loc) \in Walked
  <2>1. <<loc>> \in Seq(Nat)
    OBVIOUS
  <2> QED BY <2>1 DEF LastLocation, Walked
<1>4. ASSUME NEW loc \in Nat, NEW w \in Walked PROVE WithLocation(loc, w) \in Walked
  <2>1. <<loc>> \o w.locs \in Seq(Nat) /\ w.ok \in BOOLEAN
    BY DEF Walked
  <2> QED BY <2>1 DEF WithLocation, Walked
<1>5. ASSUME NEW v \in Walked, NEW w \in Walked PROVE Then(v, w) \in Walked
  <2>1. v.locs \o w.locs \in Seq(Nat) /\ w.ok \in BOOLEAN
    BY DEF Walked
  <2>2. [locs |-> v.locs \o w.locs, ok |-> w.ok] \in Walked
    BY <2>1 DEF Walked
  <2> QED BY <2>2 DEF Then
<1> QED BY <1>2, <1>3, <1>4, <1>5

(* The recorded walk of one chain, one link at a time. *)
LEMMA RecordingUnfolds ==
    ASSUME NEW im, IsImage(im), NEW st, st.format \in Formats, st.pageSize \in Nat,
           NEW pcs \in Nat, NEW cur \in 0 .. st.pageSize, stride(st.format) # 0
    PROVE  /\ walkDcFixupChain(im, st, pcs, cur) \in Walked
           /\ walkDcFixupChain(im, st, pcs, cur) =
                 IF ~LinkIsThere(im, st, pcs, cur) \/ ~recordFixup(im.raw[pcs + cur]) THEN BadWalk
                 ELSE IF Ends(im, st, pcs, cur) THEN LastLocation(pcs + cur)
                 ELSE WithLocation(pcs + cur,
                                   walkDcFixupChain(im, st, pcs, Hop(im, st, pcs, cur)))
<1> DEFINE ps == st.pageSize
           D == 0 .. ps
           V == Walked
           Cut(c) == ~LinkIsThere(im, st, pcs, c) \/ ~recordFixup(im.raw[pcs + c])
           Stop == {c \in D : Cut(c) \/ Ends(im, st, pcs, c)}
           base == [c \in D |-> IF Cut(c) THEN BadWalk ELSE LastLocation(pcs + c)]
           next == [c \in D |-> IF c \in Stop THEN c ELSE Hop(im, st, pcs, c)]
           m == [c \in D |-> ps - c]
           step == [y \in D \X V |-> WithLocation(pcs + y[1], y[2])]
           Body(w, c) == IF c \in Stop THEN base[c]
                         ELSE WithLocation(pcs + c, w[Hop(im, st, pcs, c)])
<1>1. ps \in Nat
  OBVIOUS
<1>2. \A c \in D \ Stop : Hop(im, st, pcs, c) \in D /\ Hop(im, st, pcs, c) > c
  BY ChainsGoForward
<1>3. m \in [D -> 0 .. ps]
  BY <1>1
<1>4. base \in [D -> V]
  <2>1. \A c \in D : pcs + c \in Nat
    OBVIOUS
  <2> HIDE DEF Cut, D
  <2> QED
    BY <2>1, WalksAreTyped
<1>5. next \in [D -> D]
  <2> HIDE DEF D, Stop
  <2> QED
    BY <1>2
<1>6. \A c \in D \ Stop : m[next[c]] < m[c]
  <2> SUFFICES ASSUME NEW c \in D \ Stop PROVE m[next[c]] < m[c]
    OBVIOUS
  <2> DEFINE h == Hop(im, st, pcs, c)
  <2>1. next[c] = h /\ h \in D /\ h > c
    BY <1>2
  <2> HIDE DEF h, next, Stop
  <2>2. m[h] = ps - h /\ m[c] = ps - c
    BY <2>1
  <2> QED
    BY <2>1, <2>2, <1>1
<1>7. step \in [D \X V -> V]
  <2>1. \A c \in D : pcs + c \in Nat
    OBVIOUS
  <2> HIDE DEF D, V
  <2>2. \A c \in D, v \in V : WithLocation(pcs + c, v) \in V
    BY <2>1, WalksAreTyped DEF V
  <2> QED
    BY <2>2
<1>8. PICK f \in [D -> V] : Recurses(f, D, Stop, base, next, step)
  <2> HIDE DEF D, base, Stop, next, m, V, ps, step
  <2> QED
    BY ONLY <1>1, <1>3, <1>4, <1>5, <1>6, <1>7, RecursiveFunctionExists
<1>9. \A c \in D : f[c] = Body(f, c)
  <2> SUFFICES ASSUME NEW c \in D PROVE f[c] = Body(f, c)
    OBVIOUS
  <2>1. CASE c \in Stop
    BY <1>8, <2>1 DEF Recurses
  <2>2. CASE c \notin Stop
    <3> DEFINE h == Hop(im, st, pcs, c)
    <3>1. next[c] = h /\ h \in D
      BY <1>2, <2>2
    <3> HIDE DEF h, next, Stop, D, V
    <3>2. f[h] \in V
      BY <3>1
    <3>3. step[<<c, f[h]>>] = WithLocation(pcs + c, f[h])
      BY <3>2
    <3>4. f[c] = step[<<c, f[h]>>]
      BY <1>8, <2>2, <3>1 DEF Recurses
    <3> QED
      BY <2>2, <3>3, <3>4 DEF h
  <2> QED
    BY <2>1, <2>2
<1>10. f = [c \in D |-> Body(f, c)]
  <2> HIDE DEF Body, D, V
  <2> QED
    BY <1>9
<1> DEFINE Code(w, c) ==
             IF \/ ~checkedChainFixupLocation(st, pcs, c)
                \/ ~readRawPointer(im, st.format, pcs + c)
                \/ ~recordFixup(im.raw[pcs + c])
             THEN [locs |-> <<>>, ok |-> FALSE]
             ELSE IF chainNext(im.raw[pcs + c]) = 0
                     \/ c + chainNext(im.raw[pcs + c]) * stride(st.format) > st.pageSize
             THEN [locs |-> <<pcs + c>>, ok |-> TRUE]
             ELSE LET rest == w[c + chainNext(im.raw[pcs + c]) * stride(st.format)]
                  IN  [locs |-> <<pcs + c>> \o rest.locs, ok |-> rest.ok]
           Walk == CHOOSE w : w = [c \in 0 .. st.pageSize |-> Code(w, c)]
<1>11. \A c \in D : walkDcFixupChain(im, st, pcs, c) = Walk[c]
  BY DEF walkDcFixupChain
<1>12. ASSUME NEW w, NEW c \in D PROVE Code(w, c) = Body(w, c)
  <2>1. (\/ ~checkedChainFixupLocation(st, pcs, c)
         \/ ~readRawPointer(im, st.format, pcs + c)
         \/ ~recordFixup(im.raw[pcs + c])) <=> Cut(c)
    BY DEF LinkIsThere
  <2>2. CASE Cut(c)
    BY <2>1, <2>2 DEF BadWalk
  <2>3. CASE ~Cut(c) /\ Ends(im, st, pcs, c)
    BY <2>1, <2>3 DEF Ends, Hop, LastLocation
  <2>4. CASE ~Cut(c) /\ ~Ends(im, st, pcs, c)
    BY <2>1, <2>4 DEF Ends, Hop, WithLocation
  <2> QED
    BY <2>2, <2>3, <2>4
<1>13. Walk = [c \in D |-> Body(Walk, c)]
  <2> HIDE DEF Code, Body, D
  <2>1. f = [c \in D |-> Code(f, c)]
    BY <1>10, <1>12
  <2>2. Walk = [c \in D |-> Code(Walk, c)]
    BY <2>1 DEF D
  <2> HIDE DEF Walk
  <2> QED
    BY <2>2, <1>12
<1> HIDE DEF Code, Walk
<1>14. \A c \in D : Walk[c] \in V
  <2> DEFINE S == {c \in D : Walk[c] \in V}
  <2>1. ASSUME NEW c \in D, \A d \in D : m[d] < m[c] => d \in S
        PROVE  c \in S
    <3>1. CASE c \in Stop
      <4>1. Walk[c] = base[c]
        BY <1>13, <3>1
      <4> HIDE DEF base, D, V
      <4> QED
        BY <1>4, <4>1
    <3>2. CASE c \notin Stop
      <4> DEFINE h == Hop(im, st, pcs, c)
      <4>1. h \in D /\ m[h] < m[c] /\ pcs + c \in Nat
        BY <1>2, <1>6, <3>2
      <4>2. Walk[h] \in V
        BY <2>1, <4>1
      <4>3. Walk[c] = WithLocation(pcs + c, Walk[h])
        BY <1>13, <3>2
      <4> HIDE DEF h, D
      <4>4. Walk[c] \in V
        BY <4>1, <4>2, <4>3, WalksAreTyped
      <4> QED
        BY <4>4
    <3> QED
      BY <3>1, <3>2
  <2>2. \A c \in D : (\A d \in D : m[d] < m[c] => d \in S) => c \in S
    <3> HIDE DEF S, D, m
    <3> QED
      BY <2>1
  <2>3. \A c \in D : c \in S
    <3> HIDE DEF S, D, m, ps
    <3> QED
      BY ONLY <2>2, <1>1, <1>3, MeasureInduction
  <2> QED
    BY <2>3
<1> DEFINE h == Hop(im, st, pcs, cur)
<1>15. walkDcFixupChain(im, st, pcs, cur) = Walk[cur] /\ Walk[cur] \in V
  BY <1>11, <1>14
<1>16. CASE cur \in Stop
  <2>1. Walk[cur] = IF Cut(cur) THEN BadWalk ELSE LastLocation(pcs + cur)
    BY <1>13, <1>16
  <2>2. Cut(cur) \/ Ends(im, st, pcs, cur)
    BY <1>16
  <2> QED
    BY <1>15, <2>1, <2>2
<1>17. CASE cur \notin Stop
  <2>1. h \in D /\ ~Cut(cur) /\ ~Ends(im, st, pcs, cur)
    BY <1>2, <1>17
  <2>2. Walk[cur] = WithLocation(pcs + cur, Walk[h])
    BY <1>13, <1>17
  <2>3. walkDcFixupChain(im, st, pcs, h) = Walk[h]
    BY <1>11, <2>1
  <2> HIDE DEF h
  <2> QED
    BY <1>15, <2>1, <2>2, <2>3 DEF h
<1> QED
  BY <1>16, <1>17

(* The one element of a sequence of one.                                   *)
LEMMA OneMember == ASSUME NEW x PROVE Members(<<x>>) = {x}
<1> DEFINE s == <<x>>
<1>1. Len(s) = 1 /\ s[1] = x
  OBVIOUS
<1> HIDE DEF s
<1>2. {s[i] : i \in 1 .. Len(s)} = {x}
  BY <1>1
<1> QED BY <1>2 DEF Members, s

(* The members of two lists joined. *)
LEMMA JoinedMembers ==
    ASSUME NEW P, NEW a \in Seq(P), NEW b \in Seq(P)
    PROVE  Members(a \o b) = Members(a) \cup Members(b)
<1> DEFINE s == a \o b
<1>1. s \in Seq(P) /\ Len(s) = Len(a) + Len(b) /\ Len(a) \in Nat /\ Len(b) \in Nat
  OBVIOUS
<1>2. /\ \A i \in 1 .. Len(a) : s[i] = a[i]
      /\ \A i \in 1 .. Len(b) : s[i + Len(a)] = b[i]
  OBVIOUS
<1> HIDE DEF s
<1>3. ASSUME NEW i \in 1 .. Len(s) PROVE s[i] \in Members(a) \cup Members(b)
  <2>1. CASE i <= Len(a)
    BY <1>1, <1>2, <2>1 DEF Members
  <2>2. CASE ~(i <= Len(a))
    <3>1. i - Len(a) \in 1 .. Len(b) /\ i = (i - Len(a)) + Len(a)
      BY <1>1, <2>2
    <3>2. s[i] = b[i - Len(a)]
      BY <1>2, <3>1
    <3> QED BY <3>1, <3>2 DEF Members
  <2> QED BY <2>1, <2>2
<1>4. ASSUME NEW i \in 1 .. Len(a) PROVE a[i] \in Members(s)
  <2>1. i \in 1 .. Len(s) /\ s[i] = a[i]
    BY <1>1, <1>2
  <2> QED BY <2>1 DEF Members
<1>5. ASSUME NEW i \in 1 .. Len(b) PROVE b[i] \in Members(s)
  <2>1. i + Len(a) \in 1 .. Len(s) /\ s[i + Len(a)] = b[i]
    BY <1>1, <1>2
  <2> QED BY <2>1 DEF Members
<1>6. Members(s) \subseteq Members(a) \cup Members(b)
  BY <1>3 DEF Members
<1>7. Members(a) \subseteq Members(s)
  BY <1>4 DEF Members
<1>8. Members(b) \subseteq Members(s)
  BY <1>5 DEF Members
<1> QED BY <1>6, <1>7, <1>8 DEF s

(* A walk of parts in order, up to the first error.                        *)
Walks(f, N, one) ==
    \A i \in 0 .. N : f[i] = IF i = 0 THEN NoWalk ELSE Then(f[i - 1], one[i])

(* Such a walk exists. *)
LEMMA WalksExist ==
    ASSUME NEW N \in Nat, NEW one \in [1 .. N -> Walked]
    PROVE  \E f \in [0 .. N -> Walked] : Walks(f, N, one)
<1> DEFINE step == [y \in (0 .. N) \X Walked |->
                      IF y[1] = 0 THEN NoWalk ELSE Then(y[2], one[y[1]])]
<1>1. step \in [(0 .. N) \X Walked -> Walked]
  <2>1. ASSUME NEW i \in 0 .. N, i # 0, NEW w \in Walked PROVE Then(w, one[i]) \in Walked
    <3>1. one[i] \in Walked
      BY <2>1
    <3> QED BY <3>1, WalksAreTyped
  <2> QED BY <2>1, WalksAreTyped
<1>2. NoWalk \in Walked
  BY WalksAreTyped
<1>3. PICK f \in [0 .. N -> Walked] : Carries(f, N, NoWalk, step)
  <2> HIDE DEF step
  <2> QED BY ONLY <1>1, <1>2, N \in Nat, FoldExists
<1>4. ASSUME NEW i \in 0 .. N PROVE f[i] = IF i = 0 THEN NoWalk ELSE Then(f[i - 1], one[i])
  <2>1. CASE i = 0
    BY <1>3, <2>1 DEF Carries
  <2>2. CASE i # 0
    <3>1. i - 1 \in 0 .. N
      BY <2>2
    <3>2. f[i - 1] \in Walked
      BY <3>1
    <3>3. f[i] = step[<<i, f[i - 1]>>]
      BY <1>3, <2>2 DEF Carries
    <3>4. step[<<i, f[i - 1]>>] = Then(f[i - 1], one[i])
      BY <2>2, <3>2
    <3> QED BY <2>2, <3>3, <3>4
  <2> QED BY <2>1, <2>2
<1> QED BY <1>4 DEF Walks

(* It met no error exactly if no part did, and then recorded what each     *)
(* part recorded.                                                          *)
LEMMA WalksRecord ==
    ASSUME NEW N \in Nat, NEW one \in [1 .. N -> Walked], NEW f, Walks(f, N, one)
    PROVE  /\ f[N] \in Walked
           /\ f[N].ok => \A i \in 1 .. N : one[i].ok
           /\ f[N].ok => \A loc : loc \in Members(f[N].locs)
                                     <=> \E i \in 1 .. N : loc \in Members(one[i].locs)
<1> DEFINE Good(k) == /\ f[k] \in Walked
                      /\ f[k].ok => \A i \in 1 .. k : one[i].ok
                      /\ f[k].ok => \A loc : loc \in Members(f[k].locs)
                                       <=> \E i \in 1 .. k : loc \in Members(one[i].locs)
           S == {k \in 0 .. N : Good(k)}
<1>1. 0 \in S
  <2>1. f[0] = NoWalk
    BY DEF Walks
  <2>2. f[0].locs = <<>> /\ f[0] \in Walked
    BY <2>1, WalksAreTyped DEF NoWalk
  <2>3. Members(<<>>) = {}
    BY DEF Members
  <2>4. Good(0)
    BY <2>2, <2>3
  <2> HIDE DEF Good
  <2> QED BY <2>4
<1>2. ASSUME NEW k \in 1 .. N, k - 1 \in S PROVE k \in S
  <2> DEFINE v == f[k - 1]
             w == one[k]
             u == f[k]
  <2>1. Good(k - 1)
    <3> HIDE DEF Good
    <3> QED BY <1>2
  <2>2. u = Then(v, w) /\ v \in Walked /\ w \in Walked /\ k \in 0 .. N
    BY <2>1 DEF Walks
  <2>3. /\ v.ok => \A i \in 1 .. k - 1 : one[i].ok
        /\ v.ok => \A loc : loc \in Members(v.locs)
                                       <=> \E i \in 1 .. k - 1 : loc \in Members(one[i].locs)
    BY <2>1
  <2>4. \A i \in 1 .. k : i = k \/ i \in 1 .. k - 1
    OBVIOUS
  <2>4a. \A i \in 1 .. k - 1 : i \in 1 .. k
    OBVIOUS
  <2>4b. k \in 1 .. k
    OBVIOUS
  <2> HIDE DEF u, v
  <2>5. u \in Walked
    BY <2>2, WalksAreTyped
  <2>6. ASSUME u.ok PROVE v.ok /\ w.ok /\ Members(u.locs) = Members(v.locs) \cup Members(w.locs)
    <3>1. v.ok
      BY <2>2, <2>6 DEF Then
    <3>2. u = [locs |-> v.locs \o w.locs, ok |-> w.ok]
      BY <2>2, <3>1 DEF Then
    <3>3. u.ok = w.ok /\ u.locs = v.locs \o w.locs
      BY <3>2
    <3>4. v.locs \in Seq(Nat) /\ w.locs \in Seq(Nat)
      BY <2>2 DEF Walked
    <3>5. Members(v.locs \o w.locs) = Members(v.locs) \cup Members(w.locs)
      BY <3>4, JoinedMembers
    <3>6. Members(u.locs) = Members(v.locs) \cup Members(w.locs)
      BY <3>3, <3>5
    <3> QED BY <2>6, <3>1, <3>3, <3>6
  <2>7. ASSUME u.ok PROVE \A i \in 1 .. k : one[i].ok
    BY <2>3, <2>4, <2>6, <2>7 DEF w
  <2>8. ASSUME u.ok, NEW loc
        PROVE  loc \in Members(u.locs) <=> \E i \in 1 .. k : loc \in Members(one[i].locs)
    <3>1. loc \in Members(u.locs) <=> loc \in Members(v.locs) \/ loc \in Members(w.locs)
      BY <2>6, <2>8
    <3>2. loc \in Members(v.locs) <=> \E i \in 1 .. k - 1 : loc \in Members(one[i].locs)
      BY <2>3, <2>6, <2>8
    <3>3. ASSUME NEW i \in 1 .. k, loc \in Members(one[i].locs) PROVE loc \in Members(u.locs)
      <4>1. CASE i = k
        BY <3>1, <3>3, <4>1 DEF w
      <4>2. CASE i \in 1 .. k - 1
        BY <3>1, <3>2, <3>3, <4>2
      <4> QED BY <2>4, <4>1, <4>2
    <3>4. ASSUME loc \in Members(u.locs) PROVE \E i \in 1 .. k : loc \in Members(one[i].locs)
      <4>1. CASE loc \in Members(w.locs)
        BY <2>4b, <4>1 DEF w
      <4>2. CASE loc \in Members(v.locs)
        BY <2>4a, <3>2, <4>2
      <4> QED BY <3>1, <3>4, <4>1, <4>2
    <3> QED BY <3>3, <3>4
  <2>9. Good(k)
    BY <2>5, <2>7, <2>8 DEF u
  <2> HIDE DEF Good
  <2> QED BY <2>2, <2>9
<1>3. \A k \in 0 .. N : k \in S
  <2> HIDE DEF S
  <2> QED BY ONLY <1>1, <1>2, N \in Nat, CountInduction
<1>4. N \in 0 .. N
  OBVIOUS
<1>5. Good(N)
  <2> HIDE DEF Good
  <2> QED BY <1>3, <1>4
<1> QED BY <1>5

(* What the recorded walk of a chain says of the walker's answers: where a *)
(* location was recorded it finds a fixup, elsewhere nothing.              *)
Recorded(im, st, pcs, cur, R) ==
    R.ok =>
      /\ \A t \in Nat :
            /\ pcs + t \in Members(R.locs) => checkChainForOffset(im, st, pcs, cur, t).kind = "fixup"
            /\ pcs + t \notin Members(R.locs) => checkChainForOffset(im, st, pcs, cur, t) = None
      /\ \A loc \in Members(R.locs) :
            loc - pcs \in 0 .. st.pageSize /\ checkedChainFixupLocation(st, pcs, loc - pcs)

(* One chain. *)
LEMMA ChainRecorded ==
    ASSUME NEW im, IsImage(im), NEW st, st.format \in Formats, st.pageSize \in Nat,
           NEW pcs \in Nat, stride(st.format) # 0
    PROVE  \A cur \in 0 .. st.pageSize :
              Recorded(im, st, pcs, cur, walkDcFixupChain(im, st, pcs, cur))
<1> DEFINE ps == st.pageSize
           D == 0 .. ps
           m == [c \in D |-> ps - c]
           W(c) == walkDcFixupChain(im, st, pcs, c)
           C(c, t) == checkChainForOffset(im, st, pcs, c, t)
           S == {c \in D : Recorded(im, st, pcs, c, W(c))}
<1>1. ps \in Nat
  OBVIOUS
<1>2. m \in [D -> 0 .. ps]
  BY <1>1
<1>3. ASSUME NEW c \in D, \A d \in D : m[d] < m[c] => d \in S
      PROVE  Recorded(im, st, pcs, c, W(c))
  <2> DEFINE h == Hop(im, st, pcs, c)
             R == W(c)
             raw == im.raw[pcs + c]
  <2>1. R = IF ~LinkIsThere(im, st, pcs, c) \/ ~recordFixup(raw) THEN BadWalk
            ELSE IF Ends(im, st, pcs, c) THEN LastLocation(pcs + c)
            ELSE WithLocation(pcs + c, W(h))
    BY RecordingUnfolds
  <2>2. ASSUME NEW t, LinkIsThere(im, st, pcs, c)
        PROVE  C(c, t) = IF c = t THEN decodeFixup(raw)
                         ELSE IF Ends(im, st, pcs, c) THEN None ELSE C(h, t)
    BY <2>2, WalkerUnfolds DEF LinkIsThere
  <2>3. recordFixup(raw) => decodeFixup(raw).kind = "fixup"
    BY DEF recordFixup, decodeFixup, Found
  <2>4. c \in Nat /\ pcs + c \in Nat /\ (pcs + c) - pcs = c
    OBVIOUS
  <2> HIDE DEF R, raw
  <2>5. CASE ~LinkIsThere(im, st, pcs, c) \/ ~recordFixup(raw)
    <3>1. ~R.ok
      BY <2>1, <2>5 DEF BadWalk
    <3>2. Recorded(im, st, pcs, c, R)
      BY <3>1 DEF Recorded
    <3> QED BY <3>2 DEF R
  <2>6. CASE /\ LinkIsThere(im, st, pcs, c) /\ recordFixup(raw)
             /\ Ends(im, st, pcs, c)
    <3>1. R.locs = <<pcs + c>>
      BY <2>1, <2>6 DEF LastLocation
    <3>2. Members(R.locs) = {pcs + c}
      BY <3>1 DEF Members
    <3>3. ASSUME NEW t \in Nat
          PROVE  /\ pcs + t \in Members(R.locs) => C(c, t).kind = "fixup"
                 /\ pcs + t \notin Members(R.locs) => C(c, t) = None
      <4>1. pcs + t = pcs + c <=> t = c
        BY <2>4
      <4>2. C(c, t) = IF c = t THEN decodeFixup(raw) ELSE None
        BY <2>2, <2>6
      <4> HIDE DEF C
      <4> QED BY <2>3, <2>6, <3>2, <4>1, <4>2
    <3>4. \A loc \in Members(R.locs) :
             loc - pcs \in 0 .. st.pageSize /\ checkedChainFixupLocation(st, pcs, loc - pcs)
      BY <2>4, <2>6, <3>2 DEF LinkIsThere
    <3>5. Recorded(im, st, pcs, c, R)
      BY <3>3, <3>4 DEF Recorded
    <3> QED BY <3>5 DEF R
  <2>7. CASE /\ LinkIsThere(im, st, pcs, c) /\ recordFixup(raw)
             /\ ~Ends(im, st, pcs, c)
    <3> DEFINE w == W(h)
    <3>1. h \in D /\ h > c /\ m[h] < m[c] /\ h \in Nat
      BY <2>7, ChainsGoForward
    <3>2. Recorded(im, st, pcs, h, w)
      BY <1>3, <3>1
    <3>3. w \in Walked
      BY <3>1, RecordingUnfolds
    <3>4. R = WithLocation(pcs + c, w)
      BY <2>1, <2>7
    <3> HIDE DEF w, h, D, m, S
    <3>5. R.locs = <<pcs + c>> \o w.locs /\ R.ok = w.ok
      BY <3>4 DEF WithLocation
    <3>6. Members(R.locs) = {pcs + c} \cup Members(w.locs)
      <4> DEFINE one == <<pcs + c>>
                 rest == w.locs
      <4>1. one \in Seq(Nat) /\ rest \in Seq(Nat)
        BY <2>4, <3>3 DEF Walked
      <4>2. Members(one) = {pcs + c}
        BY OneMember
      <4>3. R.locs = one \o rest
        BY <3>5
      <4> HIDE DEF one, rest
      <4>4. Members(one \o rest) = Members(one) \cup Members(rest)
        BY ONLY <4>1, JoinedMembers
      <4> QED BY <4>2, <4>3, <4>4 DEF rest
    <3> SUFFICES ASSUME R.ok
                 PROVE  /\ \A t \in Nat :
                            /\ pcs + t \in Members(R.locs) => C(c, t).kind = "fixup"
                            /\ pcs + t \notin Members(R.locs) => C(c, t) = None
                        /\ \A loc \in Members(R.locs) :
                            /\ loc - pcs \in 0 .. st.pageSize
                            /\ checkedChainFixupLocation(st, pcs, loc - pcs)
      BY DEF Recorded, R
    <3>7. w.ok
      BY <3>5
    <3>8. ASSUME NEW t \in Nat
          PROVE  /\ pcs + t \in Members(w.locs) => C(h, t).kind = "fixup"
                 /\ pcs + t \notin Members(w.locs) => C(h, t) = None
      BY <3>2, <3>7 DEF Recorded
    <3>9. ASSUME NEW t \in Nat
          PROVE  /\ pcs + t \in Members(R.locs) => C(c, t).kind = "fixup"
                 /\ pcs + t \notin Members(R.locs) => C(c, t) = None
      <4>1. pcs + t = pcs + c <=> t = c
        BY <2>4
      <4>2. C(c, t) = IF c = t THEN decodeFixup(raw) ELSE C(h, t)
        BY <2>2, <2>7
      <4> HIDE DEF C
      <4> QED BY <2>3, <2>7, <3>6, <3>8, <4>1, <4>2
    <3>10. \A loc \in Members(w.locs) :
              loc - pcs \in 0 .. st.pageSize /\ checkedChainFixupLocation(st, pcs, loc - pcs)
      BY <3>2, <3>7 DEF Recorded
    <3>11. /\ (pcs + c) - pcs \in 0 .. st.pageSize
           /\ checkedChainFixupLocation(st, pcs, (pcs + c) - pcs)
      BY <2>4, <2>7 DEF LinkIsThere, D
    <3> QED BY <3>6, <3>9, <3>10, <3>11
  <2> QED BY <2>5, <2>6, <2>7
<1>4. \A c \in D : (\A d \in D : m[d] < m[c] => d \in S) => c \in S
  BY <1>3
<1>5. \A c \in D : c \in S
  <2> HIDE DEF S, D, m, ps
  <2> QED
    BY ONLY <1>1, <1>2, <1>4, MeasureInduction
<1> QED
  BY <1>5

PageStartWords == [tag: {"none", "single", "multi"}, at: Nat]
PageAt(st, page) == st.segOffset + page * st.pageSize

(* What the recorded walk of a page says of the lookups in it.             *)
PageSound(im, st, at, pcs, R) ==
    R.ok =>
      /\ chainStartsForPage(st, at).ok
      /\ at.tag # "none" => stride(st.format) # 0
      /\ \A t \in Nat :
            /\ pcs + t \in Members(R.locs)
                  => walkerFixupInPage(im, st, at, pcs, t).kind = "fixup"
            /\ pcs + t \notin Members(R.locs) => walkerFixupInPage(im, st, at, pcs, t) = None
      /\ \A loc \in Members(R.locs) :
            /\ loc - pcs \in 0 .. st.pageSize /\ checkedChainFixupLocation(st, pcs, loc - pcs)
            /\ at.tag # "none"

(* The walker's answer for a page whose chains all answer with a fixup or  *)
(* with nothing.                                                           *)
LEMMA WalkerOfGoodChains ==
    ASSUME NEW im, NEW st, NEW at, NEW pcs, NEW t, chainStartsForPage(st, at).ok,
           NEW N \in Nat, DOMAIN chainStartsForPage(st, at).starts = 1 .. N,
           NEW ans, \A i \in 1 .. N :
              ans[i] = checkChainForOffset(im, st, pcs, chainStartsForPage(st, at).starts[i], t),
           \A i \in 1 .. N : ans[i] = None \/ ans[i].kind = "fixup"
    PROVE  /\ (\E i \in 1 .. N : ans[i].kind = "fixup")
                 => walkerFixupInPage(im, st, at, pcs, t).kind = "fixup"
           /\ (\A i \in 1 .. N : ans[i] = None) => walkerFixupInPage(im, st, at, pcs, t) = None
<1> DEFINE cs == chainStartsForPage(st, at)
           reply(i) == checkChainForOffset(im, st, pcs, cs.starts[i], t)
           F == {i \in DOMAIN cs.starts : reply(i) # None}
           W == walkerFixupInPage(im, st, at, pcs, t)
<1>1. W = IF F = {} THEN None ELSE reply(Min(F))
  BY DEF walkerFixupInPage
<1>2. \A i \in 1 .. N : ans[i] = reply(i)
  OBVIOUS
<1>3. F \subseteq 1 .. N /\ F \subseteq Nat
  OBVIOUS
<1>4. ASSUME F # {} PROVE Min(F) \in F
  <2> HIDE DEF F
  <2>1. PICK x \in F : \A y \in F : x <= y
    BY <1>3, <1>4, LeastNatural
  <2> QED BY <2>1 DEF Min
<1> HIDE DEF W
<1>5. ASSUME NEW i \in 1 .. N, ans[i].kind = "fixup" PROVE W.kind = "fixup"
  <2>1. ans[i] # None
    BY <1>5 DEF None
  <2>2. i \in F
    BY <1>2, <2>1
  <2>3. Min(F) \in F /\ Min(F) \in 1 .. N
    BY <1>3, <1>4, <2>2
  <2> DEFINE x == Min(F)
  <2>4. reply(x) # None
    BY <2>3
  <2> HIDE DEF x, F, reply
  <2>5. W = reply(x)
    BY <1>1, <2>2 DEF x
  <2> QED BY <1>2, <2>3, <2>4, <2>5 DEF x
<1>6. ASSUME \A i \in 1 .. N : ans[i] = None PROVE W = None
  <2>1. F = {}
    BY <1>2, <1>3, <1>6
  <2> HIDE DEF F
  <2> QED BY <1>1, <2>1
<1> QED
  BY <1>5, <1>6 DEF W

(* One page. *)
LEMMA PageRecorded ==
    ASSUME NEW im, IsImage(im), NEW st, IsStarts(st), NEW page \in Nat,
           page + 1 \in DOMAIN st.pageStarts
    PROVE  /\ walkPage(im, st, page) \in Walked
           /\ PageSound(im, st, st.pageStarts[page + 1], PageAt(st, page),
                        walkPage(im, st, page))
<1> DEFINE at == st.pageStarts[page + 1]
           pcs == PageAt(st, page)
           ps == st.pageSize
           cs == chainStartsForPage(st, at)
           starts == cs.starts
           N == Len(starts)
           R == walkPage(im, st, page)
           one == [i \in 1 .. N |-> walkDcFixupChain(im, st, pcs, starts[i])]
           Code(w, i) == IF i = 0 THEN [locs |-> <<>>, ok |-> TRUE]
                         ELSE Then(w[i - 1], walkDcFixupChain(im, st, pcs, starts[i]))
           Walk == CHOOSE w : w = [i \in 0 .. N |-> Code(w, i)]
<1>1. R = IF cs.ok THEN Walk[N] ELSE BadWalk
  BY DEF walkPage, BadWalk, PageAt
<1>2. pcs \in Nat
  <2> DEFINE o == st.segOffset
  <2>1. o \in Nat /\ ps \in Nat /\ page \in Nat
    BY DEF IsStarts
  <2> HIDE DEF o, ps
  <2>2. o + page * ps \in Nat
    BY <2>1
  <2> QED BY <2>2 DEF PageAt, o, ps
<1>3. at \in PageStartWords
  <2> DEFINE ats == st.pageStarts
  <2>1. ats \in Seq(PageStartWords)
    BY DEF IsStarts, PageStartWords
  <2>2. page + 1 \in DOMAIN ats
    OBVIOUS
  <2> HIDE DEF ats
  <2>3. ats[page + 1] \in PageStartWords
    BY <2>1, <2>2
  <2> QED BY <2>3 DEF ats
<1> HIDE DEF pcs, at
<1>4. CASE ~cs.ok
  <2> HIDE DEF cs, Walk, R
  <2>1. R = BadWalk
    BY <1>1, <1>4
  <2>2. R \in Walked /\ ~R.ok
    BY <2>1, WalksAreTyped DEF BadWalk
  <2>3. PageSound(im, st, at, pcs, R)
    BY <2>2 DEF PageSound
  <2> QED BY <2>2, <2>3 DEF R, at, pcs
<1>5. CASE cs.ok
  <2>1. starts \in Seq(0 .. ps) /\ (at.tag # "none" => starts # <<>>)
        /\ (at.tag = "none" => starts = <<>>)
    <3>1. CASE at.tag = "none"
      <4>1. cs = [ok |-> TRUE, starts |-> <<>>]
        BY <3>1 DEF chainStartsForPage
      <4>2. starts = <<>>
        BY <4>1
      <4>3. <<>> \in Seq(0 .. ps)
        OBVIOUS
      <4> HIDE DEF starts
      <4> QED BY <3>1, <4>2, <4>3
    <3>2. CASE at.tag # "none"
      BY <1>3, <1>5, <3>2, ChainStartsInPage DEF PageStartWords
    <3> QED BY <3>1, <3>2
  <2> HIDE DEF cs, ps
  <2>2. N \in Nat /\ DOMAIN starts = 1 .. N /\ \A i \in 1 .. N : starts[i] \in 0 .. ps
    <3> DEFINE P == 0 .. ps
    <3>1. starts \in Seq(P)
      BY <2>1
    <3> HIDE DEF starts, P
    <3>2. Len(starts) \in Nat /\ DOMAIN starts = 1 .. Len(starts)
      BY ONLY <3>1
    <3>3. \A i \in 1 .. Len(starts) : starts[i] \in P
      BY ONLY <3>1
    <3> QED BY <3>2, <3>3 DEF P
  <2>3. st.format \in Formats /\ st.pageSize \in Nat
    BY DEF IsStarts
  <2>4. ASSUME stride(st.format) = 0, NEW i \in 1 .. N PROVE one[i] = BadWalk
    BY <2>4 DEF walkDcFixupChain, BadWalk
  <2>5. one \in [1 .. N -> Walked]
    <3> SUFFICES ASSUME NEW i \in 1 .. N PROVE walkDcFixupChain(im, st, pcs, starts[i]) \in Walked
      OBVIOUS
    <3>1. CASE stride(st.format) = 0
      BY <2>4, <3>1, WalksAreTyped
    <3>2. CASE stride(st.format) # 0
      BY <1>2, <2>2, <2>3, <3>2, RecordingUnfolds DEF ps
    <3> QED BY <3>1, <3>2
  <2>6. Walks(Walk, N, one)
    <3>1. PICK f \in [0 .. N -> Walked] : Walks(f, N, one)
      <4> HIDE DEF one, N
      <4> QED BY <2>2, <2>5, WalksExist
    <3>2. ASSUME NEW w PROVE \A i \in 0 .. N : Code(w, i)
                                = IF i = 0 THEN NoWalk ELSE Then(w[i - 1], one[i])
      <4> SUFFICES ASSUME NEW i \in 0 .. N
                   PROVE  Code(w, i) = IF i = 0 THEN NoWalk ELSE Then(w[i - 1], one[i])
        OBVIOUS
      <4>1. CASE i = 0
        BY <4>1 DEF NoWalk
      <4>2. CASE i # 0
        <5>1. i \in 1 .. N
          BY <2>2, <4>2
        <5>2. one[i] = walkDcFixupChain(im, st, pcs, starts[i])
          BY <5>1
        <5> HIDE DEF one
        <5> QED BY <4>2, <5>2
      <4> QED BY <4>1, <4>2
    <3> HIDE DEF Code, one, N
    <3>3. f = [i \in 0 .. N |-> Code(f, i)]
      BY <3>1, <3>2 DEF Walks
    <3>4. Walk = [i \in 0 .. N |-> Code(Walk, i)]
      BY <3>3
    <3> HIDE DEF Walk
    <3> QED BY <3>2, <3>4 DEF Walks
  <2> HIDE DEF Walk, R
  <2>7. R = Walk[N]
    BY <1>1, <1>5
  <2>8. /\ R \in Walked
        /\ R.ok => \A i \in 1 .. N : one[i].ok
        /\ R.ok => \A loc : loc \in Members(R.locs)
                               <=> \E i \in 1 .. N : loc \in Members(one[i].locs)
    <3> HIDE DEF one, N
    <3>1. /\ Walk[N] \in Walked
          /\ Walk[N].ok => \A i \in 1 .. N : one[i].ok
          /\ Walk[N].ok => \A loc : loc \in Members(Walk[N].locs)
                                 <=> \E i \in 1 .. N : loc \in Members(one[i].locs)
      BY <2>2, <2>5, <2>6, WalksRecord
    <3> QED BY <2>7, <3>1
  <2>9. ASSUME R.ok
        PROVE  /\ chainStartsForPage(st, at).ok
               /\ at.tag # "none" => stride(st.format) # 0
               /\ \A t \in Nat :
                     /\ pcs + t \in Members(R.locs)
                           => walkerFixupInPage(im, st, at, pcs, t).kind = "fixup"
                     /\ pcs + t \notin Members(R.locs)
                           => walkerFixupInPage(im, st, at, pcs, t) = None
               /\ \A loc \in Members(R.locs) :
                     /\ loc - pcs \in 0 .. st.pageSize
                     /\ checkedChainFixupLocation(st, pcs, loc - pcs)
                     /\ at.tag # "none"
    <3>1. at.tag # "none" => stride(st.format) # 0
      <4> SUFFICES ASSUME at.tag # "none", stride(st.format) = 0 PROVE FALSE
        OBVIOUS
      <4>1. 1 \in 1 .. N
        <5> HIDE DEF starts
        <5> QED BY <2>1, <2>2
      <4>2. one[1] = BadWalk /\ one[1].ok
        BY <2>4, <2>8, <2>9, <4>1
      <4> HIDE DEF one
      <4> QED BY <4>2 DEF BadWalk
    <3>1a. ASSUME NEW i \in 1 .. N PROVE at.tag # "none"
      <4> SUFFICES ASSUME at.tag = "none" PROVE FALSE
        OBVIOUS
      <4>1. starts = <<>>
        BY <2>1
      <4>2. Len(starts) = 0
        <5> HIDE DEF starts
        <5> QED BY <4>1
      <4> HIDE DEF starts
      <4> QED BY <3>1a, <4>2
    <3>2. ASSUME NEW i \in 1 .. N
          PROVE  Recorded(im, st, pcs, starts[i], one[i]) /\ one[i].ok
      <4>1. stride(st.format) # 0
        BY <3>1, <3>1a
      <4>2. Recorded(im, st, pcs, starts[i], walkDcFixupChain(im, st, pcs, starts[i]))
        BY <1>2, <2>2, <2>3, <4>1, ChainRecorded DEF ps
      <4> QED BY <2>8, <2>9, <4>2
    <3>3. ASSUME NEW t \in Nat
          PROVE  /\ pcs + t \in Members(R.locs)
                       => walkerFixupInPage(im, st, at, pcs, t).kind = "fixup"
                 /\ pcs + t \notin Members(R.locs)
                       => walkerFixupInPage(im, st, at, pcs, t) = None
      <4> DEFINE ans == [i \in 1 .. N |-> checkChainForOffset(im, st, pcs, starts[i], t)]
      <4>1. ASSUME NEW i \in 1 .. N
            PROVE  /\ pcs + t \in Members(one[i].locs) => ans[i].kind = "fixup"
                   /\ pcs + t \notin Members(one[i].locs) => ans[i] = None
        <5>1. ans[i] = checkChainForOffset(im, st, pcs, starts[i], t)
          OBVIOUS
        <5> HIDE DEF one, ans
        <5> QED BY <3>2, <5>1 DEF Recorded
      <4>2. \A i \in 1 .. N :
              ans[i] = checkChainForOffset(im, st, pcs, chainStartsForPage(st, at).starts[i], t)
        BY DEF cs
      <4>3. DOMAIN chainStartsForPage(st, at).starts = 1 .. N
        BY <2>2 DEF cs
      <4>4. chainStartsForPage(st, at).ok
        BY <1>5 DEF cs
      <4> HIDE DEF one, ans, N, starts
      <4>5. \A i \in 1 .. N : ans[i] = None \/ ans[i].kind = "fixup"
        BY <4>1
      <4>6. /\ (\E i \in 1 .. N : ans[i].kind = "fixup")
                 => walkerFixupInPage(im, st, at, pcs, t).kind = "fixup"
            /\ (\A i \in 1 .. N : ans[i] = None) => walkerFixupInPage(im, st, at, pcs, t) = None
        BY <2>2, <4>2, <4>3, <4>4, <4>5, WalkerOfGoodChains
      <4> QED BY <2>8, <2>9, <4>1, <4>6
    <3>4. ASSUME NEW loc \in Members(R.locs)
          PROVE  /\ loc - pcs \in 0 .. st.pageSize
                 /\ checkedChainFixupLocation(st, pcs, loc - pcs)
                 /\ at.tag # "none"
      <4>1. PICK i \in 1 .. N : loc \in Members(one[i].locs)
        BY <2>8, <2>9
      <4>2. at.tag # "none"
        BY <3>1a, <4>1
      <4> HIDE DEF one
      <4> QED BY <3>2, <4>1, <4>2 DEF Recorded
    <3>5. chainStartsForPage(st, at).ok
      BY <1>5 DEF cs
    <3> QED BY <3>1, <3>3, <3>4, <3>5
  <2>10. PageSound(im, st, at, pcs, R)
    BY <2>9 DEF PageSound
  <2> QED BY <2>8, <2>10 DEF R, at, pcs
<1> QED
  BY <1>4, <1>5

(* What the recorded walk of a segment says of its pages. *)
SegmentSound(im, st, R) ==
    R.ok =>
      /\ \A page \in 0 .. st.pageCount - 1 : walkPage(im, st, page).ok
      /\ \A loc : loc \in Members(R.locs)
                     <=> \E page \in 0 .. st.pageCount - 1 :
                            loc \in Members(walkPage(im, st, page).locs)

(* One segment. *)
LEMMA SegmentRecorded ==
    ASSUME NEW im, IsImage(im), NEW st, IsStarts(st), st.pageStarts # <<>>, HasItsPages(st)
    PROVE  walkSegment(im, st) \in Walked /\ SegmentSound(im, st, walkSegment(im, st))
<1> DEFINE N == st.pageCount
           one == [n \in 1 .. N |-> walkPage(im, st, n - 1)]
           R == walkSegment(im, st)
           Code(w, n) == IF n = 0 THEN [locs |-> <<>>, ok |-> TRUE]
                         ELSE Then(w[n - 1], walkPage(im, st, n - 1))
           Walk == CHOOSE w : w = [n \in 0 .. N |-> Code(w, n)]
<1>1. R = Walk[N]
  BY DEF walkSegment
<1>2. N \in Nat
  BY DEF IsStarts
<1>3. ASSUME NEW n \in 1 .. N PROVE n - 1 \in Nat /\ (n - 1) + 1 \in DOMAIN st.pageStarts
  <2> DEFINE ats == st.pageStarts
  <2>1. ats \in Seq(PageStartWords) /\ Len(ats) >= N
    BY DEF IsStarts, PageStartWords, HasItsPages
  <2> HIDE DEF ats, N
  <2>2. n - 1 \in Nat /\ (n - 1) + 1 \in DOMAIN ats
    BY <1>2, <2>1
  <2> QED BY <2>2 DEF ats
<1>4. one \in [1 .. N -> Walked]
  <2> SUFFICES ASSUME NEW n \in 1 .. N PROVE walkPage(im, st, n - 1) \in Walked
    OBVIOUS
  <2> QED BY <1>3, PageRecorded
<1>5. Walks(Walk, N, one)
  <2>1. PICK f \in [0 .. N -> Walked] : Walks(f, N, one)
    <3> HIDE DEF one, N
    <3> QED BY <1>2, <1>4, WalksExist
  <2>2. ASSUME NEW w PROVE \A n \in 0 .. N : Code(w, n)
                              = IF n = 0 THEN NoWalk ELSE Then(w[n - 1], one[n])
    <3> SUFFICES ASSUME NEW n \in 0 .. N
                 PROVE  Code(w, n) = IF n = 0 THEN NoWalk ELSE Then(w[n - 1], one[n])
      OBVIOUS
    <3>1. CASE n = 0
      BY <3>1 DEF NoWalk
    <3>2. CASE n # 0
      <4>1. n \in 1 .. N
        BY <1>2, <3>2
      <4>2. one[n] = walkPage(im, st, n - 1)
        BY <4>1
      <4> HIDE DEF one
      <4> QED BY <3>2, <4>2
    <3> QED BY <3>1, <3>2
  <2> HIDE DEF Code, one, N
  <2>3. f = [n \in 0 .. N |-> Code(f, n)]
    BY <2>1, <2>2 DEF Walks
  <2>4. Walk = [n \in 0 .. N |-> Code(Walk, n)]
    BY <2>3
  <2> HIDE DEF Walk
  <2> QED BY <2>2, <2>4 DEF Walks
<1> HIDE DEF Walk, R
<1>6. /\ R \in Walked
      /\ R.ok => \A i \in 1 .. N : one[i].ok
      /\ R.ok => \A loc : loc \in Members(R.locs)
                             <=> \E i \in 1 .. N : loc \in Members(one[i].locs)
  <2> HIDE DEF one, N
  <2>1. /\ Walk[N] \in Walked
        /\ Walk[N].ok => \A i \in 1 .. N : one[i].ok
        /\ Walk[N].ok => \A loc : loc \in Members(Walk[N].locs)
                               <=> \E i \in 1 .. N : loc \in Members(one[i].locs)
    BY <1>2, <1>4, <1>5, WalksRecord
  <2> QED BY <1>1, <2>1
<1>7. \A page \in 0 .. N - 1 : page + 1 \in 1 .. N /\ one[page + 1] = walkPage(im, st, page)
  <2> SUFFICES ASSUME NEW page \in 0 .. N - 1
               PROVE  page + 1 \in 1 .. N /\ one[page + 1] = walkPage(im, st, page)
    OBVIOUS
  <2>1. page + 1 \in 1 .. N /\ (page + 1) - 1 = page
    BY <1>2
  <2> QED BY <2>1
<1>8. \A i \in 1 .. N : i - 1 \in 0 .. N - 1 /\ one[i] = walkPage(im, st, i - 1)
  BY <1>2
<1> HIDE DEF one
<1>9. R.ok => \A page \in 0 .. N - 1 : walkPage(im, st, page).ok
  BY <1>6, <1>7
<1>10. ASSUME R.ok, NEW loc
       PROVE  loc \in Members(R.locs)
                <=> \E page \in 0 .. N - 1 : loc \in Members(walkPage(im, st, page).locs)
  <2>1. loc \in Members(R.locs) <=> \E i \in 1 .. N : loc \in Members(one[i].locs)
    BY <1>6, <1>10
  <2>2. ASSUME NEW i \in 1 .. N, loc \in Members(one[i].locs)
        PROVE  \E page \in 0 .. N - 1 : loc \in Members(walkPage(im, st, page).locs)
    BY <1>8, <2>2
  <2>3. ASSUME NEW page \in 0 .. N - 1, loc \in Members(walkPage(im, st, page).locs)
        PROVE  \E i \in 1 .. N : loc \in Members(one[i].locs)
    BY <1>7, <2>3
  <2> QED BY <2>1, <2>2, <2>3
<1>11. SegmentSound(im, st, R)
  BY <1>9, <1>10 DEF SegmentSound
<1> QED
  BY <1>6, <1>11 DEF R

(* The Starts that a successful Parse saw are still recorded, and the      *)
(* fixups are those of one walk of them.                                   *)
WalkOf(im, start) == IF Skipped(start) THEN NoWalk ELSE walkSegment(im, start)

ParsedOnce ==
    /\ image \in Images
    /\ parsedFrom \in StartsSets
    /\ chainsParsed =>
          /\ \A i \in DOMAIN parsedFrom : WalkOf(image, parsedFrom[i]).ok
          /\ fixups = [i \in DOMAIN parsedFrom |-> WalkOf(image, parsedFrom[i]).locs]

(* Records of a table of starts are starts. *)
LEMMA TablesHoldStarts ==
    ASSUME NEW starts \in StartsSets, NEW i \in DOMAIN starts
    PROVE  IsStarts(starts[i]) /\ HasItsPages(starts[i])
<1>1. starts \in Seq(StartsRecords) /\ HasItsPages(starts[i])
  BY StartsAssumption
<1>2. starts[i] \in StartsRecords
  BY <1>1
<1> QED BY <1>1, <1>2 DEF StartsRecords, IsStarts

(* The walk of a segment of a table. *)
LEMMA WalkOfIsWalked ==
    ASSUME image \in Images, NEW starts \in StartsSets, NEW i \in DOMAIN starts
    PROVE  WalkOf(image, starts[i]) \in Walked
<1>1. IsImage(image)
  BY ImagesAssumption DEF IsImage
<1>2. CASE Skipped(starts[i])
  BY <1>2, WalksAreTyped DEF WalkOf
<1>3. CASE ~Skipped(starts[i])
  <2>1. walkSegment(image, starts[i]) \in Walked
    BY <1>1, <1>3, TablesHoldStarts, SegmentRecorded DEF Skipped
  <2> QED BY <1>3, <2>1 DEF WalkOf
<1> QED BY <1>2, <1>3

(* Every step keeps the list of fixups that of one walk. *)
LEMMA ParsedOnceAlways == Spec => []ParsedOnce
<1>1. Init => ParsedOnce
  BY DEF Init, ParsedOnce
<1>2. ParsedOnce /\ SegmentsAreIndexed /\ [Next]_vars => ParsedOnce'
  <2> SUFFICES ASSUME ParsedOnce, SegmentsAreIndexed, [Next]_vars PROVE ParsedOnce'
    OBVIOUS
  <2>1. ASSUME UNCHANGED <<image, parseVars>> PROVE ParsedOnce'
    BY <2>1 DEF ParsedOnce, parseVars
  <2>2. CASE Lookups
    BY <2>1, <2>2 DEF Lookups, GetFixupAtOffset, storePage
  <2>3. CASE parseLocked
    <3>1. CASE chainsParsed
      BY <2>1, <2>3, <3>1 DEF parseLocked
    <3>2. CASE ~chainsParsed
      <4>1. /\ fixups' = [i \in DOMAIN Starts |->
                             IF AllBefore(i) THEN ClearFixups[i] \o SegmentWalk(i).locs
                             ELSE ClearFixups[i]]
            /\ chainsParsed' = \A i \in DOMAIN Starts : SegmentWalk(i).ok
            /\ parsedFrom' = Starts /\ image' = image
        BY <2>3, <3>2 DEF parseLocked
      <4>2. Starts \in StartsSets /\ image \in Images
        BY DEF SegmentsAreIndexed
      <4>3. \A i : SegmentWalk(i) = WalkOf(image, Starts[i])
        BY DEF SegmentWalk, WalkOf, NoWalk
      <4>4. ASSUME \A i \in DOMAIN Starts : SegmentWalk(i).ok
            PROVE  fixups' = [i \in DOMAIN Starts |-> WalkOf(image, Starts[i]).locs]
        <5>1. ASSUME NEW i \in DOMAIN Starts
              PROVE  (IF AllBefore(i) THEN ClearFixups[i] \o SegmentWalk(i).locs
                      ELSE ClearFixups[i]) = WalkOf(image, Starts[i]).locs
          <6>1. AllBefore(i)
            BY <4>4 DEF AllBefore
          <6>2. ClearFixups[i] = <<>>
            BY DEF ClearFixups, NoFixups
          <6> DEFINE l == WalkOf(image, Starts[i]).locs
          <6>3. l \in Seq(Nat)
            BY <4>2, WalkOfIsWalked DEF Walked
          <6>4. SegmentWalk(i).locs = l
            BY <4>3
          <6> HIDE DEF l
          <6>5. <<>> \o l = l
            BY <6>3
          <6>6. (IF AllBefore(i) THEN ClearFixups[i] \o SegmentWalk(i).locs
                 ELSE ClearFixups[i]) = l
            BY <6>1, <6>2, <6>4, <6>5
          <6> QED BY <6>6 DEF l
        <5> QED BY <4>1, <5>1
      <4>5. parsedFrom' \in StartsSets /\ image' \in Images
        BY <4>1, <4>2
      <4>6. ASSUME chainsParsed' PROVE \A i \in DOMAIN Starts : SegmentWalk(i).ok
        BY <4>1, <4>6
      <4> QED BY <4>1, <4>3, <4>4, <4>5, <4>6 DEF ParsedOnce
    <3> QED BY <3>1, <3>2
  <2>4. CASE EditStarts
    BY <2>1, <2>4 DEF EditStarts
  <2>5. CASE ResetSegmentIndex
    BY <2>1, <2>5 DEF ResetSegmentIndex
  <2>6. CASE UNCHANGED vars
    BY <2>1, <2>6 DEF vars
  <2> QED
    BY <2>2, <2>3, <2>4, <2>5, <2>6 DEF Next
<1> QED
  BY <1>1, <1>2, IndexedAlways, PTL DEF Spec

(* Once Parse has succeeded the fixups are those of exactly one walk of    *)
(* the Starts it saw, for every file and table, after any number of failed *)
(* attempts and edits between them.                                        *)
THEOREM ParsedListsAreOneWalk == Spec => []ParsedListIsOneWalk
<1>1. ParsedOnce => ParsedListIsOneWalk
  <2>1. \A i : SegmentWalk(i) = WalkOf(image, Starts[i])
    BY DEF SegmentWalk, WalkOf, NoWalk
  <2> QED BY <2>1 DEF ParsedOnce, ParsedListIsOneWalk
<1> QED BY <1>1, ParsedOnceAlways, PTL

(* Where a location lies in pages of a size. *)
LEMMA Quotient ==
    ASSUME NEW d \in Nat, NEW p \in Nat \ {0}, NEW n \in Nat, NEW c \in 0 .. p - 1,
           d = n * p + c
    PROVE  d \div p = n /\ d % p = c
<1> DEFINE q == d \div p
           r == d % p
<1>1. q \in Nat /\ r \in 0 .. p - 1 /\ d = q * p + r
  OBVIOUS
<1> HIDE DEF q, r
<1>2. ASSUME NEW a \in Nat, NEW b \in Nat, a < b PROVE a * p + p <= b * p
  <2>1. PICK e \in Nat : b = a + 1 + e
    <3>1. b - a - 1 \in Nat /\ b = a + 1 + (b - a - 1)
      BY <1>2
    <3> QED BY <3>1
  <2>2. (a + 1 + e) * p = a * p + p + e * p
    OBVIOUS
  <2>3. e * p \in Nat
    OBVIOUS
  <2>4. a * p \in Nat
    OBVIOUS
  <2> DEFINE x == a * p
             y == e * p
             z == b * p
  <2>5. z = x + p + y
    BY <2>1, <2>2
  <2>6. x \in Nat /\ y \in Nat
    BY <2>3, <2>4
  <2> HIDE DEF x, y, z
  <2>7. x + p <= z
    BY <2>5, <2>6
  <2> QED BY <2>7 DEF x, z
<1>3. q * p \in Nat /\ n * p \in Nat
  BY <1>1
<1> DEFINE x == q * p
           y == n * p
<1>4. x \in Nat /\ y \in Nat /\ d = x + r /\ d = y + c
  BY <1>1, <1>3
<1>5. q < n => x + p <= y
  BY <1>1, <1>2
<1>6. n < q => y + p <= x
  BY <1>1, <1>2
<1>7. q = n => x = y
  OBVIOUS
<1> HIDE DEF x, y
<1>8. q = n
  BY <1>1, <1>4, <1>5, <1>6
<1>9. r = c
  BY <1>1, <1>4, <1>7, <1>8
<1> QED BY <1>8, <1>9 DEF q, r

(* A location below the end of n pages lies in one of them. *)
LEMMA PageBelow ==
    ASSUME NEW d \in Nat, NEW p \in Nat \ {0}, NEW n \in Nat, d < n * p
    PROVE  /\ d \div p \in 0 .. n - 1
           /\ d = (d \div p) * p + (d % p) /\ d % p \in 0 .. p - 1
<1> DEFINE q == d \div p
           r == d % p
<1>1. q \in Nat /\ r \in 0 .. p - 1 /\ d = q * p + r
  OBVIOUS
<1> HIDE DEF q, r
<1>2. ASSUME q >= n PROVE FALSE
  <2>1. PICK e \in Nat : q = n + e
    <3>1. q - n \in Nat /\ q = n + (q - n)
      BY <1>1, <1>2
    <3> QED BY <3>1
  <2>2. (n + e) * p = n * p + e * p /\ e * p \in Nat /\ n * p \in Nat
    OBVIOUS
  <2> DEFINE x == n * p
             y == e * p
             z == q * p
  <2>3. z = x + y
    BY <2>1, <2>2
  <2>4. x \in Nat /\ y \in Nat
    BY <2>2
  <2>5. d = z + r
    BY <1>1
  <2>6. d < x
    OBVIOUS
  <2> HIDE DEF x, y, z
  <2>7. r \in Nat
    BY <1>1
  <2> HIDE DEF r
  <2> QED BY <2>3, <2>4, <2>5, <2>6, <2>7
<1>3. q \in 0 .. n - 1
  BY <1>1, <1>2
<1>4. d = q * p + r /\ r \in 0 .. p - 1
  BY <1>1
<1> QED BY <1>3, <1>4 DEF q, r

(* The end of a segment is a word. *)
LEMMA EndsAreWords ==
    ASSUME NEW st \in StartsRecords
    PROVE  segEnd(st) \in 0 .. MaxU64
<1> DEFINE c == st.pageCount
           s == st.pageSize
           o == st.segOffset
           d == o + c * s
           w == MaxU64 + 1
<1>1. c \in Nat /\ s \in Nat /\ o \in Nat
  BY DEF StartsRecords
<1>2. segEnd(st) = d % w
  BY DEF segEnd
<1>3. w \in Nat \ {0} /\ w - 1 = MaxU64
  BY MaxAssumption
<1> HIDE DEF c, s, o, w
<1>4. d \in Nat
  BY <1>1
<1> HIDE DEF d
<1>5. d % w \in 0 .. w - 1
  BY <1>3, <1>4, Division
<1> QED BY <1>2, <1>3, <1>5

(* What a range of the index tells of the segment it belongs to. *)
LEMMA SegmentFound ==
    ASSUME NEW starts \in Seq(StartsRecords), NEW offset \in Nat, NEW i,
           i = findSegmentForOffset(buildSegmentIndex(starts), offset), i # 0
    PROVE  /\ i \in DOMAIN starts /\ Covers(starts[i])
           /\ offset >= starts[i].segOffset /\ offset < segEnd(starts[i])
<1> DEFINE index == buildSegmentIndex(starts)
           below == {r \in index : r.start <= offset}
           last == CHOOSE r \in below : \A q \in below : NotAfter(q, r)
<1>1. ASSUME NEW r \in index
      PROVE  /\ r.index \in DOMAIN starts /\ Covers(starts[r.index])
             /\ r.start = starts[r.index].segOffset /\ r.end = segEnd(starts[r.index])
             /\ r.start \in Nat /\ r.end \in 0 .. MaxU64
  <2>1. PICK j \in DOMAIN starts : Covers(starts[j]) /\
           r = [start |-> starts[j].segOffset, end |-> segEnd(starts[j]), index |-> j]
    BY DEF buildSegmentIndex
  <2>2. r.index = j /\ r.start = starts[j].segOffset /\ r.end = segEnd(starts[j])
    BY <2>1
  <2>3. starts[j] \in StartsRecords
    OBVIOUS
  <2>4. segEnd(starts[j]) \in 0 .. MaxU64 /\ starts[j].segOffset \in Nat
    BY <2>3, EndsAreWords DEF StartsRecords
  <2> QED BY <2>1, <2>2, <2>4
<1>2. i = IF below # {} /\ offset < last.end THEN last.index ELSE 0
  BY DEF findSegmentForOffset
<1>3. below # {} /\ offset < last.end /\ i = last.index
  <2> HIDE DEF below, last
  <2> QED BY <1>2
<1>4. last \in below
  <2>1. \A r \in below : r.start \in 0 .. offset /\ r.end \in 0 .. MaxU64
    BY <1>1
  <2> HIDE DEF below
  <2>2. \E r \in below : \A q \in below : NotAfter(q, r)
    BY <1>3, <2>1, LastRange
  <2> QED BY <2>2
<1> HIDE DEF last, index
<1>5. last \in index /\ last.start <= offset
  BY <1>4
<1>6. last.start \in Nat
  BY <1>1, <1>5
<1> QED
  BY <1>1, <1>3, <1>5, <1>6

(* No segment of a table lies inside another, starting later and ending    *)
(* earlier: the search of the index looks at one range only.               *)
NoneInside ==
    \A starts \in StartsSets : \A i, j \in DOMAIN starts :
        (/\ Covers(starts[i]) /\ Covers(starts[j])
         /\ starts[i].segOffset < starts[j].segOffset
         /\ starts[j].segOffset < segEnd(starts[i]))
        => segEnd(starts[i]) <= segEnd(starts[j])

(* The segments of the table that hold a location are found, if only one   *)
(* does.                                                                   *)
LEMMA SegmentIsFound ==
    ASSUME NoneInside, NEW starts \in StartsSets, NEW offset \in Nat, NEW i \in DOMAIN starts,
           Covers(starts[i]), offset >= starts[i].segOffset, offset < segEnd(starts[i]),
           \A j \in DOMAIN starts :
              (Covers(starts[j]) /\ offset >= starts[j].segOffset /\ offset < segEnd(starts[j]))
                 => j = i
    PROVE  findSegmentForOffset(buildSegmentIndex(starts), offset) = i
<1> DEFINE index == buildSegmentIndex(starts)
           below == {r \in index : r.start <= offset}
           last == CHOOSE r \in below : \A q \in below : NotAfter(q, r)
           mine == [start |-> starts[i].segOffset, end |-> segEnd(starts[i]), index |-> i]
<1>0. ASSUME NEW j \in DOMAIN starts
      PROVE  segEnd(starts[j]) \in 0 .. MaxU64 /\ starts[j].segOffset \in Nat
  <2>1. starts[j] \in StartsRecords
    BY StartsAssumption
  <2> QED BY <2>1, EndsAreWords DEF StartsRecords
<1>1. ASSUME NEW r \in index
      PROVE  /\ r.index \in DOMAIN starts /\ Covers(starts[r.index])
             /\ r.start = starts[r.index].segOffset /\ r.end = segEnd(starts[r.index])
             /\ r.start \in Nat /\ r.end \in 0 .. MaxU64
  <2>1. PICK j \in DOMAIN starts : Covers(starts[j]) /\
           r = [start |-> starts[j].segOffset, end |-> segEnd(starts[j]), index |-> j]
    BY DEF buildSegmentIndex
  <2>2. r.index = j /\ r.start = starts[j].segOffset /\ r.end = segEnd(starts[j])
    BY <2>1
  <2> QED BY <1>0, <2>1, <2>2
<1>2. mine \in index
  BY DEF buildSegmentIndex
<1>3. mine.start = starts[i].segOffset /\ mine.end = segEnd(starts[i])
  OBVIOUS
<1>4. mine \in below
  <2> HIDE DEF mine, index
  <2>1. mine.start <= offset
    BY <1>0, <1>3
  <2> QED BY <1>2, <2>1
<1>5. last \in below /\ \A q \in below : NotAfter(q, last)
  <2>1. \A r \in below : r.start \in 0 .. offset /\ r.end \in 0 .. MaxU64
    BY <1>1
  <2> HIDE DEF below, mine
  <2>2. \E r \in below : \A q \in below : NotAfter(q, r)
    BY <1>4, <2>1, LastRange
  <2> QED BY <2>2
<1>6. findSegmentForOffset(index, offset) =
         IF below # {} /\ offset < last.end THEN last.index ELSE 0
  BY DEF findSegmentForOffset
<1> HIDE DEF last, index, mine
<1> DEFINE j == last.index
<1>7. /\ j \in DOMAIN starts /\ Covers(starts[j]) /\ last.start = starts[j].segOffset
      /\ last.end = segEnd(starts[j]) /\ last.start <= offset /\ last.start \in Nat
      /\ last.end \in Nat
  BY <1>1, <1>5
<1>8. offset < last.end
  <2> SUFFICES ASSUME last.end <= offset PROVE FALSE
    BY <1>7
  <2>1. NotAfter(mine, last)
    BY <1>4, <1>5
  <2>2. mine.start \in Nat /\ mine.end \in Nat /\ last.end < mine.end
    BY <1>0, <1>3, <1>7
  <2>3. mine.start < last.start
    BY <1>7, <2>1, <2>2 DEF NotAfter
  <2>4. starts[j].segOffset < segEnd(starts[i])
    BY <1>0, <1>7
  <2>5. segEnd(starts[i]) <= segEnd(starts[j])
    BY <1>3, <1>7, <2>3, <2>4 DEF NoneInside
  <2> QED BY <1>3, <1>7, <2>2, <2>5
<1>9. j = i
  BY <1>7, <1>8
<1>10. below # {}
  BY <1>4
<1> HIDE DEF below
<1>11. findSegmentForOffset(index, offset) = i
  BY <1>6, <1>8, <1>9, <1>10
<1> QED BY <1>11 DEF index

(* A location that a segment holds lies in one of its pages. *)
LEMMA LocationInPage ==
    ASSUME NEW st, IsStarts(st), HasItsPages(st), Covers(st), NEW offset \in Nat,
           offset >= st.segOffset, offset < segEnd(st),
           NEW n, n = (offset - st.segOffset) \div st.pageSize
    PROVE  /\ st.pageSize # 0 /\ n \in 0 .. st.pageCount - 1
           /\ n + 1 \in DOMAIN st.pageStarts /\ n < Len(st.pageStarts)
           /\ PageAt(st, n) \in Nat /\ offset - PageAt(st, n) \in Nat
           /\ offset = PageAt(st, n) + (offset - PageAt(st, n))
           /\ offset - PageAt(st, n) = (offset - st.segOffset) % st.pageSize
<1> DEFINE o == st.segOffset
           p == st.pageSize
           c == st.pageCount
           d == offset - o
           e == o + c * p
           w == MaxU64 + 1
           r == d % p
<1>1. p \in Nat \ {0} /\ o \in Nat /\ c \in Nat
  BY DEF IsStarts, Covers
<1>2. segEnd(st) = e % w /\ w \in Nat \ {0}
  BY MaxAssumption DEF segEnd
<1>3. n = d \div p /\ offset >= o /\ offset < segEnd(st)
  OBVIOUS
<1>4. PageAt(st, n) = o + n * p
  BY DEF PageAt
<1>5. c <= Len(st.pageStarts) /\ Len(st.pageStarts) \in Nat
      /\ DOMAIN st.pageStarts = 1 .. Len(st.pageStarts)
  <2> DEFINE ats == st.pageStarts
  <2>1. ats \in Seq(PageStartWords) /\ c <= Len(ats)
    BY DEF IsStarts, PageStartWords, HasItsPages, Covers
  <2> HIDE DEF ats, c
  <2>2. c <= Len(ats) /\ Len(ats) \in Nat /\ DOMAIN ats = 1 .. Len(ats)
    BY <2>1
  <2> QED BY <2>2 DEF ats
<1> HIDE DEF o, p, c, w
<1>6. c * p \in Nat
  BY <1>1
<1> DEFINE z == c * p
<1>7. e = o + z /\ z \in Nat
  BY <1>6
<1> HIDE DEF e, z
<1>8. e \in Nat
  BY <1>1, <1>7
<1>9. e % w <= e
  <2> DEFINE f == e \div w
             x == f * w
             y == e % w
  <2>1. f \in Nat /\ y \in 0 .. w - 1 /\ e = f * w + y
    BY <1>2, <1>8
  <2> HIDE DEF f
  <2>2. f * w \in Nat
    BY <1>2, <2>1
  <2>3. x \in Nat /\ e = x + y /\ y \in Nat
    BY <1>2, <2>1, <2>2
  <2> HIDE DEF x, y
  <2>4. y <= e
    BY <2>3
  <2> QED BY <2>4 DEF y
<1>10. d \in Nat
  BY <1>1, <1>3
<1>11. d < z
  <2> DEFINE y == e % w
  <2>1. y \in Nat /\ y <= e /\ offset < y
    BY <1>2, <1>3, <1>8, <1>9
  <2> HIDE DEF y
  <2> QED BY <1>1, <1>3, <1>7, <2>1
<1>12. d < c * p
  BY <1>11 DEF z
<1> HIDE DEF d
<1>13. n \in 0 .. c - 1 /\ d = n * p + r /\ r \in 0 .. p - 1
  <2>1. /\ d \div p \in 0 .. c - 1
        /\ d = (d \div p) * p + (d % p) /\ d % p \in 0 .. p - 1
    BY ONLY <1>1, <1>10, <1>12, PageBelow
  <2> HIDE DEF r
  <2>2. n = d \div p /\ r = d % p
    BY <1>3 DEF r
  <2> QED BY <2>1, <2>2
<1> DEFINE a == n * p
<1>14. a \in Nat /\ d = a + r /\ r \in Nat /\ PageAt(st, n) = o + a
  <2>1. n * p \in Nat
    BY <1>1, <1>13
  <2> QED BY <1>1, <1>4, <1>13, <2>1
<1> HIDE DEF a, r
<1>15. /\ PageAt(st, n) \in Nat /\ offset - PageAt(st, n) \in Nat
       /\ offset = PageAt(st, n) + (offset - PageAt(st, n))
       /\ offset - PageAt(st, n) = r
  BY <1>1, <1>3, <1>10, <1>14 DEF d
<1>16. n + 1 \in DOMAIN st.pageStarts /\ n < Len(st.pageStarts)
  BY <1>1, <1>5, <1>13
<1>17. offset - PageAt(st, n) = (offset - st.segOffset) % st.pageSize
  BY <1>15 DEF r, d, p, o
<1>18. st.pageSize # 0 /\ n \in 0 .. st.pageCount - 1
  BY <1>1, <1>13 DEF p, c
<1> QED BY <1>15, <1>16, <1>17, <1>18

(* What a lookup answers in a page of a segment whose walk met no error.   *)
LEMMA LookupRecorded ==
    ASSUME NEW im, IsImage(im), NEW st, IsStarts(st), HasItsPages(st), st.pageStarts # <<>>,
           walkSegment(im, st).ok, NEW n \in 0 .. st.pageCount - 1, NEW t \in Nat,
           NEW at, at = st.pageStarts[n + 1],
           NEW W, W = walkerFixupInPage(im, st, at, PageAt(st, n), t)
    PROVE  /\ W = None \/ W.kind = "fixup"
           /\ W.kind = "fixup" => PageAt(st, n) + t \in Members(walkSegment(im, st).locs)
           /\ at.tag # "none" => stride(st.format) # 0
<1> DEFINE R == walkSegment(im, st)
           P == walkPage(im, st, n)
           pcs == PageAt(st, n)
<1>1. SegmentSound(im, st, R)
  BY SegmentRecorded
<1>2. P.ok /\ \A loc : loc \in Members(P.locs) => loc \in Members(R.locs)
  <2> HIDE DEF R
  <2>1. R.ok
    BY DEF R
  <2> QED BY <1>1, <2>1 DEF SegmentSound
<1>3. n \in Nat /\ n + 1 \in DOMAIN st.pageStarts
  <2> DEFINE ats == st.pageStarts
             c == st.pageCount
  <2>1. ats \in Seq(PageStartWords) /\ Len(ats) >= c /\ c \in Nat /\ n \in 0 .. c - 1
    BY DEF IsStarts, PageStartWords, HasItsPages
  <2> HIDE DEF ats, c
  <2>2. n \in Nat /\ n + 1 \in DOMAIN ats
    BY <2>1
  <2> QED BY <2>2 DEF ats
<1>4. PageSound(im, st, at, pcs, P)
  BY <1>3, PageRecorded
<1> HIDE DEF P, R
<1>5. /\ pcs + t \in Members(P.locs) => W.kind = "fixup"
      /\ pcs + t \notin Members(P.locs) => W = None
      /\ at.tag # "none" => stride(st.format) # 0
  BY <1>2, <1>4 DEF PageSound
<1>6. W = None => W.kind # "fixup"
  BY DEF None
<1> QED BY <1>2, <1>5, <1>6 DEF R

(* A recorded location lies in the segment, in a page where the walker     *)
(* finds it.                                                               *)
LEMMA RecordedLocation ==
    ASSUME NEW im, IsImage(im), NEW st, IsStarts(st), HasItsPages(st), st.pageStarts # <<>>,
           walkSegment(im, st).ok, NEW offset \in Nat,
           offset \in Members(walkSegment(im, st).locs)
    PROVE  /\ Covers(st) /\ offset >= st.segOffset /\ offset < segEnd(st)
           /\ \E n \in 0 .. st.pageCount - 1 :
                 /\ PageAt(st, n) \in Nat
                 /\ offset - PageAt(st, n) \in 0 .. st.pageSize
                 /\ st.pageStarts[n + 1].tag # "none"
                 /\ pointerSize(st.format) # 0
                 /\ walkerFixupInPage(im, st, st.pageStarts[n + 1], PageAt(st, n),
                                      offset - PageAt(st, n)).kind = "fixup"
<1> DEFINE R == walkSegment(im, st)
           c == st.pageCount
           p == st.pageSize
           o == st.segOffset
           z == c * p
           w == MaxU64 + 1
           b == pointerSize(st.format)
<1>1. c \in Nat /\ p \in Nat /\ o \in Nat /\ b \in Nat
  <2>1. st.format \in Formats
    BY DEF IsStarts
  <2> QED BY <2>1, FormatSizes DEF IsStarts
<1>2. SegmentSound(im, st, R)
  BY SegmentRecorded
<1>3. PICK n \in 0 .. c - 1 : offset \in Members(walkPage(im, st, n).locs)
                               /\ walkPage(im, st, n).ok
  BY <1>2 DEF SegmentSound
<1> DEFINE P == walkPage(im, st, n)
           at == st.pageStarts[n + 1]
           pcs == PageAt(st, n)
           t == offset - pcs
<1>4. n \in Nat /\ n + 1 \in DOMAIN st.pageStarts
  <2> DEFINE ats == st.pageStarts
  <2>1. ats \in Seq(PageStartWords) /\ Len(ats) >= c
    BY DEF IsStarts, PageStartWords, HasItsPages
  <2> HIDE DEF ats, c
  <2>2. n \in Nat /\ n + 1 \in DOMAIN ats
    BY <1>1, <2>1
  <2> QED BY <2>2 DEF ats
<1>5. PageSound(im, st, at, pcs, P)
  BY <1>4, PageRecorded
<1>6. t \in 0 .. p /\ checkedChainFixupLocation(st, pcs, t) /\ at.tag # "none"
  <2> HIDE DEF P
  <2>1. offset \in Members(P.locs) /\ P.ok
    BY <1>3 DEF P
  <2> QED BY <1>5, <2>1 DEF PageSound
<1>7. pcs \in Nat /\ offset = pcs + t
  <2>1. pcs = o + n * p
    BY DEF PageAt
  <2> HIDE DEF o, p
  <2>2. n * p \in Nat
    BY <1>1, <1>4
  <2> DEFINE x == n * p
  <2>3. x \in Nat /\ pcs = o + x
    BY <2>1, <2>2
  <2> HIDE DEF x, pcs
  <2>4. pcs \in Nat
    BY <1>1, <2>3
  <2>5. offset = pcs + (offset - pcs)
    BY <2>4
  <2> QED BY <2>4, <2>5
<1>8. walkerFixupInPage(im, st, at, pcs, t).kind = "fixup"
  <2> HIDE DEF P, at, pcs
  <2>1. offset \in Members(P.locs) /\ P.ok
    BY <1>3 DEF P
  <2>2. t \in Nat
    BY <1>1, <1>6
  <2> HIDE DEF t
  <2>3. pcs + t \in Members(P.locs)
    BY <1>7, <2>1
  <2> QED BY <1>5, <2>1, <2>2, <2>3 DEF PageSound
<1>9. /\ p # 0 /\ b # 0 /\ z >= b /\ o <= MaxU64 - z
      /\ pcs + t >= o /\ pcs + t - o <= z - b
  BY <1>6 DEF checkedChainFixupLocation
<1>10. segEnd(st) = (o + z) % w
  BY DEF segEnd
<1>11. z \in Nat
  <2> HIDE DEF c, p
  <2> QED BY <1>1
<1>12. c # 0
  <2> SUFFICES ASSUME c = 0 PROVE FALSE
    OBVIOUS
  <2> QED BY <1>1, <1>3
<1> HIDE DEF c, p, o, b, pcs, t, at, P
<1>13. w \in Nat \ {0} /\ w - 1 = MaxU64 /\ MaxU64 \in Nat
  BY MaxAssumption
<1> HIDE DEF w, z
<1>14. o + z \in 0 .. w - 1
  BY <1>1, <1>9, <1>11, <1>13
<1>15. segEnd(st) = o + z
  <2> DEFINE e == o + z
  <2>1. e \in 0 .. w - 1 /\ segEnd(st) = e % w
    BY <1>10, <1>14
  <2> HIDE DEF e
  <2>2. e % w = e
    BY <1>13, <2>1
  <2> QED BY <2>1, <2>2 DEF e
<1>16. offset >= o /\ offset < segEnd(st) /\ segEnd(st) > o
  <2>1. t \in Nat
    BY <1>1, <1>6
  <2> QED BY <1>1, <1>7, <1>9, <1>11, <1>15, <2>1
<1>17. Covers(st)
  <2>1. c # 0 /\ p # 0 /\ st.pageStarts # <<>> /\ segEnd(st) > o
    BY <1>9, <1>12, <1>16
  <2> QED BY <2>1 DEF Covers, c, p, o
<1>18. /\ PageAt(st, n) \in Nat
       /\ offset - PageAt(st, n) \in 0 .. st.pageSize
       /\ st.pageStarts[n + 1].tag # "none"
       /\ pointerSize(st.format) # 0
       /\ walkerFixupInPage(im, st, st.pageStarts[n + 1], PageAt(st, n),
                            offset - PageAt(st, n)).kind = "fixup"
  BY <1>6, <1>7, <1>8, <1>9 DEF t, pcs, at, p, b
<1>19. n \in 0 .. st.pageCount - 1
  BY DEF c
<1>20. offset >= st.segOffset /\ offset < segEnd(st)
  BY <1>16 DEF o
<1> QED BY <1>17, <1>18, <1>19, <1>20

(* What LookupByOffset finds. *)
LEMMA ListedIsRecorded ==
    ASSUME ParsedOnce, chainsParsed, parsedFrom = Starts, NEW loc
    PROVE  LookupByOffset(loc)
              <=> \E j \in DOMAIN Starts : ~Skipped(Starts[j])
                     /\ loc \in Members(walkSegment(image, Starts[j]).locs)
<1> DEFINE L(j) == WalkOf(image, Starts[j]).locs
<1>1. fixups = [j \in DOMAIN Starts |-> L(j)]
  BY DEF ParsedOnce
<1>2. Starts \in StartsSets /\ image \in Images
  BY DEF ParsedOnce
<1>3. ASSUME NEW j \in DOMAIN Starts
      PROVE  (\E k \in DOMAIN fixups[j] : fixups[j][k] = loc) <=> loc \in Members(L(j))
  <2>1. L(j) \in Seq(Nat)
    BY <1>2, WalkOfIsWalked DEF Walked
  <2>2. fixups[j] = L(j)
    BY <1>1
  <2> HIDE DEF L
  <2>3. DOMAIN L(j) = 1 .. Len(L(j))
    BY <2>1
  <2> QED BY <2>2, <2>3 DEF Members
<1>4. ASSUME NEW j \in DOMAIN Starts
      PROVE  loc \in Members(L(j))
               <=> ~Skipped(Starts[j]) /\ loc \in Members(walkSegment(image, Starts[j]).locs)
  <2>1. CASE Skipped(Starts[j])
    <3>1. L(j) = <<>>
      BY <2>1 DEF WalkOf, NoWalk
    <3>2. Members(<<>>) = {}
      BY DEF Members
    <3> HIDE DEF L
    <3> QED BY <2>1, <3>1, <3>2
  <2>2. CASE ~Skipped(Starts[j])
    BY <2>2 DEF WalkOf
  <2> QED BY <2>1, <2>2
<1>5. DOMAIN fixups = DOMAIN Starts
  BY <1>1
<1> HIDE DEF L
<1> QED BY <1>3, <1>4, <1>5 DEF LookupByOffset

(* What a lookup meets in a table whose walks met no error. *)
LEMMA CurrentLookup ==
    ASSUME ParsedOnce, ParseIsCurrent, NEW offset \in Offsets, NEW i, i = SegmentOf(offset),
           i # 0, NEW st, st = Starts[i], NEW n,
           n = (offset - st.segOffset) \div st.pageSize
    PROVE  /\ i \in DOMAIN Starts /\ ~Skipped(st) /\ IsStarts(st)
           /\ n \in 0 .. st.pageCount - 1
           /\ PageAt(st, n) \in Nat /\ offset - PageAt(st, n) \in Nat
           /\ offset = PageAt(st, n) + (offset - PageAt(st, n))
           /\ offset - PageAt(st, n) = (offset - st.segOffset) % st.pageSize
           /\ st.pageSize # 0
           /\ PageStart(offset) = st.pageStarts[n + 1] /\ PageContentStart(offset) = PageAt(st, n)
           /\ locateStartForOffset(offset)
           /\ LET W == Walker(offset) IN
                /\ W = None \/ W.kind = "fixup"
                /\ W.kind = "fixup" => LookupByOffset(offset)
           /\ PageStart(offset).tag # "none"
                 => stride(st.format) # 0 /\ pointerSize(st.format) # 0
<1>1. /\ Starts \in StartsSets /\ image \in Images /\ chainsParsed /\ parsedFrom = Starts
      /\ segmentIndex = buildSegmentIndex(Starts)
      /\ \A j \in DOMAIN Starts : WalkOf(image, Starts[j]).ok
  BY DEF ParsedOnce, ParseIsCurrent
<1>2. IsImage(image) /\ offset \in Nat /\ Starts \in Seq(StartsRecords)
  BY <1>1, ImagesAssumption, StartsAssumption DEF IsImage
<1>3. /\ i \in DOMAIN Starts /\ Covers(st)
      /\ offset >= st.segOffset /\ offset < segEnd(st)
  <2>1. i = findSegmentForOffset(buildSegmentIndex(Starts), offset)
    BY <1>1 DEF SegmentOf
  <2> QED BY <1>2, <2>1, SegmentFound
<1>4. IsStarts(st) /\ HasItsPages(st)
  BY <1>1, <1>3, TablesHoldStarts
<1>5. st.pageStarts # <<>> /\ ~Skipped(st)
  BY <1>3 DEF Covers, Skipped
<1>6. walkSegment(image, st).ok
  BY <1>1, <1>3, <1>5 DEF WalkOf
<1>7. /\ st.pageSize # 0 /\ n \in 0 .. st.pageCount - 1
      /\ n + 1 \in DOMAIN st.pageStarts /\ n < Len(st.pageStarts)
      /\ PageAt(st, n) \in Nat /\ offset - PageAt(st, n) \in Nat
      /\ offset = PageAt(st, n) + (offset - PageAt(st, n))
      /\ offset - PageAt(st, n) = (offset - st.segOffset) % st.pageSize
  BY <1>2, <1>3, <1>4, LocationInPage
<1>8. PageStart(offset) = st.pageStarts[n + 1] /\ PageContentStart(offset) = PageAt(st, n)
      /\ locateStartForOffset(offset)
  BY <1>3, <1>7 DEF PageStart, PageContentStart, locateStartForOffset, PageIndex, PageAt
<1> DEFINE at == st.pageStarts[n + 1]
           t == offset - PageAt(st, n)
           W == Walker(offset)
<1>9. W = walkerFixupInPage(image, st, at, PageAt(st, n), t)
  BY <1>8 DEF Walker
<1>10. /\ W = None \/ W.kind = "fixup"
       /\ W.kind = "fixup" => PageAt(st, n) + t \in Members(walkSegment(image, st).locs)
       /\ at.tag # "none" => stride(st.format) # 0
  <2>1. t \in Nat
    BY <1>7
  <2>2. at = st.pageStarts[n + 1]
    OBVIOUS
  <2>3. IsImage(image) /\ IsStarts(st) /\ HasItsPages(st) /\ st.pageStarts # <<>>
        /\ walkSegment(image, st).ok /\ n \in 0 .. st.pageCount - 1
    BY <1>2, <1>4, <1>5, <1>6, <1>7
  <2> HIDE DEF W, at, t
  <2> QED BY ONLY <1>9, <2>1, <2>2, <2>3, LookupRecorded
<1>11. W.kind = "fixup" => LookupByOffset(offset)
  <2> HIDE DEF W
  <2>1. ASSUME W.kind = "fixup" PROVE offset \in Members(walkSegment(image, st).locs)
    BY <1>7, <1>10, <2>1
  <2> QED BY <1>1, <1>3, <1>5, <2>1, ListedIsRecorded
<1>12. stride(st.format) # 0 => pointerSize(st.format) # 0
  <2>1. st.format \in Formats
    BY <1>4 DEF IsStarts
  <2> QED BY <2>1 DEF Formats, stride, pointerSize
<1>13. PageStart(offset).tag # "none" => stride(st.format) # 0 /\ pointerSize(st.format) # 0
  BY <1>8, <1>10, <1>12
<1> QED BY <1>3, <1>4, <1>5, <1>7, <1>8, <1>10, <1>11, <1>13

(* After a Parse no lookup fails, and what it finds was recorded. *)
LEMMA LookupsAreListed ==
    ASSUME ParsedOnce, ParseIsCurrent, NEW offset \in Offsets
    PROVE  /\ GetFixupUncached(offset).kind # "error"
           /\ GetFixupUncached(offset).kind = "fixup" => LookupByOffset(offset)
<1> DEFINE i == SegmentOf(offset)
           st == Starts[i]
           U == GetFixupUncached(offset)
           W == Walker(offset)
           B == beforePage(offset)
<1>1. U = IF B.kind = "page" THEN W ELSE B
  BY DEF GetFixupUncached
<1>2. None.kind = "none" /\ InPage.kind = "page"
  BY DEF None, InPage
<1>3. B = IF i = 0 THEN None
          ELSE IF ~locateStartForOffset(offset) THEN Fail("locate")
          ELSE IF PageStart(offset).tag = "none" THEN None
          ELSE IF pointerSize(st.format) = 0 \/ stride(st.format) = 0 THEN Fail("format")
          ELSE IF (offset - PageContentStart(offset)) % stride(st.format) # 0 THEN None
          ELSE InPage
  BY DEF beforePage
<1>4. i # 0 => /\ locateStartForOffset(offset)
               /\ W = None \/ W.kind = "fixup"
               /\ W.kind = "fixup" => LookupByOffset(offset)
               /\ PageStart(offset).tag # "none"
                     => stride(st.format) # 0 /\ pointerSize(st.format) # 0
  <2> SUFFICES ASSUME i # 0
               PROVE  /\ locateStartForOffset(offset)
                      /\ W = None \/ W.kind = "fixup"
                      /\ W.kind = "fixup" => LookupByOffset(offset)
                      /\ PageStart(offset).tag # "none"
                            => stride(st.format) # 0 /\ pointerSize(st.format) # 0
    OBVIOUS
  <2> QED BY CurrentLookup
<1> HIDE DEF i, st, W, B, U
<1>5. B = None \/ (B = InPage /\ i # 0)
  BY <1>3, <1>4
<1>6. U = None \/ (U = W /\ i # 0)
  BY <1>1, <1>2, <1>5
<1>7. U.kind # "error" /\ (U.kind = "fixup" => LookupByOffset(offset))
  BY <1>2, <1>4, <1>6
<1> QED BY <1>7 DEF U

(* Between the page boundaries, a recorded location is found. *)
LEMMA ListedAreLookedUp ==
    ASSUME NoneInside, ParsedOnce, ParseIsCurrent, NEW offset \in Offsets,
           NEW i \in SegmentsAt(offset), Cardinality(SegmentsAt(offset)) = 1,
           LookupByOffset(offset), NEW st, st = Starts[i], NEW c,
           c = (offset - st.segOffset) % st.pageSize, c # 0, c % stride(st.format) = 0
    PROVE  GetFixupUncached(offset).kind = "fixup"
<1>1. /\ Starts \in StartsSets /\ image \in Images /\ chainsParsed /\ parsedFrom = Starts
      /\ segmentIndex = buildSegmentIndex(Starts)
      /\ \A j \in DOMAIN Starts : WalkOf(image, Starts[j]).ok
  BY DEF ParsedOnce, ParseIsCurrent
<1>2. IsImage(image) /\ offset \in Nat /\ Starts \in Seq(StartsRecords)
  BY <1>1, ImagesAssumption, StartsAssumption DEF IsImage
<1>3. PICK j \in DOMAIN Starts : ~Skipped(Starts[j])
         /\ offset \in Members(walkSegment(image, Starts[j]).locs)
  BY <1>1, ListedIsRecorded
<1>4. IsStarts(Starts[j]) /\ HasItsPages(Starts[j]) /\ Starts[j].pageStarts # <<>>
      /\ walkSegment(image, Starts[j]).ok
  <2>1. WalkOf(image, Starts[j]).ok
    BY <1>1
  <2>2. walkSegment(image, Starts[j]).ok
    BY <1>3, <2>1 DEF WalkOf
  <2> QED BY <1>1, <1>3, <2>2, TablesHoldStarts DEF Skipped
<1>5. /\ Covers(Starts[j]) /\ offset >= Starts[j].segOffset /\ offset < segEnd(Starts[j])
      /\ \E n \in 0 .. Starts[j].pageCount - 1 :
            /\ PageAt(Starts[j], n) \in Nat
            /\ offset - PageAt(Starts[j], n) \in 0 .. Starts[j].pageSize
            /\ Starts[j].pageStarts[n + 1].tag # "none"
            /\ pointerSize(Starts[j].format) # 0
            /\ walkerFixupInPage(image, Starts[j], Starts[j].pageStarts[n + 1],
                                 PageAt(Starts[j], n), offset - PageAt(Starts[j], n)).kind = "fixup"
  BY <1>2, <1>3, <1>4, RecordedLocation
<1>6. \A k \in SegmentsAt(offset) : k = i
  <2> DEFINE S == SegmentsAt(offset)
  <2>1. IsFiniteSet(S) /\ Cardinality(S) = 1 /\ i \in S
    <3>1. DOMAIN Starts = 1 .. Len(Starts) /\ Len(Starts) \in Nat
      BY <1>2
    <3>2. S \subseteq 1 .. Len(Starts)
      BY <3>1 DEF SegmentsAt
    <3>3. IsFiniteSet(1 .. Len(Starts))
      BY <3>1, FS_Interval
    <3>4. IsFiniteSet(S)
      BY <3>2, <3>3, FS_Subset
    <3> QED BY <3>4
  <2> HIDE DEF S
  <2>2. \E x : S = {x}
    BY <2>1, FS_Singleton
  <2> QED BY <2>1, <2>2 DEF S
<1>7. \A k \in DOMAIN Starts :
         (Covers(Starts[k]) /\ offset >= Starts[k].segOffset /\ offset < segEnd(Starts[k]))
            => k = i
  BY <1>6 DEF SegmentsAt
<1>8. j = i
  BY <1>3, <1>5, <1>7
<1>9. i \in DOMAIN Starts /\ Covers(st) /\ offset >= st.segOffset /\ offset < segEnd(st)
  BY DEF SegmentsAt
<1>10. SegmentOf(offset) = i
  <2>1. findSegmentForOffset(buildSegmentIndex(Starts), offset) = i
    BY <1>1, <1>2, <1>7, <1>9, SegmentIsFound
  <2> QED BY <1>1, <2>1 DEF SegmentOf
<1>11. i # 0
  <2>1. i \in 1 .. Len(Starts) /\ Len(Starts) \in Nat
    BY <1>2, <1>9
  <2> QED BY <2>1
<1>12. PICK n \in 0 .. st.pageCount - 1 :
          /\ PageAt(st, n) \in Nat
          /\ offset - PageAt(st, n) \in 0 .. st.pageSize
          /\ st.pageStarts[n + 1].tag # "none"
          /\ pointerSize(st.format) # 0
          /\ walkerFixupInPage(image, st, st.pageStarts[n + 1],
                               PageAt(st, n), offset - PageAt(st, n)).kind = "fixup"
  BY <1>5, <1>8
<1> DEFINE m == (offset - st.segOffset) \div st.pageSize
<1>13. /\ PageAt(st, m) \in Nat /\ m \in 0 .. st.pageCount - 1 /\ st.pageSize # 0
       /\ offset - PageAt(st, m) = c /\ locateStartForOffset(offset) /\ IsStarts(st)
       /\ PageStart(offset) = st.pageStarts[m + 1] /\ PageContentStart(offset) = PageAt(st, m)
       /\ PageStart(offset).tag # "none" => stride(st.format) # 0
  BY <1>10, <1>11, CurrentLookup
<1>14. n = m
  <2> DEFINE p == st.pageSize
             o == st.segOffset
             a == n * p
             t == offset - PageAt(st, n)
             d == offset - o
  <2>0. st.pageCount \in Nat /\ n \in 0 .. st.pageCount - 1
    BY <1>12, <1>13 DEF IsStarts
  <2>1. p \in Nat \ {0} /\ o \in Nat /\ n \in Nat
    <3>1. n \in Nat
      BY ONLY <2>0
    <3> QED BY <1>13, <3>1 DEF IsStarts
  <2>2. PageAt(st, n) = o + n * p /\ t \in 0 .. p
    BY <1>12 DEF PageAt
  <2>3. d \in Nat /\ c = d % p /\ m = d \div p
    BY <1>2, <1>9, <2>1
  <2> HIDE DEF p, o, m
  <2>4. n * p \in Nat
    BY <2>1
  <2>5. d = a + t
    <3>1. a \in Nat /\ PageAt(st, n) = o + a
      BY <2>2, <2>4
    <3> HIDE DEF a
    <3> QED BY <1>2, <2>1, <3>1
  <2> HIDE DEF t, d
  <2>6. CASE t = p
    <3>1. d = (n + 1) * p + 0
      <4>1. (n + 1) * p = a + p
        BY <2>1
      <4>2. a + p \in Nat
        BY <2>1, <2>4
      <4> HIDE DEF a
      <4> QED BY <2>5, <2>6, <4>1, <4>2
    <3>2. n + 1 \in Nat /\ 0 \in 0 .. p - 1
      BY <2>1
    <3>3. d % p = 0
      BY ONLY <2>1, <2>3, <3>1, <3>2, Quotient
    <3> QED BY <2>3, <3>3
  <2>7. CASE t # p
    <3>1. d = n * p + t /\ t \in 0 .. p - 1
      BY <2>1, <2>2, <2>5, <2>7
    <3>2. d \div p = n
      BY ONLY <2>1, <2>3, <3>1, Quotient
    <3> QED BY <2>3, <3>2
  <2> QED BY <2>6, <2>7
<1> HIDE DEF m
<1>15. Walker(offset).kind = "fixup"
  BY <1>10, <1>12, <1>13, <1>14 DEF Walker
<1>16. beforePage(offset) = InPage
  BY <1>10, <1>11, <1>12, <1>13, <1>14 DEF beforePage
<1> QED BY <1>15, <1>16 DEF GetFixupUncached, InPage

(* After a successful Parse no point lookup fails, and it finds a fixup    *)
(* only where LookupByOffset does; inside a page, on a stride boundary,    *)
(* the two agree the other way round: for every file and every table in    *)
(* which no segment lies inside another (NoneInside).                      *)
THEOREM LookupsFindTheParsed ==
    ASSUME NoneInside
    PROVE  Spec => []LookupsFindWhatParseFound
<1>1. ParsedOnce => LookupsFindWhatParseFound
  <2> SUFFICES ASSUME ParsedOnce, ParseIsCurrent, NEW offset \in Offsets
               PROVE  /\ GetFixupUncached(offset).kind # "error"
                      /\ GetFixupUncached(offset).kind = "fixup" => LookupByOffset(offset)
                      /\ \A i \in SegmentsAt(offset) :
                            (/\ Cardinality(SegmentsAt(offset)) = 1
                             /\ (offset - Starts[i].segOffset) % Starts[i].pageSize # 0
                             /\ ((offset - Starts[i].segOffset) % Starts[i].pageSize)
                                    % stride(Starts[i].format) = 0
                             /\ LookupByOffset(offset))
                            => GetFixupUncached(offset).kind = "fixup"
    BY DEF LookupsFindWhatParseFound
  <2>1. /\ GetFixupUncached(offset).kind # "error"
        /\ GetFixupUncached(offset).kind = "fixup" => LookupByOffset(offset)
    BY LookupsAreListed
  <2>2. ASSUME NEW i \in SegmentsAt(offset), Cardinality(SegmentsAt(offset)) = 1,
               (offset - Starts[i].segOffset) % Starts[i].pageSize # 0,
               ((offset - Starts[i].segOffset) % Starts[i].pageSize)
                   % stride(Starts[i].format) = 0,
               LookupByOffset(offset)
        PROVE  GetFixupUncached(offset).kind = "fixup"
    BY <2>2, ListedAreLookedUp
  <2> QED BY <2>1, <2>2
<1> QED BY <1>1, ParsedOnceAlways, PTL

------------------------------------------------------------------------------
-----------------------------------------------------------------------------
(* Metadata read on demand.                                                *)

Extents == [pages : Int, extra : Int]

(* What the loop over the segments carries from one to the next.           *)
Tables(p) ==
    [ok : BOOLEAN, format : Nat, maxValid : Nat, starts : [1 .. p.segCount -> Extents]]

TableOf(o, f, m, s) == [ok |-> o, format |-> f, maxValid |-> m, starts |-> s]

(* The fields of a table.                                                  *)
LEMMA TableIs ==
    ASSUME NEW p, NEW t \in Tables(p)
    PROVE  /\ t.ok \in BOOLEAN /\ t.format \in Nat /\ t.maxValid \in Nat
           /\ t.starts \in [1 .. p.segCount -> Extents]
           /\ t = TableOf(t.ok, t.format, t.maxValid, t.starts)
<1> DEFINE S == [1 .. p.segCount -> Extents]
<1>1. t \in [ok : BOOLEAN, format : Nat, maxValid : Nat, starts : S]
  BY DEF Tables
<1> HIDE DEF S
<1>2. t.ok \in BOOLEAN /\ t.format \in Nat /\ t.maxValid \in Nat /\ t.starts \in S
  BY <1>1
<1>3. t = TableOf(t.ok, t.format, t.maxValid, t.starts)
  BY <1>1 DEF TableOf
<1> QED BY <1>2, <1>3 DEF S

(* A table put together from its fields.                                   *)
LEMMA TableOfIs ==
    ASSUME NEW p, NEW o, o \in BOOLEAN, NEW f \in Nat, NEW m \in Nat,
           NEW s \in [1 .. p.segCount -> Extents]
    PROVE  /\ TableOf(o, f, m, s) \in Tables(p) /\ TableOf(o, f, m, s).ok = o
           /\ TableOf(o, f, m, s).format = f /\ TableOf(o, f, m, s).maxValid = m
           /\ TableOf(o, f, m, s).starts = s
<1> DEFINE S == [1 .. p.segCount -> Extents]
           t == TableOf(o, f, m, s)
<1>1. s \in S
  OBVIOUS
<1> HIDE DEF S
<1>2. t \in [ok : BOOLEAN, format : Nat, maxValid : Nat, starts : S]
  BY <1>1 DEF TableOf
<1>3. t.ok = o /\ t.format = f /\ t.maxValid = m /\ t.starts = s
  BY DEF TableOf
<1> QED BY <1>2, <1>3 DEF Tables, S

(* What is assumed of a payload whose table fits.                          *)
HasTable(p) ==
    /\ p.segCount \in Nat
    /\ \A i \in 1 .. p.segCount :
          p.info[i] \in Nat /\ (p.info[i] # 0 => p.records[p.info[i]] \in Records)

(* The fields of a segment's record, and what is kept of it.               *)
LEMMA RecordIs ==
    ASSUME NEW r \in Records
    PROVE  /\ r.size \in Nat /\ r.pages \in Nat /\ r.format \in Nat /\ r.maxValid \in Nat
           /\ MinimumSize(r) \in Nat
           /\ Kept(r) \in Extents
           /\ Kept(r).pages = r.pages /\ Kept(r).extra = (r.size - MinimumSize(r)) \div 2
<1>1. r.size \in Nat /\ r.pages \in Nat /\ r.format \in Nat /\ r.maxValid \in Nat
  BY DEF Records
<1>2. MinimumSize(r) \in Nat
  BY <1>1, SizesAssumption DEF MinimumSize
<1> DEFINE e == (r.size - MinimumSize(r)) \div 2
<1>3. e \in Int
  BY <1>1, <1>2
<1> HIDE DEF e
<1>4. [pages |-> r.pages, extra |-> e] \in Extents
  BY <1>1, <1>3 DEF Extents
<1>5. Kept(r) = [pages |-> r.pages, extra |-> e]
  BY DEF Kept, e
<1> QED BY <1>1, <1>2, <1>4, <1>5 DEF e

(* One segment: it has no record, or it is refused, or its record joins    *)
(* the others.                                                             *)
Refused(p, st, i, x) ==
    /\ ~x.ok /\ x.format = st.format
    /\ ~RecordFits(p, p.info[i]) \/ st.format \notin {0, p.records[p.info[i]].format}

Joins(p, st, i, x) ==
    /\ RecordFits(p, p.info[i])
    /\ st.format \in {0, p.records[p.info[i]].format}
    /\ x.format = p.records[p.info[i]].format
    /\ x.starts = [st.starts EXCEPT ![i] = Kept(p.records[p.info[i]])]

(* What one segment does to the table.                                     *)
LEMMA SegmentIs ==
    ASSUME NEW p, HasTable(p), NEW i \in 1 .. p.segCount, NEW st \in Tables(p)
    PROVE  LET x == ParseSegment(p, st, i)
           IN  /\ x \in Tables(p)
               /\ \/ x = st /\ (~st.ok \/ p.info[i] = 0)
                  \/ st.ok /\ p.info[i] # 0 /\ (Refused(p, st, i, x) \/ Joins(p, st, i, x))
<1> DEFINE off == p.info[i]
           r == p.records[off]
           k == Kept(r)
           s == IF RecordFits(p, off) THEN [st.starts EXCEPT ![i] = k] ELSE st.starts
           x == ParseSegment(p, st, i)
           no == FALSE
           o == r.maxValid = 0 \/ st.maxValid \in {0, r.maxValid}
           m == IF st.maxValid = 0 THEN r.maxValid ELSE st.maxValid
<1>1. x = IF ~st.ok \/ off = 0 THEN st
          ELSE IF ~RecordFits(p, off) \/ st.format \notin {0, r.format}
          THEN TableOf(no, st.format, st.maxValid, s)
          ELSE TableOf(o, r.format, m, s)
  BY DEF ParseSegment, TableOf
<1>2. CASE ~st.ok \/ off = 0
  BY <1>1, <1>2
<1>3. CASE st.ok /\ off # 0
  <2>1. r \in Records
    BY <1>3 DEF HasTable
  <2>2. /\ r.format \in Nat /\ r.maxValid \in Nat /\ k \in Extents
        /\ st.format \in Nat /\ st.maxValid \in Nat /\ st.starts \in [1 .. p.segCount -> Extents]
    BY <2>1, RecordIs, TableIs
  <2> HIDE DEF k
  <2>3. s \in [1 .. p.segCount -> Extents]
    BY <2>2
  <2>4. o \in BOOLEAN /\ m \in Nat /\ no \in BOOLEAN
    BY <2>2
  <2>5. RecordFits(p, off) => s = [st.starts EXCEPT ![i] = k]
    OBVIOUS
  <2>6. ~no
    OBVIOUS
  <2> HIDE DEF s, o, m, x, r, off, no
  <2>7. CASE ~RecordFits(p, off) \/ st.format \notin {0, r.format}
    <3>1. x = TableOf(no, st.format, st.maxValid, s)
      BY <1>1, <1>3, <2>7
    <3>2. x \in Tables(p) /\ x.ok = no /\ x.format = st.format
      BY <2>2, <2>3, <2>4, <3>1, TableOfIs
    <3> QED BY <1>3, <2>6, <2>7, <3>2 DEF Refused, x, off, r
  <2>8. CASE RecordFits(p, off) /\ st.format \in {0, r.format}
    <3>1. x = TableOf(o, r.format, m, s)
      BY <1>1, <1>3, <2>8
    <3>2. x \in Tables(p) /\ x.format = r.format /\ x.starts = s
      BY <2>2, <2>3, <2>4, <3>1, TableOfIs, SMTT(30)
    <3> QED BY <1>3, <2>5, <2>8, <3>2 DEF Joins, x, off, r, k
  <2> QED BY <2>7, <2>8
<1> QED BY <1>2, <1>3

(* The table before the first segment.                                     *)
LEMMA UnreadIs ==
    ASSUME NEW p, p.segCount \in Nat, NEW f \in Nat
    PROVE  /\ Unread(p, f) \in Tables(p)
           /\ Unread(p, f).ok /\ Unread(p, f).format = f /\ Unread(p, f).maxValid = 0
           /\ \A i \in 1 .. p.segCount : Unread(p, f).starts[i] = NoStarts
<1> DEFINE s == [i \in 1 .. p.segCount |-> NoStarts]
           yes == TRUE
           z == 0
           t == TableOf(yes, f, z, s)
<1>1. NoStarts \in Extents
  BY DEF NoStarts, Extents
<1>2. s \in [1 .. p.segCount -> Extents] /\ \A i \in 1 .. p.segCount : s[i] = NoStarts
  BY <1>1
<1>3. Unread(p, f) = t
  BY DEF Unread, TableOf
<1>4. yes \in BOOLEAN /\ yes /\ z \in Nat /\ z = 0
  OBVIOUS
<1>5. t = TableOf(yes, f, z, s)
  OBVIOUS
<1> HIDE DEF s, yes, z, t
<1>6. s \in [1 .. p.segCount -> Extents]
  BY <1>2
<1>7. yes \in BOOLEAN /\ z \in Nat
  BY <1>4
<1>8. t \in Tables(p) /\ t.ok = yes /\ t.format = f /\ t.maxValid = z /\ t.starts = s
  BY <1>5, <1>6, <1>7, TableOfIs
<1> QED BY <1>2, <1>3, <1>4, <1>8

(* The table after each segment.                                           *)
LEMMA SegmentsAre ==
    ASSUME NEW p, HasTable(p), NEW f \in Nat
    PROVE  /\ Segments(p, f)[0] = Unread(p, f)
           /\ \A i \in 1 .. p.segCount : Segments(p, f)[i] = ParseSegment(p, Segments(p, f)[i - 1], i)
           /\ \A i \in 0 .. p.segCount : Segments(p, f)[i] \in Tables(p)
<1> DEFINE N == p.segCount
           D == 0 .. N
           V == Tables(p)
           a == Unread(p, f)
           Code(u, i) == IF i = 0 THEN a ELSE ParseSegment(p, u[i - 1], i)
           after == CHOOSE u : u = [i \in D |-> Code(u, i)]
           step == [y \in D \X V |-> IF y[1] = 0 THEN a ELSE ParseSegment(p, y[2], y[1])]
<1>1. N \in Nat
  BY DEF HasTable
<1>2. a \in V
  BY <1>1, UnreadIs
<1>3. Segments(p, f) = after
  BY DEF Segments
<1>4. step \in [D \X V -> V]
  <2>1. ASSUME NEW i \in D, NEW t \in V, i # 0 PROVE ParseSegment(p, t, i) \in V
    <3>1. i \in 1 .. p.segCount
      BY <1>1, <2>1
    <3> QED BY <3>1, SegmentIs
  <2> HIDE DEF V, D, a
  <2> QED BY <1>2, <2>1
<1>5. PICK g \in [D -> V] : Carries(g, N, a, step)
  <2> HIDE DEF step, V, a
  <2> QED BY <1>1, <1>2, <1>4, FoldExists
<1>6. ASSUME NEW i \in D PROVE g[i] = Code(g, i)
  <2>1. CASE i = 0
    <3> HIDE DEF step
    <3> QED BY <1>5, <2>1 DEF Carries
  <2>2. CASE i # 0
    <3> DEFINE v == g[i - 1]
    <3>1. i - 1 \in D /\ v \in V
      BY <1>1, <2>2
    <3>2. g[i] = step[<<i, v>>]
      BY <1>5, <2>2 DEF Carries
    <3>3. \A j \in D, t \in V : step[<<j, t>>] = IF j = 0 THEN a ELSE ParseSegment(p, t, j)
      <4> HIDE DEF D, V, a
      <4> QED OBVIOUS
    <3> HIDE DEF step, D, v, V, a
    <3>4. g[i] = ParseSegment(p, v, i)
      BY <2>2, <3>1, <3>2, <3>3
    <3> QED BY <2>2, <3>4 DEF v
  <2> QED BY <2>1, <2>2
<1>7. g = [i \in D |-> Code(g, i)]
  <2> HIDE DEF Code, D, V
  <2> QED BY <1>5, <1>6
<1>8. after = [i \in D |-> Code(after, i)]
  <2> HIDE DEF Code, D
  <2> QED BY <1>7
<1> HIDE DEF after
<1>9. after[0] = a /\ \A i \in 1 .. N : after[i] = ParseSegment(p, after[i - 1], i)
  <2>1. \A i \in D : after[i] = Code(after, i)
    <3> HIDE DEF Code, D
    <3> QED BY <1>8
  <2>2. 0 \in D /\ \A i \in 1 .. N : i \in D /\ i # 0
    BY <1>1
  <2> HIDE DEF D, a, N
  <2> QED BY <2>1, <2>2
<1> DEFINE S == {i \in D : after[i] \in V}
<1>10. 0 \in S
  BY <1>1, <1>2, <1>9
<1>11. ASSUME NEW i \in 1 .. N, i - 1 \in S PROVE i \in S
  <2>1. after[i - 1] \in V /\ i \in D
    BY <1>1, <1>11
  <2>2. ParseSegment(p, after[i - 1], i) \in V
    BY <2>1, SegmentIs
  <2> QED BY <1>9, <2>1, <2>2
<1>12. \A i \in D : after[i] \in V
  <2>1. \A i \in 0 .. N : i \in S
    <3> HIDE DEF S, N
    <3> QED BY <1>1, <1>10, <1>11, CountInduction
  <2> QED BY <2>1
<1> QED BY <1>2, <1>3, <1>9, <1>12

(* What a table that is read without an error says of one segment.         *)
SegmentRead(p, t, j) ==
    IF p.info[j] = 0 THEN t.starts[j] = NoStarts
    ELSE /\ RecordFits(p, p.info[j])
         /\ p.records[p.info[j]].format = t.format
         /\ t.starts[j] = Kept(p.records[p.info[j]])

(* A table read without an error says so of every segment: the format of   *)
(* the first record is that of all.                                        *)
LEMMA TableIsRead ==
    ASSUME NEW p, HasTable(p), NEW f \in Nat, Segments(p, f)[p.segCount].ok
    PROVE  \A j \in 1 .. p.segCount : SegmentRead(p, Segments(p, f)[p.segCount], j)
<1> DEFINE N == p.segCount
           T(i) == Segments(p, f)[i]
           S == {i \in 0 .. N : T(i).ok => /\ \A j \in 1 .. i : SegmentRead(p, T(i), j)
                                           /\ \A j \in i + 1 .. N : T(i).starts[j] = NoStarts}
<1>1. N \in Nat
  BY DEF HasTable
<1>2. 0 \in S
  <2>1. \A j \in 1 .. N : T(0).starts[j] = NoStarts
    BY <1>1, SegmentsAre, UnreadIs
  <2> HIDE DEF T, N
  <2> QED BY <1>1, <2>1
<1>3. ASSUME NEW i \in 1 .. N, i - 1 \in S PROVE i \in S
  <2> DEFINE t == T(i - 1)
             x == T(i)
  <2>1. t \in Tables(p) /\ x = ParseSegment(p, t, i)
    <3>1. i - 1 \in 0 .. p.segCount /\ i \in 1 .. p.segCount
      BY <1>1
    <3> QED BY <3>1, SegmentsAre
  <2>2. \/ x = t /\ (~t.ok \/ p.info[i] = 0)
        \/ t.ok /\ p.info[i] # 0 /\ (Refused(p, t, i, x) \/ Joins(p, t, i, x))
    BY <2>1, SegmentIs
  <2>3. t.ok => /\ \A j \in 1 .. i - 1 : SegmentRead(p, t, j)
                /\ \A j \in i .. N : t.starts[j] = NoStarts
    <3>1. (i - 1) + 1 = i
      BY <1>1
    <3> HIDE DEF T
    <3> QED BY <1>3, <3>1
  <2>4. t.starts \in [1 .. N -> Extents]
    BY <2>1, TableIs
  <2> HIDE DEF t, x
  <2>5. CASE x = t /\ (~t.ok \/ p.info[i] = 0)
    <3>1. x.ok => SegmentRead(p, x, i)
      BY <1>1, <2>3, <2>5 DEF SegmentRead
    <3>2. \A j \in 1 .. i : j = i \/ j \in 1 .. i - 1
      BY <1>1
    <3>3. \A j \in i + 1 .. N : j \in i .. N
      BY <1>1
    <3>4. x.ok => /\ \A j \in 1 .. i : SegmentRead(p, x, j)
                  /\ \A j \in i + 1 .. N : x.starts[j] = NoStarts
      BY <2>3, <2>5, <3>1, <3>2, <3>3
    <3>5. i \in 0 .. N
      BY <1>1
    <3> QED BY <3>4, <3>5 DEF x
  <2>6. CASE t.ok /\ p.info[i] # 0 /\ Refused(p, t, i, x)
    <3>1. ~x.ok /\ i \in 0 .. N
      BY <1>1, <2>6 DEF Refused
    <3> QED BY <3>1 DEF x
  <2>7. CASE t.ok /\ p.info[i] # 0 /\ Joins(p, t, i, x)
    <3> DEFINE k == Kept(p.records[p.info[i]])
    <3>1. /\ RecordFits(p, p.info[i]) /\ x.format = p.records[p.info[i]].format
          /\ x.starts = [t.starts EXCEPT ![i] = k] /\ t.format \in {0, x.format}
      BY <2>7 DEF Joins
    <3> HIDE DEF k
    <3>2. x.starts[i] = k /\ \A j \in 1 .. N : j # i => x.starts[j] = t.starts[j]
      BY <2>4, <3>1
    <3>3. SegmentRead(p, x, i)
      BY <2>7, <3>1, <3>2 DEF SegmentRead, k
    <3>4. ASSUME NEW j \in 1 .. i - 1 PROVE SegmentRead(p, x, j)
      <4>1. j \in 1 .. N /\ j # i
        BY <1>1
      <4>2. x.starts[j] = t.starts[j] /\ SegmentRead(p, t, j)
        BY <2>3, <2>7, <3>2, <4>1
      <4>3. CASE p.info[j] = 0
        BY <4>2, <4>3 DEF SegmentRead
      <4>4. CASE p.info[j] # 0
        <5>1. RecordFits(p, p.info[j]) /\ p.records[p.info[j]].format = t.format
          BY <4>2, <4>4 DEF SegmentRead
        <5>2. t.format # 0
          BY <5>1, SizesAssumption DEF RecordFits
        <5> QED BY <3>1, <4>2, <4>4, <5>1, <5>2 DEF SegmentRead
      <4> QED BY <4>3, <4>4
    <3>5. \A j \in 1 .. i : j = i \/ j \in 1 .. i - 1
      BY <1>1
    <3>6. \A j \in i + 1 .. N : j \in i .. N /\ j \in 1 .. N /\ j # i
      BY <1>1
    <3>7. \A j \in i + 1 .. N : x.starts[j] = NoStarts
      BY <2>3, <2>7, <3>2, <3>6
    <3>8. i \in 0 .. N
      BY <1>1
    <3> QED BY <3>3, <3>4, <3>5, <3>7, <3>8 DEF x
  <2> QED BY <2>2, <2>5, <2>6, <2>7
<1>4. N \in S
  <2>1. \A i \in 0 .. N : i \in S
    <3> HIDE DEF S, N
    <3> QED BY <1>1, <1>2, <1>3, CountInduction
  <2> QED BY <1>1, <2>1
<1> QED BY <1>1, <1>4

(* A segment changes no format but that of a table which had none.         *)
LEMMA FormatStays ==
    ASSUME NEW p, HasTable(p), NEW i \in 1 .. p.segCount, NEW st \in Tables(p), st.format # 0
    PROVE  ParseSegment(p, st, i).format = st.format
<1> DEFINE x == ParseSegment(p, st, i)
<1>1. x = st \/ Refused(p, st, i, x) \/ Joins(p, st, i, x)
  BY SegmentIs
<1> HIDE DEF x
<1> QED BY <1>1 DEF Refused, Joins, x

(* Two tables that are alike but for the format, and in which one has none *)
(* or that of the other.                                                   *)
Alike(s, t, F) ==
    /\ s.ok = t.ok /\ s.maxValid = t.maxValid /\ s.starts = t.starts
    /\ s.format \in {0, F} /\ t.format = F

(* They are alike after a segment, when the first has still none or that   *)
(* format.                                                                 *)
LEMMA AlikeAfter ==
    ASSUME NEW p, HasTable(p), NEW i \in 1 .. p.segCount, NEW F \in Nat,
           NEW s \in Tables(p), NEW t \in Tables(p), Alike(s, t, F),
           ParseSegment(p, s, i).format \in {0, F}
    PROVE  Alike(ParseSegment(p, s, i), ParseSegment(p, t, i), F)
<1> DEFINE off == p.info[i]
           r == p.records[off]
           starts == IF RecordFits(p, off) THEN [s.starts EXCEPT ![i] = Kept(r)] ELSE s.starts
           o == r.maxValid = 0 \/ s.maxValid \in {0, r.maxValid}
           m == IF s.maxValid = 0 THEN r.maxValid ELSE s.maxValid
           x == ParseSegment(p, s, i)
           y == ParseSegment(p, t, i)
           no == FALSE
<1>1. s.ok = t.ok /\ s.maxValid = t.maxValid /\ s.starts = t.starts /\ s.format \in {0, F} /\ t.format = F
  BY DEF Alike
<1>2. x = IF ~s.ok \/ off = 0 THEN s
          ELSE IF ~RecordFits(p, off) \/ s.format \notin {0, r.format}
          THEN TableOf(no, s.format, s.maxValid, starts)
          ELSE TableOf(o, r.format, m, starts)
  BY DEF ParseSegment, TableOf
<1>3. y = IF ~s.ok \/ off = 0 THEN t
          ELSE IF ~RecordFits(p, off) \/ t.format \notin {0, r.format}
          THEN TableOf(no, t.format, s.maxValid, starts)
          ELSE TableOf(o, r.format, m, starts)
  BY <1>1 DEF ParseSegment, TableOf
<1>4. \A a, b, c, d : /\ TableOf(a, b, c, d).ok = a /\ TableOf(a, b, c, d).format = b
                      /\ TableOf(a, b, c, d).maxValid = c /\ TableOf(a, b, c, d).starts = d
  BY DEF TableOf
<1>5. RecordFits(p, off) => r.format # 0
  BY SizesAssumption DEF RecordFits
<1>6. x.format \in {0, F}
  OBVIOUS
<1> HIDE DEF off, r, starts, o, m, x, y, no
<1>7. CASE ~s.ok \/ off = 0
  BY <1>1, <1>2, <1>3, <1>7 DEF Alike, x, y
<1>8. CASE ~(~s.ok \/ off = 0) /\ ~RecordFits(p, off)
  <2>1. x = TableOf(no, s.format, s.maxValid, starts) /\ y = TableOf(no, t.format, s.maxValid, starts)
    BY <1>2, <1>3, <1>8
  <2> QED BY <1>1, <1>4, <2>1 DEF Alike, x, y
<1>9. CASE ~(~s.ok \/ off = 0) /\ RecordFits(p, off) /\ s.format = 0
  <2>1. x = TableOf(o, r.format, m, starts)
    BY <1>2, <1>9
  <2>2. x.format = r.format
    BY <1>4, <2>1
  <2>3. r.format = F
    BY <1>5, <1>6, <1>9, <2>2
  <2>4. y = TableOf(o, r.format, m, starts)
    BY <1>1, <1>3, <1>9, <2>3
  <2> QED BY <1>4, <2>1, <2>3, <2>4 DEF Alike, x, y
<1>10. CASE ~(~s.ok \/ off = 0) /\ RecordFits(p, off) /\ s.format # 0
  <2>1. s.format = F /\ t.format = s.format
    BY <1>1, <1>10
  <2>2. x = y
    BY <1>2, <1>3, <1>10, <2>1
  <2> QED BY <1>1, <1>2, <1>4, <1>6, <1>10, <2>1, <2>2, FormatStays DEF Alike, x, y
<1> QED BY <1>7, <1>8, <1>9, <1>10

(* The table that is read from no format, and its format.                  *)
FirstTable(p) == Segments(p, 0)[p.segCount]

(* A failed call leaves a format behind; from there the next call reads    *)
(* the same.                                                               *)
LEMMA ReadAgainAlike ==
    ASSUME NEW p, HasTable(p)
    PROVE  Alike(FirstTable(p), Segments(p, FirstTable(p).format)[p.segCount], FirstTable(p).format)
<1> DEFINE N == p.segCount
           F == FirstTable(p).format
           T(i) == Segments(p, 0)[i]
           U(i) == Segments(p, F)[i]
<1>1. N \in Nat
  BY DEF HasTable
<1>2. F \in Nat
  BY <1>1, SegmentsAre, TableIs DEF FirstTable
<1>3. ASSUME NEW i \in 0 .. N PROVE T(i).format \in {0, F}
  <2> DEFINE S == {k \in 0 .. N : i <= k => T(k).format = T(i).format}
  <2>1. CASE T(i).format # 0
    <3>1. 0 \in S
      BY <1>1
    <3>2. ASSUME NEW k \in 1 .. N, k - 1 \in S PROVE k \in S
      <4>1. CASE i <= k - 1
        <5>1. k - 1 \in 0 .. N /\ T(k - 1).format = T(i).format
          BY <3>2, <4>1
        <5>2. T(k - 1) \in Tables(p) /\ T(k) = ParseSegment(p, T(k - 1), k)
          BY <5>1, SegmentsAre
        <5>3. T(k).format = T(k - 1).format
          <6> HIDE DEF T
          <6> QED BY <2>1, <5>1, <5>2, FormatStays
        <5> QED BY <1>1, <5>1, <5>3
      <4>2. CASE ~(i <= k - 1)
        <5>1. i <= k => i = k
          BY <1>1, <4>2
        <5> HIDE DEF T
        <5> QED BY <1>1, <5>1
      <4> QED BY <4>1, <4>2
    <3>3. \A k \in 0 .. N : k \in S
      <4> HIDE DEF S, N
      <4> QED BY <1>1, <3>1, <3>2, CountInduction
    <3>4. N \in S /\ i <= N
      BY <1>1, <3>3
    <3>5. T(N).format = T(i).format
      BY <3>4
    <3> QED BY <3>5 DEF FirstTable
  <2> QED BY <2>1
<1> DEFINE S == {i \in 0 .. N : Alike(T(i), U(i), F)}
<1>4. 0 \in S
  <2>1. T(0) = Unread(p, 0) /\ U(0) = Unread(p, F)
    BY <1>2, SegmentsAre
  <2>2. Unread(p, 0).ok = Unread(p, F).ok /\ Unread(p, 0).maxValid = Unread(p, F).maxValid
        /\ Unread(p, 0).starts = Unread(p, F).starts
        /\ Unread(p, 0).format = 0 /\ Unread(p, F).format = F
    BY DEF Unread
  <2> HIDE DEF T, U, F
  <2>3. Alike(T(0), U(0), F)
    BY <2>1, <2>2 DEF Alike
  <2> QED BY <1>1, <2>3
<1>5. ASSUME NEW i \in 1 .. N, i - 1 \in S PROVE i \in S
  <2>1. i - 1 \in 0 .. N /\ i \in 0 .. N /\ Alike(T(i - 1), U(i - 1), F)
    BY <1>1, <1>5
  <2>2. /\ T(i - 1) \in Tables(p) /\ T(i) = ParseSegment(p, T(i - 1), i)
        /\ U(i - 1) \in Tables(p) /\ U(i) = ParseSegment(p, U(i - 1), i)
    BY <1>2, <2>1, SegmentsAre
  <2>3. T(i).format \in {0, F}
    BY <1>3, <2>1
  <2> HIDE DEF T, U, F
  <2>4. Alike(T(i), U(i), F)
    BY <1>2, <2>1, <2>2, <2>3, AlikeAfter
  <2> QED BY <2>1, <2>4
<1>6. N \in S
  <2>1. \A i \in 0 .. N : i \in S
    <3> HIDE DEF S, N
    <3> QED BY <1>1, <1>4, <1>5, CountInduction
  <2> QED BY <1>1, <2>1
<1> QED BY <1>6 DEF FirstTable

-----------------------------------------------------------------------------
(* What a call answers depends on the payload alone.                       *)
MetadataReads(p) == StartsFit(p) /\ FirstTable(p).ok

CountIsValid(p) ==
    p.count = 0 \/ (MaxOrdinal(FirstTable(p).format) # 0 /\ p.count < MaxOrdinal(FirstTable(p).format))

ImportsRead(p) ==
    MetadataReads(p) /\ CountIsValid(p) /\ validateImportsLayout(p) /\ parseImports(p)

DcfOf(m, i, f, s, n) ==
    [metadataParsed |-> m, importsParsed |-> i, format |-> f, starts |-> s, imports |-> n]

IsDcf(d) == d = DcfOf(d.metadataParsed, d.importsParsed, d.format, d.starts, d.imports)

SetStarts(d, m, f, s) == [d EXCEPT !.metadataParsed = m, !.format = f, !.starts = s]

SetImports(d, i, n) == [d EXCEPT !.importsParsed = i, !.imports = n]

(* The fields that a call changes, and the others.                         *)
LEMMA StartsAreSet ==
    ASSUME NEW d, IsDcf(d), NEW m, NEW f, NEW s, NEW e,
           e = SetStarts(d, m, f, s)
    PROVE  /\ IsDcf(e) /\ e.metadataParsed = m /\ e.format = f /\ e.starts = s
           /\ e.importsParsed = d.importsParsed /\ e.imports = d.imports
BY DEF IsDcf, DcfOf, SetStarts

(* Likewise for the imports.                                               *)
LEMMA ImportsAreSet ==
    ASSUME NEW d, IsDcf(d), NEW i, NEW n, NEW e,
           e = SetImports(d, i, n)
    PROVE  /\ IsDcf(e) /\ e.importsParsed = i /\ e.imports = n
           /\ e.metadataParsed = d.metadataParsed /\ e.format = d.format /\ e.starts = d.starts
BY DEF IsDcf, DcfOf, SetImports

(* What is kept is what the payload reads as; a call that failed leaves at *)
(* most the format.                                                        *)
SoundDcf(p, d) ==
    /\ IsDcf(d)
    /\ d.metadataParsed => /\ MetadataReads(p) /\ d.format = FirstTable(p).format
                           /\ d.starts = FirstTable(p).starts
    /\ ~d.metadataParsed => d.format = 0 \/ (StartsFit(p) /\ d.format = FirstTable(p).format)
    /\ d.importsParsed => d.metadataParsed /\ ImportsRead(p) /\ d.imports = p.count

(* A payload whose table fits.                                             *)
LEMMA TableFits ==
    ASSUME NEW p \in Payloads, StartsFit(p)
    PROVE  HasTable(p)
BY PayloadsAssumption DEF HasTable

(* ParseStarts answers the same whatever failed before.                    *)
LEMMA StartsAnswer ==
    ASSUME NEW p \in Payloads, NEW d, SoundDcf(p, d)
    PROVE  LET m == parseStartsLocked(p, d)
           IN  /\ SoundDcf(p, m.d) /\ (m.ok <=> MetadataReads(p))
               /\ m.ok => m.d.metadataParsed
               /\ d.metadataParsed => m.d = d
<1> DEFINE t == Table(p, d)
           F == FirstTable(p)
           m == parseStartsLocked(p, d)
           e == [d EXCEPT !.metadataParsed = t.ok, !.format = t.format, !.starts = t.starts]
           Of(o, x) == [ok |-> o, d |-> x]
<1>1. \A o, x : Of(o, x).ok = o /\ Of(o, x).d = x
  OBVIOUS
<1>2. m = IF d.metadataParsed THEN Of(TRUE, d) ELSE IF ~StartsFit(p) THEN Of(FALSE, d) ELSE Of(t.ok, e)
  BY DEF parseStartsLocked
<1> HIDE DEF m, Of
<1>3. CASE d.metadataParsed
  <2>1. m = Of(TRUE, d)
    BY <1>2, <1>3
  <2>2. m.ok /\ m.d = d
    BY <1>1, <2>1
  <2> QED BY <1>3, <2>2 DEF SoundDcf, m
<1>4. CASE ~d.metadataParsed /\ ~StartsFit(p)
  <2>1. m = Of(FALSE, d)
    BY <1>2, <1>4
  <2>2. ~m.ok /\ m.d = d
    BY <1>1, <2>1
  <2> QED BY <1>4, <2>2 DEF MetadataReads, m
<1>5. CASE ~d.metadataParsed /\ StartsFit(p)
  <2>1. m = Of(t.ok, e)
    BY <1>2, <1>5
  <2>2. m.ok = t.ok /\ m.d = e
    BY <1>1, <2>1
  <2>3. t.ok = F.ok /\ t.starts = F.starts /\ t.format = F.format
    <3>1. d.format = 0 \/ d.format = F.format
      BY <1>5 DEF SoundDcf
    <3>2. CASE d.format = 0
      BY <3>2 DEF Table, FirstTable
    <3>3. CASE d.format = F.format
      BY <1>5, <3>3, TableFits, ReadAgainAlike DEF Table, Alike
    <3> QED BY <3>1, <3>2, <3>3
  <2>4. ~d.importsParsed
    BY <1>5 DEF SoundDcf
  <2> HIDE DEF t
  <2>5. IsDcf(d) /\ e = SetStarts(d, t.ok, t.format, t.starts)
    BY DEF SoundDcf, SetStarts
  <2> HIDE DEF e
  <2>6. /\ IsDcf(e) /\ e.metadataParsed = t.ok /\ e.importsParsed = d.importsParsed
        /\ e.format = t.format /\ e.starts = t.starts /\ e.imports = d.imports
    BY <2>5, StartsAreSet
  <2>7. MetadataReads(p) <=> F.ok
    BY <1>5 DEF MetadataReads
  <2>8. SoundDcf(p, e)
    BY <1>5, <2>3, <2>4, <2>6, <2>7 DEF SoundDcf
  <2> QED BY <1>5, <2>2, <2>3, <2>6, <2>7, <2>8 DEF m
<1> QED BY <1>3, <1>4, <1>5

(* So does every call that needs the imports.                              *)
LEMMA ImportsAnswer ==
    ASSUME NEW p \in Payloads, NEW d, SoundDcf(p, d)
    PROVE  LET r == ensureImportsLocked(p, d)
           IN  /\ SoundDcf(p, r.d) /\ (r.ok <=> ImportsRead(p))
               /\ d.metadataParsed => r.d.metadataParsed
<1> DEFINE m == parseStartsLocked(p, d)
           r == ensureImportsLocked(p, d)
           yes == TRUE
           e == [m.d EXCEPT !.importsParsed = yes, !.imports = p.count]
           Of(o, x) == [ok |-> o, d |-> x]
           Reads == validateImportCount(p, m.d) /\ validateImportsLayout(p) /\ parseImports(p)
<1>1. \A o, x : Of(o, x).ok = o /\ Of(o, x).d = x
  OBVIOUS
<1>2. r = IF d.importsParsed THEN Of(TRUE, d) ELSE IF ~m.ok THEN m
          ELSE IF Reads THEN Of(TRUE, e) ELSE Of(FALSE, m.d)
  BY DEF ensureImportsLocked
<1>3. /\ SoundDcf(p, m.d) /\ (m.ok <=> MetadataReads(p)) /\ (m.ok => m.d.metadataParsed)
      /\ (d.metadataParsed => m.d = d)
  BY StartsAnswer
<1>4. m.ok => (ImportsRead(p) <=> Reads)
  BY <1>3 DEF SoundDcf, ImportsRead, CountIsValid, validateImportCount
<1> HIDE DEF m, r, Of, Reads
<1>5. CASE d.importsParsed
  <2>1. r = Of(TRUE, d)
    BY <1>2, <1>5
  <2>2. r.ok /\ r.d = d
    BY <1>1, <2>1
  <2> QED BY <1>5, <2>2 DEF SoundDcf, r
<1>6. CASE ~d.importsParsed /\ ~m.ok
  <2>1. r = m
    BY <1>2, <1>6
  <2> QED BY <1>3, <1>6, <2>1 DEF ImportsRead, r
<1>7. CASE ~d.importsParsed /\ m.ok /\ ~Reads
  <2>1. r = Of(FALSE, m.d)
    BY <1>2, <1>7
  <2>2. ~r.ok /\ r.d = m.d
    BY <1>1, <2>1
  <2> QED BY <1>3, <1>4, <1>7, <2>2 DEF r
<1>8. CASE ~d.importsParsed /\ m.ok /\ Reads
  <2>1. r = Of(TRUE, e)
    BY <1>2, <1>8
  <2>2. r.ok /\ r.d = e
    BY <1>1, <2>1
  <2> DEFINE x == m.d
  <2>3. SoundDcf(p, x) /\ x.metadataParsed /\ ImportsRead(p)
    BY <1>3, <1>4, <1>8
  <2>4. IsDcf(x) /\ e = SetImports(x, yes, p.count)
    BY <2>3 DEF SoundDcf, SetImports
  <2> HIDE DEF e, x, yes
  <2>5. /\ IsDcf(e) /\ e.importsParsed = yes /\ e.imports = p.count
        /\ e.metadataParsed = x.metadataParsed /\ e.format = x.format /\ e.starts = x.starts
    BY <2>4, ImportsAreSet
  <2>6. SoundDcf(p, e)
    BY <2>3, <2>5 DEF SoundDcf
  <2> QED BY <2>2, <2>3, <2>5, <2>6 DEF r
<1> QED BY <1>5, <1>6, <1>7, <1>8

-----------------------------------------------------------------------------
(* The inductive invariant: every call so far has answered what holds of   *)
(* the payload, and the metadata stays once it is read.                    *)
Answers(c, holds) ==
    (<<c, TRUE>> \in answers => holds) /\ (<<c, FALSE>> \in answers => ~holds)

MetadataInv ==
    /\ payload \in Payloads /\ SoundDcf(payload, dcf)
    /\ Answers("ParseStarts", MetadataReads(payload))
    /\ <<"ParseStarts", TRUE>> \in answers => dcf.metadataParsed
    /\ Answers("EnsureImports", ImportsRead(payload)) /\ Answers("Parse", ImportsRead(payload))

(* Nothing is read at first.                                               *)
LEMMA NothingIsRead == MetadataInit => MetadataInv
<1> SUFFICES ASSUME MetadataInit PROVE MetadataInv
  OBVIOUS
<1>1. payload \in Payloads /\ answers = {} /\ dcf = NothingRead
  BY DEF MetadataInit
<1>2. IsDcf(dcf) /\ ~dcf.metadataParsed /\ ~dcf.importsParsed /\ dcf.format = 0
  BY <1>1 DEF NothingRead, IsDcf, DcfOf
<1> QED BY <1>1, <1>2 DEF MetadataInv, SoundDcf, Answers

(* A call that answers what holds, and keeps what is read, keeps the       *)
(* invariant.                                                              *)
LEMMA Answered ==
    ASSUME MetadataInv, NEW c, NEW r, Answer(c, r), SoundDcf(payload, r.d),
           dcf.metadataParsed => r.d.metadataParsed,
           c = "ParseStarts" => (r.ok <=> MetadataReads(payload)) /\ (r.ok => r.d.metadataParsed),
           c \in {"EnsureImports", "Parse"} => (r.ok <=> ImportsRead(payload))
    PROVE  MetadataInv'
<1>1. payload' = payload /\ dcf' = r.d /\ answers' = answers \cup {<<c, r.ok>>}
  BY DEF Answer
<1>2. payload \in Payloads
  BY DEF MetadataInv
<1>3. \A a, b : <<a, b>> \in answers' => <<a, b>> \in answers \/ (a = c /\ b = r.ok)
  BY <1>1
<1>4. Answers("ParseStarts", MetadataReads(payload))'
  BY <1>1, <1>3 DEF MetadataInv, Answers
<1>5. <<"ParseStarts", TRUE>> \in answers' => dcf'.metadataParsed
  BY <1>1, <1>3 DEF MetadataInv, Answers
<1>6. Answers("EnsureImports", ImportsRead(payload))' /\ Answers("Parse", ImportsRead(payload))'
  BY <1>1, <1>3 DEF MetadataInv, Answers
<1> QED BY <1>1, <1>2, <1>4, <1>5, <1>6 DEF MetadataInv

(* Every call keeps the invariant.                                         *)
LEMMA MetadataStep == MetadataInv /\ [MetadataNext]_metadataVars => MetadataInv'
<1> SUFFICES ASSUME MetadataInv, [MetadataNext]_metadataVars PROVE MetadataInv'
  OBVIOUS
<1> DEFINE m == parseStartsLocked(payload, dcf)
<1>1. payload \in Payloads /\ SoundDcf(payload, dcf)
  BY DEF MetadataInv
<1>2. /\ SoundDcf(payload, m.d) /\ (m.ok <=> MetadataReads(payload))
      /\ (m.ok => m.d.metadataParsed) /\ (dcf.metadataParsed => m.d = dcf)
  BY <1>1, StartsAnswer
<1> HIDE DEF m
<1>3. CASE ParseStarts
  <2>1. Answer("ParseStarts", m)
    BY <1>3 DEF ParseStarts, m
  <2> QED BY <1>2, <2>1, Answered
<1>4. CASE EnsureImports
  <2> DEFINE r == ensureImportsLocked(payload, dcf)
  <2>1. Answer("EnsureImports", r)
    BY <1>4 DEF EnsureImports
  <2>2. /\ SoundDcf(payload, r.d) /\ (r.ok <=> ImportsRead(payload))
        /\ (dcf.metadataParsed => r.d.metadataParsed)
    BY <1>1, ImportsAnswer
  <2> HIDE DEF r
  <2> QED BY <2>1, <2>2, Answered
<1>5. CASE Parse
  <2> DEFINE i == ensureImportsLocked(payload, m.d)
             r == IF m.ok THEN i ELSE m
  <2>1. Answer("Parse", r)
    BY <1>5 DEF Parse, m
  <2>2. SoundDcf(payload, i.d) /\ (i.ok <=> ImportsRead(payload))
        /\ (m.d.metadataParsed => i.d.metadataParsed)
    BY <1>1, <1>2, ImportsAnswer
  <2> HIDE DEF i
  <2>3. /\ SoundDcf(payload, r.d) /\ (r.ok <=> ImportsRead(payload))
        /\ (dcf.metadataParsed => r.d.metadataParsed)
    <3>1. CASE m.ok
      BY <1>2, <2>2, <3>1
    <3>2. CASE ~m.ok
      BY <1>2, <3>2 DEF ImportsRead
    <3> QED BY <3>1, <3>2
  <2> HIDE DEF r
  <2> QED BY <2>1, <2>3, Answered
<1>6. CASE ResolveRaw
  <2> DEFINE n == IF dcf.format = 0 THEN m ELSE [ok |-> TRUE, d |-> dcf]
             r == [ok |-> n.ok /\ n.d.format # 0, d |-> n.d]
  <2>1. Answer("ResolveRaw", r)
    BY <1>6 DEF ResolveRaw, m
  <2>2. SoundDcf(payload, n.d) /\ (dcf.metadataParsed => n.d.metadataParsed)
    BY <1>1, <1>2
  <2>3. r.d = n.d
    OBVIOUS
  <2> HIDE DEF r, n
  <2> QED BY <2>1, <2>2, <2>3, Answered
<1>7. CASE UNCHANGED metadataVars
  BY <1>7 DEF metadataVars, MetadataInv, Answers
<1> QED BY <1>3, <1>4, <1>5, <1>6, <1>7 DEF MetadataNext

(* A record that fits lies inside the payload, before the imports, and its *)
(* size is that of what is kept.                                           *)
LEMMA FittingRecord ==
    ASSUME NEW p \in Payloads, StartsFit(p), NEW j \in 1 .. p.segCount, p.info[j] # 0,
           RecordFits(p, p.info[j])
    PROVE  LET r == p.records[p.info[j]]
           IN  /\ p.info[j] >= TableSize(p)
               /\ p.starts + p.info[j] + r.size <= p.size
               /\ p.starts + p.info[j] + r.size <= p.imports
               /\ RecordLen + 2 * (Kept(r).pages + Kept(r).extra) = r.size
<1> DEFINE r == p.records[p.info[j]]
           e == (r.size - MinimumSize(r)) \div 2
<1>1. r \in Records /\ p.info[j] \in Nat
  BY TableFits DEF HasTable
<1>2. /\ r.size \in Nat /\ r.pages \in Nat /\ MinimumSize(r) \in Nat
      /\ Kept(r).pages = r.pages /\ Kept(r).extra = e
  BY <1>1, RecordIs
<1>3. /\ p.info[j] >= TableSize(p) /\ r.size >= MinimumSize(r) /\ (r.size - MinimumSize(r)) % 2 = 0
      /\ p.starts + p.info[j] + r.size <= p.size /\ p.starts + p.info[j] + r.size <= p.imports
  BY DEF RecordFits
<1>4. MinimumSize(r) = RecordLen + 2 * r.pages
  BY DEF MinimumSize
<1> DEFINE n == r.size
           m == MinimumSize(r)
           g == r.pages
<1>5. n \in Nat /\ m \in Nat /\ g \in Nat /\ n >= m /\ (n - m) % 2 = 0 /\ m = RecordLen + 2 * g
  BY <1>2, <1>3, <1>4
<1> HIDE DEF n, m, g
<1>6. RecordLen + 2 * (g + (n - m) \div 2) = n
  BY <1>5, SizesAssumption
<1>7. RecordLen + 2 * (Kept(r).pages + Kept(r).extra) = r.size
  BY <1>2, <1>6 DEF n, m, g
<1> QED BY <1>3, <1>7

(* The metadata that is kept.                                              *)
LEMMA MetadataKept ==
    ASSUME MetadataInv, dcf.metadataParsed
    PROVE  LET p == payload
           IN  /\ Len(dcf.starts) = p.segCount
               /\ \A r \in Ranges(p) : r[2] <= p.imports /\ r[2] <= p.size
               /\ \A i \in 1 .. p.segCount :
                     IF p.info[i] = 0 THEN dcf.starts[i] = NoStarts
                     ELSE /\ p.info[i] >= TableSize(p)
                          /\ p.records[p.info[i]].format = dcf.format
                          /\ RecordLen + 2 * (dcf.starts[i].pages + dcf.starts[i].extra)
                                = p.records[p.info[i]].size
<1> DEFINE p == payload
           F == FirstTable(p)
<1>1. /\ p \in Payloads /\ StartsFit(p) /\ F.ok /\ dcf.format = F.format /\ dcf.starts = F.starts
  BY DEF MetadataInv, SoundDcf, MetadataReads
<1> HIDE DEF p
<1>2. HasTable(p) /\ p.segCount \in Nat
  BY <1>1, TableFits DEF HasTable
<1>3. \A i \in 1 .. p.segCount : SegmentRead(p, F, i)
  BY <1>1, <1>2, TableIsRead DEF FirstTable
<1>4. Len(dcf.starts) = p.segCount
  <2>1. F \in Tables(p)
    BY <1>2, SegmentsAre DEF FirstTable
  <2>2. F.starts \in [1 .. p.segCount -> Extents]
    BY <2>1, TableIs
  <2> HIDE DEF F
  <2> QED BY <1>1, <1>2, <2>2
<1> HIDE DEF F
<1>5. /\ p.size \in Nat /\ p.starts \in Nat /\ p.imports \in Nat
      /\ TableSize(p) \in Nat
      /\ p.size >= HeaderLen /\ p.starts >= HeaderLen
      /\ p.imports >= p.starts + TableSize(p) /\ p.starts + TableSize(p) <= p.size
  <2> DEFINE z == p.size
             s == p.starts
             n == p.segCount
  <2>1. /\ z \in Nat /\ s \in Nat /\ n \in Nat /\ p.imports \in Nat
        /\ z >= HeaderLen /\ s >= HeaderLen /\ s + 4 <= z /\ n <= (z - s - 4) \div 4
        /\ p.imports >= s + TableSize(p)
    BY <1>1, <1>2, PayloadsAssumption DEF StartsFit
  <2>2. TableSize(p) = 4 + 4 * n
    BY DEF TableSize
  <2> HIDE DEF z, s, n
  <2>3. s + (4 + 4 * n) <= z
    BY <2>1
  <2> QED BY <2>1, <2>2, <2>3 DEF z, s, n
<1>6. ASSUME NEW r \in Ranges(p) PROVE r[2] <= p.imports /\ r[2] <= p.size
  <2>1. CASE r = <<0, HeaderLen>>
    BY <1>5, <2>1, SizesAssumption
  <2>2. CASE r = <<p.starts, p.starts + TableSize(p)>>
    BY <1>5, <2>2
  <2>3. ASSUME NEW i \in 1 .. p.segCount, p.info[i] # 0,
               r = <<p.starts + p.info[i], p.starts + p.info[i] + p.records[p.info[i]].size>>
        PROVE  r[2] <= p.imports /\ r[2] <= p.size
    <3>1. RecordFits(p, p.info[i])
      BY <1>3, <2>3 DEF SegmentRead
    <3> QED BY <1>1, <2>3, <3>1, FittingRecord
  <2> QED BY <2>1, <2>2, <2>3 DEF Ranges
<1>7. ASSUME NEW i \in 1 .. p.segCount
      PROVE  IF p.info[i] = 0 THEN dcf.starts[i] = NoStarts
             ELSE /\ p.info[i] >= TableSize(p)
                  /\ p.records[p.info[i]].format = dcf.format
                  /\ RecordLen + 2 * (dcf.starts[i].pages + dcf.starts[i].extra)
                        = p.records[p.info[i]].size
  <2>1. SegmentRead(p, F, i)
    BY <1>3
  <2>2. CASE p.info[i] = 0
    BY <1>1, <2>1, <2>2 DEF SegmentRead
  <2>3. CASE p.info[i] # 0
    <3>1. RecordFits(p, p.info[i]) /\ p.records[p.info[i]].format = dcf.format
          /\ dcf.starts[i] = Kept(p.records[p.info[i]])
      BY <1>1, <2>1, <2>3 DEF SegmentRead
    <3> QED BY <1>1, <2>3, <3>1, FittingRecord
  <2> QED BY <2>2, <2>3
<1> QED BY <1>4, <1>6, <1>7 DEF p

(* The imports that are kept.                                              *)
LEMMA ImportsKept ==
    ASSUME MetadataInv, dcf.importsParsed
    PROVE  LET p == payload
           IN  /\ dcf.imports = p.count
               /\ p.imports + p.count * ImportSize(p.importsFormat) <= p.symbols
               /\ \A i \in 1 .. p.count :
                     \E e \in p.ends : p.names[i] <= e /\ p.symbols + e < p.size
               /\ p.count > 0 => p.count < MaxOrdinal(dcf.format)
<1> DEFINE p == payload
<1>1. /\ p \in Payloads /\ dcf.imports = p.count /\ dcf.format = FirstTable(p).format
      /\ CountIsValid(p) /\ validateImportsLayout(p) /\ parseImports(p)
  BY DEF MetadataInv, SoundDcf, ImportsRead
<1> HIDE DEF p
<1>2. /\ p.size \in Nat /\ p.imports \in Nat /\ p.symbols \in Nat /\ p.count \in Nat /\ p.ends \subseteq Nat
      /\ \A i \in 1 .. p.count : p.names[i] \in Nat
  BY <1>1, PayloadsAssumption
<1>3. p.imports + p.count * ImportSize(p.importsFormat) <= p.symbols
  <2>1. ASSUME NEW n \in Nat, NEW a \in Nat, NEW b \in Nat, a <= b
        PROVE  /\ n <= (b - a) \div 4 => a + n * 4 <= b
               /\ n <= (b - a) \div 8 => a + n * 8 <= b
               /\ n <= (b - a) \div 16 => a + n * 16 <= b
    BY <2>1
  <2>2. p.count \in Nat /\ p.imports \in Nat /\ p.symbols \in Nat /\ p.imports <= p.symbols
    BY <1>1, <1>2 DEF validateImportsLayout
  <2>3. /\ ImportSize(p.importsFormat) # 0
        /\ p.count <= (p.symbols - p.imports) \div ImportSize(p.importsFormat)
    BY <1>1 DEF validateImportsLayout
  <2>4. CASE p.importsFormat = 1
    <3>1. ImportSize(p.importsFormat) = 4
      BY <2>4 DEF ImportSize
    <3>2. p.count <= (p.symbols - p.imports) \div 4
      BY <2>3, <3>1
    <3> QED BY <2>1, <2>2, <3>1, <3>2
  <2>5. CASE p.importsFormat = 2
    <3>1. ImportSize(p.importsFormat) = 8
      BY <2>5 DEF ImportSize
    <3>2. p.count <= (p.symbols - p.imports) \div 8
      BY <2>3, <3>1
    <3> QED BY <2>1, <2>2, <3>1, <3>2
  <2>6. CASE p.importsFormat = 3
    <3>1. ImportSize(p.importsFormat) = 16
      BY <2>6 DEF ImportSize
    <3>2. p.count <= (p.symbols - p.imports) \div 16
      BY <2>3, <3>1
    <3> QED BY <2>1, <2>2, <3>1, <3>2
  <2>7. p.importsFormat \in {1, 2, 3}
    BY <2>3 DEF ImportSize
  <2> QED BY <2>4, <2>5, <2>6, <2>7
<1>4. ASSUME NEW i \in 1 .. p.count
      PROVE  \E e \in p.ends : p.names[i] <= e /\ p.symbols + e < p.size
  <2>1. PICK e \in p.ends : e >= p.names[i] /\ e < p.size - p.symbols
    BY <1>1 DEF parseImports, NameEnd
  <2> QED BY <1>2, <2>1
<1>5. p.count > 0 => p.count < MaxOrdinal(dcf.format)
  BY <1>1, <1>2 DEF CountIsValid
<1> QED BY <1>1, <1>3, <1>4, <1>5 DEF p

(* THE THEOREM.  Whatever was asked first and whatever failed before, what *)
(* is kept of LC_DYLD_CHAINED_FIXUPS is consistent with the payload, and a *)
(* call that is repeated answers as it did.                                *)
THEOREM MetadataStaysSound == MetadataSpec => []KeptMetadataIsSound
<1>1. MetadataInv => KeptMetadataIsSound
  <2> SUFFICES ASSUME MetadataInv PROVE KeptMetadataIsSound
    OBVIOUS
  <2>1. \A c \in {"ParseStarts", "EnsureImports", "Parse"} :
           ~({<<c, TRUE>>, <<c, FALSE>>} \subseteq answers)
    BY DEF MetadataInv, Answers
  <2>2. <<"ParseStarts", TRUE>> \in answers => dcf.metadataParsed
    BY DEF MetadataInv
  <2>3. dcf.importsParsed => dcf.metadataParsed
    BY DEF MetadataInv, SoundDcf
  <2> QED BY <2>1, <2>2, <2>3, MetadataKept, ImportsKept DEF KeptMetadataIsSound
<1> QED BY <1>1, NothingIsRead, MetadataStep, PTL DEF MetadataSpec
=============================================================================
