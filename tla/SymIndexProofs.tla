--------------------------- MODULE SymIndexProofs ---------------------------
(***************************************************************************)
(* For any number of goroutines, names, tables and export commands: every  *)
(* FindSymbolAddress answers what the linear scan answers, over the list   *)
(* DyldExports handed out as it was when the lookups last copied it.       *)
(***************************************************************************)
EXTENDS SymIndex, TLAPS

-----------------------------------------------------------------------------
(* Lemmas about the name index. *)

(* A valid index, or none, for the names of a table. *)
IndexFor(ixx, names) == ixx = NoIndex \/ ixx = buildNameIndex(names)

(* An index and a scan find the same first exact position: the exact map   *)
(* of buildNameIndex is keyed by the names of the table.                   *)
LEMMA ExactAgrees ==
    ASSUME NEW ixx, NEW names, NEW s, IndexFor(ixx, names)
    PROVE  /\ ExactHit(ixx, names, s) <=> Exact(names, s) # {}
           /\ ExactHit(ixx, names, s) => ExactPos(ixx, names, s) = First(Exact(names, s))
<1>1. CASE ixx = NoIndex
  BY <1>1 DEF ExactHit, ExactPos, NoIndex
<1>2. CASE ixx = buildNameIndex(names)
  <2>1. s \in {names[i] : i \in DOMAIN names} <=> Exact(names, s) # {}
    BY DEF Exact
  <2>2. ixx.built /\ DOMAIN ixx.exact = {names[i] : i \in DOMAIN names}
    BY <1>2 DEF buildNameIndex
  <2>3. s \in DOMAIN ixx.exact => ixx.exact[s] = First(Exact(names, s))
    BY <1>2 DEF buildNameIndex
  <2> QED BY <2>1, <2>2, <2>3 DEF ExactHit, ExactPos
<1> QED BY <1>1, <1>2 DEF IndexFor

(* The same for the case-insensitive map, keyed by foldKey. *)
LEMMA FoldAgrees ==
    ASSUME NEW ixx, NEW t, NEW s, IndexFor(ixx, NamesOf(t))
    PROVE  foldFirst(t, ixx, s) = foldFirst(t, NoIndex, s)
<1> DEFINE names == NamesOf(t)
<1>1. CASE ixx = NoIndex
  BY <1>1
<1>2. CASE ixx = buildNameIndex(names)
  <2>1. FoldKey[s] \in {FoldKey[names[i]] : i \in DOMAIN names} <=> EqualFold(names, s) # {}
    BY DEF EqualFold
  <2>2. ixx.built /\ DOMAIN ixx.fold = {FoldKey[names[i]] : i \in DOMAIN names}
    BY <1>2 DEF buildNameIndex
  <2>3. FoldKey[s] \in DOMAIN ixx.fold => ixx.fold[FoldKey[s]] = First(EqualFold(names, s))
    BY <1>2 DEF buildNameIndex, EqualFold
  <2>4. ~NoIndex.built
    BY DEF NoIndex
  <2> QED BY <2>1, <2>2, <2>3, <2>4 DEF foldFirst, FoldHit, FoldPos
<1> QED BY <1>1, <1>2 DEF IndexFor

(* What a scan for a case-insensitive match yields. *)
LEMMA FoldScan ==
    ASSUME NEW t, NEW s
    PROVE  LET e == foldFirst(t, NoIndex, s) IN
           /\ EqualFold(NamesOf(t), s) # {} =>
                 e.found /\ e.addr = t[First(EqualFold(NamesOf(t), s))].value
           /\ EqualFold(NamesOf(t), s) = {} => ~e.found
<1>1. ~NoIndex.built
  BY DEF NoIndex
<1>2. CASE EqualFold(NamesOf(t), s) # {}
  BY <1>1, <1>2 DEF foldFirst, FoldHit, FoldPos
<1>3. CASE EqualFold(NamesOf(t), s) = {}
  BY <1>1, <1>3 DEF foldFirst, FoldHit, NoFold
<1> QED BY <1>2, <1>3

(* An index in the shared state is one buildNameIndex made of some names. *)
LazyOK(l) == IndexFor(l.index, l.index.names)

(* What symtabNameIndex and exportsNameIndex hand to a lookup is an index  *)
(* of the live names, whatever table the shared one was built from.        *)
LEMMA NameIndexAgrees ==
    ASSUME NEW l, NEW id, NEW names, LazyOK(l)
    PROVE  /\ LazyOK(NameIndex(l, id, names))
           /\ IndexFor(NameIndex(l, id, names).index, names)
<1> DEFINE m == IF l.id = id THEN l ELSE [id |-> id, lookups |-> 0, index |-> NoIndex]
           g == get(l, id, names)
<1>1. LazyOK(m)
  BY DEF LazyOK, IndexFor
<1>2. CASE m.index.built
  <2>1. g = m
    BY <1>2 DEF get
  <2>2. m.index = buildNameIndex(m.index.names)
    BY <1>1, <1>2 DEF LazyOK, IndexFor, NoIndex
  <2> HIDE DEF m, g
  <2>3. CASE m.index.names = names
    BY <2>1, <2>2, <2>3 DEF NameIndex, matchesNames, LazyOK, IndexFor, g
  <2>4. CASE m.index.names # names
    BY <1>2, <2>1, <2>4 DEF NameIndex, matchesNames, LazyOK, IndexFor, ZeroLazy, g
  <2> QED BY <2>3, <2>4
<1>3. CASE ~m.index.built
  <2>1. g.index = NoIndex \/ g.index = buildNameIndex(names)
    BY <1>3 DEF get
  <2>2. g.index = buildNameIndex(names) => g.index.names = names
    BY DEF buildNameIndex
  <2> HIDE DEF m, g
  <2> QED
    BY <2>1, <2>2 DEF NameIndex, matchesNames, LazyOK, IndexFor, ZeroLazy, NoIndex, g
<1> QED BY <1>2, <1>3

-----------------------------------------------------------------------------
(* The inductive invariant. *)

Shape ==
    /\ pc \in [Readers -> PCs]
    /\ symbol \in [Readers -> Names \cup {Nil}]
    /\ src \in [Readers -> Sources]
    /\ list \in [Readers -> ExpArrays \cup {Nil}]
    /\ ix = [r \in Readers |-> ix[r]]
    /\ fold = [r \in Readers |-> fold[r]]
    /\ parsed = [r \in Readers |-> parsed[r]]
    /\ ret = [r \in Readers |-> ret[r]]
    /\ expHeap = [a \in ExpArrays |-> expHeap[a]]
    /\ classic \in DOMAIN ClassicExports \cup {NoCmd}
    /\ modern \in DOMAIN ModernExports \cup {NoCmd}
    /\ exp \in ExpArrays \cup {Nil}
    /\ exports \in ExpArrays \cup {Nil}
    /\ exportsSrc \in Sources

(* The private copy of the exports is what its recorded source yielded     *)
(* when it was stored.  What was parsed then and not published, an empty   *)
(* list, is what a parse yields now.                                       *)
CacheOK ==
    /\ exportsSrc.exp \in {Nil, exp}
    /\ exportsSrc.initialized =>
          /\ ~Fails(exportsSrc) /\ ~NoSource(exportsSrc)
          /\ ListAt(exports) = Merge(ClassicList(exportsSrc.classic), copied)
          /\ exportsSrc.exp = Nil => copied = ModernList(exportsSrc.modern, Nil)

(* The list the lookups copied, if they would use it now, is unedited. *)
CopyIsLive == ExportsSeen = ExportList(exportsSource)

(* No lookup holds, and no index keeps, the list that callers may edit. *)
Private ==
    /\ exports # Nil => exports # exp
    /\ \A r \in Readers : list[r] # Nil => list[r] # exp

(* A lookup past the symbol table found no exact match there, and knows    *)
(* its fold match or holds an index of the live names.                     *)
Searching(r) ==
    /\ symtab # Nil
    /\ symbol[r] \in Names
    /\ symbol[r] # Nil
    /\ Exact(NamesOf(Syms), symbol[r]) = {}
    /\ ~ix[r].built => fold[r] = foldFirst(Syms, NoIndex, symbol[r])

SearchPCs == {"source", "cached", "get", "merge", "resource", "store", "index"}

(* A goroutine that missed the cache finds, when it stores, that its list  *)
(* is that of the cache or that the cache has another source.              *)
MissedPCs == {"get", "merge", "resource", "store"}

ReaderOK(r) ==
    /\ src[r].exp \in {Nil, exp}
    /\ IF pc[r] = "idle" THEN ix[r] = NoIndex ELSE IndexFor(ix[r], NamesOf(Syms))
    /\ pc[r] \in SearchPCs => Searching(r)
    /\ pc[r] \in {"cached", "store"} =>
          /\ src[r].classic = classic
          /\ src[r].modern = modern
          /\ ModernList(modern, src[r].exp) = ModernList(modern, exp)
          /\ Fails(src[r]) <=> Fails(exportsSource)
    /\ pc[r] = "cached" => src[r].initialized /\ (src[r].exp # exp => CopyIsLive)
    /\ pc[r] \in MissedPCs => CopyIsLive
    /\ pc[r] = "publish" =>
          /\ modern # NoCmd
          /\ parsed[r] = ModernExports[modern]
          /\ ModernExports[modern] # Failed
          /\ exp # Nil => expHeap[exp] = ModernExports[modern]
          /\ symbol[r] # Nil => Searching(r) /\ ClassicList(classic) # Failed /\ CopyIsLive
    /\ pc[r] = "merge" =>
          /\ parsed[r] = ModernList(modern, exp)
          /\ ~Fails(exportsSource) /\ ~NoSource(exportsSource)
    /\ pc[r] \in {"resource", "store"} =>
          /\ ~Fails(exportsSource) /\ ~NoSource(exportsSource)
          /\ ListAt(list[r]) = ExportList(exportsSource)
    /\ pc[r] = "index" => ~Fails(exportsSource) /\ ListAt(list[r]) = ExportsSeen
    /\ Finished(r) => ret[r] = ScanOver(ExportsSeen, symbol[r])

Core ==
    /\ Shape
    /\ LazyOK(symNames)
    /\ LazyOK(exportNames)
    /\ CacheOK
    /\ \A r \in Readers : ReaderOK(r)

IInv == Core /\ Private

-----------------------------------------------------------------------------
(* What a lookup step of one goroutine leaves alone. *)

(* No array that a pointer reaches is overwritten. *)
HeapKept == \A a \in PinnedExports : a # Nil => expHeap'[a] = expHeap[a]

(* f.exp stays, or its first value is the parse of the present command. *)
ExpStep ==
    \/ exp' = exp
    \/ /\ exp = Nil /\ exp' \in ExpArrays /\ modern # NoCmd
       /\ expHeap'[exp'] = ModernExports[modern]
       /\ ModernExports[modern] # Failed

(* The present source keeps its meaning even if f.exp is published. *)
LEMMA PresentSource ==
    ASSUME Shape, file' = file, HeapKept, ExpStep
    PROVE  /\ ModernList(modern, exp)' = ModernList(modern, exp)
           /\ Fails(exportsSource)' = Fails(exportsSource)
           /\ NoSource(exportsSource)' = NoSource(exportsSource)
           /\ ExportList(exportsSource)' = ExportList(exportsSource)
           /\ Syms' = Syms
           /\ \A e, s : ScanOver(e, s)' = ScanOver(e, s)
<1>1. exp # Nil => exp' = exp /\ expHeap'[exp] = expHeap[exp]
  BY DEF HeapKept, PinnedExports, ExpStep
<1>2. modern' = modern /\ classic' = classic /\ symtab' = symtab /\ symHeap' = symHeap
  BY DEF file
<1>3. ModernList(modern, exp)' = ModernList(modern, exp)
  BY <1>1, <1>2, NilAssumption DEF ModernList, ExpStep
<1>4. /\ exportsSource.classic = classic /\ exportsSource.modern = modern
      /\ exportsSource.exp = exp
      /\ exportsSource'.classic = classic' /\ exportsSource'.modern = modern'
      /\ exportsSource'.exp = exp'
  BY DEF exportsSource
<1>5. /\ Fails(exportsSource)' = Fails(exportsSource)
      /\ NoSource(exportsSource)' = NoSource(exportsSource)
      /\ ExportList(exportsSource)' = ExportList(exportsSource)
  <2>1. (exp = Nil /\ ModernExports[modern] = Failed) <=> (exp' = Nil /\ ModernExports[modern] = Failed)
    BY <1>1, NilAssumption DEF ExpStep
  <2> QED BY <1>2, <1>3, <1>4, <2>1 DEF Fails, ExportList, NoSource, ClassicList
<1>6. Syms' = Syms
  BY <1>2 DEF Syms
<1>7. \A e, s : ScanOver(e, s)' = ScanOver(e, s)
  BY <1>2, <1>5, <1>6 DEF ScanOver
<1> QED BY <1>3, <1>5, <1>6, <1>7

(* What the lookups see of the exports stays, and stays live. *)
SeenKept ==
    /\ ExportsSeen' = ExportsSeen
    /\ CopyIsLive => CopyIsLive'
    /\ exp' # exp => CopyIsLive'

(* Any step but a store keeps it: a source whose list is only now          *)
(* published has not been recorded with that list.                         *)
LEMMA SeenStep ==
    ASSUME IInv, file' = file, HeapKept, ExpStep, exportsSrc' = exportsSrc, copied' = copied
    PROVE  SeenKept
<1>0. Shape /\ CacheOK
  BY DEF IInv, Core
<1>1. ExportList(exportsSource)' = ExportList(exportsSource) /\ classic' = classic
  BY <1>0, PresentSource DEF file
<1>2. /\ exportsSource.classic = classic /\ exportsSource.modern = modern
      /\ exportsSource.exp = exp /\ exportsSource'.exp = exp'
  BY DEF exportsSource
<1>3. CASE exp' = exp
  <2>1. exportsSource' = exportsSource
    BY <1>3 DEF exportsSource, file
  <2>2. CacheHit' = CacheHit
    BY <2>1 DEF CacheHit
  <2>3. ExportsSeen' = ExportsSeen
    BY <1>1, <2>2 DEF ExportsSeen, ClassicList
  <2> QED BY <1>1, <1>3, <2>3 DEF SeenKept, CopyIsLive
<1>4. CASE exp' # exp
  <2>1. exp = Nil /\ exp' # Nil
    BY <1>4, NilAssumption DEF ExpStep
  <2>2. ~CacheHit'
    BY <1>0, <1>2, <2>1 DEF CacheOK, CacheHit
  <2>3. ExportsSeen' = ExportList(exportsSource)
    BY <1>1, <2>2 DEF ExportsSeen
  <2>4. ExportsSeen = ExportList(exportsSource)
    <3>1. CASE CacheHit
      <4>1. copied = ModernList(modern, exp) /\ ~NoSource(exportsSource)
        BY <1>0, <1>2, <2>1, <3>1 DEF CacheOK, CacheHit
      <4> QED BY <1>2, <3>1, <4>1 DEF ExportsSeen, ExportList
    <3>2. CASE ~CacheHit
      BY <3>2 DEF ExportsSeen
    <3> QED BY <3>1, <3>2
  <2> QED BY <1>1, <2>3, <2>4 DEF SeenKept, CopyIsLive
<1> QED BY <1>3, <1>4

LocalsKept(q) ==
    /\ pc'[q] = pc[q] /\ symbol'[q] = symbol[q] /\ ix'[q] = ix[q] /\ fold'[q] = fold[q]
    /\ src'[q] = src[q] /\ parsed'[q] = parsed[q] /\ list'[q] = list[q] /\ ret'[q] = ret[q]

(* A goroutine whose own locals do not move keeps its part of the          *)
(* invariant through a lookup step of another.                             *)
LEMMA OtherReader ==
    ASSUME IInv, file' = file, HeapKept, ExpStep, SeenKept, NEW q \in Readers, LocalsKept(q)
    PROVE  ReaderOK(q)'
<1> USE DEF LocalsKept
<1>0. Shape /\ ReaderOK(q)
  BY DEF IInv, Core
<1>1. /\ ModernList(modern, exp)' = ModernList(modern, exp)
      /\ Fails(exportsSource)' = Fails(exportsSource)
      /\ NoSource(exportsSource)' = NoSource(exportsSource)
      /\ ExportList(exportsSource)' = ExportList(exportsSource)
      /\ Syms' = Syms
      /\ \A e, s : ScanOver(e, s)' = ScanOver(e, s)
  BY <1>0, PresentSource
<1>2. modern' = modern /\ classic' = classic /\ symtab' = symtab
  BY DEF file
<1>3. exp # Nil => exp' = exp /\ expHeap'[exp] = expHeap[exp]
  BY DEF HeapKept, PinnedExports, ExpStep
<1>4. src'[q].exp \in {Nil, exp'}
  BY <1>0, <1>3 DEF ReaderOK
<1>5. IF pc'[q] = "idle" THEN ix'[q] = NoIndex ELSE IndexFor(ix'[q], NamesOf(Syms'))
  BY <1>0, <1>1 DEF ReaderOK
<1>6. Searching(q) => Searching(q)'
  BY <1>1, <1>2 DEF Searching
<1>7. ModernList(modern, src[q].exp) = ModernList(modern, exp)
         => ModernList(modern, src[q].exp)' = ModernList(modern, exp)'
  <2>1. src[q].exp \in {Nil, exp}
    BY <1>0 DEF ReaderOK
  <2>2. src[q].exp # Nil => expHeap'[src[q].exp] = expHeap[src[q].exp]
    BY <2>1, <1>3
  <2> QED BY <2>2, <1>1, <1>2 DEF ModernList
<1>8. list[q] # Nil => expHeap'[list[q]] = expHeap[list[q]]
  BY DEF HeapKept, PinnedExports
<1>9. ListAt(list[q])' = ListAt(list[q])
  BY <1>8 DEF ListAt
<1>10. (exp # Nil => expHeap[exp] = ModernExports[modern])
          => (exp' # Nil => expHeap'[exp'] = ModernExports[modern'])
  BY <1>2, <1>3 DEF ExpStep
<1>11. pc'[q] = "publish" =>
          /\ modern' # NoCmd
          /\ parsed'[q] = ModernExports[modern']
          /\ ModernExports[modern'] # Failed
          /\ exp' # Nil => expHeap'[exp'] = ModernExports[modern']
          /\ symbol'[q] # Nil => Searching(q)' /\ ClassicList(classic') # Failed /\ CopyIsLive'
  BY <1>0, <1>2, <1>6, <1>10 DEF ReaderOK, SeenKept
<1>12. pc'[q] = "merge" =>
          /\ parsed'[q] = ModernList(modern, exp)'
          /\ ~Fails(exportsSource)' /\ ~NoSource(exportsSource)'
  BY <1>0, <1>1 DEF ReaderOK
<1>13. pc'[q] \in {"resource", "store"} =>
          /\ ~Fails(exportsSource)' /\ ~NoSource(exportsSource)'
          /\ ListAt(list[q])' = ExportList(exportsSource)'
  BY <1>0, <1>1, <1>9 DEF ReaderOK
<1>14. pc'[q] \in {"cached", "store"} =>
          /\ src'[q].classic = classic'
          /\ src'[q].modern = modern'
          /\ ModernList(modern, src[q].exp)' = ModernList(modern, exp)'
          /\ Fails(src[q])' <=> Fails(exportsSource)'
  <2>1. Fails(src[q])' = Fails(src[q])
    BY DEF Fails, ClassicList
  <2> QED BY <1>0, <1>1, <1>2, <1>7, <2>1 DEF ReaderOK
<1>15. Finished(q)' => ret'[q] = ScanOver(ExportsSeen, symbol[q])'
  <2>1. Finished(q)' <=> Finished(q)
    BY DEF Finished
  <2>2. ScanOver(ExportsSeen, symbol[q])' = ScanOver(ExportsSeen, symbol[q])
    BY <1>1, <1>2 DEF SeenKept, ScanOver
  <2> QED BY <1>0, <2>1, <2>2 DEF ReaderOK
<1>16. pc'[q] \in SearchPCs => Searching(q)'
  BY <1>0, <1>6 DEF ReaderOK
<1>17. pc'[q] \in MissedPCs => CopyIsLive'
  BY <1>0 DEF ReaderOK, SeenKept
<1>18. pc'[q] = "cached" => src'[q].initialized /\ (src'[q].exp # exp' => CopyIsLive')
  BY <1>0 DEF ReaderOK, SeenKept
<1>19. pc'[q] = "index" => ~Fails(exportsSource)' /\ ListAt(list[q])' = ExportsSeen'
  BY <1>0, <1>1, <1>9 DEF ReaderOK, SeenKept
<1> QED
  BY <1>4, <1>5, <1>11, <1>12, <1>13, <1>14, <1>15, <1>16, <1>17, <1>18, <1>19 DEF ReaderOK

(* The shared export cache survives the steps that do not store to it. *)
LEMMA CacheKept ==
    ASSUME IInv, HeapKept, ExpStep, exportsSrc' = exportsSrc, exports' = exports, copied' = copied
    PROVE  CacheOK'
<1>0. Shape /\ CacheOK
  BY DEF IInv, Core
<1>1. Fails(exportsSrc)' = Fails(exportsSrc) /\ NoSource(exportsSrc)' = NoSource(exportsSrc)
  BY DEF Fails, NoSource, ClassicList
<1>2. ListAt(exports)' = ListAt(exports)
  BY DEF ListAt, HeapKept, PinnedExports
<1>3. exportsSrc'.exp \in {Nil, exp'}
  BY <1>0 DEF CacheOK, ExpStep
<1>4. /\ ClassicList(exportsSrc.classic)' = ClassicList(exportsSrc.classic)
      /\ ModernList(exportsSrc.modern, Nil)' = ModernList(exportsSrc.modern, Nil)
  BY DEF ClassicList, ModernList
<1> QED BY <1>0, <1>1, <1>2, <1>3, <1>4 DEF CacheOK

(* What has to be shown of a lookup step of goroutine r. *)
LEMMA ReaderStep ==
    ASSUME IInv, file' = file, HeapKept, ExpStep, SeenKept, NEW r \in Readers,
           Shape', LazyOK(symNames)', LazyOK(exportNames)', CacheOK',
           \A q \in Readers \ {r} : LocalsKept(q), ReaderOK(r)'
    PROVE  Core'
<1>1. ASSUME NEW q \in Readers PROVE ReaderOK(q)'
  <2>1. CASE q = r
    BY <2>1
  <2>2. CASE q # r
    BY <2>2, OtherReader
  <2> QED BY <2>1, <2>2
<1> QED BY <1>1 DEF Core

-----------------------------------------------------------------------------
(* One lemma per lookup action. *)

(* A lookup in a file without a symbol table fails at once.                *)
LEMMA LookupNoSymtabOK ==
    ASSUME IInv, NEW r \in Readers, NEW s \in Names, LookupNoSymtab(r, s)
    PROVE  Core'
<1> USE DEF LookupNoSymtab, Answer, file, index
<1>0. Shape /\ LazyOK(symNames) /\ LazyOK(exportNames) /\ ReaderOK(r)
  BY DEF IInv, Core
<1>1. file' = file /\ HeapKept /\ ExpStep
  BY DEF HeapKept, ExpStep
<1>k. SeenKept
  BY <1>1, SeenStep DEF LookupNoSymtab
<1>2. Shape'
  BY <1>0 DEF Shape, PCs
<1>3. LazyOK(symNames)' /\ LazyOK(exportNames)'
  BY <1>0 DEF LazyOK
<1>4. CacheOK'
  BY <1>1, CacheKept
<1>5. \A q \in Readers \ {r} : LocalsKept(q)
  BY <1>0 DEF LocalsKept, Shape
<1>6. ReaderOK(r)'
  <2>1. ret'[r] = ErrNoSymtab /\ pc'[r] = "done" /\ symbol'[r] = s
    BY <1>0 DEF Shape
  <2>2. ix'[r] = NoIndex /\ src'[r].exp \in {Nil, exp'}
    BY <1>0 DEF ReaderOK
  <2>3. ScanOver(ExportsSeen, s)' = ErrNoSymtab
    BY DEF ScanOver
  <2> QED BY <2>1, <2>2, <2>3 DEF ReaderOK, MissedPCs, Finished, IndexFor, SearchPCs
<1> QED BY <1>0, <1>1, <1>2, <1>3, <1>4, <1>5, <1>6, <1>k, ReaderStep

(* A lookup in the symbol table uses its index or scans it.                *)
LEMMA LookupSymtabOK ==
    ASSUME IInv, NEW r \in Readers, NEW s \in Names, LookupSymtab(r, s)
    PROVE  Core'
<1> DEFINE names == NamesOf(Syms)
           l == NameIndex(symNames, idOf(symtab), names)
<1>0. Shape /\ LazyOK(symNames) /\ LazyOK(exportNames) /\ ReaderOK(r)
  BY DEF IInv, Core
<1>1. file' = file /\ HeapKept /\ ExpStep
  BY DEF HeapKept, ExpStep, LookupSymtab
<1>k. SeenKept
  BY <1>1, SeenStep DEF LookupSymtab
<1>2. Shape'
  BY <1>0 DEF Shape, PCs, LookupSymtab, Answer, file
<1>3. LazyOK(l) /\ IndexFor(l.index, names)
  BY <1>0, NameIndexAgrees
<1>4. symNames' = l /\ exportNames' = exportNames
  BY DEF LookupSymtab
<1>5. LazyOK(symNames)' /\ LazyOK(exportNames)'
  BY <1>0, <1>3, <1>4 DEF LazyOK
<1>6. CacheOK'
  BY <1>1, CacheKept DEF LookupSymtab
<1>7. \A q \in Readers \ {r} : LocalsKept(q)
  BY <1>0 DEF LocalsKept, Shape, LookupSymtab, Answer
<1>8. ReaderOK(r)'
  <2>1. /\ ExactHit(l.index, names, s) <=> Exact(names, s) # {}
        /\ ExactHit(l.index, names, s) => ExactPos(l.index, names, s) = First(Exact(names, s))
    BY <1>3, ExactAgrees
  <2>2. /\ symbol'[r] = s /\ ix'[r] = l.index /\ src' = src
        /\ fold'[r] = IF l.index.built THEN NoFold ELSE foldFirst(Syms, NoIndex, s)
        /\ symtab' = symtab /\ symtab # Nil /\ exp' = exp
    BY <1>0 DEF Shape, LookupSymtab, file
  <2>3. Syms' = Syms
    BY DEF Syms, LookupSymtab, file
  <2>4. IndexFor(ix[r], NamesOf(Syms))'
    BY <1>3, <2>2, <2>3
  <2>5. src'[r].exp \in {Nil, exp'}
    BY <1>0, <2>2 DEF ReaderOK
  <2>6. s # Nil
    BY NilAssumption
  <2>7. CASE ExactHit(l.index, names, s)
    <3>1. Exact(names, s) # {}
      BY <2>1, <2>7
    <3>2. pc'[r] = "done" /\ ret'[r] = Syms[First(Exact(names, s))].value
      BY <1>0, <2>1, <2>7 DEF Shape, LookupSymtab, Answer
    <3>3. ScanOver(ExportsSeen, s)' = Syms[First(Exact(names, s))].value
      BY <3>1, <2>2, <2>3
         DEF ScanOver, LinearSearch, SymtabOnly
    <3> QED BY <3>2, <3>3, <2>2, <2>4, <2>5 DEF ReaderOK, MissedPCs, Finished, SearchPCs
  <2>8. CASE ~ExactHit(l.index, names, s)
    <3>1. Exact(names, s) = {}
      BY <2>1, <2>8
    <3>2. pc'[r] = "source"
      BY <1>0, <2>8 DEF Shape, LookupSymtab
    <3>4. Searching(r)'
      BY <3>1, <2>2, <2>3, <2>6 DEF Searching
    <3> QED BY <3>2, <3>4, <2>2, <2>4, <2>5 DEF ReaderOK, MissedPCs, Finished
  <2> QED BY <2>7, <2>8
<1> QED BY <1>0, <1>1, <1>2, <1>5, <1>6, <1>7, <1>8, <1>k, ReaderStep

(* The commands that hold exports are read.                                *)
LEMMA ReadSourceOK ==
    ASSUME IInv, NEW r \in Readers, ReadSource(r)
    PROVE  Core'
<1> USE DEF ReadSource, file, index
<1>0. Shape /\ LazyOK(symNames) /\ LazyOK(exportNames) /\ CacheOK /\ ReaderOK(r)
  BY DEF IInv, Core
<1>1. file' = file /\ HeapKept /\ ExpStep
  BY DEF HeapKept, ExpStep
<1>k. SeenKept
  BY <1>1, SeenStep DEF ReadSource
<1>2. Shape'
  BY <1>0 DEF Shape, PCs, Sources, exportsSource
<1>3. LazyOK(symNames)' /\ LazyOK(exportNames)'
  BY <1>0 DEF LazyOK
<1>4. CacheOK'
  BY <1>1, CacheKept
<1>5. \A q \in Readers \ {r} : LocalsKept(q)
  BY <1>0 DEF LocalsKept, Shape
<1>6. Syms' = Syms
  BY DEF Syms
<1>7. src[r].exp \in {Nil, exp} /\ IndexFor(ix[r], NamesOf(Syms)) /\ Searching(r)
  BY <1>0 DEF ReaderOK, SearchPCs
<1>8. Searching(r)'
  BY <1>0, <1>6, <1>7 DEF Searching, Shape
<1>9. ReaderOK(r)'
  <2>1. pc'[r] = "cached" /\ src'[r] = exportsSource /\ ix' = ix
    BY <1>0 DEF Shape
  <2>2. exportsSource.classic = classic /\ exportsSource.modern = modern /\ exportsSource.exp = exp
    BY DEF exportsSource
  <2>3. /\ src'[r].exp \in {Nil, exp'} /\ src'[r].classic = classic' /\ src'[r].modern = modern'
        /\ ModernList(modern, src[r].exp)' = ModernList(modern, exp)'
        /\ src'[r].initialized /\ src'[r].exp = exp'
    BY <2>1, <2>2 DEF ModernList, exportsSource
  <2>4. Fails(src[r])' <=> Fails(exportsSource)'
    BY <2>1 DEF Fails, exportsSource
  <2> QED BY <1>6, <1>7, <1>8, <2>1, <2>3, <2>4 DEF ReaderOK, MissedPCs, Finished
<1> QED BY <1>0, <1>1, <1>2, <1>3, <1>4, <1>5, <1>9, <1>k, ReaderStep


(* Exports parsed earlier are used when they are of this file.             *)
LEMMA UseCachedExportsOK ==
    ASSUME IInv, NEW r \in Readers, UseCachedExports(r)
    PROVE  Core'
<1> USE DEF UseCachedExports, file, index
<1>0. Shape /\ LazyOK(symNames) /\ LazyOK(exportNames) /\ CacheOK /\ ReaderOK(r)
  BY DEF IInv, Core
<1>1. file' = file /\ HeapKept /\ ExpStep
  BY DEF HeapKept, ExpStep
<1>k. SeenKept
  BY <1>1, SeenStep DEF UseCachedExports
<1>2. Shape'
  BY <1>0 DEF Shape, PCs, Sources, exportsSource
<1>3. LazyOK(symNames)' /\ LazyOK(exportNames)'
  BY <1>0 DEF LazyOK
<1>4. CacheOK'
  BY <1>1, CacheKept
<1>5. \A q \in Readers \ {r} : LocalsKept(q)
  BY <1>0 DEF LocalsKept, Shape
<1>6. Syms' = Syms
  BY DEF Syms
<1>7. src[r].exp \in {Nil, exp} /\ IndexFor(ix[r], NamesOf(Syms)) /\ Searching(r)
  BY <1>0 DEF ReaderOK, SearchPCs
<1>8. Searching(r)'
  BY <1>0, <1>6, <1>7 DEF Searching, Shape
<1>9. ReaderOK(r)'
  <2>1. pc'[r] = "index" /\ list'[r] = exports /\ ix' = ix /\ src' = src
    BY <1>0 DEF Shape
  <2>2. /\ exportsSource.classic = classic /\ exportsSource.modern = modern /\ exportsSource.exp = exp
        /\ exportsSource' = exportsSource
    BY DEF exportsSource
  <2>3. /\ src[r].classic = classic /\ src[r].modern = modern
        /\ ModernList(modern, src[r].exp) = ModernList(modern, exp)
    BY <1>0 DEF ReaderOK
  <2>4. ~Fails(src[r]) /\ (Fails(src[r]) <=> Fails(exportsSource))
    BY <1>0 DEF CacheOK, ReaderOK
  <2>5. ListAt(exports) = ExportsSeen
    <3>1. CASE src[r].exp = exp
      <4>1. src[r] \in Sources /\ exportsSource \in Sources /\ src[r].initialized
        BY <1>0 DEF Shape, Sources, exportsSource
      <4>2. exportsSource.initialized = TRUE /\ src[r].initialized = TRUE
        BY <4>1 DEF exportsSource, Sources
      <4>3. src[r] = exportsSource
        BY <2>2, <2>3, <3>1, <4>1, <4>2 DEF Sources
      <4>4. CacheHit
        BY <4>3 DEF CacheHit
      <4> QED BY <1>0, <2>3, <4>4 DEF CacheOK, ExportsSeen
    <3>2. CASE src[r].exp # exp
      <4>1. CopyIsLive /\ src[r].exp = Nil
        BY <1>0, <1>7, <3>2 DEF ReaderOK
      <4>2. copied = ModernList(modern, exp) /\ ListAt(exports) = Merge(ClassicList(classic), copied)
        BY <1>0, <2>3, <4>1 DEF CacheOK
      <4>3. ~NoSource(exportsSource)
        BY <1>0, <2>2, <2>3 DEF CacheOK, NoSource
      <4>4. ExportList(exportsSource) = Merge(ClassicList(classic), ModernList(modern, exp))
        BY <2>2, <4>3 DEF ExportList
      <4> QED BY <4>1, <4>2, <4>4 DEF CopyIsLive
    <3> QED BY <3>1, <3>2
  <2>6. ~Fails(exportsSource)' /\ ListAt(list[r])' = ExportsSeen'
    <3>1. Fails(exportsSource)' = Fails(exportsSource)
      BY <2>2 DEF Fails, ClassicList
    <3>2. ListAt(list[r])' = ListAt(exports)
      BY <2>1 DEF ListAt
    <3> QED BY <1>k, <2>4, <2>5, <3>1, <3>2 DEF SeenKept
  <2> QED BY <1>6, <1>7, <1>8, <2>1, <2>6 DEF ReaderOK, MissedPCs, Finished
<1> QED BY <1>0, <1>1, <1>2, <1>3, <1>4, <1>5, <1>9, <1>k, ReaderStep


(* Exports that are absent or of another slice are parsed again.           *)
LEMMA MissCachedExportsOK ==
    ASSUME IInv, NEW r \in Readers, MissCachedExports(r)
    PROVE  Core'
<1> USE DEF MissCachedExports, file, index
<1>0. Shape /\ LazyOK(symNames) /\ LazyOK(exportNames) /\ CacheOK /\ ReaderOK(r)
  BY DEF IInv, Core
<1>1. file' = file /\ HeapKept /\ ExpStep
  BY DEF HeapKept, ExpStep
<1>k. SeenKept
  BY <1>1, SeenStep DEF MissCachedExports
<1>2. Shape'
  BY <1>0 DEF Shape, PCs, Sources, exportsSource
<1>3. LazyOK(symNames)' /\ LazyOK(exportNames)'
  BY <1>0 DEF LazyOK
<1>4. CacheOK'
  BY <1>1, CacheKept
<1>5. \A q \in Readers \ {r} : LocalsKept(q)
  BY <1>0 DEF LocalsKept, Shape
<1>6. Syms' = Syms
  BY DEF Syms
<1>7. src[r].exp \in {Nil, exp} /\ IndexFor(ix[r], NamesOf(Syms)) /\ Searching(r)
  BY <1>0 DEF ReaderOK, SearchPCs
<1>8. Searching(r)'
  BY <1>0, <1>6, <1>7 DEF Searching, Shape
<1>9. ReaderOK(r)'
  <2>1. pc'[r] = "get" /\ ix' = ix /\ src' = src
    BY <1>0 DEF Shape
  <2>2. CopyIsLive
    <3>1. CASE CacheHit
      <4>1. exportsSrc = exportsSource /\ src[r] # exportsSource
        BY <3>1 DEF CacheHit
      <4>2. src[r] \in Sources /\ exportsSource \in Sources /\ src[r].initialized = TRUE
        BY <1>0 DEF Shape, Sources, exportsSource, ReaderOK
      <4>3. /\ src[r].classic = exportsSource.classic /\ src[r].modern = exportsSource.modern
            /\ src[r].initialized = exportsSource.initialized
        BY <1>0, <4>2 DEF ReaderOK, exportsSource
      <4>4. src[r].exp # exportsSource.exp
        BY <4>1, <4>2, <4>3 DEF Sources
      <4> QED BY <1>0, <4>4 DEF ReaderOK, exportsSource
    <3>2. CASE ~CacheHit
      BY <3>2 DEF CopyIsLive, ExportsSeen
    <3> QED BY <3>1, <3>2
  <2> QED BY <1>k, <1>6, <1>7, <1>8, <2>1, <2>2 DEF ReaderOK, MissedPCs, Finished, SeenKept
<1> QED BY <1>0, <1>1, <1>2, <1>3, <1>4, <1>5, <1>9, <1>k, ReaderStep


(* A file with no export commands has no exports.                          *)
LEMMA NoExportCommandsOK ==
    ASSUME IInv, NEW r \in Readers, NoExportCommands(r)
    PROVE  Core'
<1> USE DEF NoExportCommands, file, index
<1>0. Shape /\ LazyOK(symNames) /\ LazyOK(exportNames) /\ CacheOK /\ ReaderOK(r)
  BY DEF IInv, Core
<1>1. file' = file /\ HeapKept /\ ExpStep
  BY DEF HeapKept, ExpStep
<1>k. SeenKept
  BY <1>1, SeenStep DEF NoExportCommands
<1>2. Shape'
  BY <1>0 DEF Shape, PCs, Sources, exportsSource
<1>3. LazyOK(symNames)' /\ LazyOK(exportNames)'
  BY <1>0 DEF LazyOK
<1>4. CacheOK'
  BY <1>1, CacheKept
<1>5. \A q \in Readers \ {r} : LocalsKept(q)
  BY <1>0 DEF LocalsKept, Shape
<1>6. Syms' = Syms
  BY DEF Syms
<1>7. src[r].exp \in {Nil, exp} /\ IndexFor(ix[r], NamesOf(Syms)) /\ Searching(r)
  BY <1>0 DEF ReaderOK, SearchPCs
<1>8. Searching(r)'
  BY <1>0, <1>6, <1>7 DEF Searching, Shape
<1>9. ReaderOK(r)'
  <2>1. pc'[r] = "index" /\ list'[r] = Nil /\ ix' = ix /\ src' = src
    BY <1>0 DEF Shape
  <2>2. classic' = NoCmd /\ modern' = NoCmd
    BY DEF NoSource, exportsSource
  <2>3. exportsSource'.classic = NoCmd /\ exportsSource'.modern = NoCmd
    BY <2>2 DEF exportsSource
  <2>4. ExportList(exportsSource)' = <<>> /\ ~Fails(exportsSource)'
    BY <2>3, FailedAssumption DEF ExportList, NoSource, Fails, ClassicList, ModernList
  <2>5. ListAt(list[r])' = <<>>
    BY <2>1 DEF ListAt
  <2>6. CopyIsLive'
    BY <1>0, <1>k DEF ReaderOK, MissedPCs, SeenKept
  <2> QED BY <1>6, <1>7, <1>8, <2>1, <2>4, <2>5, <2>6 DEF ReaderOK, MissedPCs, Finished, CopyIsLive
<1> QED BY <1>0, <1>1, <1>2, <1>3, <1>4, <1>5, <1>9, <1>k, ReaderStep


(* A read or a parse of the exports fails.                                 *)
LEMMA ExportsFailOK ==
    ASSUME IInv, NEW r \in Readers, ExportsFail(r)
    PROVE  Core'
<1> USE DEF ExportsFail, Answer, file, index
<1>0. Shape /\ LazyOK(symNames) /\ LazyOK(exportNames) /\ CacheOK /\ ReaderOK(r)
  BY DEF IInv, Core
<1>1. file' = file /\ HeapKept /\ ExpStep
  BY DEF HeapKept, ExpStep
<1>k. SeenKept
  BY <1>1, SeenStep DEF ExportsFail
<1>2. Shape'
  BY <1>0 DEF Shape, PCs, Sources, exportsSource
<1>3. LazyOK(symNames)' /\ LazyOK(exportNames)'
  BY <1>0 DEF LazyOK
<1>4. CacheOK'
  BY <1>1, CacheKept
<1>5. \A q \in Readers \ {r} : LocalsKept(q)
  BY <1>0 DEF LocalsKept, Shape
<1>6. Syms' = Syms
  BY DEF Syms
<1>7. src[r].exp \in {Nil, exp} /\ IndexFor(ix[r], NamesOf(Syms)) /\ Searching(r)
  BY <1>0 DEF ReaderOK, SearchPCs
<1>8. Searching(r)'
  BY <1>0, <1>6, <1>7 DEF Searching, Shape
<1>9. ReaderOK(r)'
  <2>1. /\ pc'[r] = "done" /\ ix' = ix /\ src' = src /\ symbol' = symbol
        /\ ret'[r] = IF symtabFold(r).found THEN symtabFold(r).addr ELSE ErrExports
    BY <1>0 DEF Shape
  <2>2. symtabFold(r) = foldFirst(Syms, NoIndex, symbol[r])
    BY <1>7, FoldAgrees DEF symtabFold, Searching
  <2>3. ret'[r] = SymtabOnly(Syms, symbol[r])
    <3>1. ~NoIndex.built
      BY DEF NoIndex
    <3>2. CASE EqualFold(NamesOf(Syms), symbol[r]) = {}
      <4>1. ~symtabFold(r).found
        BY <2>2, <3>1, <3>2 DEF foldFirst, FoldHit, NoFold
      <4> QED BY <1>7, <2>1, <3>2, <4>1 DEF SymtabOnly, Searching
    <3>3. CASE EqualFold(NamesOf(Syms), symbol[r]) # {}
      <4>1. symtabFold(r) = [found |-> TRUE, addr |-> Syms[First(EqualFold(NamesOf(Syms), symbol[r]))].value]
        BY <2>2, <3>1, <3>3 DEF foldFirst, FoldHit, FoldPos
      <4> QED BY <1>7, <2>1, <3>3, <4>1 DEF SymtabOnly, Searching
    <3> QED BY <3>2, <3>3
  <2>4. Fails(exportsSource)'
    BY DEF Fails, exportsSource, ClassicList
  <2>5. ScanOver(ExportsSeen, symbol[r])' = SymtabOnly(Syms, symbol[r])
    BY <1>6, <1>8, <2>1, <2>4 DEF ScanOver, Searching
  <2> QED BY <1>6, <1>7, <2>1, <2>3, <2>5 DEF ReaderOK, MissedPCs, Finished, SearchPCs
<1> QED BY <1>0, <1>1, <1>2, <1>3, <1>4, <1>5, <1>9, <1>k, ReaderStep


(* The exports are parsed without a lock held.                             *)
LEMMA ParseExportsOK ==
    ASSUME IInv, NEW r \in Readers, ParseExports(r)
    PROVE  Core'
<1> USE DEF ParseExports, file, index
<1>0. Shape /\ LazyOK(symNames) /\ LazyOK(exportNames) /\ CacheOK /\ ReaderOK(r)
  BY DEF IInv, Core
<1>1. file' = file /\ HeapKept /\ ExpStep
  BY DEF HeapKept, ExpStep
<1>k. SeenKept
  BY <1>1, SeenStep DEF ParseExports
<1>2. Shape'
  BY <1>0 DEF Shape, PCs, Sources, exportsSource
<1>3. LazyOK(symNames)' /\ LazyOK(exportNames)'
  BY <1>0 DEF LazyOK
<1>4. CacheOK'
  BY <1>1, CacheKept
<1>5. \A q \in Readers \ {r} : LocalsKept(q)
  BY <1>0 DEF LocalsKept, Shape
<1>6. Syms' = Syms
  BY DEF Syms
<1>7. src[r].exp \in {Nil, exp} /\ IndexFor(ix[r], NamesOf(Syms)) /\ Searching(r)
  BY <1>0 DEF ReaderOK, SearchPCs
<1>8. Searching(r)'
  BY <1>0, <1>6, <1>7 DEF Searching, Shape
<1>9. ReaderOK(r)'
  <2>1. /\ pc'[r] = IF modern # NoCmd /\ exp = Nil THEN "publish" ELSE "merge"
        /\ parsed'[r] = ModernList(modern, exp) /\ ix' = ix /\ src' = src /\ symbol' = symbol
    BY <1>0 DEF Shape
  <2>2. /\ exportsSource.classic = classic /\ exportsSource.modern = modern /\ exportsSource.exp = exp
        /\ exportsSource' = exportsSource
    BY DEF exportsSource
  <2>3. /\ ClassicList(classic) # Failed
        /\ modern # NoCmd /\ exp = Nil => ModernExports[modern] # Failed
    BY <2>2 DEF Fails
  <2>6. CopyIsLive'
    BY <1>0, <1>k DEF ReaderOK, MissedPCs, SeenKept
  <2>4. CASE modern # NoCmd /\ exp = Nil
    <3>1. ModernList(modern, exp) = ModernExports[modern]
      BY <2>4 DEF ModernList
    <3> QED BY <1>6, <1>7, <1>8, <2>1, <2>3, <2>4, <2>6, <3>1 DEF ReaderOK, MissedPCs, Finished, SearchPCs
  <2>5. CASE ~(modern # NoCmd /\ exp = Nil)
    <3>1. pc'[r] = "merge"
      BY <2>1, <2>5
    <3>2. ModernList(modern, exp)' = ModernList(modern, exp)
      BY DEF ModernList
    <3>3. ~Fails(exportsSource)' /\ ~NoSource(exportsSource)'
      BY <2>2 DEF Fails, NoSource, ClassicList
    <3> QED BY <1>6, <1>7, <1>8, <2>1, <2>6, <3>1, <3>2, <3>3 DEF ReaderOK, MissedPCs, Finished
  <2> QED BY <2>4, <2>5
<1> QED BY <1>0, <1>1, <1>2, <1>3, <1>4, <1>5, <1>9, <1>k, ReaderStep


(* The source is read again after the parse, before the result is stored.  *)
LEMMA ReadSourceAgainOK ==
    ASSUME IInv, NEW r \in Readers, ReadSourceAgain(r)
    PROVE  Core'
<1> USE DEF ReadSourceAgain, file, index
<1>0. Shape /\ LazyOK(symNames) /\ LazyOK(exportNames) /\ CacheOK /\ ReaderOK(r)
  BY DEF IInv, Core
<1>1. file' = file /\ HeapKept /\ ExpStep
  BY DEF HeapKept, ExpStep
<1>k. SeenKept
  BY <1>1, SeenStep DEF ReadSourceAgain
<1>2. Shape'
  BY <1>0 DEF Shape, PCs, Sources, exportsSource
<1>3. LazyOK(symNames)' /\ LazyOK(exportNames)'
  BY <1>0 DEF LazyOK
<1>4. CacheOK'
  BY <1>1, CacheKept
<1>5. \A q \in Readers \ {r} : LocalsKept(q)
  BY <1>0 DEF LocalsKept, Shape
<1>6. Syms' = Syms
  BY DEF Syms
<1>7. src[r].exp \in {Nil, exp} /\ IndexFor(ix[r], NamesOf(Syms)) /\ Searching(r)
  BY <1>0 DEF ReaderOK, SearchPCs
<1>8. Searching(r)'
  BY <1>0, <1>6, <1>7 DEF Searching, Shape
<1>9. ReaderOK(r)'
  <2>1. pc'[r] = "store" /\ src'[r] = exportsSource /\ ix' = ix /\ list' = list
    BY <1>0 DEF Shape
  <2>2. exportsSource.classic = classic /\ exportsSource.modern = modern /\ exportsSource.exp = exp
    BY DEF exportsSource
  <2>3. /\ src'[r].exp \in {Nil, exp'} /\ src'[r].classic = classic' /\ src'[r].modern = modern'
        /\ ModernList(modern, src[r].exp)' = ModernList(modern, exp)'
    BY <2>1, <2>2 DEF ModernList
  <2>4. exportsSource' = exportsSource
    BY DEF exportsSource
  <2>5. /\ ~Fails(exportsSource) /\ ~NoSource(exportsSource)
        /\ ListAt(list[r]) = ExportList(exportsSource)
    BY <1>0 DEF ReaderOK
  <2>6. /\ ~Fails(exportsSource)' /\ ~NoSource(exportsSource)'
        /\ ListAt(list[r])' = ExportList(exportsSource)'
    BY <2>1, <2>4, <2>5 DEF Fails, ListAt, ExportList, ModernList, NoSource, ClassicList
  <2>7. CopyIsLive'
    BY <1>0, <1>k DEF ReaderOK, MissedPCs, SeenKept
  <2>8. Fails(src[r])' <=> Fails(exportsSource)'
    BY <2>1, <2>4 DEF Fails, ClassicList
  <2> QED BY <1>6, <1>7, <1>8, <2>1, <2>3, <2>6, <2>7, <2>8 DEF ReaderOK, MissedPCs, Finished
<1> QED BY <1>0, <1>1, <1>2, <1>3, <1>4, <1>5, <1>9, <1>k, ReaderStep

(* The parse of GetExports calls DyldExports.                              *)
LEMMA CallDyldExportsOK ==
    ASSUME IInv, NEW r \in Readers, CallDyldExports(r)
    PROVE  Core'
<1> USE DEF CallDyldExports, file, index
<1>0. Shape /\ LazyOK(symNames) /\ LazyOK(exportNames) /\ ReaderOK(r)
  BY DEF IInv, Core
<1>1. file' = file /\ HeapKept /\ ExpStep
  BY DEF HeapKept, ExpStep
<1>k. SeenKept
  BY <1>1, SeenStep DEF CallDyldExports
<1>2. Shape'
  BY <1>0 DEF Shape, PCs
<1>3. LazyOK(symNames)' /\ LazyOK(exportNames)'
  BY <1>0 DEF LazyOK
<1>4. CacheOK'
  BY <1>1, CacheKept
<1>5. \A q \in Readers \ {r} : LocalsKept(q)
  BY <1>0 DEF LocalsKept, Shape
<1>6. ReaderOK(r)'
  <2>1. pc'[r] = "publish" /\ symbol'[r] = Nil /\ parsed'[r] = ModernExports[modern]
    BY <1>0 DEF Shape
  <2>2. ix'[r] = NoIndex /\ src'[r].exp \in {Nil, exp'}
    BY <1>0 DEF ReaderOK
  <2> QED BY <2>1, <2>2 DEF ReaderOK, MissedPCs, Finished, IndexFor, SearchPCs
<1> QED BY <1>0, <1>1, <1>2, <1>3, <1>4, <1>5, <1>6, <1>k, ReaderStep

(* DyldExports publishes what it parsed, or takes what another reader did. *)
LEMMA PublishExportsOK ==
    ASSUME IInv, NEW r \in Readers, PublishExports(r)
    PROVE  Core'
<1> USE DEF file, index
<1>0. Shape /\ LazyOK(symNames) /\ LazyOK(exportNames) /\ ReaderOK(r)
  BY DEF IInv, Core
<1>a. /\ modern # NoCmd /\ parsed[r] = ModernExports[modern] /\ ModernExports[modern] # Failed
      /\ exp # Nil => expHeap[exp] = ModernExports[modern]
      /\ symbol[r] # Nil => Searching(r) /\ ClassicList(classic) # Failed /\ CopyIsLive
  BY <1>0 DEF ReaderOK, PublishExports
<1>1. file' = file /\ HeapKept /\ ExpStep
  <2>1. CASE exp = Nil /\ parsed[r] # <<>>
    <3>1. PICK a \in ExpArrays \ PinnedExports :
             exp' = a /\ expHeap' = [expHeap EXCEPT ![a] = parsed[r]]
      BY <2>1 DEF PublishExports
    <3>2. expHeap'[a] = parsed[r] /\ \A b \in ExpArrays \ {a} : expHeap'[b] = expHeap[b]
      BY <3>1, <1>0 DEF Shape
    <3>4. \A b \in PinnedExports : b # a
      BY <3>1
    <3>5. \A b : b # a => expHeap'[b] = expHeap[b]
      BY <3>1, <1>0 DEF Shape
    <3> QED BY <3>1, <3>2, <3>4, <3>5, <2>1, <1>a DEF HeapKept, ExpStep, PublishExports
  <2>2. CASE ~(exp = Nil /\ parsed[r] # <<>>)
    BY <2>2 DEF PublishExports, HeapKept, ExpStep
  <2> QED BY <2>1, <2>2
<1>k. SeenKept
  BY <1>1, SeenStep DEF PublishExports
<1>2. Shape'
  BY <1>0 DEF Shape, PCs, PublishExports, AfterPublish
<1>3. LazyOK(symNames)' /\ LazyOK(exportNames)'
  BY <1>0 DEF LazyOK, PublishExports
<1>4. CacheOK'
  BY <1>1, CacheKept DEF PublishExports
<1>5. \A q \in Readers \ {r} : LocalsKept(q)
  BY <1>0 DEF LocalsKept, Shape, PublishExports
<1>6. ReaderOK(r)'
  <2>1. /\ pc'[r] = IF symbol[r] = Nil THEN "done" ELSE "merge"
        /\ symbol' = symbol /\ ix' = ix /\ src' = src /\ modern' = modern /\ classic' = classic
        /\ fold' = fold /\ symtab' = symtab /\ symHeap' = symHeap
    BY <1>0 DEF Shape, PublishExports, AfterPublish
  <2>2. parsed'[r] = ModernExports[modern]
    BY <1>0, <1>a DEF Shape, PublishExports
  <2>3. exp' # Nil => expHeap'[exp'] = ModernExports[modern]
    <3>1. CASE exp' = exp
      BY <3>1, <1>1, <1>a DEF HeapKept, PinnedExports
    <3>2. CASE exp' # exp
      BY <3>2, <1>1 DEF ExpStep
    <3> QED BY <3>1, <3>2
  <2>4. src'[r].exp \in {Nil, exp'}
    BY <1>0, <1>1, <2>1 DEF ReaderOK, ExpStep
  <2>5. Syms' = Syms
    BY <2>1 DEF Syms
  <2>6. IndexFor(ix[r], NamesOf(Syms))'
    BY <1>0, <2>1, <2>5 DEF ReaderOK, PublishExports
  <2>7. CASE symbol[r] = Nil
    BY <2>1, <2>4, <2>6, <2>7 DEF ReaderOK, MissedPCs, Finished, SearchPCs
  <2>8. CASE symbol[r] # Nil
    <3>1. Searching(r)'
      BY <1>a, <2>1, <2>5, <2>8 DEF Searching
    <3>2. ModernList(modern, exp)' = ModernExports[modern]
      BY <1>a, <2>1, <2>3 DEF ModernList
    <3>3. ~Fails(exportsSource)' /\ ~NoSource(exportsSource)'
      <4>1. exportsSource'.modern = modern /\ exportsSource'.classic = classic /\ exportsSource'.exp = exp'
        BY <2>1 DEF exportsSource
      <4> QED BY <1>a, <2>8, <4>1 DEF Fails, NoSource, ClassicList
    <3>4. CopyIsLive'
      BY <1>a, <1>k, <2>8 DEF SeenKept
    <3> QED BY <2>1, <2>2, <2>4, <2>6, <2>8, <3>1, <3>2, <3>3, <3>4 DEF ReaderOK, MissedPCs, Finished
  <2> QED BY <2>7, <2>8
<1> QED BY <1>0, <1>1, <1>2, <1>3, <1>4, <1>5, <1>6, <1>k, ReaderStep

(* The parts of the exports are merged.                                    *)
LEMMA MergeExportsOK ==
    ASSUME IInv, NEW r \in Readers, MergeExports(r)
    PROVE  Core'
<1> USE DEF file, index
<1> DEFINE merged == Merge(ClassicList(classic), parsed[r])
<1>0. Shape /\ LazyOK(symNames) /\ LazyOK(exportNames) /\ ReaderOK(r)
  BY DEF IInv, Core
<1>a. merged = <<>> \/ \E a \in ExpArrays \ PinnedExports :
                          /\ list' = [list EXCEPT ![r] = a]
                          /\ expHeap' = [expHeap EXCEPT ![a] = merged]
  BY DEF MergeExports
<1>b. merged = <<>> => list' = [list EXCEPT ![r] = Nil] /\ expHeap' = expHeap
  BY DEF MergeExports
<1>1. file' = file /\ HeapKept /\ ExpStep
  <2>1. HeapKept
    <3>1. CASE merged = <<>>
      BY <1>b, <3>1 DEF HeapKept
    <3>2. CASE merged # <<>>
      <4>1. PICK a \in ExpArrays \ PinnedExports : expHeap' = [expHeap EXCEPT ![a] = merged]
        BY <1>a, <3>2
      <4>2. \A b : b # a => expHeap'[b] = expHeap[b]
        BY <4>1, <1>0 DEF Shape
      <4> QED BY <4>1, <4>2 DEF HeapKept
    <3> QED BY <3>1, <3>2
  <2> QED BY <2>1 DEF ExpStep, MergeExports
<1>k. SeenKept
  BY <1>1, SeenStep DEF MergeExports
<1>2. Shape'
  BY <1>0 DEF Shape, PCs, MergeExports
<1>3. LazyOK(symNames)' /\ LazyOK(exportNames)'
  BY <1>0 DEF LazyOK, MergeExports
<1>4. CacheOK'
  BY <1>1, CacheKept DEF MergeExports
<1>5. \A q \in Readers \ {r} : LocalsKept(q)
  BY <1>0 DEF LocalsKept, Shape, MergeExports
<1>6. ReaderOK(r)'
  <2>1. /\ pc'[r] = "resource" /\ symbol' = symbol /\ ix' = ix /\ src' = src /\ fold' = fold
        /\ symtab' = symtab /\ exp' = exp
    BY <1>0 DEF Shape, MergeExports
  <2>2. /\ Fails(exportsSource)' = Fails(exportsSource)
        /\ NoSource(exportsSource)' = NoSource(exportsSource)
        /\ ExportList(exportsSource)' = ExportList(exportsSource)
        /\ Syms' = Syms
    BY <1>0, <1>1, PresentSource
  <2>3. /\ src[r].exp \in {Nil, exp} /\ IndexFor(ix[r], NamesOf(Syms)) /\ Searching(r)
        /\ parsed[r] = ModernList(modern, exp)
        /\ ~Fails(exportsSource) /\ ~NoSource(exportsSource)
    BY <1>0 DEF ReaderOK, SearchPCs, MergeExports
  <2>4. ExportList(exportsSource) = merged
    <3>1. exportsSource.classic = classic /\ exportsSource.modern = modern /\ exportsSource.exp = exp
      BY DEF exportsSource
    <3> QED BY <2>3, <3>1 DEF ExportList
  <2>5. ListAt(list[r])' = merged
    <3>1. CASE merged = <<>>
      <4>1. list'[r] = Nil
        BY <1>b, <3>1, <1>0 DEF Shape
      <4> QED BY <4>1, <3>1 DEF ListAt
    <3>2. CASE merged # <<>>
      <4>1. PICK a \in ExpArrays \ PinnedExports :
              list' = [list EXCEPT ![r] = a] /\ expHeap' = [expHeap EXCEPT ![a] = merged]
        BY <1>a, <3>2
      <4>2. list'[r] = a /\ expHeap'[a] = merged /\ a # Nil
        BY <4>1, <1>0, NilAssumption DEF Shape
      <4> QED BY <4>2 DEF ListAt
    <3> QED BY <3>1, <3>2
  <2>6. Searching(r)'
    BY <2>1, <2>2, <2>3 DEF Searching
  <2>7. CopyIsLive'
    BY <1>0, <1>k DEF ReaderOK, MissedPCs, SeenKept, MergeExports
  <2> QED BY <2>1, <2>2, <2>3, <2>4, <2>5, <2>6, <2>7 DEF ReaderOK, MissedPCs, Finished
<1> QED BY <1>0, <1>1, <1>2, <1>3, <1>4, <1>5, <1>6, <1>k, ReaderStep

(* The merged exports are stored as the cache of their source.             *)
LEMMA StoreExportsOK ==
    ASSUME IInv, NEW r \in Readers, StoreExports(r)
    PROVE  Core'
<1> USE DEF StoreExports, file, index
<1>0. Shape /\ LazyOK(symNames) /\ ReaderOK(r)
  BY DEF IInv, Core
<1>1. file' = file /\ HeapKept /\ ExpStep
  BY DEF HeapKept, ExpStep
<1>2. Shape'
  BY <1>0 DEF Shape, PCs
<1>3. LazyOK(symNames)' /\ LazyOK(exportNames)'
  BY <1>0 DEF LazyOK, IndexFor, ZeroLazy
<1>a. /\ src[r].exp \in {Nil, exp} /\ IndexFor(ix[r], NamesOf(Syms)) /\ Searching(r)
      /\ src[r].classic = classic /\ src[r].modern = modern
      /\ ModernList(modern, src[r].exp) = ModernList(modern, exp)
      /\ ~Fails(exportsSource) /\ ~NoSource(exportsSource)
      /\ ListAt(list[r]) = ExportList(exportsSource) /\ CopyIsLive
      /\ Fails(src[r]) <=> Fails(exportsSource)
  BY <1>0 DEF ReaderOK, SearchPCs, MissedPCs
<1>b. exportsSource.classic = classic /\ exportsSource.modern = modern /\ exportsSource.exp = exp
  BY DEF exportsSource
<1>c. /\ ~Fails(src[r]) /\ ~NoSource(src[r])
      /\ ListAt(list[r]) = Merge(ClassicList(classic), ModernList(modern, exp))
  BY <1>a, <1>b DEF ExportList, NoSource
<1>k. SeenKept
  <2>1. exportsSource' = exportsSource /\ exp' = exp /\ classic' = classic
    BY DEF exportsSource
  <2>2. ExportList(exportsSource)' = ExportList(exportsSource)
    BY <1>0, <1>1, PresentSource
  <2>3. CASE CacheHit'
    <3>1. ExportsSeen' = Merge(ClassicList(classic), ModernList(modern, exp))
      BY <2>1, <2>3 DEF ExportsSeen, ClassicList
    <3>2. ExportsSeen = ExportList(exportsSource)
      BY <1>a DEF CopyIsLive
    <3>3. ExportList(exportsSource) = Merge(ClassicList(classic), ModernList(modern, exp))
      BY <1>a, <1>b DEF ExportList
    <3> QED BY <2>1, <2>2, <3>1, <3>2, <3>3 DEF SeenKept, CopyIsLive
  <2>4. CASE ~CacheHit'
    <3>1. ExportsSeen' = ExportList(exportsSource)
      BY <2>2, <2>4 DEF ExportsSeen
    <3> QED BY <1>a, <2>1, <2>2, <3>1 DEF SeenKept, CopyIsLive
  <2> QED BY <2>3, <2>4
<1>4. CacheOK'
  <2>1. exportsSrc' = src[r] /\ exports' = list[r] /\ expHeap' = expHeap /\ exp' = exp
    OBVIOUS
  <2>2. (Fails(exportsSrc)' <=> Fails(src[r])) /\ (NoSource(exportsSrc)' <=> NoSource(src[r]))
    BY <2>1 DEF Fails, NoSource, ClassicList
  <2>3. ListAt(exports)' = ListAt(list[r])
    BY <2>1 DEF ListAt
  <2>4. copied' = ModernList(modern, exp)
    OBVIOUS
  <2>5. ClassicList(exportsSrc.classic)' = ClassicList(classic)
    BY <1>a, <2>1 DEF ClassicList
  <2>6. src[r].exp = Nil => ModernList(exportsSrc.modern, Nil)' = ModernList(modern, exp)
    BY <1>a, <2>1 DEF ModernList
  <2> HIDE DEF StoreExports
  <2> QED BY <1>a, <1>c, <2>1, <2>2, <2>3, <2>4, <2>5, <2>6 DEF CacheOK
<1>5. \A q \in Readers \ {r} : LocalsKept(q)
  BY <1>0 DEF LocalsKept, Shape
<1>6. ReaderOK(r)'
  <2>1. /\ pc'[r] = "index" /\ symbol' = symbol /\ ix' = ix /\ src' = src /\ fold' = fold
        /\ symtab' = symtab /\ exp' = exp /\ list' = list /\ expHeap' = expHeap
    BY <1>0 DEF Shape
  <2>2. /\ Fails(exportsSource)' = Fails(exportsSource)
        /\ ExportList(exportsSource)' = ExportList(exportsSource)
        /\ Syms' = Syms
    BY <1>0, <1>1, PresentSource
  <2>3. ListAt(list[r])' = ListAt(list[r])
    BY <2>1 DEF ListAt
  <2>4. Searching(r)'
    BY <2>1, <2>2, <1>a DEF Searching
  <2>5. ListAt(list[r])' = ExportsSeen'
    BY <1>a, <1>k, <2>3 DEF SeenKept, CopyIsLive
  <2> QED BY <1>a, <2>1, <2>2, <2>3, <2>4, <2>5 DEF ReaderOK, MissedPCs, Finished
<1> QED BY <1>0, <1>1, <1>2, <1>3, <1>4, <1>5, <1>6, <1>k, ReaderStep

(* The name index of the cached exports answers, or the scan does.         *)
LEMMA IndexExportsOK ==
    ASSUME IInv, NEW r \in Readers, IndexExports(r)
    PROVE  Core'
<1> USE DEF file, index
<1> DEFINE s == symbol[r]
           exps == ListAt(list[r])
           names == NamesOf(exps)
           l == NameIndex(exportNames, ListID(list[r]), names)
           hit == ExactHit(l.index, names, s)
           f == IF symtabFold(r).found THEN symtabFold(r) ELSE foldFirst(exps, l.index, s)
           v == CASE hit -> exps[ExactPos(l.index, names, s)].value
                  [] ~hit /\ f.found -> f.addr
                  [] ~hit /\ ~f.found -> ErrNotFound
<1>0. Shape /\ LazyOK(symNames) /\ LazyOK(exportNames) /\ ReaderOK(r)
  BY DEF IInv, Core
<1>1. file' = file /\ HeapKept /\ ExpStep
  BY DEF HeapKept, ExpStep, IndexExports
<1>k. SeenKept
  BY <1>1, SeenStep DEF IndexExports
<1>2. Shape'
  BY <1>0 DEF Shape, PCs, IndexExports, Answer
<1>a. LazyOK(l) /\ IndexFor(l.index, names)
  BY <1>0, NameIndexAgrees
<1>b. exportNames' = l /\ symNames' = symNames
  BY DEF IndexExports
<1>3. LazyOK(symNames)' /\ LazyOK(exportNames)'
  BY <1>0, <1>a, <1>b DEF LazyOK
<1>4. CacheOK'
  BY <1>1, CacheKept DEF IndexExports
<1>5. \A q \in Readers \ {r} : LocalsKept(q)
  BY <1>0 DEF LocalsKept, Shape, IndexExports, Answer
<1>6. ReaderOK(r)'
  <2>1. /\ pc'[r] = "done" /\ symbol' = symbol /\ ix' = ix /\ src' = src
        /\ symtab' = symtab /\ exp' = exp
    BY <1>0 DEF Shape, IndexExports, Answer
  <2>2. ret'[r] = v
    BY <1>0 DEF Shape, IndexExports, Answer
  <2>3. Syms' = Syms /\ ScanOver(ExportsSeen, s)' = ScanOver(ExportsSeen, s)
    BY <1>0, <1>1, <1>k, <2>1, PresentSource DEF SeenKept, ScanOver
  <2>4. /\ src[r].exp \in {Nil, exp} /\ IndexFor(ix[r], NamesOf(Syms)) /\ Searching(r)
        /\ ~Fails(exportsSource) /\ exps = ExportsSeen
    BY <1>0 DEF ReaderOK, SearchPCs, IndexExports
  <2>5. /\ hit <=> Exact(names, s) # {}
        /\ hit => ExactPos(l.index, names, s) = First(Exact(names, s))
    BY <1>a, ExactAgrees
  <2>6. symtabFold(r) = foldFirst(Syms, NoIndex, s)
    BY <2>4, FoldAgrees DEF symtabFold, Searching
  <2>7. foldFirst(exps, l.index, s) = foldFirst(exps, NoIndex, s)
    BY <1>a, FoldAgrees
  <2>8. /\ EqualFold(NamesOf(Syms), s) # {} =>
              symtabFold(r).found /\ symtabFold(r).addr = Syms[First(EqualFold(NamesOf(Syms), s))].value
        /\ EqualFold(NamesOf(Syms), s) = {} => ~symtabFold(r).found
    BY <2>6, FoldScan
  <2>11. LET e == foldFirst(exps, l.index, s) IN
        /\ EqualFold(names, s) # {} => e.found /\ e.addr = exps[First(EqualFold(names, s))].value
        /\ EqualFold(names, s) = {} => ~e.found
    BY <2>7, FoldScan
  <2>9. v = LinearSearch(Syms, exps, s)
    <3>1. Exact(NamesOf(Syms), s) = {}
      BY <2>4 DEF Searching
    <3>2. CASE Exact(names, s) # {}
      <4>1. v = exps[First(Exact(names, s))].value
        BY <2>5, <3>2
      <4>2. LinearSearch(Syms, exps, s) = exps[First(Exact(names, s))].value
        BY <3>1, <3>2 DEF LinearSearch
      <4> QED BY <4>1, <4>2
    <3>3. CASE Exact(names, s) = {} /\ EqualFold(NamesOf(Syms), s) # {}
      <4>1. f.found /\ f.addr = Syms[First(EqualFold(NamesOf(Syms), s))].value
        BY <2>8, <3>3
      <4>2. ~hit
        BY <2>5, <3>3
      <4>3. v = Syms[First(EqualFold(NamesOf(Syms), s))].value
        BY <4>1, <4>2
      <4>4. LinearSearch(Syms, exps, s) = Syms[First(EqualFold(NamesOf(Syms), s))].value
        BY <3>1, <3>3 DEF LinearSearch
      <4> QED BY <4>3, <4>4
    <3>4. CASE Exact(names, s) = {} /\ EqualFold(NamesOf(Syms), s) = {}
      <4>1. ~symtabFold(r).found
        BY <2>8, <3>4
      <4>2. f = foldFirst(exps, l.index, s) /\ ~hit
        BY <2>5, <3>4, <4>1
      <4>3. CASE EqualFold(names, s) # {}
        <5>1. f.found /\ f.addr = exps[First(EqualFold(names, s))].value
          BY <2>11, <4>2, <4>3
        <5>2. v = exps[First(EqualFold(names, s))].value
          BY <4>2, <5>1
        <5>3. LinearSearch(Syms, exps, s) = exps[First(EqualFold(names, s))].value
          BY <3>1, <3>4, <4>3 DEF LinearSearch
        <5> QED BY <5>2, <5>3
      <4>4. CASE EqualFold(names, s) = {}
        <5>1. ~f.found
          BY <2>11, <4>2, <4>4
        <5>2. v = ErrNotFound
          BY <4>2, <5>1
        <5>3. LinearSearch(Syms, exps, s) = ErrNotFound
          BY <3>1, <3>4, <4>4 DEF LinearSearch
        <5> QED BY <5>2, <5>3
      <4> QED BY <4>3, <4>4
    <3> QED BY <3>2, <3>3, <3>4
  <2>10. ScanOver(ExportsSeen, s) = LinearSearch(Syms, exps, s)
    BY <2>4 DEF ScanOver, Searching
  <2> QED BY <2>1, <2>2, <2>3, <2>4, <2>9, <2>10 DEF ReaderOK, MissedPCs, Finished, SearchPCs
<1> QED BY <1>0, <1>1, <1>2, <1>3, <1>4, <1>5, <1>6, <1>k, ReaderStep

(* A reader returns and may begin again.                                   *)
LEMMA ReturnOK ==
    ASSUME IInv, NEW r \in Readers, Return(r)
    PROVE  Core'
<1> USE DEF Return, file, index
<1>0. Shape /\ LazyOK(symNames) /\ LazyOK(exportNames) /\ ReaderOK(r)
  BY DEF IInv, Core
<1>1. file' = file /\ HeapKept /\ ExpStep
  BY DEF HeapKept, ExpStep
<1>k. SeenKept
  BY <1>1, SeenStep DEF Return
<1>2. Shape'
  BY <1>0 DEF Shape, PCs, Sources, ZeroSource
<1>3. LazyOK(symNames)' /\ LazyOK(exportNames)'
  BY <1>0 DEF LazyOK
<1>4. CacheOK'
  BY <1>1, CacheKept
<1>5. \A q \in Readers \ {r} : LocalsKept(q)
  BY <1>0 DEF LocalsKept, Shape
<1>6. ReaderOK(r)'
  <2>1. pc'[r] = "idle" /\ ix'[r] = NoIndex /\ src'[r] = ZeroSource
    BY <1>0 DEF Shape
  <2> QED BY <2>1 DEF ReaderOK, MissedPCs, Finished, SearchPCs, ZeroSource
<1> QED BY <1>0, <1>1, <1>2, <1>3, <1>4, <1>5, <1>6, <1>k, ReaderStep

-----------------------------------------------------------------------------
(* The serialised modifications: no goroutine is inside a lookup, so only  *)
(* the shared state has to be looked at.                                   *)
LEMMA ModifyOK ==
    ASSUME IInv, Modify,
           \A a \in ExpArrays \ {exp} : expHeap'[a] = expHeap[a],
           expHeap' = [a \in ExpArrays |-> expHeap'[a]],
           classic' \in DOMAIN ClassicExports \cup {NoCmd},
           modern' \in DOMAIN ModernExports \cup {NoCmd},
           \/ UNCHANGED index
           \/ /\ symNames' = ZeroLazy /\ exportNames' = ZeroLazy
              /\ exportsSrc' = ZeroSource /\ exports' = Nil
    PROVE  Core'
<1> USE DEF Modify, index, locals
<1>0. Shape /\ LazyOK(symNames) /\ LazyOK(exportNames) /\ CacheOK /\ Private
  BY DEF IInv, Core
<1>1. Shape'
  <2>1. ZeroSource \in Sources
    BY DEF Sources, ZeroSource
  <2>2. exportsSrc' \in Sources /\ exports' \in ExpArrays \cup {Nil}
    BY <1>0, <2>1 DEF Shape
  <2> QED BY <1>0, <2>2 DEF Shape
<1>2. LazyOK(symNames)' /\ LazyOK(exportNames)'
  BY <1>0 DEF LazyOK, IndexFor, ZeroLazy
<1>3. CacheOK'
  <2>1. CASE UNCHANGED index
    <3>1. ListAt(exports)' = ListAt(exports)
      BY <1>0, <2>1 DEF ListAt, Private, Shape
    <3>2. /\ Fails(exportsSrc)' = Fails(exportsSrc) /\ NoSource(exportsSrc)' = NoSource(exportsSrc)
          /\ ClassicList(exportsSrc.classic)' = ClassicList(exportsSrc.classic)
          /\ ModernList(exportsSrc.modern, Nil)' = ModernList(exportsSrc.modern, Nil)
      BY <2>1 DEF Fails, NoSource, ClassicList, ModernList
    <3> QED BY <1>0, <2>1, <3>1, <3>2 DEF CacheOK
  <2>2. CASE exportsSrc' = ZeroSource
    BY <2>2 DEF CacheOK, ZeroSource
  <2> QED BY <2>1, <2>2
<1>4. ASSUME NEW r \in Readers PROVE ReaderOK(r)'
  <2>1. ReaderOK(r) /\ pc[r] = "idle"
    BY DEF IInv, Core
  <2> QED BY <2>1 DEF ReaderOK, MissedPCs, Finished, SearchPCs
<1> QED BY <1>1, <1>2, <1>3, <1>4 DEF Core

(* A newly opened file has no indexes and no cached exports.               *)
LEMMA InitOK == Init => IInv
<1> SUFFICES ASSUME Init PROVE IInv
  OBVIOUS
<1> USE DEF Init
<1>1. Shape
  <2>1. ZeroSource \in Sources
    BY DEF Sources, ZeroSource
  <2>2. src \in [Readers -> Sources] /\ exportsSrc \in Sources
    BY <2>1
  <2>3. pc \in [Readers -> PCs] /\ symbol \in [Readers -> Names \cup {Nil}]
    BY DEF PCs
  <2>4. list \in [Readers -> ExpArrays \cup {Nil}]
    OBVIOUS
  <2>5. /\ ix = [r \in Readers |-> ix[r]]
        /\ fold = [r \in Readers |-> fold[r]]
        /\ parsed = [r \in Readers |-> parsed[r]]
        /\ ret = [r \in Readers |-> ret[r]]
        /\ expHeap = [a \in ExpArrays |-> expHeap[a]]
    OBVIOUS
  <2> QED BY <2>2, <2>3, <2>4, <2>5 DEF Shape
<1>2. LazyOK(symNames) /\ LazyOK(exportNames)
  BY DEF LazyOK, IndexFor, ZeroLazy
<1>3. CacheOK
  BY DEF CacheOK, ZeroSource
<1>4. ASSUME NEW r \in Readers PROVE ReaderOK(r)
  BY DEF ReaderOK, MissedPCs, Finished, SearchPCs, ZeroSource
<1>5. Private
  BY DEF Private
<1> QED BY <1>1, <1>2, <1>3, <1>4, <1>5 DEF IInv, Core

(* A list a lookup merges gets an array of its own, and so does the list   *)
(* DyldExports publishes.                                                  *)
LEMMA PrivateStep == Shape /\ Private /\ [Next]_vars => Private'
<1> SUFFICES ASSUME Shape, Private, [Next]_vars PROVE Private'
  OBVIOUS
<1>1. ASSUME NEW r \in Readers, PublishExports(r) PROVE Private'
  <2>1. exports' = exports /\ list' = list /\ (exp' = exp \/ exp' \notin PinnedExports)
    BY <1>1 DEF PublishExports, index
  <2>2. exports \in PinnedExports /\ \A q \in Readers : list[q] \in PinnedExports
    BY DEF PinnedExports
  <2> QED BY <2>1, <2>2 DEF Private
<1>2. ASSUME NEW r \in Readers, MergeExports(r) PROVE Private'
  <2>1. PICK a : (a = Nil \/ a \notin PinnedExports) /\ list' = [list EXCEPT ![r] = a]
    BY <1>2 DEF MergeExports
  <2>2. exp \in PinnedExports /\ exports' = exports /\ exp' = exp
    BY <1>2 DEF PinnedExports, MergeExports, index
  <2> QED BY <2>1, <2>2 DEF Private, Shape
<1>3. ASSUME NEW r \in Readers, UseCachedExports(r) PROVE Private'
  BY <1>3 DEF UseCachedExports, Private, Shape, index
<1>4. ASSUME NEW r \in Readers, StoreExports(r) PROVE Private'
  BY <1>4 DEF StoreExports, Private, Shape
<1>5. ASSUME NEW r \in Readers, NoExportCommands(r) \/ Return(r) PROVE Private'
  BY <1>5 DEF NoExportCommands, Return, Private, Shape, index
<1>6. CASE exp' = exp /\ list' = list /\ (exports' = exports \/ exports' = Nil)
  BY <1>6 DEF Private
<1>7. ASSUME NEW r \in Readers, NEW s \in Names, LookupNoSymtab(r, s) \/ LookupSymtab(r, s)
      PROVE  Private'
  BY <1>6, <1>7 DEF LookupNoSymtab, LookupSymtab, index
<1>8. ASSUME NEW r \in Readers,
             \/ ReadSource(r) \/ MissCachedExports(r) \/ ExportsFail(r) \/ ParseExports(r)
             \/ CallDyldExports(r) \/ ReadSourceAgain(r) \/ IndexExports(r)
      PROVE  Private'
  BY <1>6, <1>8 DEF ReadSource, MissCachedExports, ExportsFail, ParseExports, CallDyldExports,
                    ReadSourceAgain, IndexExports, index
<1>9. CASE ReplaceSyms \/ EditSym \/ EditExport \/ DropSymtab \/ SetLoads \/ resetSymbolIndexes
  BY <1>6, <1>9 DEF ReplaceSyms, EditSym, EditExport, DropSymtab, SetLoads, resetSymbolIndexes,
                    Modify, index, locals
<1>10. CASE UNCHANGED vars
  BY <1>6, <1>10 DEF vars, index, locals
<1> QED
  BY <1>1, <1>2, <1>3, <1>4, <1>5, <1>7, <1>8, <1>9, <1>10 DEF Next, Lookup

(* Every step of a reader and every modification keeps the core.           *)
LEMMA CoreStep == IInv /\ [Next]_vars => Core'
<1> SUFFICES ASSUME IInv, [Next]_vars PROVE Core'
  OBVIOUS
<1>1. CASE UNCHANGED vars
  <2> USE <1>1 DEF vars, file, index, locals
  <2>0. Shape /\ LazyOK(symNames) /\ LazyOK(exportNames) /\ CacheOK
    BY DEF IInv, Core
  <2>1. file' = file /\ HeapKept /\ ExpStep
    BY DEF HeapKept, ExpStep
  <2>5. SeenKept
    BY <2>1, SeenStep
  <2>2. Shape' /\ LazyOK(symNames)' /\ LazyOK(exportNames)'
    BY <2>0 DEF Shape, LazyOK
  <2>3. CacheOK'
    BY <2>1, CacheKept
  <2>4. ASSUME NEW q \in Readers PROVE ReaderOK(q)'
    <3>1. LocalsKept(q)
      BY DEF LocalsKept
    <3> QED BY <2>1, <2>5, <3>1, OtherReader
  <2> QED BY <2>2, <2>3, <2>4 DEF Core
<1>2. ASSUME NEW r \in Readers, NEW s \in Names, LookupNoSymtab(r, s) PROVE Core'
  BY <1>2, LookupNoSymtabOK
<1>3. ASSUME NEW r \in Readers, NEW s \in Names, LookupSymtab(r, s) PROVE Core'
  BY <1>3, LookupSymtabOK
<1>4. ASSUME NEW r \in Readers, ReadSource(r) PROVE Core'
  BY <1>4, ReadSourceOK
<1>5. ASSUME NEW r \in Readers, UseCachedExports(r) PROVE Core'
  BY <1>5, UseCachedExportsOK
<1>6. ASSUME NEW r \in Readers, MissCachedExports(r) PROVE Core'
  BY <1>6, MissCachedExportsOK
<1>7. ASSUME NEW r \in Readers, NoExportCommands(r) PROVE Core'
  BY <1>7, NoExportCommandsOK
<1>8. ASSUME NEW r \in Readers, ExportsFail(r) PROVE Core'
  BY <1>8, ExportsFailOK
<1>9. ASSUME NEW r \in Readers, ParseExports(r) PROVE Core'
  BY <1>9, ParseExportsOK
<1>10. ASSUME NEW r \in Readers, CallDyldExports(r) PROVE Core'
  BY <1>10, CallDyldExportsOK
<1>11. ASSUME NEW r \in Readers, PublishExports(r) PROVE Core'
  BY <1>11, PublishExportsOK
<1>12. ASSUME NEW r \in Readers, MergeExports(r) PROVE Core'
  BY <1>12, MergeExportsOK
<1>13. ASSUME NEW r \in Readers, ReadSourceAgain(r) PROVE Core'
  BY <1>13, ReadSourceAgainOK
<1>14. ASSUME NEW r \in Readers, StoreExports(r) PROVE Core'
  BY <1>14, StoreExportsOK
<1>15. ASSUME NEW r \in Readers, IndexExports(r) PROVE Core'
  BY <1>15, IndexExportsOK
<1>16. ASSUME NEW r \in Readers, Return(r) PROVE Core'
  BY <1>16, ReturnOK
<1>17. CASE ReplaceSyms \/ EditSym \/ DropSymtab
  <2>1. Modify /\ classic' = classic /\ modern' = modern /\ UNCHANGED index /\ expHeap' = expHeap
    BY <1>17 DEF ReplaceSyms, EditSym, DropSymtab
  <2>2. Shape
    BY DEF IInv, Core
  <2> QED BY <2>1, <2>2, ModifyOK DEF Shape
<1>18. CASE SetLoads
  <2>1. Shape
    BY DEF IInv, Core
  <2> QED BY <1>18, <2>1, ModifyOK DEF SetLoads, Shape
<1>19. CASE resetSymbolIndexes
  <2>1. Shape
    BY DEF IInv, Core
  <2> QED BY <1>19, <2>1, ModifyOK DEF resetSymbolIndexes, Shape
<1>20. CASE EditExport
  <2>1. Shape
    BY DEF IInv, Core
  <2>2. PICK t : expHeap' = [expHeap EXCEPT ![exp] = t]
    BY <1>20 DEF EditExport
  <2>3. /\ expHeap' = [a \in ExpArrays |-> expHeap'[a]]
        /\ \A a \in ExpArrays \ {exp} : expHeap'[a] = expHeap[a]
    BY <2>1, <2>2 DEF Shape
  <2>4. Modify /\ classic' = classic /\ modern' = modern /\ UNCHANGED index
    BY <1>20 DEF EditExport
  <2> QED BY <2>1, <2>3, <2>4, ModifyOK DEF Shape
<1> QED
  BY <1>1, <1>2, <1>3, <1>4, <1>5, <1>6, <1>7, <1>8, <1>9, <1>10, <1>11, <1>12, <1>13,
     <1>14, <1>15, <1>16, <1>17, <1>18, <1>19, <1>20 DEF Next, Lookup

(* The invariant is inductive.                                             *)
LEMMA Inductive == IInv /\ [Next]_vars => IInv'
BY CoreStep, PrivateStep DEF IInv, Core

(* The inductive invariant holds in every state. *)
THEOREM Invariance == Spec => []IInv
<1> QED BY InitOK, Inductive, PTL DEF Spec

-----------------------------------------------------------------------------
(* FindSymbolAddress returns what the linear scan returns over the live    *)
(* symbol table and the exports as they were copied, for any number of     *)
(* concurrent lookups and any modifications between them, edits of the     *)
(* list DyldExports handed out among them.                                 *)
THEOREM LookupsMatchCopied == Spec => []LookupMatchesCopied
<1>1. IInv => LookupMatchesCopied
  BY DEF IInv, Core, ReaderOK, LookupMatchesCopied
<1> QED BY <1>1, Invariance, PTL

(* The list the cache was copied from still has the contents copied. *)
CopyKept == exportsSrc.initialized => copied = ModernList(exportsSrc.modern, exportsSrc.exp)

(* Only an edit of the list DyldExports handed out makes the copy stale:   *)
(* neither a lookup nor any other modification does.                       *)
LEMMA CopyKeptStep == IInv /\ CopyKept /\ [Next]_vars /\ ~EditExport => CopyKept'
<1> SUFFICES ASSUME IInv, CopyKept, [Next]_vars, ~EditExport PROVE CopyKept'
  OBVIOUS
<1>0. Shape /\ exportsSrc.exp \in {Nil, exp}
  BY DEF IInv, Core, CacheOK
<1>1. CASE /\ exportsSrc' = exportsSrc /\ copied' = copied
           /\ exportsSrc.exp # Nil => expHeap'[exportsSrc.exp] = expHeap[exportsSrc.exp]
  BY <1>1 DEF CopyKept, ModernList
<1>2. ASSUME NEW r \in Readers, StoreExports(r) PROVE CopyKept'
  <2>1. ReaderOK(r) /\ pc[r] = "store"
    BY <1>2 DEF IInv, Core, StoreExports
  <2>2. src[r].modern = modern /\ ModernList(modern, src[r].exp) = ModernList(modern, exp)
    BY <2>1 DEF ReaderOK
  <2>3. exportsSrc' = src[r] /\ copied' = ModernList(modern, exp) /\ expHeap' = expHeap
    BY <1>2 DEF StoreExports
  <2> QED BY <2>2, <2>3 DEF CopyKept, ModernList
<1>3. ASSUME NEW r \in Readers, PublishExports(r) \/ MergeExports(r) PROVE CopyKept'
  <2>1. exportsSrc' = exportsSrc /\ copied' = copied
    BY <1>3 DEF PublishExports, MergeExports, index
  <2>2. \/ expHeap' = expHeap
        \/ \E a \in ExpArrays \ PinnedExports : \E t : expHeap' = [expHeap EXCEPT ![a] = t]
    BY <1>3 DEF PublishExports, MergeExports
  <2>3. exportsSrc.exp \in PinnedExports
    BY DEF PinnedExports
  <2>4. exportsSrc.exp # Nil => expHeap'[exportsSrc.exp] = expHeap[exportsSrc.exp]
    BY <1>0, <2>2, <2>3 DEF Shape
  <2> QED BY <1>1, <2>1, <2>4
<1>4. CASE resetSymbolIndexes
  BY <1>4 DEF resetSymbolIndexes, CopyKept, ZeroSource
<1>5. ASSUME NEW r \in Readers, NEW s \in Names, LookupNoSymtab(r, s) \/ LookupSymtab(r, s)
      PROVE  CopyKept'
  BY <1>1, <1>5 DEF LookupNoSymtab, LookupSymtab, index
<1>6. ASSUME NEW r \in Readers,
             \/ ReadSource(r) \/ UseCachedExports(r) \/ MissCachedExports(r)
             \/ NoExportCommands(r) \/ ExportsFail(r) \/ ParseExports(r)
             \/ CallDyldExports(r) \/ ReadSourceAgain(r) \/ IndexExports(r) \/ Return(r)
      PROVE  CopyKept'
  BY <1>1, <1>6 DEF ReadSource, UseCachedExports, MissCachedExports, NoExportCommands,
                    ExportsFail, ParseExports, CallDyldExports, ReadSourceAgain, IndexExports,
                    Return, index
<1>7. CASE ReplaceSyms \/ EditSym \/ DropSymtab \/ SetLoads
  BY <1>1, <1>7 DEF ReplaceSyms, EditSym, DropSymtab, SetLoads, Modify, index
<1>8. CASE UNCHANGED vars
  BY <1>1, <1>8 DEF vars, index
<1> QED
  BY <1>2, <1>3, <1>4, <1>5, <1>6, <1>7, <1>8 DEF Next, Lookup

(* FindSymbolAddress returns what findSymbolAddressLinear returns, for any *)
(* number of concurrent lookups and any modifications between them, as     *)
(* long as callers leave the list DyldExports handed out alone.            *)
THEOREM LookupsMatchLinear == Spec /\ [][~EditExport]_vars => []LookupMatchesLinear
<1>1. Init => CopyKept
  BY DEF Init, CopyKept, ZeroSource
<1>2. IInv /\ CopyKept => LookupMatchesLinear
  <2> SUFFICES ASSUME IInv, CopyKept, NEW r \in Readers, Finished(r)
               PROVE  ret[r] = findSymbolAddressLinear(symbol[r])
    BY DEF LookupMatchesLinear
  <2>1. ret[r] = ScanOver(ExportsSeen, symbol[r]) /\ CacheOK
    BY DEF IInv, Core, ReaderOK
  <2>2. ExportsSeen = ExportList(exportsSource)
    <3>1. CASE CacheHit
      <4>1. copied = ModernList(modern, exp) /\ ~NoSource(exportsSource)
        BY <2>1, <3>1 DEF CacheHit, CopyKept, CacheOK, exportsSource
      <4>2. ExportList(exportsSource) = Merge(ClassicList(classic), ModernList(modern, exp))
        BY <4>1 DEF ExportList, exportsSource
      <4> QED BY <3>1, <4>1, <4>2 DEF ExportsSeen
    <3>2. CASE ~CacheHit
      BY <3>2 DEF ExportsSeen
    <3> QED BY <3>1, <3>2
  <2> QED BY <2>1, <2>2 DEF findSymbolAddressLinear
<1>3. IInv /\ CopyKept /\ [Next]_vars /\ [~EditExport]_vars => CopyKept'
  <2>1. CASE UNCHANGED vars
    BY <2>1 DEF vars, index, CopyKept, ModernList
  <2>2. CASE ~EditExport
    BY <2>2, CopyKeptStep
  <2> QED BY <2>1, <2>2
<1> QED BY <1>1, <1>2, <1>3, Invariance, PTL DEF Spec

(* The checks of FindSymbolAddress against the live table never fail:      *)
(* findSymbolAddressStale is never called while the File's contract holds. *)
LEMMA IndexesStayLive == Spec => []IndexHitsAreLive
<1>1. IInv => IndexHitsAreLive
  <2> SUFFICES ASSUME IInv, NEW r \in Readers, pc[r] # "idle", ix[r].built
               PROVE  ix[r].names = NamesOf(Syms)
    BY DEF IndexHitsAreLive
  <2>1. IndexFor(ix[r], NamesOf(Syms))
    BY DEF IInv, Core, ReaderOK
  <2> QED BY <2>1 DEF IndexFor, NoIndex, buildNameIndex
<1> QED BY <1>1, Invariance, PTL

(* The list cachedExports serves is the one GetExports returned when it    *)
(* was stored, and GetExports would not fail now.                          *)
LEMMA ExportCacheIsFresh == Spec => []CachedExportsFresh
<1>1. IInv => CachedExportsFresh
  <2> SUFFICES ASSUME IInv, CacheHit
               PROVE  ~Fails(exportsSource) /\ ListAt(exports) = ExportsSeen
    BY DEF CachedExportsFresh
  <2>1. CacheOK /\ exportsSrc.initialized /\ exportsSrc = exportsSource
    BY DEF IInv, Core, CacheHit
  <2>2. exportsSrc.classic = classic
    BY <2>1 DEF exportsSource
  <2> QED BY <2>1, <2>2 DEF CacheOK, ExportsSeen
<1> QED BY <1>1, Invariance, PTL

(* Neither the indexes nor the copied export list are used for another     *)
(* table than the one they were built from, for any number of concurrent   *)
(* lookups and any modifications between them.                             *)
THEOREM IndexesStayFresh == Spec => []IndexesAreFresh
<1>1. IndexHitsAreLive /\ CachedExportsFresh => IndexesAreFresh
  BY DEF IndexesAreFresh
<1> QED BY <1>1, IndexesStayLive, ExportCacheIsFresh, PTL

(* The slice DyldExports published first is final: only a caller changes   *)
(* what it holds.                                                          *)
THEOREM FirstParseWins == Spec => PublishedExportsAreFinal
<1> DEFINE Final == exp # Nil => exp' = exp /\ (EditExport \/ expHeap'[exp] = expHeap[exp])
<1>1. IInv /\ [Next]_vars => [Final]_vars
  <2> SUFFICES ASSUME IInv, Next, exp # Nil
               PROVE  exp' = exp /\ (EditExport \/ expHeap'[exp] = expHeap[exp])
    BY DEF vars
  <2>0. Shape
    BY DEF IInv, Core
  <2>1. ASSUME NEW r \in Readers, PublishExports(r)
        PROVE  exp' = exp /\ expHeap' = expHeap
    BY <2>1 DEF PublishExports
  <2>2. ASSUME NEW r \in Readers, MergeExports(r)
        PROVE  exp' = exp /\ expHeap'[exp] = expHeap[exp]
    <3>1. exp' = exp
      BY <2>2 DEF MergeExports
    <3>2. \/ expHeap' = expHeap
          \/ \E a \in ExpArrays \ PinnedExports :
                expHeap' = [expHeap EXCEPT ![a] = Merge(ClassicList(classic), parsed[r])]
      BY <2>2 DEF MergeExports
    <3>3. exp \in PinnedExports
      BY SMTT(30) DEF PinnedExports
    <3> QED BY <2>0, <3>1, <3>2, <3>3 DEF Shape
  <2>4. CASE EditExport
    BY <2>4 DEF EditExport, Modify
  <2>3. CASE ~EditExport /\ ~\E r \in Readers : PublishExports(r) \/ MergeExports(r)
    BY <2>3 DEF Next, Lookup, LookupNoSymtab, LookupSymtab, ReadSource, UseCachedExports,
                MissCachedExports, NoExportCommands, ExportsFail, ParseExports,
                CallDyldExports, ReadSourceAgain, StoreExports, IndexExports, Return,
                ReplaceSyms, EditSym, DropSymtab, SetLoads, resetSymbolIndexes, Modify
  <2> QED BY <2>1, <2>2, <2>3, <2>4
<1> QED BY <1>1, Invariance, PTL DEF Spec, PublishedExportsAreFinal

-----------------------------------------------------------------------------
(* Type correctness. *)

(* The part of TypeOK that Shape does not state, and where the symbol      *)
(* index can point.                                                        *)
SymType ==
    /\ symHeap \in [SymArrays -> Seq([name: Names, value: Values])]
    /\ symtab = Nil \/ InBounds(symtab)
    /\ symNames.id.arr \in SymArrays \cup {Nil}
    /\ symNames.lookups \in 0..After
    /\ exportNames.lookups \in 0..After
    /\ mutations \in 0..MaxMutations

(* A name index never counts past After, and is keyed by the slice asked   *)
(* about or by none.                                                       *)
LEMMA NameIndexType ==
    ASSUME NEW l, NEW id, NEW names, l.lookups \in 0..After
    PROVE  /\ NameIndex(l, id, names).lookups \in 0..After
           /\ NameIndex(l, id, names).id \in {id, EmptyID}
<1> DEFINE m == IF l.id = id THEN l ELSE [id |-> id, lookups |-> 0, index |-> NoIndex]
           g == get(l, id, names)
<1>1. m.id = id /\ m.lookups \in 0..After
  BY BoundAssumption
<1> HIDE DEF m
<1>2. \/ g = m
      \/ m.lookups < After /\ g = [id |-> id, lookups |-> m.lookups + 1, index |-> NoIndex]
      \/ g = [id |-> id, lookups |-> m.lookups, index |-> buildNameIndex(names)]
  BY DEF get, m
<1>3. g.id = id /\ g.lookups \in 0..After
  BY <1>1, <1>2, BoundAssumption
<1>4. ZeroLazy.id = EmptyID /\ ZeroLazy.lookups = 0
  BY DEF ZeroLazy
<1> QED BY <1>3, <1>4, BoundAssumption DEF NameIndex

(* In-place edits keep a table a table. *)
LEMMA EditType ==
    ASSUME NEW E, NEW t \in Seq(E), NEW i \in DOMAIN t, NEW e \in E
    PROVE  [t EXCEPT ![i] = e] \in Seq(E) /\ Len([t EXCEPT ![i] = e]) = Len(t)
OBVIOUS

(* A modification keeps the types of the tables.                           *)
LEMMA SymTypeModify ==
    ASSUME SymType,
           \/ ReplaceSyms \/ EditSym \/ EditExport \/ DropSymtab \/ SetLoads
           \/ resetSymbolIndexes
    PROVE  SymType'
<1> DEFINE Entry == [name: Names, value: Values]
<1>0. mutations' \in 0..MaxMutations
  BY BoundAssumption
     DEF SymType, ReplaceSyms, EditSym, EditExport, DropSymtab, SetLoads, resetSymbolIndexes,
         Modify
<1>1. CASE ReplaceSyms
  <2>1. UNCHANGED index
    BY <1>1 DEF ReplaceSyms
  <2>2. symHeap' \in [SymArrays -> Seq(Entry)] /\ InBounds(symtab)'
    <3>1. CASE \E a \in SymArrays \ PinnedSyms, t \in Tables :
                  /\ symHeap' = [symHeap EXCEPT ![a] = t]
                  /\ symtab' = [arr |-> a, lo |-> 0, n |-> Len(t)]
      <4>1. PICK a \in SymArrays \ PinnedSyms, t \in Tables :
                  /\ symHeap' = [symHeap EXCEPT ![a] = t]
                  /\ symtab' = [arr |-> a, lo |-> 0, n |-> Len(t)]
        BY <3>1
      <4>2. t \in Seq(Entry) /\ Len(t) \in Nat
        <5>1. t \in Seq(Entry)
          BY TablesAssumption
        <5> QED BY <5>1
      <4>3. symHeap' \in [SymArrays -> Seq(Entry)] /\ symHeap'[a] = t
        BY <4>1, <4>2 DEF SymType
      <4>5. symtab'.arr = a /\ symtab'.lo = 0 /\ symtab'.n = Len(t)
        BY <4>1
      <4>6. 0 + Len(t) <= Len(t)
        BY <4>2
      <4>7. InBounds(symtab)'
        BY <4>2, <4>3, <4>5, <4>6 DEF InBounds
      <4> QED BY <4>3, <4>7
    <3>2. CASE \E a \in PinnedSyms \ {Nil} : \E b, m \in 0..Len(symHeap[a]) :
                  /\ b + m <= Len(symHeap[a])
                  /\ symtab' = [arr |-> a, lo |-> b, n |-> m]
                  /\ UNCHANGED symHeap
      <4>1. PinnedSyms \ {Nil} \subseteq SymArrays
        BY DEF PinnedSyms, SymType, InBounds
      <4>4. PICK a \in SymArrays : \E b, m \in 0..Len(symHeap[a]) :
                  /\ b + m <= Len(symHeap[a])
                  /\ symtab' = [arr |-> a, lo |-> b, n |-> m]
                  /\ UNCHANGED symHeap
        BY <3>2, <4>1
      <4>2. PICK b \in 0..Len(symHeap[a]), m \in 0..Len(symHeap[a]) :
                  /\ b + m <= Len(symHeap[a])
                  /\ symtab' = [arr |-> a, lo |-> b, n |-> m]
                  /\ UNCHANGED symHeap
        BY <4>4
      <4>3. Len(symHeap[a]) \in Nat
        BY DEF SymType
      <4>5. symtab'.arr = a /\ symtab'.lo = b /\ symtab'.n = m /\ symHeap' = symHeap
        BY <4>2
      <4>6. InBounds(symtab)'
        BY <4>2, <4>3, <4>5 DEF InBounds
      <4> QED BY <4>5, <4>6 DEF SymType
    <3> QED BY <1>1, <3>1, <3>2 DEF ReplaceSyms
  <2> QED BY <1>0, <2>1, <2>2 DEF SymType, index
<1>2. CASE EditSym
  <2>1. PinnedSyms \ {Nil} \subseteq SymArrays
    BY DEF PinnedSyms, SymType, InBounds
  <2>8. PICK a \in SymArrays : \E i \in DOMAIN symHeap[a] : \E n \in Names, v \in Values :
           symHeap' = [symHeap EXCEPT ![a][i] = [name |-> n, value |-> v]]
    BY <1>2, <2>1 DEF EditSym
  <2>2. PICK i \in DOMAIN symHeap[a], n \in Names, v \in Values :
           symHeap' = [symHeap EXCEPT ![a][i] = [name |-> n, value |-> v]]
    BY <2>8
  <2>3. symHeap[a] \in Seq(Entry) /\ [name |-> n, value |-> v] \in Entry
    BY DEF SymType
  <2>4. LET t == [symHeap[a] EXCEPT ![i] = [name |-> n, value |-> v]]
        IN  t \in Seq(Entry) /\ Len(t) = Len(symHeap[a]) /\ symHeap' = [symHeap EXCEPT ![a] = t]
    BY <2>2, <2>3, EditType
  <2>5. /\ symHeap' \in [SymArrays -> Seq(Entry)]
        /\ \A b \in SymArrays : Len(symHeap'[b]) = Len(symHeap[b])
    BY <2>4 DEF SymType
  <2>6. symtab' = symtab /\ UNCHANGED index
    BY <1>2 DEF EditSym
  <2>7. symtab' = Nil \/ InBounds(symtab)'
    BY <2>5, <2>6 DEF SymType, InBounds
  <2> QED BY <1>0, <2>5, <2>6, <2>7 DEF SymType, index
<1>3. CASE EditExport \/ DropSymtab \/ SetLoads \/ resetSymbolIndexes
  <2>1. symHeap' = symHeap /\ (symtab' = symtab \/ symtab' = Nil)
    BY <1>3 DEF EditExport, DropSymtab, SetLoads, resetSymbolIndexes
  <2>2. symtab' = Nil \/ InBounds(symtab)'
    BY <2>1 DEF SymType, InBounds
  <2>3. /\ symNames' = symNames \/ symNames' = ZeroLazy
        /\ exportNames' = exportNames \/ exportNames' = ZeroLazy
    BY <1>3 DEF EditExport, DropSymtab, SetLoads, resetSymbolIndexes, index
  <2>4. ZeroLazy.lookups = 0 /\ ZeroLazy.id.arr = Nil
    BY DEF ZeroLazy, EmptyID
  <2>5. 0 \in 0..After
    BY BoundAssumption
  <2>6. /\ symNames'.lookups \in 0..After /\ exportNames'.lookups \in 0..After
        /\ symNames'.id.arr \in SymArrays \cup {Nil}
    BY <2>3, <2>4, <2>5 DEF SymType
  <2> QED BY <1>0, <2>1, <2>2, <2>6 DEF SymType
<1> QED BY <1>1, <1>2, <1>3

(* Every step keeps the types of the state.                                *)
LEMMA SymTypeStep == SymType /\ [Next]_vars => SymType'
<1> SUFFICES ASSUME SymType, [Next]_vars PROVE SymType'
  OBVIOUS
<1>1. ASSUME NEW r \in Readers, NEW s \in Names, LookupSymtab(r, s) PROVE SymType'
  <2> DEFINE l == NameIndex(symNames, idOf(symtab), NamesOf(Syms))
  <2>1. symNames' = l /\ UNCHANGED <<file, exportNames>> /\ symtab # Nil
    BY <1>1 DEF LookupSymtab
  <2>2. l.lookups \in 0..After /\ l.id \in {idOf(symtab), EmptyID}
    BY NameIndexType DEF SymType
  <2>3. idOf(symtab).arr \in SymArrays \cup {Nil} /\ EmptyID.arr = Nil
    BY <2>1 DEF idOf, EmptyID, SymType, InBounds
  <2> QED BY <2>1, <2>2, <2>3 DEF SymType, file, InBounds
<1>2. ASSUME NEW r \in Readers, IndexExports(r) PROVE SymType'
  <2> DEFINE l == NameIndex(exportNames, ListID(list[r]), NamesOf(ListAt(list[r])))
  <2>1. exportNames' = l /\ UNCHANGED <<file, symNames>>
    BY <1>2 DEF IndexExports
  <2>2. l.lookups \in 0..After
    BY NameIndexType DEF SymType
  <2> QED BY <2>1, <2>2 DEF SymType, file, InBounds
<1>3. ASSUME NEW r \in Readers, StoreExports(r) PROVE SymType'
  <2>1. exportNames' = ZeroLazy /\ UNCHANGED <<file, symNames>>
    BY <1>3 DEF StoreExports
  <2>2. ZeroLazy.lookups = 0
    BY DEF ZeroLazy
  <2>3. exportNames'.lookups \in 0..After
    BY <2>1, <2>2, BoundAssumption
  <2> QED BY <2>1, <2>3 DEF SymType, file, InBounds
<1>4. CASE UNCHANGED <<file, index>>
  BY <1>4 DEF SymType, file, index, InBounds
<1>5. CASE ReplaceSyms \/ EditSym \/ EditExport \/ DropSymtab \/ SetLoads \/ resetSymbolIndexes
  BY <1>5, SymTypeModify
<1>6. ASSUME NEW r \in Readers, NEW s \in Names, LookupNoSymtab(r, s) PROVE SymType'
  BY <1>6, <1>4 DEF LookupNoSymtab
<1>7. ASSUME NEW r \in Readers,
             \/ ReadSource(r) \/ UseCachedExports(r) \/ MissCachedExports(r)
             \/ NoExportCommands(r) \/ ExportsFail(r) \/ ParseExports(r)
             \/ CallDyldExports(r) \/ PublishExports(r) \/ MergeExports(r)
             \/ ReadSourceAgain(r) \/ Return(r)
      PROVE  SymType'
  <2>1. UNCHANGED <<file, index>>
    BY <1>7 DEF ReadSource, UseCachedExports, MissCachedExports, NoExportCommands, ExportsFail,
                ParseExports, CallDyldExports, PublishExports, MergeExports, ReadSourceAgain, Return
  <2> QED BY <2>1, <1>4
<1> QED
  BY <1>1, <1>2, <1>3, <1>4, <1>5, <1>6, <1>7 DEF Next, Lookup, vars

(* Every state is well typed: symbol slices stay inside their arrays and   *)
(* lookup counters within After.                                           *)
THEOREM TypeCorrect == Spec => []TypeOK
<1>1. Init => SymType
  <2> SUFFICES ASSUME Init PROVE SymType
    OBVIOUS
  <2>1. ZeroLazy.lookups = 0 /\ ZeroLazy.id.arr = Nil
    BY DEF ZeroLazy, EmptyID
  <2>2. <<>> \in Seq([name: Names, value: Values])
    OBVIOUS
  <2>3. /\ symHeap \in [SymArrays -> Seq([name: Names, value: Values])]
        /\ symtab = Nil \/ InBounds(symtab)
    <3>1. CASE symtab = Nil /\ symHeap = [a \in SymArrays |-> <<>>]
      BY <2>2, <3>1
    <3>2. CASE \E s \in SymArrays, t \in Tables :
                 /\ symHeap = [a \in SymArrays |-> IF a = s THEN t ELSE <<>>]
                 /\ symtab = [arr |-> s, lo |-> 0, n |-> Len(t)]
      <4>1. PICK s \in SymArrays, t \in Tables :
                 /\ symHeap = [a \in SymArrays |-> IF a = s THEN t ELSE <<>>]
                 /\ symtab = [arr |-> s, lo |-> 0, n |-> Len(t)]
        BY <3>2
      <4>2. t \in Seq([name: Names, value: Values]) /\ Len(t) \in Nat
        <5>1. t \in Seq([name: Names, value: Values])
          BY TablesAssumption
        <5> QED BY <5>1
      <4>3. symtab.arr = s /\ symtab.lo = 0 /\ symtab.n = Len(t) /\ symHeap[s] = t
        BY <4>1
      <4>4. symHeap \in [SymArrays -> Seq([name: Names, value: Values])]
        <5>1. \A a \in SymArrays : (IF a = s THEN t ELSE <<>>) \in Seq([name: Names, value: Values])
          BY <2>2, <4>2
        <5> QED BY <4>1, <5>1
      <4>5. 0 + Len(t) <= Len(t)
        BY <4>2
      <4>6. InBounds(symtab)
        BY <4>2, <4>3, <4>5 DEF InBounds
      <4> QED BY <4>4, <4>6
    <3> QED BY <3>1, <3>2 DEF Init
  <2>4. symNames = ZeroLazy /\ exportNames = ZeroLazy /\ mutations = 0
    BY DEF Init
  <2>5. 0 \in 0..After /\ 0 \in 0..MaxMutations
    BY BoundAssumption
  <2> QED BY <2>1, <2>3, <2>4, <2>5 DEF SymType
<1>2. IInv /\ SymType => TypeOK
  BY DEF IInv, Core, Shape, SymType, TypeOK
<1> QED BY <1>1, <1>2, SymTypeStep, Invariance, PTL DEF Spec

=============================================================================
