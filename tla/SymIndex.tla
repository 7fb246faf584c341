------------------------------ MODULE SymIndex ------------------------------
(***************************************************************************)
(* The lookup indexes behind File.FindSymbolAddress (symindex.go), with    *)
(* the export list they are built from (File.DyldExports, File.GetExports) *)
(* and the reference scan of symindex_ref.go that defines their answers.   *)
(*                                                                         *)
(* Goroutines look names up concurrently.  What they share is the parsed   *)
(* LC_DYLD_EXPORTS_TRIE (exp, under expMu) and the index state (symNames,  *)
(* exportsSrc, exports, exportNames, under symIndexMu); every critical     *)
(* section is one action.  The calls that modify the File (replacing or    *)
(* editing Symtab.Syms, editing the list DyldExports hands out,            *)
(* AddLoad/RemoveLoad, ResetFixupsCache) are serialised with every reader, *)
(* as the comment on type File demands.                                    *)
(*                                                                         *)
(* Memory is explicit: a table lives in a backing array, a slice is a      *)
(* window on one, and an array nothing points to any more may be reused    *)
(* for a new table (the garbage collector).  An index recognises its table *)
(* by address and length only, and so does the copy of the export list.    *)
(***************************************************************************)
EXTENDS Naturals, Sequences, SequencesExt

CONSTANTS
    Readers,        \* goroutines that call lookups
    Names,          \* symbol names
    Values,         \* addresses a symbol can have
    FoldKey,        \* [Names -> keys]: equal keys iff strings.EqualFold
    SymArrays,      \* backing arrays for []Symbol
    ExpArrays,      \* backing arrays for []trie.TrieExport
    Tables,         \* the symbol tables callers install
    ClassicExports, \* [command -> export list or Failed]: LC_DYLD_INFO(_ONLY)
    ModernExports,  \* [command -> export list or Failed]: LC_DYLD_EXPORTS_TRIE
    After,          \* nameIndexAfterLookups
    MaxMutations    \* bound on the serialised modifications of the File

CONSTANTS Nil, NoCmd, Failed, ErrNoSymtab, ErrExports, ErrNotFound

ASSUME BoundAssumption == After \in Nat /\ MaxMutations \in Nat
ASSUME TablesAssumption == Tables \subseteq Seq([name: Names, value: Values])
ASSUME CommandAssumption ==
    NoCmd \notin DOMAIN ClassicExports \cup DOMAIN ModernExports
ASSUME FailedAssumption == Failed # <<>>
ASSUME NilAssumption == Nil \notin SymArrays \cup ExpArrays \cup Names

VARIABLES
    symHeap,     \* contents of the symbol arrays
    symtab,      \* f.Symtab.Syms as a slice, or Nil when f.Symtab is nil
    classic,     \* the LC_DYLD_INFO or LC_DYLD_INFO_ONLY of f.Loads, or NoCmd
    modern,      \* the LC_DYLD_EXPORTS_TRIE of f.Loads, or NoCmd
    expHeap,     \* contents of the export arrays
    exp,         \* f.exp
    symNames,    \* f.symIdx.symNames
    exportsSrc,  \* f.symIdx.exportsSrc
    exports,     \* f.symIdx.exports
    exportNames, \* f.symIdx.exportNames
    copied,      \* history: what DyldExports held when exports was stored
    mutations,   \* number of modifications so far (bound only)
    pc, symbol, ix, fold, src, parsed, list, ret  \* locals of each reader

file == <<symHeap, symtab, classic, modern, mutations>>
index == <<symNames, exportsSrc, exports, exportNames, copied>>
locals == <<pc, symbol, ix, fold, src, parsed, list, ret>>
vars == <<file, expHeap, exp, index, locals>>

-----------------------------------------------------------------------------
(* Slices and their identity. *)

EmptyID == [arr |-> Nil, lo |-> 0, n |-> 0]

InBounds(s) == s.arr \in SymArrays /\ s.lo \in Nat /\ s.n \in Nat
                   /\ s.lo + s.n <= Len(symHeap[s.arr])

idOf(s) == IF s.n = 0 THEN EmptyID ELSE s

Syms == [i \in 1..symtab.n |-> symHeap[symtab.arr][symtab.lo + i]]

NamesOf(t) == [i \in DOMAIN t |-> t[i].name]

(* Export lists are never resliced: the array is the identity, and every   *)
(* empty list has the identity of nil.                                     *)
ListAt(a) == IF a = Nil THEN <<>> ELSE expHeap[a]

-----------------------------------------------------------------------------
(* The name index. *)

First(S) == CHOOSE i \in S : \A j \in S : i <= j

Exact(names, s) == {i \in DOMAIN names : names[i] = s}

EqualFold(names, s) == {i \in DOMAIN names : FoldKey[names[i]] = FoldKey[s]}

NoIndex == [names |-> <<>>, exact |-> <<>>, fold |-> <<>>, built |-> FALSE]

(* Both maps hold the first position of a key.  foldFirst builds its map   *)
(* on first use, from the same immutable names.                            *)
buildNameIndex(names) ==
    [ names |-> names,
      exact |-> [s \in {names[i] : i \in DOMAIN names} |-> First(Exact(names, s))],
      fold  |-> [k \in {FoldKey[names[i]] : i \in DOMAIN names} |->
                    First({i \in DOMAIN names : FoldKey[names[i]] = k})],
      built |-> TRUE ]

ZeroLazy == [id |-> EmptyID, lookups |-> 0, index |-> NoIndex]

(* lazyIndex.get: count After lookups against one slice, then build. *)
get(l, id, names) ==
    LET m == IF l.id = id THEN l ELSE [id |-> id, lookups |-> 0, index |-> NoIndex]
    IN  CASE m.index.built -> m
          [] ~m.index.built /\ m.lookups < After ->
                [id |-> id, lookups |-> m.lookups + 1, index |-> NoIndex]
          [] OTHER -> [id |-> id, lookups |-> m.lookups, index |-> buildNameIndex(names)]

matchesNames(ixx, names) == ixx.names = names

(* symtabNameIndex and exportsNameIndex: the next index state; the caller  *)
(* uses the index of that state if it is built, else it scans.             *)
NameIndex(l, id, names) ==
    LET m == get(l, id, names)
    IN  IF m.index.built /\ ~matchesNames(m.index, names) THEN ZeroLazy ELSE m

-----------------------------------------------------------------------------
(* The exports. *)

appendUnique(out, e) ==
    IF \E i \in DOMAIN out : out[i].name = e.name THEN out ELSE Append(out, e)

Merge(c, m) == FoldLeft(appendUnique, <<>>, c \o m)

ClassicList(c) == IF c = NoCmd THEN <<>> ELSE ClassicExports[c]

(* What DyldExports returns for command m when f.exp is e: f.exp before    *)
(* the file.                                                               *)
ModernList(m, e) ==
    CASE m = NoCmd -> <<>>
      [] m # NoCmd /\ e # Nil -> expHeap[e]
      [] OTHER -> ModernExports[m]

(* GetExports as a function of what it reads; ErrMachODyldInfoNotFound     *)
(* counts as an empty list, as its callers in the lookups take it.         *)
NoSource(x) == x.classic = NoCmd /\ x.modern = NoCmd

Fails(x) ==
    \/ ClassicList(x.classic) = Failed
    \/ x.modern # NoCmd /\ x.exp = Nil /\ ModernExports[x.modern] = Failed

ExportList(x) ==
    IF NoSource(x) THEN <<>> ELSE Merge(ClassicList(x.classic), ModernList(x.modern, x.exp))

exportsSource == [classic |-> classic, modern |-> modern, exp |-> exp, initialized |-> TRUE]

ZeroSource == [classic |-> NoCmd, modern |-> NoCmd, exp |-> Nil, initialized |-> FALSE]

-----------------------------------------------------------------------------
(* findSymbolAddressLinear: the answer every lookup must give. *)

LinearSearch(syms, exps, s) ==
    LET sn == NamesOf(syms)
        en == NamesOf(exps)
    IN  IF Exact(sn, s) # {} THEN syms[First(Exact(sn, s))].value
        ELSE IF Exact(en, s) # {} THEN exps[First(Exact(en, s))].value
        ELSE IF EqualFold(sn, s) # {} THEN syms[First(EqualFold(sn, s))].value
        ELSE IF EqualFold(en, s) # {} THEN exps[First(EqualFold(en, s))].value
        ELSE ErrNotFound

(* The same when GetExports fails: the symbol table alone answers. *)
SymtabOnly(syms, s) ==
    LET sn == NamesOf(syms)
    IN  IF Exact(sn, s) # {} THEN syms[First(Exact(sn, s))].value
        ELSE IF EqualFold(sn, s) # {} THEN syms[First(EqualFold(sn, s))].value
        ELSE ErrExports

(* The scan over the live symbol table and the exports exps.               *)
ScanOver(exps, s) ==
    IF symtab = Nil THEN ErrNoSymtab
    ELSE IF Fails(exportsSource) THEN SymtabOnly(Syms, s)
    ELSE LinearSearch(Syms, exps, s)

findSymbolAddressLinear(s) == ScanOver(ExportList(exportsSource), s)

(* The first position of s by the index, if there is one, else by a scan. *)
ExactHit(ixx, names, s) == IF ixx.built THEN s \in DOMAIN ixx.exact ELSE Exact(names, s) # {}

ExactPos(ixx, names, s) == IF ixx.built THEN ixx.exact[s] ELSE First(Exact(names, s))

FoldHit(ixx, names, s) ==
    IF ixx.built THEN FoldKey[s] \in DOMAIN ixx.fold ELSE EqualFold(names, s) # {}

FoldPos(ixx, names, s) ==
    IF ixx.built THEN ixx.fold[FoldKey[s]] ELSE First(EqualFold(names, s))

(* foldFound and foldAddr for table t. *)
NoFold == [found |-> FALSE, addr |-> Nil]

foldFirst(t, ixx, s) ==
    IF FoldHit(ixx, NamesOf(t), s)
    THEN [found |-> TRUE, addr |-> t[FoldPos(ixx, NamesOf(t), s)].value]
    ELSE NoFold

-----------------------------------------------------------------------------
(* A File NewFile has just returned, with or without LC_SYMTAB and export  *)
(* commands.                                                               *)
Init ==
    /\ \/ /\ symHeap = [a \in SymArrays |-> <<>>]
          /\ symtab = Nil
       \/ \E s \in SymArrays, t \in Tables :
             /\ symHeap = [a \in SymArrays |-> IF a = s THEN t ELSE <<>>]
             /\ symtab = [arr |-> s, lo |-> 0, n |-> Len(t)]
    /\ classic \in DOMAIN ClassicExports \cup {NoCmd}
    /\ modern \in DOMAIN ModernExports \cup {NoCmd}
    /\ expHeap = [a \in ExpArrays |-> <<>>]
    /\ exp = Nil
    /\ symNames = ZeroLazy
    /\ exportsSrc = ZeroSource
    /\ exports = Nil
    /\ exportNames = ZeroLazy
    /\ copied = <<>>
    /\ mutations = 0
    /\ pc = [r \in Readers |-> "idle"]
    /\ symbol = [r \in Readers |-> Nil]
    /\ ix = [r \in Readers |-> NoIndex]
    /\ fold = [r \in Readers |-> NoFold]
    /\ src = [r \in Readers |-> ZeroSource]
    /\ parsed = [r \in Readers |-> <<>>]
    /\ list = [r \in Readers |-> Nil]
    /\ ret = [r \in Readers |-> Nil]

(* Arrays a pointer still reaches; the collector may reuse any other.  An  *)
(* index pins its table through the pointer in its sliceID.                *)
PinnedSyms == {symNames.id.arr} \cup (IF symtab = Nil THEN {} ELSE {symtab.arr})

PinnedExports ==
    {exp, exports, exportsSrc.exp, exportNames.id.arr}
        \cup {list[r] : r \in Readers} \cup {src[r].exp : r \in Readers}

ListID(a) == IF a = Nil THEN EmptyID ELSE [arr |-> a, lo |-> 0, n |-> Len(expHeap[a])]

Answer(r, v) ==
    /\ ret' = [ret EXCEPT ![r] = v]
    /\ pc' = [pc EXCEPT ![r] = "done"]

(* symtabFold: the case-insensitive symbol table match, from the scan that *)
(* was made anyway or, when the table is indexed, from the index now.      *)
symtabFold(r) ==
    IF ix[r].built THEN foldFirst(Syms, ix[r], symbol[r]) ELSE fold[r]

-----------------------------------------------------------------------------
(* FindSymbolAddress, one action per critical section. *)

LookupNoSymtab(r, s) ==
    /\ pc[r] = "idle" /\ symtab = Nil
    /\ symbol' = [symbol EXCEPT ![r] = s]
    /\ Answer(r, ErrNoSymtab)
    /\ UNCHANGED <<file, expHeap, exp, index, ix, fold, src, parsed, list>>

LookupSymtab(r, s) ==
    /\ pc[r] = "idle" /\ symtab # Nil
    /\ symbol' = [symbol EXCEPT ![r] = s]
    /\ LET names == NamesOf(Syms)
           l == NameIndex(symNames, idOf(symtab), names)
       IN  /\ symNames' = l
           /\ ix' = [ix EXCEPT ![r] = l.index]
           /\ fold' = [fold EXCEPT ![r] = 
                          IF l.index.built THEN NoFold ELSE foldFirst(Syms, NoIndex, s)]
           /\ \/ /\ ExactHit(l.index, names, s)
                 /\ Answer(r, Syms[ExactPos(l.index, names, s)].value)
              \/ /\ ~ExactHit(l.index, names, s)
                 /\ pc' = [pc EXCEPT ![r] = "source"]
                 /\ UNCHANGED ret
    /\ UNCHANGED <<file, expHeap, exp, exportsSrc, exports, exportNames, copied, src, parsed,
                   list>>

(* cachedExports *)
ReadSource(r) ==
    /\ pc[r] = "source"
    /\ src' = [src EXCEPT ![r] = exportsSource]
    /\ pc' = [pc EXCEPT ![r] = "cached"]
    /\ UNCHANGED <<file, expHeap, exp, index, symbol, ix, fold, parsed, list, ret>>

(* Mutant: the cached list is used whatever it was built from. *)
UseAnyCachedExports(r) ==
    /\ pc[r] = "cached" /\ exportsSrc.initialized
    /\ list' = [list EXCEPT ![r] = exports]
    /\ pc' = [pc EXCEPT ![r] = "index"]
    /\ UNCHANGED <<file, expHeap, exp, index, symbol, ix, fold, src, parsed, ret>>

UseCachedExports(r) ==
    /\ pc[r] = "cached" /\ exportsSrc.initialized /\ exportsSrc = src[r]
    /\ list' = [list EXCEPT ![r] = exports]
    /\ pc' = [pc EXCEPT ![r] = "index"]
    /\ UNCHANGED <<file, expHeap, exp, index, symbol, ix, fold, src, parsed, ret>>

MissCachedExports(r) ==
    /\ pc[r] = "cached" /\ ~(exportsSrc.initialized /\ exportsSrc = src[r])
    /\ pc' = [pc EXCEPT ![r] = "get"]
    /\ UNCHANGED <<file, expHeap, exp, index, symbol, ix, fold, src, parsed, list, ret>>

(* GetExports with neither kind of command: ErrMachODyldInfoNotFound, and  *)
(* the lookup goes on with a nil list.                                     *)
NoExportCommands(r) ==
    /\ pc[r] = "get" /\ NoSource(exportsSource)
    /\ list' = [list EXCEPT ![r] = Nil]
    /\ pc' = [pc EXCEPT ![r] = "index"]
    /\ UNCHANGED <<file, expHeap, exp, index, symbol, ix, fold, src, parsed, ret>>

(* A trie that cannot be read or parsed: the symbol table's fold match, or *)
(* the error.  Nothing is cached.                                          *)
ExportsFail(r) ==
    /\ pc[r] = "get" /\ Fails(exportsSource)
    /\ Answer(r, IF symtabFold(r).found THEN symtabFold(r).addr ELSE ErrExports)
    /\ UNCHANGED <<file, expHeap, exp, index, symbol, ix, fold, src, parsed, list>>

(* The modern list comes from f.exp, or is parsed now and published next. *)
ParseExports(r) ==
    /\ pc[r] = "get" /\ ~NoSource(exportsSource) /\ ~Fails(exportsSource)
    /\ parsed' = [parsed EXCEPT ![r] = ModernList(modern, exp)]
    /\ pc' = [pc EXCEPT ![r] =
                 IF modern # NoCmd /\ exp = Nil THEN "publish" ELSE "merge"]
    /\ UNCHANGED <<file, expHeap, exp, index, symbol, ix, fold, src, list, ret>>

(* DyldExports called for itself (FindAddressSymbols, GetDyldInfo, a user) *)
CallDyldExports(r) ==
    /\ pc[r] = "idle" /\ modern # NoCmd /\ exp = Nil
    /\ ModernExports[modern] # Failed
    /\ symbol' = [symbol EXCEPT ![r] = Nil]
    /\ parsed' = [parsed EXCEPT ![r] = ModernExports[modern]]
    /\ pc' = [pc EXCEPT ![r] = "publish"]
    /\ UNCHANGED <<file, expHeap, exp, index, ix, fold, src, list, ret>>

AfterPublish(r) == IF symbol[r] = Nil THEN "done" ELSE "merge"

(* Mutant: every parse is published, the last one wins. *)
PublishExportsLast(r) ==
    /\ pc[r] = "publish"
    /\ pc' = [pc EXCEPT ![r] = AfterPublish(r)]
    /\ \E a \in ExpArrays \ PinnedExports :
          /\ exp' = a
          /\ expHeap' = [expHeap EXCEPT ![a] = parsed[r]]
    /\ UNCHANGED <<file, index, symbol, ix, fold, src, parsed, list, ret>>

(* The first parse published is the one everybody uses. *)
PublishExports(r) ==
    /\ pc[r] = "publish"
    /\ pc' = [pc EXCEPT ![r] = AfterPublish(r)]
    /\ \/ /\ exp = Nil /\ parsed[r] # <<>>
          /\ \E a \in ExpArrays \ PinnedExports :
                /\ exp' = a
                /\ expHeap' = [expHeap EXCEPT ![a] = parsed[r]]
          /\ UNCHANGED parsed
       \/ /\ exp = Nil /\ parsed[r] = <<>>
          /\ UNCHANGED <<exp, expHeap, parsed>>
       \/ /\ exp # Nil
          /\ parsed' = [parsed EXCEPT ![r] = expHeap[exp]]
          /\ UNCHANGED <<exp, expHeap>>
    /\ UNCHANGED <<file, index, symbol, ix, fold, src, list, ret>>

MergeExports(r) ==
    LET merged == Merge(ClassicList(classic), parsed[r])
    IN  /\ pc[r] = "merge"
        /\ \/ /\ merged = <<>>
              /\ list' = [list EXCEPT ![r] = Nil]
              /\ UNCHANGED expHeap
           \/ /\ merged # <<>>
              /\ \E a \in ExpArrays \ PinnedExports :
                    /\ list' = [list EXCEPT ![r] = a]
                    /\ expHeap' = [expHeap EXCEPT ![a] = merged]
        /\ pc' = [pc EXCEPT ![r] = "resource"]
        /\ UNCHANGED <<file, exp, index, symbol, ix, fold, src, parsed, ret>>

ReadSourceAgain(r) ==
    /\ pc[r] = "resource"
    /\ src' = [src EXCEPT ![r] = exportsSource]
    /\ pc' = [pc EXCEPT ![r] = "store"]
    /\ UNCHANGED <<file, expHeap, exp, index, symbol, ix, fold, parsed, list, ret>>

StoreExports(r) ==
    /\ pc[r] = "store"
    /\ exportsSrc' = src[r]
    /\ exports' = list[r]
    /\ exportNames' = ZeroLazy
    /\ copied' = ModernList(modern, exp)
    /\ pc' = [pc EXCEPT ![r] = "index"]
    /\ UNCHANGED <<file, expHeap, exp, symNames, symbol, ix, fold, src, parsed, list, ret>>

(* exportsNameIndex and the rest of FindSymbolAddress. *)
IndexExports(r) ==
    LET names == NamesOf(ListAt(list[r]))
        l == NameIndex(exportNames, ListID(list[r]), names)
        hit == ExactHit(l.index, names, symbol[r])
        f == IF symtabFold(r).found THEN symtabFold(r)
             ELSE foldFirst(ListAt(list[r]), l.index, symbol[r])
    IN  /\ pc[r] = "index"
        /\ exportNames' = l
        /\ Answer(r, CASE hit -> ListAt(list[r])[ExactPos(l.index, names, symbol[r])].value
                       [] ~hit /\ f.found -> f.addr
                       [] ~hit /\ ~f.found -> ErrNotFound)
        /\ UNCHANGED <<file, expHeap, exp, symNames, exportsSrc, exports, copied,
                       symbol, ix, fold, src, parsed, list>>

(* The caller gets the answer; the locals die. *)
Return(r) ==
    /\ pc[r] = "done"
    /\ pc' = [pc EXCEPT ![r] = "idle"]
    /\ symbol' = [symbol EXCEPT ![r] = Nil]
    /\ ix' = [ix EXCEPT ![r] = NoIndex]
    /\ fold' = [fold EXCEPT ![r] = NoFold]
    /\ src' = [src EXCEPT ![r] = ZeroSource]
    /\ parsed' = [parsed EXCEPT ![r] = <<>>]
    /\ list' = [list EXCEPT ![r] = Nil]
    /\ ret' = [ret EXCEPT ![r] = Nil]
    /\ UNCHANGED <<file, expHeap, exp, index>>

-----------------------------------------------------------------------------
(* Modifications of the File, serialised with every reader. *)

Modify ==
    /\ mutations < MaxMutations
    /\ \A r \in Readers : pc[r] = "idle"
    /\ mutations' = mutations + 1
    /\ UNCHANGED <<exp, copied, locals>>

(* A new table in an array the collector can reuse, or another window on   *)
(* an array the caller still holds.                                        *)
ReplaceSyms ==
    /\ Modify
    /\ \/ \E a \in SymArrays \ PinnedSyms, t \in Tables :
             /\ symHeap' = [symHeap EXCEPT ![a] = t]
             /\ symtab' = [arr |-> a, lo |-> 0, n |-> Len(t)]
       \/ \E a \in PinnedSyms \ {Nil} : \E b, m \in 0..Len(symHeap[a]) :
             /\ b + m <= Len(symHeap[a])
             /\ symtab' = [arr |-> a, lo |-> b, n |-> m]
             /\ UNCHANGED symHeap
    /\ UNCHANGED <<classic, modern, expHeap, index>>

(* Symtab.Syms is public: callers rename or move a symbol in place. *)
EditSym ==
    /\ Modify
    /\ \E a \in PinnedSyms \ {Nil} : \E i \in DOMAIN symHeap[a] :
          \E n \in Names, v \in Values :
             symHeap' = [symHeap EXCEPT ![a][i] = [name |-> n, value |-> v]]
    /\ UNCHANGED <<symtab, classic, modern, expHeap, index>>

(* The list DyldExports hands out is public as well, and stays f.exp.      *)
EditExport ==
    /\ Modify /\ exp # Nil
    /\ \E i \in DOMAIN expHeap[exp], n \in Names, v \in Values :
          expHeap' = [expHeap EXCEPT ![exp][i] = [name |-> n, value |-> v]]
    /\ UNCHANGED <<symHeap, symtab, classic, modern, index>>

DropSymtab ==
    /\ Modify /\ symtab # Nil
    /\ symtab' = Nil
    /\ UNCHANGED <<symHeap, classic, modern, expHeap, index>>

(* AddLoad, RemoveLoad or an assignment to Loads: other export commands. *)
SetLoads ==
    /\ Modify
    /\ classic' \in DOMAIN ClassicExports \cup {NoCmd}
    /\ modern' \in DOMAIN ModernExports \cup {NoCmd}
    /\ UNCHANGED <<symHeap, symtab, expHeap, index>>

(* Mutant: the list is dropped, the source it is recorded under is not. *)
resetSymbolIndexesHalf ==
    /\ Modify
    /\ symNames' = ZeroLazy
    /\ exports' = Nil
    /\ exportNames' = ZeroLazy
    /\ UNCHANGED <<symHeap, symtab, classic, modern, expHeap, exportsSrc>>

(* ResetFixupsCache -> resetSymbolIndexes; f.exp stays. *)
resetSymbolIndexes ==
    /\ Modify
    /\ symNames' = ZeroLazy
    /\ exportsSrc' = ZeroSource
    /\ exports' = Nil
    /\ exportNames' = ZeroLazy
    /\ UNCHANGED <<symHeap, symtab, classic, modern, expHeap>>

Lookup(r) ==
    \/ \E s \in Names : LookupNoSymtab(r, s) \/ LookupSymtab(r, s)
    \/ ReadSource(r) \/ UseCachedExports(r) \/ MissCachedExports(r)
    \/ NoExportCommands(r) \/ ExportsFail(r) \/ ParseExports(r)
    \/ CallDyldExports(r) \/ PublishExports(r) \/ MergeExports(r)
    \/ ReadSourceAgain(r) \/ StoreExports(r) \/ IndexExports(r) \/ Return(r)

Next ==
    \/ \E r \in Readers : Lookup(r)
    \/ ReplaceSyms \/ EditSym \/ EditExport \/ DropSymtab \/ SetLoads
    \/ resetSymbolIndexes

Spec == Init /\ [][Next]_vars

-----------------------------------------------------------------------------
(* Properties. *)

PCs == {"idle", "source", "cached", "get", "publish", "merge", "resource", "store",
        "index", "done"}

Sources == [classic: DOMAIN ClassicExports \cup {NoCmd}, modern: DOMAIN ModernExports \cup {NoCmd},
            exp: ExpArrays \cup {Nil}, initialized: BOOLEAN]

(* The shape of the state: symbol slices stay inside their array, every    *)
(* export list is an array or nil, lookup counters never pass After.       *)
TypeOK ==
    /\ symHeap \in [SymArrays -> Seq([name: Names, value: Values])]
    /\ symtab = Nil \/ InBounds(symtab)
    /\ classic \in DOMAIN ClassicExports \cup {NoCmd}
    /\ modern \in DOMAIN ModernExports \cup {NoCmd}
    /\ DOMAIN expHeap = ExpArrays
    /\ exp \in ExpArrays \cup {Nil}
    /\ exports \in ExpArrays \cup {Nil}
    /\ exportsSrc \in Sources
    /\ symNames.lookups \in 0..After /\ exportNames.lookups \in 0..After
    /\ mutations \in 0..MaxMutations
    /\ pc \in [Readers -> PCs]
    /\ symbol \in [Readers -> Names \cup {Nil}]
    /\ src \in [Readers -> Sources]
    /\ list \in [Readers -> ExpArrays \cup {Nil}]

(* The cached list is used for as long as its recorded source is the       *)
(* present one.                                                            *)
CacheHit == exportsSrc.initialized /\ exportsSrc = exportsSource

(* The exports a lookup sees: those of the live File, but for the list     *)
(* DyldExports handed out, whose contents are those it had when the cached *)
(* list was stored.                                                        *)
ExportsSeen ==
    IF CacheHit THEN Merge(ClassicList(classic), copied) ELSE ExportList(exportsSource)

Finished(r) == pc[r] = "done" /\ symbol[r] # Nil

(* symindex.go: "every lookup returns exactly what the linear scans in     *)
(* symindex_ref.go return".  It does whatever other goroutines do to the   *)
(* shared index and whatever was done to the symbol table and the load     *)
(* commands before the call, over the exports as they were when their copy *)
(* was taken: cachedExports knows f.exp by its identity.                   *)
LookupMatchesCopied ==
    \A r \in Readers : Finished(r) => ret[r] = ScanOver(ExportsSeen, symbol[r])

(* The sentence as it stands, with the list DyldExports handed out read    *)
(* live like everything else.  An edit of that list refutes it.            *)
LookupMatchesLinear ==
    \A r \in Readers : Finished(r) => ret[r] = findSymbolAddressLinear(symbol[r])

(* The index a lookup works from describes the live symbol table for as    *)
(* long as the lookup runs: the checks of an index hit against the live    *)
(* table (findSymbolAddressStale) never fail.                              *)
IndexHitsAreLive ==
    \A r \in Readers :
        pc[r] # "idle" /\ ix[r].built => ix[r].names = NamesOf(Syms)

(* cachedExports: whenever the recorded source equals the present one, the *)
(* private copy is what GetExports returned when it was stored, and        *)
(* GetExports would not fail now.                                          *)
CachedExportsFresh ==
    CacheHit => ~Fails(exportsSource) /\ ListAt(exports) = ExportsSeen

(* Neither cache of the lookups is used for another table than its own:    *)
(* not the indexes, keyed by the identity of a slice, and not the copied   *)
(* export list, keyed by the load commands and the list it came from.      *)
IndexesAreFresh == IndexHitsAreLive /\ CachedExportsFresh

(* DyldExports: once a parse is published every caller sees that slice,    *)
(* and nothing the library does modifies it; a caller may, between calls.  *)
PublishedExportsAreFinal ==
    [][exp # Nil => exp' = exp /\ (EditExport \/ expHeap'[exp] = expHeap[exp])]_vars
=============================================================================
