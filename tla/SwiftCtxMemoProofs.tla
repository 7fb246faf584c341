------------------------- MODULE SwiftCtxMemoProofs -------------------------
(***************************************************************************)
(* Proofs about SwiftCtxMemo, for any number of goroutines, scopes and     *)
(* descriptors, and any outcome of the lookups; and about SwiftContext,    *)
(* for any images: what a lookup that follows the parents answers.         *)
(***************************************************************************)
EXTENDS SwiftCtxMemo, SwiftContext, FiniteSetTheorems, RecursionTheorems, TLAPS

(* A remembered entry is a success, on the present file, that moved. *)
MemoSound ==
    \A r \in DOMAIN entries :
        /\ Outcome[fileState][r].ok /\ Outcome[fileState][r].moved
        /\ entries[r].ctx = Outcome[fileState][r].ctx
        /\ entries[r].pos = Outcome[fileState][r].end

(* A goroutine is in a call, or in a scope, only inside a parser. *)
ParsersAreBusy == \A c \in Goroutines : pc[c] # "idle" \/ open[c] # {} => c \in busy

(* A scope belongs to one goroutine. *)
ScopesAreOwned == \A c, d \in Goroutines : c # d => open[c] \cap open[d] = {}

CallSound ==
    \A c \in Goroutines :
        /\ pc[c] # "idle" => arg[c] \in Refs
        /\ pc[c] = "store" => /\ Outcome[fileState][arg[c]].ok /\ Outcome[fileState][arg[c]].moved
                              /\ ctx[c] = Outcome[fileState][arg[c]].ctx
                              /\ cursor[c] = Outcome[fileState][arg[c]].end

IInv ==
    /\ TypeOK
    /\ ctx \in [Goroutines -> Contexts \cup {Nothing}]
    /\ cursor \in [Goroutines -> Positions \cup {Nothing}]
    /\ MemoSound
    /\ ParsersAreBusy
    /\ ScopesAreOwned
    /\ CallSound
    /\ DroppedWithLastScope
    /\ ReplayIsIndistinguishable

(* The initial state: no scope, no entry, nobody parsing. *)
LEMMA InitOK == MemoInit => IInv
<1> SUFFICES ASSUME MemoInit PROVE IInv
    OBVIOUS
<1> USE DEF MemoInit
<1>1. OpenScopes = {}
    BY DEF OpenScopes
<1>2. TypeOK
    BY <1>1, FS_EmptySet DEF TypeOK, NoEntries
<1>3. MemoSound
    BY DEF MemoSound, NoEntries
<1>4. ParsersAreBusy /\ ScopesAreOwned /\ CallSound
    BY DEF ParsersAreBusy, ScopesAreOwned, CallSound
<1>5. DroppedWithLastScope /\ ReplayIsIndistinguishable
    BY DEF DroppedWithLastScope, ReplayIsIndistinguishable
<1> QED
    BY <1>2, <1>3, <1>4, <1>5 DEF IInv

(* Opening a scope counts it. *)
LEMMA OpenScopeOK ==
    ASSUME IInv, NEW c \in Goroutines, NEW s \in Scopes, OpenScope(c, s)
    PROVE  IInv'
<1> USE DEF OpenScope, calling, memo
<1>1. OpenScopes \subseteq Scopes /\ IsFiniteSet(OpenScopes)
    <2>1. OpenScopes \subseteq Scopes
        BY DEF IInv, TypeOK, OpenScopes
    <2> QED BY <2>1, GoroutinesAssumption, FS_Subset
<1>2. OpenScopes' = OpenScopes \cup {s} /\ s \notin OpenScopes
    BY DEF IInv, TypeOK, OpenScopes
<1>3. Cardinality(OpenScopes') = Cardinality(OpenScopes) + 1
    BY <1>1, <1>2, FS_AddElement
<1>4. TypeOK'
    BY <1>3 DEF IInv, TypeOK
<1>5. ScopesAreOwned'
    BY DEF IInv, TypeOK, ScopesAreOwned
<1>6. ParsersAreBusy'
    BY DEF IInv, TypeOK, ParsersAreBusy
<1>7. DroppedWithLastScope'
    BY <1>2 DEF DroppedWithLastScope
<1> QED
    BY <1>4, <1>5, <1>6, <1>7
    DEF IInv, MemoSound, CallSound, ReplayIsIndistinguishable, EndOf

(* Closing a scope uncounts it; the last one takes the entries with it. *)
LEMMA CloseScopeOK ==
    ASSUME IInv, NEW c \in Goroutines, NEW s \in Scopes, CloseScope(c, s)
    PROVE  IInv'
<1> USE DEF CloseScope, calling, memo
<1>1. OpenScopes \subseteq Scopes /\ IsFiniteSet(OpenScopes)
    <2>1. OpenScopes \subseteq Scopes
        BY DEF IInv, TypeOK, OpenScopes
    <2> QED BY <2>1, GoroutinesAssumption, FS_Subset
<1>2. OpenScopes' = OpenScopes \ {s} /\ s \in OpenScopes
    BY DEF IInv, TypeOK, ScopesAreOwned, OpenScopes
<1>3. Cardinality(OpenScopes') = Cardinality(OpenScopes) - 1
    BY <1>1, <1>2, FS_RemoveElement
<1>4. entries' = NoEntries \/ entries' = entries
    OBVIOUS
<1>5. TypeOK'
    BY <1>3, <1>4 DEF IInv, TypeOK, NoEntries
<1>6. MemoSound'
    BY <1>4 DEF IInv, MemoSound, NoEntries
<1>7. ScopesAreOwned' /\ ParsersAreBusy'
    BY DEF IInv, TypeOK, ScopesAreOwned, ParsersAreBusy
<1>8. DroppedWithLastScope'
    BY <1>3, FS_EmptySet DEF IInv, TypeOK, DroppedWithLastScope
<1> QED
    BY <1>5, <1>6, <1>7, <1>8
    DEF IInv, CallSound, ReplayIsIndistinguishable, EndOf

(* A parser starts or ends. *)
LEMMA ParserOK ==
    ASSUME IInv, NEW c \in Goroutines, EnterParser(c) \/ LeaveParser(c)
    PROVE  IInv'
<1> USE DEF EnterParser, LeaveParser, calling, memo
<1>1. OpenScopes' = OpenScopes
    BY DEF OpenScopes
<1>2. TypeOK'
    BY <1>1 DEF IInv, TypeOK
<1>3. ParsersAreBusy' /\ CallSound'
    BY DEF IInv, ParsersAreBusy, CallSound
<1>4. DroppedWithLastScope' /\ ReplayIsIndistinguishable'
    BY <1>1 DEF IInv, DroppedWithLastScope, ReplayIsIndistinguishable, EndOf
<1> QED
    BY <1>2, <1>3, <1>4 DEF IInv, MemoSound, ScopesAreOwned

(* A hit replays a sound entry; a miss has promised nothing yet. *)
LEMMA BeginLookupOK ==
    ASSUME IInv, NEW c \in Goroutines, NEW ref \in Refs, NEW p \in Positions,
           BeginLookup(c, ref, p)
    PROVE  IInv'
<1> USE DEF BeginLookup, Finish, memo
<1>1. OpenScopes' = OpenScopes
    BY DEF OpenScopes
<1>2. TypeOK'
    BY <1>1 DEF IInv, TypeOK
<1>3. ref \in DOMAIN entries =>
          /\ entries[ref].ctx = Outcome[fileState][ref].ctx
          /\ entries[ref].pos = EndOf(ref, p)
    BY DEF IInv, MemoSound, EndOf
<1>4. Outcome[fileState][ref].ctx \in Contexts /\ EndOf(ref, p) \in Positions
    BY OutcomeAssumption DEF IInv, TypeOK, EndOf
<1>5. ctx' \in [Goroutines -> Contexts \cup {Nothing}] /\ cursor' \in [Goroutines -> Positions \cup {Nothing}]
    BY <1>3, <1>4 DEF IInv
<1>6. CallSound' /\ ParsersAreBusy'
    BY DEF IInv, TypeOK, CallSound, ParsersAreBusy
<1>7. ReplayIsIndistinguishable'
    BY <1>3 DEF IInv, TypeOK, ReplayIsIndistinguishable, EndOf
<1> QED
    BY <1>1, <1>2, <1>5, <1>6, <1>7
    DEF IInv, MemoSound, ScopesAreOwned, DroppedWithLastScope

(* An uncached lookup is its own definition. *)
LEMMA ResolveOK ==
    ASSUME IInv, NEW c \in Goroutines, Resolve(c)
    PROVE  IInv'
<1> USE DEF Resolve, memo
<1>1. OpenScopes' = OpenScopes
    BY DEF OpenScopes
<1>2. arg[c] \in Refs /\ c \in busy
    BY DEF IInv, CallSound, ParsersAreBusy
<1>3. TypeOK'
    BY <1>1 DEF IInv, TypeOK
<1>4. ctx' \in [Goroutines -> Contexts \cup {Nothing}] /\ cursor' \in [Goroutines -> Positions \cup {Nothing}]
    BY <1>2, OutcomeAssumption DEF IInv, TypeOK, EndOf
<1>5. pc'[c] = "store" => Outcome[fileState][arg[c]].ok /\ Outcome[fileState][arg[c]].moved
    BY DEF IInv, TypeOK, WorthRemembering, EndOf
<1>6. CallSound'
    BY <1>2, <1>5 DEF IInv, TypeOK, CallSound, EndOf
<1>7. ReplayIsIndistinguishable'
    BY DEF IInv, TypeOK, ReplayIsIndistinguishable, EndOf
<1>8. ParsersAreBusy'
    BY <1>2 DEF IInv, TypeOK, ParsersAreBusy
<1> QED
    BY <1>1, <1>3, <1>4, <1>6, <1>7, <1>8
    DEF IInv, MemoSound, ScopesAreOwned, DroppedWithLastScope

(* What is stored is a moved success, and only while a scope is open. *)
LEMMA StoreOK ==
    ASSUME IInv, NEW c \in Goroutines, Store(c)
    PROVE  IInv'
<1> USE DEF Store
<1>1. OpenScopes' = OpenScopes
    BY DEF OpenScopes
<1>2. arg[c] \in Refs /\ c \in busy
    BY DEF IInv, CallSound, ParsersAreBusy
<1>3. TypeOK'
    BY <1>1, <1>2 DEF IInv, TypeOK, Remembered
<1>4. MemoSound'
    BY DEF IInv, MemoSound, CallSound, Remembered
<1>5. CallSound' /\ ParsersAreBusy'
    BY <1>2 DEF IInv, TypeOK, CallSound, ParsersAreBusy
<1>6. ReplayIsIndistinguishable'
    BY DEF IInv, TypeOK, CallSound, ReplayIsIndistinguishable, EndOf
<1>7. DroppedWithLastScope'
    <2> SUFFICES ASSUME OpenScopes = {} PROVE entries' = NoEntries
        BY <1>1 DEF DroppedWithLastScope
    <2>1. depth = 0
        BY FS_EmptySet DEF IInv, TypeOK
    <2> QED BY <2>1 DEF IInv, DroppedWithLastScope
<1> QED
    BY <1>3, <1>4, <1>5, <1>6, <1>7 DEF IInv, ScopesAreOwned

(* The locals of a finished call are dropped. *)
LEMMA ReturnOK ==
    ASSUME IInv, NEW c \in Goroutines, Return(c)
    PROVE  IInv'
<1> USE DEF Return, memo
<1>1. OpenScopes' = OpenScopes
    BY DEF OpenScopes
<1>2. TypeOK'
    BY <1>1 DEF IInv, TypeOK
<1>3. CallSound' /\ ParsersAreBusy' /\ ReplayIsIndistinguishable'
    BY DEF IInv, TypeOK, CallSound, ParsersAreBusy, ReplayIsIndistinguishable, EndOf
<1> QED
    BY <1>1, <1>2, <1>3 DEF IInv, MemoSound, ScopesAreOwned, DroppedWithLastScope

(* The file changes only with no scope open, hence with nothing remembered. *)
LEMMA ModifyFileOK ==
    ASSUME IInv, ModifyFile
    PROVE  IInv' /\ entries' = NoEntries
<1> USE DEF ModifyFile, memo, calling
<1>1. \A c \in Goroutines : pc[c] = "idle" /\ open[c] = {}
    BY DEF IInv, TypeOK, ParsersAreBusy
<1>2. OpenScopes = {} /\ OpenScopes' = OpenScopes
    BY <1>1 DEF OpenScopes
<1>3. entries = NoEntries
    BY <1>2 DEF IInv, DroppedWithLastScope
<1>4. MemoSound'
    BY <1>3 DEF MemoSound, NoEntries
<1>5. CallSound' /\ ReplayIsIndistinguishable'
    BY <1>1 DEF IInv, TypeOK, CallSound, ReplayIsIndistinguishable
<1>6. TypeOK'
    BY <1>2 DEF IInv, TypeOK
<1> QED
    BY <1>2, <1>3, <1>4, <1>5, <1>6
    DEF IInv, ParsersAreBusy, ScopesAreOwned, DroppedWithLastScope

(* One step of anybody keeps the invariant. *)
LEMMA Inductive == IInv /\ [MemoNext]_memoVars => IInv'
<1> SUFFICES ASSUME IInv, [MemoNext]_memoVars PROVE IInv'
    OBVIOUS
<1>1. CASE UNCHANGED memoVars
    BY <1>1 DEF memoVars, memo, calling, IInv, TypeOK, MemoSound, ParsersAreBusy,
       ScopesAreOwned, CallSound, DroppedWithLastScope, ReplayIsIndistinguishable,
       OpenScopes, EndOf
<1>2. CASE ModifyFile
    BY <1>2, ModifyFileOK
<1>3. ASSUME NEW c \in Goroutines, Step(c) PROVE IInv'
    BY <1>3, ParserOK, OpenScopeOK, CloseScopeOK, BeginLookupOK, ResolveOK, StoreOK, ReturnOK
    DEF Step
<1> QED
    BY <1>1, <1>2, <1>3 DEF MemoNext

(* The inductive invariant holds throughout. *)
THEOREM Invariance == MemoSpec => []IInv
<1> QED
    BY InitOK, Inductive, PTL DEF MemoSpec

(* The memo is unobservable: every getContextDesc call gives the answer    *)
(* and the cursor position of getContextDescUncached.                      *)
THEOREM MemoIsTransparent == MemoSpec => []ReplayIsIndistinguishable
<1>1. IInv => ReplayIsIndistinguishable
    BY DEF IInv
<1> QED
    BY <1>1, Invariance, PTL

(* swiftContextScope: nothing is remembered once the last scope is closed. *)
THEOREM MemoEndsWithScopes == MemoSpec => []DroppedWithLastScope
<1>1. IInv => DroppedWithLastScope
    BY DEF IInv
<1> QED
    BY <1>1, Invariance, PTL

(* Scope counting and types. *)
THEOREM TypeCorrect == MemoSpec => []TypeOK
<1>1. IInv => TypeOK
    BY DEF IInv
<1> QED
    BY <1>1, Invariance, PTL

(* No entry outlives the file state it was resolved on. *)
THEOREM NoStaleEntries == MemoSpec => NothingRememberedAcrossChanges
<1>1. IInv /\ [MemoNext]_memoVars => [fileState' # fileState => entries' = NoEntries]_memoVars
    <2> SUFFICES ASSUME IInv, MemoNext, fileState' # fileState PROVE entries' = NoEntries
        BY DEF memoVars
    <2>1. CASE ModifyFile
        BY <2>1, ModifyFileOK
    <2>2. ASSUME NEW c \in Goroutines, Step(c) PROVE FALSE
        BY <2>2 DEF Step, EnterParser, LeaveParser, OpenScope, CloseScope, BeginLookup,
           Resolve, Store, Return
    <2> QED BY <2>1, <2>2 DEF MemoNext
<1> QED
    BY <1>1, Invariance, PTL DEF MemoSpec, NothingRememberedAcrossChanges

-----------------------------------------------------------------------------
(* SwiftContext: a lookup as a chain of calls, one for each parent.        *)

(* A call that makes another one, for the parent. *)
Climbs(im, c) ==
    LET ptr == Pointer(im, c.ref)
        d == im.desc[ptr]
    IN  /\ ptr # Unreadable /\ ptr # Zero /\ d.at # "unmapped" /\ d.at # "short"
        /\ d.parent # NoRef /\ ~OwnAncestor(c.chain, ptr) /\ ~TooDeep(c.chain)

LEMMA StopsAlone ==
    ASSUME NEW im, NEW c, ~Climbs(im, c), NEW u, NEW v
    PROVE  Resolved(im, c, u) = Resolved(im, c, v)
  BY DEF Climbs, Resolved

(* Its result is made from what the other one returns. *)
LEMMA ClimbsFromParent ==
    ASSUME NEW im, NEW c, Climbs(im, c), NEW u
    PROVE  LET d == im.desc[Pointer(im, c.ref)] IN
           Resolved(im, c, u) = IF u.err # "" THEN Err(u.err, u.pos)
                                ELSE WithName(d, ParentPath(u), u.pos)
  BY DEF Climbs, Resolved

(* Where a call looks. *)
LEMMA PointerIs ==
    ASSUME NEW im \in ContextImages, NEW ref \in References
    PROVE  Pointer(im, ref) \in Addrs \cup {Zero, Unreadable}
  BY ContextImagesAssumption DEF Pointer, References

(* The call for the parent has one more descriptor behind it. *)
LEMMA ParentIsACall ==
    ASSUME NEW im \in ContextImages, NEW c \in Calls, Climbs(im, c)
    PROVE  LET ptr == Pointer(im, c.ref)
               up == ParentCall(im, c) IN
           /\ ptr \in Addrs /\ up \in Calls
           /\ im.desc[ptr].at = "data" /\ im.desc[ptr].parent # NoRef
           /\ up.ref = im.desc[ptr].parent /\ up.from = AtEnd(ptr) /\ up.chain = Append(c.chain, ptr)
           /\ Len(up.chain) = Len(c.chain) + 1 /\ Len(c.chain) < maxSwiftContextDepth
           /\ ptr \notin Range(c.chain)
<1> DEFINE ptr == Pointer(im, c.ref)
           ref == im.desc[ptr].parent
           chain == Append(c.chain, ptr)
           up == ParentCall(im, c)
<1>1. c.ref \in References /\ c.chain \in Seq(Addrs)
  BY DEF Calls
<1>2. ptr \in Addrs
  BY <1>1, PointerIs DEF Climbs
<1>3. im.desc[ptr].at = "data" /\ ref \in References /\ ref # NoRef
  BY <1>2, ContextImagesAssumption DEF Climbs
<1>4. ~(Len(c.chain) >= maxSwiftContextDepth) /\ ptr \notin Range(c.chain)
  BY DEF Climbs, TooDeep, OwnAncestor
<1>5. up = [ref |-> ref, from |-> AtEnd(ptr), chain |-> chain]
  BY DEF ParentCall, ACall
<1>6. AtEnd(ptr) \in Places
  BY <1>2 DEF Places
<1>7. chain \in Seq(Addrs) /\ Len(chain) = Len(c.chain) + 1
  BY <1>1, <1>2
<1> HIDE DEF ptr, ref, chain, up
<1>8. up \in Calls
  BY <1>3, <1>5, <1>6, <1>7 DEF Calls
<1>9. Len(c.chain) < maxSwiftContextDepth
  BY <1>1, <1>4, DepthAssumption
<1>10. up.ref = ref /\ up.from = AtEnd(ptr) /\ up.chain = chain
  BY <1>5
<1> QED BY <1>2, <1>3, <1>4, <1>7, <1>8, <1>9, <1>10 DEF ptr, ref, chain, up

(* The recursion ends, as each call for a parent has less depth left: what *)
(* it defines exists.                                                      *)
Left(c) == IF Len(c.chain) < maxSwiftContextDepth THEN maxSwiftContextDepth - Len(c.chain) ELSE 0

LEMMA LeftIs ==
    ASSUME NEW im \in ContextImages
    PROVE  /\ \A c \in Calls : Left(c) \in 0 .. maxSwiftContextDepth
           /\ \A c \in Calls : Climbs(im, c) =>
                 ParentCall(im, c) \in Calls /\ Left(ParentCall(im, c)) < Left(c)
<1>1. ASSUME NEW c \in Calls PROVE Left(c) \in 0 .. maxSwiftContextDepth
  <2>1. Len(c.chain) \in Nat
    BY DEF Calls
  <2> QED BY <2>1, DepthAssumption DEF Left
<1>2. ASSUME NEW c \in Calls, Climbs(im, c)
      PROVE  ParentCall(im, c) \in Calls /\ Left(ParentCall(im, c)) < Left(c)
  <2> DEFINE up == ParentCall(im, c)
  <2>1. up \in Calls /\ Len(up.chain) = Len(c.chain) + 1 /\ Len(c.chain) < maxSwiftContextDepth
    BY <1>2, ParentIsACall
  <2> HIDE DEF up
  <2>2. Len(c.chain) \in Nat
    BY DEF Calls
  <2>3. Left(up) < Left(c)
    BY <2>1, <2>2, DepthAssumption DEF Left
  <2> QED BY <2>1, <2>3 DEF up
<1> QED BY <1>1, <1>2

LEMMA ChainIs ==
    ASSUME NEW im \in ContextImages
    PROVE  LET R == getContextDescChain(im) IN
           \A c \in Calls : R[c] = Resolved(im, c, R[ParentCall(im, c)])
<1> DEFINE max == maxSwiftContextDepth
           up(c) == ParentCall(im, c)
           Gives(c, v) == Resolved(im, c, v)
           Climb(c) == Climbs(im, c)
           Below(n) == {c \in Calls : Left(c) < n}
           Solves(w, n) == w = [c \in Below(n) |-> Gives(c, w[up(c)])]
           S == {n \in Nat : \E w : Solves(w, n)}
<1>0. max \in Nat /\ \A c \in Calls : Left(c) \in Nat /\ Left(c) < max + 1
  BY LeftIs, DepthAssumption
<1>1. \A c \in Calls : Climb(c) => up(c) \in Calls /\ Left(up(c)) < Left(c) /\ Left(up(c)) \in Nat
  BY LeftIs, <1>0
<1>2. \A c, u, v : ~Climb(c) => Gives(c, u) = Gives(c, v)
  BY StopsAlone
<1> HIDE DEF Gives, up, Climb, max
<1>3. 0 \in S
  <2>1. Below(0) = {}
    BY <1>0
  <2> DEFINE w == [c \in Below(0) |-> 0]
  <2>2. Solves(w, 0)
    BY <2>1
  <2> HIDE DEF Solves, w
  <2> QED BY <2>2
<1>4. ASSUME NEW n \in Nat, n \in S PROVE n + 1 \in S
  <2>1. PICK w : Solves(w, n)
    BY <1>4
  <2> DEFINE g == [c \in Below(n + 1) |-> Gives(c, w[up(c)])]
  <2>2. \A c \in Below(n) : c \in Below(n + 1) /\ g[c] = w[c]
    <3> TAKE c \in Below(n)
    <3>1. c \in Below(n + 1)
      BY <1>0
    <3>2. w[c] = Gives(c, w[up(c)])
      BY <2>1
    <3> HIDE DEF Below
    <3> QED BY <3>1, <3>2
  <2>3. ASSUME NEW c \in Below(n + 1) PROVE g[c] = Gives(c, g[up(c)])
    <3>1. g[c] = Gives(c, w[up(c)])
      OBVIOUS
    <3>2. CASE Climb(c)
      <4>1. up(c) \in Below(n)
        BY <1>0, <1>1, <3>2
      <4> HIDE DEF g, Below
      <4> QED BY <2>2, <3>1, <4>1
    <3> HIDE DEF g
    <3>3. CASE ~Climb(c)
      BY <1>2, <3>1, <3>3
    <3> QED BY <3>2, <3>3
  <2>4. Solves(g, n + 1)
    <3> DEFINE B == Below(n + 1)
    <3>1. g = [c \in B |-> g[c]]
      OBVIOUS
    <3> HIDE DEF g, B
    <3>2. \A c \in B : g[c] = Gives(c, g[up(c)])
      BY <2>3 DEF B
    <3>3. g = [c \in B |-> Gives(c, g[up(c)])]
      BY ONLY <3>1, <3>2
    <3> QED BY <3>3 DEF B
  <2> HIDE DEF Solves, g
  <2> QED BY <2>4
<1>5. \E w : Solves(w, max + 1)
  <2> HIDE DEF S
  <2>1. max + 1 \in S
    BY <1>0, <1>3, <1>4, SetInduction
  <2> HIDE DEF Solves
  <2> QED BY <2>1 DEF S
<1>6. Below(max + 1) = Calls
  BY <1>0
<1> DEFINE All(w) == w = [c \in Calls |-> Gives(c, w[up(c)])]
           R == getContextDescChain(im)
<1>7. \E w : All(w)
  <2> HIDE DEF Below
  <2> QED BY <1>5, <1>6
<1>8. R = CHOOSE w : All(w)
  BY DEF getContextDescChain, Gives, up
<1>9. All(R)
  <2> HIDE DEF All, R
  <2> QED BY <1>7, <1>8
<1> HIDE DEF R, S, Solves, Below
<1>10. \A c \in Calls : R[c] = Gives(c, R[up(c)])
  <2>1. R = [c \in Calls |-> Gives(c, R[up(c)])]
    BY ONLY <1>9
  <2> QED BY ONLY <2>1
<1> QED BY ONLY <1>10 DEF R, Gives, up

(* What holds of the calls that make no other one, and of each other call  *)
(* once it holds of the one it makes, holds of all of them.                *)
LEMMA CallInduction ==
    ASSUME NEW im \in ContextImages, NEW Good,
           \A c \in Calls : ~Climbs(im, c) => c \in Good,
           \A c \in Calls : Climbs(im, c) /\ ParentCall(im, c) \in Good => c \in Good
    PROVE  Calls \subseteq Good
<1> DEFINE max == maxSwiftContextDepth
           S == {n \in Nat : \A c \in Calls : Left(c) < n => c \in Good}
<1>0. max \in Nat /\ \A c \in Calls : Left(c) \in Nat /\ Left(c) < max + 1
  BY LeftIs, DepthAssumption
<1>1. 0 \in S
  BY <1>0
<1>2. ASSUME NEW n \in Nat, n \in S PROVE n + 1 \in S
  <2>1. ASSUME NEW c \in Calls, Left(c) < n + 1 PROVE c \in Good
    <3>1. CASE Climbs(im, c)
      <4> DEFINE up == ParentCall(im, c)
      <4>1. up \in Calls /\ Left(up) < Left(c)
        BY <3>1, LeftIs
      <4> HIDE DEF up
      <4>2. Left(up) < n
        BY <1>0, <2>1, <4>1
      <4>3. up \in Good
        BY <1>2, <4>1, <4>2
      <4> QED BY <3>1, <4>3 DEF up
    <3> QED BY <3>1
  <2> QED BY <2>1
<1> HIDE DEF S
<1>3. \A n \in Nat : n \in S
  BY <1>1, <1>2, SetInduction
<1>4. max + 1 \in S
  BY <1>0, <1>3
<1> QED BY <1>0, <1>4 DEF S

(* The names and the paths of a result do not move the cursor.             *)
LEMMA PosOfParts ==
    /\ \A p, n, pos : Ok(p, n, pos).pos = pos
    /\ \A e, pos : Err(e, pos).pos = pos
    /\ \A names, ptr, e, pos : Fallback(names, ptr, e, pos).pos = pos
    /\ \A d, p, pos : WithName(d, p, pos).pos = pos
<1>1. (\A p, n, pos : Ok(p, n, pos).pos = pos) /\ \A e, pos : Err(e, pos).pos = pos
  BY DEF Ok, Err
<1>2. \A names, ptr, e, pos : Fallback(names, ptr, e, pos).pos = pos
  BY <1>1 DEF Fallback
<1>3. \A d, p, pos : WithName(d, p, pos).pos = pos
  BY <1>1 DEF WithName
<1> QED BY <1>1, <1>2, <1>3

(* Every lookup leaves the cursor in one of the places a cursor can be in. *)
LEMMA PlaceAfter ==
    ASSUME NEW im \in ContextImages, NEW c \in Calls, NEW u, Climbs(im, c) => u.pos \in Places
    PROVE  Resolved(im, c, u).pos \in Places
<1> DEFINE ptr == Pointer(im, c.ref)
<1>1. c.from \in Places /\ ptr \in Addrs \cup {Zero, Unreadable}
  BY PointerIs DEF Calls
<1>2. ptr \notin {Zero, Unreadable} => AtEnd(ptr) \in Places /\ Part(ptr) \in Places
  BY <1>1 DEF Places
<1>3. CASE Climbs(im, c)
  <2> DEFINE d == im.desc[ptr]
  <2>1. \/ Resolved(im, c, u) = Err(u.err, u.pos)
        \/ Resolved(im, c, u) = WithName(d, ParentPath(u), u.pos)
    BY <1>3, ClimbsFromParent
  <2>2. u.pos \in Places
    BY <1>3
  <2> HIDE DEF ptr, d
  <2> QED BY <2>1, <2>2, PosOfParts
<1>4. CASE ~Climbs(im, c)
  <2> DEFINE d == im.desc[ptr]
             pos == AfterSlot(c.ref, c.from)
  <2>1. pos = c.from
    BY DEF AfterSlot
  <2>2. \/ Resolved(im, c, u) = Fallback(im.bind, c.ref, "slot", pos)
        \/ Resolved(im, c, u) = Ok(<<>>, <<>>, pos)
        \/ Resolved(im, c, u) = Fallback(im.bind \cup im.sym, ptr, "seek", pos)
        \/ /\ ptr \notin {Zero, Unreadable}
           /\ \/ Resolved(im, c, u) = Fallback(im.bind, ptr, "read", Part(ptr))
              \/ Resolved(im, c, u) = WithName(d, <<>>, AtEnd(ptr))
              \/ Resolved(im, c, u) = Err("cycle", AtEnd(ptr))
              \/ Resolved(im, c, u) = Err("depth", AtEnd(ptr))
    <3>1. CASE ptr = Unreadable
      BY <3>1 DEF Resolved
    <3>2. CASE ptr = Zero
      BY <3>1, <3>2 DEF Resolved
    <3>3. CASE ptr \notin {Zero, Unreadable}
      <4>1. CASE d.at = "unmapped" \/ d.at = "short"
        BY <3>3, <4>1 DEF Resolved
      <4>2. CASE d.at # "unmapped" /\ d.at # "short" /\ d.parent = NoRef
        BY <3>3, <4>2 DEF Resolved
      <4>3. CASE d.at # "unmapped" /\ d.at # "short" /\ d.parent # NoRef
        BY <1>4, <3>3, <4>3 DEF Climbs, Resolved
      <4> QED BY <4>1, <4>2, <4>3
    <3> QED BY <3>1, <3>2, <3>3
  <2> HIDE DEF ptr, d, pos
  <2> QED BY <1>1, <1>2, <2>1, <2>2, PosOfParts
<1> QED BY <1>3, <1>4

LEMMA PlacesKept ==
    ASSUME NEW im \in ContextImages
    PROVE  \A c \in Calls : getContextDescChain(im)[c].pos \in Places
<1> DEFINE R == getContextDescChain(im)
           Good == {c \in Calls : R[c].pos \in Places}
<1>0. \A c \in Calls : R[c] = Resolved(im, c, R[ParentCall(im, c)])
  BY ChainIs
<1> HIDE DEF R
<1>1. ASSUME NEW c \in Calls, Climbs(im, c) => ParentCall(im, c) \in Good PROVE c \in Good
  <2> DEFINE u == R[ParentCall(im, c)]
  <2>1. Climbs(im, c) => u.pos \in Places
    BY <1>1
  <2>2. R[c] = Resolved(im, c, u)
    BY <1>0
  <2> HIDE DEF u
  <2>3. R[c].pos \in Places
    BY <2>1, <2>2, PlaceAfter
  <2> QED BY <2>3
<1> HIDE DEF Good
<1>2. Calls \subseteq Good
  BY <1>1, CallInduction
<1> QED BY <1>2 DEF Good, R

(* A lookup on another cursor takes the same way up.                       *)
LEMMA AnswersAlike ==
    ASSUME NEW im \in ContextImages, NEW ref \in References, NEW p \in Places, NEW q \in Places
    PROVE  LET x == getContextDescUncached(im, ref, p)
               y == getContextDescUncached(im, ref, q)
           IN  Result(x) = Result(y) /\ (x.pos = y.pos \/ (x.pos = p /\ y.pos = q))
<1> DEFINE R == getContextDescChain(im)
           c == ACall(ref, p, <<>>)
           e == ACall(ref, q, <<>>)
           u == R[ParentCall(im, c)]
           ptr == Pointer(im, ref)
           d == im.desc[ptr]
           x == R[c]
           y == R[e]
           Same == Result(x) = Result(y) /\ (x.pos = y.pos \/ (x.pos = p /\ y.pos = q))
<1> SUFFICES Same
  BY DEF getContextDescUncached
<1>1. c \in Calls /\ e \in Calls
  BY DEF Calls, ACall
<1>2. ParentCall(im, c) = ParentCall(im, e)
  BY DEF ParentCall, ACall
<1>3. x = Resolved(im, c, u) /\ y = Resolved(im, e, u)
  <2>1. \A b \in Calls : R[b] = Resolved(im, b, R[ParentCall(im, b)])
    BY ChainIs
  <2> QED BY <1>1, <1>2, <2>1
<1>4. c.ref = ref /\ e.ref = ref /\ c.from = p /\ e.from = q /\ c.chain = <<>> /\ e.chain = <<>>
  BY DEF ACall
<1> HIDE DEF R, c, e, u, x, y
<1>5. CASE ptr = Unreadable
  <2>1. x = Fallback(im.bind, ref, "slot", p) /\ y = Fallback(im.bind, ref, "slot", q)
    BY <1>3, <1>4, <1>5 DEF Resolved, AfterSlot
  <2> QED BY <2>1 DEF Fallback, Ok, Err, Result
<1>6. CASE ptr # Unreadable /\ ptr = Zero
  <2>1. x = Ok(<<>>, <<>>, p) /\ y = Ok(<<>>, <<>>, q)
    BY <1>3, <1>4, <1>6 DEF Resolved, AfterSlot
  <2> QED BY <2>1 DEF Ok, Result
<1>7. CASE ptr # Unreadable /\ ptr # Zero /\ d.at = "unmapped"
  <2>1. /\ x = Fallback(im.bind \cup im.sym, ptr, "seek", p)
        /\ y = Fallback(im.bind \cup im.sym, ptr, "seek", q)
    BY <1>3, <1>4, <1>7 DEF Resolved, AfterSlot
  <2> HIDE DEF ptr
  <2> QED BY <2>1 DEF Fallback, Ok, Err, Result
<1>8. CASE ptr # Unreadable /\ ptr # Zero /\ d.at # "unmapped"
  <2>1. x = y
    BY <1>3, <1>4, <1>8 DEF Resolved
  <2>2. x.pos = y.pos /\ Result(x) = Result(y)
    BY <2>1 DEF Result
  <2> QED BY <2>2
<1> QED BY <1>5, <1>6, <1>7, <1>8

(* What a refused call says.                                               *)
LEMMA ErrIs ==
    \A e, pos : Err(e, pos).err = e /\ Err(e, pos).pos = pos
  BY DEF Err

(* Fewer descriptors behind a call do not change an answer it has.         *)
NoMoreBehind(e, c) ==
    e.ref = c.ref /\ Range(e.chain) \subseteq Range(c.chain) /\ Len(e.chain) <= Len(c.chain)

LEMMA RangeOfAppend ==
    ASSUME NEW S, NEW s \in Seq(S), NEW x \in S
    PROVE  Range(Append(s, x)) = Range(s) \cup {x}
<1> DEFINE t == Append(s, x)
<1>1. /\ t \in Seq(S) /\ Len(t) = Len(s) + 1 /\ Len(s) \in Nat /\ t[Len(s) + 1] = x
      /\ \A i \in 1 .. Len(s) : t[i] = s[i]
  OBVIOUS
<1>2. DOMAIN t = 1 .. Len(t) /\ DOMAIN s = 1 .. Len(s)
  BY <1>1
<1> HIDE DEF t
<1>3. DOMAIN t = DOMAIN s \cup {Len(s) + 1} /\ \A i \in DOMAIN s : t[i] = s[i]
  BY <1>1, <1>2
<1>4. Range(t) = Range(s) \cup {x}
  BY <1>1, <1>3 DEF Range
<1> QED BY <1>4 DEF t

AnswersLike(im, e, c) ==
    \A x, y, u, v : x = Resolved(im, c, u) /\ y = Resolved(im, e, v) /\ x.err = ""
                       => Result(y) = Result(x)

LEMMA AnswerAlone ==
    ASSUME NEW im, NEW c, NEW e, e.ref = c.ref, ~Climbs(im, c)
    PROVE  AnswersLike(im, e, c)
<1> USE DEF AnswersLike
<1> TAKE x, y, u, v
<1> DEFINE ptr == Pointer(im, c.ref)
           d == im.desc[ptr]
           Same == Result(y) = Result(x)
<1> SUFFICES ASSUME x = Resolved(im, c, u), y = Resolved(im, e, v), x.err = "" PROVE Same
  OBVIOUS
<1> HIDE DEF Same
<1>1. Pointer(im, e.ref) = ptr
  OBVIOUS
<1>2. CASE ptr = Unreadable
  <2>1. x = Fallback(im.bind, c.ref, "slot", c.from) /\ y = Fallback(im.bind, c.ref, "slot", e.from)
    BY <1>2 DEF Resolved, AfterSlot
  <2> QED BY ONLY <2>1 DEF Same, Fallback, Ok, Err, Result
<1>3. CASE ptr # Unreadable /\ ptr = Zero
  <2>1. x = Ok(<<>>, <<>>, c.from) /\ y = Ok(<<>>, <<>>, e.from)
    BY <1>3 DEF Resolved, AfterSlot
  <2> QED BY ONLY <2>1 DEF Same, Ok, Result
<1>4. CASE ptr # Unreadable /\ ptr # Zero /\ d.at = "unmapped"
  <2>1. /\ x = Fallback(im.bind \cup im.sym, ptr, "seek", c.from)
        /\ y = Fallback(im.bind \cup im.sym, ptr, "seek", e.from)
    BY <1>4 DEF Resolved, AfterSlot
  <2> HIDE DEF ptr
  <2> QED BY ONLY <2>1 DEF Same, Fallback, Ok, Err, Result
<1>5. CASE ptr # Unreadable /\ ptr # Zero /\ d.at # "unmapped" /\ d.at = "short"
  <2>1. x = y
    BY <1>5 DEF Resolved
  <2> QED BY <2>1 DEF Same
<1>6. CASE ptr # Unreadable /\ ptr # Zero /\ d.at # "unmapped" /\ d.at # "short" /\ d.parent = NoRef
  <2>1. x = y
    BY <1>6 DEF Resolved
  <2> QED BY <2>1 DEF Same
<1>7. CASE ptr # Unreadable /\ ptr # Zero /\ d.at # "unmapped" /\ d.at # "short" /\ d.parent # NoRef
  <2>1. x = Err("cycle", AtEnd(ptr)) \/ x = Err("depth", AtEnd(ptr))
    BY <1>7 DEF Climbs, Resolved, TooDeep, OwnAncestor
  <2>2. x.err # ""
    <3> HIDE DEF ptr
    <3>1. x.err = "cycle" \/ x.err = "depth"
      BY <2>1, ErrIs
    <3> QED BY <3>1
  <2> QED BY <2>2
<1> HIDE DEF ptr, d, Same
<1> QED BY <1>2, <1>3, <1>4, <1>5, <1>6, <1>7

LEMMA AnswerAbove ==
    ASSUME NEW d, NEW u, NEW v, Result(u) = Result(v)
    PROVE  /\ u.err = v.err /\ ParentPath(u) = ParentPath(v)
           /\ Result(WithName(d, ParentPath(u), u.pos)) = Result(WithName(d, ParentPath(v), v.pos))
<1>1. u.err = v.err /\ u.parent = v.parent /\ u.name = v.name
  BY DEF Result
<1>2. ParentPath(u) = ParentPath(v)
  BY <1>1 DEF ParentPath
<1>3. ASSUME NEW path PROVE Result(WithName(d, path, u.pos)) = Result(WithName(d, path, v.pos))
  BY DEF Result, WithName, Ok, Err
<1> QED BY <1>1, <1>2, <1>3

LEMMA ShorterChain ==
    ASSUME NEW im \in ContextImages
    PROVE  LET R == getContextDescChain(im) IN
           \A c, e \in Calls : R[c].err = "" /\ NoMoreBehind(e, c) => Result(R[e]) = Result(R[c])
<1> DEFINE R == getContextDescChain(im)
           Stays(c) == R[c].err = "" =>
                          \A e \in Calls : NoMoreBehind(e, c) => Result(R[e]) = Result(R[c])
           Good == {c \in Calls : Stays(c)}
<1>0. \A c \in Calls : R[c] = Resolved(im, c, R[ParentCall(im, c)])
  BY ChainIs
<1> HIDE DEF R
<1>1. ASSUME NEW c \in Calls, ~Climbs(im, c) PROVE c \in Good
  <2>1. ASSUME R[c].err = "", NEW e \in Calls, NoMoreBehind(e, c) PROVE Result(R[e]) = Result(R[c])
    <3> DEFINE u == R[ParentCall(im, c)]
               v == R[ParentCall(im, e)]
    <3>1. R[c] = Resolved(im, c, u) /\ R[e] = Resolved(im, e, v)
      BY <1>0
    <3> HIDE DEF u, v
    <3>2. e.ref = c.ref
      BY <2>1 DEF NoMoreBehind
    <3> DEFINE x == R[c]
               y == R[e]
    <3>3. x = Resolved(im, c, u) /\ y = Resolved(im, e, v) /\ x.err = ""
      BY <2>1, <3>1
    <3> HIDE DEF x, y
    <3>4. Result(y) = Result(x)
      <4>1. AnswersLike(im, e, c)
        BY <1>1, <3>2, AnswerAlone
      <4> QED BY ONLY <3>3, <4>1, Zenon DEF AnswersLike
    <3> QED BY <3>4 DEF x, y
  <2>2. Stays(c)
    BY <2>1
  <2> QED BY <2>2
<1>2. ASSUME NEW c \in Calls, Climbs(im, c), ParentCall(im, c) \in Good PROVE c \in Good
  <2>1. ASSUME R[c].err = "", NEW e \in Calls, NoMoreBehind(e, c) PROVE Result(R[e]) = Result(R[c])
    <3> DEFINE ptr == Pointer(im, c.ref)
               d == im.desc[ptr]
               cu == ParentCall(im, c)
               eu == ParentCall(im, e)
               u == R[cu]
               v == R[eu]
    <3>1. e.ref = c.ref /\ Range(e.chain) \subseteq Range(c.chain) /\ Len(e.chain) <= Len(c.chain)
      BY <2>1 DEF NoMoreBehind
    <3>2. Len(e.chain) \in Nat /\ Len(c.chain) \in Nat /\ e.chain \in Seq(Addrs) /\ c.chain \in Seq(Addrs)
      BY DEF Calls
    <3>3. Climbs(im, e)
      <4>1. ptr \notin Range(c.chain) /\ ~(Len(c.chain) >= maxSwiftContextDepth)
        BY <1>2 DEF Climbs, OwnAncestor, TooDeep
      <4>2. ptr \notin Range(e.chain) /\ ~(Len(e.chain) >= maxSwiftContextDepth)
        BY <3>1, <3>2, <4>1, DepthAssumption
      <4> QED BY <1>2, <3>1, <4>2 DEF Climbs, OwnAncestor, TooDeep
    <3>4. R[c] = Resolved(im, c, u) /\ R[e] = Resolved(im, e, v)
      BY <1>0
    <3>5. R[c] = IF u.err # "" THEN Err(u.err, u.pos) ELSE WithName(d, ParentPath(u), u.pos)
      <4> HIDE DEF u
      <4>1. Resolved(im, c, u) = IF u.err # "" THEN Err(u.err, u.pos)
                                 ELSE WithName(d, ParentPath(u), u.pos)
        BY <1>2, ClimbsFromParent
      <4> QED BY <3>4, <4>1
    <3>6. R[e] = IF v.err # "" THEN Err(v.err, v.pos) ELSE WithName(d, ParentPath(v), v.pos)
      <4> HIDE DEF v
      <4>1. Resolved(im, e, v) = IF v.err # "" THEN Err(v.err, v.pos)
                                 ELSE WithName(im.desc[Pointer(im, e.ref)], ParentPath(v), v.pos)
        BY <3>3, ClimbsFromParent
      <4> QED BY <3>1, <3>4, <4>1
    <3>7. /\ cu \in Calls /\ ptr \in Addrs /\ cu.ref = d.parent /\ cu.chain = Append(c.chain, ptr)
          /\ Len(cu.chain) = Len(c.chain) + 1
      BY <1>2, ParentIsACall
    <3>8. /\ eu \in Calls /\ eu.ref = d.parent /\ eu.chain = Append(e.chain, ptr)
          /\ Len(eu.chain) = Len(e.chain) + 1
      BY <3>1, <3>3, ParentIsACall
    <3> HIDE DEF cu, eu, u, v, d, ptr
    <3>9. NoMoreBehind(eu, cu)
      BY <3>1, <3>2, <3>7, <3>8, RangeOfAppend DEF NoMoreBehind
    <3>10. u.err = ""
      <4>1. ASSUME u.err # "" PROVE FALSE
        <5>1. R[c] = Err(u.err, u.pos) /\ R[c].err = ""
          BY ONLY <2>1, <3>5, <4>1
        <5>2. Err(u.err, u.pos).err = u.err
          BY ErrIs
        <5> QED BY ONLY <4>1, <5>1, <5>2, Zenon
      <4> QED BY <4>1
    <3>11. Result(v) = Result(u)
      BY <1>2, <3>8, <3>9, <3>10 DEF u, v, cu
    <3>12. v.err = "" /\ Result(WithName(d, ParentPath(u), u.pos)) = Result(WithName(d, ParentPath(v), v.pos))
      BY <3>10, <3>11, AnswerAbove
    <3> QED BY <3>5, <3>6, <3>10, <3>12
  <2>2. Stays(c)
    BY <2>1
  <2> QED BY <2>2
<1> HIDE DEF Good
<1>3. Calls \subseteq Good
  BY <1>1, <1>2, CallInduction
<1> QED BY <1>3 DEF Good, R

LEMMA NothingBehind ==
    <<>> \in Seq(Addrs) /\ Len(<<>>) = 0 /\ Range(<<>>) = {}
<1>1. <<>> \in Seq(Addrs)
  OBVIOUS
<1>2. Len(<<>>) = 0
  OBVIOUS
<1>3. DOMAIN <<>> = {}
  OBVIOUS
<1>4. Range(<<>>) = {}
  BY <1>3 DEF Range
<1> QED BY <1>1, <1>2, <1>4

(* A lookup below a parent has the path that the parent has by itself.     *)
LEMMA NameKeepsPath ==
    \A d, path, pos : WithName(d, path, pos).err = "" => WithName(d, path, pos).parent = path
<1> TAKE d, path, pos
<1> DEFINE w == WithName(d, path, pos)
           Kept == w.err = "" => w.parent = path
<1> SUFFICES Kept
  OBVIOUS
<1>1. CASE d.name = NoName
  <2>1. w = Ok(path, <<>>, pos)
    BY <1>1 DEF WithName
  <2> HIDE DEF w
  <2>2. w.parent = path
    BY ONLY <2>1 DEF Ok
  <2> QED BY <2>2
<1>2. CASE d.name # NoName /\ d.name = BadName
  <2>1. w = Err("name", pos)
    BY <1>2 DEF WithName
  <2>2. w.err # ""
    <3>1. Err("name", pos).err = "name"
      BY ErrIs
    <3> QED BY ONLY <2>1, <3>1
  <2> QED BY <2>2
<1>3. CASE d.name # NoName /\ d.name # BadName
  <2>1. w = Ok(path, <<d.name>>, pos)
    BY <1>3 DEF WithName
  <2> HIDE DEF w
  <2>2. w.parent = path
    BY ONLY <2>1 DEF Ok
  <2> QED BY <2>2
<1> QED BY <1>1, <1>2, <1>3

LEMMA PathOfTheParent ==
    ASSUME NEW im \in ContextImages, NEW pos \in Places, NEW a \in Addrs,
           im.desc[a].at = "data", im.desc[a].parent # NoRef,
           getContextDescUncached(im, a, pos).err = ""
    PROVE  LET r == getContextDescUncached(im, a, pos)
               p == getContextDescUncached(im, im.desc[a].parent, pos)
           IN  p.err = "" /\ r.parent = p.parent \o p.name
<1> DEFINE R == getContextDescChain(im)
           d == im.desc[a]
           c == ACall(a, pos, <<>>)
           e == ACall(d.parent, pos, <<>>)
           cu == ParentCall(im, c)
           u == R[cu]
           p == R[e]
           r == R[c]
           Goal == p.err = "" /\ r.parent = p.parent \o p.name
<1> SUFFICES Goal
  BY DEF getContextDescUncached
<1>1. a \notin PointerSlots /\ a \in References /\ Pointer(im, a) = a /\ a # Zero /\ a # Unreadable
  BY AddressesAssumption DEF Pointer, References
<1>2. c \in Calls /\ c.ref = a /\ c.chain = <<>> /\ Len(c.chain) = 0 /\ Range(c.chain) = {}
  <2>1. c \in Calls
    BY NothingBehind, <1>1 DEF Calls, ACall
  <2>2. c.ref = a /\ c.chain = <<>>
    BY DEF ACall
  <2> HIDE DEF c
  <2> QED BY ONLY NothingBehind, <2>1, <2>2
<1>3. d.parent \in References
  BY ContextImagesAssumption
<1>4. e \in Calls /\ e.ref = d.parent /\ e.chain = <<>> /\ Len(e.chain) = 0 /\ Range(e.chain) = {}
  <2>1. e \in Calls
    BY NothingBehind, <1>3 DEF Calls, ACall
  <2>2. e.ref = d.parent /\ e.chain = <<>>
    BY DEF ACall
  <2> HIDE DEF e
  <2> QED BY ONLY NothingBehind, <2>1, <2>2
<1>5. r = Resolved(im, c, u)
  BY <1>2, ChainIs
<1>6. r.err = ""
  BY DEF getContextDescUncached
<1> HIDE DEF R, c, e, cu, u, p, r
<1>7. CASE Climbs(im, c)
  <2>1. r = IF u.err # "" THEN Err(u.err, u.pos) ELSE WithName(d, ParentPath(u), u.pos)
    <3>1. Resolved(im, c, u) = IF u.err # "" THEN Err(u.err, u.pos)
                               ELSE WithName(im.desc[Pointer(im, c.ref)], ParentPath(u), u.pos)
      BY <1>7, ClimbsFromParent
    <3> QED BY <1>1, <1>2, <1>5, <3>1
  <2>2. u.err = ""
    <3>1. ASSUME u.err # "" PROVE FALSE
      <4>1. r = Err(u.err, u.pos)
        BY ONLY <2>1, <3>1
      <4>2. Err(u.err, u.pos).err = u.err
        BY ErrIs
      <4> QED BY ONLY <1>6, <3>1, <4>1, <4>2, Zenon
    <3> QED BY <3>1
  <2>3. r = WithName(d, ParentPath(u), u.pos)
    BY ONLY <2>1, <2>2
  <2>4. r.parent = ParentPath(u)
    BY ONLY <1>6, <2>3, NameKeepsPath, Zenon
  <2>5. /\ cu \in Calls /\ cu.ref = d.parent /\ cu.chain = Append(c.chain, a)
        /\ Len(cu.chain) = Len(c.chain) + 1
    <3> DEFINE q == Pointer(im, c.ref)
    <3>1. /\ cu \in Calls /\ cu.ref = im.desc[q].parent /\ cu.chain = Append(c.chain, q)
          /\ Len(cu.chain) = Len(c.chain) + 1
      BY <1>2, <1>7, ParentIsACall DEF cu
    <3>2. q = a
      BY <1>1, <1>2
    <3> HIDE DEF q
    <3> QED BY ONLY <3>1, <3>2
  <2>6. NoMoreBehind(e, cu)
    <3>1. e.ref = cu.ref /\ Range(e.chain) = {} /\ Len(e.chain) = 0 /\ Len(cu.chain) = 1
      BY ONLY <1>2, <1>4, <2>5
    <3>2. Len(e.chain) <= Len(cu.chain)
      BY ONLY <3>1
    <3> QED BY ONLY <3>1, <3>2 DEF NoMoreBehind
  <2>7. Result(p) = Result(u)
    BY <1>4, <2>2, <2>5, <2>6, ShorterChain DEF R, p, u
  <2>8. p.err = u.err /\ ParentPath(p) = ParentPath(u)
    BY <2>7, AnswerAbove
  <2> QED BY <2>2, <2>4, <2>8 DEF ParentPath
<1>8. CASE ~Climbs(im, c)
  <2>1. r = Err("depth", AtEnd(a))
    BY <1>1, <1>2, <1>5, <1>8 DEF Climbs, Resolved, OwnAncestor
  <2>2. Err("depth", AtEnd(a)).err = "depth"
    BY ErrIs
  <2>3. r.err = "depth"
    BY ONLY <2>1, <2>2, Zenon
  <2> QED BY <1>6, <2>3
<1> QED BY <1>7, <1>8

-----------------------------------------------------------------------------
(* What is known of the descriptors behind a call of the lookup of ref:    *)
(* they are the ones its chain goes through first, each once.              *)
Behind(c) == Range(c.chain)

(* The descriptor a call is about is one of every closed set's.            *)
Reached(ref, ptr) ==
    \A S \in SUBSET Addrs : Closed(S) /\ Pointer(img, ref) \in S => ptr \in S

OnWay(c, ref) ==
    LET Z == Behind(c)
        ptr == Pointer(img, c.ref)
    IN  /\ IsFiniteSet(Z) /\ Cardinality(Z) = Len(c.chain) /\ Len(c.chain) <= maxSwiftContextDepth
        /\ Z \subseteq Chain(ref)
        /\ Pointer(img, ref) \in Z \cup {ptr}
        /\ ptr \in Addrs => Reached(ref, ptr)
        /\ \A a \in Z : Up(a) \in Z \cup {ptr}
        /\ Z # {} => \E a \in Z : Up(a) = ptr

LEMMA OnWayAtFirst ==
    ASSUME img \in ContextImages, NEW ref \in References, NEW pos
    PROVE  OnWay(ACall(ref, pos, <<>>), ref)
<1> DEFINE c == ACall(ref, pos, <<>>)
           ptr == Pointer(img, ref)
<1>1. c.ref = ref /\ c.chain = <<>>
  BY DEF ACall
<1> HIDE DEF c
<1>2. Behind(c) = {} /\ Len(c.chain) = 0
  BY ONLY <1>1, NothingBehind DEF Behind
<1>3. IsFiniteSet({}) /\ Cardinality({}) = 0
  BY FS_EmptySet
<1>4. Reached(ref, ptr)
  BY DEF Reached
<1>5. OnWay(c, ref)
  BY <1>1, <1>2, <1>3, <1>4, DepthAssumption DEF OnWay
<1> QED BY <1>5 DEF c

LEMMA ChainHas ==
    ASSUME NEW ref, Pointer(img, ref) \in Addrs, NEW a, HasParent(a), Reached(ref, a)
    PROVE  a \in Chain(ref)
  BY DEF Chain, Reached, HasParent

LEMMA ChainWithin ==
    ASSUME NEW ref, NEW T, T \subseteq Addrs, Closed(T), Pointer(img, ref) \in Addrs => Pointer(img, ref) \in T
    PROVE  Chain(ref) \subseteq T
  BY DEF Chain

LEMMA ChainParts ==
    ASSUME NEW ref
    PROVE  \A a \in Chain(ref) : a \in Addrs /\ HasParent(a)
  BY DEF Chain

(* One more descriptor behind, and everything is known again.              *)
LEMMA OnWayUp ==
    ASSUME img \in ContextImages, NEW ref, NEW c \in Calls, Climbs(img, c), OnWay(c, ref)
    PROVE  OnWay(ParentCall(img, c), ref)
<1> DEFINE Z == Behind(c)
           ptr == Pointer(img, c.ref)
           cu == ParentCall(img, c)
           next == Pointer(img, cu.ref)
           W == Behind(cu)
           first == Pointer(img, ref)
<1>1. /\ ptr \in Addrs /\ cu.ref = img.desc[ptr].parent /\ cu.chain = Append(c.chain, ptr)
      /\ img.desc[ptr].at = "data" /\ img.desc[ptr].parent # NoRef
      /\ Len(cu.chain) = Len(c.chain) + 1 /\ Len(c.chain) < maxSwiftContextDepth /\ ptr \notin Z
  BY ParentIsACall DEF Behind
<1>2. c.chain \in Seq(Addrs) /\ Len(c.chain) \in Nat
  BY DEF Calls
<1>3. HasParent(ptr) /\ Up(ptr) = next
  BY <1>1 DEF HasParent, Up
<1>4. /\ IsFiniteSet(Z) /\ Cardinality(Z) = Len(c.chain) /\ Z \subseteq Chain(ref)
      /\ first \in Z \cup {ptr} /\ (ptr \in Addrs => Reached(ref, ptr))
      /\ \A a \in Z : Up(a) \in Z \cup {ptr}
  BY DEF OnWay
<1>5. W = Z \cup {ptr}
  BY <1>1, <1>2, RangeOfAppend DEF Behind
<1> HIDE DEF Z, ptr, cu, next, W, first
<1>6. first \in Addrs
  BY <1>1, <1>4, ChainParts
<1>7. IsFiniteSet(W) /\ Cardinality(W) = Len(cu.chain)
  <2>1. IsFiniteSet(Z \cup {ptr}) /\ Cardinality(Z \cup {ptr}) = Cardinality(Z) + 1
    BY <1>1, <1>4, FS_AddElement
  <2> QED BY ONLY <1>1, <1>4, <1>5, <2>1
<1>8. Len(cu.chain) <= maxSwiftContextDepth
  BY <1>1, <1>2, DepthAssumption
<1>9. W \subseteq Chain(ref)
  <2>1. ptr \in Chain(ref)
    BY <1>1, <1>3, <1>4, <1>6, ChainHas DEF first
  <2> QED BY <1>4, <1>5, <2>1
<1>10. next \in Addrs => Reached(ref, next)
  <2>1. ASSUME next \in Addrs, NEW S \in SUBSET Addrs, Closed(S), first \in S PROVE next \in S
    <3>1. ptr \in S
      BY <1>1, <1>4, <2>1 DEF Reached, first
    <3> QED BY <1>3, <2>1, <3>1 DEF Closed
  <2> QED BY <2>1 DEF Reached, first
<1>11. (\A a \in W : Up(a) \in W \cup {next}) /\ \E a \in W : Up(a) = next
  BY ONLY <1>3, <1>4, <1>5
<1> QED BY <1>4, <1>5, <1>7, <1>8, <1>9, <1>10, <1>11 DEF OnWay, W, next, cu, first

(* Where a chain ends. *)
Exactly(r, ref) ==
    LET n == Cardinality(Chain(ref))
    IN  /\ r.err = "depth" <=> n > maxSwiftContextDepth
        /\ r.err = "cycle" <=> n <= maxSwiftContextDepth /\ NeverEnds(ref)

(* It ends at a descriptor without a parent, or outside of them.           *)
LEMMA EndsWithoutParent ==
    ASSUME img \in ContextImages, NEW ref, NEW c \in Calls, OnWay(c, ref), ~HasParent(Pointer(img, c.ref))
    PROVE  Cardinality(Chain(ref)) <= maxSwiftContextDepth /\ ~NeverEnds(ref)
<1> DEFINE Z == Behind(c)
           ptr == Pointer(img, c.ref)
           T == Z \cup ({ptr} \cap Addrs)
           first == Pointer(img, ref)
<1>1. /\ Cardinality(Z) = Len(c.chain) /\ Len(c.chain) <= maxSwiftContextDepth
      /\ Z \subseteq Chain(ref) /\ first \in Z \cup {ptr}
      /\ (\A a \in Z : Up(a) \in Z \cup {ptr}) /\ (Z # {} => \E a \in Z : Up(a) = ptr)
  BY DEF OnWay
<1>2. ~HasParent(ptr)
  OBVIOUS
<1> HIDE DEF Z, ptr, first
<1>3. Z \subseteq Addrs
  BY <1>1, ChainParts
<1>4. Closed(T)
  BY <1>1, <1>2 DEF Closed
<1>5. Chain(ref) \subseteq T
  BY <1>1, <1>3, <1>4, ChainWithin DEF first
<1>6. ptr \notin Chain(ref)
  BY <1>2, ChainParts
<1>7. Chain(ref) = Z
  BY <1>1, <1>5, <1>6
<1>8. ~NeverEnds(ref)
  BY <1>1, <1>6, <1>7 DEF NeverEnds
<1> QED BY <1>1, <1>7, <1>8

(* It comes back to a descriptor it went through.                          *)
LEMMA EndsInACycle ==
    ASSUME img \in ContextImages, NEW ref, NEW c \in Calls, OnWay(c, ref), Pointer(img, c.ref) \in Behind(c)
    PROVE  Cardinality(Chain(ref)) <= maxSwiftContextDepth /\ NeverEnds(ref)
<1> DEFINE Z == Behind(c)
           ptr == Pointer(img, c.ref)
           first == Pointer(img, ref)
<1>1. /\ Cardinality(Z) = Len(c.chain) /\ Len(c.chain) <= maxSwiftContextDepth
      /\ Z \subseteq Chain(ref) /\ first \in Z \cup {ptr}
      /\ (\A a \in Z : Up(a) \in Z \cup {ptr}) /\ ptr \in Z
  BY DEF OnWay
<1> HIDE DEF Z, ptr, first
<1>2. Z \subseteq Addrs
  BY <1>1, ChainParts
<1>3. Closed(Z)
  BY <1>1 DEF Closed
<1>4. Chain(ref) \subseteq Z
  BY <1>1, <1>2, <1>3, ChainWithin DEF first
<1>5. Chain(ref) = Z
  BY <1>1, <1>4
<1>6. NeverEnds(ref)
  BY <1>1, <1>5 DEF NeverEnds
<1> QED BY <1>1, <1>5, <1>6

(* It goes on where as many descriptors are behind as there may be.        *)
LEMMA EndsTooDeep ==
    ASSUME img \in ContextImages, NEW ref, NEW c \in Calls, OnWay(c, ref), HasParent(Pointer(img, c.ref)),
           Pointer(img, c.ref) \notin Behind(c), Len(c.chain) >= maxSwiftContextDepth
    PROVE  Cardinality(Chain(ref)) > maxSwiftContextDepth
<1> DEFINE Z == Behind(c)
           ptr == Pointer(img, c.ref)
           first == Pointer(img, ref)
           W == Z \cup {ptr}
           all == Chain(ref)
<1>1. /\ IsFiniteSet(Z) /\ Cardinality(Z) = Len(c.chain) /\ Len(c.chain) <= maxSwiftContextDepth
      /\ Z \subseteq all /\ first \in Z \cup {ptr} /\ (ptr \in Addrs => Reached(ref, ptr))
  BY DEF OnWay
<1>2. HasParent(ptr) /\ ptr \notin Z /\ ptr \in Addrs
  BY DEF HasParent
<1>3. Len(c.chain) \in Nat /\ Len(c.chain) >= maxSwiftContextDepth
  BY DEF Calls
<1>4. all \subseteq Addrs
  BY ChainParts
<1> HIDE DEF Z, ptr, first, all
<1>5. first \in Addrs
  BY <1>1, <1>2, <1>4
<1>6. ptr \in all
  BY <1>1, <1>2, <1>5, ChainHas DEF all, first
<1>7. IsFiniteSet(all)
  BY <1>4, AddressesAssumption, FS_Subset
<1>8. Cardinality(W) = Cardinality(Z) + 1
  BY <1>1, <1>2, FS_AddElement
<1> HIDE DEF W
<1>9. W \in SUBSET all
  BY <1>1, <1>6 DEF W
<1>10. Cardinality(W) <= Cardinality(all) /\ Cardinality(all) \in Nat
  BY <1>7, <1>9, FS_Subset, FS_CardinalityType
<1>11. Cardinality(all) > maxSwiftContextDepth
  BY <1>1, <1>3, <1>8, <1>10, DepthAssumption
<1> QED BY <1>11 DEF all

(* What the call itself answers there.                                     *)
Fine(r) == r.err \notin {"depth", "cycle"}

LEMMA FineAre ==
    /\ \A p, n, pos : Fine(Ok(p, n, pos))
    /\ \A names, ptr, pos : /\ Fine(Fallback(names, ptr, "slot", pos))
                            /\ Fine(Fallback(names, ptr, "seek", pos))
                            /\ Fine(Fallback(names, ptr, "read", pos))
    /\ \A d, p, pos : Fine(WithName(d, p, pos))
<1>1. \A p, n, pos : Fine(Ok(p, n, pos))
  BY DEF Fine, Ok
<1>2. \A e, pos : e \notin {"depth", "cycle"} => Fine(Err(e, pos))
  BY DEF Fine, Err
<1>3. \A pos : Fine(Err("slot", pos)) /\ Fine(Err("seek", pos)) /\ Fine(Err("read", pos)) /\ Fine(Err("name", pos))
  BY <1>2
<1>4. \A names, ptr, pos : /\ Fine(Fallback(names, ptr, "slot", pos))
                          /\ Fine(Fallback(names, ptr, "seek", pos))
                          /\ Fine(Fallback(names, ptr, "read", pos))
  BY <1>1, <1>3 DEF Fallback
<1>5. \A d, p, pos : Fine(WithName(d, p, pos))
  BY <1>1, <1>3 DEF WithName
<1> QED BY <1>1, <1>4, <1>5

LEMMA FineWithoutParent ==
    ASSUME img \in ContextImages, NEW c \in Calls, ~HasParent(Pointer(img, c.ref)), NEW u
    PROVE  ~Climbs(img, c) /\ Fine(Resolved(img, c, u))
<1> DEFINE ptr == Pointer(img, c.ref)
           d == img.desc[ptr]
           pos == AfterSlot(c.ref, c.from)
           x == Resolved(img, c, u)
<1>1. ptr \in Addrs \cup {Zero, Unreadable}
  BY PointerIs DEF Calls
<1>2. ptr \in Addrs => d.at \in {"unmapped", "short", "data"} /\ ptr # Zero /\ ptr # Unreadable
  BY ContextImagesAssumption, AddressesAssumption
<1>3. ~(ptr \in Addrs /\ d.at = "data" /\ d.parent # NoRef)
  BY DEF HasParent
<1>4. CASE ptr = Unreadable
  <2>1. x = Fallback(img.bind, c.ref, "slot", pos)
    BY <1>4 DEF Resolved
  <2> HIDE DEF x, pos
  <2>2. Fine(x)
    BY <2>1, FineAre
  <2> QED BY <1>4, <2>2 DEF Climbs, x
<1>5. CASE ptr # Unreadable /\ ptr = Zero
  <2>1. x = Ok(<<>>, <<>>, pos)
    BY <1>5 DEF Resolved
  <2> HIDE DEF x, pos
  <2>2. Fine(x)
    BY <2>1, FineAre
  <2> QED BY <1>5, <2>2 DEF Climbs, x
<1>6. CASE ptr \in Addrs /\ d.at = "unmapped"
  <2>1. x = Fallback(img.bind \cup img.sym, ptr, "seek", pos)
    BY <1>2, <1>6 DEF Resolved
  <2> HIDE DEF x, pos
  <2>2. Fine(x)
    BY <2>1, FineAre
  <2> QED BY <1>6, <2>2 DEF Climbs, x
<1>7. CASE ptr \in Addrs /\ d.at = "short"
  <2>1. x = Fallback(img.bind, ptr, "read", Part(ptr))
    BY <1>2, <1>7 DEF Resolved
  <2> HIDE DEF x, pos
  <2>2. Fine(x)
    BY <2>1, FineAre
  <2> QED BY <1>7, <2>2 DEF Climbs, x
<1>8. CASE ptr \in Addrs /\ d.at = "data"
  <2>1. d.parent = NoRef
    BY <1>3, <1>8
  <2>2. x = WithName(d, <<>>, AtEnd(ptr))
    BY <1>2, <1>8, <2>1 DEF Resolved
  <2> HIDE DEF x, pos
  <2>3. Fine(x)
    BY <2>2, FineAre
  <2> QED BY <2>1, <2>3 DEF Climbs, x
<1> HIDE DEF ptr, d
<1> QED BY <1>1, <1>2, <1>4, <1>5, <1>6, <1>7, <1>8

LEMMA RefusalOfAParent ==
    ASSUME img \in ContextImages, NEW c \in Calls, HasParent(Pointer(img, c.ref)), ~Climbs(img, c), NEW u
    PROVE  Resolved(img, c, u).err = IF Pointer(img, c.ref) \in Behind(c) THEN "cycle" ELSE "depth"
<1> DEFINE ptr == Pointer(img, c.ref)
           d == img.desc[ptr]
           x == Resolved(img, c, u)
<1>1. ptr # Zero /\ ptr # Unreadable /\ d.at = "data" /\ d.parent # NoRef
  BY AddressesAssumption DEF HasParent
<1>2. CASE ptr \in Behind(c)
  <2>1. x = Err("cycle", AtEnd(ptr))
    BY <1>1, <1>2 DEF Resolved, OwnAncestor, Behind
  <2>2. Err("cycle", AtEnd(ptr)).err = "cycle"
    BY ErrIs
  <2> QED BY <1>2, <2>1, <2>2
<1>3. CASE ptr \notin Behind(c)
  <2>1. x = Err("depth", AtEnd(ptr))
    BY <1>1, <1>3 DEF Resolved, OwnAncestor, Behind, Climbs
  <2>2. Err("depth", AtEnd(ptr)).err = "depth"
    BY ErrIs
  <2> QED BY <1>3, <2>1, <2>2
<1> QED BY <1>2, <1>3

LEMMA ExactIfSame ==
    ASSUME NEW ref, NEW r, NEW s, Exactly(s, ref), r.err = s.err \/ (Fine(r) /\ Fine(s))
    PROVE  Exactly(r, ref)
<1> DEFINE n == Cardinality(Chain(ref))
           deep == n > maxSwiftContextDepth
           round == n <= maxSwiftContextDepth /\ NeverEnds(ref)
<1>1. (s.err = "depth" <=> deep) /\ (s.err = "cycle" <=> round)
  BY DEF Exactly
<1> HIDE DEF deep, round
<1>2. CASE r.err = s.err
  <2>1. (r.err = "depth" <=> deep) /\ (r.err = "cycle" <=> round)
    BY <1>1, <1>2
  <2> QED BY <2>1 DEF Exactly, deep, round
<1>3. CASE Fine(r) /\ Fine(s)
  <2>1. (r.err = "depth" <=> deep) /\ (r.err = "cycle" <=> round)
    BY <1>1, <1>3 DEF Fine
  <2> QED BY <2>1 DEF Exactly, deep, round
<1> QED BY <1>2, <1>3

LEMMA ExactAtTheEnd ==
    ASSUME NEW ref, NEW r,
           \/ /\ Fine(r)
              /\ Cardinality(Chain(ref)) <= maxSwiftContextDepth /\ ~NeverEnds(ref)
           \/ /\ r.err = "cycle"
              /\ Cardinality(Chain(ref)) <= maxSwiftContextDepth /\ NeverEnds(ref)
           \/ /\ r.err = "depth"
              /\ Cardinality(Chain(ref)) > maxSwiftContextDepth
    PROVE  Exactly(r, ref)
<1> DEFINE n == Cardinality(Chain(ref))
<1>1. n \in Nat
  <2>1. Chain(ref) \subseteq Addrs
    BY ChainParts
  <2>2. IsFiniteSet(Chain(ref))
    BY <2>1, AddressesAssumption, FS_Subset
  <2> QED BY <2>2, FS_CardinalityType
<1>2. n > maxSwiftContextDepth <=> ~(n <= maxSwiftContextDepth)
  BY <1>1, DepthAssumption
<1>3. Fine(r) => r.err # "cycle" /\ r.err # "depth"
  BY DEF Fine
<1> HIDE DEF n
<1> QED BY <1>2, <1>3 DEF Exactly, n

LEMMA ExactAnswers ==
    ASSUME img \in ContextImages
    PROVE  LET R == getContextDescChain(img) IN
           \A c \in Calls : \A ref \in References : OnWay(c, ref) => Exactly(R[c], ref)
<1> DEFINE R == getContextDescChain(img)
           Holds(c) == \A ref \in References : OnWay(c, ref) => Exactly(R[c], ref)
           Good == {c \in Calls : Holds(c)}
<1>0. \A c \in Calls : R[c] = Resolved(img, c, R[ParentCall(img, c)])
  BY ChainIs
<1> HIDE DEF R
<1>1. ASSUME NEW c \in Calls, ~Climbs(img, c) PROVE c \in Good
  <2>1. ASSUME NEW ref \in References, OnWay(c, ref) PROVE Exactly(R[c], ref)
    <3> DEFINE u == R[ParentCall(img, c)]
               ptr == Pointer(img, c.ref)
               r == R[c]
    <3>1. r = Resolved(img, c, u)
      BY <1>0
    <3> HIDE DEF r, u
    <3>2. CASE ~HasParent(ptr)
      <4>1. Fine(r)
        BY <3>1, <3>2, FineWithoutParent
      <4>2. Cardinality(Chain(ref)) <= maxSwiftContextDepth /\ ~NeverEnds(ref)
        BY <2>1, <3>2, EndsWithoutParent
      <4>3. Exactly(r, ref)
        BY <4>1, <4>2, ExactAtTheEnd
      <4> QED BY <4>3 DEF r
    <3>3. CASE HasParent(ptr) /\ ptr \in Behind(c)
      <4>1. r.err = "cycle"
        <5>1. Resolved(img, c, u).err = IF ptr \in Behind(c) THEN "cycle" ELSE "depth"
          BY <1>1, <3>3, RefusalOfAParent
        <5> QED BY <3>1, <3>3, <5>1
      <4>2. Cardinality(Chain(ref)) <= maxSwiftContextDepth /\ NeverEnds(ref)
        BY <2>1, <3>3, EndsInACycle
      <4>3. Exactly(r, ref)
        BY <4>1, <4>2, ExactAtTheEnd
      <4> QED BY <4>3 DEF r
    <3>4. CASE HasParent(ptr) /\ ptr \notin Behind(c)
      <4>1. r.err = "depth"
        <5>1. Resolved(img, c, u).err = IF ptr \in Behind(c) THEN "cycle" ELSE "depth"
          BY <1>1, <3>4, RefusalOfAParent
        <5> QED BY <3>1, <3>4, <5>1
      <4>2. Len(c.chain) >= maxSwiftContextDepth
        <5>1. ptr # Zero /\ ptr # Unreadable /\ img.desc[ptr].at = "data" /\ img.desc[ptr].parent # NoRef
          BY <3>4, AddressesAssumption DEF HasParent
        <5> QED BY <1>1, <3>4, <5>1 DEF Climbs, OwnAncestor, TooDeep, Behind
      <4>3. Cardinality(Chain(ref)) > maxSwiftContextDepth
        BY <2>1, <3>4, <4>2, EndsTooDeep
      <4>4. Exactly(r, ref)
        BY <4>1, <4>3, ExactAtTheEnd
      <4> QED BY <4>4 DEF r
    <3> QED BY <3>2, <3>3, <3>4
  <2>2. Holds(c)
    BY <2>1
  <2> QED BY <2>2
<1>2. ASSUME NEW c \in Calls, Climbs(img, c), ParentCall(img, c) \in Good PROVE c \in Good
  <2>1. ASSUME NEW ref \in References, OnWay(c, ref) PROVE Exactly(R[c], ref)
    <3> DEFINE cu == ParentCall(img, c)
               u == R[cu]
               d == img.desc[Pointer(img, c.ref)]
               r == R[c]
    <3>1. r = Resolved(img, c, u)
      BY <1>0
    <3>2. OnWay(cu, ref)
      BY <1>2, <2>1, OnWayUp
    <3>3. Exactly(u, ref)
      BY <1>2, <3>2
    <3> HIDE DEF r, u, cu, d
    <3>4. r = IF u.err # "" THEN Err(u.err, u.pos) ELSE WithName(d, ParentPath(u), u.pos)
      <4>1. Resolved(img, c, u) = IF u.err # "" THEN Err(u.err, u.pos)
                                  ELSE WithName(d, ParentPath(u), u.pos)
        BY <1>2, ClimbsFromParent DEF d
      <4> QED BY <3>1, <4>1
    <3>5. r.err = u.err \/ (Fine(r) /\ Fine(u))
      <4>1. CASE u.err # ""
        <5>1. r = Err(u.err, u.pos)
          BY ONLY <3>4, <4>1
        <5>2. Err(u.err, u.pos).err = u.err
          BY ErrIs
        <5>3. r.err = u.err
          BY ONLY <5>1, <5>2, Zenon
        <5> QED BY <5>3
      <4>2. CASE u.err = ""
        <5>1. r = WithName(d, ParentPath(u), u.pos)
          BY ONLY <3>4, <4>2
        <5>2. Fine(r)
          BY <5>1, FineAre
        <5>3. Fine(u)
          BY <4>2 DEF Fine
        <5> QED BY <5>2, <5>3
      <4> QED BY <4>1, <4>2
    <3>6. Exactly(r, ref)
      BY <3>3, <3>5, ExactIfSame
    <3> QED BY <3>6 DEF r
  <2>2. Holds(c)
    BY <2>1
  <2> QED BY <2>2
<1> HIDE DEF Good
<1>3. Calls \subseteq Good
  BY <1>1, <1>2, CallInduction
<1> QED BY <1>3 DEF Good, R

-----------------------------------------------------------------------------
(* The cursor stays in one of its places, and the image is what it was.    *)
ContextInv == img \in ContextImages /\ scan \in Places

LEMMA InContext ==
    ContextSpec => []ContextInv
<1>1. ContextInit => ContextInv
  BY DEF ContextInit, ContextInv, Places
<1>2. ContextInv /\ [ContextNext]_contextVars => ContextInv'
  <2> SUFFICES ASSUME ContextInv, [ContextNext]_contextVars PROVE ContextInv'
    OBVIOUS
  <2>1. ASSUME NEW ref \in References, Lookup(ref) PROVE ContextInv'
    <3> DEFINE c == ACall(ref, scan, <<>>)
    <3>1. c \in Calls
      BY <2>1, NothingBehind DEF Calls, ACall, ContextInv
    <3>2. scan' = getContextDescChain(img)[c].pos /\ img' = img
      BY <2>1 DEF Lookup, getContextDescUncached
    <3> HIDE DEF c
    <3>3. scan' \in Places
      BY <3>1, <3>2, PlacesKept DEF ContextInv
    <3> QED BY <3>2, <3>3 DEF ContextInv
  <2>2. CASE UNCHANGED contextVars
    BY <2>2 DEF ContextInv, contextVars
  <2> QED BY <2>1, <2>2 DEF ContextNext
<1> QED BY <1>1, <1>2, PTL DEF ContextSpec

(* getContextDescChain refuses a chain of parents exactly when it is too   *)
(* deep or never ends; a context below its parents has their path; and the *)
(* cursor a lookup started with changes neither its answer nor its end,    *)
(* as swift_ctxmemo.go relies on: for every image, whatever it links.      *)
THEOREM ChainsOfParents ==
    ContextSpec => []ChainsAreExact
<1>1. ContextInv => ChainsAreExact
  <2> SUFFICES ASSUME ContextInv PROVE ChainsAreExact
    OBVIOUS
  <2>0. img \in ContextImages /\ scan \in Places /\ Starts \subseteq Places
    BY DEF ContextInv, Places
  <2>1. RefusalsAreExact
    <3>1. ASSUME NEW ref \in References PROVE Exactly(LookupFrom(ref, scan), ref)
      <4> DEFINE c == ACall(ref, scan, <<>>)
      <4>1. c \in Calls
        BY <2>0, NothingBehind DEF Calls, ACall
      <4>2. OnWay(c, ref)
        BY <2>0, OnWayAtFirst
      <4>3. LookupFrom(ref, scan) = getContextDescChain(img)[c]
        BY DEF LookupFrom, getContextDescUncached
      <4> HIDE DEF c
      <4> QED BY <2>0, <4>1, <4>2, <4>3, ExactAnswers
    <3> QED BY <3>1 DEF RefusalsAreExact, Exactly
  <2>2. ParentPathIsTheParents
    <3>1. ASSUME NEW a \in Addrs, HasParent(a), LookupFrom(a, scan).err = ""
          PROVE  LET r == LookupFrom(a, scan)
                     p == LookupFrom(img.desc[a].parent, scan)
                 IN  p.err = "" /\ r.parent = p.parent \o p.name
      BY <2>0, <3>1, PathOfTheParent DEF LookupFrom, HasParent
    <3> QED BY <3>1 DEF ParentPathIsTheParents
  <2>3. EndIndependentOfStart
    <3>1. ASSUME NEW ref \in References, NEW p \in Starts \cup {scan}, NEW q \in Starts \cup {scan}
          PROVE  LET x == LookupFrom(ref, p)
                     y == LookupFrom(ref, q)
                 IN  Result(x) = Result(y) /\ (x.pos = y.pos \/ (x.pos = p /\ y.pos = q))
      BY <2>0, AnswersAlike DEF LookupFrom
    <3> QED BY <3>1 DEF EndIndependentOfStart
  <2> QED BY <2>1, <2>2, <2>3 DEF ChainsAreExact
<1> QED BY <1>1, InContext, PTL
=============================================================================
