---------------------------- MODULE SwiftCtxMemo ----------------------------
(***************************************************************************)
(* The memo of resolved Swift context descriptors (swift_ctxmemo.go).      *)
(*                                                                         *)
(* Goroutines run public Swift parsers on one File.  Most parsers open a   *)
(* scope, and scopes nest; GetSwiftTypeRefs and the ObjC parsers reach     *)
(* getContextDesc without one.  A critical section of swiftCtxMu is one    *)
(* action.  Everything a lookup depends on (bytes, symbols, fixups, bases, *)
(* caller-supplied resolvers) is one file state, which callers may change  *)
(* between parsing calls and never during one.                             *)
(*                                                                         *)
(* What an uncached lookup does is given by Outcome: its answer, and       *)
(* whether and where it takes the cursor.  That this is a function of the  *)
(* file and the reference alone is what module SwiftContext checks.        *)
(***************************************************************************)
EXTENDS Naturals, FiniteSets

CONSTANTS
    Goroutines,   \* calling parsers
    Scopes,       \* identities of swiftContextScope calls
    Refs,         \* descriptor references
    Positions,    \* cursor positions
    Files,        \* file states
    Outcome,      \* [Files -> [Refs -> [ok, ctx, moved, end]]]
    Contexts,     \* answers: contexts and errors
    Custom,       \* file states with a PointerResolver or VMAddrConverter
    Nothing

ASSUME GoroutinesAssumption == IsFiniteSet(Goroutines) /\ IsFiniteSet(Scopes)
ASSUME OutcomeAssumption ==
    Outcome \in [Files -> [Refs -> [ok: BOOLEAN, ctx: Contexts, moved: BOOLEAN, end: Positions]]]
ASSUME CustomAssumption == Custom \subseteq Files
ASSUME NilAssumption == Nothing \notin Refs

VARIABLES
    fileState, \* the state of the File
    depth,    \* f.swiftCtx.depth
    entries,  \* f.swiftCtx.entries: a function on the remembered references
    open,     \* the scopes each goroutine has open
    busy,     \* goroutines inside a public parser
    pc, arg, start, cursor, remember, ctx  \* the getContextDesc call of each

memo == <<depth, entries>>
calling == <<pc, arg, start, cursor, remember, ctx>>
memoVars == <<fileState, memo, open, busy, calling>>

-----------------------------------------------------------------------------
swiftContextMemoUsable == fileState \notin Custom

(* Where an uncached lookup of ref leaves a cursor that is at p. *)
EndOf(ref, p) == IF Outcome[fileState][ref].moved THEN Outcome[fileState][ref].end ELSE p

NoEntries == [r \in {} |-> Nothing]

(* Mutant: a lookup that left the cursor alone is remembered too. *)
WorthAnything(c) == Outcome[fileState][arg[c]].ok

(* A success that took the cursor somewhere. *)
WorthRemembering(c) == Outcome[fileState][arg[c]].ok /\ EndOf(arg[c], start[c]) # start[c]

MemoInit ==
    /\ fileState \in Files
    /\ depth = 0
    /\ entries = NoEntries
    /\ open = [c \in Goroutines |-> {}]
    /\ busy = {}
    /\ pc = [c \in Goroutines |-> "idle"]
    /\ arg = [c \in Goroutines |-> Nothing]
    /\ start = [c \in Goroutines |-> Nothing]
    /\ cursor = [c \in Goroutines |-> Nothing]
    /\ remember = [c \in Goroutines |-> FALSE]
    /\ ctx = [c \in Goroutines |-> Nothing]

-----------------------------------------------------------------------------
(* Public parsers. *)

EnterParser(c) ==
    /\ c \notin busy
    /\ busy' = busy \cup {c}
    /\ UNCHANGED <<fileState, memo, open, calling>>

LeaveParser(c) ==
    /\ c \in busy /\ pc[c] = "idle" /\ open[c] = {}
    /\ busy' = busy \ {c}
    /\ UNCHANGED <<fileState, memo, open, calling>>

OpenScope(c, s) ==
    /\ c \in busy /\ pc[c] = "idle"
    /\ \A d \in Goroutines : s \notin open[d]
    /\ depth' = depth + 1
    /\ open' = [open EXCEPT ![c] = @ \cup {s}]
    /\ UNCHANGED <<fileState, entries, busy, calling>>

CloseScope(c, s) ==
    /\ pc[c] = "idle" /\ s \in open[c]
    /\ depth' = depth - 1
    /\ entries' = IF depth - 1 = 0 THEN NoEntries ELSE entries
    /\ open' = [open EXCEPT ![c] = @ \ {s}]
    /\ UNCHANGED <<fileState, busy, calling>>

-----------------------------------------------------------------------------
(* getContextDesc *)

Finish(c, v, p) ==
    /\ ctx' = [ctx EXCEPT ![c] = v]
    /\ cursor' = [cursor EXCEPT ![c] = p]
    /\ pc' = [pc EXCEPT ![c] = "done"]

(* The look into the memo; with caller-supplied code there is none. *)
BeginLookup(c, ref, p) ==
    /\ c \in busy /\ pc[c] = "idle"
    /\ arg' = [arg EXCEPT ![c] = ref]
    /\ start' = [start EXCEPT ![c] = p]
    /\ LET active == swiftContextMemoUsable /\ depth > 0
           hit == active /\ ref \in DOMAIN entries
       IN  /\ remember' = [remember EXCEPT ![c] = active /\ ~hit]
           /\ \/ hit /\ Finish(c, entries[ref].ctx, entries[ref].pos)
              \/ /\ ~hit
                 /\ cursor' = [cursor EXCEPT ![c] = p]
                 /\ pc' = [pc EXCEPT ![c] = "uncached"]
                 /\ UNCHANGED ctx
    /\ UNCHANGED <<fileState, memo, open, busy>>

(* getContextDescUncached; a result that may be remembered is stored next. *)
Resolve(c) ==
    /\ pc[c] = "uncached"
    /\ ctx' = [ctx EXCEPT ![c] = Outcome[fileState][arg[c]].ctx]
    /\ cursor' = [cursor EXCEPT ![c] = EndOf(arg[c], start[c])]
    /\ pc' = [pc EXCEPT ![c] = IF remember[c] /\ WorthRemembering(c) THEN "store" ELSE "done"]
    /\ UNCHANGED <<fileState, memo, open, busy, arg, start, remember>>

Remembered(c) ==
    [r \in DOMAIN entries \cup {arg[c]} |->
        IF r = arg[c] THEN [ctx |-> ctx[c], pos |-> cursor[c]] ELSE entries[r]]

(* Mutant: the memo was active when the call began. *)
StoreLate(c) ==
    /\ pc[c] = "store"
    /\ entries' = Remembered(c)
    /\ pc' = [pc EXCEPT ![c] = "done"]
    /\ UNCHANGED <<fileState, depth, open, busy, arg, start, cursor, remember, ctx>>

(* Meanwhile the last scope may have closed. *)
Store(c) ==
    /\ pc[c] = "store"
    /\ entries' = IF depth > 0 THEN Remembered(c) ELSE entries
    /\ pc' = [pc EXCEPT ![c] = "done"]
    /\ UNCHANGED <<fileState, depth, open, busy, arg, start, cursor, remember, ctx>>

Return(c) ==
    /\ pc[c] = "done"
    /\ pc' = [pc EXCEPT ![c] = "idle"]
    /\ arg' = [arg EXCEPT ![c] = Nothing]
    /\ start' = [start EXCEPT ![c] = Nothing]
    /\ cursor' = [cursor EXCEPT ![c] = Nothing]
    /\ remember' = [remember EXCEPT ![c] = FALSE]
    /\ ctx' = [ctx EXCEPT ![c] = Nothing]
    /\ UNCHANGED <<fileState, memo, open, busy>>

-----------------------------------------------------------------------------
(* Between parsing calls the caller may change anything: the bytes, the    *)
(* symbols, the bases, the resolver.                                       *)
ModifyFile ==
    /\ busy = {}
    /\ fileState' \in Files
    /\ UNCHANGED <<memo, open, busy, calling>>

Step(c) ==
    \/ EnterParser(c) \/ LeaveParser(c)
    \/ \E s \in Scopes : OpenScope(c, s) \/ CloseScope(c, s)
    \/ \E ref \in Refs, p \in Positions : BeginLookup(c, ref, p)
    \/ Resolve(c) \/ Store(c) \/ Return(c)

MemoNext == (\E c \in Goroutines : Step(c)) \/ ModifyFile

MemoSpec == MemoInit /\ [][MemoNext]_memoVars

-----------------------------------------------------------------------------
(* Properties. *)

OpenScopes == UNION {open[c] : c \in Goroutines}

(* depth counts the open scopes. *)
TypeOK ==
    /\ fileState \in Files
    /\ depth = Cardinality(OpenScopes)
    /\ DOMAIN entries \subseteq Refs
    /\ open \in [Goroutines -> SUBSET Scopes]
    /\ busy \subseteq Goroutines
    /\ pc \in [Goroutines -> {"idle", "uncached", "store", "done"}]
    /\ arg \in [Goroutines -> Refs \cup {Nothing}]
    /\ start \in [Goroutines -> Positions \cup {Nothing}]
    /\ remember \in [Goroutines -> BOOLEAN]

(* "getContextDescUncached stays the definition of the result.  The memo   *)
(* only replays it": every call gives the answer, and leaves the cursor at *)
(* the position, of an uncached lookup on the present file.                *)
ReplayIsIndistinguishable ==
    \A c \in Goroutines :
        pc[c] = "done" => /\ ctx[c] = Outcome[fileState][arg[c]].ctx
                          /\ cursor[c] = EndOf(arg[c], start[c])

(* "It lives only while a parsing call is open ... until the last of them  *)
(* closes its scope": without an open scope nothing is remembered, even if *)
(* a scope-less call that saw one open is still to store its result.       *)
DroppedWithLastScope == OpenScopes = {} => entries = NoEntries

(* No entry outlives the file state it was resolved on. *)
NothingRememberedAcrossChanges == [][fileState' # fileState => entries' = NoEntries]_memoVars
=============================================================================
