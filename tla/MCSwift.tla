------------------------------ MODULE MCSwift -------------------------------
(***************************************************************************)
(* Constants for resolving Swift context descriptors.  Uncached lookups    *)
(* (SwiftContext) run on every image of three descriptors and a pointer    *)
(* slot.  The memo runs on the outcomes of those lookups for a few images: *)
(* a chain of two descriptors, a cycle, descriptors that only a bind       *)
(* names, and a file with a resolver of its own.                           *)
(***************************************************************************)
EXTENDS SwiftCtxMemo, SwiftContext, TLC

CONSTANTS a1, a2, a3, s1, p1

Desc ==
    [at: {"unmapped", "short"}, parent: {NoRef}, name: {NoName}]
        \cup [at: {"data"}, parent: {NoRef}, name: {NoName, BadName, "n"}]
        \cup [at: {"data"}, parent: References, name: {"m"}]

MCContextImages ==
    [desc: [Addrs -> Desc], slot: [PointerSlots -> Addrs \cup {Zero, Unreadable}],
     bind: {{}, References}, sym: {{}, Addrs}]

-----------------------------------------------------------------------------
D(at, parent, name) == [at |-> at, parent |-> parent, name |-> name]

MCFiles == {"chain", "cycle", "binds", "custom"}

Image(f) ==
    [ desc |-> a1 :> (CASE f = "binds" -> D("unmapped", NoRef, NoName)
                        [] OTHER -> D("data", a2, "child"))
            @@ a2 :> (CASE f = "binds" -> D("short", NoRef, NoName)
                        [] f = "cycle" -> D("data", a1, "loop")
                        [] OTHER -> D("data", NoRef, f)),
      slot |-> <<>>, bind |-> {a1, a2}, sym |-> {} ]

Told(r) == [err |-> r.err, parent |-> r.parent, name |-> r.name]

MCOutcome ==
    [f \in MCFiles |-> [ref \in {a1, a2} |->
        LET r == getContextDescUncached(Image(f), ref, p1)
        IN  [ok |-> r.err = "", ctx |-> Told(r), moved |-> r.pos # p1,
             end |-> r.pos]]]

MCContexts == {MCOutcome[f][r].ctx : f \in MCFiles, r \in {a1, a2}}
MCPositions == {p1} \cup {MCOutcome[f][r].end : f \in MCFiles, r \in {a1, a2}}
MCCustom == {"custom"}

(* An image on which nothing is looked up.                                 *)
Still == [desc |-> [a \in Addrs |-> D("unmapped", NoRef, NoName)],
          slot |-> [s \in PointerSlots |-> Zero], bind |-> {}, sym |-> {}]
=============================================================================
