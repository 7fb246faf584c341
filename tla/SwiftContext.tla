---------------------------- MODULE SwiftContext ----------------------------
(***************************************************************************)
(* getContextDescChain (swift.go): resolving a Swift context descriptor    *)
(* with its chain of parents, through a cursor that the lookup moves.      *)
(*                                                                         *)
(* An image says what the file holds at each address.  A reference names a *)
(* descriptor directly, or indirectly through a pointer slot (bit 0 of the *)
(* address set).  A dotted parent path is the sequence of its names.       *)
(***************************************************************************)
EXTENDS Naturals, Sequences, FiniteSets, Functions

CONSTANTS
    Addrs,                  \* descriptor addresses
    PointerSlots,           \* pointer slots
    ContextImages,          \* the images lookups run on
    Starts,                 \* positions a cursor can have before any lookup
    maxSwiftContextDepth,
    Zero, Unreadable,       \* contents of a slot other than an address
    NoRef, NoName, BadName  \* no parent, no name, an unreadable name

References == Addrs \cup PointerSlots

ASSUME AddressesAssumption ==
    IsFiniteSet(Addrs) /\ Addrs \cap PointerSlots = {} /\ {Zero, Unreadable} \cap Addrs = {}
ASSUME DepthAssumption == maxSwiftContextDepth \in Nat
ASSUME ContextImagesAssumption ==
    \A im \in ContextImages :
        /\ \A s \in PointerSlots : im.slot[s] \in Addrs \cup {Zero, Unreadable}
        /\ \A a \in Addrs : /\ im.desc[a].at \in {"unmapped", "short", "data"}
                          /\ im.desc[a].parent \in References \cup {NoRef}

VARIABLES
    img,    \* [desc, slot, bind, sym]: the file
    scan    \* the position of the calling method's reader

contextVars == <<img, scan>>

(* Where a cursor can be: where it was, behind a descriptor or inside one. *)
AtEnd(ptr) == <<"end", ptr>>
Part(ptr) == <<"part", ptr>>
Places == Starts \cup {AtEnd(ptr) : ptr \in Addrs} \cup {Part(ptr) : ptr \in Addrs}

-----------------------------------------------------------------------------
Ok(parent, name, pos) == [err |-> "", parent |-> parent, name |-> name, pos |-> pos]

Err(e, pos) == [err |-> e, parent |-> <<>>, name |-> <<>>, pos |-> pos]

Pointer(im, ref) == IF ref \in PointerSlots THEN im.slot[ref] ELSE ref

(* GetPointerAtAddress reads by address; no cursor moves. *)
AfterSlot(ref, pos) == pos

(* Mutant: a descriptor is taken for its own ancestor only if it was the   *)
(* child that asked.                                                       *)
OwnParent(chain, ptr) == chain # <<>> /\ chain[Len(chain)] = ptr

OwnAncestor(chain, ptr) == ptr \in Range(chain)

TooDeep(chain) == Len(chain) >= maxSwiftContextDepth

(* parent.Parent "." parent.Name, with either possibly empty. *)
ParentPath(p) == p.parent \o p.name

(* The last step: the descriptor's own name, read without the cursor. *)
WithName(d, parent, pos) ==
    IF d.name = NoName THEN Ok(parent, <<>>, pos)
    ELSE IF d.name = BadName THEN Err("name", pos)
    ELSE Ok(parent, <<d.name>>, pos)

(* The seek or the read failed: a bind or (after a failed seek) a symbol   *)
(* at the address may still give the name.                                 *)
Fallback(names, ptr, e, pos) ==
    IF ptr \in names THEN Ok(<<>>, <<ptr>>, pos) ELSE Err(e, pos)

(* A call, with the descriptors that led to it, and the one for the parent.*)
ACall(ref, from, chain) == [ref |-> ref, from |-> from, chain |-> chain]
Calls == [ref: References, from: Places, chain: Seq(Addrs)]
ParentCall(im, c) ==
    LET ptr == Pointer(im, c.ref)
    IN  ACall(im.desc[ptr].parent, AtEnd(ptr), Append(c.chain, ptr))

(* What a call returns; up is what the one for the parent does, if made.   *)
Resolved(im, c, up) ==
    LET ptr == Pointer(im, c.ref)
        pos == AfterSlot(c.ref, c.from)
        d   == im.desc[ptr]
    IN  IF ptr = Unreadable THEN Fallback(im.bind, c.ref, "slot", pos)
        ELSE IF ptr = Zero THEN Ok(<<>>, <<>>, pos)
        ELSE IF d.at = "unmapped" THEN Fallback(im.bind \cup im.sym, ptr, "seek", pos)
        ELSE IF d.at = "short" THEN Fallback(im.bind, ptr, "read", Part(ptr))
        ELSE IF d.parent = NoRef THEN WithName(d, <<>>, AtEnd(ptr))
        ELSE IF OwnAncestor(c.chain, ptr) THEN Err("cycle", AtEnd(ptr))
        ELSE IF TooDeep(c.chain) THEN Err("depth", AtEnd(ptr))
        ELSE IF up.err # "" THEN Err(up.err, up.pos)
        ELSE WithName(d, ParentPath(up), up.pos)

getContextDescChain(im) ==
    LET resolve[c \in Calls] == Resolved(im, c, resolve[ParentCall(im, c)]) IN resolve

getContextDescUncached(im, ref, pos) == getContextDescChain(im)[ACall(ref, pos, <<>>)]

-----------------------------------------------------------------------------
ContextInit ==
    /\ img \in ContextImages
    /\ scan \in Starts

(* A parser resolves one descriptor after the other with its cursor. *)
Lookup(ref) ==
    /\ scan' = getContextDescUncached(img, ref, scan).pos
    /\ UNCHANGED img

ContextNext == \E ref \in References : Lookup(ref)

ContextSpec == ContextInit /\ [][ContextNext]_contextVars

-----------------------------------------------------------------------------
(* Properties. *)

HasParent(a) == a \in Addrs /\ img.desc[a].at = "data" /\ img.desc[a].parent # NoRef

Up(a) == Pointer(img, img.desc[a].parent)

Closed(S) == \A a \in S : HasParent(a) /\ Up(a) \in Addrs => Up(a) \in S

(* The descriptors with a parent that the chain starting at ref goes       *)
(* through: what every closed set that holds its start has in common.      *)
Chain(ref) ==
    {a \in Addrs : /\ HasParent(a) /\ Pointer(img, ref) \in Addrs
                   /\ \A S \in SUBSET Addrs :
                         Closed(S) /\ Pointer(img, ref) \in S => a \in S}

NeverEnds(ref) == Chain(ref) # {} /\ \A a \in Chain(ref) : Up(a) \in Chain(ref)

LookupFrom(ref, pos) == getContextDescUncached(img, ref, pos)

Result(r) == [err |-> r.err, parent |-> r.parent, name |-> r.name]

(* swift_ctxmemo.go: "The position a lookup ends at does not depend on     *)
(* where it started": a lookup leaves every cursor alone or takes all of   *)
(* them to the same place, and its answer is the same from everywhere.     *)
(* This is what makes replaying an entry on another cursor sound.          *)
EndIndependentOfStart ==
    \A ref \in References : \A p, q \in Starts \cup {scan} :
        LET x == LookupFrom(ref, p)
            y == LookupFrom(ref, q)
        IN  Result(x) = Result(y) /\ (x.pos = y.pos \/ (x.pos = p /\ y.pos = q))

(* The parent guard of getContextDescChain refuses exactly the chains that *)
(* never end and the ones with more than maxSwiftContextDepth parents.     *)
RefusalsAreExact ==
    \A ref \in References :
        LET e == LookupFrom(ref, scan).err
            n == Cardinality(Chain(ref))
        IN  /\ e = "depth" <=> n > maxSwiftContextDepth
            /\ e = "cycle" <=> n <= maxSwiftContextDepth /\ NeverEnds(ref)

(* A context found below its parents is found with exactly the path its    *)
(* parent has when it is looked up for itself.                             *)
ParentPathIsTheParents ==
    \A a \in Addrs :
        LET r == LookupFrom(a, scan)
            p == LookupFrom(img.desc[a].parent, scan)
        IN  HasParent(a) /\ r.err = "" => p.err = "" /\ r.parent = p.parent \o p.name

(* All three: the chains that are refused, the paths, and the cursor.      *)
ChainsAreExact == RefusalsAreExact /\ ParentPathIsTheParents /\ EndIndependentOfStart
=============================================================================
