----------------------------- MODULE MCDyldInfo -----------------------------
(***************************************************************************)
(* What LC_DYLD_INFO points at, in four parts that never run together: the *)
(* opcode machines on streams of up to two fixups, their repeat loops on   *)
(* streams of up to three, walks of the export trie, and the integers both *)
(* are written in.                                                         *)
(***************************************************************************)
EXTENDS DyldOpcodes, LEB128, TLC

CONSTANTS charA, charB, Broken

VARIABLES
    part,           \* "opcodes", "loops", "trie" or "integers"
    trie, symbol, offset, strIndex, cycleIndex, cycleAnchor, cycleSteps, cyclePower,
    verdict, seen,  \* of Trie
    word, bytes     \* a word to encode, bytes to decode

walkVars == <<trie, symbol, offset, strIndex, cycleIndex, cycleAnchor, cycleSteps,
              cyclePower, verdict, seen>>
all == <<part, vars, walkVars, word, bytes>>

-----------------------------------------------------------------------------
(* One segment, whose end wraps, with less in the file than in memory; the *)
(* words of a chain of a rebase and a bind, and of one that leaves it.     *)
MCSegments == <<[addr |-> 4, memsz |-> 6, filesz |-> 4, offset |-> 0]>>
MCWord ==
    0 :> [next |-> 1, ordinal |-> -1] @@ 1 :> [next |-> 1, ordinal |-> 0]
        @@ 2 :> [next |-> 0, ordinal |-> 0]

(* Tries of three nodes: a root with up to two children, two nodes with at *)
(* most one, edges of up to two characters, children at every node, at the *)
(* root and past the end.                                                  *)
Child(edges, to) == [edge: edges, to: to]
Leaf(t) == [terminal |-> t, children |-> <<>>]
One(children) == {[terminal |-> t, children |-> <<c>>] : t \in BOOLEAN, c \in children}
Two(first, second) ==
    {[terminal |-> FALSE, children |-> <<c, d>>] : c \in first, d \in second}

Roots ==
    {Leaf(TRUE)} \cup One(Child({<<>>, <<charA>>, <<charA, charB>>}, {0, 1}))
        \cup Two(Child({<<charA>>, <<>>}, {1}), Child({<<charB>>, <<charA, charB>>}, {2, 3}))
Cut == [terminal |-> TRUE, children |-> Broken]
Inner == {Leaf(TRUE), Leaf(FALSE), Cut} \cup One(Child({<<>>, <<charA>>, <<charB>>}, {1, 2}))

MCTries ==
    {(0 :> x @@ 1 :> y @@ 2 :> z) : x \in Roots, y \in Inner, z \in Inner \cup {Broken}}
MCSymbols == {<<>>, <<charA>>, <<charA, charB>>, <<charB, charA>>}

T == INSTANCE Trie WITH Tries <- MCTries, Symbols <- MCSymbols

Strings == UNION {[1 .. n -> Bytes] : n \in 0 .. 4}

-----------------------------------------------------------------------------
NoWalk ==
    /\ trie = <<>> /\ symbol = <<>> /\ offset = 0 /\ strIndex = 0
    /\ cycleIndex = -1 /\ cycleAnchor = 0 /\ cycleSteps = 0 /\ cyclePower = 0
    /\ verdict = "idle" /\ seen = {}
NoIntegers == word = 0 /\ bytes = <<>>
NoOpcodes == Init /\ kind = "bind"

MCInit ==
    \/ part \in {"opcodes", "loops"} /\ Init /\ NoWalk /\ NoIntegers
    \/ part = "trie" /\ T!Init /\ NoOpcodes /\ NoIntegers
    \/ part = "integers" /\ word \in Words /\ bytes = <<>> /\ NoOpcodes /\ NoWalk
    \/ part = "integers" /\ word = 0 /\ bytes \in Strings /\ NoOpcodes /\ NoWalk

(* All opcodes, for up to two fixups, those a loop has still to add        *)
(* included, and two types in a bind stream, which only records them; and, *)
(* without dylibs and tables, for three, so that a loop may run three      *)
(* rounds.                                                                 *)
Wanted == Len(binds) + Len(rebases) + left
Opcode ==
    /\ part = "opcodes" /\ Next /\ Wanted' <= 2
    /\ kind # "rebase" => type' \in {PointerType, 2}
Loop ==
    /\ part = "loops" /\ Next
    /\ threaded' = "no" /\ ordinal' \in {0, WeakLookup} /\ type' = InitialType
OpcodeStep == (Opcode \/ Loop) /\ UNCHANGED <<part, walkVars, word, bytes>>
WalkRound == part = "trie" /\ T!Next /\ UNCHANGED <<part, vars, word, bytes>>

MCNext == OpcodeStep \/ WalkRound

(* The loop of WalkTrie keeps running until it returns.                    *)
MCSpec == MCInit /\ [][MCNext]_all /\ WF_all(WalkRound)

-----------------------------------------------------------------------------
(* WalkTrie finds exactly the symbols that ParseTrie lists, and refuses as *)
(* a cycle only a walk that would never end.                               *)
WalksAreExact == part = "trie" => T!WalkFindsParsed /\ T!CyclesAreReal

(* Every walk of a trie ends.                                              *)
WalkEnds == T!WalkEnds

(* Encoding and decoding a word, signed or not, gives the word, and        *)
(* ReadUleb128 gives the exact number or an error.                         *)
IntegersAreExact == part = "integers" => RoundTrips(word) /\ NothingIsLost(bytes)
=============================================================================
