-------------------------------- MODULE Trie --------------------------------
(***************************************************************************)
(* The export trie (pkg/trie): ParseTrie lists every terminal node with    *)
(* its name, WalkTrie follows one symbol from the root and keeps watch for *)
(* chains of empty edges that lead back, with Brent's algorithm.           *)
(*                                                                         *)
(* A trie is a function from node offsets to what is found there: Broken,  *)
(* or [terminal, children], a child being [edge, to] with the label as a   *)
(* sequence of characters; Broken children are a node that the trie ends   *)
(* in.  An offset outside the function is past the end; 0 is the root.     *)
(***************************************************************************)
EXTENDS Integers, Sequences
LOCAL INSTANCE SequencesExt

CONSTANTS
    Tries,      \* the tries walks run on
    Symbols,    \* the symbols looked up
    Broken      \* what cannot be read: a node, or its count of children

VARIABLES
    trie, symbol,
    offset, strIndex,                       \* where the walk is
    cycleIndex, cycleAnchor, cycleSteps, cyclePower,
    verdict,    \* "walking", "found", "missing", "cycle" or "error"
    seen        \* history: the places <<offset, strIndex>> walked through

walk == <<offset, strIndex, cycleIndex, cycleAnchor, cycleSteps, cyclePower, verdict, seen>>
vars == <<trie, symbol, walk>>

-----------------------------------------------------------------------------
(* ParseTrie: the terminal nodes in order, each with its name.             *)
Refused == [ok |-> FALSE, nodes |-> <<>>]

RECURSIVE parseTrie(_, _, _, _)
parseTrie(t, pos, name, ancestors) ==
    IF pos \notin DOMAIN t \/ pos \in ancestors THEN Refused
    ELSE IF t[pos] = Broken \/ t[pos].children = Broken THEN Refused
    ELSE LET own  == IF t[pos].terminal THEN <<[at |-> pos, name |-> name]>> ELSE <<>>
             kids == [i \in DOMAIN t[pos].children |->
                        parseTrie(t, t[pos].children[i].to, name \o t[pos].children[i].edge,
                                  ancestors \cup {pos})]
         IN  IF \A i \in DOMAIN kids : kids[i].ok
             THEN [ok |-> TRUE,
                   nodes |-> own \o FlattenSeq([i \in DOMAIN kids |-> kids[i].nodes])]
             ELSE Refused

ParseTrie(t) == parseTrie(t, 0, <<>>, {})

-----------------------------------------------------------------------------
(* WalkTrie.                                                               *)
Init ==
    /\ trie \in Tries /\ symbol \in Symbols
    /\ offset = 0 /\ strIndex = 0
    /\ cycleIndex = -1 /\ cycleAnchor = 0 /\ cycleSteps = 0 /\ cyclePower = 0
    /\ verdict = "walking" /\ seen = {}

(* The part of the symbol that is still to be matched.                     *)
Rest == SubSeq(symbol, strIndex + 1, Len(symbol))

(* Comparing an edge with it: the edge matches, it runs past the end of    *)
(* the symbol, or it differs.                                              *)
Matches(edge) == IsPrefix(edge, Rest)
Overruns(edge) == IsPrefix(Rest, edge) /\ ~Matches(edge)

(* The first child whose edge does not differ, 0 if there is none.         *)
FirstChild(children) ==
    LET near == {i \in DOMAIN children : Matches(children[i].edge) \/ Overruns(children[i].edge)}
    IN  IF near = {} THEN 0 ELSE CHOOSE i \in near : \A j \in near : i <= j

(* Mutant: the anchor stays where the run of empty edges began.            *)
KeepAnchor ==
    /\ cycleSteps' = cycleSteps /\ UNCHANGED <<cycleIndex, cycleAnchor, cyclePower>>

(* The anchor moves here after 1, 2, 4, ... rounds.                        *)
MoveAnchor ==
    /\ cycleIndex' = cycleIndex
    /\ IF cycleSteps + 1 = cyclePower
       THEN cycleAnchor' = offset /\ cycleSteps' = 0 /\ cyclePower' = cyclePower * 2
       ELSE cycleSteps' = cycleSteps + 1 /\ UNCHANGED <<cycleAnchor, cyclePower>>

SameIndex == cycleIndex = strIndex

Brent ==
    \/ SameIndex /\ MoveAnchor
    \/ /\ ~SameIndex
       /\ cycleIndex' = strIndex /\ cycleAnchor' = offset /\ cycleSteps' = 0 /\ cyclePower' = 1

Stop(v) == verdict' = v /\ UNCHANGED <<offset, strIndex>>

NodeReads == offset \in DOMAIN trie /\ trie[offset] # Broken

(* Mutant: the first terminal node on the way ends the walk.               *)
AtTerminal == trie[offset].terminal

AtSymbol == strIndex = Len(symbol) /\ trie[offset].terminal

(* A child at offset 0 ends the walk as no child does, and so does the end *)
(* of the trie where the children should be.                               *)
Descend(children, i) ==
    \/ i = 0 /\ Stop("missing")
    \/ i # 0 /\ Overruns(children[i].edge) /\ Stop("missing")
    \/ /\ i # 0 /\ Matches(children[i].edge)
       /\ \/ children[i].to = 0 /\ verdict' = "missing" /\ offset' = offset
          \/ children[i].to # 0 /\ verdict' = "walking" /\ offset' = children[i].to
       /\ strIndex' = strIndex + Len(children[i].edge)

(* One round of the loop. *)
Round ==
    /\ verdict = "walking"
    /\ \/ /\ SameIndex /\ offset = cycleAnchor
          /\ Stop("cycle")
          /\ UNCHANGED <<cycleIndex, cycleAnchor, cycleSteps, cyclePower, seen>>
       \/ /\ ~(SameIndex /\ offset = cycleAnchor)
          /\ seen' = seen \cup {<<offset, strIndex>>}
          /\ Brent
          /\ \/ ~NodeReads /\ Stop("error")
             \/ /\ NodeReads
                /\ \/ AtSymbol /\ Stop("found")
                   \/ /\ ~AtSymbol
                      /\ LET c == trie[offset].children
                         IN  \/ c = Broken /\ Stop("missing")
                             \/ c # Broken /\ Descend(c, FirstChild(c))
    /\ UNCHANGED <<trie, symbol>>

Next == Round

Spec == Init /\ [][Next]_vars /\ WF_vars(Next)

-----------------------------------------------------------------------------
(* Sibling edges of a linker's trie are not empty and start differently.   *)
WellFormed(t) ==
    \A n \in DOMAIN t : (t[n] # Broken /\ t[n].children # Broken) =>
        \A i, j \in DOMAIN t[n].children :
            /\ t[n].children[i].edge # <<>>
            /\ i # j => t[n].children[i].edge[1] # t[n].children[j].edge[1]

(* In a well-formed trie that ParseTrie accepts, WalkTrie finds exactly    *)
(* the symbols ParseTrie lists, at the same nodes.                         *)
WalkFindsParsed ==
    LET p     == ParseTrie(trie)
        named == {i \in DOMAIN p.nodes : p.nodes[i].name = symbol}
    IN  WellFormed(trie) /\ p.ok /\ verdict # "walking" =>
            /\ verdict = "found" => \E i \in named : p.nodes[i].at = offset
            /\ verdict # "found" => named = {}

(* Only a walk that would never end is refused as a cycle: it has been     *)
(* where it is, with as much of the symbol matched.  A node that is its    *)
(* own child by a real edge is walked through.                             *)
CyclesAreReal ==
    verdict = "cycle" => <<offset, strIndex>> \in seen

(* Every walk ends, on every trie.                                         *)
WalkEnds == <>(verdict # "walking")
=============================================================================
