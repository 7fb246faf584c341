----------------------------- MODULE MCSymIndex -----------------------------
(* Small instances of SymIndex for TLC. *)
EXTENDS SymIndex, TLC

MCNames == {"a", "A", "b"}
MCFoldKey == [n \in MCNames |-> IF n = "A" THEN "a" ELSE n]

Sym(n, v) == [name |-> n, value |-> v]

CONSTANTS v1, v2, v3

MCValues == {v1, v2, v3}

MCTables == { <<Sym("a", v1), Sym("b", v2)>>, <<Sym("A", v1)>> }

(* One classic trie, and a modern one that repeats one of its names. *)
MCClassic == "info" :> <<Sym("b", v3)>>
MCModern == "trie" :> <<Sym("a", v3), Sym("b", v1)>> @@ "broken" :> Failed

Symm == Permutations(ExpArrays) \cup Permutations(Readers)
=============================================================================
