--------------------------- MODULE MCFixupCaches ----------------------------
(* Small instances of FixupCaches. *)
EXTENDS FixupCaches

B(a, n) == [addr |-> a, name |-> n]
R(a, v) == [addr |-> a, value |-> v]

(* Three streams bind slot 1; a threaded stream and the rebase stream both *)
(* rebase slot 2, one of them to a target below the base address.          *)
Plain ==
    [ rebase |-> [binds |-> <<>>, rebases |-> <<R(2, 1)>>],
      bind   |-> [binds |-> <<B(1, "x")>>, rebases |-> <<R(2, 11)>>],
      weak   |-> [binds |-> <<B(3, "w"), B(1, "y")>>, rebases |-> <<>>],
      lazy   |-> Absent ]

Broken == [Plain EXCEPT !["weak"] = Malformed]
Empty == [s \in Streams |-> Absent]

Img(info, s, ch, low) ==
    [dyldInfo |-> info, stream |-> s, chained |-> ch, lowest |-> low,
     mapped |-> {10, 11, 12}, base |-> 10]

CONSTANTS b1, b2, low1

MCImages ==
    { Img(TRUE, Plain, Nil, low1), Img(TRUE, Broken, Nil, low1),
      Img(TRUE, [Plain EXCEPT !["rebase"] = Absent], Nil, low1),
      Img(FALSE, Empty, "chains", low1), Img(FALSE, Empty, "chains", Unset),
      Img(TRUE, Plain, Malformed, low1), Img(FALSE, Empty, Nil, Unset) }

MCBases == {b1, b2, low1}
=============================================================================
