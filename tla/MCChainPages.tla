---------------------------- MODULE MCChainPages ----------------------------
(* Constants for ChainPages: a file for the interleavings, all files of a  *)
(* small size for the walks.                                               *)
EXTENDS ChainPages, TLC

CONSTANTS p1, p2
MCProcs == {p1, p2}
Readers == Permutations(MCProcs)

W(n, k) == [next |-> n, is |-> k]
Seg(f, ps, pc, so, pss, css) ==
    [ format |-> f, pageSize |-> ps, pageCount |-> pc, segOffset |-> so,
      pageStarts |-> pss, chainStarts |-> css ]
E(o, l) == [at |-> o, last |-> l]

(* The file of the interleavings: links one and two words apart, one of    *)
(* them a bind with no import, and the file ends inside the second page.   *)
Mixed == [k \in 0 .. MaxU64 |->
            CASE k = 1 -> W(2, "rebase")
              [] k = 2 -> W(1, "badbind")
              [] OTHER -> W(IF k % 3 = 2 THEN 0 ELSE 1, "rebase")]
MCImages == {[raw |-> Mixed, size |-> 5]}

(* The edits change the page start, the chain starts, the format, the page *)
(* size and count and the segment offset, one at a time.                   *)
Base == Seg("ptr32", 3, 2, 0, <<Single(0), NoStart>>, <<E(0, FALSE), E(2, TRUE)>>)
MCStarts ==
    { <<Base>>,
      <<[Base EXCEPT !.pageStarts[1] = Single(1)]>>,
      <<[Base EXCEPT !.pageStarts[1] = Multi(2)]>>,
      <<[Base EXCEPT !.pageStarts[1] = Multi(2), !.chainStarts[1].at = 1]>>,
      <<[Base EXCEPT !.format = "ptr64"]>>,
      <<[Base EXCEPT !.pageSize = 2]>>,
      <<[Base EXCEPT !.pageCount = 1]>>,
      <<[Base EXCEPT !.segOffset = 1]>>,
      <<[Base EXCEPT !.pageStarts[1] = Multi(3), !.chainStarts[2].last = FALSE]>> }
MCOffsets == {2, 4}

(* All files of six words with next up to two (the last word's zero or     *)
(* two), of which one may be a bad bind or the last one missing.           *)
LinkLengths == {n \in [0 .. 5 -> 0 .. 2] : n[5] # 1}
AllImages ==
    { [raw |-> [k \in 0 .. MaxU64 |-> W(IF k < 6 THEN n[k] ELSE 0,
                                        IF k = b THEN "badbind" ELSE "rebase")],
       size |-> IF b = 8 THEN 5 ELSE 6] : n \in LinkLengths, b \in {1, 3, 8, 9} }

AllStarts ==
    { <<Seg("ptr32", 3, 2, 0, <<Single(0), Single(2)>>, <<>>)>>,
      <<Seg("ptr32", 3, 2, 0, <<Multi(2), NoStart>>, <<E(0, FALSE), E(0, FALSE), E(1, TRUE)>>)>>,
      <<Seg("ptr32", 3, 2, 0, <<Multi(3), Multi(2)>>, <<E(1, FALSE), E(2, FALSE), E(3, TRUE)>>)>>,
      <<Seg("ptr64", 3, 2, 0, <<Single(0), Single(1)>>, <<>>)>>,
      <<Seg("ptr64", 3, 2, 0, <<Single(3), NoStart>>, <<>>)>>,
      <<Seg("ptr64", 3, 1, 0, <<Single(1)>>, <<>>), Seg("ptr64", 3, 1, 3, <<Single(0)>>, <<>>)>>,
      <<Seg("arm64e", 4, 1, 2, <<Single(0)>>, <<>>)>>,
      <<Seg("arm64e", 4, 1, 0, <<Single(1)>>, <<>>)>>,
      <<Seg("ptr32", 3, 2, 14, <<Single(0), Single(1)>>, <<>>)>>,
      <<Seg("unknown", 3, 2, 0, <<Single(0), NoStart>>, <<>>)>> }
AllOffsets == 0 .. 5

EveryImage == MCImages \cup AllImages
EveryStarts == MCStarts \cup AllStarts
=============================================================================
