----------------------------- MODULE MCSigning ------------------------------
(* Small files: a header of one word, __TEXT of eight words, __LINKEDIT at *)
(* word eight.                                                             *)
EXTENDS Signing

L(section, filesz, extra, cs) ==
    [ ncmds |-> 2, loadSize |-> 2, written |-> 2, text |-> 7, section |-> section,
      linkedit |-> 8, filesz |-> filesz, extra |-> extra, cs |-> cs ]

(* Unsigned with room for one command, two commands or none; __LINKEDIT    *)
(* ending on and off the alignment, at the end of the file or not; signed  *)
(* by another tool, within __LINKEDIT, past its end or before its start.   *)
MCLayouts ==
    { L(5, 2, 0, NoSignature), L(6, 3, 0, NoSignature), L(0, 3, 2, NoSignature),
      L(4, 2, 0, NoSignature), L(6, 0, 0, NoSignature),
      L(5, 4, 0, Signature(10, 2, "old")), L(5, 5, 1, Signature(10, 2, "")),
      L(6, 4, 4, Signature(10, 4, "old")), L(6, 4, 0, Signature(7, 2, "old")) }

(* LC_UNIXTHREAD: two words of thread state LoadSize does not count.       *)
ThreadLayouts == { [L(6, 2, 0, NoSignature) EXCEPT !.written = 4] }

OddLayouts == { L(6, 3, 0, NoSignature) }
=============================================================================
