---------------------------- MODULE MCFileCaches ----------------------------
(***************************************************************************)
(* What a File caches, in five parts that share no state of the code and   *)
(* never run together: the fixup caches, the function list, the payloads   *)
(* decoded on demand, the lookups of Swift contexts and the memo of them.  *)
(***************************************************************************)
EXTENDS MCFixupCaches, FunctionLists, LazyPayloads, MCSwift, TLC

VARIABLE run    \* "fixups", "functions", "payloads", "contexts" or "memo"

CONSTANTS c1, c2

-----------------------------------------------------------------------------
(* Files with and without LC_FUNCTION_STARTS, and for the latter a __text  *)
(* whose prologues give another list; an overlong value or a 0 in the      *)
(* middle, a last function outside every section, exponents 0 to 4.  In    *)
(* some an address wraps: the first, one in the middle, the end of __text. *)
Sec(a, n) == [addr |-> a, size |-> n]
Text(words, align) == [addr |-> 20, words |-> words, align |-> align]
TopText == [addr |-> 248, words |-> <<"pacibsp", "nop", "pacibsp">>, align |-> 2]
Streams2 == {<<>>, <<4>>, <<4, 4, 4>>, <<8, 4, 0, 4>>, <<4, 40>>, <<0>>, <<249, 4, 4>>, <<4, 4, 240>>}
MCFunctionFiles ==
    { [ arm64e |-> e, base |-> 16, starts |-> s, text |-> t,
        sections |-> <<Sec(8, 4), Sec(20, 12), Sec(24, 20)>> ] :
      e \in BOOLEAN, s \in Streams2 \cup {None},
      t \in {None, TopText, Text(<<"nop", "nop">>, 2), Text(<<"pacibsp", "nop", "pacibsp">>, 0)}
               \cup {Text(<<"nop", "pacibsp", "nop">>, x) : x \in 1 .. 4} }

MCGiven == {<<>>, <<4, 8>>}

-----------------------------------------------------------------------------
(* Payloads at and beside the limits of their fields; chains that end,     *)
(* leave the image, meet a hole or an ordinal with no symbol, or go on.    *)
Slot(b, low, high, n) == [bind |-> b, low |-> low, high |-> high, next |-> n]
SlotSets ==
    { (8 :> Slot(TRUE, 0, 0, 1) @@ 12 :> Slot(FALSE, 0, 0, 1) @@ 16 :> s @@ 20 :> Slot(TRUE, 1, 0, 0)
       @@ 24 :> Slot(TRUE, 1, 0, 2)) :
      s \in {Slot(TRUE, 1, 0, 0), Slot(TRUE, 1, 1, 1), Slot(FALSE, 0, 0, 1), Slot(TRUE, 0, 0, 3)} }
Segments(n) ==
    { [name |-> "__PAGEZERO", addr |-> 0, size |-> 100], [name |-> "__TEXT", addr |-> 100, size |-> n],
      [name |-> "__LINKEDIT", addr |-> 150, size |-> 200] }
Lazy(len, format, chain, count, strs) ==
    [ len |-> len, path |-> 24, format |-> format, flag |-> 4, chain |-> chain, array |-> 28,
      count |-> count, strs |-> strs, nuls |-> {26, 40, 43} ]
Formats == {"ARM64E", "ARM64E_KERNEL", "64", "ARM64E_USERLAND24", "32", "x"}
LazyLists ==
    { <<Lazy(44, f1, 8, 2, <<37, 41>>), l>> :
      f1 \in Formats,
      l \in { Lazy(23, "64", 8, 0, <<>>), Lazy(44, "64", 0, 5, <<1, 1, 1, 1, 1>>),
              Lazy(44, "ARM64E_FIRMWARE", 12, 2, <<37, 44>>), Lazy(42, "64_OFFSET", 8, 1, <<41>>),
              Lazy(44, "64", 16, 2, <<37, 41>>), [Lazy(44, "64", 0, 1, <<37>>) EXCEPT !.flag = 41] } }

Entry(impl, index, flag) == [impl |-> impl, index |-> index, flag |-> flag]
Table(kind, es) == [kind |-> kind, entries |-> es]
TablesAt ==
    [ o \in 0 .. 40 |->
        CASE o = 8 -> Table(3, <<Entry(1, FALSE, 7), Entry(2, FALSE, 0)>>)
          [] o = 12 -> Table(1, <<Entry(1, FALSE, 7), Entry(0, TRUE, 0)>>)
          [] o = 36 -> Table(2, <<>>)
          [] OTHER -> Table(5, <<Entry(1, FALSE, 0)>>) ]
VariantPayloads ==
    { [len |-> n, offsets |-> o, at |-> TablesAt] :
      n \in {3, 4, 32, 36, 40}, o \in {<<>>, <<8>>, <<8, 32>>, <<12, 36>>, <<12>>, <<4>>} }

Named(a, n) == [addr |-> a, name |-> n]
PayloadFile(ls, sl, n, v, st, fx) ==
    [ lazies |-> ls, slots |-> sl, segments |-> Segments(n), base |-> 100, variants |-> v,
      symtab |-> st, exports |-> <<Named(101, "e1"), Named(102, "e2")>>, fixups |-> fx ]
MCPayloadFiles ==
    { PayloadFile(ls, sl, n, NoData, <<>>, NoData) : ls \in LazyLists, sl \in SlotSets, n \in {12, 40} }
    \cup
    { PayloadFile(<<>>, <<>>, 40, v, st, fx) :
      v \in VariantPayloads \cup {NoData}, st \in {<<>>, <<Named(102, "s2"), Named(102, "t2")>>},
      fx \in {NoData, [len |-> 7, records |-> <<>>], [len |-> 16, records |-> <<"a", "b">>]} }

-----------------------------------------------------------------------------
(* A File on which no fixups are asked for. *)
NoFixups ==
    /\ image = Img(FALSE, Empty, Nil, Unset) /\ shared = Unset
    /\ kernel = [l \in Levels |-> Unset] /\ levelZero = Unset
    /\ dcf = Nil /\ cache = NoCache /\ child = Nil
NoFunctions ==
    /\ code = [arm64e |-> FALSE, base |-> 0, starts |-> None, text |-> None, sections |-> <<>>]
    /\ functions = <<>>
    /\ call = [c \in Callers |-> None] /\ lists = [c \in Callers |-> <<>>]
NoPayloads ==
    /\ file = "" /\ lazies = <<>> /\ variants = NoData /\ varFixups = NoData
    /\ exp = FALSE /\ named = FALSE

NoContexts == img = Still /\ scan = p1
NoMemo == MemoInit /\ fileState = "chain"
NoSwift == NoContexts /\ NoMemo

CachesInit ==
    \/ run = "fixups" /\ Init /\ NoFunctions /\ NoPayloads /\ NoSwift
    \/ run = "functions" /\ NoFixups /\ FunctionsInit /\ NoPayloads /\ NoSwift
    \/ run = "payloads" /\ NoFixups /\ NoFunctions /\ PayloadsInit /\ NoSwift
    \/ run = "contexts" /\ NoFixups /\ NoFunctions /\ NoPayloads /\ ContextInit /\ NoMemo
    \/ run = "memo" /\ NoFixups /\ NoFunctions /\ NoPayloads /\ NoContexts /\ MemoInit

cacheVars == <<vars, functionVars, payloadVars>>

CachesNext ==
    /\ UNCHANGED run
    /\ \/ /\ run = "fixups" /\ Next
          /\ UNCHANGED <<functionVars, payloadVars, contextVars, memoVars>>
       \/ /\ run = "functions" /\ FunctionsNext
          /\ UNCHANGED <<vars, payloadVars, contextVars, memoVars>>
       \/ /\ run = "payloads" /\ PayloadsNext
          /\ UNCHANGED <<vars, functionVars, contextVars, memoVars>>
       \/ run = "contexts" /\ ContextNext /\ UNCHANGED <<cacheVars, memoVars>>
       \/ run = "memo" /\ MemoNext /\ UNCHANGED <<cacheVars, contextVars>>

CachesSpec == CachesInit /\ [][CachesNext]_<<run, cacheVars, contextVars, memoVars>>

Symm == Permutations(Goroutines) \cup Permutations(Scopes)
=============================================================================
