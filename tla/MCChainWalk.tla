----------------------------- MODULE MCChainWalk ----------------------------
(***************************************************************************)
(* Chained fixups, in four parts that never run together: concurrent       *)
(* lookups and edits on one file, and Parse over all files of a small size *)
(* (both ChainPages), every format of pointer (ChainFormats) and the       *)
(* payload of the command (ChainMetadata).                                 *)
(***************************************************************************)
EXTENDS MCChainPages, ChainMetadata

VARIABLES
    run,                        \* "lookups", "walk", "formats" or "metadata"
    context, raw, seen          \* of ChainFormats, whose dcf is the context

formatVars == <<context, raw, seen>>

-----------------------------------------------------------------------------
(* Files with no base set, with some and with all of them, near 2^64 too;  *)
(* pointers with each bit alone, with pairs, and with every top.           *)
SetTo(a) == [set |-> TRUE, addr |-> a]
Unset == [set |-> FALSE, addr |-> {}]
Levels == 0 .. 3
Bases ==
    { [shared |-> Unset, kernel |-> [l \in Levels |-> Unset], segment |-> Unset,
       preferred |-> {32}, max |-> {}],
      [shared |-> SetTo({33, 31}),
       kernel |-> [l \in Levels |-> IF l = 1 THEN Unset ELSE SetTo({l, 60, 61, 62, 63})],
       segment |-> Unset, preferred |-> {14}, max |-> {20}],
      [shared |-> SetTo({}), kernel |-> [l \in Levels |-> IF l = 3 THEN SetTo({20}) ELSE Unset],
       segment |-> SetTo({15}), preferred |-> {}, max |-> {25, 3}] }
Tops == {60, 61, 62, 63}
FormatContexts ==
    { [ format |-> fm, imports |-> n, shared |-> c.shared, kernel |-> c.kernel,
        segment |-> c.segment, preferred |-> c.preferred, slide |-> {14, 20},
        starts |-> << [vm |-> {}, off |-> {}], [vm |-> {14, 15}, off |-> {14}],
                      [vm |-> {}, off |-> Tops] >>,
        maxValid |-> c.max ] : fm \in 1 .. 16, n \in {3, 70000}, c \in Bases }
Low ==
    {{}} \cup {{i} : i \in 0 .. 61}
      \cup {{i, j} : i \in {0, 31}, j \in {16, 30, 50}}

C == INSTANCE ChainFormats WITH
        Raws <- {l \cup h : l \in Low, h \in SUBSET {62, 63}}, Contexts <- FormatContexts,
        dcf <- context

-----------------------------------------------------------------------------
(* Payloads with up to two segments, each field at and beside its limits.  *)
Record(size, pages, format, max, good) ==
    [size |-> size, pageSize |-> 4096, pages |-> pages, format |-> format, maxValid |-> max,
     wellFormed |-> good]
GoodRecords ==
    {[o \in {8, 12, 36} |-> IF o = 36 THEN Record(24, 1, f2, m2, TRUE) ELSE Record(size, 1, 2, 7, TRUE)] :
       size \in {23, 24, 26}, f2 \in {2, 3, 15}, m2 \in {0, 7, 8}}
BadRecords ==
    {[o \in {8, 12, 36} |-> [Record(24, 1, 3, 0, o # 12) EXCEPT !.pageSize = IF o = 12 THEN ps ELSE 4096]] :
       ps \in {4096, 0}}
Tables == {<<>>, <<0>>, <<12>>, <<8>>, <<12, 0>>, <<12, 36>>, <<12, 12>>}
Sizes == {27, 31, 63, 64, 110}
MCPayloads ==
    { [ size |-> sz, version |-> 0, starts |-> st, imports |-> im, symbols |-> im + gap,
        count |-> n, importsFormat |-> fm, symbolsFormat |-> 0, segCount |-> Len(tab), info |-> tab,
        records |-> rec, names |-> nm, ends |-> {3} ] :
      sz \in Sizes, st \in {27, 28}, im \in {63, 64, 88}, gap \in {7, 8},
      n \in {0, 2}, fm \in {1, 2, 4}, tab \in Tables, rec \in BadRecords,
      nm \in {<<0, 3>>, <<0, 4>>} }
    \cup
    { [ size |-> 110, version |-> v, starts |-> 28, imports |-> im, symbols |-> 100,
        count |-> n, importsFormat |-> 1, symbolsFormat |-> sf, segCount |-> Len(tab) + more,
        info |-> tab, records |-> rec, names |-> [i \in 1 .. 5 |-> 0], ends |-> {3} ] :
      v \in {0, 1}, im \in {64, 66, 88}, n \in {3, 4}, sf \in {0, 1}, more \in {0, 20},
      tab \in Tables, rec \in GoodRecords }

MCMaxOrdinal(f) == IF f = 2 THEN 4 ELSE IF f = 3 THEN 5 ELSE 0

-----------------------------------------------------------------------------
(* A File with no starts, on which nothing is walked.                      *)
NoPages ==
    /\ image = [raw |-> <<>>, size |-> 0] /\ Starts = <<>> /\ segmentIndex = {}
    /\ pageCache = <<>> /\ fixups = <<>> /\ chainsParsed = FALSE /\ parsedFrom = <<>>
    /\ lookup = [p \in Procs |-> Idle] /\ answer = [p \in Procs |-> Idle]
NoFormats == context = "" /\ raw = "" /\ seen = ""
NoMetadata == payload = "" /\ dcf = NothingRead /\ answers = {}

ChainsInit ==
    \/ run = "lookups" /\ image \in MCImages /\ Starts \in MCStarts /\ Init
       /\ NoFormats /\ NoMetadata
    \/ run = "walk" /\ image \in AllImages /\ Starts \in AllStarts /\ Init /\ NoFormats /\ NoMetadata
    \/ run = "formats" /\ NoPages /\ C!Init /\ NoMetadata
    \/ run = "metadata" /\ NoPages /\ NoFormats /\ MetadataInit

(* The pages cached and the pages being built.                             *)
PagesInUse ==
    DOMAIN pageCache
      \cup {PageContentStart(lookup[p].offset) : p \in {q \in Procs : lookup[q] # Idle}}

ChainsNext ==
    /\ UNCHANGED run
    /\ \/ /\ run = "lookups" /\ Next /\ Starts' \in MCStarts
          /\ \A p \in Procs : \A r \in {lookup'[p], answer'[p]} :
                r # Idle => r.offset \in MCOffsets
          /\ Cardinality(PagesInUse') <= 1
          /\ UNCHANGED <<formatVars, metadataVars>>
       \/ run = "walk" /\ parseLocked /\ UNCHANGED <<formatVars, metadataVars>>
       \/ run = "formats" /\ C!Decode /\ UNCHANGED <<vars, metadataVars>>
       \/ run = "metadata" /\ MetadataNext /\ UNCHANGED <<vars, formatVars>>

ChainsSpec == ChainsInit /\ [][ChainsNext]_<<run, vars, formatVars, metadataVars>>

(* Every switch over the pointer formats takes a pointer apart alike, and  *)
(* an address does not depend on the function that resolves it.            *)
FormatsAgree == run = "formats" => C!DecodersAgree /\ C!ResolutionsAgree
=============================================================================
