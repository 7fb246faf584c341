---------------------------- MODULE MCSignatures ----------------------------
(***************************************************************************)
(* Code signatures, in four parts that never run together: signing and     *)
(* saving a file (Signing), the expressions of requirements                *)
(* (Requirements), reading the data of a signature (CodeSignatures) and    *)
(* making it (SpecialSlots).                                               *)
(***************************************************************************)
EXTENDS MCSigning, CodeSignatures, TLC

VARIABLES
    run,                                        \* the part
    words, chain, detail,                       \* of Requirements
    config, fileInfo, last, edits, signs        \* of SpecialSlots

wordVars == <<words, chain, detail>>
blobVars == <<sig, read, parsed>>
configVars == <<config, fileInfo, last, edits, signs>>

-----------------------------------------------------------------------------
(* Expressions of up to five opcodes, with and without operands, cut short *)
(* and not understood, and every form of operand in a fixed frame; chains  *)
(* of up to three certificates.                                            *)
Chunks == {<<0>>, <<1>>, <<2, 3, 90>>, <<6>>, <<7>>, <<9>>, <<150, 4, 90>>, <<250, 0>>, <<50>>}
Shapes ==
    { <<2>>, <<2, 5, 90>>, <<2, 5, 90, 90>>, <<104>>, <<4, 0, 3, 90>>, <<5, 3, 90, 4, 90>>, <<5, 3, 90>>,
      <<8, 3, 90>>, <<10, 3, 90, 0>>, <<10, 3, 90, 1>>, <<10, 3, 90, 8, 3, 90>>, <<11, 0, 3, 90, 14>>,
      <<11, 0, 3, 90, 9, 90, 90>>, <<11, 0, 3, 90, 13, 90>>, <<12, 0>>, <<14, 0, 3, 90, 15>>, <<20>>,
      <<20, 2>>, <<22, 0, 0, 1, 0>>, <<150, 8>>, <<250>>, <<250, 8, 90>>, <<350, 0>>, <<450, 0>>,
      <<17, 99, 3, 90>>, <<18, 4, 90>>, <<19, 0>>, <<16, 4, 90, 14>>, <<3>>, <<13>>, <<15>>, <<21>>, <<23>> }
Expressions ==
    {FlattenSeq(t) : t \in UNION {[1 .. n -> Chunks] : n \in 0 .. 5}}
      \cup {<<6>> \o a \o <<7, 9>> \o b \o a : a \in Shapes, b \in Shapes}
Cert(ca, ext, cn, ou, purpose) == [ca |-> ca, ext |-> ext, cn |-> cn, ou |-> ou, purpose |-> purpose]
CAs == {Cert(TRUE, e, 3, 3, FALSE) : e \in {"none", "developerID", "wwdr"}}
Leaves == {Cert(FALSE, "none", cn, ou, p) : cn \in {0, 5}, ou \in {0, 4}, p \in BOOLEAN}
CertChains ==
    { [id |-> i, apple |-> a, certs |-> c] :
      i \in {1, 4, 7}, a \in BOOLEAN,
      c \in {<<>>} \cup {<<x>> : x \in CAs \cup Leaves} \cup {<<x, y>> : x \in CAs, y \in CAs \cup Leaves}
             \cup {<<x, y, z>> : x \in CAs, y \in CAs, z \in Leaves} }

R == INSTANCE Requirements WITH
        Words <- Expressions, Chains <- CertChains, StackLimit <- 5, Flag <- 100

-----------------------------------------------------------------------------
(* Configs: nothing set; everything set; a reused one with the hashes of   *)
(* components it no longer has, and one with slots of its own.             *)
Data == {"p", "q"}
LengthOf == [d \in Data \cup {"", "a", "t"} |-> CASE d = "" -> 0 [] d = "q" -> 8 [] OTHER -> 3]
Natives(on) == [i \in {5, 7, 8, 9, 10, 11} |-> IF i \in on THEN "p" ELSE "nil"]
Raws(on) == [i \in {1, 3, 4, 6, 12, 13, 14} |-> IF i \in on THEN "p" ELSE "absent"]
Zero32 == [alg |-> 0, size |-> 32, of |-> [magic |-> "", data |-> ""]]
Zero0 == [Zero32 EXCEPT !.size = 0]
Sum(d) == [alg |-> 2, size |-> 32, of |-> [magic |-> "", data |-> d]]
Conf(id, on, raws) ==
    [ id |-> id, team |-> IF id = "a" THEN "t" ELSE "", adhoc |-> TRUE, native |-> Natives(on),
      raw |-> Raws(raws), plist |-> "nil", resource |-> Zero0, slots |-> <<>>, given |-> FALSE,
      hashType |-> 0, hashSize |-> 0, hashes |-> [i \in 1 .. 11 |-> Zero0], n |-> 0, err |-> FALSE ]
SomeConfigs ==
    { Conf("", {}, {}), Conf("a", {}, {}), Conf("a", {5}, {4, 12}), Conf("a", {5, 7, 8, 9}, {3}),
      Conf("a", {9, 11}, {6}), [Conf("a", {8}, {}) EXCEPT !.resource = Sum("q"), !.adhoc = FALSE],
      [Conf("a", {7}, {}) EXCEPT !.given = TRUE, !.plist = "p",
         !.slots = <<[index |-> 0, hash |-> Sum("q")], [index |-> 0, hash |-> Zero32],
                     [index |-> 0, hash |-> Sum("p")]>>] }

(* The signatures files come with are written by Write for the part that   *)
(* signs: none, a signature of our own, and ones by older tools with       *)
(* directories of other hashes.                                            *)
Unsigned == [size |-> 0, magic |-> "", length |-> 0, index |-> <<>>, blobs |-> <<>>]

S == INSTANCE SpecialSlots WITH
        Signatures <- {Unsigned}, Payloads <- Data,
        Lengths <- LengthOf, Configs <- SomeConfigs, Changed <- {"q"},
        Fresh <- {Conf("", {}, {})}, FileInfos <- {"nil", "p"}, MaxEdits <- 1,
        MaxSigns <- 2, MaxLength <- 1000, CodeSize <- 8, PageBits <- 2

Aged(bs, n, type, size) ==
    LET cd == bs[1].blob
        first == cd.hashOffset - 32 * n
        alg == IF type = 3 THEN 2 ELSE type
        old(h) == [alg |-> IF h.alg = 0 THEN 0 ELSE alg, size |-> size, of |-> h.of]
    IN  [bs EXCEPT ![1].blob =
          [cd EXCEPT !.hashSize = size, !.hashType = type, !.hashOffset = first + size * n,
                     !.length = first + size * (n + cd.nCode),
                     !.hashes = [x \in {first + size * j : j \in 0 .. n - 1} |->
                                   old(cd.hashes[first + 32 * ((x - first) \div size)])]]]
Older(c, type, size) == S!Write(Aged(S!Blobs(c), c.n, type, size))
Prior ==
    { Older(S!Prepared([c EXCEPT !.hashes = S!InitSlotHashes]), h[1], h[2]) :
      c \in { Conf("a", {5, 7}, {3}), Conf("a", {5}, {6, 1}), Conf("a", {8, 10}, {}),
              [Conf("a", {}, {}) EXCEPT !.given = TRUE,
                 !.slots = <<[index |-> 4, hash |-> Sum("q")], [index |-> 6, hash |-> Sum("q")]>>] },
      h \in {<<2, 32>>} }
    \cup
    { Older(S!Prepared([Conf("a", {5, 8}, {4}) EXCEPT !.hashes = S!InitSlotHashes]), h[1], h[2]) :
      h \in {<<1, 20>>, <<3, 20>>, <<4, 48>>} }

-----------------------------------------------------------------------------
(* Signatures to read: one CodeDirectory with each field at and beside its *)
(* limits, and small indexes with duplicates and null offsets.             *)
Scatter(n, b, t) == [count |-> n, base |-> b, target |-> t]
CD == [ magic |-> "codedirectory", length |-> 200, version |-> 7, limit |-> 12, limit64 |-> 0,
        ident |-> 108, team |-> 112, scatter |-> 0, hashOffset |-> 128, hashSize |-> 4, hashType |-> 2,
        nSpecial |-> 2, nCode |-> 3, pageBits |-> 2, pre |-> 0, linkType |-> 0, linkOffset |-> 0,
        linkSize |-> 0, nuls |-> {110, 115, 199}, hashes |-> <<>>, names |-> <<>>,
        scatterAt |-> 144 :> Scatter(2, 5, 40) @@ 168 :> Scatter(1, 1, 0) @@ 150 :> Scatter(3, 0, 0)
                        @@ 152 :> Scatter(4, 0, 0) @@ 176 :> Scatter(1, 250, 0) ]
Directories ==
    {[CD EXCEPT !.version = v, !.length = n] : v \in 0 .. 8, n \in {43, 44, 48, 51, 52, 64, 88, 96, 107, 108, 200, 201}}
    \cup {[CD EXCEPT !.limit = l, !.limit64 = w, !.version = v, !.nCode = n, !.pageBits = b] :
            l \in {0, 11, 12, 13}, w \in {0, 8, 9}, v \in {3, 4}, n \in {0, 2, 3, 4}, b \in {0, 1, 2, 64}}
    \cup {[CD EXCEPT !.ident = i, !.team = t, !.version = v, !.nuls = z] :
            i \in {0, 110, 199, 200}, t \in {0, 116, 201}, v \in {2, 3}, z \in {{110}, {110, 199}, {110, 200}}}
    \cup {[CD EXCEPT !.hashOffset = o, !.hashSize = s, !.nSpecial = n, !.pre = p] :
            o \in {8, 11, 15, 16, 188, 189}, s \in {0, 4}, n \in {0, 1, 2, 3}, p \in {0, 7, 8, 188, 189}}
    \cup {[CD EXCEPT !.scatter = a, !.version = v, !.length = n] :
            a \in {4, 8, 144, 150, 152, 168, 176}, v \in {1, 2}, n \in {191, 192, 200}}
    \cup {[CD EXCEPT !.linkType = k, !.linkOffset = o, !.linkSize = n, !.version = v] :
            k \in {0, 1}, o \in {0, 8, 200, 201}, n \in {0, 1}, v \in {6, 7}}
Plain(magic, n) == [magic |-> magic, length |-> n]
Inner(magic, n, kind, good) == [magic |-> magic, length |-> n, kind |-> kind, good |-> good]
Vector(magic, n, entries, inner) ==
    [magic |-> magic, length |-> n, entries |-> [i \in DOMAIN entries |-> [type |-> 3, offset |-> entries[i]]],
     inner |-> inner]
Vectors ==
    { Vector(m, n, es, 0 :> i0 @@ 20 :> Inner("requirement", l, k, g) @@ 28 :> Inner("requirement", 12, 2, TRUE)) :
      m \in {"requirement", "requirements"}, n \in {11, 12, 20, 28, 40}, es \in {<<>>, <<20>>, <<28, 28>>, <<28, 20>>},
      l \in {12, 16, 20, 21}, k \in {1, 2, 3}, g \in BOOLEAN,
      i0 \in {Inner("requirement", 16, 1, TRUE), Inner("requirements", 16, 1, TRUE)} }
Super(magic, n, size, entries, blobs) ==
    [magic |-> magic, length |-> n, size |-> size,
     index |-> [i \in DOMAIN entries |-> [type |-> entries[i][1], offset |-> entries[i][2]]], blobs |-> blobs]
SmallBlobs == 36 :> Plain("entitlements", 8) @@ 44 :> Plain("wrapper", 12) @@ 48 :> Plain("entitlements", 7)
IndexEntries == {<<5, 0>>, <<5, 36>>, <<1, 44>>, <<5, 48>>, <<30, 44>>, <<40, 36>>, <<5, 44>>, <<7, 35>>, <<8, 52>>}
SuperBlobs ==
    { Super(m, n, z, e, SmallBlobs) :
        m \in {"embedded", "embedded old", "wrapper"}, n \in {11, 12, 36, 44, 55, 56}, z \in {11, 56},
        e \in UNION {[1 .. k -> IndexEntries] : k \in 0 .. 3} }
    \cup { Super("embedded", 20 + n, 220, <<<<2, 20>>>>, 20 :> v) : n \in {39, 40}, v \in Vectors }
    \cup { Super("embedded", 244, 244, <<<<t, 44>>, <<0, 44>>, <<21, 44>>, <<0, 52>>>>, 44 :> d) :
             t \in {0, 20}, d \in Directories }

-----------------------------------------------------------------------------
(* A file that is not signed, as it was opened. *)
NoFile == Init /\ layout = L(5, 2, 0, NoSignature)
NoWords == words = "" /\ chain = "" /\ detail = ""
NoBlobs == sig = Unsigned /\ read = Unsigned /\ parsed = Nothing
NoConfig == config = "" /\ fileInfo = "" /\ last = "" /\ edits = 0 /\ signs = 0

SignaturesInit ==
    \/ run = "files" /\ Init /\ NoWords /\ NoBlobs /\ NoConfig
    \/ run = "words" /\ NoFile /\ R!RequirementsInit /\ NoBlobs /\ NoConfig
    \/ run = "data" /\ NoFile /\ NoWords /\ SignatureInit /\ NoConfig
    \/ run = "slots" /\ NoFile /\ NoWords /\ S!SlotsInit
    \/ /\ run = "slots" /\ NoFile /\ NoWords
       /\ sig \in Prior /\ read = sig /\ parsed = S!ParseCodeSignature(sig)
       /\ config \in SomeConfigs /\ fileInfo \in {"nil", "p"}
       /\ last = S!NotSigned /\ edits = 0 /\ signs = 0

SignaturesNext ==
    /\ UNCHANGED run
    /\ \/ run = "files" /\ Next /\ UNCHANGED <<wordVars, blobVars, configVars>>
       \/ run = "words" /\ R!RequirementsNext /\ UNCHANGED <<vars, blobVars, configVars>>
       \/ run = "data" /\ ReadSignature /\ UNCHANGED <<vars, wordVars, configVars>>
       \/ run = "slots" /\ S!SlotsNext /\ UNCHANGED <<vars, wordVars>>

SignaturesSpec == SignaturesInit /\ [][SignaturesNext]_<<run, vars, wordVars, blobVars, configVars>>

(* The properties of the other parts, on these inputs.                     *)

(* The text of a requirement means what its words encode.                  *)
TextMeansWhatIsEncoded == run = "words" => R!TextMeansWhatIsEncoded

(* A signature binds the components it has.                                *)
SignedComponentsAreBound == run = "slots" => S!SignedComponentsAreBound

(* Signing again keeps the components that were not set.                   *)
SigningAgainKeepsComponents == run = "slots" => S!SigningAgainKeepsComponents

(* "want slot 6 raw component to remain": every embedded raw component is  *)
(* bound by the CodeDirectory.                                             *)
EmbeddedComponentsAreBound == run = "slots" => S!EmbeddedComponentsAreBound
=============================================================================
