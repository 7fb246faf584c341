---------------------------- MODULE Requirements ----------------------------
(***************************************************************************)
(* Code requirements (pkg/codesign/types/requirement.go): an expression is *)
(* a prefix-coded sequence of words that evalExpression turns into the     *)
(* text codesign prints, and CreateRequirements encodes the designated     *)
(* requirement of a new signature.                                         *)
(*                                                                         *)
(* A word is a length, a word of data, or an opcode plus Flag times its    *)
(* flags: 1 for opGenericSkip, 2 for opGenericFalse, 3 for both.  Text is  *)
(* a sequence of tokens; an atom is one token, the words it was read from. *)
(***************************************************************************)
EXTENDS Naturals, Sequences, SequencesExt

CONSTANTS
    Words,          \* the encoded expressions
    Chains,         \* certificate chains, with the identifier they sign for
    StackLimit,     \* requirementStackLimit
    Flag            \* above every opcode

VARIABLES words, chain, detail

reqVars == <<words, chain, detail>>

(* Punctuation: tokens no atom is equal to, an atom starts with an opcode. *)
Open == <<24>>
Close == <<25>>
Bang == <<26>>
AndWord == <<27>>
OrWord == <<28>>

Bad == [ok |-> FALSE, text |-> <<>>, rest |-> <<>>]
Got(text, rest) == [ok |-> TRUE, text |-> text, rest |-> rest]

Drop(s, n) == SubSeq(s, n + 1, Len(s))

(* Opcodes. *)
opFalse == 0
opTrue == 1
opIdent == 2
opAnd == 6
opOr == 7
opNot == 9
opCertField == 11
opCertGeneric == 14
opAppleGenericAnchor == 15
Constant == {opTrue, opFalse, 3, 13, opAppleGenericAnchor, 21, 23}

(* What each other opcode is followed by: a certificate index or a         *)
(* platform is one word, data is counted, a match has an opcode.           *)
Operands(op) ==
    CASE op \in {opIdent, 8, 18, 19} -> <<"data">>
      [] op = 4 -> <<"word", "data">>
      [] op = 5 -> <<"data", "data">>
      [] op \in {10, 16} -> <<"data", "match">>
      [] op \in {opCertField, opCertGeneric, 17, 22} -> <<"word", "data", "match">>
      [] op \in {12, 20} -> <<"word">>

matchExists == 0
matchEqual == 1

-----------------------------------------------------------------------------
(* Reading operands: how many words one takes, 0 when it is cut short or   *)
(* not understood.                                                         *)

WordsOf(bytes) == (bytes + 3) \div 4

getData(s) ==
    IF s = <<>> THEN 0
    ELSE IF WordsOf(s[1]) > Len(s) - 1 THEN 0 ELSE 1 + WordsOf(s[1])

getMatch(s) ==
    IF s = <<>> THEN 0
    ELSE IF s[1] \in {matchExists, 14} THEN 1
    ELSE IF s[1] \in 1 .. 8 THEN IF getData(Drop(s, 1)) = 0 THEN 0 ELSE 1 + getData(Drop(s, 1))
    ELSE IF s[1] \in 9 .. 13 /\ Len(s) >= 3 THEN 3
    ELSE 0

OperandLen(kind, s) ==
    CASE kind = "word" -> IF s = <<>> THEN 0 ELSE 1
      [] kind = "data" -> getData(s)
      [] kind = "match" -> getMatch(s)

(* The length of all the operands of an opcode, or 0. *)
RECURSIVE OperandsLen(_, _)
OperandsLen(kinds, s) ==
    LET n == OperandLen(Head(kinds), s)
    IN  IF n = 0 \/ Len(kinds) = 1 THEN n
        ELSE IF OperandsLen(Tail(kinds), Drop(s, n)) = 0 THEN 0
        ELSE n + OperandsLen(Tail(kinds), Drop(s, n))

(* skipGenericRequirementData takes the length unpadded; the words of the  *)
(* model only have lengths that are multiples of four there.               *)
skipGenericRequirementData(s) ==
    IF s = <<>> THEN 0
    ELSE IF s[1] > 4 * (Len(s) - 1) THEN 0 ELSE 1 + s[1] \div 4

-----------------------------------------------------------------------------
slPrimary == 0
slAnd == 1
slOr == 2
slTop == 3

(* Mutant: a disjunction inside a conjunction is printed bare. *)
parenthesesAlike(level, own, text) == IF level < slAnd THEN <<Open>> \o text \o <<Close>> ELSE text

parentheses(level, own, text) == IF level < own THEN <<Open>> \o text \o <<Close>> ELSE text

RECURSIVE evalExpression(_, _, _)
evalExpression(s, level, depth) ==
    LET op == IF s = <<>> THEN 0 ELSE s[1] % Flag
        flags == IF s = <<>> THEN 0 ELSE s[1] \div Flag
        binary(own, word) ==
            LET l == evalExpression(Drop(s, 1), own, depth - 1)
                r == evalExpression(l.rest, own, depth - 1)
            IN  IF ~l.ok THEN Bad ELSE IF ~r.ok THEN Bad
                ELSE Got(parentheses(level, own, l.text \o <<word>> \o r.text), r.rest)
        operand == evalExpression(Drop(s, 1), slPrimary, depth - 1)
        n == OperandsLen(Operands(op), Drop(s, 1))
        skipped == skipGenericRequirementData(Drop(s, 1))
    IN  IF depth - 1 <= 0 \/ s = <<>> THEN Bad
        ELSE IF op = opAnd THEN binary(slAnd, AndWord)
        ELSE IF op = opOr THEN binary(slOr, OrWord)
        ELSE IF op = opNot THEN
            IF operand.ok THEN Got(<<Bang>> \o operand.text, operand.rest) ELSE Bad
        ELSE IF op \in Constant THEN Got(<<<<op>>>>, Drop(s, 1))
        ELSE IF op <= 23 THEN
            IF n = 0 THEN Bad ELSE Got(<<<<op>> \o SubSeq(s, 2, n + 1)>>, Drop(s, n + 1))
        ELSE IF flags \notin 1 .. 3 \/ skipped = 0 THEN Bad
        ELSE IF flags >= 2 THEN Got(<<<<opFalse>>>>, Drop(s, 1 + skipped))
        ELSE evalExpression(Drop(s, 1 + skipped), level, depth - 1)

ParseRequirements(s) ==
    LET e == evalExpression(s, slTop, StackLimit)
    IN  IF e.ok /\ e.rest = <<>> THEN e ELSE Bad

-----------------------------------------------------------------------------
(* CreateRequirements.  A chain is [id, apple, certs]; a certificate has   *)
(* ca, ext (what it extends), cn, ou and purpose.  Strings are given by    *)
(* their lengths.                                                          *)

encodeBytes(bytes) == <<bytes>> \o [i \in 1 .. WordsOf(bytes) |-> 90]

CertSlot(i) == IF i = 1 THEN 99 ELSE i - 1

LeafCert(c) == Len(c.certs) > 0 /\ ~c.certs[Len(c.certs)].ca

Generic(slot, oid) == <<opCertGeneric, slot>> \o encodeBytes(oid) \o <<matchExists>>

Field(name, value) ==
    <<opCertField, 0>> \o encodeBytes(name) \o <<matchEqual>> \o encodeBytes(value)

When(cond, statement) == IF cond THEN <<statement>> ELSE <<>>

(* The statements one certificate of the chain adds. *)
CertStatements(c, i) ==
    LET cert == c.certs[i]
        leaf == c.certs[Len(c.certs)]
    IN  IF ~cert.ca \/ cert.ext = "none" THEN <<>>
        ELSE IF cert.ext = "developerID" THEN
            <<Generic(CertSlot(i), 8)>>
              \o (IF ~LeafCert(c) THEN <<>>
                  ELSE When(leaf.purpose, Generic(0, 8)) \o When(leaf.ou > 0, Field(10, leaf.ou)))
        ELSE <<Generic(CertSlot(i), 8)>>
               \o (IF LeafCert(c) THEN When(leaf.cn > 0, Field(10, leaf.cn)) ELSE <<>>)

Statements(c) ==
    <<<<opIdent>> \o encodeBytes(c.id)>>
      \o When(c.apple, <<opAppleGenericAnchor>>)
      \o FlattenSeq([i \in DOMAIN c.certs |-> CertStatements(c, i)])

conjoin(ss) ==
    FlattenSeq([i \in DOMAIN ss |-> (IF i < Len(ss) THEN <<opAnd>> ELSE <<>>) \o ss[i]])

CreateRequirements(c) == conjoin(Statements(c))

-----------------------------------------------------------------------------
NoChain == [id |-> 0, apple |-> FALSE, certs |-> <<>>]

RequirementsInit ==
    /\ \/ words \in Words /\ chain = NoChain
       \/ \E c \in Chains : chain = c /\ words = CreateRequirements(c)
    /\ detail = Bad

(* Reading the requirement of a signature. *)
ReadRequirement ==
    /\ detail' = ParseRequirements(words)
    /\ UNCHANGED <<words, chain>>

RequirementsNext == ReadRequirement

RequirementsSpec == RequirementsInit /\ [][RequirementsNext]_reqVars

-----------------------------------------------------------------------------
(* What the words mean, and what the text means to a reader who knows that *)
(* "!" binds closest and "and" closer than "or".  v is the set of atoms    *)
(* that hold.                                                              *)

Holds(atom, v) == atom # <<opFalse>> /\ (atom = <<opTrue>> \/ atom \in v)

RECURSIVE Value(_, _)
Value(s, v) ==
    LET op == s[1] % Flag
        l == Value(Drop(s, 1), v)
        r == Value(l.rest, v)
        n == IF op \in Constant THEN 0 ELSE OperandsLen(Operands(op), Drop(s, 1))
        after == Drop(s, 1 + skipGenericRequirementData(Drop(s, 1)))
    IN  IF op = opAnd THEN [is |-> l.is /\ r.is, rest |-> r.rest]
        ELSE IF op = opOr THEN [is |-> l.is \/ r.is, rest |-> r.rest]
        ELSE IF op = opNot THEN [is |-> ~l.is, rest |-> l.rest]
        ELSE IF op <= 23 THEN [is |-> Holds(<<op>> \o SubSeq(s, 2, n + 1), v), rest |-> Drop(s, n + 1)]
        ELSE IF s[1] \div Flag >= 2 THEN [is |-> FALSE, rest |-> after]
        ELSE Value(after, v)

RECURSIVE Reading(_, _, _)
Reading(t, level, v) ==
    LET first == Reading(t, level - 1, v)
        more(word) == IF first.rest = <<>> THEN FALSE ELSE first.rest[1] = word
        next == Reading(Tail(first.rest), level, v)
        inner == Reading(Tail(t), slOr, v)
        negated == Reading(Tail(t), slPrimary, v)
    IN  CASE level = slOr ->
               IF more(OrWord) THEN [is |-> first.is \/ next.is, rest |-> next.rest] ELSE first
          [] level = slAnd ->
               IF more(AndWord) THEN [is |-> first.is /\ next.is, rest |-> next.rest] ELSE first
          [] level = slPrimary ->
               IF t[1] = Open THEN [is |-> inner.is, rest |-> Tail(inner.rest)]
               ELSE IF t[1] = Bang THEN [is |-> ~negated.is, rest |-> negated.rest]
               ELSE [is |-> Holds(t[1], v), rest |-> Tail(t)]

Atoms(t) == {t[i] : i \in DOMAIN t} \ {Open, Close, Bang, AndWord, OrWord}

(* The text printed for a requirement means what its words encode, for     *)
(* every way its atoms may hold: parentheses stand wherever the grammar    *)
(* needs them, and nothing is read past the end.  A requirement this       *)
(* package creates is always read back, and as one conjunction of all its  *)
(* statements.                                                             *)
TextMeansWhatIsEncoded ==
    /\ detail.ok =>
        /\ \A v \in SUBSET Atoms(detail.text) :
              LET read == Reading(detail.text, slOr, v)
              IN  read.rest = <<>> /\ read.is = Value(words, v).is
        /\ Value(words, {}).rest = <<>>
    /\ chain # NoChain /\ Len(Statements(chain)) < StackLimit =>
        ParseRequirements(words) =
            Got([i \in 1 .. 2 * Len(Statements(chain)) - 1 |->
                   IF i % 2 = 0 THEN AndWord ELSE Statements(chain)[(i + 1) \div 2]], <<>>)
=============================================================================
