--------------------------- MODULE ChainMetadata ----------------------------
(***************************************************************************)
(* The payload of LC_DYLD_CHAINED_FIXUPS: header, table of starts, the     *)
(* records of the segments, imports and names (pkg/fixupchains), read on   *)
(* demand by several public calls and kept once read.  Offsets and sizes   *)
(* are in bytes; of the contents a payload says what is checked:           *)
(*   info       the offset of each segment's record, 0 without one         *)
(*   records    by that offset: size, page size, format, pages, the        *)
(*              largest valid pointer, and whether its page starts are     *)
(*              well formed (chainStartsForPage)                           *)
(*   names      the offset of each import's name in the pool               *)
(*   ends       where the pool has a zero byte                             *)
(***************************************************************************)
EXTENDS Integers, Sequences

CONSTANTS
    Payloads,
    HeaderLen, RecordLen,       \* sizes of DyldChainedFixupsHeader and ...StartsInSegment
    PageSizes,
    MaxFormat,                  \* the last format a file may use
    MaxOrdinal(_)               \* of a format, 0 if it has no binds

VARIABLES
    payload,
    dcf,                        \* the DyldChainedFixups, as far as it is read
    answers                     \* <<call, whether it succeeded>>, of every call so far

metadataVars == <<payload, dcf, answers>>

Records ==
    [ size : Nat, pageSize : Nat, pages : Nat, format : Nat, maxValid : Nat, wellFormed : BOOLEAN ]

ASSUME SizesAssumption == HeaderLen \in Nat /\ RecordLen \in Nat /\ MaxFormat \in Nat

NoStarts == [pages |-> -1, extra |-> 0]         \* a segment without a record

ImportSize(format) == CASE format = 1 -> 4 [] format = 2 -> 8 [] format = 3 -> 16 [] OTHER -> 0

-----------------------------------------------------------------------------
TableSize(p) == 4 + 4 * p.segCount
StartsFit(p) ==
    /\ p.size >= HeaderLen
    /\ p.version = 0
    /\ p.starts >= HeaderLen
    /\ p.starts + 4 <= p.size
    /\ p.segCount <= (p.size - p.starts - 4) \div 4
    /\ p.imports >= p.starts + TableSize(p)

MinimumSize(r) == RecordLen + 2 * r.pages
RecordFits(p, off) ==
    LET r == p.records[off]
        at == p.starts + off
    IN  /\ off >= TableSize(p)
        /\ at + RecordLen <= p.size
        /\ r.format \in 1 .. MaxFormat
        /\ r.pageSize \in PageSizes
        /\ r.size >= MinimumSize(r)
        /\ (r.size - MinimumSize(r)) % 2 = 0
        /\ at + r.size <= p.size
        /\ at + r.size <= p.imports
        /\ r.wellFormed

(* One segment of the table.  What an earlier one left in the File stays   *)
(* there when a later one is refused.                                      *)
Kept(r) == [pages |-> r.pages, extra |-> (r.size - MinimumSize(r)) \div 2]

ParseSegment(p, st, i) ==
    LET off == p.info[i]
        r == p.records[off]
        starts == IF RecordFits(p, off) THEN [st.starts EXCEPT ![i] = Kept(r)] ELSE st.starts
    IN  IF ~st.ok \/ off = 0 THEN st
        ELSE IF ~RecordFits(p, off) \/ st.format \notin {0, r.format}
        THEN [ok |-> FALSE, format |-> st.format, maxValid |-> st.maxValid, starts |-> starts]
        ELSE [ ok |-> r.maxValid = 0 \/ st.maxValid \in {0, r.maxValid},
               format |-> r.format,
               maxValid |-> IF st.maxValid = 0 THEN r.maxValid ELSE st.maxValid,
               starts |-> starts ]

(* The format of an earlier, failed call is where the next one begins.     *)
Unread(p, format) ==
    [ok |-> TRUE, format |-> format, maxValid |-> 0, starts |-> [i \in 1 .. p.segCount |-> NoStarts]]

(* The table after each segment. *)
Segments(p, format) ==
    LET after[i \in 0 .. p.segCount] ==
            IF i = 0 THEN Unread(p, format) ELSE ParseSegment(p, after[i - 1], i)
    IN  after

Table(p, d) == Segments(p, d.format)[p.segCount]

(* [ok, d]: the error and the File it leaves.                              *)
parseStartsAtOnce(p, d) ==
    LET st == Table(p, d)
    IN  IF d.metadataParsed THEN [ok |-> TRUE, d |-> d]
        ELSE IF ~StartsFit(p) THEN [ok |-> FALSE, d |-> d]
        ELSE [ok |-> st.ok, d |-> [d EXCEPT !.metadataParsed = TRUE, !.format = st.format,
                                            !.starts = st.starts]]

parseStartsLocked(p, d) ==
    LET st == Table(p, d)
    IN  IF d.metadataParsed THEN [ok |-> TRUE, d |-> d]
        ELSE IF ~StartsFit(p) THEN [ok |-> FALSE, d |-> d]
        ELSE [ok |-> st.ok, d |-> [d EXCEPT !.metadataParsed = st.ok, !.format = st.format,
                                            !.starts = st.starts]]

-----------------------------------------------------------------------------
validateImportCount(p, d) ==
    p.count = 0 \/ (MaxOrdinal(d.format) # 0 /\ p.count < MaxOrdinal(d.format))

validateImportsLayout(p) ==
    /\ ImportSize(p.importsFormat) # 0
    /\ p.symbolsFormat = 0
    /\ p.imports <= p.symbols
    /\ p.symbols <= p.size
    /\ p.count <= (p.symbols - p.imports) \div ImportSize(p.importsFormat)

(* Every name starts in the pool and has an end there.                     *)
NameEnd(p, off) == {e \in p.ends : e >= off /\ e < p.size - p.symbols}
parseImports(p) ==
    \A i \in 1 .. p.count : p.names[i] < p.size - p.symbols /\ NameEnd(p, p.names[i]) # {}

ensureImportsLocked(p, d) ==
    LET m == parseStartsLocked(p, d)
    IN  IF d.importsParsed THEN [ok |-> TRUE, d |-> d]
        ELSE IF ~m.ok THEN m
        ELSE IF /\ validateImportCount(p, m.d)
                /\ validateImportsLayout(p)
                /\ parseImports(p)
        THEN [ok |-> TRUE, d |-> [m.d EXCEPT !.importsParsed = TRUE, !.imports = p.count]]
        ELSE [ok |-> FALSE, d |-> m.d]

(* The fields of a payload are words; table and names are there to be read *)
(* when they fit.                                                          *)
ASSUME PayloadsAssumption ==
    \A p \in Payloads :
        /\ p.size \in Nat /\ p.starts \in Nat /\ p.imports \in Nat /\ p.symbols \in Nat
        /\ p.segCount \in Nat /\ p.count \in Nat /\ p.ends \subseteq Nat
        /\ StartsFit(p) => \A i \in 1 .. p.segCount :
              p.info[i] \in Nat /\ (p.info[i] # 0 => p.records[p.info[i]] \in Records)
        /\ validateImportsLayout(p) => \A i \in 1 .. p.count : p.names[i] \in Nat

-----------------------------------------------------------------------------
Answer(call, r) ==
    /\ dcf' = r.d
    /\ answers' = answers \cup {<<call, r.ok>>}
    /\ UNCHANGED payload

ParseStarts == Answer("ParseStarts", parseStartsLocked(payload, dcf))
EnsureImports == Answer("EnsureImports", ensureImportsLocked(payload, dcf))

(* Parse up to the walk of the chains; GetFixupAtOffset likewise.          *)
Parse ==
    LET m == parseStartsLocked(payload, dcf)
    IN  Answer("Parse", IF m.ok THEN ensureImportsLocked(payload, m.d) ELSE m)

(* ResolveRawRebaseVMAddress parses only while no format is known.         *)
ResolveRaw ==
    LET m == IF dcf.format = 0 THEN parseStartsLocked(payload, dcf) ELSE [ok |-> TRUE, d |-> dcf]
    IN  Answer("ResolveRaw", [ok |-> m.ok /\ m.d.format # 0, d |-> m.d])

NothingRead ==
    [metadataParsed |-> FALSE, importsParsed |-> FALSE, format |-> 0, starts |-> <<>>, imports |-> 0]

MetadataInit ==
    /\ payload \in Payloads
    /\ dcf = NothingRead
    /\ answers = {}
MetadataNext == ParseStarts \/ EnsureImports \/ Parse \/ ResolveRaw
MetadataSpec == MetadataInit /\ [][MetadataNext]_metadataVars

-----------------------------------------------------------------------------
Ranges(p) ==
    {<<0, HeaderLen>>, <<p.starts, p.starts + TableSize(p)>>}
       \cup {<<p.starts + o, p.starts + o + p.records[o].size>> :
               o \in {p.info[i] : i \in 1 .. p.segCount} \ {0}}

(* Whatever was asked first and whatever failed before: a call that read   *)
(* the metadata answers the same for ever, the parts that are kept lie     *)
(* inside the payload, before the imports and apart from header and table, *)
(* every record has the one format and the page starts the walks index,    *)
(* imports and names follow each other, and every ordinal that a pointer   *)
(* of the format can hold and that is below the count has an import.       *)
KeptMetadataIsSound ==
    LET p == payload
    IN  /\ \A c \in {"ParseStarts", "EnsureImports", "Parse"} :
              ~({<<c, TRUE>>, <<c, FALSE>>} \subseteq answers)
        /\ <<"ParseStarts", TRUE>> \in answers => dcf.metadataParsed
        /\ dcf.importsParsed => dcf.metadataParsed
        /\ dcf.metadataParsed =>
             /\ Len(dcf.starts) = p.segCount
             /\ \A r \in Ranges(p) : r[2] <= p.imports /\ r[2] <= p.size
             /\ \A i \in 1 .. p.segCount :
                   IF p.info[i] = 0 THEN dcf.starts[i] = NoStarts
                   ELSE /\ p.info[i] >= TableSize(p)
                        /\ p.records[p.info[i]].format = dcf.format
                        /\ RecordLen + 2 * (dcf.starts[i].pages + dcf.starts[i].extra)
                              = p.records[p.info[i]].size
        /\ dcf.importsParsed =>
             /\ dcf.imports = p.count
             /\ p.imports + p.count * ImportSize(p.importsFormat) <= p.symbols
             /\ \A i \in 1 .. p.count :
                   \E e \in p.ends : p.names[i] <= e /\ p.symbols + e < p.size
             /\ p.count > 0 => p.count < MaxOrdinal(dcf.format)
=============================================================================
