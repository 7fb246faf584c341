-------------------------------- MODULE TOC ---------------------------------
(***************************************************************************)
(* FileTOC (toc.go): the load commands of a Mach-O file, the header's      *)
(* counts of them, and what writeLoadCommands (export.go) makes of them.   *)
(* Sizes are in bytes.                                                     *)
(*                                                                         *)
(* A load is a record [id, kind, len, head, body, nsect, firstsect,        *)
(* sections]: len is the command's cmdsize field, head the size of its     *)
(* fixed struct, body what follows it (the length of the name, the thread  *)
(* states, the tools), and a segment counts the sections it claims (nsect  *)
(* from firstsect on in the table of contents) and those in its own list,  *)
(* which are the ones written (sections).  The id stands for the pointer.  *)
(* A segment's head tells LC_SEGMENT_64 (72) from LC_SEGMENT (56).         *)
(***************************************************************************)
EXTENDS Integers, Sequences, FiniteSets

CONSTANTS
    ParsedLoads,    \* commands found in files, for each magic number
    NewLoads,       \* commands callers add, for each magic number
    Names,          \* lengths of the names a dylib may be given
    MaxLoads,       \* bound on the number of commands
    MaxSections,    \* bound on the number of sections
    SizeWrap        \* SizeCommands is a uint32: 2^32, or less

VARIABLES
    Magic,          \* 64 or 32: Magic64 or Magic32
    NCommands, SizeCommands, Loads, Sections,
    measured,       \* history: LoadSize was the cmdsize of all that came and went
    orphans         \* history: the last sections of the table were left behind
vars == <<Magic, NCommands, SizeCommands, Loads, Sections, measured, orphans>>

-----------------------------------------------------------------------------
HdrSize == IF Magic = 64 THEN 32 ELSE 28
LoadAlign(m) == IF m = 64 THEN 8 ELSE 4
SectionSize(l) == IF l.head = 72 THEN 80 ELSE 68

Aligned(n, a) == ((n + a - 1) \div a) * a
pointerAlign(sz) == Aligned(sz, 8)

(* LoadSize of each type of command.  A named command is "string", or      *)
(* "dylib" for LC_LOAD_DYLIB and its kin; "fixed" is a struct with or      *)
(* without an array after it, written as it is.                            *)
Size(l) == l.head + l.body
SegmentLoadSize(l) == l.head + l.nsect * SectionSize(l)
NamedLoadSize(l) == pointerAlign(Size(l) + 1)
ThreadLoadSize(l) == l.head
IdentLoadSize(l) == IF Size(l) % 4 # 0 THEN 4 - (Size(l) % 4) ELSE Size(l)

LoadSize(l) ==
    CASE l.kind = "segment" -> SegmentLoadSize(l)
      [] l.kind \in {"string", "dylib"} -> NamedLoadSize(l)
      [] l.kind = "thread" -> ThreadLoadSize(l)
      [] l.kind = "ident" -> IdentLoadSize(l)
      [] l.kind = "fixed" -> Size(l)

(* The number of bytes Write appends to a buffer that holds at bytes.      *)
(* The padding of a string command depends on the buffer, that of a dylib  *)
(* on its cmdsize; writeLoadCommands adds the sections of a segment.       *)
SegmentWrite(l) == l.head + l.sections * SectionSize(l)
StringWrite(l, at) == pointerAlign(at + Size(l) + 1) - at
DylibWrite(l) == l.len
ThreadWrite(l) == Size(l)
IdentWrite(l, at) == Aligned(at + Size(l), 4) - at

Written(l, at) ==
    CASE l.kind = "segment" -> SegmentWrite(l)
      [] l.kind = "string" -> StringWrite(l, at)
      [] l.kind = "dylib" -> DylibWrite(l)
      [] l.kind = "thread" -> ThreadWrite(l)
      [] l.kind = "ident" -> IdentWrite(l, at)
      [] l.kind = "fixed" -> Size(l)

(* A dylib whose name no longer fits its cmdsize is refused.               *)
CanWrite(l) == l.kind = "dylib" => l.len >= l.head + l.body + 1

(* writeLoadCommands after the header: where the buffer stands after each  *)
(* command.                                                                *)
writeLoadCommands ==
    LET upTo[i \in 0 .. Len(Loads)] ==
          IF i = 0 THEN HdrSize ELSE upTo[i - 1] + Written(Loads[i], upTo[i - 1])
    IN  upTo

(* How NewFile steps through the commands: each ends where its cmdsize     *)
(* says.                                                                   *)
CommandEnds(ls) ==
    LET upTo[i \in 0 .. Len(ls)] == IF i = 0 THEN HdrSize ELSE upTo[i - 1] + ls[i].len
    IN  upTo

-----------------------------------------------------------------------------
Segment(l) == l.kind = "segment"

(* NewFile gives the sections of each segment the next indexes of the      *)
(* table and lists them in the segment too.                                *)
FirstSections(ls) ==
    LET before[i \in 1 .. Len(ls)] == IF i = 1 THEN 0 ELSE before[i - 1] + ls[i - 1].nsect
    IN  before

NewTable(ls) ==
    LET n == Len(ls)
    IN  /\ Loads = [i \in 1 .. n |->
                      [ls[i] EXCEPT !.firstsect = IF Segment(ls[i]) THEN FirstSections(ls)[i] ELSE 0,
                                    !.sections = ls[i].nsect]]
        /\ NCommands = n
        /\ SizeCommands = CommandEnds(ls)[n] - HdrSize
        /\ SizeCommands < SizeWrap
        /\ Sections = [k \in 1 .. (IF n = 0 THEN 0 ELSE FirstSections(ls)[n] + ls[n].nsect) |->
                         ls[CHOOSE i \in 1 .. n :
                              /\ FirstSections(ls)[i] < k
                              /\ k <= FirstSections(ls)[i] + ls[i].nsect].id]

Init ==
    /\ Magic \in {32, 64}
    /\ measured = TRUE
    /\ orphans = FALSE
    /\ \E n \in 0 .. MaxLoads : \E ls \in [1 .. n -> ParsedLoads[Magic]] :
          /\ \A i, j \in 1 .. n : i # j => ls[i].id # ls[j].id
          /\ NewTable(ls)

(* A command is in the list at most once: RemoveLoad finds it by identity. *)
InLoads(id) == \E i \in DOMAIN Loads : Loads[i].id = id

Grow(n) == SizeCommands' = (SizeCommands + n) % SizeWrap

Measured(l) == LoadSize(l) = l.len

AddLoad(l) ==
    /\ Len(Loads) < MaxLoads
    /\ ~InLoads(l.id)
    /\ Loads' = Append(Loads, l)
    /\ NCommands' = NCommands + 1
    /\ Grow(LoadSize(l))
    /\ measured' = (measured /\ Measured(l))
    /\ UNCHANGED <<Magic, Sections, orphans>>

(* The sections of the table's end are those of the load at i.             *)
NoneAfter(i) == \A j \in 1 .. Len(Loads) : j > i => Loads[j].nsect = 0
ClaimsLast(i) == Loads[i].nsect # 0 /\ NoneAfter(i)

(* Mutant: the counts are left alone when a load is removed.               *)
RemoveLoadOnly(i) ==
    /\ Loads' = SubSeq(Loads, 1, i - 1) \o SubSeq(Loads, i + 1, Len(Loads))
    /\ NCommands' = NCommands - 1
    /\ measured' = (measured /\ Measured(Loads[i]))
    /\ orphans' = (orphans \/ ClaimsLast(i))
    /\ UNCHANGED <<Magic, SizeCommands, Sections>>

(* The table of sections stays as it is.                                   *)
RemoveLoad(i) ==
    /\ Loads' = SubSeq(Loads, 1, i - 1) \o SubSeq(Loads, i + 1, Len(Loads))
    /\ NCommands' = NCommands - 1
    /\ Grow(-LoadSize(Loads[i]))
    /\ measured' = (measured /\ Measured(Loads[i]))
    /\ orphans' = (orphans \/ ClaimsLast(i))
    /\ UNCHANGED <<Magic, Sections>>

(* AddSegment(s.CopyZeroed()): a bare segment, with the Len of one without *)
(* sections.                                                               *)
AddSegment(l) ==
    AddLoad([l EXCEPT !.nsect = 0, !.firstsect = 0, !.sections = 0])

(* Mutant: a new segment's first section index stays zero.                 *)
AddSectionAtZero ==
    LET last == Len(Loads)
        g    == Loads[last]
    IN  /\ last > 0 /\ Segment(g)
        /\ Len(Sections) < MaxSections
        /\ Loads' = [Loads EXCEPT ![last].nsect = g.nsect + 1,
                                  ![last].len = g.len + SectionSize(g)]
        /\ Sections' = Append(Sections, g.id)
        /\ Grow(SectionSize(g))
        /\ UNCHANGED <<Magic, NCommands, measured, orphans>>

(* The type assertion panics unless the last load is a segment.            *)
AddSection ==
    LET last == Len(Loads)
        g    == Loads[last]
    IN  /\ last > 0 /\ Segment(g)
        /\ Len(Sections) < MaxSections
        /\ Loads' = [Loads EXCEPT ![last] =
                        [g EXCEPT !.nsect = g.nsect + 1,
                                  !.firstsect = IF g.nsect = 0 THEN Len(Sections) ELSE g.firstsect,
                                  !.len = g.len + SectionSize(g)]]
        /\ Sections' = Append(Sections, g.id)
        /\ Grow(SectionSize(g))
        /\ UNCHANGED <<Magic, NCommands, measured, orphans>>

ModifySizeCommands(prev, curr) == Grow(curr - prev)

(* A caller renames a dylib the way Dylib.Write's error asks: Len is       *)
(* recalculated via LoadSize, and the header is told.                      *)
Rename(i, n) ==
    LET l == [Loads[i] EXCEPT !.body = n]
    IN  /\ Loads[i].kind = "dylib"
        /\ Loads' = [Loads EXCEPT ![i] = [l EXCEPT !.len = LoadSize(l)]]
        /\ ModifySizeCommands(Loads[i].len, LoadSize(l))
        /\ UNCHANGED <<Magic, NCommands, Sections, measured, orphans>>

(* Work goes on with the copy, which has a header and nothing else.        *)
DerivedCopy ==
    /\ Loads' = <<>>
    /\ Sections' = <<>>
    /\ NCommands' = 0
    /\ SizeCommands' = 0
    /\ measured' = TRUE
    /\ orphans' = FALSE
    /\ UNCHANGED Magic

Adds == \/ \E l \in NewLoads[Magic] : ~Segment(l) /\ AddLoad(l)
        \/ \E l \in NewLoads[Magic] : Segment(l) /\ AddSegment(l)
        \/ \E i \in DOMAIN Loads, n \in Names : Rename(i, n)
        \/ DerivedCopy
Removes == \E i \in DOMAIN Loads : RemoveLoad(i)

Next == Adds \/ Removes \/ AddSection

Spec == Init /\ [][Next]_vars

-----------------------------------------------------------------------------
(* The commands a file and its callers bring: those other than segments    *)
(* have no sections, and a segment is of one width or the other.           *)
Commands == UNION {ParsedLoads[m] \cup NewLoads[m] : m \in {32, 64}}

LoadRecords ==
    [ id: {l.id : l \in Commands},
      kind: {"segment", "string", "dylib", "thread", "ident", "fixed"},
      len: Nat, head: Nat, body: Nat, nsect: Nat, firstsect: Nat, sections: Nat ]

CommandsAreLoads ==
    /\ Commands \subseteq LoadRecords
    /\ Names \subseteq Nat /\ MaxLoads \in Nat /\ SizeWrap \in Nat \ {0}
    /\ \A l \in Commands : ~Segment(l) => l.nsect = 0

(* What a linker writes for a word size: cmdsize is a multiple of the      *)
(* word, and counts the struct and what follows it.                        *)
AsLinked(l, m) ==
    /\ l.len % LoadAlign(m) = 0
    /\ l.kind = "segment" => /\ l.len = SegmentLoadSize(l)
                             /\ l.head = 72 \/ (l.head = 56 /\ m = 32)
    /\ l.kind = "string" => l.len = Aligned(Size(l) + 1, LoadAlign(m))
    /\ l.kind \in {"thread", "fixed"} => l.len = Size(l)
    /\ l.kind = "ident" => l.len = Aligned(Size(l), 4)

CommandsAreLinked ==
    \A m \in {32, 64} :
        /\ \A l \in ParsedLoads[m] \cup NewLoads[m] : AsLinked(l, m)
        /\ \A l \in NewLoads[m] : Segment(l) => l.nsect = 0

-----------------------------------------------------------------------------
(* Properties.                                                             *)

(* Nothing stands in the way of writing the commands as they were read:    *)
(* no section was counted that its segment's list lacks (AddSection leaves *)
(* that list to its caller), and no name is padded to eight in a file      *)
(* whose commands are aligned to four (PaddedToLoadAlign).                 *)
WrittenAsCounted ==
    /\ \A i \in DOMAIN Loads : CanWrite(Loads[i]) /\ Loads[i].sections = Loads[i].nsect
    /\ Magic = 64 \/ \A i \in DOMAIN Loads : Loads[i].kind # "string"

(* A file written from the table of contents reads back as the same list   *)
(* of commands, in files of both widths and whatever was added and removed *)
(* (AddLoad, RemoveLoad, AddSection): the header counts them, and stepping *)
(* from cmdsize to cmdsize (NewFile) lands on each command                 *)
(* writeLoadCommands wrote.  The bytes the header counts are theirs while  *)
(* each command that came or went had the cmdsize LoadSize computes.       *)
CommandsFollowCmdsize ==
    /\ NCommands = Len(Loads)
    /\ measured => SizeCommands = (CommandEnds(Loads)[Len(Loads)] - HdrSize) % SizeWrap
    /\ WrittenAsCounted => writeLoadCommands = CommandEnds(Loads)

(* The indexes a segment claims in the table of sections are those of its  *)
(* own sections, however adds and removals of segments, sections and other *)
(* commands are interleaved (AddSection, AddSegment, RemoveLoad), until    *)
(* the segment with the last sections of the table is removed, which       *)
(* leaves them in the table behind those of the segment before.            *)
SegmentsIndexTheirSections ==
    ~orphans =>
        \A i \in DOMAIN Loads : Segment(Loads[i]) =>
            \A k \in 1 .. Loads[i].nsect :
                /\ Loads[i].firstsect + k \in DOMAIN Sections
                /\ Sections[Loads[i].firstsect + k] = Loads[i].id

(* What toc.go says of LoadAlign, "the required alignment of Load commands *)
(* in a binary ... used to add padding for necessary alignment": a named   *)
(* command whose cmdsize is that of its name padded so is written in as    *)
(* many bytes.  Dylinker.Write and its like pad to eight in any file.      *)
PaddedToLoadAlign ==
    (\A i \in DOMAIN Loads : CanWrite(Loads[i])) =>
        \A i \in DOMAIN Loads :
            ( /\ Loads[i].kind = "string"
              /\ Loads[i].len = Aligned(Size(Loads[i]) + 1, LoadAlign(Magic)) ) =>
            writeLoadCommands[i] - writeLoadCommands[i - 1] = Loads[i].len

=============================================================================
