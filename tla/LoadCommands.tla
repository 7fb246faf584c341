---------------------------- MODULE LoadCommands ----------------------------
(***************************************************************************)
(* NewFile's reading of the load commands (file.go), one operator for each *)
(* case of its switch, and the writing of each type of command (cmds.go).  *)
(*                                                                         *)
(* A command in a file is [cmd, siz, num, tail]: its cmdsize, the fields   *)
(* of its struct that decide how it is read (with val for all the others), *)
(* and what follows the struct: the characters of its strings (0 ends      *)
(* one), or its entries.  A Load is what NewFile makes of it, [cmd, len,   *)
(* head, num, tail], head the size of the struct, tail what it keeps and   *)
(* num what it has set: a field left out is written as zero.  A File is    *)
(* [magic, type, Loads, Sections, Symtab, Dysymtab, err], where Symtab is  *)
(* the number of symbols, or None.                                         *)
(***************************************************************************)
EXTENDS Integers, Sequences, FiniteSets, TLC

CONSTANTS
    Files,          \* [magic, type, ncmds, sizecmds, cmds]
    Filters,        \* [inc, exc], sets of commands to load or to skip
    FileSize,       \* in bytes, for the data commands point at
    Wrap32,         \* 2^32, scaled down
    MaxInt64

VARIABLES
    file,           \* the bytes: see Files
    filter,         \* the FileConfig
    File,           \* what NewFile returned
    first,          \* the File that was written
    part            \* "new", "open", "written" or "reread"

commandVars == <<file, filter, File, first, part>>

None == -1
EmptyFile(fl) ==
    [ magic |-> fl.magic, type |-> fl.type, Loads |-> <<>>, Sections |-> <<>>, Symtab |-> None,
      Dysymtab |-> [iundef |-> None, nundef |-> None], err |-> "" ]
Refused(f) == [f EXCEPT !.err = "format"]
HeaderSize(fl) == IF fl.magic = 64 THEN 32 ELSE 28
Pad(n, a) == ((n + a - 1) \div a) * a

(* The sizes of the structs commands begin with (types/commands.go): a     *)
(* command and its length, then words of four and of eight bytes.          *)
SymsegCmd == 8 + 2 * 4
PrePageCmd == 8
RoutinesCmd == 8 + 8 * 4
PrebindCksumCmd == 8 + 4
Routines64Cmd == 8 + 8 * 8
UUIDCmd == 8 + 16
EncryptionInfoCmd == 8 + 3 * 4
DyldInfoCmd == 8 + 10 * 4
VersionMinCmd == 8 + 2 * 4
LinkEditDataCmd == 8 + 2 * 4
EntryPointCmd == 8 + 2 * 8
SourceVersionCmd == 8 + 8
EncryptionInfo64Cmd == 8 + 4 * 4
LoadFvmLibCmd == 8 + 3 * 4
FvmFileCmd == 8 + 2 * 4
DylinkerCmd == 8 + 4
SubFrameworkCmd == 8 + 4
SubUmbrellaCmd == 8 + 4
SubClientCmd == 8 + 4
SubLibraryCmd == 8 + 4
RpathCmd == 8 + 4
FilesetEntryCmd == 8 + 2 * 8 + 2 * 4
TargetTripleCmd == 8 + 4
PreboundDylibCmd == 8 + 3 * 4
DylibCmd == 8 + 4 * 4
DylibUseCmd == 8 + 5 * 4
ThreadCmd == 8
TwolevelHintsCmd == 8 + 2 * 4
BuildVersionCmd == 8 + 4 * 4
IdentCmd == 8
LinkerOptionCmd == 8 + 4
Segment32 == 8 + 16 + 8 * 4
Segment64 == 8 + 16 + 4 * 8 + 4 * 4
SymtabCmd == 8 + 4 * 4
DysymtabCmd == 8 + 18 * 4
NoteCmd == 8 + 16 + 2 * 8

(* saferio.ReadDataAt and readDataAt of data the file should have.         *)
HasBytes(off, n) == n = 0 \/ off + n <= FileSize

Load(c, num, tail) ==
    [cmd |-> c.cmd, len |-> c.siz, head |-> 8, num |-> num, tail |-> tail]
Appended(f, l) == [f EXCEPT !.Loads = Append(f.Loads, l)]

(* A struct that does not fit the command is an error, as is a check ok    *)
(* that fails.                                                             *)
Kept(f, c, head, ok, l) ==
    IF head <= c.siz /\ ok THEN Appended(f, [l EXCEPT !.head = head]) ELSE Refused(f)

-----------------------------------------------------------------------------
(* Commands that are a struct.  Reserved words, which are zero, are lost.  *)
Struct(f, c, head) == Kept(f, c, head, TRUE, Load(c, c.num, <<>>))

LC_SYMSEG(f, c) == Struct(f, c, SymsegCmd)
LC_PREPAGE(f, c) == Kept(f, c, PrePageCmd, TRUE, Load(c, [val |-> 0], <<>>))
LC_ROUTINES(f, c) == Struct(f, c, RoutinesCmd)
LC_PREBIND_CKSUM(f, c) == Struct(f, c, PrebindCksumCmd)
LC_ROUTINES_64(f, c) == Struct(f, c, Routines64Cmd)
LC_UUID(f, c) == Struct(f, c, UUIDCmd)
LC_ENCRYPTION_INFO(f, c) == Struct(f, c, EncryptionInfoCmd)
LC_DYLD_INFO(f, c) == Struct(f, c, DyldInfoCmd)
LC_DYLD_INFO_ONLY(f, c) == Struct(f, c, DyldInfoCmd)
LC_VERSION_MIN_MACOSX(f, c) == Struct(f, c, VersionMinCmd)
LC_VERSION_MIN_IPHONEOS(f, c) == Struct(f, c, VersionMinCmd)
LC_FUNCTION_STARTS(f, c) == Struct(f, c, LinkEditDataCmd)
LC_MAIN(f, c) == Struct(f, c, EntryPointCmd)
LC_SOURCE_VERSION(f, c) == Struct(f, c, SourceVersionCmd)
LC_DYLIB_CODE_SIGN_DRS(f, c) == Struct(f, c, LinkEditDataCmd)
LC_ENCRYPTION_INFO_64(f, c) == Struct(f, c, EncryptionInfo64Cmd)
LC_LINKER_OPTIMIZATION_HINT(f, c) == Struct(f, c, LinkEditDataCmd)
LC_VERSION_MIN_TVOS(f, c) == Struct(f, c, VersionMinCmd)
LC_VERSION_MIN_WATCHOS(f, c) == Struct(f, c, VersionMinCmd)
LC_DYLD_EXPORTS_TRIE(f, c) == Struct(f, c, LinkEditDataCmd)
LC_DYLD_CHAINED_FIXUPS(f, c) == Struct(f, c, LinkEditDataCmd)
LC_ATOM_INFO(f, c) == Struct(f, c, LinkEditDataCmd)
LC_FUNCTION_VARIANTS(f, c) == Struct(f, c, LinkEditDataCmd)
LC_FUNCTION_VARIANT_FIXUPS(f, c) == Struct(f, c, LinkEditDataCmd)
LC_LAZY_LOAD_DYLIB_INFO(f, c) == Struct(f, c, LinkEditDataCmd)
LC_SEP_CACHE_SLIDE(f, c) == Struct(f, c, LinkEditDataCmd)
LC_SEP_UNKNOWN_2(f, c) == Struct(f, c, LinkEditDataCmd)
LC_SEP_UNKNOWN_3(f, c) == Struct(f, c, LinkEditDataCmd)

-----------------------------------------------------------------------------
(* Commands with a string at an offset that must be inside the command.    *)
(* An offset into the struct itself is not refused, and names some of its  *)
(* bytes (None); cstring stops at a zero or at the end of the command.     *)
UpToNul(s) ==
    LET ends == {i \in 1 .. Len(s) : s[i] = 0}
    IN  IF ends = {} THEN s ELSE SubSeq(s, 1, (CHOOSE i \in ends : \A j \in ends : i <= j) - 1)

cstring(c, head, off) ==
    IF off < head THEN <<None>> ELSE UpToNul(SubSeq(c.tail, off - head + 1, Len(c.tail)))

Named(f, c, head) ==
    Kept(f, c, head, c.num.off < c.siz, Load(c, c.num, cstring(c, head, c.num.off)))

LC_LOADFVMLIB(f, c) == Named(f, c, LoadFvmLibCmd)
LC_IDFVMLIB(f, c) == Named(f, c, LoadFvmLibCmd)
LC_FVMFILE(f, c) == Named(f, c, FvmFileCmd)
LC_LOAD_DYLINKER(f, c) == Named(f, c, DylinkerCmd)
LC_ID_DYLINKER(f, c) == Named(f, c, DylinkerCmd)
LC_SUB_FRAMEWORK(f, c) == Named(f, c, SubFrameworkCmd)
LC_SUB_UMBRELLA(f, c) == Named(f, c, SubUmbrellaCmd)
LC_SUB_CLIENT(f, c) == Named(f, c, SubClientCmd)
LC_SUB_LIBRARY(f, c) == Named(f, c, SubLibraryCmd)
LC_RPATH(f, c) == Named(f, c, RpathCmd)
LC_DYLD_ENVIRONMENT(f, c) == Named(f, c, DylinkerCmd)
LC_FILESET_ENTRY(f, c) == Named(f, c, FilesetEntryCmd)
LC_TARGET_TRIPLE(f, c) == Named(f, c, TargetTripleCmd)

(* Both strings are read; the offset of the second is not kept.            *)
LC_PREBOUND_DYLIB(f, c) ==
    Kept(f, c, PreboundDylibCmd, c.num.off < c.siz /\ c.num.mods < c.siz,
         Load(c, [off |-> c.num.off, val |-> c.num.val],
              <<cstring(c, PreboundDylibCmd, c.num.off),
                cstring(c, PreboundDylibCmd, c.num.mods)>>))

(* A dylib_use_command has a word of flags between the struct and the name *)
(* (offset 28 and a marker in the timestamp).  The tail's first character  *)
(* stands for that word.                                                   *)
IsDylibUseCmd(num) == num.off = DylibUseCmd /\ num.marker

setDylibUseFlags(c, num) ==
    IF IsDylibUseCmd(num) THEN [num EXCEPT !.flags = c.tail[1]] ELSE num

DylibName(c) == UpToNul(SubSeq(c.tail, IF c.num.off = DylibUseCmd THEN 2 ELSE 1, Len(c.tail)))

LC_LOAD_DYLIB(f, c) ==
    Kept(f, c, DylibCmd, c.num.off < c.siz, Load(c, setDylibUseFlags(c, c.num), DylibName(c)))
LC_LOAD_WEAK_DYLIB(f, c) == LC_LOAD_DYLIB(f, c)
LC_REEXPORT_DYLIB(f, c) == LC_LOAD_DYLIB(f, c)
LC_LOAD_UPWARD_DYLIB(f, c) == LC_LOAD_DYLIB(f, c)
LC_ID_DYLIB(f, c) ==
    Kept(f, c, DylibCmd, c.num.off < c.siz, Load(c, c.num, DylibName(c)))
LC_LAZY_LOAD_DYLIB(f, c) == LC_ID_DYLIB(f, c)

-----------------------------------------------------------------------------
(* Commands with entries after the struct.                                 *)

(* Thread states: words flavor, count and count words of data, until the   *)
(* command ends between two of them.  The size in bytes wraps at 2^32.     *)
StateWords(count) == ((count * 4) % Wrap32) \div 4

ThreadStates(words) ==
    LET from[k \in 1 .. Len(words) + 1] ==
          IF k = Len(words) + 1 THEN <<>>
          ELSE IF k + 1 > Len(words) \/ k + 1 + StateWords(words[k + 1]) > Len(words)
               THEN <<"short">>
               ELSE LET next == k + 2 + StateWords(words[k + 1])
                    IN  <<SubSeq(words, k, next - 1)>> \o from[next]
    IN  from[1]

LC_THREAD(f, c) ==
    LET states == ThreadStates(c.tail)
    IN  Kept(f, c, ThreadCmd,
             (c.siz - ThreadCmd) % 4 = 0 /\ \A i \in DOMAIN states : states[i] # "short",
             Load(c, c.num, states))
LC_UNIXTHREAD(f, c) == LC_THREAD(f, c)

(* Hints are counted, and the count is not kept.                           *)
LC_TWOLEVEL_HINTS(f, c) ==
    Kept(f, c, TwolevelHintsCmd, c.num.count * 4 <= c.siz - TwolevelHintsCmd,
         Load(c, [count |-> 0, val |-> c.num.val], SubSeq(c.tail, 1, c.num.count)))

(* Mutant: the number of tools is not kept.                                *)
BuildVersionWithoutCount(f, c) ==
    Kept(f, c, BuildVersionCmd, c.num.count * 8 <= c.siz - BuildVersionCmd,
         Load(c, [c.num EXCEPT !.count = 0], SubSeq(c.tail, 1, c.num.count)))

LC_BUILD_VERSION(f, c) ==
    Kept(f, c, BuildVersionCmd, c.num.count * 8 <= c.siz - BuildVersionCmd,
         Load(c, c.num, SubSeq(c.tail, 1, c.num.count)))

(* Strings with their zeros, as many as are ended.                         *)
EndedStrings(s) ==
    LET ends == {i \in 1 .. Len(s) : s[i] = 0}
        from(i) == LET before == {j \in ends : j < i}
                   IN  IF before = {} THEN 1
                       ELSE 1 + CHOOSE j \in before : \A k \in before : k <= j
    IN  [n \in 1 .. Cardinality(ends) |->
            LET i == CHOOSE i \in ends : Cardinality({j \in ends : j <= i}) = n
            IN  SubSeq(s, from(i), i)]

LC_IDENT(f, c) == Kept(f, c, IdentCmd, TRUE, Load(c, c.num, EndedStrings(c.tail)))

(* Every option is read through a new buffer, which takes the rest of the  *)
(* command with it: only the first is found, and the count is not kept.    *)
LC_LINKER_OPTION(f, c) ==
    LET all == EndedStrings(c.tail)
    IN  Kept(f, c, LinkerOptionCmd, TRUE,
             Load(c, [count |-> 0], IF c.num.count = 0 \/ all = <<>> THEN <<>> ELSE <<all[1]>>))

-----------------------------------------------------------------------------
(* Segments.  A section joins f.Sections before its relocations are read,  *)
(* which matters to nobody: a failure fails the file.                      *)
pushSections(f, shs) == [f EXCEPT !.Sections = f.Sections \o shs]
SectionOK(sh) == sh.size <= MaxInt64 /\ HasBytes(sh.reloff, sh.nreloc * 8)

Indexed(num, n) ==
    [x \in DOMAIN num \cup {"firstsect"} |-> IF x = "firstsect" THEN n ELSE num[x]]

ReadSegment(f, c, head, sectionSize) ==
    LET n == c.num.nsect
        g == Load(c, Indexed(c.num, Len(f.Sections)), SubSeq(c.tail, 1, n))
    IN  IF /\ head + n * sectionSize <= c.siz
           /\ \A i \in 1 .. n : SectionOK(c.tail[i])
           /\ c.num.offset <= MaxInt64 /\ c.num.filesz <= MaxInt64
        THEN Appended(pushSections(f, SubSeq(c.tail, 1, n)), [g EXCEPT !.head = head])
        ELSE Refused(f)

LC_SEGMENT(f, c) == ReadSegment(f, c, Segment32, 68)
LC_SEGMENT_64(f, c) == ReadSegment(f, c, Segment64, 80)

-----------------------------------------------------------------------------
(* Commands whose data NewFile reads.                                      *)
SymbolSize(f) == IF f.magic = 64 THEN 16 ELSE 12

parseSymtab(c) == c.num.nsyms

LC_SYMTAB(f, c) ==
    Kept([f EXCEPT !.Symtab = parseSymtab(c)], c, SymtabCmd,
         HasBytes(c.num.stroff, c.num.strsize) /\ HasBytes(c.num.symoff, c.num.nsyms * SymbolSize(f)),
         Load(c, c.num, <<>>))

(* A kext may have a dynamic table without symbols before any LC_SYMTAB.   *)
parseRelocations(off, count) == HasBytes(off, count * 8)

NoSymbols(num) ==
    num.iundef = 0 /\ num.nundef = 0 /\ num.nind = 0 /\ num.nextrel = 0 /\ num.others = 0

LC_DYSYMTAB(f, c) ==
    LET n    == c.num
        syms == IF f.Symtab = None /\ f.type = "kext" /\ NoSymbols(n) THEN 0 ELSE f.Symtab
    IN  Kept([f EXCEPT !.Symtab = syms, !.Dysymtab = [iundef |-> n.iundef, nundef |-> n.nundef]],
             c, DysymtabCmd,
             /\ syms # None
             /\ n.iundef <= syms
             /\ (n.iundef + n.nundef) % Wrap32 <= syms
             /\ HasBytes(n.indoff, n.nind * 4)
             /\ parseRelocations(n.locoff, n.nlocrel)
             /\ parseRelocations(n.extoff, n.nextrel),
             Load(c, n, <<>>))

PointsAtData(f, c, head, ok) ==
    Kept(f, c, head, HasBytes(c.num.off, c.num.size) /\ ok, Load(c, c.num, <<>>))

LC_CODE_SIGNATURE(f, c) == PointsAtData(f, c, LinkEditDataCmd, c.num.valid)
LC_SEGMENT_SPLIT_INFO(f, c) == PointsAtData(f, c, LinkEditDataCmd, TRUE)
LC_DATA_IN_CODE(f, c) == PointsAtData(f, c, LinkEditDataCmd, TRUE)
LC_NOTE(f, c) == PointsAtData(f, c, NoteCmd, TRUE)

(* Commands nobody knows are kept as they are.                             *)
LoadCmdBytes(f, c) == Appended(f, Load(c, c.num, c.tail))

ReadCommand(f, c) ==
    CASE c.cmd = "SYMSEG" -> LC_SYMSEG(f, c)
      [] c.cmd = "PREPAGE" -> LC_PREPAGE(f, c)
      [] c.cmd = "ROUTINES" -> LC_ROUTINES(f, c)
      [] c.cmd = "PREBIND_CKSUM" -> LC_PREBIND_CKSUM(f, c)
      [] c.cmd = "ROUTINES_64" -> LC_ROUTINES_64(f, c)
      [] c.cmd = "UUID" -> LC_UUID(f, c)
      [] c.cmd = "ENCRYPTION_INFO" -> LC_ENCRYPTION_INFO(f, c)
      [] c.cmd = "DYLD_INFO" -> LC_DYLD_INFO(f, c)
      [] c.cmd = "DYLD_INFO_ONLY" -> LC_DYLD_INFO_ONLY(f, c)
      [] c.cmd = "VERSION_MIN_MACOSX" -> LC_VERSION_MIN_MACOSX(f, c)
      [] c.cmd = "VERSION_MIN_IPHONEOS" -> LC_VERSION_MIN_IPHONEOS(f, c)
      [] c.cmd = "FUNCTION_STARTS" -> LC_FUNCTION_STARTS(f, c)
      [] c.cmd = "MAIN" -> LC_MAIN(f, c)
      [] c.cmd = "SOURCE_VERSION" -> LC_SOURCE_VERSION(f, c)
      [] c.cmd = "DYLIB_CODE_SIGN_DRS" -> LC_DYLIB_CODE_SIGN_DRS(f, c)
      [] c.cmd = "ENCRYPTION_INFO_64" -> LC_ENCRYPTION_INFO_64(f, c)
      [] c.cmd = "LINKER_OPTIMIZATION_HINT" -> LC_LINKER_OPTIMIZATION_HINT(f, c)
      [] c.cmd = "VERSION_MIN_TVOS" -> LC_VERSION_MIN_TVOS(f, c)
      [] c.cmd = "VERSION_MIN_WATCHOS" -> LC_VERSION_MIN_WATCHOS(f, c)
      [] c.cmd = "DYLD_EXPORTS_TRIE" -> LC_DYLD_EXPORTS_TRIE(f, c)
      [] c.cmd = "DYLD_CHAINED_FIXUPS" -> LC_DYLD_CHAINED_FIXUPS(f, c)
      [] c.cmd = "ATOM_INFO" -> LC_ATOM_INFO(f, c)
      [] c.cmd = "FUNCTION_VARIANTS" -> LC_FUNCTION_VARIANTS(f, c)
      [] c.cmd = "FUNCTION_VARIANT_FIXUPS" -> LC_FUNCTION_VARIANT_FIXUPS(f, c)
      [] c.cmd = "LAZY_LOAD_DYLIB_INFO" -> LC_LAZY_LOAD_DYLIB_INFO(f, c)
      [] c.cmd = "SEP_CACHE_SLIDE" -> LC_SEP_CACHE_SLIDE(f, c)
      [] c.cmd = "SEP_UNKNOWN_2" -> LC_SEP_UNKNOWN_2(f, c)
      [] c.cmd = "SEP_UNKNOWN_3" -> LC_SEP_UNKNOWN_3(f, c)
      [] c.cmd = "LOADFVMLIB" -> LC_LOADFVMLIB(f, c)
      [] c.cmd = "IDFVMLIB" -> LC_IDFVMLIB(f, c)
      [] c.cmd = "FVMFILE" -> LC_FVMFILE(f, c)
      [] c.cmd = "LOAD_DYLINKER" -> LC_LOAD_DYLINKER(f, c)
      [] c.cmd = "ID_DYLINKER" -> LC_ID_DYLINKER(f, c)
      [] c.cmd = "SUB_FRAMEWORK" -> LC_SUB_FRAMEWORK(f, c)
      [] c.cmd = "SUB_UMBRELLA" -> LC_SUB_UMBRELLA(f, c)
      [] c.cmd = "SUB_CLIENT" -> LC_SUB_CLIENT(f, c)
      [] c.cmd = "SUB_LIBRARY" -> LC_SUB_LIBRARY(f, c)
      [] c.cmd = "RPATH" -> LC_RPATH(f, c)
      [] c.cmd = "DYLD_ENVIRONMENT" -> LC_DYLD_ENVIRONMENT(f, c)
      [] c.cmd = "FILESET_ENTRY" -> LC_FILESET_ENTRY(f, c)
      [] c.cmd = "TARGET_TRIPLE" -> LC_TARGET_TRIPLE(f, c)
      [] c.cmd = "PREBOUND_DYLIB" -> LC_PREBOUND_DYLIB(f, c)
      [] c.cmd = "LOAD_DYLIB" -> LC_LOAD_DYLIB(f, c)
      [] c.cmd = "LOAD_WEAK_DYLIB" -> LC_LOAD_WEAK_DYLIB(f, c)
      [] c.cmd = "REEXPORT_DYLIB" -> LC_REEXPORT_DYLIB(f, c)
      [] c.cmd = "LOAD_UPWARD_DYLIB" -> LC_LOAD_UPWARD_DYLIB(f, c)
      [] c.cmd = "ID_DYLIB" -> LC_ID_DYLIB(f, c)
      [] c.cmd = "LAZY_LOAD_DYLIB" -> LC_LAZY_LOAD_DYLIB(f, c)
      [] c.cmd = "THREAD" -> LC_THREAD(f, c)
      [] c.cmd = "UNIXTHREAD" -> LC_UNIXTHREAD(f, c)
      [] c.cmd = "TWOLEVEL_HINTS" -> LC_TWOLEVEL_HINTS(f, c)
      [] c.cmd = "BUILD_VERSION" -> LC_BUILD_VERSION(f, c)
      [] c.cmd = "IDENT" -> LC_IDENT(f, c)
      [] c.cmd = "LINKER_OPTION" -> LC_LINKER_OPTION(f, c)
      [] c.cmd = "SEGMENT" -> LC_SEGMENT(f, c)
      [] c.cmd = "SEGMENT_64" -> LC_SEGMENT_64(f, c)
      [] c.cmd = "SYMTAB" -> LC_SYMTAB(f, c)
      [] c.cmd = "DYSYMTAB" -> LC_DYSYMTAB(f, c)
      [] c.cmd = "CODE_SIGNATURE" -> LC_CODE_SIGNATURE(f, c)
      [] c.cmd = "SEGMENT_SPLIT_INFO" -> LC_SEGMENT_SPLIT_INFO(f, c)
      [] c.cmd = "DATA_IN_CODE" -> LC_DATA_IN_CODE(f, c)
      [] c.cmd = "NOTE" -> LC_NOTE(f, c)
      [] OTHER -> LoadCmdBytes(f, c)

(* The loop of NewFile: the commands are as many as the header says and    *)
(* must be within its size of them, or the file is refused.                *)
Wanted(cmd, flt) == (flt.inc = {} \/ cmd \in flt.inc) /\ cmd \notin flt.exc

(* Mutant: a list of commands to load makes the list to skip void.         *)
IncludingWins(f, c, flt) ==
    IF f.err = "" /\ (IF flt.inc = {} THEN c.cmd \notin flt.exc ELSE c.cmd \in flt.inc)
    THEN ReadCommand(f, c) ELSE f

loadInSlice(f, c, flt) == IF f.err = "" /\ Wanted(c.cmd, flt) THEN ReadCommand(f, c) ELSE f

SizeLeft(fl) ==
    LET left[i \in 0 .. Len(fl.cmds)] ==
          IF i = 0 THEN fl.sizecmds ELSE left[i - 1] - fl.cmds[i].siz
    IN  left

SoundSizes(fl) ==
    \A i \in 1 .. fl.ncmds :
      /\ i <= Len(fl.cmds)
      /\ SizeLeft(fl)[i - 1] >= 8
      /\ 8 <= fl.cmds[i].siz /\ fl.cmds[i].siz <= SizeLeft(fl)[i - 1]

(* The File after the first i commands.                                    *)
LoadsUpTo(fl, flt) ==
    LET f[i \in 0 .. fl.ncmds] ==
          IF i = 0 THEN EmptyFile(fl) ELSE loadInSlice(f[i - 1], fl.cmds[i], flt)
    IN  f

NewFile(fl, flt) ==
    IF fl.magic \notin {32, 64} \/ ~HasBytes(HeaderSize(fl), fl.sizecmds) \/ ~SoundSizes(fl)
    THEN Refused(EmptyFile(fl))
    ELSE LoadsUpTo(fl, flt)[fl.ncmds]

-----------------------------------------------------------------------------
(* Writing.  Each type writes its struct and what follows it, in bytes     *)
(* that may be more or fewer than its cmdsize says.                        *)
AsWritten(l, num, tail, n) ==
    [cmd |-> l.cmd, siz |-> l.len, num |-> num, tail |-> tail, bytes |-> n]
Padded(s, head, len) == s \o [i \in 1 .. (IF len > head + Len(s) THEN len - head - Len(s) ELSE 0) |-> 0]

WriteStruct(l) == AsWritten(l, l.num, <<>>, l.head)

WriteSymtab(l) == WriteStruct(l)
WriteSymSeg(l) == WriteStruct(l)
WritePrepage(l) == WriteStruct(l)
WriteDysymtab(l) == WriteStruct(l)
WriteRoutines(l) == WriteStruct(l)
WritePrebindCheckSum(l) == WriteStruct(l)
WriteRoutines64(l) == WriteStruct(l)
WriteUUID(l) == WriteStruct(l)
WriteCodeSignature(l) == WriteStruct(l)
WriteSplitInfo(l) == WriteStruct(l)
WriteEncryptionInfo(l) == WriteStruct(l)
WriteDyldInfo(l) == WriteStruct(l)
WriteEntryPoint(l) == WriteStruct(l)
WriteDataInCode(l) == WriteStruct(l)
WriteSourceVersion(l) == WriteStruct(l)
WriteEncryptionInfo64(l) == WriteStruct(l)
WriteNote(l) == WriteStruct(l)
WriteSepCacheSlide(l) == WriteStruct(l)
WriteVersionMin(l) == WriteStruct(l)
WriteLinkEditData(l) == WriteStruct(l)

(* A name goes right after the struct, and the buffer is padded to eight.  *)
WriteString(l, at) ==
    LET n == Pad(at + l.head + Len(l.tail) + 1, 8) - at
    IN  AsWritten(l, l.num, Padded(Append(l.tail, 0), l.head, n), n)

WriteLoadFvmlib(l, at) == WriteString(l, at)
WriteFvmFile(l, at) == WriteString(l, at)
WriteSubFramework(l, at) == WriteString(l, at)
WriteSubUmbrella(l, at) == WriteString(l, at)
WriteSubClient(l, at) == WriteString(l, at)
WriteSubLibrary(l, at) == WriteString(l, at)
WriteRpath(l, at) == WriteString(l, at)
WriteDylinker(l, at) == WriteString(l, at)
WriteFilesetEntry(l, at) == WriteString(l, at)
WriteTargetTriple(l, at) == WriteString(l, at)

WritePreboundDylib(l, at) ==
    LET strings == l.tail[1] \o <<0>> \o l.tail[2] \o <<0>>
        n       == Pad(at + l.head + Len(strings), 8) - at
    IN  AsWritten(l, [mods |-> 0] @@ l.num, Padded(strings, l.head, n), n)

(* A dylib is padded to its cmdsize; a name that does not fit is an error. *)
WriteDylib(l) ==
    LET name == Append(l.tail, 0)
        head == IF IsDylibUseCmd(l.num) THEN DylibUseCmd ELSE l.head
        rest == Padded(name, head, l.len)
    IN  AsWritten(l, l.num, IF IsDylibUseCmd(l.num) THEN <<l.num.flags>> \o rest ELSE rest,
              head + Len(rest))

(* One after the other.                                                    *)
Joined(s) ==
    LET joined[i \in 0 .. Len(s)] == IF i = 0 THEN <<>> ELSE joined[i - 1] \o s[i]
    IN  joined[Len(s)]

WriteThread(l) ==
    LET words == Joined(l.tail) IN AsWritten(l, l.num, words, l.head + 4 * Len(words))

WriteTwolevelHints(l) == AsWritten(l, l.num, l.tail, l.head + 4 * Len(l.tail))
WriteBuildVersion(l) == AsWritten(l, l.num, l.tail, l.head + 8 * Len(l.tail))

WriteIdent(l, at) ==
    LET strings == Joined([i \in DOMAIN l.tail |-> Append(l.tail[i], 0)])
        n       == Pad(at + l.head + Len(strings), 4) - at
    IN  AsWritten(l, l.num, Padded(strings, l.head, n), n)

WriteLinkerOption(l) ==
    LET strings == Joined([i \in DOMAIN l.tail |-> Append(l.tail[i], 0)])
    IN  AsWritten(l, l.num, strings, l.head + Len(strings))

WriteSegment(l, sectionSize) ==
    AsWritten(l, l.num, l.tail, l.head + sectionSize * Len(l.tail))

Dylibs == {"LOAD_DYLIB", "ID_DYLIB", "LOAD_WEAK_DYLIB", "REEXPORT_DYLIB", "LAZY_LOAD_DYLIB",
           "LOAD_UPWARD_DYLIB"}
Dylinkers == {"LOAD_DYLINKER", "ID_DYLINKER", "DYLD_ENVIRONMENT"}
LinkEdits == {"FUNCTION_STARTS", "DYLIB_CODE_SIGN_DRS", "LINKER_OPTIMIZATION_HINT",
              "DYLD_EXPORTS_TRIE", "DYLD_CHAINED_FIXUPS", "ATOM_INFO", "FUNCTION_VARIANTS",
              "FUNCTION_VARIANT_FIXUPS", "LAZY_LOAD_DYLIB_INFO"}
SepCaches == {"SEP_CACHE_SLIDE", "SEP_UNKNOWN_2", "SEP_UNKNOWN_3"}
VersionMins == {"VERSION_MIN_MACOSX", "VERSION_MIN_IPHONEOS", "VERSION_MIN_TVOS",
                "VERSION_MIN_WATCHOS"}

WriteLoad(l, at) ==
    CASE l.cmd = "SEGMENT" -> WriteSegment(l, 68)
      [] l.cmd = "SEGMENT_64" -> WriteSegment(l, 80)
      [] l.cmd = "SYMTAB" -> WriteSymtab(l)
      [] l.cmd = "SYMSEG" -> WriteSymSeg(l)
      [] l.cmd \in {"THREAD", "UNIXTHREAD"} -> WriteThread(l)
      [] l.cmd \in {"LOADFVMLIB", "IDFVMLIB"} -> WriteLoadFvmlib(l, at)
      [] l.cmd = "IDENT" -> WriteIdent(l, at)
      [] l.cmd = "FVMFILE" -> WriteFvmFile(l, at)
      [] l.cmd = "PREPAGE" -> WritePrepage(l)
      [] l.cmd = "DYSYMTAB" -> WriteDysymtab(l)
      [] l.cmd \in Dylibs -> WriteDylib(l)
      [] l.cmd \in Dylinkers -> WriteDylinker(l, at)
      [] l.cmd = "PREBOUND_DYLIB" -> WritePreboundDylib(l, at)
      [] l.cmd = "ROUTINES" -> WriteRoutines(l)
      [] l.cmd = "SUB_FRAMEWORK" -> WriteSubFramework(l, at)
      [] l.cmd = "SUB_UMBRELLA" -> WriteSubUmbrella(l, at)
      [] l.cmd = "SUB_CLIENT" -> WriteSubClient(l, at)
      [] l.cmd = "SUB_LIBRARY" -> WriteSubLibrary(l, at)
      [] l.cmd = "TWOLEVEL_HINTS" -> WriteTwolevelHints(l)
      [] l.cmd = "PREBIND_CKSUM" -> WritePrebindCheckSum(l)
      [] l.cmd = "ROUTINES_64" -> WriteRoutines64(l)
      [] l.cmd = "UUID" -> WriteUUID(l)
      [] l.cmd = "RPATH" -> WriteRpath(l, at)
      [] l.cmd = "CODE_SIGNATURE" -> WriteCodeSignature(l)
      [] l.cmd = "SEGMENT_SPLIT_INFO" -> WriteSplitInfo(l)
      [] l.cmd = "ENCRYPTION_INFO" -> WriteEncryptionInfo(l)
      [] l.cmd \in {"DYLD_INFO", "DYLD_INFO_ONLY"} -> WriteDyldInfo(l)
      [] l.cmd = "MAIN" -> WriteEntryPoint(l)
      [] l.cmd = "DATA_IN_CODE" -> WriteDataInCode(l)
      [] l.cmd = "SOURCE_VERSION" -> WriteSourceVersion(l)
      [] l.cmd = "ENCRYPTION_INFO_64" -> WriteEncryptionInfo64(l)
      [] l.cmd = "LINKER_OPTION" -> WriteLinkerOption(l)
      [] l.cmd = "NOTE" -> WriteNote(l)
      [] l.cmd = "BUILD_VERSION" -> WriteBuildVersion(l)
      [] l.cmd = "FILESET_ENTRY" -> WriteFilesetEntry(l, at)
      [] l.cmd = "TARGET_TRIPLE" -> WriteTargetTriple(l, at)
      [] l.cmd \in SepCaches -> WriteSepCacheSlide(l)
      [] l.cmd \in VersionMins -> WriteVersionMin(l)
      [] l.cmd \in LinkEdits -> WriteLinkEditData(l)
      [] OTHER -> AsWritten(l, l.num, l.tail, l.len)

(* writeLoadCommands: each command where the one before it ends; refused   *)
(* when a dylib does not fit.                                              *)
WritesAt(f) ==
    LET at[i \in 0 .. Len(f.Loads)] ==
          IF i = 0 THEN HeaderSize(f) ELSE at[i - 1] + WriteLoad(f.Loads[i], at[i - 1]).bytes
    IN  at

WrittenCommands(f) == [i \in 1 .. Len(f.Loads) |-> WriteLoad(f.Loads[i], WritesAt(f)[i - 1])]

DylibsFit(f) ==
    \A i \in DOMAIN f.Loads :
      f.Loads[i].cmd \in Dylibs => WrittenCommands(f)[i].bytes <= f.Loads[i].len

-----------------------------------------------------------------------------
(* What proofs assume of the files.  ncmds is a uint32.                    *)
CountsAreNatural == \A fl \in Files : fl.ncmds \in Nat

(* Where the string of a command is, when a linker has written it.         *)
StringStart ==
    [ LOADFVMLIB |-> LoadFvmLibCmd, IDFVMLIB |-> LoadFvmLibCmd, FVMFILE |-> FvmFileCmd,
      LOAD_DYLINKER |-> DylinkerCmd, ID_DYLINKER |-> DylinkerCmd, DYLD_ENVIRONMENT |-> DylinkerCmd,
      SUB_FRAMEWORK |-> SubFrameworkCmd, SUB_UMBRELLA |-> SubUmbrellaCmd,
      SUB_CLIENT |-> SubClientCmd, SUB_LIBRARY |-> SubLibraryCmd, RPATH |-> RpathCmd,
      FILESET_ENTRY |-> FilesetEntryCmd, TARGET_TRIPLE |-> TargetTripleCmd ]

(* A list tells its length, and n entries that fit the command are in it.  *)
IsAList(s) == Len(s) \in Nat /\ s = [i \in 1 .. Len(s) |-> s[i]]
HasEntries(c, head, size, n) == n \in Nat /\ (head + n * size <= c.siz => n <= Len(c.tail))

AsLinkersWrite(c) ==
    /\ c.siz \in Nat /\ IsAList(c.tail)
    /\ c.cmd \in DOMAIN StringStart => c.num.off = StringStart[c.cmd]
    /\ c.cmd \in Dylibs => /\ {"off", "marker", "flags"} \subseteq DOMAIN c.num
                           /\ c.num.off = DylibCmd \/ IsDylibUseCmd(c.num)
    /\ c.cmd \in {"THREAD", "UNIXTHREAD"} => \A i \in 1 .. Len(c.tail) : c.tail[i] \in Nat
    /\ c.cmd = "BUILD_VERSION" => HasEntries(c, BuildVersionCmd, 8, c.num.count)
    /\ c.cmd \in {"SEGMENT", "SEGMENT_64"} => {"nsect", "offset", "filesz"} \subseteq DOMAIN c.num
    /\ c.cmd = "SEGMENT" => HasEntries(c, Segment32, 68, c.num.nsect)
    /\ c.cmd = "SEGMENT_64" => HasEntries(c, Segment64, 80, c.num.nsect)

FilesAreLinked ==
    /\ Wrap32 \in Nat \ {0}
    /\ \A fl \in Files :
         /\ {"magic", "type", "ncmds", "sizecmds", "cmds"} \subseteq DOMAIN fl
         /\ fl.sizecmds \in Nat /\ IsAList(fl.cmds)
         /\ \A i \in 1 .. Len(fl.cmds) : AsLinkersWrite(fl.cmds[i])

-----------------------------------------------------------------------------
CommandsInit ==
    /\ file \in Files /\ filter \in Filters
    /\ File = EmptyFile(file) /\ first = EmptyFile(file) /\ part = "new"

Open ==
    /\ part \in {"new", "written"}
    /\ File' = NewFile(file, filter)
    /\ part' = IF part = "new" THEN "open" ELSE "reread"
    /\ UNCHANGED <<file, filter, first>>

(* The commands of a file that was opened whole are written back, behind   *)
(* the header it was read with.                                            *)
Write ==
    /\ part = "open" /\ File.err = ""
    /\ filter.inc = {} /\ filter.exc = {}
    /\ DylibsFit(File)
    /\ first' = File
    /\ file' = [file EXCEPT !.cmds = WrittenCommands(File)]
    /\ part' = "written"
    /\ UNCHANGED <<filter, File>>

CommandsNext == Open \/ Write
CommandsSpec == CommandsInit /\ [][CommandsNext]_commandVars

-----------------------------------------------------------------------------
(* What Write does not give back: NewFile does not keep the counts of      *)
(* hints and linker options nor the second offset of a prebound dylib, and *)
(* the strings of LC_IDENT and LC_LINKER_OPTION have two zeros afterwards. *)
Lossy == {"TWOLEVEL_HINTS", "LINKER_OPTION", "PREBOUND_DYLIB", "IDENT"}

(* A file whose commands are as large as Write makes them is, once written *)
(* back and read again, the same file: the same commands with the same     *)
(* strings and entries, sections and symbol tables.                        *)
RereadIsTheSame ==
    part = "reread"
      /\ (\A i \in DOMAIN first.Loads :
            first.Loads[i].cmd \notin Lossy /\ file.cmds[i].bytes = first.Loads[i].len)
    => File = first

(* Loading only some kinds of commands, or leaving some out, gives those   *)
(* commands of the whole file: the filter decides only which are kept.     *)
(* Kinds that NewFile relates are chosen together: LC_SEGMENT and          *)
(* LC_SEGMENT_64 share the indexes of sections, LC_DYSYMTAB needs symbols. *)
Related == {{"SEGMENT", "SEGMENT_64"}, {"SYMTAB", "DYSYMTAB"}}
NoFilter == [inc |-> {}, exc |-> {}]

(* Those of the loads ls that the filter wants.                            *)
OnlyWanted(ls, flt) ==
    LET some[i \in 0 .. Len(ls)] ==
          IF i = 0 THEN <<>>
          ELSE IF Wanted(ls[i].cmd, flt) THEN Append(some[i - 1], ls[i]) ELSE some[i - 1]
    IN  some[Len(ls)]

FilterIsProjection ==
    LET whole == NewFile(file, NoFilter)
    IN  part = "open" /\ whole.err = ""
          /\ (\A r \in Related : \A k, m \in r : Wanted(k, filter) <=> Wanted(m, filter))
        => /\ File.err = ""
           /\ File.Loads = OnlyWanted(whole.Loads, filter)
=============================================================================
