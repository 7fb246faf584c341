------------------------------ MODULE MCFiles -------------------------------
(***************************************************************************)
(* Files, in four parts that never run together: the table of contents     *)
(* under edits (TOC), the commands of a file read, written and read again  *)
(* (LoadCommands), public calls that read bytes (Readers), and Export.     *)
(***************************************************************************)
EXTENDS TOC, Readers, LoadCommands, Export

VARIABLE run                             \* "toc", "commands", "readers" or "export"

-----------------------------------------------------------------------------
TocLoad(id, k, len, h, b) ==
    [ id |-> id, kind |-> k, len |-> len, head |-> h, body |-> b,
      nsect |-> 0, firstsect |-> 0, sections |-> 0 ]
Segm(id, h, n) == [TocLoad(id, "segment", h + n * (IF h = 72 THEN 80 ELSE 68), h, 0)
                     EXCEPT !.nsect = n]

(* Segments, LC_UUID, LC_LOAD_DYLINKER with /usr/lib/dyld, LC_LOAD_DYLIB,  *)
(* and commands whose cmdsize is not what LoadSize computes: LC_UNIXTHREAD *)
(* with an x86_64 or i386 state, LC_IDENT, a dylib with spare room; in     *)
(* 32-bit files names are padded to four.                                  *)
MCParsed ==
    [ m \in {32, 64} |->
        { Segm("text", IF m = 64 THEN 72 ELSE 56, 1), Segm("data", IF m = 64 THEN 72 ELSE 56, 1),
          TocLoad("uuid", "fixed", 24, 24, 0), TocLoad("padded", "dylib", 64, 24, 26) }
          \cup (IF m = 64
                THEN { TocLoad("dylinker", "string", 32, 12, 13), TocLoad("dylib", "dylib", 56, 24, 26),
                       TocLoad("thread", "thread", 184, 8, 176), TocLoad("ident", "ident", 16, 8, 5) }
                ELSE { TocLoad("dylinker", "string", 28, 12, 13), TocLoad("dylib", "dylib", 52, 24, 26),
                       TocLoad("thread", "thread", 80, 8, 72), TocLoad("ident", "ident", 12, 8, 2) }) ]
MCNew ==
    [ m \in {32, 64} |->
        { TocLoad("rpath", "string", IF m = 64 THEN 40 ELSE 36, 12, 22),
          TocLoad("added", "dylib", 48, 24, 19), TocLoad("state", "thread", 24, 8, 16),
          Segm("segment", IF m = 64 THEN 72 ELSE 56, 0) } ]
DylibNames == {7, 26, 31}

(* These are commands as FilesProofs has them.                             *)
ASSUME TocAssumption == CommandsAreLoads /\ CommandsAreLinked

-----------------------------------------------------------------------------
(* Commands, each as a linker writes it, and some that NewFile refuses.    *)
Cmd(cmd, siz, num, tail) == [cmd |-> cmd, siz |-> siz, num |-> num, tail |-> tail, bytes |-> siz]
Structs ==
    [ SYMSEG |-> 16, PREPAGE |-> 8, ROUTINES |-> 40, PREBIND_CKSUM |-> 12, ROUTINES_64 |-> 72,
      UUID |-> 24, ENCRYPTION_INFO |-> 20, DYLD_INFO |-> 48, DYLD_INFO_ONLY |-> 48,
      VERSION_MIN_MACOSX |-> 16, VERSION_MIN_IPHONEOS |-> 16, FUNCTION_STARTS |-> 16, MAIN |-> 24,
      SOURCE_VERSION |-> 16, DYLIB_CODE_SIGN_DRS |-> 16, ENCRYPTION_INFO_64 |-> 24,
      LINKER_OPTIMIZATION_HINT |-> 16, VERSION_MIN_TVOS |-> 16, VERSION_MIN_WATCHOS |-> 16,
      DYLD_EXPORTS_TRIE |-> 16, DYLD_CHAINED_FIXUPS |-> 16, ATOM_INFO |-> 16,
      FUNCTION_VARIANTS |-> 16, FUNCTION_VARIANT_FIXUPS |-> 16, LAZY_LOAD_DYLIB_INFO |-> 16,
      SEP_CACHE_SLIDE |-> 16, SEP_UNKNOWN_2 |-> 16, SEP_UNKNOWN_3 |-> 16, UNKNOWN |-> 16 ]
Names12 == {"LOAD_DYLINKER", "ID_DYLINKER", "SUB_FRAMEWORK", "SUB_UMBRELLA", "SUB_CLIENT",
            "SUB_LIBRARY", "RPATH", "DYLD_ENVIRONMENT", "TARGET_TRIPLE"}
DylibKinds == {"LOAD_DYLIB", "ID_DYLIB", "LOAD_WEAK_DYLIB", "REEXPORT_DYLIB", "LAZY_LOAD_DYLIB",
               "LOAD_UPWARD_DYLIB"}
Text(n, pad) == [i \in 1 .. n + pad |-> IF i <= n THEN i ELSE 0]

NamedAt(cmd, head, n, pad) ==
    Cmd(cmd, head + n + pad, [off |-> head, val |-> 7], Text(n, pad))
ADylibCmd(cmd, use, pad) ==
    Cmd(cmd, (IF use THEN 28 ELSE 24) + 2 + pad,
        [off |-> IF use THEN 28 ELSE 24, marker |-> use, flags |-> 0, val |-> 7],
        (IF use THEN <<5>> ELSE <<>>) \o Text(2, pad))
Sect(reloff, n) == [size |-> 4, reloff |-> reloff, nreloc |-> n]
SegCmd(cmd, siz, n, sects) ==
    Cmd(cmd, siz, [nsect |-> n, offset |-> 0, filesz |-> 8, val |-> 7], sects)
ASymtabCmd(n, off) ==
    Cmd("SYMTAB", 24, [stroff |-> 300, strsize |-> 4, symoff |-> off, nsyms |-> n], <<>>)
ADysymtabCmd(i, n, ind) ==
    Cmd("DYSYMTAB", 80, [iundef |-> i, nundef |-> n, indoff |-> 300, nind |-> ind, locoff |-> 300,
                         nlocrel |-> 1, extoff |-> 300, nextrel |-> 0, others |-> 0], <<>>)
DataCmd(cmd, siz, off) ==
    Cmd(cmd, siz, [off |-> off, size |-> 8, valid |-> off < 350, val |-> 7], <<>>)

Sound ==
    {Cmd(k, Structs[k], [val |-> IF k = "PREPAGE" THEN 0 ELSE 7], <<>>) : k \in DOMAIN Structs}
      \cup {NamedAt(k, 12, 3, 1) : k \in Names12}
      \cup {NamedAt("LOADFVMLIB", 20, 2, 2), NamedAt("IDFVMLIB", 20, 2, 2),
            NamedAt("FVMFILE", 16, 5, 3), NamedAt("FILESET_ENTRY", 32, 5, 3)}
      \cup {ADylibCmd(k, use, 6) : k \in DylibKinds, use \in BOOLEAN}
      \cup {Cmd("PREBOUND_DYLIB", 32, [off |-> 20, mods |-> 24, val |-> 7], Text(3, 9)),
            Cmd("THREAD", 24, [val |-> 7], <<1, 2, 8, 9>>),
            Cmd("UNIXTHREAD", 24, [val |-> 7], <<1, 1, 8, 2>>),
            Cmd("TWOLEVEL_HINTS", 24, [count |-> 2, val |-> 7], <<1, 2>>),
            Cmd("BUILD_VERSION", 32, [count |-> 1, val |-> 7], <<3>>),
            Cmd("IDENT", 16, [val |-> 7], <<1, 0, 2, 0, 3, 0, 0, 0>>),
            Cmd("LINKER_OPTION", 16, [count |-> 2], <<1, 0, 2, 0>>),
            SegCmd("SEGMENT_64", 232, 2, <<Sect(0, 0), Sect(300, 1)>>),
            SegCmd("SEGMENT", 124, 1, <<Sect(0, 0)>>),
            ASymtabCmd(2, 320), ADysymtabCmd(1, 1, 1), ADysymtabCmd(0, 0, 0),
            DataCmd("CODE_SIGNATURE", 16, 300), DataCmd("SEGMENT_SPLIT_INFO", 16, 300),
            DataCmd("DATA_IN_CODE", 16, 300), DataCmd("NOTE", 40, 300)}

Unsound ==
    { Cmd("UUID", 16, [val |-> 7], <<>>), NamedAt("RPATH", 12, 0, 0),
      Cmd("UNIXTHREAD", 20, [val |-> 7], <<1, 2, 8>>), Cmd("UUID", 4, [val |-> 7], <<>>),
      Cmd("BUILD_VERSION", 28, [count |-> 1, val |-> 7], <<>>),
      SegCmd("SEGMENT_64", 152, 1, <<Sect(360, 1)>>), ASymtabCmd(9, 320), ADysymtabCmd(1, 2, 0),
      DataCmd("CODE_SIGNATURE", 16, 352), DataCmd("NOTE", 40, 360) }

FileOf(type, cmds) ==
    [ magic |-> 64, type |-> type, ncmds |-> Len(cmds), cmds |-> cmds,
      sizecmds |-> FoldLeft(LAMBDA n, c : c.siz + n, 0, cmds) ]

(* Two commands, symbols before and after the dynamic table, and headers   *)
(* that count more commands or bytes than there are.                       *)
FilesRead ==
    {FileOf("exec", <<c, d>>) : c \in Sound, d \in Sound}
      \cup {FileOf("exec", <<ASymtabCmd(2, 320), c, d>>) : c \in Sound \cup Unsound, d \in Unsound}
      \cup {FileOf("kext", <<c, ASymtabCmd(2, 320), d>>) : c \in Sound, d \in Unsound}
      \cup {[FileOf("exec", <<c>>) EXCEPT !.ncmds = 2] : c \in Sound}
      \cup {[FileOf("exec", <<c>>) EXCEPT !.magic = n] : c \in Sound, n \in {0, 32}}
      \cup {[FileOf("exec", <<c>>) EXCEPT !.sizecmds = n] : c \in Sound, n \in {12, 500}}

MCFilters ==
    [inc: {{}}, exc: {{}, {"UUID", "RPATH"}}]
      \cup {[inc |-> {"SEGMENT", "SEGMENT_64", "UUID", "MAIN"}, exc |-> {"UUID"}],
            [inc |-> {"SYMTAB", "DYSYMTAB", "BUILD_VERSION"}, exc |-> {}]}

(* These are files as FilesProofs has them, those that are refused too.    *)
ASSUME CommandsAssumption == CountsAreNatural /\ FilesAreLinked

-----------------------------------------------------------------------------
(* A file of five bytes in two segments, the second with a zero-fill tail, *)
(* and sections by address, by offset and with an address of zero.         *)
MCSegments ==
    << [addr |-> 4, memsz |-> 3, offset |-> 0, filesz |-> 3],
       [addr |-> 9, memsz |-> 4, offset |-> 3, filesz |-> 2] >>
MCSections ==
    { [size |-> 3, seg |-> "__TEXT", addr |-> 4, offset |-> 0],
      [size |-> 4, seg |-> "__DATA", addr |-> 9, offset |-> 3],
      [size |-> 3, seg |-> "__DWARF", addr |-> 9, offset |-> 1],
      [size |-> 3, seg |-> "__text", addr |-> 0, offset |-> 2] }
MCPointers ==
    [ resolver: {"nil", "knows", "fails"}, fixups: BOOLEAN,
      fix: {"none", "rebase", "self", "bind", "bad"},
      value: {0, 1}, byValue: BOOLEAN, byAddress: {FALSE}, custom: BOOLEAN ]

(* This file is one of those FilesProofs is about.                         *)
ASSUME ReadersAssumption ==
    MachineSizes /\ SegmentsLieApart /\ SectionsLieInSegments

-----------------------------------------------------------------------------
(* Images to export: __TEXT with room for the commands, __DATA with a      *)
(* zero-fill tail, and __LINKEDIT, standing close or apart, of whole pages *)
(* of four or not; the same inside a cache, where offsets are the cache's. *)
ExSegment(name, off, filesz, memsz, addr, sect, n) ==
    [ cmd |-> "SEGMENT", name |-> name, off |-> off, filesz |-> filesz, memsz |-> memsz,
      addr |-> addr, firstsect |-> sect, nsect |-> n ]
ExSect(seg, off, addr, size) == [seg |-> seg, off |-> off, addr |-> addr, size |-> size]
ExTable(cmd, off, size) == [cmd |-> cmd, at |-> [data |-> off], size |-> [data |-> size]]
ExSymtab(off, n) == [cmd |-> "SYMTAB", at |-> [sym |-> off, str |-> off + n], size |-> [sym |-> n, str |-> 1]]
ExDysymtab(off, n) ==
    [ cmd |-> "DYSYMTAB",
      at |-> [toc |-> 0, mod |-> 0, extref |-> 0, indirect |-> off, ext |-> 0, loc |-> 0],
      size |-> [toc |-> 0, mod |-> 0, extref |-> 0, indirect |-> n, ext |-> 0, loc |-> 0] ]
ExInfo(cmd, off) ==
    [ cmd |-> cmd,
      at |-> [rebase |-> off, bind |-> off + 1, weak |-> 0, lazy |-> off + 2, export |-> off],
      size |-> [rebase |-> 1, bind |-> 1, weak |-> 0, lazy |-> 2, export |-> 1] ]

Sym(name, ext, type, target) ==
    [name |-> name, ext |-> ext, type |-> type, target |-> target, value |-> 5]
ExSyms ==
    { <<>>, <<Sym("u", TRUE, "undef", ""), Sym("l", FALSE, "sect", ""), Sym("d", TRUE, "sect", "")>>,
      <<Sym("<redacted>", FALSE, "sect", ""), Sym("d", TRUE, "indr", "u"), Sym("u", TRUE, "undef", "")>>,
      <<Sym("d", TRUE, "indr", "")>> }
ExIndirect == {<<>>, <<1, 90, 2>>, <<0>>}

ExTables(at) ==
    { <<ExTable("FUNCTION_STARTS", at, 3), ExTable("DATA_IN_CODE", at + 3, 0)>>,
      <<ExTable("DYLD_EXPORTS_TRIE", at + 1, 3), ExTable("DYLD_CHAINED_FIXUPS", at, 2),
        ExTable("DATA_IN_CODE", at + 3, 1)>>,
      <<ExTable("LAZY_LOAD_DYLIB_INFO", at, 1), ExTable("LAZY_LOAD_DYLIB_INFO", at + 2, 3),
        ExInfo("DYLD_INFO_ONLY", at + 1)>>,
      <<ExTable("SEGMENT_SPLIT_INFO", at, 1), ExTable("FUNCTION_VARIANTS", at, 0),
        ExTable("FUNCTION_VARIANT_FIXUPS", at + 1, 2), ExInfo("DYLD_INFO", at)>>,
      <<ExTable("ENCRYPTION_INFO_64", at, 1), ExTable("CODE_SIGNATURE", at + 2, 2)>>,
      <<ExTable("ATOM_INFO", at + 1, 2), ExTable("NOTE", at, 3)>>,
      <<ExTable("LINKER_OPTIMIZATION_HINT", 90, 1)>> }

ExImage(inCache, is64, segs, sects, rest, syms, ind, len) ==
    [ inCache |-> inCache, is64 |-> is64, loads |-> segs \o rest, sects |-> sects, syms |-> syms,
      indirect |-> ind, length |-> len, vmEnd |-> 300, trie |-> <<>>,
      ranges |-> [local |-> 0, extdef |-> 0, undef |-> 0] ]

Standalone ==
    { LET data == text + gap
          link == data + datasz + gap
      IN  ExImage(FALSE, TRUE,
            << ExSegment("__TEXT", 0, text, 16, 100, 0, 1),
               ExSegment("__DATA", data, datasz, datasz + 3, 120, 1, 2),
               ExSegment("__LINKEDIT", link, 8, 8, 140, 3, 0) >>,
            << ExSect(1, 12, 112, 2), ExSect(2, data, 120, datasz), ExSect(2, 0, 120 + datasz, 3) >>,
            rest, <<>>, <<>>, link + 8 - short) :
        text \in {14, 16}, gap \in {0, 2}, datasz \in {0, 4, 5}, short \in {0, 1},
        rest \in UNION {{<<ExSymtab(t, 2), ExDysymtab(t + 3, 2)>> \o x : x \in ExTables(t)}
                          : t \in {18, 20, 22, 23, 24, 25}} }

InCache ==
    { ExImage(TRUE, is64,
        << ExSegment("__TEXT", 40, text, 16, 100, 0, 1),
           ExSegment("__DATA", 20, 5, 8, 120, 1, 2),
           ExSegment("__LINKEDIT", 60, 30, 30, 140, 3, 0) >>,
        << ExSect(1, 52, 112, 2), ExSect(2, 20, 120, 5), ExSect(2, 0, 125, 3) >>,
        <<ExSymtab(62, 2), ExDysymtab(66, 2)>> \o rest, syms, ind, 90) :
      text \in {14, 16}, is64 \in BOOLEAN, rest \in ExTables(70), syms \in ExSyms, ind \in ExIndirect }

ExImages ==
    Standalone \cup InCache
      \cup {[x EXCEPT !.trie = <<[name |-> "r", reexport |-> TRUE, target |-> ""],
                                 [name |-> "d", reexport |-> FALSE, target |-> ""]>>] : x \in InCache}
      \cup {[x EXCEPT !.loads = SubSeq(@, 1, 2)] : x \in Standalone \cup InCache}
ExLocals == {<<>>, <<Sym("x", FALSE, "sect", ""), Sym("y", TRUE, "undef", "")>>}

(* These are files as FilesProofs has them.                                *)
ASSUME ExportAssumption == ImagesAreRead

-----------------------------------------------------------------------------
NoToc ==
    /\ Loads = <<>> /\ NCommands = 0 /\ SizeCommands = 0 /\ Sections = <<>>
    /\ Magic = 64 /\ measured = TRUE /\ orphans = FALSE
NoCommands ==
    /\ file = "" /\ filter = "" /\ File = "" /\ first = "" /\ part = ""
NoExport == image = "" /\ opened = "" /\ out = "" /\ exported = FALSE /\ extra = ""

MCInit ==
    \/ run = "toc" /\ Init /\ NoCommands /\ ReadersInit /\ NoExport
    \/ run = "commands" /\ NoToc /\ CommandsInit /\ ReadersInit /\ NoExport
    \/ run = "readers" /\ NoToc /\ NoCommands /\ ReadersInit /\ NoExport
    \/ run = "export" /\ NoToc /\ NoCommands /\ ReadersInit /\ ExportInit

MCNext ==
    /\ UNCHANGED run
    /\ \/ run = "toc" /\ Next /\ UNCHANGED <<commandVars, readerVars, exportVars>>
       \/ run = "commands" /\ CommandsNext /\ UNCHANGED <<vars, readerVars, exportVars>>
       \/ run = "readers" /\ ReadersNext /\ UNCHANGED <<vars, commandVars, exportVars>>
       \/ run = "export" /\ ExportNext /\ UNCHANGED <<vars, commandVars, readerVars>>

MCSpec == MCInit /\ [][MCNext]_<<run, vars, commandVars, readerVars, exportVars>>
=============================================================================
