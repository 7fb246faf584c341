------------------------------ MODULE Signing -------------------------------
(***************************************************************************)
(* Signing and saving a Mach-O file (export.go): CodeSign changes the      *)
(* header, the load commands and __LINKEDIT in memory, signs what a save   *)
(* would write before the signature, and takes everything back when a      *)
(* later step fails; SaveBuffer writes the file; the result may be opened  *)
(* again.  Mutators run one at a time, so each call is one action.  Every  *)
(* call brings a config of its own; of the config a successful call fills  *)
(* in, only the identifier is kept, in call.                               *)
(*                                                                         *)
(* The unit is a word of eight bytes and a file is a sequence of words.    *)
(* The commands other than LC_CODE_SIGNATURE and the __LINKEDIT segment    *)
(* keep their contents; layout gives their sizes as LoadSize computes them *)
(* and as Write writes them, the end of __TEXT, the first section in it,   *)
(* and the start of __LINKEDIT.  Segments follow each other without gaps.  *)
(***************************************************************************)
EXTENDS Integers, Sequences

CONSTANTS
    Layouts,            \* layouts of opened files
    IDs,                \* identifiers a caller may ask for, "" for none
    Estimates,          \* values of EstimateCodeSignatureSize, in words
    SignatureSizes,     \* sizes of the encoded signature; 0: the signer fails
    HdrSize, LinkeditCmd, SignatureCmd, OtherCmd,  \* sizes of commands
    SignatureAlign,     \* checkedAlign(_, 16)
    PageSize,           \* f.pageSize()
    MaxU32,             \* largest offset LC_CODE_SIGNATURE can hold
    MaxCalls,           \* bound on the number of calls
    NoData, NoCall

ASSUME SizesAssumption ==
    /\ {HdrSize, LinkeditCmd, SignatureCmd, OtherCmd, MaxU32} \subseteq Nat
    /\ {SignatureAlign, PageSize} \subseteq Nat \ {0}
    /\ Estimates \subseteq Nat
    /\ SignatureSizes \subseteq Nat

(* LC_CODE_SIGNATURE in memory: its fields, and the identifier of the      *)
(* primary CodeDirectory parsed from the file ("" when none was parsed).   *)
Signature(offset, size, primary) ==
    [tag |-> "signature", offset |-> offset, size |-> size, primary |-> primary]
NoSignature == [tag |-> "none", offset |-> 0, size |-> 0, primary |-> ""]

(* The commands of an opened file end before its first section, and a      *)
(* signature it has lies behind __TEXT.                                    *)
ASSUME LayoutsAssumption ==
    \A l \in Layouts :
        /\ l.ncmds \in Nat /\ l.loadSize \in Nat /\ l.written \in Nat
        /\ l.section \in Nat /\ l.text \in Nat /\ l.linkedit \in Nat
        /\ l.filesz \in Nat /\ l.extra \in Nat
        /\ l.section <= l.text /\ l.text <= l.linkedit
        /\ l.section # 0 => HdrSize + l.written + LinkeditCmd
                             + (IF l.cs = NoSignature THEN 0 ELSE SignatureCmd) <= l.section
        /\ l.cs # NoSignature =>
              /\ l.cs = Signature(l.cs.offset, l.cs.size, l.cs.primary)
              /\ l.cs.offset \in Nat
              /\ l.cs.offset >= l.text

VARIABLES
    layout,     \* of the opened file
    image,      \* contents of the opened file, behind f.cr
    f,          \* [NCommands, SizeCommands, added, filesz, memsz, cs, ledata]
    current,    \* the commands have not been edited since they were signed
    saved,      \* what SaveBuffer wrote since the last change, or NoData
    call,       \* the last CodeSign: [id, err, signed]
    calls
vars == <<layout, image, f, current, saved, call, calls>>

-----------------------------------------------------------------------------
Align(value, alignment) == ((value + alignment - 1) \div alignment) * alignment
Slice(s, from, to) == SubSeq(s, from + 1, to)       \* words from .. to - 1
Copies(n, word) == [k \in 1 .. n |-> word]
Zeros(n) == Copies(n, <<"zero">>)

NumCommands(file) == layout.ncmds + file.added + (IF file.cs = NoSignature THEN 0 ELSE 1)

LoadSize(file) ==
    layout.loadSize + LinkeditCmd + file.added * OtherCmd
      + (IF file.cs = NoSignature THEN 0 ELSE SignatureCmd)

(* writeCodeSignFileHeader and writeLoadCommands.                          *)
HeaderAndLoads(file) ==
    Copies(HdrSize, <<"header", file.NCommands, file.SizeCommands>>)
      \o Copies(layout.written, <<"commands">>)
      \o Copies(LinkeditCmd, <<"linkedit", file.filesz, file.memsz>>)
      \o Copies(file.added * OtherCmd, <<"added">>)
      \o (IF file.cs = NoSignature THEN <<>>
          ELSE Copies(SignatureCmd, <<"signature", file.cs.offset, file.cs.size>>))

Linkedit == layout.linkedit
FirstText == IF layout.section = 0 THEN layout.text ELSE layout.section

-----------------------------------------------------------------------------
(* CodeSign.                                                               *)

SignatureOffset ==
    IF f.cs = NoSignature THEN Align(Linkedit + f.filesz, SignatureAlign)
    ELSE f.cs.offset

(* Mutant: the size of the new command is not counted.                     *)
LoadSpaceWithoutCommand ==
    layout.section # 0 => HdrSize + LoadSize(f) <= layout.section

validateCodeSignatureLoadSpace ==
    layout.section # 0 => HdrSize + LoadSize(f) + SignatureCmd <= layout.section

LEDataLength == SignatureOffset - Linkedit
LESize == IF LEDataLength > f.filesz THEN f.filesz ELSE LEDataLength

(* The early returns, before anything is changed.                          *)
EarlyError(id) ==
    IF f.cs = NoSignature /\ id = "" THEN "no ID"
    ELSE IF f.cs = NoSignature /\ SignatureOffset > MaxU32 THEN "offset"
    ELSE IF f.cs = NoSignature /\ ~validateCodeSignatureLoadSpace THEN "header padding"
    ELSE IF SignatureOffset < Linkedit THEN "before linkedit"
    ELSE IF f.cs # NoSignature /\ f.cs.offset + f.cs.size > Linkedit + f.filesz
    THEN "past linkedit"
    ELSE IF Linkedit + LESize > Len(image) THEN "read"
    ELSE "none"

(* An empty identifier takes the one of the parsed signature.              *)
EffectiveID(id) ==
    IF id = "" /\ f.cs # NoSignature THEN f.cs.primary ELSE id

NewFilesz(estimate) == Align(LEDataLength + estimate, PageSize)

(* AddLoad of the new command, and the sizes that the header, the commands *)
(* and the signature must show.                                            *)
Mutated(estimate) ==
    LET size == NewFilesz(estimate) - LEDataLength
    IN  [ NCommands    |-> f.NCommands + (IF f.cs = NoSignature THEN 1 ELSE 0),
          SizeCommands |-> f.SizeCommands + (IF f.cs = NoSignature THEN SignatureCmd ELSE 0),
          added        |-> f.added,
          filesz       |-> NewFilesz(estimate),
          memsz        |-> Align(NewFilesz(estimate), PageSize),
          cs           |-> Signature(SignatureOffset, size,
                                     IF f.cs = NoSignature THEN "" ELSE f.cs.primary),
          ledata       |-> f.ledata ]

(* Mutant: the sizes of __LINKEDIT are not restored.                       *)
RollbackWithoutLinkedit(original, file) ==
    [file EXCEPT !.NCommands = original.NCommands,
                 !.SizeCommands = original.SizeCommands,
                 !.cs = original.cs, !.ledata = original.ledata]

(* The deferred restore.  The loads and the fields of LC_CODE_SIGNATURE    *)
(* come back together.                                                     *)
Rollback(original, file) ==
    [ NCommands    |-> original.NCommands,
      SizeCommands |-> original.SizeCommands,
      added        |-> file.added,
      filesz       |-> original.filesz,
      memsz        |-> original.memsz,
      cs           |-> original.cs,
      ledata       |-> original.ledata ]

(* Mutant: the header and the commands are signed as they were.            *)
SignedDataOldHeader(file) ==
    LET head == HeaderAndLoads(f)
    IN  head \o Slice(image, Len(head), Linkedit + LESize) \o Zeros(LEDataLength - LESize)

(* What is signed: the file up to the signature, padded with zeroes, under *)
(* the new header and commands.                                            *)
SignedData(file) ==
    LET head == HeaderAndLoads(file)
    IN  head \o Slice(image, Len(head), Linkedit + LESize) \o Zeros(LEDataLength - LESize)

EncodedSignature(id, data, size) ==
    <<<<"digest", id, data>>>> \o Copies(size - 1, <<"blob">>)

NewLEData(file, id, size) ==
    LET prefix == Slice(image, Linkedit, Linkedit + LESize) \o Zeros(LEDataLength - LESize)
        csdata == EncodedSignature(id, SignedData(file), size)
    IN  prefix \o csdata \o Zeros(file.filesz - LEDataLength - size)

LateError(file, size) ==
    IF Len(HeaderAndLoads(file)) > file.cs.offset THEN "header"
    ELSE IF size = 0 THEN "signer"
    ELSE IF size > file.cs.size THEN "too large"
    ELSE "none"

Outcome(id, err, signed) == [id |-> id, err |-> err, signed |-> signed]

CodeSign(id, estimate, size) ==
    LET file  == Mutated(estimate)
        early == EarlyError(id)
        late  == LateError(file, size)
        new   == EffectiveID(id)
    IN  /\ calls < MaxCalls
        /\ calls' = calls + 1
        /\ \/ /\ early # "none"
              /\ call' = Outcome(id, early, "")
              /\ UNCHANGED <<f, current>>
           \/ /\ early = "none" /\ late # "none"
              /\ f' = Rollback(f, file)
              /\ call' = Outcome(id, late, "")
              /\ UNCHANGED current
           \/ /\ early = "none" /\ late = "none"
              /\ f' = [file EXCEPT !.ledata = NewLEData(file, new, size)]
              /\ call' = Outcome(id, "none", new)
              /\ current' = TRUE
        /\ saved' = IF f' = f THEN saved ELSE NoData
        /\ UNCHANGED <<layout, image>>

-----------------------------------------------------------------------------
(* SaveBuffer: header and commands, the rest of __TEXT, the segments up to *)
(* __LINKEDIT, and __LINKEDIT from memory once it has been signed.         *)

(* Mutant: __LINKEDIT is always read from the opened file.                 *)
FromFile == FALSE

FromMemory == f.ledata # NoData /\ f.cs # NoSignature

SaveFails ==
    \/ Len(HeaderAndLoads(f)) > layout.text
    \/ ~FromMemory /\ Linkedit + f.filesz > Len(image)

SavedFile ==
    HeaderAndLoads(f)
      \o Slice(image, Len(HeaderAndLoads(f)), layout.text)
      \o Slice(image, layout.text, Linkedit)
      \o (IF FromMemory THEN f.ledata ELSE Slice(image, Linkedit, Linkedit + f.filesz))

SaveBuffer ==
    /\ ~SaveFails
    /\ saved' = SavedFile
    /\ UNCHANGED <<layout, image, f, current, call, calls>>

(* The saved file is opened by NewFile, which parses its signature.        *)
Reopen ==
    /\ saved # NoData
    /\ image' = saved
    /\ f' = [f EXCEPT !.ledata = NoData,
                      !.cs = IF f.cs = NoSignature THEN NoSignature
                             ELSE [f.cs EXCEPT !.primary = saved[f.cs.offset + 1][2]]]
    /\ call' = NoCall
    /\ UNCHANGED <<layout, current, saved, calls>>

(* AddLoad of some other command, by a caller that leaves room for it.     *)
AddLoad ==
    /\ calls < MaxCalls
    /\ f.added = 0
    /\ Len(HeaderAndLoads(f)) + OtherCmd <= FirstText
    /\ f' = [f EXCEPT !.NCommands = f.NCommands + 1,
                      !.SizeCommands = f.SizeCommands + OtherCmd,
                      !.added = 1]
    /\ calls' = calls + 1
    /\ current' = FALSE
    /\ saved' = NoData
    /\ call' = NoCall
    /\ UNCHANGED <<layout, image>>

(* RemoveLoad(f.CodeSignature()).                                          *)
RemoveSignature ==
    /\ calls < MaxCalls
    /\ f.cs # NoSignature
    /\ f' = [f EXCEPT !.NCommands = f.NCommands - 1,
                      !.SizeCommands = f.SizeCommands - SignatureCmd,
                      !.cs = NoSignature]
    /\ calls' = calls + 1
    /\ current' = FALSE
    /\ saved' = NoData
    /\ call' = NoCall
    /\ UNCHANGED <<layout, image>>

-----------------------------------------------------------------------------
(* An opened file: layout.filesz words of __LINKEDIT, perhaps with a       *)
(* signature of an earlier tool in them, and layout.extra words after it.  *)
Init ==
    /\ layout \in Layouts
    /\ f = [ NCommands    |-> layout.ncmds + (IF layout.cs = NoSignature THEN 0 ELSE 1),
             SizeCommands |-> layout.written + LinkeditCmd
                                + (IF layout.cs = NoSignature THEN 0 ELSE SignatureCmd),
             added |-> 0, filesz |-> layout.filesz, memsz |-> Align(layout.filesz, PageSize),
             cs |-> layout.cs, ledata |-> NoData ]
    /\ image = [k \in 1 .. Linkedit + layout.filesz + layout.extra |->
                  IF layout.cs # NoSignature /\ k = layout.cs.offset + 1
                  THEN <<"digest", layout.cs.primary, <<>>>>
                  ELSE <<"file", k - 1>>]
    /\ current = FALSE
    /\ saved = NoData
    /\ call = NoCall
    /\ calls = 0

Next ==
    \/ \E id \in IDs, estimate \in Estimates, size \in SignatureSizes :
          CodeSign(id, estimate, size)
    \/ SaveBuffer
    \/ Reopen
    \/ AddLoad
    \/ RemoveSignature

Spec == Init /\ [][Next]_vars

-----------------------------------------------------------------------------
(* Properties.                                                             *)

(* The signature in a saved file is over exactly the words the file has    *)
(* before it, and ends with __LINKEDIT and with the file: after a first    *)
(* signing, a second one with another size, a refused or failed one in     *)
(* between, and a reopening (CodeSign, SaveBuffer).                        *)
SignatureCoversSavedFile ==
    (saved # NoData /\ current /\ f.cs # NoSignature) =>
        /\ saved[f.cs.offset + 1][1] = "digest"
        /\ saved[f.cs.offset + 1][3] = Slice(saved, 0, f.cs.offset)
        /\ Len(saved) = Linkedit + f.filesz
        /\ Len(saved) = f.cs.offset + f.cs.size

(* What CodeSign committed can be saved.                                   *)
SignedFilesCanBeSaved == (current /\ f.cs # NoSignature) => ~SaveFails

(* Loading the words of the first section of __TEXT from a saved file      *)
(* gives what the opened file had: the commands never grow into it.        *)
TextSurvives ==
    saved # NoData =>
        \A k \in FirstText .. layout.text - 1 :
            saved[k + 1] = <<"file", k>>

(* The header tells the number of commands and their size in the file,     *)
(* whatever sequence of commits, rollbacks, adds and removes came before.  *)
HeaderDescribesCommands ==
    /\ f.NCommands = NumCommands(f)
    /\ HdrSize + f.SizeCommands = Len(HeaderAndLoads(f))

(* A CodeSign that fails, early or after it changed the file, leaves the   *)
(* file as it was (the deferred restore).                                  *)
FailedSignChangesNothing ==
    [][(calls' = calls + 1 /\ call' # NoCall /\ call'.err # "none") => f' = f]_vars

(* A file that has been signed can be signed again: the test of the        *)
(* rollback signs, fails to sign again, and expects a retry to succeed.    *)
SignedFilesCanBeSignedAgain == call # NoCall => call.err # "read"
=============================================================================
