------------------------- MODULE DyldOpcodesProofs --------------------------
(***************************************************************************)
(* Theorems about DyldOpcodes, for every stream, every segment table and   *)
(* every width of a word: what the machines append lies in its segment and *)
(* can be resolved, the limit on threaded chains refuses none that stays   *)
(* inside, and the checks of repeats and of ADD_ADDR are exact.            *)
(***************************************************************************)
EXTENDS DyldOpcodes, TLAPS

(* The fixups a machine may append.  Of a bind in a stream of kind k.      *)
Resolved(k, bind) ==
    /\ bind.ordinal \in WeakLookup .. Dylibs
    /\ k = "weak" => bind.ordinal = WeakLookup
    /\ k = "lazy" => bind.type = PointerType
    /\ bind.tag = "threaded" => k = "bind"

Placed(bind) ==
    Inside(bind, PointerSize,
           IF bind.tag = "ordinary" THEN Segments[bind.segment].memsz
                                    ELSE Segments[bind.segment].filesz)

GoodBinds(k) ==
    {bind \in [tag: {"ordinary", "threaded"}, segment: Nat, offset: Nat,
               ordinal: Int, type: Int] : Placed(bind) /\ Resolved(k, bind)}

GoodRebases ==
    {r \in [segment: Nat, offset: Nat, width: Nat] :
        Inside(r, r.width, Segments[r.segment].filesz)}

(* What the machine has gathered. *)
Lists ==
    /\ kind \in Streams
    /\ binds \in Seq(GoodBinds(kind))
    /\ rebases \in Seq(GoodRebases)
    /\ table \in Seq(WeakLookup .. Dylibs)

(* Its registers: a weak stream never leaves its ordinal, a lazy one its   *)
(* type, and only the bind stream declares a table.                        *)
Registers ==
    /\ have \subseteq {"symbol", "ordinal", "segment"}
    /\ ordinal \in Int /\ type \in Int
    /\ segment \in Nat \ {0} /\ segOffset \in Nat
    /\ advance \in Nat /\ steps \in Nat
    /\ kind = "weak" => ordinal = WeakLookup
    /\ kind = "lazy" => type = PointerType
    /\ threaded = "yes" => kind = "bind"

(* Inside a threaded chain: every link went at least one pointer forward.  *)
Chain ==
    pc = "apply" => /\ kind = "bind" /\ segmentForBind
                    /\ steps * PointerSize <= segOffset

IInv == Lists /\ Registers /\ Chain

-----------------------------------------------------------------------------
(* The segment a machine is in is one of the table.                        *)
LEMMA AtIsSegment ==
    ASSUME Registers, segmentForBind
    PROVE  /\ segment \in DOMAIN Segments
           /\ At.addr \in Nat /\ At.memsz \in Nat /\ At.filesz \in Nat /\ At.offset \in Nat
<1>1. segment \in 1 .. Len(Segments)
  BY SegmentsAssumption DEF Registers, segmentForBind
<1> DEFINE R == [addr: 0 .. MaxU64, memsz: 0 .. MaxU64, filesz: 0 .. MaxU64,
                  offset: 0 .. MaxU64]
<1>2. At \in R
  <2> HIDE DEF R
  <2>1. Segments \in Seq(R)
    BY SegmentsAssumption DEF R
  <2> QED
    BY <1>1, <2>1 DEF At
<1>3. segment \in DOMAIN Segments
  BY <1>1, SegmentsAssumption
<1>4. 0 .. MaxU64 \subseteq Nat
  BY MachineAssumption
<1>5. /\ At.addr \in 0 .. MaxU64 /\ At.memsz \in 0 .. MaxU64
      /\ At.filesz \in 0 .. MaxU64 /\ At.offset \in 0 .. MaxU64
  BY <1>2
<1> QED
  BY <1>3, <1>4, <1>5

(* appendOrdinaryBind appends a good bind. *)
LEMMA OrdinaryIsGood ==
    ASSUME Lists, Registers, OrdinaryBindOK
    PROVE  OrdinaryBind \in GoodBinds(kind)
<1>1. /\ segment \in DOMAIN Segments
      /\ At.addr \in Nat /\ At.memsz \in Nat
  BY AtIsSegment DEF OrdinaryBindOK
<1>2. Placed(OrdinaryBind)
  BY <1>1, MachineAssumption
     DEF OrdinaryBindOK, validateBindLocation, Fits, Placed, OrdinaryBind, Inside, At, Registers
<1>3. Resolved(kind, OrdinaryBind)
  BY MachineAssumption
     DEF OrdinaryBindOK, validateBindTarget, Resolved, OrdinaryBind, Registers, WeakLookup
<1>4. OrdinaryBind \in [tag: {"ordinary", "threaded"}, segment: Nat, offset: Nat,
                        ordinal: Int, type: Int]
  BY DEF OrdinaryBind, Registers
<1> QED
  BY <1>2, <1>3, <1>4 DEF GoodBinds

(* appendRebase appends a good rebase. *)
LEMMA RebaseIsGood ==
    ASSUME Registers, RebaseOK
    PROVE  Rebase \in GoodRebases
<1>1. /\ segment \in DOMAIN Segments
      /\ At.addr \in Nat /\ At.filesz \in Nat
  BY AtIsSegment DEF RebaseOK, RebaseInSegment
<1>2. rebaseWidth \in Nat
  BY MachineAssumption DEF rebaseWidth
<1>3. Inside(Rebase, Rebase.width, Segments[Rebase.segment].filesz)
  BY <1>1, <1>2, MachineAssumption
     DEF RebaseOK, RebaseInSegment, FileBacked, Readable, Rebase, Inside, At, Registers
<1> QED
  BY <1>2, <1>3 DEF GoodRebases, Rebase, Registers

(* A failed call leaves nothing. *)
LEMMA FailOK ==
    ASSUME IInv, Fail
    PROVE  IInv'
<1>1. Lists'
  BY DEF IInv, Lists, Fail, DropLocals
<1>2. Registers'
  BY DEF IInv, Lists, Registers, Fail, DropLocals, InitialHave, InitialOrdinal, InitialType,
         WeakLookup, PointerType
<1>3. Chain'
  BY DEF Chain, Fail
<1> QED
  BY <1>1, <1>2, <1>3 DEF IInv

(* The end of the stream keeps the fixups. *)
LEMMA FinishOK ==
    ASSUME IInv, Finish
    PROVE  IInv'
<1>1. Lists'
  BY DEF IInv, Lists, Finish, DropLocals, fixups
<1>2. Registers'
  BY DEF IInv, Lists, Registers, Finish, DropLocals, InitialHave, InitialOrdinal, InitialType,
         WeakLookup, PointerType
<1>3. Chain'
  BY DEF Chain, Finish
<1> QED
  BY <1>1, <1>2, <1>3 DEF IInv

(* A step that appends nothing keeps what was gathered. *)
LEMMA KeepLists ==
    ASSUME Lists, UNCHANGED <<kind, fixups, table>>
    PROVE  Lists'
BY DEF Lists, fixups

(* The opcodes that set registers. *)
LEMMA SettersOK ==
    ASSUME IInv, NEW i \in Nat, NEW o \in Nat,
           \/ SetSegmentAndOffset(i, o) \/ SetType(i) \/ SetDylibOrdinal(o)
           \/ SetDylibSpecial(i) \/ SetSymbol
    PROVE  IInv'
<1>1. CASE SetSegmentAndOffset(i, o)
  <2>1. CASE Fail
    BY <2>1, FailOK
  <2>2. CASE ~Fail
    <3>0. /\ segment' = i + 1 /\ segOffset' = o /\ have' = have \cup {"segment"}
          /\ UNCHANGED <<kind, pc, fixups, tables, target, loop>>
      BY <1>1, <2>2 DEF SetSegmentAndOffset
    <3>1. Lists'
      BY <3>0, KeepLists DEF IInv, tables
    <3>2. Registers'
      BY <3>0 DEF IInv, Registers, tables, target, loop
    <3>3. Chain'
      BY <1>1, <3>0 DEF SetSegmentAndOffset, Fetch, Chain
    <3> QED
      BY <3>1, <3>2, <3>3 DEF IInv
  <2> QED
    BY <2>1, <2>2
<1>2. CASE SetType(i)
  <2>1. CASE Fail
    BY <2>1, FailOK
  <2>2. CASE ~Fail
    <3>0. /\ kind # "lazy" /\ type' = i
          /\ UNCHANGED <<kind, pc, fixups, tables, have, ordinal, segment, segOffset, loop>>
      BY <1>2, <2>2 DEF SetType
    <3>1. Lists'
      BY <3>0, KeepLists DEF IInv, tables
    <3>2. Registers'
      BY <3>0 DEF IInv, Registers, tables, loop
    <3>3. Chain'
      BY <1>2, <3>0 DEF SetType, Fetch, Chain
    <3> QED
      BY <3>1, <3>2, <3>3 DEF IInv
  <2> QED
    BY <2>1, <2>2
<1>3. ASSUME NEW n \in Int, kind # "weak", pc = "fetch", Set(n)
      PROVE  IInv'
  <2>1. Lists'
    BY <1>3, KeepLists DEF IInv, Set, tables
  <2>2. Registers'
    BY <1>3 DEF IInv, Registers, Set, tables, loop
  <2>3. Chain'
    BY <1>3 DEF Set, Chain
  <2> QED
    BY <2>1, <2>2, <2>3 DEF IInv
<1>4. CASE SetDylibOrdinal(o)
  BY <1>3, <1>4, FailOK DEF SetDylibOrdinal, Fetch
<1>5. CASE SetDylibSpecial(i)
  <2>1. (IF i = 0 THEN 0 ELSE i - 16) \in Int
    OBVIOUS
  <2> QED
    BY <2>1, <1>3, <1>5, FailOK DEF SetDylibSpecial, Fetch
<1>6. CASE SetSymbol
  <2>1. Lists'
    BY <1>6, KeepLists DEF IInv, SetSymbol, tables
  <2>2. Registers'
    BY <1>6 DEF IInv, Registers, SetSymbol, tables, target, loop
  <2>3. Chain'
    BY <1>6 DEF SetSymbol, Fetch, Chain
  <2> QED
    BY <2>1, <2>2, <2>3 DEF IInv
<1> QED
  BY <1>1, <1>2, <1>4, <1>5, <1>6

(* The opcodes that only move. *)
LEMMA MoveOK ==
    ASSUME IInv, pc = "fetch", NEW off \in Nat, MoveTo(off)
    PROVE  IInv'
<1>1. Lists'
  BY KeepLists DEF IInv, MoveTo, tables
<1>2. Registers'
  BY DEF IInv, Registers, MoveTo, tables, target, loop
<1>3. Chain'
  BY DEF MoveTo, Chain
<1> QED
  BY <1>1, <1>2, <1>3 DEF IInv

(* BIND_OPCODE_ADD_ADDR_ULEB and the ADD_ADDR opcodes of rebase streams. *)
LEMMA AddressesOK ==
    ASSUME IInv, NEW d \in Nat, AddAddr(d) \/ RebaseAddAddr(d)
    PROVE  IInv'
<1>1. segOffset + d \in Nat
  BY DEF IInv, Registers
<1>2. AddULEB(d) \in Nat
  BY <1>1, MachineAssumption DEF AddULEB
<1>3. CASE AddAddr(d)
  BY <1>2, <1>3, MoveOK, FailOK DEF AddAddr, Fetch
<1>4. CASE RebaseAddAddr(d)
  BY <1>1, <1>4, MoveOK, FailOK DEF RebaseAddAddr, Fetch
<1> QED
  BY <1>3, <1>4

(* A good bind appended to the binds. *)
LEMMA AppendBind ==
    ASSUME Lists, NEW b \in GoodBinds(kind),
           binds' = Append(binds, b), UNCHANGED <<kind, rebases, table>>
    PROVE  Lists'
<1>1. binds' \in Seq(GoodBinds(kind))
  BY DEF Lists
<1> QED
  BY <1>1 DEF Lists

(* A rebase appended to the rebases. *)
LEMMA AppendRebase ==
    ASSUME Lists, NEW r \in GoodRebases,
           rebases' = Append(rebases, r), UNCHANGED <<kind, binds, table>>
    PROVE  Lists'
<1>1. rebases' \in Seq(GoodRebases)
  BY DEF Lists
<1> QED
  BY <1>1 DEF Lists

(* appendOrdinaryBind and the advance after it. *)
LEMMA BindAndAdvanceOK ==
    ASSUME IInv, pc = "fetch", NEW d \in Nat, BindAndAdvance(d)
    PROVE  IInv'
<1>1. CASE Fail
  BY <1>1, FailOK
<1>2. CASE ~Fail
  <2>0. /\ OrdinaryBindOK
        /\ binds' = Append(binds, OrdinaryBind)
        /\ segOffset' = segOffset + d
        /\ UNCHANGED <<kind, pc, rebases, tables, have, target, segment, loop>>
    BY <1>2 DEF BindAndAdvance
  <2>1. Lists'
    BY <2>0, OrdinaryIsGood, AppendBind DEF IInv, tables
  <2>2. Registers'
    BY <2>0 DEF IInv, Registers, tables, target, loop
  <2>3. Chain'
    BY <2>0 DEF Chain
  <2> QED
    BY <2>1, <2>2, <2>3 DEF IInv
<1> QED
  BY <1>1, <1>2

(* What BIND_OPCODE_DO_BIND adds to the ordinal table is an ordinal dyld   *)
(* can look in.                                                            *)
LEMMA AddToTableOK ==
    ASSUME IInv, pc = "fetch", AddToTable
    PROVE  IInv'
<1>1. CASE Fail
  BY <1>1, FailOK
<1>2. CASE ~Fail
  <2>0. /\ TableEntryOK
        /\ table' = Append(table, ordinal)
        /\ UNCHANGED <<kind, pc, fixups, tableSize, threaded, have, target, segment,
                       segOffset, loop>>
    BY <1>2 DEF AddToTable
  <2>1. ordinal \in WeakLookup .. Dylibs
    BY <2>0, MachineAssumption
       DEF IInv, Registers, TableEntryOK, validateBindTarget, WeakLookup
  <2>2. table' \in Seq(WeakLookup .. Dylibs)
    BY <2>0, <2>1 DEF IInv, Lists
  <2>3. Lists'
    BY <2>0, <2>2 DEF IInv, Lists, fixups
  <2>4. Registers'
    BY <2>0 DEF IInv, Registers, target, loop
  <2>5. Chain'
    BY <2>0 DEF Chain
  <2> QED
    BY <2>3, <2>4, <2>5 DEF IInv
<1> QED
  BY <1>1, <1>2

(* The opcodes that append one bind. *)
LEMMA DoBindOK ==
    ASSUME IInv, NEW o \in Nat, NEW i \in Nat,
           DoBind \/ DoBindAddAddr(o) \/ DoBindAddAddrImmScaled(i)
    PROVE  IInv'
<1>1. PointerSize \in Nat
  BY MachineAssumption
<1>2. o + PointerSize \in Nat /\ (i + 1) * PointerSize \in Nat
  BY <1>1
<1>3. CASE DoBind
  BY <1>1, <1>3, AddToTableOK, BindAndAdvanceOK DEF DoBind, Fetch
<1>4. CASE DoBindAddAddr(o)
  BY <1>2, <1>4, BindAndAdvanceOK, FailOK DEF DoBindAddAddr, Fetch
<1>5. CASE DoBindAddAddrImmScaled(i)
  BY <1>2, <1>5, BindAndAdvanceOK, FailOK DEF DoBindAddAddrImmScaled, Fetch
<1> QED
  BY <1>3, <1>4, <1>5

(* The start of a repeat loop. *)
LEMMA RepeatOK ==
    ASSUME IInv, NEW a \in Nat,
           pc' \in {"repeat", "times"}, advance' = a, steps' = steps,
           UNCHANGED <<kind, fixups, tables, have, target, segment, segOffset>>
    PROVE  IInv'
<1>1. Lists'
  BY KeepLists DEF IInv, tables
<1>2. Registers'
  BY DEF IInv, Registers, tables, target
<1>3. Chain'
  BY DEF Chain
<1> QED
  BY <1>1, <1>2, <1>3 DEF IInv

(* The three opcodes with a count. *)
LEMMA RepeatsOK ==
    ASSUME IInv, NEW c \in Nat, NEW k \in Nat, NEW i \in Nat,
           DoBindTimesSkipping(c, k) \/ DoRebaseTimesSkipping(c, k) \/ DoRebaseImmTimes(i)
    PROVE  IInv'
<1>1. k + PointerSize \in Nat /\ PointerSize \in Nat
  BY MachineAssumption
<1>2. ASSUME Repeat(c, k + PointerSize) PROVE IInv'
  BY <1>1, <1>2, RepeatOK DEF Repeat
<1>3. CASE DoBindTimesSkipping(c, k)
  BY <1>2, <1>3, FailOK DEF DoBindTimesSkipping
<1>4. CASE DoRebaseTimesSkipping(c, k)
  BY <1>2, <1>4, FailOK DEF DoRebaseTimesSkipping
<1>5. CASE DoRebaseImmTimes(i)
  BY <1>1, <1>5, RepeatOK DEF DoRebaseImmTimes
<1> QED
  BY <1>3, <1>4, <1>5

(* The end of a round is not inside a chain. *)
LEMMA NextRoundOK ==
    ASSUME IInv, pc \in {"repeat", "times"}, NextRound
    PROVE  Registers' /\ Chain'
<1>1. Registers'
  BY DEF IInv, Registers, NextRound, tables, target
<1>2. Chain'
  BY DEF Chain, NextRound
<1> QED
  BY <1>1, <1>2

(* One round of a repeat loop. *)
LEMMA RoundsOK ==
    ASSUME IInv, BindRound \/ RebaseRound
    PROVE  IInv'
<1>1. CASE Fail
  BY <1>1, FailOK
<1>2. CASE ~Fail /\ BindRound
  <2>0. /\ OrdinaryBindOK
        /\ binds' = Append(binds, OrdinaryBind) /\ rebases' = rebases
        /\ NextRound /\ pc \in {"repeat", "times"}
    BY <1>2 DEF BindRound
  <2>1. UNCHANGED <<kind, table>>
    BY <2>0 DEF NextRound, tables
  <2>2. Lists'
    BY <2>0, <2>1, OrdinaryIsGood, AppendBind DEF IInv
  <2> QED
    BY <2>0, <2>2, NextRoundOK DEF IInv
<1>3. CASE ~Fail /\ RebaseRound
  <2>0. /\ RebaseOK
        /\ rebases' = Append(rebases, Rebase) /\ binds' = binds
        /\ NextRound /\ pc \in {"repeat", "times"}
    BY <1>3 DEF RebaseRound
  <2>1. UNCHANGED <<kind, table>>
    BY <2>0 DEF NextRound, tables
  <2>2. Lists'
    BY <2>0, <2>1, RebaseIsGood, AppendRebase DEF IInv
  <2> QED
    BY <2>0, <2>2, NextRoundOK DEF IInv
<1> QED
  BY <1>1, <1>2, <1>3

(* REBASE_OPCODE_DO_REBASE_ADD_ADDR_ULEB. *)
LEMMA DoRebaseAddAddrOK ==
    ASSUME IInv, NEW o \in Nat, DoRebaseAddAddr(o)
    PROVE  IInv'
<1>1. CASE Fail
  BY <1>1, FailOK
<1>2. CASE ~Fail
  <2>0. /\ RebaseOK
        /\ rebases' = Append(rebases, Rebase)
        /\ segOffset' = segOffset + (o + PointerSize)
        /\ UNCHANGED <<kind, pc, binds, tables, have, target, segment, loop>>
    BY <1>2 DEF DoRebaseAddAddr
  <2>1. Lists'
    BY <2>0, RebaseIsGood, AppendRebase DEF IInv, tables
  <2>2. PointerSize \in Nat
    BY MachineAssumption
  <2>3. Registers'
    BY <2>0, <2>2 DEF IInv, Registers, tables, target, loop
  <2>4. Chain'
    BY <2>0 DEF Chain, DoRebaseAddAddr, Fetch
  <2> QED
    BY <2>1, <2>3, <2>4 DEF IInv
<1> QED
  BY <1>1, <1>2

(* Declaring the table, and entering a chain. *)
LEMMA ThreadedOK ==
    ASSUME IInv, NEW n \in Nat, SetTableSize(n) \/ Apply
    PROVE  IInv'
<1>1. CASE Fail
  BY <1>1, FailOK
<1>2. CASE ~Fail /\ SetTableSize(n)
  <2>0. /\ kind = "bind" /\ pc = "fetch"
        /\ table' = <<>>
        /\ UNCHANGED <<kind, pc, fixups, have, target, segment, segOffset, loop>>
    BY <1>2 DEF SetTableSize, Fetch
  <2>1. Lists'
    BY <2>0 DEF IInv, Lists, fixups
  <2>2. Registers'
    BY <2>0 DEF IInv, Registers, target, loop
  <2>3. Chain'
    BY <2>0 DEF Chain
  <2> QED
    BY <2>1, <2>2, <2>3 DEF IInv
<1>3. CASE ~Fail /\ Apply
  <2>0. /\ ApplyOK
        /\ steps' = 0
        /\ UNCHANGED <<kind, fixups, tables, have, target, segment, segOffset, left, advance>>
    BY <1>3 DEF Apply
  <2>1. Lists'
    BY <2>0, KeepLists DEF IInv, tables
  <2>2. Registers'
    BY <2>0 DEF IInv, Registers, tables, target
  <2>3. steps' * PointerSize <= segOffset'
    BY <2>0, MachineAssumption DEF IInv, Registers
  <2>4. Chain'
    BY <2>0, <2>3 DEF Chain, ApplyOK, segmentForBind
  <2> QED
    BY <2>1, <2>2, <2>4 DEF IInv
<1> QED
  BY <1>1, <1>2, <1>3

(* A step of at least one unit keeps ahead of a count of the steps.        *)
LEMMA OneMoreStep ==
    ASSUME NEW k \in Nat, NEW m \in Nat \ {0}, NEW p \in Nat, NEW x \in Nat, k * p <= x
    PROVE  (k + 1) * p <= x + m * p
<1>1. (k + 1) * p = k * p + p
  OBVIOUS
<1>2. PICK j \in Nat : m = j + 1
  <2>1. m - 1 \in Nat /\ m = (m - 1) + 1
    OBVIOUS
  <2> QED
    BY <2>1
<1>3. m * p = j * p + p
  BY <1>2
<1>4. j * p \in Nat /\ k * p \in Nat /\ m * p \in Nat
  BY <1>2
<1> QED
  BY <1>1, <1>3, <1>4

(* One word of a threaded chain. *)
LEMMA LinkIsGood ==
    ASSUME IInv, pc = "apply", LinkOK, Link(Word[FileOffset]), UNCHANGED <<kind, table>>
    PROVE  Lists'
<1> DEFINE w == Word[FileOffset]
<1>1. /\ segmentForBind /\ kind = "bind"
      /\ Registers /\ Lists
  BY DEF IInv, Chain
<1>2. /\ segment \in DOMAIN Segments
      /\ At.addr \in Nat /\ At.filesz \in Nat
  BY <1>1, AtIsSegment
<1>3. /\ At.addr + segOffset <= MaxU64
      /\ segOffset + PointerSize <= At.filesz
  BY <1>1, <1>2, MachineAssumption DEF LinkOK, Readable, FileBacked, Registers
<1>4. w.ordinal \in Nat \cup {-1}
  BY WordAssumption DEF LinkOK, Readable
<1>5. segment \in Nat /\ segOffset \in Nat /\ PointerSize \in Nat
  BY <1>1, MachineAssumption DEF Registers
<1>6. CASE w.ordinal = -1
  <2> DEFINE r == [segment |-> segment, offset |-> segOffset, width |-> PointerSize]
  <2>1. rebases' = Append(rebases, r) /\ binds' = binds
    BY <1>6 DEF Link
  <2>2. r \in [segment: Nat, offset: Nat, width: Nat]
    BY <1>5
  <2>3. Inside(r, r.width, Segments[r.segment].filesz)
    BY <1>2, <1>3 DEF Inside, At
  <2>4. r \in GoodRebases
    BY <2>2, <2>3 DEF GoodRebases
  <2> HIDE DEF r
  <2> QED
    BY <1>1, <2>1, <2>4, AppendRebase
<1>7. CASE w.ordinal # -1
  <2> DEFINE o == table[w.ordinal + 1]
             b == [tag |-> "threaded", segment |-> segment, offset |-> segOffset,
                   ordinal |-> o, type |-> ThreadedBind]
  <2>1. binds' = Append(binds, b) /\ rebases' = rebases
    BY <1>7 DEF Link
  <2>2. w.ordinal + 1 \in 1 .. Len(table)
    BY <1>1, <1>4, <1>7 DEF LinkOK, Lists
  <2>3. o \in WeakLookup .. Dylibs
    <3> DEFINE T == WeakLookup .. Dylibs
    <3> HIDE DEF T
    <3>1. table \in Seq(T)
      BY <1>1 DEF Lists, T
    <3>2. o \in T
      BY <2>2, <3>1
    <3> QED
      BY <3>2 DEF T
  <2> HIDE DEF o
  <2>4. o \in Int
    BY <2>3, MachineAssumption DEF WeakLookup
  <2>5. b \in [tag: {"ordinary", "threaded"}, segment: Nat, offset: Nat,
                ordinal: Int, type: Int]
    BY <1>5, <2>4 DEF ThreadedBind
  <2>6. Placed(b)
    BY <1>2, <1>3 DEF Placed, Inside, At
  <2>7. Resolved(kind, b)
    BY <1>1, <2>3 DEF Resolved
  <2>8. b \in GoodBinds(kind)
    BY <2>5, <2>6, <2>7 DEF GoodBinds
  <2> HIDE DEF b
  <2> QED
    BY <1>1, <2>1, <2>8, AppendBind
<1> QED
  BY <1>6, <1>7

(* A round of the threaded loop. *)
LEMMA ApplyRoundOK ==
    ASSUME IInv, ApplyRound \/ ApplyFails
    PROVE  IInv'
<1>1. CASE Fail
  BY <1>1, FailOK
<1>2. CASE ~Fail
  <2> DEFINE m == Word[FileOffset].next
  <2>0. /\ pc = "apply" /\ LinkOK /\ Link(Word[FileOffset])
        /\ segOffset' = segOffset + m * PointerSize
        /\ pc' = IF m = 0 THEN "fetch" ELSE "apply"
        /\ steps' = IF m = 0 THEN 0 ELSE steps + 1
        /\ UNCHANGED <<kind, tables, have, target, segment, left, advance>>
    BY <1>2 DEF ApplyRound, ApplyFails
  <2>1. Lists'
    BY <2>0, LinkIsGood DEF tables
  <2>2. m \in Nat
    BY <2>0, WordAssumption DEF LinkOK, Readable
  <2> HIDE DEF m
  <2>3. m * PointerSize \in Nat
    BY <2>2, MachineAssumption
  <2>4. Registers'
    BY <2>0, <2>2, <2>3 DEF IInv, Registers, tables, target
  <2>5. ASSUME pc' = "apply"
        PROVE  steps' * PointerSize <= segOffset'
    <3>1. m \in Nat \ {0} /\ steps' = steps + 1
      BY <2>0, <2>2, <2>5
    <3>2. steps \in Nat /\ segOffset \in Nat /\ steps * PointerSize <= segOffset
      BY <2>0 DEF IInv, Registers, Chain
    <3> QED
      BY <2>0, <3>1, <3>2, OneMoreStep, MachineAssumption
  <2>6. Chain'
    BY <2>0, <2>5 DEF IInv, Chain, segmentForBind
  <2> QED
    BY <2>1, <2>4, <2>6 DEF IInv
<1> QED
  BY <1>1, <1>2

-----------------------------------------------------------------------------
(* Both machines start with nothing gathered.                              *)
LEMMA InitOK ==
    ASSUME Init
    PROVE  IInv
<1>1. Lists
  BY DEF Init, Lists, Streams
<1>2. Registers
  BY DEF Init, Registers, InitialHave, InitialOrdinal, InitialType, WeakLookup, PointerType
<1>3. Chain
  BY DEF Init, Chain
<1> QED
  BY <1>1, <1>2, <1>3 DEF IInv

(* The invariant is inductive. *)
LEMMA Inductive ==
    ASSUME IInv, [Next]_vars
    PROVE  IInv'
<1>1. Operands \subseteq Nat /\ Immediates \subseteq Nat
  BY MachineAssumption
<1>2. \A i \in Immediates : i * PointerSize \in Nat
  BY <1>1, MachineAssumption
<1>3. CASE UNCHANGED vars
  <2>1. Lists'
    BY <1>3, KeepLists DEF IInv, vars, tables
  <2>2. Registers'
    BY <1>3 DEF IInv, Registers, vars, tables, target, loop
  <2>3. Chain'
    BY <1>3 DEF IInv, Chain, segmentForBind, vars, loop
  <2> QED
    BY <2>1, <2>2, <2>3 DEF IInv
<1>4. CASE EndOfStream \/ BadOpcode
  BY <1>4, FinishOK, FailOK DEF EndOfStream, BadOpcode
<1>5. CASE \/ \E i \in Immediates, o \in Operands : SetSegmentAndOffset(i, o)
           \/ \E i \in Immediates : SetType(i)
           \/ \E o \in Operands : SetDylibOrdinal(o)
           \/ \E i \in Immediates : SetDylibSpecial(i)
           \/ SetSymbol
  BY <1>1, <1>5, SettersOK
<1>6. CASE \/ \E d \in Operands : AddAddr(d)
           \/ \E d \in Operands : RebaseAddAddr(d)
           \/ \E i \in Immediates : RebaseAddAddrImmScaled(i)
  BY <1>1, <1>2, <1>6, AddressesOK DEF RebaseAddAddrImmScaled
<1>7. CASE \/ DoBind
           \/ \E o \in Operands : DoBindAddAddr(o)
           \/ \E i \in Immediates : DoBindAddAddrImmScaled(i)
  BY <1>1, <1>7, DoBindOK
<1>8. CASE \/ \E c, k \in Operands : DoBindTimesSkipping(c, k)
           \/ \E c, k \in Operands : DoRebaseTimesSkipping(c, k)
           \/ \E i \in Immediates : DoRebaseImmTimes(i)
  BY <1>1, <1>8, RepeatsOK
<1>9. CASE BindRound \/ RebaseRound
  BY <1>9, RoundsOK
<1>10. CASE (\E n \in Operands : SetTableSize(n)) \/ Apply
  BY <1>1, <1>10, ThreadedOK
<1>11. CASE ApplyRound \/ ApplyFails
  BY <1>11, ApplyRoundOK
<1>12. CASE \E o \in Operands : DoRebaseAddAddr(o)
  BY <1>1, <1>12, DoRebaseAddAddrOK
<1> QED
  BY <1>3, <1>4, <1>5, <1>6, <1>7, <1>8, <1>9, <1>10, <1>11, <1>12 DEF Next

(* The machines keep the invariant. *)
THEOREM Invariance == Spec => []IInv
<1>1. Init => IInv
  BY InitOK
<1>2. IInv /\ [Next]_vars => IInv'
  BY Inductive
<1> QED
  BY <1>1, <1>2, PTL DEF Spec

(* Every fixup of a stream lies in the segment it names, and no address    *)
(* wraps, whatever the opcodes: validateBindLocation, the file-backed      *)
(* check of rebases and the checks of the threaded loop suffice.           *)
THEOREM FixupsStayInside == Spec => []FixupsLieInSegments
<1>1. ASSUME IInv PROVE FixupsLieInSegments
  <2>1. ASSUME NEW i \in DOMAIN binds PROVE Placed(binds[i])
    <3>1. binds[i] \in GoodBinds(kind)
      BY <1>1, <2>1 DEF IInv, Lists
    <3> QED
      BY <3>1 DEF GoodBinds
  <2>2. ASSUME NEW i \in DOMAIN rebases
        PROVE  Inside(rebases[i], rebases[i].width, Segments[rebases[i].segment].filesz)
    <3>1. rebases[i] \in GoodRebases
      BY <1>1, <2>2 DEF IInv, Lists
    <3> QED
      BY <3>1 DEF GoodRebases
  <2> QED
    BY <2>1, <2>2 DEF FixupsLieInSegments, Placed
<1> QED
  BY <1>1, Invariance, PTL

(* Every bind names a library dyld can look in, threaded ones through the  *)
(* ordinal table too, and each kind of stream keeps to its own: what       *)
(* validateBindTarget, checked when a table entry is made, is good for.    *)
THEOREM BindsStayResolvable == Spec => []BindsCanBeResolved
<1>1. ASSUME IInv PROVE BindsCanBeResolved
  <2>1. ASSUME NEW i \in DOMAIN binds PROVE Resolved(kind, binds[i])
    <3>1. binds[i] \in GoodBinds(kind)
      BY <1>1, <2>1 DEF IInv, Lists
    <3> QED
      BY <3>1 DEF GoodBinds
  <2> QED
    BY <2>1 DEF BindsCanBeResolved, Resolved
<1> QED
  BY <1>1, Invariance, PTL

(* A count of units that fit is at most the quotient. *)
LEMMA AtMostQuotient ==
    ASSUME NEW k \in Nat, NEW p \in Nat \ {0}, NEW x \in Nat, k * p <= x
    PROVE  k <= x \div p
<1> DEFINE q == x \div p
           r == x % p
<1>1. q \in Nat /\ r \in Nat /\ x = p * q + r /\ r < p
  OBVIOUS
<1> HIDE DEF q, r
<1>2. SUFFICES ASSUME k > q PROVE FALSE
  BY <1>1 DEF q
<1>3. PICK d \in Nat : k = q + 1 + d
  <2>1. k - q - 1 \in Nat /\ k = q + 1 + (k - q - 1)
    BY <1>1, <1>2
  <2> QED
    BY <2>1
<1>4. k * p = p * q + p + d * p
  BY <1>1, <1>3
<1>5. d * p \in Nat /\ p * q \in Nat /\ k * p \in Nat
  BY <1>1, <1>3
<1> QED
  BY <1>1, <1>4, <1>5

(* The limit on the steps of a threaded chain refuses no chain that stays  *)
(* in its segment: the loop of BIND_SUBOPCODE_THREADED_APPLY ends by the   *)
(* limit only where it would have ended by the bounds.                     *)
THEOREM ChainLimitIsSafe == Spec => []ChainLimitNeverBites
<1>1. ASSUME IInv PROVE ChainLimitNeverBites
  <2> SUFFICES ASSUME pc = "apply", FileBacked(PointerSize) PROVE ~TooManySteps
    BY DEF ChainLimitNeverBites
  <2>1. /\ Registers /\ segmentForBind
        /\ steps \in Nat /\ segOffset \in Nat /\ steps * PointerSize <= segOffset
    BY <1>1 DEF IInv, Chain, Registers
  <2>2. At.filesz \in Nat
    BY <2>1, AtIsSegment
  <2>3. PointerSize \in Nat \ {0}
    BY MachineAssumption
  <2>4. steps * PointerSize \in Nat
    BY <2>1, <2>3
  <2>5. steps * PointerSize <= At.filesz
    BY <2>1, <2>2, <2>3, <2>4 DEF FileBacked
  <2>6. steps <= At.filesz \div PointerSize
    BY <2>1, <2>2, <2>3, <2>5, AtMostQuotient
  <2>7. At.filesz \div PointerSize \in Nat
    BY <2>2, <2>3
  <2> QED
    BY <2>1, <2>6, <2>7 DEF TooManySteps
<1> QED
  BY <1>1, Invariance, PTL
-----------------------------------------------------------------------------
(* What the opcodes that add to the offset keep: the offset is a machine   *)
(* word, and in a repeat loop the last round left is still in the segment, *)
(* in its memory for binds and in its bytes in the file for rebases.       *)
RunFits ==
    /\ left \in Nat \ {0} /\ advance \in Nat \ {0}
    /\ segmentForBind
    /\ kind # "rebase" => LastOf(left, advance) + PointerSize <= At.memsz
    /\ kind = "rebase" => LastOf(left, advance) + rebaseWidth <= At.filesz

Loops ==
    /\ segOffset \in 0 .. MaxU64
    /\ pc = "repeat" => RunFits

(* Nothing the opcodes can name is beyond a word.                          *)
LEMMA OperandsAreWords ==
    /\ \A d \in Operands : d \in Nat /\ d <= MaxU64
    /\ MaxU64 \in Nat /\ PointerSize \in Nat \ {0} /\ TextWidth \in Nat \ {0}
BY MachineAssumption

(* The width of a rebase. *)
LEMMA WidthIsNat == rebaseWidth \in Nat \ {0}
BY MachineAssumption DEF rebaseWidth

(* A step to a place that is a word, outside the repeat loops. *)
LEMMA OutsideLoops ==
    ASSUME Loops, pc' # "repeat", segOffset' \in 0 .. MaxU64
    PROVE  Loops'
BY DEF Loops

(* An advance that checkedAdvance lets pass. *)
LEMMA AdvanceIsWord ==
    ASSUME Registers, Loops, NEW d \in Nat, MayAdvance(d)
    PROVE  segOffset + d \in 0 .. MaxU64
BY OperandsAreWords DEF Registers, Loops, MayAdvance

(* A failed or finished call begins again at zero. *)
LEMMA EndsOutside ==
    ASSUME Loops, Fail \/ Finish
    PROVE  Loops'
<1>1. segOffset' = 0 /\ pc' # "repeat"
  BY DEF Fail, Finish, DropLocals
<1> QED
  BY <1>1, OperandsAreWords DEF Loops

(* A run whose first element is in the segment and whose count is within   *)
(* maxCount has its last one in the segment, ...                           *)
LEMMA CountFits ==
    ASSUME NEW c \in Nat \ {0}, NEW p \in Nat \ {0}, NEW n \in Nat, c <= n \div p + 1
    PROVE  (c - 1) * p <= n
<1> DEFINE q == n \div p
           r == n % p
<1>1. q \in Nat /\ r \in Nat /\ n = p * q + r
  OBVIOUS
<1>2. c <= q + 1
  OBVIOUS
<1> HIDE DEF q, r
<1>3. PICK d \in Nat : q = (c - 1) + d
  <2>1. q - (c - 1) \in Nat /\ q = (c - 1) + (q - (c - 1))
    BY <1>1, <1>2
  <2> QED
    BY <2>1
<1>4. c - 1 \in Nat
  OBVIOUS
<1>5. p * q = (c - 1) * p + d * p
  BY <1>3, <1>4
<1>6. (c - 1) * p \in Nat /\ d * p \in Nat
  BY <1>3, <1>4
<1> QED
  BY <1>1, <1>5, <1>6

(* ... and one whose count is not has it outside.                          *)
LEMMA CountLeaves ==
    ASSUME NEW c \in Nat \ {0}, NEW p \in Nat \ {0}, NEW n \in Nat, ~(c <= n \div p + 1)
    PROVE  (c - 1) * p > n
<1>1. c - 1 \in Nat /\ (c - 1) * p \in Nat
  OBVIOUS
<1>2. ASSUME (c - 1) * p <= n PROVE FALSE
  <2>1. c - 1 <= n \div p
    BY <1>1, <1>2, AtMostQuotient
  <2>2. n \div p \in Nat
    OBVIOUS
  <2> QED
    BY <2>1, <2>2
<1> QED
  BY <1>1, <1>2

(* The place of the last of a run, from the place of the first.            *)
LEMMA LastIsPlace ==
    ASSUME Registers, NEW c \in Nat \ {0}, NEW p \in Nat \ {0}
    PROVE  /\ (c - 1) * p \in Nat
           /\ LastOf(c, p) = segOffset + (c - 1) * p
<1>1. c - 1 \in Nat
  OBVIOUS
<1> QED
  BY <1>1 DEF LastOf

(* DO_BIND_ULEB_TIMES_SKIPPING_ULEB checks the whole run, exactly. *)
LEMMA BindRunsAreChecked ==
    ASSUME Registers, OrdinaryBindOK, NEW c \in Nat \ {0}, NEW k \in Nat
    PROVE  c <= maxCount(At.memsz, PointerSize, k + PointerSize)
           <=> LastOf(c, k + PointerSize) + PointerSize <= At.memsz
<1> DEFINE p == k + PointerSize
           n == At.memsz - PointerSize - segOffset
           t == (c - 1) * p
<1>1. p \in Nat \ {0} /\ PointerSize \in Nat
  BY OperandsAreWords
<1>2. At.memsz \in Nat /\ segOffset \in Nat
  BY AtIsSegment DEF OrdinaryBindOK, Registers
<1>3. n \in Nat
  BY <1>1, <1>2 DEF OrdinaryBindOK, validateBindLocation, Fits
<1>4. t \in Nat /\ LastOf(c, p) = segOffset + t
  BY <1>1, LastIsPlace
<1>5. c <= n \div p + 1 <=> t <= n
  <2> HIDE DEF n, p
  <2>1. c <= n \div p + 1 => t <= n
    BY <1>1, <1>3, CountFits DEF t
  <2>2. ~(c <= n \div p + 1) => t > n
    BY <1>1, <1>3, CountLeaves DEF t
  <2> QED
    BY <2>1, <2>2, <1>3, <1>4
<1>6. maxCount(At.memsz, PointerSize, p) = n \div p + 1
  BY DEF maxCount
<1>7. t <= n <=> segOffset + t + PointerSize <= At.memsz
  <2> HIDE DEF t
  <2> QED
    BY <1>1, <1>2, <1>4
<1> HIDE DEF n, p, t
<1>8. c <= maxCount(At.memsz, PointerSize, p) <=> LastOf(c, p) + PointerSize <= At.memsz
  BY <1>4, <1>5, <1>6, <1>7
<1> QED
  BY <1>8 DEF p

(* So do the repeating opcodes of a rebase stream, by maxRepeatCount. *)
LEMMA RebaseRunsAreChecked ==
    ASSUME Registers, RebaseInSegment, NEW c \in Nat \ {0}, NEW k \in Nat
    PROVE  c <= maxCount(At.filesz, rebaseWidth, k + PointerSize)
           <=> LastOf(c, k + PointerSize) + rebaseWidth <= At.filesz
<1> DEFINE p == k + PointerSize
           n == At.filesz - rebaseWidth - segOffset
           t == (c - 1) * p
<1>1. p \in Nat \ {0} /\ rebaseWidth \in Nat
  BY OperandsAreWords, WidthIsNat
<1>2. At.filesz \in Nat /\ segOffset \in Nat
  BY AtIsSegment DEF RebaseInSegment, Registers
<1>3. n \in Nat
  BY <1>1, <1>2 DEF RebaseInSegment, FileBacked
<1>4. t \in Nat /\ LastOf(c, p) = segOffset + t
  BY <1>1, LastIsPlace
<1>5. c <= n \div p + 1 <=> t <= n
  <2> HIDE DEF n, p
  <2>1. c <= n \div p + 1 => t <= n
    BY <1>1, <1>3, CountFits DEF t
  <2>2. ~(c <= n \div p + 1) => t > n
    BY <1>1, <1>3, CountLeaves DEF t
  <2> QED
    BY <2>1, <2>2, <1>3, <1>4
<1>6. maxCount(At.filesz, rebaseWidth, p) = n \div p + 1
  BY DEF maxCount
<1>7. t <= n <=> segOffset + t + rebaseWidth <= At.filesz
  <2> HIDE DEF t
  <2> QED
    BY <1>1, <1>2, <1>4
<1> HIDE DEF n, p, t
<1>8. c <= maxCount(At.filesz, rebaseWidth, p) <=> LastOf(c, p) + rebaseWidth <= At.filesz
  BY <1>4, <1>5, <1>6, <1>7
<1> QED
  BY <1>8 DEF p

(* A repeat loop begins only with a run that fits. *)
LEMMA RunsBegin ==
    ASSUME IInv, Loops, NEW c \in Operands, NEW k \in Operands,
           DoBindTimesSkipping(c, k) \/ DoRebaseTimesSkipping(c, k)
    PROVE  Loops'
<1>1. CASE Fail
  BY <1>1, EndsOutside
<1>2. CASE ~Fail
  <2>0. /\ c \in Nat \ {0} /\ k \in Nat /\ k + PointerSize \in Nat \ {0} /\ Registers
    BY <1>2, OperandsAreWords DEF DoBindTimesSkipping, DoRebaseTimesSkipping, IInv
  <2>1. /\ pc' = "repeat" /\ left' = c /\ advance' = k + PointerSize
        /\ kind' = kind /\ have' = have /\ type' = type
        /\ segment' = segment /\ segOffset' = segOffset
    BY <1>2 DEF DoBindTimesSkipping, DoRebaseTimesSkipping, Repeat, target
  <2>2. \/ /\ kind # "rebase" /\ segmentForBind
           /\ LastOf(c, k + PointerSize) + PointerSize <= At.memsz
        \/ /\ kind = "rebase" /\ segmentForBind
           /\ LastOf(c, k + PointerSize) + rebaseWidth <= At.filesz
    <3>1. CASE DoBindTimesSkipping(c, k)
      <4>1. /\ OrdinaryBindOK /\ kind # "rebase"
            /\ c <= maxCount(At.memsz, PointerSize, k + PointerSize)
        BY <1>2, <3>1 DEF DoBindTimesSkipping, BindTimesOK, Fetch, BindStreams
      <4> QED
        BY <2>0, <4>1, BindRunsAreChecked DEF OrdinaryBindOK
    <3>2. CASE DoRebaseTimesSkipping(c, k)
      <4>1. /\ RebaseInSegment /\ kind = "rebase"
            /\ c <= maxCount(At.filesz, rebaseWidth, k + PointerSize)
        BY <1>2, <3>2 DEF DoRebaseTimesSkipping, RebaseTimesOK, Fetch
      <4> QED
        BY <2>0, <4>1, RebaseRunsAreChecked DEF RebaseInSegment
    <3> QED
      BY <3>1, <3>2
  <2>3. /\ segmentForBind' = segmentForBind /\ At' = At /\ rebaseWidth' = rebaseWidth
        /\ LastOf(left, advance)' = LastOf(c, k + PointerSize)
    BY <2>1 DEF segmentForBind, At, rebaseWidth, LastOf
  <2>4. RunFits'
    BY <2>0, <2>1, <2>2, <2>3 DEF RunFits
  <2> QED
    BY <2>1, <2>4 DEF Loops
<1> QED
  BY <1>1, <1>2

(* One round less, one advance further: the last of the run stays.         *)
LEMMA LastStays ==
    ASSUME NEW x \in Nat, NEW c \in Nat \ {0}, NEW p \in Nat
    PROVE  (x + p) + (c - 1 - 1) * p = x + (c - 1) * p
<1>1. c - 1 \in Nat
  OBVIOUS
<1> DEFINE d == c - 1
<1>2. (d - 1) * p = d * p - p /\ d * p \in Nat
  BY <1>1
<1> QED
  BY <1>1, <1>2

(* A round of a repeat loop. *)
LEMMA RoundsStayInRun ==
    ASSUME IInv, Loops, BindRound \/ RebaseRound
    PROVE  Loops'
<1>1. CASE Fail
  BY <1>1, EndsOutside
<1>2. CASE ~Fail
  <2>1. /\ NextRound /\ MayAdvance(advance)
        /\ pc \in {"repeat", "times"}
    BY <1>2 DEF BindRound, RebaseRound
  <2>2. Registers /\ advance \in Nat
    BY DEF IInv, Registers
  <2>3. segOffset' \in 0 .. MaxU64 /\ segOffset' = segOffset + advance
    BY <2>1, <2>2, AdvanceIsWord DEF NextRound
  <2>4. CASE pc' # "repeat"
    BY <2>3, <2>4, OutsideLoops
  <2>5. CASE pc' = "repeat"
    <3>1. /\ pc = "repeat" /\ left # 1 /\ left' = left - 1 /\ advance' = advance
          /\ kind' = kind /\ have' = have /\ type' = type /\ segment' = segment
      BY <2>1, <2>5 DEF NextRound, target
    <3>2. RunFits
      BY <3>1 DEF Loops
    <3>3. left \in Nat \ {0} /\ left' \in Nat \ {0} /\ segOffset \in Nat
      BY <3>1, <3>2, <2>2 DEF RunFits, Registers
    <3>4. LastOf(left, advance)' = LastOf(left, advance)
      BY <2>2, <2>3, <3>1, <3>3, LastStays DEF LastOf
    <3>5. segmentForBind' = segmentForBind /\ At' = At /\ rebaseWidth' = rebaseWidth
      BY <3>1 DEF segmentForBind, At, rebaseWidth
    <3>6. RunFits'
      BY <3>1, <3>2, <3>3, <3>4, <3>5 DEF RunFits
    <3> QED
      BY <2>3, <3>6 DEF Loops
  <2> QED
    BY <2>4, <2>5
<1> QED
  BY <1>1, <1>2

(* A sum modulo 2^w is the sum, or one turn less.                          *)
LEMMA SumWraps ==
    ASSUME NEW x \in 0 .. MaxU64, NEW d \in 0 .. MaxU64
    PROVE  /\ x + d <= MaxU64 => (x + d) % (MaxU64 + 1) = x + d
           /\ x + d > MaxU64 => (x + d) % (MaxU64 + 1) = x + d - (MaxU64 + 1)
<1> DEFINE w == MaxU64 + 1
           y == x + d
           q == y \div w
           r == y % w
<1>1. w \in Nat \ {0} /\ x \in Nat /\ d \in Nat /\ y \in Nat /\ y < w + w
      /\ MaxU64 \in Nat
  BY OperandsAreWords
<1> HIDE DEF w, y
<1>2. q \in Nat /\ r \in Nat /\ r < w /\ y = w * q + r
  BY <1>1
<1> HIDE DEF q, r
<1>3. q = 0 \/ q = 1
  <2>1. ASSUME q # 0, q # 1 PROVE FALSE
    <3>1. PICK e \in Nat : q = e + 2
      <4>1. q - 2 \in Nat /\ q = (q - 2) + 2
        BY <1>2, <2>1
      <4> QED
        BY <4>1
    <3>2. w * q = w * e + w + w /\ w * e \in Nat
      BY <1>1, <3>1
    <3> QED
      BY <1>1, <1>2, <3>2
  <2> QED
    BY <2>1
<1>4. CASE q = 0
  <2>1. y = r
    BY <1>1, <1>2, <1>4
  <2> QED
    BY <1>1, <1>2, <2>1 DEF w, y, r
<1>5. CASE q = 1
  <2>1. y = w + r
    BY <1>1, <1>2, <1>5
  <2> QED
    BY <1>1, <1>2, <2>1 DEF w, y, r
<1> QED
  BY <1>3, <1>4, <1>5

(* ADD_ADDR moves to a word. *)
LEMMA AddressesAreWords ==
    ASSUME IInv, Loops, NEW d \in Nat, AddAddr(d) \/ RebaseAddAddr(d)
    PROVE  Loops'
<1>1. CASE Fail
  BY <1>1, EndsOutside
<1>2. CASE ~Fail
  <2>1. pc' = pc /\ pc = "fetch"
    BY <1>2 DEF AddAddr, RebaseAddAddr, Fetch, MoveTo
  <2>2. segOffset' \in 0 .. MaxU64
    <3>1. CASE AddAddr(d)
      <4>1. segOffset' = AddULEB(d)
        BY <1>2, <3>1 DEF AddAddr, MoveTo
      <4>2. segOffset + d \in Nat /\ MaxU64 \in Nat
        BY OperandsAreWords DEF IInv, Registers
      <4> QED
        BY <4>1, <4>2 DEF AddULEB
    <3>2. CASE RebaseAddAddr(d)
      BY <1>2, <3>2, AdvanceIsWord DEF RebaseAddAddr, MoveTo, IInv
    <3> QED
      BY <3>1, <3>2
  <2> QED
    BY <2>1, <2>2, OutsideLoops
<1> QED
  BY <1>1, <1>2

(* So do the opcodes that append one fixup and advance. *)
LEMMA AppendsAreWords ==
    ASSUME IInv, Loops, NEW o \in Nat, NEW i \in Nat,
           DoBind \/ DoBindAddAddr(o) \/ DoBindAddAddrImmScaled(i) \/ DoRebaseAddAddr(o)
    PROVE  Loops'
<1>0. PointerSize \in Nat /\ o + PointerSize \in Nat /\ (i + 1) * PointerSize \in Nat /\ Registers
  <2>1. PointerSize \in Nat
    BY OperandsAreWords
  <2> QED
    BY <2>1 DEF IInv
<1>1. CASE Fail
  BY <1>1, EndsOutside
<1>2. ASSUME NEW d \in Nat, pc = "fetch", BindAndAdvance(d), ~Fail PROVE Loops'
  <2>1. pc' = pc /\ segOffset' = segOffset + d /\ MayAdvance(d)
    BY <1>2 DEF BindAndAdvance
  <2> QED
    BY <1>0, <1>2, <2>1, AdvanceIsWord, OutsideLoops
<1>3. CASE DoBind /\ ~Fail
  <2>1. CASE threaded = "yes"
    <3>1. pc' = "fetch" /\ segOffset' = segOffset
      BY <1>3, <2>1 DEF DoBind, AddToTable, Fetch
    <3> QED
      BY <3>1, OutsideLoops DEF Loops
  <2> QED
    BY <1>0, <1>2, <1>3, <2>1 DEF DoBind, Fetch
<1>4. CASE DoBindAddAddr(o) /\ ~Fail
  BY <1>0, <1>2, <1>4 DEF DoBindAddAddr, Fetch
<1>5. CASE DoBindAddAddrImmScaled(i) /\ ~Fail
  BY <1>0, <1>2, <1>5 DEF DoBindAddAddrImmScaled, Fetch
<1>6. CASE DoRebaseAddAddr(o) /\ ~Fail
  <2>1. /\ pc' = "fetch" /\ segOffset' = segOffset + (o + PointerSize)
        /\ MayAdvance(o + PointerSize)
    BY <1>6 DEF DoRebaseAddAddr, Fetch
  <2> QED
    BY <1>0, <2>1, AdvanceIsWord, OutsideLoops
<1> QED
  BY <1>1, <1>3, <1>4, <1>5, <1>6

(* The link of a threaded chain is checked before it is added.             *)
LEMMA LinksAreWords ==
    ASSUME IInv, Loops, ApplyRound \/ ApplyFails
    PROVE  Loops'
<1>1. CASE Fail
  BY <1>1, EndsOutside
<1>2. CASE ~Fail
  <2> DEFINE m == Word[FileOffset].next
  <2>1. /\ LinkOK /\ segOffset' = segOffset + m * PointerSize
        /\ pc' \in {"fetch", "apply"}
    BY <1>2 DEF ApplyRound, ApplyFails
  <2>2. m \in Nat /\ m * PointerSize <= MaxU64 - segOffset
    BY <2>1, WordAssumption DEF LinkOK, Readable
  <2> DEFINE s == m * PointerSize
  <2>3. s \in Nat
    <3> HIDE DEF m
    <3> QED
      BY <2>2, OperandsAreWords
  <2> HIDE DEF s
  <2>4. segOffset' = segOffset + s /\ s <= MaxU64 - segOffset
    BY <2>1, <2>2 DEF s
  <2>5. segOffset' \in 0 .. MaxU64
    BY <2>3, <2>4, OperandsAreWords DEF IInv, Registers
  <2> QED
    BY <2>1, <2>5, OutsideLoops
<1> QED
  BY <1>1, <1>2

(* The other opcodes stay where they are or go to an operand. *)
LEMMA OthersAreWords ==
    ASSUME IInv, Loops, NEW i \in Nat, NEW o \in 0 .. MaxU64,
           \/ EndOfStream \/ BadOpcode
           \/ SetSegmentAndOffset(i, o) \/ SetType(i) \/ SetDylibOrdinal(o)
           \/ SetDylibSpecial(i) \/ SetSymbol
           \/ SetTableSize(o) \/ Apply \/ DoRebaseImmTimes(i)
    PROVE  Loops'
<1>1. CASE Fail \/ Finish
  BY <1>1, EndsOutside
<1>2. CASE ~Fail /\ ~Finish
  <2>1. pc = "fetch"
    BY <1>2 DEF EndOfStream, BadOpcode, SetSegmentAndOffset, SetType, SetDylibOrdinal,
                SetDylibSpecial, SetSymbol, SetTableSize, Apply, DoRebaseImmTimes, Fetch
  <2>2. /\ pc' \in {pc, "apply", "times"}
        /\ segOffset' \in {segOffset, o}
    <3>1. CASE SetSegmentAndOffset(i, o)
      BY <1>2, <3>1 DEF SetSegmentAndOffset
    <3>2. CASE SetType(i) \/ SetSymbol
      BY <1>2, <3>2 DEF SetType, SetSymbol
    <3>3. CASE SetDylibOrdinal(o) \/ SetDylibSpecial(i)
      BY <1>2, <3>3 DEF SetDylibOrdinal, SetDylibSpecial, Set
    <3>4. CASE SetTableSize(o) \/ Apply \/ DoRebaseImmTimes(i)
      BY <1>2, <3>4 DEF SetTableSize, Apply, DoRebaseImmTimes
    <3> QED
      BY <1>2, <3>1, <3>2, <3>3, <3>4 DEF EndOfStream, BadOpcode
  <2>3. segOffset' \in 0 .. MaxU64
    BY <2>2, OperandsAreWords DEF Loops
  <2> QED
    BY <2>1, <2>2, <2>3, OutsideLoops
<1> QED
  BY <1>1, <1>2

(* The runs of the repeat loops are kept by every step. *)
LEMMA LoopsInductive ==
    ASSUME IInv, Loops, [Next]_vars
    PROVE  Loops'
<1>1. Operands \subseteq Nat /\ Immediates \subseteq Nat
  BY MachineAssumption
<1>2. \A i \in Immediates : i * PointerSize \in Nat
  BY <1>1, MachineAssumption
<1>3. CASE UNCHANGED vars
  BY <1>3 DEF Loops, RunFits, LastOf, At, segmentForBind, rebaseWidth, vars, loop, target
<1>4. CASE \/ EndOfStream \/ BadOpcode \/ SetSymbol \/ Apply
  <2>1. 0 \in 0 .. MaxU64 /\ 0 \in Nat
    BY OperandsAreWords
  <2> QED
    BY <1>4, <2>1, OthersAreWords
<1>5. CASE \/ \E i \in Immediates, o \in Operands : SetSegmentAndOffset(i, o)
           \/ \E i \in Immediates : SetType(i)
           \/ \E o \in Operands : SetDylibOrdinal(o)
           \/ \E i \in Immediates : SetDylibSpecial(i)
           \/ \E n \in Operands : SetTableSize(n)
           \/ \E i \in Immediates : DoRebaseImmTimes(i)
  <2>1. 0 \in 0 .. MaxU64 /\ 0 \in Nat /\ Operands \subseteq 0 .. MaxU64
    BY OperandsAreWords
  <2> QED
    BY <1>1, <1>5, <2>1, OthersAreWords
<1>6. CASE \/ \E d \in Operands : AddAddr(d)
           \/ \E d \in Operands : RebaseAddAddr(d)
           \/ \E i \in Immediates : RebaseAddAddrImmScaled(i)
  BY <1>1, <1>2, <1>6, AddressesAreWords DEF RebaseAddAddrImmScaled
<1>7. CASE \/ DoBind
           \/ \E o \in Operands : DoBindAddAddr(o)
           \/ \E i \in Immediates : DoBindAddAddrImmScaled(i)
           \/ \E o \in Operands : DoRebaseAddAddr(o)
  BY <1>1, <1>7, AppendsAreWords
<1>8. CASE \/ \E c, k \in Operands : DoBindTimesSkipping(c, k)
           \/ \E c, k \in Operands : DoRebaseTimesSkipping(c, k)
  BY <1>8, RunsBegin
<1>9. CASE BindRound \/ RebaseRound
  BY <1>9, RoundsStayInRun
<1>10. CASE ApplyRound \/ ApplyFails
  BY <1>10, LinksAreWords
<1> QED
  BY <1>3, <1>4, <1>5, <1>6, <1>7, <1>8, <1>9, <1>10 DEF Next

(* A count passes just when its last fixup lies in the segment: the first  *)
(* half of the property, of any state.                                     *)
LEMMA CountsAreExact ==
    ASSUME Registers, Loops
    PROVE  RepeatsAreCheckedExactly
<1>1. (pc = "repeat" /\ kind # "rebase") => LastOf(left, advance) + PointerSize <= At.memsz
  BY DEF Loops, RunFits
<1>2. (pc = "repeat" /\ kind = "rebase") => LastOf(left, advance) + rebaseWidth <= At.filesz
  BY DEF Loops, RunFits
<1>3. ASSUME NEW c \in Operands \ {0}, NEW k \in Operands, k <= MaxU64 - PointerSize
      PROVE  /\ Fetch(EagerStreams) /\ OrdinaryBindOK
                   => (BindTimesOK(c, k) <=> LastOf(c, k + PointerSize) + PointerSize <= At.memsz)
             /\ Fetch({"rebase"}) /\ RebaseInSegment
                   => (RebaseTimesOK(c, k) <=> LastOf(c, k + PointerSize) + rebaseWidth <= At.filesz)
  <2>1. c \in Nat \ {0} /\ k \in Nat
    BY OperandsAreWords
  <2>2. ASSUME OrdinaryBindOK
        PROVE  BindTimesOK(c, k) <=> LastOf(c, k + PointerSize) + PointerSize <= At.memsz
    <3>1. BindTimesOK(c, k) <=> c <= maxCount(At.memsz, PointerSize, k + PointerSize)
      BY <1>3, <2>2 DEF BindTimesOK
    <3> QED
      BY <2>1, <2>2, <3>1, BindRunsAreChecked
  <2>3. ASSUME RebaseInSegment
        PROVE  RebaseTimesOK(c, k) <=> LastOf(c, k + PointerSize) + rebaseWidth <= At.filesz
    <3>1. RebaseTimesOK(c, k) <=> c <= maxCount(At.filesz, rebaseWidth, k + PointerSize)
      BY <1>3, <2>3 DEF RebaseTimesOK
    <3> QED
      BY <2>1, <2>3, <3>1, RebaseRunsAreChecked
  <2> QED
    BY <2>2, <2>3
<1> QED
  BY <1>1, <1>2, <1>3 DEF RepeatsAreCheckedExactly

(* ADD_ADDR_ULEB accepts exactly the signed distances that stay inside.    *)
LEMMA DeltasAreSigned ==
    ASSUME Registers, Loops, segmentForBind, NEW d \in 0 .. MaxU64
    PROVE  /\ checkedAddressULEBAdvance(d)
                <=> segOffset + Signed(d) \in 0 .. At.memsz - PointerSize
           /\ checkedAddressULEBAdvance(d) => AddULEB(d) = segOffset + Signed(d)
<1> DEFINE s == At.memsz
           x == segOffset
           h == MaxInt64
<1>1. /\ x \in Nat /\ x <= MaxU64 /\ d \in Nat /\ d <= MaxU64
      /\ MaxU64 \in Nat /\ PointerSize \in Nat \ {0}
  BY OperandsAreWords DEF Loops
<1>2. s \in Nat /\ s <= MaxU64
  <2> DEFINE R == [addr: 0 .. MaxU64, memsz: 0 .. MaxU64, filesz: 0 .. MaxU64,
                    offset: 0 .. MaxU64]
  <2>1. segment \in 1 .. Len(Segments)
    BY SegmentsAssumption DEF Registers, segmentForBind
  <2>2. Segments \in Seq(R)
    BY SegmentsAssumption
  <2> HIDE DEF R
  <2>3. At \in R
    BY <2>1, <2>2 DEF At
  <2>4. At.memsz \in 0 .. MaxU64
    BY <2>3 DEF R
  <2> QED
    BY <2>4, <1>1
<1>3. h \in Nat /\ h <= MaxU64
  BY <1>1 DEF MaxInt64
<1>4. /\ x + d <= MaxU64 => AddULEB(d) = x + d
      /\ x + d > MaxU64 => AddULEB(d) = x + d - (MaxU64 + 1)
  BY <1>1, SumWraps DEF AddULEB, Loops
<1>5. /\ d <= h => Signed(d) = d
      /\ d > h => Signed(d) = d - (MaxU64 + 1)
  BY <1>1, <1>3 DEF Signed
<1>6. checkedAddressULEBAdvance(d)
         <=> /\ IF d <= h THEN AddULEB(d) >= x ELSE AddULEB(d) <= x
             /\ PointerSize <= s /\ AddULEB(d) <= s - PointerSize
  BY DEF checkedAddressULEBAdvance, Fits
<1> DEFINE u == AddULEB(d)
           g == Signed(d)
<1> HIDE DEF u, g, s, x, h
<1>7. CASE d <= h
  <2>1. CASE x + d <= MaxU64
    BY <1>1, <1>2, <1>3, <1>4, <1>5, <1>6, <1>7, <2>1 DEF u, g, x, s
  <2>2. CASE x + d > MaxU64
    BY <1>1, <1>2, <1>3, <1>4, <1>5, <1>6, <1>7, <2>2 DEF u, g, x, s
  <2> QED
    BY <1>1, <2>1, <2>2
<1>8. CASE d > h
  <2>1. CASE x + d <= MaxU64
    BY <1>1, <1>2, <1>3, <1>4, <1>5, <1>6, <1>8, <2>1 DEF u, g, x, s
  <2>2. CASE x + d > MaxU64
    BY <1>1, <1>2, <1>3, <1>4, <1>5, <1>6, <1>8, <2>2 DEF u, g, x, s
  <2> QED
    BY <1>1, <2>1, <2>2
<1> QED
  BY <1>1, <1>3, <1>7, <1>8

(* The checks of the repeats and of ADD_ADDR are exact for every stream,   *)
(* every segment table and every width of a word: checkedAddressULEBAdvance*)
(* and maxCount of parseBinds, maxRepeatCount of parseRebase.              *)
THEOREM OffsetChecksAreExact == Spec => []OffsetBoundsAreExact
<1>1. Init => Loops
  BY OperandsAreWords DEF Init, Loops
<1>2. Loops /\ IInv /\ [Next]_vars => Loops'
  BY LoopsInductive
<1>3. IInv /\ Loops => OffsetBoundsAreExact
  <2> SUFFICES ASSUME IInv, Loops PROVE OffsetBoundsAreExact
    OBVIOUS
  <2>1. Registers
    BY DEF IInv
  <2>2. RepeatsAreCheckedExactly
    BY <2>1, CountsAreExact
  <2>3. AddressDeltasAreSigned
    BY <2>1, DeltasAreSigned DEF AddressDeltasAreSigned
  <2> QED
    BY <2>2, <2>3 DEF OffsetBoundsAreExact
<1> QED
  BY <1>1, <1>2, <1>3, Invariance, PTL DEF Spec
=============================================================================
