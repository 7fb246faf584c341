--------------------------- MODULE SigningProofs ----------------------------
(***************************************************************************)
(* What Signing promises for every layout, every size and any number of    *)
(* calls: a failed CodeSign is undone completely, the header describes the *)
(* commands, the first section of __TEXT survives in every saved file when *)
(* LoadSize computes what Write writes, the signature of a saved file is   *)
(* over the words before it, and what CodeSign committed can be saved.     *)
(* Then what CodeSignatures takes from a signature: whatever its offsets   *)
(* and lengths say, it lies in the signature.                              *)
(***************************************************************************)
EXTENDS Signing, CodeSignatures, FiniteSetTheorems, SequenceTheorems, RecursionTheorems, TLAPS

(* Sequences, whatever they hold.                                          *)
IsSeq(s) == \E S : s \in Seq(S)

(* Copies builds a sequence, an empty one for a count below one.           *)
LEMMA CopiesIsSeq ==
    ASSUME NEW n \in Int, NEW w
    PROVE  /\ IsSeq(Copies(n, w))
           /\ n \in Nat => Len(Copies(n, w)) = n
<1>1. CASE n >= 0
  <2>1. Copies(n, w) \in Seq({w})
    BY <1>1 DEF Copies
  <2>2. IsSeq(Copies(n, w))  BY <2>1 DEF IsSeq
  <2>3. DOMAIN Copies(n, w) = 1 .. n  BY DEF Copies
  <2>4. Len(Copies(n, w)) = n  BY <1>1, <2>1, <2>3
  <2> QED  BY <2>2, <2>4
<1>2. CASE n < 0
  <2>1. 1 .. n = 1 .. 0  BY <1>2
  <2>2. Copies(n, w) = [k \in 1 .. 0 |-> w]  BY <2>1 DEF Copies
  <2>3. [k \in 1 .. 0 |-> w] \in Seq({w})  OBVIOUS
  <2> QED  BY <1>2, <2>2, <2>3 DEF IsSeq
<1> QED  BY <1>1, <1>2

(* Concatenation.                                                          *)
LEMMA ConcatIsSeq ==
    ASSUME NEW s, NEW t, IsSeq(s), IsSeq(t)
    PROVE  /\ IsSeq(s \o t)
           /\ Len(s \o t) = Len(s) + Len(t)
           /\ Len(s) \in Nat /\ Len(t) \in Nat
           /\ \A i \in 1 .. Len(s) : (s \o t)[i] = s[i]
           /\ \A i \in 1 .. Len(t) : (s \o t)[Len(s) + i] = t[i]
<1>1. PICK S : s \in Seq(S)  BY DEF IsSeq
<1>2. PICK T : t \in Seq(T)  BY DEF IsSeq
<1>3. s \in Seq(S \cup T) /\ t \in Seq(S \cup T)  BY <1>1, <1>2
<1>4. s \o t \in Seq(S \cup T)  BY <1>3
<1> QED  BY <1>3, <1>4 DEF IsSeq

(* Slice within a sequence.                                                *)
LEMMA SliceIsSeq ==
    ASSUME NEW s, IsSeq(s), NEW a \in Nat, NEW b \in Nat, a <= b, b <= Len(s)
    PROVE  /\ IsSeq(Slice(s, a, b))
           /\ Len(Slice(s, a, b)) = b - a
           /\ \A i \in 1 .. b - a : Slice(s, a, b)[i] = s[a + i]
<1>1. PICK S : s \in Seq(S)  BY DEF IsSeq
<1>2. SubSeq(s, a + 1, b) \in Seq(S)  BY <1>1
<1> QED  BY <1>1, <1>2 DEF IsSeq, Slice
-----------------------------------------------------------------------------
(* The record f has exactly the fields that CodeSign restores, and one     *)
(* other that it leaves alone.                                             *)
Shape(file) ==
    file = [ NCommands |-> file.NCommands, SizeCommands |-> file.SizeCommands,
             added |-> file.added, filesz |-> file.filesz, memsz |-> file.memsz,
             cs |-> file.cs, ledata |-> file.ledata ]

HasCS(cs) == IF cs = NoSignature THEN 0 ELSE 1

(* The header's numbers, as sums over the commands.                        *)
Counted ==
    /\ f.added \in {0, 1}
    /\ f.NCommands = layout.ncmds + f.added + HasCS(f.cs)
    /\ f.SizeCommands = layout.written + LinkeditCmd
          + (IF f.added = 0 THEN 0 ELSE OtherCmd)
          + (IF f.cs = NoSignature THEN 0 ELSE SignatureCmd)

(* LC_CODE_SIGNATURE and the sizes CodeSign computes with.                 *)
Typed ==
    /\ f.filesz \in Nat
    /\ f.cs # NoSignature =>
          /\ f.cs = Signature(f.cs.offset, f.cs.size, f.cs.primary)
          /\ f.cs.offset \in Nat

Inv == layout \in Layouts /\ Shape(f) /\ Counted /\ Typed

(* checkedAlign rounds up.                                                 *)
LEMMA AlignIsNat ==
    ASSUME NEW v \in Nat, NEW a \in Nat \ {0}
    PROVE  Align(v, a) \in Nat
<1>1. v + a - 1 \in Nat  OBVIOUS
<1>2. (v + a - 1) \div a \in Nat  BY <1>1
<1> QED  BY <1>2 DEF Align

(* The deferred restore gives back the whole file.                         *)
LEMMA RollbackRestores ==
    ASSUME Shape(f), NEW e
    PROVE  Rollback(f, Mutated(e)) = f
<1>1. Mutated(e).added = f.added  BY DEF Mutated
<1> QED  BY <1>1 DEF Rollback, Shape

(* The commands of any file have the length their parts have.              *)
LEMMA HeaderIsCounted ==
    ASSUME layout \in Layouts, NEW file, file.added \in {0, 1}
    PROVE  /\ IsSeq(HeaderAndLoads(file))
           /\ Len(HeaderAndLoads(file)) =
                 HdrSize + layout.written + LinkeditCmd
                   + (IF file.added = 0 THEN 0 ELSE OtherCmd)
                   + (IF file.cs = NoSignature THEN 0 ELSE SignatureCmd)
<1> DEFINE a == Copies(HdrSize, <<"header", file.NCommands, file.SizeCommands>>)
           b == Copies(layout.written, <<"commands">>)
           c == Copies(LinkeditCmd, <<"linkedit", file.filesz, file.memsz>>)
           d == Copies(file.added * OtherCmd, <<"added">>)
           e == IF file.cs = NoSignature THEN <<>>
                ELSE Copies(SignatureCmd, <<"signature", file.cs.offset, file.cs.size>>)
<1>1. /\ HdrSize \in Nat /\ LinkeditCmd \in Nat /\ OtherCmd \in Nat
      /\ SignatureCmd \in Nat /\ layout.written \in Nat
  BY SizesAssumption, LayoutsAssumption
<1>2. /\ file.added * OtherCmd \in Nat
      /\ file.added * OtherCmd = (IF file.added = 0 THEN 0 ELSE OtherCmd)
  <2>1. CASE file.added = 0  BY <1>1, <2>1
  <2>2. CASE file.added = 1  BY <1>1, <2>2
  <2> QED  BY <2>1, <2>2
<1>3. IsSeq(a) /\ Len(a) = HdrSize  BY <1>1, CopiesIsSeq
<1>4. IsSeq(b) /\ Len(b) = layout.written  BY <1>1, CopiesIsSeq
<1>5. IsSeq(c) /\ Len(c) = LinkeditCmd  BY <1>1, CopiesIsSeq
<1>6. IsSeq(d) /\ Len(d) = (IF file.added = 0 THEN 0 ELSE OtherCmd)
  BY <1>1, <1>2, CopiesIsSeq
<1>7. IsSeq(e) /\ Len(e) = (IF file.cs = NoSignature THEN 0 ELSE SignatureCmd)
  <2>1. CASE file.cs = NoSignature
    <3>1. <<>> \in Seq({})  OBVIOUS
    <3> QED  BY <2>1, <3>1 DEF IsSeq
  <2>2. CASE file.cs # NoSignature  BY <1>1, <2>2, CopiesIsSeq
  <2> QED  BY <2>1, <2>2
<1>8. HeaderAndLoads(file) = a \o b \o c \o d \o e
  BY DEF HeaderAndLoads
<1> HIDE DEF a, b, c, d, e
<1>9. IsSeq(a \o b) /\ Len(a \o b) = Len(a) + Len(b)
  BY <1>3, <1>4, ConcatIsSeq
<1>10. IsSeq(a \o b \o c) /\ Len(a \o b \o c) = Len(a) + Len(b) + Len(c)
  BY <1>9, <1>5, ConcatIsSeq
<1>11. IsSeq(a \o b \o c \o d)
       /\ Len(a \o b \o c \o d) = Len(a) + Len(b) + Len(c) + Len(d)
  BY <1>10, <1>6, ConcatIsSeq
<1>12. IsSeq(a \o b \o c \o d \o e)
       /\ Len(a \o b \o c \o d \o e) = Len(a) + Len(b) + Len(c) + Len(d) + Len(e)
  BY <1>11, <1>7, ConcatIsSeq
<1> QED  BY <1>1, <1>3, <1>4, <1>5, <1>6, <1>7, <1>8, <1>12

-----------------------------------------------------------------------------
(* One step of each action.                                                *)

(* The fields of a signature, and that it is one.                          *)
LEMMA SignatureFields ==
    ASSUME NEW o, NEW z, NEW p
    PROVE  /\ Signature(o, z, p).offset = o
           /\ Signature(o, z, p).size = z
           /\ Signature(o, z, p).primary = p
           /\ Signature(o, z, p) # NoSignature
<1>1. Signature(o, z, p).tag = "signature"  BY DEF Signature
<1>2. NoSignature.tag = "none"  BY DEF NoSignature
<1>3. Signature(o, z, p) # NoSignature  BY <1>1, <1>2
<1> QED  BY <1>3 DEF Signature

(* The numbers of a CodeSign that passed the early checks.                 *)
LEMMA OffsetIsNat ==
    ASSUME Inv, NEW id, EarlyError(id) = "none"
    PROVE  /\ SignatureOffset \in Nat /\ Linkedit \in Nat
           /\ LEDataLength \in Nat
           /\ LESize \in Nat /\ LESize <= LEDataLength
           /\ ~(Linkedit + LESize > Len(image))
           /\ (f.cs = NoSignature /\ layout.section # 0) =>
                 HdrSize + LoadSize(f) + SignatureCmd <= layout.section
<1>1. Linkedit \in Nat /\ f.filesz \in Nat /\ SignatureAlign \in Nat \ {0}
  BY SizesAssumption, LayoutsAssumption DEF Inv, Typed, Linkedit
<1>2. SignatureOffset \in Nat
  BY <1>1, AlignIsNat DEF SignatureOffset, Inv, Typed
<1>3. /\ ~(SignatureOffset < Linkedit)
      /\ ~(Linkedit + LESize > Len(image))
      /\ f.cs = NoSignature => validateCodeSignatureLoadSpace
  BY DEF EarlyError
<1>4. LEDataLength \in Nat  BY <1>1, <1>2, <1>3 DEF LEDataLength
<1>5. LESize \in Nat /\ LESize <= LEDataLength  BY <1>1, <1>4 DEF LESize
<1> QED  BY <1>1, <1>2, <1>3, <1>4, <1>5 DEF validateCodeSignatureLoadSpace

(* A commit counts the new command once.                                   *)
LEMMA CommitKeepsInv ==
    ASSUME Inv, NEW id, EarlyError(id) = "none",
           NEW estimate \in Estimates, NEW new,
           f' = [Mutated(estimate) EXCEPT !.ledata = new],
           UNCHANGED layout
    PROVE  Inv'
<1> USE DEF Inv
<1>1. f' = [ NCommands |-> f.NCommands + (IF f.cs = NoSignature THEN 1 ELSE 0),
             SizeCommands |-> f.SizeCommands + (IF f.cs = NoSignature THEN SignatureCmd ELSE 0),
             added |-> f.added, filesz |-> f'.filesz, memsz |-> f'.memsz,
             cs |-> f'.cs, ledata |-> f'.ledata ]
  BY DEF Mutated
<1>2. /\ f'.cs = Signature(SignatureOffset, NewFilesz(estimate) - LEDataLength,
                           IF f.cs = NoSignature THEN "" ELSE f.cs.primary)
      /\ f'.filesz = NewFilesz(estimate)
  BY DEF Mutated
<1>3. Shape(f)'
  BY <1>1 DEF Shape
<1>4. /\ f'.cs = Signature(f'.cs.offset, f'.cs.size, f'.cs.primary)
      /\ f'.cs.offset = SignatureOffset
      /\ f'.cs # NoSignature
  <2>1. \E z, p : f'.cs = Signature(SignatureOffset, z, p)  BY <1>2
  <2>2. PICK z, p : f'.cs = Signature(SignatureOffset, z, p)  BY <2>1
  <2> QED  BY <2>2, SignatureFields
<1>5. Counted'
  <2>1. layout.ncmds \in Nat /\ layout.written \in Nat /\ LinkeditCmd \in Nat
        /\ OtherCmd \in Nat /\ SignatureCmd \in Nat
    BY SizesAssumption, LayoutsAssumption
  <2>2. /\ f'.added = f.added
        /\ f'.NCommands = f.NCommands + (IF f.cs = NoSignature THEN 1 ELSE 0)
        /\ f'.SizeCommands = f.SizeCommands
              + (IF f.cs = NoSignature THEN SignatureCmd ELSE 0)
    BY <1>1
  <2> QED  BY <1>4, <2>1, <2>2 DEF Counted, HasCS
<1>6. Typed'
  <2>1. SignatureOffset \in Nat /\ LEDataLength \in Nat  BY OffsetIsNat
  <2>2. estimate \in Nat /\ PageSize \in Nat \ {0}  BY SizesAssumption
  <2>3. NewFilesz(estimate) \in Nat  BY <2>1, <2>2, AlignIsNat DEF NewFilesz
  <2> QED  BY <1>2, <1>4, <2>1, <2>3 DEF Typed
<1> QED  BY <1>3, <1>5, <1>6

(* An added command is counted, a removed signature is not.                *)
LEMMA EditsKeepInv ==
    ASSUME Inv, AddLoad \/ RemoveSignature
    PROVE  Inv'
<1> USE DEF Inv
<1>1. layout.ncmds \in Nat /\ layout.written \in Nat /\ LinkeditCmd \in Nat
      /\ OtherCmd \in Nat /\ SignatureCmd \in Nat
  BY SizesAssumption, LayoutsAssumption
<1>2. CASE AddLoad
  <2>1. f' = [ NCommands |-> f.NCommands + 1, SizeCommands |-> f.SizeCommands + OtherCmd,
               added |-> 1, filesz |-> f.filesz, memsz |-> f.memsz,
               cs |-> f.cs, ledata |-> f.ledata ]
    BY <1>2 DEF AddLoad, Shape
  <2>2. Shape(f)'  BY <2>1 DEF Shape
  <2>3. /\ f'.NCommands = f.NCommands + 1 /\ f'.SizeCommands = f.SizeCommands + OtherCmd
        /\ f'.added = 1 /\ f'.cs = f.cs
    BY <2>1
  <2>4. f.added = 0 /\ layout' = layout  BY <1>2 DEF AddLoad
  <2>5. f'.filesz = f.filesz  BY <2>1
  <2> QED  BY <1>1, <2>2, <2>3, <2>4, <2>5 DEF Counted, HasCS, Typed
<1>3. CASE RemoveSignature
  <2>1. f' = [ NCommands |-> f.NCommands - 1, SizeCommands |-> f.SizeCommands - SignatureCmd,
               added |-> f.added, filesz |-> f.filesz, memsz |-> f.memsz,
               cs |-> NoSignature, ledata |-> f.ledata ]
    BY <1>3 DEF RemoveSignature, Shape
  <2>2. Shape(f)'  BY <2>1 DEF Shape
  <2>3. /\ f'.NCommands = f.NCommands - 1 /\ f'.SizeCommands = f.SizeCommands - SignatureCmd
        /\ f'.added = f.added /\ f'.cs = NoSignature
    BY <2>1
  <2>4. f.cs # NoSignature /\ layout' = layout  BY <1>3 DEF RemoveSignature
  <2>5. f'.filesz = f.filesz  BY <2>1
  <2> QED  BY <1>1, <2>2, <2>3, <2>4, <2>5 DEF Counted, HasCS, Typed
<1> QED  BY <1>2, <1>3

(* Opening the saved file again reads the same header.                     *)
LEMMA ReopenKeepsInv ==
    ASSUME Inv, Reopen
    PROVE  Inv'
<1> USE DEF Inv
<1> DEFINE cs == IF f.cs = NoSignature THEN NoSignature
                 ELSE [f.cs EXCEPT !.primary = saved[f.cs.offset + 1][2]]
<1>1. f' = [ NCommands |-> f.NCommands, SizeCommands |-> f.SizeCommands,
             added |-> f.added, filesz |-> f.filesz, memsz |-> f.memsz,
             cs |-> cs, ledata |-> NoData ]
  BY DEF Reopen, Shape
<1>2. f.cs # NoSignature =>
        cs = Signature(f.cs.offset, f.cs.size, saved[f.cs.offset + 1][2])
  <2> SUFFICES ASSUME f.cs # NoSignature
               PROVE  [f.cs EXCEPT !.primary = saved[f.cs.offset + 1][2]]
                        = Signature(f.cs.offset, f.cs.size, saved[f.cs.offset + 1][2])
    OBVIOUS
  <2>1. f.cs = Signature(f.cs.offset, f.cs.size, f.cs.primary)  BY DEF Typed
  <2>2. ASSUME NEW o, NEW z, NEW p, NEW q
        PROVE  [Signature(o, z, p) EXCEPT !.primary = q] = Signature(o, z, q)
    BY DEF Signature
  <2> QED  BY <2>1, <2>2
<1>3. (cs = NoSignature) <=> (f.cs = NoSignature)
  BY <1>2, SignatureFields
<1> HIDE DEF cs
<1>4. Shape(f)'  BY <1>1 DEF Shape
<1>5. /\ f'.NCommands = f.NCommands /\ f'.SizeCommands = f.SizeCommands
      /\ f'.added = f.added /\ f'.cs = cs /\ f'.filesz = f.filesz
  BY <1>1
<1>6. layout' = layout  BY DEF Reopen
<1>7. Counted'  BY <1>3, <1>5, <1>6 DEF Counted, HasCS
<1>8. Typed'
  <2>1. f.cs # NoSignature => /\ cs = Signature(cs.offset, cs.size, cs.primary)
                              /\ cs.offset = f.cs.offset
    BY <1>2, SignatureFields
  <2> QED  BY <1>3, <1>5, <2>1 DEF Typed
<1> QED  BY <1>4, <1>6, <1>7, <1>8

(* A CodeSign that fails leaves f alone, one that commits keeps Inv.       *)
LEMMA CodeSignKeepsInv ==
    ASSUME Inv, NEW id \in IDs, NEW estimate \in Estimates, NEW size \in SignatureSizes,
           CodeSign(id, estimate, size)
    PROVE  Inv' /\ (call'.err # "none" => f' = f)
<1> DEFINE new == NewLEData(Mutated(estimate), EffectiveID(id), size)
<1>1. layout' = layout  BY DEF CodeSign
<1>2. \/ UNCHANGED f
      \/ f' = Rollback(f, Mutated(estimate))
      \/ /\ EarlyError(id) = "none"
         /\ call' = Outcome(id, "none", EffectiveID(id))
         /\ f' = [Mutated(estimate) EXCEPT !.ledata = new]
  BY DEF CodeSign
<1> HIDE DEF new
<1>3. CASE UNCHANGED f
  BY <1>1, <1>3 DEF Inv, Shape, Counted, Typed
<1>4. CASE f' = Rollback(f, Mutated(estimate))
  <2>1. f' = f  BY <1>4, RollbackRestores DEF Inv
  <2> QED  BY <1>1, <2>1 DEF Inv, Shape, Counted, Typed
<1>5. CASE /\ EarlyError(id) = "none"
           /\ call' = Outcome(id, "none", EffectiveID(id))
           /\ f' = [Mutated(estimate) EXCEPT !.ledata = new]
  <2>1. Inv'  BY <1>1, <1>5, CommitKeepsInv
  <2>2. call'.err = "none"  BY <1>5 DEF Outcome
  <2> QED  BY <2>1, <2>2
<1> QED  BY <1>2, <1>3, <1>4, <1>5

(* Inv is inductive.                                                       *)
LEMMA InitInv == Init => Inv
<1> SUFFICES ASSUME Init PROVE Inv  OBVIOUS
<1>1. layout \in Layouts  BY DEF Init
<1>2. f = [ NCommands    |-> layout.ncmds + (IF layout.cs = NoSignature THEN 0 ELSE 1),
            SizeCommands |-> layout.written + LinkeditCmd
                               + (IF layout.cs = NoSignature THEN 0 ELSE SignatureCmd),
            added |-> 0, filesz |-> layout.filesz, memsz |-> Align(layout.filesz, PageSize),
            cs |-> layout.cs, ledata |-> NoData ]
  BY DEF Init
<1>3. Shape(f)  BY <1>2 DEF Shape
<1>4. /\ layout.ncmds \in Nat /\ layout.written \in Nat /\ LinkeditCmd \in Nat
      /\ SignatureCmd \in Nat /\ layout.filesz \in Nat
      /\ layout.cs # NoSignature =>
            /\ layout.cs = Signature(layout.cs.offset, layout.cs.size, layout.cs.primary)
            /\ layout.cs.offset \in Nat
  BY <1>1, SizesAssumption, LayoutsAssumption
<1>5. /\ f.added = 0 /\ f.cs = layout.cs /\ f.filesz = layout.filesz
      /\ f.NCommands = layout.ncmds + (IF layout.cs = NoSignature THEN 0 ELSE 1)
      /\ f.SizeCommands = layout.written + LinkeditCmd
            + (IF layout.cs = NoSignature THEN 0 ELSE SignatureCmd)
  BY <1>2
<1>6. Counted  BY <1>4, <1>5 DEF Counted, HasCS
<1>7. Typed  BY <1>4, <1>5 DEF Typed
<1> QED  BY <1>1, <1>3, <1>6, <1>7 DEF Inv

(* Every call, completed or failed, keeps the invariant.                   *)
LEMMA NextInv == Inv /\ [Next]_vars => Inv'
<1> SUFFICES ASSUME Inv, [Next]_vars PROVE Inv'  OBVIOUS
<1>1. ASSUME NEW id \in IDs, NEW estimate \in Estimates, NEW size \in SignatureSizes,
             CodeSign(id, estimate, size)
      PROVE  Inv'
  BY <1>1, CodeSignKeepsInv
<1>2. CASE AddLoad \/ RemoveSignature  BY <1>2, EditsKeepInv
<1>3. CASE Reopen  BY <1>3, ReopenKeepsInv
<1>4. CASE SaveBuffer \/ UNCHANGED vars
  BY <1>4 DEF SaveBuffer, vars, Inv, Shape, Counted, Typed
<1> QED  BY <1>1, <1>2, <1>3, <1>4 DEF Next

(* The counts of the header, the sizes of __LINKEDIT and the fields of the *)
(* signature command (CodeSign, AddLoad, RemoveLoad) satisfy Inv in every  *)
(* reachable state.                                                        *)
THEOREM Invariance == Spec => []Inv
BY InitInv, NextInv, PTL DEF Spec

(* The header's size is the length of what is written.                     *)
LEMMA HeaderFromInv ==
    ASSUME Inv
    PROVE  HeaderDescribesCommands
<1>1. layout.ncmds \in Nat /\ layout.written \in Nat /\ LinkeditCmd \in Nat
      /\ HdrSize \in Nat /\ OtherCmd \in Nat /\ SignatureCmd \in Nat
  BY SizesAssumption, LayoutsAssumption DEF Inv
<1>2. Len(HeaderAndLoads(f)) =
        HdrSize + layout.written + LinkeditCmd
          + (IF f.added = 0 THEN 0 ELSE OtherCmd)
          + (IF f.cs = NoSignature THEN 0 ELSE SignatureCmd)
  BY HeaderIsCounted DEF Inv, Counted
<1> QED  BY <1>1, <1>2, SMTT(30) DEF Inv, Counted, HasCS, HeaderDescribesCommands, NumCommands

(* The header describes the commands after any sequence of calls.          *)
THEOREM HeaderStaysRight == Spec => []HeaderDescribesCommands
<1>1. Inv => HeaderDescribesCommands  BY HeaderFromInv
<1> QED  BY <1>1, Invariance, PTL

(* A failed CodeSign changes nothing.                                      *)
THEOREM FailuresAreUndone == Spec => FailedSignChangesNothing
<1> DEFINE A == (calls' = calls + 1 /\ call' # NoCall /\ call'.err # "none") => f' = f
<1>1. Inv /\ [Next]_vars => [A]_vars
  <2> SUFFICES ASSUME Inv, Next PROVE A  BY DEF A
  <2>1. ASSUME NEW id \in IDs, NEW estimate \in Estimates, NEW size \in SignatureSizes,
               CodeSign(id, estimate, size)
        PROVE  A
    BY <2>1, CodeSignKeepsInv DEF A
  <2>2. CASE AddLoad \/ RemoveSignature \/ Reopen
    BY <2>2 DEF AddLoad, RemoveSignature, Reopen, A
  <2>3. CASE SaveBuffer
    BY <2>3 DEF SaveBuffer, A
  <2> QED  BY <2>1, <2>2, <2>3 DEF Next
<1> QED  BY <1>1, Invariance, PTL DEF Spec, FailedSignChangesNothing
-----------------------------------------------------------------------------
(* The first section of __TEXT.                                            *)

(* Every command is written with the size LoadSize computes.               *)
Sized == \A l \in Layouts : l.loadSize = l.written

FirstTextOf(l) == IF l.section = 0 THEN l.text ELSE l.section

(* s is a file of layout l that reaches __LINKEDIT and has the words of    *)
(* the opened file from the first section to the end of __TEXT.            *)
HasText(s, l) ==
    /\ IsSeq(s)
    /\ Len(s) >= l.linkedit
    /\ \A k \in FirstTextOf(l) .. l.text - 1 : s[k + 1] = <<"file", k>>

(* The commands end before the first section, and the files at hand and    *)
(* the __LINKEDIT data in memory are sequences with the text intact.       *)
TextInv ==
    /\ layout.section # 0 => HdrSize + f.SizeCommands <= layout.section
    /\ HasText(image, layout)
    /\ saved # NoData => HasText(saved, layout)
    /\ f.ledata # NoData => IsSeq(f.ledata)

(* What SaveBuffer writes has the text of the file it reads from.          *)
LEMMA SavedHasText ==
    ASSUME Inv, TextInv, ~SaveFails
    PROVE  HasText(SavedFile, layout)
<1> DEFINE h == Len(HeaderAndLoads(f))
           A == HeaderAndLoads(f)
           B == Slice(image, h, layout.text)
           C == Slice(image, layout.text, Linkedit)
           D == IF FromMemory THEN f.ledata ELSE Slice(image, Linkedit, Linkedit + f.filesz)
<1>1. /\ layout.text \in Nat /\ layout.linkedit \in Nat /\ layout.section \in Nat
      /\ layout.section <= layout.text /\ layout.text <= layout.linkedit
      /\ f.filesz \in Nat
  BY LayoutsAssumption DEF Inv, Typed
<1>2. IsSeq(image) /\ Len(image) \in Nat /\ Len(image) >= layout.linkedit
  BY ConcatIsSeq DEF TextInv, HasText
<1>3. IsSeq(A) /\ h \in Nat
  BY HeaderIsCounted, ConcatIsSeq DEF Inv, Counted
<1>4. h <= layout.text /\ (layout.section # 0 => h <= layout.section)
  <2>1. ~(h > layout.text)  BY DEF SaveFails
  <2>2. h = HdrSize + f.SizeCommands  BY HeaderFromInv DEF HeaderDescribesCommands
  <2> QED  BY <1>1, <1>3, <2>1, <2>2 DEF TextInv
<1>5. /\ IsSeq(B) /\ Len(B) = layout.text - h
      /\ \A i \in 1 .. layout.text - h : B[i] = image[h + i]
  <2> HIDE DEF h
  <2>1. layout.text <= Len(image)  BY <1>1, <1>2
  <2>2. h \in Nat /\ h <= layout.text  BY <1>3, <1>4
  <2> QED  BY <1>1, <1>2, <2>1, <2>2, SliceIsSeq
<1>6. IsSeq(C) /\ Len(C) = layout.linkedit - layout.text
  BY <1>1, <1>2, SliceIsSeq, ZenonT(40) DEF Linkedit
<1>7. IsSeq(D) /\ Len(D) \in Nat
  <2>1. CASE FromMemory
    BY <2>1, ConcatIsSeq DEF FromMemory, TextInv
  <2>2. CASE ~FromMemory
    <3>1. Linkedit + f.filesz <= Len(image)
      BY <1>1, <1>2, <2>2 DEF SaveFails, Linkedit
    <3>2. Linkedit \in Nat /\ Linkedit + f.filesz \in Nat /\ Linkedit <= Linkedit + f.filesz
      BY <1>1 DEF Linkedit
    <3>3. IsSeq(Slice(image, Linkedit, Linkedit + f.filesz))
      BY <1>2, <3>1, <3>2, SliceIsSeq
    <3> QED  BY <2>2, <3>3, ConcatIsSeq
  <2> QED  BY <2>1, <2>2
<1>8. SavedFile = A \o B \o C \o D
  BY DEF SavedFile
<1> HIDE DEF h, A, B, C, D
<1>9. Len(A) = h  BY DEF h, A
<1>10. /\ IsSeq(A \o B) /\ Len(A \o B) = layout.text
       /\ \A i \in 1 .. Len(B) : (A \o B)[h + i] = B[i]
  <2>1. /\ IsSeq(A \o B) /\ Len(A \o B) = Len(A) + Len(B)
        /\ \A i \in 1 .. Len(B) : (A \o B)[Len(A) + i] = B[i]
    <3>1. IsSeq(A) /\ IsSeq(B)  BY <1>3, <1>5
    <3> QED  BY <3>1, ConcatIsSeq
  <2>2. h + (layout.text - h) = layout.text  BY <1>1, <1>3
  <2> QED  BY <1>5, <1>9, <2>1, <2>2
<1>11. /\ IsSeq(A \o B \o C) /\ Len(A \o B \o C) = layout.linkedit
       /\ \A i \in 1 .. layout.text : (A \o B \o C)[i] = (A \o B)[i]
  BY <1>1, <1>6, <1>10, ConcatIsSeq
<1>12. /\ IsSeq(SavedFile) /\ Len(SavedFile) >= layout.linkedit
       /\ \A i \in 1 .. layout.linkedit : SavedFile[i] = (A \o B \o C)[i]
  BY <1>1, <1>7, <1>8, <1>11, ConcatIsSeq
<1>13. ASSUME NEW k \in FirstTextOf(layout) .. layout.text - 1
       PROVE  SavedFile[k + 1] = <<"file", k>>
  <2>1. /\ k \in Nat /\ h <= k /\ k + 1 - h \in 1 .. layout.text - h
        /\ k + 1 \in 1 .. layout.text
    BY <1>1, <1>3, <1>4, <1>13 DEF FirstTextOf
  <2>2. (A \o B)[h + (k + 1 - h)] = B[k + 1 - h]  BY <1>5, <1>10, <2>1
  <2>3. B[k + 1 - h] = image[h + (k + 1 - h)]  BY <1>5, <2>1
  <2>4. h + (k + 1 - h) = k + 1  BY <1>3, <2>1
  <2>5. SavedFile[k + 1] = (A \o B)[k + 1]
    <3>1. k + 1 \in 1 .. layout.linkedit  BY <1>1, <2>1
    <3> QED  BY <1>11, <1>12, <2>1, <3>1
  <2>6. image[k + 1] = <<"file", k>>  BY <1>13 DEF TextInv, HasText
  <2> QED  BY <2>2, <2>3, <2>4, <2>5, <2>6
<1> QED  BY <1>12, <1>13 DEF HasText

(* What CodeSign puts into memory for __LINKEDIT is a sequence.            *)
LEMMA NewLEDataIsSeq ==
    ASSUME Inv, TextInv, NEW id, EarlyError(id) = "none", NEW file, NEW new,
           file.filesz \in Int, NEW size \in Nat
    PROVE  IsSeq(NewLEData(file, new, size))
<1> DEFINE P == Slice(image, Linkedit, Linkedit + LESize)
           Z == Zeros(LEDataLength - LESize)
           E == <<<<"digest", new, SignedData(file)>>>>
           R == Copies(size - 1, <<"blob">>)
           T == Zeros(file.filesz - LEDataLength - size)
<1>1. /\ Linkedit \in Nat /\ LESize \in Nat /\ LEDataLength \in Nat
      /\ ~(Linkedit + LESize > Len(image))
  BY OffsetIsNat
<1>2. IsSeq(image) /\ Len(image) \in Nat
  BY ConcatIsSeq DEF TextInv, HasText
<1>3. IsSeq(P)
  <2>1. /\ Linkedit + LESize \in Nat /\ Linkedit <= Linkedit + LESize
        /\ Linkedit + LESize <= Len(image)
    BY <1>1, <1>2
  <2> QED  BY <1>1, <1>2, <2>1, SliceIsSeq
<1>4. IsSeq(Z) /\ IsSeq(T) /\ IsSeq(R)
  <2>1. LEDataLength - LESize \in Int /\ file.filesz - LEDataLength - size \in Int
        /\ size - 1 \in Int
    BY <1>1
  <2> QED  BY <2>1, CopiesIsSeq DEF Zeros
<1>5. IsSeq(E)
  <2>1. ASSUME NEW d PROVE <<d>> \in Seq({d})  OBVIOUS
  <2> QED  BY <2>1 DEF IsSeq
<1>6. NewLEData(file, new, size) = (P \o Z) \o (E \o R) \o T
  BY DEF NewLEData, EncodedSignature
<1> HIDE DEF P, Z, E, R, T
<1>7. IsSeq(P \o Z) /\ IsSeq(E \o R)  BY <1>3, <1>4, <1>5, ConcatIsSeq
<1>8. IsSeq((P \o Z) \o (E \o R))  BY <1>7, ConcatIsSeq
<1>9. IsSeq((P \o Z) \o (E \o R) \o T)  BY <1>4, <1>8, ConcatIsSeq
<1> QED  BY <1>6, <1>9

(* A new signature command fits before the first section.                  *)
LEMMA CodeSignKeepsText ==
    ASSUME Sized, Inv, TextInv,
           NEW id \in IDs, NEW estimate \in Estimates, NEW size \in SignatureSizes,
           CodeSign(id, estimate, size)
    PROVE  TextInv'
<1> DEFINE m == Mutated(estimate)
           new == NewLEData(m, EffectiveID(id), size)
<1>1. layout' = layout /\ image' = image /\ (saved' = saved \/ saved' = NoData)
  BY DEF CodeSign
<1>2. \/ UNCHANGED f
      \/ f' = Rollback(f, m)
      \/ EarlyError(id) = "none" /\ f' = [m EXCEPT !.ledata = new]
  BY DEF CodeSign
<1>3. CASE UNCHANGED f \/ f' = Rollback(f, m)
  <2>1. f' = f  BY <1>3, RollbackRestores DEF Inv
  <2> QED  BY <1>1, <2>1 DEF TextInv
<1>4. CASE EarlyError(id) = "none" /\ f' = [m EXCEPT !.ledata = new]
  <2>1. m.SizeCommands = f.SizeCommands + (IF f.cs = NoSignature THEN SignatureCmd ELSE 0)
        /\ m.filesz = NewFilesz(estimate)
    BY DEF Mutated
  <2>2. f'.SizeCommands = m.SizeCommands /\ f'.ledata = new
    BY <1>4 DEF Mutated
  <2>3. IsSeq(new)
    <3>1. LEDataLength \in Nat  BY <1>4, OffsetIsNat
    <3>2. estimate \in Nat /\ PageSize \in Nat \ {0} /\ size \in Nat  BY SizesAssumption
    <3>3. m.filesz \in Int  BY <2>1, <3>1, <3>2, AlignIsNat DEF NewFilesz
    <3> HIDE DEF m
    <3> QED  BY <1>4, <3>2, <3>3, NewLEDataIsSeq
  <2>4. layout.section # 0 => HdrSize + f'.SizeCommands <= layout.section
    <3> SUFFICES ASSUME layout.section # 0
                 PROVE  HdrSize + f'.SizeCommands <= layout.section
      OBVIOUS
    <3>1. /\ HdrSize \in Nat /\ SignatureCmd \in Nat /\ OtherCmd \in Nat
          /\ LinkeditCmd \in Nat /\ layout.written \in Nat /\ layout.section \in Nat
      BY SizesAssumption, LayoutsAssumption DEF Inv
    <3>2. CASE f.cs # NoSignature
      BY <2>1, <2>2, <3>1, <3>2 DEF TextInv, Inv, Counted
    <3>3. CASE f.cs = NoSignature
      <4>1. HdrSize + LoadSize(f) + SignatureCmd <= layout.section
        BY <1>4, <3>3, OffsetIsNat
      <4>2. f.added * OtherCmd = (IF f.added = 0 THEN 0 ELSE OtherCmd)
        <5>1. CASE f.added = 0  BY <3>1, <5>1
        <5>2. CASE f.added = 1  BY <3>1, <5>2
        <5> QED  BY <5>1, <5>2 DEF Inv, Counted
      <4>3. LoadSize(f) = f.SizeCommands
        BY <3>1, <3>3, <4>2 DEF LoadSize, Sized, Inv, Counted
      <4> QED  BY <2>1, <2>2, <3>1, <3>3, <4>1, <4>2, <4>3 DEF Inv, Counted
    <3> QED  BY <3>2, <3>3
  <2> HIDE DEF m, new
  <2> QED  BY <1>1, <2>2, <2>3, <2>4 DEF TextInv
<1> QED  BY <1>2, <1>3, <1>4

(* Nothing is saved at first and the opened file has its own text.         *)
LEMMA InitText == Init => TextInv
<1> SUFFICES ASSUME Init PROVE TextInv  OBVIOUS
<1>1. layout \in Layouts  BY DEF Init
<1>2. /\ layout.section \in Nat /\ layout.text \in Nat /\ layout.linkedit \in Nat
      /\ layout.filesz \in Nat /\ layout.extra \in Nat /\ layout.written \in Nat
      /\ layout.section <= layout.text /\ layout.text <= layout.linkedit
      /\ HdrSize \in Nat /\ LinkeditCmd \in Nat /\ SignatureCmd \in Nat
      /\ layout.cs # NoSignature => layout.cs.offset \in Nat /\ layout.cs.offset >= layout.text
      /\ layout.section # 0 => HdrSize + layout.written + LinkeditCmd
              + (IF layout.cs = NoSignature THEN 0 ELSE SignatureCmd) <= layout.section
  BY <1>1, SizesAssumption, LayoutsAssumption
<1>3. f.SizeCommands = layout.written + LinkeditCmd
                         + (IF layout.cs = NoSignature THEN 0 ELSE SignatureCmd)
      /\ f.ledata = NoData
  BY DEF Init
<1>4. layout.section # 0 => HdrSize + f.SizeCommands <= layout.section
  BY <1>2, <1>3
<1> DEFINE n == Linkedit + layout.filesz + layout.extra
           W(k) == IF layout.cs # NoSignature /\ k = layout.cs.offset + 1
                   THEN <<"digest", layout.cs.primary, <<>>>> ELSE <<"file", k - 1>>
<1>5. image = [k \in 1 .. n |-> W(k)] /\ n \in Nat /\ n >= layout.linkedit
  BY <1>2, SMTT(30) DEF Init, Linkedit
<1>6. IsSeq(image) /\ Len(image) = n
  <2> HIDE DEF n, W
  <2> DEFINE S == {W(k) : k \in 1 .. n}
  <2>1. image \in [1 .. n -> S]  BY <1>5
  <2> HIDE DEF S
  <2>2. image \in Seq(S)  BY <1>5, <2>1
  <2>3. Len(image) = n  BY <1>5, <2>1, <2>2
  <2> QED  BY <2>2, <2>3 DEF IsSeq
<1>7. ASSUME NEW k \in FirstTextOf(layout) .. layout.text - 1
      PROVE  image[k + 1] = <<"file", k>>
  <2>1. k \in Nat /\ k < layout.text  BY <1>2, <1>7 DEF FirstTextOf
  <2>2. k + 1 \in 1 .. n  BY <1>2, <1>5, <2>1
  <2>3. ~(layout.cs # NoSignature /\ k + 1 = layout.cs.offset + 1)
    BY <1>2, <2>1
  <2>4. (k + 1) - 1 = k  BY <2>1
  <2>5. W(k + 1) = <<"file", k>>  BY <2>3, <2>4
  <2> QED  BY <1>5, <2>2, <2>5
<1>8. HasText(image, layout)  BY <1>5, <1>6, <1>7 DEF HasText
<1>9. saved = NoData  BY DEF Init
<1> QED  BY <1>3, <1>4, <1>8, <1>9 DEF TextInv

(* Every call keeps the text of the file and of what was saved.            *)
LEMMA NextText ==
    ASSUME Sized, Inv, TextInv, [Next]_vars
    PROVE  TextInv'
<1>1. ASSUME NEW id \in IDs, NEW estimate \in Estimates, NEW size \in SignatureSizes,
             CodeSign(id, estimate, size)
      PROVE  TextInv'
  BY <1>1, CodeSignKeepsText
<1>2. CASE SaveBuffer
  <2>1. /\ ~SaveFails /\ saved' = SavedFile
        /\ layout' = layout /\ image' = image /\ f' = f
    BY <1>2 DEF SaveBuffer
  <2>2. HasText(SavedFile, layout)  BY <2>1, SavedHasText
  <2> QED  BY <2>1, <2>2 DEF TextInv
<1>3. CASE Reopen
  <2>1. /\ saved # NoData /\ image' = saved /\ layout' = layout /\ saved' = saved
    BY <1>3 DEF Reopen
  <2>2. f'.SizeCommands = f.SizeCommands /\ f'.ledata = NoData
    BY <1>3 DEF Reopen, Inv, Shape
  <2> QED  BY <2>1, <2>2 DEF TextInv
<1>4. CASE AddLoad
  <2>1. /\ f.added = 0
        /\ Len(HeaderAndLoads(f)) + OtherCmd <= FirstText
        /\ image' = image /\ layout' = layout /\ saved' = NoData
    BY <1>4 DEF AddLoad
  <2>2. f'.SizeCommands = f.SizeCommands + OtherCmd /\ f'.ledata = f.ledata
    BY <1>4 DEF AddLoad, Inv, Shape
  <2>3. HdrSize + f.SizeCommands = Len(HeaderAndLoads(f))
    BY HeaderFromInv DEF HeaderDescribesCommands
  <2>4. /\ HdrSize \in Nat /\ OtherCmd \in Nat /\ SignatureCmd \in Nat
        /\ LinkeditCmd \in Nat /\ layout.written \in Nat
    BY SizesAssumption, LayoutsAssumption DEF Inv
  <2>5. f.SizeCommands \in Nat  BY <2>4 DEF Inv, Counted
  <2>6. layout.section # 0 => HdrSize + f'.SizeCommands <= layout.section
    BY <2>1, <2>2, <2>3, <2>4, <2>5 DEF FirstText
  <2> QED  BY <2>1, <2>2, <2>6 DEF TextInv
<1>5. CASE RemoveSignature
  <2>1. image' = image /\ layout' = layout /\ saved' = NoData
    BY <1>5 DEF RemoveSignature
  <2>2. f'.SizeCommands = f.SizeCommands - SignatureCmd /\ f'.ledata = f.ledata
    BY <1>5 DEF RemoveSignature, Inv, Shape
  <2>3. /\ HdrSize \in Nat /\ OtherCmd \in Nat /\ SignatureCmd \in Nat
        /\ LinkeditCmd \in Nat /\ layout.written \in Nat /\ layout.section \in Nat
    BY SizesAssumption, LayoutsAssumption DEF Inv
  <2>4. f.SizeCommands \in Nat  BY <2>3 DEF Inv, Counted
  <2> QED  BY <2>1, <2>2, <2>3, <2>4 DEF TextInv
<1>6. CASE UNCHANGED vars  BY <1>6 DEF vars, TextInv
<1> QED  BY <1>1, <1>2, <1>3, <1>4, <1>5, <1>6 DEF Next

(* In every saved file the first section of __TEXT is as it was opened,    *)
(* provided LoadSize computes what Write writes for every command.         *)
THEOREM TextAlwaysSurvives ==
    ASSUME Sized
    PROVE  Spec => []TextSurvives
<1>1. Inv /\ TextInv /\ [Next]_vars => TextInv'  BY NextText
<1>2. Inv /\ TextInv => TextSurvives
  BY DEF TextInv, HasText, TextSurvives, FirstText, FirstTextOf
<1> QED  BY <1>1, <1>2, InitText, Invariance, PTL DEF Spec
-----------------------------------------------------------------------------
(* What is signed and what is saved.                                       *)

(* No sequence stands for the absence of data.                             *)
NoDataIsNoFile == ~IsSeq(NoData)

(* A __TEXT without sections has room for the commands of these calls.     *)
Roomy ==
    \A l \in Layouts :
        l.section = 0 => HdrSize + l.written + LinkeditCmd + OtherCmd + SignatureCmd <= l.text

(* s is a file of file's sizes, signed over every word before the          *)
(* signature.                                                              *)
Covered(s, file) ==
    /\ s[file.cs.offset + 1][1] = "digest"
    /\ s[file.cs.offset + 1][3] = Slice(s, 0, file.cs.offset)
    /\ Len(s) = Linkedit + file.filesz
    /\ Len(s) = file.cs.offset + file.cs.size

Signed == current /\ f.cs # NoSignature

(* A file that was saved is still the one a save would write, and a save   *)
(* of what CodeSign committed writes what was signed.                      *)
SavedInv ==
    /\ IsSeq(image) /\ Len(image) >= Linkedit
    /\ f.ledata # NoData => IsSeq(f.ledata) /\ Len(f.ledata) = f.filesz
    /\ saved # NoData => ~SaveFails /\ saved = SavedFile
    /\ Signed => FromMemory \/ Linkedit + f.filesz <= Len(image)
    /\ (Signed /\ ~SaveFails) => Covered(SavedFile, f)

(* Sequences of the same words are the same.                               *)
LEMMA SameWords ==
    ASSUME NEW s, NEW t, IsSeq(s), IsSeq(t), Len(s) = Len(t),
           \A i \in 1 .. Len(s) : s[i] = t[i]
    PROVE  s = t
<1>1. PICK S : s \in Seq(S)  BY DEF IsSeq
<1>2. PICK T : t \in Seq(T)  BY DEF IsSeq
<1>3. s \in Seq(S \cup T) /\ t \in Seq(S \cup T)  BY <1>1, <1>2
<1>4. s = [i \in 1 .. Len(s) |-> s[i]] /\ t = [i \in 1 .. Len(t) |-> t[i]]
  BY <1>3
<1> QED  BY <1>4

(* The layout SaveBuffer writes: a header, the file behind it up to        *)
(* __LINKEDIT in two parts, and __LINKEDIT.                                *)
Assembly(A, img, text, link, D) ==
    A \o Slice(img, Len(A), text) \o Slice(img, text, link) \o D

(* Every word of a saved file has one source.                              *)
LEMMA Assembled ==
    ASSUME NEW A, NEW img, NEW D, NEW text \in Nat, NEW link \in Nat,
           IsSeq(A), IsSeq(img), IsSeq(D),
           Len(A) <= text, text <= link, link <= Len(img)
    PROVE  /\ IsSeq(Assembly(A, img, text, link, D))
           /\ Len(Assembly(A, img, text, link, D)) = link + Len(D)
           /\ \A i \in 1 .. Len(A) : Assembly(A, img, text, link, D)[i] = A[i]
           /\ \A i \in Len(A) + 1 .. link : Assembly(A, img, text, link, D)[i] = img[i]
           /\ \A i \in 1 .. Len(D) : Assembly(A, img, text, link, D)[link + i] = D[i]
<1> DEFINE s == Assembly(A, img, text, link, D)
<1> DEFINE h == Len(A)
           B == Slice(img, h, text)
           C == Slice(img, text, link)
<1>1. h \in Nat /\ Len(img) \in Nat /\ Len(D) \in Nat  BY ConcatIsSeq
<1>2. h <= text /\ text <= Len(img)  BY <1>1
<1>3. /\ IsSeq(B) /\ Len(B) = text - h
      /\ \A i \in 1 .. text - h : B[i] = img[h + i]
  BY <1>1, <1>2, SliceIsSeq
<1>4. /\ IsSeq(C) /\ Len(C) = link - text
      /\ \A i \in 1 .. link - text : C[i] = img[text + i]
  BY <1>1, SliceIsSeq
<1>5. s = A \o B \o C \o D  BY DEF Assembly
<1> HIDE DEF B, C, s
<1>6. /\ IsSeq(A \o B) /\ Len(A \o B) = Len(A) + Len(B)
      /\ \A i \in 1 .. Len(A) : (A \o B)[i] = A[i]
      /\ \A i \in 1 .. Len(B) : (A \o B)[Len(A) + i] = B[i]
  BY <1>3, ConcatIsSeq
<1>7. Len(A \o B) = text  BY <1>1, <1>3, <1>6
<1>8. /\ IsSeq(A \o B \o C) /\ Len(A \o B \o C) = Len(A \o B) + Len(C)
      /\ \A i \in 1 .. Len(A \o B) : (A \o B \o C)[i] = (A \o B)[i]
      /\ \A i \in 1 .. Len(C) : (A \o B \o C)[Len(A \o B) + i] = C[i]
  <2>1. IsSeq(A \o B) /\ IsSeq(C)  BY <1>4, <1>6
  <2> QED  BY ONLY <2>1, ConcatIsSeq
<1>9. Len(A \o B \o C) = link  BY <1>4, <1>7, <1>8
<1>10. /\ IsSeq(s) /\ Len(s) = link + Len(D)
       /\ \A i \in 1 .. link : s[i] = (A \o B \o C)[i]
       /\ \A i \in 1 .. Len(D) : s[link + i] = D[i]
  <2> DEFINE p == A \o B \o C
  <2>1. IsSeq(p) /\ IsSeq(D) /\ Len(p) = link  BY <1>8, <1>9
  <2>2. s = p \o D  BY <1>5
  <2> HIDE DEF p
  <2>3. /\ IsSeq(p \o D) /\ Len(p \o D) = Len(p) + Len(D)
        /\ \A i \in 1 .. Len(p) : (p \o D)[i] = p[i]
        /\ \A i \in 1 .. Len(D) : (p \o D)[Len(p) + i] = D[i]
    BY ONLY <2>1, ConcatIsSeq
  <2>4. /\ IsSeq(s) /\ Len(s) = link + Len(D)
        /\ \A i \in 1 .. link : s[i] = p[i]
        /\ \A i \in 1 .. Len(D) : s[link + i] = D[i]
    BY ONLY <2>1, <2>2, <2>3
  <2> QED  BY <2>4 DEF p
<1>11. ASSUME NEW i \in 1 .. h PROVE s[i] = A[i]
  <2>1. i \in 1 .. link /\ i \in 1 .. text  BY <1>1, <1>2
  <2> QED  BY <1>6, <1>7, <1>8, <1>10, <2>1
<1>12. ASSUME NEW i \in h + 1 .. link PROVE s[i] = img[i]
  <2>1. i \in 1 .. link  BY <1>1
  <2>2. s[i] = (A \o B \o C)[i]  BY <1>10, <2>1
  <2>3. CASE i <= text
    <3>1. i \in 1 .. text /\ i - h \in 1 .. text - h /\ h + (i - h) = i
      BY <1>1, <2>3
    <3>2. (A \o B \o C)[i] = (A \o B)[i]  BY <1>7, <1>8, <3>1
    <3>3. (A \o B)[h + (i - h)] = B[i - h]  BY <1>3, <1>6, <3>1
    <3>4. B[i - h] = img[h + (i - h)]  BY <1>3, <3>1
    <3> QED  BY <2>2, <3>1, <3>2, <3>3, <3>4
  <2>4. CASE ~(i <= text)
    <3>1. i - text \in 1 .. link - text /\ text + (i - text) = i
      BY <1>1, <2>4
    <3>2. (A \o B \o C)[text + (i - text)] = C[i - text]
      BY <1>4, <1>7, <1>8, <3>1
    <3>3. C[i - text] = img[text + (i - text)]  BY <1>4, <3>1
    <3> QED  BY <2>2, <3>1, <3>2, <3>3
  <2> QED  BY <2>3, <2>4
<1>13. /\ IsSeq(s) /\ Len(s) = link + Len(D)
       /\ \A i \in 1 .. Len(A) : s[i] = A[i]
       /\ \A i \in Len(A) + 1 .. link : s[i] = img[i]
       /\ \A i \in 1 .. Len(D) : s[link + i] = D[i]
  BY <1>10, <1>11, <1>12
<1> QED  BY ONLY <1>13 DEF s

(* Padding with zeroes.                                                    *)
LEMMA ZerosIsSeq ==
    ASSUME NEW n \in Nat
    PROVE  /\ IsSeq(Zeros(n)) /\ Len(Zeros(n)) = n
           /\ \A i \in 1 .. n : Zeros(n)[i] = <<"zero">>
<1>1. IsSeq(Zeros(n)) /\ Len(Zeros(n)) = n  BY CopiesIsSeq DEF Zeros
<1>2. \A i \in 1 .. n : Zeros(n)[i] = <<"zero">>  BY DEF Zeros, Copies
<1> QED  BY <1>1, <1>2

(* __LINKEDIT in memory: the part of the file before the signature, padded *)
(* to it, the signature, which starts with the word w, and zeroes.         *)
LinkeditData(img, link, n, e, w, size, z) ==
    (Slice(img, link, link + e) \o Zeros(n - e))
      \o (<<w>> \o Copies(size - 1, <<"blob">>))
      \o Zeros(z - n - size)

(* Its words.                                                              *)
IsLinkedit(led, img, link, n, e, w, z) ==
    /\ IsSeq(led) /\ Len(led) = z
    /\ led[n + 1] = w
    /\ \A i \in 1 .. e : led[i] = img[link + i]
    /\ \A i \in 1 .. n - e : led[e + i] = <<"zero">>

(* They are so when the signature fits.                                    *)
LEMMA LinkeditWords ==
    ASSUME NEW img, IsSeq(img), NEW w, NEW link \in Nat, NEW n \in Nat, NEW e \in Nat,
           NEW z \in Nat, NEW size \in Nat \ {0},
           e <= n, link + e <= Len(img), n + size <= z
    PROVE  IsLinkedit(LinkeditData(img, link, n, e, w, size, z), img, link, n, e, w, z)
<1> DEFINE led == LinkeditData(img, link, n, e, w, size, z)
           P == Slice(img, link, link + e)
           Z == Zeros(n - e)
           E == <<w>>
           R == Copies(size - 1, <<"blob">>)
           T == Zeros(z - n - size)
<1>1. Len(img) \in Nat  BY ConcatIsSeq
<1>2. n - e \in Nat /\ size - 1 \in Nat /\ z - n - size \in Nat
  OBVIOUS
<1>3. /\ IsSeq(P) /\ Len(P) = e
      /\ \A i \in 1 .. e : P[i] = img[link + i]
  <2> DEFINE b == link + e
  <2>1. /\ b - link = e /\ link <= b /\ b <= Len(img)
        /\ IsSeq(img) /\ link \in Nat /\ b \in Nat
    BY <1>1
  <2> HIDE DEF b
  <2>2. /\ IsSeq(Slice(img, link, b)) /\ Len(Slice(img, link, b)) = b - link
        /\ \A i \in 1 .. b - link : Slice(img, link, b)[i] = img[link + i]
    BY ONLY <2>1, SliceIsSeq, ZenonT(40)
  <2> QED  BY <2>1, <2>2 DEF b
<1>4. /\ IsSeq(Z) /\ Len(Z) = n - e
      /\ \A i \in 1 .. n - e : Z[i] = <<"zero">>
  BY ONLY <1>2, ZerosIsSeq
<1>5. IsSeq(T) /\ Len(T) = z - n - size  BY ONLY <1>2, ZerosIsSeq
<1>6. IsSeq(R) /\ Len(R) = size - 1  BY <1>2, CopiesIsSeq
<1>7. IsSeq(E) /\ Len(E) = 1 /\ E[1] = w
  <2>1. <<w>> \in Seq({w}) /\ Len(<<w>>) = 1 /\ <<w>>[1] = w
    OBVIOUS
  <2> QED  BY <2>1 DEF IsSeq
<1>8. led = (P \o Z) \o (E \o R) \o T  BY DEF LinkeditData
<1> HIDE DEF led, P, Z, E, R, T
<1>9. /\ IsSeq(P \o Z) /\ Len(P \o Z) = n
      /\ \A i \in 1 .. e : (P \o Z)[i] = P[i]
      /\ \A i \in 1 .. n - e : (P \o Z)[e + i] = Z[i]
  <2>1. /\ IsSeq(P \o Z) /\ Len(P \o Z) = Len(P) + Len(Z)
        /\ \A i \in 1 .. Len(P) : (P \o Z)[i] = P[i]
        /\ \A i \in 1 .. Len(Z) : (P \o Z)[Len(P) + i] = Z[i]
    BY ONLY <1>3, <1>4, ConcatIsSeq
  <2>2. e + (n - e) = n  OBVIOUS
  <2> QED  BY <1>3, <1>4, <2>1, <2>2
<1>10. IsSeq(E \o R) /\ Len(E \o R) = size /\ (E \o R)[1] = w
  <2>1. /\ IsSeq(E \o R) /\ Len(E \o R) = Len(E) + Len(R)
        /\ \A i \in 1 .. Len(E) : (E \o R)[i] = E[i]
    BY ONLY <1>6, <1>7, ConcatIsSeq
  <2>2. 1 + (size - 1) = size /\ 1 \in 1 .. 1  OBVIOUS
  <2> QED  BY ONLY <1>6, <1>7, <2>1, <2>2
<1>11. /\ IsSeq((P \o Z) \o (E \o R)) /\ Len((P \o Z) \o (E \o R)) = n + size
       /\ \A i \in 1 .. n : ((P \o Z) \o (E \o R))[i] = (P \o Z)[i]
       /\ ((P \o Z) \o (E \o R))[n + 1] = w
  <2> DEFINE a == P \o Z
             b == E \o R
  <2>1. /\ IsSeq(a) /\ IsSeq(b) /\ Len(a) = n /\ Len(b) = size
        /\ b[1] = w /\ 1 \in 1 .. size
    BY <1>9, <1>10
  <2> HIDE DEF a, b
  <2>2. /\ IsSeq(a \o b) /\ Len(a \o b) = n + size
        /\ \A i \in 1 .. n : (a \o b)[i] = a[i]
        /\ \A i \in 1 .. size : (a \o b)[n + i] = b[i]
    BY ONLY <2>1, ConcatIsSeq
  <2>3. (a \o b)[n + 1] = w  BY <2>1, <2>2
  <2> QED  BY <2>2, <2>3 DEF a, b
<1>12. /\ IsSeq(led) /\ Len(led) = z
       /\ \A i \in 1 .. n : led[i] = (P \o Z)[i]
       /\ led[n + 1] = w
  <2> DEFINE a == (P \o Z) \o (E \o R)
  <2>1. /\ IsSeq(a) /\ IsSeq(T) /\ Len(a) = n + size /\ Len(T) = z - n - size
        /\ led = a \o T
    BY <1>5, <1>8, <1>11
  <2>2. /\ \A i \in 1 .. n : a[i] = (P \o Z)[i]
        /\ a[n + 1] = w
    BY <1>11
  <2> HIDE DEF a
  <2>3. /\ IsSeq(led) /\ Len(led) = (n + size) + (z - n - size)
        /\ \A i \in 1 .. n + size : led[i] = a[i]
    BY ONLY <2>1, ConcatIsSeq
  <2>4. /\ (n + size) + (z - n - size) = z /\ n + 1 \in 1 .. n + size
        /\ \A i \in 1 .. n : i \in 1 .. n + size
    OBVIOUS
  <2> QED  BY <2>2, <2>3, <2>4
<1>13. ASSUME NEW i \in 1 .. e PROVE led[i] = img[link + i]
  <2>1. i \in 1 .. n  OBVIOUS
  <2> QED  BY <1>3, <1>9, <1>12, <2>1
<1>14. ASSUME NEW i \in 1 .. n - e PROVE led[e + i] = <<"zero">>
  <2>1. e + i \in 1 .. n  OBVIOUS
  <2> QED  BY <1>4, <1>9, <1>12, <2>1
<1>15. IsLinkedit(led, img, link, n, e, w, z)  BY <1>12, <1>13, <1>14 DEF IsLinkedit
<1> QED  BY <1>15 DEF led

(* What CodeSign signs: the header H, the file behind it, and zeroes.      *)
ToSign(H, img, link, n, e) == H \o Slice(img, Len(H), link + e) \o Zeros(n - e)
SavedPrefix(H, img, text, link, led, n) ==
    Slice(Assembly(H, img, text, link, led), 0, link + n)

(* It is what a saved file has before its signature.                       *)
LEMMA SignedWords ==
    ASSUME NEW H, NEW img, IsSeq(H), IsSeq(img), NEW led, IsSeq(led),
           NEW text \in Nat, NEW link \in Nat, NEW n \in Nat, NEW e \in Nat,
           e <= n, n <= Len(led), Len(H) <= text, text <= link, link + e <= Len(img),
           NEW w, NEW z, IsLinkedit(led, img, link, n, e, w, z)
    PROVE  SavedPrefix(H, img, text, link, led, n) = ToSign(H, img, link, n, e)
<1> DEFINE Z == Zeros(n - e)
           G == Slice(img, Len(H), link + e)
           s == Assembly(H, img, text, link, led)
           u == Slice(s, 0, link + n)
           d == H \o G \o Z
<1>0. /\ \A i \in 1 .. e : led[i] = img[link + i]
      /\ \A i \in 1 .. n - e : led[e + i] = <<"zero">>
  BY DEF IsLinkedit
<1>1. Len(H) \in Nat /\ Len(img) \in Nat /\ Len(led) \in Nat
  BY ConcatIsSeq
<1>2. n - e \in Nat /\ link + e \in Nat /\ Len(H) <= link + e
  BY <1>1
<1>3. /\ IsSeq(G) /\ Len(G) = link + e - Len(H)
      /\ \A i \in 1 .. link + e - Len(H) : G[i] = img[Len(H) + i]
  <2>1. IsSeq(img) /\ Len(H) \in Nat /\ link + e <= Len(img)  BY <1>1
  <2> QED  BY ONLY <1>2, <2>1, SliceIsSeq
<1>4. /\ IsSeq(Z) /\ Len(Z) = n - e
      /\ \A i \in 1 .. n - e : Z[i] = <<"zero">>
  BY ONLY <1>2, ZerosIsSeq
<1>5. /\ IsSeq(s) /\ Len(s) = link + Len(led)
      /\ \A i \in 1 .. Len(H) : s[i] = H[i]
      /\ \A i \in Len(H) + 1 .. link : s[i] = img[i]
      /\ \A i \in 1 .. Len(led) : s[link + i] = led[i]
  <2>1. /\ link <= Len(img) /\ Len(H) <= text /\ text <= link
        /\ text \in Nat /\ link \in Nat
        /\ IsSeq(H) /\ IsSeq(img) /\ IsSeq(led)
    BY <1>1
  <2>2. IsSeq(s) /\ Len(s) = link + Len(led)
    BY ONLY <2>1, Assembled
  <2>3. \A i \in 1 .. Len(H) : s[i] = H[i]
    BY ONLY <2>1, Assembled
  <2>4. \A i \in Len(H) + 1 .. link : s[i] = img[i]
    BY ONLY <2>1, Assembled
  <2>5. \A i \in 1 .. Len(led) : s[link + i] = led[i]
    BY ONLY <2>1, Assembled
  <2> QED  BY <2>2, <2>3, <2>4, <2>5
<1> HIDE DEF s, G, Z
<1>6. /\ IsSeq(u) /\ Len(u) = link + n
      /\ \A i \in 1 .. link + n : u[i] = s[i]
  <2> DEFINE b == link + n
  <2>1. IsSeq(s) /\ 0 \in Nat /\ b \in Nat /\ 0 <= b /\ b <= Len(s)
    BY <1>1, <1>5
  <2> HIDE DEF b
  <2>2. /\ IsSeq(Slice(s, 0, b)) /\ Len(Slice(s, 0, b)) = b - 0
        /\ \A i \in 1 .. b - 0 : Slice(s, 0, b)[i] = s[0 + i]
    BY ONLY <2>1, SliceIsSeq
  <2>3. b - 0 = b /\ \A i \in 1 .. b : 0 + i = i
    BY <2>1
  <2> QED  BY <2>2, <2>3 DEF b
<1> HIDE DEF u
<1>7. /\ IsSeq(H \o G) /\ Len(H \o G) = link + e
      /\ \A i \in 1 .. Len(H) : (H \o G)[i] = H[i]
      /\ \A i \in 1 .. Len(G) : (H \o G)[Len(H) + i] = G[i]
  <2>1. /\ IsSeq(H \o G) /\ Len(H \o G) = Len(H) + Len(G)
        /\ \A i \in 1 .. Len(H) : (H \o G)[i] = H[i]
        /\ \A i \in 1 .. Len(G) : (H \o G)[Len(H) + i] = G[i]
    <3>1. IsSeq(H) /\ IsSeq(G)  BY <1>3
    <3> QED  BY ONLY <3>1, ConcatIsSeq
  <2>2. Len(H) + (link + e - Len(H)) = link + e  BY <1>1
  <2> QED  BY ONLY <1>3, <2>1, <2>2
<1>8. /\ IsSeq(d) /\ Len(d) = link + n
      /\ \A i \in 1 .. link + e : d[i] = (H \o G)[i]
      /\ \A i \in 1 .. n - e : d[link + e + i] = Z[i]
  <2> DEFINE a == H \o G
  <2>1. IsSeq(a) /\ Len(a) = link + e  BY <1>7
  <2> HIDE DEF a
  <2>2. /\ IsSeq(a \o Z) /\ Len(a \o Z) = Len(a) + Len(Z)
        /\ \A i \in 1 .. Len(a) : (a \o Z)[i] = a[i]
        /\ \A i \in 1 .. Len(Z) : (a \o Z)[Len(a) + i] = Z[i]
    <3>1. IsSeq(a) /\ IsSeq(Z)  BY <1>4, <2>1
    <3> QED  BY ONLY <3>1, ConcatIsSeq
  <2>3. (link + e) + (n - e) = link + n  OBVIOUS
  <2>4. /\ IsSeq(a \o Z) /\ Len(a \o Z) = link + n
        /\ \A i \in 1 .. link + e : (a \o Z)[i] = a[i]
        /\ \A i \in 1 .. n - e : (a \o Z)[link + e + i] = Z[i]
    BY ONLY <1>4, <2>1, <2>2, <2>3
  <2> QED  BY <2>4 DEF a
<1> HIDE DEF d
<1>9. ASSUME NEW i \in 1 .. link + n PROVE u[i] = d[i]
  <2>1. u[i] = s[i]  BY <1>6
  <2>2. CASE i <= Len(H)
    <3>1. i \in 1 .. Len(H) /\ i \in 1 .. link + e  BY <1>1, <1>2, <2>2
    <3> QED  BY <1>5, <1>7, <1>8, <2>1, <3>1
  <2>3. CASE Len(H) < i /\ i <= link + e
    <3>1. /\ i \in 1 .. link + e /\ i - Len(H) \in 1 .. link + e - Len(H)
          /\ Len(H) + (i - Len(H)) = i
      BY <1>1, <1>2, <2>3
    <3>2. d[i] = (H \o G)[i]  BY <1>8, <3>1
    <3>3. (H \o G)[Len(H) + (i - Len(H))] = G[i - Len(H)]  BY <1>3, <1>7, <3>1
    <3>4. G[i - Len(H)] = img[Len(H) + (i - Len(H))]  BY <1>3, <3>1
    <3>5. d[i] = img[i]  BY <3>1, <3>2, <3>3, <3>4
    <3>6. CASE i <= link
      <4>1. i \in Len(H) + 1 .. link  BY <1>1, <2>3, <3>6
      <4> QED  BY <1>5, <2>1, <3>5, <4>1
    <3>7. CASE ~(i <= link)
      <4>1. /\ i - link \in 1 .. e /\ i - link \in 1 .. Len(led)
            /\ link + (i - link) = i
        BY <1>1, <2>3, <3>7
      <4>2. s[link + (i - link)] = led[i - link]  BY <1>5, <4>1
      <4>3. led[i - link] = img[link + (i - link)]  BY <1>0, <4>1
      <4> QED  BY <2>1, <3>5, <4>1, <4>2, <4>3
    <3> QED  BY <3>6, <3>7
  <2>4. CASE link + e < i
    <3> DEFINE j == i - link - e
    <3>1. /\ j \in 1 .. n - e /\ link + e + j = i /\ e + j = i - link
          /\ i - link \in 1 .. Len(led) /\ link + (i - link) = i
      BY <1>1, <2>4
    <3> HIDE DEF j
    <3>2. d[i] = Z[j]  BY <1>8, <3>1
    <3>3. s[i] = led[i - link]  BY <1>5, <3>1
    <3>4. led[e + j] = <<"zero">> /\ Z[j] = <<"zero">>  BY <1>0, <1>4, <3>1
    <3> QED  BY <2>1, <3>1, <3>2, <3>3, <3>4
  <2>5. i <= Len(H) \/ (Len(H) < i /\ i <= link + e) \/ link + e < i
    BY <1>1, <1>2
  <2> QED  BY <2>2, <2>3, <2>4, <2>5
<1>10. u = d  BY <1>6, <1>8, <1>9, SameWords
<1> QED  BY <1>10 DEF u, d, s, G, Z, SavedPrefix, ToSign

(* The header and the commands show only these fields.                     *)
LEMMA HeaderShows ==
    ASSUME NEW a, NEW b,
           a.NCommands = b.NCommands, a.SizeCommands = b.SizeCommands,
           a.filesz = b.filesz, a.memsz = b.memsz, a.added = b.added,
           a.cs = NoSignature <=> b.cs = NoSignature,
           a.cs.offset = b.cs.offset, a.cs.size = b.cs.size
    PROVE  HeaderAndLoads(a) = HeaderAndLoads(b)
BY DEF HeaderAndLoads

(* What a successful CodeSign changes.                                     *)
WithData(file, led) == [file EXCEPT !.ledata = led]

(* Everything a save reads, but for __LINKEDIT, is that of Mutated.        *)
LEMMA Committed ==
    ASSUME Inv, NEW id, EarlyError(id) = "none", NEW estimate \in Estimates, NEW led
    PROVE  LET m == Mutated(estimate)
               g == WithData(m, led)
           IN  /\ g.filesz = m.filesz /\ g.filesz \in Nat /\ g.ledata = led
               /\ g.cs = m.cs /\ g.cs # NoSignature
               /\ g.cs.offset = SignatureOffset
               /\ g.cs.size = g.filesz - LEDataLength
               /\ g.added \in {0, 1}
               /\ HeaderAndLoads(g) = HeaderAndLoads(m)
<1> DEFINE m == Mutated(estimate)
           g == WithData(m, led)
<1>1. /\ m.cs = Signature(SignatureOffset, NewFilesz(estimate) - LEDataLength,
                          IF f.cs = NoSignature THEN "" ELSE f.cs.primary)
      /\ m.filesz = NewFilesz(estimate) /\ m.added = f.added
  BY DEF Mutated
<1>2. /\ g.NCommands = m.NCommands /\ g.SizeCommands = m.SizeCommands
      /\ g.filesz = m.filesz /\ g.memsz = m.memsz /\ g.added = m.added
      /\ g.cs = m.cs /\ g.ledata = led
  BY DEF Mutated, WithData
<1> HIDE DEF m, g
<1>3. /\ m.cs # NoSignature /\ m.cs.offset = SignatureOffset
      /\ m.cs.size = NewFilesz(estimate) - LEDataLength
  <2>1. \E p : m.cs = Signature(SignatureOffset, NewFilesz(estimate) - LEDataLength, p)
    BY <1>1
  <2> QED  BY <2>1, SignatureFields
<1>4. m.filesz \in Nat
  <2>1. estimate \in Nat /\ PageSize \in Nat \ {0}  BY SizesAssumption
  <2>2. LEDataLength \in Nat  BY OffsetIsNat
  <2>3. NewFilesz(estimate) \in Nat  BY ONLY <2>1, <2>2, AlignIsNat DEF NewFilesz
  <2> QED  BY <1>1, <2>3
<1>5. HeaderAndLoads(g) = HeaderAndLoads(m)  BY <1>2, HeaderShows
<1>6. g.added \in {0, 1}  BY <1>1, <1>2 DEF Inv, Counted
<1> QED  BY <1>1, <1>2, <1>3, <1>4, <1>5, <1>6 DEF m, g

(* What a save writes.                                                     *)
LEMMA SavedIsAssembly ==
    SavedFile = Assembly(HeaderAndLoads(f), image, layout.text, Linkedit,
                         IF FromMemory THEN f.ledata
                         ELSE Slice(image, Linkedit, Linkedit + f.filesz))
BY DEF SavedFile, Assembly

(* A save after a successful CodeSign, if it does not fail, writes a file  *)
(* that is signed over every word before the signature.                    *)
LEMMA CommitCovers ==
    ASSUME NoDataIsNoFile, Inv, SavedInv,
           NEW id, EarlyError(id) = "none", NEW estimate \in Estimates, NEW new,
           NEW size \in SignatureSizes, LateError(Mutated(estimate), size) = "none",
           f' = [Mutated(estimate) EXCEPT
                   !.ledata = NewLEData(Mutated(estimate), new, size)],
           UNCHANGED <<layout, image>>
    PROVE  /\ FromMemory' /\ IsSeq(f'.ledata) /\ Len(f'.ledata) = f'.filesz
           /\ ~SaveFails' => Covered(SavedFile, f)'
<1> DEFINE m == Mutated(estimate)
           H == HeaderAndLoads(m)
           d == SignedData(m)
           led == NewLEData(m, new, size)
           n == LEDataLength
           e == LESize
           z == m.filesz
           L == Linkedit
           t == layout.text
<1>0. /\ Inv /\ EarlyError(id) = "none" /\ estimate \in Estimates
      /\ size \in SignatureSizes
  OBVIOUS
<1>1. /\ f'.filesz = z /\ z \in Nat /\ f'.ledata = led
      /\ f'.cs # NoSignature /\ f'.cs.offset = SignatureOffset
      /\ f'.cs.size = z - n /\ f'.added \in {0, 1}
      /\ HeaderAndLoads(f') = H /\ m.cs = f'.cs
  <2> DEFINE g == WithData(m, led)
  <2>1. f' = g  BY DEF WithData
  <2> HIDE DEF led
  <2>2. /\ g.filesz \in Nat /\ g.ledata = led /\ g.cs # NoSignature
        /\ g.cs.offset = SignatureOffset /\ g.cs.size = g.filesz - n
        /\ g.added \in {0, 1} /\ HeaderAndLoads(g) = H /\ g.filesz = z
        /\ m.cs = g.cs
    BY ONLY <1>0, Committed
  <2> QED  BY ONLY <2>1, <2>2
<1>2. size # 0 /\ ~(size > m.cs.size) /\ ~(Len(H) > m.cs.offset)
  BY DEF LateError
<1>3. /\ SignatureOffset \in Nat /\ Linkedit \in Nat /\ n \in Nat
      /\ e \in Nat /\ e <= n /\ ~(Linkedit + e > Len(image))
      /\ SignatureOffset = Linkedit + n
  BY OffsetIsNat DEF LEDataLength
<1>4. IsSeq(H) /\ IsSeq(image) /\ Len(H) \in Nat /\ Len(image) \in Nat
  <2>1. IsSeq(HeaderAndLoads(f'))  BY <1>1, HeaderIsCounted DEF Inv
  <2> QED  BY <1>1, <2>1, ConcatIsSeq DEF SavedInv
<1>5. size \in Nat \ {0} /\ n + size <= z
  <2>1. size \in Nat  BY <1>0, SizesAssumption
  <2>2. m.cs.size = z - n  BY <1>1
  <2> HIDE DEF m, n, z
  <2> QED  BY ONLY <1>1, <1>2, <1>3, <2>1, <2>2
<1>6. layout.text \in Nat /\ layout.text <= Linkedit
  BY LayoutsAssumption DEF Inv, Linkedit
<1>7. /\ d = H \o Slice(image, Len(H), Linkedit + e) \o Zeros(n - e)
      /\ led = (Slice(image, Linkedit, Linkedit + e) \o Zeros(n - e))
                  \o (<<<<"digest", new, d>>>> \o Copies(size - 1, <<"blob">>))
                  \o Zeros(z - n - size)
  BY DEF SignedData, NewLEData, EncodedSignature
<1> DEFINE w == <<"digest", new, d>>
<1>8. /\ IsLinkedit(led, image, Linkedit, n, e, w, z)
      /\ IsSeq(led) /\ Len(led) = z /\ led[n + 1] = w
  <2>1. led = LinkeditData(image, Linkedit, n, e, w, size, z)
    BY <1>7 DEF LinkeditData
  <2>2. Linkedit + e <= Len(image)  BY <1>3, <1>4
  <2>3. /\ IsSeq(image) /\ L \in Nat /\ n \in Nat /\ e \in Nat /\ z \in Nat
        /\ size \in Nat \ {0} /\ e <= n /\ L + e <= Len(image) /\ n + size <= z
    BY ONLY <1>1, <1>3, <1>4, <1>5, <2>2
  <2> HIDE DEF led, w, n, e, z, L
  <2> DEFINE x == LinkeditData(image, L, n, e, w, size, z)
  <2>4. IsLinkedit(x, image, L, n, e, w, z)
    BY ONLY <2>3, LinkeditWords
  <2> HIDE DEF x
  <2>5. led = x  BY <2>1 DEF x, L
  <2> QED  BY ONLY <2>4, <2>5 DEF IsLinkedit, L
<1>9. FromMemory'
  BY <1>1, <1>8, SMTT(30) DEF FromMemory, NoDataIsNoFile
<1>10. SavedFile' = Assembly(H, image, layout.text, Linkedit, led)
  BY <1>1, <1>9 DEF SavedFile, Assembly, HeaderAndLoads, Linkedit
<1>11. ASSUME ~SaveFails' PROVE Covered(SavedFile, f)'
  <2> DEFINE s == Assembly(H, image, layout.text, Linkedit, led)
  <2>1. Len(H) <= layout.text
    <3>1. ~(Len(HeaderAndLoads(f)) > layout.text)'  BY <1>11 DEF SaveFails
    <3>2. HeaderAndLoads(f)' = HeaderAndLoads(f')  BY DEF HeaderAndLoads
    <3> QED  BY <1>1, <1>4, <1>6, <3>1, <3>2
  <2>2. Linkedit + e <= Len(image) /\ n <= Len(led) /\ Linkedit <= Len(image)
        /\ IsSeq(led) /\ n + 1 \in 1 .. Len(led)
    <3>1. Linkedit <= Linkedit + e  BY <1>3
    <3>2. Len(led) = z /\ IsSeq(led)  BY <1>8
    <3> HIDE DEF led, n, e, z
    <3> QED  BY ONLY <1>1, <1>3, <1>4, <1>5, <3>1, <3>2
  <2>3. /\ IsSeq(H) /\ IsSeq(image) /\ IsSeq(led) /\ t \in Nat /\ L \in Nat
        /\ n \in Nat /\ e \in Nat /\ e <= n /\ n <= Len(led) /\ Len(H) <= t
        /\ t <= L /\ L + e <= Len(image) /\ L <= Len(image)
    BY <1>3, <1>4, <1>6, <2>1, <2>2
  <2>4. /\ Slice(s, 0, L + n) = d
        /\ Len(s) = L + z
        /\ s[L + n + 1] = w
    <3>1. IsLinkedit(led, image, L, n, e, w, z)  BY <1>8
    <3>2. Len(led) = z /\ led[n + 1] = w  BY <1>8
    <3>3. d = ToSign(H, image, L, n, e) /\ n + 1 \in 1 .. Len(led)
          /\ SavedPrefix(H, image, t, L, led, n) = Slice(s, 0, L + n)
          /\ s = Assembly(H, image, t, L, led)
      BY <1>7, <2>2 DEF ToSign, SavedPrefix
    <3> HIDE DEF s, d, w, led, n, e, z, H, L, t
    <3>4. SavedPrefix(H, image, t, L, led, n) = ToSign(H, image, L, n, e)
      BY ONLY <2>3, <3>1, SignedWords, SMTT(30)
    <3>5. Len(Assembly(H, image, t, L, led)) = L + Len(led)
      BY ONLY <2>3, Assembled
    <3>6. \A i \in 1 .. Len(led) : Assembly(H, image, t, L, led)[L + i] = led[i]
      BY ONLY <2>3, Assembled
    <3>7. L + (n + 1) = L + n + 1  BY <2>3
    <3>8. s[L + (n + 1)] = led[n + 1]  BY ONLY <3>3, <3>6
    <3> QED  BY ONLY <3>3, <3>4, <3>5, <3>7, <3>8, <3>2
  <2>5. w[1] = "digest" /\ w[3] = d  OBVIOUS
  <2>6. /\ f'.cs.offset = L + n /\ L + z = f'.cs.offset + f'.cs.size
        /\ Linkedit' = L
    BY <1>1, <1>3 DEF Linkedit
  <2> HIDE DEF s, led, w, n, e, z, H, d, L, t
  <2>7. /\ s[f'.cs.offset + 1][1] = "digest"
        /\ s[f'.cs.offset + 1][3] = Slice(s, 0, f'.cs.offset)
        /\ Len(s) = L + f'.filesz
        /\ Len(s) = f'.cs.offset + f'.cs.size
    BY ONLY <1>1, <2>4, <2>5, <2>6
  <2>8. SavedFile' = s  BY <1>10 DEF s, H, led, m, L, t
  <2> QED  BY ONLY <2>6, <2>7, <2>8 DEF Covered
<1> QED  BY <1>1, <1>8, <1>9, <1>11

(* A file that could be saved has this many words.                         *)
LEMMA SavedLength ==
    ASSUME Inv, SavedInv, ~SaveFails
    PROVE  /\ IsSeq(SavedFile) /\ Len(SavedFile) = Linkedit + f.filesz
           /\ \A i \in 1 .. Len(HeaderAndLoads(f)) : SavedFile[i] = HeaderAndLoads(f)[i]
           /\ Len(HeaderAndLoads(f)) \in Nat /\ Len(HeaderAndLoads(f)) <= layout.text
<1> DEFINE H == HeaderAndLoads(f)
           t == layout.text
           L == Linkedit
           D == IF FromMemory THEN f.ledata ELSE Slice(image, L, L + f.filesz)
<1>1. /\ t \in Nat /\ L \in Nat /\ t <= L /\ f.filesz \in Nat
  BY LayoutsAssumption DEF Inv, Typed, Linkedit
<1>2. IsSeq(H)  BY HeaderIsCounted DEF Inv, Counted
<1>3. IsSeq(image) /\ Len(image) \in Nat /\ L <= Len(image)
  BY <1>1, ConcatIsSeq DEF SavedInv
<1>4. Len(H) \in Nat /\ Len(H) <= t
  BY <1>1, <1>2, ConcatIsSeq DEF SaveFails
<1>5. IsSeq(D) /\ Len(D) = f.filesz
  <2>1. CASE FromMemory  BY <2>1 DEF FromMemory, SavedInv
  <2>2. CASE ~FromMemory
    <3> DEFINE b == L + f.filesz
    <3>1. L <= b /\ b \in Nat /\ b <= Len(image) /\ b - L = f.filesz
      BY <1>1, <1>3, <2>2 DEF SaveFails
    <3>2. D = Slice(image, L, b)  BY <2>2
    <3> HIDE DEF b, L, D
    <3>3. IsSeq(Slice(image, L, b)) /\ Len(Slice(image, L, b)) = b - L
      BY ONLY <1>1, <1>3, <3>1, SliceIsSeq
    <3> QED  BY ONLY <3>1, <3>2, <3>3
  <2> QED  BY <2>1, <2>2
<1>6. SavedFile = Assembly(H, image, t, L, D)  BY SavedIsAssembly
<1> HIDE DEF H, t, L, D
<1>7. /\ IsSeq(H) /\ IsSeq(image) /\ IsSeq(D) /\ t \in Nat /\ L \in Nat
      /\ Len(H) <= t /\ t <= L /\ L <= Len(image)
  BY <1>1, <1>2, <1>3, <1>4, <1>5
<1>8. IsSeq(Assembly(H, image, t, L, D)) /\ Len(Assembly(H, image, t, L, D)) = L + Len(D)
  BY ONLY <1>7, Assembled
<1>9. \A i \in 1 .. Len(H) : Assembly(H, image, t, L, D)[i] = H[i]
  BY ONLY <1>7, Assembled
<1> QED  BY <1>4, <1>5, <1>6, <1>8, <1>9 DEF H, t, L

(* A file put together again from its own words.                           *)
Again(H, s, text, link, z) == Assembly(H, s, text, link, Slice(s, link, link + z))

(* It is the same file.                                                    *)
LEMMA SameAgain ==
    ASSUME NEW s, IsSeq(s), NEW H, IsSeq(H), NEW text \in Nat, NEW link \in Nat,
           NEW z \in Nat, Len(H) <= text, text <= link, Len(s) = link + z,
           \A i \in 1 .. Len(H) : s[i] = H[i]
    PROVE  Again(H, s, text, link, z) = s
<1> DEFINE b == link + z
           D == Slice(s, link, b)
           a == Assembly(H, s, text, link, D)
<1>1. Len(H) \in Nat /\ Len(s) \in Nat  BY ConcatIsSeq
<1>2. /\ link <= b /\ b \in Nat /\ b <= Len(s) /\ b - link = z /\ link <= Len(s)
      /\ IsSeq(s) /\ IsSeq(H) /\ text \in Nat /\ link \in Nat /\ Len(H) <= text
      /\ text <= link
  BY <1>1
<1> HIDE DEF b
<1>3. /\ IsSeq(D) /\ Len(D) = b - link
      /\ \A i \in 1 .. b - link : D[i] = s[link + i]
  BY ONLY <1>2, SliceIsSeq
<1> HIDE DEF D
<1>4. IsSeq(a) /\ Len(a) = link + Len(D)  BY ONLY <1>2, <1>3, Assembled
<1>5. \A i \in 1 .. Len(H) : a[i] = H[i]  BY ONLY <1>2, <1>3, Assembled
<1>6. \A i \in Len(H) + 1 .. link : a[i] = s[i]  BY ONLY <1>2, <1>3, Assembled
<1>7. \A i \in 1 .. Len(D) : a[link + i] = D[i]  BY ONLY <1>2, <1>3, Assembled
<1> HIDE DEF a
<1>8. Len(a) = Len(s)  BY <1>2, <1>3, <1>4
<1>9. ASSUME NEW i \in 1 .. Len(a) PROVE a[i] = s[i]
  <2>1. CASE i <= Len(H)
    <3>1. i \in 1 .. Len(H)  BY <1>1, <2>1
    <3> QED  BY <1>5, <3>1
  <2>2. CASE Len(H) < i /\ i <= link
    <3>1. i \in Len(H) + 1 .. link  BY <1>1, <2>2
    <3> QED  BY <1>6, <3>1
  <2>3. CASE link < i
    <3>1. /\ i - link \in 1 .. Len(D) /\ i - link \in 1 .. b - link
          /\ link + (i - link) = i
      BY <1>2, <1>3, <1>4, <2>3
    <3>2. a[link + (i - link)] = D[i - link]  BY <1>7, <3>1
    <3>3. D[i - link] = s[link + (i - link)]  BY <1>3, <3>1
    <3> QED  BY <3>1, <3>2, <3>3
  <2>4. i \in Nat  BY <1>8
  <2> QED  BY <1>1, <2>1, <2>2, <2>3, <2>4
<1>10. a = s  BY <1>2, <1>4, <1>8, <1>9, SameWords
<1> QED  BY <1>10 DEF a, D, b, Again

(* Opening a saved file leaves what a save would write.                    *)
LEMMA ReopenKeepsSaved ==
    ASSUME Inv, SavedInv, Reopen
    PROVE  SavedInv'
<1> DEFINE cs == IF f.cs = NoSignature THEN NoSignature
                 ELSE [f.cs EXCEPT !.primary = saved[f.cs.offset + 1][2]]
           H == HeaderAndLoads(f)
           t == layout.text
           L == Linkedit
           z == f.filesz
<1>1. f' = [ NCommands |-> f.NCommands, SizeCommands |-> f.SizeCommands,
             added |-> f.added, filesz |-> f.filesz, memsz |-> f.memsz,
             cs |-> cs, ledata |-> NoData ]
  BY DEF Reopen, Inv, Shape
<1>2. /\ (cs = NoSignature) <=> (f.cs = NoSignature)
      /\ cs.offset = f.cs.offset /\ cs.size = f.cs.size
  <2>1. CASE f.cs = NoSignature  BY <2>1
  <2>2. CASE f.cs # NoSignature
    <3>1. f.cs = Signature(f.cs.offset, f.cs.size, f.cs.primary)
      BY <2>2 DEF Inv, Typed
    <3>2. ASSUME NEW o, NEW w, NEW p, NEW q
          PROVE  [Signature(o, w, p) EXCEPT !.primary = q] = Signature(o, w, q)
      BY DEF Signature
    <3>3. cs = Signature(f.cs.offset, f.cs.size, saved[f.cs.offset + 1][2])
      BY <2>2, <3>1, <3>2
    <3> QED  BY <2>2, <3>3, SignatureFields
  <2> QED  BY <2>1, <2>2
<1> HIDE DEF cs
<1>3. /\ f'.NCommands = f.NCommands /\ f'.SizeCommands = f.SizeCommands
      /\ f'.added = f.added /\ f'.filesz = z /\ f'.memsz = f.memsz
      /\ f'.cs = cs /\ f'.ledata = NoData
  BY <1>1
<1>4. /\ saved # NoData /\ image' = saved /\ saved' = saved
      /\ layout' = layout /\ current' = current
  BY DEF Reopen
<1>5. ~SaveFails /\ saved = SavedFile  BY <1>4 DEF SavedInv
<1>6. /\ IsSeq(saved) /\ Len(saved) = L + z
      /\ \A i \in 1 .. Len(H) : saved[i] = H[i]
      /\ Len(H) \in Nat /\ Len(H) <= t
  BY <1>5, SavedLength
<1>7. /\ t \in Nat /\ L \in Nat /\ t <= L /\ z \in Nat
  BY LayoutsAssumption DEF Inv, Typed, Linkedit
<1>8. HeaderAndLoads(f)' = H
  <2>1. HeaderAndLoads(f)' = HeaderAndLoads(f')  BY <1>4 DEF HeaderAndLoads
  <2>2. HeaderAndLoads(f') = HeaderAndLoads(f)
    <3> DEFINE g == f'
    <3>1. /\ g.NCommands = f.NCommands /\ g.SizeCommands = f.SizeCommands
          /\ g.filesz = f.filesz /\ g.memsz = f.memsz /\ g.added = f.added
          /\ g.cs = NoSignature <=> f.cs = NoSignature
          /\ g.cs.offset = f.cs.offset /\ g.cs.size = f.cs.size
      BY <1>2, <1>3
    <3> HIDE DEF g
    <3>2. HeaderAndLoads(g) = HeaderAndLoads(f)  BY ONLY <3>1, HeaderShows
    <3> QED  BY <3>2 DEF g
  <2> QED  BY <2>1, <2>2
<1>9. ~FromMemory'  BY <1>3 DEF FromMemory
<1>10. Linkedit' = L /\ layout'.text = t  BY <1>4 DEF Linkedit
<1>11. SavedFile' = saved
  <2>1. SavedFile' = Assembly(H, saved, t, L, Slice(saved, L, L + z))
    BY <1>3, <1>4, <1>8, <1>9, <1>10 DEF SavedFile, Assembly
  <2>2. IsSeq(H)  BY HeaderIsCounted DEF Inv, Counted
  <2> HIDE DEF H, t, L, z
  <2>3. Again(H, saved, t, L, z) = saved
    BY ONLY <1>6, <1>7, <2>2, SameAgain
  <2> QED  BY <2>1, <2>3 DEF Again
<1>12. ~SaveFails'
  BY <1>3, <1>4, <1>6, <1>7, <1>8, <1>9, <1>10 DEF SaveFails
<1>13. (Signed' /\ ~SaveFails') => Covered(SavedFile, f)'
  <2> SUFFICES ASSUME Signed' PROVE Covered(SavedFile, f)'
    OBVIOUS
  <2>1. Signed  BY <1>2, <1>3, <1>4 DEF Signed
  <2>2. Covered(saved, f)  BY <1>5, <2>1 DEF SavedInv
  <2>3. f'.cs.offset = f.cs.offset /\ f'.cs.size = f.cs.size
    BY <1>2, <1>3
  <2> QED  BY <1>3, <1>10, <1>11, <2>2, <2>3 DEF Covered
<1> QED
  BY <1>3, <1>4, <1>6, <1>7, <1>10, <1>11, <1>12, <1>13 DEF SavedInv

(* A failed CodeSign leaves every part alone, a successful one covers what *)
(* a save then writes.                                                     *)
LEMMA CodeSignKeepsSaved ==
    ASSUME NoDataIsNoFile, Inv, SavedInv,
           NEW id \in IDs, NEW estimate \in Estimates, NEW size \in SignatureSizes,
           CodeSign(id, estimate, size)
    PROVE  SavedInv'
<1> DEFINE m == Mutated(estimate)
           led == NewLEData(m, EffectiveID(id), size)
<1>1. layout' = layout /\ image' = image /\ saved' = (IF f' = f THEN saved ELSE NoData)
  BY DEF CodeSign
<1>2. \/ UNCHANGED <<f, current>>
      \/ f' = Rollback(f, m) /\ UNCHANGED current
      \/ /\ EarlyError(id) = "none" /\ LateError(m, size) = "none"
         /\ f' = [m EXCEPT !.ledata = led]
  BY DEF CodeSign
<1>3. f' = f => /\ SavedFile' = SavedFile /\ SaveFails' = SaveFails
                /\ FromMemory' = FromMemory /\ Linkedit' = Linkedit
  BY <1>1 DEF SavedFile, SaveFails, FromMemory, HeaderAndLoads, Linkedit
<1>4. CASE f' = f /\ UNCHANGED current
  BY <1>1, <1>3, <1>4 DEF SavedInv, Covered, Signed
<1>5. CASE f' = Rollback(f, m) /\ UNCHANGED current
  BY <1>4, <1>5, RollbackRestores DEF Inv
<1>6. CASE /\ EarlyError(id) = "none" /\ LateError(m, size) = "none"
           /\ f' = [m EXCEPT !.ledata = led]
  <2>1. /\ FromMemory' /\ IsSeq(f'.ledata) /\ Len(f'.ledata) = f'.filesz
        /\ ~SaveFails' => Covered(SavedFile, f)'
    BY <1>1, <1>6, CommitCovers
  <2>2. saved' # NoData => ~SaveFails' /\ saved' = SavedFile'
    BY <1>1, <1>3 DEF SavedInv
  <2>3. IsSeq(image') /\ Len(image') >= Linkedit'
    BY <1>1 DEF SavedInv, Linkedit
  <2> HIDE DEF m, led
  <2> QED  BY ONLY <2>1, <2>2, <2>3 DEF SavedInv
<1> QED  BY <1>2, <1>4, <1>5, <1>6

(* Nothing is signed or saved at first.                                    *)
LEMMA InitSaved == Init => SavedInv
<1> SUFFICES ASSUME Init PROVE SavedInv  OBVIOUS
<1>1. IsSeq(image) /\ Len(image) >= Linkedit
  BY InitText DEF TextInv, HasText, Linkedit
<1>2. saved = NoData /\ current = FALSE /\ f.ledata = NoData  BY DEF Init
<1> QED  BY <1>1, <1>2 DEF SavedInv, Signed

(* Every call keeps what was saved equal to what a save would write, and   *)
(* what was signed covered.                                                *)
LEMMA NextSaved ==
    ASSUME NoDataIsNoFile, Inv, SavedInv, [Next]_vars
    PROVE  SavedInv'
<1>1. ASSUME NEW id \in IDs, NEW estimate \in Estimates, NEW size \in SignatureSizes,
             CodeSign(id, estimate, size)
      PROVE  SavedInv'
  BY <1>1, CodeSignKeepsSaved
<1>2. CASE SaveBuffer
  <2>1. /\ ~SaveFails /\ saved' = SavedFile
        /\ layout' = layout /\ image' = image /\ f' = f /\ current' = current
    BY <1>2, SMTT(30) DEF SaveBuffer
  <2>2. /\ SavedFile' = SavedFile /\ SaveFails' = SaveFails
        /\ FromMemory' = FromMemory /\ Linkedit' = Linkedit
    BY <2>1 DEF SavedFile, SaveFails, FromMemory, HeaderAndLoads, Linkedit
  <2> QED  BY <2>1, <2>2 DEF SavedInv, Covered, Signed
<1>3. CASE Reopen  BY <1>3, ReopenKeepsSaved
<1>4. CASE AddLoad \/ RemoveSignature
  <2>1. /\ current' = FALSE /\ saved' = NoData /\ image' = image /\ layout' = layout
        /\ f'.ledata = f.ledata /\ f'.filesz = f.filesz
    BY <1>4 DEF AddLoad, RemoveSignature, Inv, Shape
  <2> QED  BY <2>1 DEF SavedInv, Signed, Linkedit
<1>5. CASE UNCHANGED vars
  <2>1. /\ layout' = layout /\ image' = image /\ f' = f /\ current' = current
        /\ saved' = saved
    BY <1>5 DEF vars
  <2>2. /\ SavedFile' = SavedFile /\ SaveFails' = SaveFails
        /\ FromMemory' = FromMemory /\ Linkedit' = Linkedit
    BY <2>1 DEF SavedFile, SaveFails, FromMemory, HeaderAndLoads, Linkedit
  <2> QED  BY <2>1, <2>2 DEF SavedInv, Covered, Signed
<1> QED  BY <1>1, <1>2, <1>3, <1>4, <1>5 DEF Next

(* The signature in every saved file is over exactly the words before it   *)
(* and ends with the file, whatever was signed, refused, rolled back,      *)
(* saved and opened again before (CodeSign, SaveBuffer).                   *)
THEOREM SignaturesCoverTheirFiles ==
    ASSUME NoDataIsNoFile
    PROVE  Spec => []SignatureCoversSavedFile
<1>1. Inv /\ SavedInv /\ [Next]_vars => SavedInv'  BY NextSaved
<1>2. SavedInv => SignatureCoversSavedFile
  BY DEF SavedInv, SignatureCoversSavedFile, Covered, Signed
<1> QED  BY <1>1, <1>2, InitSaved, Invariance, PTL DEF Spec

(* The commands fit where SaveBuffer puts them.                            *)
LEMMA HeaderFits ==
    ASSUME Roomy, Inv, TextInv
    PROVE  Len(HeaderAndLoads(f)) <= layout.text
<1>1. Len(HeaderAndLoads(f)) = HdrSize + f.SizeCommands
  BY HeaderFromInv DEF HeaderDescribesCommands
<1>2. /\ HdrSize \in Nat /\ OtherCmd \in Nat /\ SignatureCmd \in Nat
      /\ LinkeditCmd \in Nat /\ layout.written \in Nat /\ layout.section \in Nat
      /\ layout.text \in Nat /\ layout.section <= layout.text
  BY SizesAssumption, LayoutsAssumption DEF Inv
<1>3. f.SizeCommands \in Nat
      /\ f.SizeCommands <= layout.written + LinkeditCmd + OtherCmd + SignatureCmd
  BY <1>2 DEF Inv, Counted
<1>4. CASE layout.section = 0
  <2>1. HdrSize + layout.written + LinkeditCmd + OtherCmd + SignatureCmd <= layout.text
    BY <1>4 DEF Roomy, Inv
  <2> DEFINE t == layout.text
             w == layout.written
             z == f.SizeCommands
  <2>2. /\ HdrSize \in Nat /\ OtherCmd \in Nat /\ SignatureCmd \in Nat
        /\ LinkeditCmd \in Nat /\ w \in Nat /\ t \in Nat /\ z \in Nat
        /\ z <= w + LinkeditCmd + OtherCmd + SignatureCmd
        /\ HdrSize + w + LinkeditCmd + OtherCmd + SignatureCmd <= t
    BY <1>2, <1>3, <2>1
  <2> HIDE DEF t, w, z
  <2>3. HdrSize + z <= t  BY ONLY <2>2
  <2> QED  BY <1>1, <2>3 DEF t, z
<1>5. CASE layout.section # 0
  BY <1>1, <1>2, <1>3, <1>5 DEF TextInv
<1> QED  BY <1>4, <1>5

(* What CodeSign committed, and what a reopening brought back, can be      *)
(* saved, when LoadSize computes what Write writes and a __TEXT without    *)
(* sections has room for the commands, which CodeSign checks only against  *)
(* the first section.                                                      *)
THEOREM CommitsCanBeSaved ==
    ASSUME NoDataIsNoFile, Sized, Roomy
    PROVE  Spec => []SignedFilesCanBeSaved
<1>1. Inv /\ SavedInv /\ [Next]_vars => SavedInv'  BY NextSaved
<1>2. Inv /\ TextInv /\ [Next]_vars => TextInv'  BY NextText
<1>3. Inv /\ TextInv /\ SavedInv => SignedFilesCanBeSaved
  <2> SUFFICES ASSUME Inv, TextInv, SavedInv, Signed PROVE ~SaveFails
    BY DEF SignedFilesCanBeSaved, Signed
  <2>1. Len(HeaderAndLoads(f)) <= layout.text  BY HeaderFits
  <2>2. FromMemory \/ Linkedit + f.filesz <= Len(image)  BY DEF SavedInv
  <2>3. Len(HeaderAndLoads(f)) \in Nat /\ layout.text \in Nat
        /\ Linkedit + f.filesz \in Nat /\ Len(image) \in Nat
    <3>1. IsSeq(HeaderAndLoads(f))  BY HeaderIsCounted DEF Inv, Counted
    <3> QED  BY <3>1, LayoutsAssumption, ConcatIsSeq DEF Inv, Typed, Linkedit, SavedInv
  <2> QED  BY <2>1, <2>2, <2>3 DEF SaveFails
<1> QED  BY <1>1, <1>2, <1>3, InitSaved, InitText, Invariance, PTL DEF Spec

-----------------------------------------------------------------------------
(* Multiples of a size. *)
LEMMA TimesIs ==
    ASSUME NEW a \in Nat, NEW b \in Nat
    PROVE  a * b \in Nat
  OBVIOUS

LEMMA TimesGrows ==
    ASSUME NEW j \in Nat, NEW k \in Nat, NEW h \in Nat, j < k
    PROVE  j * h + h <= k * h
<1> DEFINE e == k - j - 1
<1>1. e \in Nat /\ k = j + 1 + e
  OBVIOUS
<1> HIDE DEF e
<1>2. e * h \in Nat /\ j * h \in Nat
  BY <1>1, TimesIs
<1>3. k * h = j * h + h + e * h
  BY <1>1
<1> QED BY <1>2, <1>3

LEMMA QuotientIs ==
    ASSUME NEW a \in Nat, NEW s \in Nat, s > 0
    PROVE  /\ a \div s \in Nat
           /\ (a \div s) * s <= a /\ a < (a \div s) * s + s
  BY SMTT(30)

LEMMA QuotientOnly ==
    ASSUME NEW a \in Nat, NEW s \in Nat, s > 0, NEW q \in Nat, q * s <= a, a < q * s + s
    PROVE  a \div s = q
<1> DEFINE p == a \div s
<1>1. p \in Nat /\ p * s <= a /\ a < p * s + s
  BY QuotientIs
<1> HIDE DEF p
<1>2. q * s \in Nat /\ p * s \in Nat
  BY <1>1, TimesIs
<1>3. ~(p < q)
  <2>1. p < q => p * s + s <= q * s
    BY <1>1, TimesGrows
  <2> QED BY <1>1, <1>2, <2>1
<1>4. ~(q < p)
  <2>1. q < p => q * s + s <= p * s
    BY <1>1, TimesGrows
  <2> QED BY <1>1, <1>2, <2>1
<1> QED BY <1>1, <1>3, <1>4 DEF p

(* 1 << bits, which is defined for every number of bits.                   *)
Doubles(w, n) == \A i \in 0 .. n : w[i] = IF i = 0 THEN 1 ELSE 2 * w[i - 1]

LEMMA DoublingExists ==
    \A n \in Nat : \E w \in [0 .. n -> Nat] : Doubles(w, n)
<1> DEFINE S == {n \in Nat : \E w \in [0 .. n -> Nat] : Doubles(w, n)}
<1>1. 0 \in S
  <2> DEFINE w == [i \in 0 .. 0 |-> 1]
  <2>1. w \in [0 .. 0 -> Nat] /\ Doubles(w, 0)
    BY DEF Doubles
  <2> QED BY <2>1
<1>2. ASSUME NEW n \in Nat, n \in S PROVE n + 1 \in S
  <2>1. PICK w \in [0 .. n -> Nat] : Doubles(w, n)
    BY <1>2
  <2> DEFINE g == [i \in 0 .. n + 1 |-> IF i = n + 1 THEN 2 * w[n] ELSE w[i]]
  <2>2. g \in [0 .. n + 1 -> Nat]
    OBVIOUS
  <2>3. \A i \in 0 .. n : g[i] = w[i]
    OBVIOUS
  <2>4. g[n + 1] = 2 * w[n]
    OBVIOUS
  <2> HIDE DEF g
  <2>5. ASSUME NEW i \in 0 .. n + 1 PROVE g[i] = IF i = 0 THEN 1 ELSE 2 * g[i - 1]
    <3>1. CASE i = n + 1
      <4>1. i # 0 /\ i - 1 = n /\ n \in 0 .. n
        BY <3>1
      <4> QED BY <2>3, <2>4, <3>1, <4>1
    <3>2. CASE i \in 1 .. n
      <4>1. i # 0 /\ i \in 0 .. n /\ i - 1 \in 0 .. n
        BY <3>2
      <4> QED BY <2>1, <2>3, <4>1 DEF Doubles
    <3>3. CASE i = 0
      BY <2>1, <2>3, <3>3 DEF Doubles
    <3> QED BY <3>1, <3>2, <3>3
  <2>6. Doubles(g, n + 1)
    BY <2>5 DEF Doubles
  <2> QED BY <2>2, <2>6
<1> HIDE DEF S
<1>3. \A n \in Nat : n \in S
  BY <1>1, <1>2, SetInduction
<1> QED BY <1>3 DEF S

LEMMA DoublingIsOne ==
    ASSUME NEW n \in Nat, NEW m \in Nat, n <= m, NEW w, NEW g, Doubles(w, n), Doubles(g, m)
    PROVE  \A i \in 0 .. n : w[i] = g[i]
<1> DEFINE S == {i \in 0 .. n : w[i] = g[i]}
<1>1. 0 \in S
  BY DEF Doubles
<1>2. ASSUME NEW i \in 1 .. n, i - 1 \in S PROVE i \in S
  <2>1. i \in 0 .. n /\ i \in 0 .. m /\ i # 0
    OBVIOUS
  <2>2. w[i] = 2 * w[i - 1] /\ g[i] = 2 * g[i - 1]
    BY <2>1 DEF Doubles
  <2> QED BY <1>2, <2>1, <2>2
<1> HIDE DEF S
<1>3. \A i \in 0 .. n : i \in S
  BY <1>1, <1>2, CountInduction
<1> QED BY <1>3 DEF S

LEMMA PageSizeIs ==
    \A bits \in Nat : pageSize[bits] \in Nat /\ pageSize[bits] > 0
<1> DEFINE up(n) == CHOOSE w \in [0 .. n -> Nat] : Doubles(w, n)
           F == [n \in Nat |-> up(n)[n]]
           Is(w) == w = [bits \in Nat |-> IF bits = 0 THEN 1 ELSE 2 * w[bits - 1]]
<1>1. ASSUME NEW n \in Nat PROVE up(n) \in [0 .. n -> Nat] /\ Doubles(up(n), n)
  BY DoublingExists
<1> HIDE DEF up
<1>2. ASSUME NEW n \in Nat, n # 0 PROVE up(n)[n - 1] = up(n - 1)[n - 1]
  <2> DEFINE k == n - 1
  <2>1. k \in Nat /\ k <= n /\ k \in 0 .. k
    BY <1>2
  <2> HIDE DEF k
  <2>2. up(k)[k] = up(n)[k]
    BY <1>1, <2>1, DoublingIsOne
  <2> QED BY <2>2 DEF k
<1>3. ASSUME NEW n \in Nat PROVE F[n] = IF n = 0 THEN 1 ELSE 2 * F[n - 1]
  <2>1. up(n)[n] = IF n = 0 THEN 1 ELSE 2 * up(n)[n - 1]
    BY <1>1 DEF Doubles
  <2> QED BY <1>2, <2>1
<1>4. F = [n \in Nat |-> F[n]]
  OBVIOUS
<1> HIDE DEF F
<1>5. Is(F)
  <2>1. F = [bits \in Nat |-> IF bits = 0 THEN 1 ELSE 2 * F[bits - 1]]
    BY ONLY <1>3, <1>4
  <2> QED BY <2>1
<1>6. pageSize = CHOOSE w : Is(w)
  BY DEF pageSize
<1>7. Is(pageSize)
  <2> HIDE DEF Is
  <2> QED BY <1>5, <1>6
<1> DEFINE p == pageSize
<1> HIDE DEF p
<1>8. \A n \in Nat : p[n] = IF n = 0 THEN 1 ELSE 2 * p[n - 1]
  <2>1. p = [bits \in Nat |-> IF bits = 0 THEN 1 ELSE 2 * p[bits - 1]]
    BY <1>7 DEF p
  <2> QED BY ONLY <2>1
<1> DEFINE S == {n \in Nat : p[n] \in Nat /\ p[n] > 0}
<1>9. 0 \in S
  BY <1>8
<1>10. ASSUME NEW n \in Nat, n \in S PROVE n + 1 \in S
  <2>1. n + 1 \in Nat /\ n + 1 # 0 /\ (n + 1) - 1 = n
    OBVIOUS
  <2>2. p[n + 1] = 2 * p[n]
    BY <1>8, <2>1
  <2> QED BY <1>10, <2>2
<1> HIDE DEF S
<1>11. \A n \in Nat : n \in S
  BY <1>9, <1>10, SetInduction
<1> QED BY <1>11 DEF S, p

(* The scatter vector is the one its definition describes: a cursor moves  *)
(* on by an entry until it leaves the blob.                                *)
Pages == [page: Nat, target: Nat, at: Nat]

Stops(cd, c) ==
    \/ ~interiorSpan(cd, c.at, ScatterSize)
    \/ scatterEntry(cd, c.at).count = 0
    \/ c.consumed + scatterEntry(cd, c.at).count > cd.nCode

Ended(cd, c) ==
    IF interiorSpan(cd, c.at, ScatterSize) /\ scatterEntry(cd, c.at).count = 0 THEN <<>> ELSE Refused

Joined(entry, more) == IF more = Refused THEN Refused ELSE pagesOf(entry) \o more

Scatters(cd, w) ==
    \A c \in Cursors :
        w[c] = IF Stops(cd, c) THEN Ended(cd, c)
               ELSE Joined(scatterEntry(cd, c.at), w[Behind(c, scatterEntry(cd, c.at))])

Directory(cd) == DirectoryFields(cd) /\ cd.length \in Nat

LEMMA ScatterEntryIs ==
    ASSUME NEW cd, Directory(cd), NEW at
    PROVE  /\ scatterEntry(cd, at).count \in Nat
           /\ scatterEntry(cd, at).base \in Nat
           /\ scatterEntry(cd, at).target \in Nat
<1>1. CASE at \in DOMAIN cd.scatterAt
  BY <1>1 DEF Directory, DirectoryFields, scatterEntry
<1>2. CASE at \notin DOMAIN cd.scatterAt
  BY <1>2 DEF scatterEntry, Sentinel
<1> QED BY <1>1, <1>2

LEMMA PagesOfIs ==
    ASSUME NEW e, e.count \in Nat, e.base \in Nat, e.target \in Nat
    PROVE  pagesOf(e) \in Seq(Pages)
<1> DEFINE n == e.count
           w == [k \in 1 .. n |-> Page(e.base + k - 1, e.target, k - 1)]
<1>1. ASSUME NEW k \in 1 .. n PROVE Page(e.base + k - 1, e.target, k - 1) \in Pages
  <2>1. k - 1 \in Nat /\ e.base + k - 1 \in Nat
    OBVIOUS
  <2> QED BY <2>1 DEF Page, Pages
<1>2. w \in [1 .. n -> Pages]
  BY <1>1
<1>3. n \in Nat /\ pagesOf(e) = w
  BY DEF pagesOf
<1> HIDE DEF w, n
<1> QED BY <1>2, <1>3, IsASeq

LEMMA RefusedIs ==
    Refused \in Seq(Pages) /\ <<>> \in Seq(Pages)
  BY DEF Refused, Page, Pages

LEMMA BehindIs ==
    ASSUME NEW cd, Directory(cd), NEW c \in Cursors
    PROVE  LET d == Behind(c, scatterEntry(cd, c.at))
           IN  d \in Cursors /\ d.at = c.at + ScatterSize
  BY ScatterEntryIs DEF Behind, Cursors, ScatterSize

LEMMA JoinedIs ==
    ASSUME NEW e, e.count \in Nat, e.base \in Nat, e.target \in Nat, NEW more \in Seq(Pages)
    PROVE  Joined(e, more) \in Seq(Pages)
<1>1. pagesOf(e) \o more \in Seq(Pages)
  BY PagesOfIs, ConcatProperties
<1> QED BY <1>1, RefusedIs DEF Joined

(* How far a cursor is from the end of the blob. *)
Left(cd, c) == IF c.at <= cd.length THEN cd.length - c.at ELSE 0

LEMMA LeftShrinks ==
    ASSUME NEW cd, Directory(cd), NEW c \in Cursors
    PROVE  /\ Left(cd, c) \in 0 .. cd.length
           /\ ~Stops(cd, c) => Left(cd, Behind(c, scatterEntry(cd, c.at))) < Left(cd, c)
<1> DEFINE d == Behind(c, scatterEntry(cd, c.at))
<1>1. c.at \in Nat /\ cd.length \in Nat
  BY DEF Cursors, Directory
<1>2. d.at = c.at + ScatterSize
  BY BehindIs
<1> HIDE DEF d
<1>3. Left(cd, c) \in 0 .. cd.length
  BY <1>1 DEF Left
<1>4. ~Stops(cd, c) => c.at <= cd.length /\ 24 <= cd.length - c.at
  BY DEF Stops, interiorSpan, span, ScatterSize
<1>5. ~Stops(cd, c) => Left(cd, d) < Left(cd, c)
  BY <1>1, <1>2, <1>4 DEF Left, ScatterSize
<1> QED BY <1>3, <1>5 DEF d

LEMMA VectorExists ==
    ASSUME NEW cd, Directory(cd)
    PROVE  \E w : w = [c \in Cursors |-> w[c]] /\ Scatters(cd, w)
<1> DEFINE V == Seq(Pages)
           m == [c \in Cursors |-> Left(cd, c)]
           Stop == {c \in Cursors : Stops(cd, c)}
           base == [c \in Cursors |-> Ended(cd, c)]
           next == [c \in Cursors |-> Behind(c, scatterEntry(cd, c.at))]
           step == [x \in Cursors \X V |-> Joined(scatterEntry(cd, x[1].at), x[2])]
<1>1. cd.length \in Nat
  BY DEF Directory
<1>2. m \in [Cursors -> 0 .. cd.length]
  BY LeftShrinks
<1>3. base \in [Cursors -> V]
  BY RefusedIs DEF Ended
<1>4. next \in [Cursors -> Cursors]
  BY BehindIs
<1>5. step \in [Cursors \X V -> V]
  <2>1. ASSUME NEW x \in Cursors \X V PROVE Joined(scatterEntry(cd, x[1].at), x[2]) \in V
    BY ScatterEntryIs, JoinedIs
  <2> QED BY <2>1
<1>6. \A c \in Cursors \ Stop : m[next[c]] < m[c]
  <2>1. ASSUME NEW c \in Cursors, ~Stops(cd, c)
        PROVE  /\ next[c] = Behind(c, scatterEntry(cd, c.at)) /\ next[c] \in Cursors
               /\ Left(cd, Behind(c, scatterEntry(cd, c.at))) < Left(cd, c)
    BY <1>4, <2>1, LeftShrinks
  <2> QED BY <2>1
<1> DEFINE R(w) == Recurses(w, Cursors, Stop, base, next, step)
<1>7. \E w \in [Cursors -> V] : R(w)
  <2> HIDE DEF m, Stop, base, next, step, V
  <2> QED BY <1>1, <1>2, <1>3, <1>4, <1>5, <1>6, RecursiveFunctionExists
<1>8. PICK w \in [Cursors -> V] : R(w)
  BY <1>7
<1>9. ASSUME NEW c \in Cursors
      PROVE  w[c] = IF Stops(cd, c) THEN Ended(cd, c)
                    ELSE Joined(scatterEntry(cd, c.at), w[Behind(c, scatterEntry(cd, c.at))])
  <2>1. w[c] = IF c \in Stop THEN base[c] ELSE step[<<c, w[next[c]]>>]
    BY <1>8 DEF Recurses
  <2>2. (c \in Stop <=> Stops(cd, c)) /\ base[c] = Ended(cd, c)
    OBVIOUS
  <2>3. next[c] = Behind(c, scatterEntry(cd, c.at)) /\ next[c] \in Cursors
    BY <1>4
  <2> DEFINE v == w[next[c]]
  <2>4. v \in V
    BY <2>3
  <2> HIDE DEF v
  <2>5. step[<<c, v>>] = Joined(scatterEntry(cd, c.at), v)
    BY <2>4
  <2> HIDE DEF Stop, base, next, step
  <2> QED BY <2>1, <2>2, <2>3, <2>5 DEF v
<1>10. w = [c \in Cursors |-> w[c]]
  OBVIOUS
<1> QED BY <1>9, <1>10 DEF Scatters

LEMMA VectorIs ==
    ASSUME NEW cd, Directory(cd)
    PROVE  Scatters(cd, scatterVector(cd))
<1> DEFINE Body(w, c) == LET entry == scatterEntry(cd, c.at)
                             more == w[Behind(c, entry)]
                         IN  IF ~interiorSpan(cd, c.at, ScatterSize) THEN Refused
                             ELSE IF entry.count = 0 THEN <<>>
                             ELSE IF c.consumed + entry.count > cd.nCode THEN Refused
                             ELSE IF more = Refused THEN Refused ELSE pagesOf(entry) \o more
           Is(w) == w = [c \in Cursors |-> Body(w, c)]
<1>1. ASSUME NEW w, NEW c
      PROVE  Body(w, c) = IF Stops(cd, c) THEN Ended(cd, c)
                          ELSE Joined(scatterEntry(cd, c.at), w[Behind(c, scatterEntry(cd, c.at))])
  BY Zenon DEF Stops, Ended, Joined
<1>2. scatterVector(cd) = CHOOSE w : Is(w)
  BY DEF scatterVector
<1> HIDE DEF Body
<1>3. PICK w : w = [c \in Cursors |-> w[c]] /\ Scatters(cd, w)
  BY VectorExists
<1>4. Is(w)
  <2>1. ASSUME NEW c \in Cursors PROVE w[c] = Body(w, c)
    BY <1>1, <1>3 DEF Scatters
  <2> QED BY <1>3, <2>1
<1>5. Is(scatterVector(cd))
  <2> HIDE DEF Is
  <2> QED BY <1>2, <1>4
<1> DEFINE v == scatterVector(cd)
<1> HIDE DEF v
<1>6. \A c \in Cursors : v[c] = Body(v, c)
  <2>1. v = [c \in Cursors |-> Body(v, c)]
    BY <1>5 DEF v
  <2> QED BY ONLY <2>1
<1> QED BY <1>1, <1>6 DEF Scatters, v

LEMMA ScatterPagesAre ==
    ASSUME NEW cd, Directory(cd)
    PROVE  scatterPages(cd) \in Seq(Pages)
<1> DEFINE v == scatterVector(cd)
           m == [c \in Cursors |-> Left(cd, c)]
           S == {c \in Cursors : v[c] \in Seq(Pages)}
<1>1. Scatters(cd, v)
  BY VectorIs
<1> HIDE DEF v
<1>2. cd.length \in Nat /\ m \in [Cursors -> 0 .. cd.length]
  BY LeftShrinks DEF Directory
<1>3. ASSUME NEW c \in Cursors, \A d \in Cursors : m[d] < m[c] => d \in S PROVE c \in S
  <2> DEFINE d == Behind(c, scatterEntry(cd, c.at))
  <2>1. v[c] = IF Stops(cd, c) THEN Ended(cd, c) ELSE Joined(scatterEntry(cd, c.at), v[d])
    BY <1>1 DEF Scatters
  <2>2. CASE Stops(cd, c)
    BY <2>1, <2>2, RefusedIs DEF Ended
  <2>3. CASE ~Stops(cd, c)
    <3>1. d \in Cursors /\ Left(cd, d) < Left(cd, c)
      BY <2>3, BehindIs, LeftShrinks
    <3> HIDE DEF d
    <3>2. v[d] \in Seq(Pages)
      BY <1>3, <3>1
    <3>3. Joined(scatterEntry(cd, c.at), v[d]) \in Seq(Pages)
      BY <3>2, ScatterEntryIs, JoinedIs
    <3> QED BY <2>1, <2>3, <3>3
  <2> QED BY <2>2, <2>3
<1>4. \A c \in Cursors : c \in S
  <2> HIDE DEF S, m
  <2> QED BY <1>2, <1>3, MeasureInduction
<1>5. CASE cd.version >= 2 /\ cd.scatter > 0
  <2>1. [at |-> cd.scatter, consumed |-> 0] \in Cursors
    BY DEF Cursors, Directory, DirectoryFields
  <2> QED BY <1>4, <1>5, <2>1 DEF scatterPages, v
<1>6. CASE ~(cd.version >= 2 /\ cd.scatter > 0)
  BY <1>6, RefusedIs DEF scatterPages
<1> QED BY <1>5, <1>6

(* A string that ends at a NUL of the blob ends in the blob.               *)
LEMMA StringsEnd ==
    ASSUME NEW cd, Directory(cd), cd.length > 0, NEW at \in Nat, cstringOK(cd, at)
    PROVE  cstringAt(cd, at)[2] < cd.length
<1>1. CASE at = 0
  <2>1. cstringAt(cd, at) = <<0, 0>>
    BY <1>1 DEF cstringAt
  <2> QED BY <2>1 DEF Directory
<1>2. CASE at # 0
  <2> DEFINE T == Ends(cd, at)
             x == Min(T)
  <2>1. T # {}
    BY <1>2 DEF cstringOK
  <2>2. T \subseteq Nat
    BY DEF Ends, Directory, DirectoryFields
  <2>3. \A y \in T : y < cd.length
    BY DEF Ends
  <2>4. x = CHOOSE z \in T : \A y \in T : z <= y
    BY DEF Min
  <2>5. cstringAt(cd, at) = <<at, x>>
    BY <1>2 DEF cstringAt
  <2> HIDE DEF T, x
  <2>6. \E z \in T : \A y \in T : z <= y
    BY <2>1, <2>2, LeastNatural
  <2>7. x \in T
    BY <2>4, <2>6
  <2> QED BY <2>3, <2>5, <2>7
<1> QED BY <1>1, <1>2

(* The bytes of n things of h bytes, from b on.                            *)
SpanAt(b, h, j) == <<b + j * h, b + j * h + h>>
Spans(b, h, n) == {SpanAt(b, h, j) : j \in 0 .. n - 1}

LEMMA SpansAreApart ==
    ASSUME NEW b \in Nat, NEW h \in Nat, NEW j \in Nat, NEW k \in Nat, j < k
    PROVE  SpanAt(b, h, j)[2] <= SpanAt(b, h, k)[1]
<1>1. j * h + h <= k * h /\ j * h \in Nat /\ k * h \in Nat
  BY TimesGrows, TimesIs
<1> QED BY <1>1 DEF SpanAt

LEMMA SpansAreBound ==
    ASSUME NEW b \in Nat, NEW h \in Nat, NEW n \in Nat, NEW j \in 0 .. n - 1
    PROVE  /\ SpanAt(b, h, j)[1] >= b
           /\ SpanAt(b, h, j)[2] <= b + n * h
<1>1. j * h + h <= n * h /\ j * h \in Nat /\ n * h \in Nat
  BY TimesGrows, TimesIs
<1> QED BY <1>1 DEF SpanAt

LEMMA SpansDiffer ==
    ASSUME NEW b \in Nat, NEW h \in Nat, h > 0, NEW j \in Nat, NEW k \in Nat,
           SpanAt(b, h, j) = SpanAt(b, h, k)
    PROVE  j = k
<1>1. b + j * h = b + k * h
  BY DEF SpanAt
<1>2. j * h \in Nat /\ k * h \in Nat
  BY TimesIs
<1>3. ~(j < k)
  <2>1. j < k => j * h + h <= k * h
    BY TimesGrows
  <2> QED BY <1>1, <1>2, <2>1
<1>4. ~(k < j)
  <2>1. k < j => k * h + h <= j * h
    BY TimesGrows
  <2> QED BY <1>1, <1>2, <2>1
<1> QED BY <1>3, <1>4

LEMMA SpansAreCounted ==
    ASSUME NEW b \in Nat, NEW h \in Nat, NEW n \in Nat, n > 0 => h > 0
    PROVE  Cardinality(Spans(b, h, n)) = n
<1> DEFINE S == 0 .. n - 1
           T == Spans(b, h, n)
           w == [j \in S |-> SpanAt(b, h, j)]
<1>1. IsFiniteSet(S) /\ Cardinality(S) = n
  <2>1. IsFiniteSet(0 .. n - 1) /\ Cardinality(0 .. n - 1) = IF 0 > n - 1 THEN 0 ELSE n - 1 - 0 + 1
    BY FS_Interval
  <2> QED BY <2>1
<1>2. w \in [S -> T]
  BY DEF Spans
<1>3. \A t \in T : \E j \in S : w[j] = t
  BY DEF Spans
<1>4. ASSUME NEW j \in S, NEW k \in S, w[j] = w[k] PROVE j = k
  <2>1. j \in Nat /\ k \in Nat /\ h > 0 /\ SpanAt(b, h, j) = SpanAt(b, h, k)
    BY <1>4
  <2> QED BY <2>1, SpansDiffer
<1> HIDE DEF S, T, w
<1>5. w \in Surjection(S, T)
  BY <1>2, <1>3 DEF Surjection
<1>6. w \in Injection(S, T)
  BY <1>2, <1>4 DEF Injection, IsInjective
<1>7. Cardinality(T) = Cardinality(S) <=> w \in Injection(S, T)
  BY <1>1, <1>5, FS_Surjection
<1> QED BY <1>1, <1>6, <1>7 DEF T

(* A function over 1 .. n is a sequence of n members. *)
LEMMA LenIs ==
    ASSUME NEW w, NEW n \in Nat, w = [i \in 1 .. n |-> w[i]]
    PROVE  Len(w) = n /\ DOMAIN w = 1 .. n
<1> DEFINE S == {w[i] : i \in 1 .. n}
<1>1. w \in [1 .. n -> S]
  <2>1. \A i \in 1 .. n : w[i] \in S
    OBVIOUS
  <2> HIDE DEF S
  <2> QED BY <2>1
<1> HIDE DEF S
<1>2. w \in Seq(S)
  BY <1>1, IsASeq
<1>3. Len(w) \in Nat /\ DOMAIN w = 1 .. Len(w) /\ DOMAIN w = 1 .. n
  BY <1>1, <1>2, LenProperties
<1> QED BY <1>3

(* The hashes of a directory are the spans from the first special one on:  *)
(* the special slots count down from hashOffset, the code slots up.        *)
HashesAt(d, b, h, special, code) ==
    /\ d.hashSize = h
    /\ d.special = [k \in 1 .. special |-> d.special[k]]
    /\ \A k \in 1 .. special : d.special[k] = b + (special - k) * h
    /\ d.code = [i \in 1 .. code |-> d.code[i]]
    /\ \A i \in 1 .. code : d.code[i].hash = b + (special + i - 1) * h

LEMMA HashSpansAre ==
    ASSUME NEW d, NEW b \in Nat, NEW h \in Nat, NEW special \in Nat, NEW code \in Nat,
           HashesAt(d, b, h, special, code)
    PROVE  /\ HashSpans(d) = Spans(b, h, special + code)
           /\ Len(d.special) = special /\ DOMAIN d.special = 1 .. special
           /\ Len(d.code) = code /\ DOMAIN d.code = 1 .. code
<1>1. /\ d.special = [k \in 1 .. special |-> d.special[k]]
      /\ d.code = [i \in 1 .. code |-> d.code[i]]
      /\ d.hashSize = h
  BY DEF HashesAt
<1>2. Len(d.special) = special /\ DOMAIN d.special = 1 .. special
  BY ONLY special \in Nat, <1>1, LenIs
<1>3. Len(d.code) = code /\ DOMAIN d.code = 1 .. code
  BY ONLY code \in Nat, <1>1, LenIs
<1>4. ASSUME NEW k \in 1 .. special
      PROVE  /\ special - k \in 0 .. special + code - 1
             /\ <<d.special[k], d.special[k] + d.hashSize>> = SpanAt(b, h, special - k)
  BY <1>1 DEF HashesAt, SpanAt
<1>5. ASSUME NEW i \in 1 .. code
      PROVE  /\ special + i - 1 \in 0 .. special + code - 1
             /\ <<d.code[i].hash, d.code[i].hash + d.hashSize>> = SpanAt(b, h, special + i - 1)
  BY <1>1 DEF HashesAt, SpanAt
<1>6. ASSUME NEW t \in HashSpans(d) PROVE t \in Spans(b, h, special + code)
  <2>1. CASE \E k \in 1 .. special : t = <<d.special[k], d.special[k] + d.hashSize>>
    BY <1>4, <2>1 DEF Spans
  <2>2. CASE \E i \in 1 .. code : t = <<d.code[i].hash, d.code[i].hash + d.hashSize>>
    BY <1>5, <2>2 DEF Spans
  <2> QED BY <1>2, <1>3, <1>6, <2>1, <2>2 DEF HashSpans
<1>7. ASSUME NEW j \in 0 .. special + code - 1 PROVE SpanAt(b, h, j) \in HashSpans(d)
  <2>1. CASE j < special
    <3> DEFINE k == special - j
    <3>1. k \in 1 .. special /\ special - k = j
      BY <2>1
    <3> HIDE DEF k
    <3>2. SpanAt(b, h, j) = <<d.special[k], d.special[k] + d.hashSize>>
      BY <1>4, <3>1
    <3> QED BY <1>2, <3>1, <3>2 DEF HashSpans
  <2>2. CASE ~(j < special)
    <3> DEFINE i == j + 1 - special
    <3>1. i \in 1 .. code /\ special + i - 1 = j
      BY <2>2
    <3> HIDE DEF i
    <3>2. SpanAt(b, h, j) = <<d.code[i].hash, d.code[i].hash + d.hashSize>>
      BY <1>5, <3>1
    <3> QED BY <1>3, <3>1, <3>2 DEF HashSpans
  <2> QED BY <2>1, <2>2
<1>8. \A t \in Spans(b, h, special + code) : t \in HashSpans(d)
  BY <1>7 DEF Spans
<1>9. HashSpans(d) = Spans(b, h, special + code)
  BY <1>6, <1>8
<1> QED BY <1>2, <1>3, <1>9

(* So they lie in their blob and do not overlap.                           *)
HashesApart(d) ==
    /\ \A t \in HashSpans(d) :
          /\ t[1] >= BlobHeader /\ t[2] <= d.length
          /\ \A g \in HashSpans(d) : t = g \/ t[2] <= g[1] \/ g[2] <= t[1]
    /\ Cardinality(HashSpans(d)) = Len(d.special) + Len(d.code)

LEMMA HashesAreApart ==
    ASSUME NEW d, NEW b \in Nat, NEW h \in Nat, NEW special \in Nat, NEW code \in Nat,
           HashesAt(d, b, h, special, code), special + code > 0 => h > 0,
           d.length \in Nat, b >= BlobHeader, b + (special + code) * h <= d.length
    PROVE  HashesApart(d)
<1> DEFINE n == special + code
           H == HashSpans(d)
           L == d.length
<1>1. n \in Nat /\ L \in Nat /\ b + n * h <= L /\ (n > 0 => h > 0)
  OBVIOUS
<1>2. H = Spans(b, h, n) /\ Len(d.special) = special /\ Len(d.code) = code
  BY HashSpansAre
<1> HIDE DEF H, L
<1>3. Cardinality(H) = n
  <2> HIDE DEF n
  <2> QED BY <1>1, <1>2, SpansAreCounted
<1> HIDE DEF n
<1>4. ASSUME NEW t \in H
      PROVE  /\ t[1] >= BlobHeader /\ t[2] <= L
             /\ \A g \in H : t = g \/ t[2] <= g[1] \/ g[2] <= t[1]
  <2>1. PICK j \in 0 .. n - 1 : t = SpanAt(b, h, j)
    BY <1>2 DEF Spans
  <2>2. t[1] >= b /\ t[2] <= b + n * h /\ t[1] \in Nat /\ t[2] \in Nat
    <3>1. j * h \in Nat
      BY <1>1, TimesIs
    <3>2. t[1] >= b /\ t[2] <= b + n * h
      BY <1>1, <2>1, SpansAreBound
    <3> QED BY <2>1, <3>1, <3>2 DEF SpanAt
  <2>3. ASSUME NEW g \in H PROVE t = g \/ t[2] <= g[1] \/ g[2] <= t[1]
    <3>1. PICK k \in 0 .. n - 1 : g = SpanAt(b, h, k)
      BY <1>2 DEF Spans
    <3>2. j \in Nat /\ k \in Nat
      BY <1>1
    <3>3. CASE j < k
      BY <2>1, <3>1, <3>2, <3>3, SpansAreApart
    <3>4. CASE k < j
      BY <2>1, <3>1, <3>2, <3>4, SpansAreApart
    <3>5. CASE j = k
      BY <2>1, <3>1, <3>5
    <3> QED BY <3>2, <3>3, <3>4, <3>5
  <2>4. n * h \in Nat
    BY <1>1, TimesIs
  <2> QED BY <1>1, <2>2, <2>3, <2>4 DEF BlobHeader
<1>5. Cardinality(H) = Len(d.special) + Len(d.code)
  BY <1>2, <1>3 DEF n
<1> QED BY <1>4, <1>5 DEF HashesApart, H, L

(* Pages that follow each other cover the bytes below the limit once.      *)
PagesCover(d, size) ==
    \A b \in 0 .. d.limit + size :
        Cardinality({i \in DOMAIN d.code : d.code[i].page <= b /\ b < d.code[i].page + size})
          = (IF b \div size <= (d.limit - 1) \div size THEN 1 ELSE 0)

LEMMA PagesCoverTheLimit ==
    ASSUME NEW d, NEW size \in Nat, size > 0, NEW n \in Nat, NEW limit \in Nat, limit > 0,
           d.limit = limit, DOMAIN d.code = 1 .. n,
           \A i \in 1 .. n : d.code[i].page = (i - 1) * size,
           (limit - 1) \div size + 1 = n
    PROVE  PagesCover(d, size)
<1> SUFFICES ASSUME NEW b \in 0 .. limit + size
             PROVE  Cardinality({i \in 1 .. n : d.code[i].page <= b /\ b < d.code[i].page + size})
                      = (IF b \div size <= (limit - 1) \div size THEN 1 ELSE 0)
  BY DEF PagesCover
<1> DEFINE q == b \div size
           l == (limit - 1) \div size
           C == {i \in 1 .. n : d.code[i].page <= b /\ b < d.code[i].page + size}
<1>1. b \in Nat /\ limit - 1 \in Nat
  OBVIOUS
<1>2. q \in Nat /\ q * size <= b /\ b < q * size + size /\ l \in Nat
  BY <1>1, QuotientIs
<1>3. l + 1 = n
  OBVIOUS
<1>4. ASSUME NEW i \in C PROVE i - 1 = q
  <2> DEFINE j == i - 1
  <2>0. i \in 1 .. n /\ d.code[i].page <= b /\ b < d.code[i].page + size
    BY ONLY <1>4
  <2>1. j \in Nat /\ d.code[i].page = j * size
    BY ONLY <2>0, \A k \in 1 .. n : d.code[k].page = (k - 1) * size
  <2> HIDE DEF j, C
  <2>2. j * size <= b /\ b < j * size + size
    BY ONLY <2>0, <2>1
  <2>3. b \div size = j
    BY ONLY size \in Nat, size > 0, <1>1, <2>1, <2>2, QuotientOnly
  <2> QED BY <2>3 DEF j
<1> SUFFICES Cardinality(C) = (IF q <= l THEN 1 ELSE 0)
  OBVIOUS
<1> HIDE DEF q, l
<1>5. q + 1 \in 1 .. n => q + 1 \in C
  <2> SUFFICES ASSUME q + 1 \in 1 .. n PROVE q + 1 \in C
    OBVIOUS
  <2>1. d.code[q + 1].page = q * size
    BY <1>2
  <2> QED BY <1>2, <2>1
<1>6. \A i \in C : i \in 1 .. n /\ i = q + 1
  <2>1. ASSUME NEW i \in C PROVE i \in 1 .. n /\ i - 1 = q
    BY <1>4
  <2> QED BY <1>2, <2>1
<1> HIDE DEF C
<1>7. q \in Nat /\ l \in Nat /\ l + 1 = n
  BY <1>2, <1>3
<1>8. CASE q <= l
  <2>1. q + 1 \in 1 .. n
    BY ONLY <1>7, <1>8
  <2>2. C = {q + 1}
    BY ONLY <1>5, <1>6, <2>1
  <2>3. Cardinality(C) = 1
    BY ONLY <2>2, FS_Singleton
  <2> QED BY ONLY <1>8, <2>3
<1>9. CASE ~(q <= l)
  <2>1. q + 1 \notin 1 .. n
    BY ONLY <1>7, <1>9
  <2>2. C = {}
    BY ONLY <1>6, <2>1
  <2>3. Cardinality(C) = 0
    BY ONLY <2>2, FS_EmptySet
  <2> QED BY ONLY <1>9, <2>3
<1> QED BY <1>8, <1>9

(* What an accepted CodeDirectory keeps.                                   *)
LEMMA DirectoryFieldsAre ==
    ASSUME NEW cd, NEW slot, NEW offset
    PROVE  LET d == parseCodeDirectory(cd, slot, offset)
               pages == scatterPages(cd)
           IN  /\ d.slot = slot /\ d.offset = offset /\ d.length = cd.length
               /\ d.id = cstringAt(cd, cd.ident)
               /\ d.team = IF cd.version >= 3 THEN cstringAt(cd, cd.team) ELSE <<0, 0>>
               /\ d.limit = CodeLimit(cd) /\ d.pageBits = cd.pageBits /\ d.hashSize = cd.hashSize
               /\ d.special = [k \in 1 .. cd.nSpecial |-> cd.hashOffset - k * cd.hashSize]
               /\ d.code = [i \in 1 .. cd.nCode |-> codeSlot(cd, pages, i)]
               /\ d.scattered <=> pages # <<>>
               /\ d.pre = IF cd.version >= 6 /\ cd.pre > 0
                          THEN [i \in 1 .. cd.nCode |-> cd.pre + (i - 1) * cd.hashSize] ELSE <<>>
  BY Zenon DEF parseCodeDirectory

LEMMA CodeSlotIs ==
    ASSUME NEW cd, NEW pages, NEW i
    PROVE  /\ codeSlot(cd, pages, i).hash = cd.hashOffset + (i - 1) * cd.hashSize
           /\ pages = <<>> => codeSlot(cd, pages, i).page = (i - 1) * pageSize[cd.pageBits]
           /\ pages # <<>> => (codeSlot(cd, pages, i).mapped <=> i <= Len(pages))
<1> DEFINE size == pageSize[cd.pageBits]
           hash == cd.hashOffset + (i - 1) * cd.hashSize
           c == codeSlot(cd, pages, i)
<1>2. c = IF pages = <<>> THEN CodeSlot(hash, (i - 1) * size, 0, FALSE)
          ELSE IF i <= Len(pages) THEN CodeSlot(hash, PageAt(pages[i], size), TargetAt(pages[i], size), TRUE)
          ELSE CodeSlot(hash, 0, 0, FALSE)
  BY Zenon DEF codeSlot
<1> SUFFICES /\ c.hash = hash
             /\ pages = <<>> => c.page = (i - 1) * size
             /\ pages # <<>> => (c.mapped <=> i <= Len(pages))
  BY Zenon
<1> HIDE DEF c, hash, size
<1>3. CASE pages = <<>>
  <2>1. c = CodeSlot(hash, (i - 1) * size, 0, FALSE)
    BY Zenon, <1>2, <1>3
  <2>2. c.hash = hash /\ c.page = (i - 1) * size
    BY Zenon, <2>1 DEF CodeSlot
  <2> QED BY Zenon, <1>3, <2>2
<1>4. CASE pages # <<>> /\ i <= Len(pages)
  <2> DEFINE page == PageAt(pages[i], size)
             target == TargetAt(pages[i], size)
  <2> HIDE DEF page, target
  <2>1. c = CodeSlot(hash, page, target, TRUE)
    BY Zenon, <1>2, <1>4 DEF page, target
  <2>2. c.hash = hash /\ c.mapped = TRUE
    BY Zenon, <2>1 DEF CodeSlot
  <2> QED BY Zenon, <1>4, <2>2
<1>5. CASE pages # <<>> /\ ~(i <= Len(pages))
  <2>1. c = CodeSlot(hash, 0, 0, FALSE)
    BY Zenon, <1>2, <1>5
  <2>2. c.hash = hash /\ c.mapped = FALSE
    BY Zenon, <2>1 DEF CodeSlot
  <2> QED BY Zenon, <1>5, <2>2
<1> QED BY Zenon, <1>3, <1>4, <1>5

LEMMA AcceptedDirectoryIs ==
    ASSUME NEW cd, NEW offset, NEW length, directoryOK(cd, offset, length)
    PROVE  /\ cd.length >= 44 /\ offset + cd.length <= length
           /\ cstringOK(cd, cd.ident)
           /\ cd.version >= 3 => cstringOK(cd, cd.team)
           /\ hashSlotsOK(cd) /\ preEncryptOK(cd) /\ coversLimit(cd)
<1>1. HeaderLength(1) = 44
  BY DEF HeaderLength
<1> QED BY Zenon, <1>1 DEF directoryOK

LEMMA AcceptedHashesAre ==
    ASSUME NEW cd, Directory(cd), NEW slot, NEW offset, hashSlotsOK(cd)
    PROVE  LET d == parseCodeDirectory(cd, slot, offset)
               b == cd.hashOffset - cd.nSpecial * cd.hashSize
           IN  /\ HashesAt(d, b, cd.hashSize, cd.nSpecial, cd.nCode)
               /\ HashesApart(d)
<1> DEFINE d == parseCodeDirectory(cd, slot, offset)
           h == cd.hashSize
           s == cd.nSpecial
           n == cd.nCode
           o == cd.hashOffset
           b == o - s * h
           code == d.code
<1>1. h \in Nat /\ s \in Nat /\ n \in Nat /\ o \in Nat /\ cd.length \in Nat
  BY DEF Directory, DirectoryFields
<1>2. s * h \in Nat /\ (s + n) * h \in Nat
  BY <1>1, TimesIs
<1>3. /\ s + n > 0 => h > 0
      /\ o >= s * h /\ b >= BlobHeader /\ b <= cd.length /\ (s + n) * h <= cd.length - b
  BY DEF hashSlotsOK, interiorSpan, span
<1>4. /\ d.length = cd.length /\ d.hashSize = h
      /\ d.special = [k \in 1 .. s |-> o - k * h]
      /\ d.code = [i \in 1 .. n |-> codeSlot(cd, scatterPages(cd), i)]
  BY Zenon DEF parseCodeDirectory
<1>5. \A i \in 1 .. n : d.code[i].hash = o + (i - 1) * h
  <2>1. ASSUME NEW i \in 1 .. n PROVE d.code[i].hash = o + (i - 1) * h
    <3>1. d.code[i] = codeSlot(cd, scatterPages(cd), i)
      BY Zenon, <1>4, <2>1
    <3> QED BY Zenon, <3>1, CodeSlotIs
  <2> QED BY <2>1
<1>6. d.code = [i \in 1 .. n |-> d.code[i]]
  BY Zenon, <1>4
<1> DEFINE t == s * h
<1>7. b = o - t /\ b + t = o /\ b \in Nat /\ b + (s + n) * h <= cd.length
  BY <1>1, <1>2, <1>3
<1> HIDE DEF d, h, s, n, o, b
<1>8. \A k \in 1 .. s : o - k * h = b + (s - k) * h
  <2>1. ASSUME NEW k \in 1 .. s PROVE o - k * h = b + (s - k) * h
    <3>1. (s - k) * h = t - k * h
      BY ONLY <1>1, <2>1
    <3>2. k * h \in Nat
      BY ONLY <1>1, <2>1, TimesIs
    <3> QED BY ONLY <1>1, <1>2, <1>7, <3>1, <3>2
  <2> QED BY <2>1
<1>9. \A i \in 1 .. n : o + (i - 1) * h = b + (s + i - 1) * h
  <2>1. ASSUME NEW i \in 1 .. n PROVE o + (i - 1) * h = b + (s + i - 1) * h
    <3>1. (s + i - 1) * h = t + (i - 1) * h
      BY ONLY <1>1, <2>1
    <3>2. i - 1 \in Nat
      BY ONLY <1>1, <2>1
    <3>3. (i - 1) * h \in Nat
      BY ONLY <1>1, <3>2, TimesIs
    <3> QED BY ONLY <1>1, <1>2, <1>7, <3>1, <3>3
  <2> QED BY <2>1
<1>10. d.special = [k \in 1 .. s |-> d.special[k]] /\ \A k \in 1 .. s : d.special[k] = b + (s - k) * h
  BY ONLY <1>4, <1>8
<1>11. HashesAt(d, b, h, s, n)
  BY Zenon, <1>4, <1>5, <1>6, <1>9, <1>10 DEF HashesAt
<1>12. HashesApart(d)
  BY ONLY <1>1, <1>3, <1>4, <1>7, <1>11, HashesAreApart
<1> QED BY <1>11, <1>12 DEF d, h, s, n, o, b

LEMMA PreEncryptHashesLie ==
    ASSUME NEW cd, Directory(cd), NEW slot, NEW offset, preEncryptOK(cd)
    PROVE  LET d == parseCodeDirectory(cd, slot, offset)
           IN  \A k \in DOMAIN d.pre : d.pre[k] >= BlobHeader /\ d.pre[k] + d.hashSize <= d.length
<1> DEFINE d == parseCodeDirectory(cd, slot, offset)
           h == cd.hashSize
           n == cd.nCode
           Used == cd.version >= 6 /\ cd.pre > 0
<1>1. h \in Nat /\ n \in Nat /\ cd.pre \in Nat /\ cd.length \in Nat
  BY DEF Directory, DirectoryFields
<1>2. /\ d.length = cd.length /\ d.hashSize = h
      /\ d.pre = IF Used THEN [i \in 1 .. n |-> cd.pre + (i - 1) * h] ELSE <<>>
  BY Zenon DEF parseCodeDirectory
<1>3. CASE Used
  <2>1. cd.pre >= BlobHeader /\ cd.pre <= cd.length /\ n * h <= cd.length - cd.pre
    BY <1>3 DEF preEncryptOK, interiorSpan, span
  <2>2. d.pre = [i \in 1 .. n |-> cd.pre + (i - 1) * h]
    BY <1>2, <1>3
  <2> HIDE DEF d, h, n
  <2>3. ASSUME NEW k \in 1 .. n PROVE d.pre[k] >= BlobHeader /\ d.pre[k] + d.hashSize <= d.length
    <3>1. k - 1 \in Nat /\ k - 1 < n
      BY <1>1
    <3>2. (k - 1) * h + h <= n * h /\ (k - 1) * h \in Nat /\ n * h \in Nat
      BY ONLY <1>1, <3>1, TimesGrows, TimesIs
    <3>3. d.pre[k] = cd.pre + (k - 1) * h
      BY ONLY <2>2, <2>3
    <3> DEFINE a == (k - 1) * h
               z == n * h
    <3>4. a \in Nat /\ z \in Nat /\ a + h <= z /\ d.pre[k] = cd.pre + a
      BY <3>2, <3>3
    <3>5. z <= cd.length - cd.pre /\ d.length = cd.length /\ d.hashSize = h
      BY <1>2, <2>1
    <3> HIDE DEF a, z
    <3> QED BY ONLY <1>1, <2>1, <3>4, <3>5 DEF BlobHeader
  <2>4. DOMAIN d.pre = 1 .. n
    BY ONLY <2>2
  <2> QED BY <2>3, <2>4 DEF d
<1>4. CASE ~Used
  <2>1. d.pre = <<>>
    BY <1>2, <1>4
  <2> HIDE DEF d
  <2>2. DOMAIN d.pre = {}
    BY ONLY <2>1
  <2> QED BY <2>2 DEF d
<1> QED BY <1>3, <1>4

LEMMA DirectoryStringsEnd ==
    ASSUME NEW cd, Directory(cd), NEW slot, NEW offset, cd.length > 0, cstringOK(cd, cd.ident),
           cd.version >= 3 => cstringOK(cd, cd.team)
    PROVE  LET d == parseCodeDirectory(cd, slot, offset)
           IN  \A t \in {d.id, d.team} : t[2] < d.length
<1> DEFINE d == parseCodeDirectory(cd, slot, offset)
<1>1. cd.ident \in Nat /\ cd.team \in Nat /\ cd.length \in Nat
  BY DEF Directory, DirectoryFields
<1>2. /\ d.length = cd.length /\ d.id = cstringAt(cd, cd.ident)
      /\ d.team = IF cd.version >= 3 THEN cstringAt(cd, cd.team) ELSE <<0, 0>>
  BY Zenon DEF parseCodeDirectory
<1> HIDE DEF d
<1>3. d.id[2] < d.length
  BY <1>1, <1>2, StringsEnd
<1>4. CASE cd.version >= 3
  <2>1. d.team = cstringAt(cd, cd.team) /\ cstringOK(cd, cd.team)
    BY <1>2, <1>4
  <2>2. d.team[2] < d.length
    BY <1>1, <1>2, <2>1, StringsEnd
  <2> QED BY <1>3, <2>2 DEF d
<1>5. CASE ~(cd.version >= 3)
  <2>1. d.team = <<0, 0>>
    BY <1>2, <1>5
  <2>2. d.team[2] < d.length
    BY <1>1, <1>2, <2>1
  <2> QED BY <1>3, <2>2 DEF d
<1> QED BY <1>4, <1>5

LEMMA CodeSlotsCover ==
    ASSUME NEW cd, Directory(cd), NEW slot, NEW offset, coversLimit(cd)
    PROVE  LET d == parseCodeDirectory(cd, slot, offset)
           IN  ~d.scattered /\ d.pageBits > 0 => PagesCover(d, pageSize[d.pageBits])
<1> DEFINE d == parseCodeDirectory(cd, slot, offset)
           pages == scatterPages(cd)
           n == cd.nCode
           limit == CodeLimit(cd)
           bits == cd.pageBits
           size == pageSize[bits]
<1>1. n \in Nat /\ limit \in Nat /\ bits \in Nat
  BY DEF Directory, DirectoryFields, CodeLimit
<1>2. size \in Nat /\ size > 0
  BY <1>1, PageSizeIs
<1>3. /\ d.pageBits = bits /\ d.limit = limit
      /\ d.scattered <=> pages # <<>>
      /\ d.code = [i \in 1 .. n |-> codeSlot(cd, pages, i)]
  BY Zenon DEF parseCodeDirectory
<1>4. coversLimit(cd) <=> IF bits = 0 THEN (limit > 0) = (n # 0)
                          ELSE limit > 0 /\ (limit - 1) \div size + 1 = n
  BY Zenon DEF coversLimit
<1> SUFFICES ASSUME ~d.scattered, bits > 0 PROVE PagesCover(d, size)
  BY Zenon, <1>3
<1>5. pages = <<>>
  BY Zenon, <1>3
<1>6. \A i \in 1 .. n : d.code[i].page = (i - 1) * size
  <2>1. ASSUME NEW i \in 1 .. n PROVE d.code[i].page = (i - 1) * size
    <3>1. d.code[i] = codeSlot(cd, pages, i)
      BY Zenon, <1>3, <2>1
    <3> QED BY Zenon, <1>5, <3>1, CodeSlotIs
  <2> QED BY <2>1
<1>7. DOMAIN d.code = 1 .. n
  BY Zenon, <1>3
<1> HIDE DEF d, pages, n, limit, size, bits
<1>8. bits # 0
  BY <1>1
<1>9. limit > 0 /\ (limit - 1) \div size + 1 = n
  BY Zenon, <1>4, <1>8
<1> QED BY ONLY <1>1, <1>2, <1>3, <1>6, <1>7, <1>9, PagesCoverTheLimit

LEMMA MappedSlotsComeFirst ==
    ASSUME NEW cd, Directory(cd), NEW slot, NEW offset
    PROVE  LET d == parseCodeDirectory(cd, slot, offset)
           IN  d.scattered => \A i, j \in DOMAIN d.code : i < j /\ d.code[j].mapped => d.code[i].mapped
<1> DEFINE d == parseCodeDirectory(cd, slot, offset)
           pages == scatterPages(cd)
           n == cd.nCode
<1>1. n \in Nat
  BY DEF Directory, DirectoryFields
<1>2. /\ d.scattered <=> pages # <<>>
      /\ d.code = [i \in 1 .. n |-> codeSlot(cd, pages, i)]
  BY Zenon DEF parseCodeDirectory
<1>3. Len(pages) \in Nat
  BY ScatterPagesAre, LenProperties
<1> SUFFICES ASSUME d.scattered, NEW i \in 1 .. n, NEW j \in 1 .. n, i < j, d.code[j].mapped
             PROVE  d.code[i].mapped
  BY Zenon, <1>2
<1>4. pages # <<>>
  BY Zenon, <1>2
<1>5. d.code[i] = codeSlot(cd, pages, i) /\ d.code[j] = codeSlot(cd, pages, j)
  BY Zenon, <1>2
<1>6. j <= Len(pages)
  BY Zenon, <1>4, <1>5, CodeSlotIs
<1>7. i <= Len(pages)
  <2> DEFINE l == Len(pages)
  <2>1. l \in Nat /\ j <= l
    BY <1>3, <1>6
  <2> HIDE DEF l, n
  <2>2. i <= l
    BY ONLY <1>1, <2>1, i \in 1 .. n, j \in 1 .. n, i < j
  <2> QED BY <2>2 DEF l
<1> QED BY Zenon, <1>4, <1>5, <1>7, CodeSlotIs

LEMMA AcceptedDirectoriesAreSound ==
    ASSUME NEW cd, Directory(cd), NEW slot, NEW offset, directoryOK(cd, offset, read.length)
    PROVE  DirectoryIsSound(parseCodeDirectory(cd, slot, offset))
<1> DEFINE d == parseCodeDirectory(cd, slot, offset)
<1>1. /\ cd.length >= 44 /\ offset + cd.length <= read.length
      /\ cstringOK(cd, cd.ident)
      /\ cd.version >= 3 => cstringOK(cd, cd.team)
      /\ hashSlotsOK(cd) /\ preEncryptOK(cd) /\ coversLimit(cd)
  BY Zenon, AcceptedDirectoryIs
<1>2. cd.length > 0
  BY <1>1 DEF Directory
<1>3. d.offset + d.length <= read.length
  BY Zenon, <1>1 DEF parseCodeDirectory
<1>4. HashesApart(d)
  BY Zenon, <1>1, AcceptedHashesAre
<1>5. \A k \in DOMAIN d.pre : d.pre[k] >= BlobHeader /\ d.pre[k] + d.hashSize <= d.length
  BY Zenon, <1>1, PreEncryptHashesLie
<1>6. \A t \in {d.id, d.team} : t[2] < d.length
  BY Zenon, <1>1, <1>2, DirectoryStringsEnd
<1>7. ~d.scattered /\ d.pageBits > 0 => PagesCover(d, pageSize[d.pageBits])
  BY Zenon, <1>1, CodeSlotsCover
<1>8. d.scattered => \A i, j \in DOMAIN d.code : i < j /\ d.code[j].mapped => d.code[i].mapped
  BY Zenon, MappedSlotsComeFirst
<1> HIDE DEF d
<1>9. DirectoryIsSound(d)
  BY Zenon, <1>3, <1>4, <1>5, <1>6, <1>7, <1>8 DEF DirectoryIsSound, HashesApart, PagesCover
<1> QED BY <1>9 DEF d

-----------------------------------------------------------------------------
(* The directories of a signature are found entry by entry.                *)
Added(s, taken, n, more) ==
    IF n \notin taken THEN more
    ELSE IF s.index[n].type = CodeDirectorySlot THEN <<directory(s, n)>> \o more
    ELSE IF s.index[n].type \in Alternates THEN Append(more, directory(s, n))
    ELSE more

Finds(s, taken, w) ==
    \A n \in 0 .. Len(s.index) : w[n] = IF n = 0 THEN <<>> ELSE Added(s, taken, n, w[n - 1])

Found(s, n) == {directory(s, i) : i \in 1 .. n}

LEMMA EntriesAre ==
    ASSUME NEW s, IsSignature(s)
    PROVE  /\ Len(s.index) \in Nat /\ DOMAIN s.index = 1 .. Len(s.index)
           /\ \A i \in 1 .. Len(s.index) : s.index[i].type \in Nat /\ s.index[i].offset \in Nat
<1>1. s.index \in Seq([type: Nat, offset: Nat])
  BY DEF IsSignature
<1>2. Len(s.index) \in Nat /\ DOMAIN s.index = 1 .. Len(s.index)
  BY <1>1, LenProperties
<1>3. \A i \in 1 .. Len(s.index) : s.index[i] \in [type: Nat, offset: Nat]
  BY <1>1, ElementOfSeq
<1> QED BY <1>2, <1>3

LEMMA AddedIs ==
    ASSUME NEW s, NEW N \in Nat, NEW taken, taken \subseteq 1 .. N, NEW n \in 0 .. N,
           NEW more \in Seq(Found(s, N))
    PROVE  Added(s, taken, n, more) \in Seq(Found(s, N))
<1> DEFINE D == Found(s, N)
           d == directory(s, n)
<1>1. CASE n \in taken
  <2>1. d \in D
    BY <1>1 DEF Found
  <2> HIDE DEF D, d
  <2>2. <<d>> \in Seq(D)
    BY <2>1
  <2>3. <<d>> \o more \in Seq(D) /\ Append(more, d) \in Seq(D)
    BY <2>1, <2>2, ConcatProperties, AppendProperties DEF D
  <2> QED BY <2>3 DEF Added, D, d
<1>2. CASE n \notin taken
  BY <1>2 DEF Added
<1> QED BY <1>1, <1>2

LEMMA FindingExists ==
    ASSUME NEW s, Len(s.index) \in Nat, NEW taken, taken \subseteq 1 .. Len(s.index)
    PROVE  \E w : w = [n \in 0 .. Len(s.index) |-> w[n]] /\ Finds(s, taken, w)
<1> DEFINE N == Len(s.index)
           V == Seq(Found(s, N))
           a == <<>>
           step == [x \in (0 .. N) \X V |-> Added(s, taken, x[1], x[2])]
           C(w) == Carries(w, N, a, step)
<1>1. N \in Nat /\ taken \subseteq 1 .. N
  OBVIOUS
<1> HIDE DEF N
<1>2. a \in V
  BY EmptySeq
<1>3. step \in [(0 .. N) \X V -> V]
  <2>1. ASSUME NEW x \in (0 .. N) \X V PROVE Added(s, taken, x[1], x[2]) \in V
    BY <1>1, AddedIs
  <2> QED BY <2>1
<1>4. \E w \in [0 .. N -> V] : C(w)
  <2> HIDE DEF V, a, step
  <2> QED BY <1>1, <1>2, <1>3, FoldExists
<1>5. PICK w \in [0 .. N -> V] : C(w)
  BY <1>4
<1>6. ASSUME NEW n \in 0 .. N PROVE w[n] = IF n = 0 THEN <<>> ELSE Added(s, taken, n, w[n - 1])
  <2>1. w[n] = IF n = 0 THEN a ELSE step[<<n, w[n - 1]>>]
    BY <1>5 DEF Carries
  <2>2. ASSUME n # 0 PROVE step[<<n, w[n - 1]>>] = Added(s, taken, n, w[n - 1])
    <3>1. n - 1 \in 0 .. N
      BY <1>1, <2>2
    <3> DEFINE v == w[n - 1]
    <3>2. v \in V
      BY <3>1
    <3> HIDE DEF v
    <3>3. step[<<n, v>>] = Added(s, taken, n, v)
      BY <3>2
    <3> QED BY <3>3 DEF v
  <2> HIDE DEF step
  <2> QED BY <2>1, <2>2
<1>7. w = [n \in 0 .. N |-> w[n]]
  OBVIOUS
<1> QED BY <1>6, <1>7 DEF Finds, N

LEMMA DirectoriesAreFound ==
    ASSUME NEW s, Len(s.index) \in Nat, NEW taken, taken \subseteq 1 .. Len(s.index)
    PROVE  \E w : Finds(s, taken, w) /\ directories(s, taken) = w[Len(s.index)]
<1> DEFINE N == Len(s.index)
           Body(w, n) == IF n = 0 THEN <<>>
                         ELSE IF n \notin taken THEN w[n - 1]
                         ELSE IF s.index[n].type = CodeDirectorySlot THEN <<directory(s, n)>> \o w[n - 1]
                         ELSE IF s.index[n].type \in Alternates THEN Append(w[n - 1], directory(s, n))
                         ELSE w[n - 1]
           Is(w) == w = [n \in 0 .. N |-> Body(w, n)]
           found == CHOOSE w : Is(w)
<1>1. ASSUME NEW w, NEW n
      PROVE  Body(w, n) = IF n = 0 THEN <<>> ELSE Added(s, taken, n, w[n - 1])
  BY Zenon DEF Added
<1>2. directories(s, taken) = found[N]
  BY DEF directories
<1> HIDE DEF Body
<1>3. PICK w : w = [n \in 0 .. N |-> w[n]] /\ Finds(s, taken, w)
  BY FindingExists
<1>4. Is(w)
  <2>1. ASSUME NEW n \in 0 .. N PROVE w[n] = Body(w, n)
    BY <1>1, <1>3 DEF Finds
  <2> QED BY <1>3, <2>1
<1>5. Is(found)
  <2> HIDE DEF Is
  <2> QED BY <1>4
<1> HIDE DEF found
<1>6. \A n \in 0 .. N : found[n] = Body(found, n)
  <2>1. found = [n \in 0 .. N |-> Body(found, n)]
    BY <1>5
  <2> HIDE DEF N
  <2> QED BY ONLY <2>1
<1>7. Finds(s, taken, found)
  BY <1>1, <1>6 DEF Finds
<1> QED BY <1>2, <1>7

(* The k-th directory that is found is that of an entry in use, and the    *)
(* primary one is the first.                                               *)
Names(s, n, k, d) ==
    \E i \in used(s) : /\ i <= n /\ d = directory(s, i)
                       /\ s.index[i].type \in {CodeDirectorySlot} \cup Alternates
                       /\ s.index[i].type = CodeDirectorySlot => k = 1

LEMMA UsedAre ==
    ASSUME NEW s, IsSignature(s)
    PROVE  /\ used(s) \subseteq 1 .. Len(s.index)
           /\ \A i \in used(s) : s.index[i].offset # 0
           /\ \A i \in used(s) : \A j \in 1 .. i - 1 : s.index[j].type # s.index[i].type
  BY EntriesAre DEF used, firstEntries

LEMMA PrependedNames ==
    ASSUME NEW s, IsSignature(s), NEW n \in used(s), s.index[n].type = CodeDirectorySlot,
           NEW D, NEW more \in Seq(D), directory(s, n) \in D,
           \A k \in 1 .. Len(more) : Names(s, n - 1, k, more[k])
    PROVE  LET v == <<directory(s, n)>> \o more
           IN  \A k \in 1 .. Len(v) : Names(s, n, k, v[k])
<1> DEFINE d == directory(s, n)
           v == <<d>> \o more
           l == Len(more)
<1>1. n \in Nat /\ used(s) \subseteq Nat
  BY UsedAre, EntriesAre
<1>2. l \in Nat
  BY LenProperties
<1>3. <<d>> \in Seq(D) /\ Len(<<d>>) = 1 /\ <<d>>[1] = d
  <2> HIDE DEF d
  <2> QED BY DEF d
<1>4. Len(v) = 1 + l /\ \A k \in 1 .. 1 + l : v[k] = IF k <= 1 THEN <<d>>[k] ELSE more[k - 1]
  <2> HIDE DEF d
  <2> QED BY <1>3, ConcatProperties
<1> HIDE DEF v, l
<1>5. Names(s, n, 1, d)
  BY <1>1 DEF Names
<1>6. ASSUME NEW k \in 2 .. 1 + l PROVE Names(s, n, k, more[k - 1])
  <2>1. k - 1 \in 1 .. l
    BY <1>2
  <2>2. PICK i \in used(s) : /\ i <= n - 1 /\ more[k - 1] = directory(s, i)
                             /\ s.index[i].type \in {CodeDirectorySlot} \cup Alternates
    BY <2>1 DEF Names, l
  <2>3. i \in 1 .. n - 1
    BY <1>1, <2>2, UsedAre, EntriesAre
  <2>4. s.index[i].type # CodeDirectorySlot
    BY <2>3, UsedAre
  <2>5. i <= n
    BY <1>1, <2>3
  <2> QED BY Zenon, <2>2, <2>4, <2>5 DEF Names
<1> HIDE DEF d
<1>7. ASSUME NEW k \in 1 .. 1 + l PROVE Names(s, n, k, v[k])
  <2>1. CASE k = 1
    <3>1. v[k] = d
      BY <1>2, <1>3, <1>4, <2>1
    <3> QED BY <1>5, <2>1, <3>1
  <2>2. CASE k # 1
    <3>1. k \in 2 .. 1 + l /\ v[k] = more[k - 1]
      BY <1>2, <1>4, <2>2
    <3> QED BY <1>6, <3>1
  <2> QED BY <2>1, <2>2
<1> QED BY <1>4, <1>7 DEF v, d

LEMMA AppendedNames ==
    ASSUME NEW s, IsSignature(s), NEW n \in used(s), s.index[n].type \in Alternates,
           NEW D, NEW more \in Seq(D), directory(s, n) \in D,
           \A k \in 1 .. Len(more) : Names(s, n - 1, k, more[k])
    PROVE  LET v == Append(more, directory(s, n))
           IN  \A k \in 1 .. Len(v) : Names(s, n, k, v[k])
<1> DEFINE d == directory(s, n)
           v == Append(more, d)
           l == Len(more)
<1>1. n \in Nat /\ used(s) \subseteq Nat
  BY UsedAre, EntriesAre
<1>2. l \in Nat
  BY LenProperties
<1>3. Len(v) = l + 1 /\ (\A k \in 1 .. l : v[k] = more[k]) /\ v[l + 1] = d
  <2> HIDE DEF d
  <2> QED BY AppendProperties DEF d
<1> HIDE DEF v, l
<1>4. ASSUME NEW k PROVE Names(s, n, k, d)
  <2>1. s.index[n].type # CodeDirectorySlot
    BY DEF Alternates, CodeDirectorySlot
  <2> QED BY <1>1, <2>1 DEF Names
<1>5. ASSUME NEW k \in 1 .. l PROVE Names(s, n, k, more[k])
  <2>1. PICK i \in used(s) : /\ i <= n - 1 /\ more[k] = directory(s, i)
                             /\ s.index[i].type \in {CodeDirectorySlot} \cup Alternates
                             /\ s.index[i].type = CodeDirectorySlot => k = 1
    BY DEF Names, l
  <2>2. i <= n
    BY <1>1, <2>1
  <2> QED BY Zenon, <2>1, <2>2 DEF Names
<1> HIDE DEF d
<1>6. ASSUME NEW k \in 1 .. l + 1 PROVE Names(s, n, k, v[k])
  <2>1. CASE k = l + 1
    BY <1>3, <1>4, <2>1
  <2>2. CASE k # l + 1
    <3>1. k \in 1 .. l
      BY <1>2, <2>2
    <3> QED BY <1>3, <1>5, <3>1
  <2> QED BY <2>1, <2>2
<1> QED BY <1>3, <1>6 DEF v, d

LEMMA KeptNames ==
    ASSUME NEW s, IsSignature(s), NEW n \in Nat, NEW v, \A k \in 1 .. Len(v) : Names(s, n - 1, k, v[k])
    PROVE  \A k \in 1 .. Len(v) : Names(s, n, k, v[k])
<1>1. ASSUME NEW k \in 1 .. Len(v) PROVE Names(s, n, k, v[k])
  <2>1. PICK i \in used(s) : /\ i <= n - 1 /\ v[k] = directory(s, i)
                             /\ s.index[i].type \in {CodeDirectorySlot} \cup Alternates
                             /\ s.index[i].type = CodeDirectorySlot => k = 1
    BY DEF Names
  <2>2. i <= n
    BY <2>1, UsedAre, EntriesAre
  <2> QED BY Zenon, <2>1, <2>2 DEF Names
<1> QED BY <1>1

LEMMA DirectoriesAreNamed ==
    ASSUME NEW s, IsSignature(s)
    PROVE  LET v == directories(s, used(s))
           IN  /\ DOMAIN v = 1 .. Len(v)
               /\ \A k \in 1 .. Len(v) : Names(s, Len(s.index), k, v[k])
<1> DEFINE N == Len(s.index)
           D == Found(s, N)
           Good(n, v) == v \in Seq(D) /\ \A k \in 1 .. Len(v) : Names(s, n, k, v[k])
<1>1. N \in Nat /\ used(s) \subseteq 1 .. N
  BY EntriesAre, UsedAre
<1>2. PICK w : Finds(s, used(s), w) /\ directories(s, used(s)) = w[N]
  BY <1>1, DirectoriesAreFound
<1>3. \A n \in 0 .. N : w[n] = IF n = 0 THEN <<>> ELSE Added(s, used(s), n, w[n - 1])
  BY <1>2 DEF Finds
<1> DEFINE S == {n \in 0 .. N : Good(n, w[n])}
<1>4. 0 \in S
  <2>1. w[0] = <<>>
    BY <1>1, <1>3
  <2>2. <<>> \in Seq(D) /\ Len(<<>>) = 0
    BY EmptySeq
  <2>3. Good(0, <<>>)
    BY <2>2
  <2> HIDE DEF Good
  <2> QED BY <1>1, <2>1, <2>3
<1>5. ASSUME NEW n \in 1 .. N, n - 1 \in S PROVE n \in S
  <2> DEFINE more == w[n - 1]
  <2>1. n \in 0 .. N /\ n # 0 /\ n \in Nat
    BY <1>1
  <2>2. w[n] = Added(s, used(s), n, more)
    BY <1>3, <2>1
  <2>3. Good(n - 1, more)
    BY <1>5
  <2> HIDE DEF more, N
  <2>4. Added(s, used(s), n, more) \in Seq(D)
    BY <1>1, <2>1, <2>3, AddedIs
  <2>5. directory(s, n) \in D
    BY DEF Found
  <2> DEFINE R(v) == \A k \in 1 .. Len(v) : Names(s, n, k, v[k])
  <2>6. ASSUME n \in used(s) /\ s.index[n].type = CodeDirectorySlot
       PROVE  R(Added(s, used(s), n, more))
    <3>1. Added(s, used(s), n, more) = <<directory(s, n)>> \o more
      BY <2>6 DEF Added
    <3>2. R(<<directory(s, n)>> \o more)
      <4> HIDE DEF D
      <4> QED BY <2>3, <2>5, <2>6, PrependedNames
    <3> HIDE DEF R
    <3> QED BY <3>1, <3>2
  <2>7. ASSUME n \in used(s) /\ s.index[n].type # CodeDirectorySlot /\ s.index[n].type \in Alternates
       PROVE  R(Added(s, used(s), n, more))
    <3>1. Added(s, used(s), n, more) = Append(more, directory(s, n))
      BY <2>7 DEF Added
    <3>2. R(Append(more, directory(s, n)))
      <4> HIDE DEF D
      <4> QED BY <2>3, <2>5, <2>7, AppendedNames
    <3> HIDE DEF R
    <3> QED BY <3>1, <3>2
  <2>8. ASSUME ~(n \in used(s) /\ s.index[n].type \in {CodeDirectorySlot} \cup Alternates)
       PROVE  R(Added(s, used(s), n, more))
    <3>1. Added(s, used(s), n, more) = more
      BY <2>8 DEF Added
    <3>2. R(more)
      BY <2>1, <2>3, KeptNames
    <3> HIDE DEF R
    <3> QED BY <3>1, <3>2
  <2>9. R(Added(s, used(s), n, more))
    <3> HIDE DEF R
    <3> QED BY <2>6, <2>7, <2>8
  <2>10. Good(n, w[n])
    BY <2>2, <2>4, <2>9
  <2> HIDE DEF Good
  <2> QED BY <2>1, <2>10
<1>6. \A n \in 0 .. N : n \in S
  <2> HIDE DEF S, N
  <2> QED BY <1>1, <1>4, <1>5, CountInduction
<1>7. Good(N, w[N])
  <2> HIDE DEF Good
  <2> QED BY <1>1, <1>6
<1>8. DOMAIN w[N] = 1 .. Len(w[N])
  <2> HIDE DEF D
  <2> QED BY <1>7, LenProperties
<1> QED BY <1>2, <1>7, <1>8

-----------------------------------------------------------------------------
(* What is taken from an accepted signature.                               *)
Types(s, taken) == {s.index[i].type : i \in taken}
First(s, taken, t) == CHOOSE i \in taken : s.index[i].type = t
Parts(s, taken) == [t \in Types(s, taken) \cap PayloadSlots |-> s.index[First(s, taken, t)].offset]
RequirementsAt(s, taken) ==
    IF RequirementsSlot \in Types(s, taken) THEN s.index[First(s, taken, RequirementsSlot)].offset ELSE 0

LEMMA ContentsAre ==
    ASSUME NEW s, NEW taken
    PROVE  contents(s, taken) = [ok |-> TRUE, directories |-> directories(s, taken),
                                 parts |-> Parts(s, taken), requirements |-> RequirementsAt(s, taken)]
  BY Zenon DEF contents, Parts, RequirementsAt, Types, First

LEMMA ContentFieldsAre ==
    ASSUME NEW s, NEW taken
    PROVE  /\ contents(s, taken).ok
           /\ contents(s, taken).directories = directories(s, taken)
           /\ contents(s, taken).parts = Parts(s, taken)
  BY Zenon, ContentsAre

LEMMA FirstIs ==
    ASSUME NEW s, NEW taken, NEW t \in Types(s, taken)
    PROVE  First(s, taken, t) \in taken /\ s.index[First(s, taken, t)].type = t
<1>1. \E i \in taken : s.index[i].type = t
  BY DEF Types
<1> QED BY <1>1 DEF First

LEMMA MagicIsNotOther ==
    ASSUME NEW t \in PayloadSlots
    PROVE  MagicOf(t) # "other"
<1>1. CASE t = EntitlementsSlot
  BY <1>1 DEF MagicOf, EntitlementsSlot, CodeDirectorySlot, Alternates, DERSlot, ConstraintSlots,
              RawSlots, CMSSlot
<1>2. CASE t = DERSlot
  BY <1>2 DEF MagicOf, EntitlementsSlot, CodeDirectorySlot, Alternates, DERSlot, ConstraintSlots,
              RawSlots, CMSSlot
<1>3. CASE t \in ConstraintSlots
  BY <1>3 DEF MagicOf, EntitlementsSlot, CodeDirectorySlot, Alternates, DERSlot, ConstraintSlots,
              RawSlots, CMSSlot
<1>4. CASE t \in RawSlots \cup {CMSSlot}
  BY <1>4 DEF MagicOf, EntitlementsSlot, CodeDirectorySlot, Alternates, DERSlot, ConstraintSlots,
              RawSlots, CMSSlot
<1> QED BY <1>1, <1>2, <1>3, <1>4 DEF PayloadSlots, NativeSlots

LEMMA BlobIsThere ==
    ASSUME NEW s, NEW offset, BlobAt(s, offset).magic # "other"
    PROVE  offset \in DOMAIN s.blobs /\ BlobAt(s, offset) = s.blobs[offset]
  BY DEF BlobAt, NoBlob

LEMMA AcceptedIs ==
    ASSUME NEW s, Accepted(s)
    PROVE  /\ superBlobOK(s) /\ indexOK(s)
           /\ \A i \in used(s) : entryOK(s, s.index[i])
  BY Zenon DEF Accepted

LEMMA DirectoryBlobsAreDirectories ==
    ASSUME NEW s, IsSignature(s), NEW offset, NEW length, directoryOK(BlobAt(s, offset), offset, length)
    PROVE  Directory(BlobAt(s, offset))
<1> DEFINE cd == BlobAt(s, offset)
<1>1. cd.magic = "codedirectory"
  BY Zenon DEF directoryOK
<1>2. offset \in DOMAIN s.blobs /\ cd = s.blobs[offset]
  BY <1>1, BlobIsThere
<1> QED BY <1>1, <1>2 DEF IsSignature, Directory

LEMMA FoundDirectoriesAreSound ==
    ASSUME NEW s, IsSignature(s), Accepted(s), s.length = read.length, NEW i \in used(s),
           s.index[i].type \in {CodeDirectorySlot} \cup Alternates
    PROVE  DirectoryIsSound(directory(s, i)) /\ directory(s, i).slot = s.index[i].type
<1> DEFINE o == s.index[i].offset
           t == s.index[i].type
           cd == BlobAt(s, o)
<1>1. entryOK(s, s.index[i])
  BY Zenon, AcceptedIs
<1>2. directoryOK(cd, o, s.length)
  BY Zenon, <1>1 DEF entryOK
<1>3. Directory(cd)
  BY Zenon, <1>2, DirectoryBlobsAreDirectories
<1>4. directory(s, i) = parseCodeDirectory(cd, t, o)
  BY Zenon DEF directory
<1>5. DirectoryIsSound(parseCodeDirectory(cd, t, o))
  <2> HIDE DEF cd, o, t
  <2>1. directoryOK(cd, o, read.length)
    BY Zenon, <1>2
  <2> QED BY Zenon, <1>3, <2>1, AcceptedDirectoriesAreSound
<1>6. parseCodeDirectory(cd, t, o).slot = t
  BY Zenon DEF parseCodeDirectory
<1> QED BY Zenon, <1>4, <1>5, <1>6

LEMMA PartsLieBehindTheIndex ==
    ASSUME NEW s, IsSignature(s), Accepted(s), NEW t \in DOMAIN Parts(s, used(s))
    PROVE  LET at == Parts(s, used(s))[t]
           IN  at >= IndexEnd(s) /\ at + s.blobs[at].length <= s.length
<1> DEFINE c == First(s, used(s), t)
           o == s.index[c].offset
           at == Parts(s, used(s))[t]
<1>1. t \in Types(s, used(s)) /\ t \in PayloadSlots /\ at = o
  BY DEF Parts
<1>2. c \in used(s) /\ s.index[c].type = t
  BY <1>1, FirstIs
<1> HIDE DEF c, at
<1>3. c \in DOMAIN s.index /\ o # 0
  BY <1>2, EntriesAre, UsedAre
<1>4. entryOK(s, s.index[c]) /\ indexOK(s)
  BY Zenon, <1>2, AcceptedIs
<1>5. BlobAt(s, o).magic = MagicOf(t)
  BY Zenon, <1>1, <1>2, <1>4 DEF entryOK
<1>6. BlobAt(s, o) = s.blobs[o]
  BY <1>1, <1>5, MagicIsNotOther, BlobIsThere
<1>7. o >= IndexEnd(s) /\ o + BlobAt(s, o).length <= s.length
  BY Zenon, <1>3, <1>4 DEF indexOK
<1> QED BY Zenon, <1>1, <1>6, <1>7 DEF at

(* A duplicate entry that is of no known type.                             *)
Retyped(s, i, r) ==
    /\ r.size = s.size /\ r.magic = s.magic /\ r.length = s.length /\ r.blobs = s.blobs
    /\ Len(r.index) = Len(s.index)
    /\ \A k \in 1 .. Len(s.index) :
          /\ r.index[k].offset = s.index[k].offset
          /\ r.index[k].type = IF k = i THEN 99 ELSE s.index[k].type

LEMMA RetypedIs ==
    ASSUME NEW s, IsSignature(s), NEW i \in 1 .. Len(s.index)
    PROVE  LET r == [s EXCEPT !.index[i].type = 99]
           IN  Retyped(s, i, r) /\ IsSignature(r)
<1> DEFINE r == [s EXCEPT !.index[i].type = 99]
           T == [type: Nat, offset: Nat]
           x == s.index
           e == [x[i] EXCEPT !.type = 99]
           y == [x EXCEPT ![i] = e]
           N == Len(x)
<1>1. x \in Seq(T) /\ N \in Nat /\ DOMAIN x = 1 .. N /\ i \in 1 .. N
  BY EntriesAre DEF IsSignature
<1>2. s = [size |-> s.size, magic |-> s.magic, length |-> s.length, index |-> x, blobs |-> s.blobs]
  BY DEF IsSignature
<1>3. r = [size |-> s.size, magic |-> s.magic, length |-> s.length, index |-> y, blobs |-> s.blobs]
  <2>1. r = [s EXCEPT !.index = y]
    BY Zenon
  <2> HIDE DEF y, x, r
  <2> QED BY ONLY <1>2, <2>1
<1>4. x[i] \in T
  BY <1>1, ElementOfSeq
<1>5. e \in T /\ e.type = 99 /\ e.offset = x[i].offset
  <2> HIDE DEF x
  <2> QED BY <1>4
<1> HIDE DEF x, e, N
<1>6. y \in Seq(T) /\ Len(y) = N /\ \A k \in 1 .. N : y[k] = IF k = i THEN e ELSE x[k]
  BY ONLY <1>1, <1>5, ExceptSeq DEF N, y
<1> HIDE DEF y, r, T
<1>7. r.size = s.size /\ r.magic = s.magic /\ r.length = s.length /\ r.blobs = s.blobs /\ r.index = y
  BY ONLY <1>3
<1>8. Retyped(s, i, r)
  BY <1>5, <1>6, <1>7 DEF Retyped, x, N
<1>9. IsSignature(r)
  <2>1. r = [size |-> r.size, magic |-> r.magic, length |-> r.length, index |-> r.index, blobs |-> r.blobs]
    BY ONLY <1>3, <1>7
  <2>2. r.index \in Seq([type: Nat, offset: Nat])
    BY ONLY <1>6, <1>7 DEF T
  <2> QED BY <1>7, <2>1, <2>2 DEF IsSignature
<1> QED BY <1>8, <1>9 DEF r

LEMMA RetypedUse ==
    ASSUME NEW s, IsSignature(s), NEW r, IsSignature(r), NEW i \in 1 .. Len(s.index), Retyped(s, i, r),
           NEW j \in 1 .. i - 1, s.index[i].type = s.index[j].type
    PROVE  \A k \in 1 .. Len(s.index) :
              /\ k \in used(s) /\ s.index[k].type # 99 =>
                    k \in used(r) /\ r.index[k].type = s.index[k].type
              /\ k \in used(r) /\ r.index[k].type # 99 =>
                    k \in used(s) /\ r.index[k].type = s.index[k].type
<1> DEFINE N == Len(s.index)
           x(k) == s.index[k].type
           y(k) == r.index[k].type
           o(k) == s.index[k].offset
<1>1. N \in Nat /\ DOMAIN s.index = 1 .. N
  BY EntriesAre
<1>2. Len(r.index) = N /\ DOMAIN r.index = 1 .. N
  BY EntriesAre DEF Retyped
<1>3. \A k \in 1 .. N : r.index[k].offset = o(k) /\ y(k) = IF k = i THEN 99 ELSE x(k)
  BY DEF Retyped
<1>4. \A k \in 1 .. N : k \in used(s) <=> o(k) # 0 /\ \A l \in 1 .. k - 1 : x(l) # x(k)
  BY <1>1 DEF used, firstEntries
<1>5. \A k \in 1 .. N : k \in used(r) <=> r.index[k].offset # 0 /\ \A l \in 1 .. k - 1 : y(l) # y(k)
  BY <1>2 DEF used, firstEntries
<1>6. i \in 1 .. N /\ j \in 1 .. i - 1 /\ x(i) = x(j)
  OBVIOUS
<1> SUFFICES ASSUME NEW k \in 1 .. N
             PROVE  /\ k \in used(s) /\ x(k) # 99 => k \in used(r) /\ y(k) = x(k)
                    /\ k \in used(r) /\ y(k) # 99 => k \in used(s) /\ y(k) = x(k)
  OBVIOUS
<1> HIDE DEF N, x, y, o
<1>7. ASSUME k \in used(s), x(k) # 99 PROVE k \in used(r) /\ y(k) = x(k)
  <2>1. k # i
    BY <1>4, <1>6, <1>7
  <2>2. y(k) = x(k)
    BY <1>3, <2>1
  <2>3. ASSUME NEW l \in 1 .. k - 1 PROVE y(l) # y(k)
    <3>1. l \in 1 .. N /\ x(l) # x(k)
      BY <1>1, <1>4, <1>7
    <3> QED BY <1>3, <1>7, <2>2, <3>1
  <2>4. r.index[k].offset # 0
    BY <1>3, <1>4, <1>7
  <2> QED BY <1>5, <2>2, <2>3, <2>4
<1>8. ASSUME k \in used(r), y(k) # 99 PROVE k \in used(s) /\ y(k) = x(k)
  <2>1. k # i
    BY <1>3, <1>8
  <2>2. y(k) = x(k)
    BY <1>3, <2>1
  <2>3. ASSUME NEW l \in 1 .. k - 1 PROVE x(l) # x(k)
    <3>1. l \in 1 .. N /\ y(l) # y(k)
      BY <1>1, <1>5, <1>8
    <3>2. CASE l # i
      BY <1>3, <2>2, <3>1, <3>2
    <3>3. CASE l = i
      <4>1. j \in 1 .. k - 1 /\ j \in 1 .. N /\ j # i
        BY <1>1, <1>6, <3>3
      <4>2. y(j) # y(k) /\ y(j) = x(j)
        BY <1>3, <1>5, <1>8, <4>1
      <4> QED BY <1>6, <2>2, <3>3, <4>2
    <3> QED BY <3>2, <3>3
  <2>4. o(k) # 0
    BY <1>3, <1>5, <1>8
  <2> QED BY <1>4, <2>2, <2>3, <2>4
<1> QED BY <1>7, <1>8

LEMMA UnknownTypes ==
    /\ 99 \notin PayloadSlots /\ 99 # RequirementsSlot /\ 99 # CodeDirectorySlot
    /\ 99 \notin Alternates
  BY DEF PayloadSlots, NativeSlots, EntitlementsSlot, DERSlot, ConstraintSlots, RawSlots, CMSSlot,
         RequirementsSlot, CodeDirectorySlot, Alternates

(* Both make the same of the entries that they use. *)
SameUse(s, r) ==
    /\ IsSignature(s) /\ IsSignature(r)
    /\ r.size = s.size /\ r.magic = s.magic /\ r.length = s.length /\ r.blobs = s.blobs
    /\ Len(r.index) = Len(s.index)
    /\ \A k \in 1 .. Len(s.index) :
          /\ r.index[k].offset = s.index[k].offset
          /\ k \in used(s) /\ s.index[k].type # 99 =>
                k \in used(r) /\ r.index[k].type = s.index[k].type
          /\ k \in used(r) /\ r.index[k].type # 99 =>
                k \in used(s) /\ r.index[k].type = s.index[k].type

LEMMA SameAccepted ==
    ASSUME NEW s, NEW r, SameUse(s, r), Accepted(s)
    PROVE  Accepted(r)
<1> DEFINE N == Len(s.index)
<1>1. /\ IsSignature(s) /\ IsSignature(r)
      /\ r.size = s.size /\ r.magic = s.magic /\ r.length = s.length /\ r.blobs = s.blobs
      /\ Len(r.index) = N
  BY Zenon DEF SameUse
<1>2. /\ superBlobOK(s) /\ indexOK(s)
      /\ \A i \in used(s) : entryOK(s, s.index[i])
  BY Zenon, AcceptedIs
<1>3. DOMAIN s.index = 1 .. N /\ DOMAIN r.index = 1 .. N /\ N \in Nat
  BY <1>1, EntriesAre
<1>4. \A o : BlobAt(r, o) = BlobAt(s, o)
  BY Zenon, <1>1 DEF BlobAt
<1>5. IndexEnd(r) = IndexEnd(s)
  BY Zenon, <1>1 DEF IndexEnd
<1>6. superBlobOK(r)
  BY Zenon, <1>1, <1>2, <1>5 DEF superBlobOK
<1>7. \A k \in 1 .. N : r.index[k].offset = s.index[k].offset
  BY Zenon DEF SameUse
<1>8. indexOK(r)
  BY <1>1, <1>2, <1>3, <1>4, <1>5, <1>7 DEF indexOK
<1>9. ASSUME NEW k \in used(r) PROVE entryOK(r, r.index[k])
  <2> DEFINE t == r.index[k].type
             o == r.index[k].offset
  <2>1. k \in 1 .. N
    BY <1>1, UsedAre
  <2>2. CASE t = 99
    <3>1. /\ ~(t \in {CodeDirectorySlot} \cup Alternates)
          /\ t # RequirementsSlot /\ ~(t \in PayloadSlots)
      BY <2>2, UnknownTypes
    <3> QED BY Zenon, <3>1 DEF entryOK
  <2>3. CASE t # 99
    <3>1. k \in used(s) /\ t = s.index[k].type /\ o = s.index[k].offset
      BY Zenon, <2>1, <2>3 DEF SameUse
    <3>2. entryOK(s, s.index[k])
      BY Zenon, <1>2, <3>1
    <3> DEFINE b == BlobAt(s, o)
               l == s.length
               u == s.index[k]
    <3>3. BlobAt(r, o) = b /\ r.length = l /\ BlobAt(s, u.offset) = b
      BY Zenon, <1>1, <1>4, <3>1
    <3>4. t = u.type /\ o = u.offset
      BY <3>1
    <3> HIDE DEF b, l, t, o, u
    <3>5. /\ t \in {CodeDirectorySlot} \cup Alternates => directoryOK(b, o, l)
          /\ t = RequirementsSlot => parseRequirementsSlot(b, o, l)
          /\ t \in PayloadSlots => b.magic = MagicOf(t) /\ b.length >= BlobHeader
      BY Zenon, <3>2, <3>3, <3>4 DEF entryOK, u, l
    <3> QED BY Zenon, <3>3, <3>5 DEF entryOK, t, o
  <2> QED BY <2>2, <2>3
<1> QED BY Zenon, <1>6, <1>8, <1>9 DEF Accepted

LEMMA SameAdded ==
    ASSUME NEW s, NEW r, SameUse(s, r), NEW n \in 1 .. Len(s.index), NEW more
    PROVE  Added(r, used(r), n, more) = Added(s, used(s), n, more)
<1> DEFINE t == s.index[n].type
<1>1. /\ n \in used(s) /\ t # 99 => n \in used(r) /\ r.index[n].type = t
      /\ n \in used(r) /\ r.index[n].type # 99 => n \in used(s) /\ r.index[n].type = t
      /\ r.index[n].offset = s.index[n].offset /\ r.blobs = s.blobs
  BY Zenon DEF SameUse
<1>2. CASE n \in used(s) /\ t # 99
  <2>1. n \in used(r) /\ r.index[n].type = t
    BY <1>1, <1>2
  <2>2. directory(r, n) = directory(s, n)
    BY Zenon, <1>1, <2>1 DEF directory, BlobAt
  <2> QED BY Zenon, <1>2, <2>1, <2>2 DEF Added
<1>3. CASE ~(n \in used(s) /\ t # 99)
  <2>1. ~(n \in used(r) /\ r.index[n].type # 99)
    BY <1>1, <1>3
  <2>2. Added(s, used(s), n, more) = more
    BY <1>3, UnknownTypes DEF Added
  <2>3. Added(r, used(r), n, more) = more
    BY <2>1, UnknownTypes DEF Added
  <2> QED BY <2>2, <2>3
<1> QED BY <1>2, <1>3

LEMMA SameDirectories ==
    ASSUME NEW s, NEW r, SameUse(s, r)
    PROVE  directories(r, used(r)) = directories(s, used(s))
<1> DEFINE N == Len(s.index)
<1>1. N \in Nat /\ Len(r.index) = N /\ used(s) \subseteq 1 .. N /\ used(r) \subseteq 1 .. N
  BY EntriesAre, UsedAre DEF SameUse
<1>2. PICK w : Finds(s, used(s), w) /\ directories(s, used(s)) = w[N]
  BY <1>1, DirectoriesAreFound
<1>3. PICK g : Finds(r, used(r), g) /\ directories(r, used(r)) = g[N]
  BY <1>1, DirectoriesAreFound
<1>4. \A n \in 0 .. N : w[n] = IF n = 0 THEN <<>> ELSE Added(s, used(s), n, w[n - 1])
  BY <1>2 DEF Finds
<1>5. \A n \in 0 .. N : g[n] = IF n = 0 THEN <<>> ELSE Added(r, used(r), n, g[n - 1])
  BY <1>1, <1>3 DEF Finds
<1> DEFINE S == {n \in 0 .. N : g[n] = w[n]}
<1>6. 0 \in S
  BY <1>1, <1>4, <1>5
<1>7. ASSUME NEW n \in 1 .. N, n - 1 \in S PROVE n \in S
  <2>1. n \in 0 .. N /\ n # 0
    BY <1>1
  <2>2. g[n - 1] = w[n - 1]
    BY <1>7
  <2>3. w[n] = Added(s, used(s), n, w[n - 1]) /\ g[n] = Added(r, used(r), n, g[n - 1])
    BY <1>4, <1>5, <2>1
  <2>4. g[n] = w[n]
    BY <2>2, <2>3, SameAdded
  <2> QED BY <2>1, <2>4
<1>8. \A n \in 0 .. N : n \in S
  <2> HIDE DEF S, N
  <2> QED BY <1>1, <1>6, <1>7, CountInduction
<1> QED BY <1>1, <1>2, <1>3, <1>8

LEMMA SameFirst ==
    ASSUME NEW s, NEW r, SameUse(s, r), NEW t, t # 99
    PROVE  /\ t \in Types(r, used(r)) <=> t \in Types(s, used(s))
           /\ t \in Types(s, used(s)) =>
                r.index[First(r, used(r), t)].offset = s.index[First(s, used(s), t)].offset
<1> DEFINE N == Len(s.index)
           x(k) == s.index[k].type
           y(k) == r.index[k].type
           U == used(s)
           W == used(r)
<1>1. IsSignature(s) /\ IsSignature(r) /\ Len(r.index) = N
  BY Zenon DEF SameUse
<1>2. /\ N \in Nat /\ U \subseteq 1 .. N /\ W \subseteq 1 .. N
      /\ \A i \in U : \A k \in 1 .. i - 1 : x(k) # x(i)
  BY <1>1, EntriesAre, UsedAre
<1>3. \A k \in 1 .. N : /\ r.index[k].offset = s.index[k].offset
                        /\ k \in U /\ x(k) # 99 => k \in W /\ y(k) = x(k)
                        /\ k \in W /\ y(k) # 99 => k \in U /\ y(k) = x(k)
  BY Zenon DEF SameUse
<1>4. ASSUME t \in Types(s, U) PROVE t \in Types(r, W)
  <2>1. PICK k \in U : x(k) = t
    BY <1>4 DEF Types
  <2>2. k \in W /\ y(k) = t
    BY <1>2, <1>3, <2>1
  <2> QED BY <2>2 DEF Types
<1>5. ASSUME t \in Types(r, W) PROVE t \in Types(s, U)
  <2>1. PICK k \in W : y(k) = t
    BY <1>5 DEF Types
  <2>2. k \in U /\ x(k) = t
    BY <1>2, <1>3, <2>1
  <2> QED BY <2>2 DEF Types
<1>6. ASSUME t \in Types(s, U)
      PROVE  r.index[First(r, W, t)].offset = s.index[First(s, U, t)].offset
  <2> DEFINE c == First(s, U, t)
             d == First(r, W, t)
  <2>1. c \in U /\ x(c) = t
    BY <1>6, FirstIs
  <2>2. d \in W /\ y(d) = t
    BY <1>4, <1>6, FirstIs
  <2> HIDE DEF c, d, U, W, x, y, N
  <2>3. d \in 1 .. N /\ c \in 1 .. N /\ d \in U /\ x(d) = t
    BY <1>2, <1>3, <2>1, <2>2
  <2>4. ~(c < d) /\ ~(d < c)
    BY <1>2, <2>1, <2>3
  <2>5. c = d
    BY <1>2, <2>3, <2>4
  <2>6. r.index[d].offset = s.index[d].offset
    BY ONLY <1>3, <2>3
  <2> QED BY ONLY <2>5, <2>6 DEF c, d
<1> QED BY <1>4, <1>5, <1>6

LEMMA SameContents ==
    ASSUME NEW s, NEW r, SameUse(s, r)
    PROVE  contents(r, used(r)) = contents(s, used(s))
<1>1. directories(r, used(r)) = directories(s, used(s))
  BY ONLY SameUse(s, r), SameDirectories
<1>2. Parts(r, used(r)) = Parts(s, used(s))
  <2> DEFINE D == Types(s, used(s)) \cap PayloadSlots
             E == Types(r, used(r)) \cap PayloadSlots
             w(t) == s.index[First(s, used(s), t)].offset
             g(t) == r.index[First(r, used(r), t)].offset
  <2>1. ASSUME NEW t \in PayloadSlots PROVE t # 99
    BY UnknownTypes
  <2>2. D = E
    BY <2>1, SameFirst
  <2>3. ASSUME NEW t \in D PROVE g(t) = w(t)
    BY <2>1, SameFirst
  <2> HIDE DEF D, E, w, g
  <2>4. [t \in E |-> g(t)] = [t \in D |-> w(t)]
    BY <2>2, <2>3
  <2> QED BY Zenon, <2>4 DEF Parts, D, E, w, g
<1>3. RequirementsAt(r, used(r)) = RequirementsAt(s, used(s))
  <2>1. RequirementsSlot # 99
    BY UnknownTypes
  <2> DEFINE t == RequirementsSlot
             c == s.index[First(s, used(s), t)].offset
             d == r.index[First(r, used(r), t)].offset
             T == Types(s, used(s))
             W == Types(r, used(r))
  <2>2. (t \in W <=> t \in T) /\ (t \in T => d = c)
    BY <2>1, SameFirst
  <2>3. /\ RequirementsAt(s, used(s)) = IF t \in T THEN c ELSE 0
        /\ RequirementsAt(r, used(r)) = IF t \in W THEN d ELSE 0
    BY Zenon DEF RequirementsAt
  <2> HIDE DEF t, c, d, T, W
  <2> QED BY ONLY <2>2, <2>3
<1> QED BY Zenon, <1>1, <1>2, <1>3, ContentsAre

LEMMA DuplicatesAreIgnored ==
    ASSUME NEW s, IsSignature(s), Accepted(s), NEW i \in DOMAIN s.index, NEW j \in 1 .. i - 1,
           s.index[i].type = s.index[j].type
    PROVE  ParseCodeSignature(s) = ParseCodeSignature([s EXCEPT !.index[i].type = 99])
<1> DEFINE r == [s EXCEPT !.index[i].type = 99]
<1>1. i \in 1 .. Len(s.index)
  BY EntriesAre
<1>2. Retyped(s, i, r) /\ IsSignature(r)
  BY <1>1, RetypedIs
<1> HIDE DEF r
<1>3. SameUse(s, r)
  <2> DEFINE Used(k) == /\ k \in used(s) /\ s.index[k].type # 99 =>
                              k \in used(r) /\ r.index[k].type = s.index[k].type
                        /\ k \in used(r) /\ r.index[k].type # 99 =>
                              k \in used(s) /\ r.index[k].type = s.index[k].type
  <2>1. \A k \in 1 .. Len(s.index) : Used(k)
    BY <1>1, <1>2, RetypedUse
  <2> QED BY Zenon, <1>2, <2>1 DEF Retyped, SameUse
<1>4. Accepted(r)
  BY <1>3, SameAccepted
<1>5. ParseCodeSignature(s) = contents(s, used(s)) /\ ParseCodeSignature(r) = contents(r, used(r))
  BY Zenon, <1>4 DEF ParseCodeSignature
<1> QED BY Zenon, <1>3, <1>5, SameContents DEF r

LEMMA ParsedIsSound ==
    ASSUME IsSignature(read), parsed = ParseCodeSignature(read)
    PROVE  ParsedSignaturesAreSound
<1> SUFFICES ASSUME parsed.ok PROVE ParsedSignaturesAreSound
  BY Zenon DEF ParsedSignaturesAreSound
<1>1. Accepted(read)
  <2>1. ~Nothing.ok
    BY Zenon DEF Nothing
  <2> QED BY Zenon, <2>1 DEF ParseCodeSignature
<1>2. parsed = contents(read, used(read))
  BY Zenon, <1>1 DEF ParseCodeSignature
<1>3. /\ parsed.directories = directories(read, used(read))
      /\ parsed.parts = Parts(read, used(read))
  BY Zenon, <1>2, ContentFieldsAre
<1>4. read.length <= read.size
  BY Zenon, <1>1 DEF Accepted, superBlobOK
<1>5. ASSUME NEW i \in DOMAIN parsed.directories
      PROVE  /\ DirectoryIsSound(parsed.directories[i])
             /\ parsed.directories[i].slot = CodeDirectorySlot => i = 1
  <2> DEFINE v == directories(read, used(read))
             N == Len(read.index)
  <2>1. DOMAIN v = 1 .. Len(v) /\ \A k \in 1 .. Len(v) : Names(read, N, k, v[k])
    BY DirectoriesAreNamed
  <2> HIDE DEF v, N
  <2>2. Names(read, N, i, v[i])
    BY <1>3, <2>1 DEF v
  <2>3. PICK k \in used(read) : /\ v[i] = directory(read, k)
                                /\ read.index[k].type \in {CodeDirectorySlot} \cup Alternates
                                /\ read.index[k].type = CodeDirectorySlot => i = 1
    BY Zenon, <2>2 DEF Names
  <2>4. DirectoryIsSound(v[i]) /\ v[i].slot = read.index[k].type
    BY Zenon, <1>1, <2>3, FoundDirectoriesAreSound
  <2> QED BY Zenon, <1>3, <2>3, <2>4 DEF v
<1>6. ASSUME NEW t \in DOMAIN parsed.parts
      PROVE  /\ parsed.parts[t] >= IndexEnd(read)
             /\ parsed.parts[t] + read.blobs[parsed.parts[t]].length <= read.length
  BY Zenon, <1>1, <1>3, PartsLieBehindTheIndex
<1>7. ASSUME NEW i \in DOMAIN read.index, NEW j \in 1 .. i - 1, read.index[i].type = read.index[j].type
      PROVE  parsed = ParseCodeSignature([read EXCEPT !.index[i].type = 99])
  BY Zenon, <1>1, <1>7, DuplicatesAreIgnored
<1> QED BY Zenon, <1>4, <1>5, <1>6, <1>7 DEF ParsedSignaturesAreSound

(* What is kept of a signature is what ParseCodeSignature makes of the     *)
(* data that was read.                                                     *)
SignatureInv ==
    /\ sig \in Signatures /\ read \in Signatures
    /\ parsed \in {Nothing, ParseCodeSignature(read)}

(* Whatever the offsets and lengths of a code signature say, what          *)
(* ParseCodeSignature takes from it lies in it behind its index, its hash  *)
(* slots do not overlap, its code slots cover the signed pages once, and   *)
(* a later entry for a slot changes nothing.                               *)
THEOREM ParsedSignatures ==
    SignatureSpec => []ParsedSignaturesAreSound
<1>1. SignatureInit => SignatureInv
  BY DEF SignatureInit, SignatureInv
<1>2. SignatureInv /\ [ReadSignature]_<<sig, read, parsed>> => SignatureInv'
  BY Zenon DEF SignatureInv, ReadSignature
<1>3. SignatureInv => ParsedSignaturesAreSound
  <2> SUFFICES ASSUME SignatureInv PROVE ParsedSignaturesAreSound
    OBVIOUS
  <2>1. IsSignature(read)
    BY SignaturesAssumption DEF SignatureInv
  <2>2. CASE parsed = ParseCodeSignature(read)
    BY <2>1, <2>2, ParsedIsSound
  <2>3. CASE parsed = Nothing
    <3>1. ~parsed.ok
      BY Zenon, <2>3 DEF Nothing
    <3> QED BY Zenon, <3>1 DEF ParsedSignaturesAreSound
  <2> QED BY <2>2, <2>3 DEF SignatureInv
<1> QED BY <1>1, <1>2, <1>3, PTL DEF SignatureSpec
=============================================================================
