---------------------------- MODULE FilesProofs -----------------------------
(***************************************************************************)
(* Proofs about Readers, TOC and LoadCommands.                             *)
(*                                                                         *)
(* Readers: a call reads its own bytes, in one piece, in chunks or after a *)
(* probe, and a pointer slot is the same by offset and by address.  The    *)
(* hypotheses are about the constants alone: sizes that fit the machine's  *)
(* words, segments that lie apart, and sections that lie in a segment.     *)
(*                                                                         *)
(* TOC: the header's count stays in step with the commands, the written    *)
(* ones lie where cmdsize says, and segments index their own sections,     *)
(* under every sequence of adds and removals.  The bytes the header counts *)
(* follow while LoadSize measures the commands, the indexes until the      *)
(* segment with the last sections is removed.                              *)
(*                                                                         *)
(* LoadCommands: a filter only chooses among the loads of the whole file,  *)
(* and a file whose commands are written in their own sizes is read again  *)
(* as the same.  The first is about every file with a count of commands,   *)
(* the second about files whose commands are laid out as linkers do it:    *)
(* strings right behind their struct, entries as many as are counted.      *)
(* Both go command by command: what the case of a command looks at, then   *)
(* what its Write leaves for the same case to read.                        *)
(*                                                                         *)
(* The loop over chunks and the walks over commands are recursive          *)
(* functions, so what they deliver is shown by induction on the bytes read *)
(* and on the commands (RecursionTheorems).                                *)
(***************************************************************************)
EXTENDS Readers, TOC, LoadCommands, Export, RecursionTheorems, TLAPS

-----------------------------------------------------------------------------
(* Readers.                                                                *)

(* What n bytes at an offset are answered with.                            *)
Answered(r, off, n) ==
    IF n = 0 \/ off + n <= FileLen
    THEN r.data = Bytes(off, n) /\ r.err = "" ELSE r.err # ""

(* The words of the machine. *)
LEMMA Sizes ==
    ASSUME MachineSizes
    PROVE  /\ Wrap \in Nat /\ FileLen \in Nat /\ Half \in Nat /\ MaxInt \in Nat
           /\ FileLen < MaxInt /\ MaxInt = Half - 1 /\ 2 * Half <= Wrap
<1>1. Wrap \in Nat /\ FileLen \in Nat /\ FileLen < MaxInt
  BY DEF MachineSizes
<1>2. Wrap \div 2 \in Nat /\ 2 * (Wrap \div 2) <= Wrap
  BY <1>1
<1>3. Half \in Nat /\ MaxInt = Half - 1 /\ 2 * Half <= Wrap
  BY <1>2 DEF Half, MaxInt
<1> QED BY <1>1, <1>3

(* A number below half the words is not negative. *)
LEMMA SmallIsSigned ==
    ASSUME MachineSizes, NEW n \in 0 .. MaxInt
    PROVE  Signed(n) = n
<1> DEFINE w == Wrap
           m == n % w
<1>1. w \in Nat /\ n \in Nat /\ n < w /\ n < Half /\ w > 0
  BY Sizes
<1>2. m = n
  <2> HIDE DEF w
  <2> QED BY <1>1
<1>3. Signed(n) = IF m >= Half THEN m - w ELSE m
  BY DEF Signed
<1> HIDE DEF m, w
<1>4. ~(m >= Half)
  BY <1>1, <1>2, Sizes
<1> QED BY <1>2, <1>3, <1>4

(* No bytes, and bytes put together. *)
LEMMA NoBytes == ASSUME NEW off \in Nat PROVE Bytes(off, 0) = <<>>
BY DEF Bytes

(* Bytes read one after the other are the bytes read at once. *)
LEMMA JoinedBytes ==
    ASSUME NEW off \in Nat, NEW a \in Nat, NEW b \in Nat
    PROVE  Bytes(off, a) \o Bytes(off + a, b) = Bytes(off, a + b)
<1> DEFINE s == Bytes(off, a)
           t == Bytes(off + a, b)
           u == Bytes(off, a + b)
<1>1. /\ s \in Seq(Nat) /\ Len(s) = a /\ \A i \in 1 .. a : s[i] = off + i - 1
      /\ t \in Seq(Nat) /\ Len(t) = b /\ \A i \in 1 .. b : t[i] = off + a + i - 1
      /\ u \in Seq(Nat) /\ Len(u) = a + b /\ \A i \in 1 .. a + b : u[i] = off + i - 1
  BY DEF Bytes
<1> HIDE DEF s, t, u
<1>2. ASSUME NEW x \in Seq(Nat), NEW y \in Seq(Nat)
      PROVE  /\ x \o y \in Seq(Nat) /\ Len(x \o y) = Len(x) + Len(y)
             /\ \A i \in 1 .. Len(x) + Len(y) :
                   (x \o y)[i] = IF i <= Len(x) THEN x[i] ELSE y[i - Len(x)]
  OBVIOUS
<1> DEFINE v == s \o t
<1>3. /\ v \in Seq(Nat) /\ Len(v) = a + b
      /\ \A i \in 1 .. a + b : v[i] = IF i <= a THEN s[i] ELSE t[i - a]
  BY <1>1, <1>2
<1> HIDE DEF v
<1>4. ASSUME NEW i \in 1 .. a + b PROVE v[i] = u[i]
  <2>1. CASE i <= a
    <3>1. i \in 1 .. a
      BY <2>1
    <3> QED BY <1>1, <1>3, <2>1, <3>1
  <2>2. CASE ~(i <= a)
    <3>1. i - a \in 1 .. b
      BY <2>2
    <3>2. t[i - a] = off + i - 1
      <4>1. t[i - a] = off + a + (i - a) - 1
        BY <1>1, <3>1
      <4> QED BY <4>1
    <3> QED BY <1>1, <1>3, <2>2, <3>2
  <2> QED BY <2>1, <2>2
<1>5. v = u
  BY <1>1, <1>3, <1>4
<1> QED BY <1>5 DEF v, s, t, u

(* The reader below. *)
LEMMA ReaderAtAnswers ==
    ASSUME MachineSizes, NEW off \in Nat, NEW n \in Nat
    PROVE  /\ Answered(ReaderAt(off, n), off, n)
           /\ ReaderAt(off, n) = [data |-> Bytes(off, Got(off, n)),
                                  err |-> IF Got(off, n) < n THEN "EOF" ELSE ""]
           /\ Got(off, n) \in 0 .. n
           /\ Got(off, n) = n <=> (n = 0 \/ off + n <= FileLen)
<1>1. FileLen \in Nat
  BY Sizes
<1>2. Got(off, n) \in 0 .. n /\ (Got(off, n) = n <=> (n = 0 \/ off + n <= FileLen))
  BY <1>1 DEF Got, Smaller
<1> DEFINE g == Got(off, n)
           r == ReaderAt(off, n)
<1>3. r = [data |-> Bytes(off, g), err |-> IF g < n THEN "EOF" ELSE ""]
  BY DEF ReaderAt
<1> HIDE DEF g, r
<1>4. /\ r.data = Bytes(off, g)
      /\ g = n => r.err = ""
      /\ g < n => r.err = "EOF"
  <2>1. g = n => ~(g < n)
    BY <1>2 DEF g
  <2> QED BY <1>3, <2>1
<1>5. g \in 0 .. n /\ (g = n <=> (n = 0 \/ off + n <= FileLen))
  BY <1>2 DEF g
<1>6. Answered(r, off, n)
  <2>1. CASE g = n
    <3>1. r.data = Bytes(off, n) /\ r.err = ""
      BY <1>4, <2>1
    <3> QED BY <1>5, <2>1, <3>1 DEF Answered
  <2>2. CASE g # n
    <3>1. g < n
      BY <1>5, <2>2
    <3>2. r.err # ""
      BY <1>4, <3>1
    <3>3. ~(n = 0 \/ off + n <= FileLen)
      BY <1>5, <2>2
    <3> QED BY <3>2, <3>3 DEF Answered
  <2> QED BY <2>1, <2>2
<1> QED BY <1>2, <1>3, <1>6 DEF g, r

(* The reader of a File, as far as an int64 goes. *)
LEMMA ReadAtAnswers ==
    ASSUME MachineSizes, NEW off \in Nat, NEW n \in Nat, n > 0 \/ off < MaxInt
    PROVE  Answered(ReadAt(n, off), off, n)
<1>1. MaxInt \in Nat /\ FileLen \in Nat /\ FileLen < MaxInt
  BY Sizes
<1>2. CASE off >= MaxInt
  <2>1. ReadAt(n, off).err = "EOF" /\ n > 0
    BY <1>1, <1>2 DEF ReadAt
  <2>2. ~(n = 0 \/ off + n <= FileLen)
    BY <1>1, <1>2, <2>1
  <2> QED BY <2>1, <2>2 DEF Answered
<1>3. CASE off < MaxInt /\ n > MaxInt - off
  <2> DEFINE m == MaxInt - off
  <2>1. ReadAt(n, off) = [ReaderAt(off, m) EXCEPT !.err = "EOF"]
    BY <1>1, <1>3 DEF ReadAt
  <2>2. m \in Nat
    BY <1>1, <1>3
  <2> HIDE DEF m
  <2>3. ReaderAt(off, m) = [data |-> Bytes(off, Got(off, m)),
                            err |-> IF Got(off, m) < m THEN "EOF" ELSE ""]
    BY <2>2, ReaderAtAnswers
  <2>4. ReadAt(n, off).err = "EOF"
    BY <2>1, <2>3
  <2>5. ~(n = 0 \/ off + n <= FileLen)
    BY <1>1, <1>3
  <2> QED BY <2>4, <2>5 DEF Answered
<1>4. CASE off < MaxInt /\ ~(n > MaxInt - off)
  <2>1. ReadAt(n, off) = ReaderAt(off, n)
    BY <1>1, <1>4 DEF ReadAt
  <2> QED BY <2>1, ReaderAtAnswers
<1> QED BY <1>1, <1>2, <1>3, <1>4

(* What a sequential read gives: k bytes from base on, with the cursor,    *)
(* which stood at first, behind them, or an error.                         *)
Errors == {"", "EOF", "UnexpectedEOF", "address", "range"}
Results == [data: Seq(Nat), pos: Nat, err: Errors]

Delivered(r, base, origin, k) ==
    IF k = 0 \/ base + k <= FileLen
    THEN r = [data |-> Bytes(base, k), pos |-> origin + k, err |-> ""]
    ELSE r.err # ""

(* The bytes of an offset are numbers. *)
LEMMA BytesAreTyped ==
    ASSUME NEW off \in Nat, NEW n \in Nat
    PROVE  Bytes(off, n) \in Seq(Nat)
BY DEF Bytes

(* The last piece of k bytes. *)
Piece(k) == IF k % Chunk = 0 THEN Chunk ELSE k % Chunk

(* It is at least a byte, and within them.                                 *)
LEMMA PiecesFit ==
    ASSUME MachineSizes, NEW k \in Nat, k # 0
    PROVE  Piece(k) \in 1 .. k /\ k - Piece(k) \in 0 .. k - 1
<1> DEFINE c == Chunk
           m == k % c
           q == k \div c
<1>1. c \in Nat \ {0}
  BY DEF MachineSizes
<1>2. m \in 0 .. c - 1 /\ q \in Nat /\ k = q * c + m
  BY <1>1
<1>3. Piece(k) = IF m = 0 THEN c ELSE m
  BY DEF Piece
<1> HIDE DEF c, m, q
<1>4. q * c \in Nat
  BY <1>1, <1>2
<1>5. CASE m = 0
  <2>1. q # 0
    <3> SUFFICES ASSUME q = 0 PROVE FALSE
      OBVIOUS
    <3>1. q * c = 0
      BY <1>1
    <3> QED BY <1>2, <1>5, <3>1
  <2>2. PICK e \in Nat : q = e + 1
    <3>1. q - 1 \in Nat /\ q = (q - 1) + 1
      BY <1>2, <2>1
    <3> QED BY <3>1
  <2>3. q * c = e * c + c /\ e * c \in Nat
    BY <1>1, <2>2
  <2> DEFINE x == e * c
             y == q * c
  <2>4. k = y + m /\ y = x + c /\ x \in Nat
    BY <1>2, <2>3
  <2> HIDE DEF x, y
  <2> QED BY <1>1, <1>3, <1>5, <2>4
<1>6. CASE m # 0
  <2> DEFINE x == q * c
  <2>1. k = x + m /\ x \in Nat
    BY <1>2, <1>4
  <2> HIDE DEF x
  <2> QED BY <1>1, <1>2, <1>3, <1>6, <2>1
<1> QED BY <1>5, <1>6

(* One round of the loop over chunks. *)
Round(by, origin, k, prev) ==
    LET r == ReadChunk(by, prev.pos, Piece(k))
    IN  IF prev.err # "" THEN prev
        ELSE IF r.err = "" THEN [r EXCEPT !.data = prev.data \o r.data]
        ELSE Nothing(r.pos,
                     IF by = OnCursor /\ prev.data # <<>> /\ r.err = "EOF"
                     THEN "UnexpectedEOF" ELSE r.err)

(* A result without data is typed. *)
LEMMA NothingIsTyped ==
    ASSUME NEW p \in Nat, NEW e \in Errors
    PROVE  Nothing(p, e) \in Results
<1>1. <<>> \in Seq(Nat)
  OBVIOUS
<1> HIDE DEF Errors
<1>2. [data |-> <<>>, pos |-> p, err |-> e] \in Results
  BY <1>1 DEF Results
<1> QED BY <1>2 DEF Nothing

(* So is what a round leaves. *)
LEMMA RoundsAreTyped ==
    ASSUME MachineSizes, NEW by, NEW origin \in Nat, NEW k \in Nat, k # 0, NEW prev \in Results,
           \A p, m \in Nat : ReadChunk(by, p, m) \in Results
    PROVE  Round(by, origin, k, prev) \in Results
<1> DEFINE r == ReadChunk(by, prev.pos, Piece(k))
           e == IF by = OnCursor /\ prev.data # <<>> /\ r.err = "EOF"
                THEN "UnexpectedEOF" ELSE r.err
<1>1. Piece(k) \in Nat /\ prev.pos \in Nat /\ prev.data \in Seq(Nat)
  <2>1. Piece(k) \in 1 .. k
    BY PiecesFit
  <2>2. prev.pos \in Nat /\ prev.data \in Seq(Nat)
    BY DEF Results
  <2> QED BY <2>1, <2>2
<1>2. r \in Results
  BY <1>1
<1>3. Round(by, origin, k, prev) = IF prev.err # "" THEN prev
                                  ELSE IF r.err = "" THEN [r EXCEPT !.data = prev.data \o r.data]
                                  ELSE Nothing(r.pos, e)
  BY DEF Round
<1> HIDE DEF r
<1>4. r.data \in Seq(Nat) /\ r.pos \in Nat /\ r.err \in Errors
  BY <1>2 DEF Results
<1>5. prev.data \o r.data \in Seq(Nat)
  <2> DEFINE x == prev.data
             y == r.data
  <2>1. x \in Seq(Nat) /\ y \in Seq(Nat)
    BY <1>1, <1>4
  <2> HIDE DEF x, y
  <2>2. x \o y \in Seq(Nat)
    BY <2>1
  <2> QED BY <2>2 DEF x, y
<1>6. [r EXCEPT !.data = prev.data \o r.data] \in Results
  <2> DEFINE d == prev.data \o r.data
  <2>1. d \in Seq(Nat)
    BY <1>5
  <2> HIDE DEF d
  <2>2. [r EXCEPT !.data = d] \in Results
    BY <1>2, <2>1 DEF Results
  <2> QED BY <2>2 DEF d
<1>7. e \in Errors
  <2>1. r.err \in Errors /\ "UnexpectedEOF" \in Errors
    BY <1>4 DEF Errors
  <2> HIDE DEF Errors
  <2> QED BY <2>1
<1> HIDE DEF e
<1>8. Nothing(r.pos, e) \in Results
  BY <1>4, <1>7, NothingIsTyped
<1> QED BY <1>3, <1>6, <1>8

(* A round carries on where the one before stood. *)
LEMMA RoundDelivers ==
    ASSUME MachineSizes, NEW by, NEW base \in Nat, NEW origin \in Nat, NEW k \in Nat, k # 0,
           NEW prev \in Results, NEW j, j = k - Piece(k), Delivered(prev, base, origin, j),
           ReadChunk(by, origin + j, Piece(k)) \in Results,
           Delivered(ReadChunk(by, origin + j, Piece(k)), base + j, origin + j, Piece(k))
    PROVE  Delivered(Round(by, origin, k, prev), base, origin, k)
<1> DEFINE n == Piece(k)
           r == ReadChunk(by, prev.pos, n)
           e == IF by = OnCursor /\ prev.data # <<>> /\ r.err = "EOF"
                THEN "UnexpectedEOF" ELSE r.err
           R == Round(by, origin, k, prev)
<1>1. n \in 1 .. k /\ j \in 0 .. k - 1 /\ j + n = k /\ FileLen \in Nat
  BY PiecesFit, Sizes
<1>2. R = IF prev.err # "" THEN prev
          ELSE IF r.err = "" THEN [r EXCEPT !.data = prev.data \o r.data]
          ELSE Nothing(r.pos, e)
  BY DEF Round
<1> HIDE DEF n, R
<1>3. CASE j = 0 \/ base + j <= FileLen
  <2>1. prev = [data |-> Bytes(base, j), pos |-> origin + j, err |-> ""]
    BY <1>3 DEF Delivered
  <2>2. prev.err = "" /\ prev.pos = origin + j /\ prev.data = Bytes(base, j)
    BY <2>1
  <2>3. r \in Results /\ Delivered(r, base + j, origin + j, n)
    BY <2>2 DEF n
  <2> HIDE DEF r
  <2>4. CASE base + k <= FileLen
    <3>1. base + j + n <= FileLen
      BY <1>1, <2>4
    <3>2. r = [data |-> Bytes(base + j, n), pos |-> origin + j + n, err |-> ""]
      BY <2>3, <3>1 DEF Delivered
    <3>3. r.err = "" /\ r.data = Bytes(base + j, n)
      BY <3>2
    <3>4. prev.data \o r.data = Bytes(base, k)
      <4> DEFINE u == Bytes(base, j)
                 v == Bytes(base + j, n)
                 w == Bytes(base, k)
      <4>1. u \o v = w
        <5>0. \A a, b \in Nat : Bytes(base, a) \o Bytes(base + a, b) = Bytes(base, a + b)
          BY JoinedBytes
        <5>4. j \in Nat /\ n \in Nat
          BY <1>1
        <5>1. Bytes(base, j) \o Bytes(base + j, n) = Bytes(base, j + n)
          BY ONLY <5>0, <5>4
        <5>2. Bytes(base, j + n) = w
          BY <1>1
        <5>3. u \o v = Bytes(base, j + n)
          BY <5>1
        <5> HIDE DEF u, v, w
        <5> QED BY ONLY <5>2, <5>3
      <4>2. prev.data = u /\ r.data = v
        BY <2>2, <3>3
      <4> HIDE DEF u, v, w
      <4>3. prev.data \o r.data = w
        BY ONLY <4>1, <4>2
      <4> QED BY <4>3 DEF w
    <3>5. R = [r EXCEPT !.data = Bytes(base, k)]
      BY <1>2, <2>2, <3>3, <3>4
    <3>6. origin + j + n = origin + k
      BY <1>1
    <3>7. R = [data |-> Bytes(base, k), pos |-> origin + k, err |-> ""]
      BY <3>2, <3>5, <3>6
    <3> QED BY <2>4, <3>7 DEF Delivered, R
  <2>5. CASE ~(base + k <= FileLen)
    <3>1. ~(n = 0 \/ base + j + n <= FileLen)
      BY <1>1, <2>5
    <3>2. r.err # ""
      BY <2>3, <3>1 DEF Delivered
    <3>3. R = Nothing(r.pos, e) /\ e # ""
      BY <1>2, <2>2, <3>2
    <3> HIDE DEF e
    <3>4. R.err # ""
      BY <3>3 DEF Nothing
    <3> QED BY <2>5, <3>4 DEF Delivered, R
  <2> QED BY <2>4, <2>5
<1>4. CASE ~(j = 0 \/ base + j <= FileLen)
  <2>1. prev.err # ""
    BY <1>4 DEF Delivered
  <2>2. R.err # ""
    BY <1>2, <2>1
  <2>3. ~(base + k <= FileLen)
    BY <1>1, <1>4
  <2> QED BY <2>2, <2>3 DEF Delivered, R
<1> QED BY <1>3, <1>4

(* The loop over chunks, a round at a time. *)
ByRounds(upTo, by, origin, n) ==
    /\ Chunked(by, origin, n) = upTo[n]
    /\ \A k \in 0 .. n :
          upTo[k] = IF k = 0 THEN Nothing(origin, "")
                    ELSE Round(by, origin, k, upTo[k - Piece(k)])

(* The function Chunked chooses exists. *)
LEMMA ChunksAre ==
    ASSUME MachineSizes, NEW by, NEW origin \in Nat, NEW n \in Nat,
           \A p, m \in Nat : ReadChunk(by, p, m) \in Results
    PROVE  \E upTo : ByRounds(upTo, by, origin, n)
<1> DEFINE D == 0 .. n
           V == Results
           Code(u, k) ==
              IF k = 0 THEN Nothing(origin, "")
              ELSE LET next == IF k % Chunk = 0 THEN Chunk ELSE k % Chunk
                       prev == u[k - next]
                       r    == ReadChunk(by, prev.pos, next)
                   IN  IF prev.err # "" THEN prev
                       ELSE IF r.err = "" THEN [r EXCEPT !.data = prev.data \o r.data]
                       ELSE Nothing(r.pos,
                                    IF by = OnCursor /\ prev.data # <<>> /\ r.err = "EOF"
                                    THEN "UnexpectedEOF" ELSE r.err)
           upTo == CHOOSE u : u = [k \in D |-> Code(u, k)]
           start == Nothing(origin, "")
           base0 == [k \in D |-> start]
           next0 == [k \in D |-> IF k = 0 THEN 0 ELSE k - Piece(k)]
           step0 == [y \in D \X V |-> IF y[1] = 0 THEN start ELSE Round(by, origin, y[1], y[2])]
           m0 == [k \in D |-> k]
<1>1. Chunked(by, origin, n) = upTo[n]
  BY DEF Chunked
<1>2. start \in V
  <2>1. "" \in Errors
    BY DEF Errors
  <2> QED BY <2>1, NothingIsTyped
<1>3. \A k \in D \ {0} : k - Piece(k) \in D /\ k - Piece(k) < k
  <2> SUFFICES ASSUME NEW k \in D \ {0} PROVE k - Piece(k) \in D /\ k - Piece(k) < k
    OBVIOUS
  <2>1. k \in Nat /\ k # 0
    OBVIOUS
  <2>2. k - Piece(k) \in 0 .. k - 1
    BY <2>1, PiecesFit
  <2> QED BY <2>2
<1>4. ASSUME NEW u, NEW k \in D
      PROVE  Code(u, k) = IF k = 0 THEN start ELSE Round(by, origin, k, u[k - Piece(k)])
  BY DEF Round, Piece
<1> HIDE DEF Code
<1>5. PICK f \in [D -> V] : Recurses(f, D, {0}, base0, next0, step0)
  <2>1. m0 \in [D -> 0 .. n] /\ base0 \in [D -> V] /\ next0 \in [D -> D]
    BY <1>2, <1>3
  <2>2. \A k \in D \ {0} : m0[next0[k]] < m0[k]
    BY <1>3
  <2>3. step0 \in [D \X V -> V]
    <3>1. ASSUME NEW k \in D, k # 0, NEW v \in V PROVE Round(by, origin, k, v) \in V
      <4>1. k \in Nat
        OBVIOUS
      <4> HIDE DEF D
      <4> QED BY <3>1, <4>1, RoundsAreTyped
    <3> HIDE DEF start, V
    <3> QED BY <1>2, <3>1
  <2> HIDE DEF m0, base0, next0, step0, D, V
  <2> QED BY <2>1, <2>2, <2>3, RecursiveFunctionExists
<1>6. ASSUME NEW k \in D
      PROVE  f[k] = IF k = 0 THEN start ELSE Round(by, origin, k, f[k - Piece(k)])
  <2>1. CASE k = 0
    BY <1>5, <2>1 DEF Recurses
  <2>2. CASE k # 0
    <3>1. k - Piece(k) \in D
      BY <1>3, <2>2
    <3>2. f[k - Piece(k)] \in V
      BY <3>1
    <3>3. next0[k] = k - Piece(k)
      BY <2>2
    <3>4. f[k] = step0[<<k, f[k - Piece(k)]>>]
      BY <1>5, <2>2, <3>3 DEF Recurses
    <3>5. step0[<<k, f[k - Piece(k)]>>] = Round(by, origin, k, f[k - Piece(k)])
      BY <2>2, <3>2
    <3> QED BY <2>2, <3>4, <3>5
  <2> QED BY <2>1, <2>2
<1>7. f = [k \in D |-> Code(f, k)]
  <2>1. \A k \in D : f[k] = Code(f, k)
    BY <1>4, <1>6
  <2> HIDE DEF D, V
  <2> QED BY <2>1
<1> HIDE DEF base0, next0, step0, m0
<1>8. upTo = [k \in D |-> Code(upTo, k)]
  BY <1>7
<1> HIDE DEF upTo
<1>9. ASSUME NEW k \in D
      PROVE  upTo[k] = IF k = 0 THEN start ELSE Round(by, origin, k, upTo[k - Piece(k)])
  BY <1>4, <1>8
<1>10. ByRounds(upTo, by, origin, n)
  BY <1>1, <1>9 DEF ByRounds
<1> QED BY <1>10

(* It delivers what one read would. *)
LEMMA ChunksDeliver ==
    ASSUME MachineSizes, NEW by, NEW base \in Nat, NEW origin \in Nat, NEW n \in Nat,
           \A p, m \in Nat : ReadChunk(by, p, m) \in Results
    PROVE  /\ Chunked(by, origin, n) \in Results
           /\ (\A j \in 0 .. n, m \in 1 .. n : j + m <= n =>
                  Delivered(ReadChunk(by, origin + j, m), base + j, origin + j, m))
              => Delivered(Chunked(by, origin, n), base, origin, n)
<1> DEFINE D == 0 .. n
           Pieces == \A j \in 0 .. n, m \in 1 .. n : j + m <= n =>
                        Delivered(ReadChunk(by, origin + j, m), base + j, origin + j, m)
<1>0. PICK upTo : ByRounds(upTo, by, origin, n)
  BY ChunksAre
<1>1. /\ Chunked(by, origin, n) = upTo[n]
      /\ \A k \in 0 .. n :
            upTo[k] = IF k = 0 THEN Nothing(origin, "")
                      ELSE Round(by, origin, k, upTo[k - Piece(k)])
  BY <1>0 DEF ByRounds
<1> DEFINE start == Nothing(origin, "")
           S == {k \in D : upTo[k] \in Results /\ (Pieces => Delivered(upTo[k], base, origin, k))}
           m0 == [k \in D |-> k]
<1>2. start \in Results
  <2>1. "" \in Errors
    BY DEF Errors
  <2> QED BY <2>1, NothingIsTyped
<1>3. \A k \in D \ {0} : k - Piece(k) \in D /\ k - Piece(k) < k
  <2> SUFFICES ASSUME NEW k \in D \ {0} PROVE k - Piece(k) \in D /\ k - Piece(k) < k
    OBVIOUS
  <2>1. k \in Nat /\ k # 0
    OBVIOUS
  <2>2. k - Piece(k) \in 0 .. k - 1
    BY <2>1, PiecesFit
  <2> QED BY <2>2
<1> HIDE DEF Pieces
<1>4. ASSUME NEW k \in D, \A j \in D : j < k => j \in S PROVE k \in S
  <2>1. CASE k = 0
    <3>1. upTo[k] = [data |-> Bytes(base, 0), pos |-> origin + 0, err |-> ""]
      <4>1. upTo[k] = start
        BY <1>1, <2>1
      <4>2. Bytes(base, 0) = <<>> /\ origin + 0 = origin
        BY NoBytes
      <4>3. start = [data |-> <<>>, pos |-> origin, err |-> ""]
        BY DEF Nothing
      <4> HIDE DEF start
      <4> QED BY <4>1, <4>2, <4>3
    <3> QED BY <1>2, <1>1, <2>1, <3>1 DEF Delivered, S
  <2>2. CASE k # 0
    <3> DEFINE j == k - Piece(k)
               p == upTo[j]
    <3>1. j \in S /\ k \in Nat
      BY <1>3, <1>4, <2>2
    <3>2. p \in Results /\ (Pieces => Delivered(p, base, origin, j))
      BY <3>1
    <3>3. Piece(k) \in 1 .. n /\ j \in 0 .. n /\ j + Piece(k) <= n
      <4>1. Piece(k) \in 1 .. k /\ k - Piece(k) \in 0 .. k - 1
        BY <2>2, <3>1, PiecesFit
      <4> QED BY <4>1
    <3>4. origin + j \in Nat
      BY <3>3
    <3>5. upTo[k] = Round(by, origin, k, p)
      BY <1>1, <2>2
    <3> HIDE DEF p
    <3>6. ReadChunk(by, origin + j, Piece(k)) \in Results
      BY <3>3, <3>4
    <3>7. Pieces => Delivered(ReadChunk(by, origin + j, Piece(k)), base + j, origin + j, Piece(k))
      BY <3>3 DEF Pieces
    <3> HIDE DEF j
    <3>8. j = k - Piece(k)
      BY DEF j
    <3>9. Pieces => Delivered(Round(by, origin, k, p), base, origin, k)
      BY <2>2, <3>1, <3>2, <3>6, <3>7, <3>8, RoundDelivers
    <3>10. Round(by, origin, k, p) \in Results
      BY <2>2, <3>1, <3>2, RoundsAreTyped
    <3> QED BY <3>5, <3>9, <3>10
  <2> QED BY <2>1, <2>2
<1>5. n \in S
  <2>1. m0 \in [D -> 0 .. n] /\ \A k \in D : m0[k] = k
    BY DEF m0
  <2>2. \A x \in D : (\A y \in D : m0[y] < m0[x] => y \in S) => x \in S
    <3> HIDE DEF S
    <3> QED BY <1>4, <2>1
  <2>3. \A x \in D : x \in S
    <3>1. m0 \in [D -> 0 .. n]
      BY <2>1
    <3> HIDE DEF D, S, m0
    <3> QED BY <2>2, <3>1, MeasureInduction
  <2> QED BY <2>3
<1> QED BY <1>1, <1>5 DEF Pieces

(* io.ReadFull gives what there is, and says when that is not all. *)
LEMMA ReadFullIs ==
    ASSUME MachineSizes, NEW p \in Nat, NEW n \in Nat
    PROVE  LET g == Got(p, n)
           IN  /\ ReadFull(p, n) = [data |-> Bytes(p, g), pos |-> p + g,
                                    err |-> IF n = 0 \/ g = n THEN ""
                                            ELSE IF g = 0 THEN "EOF" ELSE "UnexpectedEOF"]
               /\ g \in 0 .. n
               /\ g = n <=> (n = 0 \/ p + n <= FileLen)
<1> DEFINE g == Got(p, n)
           r == Read(p, n)
           k == Len(r.data)
           d == Bytes(p, g)
<1>1. MaxInt \in Nat /\ FileLen \in Nat /\ FileLen < MaxInt
  BY Sizes
<1>2. g \in 0 .. n /\ (g = n <=> (n = 0 \/ p + n <= FileLen))
  BY ReaderAtAnswers
<1>3. r.data = d
  <2>1. CASE p >= MaxInt
    <3>1. g = 0
      BY <1>1, <2>1 DEF Got
    <3>2. d = <<>>
      BY <3>1, NoBytes
    <3>3. r.data = <<>>
      BY <2>1 DEF Read
    <3> QED BY <3>2, <3>3
  <2>2. CASE ~(p >= MaxInt)
    <3> DEFINE m == Smaller(n, MaxInt - p)
    <3>1. m \in Nat
      BY <1>1, <2>2 DEF Smaller
    <3>2. Got(p, m) = g
      BY <1>1, <2>2 DEF Got, Smaller
    <3>3. r = ReaderAt(p, m)
      BY <2>2 DEF Read
    <3> HIDE DEF m, g, r, d
    <3>4. r.data = Bytes(p, Got(p, m))
      <4> DEFINE b == Bytes(p, Got(p, m))
                 e == IF Got(p, m) < m THEN "EOF" ELSE ""
      <4>1. r = [data |-> b, err |-> e]
        BY <3>1, <3>3, ReaderAtAnswers
      <4> HIDE DEF b, e
      <4>2. r.data = b
        BY ONLY <4>1
      <4> QED BY <4>2 DEF b
    <3> QED BY <3>2, <3>4 DEF d
  <2> QED BY <2>1, <2>2
<1>4. k = g
  <2>1. Len(d) = g
    <3> HIDE DEF g
    <3> QED BY <1>2 DEF Bytes
  <2> HIDE DEF d, r, g
  <2> QED BY <1>3, <2>1
<1>5. ReadFull(p, n) = [data |-> r.data, pos |-> p + k,
                        err |-> IF n = 0 \/ k = n THEN ""
                                ELSE IF k = 0 THEN "EOF" ELSE "UnexpectedEOF"]
  BY DEF ReadFull
<1> HIDE DEF k, r, d
<1>6. ReadFull(p, n) = [data |-> d, pos |-> p + g,
                        err |-> IF n = 0 \/ g = n THEN ""
                                ELSE IF g = 0 THEN "EOF" ELSE "UnexpectedEOF"]
  <2> HIDE DEF g
  <2> QED BY <1>3, <1>4, <1>5
<1> QED BY <1>2, <1>6 DEF d

(* So it delivers. *)
LEMMA ReadFullDelivers ==
    ASSUME MachineSizes, NEW p \in Nat, NEW n \in Nat
    PROVE  /\ ReadFull(p, n) \in Results
           /\ Delivered(ReadFull(p, n), p, p, n)
<1> DEFINE g == Got(p, n)
           r == ReadFull(p, n)
           e == IF n = 0 \/ g = n THEN "" ELSE IF g = 0 THEN "EOF" ELSE "UnexpectedEOF"
<1>1. r = [data |-> Bytes(p, g), pos |-> p + g, err |-> e]
  BY ReadFullIs
<1>2. g \in 0 .. n /\ (g = n <=> (n = 0 \/ p + n <= FileLen))
  BY ReadFullIs
<1> HIDE DEF g, r
<1>3. e \in Errors /\ (g = n => e = "") /\ (g # n /\ n # 0 => e # "")
  BY DEF Errors
<1> HIDE DEF e
<1>4. Bytes(p, g) \in Seq(Nat) /\ p + g \in Nat
  BY <1>2, BytesAreTyped
<1>5. r \in Results
  <2> DEFINE d == Bytes(p, g)
             q == p + g
  <2>1. d \in Seq(Nat) /\ q \in Nat /\ r = [data |-> d, pos |-> q, err |-> e]
    BY <1>1, <1>4
  <2> HIDE DEF d, q
  <2> QED BY <1>3, <2>1 DEF Results
<1>6. Delivered(r, p, p, n)
  <2>1. CASE n = 0 \/ p + n <= FileLen
    <3>1. g = n /\ e = ""
      BY <1>2, <1>3, <2>1
    <3>2. r = [data |-> Bytes(p, n), pos |-> p + n, err |-> ""]
      BY <1>1, <3>1
    <3> QED BY <2>1, <3>2 DEF Delivered
  <2>2. CASE ~(n = 0 \/ p + n <= FileLen)
    <3>1. e # ""
      BY <1>2, <1>3, <2>2
    <3>2. r.err # ""
      BY <1>1, <3>1
    <3> QED BY <2>2, <3>2 DEF Delivered
  <2> QED BY <2>1, <2>2
<1> QED BY <1>5, <1>6 DEF r

(* What ReadAt answers, at any offset. *)
Typed(r) == r.data \in Seq(Nat) /\ r.err \in Errors

(* Bytes of the file, and an error of the list above. *)
LEMMA ReadAtIsTyped ==
    ASSUME MachineSizes, NEW n \in Nat, NEW off \in Int
    PROVE  Typed(ReadAt(n, off))
<1>1. MaxInt \in Nat
  BY Sizes
<1>2. "EOF" \in Errors /\ "" \in Errors
  BY DEF Errors
<1>3. CASE off < 0 \/ off >= MaxInt
  <2> DEFINE r == ReadAt(n, off)
  <2>1. r = [data |-> <<>>, err |-> "EOF"]
    BY <1>3 DEF ReadAt
  <2> HIDE DEF r
  <2>2. r.data \in Seq(Nat) /\ r.err = "EOF"
    BY ONLY <2>1
  <2> QED BY <1>2, <2>2 DEF Typed, r
<1>4. ASSUME NEW o \in Nat, NEW m \in Nat
      PROVE  ReaderAt(o, m).data \in Seq(Nat) /\ ReaderAt(o, m).err \in Errors
  <2> DEFINE r == ReaderAt(o, m)
             d == Bytes(o, Got(o, m))
             e == IF Got(o, m) < m THEN "EOF" ELSE ""
  <2>1. r = [data |-> d, err |-> e]
    BY ReaderAtAnswers
  <2>2. Got(o, m) \in 0 .. m
    BY ReaderAtAnswers
  <2>3. d \in Seq(Nat)
    BY <2>2, BytesAreTyped
  <2>4. e \in Errors
    BY <1>2
  <2> HIDE DEF r, d, e
  <2>5. r.data = d /\ r.err = e
    BY ONLY <2>1
  <2>6. r.data \in Seq(Nat) /\ r.err \in Errors
    BY ONLY <2>3, <2>4, <2>5
  <2> QED BY <2>6 DEF r
<1>5. CASE ~(off < 0 \/ off >= MaxInt) /\ n > MaxInt - off
  <2> DEFINE m == MaxInt - off
             r == ReaderAt(off, m)
  <2>1. ReadAt(n, off) = [r EXCEPT !.err = "EOF"]
    BY <1>5 DEF ReadAt
  <2>2. off \in Nat /\ m \in Nat
    BY <1>1, <1>5
  <2> HIDE DEF m
  <2>3. r.data \in Seq(Nat)
    BY <1>4, <2>2
  <2>4. r = [data |-> Bytes(off, Got(off, m)), err |-> IF Got(off, m) < m THEN "EOF" ELSE ""]
    BY <2>2, ReaderAtAnswers
  <2>5. ReadAt(n, off).data = r.data /\ ReadAt(n, off).err = "EOF"
    BY <2>1, <2>4
  <2> HIDE DEF r, Errors
  <2> QED BY <1>2, <2>3, <2>5 DEF Typed
<1>6. CASE ~(off < 0 \/ off >= MaxInt) /\ ~(n > MaxInt - off)
  <2>1. ReadAt(n, off) = ReaderAt(off, n)
    BY <1>6 DEF ReadAt
  <2>2. off \in Nat
    BY <1>6
  <2> QED BY <1>4, <2>1, <2>2 DEF Typed
<1> QED BY <1>3, <1>5, <1>6

-----------------------------------------------------------------------------
(* The segment table of a file: each address and each offset has at most   *)
(* one segment it fits.                                                    *)
Holds(i, x) == SegmentHeaders[i].addr <= x /\ x < SegmentHeaders[i].addr + SegmentHeaders[i].memsz

(* What the hypotheses say of each segment. *)
LEMMA SegmentsAre ==
    ASSUME MachineSizes, SegmentsLieApart
    PROVE  /\ \A i \in DOMAIN SegmentHeaders :
                 /\ SegmentHeaders[i].addr \in Nat /\ SegmentHeaders[i].memsz \in Nat
                 /\ SegmentHeaders[i].offset \in Nat /\ SegmentHeaders[i].filesz \in Nat
                 /\ SegmentHeaders[i].addr + SegmentHeaders[i].memsz < Wrap
                 /\ SegmentHeaders[i].offset + SegmentHeaders[i].memsz <= MaxInt
                 /\ SegmentHeaders[i].filesz <= SegmentHeaders[i].memsz
           /\ DOMAIN SegmentHeaders \subseteq Nat
<1> DEFINE T == [addr: Nat, memsz: Nat, offset: Nat, filesz: Nat]
           s == SegmentHeaders
<1>1. s \in Seq(T)
  BY DEF SegmentsLieApart
<1>2. \A i \in DOMAIN s : s[i] \in T
  <2> HIDE DEF s, T
  <2> QED BY ONLY <1>1
<1>3. \A i \in DOMAIN s : s[i].addr \in Nat /\ s[i].memsz \in Nat
                            /\ s[i].offset \in Nat /\ s[i].filesz \in Nat
  BY <1>2
<1>4. DOMAIN s \subseteq Nat
  <2> HIDE DEF s, T
  <2> QED BY ONLY <1>1
<1> QED BY <1>3, <1>4 DEF SegmentsLieApart

(* An address that one segment fits is converted by it, and so is an       *)
(* offset.                                                                 *)
LEMMA OneConverts ==
    ASSUME NEW x, NEW i \in DOMAIN SegmentHeaders, DOMAIN SegmentHeaders \subseteq Nat
    PROVE  /\ (\A j \in DOMAIN SegmentHeaders : Fits(x, SegmentHeaders[j].addr, SegmentHeaders[j].memsz) <=> j = i)
                 => getOffset(x) = (x - SegmentHeaders[i].addr + SegmentHeaders[i].offset) % Wrap
           /\ (\A j \in DOMAIN SegmentHeaders : Fits(x, SegmentHeaders[j].offset, SegmentHeaders[j].filesz) <=> j = i)
                 => getVMAddress(x) = (x - SegmentHeaders[i].offset + SegmentHeaders[i].addr) % Wrap
<1> DEFINE fits == {j \in DOMAIN SegmentHeaders : Fits(x, SegmentHeaders[j].addr, SegmentHeaders[j].memsz)}
           back == {j \in DOMAIN SegmentHeaders : Fits(x, SegmentHeaders[j].offset, SegmentHeaders[j].filesz)}
<1>1. Min({i}) = i /\ {i} # {}
  <2>1. i \in Nat
    OBVIOUS
  <2> QED BY <2>1 DEF Min
<1>2. getOffset(x) =
        IF fits = {} THEN Outside
        ELSE (x - SegmentHeaders[Min(fits)].addr + SegmentHeaders[Min(fits)].offset) % Wrap
  BY DEF Convert, getOffset
<1>3. getVMAddress(x) =
        IF back = {} THEN Outside
        ELSE (x - SegmentHeaders[Min(back)].offset + SegmentHeaders[Min(back)].addr) % Wrap
  BY DEF Convert, getVMAddress
<1>4. ASSUME \A j \in DOMAIN SegmentHeaders : Fits(x, SegmentHeaders[j].addr, SegmentHeaders[j].memsz) <=> j = i
      PROVE  fits = {i}
  BY <1>4
<1>5. ASSUME \A j \in DOMAIN SegmentHeaders : Fits(x, SegmentHeaders[j].offset, SegmentHeaders[j].filesz) <=> j = i
      PROVE  back = {i}
  BY <1>5
<1> HIDE DEF fits, back
<1>6. fits = {i} => getOffset(x) = (x - SegmentHeaders[i].addr + SegmentHeaders[i].offset) % Wrap
  BY <1>1, <1>2
<1>7. back = {i} => getVMAddress(x) = (x - SegmentHeaders[i].offset + SegmentHeaders[i].addr) % Wrap
  BY <1>1, <1>3
<1> QED BY <1>4, <1>5, <1>6, <1>7

(* One that none fits is outside. *)
LEMMA NoneConverts ==
    ASSUME NEW x, \A j \in DOMAIN SegmentHeaders : ~Fits(x, SegmentHeaders[j].addr, SegmentHeaders[j].memsz)
    PROVE  getOffset(x) = Outside
<1> DEFINE fits == {j \in DOMAIN SegmentHeaders : Fits(x, SegmentHeaders[j].addr, SegmentHeaders[j].memsz)}
<1>1. fits = {}
  OBVIOUS
<1>2. fits = {} => getOffset(x) = Outside
  BY DEF Convert, getOffset
<1> QED BY <1>1, <1>2

(* A number that fits in a word stays as it is. *)
LEMMA InAWord ==
    ASSUME NEW w \in Nat, NEW n \in Nat, n < w
    PROVE  n % w = n
OBVIOUS

(* At most one segment holds an address. *)
LEMMA HeldOnce ==
    ASSUME MachineSizes, SegmentsLieApart, NEW x \in Nat,
           NEW i \in DOMAIN SegmentHeaders, NEW j \in DOMAIN SegmentHeaders, Holds(i, x), Holds(j, x)
    PROVE  i = j
<1> SUFFICES ASSUME i # j PROVE FALSE
  OBVIOUS
<1> DEFINE a == SegmentHeaders[i].addr
           b == SegmentHeaders[j].addr
           m == SegmentHeaders[i].memsz
           n == SegmentHeaders[j].memsz
<1>1. a \in Nat /\ b \in Nat /\ m \in Nat /\ n \in Nat
  BY SegmentsAre
<1>2. a + m <= b \/ b + n <= a
  BY DEF SegmentsLieApart, Apart
<1>3. a <= x /\ x < a + m /\ b <= x /\ x < b + n
  BY DEF Holds
<1> HIDE DEF a, b, m, n
<1> QED BY <1>1, <1>2, <1>3

(* A segment fits the addresses it holds: its end does not wrap. *)
LEMMA FitsWhatItHolds ==
    ASSUME MachineSizes, SegmentsLieApart, NEW x \in Nat, NEW i \in DOMAIN SegmentHeaders
    PROVE  Fits(x, SegmentHeaders[i].addr, SegmentHeaders[i].memsz) <=> Holds(i, x)
<1> DEFINE a == SegmentHeaders[i].addr
           m == SegmentHeaders[i].memsz
           s == a + m
           w == Wrap
<1>1. a \in Nat /\ m \in Nat /\ s \in Nat /\ s < w /\ w \in Nat
  BY SegmentsAre, Sizes
<1> HIDE DEF s, w
<1>2. s % w = s
  BY <1>1, InAWord
<1>3. Fits(x, a, m) <=> (a <= x /\ x < s % w)
  BY DEF Fits, s, w
<1>4. Holds(i, x) <=> (a <= x /\ x < s)
  BY DEF Holds, s
<1> HIDE DEF a, m
<1>5. Fits(x, a, m) <=> Holds(i, x)
  BY <1>2, <1>3, <1>4
<1> QED BY <1>5 DEF a, m

(* An address a segment holds is an offset in the file, as far into the    *)
(* segment as the address is.                                              *)
LEMMA HeldIsConverted ==
    ASSUME MachineSizes, SegmentsLieApart, NEW x \in Nat, NEW i \in DOMAIN SegmentHeaders, Holds(i, x)
    PROVE  /\ getOffset(x) = x - SegmentHeaders[i].addr + SegmentHeaders[i].offset
           /\ getOffset(x) \in 0 .. MaxInt - 1
<1> DEFINE a == SegmentHeaders[i].addr
           m == SegmentHeaders[i].memsz
           o == SegmentHeaders[i].offset
           y == x - a + o
           w == Wrap
<1>1. DOMAIN SegmentHeaders \subseteq Nat
  BY SegmentsAre
<1>2. \A j \in DOMAIN SegmentHeaders :
         Fits(x, SegmentHeaders[j].addr, SegmentHeaders[j].memsz) <=> j = i
  BY FitsWhatItHolds, HeldOnce
<1>3. getOffset(x) = (x - SegmentHeaders[i].addr + SegmentHeaders[i].offset) % Wrap
  BY <1>1, <1>2, OneConverts
<1>4. getOffset(x) = y % w
  BY <1>3
<1>5. /\ a \in Nat /\ m \in Nat /\ o \in Nat /\ o + m <= MaxInt
      /\ MaxInt \in Nat /\ MaxInt < w /\ w \in Nat
  BY SegmentsAre, Sizes
<1>6. a <= x /\ x < a + m
  BY DEF Holds
<1>7. y \in 0 .. MaxInt - 1 /\ y = x - a + o
  <2> HIDE DEF a, m, o
  <2> QED BY <1>5, <1>6
<1> HIDE DEF y, w
<1>8. y % w = y
  <2>1. y \in Nat /\ y < w
    BY <1>5, <1>7
  <2> QED BY <1>5, <2>1, InAWord
<1>9. getOffset(x) = y
  BY <1>4, <1>8
<1> QED BY <1>7, <1>9

(* Other addresses are outside. *)
LEMMA OthersAreOutside ==
    ASSUME MachineSizes, SegmentsLieApart, NEW x \in Nat,
           \A i \in DOMAIN SegmentHeaders : ~Holds(i, x)
    PROVE  getOffset(x) = Outside
<1>1. \A i \in DOMAIN SegmentHeaders : ~Fits(x, SegmentHeaders[i].addr, SegmentHeaders[i].memsz)
  BY FitsWhatItHolds
<1> QED BY <1>1, NoneConverts

-----------------------------------------------------------------------------
(* What lies in one segment.                                               *)
InOne(a, n) ==
    \E i \in DOMAIN SegmentHeaders :
        a >= SegmentHeaders[i].addr /\ a + n <= SegmentHeaders[i].addr + SegmentHeaders[i].memsz

(* A read at an address is typed, wherever it is. *)
LEMMA ReadAtAddrIsTyped ==
    ASSUME MachineSizes, SegmentsLieApart, NEW n \in Nat, NEW x \in Nat
    PROVE  Typed(ReadAtAddr(n, x))
<1>1. CASE \E i \in DOMAIN SegmentHeaders : Holds(i, x)
  <2>1. getOffset(x) \in 0 .. MaxInt - 1 /\ MaxInt \in Nat
    BY <1>1, HeldIsConverted, Sizes
  <2> DEFINE o == getOffset(x)
  <2>2. o # Outside /\ o \in 0 .. MaxInt /\ o \in Int
    BY <2>1 DEF Outside
  <2>3. ReadAtAddr(n, x) = ReadAt(n, Signed(o))
    BY <2>2 DEF ReadAtAddr
  <2> HIDE DEF o
  <2>4. Signed(o) = o
    BY <2>2, SmallIsSigned
  <2>5. Typed(ReadAt(n, o))
    BY <2>2, ReadAtIsTyped
  <2> QED BY <2>3, <2>4, <2>5
<1>2. CASE ~\E i \in DOMAIN SegmentHeaders : Holds(i, x)
  <2> DEFINE r == ReadAtAddr(n, x)
  <2>1. getOffset(x) = Outside
    BY <1>2, OthersAreOutside
  <2>2. r = [data |-> <<>>, err |-> "address"]
    BY <2>1 DEF ReadAtAddr
  <2>3. "address" \in Errors
    BY DEF Errors
  <2> HIDE DEF r
  <2>4. r.data \in Seq(Nat) /\ r.err = "address"
    BY ONLY <2>2
  <2> QED BY <2>3, <2>4 DEF Typed, r
<1> QED BY <1>1, <1>2

(* So is one through an addrReaderAt. *)
LEMMA AddrReaderIsTyped ==
    ASSUME MachineSizes, SegmentsLieApart, NEW n \in Nat, NEW a \in Nat, NEW off \in Nat
    PROVE  Typed(addrReaderAt(a, n, off))
<1> DEFINE r == addrReaderAt(a, n, off)
<1>1. CASE off < 0 \/ off > Wrap - 1 - a
  <2>1. r = [data |-> <<>>, err |-> "range"]
    BY <1>1 DEF addrReaderAt
  <2>2. "range" \in Errors
    BY DEF Errors
  <2> HIDE DEF r
  <2>3. r.data \in Seq(Nat) /\ r.err = "range"
    BY ONLY <2>1
  <2> QED BY <2>2, <2>3 DEF Typed, r
<1>2. CASE ~(off < 0 \/ off > Wrap - 1 - a)
  <2>1. r = ReadAtAddr(n, a + off)
    BY <1>2 DEF addrReaderAt
  <2>2. a + off \in Nat
    OBVIOUS
  <2> QED BY <2>1, <2>2, ReadAtAddrIsTyped
<1> QED BY <1>1, <1>2

(* Within a segment it answers with the bytes from the offset of a on.     *)
LEMMA AddrReaderAnswers ==
    ASSUME MachineSizes, SegmentsLieApart, NEW a \in Nat, NEW k \in Nat, InOne(a, k),
           NEW off \in Nat, NEW n \in Nat, n # 0, off + n <= k
    PROVE  /\ getOffset(a) \in 0 .. MaxInt - 1
           /\ Answered(addrReaderAt(a, n, off), getOffset(a) + off, n)
<1>1. PICK i \in DOMAIN SegmentHeaders :
         a >= SegmentHeaders[i].addr /\ a + k <= SegmentHeaders[i].addr + SegmentHeaders[i].memsz
  BY DEF InOne
<1> DEFINE f == SegmentHeaders[i].addr
           m == SegmentHeaders[i].memsz
           o == SegmentHeaders[i].offset
           x == a + off
<1>2. f \in Nat /\ m \in Nat /\ o \in Nat /\ f + m < Wrap /\ Wrap \in Nat /\ MaxInt \in Nat
  BY SegmentsAre, Sizes
<1>3. x \in Nat /\ f <= a /\ a < f + m /\ f <= x /\ x < f + m /\ off <= Wrap - 1 - a
  <2>1. f <= a /\ a + k <= f + m
    BY <1>1
  <2> HIDE DEF f, m
  <2> QED BY <1>2, <2>1
<1>4. Holds(i, a) /\ Holds(i, x)
  BY <1>3 DEF Holds
<1>5. /\ getOffset(a) = a - f + o /\ getOffset(a) \in 0 .. MaxInt - 1
      /\ getOffset(x) = x - f + o /\ getOffset(x) \in 0 .. MaxInt - 1
  BY <1>3, <1>4, HeldIsConverted
<1>6. addrReaderAt(a, n, off) = ReadAtAddr(n, x)
  <2>1. ~(off < 0 \/ off > Wrap - 1 - a)
    BY <1>2, <1>3
  <2> QED BY <2>1 DEF addrReaderAt
<1> DEFINE b == getOffset(a)
           y == getOffset(x)
<1>7. ReadAtAddr(n, x) = ReadAt(n, Signed(y)) /\ y # Outside
  <2>1. y # Outside
    BY <1>2, <1>5 DEF Outside
  <2> QED BY <2>1 DEF ReadAtAddr
<1>8. y = b + off
  <2>1. b = a - f + o /\ y = x - f + o /\ x = a + off
    BY <1>5
  <2>2. f \in Nat /\ o \in Nat
    BY <1>2
  <2> HIDE DEF f, o, b, y, x
  <2> QED BY <2>1, <2>2
<1> HIDE DEF x, y, b
<1>9. y \in 0 .. MaxInt /\ y \in Nat
  BY <1>2, <1>5 DEF y
<1>10. Signed(y) = y
  BY <1>9, SmallIsSigned
<1>11. Answered(ReadAt(n, y), y, n)
  BY <1>9, ReadAtAnswers
<1>12. Answered(addrReaderAt(a, n, off), b + off, n)
  BY <1>6, <1>7, <1>8, <1>10, <1>11
<1> QED BY <1>5, <1>12 DEF b

(* The chunks of a read at an address. *)
LEMMA AddressChunks ==
    ASSUME MachineSizes, SegmentsLieApart, NEW a \in Nat, NEW p \in Nat, NEW n \in Nat
    PROVE  LET r == ReadChunk(AtAddress(a), p, n)
           IN  /\ r \in Results
               /\ r = [data |-> addrReaderAt(a, n, p).data, err |-> addrReaderAt(a, n, p).err,
                       pos |-> p + n]
<1> DEFINE r == ReadChunk(AtAddress(a), p, n)
           d == addrReaderAt(a, n, p).data
           e == addrReaderAt(a, n, p).err
           q == p + n
<1>1. r = [data |-> d, err |-> e, pos |-> q]
  BY DEF ReadChunk, At, AtAddress
<1>2. d \in Seq(Nat) /\ e \in Errors /\ q \in Nat
  BY AddrReaderIsTyped DEF Typed
<1> HIDE DEF r, d, e, q
<1>3. r \in Results
  BY <1>1, <1>2 DEF Results
<1> QED BY <1>1, <1>3 DEF r, d, e, q

(* Bytes at an address, chunk by chunk. *)
LEMMA AddressChunksDeliver ==
    ASSUME MachineSizes, SegmentsLieApart, NEW a \in Nat, NEW n \in Nat, n # 0, InOne(a, n)
    PROVE  Delivered(Chunked(AtAddress(a), 0, n), getOffset(a), 0, n)
<1> DEFINE b == getOffset(a)
           by == AtAddress(a)
<1>1. b \in 0 .. MaxInt - 1 /\ MaxInt \in Nat
  BY AddrReaderAnswers, Sizes
<1>2. b \in Nat
  BY <1>1
<1>3. \A p, m \in Nat : ReadChunk(by, p, m) \in Results
  BY AddressChunks
<1>4. ASSUME NEW j \in 0 .. n, NEW m \in 1 .. n, j + m <= n
      PROVE  Delivered(ReadChunk(by, 0 + j, m), b + j, 0 + j, m)
  <2> DEFINE r == ReadChunk(by, j, m)
             s == addrReaderAt(a, m, j)
  <2>1. j \in Nat /\ m \in Nat /\ m # 0
    BY <1>4
  <2>2. Answered(s, b + j, m)
    BY <1>4, <2>1, AddrReaderAnswers
  <2>3. r = [data |-> s.data, err |-> s.err, pos |-> j + m]
    BY <2>1, AddressChunks
  <2> HIDE DEF s, r, b, by
  <2>4. CASE b + j + m <= FileLen
    <3>1. s.data = Bytes(b + j, m) /\ s.err = ""
      BY <2>2, <2>4 DEF Answered
    <3>2. r = [data |-> Bytes(b + j, m), pos |-> j + m, err |-> ""]
      BY <2>3, <3>1
    <3>3. Delivered(r, b + j, j, m)
      BY <2>4, <3>2 DEF Delivered
    <3> QED BY <2>1, <3>3 DEF r
  <2>5. CASE ~(b + j + m <= FileLen)
    <3>1. s.err # ""
      BY <2>1, <2>2, <2>5 DEF Answered
    <3>2. r.err # ""
      BY <2>3, <3>1
    <3>3. Delivered(r, b + j, j, m)
      BY <2>1, <2>5, <3>2 DEF Delivered
    <3> QED BY <2>1, <3>3 DEF r
  <2> QED BY <2>4, <2>5
<1> HIDE DEF b, by
<1>5. Delivered(Chunked(by, 0, n), b, 0, n)
  BY <1>2, <1>3, <1>4, ChunksDeliver
<1> QED BY <1>5 DEF b, by

-----------------------------------------------------------------------------
(* A count whose sign bit is set is more than any file has.                *)
LEMMA NegativeIsTooMuch ==
    ASSUME MachineSizes, NEW n \in Nat, Signed(n) < 0
    PROVE  n > FileLen
<1> SUFFICES ASSUME n <= FileLen PROVE FALSE
  BY Sizes
<1>1. n \in 0 .. MaxInt
  BY Sizes
<1> QED BY <1>1, SmallIsSigned

(* readDataFrom gives what one read would, for small counts and large ones. *)
LEMMA ReadDataFromDelivers ==
    ASSUME MachineSizes, NEW p \in Nat, NEW n \in Nat
    PROVE  /\ readDataFrom(p, n) \in Results
           /\ Delivered(readDataFrom(p, n), p, p, n)
<1>1. CASE n < Chunk
  BY <1>1, ReadFullDelivers DEF readDataFrom
<1>2. CASE ~(n < Chunk) /\ Signed(n) < 0
  <2> DEFINE r == Nothing(p, "UnexpectedEOF")
  <2>1. readDataFrom(p, n) = r
    BY <1>2 DEF readDataFrom, ReadData
  <2>2. n > FileLen /\ FileLen \in Nat
    BY <1>2, NegativeIsTooMuch, Sizes
  <2>3. r \in Results
    <3>1. "UnexpectedEOF" \in Errors
      BY DEF Errors
    <3> QED BY <3>1, NothingIsTyped
  <2>4. r.err # ""
    BY DEF Nothing
  <2> HIDE DEF r
  <2>5. ~(n = 0 \/ p + n <= FileLen)
    BY <2>2
  <2>6. Delivered(r, p, p, n)
    BY <2>4, <2>5 DEF Delivered
  <2> QED BY <2>1, <2>3, <2>6
<1>3. CASE ~(n < Chunk) /\ ~(Signed(n) < 0)
  <2>1. readDataFrom(p, n) = Chunked(OnCursor, p, n)
    BY <1>3 DEF readDataFrom, ReadData
  <2>2. ASSUME NEW q \in Nat, NEW m \in Nat
        PROVE  /\ ReadChunk(OnCursor, q, m) \in Results
               /\ Delivered(ReadChunk(OnCursor, q, m), q, q, m)
    <3>1. ReadChunk(OnCursor, q, m) = ReadFull(q, m)
      BY DEF ReadChunk, OnCursor
    <3> QED BY <3>1, ReadFullDelivers
  <2>3. \A j \in 0 .. n, m \in 1 .. n : j + m <= n =>
           Delivered(ReadChunk(OnCursor, p + j, m), p + j, p + j, m)
    BY <2>2
  <2>4. Delivered(Chunked(OnCursor, p, n), p, p, n)
    BY <2>2, <2>3, ChunksDeliver
  <2>5. Chunked(OnCursor, p, n) \in Results
    BY <2>2, ChunksDeliver
  <2> QED BY <2>1, <2>4, <2>5
<1> QED BY <1>1, <1>2, <1>3

(* So does readDataAtAddr, in one segment. *)
LEMMA ReadDataAtAddrAnswers ==
    ASSUME MachineSizes, SegmentsLieApart, NEW a \in Nat, NEW n \in Nat,
           getOffset(a) # Outside, InOne(a, n)
    PROVE  Answered(readDataAtAddr(n, a), getOffset(a), n)
<1> DEFINE b == getOffset(a)
<1>1. PICK i \in DOMAIN SegmentHeaders : Holds(i, a)
  BY OthersAreOutside
<1>2. b \in 0 .. MaxInt - 1 /\ MaxInt \in Nat /\ FileLen \in Nat /\ b \in Nat
  BY <1>1, HeldIsConverted, Sizes
<1>3. CASE n < Chunk
  <2>1. readDataAtAddr(n, a) = ReadAt(n, Signed(b))
    BY <1>3 DEF readDataAtAddr, ReadAtAddr
  <2> HIDE DEF b
  <2>2. Signed(b) = b
    <3>1. b \in 0 .. MaxInt
      BY <1>2
    <3> QED BY <3>1, SmallIsSigned
  <2>3. Answered(ReadAt(n, b), b, n)
    BY <1>2, ReadAtAnswers
  <2>4. Answered(readDataAtAddr(n, a), b, n)
    BY <2>1, <2>2, <2>3
  <2> QED BY <2>4 DEF b
<1>4. CASE ~(n < Chunk) /\ Signed(n) < 0
  <2>1. readDataAtAddr(n, a) = Nothing(0, "UnexpectedEOF")
    BY <1>4 DEF readDataAtAddr, ReadDataAt
  <2>2. readDataAtAddr(n, a).err # ""
    BY <2>1 DEF Nothing
  <2>3. n > FileLen
    BY <1>4, NegativeIsTooMuch
  <2> HIDE DEF b
  <2>4. ~(n = 0 \/ b + n <= FileLen)
    BY <1>2, <2>3
  <2>5. Answered(readDataAtAddr(n, a), b, n)
    BY <2>2, <2>4 DEF Answered
  <2> QED BY <2>5 DEF b
<1>5. CASE ~(n < Chunk) /\ ~(Signed(n) < 0)
  <2>1. readDataAtAddr(n, a) = Chunked(AtAddress(a), 0, n)
    BY <1>5 DEF readDataAtAddr, ReadDataAt
  <2>2. n # 0
    BY <1>5 DEF MachineSizes
  <2>3. Delivered(Chunked(AtAddress(a), 0, n), b, 0, n)
    BY <2>2, AddressChunksDeliver
  <2>4. Delivered(readDataAtAddr(n, a), b, 0, n)
    BY <2>1, <2>3
  <2> DEFINE r == readDataAtAddr(n, a)
  <2> HIDE DEF b, r
  <2>5. Delivered(r, b, 0, n)
    BY <2>4 DEF r
  <2>6. Answered(r, b, n)
    <3>1. CASE n = 0 \/ b + n <= FileLen
      <4>1. r = [data |-> Bytes(b, n), pos |-> 0 + n, err |-> ""]
        BY <2>5, <3>1 DEF Delivered
      <4>2. r.data = Bytes(b, n) /\ r.err = ""
        BY ONLY <4>1
      <4> QED BY <3>1, <4>2 DEF Answered
    <3>2. CASE ~(n = 0 \/ b + n <= FileLen)
      <4>1. r.err # ""
        BY <2>5, <3>2 DEF Delivered
      <4> QED BY <3>2, <4>1 DEF Answered
    <3> QED BY <3>1, <3>2
  <2> QED BY <2>6 DEF b, r
<1> QED BY <1>3, <1>4, <1>5

(* Whatever it answers is typed. *)
LEMMA ReadDataAtAddrIsTyped ==
    ASSUME MachineSizes, SegmentsLieApart, NEW a \in Nat, NEW n \in Nat
    PROVE  Typed(readDataAtAddr(n, a))
<1>1. CASE n < Chunk
  <2>1. readDataAtAddr(n, a) = ReadAtAddr(n, a)
    BY <1>1 DEF readDataAtAddr
  <2> QED BY <2>1, ReadAtAddrIsTyped
<1>2. CASE ~(n < Chunk) /\ Signed(n) < 0
  <2>1. readDataAtAddr(n, a) = Nothing(0, "UnexpectedEOF")
    BY <1>2 DEF readDataAtAddr, ReadDataAt
  <2>2. Nothing(0, "UnexpectedEOF") \in Results
    <3>1. "UnexpectedEOF" \in Errors
      BY DEF Errors
    <3> QED BY <3>1, NothingIsTyped
  <2>3. readDataAtAddr(n, a) \in Results
    BY <2>1, <2>2
  <2> QED BY <2>3 DEF Typed, Results
<1>3. CASE ~(n < Chunk) /\ ~(Signed(n) < 0)
  <2>1. readDataAtAddr(n, a) = Chunked(AtAddress(a), 0, n)
    BY <1>3 DEF readDataAtAddr, ReadDataAt
  <2>2. \A p, m \in Nat : ReadChunk(AtAddress(a), p, m) \in Results
    BY AddressChunks
  <2>3. Chunked(AtAddress(a), 0, n) \in Results
    BY <2>2, ChunksDeliver
  <2>4. readDataAtAddr(n, a) \in Results
    BY <2>1, <2>3
  <2> QED BY <2>4 DEF Typed, Results
<1> QED BY <1>1, <1>2, <1>3

(* More than the quotient of m by e, taken e times, is more than m. *)
LEMMA MoreThanTheQuotient ==
    ASSUME NEW m \in Nat, NEW e \in Nat \ {0}, NEW c \in Nat, c > m \div e
    PROVE  c * e > m
<1> DEFINE q == m \div e
           r == m % e
<1>1. q \in Nat /\ r \in 0 .. e - 1 /\ m = q * e + r
  OBVIOUS
<1>2. PICK d \in Nat : c = q + 1 + d
  <2> HIDE DEF q
  <2>1. c - q - 1 \in Nat /\ c = q + 1 + (c - q - 1)
    BY <1>1 DEF q
  <2> QED BY <2>1
<1> HIDE DEF q, r
<1>3. c * e = q * e + e + d * e /\ d * e \in Nat /\ q * e \in Nat
  BY <1>1, <1>2
<1> DEFINE x == q * e
           y == d * e
           z == c * e
<1>4. z = x + e + y /\ y \in Nat /\ x \in Nat /\ m = x + r
  BY <1>1, <1>3
<1> HIDE DEF x, y, z
<1>5. z > m
  BY <1>1, <1>4
<1> QED BY <1>5 DEF z

(* checkReadCount refuses nothing the file has. *)
LEMMA RefusedIsMissing ==
    ASSUME MachineSizes, NEW p \in Nat, NEW count \in Nat, NEW e \in Nat,
           ~checkReadCount("macho", p, count, e)
    PROVE  ~(count * e = 0 \/ p + count * e <= FileLen)
<1> DEFINE n == count * e
<1>1. count # 0 /\ e # 0
  BY DEF checkReadCount
<1>2. n \in Nat /\ n # 0
  BY <1>1
<1>3. FileLen \in Nat /\ MaxInt \in Nat /\ FileLen < MaxInt
  BY Sizes
<1>4. CASE count > MaxInt \div e
  <2>1. n > MaxInt
    BY <1>1, <1>3, <1>4, MoreThanTheQuotient
  <2> HIDE DEF n
  <2>2. ~(n = 0 \/ p + n <= FileLen)
    BY <1>2, <1>3, <2>1
  <2> QED BY <2>2 DEF n
<1>5. CASE ~(count > MaxInt \div e)
  <2> DEFINE q == p + n - 1
  <2>1. MaxInt \div e \in Int
    BY <1>1, <1>3
  <2>2. count <= MaxInt \div e
    <3> DEFINE u == MaxInt \div e
    <3> HIDE DEF u
    <3> QED BY <1>5, <2>1 DEF u
  <2>3. ~(p <= MaxInt - n /\ Len(ReadAt(1, q).data) = 1)
    BY <1>1, <2>2 DEF checkReadCount
  <2> HIDE DEF n
  <2>4. CASE ~(p <= MaxInt - n)
    <3>1. ~(n = 0 \/ p + n <= FileLen)
      BY <1>2, <1>3, <2>4
    <3> QED BY <3>1 DEF n
  <2>5. CASE p <= MaxInt - n /\ Len(ReadAt(1, q).data) # 1
    <3>1. q \in Nat /\ q < MaxInt /\ ~(1 > MaxInt - q) /\ q + 1 = p + n
      BY <1>2, <1>3, <2>5
    <3> HIDE DEF q
    <3>2. ReadAt(1, q) = ReaderAt(q, 1)
      BY <1>3, <3>1 DEF ReadAt
    <3> DEFINE r == ReadAt(1, q)
               d == Bytes(q, Got(q, 1))
               x == IF Got(q, 1) < 1 THEN "EOF" ELSE ""
    <3>3. r = [data |-> d, err |-> x]
      <4>1. 1 \in Nat
        OBVIOUS
      <4>2. ReaderAt(q, 1) = [data |-> d, err |-> x]
        BY <3>1, <4>1, ReaderAtAnswers
      <4> HIDE DEF d, x
      <4>3. ReadAt(1, q) = [data |-> d, err |-> x]
        BY ONLY <3>2, <4>2
      <4> QED BY <4>3
    <3>4. Got(q, 1) \in 0 .. 1 /\ (Got(q, 1) = 1 <=> q + 1 <= FileLen)
      <4>1. \A m \in Nat : /\ Got(q, m) \in 0 .. m
                           /\ Got(q, m) = m <=> (m = 0 \/ q + m <= FileLen)
        BY <3>1, ReaderAtAnswers
      <4>2. 1 \in Nat /\ 1 # 0
        OBVIOUS
      <4> QED BY <4>1, <4>2
    <3>5. Len(d) = Got(q, 1)
      BY <3>4 DEF Bytes
    <3> HIDE DEF r, d, x
    <3>6. r.data = d
      BY ONLY <3>3
    <3>7. Got(q, 1) # 1
      BY <2>5, <3>5, <3>6 DEF r
    <3>8. ~(n = 0 \/ p + n <= FileLen)
      BY <1>2, <1>3, <3>1, <3>4, <3>7
    <3> QED BY <3>8 DEF n
  <2> QED BY <2>3, <2>4, <2>5
<1> QED BY <1>4, <1>5

(* Section.ReadAt answers with bytes of the section. *)
LEMMA SectionDataAnswers ==
    ASSUME MachineSizes, SegmentsLieApart, SectionsLieInSegments,
           NEW s \in SectionHeaders, NEW off \in Nat, NEW n \in Nat, off < s.size, off + n <= s.size
    PROVE  Answered(sectionData(s, off, n), s.offset + off, n)
<1>1. /\ s.size \in Nat /\ s.addr \in Nat /\ s.offset \in Nat
      /\ s.offset + s.size <= MaxInt
  BY DEF SectionsLieInSegments
<1>2. MaxInt \in Nat /\ s.offset + off \in Nat /\ s.offset + off < MaxInt /\ ~(s.size > MaxInt)
  BY <1>1, Sizes
<1> DEFINE o == s.offset + off
<1>3. CASE s.addr = 0 \/ s.seg = "__DWARF"
  <2>1. sectionData(s, off, n) = ReadAt(n, o)
    BY <1>2, <1>3 DEF sectionData
  <2>2. Answered(ReadAt(n, o), o, n)
    BY <1>2, ReadAtAnswers
  <2> QED BY <2>1, <2>2
<1>4. CASE ~(s.addr = 0 \/ s.seg = "__DWARF")
  <2>1. sectionData(s, off, n) = addrReaderAt(s.addr, n, off)
    BY <1>2, <1>4 DEF sectionData
  <2>2. PICK i \in DOMAIN SegmentHeaders :
           /\ s.addr >= SegmentHeaders[i].addr
           /\ s.addr + s.size <= SegmentHeaders[i].addr + SegmentHeaders[i].memsz
           /\ s.offset - SegmentHeaders[i].offset = s.addr - SegmentHeaders[i].addr
    BY <1>4 DEF SectionsLieInSegments
  <2> DEFINE a == s.addr
             z == s.size
             t == s.offset
             f == SegmentHeaders[i].addr
             m == SegmentHeaders[i].memsz
             g == SegmentHeaders[i].offset
  <2>3. /\ a \in Nat /\ z \in Nat /\ t \in Nat /\ f \in Nat /\ m \in Nat /\ g \in Nat
        /\ f <= a /\ a + z <= f + m /\ t - g = a - f /\ off < z /\ off + n <= z
        /\ f + m < Wrap /\ Wrap \in Nat
    BY <1>1, <2>2, SegmentsAre, Sizes
  <2>8. \A x \in Nat : Holds(i, x) => getOffset(x) = x - f + g
    BY HeldIsConverted
  <2>4. Holds(i, a) /\ Holds(i, a + off) /\ a + off \in Nat
    <3> HIDE DEF a, z, t, f, m, g
    <3>1. f <= a /\ a < f + m /\ f <= a + off /\ a + off < f + m /\ a + off \in Nat
      BY <2>3
    <3> QED BY <3>1 DEF Holds, f, m
  <2>5. getOffset(a) = t
    <3>1. getOffset(a) = a - f + g
      BY <1>1, <2>4, HeldIsConverted
    <3> HIDE DEF a, z, t, f, m, g
    <3> QED BY <2>3, <3>1
  <2>6. CASE n # 0
    <3>1. InOne(a, z)
      BY <2>2 DEF InOne
    <3>2. Answered(addrReaderAt(a, n, off), getOffset(a) + off, n)
      BY <1>1, <2>6, <3>1, AddrReaderAnswers
    <3> QED BY <2>1, <2>5, <3>2
  <2>7. CASE n = 0
    <3>1. getOffset(a + off) = t + off
      <4>1. getOffset(a + off) = a + off - f + g
        <5>1. a + off \in Nat /\ Holds(i, a + off)
          BY <2>4
        <5> HIDE DEF a, z, t, f, m, g
        <5> QED BY <2>3, <2>8, <5>1
      <4> HIDE DEF a, z, t, f, m, g
      <4> QED BY <2>3, <4>1
    <3>2. ~(off < 0 \/ off > Wrap - 1 - a)
      <4> HIDE DEF a, z, t, f, m, g
      <4> QED BY <2>3
    <3>3. addrReaderAt(a, n, off) = ReadAtAddr(n, a + off)
      BY <3>2 DEF addrReaderAt
    <3>4. o \in 0 .. MaxInt /\ o # Outside /\ o = t + off
      BY <1>2 DEF Outside
    <3>5. ReadAtAddr(n, a + off) = ReadAt(n, Signed(o))
      BY <3>1, <3>4 DEF ReadAtAddr
    <3>6. Signed(o) = o
      BY <3>4, SmallIsSigned
    <3>7. Answered(ReadAt(n, o), o, n)
      BY <1>2, ReadAtAnswers
    <3> QED BY <2>1, <3>3, <3>5, <3>6, <3>7
  <2> QED BY <2>6, <2>7
<1> QED BY <1>3, <1>4

-----------------------------------------------------------------------------
(* The invariant: a call that has sought stands where it sought, with a    *)
(* cursor that is its own, and one that is done has what it asked for.     *)
Complete(k) ==
    IF k.n = 0 \/ k.want + k.n <= FileLen
    THEN k.got = [data |-> Bytes(k.want, k.n), err |-> "", pos |-> k.want + k.n]
    ELSE k.got.err # ""

Sound(k, q) ==
    /\ k.op = "sought" => k.want \in 0 .. MaxInt - 1 /\ q = k.want
    /\ k.op = "done" /\ k.want # Outside /\ OneSegment(k) => Complete(k)

Records ==
    [ op: {"idle", "open", "sought", "done"}, want: Int, n: Nat, by: Int,
      got: [data: Seq(Nat), pos: Int, err: Errors \cup {"size"}] ]

ReadsInv ==
    /\ pos \in [Calls \cup {"cr"} -> Nat]
    /\ call \in [Calls -> Records]
    /\ \A c \in Calls : Sound(call[c], pos[c])

(* A step of one call touches its own record and its own cursor. *)
LEMMA OwnStepKeeps ==
    ASSUME ReadsInv, NEW c \in Calls, NEW k \in Records, NEW q \in Nat, Sound(k, q),
           call' = [call EXCEPT ![c] = k], pos' = [pos EXCEPT ![c] = q]
    PROVE  ReadsInv'
<1>1. pos \in [Calls \cup {"cr"} -> Nat] /\ call \in [Calls -> Records]
  BY DEF ReadsInv
<1>2. pos' \in [Calls \cup {"cr"} -> Nat] /\ call' \in [Calls -> Records]
  BY <1>1
<1>3. ASSUME NEW d \in Calls PROVE Sound(call'[d], pos'[d])
  <2>1. CASE d = c
    BY <1>1, <2>1
  <2>2. CASE d # c
    <3>1. call'[d] = call[d] /\ pos'[d] = pos[d]
      BY <1>1, <2>2
    <3>2. Sound(call[d], pos[d])
      BY DEF ReadsInv
    <3> QED BY <3>1, <3>2
  <2> QED BY <2>1, <2>2
<1> QED BY <1>2, <1>3 DEF ReadsInv

(* Results are records of what was got. *)
LEMMA GotIsTyped ==
    ASSUME NEW d, NEW e, NEW q \in Int, d \in Seq(Nat), e \in Errors \cup {"size"}
    PROVE  [data |-> d, err |-> e, pos |-> q]
             \in [data: Seq(Nat), pos: Int, err: Errors \cup {"size"}]
OBVIOUS

(* A call of typed fields is typed. *)
LEMMA CallIsTyped ==
    ASSUME NEW op \in {"idle", "open", "sought", "done"}, NEW want \in Int, NEW n \in Nat,
           NEW by \in Int, NEW got \in [data: Seq(Nat), pos: Int, err: Errors \cup {"size"}]
    PROVE  Call(op, want, n, by, got) \in Records
<1> DEFINE G == [data: Seq(Nat), pos: Int, err: Errors \cup {"size"}]
<1>1. got \in G
  OBVIOUS
<1> HIDE DEF G
<1>2. [op |-> op, want |-> want, n |-> n, by |-> by, got |-> got]
        \in [op: {"idle", "open", "sought", "done"}, want: Int, n: Nat, by: Int, got: G]
  BY <1>1
<1> QED BY <1>2 DEF Call, Records, G

(* Nothing is a result too. *)
LEMMA NothingIsGot ==
    ASSUME NEW p \in Nat, NEW e \in Errors
    PROVE  Nothing(p, e) \in [data: Seq(Nat), pos: Int, err: Errors \cup {"size"}]
<1>1. <<>> \in Seq(Nat) /\ p \in Int /\ e \in Errors \cup {"size"}
  OBVIOUS
<1> QED BY <1>1, GotIsTyped DEF Nothing

(* A call that has not sought anything is sound. *)
LEMMA NewCalls ==
    ASSUME NEW op \in {"idle", "open"}, NEW q \in Nat
    PROVE  /\ Call(op, 0, 0, Outside, Nothing(0, "")) \in Records
           /\ Sound(Call(op, 0, 0, Outside, Nothing(0, "")), q)
<1> DEFINE g == Nothing(0, "")
           k == Call(op, 0, 0, Outside, g)
<1>1. g \in [data: Seq(Nat), pos: Int, err: Errors \cup {"size"}]
  <2>1. 0 \in Nat /\ "" \in Errors
    BY DEF Errors
  <2> QED BY <2>1, NothingIsGot
<1>2. Outside \in Int
  BY DEF Outside
<1> HIDE DEF g
<1>3. k \in Records
  <2>1. 0 \in Int /\ 0 \in Nat /\ op \in {"idle", "open", "sought", "done"}
    OBVIOUS
  <2> QED BY <1>1, <1>2, <2>1, CallIsTyped
<1>4. k.op # "sought" /\ k.op # "done"
  BY DEF Call
<1> HIDE DEF k
<1>5. Sound(k, q)
  BY <1>4 DEF Sound
<1> QED BY <1>3, <1>5 DEF k, g

(* Init. *)
LEMMA InitIsSound == ASSUME ReadersInit PROVE ReadsInv
<1> DEFINE k == Call("idle", 0, 0, Outside, Nothing(0, ""))
<1>1. pos = [c \in Calls \cup {"cr"} |-> 0] /\ call = [c \in Calls |-> k]
  BY DEF ReadersInit
<1>2. k \in Records /\ Sound(k, 0)
  BY NewCalls
<1> HIDE DEF k
<1>3. pos \in [Calls \cup {"cr"} -> Nat] /\ call \in [Calls -> Records]
  BY <1>1, <1>2
<1>4. ASSUME NEW c \in Calls PROVE Sound(call[c], pos[c])
  BY <1>1, <1>2
<1> QED BY <1>3, <1>4 DEF ReadsInv

(* newReader rewinds the cursor of its own call. *)
LEMMA NewReaderKeeps == ASSUME ReadsInv, NEW c \in Calls, newReader(c) PROVE ReadsInv'
<1> DEFINE k == Call("open", 0, 0, Outside, Nothing(0, ""))
<1>1. call' = [call EXCEPT ![c] = k] /\ pos' = [pos EXCEPT ![c] = 0]
  BY DEF newReader, cloneReader
<1>2. k \in Records /\ Sound(k, 0)
  BY NewCalls
<1> HIDE DEF k
<1> QED BY <1>1, <1>2, OwnStepKeeps

(* A step that leaves the cursors alone. *)
LEMMA CursorStays ==
    ASSUME ReadsInv, NEW c \in Calls, UNCHANGED pos
    PROVE  pos[c] \in Nat /\ pos' = [pos EXCEPT ![c] = pos[c]]
<1>1. pos \in [Calls \cup {"cr"} -> Nat]
  BY DEF ReadsInv
<1> QED BY <1>1

(* SeekToAddr moves it to the offset of an address a segment holds. *)
LEMMA SeekToAddrKeeps ==
    ASSUME MachineSizes, SegmentsLieApart, ReadsInv, NEW c \in Calls, NEW a \in Addresses,
           SeekToAddr(c, a)
    PROVE  ReadsInv'
<1> DEFINE off == getOffset(a)
<1>0. a \in Nat
  BY DEF MachineSizes
<1>1. CASE off = Outside \/ Signed(off) < 0
  <2> DEFINE g == Nothing(0, "address")
             k == Call("done", Outside, 0, Outside, g)
  <2>1. call' = [call EXCEPT ![c] = k] /\ UNCHANGED pos
    BY <1>1 DEF SeekToAddr
  <2>2. g \in [data: Seq(Nat), pos: Int, err: Errors \cup {"size"}]
    <3>1. 0 \in Nat /\ "address" \in Errors
      BY DEF Errors
    <3> QED BY <3>1, NothingIsGot
  <2> HIDE DEF g
  <2>3. k \in Records
    <3>1. Outside \in Int /\ 0 \in Nat /\ "done" \in {"idle", "open", "sought", "done"}
      BY DEF Outside
    <3> QED BY <2>2, <3>1, CallIsTyped
  <2>4. k.op = "done" /\ k.want = Outside
    BY DEF Call
  <2> HIDE DEF k
  <2>5. Sound(k, pos[c])
    BY <2>4 DEF Sound
  <2> QED BY <2>1, <2>3, <2>5, CursorStays, OwnStepKeeps
<1>2. CASE ~(off = Outside \/ Signed(off) < 0)
  <2> DEFINE g == Nothing(0, "")
             k == Call("sought", off, 0, Outside, g)
  <2>1. call' = [call EXCEPT ![c] = k] /\ pos' = [pos EXCEPT ![c] = off]
    BY <1>2 DEF SeekToAddr, cloneReader
  <2>2. off \in 0 .. MaxInt - 1 /\ MaxInt \in Nat
    <3>1. PICK i \in DOMAIN SegmentHeaders : Holds(i, a)
      BY <1>0, <1>2, OthersAreOutside
    <3> QED BY <1>0, <3>1, HeldIsConverted, Sizes
  <2>3. g \in [data: Seq(Nat), pos: Int, err: Errors \cup {"size"}]
    <3>1. 0 \in Nat /\ "" \in Errors
      BY DEF Errors
    <3> QED BY <3>1, NothingIsGot
  <2> HIDE DEF g, off
  <2>4. k \in Records
    <3>1. /\ Outside \in Int /\ 0 \in Nat /\ off \in Int
          /\ "sought" \in {"idle", "open", "sought", "done"}
      BY <2>2 DEF Outside
    <3> QED BY <2>3, <3>1, CallIsTyped
  <2>5. k.op = "sought" /\ k.want = off
    BY DEF Call
  <2> HIDE DEF k
  <2>6. Sound(k, off) /\ off \in Nat
    BY <2>2, <2>5 DEF Sound
  <2> QED BY <2>1, <2>4, <2>6, OwnStepKeeps
<1> QED BY <1>1, <1>2

(* Elements are read from where the call stands, or refused as missing. *)
LEMMA ReadElementsKeeps ==
    ASSUME MachineSizes, ReadsInv, NEW c \in Calls, NEW count \in Counts, NEW e \in ElemSizes,
           ReadElements(c, count, e)
    PROVE  ReadsInv'
<1> DEFINE p == pos[c]
           n == count * e
           r == IF checkReadCount("macho", p, count, e) THEN readDataFrom(p, n)
                ELSE Nothing(p, "UnexpectedEOF")
           want == call[c].want
           k == Call("done", want, n, Outside, r)
<1>1. call[c].op = "sought" /\ call' = [call EXCEPT ![c] = k] /\ pos' = [pos EXCEPT ![c] = r.pos]
  BY DEF ReadElements, cloneReader
<1>2. count \in Nat /\ e \in Nat /\ n \in Nat /\ p \in Nat
  <2>1. count \in Nat /\ e \in Nat
    BY DEF MachineSizes
  <2>2. pos \in [Calls \cup {"cr"} -> Nat]
    BY DEF ReadsInv
  <2> QED BY <2>1, <2>2
<1>3. want \in 0 .. MaxInt - 1 /\ p = want
  <2>1. Sound(call[c], pos[c])
    BY DEF ReadsInv
  <2> QED BY <1>1, <2>1 DEF Sound
<1>4. r \in Results /\ Delivered(r, p, p, n)
  <2>1. CASE checkReadCount("macho", p, count, e)
    <3>1. r = readDataFrom(p, n)
      BY <2>1
    <3> HIDE DEF n, p, r
    <3> QED BY <1>2, <3>1, ReadDataFromDelivers
  <2>2. CASE ~checkReadCount("macho", p, count, e)
    <3>1. r = Nothing(p, "UnexpectedEOF")
      BY <2>2
    <3>2. "UnexpectedEOF" \in Errors
      BY DEF Errors
    <3>3. ~(n = 0 \/ p + n <= FileLen)
      BY <1>2, <2>2, RefusedIsMissing
    <3> HIDE DEF n, p, r
    <3>4. r \in Results
      BY <1>2, <3>1, <3>2, NothingIsTyped
    <3>5. r.err # ""
      BY <3>1 DEF Nothing
    <3>6. Delivered(r, p, p, n)
      BY <3>3, <3>5 DEF Delivered
    <3> QED BY <3>4, <3>6
  <2> QED BY <2>1, <2>2
<1> HIDE DEF r, n, p, want
<1>5. r \in [data: Seq(Nat), pos: Int, err: Errors \cup {"size"}] /\ r.pos \in Nat
  BY <1>4 DEF Results
<1>6. k \in Records
  <2>1. want \in Int /\ Outside \in Int /\ "done" \in {"idle", "open", "sought", "done"}
    BY <1>3 DEF Outside
  <2> QED BY <1>2, <1>5, <2>1, CallIsTyped
<1>7. k.op = "done" /\ k.want = want /\ k.n = n /\ k.got = r
  BY DEF Call
<1> HIDE DEF k
<1>8. Complete(k)
  <2>1. CASE n = 0 \/ want + n <= FileLen
    <3>1. r = [data |-> Bytes(want, n), pos |-> want + n, err |-> ""]
      BY <1>3, <1>4, <2>1 DEF Delivered
    <3>2. k.got = [data |-> Bytes(k.want, k.n), err |-> "", pos |-> k.want + k.n]
      BY <1>7, <3>1
    <3> QED BY <1>7, <2>1, <3>2 DEF Complete
  <2>2. CASE ~(n = 0 \/ want + n <= FileLen)
    <3>1. r.err # ""
      BY <1>3, <1>4, <2>2 DEF Delivered
    <3> QED BY <1>7, <2>2, <3>1 DEF Complete
  <2> QED BY <2>1, <2>2
<1>9. Sound(k, r.pos)
  BY <1>7, <1>8 DEF Sound
<1> QED BY <1>1, <1>5, <1>6, <1>9, OwnStepKeeps

(* A result that answers what was asked for completes the call. *)
LEMMA AnswerCompletes ==
    ASSUME NEW r, NEW want \in Int, NEW n \in Nat, NEW by, Answered(r, want, n)
    PROVE  Complete(Call("done", want, n, by, [data |-> r.data, err |-> r.err, pos |-> want + n]))
<1> DEFINE g == [data |-> r.data, err |-> r.err, pos |-> want + n]
           k == Call("done", want, n, by, g)
<1>1. k.want = want /\ k.n = n /\ k.got = g
  BY DEF Call
<1> HIDE DEF k
<1>2. CASE n = 0 \/ want + n <= FileLen
  <2>1. r.data = Bytes(want, n) /\ r.err = ""
    BY <1>2 DEF Answered
  <2>2. g = [data |-> Bytes(want, n), err |-> "", pos |-> want + n]
    BY <2>1
  <2> HIDE DEF g
  <2>3. k.got = [data |-> Bytes(k.want, k.n), err |-> "", pos |-> k.want + k.n]
    BY <1>1, <2>2
  <2>4. Complete(k)
    BY <1>1, <1>2, <2>3 DEF Complete
  <2> QED BY <2>4 DEF k, g
<1>3. CASE ~(n = 0 \/ want + n <= FileLen)
  <2>1. g.err # ""
    BY <1>3 DEF Answered
  <2> HIDE DEF g
  <2>2. Complete(k)
    BY <1>1, <1>3, <2>1 DEF Complete
  <2> QED BY <2>2 DEF k, g
<1> QED BY <1>2, <1>3

(* A read at an address uses no cursor. *)
LEMMA ReadHereKeeps ==
    ASSUME MachineSizes, SegmentsLieApart, ReadsInv, NEW c \in Calls,
           NEW a \in Addresses, NEW n \in Counts, ReadHere(c, a, n)
    PROVE  ReadsInv'
<1> DEFINE r == readDataAtAddr(n, a)
           want == getOffset(a)
           g == [data |-> r.data, err |-> r.err, pos |-> want + n]
           k == Call("done", want, n, a, g)
<1>1. call' = [call EXCEPT ![c] = k] /\ UNCHANGED pos
  BY DEF ReadHere
<1>2. a \in Nat /\ n \in Nat
  BY DEF MachineSizes
<1>3. want \in Int
  <2>1. CASE \E i \in DOMAIN SegmentHeaders : Holds(i, a)
    BY <1>2, <2>1, HeldIsConverted, Sizes
  <2>2. CASE ~\E i \in DOMAIN SegmentHeaders : Holds(i, a)
    BY <1>2, <2>2, OthersAreOutside DEF Outside
  <2> QED BY <2>1, <2>2
<1>4. r.data \in Seq(Nat) /\ r.err \in Errors
  BY <1>2, ReadDataAtAddrIsTyped DEF Typed
<1>5. want # Outside /\ InOne(a, n) => Answered(r, want, n)
  BY <1>2, ReadDataAtAddrAnswers
<1>6. want # Outside /\ InOne(a, n) => Complete(k)
  <2> HIDE DEF r, want
  <2> QED BY <1>2, <1>3, <1>5, AnswerCompletes
<1>7. k.op = "done" /\ k.want = want /\ k.by = a /\ k.n = n
  BY DEF Call
<1> HIDE DEF r, want
<1>8. g \in [data: Seq(Nat), pos: Int, err: Errors \cup {"size"}]
  <2>1. want + n \in Int /\ r.err \in Errors \cup {"size"}
    BY <1>2, <1>3, <1>4
  <2> QED BY <1>4, <2>1, GotIsTyped
<1> HIDE DEF g
<1>9. k \in Records
  <2>1. a \in Int /\ "done" \in {"idle", "open", "sought", "done"}
    BY <1>2
  <2> QED BY <1>2, <1>3, <1>8, <2>1, CallIsTyped
<1> HIDE DEF k
<1>10. OneSegment(k) => InOne(a, n)
  <2>1. a # Outside
    BY <1>2 DEF Outside
  <2> QED BY <1>7, <2>1 DEF OneSegment, InOne
<1>11. Sound(k, pos[c])
  BY <1>6, <1>7, <1>10 DEF Sound
<1> QED BY <1>1, <1>9, <1>11, CursorStays, OwnStepKeeps

(* Nor does a read of a section. *)
LEMMA ReadSectionKeeps ==
    ASSUME MachineSizes, SegmentsLieApart, SectionsLieInSegments, ReadsInv, NEW c \in Calls,
           NEW s \in SectionHeaders, NEW off \in 0 .. 1, NEW n \in Counts, ReadSection(c, s, off, n)
    PROVE  ReadsInv'
<1> DEFINE r == sectionData(s, off, n)
           want == s.offset + off
           g == [data |-> r.data, err |-> r.err, pos |-> want + n]
           k == Call("done", want, n, Outside, g)
<1>1. /\ off < s.size /\ off + n <= s.size
      /\ call' = [call EXCEPT ![c] = k] /\ UNCHANGED pos
  BY DEF ReadSection
<1>2. n \in Nat /\ off \in Nat /\ want \in Int /\ s.addr \in Nat
  BY DEF MachineSizes, SectionsLieInSegments
<1>3. Answered(r, want, n)
  BY <1>1, <1>2, SectionDataAnswers
<1>4. r.data \in Seq(Nat) /\ r.err \in Errors \cup {"size"}
  <2>1. CASE s.size > MaxInt
    <3>1. r = [data |-> <<>>, err |-> "size"]
      BY <2>1 DEF sectionData
    <3> HIDE DEF r
    <3>2. r.data = <<>> /\ r.err = "size"
      BY ONLY <3>1
    <3> QED BY <3>2
  <2>2. CASE ~(s.size > MaxInt) /\ (s.addr = 0 \/ s.seg = "__DWARF")
    <3>1. r = ReadAt(n, want)
      BY <2>2 DEF sectionData
    <3> HIDE DEF r, want
    <3> QED BY <1>2, <3>1, ReadAtIsTyped DEF Typed
  <2>3. CASE ~(s.size > MaxInt) /\ ~(s.addr = 0 \/ s.seg = "__DWARF")
    <3>1. r = addrReaderAt(s.addr, n, off)
      BY <2>3 DEF sectionData
    <3> HIDE DEF r, want
    <3> QED BY <1>2, <3>1, AddrReaderIsTyped DEF Typed
  <2> QED BY <2>1, <2>2, <2>3
<1>5. Complete(k)
  <2> HIDE DEF r, want
  <2> QED BY <1>2, <1>3, AnswerCompletes
<1>6. k.op = "done"
  BY DEF Call
<1> HIDE DEF r, want
<1>7. g \in [data: Seq(Nat), pos: Int, err: Errors \cup {"size"}]
  <2>1. want + n \in Int
    BY <1>2
  <2> QED BY <1>4, <2>1, GotIsTyped
<1> HIDE DEF g
<1>8. k \in Records
  <2>1. Outside \in Int /\ "done" \in {"idle", "open", "sought", "done"}
    BY DEF Outside
  <2> QED BY <1>2, <1>7, <2>1, CallIsTyped
<1> HIDE DEF k
<1>9. Sound(k, pos[c])
  BY <1>5, <1>6 DEF Sound
<1> QED BY <1>1, <1>8, <1>9, CursorStays, OwnStepKeeps

-----------------------------------------------------------------------------
(* ReadsAreOnesOwn: whatever other calls read meanwhile, a call gets the   *)
(* bytes at the offset it sought, all of them or an error, by cursor       *)
(* (readDataFrom, checkReadCount), by address (readDataAtAddr) and from a  *)
(* section (Section.ReadAt).                                               *)
THEOREM ReadsStayApart ==
    ASSUME MachineSizes, SegmentsLieApart, SectionsLieInSegments
    PROVE  ReadersSpec => []ReadsAreOnesOwn
<1>1. ReadersInit => ReadsInv
  BY InitIsSound
<1>2. ReadsInv /\ [ReadersNext]_readerVars => ReadsInv'
  <2> SUFFICES ASSUME ReadsInv, [ReadersNext]_readerVars PROVE ReadsInv'
    OBVIOUS
  <2>1. CASE UNCHANGED readerVars
    BY <2>1 DEF readerVars, ReadsInv
  <2>2. ASSUME NEW c \in Calls, newReader(c) PROVE ReadsInv'
    BY <2>2, NewReaderKeeps
  <2>3. ASSUME NEW c \in Calls, NEW a \in Addresses, SeekToAddr(c, a) PROVE ReadsInv'
    BY <2>3, SeekToAddrKeeps
  <2>4. ASSUME NEW c \in Calls, NEW count \in Counts, NEW e \in ElemSizes,
               ReadElements(c, count, e)
        PROVE  ReadsInv'
    BY <2>4, ReadElementsKeeps
  <2>5. ASSUME NEW c \in Calls, NEW a \in Addresses, NEW n \in Counts, ReadHere(c, a, n)
        PROVE  ReadsInv'
    BY <2>5, ReadHereKeeps
  <2>6. ASSUME NEW c \in Calls, NEW s \in SectionHeaders, NEW off \in 0 .. 1, NEW n \in Counts,
               ReadSection(c, s, off, n)
        PROVE  ReadsInv'
    BY <2>6, ReadSectionKeeps
  <2> QED BY <2>1, <2>2, <2>3, <2>4, <2>5, <2>6 DEF ReadersNext
<1>3. ReadsInv => ReadsAreOnesOwn
  BY DEF ReadsInv, Sound, Complete, ReadsAreOnesOwn
<1> QED BY <1>1, <1>2, <1>3, PTL DEF ReadersSpec

-----------------------------------------------------------------------------
(* An address of the file part of a segment comes back from its offset.    *)
LEMMA ThereAndBack ==
    ASSUME MachineSizes, SegmentsLieApart, NEW a \in Nat, InFile(a)
    PROVE  /\ getOffset(a) \in 0 .. MaxInt - 1
           /\ getVMAddress(getOffset(a)) = a
<1>1. PICK i \in DOMAIN SegmentHeaders : Fits(a, SegmentHeaders[i].addr, SegmentHeaders[i].filesz)
  BY DEF InFile
<1> DEFINE f == SegmentHeaders[i].addr
           m == SegmentHeaders[i].memsz
           o == SegmentHeaders[i].offset
           z == SegmentHeaders[i].filesz
           x == getOffset(a)
           w == Wrap
<1>2. /\ f \in Nat /\ m \in Nat /\ o \in Nat /\ z \in Nat /\ f + m < w /\ o + m <= MaxInt
      /\ z <= m /\ w \in Nat /\ MaxInt \in Nat /\ MaxInt < w
  BY SegmentsAre, Sizes
<1>3. f <= a /\ a < f + z
  <2> DEFINE n == f + z
  <2>1. f <= a /\ a < n % w
    BY <1>1 DEF Fits
  <2>2. n \in Nat /\ n < w /\ w \in Nat
    <3> HIDE DEF f, m, z, w
    <3> QED BY <1>2
  <2> HIDE DEF n, w
  <2>3. n % w = n
    BY <2>2, InAWord
  <2>4. f <= a /\ a < n
    BY <2>1, <2>3
  <2> QED BY <2>4 DEF n
<1>4. Holds(i, a)
  <2>1. a < f + m
    <3> HIDE DEF f, m, z
    <3> QED BY <1>2, <1>3
  <2> QED BY <1>3, <2>1 DEF Holds
<1>5. x = a - f + o /\ x \in 0 .. MaxInt - 1
  BY <1>4, HeldIsConverted
<1>6. x \in Nat /\ o <= x /\ x < o + z
  <2> HIDE DEF f, m, o, z, x
  <2> QED BY <1>2, <1>3, <1>5
<1>7. ASSUME NEW j \in DOMAIN SegmentHeaders
      PROVE  Fits(x, SegmentHeaders[j].offset, SegmentHeaders[j].filesz) <=> j = i
  <2> DEFINE p == SegmentHeaders[j].offset
             q == SegmentHeaders[j].filesz
             n == p + q
  <2>1. p \in Nat /\ q \in Nat /\ q <= SegmentHeaders[j].memsz /\ SegmentHeaders[j].memsz \in Nat
          /\ p + SegmentHeaders[j].memsz <= MaxInt
    BY SegmentsAre
  <2>2. n \in Nat /\ n < w /\ w \in Nat
    <3> DEFINE y == SegmentHeaders[j].memsz
    <3> HIDE DEF p, q, y, w
    <3> QED BY <1>2, <2>1 DEF y
  <2>3. n % w = n
    <3> HIDE DEF n, w
    <3> QED BY <2>2, InAWord
  <2>4. Fits(x, p, q) <=> p <= x /\ x < n % w
    BY DEF Fits
  <2>5. Fits(x, p, q) <=> p <= x /\ x < p + q
    <3> HIDE DEF p, q, w, x
    <3> QED BY <2>3, <2>4
  <2>6. CASE j = i
    BY <1>6, <2>5, <2>6
  <2>7. CASE j # i
    <3>1. o + z <= p \/ p + q <= o
      BY <2>7 DEF SegmentsLieApart, Apart
    <3>2. ~Fits(x, p, q)
      <4> HIDE DEF p, q, o, z, x
      <4> QED BY <1>2, <1>6, <2>1, <2>5, <3>1
    <3> QED BY <2>7, <3>2
  <2> QED BY <2>6, <2>7
<1>8. getVMAddress(x) = (x - o + f) % w
  <2>1. DOMAIN SegmentHeaders \subseteq Nat
    BY SegmentsAre
  <2> HIDE DEF x
  <2> QED BY <1>7, <2>1, OneConverts
<1>9. x - o + f = a
  <2> HIDE DEF f, o, x
  <2> QED BY <1>2, <1>5
<1>10. a % w = a
  <2>1. a < w
    <3> HIDE DEF f, m, z, w
    <3> QED BY <1>2, <1>3
  <2> HIDE DEF w
  <2> QED BY <1>2, <2>1, InAWord
<1>11. getVMAddress(x) = a
  <2> HIDE DEF f, o, x, w
  <2> QED BY <1>8, <1>9, <1>10
<1> QED BY <1>5, <1>11

(* An answer that says nothing may be left out. *)
LEMMA FirstSkips ==
    ASSUME NEW p, NEW q, NEW r, r # "no"
    PROVE  First(<<p, q, r>>) = First(<<p, q, "no", r>>)
<1> DEFINE three == <<p, q, r>>
           four == <<p, q, "no", r>>
           I == {i \in DOMAIN three : three[i] # "no"}
           J == {i \in DOMAIN four : four[i] # "no"}
<1>1. First(three) = three[Min(I)] /\ First(four) = four[Min(J)]
  BY DEF First
<1>2. /\ DOMAIN three = 1 .. 3 /\ three[1] = p /\ three[2] = q /\ three[3] = r
      /\ DOMAIN four = 1 .. 4 /\ four[1] = p /\ four[2] = q /\ four[3] = "no" /\ four[4] = r
  OBVIOUS
<1> HIDE DEF three, four
<1>3. ASSUME p # "no" PROVE First(three) = First(four)
  <2>1. 1 \in I /\ 1 \in J /\ \A i \in I \cup J : i \in Nat /\ 1 <= i
    BY <1>2, <1>3
  <2> HIDE DEF I, J
  <2>2. Min(I) = 1 /\ Min(J) = 1
    BY <2>1 DEF Min
  <2> QED BY <1>1, <1>2, <2>2
<1>4. ASSUME p = "no" /\ q # "no" PROVE First(three) = First(four)
  <2>1. 2 \in I /\ 2 \in J /\ \A i \in I \cup J : i \in Nat /\ 2 <= i
    BY <1>2, <1>4
  <2> HIDE DEF I, J
  <2>2. Min(I) = 2 /\ Min(J) = 2
    BY <2>1 DEF Min
  <2> QED BY <1>1, <1>2, <2>2
<1>5. ASSUME p = "no" /\ q = "no" PROVE First(three) = First(four)
  <2>1. I = {3} /\ J = {4}
    BY <1>2, <1>5
  <2> HIDE DEF I, J
  <2>2. Min(I) = 3 /\ Min(J) = 4
    BY <2>1 DEF Min
  <2> QED BY <1>1, <1>2, <2>2
<1>6. First(three) = First(four)
  BY <1>3, <1>4, <1>5
<1> QED BY <1>6 DEF three, four

(* The two ways to a slot ask the same parts in the same order. *)
LEMMA SlotsAgree ==
    ASSUME MachineSizes, SegmentsLieApart, NEW a \in Nat, InFile(a), NEW s, ~s.byAddress
    PROVE  GetPointer(s, getOffset(a)) = GetPointerAtAddress(s, a)
<1> DEFINE o == getOffset(a)
           p == resolvePointerAtAddress(s)
           q == IF s.fixups THEN resolveChainedFixupAtOffset(s) ELSE "no"
           r == IF s.fixups THEN convertPointerWithoutChainedFixups(s) ELSE vmaConvert(s)
<1>1. o \in 0 .. MaxInt - 1 /\ getVMAddress(o) = a /\ MaxInt \in Nat
  BY ThereAndBack, Sizes
<1>2. o # Outside /\ getVMAddress(o) # Outside
  BY <1>1 DEF Outside
<1>3. r # "no"
  BY DEF convertPointerWithoutChainedFixups, vmaConvert
<1>4. GetPointer(s, o) = IF ReadAt(1, o).err # "" THEN "unreadable" ELSE First(<<p, q, r>>)
  BY <1>2 DEF GetPointer, Readable
<1>5. GetPointerAtAddress(s, a) =
        IF ReadAt(1, Signed(o)).err # "" THEN "unreadable" ELSE First(<<p, q, "no", r>>)
  BY <1>2 DEF GetPointerAtAddress, ReadAtAddr
<1> HIDE DEF o, p, q, r
<1>6. Signed(o) = o
  <2>1. o \in 0 .. MaxInt
    BY <1>1
  <2> QED BY <2>1, SmallIsSigned
<1>7. First(<<p, q, r>>) = First(<<p, q, "no", r>>)
  BY <1>3, FirstSkips
<1>8. GetPointer(s, o) = GetPointerAtAddress(s, a)
  BY <1>4, <1>5, <1>6, <1>7
<1> QED BY <1>8 DEF o

(* PointersAgree: GetPointer at the offset of an address and               *)
(* GetPointerAtAddress at the address answer alike in the file part of a   *)
(* segment, and the address comes back from the offset.                    *)
THEOREM SlotsReadAlike ==
    ASSUME MachineSizes, SegmentsLieApart
    PROVE  ReadersSpec => []PointersAgree
<1>1. PointersAgree
  <2> SUFFICES ASSUME NEW s \in Pointers, NEW a \in Addresses, InFile(a), ~s.byAddress
               PROVE  /\ getVMAddress(getOffset(a)) = a
                      /\ GetPointer(s, getOffset(a)) = GetPointerAtAddress(s, a)
    BY DEF PointersAgree
  <2>1. a \in Nat
    BY DEF MachineSizes
  <2> QED BY <2>1, ThereAndBack, SlotsAgree
<1> QED BY <1>1, PTL

-----------------------------------------------------------------------------
(* The table of contents.                                                  *)

(* Where each command ends, as a function of its number.                   *)
Running(e, ls) == e[0] = HdrSize /\ \A i \in 1 .. Len(ls) : e[i] = e[i - 1] + ls[i].len

LEMMA LoadsAre ==
    ASSUME NEW ls \in Seq(LoadRecords)
    PROVE  /\ Len(ls) \in Nat /\ DOMAIN ls = 1 .. Len(ls)
           /\ \A i \in 1 .. Len(ls) : ls[i] \in LoadRecords
<1> HIDE DEF LoadRecords
<1> QED OBVIOUS

LEMMA LoadIs ==
    ASSUME NEW l \in LoadRecords
    PROVE  /\ l.len \in Nat /\ l.head \in Nat /\ l.body \in Nat /\ l.nsect \in Nat
           /\ l.firstsect \in Nat /\ l.sections \in Nat
           /\ l.kind \in {"segment", "string", "dylib", "thread", "ident", "fixed"}
BY DEF LoadRecords

LEMMA EndsAre ==
    ASSUME NEW ls \in Seq(LoadRecords)
    PROVE  /\ CommandEnds(ls) \in [0 .. Len(ls) -> Nat]
           /\ Running(CommandEnds(ls), ls)
<1> DEFINE n == Len(ls)
           D == 0 .. n
           Code(u, i) == IF i = 0 THEN HdrSize ELSE u[i - 1] + ls[i].len
           upTo == CHOOSE u : u = [i \in D |-> Code(u, i)]
           step0 == [y \in D \X Nat |-> IF y[1] = 0 THEN HdrSize ELSE y[2] + ls[y[1]].len]
<1>1. CommandEnds(ls) = upTo
  BY DEF CommandEnds
<1>2. n \in Nat /\ HdrSize \in Nat
  BY LoadsAre DEF HdrSize
<1>3. \A i \in 1 .. n : ls[i].len \in Nat
  BY LoadsAre, LoadIs
<1>4. PICK f \in [D -> Nat] : Carries(f, n, HdrSize, step0)
  <2>1. step0 \in [D \X Nat -> Nat]
    <3>1. \A i \in D : i # 0 => i \in 1 .. n
      BY <1>2
    <3> HIDE DEF D, n
    <3> QED BY <1>2, <1>3, <3>1
  <2> HIDE DEF step0, n
  <2> QED BY <1>2, <2>1, FoldExists
<1>5. \A i \in D : f[i] = Code(f, i)
  <2>1. ASSUME NEW i \in D, i # 0 PROVE f[i] = f[i - 1] + ls[i].len
    <3>1. i - 1 \in D /\ f[i - 1] \in Nat
      BY <2>1
    <3>2. f[i] = step0[<<i, f[i - 1]>>]
      BY <1>4, <2>1 DEF Carries
    <3>3. \A j \in D, v \in Nat :
             step0[<<j, v>>] = IF j = 0 THEN HdrSize ELSE v + ls[j].len
      OBVIOUS
    <3> DEFINE v == f[i - 1]
    <3>4. v \in Nat /\ f[i] = step0[<<i, v>>]
      BY <3>1, <3>2
    <3> HIDE DEF step0, D, v
    <3>5. step0[<<i, v>>] = IF i = 0 THEN HdrSize ELSE v + ls[i].len
      BY <3>3, <3>4
    <3>6. f[i] = v + ls[i].len
      BY <2>1, <3>4, <3>5
    <3> QED BY <3>6 DEF v
  <2>2. f[0] = HdrSize
    <3>1. 0 \in D
      BY <1>2
    <3> HIDE DEF step0
    <3> QED BY <1>4, <3>1 DEF Carries
  <2> QED BY <2>1, <2>2
<1>6. f = [i \in D |-> Code(f, i)]
  <2> HIDE DEF Code, D
  <2> QED BY <1>5
<1>7. upTo = [i \in D |-> Code(upTo, i)]
  <2> HIDE DEF Code, D
  <2> QED BY <1>6
<1> HIDE DEF upTo, step0
<1>8. \A i \in D : upTo[i] = Code(upTo, i)
  BY <1>7
<1>9. upTo[0] = HdrSize /\ \A i \in 1 .. n : upTo[i] = upTo[i - 1] + ls[i].len
  BY <1>2, <1>8
<1>10. \A i \in D : upTo[i] \in Nat
  <2> DEFINE S == {i \in D : upTo[i] \in Nat}
  <2>1. 0 \in S
    BY <1>2, <1>9
  <2>2. \A i \in 1 .. n : i - 1 \in S => i \in S
    BY <1>2, <1>3, <1>9, SMTT(30)
  <2> HIDE DEF S
  <2>3. \A i \in D : i \in S
    BY <1>2, <2>1, <2>2, CountInduction
  <2> QED BY <2>3 DEF S
<1>11. upTo \in [D -> Nat]
  BY <1>7, <1>10
<1> QED BY <1>1, <1>9, <1>11 DEF Running

(* It depends on the state through the size of the header alone, which no  *)
(* edit changes.                                                           *)
EndsFrom(h, ls) ==
    LET upTo[i \in 0 .. Len(ls)] == IF i = 0 THEN h ELSE upTo[i - 1] + ls[i].len
    IN  upTo

LEMMA EndsLater ==
    ASSUME Magic' = Magic
    PROVE  CommandEnds(Loads)' = CommandEnds(Loads') /\ HdrSize' = HdrSize
<1>1. HdrSize' = HdrSize
  BY DEF HdrSize
<1>2. CommandEnds(Loads)' = EndsFrom(HdrSize', Loads')
  BY DEF CommandEnds, EndsFrom
<1>3. CommandEnds(Loads') = EndsFrom(HdrSize, Loads')
  BY DEF CommandEnds, EndsFrom
<1> QED BY <1>1, <1>2, <1>3

(* It is the only such function. *)
LEMMA EndsAreUnique ==
    ASSUME NEW ls \in Seq(LoadRecords), NEW e, Running(e, ls)
    PROVE  \A i \in 0 .. Len(ls) : e[i] = CommandEnds(ls)[i]
<1> DEFINE n == Len(ls)
           f == CommandEnds(ls)
           S == {i \in 0 .. n : e[i] = f[i]}
<1>1. n \in Nat
  BY LoadsAre
<1>2. f[0] = HdrSize /\ \A i \in 1 .. n : f[i] = f[i - 1] + ls[i].len
  BY EndsAre DEF Running
<1>3. e[0] = HdrSize /\ \A i \in 1 .. n : e[i] = e[i - 1] + ls[i].len
  BY DEF Running
<1> HIDE DEF n, f
<1>4. 0 \in S
  BY <1>1, <1>2, <1>3
<1>5. \A i \in 1 .. n : i - 1 \in S => i \in S
  BY <1>1, <1>2, <1>3
<1>6. \A i \in 0 .. n : i \in S
  <2> HIDE DEF S
  <2> QED BY <1>1, <1>4, <1>5, CountInduction
<1> QED BY <1>6 DEF n, f

(* A command at the end. *)
LEMMA EndsOfAppend ==
    ASSUME NEW ls \in Seq(LoadRecords), NEW l \in LoadRecords
    PROVE  /\ Append(ls, l) \in Seq(LoadRecords) /\ Len(Append(ls, l)) = Len(ls) + 1
           /\ CommandEnds(Append(ls, l))[Len(ls) + 1] = CommandEnds(ls)[Len(ls)] + l.len
<1> DEFINE n == Len(ls)
           f == CommandEnds(ls)
           ms == Append(ls, l)
           g == CommandEnds(ms)
           e == [i \in 0 .. n + 1 |-> IF i <= n THEN f[i] ELSE f[n] + l.len]
<1>1. /\ ms \in Seq(LoadRecords) /\ Len(ms) = n + 1 /\ n \in Nat
      /\ ms[n + 1] = l /\ \A i \in 1 .. n : ms[i] = ls[i]
  <2> HIDE DEF LoadRecords
  <2> QED OBVIOUS
<1>2. f \in [0 .. n -> Nat] /\ f[0] = HdrSize /\ \A i \in 1 .. n : f[i] = f[i - 1] + ls[i].len
  BY EndsAre DEF Running
<1> HIDE DEF n, f, ms, g
<1>3. e[0] = HdrSize
  BY <1>1, <1>2
<1>4. ASSUME NEW i \in 1 .. n + 1 PROVE e[i] = e[i - 1] + ms[i].len
  <2>1. CASE i <= n
    <3>1. e[i] = f[i] /\ e[i - 1] = f[i - 1] /\ i \in 1 .. n
      BY <1>1, <2>1
    <3> HIDE DEF e
    <3> QED BY <1>1, <1>2, <3>1
  <2>2. CASE ~(i <= n)
    <3>1. i = n + 1 /\ e[n + 1] = f[n] + l.len /\ e[n] = f[n] /\ i - 1 = n
      BY <1>1, <2>2
    <3> HIDE DEF e
    <3> QED BY <1>1, <3>1
  <2> QED BY <2>1, <2>2
<1>5. Running(e, ms)
  BY <1>1, <1>3, <1>4 DEF Running
<1>6. e[n + 1] = f[n] + l.len
  BY <1>1
<1> HIDE DEF e
<1>7. e[n + 1] = g[n + 1]
  BY <1>1, <1>5, EndsAreUnique DEF g
<1> QED BY <1>1, <1>6, <1>7 DEF ms, g, f, n

(* A command in the place of another. *)
LEMMA EndsOfReplaced ==
    ASSUME NEW ls \in Seq(LoadRecords), NEW j \in 1 .. Len(ls), NEW l \in LoadRecords
    PROVE  /\ [ls EXCEPT ![j] = l] \in Seq(LoadRecords) /\ Len([ls EXCEPT ![j] = l]) = Len(ls)
           /\ CommandEnds([ls EXCEPT ![j] = l])[Len(ls)]
                = CommandEnds(ls)[Len(ls)] + (l.len - ls[j].len)
<1> DEFINE n == Len(ls)
           f == CommandEnds(ls)
           ms == [ls EXCEPT ![j] = l]
           g == CommandEnds(ms)
           d == l.len - ls[j].len
           e == [i \in 0 .. n |-> IF i < j THEN f[i] ELSE f[i] + d]
<1>1. /\ ms \in Seq(LoadRecords) /\ Len(ms) = n /\ n \in Nat /\ j \in 1 .. n
      /\ ms[j] = l /\ \A i \in 1 .. n : i # j => ms[i] = ls[i]
  <2> HIDE DEF LoadRecords
  <2> QED OBVIOUS
<1>2. f \in [0 .. n -> Nat] /\ f[0] = HdrSize /\ \A i \in 1 .. n : f[i] = f[i - 1] + ls[i].len
  BY EndsAre DEF Running
<1>3. /\ l.len \in Nat /\ d \in Int /\ d = l.len - ls[j].len
      /\ \A i \in 1 .. n : ls[i].len \in Nat
  <2>1. \A i \in 1 .. n : ls[i].len \in Nat
    BY LoadsAre, LoadIs
  <2> QED BY <1>1, <2>1, LoadIs
<1> HIDE DEF n, f, ms, g, d
<1>4. e[0] = HdrSize
  BY <1>1, <1>2
<1>5. ASSUME NEW i \in 1 .. n PROVE e[i] = e[i - 1] + ms[i].len
  <2>0. /\ i - 1 \in 0 .. n /\ i \in 0 .. n /\ i \in Nat /\ f[i] \in Nat /\ f[i - 1] \in Nat
        /\ ls[i].len \in Nat /\ f[i] = f[i - 1] + ls[i].len
    <3>1. i - 1 \in 0 .. n /\ i \in 0 .. n /\ i \in Nat
      BY <1>1
    <3> QED BY <1>2, <1>3, <3>1
  <2> DEFINE a == f[i - 1]
             b == f[i]
             c == ls[i].len
  <2>1. CASE i < j
    <3>1. e[i] = b /\ e[i - 1] = a /\ ms[i].len = c
      BY <1>1, <2>0, <2>1
    <3> HIDE DEF e
    <3> QED BY <2>0, <3>1
  <2>2. CASE i = j
    <3>1. e[i] = b + d /\ e[i - 1] = a /\ ms[i].len = l.len /\ c = ls[j].len
      BY <1>1, <2>0, <2>2
    <3>2. b = a + c /\ a \in Nat /\ c \in Nat
      BY <2>0
    <3> DEFINE m == l.len
    <3>3. d = m - c /\ m \in Nat
      BY <1>3, <3>1
    <3>4. ms[i].len = m
      BY <3>1
    <3> HIDE DEF e, a, b, c, m
    <3>5. b + d = a + m
      BY <3>2, <3>3
    <3> QED BY <3>1, <3>4, <3>5
  <2>3. CASE i > j
    <3>1. e[i] = b + d /\ e[i - 1] = a + d /\ ms[i].len = c
      BY <1>1, <2>0, <2>3
    <3> HIDE DEF e, a, b, c
    <3>2. b = a + c /\ a \in Nat /\ c \in Nat
      BY <2>0 DEF a, b, c
    <3> QED BY <1>3, <3>1, <3>2
  <2> QED BY <1>1, <2>0, <2>1, <2>2, <2>3
<1>6. Running(e, ms)
  BY <1>1, <1>4, <1>5 DEF Running
<1>7. e[n] = f[n] + d
  BY <1>1
<1> HIDE DEF e
<1>8. e[n] = g[n]
  <2>1. n \in 0 .. Len(ms)
    BY <1>1
  <2> QED BY <1>1, <1>6, <2>1, EndsAreUnique DEF g
<1> QED BY <1>1, <1>7, <1>8 DEF ms, g, f, n, d

(* A list without one of its commands. *)
Without(ls, j) == SubSeq(ls, 1, j - 1) \o SubSeq(ls, j + 1, Len(ls))

LEMMA WithoutIs ==
    ASSUME NEW ls \in Seq(LoadRecords), NEW j \in 1 .. Len(ls)
    PROVE  /\ Without(ls, j) \in Seq(LoadRecords) /\ Len(Without(ls, j)) = Len(ls) - 1
           /\ \A i \in 1 .. Len(ls) - 1 :
                 Without(ls, j)[i] = IF i < j THEN ls[i] ELSE ls[i + 1]
<1> DEFINE n == Len(ls)
           s == SubSeq(ls, 1, j - 1)
           t == SubSeq(ls, j + 1, n)
<1> HIDE DEF LoadRecords
<1>1. n \in Nat /\ j \in 1 .. n /\ \A i \in 1 .. n : ls[i] \in LoadRecords
  OBVIOUS
<1>2. /\ s \in Seq(LoadRecords) /\ Len(s) = j - 1
      /\ \A i \in 1 .. j - 1 : s[i] = ls[i]
  <2> HIDE DEF n
  <2> QED BY <1>1
<1>3. /\ t \in Seq(LoadRecords) /\ Len(t) = n - j
      /\ \A i \in 1 .. n - j : t[i] = ls[j + i]
  <2> HIDE DEF n
  <2> QED BY <1>1
<1> HIDE DEF s, t, n
<1>4. ASSUME NEW x \in Seq(LoadRecords), NEW y \in Seq(LoadRecords)
      PROVE  /\ x \o y \in Seq(LoadRecords) /\ Len(x \o y) = Len(x) + Len(y)
             /\ \A i \in 1 .. Len(x) + Len(y) :
                   (x \o y)[i] = IF i <= Len(x) THEN x[i] ELSE y[i - Len(x)]
  OBVIOUS
<1> DEFINE v == s \o t
<1>5. /\ v \in Seq(LoadRecords) /\ Len(v) = n - 1
      /\ \A i \in 1 .. n - 1 : v[i] = IF i <= j - 1 THEN s[i] ELSE t[i - (j - 1)]
  BY <1>1, <1>2, <1>3, <1>4
<1> HIDE DEF v
<1>6. ASSUME NEW i \in 1 .. n - 1 PROVE v[i] = IF i < j THEN ls[i] ELSE ls[i + 1]
  <2>1. CASE i < j
    <3>1. i \in 1 .. j - 1 /\ i <= j - 1
      BY <1>1, <2>1
    <3> QED BY <1>2, <1>5, <2>1, <3>1
  <2>2. CASE ~(i < j)
    <3>1. i - (j - 1) \in 1 .. n - j /\ ~(i <= j - 1) /\ j + (i - (j - 1)) = i + 1
      BY <1>1, <2>2
    <3>2. t[i - (j - 1)] = ls[i + 1]
      BY <1>3, <3>1
    <3> QED BY <1>5, <2>2, <3>1, <3>2
  <2> QED BY <2>1, <2>2
<1> QED BY <1>5, <1>6 DEF Without, v, s, t, n

(* Its commands end earlier by the one that is gone. *)
LEMMA EndsOfWithout ==
    ASSUME NEW ls \in Seq(LoadRecords), NEW j \in 1 .. Len(ls)
    PROVE  CommandEnds(Without(ls, j))[Len(ls) - 1] = CommandEnds(ls)[Len(ls)] - ls[j].len
<1> DEFINE n == Len(ls)
           f == CommandEnds(ls)
           ms == Without(ls, j)
           g == CommandEnds(ms)
           d == ls[j].len
           e == [i \in 0 .. n - 1 |-> IF i < j THEN f[i] ELSE f[i + 1] - d]
<1>1. /\ ms \in Seq(LoadRecords) /\ Len(ms) = n - 1 /\ n \in Nat /\ j \in 1 .. n
      /\ \A i \in 1 .. n - 1 : ms[i] = IF i < j THEN ls[i] ELSE ls[i + 1]
  BY WithoutIs, LoadsAre
<1>2. f \in [0 .. n -> Nat] /\ f[0] = HdrSize /\ \A i \in 1 .. n : f[i] = f[i - 1] + ls[i].len
  BY EndsAre DEF Running
<1>3. \A i \in 1 .. n : ls[i].len \in Nat
  BY LoadsAre, LoadIs
<1>4. d \in Nat
  BY <1>1, <1>3
<1> HIDE DEF n, f, ms, g
<1>5. f[j] = f[j - 1] + d /\ f[j - 1] \in Nat
  <2>1. j \in 1 .. n /\ j - 1 \in 0 .. n
    BY <1>1
  <2> QED BY <1>2, <2>1
<1>6. e[0] = HdrSize
  BY <1>1, <1>2
<1>7. ASSUME NEW i \in 1 .. n - 1 PROVE e[i] = e[i - 1] + ms[i].len
  <2>0. /\ i - 1 \in 0 .. n - 1 /\ i \in 0 .. n - 1 /\ i + 1 \in 1 .. n /\ i \in 1 .. n
        /\ i - 1 \in 0 .. n /\ (i + 1) - 1 = i /\ (i - 1) + 1 = i
    BY <1>1
  <2>1. /\ f[i - 1] \in Nat /\ f[i] \in Nat /\ f[i + 1] \in Nat
        /\ f[i] = f[i - 1] + ls[i].len /\ ls[i].len \in Nat
    BY <1>2, <1>3, <2>0, SMTT(30)
  <2>2. f[i + 1] = f[i] + ls[i + 1].len /\ ls[i + 1].len \in Nat
    <3> DEFINE k == i + 1
    <3>1. k \in 1 .. n /\ k - 1 = i
      BY <2>0
    <3> HIDE DEF k
    <3>2. f[k] = f[i] + ls[k].len /\ ls[k].len \in Nat
      BY <1>2, <1>3, <3>1
    <3> QED BY <3>2 DEF k
  <2>3. CASE i < j
    <3>1. e[i] = f[i] /\ e[i - 1] = f[i - 1] /\ ms[i] = ls[i]
      BY <1>1, <2>0, <2>3
    <3> HIDE DEF e
    <3> QED BY <2>1, <3>1
  <2>4. CASE i = j
    <3>1. e[i] = f[i + 1] - d /\ e[i - 1] = f[i - 1] /\ ms[i] = ls[i + 1]
      BY <1>1, <2>0, <2>4
    <3>2. f[i] = f[i - 1] + d
      BY <1>5, <2>4
    <3> HIDE DEF e
    <3> DEFINE a == f[i - 1]
               b == f[i]
               c == f[i + 1]
               h == ls[i + 1].len
    <3>3. a \in Nat /\ h \in Nat /\ b = a + d /\ c = b + h /\ d \in Nat
      BY <1>4, <2>1, <2>2, <3>2
    <3>4. e[i] = c - d /\ e[i - 1] = a /\ ms[i].len = h
      BY <3>1
    <3> HIDE DEF a, b, c, h, d
    <3>5. c - d = a + h
      BY <3>3
    <3> QED BY <3>4, <3>5
  <2>5. CASE i > j
    <3>1. ~(i < j) /\ ~(i - 1 < j)
      BY <1>1, <2>0, <2>5
    <3>2. e[i] = f[i + 1] - d /\ e[i - 1] = f[i] - d /\ ms[i] = ls[i + 1]
      BY <1>1, <2>0, <3>1
    <3> HIDE DEF e
    <3> DEFINE b == f[i]
               c == f[i + 1]
               h == ls[i + 1].len
    <3>3. b \in Nat /\ h \in Nat /\ c = b + h /\ d \in Nat
      BY <1>4, <2>1, <2>2
    <3>4. e[i] = c - d /\ e[i - 1] = b - d /\ ms[i].len = h
      BY <3>2
    <3> HIDE DEF b, c, h, d
    <3>5. c - d = (b - d) + h
      BY <3>3
    <3> QED BY <3>4, <3>5
  <2> QED BY <1>1, <2>0, <2>3, <2>4, <2>5
<1>8. Running(e, ms)
  BY <1>1, <1>6, <1>7 DEF Running
<1>9. e[n - 1] = f[n] - d
  <2>1. n - 1 \in 0 .. n - 1 /\ (n - 1) + 1 = n
    BY <1>1
  <2>2. CASE n - 1 < j
    <3>1. n = j
      BY <1>1, <2>2
    <3>2. e[n - 1] = f[j - 1]
      BY <2>1, <2>2, <3>1
    <3> HIDE DEF e, d
    <3> QED BY <1>4, <1>5, <3>1, <3>2
  <2>3. CASE ~(n - 1 < j)
    BY <2>1, <2>3
  <2> QED BY <2>2, <2>3
<1> HIDE DEF e
<1>10. e[n - 1] = g[n - 1]
  <2>1. n - 1 \in 0 .. Len(ms)
    BY <1>1
  <2> QED BY <1>1, <1>8, <2>1, EndsAreUnique DEF g
<1> QED BY <1>9, <1>10 DEF g, ms, f, n

-----------------------------------------------------------------------------
(* Sizes that are multiples of a word.                                     *)
Magics == {32, 64}

LEMMA WordsAddUp ==
    ASSUME NEW a \in {4, 8}, NEW m \in Nat, NEW n \in Nat, m % a = 0, n % a = 0
    PROVE  (m + n) % a = 0
OBVIOUS

LEMMA PointerAligned ==
    ASSUME NEW n \in Nat
    PROVE  pointerAlign(n) \in Nat /\ pointerAlign(n) % 8 = 0 /\ pointerAlign(n) >= n
BY DEF pointerAlign, Aligned

(* Padding that starts at a multiple of a word does not depend on it. *)
LEMMA PaddingIsTheSame ==
    ASSUME NEW at \in Nat, NEW n \in Nat
    PROVE  /\ at % 8 = 0 => pointerAlign(at + n) - at = pointerAlign(n)
           /\ at % 4 = 0 => Aligned(at + n, 4) - at = Aligned(n, 4)
<1>1. ASSUME at % 8 = 0 PROVE pointerAlign(at + n) - at = pointerAlign(n)
  <2>1. PICK q \in Nat : at = 8 * q
    <3>1. at \div 8 \in Nat /\ at = 8 * (at \div 8)
      BY <1>1
    <3> QED BY <3>1
  <2>2. (8 * q + n + 8 - 1) \div 8 = q + (n + 8 - 1) \div 8
    OBVIOUS
  <2>3. Aligned(at + n, 8) = 8 * q + Aligned(n, 8) /\ Aligned(n, 8) \in Nat
    BY <2>1, <2>2 DEF Aligned
  <2> QED BY <2>1, <2>3 DEF pointerAlign
<1>2. ASSUME at % 4 = 0 PROVE Aligned(at + n, 4) - at = Aligned(n, 4)
  <2>1. PICK q \in Nat : at = 4 * q
    <3>1. at \div 4 \in Nat /\ at = 4 * (at \div 4)
      BY <1>2
    <3> QED BY <3>1
  <2>2. (4 * q + n + 4 - 1) \div 4 = q + (n + 4 - 1) \div 4
    OBVIOUS
  <2>3. Aligned(at + n, 4) = 4 * q + Aligned(n, 4) /\ Aligned(n, 4) \in Nat
    BY <2>1, <2>2 DEF Aligned
  <2> QED BY <2>1, <2>3
<1> QED BY <1>1, <1>2

(* Write appends the bytes cmdsize counts. *)
LEMMA WrittenAsLinked ==
    ASSUME NEW m \in Magics, NEW l \in LoadRecords, AsLinked(l, m), l.sections = l.nsect,
           m = 64 \/ l.kind # "string",
           NEW at \in Nat, at % LoadAlign(m) = 0
    PROVE  Written(l, at) = l.len
<1>0. (m = 64 => at % 8 = 0) /\ at % 4 = 0
  BY DEF Magics, LoadAlign
<1>1. l.len \in Nat /\ l.head \in Nat /\ l.body \in Nat /\ l.nsect \in Nat
  BY LoadIs
<1>2. l.kind \in {"segment", "string", "dylib", "thread", "ident", "fixed"}
  BY LoadIs
<1>3. Size(l) \in Nat /\ Size(l) + 1 \in Nat
  BY <1>1 DEF Size
<1>4. CASE l.kind = "segment"
  BY <1>4 DEF Written, SegmentWrite, AsLinked, SegmentLoadSize
<1>5. CASE l.kind = "string"
  <2> DEFINE n == Size(l) + 1
  <2>1. l.len = pointerAlign(n) /\ at % 8 = 0
    BY <1>0, <1>5 DEF AsLinked, LoadAlign, pointerAlign
  <2>2. at + Size(l) + 1 = at + n
    BY <1>3
  <2>3. Written(l, at) = pointerAlign(at + n) - at
    BY <1>5, <2>2 DEF Written, StringWrite
  <2>4. n \in Nat
    BY <1>3
  <2> HIDE DEF n
  <2> QED BY <2>1, <2>3, <2>4, PaddingIsTheSame
<1>6. CASE l.kind = "dylib"
  BY <1>6 DEF Written, DylibWrite
<1>7. CASE l.kind = "thread"
  BY <1>7 DEF Written, ThreadWrite, AsLinked
<1>8. CASE l.kind = "ident"
  <2> DEFINE n == Size(l)
  <2>1. l.len = Aligned(n, 4)
    BY <1>8 DEF AsLinked
  <2>2. Written(l, at) = Aligned(at + n, 4) - at
    BY <1>8 DEF Written, IdentWrite
  <2>3. n \in Nat
    BY <1>3
  <2> HIDE DEF n
  <2> QED BY <1>0, <2>1, <2>2, <2>3, PaddingIsTheSame
<1>9. CASE l.kind = "fixed"
  BY <1>9 DEF Written, AsLinked
<1> QED BY <1>2, <1>4, <1>5, <1>6, <1>7, <1>8, <1>9

(* Each command ends at a multiple of the word. *)
LEMMA EndsAreAligned ==
    ASSUME Magic \in Magics, NEW ls \in Seq(LoadRecords),
           \A i \in 1 .. Len(ls) : ls[i].len % LoadAlign(Magic) = 0
    PROVE  \A i \in 0 .. Len(ls) :
              CommandEnds(ls)[i] \in Nat /\ CommandEnds(ls)[i] % LoadAlign(Magic) = 0
<1> DEFINE n == Len(ls)
           f == CommandEnds(ls)
           w == LoadAlign(Magic)
           S == {i \in 0 .. n : f[i] % w = 0}
<1>1. n \in Nat /\ \A i \in 1 .. n : ls[i].len \in Nat /\ ls[i].len % w = 0
  BY LoadsAre, LoadIs
<1>2. f \in [0 .. n -> Nat] /\ f[0] = HdrSize /\ \A i \in 1 .. n : f[i] = f[i - 1] + ls[i].len
  BY EndsAre DEF Running
<1>3. w \in {4, 8} /\ HdrSize % w = 0
  BY DEF Magics, LoadAlign, HdrSize
<1> HIDE DEF n, f, w
<1>4. 0 \in S
  BY <1>1, <1>2, <1>3
<1>5. ASSUME NEW i \in 1 .. n, i - 1 \in S PROVE i \in S
  <2> DEFINE a == f[i - 1]
             c == ls[i].len
  <2>1. i - 1 \in 0 .. n /\ i \in 0 .. n
    BY <1>1
  <2>2. a \in Nat /\ c \in Nat /\ a % w = 0 /\ c % w = 0 /\ f[i] = a + c
    BY <1>1, <1>2, <1>5, <2>1
  <2> HIDE DEF a, c
  <2>3. (a + c) % w = 0
    BY <1>3, <2>2, WordsAddUp
  <2> QED BY <2>1, <2>2, <2>3
<1>6. \A i \in 0 .. n : i \in S
  <2> HIDE DEF S
  <2> QED BY <1>1, <1>4, <1>5, CountInduction
<1> QED BY <1>2, <1>6 DEF n, f, w

(* What writeLoadCommands appends ends where cmdsize says. *)
LEMMA WritesFollow ==
    ASSUME Magic \in Magics, Loads \in Seq(LoadRecords),
           \A i \in 1 .. Len(Loads) :
              /\ AsLinked(Loads[i], Magic) /\ Loads[i].sections = Loads[i].nsect
              /\ Magic = 64 \/ Loads[i].kind # "string"
    PROVE  writeLoadCommands = CommandEnds(Loads)
<1> DEFINE n == Len(Loads)
           D == 0 .. n
           f == CommandEnds(Loads)
           Code(u, i) == IF i = 0 THEN HdrSize ELSE u[i - 1] + Written(Loads[i], u[i - 1])
           upTo == CHOOSE u : u = [i \in D |-> Code(u, i)]
<1>1. writeLoadCommands = upTo
  BY DEF writeLoadCommands
<1>2. n \in Nat /\ \A i \in 1 .. n : Loads[i] \in LoadRecords
  BY LoadsAre
<1>3. f \in [0 .. n -> Nat] /\ f[0] = HdrSize /\ \A i \in 1 .. n : f[i] = f[i - 1] + Loads[i].len
  BY EndsAre DEF Running
<1>4. \A i \in 0 .. n : f[i] \in Nat /\ f[i] % LoadAlign(Magic) = 0
  <2>1. \A i \in 1 .. n : Loads[i].len % LoadAlign(Magic) = 0
    BY DEF AsLinked
  <2> QED BY <2>1, EndsAreAligned
<1> HIDE DEF n, f
<1>5. ASSUME NEW i \in 1 .. n PROVE Written(Loads[i], f[i - 1]) = Loads[i].len
  <2>1. i - 1 \in 0 .. n
    BY <1>2
  <2>2. f[i - 1] \in Nat /\ f[i - 1] % LoadAlign(Magic) = 0
    BY <1>4, <2>1
  <2>3. /\ AsLinked(Loads[i], Magic) /\ Loads[i].sections = Loads[i].nsect
        /\ Magic = 64 \/ Loads[i].kind # "string"
        /\ Loads[i] \in LoadRecords
    BY <1>2 DEF n
  <2> QED BY <2>2, <2>3, WrittenAsLinked
<1>6. \A i \in D : f[i] = Code(f, i)
  <2>1. ASSUME NEW i \in D, i # 0 PROVE f[i] = f[i - 1] + Written(Loads[i], f[i - 1])
    <3>1. i \in 1 .. n
      BY <1>2, <2>1
    <3> QED BY <1>3, <1>5, <3>1
  <2> QED BY <1>3, <2>1
<1>7. f = [i \in D |-> Code(f, i)]
  <2>1. f = [i \in D |-> f[i]]
    BY <1>3
  <2> HIDE DEF Code, D
  <2> QED BY <1>6, <2>1
<1>8. upTo = [i \in D |-> Code(upTo, i)]
  <2> HIDE DEF Code, D
  <2> QED BY <1>7
<1> HIDE DEF upTo
<1>9. upTo[0] = HdrSize /\ \A i \in 1 .. n : upTo[i] = upTo[i - 1] + Written(Loads[i], upTo[i - 1])
  <2>1. \A i \in D : upTo[i] = Code(upTo, i)
    BY <1>8
  <2>2. upTo[0] = HdrSize
    <3>1. 0 \in D
      BY <1>2
    <3>2. Code(upTo, 0) = HdrSize
      OBVIOUS
    <3> HIDE DEF Code, D
    <3> QED BY <2>1, <3>1, <3>2
  <2>3. ASSUME NEW i \in 1 .. n PROVE upTo[i] = upTo[i - 1] + Written(Loads[i], upTo[i - 1])
    <3>1. i \in D /\ i # 0
      BY <1>2
    <3>2. Code(upTo, i) = upTo[i - 1] + Written(Loads[i], upTo[i - 1])
      BY <3>1
    <3> HIDE DEF Code, D
    <3> QED BY <2>1, <3>1, <3>2
  <2> QED BY <2>2, <2>3
<1> DEFINE S == {i \in D : upTo[i] = f[i]}
<1>10. 0 \in S
  BY <1>2, <1>3, <1>9
<1>11. ASSUME NEW i \in 1 .. n, i - 1 \in S PROVE i \in S
  <2>1. upTo[i - 1] = f[i - 1] /\ i \in D
    BY <1>2, <1>11
  <2>2. upTo[i] = f[i - 1] + Written(Loads[i], f[i - 1])
    BY <1>9, <2>1
  <2> QED BY <1>3, <1>5, <2>1, <2>2
<1>12. \A i \in D : i \in S
  <2> HIDE DEF S
  <2> QED BY <1>2, <1>10, <1>11, CountInduction
<1>13. upTo = f
  <2>1. upTo = [i \in D |-> upTo[i]] /\ f = [i \in D |-> f[i]]
    BY <1>3, <1>8
  <2>2. \A i \in D : upTo[i] = f[i]
    BY <1>12
  <2> HIDE DEF D, S
  <2> QED BY <2>1, <2>2
<1> QED BY <1>1, <1>13 DEF f

-----------------------------------------------------------------------------
(* The header's counts are those of the list, each command of which has    *)
(* the cmdsize a linker gives it.                                          *)
SizeIsCounted ==
    measured => SizeCommands = (CommandEnds(Loads)[Len(Loads)] - HdrSize) % SizeWrap

InStep ==
    /\ Magic \in Magics
    /\ Loads \in Seq(LoadRecords)
    /\ \A i \in 1 .. Len(Loads) : AsLinked(Loads[i], Magic)
    /\ NCommands = Len(Loads)
    /\ SizeIsCounted

(* Numbers a multiple of w apart have one remainder. *)
LEMMA RemaindersAre ==
    ASSUME NEW w \in Nat \ {0}, NEW x \in Int, NEW y \in Int, NEW k \in Int, x = y + w * k
    PROVE  x % w = y % w
<1> DEFINE p == x \div w
           q == y \div w
           r == x % w
           s == y % w
           t == q - p + k
<1>1. /\ p \in Int /\ q \in Int /\ r \in 0 .. w - 1 /\ s \in 0 .. w - 1
      /\ x = w * p + r /\ y = w * q + s
  OBVIOUS
<1> HIDE DEF p, q, r, s
<1>2. w * t = w * q - w * p + w * k /\ t \in Int
  BY <1>1
<1>3. w * t = r - s
  BY <1>1, <1>2
<1> HIDE DEF t
<1>4. ASSUME NEW i \in Nat, i # 0 PROVE w * i >= w
  <2>1. PICK j \in Nat : i = j + 1
    <3>1. i - 1 \in Nat /\ i = (i - 1) + 1
      BY <1>4
    <3> QED BY <3>1
  <2>2. w * i = w * j + w /\ w * j \in Nat
    BY <2>1
  <2> QED BY <2>2
<1>5. ~(t > 0)
  <2>1. ASSUME t > 0 PROVE w * t >= w
    <3>1. t \in Nat /\ t # 0
      BY <1>2, <2>1
    <3> QED BY <1>4, <3>1
  <2> QED BY <1>1, <1>3, <2>1
<1>6. ~(t < 0)
  <2>1. ASSUME t < 0 PROVE w * (-t) >= w
    <3>1. -t \in Nat /\ -t # 0
      BY <1>2, <2>1
    <3> QED BY <1>4, <3>1
  <2>2. w * (-t) = -(w * t)
    BY <1>2
  <2>3. w * t \in Int
    BY <1>2
  <2> QED BY <1>1, <1>3, <2>1, <2>2, <2>3
<1>7. t = 0
  BY <1>2, <1>5, <1>6
<1>8. w * t = 0
  BY <1>7
<1>9. r = s
  BY <1>1, <1>3, <1>8
<1> QED BY <1>9 DEF r, s

(* Adding to a remainder. *)
LEMMA RemaindersAddUp ==
    ASSUME NEW w \in Nat \ {0}, NEW a \in Int, NEW b \in Int
    PROVE  ((a % w) + b) % w = (a + b) % w
<1> DEFINE q == a \div w
           r == a % w
<1>1. q \in Int /\ r \in Int /\ a = w * q + r
  OBVIOUS
<1> HIDE DEF q, r
<1>2. a + b = (r + b) + w * q
  BY <1>1
<1>3. (a + b) % w = (r + b) % w
  <2> DEFINE x == a + b
             y == r + b
  <2>1. x \in Int /\ y \in Int /\ x = y + w * q
    BY <1>1, <1>2
  <2> HIDE DEF x, y
  <2>2. x % w = y % w
    BY <1>1, <2>1, RemaindersAre
  <2> QED BY <2>2 DEF x, y
<1> QED BY <1>3 DEF r

(* An edit that counts the bytes it brings or takes keeps the count. *)
LEMMA CountAfter ==
    ASSUME CommandsAreLoads, SizeIsCounted, Magic' = Magic,
           Loads \in Seq(LoadRecords), Loads' \in Seq(LoadRecords),
           NEW n \in Int, Grow(n), measured' => measured,
           measured' => CommandEnds(Loads')[Len(Loads')] = CommandEnds(Loads)[Len(Loads)] + n
    PROVE  SizeIsCounted'
<1> DEFINE a == CommandEnds(Loads)[Len(Loads)]
           b == CommandEnds(Loads')[Len(Loads')]
           h == HdrSize
           w == SizeWrap
<1>1. SUFFICES ASSUME measured' PROVE SizeCommands' = (b - h) % w
  BY EndsLater DEF SizeIsCounted
<1>2. /\ SizeCommands = (a - h) % w /\ SizeCommands' = (SizeCommands + n) % w
      /\ b = a + n
  BY <1>1 DEF SizeIsCounted, Grow
<1>3. a \in Nat /\ h \in Nat /\ w \in Nat \ {0}
  <2>1. Len(Loads) \in 0 .. Len(Loads)
    BY LoadsAre
  <2> QED BY <2>1, EndsAre DEF HdrSize, CommandsAreLoads
<1> HIDE DEF a, b, h, w
<1> DEFINE c == a - h
<1>4. c \in Int /\ b - h = c + n /\ SizeCommands = c % w
  BY <1>2, <1>3
<1> HIDE DEF c
<1>5. ((c % w) + n) % w = (c + n) % w
  BY <1>3, <1>4, RemaindersAddUp
<1> QED BY <1>2, <1>4, <1>5

(* What NewFile makes of a command it parsed. *)
AsParsed(l, f) == [l EXCEPT !.firstsect = IF Segment(l) THEN f ELSE 0, !.sections = l.nsect]

LEMMA KeptIs ==
    ASSUME CommandsAreLoads, NEW w \in Magics, NEW l \in ParsedLoads[w], NEW f \in Nat
    PROVE  /\ AsParsed(l, f) \in LoadRecords
           /\ AsParsed(l, f).len = l.len /\ AsParsed(l, f).nsect = l.nsect
           /\ AsParsed(l, f).id = l.id /\ AsParsed(l, f).kind = l.kind
           /\ AsParsed(l, f).firstsect = IF Segment(l) THEN f ELSE 0
           /\ AsLinked(l, w) => AsLinked(AsParsed(l, f), w)
<1> DEFINE x == IF Segment(l) THEN f ELSE 0
           m == [l EXCEPT !.firstsect = x, !.sections = l.nsect]
<1>1. l \in LoadRecords /\ x \in Nat
  BY DEF CommandsAreLoads, Commands, Magics
<1>2. l.nsect \in Nat
  BY <1>1, LoadIs
<1> HIDE DEF x
<1>3. /\ m \in LoadRecords /\ m.len = l.len /\ m.nsect = l.nsect /\ m.id = l.id
      /\ m.kind = l.kind /\ m.firstsect = x /\ m.head = l.head /\ m.body = l.body
  BY <1>1, <1>2 DEF LoadRecords
<1> HIDE DEF m
<1>4. Size(m) = Size(l) /\ SegmentLoadSize(m) = SegmentLoadSize(l)
  BY <1>3 DEF Size, SegmentLoadSize, SectionSize
<1>5. AsLinked(l, w) => AsLinked(m, w)
  BY <1>3, <1>4 DEF AsLinked
<1>6. AsParsed(l, f) = m
  BY DEF AsParsed, m, x
<1>7. m.firstsect = IF Segment(l) THEN f ELSE 0
  BY <1>3 DEF x
<1> QED BY ONLY <1>3, <1>5, <1>6, <1>7

(* The two functions NewFile steps through a list with. *)
LEMMA FirstsAre ==
    ASSUME NEW ls \in Seq(LoadRecords)
    PROVE  /\ FirstSections(ls) \in [1 .. Len(ls) -> Nat]
           /\ Len(ls) > 0 => FirstSections(ls)[1] = 0
           /\ \A i \in 1 .. Len(ls) - 1 : FirstSections(ls)[i + 1] = FirstSections(ls)[i] + ls[i].nsect
<1> DEFINE n == Len(ls)
           D == 1 .. n
           Code(u, i) == IF i = 1 THEN 0 ELSE u[i - 1] + ls[i - 1].nsect
           before == CHOOSE u : u = [i \in D |-> Code(u, i)]
           step0 == [y \in (0 .. n) \X Nat |-> IF y[1] <= 1 THEN 0 ELSE y[2] + ls[y[1] - 1].nsect]
<1>1. FirstSections(ls) = before
  BY DEF FirstSections
<1>2. n \in Nat
  BY LoadsAre
<1>3. \A i \in 1 .. n : ls[i].nsect \in Nat
  BY LoadsAre, LoadIs
<1>4. PICK f \in [0 .. n -> Nat] : Carries(f, n, 0, step0)
  <2>1. step0 \in [(0 .. n) \X Nat -> Nat]
    <3>1. \A i \in 0 .. n : ~(i <= 1) => i - 1 \in 1 .. n
      BY <1>2
    <3> HIDE DEF n
    <3> QED BY <1>2, <1>3, <3>1
  <2> HIDE DEF step0, n
  <2> QED BY <1>2, <2>1, FoldExists
<1> HIDE DEF n
<1>5. \A i \in 1 .. n : f[i - 1] \in Nat /\ f[i] = step0[<<i, f[i - 1]>>]
  <2>1. \A i \in 1 .. n : i - 1 \in 0 .. n
    BY <1>2
  <2> HIDE DEF step0
  <2> QED BY <1>4, <2>1 DEF Carries
<1>6. \A i \in 0 .. n, v \in Nat :
         step0[<<i, v>>] = IF i <= 1 THEN 0 ELSE v + ls[i - 1].nsect
  OBVIOUS
<1> HIDE DEF step0
<1>7. \A i \in 1 .. n : f[i] = IF i <= 1 THEN 0 ELSE f[i - 1] + ls[i - 1].nsect
  <2>1. \A i \in 1 .. n : i \in 0 .. n
    BY <1>2
  <2> QED BY <1>5, <1>6, <2>1
<1> DEFINE h == [i \in D |-> f[i]]
<1>8. \A i \in D : h[i] = Code(h, i)
  <2>1. ASSUME NEW i \in D PROVE h[i] = Code(h, i)
    <3>1. CASE i = 1
      BY <1>2, <1>7, <3>1
    <3>2. CASE i # 1
      <4>1. i - 1 \in D /\ ~(i <= 1)
        BY <1>2, <3>2
      <4> QED BY <1>7, <3>2, <4>1
    <3> QED BY <3>1, <3>2
  <2> QED BY <2>1
<1>9. h = [i \in D |-> Code(h, i)]
  <2>1. h = [i \in D |-> h[i]]
    OBVIOUS
  <2> HIDE DEF Code, D, h
  <2> QED BY <1>8, <2>1
<1> HIDE DEF h
<1>10. before = [i \in D |-> Code(before, i)]
  <2> HIDE DEF Code, D
  <2> QED BY <1>9
<1> HIDE DEF before
<1>11. \A i \in D : before[i] = Code(before, i)
  BY <1>10
<1>12. \A i \in 1 .. n - 1 : before[i + 1] = before[i] + ls[i].nsect
  <2>1. ASSUME NEW i \in 1 .. n - 1 PROVE before[i + 1] = before[i] + ls[i].nsect
    <3> DEFINE k == i + 1
    <3>1. k \in D /\ k # 1 /\ k - 1 = i
      BY <1>2
    <3> HIDE DEF k, D
    <3>2. before[k] = before[i] + ls[i].nsect
      BY <1>11, <3>1
    <3> QED BY <3>2 DEF k
  <2> QED BY <2>1
<1>13. n > 0 => before[1] = 0
  BY <1>2, <1>11
<1>14. \A i \in D : before[i] \in Nat
  <2> DEFINE S == {i \in 0 .. n : i = 0 \/ before[i] \in Nat}
  <2>1. 0 \in S
    BY <1>2
  <2>2. ASSUME NEW i \in 1 .. n, i - 1 \in S PROVE i \in S
    <3>1. CASE i = 1
      BY <1>2, <1>13, <3>1
    <3>2. CASE i # 1
      <4> DEFINE j == i - 1
      <4>1. j \in 1 .. n - 1 /\ j + 1 = i /\ j # 0 /\ i \in 0 .. n /\ j \in 1 .. n
        BY <1>2, <3>2
      <4>2. before[j] \in Nat
        BY <2>2, <4>1
      <4> HIDE DEF j
      <4>3. before[j + 1] = before[j] + ls[j].nsect /\ ls[j].nsect \in Nat
        BY <1>3, <1>12, <4>1
      <4> QED BY <4>1, <4>2, <4>3
    <3> QED BY <3>1, <3>2
  <2>3. \A i \in 0 .. n : i \in S
    <3> HIDE DEF S
    <3> QED BY <1>2, <2>1, <2>2, CountInduction
  <2> QED BY <1>2, <2>3
<1>15. before \in [D -> Nat]
  BY <1>10, <1>14
<1> QED BY <1>1, <1>12, <1>13, <1>15 DEF n

(* The list NewFile makes. *)
LEMMA NewTableIs ==
    ASSUME CommandsAreLoads, Magic \in Magics, NEW n \in Nat,
           NEW ls \in [1 .. n -> ParsedLoads[Magic]], NewTable(ls)
    PROVE  /\ ls \in Seq(LoadRecords) /\ Len(ls) = n
           /\ Loads \in Seq(LoadRecords) /\ Len(Loads) = n
           /\ \A i \in 1 .. n :
                 /\ ls[i] \in ParsedLoads[Magic] /\ ls[i] \in LoadRecords
                 /\ Loads[i].len = ls[i].len /\ Loads[i].nsect = ls[i].nsect
                 /\ Loads[i].id = ls[i].id /\ Loads[i].kind = ls[i].kind
                 /\ Loads[i].firstsect = IF Segment(ls[i]) THEN FirstSections(ls)[i] ELSE 0
                 /\ AsLinked(ls[i], Magic) => AsLinked(Loads[i], Magic)
           /\ NCommands = n /\ SizeCommands = CommandEnds(ls)[n] - HdrSize
           /\ SizeCommands < SizeWrap
<1>1. ParsedLoads[Magic] \subseteq LoadRecords
  BY DEF CommandsAreLoads, Commands, Magics
<1>2. ls \in Seq(LoadRecords) /\ Len(ls) = n /\ \A i \in 1 .. n : ls[i] \in ParsedLoads[Magic]
  <2> HIDE DEF LoadRecords
  <2> QED BY <1>1
<1>3. \A i \in 1 .. n : FirstSections(ls)[i] \in Nat
  BY <1>2, FirstsAre
<1>4. /\ Loads = [i \in 1 .. n |-> AsParsed(ls[i], FirstSections(ls)[i])]
      /\ NCommands = n /\ SizeCommands = CommandEnds(ls)[n] - HdrSize
      /\ SizeCommands < SizeWrap
  BY <1>2 DEF NewTable, AsParsed
<1>6. ASSUME NEW i \in 1 .. n
      PROVE  /\ Loads[i] = AsParsed(ls[i], FirstSections(ls)[i]) /\ Loads[i] \in LoadRecords
             /\ ls[i] \in ParsedLoads[Magic] /\ ls[i] \in LoadRecords
  BY <1>1, <1>2, <1>3, <1>4, KeptIs
<1>7. Loads \in Seq(LoadRecords) /\ Len(Loads) = n
  <2>1. Loads \in [1 .. n -> LoadRecords]
    <3> HIDE DEF AsParsed, LoadRecords
    <3> QED BY <1>4, <1>6
  <2> HIDE DEF LoadRecords
  <2> QED BY <2>1
<1>8. ASSUME NEW i \in 1 .. n
      PROVE  /\ Loads[i].len = ls[i].len /\ Loads[i].nsect = ls[i].nsect
             /\ Loads[i].id = ls[i].id /\ Loads[i].kind = ls[i].kind
             /\ Loads[i].firstsect = IF Segment(ls[i]) THEN FirstSections(ls)[i] ELSE 0
             /\ AsLinked(ls[i], Magic) => AsLinked(Loads[i], Magic)
  BY <1>3, <1>6, KeptIs
<1> QED BY <1>2, <1>4, <1>6, <1>7, <1>8

(* NewFile counts what it parsed. *)
LEMMA InStepAtFirst ==
    ASSUME CommandsAreLoads, CommandsAreLinked, Init
    PROVE  InStep
<1>0. Magic \in Magics
  BY DEF Init, Magics
<1>1. PICK n \in Nat : \E ls \in [1 .. n -> ParsedLoads[Magic]] : NewTable(ls)
  BY DEF Init, CommandsAreLoads
<1>2. PICK ls \in [1 .. n -> ParsedLoads[Magic]] : NewTable(ls)
  BY <1>1
<1> DEFINE f == CommandEnds(ls)
<1>3. /\ ls \in Seq(LoadRecords) /\ Len(ls) = n
      /\ Loads \in Seq(LoadRecords) /\ Len(Loads) = n
      /\ NCommands = n /\ SizeCommands = f[n] - HdrSize /\ SizeCommands < SizeWrap
      /\ \A i \in 1 .. n : Loads[i].len = ls[i].len
  BY <1>0, <1>2, NewTableIs
<1>4. \A i \in 1 .. n : AsLinked(Loads[i], Magic)
  <2>1. \A i \in 1 .. n : /\ ls[i] \in ParsedLoads[Magic]
                          /\ AsLinked(ls[i], Magic) => AsLinked(Loads[i], Magic)
    BY <1>0, <1>2, NewTableIs
  <2>2. \A l \in ParsedLoads[Magic] : AsLinked(l, Magic)
    BY <1>0 DEF CommandsAreLinked, Magics
  <2> QED BY <2>1, <2>2
<1>5. Running(f, Loads) /\ f[n] \in Nat
  <2>1. Running(f, ls) /\ f \in [0 .. n -> Nat]
    BY <1>3, EndsAre
  <2> HIDE DEF f
  <2> QED BY <1>3, <2>1 DEF Running
<1>6. f[n] = CommandEnds(Loads)[n]
  <2>1. n \in 0 .. Len(Loads)
    BY <1>3
  <2> HIDE DEF f
  <2> QED BY <1>3, <1>5, <2>1, EndsAreUnique
<1>7. SizeCommands = (f[n] - HdrSize) % SizeWrap
  <2>1. SizeCommands \in Nat
    <3>1. \A i \in 0 .. n : f[i] >= HdrSize
      <4> DEFINE S == {i \in 0 .. n : f[i] >= HdrSize}
      <4>1. HdrSize \in Nat /\ f[0] = HdrSize /\ f \in [0 .. n -> Nat]
        BY <1>3, EndsAre DEF Running, HdrSize
      <4>2. \A i \in 1 .. n : f[i] = f[i - 1] + ls[i].len /\ ls[i].len \in Nat
        BY <1>3, EndsAre, LoadsAre, LoadIs DEF Running
      <4> HIDE DEF f
      <4>3. 0 \in S
        BY <4>1
      <4>4. ASSUME NEW i \in 1 .. n, i - 1 \in S PROVE i \in S
        <5> DEFINE x == f[i - 1]
                   y == ls[i].len
        <5>1. x \in Nat /\ y \in Nat /\ x >= HdrSize /\ f[i] = x + y /\ i \in 0 .. n
          BY <4>1, <4>2, <4>4
        <5> HIDE DEF x, y
        <5> QED BY <4>1, <5>1
      <4>5. \A i \in 0 .. n : i \in S
        <5> HIDE DEF S
        <5> QED BY <4>3, <4>4, CountInduction
      <4> QED BY <4>5
    <3>2. n \in 0 .. n /\ HdrSize \in Nat
      BY DEF HdrSize
    <3> HIDE DEF f
    <3> QED BY <1>3, <1>5, <3>1, <3>2
  <2>2. SizeWrap \in Nat \ {0}
    BY DEF CommandsAreLoads
  <2>3. SizeCommands % SizeWrap = SizeCommands
    <3> DEFINE c == SizeCommands
               w == SizeWrap
    <3>1. c \in Nat /\ w \in Nat \ {0} /\ c < w
      BY <1>3, <2>1, <2>2
    <3> HIDE DEF c, w
    <3>2. c % w = c
      BY <3>1
    <3> QED BY <3>2 DEF c, w
  <2> HIDE DEF f
  <2> QED BY <1>3, <2>3
<1> QED BY <1>0, <1>3, <1>4, <1>6, <1>7 DEF InStep, SizeIsCounted

(* What LoadSize says is a number. *)
LEMMA LoadSizeIs ==
    ASSUME NEW l \in LoadRecords
    PROVE  LoadSize(l) \in Nat
<1> DEFINE n == Size(l)
<1>1. /\ l.head \in Nat /\ l.nsect \in Nat /\ n \in Nat /\ n + 1 \in Nat
      /\ l.kind \in {"segment", "string", "dylib", "thread", "ident", "fixed"}
  BY LoadIs DEF Size
<1>2. SegmentLoadSize(l) \in Nat
  BY <1>1 DEF SegmentLoadSize, SectionSize
<1>3. NamedLoadSize(l) \in Nat
  BY <1>1, PointerAligned DEF NamedLoadSize
<1>4. IdentLoadSize(l) \in Nat
  <2> HIDE DEF n
  <2>1. n % 4 \in 0 .. 3
    BY <1>1
  <2>2. IdentLoadSize(l) = IF n % 4 # 0 THEN 4 - (n % 4) ELSE n
    BY DEF IdentLoadSize, n
  <2> QED BY <1>1, <2>1, <2>2
<1>5. ThreadLoadSize(l) \in Nat
  BY <1>1 DEF ThreadLoadSize
<1> QED BY <1>1, <1>2, <1>3, <1>4, <1>5 DEF LoadSize

(* A command added, with the cmdsize it has or not. *)
LEMMA InStepAfterAdd ==
    ASSUME CommandsAreLoads, InStep, NEW l \in LoadRecords, AsLinked(l, Magic), AddLoad(l)
    PROVE  InStep'
<1> DEFINE n == Len(Loads)
<1>1. /\ Loads' = Append(Loads, l) /\ NCommands' = NCommands + 1 /\ Magic' = Magic
      /\ Grow(LoadSize(l)) /\ measured' = (measured /\ Measured(l))
  BY DEF AddLoad
<1>2. /\ Loads \in Seq(LoadRecords) /\ NCommands = n /\ Magic \in Magics
      /\ SizeIsCounted /\ \A i \in 1 .. n : AsLinked(Loads[i], Magic)
  BY DEF InStep
<1>3. n \in Nat
  BY <1>2, LoadsAre
<1>4. /\ Loads' \in Seq(LoadRecords) /\ Len(Loads') = n + 1
      /\ CommandEnds(Loads')[n + 1] = CommandEnds(Loads)[n] + l.len
  BY <1>1, <1>2, EndsOfAppend
<1>5. \A i \in 1 .. n + 1 : AsLinked(Loads'[i], Magic)
  <2>1. \A i \in 1 .. n + 1 : Loads'[i] = IF i = n + 1 THEN l ELSE Loads[i]
    <3> HIDE DEF LoadRecords
    <3> QED BY <1>1, <1>2
  <2>2. \A i \in 1 .. n + 1 : i = n + 1 \/ i \in 1 .. n
    BY <1>3
  <2> HIDE DEF n
  <2> QED BY <1>2, <2>1, <2>2
<1>6. SizeIsCounted'
  <2>1. measured' => LoadSize(l) = l.len
    BY <1>1 DEF Measured
  <2>2. measured' => CommandEnds(Loads')[Len(Loads')] = CommandEnds(Loads)[Len(Loads)] + LoadSize(l)
    BY <1>4, <2>1
  <2>3. LoadSize(l) \in Int
    <3>1. LoadSize(l) \in Nat
      BY LoadSizeIs
    <3> QED BY <3>1
  <2>4. measured' => measured
    BY <1>1
  <2> QED BY <1>1, <1>2, <1>4, <2>2, <2>3, <2>4, CountAfter
<1>7. NCommands' = n + 1
  BY <1>1, <1>2
<1> QED BY <1>1, <1>2, <1>4, <1>5, <1>6, <1>7 DEF InStep

(* A command in the place of another, and the header told. *)
LEMMA InStepAfterReplacing ==
    ASSUME CommandsAreLoads, InStep,
           NEW j \in 1 .. Len(Loads), NEW l \in LoadRecords, AsLinked(l, Magic),
           Loads' = [Loads EXCEPT ![j] = l], NCommands' = NCommands, Magic' = Magic,
           measured' = measured, Grow(l.len - Loads[j].len)
    PROVE  InStep'
<1> DEFINE n == Len(Loads)
<1>2. /\ Loads \in Seq(LoadRecords) /\ NCommands = n /\ Magic \in Magics
      /\ SizeIsCounted /\ \A i \in 1 .. n : AsLinked(Loads[i], Magic)
  BY DEF InStep
<1>3. n \in Nat /\ Loads[j] \in LoadRecords
  BY <1>2, LoadsAre
<1>4. /\ Loads' \in Seq(LoadRecords) /\ Len(Loads') = n
      /\ CommandEnds(Loads')[n] = CommandEnds(Loads)[n] + (l.len - Loads[j].len)
  BY <1>2, EndsOfReplaced
<1>5. \A i \in 1 .. n : AsLinked(Loads'[i], Magic)
  <2>1. \A i \in 1 .. n : Loads'[i] = IF i = j THEN l ELSE Loads[i]
    <3> HIDE DEF LoadRecords
    <3> QED BY <1>2
  <2> HIDE DEF n
  <2> QED BY <1>2, <2>1
<1>6. SizeIsCounted'
  <2> DEFINE d == l.len - Loads[j].len
  <2>1. d \in Int
    BY <1>3, LoadIs
  <2>2. CommandEnds(Loads')[Len(Loads')] = CommandEnds(Loads)[Len(Loads)] + d
    BY <1>4
  <2> HIDE DEF d
  <2>3. Grow(d)
    BY DEF d
  <2> QED BY <1>2, <1>4, <2>1, <2>2, <2>3, CountAfter
<1> QED BY <1>2, <1>4, <1>5, <1>6 DEF InStep

(* A command that leaves, with the size it came with or another. *)
LEMMA InStepAfterRemove ==
    ASSUME CommandsAreLoads, InStep, NEW j \in 1 .. Len(Loads), RemoveLoad(j)
    PROVE  InStep'
<1> DEFINE n == Len(Loads)
           l == Loads[j]
<1>1. /\ Loads' = Without(Loads, j) /\ NCommands' = NCommands - 1 /\ Magic' = Magic
      /\ Grow(-LoadSize(l)) /\ measured' = (measured /\ Measured(l))
  BY DEF RemoveLoad, Without
<1>2. /\ Loads \in Seq(LoadRecords) /\ NCommands = n /\ Magic \in Magics
      /\ SizeIsCounted /\ \A i \in 1 .. n : AsLinked(Loads[i], Magic)
  BY DEF InStep
<1>3. n \in Nat /\ l \in LoadRecords
  BY <1>2, LoadsAre
<1>4. /\ Loads' \in Seq(LoadRecords) /\ Len(Loads') = n - 1
      /\ CommandEnds(Loads')[n - 1] = CommandEnds(Loads)[n] - l.len
      /\ \A i \in 1 .. n - 1 : Loads'[i] = IF i < j THEN Loads[i] ELSE Loads[i + 1]
  BY <1>1, <1>2, WithoutIs, EndsOfWithout
<1>5. \A i \in 1 .. n - 1 : AsLinked(Loads'[i], Magic)
  <2>1. \A i \in 1 .. n - 1 : i \in 1 .. n /\ i + 1 \in 1 .. n
    BY <1>3
  <2> HIDE DEF n
  <2> QED BY <1>2, <1>4, <2>1
<1>6. SizeIsCounted'
  <2> DEFINE d == -LoadSize(l)
             a == CommandEnds(Loads)[n]
             b == CommandEnds(Loads')[n - 1]
  <2>1. LoadSize(l) \in Nat /\ d \in Int /\ a \in Nat
    <3>1. n \in 0 .. n
      BY <1>3
    <3> QED BY <1>2, <1>3, <3>1, LoadSizeIs, EndsAre
  <2>2. ASSUME measured' PROVE b = a + d
    <3>1. LoadSize(l) = l.len /\ b = a - l.len
      BY <1>1, <1>4, <2>2 DEF Measured
    <3> HIDE DEF a, b, l
    <3> QED BY <2>1, <3>1
  <2>3. measured' => CommandEnds(Loads')[Len(Loads')] = CommandEnds(Loads)[Len(Loads)] + d
    BY <1>4, <2>2
  <2> HIDE DEF d
  <2>4. Grow(d) /\ (measured' => measured)
    BY <1>1 DEF d
  <2> QED BY <1>1, <1>2, <1>4, <2>1, <2>3, <2>4, CountAfter
<1>7. NCommands' = n - 1
  BY <1>1, <1>2
<1> QED BY <1>1, <1>2, <1>4, <1>5, <1>6, <1>7 DEF InStep

(* A segment comes without sections, as the one AddSegment copies. *)
LEMMA ZeroedIs ==
    ASSUME CommandsAreLoads, NEW w \in Magics, NEW l \in NewLoads[w]
    PROVE  LET m == [l EXCEPT !.nsect = 0, !.firstsect = 0, !.sections = 0]
           IN  /\ m \in LoadRecords /\ m.nsect = 0 /\ m.id = l.id /\ m.kind = l.kind
               /\ (CommandsAreLinked /\ Segment(l)) => AsLinked(m, w)
<1> DEFINE m == [l EXCEPT !.nsect = 0, !.firstsect = 0, !.sections = 0]
<1>1. l \in LoadRecords
  BY DEF CommandsAreLoads, Commands, Magics
<1>2. /\ m \in LoadRecords /\ m.len = l.len /\ m.nsect = 0 /\ m.id = l.id /\ m.kind = l.kind
      /\ m.head = l.head
  BY <1>1 DEF LoadRecords
<1> HIDE DEF m
<1>3. ASSUME CommandsAreLinked, Segment(l) PROVE AsLinked(m, w)
  <2>1. l.nsect = 0 /\ AsLinked(l, w) /\ l.kind = "segment"
    BY <1>3 DEF CommandsAreLinked, Segment, Magics
  <2>2. SegmentLoadSize(m) = SegmentLoadSize(l)
    BY <1>2, <2>1 DEF SegmentLoadSize, SectionSize
  <2>3. l.len = SegmentLoadSize(l) /\ l.len % LoadAlign(w) = 0 /\ (l.head = 72 \/ (l.head = 56 /\ w = 32))
    BY <2>1 DEF AsLinked
  <2> QED BY <1>2, <2>1, <2>2, <2>3 DEF AsLinked
<1>4. /\ m \in LoadRecords /\ m.nsect = 0 /\ m.id = l.id /\ m.kind = l.kind
      /\ (CommandsAreLinked /\ Segment(l)) => AsLinked(m, w)
  BY <1>2, <1>3
<1> QED BY <1>4 DEF m

(* A dylib that a caller renamed. *)
LEMMA RenamedIs ==
    ASSUME NEW a \in Magics, NEW l \in LoadRecords, l.kind = "dylib", NEW n \in Nat
    PROVE  LET k == [l EXCEPT !.body = n]
               m == [k EXCEPT !.len = LoadSize(k)]
           IN  /\ m \in LoadRecords /\ AsLinked(m, a) /\ m.len = LoadSize(k)
               /\ m.kind = "dylib" /\ m.id = l.id
               /\ m.nsect = l.nsect /\ m.firstsect = l.firstsect
<1> DEFINE k == [l EXCEPT !.body = n]
           w == LoadSize(k)
           m == [k EXCEPT !.len = w]
<1>1. /\ k \in LoadRecords /\ k.kind = "dylib" /\ k.head = l.head /\ k.body = n
      /\ k.id = l.id /\ k.nsect = l.nsect /\ k.firstsect = l.firstsect
  BY DEF LoadRecords
<1> HIDE DEF k
<1>2. w = pointerAlign(Size(k) + 1)
  BY <1>1 DEF LoadSize, NamedLoadSize
<1>3. Size(k) + 1 \in Nat
  BY <1>1, LoadIs DEF Size
<1>4. w \in Nat /\ w % 8 = 0
  BY <1>2, <1>3, PointerAligned
<1> HIDE DEF w
<1>5. /\ m \in LoadRecords /\ m.len = w /\ m.kind = "dylib" /\ m.id = l.id
      /\ m.nsect = l.nsect /\ m.firstsect = l.firstsect
  BY <1>1, <1>4 DEF LoadRecords
<1>6. AsLinked(m, a)
  <2> HIDE DEF m
  <2>1. w % LoadAlign(a) = 0
    BY <1>4 DEF Magics, LoadAlign
  <2> QED BY <1>5, <2>1 DEF AsLinked
<1> QED BY <1>5, <1>6 DEF m, w, k

(* The last segment with one section more. *)
LEMMA GrownIs ==
    ASSUME NEW g \in LoadRecords, Segment(g), NEW s \in Nat
    PROVE  LET m == [g EXCEPT !.nsect = g.nsect + 1,
                              !.firstsect = IF g.nsect = 0 THEN s ELSE g.firstsect,
                              !.len = g.len + SectionSize(g)]
           IN  /\ m \in LoadRecords /\ Segment(m) /\ m.id = g.id
               /\ m.nsect = g.nsect + 1 /\ m.len = g.len + SectionSize(g)
               /\ m.firstsect = IF g.nsect = 0 THEN s ELSE g.firstsect
               /\ \A w \in Magics : AsLinked(g, w) => AsLinked(m, w)
<1> DEFINE x == IF g.nsect = 0 THEN s ELSE g.firstsect
           y == g.nsect + 1
           z == g.len + SectionSize(g)
           m == [g EXCEPT !.nsect = y, !.firstsect = x, !.len = z]
<1>1. g.nsect \in Nat /\ g.len \in Nat /\ x \in Nat /\ y \in Nat /\ z \in Nat
  BY LoadIs DEF SectionSize
<1>2. g.kind = "segment"
  BY DEF Segment
<1> HIDE DEF x, y, z
<1>3. /\ m \in LoadRecords /\ m.kind = "segment" /\ m.id = g.id /\ m.head = g.head
      /\ m.nsect = y /\ m.len = z /\ m.firstsect = x
  BY <1>1, <1>2 DEF LoadRecords
<1> HIDE DEF m
<1>4. ASSUME NEW w \in Magics, AsLinked(g, w) PROVE AsLinked(m, w)
  <2> DEFINE c == g.nsect
             e == g.len
             h == g.head
             d == SectionSize(g)
  <2>1. /\ e = h + c * d /\ e % LoadAlign(w) = 0 /\ (h = 72 \/ (h = 56 /\ w = 32))
        /\ c \in Nat /\ e \in Nat /\ d = IF h = 72 THEN 80 ELSE 68
    BY <1>1, <1>2, <1>4 DEF AsLinked, SegmentLoadSize, SectionSize
  <2>2. m.nsect = c + 1 /\ m.len = e + d /\ m.head = h /\ SectionSize(m) = d
    BY <1>3 DEF y, z, SectionSize
  <2> HIDE DEF c, e, h, d
  <2>3. e + d = h + (c + 1) * d
    BY <2>1
  <2>4. (e + d) % LoadAlign(w) = 0
    <3>1. d \in Nat /\ d % LoadAlign(w) = 0 /\ LoadAlign(w) \in {4, 8}
      BY <2>1 DEF LoadAlign, Magics
    <3> HIDE DEF Magics
    <3> QED BY <2>1, <3>1, WordsAddUp
  <2> QED BY <1>3, <2>1, <2>2, <2>3, <2>4 DEF AsLinked, SegmentLoadSize
<1>5. Segment(m)
  BY <1>3 DEF Segment
<1> QED BY <1>3, <1>4, <1>5 DEF m, x, y, z

(* Every edit keeps the counts. *)
LEMMA InStepAfterAdds ==
    ASSUME CommandsAreLoads, CommandsAreLinked, InStep, Adds
    PROVE  InStep'
<1>0. Magic \in Magics
  BY DEF InStep
<1>1. NewLoads[Magic] \subseteq LoadRecords
  BY <1>0 DEF CommandsAreLoads, Commands, Magics
<1>2. ASSUME NEW l \in NewLoads[Magic], AddLoad(l) PROVE InStep'
  <2>1. l \in LoadRecords /\ AsLinked(l, Magic)
    BY <1>0, <1>1 DEF CommandsAreLinked, Magics
  <2> QED BY <1>2, <2>1, InStepAfterAdd
<1>3. ASSUME NEW l \in NewLoads[Magic], Segment(l), AddSegment(l) PROVE InStep'
  <2> DEFINE m == [l EXCEPT !.nsect = 0, !.firstsect = 0, !.sections = 0]
  <2>1. m \in LoadRecords /\ AsLinked(m, Magic)
    BY <1>0, <1>3, ZeroedIs
  <2>2. AddLoad(m)
    BY <1>3 DEF AddSegment
  <2> HIDE DEF m
  <2> QED BY <2>1, <2>2, InStepAfterAdd
<1>4. ASSUME NEW i \in DOMAIN Loads, NEW n \in Names, Rename(i, n) PROVE InStep'
  <2> DEFINE k == [Loads[i] EXCEPT !.body = n]
             m == [k EXCEPT !.len = LoadSize(k)]
  <2>1. i \in 1 .. Len(Loads) /\ Loads[i] \in LoadRecords /\ n \in Nat
    BY LoadsAre DEF InStep, CommandsAreLoads
  <2>2. /\ Loads[i].kind = "dylib" /\ Loads' = [Loads EXCEPT ![i] = m]
        /\ Grow(LoadSize(k) - Loads[i].len)
        /\ NCommands' = NCommands /\ Magic' = Magic /\ measured' = measured
    BY <1>4 DEF Rename, ModifySizeCommands
  <2>3. m \in LoadRecords /\ AsLinked(m, Magic) /\ m.len = LoadSize(k)
    BY <1>0, <2>1, <2>2, RenamedIs
  <2> HIDE DEF m, k
  <2> QED BY <2>1, <2>2, <2>3, InStepAfterReplacing
<1>5. CASE DerivedCopy
  <2>1. Loads' = <<>> /\ NCommands' = 0 /\ SizeCommands' = 0 /\ Magic' = Magic
    BY <1>5 DEF DerivedCopy
  <2>2. Loads' \in Seq(LoadRecords) /\ Len(Loads') = 0 /\ DOMAIN Loads' = {}
    <3> HIDE DEF LoadRecords
    <3> QED BY <2>1
  <2>3. CommandEnds(Loads)'[0] = HdrSize' /\ HdrSize' \in Nat
    <3>1. CommandEnds(Loads')[0] = HdrSize /\ HdrSize \in Nat
      BY <2>2, EndsAre DEF Running, HdrSize
    <3> QED BY <2>1, <3>1, EndsLater
  <2>4. SizeIsCounted'
    <3> DEFINE h == HdrSize'
    <3>0. h \in Nat /\ SizeWrap \in Nat \ {0}
      BY <2>3 DEF CommandsAreLoads
    <3> HIDE DEF h
    <3>1. h - h = 0
      BY <3>0
    <3>2. (h - h) % SizeWrap = 0
      BY <3>0, <3>1
    <3> QED BY <2>1, <2>2, <2>3, <3>2 DEF SizeIsCounted, h
  <2> QED BY <1>0, <2>1, <2>2, <2>4 DEF InStep
<1> QED BY <1>2, <1>3, <1>4, <1>5 DEF Adds

LEMMA InStepAfterAddSection ==
    ASSUME CommandsAreLoads, InStep, Len(Sections) \in Nat, AddSection
    PROVE  InStep'
<1> DEFINE j == Len(Loads)
           g == Loads[j]
           s == Len(Sections)
           m == [g EXCEPT !.nsect = g.nsect + 1,
                          !.firstsect = IF g.nsect = 0 THEN s ELSE g.firstsect,
                          !.len = g.len + SectionSize(g)]
<1>1. /\ j > 0 /\ Segment(g) /\ Loads' = [Loads EXCEPT ![j] = m]
      /\ Grow(SectionSize(g)) /\ NCommands' = NCommands /\ Magic' = Magic /\ measured' = measured
  BY DEF AddSection
<1>2. /\ Loads \in Seq(LoadRecords) /\ \A i \in 1 .. j : AsLinked(Loads[i], Magic)
      /\ Magic \in Magics
  BY DEF InStep
<1>3. j \in 1 .. Len(Loads) /\ g \in LoadRecords
  BY <1>1, <1>2, LoadsAre
<1>4. AsLinked(g, Magic)
  BY <1>2, <1>3
<1>5. m \in LoadRecords /\ AsLinked(m, Magic) /\ m.len = g.len + SectionSize(g)
  <2> HIDE DEF g, j
  <2> QED BY <1>1, <1>2, <1>3, <1>4, GrownIs
<1>6. m.len - g.len = SectionSize(g)
  <2>1. g.len \in Nat /\ SectionSize(g) \in Nat
    BY <1>3, LoadIs DEF SectionSize
  <2> HIDE DEF m, g, j
  <2> QED BY <1>5, <2>1
<1>7. Grow(m.len - Loads[j].len)
  BY <1>1, <1>6
<1> HIDE DEF m, s
<1>8. /\ Loads' = [Loads EXCEPT ![j] = m] /\ NCommands' = NCommands
      /\ Magic' = Magic /\ measured' = measured
      /\ j \in 1 .. Len(Loads) /\ m \in LoadRecords /\ AsLinked(m, Magic)
  BY <1>1, <1>3, <1>5
<1> HIDE DEF g, j
<1> QED BY <1>7, <1>8, InStepAfterReplacing


-----------------------------------------------------------------------------
Ids == {l.id : l \in Commands}

SectionsAreList == Sections \in Seq(Ids)

(* Only segments claim sections, what they claim is theirs, and the claims *)
(* of the last one reach the end of the table, until they are left behind. *)
LastClaims ==
    \A i \in 1 .. Len(Loads) :
        (Loads[i].nsect # 0 /\ NoneAfter(i)) =>
            Loads[i].firstsect + Loads[i].nsect = Len(Sections)

ClaimsIndex ==
    \A i \in DOMAIN Loads : Segment(Loads[i]) =>
        \A k \in 1 .. Loads[i].nsect :
            /\ Loads[i].firstsect + k \in DOMAIN Sections
            /\ Sections[Loads[i].firstsect + k] = Loads[i].id

OthersClaimNone == \A i \in 1 .. Len(Loads) : ~Segment(Loads[i]) => Loads[i].nsect = 0

ClaimsAreOwn ==
    /\ Magic \in Magics
    /\ Loads \in Seq(LoadRecords)
    /\ SectionsAreList
    /\ OthersClaimNone
    /\ orphans \in BOOLEAN
    /\ ~orphans => LastClaims
    /\ ~orphans => ClaimsIndex

(* Where the claims of a command end, counted as NewFile counts them. *)
ClaimEnd(ls, i) == FirstSections(ls)[i] + ls[i].nsect

LEMMA ClaimsFollow ==
    ASSUME NEW ls \in Seq(LoadRecords)
    PROVE  /\ \A i \in 1 .. Len(ls) : /\ FirstSections(ls)[i] \in Nat /\ ls[i].nsect \in Nat
                                      /\ ClaimEnd(ls, i) \in Nat /\ FirstSections(ls)[i] <= ClaimEnd(ls, i)
           /\ \A i, j \in 1 .. Len(ls) : i < j => ClaimEnd(ls, i) <= FirstSections(ls)[j]
           /\ \A i, j \in 1 .. Len(ls) :
                 (i <= j /\ \A k \in 1 .. Len(ls) : k > i => ls[k].nsect = 0)
                    => ClaimEnd(ls, j) = ClaimEnd(ls, i)
           /\ \A j \in 1 .. Len(ls), p \in Nat :
                 (1 <= p /\ p <= ClaimEnd(ls, j)) =>
                    \E c \in 1 .. Len(ls) : FirstSections(ls)[c] < p /\ p <= ClaimEnd(ls, c)
<1> DEFINE n == Len(ls)
           F == FirstSections(ls)
           E == [i \in 1 .. n |-> F[i] + ls[i].nsect]
<1>1. n \in Nat /\ \A i \in 1 .. n : ls[i].nsect \in Nat
  BY LoadsAre, LoadIs
<1>2. /\ \A i \in 1 .. n : F[i] \in Nat
      /\ n > 0 => F[1] = 0
      /\ \A i \in 1 .. n - 1 : F[i + 1] = E[i]
  <2>1. F \in [1 .. n -> Nat]
    BY FirstsAre
  <2>2. n > 0 => F[1] = 0
    BY FirstsAre
  <2>3. \A i \in 1 .. n - 1 : F[i + 1] = F[i] + ls[i].nsect
    BY FirstsAre
  <2> HIDE DEF F, n
  <2>4. \A i \in 1 .. n - 1 : i \in 1 .. n
    BY <1>1
  <2> QED BY <2>1, <2>2, <2>3, <2>4
<1> HIDE DEF n, F
<1>3. \A i \in 1 .. n : E[i] = F[i] + ls[i].nsect /\ E[i] \in Nat /\ F[i] <= E[i]
  BY <1>1, <1>2
<1> HIDE DEF E
<1>4. \A i \in 1 .. n : i # 1 => F[i] = E[i - 1]
  <2>1. ASSUME NEW i \in 1 .. n, i # 1 PROVE F[i] = E[i - 1]
    <3> DEFINE k == i - 1
    <3>1. k \in 1 .. n - 1 /\ k + 1 = i
      BY <1>1, <2>1
    <3> HIDE DEF k
    <3>2. F[k + 1] = E[k]
      BY <1>2, <3>1
    <3> QED BY <3>1, <3>2 DEF k
  <2> QED BY <2>1
<1>5. ASSUME NEW i \in 1 .. n PROVE \A j \in 1 .. n : i < j => E[i] <= F[j]
  <2> DEFINE S == {j \in 0 .. n : i < j => E[i] <= F[j]}
  <2>1. 0 \in S
    BY <1>1
  <2>2. ASSUME NEW j \in 1 .. n, j - 1 \in S PROVE j \in S
    <3>1. ASSUME i < j PROVE E[i] <= F[j]
      <4>1. F[j] = E[j - 1] /\ j - 1 \in 1 .. n
        BY <1>1, <1>4, <3>1
      <4>2. CASE i = j - 1
        BY <1>3, <4>1, <4>2
      <4>3. CASE i # j - 1
        <5>1. E[i] <= F[j - 1]
          BY <2>2, <3>1, <4>1, <4>3
        <5> DEFINE a == F[j - 1]
                   b == E[j - 1]
                   c == E[i]
        <5>2. a <= b /\ a \in Nat /\ b \in Nat /\ c \in Nat /\ c <= a
          BY <1>2, <1>3, <4>1, <5>1
        <5>3. c <= b
          <6> HIDE DEF a, b, c
          <6> QED BY <5>2
        <5> QED BY <4>1, <5>3
      <4> QED BY <4>2, <4>3
    <3> QED BY <1>1, <3>1
  <2>3. \A j \in 0 .. n : j \in S
    <3> HIDE DEF S
    <3> QED BY <1>1, <2>1, <2>2, CountInduction
  <2> QED BY <1>1, <2>3
<1>6. ASSUME NEW i \in 1 .. n, \A k \in 1 .. n : k > i => ls[k].nsect = 0
      PROVE  \A j \in 1 .. n : i <= j => E[j] = E[i]
  <2> DEFINE S == {j \in 0 .. n : i <= j => E[j] = E[i]}
  <2>1. 0 \in S
    BY <1>1
  <2>2. ASSUME NEW j \in 1 .. n, j - 1 \in S PROVE j \in S
    <3>1. ASSUME i < j PROVE E[j] = E[i]
      <4>1. F[j] = E[j - 1] /\ j - 1 \in 1 .. n /\ i <= j - 1 /\ j > i
        BY <1>1, <1>4, <3>1
      <4>2. E[j] = F[j] + 0
        BY <1>3, <1>6, <4>1
      <4>3. E[j - 1] = E[i]
        BY <2>2, <4>1
      <4> QED BY <1>3, <1>2, <4>1, <4>2, <4>3
    <3> QED BY <1>1, <3>1
  <2>3. \A j \in 0 .. n : j \in S
    <3> HIDE DEF S
    <3> QED BY <1>1, <2>1, <2>2, CountInduction
  <2> QED BY <1>1, <2>3
<1> DEFINE Covered(p) == \E c \in 1 .. n : F[c] < p /\ p <= E[c]
           S == {j \in 0 .. n : j = 0 \/ \A p \in Nat : (1 <= p /\ p <= E[j]) => Covered(p)}
<1>7. 0 \in S
  BY <1>1
<1>8. ASSUME NEW j \in 1 .. n, j - 1 \in S PROVE j \in S
  <2>1. ASSUME NEW p \in Nat, 1 <= p, p <= E[j] PROVE Covered(p)
    <3>1. CASE F[j] < p
      BY <2>1, <3>1
    <3>2. CASE ~(F[j] < p)
      <4>1. p <= F[j]
        BY <1>2, <3>2
      <4>2. j # 1
        BY <1>1, <1>2, <2>1, <4>1
      <4>3. F[j] = E[j - 1] /\ j - 1 # 0
        BY <1>1, <1>4, <4>2
      <4>4. p <= E[j - 1]
        BY <4>1, <4>3
      <4> HIDE DEF Covered
      <4> QED BY <1>8, <2>1, <4>3, <4>4
    <3> QED BY <3>1, <3>2
  <2> HIDE DEF Covered
  <2> QED BY <1>1, <2>1
<1>9. \A j \in 0 .. n : j \in S
  <2> HIDE DEF S
  <2> QED BY <1>1, <1>7, <1>8, CountInduction
<1>10. ASSUME NEW j \in 1 .. n, NEW p \in Nat, 1 <= p, p <= E[j]
       PROVE  \E c \in 1 .. n : F[c] < p /\ p <= E[c]
  <2>1. j \in S /\ j # 0
    BY <1>1, <1>9
  <2> QED BY <1>10, <2>1
<1>11. \A i \in 1 .. n : ClaimEnd(ls, i) = E[i]
  BY <1>3 DEF ClaimEnd, F
<1> HIDE DEF S, Covered
<1>12. \A i \in 1 .. n : /\ F[i] \in Nat /\ ls[i].nsect \in Nat
                         /\ ClaimEnd(ls, i) \in Nat /\ F[i] <= ClaimEnd(ls, i)
  BY <1>1, <1>2, <1>3, <1>11
<1>13. \A i, j \in 1 .. n : i < j => ClaimEnd(ls, i) <= F[j]
  BY <1>5, <1>11
<1>14. \A i, j \in 1 .. n :
          (i <= j /\ \A k \in 1 .. n : k > i => ls[k].nsect = 0)
             => ClaimEnd(ls, j) = ClaimEnd(ls, i)
  BY <1>6, <1>11
<1>15. \A j \in 1 .. n, p \in Nat :
          (1 <= p /\ p <= ClaimEnd(ls, j)) =>
              \E c \in 1 .. n : F[c] < p /\ p <= ClaimEnd(ls, c)
  BY <1>10, <1>11
<1> QED BY <1>12, <1>13, <1>14, <1>15 DEF n, F

(* The table of sections NewFile makes. *)
LEMMA TableIs ==
    ASSUME CommandsAreLoads, Magic \in Magics, NEW n \in Nat,
           NEW ls \in [1 .. n -> ParsedLoads[Magic]], NewTable(ls)
    PROVE  /\ SectionsAreList
           /\ n > 0 => Len(Sections) = ClaimEnd(ls, n)
           /\ \A i \in 1 .. n : \A k \in 1 .. ls[i].nsect :
                 /\ FirstSections(ls)[i] + k \in DOMAIN Sections
                 /\ Sections[FirstSections(ls)[i] + k] = ls[i].id
<1> DEFINE F == FirstSections(ls)
           Has(i, k) == F[i] < k /\ k <= ClaimEnd(ls, i)
           total == IF n = 0 THEN 0 ELSE ClaimEnd(ls, n)
           pick == [k \in 1 .. total |-> CHOOSE i \in 1 .. n : Has(i, k)]
<1>1. ls \in Seq(LoadRecords) /\ Len(ls) = n /\ \A i \in 1 .. n : ls[i] \in ParsedLoads[Magic]
  BY NewTableIs
<1>2. /\ \A i \in 1 .. n : /\ F[i] \in Nat /\ ls[i].nsect \in Nat
                           /\ ClaimEnd(ls, i) \in Nat /\ F[i] <= ClaimEnd(ls, i)
      /\ \A i, j \in 1 .. n : i < j => ClaimEnd(ls, i) <= F[j]
      /\ \A j \in 1 .. n, p \in Nat :
            (1 <= p /\ p <= ClaimEnd(ls, j)) => \E c \in 1 .. n : Has(c, p)
  BY <1>1, ClaimsFollow
<1>3. Sections = [k \in 1 .. total |-> ls[CHOOSE i \in 1 .. n : Has(i, k)].id]
  <2> DEFINE N == Len(ls)
  <2>1. Sections = [k \in 1 .. (IF N = 0 THEN 0 ELSE FirstSections(ls)[N] + ls[N].nsect) |->
                      ls[CHOOSE i \in 1 .. N :
                           /\ FirstSections(ls)[i] < k
                           /\ k <= FirstSections(ls)[i] + ls[i].nsect].id]
    BY DEF NewTable
  <2>2. N = n
    BY <1>1
  <2> HIDE DEF N
  <2>3. Sections = [k \in 1 .. (IF n = 0 THEN 0 ELSE FirstSections(ls)[n] + ls[n].nsect) |->
                      ls[CHOOSE i \in 1 .. n :
                           /\ FirstSections(ls)[i] < k
                           /\ k <= FirstSections(ls)[i] + ls[i].nsect].id]
    BY ONLY <2>1, <2>2
  <2> QED BY ONLY <2>3 DEF total, Has, F, ClaimEnd
<1>4. total \in Nat /\ (n > 0 => total = ClaimEnd(ls, n))
  BY <1>2
<1>5. \A i \in 1 .. n : ls[i].id \in Ids
  <2>1. ParsedLoads[Magic] \subseteq Commands
    BY DEF Commands, Magics
  <2> QED BY <1>1, <2>1 DEF Ids
<1>6. \A i \in 1 .. n : ClaimEnd(ls, i) = F[i] + ls[i].nsect
  BY DEF ClaimEnd
<1>7. \A i \in 1 .. n : ClaimEnd(ls, i) <= total
  <2>1. ASSUME NEW i \in 1 .. n PROVE ClaimEnd(ls, i) <= total
    <3>1. CASE i = n
      BY <1>2, <3>1
    <3>2. CASE i # n
      <4>1. i < n /\ n \in 1 .. n /\ total = ClaimEnd(ls, n)
        BY <3>2
      <4> DEFINE a == ClaimEnd(ls, i)
                 b == F[n]
                 c == ClaimEnd(ls, n)
      <4>2. a <= b /\ b <= c /\ a \in Nat /\ b \in Nat /\ c \in Nat
        BY <1>2, <4>1
      <4>3. a <= c
        <5> HIDE DEF a, b, c
        <5> QED BY <4>2
      <4> QED BY <4>1, <4>3
    <3> QED BY <3>1, <3>2
  <2> QED BY <2>1
<1>8. ASSUME NEW k \in 1 .. total
      PROVE  /\ pick[k] \in 1 .. n /\ Has(pick[k], k) /\ Sections[k] = ls[pick[k]].id
             /\ \A i \in 1 .. n : Has(i, k) => i = pick[k]
  <2>1. k \in Nat /\ 1 <= k /\ k <= ClaimEnd(ls, n) /\ n \in 1 .. n
    BY <1>2, <1>4
  <2>2. \E c \in 1 .. n : Has(c, k)
    <3> HIDE DEF Has
    <3> QED BY <1>2, <2>1
  <2>3. pick[k] = CHOOSE i \in 1 .. n : Has(i, k)
    <3> HIDE DEF Has
    <3> QED OBVIOUS
  <2>4. pick[k] \in 1 .. n /\ Has(pick[k], k)
    <3> HIDE DEF Has, pick
    <3> QED BY <2>2, <2>3
  <2>5. Sections[k] = ls[pick[k]].id
    <3> HIDE DEF Has, pick, total
    <3> QED BY <1>3, <2>3
  <2>6. ASSUME NEW i \in 1 .. n, Has(i, k) PROVE i = pick[k]
    <3> DEFINE c == pick[k]
    <3>1. c \in 1 .. n /\ Has(c, k)
      BY <2>4
    <3> HIDE DEF c, total
    <3> DEFINE fi == F[i]
               fc == F[c]
               ei == ClaimEnd(ls, i)
               ec == ClaimEnd(ls, c)
    <3>2. fi \in Nat /\ fc \in Nat /\ ei \in Nat /\ ec \in Nat /\ k \in Nat
      BY <1>2, <2>1, <3>1
    <3>3. fi < k /\ k <= ei /\ fc < k /\ k <= ec
      BY <2>6, <3>1
    <3>4. (i < c => ei <= fc) /\ (c < i => ec <= fi)
      BY <1>2, <3>1
    <3>5. ~(i < c) /\ ~(c < i)
      <4> HIDE DEF fi, fc, ei, ec
      <4> QED BY <3>2, <3>3, <3>4
    <3>6. i = c
      BY <3>1, <3>5
    <3> QED BY <3>6 DEF c
  <2> HIDE DEF Has, pick
  <2> QED BY <2>4, <2>5, <2>6
<1>9. Sections \in [1 .. total -> Ids]
  <2>1. \A k \in 1 .. total : Sections[k] \in Ids
    <3> HIDE DEF pick, total, Has
    <3> QED BY <1>5, <1>8
  <2> HIDE DEF total, Has
  <2> QED BY <1>3, <2>1
<1> HIDE DEF total
<1>10. SectionsAreList /\ Len(Sections) = total /\ DOMAIN Sections = 1 .. total
  <2> HIDE DEF Has, pick
  <2> QED BY <1>4, <1>9 DEF SectionsAreList
<1>11. ASSUME NEW i \in 1 .. n, NEW k \in 1 .. ls[i].nsect
       PROVE  /\ F[i] + k \in DOMAIN Sections
              /\ Sections[F[i] + k] = ls[i].id
  <2> DEFINE p == F[i] + k
             e == ClaimEnd(ls, i)
             f == F[i]
             m == ls[i].nsect
  <2>1. f \in Nat /\ m \in Nat /\ e = f + m /\ e <= total /\ k \in Nat /\ 1 <= k /\ k <= m
    BY <1>2, <1>6, <1>7, <1>11
  <2>2. p \in 1 .. total /\ f < p /\ p <= e
    <3>1. p = f + k
      OBVIOUS
    <3> HIDE DEF p, f, m, e
    <3> QED BY <1>4, <2>1, <3>1
  <2>3. Has(i, p)
    BY <2>2
  <2> HIDE DEF p, Has, pick
  <2>4. Sections[p] = ls[i].id
    BY <1>8, <2>2, <2>3
  <2> QED BY <1>10, <2>2, <2>4 DEF p
<1> QED BY <1>4, <1>10, <1>11

(* NewFile hands out the indexes in order. *)
LEMMA ClaimsAtFirst ==
    ASSUME CommandsAreLoads, Init
    PROVE  ClaimsAreOwn
<1>a. Magic \in Magics /\ orphans = FALSE
  BY DEF Init, Magics
<1>0. PICK n \in Nat : \E ls \in [1 .. n -> ParsedLoads[Magic]] : NewTable(ls)
  BY DEF Init, CommandsAreLoads
<1>1. PICK ls \in [1 .. n -> ParsedLoads[Magic]] : NewTable(ls)
  BY <1>0
<1> DEFINE F == FirstSections(ls)
<1>2. /\ ls \in Seq(LoadRecords) /\ Len(ls) = n
      /\ Loads \in Seq(LoadRecords) /\ Len(Loads) = n
      /\ \A i \in 1 .. n :
            /\ ls[i] \in ParsedLoads[Magic]
            /\ Loads[i].nsect = ls[i].nsect
            /\ Loads[i].id = ls[i].id /\ Loads[i].kind = ls[i].kind
            /\ Loads[i].firstsect = IF Segment(ls[i]) THEN F[i] ELSE 0
  BY <1>a, <1>1, NewTableIs
<1>3. /\ SectionsAreList
      /\ n > 0 => Len(Sections) = ClaimEnd(ls, n)
      /\ \A i \in 1 .. n : \A k \in 1 .. ls[i].nsect :
            /\ F[i] + k \in DOMAIN Sections
            /\ Sections[F[i] + k] = ls[i].id
  BY <1>a, <1>1, TableIs
<1>4. \A i \in 1 .. n : Segment(Loads[i]) = Segment(ls[i])
  BY <1>2 DEF Segment
<1>5. \A i \in 1 .. n : ~Segment(ls[i]) => ls[i].nsect = 0
  <2>1. ParsedLoads[Magic] \subseteq Commands
    BY <1>a DEF Commands, Magics
  <2> QED BY <1>2, <2>1 DEF CommandsAreLoads
<1>6. OthersClaimNone
  BY <1>2, <1>4, <1>5 DEF OthersClaimNone
<1>7. ClaimsIndex
  <2>1. ASSUME NEW i \in 1 .. n, Segment(Loads[i]), NEW k \in 1 .. Loads[i].nsect
        PROVE  /\ Loads[i].firstsect + k \in DOMAIN Sections
               /\ Sections[Loads[i].firstsect + k] = Loads[i].id
    <3>1. Loads[i].firstsect = F[i] /\ k \in 1 .. ls[i].nsect /\ Loads[i].id = ls[i].id
      BY <1>2, <1>4, <2>1
    <3> HIDE DEF F
    <3> QED BY <1>3, <3>1
  <2>2. DOMAIN Loads = 1 .. n
    BY <1>2, LoadsAre
  <2> QED BY <2>1, <2>2 DEF ClaimsIndex
<1>8. LastClaims
  <2>1. ASSUME NEW i \in 1 .. n, Loads[i].nsect # 0, NoneAfter(i)
        PROVE  Loads[i].firstsect + Loads[i].nsect = Len(Sections)
    <3>1. \A k \in 1 .. n : k > i => ls[k].nsect = 0
      BY <1>2, <2>1 DEF NoneAfter
    <3>2. n \in 1 .. n /\ i <= n /\ n > 0
      OBVIOUS
    <3>3. ClaimEnd(ls, n) = ClaimEnd(ls, i)
      BY <1>2, <3>1, <3>2, ClaimsFollow, SMTT(30)
    <3>4. Segment(ls[i])
      BY <1>2, <1>5, <2>1
    <3>5. Loads[i].firstsect + Loads[i].nsect = ClaimEnd(ls, i)
      BY <1>2, <3>4 DEF ClaimEnd
    <3> QED BY <1>3, <3>2, <3>3, <3>5
  <2> QED BY <1>2, <2>1 DEF LastClaims
<1> QED BY <1>a, <1>2, <1>3, <1>6, <1>7, <1>8 DEF ClaimsAreOwn

(* A command that claims what the one at i claimed before. *)
ClaimsAs(l, i) ==
    l.id = Loads[i].id /\ l.kind = Loads[i].kind /\ l.nsect = Loads[i].nsect
    /\ l.firstsect = Loads[i].firstsect

LEMMA ClaimsAreKept ==
    ASSUME ClaimsAreOwn, Magic' = Magic, Loads' \in Seq(LoadRecords), Sections' = Sections,
           orphans' \in BOOLEAN, orphans => orphans',
           \A i \in 1 .. Len(Loads') : ~Segment(Loads'[i]) => Loads'[i].nsect = 0,
           ~orphans' =>
             \A i \in 1 .. Len(Loads') : Loads'[i].nsect # 0 =>
               \E k \in 1 .. Len(Loads) :
                   /\ ClaimsAs(Loads'[i], k)
                   /\ (\A j \in 1 .. Len(Loads') : j > i => Loads'[j].nsect = 0) => NoneAfter(k)
    PROVE  ClaimsAreOwn'
<1>1. /\ Loads \in Seq(LoadRecords) /\ SectionsAreList /\ Magic \in Magics /\ OthersClaimNone
  BY DEF ClaimsAreOwn
<1>2. SectionsAreList' /\ OthersClaimNone'
  BY <1>1 DEF SectionsAreList, OthersClaimNone
<1>3. ASSUME ~orphans' PROVE LastClaims' /\ ClaimsIndex'
  <2>0. LastClaims /\ ClaimsIndex
    BY <1>3 DEF ClaimsAreOwn
  <2>1. ASSUME NEW i \in 1 .. Len(Loads'), Loads'[i].nsect # 0, NoneAfter(i)'
        PROVE  Loads'[i].firstsect + Loads'[i].nsect = Len(Sections')
    <3>1. \A j \in 1 .. Len(Loads') : j > i => Loads'[j].nsect = 0
      BY <2>1 DEF NoneAfter
    <3>2. PICK k \in 1 .. Len(Loads) : ClaimsAs(Loads'[i], k) /\ NoneAfter(k)
      BY <1>3, <2>1, <3>1
    <3>3. Loads[k].nsect # 0 /\ Loads'[i].nsect = Loads[k].nsect
          /\ Loads'[i].firstsect = Loads[k].firstsect
      BY <2>1, <3>2 DEF ClaimsAs
    <3>4. Loads[k].firstsect + Loads[k].nsect = Len(Sections)
      BY <2>0, <3>2, <3>3 DEF LastClaims
    <3> QED BY <3>3, <3>4
  <2>2. ASSUME NEW i \in 1 .. Len(Loads'), Segment(Loads'[i]), NEW k \in 1 .. Loads'[i].nsect
        PROVE  /\ Loads'[i].firstsect + k \in DOMAIN Sections'
               /\ Sections'[Loads'[i].firstsect + k] = Loads'[i].id
    <3>1. Loads'[i].nsect # 0
      BY <2>2
    <3>2. PICK c \in 1 .. Len(Loads) : ClaimsAs(Loads'[i], c)
      BY <1>3, <3>1
    <3>3. /\ Segment(Loads[c]) /\ k \in 1 .. Loads[c].nsect
          /\ Loads'[i].id = Loads[c].id /\ Loads'[i].firstsect = Loads[c].firstsect
      BY <2>2, <3>2 DEF ClaimsAs, Segment
    <3>4. c \in DOMAIN Loads
      BY <1>1, LoadsAre
    <3> QED BY <2>0, <3>3, <3>4 DEF ClaimsIndex
  <2>3. DOMAIN Loads' = 1 .. Len(Loads')
    BY LoadsAre
  <2>4. LastClaims'
    BY <2>1 DEF LastClaims
  <2>5. ClaimsIndex'
    BY <2>2, <2>3 DEF ClaimsIndex
  <2> QED BY <2>4, <2>5
<1>4. Magic' \in Magics
  BY <1>1
<1> QED BY <1>2, <1>3, <1>4 DEF ClaimsAreOwn

LEMMA ClaimsAfterAdd ==
    ASSUME ClaimsAreOwn, NEW l \in LoadRecords, l.nsect = 0, AddLoad(l)
    PROVE  ClaimsAreOwn'
<1> DEFINE n == Len(Loads)
<1>1. /\ Loads' = Append(Loads, l) /\ Sections' = Sections
      /\ Magic' = Magic /\ orphans' = orphans
  BY DEF AddLoad
<1>2. Loads \in Seq(LoadRecords) /\ OthersClaimNone /\ orphans \in BOOLEAN
  BY DEF ClaimsAreOwn
<1>3. /\ Loads' \in Seq(LoadRecords) /\ Len(Loads') = n + 1 /\ n \in Nat
      /\ \A i \in 1 .. n + 1 : Loads'[i] = IF i = n + 1 THEN l ELSE Loads[i]
  <2> HIDE DEF LoadRecords
  <2> QED BY <1>1, <1>2
<1>4. \A i \in 1 .. n : ~Segment(Loads[i]) => Loads[i].nsect = 0
  BY <1>2 DEF OthersClaimNone
<1> HIDE DEF n
<1>5. \A i \in 1 .. n + 1 : i = n + 1 \/ (i \in 1 .. n /\ Loads'[i] = Loads[i])
  BY <1>3
<1>6. \A i \in 1 .. n + 1 : ~Segment(Loads'[i]) => Loads'[i].nsect = 0
  BY <1>3, <1>4, <1>5
<1>7. ASSUME NEW i \in 1 .. n + 1, Loads'[i].nsect # 0
      PROVE  \E k \in 1 .. n :
                /\ ClaimsAs(Loads'[i], k)
                /\ (\A j \in 1 .. n + 1 : j > i => Loads'[j].nsect = 0) => NoneAfter(k)
  <2>1. i \in 1 .. n /\ Loads'[i] = Loads[i]
    BY <1>3, <1>5, <1>7
  <2>2. ClaimsAs(Loads'[i], i)
    BY <2>1 DEF ClaimsAs
  <2>3. ASSUME \A j \in 1 .. n + 1 : j > i => Loads'[j].nsect = 0 PROVE NoneAfter(i)
    <3>1. ASSUME NEW j \in 1 .. n, j > i PROVE Loads[j].nsect = 0
      <4>1. j \in 1 .. n + 1 /\ j # n + 1
        BY <1>3
      <4> QED BY <1>5, <2>3, <3>1, <4>1
    <3> QED BY <3>1 DEF NoneAfter, n
  <2> QED BY <2>1, <2>2, <2>3
<1> QED BY <1>1, <1>2, <1>3, <1>6, <1>7, ClaimsAreKept DEF n

LEMMA ClaimsAfterReplacing ==
    ASSUME ClaimsAreOwn, NEW j \in 1 .. Len(Loads), NEW l \in LoadRecords, ClaimsAs(l, j),
           Loads' = [Loads EXCEPT ![j] = l], Sections' = Sections,
           Magic' = Magic, orphans' = orphans
    PROVE  ClaimsAreOwn'
<1> DEFINE n == Len(Loads)
<1>1. Loads \in Seq(LoadRecords) /\ OthersClaimNone /\ orphans \in BOOLEAN
  BY DEF ClaimsAreOwn
<1>2. /\ Loads' \in Seq(LoadRecords) /\ Len(Loads') = n /\ n \in Nat
      /\ \A i \in 1 .. n : Loads'[i] = IF i = j THEN l ELSE Loads[i]
  <2> HIDE DEF LoadRecords
  <2> QED BY <1>1
<1>3. \A i \in 1 .. n : ~Segment(Loads[i]) => Loads[i].nsect = 0
  BY <1>1 DEF OthersClaimNone
<1> HIDE DEF n
<1>4. \A i \in 1 .. n : ClaimsAs(Loads'[i], i)
  BY <1>2 DEF ClaimsAs
<1>5. \A i \in 1 .. n : ~Segment(Loads'[i]) => Loads'[i].nsect = 0
  BY <1>3, <1>4 DEF ClaimsAs, Segment
<1>6. ASSUME NEW i \in 1 .. n, \A k \in 1 .. n : k > i => Loads'[k].nsect = 0
      PROVE  NoneAfter(i)
  <2>1. \A k \in 1 .. n : k > i => Loads[k].nsect = 0
    BY <1>4, <1>6 DEF ClaimsAs
  <2> QED BY <2>1 DEF NoneAfter, n
<1>7. \A i \in 1 .. n : Loads'[i].nsect # 0 =>
         \E k \in 1 .. n :
             /\ ClaimsAs(Loads'[i], k)
             /\ (\A m \in 1 .. n : m > i => Loads'[m].nsect = 0) => NoneAfter(k)
  BY <1>4, <1>6
<1> QED BY <1>1, <1>2, <1>5, <1>7, ClaimsAreKept DEF n

LEMMA ClaimsAfterRemove ==
    ASSUME ClaimsAreOwn, NEW j \in 1 .. Len(Loads), RemoveLoad(j)
    PROVE  ClaimsAreOwn'
<1> DEFINE n == Len(Loads)
<1>1. /\ Loads' = Without(Loads, j) /\ Sections' = Sections
      /\ Magic' = Magic /\ orphans' = (orphans \/ ClaimsLast(j))
  BY DEF RemoveLoad, Without
<1>2. Loads \in Seq(LoadRecords) /\ OthersClaimNone /\ orphans \in BOOLEAN
  BY DEF ClaimsAreOwn
<1>3. n \in Nat /\ j \in 1 .. n
  BY <1>2, LoadsAre
<1>4. /\ Loads' \in Seq(LoadRecords) /\ Len(Loads') = n - 1
      /\ \A i \in 1 .. n - 1 : Loads'[i] = IF i < j THEN Loads[i] ELSE Loads[i + 1]
  BY <1>1, <1>2, WithoutIs
<1>5. \A i \in 1 .. n : ~Segment(Loads[i]) => Loads[i].nsect = 0
  BY <1>2 DEF OthersClaimNone
<1> HIDE DEF n
<1> DEFINE was(i) == IF i < j THEN i ELSE i + 1
<1>6. \A i \in 1 .. n - 1 : was(i) \in 1 .. n /\ Loads'[i] = Loads[was(i)]
  BY <1>3, <1>4
<1>7. ASSUME ~orphans', NEW i \in 1 .. n - 1,
             \A k \in 1 .. n - 1 : k > i => Loads'[k].nsect = 0
      PROVE  NoneAfter(was(i))
  <2>0. ASSUME NEW m \in 1 .. n, m > was(i), m > j PROVE Loads[m].nsect = 0
    <3> DEFINE k == m - 1
    <3>1. k \in 1 .. n - 1 /\ k > i /\ was(k) = m
      BY <1>3, <2>0
    <3> HIDE DEF k, was
    <3> QED BY <1>6, <1>7, <3>1
  <2>1. ASSUME NEW m \in 1 .. n, m > was(i) PROVE Loads[m].nsect = 0
    <3>1. CASE m = j
      <4>1. \A p \in 1 .. n : p > j => Loads[p].nsect = 0
        BY <1>3, <2>0, <2>1, <3>1
      <4>2. NoneAfter(j)
        BY <4>1 DEF NoneAfter, n
      <4>3. ~ClaimsLast(j)
        BY <1>1, <1>7
      <4> QED BY <3>1, <4>2, <4>3 DEF ClaimsLast
    <3>2. CASE m < j
      <4>1. m \in 1 .. n - 1 /\ m > i /\ was(m) = m
        BY <1>3, <2>1, <3>2
      <4> HIDE DEF was
      <4> QED BY <1>6, <1>7, <4>1
    <3>3. CASE m > j
      BY <2>0, <2>1, <3>3
    <3> QED BY <1>3, <3>1, <3>2, <3>3
  <2> HIDE DEF was
  <2> QED BY <2>1 DEF NoneAfter, n
<1> HIDE DEF was
<1>8. \A i \in 1 .. n - 1 : ~Segment(Loads'[i]) => Loads'[i].nsect = 0
  BY <1>5, <1>6
<1>9. ~orphans' =>
        \A i \in 1 .. n - 1 : Loads'[i].nsect # 0 =>
           \E k \in 1 .. n :
               /\ ClaimsAs(Loads'[i], k)
               /\ (\A m \in 1 .. n - 1 : m > i => Loads'[m].nsect = 0) => NoneAfter(k)
  <2>1. \A i \in 1 .. n - 1 : ClaimsAs(Loads'[i], was(i))
    BY <1>6 DEF ClaimsAs
  <2> QED BY <1>6, <1>7, <2>1
<1>10. orphans' \in BOOLEAN /\ (orphans => orphans')
  BY <1>1, <1>2 DEF ClaimsLast, NoneAfter
<1> QED BY <1>1, <1>4, <1>8, <1>9, <1>10, ClaimsAreKept DEF n

(* AddSection: the last command is a segment, so nothing is claimed after  *)
(* it, and the new section is the next of its own.                         *)
LEMMA ClaimsAfterAddSection ==
    ASSUME ClaimsAreOwn, AddSection
    PROVE  ClaimsAreOwn'
<1> DEFINE n == Len(Loads)
           g == Loads[n]
           s == Len(Sections)
           m == [g EXCEPT !.nsect = g.nsect + 1,
                          !.firstsect = IF g.nsect = 0 THEN s ELSE g.firstsect,
                          !.len = g.len + SectionSize(g)]
<1>1. /\ n > 0 /\ Segment(g) /\ Loads' = [Loads EXCEPT ![n] = m]
      /\ Sections' = Append(Sections, g.id) /\ Magic' = Magic /\ orphans' = orphans
  BY DEF AddSection
<1>2. /\ Loads \in Seq(LoadRecords) /\ Sections \in Seq(Ids) /\ OthersClaimNone
      /\ Magic \in Magics /\ orphans \in BOOLEAN
      /\ ~orphans => LastClaims
      /\ ~orphans => ClaimsIndex
  BY DEF ClaimsAreOwn, SectionsAreList
<1>3. n \in 1 .. n /\ n \in Nat /\ g \in LoadRecords /\ DOMAIN Loads = 1 .. n
  BY <1>1, <1>2, LoadsAre
<1>4. g.id \in Ids /\ g.nsect \in Nat /\ g.firstsect \in Nat
  BY <1>3 DEF LoadRecords, Ids
<1>5. /\ s \in Nat /\ DOMAIN Sections = 1 .. s
      /\ Sections' \in Seq(Ids) /\ Len(Sections') = s + 1 /\ DOMAIN Sections' = 1 .. s + 1
      /\ \A k \in 1 .. s + 1 : Sections'[k] = IF k = s + 1 THEN g.id ELSE Sections[k]
  <2> HIDE DEF Ids, g
  <2> QED BY <1>1, <1>2, <1>4
<1>6. /\ m \in LoadRecords /\ Segment(m) /\ m.id = g.id /\ m.nsect = g.nsect + 1
      /\ m.firstsect = IF g.nsect = 0 THEN s ELSE g.firstsect
  <2> HIDE DEF g
  <2> QED BY <1>1, <1>3, <1>5, GrownIs
<1> HIDE DEF m
<1>7. /\ Loads' \in Seq(LoadRecords) /\ Len(Loads') = n /\ DOMAIN Loads' = 1 .. n
      /\ \A i \in 1 .. n : Loads'[i] = IF i = n THEN m ELSE Loads[i]
  <2> HIDE DEF LoadRecords, g
  <2> QED BY <1>1, <1>2, <1>3, <1>6
<1>8. (~orphans /\ g.nsect # 0) => g.firstsect + g.nsect = s
  <2>1. NoneAfter(n)
    BY <1>3 DEF NoneAfter
  <2> QED BY <1>2, <1>3, <2>1 DEF LastClaims
<1>9. \A i \in 1 .. n : /\ ~Segment(Loads[i]) => Loads[i].nsect = 0
                        /\ (~orphans /\ Segment(Loads[i])) =>
                              \A k \in 1 .. Loads[i].nsect :
                                  /\ Loads[i].firstsect + k \in 1 .. s
                                  /\ Sections[Loads[i].firstsect + k] = Loads[i].id
  BY <1>2, <1>3, <1>5 DEF OthersClaimNone, ClaimsIndex
<1>10. ~orphans => m.firstsect + m.nsect = s + 1
  <2> SUFFICES ASSUME ~orphans PROVE m.firstsect + m.nsect = s + 1
    OBVIOUS
  <2> DEFINE a == g.firstsect
             b == g.nsect
             c == m.firstsect
             d == m.nsect
  <2>1. /\ a \in Nat /\ b \in Nat /\ s \in Nat /\ (b # 0 => a + b = s)
        /\ d = b + 1 /\ c = IF b = 0 THEN s ELSE a
    BY <1>4, <1>5, <1>6, <1>8
  <2> HIDE DEF a, b, c, d, s
  <2>2. c + d = s + 1
    BY <2>1
  <2> QED BY <2>2 DEF c, d
<1>11. ~orphans =>
          \A k \in 1 .. m.nsect :
             m.firstsect + k \in 1 .. s + 1 /\ Sections'[m.firstsect + k] = g.id
  <2> SUFFICES ASSUME ~orphans
               PROVE  \A k \in 1 .. m.nsect :
                         m.firstsect + k \in 1 .. s + 1 /\ Sections'[m.firstsect + k] = g.id
    OBVIOUS
  <2> DEFINE a == g.firstsect
             b == g.nsect
             c == m.firstsect
             d == m.nsect
  <2>1. ASSUME NEW k \in 1 .. d PROVE c + k \in 1 .. s + 1 /\ Sections'[c + k] = g.id
    <3>0. /\ a \in Nat /\ b \in Nat /\ s \in Nat /\ c + d = s + 1 /\ c \in Nat /\ d = b + 1
          /\ c = IF b = 0 THEN s ELSE a
      BY <1>4, <1>5, <1>6, <1>10
    <3>1. CASE k = d
      <4>1. c + k = s + 1 /\ s + 1 \in 1 .. s + 1
        BY <1>5, <1>10, <3>1
      <4> QED BY <1>5, <4>1
    <3>2. CASE k # d
      <4>1. k \in 1 .. b /\ b # 0 /\ c = a
        <5> HIDE DEF a, b, c, d, s
        <5> QED BY <2>1, <3>0, <3>2
      <4>2. a + k \in 1 .. s /\ Sections[a + k] = g.id
        BY <1>1, <1>3, <1>9, <4>1
      <4> DEFINE q == a + k
      <4>3. q \in 1 .. s /\ Sections[q] = g.id /\ c + k = q
        BY <4>1, <4>2
      <4> HIDE DEF q, a, b, c, d, g
      <4>4. q \in 1 .. s + 1 /\ q # s + 1
        BY <1>5, <4>3
      <4>5. Sections'[q] = Sections[q]
        BY <1>5, <4>4
      <4> QED BY <4>3, <4>4, <4>5
    <3> QED BY <3>1, <3>2
  <2> QED BY <2>1
<1> HIDE DEF g, s, n
<1>12. SectionsAreList'
  BY <1>5 DEF SectionsAreList
<1>13. OthersClaimNone'
  BY <1>6, <1>7, <1>9 DEF OthersClaimNone
<1>14. ~orphans => ClaimsIndex'
  <2> SUFFICES ASSUME ~orphans PROVE ClaimsIndex'
    OBVIOUS
  <2>1. ASSUME NEW i \in 1 .. n, Segment(Loads'[i]), NEW k \in 1 .. Loads'[i].nsect
        PROVE  /\ Loads'[i].firstsect + k \in 1 .. s + 1
               /\ Sections'[Loads'[i].firstsect + k] = Loads'[i].id
    <3>1. CASE i = n
      <4>1. Loads'[i] = m
        BY <1>7, <3>1
      <4> QED BY <1>6, <1>11, <2>1, <4>1
    <3>2. CASE i # n
      <4>1. Loads'[i] = Loads[i]
        BY <1>7, <3>2
      <4> DEFINE q == Loads[i].firstsect + k
      <4>2. q \in 1 .. s /\ Sections[q] = Loads[i].id
        BY <1>9, <2>1, <4>1
      <4> HIDE DEF q
      <4>3. q \in 1 .. s + 1 /\ q # s + 1
        BY <1>5, <4>2
      <4>4. Sections'[q] = Loads[i].id
        BY <1>5, <4>2, <4>3
      <4> QED BY <4>1, <4>3, <4>4 DEF q
    <3> QED BY <3>1, <3>2
  <2> QED BY <1>5, <1>7, <2>1 DEF ClaimsIndex
<1>15. ~orphans => LastClaims'
  <2> SUFFICES ASSUME ~orphans PROVE LastClaims'
    OBVIOUS
  <2>1. ASSUME NEW i \in 1 .. n, Loads'[i].nsect # 0, NoneAfter(i)'
        PROVE  Loads'[i].firstsect + Loads'[i].nsect = Len(Sections')
    <3>1. i = n
      <4>1. SUFFICES ASSUME i # n PROVE FALSE
        OBVIOUS
      <4>2. n > i
        BY <1>3, <4>1
      <4>3. Loads'[n].nsect = 0
        BY <1>3, <1>7, <2>1, <4>2 DEF NoneAfter
      <4>4. Loads'[n] = m
        BY <1>3, <1>7
      <4> QED BY <1>4, <1>6, <4>3, <4>4
    <3>2. Loads'[i] = m
      BY <1>7, <3>1
    <3> QED BY <1>5, <1>10, <3>2
  <2> QED BY <1>7, <2>1 DEF LastClaims
<1> QED BY <1>1, <1>2, <1>7, <1>12, <1>13, <1>14, <1>15 DEF ClaimsAreOwn

LEMMA ClaimsAfterAdds ==
    ASSUME CommandsAreLoads, ClaimsAreOwn, Adds
    PROVE  ClaimsAreOwn'
<1>0. Magic \in Magics
  BY DEF ClaimsAreOwn
<1>1. NewLoads[Magic] \subseteq Commands /\ Commands \subseteq LoadRecords
  BY <1>0 DEF CommandsAreLoads, Commands, Magics
<1>2. ASSUME NEW l \in NewLoads[Magic], ~Segment(l), AddLoad(l) PROVE ClaimsAreOwn'
  <2>1. l \in LoadRecords /\ l.nsect = 0
    BY <1>1, <1>2 DEF CommandsAreLoads
  <2> QED BY <1>2, <2>1, ClaimsAfterAdd
<1>3. ASSUME NEW l \in NewLoads[Magic], AddSegment(l) PROVE ClaimsAreOwn'
  <2> DEFINE m == [l EXCEPT !.nsect = 0, !.firstsect = 0, !.sections = 0]
  <2>1. m \in LoadRecords /\ m.nsect = 0
    BY <1>0, <1>3, ZeroedIs
  <2>2. AddLoad(m)
    BY <1>3 DEF AddSegment
  <2> HIDE DEF m
  <2> QED BY <2>1, <2>2, ClaimsAfterAdd
<1>4. ASSUME NEW i \in DOMAIN Loads, NEW n \in Names, Rename(i, n) PROVE ClaimsAreOwn'
  <2> DEFINE k == [Loads[i] EXCEPT !.body = n]
             m == [k EXCEPT !.len = LoadSize(k)]
  <2>1. i \in 1 .. Len(Loads) /\ Loads[i] \in LoadRecords /\ n \in Nat
    BY LoadsAre DEF ClaimsAreOwn, CommandsAreLoads
  <2>2. /\ Loads[i].kind = "dylib" /\ Loads' = [Loads EXCEPT ![i] = m]
        /\ Sections' = Sections /\ Magic' = Magic /\ orphans' = orphans
    BY <1>4 DEF Rename
  <2>3. /\ m \in LoadRecords /\ m.kind = "dylib" /\ m.id = Loads[i].id
        /\ m.nsect = Loads[i].nsect /\ m.firstsect = Loads[i].firstsect
    BY <1>0, <2>1, <2>2, RenamedIs
  <2> HIDE DEF m, k
  <2>4. ClaimsAs(m, i)
    BY <2>2, <2>3 DEF ClaimsAs
  <2> QED BY <2>1, <2>2, <2>3, <2>4, ClaimsAfterReplacing
<1>5. CASE DerivedCopy
  <2>1. Loads' = <<>> /\ Sections' = <<>> /\ Magic' = Magic /\ orphans' = FALSE
    BY <1>5 DEF DerivedCopy
  <2>2. Loads' \in Seq(LoadRecords) /\ Len(Loads') = 0 /\ Sections' \in Seq(Ids) /\ DOMAIN Loads' = {}
    <3> HIDE DEF LoadRecords, Ids
    <3> QED BY <2>1
  <2>3. SectionsAreList'
    BY <2>2 DEF SectionsAreList
  <2>4. OthersClaimNone'
    BY <2>2 DEF OthersClaimNone
  <2>5. LastClaims'
    BY <2>2 DEF LastClaims
  <2>6. ClaimsIndex'
    BY <2>2 DEF ClaimsIndex
  <2> QED BY <1>0, <2>1, <2>2, <2>3, <2>4, <2>5, <2>6 DEF ClaimsAreOwn
<1> QED BY <1>2, <1>3, <1>4, <1>5 DEF Adds

LEMMA ClaimsAfterEdits ==
    ASSUME CommandsAreLoads, ClaimsAreOwn, [Next]_vars
    PROVE  ClaimsAreOwn'
<1>1. CASE AddSection
  BY <1>1, ClaimsAfterAddSection
<1>2. CASE Adds
  BY <1>2, ClaimsAfterAdds
<1>3. ASSUME NEW i \in DOMAIN Loads, RemoveLoad(i) PROVE ClaimsAreOwn'
  <2>1. i \in 1 .. Len(Loads)
    BY LoadsAre DEF ClaimsAreOwn
  <2> QED BY <1>3, <2>1, ClaimsAfterRemove
<1>4. CASE UNCHANGED vars
  BY <1>4 DEF vars, ClaimsAreOwn, SectionsAreList, OthersClaimNone, LastClaims, NoneAfter, ClaimsIndex
<1> QED BY <1>1, <1>2, <1>3, <1>4 DEF Next, Removes

(* AddSegment, AddSection, AddLoad, RemoveLoad and a rename of a dylib     *)
(* (toc.go) in any order: the indexes a segment claims in the table of     *)
(* sections are those of its own sections, until the segment with the last *)
(* sections of the table is removed.                                       *)
THEOREM SectionsStayTheirOwn ==
    ASSUME CommandsAreLoads
    PROVE  Spec => []SegmentsIndexTheirSections
<1>1. Init => ClaimsAreOwn
  BY ClaimsAtFirst
<1>2. ClaimsAreOwn /\ [Next]_vars => ClaimsAreOwn'
  BY ClaimsAfterEdits
<1>3. ClaimsAreOwn => SegmentsIndexTheirSections
  BY DEF ClaimsAreOwn, ClaimsIndex, SegmentsIndexTheirSections
<1> QED BY <1>1, <1>2, <1>3, PTL DEF Spec

LEMMA InStepAfterEdits ==
    ASSUME CommandsAreLoads, CommandsAreLinked, ClaimsAreOwn, InStep, [Next]_vars
    PROVE  InStep'
<1>1. CASE AddSection
  <2>1. Len(Sections) \in Nat
    <3> HIDE DEF Ids
    <3> QED BY DEF ClaimsAreOwn, SectionsAreList
  <2> QED BY <1>1, <2>1, InStepAfterAddSection
<1>2. CASE Adds
  BY <1>2, InStepAfterAdds
<1>3. ASSUME NEW i \in DOMAIN Loads, RemoveLoad(i) PROVE InStep'
  <2>1. i \in 1 .. Len(Loads)
    BY LoadsAre DEF InStep
  <2> QED BY <1>3, <2>1, InStepAfterRemove
<1>4. CASE UNCHANGED vars
  <2>1. /\ Magic' = Magic /\ Loads' = Loads /\ NCommands' = NCommands
        /\ SizeCommands' = SizeCommands /\ measured' = measured
    BY <1>4 DEF vars
  <2>2. CommandEnds(Loads)' = CommandEnds(Loads) /\ HdrSize' = HdrSize
    BY <2>1, EndsLater
  <2>3. SizeIsCounted'
    BY <2>1, <2>2 DEF InStep, SizeIsCounted
  <2> QED BY <2>1, <2>3 DEF InStep
<1> QED BY <1>1, <1>2, <1>3, <1>4 DEF Next, Removes

(* The header counts the commands, and a file of either width written from *)
(* the table of contents has each command where stepping from cmdsize to   *)
(* cmdsize (NewFile) looks for it, after any sequence of adds and removals *)
(* of commands laid out as linkers do it; the header counts their bytes    *)
(* while LoadSize computed the cmdsize of each that came or went.          *)
THEOREM CommandsStayInStep ==
    ASSUME CommandsAreLoads, CommandsAreLinked
    PROVE  Spec => []CommandsFollowCmdsize
<1>1. Init => ClaimsAreOwn /\ InStep
  BY ClaimsAtFirst, InStepAtFirst
<1>2. ClaimsAreOwn /\ InStep /\ [Next]_vars => ClaimsAreOwn' /\ InStep'
  BY ClaimsAfterEdits, InStepAfterEdits
<1>3. InStep => CommandsFollowCmdsize
  <2> SUFFICES ASSUME InStep PROVE CommandsFollowCmdsize
    OBVIOUS
  <2>1. /\ Loads \in Seq(LoadRecords) /\ Magic \in Magics
        /\ \A i \in 1 .. Len(Loads) : AsLinked(Loads[i], Magic)
        /\ NCommands = Len(Loads) /\ SizeIsCounted
    BY DEF InStep
  <2>2. DOMAIN Loads = 1 .. Len(Loads)
    BY <2>1, LoadsAre
  <2>3. WrittenAsCounted => writeLoadCommands = CommandEnds(Loads)
    BY <2>1, <2>2, WritesFollow DEF WrittenAsCounted
  <2> QED BY <2>1, <2>3 DEF CommandsFollowCmdsize, SizeIsCounted
<1> QED BY <1>1, <1>2, <1>3, PTL DEF Spec

-----------------------------------------------------------------------------
(* LoadCommands: the kinds of commands, by what their case does.           *)
StructKinds ==
    {"SYMSEG", "ROUTINES", "PREBIND_CKSUM", "ROUTINES_64", "UUID", "ENCRYPTION_INFO",
     "DYLD_INFO", "DYLD_INFO_ONLY", "VERSION_MIN_MACOSX", "VERSION_MIN_IPHONEOS",
     "FUNCTION_STARTS", "MAIN", "SOURCE_VERSION", "DYLIB_CODE_SIGN_DRS", "ENCRYPTION_INFO_64",
     "LINKER_OPTIMIZATION_HINT", "VERSION_MIN_TVOS", "VERSION_MIN_WATCHOS", "DYLD_EXPORTS_TRIE",
     "DYLD_CHAINED_FIXUPS", "ATOM_INFO", "FUNCTION_VARIANTS", "FUNCTION_VARIANT_FIXUPS",
     "LAZY_LOAD_DYLIB_INFO", "SEP_CACHE_SLIDE", "SEP_UNKNOWN_2", "SEP_UNKNOWN_3"}
NamedKinds ==
    {"LOADFVMLIB", "IDFVMLIB", "FVMFILE", "LOAD_DYLINKER", "ID_DYLINKER", "SUB_FRAMEWORK",
     "SUB_UMBRELLA", "SUB_CLIENT", "SUB_LIBRARY", "RPATH", "DYLD_ENVIRONMENT", "FILESET_ENTRY",
     "TARGET_TRIPLE"}
DataKinds == {"SEGMENT_SPLIT_INFO", "DATA_IN_CODE", "NOTE"}
ListKinds ==
    {"PREPAGE", "PREBOUND_DYLIB", "THREAD", "UNIXTHREAD", "TWOLEVEL_HINTS", "BUILD_VERSION",
     "IDENT", "LINKER_OPTION", "CODE_SIGNATURE"}
SegmentKinds == {"SEGMENT", "SEGMENT_64"}
SymbolKinds == {"SYMTAB", "DYSYMTAB"}
KnownKinds ==
    StructKinds \cup NamedKinds \cup DataKinds \cup ListKinds \cup Dylibs \cup SegmentKinds
      \cup SymbolKinds

(* Each of these kinds is a struct of one size. *)
LEMMA StructAre ==
    ASSUME NEW k \in StructKinds
    PROVE  \E head \in Nat : \A f, c : c.cmd = k => ReadCommand(f, c) = Struct(f, c, head)
<1>1. CASE k = "SYMSEG"
  <2>1. \A f, c : c.cmd = k => ReadCommand(f, c) = Struct(f, c, SymsegCmd)
    BY <1>1 DEF ReadCommand, LC_SYMSEG
  <2>2. SymsegCmd \in Nat
    BY DEF SymsegCmd
  <2> QED BY <2>1, <2>2
<1>2. CASE k = "ROUTINES"
  <2>1. \A f, c : c.cmd = k => ReadCommand(f, c) = Struct(f, c, RoutinesCmd)
    BY <1>2 DEF ReadCommand, LC_ROUTINES
  <2>2. RoutinesCmd \in Nat
    BY DEF RoutinesCmd
  <2> QED BY <2>1, <2>2
<1>3. CASE k = "PREBIND_CKSUM"
  <2>1. \A f, c : c.cmd = k => ReadCommand(f, c) = Struct(f, c, PrebindCksumCmd)
    BY <1>3 DEF ReadCommand, LC_PREBIND_CKSUM
  <2>2. PrebindCksumCmd \in Nat
    BY DEF PrebindCksumCmd
  <2> QED BY <2>1, <2>2
<1>4. CASE k = "ROUTINES_64"
  <2>1. \A f, c : c.cmd = k => ReadCommand(f, c) = Struct(f, c, Routines64Cmd)
    BY <1>4 DEF ReadCommand, LC_ROUTINES_64
  <2>2. Routines64Cmd \in Nat
    BY DEF Routines64Cmd
  <2> QED BY <2>1, <2>2
<1>5. CASE k = "UUID"
  <2>1. \A f, c : c.cmd = k => ReadCommand(f, c) = Struct(f, c, UUIDCmd)
    BY <1>5 DEF ReadCommand, LC_UUID
  <2>2. UUIDCmd \in Nat
    BY DEF UUIDCmd
  <2> QED BY <2>1, <2>2
<1>6. CASE k = "ENCRYPTION_INFO"
  <2>1. \A f, c : c.cmd = k => ReadCommand(f, c) = Struct(f, c, EncryptionInfoCmd)
    BY <1>6 DEF ReadCommand, LC_ENCRYPTION_INFO
  <2>2. EncryptionInfoCmd \in Nat
    BY DEF EncryptionInfoCmd
  <2> QED BY <2>1, <2>2
<1>7. CASE k = "DYLD_INFO"
  <2>1. \A f, c : c.cmd = k => ReadCommand(f, c) = Struct(f, c, DyldInfoCmd)
    BY <1>7 DEF ReadCommand, LC_DYLD_INFO
  <2>2. DyldInfoCmd \in Nat
    BY DEF DyldInfoCmd
  <2> QED BY <2>1, <2>2
<1>8. CASE k = "DYLD_INFO_ONLY"
  <2>1. \A f, c : c.cmd = k => ReadCommand(f, c) = Struct(f, c, DyldInfoCmd)
    BY <1>8 DEF ReadCommand, LC_DYLD_INFO_ONLY
  <2>2. DyldInfoCmd \in Nat
    BY DEF DyldInfoCmd
  <2> QED BY <2>1, <2>2
<1>9. CASE k = "VERSION_MIN_MACOSX"
  <2>1. \A f, c : c.cmd = k => ReadCommand(f, c) = Struct(f, c, VersionMinCmd)
    BY <1>9 DEF ReadCommand, LC_VERSION_MIN_MACOSX
  <2>2. VersionMinCmd \in Nat
    BY DEF VersionMinCmd
  <2> QED BY <2>1, <2>2
<1>10. CASE k = "VERSION_MIN_IPHONEOS"
  <2>1. \A f, c : c.cmd = k => ReadCommand(f, c) = Struct(f, c, VersionMinCmd)
    BY <1>10 DEF ReadCommand, LC_VERSION_MIN_IPHONEOS
  <2>2. VersionMinCmd \in Nat
    BY DEF VersionMinCmd
  <2> QED BY <2>1, <2>2
<1>11. CASE k = "FUNCTION_STARTS"
  <2>1. \A f, c : c.cmd = k => ReadCommand(f, c) = Struct(f, c, LinkEditDataCmd)
    BY <1>11 DEF ReadCommand, LC_FUNCTION_STARTS
  <2>2. LinkEditDataCmd \in Nat
    BY DEF LinkEditDataCmd
  <2> QED BY <2>1, <2>2
<1>12. CASE k = "MAIN"
  <2>1. \A f, c : c.cmd = k => ReadCommand(f, c) = Struct(f, c, EntryPointCmd)
    BY <1>12 DEF ReadCommand, LC_MAIN
  <2>2. EntryPointCmd \in Nat
    BY DEF EntryPointCmd
  <2> QED BY <2>1, <2>2
<1>13. CASE k = "SOURCE_VERSION"
  <2>1. \A f, c : c.cmd = k => ReadCommand(f, c) = Struct(f, c, SourceVersionCmd)
    BY <1>13 DEF ReadCommand, LC_SOURCE_VERSION
  <2>2. SourceVersionCmd \in Nat
    BY DEF SourceVersionCmd
  <2> QED BY <2>1, <2>2
<1>14. CASE k = "DYLIB_CODE_SIGN_DRS"
  <2>1. \A f, c : c.cmd = k => ReadCommand(f, c) = Struct(f, c, LinkEditDataCmd)
    BY <1>14 DEF ReadCommand, LC_DYLIB_CODE_SIGN_DRS
  <2>2. LinkEditDataCmd \in Nat
    BY DEF LinkEditDataCmd
  <2> QED BY <2>1, <2>2
<1>15. CASE k = "ENCRYPTION_INFO_64"
  <2>1. \A f, c : c.cmd = k => ReadCommand(f, c) = Struct(f, c, EncryptionInfo64Cmd)
    BY <1>15 DEF ReadCommand, LC_ENCRYPTION_INFO_64
  <2>2. EncryptionInfo64Cmd \in Nat
    BY DEF EncryptionInfo64Cmd
  <2> QED BY <2>1, <2>2
<1>16. CASE k = "LINKER_OPTIMIZATION_HINT"
  <2>1. \A f, c : c.cmd = k => ReadCommand(f, c) = Struct(f, c, LinkEditDataCmd)
    BY <1>16 DEF ReadCommand, LC_LINKER_OPTIMIZATION_HINT
  <2>2. LinkEditDataCmd \in Nat
    BY DEF LinkEditDataCmd
  <2> QED BY <2>1, <2>2
<1>17. CASE k = "VERSION_MIN_TVOS"
  <2>1. \A f, c : c.cmd = k => ReadCommand(f, c) = Struct(f, c, VersionMinCmd)
    BY <1>17 DEF ReadCommand, LC_VERSION_MIN_TVOS
  <2>2. VersionMinCmd \in Nat
    BY DEF VersionMinCmd
  <2> QED BY <2>1, <2>2
<1>18. CASE k = "VERSION_MIN_WATCHOS"
  <2>1. \A f, c : c.cmd = k => ReadCommand(f, c) = Struct(f, c, VersionMinCmd)
    BY <1>18 DEF ReadCommand, LC_VERSION_MIN_WATCHOS
  <2>2. VersionMinCmd \in Nat
    BY DEF VersionMinCmd
  <2> QED BY <2>1, <2>2
<1>19. CASE k = "DYLD_EXPORTS_TRIE"
  <2>1. \A f, c : c.cmd = k => ReadCommand(f, c) = Struct(f, c, LinkEditDataCmd)
    BY <1>19 DEF ReadCommand, LC_DYLD_EXPORTS_TRIE
  <2>2. LinkEditDataCmd \in Nat
    BY DEF LinkEditDataCmd
  <2> QED BY <2>1, <2>2
<1>20. CASE k = "DYLD_CHAINED_FIXUPS"
  <2>1. \A f, c : c.cmd = k => ReadCommand(f, c) = Struct(f, c, LinkEditDataCmd)
    BY <1>20 DEF ReadCommand, LC_DYLD_CHAINED_FIXUPS
  <2>2. LinkEditDataCmd \in Nat
    BY DEF LinkEditDataCmd
  <2> QED BY <2>1, <2>2
<1>21. CASE k = "ATOM_INFO"
  <2>1. \A f, c : c.cmd = k => ReadCommand(f, c) = Struct(f, c, LinkEditDataCmd)
    BY <1>21 DEF ReadCommand, LC_ATOM_INFO
  <2>2. LinkEditDataCmd \in Nat
    BY DEF LinkEditDataCmd
  <2> QED BY <2>1, <2>2
<1>22. CASE k = "FUNCTION_VARIANTS"
  <2>1. \A f, c : c.cmd = k => ReadCommand(f, c) = Struct(f, c, LinkEditDataCmd)
    BY <1>22 DEF ReadCommand, LC_FUNCTION_VARIANTS
  <2>2. LinkEditDataCmd \in Nat
    BY DEF LinkEditDataCmd
  <2> QED BY <2>1, <2>2
<1>23. CASE k = "FUNCTION_VARIANT_FIXUPS"
  <2>1. \A f, c : c.cmd = k => ReadCommand(f, c) = Struct(f, c, LinkEditDataCmd)
    BY <1>23 DEF ReadCommand, LC_FUNCTION_VARIANT_FIXUPS
  <2>2. LinkEditDataCmd \in Nat
    BY DEF LinkEditDataCmd
  <2> QED BY <2>1, <2>2
<1>24. CASE k = "LAZY_LOAD_DYLIB_INFO"
  <2>1. \A f, c : c.cmd = k => ReadCommand(f, c) = Struct(f, c, LinkEditDataCmd)
    BY <1>24 DEF ReadCommand, LC_LAZY_LOAD_DYLIB_INFO
  <2>2. LinkEditDataCmd \in Nat
    BY DEF LinkEditDataCmd
  <2> QED BY <2>1, <2>2
<1>25. CASE k = "SEP_CACHE_SLIDE"
  <2>1. \A f, c : c.cmd = k => ReadCommand(f, c) = Struct(f, c, LinkEditDataCmd)
    BY <1>25 DEF ReadCommand, LC_SEP_CACHE_SLIDE
  <2>2. LinkEditDataCmd \in Nat
    BY DEF LinkEditDataCmd
  <2> QED BY <2>1, <2>2
<1>26. CASE k = "SEP_UNKNOWN_2"
  <2>1. \A f, c : c.cmd = k => ReadCommand(f, c) = Struct(f, c, LinkEditDataCmd)
    BY <1>26 DEF ReadCommand, LC_SEP_UNKNOWN_2
  <2>2. LinkEditDataCmd \in Nat
    BY DEF LinkEditDataCmd
  <2> QED BY <2>1, <2>2
<1>27. CASE k = "SEP_UNKNOWN_3"
  <2>1. \A f, c : c.cmd = k => ReadCommand(f, c) = Struct(f, c, LinkEditDataCmd)
    BY <1>27 DEF ReadCommand, LC_SEP_UNKNOWN_3
  <2>2. LinkEditDataCmd \in Nat
    BY DEF LinkEditDataCmd
  <2> QED BY <2>1, <2>2
<1> QED BY <1>1, <1>2, <1>3, <1>4, <1>5, <1>6, <1>7, <1>8, <1>9, <1>10, <1>11, <1>12, <1>13, <1>14, <1>15, <1>16, <1>17, <1>18, <1>19, <1>20, <1>21, <1>22, <1>23, <1>24, <1>25, <1>26, <1>27 DEF StructKinds

(* Each of these is a struct of one size and a name, which linkers put right behind it. *)
LEMMA NamedStart ==
    ASSUME NEW k \in NamedKinds
    PROVE  \E head \in Nat : /\ k \in DOMAIN StringStart /\ head = StringStart[k]
                             /\ \A f, c : c.cmd = k => ReadCommand(f, c) = Named(f, c, head)
<1>1. CASE k = "LOADFVMLIB"
  <2>1. \A f, c : c.cmd = k => ReadCommand(f, c) = Named(f, c, LoadFvmLibCmd)
    BY <1>1 DEF ReadCommand, LC_LOADFVMLIB
  <2>2. LoadFvmLibCmd \in Nat
    BY DEF LoadFvmLibCmd
  <2>3. k \in DOMAIN StringStart /\ LoadFvmLibCmd = StringStart[k]
    BY <1>1 DEF StringStart
  <2> QED BY <2>1, <2>2, <2>3
<1>2. CASE k = "IDFVMLIB"
  <2>1. \A f, c : c.cmd = k => ReadCommand(f, c) = Named(f, c, LoadFvmLibCmd)
    BY <1>2 DEF ReadCommand, LC_IDFVMLIB
  <2>2. LoadFvmLibCmd \in Nat
    BY DEF LoadFvmLibCmd
  <2>3. k \in DOMAIN StringStart /\ LoadFvmLibCmd = StringStart[k]
    BY <1>2 DEF StringStart
  <2> QED BY <2>1, <2>2, <2>3
<1>3. CASE k = "FVMFILE"
  <2>1. \A f, c : c.cmd = k => ReadCommand(f, c) = Named(f, c, FvmFileCmd)
    BY <1>3 DEF ReadCommand, LC_FVMFILE
  <2>2. FvmFileCmd \in Nat
    BY DEF FvmFileCmd
  <2>3. k \in DOMAIN StringStart /\ FvmFileCmd = StringStart[k]
    BY <1>3 DEF StringStart
  <2> QED BY <2>1, <2>2, <2>3
<1>4. CASE k = "LOAD_DYLINKER"
  <2>1. \A f, c : c.cmd = k => ReadCommand(f, c) = Named(f, c, DylinkerCmd)
    BY <1>4 DEF ReadCommand, LC_LOAD_DYLINKER
  <2>2. DylinkerCmd \in Nat
    BY DEF DylinkerCmd
  <2>3. k \in DOMAIN StringStart /\ DylinkerCmd = StringStart[k]
    BY <1>4 DEF StringStart
  <2> QED BY <2>1, <2>2, <2>3
<1>5. CASE k = "ID_DYLINKER"
  <2>1. \A f, c : c.cmd = k => ReadCommand(f, c) = Named(f, c, DylinkerCmd)
    BY <1>5 DEF ReadCommand, LC_ID_DYLINKER
  <2>2. DylinkerCmd \in Nat
    BY DEF DylinkerCmd
  <2>3. k \in DOMAIN StringStart /\ DylinkerCmd = StringStart[k]
    BY <1>5 DEF StringStart
  <2> QED BY <2>1, <2>2, <2>3
<1>6. CASE k = "SUB_FRAMEWORK"
  <2>1. \A f, c : c.cmd = k => ReadCommand(f, c) = Named(f, c, SubFrameworkCmd)
    BY <1>6 DEF ReadCommand, LC_SUB_FRAMEWORK
  <2>2. SubFrameworkCmd \in Nat
    BY DEF SubFrameworkCmd
  <2>3. k \in DOMAIN StringStart /\ SubFrameworkCmd = StringStart[k]
    BY <1>6 DEF StringStart
  <2> QED BY <2>1, <2>2, <2>3
<1>7. CASE k = "SUB_UMBRELLA"
  <2>1. \A f, c : c.cmd = k => ReadCommand(f, c) = Named(f, c, SubUmbrellaCmd)
    BY <1>7 DEF ReadCommand, LC_SUB_UMBRELLA
  <2>2. SubUmbrellaCmd \in Nat
    BY DEF SubUmbrellaCmd
  <2>3. k \in DOMAIN StringStart /\ SubUmbrellaCmd = StringStart[k]
    BY <1>7 DEF StringStart
  <2> QED BY <2>1, <2>2, <2>3
<1>8. CASE k = "SUB_CLIENT"
  <2>1. \A f, c : c.cmd = k => ReadCommand(f, c) = Named(f, c, SubClientCmd)
    BY <1>8 DEF ReadCommand, LC_SUB_CLIENT
  <2>2. SubClientCmd \in Nat
    BY DEF SubClientCmd
  <2>3. k \in DOMAIN StringStart /\ SubClientCmd = StringStart[k]
    BY <1>8 DEF StringStart
  <2> QED BY <2>1, <2>2, <2>3
<1>9. CASE k = "SUB_LIBRARY"
  <2>1. \A f, c : c.cmd = k => ReadCommand(f, c) = Named(f, c, SubLibraryCmd)
    BY <1>9 DEF ReadCommand, LC_SUB_LIBRARY
  <2>2. SubLibraryCmd \in Nat
    BY DEF SubLibraryCmd
  <2>3. k \in DOMAIN StringStart /\ SubLibraryCmd = StringStart[k]
    BY <1>9 DEF StringStart
  <2> QED BY <2>1, <2>2, <2>3
<1>10. CASE k = "RPATH"
  <2>1. \A f, c : c.cmd = k => ReadCommand(f, c) = Named(f, c, RpathCmd)
    BY <1>10 DEF ReadCommand, LC_RPATH
  <2>2. RpathCmd \in Nat
    BY DEF RpathCmd
  <2>3. k \in DOMAIN StringStart /\ RpathCmd = StringStart[k]
    BY <1>10 DEF StringStart
  <2> QED BY <2>1, <2>2, <2>3
<1>11. CASE k = "DYLD_ENVIRONMENT"
  <2>1. \A f, c : c.cmd = k => ReadCommand(f, c) = Named(f, c, DylinkerCmd)
    BY <1>11 DEF ReadCommand, LC_DYLD_ENVIRONMENT
  <2>2. DylinkerCmd \in Nat
    BY DEF DylinkerCmd
  <2>3. k \in DOMAIN StringStart /\ DylinkerCmd = StringStart[k]
    BY <1>11 DEF StringStart
  <2> QED BY <2>1, <2>2, <2>3
<1>12. CASE k = "FILESET_ENTRY"
  <2>1. \A f, c : c.cmd = k => ReadCommand(f, c) = Named(f, c, FilesetEntryCmd)
    BY <1>12 DEF ReadCommand, LC_FILESET_ENTRY
  <2>2. FilesetEntryCmd \in Nat
    BY DEF FilesetEntryCmd
  <2>3. k \in DOMAIN StringStart /\ FilesetEntryCmd = StringStart[k]
    BY <1>12 DEF StringStart
  <2> QED BY <2>1, <2>2, <2>3
<1>13. CASE k = "TARGET_TRIPLE"
  <2>1. \A f, c : c.cmd = k => ReadCommand(f, c) = Named(f, c, TargetTripleCmd)
    BY <1>13 DEF ReadCommand, LC_TARGET_TRIPLE
  <2>2. TargetTripleCmd \in Nat
    BY DEF TargetTripleCmd
  <2>3. k \in DOMAIN StringStart /\ TargetTripleCmd = StringStart[k]
    BY <1>13 DEF StringStart
  <2> QED BY <2>1, <2>2, <2>3
<1> QED BY <1>1, <1>2, <1>3, <1>4, <1>5, <1>6, <1>7, <1>8, <1>9, <1>10, <1>11, <1>12, <1>13 DEF NamedKinds

(* Each of these is a struct of one size and a name. *)
LEMMA NamedAre ==
    ASSUME NEW k \in NamedKinds
    PROVE  \E head \in Nat : \A f, c : c.cmd = k => ReadCommand(f, c) = Named(f, c, head)
  BY NamedStart

(* A File is a record with a list of loads.                                *)
IsFile(f) ==
    /\ DOMAIN f = {"magic", "type", "Loads", "Sections", "Symtab", "Dysymtab", "err"}
    /\ f = [x \in DOMAIN f |-> f[x]]
    /\ IsAList(f.Loads)

(* A list is a sequence of its elements. *)
LEMMA ListIsSeq == ASSUME NEW s, IsAList(s) PROVE \E S : s \in Seq(S)
<1> DEFINE S == {s[i] : i \in 1 .. Len(s)}
           t == [i \in 1 .. Len(s) |-> s[i]]
<1>1. t \in [1 .. Len(s) -> S] /\ Len(s) \in Nat
  BY DEF IsAList
<1>2. t \in Seq(S)
  <2> HIDE DEF t, S
  <2> QED BY <1>1
<1>3. s = t
  BY DEF IsAList
<1> HIDE DEF t, S
<1> QED BY <1>2, <1>3

(* A sequence is a list. *)
LEMMA SeqIsList == ASSUME NEW S, NEW s \in Seq(S) PROVE IsAList(s)
  BY DEF IsAList

(* A list and one more. *)
LEMMA AppendIs ==
    ASSUME NEW s, IsAList(s), NEW x
    PROVE  /\ IsAList(Append(s, x)) /\ Len(Append(s, x)) = Len(s) + 1
           /\ Append(s, x)[Len(s) + 1] = x
           /\ \A i \in 1 .. Len(s) : Append(s, x)[i] = s[i]
<1>1. PICK S : s \in Seq(S)
  BY ListIsSeq
<1> DEFINE T == S \cup {x}
<1>2. s \in Seq(T) /\ x \in T
  BY <1>1
<1>3. Append(s, x) \in Seq(T)
  BY <1>2
<1>4. IsAList(Append(s, x))
  BY <1>3, SeqIsList
<1> QED BY <1>2, <1>4

(* What adding a load leaves alone. *)
LEMMA AppendedIs ==
    ASSUME NEW f, IsFile(f), NEW l
    PROVE  LET g == Appended(f, l) IN
           /\ IsFile(g) /\ g.Loads = Append(f.Loads, l) /\ g.Sections = f.Sections
           /\ g.magic = f.magic /\ g.type = f.type /\ g.err = f.err
           /\ g.Symtab = f.Symtab /\ g.Dysymtab = f.Dysymtab
<1> DEFINE g == Appended(f, l)
           m == Append(f.Loads, l)
<1>1. IsAList(m)
  BY AppendIs DEF IsFile
<1> HIDE DEF m
<1>2. g = [f EXCEPT !.Loads = m]
  BY DEF Appended, m
<1> HIDE DEF g
<1>3. g.Loads = m
  BY <1>2 DEF IsFile
<1> QED BY <1>1, <1>2, <1>3 DEF IsFile, g, m

(* A refused File has an error. *)
LEMMA RefusedIs == ASSUME NEW f, IsFile(f) PROVE Refused(f).err = "format"
  BY DEF Refused, IsFile

-----------------------------------------------------------------------------
(* A command whose case depends on no other adds its load or is refused.   *)
AddsLoad(c, l) == l.cmd = c.cmd /\ \A f : ReadCommand(f, c) = Appended(f, l)
Refuses(c) == \A f : ReadCommand(f, c) = Refused(f)
Plain(c) == Refuses(c) \/ \E l : AddsLoad(c, l)

(* A case that only keeps or refuses looks at the command alone. *)
LEMMA KeptIsPlain ==
    ASSUME NEW c, NEW head, NEW ok \in BOOLEAN, NEW num, NEW tail,
           \A f : ReadCommand(f, c) = Kept(f, c, head, ok, Load(c, num, tail))
    PROVE  Plain(c)
<1> DEFINE l == [Load(c, num, tail) EXCEPT !.head = head]
<1>1. l.cmd = c.cmd
  BY DEF Load
<1> HIDE DEF l
<1>2. \A f : ReadCommand(f, c) = IF head <= c.siz /\ ok THEN Appended(f, l) ELSE Refused(f)
  BY DEF Kept, l
<1>3. CASE head <= c.siz /\ ok
  BY <1>1, <1>2, <1>3 DEF Plain, AddsLoad
<1>4. CASE ~(head <= c.siz /\ ok)
  BY <1>2, <1>4 DEF Plain, Refuses
<1> QED BY <1>3, <1>4

(* So does a struct, *)
LEMMA StructIsPlain ==
    ASSUME NEW c, NEW head, \A f : ReadCommand(f, c) = Struct(f, c, head) PROVE Plain(c)
<1>1. \A f : ReadCommand(f, c) = Kept(f, c, head, TRUE, Load(c, c.num, <<>>))
  BY DEF Struct
<1> QED BY <1>1, KeptIsPlain

(* a struct with a name, *)
LEMMA NamedIsPlain ==
    ASSUME NEW c, NEW head, \A f : ReadCommand(f, c) = Named(f, c, head) PROVE Plain(c)
<1> DEFINE tail == cstring(c, head, c.num.off)
           ok == c.num.off < c.siz
<1>1. \A f : ReadCommand(f, c) = Kept(f, c, head, ok, Load(c, c.num, tail))
  BY DEF Named
<1>2. ok \in BOOLEAN
  OBVIOUS
<1> HIDE DEF tail, ok
<1> QED BY <1>1, <1>2, KeptIsPlain

(* a struct that points at data, *)
LEMMA DataIsPlain ==
    ASSUME NEW c, c.cmd \in DataKinds PROVE Plain(c)
<1> DEFINE ok == HasBytes(c.num.off, c.num.size) /\ TRUE
<1>0. ok \in BOOLEAN
  BY DEF HasBytes
<1>1. \E head : \A f : ReadCommand(f, c) = Kept(f, c, head, ok, Load(c, c.num, <<>>))
  <2> HIDE DEF ok
  <2>1. CASE c.cmd = "SEGMENT_SPLIT_INFO"
    BY <2>1 DEF ReadCommand, LC_SEGMENT_SPLIT_INFO, PointsAtData, ok
  <2>2. CASE c.cmd = "DATA_IN_CODE"
    BY <2>2 DEF ReadCommand, LC_DATA_IN_CODE, PointsAtData, ok
  <2>3. CASE c.cmd = "NOTE"
    BY <2>3 DEF ReadCommand, LC_NOTE, PointsAtData, ok
  <2> QED BY <2>1, <2>2, <2>3 DEF DataKinds
<1> HIDE DEF ok
<1> QED BY <1>0, <1>1, KeptIsPlain

(* a dylib, *)
LEMMA DylibIsPlain ==
    ASSUME NEW c, c.cmd \in Dylibs PROVE Plain(c)
<1> DEFINE ok == c.num.off < c.siz
           name == DylibName(c)
<1>0. ok \in BOOLEAN
  OBVIOUS
<1>1. \E num : \A f : ReadCommand(f, c) = Kept(f, c, DylibCmd, ok, Load(c, num, name))
  <2> HIDE DEF ok, name
  <2>1. CASE c.cmd = "LOAD_DYLIB"
    BY <2>1 DEF ReadCommand, LC_LOAD_DYLIB, ok, name
  <2>2. CASE c.cmd = "LOAD_WEAK_DYLIB"
    BY <2>2 DEF ReadCommand, LC_LOAD_WEAK_DYLIB, LC_LOAD_DYLIB, ok, name
  <2>3. CASE c.cmd = "REEXPORT_DYLIB"
    BY <2>3 DEF ReadCommand, LC_REEXPORT_DYLIB, LC_LOAD_DYLIB, ok, name
  <2>4. CASE c.cmd = "LOAD_UPWARD_DYLIB"
    BY <2>4 DEF ReadCommand, LC_LOAD_UPWARD_DYLIB, LC_LOAD_DYLIB, ok, name
  <2>5. CASE c.cmd = "ID_DYLIB"
    BY <2>5 DEF ReadCommand, LC_ID_DYLIB, ok, name
  <2>6. CASE c.cmd = "LAZY_LOAD_DYLIB"
    BY <2>6 DEF ReadCommand, LC_LAZY_LOAD_DYLIB, LC_ID_DYLIB, ok, name
  <2> QED BY <2>1, <2>2, <2>3, <2>4, <2>5, <2>6 DEF Dylibs
<1> HIDE DEF ok, name
<1> QED BY <1>0, <1>1, KeptIsPlain

(* The cases with entries or strings of their own keep a load or refuse. *)
LEMMA ListIsKept ==
    ASSUME NEW c, c.cmd \in ListKinds
    PROVE  \E head, num, tail : \E ok \in BOOLEAN :
             \A f : ReadCommand(f, c) = Kept(f, c, head, ok, Load(c, num, tail))
<1>1. CASE c.cmd = "PREPAGE"
  BY <1>1, ZenonT(40) DEF ReadCommand, LC_PREPAGE
<1>2. CASE c.cmd = "PREBOUND_DYLIB"
  <2> DEFINE ok == c.num.off < c.siz /\ c.num.mods < c.siz
             num == [off |-> c.num.off, val |-> c.num.val]
             tail == <<cstring(c, PreboundDylibCmd, c.num.off),
                       cstring(c, PreboundDylibCmd, c.num.mods)>>
  <2>1. \A f : ReadCommand(f, c) = Kept(f, c, PreboundDylibCmd, ok, Load(c, num, tail))
    BY <1>2 DEF ReadCommand, LC_PREBOUND_DYLIB
  <2>2. ok \in BOOLEAN
    OBVIOUS
  <2> HIDE DEF ok, num, tail
  <2> QED BY <2>1, <2>2
<1>3. CASE c.cmd \in {"THREAD", "UNIXTHREAD"}
  <2> DEFINE tail == ThreadStates(c.tail)
             ok == (c.siz - ThreadCmd) % 4 = 0 /\ \A i \in DOMAIN tail : tail[i] # "short"
  <2>1. \A f : ReadCommand(f, c) = Kept(f, c, ThreadCmd, ok, Load(c, c.num, tail))
    BY <1>3 DEF ReadCommand, LC_THREAD, LC_UNIXTHREAD
  <2>2. ok \in BOOLEAN
    OBVIOUS
  <2> HIDE DEF ok, tail
  <2> QED BY <2>1, <2>2
<1>4. CASE c.cmd = "TWOLEVEL_HINTS"
  <2> DEFINE ok == c.num.count * 4 <= c.siz - TwolevelHintsCmd
             num == [count |-> 0, val |-> c.num.val]
             tail == SubSeq(c.tail, 1, c.num.count)
  <2>1. \A f : ReadCommand(f, c) = Kept(f, c, TwolevelHintsCmd, ok, Load(c, num, tail))
    BY <1>4 DEF ReadCommand, LC_TWOLEVEL_HINTS
  <2>2. ok \in BOOLEAN
    OBVIOUS
  <2> HIDE DEF ok, num, tail
  <2> QED BY <2>1, <2>2
<1>5. CASE c.cmd = "BUILD_VERSION"
  <2> DEFINE ok == c.num.count * 8 <= c.siz - BuildVersionCmd
             tail == SubSeq(c.tail, 1, c.num.count)
  <2>1. \A f : ReadCommand(f, c) = Kept(f, c, BuildVersionCmd, ok, Load(c, c.num, tail))
    BY <1>5 DEF ReadCommand, LC_BUILD_VERSION
  <2>2. ok \in BOOLEAN
    OBVIOUS
  <2> HIDE DEF ok, tail
  <2> QED BY <2>1, <2>2
<1>6. CASE c.cmd = "IDENT"
  <2> DEFINE tail == EndedStrings(c.tail)
  <2>1. \A f : ReadCommand(f, c) = Kept(f, c, IdentCmd, TRUE, Load(c, c.num, tail))
    BY <1>6 DEF ReadCommand, LC_IDENT
  <2> HIDE DEF tail
  <2> QED BY <2>1
<1>7. CASE c.cmd = "LINKER_OPTION"
  <2> DEFINE all == EndedStrings(c.tail)
             tail == IF c.num.count = 0 \/ all = <<>> THEN <<>> ELSE <<all[1]>>
             num == [count |-> 0]
  <2>1. \A f : ReadCommand(f, c) = Kept(f, c, LinkerOptionCmd, TRUE, Load(c, num, tail))
    BY <1>7 DEF ReadCommand, LC_LINKER_OPTION
  <2> HIDE DEF tail, num
  <2> QED BY <2>1
<1>8. CASE c.cmd = "CODE_SIGNATURE"
  <2> DEFINE ok == HasBytes(c.num.off, c.num.size) /\ c.num.valid
  <2>1. \A f : ReadCommand(f, c) = Kept(f, c, LinkEditDataCmd, ok, Load(c, c.num, <<>>))
    BY <1>8 DEF ReadCommand, LC_CODE_SIGNATURE, PointsAtData
  <2>2. ok \in BOOLEAN
    OBVIOUS
  <2> HIDE DEF ok
  <2> QED BY <2>1, <2>2
<1> QED BY <1>1, <1>2, <1>3, <1>4, <1>5, <1>6, <1>7, <1>8 DEF ListKinds

(* They look at the command alone, *)
LEMMA ListIsPlain ==
    ASSUME NEW c, c.cmd \in ListKinds PROVE Plain(c)
  BY ListIsKept, KeptIsPlain

(* as does the default case. *)
LEMMA UnknownIsPlain ==
    ASSUME NEW c, c.cmd \notin KnownKinds
    PROVE  \A f : ReadCommand(f, c) = Appended(f, Load(c, c.num, c.tail))
  BY DEF ReadCommand, LoadCmdBytes, KnownKinds, StructKinds, NamedKinds, DataKinds, ListKinds, Dylibs,
         SegmentKinds, SymbolKinds

(* Only segments and symbol tables look at the File. *)
LEMMA MostArePlain ==
    ASSUME NEW c, c.cmd \notin SegmentKinds \cup SymbolKinds PROVE Plain(c)
<1>1. CASE c.cmd \in StructKinds
  BY <1>1, StructAre, StructIsPlain
<1>2. CASE c.cmd \in NamedKinds
  BY <1>2, NamedAre, NamedIsPlain
<1>3. CASE c.cmd \notin KnownKinds
  <2> DEFINE l == Load(c, c.num, c.tail)
  <2>1. l.cmd = c.cmd
    BY DEF Load
  <2>2. \A f : ReadCommand(f, c) = Appended(f, l)
    BY <1>3, UnknownIsPlain
  <2> HIDE DEF l
  <2> QED BY <2>1, <2>2 DEF Plain, AddsLoad
<1> QED BY <1>1, <1>2, <1>3, DataIsPlain, DylibIsPlain, ListIsPlain DEF KnownKinds

(* Two Files that agree on what the case of a command looks at.            *)
AgreeFor(k, f, g) ==
    /\ f.magic = g.magic /\ f.type = g.type
    /\ k \in SegmentKinds => f.Sections = g.Sections
    /\ k \in SymbolKinds => f.Symtab = g.Symtab /\ f.Dysymtab = g.Dysymtab

(* What reading a command of kind k makes of f, with load l. *)
Reads(k, f, r, l) ==
    /\ IsFile(r) /\ r.err = f.err /\ r.Loads = Append(f.Loads, l)
    /\ r.magic = f.magic /\ r.type = f.type
    /\ k \notin SegmentKinds => r.Sections = f.Sections
    /\ k \notin SymbolKinds => r.Symtab = f.Symtab /\ r.Dysymtab = f.Dysymtab

ReadsAlike(c, f, g) ==
    \E l : /\ l.cmd = c.cmd
           /\ Reads(c.cmd, f, ReadCommand(f, c), l) /\ Reads(c.cmd, g, ReadCommand(g, c), l)
           /\ AgreeFor(c.cmd, ReadCommand(f, c), ReadCommand(g, c))

(* A command that looks at nothing else is read alike into any File. *)
LEMMA PlainAlike ==
    ASSUME NEW c, Plain(c), c.cmd \notin SegmentKinds \cup SymbolKinds,
           NEW f, NEW g, IsFile(f), IsFile(g), AgreeFor(c.cmd, f, g), ReadCommand(f, c).err = ""
    PROVE  ReadsAlike(c, f, g)
<1>1. ~Refuses(c)
  BY RefusedIs DEF Refuses
<1>2. PICK l : AddsLoad(c, l)
  BY <1>1 DEF Plain
<1>3. ReadCommand(f, c) = Appended(f, l) /\ ReadCommand(g, c) = Appended(g, l) /\ l.cmd = c.cmd
  BY <1>2 DEF AddsLoad
<1>4. ASSUME NEW h, IsFile(h) PROVE Reads(c.cmd, h, Appended(h, l), l)
  BY <1>4, AppendedIs DEF Reads
<1>5. AgreeFor(c.cmd, ReadCommand(f, c), ReadCommand(g, c))
  BY <1>3, <1>4 DEF AgreeFor, Reads
<1> QED BY <1>3, <1>4, <1>5 DEF ReadsAlike

(* What sections pushed to a File leave alone. *)
LEMMA PushedIs ==
    ASSUME NEW f, IsFile(f), NEW shs
    PROVE  LET g == pushSections(f, shs) IN
           /\ IsFile(g) /\ g.Loads = f.Loads /\ g.Sections = f.Sections \o shs
           /\ g.magic = f.magic /\ g.type = f.type /\ g.err = f.err
           /\ g.Symtab = f.Symtab /\ g.Dysymtab = f.Dysymtab
<1> DEFINE g == pushSections(f, shs)
           m == f.Sections \o shs
<1> HIDE DEF m
<1>1. g = [f EXCEPT !.Sections = m]
  BY DEF pushSections, m
<1> HIDE DEF g
<1>2. g.Sections = m
  BY <1>1 DEF IsFile
<1> QED BY <1>1, <1>2 DEF IsFile, g, m

(* A segment is read alike behind the same sections. *)
LEMMA SegmentAlike ==
    ASSUME NEW c, NEW f, NEW g, IsFile(f), IsFile(g), c.cmd \in SegmentKinds,
           AgreeFor(c.cmd, f, g), ReadCommand(f, c).err = "",
           NEW head, NEW size,
           \A h : ReadCommand(h, c) = ReadSegment(h, c, head, size)
    PROVE  ReadsAlike(c, f, g)
<1> DEFINE n == c.num.nsect
           num == Indexed(c.num, Len(f.Sections))
           tail == SubSeq(c.tail, 1, n)
           l == [Load(c, num, tail) EXCEPT !.head = head]
           ok == /\ head + n * size <= c.siz
                 /\ \A i \in 1 .. n : SectionOK(c.tail[i])
                 /\ c.num.offset <= MaxInt64 /\ c.num.filesz <= MaxInt64
           R(h) == IF ok THEN Appended(pushSections(h, tail), l) ELSE Refused(h)
<1>1. f.Sections = g.Sections
  BY DEF AgreeFor
<1>2. ReadSegment(f, c, head, size) = R(f)
  BY DEF ReadSegment
<1>3. ReadSegment(g, c, head, size) = R(g)
  BY <1>1 DEF ReadSegment
<1>4. l.cmd = c.cmd
  BY DEF Load
<1> HIDE DEF l, ok, tail
<1>5. ok
  BY <1>2, RefusedIs
<1>6. /\ ReadCommand(f, c) = Appended(pushSections(f, tail), l)
      /\ ReadCommand(g, c) = Appended(pushSections(g, tail), l)
  BY <1>2, <1>3, <1>5
<1> HIDE DEF R
<1>7. ASSUME NEW h, IsFile(h)
      PROVE  LET r == Appended(pushSections(h, tail), l) IN
             Reads(c.cmd, h, r, l) /\ r.Sections = h.Sections \o tail
  <2> DEFINE p == pushSections(h, tail)
  <2>1. /\ IsFile(p) /\ p.Loads = h.Loads /\ p.Sections = h.Sections \o tail
        /\ p.magic = h.magic /\ p.type = h.type /\ p.err = h.err
        /\ p.Symtab = h.Symtab /\ p.Dysymtab = h.Dysymtab
    BY <1>7, PushedIs
  <2> HIDE DEF p
  <2> DEFINE r == Appended(p, l)
  <2>2. /\ IsFile(r) /\ r.Loads = Append(p.Loads, l) /\ r.Sections = p.Sections
        /\ r.magic = p.magic /\ r.type = p.type /\ r.err = p.err
        /\ r.Symtab = p.Symtab /\ r.Dysymtab = p.Dysymtab
    BY <2>1, AppendedIs
  <2> HIDE DEF r
  <2>3. Reads(c.cmd, h, r, l) /\ r.Sections = h.Sections \o tail
    BY <2>1, <2>2 DEF Reads
  <2> QED BY <2>3 DEF r, p
<1>8. /\ Reads(c.cmd, f, ReadCommand(f, c), l) /\ Reads(c.cmd, g, ReadCommand(g, c), l)
      /\ ReadCommand(f, c).Sections = f.Sections \o tail
      /\ ReadCommand(g, c).Sections = g.Sections \o tail
  BY <1>6, <1>7
<1>9. AgreeFor(c.cmd, ReadCommand(f, c), ReadCommand(g, c))
  <2>1. c.cmd \notin SymbolKinds
    BY DEF SegmentKinds, SymbolKinds
  <2> QED BY <1>1, <1>8, <2>1 DEF AgreeFor, Reads
<1> QED BY <1>4, <1>8, <1>9 DEF ReadsAlike

(* A symbol table is read alike behind the same symbols. *)
LEMMA SymtabAlike ==
    ASSUME NEW c, NEW f, NEW g, IsFile(f), IsFile(g), c.cmd = "SYMTAB",
           AgreeFor(c.cmd, f, g), ReadCommand(f, c).err = ""
    PROVE  ReadsAlike(c, f, g)
<1> DEFINE l == [Load(c, c.num, <<>>) EXCEPT !.head = SymtabCmd]
           ok == /\ HasBytes(c.num.stroff, c.num.strsize)
                 /\ HasBytes(c.num.symoff, c.num.nsyms * SymbolSize(f))
           With(h) == [h EXCEPT !.Symtab = parseSymtab(c)]
           R(h) == IF SymtabCmd <= c.siz /\ ok THEN Appended(With(h), l) ELSE Refused(With(h))
<1>1. SymbolSize(g) = SymbolSize(f) /\ f.Dysymtab = g.Dysymtab
  BY DEF SymbolSize, AgreeFor, SymbolKinds
<1>2. ReadCommand(f, c) = R(f)
  BY DEF ReadCommand, LC_SYMTAB, Kept
<1>3. ReadCommand(g, c) = R(g)
  BY <1>1 DEF ReadCommand, LC_SYMTAB, Kept
<1>4. l.cmd = c.cmd
  BY DEF Load
<1> HIDE DEF l, ok
<1>5. ASSUME NEW h, IsFile(h)
      PROVE  /\ IsFile(With(h)) /\ With(h).Loads = h.Loads /\ With(h).Sections = h.Sections
             /\ With(h).magic = h.magic /\ With(h).type = h.type /\ With(h).err = h.err
             /\ With(h).Symtab = parseSymtab(c) /\ With(h).Dysymtab = h.Dysymtab
  BY <1>5 DEF IsFile
<1> HIDE DEF With
<1>6. SymtabCmd <= c.siz /\ ok
  BY <1>2, <1>5, RefusedIs
<1>7. ReadCommand(f, c) = Appended(With(f), l) /\ ReadCommand(g, c) = Appended(With(g), l)
  BY <1>2, <1>3, <1>6
<1> HIDE DEF R
<1>8. ASSUME NEW h, IsFile(h)
      PROVE  LET r == Appended(With(h), l) IN
             Reads(c.cmd, h, r, l) /\ r.Symtab = parseSymtab(c) /\ r.Dysymtab = h.Dysymtab
  <2> DEFINE r == Appended(With(h), l)
             p == With(h)
  <2>1. /\ IsFile(p) /\ p.Loads = h.Loads /\ p.Sections = h.Sections
        /\ p.magic = h.magic /\ p.type = h.type /\ p.err = h.err
        /\ p.Symtab = parseSymtab(c) /\ p.Dysymtab = h.Dysymtab
    BY <1>5, <1>8
  <2> HIDE DEF p
  <2>2. /\ IsFile(r) /\ r.Loads = Append(p.Loads, l) /\ r.Sections = p.Sections
        /\ r.magic = p.magic /\ r.type = p.type /\ r.err = p.err
        /\ r.Symtab = p.Symtab /\ r.Dysymtab = p.Dysymtab
    BY <2>1, AppendedIs DEF p
  <2> HIDE DEF r
  <2>3. Reads(c.cmd, h, r, l) /\ r.Symtab = parseSymtab(c) /\ r.Dysymtab = h.Dysymtab
    BY <2>1, <2>2 DEF Reads, SymbolKinds
  <2> QED BY <2>3 DEF r
<1>9. /\ Reads(c.cmd, f, ReadCommand(f, c), l) /\ Reads(c.cmd, g, ReadCommand(g, c), l)
      /\ ReadCommand(f, c).Symtab = parseSymtab(c) /\ ReadCommand(f, c).Dysymtab = f.Dysymtab
      /\ ReadCommand(g, c).Symtab = parseSymtab(c) /\ ReadCommand(g, c).Dysymtab = g.Dysymtab
  BY <1>7, <1>8
<1>10. AgreeFor(c.cmd, ReadCommand(f, c), ReadCommand(g, c))
  <2>1. c.cmd \notin SegmentKinds
    BY DEF SegmentKinds
  <2> QED BY <1>1, <1>9, <2>1 DEF AgreeFor, Reads
<1> QED BY <1>4, <1>9, <1>10 DEF ReadsAlike

(* A dynamic symbol table is read alike behind the same symbols. *)
LEMMA DysymtabAlike ==
    ASSUME NEW c, NEW f, NEW g, IsFile(f), IsFile(g), c.cmd = "DYSYMTAB",
           AgreeFor(c.cmd, f, g), ReadCommand(f, c).err = ""
    PROVE  ReadsAlike(c, f, g)
<1> DEFINE n == c.num
           l == [Load(c, n, <<>>) EXCEPT !.head = DysymtabCmd]
           syms == IF f.Symtab = None /\ f.type = "kext" /\ NoSymbols(n) THEN 0 ELSE f.Symtab
           dyn == [iundef |-> n.iundef, nundef |-> n.nundef]
           ok == /\ syms # None
                 /\ n.iundef <= syms
                 /\ (n.iundef + n.nundef) % Wrap32 <= syms
                 /\ HasBytes(n.indoff, n.nind * 4)
                 /\ parseRelocations(n.locoff, n.nlocrel)
                 /\ parseRelocations(n.extoff, n.nextrel)
           With(h) == [h EXCEPT !.Symtab = syms, !.Dysymtab = dyn]
           R(h) == IF DysymtabCmd <= c.siz /\ ok THEN Appended(With(h), l) ELSE Refused(With(h))
<1>1. f.Symtab = g.Symtab /\ f.type = g.type
  BY DEF AgreeFor, SymbolKinds
<1>2. ReadCommand(f, c) = R(f)
  <2>1. ReadCommand(f, c) = LC_DYSYMTAB(f, c)
    BY DEF ReadCommand
  <2> QED BY <2>1 DEF LC_DYSYMTAB, Kept
<1>3. ReadCommand(g, c) = R(g)
  <2>1. ReadCommand(g, c) = LC_DYSYMTAB(g, c)
    BY DEF ReadCommand
  <2>2. syms = IF g.Symtab = None /\ g.type = "kext" /\ NoSymbols(n) THEN 0 ELSE g.Symtab
    BY <1>1
  <2> HIDE DEF syms
  <2>3. LC_DYSYMTAB(g, c) = Kept(With(g), c, DysymtabCmd, ok, Load(c, n, <<>>))
    BY <2>2 DEF LC_DYSYMTAB
  <2> HIDE DEF With, ok, n
  <2> QED BY <2>1, <2>3 DEF Kept
<1>4. l.cmd = c.cmd
  BY DEF Load
<1> HIDE DEF l, ok, syms, dyn
<1>5. ASSUME NEW h, IsFile(h)
      PROVE  /\ IsFile(With(h)) /\ With(h).Loads = h.Loads /\ With(h).Sections = h.Sections
             /\ With(h).magic = h.magic /\ With(h).type = h.type /\ With(h).err = h.err
             /\ With(h).Symtab = syms /\ With(h).Dysymtab = dyn
  BY <1>5 DEF IsFile
<1> HIDE DEF With
<1>6. DysymtabCmd <= c.siz /\ ok
  BY <1>2, <1>5, RefusedIs
<1>7. ReadCommand(f, c) = Appended(With(f), l) /\ ReadCommand(g, c) = Appended(With(g), l)
  BY <1>2, <1>3, <1>6
<1> HIDE DEF R
<1>8. ASSUME NEW h, IsFile(h)
      PROVE  LET r == Appended(With(h), l) IN
             Reads(c.cmd, h, r, l) /\ r.Symtab = syms /\ r.Dysymtab = dyn
  <2> DEFINE r == Appended(With(h), l)
             p == With(h)
  <2>1. /\ IsFile(p) /\ p.Loads = h.Loads /\ p.Sections = h.Sections
        /\ p.magic = h.magic /\ p.type = h.type /\ p.err = h.err
        /\ p.Symtab = syms /\ p.Dysymtab = dyn
    BY <1>5, <1>8
  <2> HIDE DEF p
  <2>2. /\ IsFile(r) /\ r.Loads = Append(p.Loads, l) /\ r.Sections = p.Sections
        /\ r.magic = p.magic /\ r.type = p.type /\ r.err = p.err
        /\ r.Symtab = p.Symtab /\ r.Dysymtab = p.Dysymtab
    BY <2>1, AppendedIs DEF p
  <2> HIDE DEF r
  <2>3. Reads(c.cmd, h, r, l) /\ r.Symtab = syms /\ r.Dysymtab = dyn
    BY <2>1, <2>2 DEF Reads, SymbolKinds
  <2> QED BY <2>3 DEF r
<1>9. /\ Reads(c.cmd, f, ReadCommand(f, c), l) /\ Reads(c.cmd, g, ReadCommand(g, c), l)
      /\ ReadCommand(f, c).Symtab = syms /\ ReadCommand(f, c).Dysymtab = dyn
      /\ ReadCommand(g, c).Symtab = syms /\ ReadCommand(g, c).Dysymtab = dyn
  BY <1>7, <1>8
<1>10. AgreeFor(c.cmd, ReadCommand(f, c), ReadCommand(g, c))
  <2>1. c.cmd \notin SegmentKinds
    BY DEF SegmentKinds
  <2> QED BY <1>9, <2>1 DEF AgreeFor, Reads
<1> QED BY <1>4, <1>9, <1>10 DEF ReadsAlike

(* A command is read alike into Files that agree on what it looks at. *)
LEMMA ReadAlike ==
    ASSUME NEW c, NEW f, NEW g, IsFile(f), IsFile(g), AgreeFor(c.cmd, f, g),
           ReadCommand(f, c).err = ""
    PROVE  ReadsAlike(c, f, g)
<1>1. CASE c.cmd = "SEGMENT"
  <2>1. \A h : ReadCommand(h, c) = ReadSegment(h, c, Segment32, 68)
    BY <1>1, ZenonT(40) DEF ReadCommand, LC_SEGMENT
  <2> QED BY <1>1, <2>1, SegmentAlike DEF SegmentKinds
<1>2. CASE c.cmd = "SEGMENT_64"
  <2>1. \A h : ReadCommand(h, c) = ReadSegment(h, c, Segment64, 80)
    BY <1>2, ZenonT(40) DEF ReadCommand, LC_SEGMENT_64
  <2> QED BY <1>2, <2>1, SegmentAlike DEF SegmentKinds
<1>3. CASE c.cmd \notin SegmentKinds \cup SymbolKinds
  BY <1>3, MostArePlain, PlainAlike
<1> QED BY <1>1, <1>2, <1>3, SymtabAlike, DysymtabAlike DEF SegmentKinds, SymbolKinds
-----------------------------------------------------------------------------
(* The loop over commands, as a recursion on their number.                 *)
LEMMA LoadsUpToIs ==
    ASSUME NEW fl, NEW flt, fl.ncmds \in Nat
    PROVE  LET W == LoadsUpTo(fl, flt) IN
           /\ W[0] = EmptyFile(fl)
           /\ \A i \in 1 .. fl.ncmds : W[i] = loadInSlice(W[i - 1], fl.cmds[i], flt)
<1> DEFINE N == fl.ncmds
           Step(v, i) == loadInSlice(v, fl.cmds[i], flt)
           Solves(w, n) == w = [i \in 0 .. n |-> IF i = 0 THEN EmptyFile(fl) ELSE Step(w[i - 1], i)]
           S == {n \in Nat : \E w : Solves(w, n)}
<1>1. 0 \in S
  <2> DEFINE w == [i \in 0 .. 0 |-> EmptyFile(fl)]
  <2>1. Solves(w, 0)
    <3> HIDE DEF Step
    <3> QED OBVIOUS
  <2> HIDE DEF Solves, w
  <2> QED BY <2>1
<1>2. ASSUME NEW n \in Nat, n \in S PROVE n + 1 \in S
  <2>1. PICK w : Solves(w, n)
    BY <1>2
  <2> HIDE DEF Step
  <2> DEFINE g == [i \in 0 .. n + 1 |-> IF i = n + 1 THEN Step(w[n], n + 1) ELSE w[i]]
  <2>2. \A i \in 0 .. n : g[i] = w[i]
    OBVIOUS
  <2>3. ASSUME NEW i \in 0 .. n + 1
        PROVE  g[i] = IF i = 0 THEN EmptyFile(fl) ELSE Step(g[i - 1], i)
    <3>1. CASE i = n + 1
      <4>1. g[i - 1] = w[n] /\ i # 0 /\ g[i] = Step(w[n], i)
        BY <3>1
      <4> HIDE DEF g
      <4> QED BY <4>1
    <3>2. CASE i # n + 1
      <4>1. i \in 0 .. n /\ (i # 0 => i - 1 \in 0 .. n)
        BY <3>2
      <4>2. w[i] = IF i = 0 THEN EmptyFile(fl) ELSE Step(w[i - 1], i)
        BY <2>1, <4>1
      <4> HIDE DEF g
      <4> QED BY <2>2, <4>1, <4>2
    <3> QED BY <3>1, <3>2
  <2>4. Solves(g, n + 1)
    BY <2>3
  <2> HIDE DEF Solves, g
  <2> QED BY <2>4
<1>3. \E w : Solves(w, N)
  <2> HIDE DEF S
  <2>1. N \in S
    BY <1>1, <1>2, SetInduction
  <2> HIDE DEF Solves
  <2> QED BY <2>1 DEF S
<1>4. LoadsUpTo(fl, flt) = CHOOSE w : Solves(w, N)
  BY DEF LoadsUpTo
<1>5. Solves(LoadsUpTo(fl, flt), N)
  <2> HIDE DEF Solves
  <2> QED BY <1>3, <1>4
<1> DEFINE W == LoadsUpTo(fl, flt)
<1>6. W[0] = EmptyFile(fl) /\ \A i \in 1 .. N : W[i] = Step(W[i - 1], i)
  <2> HIDE DEF Step, W
  <2>1. W = [i \in 0 .. N |-> IF i = 0 THEN EmptyFile(fl) ELSE Step(W[i - 1], i)]
    BY <1>5 DEF W
  <2> QED BY <2>1
<1> QED BY <1>6

(* The loads a filter lets through, one after the other. *)
Selects(w, s, flt) ==
    /\ w[0] = <<>>
    /\ \A i \in 1 .. Len(s) :
         w[i] = IF Wanted(s[i].cmd, flt) THEN Append(w[i - 1], s[i]) ELSE w[i - 1]

(* OnlyWanted is the last of a run of selections. *)
LEMMA OnlyWantedIs ==
    ASSUME NEW flt, NEW s, IsAList(s)
    PROVE  \E w : /\ Selects(w, s, flt) /\ OnlyWanted(s, flt) = w[Len(s)]
                  /\ \A i \in 0 .. Len(s) : IsAList(w[i])
<1> DEFINE N == Len(s)
           Body(w) == [i \in 0 .. N |-> IF i = 0 THEN <<>>
                         ELSE IF Wanted(s[i].cmd, flt) THEN Append(w[i - 1], s[i]) ELSE w[i - 1]]
<1>0. PICK S : s \in Seq(S)
  BY ListIsSeq
<1> DEFINE T == S \cup {s[0]}
           V == Seq(T)
           step == [p \in (0 .. N) \X V |->
                      IF Wanted(s[p[1]].cmd, flt) THEN Append(p[2], s[p[1]]) ELSE p[2]]
<1>1. N \in Nat /\ <<>> \in V
  BY <1>0
<1>2. step \in [(0 .. N) \X V -> V]
  <2> SUFFICES ASSUME NEW j \in 0 .. N, NEW v \in Seq(T)
               PROVE  (IF Wanted(s[j].cmd, flt) THEN Append(v, s[j]) ELSE v) \in Seq(T)
    OBVIOUS
  <2>1. s[j] \in T
    BY <1>0
  <2> HIDE DEF T
  <2> QED BY <2>1
<1>3. PICK w \in [0 .. N -> V] : Carries(w, N, <<>>, step)
  <2> HIDE DEF step, V
  <2> QED BY <1>1, <1>2, FoldExists
<1>4. \A i \in 1 .. N : w[i - 1] \in V
  BY <1>1, <1>3
<1>5. \A i \in 1 .. N : step[<<i, w[i - 1]>>] =
                         IF Wanted(s[i].cmd, flt) THEN Append(w[i - 1], s[i]) ELSE w[i - 1]
  BY <1>4
<1>6. \A i \in 0 .. N : w[i] = IF i = 0 THEN <<>> ELSE step[<<i, w[i - 1]>>]
  <2> HIDE DEF step
  <2> QED BY <1>3 DEF Carries
<1>7. w = Body(w)
  <2> HIDE DEF step, V
  <2>0. \A i \in 0 .. N : i = 0 \/ i \in 1 .. N
    BY <1>1
  <2>1. \A i \in 0 .. N : w[i] = IF i = 0 THEN <<>>
                         ELSE IF Wanted(s[i].cmd, flt) THEN Append(w[i - 1], s[i]) ELSE w[i - 1]
    BY <1>5, <1>6, <2>0
  <2> QED BY <1>3, <2>1
<1> DEFINE u == CHOOSE v : v = Body(v)
<1>8. u = Body(u)
  <2> HIDE DEF Body
  <2> QED BY <1>7
<1>9. OnlyWanted(s, flt) = u[Len(s)]
  BY DEF OnlyWanted
<1>10. Selects(u, s, flt)
  <2> HIDE DEF u
  <2>1. \A i \in 0 .. N : u[i] = IF i = 0 THEN <<>>
                         ELSE IF Wanted(s[i].cmd, flt) THEN Append(u[i - 1], s[i]) ELSE u[i - 1]
    <3> HIDE DEF N
    <3> QED BY <1>8
  <2>2. 0 \in 0 .. N /\ \A i \in 1 .. N : i \in 0 .. N /\ i # 0
    BY <1>1
  <2> HIDE DEF Body
  <2> QED BY <2>1, <2>2 DEF Selects
<1>11. \A i \in 0 .. N : IsAList(u[i])
  <2> HIDE DEF u
  <2> DEFINE P == {i \in 0 .. N : u[i] \in Seq(S)}
  <2> HIDE DEF Body
  <2>1. 0 \in P
    <3>1. u[0] = <<>> /\ 0 \in 0 .. N
      BY <1>1, <1>10 DEF Selects
    <3>2. <<>> \in Seq(S)
      OBVIOUS
    <3> QED BY <3>1, <3>2
  <2>2. ASSUME NEW i \in 1 .. N, i - 1 \in P PROVE i \in P
    <3>1. s[i] \in S /\ u[i - 1] \in Seq(S) /\ i \in 0 .. N
      BY <1>0, <2>2
    <3>2. u[i] = IF Wanted(s[i].cmd, flt) THEN Append(u[i - 1], s[i]) ELSE u[i - 1]
      BY <1>10 DEF Selects
    <3> HIDE DEF N
    <3>3. \A q \in Seq(S), x \in S : Append(q, x) \in Seq(S)
      OBVIOUS
    <3>4. u[i] \in Seq(S)
      BY <3>1, <3>2, <3>3
    <3> QED BY <3>1, <3>4
  <2>3. \A i \in 0 .. N : i \in P
    <3> HIDE DEF P
    <3> QED BY <1>1, <2>1, <2>2, CountInduction
  <2> QED BY <2>3, SeqIsList
<1> HIDE DEF u
<1> QED BY <1>9, <1>10, <1>11

(* Selecting alike from equal prefixes. *)
LEMMA SelectsAlike ==
    ASSUME NEW flt, NEW s, IsAList(s), NEW x, NEW v, NEW w,
           Selects(v, s, flt), Selects(w, Append(s, x), flt)
    PROVE  \A i \in 0 .. Len(s) : w[i] = v[i]
<1> DEFINE t == Append(s, x)
           P == {i \in 0 .. Len(s) : w[i] = v[i]}
<1>0. Len(s) \in Nat
  BY DEF IsAList
<1>1. Len(t) = Len(s) + 1 /\ \A i \in 1 .. Len(s) : t[i] = s[i]
  BY AppendIs
<1> HIDE DEF t
<1>2. 0 \in P
  BY <1>0 DEF Selects
<1>3. ASSUME NEW i \in 1 .. Len(s), i - 1 \in P PROVE i \in P
  <2>1. i \in 1 .. Len(t)
    BY <1>0, <1>1
  <2> QED BY <1>1, <1>3, <2>1 DEF Selects, t
<1>4. \A i \in 0 .. Len(s) : i \in P
  <2> HIDE DEF P
  <2> QED BY <1>0, <1>2, <1>3, CountInduction
<1> QED BY <1>4

(* One load more is selected or not. *)
LEMMA OnlyWantedOfAppend ==
    ASSUME NEW flt, NEW s, IsAList(s), NEW x
    PROVE  OnlyWanted(Append(s, x), flt) =
             IF Wanted(x.cmd, flt) THEN Append(OnlyWanted(s, flt), x) ELSE OnlyWanted(s, flt)
<1> DEFINE t == Append(s, x)
<1>1. IsAList(t) /\ Len(t) = Len(s) + 1 /\ t[Len(s) + 1] = x /\ Len(s) \in Nat
  BY AppendIs DEF IsAList
<1>2. PICK v : Selects(v, s, flt) /\ OnlyWanted(s, flt) = v[Len(s)]
  BY OnlyWantedIs
<1>3. PICK w : Selects(w, t, flt) /\ OnlyWanted(t, flt) = w[Len(t)]
  BY <1>1, OnlyWantedIs
<1>4. w[Len(s)] = v[Len(s)]
  BY <1>1, <1>2, <1>3, SelectsAlike
<1>5. w[Len(s) + 1] = IF Wanted(x.cmd, flt) THEN Append(w[Len(s)], x) ELSE w[Len(s)]
  <2> HIDE DEF t
  <2>1. Len(s) + 1 \in 1 .. Len(t) /\ (Len(s) + 1) - 1 = Len(s)
    BY <1>1
  <2> QED BY <1>1, <1>3, <2>1 DEF Selects
<1> QED BY <1>1, <1>2, <1>3, <1>4, <1>5

(* Nothing is selected from nothing. *)
LEMMA OnlyWantedOfNone == ASSUME NEW flt PROVE OnlyWanted(<<>>, flt) = <<>>
<1>1. IsAList(<<>>) /\ Len(<<>>) = 0
  BY DEF IsAList
<1> QED BY <1>1, OnlyWantedIs DEF Selects

(* Loading what a filter wants keeps step with loading everything. *)
InStepWith(w, p, flt) ==
    w.err = "" =>
      /\ p.err = "" /\ IsFile(w) /\ IsFile(p) /\ w.magic = p.magic /\ w.type = p.type
      /\ p.Loads = OnlyWanted(w.Loads, flt)
      /\ \A k \in SegmentKinds : Wanted(k, flt) => w.Sections = p.Sections
      /\ \A k \in SymbolKinds : Wanted(k, flt) => w.Symtab = p.Symtab /\ w.Dysymtab = p.Dysymtab

RelatedTogether(flt) == \A r \in Related : \A k, m \in r : Wanted(k, flt) <=> Wanted(m, flt)

(* What NewFile begins with. *)
LEMMA EmptyFileIs ==
    ASSUME NEW fl
    PROVE  IsFile(EmptyFile(fl)) /\ EmptyFile(fl).err = "" /\ EmptyFile(fl).Loads = <<>>
<1>1. IsAList(<<>>)
  BY SeqIsList, <<>> \in Seq({})
<1> QED BY <1>1 DEF EmptyFile, IsFile

(* Everything passes no filter. *)
LEMMA AllAreWanted == ASSUME NEW k PROVE Wanted(k, NoFilter)
  BY DEF Wanted, NoFilter

(* One command keeps the two loops in step. *)
LEMMA StepInStep ==
    ASSUME NEW flt, RelatedTogether(flt), NEW c, NEW w, NEW p, InStepWith(w, p, flt)
    PROVE  InStepWith(loadInSlice(w, c, NoFilter), loadInSlice(p, c, flt), flt)
<1> DEFINE v == loadInSlice(w, c, NoFilter)
           q == loadInSlice(p, c, flt)
<1>0. CASE w.err # ""
  BY <1>0 DEF loadInSlice, InStepWith
<1>1. CASE w.err = ""
  <2>1. v = ReadCommand(w, c)
    BY <1>1, AllAreWanted DEF loadInSlice
  <2> HIDE DEF v
  <2> SUFFICES ASSUME v.err = "" PROVE InStepWith(v, q, flt)
    BY DEF InStepWith, v
  <2>2. /\ p.err = "" /\ IsFile(w) /\ IsFile(p) /\ w.magic = p.magic /\ w.type = p.type
        /\ p.Loads = OnlyWanted(w.Loads, flt) /\ IsAList(w.Loads)
        /\ \A k \in SegmentKinds : Wanted(k, flt) => w.Sections = p.Sections
        /\ \A k \in SymbolKinds : Wanted(k, flt) => w.Symtab = p.Symtab /\ w.Dysymtab = p.Dysymtab
    BY <1>1 DEF InStepWith, IsFile
  <2>3. CASE Wanted(c.cmd, flt)
    <3>1. q = ReadCommand(p, c)
      BY <2>2, <2>3 DEF loadInSlice
    <3> HIDE DEF q
    <3>2. AgreeFor(c.cmd, w, p)
      BY <2>2, <2>3 DEF AgreeFor
    <3>3. ReadsAlike(c, w, p)
      BY <2>1, <2>2, <3>2, ReadAlike
    <3>4. PICK l : l.cmd = c.cmd /\ Reads(c.cmd, w, v, l) /\ Reads(c.cmd, p, q, l) /\ AgreeFor(c.cmd, v, q)
      BY <2>1, <3>1, <3>3 DEF ReadsAlike
    <3>5. q.Loads = OnlyWanted(v.Loads, flt)
      BY <2>2, <2>3, <3>4, OnlyWantedOfAppend DEF Reads
    <3>6. /\ q.err = "" /\ IsFile(v) /\ IsFile(q) /\ v.magic = q.magic /\ v.type = q.type
      BY <2>2, <3>4 DEF Reads
    <3>7. ASSUME NEW k \in SegmentKinds, Wanted(k, flt) PROVE v.Sections = q.Sections
      BY <2>2, <3>4, <3>7 DEF Reads, AgreeFor
    <3>8. ASSUME NEW k \in SymbolKinds, Wanted(k, flt)
          PROVE  v.Symtab = q.Symtab /\ v.Dysymtab = q.Dysymtab
      BY <2>2, <3>4, <3>8 DEF Reads, AgreeFor
    <3> QED BY <3>5, <3>6, <3>7, <3>8 DEF InStepWith
  <2>4. CASE ~Wanted(c.cmd, flt)
    <3>1. q = p
      BY <2>4 DEF loadInSlice
    <3> HIDE DEF q
    <3>2. ReadsAlike(c, w, w)
      BY <2>1, <2>2, ReadAlike DEF AgreeFor
    <3>3. PICK l : l.cmd = c.cmd /\ Reads(c.cmd, w, v, l)
      BY <2>1, <3>2 DEF ReadsAlike
    <3>4. q.Loads = OnlyWanted(v.Loads, flt)
      BY <2>2, <2>4, <3>1, <3>3, OnlyWantedOfAppend DEF Reads
    <3>5. /\ q.err = "" /\ IsFile(v) /\ IsFile(q) /\ v.magic = q.magic /\ v.type = q.type
      BY <2>2, <3>1, <3>3 DEF Reads
    <3>6. ASSUME NEW k \in SegmentKinds, Wanted(k, flt) PROVE v.Sections = q.Sections
      <4>1. c.cmd \notin SegmentKinds
        BY <2>4, <3>6 DEF RelatedTogether, Related, SegmentKinds
      <4> QED BY <2>2, <3>1, <3>3, <3>6, <4>1 DEF Reads
    <3>7. ASSUME NEW k \in SymbolKinds, Wanted(k, flt)
          PROVE  v.Symtab = q.Symtab /\ v.Dysymtab = q.Dysymtab
      <4>1. c.cmd \notin SymbolKinds
        BY <2>4, <3>7 DEF RelatedTogether, Related, SymbolKinds
      <4> QED BY <2>2, <3>1, <3>3, <3>7, <4>1 DEF Reads
    <3> QED BY <3>4, <3>5, <3>6, <3>7 DEF InStepWith
  <2> QED BY <2>3, <2>4
<1> QED BY <1>0, <1>1

(* All the commands do. *)
LEMMA LoopsInStep ==
    ASSUME NEW fl, fl.ncmds \in Nat, NEW flt, RelatedTogether(flt)
    PROVE  InStepWith(LoadsUpTo(fl, NoFilter)[fl.ncmds], LoadsUpTo(fl, flt)[fl.ncmds], flt)
<1> DEFINE N == fl.ncmds
           W == LoadsUpTo(fl, NoFilter)
           Q == LoadsUpTo(fl, flt)
           P == {i \in 0 .. N : InStepWith(W[i], Q[i], flt)}
<1>1. /\ W[0] = EmptyFile(fl) /\ \A i \in 1 .. N : W[i] = loadInSlice(W[i - 1], fl.cmds[i], NoFilter)
      /\ Q[0] = EmptyFile(fl) /\ \A i \in 1 .. N : Q[i] = loadInSlice(Q[i - 1], fl.cmds[i], flt)
  BY LoadsUpToIs
<1> HIDE DEF W, Q
<1>2. 0 \in P
  <2>1. InStepWith(EmptyFile(fl), EmptyFile(fl), flt)
    BY EmptyFileIs, OnlyWantedOfNone DEF InStepWith
  <2> QED BY <1>1, <2>1
<1>3. ASSUME NEW i \in 1 .. N, i - 1 \in P PROVE i \in P
  <2>1. InStepWith(W[i - 1], Q[i - 1], flt)
    BY <1>3
  <2>2. InStepWith(W[i], Q[i], flt)
    BY <1>1, <2>1, StepInStep
  <2> QED BY <2>2
<1>4. \A i \in 0 .. N : i \in P
  <2> HIDE DEF P
  <2> QED BY <1>2, <1>3, CountInduction
<1> QED BY <1>4 DEF W, Q

(* A filter is a projection of the file it is applied to. *)
LEMMA FiltersProject ==
    ASSUME NEW fl, fl.ncmds \in Nat, NEW flt, RelatedTogether(flt), NewFile(fl, NoFilter).err = ""
    PROVE  /\ NewFile(fl, flt).err = ""
           /\ NewFile(fl, flt).Loads = OnlyWanted(NewFile(fl, NoFilter).Loads, flt)
<1>1. NewFile(fl, NoFilter) # Refused(EmptyFile(fl))
  BY EmptyFileIs, RefusedIs
<1>2. /\ NewFile(fl, NoFilter) = LoadsUpTo(fl, NoFilter)[fl.ncmds]
      /\ NewFile(fl, flt) = LoadsUpTo(fl, flt)[fl.ncmds]
  BY <1>1 DEF NewFile
<1> DEFINE w == LoadsUpTo(fl, NoFilter)[fl.ncmds]
           p == LoadsUpTo(fl, flt)[fl.ncmds]
<1>3. InStepWith(w, p, flt)
  BY LoopsInStep
<1> HIDE DEF w, p
<1>4. p.err = "" /\ p.Loads = OnlyWanted(w.Loads, flt)
  BY <1>2, <1>3 DEF InStepWith, w
<1> QED BY <1>2, <1>4 DEF w, p

(* A File is what NewFile made of the bytes, until they are written.       *)
OpenedAsFiltered ==
    /\ part \in {"new", "open"} => file \in Files
    /\ part = "open" => File = NewFile(file, filter)

(* The filter of a FileConfig only chooses: what it lets through is the    *)
(* same as when the whole file is loaded (the filter before the switch of  *)
(* NewFile, and what its cases leave in the File for later ones).          *)
THEOREM FiltersOnlyChoose ==
    ASSUME CountsAreNatural
    PROVE  CommandsSpec => []FilterIsProjection
<1>1. CommandsInit => OpenedAsFiltered
  BY DEF CommandsInit, OpenedAsFiltered
<1>2. OpenedAsFiltered /\ [CommandsNext]_commandVars => OpenedAsFiltered'
  <2> SUFFICES ASSUME OpenedAsFiltered, [CommandsNext]_commandVars PROVE OpenedAsFiltered'
    OBVIOUS
  <2>1. CASE Open
    BY <2>1 DEF Open, OpenedAsFiltered
  <2>2. CASE Write
    BY <2>2 DEF Write, OpenedAsFiltered
  <2>3. CASE UNCHANGED commandVars
    BY <2>3 DEF commandVars, OpenedAsFiltered
  <2> QED BY <2>1, <2>2, <2>3 DEF CommandsNext
<1>3. OpenedAsFiltered => FilterIsProjection
  <2> SUFFICES ASSUME OpenedAsFiltered, part = "open", NewFile(file, NoFilter).err = "",
                      RelatedTogether(filter)
               PROVE  File.err = "" /\ File.Loads = OnlyWanted(NewFile(file, NoFilter).Loads, filter)
    BY DEF FilterIsProjection, RelatedTogether
  <2>1. file.ncmds \in Nat /\ File = NewFile(file, filter)
    BY DEF OpenedAsFiltered, CountsAreNatural
  <2> QED BY <2>1, FiltersProject
<1> QED BY <1>1, <1>2, <1>3, PTL DEF CommandsSpec
-----------------------------------------------------------------------------
(* Strings that end in a zero.                                             *)
LEMMA UpToNulIs ==
    ASSUME NEW s, IsAList(s)
    PROVE  LET t == UpToNul(s) IN IsAList(t) /\ \A i \in 1 .. Len(t) : t[i] # 0
<1> DEFINE ends == {i \in 1 .. Len(s) : s[i] = 0}
           e == CHOOSE i \in ends : \A j \in ends : i <= j
<1>0. Len(s) \in Nat
  BY DEF IsAList
<1>1. PICK S : s \in Seq(S)
  BY ListIsSeq
<1>2. CASE ends = {}
  BY <1>2 DEF UpToNul
<1>3. CASE ends # {}
  <2>1. \E i \in ends : \A j \in ends : i <= j
    <3>1. ends \subseteq Nat
      BY <1>0
    <3> HIDE DEF ends
    <3> QED BY <1>3, <3>1, LeastNatural
  <2>2. e \in ends /\ \A j \in ends : e <= j
    BY <2>1
  <2>3. UpToNul(s) = SubSeq(s, 1, e - 1)
    BY <1>3 DEF UpToNul
  <2> HIDE DEF e
  <2>4. e \in 1 .. Len(s) /\ \A j \in 1 .. e - 1 : s[j] # 0
    <3>1. e \in 1 .. Len(s)
      BY <2>2
    <3>2. ASSUME NEW j \in 1 .. e - 1, s[j] = 0 PROVE FALSE
      <4>1. j \in ends /\ ~(e <= j)
        BY <1>0, <3>1, <3>2
      <4> HIDE DEF ends
      <4> QED BY <2>2, <4>1
    <3> QED BY <3>1, <3>2
  <2> HIDE DEF ends
  <2> DEFINE t == SubSeq(s, 1, e - 1)
  <2>5. t \in Seq(S) /\ Len(t) = e - 1 /\ \A j \in 1 .. e - 1 : t[j] = s[j]
    BY <1>1, <2>4
  <2> HIDE DEF t
  <2>6. IsAList(t) /\ \A i \in 1 .. Len(t) : t[i] # 0
    BY <2>4, <2>5, SeqIsList
  <2> QED BY <2>3, <2>6 DEF t
<1> QED BY <1>2, <1>3

(* A string ends at the first zero, whatever follows. *)
LEMMA EndsAtNul ==
    ASSUME NEW S, NEW t \in Seq(S), \A i \in 1 .. Len(t) : t[i] # 0, NEW z \in Seq(S), 0 \in S
    PROVE  UpToNul(Append(t, 0) \o z) = t
<1> DEFINE s == Append(t, 0) \o z
           ends == {i \in 1 .. Len(s) : s[i] = 0}
           e == CHOOSE i \in ends : \A j \in ends : i <= j
<1>1. /\ s \in Seq(S) /\ Len(s) = Len(t) + 1 + Len(z)
      /\ \A i \in 1 .. Len(t) : s[i] = t[i]
      /\ s[Len(t) + 1] = 0
  OBVIOUS
<1> HIDE DEF s
<1>2. Len(t) \in Nat /\ Len(z) \in Nat
  OBVIOUS
<1>3. Len(t) + 1 \in ends /\ \A j \in ends : Len(t) + 1 <= j
  <2>1. Len(t) + 1 \in ends
    BY <1>1, <1>2
  <2>2. ASSUME NEW j \in ends, ~(Len(t) + 1 <= j) PROVE FALSE
    <3>1. j \in 1 .. Len(t) /\ s[j] = 0
      BY <1>1, <1>2, <2>2
    <3> QED BY <1>1, <3>1
  <2> QED BY <2>1, <2>2
<1>4. e = Len(t) + 1
  <2>1. e \in ends /\ \A j \in ends : e <= j
    BY <1>3
  <2>2. e <= Len(t) + 1 /\ Len(t) + 1 <= e /\ e \in Nat
    BY <1>1, <1>2, <1>3, <2>1
  <2> HIDE DEF e
  <2> QED BY <1>2, <2>2
<1>5. UpToNul(s) = SubSeq(s, 1, e - 1)
  BY <1>3 DEF UpToNul
<1> HIDE DEF e, ends
<1>6. SubSeq(s, 1, Len(t)) = t
  <2> DEFINE u == SubSeq(s, 1, Len(t))
  <2>1. u \in Seq(S) /\ Len(u) = Len(t) /\ \A i \in 1 .. Len(t) : u[i] = s[i]
    BY <1>1, <1>2
  <2> HIDE DEF u
  <2> QED BY <1>1, <2>1
<1>7. e - 1 = Len(t)
  BY <1>2, <1>4
<1> QED BY <1>5, <1>6, <1>7 DEF s

(* The padding of a string is made of zeros. *)
LEMMA PaddedIs ==
    ASSUME NEW s, NEW head \in Nat, NEW len \in Nat, Len(s) \in Nat
    PROVE  \E z \in Seq({0}) : Padded(s, head, len) = s \o z
<1> DEFINE n == IF len > head + Len(s) THEN len - head - Len(s) ELSE 0
           z == [i \in 1 .. n |-> 0]
<1>1. n \in Nat
  OBVIOUS
<1>2. z \in Seq({0})
  <2> HIDE DEF n
  <2> QED BY <1>1
<1>3. Padded(s, head, len) = s \o z
  BY DEF Padded
<1> HIDE DEF z
<1> QED BY <1>2, <1>3

(* What was a string up to a zero is that string when padded. *)
LEMMA NameSurvives ==
    ASSUME NEW s, IsAList(s), NEW head \in Nat, NEW len \in Nat
    PROVE  LET t == UpToNul(s)
               T == Padded(Append(t, 0), head, len)
           IN  UpToNul(T) = t /\ IsAList(T)
<1> DEFINE t == UpToNul(s)
           T == Padded(Append(t, 0), head, len)
<1>1. IsAList(t) /\ \A i \in 1 .. Len(t) : t[i] # 0
  BY UpToNulIs
<1> HIDE DEF t
<1>2. PICK R : t \in Seq(R)
  BY <1>1, ListIsSeq
<1> DEFINE S == R \cup {0}
<1>3. t \in Seq(S) /\ 0 \in S /\ Seq({0}) \subseteq Seq(S)
  BY <1>2
<1>4. Append(t, 0) \in Seq(S) /\ Len(Append(t, 0)) \in Nat
  BY <1>3
<1>5. PICK z \in Seq({0}) : T = Append(t, 0) \o z
  BY <1>4, PaddedIs
<1>6. z \in Seq(S)
  BY <1>3
<1> HIDE DEF S, T
<1>7. T \in Seq(S)
  <2>1. \A a, b \in Seq(S) : a \o b \in Seq(S)
    OBVIOUS
  <2> QED BY <1>4, <1>5, <1>6, <2>1
<1>8. UpToNul(T) = t
  BY <1>1, <1>3, <1>5, <1>6, EndsAtNul
<1> QED BY <1>7, <1>8, SeqIsList DEF t, T
-----------------------------------------------------------------------------
(* Thread states.                                                          *)

(* What Joined goes through. *)
Joins(w, s) == w[0] = <<>> /\ \A i \in 1 .. Len(s) : w[i] = w[i - 1] \o s[i]

(* Joined is the last of a run of concatenations. *)
LEMMA JoinedIs ==
    ASSUME NEW T, NEW s \in Seq(Seq(T))
    PROVE  \E w \in [0 .. Len(s) -> Seq(T)] : Joins(w, s) /\ Joined(s) = w[Len(s)]
<1> DEFINE N == Len(s)
           V == Seq(T)
           Body(w) == [i \in 0 .. N |-> IF i = 0 THEN <<>> ELSE w[i - 1] \o s[i]]
           step == [p \in (0 .. N) \X V |-> IF p[1] = 0 THEN <<>> ELSE p[2] \o s[p[1]]]
<1>1. N \in Nat /\ <<>> \in V /\ \A i \in 1 .. N : s[i] \in V
  OBVIOUS
<1>2. step \in [(0 .. N) \X V -> V]
  <2>1. \A a, b \in Seq(T) : a \o b \in Seq(T)
    OBVIOUS
  <2>2. ASSUME NEW j \in 0 .. N, NEW v \in V
        PROVE  (IF j = 0 THEN <<>> ELSE v \o s[j]) \in V
    <3>1. CASE j = 0
      BY <1>1, <3>1
    <3>2. CASE j # 0
      <4>1. s[j] \in V
        BY <1>1, <3>2
      <4> QED BY <2>1, <3>2, <4>1
    <3> QED BY <3>1, <3>2
  <2> HIDE DEF V, N
  <2> QED BY <2>2
<1>3. PICK w \in [0 .. N -> V] : Carries(w, N, <<>>, step)
  <2> HIDE DEF step, V, N
  <2> QED BY <1>1, <1>2, FoldExists
<1>4. \A i \in 0 .. N : w[i] = IF i = 0 THEN <<>> ELSE w[i - 1] \o s[i]
  <2> SUFFICES ASSUME NEW i \in 0 .. N PROVE w[i] = IF i = 0 THEN <<>> ELSE w[i - 1] \o s[i]
    OBVIOUS
  <2>1. w[i] = IF i = 0 THEN <<>> ELSE step[<<i, w[i - 1]>>]
    <3> HIDE DEF step
    <3> QED BY <1>3 DEF Carries
  <2>2. CASE i # 0
    <3>1. w[i - 1] \in V
      <4> HIDE DEF V
      <4>1. i - 1 \in 0 .. N
        BY ONLY <1>1, <2>2, i \in 0 .. N
      <4> QED BY ONLY <1>3, <4>1
    <3> HIDE DEF V, N
    <3>2. step[<<i, w[i - 1]>>] = w[i - 1] \o s[i]
      BY <2>2, <3>1
    <3> QED BY <2>1, <2>2, <3>2
  <2> HIDE DEF step
  <2> QED BY <2>1, <2>2
<1>5. w = Body(w)
  <2> HIDE DEF V
  <2> QED BY <1>3, <1>4
<1> DEFINE u == CHOOSE v : v = Body(v)
<1>6. u = Body(u)
  <2> HIDE DEF Body
  <2> QED BY <1>5
<1>7. Joined(s) = u[Len(s)]
  BY DEF Joined
<1>8. u[0] = <<>> /\ \A i \in 1 .. N : u[i] = u[i - 1] \o s[i]
  <2> HIDE DEF u
  <2>1. \A i \in 0 .. N : u[i] = IF i = 0 THEN <<>> ELSE u[i - 1] \o s[i]
    <3> HIDE DEF N
    <3> QED BY <1>6
  <2>2. 0 \in 0 .. N /\ \A i \in 1 .. N : i \in 0 .. N /\ i # 0
    BY <1>1
  <2> HIDE DEF Body, N
  <2> QED BY <2>1, <2>2
<1>9. u \in [0 .. N -> V]
  <2> HIDE DEF u
  <2> DEFINE P == {i \in 0 .. N : u[i] \in V}
  <2>1. 0 \in P
    <3> HIDE DEF V, N, Body
    <3> QED BY <1>1, <1>8
  <2>2. ASSUME NEW i \in 1 .. N, i - 1 \in P PROVE i \in P
    <3>1. u[i - 1] \in V /\ s[i] \in V /\ i \in 0 .. N
      <4> HIDE DEF V
      <4> QED BY <1>1, <2>2
    <3>2. \A a, b \in Seq(T) : a \o b \in Seq(T)
      OBVIOUS
    <3>3. u[i - 1] \o s[i] \in V
      BY <3>1, <3>2
    <3> HIDE DEF V, N, Body
    <3> QED BY <1>8, <3>1, <3>3
  <2>3. \A i \in 0 .. N : i \in P
    <3> HIDE DEF P
    <3> QED BY <1>1, <2>1, <2>2, CountInduction
  <2>4. u = [i \in 0 .. N |-> u[i]]
    <3>1. u = [i \in 0 .. N |-> Body(u)[i]]
      BY <1>6
    <3> HIDE DEF Body
    <3> QED BY <3>1
  <2> HIDE DEF Body, V, N
  <2> QED BY <2>3, <2>4
<1> HIDE DEF u
<1> QED BY <1>7, <1>8, <1>9 DEF Joins

(* w joins the elements of s to a, where v joins them to nothing.          *)
JoinsAfter(T, a, N, v, w, s) ==
    /\ a \in Seq(T) /\ N \in Nat
    /\ \A i \in 1 .. N : s[i] \in Seq(T) /\ v[i] = v[i - 1] \o s[i]
    /\ \A i \in 0 .. N : v[i] \in Seq(T)
    /\ \A i \in 1 .. N : w[i + 1] = w[i] \o s[i]
    /\ w[1] = a /\ v[0] = <<>>

Follows(a, N, v, w) == w[N + 1] = a \o v[N]

(* The two differ by what comes first. *)
LEMMA JoinsFollow ==
    ASSUME NEW T, NEW a, NEW N, NEW v, NEW w, NEW s, JoinsAfter(T, a, N, v, w, s)
    PROVE  Follows(a, N, v, w)
<1>0. /\ a \in Seq(T) /\ N \in Nat
      /\ \A i \in 1 .. N : s[i] \in Seq(T) /\ v[i] = v[i - 1] \o s[i]
      /\ \A i \in 0 .. N : v[i] \in Seq(T)
      /\ \A i \in 1 .. N : w[i + 1] = w[i] \o s[i]
      /\ w[1] = a /\ v[0] = <<>>
  BY DEF JoinsAfter
<1> DEFINE P == {i \in 0 .. N : w[i + 1] = a \o v[i]}
<1>1. 0 \in P
  BY <1>0
<1>2. ASSUME NEW i \in 1 .. N, i - 1 \in P PROVE i \in P
  <2>1. w[i] = a \o v[i - 1] /\ i \in 0 .. N /\ i - 1 \in 0 .. N
    BY <1>0, <1>2
  <2>2. PICK x \in Seq(T), b \in Seq(T), d \in Seq(T) : x = a /\ b = v[i - 1] /\ d = s[i]
    BY <1>0, <2>1
  <2>3. w[i] = x \o b /\ w[i + 1] = (x \o b) \o d /\ v[i] = b \o d
    BY <1>0, <2>1, <2>2
  <2>4. (x \o b) \o d = x \o (b \o d)
    OBVIOUS
  <2> HIDE DEF P
  <2>5. w[i + 1] = a \o v[i]
    BY <2>2, <2>3, <2>4
  <2> QED BY <2>1, <2>5 DEF P
<1>3. \A i \in 0 .. N : i \in P
  <2> HIDE DEF P
  <2> QED BY <1>0, <1>1, <1>2, CountInduction
<1> QED BY <1>0, <1>3 DEF Follows

(* Nothing, joined. *)
LEMMA JoinedOfNone == Joined(<<>>) = <<>>
<1> DEFINE s == <<>>
<1>1. s \in Seq(Seq({})) /\ Len(s) = 0
  OBVIOUS
<1> HIDE DEF s
<1>2. PICK w : Joins(w, s) /\ Joined(s) = w[Len(s)]
  BY <1>1, JoinedIs
<1> QED BY <1>1, <1>2 DEF Joins, s

(* One sequence more in front. *)
LEMMA JoinedOfMore ==
    ASSUME NEW T, NEW a \in Seq(T), NEW s \in Seq(Seq(T))
    PROVE  Joined(<<a>> \o s) = a \o Joined(s)
<1> DEFINE t == <<a>> \o s
           N == Len(s)
<1>1. /\ t \in Seq(Seq(T)) /\ Len(t) = N + 1 /\ N \in Nat /\ t[1] = a
      /\ \A i \in 1 .. N : t[i + 1] = s[i] /\ s[i] \in Seq(T)
  OBVIOUS
<1> HIDE DEF t
<1>2. PICK v \in [0 .. N -> Seq(T)] : Joins(v, s) /\ Joined(s) = v[N]
  BY JoinedIs
<1>3. PICK w : Joins(w, t) /\ Joined(t) = w[Len(t)]
  BY <1>1, JoinedIs
<1>4. w[0] = <<>> /\ \A i \in 1 .. N + 1 : w[i] = w[i - 1] \o t[i]
  BY <1>1, <1>3 DEF Joins
<1>5. v[0] = <<>> /\ (\A i \in 1 .. N : v[i] = v[i - 1] \o s[i]) /\ \A i \in 0 .. N : v[i] \in Seq(T)
  BY <1>2 DEF Joins
<1>6. w[1] = a
  <2>1. 1 \in 1 .. N + 1 /\ 1 - 1 = 0
    BY <1>1
  <2>2. w[1] = <<>> \o a
    BY <1>1, <1>4, <2>1
  <2> QED BY <2>2
<1>7. \A i \in 1 .. N : w[i + 1] = w[i] \o s[i]
  <2>1. \A i \in 1 .. N : i + 1 \in 1 .. N + 1 /\ (i + 1) - 1 = i
    BY <1>1
  <2> HIDE DEF N
  <2> QED BY <1>1, <1>4, <2>1
<1>8. \A i \in 1 .. N : s[i] \in Seq(T) /\ v[i] = v[i - 1] \o s[i]
  BY <1>1, <1>5
<1>9. Follows(a, N, v, w)
  <2>1. JoinsAfter(T, a, N, v, w, s)
    BY <1>1, <1>5, <1>6, <1>7, <1>8 DEF JoinsAfter
  <2> HIDE DEF N
  <2> QED BY <2>1, JoinsFollow
<1>10. w[N + 1] = a \o v[N]
  BY <1>9 DEF Follows
<1> QED BY <1>1, <1>2, <1>3, <1>10 DEF t

(* A part of a list, and the list in two parts. *)
LEMMA PartIs ==
    ASSUME NEW T, NEW s \in Seq(T), NEW i \in 1 .. Len(s) + 1, NEW j \in 0 .. Len(s), i <= j + 1
    PROVE  LET p == SubSeq(s, i, j) IN
           p \in Seq(T) /\ Len(p) = j + 1 - i /\ \A k \in 1 .. j + 1 - i : p[k] = s[i + k - 1]
<1>1. Len(s) \in Nat /\ i \in Int /\ j \in Int
  OBVIOUS
<1> QED BY <1>1

(* Two neighbouring parts of a sequence, joined. *)
LEMMA PartsJoin ==
    ASSUME NEW T, NEW s \in Seq(T), NEW i \in 1 .. Len(s) + 1, NEW j \in 1 .. Len(s) + 1, i <= j
    PROVE  SubSeq(s, i, j - 1) \o SubSeq(s, j, Len(s)) = SubSeq(s, i, Len(s))
<1>0. Len(s) \in Nat /\ j - 1 \in 0 .. Len(s) /\ i <= (j - 1) + 1 /\ i <= Len(s) + 1 /\ Len(s) \in 0 .. Len(s)
  OBVIOUS
<1>1. \E a \in Seq(T) : /\ a = SubSeq(s, i, j - 1) /\ Len(a) = j - i
                        /\ \A k \in 1 .. j - i : a[k] = s[i + k - 1]
  <2> DEFINE a == SubSeq(s, i, j - 1)
  <2>1. a \in Seq(T) /\ Len(a) = j - i /\ \A k \in 1 .. j - i : a[k] = s[i + k - 1]
    BY <1>0
  <2> HIDE DEF a
  <2>2. a = SubSeq(s, i, j - 1)
    BY DEF a
  <2> QED BY <2>1, <2>2
<1>2. \E b \in Seq(T) : /\ b = SubSeq(s, j, Len(s)) /\ Len(b) = Len(s) + 1 - j
                        /\ \A k \in 1 .. Len(s) + 1 - j : b[k] = s[j + k - 1]
  <2> DEFINE b == SubSeq(s, j, Len(s))
  <2>1. b \in Seq(T) /\ Len(b) = Len(s) + 1 - j /\ \A k \in 1 .. Len(s) + 1 - j : b[k] = s[j + k - 1]
    BY <1>0
  <2> HIDE DEF b
  <2>2. b = SubSeq(s, j, Len(s))
    BY DEF b
  <2> QED BY <2>1, <2>2
<1>3. \E c \in Seq(T) : /\ c = SubSeq(s, i, Len(s)) /\ Len(c) = Len(s) + 1 - i
                        /\ \A k \in 1 .. Len(s) + 1 - i : c[k] = s[i + k - 1]
  <2> DEFINE c == SubSeq(s, i, Len(s))
  <2>1. c \in Seq(T) /\ Len(c) = Len(s) + 1 - i /\ \A k \in 1 .. Len(s) + 1 - i : c[k] = s[i + k - 1]
    BY <1>0
  <2> HIDE DEF c
  <2>2. c = SubSeq(s, i, Len(s))
    BY DEF c
  <2> QED BY <2>1, <2>2
<1>9. PICK a \in Seq(T) : /\ a = SubSeq(s, i, j - 1) /\ Len(a) = j - i
                          /\ \A k \in 1 .. j - i : a[k] = s[i + k - 1]
  BY <1>1
<1>10. PICK b \in Seq(T) : /\ b = SubSeq(s, j, Len(s)) /\ Len(b) = Len(s) + 1 - j
                           /\ \A k \in 1 .. Len(s) + 1 - j : b[k] = s[j + k - 1]
  BY <1>2
<1>11. PICK c \in Seq(T) : /\ c = SubSeq(s, i, Len(s)) /\ Len(c) = Len(s) + 1 - i
                           /\ \A k \in 1 .. Len(s) + 1 - i : c[k] = s[i + k - 1]
  BY <1>3
<1>12. \E d \in Seq(T) : /\ d = a \o b /\ Len(d) = Len(a) + Len(b)
                         /\ \A k \in 1 .. Len(d) : d[k] = IF k <= Len(a) THEN a[k] ELSE b[k - Len(a)]
  <2> DEFINE d == a \o b
  <2>1. /\ d \in Seq(T) /\ Len(d) = Len(a) + Len(b)
        /\ \A k \in 1 .. Len(d) : d[k] = IF k <= Len(a) THEN a[k] ELSE b[k - Len(a)]
    OBVIOUS
  <2> HIDE DEF d
  <2>2. d = a \o b
    BY DEF d
  <2> QED BY <2>1, <2>2
<1>4. PICK d \in Seq(T) : /\ d = a \o b /\ Len(d) = Len(a) + Len(b)
                          /\ \A k \in 1 .. Len(d) : d[k] = IF k <= Len(a) THEN a[k] ELSE b[k - Len(a)]
  BY <1>12
<1>5. Len(d) = Len(c)
  <2>1. i \in Int /\ j \in Int
    OBVIOUS
  <2>2. Len(d) = (j - i) + (Len(s) + 1 - j)
    BY <1>4, <1>9, <1>10
  <2> QED BY <1>0, <1>11, <2>1, <2>2
<1>6. ASSUME NEW k \in 1 .. Len(c) PROVE d[k] = c[k]
  <2>1. c[k] = s[i + k - 1]
    BY <1>11
  <2>2. CASE k <= j - i
    BY <1>0, <1>9, <1>11, <1>4, <1>5, <2>1, <2>2
  <2>3. CASE ~(k <= j - i)
    <3>1. k - (j - i) \in 1 .. Len(s) + 1 - j /\ j + (k - (j - i)) - 1 = i + k - 1
      BY <1>0, <1>11, <2>3
    <3>2. d[k] = b[k - (j - i)]
      BY <1>0, <1>9, <1>4, <1>5, <2>3
    <3> QED BY <1>10, <2>1, <3>1, <3>2
  <2> QED BY <2>2, <2>3
<1>7. d = c
  BY <1>5, <1>6
<1> QED BY <1>9, <1>10, <1>11, <1>4, <1>7

(* A sequence is a part of itself. *)
LEMMA WholeIs == ASSUME NEW T, NEW s \in Seq(T) PROVE SubSeq(s, 1, Len(s)) = s
<1>0. Len(s) \in Nat /\ 1 \in 1 .. Len(s) + 1 /\ Len(s) \in 0 .. Len(s) /\ 1 <= Len(s) + 1
  OBVIOUS
<1>1. PICK p \in Seq(T) : /\ p = SubSeq(s, 1, Len(s)) /\ Len(p) = Len(s) + 1 - 1
                          /\ \A k \in 1 .. Len(s) + 1 - 1 : p[k] = s[1 + k - 1]
  BY <1>0, PartIs
<1>2. Len(p) = Len(s) /\ \A k \in 1 .. Len(s) : p[k] = s[k]
  BY <1>0, <1>1
<1>3. p = s
  BY <1>2
<1> QED BY <1>1, <1>3

(* One more at the front. *)
LEMMA FrontIs ==
    ASSUME NEW T, NEW a \in T, NEW y \in Seq(T)
    PROVE  LET z == <<a>> \o y IN
           z \in Seq(T) /\ \A i \in 1 .. Len(y) : i + 1 \in DOMAIN z /\ z[i + 1] = y[i]
  OBVIOUS

(* A state takes a number of whole words. *)
LEMMA StateWordsIs == ASSUME Wrap32 \in Nat \ {0}, NEW n \in Nat PROVE StateWords(n) \in Nat
<1>1. (n * 4) % Wrap32 \in Nat
  OBVIOUS
<1> QED BY <1>1 DEF StateWords

(* Every word of a thread command is in one of its states. *)
LEMMA StatesCoverWords ==
    ASSUME Wrap32 \in Nat \ {0}, NEW words \in Seq(Nat),
           \A i \in DOMAIN ThreadStates(words) : ThreadStates(words)[i] # "short"
    PROVE  ThreadStates(words) \in Seq(Seq(Nat)) /\ Joined(ThreadStates(words)) = words
<1> DEFINE n == Len(words)
           D == 1 .. n + 1
           V == Seq(Seq(Nat) \cup {"short"})
           count(k) == StateWords(words[k + 1])
           Short(k) == k + 1 > n \/ k + 1 + count(k) > n
           next == [k \in D |-> IF k = n + 1 \/ Short(k) THEN k ELSE k + 2 + count(k)]
           Stop == {k \in D : k = n + 1 \/ Short(k)}
           base == [k \in D |-> IF k = n + 1 THEN <<>> ELSE <<"short">>]
           step == [p \in D \X V |-> <<SubSeq(words, p[1], next[p[1]] - 1)>> \o p[2]]
           m == [k \in D |-> n + 1 - k]
           Then(t, r) == <<t>> \o r
           Words(from, k) ==
             IF k = n + 1 THEN <<>>
             ELSE IF k + 1 > n \/ k + 1 + StateWords(words[k + 1]) > n
                  THEN <<"short">>
                  ELSE LET nx == k + 2 + StateWords(words[k + 1])
                       IN  Then(SubSeq(words, k, nx - 1), from[nx])
           Body(from) == [k \in 1 .. n + 1 |-> Words(from, k)]
<1>1. n \in Nat /\ \A i \in 1 .. n : words[i] \in Nat
  OBVIOUS
<1>2. \A k \in D : k + 1 <= n => count(k) \in Nat
  <2> SUFFICES ASSUME NEW k \in D, k + 1 <= n PROVE count(k) \in Nat
    OBVIOUS
  <2>1. k + 1 \in 1 .. n
    BY <1>1
  <2>2. words[k + 1] \in Nat
    BY <1>1, <2>1
  <2> HIDE DEF V, n
  <2> QED BY <2>2, StateWordsIs
<1>3. \A k \in D \ Stop : k + 2 + count(k) \in D /\ k < k + 2 + count(k) /\ count(k) \in Nat /\ k + 1 <= n
  <2> SUFFICES ASSUME NEW k \in D \ Stop
               PROVE  k + 2 + count(k) \in D /\ k < k + 2 + count(k) /\ count(k) \in Nat /\ k + 1 <= n
    OBVIOUS
  <2>1. k + 1 <= n /\ ~(k + 1 + count(k) > n)
    BY <1>1
  <2>2. count(k) \in Nat
    BY <1>2, <2>1
  <2> DEFINE x == count(k)
  <2> HIDE DEF x
  <2>3. k + 1 <= n /\ k + 1 + x <= n /\ x \in Nat
    <3>1. ~(k + 1 + x > n) /\ x \in Nat
      BY <2>1, <2>2 DEF x
    <3> QED BY <1>1, <2>1, <3>1
  <2>4. k + 2 + x \in 1 .. n + 1 /\ k < k + 2 + x
    BY <1>1, <2>3
  <2> QED BY <2>3, <2>4 DEF x
<1> HIDE DEF count
<1>4. next \in [D -> D] /\ \A k \in D \ Stop : next[k] = k + 2 + count(k)
  BY <1>3
<1>5. m \in [D -> 0 .. n] /\ \A k \in D \ Stop : m[next[k]] < m[k]
  <2>1. m \in [D -> 0 .. n]
    BY <1>1
  <2>2. ASSUME NEW k \in D \ Stop PROVE m[next[k]] < m[k]
    <3>1. next[k] \in D /\ k < next[k]
      BY <1>3, <1>4
    <3> HIDE DEF next, Stop
    <3> QED BY <1>1, <3>1
  <2> QED BY <2>1, <2>2
<1>6. base \in [D -> V]
  <2>1. <<>> \in V /\ <<"short">> \in V
    OBVIOUS
  <2> HIDE DEF V
  <2> QED BY <2>1
<1>7. \A j, k \in D : <<SubSeq(words, j, k - 1)>> \in V
  <2> SUFFICES ASSUME NEW j \in D, NEW k \in D PROVE <<SubSeq(words, j, k - 1)>> \in V
    OBVIOUS
  <2>1. SubSeq(words, j, k - 1) \in Seq(Nat)
    BY <1>1
  <2> QED BY <2>1
<1>8. step \in [D \X V -> V]
  <2>1. \A x, y \in V : x \o y \in V
    OBVIOUS
  <2>2. ASSUME NEW k \in D, NEW v \in V PROVE <<SubSeq(words, k, next[k] - 1)>> \o v \in V
    <3>1. next[k] \in D
      BY <1>4
    <3> HIDE DEF V, D, next
    <3> QED BY <1>7, <2>1, <3>1
  <2> HIDE DEF V, D, next
  <2> QED BY <2>2
<1>9. PICK g \in [D -> V] : Recurses(g, D, Stop, base, next, step)
  <2> HIDE DEF D, V, Stop, base, next, step, m
  <2> QED BY <1>1, <1>4, <1>5, <1>6, <1>8, RecursiveFunctionExists
<1>10. g = Body(g)
  <2>1. ASSUME NEW k \in D PROVE g[k] = Body(g)[k]
    <3>1. g[k] = IF k \in Stop THEN base[k] ELSE step[<<k, g[next[k]]>>]
      <4> HIDE DEF D, Stop, base, step, next
      <4> QED BY <1>9 DEF Recurses
    <3>2. CASE k \in Stop
      <4>1. g[k] = base[k]
        <5> HIDE DEF Stop, base
        <5> QED BY <3>1, <3>2
      <4> QED BY <3>2, <4>1 DEF count
    <3>3. CASE k \notin Stop
      <4>1. next[k] = k + 2 + count(k) /\ next[k] \in D
        BY <1>4, <3>3
      <4> HIDE DEF next
      <4>2. g[next[k]] \in V
        <5> HIDE DEF V, D
        <5> QED BY <1>9, <4>1
      <4>3. step[<<k, g[next[k]]>>] = <<SubSeq(words, k, next[k] - 1)>> \o g[next[k]]
        <5> HIDE DEF V, D
        <5> QED BY <4>2
      <4>4. g[k] = <<SubSeq(words, k, next[k] - 1)>> \o g[next[k]]
        <5> HIDE DEF step, Stop
        <5> QED BY <3>1, <3>3, <4>3
      <4>5. k # n + 1 /\ ~Short(k)
        BY <3>3
      <4> HIDE DEF V, step, Stop
      <4> QED BY <4>1, <4>4, <4>5 DEF count
    <3> QED BY <3>2, <3>3
  <2> HIDE DEF V
  <2>2. g = [k \in D |-> g[k]]
    BY <1>9
  <2>3. Body(g) = [k \in D |-> Body(g)[k]]
    OBVIOUS
  <2> HIDE DEF Body, D
  <2> QED BY <2>1, <2>2, <2>3
<1> DEFINE f == CHOOSE h : h = Body(h)
<1>11. f = Body(f)
  <2> HIDE DEF Body
  <2> QED BY <1>10
<1>12. ThreadStates(words) = f[1]
  BY DEF ThreadStates
<1> HIDE DEF f

(* Where the words are used up without one that is short. *)
<1> DEFINE Whole(s) == \A i \in DOMAIN s : s[i] # "short"
           Rest(k) == SubSeq(words, k, n)
           Good(k) == Whole(f[k]) => f[k] \in Seq(Seq(Nat)) /\ Joined(f[k]) = Rest(k)
           S == {j \in Nat : \A k \in D : n + 1 - k <= j => f[k] \in V /\ Good(k)}
<1>13. \A k \in D : f[k] = IF k = n + 1 THEN <<>>
                           ELSE IF Short(k) THEN <<"short">>
                           ELSE Then(SubSeq(words, k, (k + 2 + count(k)) - 1), f[k + 2 + count(k)])
  <2> SUFFICES ASSUME NEW k \in D
               PROVE  f[k] = IF k = n + 1 THEN <<>>
                           ELSE IF Short(k) THEN <<"short">>
                           ELSE Then(SubSeq(words, k, (k + 2 + count(k)) - 1), f[k + 2 + count(k)])
    OBVIOUS
  <2>1. f[k] = Body(f)[k]
    <3> HIDE DEF Body
    <3> QED BY <1>11
  <2>2. k \in 1 .. n + 1
    OBVIOUS
  <2> HIDE DEF D, V
  <2>3. f[k] = Words(f, k)
    <3> HIDE DEF Words
    <3> QED BY <2>1, <2>2
  <2> HIDE DEF Body, n, Then
  <2> QED BY <2>3 DEF count
<1>14. Good(n + 1) /\ f[n + 1] = <<>> /\ n + 1 \in D
  <2>1. n + 1 \in D /\ f[n + 1] = <<>>
    <3>1. n + 1 \in D
      BY <1>1
    <3> HIDE DEF D, V, Short, n
    <3> QED BY <1>13, <3>1
  <2>2. <<>> \in Seq(Seq(Nat)) /\ Rest(n + 1) = <<>>
    <3>1. Rest(n + 1) \in Seq(Nat) /\ Len(Rest(n + 1)) = 0
      BY <1>1
    <3> HIDE DEF Rest
    <3> QED BY <3>1
  <2> HIDE DEF Rest, D
  <2> QED BY <2>1, <2>2, JoinedOfNone
<1>15. 0 \in S
  <2>1. \A k \in D : n + 1 - k <= 0 => k = n + 1
    BY <1>1
  <2>2. <<>> \in V
    OBVIOUS
  <2> HIDE DEF Good, D, V
  <2> QED BY <1>14, <2>1, <2>2
<1>16. ASSUME NEW j \in Nat, j \in S PROVE j + 1 \in S
  <2> SUFFICES ASSUME NEW k \in D, n + 1 - k <= j + 1 PROVE f[k] \in V /\ Good(k)
    <3> HIDE DEF Good, D, V
    <3> QED OBVIOUS
  <2>1. CASE k = n + 1
    <3>1. <<>> \in V
      OBVIOUS
    <3> HIDE DEF Good, D, V
    <3> QED BY <1>14, <2>1, <3>1
  <2>2. CASE k # n + 1 /\ Short(k)
    <3>1. f[k] = <<"short">>
      BY <1>13, <2>2
    <3>2. <<"short">> \in V /\ 1 \in DOMAIN <<"short">> /\ <<"short">>[1] = "short"
      OBVIOUS
    <3>3. ~Whole(f[k])
      BY <3>1, <3>2
    <3> HIDE DEF V, Whole
    <3> QED BY <3>1, <3>2, <3>3
  <2>3. CASE k # n + 1 /\ ~Short(k)
    <3> DEFINE x == k + 2 + count(k)
               a == SubSeq(words, k, x - 1)
    <3>0. k \in D \ Stop
      BY <2>3
    <3>1. x \in D /\ k < x /\ x \in Nat
      <4>1. x \in D /\ k < x
        <5> HIDE DEF D, V, Stop
        <5> QED BY <1>3, <3>0
      <4> HIDE DEF x
      <4> QED BY <1>1, <4>1
    <3>2. f[k] = <<a>> \o f[x]
      <4> HIDE DEF V, D, Short, Then
      <4>1. f[k] = Then(SubSeq(words, k, (k + 2 + count(k)) - 1), f[k + 2 + count(k)])
        BY <1>13, <2>3
      <4>2. f[k] = Then(a, f[x])
        BY <4>1 DEF x
      <4> HIDE DEF x, a
      <4> QED BY <4>2 DEF Then
    <3> HIDE DEF x
    <3>3. f[x] \in V /\ Good(x)
      <4>1. n + 1 - x <= j
        BY <1>1, <3>1
      <4> HIDE DEF V, D, Good
      <4> QED BY <1>16, <3>1, <4>1
    <3>4. a \in Seq(Nat) /\ a \o Rest(x) = Rest(k)
      <4>1. k <= x /\ x - 1 \in 0 .. n /\ k <= (x - 1) + 1
        BY <1>1, <3>1
      <4>2. a \in Seq(Nat)
        BY <1>1, <4>1, PartIs
      <4>3. SubSeq(words, k, x - 1) \o SubSeq(words, x, Len(words)) = SubSeq(words, k, Len(words))
        BY <3>1, <4>1, PartsJoin
      <4> QED BY <4>2, <4>3
    <3>5. f[k] \in V
      <4>1. <<a>> \in V /\ \A y, z \in V : y \o z \in V
        <5> HIDE DEF a
        <5> QED BY <3>4
      <4> HIDE DEF V, a
      <4> QED BY <3>2, <3>3, <4>1
    <3>6. ASSUME Whole(f[k]) PROVE f[k] \in Seq(Seq(Nat)) /\ Joined(f[k]) = Rest(k)
      <4> DEFINE y == f[x]
                 z == <<a>> \o y
      <4>0. f[k] = z
        BY <3>2
      <4>1. y \in V
        BY <3>3
      <4> HIDE DEF y
      <4>2. /\ z \in Seq(Seq(Nat) \cup {"short"}) /\ \A i \in 1 .. Len(y) : i + 1 \in DOMAIN z /\ z[i + 1] = y[i]
            /\ DOMAIN y = 1 .. Len(y)
        <5>1. a \in Seq(Nat) \cup {"short"}
          BY <3>4
        <5> HIDE DEF a
        <5>2. DOMAIN y = 1 .. Len(y)
          BY <4>1
        <5> QED BY <4>1, <5>1, <5>2, FrontIs
      <4>3. Whole(y)
        <5>1. Whole(z)
          BY <3>6, <4>0
        <5> HIDE DEF z
        <5> QED BY <4>2, <5>1
      <4>4. y \in Seq(Seq(Nat)) /\ Joined(y) = Rest(x)
        <5> HIDE DEF Whole, Rest
        <5> QED BY <3>3, <4>3 DEF y
      <4>5. z \in Seq(Seq(Nat))
        BY <3>4, <4>4
      <4>6. Joined(z) = a \o Joined(y)
        <5> HIDE DEF a
        <5> QED BY <3>4, <4>4, JoinedOfMore
      <4> HIDE DEF z, Rest, a
      <4> QED BY <3>4, <4>0, <4>4, <4>5, <4>6
    <3> HIDE DEF V, Whole, Rest
    <3> QED BY <3>5, <3>6
  <2> QED BY <2>1, <2>2, <2>3
<1>17. \A j \in Nat : j \in S
  <2> HIDE DEF S
  <2> QED BY <1>15, <1>16, SetInduction
<1>18. Good(1)
  <2>1. n \in S /\ 1 \in D /\ n + 1 - 1 <= n
    BY <1>1, <1>17
  <2> HIDE DEF Good, V, D
  <2> QED BY <2>1
<1>19. Rest(1) = words
  BY WholeIs
<1>20. Whole(f[1])
  BY <1>12
<1> HIDE DEF Whole, Rest
<1> QED BY <1>12, <1>18, <1>19, <1>20
-----------------------------------------------------------------------------
(* What each kind of command is written as.                                *)
PlainStructs == StructKinds \cup DataKinds \cup SymbolKinds \cup {"PREPAGE", "CODE_SIGNATURE"}

(* Structs are written as they are. *)
LEMMA StructsAreWritten ==
    ASSUME NEW l, NEW at, l.cmd \in PlainStructs PROVE WriteLoad(l, at) = WriteStruct(l)
<1> USE DEF WriteSymtab, WriteSymSeg, WritePrepage, WriteDysymtab, WriteRoutines,
        WritePrebindCheckSum, WriteRoutines64, WriteUUID, WriteCodeSignature, WriteSplitInfo,
        WriteEncryptionInfo, WriteDyldInfo, WriteEntryPoint, WriteDataInCode, WriteSourceVersion,
        WriteEncryptionInfo64, WriteNote, WriteSepCacheSlide, WriteVersionMin, WriteLinkEditData
<1>1. CASE l.cmd \in DataKinds \cup SymbolKinds \cup {"PREPAGE", "CODE_SIGNATURE"}
  BY <1>1, SMTT(30) DEF WriteLoad, DataKinds, SymbolKinds, Dylibs, Dylinkers, LinkEdits, SepCaches, VersionMins
<1>2. CASE l.cmd \in StructKinds
  BY <1>2, SMTT(30) DEF WriteLoad, StructKinds, Dylibs, Dylinkers, LinkEdits, SepCaches, VersionMins
<1> QED BY <1>1, <1>2 DEF PlainStructs

(* A name is written behind its struct. *)
LEMMA NamesAreWritten ==
    ASSUME NEW l, NEW at, l.cmd \in NamedKinds PROVE WriteLoad(l, at) = WriteString(l, at)
  BY SMTT(30) DEF WriteLoad, NamedKinds, Dylibs, Dylinkers, LinkEdits, SepCaches, VersionMins, WriteLoadFvmlib,
         WriteFvmFile, WriteSubFramework, WriteSubUmbrella, WriteSubClient, WriteSubLibrary, WriteRpath,
         WriteDylinker, WriteFilesetEntry, WriteTargetTriple

(* The others. *)
LEMMA OthersAreWritten ==
    ASSUME NEW l, NEW at
    PROVE  /\ l.cmd \in Dylibs => WriteLoad(l, at) = WriteDylib(l)
           /\ l.cmd \in {"THREAD", "UNIXTHREAD"} => WriteLoad(l, at) = WriteThread(l)
           /\ l.cmd = "BUILD_VERSION" => WriteLoad(l, at) = WriteBuildVersion(l)
           /\ l.cmd = "SEGMENT" => WriteLoad(l, at) = WriteSegment(l, 68)
           /\ l.cmd = "SEGMENT_64" => WriteLoad(l, at) = WriteSegment(l, 80)
           /\ l.cmd \notin KnownKinds => WriteLoad(l, at) = AsWritten(l, l.num, l.tail, l.len)
<1> USE DEF Dylibs, Dylinkers, LinkEdits, SepCaches, VersionMins
<1>1. l.cmd \in Dylibs => WriteLoad(l, at) = WriteDylib(l)
  BY SMTT(30) DEF WriteLoad
<1>2. l.cmd \in {"THREAD", "UNIXTHREAD"} => WriteLoad(l, at) = WriteThread(l)
  BY DEF WriteLoad
<1>3. l.cmd = "BUILD_VERSION" => WriteLoad(l, at) = WriteBuildVersion(l)
  BY DEF WriteLoad
<1>4. l.cmd = "SEGMENT" => WriteLoad(l, at) = WriteSegment(l, 68)
  BY DEF WriteLoad
<1>5. l.cmd = "SEGMENT_64" => WriteLoad(l, at) = WriteSegment(l, 80)
  BY DEF WriteLoad
<1>6. l.cmd \notin KnownKinds => WriteLoad(l, at) = AsWritten(l, l.num, l.tail, l.len)
  BY DEF WriteLoad, KnownKinds, StructKinds, NamedKinds, DataKinds, ListKinds, SegmentKinds, SymbolKinds
<1> QED BY <1>1, <1>2, <1>3, <1>4, <1>5, <1>6

(* A load that, written in its own length, is read again as it was. *)
Returns(l) ==
    l.cmd \notin Lossy => \A at : LET d == WriteLoad(l, at) IN
                            d.bytes = l.len => d.siz = l.len /\ AddsLoad(d, l)
Rewrites(c) == \E l : AddsLoad(c, l) /\ l.len = c.siz /\ Returns(l)

(* Which is so when what is written is read by the same case, as the same. *)
LEMMA KeptIsRewritten ==
    ASSUME NEW c, NEW head, NEW ok \in BOOLEAN, NEW num, NEW tail,
           \A f : ReadCommand(f, c) = Kept(f, c, head, ok, Load(c, num, tail)),
           c.cmd \notin Lossy /\ ok =>
             \A l, at : /\ l = [cmd |-> c.cmd, len |-> c.siz, head |-> head, num |-> num, tail |-> tail]
                        /\ WriteLoad(l, at).bytes = c.siz
               => LET d == WriteLoad(l, at) IN
                  /\ d.cmd = c.cmd /\ d.siz = c.siz
                  /\ \A f : ReadCommand(f, d) = Kept(f, d, head, TRUE, Load(d, num, tail))
    PROVE  Refuses(c) \/ Rewrites(c)
<1> DEFINE l == [cmd |-> c.cmd, len |-> c.siz, head |-> head, num |-> num, tail |-> tail]
<1>1. \A d : d.cmd = c.cmd /\ d.siz = c.siz => [Load(d, num, tail) EXCEPT !.head = head] = l
  BY DEF Load
<1>2. l.cmd = c.cmd /\ l.len = c.siz
  OBVIOUS
<1>3. CASE ~(head <= c.siz /\ ok)
  BY <1>3 DEF Refuses, Kept
<1>4. CASE head <= c.siz /\ ok
  <2>0. c.cmd \notin Lossy => \A at : WriteLoad(l, at).bytes = c.siz
               => LET d == WriteLoad(l, at) IN
                  /\ d.cmd = c.cmd /\ d.siz = c.siz
                  /\ \A f : ReadCommand(f, d) = Kept(f, d, head, TRUE, Load(d, num, tail))
    BY <1>4
  <2> HIDE DEF l
  <2>1. AddsLoad(c, l)
    BY <1>1, <1>2, <1>4 DEF AddsLoad, Kept
  <2>2. ASSUME l.cmd \notin Lossy, NEW at, WriteLoad(l, at).bytes = l.len
        PROVE  WriteLoad(l, at).siz = l.len /\ AddsLoad(WriteLoad(l, at), l)
    <3> DEFINE d == WriteLoad(l, at)
    <3>1. /\ d.cmd = c.cmd /\ d.siz = c.siz
          /\ \A f : ReadCommand(f, d) = Kept(f, d, head, TRUE, Load(d, num, tail))
      BY <1>2, <2>0, <2>2
    <3> HIDE DEF d
    <3>2. AddsLoad(d, l)
      BY <1>1, <1>2, <1>4, <3>1 DEF AddsLoad, Kept
    <3> QED BY <1>2, <3>1, <3>2 DEF d
  <2>3. Returns(l)
    BY <2>2 DEF Returns
  <2> QED BY <1>2, <2>1, <2>3 DEF Rewrites
<1> QED BY <1>3, <1>4

(* What a struct is read and written as. *)
LEMMA StructIsRewritten ==
    ASSUME NEW c, NEW head, NEW ok \in BOOLEAN, NEW num, c.cmd \in PlainStructs,
           \A f : ReadCommand(f, c) = Kept(f, c, head, ok, Load(c, num, <<>>)),
           \A d : d.cmd = c.cmd /\ d.num = num /\ ok
                  => \A f : ReadCommand(f, d) = Kept(f, d, head, TRUE, Load(d, num, <<>>))
    PROVE  Refuses(c) \/ Rewrites(c)
<1>1. ASSUME ok, NEW l, NEW at,
             l = [cmd |-> c.cmd, len |-> c.siz, head |-> head, num |-> num, tail |-> <<>>]
      PROVE  LET d == WriteLoad(l, at) IN
             /\ d.cmd = c.cmd /\ d.siz = c.siz
             /\ \A f : ReadCommand(f, d) = Kept(f, d, head, TRUE, Load(d, num, <<>>))
  <2>1. l.cmd = c.cmd /\ l.len = c.siz /\ l.num = num
    BY <1>1
  <2> DEFINE d == WriteLoad(l, at)
  <2>2. d = WriteStruct(l)
    BY <2>1, StructsAreWritten
  <2>3. d.cmd = c.cmd /\ d.siz = c.siz /\ d.num = num
    BY <2>1, <2>2 DEF WriteStruct, AsWritten
  <2> HIDE DEF d
  <2>4. \A f : ReadCommand(f, d) = Kept(f, d, head, TRUE, Load(d, num, <<>>))
    BY <1>1, <2>3
  <2> QED BY <2>3, <2>4 DEF d
<1> QED BY <1>1, KeptIsRewritten

(* Structs whose case looks at nothing else. *)
LEMMA StructsAreRewritten ==
    ASSUME NEW c, c.cmd \in StructKinds PROVE Refuses(c) \/ Rewrites(c)
<1> DEFINE k == c.cmd
<1>1. PICK head \in Nat : \A f, d : d.cmd = k => ReadCommand(f, d) = Struct(f, d, head)
  BY StructAre
<1>2. \A d : d.cmd = k => \A f : ReadCommand(f, d) = Kept(f, d, head, TRUE, Load(d, d.num, <<>>))
  BY <1>1 DEF Struct
<1> DEFINE num == c.num
<1>3. \A f : ReadCommand(f, c) = Kept(f, c, head, TRUE, Load(c, num, <<>>))
  BY <1>2
<1> HIDE DEF num
<1>4. \A d : d.cmd = c.cmd /\ d.num = num /\ TRUE
             => \A f : ReadCommand(f, d) = Kept(f, d, head, TRUE, Load(d, num, <<>>))
  BY <1>2
<1>5. c.cmd \in PlainStructs
  BY DEF PlainStructs
<1> QED BY <1>3, <1>4, <1>5, StructIsRewritten

(* LC_PREPAGE, whose data is not kept. *)
LEMMA PrepageIsRewritten ==
    ASSUME NEW c, c.cmd = "PREPAGE" PROVE Refuses(c) \/ Rewrites(c)
<1> DEFINE num == [val |-> 0]
<1>1. \A d : d.cmd = "PREPAGE" => \A f : ReadCommand(f, d) = Kept(f, d, PrePageCmd, TRUE, Load(d, num, <<>>))
  BY DEF ReadCommand, LC_PREPAGE
<1> HIDE DEF num
<1>2. \A f : ReadCommand(f, c) = Kept(f, c, PrePageCmd, TRUE, Load(c, num, <<>>))
  BY <1>1
<1>3. c.cmd \in PlainStructs
  BY DEF PlainStructs
<1> QED BY <1>1, <1>2, <1>3, StructIsRewritten

(* Commands that point at data, which stays where it is. *)
LEMMA DataIsRewritten ==
    ASSUME NEW c, c.cmd \in DataKinds \cup {"CODE_SIGNATURE"} PROVE Refuses(c) \/ Rewrites(c)
<1> DEFINE k == c.cmd
           Valid(n) == IF k = "CODE_SIGNATURE" THEN HasBytes(n.off, n.size) /\ n.valid
                       ELSE HasBytes(n.off, n.size) /\ TRUE
<1>1. \E head : \A f, d : d.cmd = k
         => ReadCommand(f, d) = Kept(f, d, head, Valid(d.num), Load(d, d.num, <<>>))
  <2>1. CASE k = "SEGMENT_SPLIT_INFO"
    BY <2>1, SMTT(30) DEF ReadCommand, LC_SEGMENT_SPLIT_INFO, PointsAtData
  <2>2. CASE k = "DATA_IN_CODE"
    BY <2>2, SMTT(30) DEF ReadCommand, LC_DATA_IN_CODE, PointsAtData
  <2>3. CASE k = "NOTE"
    BY <2>3, SMTT(30) DEF ReadCommand, LC_NOTE, PointsAtData
  <2>4. CASE k = "CODE_SIGNATURE"
    BY <2>4 DEF ReadCommand, LC_CODE_SIGNATURE, PointsAtData
  <2> QED BY <2>1, <2>2, <2>3, <2>4 DEF DataKinds
<1>2. PICK head : \A f, d : d.cmd = k
         => ReadCommand(f, d) = Kept(f, d, head, Valid(d.num), Load(d, d.num, <<>>))
  BY <1>1
<1> DEFINE num == c.num
           ok == Valid(num)
<1>3. ok \in BOOLEAN
  BY DEF HasBytes
<1> HIDE DEF Valid
<1>4. \A f : ReadCommand(f, c) = Kept(f, c, head, ok, Load(c, num, <<>>))
  BY <1>2
<1> HIDE DEF num
<1>5. ASSUME NEW d, d.cmd = c.cmd, d.num = num, ok, NEW f
      PROVE  ReadCommand(f, d) = Kept(f, d, head, TRUE, Load(d, num, <<>>))
  <2>1. ReadCommand(f, d) = Kept(f, d, head, Valid(d.num), Load(d, d.num, <<>>))
    BY <1>2, <1>5
  <2>2. Kept(f, d, head, ok, Load(d, num, <<>>)) = Kept(f, d, head, TRUE, Load(d, num, <<>>))
    BY <1>5 DEF Kept
  <2> QED BY <1>5, <2>1, <2>2
<1>6. c.cmd \in PlainStructs
  BY DEF PlainStructs
<1> HIDE DEF ok
<1> QED BY <1>3, <1>4, <1>5, <1>6, StructIsRewritten

(* Strings, when they are where linkers put them. *)
LEMMA NamesAreRewritten ==
    ASSUME NEW c, c.cmd \in NamedKinds, AsLinkersWrite(c) PROVE Refuses(c) \/ Rewrites(c)
<1> DEFINE k == c.cmd
           num == c.num
           ok == num.off < c.siz
           t == UpToNul(c.tail)
<1>1. \E head \in Nat : head = StringStart[k] /\ \A f, d : d.cmd = k => ReadCommand(f, d) = Named(f, d, head)
  BY NamedStart
<1>2. PICK head \in Nat : head = StringStart[k] /\ \A f, d : d.cmd = k => ReadCommand(f, d) = Named(f, d, head)
  BY <1>1
<1>3. num.off = head /\ c.siz \in Nat /\ IsAList(c.tail)
  BY <1>2 DEF AsLinkersWrite, StringStart, NamedKinds
<1>4. \A d : IsAList(d.tail) => cstring(d, head, head) = UpToNul(d.tail)
  <2> SUFFICES ASSUME NEW d, IsAList(d.tail) PROVE cstring(d, head, head) = UpToNul(d.tail)
    OBVIOUS
  <2>1. PICK S : d.tail \in Seq(S)
    BY ListIsSeq
  <2>2. SubSeq(d.tail, 1, Len(d.tail)) = d.tail
    BY <2>1, WholeIs
  <2>3. ~(head < head) /\ head - head + 1 = 1
    OBVIOUS
  <2> QED BY <2>2, <2>3 DEF cstring
<1>5. \A f, d : d.cmd = k /\ d.num = num /\ IsAList(d.tail)
        => ReadCommand(f, d) = Kept(f, d, head, num.off < d.siz, Load(d, num, UpToNul(d.tail)))
  <2> HIDE DEF num
  <2> QED BY <1>2, <1>3, <1>4 DEF Named
<1>6. \A f : ReadCommand(f, c) = Kept(f, c, head, ok, Load(c, num, t))
  BY <1>3, <1>5
<1>7. ok \in BOOLEAN
  OBVIOUS
<1>8. ASSUME ok, NEW l, NEW at, WriteLoad(l, at).bytes = c.siz,
             l = [cmd |-> c.cmd, len |-> c.siz, head |-> head, num |-> num, tail |-> t]
      PROVE  LET d == WriteLoad(l, at) IN
             /\ d.cmd = c.cmd /\ d.siz = c.siz
             /\ \A f : ReadCommand(f, d) = Kept(f, d, head, TRUE, Load(d, num, t))
  <2>1. l.cmd = c.cmd /\ l.len = c.siz /\ l.num = num /\ l.tail = t /\ l.head = head
    BY <1>8
  <2> DEFINE d == WriteLoad(l, at)
             n == Pad(at + l.head + Len(l.tail) + 1, 8) - at
             z == Padded(Append(l.tail, 0), l.head, n)
  <2>2. d = AsWritten(l, l.num, z, n)
    BY <2>1, NamesAreWritten DEF WriteString
  <2> HIDE DEF n, z
  <2>3. d.cmd = c.cmd /\ d.siz = c.siz /\ d.num = num /\ d.tail = z /\ n = c.siz
    BY <1>8, <2>1, <2>2 DEF AsWritten
  <2>4. UpToNul(z) = t /\ IsAList(z)
    <3> HIDE DEF d
    <3>1. z = Padded(Append(UpToNul(c.tail), 0), head, c.siz)
      BY <2>1, <2>3 DEF z
    <3> QED BY <1>3, <3>1, NameSurvives
  <2> HIDE DEF d, t, num
  <2>5. ASSUME NEW f PROVE ReadCommand(f, d) = Kept(f, d, head, TRUE, Load(d, num, t))
    <3>1. ReadCommand(f, d) = Kept(f, d, head, num.off < d.siz, Load(d, num, t))
      BY <1>5, <2>3, <2>4
    <3>2. num.off < d.siz
      BY <1>8, <2>3
    <3> QED BY <3>1, <3>2 DEF Kept
  <2> QED BY <2>3, <2>5 DEF d
<1> HIDE DEF ok, t, num
<1> QED BY <1>6, <1>7, <1>8, KeptIsRewritten

(* What is left of a list without its first. *)
LEMMA RestIsList ==
    ASSUME NEW s, IsAList(s), NEW i \in {1, 2}
    PROVE  IsAList(SubSeq(s, i, Len(s)))
<1>1. PICK S : s \in Seq(S)
  BY ListIsSeq
<1>2. SubSeq(s, i, Len(s)) \in Seq(S)
  <2>1. CASE i <= Len(s) + 1
    <3>1. i \in 1 .. Len(s) + 1 /\ Len(s) \in 0 .. Len(s)
      BY <1>1, <2>1
    <3> QED BY <1>1, <2>1, <3>1, PartIs
  <2>2. CASE ~(i <= Len(s) + 1)
    BY <1>1, <2>2
  <2> QED BY <2>1, <2>2
<1> QED BY <1>2, SeqIsList

(* What is behind the first element. *)
LEMMA BehindTheFirst ==
    ASSUME NEW S, NEW r \in Seq(S), NEW x
    PROVE  LET s == <<x>> \o r IN SubSeq(s, 2, Len(s)) = r /\ s[1] = x
<1> DEFINE T == S \cup {x}
           s == <<x>> \o r
           p == SubSeq(s, 2, Len(s))
<1>1. r \in Seq(T) /\ x \in T
  OBVIOUS
<1> HIDE DEF T
<1>2. /\ s \in Seq(T) /\ Len(s) = Len(r) + 1 /\ Len(r) \in Nat /\ s[1] = x
      /\ \A i \in 1 .. Len(r) : s[i + 1] = r[i]
  BY <1>1
<1> HIDE DEF s
<1>3. 2 \in 1 .. Len(s) + 1 /\ Len(s) \in 0 .. Len(s) /\ 2 <= Len(s) + 1
  BY <1>2
<1>4. p \in Seq(T) /\ Len(p) = Len(s) + 1 - 2 /\ \A k \in 1 .. Len(s) + 1 - 2 : p[k] = s[2 + k - 1]
  BY <1>2, <1>3, PartIs
<1> HIDE DEF p
<1>5. Len(p) = Len(r) /\ \A k \in 1 .. Len(r) : p[k] = r[k]
  <2>1. Len(s) + 1 - 2 = Len(r)
    BY <1>2
  <2>2. ASSUME NEW k \in 1 .. Len(r) PROVE p[k] = r[k]
    <3>1. 2 + k - 1 = k + 1
      BY <1>2
    <3> QED BY <1>2, <1>4, <2>1, <3>1
  <2> QED BY <1>4, <2>1, <2>2
<1>6. p = r
  BY <1>1, <1>4, <1>5
<1> QED BY <1>2, <1>6 DEF p, s

(* The flags of a dylib_use_command are set once. *)
LEMMA FlagsAreSet ==
    ASSUME NEW num, {"off", "marker", "flags"} \subseteq DOMAIN num, NEW x
    PROVE  LET n == [num EXCEPT !.flags = x] IN
           /\ n.off = num.off /\ n.marker = num.marker /\ n.flags = x
           /\ [n EXCEPT !.flags = x] = n
  OBVIOUS

(* Dylibs. *)
LEMMA DylibsAreRewritten ==
    ASSUME NEW c, c.cmd \in Dylibs, AsLinkersWrite(c) PROVE Refuses(c) \/ Rewrites(c)
<1> DEFINE k == c.cmd
           Num(d) == IF k \in {"ID_DYLIB", "LAZY_LOAD_DYLIB"} THEN d.num ELSE setDylibUseFlags(d, d.num)
           num == Num(c)
           ok == c.num.off < c.siz
           t == DylibName(c)
           use == IsDylibUseCmd(c.num)
<1>1. \A f, d : d.cmd = k => ReadCommand(f, d)
                   = Kept(f, d, DylibCmd, d.num.off < d.siz, Load(d, Num(d), DylibName(d)))
  <2>1. CASE k \in {"ID_DYLIB", "LAZY_LOAD_DYLIB"}
    BY <2>1 DEF ReadCommand, LC_ID_DYLIB, LC_LAZY_LOAD_DYLIB
  <2>2. CASE k \notin {"ID_DYLIB", "LAZY_LOAD_DYLIB"}
    BY <2>2 DEF ReadCommand, LC_LOAD_DYLIB, LC_LOAD_WEAK_DYLIB, LC_REEXPORT_DYLIB, LC_LOAD_UPWARD_DYLIB,
                Dylibs
  <2> QED BY <2>1, <2>2
<1>2. /\ c.siz \in Nat /\ IsAList(c.tail)
      /\ {"off", "marker", "flags"} \subseteq DOMAIN c.num
      /\ c.num.off = DylibCmd \/ use
  BY DEF AsLinkersWrite
<1>3. /\ num.off = c.num.off /\ num.marker = c.num.marker /\ IsDylibUseCmd(num) = use
  BY <1>2, FlagsAreSet DEF setDylibUseFlags, IsDylibUseCmd
<1>4. \A d : d.num = num /\ (use => d.tail[1] = num.flags) => Num(d) = num
  <2> SUFFICES ASSUME NEW d, d.num = num, use => d.tail[1] = num.flags PROVE Num(d) = num
    OBVIOUS
  <2>1. CASE k \in {"ID_DYLIB", "LAZY_LOAD_DYLIB"}
    BY <2>1
  <2>2. CASE k \notin {"ID_DYLIB", "LAZY_LOAD_DYLIB"} /\ ~use
    BY <1>3, <2>2 DEF setDylibUseFlags
  <2>3. CASE k \notin {"ID_DYLIB", "LAZY_LOAD_DYLIB"} /\ use
    <3>1. num = [c.num EXCEPT !.flags = c.tail[1]]
      BY <2>3 DEF setDylibUseFlags
    <3>2. num.flags = c.tail[1]
      BY <1>2, <3>1, FlagsAreSet
    <3>3. [num EXCEPT !.flags = c.tail[1]] = num
      BY <1>2, <3>1, FlagsAreSet
    <3>4. Num(d) = [d.num EXCEPT !.flags = d.tail[1]]
      BY <1>3, <2>3 DEF setDylibUseFlags
    <3> HIDE DEF num, Num, use
    <3> QED BY <2>3, <3>2, <3>3, <3>4
  <2> QED BY <2>1, <2>2, <2>3
<1>5. ok \in BOOLEAN
  OBVIOUS
<1>6. \A f : ReadCommand(f, c) = Kept(f, c, DylibCmd, ok, Load(c, num, t))
  <2> HIDE DEF Num
  <2> QED BY <1>1
<1>7. \E s : IsAList(s) /\ t = UpToNul(s)
  <2> DEFINE i == IF c.num.off = DylibUseCmd THEN 2 ELSE 1
             s == SubSeq(c.tail, i, Len(c.tail))
  <2>1. i \in {1, 2}
    OBVIOUS
  <2> HIDE DEF i
  <2>2. IsAList(s)
    BY <1>2, <2>1, RestIsList
  <2>3. t = UpToNul(s)
    BY DEF DylibName, i
  <2> HIDE DEF s, t
  <2> QED BY <2>2, <2>3
<1>8. PICK s : IsAList(s) /\ t = UpToNul(s)
  BY <1>7
<1>9. ASSUME ok, NEW l, NEW at, WriteLoad(l, at).bytes = c.siz,
             l = [cmd |-> c.cmd, len |-> c.siz, head |-> DylibCmd, num |-> num, tail |-> t]
      PROVE  LET d == WriteLoad(l, at) IN
             /\ d.cmd = c.cmd /\ d.siz = c.siz
             /\ \A f : ReadCommand(f, d) = Kept(f, d, DylibCmd, TRUE, Load(d, num, t))
  <2>1. l.cmd = c.cmd /\ l.len = c.siz /\ l.num = num /\ l.tail = t /\ l.head = DylibCmd
    BY <1>9
  <2> DEFINE d == WriteLoad(l, at)
             head == IF use THEN DylibUseCmd ELSE DylibCmd
             rest == Padded(Append(t, 0), head, c.siz)
             tail == IF use THEN <<num.flags>> \o rest ELSE rest
  <2>2. d = AsWritten(l, num, tail, head + Len(rest))
    <3>1. d = WriteDylib(l)
      BY <2>1, OthersAreWritten
    <3> HIDE DEF num, t, use
    <3> QED BY <1>3, <2>1, <3>1 DEF WriteDylib
  <2>3. d.cmd = c.cmd /\ d.siz = c.siz /\ d.num = num /\ d.tail = tail
    <3> HIDE DEF num, t, use, d, head, tail
    <3> QED BY <2>1, <2>2 DEF AsWritten
  <2>4. UpToNul(rest) = t /\ IsAList(rest)
    <3>1. head \in Nat
      BY DEF DylibUseCmd, DylibCmd
    <3> HIDE DEF head, t
    <3> QED BY <1>2, <1>8, <3>1, NameSurvives
  <2> HIDE DEF d, t
  <2>5. PICK S : rest \in Seq(S)
    BY <2>4, ListIsSeq
  <2>6. DylibName(d) = t /\ (use => d.tail[1] = num.flags)
    <3>1. d.num.off = c.num.off
      BY <1>3, <2>3
    <3>2. CASE ~use
      <4>1. c.num.off = DylibCmd
        BY <1>2, <3>2
      <4>2. d.num.off # DylibUseCmd
        BY <3>1, <4>1 DEF DylibCmd, DylibUseCmd
      <4>3. d.tail = rest
        BY <2>3, <3>2
      <4>4. SubSeq(rest, 1, Len(rest)) = rest
        <5> HIDE DEF rest
        <5> QED BY <2>5, WholeIs
      <4> HIDE DEF rest, use
      <4> QED BY <2>4, <3>2, <4>2, <4>3, <4>4 DEF DylibName
    <3>3. CASE use
      <4>1. d.num.off = DylibUseCmd
        BY <3>1, <3>3 DEF IsDylibUseCmd
      <4>2. d.tail = <<num.flags>> \o rest
        BY <2>3, <3>3
      <4> HIDE DEF rest, use, num, tail
      <4>3. SubSeq(d.tail, 2, Len(d.tail)) = rest /\ d.tail[1] = num.flags
        BY <2>5, <4>2, BehindTheFirst
      <4> QED BY <2>4, <4>1, <4>3 DEF DylibName
    <3> QED BY <3>2, <3>3
  <2>7. Num(d) = num
    BY <1>4, <2>3, <2>6
  <2>8. d.num.off < d.siz
    BY <1>3, <1>9, <2>3
  <2> HIDE DEF num, Num, ok, use, tail, rest, head
  <2>9. \A f : ReadCommand(f, d) = Kept(f, d, DylibCmd, TRUE, Load(d, num, t))
    <3>1. \A f : ReadCommand(f, d) = Kept(f, d, DylibCmd, d.num.off < d.siz, Load(d, num, t))
      BY <1>1, <2>3, <2>6, <2>7
    <3> QED BY <2>8, <3>1 DEF Kept
  <2> QED BY <2>3, <2>9 DEF d
<1> HIDE DEF num, Num, ok, t, use
<1> QED BY <1>5, <1>6, <1>9, KeptIsRewritten

(* Thread states come back as the words they were read from. *)
LEMMA ThreadsAreRewritten ==
    ASSUME NEW c, c.cmd \in {"THREAD", "UNIXTHREAD"}, AsLinkersWrite(c), Wrap32 \in Nat \ {0}
    PROVE  Refuses(c) \/ Rewrites(c)
<1> DEFINE num == c.num
           t == ThreadStates(c.tail)
           Whole(s) == \A i \in DOMAIN s : s[i] # "short"
           ok == (c.siz - ThreadCmd) % 4 = 0 /\ Whole(t)
<1>1. \A f, d : d.cmd = c.cmd => ReadCommand(f, d)
          = Kept(f, d, ThreadCmd, (d.siz - ThreadCmd) % 4 = 0 /\ Whole(ThreadStates(d.tail)),
                 Load(d, d.num, ThreadStates(d.tail)))
  BY DEF ReadCommand, LC_THREAD, LC_UNIXTHREAD
<1>2. c.tail \in Seq(Nat)
  <2>1. /\ Len(c.tail) \in Nat /\ c.tail = [i \in 1 .. Len(c.tail) |-> c.tail[i]]
        /\ \A i \in 1 .. Len(c.tail) : c.tail[i] \in Nat
    BY DEF AsLinkersWrite, IsAList
  <2> DEFINE n == Len(c.tail)
             s == [i \in 1 .. n |-> c.tail[i]]
  <2>2. s \in Seq(Nat)
    <3> HIDE DEF n
    <3>1. n \in Nat /\ \A i \in 1 .. n : c.tail[i] \in Nat
      BY <2>1 DEF n
    <3> QED BY <3>1
  <2>3. c.tail = s
    BY <2>1
  <2> HIDE DEF s
  <2> QED BY <2>2, <2>3
<1>3. ok \in BOOLEAN
  OBVIOUS
<1>4. \A f : ReadCommand(f, c) = Kept(f, c, ThreadCmd, ok, Load(c, num, t))
  <2> HIDE DEF Whole
  <2> QED BY <1>1
<1>5. ASSUME ok, NEW l, NEW at,
             l = [cmd |-> c.cmd, len |-> c.siz, head |-> ThreadCmd, num |-> num, tail |-> t]
      PROVE  LET d == WriteLoad(l, at) IN
             /\ d.cmd = c.cmd /\ d.siz = c.siz
             /\ \A f : ReadCommand(f, d) = Kept(f, d, ThreadCmd, TRUE, Load(d, num, t))
  <2>1. l.cmd = c.cmd /\ l.len = c.siz /\ l.num = num /\ l.tail = t
    BY <1>5
  <2> DEFINE d == WriteLoad(l, at)
  <2>2. d = WriteThread(l)
    BY <2>1, OthersAreWritten
  <2>3. Joined(t) = c.tail
    BY <1>2, <1>5, StatesCoverWords
  <2> HIDE DEF t
  <2>4. d.cmd = c.cmd /\ d.siz = c.siz /\ d.num = num /\ d.tail = c.tail
    BY <2>1, <2>2, <2>3 DEF WriteThread, AsWritten
  <2> HIDE DEF d, num, Whole
  <2>5. (d.siz - ThreadCmd) % 4 = 0 /\ Whole(ThreadStates(d.tail)) /\ ThreadStates(d.tail) = t
    BY <1>5, <2>4 DEF t
  <2>6. \A f : ReadCommand(f, d) = Kept(f, d, ThreadCmd, TRUE, Load(d, num, t))
    BY <1>1, <2>4, <2>5 DEF Kept
  <2> QED BY <2>4, <2>6 DEF d
<1> HIDE DEF num, t, ok
<1> QED BY <1>3, <1>4, <1>5, KeptIsRewritten

(* The first n of a list, once more. *)
LEMMA FirstOfFirst ==
    ASSUME NEW s, IsAList(s), NEW n \in Nat, n <= Len(s)
    PROVE  LET p == SubSeq(s, 1, n) IN
           /\ IsAList(p) /\ Len(p) = n /\ SubSeq(p, 1, n) = p
           /\ \A i \in 1 .. n : p[i] = s[i]
<1> DEFINE p == SubSeq(s, 1, n)
<1>1. PICK S : s \in Seq(S)
  BY ListIsSeq
<1>2. 1 \in 1 .. Len(s) + 1 /\ n \in 0 .. Len(s) /\ 1 <= n + 1 /\ n + 1 - 1 = n
  BY <1>1
<1>3. p \in Seq(S) /\ Len(p) = n + 1 - 1 /\ \A k \in 1 .. n + 1 - 1 : p[k] = s[1 + k - 1]
  BY <1>1, <1>2, PartIs
<1> HIDE DEF p
<1>4. Len(p) = n /\ \A k \in 1 .. n : p[k] = s[k]
  BY <1>2, <1>3
<1>5. SubSeq(p, 1, n) = p
  BY <1>3, <1>4, WholeIs
<1> QED BY <1>3, <1>4, <1>5, SeqIsList DEF p

(* Tools and their versions. *)
LEMMA BuildVersionsAreRewritten ==
    ASSUME NEW c, c.cmd = "BUILD_VERSION", AsLinkersWrite(c) PROVE Refuses(c) \/ Rewrites(c)
<1> DEFINE num == c.num
           n == c.num.count
           t == SubSeq(c.tail, 1, n)
           ok == n * 8 <= c.siz - BuildVersionCmd
<1>1. \A f, d : d.cmd = c.cmd => ReadCommand(f, d)
          = Kept(f, d, BuildVersionCmd, d.num.count * 8 <= d.siz - BuildVersionCmd,
                 Load(d, d.num, SubSeq(d.tail, 1, d.num.count)))
  BY DEF ReadCommand, LC_BUILD_VERSION
<1>2. ok \in BOOLEAN
  OBVIOUS
<1>3. \A f : ReadCommand(f, c) = Kept(f, c, BuildVersionCmd, ok, Load(c, num, t))
  BY <1>1
<1>4. ASSUME ok, NEW l, NEW at,
             l = [cmd |-> c.cmd, len |-> c.siz, head |-> BuildVersionCmd, num |-> num, tail |-> t]
      PROVE  LET d == WriteLoad(l, at) IN
             /\ d.cmd = c.cmd /\ d.siz = c.siz
             /\ \A f : ReadCommand(f, d) = Kept(f, d, BuildVersionCmd, TRUE, Load(d, num, t))
  <2>1. l.cmd = c.cmd /\ l.len = c.siz /\ l.num = num /\ l.tail = t
    BY <1>4
  <2> DEFINE d == WriteLoad(l, at)
  <2>2. d = WriteBuildVersion(l)
    BY <2>1, OthersAreWritten
  <2> HIDE DEF d
  <2>3. d.cmd = c.cmd /\ d.siz = c.siz /\ d.num = num /\ d.tail = t
    <3> HIDE DEF t, num
    <3> QED BY <2>1, <2>2 DEF WriteBuildVersion, AsWritten
  <2>4. n \in Nat /\ n <= Len(c.tail) /\ IsAList(c.tail) /\ c.siz \in Nat
    <3>1. HasEntries(c, BuildVersionCmd, 8, n) /\ c.siz \in Nat /\ IsAList(c.tail)
      BY DEF AsLinkersWrite
    <3> HIDE DEF n
    <3>2. n \in Nat /\ (BuildVersionCmd + n * 8 <= c.siz => n <= Len(c.tail))
      BY <3>1 DEF HasEntries
    <3>3. BuildVersionCmd + n * 8 <= c.siz
      BY <1>4, <3>1, <3>2 DEF BuildVersionCmd
    <3> QED BY <3>1, <3>2, <3>3
  <2>5. SubSeq(t, 1, n) = t
    <3> HIDE DEF n
    <3> QED BY <2>4, FirstOfFirst
  <2>6. d.num.count = n
    BY <2>3
  <2>7. SubSeq(d.tail, 1, d.num.count) = t /\ d.num.count * 8 <= d.siz - BuildVersionCmd
    <3> HIDE DEF n, t, num
    <3> QED BY <1>4, <2>3, <2>5, <2>6
  <2> HIDE DEF num, n, t, ok
  <2>8. \A f : ReadCommand(f, d) = Kept(f, d, BuildVersionCmd, TRUE, Load(d, num, t))
    BY <1>1, <2>3, <2>7 DEF Kept
  <2> QED BY <2>3, <2>8 DEF d
<1> HIDE DEF num, t, ok
<1> QED BY <1>2, <1>3, <1>4, KeptIsRewritten

(* What nobody knows is kept as it is. *)
LEMMA UnknownsAreRewritten ==
    ASSUME NEW c, c.cmd \notin KnownKinds PROVE Rewrites(c)
<1> DEFINE l == Load(c, c.num, c.tail)
<1>1. l.cmd = c.cmd /\ l.len = c.siz
  BY DEF Load
<1>2. AddsLoad(c, l)
  <2>1. \A f : ReadCommand(f, c) = Appended(f, l)
    BY UnknownIsPlain
  <2> HIDE DEF l
  <2> QED BY <1>1, <2>1 DEF AddsLoad
<1>3. ASSUME NEW at PROVE WriteLoad(l, at).siz = l.len /\ AddsLoad(WriteLoad(l, at), l)
  <2> DEFINE d == WriteLoad(l, at)
  <2>1. d = AsWritten(l, l.num, l.tail, l.len)
    BY <1>1, OthersAreWritten
  <2> HIDE DEF d
  <2>2. d.cmd = c.cmd /\ d.siz = c.siz /\ d.num = c.num /\ d.tail = c.tail
    BY <2>1 DEF AsWritten, Load
  <2>3. Load(d, d.num, d.tail) = l
    BY <2>2 DEF Load
  <2>4. \A f : ReadCommand(f, d) = Appended(f, l)
    BY <2>2, <2>3, UnknownIsPlain
  <2> HIDE DEF l
  <2>5. AddsLoad(d, l)
    BY <1>1, <2>2, <2>4 DEF AddsLoad
  <2> QED BY <1>1, <2>2, <2>5 DEF d
<1> HIDE DEF l
<1>4. Returns(l)
  BY <1>3 DEF Returns
<1> QED BY <1>1, <1>2, <1>4 DEF Rewrites

(* Every command whose case looks at nothing else. *)
LEMMA MostAreRewritten ==
    ASSUME NEW c, AsLinkersWrite(c), c.cmd \notin SegmentKinds \cup SymbolKinds, Wrap32 \in Nat \ {0}
    PROVE  Refuses(c) \/ Rewrites(c)
<1>1. CASE c.cmd \in Lossy
  <2>1. \E head, num, tail : \E ok \in BOOLEAN :
          \A f : ReadCommand(f, c) = Kept(f, c, head, ok, Load(c, num, tail))
    BY <1>1, ListIsKept DEF Lossy, ListKinds
  <2>4. PICK head, num, tail : \E ok \in BOOLEAN :
          \A f : ReadCommand(f, c) = Kept(f, c, head, ok, Load(c, num, tail))
    BY <2>1
  <2>2. PICK ok \in BOOLEAN : \A f : ReadCommand(f, c) = Kept(f, c, head, ok, Load(c, num, tail))
    BY <2>4
  <2>3. ~(c.cmd \notin Lossy /\ ok)
    BY <1>1
  <2> QED BY <2>2, <2>3, KeptIsRewritten
<1>2. CASE c.cmd \in ListKinds \ Lossy
  <2>1. c.cmd \in {"PREPAGE", "THREAD", "UNIXTHREAD", "BUILD_VERSION", "CODE_SIGNATURE"}
    BY <1>2 DEF ListKinds, Lossy
  <2> QED BY <2>1, PrepageIsRewritten, ThreadsAreRewritten, BuildVersionsAreRewritten, DataIsRewritten
<1>3. CASE c.cmd \notin ListKinds
  BY <1>3, StructsAreRewritten, NamesAreRewritten, DataIsRewritten, DylibsAreRewritten,
     UnknownsAreRewritten DEF KnownKinds
<1> QED BY <1>1, <1>2, <1>3
-----------------------------------------------------------------------------
(* A command that adds a load to f, and whose load, written in its own     *)
(* length, is read in its place as the same.                               *)
ReadsBack(c, f) ==
    LET r == ReadCommand(f, c) IN
    \E l : /\ l.cmd = c.cmd /\ l.len = c.siz
           /\ IsFile(r) /\ r.err = f.err /\ r.Loads = Append(f.Loads, l)
           /\ l.cmd \notin Lossy => \A at : WriteLoad(l, at).bytes = l.len
                => WriteLoad(l, at).siz = c.siz /\ ReadCommand(f, WriteLoad(l, at)) = r

(* Commands that look at nothing else. *)
LEMMA PlainReadsBack ==
    ASSUME NEW c, Rewrites(c), NEW f, IsFile(f) PROVE ReadsBack(c, f)
<1>1. PICK l : AddsLoad(c, l) /\ l.len = c.siz /\ Returns(l)
  BY DEF Rewrites
<1> DEFINE r == ReadCommand(f, c)
<1>2. r = Appended(f, l) /\ l.cmd = c.cmd
  BY <1>1 DEF AddsLoad
<1> HIDE DEF r
<1>3. IsFile(r) /\ r.err = f.err /\ r.Loads = Append(f.Loads, l)
  BY <1>2, AppendedIs
<1>4. ASSUME l.cmd \notin Lossy, NEW at, WriteLoad(l, at).bytes = l.len
      PROVE  WriteLoad(l, at).siz = c.siz /\ ReadCommand(f, WriteLoad(l, at)) = r
  BY <1>1, <1>2, <1>4 DEF Returns, AddsLoad
<1> QED BY <1>1, <1>2, <1>3, <1>4 DEF ReadsBack, r

(* The index of a segment's first section is counted once more. *)
LEMMA FirstSectionIsSet ==
    ASSUME NEW num, NEW x, {"nsect", "offset", "filesz"} \subseteq DOMAIN num
    PROVE  LET n == Indexed(num, x) IN
           /\ n.nsect = num.nsect /\ n.offset = num.offset /\ n.filesz = num.filesz
           /\ Indexed(n, x) = n
<1> DEFINE n == Indexed(num, x)
           m == Indexed(n, x)
<1>1. /\ n = [y \in DOMAIN num \cup {"firstsect"} |-> IF y = "firstsect" THEN x ELSE num[y]]
      /\ m = [y \in DOMAIN n \cup {"firstsect"} |-> IF y = "firstsect" THEN x ELSE n[y]]
  BY DEF Indexed
<1> HIDE DEF n, m
<1>2. n.nsect = num.nsect /\ n.offset = num.offset /\ n.filesz = num.filesz
  BY <1>1
<1>3. m = n
  <2>1. DOMAIN n = DOMAIN num \cup {"firstsect"} /\ DOMAIN m = DOMAIN n
    BY <1>1
  <2>2. \A y \in DOMAIN n : m[y] = n[y]
    BY <1>1, <2>1
  <2> QED BY <1>1, <2>1, <2>2
<1> QED BY <1>2, <1>3 DEF n, m

(* A load with the size of its struct, which knows no more of its command. *)
Headed(d, head, num, tail) == [Load(d, num, tail) EXCEPT !.head = head]

(* The fields of such a load. *)
LEMMA HeadedIs ==
    ASSUME NEW c, NEW head, NEW num, NEW tail
    PROVE  LET l == Headed(c, head, num, tail) IN
           l.cmd = c.cmd /\ l.len = c.siz /\ l.num = num /\ l.tail = tail
  BY DEF Headed, Load

(* It depends on the command's kind and size. *)
LEMMA HeadedAlike ==
    ASSUME NEW c, NEW d, d.cmd = c.cmd, d.siz = c.siz, NEW head, NEW num, NEW tail
    PROVE  Headed(d, head, num, tail) = Headed(c, head, num, tail)
  BY DEF Headed, Load

(* Segments and their sections. *)
LEMMA SegmentReadsBack ==
    ASSUME NEW c, c.cmd \in SegmentKinds, c.siz \in Nat, IsAList(c.tail),
           {"nsect", "offset", "filesz"} \subseteq DOMAIN c.num,
           NEW head, NEW size, HasEntries(c, head, size, c.num.nsect),
           \A h, d : d.cmd = c.cmd => ReadCommand(h, d) = ReadSegment(h, d, head, size),
           \A l, at : l.cmd = c.cmd => WriteLoad(l, at) = WriteSegment(l, size),
           NEW f, IsFile(f), f.err = "", ReadCommand(f, c).err = ""
    PROVE  ReadsBack(c, f)
<1> DEFINE n == c.num.nsect
           num == Indexed(c.num, Len(f.Sections))
           t == SubSeq(c.tail, 1, n)
           l == Headed(c, head, num, t)
           r == ReadCommand(f, c)
           Ok(d) == /\ head + d.num.nsect * size <= d.siz
                    /\ \A i \in 1 .. d.num.nsect : SectionOK(d.tail[i])
                    /\ d.num.offset <= MaxInt64 /\ d.num.filesz <= MaxInt64
           Num(d) == Indexed(d.num, Len(f.Sections))
           Entries(d) == SubSeq(d.tail, 1, d.num.nsect)
           Made(d) == Headed(d, head, Num(d), Entries(d))
<1>1. \A d : d.cmd = c.cmd => ReadCommand(f, d) =
         IF Ok(d) THEN Appended(pushSections(f, Entries(d)), Made(d)) ELSE Refused(f)
  BY DEF ReadSegment, Headed
<1>2. \A d : d.cmd = c.cmd /\ d.siz = c.siz /\ Num(d) = num /\ Entries(d) = t => Made(d) = l
  <2> SUFFICES ASSUME NEW d, d.cmd = c.cmd, d.siz = c.siz, Num(d) = num, Entries(d) = t PROVE Made(d) = l
    OBVIOUS
  <2> HIDE DEF Num, Entries, num, t
  <2> QED BY ONLY d.cmd = c.cmd, d.siz = c.siz, Num(d) = num, Entries(d) = t, HeadedAlike DEF Made, l
<1>3. Num(c) = num /\ Entries(c) = t
  OBVIOUS
<1> HIDE DEF Made
<1>4. l.cmd = c.cmd /\ l.len = c.siz /\ l.num = num /\ l.tail = t
  <2> HIDE DEF num, t
  <2> QED BY ONLY HeadedIs DEF l
<1>5. Ok(c) /\ r = Appended(pushSections(f, t), l)
  <2> HIDE DEF Ok, Entries, Num, l, num, t
  <2> QED BY <1>1, <1>2, <1>3, RefusedIs
<1>6. n \in Nat /\ n <= Len(c.tail)
  <2>1. head + n * size <= c.siz
    BY <1>5
  <2>2. n \in Nat /\ (head + n * size <= c.siz => n <= Len(c.tail))
    BY DEF HasEntries
  <2> HIDE DEF n
  <2> QED BY <2>1, <2>2
<1>7. IsAList(t) /\ Len(t) = n /\ SubSeq(t, 1, n) = t /\ \A i \in 1 .. n : t[i] = c.tail[i]
  <2> HIDE DEF n
  <2> QED BY <1>6, FirstOfFirst
<1>8. num.nsect = n /\ num.offset = c.num.offset /\ num.filesz = c.num.filesz
      /\ Indexed(num, Len(f.Sections)) = num
  BY FirstSectionIsSet
<1>9. ASSUME NEW at
      PROVE  WriteLoad(l, at).siz = c.siz /\ ReadCommand(f, WriteLoad(l, at)) = r
  <2> DEFINE d == WriteLoad(l, at)
  <2>1. d = WriteSegment(l, size)
    <3> HIDE DEF l
    <3> QED BY <1>4
  <2> HIDE DEF d, num, t
  <2>2. d.cmd = c.cmd /\ d.siz = c.siz /\ d.num = num /\ d.tail = t
    BY <1>4, <2>1 DEF WriteSegment, AsWritten
  <2>3. Num(d) = num
    BY <1>8, <2>2
  <2>4. Entries(d) = t
    <3> HIDE DEF n
    <3> QED BY <1>7, <1>8, <2>2
  <2>5. Ok(d)
    <3>1. /\ d.num.nsect = n /\ d.num.offset = c.num.offset /\ d.num.filesz = c.num.filesz
      BY <1>8, <2>2
    <3>2. \A i \in 1 .. n : d.tail[i] = c.tail[i]
      BY <1>7, <2>2
    <3> HIDE DEF n
    <3>3. head + n * size <= c.siz /\ \A i \in 1 .. n : SectionOK(c.tail[i])
      BY <1>5 DEF n
    <3>4. c.num.offset <= MaxInt64 /\ c.num.filesz <= MaxInt64
      BY <1>5
    <3> QED BY <2>2, <3>1, <3>2, <3>3, <3>4
  <2> HIDE DEF Num, Entries, Ok, l
  <2>6. ReadCommand(f, d) = r
    BY <1>1, <1>2, <1>5, <2>2, <2>3, <2>4, <2>5
  <2> QED BY <2>2, <2>6 DEF d
<1>10. IsFile(r) /\ r.err = f.err /\ r.Loads = Append(f.Loads, l)
  <2> DEFINE p == pushSections(f, t)
  <2> HIDE DEF t, l
  <2>1. IsFile(p) /\ p.Loads = f.Loads /\ p.err = f.err
    BY PushedIs
  <2> HIDE DEF p
  <2>2. IsFile(Appended(p, l)) /\ Appended(p, l).err = p.err /\ Appended(p, l).Loads = Append(p.Loads, l)
    BY <2>1, AppendedIs
  <2>3. r = Appended(p, l)
    BY <1>5 DEF p
  <2> HIDE DEF r
  <2> QED BY <2>1, <2>2, <2>3
<1> HIDE DEF l, r
<1> QED BY <1>4, <1>9, <1>10 DEF ReadsBack, r

(* A command of a symbol table, which sets p and then adds its load. *)
LEMMA SymbolsReadBack ==
    ASSUME NEW c, c.cmd \in SymbolKinds, NEW f, f.err = "", NEW head, NEW ok \in BOOLEAN,
           NEW p, IsFile(p), p.Loads = f.Loads, p.err = f.err,
           \A d : d.cmd = c.cmd /\ d.num = c.num =>
                    ReadCommand(f, d) = Kept(p, d, head, ok, Load(d, c.num, <<>>)),
           ReadCommand(f, c).err = ""
    PROVE  ReadsBack(c, f)
<1> DEFINE l == Headed(c, head, c.num, <<>>)
           r == ReadCommand(f, c)
<1>1. ASSUME NEW d, d.cmd = c.cmd, d.num = c.num, d.siz = c.siz
      PROVE  ReadCommand(f, d) = IF head <= c.siz /\ ok THEN Appended(p, l) ELSE Refused(p)
  <2>1. ReadCommand(f, d) = Kept(p, d, head, ok, Load(d, c.num, <<>>))
    BY <1>1
  <2>2. Headed(d, head, c.num, <<>>) = l
    BY ONLY <1>1, HeadedAlike DEF l
  <2>3. ReadCommand(f, d) = IF head <= c.siz /\ ok THEN Appended(p, Headed(d, head, c.num, <<>>)) ELSE Refused(p)
    BY <1>1, <2>1 DEF Kept, Headed
  <2> HIDE DEF l
  <2> QED BY <2>2, <2>3
<1>2. l.cmd = c.cmd /\ l.len = c.siz /\ l.num = c.num
  BY ONLY HeadedIs DEF l
<1> HIDE DEF l, r
<1>3. r = IF head <= c.siz /\ ok THEN Appended(p, l) ELSE Refused(p)
  <2>1. c.cmd = c.cmd /\ c.num = c.num /\ c.siz = c.siz
    OBVIOUS
  <2> QED BY ONLY <1>1, <2>1 DEF r
<1>4. head <= c.siz /\ ok /\ r = Appended(p, l)
  <2>1. Refused(p).err = "format" /\ r.err = ""
    BY RefusedIs DEF r
  <2> QED BY <1>3, <2>1
<1>5. IsFile(r) /\ r.err = f.err /\ r.Loads = Append(f.Loads, l)
  <2>1. /\ IsFile(Appended(p, l)) /\ Appended(p, l).err = p.err
        /\ Appended(p, l).Loads = Append(p.Loads, l)
    BY AppendedIs
  <2> QED BY <1>4, <2>1
<1>6. ASSUME NEW at PROVE WriteLoad(l, at).siz = c.siz /\ ReadCommand(f, WriteLoad(l, at)) = r
  <2> DEFINE d == WriteLoad(l, at)
  <2>1. d = WriteStruct(l)
    BY <1>2, StructsAreWritten DEF PlainStructs
  <2> HIDE DEF d
  <2>2. d.cmd = c.cmd /\ d.num = c.num /\ d.siz = c.siz
    BY <1>2, <2>1 DEF WriteStruct, AsWritten
  <2>3. ReadCommand(f, d) = r
    BY <1>1, <1>3, <2>2
  <2> QED BY <2>2, <2>3 DEF d
<1> QED BY <1>2, <1>5, <1>6 DEF ReadsBack, r

(* LC_SYMTAB. *)
LEMMA SymtabReadsBack ==
    ASSUME NEW c, c.cmd = "SYMTAB", NEW f, IsFile(f), f.err = "", ReadCommand(f, c).err = ""
    PROVE  ReadsBack(c, f)
<1> DEFINE P(n) == [f EXCEPT !.Symtab = n.nsyms]
           Ok(n) == /\ HasBytes(n.stroff, n.strsize)
                    /\ HasBytes(n.symoff, n.nsyms * SymbolSize(f))
           p == P(c.num)
           ok == Ok(c.num)
<1>1. IsFile(p) /\ p.Loads = f.Loads /\ p.err = f.err
  BY DEF IsFile
<1>2. ok \in BOOLEAN
  BY DEF HasBytes
<1>3. \A d : d.cmd = c.cmd =>
        ReadCommand(f, d) = Kept(P(d.num), d, SymtabCmd, Ok(d.num), Load(d, d.num, <<>>))
  <2>1. ASSUME NEW d, d.cmd = c.cmd PROVE ReadCommand(f, d) = LC_SYMTAB(f, d)
    BY <2>1 DEF ReadCommand
  <2> QED BY <2>1 DEF LC_SYMTAB, parseSymtab
<1>4. \A d : d.cmd = c.cmd /\ d.num = c.num =>
        ReadCommand(f, d) = Kept(p, d, SymtabCmd, ok, Load(d, c.num, <<>>))
  <2> HIDE DEF P, Ok
  <2> SUFFICES ASSUME NEW d, d.cmd = c.cmd, d.num = c.num
               PROVE  ReadCommand(f, d) = Kept(p, d, SymtabCmd, ok, Load(d, c.num, <<>>))
    OBVIOUS
  <2>1. ReadCommand(f, d) = Kept(P(d.num), d, SymtabCmd, Ok(d.num), Load(d, d.num, <<>>))
    BY ONLY <1>3, d.cmd = c.cmd
  <2>2. P(d.num) = p /\ (Ok(d.num) <=> ok)
    OBVIOUS
  <2> QED BY ONLY <2>1, <2>2, d.num = c.num DEF p, ok
<1>5. c.cmd \in SymbolKinds
  BY DEF SymbolKinds
<1> HIDE DEF p, ok
<1> QED BY ONLY <1>1, <1>2, <1>4, <1>5, f.err = "", ReadCommand(f, c).err = "", SymbolsReadBack

(* LC_DYSYMTAB. *)
LEMMA DysymtabReadsBack ==
    ASSUME NEW c, c.cmd = "DYSYMTAB", NEW f, IsFile(f), f.err = "", ReadCommand(f, c).err = ""
    PROVE  ReadsBack(c, f)
<1> DEFINE Syms(n) == IF f.Symtab = None /\ f.type = "kext" /\ NoSymbols(n) THEN 0 ELSE f.Symtab
           Dyn(n) == [iundef |-> n.iundef, nundef |-> n.nundef]
           Ok(n) == /\ Syms(n) # None
                    /\ n.iundef <= Syms(n)
                    /\ (n.iundef + n.nundef) % Wrap32 <= Syms(n)
                    /\ HasBytes(n.indoff, n.nind * 4)
                    /\ parseRelocations(n.locoff, n.nlocrel)
                    /\ parseRelocations(n.extoff, n.nextrel)
           P(n) == [f EXCEPT !.Symtab = Syms(n), !.Dysymtab = Dyn(n)]
           p == P(c.num)
           ok == Ok(c.num)
<1>1. IsFile(p) /\ p.Loads = f.Loads /\ p.err = f.err
  <2> HIDE DEF Syms, Dyn
  <2> QED BY DEF IsFile
<1>2. ok \in BOOLEAN
  BY DEF HasBytes, parseRelocations
<1>3. \A d : d.cmd = c.cmd =>
        ReadCommand(f, d) = Kept(P(d.num), d, DysymtabCmd, Ok(d.num), Load(d, d.num, <<>>))
  <2>1. ASSUME NEW d, d.cmd = c.cmd PROVE ReadCommand(f, d) = LC_DYSYMTAB(f, d)
    BY <2>1 DEF ReadCommand
  <2> QED BY <2>1 DEF LC_DYSYMTAB
<1>4. \A d : d.cmd = c.cmd /\ d.num = c.num =>
        ReadCommand(f, d) = Kept(p, d, DysymtabCmd, ok, Load(d, c.num, <<>>))
  <2> HIDE DEF P, Ok
  <2> SUFFICES ASSUME NEW d, d.cmd = c.cmd, d.num = c.num
               PROVE  ReadCommand(f, d) = Kept(p, d, DysymtabCmd, ok, Load(d, c.num, <<>>))
    OBVIOUS
  <2>1. ReadCommand(f, d) = Kept(P(d.num), d, DysymtabCmd, Ok(d.num), Load(d, d.num, <<>>))
    BY ONLY <1>3, d.cmd = c.cmd
  <2>2. P(d.num) = p /\ (Ok(d.num) <=> ok)
    OBVIOUS
  <2> QED BY ONLY <2>1, <2>2, d.num = c.num DEF p, ok
<1>5. c.cmd \in SymbolKinds
  BY DEF SymbolKinds
<1> HIDE DEF p, ok
<1> QED BY ONLY <1>1, <1>2, <1>4, <1>5, f.err = "", ReadCommand(f, c).err = "", SymbolsReadBack

(* Whatever is read is read back. *)
LEMMA EveryReadsBack ==
    ASSUME NEW c, AsLinkersWrite(c), Wrap32 \in Nat \ {0}, NEW f, IsFile(f), f.err = "",
           ReadCommand(f, c).err = ""
    PROVE  ReadsBack(c, f)
<1>1. CASE c.cmd = "SEGMENT"
  <2>1. \A h, d : d.cmd = c.cmd => ReadCommand(h, d) = ReadSegment(h, d, Segment32, 68)
    BY ONLY <1>1 DEF ReadCommand, LC_SEGMENT
  <2>2. \A l, at : l.cmd = c.cmd => WriteLoad(l, at) = WriteSegment(l, 68)
    BY ONLY <1>1, OthersAreWritten
  <2>3. /\ c.siz \in Nat /\ IsAList(c.tail) /\ {"nsect", "offset", "filesz"} \subseteq DOMAIN c.num
        /\ HasEntries(c, Segment32, 68, c.num.nsect) /\ c.cmd \in SegmentKinds
    BY <1>1 DEF AsLinkersWrite, SegmentKinds
  <2> QED BY ONLY <2>1, <2>2, <2>3, IsFile(f), f.err = "", ReadCommand(f, c).err = "", SegmentReadsBack
<1>2. CASE c.cmd = "SEGMENT_64"
  <2>1. \A h, d : d.cmd = c.cmd => ReadCommand(h, d) = ReadSegment(h, d, Segment64, 80)
    BY ONLY <1>2 DEF ReadCommand, LC_SEGMENT_64
  <2>2. \A l, at : l.cmd = c.cmd => WriteLoad(l, at) = WriteSegment(l, 80)
    BY ONLY <1>2, OthersAreWritten
  <2>3. /\ c.siz \in Nat /\ IsAList(c.tail) /\ {"nsect", "offset", "filesz"} \subseteq DOMAIN c.num
        /\ HasEntries(c, Segment64, 80, c.num.nsect) /\ c.cmd \in SegmentKinds
    BY <1>2 DEF AsLinkersWrite, SegmentKinds
  <2> QED BY ONLY <2>1, <2>2, <2>3, IsFile(f), f.err = "", ReadCommand(f, c).err = "", SegmentReadsBack
<1>3. CASE c.cmd \notin SegmentKinds \cup SymbolKinds
  <2>1. Refuses(c) \/ Rewrites(c)
    BY <1>3, MostAreRewritten
  <2>2. ~Refuses(c)
    BY RefusedIs DEF Refuses
  <2> QED BY <2>1, <2>2, PlainReadsBack
<1> QED BY <1>1, <1>2, <1>3, SymtabReadsBack, DysymtabReadsBack DEF SegmentKinds, SymbolKinds
-----------------------------------------------------------------------------
(* What is left of the header's size, command by command. *)
LEMMA SizeLeftIs ==
    ASSUME NEW fl, fl.sizecmds \in Nat, Len(fl.cmds) \in Nat,
           \A i \in 1 .. Len(fl.cmds) : fl.cmds[i].siz \in Nat
    PROVE  LET v == SizeLeft(fl) IN
           v[0] = fl.sizecmds /\ \A i \in 1 .. Len(fl.cmds) : v[i] = v[i - 1] - fl.cmds[i].siz
<1> DEFINE N == Len(fl.cmds)
           siz(i) == fl.cmds[i].siz
           Body(v) == [i \in 0 .. N |-> IF i = 0 THEN fl.sizecmds ELSE v[i - 1] - siz(i)]
           step == [p \in (0 .. N) \X Int |-> IF p[1] = 0 THEN 0 ELSE p[2] - siz(p[1])]
           a == fl.sizecmds
<1>1. N \in Nat /\ a \in Int /\ \A i \in 1 .. N : siz(i) \in Nat
  OBVIOUS
<1> HIDE DEF siz, N, a
<1>2. step \in [(0 .. N) \X Int -> Int]
  <2> SUFFICES ASSUME NEW j \in 0 .. N, NEW v \in Int
               PROVE  (IF j = 0 THEN 0 ELSE v - siz(j)) \in Int
    OBVIOUS
  <2>1. j = 0 \/ j \in 1 .. N
    BY <1>1
  <2> QED BY <1>1, <2>1
<1>3. PICK w \in [0 .. N -> Int] : Carries(w, N, a, step)
  <2> HIDE DEF step
  <2> QED BY <1>1, <1>2, FoldExists
<1>4. \A i \in 1 .. N : w[i - 1] \in Int /\ i \in 0 .. N /\ i # 0
  BY <1>1, <1>3
<1>5. \A i \in 1 .. N : step[<<i, w[i - 1]>>] = w[i - 1] - siz(i)
  BY <1>4
<1>6. \A i \in 0 .. N : w[i] = IF i = 0 THEN a ELSE step[<<i, w[i - 1]>>]
  <2> HIDE DEF step
  <2> QED BY <1>3 DEF Carries
<1>7. w = Body(w)
  <2> HIDE DEF step
  <2>0. \A i \in 0 .. N : i = 0 \/ i \in 1 .. N
    BY <1>1
  <2>1. \A i \in 0 .. N : w[i] = IF i = 0 THEN a ELSE w[i - 1] - siz(i)
    BY <1>5, <1>6, <2>0
  <2> QED BY <1>3, <2>1 DEF a
<1> DEFINE u == CHOOSE v : v = Body(v)
<1>8. u = Body(u)
  <2> HIDE DEF Body
  <2> QED BY <1>7
<1>9. SizeLeft(fl) = u
  BY DEF SizeLeft, N, siz
<1>10. u[0] = fl.sizecmds /\ \A i \in 1 .. N : u[i] = u[i - 1] - siz(i)
  <2> HIDE DEF u
  <2>1. \A i \in 0 .. N : u[i] = IF i = 0 THEN fl.sizecmds ELSE u[i - 1] - siz(i)
    BY <1>8
  <2> HIDE DEF Body
  <2> QED BY <1>1, <1>4, <2>1
<1> HIDE DEF u
<1> QED BY <1>9, <1>10 DEF N, siz

(* The load l of the command c, added to f, gives r; so does l, written.   *)
Back(l, c, f, r) ==
    /\ l.len = c.siz
    /\ l.cmd \notin Lossy => \A at : WriteLoad(l, at).bytes = l.len
                => WriteLoad(l, at).siz = c.siz /\ ReadCommand(f, WriteLoad(l, at)) = r

(* A File that c was read into without an error, as the one before it was. *)
ReadNext(f, c, r) ==
    /\ AsLinkersWrite(c) /\ r = loadInSlice(f, c, NoFilter) /\ r.err = ""
    /\ f.err = "" => IsFile(f)

(* One command is read behind the loads of those before it. *)
LEMMA ReadOnce ==
    ASSUME NEW f, NEW c, NEW r, ReadNext(f, c, r), Wrap32 \in Nat \ {0}
    PROVE  /\ f.err = "" /\ IsFile(r) /\ Len(r.Loads) = Len(f.Loads) + 1 /\ Len(f.Loads) \in Nat
           /\ Back(r.Loads[Len(f.Loads) + 1], c, f, r)
           /\ \A j \in 1 .. Len(f.Loads) : r.Loads[j] = f.Loads[j]
<1>1. f.err = "" /\ r.err = "" /\ AsLinkersWrite(c)
  BY DEF ReadNext, loadInSlice
<1>2. IsFile(f) /\ IsAList(f.Loads) /\ Len(f.Loads) \in Nat
  BY <1>1 DEF ReadNext, IsFile, IsAList
<1>3. r = ReadCommand(f, c)
  BY <1>1, AllAreWanted DEF ReadNext, loadInSlice
<1>4. ReadsBack(c, f)
  BY <1>1, <1>2, <1>3, EveryReadsBack
<1>5. PICK l : /\ l.len = c.siz /\ IsFile(r) /\ r.Loads = Append(f.Loads, l)
               /\ l.cmd \notin Lossy => \A at : WriteLoad(l, at).bytes = l.len
                    => WriteLoad(l, at).siz = c.siz /\ ReadCommand(f, WriteLoad(l, at)) = r
  BY <1>3, <1>4 DEF ReadsBack
<1>6. Back(l, c, f, r)
  BY <1>5 DEF Back
<1> DEFINE s == f.Loads
<1> HIDE DEF s
<1>7. IsAList(s) /\ r.Loads = Append(s, l)
  BY <1>2, <1>5 DEF s
<1>8. /\ Len(Append(s, l)) = Len(s) + 1
      /\ Append(s, l)[Len(s) + 1] = l /\ \A j \in 1 .. Len(s) : Append(s, l)[j] = s[j]
  BY ONLY <1>7, AppendIs
<1> QED BY <1>1, <1>2, <1>5, <1>6, <1>7, <1>8 DEF s

(* The first i commands of a file, read into w[i], each from where the last was left. *)
ReadSoFar(w, fl, i) ==
    w[i].err = "" =>
      /\ IsFile(w[i]) /\ Len(w[i].Loads) = i
      /\ \A j \in 1 .. i : w[j - 1].err = "" /\ Back(w[i].Loads[j], fl.cmds[j], w[j - 1], w[j])

(* So is the next, into the next File. *)
LEMMA ReadOnceMore ==
    ASSUME NEW fl, NEW w, NEW i \in Nat \ {0}, Wrap32 \in Nat \ {0},
           ReadSoFar(w, fl, i - 1), ReadNext(w[i - 1], fl.cmds[i], w[i])
    PROVE  ReadSoFar(w, fl, i)
<1> DEFINE k == i - 1
           f == w[k]
           c == fl.cmds[i]
           r == w[i]
<1>0. k \in Nat /\ i = k + 1 /\ \A j \in 1 .. i : j = i \/ j \in 1 .. k
  OBVIOUS
<1>1. ReadNext(f, c, r) /\ ReadSoFar(w, fl, k)
  OBVIOUS
<1> HIDE DEF f, r, c, k
<1>2. /\ f.err = "" /\ IsFile(r) /\ Len(r.Loads) = Len(f.Loads) + 1
      /\ Back(r.Loads[Len(f.Loads) + 1], c, f, r)
      /\ \A j \in 1 .. Len(f.Loads) : r.Loads[j] = f.Loads[j]
  BY ONLY <1>1, Wrap32 \in Nat \ {0}, ReadOnce, ZenonT(40)
<1>3. /\ Len(f.Loads) = k
      /\ \A j \in 1 .. k : w[j - 1].err = "" /\ Back(f.Loads[j], fl.cmds[j], w[j - 1], w[j])
  BY ONLY <1>1, <1>2 DEF ReadSoFar, f
<1>4. Len(r.Loads) = i /\ Back(r.Loads[i], c, f, r) /\ \A j \in 1 .. k : r.Loads[j] = f.Loads[j]
  BY <1>0, <1>2, <1>3
<1>5. ASSUME NEW j \in 1 .. i PROVE w[j - 1].err = "" /\ Back(r.Loads[j], fl.cmds[j], w[j - 1], w[j])
  <2>1. CASE j = i
    BY <1>2, <1>4, <2>1 DEF f, r, c, k
  <2>2. CASE j # i
    <3>1. j \in 1 .. k
      BY ONLY <1>0, <2>2, j \in 1 .. i
    <3> QED BY ONLY <1>3, <1>4, <3>1
  <2> QED BY <2>1, <2>2
<1> QED BY ONLY <1>2, <1>4, <1>5 DEF ReadSoFar, r

(* w[i] is the File after the first i commands, and after N without an error. *)
ReadWhole(w, fl, N) ==
    /\ \A i \in 1 .. N : AsLinkersWrite(fl.cmds[i])
    /\ w[0] = EmptyFile(fl) /\ w[N].err = ""
    /\ \A i \in 1 .. N : w[i] = loadInSlice(w[i - 1], fl.cmds[i], NoFilter)

(* The commands of a file, and the loads that NewFile makes of them. *)
LEMMA LoadsAreRead ==
    ASSUME NEW fl, NEW N \in Nat, NEW w, Wrap32 \in Nat \ {0}, ReadWhole(w, fl, N)
    PROVE  ReadSoFar(w, fl, N)
<1> DEFINE S == {i \in 0 .. N : ReadSoFar(w, fl, i)}
<1>1. 0 \in S
  <2>1. IsFile(w[0]) /\ Len(w[0].Loads) = 0
    <3>1. w[0] = EmptyFile(fl)
      BY DEF ReadWhole
    <3>2. Len(<<>>) = 0
      OBVIOUS
    <3>3. IsFile(EmptyFile(fl)) /\ EmptyFile(fl).Loads = <<>>
      BY EmptyFileIs
    <3> QED BY ONLY <3>1, <3>2, <3>3
  <2>2. ReadSoFar(w, fl, 0)
    <3>1. \A j : j \notin 1 .. 0
      OBVIOUS
    <3> QED BY ONLY <2>1, <3>1 DEF ReadSoFar
  <2> QED BY <2>2
<1>2. ASSUME NEW i \in 1 .. N, i - 1 \in S PROVE i \in S
  <2>1. ReadSoFar(w, fl, i - 1)
    BY <1>2
  <2>2. i \in Nat \ {0} /\ i \in 0 .. N
    OBVIOUS
  <2>3. w[i] = loadInSlice(w[i - 1], fl.cmds[i], NoFilter) /\ AsLinkersWrite(fl.cmds[i])
    BY DEF ReadWhole
  <2>4. ReadSoFar(w, fl, i)
    <3>1. CASE w[i].err = ""
      <4>1. ReadNext(w[i - 1], fl.cmds[i], w[i])
        BY ONLY <2>1, <2>3, <3>1 DEF ReadNext, ReadSoFar
      <4> QED BY ONLY <2>1, <2>2, <4>1, Wrap32 \in Nat \ {0}, ReadOnceMore
    <3>2. CASE w[i].err # ""
      BY ONLY <3>2 DEF ReadSoFar
    <3> QED BY <3>1, <3>2
  <2> QED BY <2>2, <2>4
<1>3. \A i \in 0 .. N : i \in S
  <2> HIDE DEF S
  <2> QED BY <1>1, <1>2, CountInduction
<1>4. N \in 0 .. N
  OBVIOUS
<1> QED BY <1>3, <1>4

(* The same file, with its commands as they are written. *)
Rewritten(fl, f) == [fl EXCEPT !.cmds = WrittenCommands(f)]

(* The commands that are written, one for each load. *)
LEMMA WrittenCommandsAre ==
    ASSUME NEW f, NEW n \in Nat, Len(f.Loads) = n
    PROVE  /\ Len(WrittenCommands(f)) = n
           /\ \A i \in 1 .. n : WrittenCommands(f)[i] = WriteLoad(f.Loads[i], WritesAt(f)[i - 1])
<1> DEFINE s == WrittenCommands(f)
           S == {WriteLoad(f.Loads[i], WritesAt(f)[i - 1]) : i \in 1 .. n}
<1>1. s = [i \in 1 .. n |-> WriteLoad(f.Loads[i], WritesAt(f)[i - 1])]
  BY DEF WrittenCommands
<1>2. s \in [1 .. n -> S]
  <2> HIDE DEF s
  <2> QED BY <1>1
<1>3. Len(s) = n
  <2>1. DOMAIN s = 1 .. n
    BY <1>2
  <2>2. s \in Seq(S)
    <3> HIDE DEF s, S
    <3> QED BY <1>2
  <2> HIDE DEF s, S
  <2> QED BY <2>1, <2>2
<1> HIDE DEF s
<1>4. \A i \in 1 .. n : s[i] = WriteLoad(f.Loads[i], WritesAt(f)[i - 1])
  BY <1>1
<1> QED BY <1>3, <1>4 DEF s

(* The loads of a file take the sizes they were read with, in cmds. *)
InOwnLengths(f, cmds) ==
    \A i \in DOMAIN f.Loads : f.Loads[i].cmd \notin Lossy /\ cmds[i].bytes = f.Loads[i].len

(* File fl2 has the header of fl, and commands of the sizes of its first N. *)
AsLarge(fl, fl2, N) ==
    /\ fl2.magic = fl.magic /\ fl2.type = fl.type /\ fl2.ncmds = fl.ncmds
    /\ fl2.sizecmds = fl.sizecmds /\ fl.ncmds = N /\ Len(fl2.cmds) = N
    /\ \A i \in 1 .. N : fl2.cmds[i].siz = fl.cmds[i].siz

HasSizes(fl) ==
    /\ fl.sizecmds \in Nat /\ Len(fl.cmds) \in Nat
    /\ \A i \in 1 .. Len(fl.cmds) : fl.cmds[i].siz \in Nat

(* Commands of the same sizes leave the same sizes. *)
LEMMA SizesLeftAlike ==
    ASSUME NEW fl, NEW fl2, NEW N \in Nat, HasSizes(fl), AsLarge(fl, fl2, N), N <= Len(fl.cmds)
    PROVE  \A i \in 0 .. N : SizeLeft(fl2)[i] = SizeLeft(fl)[i]
<1> DEFINE u == SizeLeft(fl)
           v == SizeLeft(fl2)
           S == {i \in 0 .. N : v[i] = u[i]}
<1>1. u[0] = fl.sizecmds /\ \A i \in 1 .. Len(fl.cmds) : u[i] = u[i - 1] - fl.cmds[i].siz
  BY SizeLeftIs DEF HasSizes
<1>2. v[0] = fl.sizecmds /\ \A i \in 1 .. N : v[i] = v[i - 1] - fl2.cmds[i].siz
  <2>0. \A i \in 1 .. N : i \in 1 .. Len(fl.cmds)
    BY DEF HasSizes
  <2>1. fl2.sizecmds \in Nat /\ Len(fl2.cmds) \in Nat
        /\ \A i \in 1 .. Len(fl2.cmds) : fl2.cmds[i].siz \in Nat
    BY <2>0 DEF HasSizes, AsLarge
  <2>2. v[0] = fl2.sizecmds /\ \A i \in 1 .. Len(fl2.cmds) : v[i] = v[i - 1] - fl2.cmds[i].siz
    BY <2>1, SizeLeftIs
  <2> QED BY <2>2 DEF AsLarge
<1> HIDE DEF u, v
<1>3. 0 \in S
  BY <1>1, <1>2
<1>4. ASSUME NEW i \in 1 .. N, i - 1 \in S PROVE i \in S
  <2>1. i \in 1 .. Len(fl.cmds) /\ i \in 0 .. N
    BY DEF HasSizes
  <2>2. v[i] = v[i - 1] - fl2.cmds[i].siz /\ u[i] = u[i - 1] - fl.cmds[i].siz /\ v[i - 1] = u[i - 1]
    BY <1>1, <1>2, <1>4, <2>1
  <2>3. fl2.cmds[i].siz = fl.cmds[i].siz
    BY DEF AsLarge
  <2> QED BY <2>1, <2>2, <2>3
<1>5. \A i \in 0 .. N : i \in S
  <2> HIDE DEF S
  <2> QED BY <1>3, <1>4, CountInduction
<1> QED BY <1>5 DEF u, v

(* A file of the same sizes passes the same checks. *)
LEMMA SoundAlike ==
    ASSUME NEW fl, NEW fl2, NEW N \in Nat, HasSizes(fl), AsLarge(fl, fl2, N), SoundSizes(fl)
    PROVE  SoundSizes(fl2) /\ N <= Len(fl.cmds)
<1>1. fl.ncmds = N /\ fl2.ncmds = N /\ Len(fl2.cmds) = N
  BY DEF AsLarge
<1>2. N <= Len(fl.cmds)
  <2>1. CASE N = 0
    BY <2>1 DEF HasSizes
  <2>2. CASE N # 0
    <3>1. N \in 1 .. N
      BY <2>2
    <3> QED BY <1>1, <3>1 DEF SoundSizes
  <2> QED BY <2>1, <2>2
<1>3. ASSUME NEW i \in 1 .. N
      PROVE  /\ SizeLeft(fl2)[i - 1] = SizeLeft(fl)[i - 1]
             /\ fl2.cmds[i].siz = fl.cmds[i].siz
  <2>1. i - 1 \in 0 .. N
    OBVIOUS
  <2> QED BY <1>2, <2>1, SizesLeftAlike DEF AsLarge
<1>4. SoundSizes(fl2)
  <2>1. ASSUME NEW i \in 1 .. N
        PROVE  /\ i <= Len(fl2.cmds) /\ SizeLeft(fl2)[i - 1] >= 8
               /\ 8 <= fl2.cmds[i].siz /\ fl2.cmds[i].siz <= SizeLeft(fl2)[i - 1]
    <3>1. /\ SizeLeft(fl)[i - 1] >= 8
          /\ 8 <= fl.cmds[i].siz /\ fl.cmds[i].siz <= SizeLeft(fl)[i - 1]
      BY <1>1 DEF SoundSizes
    <3>2. i <= Len(fl2.cmds)
      BY <1>1
    <3> QED BY ONLY <1>3, <2>1, <3>1, <3>2
  <2> QED BY ONLY <1>1, <2>1 DEF SoundSizes
<1> QED BY <1>2, <1>4

(* The loads of f are written as cmds, in their own lengths. *)
WritesInLength(f, cmds, N) ==
    \A i \in 1 .. N :
      /\ f.Loads[i].cmd \notin Lossy /\ cmds[i].bytes = f.Loads[i].len
      /\ \E at : cmds[i] = WriteLoad(f.Loads[i], at)

(* v[i] is the File after the first i commands of fl. *)
LoadsAll(v, fl, N) ==
    v[0] = EmptyFile(fl) /\ \A i \in 1 .. N : v[i] = loadInSlice(v[i - 1], fl.cmds[i], NoFilter)

(* w is the reading of fl, and v that of fl2, the commands as w is written. *)
ReadAgain(fl, fl2, N, w, v) ==
    /\ ReadSoFar(w, fl, N) /\ w[N].err = ""
    /\ EmptyFile(fl2) = w[0] /\ LoadsAll(v, fl2, N) /\ WritesInLength(w[N], fl2.cmds, N)

(* Read again, they are the same loads. *)
LEMMA LoopsAgain ==
    ASSUME NEW fl, NEW fl2, NEW N \in Nat, NEW w, NEW v, ReadAgain(fl, fl2, N, w, v)
    PROVE  v[N] = w[N]
<1>0. /\ ReadSoFar(w, fl, N) /\ w[N].err = ""
      /\ EmptyFile(fl2) = w[0] /\ LoadsAll(v, fl2, N) /\ WritesInLength(w[N], fl2.cmds, N)
  BY DEF ReadAgain
<1> DEFINE S == {i \in 0 .. N : v[i] = w[i]}
<1>1. 0 \in S
  <2>1. v[0] = w[0]
    BY ONLY <1>0 DEF LoadsAll
  <2>2. 0 \in 0 .. N
    BY ONLY N \in Nat
  <2> QED BY ONLY <2>1, <2>2 DEF S
<1>2. ASSUME NEW i \in 1 .. N, i - 1 \in S PROVE i \in S
  <2> DEFINE l == w[N].Loads[i]
             d == fl2.cmds[i]
             f == w[i - 1]
             r == w[i]
             c == fl.cmds[i]
  <2>1. f.err = "" /\ Back(l, c, f, r)
    BY ONLY <1>0, i \in 1 .. N DEF ReadSoFar, f, l, c, r
  <2>2. /\ l.cmd \notin Lossy /\ d.bytes = l.len
        /\ \E at : d = WriteLoad(l, at)
    BY ONLY <1>0, i \in 1 .. N DEF WritesInLength, l, d
  <2>3. v[i] = loadInSlice(v[i - 1], d, NoFilter) /\ v[i - 1] = f
    BY ONLY <1>0, i \in 1 .. N, i - 1 \in S DEF LoadsAll, d, f, S
  <2> HIDE DEF l, d, f, r, c
  <2>4. ReadCommand(f, d) = r
    BY ONLY <2>1, <2>2 DEF Back
  <2>5. loadInSlice(f, d, NoFilter) = r
    BY ONLY <2>1, <2>4, AllAreWanted DEF loadInSlice
  <2>6. v[i] = w[i] /\ i \in 0 .. N
    BY ONLY <2>3, <2>5, i \in 1 .. N, N \in Nat DEF r
  <2> QED BY <2>6
<1>3. \A i \in 0 .. N : i \in S
  <2> HIDE DEF S
  <2> QED BY ONLY <1>1, <1>2, N \in Nat, CountInduction
<1>4. N \in 0 .. N
  BY ONLY N \in Nat
<1> QED BY ONLY <1>3, <1>4 DEF S

(* A file that linkers wrote, with a count of commands (FilesAreLinked).   *)
LinkedFile(fl) ==
    /\ {"magic", "type", "ncmds", "sizecmds", "cmds"} \subseteq DOMAIN fl
    /\ fl.sizecmds \in Nat /\ fl.ncmds \in Nat /\ IsAList(fl.cmds)
    /\ \A i \in 1 .. Len(fl.cmds) : AsLinkersWrite(fl.cmds[i])

(* What NewFile makes of such a file, it makes again of the commands the   *)
(* file is written as.                                                     *)
LEMMA RereadAlike ==
    ASSUME NEW fl, LinkedFile(fl), Wrap32 \in Nat \ {0}, NEW f, f = NewFile(fl, NoFilter), f.err = "",
           InOwnLengths(f, WrittenCommands(f))
    PROVE  NewFile(Rewritten(fl, f), NoFilter) = f
<1> DEFINE N == fl.ncmds
           fl2 == Rewritten(fl, f)
           cmds == WrittenCommands(f)
           w == LoadsUpTo(fl, NoFilter)
           v == LoadsUpTo(fl2, NoFilter)
<1>0. N \in Nat /\ HasSizes(fl)
  BY DEF LinkedFile, HasSizes, IsAList, AsLinkersWrite
<1>1. /\ fl2.magic = fl.magic /\ fl2.type = fl.type /\ fl2.ncmds = fl.ncmds
      /\ fl2.sizecmds = fl.sizecmds /\ fl2.cmds = cmds
  <2> HIDE DEF cmds
  <2> QED BY DEF LinkedFile, Rewritten, cmds
<1>2. /\ fl.magic \in {32, 64} /\ HasBytes(HeaderSize(fl), fl.sizecmds) /\ SoundSizes(fl)
      /\ f = w[N]
  <2>1. NewFile(fl, NoFilter) # Refused(EmptyFile(fl))
    BY EmptyFileIs, RefusedIs
  <2> HIDE DEF w
  <2> QED BY <2>1 DEF NewFile, w
<1> HIDE DEF fl2, cmds, w, v, N
<1>3. \A i \in 1 .. N : i <= Len(fl.cmds)
  BY <1>2 DEF SoundSizes, N
<1>4. ReadWhole(w, fl, N)
  <2>1. w[0] = EmptyFile(fl) /\ \A i \in 1 .. N : w[i] = loadInSlice(w[i - 1], fl.cmds[i], NoFilter)
    BY <1>0, LoadsUpToIs DEF N, w
  <2>2. \A i \in 1 .. N : AsLinkersWrite(fl.cmds[i])
    <3>1. \A i \in 1 .. N : i \in 1 .. Len(fl.cmds)
      BY ONLY <1>0, <1>3 DEF HasSizes
    <3>2. \A i \in 1 .. Len(fl.cmds) : AsLinkersWrite(fl.cmds[i])
      BY DEF LinkedFile
    <3> QED BY ONLY <3>1, <3>2
  <2>3. w[N].err = ""
    BY <1>2
  <2> QED BY ONLY <2>1, <2>2, <2>3 DEF ReadWhole
<1>5. ReadSoFar(w, fl, N)
  BY ONLY <1>0, <1>4, Wrap32 \in Nat \ {0}, LoadsAreRead
<1>6. IsFile(f) /\ Len(f.Loads) = N /\ DOMAIN f.Loads = 1 .. N
      /\ \A j \in 1 .. N : Back(f.Loads[j], fl.cmds[j], w[j - 1], w[j])
  <2>1. IsFile(f) /\ Len(f.Loads) = N
        /\ \A j \in 1 .. N : Back(f.Loads[j], fl.cmds[j], w[j - 1], w[j])
    BY ONLY <1>2, <1>5, f.err = "" DEF ReadSoFar
  <2>2. DOMAIN f.Loads = 1 .. Len(f.Loads)
    <3> DEFINE s == f.Loads
    <3>1. s = [i \in 1 .. Len(s) |-> s[i]]
      BY <2>1 DEF IsFile, IsAList
    <3> HIDE DEF s
    <3>2. DOMAIN s = 1 .. Len(s)
      BY ONLY <3>1
    <3> QED BY <3>2 DEF s
  <2> QED BY ONLY <2>1, <2>2
<1>7. Len(cmds) = N /\ \A i \in 1 .. N : cmds[i] = WriteLoad(f.Loads[i], WritesAt(f)[i - 1])
  BY ONLY <1>0, <1>6, WrittenCommandsAre DEF cmds
<1>8. WritesInLength(f, cmds, N)
  <2>1. \A i \in 1 .. N : f.Loads[i].cmd \notin Lossy /\ cmds[i].bytes = f.Loads[i].len
    BY ONLY <1>6, InOwnLengths(f, WrittenCommands(f)) DEF InOwnLengths, cmds
  <2> QED BY ONLY <1>7, <2>1 DEF WritesInLength
<1>9. AsLarge(fl, fl2, N)
  <2>1. ASSUME NEW i \in 1 .. N PROVE cmds[i].siz = fl.cmds[i].siz
    <3>1. Back(f.Loads[i], fl.cmds[i], w[i - 1], w[i])
      BY ONLY <1>6, <2>1
    <3>2. /\ f.Loads[i].cmd \notin Lossy /\ cmds[i].bytes = f.Loads[i].len
          /\ \E at : cmds[i] = WriteLoad(f.Loads[i], at)
      BY ONLY <1>8, <2>1 DEF WritesInLength
    <3> QED BY ONLY <3>1, <3>2 DEF Back
  <2> QED BY ONLY <1>1, <1>7, <2>1 DEF AsLarge, N
<1>10. SoundSizes(fl2)
  BY ONLY <1>0, <1>2, <1>9, SoundAlike
<1>11. EmptyFile(fl2) = EmptyFile(fl) /\ HeaderSize(fl2) = HeaderSize(fl)
  BY ONLY <1>1 DEF EmptyFile, HeaderSize
<1>12. LoadsAll(v, fl2, N)
  <2>1. fl2.ncmds \in Nat /\ fl2.ncmds = N
    BY ONLY <1>0, <1>1 DEF N
  <2>2. v[0] = EmptyFile(fl2)
        /\ \A i \in 1 .. fl2.ncmds : v[i] = loadInSlice(v[i - 1], fl2.cmds[i], NoFilter)
    BY ONLY <2>1, LoadsUpToIs DEF v
  <2> QED BY ONLY <2>1, <2>2 DEF LoadsAll
<1>13. v[N] = f
  <2>1. EmptyFile(fl2) = w[0]
    BY ONLY <1>4, <1>11 DEF ReadWhole
  <2>2. w[N].err = "" /\ WritesInLength(w[N], fl2.cmds, N)
    BY ONLY <1>1, <1>2, <1>8, f.err = ""
  <2>3. v[N] = w[N]
    <3>1. N \in Nat
      BY <1>0
    <3>2. ReadAgain(fl, fl2, N, w, v)
      BY ONLY <1>5, <1>12, <2>1, <2>2 DEF ReadAgain
    <3> QED BY ONLY <3>1, <3>2, LoopsAgain
  <2> QED BY <1>2, <2>3
<1>14. NewFile(fl2, NoFilter) = v[N]
  BY ONLY <1>1, <1>2, <1>10, <1>11 DEF NewFile, v, N
<1> QED BY <1>13, <1>14 DEF fl2

(* What was read is what was written from the file, until it is read again. *)
WrittenAsRead ==
    /\ part \in {"new", "open", "written", "reread"}
    /\ part \in {"new", "open"} => file \in Files
    /\ part = "open" => File = NewFile(file, filter)
    /\ part \in {"written", "reread"} =>
         /\ filter.inc = {} /\ filter.exc = {} /\ first.err = ""
         /\ \E fl \in Files : first = NewFile(fl, filter) /\ file = Rewritten(fl, first)
    /\ part = "reread" => File = NewFile(file, filter)

(* Without a filter every command is loaded. *)
LEMMA NothingFiltered ==
    ASSUME NEW flt, flt.inc = {}, flt.exc = {}, NEW fl, fl.ncmds \in Nat
    PROVE  NewFile(fl, flt) = NewFile(fl, NoFilter)
<1> DEFINE N == fl.ncmds
           u == LoadsUpTo(fl, flt)
           w == LoadsUpTo(fl, NoFilter)
           S == {i \in 0 .. N : u[i] = w[i]}
<1>1. \A f, c : loadInSlice(f, c, flt) = loadInSlice(f, c, NoFilter)
  BY DEF loadInSlice, Wanted, NoFilter
<1>2. /\ u[0] = EmptyFile(fl) /\ \A i \in 1 .. N : u[i] = loadInSlice(u[i - 1], fl.cmds[i], flt)
      /\ w[0] = EmptyFile(fl) /\ \A i \in 1 .. N : w[i] = loadInSlice(w[i - 1], fl.cmds[i], NoFilter)
  BY LoadsUpToIs
<1> HIDE DEF u, w
<1>3. 0 \in S
  BY <1>2
<1>4. ASSUME NEW i \in 1 .. N, i - 1 \in S PROVE i \in S
  <2>1. u[i - 1] = w[i - 1] /\ i \in 0 .. N
    BY <1>4
  <2>2. u[i] = w[i]
    BY ONLY <1>1, <1>2, <2>1, i \in 1 .. N
  <2> QED BY <2>1, <2>2
<1>5. \A i \in 0 .. N : i \in S
  <2> HIDE DEF S
  <2> QED BY <1>3, <1>4, CountInduction
<1>6. u[N] = w[N]
  BY <1>5
<1> QED BY <1>6 DEF NewFile, u, w

(* A file whose commands fill the sizes they were read with is the same    *)
(* file once it is written and read again: whatever its commands are, but  *)
(* for the four kinds that Write is known to lose something of, none loses *)
(* a field, a string, a section or an entry (each case of NewFile's switch *)
(* with the Write of the type it makes).                                   *)
THEOREM WrittenFilesAreRereadAlike ==
    ASSUME CountsAreNatural, FilesAreLinked
    PROVE  CommandsSpec => []RereadIsTheSame
<1>1. CommandsInit => WrittenAsRead
  BY DEF CommandsInit, WrittenAsRead
<1>2. WrittenAsRead /\ [CommandsNext]_commandVars => WrittenAsRead'
  <2> SUFFICES ASSUME WrittenAsRead, [CommandsNext]_commandVars PROVE WrittenAsRead'
    OBVIOUS
  <2>1. CASE Open
    <3>1. CASE part = "new"
      BY <2>1, <3>1 DEF Open, WrittenAsRead
    <3>2. CASE part = "written"
      BY <2>1, <3>2 DEF Open, WrittenAsRead
    <3> QED BY <2>1, <3>1, <3>2 DEF Open
  <2>2. CASE Write
    BY <2>2 DEF Write, WrittenAsRead, Rewritten
  <2>3. CASE UNCHANGED commandVars
    BY <2>3 DEF commandVars, WrittenAsRead
  <2> QED BY <2>1, <2>2, <2>3 DEF CommandsNext
<1>3. WrittenAsRead => RereadIsTheSame
  <2> SUFFICES ASSUME WrittenAsRead, part = "reread", InOwnLengths(first, file.cmds)
               PROVE  File = first
    BY DEF RereadIsTheSame, InOwnLengths
  <2>1. PICK fl \in Files : first = NewFile(fl, filter) /\ file = Rewritten(fl, first)
    BY DEF WrittenAsRead
  <2>2. filter.inc = {} /\ filter.exc = {} /\ first.err = "" /\ File = NewFile(file, filter)
    BY DEF WrittenAsRead
  <2>3. LinkedFile(fl) /\ Wrap32 \in Nat \ {0}
    BY DEF LinkedFile, FilesAreLinked, CountsAreNatural
  <2>4. file.ncmds \in Nat /\ fl.ncmds \in Nat /\ file.cmds = WrittenCommands(first)
    BY <2>1, <2>3 DEF LinkedFile, Rewritten
  <2>5. first = NewFile(fl, NoFilter) /\ File = NewFile(file, NoFilter)
    BY <2>1, <2>2, <2>4, NothingFiltered
  <2>6. NewFile(Rewritten(fl, first), NoFilter) = first
    BY <2>2, <2>3, <2>4, <2>5, RereadAlike
  <2> QED BY <2>1, <2>5, <2>6
<1> QED BY <1>1, <1>2, <1>3, PTL DEF CommandsSpec

-----------------------------------------------------------------------------
(* Export.                                                                 *)

(* The least of a set of naturals. *)
LEMMA LeastIsIn ==
    ASSUME NEW T, T \subseteq Nat, T # {}
    PROVE  Min(T) \in T
<1>1. PICK x \in T : \A y \in T : x <= y
  BY LeastNatural
<1> QED BY <1>1 DEF Min

(* One list behind another. *)
LEMMA JoinedLists ==
    ASSUME NEW s, NEW t, IsAList(s), IsAList(t)
    PROVE  /\ IsAList(s \o t) /\ Len(s \o t) = Len(s) + Len(t)
           /\ \A i \in 1 .. Len(s) : (s \o t)[i] = s[i]
           /\ \A i \in 1 .. Len(t) : (s \o t)[Len(s) + i] = t[i]
<1>1. PICK S : s \in Seq(S)
  BY ListIsSeq
<1>2. PICK T : t \in Seq(T)
  BY ListIsSeq
<1> DEFINE U == S \cup T
<1>3. s \in Seq(U) /\ t \in Seq(U)
  BY <1>1, <1>2
<1> HIDE DEF U
<1>4. s \o t \in Seq(U)
  BY <1>3
<1>5. IsAList(s \o t)
  BY <1>4, SeqIsList
<1> QED BY <1>3, <1>5

(* A list that is written out. *)
LEMMA BuiltList ==
    ASSUME NEW n \in Nat, NEW s, s = [i \in 1 .. n |-> s[i]]
    PROVE  IsAList(s) /\ Len(s) = n
<1> DEFINE S == {s[i] : i \in 1 .. n}
<1>1. s \in [1 .. n -> S]
  <2> HIDE DEF S
  <2>1. \A i \in 1 .. n : s[i] \in S
    BY DEF S
  <2> QED BY <2>1
<1>2. s \in Seq(S) /\ Len(s) = n
  <2> HIDE DEF S
  <2> QED BY <1>1
<1> QED BY <1>2, SeqIsList

(* A run of choices of elements. *)
Chooses(w, s, T) ==
    /\ w[0] = <<>>
    /\ \A i \in 1 .. Len(s) : w[i] = IF i \in T THEN Append(w[i - 1], s[i]) ELSE w[i - 1]

LEMMA ThoseAreChosen ==
    ASSUME NEW T, NEW s, IsAList(s)
    PROVE  \E w : Chooses(w, s, T) /\ Those(s, T) = w[Len(s)]
<1> DEFINE N == Len(s)
           Step(v, i) == IF i \in T THEN Append(v, s[i]) ELSE v
           Solves(w, n) == w = [i \in 0 .. n |-> IF i = 0 THEN <<>> ELSE Step(w[i - 1], i)]
           S == {n \in Nat : \E w : Solves(w, n)}
<1>0. N \in Nat
  BY DEF IsAList
<1>1. 0 \in S
  <2> DEFINE w == [i \in 0 .. 0 |-> <<>>]
  <2>1. Solves(w, 0)
    <3> HIDE DEF Step
    <3> QED OBVIOUS
  <2> HIDE DEF Solves, w
  <2> QED BY <2>1
<1>2. ASSUME NEW n \in Nat, n \in S PROVE n + 1 \in S
  <2>1. PICK w : Solves(w, n)
    BY <1>2
  <2> HIDE DEF Step
  <2> DEFINE g == [i \in 0 .. n + 1 |-> IF i = n + 1 THEN Step(w[n], n + 1) ELSE w[i]]
  <2>2. \A i \in 0 .. n : g[i] = w[i]
    OBVIOUS
  <2>3. ASSUME NEW i \in 0 .. n + 1
        PROVE  g[i] = IF i = 0 THEN <<>> ELSE Step(g[i - 1], i)
    <3>1. CASE i = n + 1
      <4>1. g[i - 1] = w[n] /\ i # 0 /\ g[i] = Step(w[n], i)
        BY <3>1
      <4> HIDE DEF g
      <4> QED BY <4>1
    <3>2. CASE i # n + 1
      <4>1. i \in 0 .. n /\ (i # 0 => i - 1 \in 0 .. n)
        BY <3>2
      <4>2. w[i] = IF i = 0 THEN <<>> ELSE Step(w[i - 1], i)
        BY <2>1, <4>1
      <4> HIDE DEF g
      <4> QED BY <2>2, <4>1, <4>2
    <3> QED BY <3>1, <3>2
  <2>4. Solves(g, n + 1)
    BY <2>3
  <2> HIDE DEF Solves, g
  <2> QED BY <2>4
<1>3. \E w : Solves(w, N)
  <2> HIDE DEF S
  <2>1. N \in S
    BY <1>0, <1>1, <1>2, SetInduction
  <2> HIDE DEF Solves
  <2> QED BY <2>1 DEF S
<1> DEFINE u == CHOOSE w : Solves(w, N)
<1>4. Solves(u, N)
  <2> HIDE DEF Solves
  <2> QED BY <1>3
<1>5. Those(s, T) = u[N]
  BY DEF Those
<1>6. Chooses(u, s, T)
  <2> HIDE DEF Step, u
  <2>1. u = [i \in 0 .. N |-> IF i = 0 THEN <<>> ELSE Step(u[i - 1], i)]
    BY <1>4
  <2>2. u[0] = <<>> /\ \A i \in 1 .. N : u[i] = Step(u[i - 1], i)
    BY <1>0, <2>1
  <2> QED BY <2>2 DEF Chooses, Step
<1> HIDE DEF u
<1> QED BY <1>5, <1>6

(* Those(s, T) is a list of elements of s at indexes in T, and of all of them. *)
ChosenFrom(v, s, T, n) ==
    /\ IsAList(v)
    /\ \A k \in 1 .. Len(v) : \E i \in 1 .. n : i \in T /\ v[k] = s[i]
    /\ \A i \in 1 .. n : i \in T => \E k \in 1 .. Len(v) : v[k] = s[i]

LEMMA ThoseAre ==
    ASSUME NEW T, NEW s, IsAList(s)
    PROVE  ChosenFrom(Those(s, T), s, T, Len(s))
<1>1. PICK w : Chooses(w, s, T) /\ Those(s, T) = w[Len(s)]
  BY ThoseAreChosen
<1>2. Len(s) \in Nat
  BY DEF IsAList
<1> DEFINE P == {n \in 0 .. Len(s) : ChosenFrom(w[n], s, T, n)}
<1>3. 0 \in P
  <2>1. IsAList(<<>>) /\ Len(<<>>) = 0
    BY DEF IsAList
  <2>2. w[0] = <<>>
    BY <1>1 DEF Chooses
  <2> QED BY <1>2, <2>1, <2>2 DEF ChosenFrom
<1>4. ASSUME NEW n \in 1 .. Len(s), n - 1 \in P PROVE n \in P
  <2> DEFINE v == w[n - 1]
             x == w[n]
  <2>1. IsAList(v)
    BY <1>4 DEF ChosenFrom
  <2>2. \A k \in 1 .. Len(v) : \E i \in 1 .. n - 1 : i \in T /\ v[k] = s[i]
    BY <1>4 DEF ChosenFrom
  <2>3. \A i \in 1 .. n - 1 : i \in T => \E k \in 1 .. Len(v) : v[k] = s[i]
    BY <1>4 DEF ChosenFrom
  <2>4. x = IF n \in T THEN Append(v, s[n]) ELSE v
    BY <1>1 DEF Chooses
  <2>5. Len(v) \in Nat /\ n \in Nat /\ n \in 0 .. Len(s)
    BY <1>2, <2>1 DEF IsAList
  <2> HIDE DEF v, x
  <2>6. CASE n \in T
    <3>1. /\ IsAList(x) /\ Len(x) = Len(v) + 1 /\ x[Len(v) + 1] = s[n]
          /\ \A i \in 1 .. Len(v) : x[i] = v[i]
      BY <2>1, <2>4, <2>6, AppendIs
    <3>2. ASSUME NEW k \in 1 .. Len(x) PROVE \E i \in 1 .. n : i \in T /\ x[k] = s[i]
      <4>1. CASE k = Len(v) + 1
        BY <2>6, <3>1, <4>1
      <4>2. CASE k # Len(v) + 1
        <5>1. k \in 1 .. Len(v)
          BY <2>5, <3>1, <4>2
        <5>2. PICK i \in 1 .. n - 1 : i \in T /\ v[k] = s[i]
          BY <2>2, <5>1
        <5>3. i \in 1 .. n
          BY <2>5
        <5> QED BY <3>1, <5>1, <5>2, <5>3
      <4> QED BY <4>1, <4>2
    <3>3. ASSUME NEW i \in 1 .. n, i \in T PROVE \E k \in 1 .. Len(x) : x[k] = s[i]
      <4>1. CASE i = n
        <5>1. Len(v) + 1 \in 1 .. Len(x)
          BY <2>5, <3>1
        <5> QED BY <3>1, <4>1, <5>1
      <4>2. CASE i # n
        <5>1. i \in 1 .. n - 1
          BY <2>5, <4>2
        <5>2. PICK k \in 1 .. Len(v) : v[k] = s[i]
          BY <2>3, <3>3, <5>1
        <5>3. k \in 1 .. Len(x)
          BY <2>5, <3>1
        <5> QED BY <3>1, <5>2, <5>3
      <4> QED BY <4>1, <4>2
    <3> QED BY <2>5, <3>1, <3>2, <3>3 DEF ChosenFrom, x
  <2>7. CASE n \notin T
    <3>1. x = v
      BY <2>4, <2>7
    <3>2. ASSUME NEW k \in 1 .. Len(v) PROVE \E i \in 1 .. n : i \in T /\ v[k] = s[i]
      <4>1. PICK i \in 1 .. n - 1 : i \in T /\ v[k] = s[i]
        BY <2>2
      <4>2. i \in 1 .. n
        BY <2>5
      <4> QED BY <4>1, <4>2
    <3>3. ASSUME NEW i \in 1 .. n, i \in T PROVE \E k \in 1 .. Len(v) : v[k] = s[i]
      <4>1. i \in 1 .. n - 1
        BY <2>5, <2>7, <3>3
      <4> QED BY <2>3, <3>3, <4>1
    <3> QED BY <2>1, <2>5, <3>1, <3>2, <3>3 DEF ChosenFrom, x
  <2> QED BY <2>6, <2>7
<1>5. \A n \in 0 .. Len(s) : n \in P
  <2> HIDE DEF P
  <2> QED BY <1>2, <1>3, <1>4, CountInduction
<1> QED BY <1>1, <1>2, <1>5

(* The loop over commands, as a recursion on their number. *)
LEMMA MovedUpToIs ==
    ASSUME NEW g, NEW m, Len(g.loads) \in Nat
    PROVE  LET W == MovedUpTo(g, m) IN
           /\ W[0] = [f |-> g, err |-> FALSE]
           /\ \A i \in 1 .. Len(g.loads) : W[i] = MoveLoad(g, m, W[i - 1], i)
<1> DEFINE a == [f |-> g, err |-> FALSE]
           N == Len(g.loads)
           Step(v, i) == MoveLoad(g, m, v, i)
           Solves(w, n) == w = [i \in 0 .. n |-> IF i = 0 THEN a ELSE Step(w[i - 1], i)]
           S == {n \in Nat : \E w : Solves(w, n)}
<1>1. 0 \in S
  <2> DEFINE w == [i \in 0 .. 0 |-> a]
  <2>1. Solves(w, 0)
    <3> HIDE DEF Step
    <3> QED OBVIOUS
  <2> HIDE DEF Solves, w
  <2> QED BY <2>1
<1>2. ASSUME NEW n \in Nat, n \in S PROVE n + 1 \in S
  <2>1. PICK w : Solves(w, n)
    BY <1>2
  <2> HIDE DEF Step, a
  <2> DEFINE g1 == [i \in 0 .. n + 1 |-> IF i = n + 1 THEN Step(w[n], n + 1) ELSE w[i]]
  <2>2. \A i \in 0 .. n : g1[i] = w[i]
    OBVIOUS
  <2>3. ASSUME NEW i \in 0 .. n + 1
        PROVE  g1[i] = IF i = 0 THEN a ELSE Step(g1[i - 1], i)
    <3>1. CASE i = n + 1
      <4>1. g1[i - 1] = w[n] /\ i # 0 /\ g1[i] = Step(w[n], i)
        BY <3>1
      <4> HIDE DEF g1
      <4> QED BY <4>1
    <3>2. CASE i # n + 1
      <4>1. i \in 0 .. n /\ (i # 0 => i - 1 \in 0 .. n)
        BY <3>2
      <4>2. w[i] = IF i = 0 THEN a ELSE Step(w[i - 1], i)
        BY <2>1, <4>1
      <4> HIDE DEF g1
      <4> QED BY <2>2, <4>1, <4>2
    <3> QED BY <3>1, <3>2
  <2>4. Solves(g1, n + 1)
    BY <2>3
  <2> HIDE DEF Solves, g1
  <2> QED BY <2>4
<1>3. \E w : Solves(w, N)
  <2> HIDE DEF S
  <2>1. N \in S
    BY <1>1, <1>2, SetInduction
  <2> HIDE DEF Solves
  <2> QED BY <2>1 DEF S
<1> DEFINE W == MovedUpTo(g, m)
<1>4. W = CHOOSE w : Solves(w, N)
  BY DEF MovedUpTo
<1>5. Solves(W, N)
  <2> HIDE DEF Solves, W
  <2> QED BY <1>3, <1>4
<1>6. W[0] = a /\ \A i \in 1 .. N : W[i] = Step(W[i - 1], i)
  <2> HIDE DEF Step, W, a
  <2>1. W = [i \in 0 .. N |-> IF i = 0 THEN a ELSE Step(W[i - 1], i)]
    BY <1>5 DEF W
  <2>2. N \in Nat
    OBVIOUS
  <2> HIDE DEF N
  <2> QED BY ONLY <2>1, <2>2
<1> HIDE DEF S, Solves
<1> QED BY ONLY <1>6 DEF W, N, Step, a

(* The loop over what is copied. *)
LEMMA CopiedUpToIs ==
    ASSUME NEW g, NEW ds, Len(ds) \in Nat
    PROVE  LET W == CopiedUpTo(g, ds) IN
           /\ W[0] = [f |-> g, le |-> <<>>, err |-> FALSE]
           /\ \A i \in 1 .. Len(ds) : W[i] = CopyNext(W[i - 1], ds[i])
<1> DEFINE a == [f |-> g, le |-> <<>>, err |-> FALSE]
           N == Len(ds)
           Step(v, i) == CopyNext(v, ds[i])
           Solves(w, n) == w = [i \in 0 .. n |-> IF i = 0 THEN a ELSE Step(w[i - 1], i)]
           S == {n \in Nat : \E w : Solves(w, n)}
<1>1. 0 \in S
  <2> DEFINE w == [i \in 0 .. 0 |-> a]
  <2>1. Solves(w, 0)
    <3> HIDE DEF Step
    <3> QED OBVIOUS
  <2> HIDE DEF Solves, w
  <2> QED BY <2>1
<1>2. ASSUME NEW n \in Nat, n \in S PROVE n + 1 \in S
  <2>1. PICK w : Solves(w, n)
    BY <1>2
  <2> HIDE DEF Step, a
  <2> DEFINE g1 == [i \in 0 .. n + 1 |-> IF i = n + 1 THEN Step(w[n], n + 1) ELSE w[i]]
  <2>2. \A i \in 0 .. n : g1[i] = w[i]
    OBVIOUS
  <2>3. ASSUME NEW i \in 0 .. n + 1
        PROVE  g1[i] = IF i = 0 THEN a ELSE Step(g1[i - 1], i)
    <3>1. CASE i = n + 1
      <4>1. g1[i - 1] = w[n] /\ i # 0 /\ g1[i] = Step(w[n], i)
        BY <3>1
      <4> HIDE DEF g1
      <4> QED BY <4>1
    <3>2. CASE i # n + 1
      <4>1. i \in 0 .. n /\ (i # 0 => i - 1 \in 0 .. n)
        BY <3>2
      <4>2. w[i] = IF i = 0 THEN a ELSE Step(w[i - 1], i)
        BY <2>1, <4>1
      <4> HIDE DEF g1
      <4> QED BY <2>2, <4>1, <4>2
    <3> QED BY <3>1, <3>2
  <2>4. Solves(g1, n + 1)
    BY <2>3
  <2> HIDE DEF Solves, g1
  <2> QED BY <2>4
<1>3. \E w : Solves(w, N)
  <2> HIDE DEF S
  <2>1. N \in S
    BY <1>1, <1>2, SetInduction
  <2> HIDE DEF Solves
  <2> QED BY <2>1 DEF S
<1> DEFINE W == CopiedUpTo(g, ds)
<1>4. W = CHOOSE w : Solves(w, N)
  BY DEF CopiedUpTo
<1>5. Solves(W, N)
  <2> HIDE DEF Solves, W
  <2> QED BY <1>3, <1>4
<1>6. W[0] = a /\ \A i \in 1 .. N : W[i] = Step(W[i - 1], i)
  <2> HIDE DEF Step, W, a
  <2>1. W = [i \in 0 .. N |-> IF i = 0 THEN a ELSE Step(W[i - 1], i)]
    BY <1>5 DEF W
  <2>2. N \in Nat
    OBVIOUS
  <2> HIDE DEF N
  <2> QED BY ONLY <2>1, <2>2
<1> HIDE DEF S, Solves
<1> QED BY ONLY <1>6 DEF W, N, Step, a

(* The loop over symbols. *)
LEMMA WrittenUpToIs ==
    ASSUME NEW g, NEW es, Len(es) \in Nat
    PROVE  LET W == WrittenUpTo(g, es) IN
           /\ W[0] = [pool |-> [at |-> NoNames, len |-> 1, err |-> FALSE], table |-> <<>>]
           /\ \A i \in 1 .. Len(es) : W[i] = writeRebuiltSymbol(g, W[i - 1], es[i])
<1> DEFINE a == [pool |-> [at |-> NoNames, len |-> 1, err |-> FALSE], table |-> <<>>]
           N == Len(es)
           Step(v, i) == writeRebuiltSymbol(g, v, es[i])
           Solves(w, n) == w = [i \in 0 .. n |-> IF i = 0 THEN a ELSE Step(w[i - 1], i)]
           S == {n \in Nat : \E w : Solves(w, n)}
<1>1. 0 \in S
  <2> DEFINE w == [i \in 0 .. 0 |-> a]
  <2>1. Solves(w, 0)
    <3> HIDE DEF Step
    <3> QED OBVIOUS
  <2> HIDE DEF Solves, w
  <2> QED BY <2>1
<1>2. ASSUME NEW n \in Nat, n \in S PROVE n + 1 \in S
  <2>1. PICK w : Solves(w, n)
    BY <1>2
  <2> HIDE DEF Step, a
  <2> DEFINE g1 == [i \in 0 .. n + 1 |-> IF i = n + 1 THEN Step(w[n], n + 1) ELSE w[i]]
  <2>2. \A i \in 0 .. n : g1[i] = w[i]
    OBVIOUS
  <2>3. ASSUME NEW i \in 0 .. n + 1
        PROVE  g1[i] = IF i = 0 THEN a ELSE Step(g1[i - 1], i)
    <3>1. CASE i = n + 1
      <4>1. g1[i - 1] = w[n] /\ i # 0 /\ g1[i] = Step(w[n], i)
        BY <3>1
      <4> HIDE DEF g1
      <4> QED BY <4>1
    <3>2. CASE i # n + 1
      <4>1. i \in 0 .. n /\ (i # 0 => i - 1 \in 0 .. n)
        BY <3>2
      <4>2. w[i] = IF i = 0 THEN a ELSE Step(w[i - 1], i)
        BY <2>1, <4>1
      <4> HIDE DEF g1
      <4> QED BY <2>2, <4>1, <4>2
    <3> QED BY <3>1, <3>2
  <2>4. Solves(g1, n + 1)
    BY <2>3
  <2> HIDE DEF Solves, g1
  <2> QED BY <2>4
<1>3. \E w : Solves(w, N)
  <2> HIDE DEF S
  <2>1. N \in S
    BY <1>1, <1>2, SetInduction
  <2> HIDE DEF Solves
  <2> QED BY <2>1 DEF S
<1> DEFINE W == WrittenUpTo(g, es)
<1>4. W = CHOOSE w : Solves(w, N)
  BY DEF WrittenUpTo
<1>5. Solves(W, N)
  <2> HIDE DEF Solves, W
  <2> QED BY <1>3, <1>4
<1>6. W[0] = a /\ \A i \in 1 .. N : W[i] = Step(W[i - 1], i)
  <2> HIDE DEF Step, W, a
  <2>1. W = [i \in 0 .. N |-> IF i = 0 THEN a ELSE Step(W[i - 1], i)]
    BY <1>5 DEF W
  <2>2. N \in Nat
    OBVIOUS
  <2> HIDE DEF N
  <2> QED BY ONLY <2>1, <2>2
<1> HIDE DEF S, Solves
<1> QED BY ONLY <1>6 DEF W, N, Step, a

(* What the loops over commands never touch of a File.                     *)
KeptFields == {"inCache", "loads", "sects", "syms", "indirect", "trie", "ranges"}
SameSource(h, g) ==
    /\ KeptFields \subseteq DOMAIN h
    /\ h.inCache = g.inCache /\ h.syms = g.syms /\ h.indirect = g.indirect /\ h.trie = g.trie

Movable(h, g) == SameSource(h, g) /\ IsAList(h.loads)

LEMMA ChangedList ==
    ASSUME NEW s, IsAList(s), NEW i, NEW x
    PROVE  IsAList([s EXCEPT ![i] = x])
<1> DEFINE t == [s EXCEPT ![i] = x]
           n == Len(s)
<1>1. n \in Nat /\ DOMAIN s = 1 .. n
  BY DEF IsAList
<1> HIDE DEF n
<1>2. t = [k \in 1 .. n |-> t[k]]
  BY <1>1
<1> HIDE DEF t
<1> QED BY ONLY <1>1, <1>2, BuiltList DEF t

LEMMA MovingPartsKeeps ==
    ASSUME NEW h, NEW g, SameSource(h, g), NEW x, IsAList(x), NEW y
    PROVE  Movable([h EXCEPT !.loads = x, !.sects = y], g)
  BY DEF SameSource, KeptFields, Movable

(* One command. *)
LEMMA MoveLoadKeeps ==
    ASSUME NEW g, NEW g0, NEW m, NEW i, NEW st, DOMAIN st = {"f", "err"}, Movable(st.f, g)
    PROVE  LET new == MoveLoad(g0, m, st, i) IN DOMAIN new = {"f", "err"} /\ Movable(new.f, g)
<1> DEFINE l == st.f.loads[i]
           moved == MoveFields(l, m)
           seg == MoveSegment(st.f, m, i)
           other == [st.f EXCEPT !.loads[i] = moved.load]
<1>0. SameSource(st.f, g) /\ \A x : IsAList([st.f.loads EXCEPT ![i] = x])
  BY ChangedList DEF Movable
<1>1. Movable(seg, g)
  <2>1. PICK x, y : seg = [st.f EXCEPT !.loads[i] = x, !.sects = y]
    BY ZenonT(60) DEF MoveSegment
  <2> DEFINE loads == [st.f.loads EXCEPT ![i] = x]
  <2>2. seg = [st.f EXCEPT !.loads = loads, !.sects = y]
    BY ONLY <2>1
  <2>3. IsAList(loads)
    BY ONLY <1>0
  <2> HIDE DEF seg, loads
  <2> QED BY ONLY <1>0, <2>2, <2>3, MovingPartsKeeps
<1>2. Movable(other, g)
  <2> DEFINE loads == [st.f.loads EXCEPT ![i] = moved.load]
  <2>1. other = [st.f EXCEPT !.loads = loads]
    OBVIOUS
  <2>2. IsAList(loads)
    BY ONLY <1>0
  <2> HIDE DEF moved, other, loads
  <2> QED BY ONLY <1>0, <2>1, <2>2 DEF SameSource, KeptFields, Movable
<1> HIDE DEF seg, other
<1>3. MoveLoad(g0, m, st, i) \in {st, [st EXCEPT !.f = seg], [f |-> other, err |-> moved.err]}
  <2>1. MoveLoad(g0, m, st, i) =
          IF st.err THEN st
          ELSE IF IsSegment(l) THEN [st EXCEPT !.f = seg]
          ELSE IF l.cmd \in MovedAlways \/ (l.cmd \in MovedOutsideCaches /\ ~g0.inCache)
          THEN [f |-> other, err |-> moved.err] ELSE st
    BY ONLY DEF MoveLoad, moved, l, seg, other
  <2> HIDE DEF moved, l, seg, other
  <2> QED BY <2>1
<1> HIDE DEF moved
<1> QED BY <1>1, <1>2, <1>3

(* Every command. *)
LEMMA MovingKeeps ==
    ASSUME NEW g, NEW m, KeptFields \subseteq DOMAIN g, IsAList(g.loads)
    PROVE  Movable(optimizeLoadCommands(g, m).f, g)
<1> DEFINE W == MovedUpTo(g, m)
           N == Len(g.loads)
           P == {i \in 0 .. N : DOMAIN W[i] = {"f", "err"} /\ Movable(W[i].f, g)}
<1>0. N \in Nat
  BY DEF IsAList
<1>1. W[0] = [f |-> g, err |-> FALSE] /\ \A i \in 1 .. N : W[i] = MoveLoad(g, m, W[i - 1], i)
  BY <1>0, MovedUpToIs
<1> HIDE DEF W
<1>2. 0 \in P
  BY <1>0, <1>1 DEF SameSource, Movable
<1>3. ASSUME NEW i \in 1 .. N, i - 1 \in P PROVE i \in P
  <2> DEFINE v == W[i - 1]
  <2>1. DOMAIN v = {"f", "err"} /\ Movable(v.f, g)
    BY <1>3
  <2>2. W[i] = MoveLoad(g, m, v, i)
    BY <1>1
  <2> HIDE DEF v
  <2>3. DOMAIN W[i] = {"f", "err"} /\ Movable(W[i].f, g)
    BY ONLY <2>1, <2>2, MoveLoadKeeps
  <2>4. i \in 0 .. N
    BY <1>0
  <2> QED BY <2>3, <2>4
<1>4. \A i \in 0 .. N : i \in P
  <2> HIDE DEF P
  <2> QED BY <1>0, <1>2, <1>3, CountInduction
<1> QED BY <1>0, <1>4 DEF optimizeLoadCommands, W

(* One payload. *)
LEMMA CopyNextKeeps ==
    ASSUME NEW g, NEW d, NEW st, DOMAIN st = {"f", "le", "err"}, SameSource(st.f, g)
    PROVE  LET new == CopyNext(st, d) IN DOMAIN new = {"f", "le", "err"} /\ SameSource(new.f, g)
<1>1. \/ \E x : CopyNext(st, d) = [st EXCEPT !.le = x]
      \/ CopyNext(st, d) = [st EXCEPT !.err = TRUE]
      \/ \E x, y : CopyNext(st, d) = [st EXCEPT !.f.loads[d.i].at[d.x] = x, !.le = y]
  BY ZenonT(60) DEF CopyNext, CopyField
<1>2. ASSUME NEW x, NEW y
      PROVE  LET new == [st EXCEPT !.f.loads[d.i].at[d.x] = x, !.le = y] IN
             DOMAIN new = {"f", "le", "err"} /\ SameSource(new.f, g)
  BY ZenonT(40) DEF SameSource, KeptFields
<1> QED BY <1>1, <1>2

(* All of them. *)
LEMMA CopyingKeeps ==
    ASSUME NEW g, KeptFields \subseteq DOMAIN g, Len(Data(g)) \in Nat
    PROVE  SameSource(CopyData(g).f, g)
<1> DEFINE ds == Data(g)
           W == CopiedUpTo(g, ds)
           N == Len(ds)
           P == {i \in 0 .. N : DOMAIN W[i] = {"f", "le", "err"} /\ SameSource(W[i].f, g)}
<1> HIDE DEF ds
<1>0. N \in Nat
  BY DEF ds
<1>1. W[0] = [f |-> g, le |-> <<>>, err |-> FALSE] /\ \A i \in 1 .. N : W[i] = CopyNext(W[i - 1], ds[i])
  BY <1>0, CopiedUpToIs
<1> HIDE DEF W
<1>2. 0 \in P
  BY <1>0, <1>1 DEF SameSource
<1>3. ASSUME NEW i \in 1 .. N, i - 1 \in P PROVE i \in P
  <2> DEFINE v == W[i - 1]
  <2>1. DOMAIN v = {"f", "le", "err"} /\ SameSource(v.f, g)
    BY <1>3
  <2>2. W[i] = CopyNext(v, ds[i])
    BY <1>1
  <2> HIDE DEF v
  <2>3. DOMAIN W[i] = {"f", "le", "err"} /\ SameSource(W[i].f, g)
    BY ONLY <2>1, <2>2, CopyNextKeeps
  <2>4. i \in 0 .. N
    BY <1>0
  <2> QED BY <2>3, <2>4
<1>4. \A i \in 0 .. N : i \in P
  <2> HIDE DEF P
  <2> QED BY <1>0, <1>2, <1>3, CountInduction
<1> QED BY <1>0, <1>4 DEF CopyData, W, ds

(* What is copied is a list. *)
LEMMA PayloadsAreAList ==
    ASSUME NEW g, Len(g.loads) \in Nat, NEW cmd, NEW kind
    PROVE  IsAList(Payloads(g, cmd, kind))
<1> DEFINE is == IF cmd \in {"LAZY_LOAD_DYLIB_INFO", "SEGMENT_SPLIT_INFO"} THEN AllOfKind(g, cmd)
                 ELSE FirstOfKind(g, cmd)
           given == IF kind = "data" THEN is
                    ELSE Those(is, {k \in DOMAIN is : g.loads[is[k]].size["data"] # 0})
<1>1. IsAList(AllOfKind(g, cmd))
  <2> DEFINE s == [i \in 1 .. Len(g.loads) |-> i]
  <2>1. IsAList(s)
    <3>1. s = [i \in 1 .. Len(g.loads) |-> s[i]]
      OBVIOUS
    <3> HIDE DEF s
    <3> QED BY <3>1, BuiltList
  <2> HIDE DEF s
  <2> QED BY <2>1, ThoseAre DEF ChosenFrom, AllOfKind, s
<1>2. IsAList(FirstOfKind(g, cmd))
  <2>1. IsAList(<<>>)
    BY DEF IsAList
  <2>2. \A x : <<x>> \in Seq({x})
    OBVIOUS
  <2>3. \A x : IsAList(<<x>>)
    BY <2>2, SeqIsList
  <2> QED BY <2>1, <2>3 DEF FirstOfKind
<1>3. IsAList(is)
  BY <1>1, <1>2
<1> HIDE DEF is
<1>4. IsAList(given)
  BY <1>3, ThoseAre DEF ChosenFrom
<1> HIDE DEF given
<1> DEFINE n == 2 * Len(given)
           s == [k \in 1 .. n |-> IF k % 2 = 1 THEN Field(given[(k + 1) \div 2], "data", kind) ELSE Align]
<1>5. n \in Nat
  BY <1>4 DEF IsAList
<1>6. s = [k \in 1 .. n |-> s[k]]
  OBVIOUS
<1>7. Payloads(g, cmd, kind) = s
  BY DEF Payloads, is, given
<1> HIDE DEF n, s
<1> QED BY <1>5, <1>6, <1>7, BuiltList

LEMMA DataIsAList ==
    ASSUME NEW g, Len(g.loads) \in Nat
    PROVE  IsAList(Data(g))
<1>1. IsAList(DyldInfo(g))
  <2> DEFINE cmd == IF OfKind(g, "DYLD_INFO") # {} THEN "DYLD_INFO" ELSE "DYLD_INFO_ONLY"
             i == Min(OfKind(g, cmd))
             all == FieldsOf(cmd)
             given == Those(all, {k \in DOMAIN all : g.loads[i].size[all[k]] # 0})
             s == [k \in 1 .. Len(given) |-> Field(i, given[k], "data")]
  <2>1. IsAList(all)
    <3>1. \A a, b, c, d, e, x : <<a, b, c, d, e, x>> \in Seq({a, b, c, d, e, x})
      OBVIOUS
    <3>2. \A a, b, c, d, e : <<a, b, c, d, e>> \in Seq({a, b, c, d, e})
      OBVIOUS
    <3>3. \A a, b : <<a, b>> \in Seq({a, b})
      OBVIOUS
    <3>4. \A a : <<a>> \in Seq({a})
      OBVIOUS
    <3> QED BY <3>1, <3>2, <3>3, <3>4, SeqIsList DEF FieldsOf
  <2>2. IsAList(given)
    <3> HIDE DEF all
    <3> QED BY <2>1, ThoseAre DEF ChosenFrom
  <2> HIDE DEF given
  <2>3. s = [k \in 1 .. Len(given) |-> s[k]] /\ Len(given) \in Nat
    BY <2>2 DEF IsAList
  <2> HIDE DEF s
  <2>4. IsAList(s)
    BY <2>3, BuiltList
  <2>5. IsAList(Append(s, Align)) /\ IsAList(<<>>)
    BY <2>4, AppendIs DEF IsAList
  <2>6. DyldInfo(g) \in {<<>>, Append(s, Align)}
    BY DEF DyldInfo, s, given
  <2> QED BY <2>5, <2>6
<1> DEFINE p(cmd, kind) == Payloads(g, cmd, kind)
<1>2. \A cmd, kind : IsAList(p(cmd, kind))
  BY PayloadsAreAList
<1> HIDE DEF p
<1>3. \A s, t : IsAList(s) /\ IsAList(t) => IsAList(s \o t)
  BY JoinedLists
<1> QED BY <1>1, <1>2, <1>3 DEF Data, p

(* Whether an entry is a symbol of the table, with its index, or a new one. *)
FromTable(e, syms) == e.orig = -1 \/ \E i \in 1 .. Len(syms) : e = Entry(syms[i], i - 1)

LEMMA CollectedAre ==
    ASSUME NEW g, NEW locals, IsAList(g.syms), IsAList(locals)
    PROVE  LET c == Collected(g, locals) IN
           /\ IsAList(c)
           /\ \A k \in 1 .. Len(c) : FromTable(c[k], g.syms)
           /\ \A i \in 1 .. Len(g.syms) : g.syms[i].name # "<redacted>" =>
                 \E k \in 1 .. Len(c) : c[k] = Entry(g.syms[i], i - 1)
<1> DEFINE N == Len(g.syms)
           M == Len(locals)
           own == [i \in 1 .. N |-> Entry(g.syms[i], i - 1)]
           extras == [i \in 1 .. M |-> Entry(locals[i], -1)]
           T == {i \in DOMAIN own : own[i].sym.name # "<redacted>"}
           kept == Those(own, T)
           c == extras \o kept
<1>0. N \in Nat /\ M \in Nat
  BY DEF IsAList
<1>1. own = [i \in 1 .. N |-> own[i]] /\ extras = [i \in 1 .. M |-> extras[i]]
  OBVIOUS
<1>2. /\ DOMAIN own = 1 .. N /\ \A i \in 1 .. N : own[i] = Entry(g.syms[i], i - 1)
      /\ \A i \in 1 .. M : extras[i] = Entry(locals[i], -1)
  OBVIOUS
<1>3. Collected(g, locals) = c
  BY ONLY DEF Collected, c, kept, T, own, extras, N, M
<1> HIDE DEF own, extras, N, M
<1>4. IsAList(own) /\ Len(own) = N /\ IsAList(extras) /\ Len(extras) = M
  BY <1>0, <1>1, BuiltList
<1> HIDE DEF T
<1>5. ChosenFrom(kept, own, T, N)
  BY ONLY <1>4, ThoseAre DEF kept
<1>6. \A i \in 1 .. N : i \in T <=> g.syms[i].name # "<redacted>"
  BY <1>2 DEF T, Entry
<1> HIDE DEF kept
<1>7. /\ IsAList(c) /\ Len(c) = M + Len(kept) /\ Len(kept) \in Nat
      /\ \A i \in 1 .. M : c[i] = extras[i]
      /\ \A i \in 1 .. Len(kept) : c[M + i] = kept[i]
  <2>1. IsAList(kept)
    BY <1>5 DEF ChosenFrom
  <2>2. Len(kept) \in Nat
    BY <2>1 DEF IsAList
  <2> QED BY ONLY <1>4, <2>1, <2>2, JoinedLists DEF c
<1> HIDE DEF c
<1>8. ASSUME NEW k \in 1 .. Len(c) PROVE FromTable(c[k], g.syms)
  <2>1. CASE k \in 1 .. M
    <3>1. c[k] = Entry(locals[k], -1)
      BY <1>2, <1>7, <2>1
    <3> QED BY <3>1 DEF FromTable, Entry
  <2>2. CASE k \notin 1 .. M
    <3> DEFINE j == k - M
    <3>1. j \in 1 .. Len(kept) /\ k = M + j
      BY <1>0, <1>7, <2>2
    <3> HIDE DEF j
    <3>2. PICK i \in 1 .. N : kept[j] = own[i]
      BY <1>5, <3>1 DEF ChosenFrom
    <3>3. c[k] = Entry(g.syms[i], i - 1)
      BY <1>2, <1>7, <3>1, <3>2
    <3> QED BY <3>3 DEF FromTable, N
  <2> QED BY <2>1, <2>2
<1>9. ASSUME NEW i \in 1 .. N, g.syms[i].name # "<redacted>"
      PROVE  \E k \in 1 .. Len(c) : c[k] = Entry(g.syms[i], i - 1)
  <2>1. PICK j \in 1 .. Len(kept) : kept[j] = own[i]
    BY <1>5, <1>6, <1>9 DEF ChosenFrom
  <2> DEFINE k == M + j
  <2>2. k \in 1 .. Len(c)
    BY <1>0, <1>7
  <2>3. c[k] = Entry(g.syms[i], i - 1)
    BY <1>2, <1>7, <2>1
  <2> HIDE DEF k
  <2> QED BY <2>2, <2>3
<1> QED BY ONLY <1>3, <1>7, <1>8, <1>9 DEF N

(* What the trie adds are defined symbols that are not in the table. *)
LEMMA TrieEntriesAre ==
    ASSUME NEW g, IsAList(g.trie)
    PROVE  LET t == TrieEntries(g) IN
           IsAList(t) /\ \A k \in 1 .. Len(t) : t[k].orig = -1 /\ IsExtdef(t[k])
<1> DEFINE N == Len(g.trie)
           all == [i \in 1 .. N |-> Entry(ReExported(g.trie[i]), -1)]
           T == {i \in DOMAIN all : g.trie[i].reexport}
           kept == Those(all, T)
<1>0. N \in Nat
  BY DEF IsAList
<1>1. all = [i \in 1 .. N |-> all[i]]
  OBVIOUS
<1>2. \A i \in 1 .. N : all[i] = Entry(ReExported(g.trie[i]), -1)
  OBVIOUS
<1>3. TrieEntries(g) \in {<<>>, kept}
  BY ONLY DEF TrieEntries, kept, T, all, N
<1> HIDE DEF all, N
<1>4. IsAList(all) /\ Len(all) = N
  BY <1>0, <1>1, BuiltList
<1> HIDE DEF T
<1>5. ChosenFrom(kept, all, T, N)
  BY ONLY <1>4, ThoseAre DEF kept
<1> HIDE DEF kept
<1>6. IsAList(kept)
  BY <1>5 DEF ChosenFrom
<1>7. ASSUME NEW k \in 1 .. Len(kept) PROVE kept[k].orig = -1 /\ IsExtdef(kept[k])
  <2>1. PICK i \in 1 .. N : kept[k] = all[i]
    BY <1>5 DEF ChosenFrom
  <2>2. kept[k] = Entry(ReExported(g.trie[i]), -1)
    BY <1>2, <2>1
  <2> DEFINE y == ReExported(g.trie[i])
  <2>3. y.ext = TRUE /\ y.type = "indr"
    BY DEF ReExported
  <2> HIDE DEF y
  <2>4. kept[k].orig = -1 /\ kept[k].sym = y
    BY <2>2 DEF Entry, y
  <2>5. "indr" # "undef"
    OBVIOUS
  <2> QED BY ONLY <2>3, <2>4, <2>5, Zenon DEF IsExtdef
<1>8. IsAList(<<>>) /\ Len(<<>>) = 0
  BY DEF IsAList
<1>9. \A k \in 1 .. 0 : FALSE
  OBVIOUS
<1> QED BY ONLY <1>3, <1>6, <1>7, <1>8, <1>9

(* The groups, one behind the other. *)
Ranged(es, low, mid) ==
    \A k \in 1 .. Len(es) : /\ ~es[k].sym.ext <=> k <= low
                            /\ (es[k].sym.ext /\ es[k].sym.type = "undef") <=> k > low + mid

LEMMA GroupsAre ==
    ASSUME NEW g, NEW locals, IsAList(g.syms), IsAList(locals), IsAList(g.trie)
    PROVE  LET G == Grouped(g, locals)
               es == InOrder(G) IN
           /\ IsAList(es) /\ Len(es) = Len(G.local) + Len(G.extdef) + Len(G.undef)
           /\ Ranged(es, Len(G.local), Len(G.extdef))
           /\ \A k \in 1 .. Len(es) : FromTable(es[k], g.syms)
           /\ \A i \in 1 .. Len(g.syms) : g.syms[i].name # "<redacted>" =>
                 \E k \in 1 .. Len(es) : es[k] = Entry(g.syms[i], i - 1)
<1> DEFINE c == Collected(g, locals)
           TL == {i \in DOMAIN c : IsLocal(c[i])}
           TD == {i \in DOMAIN c : IsExtdef(c[i])}
           TU == {i \in DOMAIN c : IsUndef(c[i])}
           l == Those(c, TL)
           x == Those(c, TD)
           t == TrieEntries(g)
           d == x \o t
           u == Those(c, TU)
           N == Len(c)
<1>1. /\ IsAList(c)
      /\ \A k \in 1 .. N : FromTable(c[k], g.syms)
      /\ \A i \in 1 .. Len(g.syms) : g.syms[i].name # "<redacted>" =>
            \E k \in 1 .. N : c[k] = Entry(g.syms[i], i - 1)
  BY CollectedAre
<1>2. IsAList(t) /\ \A k \in 1 .. Len(t) : t[k].orig = -1 /\ IsExtdef(t[k])
  BY TrieEntriesAre
<1>3. Grouped(g, locals) = [local |-> l, extdef |-> d, undef |-> u]
  BY ONLY DEF Grouped, l, d, u, x, t, TL, TD, TU, c
<1> HIDE DEF c, t
<1>4. N \in Nat /\ DOMAIN c = 1 .. N
  BY <1>1 DEF IsAList
<1>5. /\ \A i \in 1 .. N : i \in TL <=> IsLocal(c[i])
      /\ \A i \in 1 .. N : i \in TD <=> IsExtdef(c[i])
      /\ \A i \in 1 .. N : i \in TU <=> IsUndef(c[i])
  BY <1>4
<1> HIDE DEF TL, TD, TU
<1>6. ChosenFrom(l, c, TL, N) /\ ChosenFrom(x, c, TD, N) /\ ChosenFrom(u, c, TU, N)
  BY ONLY <1>1, ThoseAre DEF l, x, u, N
<1> HIDE DEF l, x, u
<1>7. IsAList(l) /\ IsAList(x) /\ IsAList(u)
  BY ONLY <1>6 DEF ChosenFrom
<1>8. /\ IsAList(d) /\ Len(d) = Len(x) + Len(t)
      /\ \A i \in 1 .. Len(x) : d[i] = x[i]
      /\ \A i \in 1 .. Len(t) : d[Len(x) + i] = t[i]
  BY ONLY <1>2, <1>7, JoinedLists DEF d
<1>9. Len(l) \in Nat /\ Len(x) \in Nat /\ Len(u) \in Nat /\ Len(t) \in Nat /\ Len(d) \in Nat
  BY ONLY <1>2, <1>7, <1>8 DEF IsAList
<1> HIDE DEF d
<1> DEFINE ld == l \o d
           es == ld \o u
<1>10. /\ IsAList(ld) /\ Len(ld) = Len(l) + Len(d)
       /\ \A i \in 1 .. Len(l) : ld[i] = l[i]
       /\ \A i \in 1 .. Len(d) : ld[Len(l) + i] = d[i]
  BY ONLY <1>7, <1>8, JoinedLists DEF ld
<1> HIDE DEF ld
<1>11. /\ IsAList(es) /\ Len(es) = Len(ld) + Len(u)
       /\ \A i \in 1 .. Len(ld) : es[i] = ld[i]
       /\ \A i \in 1 .. Len(u) : es[Len(ld) + i] = u[i]
  BY ONLY <1>7, <1>10, JoinedLists DEF es
<1> HIDE DEF es
<1>12. \A e : e.orig = -1 => FromTable(e, g.syms)
  BY DEF FromTable
<1>13. \A k \in 1 .. Len(l) : IsLocal(l[k]) /\ FromTable(l[k], g.syms)
  BY <1>1, <1>5, <1>6 DEF ChosenFrom
<1>14. \A k \in 1 .. Len(x) : IsExtdef(x[k]) /\ FromTable(x[k], g.syms)
  BY <1>1, <1>5, <1>6 DEF ChosenFrom
<1>15. \A k \in 1 .. Len(u) : IsUndef(u[k]) /\ FromTable(u[k], g.syms)
  BY <1>1, <1>5, <1>6 DEF ChosenFrom
<1>16. ASSUME NEW k \in 1 .. Len(d) PROVE IsExtdef(d[k]) /\ FromTable(d[k], g.syms)
  <2>1. CASE k \in 1 .. Len(x)
    BY <1>8, <1>14, <2>1
  <2>2. CASE k \notin 1 .. Len(x)
    <3> DEFINE j == k - Len(x)
    <3>1. j \in 1 .. Len(t) /\ k = Len(x) + j
      BY <1>8, <1>9, <2>2
    <3> HIDE DEF j
    <3>2. d[k] = t[j]
      BY <1>8, <3>1
    <3> QED BY <1>2, <1>12, <3>1, <3>2
  <2> QED BY <2>1, <2>2
<1>17. ASSUME NEW k \in 1 .. Len(es)
       PROVE  /\ FromTable(es[k], g.syms)
              /\ \/ k <= Len(l) /\ IsLocal(es[k])
                 \/ k > Len(l) /\ k <= Len(l) + Len(d) /\ IsExtdef(es[k])
                 \/ k > Len(l) + Len(d) /\ IsUndef(es[k])
  <2>1. CASE k \in 1 .. Len(l)
    <3>1. es[k] = l[k]
      <4>1. k \in 1 .. Len(ld)
        BY ONLY <1>9, <1>10, <2>1
      <4> QED BY ONLY <1>10, <1>11, <2>1, <4>1
    <3>2. k <= Len(l)
      BY <2>1
    <3> QED BY ONLY <1>13, <2>1, <3>1, <3>2
  <2>2. CASE k \notin 1 .. Len(l) /\ k \in 1 .. Len(ld)
    <3> DEFINE j == k - Len(l)
    <3>1. j \in 1 .. Len(d) /\ k = Len(l) + j
      BY <1>9, <1>10, <2>2
    <3>2. k > Len(l) /\ k <= Len(l) + Len(d)
      BY <1>9, <3>1
    <3> HIDE DEF j
    <3>3. es[k] = d[j]
      BY <1>10, <1>11, <2>2, <3>1
    <3> QED BY ONLY <1>16, <3>1, <3>2, <3>3
  <2>3. CASE k \notin 1 .. Len(ld)
    <3> DEFINE j == k - Len(ld)
    <3>1. j \in 1 .. Len(u) /\ k = Len(ld) + j
      BY <1>9, <1>10, <1>11, <2>3
    <3>2. k > Len(l) + Len(d)
      BY <1>9, <1>10, <3>1
    <3> HIDE DEF j
    <3>3. es[k] = u[j]
      BY <1>11, <3>1
    <3> QED BY ONLY <1>15, <3>1, <3>2, <3>3
  <2> QED BY <2>1, <2>2, <2>3
<1>18. Ranged(es, Len(l), Len(d))
  <2> SUFFICES ASSUME NEW k \in 1 .. Len(es)
               PROVE  /\ ~es[k].sym.ext <=> k <= Len(l)
                      /\ (es[k].sym.ext /\ es[k].sym.type = "undef") <=> k > Len(l) + Len(d)
    BY DEF Ranged
  <2>1. k \in Nat
    BY <1>9, <1>10, <1>11
  <2> DEFINE a == k <= Len(l)
             b == k > Len(l) + Len(d)
  <2>2. ~(a /\ b) /\ (k > Len(l) <=> ~a) /\ (k <= Len(l) + Len(d) <=> ~b)
    BY <1>9, <2>1
  <2>3. \/ a /\ IsLocal(es[k])
        \/ ~a /\ ~b /\ IsExtdef(es[k])
        \/ b /\ IsUndef(es[k])
    BY <1>17, <2>2
  <2> HIDE DEF a, b
  <2>4. (~es[k].sym.ext <=> a) /\ ((es[k].sym.ext /\ es[k].sym.type = "undef") <=> b)
    BY ONLY <2>2, <2>3, Zenon DEF IsLocal, IsExtdef, IsUndef
  <2> QED BY <2>4 DEF a, b
<1>19. ASSUME NEW i \in 1 .. Len(g.syms), g.syms[i].name # "<redacted>"
       PROVE  \E k \in 1 .. Len(es) : es[k] = Entry(g.syms[i], i - 1)
  <2>1. PICK k \in 1 .. N : c[k] = Entry(g.syms[i], i - 1)
    BY <1>1, <1>19
  <2>2. k \in TL \/ k \in TD \/ k \in TU
    BY <1>5 DEF IsLocal, IsExtdef, IsUndef
  <2>3. CASE k \in TL
    <3>1. PICK j \in 1 .. Len(l) : l[j] = c[k]
      BY <1>6, <2>3 DEF ChosenFrom
    <3>2. j \in 1 .. Len(es) /\ es[j] = l[j]
      BY <1>9, <1>10, <1>11
    <3> QED BY <2>1, <3>1, <3>2
  <2>4. CASE k \in TD
    <3>1. PICK j \in 1 .. Len(x) : x[j] = c[k]
      BY <1>6, <2>4 DEF ChosenFrom
    <3>2. j \in 1 .. Len(d) /\ d[j] = x[j]
      BY <1>8, <1>9
    <3> DEFINE q == Len(l) + j
    <3>3. q \in 1 .. Len(ld) /\ q \in 1 .. Len(es)
      <4>1. q \in Nat /\ q >= 1 /\ q <= Len(l) + Len(d)
        BY ONLY <1>9, <3>2
      <4> QED BY ONLY <1>9, <1>10, <1>11, <4>1
    <3>4. es[q] = d[j]
      BY <1>10, <1>11, <3>2, <3>3
    <3> HIDE DEF q
    <3> QED BY <2>1, <3>1, <3>2, <3>3, <3>4
  <2>5. CASE k \in TU
    <3>1. PICK j \in 1 .. Len(u) : u[j] = c[k]
      BY <1>6, <2>5 DEF ChosenFrom
    <3> DEFINE q == Len(ld) + j
    <3>2. q \in 1 .. Len(es)
      BY <1>9, <1>10, <1>11
    <3>3. es[q] = u[j]
      BY <1>11
    <3> HIDE DEF q
    <3> QED BY <2>1, <3>1, <3>2, <3>3
  <2> QED BY <2>2, <2>3, <2>4, <2>5
<1>20. InOrder(Grouped(g, locals)) = es
  BY <1>3 DEF InOrder, es, ld
<1>21. Len(es) = Len(l) + Len(d) + Len(u)
  BY <1>9, <1>10, <1>11
<1> DEFINE G == Grouped(g, locals)
<1>22. G.local = l /\ G.extdef = d /\ G.undef = u
  BY <1>3
<1> HIDE DEF G
<1> QED BY ONLY <1>11, <1>17, <1>18, <1>19, <1>20, <1>21, <1>22 DEF G

(* A name that was put into the pool, which keeps the others where they are. *)
IsPool(p) == DOMAIN p = {"at", "len", "err"}
LEMMA InterningKeeps ==
    ASSUME NEW p, IsPool(p), NEW name
    PROVE  LET q == internRebuiltSymbolString(p, name) IN
           /\ IsPool(q)
           /\ ~q.err => /\ ~p.err /\ name \in DOMAIN q.at
                        /\ \A n \in DOMAIN p.at : n \in DOMAIN q.at /\ q.at[n] = p.at[n]
<1> DEFINE q == internRebuiltSymbolString(p, name)
           at == [n \in DOMAIN p.at \cup {name} |-> IF n = name THEN p.len ELSE p.at[n]]
           len == p.len + Len(name) + 1
<1>1. CASE name \in DOMAIN p.at
  <2>1. q = p
    BY <1>1 DEF internRebuiltSymbolString
  <2> QED BY <1>1, <2>1
<1>2. CASE name \notin DOMAIN p.at /\ q = [p EXCEPT !.err = TRUE]
  <2> HIDE DEF q
  <2>1. IsPool(q) /\ q.err = TRUE
    BY <1>2 DEF IsPool
  <2> QED BY <2>1 DEF q
<1>3. CASE name \notin DOMAIN p.at /\ q = [at |-> at, len |-> len, err |-> p.err]
  <2>1. /\ name \in DOMAIN at
        /\ \A n \in DOMAIN p.at : n \in DOMAIN at /\ at[n] = p.at[n]
    BY <1>3
  <2> HIDE DEF q, at, len
  <2>2. IsPool(q) /\ q.at = at /\ q.err = p.err
    BY <1>3 DEF IsPool
  <2> QED BY <2>1, <2>2 DEF q
<1>4. q \in {p, [p EXCEPT !.err = TRUE], [at |-> at, len |-> len, err |-> p.err]}
  BY DEF internRebuiltSymbolString
<1>5. name \notin DOMAIN p.at => q = [p EXCEPT !.err = TRUE] \/ q = [at |-> at, len |-> len, err |-> p.err]
  BY DEF internRebuiltSymbolString
<1> HIDE DEF q, at, len
<1> QED BY <1>1, <1>2, <1>3, <1>5 DEF q

(* The table after n entries has one symbol for each, and finds its name.  *)
SymbolOf(sym, e, at) ==
    /\ sym.ext = e.sym.ext /\ sym.type = e.sym.type /\ sym.orig = e.orig
    /\ e.sym.name \in DOMAIN at /\ sym.name = at[e.sym.name]
TableOf(table, es, at, n) ==
    /\ IsAList(table) /\ Len(table) = n
    /\ \A k \in 1 .. n : SymbolOf(table[k], es[k], at)
WrittenSoFar(st, es, n) ==
    /\ DOMAIN st = {"pool", "table"} /\ IsPool(st.pool)
    /\ ~st.pool.err => TableOf(st.table, es, st.pool.at, n)

LEMMA WritingOne ==
    ASSUME NEW g, NEW es, NEW n \in Nat, NEW st, WrittenSoFar(st, es, n)
    PROVE  WrittenSoFar(writeRebuiltSymbol(g, st, es[n + 1]), es, n + 1)
<1> DEFINE e == es[n + 1]
           p1 == internRebuiltSymbolString(st.pool, e.sym.name)
           indirect == e.sym.type = "indr"
           p2 == IF indirect /\ e.sym.target # "" THEN internRebuiltSymbolString(p1, e.sym.target)
                 ELSE p1
           value == IF indirect /\ e.sym.target # "" /\ ~p2.err THEN p2.at[e.sym.target]
                    ELSE e.sym.value
           bad == p2.err \/ (indirect /\ e.sym.target = "") \/ (~g.is64 /\ value > MaxU32)
           sym == [name |-> p2.at[e.sym.name], value |-> value,
                   ext |-> e.sym.ext, type |-> e.sym.type, orig |-> e.orig]
           new == writeRebuiltSymbol(g, st, e)
<1>1. new = IF st.pool.err \/ bad THEN [st EXCEPT !.pool.err = TRUE]
            ELSE [st EXCEPT !.pool = p2, !.table = Append(@, sym)]
  BY ONLY DEF writeRebuiltSymbol, new, sym, bad, value, p2, indirect, p1
<1>2. /\ IsPool(p1)
      /\ ~p1.err => /\ ~st.pool.err /\ e.sym.name \in DOMAIN p1.at
                    /\ \A m \in DOMAIN st.pool.at : m \in DOMAIN p1.at /\ p1.at[m] = st.pool.at[m]
  <2>1. IsPool(st.pool)
    BY DEF WrittenSoFar
  <2> QED BY ONLY <2>1, InterningKeeps DEF p1
<1> HIDE DEF p1
<1>3. /\ IsPool(p2)
      /\ ~p2.err => /\ ~p1.err
                    /\ \A m \in DOMAIN p1.at : m \in DOMAIN p2.at /\ p2.at[m] = p1.at[m]
  <2>1. LET q == internRebuiltSymbolString(p1, e.sym.target) IN
        IsPool(q) /\ (~q.err => /\ ~p1.err
                                /\ \A m \in DOMAIN p1.at : m \in DOMAIN q.at /\ q.at[m] = p1.at[m])
    BY ONLY <1>2, InterningKeeps
  <2>2. p2 = internRebuiltSymbolString(p1, e.sym.target) \/ p2 = p1
    BY ONLY DEF p2
  <2> HIDE DEF p2
  <2> QED BY ONLY <1>2, <2>1, <2>2
<1> HIDE DEF p2, value
<1>4. sym.ext = e.sym.ext /\ sym.type = e.sym.type /\ sym.orig = e.orig /\ sym.name = p2.at[e.sym.name]
  OBVIOUS
<1> HIDE DEF sym, e
<1>5. CASE st.pool.err \/ bad
  <2>1. new = [st EXCEPT !.pool.err = TRUE]
    BY ONLY <1>1, <1>5
  <2> HIDE DEF new
  <2>2. new = [st EXCEPT !.pool = [st.pool EXCEPT !.err = TRUE]]
    BY ONLY <2>1
  <2> DEFINE q == [st.pool EXCEPT !.err = TRUE]
  <2>3. IsPool(q) /\ q.err = TRUE
    BY DEF WrittenSoFar, IsPool
  <2> HIDE DEF q
  <2>4. DOMAIN new = {"pool", "table"} /\ new.pool = q
    BY <2>2 DEF WrittenSoFar, q
  <2> QED BY ONLY <2>3, <2>4 DEF WrittenSoFar, new, e
<1>6. CASE ~(st.pool.err \/ bad)
  <2>1. ~st.pool.err /\ ~p2.err /\ new = [st EXCEPT !.pool = p2, !.table = Append(@, sym)]
    BY ONLY <1>1, <1>6 DEF bad
  <2> HIDE DEF new, bad
  <2> DEFINE t == Append(st.table, sym)
  <2>2. DOMAIN new = {"pool", "table"} /\ new.pool = p2 /\ new.table = t
    BY <2>1 DEF WrittenSoFar
  <2>3. IsAList(st.table) /\ Len(st.table) = n /\ \A k \in 1 .. n : SymbolOf(st.table[k], es[k], st.pool.at)
    BY <2>1 DEF WrittenSoFar, TableOf
  <2>4. /\ IsAList(t) /\ Len(t) = n + 1 /\ t[n + 1] = sym
        /\ \A k \in 1 .. n : t[k] = st.table[k]
    BY ONLY <2>3, AppendIs DEF t
  <2> HIDE DEF t
  <2>5. /\ e.sym.name \in DOMAIN p2.at
        /\ \A m \in DOMAIN st.pool.at : m \in DOMAIN p2.at /\ p2.at[m] = st.pool.at[m]
    BY ONLY <1>2, <1>3, <2>1
  <2>6. ASSUME NEW k \in 1 .. n + 1 PROVE SymbolOf(t[k], es[k], p2.at)
    <3>1. CASE k = n + 1
      BY ONLY <1>4, <2>4, <2>5, <3>1 DEF SymbolOf, e
    <3>2. CASE k # n + 1
      <4>1. k \in 1 .. n
        BY ONLY n \in Nat, k \in 1 .. n + 1, <3>2
      <4>2. SymbolOf(st.table[k], es[k], st.pool.at) /\ t[k] = st.table[k]
        BY ONLY <2>3, <2>4, <4>1
      <4> QED BY ONLY <2>5, <4>2 DEF SymbolOf
    <3> QED BY <3>1, <3>2
  <2>7. TableOf(t, es, p2.at, n + 1)
    BY ONLY <2>4, <2>6 DEF TableOf
  <2> QED BY ONLY <1>3, <2>2, <2>7 DEF WrittenSoFar, new, e
<1> QED BY <1>5, <1>6

LEMMA WritingAll ==
    ASSUME NEW g, NEW es, IsAList(es)
    PROVE  WrittenSoFar(WrittenUpTo(g, es)[Len(es)], es, Len(es))
<1> DEFINE W == WrittenUpTo(g, es)
           N == Len(es)
           P == {i \in 0 .. N : WrittenSoFar(W[i], es, i)}
<1>0. N \in Nat
  BY DEF IsAList
<1>1. /\ W[0] = [pool |-> [at |-> NoNames, len |-> 1, err |-> FALSE], table |-> <<>>]
      /\ \A i \in 1 .. N : W[i] = writeRebuiltSymbol(g, W[i - 1], es[i])
  BY <1>0, WrittenUpToIs
<1> HIDE DEF W
<1>2. 0 \in P
  <2>1. IsAList(<<>>) /\ Len(<<>>) = 0
    BY DEF IsAList
  <2>2. DOMAIN W[0] = {"pool", "table"} /\ IsPool(W[0].pool) /\ W[0].table = <<>>
    BY <1>1 DEF IsPool
  <2>3. WrittenSoFar(W[0], es, 0)
    BY <2>1, <2>2 DEF WrittenSoFar, TableOf
  <2> QED BY <1>0, <2>3
<1>3. ASSUME NEW i \in 1 .. N, i - 1 \in P PROVE i \in P
  <2> DEFINE n == i - 1
             v == W[n]
  <2>1. n \in Nat /\ i = n + 1 /\ i \in 0 .. N
    BY <1>0
  <2>2. WrittenSoFar(v, es, n)
    BY <1>3
  <2>3. W[i] = writeRebuiltSymbol(g, v, es[i])
    BY <1>1
  <2> HIDE DEF n, v
  <2>4. WrittenSoFar(writeRebuiltSymbol(g, v, es[n + 1]), es, n + 1)
    BY ONLY <2>1, <2>2, WritingOne
  <2>5. WrittenSoFar(W[i], es, i)
    BY ONLY <2>1, <2>3, <2>4
  <2> QED BY <2>1, <2>5
<1>4. \A i \in 0 .. N : i \in P
  <2> HIDE DEF P
  <2> QED BY ONLY <1>0, <1>2, <1>3, CountInduction
<1> QED BY <1>0, <1>4 DEF W

(* An indirect entry goes where the symbol it named went. *)
LEMMA RemappedIs ==
    ASSUME NEW indirect, NEW table, NEW n, IsAList(indirect), IsAList(table),
           LET r == remapIndirectSymbols(indirect, table, n) IN ~r.err
    PROVE  LET r == remapIndirectSymbols(indirect, table, n) IN
           \A j \in 1 .. Len(indirect) :
              IF Sentinel(indirect[j]) THEN r.list[j] = indirect[j]
              ELSE \E k \in 1 .. Len(table) : table[k].orig = indirect[j] /\ r.list[j] = k - 1
<1> DEFINE ok == \A i \in DOMAIN indirect :
                    Sentinel(indirect[i])
                      \/ (indirect[i] < n /\ NewIndex(table, indirect[i]) # {}
                            /\ Min(NewIndex(table, indirect[i])) - 1 < LocalMark)
           moved == [i \in DOMAIN indirect |->
                      IF Sentinel(indirect[i]) THEN indirect[i]
                      ELSE Min(NewIndex(table, indirect[i])) - 1]
           r == remapIndirectSymbols(indirect, table, n)
<1>1. r = [err |-> ~ok, list |-> IF ~ok THEN indirect ELSE moved]
  BY ONLY DEF remapIndirectSymbols, r, ok, moved
<1>2. ~r.err
  OBVIOUS
<1>3. ok /\ r.list = moved
  <2> HIDE DEF ok, moved, r
  <2>1. r.err = ~ok /\ r.list = IF ~ok THEN indirect ELSE moved
    BY <1>1
  <2> QED BY ONLY <1>2, <2>1, Zenon
<1> SUFFICES ASSUME NEW j \in 1 .. Len(indirect)
             PROVE  IF Sentinel(indirect[j]) THEN r.list[j] = indirect[j]
                    ELSE \E k \in 1 .. Len(table) : table[k].orig = indirect[j] /\ r.list[j] = k - 1
  OBVIOUS
<1> HIDE DEF r
<1>4. j \in DOMAIN indirect
  BY DEF IsAList
<1>5. CASE Sentinel(indirect[j])
  BY <1>3, <1>4, <1>5
<1>6. CASE ~Sentinel(indirect[j])
  <2> DEFINE T == NewIndex(table, indirect[j])
             k == Min(T)
  <2>1. T # {}
    BY ONLY <1>3, <1>4, <1>6
  <2>2. DOMAIN table = 1 .. Len(table) /\ Len(table) \in Nat
    BY DEF IsAList
  <2>3. T \subseteq Nat /\ \A x \in T : x \in 1 .. Len(table) /\ table[x].orig = indirect[j]
    BY <2>2 DEF NewIndex
  <2>4. r.list[j] = k - 1
    BY ONLY <1>3, <1>4, <1>6
  <2> HIDE DEF T
  <2>5. k \in T
    BY ONLY <2>1, <2>3, LeastIsIn
  <2> HIDE DEF k
  <2> QED BY <1>6, <2>3, <2>4, <2>5
<1> QED BY <1>5, <1>6

(* What is promised of the tables of an image taken out of a cache. *)
SameSymbol(x, sym, at) == x.type = sym.type /\ x.ext = sym.ext /\ x.name = at[sym.name]
TablesAgree(g, t, at, r, indirect) ==
    /\ Len(t) = r.local + r.extdef + r.undef
    /\ \A k \in DOMAIN t :
          /\ ~t[k].ext <=> k <= r.local
          /\ (t[k].ext /\ t[k].type = "undef") <=> k > r.local + r.extdef
    /\ \A i \in DOMAIN g.syms :
          g.syms[i].name # "<redacted>" => \E k \in DOMAIN t : SameSymbol(t[k], g.syms[i], at)
    /\ \A j \in DOMAIN g.indirect :
          IF Sentinel(g.indirect[j]) THEN indirect[j] = g.indirect[j]
          ELSE /\ indirect[j] + 1 \in DOMAIN t
               /\ SameSymbol(t[indirect[j] + 1], g.syms[g.indirect[j] + 1], at)

IsRead(g) ==
    /\ KeptFields \subseteq DOMAIN g
    /\ IsAList(g.loads) /\ IsAList(g.syms) /\ IsAList(g.trie) /\ IsAList(g.indirect)
    /\ \A j \in 1 .. Len(g.indirect) : g.indirect[j] \in Nat

RangesOf(G) == [local |-> Len(G.local), extdef |-> Len(G.extdef), undef |-> Len(G.undef)]

LEMMA WrittenTablesAgree ==
    ASSUME NEW g, IsRead(g), NEW locals, IsAList(locals),
           LET W == WrittenSymbols(g, Grouped(g, locals)) IN
           ~W.pool.err /\ LET ind == remapIndirectSymbols(g.indirect, W.table, Len(g.syms)) IN ~ind.err
    PROVE  LET G == Grouped(g, locals)
               W == WrittenSymbols(g, G)
               ind == remapIndirectSymbols(g.indirect, W.table, Len(g.syms)) IN
           TablesAgree(g, W.table, W.pool.at, RangesOf(G), ind.list)
<1> DEFINE G == Grouped(g, locals)
           es == InOrder(G)
           N == Len(es)
           W == WrittenSymbols(g, G)
           t == W.table
           at == W.pool.at
           ind == remapIndirectSymbols(g.indirect, t, Len(g.syms))
           r == RangesOf(G)
<1>1. IsAList(g.syms) /\ IsAList(g.trie) /\ IsAList(g.indirect) /\ \A j \in 1 .. Len(g.indirect) : g.indirect[j] \in Nat
  BY DEF IsRead
<1>2. /\ IsAList(es) /\ N = Len(G.local) + Len(G.extdef) + Len(G.undef)
      /\ Ranged(es, Len(G.local), Len(G.extdef))
      /\ \A k \in 1 .. N : FromTable(es[k], g.syms)
      /\ \A i \in 1 .. Len(g.syms) : g.syms[i].name # "<redacted>" =>
            \E k \in 1 .. N : es[k] = Entry(g.syms[i], i - 1)
  BY <1>1, GroupsAre
<1>3. ~W.pool.err /\ ~ind.err
  OBVIOUS
<1>4. WrittenSoFar(W, es, N)
  BY <1>2, WritingAll DEF WrittenSymbols
<1>5. r.local = Len(G.local) /\ r.extdef = Len(G.extdef) /\ r.undef = Len(G.undef)
  BY DEF RangesOf
<1> HIDE DEF G, W, r, es
<1>6. IsAList(t) /\ Len(t) = N /\ \A k \in 1 .. N : SymbolOf(t[k], es[k], at)
  BY <1>3, <1>4 DEF WrittenSoFar, TableOf
<1>7. \A j \in 1 .. Len(g.indirect) :
         IF Sentinel(g.indirect[j]) THEN ind.list[j] = g.indirect[j]
         ELSE \E k \in 1 .. N : t[k].orig = g.indirect[j] /\ ind.list[j] = k - 1
  <2> HIDE DEF t
  <2> DEFINE n == Len(g.syms)
             q == remapIndirectSymbols(g.indirect, t, n)
  <2>1. IsAList(g.indirect) /\ IsAList(t) /\ ~q.err
    BY ONLY <1>1, <1>3, <1>6 DEF ind
  <2> HIDE DEF n
  <2>2. \A j \in 1 .. Len(g.indirect) :
           IF Sentinel(g.indirect[j]) THEN q.list[j] = g.indirect[j]
           ELSE \E k \in 1 .. Len(t) : t[k].orig = g.indirect[j] /\ q.list[j] = k - 1
    BY ONLY <2>1, RemappedIs
  <2> QED BY ONLY <1>6, <2>2 DEF ind, n
<1> HIDE DEF t, at, ind
<1>8. N \in Nat /\ DOMAIN t = 1 .. N /\ DOMAIN g.syms = 1 .. Len(g.syms) /\ DOMAIN g.indirect = 1 .. Len(g.indirect)
  BY <1>1, <1>2, <1>6 DEF IsAList
<1>9. ASSUME NEW k \in 1 .. N, NEW i, es[k] = Entry(g.syms[i], i - 1)
      PROVE  SameSymbol(t[k], g.syms[i], at)
  <2>1. SymbolOf(t[k], es[k], at)
    BY <1>6
  <2>2. es[k].sym = g.syms[i]
    BY <1>9 DEF Entry
  <2> QED BY ONLY <2>1, <2>2 DEF SymbolOf, SameSymbol
<1>10. ASSUME NEW k \in DOMAIN t
       PROVE  /\ ~t[k].ext <=> k <= r.local
              /\ (t[k].ext /\ t[k].type = "undef") <=> k > r.local + r.extdef
  <2>1. k \in 1 .. N
    BY <1>8
  <2>2. t[k].ext = es[k].sym.ext /\ t[k].type = es[k].sym.type
    BY <1>6, <2>1 DEF SymbolOf
  <2>3. /\ ~es[k].sym.ext <=> k <= r.local
        /\ (es[k].sym.ext /\ es[k].sym.type = "undef") <=> k > r.local + r.extdef
    BY <1>2, <1>5, <2>1 DEF Ranged
  <2> QED BY ONLY <2>2, <2>3, Zenon
<1>11. ASSUME NEW i \in DOMAIN g.syms, g.syms[i].name # "<redacted>"
       PROVE  \E k \in DOMAIN t : SameSymbol(t[k], g.syms[i], at)
  BY <1>2, <1>8, <1>9, <1>11
<1>12. ASSUME NEW j \in DOMAIN g.indirect
       PROVE  IF Sentinel(g.indirect[j]) THEN ind.list[j] = g.indirect[j]
              ELSE /\ ind.list[j] + 1 \in DOMAIN t
                   /\ SameSymbol(t[ind.list[j] + 1], g.syms[g.indirect[j] + 1], at)
  <2>1. CASE Sentinel(g.indirect[j])
    BY <1>7, <1>8, <2>1
  <2>2. CASE ~Sentinel(g.indirect[j])
    <3>1. PICK k \in 1 .. N : t[k].orig = g.indirect[j] /\ ind.list[j] = k - 1
      BY <1>7, <1>8, <2>2
    <3>2. es[k].orig = g.indirect[j] /\ g.indirect[j] \in Nat
      <4>1. SymbolOf(t[k], es[k], at)
        BY <1>6
      <4> QED BY ONLY <1>1, <1>8, <3>1, <4>1, j \in DOMAIN g.indirect DEF SymbolOf
    <3>3. PICK i \in 1 .. Len(g.syms) : es[k] = Entry(g.syms[i], i - 1)
      <4>1. FromTable(es[k], g.syms)
        BY ONLY <1>2
      <4>2. es[k].orig # -1
        BY ONLY <3>2
      <4> QED BY ONLY <4>1, <4>2 DEF FromTable
    <3>4. i = g.indirect[j] + 1 /\ Len(g.syms) \in Nat
      <4>1. es[k].orig = i - 1
        BY ONLY <3>3 DEF Entry
      <4>2. Len(g.syms) \in Nat
        BY ONLY <1>1 DEF IsAList
      <4>3. i \in Int
        BY ONLY <4>2
      <4> QED BY ONLY <3>2, <4>1, <4>2, <4>3
    <3>5. SameSymbol(t[k], g.syms[i], at)
      BY <1>9, <3>3
    <3>6. ind.list[j] + 1 = k
      BY <1>8, <3>1
    <3> QED BY <1>8, <2>2, <3>4, <3>5, <3>6
  <2> QED BY <2>1, <2>2
<1>13. Len(t) = r.local + r.extdef + r.undef
  BY <1>2, <1>5, <1>6
<1>14. TablesAgree(g, t, at, r, ind.list)
  BY ONLY <1>10, <1>11, <1>12, <1>13 DEF TablesAgree
<1> QED BY ONLY <1>14 DEF G, W, r, t, at, ind

(* A File with new tables. *)
Tabled(h, r, list) == {"ranges", "indirect"} \subseteq DOMAIN h /\ h.ranges = r /\ h.indirect = list

LEMMA LinkedIs ==
    ASSUME NEW g, NEW g0, NEW groups, NEW copied, NEW written, NEW ind, SameSource(copied.f, g0),
           LET L == Linked(g, groups, copied, written, ind) IN ~L.err
    PROVE  LET L == Linked(g, groups, copied, written, ind) IN
           /\ ~written.pool.err /\ ~ind.err
           /\ L.table = written.table /\ L.at = written.pool.at
           /\ Tabled(L.f, RangesOf(groups), ind.list)
<1> DEFINE L == Linked(g, groups, copied, written, ind)
<1>1. PICK off, F, le :
         LET done == [copied.f EXCEPT !.loads = F, !.indirect = ind.list, !.ranges = RangesOf(groups)] IN
         L = IF copied.err \/ written.pool.err \/ ind.err THEN NotBuilt(copied.f, TRUE)
             ELSE [ f |-> EmptyDataInCode(done, off), le |-> le,
                    table |-> written.table, at |-> written.pool.at, err |-> FALSE ]
  BY DEF Linked, RangesOf
<1> DEFINE done == [copied.f EXCEPT !.loads = F, !.indirect = ind.list, !.ranges = RangesOf(groups)]
           e == EmptyDataInCode(done, off)
           bad == copied.err \/ written.pool.err \/ ind.err
<1>2. Tabled(done, RangesOf(groups), ind.list) /\ "loads" \in DOMAIN done
  BY DEF Tabled, SameSource, KeptFields
<1>3. L = IF bad THEN NotBuilt(copied.f, TRUE)
          ELSE [f |-> e, le |-> le, table |-> written.table, at |-> written.pool.at, err |-> FALSE]
  BY ONLY <1>1
<1>4. ~L.err
  OBVIOUS
<1> HIDE DEF done, L, bad
<1>5. Tabled(e, RangesOf(groups), ind.list)
  <2>1. \/ e = done
        \/ \E i : e = [done EXCEPT !.loads[i].at["data"] = off]
    BY DEF EmptyDataInCode
  <2> HIDE DEF e
  <2> QED BY <1>2, <2>1 DEF Tabled
<1> HIDE DEF e
<1>6. ~bad
  <2> SUFFICES ASSUME bad PROVE FALSE
    OBVIOUS
  <2>1. L.err = TRUE
    BY <1>3 DEF NotBuilt
  <2> QED BY ONLY <1>4, <2>1
<1>7. L.table = written.table /\ L.at = written.pool.at /\ L.f = e
  BY ONLY <1>3, <1>6
<1>8. ~written.pool.err /\ ~ind.err
  BY ONLY <1>6 DEF bad
<1> HIDE DEF L
<1>9. /\ ~written.pool.err /\ ~ind.err
      /\ L.table = written.table /\ L.at = written.pool.at
      /\ Tabled(L.f, RangesOf(groups), ind.list)
  BY ONLY <1>5, <1>7, <1>8
<1> QED BY ONLY <1>9, ZenonT(60) DEF L

(* The result of a rebuilt __LINKEDIT. *)
TablesOf(g, b) == TablesAgree(g, b.table, b.at, b.f.ranges, b.f.indirect)

LEMMA RebuiltAgrees ==
    ASSUME NEW g, IsRead(g), NEW locals, IsAList(locals),
           LET b == optimizeLinkedit(g, locals) IN ~b.err
    PROVE  LET b == optimizeLinkedit(g, locals) IN
           TablesOf(g, b) /\ {"ranges", "indirect"} \subseteq DOMAIN b.f
<1> DEFINE b == optimizeLinkedit(g, locals)
           G == Grouped(g, locals)
           W == WrittenSymbols(g, G)
           ind == remapIndirectSymbols(g.indirect, W.table, Len(g.syms))
           C == CopyData(g)
           L == Linked(g, G, C, W, ind)
<1>1. b = L
  <2>1. b = NotBuilt(g, TRUE) \/ b = L
    BY ONLY DEF optimizeLinkedit, Regroup, Rebuild, b, L, G, W, ind, C
  <2>2. b # NotBuilt(g, TRUE)
    <3>1. ~b.err
      OBVIOUS
    <3> HIDE DEF b
    <3>2. LET n == NotBuilt(g, TRUE) IN n.err = TRUE
      BY DEF NotBuilt
    <3> QED BY <3>1, <3>2
  <2> QED BY ONLY <2>1, <2>2
<1>2. SameSource(C.f, g)
  <2>1. KeptFields \subseteq DOMAIN g /\ Len(g.loads) \in Nat
    BY DEF IsRead, IsAList
  <2>2. Len(Data(g)) \in Nat
    BY <2>1, DataIsAList DEF IsAList
  <2> QED BY ONLY <2>1, <2>2, CopyingKeeps DEF C
<1>3. ~L.err
  <2>1. ~b.err
    OBVIOUS
  <2> HIDE DEF b, L
  <2> QED BY ONLY <1>1, <2>1
<1> HIDE DEF C, b
<1>4. /\ ~W.pool.err /\ ~ind.err
      /\ L.table = W.table /\ L.at = W.pool.at /\ Tabled(L.f, RangesOf(G), ind.list)
  <2> HIDE DEF W, ind, G
  <2> QED BY ONLY <1>2, <1>3, LinkedIs DEF L
<1>5. TablesAgree(g, W.table, W.pool.at, RangesOf(G), ind.list)
  BY ONLY <1>4, IsRead(g), IsAList(locals), WrittenTablesAgree DEF W, ind, G
<1> HIDE DEF L, W, ind, G
<1>6. TablesOf(g, b) /\ {"ranges", "indirect"} \subseteq DOMAIN b.f
  BY ONLY <1>1, <1>4, <1>5 DEF Tabled, TablesOf
<1> QED BY ONLY <1>6 DEF b

(* From there to the end of Export nothing touches them. *)
LEMMA ExportKeepsTables ==
    ASSUME NEW g, IsRead(g), g.inCache, NEW locals, IsAList(locals),
           LET x == Exported(g, locals) IN ~x.err
    PROVE  TablesOf(g, Exported(g, locals))
<1> DEFINE m == SegMap(g)
           firstRel == textSegmentFirstSectionRelOff(g)
           moved == optimizeLoadCommands(g, m)
           h == moved.f
           b == optimizeLinkedit(h, locals)
           final == WithoutChainedFixups(b.f)
           x == Exported(g, locals)
<1>1. x = Moved(g, m, firstRel, locals, moved)
  BY ONLY DEF x, Exported, LaidOut, m, firstRel, moved
<1>2. ~x.err
  OBVIOUS
<1>3. Movable(h, g)
  <2>1. KeptFields \subseteq DOMAIN g /\ IsAList(g.loads)
    BY DEF IsRead
  <2> QED BY ONLY <2>1, MovingKeeps DEF h, moved
<1> HIDE DEF m, firstRel, moved, h, x
<1>4. \A y : x # Failed(y)
  <2> TAKE y
  <2> DEFINE z == Failed(y)
  <2>1. z.err = TRUE
    BY DEF Failed
  <2> HIDE DEF z
  <2> QED BY ONLY <1>2, <2>1 DEF z
<1>5. x = Built(g, m, firstRel, b)
  BY ONLY <1>1, <1>4, g.inCache DEF Moved, b, h
<1> HIDE DEF b
<1>6. ~b.err /\ x = WriteOut(g, m, firstRel, b, final)
  BY ONLY <1>4, <1>5, g.inCache DEF Built, final
<1>7. x.f = final /\ x.table = b.table /\ x.at = b.at
  <2> DEFINE w == WrittenFile(g, Regrown(g, m, Len(b.le)), firstRel, b, final, LoadsLen(final))
  <2>1. x = Finish(g, m, b, final, w)
    BY ONLY <1>6 DEF WriteOut, w
  <2> HIDE DEF w, final
  <2>2. x = [ err |-> FALSE, f |-> final, buf |-> w.buf, table |-> b.table,
              at |-> b.at, reserved |-> Reserved(g, m) ]
    BY ONLY <1>4, <2>1 DEF Finish
  <2> QED BY ONLY <2>2
<1>8. IsRead(h) /\ h.syms = g.syms /\ h.indirect = g.indirect
  BY <1>3 DEF Movable, SameSource, IsRead
<1>9. TablesOf(h, b) /\ {"ranges", "indirect"} \subseteq DOMAIN b.f
  <2> HIDE DEF h
  <2> QED BY ONLY <1>6, <1>8, IsAList(locals), RebuiltAgrees DEF b
<1>10. final.ranges = b.f.ranges /\ final.indirect = b.f.indirect
  <2>1. PICK loads : final = [b.f EXCEPT !.inCache = FALSE, !.loads = loads]
    BY DEF WithoutChainedFixups
  <2> HIDE DEF final
  <2> QED BY <1>9, <2>1
<1> HIDE DEF final
<1> QED BY ONLY <1>7, <1>8, <1>9, <1>10 DEF TablesOf, TablesAgree, x

(* Before Export the File is the image, after it what Export made of it.   *)
ExportedAsOpened ==
    /\ image \in Images
    /\ ~exported => opened = image
    /\ exported => \E locals \in Locals : out = Exported(image, locals)

(* RebuiltSymbolsAgree: in a dylib taken out of a shared cache the symbols *)
(* are grouped as LC_DYSYMTAB counts them, none of the table's is lost,    *)
(* and every indirect entry still names the symbol it named                *)
(* (writeRebuiltSymbol, remapIndirectSymbols, optimizeLinkedit, Export).   *)
THEOREM RebuiltTablesAgree ==
    ASSUME ImagesAreRead
    PROVE  ExportSpec => []RebuiltSymbolsAgree
<1>1. ExportInit => ExportedAsOpened
  BY DEF ExportInit, ExportedAsOpened
<1>2. ExportedAsOpened /\ [ExportNext]_exportVars => ExportedAsOpened'
  <2> SUFFICES ASSUME ExportedAsOpened, [ExportNext]_exportVars PROVE ExportedAsOpened'
    OBVIOUS
  <2>1. CASE Export
    <3>1. image' = image /\ exported' = TRUE /\ opened = image
      BY <2>1 DEF Export, ExportedAsOpened
    <3>2. \E locals \in Locals : out' = Exported(image, locals)
      BY ONLY <2>1, <3>1 DEF Export
    <3> QED BY <3>1, <3>2 DEF ExportedAsOpened
  <2>2. CASE UNCHANGED exportVars
    BY <2>2 DEF exportVars, ExportedAsOpened
  <2> QED BY <2>1, <2>2 DEF ExportNext
<1>3. ExportedAsOpened => RebuiltSymbolsAgree
  <2> SUFFICES ASSUME ExportedAsOpened, Done, image.inCache
               PROVE  TablesAgree(image, out.table, out.at, out.f.ranges, out.f.indirect)
    BY DEF RebuiltSymbolsAgree, TablesAgree, SameSymbol
  <2>1. PICK locals \in Locals : out = Exported(image, locals)
    BY DEF Done, ExportedAsOpened
  <2>2. IsRead(image) /\ IsAList(locals)
    BY DEF ExportedAsOpened, ImagesAreRead, IsRead, IsAList, IsASequence, KeptFields
  <2>3. LET x == Exported(image, locals) IN ~x.err
    BY ONLY <2>1, Done DEF Done
  <2>4. TablesOf(image, Exported(image, locals))
    BY ONLY <2>2, <2>3, image.inCache, ExportKeepsTables
  <2>5. TablesOf(image, out)
    BY ONLY <2>1, <2>4
  <2> QED BY ONLY <2>5, ZenonT(60) DEF TablesOf
<1> QED BY <1>1, <1>2, <1>3, PTL DEF ExportSpec
=============================================================================
