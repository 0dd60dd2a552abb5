------------------------- MODULE PacketCodecProofs -------------------------
(***************************************************************************)
(* Proofs about PacketCodec, for any size of the buffer, of a hand and of  *)
(* a key, and strings of any length: that a reader finds the fields that   *)
(* were written, and which lengths keep every program alive.               *)
(*                                                                         *)
(* The argument goes from the cells of a buffer to the programs.  WriteAll *)
(* and ReadAll are folds; here they are the states of a loop, and what     *)
(* holds of every state is a set of numbers without a least exception.     *)
(* A buffer holds fields when each lies where those before it end and      *)
(* nothing lies behind them (Holds); writing adds a field, and a new size  *)
(* at the start touches the first only.  A reader that is where the writer *)
(* was gives that field (Gives), or nothing where nothing was written, so  *)
(* what it found before it fails is a beginning of what it should find.    *)
(***************************************************************************)
EXTENDS PacketCodec, SequenceTheorems, WellFoundedInduction, TLAPS

(***************************************************************************)
(* Counting up.                                                            *)
(***************************************************************************)
LEMMA LeastNat ==
  ASSUME NEW S \in SUBSET Nat, S # {}
  PROVE  \E m \in S : \A k \in S : m <= k
<1>1. PICK m \in S : \A k \in S : <<k, m>> \notin OpToRel(<, Nat)
  BY NatLessThanWellFounded, WFMin
<1>2. \A k \in S : ~(k < m)
  BY <1>1 DEF OpToRel
<1> QED BY <1>2

\* Induction up to n, over a set.
LEMMA UpTo ==
  ASSUME NEW n \in Nat, NEW Q, 0 \in Q, \A k \in 1 .. n : k - 1 \in Q => k \in Q
  PROVE  \A k \in 0 .. n : k \in Q
<1> SUFFICES ASSUME NEW k \in 0 .. n, k \notin Q PROVE FALSE
  OBVIOUS
<1> DEFINE Bad == {i \in 0 .. n : i \notin Q}
<1>1. PICK m \in Bad : \A i \in Bad : m <= i
  <2>1. Bad \in SUBSET Nat /\ Bad # {}
    OBVIOUS
  <2> HIDE DEF Bad
  <2> QED BY <2>1, LeastNat
<1>2. m \in 1 .. n /\ m - 1 \in Q
  BY <1>1
<1> QED BY <1>1, <1>2

LEMMA MaxIs ==
  ASSUME NEW n \in Nat, NEW S \in SUBSET (1 .. n), S # {}
  PROVE  Max(S) \in S /\ \A y \in S : Max(S) >= y
<1> DEFINE Above == {m \in Nat : \A y \in S : y <= m}
<1>1. PICK m \in Above : \A i \in Above : m <= i
  <2>1. Above \in SUBSET Nat /\ n \in Above
    OBVIOUS
  <2> HIDE DEF Above
  <2> QED BY <2>1, LeastNat
<1>2. m \in S
  <2> SUFFICES ASSUME m \notin S PROVE FALSE
    OBVIOUS
  <2>1. PICK x \in S : TRUE
    OBVIOUS
  <2>2. x \in 1 .. n /\ x <= m /\ m \in Nat
    BY <1>1, <2>1
  <2>3. \A y \in S : y \in 1 .. n /\ y <= m - 1
    BY <1>1, <2>2
  <2>4. m - 1 \in Above
    BY <2>2, <2>3
  <2> QED BY <1>1, <2>2, <2>4
<1>3. \E x \in S : \A y \in S : x >= y
  BY <1>1, <1>2
<1> QED BY <1>3 DEF Max

(***************************************************************************)
(* WriteAll and ReadAll as loops.                                          *)
(***************************************************************************)
Step(does, b, acc, x) == IF does = "read" THEN Read(b, acc, x) ELSE Write(acc, x)
Folded(F, does, b, base, s, n) ==
  F = [t \in SUBSET (1 .. n) |->
         IF t = {} THEN base ELSE Step(does, b, F[t \ {Max(t)}], s[Max(t)])]

LEMMA FoldExists ==
  ASSUME NEW does, NEW b, NEW base, NEW s, NEW n \in Nat
  PROVE  \E F : Folded(F, does, b, base, s, n)
<1> DEFINE Q == {k \in 0 .. n : \E F : Folded(F, does, b, base, s, k)}
<1>1. 0 \in Q
  <2> DEFINE F == [t \in SUBSET (1 .. 0) |-> base]
  <2>1. Folded(F, does, b, base, s, 0)
    BY DEF Folded
  <2> QED BY <2>1
<1>2. ASSUME NEW k \in 1 .. n, k - 1 \in Q PROVE k \in Q
  <2>1. PICK F : Folded(F, does, b, base, s, k - 1)
    BY <1>2
  <2> DEFINE G == [t \in SUBSET (1 .. k) |->
                     IF k \in t THEN Step(does, b, F[t \ {k}], s[k]) ELSE F[t]]
  <2>2. ASSUME NEW t \in SUBSET (1 .. k)
        PROVE  G[t] = IF t = {} THEN base ELSE Step(does, b, G[t \ {Max(t)}], s[Max(t)])
    <3>1. CASE k \in t
      <4>1. Max(t) = k
        <5>1. k \in Nat /\ t # {}
          BY <3>1
        <5>2. Max(t) \in t /\ Max(t) >= k
          BY <3>1, <5>1, MaxIs
        <5>3. Max(t) \in 1 .. k
          BY <5>2
        <5> QED BY <5>2, <5>3
      <4>2. t \ {k} \in SUBSET (1 .. k) /\ k \notin t \ {k}
        OBVIOUS
      <4>3. G[t \ {k}] = F[t \ {k}]
        BY <4>2
      <4> QED BY <3>1, <4>1, <4>3
    <3>2. CASE k \notin t
      <4>1. t \in SUBSET (1 .. (k - 1))
        BY <3>2
      <4>2. F[t] = IF t = {} THEN base ELSE Step(does, b, F[t \ {Max(t)}], s[Max(t)])
        BY <2>1, <4>1 DEF Folded
      <4>3. G[t \ {Max(t)}] = F[t \ {Max(t)}]
        BY <3>2
      <4> QED BY <3>2, <4>2, <4>3
    <3> QED BY <3>1, <3>2
  <2>3. G = [t \in SUBSET (1 .. k) |->
               IF t = {} THEN base ELSE Step(does, b, G[t \ {Max(t)}], s[Max(t)])]
    BY <2>2
  <2> HIDE DEF G
  <2>4. Folded(G, does, b, base, s, k)
    BY <2>3 DEF Folded
  <2> QED BY <2>4
<1> HIDE DEF Q
<1>3. n \in Q
  BY <1>1, <1>2, UpTo
<1> QED BY <1>3 DEF Q

LEMMA FoldSteps ==
  ASSUME NEW does, NEW b, NEW base, NEW s, NEW n \in Nat, NEW F, Folded(F, does, b, base, s, n)
  PROVE  \E g : /\ g[0] = base /\ g[n] = F[1 .. n]
                /\ \A k \in 1 .. n : g[k] = Step(does, b, g[k - 1], s[k])
<1> DEFINE g == [k \in 0 .. n |-> F[1 .. k]]
<1>1. g[0] = base
  <2>1. 1 .. 0 = {} /\ {} \in SUBSET (1 .. n)
    OBVIOUS
  <2> QED BY <2>1 DEF Folded
<1>2. ASSUME NEW k \in 1 .. n PROVE g[k] = Step(does, b, g[k - 1], s[k])
  <2>1. 1 .. k \in SUBSET (1 .. n) /\ 1 .. k # {}
    OBVIOUS
  <2>2. Max(1 .. k) = k
    <3>1. PICK t \in SUBSET (1 .. n) : t = 1 .. k
      BY <2>1
    <3>2. k \in t /\ t # {}
      BY <3>1
    <3>3. Max(t) \in t /\ Max(t) >= k
      BY <3>2, MaxIs
    <3> QED BY <3>1, <3>3
  <2>3. (1 .. k) \ {k} = 1 .. (k - 1)
    OBVIOUS
  <2>4. F[1 .. k] = Step(does, b, F[(1 .. k) \ {Max(1 .. k)}], s[Max(1 .. k)])
    BY <2>1 DEF Folded
  <2>5. g[k] = F[1 .. k] /\ g[k - 1] = F[1 .. (k - 1)]
    OBVIOUS
  <2> HIDE DEF g
  <2> QED BY <2>2, <2>3, <2>4, <2>5
<1> HIDE DEF g
<1>3. g[n] = F[1 .. n]
  BY DEF g
<1> QED BY <1>1, <1>2, <1>3

LEMMA WriteAllSteps ==
  ASSUME NEW S, NEW base, NEW fs \in Seq(S)
  PROVE  \E g : /\ g[0] = base /\ g[Len(fs)] = WriteAll(base, fs)
                /\ \A k \in 1 .. Len(fs) : g[k] = Write(g[k - 1], fs[k])
<1>1. Len(fs) \in Nat /\ DOMAIN fs = 1 .. Len(fs)
  BY LenProperties
<1>2. PICK F : F = (CHOOSE G : Folded(G, "write", base, base, fs, Len(fs)))
  OBVIOUS
<1>3. WriteAll(base, fs) = F[1 .. Len(fs)]
  BY <1>1, <1>2 DEF WriteAll, FoldLeft, MapThenFoldSet, Folded, Step
<1>4. Folded(F, "write", base, base, fs, Len(fs))
  BY <1>1, <1>2, FoldExists
<1>5. PICK g : /\ g[0] = base /\ g[Len(fs)] = F[1 .. Len(fs)]
               /\ \A k \in 1 .. Len(fs) : g[k] = Step("write", base, g[k - 1], fs[k])
  BY <1>1, <1>4, FoldSteps
<1> QED BY <1>3, <1>5 DEF Step

Start == [at |-> 4, found |-> <<>>, ok |-> TRUE]
LEMMA ReadAllSteps ==
  ASSUME NEW S, NEW b, NEW kinds \in Seq(S)
  PROVE  \E g : /\ g[0] = Start /\ g[Len(kinds)] = ReadAll(b, kinds)
                /\ \A k \in 1 .. Len(kinds) : g[k] = Read(b, g[k - 1], kinds[k])
<1>1. Len(kinds) \in Nat /\ DOMAIN kinds = 1 .. Len(kinds)
  BY LenProperties
<1>2. PICK F : F = (CHOOSE G : Folded(G, "read", b, Start, kinds, Len(kinds)))
  OBVIOUS
<1>3. ReadAll(b, kinds) = F[1 .. Len(kinds)]
  BY <1>1, <1>2 DEF ReadAll, FoldLeft, MapThenFoldSet, Folded, Step, Start
<1>4. Folded(F, "read", b, Start, kinds, Len(kinds))
  BY <1>1, <1>2, FoldExists
<1>5. PICK g : /\ g[0] = Start /\ g[Len(kinds)] = F[1 .. Len(kinds)]
               /\ \A k \in 1 .. Len(kinds) : g[k] = Step("read", b, g[k - 1], kinds[k])
  BY <1>1, <1>4, FoldSteps
<1> QED BY <1>3, <1>5 DEF Step

(***************************************************************************)
(* What a buffer holds.                                                    *)
(***************************************************************************)
Names == {"id", "other", "room", "key", "password"}
Fields ==
  {f \in [what : Names \cup {"int", "cards", "empty"}, n : Nat] :
     f.what = "empty" <=> f.n = 0 /\ f.what \notin {"int", "cards"}}
Cell(at, size, value) == [at |-> at, size |-> size, value |-> value]
Buffers ==
  [cells : SUBSET [at : Nat, size : Nat \ {0}, value : Fields], off : Nat, ok : BOOLEAN]

\* No byte belongs to two cells, and none is behind the end.
Disjoint(b) == \A c \in b.cells, d \in b.cells : c # d => Apart(c, d.at, d.size)
EndsBy(b, end) == \A c \in b.cells : c.at + c.size <= end
Sound(b) == b \in Buffers /\ b.ok /\ Disjoint(b) /\ EndsBy(b, b.off)

HasField(b, at, f) ==
  /\ Cell(at, 4, Int4(f.n)) \in b.cells
  /\ Width(f) > 4 => Cell(at + 4, Width(f) - 4, f) \in b.cells

LEMMA FieldTypes ==
  /\ \A n \in Nat : Int4(n) \in Fields /\ Cards(n) \in Fields
  /\ \A n \in Nat, name \in Names : Text(name, n) \in Fields
  /\ \A f \in Fields : f.n \in Nat /\ Width(f) \in Nat /\ Width(f) >= 4
<1>1. ASSUME NEW n \in Nat PROVE Int4(n) \in Fields /\ Cards(n) \in Fields
  <2>1. ASSUME NEW f \in [what : Names \cup {"int", "cards", "empty"}, n : Nat],
               f.what \in {"int", "cards"}
        PROVE f \in Fields
    BY <2>1 DEF Fields
  <2>2. Int4(n) \in [what : Names \cup {"int", "cards", "empty"}, n : Nat] /\ Int4(n).what = "int"
    BY DEF Int4
  <2>3. Cards(n) \in [what : Names \cup {"int", "cards", "empty"}, n : Nat] /\ Cards(n).what = "cards"
    BY DEF Cards
  <2> QED BY <2>1, <2>2, <2>3
<1>2. ASSUME NEW n \in Nat, NEW name \in Names
      PROVE  Text(name, n) \in Fields
  <2>1. ASSUME NEW f \in [what : Names \cup {"int", "cards", "empty"}, n : Nat],
               f.what = "empty", f.n = 0
        PROVE f \in Fields
    BY <2>1 DEF Fields
  <2>2. ASSUME NEW f \in [what : Names \cup {"int", "cards", "empty"}, n : Nat],
               f.what # "empty", f.n # 0
        PROVE f \in Fields
    BY <2>2 DEF Fields
  <2>3. CASE n = 0
    <3>1. Text(name, n) = [what |-> "empty", n |-> 0]
      BY <2>3 DEF Text
    <3> QED BY <2>1, <3>1
  <2>4. CASE n # 0
    <3>1. Text(name, n) = [what |-> name, n |-> n] /\ name # "empty"
      BY <2>4 DEF Text, Names
    <3> QED BY <2>2, <2>4, <3>1
  <2> QED BY <2>3, <2>4
<1>3. ASSUME NEW f \in Fields PROVE f.n \in Nat /\ Width(f) \in Nat /\ Width(f) >= 4
  BY DEF Fields, Width
<1> QED BY <1>1, <1>2, <1>3

LEMMA IntIs == \A n \in Nat : Int4(n) \in Fields /\ Int4(n).what = "int" /\ Int4(n).n = n
BY FieldTypes DEF Int4

LEMMA Widths ==
  /\ \A n \in Nat : Width(Int4(n)) = 4 /\ Width(Cards(n)) = 4 * (n + 1)
  /\ \A n \in Nat, name \in Names : Width(Text(name, n)) = 4 + n
<1>1. ASSUME NEW n \in Nat PROVE Width(Int4(n)) = 4 /\ Width(Cards(n)) = 4 * (n + 1)
  BY DEF Int4, Cards, Width
<1>2. ASSUME NEW n \in Nat, NEW name \in Names PROVE Width(Text(name, n)) = 4 + n
  <2>1. CASE n = 0
    <3>1. Text(name, n).what = "empty" /\ Text(name, n).n = 0
      BY <2>1 DEF Text
    <3> QED BY <2>1, <3>1 DEF Width
  <2>2. CASE n # 0
    <3>1. Text(name, n).what = name /\ Text(name, n).n = n /\ name # "int" /\ name # "cards"
      BY <2>2 DEF Text, Names
    <3> QED BY <3>1 DEF Width
  <2> QED BY <2>1, <2>2
<1> QED BY <1>1, <1>2

LEMMA AtCell ==
  ASSUME NEW b \in Buffers, Disjoint(b), NEW at, NEW size, NEW v, Cell(at, size, v) \in b.cells
  PROVE  At(b, at, size) = v
<1>1. ASSUME NEW c \in b.cells, c.at = at, c.size = size PROVE c = Cell(at, size, v)
  <2>1. c.size > 0 /\ c.at \in Nat /\ c.size \in Nat
    BY DEF Buffers
  <2>2. Cell(at, size, v).at = at /\ Cell(at, size, v).size = size
    BY DEF Cell
  <2>3. ~Apart(c, at, size)
    BY <1>1, <2>1 DEF Apart
  <2> QED BY <2>2, <2>3 DEF Disjoint
<1>2. Cell(at, size, v).at = at /\ Cell(at, size, v).size = size /\ Cell(at, size, v).value = v
  BY DEF Cell
<1>3. PICK c : c = (CHOOSE d \in b.cells : d.at = at /\ d.size = size)
  OBVIOUS
<1>4. c \in b.cells /\ c.at = at /\ c.size = size
  BY <1>2, <1>3
<1> QED BY <1>1, <1>2, <1>3, <1>4 DEF At

LEMMA AtNothing ==
  ASSUME NEW b \in Buffers, NEW at \in Nat, EndsBy(b, at), NEW size \in Nat
  PROVE  At(b, at, size) = Int4(0)
<1>1. \A c \in b.cells : c.at # at /\ Apart(c, at, size)
  BY DEF EndsBy, Apart, Buffers
<1> QED BY <1>1 DEF At

LEMMA BufferExcept ==
  ASSUME NEW b \in Buffers, NEW off, NEW cells, NEW d, d = [b EXCEPT !.off = off, !.cells = cells]
  PROVE  d = [cells |-> cells, off |-> off, ok |-> b.ok]
BY DEF Buffers

\* memcpy at the end adds a cell, if anything is copied.
LEMMA PutAdds ==
  ASSUME NEW b, Sound(b), NEW size \in Nat, NEW v \in Fields
  PROVE  /\ Sound(Put(b, size, v))
         /\ Put(b, size, v).off = b.off + size
         /\ size = 0 => Put(b, size, v).cells = b.cells
         /\ size # 0 => Put(b, size, v).cells = b.cells \cup {Cell(b.off, size, v)}
<1> DEFINE added == IF size = 0 THEN {} ELSE {Cell(b.off, size, v)}
           d == Put(b, size, v)
<1> USE DEF Sound
<1>1. b.off \in Nat /\ b.ok = TRUE /\ b.cells \in SUBSET [at : Nat, size : Nat \ {0}, value : Fields]
  BY DEF Buffers
<1>2. \A c \in b.cells : Apart(c, b.off, size)
  BY DEF EndsBy, Apart
<1>3. d = [cells |-> b.cells \cup added, off |-> b.off + size, ok |-> TRUE]
  <2>2. PICK now : now = IF size = 0 THEN b.cells
                         ELSE {c \in b.cells : Apart(c, b.off, size)}
                                \cup {[at |-> b.off, size |-> size, value |-> v]}
    OBVIOUS
  <2>3. d = [b EXCEPT !.off = b.off + size, !.cells = now]
    BY <2>2 DEF Put
  <2>4. d = [cells |-> now, off |-> b.off + size, ok |-> TRUE]
    BY <1>1, <2>3, BufferExcept
  <2>5. now = b.cells \cup added
    BY <1>2, <2>2 DEF Cell
  <2> QED BY <2>4, <2>5
<1>4. added \in SUBSET [at : Nat, size : Nat \ {0}, value : Fields]
  BY <1>1 DEF Cell
<1>5. \A c \in added : c.at = b.off /\ c.size = size /\ size # 0 /\ c = Cell(b.off, size, v)
  BY DEF Cell
<1>6. d \in Buffers /\ d.ok
  BY <1>1, <1>3, <1>4 DEF Buffers
<1> HIDE DEF added, d
<1>7. Disjoint(d)
  <2> SUFFICES ASSUME NEW c \in d.cells, NEW e \in d.cells, c # e PROVE Apart(c, e.at, e.size)
    BY DEF Disjoint
  <2>1. c \in b.cells \cup added /\ e \in b.cells \cup added
    BY <1>3
  <2>2. CASE c \in b.cells /\ e \in b.cells
    BY <2>2 DEF Disjoint
  <2>3. CASE c \in b.cells /\ e \in added
    BY <1>2, <1>5, <2>3
  <2>4. CASE c \in added /\ e \in b.cells
    <3>1. e.at + e.size <= c.at
      BY <1>5, <2>4 DEF EndsBy
    <3> QED BY <3>1 DEF Apart
  <2>5. CASE c \in added /\ e \in added
    BY <1>5, <2>5
  <2> QED BY <2>1, <2>2, <2>3, <2>4, <2>5
<1>8. EndsBy(d, d.off)
  <2>1. \A c \in b.cells : c.at + c.size <= b.off + size
    BY <1>1 DEF EndsBy
  <2>2. \A c \in added : c.at + c.size <= b.off + size
    BY <1>1, <1>5
  <2> QED BY <1>3, <2>1, <2>2 DEF EndsBy
<1> QED BY <1>3, <1>6, <1>7, <1>8 DEF added, d

\* A field is written whole, or the buffer is over.
LEMMA WriteAdds ==
  ASSUME NEW b, Sound(b), NEW f \in Fields
  PROVE  /\ Write(b, f) \in Buffers
         /\ Write(b, f).ok <=> b.off + Width(f) <= BufSize
         /\ Write(b, f).ok => /\ Sound(Write(b, f))
                              /\ Write(b, f).off = b.off + Width(f)
                              /\ b.cells \subseteq Write(b, f).cells
                              /\ HasField(Write(b, f), b.off, f)
<1>1. Width(f) \in Nat /\ Width(f) >= 4 /\ f.n \in Nat /\ Int4(f.n) \in Fields
  BY FieldTypes
<1>2. b.off \in Nat /\ b.ok = TRUE /\ b \in Buffers
  BY DEF Sound, Buffers
<1>3. CASE ~(b.off + Width(f) <= BufSize)
  <2>1. Write(b, f) = [b EXCEPT !.ok = FALSE]
    BY <1>1, <1>2, <1>3, CodecAssumption DEF Write
  <2> QED BY <1>2, <1>3, <2>1 DEF Buffers
<1>4. CASE b.off + Width(f) <= BufSize /\ f.what = "int"
  <2>1. Write(b, f) = Put(b, 4, f) /\ f = Int4(f.n) /\ Width(f) = 4
    BY <1>1, <1>2, <1>4, CodecAssumption DEF Write, Fields, Int4, Width
  <2>2. /\ Sound(Put(b, 4, f)) /\ Put(b, 4, f).off = b.off + 4
        /\ Put(b, 4, f).cells = b.cells \cup {Cell(b.off, 4, f)}
    BY PutAdds
  <2> QED BY <1>1, <1>4, <2>1, <2>2 DEF HasField, Sound
<1>5. CASE b.off + Width(f) <= BufSize /\ f.what # "int"
  <2>1. PICK d : d = Put(b, 4, Int4(f.n))
    OBVIOUS
  <2>2. Write(b, f) = Put(d, Width(f) - 4, f)
    BY <1>1, <1>2, <1>5, <2>1, CodecAssumption DEF Write
  <2>3. Sound(d) /\ d.off = b.off + 4 /\ d.cells = b.cells \cup {Cell(b.off, 4, Int4(f.n))}
    <3>1. PICK v \in Fields : v = Int4(f.n)
      BY <1>1
    <3>2. /\ Sound(Put(b, 4, v)) /\ Put(b, 4, v).off = b.off + 4
          /\ Put(b, 4, v).cells = b.cells \cup {Cell(b.off, 4, v)}
      BY PutAdds
    <3> QED BY <2>1, <3>1, <3>2
  <2>4. PICK e : e = Put(d, Width(f) - 4, f)
    OBVIOUS
  <2>5. Width(f) - 4 \in Nat
    BY <1>1
  <2>6. /\ Sound(e) /\ e.off = d.off + (Width(f) - 4)
        /\ Width(f) - 4 = 0 => e.cells = d.cells
        /\ Width(f) - 4 # 0 => e.cells = d.cells \cup {Cell(d.off, Width(f) - 4, f)}
    <3>1. PICK size \in Nat : size = Width(f) - 4
      BY <2>5
    <3>2. /\ Sound(Put(d, size, f)) /\ Put(d, size, f).off = d.off + size
          /\ size = 0 => Put(d, size, f).cells = d.cells
          /\ size # 0 => Put(d, size, f).cells = d.cells \cup {Cell(d.off, size, f)}
      BY <2>3, PutAdds
    <3> QED BY <2>4, <3>1, <3>2
  <2>7. e.off = b.off + Width(f) /\ b.cells \subseteq e.cells /\ HasField(e, b.off, f)
    BY <1>1, <1>2, <2>3, <2>6 DEF HasField
  <2> QED BY <1>5, <2>2, <2>4, <2>6, <2>7 DEF Sound
<1> QED BY <1>3, <1>4, <1>5

\* The fields fs lie one behind the other, from p[0] on; p says where each ends.
PlacesUpTo(p, fs, from, k) ==
  /\ p \in [0 .. k -> Nat] /\ p[0] = from
  /\ \A i \in 1 .. k : p[i] = p[i - 1] + Width(fs[i])
Places(p, fs, from) == PlacesUpTo(p, fs, from, Len(fs))
Laid(b, p, fs) == \A i \in 1 .. Len(fs) : HasField(b, p[i - 1], fs[i])

\* The cells of b are those fields and nothing behind them; and as the writers
\* leave it, its offset is behind the last one.
Carries(b, p, fs) ==
  /\ b \in Buffers /\ Disjoint(b) /\ EndsBy(b, p[Len(fs)])
  /\ fs \in Seq(Fields) /\ Places(p, fs, 0) /\ Laid(b, p, fs)
Holds(b, fs) == b.ok /\ \E p : Carries(b, p, fs) /\ b.off = p[Len(fs)]

LEMMA PlacesExist ==
  ASSUME NEW fs \in Seq(Fields), NEW from \in Nat
  PROVE  \E p : Places(p, fs, from)
<1>0. PICK n \in Nat : n = Len(fs)
  BY LenProperties
<1> DEFINE Q == {k \in 0 .. n : \E p : PlacesUpTo(p, fs, from, k)}
<1>1. n \in Nat /\ \A i \in 1 .. n : fs[i] \in Fields
  BY <1>0, LenProperties, ElementOfSeq
<1>2. 0 \in Q
  <2> DEFINE q == [i \in 0 .. 0 |-> from]
  <2>1. PlacesUpTo(q, fs, from, 0)
    BY DEF PlacesUpTo
  <2> QED BY <2>1
<1>3. ASSUME NEW k \in 1 .. n, k - 1 \in Q PROVE k \in Q
  <2>1. PICK p : PlacesUpTo(p, fs, from, k - 1)
    BY <1>3
  <2> DEFINE q == [i \in 0 .. k |-> IF i = k THEN p[k - 1] + Width(fs[k]) ELSE p[i]]
  <2>2. Width(fs[k]) \in Nat /\ p[k - 1] \in Nat
    <3>1. fs[k] \in Fields
      BY <1>1
    <3>2. k - 1 \in 0 .. (k - 1)
      OBVIOUS
    <3> QED BY <2>1, <3>1, <3>2, FieldTypes DEF PlacesUpTo
  <2>3. q \in [0 .. k -> Nat] /\ q[0] = from
    BY <2>1, <2>2 DEF PlacesUpTo
  <2>4. \A i \in 1 .. k : q[i] = q[i - 1] + Width(fs[i])
    BY <2>1 DEF PlacesUpTo
  <2> HIDE DEF q
  <2>5. PlacesUpTo(q, fs, from, k)
    BY <2>3, <2>4 DEF PlacesUpTo
  <2> QED BY <2>5
<1> HIDE DEF Q
<1>4. n \in Q
  <2>1. \A k \in 0 .. n : k \in Q
    BY <1>2, <1>3, UpTo
  <2> QED BY <2>1
<1> QED BY <1>0, <1>4 DEF Q, Places

\* The places of a list are one and the same, and the first ones those of its
\* first fields.
LEMMA PlacesGrow ==
  ASSUME NEW fs \in Seq(Fields), NEW from \in Nat, NEW p, Places(p, fs, from), NEW k \in 0 .. Len(fs)
  PROVE  p[k] \in Nat /\ p[k] <= p[Len(fs)]
<1>0. PICK n \in Nat : n = Len(fs)
  BY LenProperties
<1> DEFINE Q == {j \in 0 .. n : p[n - j] \in Nat /\ p[n - j] <= p[n]}
<1>1. n \in Nat /\ \A i \in 1 .. n : Width(fs[i]) \in Nat
  BY <1>0, LenProperties, ElementOfSeq, FieldTypes
<1>2. p \in [0 .. n -> Nat] /\ \A i \in 1 .. n : p[i] = p[i - 1] + Width(fs[i])
  BY <1>0 DEF Places, PlacesUpTo
<1>3. k \in 0 .. n
  BY <1>0
<1>4. 0 \in Q
  BY <1>1, <1>2
<1>5. ASSUME NEW j \in 1 .. n, j - 1 \in Q PROVE j \in Q
  <2>1. PICK i \in 1 .. n : i = n - (j - 1)
    BY <1>1
  <2>2. n - j = i - 1 /\ n - j \in 0 .. n
    BY <1>1, <2>1
  <2>3. p[i] = p[i - 1] + Width(fs[i]) /\ p[i - 1] \in Nat /\ p[i] \in Nat /\ Width(fs[i]) \in Nat
    BY <1>1, <1>2
  <2>4. p[i] <= p[n] /\ p[n] \in Nat
    BY <1>1, <1>2, <1>5, <2>1
  <2> QED BY <2>2, <2>3, <2>4
<1> HIDE DEF Q
<1>6. n - k \in Q
  <2>1. \A j \in 0 .. n : j \in Q
    BY <1>4, <1>5, UpTo
  <2> QED BY <1>3, <2>1
<1>7. n - (n - k) = k
  BY <1>1, <1>3
<1> QED BY <1>0, <1>6, <1>7 DEF Q

\* Fields are written one behind the other if they fit, and otherwise the
\* buffer is over.
LEMMA WriteAllHolds ==
  ASSUME NEW fs \in Seq(Fields), NEW p, Places(p, fs, 0)
  PROVE  /\ WriteAll(New, fs) \in Buffers
         /\ WriteAll(New, fs).ok <=> p[Len(fs)] <= BufSize
         /\ WriteAll(New, fs).ok => /\ Carries(WriteAll(New, fs), p, fs)
                                    /\ WriteAll(New, fs).off = p[Len(fs)]
<1>0. PICK n \in Nat : n = Len(fs)
  BY LenProperties
<1>1. n \in Nat /\ \A i \in 1 .. n : fs[i] \in Fields /\ Width(fs[i]) \in Nat
  BY <1>0, LenProperties, ElementOfSeq, FieldTypes
<1>2. p \in [0 .. n -> Nat] /\ p[0] = 0 /\ \A i \in 1 .. n : p[i] = p[i - 1] + Width(fs[i])
  BY <1>0 DEF Places, PlacesUpTo
<1>3. PICK g : /\ g[0] = New /\ g[n] = WriteAll(New, fs)
               /\ \A k \in 1 .. n : g[k] = Write(g[k - 1], fs[k])
  BY <1>0, WriteAllSteps
<1> DEFINE Done(k) == /\ g[k] \in Buffers
                      /\ g[k].ok <=> p[k] <= BufSize
                      /\ g[k].ok => /\ Sound(g[k]) /\ g[k].off = p[k]
                                    /\ \A i \in 1 .. k : HasField(g[k], p[i - 1], fs[i])
           Q == {k \in 0 .. n : Done(k)}
<1>4. 0 \in Q
  <2>1. New \in Buffers /\ New.ok /\ New.off = 0 /\ Sound(New)
    BY DEF New, Buffers, Sound, Disjoint, EndsBy
  <2> QED BY <1>1, <1>2, <1>3, <2>1, CodecAssumption
<1>5. ASSUME NEW k \in 1 .. n, k - 1 \in Q PROVE k \in Q
  <2>1. PICK b : b = g[k - 1]
    OBVIOUS
  <2>2. PICK f \in Fields : f = fs[k]
    BY <1>1
  <2>3. g[k] = Write(b, f) /\ p[k] = p[k - 1] + Width(f) /\ p[k - 1] \in Nat /\ Width(f) \in Nat
    BY <1>1, <1>2, <1>3, <2>1, <2>2
  <2>4. CASE ~b.ok
    <3>1. b \in Buffers /\ ~(p[k - 1] <= BufSize)
      BY <1>5, <2>1, <2>4
    <3>2. g[k] = [b EXCEPT !.ok = FALSE]
      BY <2>3, <2>4 DEF Write
    <3>3. g[k] \in Buffers /\ ~g[k].ok
      BY <3>1, <3>2 DEF Buffers
    <3> QED BY <2>3, <3>1, <3>3, CodecAssumption
  <2>5. CASE b.ok
    <3>1. Sound(b) /\ b.off = p[k - 1] /\ \A i \in 1 .. k - 1 : HasField(b, p[i - 1], fs[i])
      BY <1>5, <2>1, <2>5
    <3>2. /\ Write(b, f) \in Buffers
          /\ Write(b, f).ok <=> b.off + Width(f) <= BufSize
          /\ Write(b, f).ok => /\ Sound(Write(b, f)) /\ Write(b, f).off = b.off + Width(f)
                               /\ b.cells \subseteq Write(b, f).cells
                               /\ HasField(Write(b, f), b.off, f)
      BY <3>1, WriteAdds
    <3>3. ASSUME g[k].ok, NEW i \in 1 .. k PROVE HasField(g[k], p[i - 1], fs[i])
      <4>1. CASE i = k
        BY <2>2, <2>3, <3>1, <3>2, <3>3, <4>1
      <4>2. CASE i # k
        BY <2>3, <3>1, <3>2, <3>3, <4>2 DEF HasField
      <4> QED BY <4>1, <4>2
    <3> QED BY <2>3, <3>1, <3>2, <3>3
  <2> QED BY <2>4, <2>5
<1> HIDE DEF Q
<1>6. n \in Q
  <2>1. \A k \in 0 .. n : k \in Q
    BY <1>4, <1>5, UpTo
  <2> QED BY <2>1
<1>7. Done(n)
  BY <1>6 DEF Q
<1> QED BY <1>0, <1>3, <1>7 DEF Carries, Sound, Laid

LEMMA HoldsSound ==
  ASSUME NEW b, NEW fs, Holds(b, fs)
  PROVE  Sound(b) /\ b \in Buffers /\ b.off \in Nat /\ fs \in Seq(Fields) /\ Len(fs) \in Nat
<1>1. b \in Buffers /\ b.ok /\ fs \in Seq(Fields) /\ Sound(b)
  BY DEF Holds, Carries, Sound
<1> QED BY <1>1, LenProperties DEF Buffers

\* One more field behind those there are.
LEMMA WriteHolds ==
  ASSUME NEW b, NEW fs, Holds(b, fs), NEW f \in Fields
  PROVE  /\ Write(b, f) \in Buffers
         /\ Write(b, f).ok <=> b.off + Width(f) <= BufSize
         /\ Write(b, f).ok => /\ Holds(Write(b, f), Append(fs, f))
                              /\ Write(b, f).off = b.off + Width(f)
<1>1. PICK d : d = Write(b, f)
  OBVIOUS
<1>2. Sound(b) /\ b.off \in Nat /\ fs \in Seq(Fields)
  BY HoldsSound
<1>3. /\ d \in Buffers
      /\ d.ok <=> b.off + Width(f) <= BufSize
      /\ d.ok => /\ Sound(d) /\ d.off = b.off + Width(f)
                 /\ b.cells \subseteq d.cells /\ HasField(d, b.off, f)
  BY <1>1, <1>2, WriteAdds
<1>4. ASSUME d.ok PROVE Holds(d, Append(fs, f))
  <2>1. PICK n \in Nat : n = Len(fs)
    BY <1>2, LenProperties
  <2>2. PICK p : Carries(b, p, fs) /\ b.off = p[n]
    BY <2>1 DEF Holds
  <2>3. /\ p \in [0 .. n -> Nat] /\ p[0] = 0
        /\ \A i \in 1 .. n : p[i] = p[i - 1] + Width(fs[i]) /\ HasField(b, p[i - 1], fs[i])
    BY <2>1, <2>2 DEF Carries, Places, PlacesUpTo, Laid
  <2>4. PICK gs : gs = Append(fs, f)
    OBVIOUS
  <2>5. /\ gs \in Seq(Fields) /\ Len(gs) = n + 1 /\ gs[n + 1] = f
        /\ \A i \in 1 .. n : gs[i] = fs[i]
    BY <1>2, <2>1, <2>4, AppendProperties
  <2>6. Width(f) \in Nat
    BY FieldTypes
  <2> DEFINE q == [i \in 0 .. n + 1 |-> IF i = n + 1 THEN p[n] + Width(f) ELSE p[i]]
  <2>7. q \in [0 .. n + 1 -> Nat] /\ q[0] = 0 /\ q[n + 1] = p[n] + Width(f)
    BY <2>3, <2>6
  <2>8. \A i \in 1 .. n : q[i] = p[i] /\ q[i - 1] = p[i - 1]
    OBVIOUS
  <2>9. q[(n + 1) - 1] = p[n]
    OBVIOUS
  <2> HIDE DEF q
  <2>10. \A i \in 1 .. n + 1 : q[i] = q[i - 1] + Width(gs[i]) /\ HasField(d, q[i - 1], gs[i])
    <3>1. ASSUME NEW i \in 1 .. n
          PROVE  q[i] = q[i - 1] + Width(gs[i]) /\ HasField(d, q[i - 1], gs[i])
      <4>1. q[i] = p[i] /\ q[i - 1] = p[i - 1] /\ gs[i] = fs[i] /\ HasField(b, p[i - 1], fs[i])
        BY <2>3, <2>5, <2>8
      <4> QED BY <1>3, <1>4, <2>3, <4>1 DEF HasField
    <3>2. q[n + 1] = q[(n + 1) - 1] + Width(gs[n + 1]) /\ HasField(d, q[(n + 1) - 1], gs[n + 1])
      BY <1>3, <1>4, <2>2, <2>5, <2>7, <2>9
    <3> QED BY <3>1, <3>2
  <2>11. Places(q, gs, 0) /\ Laid(d, q, gs)
    BY <2>5, <2>7, <2>10 DEF Places, PlacesUpTo, Laid
  <2>12. q[Len(gs)] = d.off
    BY <1>3, <1>4, <2>2, <2>5, <2>7
  <2> QED BY <1>3, <1>4, <2>4, <2>5, <2>11, <2>12 DEF Holds, Carries, Sound
<1> QED BY <1>1, <1>3, <1>4

\* What another buffer holds, behind it.
LEMMA WriteBufferHolds ==
  ASSUME NEW b, NEW fs, Holds(b, fs), NEW pb, NEW gs, Holds(pb, gs)
  PROVE  /\ WriteBuffer(b, pb) \in Buffers
         /\ WriteBuffer(b, pb).ok <=> b.off + pb.off <= BufSize
         /\ WriteBuffer(b, pb).ok => /\ Holds(WriteBuffer(b, pb), fs \o gs)
                                     /\ WriteBuffer(b, pb).off = b.off + pb.off
<1>1. PICK d : d = WriteBuffer(b, pb)
  OBVIOUS
<1>2. /\ Sound(b) /\ b.off \in Nat /\ fs \in Seq(Fields)
      /\ Sound(pb) /\ pb.off \in Nat /\ gs \in Seq(Fields)
  BY HoldsSound
<1>3. b.ok = TRUE /\ pb.ok = TRUE
  BY <1>2 DEF Sound, Buffers
<1>4. CASE ~(b.off + pb.off <= BufSize)
  <2>1. d = [b EXCEPT !.ok = FALSE]
    BY <1>1, <1>2, <1>4, CodecAssumption DEF WriteBuffer
  <2> QED BY <1>1, <1>2, <1>4, <2>1 DEF Sound, Buffers
<1>5. CASE b.off + pb.off <= BufSize
  <2> DEFINE moved == {[c EXCEPT !.at = @ + b.off] : c \in pb.cells}
  <2>1. d = [cells |-> b.cells \cup moved, off |-> b.off + pb.off, ok |-> TRUE]
    <3>2. PICK now : now = {c \in b.cells : Apart(c, b.off, pb.off)} \cup moved
      OBVIOUS
    <3>3. d = [b EXCEPT !.off = b.off + pb.off, !.cells = now]
      BY <1>1, <1>2, <1>3, <1>5, <3>2, CodecAssumption DEF WriteBuffer
    <3>4. \A c \in b.cells : Apart(c, b.off, pb.off)
      BY <1>2 DEF Sound, EndsBy, Apart
    <3>5. now = b.cells \cup moved
      BY <3>2, <3>4
    <3> HIDE DEF moved
    <3>6. d = [cells |-> now, off |-> b.off + pb.off, ok |-> TRUE]
      <4>1. PICK k : k = b.off + pb.off
        OBVIOUS
      <4>2. b \in Buffers /\ d = [b EXCEPT !.off = k, !.cells = now]
        BY <1>2, <3>3, <4>1 DEF Sound
      <4>3. d = [cells |-> now, off |-> k, ok |-> b.ok]
        BY <4>2, BufferExcept
      <4> QED BY <1>3, <4>1, <4>3
    <3> QED BY <3>5, <3>6
  <2>2. \A c \in moved : \E e \in pb.cells :
          /\ c = [at |-> e.at + b.off, size |-> e.size, value |-> e.value]
          /\ e.at \in Nat /\ e.size \in Nat \ {0} /\ e.value \in Fields
    BY <1>2 DEF Sound, Buffers
  <2>3. \A at, size, v : Cell(at, size, v) \in pb.cells => Cell(at + b.off, size, v) \in moved
    BY DEF Cell
  <2> HIDE DEF moved
  <2>4. b.cells \in SUBSET [at : Nat, size : Nat \ {0}, value : Fields]
    BY <1>2 DEF Sound, Buffers
  <2>5. d \in Buffers
    <3>1. moved \in SUBSET [at : Nat, size : Nat \ {0}, value : Fields]
      BY <1>2, <2>2
    <3> QED BY <1>2, <2>1, <2>4, <3>1 DEF Buffers
  <2>6. Disjoint(d)
    <3> SUFFICES ASSUME NEW c \in d.cells, NEW e \in d.cells, c # e PROVE Apart(c, e.at, e.size)
      BY DEF Disjoint
    <3>1. c \in b.cells \cup moved /\ e \in b.cells \cup moved
      BY <2>1
    <3>2. CASE c \in b.cells /\ e \in b.cells
      BY <1>2, <3>2 DEF Sound, Disjoint
    <3>3. CASE c \in b.cells /\ e \in moved
      <4>1. c.at + c.size <= b.off
        BY <1>2, <3>3 DEF Sound, EndsBy
      <4>2. e.at \in Nat /\ e.at >= b.off /\ c.at \in Nat /\ c.size \in Nat
        BY <1>2, <2>2, <2>4, <3>3
      <4>3. c.at + c.size <= e.at
        BY <1>2, <4>1, <4>2
      <4> QED BY <4>3 DEF Apart
    <3>4. CASE c \in moved /\ e \in b.cells
      <4>1. e.at + e.size <= b.off
        BY <1>2, <3>4 DEF Sound, EndsBy
      <4>2. c.at \in Nat /\ c.at >= b.off /\ e.at \in Nat /\ e.size \in Nat
        BY <1>2, <2>2, <2>4, <3>4
      <4>3. e.at + e.size <= c.at
        BY <1>2, <4>1, <4>2
      <4> QED BY <4>3 DEF Apart
    <3>5. CASE c \in moved /\ e \in moved
      <4>1. PICK x \in pb.cells : /\ c = [at |-> x.at + b.off, size |-> x.size, value |-> x.value]
                                  /\ x.at \in Nat /\ x.size \in Nat
        BY <2>2, <3>5
      <4>2. PICK y \in pb.cells : /\ e = [at |-> y.at + b.off, size |-> y.size, value |-> y.value]
                                  /\ y.at \in Nat /\ y.size \in Nat
        BY <2>2, <3>5
      <4>3. x # y
        BY <4>1, <4>2
      <4>4. Apart(x, y.at, y.size)
        BY <1>2, <4>3 DEF Sound, Disjoint
      <4>5. /\ c.at = x.at + b.off /\ c.size = x.size
            /\ e.at = y.at + b.off /\ e.size = y.size
        BY <4>1, <4>2
      <4> QED BY <1>2, <4>1, <4>2, <4>4, <4>5 DEF Apart
    <3> QED BY <3>1, <3>2, <3>3, <3>4, <3>5
  <2>7. EndsBy(d, d.off)
    <3>1. ASSUME NEW c \in b.cells PROVE c.at + c.size <= b.off + pb.off
      <4>1. c.at + c.size <= b.off /\ c.at \in Nat /\ c.size \in Nat
        BY <1>2, <2>4 DEF Sound, EndsBy
      <4> QED BY <1>2, <4>1
    <3>2. ASSUME NEW c \in moved PROVE c.at + c.size <= b.off + pb.off
      <4>1. PICK x \in pb.cells : /\ c = [at |-> x.at + b.off, size |-> x.size, value |-> x.value]
                                  /\ x.at \in Nat /\ x.size \in Nat
        BY <2>2
      <4>2. x.at + x.size <= pb.off
        BY <1>2 DEF Sound, EndsBy
      <4>3. c.at = x.at + b.off /\ c.size = x.size
        BY <4>1
      <4> QED BY <1>2, <4>1, <4>2, <4>3
    <3> QED BY <2>1, <3>1, <3>2 DEF EndsBy
  <2>8. PICK n \in Nat : n = Len(fs)
    BY <1>2, LenProperties
  <2>9. PICK m \in Nat : m = Len(gs)
    BY <1>2, LenProperties
  <2>10. PICK p : Carries(b, p, fs) /\ b.off = p[n]
    BY <2>8 DEF Holds
  <2>11. /\ p \in [0 .. n -> Nat] /\ p[0] = 0
         /\ \A i \in 1 .. n : p[i] = p[i - 1] + Width(fs[i]) /\ HasField(b, p[i - 1], fs[i])
    BY <2>8, <2>10 DEF Carries, Places, PlacesUpTo, Laid
  <2>12. PICK r : Carries(pb, r, gs) /\ pb.off = r[m]
    BY <2>9 DEF Holds
  <2>13. /\ r \in [0 .. m -> Nat] /\ r[0] = 0
         /\ \A i \in 1 .. m : r[i] = r[i - 1] + Width(gs[i]) /\ HasField(pb, r[i - 1], gs[i])
    BY <2>9, <2>12 DEF Carries, Places, PlacesUpTo, Laid
  <2>14. PICK hs : hs = fs \o gs
    OBVIOUS
  <2>15. /\ hs \in Seq(Fields) /\ Len(hs) = n + m
         /\ \A i \in 1 .. n + m : hs[i] = IF i <= n THEN fs[i] ELSE gs[i - n]
    BY <1>2, <2>8, <2>9, <2>14, ConcatProperties
  <2> DEFINE q == [i \in 0 .. n + m |-> IF i <= n THEN p[i] ELSE p[n] + r[i - n]]
  <2>16. q \in [0 .. n + m -> Nat]
    <3>1. ASSUME NEW i \in 0 .. n + m PROVE q[i] \in Nat
      <4>1. CASE i <= n
        BY <2>11, <4>1
      <4>2. CASE ~(i <= n)
        <5>1. i - n \in 0 .. m /\ n \in 0 .. n
          BY <4>2
        <5>2. p[n] \in Nat /\ r[i - n] \in Nat
          BY <2>11, <2>13, <5>1
        <5> QED BY <4>2, <5>2
      <4> QED BY <4>1, <4>2
    <3> QED BY <3>1
  <2>17. \A i \in 0 .. n : q[i] = p[i]
    OBVIOUS
  <2>18. \A i \in 0 .. m : q[n + i] = p[n] + r[i]
    <3> SUFFICES ASSUME NEW i \in 0 .. m PROVE q[n + i] = p[n] + r[i]
      OBVIOUS
    <3>1. CASE i = 0
      <4>1. n \in 0 .. n /\ p[n] \in Nat
        BY <2>11
      <4> QED BY <2>13, <3>1, <4>1
    <3>2. CASE i # 0
      <4>1. n + i \in 0 .. n + m /\ ~(n + i <= n) /\ (n + i) - n = i
        BY <3>2
      <4> QED BY <4>1
    <3> QED BY <3>1, <3>2
  <2> HIDE DEF q
  <2>19. \A i \in 1 .. n + m : q[i] = q[i - 1] + Width(hs[i]) /\ HasField(d, q[i - 1], hs[i])
    <3>1. ASSUME NEW i \in 1 .. n
          PROVE  q[i] = q[i - 1] + Width(hs[i]) /\ HasField(d, q[i - 1], hs[i])
      <4>1. i - 1 \in 0 .. n /\ i \in 0 .. n /\ i \in 1 .. n + m
        OBVIOUS
      <4>2. q[i] = p[i] /\ q[i - 1] = p[i - 1] /\ hs[i] = fs[i] /\ HasField(b, p[i - 1], fs[i])
        BY <2>11, <2>15, <2>17, <4>1
      <4>3. HasField(d, p[i - 1], fs[i])
        BY <2>1, <4>2 DEF HasField
      <4> QED BY <2>11, <4>2, <4>3
    <3>2. ASSUME NEW j \in 1 .. m
          PROVE  q[n + j] = q[(n + j) - 1] + Width(hs[n + j]) /\ HasField(d, q[(n + j) - 1], hs[n + j])
      <4>1. j - 1 \in 0 .. m /\ j \in 0 .. m /\ (n + j) - 1 = n + (j - 1) /\ n \in 0 .. n
        OBVIOUS
      <4>2. q[n + j] = p[n] + r[j] /\ q[(n + j) - 1] = p[n] + r[j - 1]
        BY <2>18, <4>1
      <4>3. n + j \in 1 .. n + m /\ ~(n + j <= n) /\ (n + j) - n = j
        OBVIOUS
      <4>4. hs[n + j] = gs[j]
        BY <2>15, <4>3
      <4>5. PICK f \in Fields : f = gs[j]
        BY <1>2, <2>9, ElementOfSeq
      <4>6. PICK at \in Nat : at = r[j - 1]
        BY <2>13, <4>1
      <4>7. HasField(pb, at, f) /\ r[j] = at + Width(f) /\ Width(f) \in Nat
        BY <2>13, <4>5, <4>6, FieldTypes
      <4>8. HasField(d, at + b.off, f)
        <5>1. Cell(at + b.off, 4, Int4(f.n)) \in d.cells
          BY <2>1, <2>3, <4>7 DEF HasField
        <5>2. Width(f) > 4 => Cell((at + 4) + b.off, Width(f) - 4, f) \in d.cells
          BY <2>1, <2>3, <4>7 DEF HasField
        <5>3. (at + 4) + b.off = (at + b.off) + 4
          BY <1>2
        <5> QED BY <5>1, <5>2, <5>3 DEF HasField
      <4>9. p[n] \in Nat /\ p[n] + at = at + b.off
        BY <2>10, <2>11, <4>1
      <4>10. q[n + j] = q[(n + j) - 1] + Width(f)
        BY <4>2, <4>6, <4>7, <4>9
      <4> QED BY <4>2, <4>4, <4>5, <4>6, <4>8, <4>9, <4>10
    <3>3. ASSUME NEW i \in 1 .. n + m, ~(i <= n) PROVE \E j \in 1 .. m : i = n + j
      <4>1. i - n \in 1 .. m /\ i = n + (i - n)
        BY <3>3
      <4> QED BY <4>1
    <3> QED BY <3>1, <3>2, <3>3
  <2>20. Places(q, hs, 0) /\ Laid(d, q, hs)
    <3>1. 0 \in 0 .. n /\ q[0] = 0
      BY <2>11, <2>17
    <3> QED BY <2>15, <2>16, <2>19, <3>1 DEF Places, PlacesUpTo, Laid
  <2>21. q[Len(hs)] = d.off
    <3>1. m \in 0 .. m
      OBVIOUS
    <3> QED BY <2>1, <2>10, <2>12, <2>15, <2>18, <3>1
  <2>22. d.ok = TRUE /\ d.off = b.off + pb.off
    BY <2>1
  <2>23. Holds(d, hs)
    BY <2>5, <2>6, <2>7, <2>15, <2>20, <2>21, <2>22 DEF Holds, Carries
  <2> QED BY <1>1, <1>5, <2>5, <2>14, <2>22, <2>23
<1> QED BY <1>4, <1>5

\* A list with another first field.
LEMMA OtherFirst ==
  ASSUME NEW fs \in Seq(Fields), NEW x \in Fields, NEW y \in Fields
  PROVE  /\ <<x>> \o fs \in Seq(Fields) /\ <<y>> \o fs \in Seq(Fields)
         /\ Len(<<x>> \o fs) = Len(fs) + 1 /\ Len(<<y>> \o fs) = Len(fs) + 1
         /\ (<<x>> \o fs)[1] = x /\ (<<y>> \o fs)[1] = y
         /\ \A i \in 2 .. Len(fs) + 1 : (<<x>> \o fs)[i] = (<<y>> \o fs)[i]
<1>1. <<x>> \in Seq(Fields) /\ <<y>> \in Seq(Fields) /\ Len(<<x>>) = 1 /\ Len(<<y>>) = 1
  OBVIOUS
<1>2. Len(fs) \in Nat
  BY LenProperties
<1>3. /\ <<x>> \o fs \in Seq(Fields) /\ <<y>> \o fs \in Seq(Fields)
      /\ Len(<<x>> \o fs) = 1 + Len(fs) /\ Len(<<y>> \o fs) = 1 + Len(fs)
      /\ \A i \in 1 .. 1 + Len(fs) : (<<x>> \o fs)[i] = IF i <= 1 THEN <<x>>[i] ELSE fs[i - 1]
      /\ \A i \in 1 .. 1 + Len(fs) : (<<y>> \o fs)[i] = IF i <= 1 THEN <<y>>[i] ELSE fs[i - 1]
  BY <1>1, ConcatProperties
<1> QED BY <1>2, <1>3

\* What is stored at the start counts the bytes, and can be set anew.
LEMMA SizeIsFirst ==
  ASSUME NEW b, NEW p, NEW k \in Nat, NEW fs \in Seq(Fields), Carries(b, p, <<Int4(k)>> \o fs)
  PROVE  SizeOf(b) = k
<1>1. PICK gs : gs = <<Int4(k)>> \o fs
  OBVIOUS
<1>2. gs[1] = Int4(k) /\ Len(gs) = Len(fs) + 1 /\ Len(fs) \in Nat
  BY <1>1, FieldTypes, OtherFirst, LenProperties
<1>3. HasField(b, p[1 - 1], gs[1]) /\ p[0] = 0 /\ b \in Buffers /\ Disjoint(b)
  BY <1>1, <1>2 DEF Carries, Places, PlacesUpTo, Laid
<1>4. Int4(k).n = k
  BY DEF Int4
<1>5. Cell(0, 4, Int4(k)) \in b.cells
  BY <1>2, <1>3, <1>4 DEF HasField
<1>6. At(b, 0, 4) = Int4(k)
  BY <1>3, <1>5, AtCell
<1> QED BY <1>4, <1>6 DEF SizeOf

LEMMA SetWriteOffsetHolds ==
  ASSUME NEW b, NEW p, NEW k \in Nat, NEW fs \in Seq(Fields), Carries(b, p, <<Int4(k)>> \o fs),
         NEW m \in Nat
  PROVE  /\ Carries(SetWriteOffset(b, m), p, <<Int4(m)>> \o fs)
         /\ SetWriteOffset(b, m).off = m /\ SetWriteOffset(b, m).ok = b.ok
<1>1. PICK d : d = SetWriteOffset(b, m)
  OBVIOUS
<1>2. PICK gs : gs = <<Int4(k)>> \o fs
  OBVIOUS
<1>3. PICK hs : hs = <<Int4(m)>> \o fs
  OBVIOUS
<1>4. Int4(k) \in Fields /\ Int4(m) \in Fields /\ Width(Int4(k)) = 4 /\ Width(Int4(m)) = 4
  BY FieldTypes, Widths
<1>5. PICK n \in Nat : n = Len(gs)
  BY <1>2, <1>4, OtherFirst, LenProperties
<1>6. /\ gs \in Seq(Fields) /\ hs \in Seq(Fields) /\ Len(hs) = n /\ 1 \in 1 .. n
      /\ gs[1] = Int4(k) /\ hs[1] = Int4(m)
      /\ \A i \in 2 .. n : hs[i] = gs[i]
  BY <1>2, <1>3, <1>4, <1>5, OtherFirst, LenProperties
<1>7. /\ b \in Buffers /\ Disjoint(b) /\ EndsBy(b, p[n]) /\ p \in [0 .. n -> Nat] /\ p[0] = 0
      /\ \A i \in 1 .. n : p[i] = p[i - 1] + Width(gs[i])
      /\ \A i \in 1 .. n : HasField(b, p[i - 1], gs[i])
  BY <1>2, <1>5 DEF Carries, Places, PlacesUpTo, Laid
<1> DEFINE first == Cell(0, 4, Int4(m))
           others == {c \in b.cells : Apart(c, 0, 4)}
<1>8. d = [cells |-> others \cup {first}, off |-> m, ok |-> b.ok]
  <2>1. PICK now : now = others \cup {first}
    OBVIOUS
  <2>2. d = [b EXCEPT !.off = m, !.cells = now]
    BY <1>1, <2>1 DEF SetWriteOffset, Cell
  <2> HIDE DEF others, first
  <2>3. PICK off : off = m
    OBVIOUS
  <2>4. d = [b EXCEPT !.off = off, !.cells = now]
    BY <2>2, <2>3
  <2>5. d = [cells |-> now, off |-> off, ok |-> b.ok]
    BY <1>7, <2>4, BufferExcept
  <2> QED BY <2>1, <2>3, <2>5
<1>9. first.at = 0 /\ first.size = 4 /\ first \in [at : Nat, size : Nat \ {0}, value : Fields]
  BY <1>4 DEF Cell
<1>10. \A c \in others : c \in b.cells /\ Apart(c, 0, 4)
  OBVIOUS
<1>11. \A c \in b.cells : c.at \in Nat /\ c.size \in Nat /\ c.size > 0
  BY <1>7 DEF Buffers
<1>12. Cell(0, 4, Int4(k)) \in b.cells
  <2>1. HasField(b, p[1 - 1], gs[1]) /\ Int4(k).n = k
    BY <1>6, <1>7 DEF Int4
  <2> QED BY <1>6, <1>7, <2>1 DEF HasField
<1>13. \A c \in b.cells : c.at > 0 => c \in others
  <2> SUFFICES ASSUME NEW c \in b.cells, c.at > 0 PROVE Apart(c, 0, 4)
    OBVIOUS
  <2>1. PICK e : e = Cell(0, 4, Int4(k))
    OBVIOUS
  <2>2. e.at = 0 /\ e.size = 4 /\ e \in b.cells /\ c # e
    BY <1>12, <2>1 DEF Cell
  <2> QED BY <1>7, <2>2 DEF Disjoint
<1> HIDE DEF first, others
<1>14. d \in Buffers /\ d.off = m /\ d.ok = b.ok /\ d.cells = others \cup {first}
  BY <1>7, <1>8, <1>9, <1>10 DEF Buffers
<1>15. Disjoint(d)
  <2> SUFFICES ASSUME NEW c \in d.cells, NEW e \in d.cells, c # e PROVE Apart(c, e.at, e.size)
    BY DEF Disjoint
  <2>1. c \in others \cup {first} /\ e \in others \cup {first}
    BY <1>14
  <2>2. CASE c \in others /\ e \in others
    BY <1>7, <1>10, <2>2 DEF Disjoint
  <2>3. CASE c \in others /\ e = first
    BY <1>9, <1>10, <2>3
  <2>4. CASE c = first /\ e \in others
    BY <1>9, <1>10, <1>11, <2>4 DEF Apart
  <2> QED BY <2>1, <2>2, <2>3, <2>4
<1>16. EndsBy(d, p[n])
  <2>1. Cell(0, 4, Int4(k)).at = 0 /\ Cell(0, 4, Int4(k)).size = 4
    BY DEF Cell
  <2>2. 0 + 4 <= p[n]
    BY <1>7, <1>12, <2>1 DEF EndsBy
  <2> QED BY <1>7, <1>9, <1>10, <1>14, <2>2 DEF EndsBy
<1>17. ASSUME NEW i \in 1 .. n
       PROVE  p[i] = p[i - 1] + Width(hs[i]) /\ HasField(d, p[i - 1], hs[i])
  <2>1. CASE i = 1
    <3>1. p[i - 1] = 0 /\ hs[i] = Int4(m) /\ gs[i] = Int4(k) /\ Int4(m).n = m
      BY <1>6, <1>7, <2>1 DEF Int4
    <3>2. Cell(0, 4, Int4(m)) \in d.cells
      BY <1>14 DEF first
    <3> QED BY <1>4, <1>7, <3>1, <3>2 DEF HasField
  <2>2. CASE i # 1
    <3>1. hs[i] = gs[i] /\ i - 1 \in 1 .. n /\ (i - 1) - 1 \in 0 .. n /\ i - 1 \in 0 .. n
      BY <1>6, <2>2
    <3>2. PICK f \in Fields : f = gs[i - 1]
      BY <1>5, <1>6, <3>1, ElementOfSeq
    <3>3. p[i - 1] = p[(i - 1) - 1] + Width(f) /\ Width(f) >= 4 /\ Width(f) \in Nat /\ p[(i - 1) - 1] \in Nat
      BY <1>7, <3>1, <3>2, FieldTypes
    <3>4. PICK at \in Nat : at = p[i - 1] /\ at > 0
      BY <3>3
    <3>5. HasField(b, at, gs[i])
      BY <1>7, <3>4
    <3>6. HasField(d, at, gs[i])
      <4>1. \A size, v : Cell(at, size, v).at = at /\ Cell(at + 4, size, v).at = at + 4
        BY DEF Cell
      <4> QED BY <1>13, <1>14, <3>4, <3>5, <4>1 DEF HasField
    <3> QED BY <1>7, <3>1, <3>4, <3>6
  <2> QED BY <2>1, <2>2
<1>18. Carries(d, p, hs)
  BY <1>6, <1>7, <1>14, <1>15, <1>16, <1>17 DEF Carries, Places, PlacesUpTo, Laid
<1> QED BY <1>1, <1>3, <1>14, <1>18

(***************************************************************************)
(* Reading.                                                                *)
(***************************************************************************)
Readers == [at : Nat, found : Seq(Fields), ok : BOOLEAN]
Kinds == {"int", "string", "hand", "discarded"}

\* At offset at, reading kind finds v: a field, the number in front of cards, or
\* the zeros behind all that was written.
Gives(b, at, kind, v) ==
  \/ kind = "int" /\ v.what = "int" /\ Cell(at, 4, v) \in b.cells
  \/ kind = "string" /\ v.what \notin {"int", "cards"} /\ HasField(b, at, v)
  \/ kind \in {"hand", "discarded"} /\ v.what = "cards" /\ HasField(b, at, v)
  \/ kind = "int" /\ EndsBy(b, at) /\ v = Int4(0)
  \/ kind = "string" /\ EndsBy(b, at) /\ v = Text("", 0)

\* And readInt, readString or readCards does not throw.
Fits(b, at, kind, v) ==
  /\ at + Width(v) <= BufSize
  /\ kind = "discarded" => b.off + 4 * (v.n + 1) <= BufSize
  /\ kind = "hand" => at + 4 * (Hand + 1) <= BufSize

LEMMA ReaderExcept ==
  ASSUME NEW r \in Readers, NEW at, NEW found, NEW s, s = [r EXCEPT !.at = at, !.found = found]
  PROVE  s = [at |-> at, found |-> found, ok |-> r.ok]
BY DEF Readers

\* What is read first and how much more, and what it makes.
SizeBehind(first, kind) == IF kind = "int" THEN 0 ELSE IF kind = "string" THEN first.n ELSE 4 * first.n
ValueRead(b, at, first, kind) ==
  IF kind = "int" \/ first = Garbage THEN first
  ELSE IF SizeBehind(first, kind) > 0 THEN At(b, at + 4, SizeBehind(first, kind))
  ELSE IF kind = "string" THEN Text("", 0) ELSE Cards(0)

LEMMA ValueIs ==
  ASSUME NEW b, NEW at, NEW first, NEW kind, kind # "int", first # Garbage,
         NEW size \in Nat, SizeBehind(first, kind) = size
  PROVE  /\ size > 0 => ValueRead(b, at, first, kind) = At(b, at + 4, size)
         /\ ~(size > 0) /\ kind = "string" => ValueRead(b, at, first, kind) = Text("", 0)
         /\ ~(size > 0) /\ kind # "string" => ValueRead(b, at, first, kind) = Cards(0)
<1>1. ValueRead(b, at, first, kind) = IF size > 0 THEN At(b, at + 4, size)
                                      ELSE IF kind = "string" THEN Text("", 0) ELSE Cards(0)
  BY Zenon DEF ValueRead
<1>2. CASE size > 0
  BY <1>1, <1>2
<1>3. CASE ~(size > 0)
  BY <1>1, <1>3
<1> QED BY <1>2, <1>3

LEMMA FirstRead ==
  ASSUME NEW b \in Buffers, Disjoint(b), NEW at \in Nat, NEW kind \in Kinds, NEW v \in Fields,
         Gives(b, at, kind, v), NEW first, first = At(b, at, 4)
  PROVE  /\ first = Int4(v.n) /\ Width(v) - 4 \in Nat
         /\ SizeBehind(first, kind) = Width(v) - 4
         /\ ValueRead(b, at, first, kind) = v
<1>2. /\ v.n \in Nat /\ Width(v) \in Nat /\ Width(v) - 4 \in Nat
      /\ Int4(v.n).n = v.n /\ Int4(v.n) # Garbage
  BY FieldTypes DEF Int4, Garbage
<1>3. CASE kind = "int" /\ v.what = "int" /\ Cell(at, 4, v) \in b.cells
  <2>1. v = Int4(v.n) /\ Width(v) = 4
    BY <1>3 DEF Fields, Int4, Width
  <2>2. first = v
    BY <1>3, AtCell
  <2> QED BY <1>2, <1>3, <2>1, <2>2 DEF SizeBehind, ValueRead
<1>4. CASE kind = "int" /\ EndsBy(b, at) /\ v = Int4(0)
  <2>1. first = v /\ v.n = 0 /\ Width(v) = 4
    BY <1>4, AtNothing DEF Int4, Width
  <2> QED BY <1>2, <1>4, <2>1 DEF SizeBehind, ValueRead
<1>5. CASE kind = "string" /\ EndsBy(b, at) /\ v = Text("", 0)
  <2>1. v.n = 0 /\ Width(v) = 4
    BY <1>5 DEF Text, Width
  <2>2. first = Int4(v.n)
    BY <1>5, <2>1, AtNothing
  <2>3. SizeBehind(first, kind) = 0
    BY <1>2, <1>5, <2>1, <2>2 DEF SizeBehind
  <2>4. ValueRead(b, at, first, kind) = v
    <3>1. PICK size \in Nat : size = 0
      OBVIOUS
    <3>2. kind # "int" /\ first # Garbage
      BY <1>2, <1>5, <2>2
    <3>3. SizeBehind(first, kind) = size /\ ~(size > 0)
      BY <2>3, <3>1
    <3> QED BY <1>5, <3>2, <3>3, ValueIs
  <2> QED BY <1>2, <2>1, <2>2, <2>3, <2>4
<1>6. CASE kind = "string" /\ v.what \notin {"int", "cards"} /\ HasField(b, at, v)
  <2>1. first = Int4(v.n)
    BY <1>6, AtCell DEF HasField
  <2>2. Width(v) = 4 + v.n /\ SizeBehind(first, kind) = v.n
    BY <1>2, <1>6, <2>1 DEF Width, SizeBehind
  <2>3. CASE v.n > 0
    <3>1. Cell(at + 4, v.n, v) \in b.cells
      BY <1>2, <1>6, <2>2, <2>3 DEF HasField
    <3>2. At(b, at + 4, v.n) = v
      BY <3>1, AtCell
    <3>3. ValueRead(b, at, first, kind) = v
      BY <1>2, <1>6, <2>1, <2>2, <2>3, <3>2, ValueIs
    <3> QED BY <1>2, <2>1, <2>2, <3>3
  <2>4. CASE v.n = 0
    <3>1. v = Text("", 0)
      BY <1>6, <2>4 DEF Fields, Text
    <3>2. ValueRead(b, at, first, kind) = v
      <4>1. kind # "int" /\ first # Garbage /\ ~(v.n > 0)
        BY <1>2, <1>6, <2>1, <2>4
      <4> QED BY <1>2, <1>6, <2>2, <3>1, <4>1, ValueIs
    <3> QED BY <1>2, <2>1, <2>2, <3>2
  <2> QED BY <1>2, <2>3, <2>4
<1>7. CASE kind \in {"hand", "discarded"} /\ v.what = "cards" /\ HasField(b, at, v)
  <2>1. first = Int4(v.n)
    BY <1>7, AtCell DEF HasField
  <2>2. PICK size \in Nat : size = 4 * v.n
    BY <1>2
  <2>3. Width(v) = 4 + size /\ SizeBehind(first, kind) = size
    BY <1>2, <1>7, <2>1, <2>2 DEF Width, SizeBehind
  <2>4. CASE size > 0
    <3>1. Cell(at + 4, Width(v) - 4, v) \in b.cells /\ Width(v) - 4 = size
      BY <1>2, <1>7, <2>3, <2>4 DEF HasField
    <3>2. At(b, at + 4, size) = v
      BY <3>1, AtCell
    <3>3. ValueRead(b, at, first, kind) = v
      BY <1>2, <1>7, <2>1, <2>3, <2>4, <3>2, ValueIs
    <3> QED BY <1>2, <2>1, <2>3, <3>3
  <2>5. CASE size = 0
    <3>1. v = Cards(0)
      BY <1>2, <1>7, <2>2, <2>5 DEF Fields, Cards
    <3>2. ValueRead(b, at, first, kind) = v
      <4>1. kind # "int" /\ kind # "string" /\ first # Garbage /\ ~(size > 0)
        BY <1>2, <1>7, <2>1, <2>5
      <4> QED BY <2>3, <3>1, <4>1, ValueIs
    <3> QED BY <1>2, <2>1, <2>3, <3>2
  <2> QED BY <2>4, <2>5
<1> QED BY <1>3, <1>4, <1>5, <1>6, <1>7 DEF Gives

LEMMA ReadGives ==
  ASSUME NEW b \in Buffers, Disjoint(b), NEW r \in Readers, r.ok, NEW kind \in Kinds,
         NEW v \in Fields, Gives(b, r.at, kind, v)
  PROVE  /\ Read(b, r, kind) \in Readers
         /\ Read(b, r, kind).ok <=> Fits(b, r.at, kind, v)
         /\ ~Read(b, r, kind).ok => Read(b, r, kind).found = r.found
         /\ Read(b, r, kind).ok => /\ Read(b, r, kind).found = Append(r.found, v)
                                   /\ Read(b, r, kind).at = r.at + Width(v)
<1>1. PICK s : s = Read(b, r, kind)
  OBVIOUS
<1>2. PICK first : first = At(b, r.at, 4)
  OBVIOUS
<1>3. r.at \in Nat /\ r.ok = TRUE /\ r.found \in Seq(Fields) /\ b.off \in Nat
      /\ v.n \in Nat /\ Width(v) \in Nat
  BY FieldTypes DEF Readers, Buffers
<1>4. PICK size \in Nat : /\ size = SizeBehind(first, kind) /\ Width(v) = 4 + size
                          /\ first.n = v.n /\ ValueRead(b, r.at, first, kind) = v
  <2>1. /\ first = Int4(v.n) /\ Width(v) - 4 \in Nat
        /\ SizeBehind(first, kind) = Width(v) - 4
        /\ ValueRead(b, r.at, first, kind) = v
    BY <1>2, <1>3, FirstRead
  <2> QED BY <1>3, <2>1 DEF Int4
<1>5. PICK from \in Nat : from = r.at
  BY <1>3
<1>6. s = IF \/ from + 4 + size > BufSize
             \/ kind = "discarded" /\ b.off + 4 * (v.n + 1) > BufSize
             \/ kind = "hand" /\ from + 4 * (Hand + 1) > BufSize
          THEN Fail(r) ELSE [r EXCEPT !.at = from + 4 + size, !.found = Append(r.found, v)]
  <2>1. s = IF \/ r.at + 4 + SizeBehind(first, kind) > BufSize
               \/ kind = "discarded" /\ b.off + 4 * (first.n + 1) > BufSize
               \/ kind = "hand" /\ r.at + 4 * (Hand + 1) > BufSize
            THEN Fail(r)
            ELSE [r EXCEPT !.at = r.at + 4 + SizeBehind(first, kind),
                           !.found = Append(r.found, ValueRead(b, r.at, first, kind))]
    BY <1>1, <1>2, <1>3 DEF Read, SizeBehind, ValueRead
  <2> QED BY <1>4, <1>5, <2>1
<1>7. CASE Fits(b, r.at, kind, v)
  <2>1. PICK at \in Nat : at = from + 4 + size
    OBVIOUS
  <2>2. PICK found : found = Append(r.found, v)
    OBVIOUS
  <2>3. at = r.at + Width(v)
    BY <1>4, <1>5, <2>1
  <2>4. s = [r EXCEPT !.at = at, !.found = found]
    <3>1. /\ ~(from + 4 + size > BufSize)
          /\ ~(kind = "discarded" /\ b.off + 4 * (v.n + 1) > BufSize)
          /\ ~(kind = "hand" /\ from + 4 * (Hand + 1) > BufSize)
      BY <1>3, <1>4, <1>5, <1>7, CodecAssumption DEF Fits
    <3>2. s = [r EXCEPT !.at = from + 4 + size, !.found = Append(r.found, v)]
      BY <1>6, <3>1
    <3> QED BY <2>1, <2>2, <3>2
  <2>5. s = [at |-> at, found |-> found, ok |-> r.ok]
    BY <2>4, ReaderExcept
  <2>6. found \in Seq(Fields)
    BY <1>3, <2>2, AppendProperties
  <2> QED BY <1>1, <1>3, <1>7, <2>2, <2>3, <2>5, <2>6 DEF Readers
<1>8. CASE ~Fits(b, r.at, kind, v)
  <2>1. s = Fail(r)
    BY <1>3, <1>4, <1>5, <1>6, <1>8, CodecAssumption DEF Fits
  <2>2. s \in Readers /\ ~s.ok /\ s.found = r.found
    BY <2>1 DEF Fail, Readers
  <2> QED BY <1>1, <1>8, <2>2
<1> QED BY <1>7, <1>8

\* Reading on after an exception, which no program does, would find no more.
LEMMA ReadFails ==
  ASSUME NEW b, NEW r \in Readers, ~r.ok, NEW kind
  PROVE  Read(b, r, kind) \in Readers /\ ~Read(b, r, kind).ok /\ Read(b, r, kind).found = r.found
<1>1. Read(b, r, kind) = Fail(r)
  BY DEF Read
<1> QED BY <1>1 DEF Fail, Readers

\* What is found is the beginning of what is there, all of it unless one read
\* throws.
LEMMA ReadAllGives ==
  ASSUME NEW b \in Buffers, Disjoint(b), NEW kinds \in Seq(Kinds), NEW e \in Seq(Fields),
         Len(kinds) = Len(e), NEW q, Places(q, e, 4),
         \A i \in 1 .. Len(e) : Gives(b, q[i - 1], kinds[i], e[i])
  PROVE  /\ ReadAll(b, kinds) \in Readers
         /\ Len(ReadAll(b, kinds).found) <= Len(e)
         /\ ReadAll(b, kinds).found = SubSeq(e, 1, Len(ReadAll(b, kinds).found))
         /\ ReadAll(b, kinds).ok => ReadAll(b, kinds).found = e
         /\ (\A i \in 1 .. Len(e) : Fits(b, q[i - 1], kinds[i], e[i])) => ReadAll(b, kinds).ok
<1>1. PICK n \in Nat : n = Len(e)
  BY LenProperties
<1>2. \A i \in 1 .. n : e[i] \in Fields /\ kinds[i] \in Kinds
  BY <1>1, ElementOfSeq
<1>3. q \in [0 .. n -> Nat] /\ q[0] = 4 /\ \A i \in 1 .. n : q[i] = q[i - 1] + Width(e[i])
  BY <1>1 DEF Places, PlacesUpTo
<1>4. PICK g : /\ g[0] = Start /\ g[n] = ReadAll(b, kinds)
               /\ \A k \in 1 .. n : g[k] = Read(b, g[k - 1], kinds[k])
  BY <1>1, ReadAllSteps
<1> DEFINE Prefix(s, k) == Len(s) <= k /\ s = SubSeq(e, 1, Len(s))
           Done(k) == /\ g[k] \in Readers
                      /\ Prefix(g[k].found, k)
                      /\ g[k].ok => g[k].found = SubSeq(e, 1, k) /\ g[k].at = q[k]
                      /\ (\A i \in 1 .. k : Fits(b, q[i - 1], kinds[i], e[i])) => g[k].ok
           Q == {k \in 0 .. n : Done(k)}
<1>5. 0 \in Q
  <2>1. SubSeq(e, 1, 0) = <<>> /\ Len(<<>>) = 0
    BY SubSeqEmpty, EmptySeq
  <2>2. Start \in Readers /\ Start.found = <<>> /\ Start.at = 4 /\ Start.ok
    BY EmptySeq DEF Start, Readers
  <2>3. Done(0)
    BY <1>3, <1>4, <2>1, <2>2
  <2> QED BY <2>3
<1>6. ASSUME NEW k \in 1 .. n, k - 1 \in Q PROVE k \in Q
  <2>1. PICK r : r = g[k - 1]
    OBVIOUS
  <2>2. PICK f \in Fields : f = e[k]
    BY <1>2
  <2>3. PICK kind \in Kinds : kind = kinds[k]
    BY <1>2
  <2>4. PICK s : s = Read(b, r, kind)
    OBVIOUS
  <2>5. g[k] = s
    BY <1>4, <2>1, <2>3, <2>4
  <2>6. /\ r \in Readers /\ Len(r.found) <= k - 1 /\ r.found = SubSeq(e, 1, Len(r.found))
        /\ r.ok => r.found = SubSeq(e, 1, k - 1) /\ r.at = q[k - 1]
        /\ (\A i \in 1 .. k - 1 : Fits(b, q[i - 1], kinds[i], e[i])) => r.ok
    BY <1>6, <2>1
  <2>7. Len(r.found) \in Nat
    BY <2>6, LenProperties DEF Readers
  <2>8. Gives(b, q[k - 1], kind, f)
    BY <1>1, <2>2, <2>3
  <2>9. CASE ~r.ok
    <3>1. s \in Readers /\ ~s.ok /\ s.found = r.found
      BY <2>4, <2>6, <2>9, ReadFails
    <3>2. Len(s.found) <= k
      BY <2>6, <2>7, <3>1
    <3>3. ~(\A i \in 1 .. k : Fits(b, q[i - 1], kinds[i], e[i]))
      BY <2>6, <2>9
    <3> QED BY <2>5, <2>6, <3>1, <3>2, <3>3
  <2>10. CASE r.ok
    <3>1. /\ s \in Readers
          /\ s.ok <=> Fits(b, q[k - 1], kind, f)
          /\ ~s.ok => s.found = r.found
          /\ s.ok => s.found = Append(r.found, f) /\ s.at = q[k - 1] + Width(f)
      BY <2>4, <2>6, <2>8, <2>10, ReadGives
    <3>2. CASE ~s.ok
      <4>1. Len(s.found) <= k
        BY <2>6, <2>7, <3>1, <3>2
      <4>2. ~(\A i \in 1 .. k : Fits(b, q[i - 1], kinds[i], e[i]))
        BY <2>2, <2>3, <3>1, <3>2
      <4> QED BY <2>5, <2>6, <3>1, <3>2, <4>1, <4>2
    <3>3. CASE s.ok
      <4>1. SubSeq(e, 1, k) = Append(SubSeq(e, 1, k - 1), f) /\ Len(SubSeq(e, 1, k)) = k
        <5>1. \A i \in 1 .. k : e[i] \in Fields
          BY <1>2
        <5>2. /\ SubSeq(e, 1, k) \in Seq(Fields) /\ Len(SubSeq(e, 1, k)) = k
              /\ \A i \in 1 .. k : SubSeq(e, 1, k)[i] = e[i]
          BY <5>1, SubSeqProperties
        <5>3. /\ SubSeq(e, 1, k - 1) \in Seq(Fields) /\ Len(SubSeq(e, 1, k - 1)) = k - 1
              /\ \A i \in 1 .. k - 1 : SubSeq(e, 1, k - 1)[i] = e[i]
          BY <5>1, SubSeqProperties
        <5>4. PICK t : t = Append(SubSeq(e, 1, k - 1), f)
          OBVIOUS
        <5>5. /\ t \in Seq(Fields) /\ Len(t) = k
              /\ \A i \in 1 .. k : t[i] = e[i]
          BY <2>2, <5>3, <5>4, AppendProperties
        <5> QED BY <5>2, <5>4, <5>5, SeqEqual
      <4>2. s.found = SubSeq(e, 1, k) /\ Len(s.found) = k
        BY <2>6, <2>10, <3>1, <3>3, <4>1
      <4>3. s.at = q[k]
        BY <1>3, <2>2, <3>1, <3>3
      <4> QED BY <2>5, <3>1, <3>3, <4>2, <4>3
    <3> QED BY <3>2, <3>3
  <2> QED BY <2>9, <2>10
<1> HIDE DEF Q
<1>7. n \in Q
  <2>1. \A k \in 0 .. n : k \in Q
    BY <1>5, <1>6, UpTo
  <2> QED BY <2>1
<1>8. Done(n)
  BY <1>7 DEF Q
<1>9. SubSeq(e, 1, n) = e
  BY <1>1, SubSeqFull
<1> QED BY <1>1, <1>4, <1>8, <1>9

\* Reading kind where the field f was written finds v: f itself, or of cards only
\* how many there are.
Reads(kind, f, v) ==
  \/ kind = "int" /\ f.what = "int" /\ v = f
  \/ kind = "int" /\ f.what = "cards" /\ v = Int4(f.n)
  \/ kind = "string" /\ f.what \notin {"int", "cards"} /\ v = f
  \/ kind \in {"hand", "discarded"} /\ f.what = "cards" /\ v = f
ReadsNothing(kind, v) ==
  \/ kind = "int" /\ v = Int4(0)
  \/ kind = "string" /\ v = Text("", 0)

\* Reading kinds where w was written finds e: only the last field may be another
\* than the one written, for the next one is looked for behind it.
Finding(w, kinds, e) ==
  \A i \in 1 .. Len(e) :
    /\ i <= Len(w) => Reads(kinds[i], w[i], e[i]) /\ (i = Len(e) \/ e[i] = w[i])
    /\ i > Len(w) => ReadsNothing(kinds[i], e[i])

\* There is room for all of it, from an offset end behind w.
Room(b, w, kinds, e, end) ==
  /\ end <= BufSize
  /\ Len(e) > Len(w) => end + 4 * (Len(e) - Len(w)) <= BufSize
  /\ \A i \in 1 .. Len(e) :
       /\ kinds[i] = "discarded" => b.off + 4 * (e[i].n + 1) <= BufSize
       /\ kinds[i] = "hand" => end + 4 * (Hand + 1) <= BufSize

LEMMA ReadsGives ==
  ASSUME NEW b, NEW at, NEW kind, NEW f \in Fields, NEW v, HasField(b, at, f), Reads(kind, f, v)
  PROVE  Gives(b, at, kind, v)
<1>1. CASE kind = "int" /\ f.what = "int" /\ v = f
  <2>1. v = Int4(f.n)
    BY <1>1 DEF Fields, Int4
  <2> QED BY <1>1, <2>1 DEF Gives, HasField
<1>2. CASE kind = "int" /\ f.what = "cards" /\ v = Int4(f.n)
  <2>1. v.what = "int" /\ Cell(at, 4, v) \in b.cells
    BY <1>2 DEF HasField, Int4
  <2> QED BY <1>2, <2>1 DEF Gives
<1>3. CASE kind = "string" /\ f.what \notin {"int", "cards"} /\ v = f
  BY <1>3 DEF Gives
<1>4. CASE kind \in {"hand", "discarded"} /\ f.what = "cards" /\ v = f
  BY <1>4 DEF Gives
<1> QED BY <1>1, <1>2, <1>3, <1>4 DEF Reads

\* Where the reader of a packet is before each field: where the writer was, and
\* then behind all that was written.
LEMMA ReaderPlaces ==
  ASSUME NEW k \in Nat, NEW w \in Seq(Fields), NEW p, Places(p, <<Int4(k)>> \o w, 0),
         NEW kinds, NEW e \in Seq(Fields), Finding(w, kinds, e), NEW q, Places(q, e, 4),
         NEW i \in 0 .. Len(e)
  PROVE  /\ q[i] \in Nat /\ p[Len(w) + 1] \in Nat
         /\ i <= Len(w) => p[i + 1] \in Nat /\ q[i] <= p[i + 1] /\ p[i + 1] <= p[Len(w) + 1]
         /\ i <= Len(w) /\ i < Len(e) => q[i] = p[i + 1]
         /\ i > Len(w) => q[i] = p[Len(w) + 1] + 4 * (i - Len(w))
         /\ i = Len(w) /\ i < Len(e) => q[i] = p[Len(w) + 1]
<1>1. PICK hs : hs = <<Int4(k)>> \o w
  OBVIOUS
<1>2. PICK m \in Nat : m = Len(w)
  BY LenProperties
<1>3. PICK n \in Nat : n = Len(e)
  BY LenProperties
<1>4. Int4(k) \in Fields /\ Width(Int4(k)) = 4
  BY FieldTypes, Widths
<1>5. /\ hs \in Seq(Fields) /\ Len(hs) = m + 1 /\ hs[1] = Int4(k)
      /\ \A j \in 1 .. m : hs[j + 1] = w[j] /\ w[j] \in Fields
  BY <1>1, <1>2, <1>4, ElementOfSeq
<1>6. p \in [0 .. m + 1 -> Nat] /\ p[0] = 0 /\ \A j \in 1 .. m + 1 : p[j] = p[j - 1] + Width(hs[j])
  BY <1>1, <1>5 DEF Places, PlacesUpTo
<1>7. q \in [0 .. n -> Nat] /\ q[0] = 4 /\ \A j \in 1 .. n : q[j] = q[j - 1] + Width(e[j])
  BY <1>3 DEF Places, PlacesUpTo
<1>8. p[1] = 4
  BY <1>4, <1>5, <1>6
<1>9. \A j \in 1 .. m + 1 : p[j] <= p[m + 1]
  <2> TAKE j \in 1 .. m + 1
  <2>1. j \in 0 .. Len(hs) /\ Places(p, hs, 0)
    BY <1>1, <1>5
  <2> QED BY <1>5, <2>1, PlacesGrow
<1> DEFINE Is(j) == /\ j <= m => q[j] <= p[j + 1]
                    /\ j <= m /\ j < n => q[j] = p[j + 1]
                    /\ j > m => q[j] = p[m + 1] + 4 * (j - m)
           Q == {j \in 0 .. n : Is(j)}
<1>10. 0 \in Q
  BY <1>7, <1>8
<1>11. ASSUME NEW j \in 1 .. n, j - 1 \in Q PROVE j \in Q
  <2>1. q[j] = q[j - 1] + Width(e[j]) /\ q[j - 1] \in Nat /\ q[j] \in Nat
    BY <1>7
  <2>2. e[j] \in Fields
    BY <1>3, ElementOfSeq
  <2>3. CASE j <= m
    <3>1. q[j - 1] = p[j]
      BY <1>11, <2>3
    <3>2. PICK f \in Fields : f = w[j] /\ hs[j + 1] = f
      BY <1>5, <2>3
    <3>3. Reads(kinds[j], f, e[j]) /\ (j = n \/ e[j] = f)
      BY <1>2, <1>3, <2>3, <3>2 DEF Finding
    <3>4. Width(f) \in Nat /\ Width(f) >= 4 /\ f.n \in Nat
      BY FieldTypes
    <3>5. e[j] = f \/ e[j] = Int4(f.n)
      BY <3>3 DEF Reads
    <3>6. Width(e[j]) <= Width(f) /\ Width(e[j]) \in Nat
      BY <3>4, <3>5, Widths
    <3>7. j + 1 \in 1 .. m + 1 /\ (j + 1) - 1 = j /\ j \in 0 .. m + 1
      BY <2>3
    <3>8. p[j + 1] = p[j] + Width(f) /\ p[j] \in Nat
      BY <1>6, <3>2, <3>7
    <3>9. q[j] <= p[j + 1] /\ (j < n => q[j] = p[j + 1])
      BY <2>1, <3>1, <3>3, <3>4, <3>6, <3>8
    <3> QED BY <2>3, <3>9
  <2>4. CASE j > m
    <3>1. Width(e[j]) = 4
      <4>1. ReadsNothing(kinds[j], e[j])
        BY <1>2, <1>3, <2>4 DEF Finding
      <4>2. Width(Int4(0)) = 4 /\ Width(Text("", 0)) = 4
        BY DEF Text, Int4, Width
      <4> QED BY <4>1, <4>2 DEF ReadsNothing
    <3>2. p[m + 1] \in Nat
      BY <1>6
    <3>3. q[j - 1] = p[m + 1] + 4 * ((j - 1) - m)
      <4>1. CASE j - 1 = m
        BY <1>11, <3>2, <4>1
      <4>2. CASE j - 1 # m
        BY <1>11, <2>4, <4>2
      <4> QED BY <4>1, <4>2
    <3>4. q[j] = p[m + 1] + 4 * (j - m)
      BY <2>1, <3>1, <3>2, <3>3
    <3> QED BY <2>4, <3>4
  <2> QED BY <2>3, <2>4
<1> HIDE DEF Q
<1>12. \A j \in 0 .. n : j \in Q
  BY <1>10, <1>11, UpTo
<1>13. Is(i) /\ i \in 0 .. n
  BY <1>3, <1>12 DEF Q
<1>14. /\ q[i] \in Nat /\ p[m + 1] \in Nat
       /\ i <= m => p[i + 1] \in Nat /\ p[i + 1] <= p[m + 1]
  BY <1>6, <1>7, <1>9, <1>13
<1> QED BY <1>2, <1>3, <1>13, <1>14

\* What a reader finds of a packet is the beginning of e, and all of it if there
\* is room.
LEMMA ReadsFrame ==
  ASSUME NEW b, NEW p, NEW k \in Nat, NEW w \in Seq(Fields), Carries(b, p, <<Int4(k)>> \o w),
         NEW kinds \in Seq(Kinds), NEW e \in Seq(Fields), Len(kinds) = Len(e), Finding(w, kinds, e)
  PROVE  /\ ReadAll(b, kinds) \in Readers
         /\ Len(ReadAll(b, kinds).found) <= Len(e)
         /\ ReadAll(b, kinds).found = SubSeq(e, 1, Len(ReadAll(b, kinds).found))
         /\ ReadAll(b, kinds).ok => ReadAll(b, kinds).found = e
         /\ Room(b, w, kinds, e, p[Len(w) + 1]) => ReadAll(b, kinds).ok
<1>1. PICK hs : hs = <<Int4(k)>> \o w
  OBVIOUS
<1>2. PICK m \in Nat : m = Len(w)
  BY LenProperties
<1>3. PICK n \in Nat : n = Len(e)
  BY LenProperties
<1>4. Int4(k) \in Fields
  BY FieldTypes
<1>5. /\ hs \in Seq(Fields) /\ Len(hs) = m + 1
      /\ \A j \in 1 .. m : hs[j + 1] = w[j] /\ w[j] \in Fields
  BY <1>1, <1>2, <1>4, ElementOfSeq
<1>6. /\ b \in Buffers /\ Disjoint(b) /\ EndsBy(b, p[m + 1]) /\ Places(p, hs, 0)
      /\ \A j \in 1 .. m + 1 : HasField(b, p[j - 1], hs[j])
  BY <1>1, <1>5 DEF Carries, Laid
<1>7. PICK q : Places(q, e, 4)
  BY PlacesExist
<1>8. ASSUME NEW i \in 0 .. n
      PROVE  /\ q[i] \in Nat /\ p[m + 1] \in Nat
             /\ i <= m => p[i + 1] \in Nat /\ q[i] <= p[i + 1] /\ p[i + 1] <= p[m + 1]
             /\ i <= m /\ i < n => q[i] = p[i + 1]
             /\ i > m => q[i] = p[m + 1] + 4 * (i - m)
             /\ i = m /\ i < n => q[i] = p[m + 1]
  BY <1>1, <1>2, <1>3, <1>6, <1>7, ReaderPlaces
<1>9. \A i \in 1 .. n : e[i] \in Fields /\ q[i] = q[i - 1] + Width(e[i]) /\ q[i - 1] \in Nat
                        /\ Width(e[i]) \in Nat
  <2> TAKE i \in 1 .. n
  <2>1. e[i] \in Fields /\ i - 1 \in 0 .. n
    BY <1>3, ElementOfSeq
  <2> QED BY <1>3, <1>7, <1>8, <2>1, FieldTypes DEF Places, PlacesUpTo
<1>10. \A i \in 1 .. n : Gives(b, q[i - 1], kinds[i], e[i])
  <2> TAKE i \in 1 .. n
  <2>1. i - 1 \in 0 .. n /\ i - 1 < n /\ (i - 1) + 1 = i
    OBVIOUS
  <2>2. CASE i <= m
    <3>1. q[i - 1] = p[i]
      BY <1>8, <2>1, <2>2
    <3>2. i + 1 \in 1 .. m + 1 /\ (i + 1) - 1 = i
      BY <2>2
    <3>3. PICK f \in Fields : f = w[i] /\ f = hs[i + 1]
      BY <1>5, <2>2
    <3>4. HasField(b, p[i], f)
      BY <1>6, <3>2, <3>3
    <3>5. Reads(kinds[i], f, e[i])
      BY <1>2, <1>3, <2>2, <3>3 DEF Finding
    <3> QED BY <3>1, <3>4, <3>5, ReadsGives
  <2>3. CASE i > m
    <3>1. q[i - 1] >= p[m + 1] /\ q[i - 1] \in Nat /\ p[m + 1] \in Nat
      <4>1. q[i - 1] \in Nat /\ p[m + 1] \in Nat
        BY <1>8, <2>1
      <4>2. CASE i - 1 = m
        <5>1. q[i - 1] = p[m + 1]
          BY <1>8, <2>1, <4>2
        <5> QED BY <4>1, <5>1
      <4>3. CASE i - 1 # m
        <5>1. i - 1 > m
          BY <2>3, <4>3
        <5>2. q[i - 1] = p[m + 1] + 4 * ((i - 1) - m)
          BY <1>8, <2>1, <5>1
        <5> QED BY <4>1, <5>1, <5>2
      <4> QED BY <4>2, <4>3, <4>1
    <3>2. EndsBy(b, q[i - 1])
      <4> SUFFICES ASSUME NEW c \in b.cells PROVE c.at + c.size <= q[i - 1]
        BY DEF EndsBy
      <4>1. c.at + c.size <= p[m + 1] /\ c.at \in Nat /\ c.size \in Nat
        BY <1>6 DEF EndsBy, Buffers
      <4> QED BY <3>1, <4>1
    <3>3. ReadsNothing(kinds[i], e[i])
      BY <1>2, <1>3, <2>3 DEF Finding
    <3> QED BY <3>2, <3>3 DEF Gives, ReadsNothing
  <2> QED BY <2>2, <2>3
<1>11. ASSUME Room(b, w, kinds, e, p[m + 1]), NEW i \in 1 .. n
       PROVE  Fits(b, q[i - 1], kinds[i], e[i])
  <2>1. /\ p[m + 1] <= BufSize
        /\ n > m => p[m + 1] + 4 * (n - m) <= BufSize
        /\ kinds[i] = "discarded" => b.off + 4 * (e[i].n + 1) <= BufSize
        /\ kinds[i] = "hand" => p[m + 1] + 4 * (Hand + 1) <= BufSize
    BY <1>2, <1>3, <1>11 DEF Room
  <2>2. q[i - 1] + Width(e[i]) <= BufSize
    <3>1. q[i - 1] + Width(e[i]) = q[i] /\ i \in 0 .. n
      BY <1>9
    <3>2. CASE i <= m
      <4>1. q[i] <= p[i + 1] /\ p[i + 1] <= p[m + 1] /\ q[i] \in Nat /\ p[i + 1] \in Nat /\ p[m + 1] \in Nat
        BY <1>8, <3>1, <3>2
      <4> QED BY <2>1, <3>1, <4>1, CodecAssumption
    <3>3. CASE i > m
      <4>1. q[i] = p[m + 1] + 4 * (i - m) /\ p[m + 1] \in Nat
        BY <1>8, <3>1, <3>3
      <4>2. PICK x \in Nat, y \in Nat : x = i - m /\ y = n - m /\ x <= y
        BY <3>3
      <4>3. p[m + 1] + 4 * y <= BufSize
        BY <2>1, <3>3, <4>2
      <4>4. p[m + 1] + 4 * x <= BufSize
        BY <4>1, <4>2, <4>3, CodecAssumption
      <4> QED BY <3>1, <4>1, <4>2, <4>4
    <3> QED BY <3>2, <3>3
  <2>3. ASSUME kinds[i] = "hand" PROVE q[i - 1] + 4 * (Hand + 1) <= BufSize
    <3>1. i <= m
      <4> SUFFICES ASSUME i > m PROVE FALSE
        OBVIOUS
      <4>1. ReadsNothing(kinds[i], e[i])
        BY <1>2, <1>3 DEF Finding
      <4> QED BY <2>3, <4>1 DEF ReadsNothing
    <3>2. i - 1 \in 0 .. n /\ i - 1 <= m
      BY <3>1
    <3>3. q[i - 1] \in Nat /\ p[m + 1] \in Nat /\ q[i - 1] <= p[m + 1]
      <4>1. q[i - 1] <= p[(i - 1) + 1] /\ p[(i - 1) + 1] <= p[m + 1] /\ p[(i - 1) + 1] \in Nat
        BY <1>8, <3>2
      <4>2. q[i - 1] \in Nat /\ p[m + 1] \in Nat
        BY <1>8, <3>2
      <4> QED BY <4>1, <4>2
    <3> QED BY <2>1, <2>3, <3>3, CodecAssumption
  <2> QED BY <2>1, <2>2, <2>3 DEF Fits
<1>12. /\ ReadAll(b, kinds) \in Readers
       /\ Len(ReadAll(b, kinds).found) <= Len(e)
       /\ ReadAll(b, kinds).found = SubSeq(e, 1, Len(ReadAll(b, kinds).found))
       /\ ReadAll(b, kinds).ok => ReadAll(b, kinds).found = e
       /\ (\A i \in 1 .. n : Fits(b, q[i - 1], kinds[i], e[i])) => ReadAll(b, kinds).ok
  BY <1>3, <1>6, <1>7, <1>10, ReadAllGives
<1> QED BY <1>2, <1>11, <1>12

\* The beginning of the beginning.
LEMMA Begins ==
  ASSUME NEW e \in Seq(Fields), NEW w \in Seq(Fields), Len(e) <= Len(w),
         \A i \in 1 .. Len(e) : e[i] = w[i],
         NEW n \in Nat, n <= Len(e)
  PROVE  SubSeq(e, 1, n) = SubSeq(w, 1, n)
<1>1. Len(e) \in Nat /\ Len(w) \in Nat
  BY LenProperties
<1>2. \A i \in 1 .. n : e[i] \in Fields /\ w[i] \in Fields /\ e[i] = w[i]
  BY <1>1, ElementOfSeq
<1>3. /\ SubSeq(e, 1, n) \in Seq(Fields) /\ Len(SubSeq(e, 1, n)) = n
      /\ \A i \in 1 .. n : SubSeq(e, 1, n)[i] = e[i]
  BY <1>2, SubSeqProperties
<1>4. /\ SubSeq(w, 1, n) \in Seq(Fields) /\ Len(SubSeq(w, 1, n)) = n
      /\ \A i \in 1 .. n : SubSeq(w, 1, n)[i] = w[i]
  BY <1>2, SubSeqProperties
<1> QED BY <1>2, <1>3, <1>4, SeqEqual

LEMMA FindsBeginning ==
  ASSUME NEW r \in Readers, NEW e \in Seq(Fields), NEW type, NEW fields,
         NEW w \in Seq(Fields), w = <<Int4(Code(type))>> \o fields,
         Len(r.found) <= Len(e), r.found = SubSeq(e, 1, Len(r.found)),
         Len(e) <= Len(w), \A i \in 1 .. Len(e) : e[i] = w[i],
         Finds(r, type, fields)
  PROVE  FieldsSurvive'
<1>1. Len(r.found) \in Nat
  BY LenProperties DEF Readers
<1>2. r.found = SubSeq(w, 1, Len(r.found))
  BY <1>1, Begins
<1> QED BY <1>2 DEF Finds, FieldsSurvive

(***************************************************************************)
(* The fields of the packets.                                              *)
(***************************************************************************)
Texts == {f \in Fields : f.what \notin {"int", "cards"}}
RequestTypes == {"REQ_LOG_IN", "REQ_REGISTER", "REQ_HOST_ROOM", "REQ_ENTER_ROOM", "PlAYER_TURN_OVER"}
BriefTypes ==
  {"ALLOW_HOST_ROOM", "REJECT_HOST_ROOM", "ALLOW_ENTER_ROOM", "REJECT_ENTER_ROOM", "PLAYER_TURN"}
NamedTypes == {"ACCEPT_LOG_IN", "REJECT_LOG_IN", "ACCEPT_REGISTER", "REJECT_REGISTER"}
AnswerTypes == BriefTypes \cup NamedTypes \cup {"ALLOW_PLAY_GAME", "DEAL_CARDS"}

\* How many bytes the fields fs take.
Total(fs) == (CHOOSE p : Places(p, fs, 0))[Len(fs)]

\* The fields of a whole packet.
Framed(k, type, fs) == <<Int4(k)>> \o (<<Int4(Code(type))>> \o fs)

ShortStrings ==
  /\ packet.id <= SafeLength /\ packet.text <= SafeLength /\ packet.other <= SafeLength
  /\ KeyLen <= SafeLength
Brief(f) == ShortStrings => Width(f) <= 4 + SafeLength

LEMMA Totals ==
  /\ Total(<<>>) = 0
  /\ \A f \in Fields : Total(<<f>>) = Width(f)
  /\ \A f \in Fields, g \in Fields : Total(<<f, g>>) = Width(f) + Width(g)
  /\ \A f \in Fields, g \in Fields, h \in Fields : Total(<<f, g, h>>) = Width(f) + Width(g) + Width(h)
<1>1. ASSUME NEW fs \in Seq(Fields) PROVE \E p : Total(fs) = p[Len(fs)] /\ Places(p, fs, 0)
  BY PlacesExist DEF Total
<1>2. Total(<<>>) = 0
  <2>1. <<>> \in Seq(Fields) /\ Len(<<>>) = 0
    BY EmptySeq
  <2> QED BY <1>1, <2>1 DEF Places, PlacesUpTo
<1>3. ASSUME NEW f \in Fields PROVE Total(<<f>>) = Width(f)
  <2>0. PICK fs : fs = <<f>>
    OBVIOUS
  <2>1. fs \in Seq(Fields) /\ Len(fs) = 1 /\ fs[1] = f
    BY <2>0
  <2>2. PICK p : /\ Total(fs) = p[1] /\ p[0] = 0
                 /\ \A i \in 1 .. 1 : p[i] = p[i - 1] + Width(fs[i])
    BY <1>1, <2>1 DEF Places, PlacesUpTo
  <2> QED BY <2>0, <2>1, <2>2, FieldTypes
<1>4. ASSUME NEW f \in Fields, NEW g \in Fields PROVE Total(<<f, g>>) = Width(f) + Width(g)
  <2>0. PICK fs : fs = <<f, g>>
    OBVIOUS
  <2>1. fs \in Seq(Fields) /\ Len(fs) = 2 /\ fs[1] = f /\ fs[2] = g
    BY <2>0
  <2>2. PICK p : Total(fs) = p[2] /\ p[0] = 0 /\ p[1] = p[0] + Width(f) /\ p[2] = p[1] + Width(g)
    <3>1. PICK n \in Nat : n = 2 /\ n = Len(fs)
      BY <2>1
    <3>2. PICK p : /\ Total(fs) = p[n] /\ p[0] = 0
                   /\ \A i \in 1 .. n : p[i] = p[i - 1] + Width(fs[i])
      <4>1. fs \in Seq(Fields) /\ n = Len(fs)
        BY <2>1, <3>1
      <4>2. PICK p : Total(fs) = p[Len(fs)] /\ Places(p, fs, 0)
        BY <1>1, <4>1
      <4> QED BY <4>1, <4>2 DEF Places, PlacesUpTo
    <3>3. 1 \in 1 .. n /\ 1 - 1 = 0 /\ 2 \in 1 .. n /\ 2 - 1 = 1
      BY <3>1
    <3>4. p[1] = p[0] + Width(f) /\ p[2] = p[1] + Width(g)
      BY <2>1, <3>2, <3>3
    <3> QED BY <3>1, <3>2, <3>4
  <2>3. p[1] = Width(f)
    BY <2>2, FieldTypes
  <2> QED BY <2>0, <2>2, <2>3
<1>5. ASSUME NEW f \in Fields, NEW g \in Fields, NEW h \in Fields
      PROVE  Total(<<f, g, h>>) = Width(f) + Width(g) + Width(h)
  <2>0. PICK fs : fs = <<f, g, h>>
    OBVIOUS
  <2>1. fs \in Seq(Fields) /\ Len(fs) = 3 /\ fs[1] = f /\ fs[2] = g /\ fs[3] = h
    BY <2>0
  <2>2. PICK p : /\ Total(fs) = p[3] /\ p[0] = 0 /\ p[1] = p[0] + Width(f)
                 /\ p[2] = p[1] + Width(g) /\ p[3] = p[2] + Width(h)
    <3>1. PICK n \in Nat : n = 3 /\ n = Len(fs)
      BY <2>1
    <3>2. PICK p : /\ Total(fs) = p[n] /\ p[0] = 0
                   /\ \A i \in 1 .. n : p[i] = p[i - 1] + Width(fs[i])
      <4>1. fs \in Seq(Fields) /\ n = Len(fs)
        BY <2>1, <3>1
      <4>2. PICK p : Total(fs) = p[Len(fs)] /\ Places(p, fs, 0)
        BY <1>1, <4>1
      <4> QED BY <4>1, <4>2 DEF Places, PlacesUpTo
    <3>3. 1 \in 1 .. n /\ 1 - 1 = 0 /\ 2 \in 1 .. n /\ 2 - 1 = 1 /\ 3 \in 1 .. n /\ 3 - 1 = 2
      BY <3>1
    <3>4. p[1] = p[0] + Width(f) /\ p[2] = p[1] + Width(g) /\ p[3] = p[2] + Width(h)
      BY <2>1, <3>2, <3>3
    <3> QED BY <3>1, <3>2, <3>4
  <2>3. p[1] = Width(f)
    BY <2>2, FieldTypes
  <2> QED BY <2>0, <2>2, <2>3
<1> QED BY <1>2, <1>3, <1>4, <1>5

LEMMA WriteAllTotal ==
  ASSUME NEW fs \in Seq(Fields)
  PROVE  /\ Total(fs) \in Nat /\ WriteAll(New, fs) \in Buffers
         /\ WriteAll(New, fs).ok <=> Total(fs) <= BufSize
         /\ WriteAll(New, fs).ok => Holds(WriteAll(New, fs), fs) /\ WriteAll(New, fs).off = Total(fs)
<1>1. PICK p : p = (CHOOSE q : Places(q, fs, 0))
  OBVIOUS
<1>2. Places(p, fs, 0) /\ Total(fs) = p[Len(fs)]
  BY <1>1, PlacesExist DEF Total
<1>3. Total(fs) \in Nat
  <2>1. Len(fs) \in Nat
    BY LenProperties
  <2> QED BY <1>2, <2>1 DEF Places, PlacesUpTo
<1>4. /\ WriteAll(New, fs) \in Buffers
      /\ WriteAll(New, fs).ok <=> p[Len(fs)] <= BufSize
      /\ WriteAll(New, fs).ok => /\ Carries(WriteAll(New, fs), p, fs)
                                 /\ WriteAll(New, fs).off = p[Len(fs)]
  BY <1>2, WriteAllHolds
<1> QED BY <1>2, <1>3, <1>4 DEF Holds

\* Both ways to say where the header ends.
LEMMA FramedIs ==
  ASSUME NEW k \in Nat, NEW type, Code(type) \in Nat, NEW fs \in Seq(Fields)
  PROVE  /\ Framed(k, type, fs) = <<Int4(k), Int4(Code(type))>> \o fs
         /\ <<Int4(Code(type))>> \o fs \in Seq(Fields)
         /\ Len(<<Int4(Code(type))>> \o fs) = Len(fs) + 1
         /\ (<<Int4(Code(type))>> \o fs)[1] = Int4(Code(type))
         /\ \A i \in 1 .. Len(fs) : (<<Int4(Code(type))>> \o fs)[i + 1] = fs[i]
<1>1. PICK x \in Fields, c \in Fields : x = Int4(k) /\ c = Int4(Code(type))
  BY FieldTypes
<1>2. PICK n \in Nat : n = Len(fs)
  BY LenProperties
<1>3. PICK w : w = <<c>> \o fs
  OBVIOUS
<1>4. w \in Seq(Fields) /\ Len(w) = n + 1 /\ w[1] = c /\ \A i \in 1 .. n : w[i + 1] = fs[i]
  BY <1>2, <1>3
<1>5. PICK s : s = <<x>> \o w
  OBVIOUS
<1>6. s \in Seq(Fields) /\ Len(s) = n + 2 /\ s[1] = x /\ \A i \in 1 .. n + 1 : s[i + 1] = w[i]
  BY <1>4, <1>5
<1>7. PICK t : t = <<x, c>> \o fs
  OBVIOUS
<1>8. t \in Seq(Fields) /\ Len(t) = n + 2 /\ t[1] = x /\ t[2] = c /\ \A i \in 1 .. n : t[i + 2] = fs[i]
  BY <1>2, <1>7
<1>9. ASSUME NEW i \in 1 .. n + 2 PROVE s[i] = t[i]
  <2>1. CASE i = 1
    BY <1>6, <1>8, <2>1
  <2>2. CASE i = 2
    <3>1. s[1 + 1] = w[1]
      BY <1>6
    <3> QED BY <1>4, <1>8, <2>2, <3>1
  <2>3. CASE i \in 3 .. n + 2
    <3>1. PICK j \in 1 .. n : i = j + 2
      BY <2>3
    <3>2. s[(j + 1) + 1] = w[j + 1] /\ (j + 1) + 1 = i
      BY <1>6, <3>1
    <3> QED BY <1>4, <1>8, <3>1, <3>2
  <2> QED BY <2>1, <2>2, <2>3
<1>10. s = t
  BY <1>6, <1>8, <1>9, SeqEqual
<1> QED BY <1>1, <1>2, <1>3, <1>4, <1>5, <1>7, <1>10 DEF Framed

\* serializePacket puts a header before what was written.
LEMMA HeaderHolds ==
  ASSUME NEW k \in Nat, NEW type, Code(type) \in Nat, NEW pb \in Buffers, NEW fs,
         pb.ok => Holds(pb, fs),
         NEW d, d = WriteBuffer(WriteAll(New, <<Int4(k), Int4(Code(type))>>), pb)
  PROVE  /\ d.ok <=> pb.ok /\ pb.off + 8 <= BufSize
         /\ d.ok => Holds(d, Framed(k, type, fs)) /\ d.off = pb.off + 8
<1>1. PICK x \in Fields, c \in Fields : x = Int4(k) /\ c = Int4(Code(type))
  BY FieldTypes
<1>2. Width(x) = 4 /\ Width(c) = 4
  BY <1>1, Widths
<1>3. PICK h : h = WriteAll(New, <<x, c>>)
  OBVIOUS
<1>4. /\ h \in Buffers /\ (h.ok <=> 8 <= BufSize)
      /\ h.ok => Holds(h, <<x, c>>) /\ h.off = 8
  <2>1. <<x, c>> \in Seq(Fields) /\ Total(<<x, c>>) = 8
    BY <1>2, Totals
  <2> QED BY <1>3, <2>1, WriteAllTotal
<1>5. d = WriteBuffer(h, pb) /\ pb.off \in Nat /\ pb.ok \in BOOLEAN /\ h.ok \in BOOLEAN
  BY <1>1, <1>3, <1>4 DEF Buffers
<1>6. CASE ~h.ok \/ ~pb.ok
  <2>1. d = [h EXCEPT !.ok = FALSE]
    BY <1>5, <1>6 DEF WriteBuffer
  <2>2. ~d.ok
    BY <1>4, <2>1 DEF Buffers
  <2>3. ~(pb.ok /\ pb.off + 8 <= BufSize)
    BY <1>4, <1>5, <1>6, CodecAssumption
  <2> QED BY <2>2, <2>3
<1>7. CASE h.ok /\ pb.ok
  <2>0. PICK xs : xs = <<x, c>> /\ Holds(h, xs) /\ Holds(pb, fs) /\ h.off = 8
    BY <1>4, <1>7
  <2>1. /\ d.ok <=> 8 + pb.off <= BufSize
        /\ d.ok => Holds(d, <<x, c>> \o fs) /\ d.off = 8 + pb.off
    <3>1. /\ WriteBuffer(h, pb).ok <=> h.off + pb.off <= BufSize
          /\ WriteBuffer(h, pb).ok => /\ Holds(WriteBuffer(h, pb), xs \o fs)
                                      /\ WriteBuffer(h, pb).off = h.off + pb.off
      BY <2>0, WriteBufferHolds
    <3> QED BY <1>5, <2>0, <3>1
  <2>2. fs \in Seq(Fields)
    BY <1>7, HoldsSound
  <2>3. <<x, c>> \o fs = Framed(k, type, fs)
    BY <1>1, <2>2, FramedIs
  <2>4. 8 + pb.off = pb.off + 8
    BY <1>5
  <2> QED BY <1>7, <2>1, <2>3, <2>4
<1> QED BY <1>6, <1>7

LEMMA CodeIsNat ==
  ASSUME NEW type \in RequestTypes \cup AnswerTypes
  PROVE  Code(type) \in Nat
<1>1. CASE \E i \in DOMAIN Requests : Requests[i] = type
  <2>1. DOMAIN Requests = 1 .. 5
    BY DEF Requests
  <2>2. PICK i : i = (CHOOSE j \in DOMAIN Requests : Requests[j] = type)
    OBVIOUS
  <2>3. i \in DOMAIN Requests
    BY <1>1, <2>2
  <2> HIDE DEF Requests
  <2> QED BY <1>1, <2>1, <2>2, <2>3 DEF Code
<1>2. CASE ~ \E i \in DOMAIN Requests : Requests[i] = type
  <2>1. type \notin RequestTypes
    <3>1. /\ DOMAIN Requests = 1 .. 5
          /\ Requests[1] = "REQ_LOG_IN" /\ Requests[2] = "REQ_REGISTER" /\ Requests[3] = "REQ_HOST_ROOM"
          /\ Requests[4] = "REQ_ENTER_ROOM" /\ Requests[5] = "PlAYER_TURN_OVER"
      BY DEF Requests
    <3>2. 1 \in 1 .. 5 /\ 2 \in 1 .. 5 /\ 3 \in 1 .. 5 /\ 4 \in 1 .. 5 /\ 5 \in 1 .. 5
      OBVIOUS
    <3> QED BY <1>2, <3>1, <3>2 DEF RequestTypes
  <2>2. DOMAIN Answers = 1 .. 11
    BY DEF Answers
  <2>3. \E i \in DOMAIN Answers : Answers[i] = type
    <3>1. /\ Answers[1] = "ACCEPT_LOG_IN" /\ Answers[2] = "REJECT_LOG_IN"
          /\ Answers[3] = "ACCEPT_REGISTER" /\ Answers[4] = "REJECT_REGISTER"
          /\ Answers[5] = "ALLOW_HOST_ROOM" /\ Answers[6] = "REJECT_HOST_ROOM"
          /\ Answers[7] = "ALLOW_ENTER_ROOM" /\ Answers[8] = "REJECT_ENTER_ROOM"
          /\ Answers[9] = "ALLOW_PLAY_GAME" /\ Answers[10] = "DEAL_CARDS" /\ Answers[11] = "PLAYER_TURN"
      BY DEF Answers
    <3>2. /\ 1 \in 1 .. 11 /\ 2 \in 1 .. 11 /\ 3 \in 1 .. 11 /\ 4 \in 1 .. 11 /\ 5 \in 1 .. 11
          /\ 6 \in 1 .. 11 /\ 7 \in 1 .. 11 /\ 8 \in 1 .. 11 /\ 9 \in 1 .. 11 /\ 10 \in 1 .. 11
          /\ 11 \in 1 .. 11
      OBVIOUS
    <3>3. type \in AnswerTypes
      BY <2>1
    <3> QED BY <2>2, <3>1, <3>2, <3>3 DEF AnswerTypes, BriefTypes, NamedTypes
  <2>4. PICK i : i = (CHOOSE j \in DOMAIN Answers : Answers[j] = type)
    OBVIOUS
  <2>5. i \in 1 .. 11
    BY <2>2, <2>3, <2>4
  <2>6. Code(type) = 99 + i
    BY <1>2, <2>4 DEF Code
  <2> QED BY <2>5, <2>6
<1> QED BY <1>1, <1>2

LEMMA TextIs ==
  ASSUME NEW name \in Names, NEW n \in Nat
  PROVE  Text(name, n) \in Texts /\ Width(Text(name, n)) = 4 + n
<1>1. Text(name, n).what \notin {"int", "cards"}
  BY DEF Text, Names
<1> QED BY <1>1, FieldTypes, Widths DEF Texts

LEMMA PacketTypes ==
  ASSUME packet \in Packets
  PROVE  /\ packet.type \in RequestTypes
         /\ packet.id \in Nat /\ packet.text \in Nat /\ packet.other \in Nat /\ packet.cards \in 0 .. Hand
<1>1. 0 \in Nat /\ 0 \in 0 .. Hand /\ Lengths \subseteq Nat
  BY CodecAssumption
<1>2. /\ packet.type \in RequestTypes
      /\ packet.id \in Lengths /\ packet.text \in Lengths \cup {0} /\ packet.other \in Lengths \cup {0}
      /\ packet.cards \in {0} \cup 0 .. Hand
  <2>1. CASE packet \in [type : {"REQ_LOG_IN", "REQ_REGISTER", "REQ_HOST_ROOM"}, id : Lengths,
                         text : Lengths, other : {0}, cards : {0}]
    BY <2>1 DEF RequestTypes
  <2>2. CASE packet \in [type : {"REQ_ENTER_ROOM"}, id : Lengths, text : Lengths, other : Lengths,
                         cards : {0}]
    BY <2>2 DEF RequestTypes
  <2>3. CASE packet \in [type : {"PlAYER_TURN_OVER"}, id : Lengths, text : Lengths \cup {0},
                         other : Lengths, cards : 0 .. Hand]
    BY <2>3 DEF RequestTypes
  <2> QED BY <2>1, <2>2, <2>3 DEF Packets
<1> QED BY <1>1, <1>2

\* The strings of a packet, and their lengths.
LEMMA Strings ==
  ASSUME packet \in Packets
  PROVE  \A f \in {Id, Other, RoomName, Key, Text("password", packet.text), StampedId} :
           f \in Texts /\ Brief(f)
<1> USE CodecAssumption
<1>1. ASSUME NEW name \in Names, NEW n \in Nat, ShortStrings => n <= SafeLength
      PROVE  Text(name, n) \in Texts /\ Brief(Text(name, n))
  <2>1. SafeLength \in Int
    BY DEF SafeLength
  <2> QED BY <1>1, <2>1, TextIs DEF Brief
<1>2. packet.id \in Nat /\ packet.text \in Nat /\ packet.other \in Nat /\ KeyLen \in Nat
  BY PacketTypes
<1>3. ShortStrings => /\ packet.id <= SafeLength /\ packet.text <= SafeLength
                      /\ packet.other <= SafeLength /\ KeyLen <= SafeLength
  BY DEF ShortStrings
<1>4. {"id", "other", "room", "key", "password"} = Names
  BY DEF Names
<1>5. Id \in Texts /\ Brief(Id)
  BY <1>1, <1>2, <1>3, <1>4 DEF Id
<1>6. Other \in Texts /\ Brief(Other)
  BY <1>1, <1>2, <1>3, <1>4 DEF Other
<1>7. RoomName \in Texts /\ Brief(RoomName)
  BY <1>1, <1>2, <1>3, <1>4 DEF RoomName
<1>8. Key \in Texts /\ Brief(Key)
  BY <1>1, <1>2, <1>3, <1>4 DEF Key
<1>9. Text("password", packet.text) \in Texts /\ Brief(Text("password", packet.text))
  BY <1>1, <1>2, <1>3, <1>4
<1>10. StampedId \in Texts /\ Brief(StampedId)
  BY <1>5, <1>8 DEF StampedId
<1> QED BY <1>5, <1>6, <1>7, <1>8, <1>9, <1>10

\* What strings of at most SafeLength leave room for.
LEMMA SafeRoom ==
  ASSUME ShortStrings
  PROVE  SafeLength \in Nat /\ SafeLength > 0 /\ 20 + 3 * SafeLength + 8 * (Hand + 1) <= BufSize
<1>1. PICK x \in Int : x = BufSize - 20 - 8 * (Hand + 1)
  BY CodecAssumption
<1>2. SafeLength = x \div 3
  BY <1>1 DEF SafeLength
<1>3. 3 * (x \div 3) <= x /\ x \div 3 \in Int
  OBVIOUS
<1>4. KeyLen <= SafeLength
  BY DEF ShortStrings
<1> QED BY <1>1, <1>2, <1>3, <1>4, CodecAssumption

\* A request in the hands of a server: its type, its fields and the appended id.
Stamped == <<Int4(Code(packet.type))>> \o (RequestFields \o <<StampedId>>)

LEMMA Lists ==
  ASSUME NEW c \in Fields, NEW f \in Fields, NEW g \in Fields, NEW h \in Fields, NEW x \in Fields,
         NEW w
  PROVE  /\ w = <<c>> \o (<<f, g>> \o <<x>>) =>
              w \in Seq(Fields) /\ Len(w) = 4 /\ w[1] = c /\ w[2] = f /\ w[3] = g /\ w[4] = x
         /\ w = <<c>> \o (<<f, g, h>> \o <<x>>) =>
              /\ w \in Seq(Fields) /\ Len(w) = 5
              /\ w[1] = c /\ w[2] = f /\ w[3] = g /\ w[4] = h /\ w[5] = x
<1>1. ASSUME w = <<c>> \o (<<f, g>> \o <<x>>)
      PROVE  w \in Seq(Fields) /\ Len(w) = 4 /\ w[1] = c /\ w[2] = f /\ w[3] = g /\ w[4] = x
  <2>1. PICK s : s = <<f, g>> \o <<x>>
    OBVIOUS
  <2>2. s \in Seq(Fields) /\ Len(s) = 3 /\ s[1] = f /\ s[2] = g /\ s[3] = x
    BY <2>1
  <2> QED BY <1>1, <2>1, <2>2
<1>2. ASSUME w = <<c>> \o (<<f, g, h>> \o <<x>>)
      PROVE  /\ w \in Seq(Fields) /\ Len(w) = 5
             /\ w[1] = c /\ w[2] = f /\ w[3] = g /\ w[4] = h /\ w[5] = x
  <2>1. PICK s : s = <<f, g, h>> \o <<x>>
    OBVIOUS
  <2>2. s \in Seq(Fields) /\ Len(s) = 4 /\ s[1] = f /\ s[2] = g /\ s[3] = h /\ s[4] = x
    BY <2>1
  <2> QED BY <1>2, <2>1, <2>2
<1> QED BY <1>1, <1>2

\* Reading kinds where w was written finds its first fields e.
ExpectsOf(w, kinds, e) ==
  /\ e \in Seq(Fields) /\ Len(e) = Len(kinds) /\ Len(e) <= Len(w)
  /\ Finding(w, kinds, e)
  /\ \A i \in 1 .. Len(e) :
       /\ e[i] = w[i] /\ kinds[i] # "hand"
       /\ kinds[i] = "discarded" => e[i].n \in 0 .. Hand

LEMMA ReadsItself ==
  ASSUME NEW f \in Fields
  PROVE  /\ f.what = "int" => Reads("int", f, f)
         /\ f \in Texts => Reads("string", f, f)
         /\ f.what = "cards" => Reads("discarded", f, f) /\ Reads("hand", f, f)
BY DEF Reads, Texts

\* Whatever the request, the server reads fields in the order and with the types
\* they were written in.
LEMMA RequestIs ==
  ASSUME packet \in Packets
  PROVE  /\ RequestFields \in Seq(Fields)
         /\ ShortStrings => Total(RequestFields) <= 8 + 2 * SafeLength + 4 * (Hand + 1)
         /\ Stamped \in Seq(Fields) /\ RequestKinds \in Seq(Kinds)
         /\ \E e : ExpectsOf(Stamped, RequestKinds, e)
<1>1. PICK c \in Fields : c = Int4(Code(packet.type)) /\ c.what = "int"
  <2>1. Code(packet.type) \in Nat
    BY PacketTypes, CodeIsNat
  <2> QED BY <2>1, FieldTypes DEF Int4
<1>2. PICK x \in Fields : x = StampedId /\ x \in Texts
  BY Strings DEF Texts
<1>3. PICK id \in Fields : id = Id /\ id \in Texts /\ Brief(id)
  BY Strings DEF Texts
<1>4. PICK room \in Fields : room = RoomName /\ room \in Texts /\ Brief(room)
  BY Strings DEF Texts
<1>5. PICK password \in Fields : /\ password = Text("password", packet.text)
                                 /\ password \in Texts /\ Brief(password)
  BY Strings DEF Texts
<1>6. PICK one \in Fields : one = Int4(1) /\ one.what = "int" /\ Width(one) = 4
  BY FieldTypes, Widths DEF Int4
<1>7. packet.cards \in Nat /\ packet.cards \in 0 .. Hand
  BY PacketTypes, CodecAssumption
<1>8. PICK cards \in Fields : /\ cards = Cards(packet.cards) /\ cards.what = "cards"
                              /\ cards.n = packet.cards /\ Width(cards) = 4 * (packet.cards + 1)
  BY <1>7, FieldTypes, Widths DEF Cards
<1>9. \A f \in Fields : Width(f) \in Nat
  BY FieldTypes
<1>10. Hand \in Nat /\ BufSize \in Nat
  BY CodecAssumption
<1>11. CASE IsLogin
  <2>1. RequestFields = <<id, password>>
    BY <1>3, <1>4, <1>5, <1>6, <1>8, <1>11 DEF RequestFields, IsLogin
  <2>2. RequestFields \in Seq(Fields)
    BY <2>1
  <2>3. ShortStrings => Total(RequestFields) <= 8 + 2 * SafeLength + 4 * (Hand + 1)
    <3>1. Total(RequestFields) = Width(id) + Width(password)
      BY <2>1, Totals
    <3> QED BY <1>3, <1>4, <1>5, <1>6, <1>7, <1>8, <1>9, <1>10, <3>1, SafeRoom DEF Brief
  <2>4. /\ Stamped \in Seq(Fields) /\ Len(Stamped) = 4
        /\ Stamped[1] = c /\ Stamped[2] = id /\ Stamped[3] = password /\ Stamped[4] = x
    BY <1>1, <1>2, <2>1, Lists DEF Stamped
  <2>5. PICK ks : ks = RequestKinds
    OBVIOUS
  <2>6. ks = <<"int", "string", "string", "string">>
    BY <1>11, <2>5 DEF RequestKinds, IsLogin
  <2>7. /\ ks \in Seq(Kinds) /\ Len(ks) = 4
        /\ ks[1] = "int" /\ ks[2] = "string" /\ ks[3] = "string" /\ ks[4] = "string"
    BY <2>6 DEF Kinds
  <2>8. PICK e : e = <<c, id, password, x>>
    OBVIOUS
  <2>9. /\ e \in Seq(Fields) /\ Len(e) = 4
        /\ e[1] = c /\ e[2] = id /\ e[3] = password /\ e[4] = x
    BY <2>8
  <2>10. ASSUME NEW i \in 1 .. 4
         PROVE  /\ Reads(ks[i], e[i], e[i]) /\ e[i] = Stamped[i] /\ ks[i] # "hand"
                /\ ks[i] = "discarded" => e[i].n \in 0 .. Hand
    <3>1. i = 1 \/ i = 2 \/ i = 3 \/ i = 4
      OBVIOUS
    <3> QED BY <1>1, <1>2, <1>3, <1>4, <1>5, <1>6, <1>7, <1>8, <2>4, <2>7, <2>9, <3>1, ReadsItself
  <2>11. Finding(Stamped, ks, e)
    BY <2>4, <2>9, <2>10 DEF Finding
  <2>12. ExpectsOf(Stamped, ks, e)
    BY <2>4, <2>7, <2>9, <2>10, <2>11 DEF ExpectsOf
  <2> QED BY <2>2, <2>3, <2>4, <2>5, <2>7, <2>12
<1>12. CASE packet.type = "REQ_HOST_ROOM"
  <2>1. RequestFields = <<id, room, one>>
    BY <1>3, <1>4, <1>5, <1>6, <1>8, <1>12 DEF RequestFields, IsLogin
  <2>2. RequestFields \in Seq(Fields)
    BY <2>1
  <2>3. ShortStrings => Total(RequestFields) <= 8 + 2 * SafeLength + 4 * (Hand + 1)
    <3>1. Total(RequestFields) = Width(id) + Width(room) + Width(one)
      BY <2>1, Totals
    <3> QED BY <1>3, <1>4, <1>5, <1>6, <1>7, <1>8, <1>9, <1>10, <3>1, SafeRoom DEF Brief
  <2>4. /\ Stamped \in Seq(Fields) /\ Len(Stamped) = 5
        /\ Stamped[1] = c /\ Stamped[2] = id /\ Stamped[3] = room /\ Stamped[4] = one /\ Stamped[5] = x
    BY <1>1, <1>2, <2>1, Lists DEF Stamped
  <2>5. PICK ks : ks = RequestKinds
    OBVIOUS
  <2>6. ks = <<"int", "string", "string", "int">>
    BY <1>12, <2>5 DEF RequestKinds, IsLogin
  <2>7. /\ ks \in Seq(Kinds) /\ Len(ks) = 4
        /\ ks[1] = "int" /\ ks[2] = "string" /\ ks[3] = "string" /\ ks[4] = "int"
    BY <2>6 DEF Kinds
  <2>8. PICK e : e = <<c, id, room, one>>
    OBVIOUS
  <2>9. /\ e \in Seq(Fields) /\ Len(e) = 4
        /\ e[1] = c /\ e[2] = id /\ e[3] = room /\ e[4] = one
    BY <2>8
  <2>10. ASSUME NEW i \in 1 .. 4
         PROVE  /\ Reads(ks[i], e[i], e[i]) /\ e[i] = Stamped[i] /\ ks[i] # "hand"
                /\ ks[i] = "discarded" => e[i].n \in 0 .. Hand
    <3>1. i = 1 \/ i = 2 \/ i = 3 \/ i = 4
      OBVIOUS
    <3> QED BY <1>1, <1>2, <1>3, <1>4, <1>5, <1>6, <1>7, <1>8, <2>4, <2>7, <2>9, <3>1, ReadsItself
  <2>11. Finding(Stamped, ks, e)
    BY <2>4, <2>9, <2>10 DEF Finding
  <2>12. ExpectsOf(Stamped, ks, e)
    BY <2>4, <2>7, <2>9, <2>10, <2>11 DEF ExpectsOf
  <2> QED BY <2>2, <2>3, <2>4, <2>5, <2>7, <2>12
<1>13. CASE packet.type = "REQ_ENTER_ROOM"
  <2>1. RequestFields = <<id, room>>
    BY <1>3, <1>4, <1>5, <1>6, <1>8, <1>13 DEF RequestFields, IsLogin
  <2>2. RequestFields \in Seq(Fields)
    BY <2>1
  <2>3. ShortStrings => Total(RequestFields) <= 8 + 2 * SafeLength + 4 * (Hand + 1)
    <3>1. Total(RequestFields) = Width(id) + Width(room)
      BY <2>1, Totals
    <3> QED BY <1>3, <1>4, <1>5, <1>6, <1>7, <1>8, <1>9, <1>10, <3>1, SafeRoom DEF Brief
  <2>4. /\ Stamped \in Seq(Fields) /\ Len(Stamped) = 4
        /\ Stamped[1] = c /\ Stamped[2] = id /\ Stamped[3] = room /\ Stamped[4] = x
    BY <1>1, <1>2, <2>1, Lists DEF Stamped
  <2>5. PICK ks : ks = RequestKinds
    OBVIOUS
  <2>6. ks = <<"int", "string", "string">>
    BY <1>13, <2>5 DEF RequestKinds, IsLogin
  <2>7. /\ ks \in Seq(Kinds) /\ Len(ks) = 3
        /\ ks[1] = "int" /\ ks[2] = "string" /\ ks[3] = "string"
    BY <2>6 DEF Kinds
  <2>8. PICK e : e = <<c, id, room>>
    OBVIOUS
  <2>9. /\ e \in Seq(Fields) /\ Len(e) = 3
        /\ e[1] = c /\ e[2] = id /\ e[3] = room
    BY <2>8
  <2>10. ASSUME NEW i \in 1 .. 3
         PROVE  /\ Reads(ks[i], e[i], e[i]) /\ e[i] = Stamped[i] /\ ks[i] # "hand"
                /\ ks[i] = "discarded" => e[i].n \in 0 .. Hand
    <3>1. i = 1 \/ i = 2 \/ i = 3
      OBVIOUS
    <3> QED BY <1>1, <1>2, <1>3, <1>4, <1>5, <1>6, <1>7, <1>8, <2>4, <2>7, <2>9, <3>1, ReadsItself
  <2>11. Finding(Stamped, ks, e)
    BY <2>4, <2>9, <2>10 DEF Finding
  <2>12. ExpectsOf(Stamped, ks, e)
    BY <2>4, <2>7, <2>9, <2>10, <2>11 DEF ExpectsOf
  <2> QED BY <2>2, <2>3, <2>4, <2>5, <2>7, <2>12
<1>14. CASE packet.type = "PlAYER_TURN_OVER"
  <2>1. RequestFields = <<id, room, cards>>
    BY <1>3, <1>4, <1>5, <1>6, <1>8, <1>14 DEF RequestFields, IsLogin
  <2>2. RequestFields \in Seq(Fields)
    BY <2>1
  <2>3. ShortStrings => Total(RequestFields) <= 8 + 2 * SafeLength + 4 * (Hand + 1)
    <3>1. Total(RequestFields) = Width(id) + Width(room) + Width(cards)
      BY <2>1, Totals
    <3> QED BY <1>3, <1>4, <1>5, <1>6, <1>7, <1>8, <1>9, <1>10, <3>1, SafeRoom DEF Brief
  <2>4. /\ Stamped \in Seq(Fields) /\ Len(Stamped) = 5
        /\ Stamped[1] = c /\ Stamped[2] = id /\ Stamped[3] = room /\ Stamped[4] = cards /\ Stamped[5] = x
    BY <1>1, <1>2, <2>1, Lists DEF Stamped
  <2>5. PICK ks : ks = RequestKinds
    OBVIOUS
  <2>6. ks = <<"int", "string", "string", "discarded">>
    BY <1>14, <2>5 DEF RequestKinds, IsLogin
  <2>7. /\ ks \in Seq(Kinds) /\ Len(ks) = 4
        /\ ks[1] = "int" /\ ks[2] = "string" /\ ks[3] = "string" /\ ks[4] = "discarded"
    BY <2>6 DEF Kinds
  <2>8. PICK e : e = <<c, id, room, cards>>
    OBVIOUS
  <2>9. /\ e \in Seq(Fields) /\ Len(e) = 4
        /\ e[1] = c /\ e[2] = id /\ e[3] = room /\ e[4] = cards
    BY <2>8
  <2>10. ASSUME NEW i \in 1 .. 4
         PROVE  /\ Reads(ks[i], e[i], e[i]) /\ e[i] = Stamped[i] /\ ks[i] # "hand"
                /\ ks[i] = "discarded" => e[i].n \in 0 .. Hand
    <3>1. i = 1 \/ i = 2 \/ i = 3 \/ i = 4
      OBVIOUS
    <3> QED BY <1>1, <1>2, <1>3, <1>4, <1>5, <1>6, <1>7, <1>8, <2>4, <2>7, <2>9, <3>1, ReadsItself
  <2>11. Finding(Stamped, ks, e)
    BY <2>4, <2>9, <2>10 DEF Finding
  <2>12. ExpectsOf(Stamped, ks, e)
    BY <2>4, <2>7, <2>9, <2>10, <2>11 DEF ExpectsOf
  <2> QED BY <2>2, <2>3, <2>4, <2>5, <2>7, <2>12
<1> QED BY <1>11, <1>12, <1>13, <1>14, PacketTypes DEF IsLogin, RequestTypes

\* The answers: a string, and what follows it.
AnswerShape(a) ==
  /\ a.to \in Texts /\ Brief(a.to)
  /\ \/ a.type \in NamedTypes /\ \E f \in Texts : a.rest = <<f>> /\ Brief(f)
     \/ a.type \in BriefTypes /\ a.rest = <<>>
     \/ a.type = "ALLOW_PLAY_GAME" /\ \E f \in Texts : a.rest = <<Int4(1), f>> /\ Brief(f)
     \/ a.type = "DEAL_CARDS" /\ a.rest = <<Cards(Hand)>>
     \/ /\ a.type = "PLAYER_TURN"
        /\ \E f \in Texts, n \in 0 .. Hand : a.rest = <<f, Cards(n)>> /\ Brief(f)

LEMMA AnswersShape ==
  ASSUME packet \in Packets, NEW a \in AnswersTo
  PROVE  AnswerShape(a)
<1>1. /\ Id \in Texts /\ Brief(Id) /\ Other \in Texts /\ Brief(Other) /\ Key \in Texts /\ Brief(Key)
  BY Strings
<1>2. packet.cards \in 0 .. Hand
  BY PacketTypes
<1>3. ASSUME NEW type, NEW to, NEW rest, a = Answer(type, to, rest)
      PROVE  a.type = type /\ a.to = to /\ a.rest = rest
  BY <1>3 DEF Answer
<1>4. CASE packet.type = "REQ_LOG_IN"
  <2>1. PICK type \in {"ACCEPT_LOG_IN", "REJECT_LOG_IN"} : a = Answer(type, Key, <<Id>>)
    BY <1>4 DEF AnswersTo
  <2> QED BY <1>1, <1>3, <2>1 DEF AnswerShape, NamedTypes
<1>5. CASE packet.type = "REQ_REGISTER"
  <2>1. PICK type \in {"ACCEPT_REGISTER", "REJECT_REGISTER"} : a = Answer(type, Key, <<Id>>)
    BY <1>5 DEF AnswersTo
  <2> QED BY <1>1, <1>3, <2>1 DEF AnswerShape, NamedTypes
<1>6. CASE packet.type = "REQ_HOST_ROOM"
  <2>1. PICK type \in {"ALLOW_HOST_ROOM", "REJECT_HOST_ROOM"} : a = Answer(type, Id, <<>>)
    BY <1>6 DEF AnswersTo
  <2> QED BY <1>1, <1>3, <2>1 DEF AnswerShape, BriefTypes
<1>7. CASE packet.type = "REQ_ENTER_ROOM"
  <2>1. \/ \E type \in {"ALLOW_ENTER_ROOM", "REJECT_ENTER_ROOM"} : a = Answer(type, Id, <<>>)
        \/ a = Answer("ALLOW_PLAY_GAME", Id, <<Int4(1), Other>>)
        \/ a = Answer("ALLOW_PLAY_GAME", Other, <<Int4(1), Id>>)
        \/ a = Answer("PLAYER_TURN", Other, <<>>)
        \/ \E to \in {Id, Other} : a = Answer("DEAL_CARDS", to, <<Cards(Hand)>>)
    BY <1>7 DEF AnswersTo
  <2>2. CASE \E type \in {"ALLOW_ENTER_ROOM", "REJECT_ENTER_ROOM"} : a = Answer(type, Id, <<>>)
    BY <1>1, <1>3, <2>2 DEF AnswerShape, BriefTypes
  <2>3. CASE a = Answer("ALLOW_PLAY_GAME", Id, <<Int4(1), Other>>)
    BY <1>1, <1>3, <2>3 DEF AnswerShape
  <2>4. CASE a = Answer("ALLOW_PLAY_GAME", Other, <<Int4(1), Id>>)
    BY <1>1, <1>3, <2>4 DEF AnswerShape
  <2>5. CASE a = Answer("PLAYER_TURN", Other, <<>>)
    BY <1>1, <1>3, <2>5 DEF AnswerShape, BriefTypes
  <2>6. CASE \E to \in {Id, Other} : a = Answer("DEAL_CARDS", to, <<Cards(Hand)>>)
    BY <1>1, <1>3, <2>6 DEF AnswerShape
  <2> QED BY <2>1, <2>2, <2>3, <2>4, <2>5, <2>6
<1>8. CASE packet.type = "PlAYER_TURN_OVER"
  <2>1. a = Answer("PLAYER_TURN", Other, <<Id, Cards(packet.cards)>>)
    BY <1>8 DEF AnswersTo, IsLogin
  <2> QED BY <1>1, <1>2, <1>3, <2>1 DEF AnswerShape
<1> QED BY <1>4, <1>5, <1>6, <1>7, <1>8, PacketTypes DEF RequestTypes

LEMMA AnswerIs ==
  ASSUME NEW a, AnswerShape(a)
  PROVE  /\ a.to \in Fields /\ a.rest \in Seq(Fields)
         /\ <<a.to>> \in Seq(Fields) /\ <<a.to>> \o a.rest \in Seq(Fields)
         /\ Code(a.type) \in Nat
         /\ Total(<<a.to>>) \in Nat /\ Total(a.rest) \in Nat
         /\ ShortStrings => Total(<<a.to>>) + Total(a.rest) <= 8 + 2 * SafeLength + 4 * (Hand + 1)
         /\ a.type = "ACCEPT_LOG_IN" => \E f \in Texts : a.rest = <<f>> /\ Brief(f)
<1>1. a.to \in Fields /\ Width(a.to) \in Nat /\ Total(<<a.to>>) = Width(a.to)
  BY FieldTypes, Totals DEF AnswerShape, Texts
<1>2. Hand \in Nat /\ BufSize \in Nat
  BY CodecAssumption
<1>3. a.type \in AnswerTypes
  BY DEF AnswerShape, AnswerTypes, BriefTypes
<1>4. ShortStrings => Width(a.to) <= 4 + SafeLength
  BY DEF AnswerShape, Brief
<1>5. \A f \in Texts : f \in Fields /\ Width(f) \in Nat
  BY FieldTypes DEF Texts
<1>6. /\ a.rest \in Seq(Fields) /\ Total(a.rest) \in Nat
      /\ ShortStrings => Total(a.rest) <= 4 + SafeLength + 4 * (Hand + 1)
  <2>1. CASE \E f \in Texts : a.rest = <<f>> /\ Brief(f)
    <3>1. PICK f \in Fields : a.rest = <<f>> /\ Brief(f) /\ Width(f) \in Nat
      BY <1>5, <2>1
    <3>2. a.rest \in Seq(Fields) /\ Total(a.rest) = Width(f)
      BY <3>1, Totals
    <3> QED BY <1>2, <3>1, <3>2, SafeRoom DEF Brief
  <2>2. CASE a.rest = <<>>
    <3>1. a.rest \in Seq(Fields) /\ Total(a.rest) = 0
      BY <2>2, Totals
    <3> QED BY <1>2, <3>1, SafeRoom
  <2>3. CASE \E f \in Texts : a.rest = <<Int4(1), f>> /\ Brief(f)
    <3>1. PICK f \in Fields : a.rest = <<Int4(1), f>> /\ Brief(f) /\ Width(f) \in Nat
      BY <1>5, <2>3
    <3>2. PICK one \in Fields : one = Int4(1) /\ Width(one) = 4
      BY FieldTypes, Widths
    <3>3. a.rest \in Seq(Fields) /\ Total(a.rest) = Width(one) + Width(f)
      BY <3>1, <3>2, Totals
    <3> QED BY <1>2, <3>1, <3>2, <3>3, SafeRoom DEF Brief
  <2>4. CASE a.rest = <<Cards(Hand)>>
    <3>1. PICK c \in Fields : c = Cards(Hand) /\ Width(c) = 4 * (Hand + 1)
      BY <1>2, FieldTypes, Widths
    <3>2. a.rest \in Seq(Fields) /\ Total(a.rest) = Width(c)
      BY <2>4, <3>1, Totals
    <3> QED BY <1>2, <3>1, <3>2, SafeRoom
  <2>5. CASE \E f \in Texts, n \in 0 .. Hand : a.rest = <<f, Cards(n)>> /\ Brief(f)
    <3>1. PICK f \in Fields, n \in 0 .. Hand : a.rest = <<f, Cards(n)>> /\ Brief(f) /\ Width(f) \in Nat
      BY <1>5, <2>5
    <3>2. n \in Nat
      BY <1>2
    <3>3. PICK c \in Fields : c = Cards(n) /\ Width(c) = 4 * (n + 1)
      BY <3>2, FieldTypes, Widths
    <3>4. a.rest \in Seq(Fields) /\ Total(a.rest) = Width(f) + Width(c)
      BY <3>1, <3>3, Totals
    <3> QED BY <1>2, <3>1, <3>2, <3>3, <3>4, SafeRoom DEF Brief
  <2> QED BY <2>1, <2>2, <2>3, <2>4, <2>5 DEF AnswerShape
<1>7. <<a.to>> \in Seq(Fields) /\ <<a.to>> \o a.rest \in Seq(Fields)
  BY <1>1, <1>6, OtherFirst
<1>8. a.type = "ACCEPT_LOG_IN" => \E f \in Texts : a.rest = <<f>> /\ Brief(f)
  BY DEF AnswerShape, BriefTypes
<1>9. Code(a.type) \in Nat
  BY <1>3, CodeIsNat
<1>10. ShortStrings => Total(<<a.to>>) + Total(a.rest) <= 8 + 2 * SafeLength + 4 * (Hand + 1)
  BY <1>1, <1>2, <1>4, <1>6, SafeRoom
<1> QED BY <1>1, <1>6, <1>7, <1>8, <1>9, <1>10

\* What the relay reads of an answer, and what a client is sent of it.
RelayKinds(a) == <<"int", "string">> \o IF a.type = "ACCEPT_LOG_IN" THEN <<"string">> ELSE <<>>
FieldsFor(a) == IF a.type = "ACCEPT_LOG_IN" THEN a.rest ELSE <<a.to>> \o a.rest

RelayExpects(a, w, e) ==
  /\ ExpectsOf(w, RelayKinds(a), e)
  /\ \A i \in 1 .. Len(e) : RelayKinds(a)[i] # "discarded"
  /\ a.type = "ACCEPT_LOG_IN" => \E f \in Texts : a.rest = <<f>> /\ e[3] = f /\ Brief(f)

LEMMA RelayReads ==
  ASSUME NEW a, AnswerShape(a), NEW w, w = <<Int4(Code(a.type))>> \o (<<a.to>> \o a.rest)
  PROVE  RelayKinds(a) \in Seq(Kinds) /\ \E e : RelayExpects(a, w, e)
<1>1. a.to \in Fields /\ a.rest \in Seq(Fields) /\ Code(a.type) \in Nat
  BY AnswerIs
<1>2. PICK c \in Fields : c = Int4(Code(a.type)) /\ c.what = "int"
  BY <1>1, IntIs
<1>3. a.to \in Texts /\ \A f \in Texts : f \in Fields
  BY DEF AnswerShape, Texts
<1>4. CASE a.type = "ACCEPT_LOG_IN"
  <2>1. PICK f \in Texts : a.rest = <<f>> /\ Brief(f)
    BY <1>4, AnswerIs
  <2>2. PICK s : s = <<a.to>> \o a.rest
    OBVIOUS
  <2>3. s \in Seq(Fields) /\ Len(s) = 2 /\ s[1] = a.to /\ s[2] = f
    BY <1>1, <1>3, <2>1, <2>2
  <2>4. w \in Seq(Fields) /\ Len(w) = 3 /\ w[1] = c /\ w[2] = a.to /\ w[3] = f
    BY <1>2, <2>2, <2>3
  <2>5. PICK ks : ks = RelayKinds(a)
    OBVIOUS
  <2>6. ks \in Seq(Kinds) /\ Len(ks) = 3 /\ ks[1] = "int" /\ ks[2] = "string" /\ ks[3] = "string"
    <3>1. ks = <<"int", "string">> \o <<"string">> /\ "int" \in Kinds /\ "string" \in Kinds
      BY <1>4, <2>5 DEF RelayKinds, Kinds
    <3> QED BY <3>1
  <2>7. ASSUME NEW i \in 1 .. 3
        PROVE  Reads(ks[i], w[i], w[i]) /\ ks[i] # "hand" /\ ks[i] # "discarded"
    <3>1. i = 1 \/ i = 2 \/ i = 3
      OBVIOUS
    <3> QED BY <1>2, <1>3, <2>1, <2>4, <2>6, <3>1, ReadsItself
  <2>8. Finding(w, ks, w)
    BY <2>4, <2>7 DEF Finding
  <2>9. ExpectsOf(w, ks, w)
    BY <2>4, <2>6, <2>7, <2>8 DEF ExpectsOf
  <2>10. RelayExpects(a, w, w)
    BY <2>1, <2>4, <2>5, <2>6, <2>7, <2>9 DEF RelayExpects
  <2> QED BY <2>5, <2>6, <2>10
<1>5. CASE a.type # "ACCEPT_LOG_IN"
  <2>1. PICK n \in Nat : n = Len(a.rest)
    BY <1>1, LenProperties
  <2>2. PICK s : s = <<a.to>> \o a.rest
    OBVIOUS
  <2>3. s \in Seq(Fields) /\ Len(s) = n + 1 /\ s[1] = a.to
    BY <1>1, <2>1, <2>2
  <2>4. w \in Seq(Fields) /\ Len(w) = n + 2 /\ w[1] = c /\ w[2] = a.to
    <3>1. w[1 + 1] = s[1]
      BY <1>2, <2>2, <2>3
    <3> QED BY <1>2, <2>2, <2>3, <3>1
  <2>5. PICK ks : ks = RelayKinds(a)
    OBVIOUS
  <2>6. ks \in Seq(Kinds) /\ Len(ks) = 2 /\ ks[1] = "int" /\ ks[2] = "string"
    <3>1. ks = <<"int", "string">> \o <<>> /\ "int" \in Kinds /\ "string" \in Kinds
      BY <1>5, <2>5 DEF RelayKinds, Kinds
    <3> QED BY <3>1
  <2>7. PICK e : e = <<c, a.to>>
    OBVIOUS
  <2>8. e \in Seq(Fields) /\ Len(e) = 2 /\ e[1] = c /\ e[2] = a.to
    BY <1>1, <2>7
  <2>9. ASSUME NEW i \in 1 .. 2
        PROVE  Reads(ks[i], w[i], e[i]) /\ e[i] = w[i] /\ ks[i] # "hand" /\ ks[i] # "discarded"
    <3>1. i = 1 \/ i = 2
      OBVIOUS
    <3> QED BY <1>2, <1>3, <2>4, <2>6, <2>8, <3>1, ReadsItself
  <2>10. Finding(w, ks, e)
    BY <2>4, <2>8, <2>9 DEF Finding
  <2>11. ExpectsOf(w, ks, e)
    BY <2>4, <2>6, <2>8, <2>9, <2>10 DEF ExpectsOf
  <2>12. RelayExpects(a, w, e)
    BY <1>5, <2>5, <2>6, <2>8, <2>9, <2>11 DEF RelayExpects
  <2> QED BY <2>5, <2>6, <2>12
<1> QED BY <1>4, <1>5

\* The client finds the fields of an answer, and behind the first turn of a game
\* nobody's name and no cards.
LEMMA ClientReads ==
  ASSUME NEW a, AnswerShape(a),
         NEW w, w = <<Int4(Code(a.type))>> \o FieldsFor(a),
         NEW e, e = <<Int4(Code(a.type))>> \o AnswerFields(a)
  PROVE  /\ AnswerKinds(a) \in Seq(Kinds) /\ w \in Seq(Fields) /\ e \in Seq(Fields)
         /\ Len(AnswerKinds(a)) = Len(e) /\ Len(e) <= Len(w) + 2
         /\ Finding(w, AnswerKinds(a), e)
         /\ \A i \in 1 .. Len(e) : AnswerKinds(a)[i] # "discarded"
<1>1. PICK to \in Fields : to = a.to /\ to \in Texts
  BY AnswerIs DEF AnswerShape
<1>2. PICK c \in Fields : c = Int4(Code(a.type)) /\ c.what = "int"
  <2>1. Code(a.type) \in Nat
    BY AnswerIs
  <2> QED BY <2>1, IntIs
<1>3. PICK one \in Fields : one = Int4(1) /\ one.what = "int"
  <2>1. 1 \in Nat
    OBVIOUS
  <2> QED BY <2>1, IntIs
<1>4. PICK zero \in Fields : zero = Int4(0) /\ zero.what = "int"
  <2>1. 0 \in Nat
    OBVIOUS
  <2> QED BY <2>1, IntIs
<1>5. PICK nobody \in Fields : nobody = Text("", 0) /\ nobody \in Texts
  <2>1. Text("", 0) = Text("id", 0) /\ "id" \in Names
    BY DEF Text, Names
  <2> QED BY <2>1, TextIs DEF Texts
<1>6. \A f \in Texts : f \in Fields
  BY DEF Texts
<1>7. CASE a.type = "ACCEPT_LOG_IN" /\ \E f \in Texts : a.rest = <<f>>
  <2>1. PICK f \in Texts : a.rest = <<f>>
    BY <1>7
  <2>2. FieldsFor(a) = <<f>> /\ AnswerFields(a) = <<f>>
    BY <1>7, <2>1, <1>1, <1>3, <1>4, <1>5 DEF FieldsFor, AnswerFields, NamedTypes, BriefTypes
  <2>3. PICK ks : ks = AnswerKinds(a)
    OBVIOUS
  <2>4. ks = <<"int", "string">>
    BY <1>7, <2>1, <2>3 DEF AnswerKinds, NamedTypes, BriefTypes
  <2>5. /\ ks \in Seq(Kinds) /\ Len(ks) = 2
        /\ ks[1] = "int" /\ ks[2] = "string"
    BY <2>4 DEF Kinds
  <2>6. PICK ws : ws = <<f>>
    OBVIOUS
  <2>7. /\ ws \in Seq(Fields) /\ Len(ws) = 1
        /\ ws[1] = f
    BY <1>6, <2>6
  <2>8. /\ w \in Seq(Fields) /\ Len(w) = 2
        /\ w[1] = c /\ w[2] = f
    BY <1>2, <2>2, <2>6, <2>7
  <2>9. PICK es : es = <<f>>
    OBVIOUS
  <2>10. /\ es \in Seq(Fields) /\ Len(es) = 1
        /\ es[1] = f
    BY <1>6, <2>9
  <2>11. /\ e \in Seq(Fields) /\ Len(e) = 2
        /\ e[1] = c /\ e[2] = f
    BY <1>2, <2>2, <2>9, <2>10
  <2>12. ASSUME NEW i \in 1 .. 2
        PROVE  /\ i <= 2 => Reads(ks[i], w[i], e[i]) /\ (i = 2 \/ e[i] = w[i])
               /\ i > 2 => ReadsNothing(ks[i], e[i])
               /\ ks[i] # "discarded"
    <3>0. i = 1 \/ i = 2
      OBVIOUS
    <3>1. CASE i = 1
      BY <3>1, <2>5, <2>8, <2>11, <1>2, ReadsItself
    <3>2. CASE i = 2
      BY <3>2, <2>5, <2>8, <2>11, <1>6, <2>1, ReadsItself
    <3> QED BY <3>0, <3>1, <3>2
  <2>13. Finding(w, ks, e)
    BY <2>8, <2>11, <2>12 DEF Finding
  <2> QED BY <2>3, <2>5, <2>8, <2>11, <2>12, <2>13
<1>8. CASE a.type \in NamedTypes \ {"ACCEPT_LOG_IN"} /\ \E f \in Texts : a.rest = <<f>>
  <2>1. PICK f \in Texts : a.rest = <<f>>
    BY <1>8
  <2>2. FieldsFor(a) = <<to>> \o <<f>> /\ AnswerFields(a) = <<to>>
    BY <1>8, <2>1, <1>1, <1>3, <1>4, <1>5 DEF FieldsFor, AnswerFields, NamedTypes, BriefTypes
  <2>3. PICK ks : ks = AnswerKinds(a)
    OBVIOUS
  <2>4. ks = <<"int", "string">>
    BY <1>8, <2>1, <2>3 DEF AnswerKinds, NamedTypes, BriefTypes
  <2>5. /\ ks \in Seq(Kinds) /\ Len(ks) = 2
        /\ ks[1] = "int" /\ ks[2] = "string"
    BY <2>4 DEF Kinds
  <2>6. PICK ws : ws = <<to>> \o <<f>>
    OBVIOUS
  <2>7. /\ ws \in Seq(Fields) /\ Len(ws) = 2
        /\ ws[1] = to /\ ws[2] = f
    BY <1>6, <2>6
  <2>8. /\ w \in Seq(Fields) /\ Len(w) = 3
        /\ w[1] = c /\ w[2] = to /\ w[3] = f
    BY <1>2, <2>2, <2>6, <2>7
  <2>9. PICK es : es = <<to>>
    OBVIOUS
  <2>10. /\ es \in Seq(Fields) /\ Len(es) = 1
        /\ es[1] = to
    BY <1>6, <2>9
  <2>11. /\ e \in Seq(Fields) /\ Len(e) = 2
        /\ e[1] = c /\ e[2] = to
    BY <1>2, <2>2, <2>9, <2>10
  <2>12. ASSUME NEW i \in 1 .. 2
        PROVE  /\ i <= 3 => Reads(ks[i], w[i], e[i]) /\ (i = 2 \/ e[i] = w[i])
               /\ i > 3 => ReadsNothing(ks[i], e[i])
               /\ ks[i] # "discarded"
    <3>0. i = 1 \/ i = 2
      OBVIOUS
    <3>1. CASE i = 1
      BY <3>1, <2>5, <2>8, <2>11, <1>2, ReadsItself
    <3>2. CASE i = 2
      BY <3>2, <2>5, <2>8, <2>11, <1>1, ReadsItself
    <3> QED BY <3>0, <3>1, <3>2
  <2>13. Finding(w, ks, e)
    BY <2>8, <2>11, <2>12 DEF Finding
  <2> QED BY <2>3, <2>5, <2>8, <2>11, <2>12, <2>13
<1>9. CASE a.type \in BriefTypes \ {"PLAYER_TURN"} /\ a.rest = <<>>
  <2>1. FieldsFor(a) = <<to>> \o <<>> /\ AnswerFields(a) = <<to>>
    BY <1>9, <1>1, <1>3, <1>4, <1>5 DEF FieldsFor, AnswerFields, NamedTypes, BriefTypes
  <2>2. PICK ks : ks = AnswerKinds(a)
    OBVIOUS
  <2>3. ks = <<"int", "string">>
    BY <1>9, <2>2 DEF AnswerKinds, NamedTypes, BriefTypes
  <2>4. /\ ks \in Seq(Kinds) /\ Len(ks) = 2
        /\ ks[1] = "int" /\ ks[2] = "string"
    BY <2>3 DEF Kinds
  <2>5. PICK ws : ws = <<to>> \o <<>>
    OBVIOUS
  <2>6. /\ ws \in Seq(Fields) /\ Len(ws) = 1
        /\ ws[1] = to
    BY <1>6, <2>5
  <2>7. /\ w \in Seq(Fields) /\ Len(w) = 2
        /\ w[1] = c /\ w[2] = to
    BY <1>2, <2>1, <2>5, <2>6
  <2>8. PICK es : es = <<to>>
    OBVIOUS
  <2>9. /\ es \in Seq(Fields) /\ Len(es) = 1
        /\ es[1] = to
    BY <1>6, <2>8
  <2>10. /\ e \in Seq(Fields) /\ Len(e) = 2
        /\ e[1] = c /\ e[2] = to
    BY <1>2, <2>1, <2>8, <2>9
  <2>11. ASSUME NEW i \in 1 .. 2
        PROVE  /\ i <= 2 => Reads(ks[i], w[i], e[i]) /\ (i = 2 \/ e[i] = w[i])
               /\ i > 2 => ReadsNothing(ks[i], e[i])
               /\ ks[i] # "discarded"
    <3>0. i = 1 \/ i = 2
      OBVIOUS
    <3>1. CASE i = 1
      BY <3>1, <2>4, <2>7, <2>10, <1>2, ReadsItself
    <3>2. CASE i = 2
      BY <3>2, <2>4, <2>7, <2>10, <1>1, ReadsItself
    <3> QED BY <3>0, <3>1, <3>2
  <2>12. Finding(w, ks, e)
    BY <2>7, <2>10, <2>11 DEF Finding
  <2> QED BY <2>2, <2>4, <2>7, <2>10, <2>11, <2>12
<1>10. CASE a.type = "PLAYER_TURN" /\ a.rest = <<>>
  <2>1. FieldsFor(a) = <<to>> \o <<>> /\ AnswerFields(a) = <<to, nobody, zero>>
    BY <1>10, <1>1, <1>3, <1>4, <1>5 DEF FieldsFor, AnswerFields, NamedTypes, BriefTypes
  <2>2. PICK ks : ks = AnswerKinds(a)
    OBVIOUS
  <2>3. ks = <<"int", "string", "string", "int">>
    BY <1>10, <2>2 DEF AnswerKinds, NamedTypes, BriefTypes
  <2>4. /\ ks \in Seq(Kinds) /\ Len(ks) = 4
        /\ ks[1] = "int" /\ ks[2] = "string" /\ ks[3] = "string" /\ ks[4] = "int"
    BY <2>3 DEF Kinds
  <2>5. PICK ws : ws = <<to>> \o <<>>
    OBVIOUS
  <2>6. /\ ws \in Seq(Fields) /\ Len(ws) = 1
        /\ ws[1] = to
    BY <1>6, <2>5
  <2>7. /\ w \in Seq(Fields) /\ Len(w) = 2
        /\ w[1] = c /\ w[2] = to
    BY <1>2, <2>1, <2>5, <2>6
  <2>8. PICK es : es = <<to, nobody, zero>>
    OBVIOUS
  <2>9. /\ es \in Seq(Fields) /\ Len(es) = 3
        /\ es[1] = to /\ es[2] = nobody /\ es[3] = zero
    BY <1>6, <2>8
  <2>10. /\ e \in Seq(Fields) /\ Len(e) = 4
        /\ e[1] = c /\ e[2] = to /\ e[3] = nobody /\ e[4] = zero
    BY <1>2, <2>1, <2>8, <2>9
  <2>11. ASSUME NEW i \in 1 .. 4
        PROVE  /\ i <= 2 => Reads(ks[i], w[i], e[i]) /\ (i = 4 \/ e[i] = w[i])
               /\ i > 2 => ReadsNothing(ks[i], e[i])
               /\ ks[i] # "discarded"
    <3>0. i = 1 \/ i = 2 \/ i = 3 \/ i = 4
      OBVIOUS
    <3>1. CASE i = 1
      BY <3>1, <2>4, <2>7, <2>10, <1>2, ReadsItself
    <3>2. CASE i = 2
      BY <3>2, <2>4, <2>7, <2>10, <1>1, ReadsItself
    <3>3. CASE i = 3
      <4>1. ks[i] = "string" /\ e[i] = Text("", 0)
        BY <3>3, <2>4, <2>7, <2>10, <1>5
      <4>2. ReadsNothing(ks[i], e[i])
        BY <4>1 DEF ReadsNothing
      <4>3. ~(i <= 2)
        BY <3>3
      <4>4. ks[i] # "discarded"
        BY <4>1
      <4> QED BY <4>2, <4>3, <4>4, Zenon
    <3>4. CASE i = 4
      <4>1. ks[i] = "int" /\ e[i] = Int4(0)
        BY <3>4, <2>4, <2>7, <2>10, <1>4
      <4>2. ReadsNothing(ks[i], e[i])
        BY <4>1 DEF ReadsNothing
      <4>3. ~(i <= 2)
        BY <3>4
      <4>4. ks[i] # "discarded"
        BY <4>1
      <4> QED BY <4>2, <4>3, <4>4, Zenon
    <3> QED BY <3>0, <3>1, <3>2, <3>3, <3>4
  <2>12. Finding(w, ks, e)
    BY <2>7, <2>10, <2>11 DEF Finding
  <2> QED BY <2>2, <2>4, <2>7, <2>10, <2>11, <2>12
<1>11. CASE a.type = "ALLOW_PLAY_GAME" /\ \E f \in Texts : a.rest = <<Int4(1), f>>
  <2>1. PICK f \in Texts : a.rest = <<one, f>>
    BY <1>11, <1>3
  <2>2. FieldsFor(a) = <<to>> \o <<one, f>> /\ AnswerFields(a) = <<to>> \o <<one, f>>
    BY <1>11, <2>1, <1>1, <1>3, <1>4, <1>5 DEF FieldsFor, AnswerFields, NamedTypes, BriefTypes
  <2>3. PICK ks : ks = AnswerKinds(a)
    OBVIOUS
  <2>4. ks = <<"int", "string", "int", "string">>
    BY <1>11, <2>1, <2>3 DEF AnswerKinds, NamedTypes, BriefTypes
  <2>5. /\ ks \in Seq(Kinds) /\ Len(ks) = 4
        /\ ks[1] = "int" /\ ks[2] = "string" /\ ks[3] = "int" /\ ks[4] = "string"
    BY <2>4 DEF Kinds
  <2>6. PICK ws : ws = <<to>> \o <<one, f>>
    OBVIOUS
  <2>7. /\ ws \in Seq(Fields) /\ Len(ws) = 3
        /\ ws[1] = to /\ ws[2] = one /\ ws[3] = f
    BY <1>6, <2>6
  <2>8. /\ w \in Seq(Fields) /\ Len(w) = 4
        /\ w[1] = c /\ w[2] = to /\ w[3] = one /\ w[4] = f
    BY <1>2, <2>2, <2>6, <2>7
  <2>9. PICK es : es = <<to>> \o <<one, f>>
    OBVIOUS
  <2>10. /\ es \in Seq(Fields) /\ Len(es) = 3
        /\ es[1] = to /\ es[2] = one /\ es[3] = f
    BY <1>6, <2>9
  <2>11. /\ e \in Seq(Fields) /\ Len(e) = 4
        /\ e[1] = c /\ e[2] = to /\ e[3] = one /\ e[4] = f
    BY <1>2, <2>2, <2>9, <2>10
  <2>12. ASSUME NEW i \in 1 .. 4
        PROVE  /\ i <= 4 => Reads(ks[i], w[i], e[i]) /\ (i = 4 \/ e[i] = w[i])
               /\ i > 4 => ReadsNothing(ks[i], e[i])
               /\ ks[i] # "discarded"
    <3>0. i = 1 \/ i = 2 \/ i = 3 \/ i = 4
      OBVIOUS
    <3>1. CASE i = 1
      BY <3>1, <2>5, <2>8, <2>11, <1>2, ReadsItself
    <3>2. CASE i = 2
      BY <3>2, <2>5, <2>8, <2>11, <1>1, ReadsItself
    <3>3. CASE i = 3
      BY <3>3, <2>5, <2>8, <2>11, <1>3, ReadsItself
    <3>4. CASE i = 4
      BY <3>4, <2>5, <2>8, <2>11, <1>6, <2>1, ReadsItself
    <3> QED BY <3>0, <3>1, <3>2, <3>3, <3>4
  <2>13. Finding(w, ks, e)
    BY <2>8, <2>11, <2>12 DEF Finding
  <2> QED BY <2>3, <2>5, <2>8, <2>11, <2>12, <2>13
<1>12. CASE a.type = "DEAL_CARDS" /\ a.rest = <<Cards(Hand)>>
  <2>1. PICK cards \in Fields : a.rest = <<cards>> /\ cards.what = "cards"
    BY <1>12, CodecAssumption, FieldTypes DEF Cards
  <2>2. FieldsFor(a) = <<to>> \o <<cards>> /\ AnswerFields(a) = <<to>> \o <<cards>>
    BY <1>12, <2>1, <1>1, <1>3, <1>4, <1>5 DEF FieldsFor, AnswerFields, NamedTypes, BriefTypes
  <2>3. PICK ks : ks = AnswerKinds(a)
    OBVIOUS
  <2>4. ks = <<"int", "string", "hand">>
    BY <1>12, <2>1, <2>3 DEF AnswerKinds, NamedTypes, BriefTypes
  <2>5. /\ ks \in Seq(Kinds) /\ Len(ks) = 3
        /\ ks[1] = "int" /\ ks[2] = "string" /\ ks[3] = "hand"
    BY <2>4 DEF Kinds
  <2>6. PICK ws : ws = <<to>> \o <<cards>>
    OBVIOUS
  <2>7. /\ ws \in Seq(Fields) /\ Len(ws) = 2
        /\ ws[1] = to /\ ws[2] = cards
    BY <1>6, <2>6
  <2>8. /\ w \in Seq(Fields) /\ Len(w) = 3
        /\ w[1] = c /\ w[2] = to /\ w[3] = cards
    BY <1>2, <2>2, <2>6, <2>7
  <2>9. PICK es : es = <<to>> \o <<cards>>
    OBVIOUS
  <2>10. /\ es \in Seq(Fields) /\ Len(es) = 2
        /\ es[1] = to /\ es[2] = cards
    BY <1>6, <2>9
  <2>11. /\ e \in Seq(Fields) /\ Len(e) = 3
        /\ e[1] = c /\ e[2] = to /\ e[3] = cards
    BY <1>2, <2>2, <2>9, <2>10
  <2>12. ASSUME NEW i \in 1 .. 3
        PROVE  /\ i <= 3 => Reads(ks[i], w[i], e[i]) /\ (i = 3 \/ e[i] = w[i])
               /\ i > 3 => ReadsNothing(ks[i], e[i])
               /\ ks[i] # "discarded"
    <3>0. i = 1 \/ i = 2 \/ i = 3
      OBVIOUS
    <3>1. CASE i = 1
      BY <3>1, <2>5, <2>8, <2>11, <1>2, ReadsItself
    <3>2. CASE i = 2
      BY <3>2, <2>5, <2>8, <2>11, <1>1, ReadsItself
    <3>3. CASE i = 3
      BY <3>3, <2>5, <2>8, <2>11, <2>1, ReadsItself
    <3> QED BY <3>0, <3>1, <3>2, <3>3
  <2>13. Finding(w, ks, e)
    BY <2>8, <2>11, <2>12 DEF Finding
  <2> QED BY <2>3, <2>5, <2>8, <2>11, <2>12, <2>13
<1>13. CASE a.type = "PLAYER_TURN" /\ \E f \in Texts, n \in 0 .. Hand : a.rest = <<f, Cards(n)>>
  <2>1. PICK f \in Texts, n \in 0 .. Hand : a.rest = <<f, Cards(n)>>
    BY <1>13
  <2>2. PICK cards \in Fields : cards = Cards(n) /\ cards.what = "cards"
    <3>1. n \in Nat
      BY CodecAssumption
    <3> QED BY <3>1, FieldTypes DEF Cards
  <2>3. PICK rest : rest = <<f, cards>>
    OBVIOUS
  <2>4. a.rest = rest /\ rest # <<>> /\ rest[1] = f /\ rest[2] = cards
    BY <2>1, <2>2, <2>3
  <2>5. PICK count \in Fields : count = Int4(cards.n)
    BY FieldTypes
  <2>6. FieldsFor(a) = <<to>> \o <<f, cards>> /\ AnswerFields(a) = <<to, f, count>>
    BY <1>13, <2>1, <2>2, <2>3, <2>4, <2>5, <1>1, <1>3, <1>4, <1>5
       DEF FieldsFor, AnswerFields, NamedTypes, BriefTypes
  <2>7. PICK ks : ks = AnswerKinds(a)
    OBVIOUS
  <2>8. ks = <<"int", "string", "string", "int">>
    BY <1>13, <2>1, <2>2, <2>3, <2>4, <2>5, <2>7 DEF AnswerKinds, NamedTypes, BriefTypes
  <2>9. /\ ks \in Seq(Kinds) /\ Len(ks) = 4
        /\ ks[1] = "int" /\ ks[2] = "string" /\ ks[3] = "string" /\ ks[4] = "int"
    BY <2>8 DEF Kinds
  <2>10. PICK ws : ws = <<to>> \o <<f, cards>>
    OBVIOUS
  <2>11. /\ ws \in Seq(Fields) /\ Len(ws) = 3
        /\ ws[1] = to /\ ws[2] = f /\ ws[3] = cards
    BY <1>6, <2>10
  <2>12. /\ w \in Seq(Fields) /\ Len(w) = 4
        /\ w[1] = c /\ w[2] = to /\ w[3] = f /\ w[4] = cards
    BY <1>2, <2>6, <2>10, <2>11
  <2>13. PICK es : es = <<to, f, count>>
    OBVIOUS
  <2>14. /\ es \in Seq(Fields) /\ Len(es) = 3
        /\ es[1] = to /\ es[2] = f /\ es[3] = count
    BY <1>6, <2>13
  <2>15. /\ e \in Seq(Fields) /\ Len(e) = 4
        /\ e[1] = c /\ e[2] = to /\ e[3] = f /\ e[4] = count
    BY <1>2, <2>6, <2>13, <2>14
  <2>16. ASSUME NEW i \in 1 .. 4
        PROVE  /\ i <= 4 => Reads(ks[i], w[i], e[i]) /\ (i = 4 \/ e[i] = w[i])
               /\ i > 4 => ReadsNothing(ks[i], e[i])
               /\ ks[i] # "discarded"
    <3>0. i = 1 \/ i = 2 \/ i = 3 \/ i = 4
      OBVIOUS
    <3>1. CASE i = 1
      BY <3>1, <2>9, <2>12, <2>15, <1>2, ReadsItself
    <3>2. CASE i = 2
      BY <3>2, <2>9, <2>12, <2>15, <1>1, ReadsItself
    <3>3. CASE i = 3
      BY <3>3, <2>9, <2>12, <2>15, <1>6, <2>1, ReadsItself
    <3>4. CASE i = 4
      BY <3>4, <2>9, <2>12, <2>15, <2>1, <2>2, <2>5 DEF Reads
    <3> QED BY <3>0, <3>1, <3>2, <3>3, <3>4
  <2>17. Finding(w, ks, e)
    BY <2>12, <2>15, <2>16 DEF Finding
  <2> QED BY <2>7, <2>9, <2>12, <2>15, <2>16, <2>17
<1> QED
  <2>1. NamedTypes = {"ACCEPT_LOG_IN"} \cup (NamedTypes \ {"ACCEPT_LOG_IN"})
    BY DEF NamedTypes
  <2>2. BriefTypes = {"PLAYER_TURN"} \cup (BriefTypes \ {"PLAYER_TURN"})
    BY DEF BriefTypes
  <2> QED BY <1>7, <1>8, <1>9, <1>10, <1>11, <1>12, <1>13, <2>1, <2>2 DEF AnswerShape

(***************************************************************************)
(* What each program makes of a packet.                                    *)
(***************************************************************************)
Frame(b, type, fs) == Holds(b, Framed(b.off, type, fs))

\* How long packets of short strings are: with the appended id, and without.
Longest == 16 + 2 * SafeLength + 4 * (Hand + 1)
LongestStamped == Longest + 4 + SafeLength

LEMMA LongestFits ==
  ASSUME ShortStrings
  PROVE  /\ Longest \in Nat /\ LongestStamped \in Nat
         /\ Longest <= LongestStamped /\ LongestStamped <= BufSize
         /\ Longest + 8 <= BufSize /\ Longest + 4 * (Hand + 1) <= BufSize
         /\ \A n \in 0 .. Hand : LongestStamped + 4 * (n + 1) <= BufSize
         /\ \A t \in Nat : t <= 4 + SafeLength \/ t <= 8 + 2 * SafeLength + 4 * (Hand + 1)
              => t <= BufSize /\ t + 8 <= BufSize /\ t + 8 <= Longest
<1>1. SafeLength \in Nat /\ SafeLength > 0 /\ 20 + 3 * SafeLength + 8 * (Hand + 1) <= BufSize
  BY SafeRoom
<1> QED BY <1>1, CodecAssumption DEF Longest, LongestStamped

LEMMA SetWriteOffsetOk ==
  ASSUME NEW b \in Buffers, NEW m
  PROVE  SetWriteOffset(b, m).ok = b.ok
BY DEF SetWriteOffset, Buffers

\* The size at the start of a packet becomes the offset to write at.
LEMMA WithOffsetHolds ==
  ASSUME NEW k \in Nat, NEW w \in Seq(Fields), NEW b, Holds(b, <<Int4(k)>> \o w)
  PROVE  /\ b.off \in Nat
         /\ WithOffset(b).off = k /\ WithOffset(b).ok = TRUE
         /\ \E p : /\ Carries(b, p, <<Int4(k)>> \o w) /\ p[Len(w) + 1] = b.off
                   /\ Carries(WithOffset(b), p, <<Int4(k)>> \o w)
<1>1. PICK hs : hs = <<Int4(k)>> \o w
  OBVIOUS
<1>2. PICK n \in Nat : n = Len(w)
  BY LenProperties
<1>3. Len(hs) = n + 1
  <2>1. Int4(k) \in Fields
    BY FieldTypes
  <2> QED BY <1>1, <1>2, <2>1, OtherFirst
<1>4. PICK p : Carries(b, p, hs) /\ b.off = p[n + 1]
  BY <1>1, <1>3 DEF Holds
<1>5. SizeOf(b) = k
  BY <1>1, <1>4, SizeIsFirst
<1>6. Carries(SetWriteOffset(b, k), p, hs) /\ SetWriteOffset(b, k).off = k /\ SetWriteOffset(b, k).ok = b.ok
  BY <1>1, <1>4, SetWriteOffsetHolds
<1>7. b.ok = TRUE /\ b.off \in Nat
  BY HoldsSound DEF Sound, Buffers
<1> QED BY <1>1, <1>2, <1>4, <1>5, <1>6, <1>7 DEF WithOffset

LEMMA AppendFramed ==
  ASSUME NEW k \in Nat, NEW type, Code(type) \in Nat, NEW fs \in Seq(Fields), NEW x \in Fields
  PROVE  Append(Framed(k, type, fs), x) = Framed(k, type, fs \o <<x>>)
<1>1. PICK n \in Nat : n = Len(fs)
  BY LenProperties
<1>2. PICK i4 \in Fields, c \in Fields : i4 = Int4(k) /\ c = Int4(Code(type))
  BY FieldTypes
<1>3. PICK gs : gs = fs \o <<x>>
  OBVIOUS
<1>4. gs \in Seq(Fields) /\ Len(gs) = n + 1 /\ gs[n + 1] = x /\ \A i \in 1 .. n : gs[i] = fs[i]
  BY <1>1, <1>3
<1>5. PICK v : v = <<c>> \o fs
  OBVIOUS
<1>6. v \in Seq(Fields) /\ Len(v) = n + 1 /\ v[1] = c /\ \A i \in 1 .. n : v[i + 1] = fs[i]
  BY <1>1, <1>5
<1>7. PICK w : w = <<c>> \o gs
  OBVIOUS
<1>8. w \in Seq(Fields) /\ Len(w) = n + 2 /\ w[1] = c /\ \A i \in 1 .. n + 1 : w[i + 1] = gs[i]
  BY <1>4, <1>7
<1>9. PICK s : s = <<i4>> \o v
  OBVIOUS
<1>10. s \in Seq(Fields) /\ Len(s) = n + 2 /\ s[1] = i4 /\ \A i \in 1 .. n + 1 : s[i + 1] = v[i]
  BY <1>6, <1>9
<1>11. PICK a : a = Append(s, x)
  OBVIOUS
<1>12. a \in Seq(Fields) /\ Len(a) = n + 3 /\ a[n + 3] = x /\ \A i \in 1 .. n + 2 : a[i] = s[i]
  BY <1>10, <1>11, AppendProperties
<1>13. PICK t : t = <<i4>> \o w
  OBVIOUS
<1>14. t \in Seq(Fields) /\ Len(t) = n + 3 /\ t[1] = i4 /\ \A i \in 1 .. n + 2 : t[i + 1] = w[i]
  BY <1>8, <1>13
<1>15. ASSUME NEW i \in 1 .. n + 3 PROVE a[i] = t[i]
  <2>1. CASE i = 1
    BY <1>10, <1>12, <1>14, <2>1
  <2>2. CASE i = 2
    <3>1. s[1 + 1] = v[1] /\ t[1 + 1] = w[1] /\ a[2] = s[2]
      BY <1>10, <1>12, <1>14
    <3> QED BY <1>6, <1>8, <2>2, <3>1
  <2>3. CASE i \in 3 .. n + 2
    <3>1. PICK j \in 1 .. n : i = j + 2
      BY <2>3
    <3>2. s[(j + 1) + 1] = v[j + 1] /\ t[(j + 1) + 1] = w[j + 1] /\ (j + 1) + 1 = i
      BY <1>10, <1>14, <3>1
    <3>3. v[j + 1] = fs[j] /\ w[j + 1] = gs[j] /\ gs[j] = fs[j]
      BY <1>4, <1>6, <1>8
    <3> QED BY <1>12, <2>3, <3>2, <3>3
  <2>4. CASE i = n + 3
    <3>1. t[(n + 2) + 1] = w[n + 2] /\ w[(n + 1) + 1] = gs[n + 1]
      BY <1>8, <1>14
    <3>2. (n + 2) + 1 = i /\ (n + 1) + 1 = n + 2
      BY <2>4
    <3> QED BY <1>4, <1>12, <2>4, <3>1, <3>2
  <2> QED BY <2>1, <2>2, <2>3, <2>4
<1>16. a = t
  BY <1>12, <1>14, <1>15, SeqEqual
<1> QED BY <1>2, <1>3, <1>5, <1>7, <1>9, <1>11, <1>13, <1>16 DEF Framed

\* A client's request.
LEMMA Sends ==
  ASSUME packet \in Packets,
         NEW f, f = Serialize(Code(packet.type), WriteAll(New, RequestFields))
  PROVE  /\ f.ok => Frame(f, packet.type, RequestFields)
         /\ ShortStrings => f.ok /\ f.off <= Longest
<1>1. Code(packet.type) \in Nat /\ RequestFields \in Seq(Fields)
  BY PacketTypes, CodeIsNat, RequestIs
<1>2. PICK pb \in Buffers : pb = WriteAll(New, RequestFields)
  BY <1>1, WriteAllTotal
<1>3. /\ pb.ok <=> Total(RequestFields) <= BufSize
      /\ pb.ok => Holds(pb, RequestFields) /\ pb.off = Total(RequestFields)
      /\ Total(RequestFields) \in Nat
  BY <1>1, <1>2, WriteAllTotal
<1>4. PICK k \in Nat : k = pb.off + 8
  BY DEF Buffers
<1>5. f = WriteBuffer(WriteAll(New, <<Int4(k), Int4(Code(packet.type))>>), pb)
  BY <1>2, <1>4 DEF Serialize
<1>6. /\ f.ok <=> pb.ok /\ pb.off + 8 <= BufSize
      /\ f.ok => Holds(f, Framed(k, packet.type, RequestFields)) /\ f.off = pb.off + 8
  BY <1>1, <1>3, <1>5, HeaderHolds
<1>7. ASSUME ShortStrings PROVE f.ok /\ f.off <= Longest
  <2>1. PICK t \in Nat : t = Total(RequestFields) /\ t <= 8 + 2 * SafeLength + 4 * (Hand + 1)
    BY <1>3, <1>7, RequestIs
  <2>2. t <= BufSize /\ t + 8 <= BufSize /\ t + 8 <= Longest
    BY <1>7, <2>1, LongestFits
  <2> QED BY <1>3, <1>6, <2>1, <2>2
<1> QED BY <1>4, <1>6, <1>7 DEF Frame

\* The relay's, with the id behind it and the size set anew.
LEMMA Forwards ==
  ASSUME NEW type, Code(type) \in Nat, NEW fs \in Seq(Fields), NEW x \in Fields,
         NEW b, Frame(b, type, fs),
         NEW d, d = Write(WithOffset(b), x), NEW f, f = SetWriteOffset(d, d.off)
  PROVE  /\ f.ok <=> b.off + Width(x) <= BufSize
         /\ f.ok => Frame(f, type, fs \o <<x>>) /\ f.off = b.off + Width(x)
<1>1. PICK k \in Nat : k = b.off
  BY HoldsSound DEF Frame
<1>2. PICK v \in Seq(Fields) : v = <<Int4(Code(type))>> \o fs
  BY FramedIs
<1>3. PICK hs : hs = <<Int4(k)>> \o v
  OBVIOUS
<1>4. hs = Framed(k, type, fs) /\ Holds(b, <<Int4(k)>> \o v)
  BY <1>1, <1>2, <1>3 DEF Frame, Framed
<1>5. PICK e : e = WithOffset(b)
  OBVIOUS
<1>6. Holds(e, hs) /\ e.off = k
  <2>1. /\ e.off = k /\ e.ok = TRUE
        /\ \E p : p[Len(v) + 1] = k /\ Carries(e, p, <<Int4(k)>> \o v)
    BY <1>1, <1>4, <1>5, WithOffsetHolds
  <2>2. Len(hs) = Len(v) + 1
    BY <1>3, FieldTypes, OtherFirst
  <2> QED BY <1>3, <2>1, <2>2 DEF Holds
<1>7. /\ d \in Buffers /\ (d.ok <=> k + Width(x) <= BufSize)
      /\ d.ok => Holds(d, Append(Framed(k, type, fs), x)) /\ d.off = k + Width(x)
  BY <1>4, <1>5, <1>6, WriteHolds
<1>8. f.ok = d.ok
  BY <1>7, SetWriteOffsetOk
<1>9. ASSUME f.ok PROVE Frame(f, type, fs \o <<x>>) /\ f.off = k + Width(x)
  <2>1. PICK gs : gs = fs \o <<x>>
    OBVIOUS
  <2>2. gs \in Seq(Fields)
    BY <2>1, AppendProperties
  <2>3. Holds(d, Framed(k, type, gs)) /\ d.off = k + Width(x)
    BY <1>7, <1>8, <1>9, <2>1, AppendFramed
  <2>4. PICK m \in Nat : m = d.off
    BY <2>3, HoldsSound
  <2>5. PICK w \in Seq(Fields) : w = <<Int4(Code(type))>> \o gs
    BY <2>2, FramedIs
  <2>6. PICK p : Carries(d, p, <<Int4(k)>> \o w) /\ d.off = p[Len(<<Int4(k)>> \o w)]
    BY <2>3, <2>5 DEF Holds, Framed
  <2>7. Carries(f, p, <<Int4(m)>> \o w) /\ f.off = m
    BY <2>4, <2>6, SetWriteOffsetHolds
  <2>8. Len(<<Int4(m)>> \o w) = Len(<<Int4(k)>> \o w)
    BY FieldTypes, OtherFirst
  <2>9. Holds(f, <<Int4(m)>> \o w)
    BY <1>9, <2>4, <2>6, <2>7, <2>8 DEF Holds
  <2> QED BY <2>1, <2>3, <2>4, <2>5, <2>7, <2>9 DEF Frame, Framed
<1> QED BY <1>1, <1>7, <1>8, <1>9

\* The answer of a server.
LEMMA Replies ==
  ASSUME NEW a, AnswerShape(a), NEW f, f = Serialize(Code(a.type), Body(a))
  PROVE  /\ f.ok => Frame(f, a.type, <<a.to>> \o a.rest)
         /\ ShortStrings => f.ok /\ f.off <= Longest
<1>1. /\ <<a.to>> \in Seq(Fields) /\ a.rest \in Seq(Fields) /\ Code(a.type) \in Nat
      /\ Total(<<a.to>>) \in Nat /\ Total(a.rest) \in Nat
      /\ ShortStrings => Total(<<a.to>>) + Total(a.rest) <= 8 + 2 * SafeLength + 4 * (Hand + 1)
  BY AnswerIs
<1>2. PICK one : one = WriteAll(New, <<a.to>>)
  OBVIOUS
<1>3. PICK rest : rest = WriteAll(New, a.rest)
  OBVIOUS
<1>4. /\ one \in Buffers /\ (one.ok <=> Total(<<a.to>>) <= BufSize)
      /\ one.ok => Holds(one, <<a.to>>) /\ one.off = Total(<<a.to>>)
  BY <1>1, <1>2, WriteAllTotal
<1>5. /\ rest \in Buffers /\ (rest.ok <=> Total(a.rest) <= BufSize)
      /\ rest.ok => Holds(rest, a.rest) /\ rest.off = Total(a.rest)
  BY <1>1, <1>3, WriteAllTotal
<1>6. PICK pb : pb = Body(a)
  OBVIOUS
<1>7. pb = WriteBuffer(one, rest)
  BY <1>2, <1>3, <1>6 DEF Body
<1>8. /\ pb \in Buffers
      /\ pb.ok => Holds(pb, <<a.to>> \o a.rest) /\ pb.off = Total(<<a.to>>) + Total(a.rest)
      /\ Total(<<a.to>>) + Total(a.rest) <= BufSize => pb.ok
  <2>1. CASE ~one.ok \/ ~rest.ok
    <3>1. pb = [one EXCEPT !.ok = FALSE]
      BY <1>7, <2>1 DEF WriteBuffer
    <3>2. pb \in Buffers /\ ~pb.ok
      BY <1>4, <3>1 DEF Buffers
    <3>3. ~(Total(<<a.to>>) + Total(a.rest) <= BufSize)
      BY <1>1, <1>4, <1>5, <2>1, CodecAssumption
    <3> QED BY <3>2, <3>3
  <2>2. CASE one.ok /\ rest.ok
    <3>1. Holds(one, <<a.to>>) /\ Holds(rest, a.rest)
      BY <1>4, <1>5, <2>2
    <3>2. /\ pb \in Buffers /\ (pb.ok <=> one.off + rest.off <= BufSize)
          /\ pb.ok => Holds(pb, <<a.to>> \o a.rest) /\ pb.off = one.off + rest.off
      BY <1>7, <3>1, WriteBufferHolds
    <3> QED BY <1>4, <1>5, <2>2, <3>2
  <2> QED BY <2>1, <2>2
<1>9. PICK k \in Nat : k = pb.off + 8
  BY <1>8 DEF Buffers
<1>10. f = WriteBuffer(WriteAll(New, <<Int4(k), Int4(Code(a.type))>>), pb)
  BY <1>6, <1>9 DEF Serialize
<1>11. PICK gs : gs = <<a.to>> \o a.rest
  OBVIOUS
<1>12. pb \in Buffers /\ (pb.ok => Holds(pb, gs))
  BY <1>8, <1>11
<1>13. /\ f.ok <=> pb.ok /\ pb.off + 8 <= BufSize
       /\ f.ok => Holds(f, Framed(k, a.type, gs)) /\ f.off = pb.off + 8
  BY <1>1, <1>10, <1>12, HeaderHolds
<1>14. ASSUME ShortStrings PROVE f.ok /\ f.off <= Longest
  <2>1. PICK t \in Nat : /\ t = Total(<<a.to>>) + Total(a.rest)
                         /\ t <= 8 + 2 * SafeLength + 4 * (Hand + 1)
    BY <1>1, <1>14
  <2>2. t <= BufSize /\ t + 8 <= BufSize /\ t + 8 <= Longest
    BY <1>14, <2>1, LongestFits
  <2> QED BY <1>8, <1>13, <2>1, <2>2
<1> QED BY <1>9, <1>11, <1>13, <1>14 DEF Frame

\* The packet of a login, which the relay writes anew.
LEMMA Rewrites ==
  ASSUME NEW a, AnswerShape(a), a.type = "ACCEPT_LOG_IN",
         NEW name \in Texts, a.rest = <<name>>, Brief(name),
         NEW f, f = SerializeInRelay(Code(a.type), WriteAll(New, <<name>>))
  PROVE  /\ f.ok => \E k \in Nat : Holds(f, Framed(k, a.type, FieldsFor(a)))
         /\ ShortStrings => f.ok /\ f.off <= Longest
<1>1. name \in Fields /\ Width(name) \in Nat /\ Code(a.type) \in Nat
  BY FieldTypes, AnswerIs DEF Texts
<1>2. PICK fs \in Seq(Fields) : fs = <<name>> /\ Total(fs) = Width(name)
  <2>1. <<name>> \in Seq(Fields)
    BY <1>1
  <2> QED BY <1>1, <2>1, Totals
<1>3. PICK pb : pb = WriteAll(New, fs)
  OBVIOUS
<1>4. /\ pb \in Buffers /\ (pb.ok <=> Width(name) <= BufSize)
      /\ pb.ok => Holds(pb, fs) /\ pb.off = Width(name)
  BY <1>2, <1>3, WriteAllTotal
<1>5. PICK k \in Nat : k = pb.off
  BY <1>4 DEF Buffers
<1>6. f = WriteBuffer(WriteAll(New, <<Int4(k), Int4(Code(a.type))>>), pb)
  BY <1>2, <1>3, <1>5 DEF SerializeInRelay
<1>7. /\ f.ok <=> pb.ok /\ pb.off + 8 <= BufSize
      /\ f.ok => Holds(f, Framed(k, a.type, fs)) /\ f.off = pb.off + 8
  BY <1>1, <1>4, <1>6, HeaderHolds
<1>8. FieldsFor(a) = fs
  BY <1>2 DEF FieldsFor
<1>9. ASSUME ShortStrings PROVE f.ok /\ f.off <= Longest
  <2>1. PICK t \in Nat : t = Width(name) /\ t <= 4 + SafeLength
    BY <1>1, <1>9 DEF Brief
  <2>2. t <= BufSize /\ t + 8 <= BufSize /\ t + 8 <= Longest
    BY <1>9, <2>1, LongestFits
  <2> QED BY <1>4, <1>7, <2>1, <2>2
<1> QED BY <1>7, <1>8, <1>9

\* What a program finds of a packet, whether or not it has set the offset.
LEMMA ReadsPacket ==
  ASSUME NEW k \in Nat, NEW w \in Seq(Fields), NEW b, Holds(b, <<Int4(k)>> \o w),
         NEW kinds \in Seq(Kinds), NEW e \in Seq(Fields), Len(kinds) = Len(e), Finding(w, kinds, e),
         NEW c \in {b, WithOffset(b)}, NEW r, r = ReadAll(c, kinds)
  PROVE  /\ r \in Readers
         /\ Len(r.found) <= Len(e)
         /\ r.found = SubSeq(e, 1, Len(r.found))
         /\ r.ok => r.found = e
         /\ Room(c, w, kinds, e, b.off) => r.ok
<1>1. PICK p : Carries(c, p, <<Int4(k)>> \o w) /\ p[Len(w) + 1] = b.off
  <2>1. PICK p : /\ Carries(b, p, <<Int4(k)>> \o w) /\ p[Len(w) + 1] = b.off
                 /\ Carries(WithOffset(b), p, <<Int4(k)>> \o w)
    BY WithOffsetHolds
  <2> QED BY <2>1
<1> QED BY <1>1, ReadsFrame

(***************************************************************************)
(* The invariant: whoever has a packet has the bytes of its fields.        *)
(***************************************************************************)
CodecInv ==
  /\ packet \in Packets
  /\ FieldsSurvive
  /\ place = "relay" => Frame(frame, packet.type, RequestFields)
  /\ place = "server" => Frame(frame, packet.type, RequestFields \o <<StampedId>>)
  /\ place = "back" => AnswerShape(answer) /\ Frame(frame, answer.type, <<answer.to>> \o answer.rest)
  /\ place = "shown" =>
       AnswerShape(answer) /\ \E k \in Nat : Holds(frame, Framed(k, answer.type, FieldsFor(answer)))
RoomInv ==
  ShortStrings => /\ threw = "none"
                  /\ place \in {"relay", "back", "shown"} => frame.off <= Longest
                  /\ place = "server" => frame.off <= LongestStamped

LEMMA InitHolds == Init => CodecInv /\ RoomInv
BY DEF Init, CodecInv, RoomInv, FieldsSurvive

\* What depends on the packet does not change with it.
LEMMA PacketKept ==
  ASSUME packet' = packet
  PROVE  /\ ShortStrings' <=> ShortStrings
         /\ RequestFields' = RequestFields /\ StampedId' = StampedId
         /\ \A a : AnswerShape(a)' <=> AnswerShape(a)
<1>1. ShortStrings' <=> ShortStrings
  BY DEF ShortStrings
<1>2. Id' = Id /\ RoomName' = RoomName /\ (IsLogin' <=> IsLogin)
  BY DEF Id, RoomName, IsLogin
<1>3. RequestFields' = RequestFields
  BY <1>2 DEF RequestFields
<1>4. StampedId' = StampedId
  BY <1>2 DEF StampedId
<1>5. \A f : Brief(f)' <=> Brief(f)
  BY <1>1 DEF Brief
<1>6. \A a : AnswerShape(a)' <=> AnswerShape(a)
  BY <1>5 DEF AnswerShape
<1> QED BY <1>1, <1>3, <1>4, <1>6

LEMMA ClientSendsKeeps ==
  ASSUME CodecInv, RoomInv, ClientSends
  PROVE  CodecInv' /\ RoomInv'
<1>1. packet \in Packets /\ packet' = packet /\ FieldsSurvive /\ UNCHANGED <<read, written>>
  BY DEF CodecInv, ClientSends
<1>2. PICK f : f = Serialize(Code(packet.type), WriteAll(New, RequestFields))
  OBVIOUS
<1>3. f.ok => Frame(f, packet.type, RequestFields)
  BY <1>1, <1>2, Sends
<1>4. ShortStrings => f.ok /\ f.off <= Longest
  BY <1>1, <1>2, Sends
<1>5. Passes(f, "relay", "client")
  BY <1>2 DEF ClientSends
<1>6. FieldsSurvive'
  BY <1>1 DEF FieldsSurvive
<1>7. CASE f.ok /\ frame' = f /\ place' = "relay" /\ threw' = threw
  <2>1. Frame(frame, packet.type, RequestFields)'
    BY <1>1, <1>3, <1>7, PacketKept DEF Frame, Framed
  <2>2. CodecInv'
    BY <1>1, <1>6, <1>7, <2>1 DEF CodecInv
  <2>3. RoomInv'
    BY <1>1, <1>4, <1>7, PacketKept DEF RoomInv
  <2> QED BY <2>2, <2>3
<1>8. CASE ~f.ok /\ place' = "done"
  <2>1. CodecInv'
    BY <1>1, <1>6, <1>8 DEF CodecInv
  <2>2. RoomInv'
    BY <1>1, <1>4, <1>8, PacketKept DEF RoomInv
  <2> QED BY <2>1, <2>2
<1> QED BY <1>5, <1>7, <1>8 DEF Passes

LEMMA RelayForwardsKeeps ==
  ASSUME CodecInv, RoomInv, RelayForwards
  PROVE  CodecInv' /\ RoomInv'
<1>1. packet \in Packets /\ packet' = packet
  BY DEF CodecInv, RelayForwards
<1>2. PICK type : type = packet.type /\ Code(type) \in Nat
  BY <1>1, PacketTypes, CodeIsNat
<1>3. PICK fs \in Seq(Fields) : fs = RequestFields
  BY <1>1, RequestIs
<1>4. PICK x \in Fields : x = StampedId /\ x \in Texts /\ Brief(x)
  BY <1>1, Strings DEF Texts
<1>5. Frame(frame, type, fs)
  BY <1>2, <1>3 DEF CodecInv, RelayForwards
<1>6. PICK k \in Nat : k = frame.off
  BY <1>5, HoldsSound DEF Frame
<1>7. PICK w \in Seq(Fields) : /\ w = <<Int4(Code(type))>> \o fs
                              /\ w[1] = Int4(Code(type)) /\ Len(w) = Len(fs) + 1
  BY <1>2, <1>3, FramedIs
<1>8. FieldsSurvive'
  <2>0. PICK kinds : kinds = <<"int">>
    OBVIOUS
  <2>1. kinds \in Seq(Kinds) /\ Len(kinds) = 1 /\ kinds[1] = "int"
    BY <2>0 DEF Kinds
  <2>2. PICK c \in Fields : c = Int4(Code(type)) /\ c.what = "int"
    BY <1>2, IntIs
  <2>12. PICK e : e = <<c>>
    OBVIOUS
  <2>3. e \in Seq(Fields) /\ Len(e) = 1 /\ e[1] = c
    BY <2>12
  <2>4. Finding(w, kinds, e)
    <3>1. Len(fs) \in Nat /\ Reads("int", c, c)
      BY <2>2, LenProperties, ReadsItself
    <3>2. \A i \in 1 .. 1 : /\ i <= Len(w) => Reads(kinds[i], w[i], e[i]) /\ (i = 1 \/ e[i] = w[i])
                            /\ ~(i > Len(w))
      BY <1>7, <2>1, <2>2, <2>3, <3>1
    <3> QED BY <2>3, <3>2 DEF Finding
  <2>5. Holds(frame, <<Int4(k)>> \o w)
    BY <1>5, <1>6, <1>7 DEF Frame, Framed
  <2>6. PICK r, b : b = frame /\ r = ReadAll(b, kinds)
    OBVIOUS
  <2>7. r \in Readers /\ Len(r.found) <= Len(e) /\ r.found = SubSeq(e, 1, Len(r.found))
    <3>1. Len(kinds) = Len(e) /\ Holds(b, <<Int4(k)>> \o w) /\ b \in {b, WithOffset(b)}
      BY <2>1, <2>3, <2>5, <2>6
    <3> QED BY <2>1, <2>3, <2>4, <2>6, <3>1, ReadsPacket
  <2>8. PICK ww : ww = <<Int4(Code(type))>> \o <<>>
    OBVIOUS
  <2>9. ww \in Seq(Fields) /\ Len(ww) = 1 /\ ww[1] = c
    BY <2>2, <2>8
  <2>10. Finds(r, type, <<>>)
    BY <1>2, <2>0, <2>6 DEF RelayForwards
  <2>11. Len(e) <= Len(ww) /\ \A i \in 1 .. Len(e) : e[i] = ww[i]
    BY <2>3, <2>9
  <2> QED BY <2>3, <2>7, <2>8, <2>9, <2>10, <2>11, FindsBeginning
<1>9. PICK d : d = Write(WithOffset(frame), x)
  OBVIOUS
<1>10. PICK f : f = SetWriteOffset(d, d.off)
  OBVIOUS
<1>11. /\ f.ok <=> k + Width(x) <= BufSize
       /\ f.ok => Frame(f, type, fs \o <<x>>) /\ f.off = k + Width(x)
  BY <1>2, <1>5, <1>6, <1>9, <1>10, Forwards
<1>12. Passes(f, "server", "relay")
  BY <1>4, <1>9, <1>10 DEF RelayForwards
<1>13. ASSUME ShortStrings PROVE f.ok /\ f.off <= LongestStamped
  <2>1. k <= Longest /\ Width(x) <= 4 + SafeLength /\ Width(x) \in Nat
    BY <1>4, <1>6, <1>13, FieldTypes DEF RoomInv, RelayForwards, Brief
  <2>2. SafeLength \in Nat /\ Longest \in Nat /\ LongestStamped = Longest + 4 + SafeLength
    BY <1>13, SafeRoom, LongestFits DEF LongestStamped
  <2>3. k + Width(x) <= LongestStamped
    BY <2>1, <2>2
  <2> QED BY <1>11, <1>13, <2>1, <2>2, <2>3, LongestFits, CodecAssumption
<1>14. CASE f.ok /\ frame' = f /\ place' = "server" /\ threw' = threw
  <2>1. Frame(frame, packet.type, RequestFields \o <<StampedId>>)'
    BY <1>1, <1>2, <1>3, <1>4, <1>11, <1>14, PacketKept DEF Frame, Framed
  <2>2. CodecInv'
    BY <1>1, <1>8, <1>14, <2>1 DEF CodecInv
  <2>3. RoomInv'
    BY <1>1, <1>13, <1>14, PacketKept DEF RoomInv
  <2> QED BY <2>2, <2>3
<1>15. CASE ~f.ok /\ place' = "done"
  <2>1. CodecInv'
    BY <1>1, <1>8, <1>15 DEF CodecInv
  <2>2. RoomInv'
    BY <1>1, <1>13, <1>15, PacketKept DEF RoomInv
  <2> QED BY <2>1, <2>2
<1> QED BY <1>12, <1>14, <1>15 DEF Passes

LEMMA ServerAnswersKeeps ==
  ASSUME CodecInv, RoomInv, ServerAnswers
  PROVE  CodecInv' /\ RoomInv'
<1>1. packet \in Packets /\ packet' = packet /\ place = "server"
  BY DEF CodecInv, ServerAnswers
<1>2. PICK type : type = packet.type /\ Code(type) \in Nat
  BY <1>1, PacketTypes, CodeIsNat
<1>3. PICK fs : fs = RequestFields \o <<StampedId>>
  OBVIOUS
<1>4. PICK w \in Seq(Fields) : w = Stamped /\ w = <<Int4(Code(type))>> \o fs
  BY <1>1, <1>2, <1>3, RequestIs DEF Stamped
<1>5. PICK b : b = frame
  OBVIOUS
<1>6. Holds(b, Framed(b.off, type, fs))
  BY <1>1, <1>2, <1>3, <1>5 DEF CodecInv, Frame
<1>7. PICK k \in Nat : k = b.off
  BY <1>6, HoldsSound
<1>8. Holds(b, <<Int4(k)>> \o w)
  BY <1>4, <1>6, <1>7 DEF Framed
<1>9. PICK kinds \in Seq(Kinds) : kinds = RequestKinds
  BY <1>1, RequestIs
<1>10. PICK e : ExpectsOf(w, kinds, e)
  BY <1>1, <1>4, <1>9, RequestIs
<1>11. PICK c, r : c = WithOffset(b) /\ r = ReadAll(c, kinds)
  OBVIOUS
<1>12. /\ e \in Seq(Fields) /\ Len(kinds) = Len(e) /\ Len(e) <= Len(w) /\ Finding(w, kinds, e)
       /\ \A i \in 1 .. Len(e) : e[i] = w[i]
  BY <1>10 DEF ExpectsOf
<1>13. /\ r \in Readers /\ Len(r.found) <= Len(e) /\ r.found = SubSeq(e, 1, Len(r.found))
       /\ Room(c, w, kinds, e, b.off) => r.ok
  BY <1>8, <1>11, <1>12, ReadsPacket
<1>14. Finds(r, type, fs)
  BY <1>2, <1>3, <1>5, <1>9, <1>11 DEF ServerAnswers
<1>15. FieldsSurvive'
  BY <1>4, <1>12, <1>13, <1>14, FindsBeginning
<1>16. PICK a \in AnswersTo :
         /\ answer' = a
         /\ Passes(IF r.ok THEN Serialize(Code(a.type), Body(a)) ELSE [New EXCEPT !.ok = FALSE],
                   "back", "server")
  BY <1>5, <1>9, <1>11 DEF ServerAnswers
<1>17. AnswerShape(a)
  BY <1>1, AnswersShape
<1>18. PICK g : g = Serialize(Code(a.type), Body(a))
  OBVIOUS
<1>19. /\ g.ok => Frame(g, a.type, <<a.to>> \o a.rest)
       /\ ShortStrings => g.ok /\ g.off <= Longest
  BY <1>17, <1>18, Replies
<1>20. PICK f : f = IF r.ok THEN g ELSE [New EXCEPT !.ok = FALSE]
  OBVIOUS
<1>21. Passes(f, "back", "server")
  BY <1>16, <1>18, <1>20
<1>22. ~r.ok => ~f.ok
  BY <1>20 DEF New
<1>23. ShortStrings => r.ok
  <2> SUFFICES ASSUME ShortStrings PROVE Room(c, w, kinds, e, b.off)
    BY <1>13
  <2>1. k <= LongestStamped
    BY <1>1, <1>5, <1>7 DEF RoomInv
  <2>2. c.off = k
    BY <1>8, <1>11, WithOffsetHolds
  <2>3. /\ LongestStamped \in Nat /\ LongestStamped <= BufSize /\ BufSize \in Nat
        /\ \A n \in 0 .. Hand : LongestStamped + 4 * (n + 1) <= BufSize
    BY LongestFits, CodecAssumption
  <2>4. k <= BufSize
    BY <2>1, <2>3
  <2>5. ~(Len(e) > Len(w))
    BY <1>12, LenProperties
  <2>6. ASSUME NEW i \in 1 .. Len(e)
        PROVE  /\ kinds[i] # "hand"
               /\ kinds[i] = "discarded" => k + 4 * (e[i].n + 1) <= BufSize
    <3>1. kinds[i] # "hand" /\ (kinds[i] = "discarded" => e[i].n \in 0 .. Hand)
      BY <1>10 DEF ExpectsOf
    <3>2. ASSUME e[i].n \in 0 .. Hand PROVE k + 4 * (e[i].n + 1) <= BufSize
      <4>1. PICK n \in 0 .. Hand : n = e[i].n
        BY <3>2
      <4>2. LongestStamped + 4 * (n + 1) <= BufSize /\ Hand \in Nat
        BY <2>3, CodecAssumption
      <4> QED BY <2>1, <2>3, <4>1, <4>2
    <3> QED BY <3>1, <3>2
  <2> QED BY <1>7, <2>2, <2>4, <2>5, <2>6 DEF Room
<1>24. CASE f.ok /\ frame' = f /\ place' = "back" /\ threw' = threw
  <2>1. f = g
    BY <1>20, <1>22, <1>24
  <2>2. Frame(frame, answer.type, <<answer.to>> \o answer.rest)'
    BY <1>16, <1>19, <1>24, <2>1 DEF Frame, Framed
  <2>3. AnswerShape(answer)'
    <3>1. AnswerShape(a)'
      BY <1>1, <1>17, PacketKept
    <3> QED BY <1>16, <3>1 DEF AnswerShape
  <2>4. CodecInv'
    BY <1>1, <1>15, <1>24, <2>2, <2>3 DEF CodecInv
  <2>5. RoomInv'
    BY <1>1, <1>19, <1>24, <2>1, PacketKept DEF RoomInv
  <2> QED BY <2>4, <2>5
<1>25. CASE ~f.ok /\ place' = "done"
  <2>1. CodecInv'
    BY <1>1, <1>15, <1>25 DEF CodecInv
  <2>2. ~ShortStrings
    BY <1>19, <1>20, <1>23, <1>25
  <2>3. RoomInv'
    BY <1>1, <2>2, PacketKept DEF RoomInv
  <2> QED BY <2>1, <2>3
<1> QED BY <1>21, <1>24, <1>25 DEF Passes

LEMMA RelayReturnsKeeps ==
  ASSUME CodecInv, RoomInv, RelayReturns
  PROVE  CodecInv' /\ RoomInv'
<1>1. packet \in Packets /\ packet' = packet /\ answer' = answer /\ place = "back"
  BY DEF CodecInv, RelayReturns
<1>2. PICK a : a = answer
  OBVIOUS
<1>3. AnswerShape(a) /\ Frame(frame, a.type, <<a.to>> \o a.rest)
  BY <1>1, <1>2 DEF CodecInv
<1>4. PICK b, fs : b = frame /\ fs = <<a.to>> \o a.rest
  OBVIOUS
<1>5. PICK type : type = a.type /\ Code(type) \in Nat /\ fs \in Seq(Fields)
  BY <1>3, <1>4, AnswerIs
<1>6. Holds(b, Framed(b.off, type, fs))
  BY <1>3, <1>4, <1>5 DEF Frame
<1>7. PICK k \in Nat : k = b.off
  BY <1>6, HoldsSound
<1>8. PICK w \in Seq(Fields) : w = <<Int4(Code(type))>> \o fs
  BY <1>5, FramedIs
<1>9. Holds(b, <<Int4(k)>> \o w)
  BY <1>6, <1>7, <1>8 DEF Framed
<1>10. PICK kinds \in Seq(Kinds) : kinds = RelayKinds(a)
  BY <1>3, <1>4, <1>5, <1>8, RelayReads
<1>11. PICK e : /\ ExpectsOf(w, kinds, e)
                /\ \A i \in 1 .. Len(e) : kinds[i] # "discarded"
                /\ type = "ACCEPT_LOG_IN" => \E f \in Texts : a.rest = <<f>> /\ e[3] = f /\ Brief(f)
  <2>1. w = <<Int4(Code(a.type))>> \o (<<a.to>> \o a.rest)
    BY <1>4, <1>5, <1>8
  <2>2. \E e : RelayExpects(a, w, e)
    BY <1>3, <2>1, RelayReads
  <2> QED BY <1>5, <1>10, <2>2 DEF RelayExpects
<1>12. /\ e \in Seq(Fields) /\ Len(kinds) = Len(e) /\ Len(e) <= Len(w) /\ Finding(w, kinds, e)
       /\ \A i \in 1 .. Len(e) : e[i] = w[i] /\ kinds[i] # "hand"
  BY <1>11 DEF ExpectsOf
<1>13. PICK r : r = ReadAll(b, kinds)
  OBVIOUS
<1>14. b \in {b, WithOffset(b)}
  OBVIOUS
<1>15. /\ r \in Readers /\ Len(r.found) <= Len(e) /\ r.found = SubSeq(e, 1, Len(r.found))
       /\ r.ok => r.found = e
       /\ Room(b, w, kinds, e, b.off) => r.ok
  BY <1>9, <1>12, <1>13, <1>14, ReadsPacket
<1>16. PICK f : f = IF ~r.ok THEN [b EXCEPT !.ok = FALSE]
                    ELSE IF type = "ACCEPT_LOG_IN"
                      THEN SerializeInRelay(Code(type), WriteAll(New, <<r.found[3]>>))
                    ELSE WithOffset(b)
  OBVIOUS
<1>17. Finds(r, type, fs) /\ Passes(f, "shown", "relay")
  <2>1. r = ReadAll(frame, <<"int", "string">> \o
                           IF answer.type = "ACCEPT_LOG_IN" THEN <<"string">> ELSE <<>>)
    BY <1>2, <1>4, <1>10, <1>13 DEF RelayKinds
  <2>2. Finds(r, answer.type, <<answer.to>> \o answer.rest)
    BY <2>1 DEF RelayReturns
  <2>3. Passes(IF ~r.ok THEN [frame EXCEPT !.ok = FALSE]
               ELSE IF answer.type = "ACCEPT_LOG_IN"
                 THEN SerializeInRelay(Code(answer.type), WriteAll(New, <<r.found[3]>>))
               ELSE WithOffset(frame), "shown", "relay")
    BY <2>1 DEF RelayReturns
  <2> QED BY <1>2, <1>4, <1>5, <1>16, <2>2, <2>3
<1>18. FieldsSurvive'
  BY <1>8, <1>12, <1>15, <1>17, FindsBeginning
<1>19. ShortStrings => b.off <= Longest
  BY <1>1, <1>4 DEF RoomInv
<1>20. ShortStrings => r.ok
  <2> SUFFICES ASSUME ShortStrings PROVE Room(b, w, kinds, e, b.off)
    BY <1>15
  <2>1. k <= BufSize
    <3>1. k <= Longest /\ Longest \in Nat /\ LongestStamped \in Nat
          /\ Longest <= LongestStamped /\ LongestStamped <= BufSize /\ BufSize \in Nat
      BY <1>7, <1>19, LongestFits, CodecAssumption
    <3> QED BY <3>1
  <2>2. ~(Len(e) > Len(w))
    BY <1>12, LenProperties
  <2>3. \A i \in 1 .. Len(e) : kinds[i] # "hand" /\ kinds[i] # "discarded"
    BY <1>11, <1>12
  <2> QED BY <1>7, <2>1, <2>2, <2>3 DEF Room
<1>21. /\ f.ok => \E n \in Nat : Holds(f, Framed(n, type, FieldsFor(a)))
       /\ f.ok => r.ok
       /\ ShortStrings => f.ok /\ f.off <= Longest
  <2>1. CASE ~r.ok
    <3>1. f = [b EXCEPT !.ok = FALSE] /\ b \in Buffers
      BY <1>6, <1>16, <2>1, HoldsSound
    <3>2. ~f.ok
      BY <3>1 DEF Buffers
    <3> QED BY <1>20, <2>1, <3>2
  <2>2. CASE r.ok /\ type = "ACCEPT_LOG_IN"
    <3>1. PICK name \in Texts : a.rest = <<name>> /\ e[3] = name /\ Brief(name)
      BY <1>11, <2>2
    <3>2. r.found[3] = name
      BY <1>15, <2>2, <3>1
    <3>3. f = SerializeInRelay(Code(a.type), WriteAll(New, <<name>>))
      BY <1>5, <1>16, <2>2, <3>2
    <3>4. /\ f.ok => \E n \in Nat : Holds(f, Framed(n, a.type, FieldsFor(a)))
          /\ ShortStrings => f.ok /\ f.off <= Longest
      BY <1>3, <1>5, <2>2, <3>1, <3>3, Rewrites
    <3> QED BY <1>5, <2>2, <3>4
  <2>3. CASE r.ok /\ type # "ACCEPT_LOG_IN"
    <3>1. f = WithOffset(b)
      BY <1>16, <2>3
    <3>2. FieldsFor(a) = fs
      BY <1>4, <1>5, <2>3 DEF FieldsFor
    <3>3. /\ f.off = k /\ f.ok = TRUE
          /\ \E p : p[Len(w) + 1] = k /\ Carries(f, p, <<Int4(k)>> \o w)
      BY <1>7, <1>9, <3>1, WithOffsetHolds
    <3>4. PICK hs : hs = <<Int4(k)>> \o w
      OBVIOUS
    <3>5. Len(hs) = Len(w) + 1
      BY <3>4, FieldTypes, OtherFirst
    <3>6. Holds(f, hs)
      BY <3>3, <3>4, <3>5 DEF Holds
    <3>7. Holds(f, Framed(k, type, FieldsFor(a)))
      BY <1>8, <3>2, <3>4, <3>6 DEF Framed
    <3> QED BY <1>7, <1>19, <2>3, <3>3, <3>7
  <2> QED BY <2>1, <2>2, <2>3
<1>22. CASE f.ok /\ frame' = f /\ place' = "shown" /\ threw' = threw
  <2>1. (\E n \in Nat : Holds(frame, Framed(n, answer.type, FieldsFor(answer))))'
    BY <1>1, <1>2, <1>5, <1>21, <1>22 DEF Framed, FieldsFor
  <2>2. AnswerShape(answer)'
    <3>1. AnswerShape(a)'
      BY <1>1, <1>3, PacketKept
    <3> QED BY <1>1, <1>2, <3>1 DEF AnswerShape
  <2>3. CodecInv'
    BY <1>1, <1>18, <1>22, <2>1, <2>2 DEF CodecInv
  <2>4. RoomInv'
    BY <1>1, <1>21, <1>22, PacketKept DEF RoomInv
  <2> QED BY <2>3, <2>4
<1>23. CASE ~f.ok /\ place' = "done"
  <2>1. CodecInv'
    BY <1>1, <1>18, <1>23 DEF CodecInv
  <2>2. RoomInv'
    BY <1>1, <1>21, <1>23, PacketKept DEF RoomInv
  <2> QED BY <2>1, <2>2
<1> QED BY <1>17, <1>22, <1>23 DEF Passes

LEMMA ClientHandlesKeeps ==
  ASSUME CodecInv, RoomInv, ClientHandles
  PROVE  CodecInv' /\ RoomInv'
<1>1. packet \in Packets /\ packet' = packet /\ place = "shown"
  BY DEF CodecInv, ClientHandles
<1>2. PICK a, b : a = answer /\ b = frame
  OBVIOUS
<1>3. AnswerShape(a) /\ \E n \in Nat : Holds(b, Framed(n, a.type, FieldsFor(a)))
  BY <1>1, <1>2 DEF CodecInv
<1>4. PICK k \in Nat : Holds(b, Framed(k, a.type, FieldsFor(a)))
  BY <1>3
<1>5. PICK type : type = a.type
  OBVIOUS
<1>6. PICK w, e : /\ w = <<Int4(Code(a.type))>> \o FieldsFor(a)
                  /\ e = <<Int4(Code(a.type))>> \o AnswerFields(a)
  OBVIOUS
<1>7. PICK kinds : kinds = AnswerKinds(a)
  OBVIOUS
<1>8. /\ kinds \in Seq(Kinds) /\ w \in Seq(Fields) /\ e \in Seq(Fields)
      /\ Len(kinds) = Len(e) /\ Len(e) <= Len(w) + 2
      /\ Finding(w, kinds, e)
      /\ \A i \in 1 .. Len(e) : kinds[i] # "discarded"
  BY <1>3, <1>6, <1>7, ClientReads
<1>9. Holds(b, <<Int4(k)>> \o w)
  BY <1>4, <1>6 DEF Framed
<1>10. PICK c, r : c = WithOffset(b) /\ r = ReadAll(c, kinds)
  OBVIOUS
<1>11. /\ r \in Readers /\ Len(r.found) <= Len(e) /\ r.found = SubSeq(e, 1, Len(r.found))
       /\ Room(c, w, kinds, e, b.off) => r.ok
  BY <1>8, <1>9, <1>10, ReadsPacket
<1>12. Finds(r, a.type, AnswerFields(a)) /\ Passes([b EXCEPT !.ok = r.ok], "done", "client")
  BY <1>2, <1>7, <1>10 DEF ClientHandles
<1>13. FieldsSurvive'
  <2>1. Len(e) <= Len(e)
    BY <1>8, LenProperties
  <2> QED BY <1>6, <1>8, <1>11, <1>12, <2>1, FindsBeginning
<1>14. ShortStrings => r.ok
  <2> SUFFICES ASSUME ShortStrings PROVE Room(c, w, kinds, e, b.off)
    BY <1>11
  <2>1. b.off <= Longest
    BY <1>1, <1>2 DEF RoomInv
  <2>2. PICK n \in Nat : n = b.off /\ n <= Longest
    BY <1>9, <2>1, HoldsSound
  <2>3. /\ Longest \in Nat /\ BufSize \in Nat /\ Hand \in Nat
        /\ Longest + 8 <= BufSize /\ Longest + 4 * (Hand + 1) <= BufSize
    BY LongestFits, CodecAssumption
  <2>4. PICK x \in Nat, y \in Nat : x = Len(e) /\ y = Len(w)
    BY <1>8, LenProperties
  <2>5. n <= BufSize /\ n + 4 * (Hand + 1) <= BufSize
    BY <2>2, <2>3
  <2>6. x > y => n + 4 * (x - y) <= BufSize
    BY <1>8, <2>2, <2>3, <2>4
  <2> QED BY <1>8, <2>2, <2>4, <2>5, <2>6 DEF Room
<1>15. PICK f : f = [b EXCEPT !.ok = r.ok]
  OBVIOUS
<1>16. f.ok = r.ok
  <2>1. b \in Buffers
    BY <1>9, HoldsSound
  <2> QED BY <1>15, <2>1 DEF Buffers
<1>17. Passes(f, "done", "client")
  BY <1>12, <1>15
<1>18. place' = "done"
  BY <1>17 DEF Passes
<1>19. CodecInv'
  BY <1>1, <1>13, <1>18 DEF CodecInv
<1>20. ShortStrings => threw' = threw
  BY <1>14, <1>16, <1>17 DEF Passes
<1>21. RoomInv'
  BY <1>1, <1>18, <1>20, PacketKept DEF RoomInv
<1> QED BY <1>19, <1>21

LEMMA NothingKeeps ==
  ASSUME CodecInv, RoomInv, UNCHANGED vars
  PROVE  CodecInv' /\ RoomInv'
<1>1. packet' = packet /\ place' = place /\ answer' = answer /\ frame' = frame
      /\ read' = read /\ written' = written /\ threw' = threw
  BY DEF vars
<1>2. FieldsSurvive'
  BY <1>1 DEF CodecInv, FieldsSurvive
<1>3. AnswerShape(answer)' <=> AnswerShape(answer)
  <2>1. \A a : AnswerShape(a)' <=> AnswerShape(a)
    BY <1>1, PacketKept
  <2>2. PICK a : a = answer
    OBVIOUS
  <2> QED BY <1>1, <2>1, <2>2 DEF AnswerShape
<1>4. CodecInv'
  BY <1>1, <1>2, <1>3, PacketKept DEF CodecInv, Frame, Framed, FieldsFor
<1>5. RoomInv'
  BY <1>1, PacketKept DEF RoomInv
<1> QED BY <1>4, <1>5

\* Whoever has a packet has the bytes of its fields, and while the strings are
\* short they leave room for all that is still written behind them.
THEOREM PacketsAreWhole == Spec => [](CodecInv /\ RoomInv)
<1>1. CodecInv /\ RoomInv /\ [Next]_vars => (CodecInv /\ RoomInv)'
  <2> SUFFICES ASSUME CodecInv, RoomInv, [Next]_vars PROVE CodecInv' /\ RoomInv'
    OBVIOUS
  <2> QED BY ClientSendsKeeps, RelayForwardsKeeps, ServerAnswersKeeps, RelayReturnsKeeps,
             ClientHandlesKeeps, NothingKeeps DEF Next
<1> QED BY InitHolds, <1>1, PTL DEF Spec

\* FieldsSurvive, for every length of the strings and every size of the buffer:
\* what a handlePacket finds in a packet is what was written to it, as far as it
\* gets before a read throws; the id behind the fields, the size with and without
\* the header and the two fields of a first turn that nobody writes change nothing.
THEOREM FieldsAlwaysSurvive == Spec => []FieldsSurvive
<1>1. CodecInv => FieldsSurvive
  BY DEF CodecInv
<1> QED BY <1>1, PacketsAreWhole, PTL

\* ShortStringsAreSafe, for every size of the buffer and of the hand: while no
\* string is longer than SafeLength, no packet ends the program that writes or
\* reads it.
THEOREM ShortStringsAreAlwaysSafe == Spec => []ShortStringsAreSafe
<1>1. RoomInv => ShortStringsAreSafe
  BY DEF RoomInv, ShortStringsAreSafe, ShortStrings
<1> QED BY <1>1, PacketsAreWhole, PTL
=============================================================================
