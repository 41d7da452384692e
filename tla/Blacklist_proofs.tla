-------------------------- MODULE Blacklist_proofs --------------------------
(***************************************************************************)
(* Theorems about the blacklist: that fnMatch decides, for every pattern    *)
(* and every name, the language its comment defines, and that the removal   *)
(* is exact for every tree and every blacklist.  Every recursive function   *)
(* here looks ahead only, from a position to later ones, so that it is      *)
(* reasoned about by going backwards from the end (Backwards, Recursion).   *)
(***************************************************************************)
EXTENDS Blacklist, WellFoundedInduction, TLAPS

\* The natural numbers are well ordered.
LEMMA Least ==
    ASSUME NEW T, T \subseteq Nat, T # {}
    PROVE  \E x \in T : \A y \in T : x <= y
<1> DEFINE R == {ss \in Nat \X Nat : ss[1] < ss[2]}
<1>1. IsWellFoundedOn(R, Nat)
  BY NatLessThanWellFounded DEF OpToRel
<1> HIDE DEF R
<1>2. PICK x \in T : \A y \in T : ~(<<y, x>> \in R)
  BY <1>1, WFMin
<1>3. ASSUME NEW y \in T PROVE x <= y
  <2>1. <<y, x>> \notin R
    BY <1>2
  <2> QED
    BY <2>1 DEF R
<1> QED
  BY <1>3

\* Induction from n down to 1: what holds of a position whenever it holds of all
\* those after it holds of every position.
LEMMA Backwards ==
    ASSUME NEW n \in Nat, NEW T,
           \A i \in 1..n : (\A k \in (i + 1)..n : k \in T) => i \in T
    PROVE  \A i \in 1..n : i \in T
<1> SUFFICES ASSUME NEW i \in 1..n, i \notin T
             PROVE  FALSE
  OBVIOUS
<1> DEFINE C == {m \in 0..n : n - m \in (1..n) \ T}
<1>1. C \subseteq Nat /\ n - i \in C
  OBVIOUS
<1>2. PICK m \in C : \A l \in C : m <= l
  <2> HIDE DEF C
  <2> QED
    BY <1>1, Least
<1>3. ASSUME NEW k \in (n - m + 1)..n PROVE k \in T
  <2>1. n - k \in 0..n /\ n - (n - k) = k /\ n - k < m
    BY <1>3
  <2> QED
    BY <1>2, <2>1
<1> QED
  BY <1>3

\* A definition by recursion on what lies behind a position is a round: the
\* map D from functions to functions it stands for looks ahead only.
IsRound(n, T, D) ==
    /\ D \in [[1..n -> T] -> [1..n -> T]]
    /\ \A g, h \in [1..n -> T], i \in 1..n :
           (\A k \in (i + 1)..n : g[k] = h[k]) => D[g][i] = D[h][i]

\* D has a fixed point.
HasFixedPoint(n, T, D) == \E f \in [1..n -> T] : D[f] = f

\* A round that looks only ahead has a fixed point, so that a recursive function
\* whose rounds are of that kind is what its definition says.
LEMMA Recursion ==
    ASSUME NEW n \in Nat, NEW T, NEW t \in T, NEW D, IsRound(n, T, D)
    PROVE  HasFixedPoint(n, T, D)
<1> USE DEF IsRound, HasFixedPoint
<1> DEFINE F == [1..n -> T]
           G == {m \in 1..n : \E f \in F : \A i \in m..n : f[i] = D[f][i]}
<1>0. [i \in 1..n |-> t] \in F
  OBVIOUS
<1>1. ASSUME NEW m \in 1..n, \A k \in (m + 1)..n : k \in G
      PROVE  m \in G
  <2>1. PICK f \in F : \A i \in (m + 1)..n : f[i] = D[f][i]
    <3>1. CASE m = n
      <4>1. (m + 1)..n = {}
        BY <3>1
      <4> QED
        BY <1>0, <4>1
    <3>2. CASE m # n
      BY <3>2, <1>1, m + 1 \in (m + 1)..n
    <3> QED
      BY <3>1, <3>2
  <2>2. D[f] \in F
    OBVIOUS
  <2>3. ASSUME NEW i \in m..n PROVE D[f][i] = D[D[f]][i]
    <3>1. i \in 1..n /\ \A k \in (i + 1)..n : k \in (m + 1)..n
      OBVIOUS
    <3>2. \A k \in (i + 1)..n : D[f][k] = f[k]
      BY <2>1, <3>1
    <3> QED
      BY <2>2, <3>1, <3>2
  <2> QED
    BY <2>2, <2>3
<1>2. CASE n = 0
  <2>1. 1..n = {}
    BY <1>2
  <2> QED
    BY <1>0, <2>1
<1>3. CASE n # 0
  <2>1. 1 \in G
    <3> HIDE DEF G
    <3>1. \A m \in 1..n : (\A k \in (m + 1)..n : k \in G) => m \in G
      BY <1>1
    <3>2. \A m \in 1..n : m \in G
      BY <3>1, Backwards
    <3> QED
      BY <1>3, <3>2
  <2>2. PICK f \in F : \A i \in 1..n : f[i] = D[f][i]
    BY <2>1
  <2>3. D[f] \in F
    OBVIOUS
  <2> QED
    BY <2>2, <2>3
<1> QED
  BY <1>2, <1>3
-----------------------------------------------------------------------------
(* scanChunk *)

\* scanChunk's loop always ends, within the pattern, and each of its rounds is as
\* the definition says.
LEMMA ChunkEndsDef ==
    ASSUME NEW p \in Seq(Char)
    PROVE  /\ ChunkEnds(p) \in [1..End(p) -> [BOOLEAN -> 1..End(p)]]
           /\ ChunkEnds(p) = [i \in 1..End(p) |-> ScanRound(p, ChunkEnds(p), i)]
<1> DEFINE n == End(p)
           T == [BOOLEAN -> 1..n]
           F == [1..n -> T]
           Eq(f) == f = [i \in 1..n |-> ScanRound(p, f, i)]
           D == [f \in F |-> [i \in 1..n |-> ScanRound(p, f, i)]]
<1>1. n \in Nat /\ n = Len(p) + 1
  BY DEF End
<1>2. PICK t : t \in T
  BY <1>1, [b \in BOOLEAN |-> 1] \in T
<1>3. ASSUME NEW f, NEW i \in 1..n, \A k \in (i + 1)..n : f[k] \in T
      PROVE  ScanRound(p, f, i) \in T
  <2>1. ASSUME NEW inrange \in BOOLEAN
        PROVE  ScanRound(p, f, i)[inrange] \in 1..n
    <3> DEFINE k == IF p[i] = "\\" /\ i < Len(p) THEN i + 2 ELSE i + 1
               b == p[i] = "[" \/ (inrange /\ p[i] # "]")
    <3>1. CASE i > Len(p) \/ (p[i] = "*" /\ ~inrange)
      BY <3>1 DEF ScanRound
    <3>2. CASE ~(i > Len(p) \/ (p[i] = "*" /\ ~inrange))
      <4>1. k \in (i + 1)..n /\ b \in BOOLEAN
        BY <1>1, <3>2
      <4>2. ScanRound(p, f, i)[inrange] = f[k][b]
        BY <3>2 DEF ScanRound
      <4> HIDE DEF k, b
      <4> QED
        BY <1>3, <4>1, <4>2
    <3> QED
      BY <3>1, <3>2
  <2> QED
    BY <2>1 DEF ScanRound
<1>4. ASSUME NEW g \in F, NEW h \in F, NEW i \in 1..n, \A k \in (i + 1)..n : g[k] = h[k]
      PROVE  ScanRound(p, g, i) = ScanRound(p, h, i)
  BY <1>1, <1>4 DEF ScanRound
<1> HIDE DEF n, T
<1>5. D \in [F -> F]
  <2>1. ASSUME NEW f \in F PROVE [i \in 1..n |-> ScanRound(p, f, i)] \in F
    BY <1>3, <1>1
  <2> QED
    BY <2>1
<1>6. \A g, h \in F, i \in 1..n :
        (\A k \in (i + 1)..n : g[k] = h[k]) => D[g][i] = D[h][i]
  BY <1>4
<1>7. \A f \in F : D[f] = f => Eq(f)
  OBVIOUS
<1>8. \E f \in F : D[f] = f
  <2> HIDE DEF D
  <2>1. IsRound(n, T, D)
    BY <1>5, <1>6 DEF IsRound
  <2>2. HasFixedPoint(n, T, D)
    BY <1>1, <1>2, <2>1, Recursion
  <2> QED
    BY <2>2 DEF HasFixedPoint
<1>9. ChunkEnds(p) = CHOOSE f : Eq(f)
  BY DEF ChunkEnds, n
<1>10. Eq(ChunkEnds(p))
  <2> HIDE DEF Eq
  <2> QED
    BY <1>7, <1>8, <1>9
<1>11. ChunkEnds(p) \in F
  <2> DEFINE G == {i \in 1..n : ChunkEnds(p)[i] \in T}
  <2>1. ASSUME NEW i \in 1..n, \A k \in (i + 1)..n : k \in G PROVE i \in G
    <3>1. ScanRound(p, ChunkEnds(p), i) \in T
      BY <1>3, <2>1
    <3> QED
      BY <1>10, <3>1
  <2>2. \A i \in 1..n : i \in G
    <3> HIDE DEF G
    <3>1. \A i \in 1..n : (\A k \in (i + 1)..n : k \in G) => i \in G
      BY <2>1
    <3> QED
      BY <1>1, <3>1, Backwards
  <2> QED
    BY <1>10, <2>2
<1> QED
  BY <1>10, <1>11 DEF n, T

\* Positions of a pattern, and one past them.
LEMMA Ends ==
    ASSUME NEW p \in Seq(Char)
    PROVE  /\ Len(p) \in Nat /\ End(p) = Len(p) + 1
           /\ \A i \in 1..Len(p) : p[i] \in Char
  BY DEF End

\* What scanChunk finds lies ahead, at a star or at the end of the pattern.
LEMMA ChunkEndsAhead ==
    ASSUME NEW p \in Seq(Char)
    PROVE  \A i \in 1..End(p), b \in BOOLEAN :
              LET e == ChunkEnds(p)[i][b] IN
              e \in i..End(p) /\ (e < End(p) => p[e] = "*")
<1> DEFINE n == End(p)
           Ok(i) == \A b \in BOOLEAN : /\ ChunkEnds(p)[i][b] \in i..n
                                       /\ ChunkEnds(p)[i][b] < n => p[ChunkEnds(p)[i][b]] = "*"
           G == {i \in 1..n : Ok(i)}
<1>0. n \in Nat /\ n = Len(p) + 1
  BY DEF End
<1>1. ASSUME NEW i \in 1..n, \A k \in (i + 1)..n : k \in G PROVE i \in G
  <2>1. ASSUME NEW b \in BOOLEAN
        PROVE  /\ ChunkEnds(p)[i][b] \in i..n
               /\ ChunkEnds(p)[i][b] < n => p[ChunkEnds(p)[i][b]] = "*"
    <3> DEFINE k == IF p[i] = "\\" /\ i < Len(p) THEN i + 2 ELSE i + 1
               d == p[i] = "[" \/ (b /\ p[i] # "]")
    <3>1. ChunkEnds(p)[i][b] = IF i > Len(p) \/ (p[i] = "*" /\ ~b) THEN i
                               ELSE ChunkEnds(p)[k][d]
      <4>1. ChunkEnds(p)[i] = ScanRound(p, ChunkEnds(p), i)
        BY ChunkEndsDef
      <4> QED
        BY <4>1 DEF ScanRound
    <3>2. CASE i > Len(p) \/ (p[i] = "*" /\ ~b)
      BY <1>0, <3>1, <3>2
    <3>3. CASE ~(i > Len(p) \/ (p[i] = "*" /\ ~b))
      <4>1. k \in (i + 1)..n /\ d \in BOOLEAN
        BY <1>0, <3>3
      <4> HIDE DEF k, d
      <4>2. Ok(k)
        BY <1>1, <4>1
      <4> HIDE DEF n
      <4> QED
        BY <1>0, <3>1, <3>3, <4>1, <4>2
    <3> QED
      BY <3>2, <3>3
  <2> QED
    BY <2>1
<1>2. \A i \in 1..n : i \in G
  <2> HIDE DEF G
  <2>1. \A i \in 1..n : (\A k \in (i + 1)..n : k \in G) => i \in G
    BY <1>1
  <2> QED
    BY <1>0, <2>1, Backwards
<1> QED
  BY <1>2

\* The same for a scan that begins outside of a class.
LEMMA ChunkEndAhead ==
    ASSUME NEW p \in Seq(Char), NEW i \in 1..End(p)
    PROVE  ChunkEnd(p, i) \in i..End(p) /\ (ChunkEnd(p, i) < End(p) => p[ChunkEnd(p, i)] = "*")
  BY ChunkEndsAhead DEF ChunkEnd

\* Where a class in which i lies makes the chunk end.
ClassEnd(p, i) == ChunkEnds(p)[i][TRUE]

\* A round of scanChunk, outside of a class and within it.
LEMMA ScanStep ==
    ASSUME NEW p \in Seq(Char), NEW i \in 1..Len(p)
    PROVE  LET k == IF p[i] = "\\" /\ i < Len(p) THEN i + 2 ELSE i + 1 IN
           /\ p[i] \notin {"*", "["} => ChunkEnd(p, i) = ChunkEnd(p, k)
           /\ p[i] = "[" => ChunkEnd(p, i) = ClassEnd(p, i + 1)
           /\ p[i] # "]" => ClassEnd(p, i) = ClassEnd(p, k)
           /\ p[i] = "]" => ClassEnd(p, i) = ChunkEnd(p, i + 1)
<1> DEFINE k == IF p[i] = "\\" /\ i < Len(p) THEN i + 2 ELSE i + 1
<1>1. i \in 1..End(p) /\ ~(i > Len(p))
  BY DEF End
<1>2. ChunkEnds(p)[i] = ScanRound(p, ChunkEnds(p), i)
  BY <1>1, ChunkEndsDef
<1>3. ASSUME NEW b \in BOOLEAN, p[i] # "*" \/ b
      PROVE  ChunkEnds(p)[i][b] = ChunkEnds(p)[k][p[i] = "[" \/ (b /\ p[i] # "]")]
  BY <1>1, <1>2, <1>3 DEF ScanRound
<1>4. CASE p[i] = "["
  <2>1. (p[i] = "[" \/ (TRUE /\ p[i] # "]")) = TRUE /\ (p[i] = "[" \/ (FALSE /\ p[i] # "]")) = TRUE
    BY <1>4
  <2>2. k = i + 1
    BY <1>4
  <2> QED
    BY <1>3, <1>4, <2>1, <2>2 DEF ChunkEnd, ClassEnd
<1>5. CASE p[i] = "]"
  <2>1. (p[i] = "[" \/ (TRUE /\ p[i] # "]")) = FALSE /\ (p[i] = "[" \/ (FALSE /\ p[i] # "]")) = FALSE
    BY <1>5
  <2>2. k = i + 1
    BY <1>5
  <2> QED
    BY <1>3, <1>5, <2>1, <2>2 DEF ChunkEnd, ClassEnd
<1>6. CASE p[i] \notin {"[", "]"}
  <2>1. (p[i] = "[" \/ (TRUE /\ p[i] # "]")) = TRUE /\ (p[i] = "[" \/ (FALSE /\ p[i] # "]")) = FALSE
    BY <1>6
  <2> QED
    BY <1>3, <1>6, <2>1 DEF ChunkEnd, ClassEnd
<1> QED
  BY <1>4, <1>5, <1>6

-----------------------------------------------------------------------------
(* The ranges of a class *)

\* getEsc's result, field by field.
LEMMA GetEscIs ==
    ASSUME NEW p, NEW e, NEW i
    PROVE  LET k == IF i < e /\ p[i] = "\\" THEN i + 1 ELSE i IN
           /\ GetEsc(p, i, e).err <=> i >= e \/ p[i] \in {"-", "]"} \/ k + 1 >= e
           /\ GetEsc(p, i, e).at = k
           /\ GetEsc(p, i, e).rest = k + 1
<1>1. GetEsc(p, i, e).err <=>
         \/ i >= e \/ p[i] \in {"-", "]"}
         \/ (IF i < e /\ p[i] = "\\" THEN i + 1 ELSE i) + 1 >= e
  BY Zenon DEF GetEsc
<1>2. /\ GetEsc(p, i, e).at = IF i < e /\ p[i] = "\\" THEN i + 1 ELSE i
      /\ GetEsc(p, i, e).rest = (IF i < e /\ p[i] = "\\" THEN i + 1 ELSE i) + 1
  BY DEF GetEsc
<1> QED
  BY <1>1, <1>2

\* What getEsc finds when it is no error: a character of the class.
LEMMA GetEscFinds ==
    ASSUME NEW p \in Seq(Char), NEW e \in 1..End(p), NEW i \in 1..e, ~GetEsc(p, i, e).err
    PROVE  /\ GetEsc(p, i, e).rest \in (i + 1)..(e - 1)
           /\ GetEsc(p, i, e).at = GetEsc(p, i, e).rest - 1
           /\ IsChar(p, i, GetEsc(p, i, e).rest)
<1>1. End(p) \in Nat
  BY Ends
<1>2. i < e /\ p[i] \notin {"-", "]"}
  BY GetEscIs, <1>1
<1>3. CASE p[i] = "\\"
  BY <1>1, <1>2, <1>3, GetEscIs DEF IsChar
<1>4. CASE p[i] # "\\"
  BY <1>1, <1>2, <1>4, GetEscIs DEF IsChar
<1> QED
  BY <1>3, <1>4

\* It finds every character of a class that goes on after it.
LEMMA GetEscReads ==
    ASSUME NEW p \in Seq(Char), NEW e \in 1..End(p), NEW i \in 1..e,
           NEW k \in 1..(e - 1), IsChar(p, i, k)
    PROVE  /\ i < k /\ ~GetEsc(p, i, e).err
           /\ GetEsc(p, i, e).at = k - 1 /\ GetEsc(p, i, e).rest = k
<1>1. End(p) \in Nat
  BY Ends
<1>3. CASE k = i + 1 /\ p[i] \notin {"\\", "-", "]"}
  BY <1>1, <1>3, GetEscIs
<1>4. CASE k = i + 2 /\ p[i] = "\\"
  BY <1>1, <1>4, GetEscIs
<1> QED
  BY <1>3, <1>4 DEF IsChar

\* A range the code reads is one of the grammar.
LEMMA RangeHiFinds ==
    ASSUME NEW p \in Seq(Char), NEW e \in 1..End(p), NEW i \in 1..e, ~RangeHi(p, i, e).err
    PROVE  /\ ~GetEsc(p, i, e).err
           /\ RangeHi(p, i, e).rest \in (i + 1)..(e - 1)
           /\ RangeSets(p, i, RangeHi(p, i, e).rest) # {}
<1> DEFINE lo == GetEsc(p, i, e)
           hi == RangeHi(p, i, e)
<1>0. End(p) \in Nat
  BY Ends
<1>1. ~lo.err
  BY DEF RangeHi
<1>2. lo.rest \in (i + 1)..(e - 1) /\ IsChar(p, i, lo.rest)
  BY <1>1, GetEscFinds
<1>3. CASE p[lo.rest] = "-"
  <2>1. lo.rest + 1 \in 1..e /\ hi = GetEsc(p, lo.rest + 1, e)
    BY <1>0, <1>1, <1>2, <1>3 DEF RangeHi
  <2>2. hi.rest \in (lo.rest + 2)..(e - 1) /\ IsChar(p, lo.rest + 1, hi.rest)
    BY <2>1, <1>0, <1>2, GetEscFinds
  <2> HIDE DEF lo, hi
  <2>3. lo.rest \in {n \in i..(hi.rest - 1) : /\ p[n] = "-" /\ IsChar(p, i, n)
                                               /\ IsChar(p, n + 1, hi.rest)}
    BY <1>0, <1>2, <1>3, <2>2
  <2>4. Between(p[lo.rest - 1], p[hi.rest - 1]) \in RangeSets(p, i, hi.rest)
    BY <2>3 DEF RangeSets
  <2> QED
    BY <1>0, <1>1, <1>2, <2>2, <2>4 DEF lo, hi
<1>4. CASE p[lo.rest] # "-"
  <2>1. hi = lo
    BY <1>4 DEF RangeHi
  <2>2. {p[lo.rest - 1]} \in RangeSets(p, i, lo.rest)
    BY <1>2 DEF RangeSets
  <2> QED
    BY <1>1, <1>2, <2>1, <2>2
<1> QED
  BY <1>3, <1>4

\* A range of the grammar begins with no "-" and no "]".
LEMMA RangeBegins ==
    ASSUME NEW p \in Seq(Char), NEW i \in 1..End(p), NEW k \in Nat, RangeSets(p, i, k) # {}
    PROVE  p[i] \notin {"-", "]"}
<1>1. \A q : IsChar(p, i, q) => p[i] \notin {"-", "]"}
  BY DEF IsChar
<1> QED
  BY <1>1 DEF RangeSets

\* The code reads a range of the grammar after which the class goes on, but not
\* with a "-".
LEMMA RangeHiReads ==
    ASSUME NEW p \in Seq(Char), NEW e \in 1..End(p), NEW i \in 1..e,
           NEW k \in 1..(e - 1), p[k] # "-", NEW a \in RangeSets(p, i, k)
    PROVE  LET lo == GetEsc(p, i, e)
               hi == RangeHi(p, i, e)
           IN  /\ i < k /\ ~hi.err /\ hi.rest = k
               /\ \A r \in Char : r \in Between(p[lo.at], p[hi.at]) <=> r \in a
<1> DEFINE lo == GetEsc(p, i, e)
           hi == RangeHi(p, i, e)
<1>0. /\ End(p) \in Nat /\ End(p) = Len(p) + 1
      /\ \A l \in 1..Len(p) : p[l] \in Char
  BY Ends
<1>1. CASE IsChar(p, i, k) /\ a = {p[k - 1]}
  <2>1. i < k /\ ~lo.err /\ lo.at = k - 1 /\ lo.rest = k
    BY <1>1, GetEscReads
  <2>2. hi = lo
    BY <2>1 DEF RangeHi
  <2>3. p[k - 1] \in Char
    BY <1>0, <2>1
  <2>4. \A r \in Char : r \in Between(p[k - 1], p[k - 1]) <=> r = p[k - 1]
    BY <2>3, CodeAssumption DEF Between
  <2> QED
    BY <1>1, <2>1, <2>2, <2>4
<1>2. ASSUME NEW m \in i..(k - 1), p[m] = "-", IsChar(p, i, m), IsChar(p, m + 1, k),
             a = Between(p[m - 1], p[k - 1])
      PROVE  /\ i < k /\ ~hi.err /\ hi.rest = k
             /\ \A r \in Char : r \in Between(p[lo.at], p[hi.at]) <=> r \in a
  <2>1. m \in 1..(e - 1) /\ m + 1 \in 1..e
    BY <1>0
  <2>2. i < m /\ ~lo.err /\ lo.at = m - 1 /\ lo.rest = m
    BY <1>2, <2>1, GetEscReads
  <2>3. hi = GetEsc(p, m + 1, e)
    BY <1>2, <2>2 DEF RangeHi
  <2>4. ~hi.err /\ hi.at = k - 1 /\ hi.rest = k
    BY <1>2, <2>1, <2>3, GetEscReads
  <2> QED
    BY <1>0, <1>2, <2>2, <2>4
<1>3. \/ IsChar(p, i, k) /\ a = {p[k - 1]}
      \/ \E m \in i..(k - 1) : /\ p[m] = "-" /\ IsChar(p, i, m) /\ IsChar(p, m + 1, k)
                               /\ a = Between(p[m - 1], p[k - 1])
  BY DEF RangeSets
<1> QED
  BY <1>1, <1>2, <1>3

\* What the loop over the ranges may return.
Verdicts == [err : BOOLEAN, match : BOOLEAN, rest : Nat]

\* The loop over the ranges of a class always ends.
LEMMA MatchRangesDef ==
    ASSUME NEW p \in Seq(Char), NEW e \in 1..End(p), NEW r \in Char
    PROVE  /\ MatchRanges(p, e, r) \in [1..e -> Verdicts]
           /\ MatchRanges(p, e, r) =
                 [i \in 1..e |-> RangeRound(p, e, r, MatchRanges(p, e, r), i)]
<1> DEFINE n == e
           T == Verdicts
           F == [1..n -> T]
           Round(f) == [i \in 1..n |-> RangeRound(p, e, r, f, i)]
           Eq(f) == f = Round(f)
           D == [f \in F |-> Round(f)]
<1>1. n \in Nat /\ BadTerm \in T
  BY Ends DEF BadTerm, Verdicts
<1>2. ASSUME NEW f, NEW i \in 1..n, \A k \in (i + 1)..n : f[k] \in T
      PROVE  RangeRound(p, e, r, f, i) \in T
  <2> DEFINE lo == GetEsc(p, i, e)
             hi == RangeHi(p, i, e)
  <2>1. CASE i < e /\ p[i] = "]"
    BY <1>1, <2>1 DEF RangeRound, Verdicts
  <2>2. CASE ~(i < e /\ p[i] = "]") /\ hi.err
    BY <1>1, <2>2 DEF RangeRound
  <2>3. CASE ~(i < e /\ p[i] = "]") /\ ~hi.err
    <3>1. hi.rest \in (i + 1)..n
      BY <1>1, <2>3, RangeHiFinds
    <3>2. f[hi.rest] \in T
      BY <1>2, <3>1
    <3>3. RangeRound(p, e, r, f, i) =
             [err   |-> f[hi.rest].err,
              match |-> f[hi.rest].match \/ r \in Between(p[lo.at], p[hi.at]),
              rest  |-> f[hi.rest].rest]
      BY <2>3 DEF RangeRound
    <3> HIDE DEF lo, hi
    <3> QED
      BY <3>2, <3>3 DEF Verdicts
  <2> QED
    BY <2>1, <2>2, <2>3
<1>3. ASSUME NEW g, NEW h, NEW i \in 1..n, \A k \in (i + 1)..n : g[k] = h[k]
      PROVE  RangeRound(p, e, r, g, i) = RangeRound(p, e, r, h, i)
  <2>1. CASE RangeHi(p, i, e).err
    BY <2>1 DEF RangeRound
  <2>2. CASE ~RangeHi(p, i, e).err
    <3>1. RangeHi(p, i, e).rest \in (i + 1)..n
      BY <1>1, <2>2, RangeHiFinds
    <3> QED
      BY <1>3, <3>1 DEF RangeRound
  <2> QED
    BY <2>1, <2>2
<1>4. IsRound(n, T, D)
  <2>1. ASSUME NEW f \in F PROVE Round(f) \in F
    <3> HIDE DEF T
    <3> QED
      BY <1>1, <1>2
  <2> QED
    BY <1>3, <2>1 DEF IsRound
<1>5. \E f : Eq(f)
  <2>1. HasFixedPoint(n, T, D)
    <3> HIDE DEF D, n, T
    <3> QED
      BY <1>1, <1>4, Recursion
  <2> QED
    BY <2>1 DEF HasFixedPoint
<1>6. Eq(MatchRanges(p, e, r))
  <2>1. MatchRanges(p, e, r) = CHOOSE f : Eq(f)
    BY DEF MatchRanges
  <2> HIDE DEF Eq
  <2> QED
    BY <1>5, <2>1
<1>7. \A i \in 1..n : MatchRanges(p, e, r)[i] \in T
  <2> DEFINE G == {i \in 1..n : MatchRanges(p, e, r)[i] \in T}
  <2>1. ASSUME NEW i \in 1..n, \A k \in (i + 1)..n : k \in G PROVE i \in G
    BY <1>2, <1>6, <2>1
  <2>2. \A i \in 1..n : i \in G
    <3> HIDE DEF G
    <3>1. \A i \in 1..n : (\A k \in (i + 1)..n : k \in G) => i \in G
      BY <2>1
    <3> QED
      BY <1>1, <3>1, Backwards
  <2> QED
    BY <2>2
<1> QED
  BY <1>6, <1>7

\* The classes of the grammar are well defined.
LEMMA ClassSetsDef ==
    ASSUME NEW p \in Seq(Char), NEW e \in 1..Len(p)
    PROVE  ClassSets(p, e) = [i \in 1..e |-> ClassTail(p, e, ClassSets(p, e), i)]
<1> DEFINE n == e
           T == SUBSET SUBSET Char
           F == [1..n -> T]
           Round(f) == [i \in 1..n |-> ClassTail(p, e, f, i)]
           Eq(f) == f = Round(f)
           D == [f \in F |-> Round(f)]
<1>1. n \in Nat /\ {} \in T
  OBVIOUS
<1>2. ASSUME NEW f \in F, NEW i \in 1..n PROVE ClassTail(p, e, f, i) \in T
  <2>1. ASSUME NEW k \in 1..n PROVE RangeSets(p, i, k) \in T
    <3>1. IsChar(p, i, k) => p[k - 1] \in Char
      BY Ends DEF IsChar
    <3>2. \A c, d : Between(c, d) \in SUBSET Char
      BY DEF Between
    <3> QED
      BY <3>1, <3>2 DEF RangeSets
  <2>2. ASSUME NEW k \in (i + 1)..(e - 1)
        PROVE  {a \union b : a \in RangeSets(p, i, k), b \in f[k]} \in T
    <3>1. RangeSets(p, i, k) \in T /\ f[k] \in T
      BY <2>1
    <3> QED
      BY <3>1
  <2>3. RangeSets(p, i, e) \in T
    BY <2>1
  <2> QED
    BY <2>2, <2>3 DEF ClassTail
<1>3. ASSUME NEW g, NEW h, NEW i \in 1..n, \A k \in (i + 1)..n : g[k] = h[k]
      PROVE  ClassTail(p, e, g, i) = ClassTail(p, e, h, i)
  <2>1. \A m \in (i + 1)..(e - 1) : g[m] = h[m]
    BY <1>3
  <2> QED
    BY <2>1 DEF ClassTail
<1>4. IsRound(n, T, D)
  <2>1. ASSUME NEW f \in F PROVE Round(f) \in F
    <3> HIDE DEF T
    <3> QED
      BY <1>1, <1>2
  <2> QED
    BY <1>3, <2>1 DEF IsRound
<1>5. \E f : Eq(f)
  <2>1. HasFixedPoint(n, T, D)
    <3> HIDE DEF D, n, T
    <3> QED
      BY <1>1, <1>4, Recursion
  <2> QED
    BY <2>1 DEF HasFixedPoint
<1>6. ClassSets(p, e) = CHOOSE f : Eq(f)
  BY DEF ClassSets
<1> HIDE DEF Eq
<1>7. Eq(ClassSets(p, e))
  BY <1>5, <1>6
<1> QED
  BY <1>7 DEF Eq

\* A class of the grammar is a range at its end or a range and a class.
LEMMA ClassSetsStep ==
    ASSUME NEW p \in Seq(Char), NEW k \in 1..Len(p), NEW i \in 1..k, NEW b
    PROVE  b \in ClassSets(p, k)[i] <=>
              \/ b \in RangeSets(p, i, k)
              \/ \E m \in (i + 1)..(k - 1) :
                    \E a \in RangeSets(p, i, m), c \in ClassSets(p, k)[m] : b = a \union c
<1>1. ClassSets(p, k)[i] = ClassTail(p, k, ClassSets(p, k), i)
  BY ClassSetsDef
<1> QED
  BY <1>1 DEF ClassTail

\* It does not begin with a "-" or a "]".
LEMMA ClassBegins ==
    ASSUME NEW p \in Seq(Char), NEW k \in 1..Len(p), NEW i \in 1..k, ClassSets(p, k)[i] # {}
    PROVE  p[i] \notin {"-", "]"} /\ i < k
<1>0. End(p) \in Nat /\ End(p) = Len(p) + 1 /\ Len(p) \in Nat
  BY Ends
<1>1. PICK m \in i..k : RangeSets(p, i, m) # {} /\ (m < k \/ m = k)
  BY <1>0, ClassSetsStep
<1>2. p[i] \notin {"-", "]"}
  BY <1>0, <1>1, RangeBegins
<1>3. RangeSets(p, i, i) = {}
  BY <1>0 DEF RangeSets, IsChar
<1>4. CASE i = k
  <2>1. m = i
    BY <1>4, <1>0
  <2> QED
    BY <1>1, <1>3, <2>1
<1> QED
  BY <1>0, <1>2, <1>4

\* scanChunk stays in the class for as long as the grammar does.
LEMMA ScanRange ==
    ASSUME NEW p \in Seq(Char), NEW i \in 1..Len(p), NEW k \in 1..Len(p),
           RangeSets(p, i, k) # {}
    PROVE  i < k /\ ClassEnd(p, i) = ClassEnd(p, k)
<1>0. End(p) \in Nat /\ End(p) = Len(p) + 1 /\ Len(p) \in Nat
  BY Ends
<1>1. ASSUME NEW j \in 1..Len(p), NEW m \in 1..Len(p), IsChar(p, j, m)
      PROVE  j < m /\ ClassEnd(p, j) = ClassEnd(p, m)
  <2>1. p[j] # "]" /\ (IF p[j] = "\\" /\ j < Len(p) THEN j + 2 ELSE j + 1) = m /\ j < m
    BY <1>0, <1>1 DEF IsChar
  <2> QED
    BY <2>1, ScanStep
<1>2. CASE IsChar(p, i, k)
  BY <1>1, <1>2
<1>3. ASSUME NEW m \in i..(k - 1), p[m] = "-", IsChar(p, i, m), IsChar(p, m + 1, k)
      PROVE  i < k /\ ClassEnd(p, i) = ClassEnd(p, k)
  <2>1. m \in 1..Len(p) /\ m + 1 \in 1..Len(p) /\ m < Len(p)
    BY <1>0
  <2>2. i < m /\ ClassEnd(p, i) = ClassEnd(p, m)
    BY <1>1, <1>3, <2>1
  <2>3. m + 1 < k /\ ClassEnd(p, m + 1) = ClassEnd(p, k)
    BY <1>1, <1>3, <2>1
  <2>4. ClassEnd(p, m) = ClassEnd(p, m + 1)
    BY <1>3, <2>1, ScanStep
  <2> QED
    BY <1>0, <2>2, <2>3, <2>4
<1>4. \/ IsChar(p, i, k)
      \/ \E m \in i..(k - 1) : p[m] = "-" /\ IsChar(p, i, m) /\ IsChar(p, m + 1, k)
  BY DEF RangeSets
<1> QED
  BY <1>2, <1>3, <1>4

\* It leaves the class where the grammar does, at the closing bracket.
LEMMA ScanClass ==
    ASSUME NEW p \in Seq(Char), NEW k \in 1..Len(p), p[k] = "]"
    PROVE  \A i \in 1..k : ClassSets(p, k)[i] # {} =>
              ClassEnd(p, i) = ChunkEnd(p, k + 1)
<1>0. End(p) \in Nat /\ End(p) = Len(p) + 1 /\ Len(p) \in Nat
  BY Ends
<1>1. ClassEnd(p, k) = ChunkEnd(p, k + 1)
  BY ScanStep
<1> DEFINE G == {i \in 1..k : ClassSets(p, k)[i] # {} =>
                    ClassEnd(p, i) = ChunkEnd(p, k + 1)}
<1>2. ASSUME NEW i \in 1..k, \A m \in (i + 1)..k : m \in G PROVE i \in G
  <2> SUFFICES ASSUME ClassSets(p, k)[i] # {}
               PROVE  ClassEnd(p, i) = ChunkEnd(p, k + 1)
    OBVIOUS
  <2>1. CASE RangeSets(p, i, k) # {}
    <3>1. i \in 1..Len(p)
      BY <1>0
    <3> QED
      BY <1>1, <2>1, <3>1, ScanRange
  <2>2. CASE \E m \in (i + 1)..(k - 1) : RangeSets(p, i, m) # {} /\ ClassSets(p, k)[m] # {}
    <3>1. PICK m \in (i + 1)..(k - 1) : RangeSets(p, i, m) # {} /\ ClassSets(p, k)[m] # {}
      BY <2>2
    <3>2. ClassEnd(p, m) = ChunkEnd(p, k + 1)
      <4>1. m \in (i + 1)..k
        BY <1>0
      <4> QED
        BY <1>2, <3>1, <4>1
    <3>3. i \in 1..Len(p) /\ m \in 1..Len(p)
      BY <1>0
    <3> QED
      BY <3>1, <3>2, <3>3, ScanRange
  <2> QED
    BY <2>1, <2>2, ClassSetsStep
<1>3. \A i \in 1..k : i \in G
  <2> HIDE DEF G
  <2>1. \A i \in 1..k : (\A m \in (i + 1)..k : m \in G) => i \in G
    BY <1>2
  <2>2. k \in Nat
    OBVIOUS
  <2> QED
    BY <2>1, <2>2, Backwards
<1> QED
  BY <1>3

\* A round of the loop over the ranges.
LEMMA RangeStep ==
    ASSUME NEW p \in Seq(Char), NEW e \in 1..End(p), NEW i \in 1..e, NEW r \in Char
    PROVE  LET class == MatchRanges(p, e, r)
               lo == GetEsc(p, i, e)
               hi == RangeHi(p, i, e)
           IN  /\ i < e /\ p[i] = "]" =>
                     ~class[i].err /\ ~class[i].match /\ class[i].rest = i + 1
               /\ ~(i < e /\ p[i] = "]") /\ hi.err => class[i].err
               /\ ~(i < e /\ p[i] = "]") /\ ~hi.err =>
                     /\ class[i].err <=> class[hi.rest].err
                     /\ class[i].match <=>
                           class[hi.rest].match \/ r \in Between(p[lo.at], p[hi.at])
                     /\ class[i].rest = class[hi.rest].rest
<1>1. MatchRanges(p, e, r)[i] = RangeRound(p, e, r, MatchRanges(p, e, r), i)
  BY MatchRangesDef
<1> DEFINE class == MatchRanges(p, e, r)
           lo == GetEsc(p, i, e)
           hi == RangeHi(p, i, e)
<1>2. CASE i < e /\ p[i] = "]"
  <2>1. class[i] = [err |-> FALSE, match |-> FALSE, rest |-> i + 1]
    BY <1>1, <1>2 DEF RangeRound
  <2>2. ~class[i].err /\ ~class[i].match /\ class[i].rest = i + 1
    BY <2>1
  <2> QED
    BY <1>2, <2>2
<1>3. CASE ~(i < e /\ p[i] = "]") /\ hi.err
  <2>1. class[i] = BadTerm
    BY <1>1, <1>3 DEF RangeRound
  <2>2. class[i].err
    BY <2>1 DEF BadTerm
  <2> QED
    BY <1>3, <2>2
<1>4. CASE ~(i < e /\ p[i] = "]") /\ ~hi.err
  <2>1. class[i] = [err   |-> class[hi.rest].err,
                    match |-> class[hi.rest].match \/ r \in Between(p[lo.at], p[hi.at]),
                    rest  |-> class[hi.rest].rest]
    BY <1>1, <1>4 DEF RangeRound
  <2> HIDE DEF class
  <2>2. /\ class[i].err <=> class[hi.rest].err
        /\ class[i].rest = class[hi.rest].rest
        /\ class[i].match = (class[hi.rest].match \/ r \in Between(p[lo.at], p[hi.at]))
    BY <2>1
  <2>3. class[i].match <=> class[hi.rest].match \/ r \in Between(p[lo.at], p[hi.at])
    BY <2>2, Zenon
  <2> QED
    BY <1>4, <2>2, <2>3 DEF class
<1> QED
  BY <1>2, <1>3, <1>4

\* The code reads a class of the grammar to its end, and finds what is in it.
LEMMA ClassReads ==
    ASSUME NEW p \in Seq(Char), NEW e \in 1..End(p), NEW k \in 1..(e - 1), p[k] = "]",
           NEW r \in Char
    PROVE  \A i \in 1..k : \A b : b \in ClassSets(p, k)[i] =>
              LET c == MatchRanges(p, e, r)[i] IN
              ~c.err /\ c.rest = k + 1 /\ (c.match <=> r \in b)
<1>0. End(p) \in Nat /\ End(p) = Len(p) + 1 /\ Len(p) \in Nat
  BY Ends
<1> DEFINE class == MatchRanges(p, e, r)
           Ok(i, b) == ~class[i].err /\ class[i].rest = k + 1 /\ (class[i].match <=> r \in b)
           G == {i \in 1..k : \A b : b \in ClassSets(p, k)[i] => Ok(i, b)}
<1>1. Ok(k, {})
  <2>1. k < e /\ k \in 1..e
    BY <1>0
  <2> QED
    BY <2>1, RangeStep
<1>2. ASSUME NEW i \in 1..k, NEW m \in 1..k, p[m] # "-", NEW a \in RangeSets(p, i, m), NEW b,
             p[i] # "]", Ok(m, b)
      PROVE  Ok(i, a \union b)
  <2>1. i \in 1..e /\ m \in 1..(e - 1)
    BY <1>0
  <2>2. /\ ~RangeHi(p, i, e).err /\ RangeHi(p, i, e).rest = m
        /\ r \in Between(p[GetEsc(p, i, e).at], p[RangeHi(p, i, e).at]) <=> r \in a
    BY <1>2, <2>1, RangeHiReads
  <2>3. /\ class[i].err <=> class[m].err
        /\ class[i].match <=>
              class[m].match \/ r \in Between(p[GetEsc(p, i, e).at], p[RangeHi(p, i, e).at])
        /\ class[i].rest = class[m].rest
    BY <1>2, <2>1, <2>2, RangeStep
  <2> QED
    BY <1>2, <2>2, <2>3
<1>3. ASSUME NEW i \in 1..k, \A m \in (i + 1)..k : m \in G PROVE i \in G
  <2> SUFFICES ASSUME NEW b, b \in ClassSets(p, k)[i] PROVE Ok(i, b)
    OBVIOUS
  <2>1. p[i] # "]" /\ k \in 1..Len(p)
    BY <1>0, ClassBegins
  <2> HIDE DEF Ok
  <2>2. CASE b \in RangeSets(p, i, k)
    <3>1. Ok(i, b \union {})
      BY <1>1, <1>2, <2>1, <2>2
    <3>2. b \union {} = b
      OBVIOUS
    <3> QED
      BY <3>1, <3>2
  <2>3. ASSUME NEW m \in (i + 1)..(k - 1), NEW a \in RangeSets(p, i, m),
               NEW c \in ClassSets(p, k)[m], b = a \union c
        PROVE  Ok(i, b)
    <3>1. m \in 1..k /\ m \in (i + 1)..k
      OBVIOUS
    <3>2. Ok(m, c)
      BY <1>3, <3>1
    <3>3. p[m] # "-"
      BY <2>1, <3>1, ClassBegins
    <3> QED
      BY <1>2, <2>1, <2>3, <3>1, <3>2, <3>3
  <2> QED
    BY <2>1, <2>2, <2>3, ClassSetsStep
<1>4. \A i \in 1..k : i \in G
  <2> HIDE DEF G
  <2>1. \A i \in 1..k : (\A m \in (i + 1)..k : m \in G) => i \in G
    BY <1>3
  <2>2. k \in Nat
    BY <1>0
  <2> QED
    BY <2>1, <2>2, Backwards
<1> QED
  BY <1>4

\* A class the code reads is one of the grammar.
LEMMA ClassFinds ==
    ASSUME NEW p \in Seq(Char), NEW e \in 1..End(p), NEW r \in Char
    PROVE  \A i \in 1..e : LET c == MatchRanges(p, e, r)[i] IN
              ~c.err => \E k \in i..(e - 1) :
                           /\ c.rest = k + 1 /\ p[k] = "]"
                           /\ k = i \/ ClassSets(p, k)[i] # {}
<1>0. End(p) \in Nat /\ End(p) = Len(p) + 1 /\ Len(p) \in Nat
  BY Ends
<1> DEFINE class == MatchRanges(p, e, r)
           Ok(i) == \E k \in i..(e - 1) :
                       /\ class[i].rest = k + 1 /\ p[k] = "]"
                       /\ k = i \/ ClassSets(p, k)[i] # {}
           G == {i \in 1..e : ~class[i].err => Ok(i)}
<1>1. ASSUME NEW i \in 1..e, \A m \in (i + 1)..e : m \in G PROVE i \in G
  <2> SUFFICES ASSUME ~class[i].err PROVE Ok(i)
    OBVIOUS
  <2>1. CASE i < e /\ p[i] = "]"
    <3>1. class[i].rest = i + 1 /\ i \in i..(e - 1)
      BY <1>0, <2>1, RangeStep
    <3> QED
      BY <2>1, <3>1
  <2>2. CASE ~(i < e /\ p[i] = "]")
    <3> DEFINE m == RangeHi(p, i, e).rest
    <3>1. ~RangeHi(p, i, e).err
      BY <2>2, RangeStep
    <3>2. m \in (i + 1)..(e - 1) /\ RangeSets(p, i, m) # {}
      BY <3>1, RangeHiFinds
    <3>3. (class[i].err <=> class[m].err) /\ class[i].rest = class[m].rest
      BY <2>2, <3>1, RangeStep
    <3> HIDE DEF m
    <3>4. PICK k \in m..(e - 1) : /\ class[m].rest = k + 1 /\ p[k] = "]"
                                  /\ k = m \/ ClassSets(p, k)[m] # {}
      BY <1>1, <3>2, <3>3
    <3>5. k \in 1..Len(p) /\ i \in 1..k /\ k \in i..(e - 1)
      BY <1>0, <3>2
    <3>6. ClassSets(p, k)[i] # {}
      <4>1. CASE k = m
        BY <3>2, <3>5, <4>1, ClassSetsStep
      <4>2. CASE k # m
        <5>1. m \in (i + 1)..(k - 1)
          BY <1>0, <3>2, <4>2
        <5>2. PICK a \in RangeSets(p, i, m), c \in ClassSets(p, k)[m] : TRUE
          BY <3>2, <3>4, <4>2
        <5>3. a \union c \in ClassSets(p, k)[i]
          BY <3>5, <5>1, <5>2, ClassSetsStep
        <5> QED
          BY <5>3
      <4> QED
        BY <4>1, <4>2
    <3> QED
      BY <3>3, <3>4, <3>5, <3>6
  <2> QED
    BY <2>1, <2>2
<1>2. \A i \in 1..e : i \in G
  <2> HIDE DEF G
  <2>1. \A i \in 1..e : (\A m \in (i + 1)..e : m \in G) => i \in G
    BY <1>1
  <2>2. e \in Nat
    BY <1>0
  <2> QED
    BY <2>1, <2>2, Backwards
<1> QED
  BY <1>2

-----------------------------------------------------------------------------
(* A term *)

\* matchChunk reads a term of the grammar to its end, as scanChunk did, and
\* finds whether it stands for the character.
LEMMA TermReads ==
    ASSUME NEW p \in Seq(Char), NEW i \in 1..Len(p), NEW k \in (i + 1)..End(p),
           NEW a \in TermSets(p, i, k), NEW c \in Char,
           NEW e, e = ChunkEnd(p, i), NEW t, t = MatchTerm(p, i, e, c)
    PROVE  /\ k <= e /\ i < e /\ ChunkEnd(p, k) = e
           /\ ~t.err /\ t.rest = k /\ (t.match <=> c \in a)
<1>0. End(p) \in Nat /\ End(p) = Len(p) + 1 /\ Len(p) \in Nat
  BY Ends
<1>1. /\ i \in 1..End(p) /\ k \in 1..End(p) /\ i < k /\ i \in Nat /\ k \in Nat
      /\ k - 1 \in Nat /\ k - 1 + 1 = k /\ i + 1 \in Nat
  BY <1>0
<1>2. ChunkEnd(p, k) \in k..End(p) /\ e \in 1..End(p)
  BY <1>0, <1>1, ChunkEndAhead
<1>3. CASE k = i + 1 /\ p[i] \notin {"*", "?", "\\", "["} /\ a = {p[i]}
  <2>1. e = ChunkEnd(p, k)
    BY <1>3, ScanStep
  <2>2. t = [err |-> FALSE, match |-> p[i] = c, rest |-> i + 1]
    BY <1>3 DEF MatchTerm, Literal
  <2>3. ~t.err /\ t.rest = k /\ t.match = (p[i] = c)
    BY <1>3, <2>2
  <2>4. t.match <=> p[i] = c
    BY <2>3, Zenon
  <2> QED
    BY <1>1, <1>2, <1>3, <2>1, <2>3, <2>4
<1>4. CASE k = i + 1 /\ p[i] = "?" /\ a = Char
  <2>1. e = ChunkEnd(p, k)
    BY <1>4, ScanStep
  <2>2. t = [err |-> FALSE, match |-> TRUE, rest |-> i + 1]
    BY <1>4 DEF MatchTerm
  <2>3. ~t.err /\ t.rest = k /\ t.match
    BY <1>4, <2>2
  <2> QED
    BY <1>1, <1>2, <1>4, <2>1, <2>3
<1>5. CASE k = i + 2 /\ p[i] = "\\" /\ a = {p[i + 1]}
  <2>1. e = ChunkEnd(p, k)
    <3>1. i < Len(p)
      BY <1>0, <1>5
    <3> QED
      BY <1>5, <3>1, ScanStep
  <2>2. i + 1 # e
    BY <1>2, <1>5, <2>1
  <2>3. t = [err |-> FALSE, match |-> p[i + 1] = c, rest |-> i + 1 + 1]
    BY <1>5, <2>2 DEF MatchTerm, Literal
  <2>4. ~t.err /\ t.rest = k /\ t.match = (p[i + 1] = c)
    BY <1>5, <2>3
  <2>5. t.match <=> p[i + 1] = c
    BY <2>4, Zenon
  <2> QED
    BY <1>1, <1>2, <1>5, <2>1, <2>4, <2>5
<1>6. ASSUME k > i + 2, p[i] = "[", p[k - 1] = "]",
             NEW negated, negated = (p[i + 1] = "!"),
             NEW first, first = IF p[i + 1] = "!" THEN i + 2 ELSE i + 1,
             NEW b \in ClassSets(p, k - 1)[first],
             a = IF p[i + 1] = "!" THEN Char \ b ELSE b
      PROVE  /\ k <= e /\ i < e /\ ChunkEnd(p, k) = e
             /\ ~t.err /\ t.rest = k /\ (t.match <=> c \in a)
  <2>1. /\ first \in 1..(k - 1) /\ k - 1 \in 1..Len(p) /\ k - 1 + 1 = k
        /\ i + 1 \in 1..Len(p) /\ i + 1 < Len(p)
    BY <1>0, <1>6
  <2>2. ClassEnd(p, first) = ChunkEnd(p, k)
    BY <1>6, <2>1, ScanClass
  <2>3. e = ClassEnd(p, i + 1)
    BY <1>6, ScanStep
  <2>4. ClassEnd(p, i + 1) = ClassEnd(p, first)
    <3>1. CASE p[i + 1] = "!"
      <4>1. ClassEnd(p, i + 1) = ClassEnd(p, i + 1 + 1)
        BY <2>1, <3>1, ScanStep
      <4> QED
        BY <1>6, <3>1, <4>1
    <3>2. CASE p[i + 1] # "!"
      BY <1>6, <3>2
    <3> QED
      BY <3>1, <3>2
  <2>5. e = ChunkEnd(p, k) /\ e \in k..End(p)
    BY <1>2, <2>2, <2>3, <2>4
  <2>6. p[first] # "]" /\ first < k - 1
    BY <1>6, <2>1, ClassBegins
  <2>8. k - 1 \in 1..(e - 1) /\ i + 1 < e /\ ~(first >= e) /\ first \in 1..e /\ k <= e /\ i < e
    <3>1. ASSUME NEW x \in k..End(p)
          PROVE  k - 1 \in 1..(x - 1) /\ i + 1 < x /\ ~(first >= x) /\ first \in 1..x /\ k <= x /\ i < x
      BY <1>0, <1>1, <1>6, <2>1, <2>6
    <3> QED
      BY <2>5, <3>1
  <2> DEFINE class == MatchRanges(p, e, c)[first]
  <2>7. ~class.err /\ class.rest = k /\ (class.match <=> c \in b)
    BY <1>1, <1>2, <1>6, <2>1, <2>8, ClassReads
  <2>9. t = IF first >= e \/ p[first] = "]" \/ class.err THEN BadTerm
            ELSE [err |-> FALSE, match |-> ~(class.match <=> p[i + 1] = "!"), rest |-> class.rest]
    BY <1>6, <2>8 DEF MatchTerm, MatchClass, AfterClass
  <2> HIDE DEF class
  <2>10. ~t.err /\ t.rest = k /\ t.match = (~(class.match <=> p[i + 1] = "!"))
    BY <2>6, <2>7, <2>8, <2>9
  <2>11. t.match <=> ~(class.match <=> p[i + 1] = "!")
    BY <2>10, Zenon
  <2> QED
    BY <1>6, <2>5, <2>7, <2>8, <2>10, <2>11
<1>7. CASE /\ k > i + 2 /\ p[i] = "[" /\ p[k - 1] = "]"
           /\ IF p[i + 1] = "!" THEN \E b \in ClassSets(p, k - 1)[i + 2] : a = Char \ b
                                ELSE a \in ClassSets(p, k - 1)[i + 1]
  <2>1. PICK b \in ClassSets(p, k - 1)[IF p[i + 1] = "!" THEN i + 2 ELSE i + 1] :
           a = IF p[i + 1] = "!" THEN Char \ b ELSE b
    BY <1>7
  <2> QED
    BY <1>6, <1>7, <2>1
<1> QED
  BY <1>3, <1>4, <1>5, <1>7 DEF TermSets

\* A term the code reads is one of the grammar.
LEMMA TermFinds ==
    ASSUME NEW p \in Seq(Char), NEW e \in 1..End(p), NEW i \in 1..(e - 1), NEW c \in Char,
           NEW t, t = MatchTerm(p, i, e, c), ~t.err
    PROVE  t.rest \in (i + 1)..e /\ (p[i] # "*" => TermSets(p, i, t.rest) # {})
<1>0. i \in Nat /\ e \in Nat /\ i + 1 \in (i + 1)..e /\ (i + 1 # e => i + 2 \in (i + 1)..e)
  BY Ends
<1>1. CASE p[i] = "["
  <2>1. PICK first \in {i + 1, i + 2} :
           /\ first = IF i + 1 < e /\ p[i + 1] = "!" THEN i + 2 ELSE i + 1
           /\ t = LET class == MatchRanges(p, e, c)[first] IN
                  IF first >= e \/ p[first] = "]" \/ class.err THEN BadTerm
                  ELSE [err |-> FALSE, match |-> ~(class.match <=> i + 1 < e /\ p[i + 1] = "!"),
                        rest |-> class.rest]
    BY <1>1 DEF MatchTerm, MatchClass, AfterClass
  <2> DEFINE class == MatchRanges(p, e, c)[first]
  <2> HIDE DEF class
  <2>2. ~(first >= e \/ p[first] = "]" \/ class.err)
    BY <2>1 DEF BadTerm, class
  <2>3. t.rest = class.rest
    BY <2>1, <2>2 DEF class
  <2>4. first \in 1..e /\ first \in (i + 1)..(i + 2) /\ first < e
    BY <1>0, <2>2
  <2>5. PICK k \in first..(e - 1) : /\ class.rest = k + 1 /\ p[k] = "]"
                                    /\ k = first \/ ClassSets(p, k)[first] # {}
    BY <2>2, <2>4, ClassFinds DEF class
  <2>6. k # first /\ ClassSets(p, k)[first] # {}
    BY <2>2, <2>5
  <2>7. k + 1 > i + 2 /\ p[k + 1 - 1] = "]" /\ k + 1 - 1 = k /\ i + 1 < e
    BY <2>4, <2>5, <2>6
  <2>8. TermSets(p, i, k + 1) # {}
    <3>1. CASE p[i + 1] = "!"
      <4>1. TermSets(p, i, k + 1) = {Char \ b : b \in ClassSets(p, k)[i + 2]}
        BY <1>1, <2>7, <3>1 DEF TermSets
      <4> QED
        BY <2>1, <2>6, <2>7, <3>1, <4>1
    <3>2. CASE p[i + 1] # "!"
      <4>1. TermSets(p, i, k + 1) = ClassSets(p, k)[i + 1]
        BY <1>1, <2>7, <3>2 DEF TermSets
      <4> QED
        BY <2>1, <2>6, <3>2, <4>1
    <3> QED
      BY <3>1, <3>2
  <2>9. k + 1 \in (i + 1)..e
    BY <1>0, <2>4, <2>5
  <2> QED
    BY <2>3, <2>5, <2>8, <2>9
<1>2. CASE p[i] = "?"
  <2>1. t.rest = i + 1
    BY <1>2 DEF MatchTerm
  <2>2. TermSets(p, i, i + 1) = {Char}
    BY <1>2 DEF TermSets
  <2> QED
    BY <1>0, <2>1, <2>2
<1>3. CASE p[i] = "\\"
  <2>1. i + 1 # e
    BY <1>3 DEF MatchTerm, BadTerm
  <2>2. t.rest = i + 1 + 1
    BY <1>3, <2>1 DEF MatchTerm, Literal
  <2>3. TermSets(p, i, i + 2) = {{p[i + 1]}}
    BY <1>3 DEF TermSets
  <2>4. i + 2 = i + 1 + 1
    BY <1>0
  <2> QED
    BY <1>0, <2>1, <2>2, <2>3, <2>4
<1>4. CASE p[i] \notin {"[", "?", "\\"}
  <2>1. t.rest = i + 1
    BY <1>4 DEF MatchTerm, Literal
  <2>2. p[i] # "*" => TermSets(p, i, i + 1) = {{p[i]}}
    BY <1>4 DEF TermSets
  <2> QED
    BY <1>0, <2>1, <2>2
<1> QED
  BY <1>1, <1>2, <1>3, <1>4

-----------------------------------------------------------------------------
(* The language *)

\* The sequences of terms are well defined.
LEMMA WellFormedDef ==
    ASSUME NEW p \in Seq(Char)
    PROVE  WellFormedFrom(p) = [i \in 1..End(p) |-> TermTail(p, WellFormedFrom(p), i)]
<1> DEFINE n == End(p)
           T == BOOLEAN
           F == [1..n -> T]
           Round(f) == [i \in 1..n |-> TermTail(p, f, i)]
           Eq(f) == f = Round(f)
           D == [f \in F |-> Round(f)]
<1>1. n \in Nat /\ FALSE \in T
  BY Ends
<1>2. ASSUME NEW f, NEW i \in 1..n PROVE TermTail(p, f, i) \in T
  BY Zenon DEF TermTail
<1>3. ASSUME NEW g \in F, NEW h \in F, NEW i \in 1..n, \A k \in (i + 1)..n : g[k] = h[k]
      PROVE  TermTail(p, g, i) = TermTail(p, h, i)
  BY <1>3 DEF TermTail
<1>4. IsRound(n, T, D)
  <2>1. ASSUME NEW f \in F PROVE Round(f) \in F
    BY <1>1, <1>2
  <2> QED
    BY <1>3, <2>1 DEF IsRound
<1>5. \E f : Eq(f)
  <2>1. HasFixedPoint(n, T, D)
    <3> HIDE DEF D, n, T
    <3> QED
      BY <1>1, <1>4, Recursion
  <2> QED
    BY <2>1 DEF HasFixedPoint
<1>6. WellFormedFrom(p) = CHOOSE f : Eq(f)
  BY DEF WellFormedFrom
<1> HIDE DEF Eq
<1>7. Eq(WellFormedFrom(p))
  BY <1>5, <1>6
<1> QED
  BY <1>7 DEF Eq

\* What is left of a pattern is well formed if it is empty or a term before what
\* is well formed.
LEMMA WellFormedStep ==
    ASSUME NEW p \in Seq(Char), NEW i \in 1..End(p)
    PROVE  WellFormedFrom(p)[i] <=>
              \/ i = End(p)
              \/ \E k \in (i + 1)..End(p) :
                    /\ (p[i] = "*" /\ k = i + 1) \/ TermSets(p, i, k) # {}
                    /\ WellFormedFrom(p)[k]
<1>1. WellFormedFrom(p)[i] = TermTail(p, WellFormedFrom(p), i)
  BY WellFormedDef
<1> QED
  BY <1>1, Zenon DEF TermTail

\* The language of a pattern is well defined.
LEMMA LanguageDef ==
    ASSUME NEW p \in Seq(Char), NEW s \in Seq(Char)
    PROVE  InLanguage(p, s) = [i \in 1..End(p) |-> LanguageTail(p, s, InLanguage(p, s), i)]
<1> DEFINE n == End(p)
           T == [1..End(s) -> BOOLEAN]
           F == [1..n -> T]
           Round(f) == [i \in 1..n |-> LanguageTail(p, s, f, i)]
           Eq(f) == f = Round(f)
           D == [f \in F |-> Round(f)]
<1>1. n \in Nat /\ [j \in 1..End(s) |-> FALSE] \in T
  BY Ends
<1>2. ASSUME NEW f, NEW i \in 1..n PROVE LanguageTail(p, s, f, i) \in T
  BY DEF LanguageTail
<1>3. ASSUME NEW g \in F, NEW h \in F, NEW i \in 1..n, \A k \in (i + 1)..n : g[k] = h[k]
      PROVE  LanguageTail(p, s, g, i) = LanguageTail(p, s, h, i)
  <2>1. i < End(p) => g[i + 1] = h[i + 1]
    BY <1>1, <1>3
  <2> QED
    BY <1>3, <2>1 DEF LanguageTail
<1>4. IsRound(n, T, D)
  <2>1. ASSUME NEW f \in F PROVE Round(f) \in F
    <3> HIDE DEF T
    <3> QED
      BY <1>1, <1>2
  <2> QED
    BY <1>3, <2>1 DEF IsRound
<1>5. \E f : Eq(f)
  <2>1. HasFixedPoint(n, T, D)
    <3> HIDE DEF D, n, T
    <3> QED
      BY <1>1, <1>4, Recursion
  <2> QED
    BY <2>1 DEF HasFixedPoint
<1>6. InLanguage(p, s) = CHOOSE f : Eq(f)
  BY DEF InLanguage
<1> HIDE DEF Eq
<1>7. Eq(InLanguage(p, s))
  BY <1>5, <1>6
<1> QED
  BY <1>7 DEF Eq

\* A name is in it if both are at their end, a star takes a part of the name, or a
\* term takes its next character.
LEMMA LanguageStep ==
    ASSUME NEW p \in Seq(Char), NEW s \in Seq(Char), NEW i \in 1..End(p), NEW j \in 1..End(s)
    PROVE  InLanguage(p, s)[i][j] <=>
              \/ i = End(p) /\ j = End(s)
              \/ i < End(p) /\ p[i] = "*" /\ \E k \in j..End(s) : InLanguage(p, s)[i + 1][k]
              \/ j < End(s) /\ \E k \in (i + 1)..End(p) :
                                   /\ \E a \in TermSets(p, i, k) : s[j] \in a
                                   /\ InLanguage(p, s)[k][j + 1]
<1>1. InLanguage(p, s)[i] = LanguageTail(p, s, InLanguage(p, s), i)
  BY LanguageDef
<1>2. InLanguage(p, s)[i][j] = LanguageTail(p, s, InLanguage(p, s), i)[j]
  BY <1>1
<1> QED
  BY <1>2, Zenon DEF LanguageTail

-----------------------------------------------------------------------------
(* A chunk *)

\* What matchChunk may return.
Results(s) == [ok : BOOLEAN, err : BOOLEAN, rest : 0..End(s)]

\* The loop of matchChunk always ends.
LEMMA MatchChunkDef ==
    ASSUME NEW p \in Seq(Char), NEW e \in 1..End(p), NEW s \in Seq(Char)
    PROVE  /\ MatchChunk(p, e, s) \in [1..e -> [1..End(s) -> Results(s)]]
           /\ MatchChunk(p, e, s) =
                 [i \in 1..e |-> ChunkRound(p, e, s, MatchChunk(p, e, s), i)]
<1> DEFINE n == e
           T == [1..End(s) -> Results(s)]
           F == [1..n -> T]
           Round(f) == [i \in 1..n |-> ChunkRound(p, e, s, f, i)]
           Eq(f) == f = Round(f)
           D == [f \in F |-> Round(f)]
<1>0. End(s) \in Nat /\ End(s) = Len(s) + 1 /\ \A j \in 1..Len(s) : s[j] \in Char
  BY Ends
<1>1. n \in Nat /\ NoMatch \in Results(s) /\ BadChunk \in Results(s)
  BY <1>0, Ends DEF NoMatch, BadChunk, Results
<1>2. [j \in 1..End(s) |-> NoMatch] \in T
  BY <1>1
<1>3. ASSUME NEW i \in 1..n, NEW j \in 1..End(s), i # e, j # End(s),
             ~MatchTerm(p, i, e, s[j]).err
      PROVE  MatchTerm(p, i, e, s[j]).rest \in (i + 1)..n /\ j + 1 \in 1..End(s)
  <2>1. i \in 1..(e - 1) /\ s[j] \in Char /\ j + 1 \in 1..End(s)
    BY <1>0, <1>1, <1>3
  <2> QED
    BY <1>3, <2>1, TermFinds
<1>4. ASSUME NEW f, NEW i \in 1..n, \A k \in (i + 1)..n : f[k] \in T
      PROVE  ChunkRound(p, e, s, f, i) \in T
  <2>1. ASSUME NEW j \in 1..End(s) PROVE ChunkRound(p, e, s, f, i)[j] \in Results(s)
    <3>1. CASE i = e
      <4>1. ChunkRound(p, e, s, f, i)[j] = [ok |-> TRUE, err |-> FALSE, rest |-> j]
        BY <3>1 DEF ChunkRound, AfterTerm
      <4>2. j \in 0..End(s)
        BY <1>0
      <4> QED
        BY <4>1, <4>2 DEF Results
    <3>2. CASE i # e /\ j # End(s) /\ ~MatchTerm(p, i, e, s[j]).err
      <4>1. f[MatchTerm(p, i, e, s[j]).rest][j + 1] \in Results(s)
        BY <1>3, <1>4, <3>2
      <4> QED
        BY <1>1, <3>2, <4>1 DEF ChunkRound, AfterTerm
    <3>3. CASE i # e /\ (j = End(s) \/ MatchTerm(p, i, e, s[j]).err)
      BY <1>1, <3>3 DEF ChunkRound, AfterTerm
    <3> QED
      BY <3>1, <3>2, <3>3
  <2>2. ChunkRound(p, e, s, f, i) = [j \in 1..End(s) |-> ChunkRound(p, e, s, f, i)[j]]
    BY DEF ChunkRound, AfterTerm
  <2> QED
    BY <2>1, <2>2
<1>5. ASSUME NEW g, NEW h, NEW i \in 1..n, \A k \in (i + 1)..n : g[k] = h[k]
      PROVE  ChunkRound(p, e, s, g, i) = ChunkRound(p, e, s, h, i)
  <2>1. ASSUME NEW j \in 1..End(s), i # e, j # End(s), ~MatchTerm(p, i, e, s[j]).err
        PROVE  g[MatchTerm(p, i, e, s[j]).rest] = h[MatchTerm(p, i, e, s[j]).rest]
    BY <1>3, <1>5, <2>1
  <2> QED
    BY <2>1 DEF ChunkRound, AfterTerm
<1>6. IsRound(n, T, D)
  <2>1. ASSUME NEW f \in F PROVE Round(f) \in F
    <3> HIDE DEF T
    <3> QED
      BY <1>1, <1>4
  <2> QED
    BY <1>5, <2>1 DEF IsRound
<1>7. \E f : Eq(f)
  <2>1. HasFixedPoint(n, T, D)
    <3> HIDE DEF D, n, T
    <3> QED
      BY <1>1, <1>2, <1>6, Recursion
  <2> QED
    BY <2>1 DEF HasFixedPoint
<1>8. Eq(MatchChunk(p, e, s))
  <2>1. MatchChunk(p, e, s) = CHOOSE f : Eq(f)
    BY DEF MatchChunk
  <2> HIDE DEF Eq
  <2> QED
    BY <1>7, <2>1
<1>9. \A i \in 1..n : MatchChunk(p, e, s)[i] \in T
  <2> HIDE DEF T
  <2> DEFINE G == {i \in 1..n : MatchChunk(p, e, s)[i] \in T}
  <2>1. ASSUME NEW i \in 1..n, \A k \in (i + 1)..n : k \in G PROVE i \in G
    BY <1>4, <1>8, <2>1
  <2>2. \A i \in 1..n : i \in G
    <3> HIDE DEF G
    <3>1. \A i \in 1..n : (\A k \in (i + 1)..n : k \in G) => i \in G
      BY <2>1
    <3> QED
      BY <1>1, <3>1, Backwards
  <2> QED
    BY <2>2
<1> QED
  BY <1>8, <1>9

\* A round of matchChunk: at the end of the chunk or of the name, and with a
\* term to read.
LEMMA ChunkStops ==
    ASSUME NEW p \in Seq(Char), NEW e \in 1..End(p), NEW s \in Seq(Char),
           NEW i \in 1..e, NEW j \in 1..End(s)
    PROVE  /\ i = e => /\ MatchChunk(p, e, s)[i][j].ok /\ ~MatchChunk(p, e, s)[i][j].err
                       /\ MatchChunk(p, e, s)[i][j].rest = j
           /\ i # e /\ j = End(s) => MatchChunk(p, e, s)[i][j] = NoMatch
<1>1. MatchChunk(p, e, s)[i] = ChunkRound(p, e, s, MatchChunk(p, e, s), i)
  BY MatchChunkDef
<1> QED
  BY <1>1 DEF ChunkRound, AfterTerm

\* Otherwise a round reads one term and compares one character.
LEMMA ChunkStep ==
    ASSUME NEW p \in Seq(Char), NEW e \in 1..End(p), NEW s \in Seq(Char),
           NEW i \in 1..e, NEW j \in 1..End(s), i # e, j # End(s),
           NEW t, t = MatchTerm(p, i, e, s[j])
    PROVE  /\ t.err => MatchChunk(p, e, s)[i][j] = BadChunk
           /\ ~t.err /\ ~t.match => MatchChunk(p, e, s)[i][j] = NoMatch
           /\ ~t.err /\ t.match =>
                 MatchChunk(p, e, s)[i][j] = MatchChunk(p, e, s)[t.rest][j + 1]
<1>1. MatchChunk(p, e, s)[i] = ChunkRound(p, e, s, MatchChunk(p, e, s), i)
  BY MatchChunkDef
<1> QED
  BY <1>1 DEF ChunkRound, AfterTerm

\* A chunk is empty at a star and at the end only.
LEMMA ChunkBegins ==
    ASSUME NEW p \in Seq(Char), NEW i \in 1..End(p)
    PROVE  /\ ChunkEnd(p, i) = i <=> i = End(p) \/ p[i] = "*"
           /\ i # End(p) <=> i \in 1..Len(p)
<1>0. End(p) \in Nat /\ End(p) = Len(p) + 1 /\ Len(p) \in Nat
  BY Ends
<1>1. ASSUME i = End(p) \/ p[i] = "*" PROVE ChunkEnd(p, i) = i
  <2>1. ChunkEnds(p)[i] = ScanRound(p, ChunkEnds(p), i)
    BY ChunkEndsDef
  <2>2. i > Len(p) \/ p[i] = "*"
    BY <1>0, <1>1
  <2> QED
    BY <2>1, <2>2 DEF ScanRound, ChunkEnd
<1>2. ASSUME ChunkEnd(p, i) = i PROVE i = End(p) \/ p[i] = "*"
  <2>1. i \in Nat /\ (i < End(p) \/ i = End(p))
    BY <1>0
  <2> QED
    BY <1>2, <2>1, ChunkEndAhead
<1> QED
  BY <1>0, <1>1, <1>2

\* matchChunk has read a term of the grammar that stands for the character at j,
\* and goes on after it, at k.
GoesOn(p, e, s, i, j, k) ==
    /\ j + 1 \in 1..End(s) /\ j < End(s) /\ s[j] \in Char
    /\ k \in (i + 1)..e /\ k \in (i + 1)..End(p)
    /\ \E a \in TermSets(p, i, k) : s[j] \in a
    /\ ChunkEnd(p, k) = e
    /\ MatchChunk(p, e, s)[i][j] = MatchChunk(p, e, s)[k][j + 1]

\* If it gets through a chunk it has done so at each term.
LEMMA ChunkGoesOn ==
    ASSUME NEW p \in Seq(Char), NEW e \in 1..End(p), NEW s \in Seq(Char),
           NEW i \in 1..e, ChunkEnd(p, i) = e, i # e, NEW j \in 1..End(s),
           MatchChunk(p, e, s)[i][j].ok
    PROVE  \E k : GoesOn(p, e, s, i, j, k)
<1>0. /\ End(p) \in Nat /\ End(p) = Len(p) + 1 /\ Len(p) \in Nat
      /\ End(s) \in Nat /\ End(s) = Len(s) + 1 /\ Len(s) \in Nat
  BY Ends
<1>1. i \in 1..(e - 1) /\ i \in 1..Len(p) /\ p[i] # "*"
  BY <1>0, ChunkBegins
<1> DEFINE t == MatchTerm(p, i, e, s[j])
<1>2. j # End(s) /\ ~t.err /\ t.match
  <2>1. j # End(s)
    BY ChunkStops DEF NoMatch
  <2> HIDE DEF t
  <2>2. /\ t.err => MatchChunk(p, e, s)[i][j] = BadChunk
        /\ ~t.err /\ ~t.match => MatchChunk(p, e, s)[i][j] = NoMatch
    BY <2>1, ChunkStep DEF t
  <2> QED
    BY <2>1, <2>2 DEF NoMatch, BadChunk
<1>3. j + 1 \in 1..End(s) /\ j < End(s) /\ s[j] \in Char
  BY <1>0, <1>2, Ends
<1>4. t.rest \in (i + 1)..e /\ TermSets(p, i, t.rest) # {}
  BY <1>1, <1>2, <1>3, TermFinds
<1>5. t.rest \in (i + 1)..End(p)
  <2>1. \A k \in (i + 1)..e : k \in (i + 1)..End(p)
    BY <1>0
  <2> QED
    BY <1>4, <2>1
<1>6. MatchChunk(p, e, s)[i][j] = MatchChunk(p, e, s)[t.rest][j + 1]
  BY <1>2, ChunkStep
<1> HIDE DEF t
<1>7. PICK a \in TermSets(p, i, t.rest) : TRUE
  BY <1>4
<1>8. ChunkEnd(p, t.rest) = e /\ s[j] \in a
  BY <1>1, <1>2, <1>3, <1>5, <1>7, TermReads DEF t
<1>9. GoesOn(p, e, s, i, j, t.rest)
  BY <1>3, <1>4, <1>5, <1>6, <1>7, <1>8 DEF GoesOn
<1> QED
  BY <1>9

\* And it goes on so after every term of the grammar, unless the name ends there
\* or has another character.
LEMMA ChunkFollows ==
    ASSUME NEW p \in Seq(Char), NEW e \in 1..End(p), NEW s \in Seq(Char),
           NEW i \in 1..e, ChunkEnd(p, i) = e, i # e, NEW j \in 1..End(s),
           NEW k \in (i + 1)..End(p), NEW a \in TermSets(p, i, k)
    PROVE  /\ k \in (i + 1)..e /\ ChunkEnd(p, k) = e
           /\ j = End(s) => MatchChunk(p, e, s)[i][j] = NoMatch
           /\ j < End(s) =>
                 /\ j + 1 \in 1..End(s)
                 /\ s[j] \in a => MatchChunk(p, e, s)[i][j] = MatchChunk(p, e, s)[k][j + 1]
                 /\ s[j] \notin a => MatchChunk(p, e, s)[i][j] = NoMatch
<1>0. /\ End(p) \in Nat /\ End(p) = Len(p) + 1 /\ Len(p) \in Nat
      /\ End(s) \in Nat /\ End(s) = Len(s) + 1 /\ Len(s) \in Nat
  BY Ends
<1>1. i \in 1..(e - 1) /\ i \in 1..Len(p)
  BY <1>0, ChunkBegins
<1>2. \A c \in Char : /\ k <= e /\ ChunkEnd(p, k) = e
                      /\ ~MatchTerm(p, i, e, c).err /\ MatchTerm(p, i, e, c).rest = k
                      /\ (MatchTerm(p, i, e, c).match <=> c \in a)
  BY <1>1, TermReads
<1>3. p[1] \in Char
  BY <1>1, Ends
<1>4. k \in (i + 1)..e /\ ChunkEnd(p, k) = e
  BY <1>0, <1>2, <1>3
<1>5. j = End(s) => MatchChunk(p, e, s)[i][j] = NoMatch
  BY ChunkStops
<1>6. ASSUME j < End(s)
      PROVE  /\ j + 1 \in 1..End(s)
             /\ s[j] \in a => MatchChunk(p, e, s)[i][j] = MatchChunk(p, e, s)[k][j + 1]
             /\ s[j] \notin a => MatchChunk(p, e, s)[i][j] = NoMatch
  <2>1. s[j] \in Char /\ j # End(s) /\ j + 1 \in 1..End(s)
    BY <1>0, <1>6, Ends
  <2> QED
    BY <1>2, <2>1, ChunkStep
<1> QED
  BY <1>4, <1>5, <1>6

\* matchChunk gets through a chunk to where the language of the rest goes on.
LEMMA ChunkMatches ==
    ASSUME NEW p \in Seq(Char), NEW e \in 1..End(p), NEW s \in Seq(Char)
    PROVE  \A i \in 1..e : ChunkEnd(p, i) = e =>
              \A j \in 1..End(s) : LET m == MatchChunk(p, e, s)[i][j] IN
                 /\ InLanguage(p, s)[i][j] => m.ok /\ InLanguage(p, s)[e][m.rest]
                 /\ m.ok => /\ m.rest \in j..End(s)
                            /\ InLanguage(p, s)[e][m.rest] => InLanguage(p, s)[i][j]
<1> DEFINE M == MatchChunk(p, e, s)
           L == InLanguage(p, s)
           Ok(i, j) == /\ L[i][j] => M[i][j].ok /\ L[e][M[i][j].rest]
                       /\ M[i][j].ok => /\ M[i][j].rest \in j..End(s)
                                        /\ L[e][M[i][j].rest] => L[i][j]
           G == {i \in 1..e : ChunkEnd(p, i) = e => \A j \in 1..End(s) : Ok(i, j)}
<1>0. /\ End(p) \in Nat /\ End(p) = Len(p) + 1 /\ Len(p) \in Nat /\ e \in Nat /\ e <= End(p)
      /\ End(s) \in Nat /\ End(s) = Len(s) + 1 /\ Len(s) \in Nat
  BY Ends
<1>1. ASSUME NEW i \in 1..e, \A k \in (i + 1)..e : k \in G PROVE i \in G
  <2> SUFFICES ASSUME ChunkEnd(p, i) = e, NEW j \in 1..End(s) PROVE Ok(i, j)
    OBVIOUS
  <2>1. CASE i = e
    <3>1. M[i][j].ok /\ M[i][j].rest = j
      BY <2>1, ChunkStops
    <3>2. j \in j..End(s)
      BY <1>0
    <3> QED
      BY <2>1, <3>1, <3>2
  <2>2. CASE i # e
    <3>0. i \in 1..End(p) /\ i # End(p) /\ p[i] # "*"
      BY <1>0, <2>2, ChunkBegins
    <3>1. ASSUME L[i][j] PROVE M[i][j].ok /\ L[e][M[i][j].rest]
      <4>1. j < End(s) /\ \E k \in (i + 1)..End(p) :
                             /\ \E a \in TermSets(p, i, k) : s[j] \in a
                             /\ L[k][j + 1]
        BY <3>0, <3>1, LanguageStep
      <4>2. PICK k \in (i + 1)..End(p) : /\ \E a \in TermSets(p, i, k) : s[j] \in a
                                         /\ L[k][j + 1]
        BY <4>1
      <4>3. /\ k \in (i + 1)..e /\ ChunkEnd(p, k) = e /\ j + 1 \in 1..End(s)
            /\ M[i][j] = M[k][j + 1]
        BY <2>2, <4>1, <4>2, ChunkFollows
      <4>4. Ok(k, j + 1)
        BY <1>1, <4>3
      <4> QED
        BY <4>2, <4>3, <4>4
    <3>2. ASSUME M[i][j].ok
          PROVE  M[i][j].rest \in j..End(s) /\ (L[e][M[i][j].rest] => L[i][j])
      <4>1. PICK k : GoesOn(p, e, s, i, j, k)
        BY <2>2, <3>2, ChunkGoesOn
      <4>2. /\ k \in (i + 1)..e /\ ChunkEnd(p, k) = e /\ M[i][j] = M[k][j + 1]
            /\ j + 1 \in 1..End(s)
        BY <4>1 DEF GoesOn
      <4>3. Ok(k, j + 1)
        BY <1>1, <4>2
      <4>4. M[k][j + 1].rest \in (j + 1)..End(s)
        BY <3>2, <4>2, <4>3
      <4>5. \A x \in (j + 1)..End(s) : x \in j..End(s)
        BY <1>0
      <4>6. L[k][j + 1] => L[i][j]
        BY <3>0, <4>1, LanguageStep DEF GoesOn
      <4> QED
        BY <3>2, <4>2, <4>3, <4>4, <4>5, <4>6
    <3> QED
      BY <3>1, <3>2
  <2> QED
    BY <2>1, <2>2
<1>2. \A i \in 1..e : i \in G
  <2> HIDE DEF G
  <2>1. \A i \in 1..e : (\A k \in (i + 1)..e : k \in G) => i \in G
    BY <1>1
  <2> QED
    BY <1>0, <2>1, Backwards
<1> QED
  BY <1>2

\* It finds no error in a chunk that is a sequence of terms.
LEMMA ChunkParses ==
    ASSUME NEW p \in Seq(Char), NEW e \in 1..End(p), NEW s \in Seq(Char)
    PROVE  \A i \in 1..e : ChunkEnd(p, i) = e =>
              /\ WellFormedFrom(p)[i] \/ (\E j \in 1..End(s) : InLanguage(p, s)[i][j]) =>
                    \A j \in 1..End(s) : ~MatchChunk(p, e, s)[i][j].err
              /\ WellFormedFrom(p)[i] => WellFormedFrom(p)[e]
<1> DEFINE M == MatchChunk(p, e, s)
           L == InLanguage(p, s)
           W == WellFormedFrom(p)
           Parses(i) == W[i] \/ \E j \in 1..End(s) : L[i][j]
           G == {i \in 1..e : ChunkEnd(p, i) = e =>
                    /\ Parses(i) => \A j \in 1..End(s) : ~M[i][j].err
                    /\ W[i] => W[e]}
<1>0. /\ End(p) \in Nat /\ End(p) = Len(p) + 1 /\ Len(p) \in Nat /\ e \in Nat /\ e <= End(p)
      /\ End(s) \in Nat /\ End(s) = Len(s) + 1 /\ Len(s) \in Nat
  BY Ends
<1>1. ASSUME NEW i \in 1..e, \A k \in (i + 1)..e : k \in G PROVE i \in G
  <2> SUFFICES ASSUME ChunkEnd(p, i) = e
               PROVE  /\ Parses(i) => \A j \in 1..End(s) : ~M[i][j].err
                      /\ W[i] => W[e]
    OBVIOUS
  <2>1. CASE i = e
    <3>1. \A j \in 1..End(s) : ~M[i][j].err
      BY <2>1, ChunkStops
    <3> QED
      BY <2>1, <3>1
  <2>2. CASE i # e
    <3>0. i \in 1..End(p) /\ i # End(p) /\ p[i] # "*"
      BY <1>0, <2>2, ChunkBegins
    <3>1. ASSUME NEW k \in (i + 1)..End(p), TermSets(p, i, k) # {}, Parses(k), NEW j \in 1..End(s)
          PROVE  ~M[i][j].err
      <4>1. PICK a \in TermSets(p, i, k) : TRUE
        BY <3>1
      <4>2. /\ k \in (i + 1)..e /\ ChunkEnd(p, k) = e
            /\ \/ M[i][j] = NoMatch
               \/ j + 1 \in 1..End(s) /\ M[i][j] = M[k][j + 1]
        BY <1>0, <2>2, <4>1, ChunkFollows
      <4>3. \A l \in 1..End(s) : ~M[k][l].err
        BY <1>1, <3>1, <4>2
      <4> QED
        BY <4>2, <4>3 DEF NoMatch
    <3>2. ASSUME W[i] PROVE W[e] /\ \A j \in 1..End(s) : ~M[i][j].err
      <4>1. PICK k \in (i + 1)..End(p) : TermSets(p, i, k) # {} /\ W[k]
        BY <3>0, <3>2, WellFormedStep
      <4>2. k \in (i + 1)..e /\ ChunkEnd(p, k) = e
        BY <1>0, <2>2, <4>1, ChunkFollows
      <4> QED
        BY <1>1, <3>1, <4>1, <4>2
    <3>3. ASSUME NEW l \in 1..End(s), L[i][l] PROVE \A j \in 1..End(s) : ~M[i][j].err
      <4>1. l + 1 \in 1..End(s) /\ \E k \in (i + 1)..End(p) :
                                      TermSets(p, i, k) # {} /\ L[k][l + 1]
        BY <1>0, <3>0, <3>3, LanguageStep
      <4> QED
        BY <3>1, <4>1
    <3> QED
      BY <3>2, <3>3
  <2> QED
    BY <2>1, <2>2
<1>2. \A i \in 1..e : i \in G
  <2> HIDE DEF G
  <2>1. \A i \in 1..e : (\A k \in (i + 1)..e : k \in G) => i \in G
    BY <1>1
  <2> QED
    BY <1>0, <2>1, Backwards
<1> QED
  BY <1>2

\* The further on it begins, the further on it ends.
LEMMA ChunkMoves ==
    ASSUME NEW p \in Seq(Char), NEW e \in 1..End(p), NEW s \in Seq(Char)
    PROVE  \A i \in 1..e : ChunkEnd(p, i) = e =>
              \A j, l \in 1..End(s) :
                 /\ j <= l /\ MatchChunk(p, e, s)[i][j].ok /\ MatchChunk(p, e, s)[i][l].ok
                 => MatchChunk(p, e, s)[i][j].rest <= MatchChunk(p, e, s)[i][l].rest
<1> DEFINE M == MatchChunk(p, e, s)
           Ok(i, j, l) == j <= l /\ M[i][j].ok /\ M[i][l].ok => M[i][j].rest <= M[i][l].rest
           G == {i \in 1..e : ChunkEnd(p, i) = e => \A j, l \in 1..End(s) : Ok(i, j, l)}
<1>0. /\ End(p) \in Nat /\ End(p) = Len(p) + 1 /\ Len(p) \in Nat /\ e \in Nat /\ e <= End(p)
      /\ End(s) \in Nat /\ End(s) = Len(s) + 1 /\ Len(s) \in Nat
  BY Ends
<1>1. ASSUME NEW i \in 1..e, \A k \in (i + 1)..e : k \in G PROVE i \in G
  <2> SUFFICES ASSUME ChunkEnd(p, i) = e, NEW j \in 1..End(s), NEW l \in 1..End(s),
                      j <= l, M[i][j].ok, M[i][l].ok
               PROVE  M[i][j].rest <= M[i][l].rest
    OBVIOUS
  <2>1. CASE i = e
    <3>1. M[i][j].rest = j /\ M[i][l].rest = l
      BY <2>1, ChunkStops
    <3> QED
      BY <3>1
  <2>2. CASE i # e
    <3>1. PICK k : GoesOn(p, e, s, i, j, k)
      BY <2>2, ChunkGoesOn
    <3>2. PICK k2 : GoesOn(p, e, s, i, l, k2)
      BY <2>2, ChunkGoesOn
    <3>3. i \in 1..Len(p) /\ j + 1 <= l + 1
      BY <1>0, <2>2
    <3>4. k = MatchTerm(p, i, e, s[j]).rest /\ k2 = MatchTerm(p, i, e, s[j]).rest
      BY <3>1, <3>2, <3>3, TermReads DEF GoesOn
    <3>5. Ok(k, j + 1, l + 1)
      BY <1>1, <3>1, <3>2 DEF GoesOn
    <3>6. M[i][j] = M[k][j + 1] /\ M[i][l] = M[k][l + 1]
      BY <3>1, <3>2, <3>4 DEF GoesOn
    <3> QED
      BY <3>3, <3>5, <3>6
  <2> QED
    BY <2>1, <2>2
<1>2. \A i \in 1..e : i \in G
  <2> HIDE DEF G
  <2>1. \A i \in 1..e : (\A k \in (i + 1)..e : k \in G) => i \in G
    BY <1>1
  <2> QED
    BY <1>0, <2>1, Backwards
<1> QED
  BY <1>2

-----------------------------------------------------------------------------
(* Stars *)

\* Where the stars end that the pattern has at i.
LEMMA AfterStarsIs ==
    ASSUME NEW p \in Seq(Char), NEW i \in 1..End(p)
    PROVE  /\ AfterStars(p, i) \in i..End(p)
           /\ \A k \in i..(AfterStars(p, i) - 1) : p[k] = "*"
           /\ AfterStars(p, i) # End(p) => p[AfterStars(p, i)] # "*"
<1>0. End(p) \in Nat /\ End(p) = Len(p) + 1 /\ Len(p) \in Nat
  BY Ends
<1> DEFINE T == {b \in i..End(p) : b <= Len(p) => p[b] # "*"}
           Is(b) == /\ \A k \in i..(b - 1) : p[k] = "*"
                    /\ b <= Len(p) => p[b] # "*"
<1>1. T \subseteq Nat /\ End(p) \in T
  BY <1>0
<1>2. PICK b \in T : \A c \in T : b <= c
  <2> HIDE DEF T
  <2> QED
    BY <1>1, Least
<1>3. ASSUME NEW k \in i..(b - 1) PROVE p[k] = "*"
  <2>1. k \in i..End(p) /\ ~(b <= k)
    BY <1>0, <1>2
  <2> QED
    BY <1>2, <2>1
<1>4. b \in i..End(p) /\ Is(b)
  BY <1>2, <1>3
<1>5. AfterStars(p, i) = CHOOSE c \in i..End(p) : Is(c)
  BY DEF AfterStars
<1>6. AfterStars(p, i) \in i..End(p) /\ Is(AfterStars(p, i))
  <2> HIDE DEF Is
  <2> QED
    BY <1>4, <1>5
<1> QED
  BY <1>0, <1>6

\* The chunk after the stars, if there is one: only stars may precede the end.
LEMMA ChunkAfterStars ==
    ASSUME NEW p \in Seq(Char), NEW i \in 1..Len(p), NEW b, b = AfterStars(p, i)
    PROVE  /\ b \in i..End(p) /\ b \in 1..End(p)
           /\ ChunkEnd(p, b) \in b..End(p) /\ ChunkEnd(p, b) \in 1..End(p)
           /\ b \in 1..ChunkEnd(p, b)
           /\ ChunkEnd(p, b) < End(p) => p[ChunkEnd(p, b)] = "*"
           /\ p[i] # "*" => b = i
           /\ b = ChunkEnd(p, b) => p[i] = "*" /\ b = End(p)
           /\ b # ChunkEnd(p, b) => ChunkEnd(p, b) \in (i + 1)..End(p)
<1>0. End(p) \in Nat /\ End(p) = Len(p) + 1 /\ Len(p) \in Nat /\ i \in 1..End(p) /\ i # End(p)
  BY Ends
<1>1. b \in i..End(p) /\ (b # End(p) => p[b] # "*") /\ \A k \in i..(b - 1) : p[k] = "*"
  BY <1>0, AfterStarsIs
<1>2. b \in 1..End(p)
  BY <1>0, <1>1
<1>3. p[i] # "*" => b = i
  BY <1>0, <1>1, <1>2
<1>4. b = ChunkEnd(p, b) => b = End(p)
  BY <1>1, <1>2, ChunkBegins
<1>5. /\ ChunkEnd(p, b) \in b..End(p)
      /\ ChunkEnd(p, b) < End(p) => p[ChunkEnd(p, b)] = "*"
  BY <1>2, ChunkEndAhead
<1>6. ASSUME NEW e \in b..End(p)
      PROVE  e \in 1..End(p) /\ b \in 1..e /\ (b # e => e \in (i + 1)..End(p))
  BY <1>0, <1>1, <1>2
<1> QED
  BY <1>0, <1>1, <1>2, <1>3, <1>4, <1>5, <1>6

\* A star is no other term.
LEMMA StarStep ==
    ASSUME NEW p \in Seq(Char), NEW s \in Seq(Char), NEW i \in 1..Len(p), p[i] = "*"
    PROVE  /\ WellFormedFrom(p)[i] <=> WellFormedFrom(p)[i + 1]
           /\ \A j \in 1..End(s) :
                 InLanguage(p, s)[i][j] <=> \E k \in j..End(s) : InLanguage(p, s)[i + 1][k]
<1>0. /\ End(p) \in Nat /\ End(p) = Len(p) + 1 /\ Len(p) \in Nat
      /\ i \in 1..End(p) /\ i # End(p) /\ i < End(p) /\ i + 1 \in (i + 1)..End(p)
  BY Ends
<1>1. \A k : TermSets(p, i, k) = {}
  BY DEF TermSets
<1>2. WellFormedFrom(p)[i] <=> WellFormedFrom(p)[i + 1]
  BY <1>0, <1>1, WellFormedStep
<1>3. ASSUME NEW j \in 1..End(s)
      PROVE  InLanguage(p, s)[i][j] <=> \E k \in j..End(s) : InLanguage(p, s)[i + 1][k]
  BY <1>0, <1>1, LanguageStep
<1> QED
  BY <1>2, <1>3

\* So do the stars before a chunk: any part of the name, and nothing else.
LEMMA StarRun ==
    ASSUME NEW p \in Seq(Char), NEW s \in Seq(Char), NEW i \in 1..Len(p),
           NEW b, b = AfterStars(p, i)
    PROVE  /\ WellFormedFrom(p)[i] <=> WellFormedFrom(p)[b]
           /\ \A j \in 1..End(s) :
                 InLanguage(p, s)[i][j] <=>
                    \E k \in j..(IF p[i] = "*" THEN End(s) ELSE j) : InLanguage(p, s)[b][k]
<1> DEFINE W == WellFormedFrom(p)
           L == InLanguage(p, s)
           Ok(k) == /\ W[k] <=> W[b]
                    /\ \A j \in 1..End(s) : L[k][j] <=> \E x \in j..End(s) : L[b][x]
           G == {k \in 1..b : k >= i /\ k < b => Ok(k)}
<1>0. /\ End(p) \in Nat /\ End(p) = Len(p) + 1 /\ Len(p) \in Nat
      /\ End(s) \in Nat /\ i \in 1..End(p)
  BY Ends
<1>1. b \in i..End(p) /\ (b # End(p) => p[b] # "*") /\ \A k \in i..(b - 1) : p[k] = "*"
  BY <1>0, AfterStarsIs
<1>2. b \in Nat /\ i \in 1..b
  BY <1>0, <1>1
<1>3. ASSUME NEW k \in 1..b, \A l \in (k + 1)..b : l \in G PROVE k \in G
  <2> SUFFICES ASSUME k >= i, k < b PROVE Ok(k)
    OBVIOUS
  <2>1. k \in 1..Len(p) /\ p[k] = "*" /\ k + 1 \in (k + 1)..b
    BY <1>0, <1>1, <1>2
  <2>2. /\ W[k] <=> W[k + 1]
        /\ \A j \in 1..End(s) : L[k][j] <=> \E x \in j..End(s) : L[k + 1][x]
    BY <2>1, StarStep
  <2>3. CASE k + 1 = b
    BY <2>2, <2>3
  <2>4. CASE k + 1 # b
    <3>1. Ok(k + 1)
      BY <1>2, <1>3, <2>1, <2>4
    <3>2. ASSUME NEW j \in 1..End(s) PROVE L[k][j] <=> \E x \in j..End(s) : L[b][x]
      <4>1. \A y \in j..End(s) : /\ y \in 1..End(s) /\ y \in y..End(s)
                                 /\ \A x \in y..End(s) : x \in j..End(s)
        BY <1>0
      <4> QED
        BY <2>2, <3>1, <4>1
    <3> QED
      BY <2>2, <3>1, <3>2
  <2> QED
    BY <2>3, <2>4
<1>4. \A k \in 1..b : k \in G
  <2> HIDE DEF G
  <2>1. \A k \in 1..b : (\A l \in (k + 1)..b : l \in G) => k \in G
    BY <1>3
  <2> QED
    BY <1>2, <2>1, Backwards
<1>5. CASE i < b
  <2>1. Ok(i) /\ p[i] = "*"
    BY <1>1, <1>2, <1>4, <1>5
  <2> QED
    BY <2>1
<1>6. CASE i = b
  <2>1. p[i] # "*"
    BY <1>0, <1>1, <1>6
  <2>2. \A j \in 1..End(s) : j..j = {j}
    OBVIOUS
  <2> QED
    BY <1>6, <2>1, <2>2
<1> QED
  BY <1>2, <1>5, <1>6

\* The language of a pattern that goes on with a star has, with a part of the
\* name, every longer one.
LEMMA StarTakesMore ==
    ASSUME NEW p \in Seq(Char), NEW s \in Seq(Char), NEW i \in 1..Len(p), p[i] = "*",
           NEW j \in 1..End(s), NEW k \in j..End(s), InLanguage(p, s)[i][k]
    PROVE  InLanguage(p, s)[i][j]
<1>1. End(s) \in Nat /\ k \in 1..End(s) /\ \A x \in k..End(s) : x \in j..End(s)
  BY Ends
<1> QED
  BY <1>1, StarStep

-----------------------------------------------------------------------------
(* fnMatch *)

\* The search stops at the first of the positions at which it may.
LEMMA StopsAhead ==
    ASSUME NEW p \in Seq(Char), NEW s \in Seq(Char), NEW i \in 1..Len(p), NEW j \in 1..End(s),
           Stops(p, s, i, j) # {}
    PROVE  /\ FirstStop(Stops(p, s, i, j)) \in Stops(p, s, i, j)
           /\ \A k \in Stops(p, s, i, j) : k \in j..End(s) /\ FirstStop(Stops(p, s, i, j)) <= k
<1>1. Stops(p, s, i, j) \subseteq j..(IF p[i] = "*" THEN End(s) ELSE j)
  BY DEF Stops
<1>2. \A k \in j..(IF p[i] = "*" THEN End(s) ELSE j) : k \in j..End(s) /\ k \in Nat
  BY Ends
<1>3. Stops(p, s, i, j) \subseteq Nat
  BY <1>1, <1>2
<1>4. \E k \in Stops(p, s, i, j) : \A l \in Stops(p, s, i, j) : k <= l
  BY <1>3, Least
<1>5. /\ FirstStop(Stops(p, s, i, j)) \in Stops(p, s, i, j)
      /\ \A l \in Stops(p, s, i, j) : FirstStop(Stops(p, s, i, j)) <= l
  BY <1>4 DEF FirstStop
<1> QED
  BY <1>1, <1>2, <1>5

\* Where the loop goes on is ahead, in the pattern and in the name.
LEMMA StopGoesOn ==
    ASSUME NEW p \in Seq(Char), NEW s \in Seq(Char), NEW i \in 1..Len(p), NEW j \in 1..End(s),
           NEW b, b = AfterStars(p, i), NEW e, e = ChunkEnd(p, b), b # e,
           NEW k \in Stops(p, s, i, j)
    PROVE  LET m == MatchChunk(p, e, s)[b][k] IN
           /\ k \in 1..End(s)
           /\ ~m.err => /\ Fits(m, p, e, s) /\ m.ok /\ m.rest \in k..End(s) /\ m.rest \in 1..End(s)
<1>1. k \in 1..End(s) /\ k \in Nat /\ End(s) \in Nat
  BY StopsAhead, Ends
<1>2. /\ e \in 1..End(p) /\ b \in 1..e
  BY ChunkAfterStars
<1> DEFINE m == MatchChunk(p, e, s)[b][k]
<1>3. m.err \/ Fits(m, p, e, s)
  BY DEF Stops, EndsSearch
<1>4. m.ok => m.rest \in k..End(s)
  BY <1>1, <1>2, ChunkMatches
<1>5. Fits(m, p, e, s) => m.ok
  BY DEF Fits
<1>6. \A x \in k..End(s) : x \in 1..End(s)
  BY <1>1
<1> HIDE DEF m
<1> QED
  BY <1>1, <1>3, <1>4, <1>5, <1>6 DEF m

\* What fnMatch may answer.
Answers == {"match", "no", "bad"}

\* The loop of fnMatch always ends, with one of its three answers.
LEMMA FnMatchDef ==
    ASSUME NEW p \in Seq(Char), NEW s \in Seq(Char)
    PROVE  /\ FnMatchFrom(p, s) \in [1..End(p) -> [1..End(s) -> Answers]]
           /\ FnMatchFrom(p, s) =
                 [i \in 1..End(p) |-> FnMatchRound(p, s, FnMatchFrom(p, s), i)]
<1> DEFINE n == End(p)
           T == [1..End(s) -> Answers]
           F == [1..n -> T]
           Round(f) == [i \in 1..n |-> FnMatchRound(p, s, f, i)]
           Eq(f) == f = Round(f)
           D == [f \in F |-> Round(f)]
           Stop(i, j) == FirstStop(Stops(p, s, i, j))
           Chunk(i, j) == MatchChunk(p, ChunkEnd(p, AfterStars(p, i)), s)[AfterStars(p, i)][Stop(i, j)]
           Again(i, j) == /\ i # End(p) /\ ~(p[i] = "*" /\ AfterStars(p, i) = ChunkEnd(p, AfterStars(p, i)))
                           /\ Stops(p, s, i, j) # {} /\ ~Chunk(i, j).err
<1>0. End(s) \in Nat /\ End(p) = Len(p) + 1 /\ Len(p) \in Nat
  BY Ends
<1>1. n \in Nat /\ [j \in 1..End(s) |-> "no"] \in T
  BY <1>0 DEF Answers
<1>2. ASSUME NEW i \in 1..n, NEW j \in 1..End(s), Again(i, j)
      PROVE  ChunkEnd(p, AfterStars(p, i)) \in (i + 1)..n /\ Chunk(i, j).rest \in 1..End(s)
  <2>1. i \in 1..Len(p)
    BY <1>0, <1>2
  <2>2. AfterStars(p, i) # ChunkEnd(p, AfterStars(p, i))
    BY <1>2, <2>1, ChunkAfterStars
  <2>3. ChunkEnd(p, AfterStars(p, i)) \in (i + 1)..n
    BY <2>1, <2>2, ChunkAfterStars
  <2>4. Stop(i, j) \in Stops(p, s, i, j)
    BY <1>2, <2>1, StopsAhead
  <2>5. Chunk(i, j).rest \in 1..End(s)
    BY <1>2, <2>1, <2>2, <2>4, StopGoesOn
  <2> QED
    BY <2>3, <2>5
<1>3. ASSUME NEW f, NEW i \in 1..n, NEW j \in 1..End(s)
      PROVE  /\ Again(i, j) => FnMatchRound(p, s, f, i)[j] =
                                   f[ChunkEnd(p, AfterStars(p, i))][Chunk(i, j).rest]
             /\ ~Again(i, j) => FnMatchRound(p, s, f, i)[j] \in Answers
  BY DEF FnMatchRound, AfterChunk, Answers
<1>4. ASSUME NEW f, NEW i \in 1..n
      PROVE  FnMatchRound(p, s, f, i) = [j \in 1..End(s) |-> FnMatchRound(p, s, f, i)[j]]
  BY DEF FnMatchRound, AfterChunk
<1>5. ASSUME NEW f, NEW i \in 1..n, \A k \in (i + 1)..n : f[k] \in T
      PROVE  FnMatchRound(p, s, f, i) \in T
  <2>1. ASSUME NEW j \in 1..End(s) PROVE FnMatchRound(p, s, f, i)[j] \in Answers
    <3> HIDE DEF Again, Chunk
    <3>1. CASE Again(i, j)
      <4>1. f[ChunkEnd(p, AfterStars(p, i))][Chunk(i, j).rest] \in Answers
        BY <1>2, <1>5, <3>1
      <4> QED
        BY <1>3, <3>1, <4>1
    <3> QED
      BY <1>3, <3>1
  <2> QED
    BY <1>4, <2>1
<1>6. ASSUME NEW g, NEW h, NEW i \in 1..n, \A k \in (i + 1)..n : g[k] = h[k]
      PROVE  FnMatchRound(p, s, g, i) = FnMatchRound(p, s, h, i)
  <2>1. ASSUME NEW j \in 1..End(s), Again(i, j)
        PROVE  g[ChunkEnd(p, AfterStars(p, i))] = h[ChunkEnd(p, AfterStars(p, i))]
    BY <1>2, <1>6, <2>1
  <2> QED
    BY <2>1 DEF FnMatchRound, AfterChunk
<1> HIDE DEF Again, Chunk, Stop
<1>7. IsRound(n, T, D)
  <2>1. ASSUME NEW f \in F PROVE Round(f) \in F
    <3> HIDE DEF T
    <3> QED
      BY <1>1, <1>5
  <2> QED
    BY <1>6, <2>1 DEF IsRound
<1>8. \E f : Eq(f)
  <2>1. HasFixedPoint(n, T, D)
    <3> HIDE DEF D, n, T
    <3> QED
      BY <1>1, <1>7, Recursion
  <2> QED
    BY <2>1 DEF HasFixedPoint
<1>9. Eq(FnMatchFrom(p, s))
  <2>1. FnMatchFrom(p, s) = CHOOSE f : Eq(f)
    BY DEF FnMatchFrom
  <2> HIDE DEF Eq
  <2> QED
    BY <1>8, <2>1
<1>10. \A i \in 1..n : FnMatchFrom(p, s)[i] \in T
  <2> HIDE DEF T
  <2> DEFINE G == {i \in 1..n : FnMatchFrom(p, s)[i] \in T}
  <2>1. ASSUME NEW i \in 1..n, \A k \in (i + 1)..n : k \in G PROVE i \in G
    BY <1>5, <1>9, <2>1
  <2>2. \A i \in 1..n : i \in G
    <3> HIDE DEF G
    <3>1. \A i \in 1..n : (\A k \in (i + 1)..n : k \in G) => i \in G
      BY <2>1
    <3> QED
      BY <1>1, <3>1, Backwards
  <2> QED
    BY <2>2
<1> QED
  BY <1>9, <1>10

\* A round of fnMatch.
LEMMA FnMatchStep ==
    ASSUME NEW p \in Seq(Char), NEW s \in Seq(Char), NEW i \in 1..End(p), NEW j \in 1..End(s),
           NEW b, b = AfterStars(p, i), NEW e, e = ChunkEnd(p, b),
           NEW stops, stops = Stops(p, s, i, j),
           NEW m, m = MatchChunk(p, e, s)[b][FirstStop(stops)]
    PROVE  FnMatchFrom(p, s)[i][j] =
              IF i = End(p) THEN IF j = End(s) THEN "match" ELSE "no"
              ELSE IF p[i] = "*" /\ b = e THEN "match"
              ELSE IF stops = {} THEN "no"
              ELSE IF m.err THEN "bad" ELSE FnMatchFrom(p, s)[e][m.rest]
<1>1. FnMatchFrom(p, s)[i] = FnMatchRound(p, s, FnMatchFrom(p, s), i)
  BY FnMatchDef
<1> QED
  BY <1>1 DEF FnMatchRound, AfterChunk

\* fnMatch finds the names that are in the language, and no error in a pattern
\* that is well-formed.
LEMMA FnMatchDecides ==
    ASSUME NEW p \in Seq(Char), NEW s \in Seq(Char)
    PROVE  \A i \in 1..End(p), j \in 1..End(s) :
              /\ FnMatchFrom(p, s)[i][j] = "match" <=> InLanguage(p, s)[i][j]
              /\ FnMatchFrom(p, s)[i][j] = "bad" => ~WellFormedFrom(p)[i]
<1> DEFINE fn == FnMatchFrom(p, s)
           L == InLanguage(p, s)
           W == WellFormedFrom(p)
           Ok(i, j) == /\ fn[i][j] = "match" <=> L[i][j]
                       /\ fn[i][j] = "bad" => ~W[i]
           G == {i \in 1..End(p) : \A j \in 1..End(s) : Ok(i, j)}
<1>0. /\ End(p) \in Nat /\ End(p) = Len(p) + 1 /\ Len(p) \in Nat
      /\ End(s) \in Nat /\ End(s) = Len(s) + 1 /\ Len(s) \in Nat
      /\ End(p) \in 1..End(p) /\ End(s) \in 1..End(s)
  BY Ends
<1>1. ASSUME NEW j \in 1..End(s) PROVE L[End(p)][j] <=> j = End(s)
  <2>1. (End(p) + 1)..End(p) = {}
    BY <1>0
  <2> QED
    BY <1>0, <2>1, LanguageStep
<1>2. ASSUME NEW i \in 1..End(p), \A k \in (i + 1)..End(p) : k \in G PROVE i \in G
  <2> SUFFICES ASSUME NEW j \in 1..End(s) PROVE Ok(i, j)
    OBVIOUS
  <2>1. CASE i = End(p)
    <3>1. fn[i][j] = IF j = End(s) THEN "match" ELSE "no"
      BY <2>1, FnMatchStep
    <3> QED
      BY <1>1, <2>1, <3>1
  <2>2. CASE i # End(p)
    <3> DEFINE to == IF p[i] = "*" THEN End(s) ELSE j
    <3>1. PICK b : b = AfterStars(p, i)
      OBVIOUS
    <3>2. PICK e : e = ChunkEnd(p, b)
      OBVIOUS
    <3>3. PICK stops : stops = Stops(p, s, i, j)
      OBVIOUS
    <3>4. PICK m : m = MatchChunk(p, e, s)[b][FirstStop(stops)]
      OBVIOUS
    <3>5. i \in 1..Len(p)
      BY <1>0, <2>2
    <3>6. /\ W[i] <=> W[b]
          /\ L[i][j] <=> \E k \in j..to : L[b][k]
      BY <3>1, <3>5, StarRun
    <3>7. /\ b \in 1..End(p) /\ e \in 1..End(p) /\ b \in 1..e /\ (e < End(p) => p[e] = "*")
          /\ b = e => p[i] = "*" /\ b = End(p)
          /\ b # e => e \in (i + 1)..End(p)
      BY <3>1, <3>2, <3>5, ChunkAfterStars
    <3>8. fn[i][j] = IF p[i] = "*" /\ b = e THEN "match"
                     ELSE IF stops = {} THEN "no"
                     ELSE IF m.err THEN "bad" ELSE fn[e][m.rest]
      BY <2>2, <3>1, <3>2, <3>3, <3>4, FnMatchStep
    <3>9. CASE p[i] = "*" /\ b = e
      <4>1. fn[i][j] = "match"
        BY <3>9, <3>8
      <4>2. L[b][End(s)] /\ End(s) \in j..to
        BY <1>0, <1>1, <3>7, <3>9
      <4> QED
        BY <3>6, <4>1, <4>2
    <3>10. CASE ~(p[i] = "*" /\ b = e)
      <4>1. b # e /\ e \in (i + 1)..End(p)
        BY <3>7, <3>10
      <4>2. fn[i][j] = IF stops = {} THEN "no" ELSE IF m.err THEN "bad" ELSE fn[e][m.rest]
        BY <3>10, <3>8
      <4>3. \A k \in j..to : k \in 1..End(s)
        BY <1>0
      <4>4. ASSUME NEW k \in j..to, L[b][k]
            PROVE  /\ k \in stops
                   /\ MatchChunk(p, e, s)[b][k].ok /\ L[e][MatchChunk(p, e, s)[b][k].rest]
        <5>1. /\ MatchChunk(p, e, s)[b][k].ok /\ L[e][MatchChunk(p, e, s)[b][k].rest]
              /\ MatchChunk(p, e, s)[b][k].rest \in k..End(s)
          BY <3>2, <3>7, <4>3, <4>4, ChunkMatches
        <5>2. MatchChunk(p, e, s)[b][k].rest \in 1..End(s)
          BY <1>0, <4>3, <5>1
        <5>3. Fits(MatchChunk(p, e, s)[b][k], p, e, s)
          BY <1>1, <5>1, <5>2 DEF Fits
        <5> QED
          BY <3>1, <3>2, <3>3, <5>1, <5>3 DEF Stops, EndsSearch
      <4>5. CASE stops = {}
        BY <3>6, <4>2, <4>4, <4>5
      <4>6. CASE stops # {}
        <5> DEFINE stop == FirstStop(stops)
        <5>1. /\ stop \in stops /\ stop \in j..to /\ stop \in 1..End(s)
              /\ \A k \in stops : stop <= k
          <6>1. stop \in stops /\ \A k \in stops : stop <= k
            BY <3>3, <3>5, <4>6, StopsAhead
          <6>2. stops \subseteq j..to
            BY <3>3 DEF Stops, EndsSearch
          <6> QED
            BY <4>3, <6>1, <6>2
        <5> HIDE DEF stop
        <5>2. m = MatchChunk(p, e, s)[b][stop]
          BY <3>4 DEF stop
        <5>3. /\ W[b] \/ (\E k \in 1..End(s) : L[b][k]) => ~m.err
              /\ W[b] => W[e]
          BY <3>2, <3>7, <5>1, <5>2, ChunkParses
        <5>4. CASE m.err
          <6>1. ~W[b] /\ ~\E k \in 1..End(s) : L[b][k]
            BY <5>3, <5>4
          <6> QED
            BY <3>6, <4>2, <4>3, <4>6, <5>4, <6>1
        <5>5. CASE ~m.err
          <6>1. Fits(m, p, e, s) /\ m.ok /\ m.rest \in stop..End(s) /\ m.rest \in 1..End(s)
            BY <3>1, <3>2, <3>3, <3>5, <4>1, <5>1, <5>2, <5>5, StopGoesOn
          <6>2. fn[i][j] = fn[e][m.rest]
            BY <4>2, <4>6, <5>5
          <6>3. Ok(e, m.rest)
            BY <1>2, <4>1, <6>1
          <6>4. L[e][m.rest] => L[i][j]
            <7>1. L[e][m.rest] => L[b][stop]
              BY <3>2, <3>7, <5>1, <5>2, <6>1, ChunkMatches
            <7> QED
              BY <3>6, <5>1, <7>1
          <6>5. ASSUME L[i][j] PROVE L[e][m.rest]
            <7>1. PICK k \in j..to : L[b][k]
              BY <3>6, <6>5
            <7>2. PICK r : r = MatchChunk(p, e, s)[b][k].rest
              OBVIOUS
            <7>3. /\ k \in stops /\ k \in 1..End(s) /\ stop <= k
                  /\ MatchChunk(p, e, s)[b][k].ok /\ L[e][r]
              BY <4>3, <4>4, <5>1, <7>1, <7>2
            <7>4. m.rest <= r
              BY <3>2, <3>7, <5>1, <5>2, <6>1, <7>2, <7>3, ChunkMoves
            <7>5. r \in k..End(s)
              BY <3>2, <3>7, <7>2, <7>3, ChunkMatches
            <7>6. CASE e = End(p)
              <8>1. m.rest = End(s)
                BY <6>1, <7>6 DEF Fits
              <8> QED
                BY <1>0, <1>1, <7>6, <8>1
            <7>7. CASE e # End(p)
              <8>1. e \in 1..Len(p) /\ p[e] = "*" /\ r \in m.rest..End(s)
                BY <1>0, <3>7, <6>1, <7>3, <7>4, <7>5, <7>7
              <8> QED
                BY <6>1, <7>3, <8>1, StarTakesMore
            <7> QED
              BY <7>6, <7>7
          <6> QED
            BY <3>6, <5>3, <6>2, <6>3, <6>4, <6>5
        <5> QED
          BY <5>4, <5>5
      <4> QED
        BY <4>5, <4>6
    <3> QED
      BY <3>9, <3>10
  <2> QED
    BY <2>1, <2>2
<1>3. \A i \in 1..End(p) : i \in G
  <2> HIDE DEF G
  <2>1. \A i \in 1..End(p) : (\A k \in (i + 1)..End(p) : k \in G) => i \in G
    BY <1>2
  <2> QED
    BY <1>0, <2>1, Backwards
<1> QED
  BY <1>3

\* For every pattern and every name, fnMatch decides the language that its comment
\* defines: it matches exactly the names in it, and it returns an error only for
\* a pattern that is malformed.
THEOREM FnMatchIsGlob ==
    ASSUME NEW p \in Seq(Char), NEW s \in Seq(Char)
    PROVE  /\ FnMatch(p, s) \in Answers
           /\ FnMatch(p, s) = "match" <=> Listed(s, p)
           /\ FnMatch(p, s) = "bad" => ~WellFormed(p)
<1>1. 1 \in 1..End(p) /\ 1 \in 1..End(s)
  BY Ends
<1>2. FnMatchFrom(p, s)[1][1] \in Answers
  <2>1. FnMatchFrom(p, s)[1] \in [1..End(s) -> Answers]
    BY <1>1, FnMatchDef
  <2> QED
    BY <1>1, <2>1
<1>3. /\ FnMatchFrom(p, s)[1][1] = "match" <=> InLanguage(p, s)[1][1]
      /\ FnMatchFrom(p, s)[1][1] = "bad" => ~WellFormedFrom(p)[1]
  BY <1>1, FnMatchDecides
<1> QED
  BY <1>2, <1>3 DEF FnMatch, Listed, WellFormed

-----------------------------------------------------------------------------
(* newMatcher and Match *)

\* A name of the language begins with what the pattern has before its first
\* meta-character.
LEMMA PlainPrefixMatches ==
    ASSUME NEW p \in Seq(Char), NEW s \in Seq(Char), Listed(s, p)
    PROVE  IsPrefix(PlainPrefix(p), s)
<1> DEFINE Plain(i) == p[i] \notin {"*", "[", "?", "\\"}
           ends == {n \in 0..Len(p) : \A i \in 1..n : Plain(i)}
           n == CHOOSE n \in ends : \A m \in ends : m <= n
           L == InLanguage(p, s)
<1>0. /\ End(p) \in Nat /\ End(p) = Len(p) + 1 /\ Len(p) \in Nat
      /\ End(s) \in Nat /\ End(s) = Len(s) + 1 /\ Len(s) \in Nat
  BY Ends
<1>1. n \in ends
  <2> DEFINE T == {x \in 0..Len(p) : Len(p) - x \in ends}
  <2>1. T \subseteq Nat /\ Len(p) \in T
    <3>1. 0 \in ends /\ Len(p) - Len(p) = 0 /\ Len(p) \in 0..Len(p)
      BY <1>0
    <3> HIDE DEF ends
    <3> QED
      BY <1>0, <3>1
  <2>2. PICK x \in T : \A y \in T : x <= y
    <3> HIDE DEF T
    <3> QED
      BY <2>1, Least
  <2>3. \A m \in ends : Len(p) - m \in 0..Len(p) /\ Len(p) - (Len(p) - m) = m
    BY <1>0
  <2>4. Len(p) - x \in ends /\ x \in 0..Len(p)
    BY <2>2
  <2>5. ASSUME NEW m \in ends PROVE m <= Len(p) - x
    <3>1. Len(p) - m \in T
      BY <2>3, <2>5
    <3>2. x <= Len(p) - m /\ m \in 0..Len(p)
      BY <2>2, <3>1
    <3> QED
      BY <1>0, <2>4, <3>2
  <2> HIDE DEF ends
  <2> QED
    BY <2>4, <2>5
<1> HIDE DEF n
<1>2. n \in 0..Len(p) /\ \A i \in 1..n : Plain(i)
  BY <1>1
<1>3. ASSUME NEW i \in 1..n, NEW j \in 1..End(s), L[i][j]
      PROVE  j \in 1..Len(s) /\ s[j] = p[i] /\ L[i + 1][j + 1]
  <2>1. i \in 1..End(p) /\ i # End(p) /\ Plain(i)
    BY <1>0, <1>2
  <2>2. j < End(s) /\ \E k \in (i + 1)..End(p) :
                         /\ \E a \in TermSets(p, i, k) : s[j] \in a
                         /\ L[k][j + 1]
    BY <1>3, <2>1, LanguageStep
  <2>3. \A k : TermSets(p, i, k) # {} => k = i + 1 /\ TermSets(p, i, k) = {{p[i]}}
    BY <2>1 DEF TermSets
  <2> QED
    BY <1>0, <2>2, <2>3
<1> DEFINE Bad == {i \in 1..(n + 1) : ~(i \in 1..End(s) /\ L[i][i])}
<1>4. Bad = {}
  <2> SUFFICES ASSUME Bad # {} PROVE FALSE
    OBVIOUS
  <2>1. Bad \subseteq Nat
    BY <1>2
  <2>2. PICK i \in Bad : \A k \in Bad : i <= k
    <3> HIDE DEF Bad
    <3> QED
      BY <2>1, Least
  <2>3. i # 1
    BY <1>0 DEF Listed
  <2>4. i - 1 \in 1..n /\ i - 1 + 1 = i
    BY <1>2, <2>2, <2>3
  <2>5. i - 1 \in 1..(n + 1) /\ ~(i <= i - 1)
    BY <1>2, <2>4
  <2>6. i - 1 \in 1..End(s) /\ L[i - 1][i - 1]
    BY <2>2, <2>5
  <2>7. i - 1 \in 1..Len(s) /\ L[i][i]
    BY <1>3, <2>4, <2>6
  <2>8. i \in 1..End(s)
    BY <1>0, <2>4, <2>7
  <2> QED
    BY <2>2, <2>7, <2>8
<1>5. ASSUME NEW i \in 1..n PROVE i \in 1..Len(s) /\ s[i] = p[i]
  <2>1. i \in 1..End(s) /\ L[i][i]
    BY <1>2, <1>4
  <2> QED
    BY <1>3, <2>1
<1>6. n <= Len(s)
  BY <1>0, <1>2, <1>5
<1>7. PlainPrefix(p) = SubSeq(p, 1, n)
  BY DEF PlainPrefix, n
<1>8. Len(SubSeq(p, 1, n)) = n /\ SubSeq(SubSeq(p, 1, n), 1, n) = SubSeq(s, 1, n)
  BY <1>0, <1>2, <1>5, <1>6
<1> QED
  BY <1>6, <1>7, <1>8 DEF IsPrefix

\* Match finds a path exactly if one of the entries does, unless it meets an
\* entry that is malformed.
LEMMA MatchDecides ==
    ASSUME config.entries \in Seq(Seq(Char)), NEW path \in Seq(Char), Match(path) # "bad"
    PROVE  Match(path) = "match" <=> Blacklisted(path)
<1> DEFINE entries == config.entries
           Verdict(k) == IF IsPrefix(PlainPrefix(entries[k]), path)
                         THEN FnMatch(entries[k], path) ELSE "no"
           decided == {k \in DOMAIN entries : Verdict(k) # "no"}
           first == CHOOSE k \in decided : \A j \in decided : k <= j
<1>1. DOMAIN entries = 1..Len(entries) /\ Len(entries) \in Nat
      /\ \A k \in DOMAIN entries : entries[k] \in Seq(Char)
  OBVIOUS
<1>2. ASSUME NEW k \in DOMAIN entries
      PROVE  Verdict(k) \in Answers /\ (Verdict(k) = "match" <=> Listed(path, entries[k]))
  <2>1. entries[k] \in Seq(Char)
    BY <1>1
  <2>2. Listed(path, entries[k]) => IsPrefix(PlainPrefix(entries[k]), path)
    BY <2>1, PlainPrefixMatches
  <2>3. /\ FnMatch(entries[k], path) \in Answers
        /\ FnMatch(entries[k], path) = "match" <=> Listed(path, entries[k])
    BY <2>1, FnMatchIsGlob
  <2> QED
    BY <2>2, <2>3 DEF Answers
<1>3. Blacklisted(path) <=> \E k \in DOMAIN entries : Listed(path, entries[k])
  BY DEF Blacklisted, Range
<1>4. Match(path) = IF decided = {} THEN "no" ELSE Verdict(first)
  BY DEF Match
<1> HIDE DEF Verdict
<1>5. CASE decided = {}
  BY <1>2, <1>3, <1>4, <1>5
<1>6. CASE decided # {}
  <2>1. decided \subseteq Nat
    BY <1>1
  <2>2. \E k \in decided : \A j \in decided : k <= j
    <3> HIDE DEF decided
    <3> QED
      BY <1>6, <2>1, Least
  <2>3. first \in decided
    BY <2>2
  <2> HIDE DEF first
  <2>4. Match(path) = Verdict(first) /\ first \in DOMAIN entries /\ Verdict(first) # "no"
    BY <1>4, <1>6, <2>3
  <2>5. Verdict(first) = "match"
    BY <1>2, <2>4 DEF Answers
  <2> QED
    BY <1>2, <1>3, <2>4, <2>5
<1> QED
  BY <1>5, <1>6

\* It complains of a pattern only if one of them is malformed.
LEMMA MatchComplains ==
    ASSUME config.entries \in Seq(Seq(Char)), NEW path \in Seq(Char), Match(path) = "bad"
    PROVE  \E entry \in Range(config.entries) : ~WellFormed(entry)
<1> DEFINE entries == config.entries
           Verdict(k) == IF IsPrefix(PlainPrefix(entries[k]), path)
                         THEN FnMatch(entries[k], path) ELSE "no"
           decided == {k \in DOMAIN entries : Verdict(k) # "no"}
           first == CHOOSE k \in decided : \A j \in decided : k <= j
<1>1. DOMAIN entries = 1..Len(entries) /\ Len(entries) \in Nat
      /\ \A k \in DOMAIN entries : entries[k] \in Seq(Char)
  OBVIOUS
<1>2. Match(path) = IF decided = {} THEN "no" ELSE Verdict(first)
  BY DEF Match
<1>3. decided # {} /\ Verdict(first) = "bad"
  BY <1>2
<1>4. first \in decided
  <2>1. decided \subseteq Nat
    BY <1>1
  <2>2. \E k \in decided : \A j \in decided : k <= j
    <3> HIDE DEF decided
    <3> QED
      BY <1>3, <2>1, Least
  <2> QED
    BY <2>2
<1>5. PICK k \in DOMAIN entries : Verdict(k) = "bad"
  <2> HIDE DEF first, Verdict
  <2> QED
    BY <1>3, <1>4
<1>6. FnMatch(entries[k], path) = "bad" /\ entries[k] \in Seq(Char)
  BY <1>1, <1>5
<1>7. ~WellFormed(entries[k])
  BY <1>6, FnMatchIsGlob
<1> QED
  BY <1>7 DEF Range

-----------------------------------------------------------------------------
(* RemoveBlacklistedFiles *)

\* What the file may say.
Configs == [file : {"ok"}, remove : {TRUE}, entries : Blacklists]
           \union [file : {"absent", "broken"}, remove : {FALSE}, entries : {<<>>}]
           \union [file : {"ok"}, remove : {FALSE}, entries : Blacklists]

\* The types of the variables.
TypeOK ==
    /\ config \in Configs
    /\ pc \in {"start", "walk", "remove", "returned"}
    /\ at \in Nat \ {0}
    /\ matches \in Seq(Paths)
    /\ present \subseteq Paths
    /\ err \in {"none", "config", "walk", "pattern", "remove", "nil"}

\* What the walk has found in the first n paths of the tree.
Walked(n) ==
    /\ \A k \in 1..n : /\ Match(Tree[k]) # "bad"
                       /\ Match(Tree[k]) = "match" => Tree[k] \in Range(matches)
    /\ \A path \in Range(matches) : path \in Paths /\ Blacklisted(path)

\* What is gone was blacklisted, or lay in a directory that was.
GoneRightly ==
    \A q \in Paths \ present :
       config.remove /\ \E d \in Dirs \union {q} : Within(q, d) /\ Blacklisted(d)

\* Before the removal nothing is gone; the walk has found what is blacklisted;
\* the matches before the one that is next are gone, or links that lead nowhere.
IInv ==
    /\ TypeOK
    /\ GoneRightly
    /\ pc = "start" => present = Paths /\ at = 1 /\ matches = <<>>
    /\ pc \in {"walk", "remove"} => config.remove
    /\ pc = "walk" => present = Paths /\ Walked(at - 1) /\ at - 1 <= Len(Tree)
    /\ pc = "remove" => /\ Walked(Len(Tree))
                        /\ \A k \in 1..(at - 1) : k \in DOMAIN matches => ~Found(matches[k])
                        /\ \A k \in 1..(at - 1) : k \in DOMAIN matches /\ matches[k] \in present
                                                     => matches[k] \in DOMAIN Links
    /\ pc # "returned" => err = "none"
    /\ err \in {"config", "walk", "pattern"} => present = Paths
    /\ err = "pattern" => \E entry \in Range(config.entries) : ~WellFormed(entry)
    /\ err = "nil" /\ config.remove =>
          \A q \in present : Blacklisted(q) => q \in DOMAIN Links /\ ~Found(q)

\* Every path of the tree is a name, and has a place in the tree.
LEMMA TreeOfNames ==
    /\ Len(Tree) \in Nat
    /\ Paths \subseteq Seq(Char)
    /\ \A k \in 1..Len(Tree) : Tree[k] \in Paths
    /\ \A path \in Paths : \E k \in 1..Len(Tree) : path = Tree[k]
  BY BlacklistAssumption DEF Paths, Range

\* The entries of every configuration are patterns, and there are none where
\* the file has none.
LEMMA ConfigOfPatterns ==
    ASSUME config \in Configs
    PROVE  /\ config.entries \in Seq(Seq(Char))
           /\ config.remove => config.file = "ok"
<1>1. /\ config.entries \in Blacklists \union {<<>>}
      /\ config.remove => config.file = "ok"
  BY DEF Configs
<1>2. <<>> \in Seq(Seq(Char)) /\ Blacklists \subseteq Seq(Seq(Char))
  BY BlacklistAssumption
<1> QED
  BY <1>1, <1>2

\* What matches and what is blacklisted is a matter of the configuration alone.
LEMMA ConfigDecides ==
    ASSUME config' = config
    PROVE  /\ \A path : Match(path)' = Match(path)
           /\ \A path : Blacklisted(path)' <=> Blacklisted(path)
<1>1. ASSUME NEW path PROVE Match(path)' = Match(path)
  BY DEF Match
<1>2. ASSUME NEW path PROVE Blacklisted(path)' <=> Blacklisted(path)
  BY DEF Blacklisted
<1> QED
  BY <1>1, <1>2

\* A step that removes nothing removes nothing wrongly.
LEMMA NothingGone ==
    ASSUME config' = config, present' = present, GoneRightly
    PROVE  GoneRightly'
  BY ConfigDecides DEF GoneRightly

\* What the walk has found stays found.
LEMMA WalkedStays ==
    ASSUME config' = config, matches' = matches, NEW n \in Nat, Walked(n)
    PROVE  Walked(n)'
  BY ConfigDecides DEF Walked

\* The program starts in the invariant.
LEMMA InitIInv == Init => IInv
<1> SUFFICES ASSUME Init PROVE IInv
  OBVIOUS
<1>1. TypeOK
  <2>1. config \in Configs
    BY DEF Init, Configs
  <2> QED
    BY <2>1 DEF Init, TypeOK
<1>2. GoneRightly
  BY DEF Init, GoneRightly
<1> QED
  BY <1>1, <1>2 DEF Init, IInv

\* Reading the configuration keeps the invariant: without an entry nothing is
\* blacklisted.
LEMMA ReadConfigKeeps == IInv /\ ReadConfig => IInv'
<1> SUFFICES ASSUME IInv, ReadConfig PROVE IInv'
  OBVIOUS
<1>1. TypeOK'
  BY DEF IInv, TypeOK, ReadConfig, Return
<1>2. GoneRightly'
  BY NothingGone DEF IInv, ReadConfig
<1>3. /\ pc = "start" /\ present = Paths /\ present' = Paths /\ err = "none"
      /\ config' = config /\ at' = at /\ matches' = matches
  BY DEF IInv, ReadConfig
<1>4. CASE pc' = "walk" /\ err' = err /\ config.remove
  <2>1. at' - 1 = 0 /\ Range(matches') = {} /\ Len(Tree) \in Nat
    BY <1>3, TreeOfNames DEF IInv, Range
  <2>2. Walked(at - 1)'
    BY <2>1 DEF Walked
  <2>3. at' - 1 <= Len(Tree)
    BY <2>1
  <2> QED
    BY <1>1, <1>2, <1>3, <1>4, <2>2, <2>3 DEF IInv
<1>5. CASE pc' = "returned" /\ err' = "config"
  BY <1>1, <1>2, <1>3, <1>5 DEF IInv
<1>6. CASE pc' = "returned" /\ err' = "nil" /\ (~config.remove \/ config.entries = <<>>)
  <2>1. \A q \in present' : config'.remove => ~Blacklisted(q)'
    BY <1>3, <1>6 DEF Blacklisted, Range
  <2> QED
    BY <1>1, <1>2, <1>3, <1>6, <2>1 DEF IInv, Found
<1>7. config.file = "absent" => ~config.remove
  BY ConfigOfPatterns DEF IInv, TypeOK
<1> QED
  BY <1>3, <1>4, <1>5, <1>6, <1>7 DEF ReadConfig, Return

\* The step of the walk keeps the invariant.
LEMMA VisitKeeps == IInv /\ Visit => IInv'
<1> SUFFICES ASSUME IInv, Visit PROVE IInv'
  OBVIOUS
<1>1. /\ pc = "walk" /\ at \in Nat \ {0} /\ at <= Len(Tree) /\ Len(Tree) \in Nat
      /\ config.remove /\ present = Paths /\ err = "none" /\ Walked(at - 1)
      /\ matches \in Seq(Paths) /\ Tree[at] \in Paths /\ Tree[at] \in Seq(Char)
      /\ config \in Configs
  BY TreeOfNames DEF IInv, TypeOK, Visit
<1>2. config' = config /\ present' = present
  BY DEF Visit
<1>3. GoneRightly'
  BY <1>2, NothingGone DEF IInv
<1>4. CASE /\ err' = "walk" \/ (err' = "pattern" /\ Match(Tree[at]) = "bad")
           /\ pc' = "returned" /\ at' = at /\ matches' = matches
  <2>1. TypeOK'
    BY <1>2, <1>4 DEF IInv, TypeOK
  <2>2. err' = "pattern" => \E entry \in Range(config'.entries) : ~WellFormed(entry)
    BY <1>1, <1>2, <1>4, ConfigOfPatterns, MatchComplains
  <2> QED
    BY <1>1, <1>2, <1>3, <1>4, <2>1, <2>2 DEF IInv
<1>5. CASE /\ Match(Tree[at]) # "bad" /\ at' = at + 1 /\ pc' = pc /\ err' = err
           /\ matches' = IF Match(Tree[at]) = "match" THEN Append(matches, Tree[at]) ELSE matches
  <2>1. matches' \in Seq(Paths)
    BY <1>1, <1>5
  <2>2. TypeOK'
    BY <1>1, <1>2, <1>5, <2>1 DEF IInv, TypeOK
  <2>3. /\ Range(matches) \subseteq Range(matches')
        /\ Match(Tree[at]) = "match" => Tree[at] \in Range(matches')
    <3>1. CASE Match(Tree[at]) = "match"
      <4>1. /\ DOMAIN matches' = 1..(Len(matches) + 1) /\ DOMAIN matches = 1..Len(matches)
            /\ Len(matches) \in Nat /\ matches'[Len(matches) + 1] = Tree[at]
            /\ \A k \in 1..Len(matches) : matches'[k] = matches[k]
        BY <1>1, <1>5, <3>1
      <4> QED
        BY <4>1 DEF Range
    <3> QED
      BY <1>5, <3>1
  <2>4. ASSUME NEW path \in Range(matches')
        PROVE  path \in Range(matches) \/ (path = Tree[at] /\ Match(Tree[at]) = "match")
    BY <1>1, <1>5 DEF Range
  <2>5. Match(Tree[at]) = "match" => Blacklisted(Tree[at])
    BY <1>1, <1>5, ConfigOfPatterns, MatchDecides
  <2>6. ASSUME NEW k \in 1..at
        PROVE  Match(Tree[k]) # "bad" /\ (Match(Tree[k]) = "match" => Tree[k] \in Range(matches'))
    <3>1. CASE k = at
      BY <1>5, <2>3, <3>1
    <3>2. CASE k # at
      <4>1. k \in 1..(at - 1)
        BY <1>1, <3>2
      <4> QED
        BY <1>1, <2>3, <4>1 DEF Walked
    <3> QED
      BY <3>1, <3>2
  <2>7. ASSUME NEW path \in Range(matches')
        PROVE  path \in Paths /\ Blacklisted(path)
    BY <1>1, <2>4, <2>5 DEF Walked
  <2>8. at' - 1 = at /\ at' - 1 <= Len(Tree)
    BY <1>1, <1>5
  <2>9. Walked(at - 1)'
    BY <1>2, <2>6, <2>7, <2>8, ConfigDecides DEF Walked
  <2> QED
    BY <1>1, <1>2, <1>3, <1>5, <2>2, <2>8, <2>9 DEF IInv
<1> QED
  BY <1>4, <1>5 DEF Visit, Return

\* At the end of the walk, all of the tree has been walked.
LEMMA EndWalkKeeps == IInv /\ EndWalk => IInv'
<1> SUFFICES ASSUME IInv, EndWalk PROVE IInv'
  OBVIOUS
<1>1. /\ config' = config /\ matches' = matches /\ present' = present /\ err' = err
      /\ pc = "walk" /\ pc' = "remove" /\ at' = 1
      /\ config.remove /\ present = Paths /\ err = "none"
  BY DEF IInv, EndWalk
<1>2. at - 1 = Len(Tree) /\ Walked(at - 1) /\ Len(Tree) \in Nat
  BY TreeOfNames DEF IInv, TypeOK, EndWalk
<1>3. Walked(Len(Tree))'
  BY <1>1, <1>2, WalkedStays
<1>4. TypeOK'
  BY <1>1 DEF IInv, TypeOK
<1>5. GoneRightly'
  BY <1>1, NothingGone DEF IInv
<1>6. \A k \in 1..(at' - 1) : FALSE
  BY <1>1
<1> QED
  BY <1>1, <1>3, <1>4, <1>5, <1>6 DEF IInv

\* Whatever a step of the removal takes away lies in a match, which is
\* blacklisted and is that path or a directory.
LEMMA RemovedRightly ==
    ASSUME TypeOK, GoneRightly, Walked(Len(Tree)), config.remove,
           NEW k \in DOMAIN matches, config' = config,
           NEW some \in SUBSET {q \in present : Within(q, matches[k])},
           present' = present \ some
    PROVE  GoneRightly'
<1>1. matches[k] \in Range(matches)
  BY DEF Range
<1>2. PICK path : path = matches[k] /\ path \in Paths /\ Blacklisted(path)
  BY <1>1 DEF Walked
<1>3. ASSUME NEW q \in Paths, q \notin present'
      PROVE  \E d \in Dirs \union {q} : Within(q, d) /\ Blacklisted(d)
  <2>1. CASE q \in some
    <3>1. Within(q, path)
      BY <1>2, <2>1
    <3>2. path = q \/ path \in Dirs
      BY <1>2, <3>1, BlacklistAssumption
    <3> QED
      BY <1>2, <3>1, <3>2
  <2>2. CASE q \notin some
    BY <1>3, <2>2 DEF GoneRightly
  <2> QED
    BY <2>1, <2>2
<1> QED
  BY <1>3, ConfigDecides DEF GoneRightly

\* The removal of a match keeps the invariant.
LEMMA RemoveMatchKeeps == IInv /\ RemoveMatch => IInv'
<1> SUFFICES ASSUME IInv, RemoveMatch PROVE IInv'
  OBVIOUS
<1> DEFINE gone == {q \in present : Within(q, matches[at])}
<1>1. /\ pc = "remove" /\ at \in 1..Len(matches) /\ matches \in Seq(Paths) /\ err = "none"
      /\ config.remove /\ config' = config /\ matches' = matches
      /\ Walked(Len(Tree)) /\ Len(Tree) \in Nat /\ present \subseteq Paths
      /\ GoneRightly /\ TypeOK
  BY TreeOfNames DEF IInv, TypeOK, RemoveMatch
<1>2. PICK some \in SUBSET gone :
         /\ present' = present \ some
         /\ \/ /\ some = IF Found(matches[at]) THEN gone ELSE {}
               /\ at' = at + 1 /\ pc' = pc /\ err' = err
            \/ at' = at /\ pc' = "returned" /\ err' = "remove"
  <2>1. \/ /\ present' = present \ (IF Found(matches[at]) THEN gone ELSE {})
           /\ at' = at + 1 /\ pc' = pc /\ err' = err
        \/ \E some \in SUBSET gone :
              present' = present \ some /\ at' = at /\ pc' = "returned" /\ err' = "remove"
    BY DEF RemoveMatch, Return
  <2>2. (IF Found(matches[at]) THEN gone ELSE {}) \in SUBSET gone
    OBVIOUS
  <2> QED
    BY <2>1, <2>2
<1>3. at \in DOMAIN matches
  BY <1>1
<1>4. GoneRightly'
  BY <1>1, <1>2, <1>3, RemovedRightly
<1>5. TypeOK'
  BY <1>1, <1>2 DEF TypeOK
<1>6. Walked(Len(Tree))'
  BY <1>1, WalkedStays
<1>7. CASE /\ some = IF Found(matches[at]) THEN gone ELSE {}
           /\ at' = at + 1 /\ pc' = pc /\ err' = err
  <2>1. present' \subseteq present
    BY <1>2
  <2>2. PICK path \in Paths : path = matches[at]
    BY <1>1
  <2>3. ~Found(path)' /\ (path \in present' => path \in DOMAIN Links)
    <3>1. CASE Found(path)
      <4>1. path \in gone /\ present' = present \ gone
        BY <1>2, <1>7, <2>2, <3>1 DEF Within, Found
      <4> QED
        BY <4>1 DEF Found
    <3>2. CASE ~Found(path)
      <4>1. present' = present
        BY <1>2, <1>7, <2>2, <3>2
      <4> QED
        BY <4>1, <3>2 DEF Found
    <3> QED
      BY <3>1, <3>2
  <2>4. ASSUME NEW k \in 1..(at' - 1), k \in DOMAIN matches
        PROVE  /\ ~Found(matches[k])'
               /\ matches[k] \in present' => matches[k] \in DOMAIN Links
    <3>1. k = at \/ k \in 1..(at - 1)
      BY <1>1, <1>7
    <3>2. ASSUME k \in 1..(at - 1)
          PROVE  ~Found(matches[k]) /\ (matches[k] \in present => matches[k] \in DOMAIN Links)
      BY <1>1, <2>4, <3>2 DEF IInv
    <3> QED
      BY <1>1, <2>1, <2>2, <2>3, <3>1, <3>2 DEF Found
  <2> QED
    BY <1>1, <1>4, <1>5, <1>6, <1>7, <2>4 DEF IInv
<1>8. CASE at' = at /\ pc' = "returned" /\ err' = "remove"
  BY <1>1, <1>4, <1>5, <1>8 DEF IInv
<1> QED
  BY <1>2, <1>7, <1>8

\* After the last match, no path is left that is blacklisted but links that lead
\* nowhere: what is blacklisted has matched.
LEMMA SuccessKeeps == IInv /\ Success => IInv'
<1> SUFFICES ASSUME IInv, Success PROVE IInv'
  OBVIOUS
<1>1. /\ pc = "remove" /\ at \in Nat /\ Len(matches) < at /\ matches \in Seq(Paths)
      /\ config' = config /\ at' = at /\ matches' = matches /\ present' = present
      /\ pc' = "returned" /\ err' = "nil" /\ config \in Configs
      /\ Walked(Len(Tree)) /\ present \subseteq Paths
  BY DEF IInv, TypeOK, Success, Return
<1>2. ASSUME NEW q \in present, Blacklisted(q)
      PROVE  q \in DOMAIN Links /\ ~Found(q)
  <2>1. PICK k \in 1..Len(Tree) : q = Tree[k]
    BY <1>1, TreeOfNames
  <2>2. q \in Seq(Char)
    BY <1>1, TreeOfNames
  <2>3. Match(q) # "bad" /\ (Match(q) = "match" => q \in Range(matches))
    BY <1>1, <2>1 DEF Walked
  <2>4. q \in Range(matches)
    BY <1>1, <1>2, <2>2, <2>3, ConfigOfPatterns, MatchDecides
  <2>5. PICK j \in DOMAIN matches : matches[j] = q
    BY <2>4 DEF Range
  <2>6. j \in 1..(at - 1)
    <3>1. DOMAIN matches = 1..Len(matches) /\ Len(matches) \in Nat
      BY <1>1
    <3> QED
      BY <1>1, <3>1
  <2> QED
    BY <1>1, <1>2, <2>5, <2>6 DEF IInv
<1>3. TypeOK'
  BY <1>1 DEF IInv, TypeOK
<1>4. GoneRightly'
  BY <1>1, NothingGone DEF IInv
<1>5. \A q \in present' : Blacklisted(q)' => q \in DOMAIN Links /\ ~Found(q)'
  BY <1>1, <1>2, ConfigDecides DEF Found
<1> QED
  BY <1>1, <1>3, <1>4, <1>5 DEF IInv

\* Every step of the program keeps the invariant.
LEMMA NextKeeps == IInv /\ [Next]_vars => IInv'
<1> SUFFICES ASSUME IInv, [Next]_vars PROVE IInv'
  OBVIOUS
<1>1. CASE UNCHANGED vars
  <2>1. /\ config' = config /\ pc' = pc /\ at' = at /\ matches' = matches
        /\ present' = present /\ err' = err
    BY <1>1 DEF vars
  <2>2. GoneRightly' /\ TypeOK'
    BY <2>1, NothingGone DEF IInv, TypeOK
  <2>3. Len(Tree) \in Nat /\ at - 1 \in Nat
    BY TreeOfNames DEF IInv, TypeOK
  <2>4. /\ Walked(Len(Tree)) => Walked(Len(Tree))'
        /\ Walked(at - 1) => Walked(at - 1)'
    BY <2>1, <2>3, ConfigDecides DEF Walked
  <2>5. \A q : Blacklisted(q)' <=> Blacklisted(q)
    BY <2>1, ConfigDecides
  <2> QED
    BY <2>1, <2>2, <2>4, <2>5 DEF IInv, Found
<1> QED
  BY <1>1, ReadConfigKeeps, VisitKeeps, EndWalkKeeps, RemoveMatchKeeps, SuccessKeeps
     DEF Next, Terminated

\* What the removal relies on in every state, for every tree and every
\* blacklist.
THEOREM RemovalInvariant == Spec => []IInv
  BY InitIInv, NextKeeps, PTL DEF Spec

\* RemoveBlacklistedFiles removes only what is blacklisted or lies in a
\* directory that is, nothing when its walk fails, and, when it reports success,
\* all that is blacklisted but links that lead to nothing.
THEOREM RemovesExactly == Spec => []RemovalIsExact
<1>1. IInv => RemovalIsExact
  BY DEF IInv, GoneRightly, RemovalIsExact
<1> QED
  BY <1>1, RemovalInvariant, PTL

\* Whatever the blacklist and the tree, fnMatch decides for each entry and each
\* path the language of the entry, and calls no entry malformed that is not.
THEOREM MatchesGlob == Spec => []MatchIsGlob
<1>1. IInv => MatchIsGlob
  <2> SUFFICES ASSUME IInv, NEW entry \in Range(config.entries), NEW name \in Paths
               PROVE  /\ FnMatch(entry, name) = "match" <=> Listed(name, entry)
                      /\ FnMatch(entry, name) = "bad" => ~WellFormed(entry)
    BY DEF MatchIsGlob
  <2>1. entry \in Seq(Char)
    BY ConfigOfPatterns DEF IInv, TypeOK, Range
  <2>2. name \in Seq(Char)
    BY TreeOfNames
  <2> QED
    BY <2>1, <2>2, FnMatchIsGlob
<1> QED
  BY <1>1, RemovalInvariant, PTL

=============================================================================
