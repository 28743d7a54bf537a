------------------------- MODULE DocumentIndexProofs -------------------------
(***************************************************************************)
(* Proofs about DocumentIndex, for any documents, texts and searches.       *)
(*                                                                         *)
(* A document that is ready has no goroutine any more and stays ready, so   *)
(* that what a search was sure to find when it began is still there when    *)
(* it falls back to the texts.  A goroutine inserts its chunks in order, so *)
(* that the embeddings agree with them until the first one is lost.  The    *)
(* chunks of a text hold all of it, whatever its paragraphs are.            *)
(***************************************************************************)
EXTENDS DocumentIndex, Integers, WellFoundedInduction, TLAPS

-----------------------------------------------------------------------------
(***************************************************************************)
(* Recursive functions.  What holds of 0, and of each number if of the one *)
(* before it, is stated of a set here, since it cannot be of an operator.  *)
(***************************************************************************)

\* A set that holds 0 and the successors of what it holds goes up to n.
LEMMA UpTo ==
    ASSUME NEW n \in Nat, NEW T, 0 \in T, \A i \in 1..n : i - 1 \in T => i \in T
    PROVE  0..n \subseteq T
<1> DEFINE Less == OpToRel(<, Nat)
           Missing == (0..n) \ T
<1>1. SUFFICES ASSUME Missing # {} PROVE FALSE
  OBVIOUS
<1>2. ASSUME NEW i \in 1..n PROVE <<i - 1, i>> \in Less
  BY DEF OpToRel
<1>3. IsWellFoundedOn(Less, Nat)
  BY NatLessThanWellFounded
<1> HIDE DEF Less
<1>4. Missing \subseteq Nat
  OBVIOUS
<1>5. PICK m \in Missing : \A k \in Missing : ~ (<<k, m>> \in Less)
  <2> HIDE DEF Missing
  <2>1. QED
    BY <1>1, <1>3, <1>4, WFMin
<1>6. m \in 1..n /\ m - 1 \in 0..n
  BY <1>5
<1>7. m - 1 \notin Missing
  BY <1>2, <1>5, <1>6
<1>8. QED
  BY <1>5, <1>6, <1>7

\* Function f begins with b and gets each value up to n from the one before it.
Recurs(f, n, b, F) == f[0] = b /\ \A i \in 1..n : f[i] = F[<<f[i - 1], i>>]

\* There is such a function.
LEMMA RecursionExists ==
    ASSUME NEW n \in Nat, NEW S, NEW b \in S, NEW F \in [S \X (1..n) -> S]
    PROVE  \E f \in [0..n -> S] : Recurs(f, n, b, F)
<1> DEFINE T == {k \in 0..n : \E f \in [0..n -> S] : Recurs(f, k, b, F)}
<1>1. 0 \in T
  <2> DEFINE f == [i \in 0..n |-> b]
  <2>1. f \in [0..n -> S] /\ Recurs(f, 0, b, F)
    BY DEF Recurs
  <2> HIDE DEF f
  <2>2. QED
    BY <2>1
<1>2. ASSUME NEW k \in 1..n, k - 1 \in T PROVE k \in T
  <2>1. PICK f \in [0..n -> S] : Recurs(f, k - 1, b, F)
    BY <1>2
  <2> DEFINE g == [f EXCEPT ![k] = F[<<f[k - 1], k>>]]
  <2>2. f[k - 1] \in S /\ F[<<f[k - 1], k>>] \in S
    OBVIOUS
  <2>3. g \in [0..n -> S] /\ g[k] = F[<<f[k - 1], k>>] /\ \A i \in 0..(k - 1) : g[i] = f[i]
    BY <2>2
  <2> HIDE DEF g
  <2>4. ASSUME NEW i \in 1..k PROVE g[i] = F[<<g[i - 1], i>>]
    <3>1. CASE i = k
      <4>1. g[k - 1] = f[k - 1]
        BY <2>3
      <4>2. QED
        BY <2>3, <3>1, <4>1
    <3>2. CASE i \in 1..(k - 1)
      BY <2>1, <2>3, <3>2 DEF Recurs
    <3>3. QED
      BY <3>1, <3>2
  <2>5. Recurs(g, k, b, F)
    BY <2>1, <2>3, <2>4 DEF Recurs
  <2>6. QED
    BY <2>3, <2>5
<1> HIDE DEF T
<1>3. n \in T
  BY <1>1, <1>2, UpTo
<1>4. QED
  BY <1>3 DEF T

-----------------------------------------------------------------------------
(***************************************************************************)
(* Chunks.                                                                 *)
(***************************************************************************)

Pieces == [para : Nat, from : Nat, to : Nat]

\* Length is the sum it looks like.
LEMMA LengthSum ==
    ASSUME NEW chunk \in Seq(Pieces)
    PROVE  \E f \in [0..Len(chunk) -> Int] :
              /\ f[0] = 0
              /\ \A i \in 1..Len(chunk) : f[i] = f[i - 1] + 2 + chunk[i].to - chunk[i].from
              /\ Length(chunk) = f[Len(chunk)] - 2
<1> DEFINE n == Len(chunk)
           Sum(f) == [i \in 0..n |->
                         IF i = 0 THEN 0 ELSE f[i - 1] + 2 + chunk[i].to - chunk[i].from]
           F == [z \in Int \X (1..n) |-> z[1] + 2 + chunk[z[2]].to - chunk[z[2]].from]
           sum == CHOOSE f : f = Sum(f)
<1>1. n \in Nat /\ \A i \in 1..n : chunk[i].to \in Nat /\ chunk[i].from \in Nat
  <2>1. n \in Nat /\ \A i \in 1..n : chunk[i] \in Pieces
    OBVIOUS
  <2>2. QED
    BY <2>1 DEF Pieces
<1>2. F \in [Int \X (1..n) -> Int]
  BY <1>1
<1>3. \A x \in Int, i \in 1..n : F[<<x, i>>] = x + 2 + chunk[i].to - chunk[i].from
  OBVIOUS
<1> HIDE DEF F, n
<1>4. PICK f \in [0..n -> Int] : Recurs(f, n, 0, F)
  <2>1. 0 \in Int
    OBVIOUS
  <2>2. QED
    BY <1>1, <1>2, <2>1, RecursionExists, Zenon
<1>a. ASSUME NEW x \in Int, NEW i \in 1..n PROVE x + 2 + chunk[i].to - chunk[i].from \in Int
  <2>1. chunk[i].to \in Nat /\ chunk[i].from \in Nat
    BY <1>1
  <2>2. QED
    BY <2>1
<1>5. f = Sum(f)
  <2>1. ASSUME NEW i \in 0..n
        PROVE  f[i] = IF i = 0 THEN 0 ELSE f[i - 1] + 2 + chunk[i].to - chunk[i].from
    <3>1. CASE i = 0
      BY <1>4, <3>1 DEF Recurs
    <3>2. CASE i \in 1..n
      <4>1. f[i - 1] \in Int /\ f[i] = F[<<f[i - 1], i>>]
        BY <1>1, <1>4, <3>2 DEF Recurs
      <4>2. i # 0
        BY <1>1, <3>2
      <4>3. QED
        BY <1>3, <3>2, <4>1, <4>2
    <3>3. QED
      BY <1>1, <3>1, <3>2
  <2>2. QED
    BY <2>1
<1>6. sum = Sum(sum)
  BY <1>5
<1>7. Length(chunk) = sum[n] - 2
  BY DEF Length, n
<1> HIDE DEF sum
<1>8. sum[0] = 0 /\ \A i \in 1..n : sum[i] = sum[i - 1] + 2 + chunk[i].to - chunk[i].from
  <2>1. \A i \in 0..n : sum[i] = Sum(sum)[i]
    BY <1>6
  <2>2. 0 \in 0..n /\ \A i \in 1..n : i \in 0..n /\ i # 0
    BY <1>1
  <2>3. QED
    BY <2>1, <2>2
<1>9. 0..n \subseteq {i \in 0..n : sum[i] \in Int}
  <2> DEFINE T == {i \in 0..n : sum[i] \in Int}
  <2>1. 0 \in T
    BY <1>1, <1>8
  <2>2. ASSUME NEW i \in 1..n, i - 1 \in T PROVE i \in T
    <3>1. sum[i - 1] \in Int /\ i \in 0..n
      BY <1>1, <2>2
    <3>2. sum[i] \in Int
      BY <1>a, <1>8, <3>1
    <3>3. QED
      BY <3>1, <3>2
  <2> HIDE DEF T
  <2>3. QED
    BY <1>1, <2>1, <2>2, UpTo DEF T
<1>10. sum \in [0..n -> Int]
  BY <1>6, <1>9
<1>11. QED
  BY <1>7, <1>8, <1>10 DEF n

\* It is a number.
LEMMA LengthType ==
    ASSUME NEW chunk \in Seq(Pieces)
    PROVE  Length(chunk) \in Int
<1>1. PICK f \in [0..Len(chunk) -> Int] : Length(chunk) = f[Len(chunk)] - 2
  BY LengthSum
<1>2. Len(chunk) \in 0..Len(chunk)
  OBVIOUS
<1>3. QED
  BY <1>1, <1>2

\* Another piece adds its characters and a break.
LEMMA LengthAppend ==
    ASSUME NEW c \in Seq(Pieces), NEW x \in Pieces
    PROVE  /\ Length(c) \in Int
           /\ Length(Append(c, x)) = Length(c) + 2 + x.to - x.from
<1> DEFINE d == Append(c, x)
           n == Len(c)
<1>1. /\ d \in Seq(Pieces) /\ n \in Nat /\ Len(d) = n + 1
      /\ d[n + 1] = x /\ \A i \in 1..n : d[i] = c[i]
  OBVIOUS
<1> HIDE DEF d
<1>2. PICK f \in [0..n -> Int] :
          /\ f[0] = 0
          /\ \A i \in 1..n : f[i] = f[i - 1] + 2 + c[i].to - c[i].from
          /\ Length(c) = f[n] - 2
  BY LengthSum
<1>3. PICK g \in [0..Len(d) -> Int] :
          /\ g[0] = 0
          /\ \A i \in 1..Len(d) : g[i] = g[i - 1] + 2 + d[i].to - d[i].from
          /\ Length(d) = g[Len(d)] - 2
  BY <1>1, LengthSum
<1> DEFINE T == {i \in 0..n : g[i] = f[i]}
<1>4. 0 \in T
  BY <1>1, <1>2, <1>3
<1>5. ASSUME NEW i \in 1..n, i - 1 \in T PROVE i \in T
  <2>1. g[i - 1] = f[i - 1] /\ d[i] = c[i] /\ i \in 1..Len(d) /\ i \in 0..n
    BY <1>1, <1>5
  <2>2. g[i] = f[i]
    BY <1>2, <1>3, <2>1
  <2>3. QED
    BY <2>1, <2>2
<1> HIDE DEF T
<1>6. n \in T
  <2>1. n \in Nat
    BY <1>1
  <2> HIDE DEF n
  <2>2. 0..n \subseteq T
    BY <1>4, <1>5, <2>1, UpTo
  <2>3. QED
    BY <2>1, <2>2
<1>7. g[n] = f[n] /\ f[n] \in Int
  BY <1>1, <1>6 DEF T
<1>8. g[n + 1] = g[n] + 2 + x.to - x.from
  <2>1. n + 1 \in 1..Len(d) /\ (n + 1) - 1 = n
    BY <1>1
  <2>2. QED
    BY <1>1, <1>3, <2>1
<1>9. x.to \in Nat /\ x.from \in Nat
  BY DEF Pieces
<1>10. Length(d) = Length(c) + 2 + x.to - x.from
  BY <1>1, <1>2, <1>3, <1>7, <1>8, <1>9
<1>11. QED
  BY <1>2, <1>7, <1>10 DEF d

\* Nothing, and one piece.
LEMMA LengthOne ==
    /\ Length(<<>>) = -2
    /\ \A x \in Pieces : Length(<<x>>) = x.to - x.from
<1>1. Length(<<>>) = -2
  <2>1. <<>> \in Seq(Pieces) /\ Len(<<>>) = 0
    OBVIOUS
  <2>2. PICK f \in [0..Len(<<>>) -> Int] : f[0] = 0 /\ Length(<<>>) = f[Len(<<>>)] - 2
    BY <2>1, LengthSum
  <2>3. QED
    BY <2>1, <2>2
<1>2. ASSUME NEW x \in Pieces PROVE Length(<<x>>) = x.to - x.from
  <2>1. <<>> \in Seq(Pieces) /\ Append(<<>>, x) = <<x>>
    OBVIOUS
  <2>2. Length(<<x>>) = Length(<<>>) + 2 + x.to - x.from
    BY <2>1, LengthAppend
  <2>3. x.to \in Nat /\ x.from \in Nat
    BY DEF Pieces
  <2>4. QED
    BY <1>1, <2>2, <2>3
<1>3. QED
  BY <1>1, <1>2

\* What a chunk holds with one more piece.
LEMMA HoldsAppend ==
    ASSUME NEW c \in Seq(Pieces), NEW x \in Pieces, NEW q, NEW y
    PROVE  /\ Holds(c, q, y) => Holds(Append(c, x), q, y)
           /\ x.para = q /\ x.from < y /\ y <= x.to => Holds(Append(c, x), q, y)
<1> DEFINE d == Append(c, x)
<1>1. /\ DOMAIN d = 1..(Len(c) + 1) /\ DOMAIN c = 1..Len(c) /\ Len(c) \in Nat
      /\ d[Len(c) + 1] = x /\ \A i \in 1..Len(c) : d[i] = c[i]
  OBVIOUS
<1> HIDE DEF d
<1>2. Holds(c, q, y) => Holds(d, q, y)
  BY <1>1 DEF Holds
<1>3. x.para = q /\ x.from < y /\ y <= x.to => Holds(d, q, y)
  BY <1>1 DEF Holds
<1>4. QED
  BY <1>2, <1>3 DEF d

\* A multiple grows with the number of times.
LEMMA TimesGrow ==
    ASSUME NEW i \in Nat, NEW j \in Nat, i <= j, NEW step \in Nat
    PROVE  /\ i * step \in Nat
           /\ i * step <= j * step
<1>1. j = i + (j - i) /\ j - i \in Nat
  OBVIOUS
<1>2. j * step = i * step + (j - i) * step
  OBVIOUS
<1>3. i * step \in Nat /\ (j - i) * step \in Nat
  BY <1>1
<1>4. QED
  BY <1>2, <1>3

\* The cuts of a paragraph are not too long and hold all of it.
LEMMA CutsHold ==
    ASSUME NEW p \in Nat, NEW runes \in Nat
    PROVE  /\ Cuts(p, runes) \in Seq(Seq(Pieces))
           /\ \A k \in 1..Len(Cuts(p, runes)) : Length(Cuts(p, runes)[k]) <= ChunkSize
           /\ \A x \in 1..runes : \E k \in 1..Len(Cuts(p, runes)) : Holds(Cuts(p, runes)[k], p, x)
<1> DEFINE step == ChunkSize - Overlap
           ups == (runes - ChunkSize + step - 1) \div step
           last == IF runes <= ChunkSize THEN 1 ELSE 1 + ups
           from(k) == (k - 1) * step
           to(k) == IF k = last THEN runes ELSE from(k) + ChunkSize
           cuts == [k \in 1..last |-> <<Piece(p, from(k), to(k))>>]
<1>1. Cuts(p, runes) = cuts
  BY DEF Cuts
<1>2. step \in Nat /\ 1 <= step /\ step <= ChunkSize /\ ChunkSize \in Nat
  BY ChunkingAssumption
<1>3. /\ last \in Nat /\ 1 <= last
      /\ runes <= ChunkSize + (last - 1) * step
      /\ last = 1 \/ (last - 1) * step < runes
  <2>1. CASE runes <= ChunkSize
    BY <1>2, <2>1
  <2>2. CASE ~ (runes <= ChunkSize)
    <3> DEFINE over == runes - ChunkSize + step - 1
    <3>1. over \in Nat /\ over = runes - ChunkSize + step - 1
      BY <1>2, <2>2
    <3>2. last = 1 + ups /\ ups = over \div step
      BY <2>2
    <3> HIDE DEF over, step, last, ups
    <3>3. ups \in Nat /\ step * ups <= over /\ over < step * ups + step
      BY <1>2, <3>1, <3>2
    <3>4. (last - 1) * step = step * ups
      BY <1>2, <3>2, <3>3
    <3>5. QED
      BY <1>2, <3>1, <3>2, <3>3, <3>4
  <2>3. QED
    BY <2>1, <2>2
<1> HIDE DEF step, last, ups
<1>4. ASSUME NEW k \in 1..last
      PROVE  /\ from(k) \in Nat /\ to(k) \in Nat
             /\ to(k) - from(k) <= ChunkSize
  <2>1. from(k) \in Nat
    BY <1>2, <1>3, TimesGrow
  <2>2. QED
    BY <1>2, <1>3, <2>1
<1> HIDE DEF from, to
<1>5. ASSUME NEW k \in 1..last
      PROVE  /\ Piece(p, from(k), to(k)) \in Pieces
             /\ cuts[k] = <<Piece(p, from(k), to(k))>>
             /\ cuts[k] \in Seq(Pieces)
             /\ Length(cuts[k]) <= ChunkSize
  <2>1. Piece(p, from(k), to(k)) \in Pieces
    BY <1>4 DEF Piece, Pieces
  <2>2. cuts[k] = <<Piece(p, from(k), to(k))>>
    OBVIOUS
  <2>3. Length(cuts[k]) = to(k) - from(k)
    BY <2>1, <2>2, LengthOne DEF Piece
  <2>4. QED
    BY <1>4, <2>1, <2>2, <2>3
<1>6. cuts \in Seq(Seq(Pieces)) /\ Len(cuts) = last
  <2>1. cuts \in [1..last -> Seq(Pieces)]
    BY <1>5
  <2>2. QED
    BY <1>3, <2>1
<1>7. ASSUME NEW k \in 1..last, NEW x \in Nat, from(k) < x, x <= to(k)
      PROVE  Holds(cuts[k], p, x)
  <2>1. cuts[k] = <<Piece(p, from(k), to(k))>> /\ 1 \in DOMAIN cuts[k]
    BY <1>5
  <2>2. cuts[k][1] = Piece(p, from(k), to(k))
    BY <2>1
  <2>3. cuts[k][1].para = p /\ cuts[k][1].from = from(k) /\ cuts[k][1].to = to(k)
    BY <2>2 DEF Piece
  <2>4. QED
    BY <1>7, <2>1, <2>3 DEF Holds
<1>8. ASSUME NEW x \in 1..runes
      PROVE  \E k \in 1..last : from(k) < x /\ x <= to(k)
  <2> DEFINE n == (x - 1) \div step
  <2>1. n \in Nat /\ step * n <= x - 1 /\ x - 1 < step * n + step
    BY <1>2
  <2> HIDE DEF n
  <2>2. CASE n + 1 < last
    <3>1. n + 1 \in 1..last /\ n + 1 # last
      BY <1>3, <2>1, <2>2
    <3>2. from(n + 1) = step * n /\ to(n + 1) = step * n + ChunkSize
      BY <1>2, <2>1, <3>1 DEF from, to
    <3>3. step * n \in Nat
      BY <1>2, <2>1
    <3>4. QED
      BY <1>2, <2>1, <3>1, <3>2, <3>3
  <2>3. CASE last <= n + 1
    <3>1. (last - 1) * step <= n * step /\ n * step = step * n /\ (last - 1) * step \in Nat
      BY <1>2, <1>3, <2>1, <2>3, TimesGrow
    <3>2. from(last) = (last - 1) * step /\ to(last) = runes /\ last \in 1..last
      BY <1>3 DEF from, to
    <3>3. from(last) \in Nat /\ from(last) <= x - 1
      BY <1>2, <2>1, <3>1, <3>2
    <3>4. from(last) < x /\ x <= to(last)
      BY <3>2, <3>3
    <3>5. QED
      BY <3>2, <3>4
  <2>4. QED
    BY <1>3, <2>1, <2>2, <2>3
<1>9. \A x \in 1..runes : \E k \in 1..last : Holds(cuts[k], p, x)
  BY <1>7, <1>8
<1> HIDE DEF cuts
<1>10. QED
  BY <1>1, <1>5, <1>6, <1>9

\* What Split keeps while it goes through a text.
SplitState == [chunks : Seq(Seq(Pieces)), current : Seq(Pieces), length : Nat]

Covered(s, q, x) ==
    Holds(s.current, q, x) \/ \E k \in 1..Len(s.chunks) : Holds(s.chunks[k], q, x)

\* After p paragraphs: their characters are in a chunk or gathered for the next, none
\* of which is too long.
Splitting(text, p, s) ==
    /\ s \in SplitState
    /\ s.length <= MostChars(s.current)
    /\ s.current = <<>> => s.length = 0
    /\ s.current # <<>> => s.length > 0 /\ Length(s.current) <= s.length
    /\ \A k \in 1..Len(s.chunks) : Length(s.chunks[k]) <= MostChars(s.chunks[k])
    /\ \A q \in 1..p : \A x \in 1..text[q].runes : Covered(s, q, x)

\* The limit of a chunk is ChunkSize, or one more.
LEMMA MostCharsType ==
    ASSUME NEW chunk
    PROVE  MostChars(chunk) \in Nat /\ ChunkSize <= MostChars(chunk)
BY ChunkingAssumption DEF MostChars

\* The fields of such a record.
LEMMA SplitFields ==
    ASSUME NEW s \in SplitState
    PROVE  /\ s.chunks \in Seq(Seq(Pieces)) /\ s.current \in Seq(Pieces) /\ s.length \in Nat
           /\ Len(s.chunks) \in Nat
BY DEF SplitState

\* A chunk that is appended is one of the chunks, and the others still are.
LEMMA AppendChunks ==
    ASSUME NEW chunks \in Seq(Seq(Pieces)), NEW more \in Seq(Seq(Pieces)), NEW q, NEW x
    PROVE  /\ chunks \o more \in Seq(Seq(Pieces))
           /\ (\A k \in 1..Len(chunks) : Length(chunks[k]) <= MostChars(chunks[k]))
              /\ (\A k \in 1..Len(more) : Length(more[k]) <= MostChars(more[k]))
              => \A k \in 1..Len(chunks \o more) :
                    Length((chunks \o more)[k]) <= MostChars((chunks \o more)[k])
           /\ \/ \E k \in 1..Len(chunks) : Holds(chunks[k], q, x)
              \/ \E k \in 1..Len(more) : Holds(more[k], q, x)
              => \E k \in 1..Len(chunks \o more) : Holds((chunks \o more)[k], q, x)
<1> DEFINE all == chunks \o more
           n == Len(chunks)
           m == Len(more)
<1>1. /\ all \in Seq(Seq(Pieces)) /\ n \in Nat /\ m \in Nat /\ Len(all) = n + m
      /\ \A k \in 1..n : all[k] = chunks[k]
      /\ \A k \in 1..m : all[n + k] = more[k]
  OBVIOUS
<1> HIDE DEF all, n, m
<1>2. ASSUME NEW k \in 1..Len(all)
      PROVE  \/ k \in 1..n
             \/ k - n \in 1..m /\ all[k] = more[k - n]
  <2>1. CASE k <= n
    BY <1>1, <2>1
  <2>2. CASE ~ (k <= n)
    <3>1. k - n \in 1..m /\ n + (k - n) = k
      BY <1>1, <2>2
    <3>2. QED
      BY <1>1, <3>1
  <2>3. QED
    BY <2>1, <2>2
<1>3. ASSUME \A k \in 1..n : Length(chunks[k]) <= MostChars(chunks[k]),
             \A k \in 1..m : Length(more[k]) <= MostChars(more[k])
      PROVE  \A k \in 1..Len(all) : Length(all[k]) <= MostChars(all[k])
  BY <1>1, <1>2, <1>3
<1>4. ASSUME NEW k \in 1..n, Holds(chunks[k], q, x)
      PROVE  \E i \in 1..Len(all) : Holds(all[i], q, x)
  <2>1. k \in 1..Len(all) /\ all[k] = chunks[k]
    BY <1>1
  <2>2. QED
    BY <1>4, <2>1
<1>5. ASSUME NEW k \in 1..m, Holds(more[k], q, x)
      PROVE  \E i \in 1..Len(all) : Holds(all[i], q, x)
  <2>1. n + k \in 1..Len(all) /\ all[n + k] = more[k]
    BY <1>1
  <2>2. QED
    BY <1>5, <2>1
<1>6. QED
  BY <1>1, <1>3, <1>4, <1>5 DEF all, n, m

\* Flushing keeps all that and empties what is gathered.
LEMMA FlushKeeps ==
    ASSUME NEW text, NEW p \in Nat, NEW s, Splitting(text, p, s)
    PROVE  Splitting(text, p, Flush(s)) /\ Flush(s).current = <<>>
<1>1. CASE s.current = <<>>
  BY <1>1 DEF Flush
<1>2. CASE s.current # <<>>
  <2> DEFINE f == [chunks |-> Append(s.chunks, s.current), current |-> <<>>, length |-> 0]
             more == <<s.current>>
  <2>1. Flush(s) = f
    BY <1>2 DEF Flush
  <2>2. /\ s.chunks \in Seq(Seq(Pieces)) /\ s.current \in Seq(Pieces) /\ s.length \in Nat
        /\ s \in SplitState
    BY SplitFields DEF Splitting
  <2>3. /\ more \in Seq(Seq(Pieces)) /\ Len(more) = 1 /\ more[1] = s.current
        /\ s.chunks \o more = Append(s.chunks, s.current)
    BY <2>2
  <2>4. f.chunks = s.chunks \o more /\ f.current = <<>> /\ f.length = 0
    BY <2>3
  <2>5. f.chunks \in Seq(Seq(Pieces)) /\ f \in SplitState
    <3>1. s.chunks \o more \in Seq(Seq(Pieces))
      BY <2>2, <2>3, AppendChunks
    <3>2. <<>> \in Seq(Pieces) /\ 0 \in Nat
      OBVIOUS
    <3>3. QED
      BY <2>3, <3>1, <3>2 DEF SplitState
  <2>6. Length(s.current) \in Int /\ Length(s.current) <= s.length /\ s.length <= MostChars(s.current)
    BY <1>2, <2>2, LengthType DEF Splitting
  <2> HIDE DEF f, more
  <2>7. \A k \in 1..Len(f.chunks) : Length(f.chunks[k]) <= MostChars(f.chunks[k])
    <3>1. \A k \in 1..Len(more) : Length(more[k]) <= MostChars(more[k])
      <4>1. Length(s.current) <= MostChars(s.current)
        BY <2>2, <2>6, MostCharsType
      <4>2. QED
        BY <2>3, <4>1
    <3>2. \A k \in 1..Len(s.chunks) : Length(s.chunks[k]) <= MostChars(s.chunks[k])
      BY DEF Splitting
    <3>3. QED
      BY <2>2, <2>3, <2>4, <3>1, <3>2, AppendChunks
  <2>8. ASSUME NEW q \in 1..p, NEW x \in 1..text[q].runes PROVE Covered(f, q, x)
    <3>1. Covered(s, q, x)
      BY DEF Splitting
    <3>2. \/ \E k \in 1..Len(s.chunks) : Holds(s.chunks[k], q, x)
          \/ \E k \in 1..Len(more) : Holds(more[k], q, x)
      BY <2>3, <3>1 DEF Covered
    <3>3. QED
      BY <2>2, <2>3, <2>4, <3>2, AppendChunks DEF Covered
  <2>9. 0 <= MostChars(<<>>)
    BY ChunkingAssumption DEF MostChars
  <2>10. QED
    BY <2>1, <2>4, <2>5, <2>7, <2>8, <2>9 DEF Splitting
<1>3. QED
  BY <1>1, <1>2

\* One more paragraph.
LEMMA AddKeeps ==
    ASSUME NEW text \in Seq(Paragraphs(Words)),
           \A q \in DOMAIN text : text[q].runes <= text[q].bytes,
           NEW p \in 1..Len(text), NEW s, Splitting(text, p - 1, s)
    PROVE  Splitting(text, p, Add(text, s, p))
<1> DEFINE bytes == text[p].bytes
           runes == text[p].runes
           full == s.length > 0 /\ s.length + bytes + 1 > ChunkSize
           room == IF full THEN Flush(s) ELSE s
<1>1. bytes \in Nat /\ runes \in Nat /\ runes <= bytes /\ p \in Nat /\ p - 1 \in Nat
  <2>1. text[p] \in Paragraphs(Words) /\ p \in DOMAIN text
    OBVIOUS
  <2>2. QED
    BY <2>1 DEF Paragraphs
<1>2. Splitting(text, p - 1, room)
  BY <1>1, FlushKeeps
<1>3. /\ room.length + bytes + 1 <= ChunkSize \/ room.length = 0
      /\ room.chunks \in Seq(Seq(Pieces)) /\ room.current \in Seq(Pieces) /\ room.length \in Nat
      /\ room \in SplitState
  <2>1. room \in SplitState
    BY <1>2 DEF Splitting
  <2>2. room.length \in Nat
    BY <2>1, SplitFields
  <2>3. CASE full
    <3>1. Flush(s).current = <<>> /\ Splitting(text, p - 1, Flush(s))
      BY <1>1, FlushKeeps
    <3>2. room.length = 0
      BY <2>3, <3>1 DEF Splitting
    <3>3. QED
      BY <2>1, <3>2, SplitFields
  <2>4. CASE ~ full
    <3>1. room = s
      BY <2>4
    <3>2. room.length + bytes + 1 <= ChunkSize \/ room.length = 0
      BY <1>1, <2>2, <2>4, <3>1, ChunkingAssumption
    <3>3. QED
      BY <2>1, <3>2, SplitFields
  <2>5. QED
    BY <2>3, <2>4
<1>4. Add(text, s, p) =
        CASE runes = 0 -> s
          [] runes # 0 /\ bytes > ChunkSize -> [room EXCEPT !.chunks = @ \o Cuts(p, runes)]
          [] OTHER ->
                [room EXCEPT !.current = Append(@, Piece(p, 0, runes)),
                             !.length = @ + bytes + (IF @ > 0 THEN 2 ELSE 0)]
  BY DEF Add
<1> HIDE DEF room
<1>5. ASSUME NEW t, NEW q \in 1..p, NEW x \in 1..text[q].runes,
             \A y \in 1..(p - 1) : \A z \in 1..text[y].runes : Covered(t, y, z),
             \A z \in 1..runes : Covered(t, p, z)
      PROVE  Covered(t, q, x)
  <2>1. q = p \/ q \in 1..(p - 1)
    BY <1>1
  <2>2. QED
    BY <1>5, <2>1
<1>6. CASE runes = 0
  <2>1. Add(text, s, p) = s
    BY <1>4, <1>6
  <2>2. 1..runes = {}
    BY <1>6
  <2>3. \A q \in 1..p : \A x \in 1..text[q].runes : Covered(s, q, x)
    BY <1>5, <2>2 DEF Splitting
  <2>4. QED
    BY <2>1, <2>3 DEF Splitting
<1>7. CASE runes # 0 /\ bytes > ChunkSize
  <2> DEFINE t == [room EXCEPT !.chunks = @ \o Cuts(p, runes)]
             cuts == Cuts(p, runes)
  <2>1. Add(text, s, p) = t
    BY <1>4, <1>7
  <2>2. /\ cuts \in Seq(Seq(Pieces))
        /\ \A k \in 1..Len(cuts) : Length(cuts[k]) <= ChunkSize
        /\ \A x \in 1..runes : \E k \in 1..Len(cuts) : Holds(cuts[k], p, x)
    BY <1>1, CutsHold
  <2>3. /\ t.chunks = room.chunks \o cuts /\ t.current = room.current
        /\ t.length = room.length
    BY <1>3 DEF SplitState
  <2>4. t \in SplitState
    BY <1>3, <2>2, AppendChunks DEF SplitState
  <2> HIDE DEF t, cuts
  <2>5. \A k \in 1..Len(t.chunks) : Length(t.chunks[k]) <= MostChars(t.chunks[k])
    <3>1. ASSUME NEW k \in 1..Len(cuts) PROVE Length(cuts[k]) <= MostChars(cuts[k])
      <4>1. cuts[k] \in Seq(Pieces)
        BY <2>2
      <4>2. Length(cuts[k]) \in Int
        BY <4>1, LengthType
      <4>3. Length(cuts[k]) <= ChunkSize
        BY <2>2
      <4>4. QED
        BY <4>1, <4>2, <4>3, MostCharsType, ChunkingAssumption
    <3>2. \A k \in 1..Len(room.chunks) : Length(room.chunks[k]) <= MostChars(room.chunks[k])
      BY <1>2 DEF Splitting
    <3>3. QED
      BY <1>3, <2>2, <2>3, <3>1, <3>2, AppendChunks
  <2>6. ASSUME NEW q, NEW x,
               Covered(room, q, x) \/ \E k \in 1..Len(cuts) : Holds(cuts[k], q, x)
        PROVE  Covered(t, q, x)
    BY <1>3, <2>2, <2>3, <2>6, AppendChunks DEF Covered
  <2>7. \A q \in 1..p : \A x \in 1..text[q].runes : Covered(t, q, x)
    <3>1. \A y \in 1..(p - 1) : \A z \in 1..text[y].runes : Covered(t, y, z)
      BY <1>2, <2>6 DEF Splitting
    <3>2. \A z \in 1..runes : Covered(t, p, z)
      BY <2>2, <2>6
    <3>3. QED
      BY <1>5, <3>1, <3>2
  <2>8. QED
    BY <1>2, <2>1, <2>3, <2>4, <2>5, <2>7 DEF Splitting
<1>8. CASE runes # 0 /\ ~ (bytes > ChunkSize)
  <2> DEFINE piece == Piece(p, 0, runes)
             gap == IF room.length > 0 THEN 2 ELSE 0
             t == [room EXCEPT !.current = Append(@, piece), !.length = @ + bytes + gap]
  <2>1. Add(text, s, p) = t
    BY <1>3, <1>4, <1>8 DEF SplitState
  <2>2. piece \in Pieces /\ piece.para = p /\ piece.from = 0 /\ piece.to = runes
    BY <1>1 DEF Piece, Pieces
  <2>3. /\ t.chunks = room.chunks /\ t.current = Append(room.current, piece)
        /\ t.length = room.length + bytes + gap
    BY <1>3 DEF SplitState
  <2>4. gap \in Nat /\ (room.length = 0 => gap = 0) /\ (room.length > 0 => gap = 2)
    BY <1>3
  <2>5. t \in SplitState
    <3>1. Append(room.current, piece) \in Seq(Pieces)
      BY <1>3, <2>2
    <3>2. room.length + bytes + gap \in Nat
      BY <1>1, <1>3, <2>4
    <3> HIDE DEF piece, gap, bytes
    <3>3. QED
      BY <1>3, <3>1, <3>2 DEF SplitState
  <2> HIDE DEF t, gap, piece
  <2>6. t.current # <<>>
    BY <1>3, <2>2, <2>3
  <2>7. 0 < t.length /\ t.length <= MostChars(t.current) /\ t.length \in Nat
    <3>1. 0 < t.length /\ t.length \in Nat
      BY <1>1, <1>3, <1>8, <2>3, <2>4
    <3>2. Len(t.current) = Len(room.current) + 1 /\ Len(room.current) \in Nat
      BY <1>3, <2>2, <2>3
    <3>3. CASE room.length = 0
      <4>1. t.length = bytes /\ bytes <= ChunkSize
        BY <1>1, <1>8, <2>3, <2>4, <3>3, ChunkingAssumption
      <4>2. MostChars(t.current) \in {ChunkSize, ChunkSize + 1}
        BY DEF MostChars
      <4>3. QED
        BY <1>1, <3>1, <4>1, <4>2, ChunkingAssumption
    <3>4. CASE room.length # 0
      <4>1. room.current # <<>>
        BY <1>2, <3>4 DEF Splitting
      <4>2. Len(room.current) > 0
        BY <1>3, <4>1
      <4>3. MostChars(t.current) = ChunkSize + 1
        BY <3>2, <4>2 DEF MostChars
      <4>4. t.length <= ChunkSize + 1
        BY <1>1, <1>3, <1>8, <2>3, <2>4, <3>4, ChunkingAssumption
      <4>5. QED
        BY <3>1, <4>3, <4>4
    <3>5. QED
      BY <3>3, <3>4
  <2>8. Length(t.current) <= t.length
    <3>1. CASE room.current = <<>>
      <4>1. t.current = <<piece>> /\ Length(<<piece>>) = runes
        BY <1>1, <2>2, <2>3, <3>1, LengthOne
      <4>2. QED
        BY <1>1, <1>3, <2>3, <2>4, <4>1
    <3>2. CASE room.current # <<>>
      <4>1. room.length > 0 /\ Length(room.current) <= room.length
        BY <1>2, <3>2 DEF Splitting
      <4>2. /\ Length(room.current) \in Int
            /\ Length(t.current) = Length(room.current) + 2 + runes - 0
        BY <1>3, <2>2, <2>3, LengthAppend
      <4>3. QED
        BY <1>1, <1>3, <2>3, <2>4, <4>1, <4>2
    <3>3. QED
      BY <3>1, <3>2
  <2>9. \A q \in 1..p : \A x \in 1..text[q].runes : Covered(t, q, x)
    <3>1. ASSUME NEW q, NEW x, Covered(room, q, x) PROVE Covered(t, q, x)
      BY <1>3, <2>2, <2>3, <3>1, HoldsAppend DEF Covered
    <3>2. ASSUME NEW z \in 1..runes PROVE Covered(t, p, z)
      <4>1. piece.para = p /\ piece.from < z /\ z <= piece.to
        BY <1>1, <2>2
      <4>2. Holds(t.current, p, z)
        BY <1>3, <2>2, <2>3, <4>1, HoldsAppend
      <4>3. QED
        BY <4>2 DEF Covered
    <3>3. \A y \in 1..(p - 1) : \A z \in 1..text[y].runes : Covered(t, y, z)
      BY <1>2, <3>1 DEF Splitting
    <3>4. QED
      BY <1>5, <3>2, <3>3
  <2>10. QED
    BY <1>2, <2>1, <2>3, <2>5, <2>6, <2>7, <2>8, <2>9 DEF Splitting
<1>9. QED
  BY <1>6, <1>7, <1>8

\* What Split leaves.
LEMMA SplitHolds ==
    ASSUME NEW text \in Seq(Paragraphs(Words)),
           \A q \in DOMAIN text : text[q].runes <= text[q].bytes
    PROVE  Splitting(text, Len(text), Split(text))
<1> DEFINE n == Len(text)
           Upto(g) == [p \in 0..n |-> IF p = 0 THEN Empty ELSE Add(text, g[p - 1], p)]
           after == CHOOSE g : g = Upto(g)
<1>1. n \in Nat
  OBVIOUS
<1>2. Split(text) = after[n]
  BY DEF Split
<1>3. Splitting(text, 0, Empty)
  <2>1. Empty \in SplitState /\ Empty.chunks = <<>> /\ Empty.current = <<>> /\ Empty.length = 0
    BY DEF Empty, SplitState
  <2>2. 0 <= MostChars(<<>>) /\ 1..Len(<<>>) = {} /\ 1..0 = {}
    BY ChunkingAssumption DEF MostChars
  <2>3. QED
    BY <2>1, <2>2 DEF Splitting
<1>4. \E g : g = Upto(g)
  <2> DEFINE F == [z \in SplitState \X (1..n) |->
                      IF Add(text, z[1], z[2]) \in SplitState THEN Add(text, z[1], z[2]) ELSE Empty]
  <2>1. Empty \in SplitState
    BY <1>3 DEF Splitting
  <2>2. F \in [SplitState \X (1..n) -> SplitState]
    BY <2>1
  <2>3. \A t \in SplitState, p \in 1..n :
            Add(text, t, p) \in SplitState => F[<<t, p>>] = Add(text, t, p)
    OBVIOUS
  <2> HIDE DEF F, n
  <2>4. PICK f \in [0..n -> SplitState] : Recurs(f, n, Empty, F)
    BY <1>1, <2>1, <2>2, RecursionExists, Zenon
  <2> DEFINE V == {p \in 0..n : Splitting(text, p, f[p])}
  <2>5. 0 \in V
    BY <1>1, <1>3, <2>4 DEF Recurs
  <2>6. ASSUME NEW p \in 1..n, Splitting(text, p - 1, f[p - 1])
        PROVE  f[p] = Add(text, f[p - 1], p) /\ Splitting(text, p, f[p])
    <3>1. Splitting(text, p, Add(text, f[p - 1], p))
      BY <2>6, AddKeeps DEF n
    <3>2. f[p - 1] \in SplitState /\ Add(text, f[p - 1], p) \in SplitState
      BY <2>6, <3>1 DEF Splitting
    <3>3. f[p] = F[<<f[p - 1], p>>]
      BY <2>4 DEF Recurs
    <3>4. QED
      BY <2>3, <3>1, <3>2, <3>3
  <2>7. ASSUME NEW p \in 1..n, p - 1 \in V PROVE p \in V
    <3>1. p \in 0..n /\ Splitting(text, p - 1, f[p - 1])
      BY <1>1, <2>7
    <3>2. QED
      BY <2>6, <3>1
  <2> HIDE DEF V
  <2>8. 0..n \subseteq V
    BY <1>1, <2>5, <2>7, UpTo
  <2>9. ASSUME NEW p \in 0..n
        PROVE  f[p] = IF p = 0 THEN Empty ELSE Add(text, f[p - 1], p)
    <3>1. CASE p = 0
      BY <2>4, <3>1 DEF Recurs
    <3>2. CASE p # 0
      <4>1. p \in 1..n /\ p - 1 \in 0..n
        BY <1>1, <3>2
      <4>2. Splitting(text, p - 1, f[p - 1])
        BY <2>8, <4>1 DEF V
      <4>3. QED
        BY <2>6, <3>2, <4>1, <4>2
    <3>3. QED
      BY <3>1, <3>2
  <2>10. f = Upto(f)
    BY <2>9
  <2>11. QED
    BY <2>10
<1>5. after = Upto(after)
  BY <1>4
<1> HIDE DEF after
<1>6. after[0] = Empty /\ \A p \in 1..n : after[p] = Add(text, after[p - 1], p)
  <2>1. \A p \in 0..n : after[p] = Upto(after)[p]
    BY <1>5
  <2>2. 0 \in 0..n /\ \A p \in 1..n : p \in 0..n /\ p # 0
    BY <1>1
  <2>3. QED
    BY <2>1, <2>2
<1> DEFINE T == {p \in 0..n : Splitting(text, p, after[p])}
<1>7. 0 \in T
  BY <1>1, <1>3, <1>6
<1>8. ASSUME NEW p \in 1..n, p - 1 \in T PROVE p \in T
  <2>1. p \in 0..n /\ Splitting(text, p - 1, after[p - 1])
    BY <1>1, <1>8
  <2>2. Splitting(text, p, after[p])
    BY <1>6, <2>1, AddKeeps
  <2>3. QED
    BY <2>1, <2>2
<1> HIDE DEF T
<1>9. n \in T
  <2> HIDE DEF n
  <2>1. 0..n \subseteq T
    BY <1>1, <1>7, <1>8, UpTo
  <2>2. QED
    BY <1>1, <2>1
<1>10. QED
  BY <1>2, <1>9 DEF T

\* The chunks of a text hold every character of it and are not too long.
LEMMA ChunksHold ==
    ASSUME NEW text \in Seq(Paragraphs(Words)),
           \A q \in DOMAIN text : text[q].runes <= text[q].bytes
    PROVE  /\ ChunkText(text) \in Seq(Seq(Pieces))
           /\ \A k \in 1..Len(ChunkText(text)) :
                 Length(ChunkText(text)[k]) <= MostChars(ChunkText(text)[k])
           /\ \A p \in DOMAIN text : \A x \in 1..text[p].runes :
                 \E k \in 1..Len(ChunkText(text)) : Holds(ChunkText(text)[k], p, x)
<1> DEFINE t == Flush(Split(text))
           n == Len(text)
<1>1. n \in Nat /\ DOMAIN text = 1..n
  OBVIOUS
<1>2. Splitting(text, n, Split(text))
  BY SplitHolds
<1>3. Splitting(text, n, t) /\ t.current = <<>>
  BY <1>1, <1>2, FlushKeeps
<1>4. ChunkText(text) = t.chunks
  BY DEF ChunkText
<1> HIDE DEF t, n
<1>5. \A q, x : ~ Holds(<<>>, q, x)
  BY DEF Holds
<1>6. t.chunks \in Seq(Seq(Pieces))
  BY <1>3, SplitFields DEF Splitting
<1>7. \A k \in 1..Len(t.chunks) : Length(t.chunks[k]) <= MostChars(t.chunks[k])
  BY <1>3 DEF Splitting
<1>8. \A p \in 1..n : \A x \in 1..text[p].runes :
          \E k \in 1..Len(t.chunks) : Holds(t.chunks[k], p, x)
  BY <1>3, <1>5 DEF Splitting, Covered
<1>9. QED
  BY <1>1, <1>4, <1>6, <1>7, <1>8

-----------------------------------------------------------------------------
(***************************************************************************)
(* The inductive invariant.                                                *)
(***************************************************************************)

\* Of ProcessingIsOwned and VectorsMatch, what they say of document d.
Owned(d) ==
    /\ (docs[d] # Absent /\ docs[d].status = "processing") <=> (job[d] # Idle \/ d \in orphans)
    /\ job[d] # Idle => d \notin orphans

Matched(d) ==
    \A v \in vectors[d] :
        v[1] \in stored[d] /\ (v[1] = v[2] \/ \E k \in lost[d] : k < v[1])

\* What a goroutine that stores chunks has done: without a lost chunk the n-th it
\* stored is chunk n.
InOrder(d) ==
    job[d].pc \in {"store", "vectors"} =>
        /\ \A k \in lost[d] : k < job[d].next
        /\ Len(job[d].made) + 1 = job[d].next \/ lost[d] # {}
        /\ \A i \in 1..Len(job[d].made) :
              /\ job[d].made[i] \in stored[d]
              /\ job[d].made[i] = i \/ \E k \in lost[d] : k < job[d].made[i]

\* No insert has failed before the first.
NothingLost(d) ==
    docs[d] = Absent \/ job[d].pc \in {"count", "load", "embed"} => lost[d] = {}

DocumentInv(d) == Owned(d) /\ Matched(d) /\ InOrder(d) /\ NothingLost(d)

\* What a search is sure of stays true, and only a search that found nothing has
\* nothing to answer.
Sure(s) ==
    /\ search[s].pc # "idle" => search[s].sure \subseteq WithSomeWord(search[s].query)
    /\ search[s].pc \in {"rank", "cache"} => search[s].found # {}
    /\ search[s].pc = "done" /\ search[s].found = {} => search[s].sure = {}

SearchesAreSure == \A s \in Searches : Sure(s)

\* What is cached is not empty.
CacheHolds == \A h \in Keys : cache[h] # None => cache[h] # {}

IndexInv ==
    /\ TypeOK
    /\ \A d \in DocIds : DocumentInv(d)
    /\ SearchesAreSure
    /\ CacheHolds

-----------------------------------------------------------------------------
(***************************************************************************)
(* Indexing.                                                               *)
(***************************************************************************)

\* What a goroutine that stores chunks has in memory.
LEMMA StoringFields ==
    ASSUME TypeOK, NEW d \in DocIds, job[d].pc \in {"store", "vectors"}
    PROVE  /\ job[d] \in [pc : {"store", "vectors"}, embedded : BOOLEAN, next : Nat,
                          made : Seq(Nat)]
           /\ job[d].next \in Nat
           /\ job[d].made \in Seq(Nat)
BY DEF TypeOK, Job, Idle

\* A document that a goroutine has is stored, as processing.
LEMMA BusyIsProcessing ==
    ASSUME TypeOK, NEW d \in DocIds, Owned(d), job[d] # Idle
    PROVE  docs[d] \in Document /\ docs[d].status = "processing" /\ docs[d] # Absent
BY DEF TypeOK, Owned

\* A document that is there has a number of chunks (ChunkText).
LEMMA TotalType ==
    ASSUME TypeOK, NEW d \in DocIds, docs[d] \in Document
    PROVE  Total(d) \in Nat
<1> DEFINE text == docs[d].content
<1>1. text \in Contents
  BY DEF Document
<1>2. text \in Seq(Paragraphs(Words)) /\ \A p \in DOMAIN text : text[p].runes <= text[p].bytes
  BY <1>1, IndexAssumption
<1>3. Chunks(text) \in Seq(Seq(Pieces))
  BY <1>2, ChunksHold DEF Chunks
<1>4. QED
  BY <1>3 DEF Total

\* What a step of the goroutine of d leaves alone.
Others(d) ==
    \A e \in DocIds \ {d} :
        /\ docs'[e] = docs[e] /\ job'[e] = job[e] /\ stored'[e] = stored[e]
        /\ vectors'[e] = vectors[e] /\ lost'[e] = lost[e]
        /\ (e \in orphans') <=> (e \in orphans)

\* A step of the goroutine of d that keeps what holds of d keeps it of all documents.
LEMMA OneDocument ==
    ASSUME \A e \in DocIds : DocumentInv(e), NEW d \in DocIds, Others(d), DocumentInv(d)'
    PROVE  \A e \in DocIds : DocumentInv(e)'
<1> SUFFICES ASSUME NEW e \in DocIds \ {d}
             PROVE  DocumentInv(e)'
  OBVIOUS
<1>1. /\ docs'[e] = docs[e] /\ job'[e] = job[e] /\ stored'[e] = stored[e]
      /\ vectors'[e] = vectors[e] /\ lost'[e] = lost[e]
      /\ (e \in orphans') <=> (e \in orphans)
  BY DEF Others
<1>2. DocumentInv(e)
  OBVIOUS
<1>3. Owned(e)' /\ NothingLost(e)'
  BY <1>1, <1>2 DEF DocumentInv, Owned, NothingLost
<1>4. Matched(e)' /\ InOrder(e)'
  BY <1>1, <1>2 DEF DocumentInv, Matched, InOrder
<1>5. QED
  BY <1>3, <1>4 DEF DocumentInv

\* The types, when the goroutine of d goes to j.
LEMMA JobType ==
    ASSUME TypeOK, NEW d \in DocIds, NEW j \in Job, At(d, j)
    PROVE  /\ job' \in [DocIds -> Job]
           /\ job'[d] = j
           /\ \A e \in DocIds \ {d} : job'[e] = job[e]
BY DEF TypeOK, At

\* Uploading.
LEMMA UploadStep ==
    ASSUME IndexInv, NEW d \in DocIds, Uploading(d)
    PROVE  TypeOK' /\ \A e \in DocIds : DocumentInv(e)'
<1> USE DEF IndexInv
<1>1. PICK c \in Contents :
          docs' = [docs EXCEPT ![d] = [status |-> "processing", content |-> c, count |-> 0]]
  BY DEF Uploading, Upload
<1>2. /\ docs[d] = Absent
      /\ At(d, [pc |-> "count"])
      /\ UNCHANGED <<counted, stored, vectors, lost, orphans, environment, cache, search>>
  BY DEF Uploading, Upload
<1>3. [pc |-> "count"] \in Job
  BY DEF Job
<1>4. /\ job' \in [DocIds -> Job]
      /\ job'[d] = [pc |-> "count"]
      /\ \A e \in DocIds \ {d} : job'[e] = job[e]
  BY <1>2, <1>3, JobType
<1>5. /\ docs' \in [DocIds -> Document \cup {Absent}]
      /\ docs'[d].status = "processing"
      /\ docs'[d] # Absent
      /\ \A e \in DocIds \ {d} : docs'[e] = docs[e]
  BY <1>1 DEF TypeOK, Document, Absent
<1>6. TypeOK'
  BY <1>2, <1>4, <1>5 DEF TypeOK, environment
<1>7. DocumentInv(d)
  OBVIOUS
<1>8. d \notin orphans /\ lost[d] = {}
  BY <1>2, <1>7 DEF DocumentInv, Owned, NothingLost
<1>9. DocumentInv(d)'
  <2>1. Owned(d)'
    BY <1>2, <1>4, <1>5, <1>8 DEF Owned, Idle
  <2>2. Matched(d)'
    BY <1>2, <1>7 DEF DocumentInv, Matched
  <2>3. InOrder(d)' /\ NothingLost(d)'
    BY <1>2, <1>4, <1>8 DEF InOrder, NothingLost
  <2>4. QED
    BY <2>1, <2>2, <2>3 DEF DocumentInv
<1>10. Others(d)
  BY <1>2, <1>4, <1>5 DEF Others
<1>11. QED
  BY <1>6, <1>9, <1>10, OneDocument

\* The goroutine goes on and has neither stored nor lost anything in the step.
LEMMA GoesOn ==
    ASSUME IndexInv, NEW d \in DocIds, NEW j \in Job, At(d, j), job[d] # Idle,
           \/ j.pc \in {"load", "embed"} /\ lost[d] = {}
           \/ j.pc \in {"finish", "fail"},
           counted' \subseteq DocIds,
           UNCHANGED <<docs, stored, vectors, lost, orphans, environment, cache, search>>
    PROVE  TypeOK' /\ \A e \in DocIds : DocumentInv(e)'
<1> USE DEF IndexInv
<1>1. /\ job' \in [DocIds -> Job]
      /\ job'[d] = j
      /\ \A e \in DocIds \ {d} : job'[e] = job[e]
  BY JobType
<1>2. TypeOK'
  BY <1>1 DEF TypeOK, environment
<1>3. DocumentInv(d)
  OBVIOUS
<1>4. Owned(d)'
  BY <1>1, <1>3 DEF DocumentInv, Owned, Idle
<1>5. Matched(d)'
  BY <1>3 DEF DocumentInv, Matched
<1>6. docs[d] # Absent
  BY <1>3, BusyIsProcessing DEF DocumentInv
<1>7. InOrder(d)' /\ NothingLost(d)'
  BY <1>1, <1>6 DEF InOrder, NothingLost
<1>8. Others(d)
  BY <1>1 DEF Others
<1>9. QED
  BY <1>2, <1>4, <1>5, <1>7, <1>8, OneDocument DEF DocumentInv

\* The goroutine ends: the status is final, or the document is left behind.
LEMMA Ends ==
    ASSUME IndexInv, NEW d \in DocIds, At(d, Idle), job[d] # Idle,
           \/ /\ UNCHANGED docs
              /\ orphans' = orphans \cup {d}
           \/ /\ \E status \in {"ready", "failed"} :
                    docs' = [docs EXCEPT ![d].status = status, ![d].count = Total(d)]
              /\ UNCHANGED orphans,
           UNCHANGED <<counted, stored, vectors, lost, environment, cache, search>>
    PROVE  TypeOK' /\ \A e \in DocIds : DocumentInv(e)'
<1> USE DEF IndexInv
<1>1. Idle \in Job
  BY DEF Job
<1>2. /\ job' \in [DocIds -> Job]
      /\ job'[d] = Idle
      /\ \A e \in DocIds \ {d} : job'[e] = job[e]
  BY <1>1, JobType
<1>3. DocumentInv(d)
  OBVIOUS
<1>4. docs[d] \in Document /\ docs[d].status = "processing" /\ docs[d] # Absent
  BY <1>3, BusyIsProcessing DEF DocumentInv
<1>5. /\ docs' \in [DocIds -> Document \cup {Absent}]
      /\ docs'[d] # Absent
      /\ docs'[d].status = "processing" <=> d \in orphans'
      /\ orphans' \subseteq DocIds
      /\ \A e \in DocIds \ {d} : docs'[e] = docs[e] /\ ((e \in orphans') <=> (e \in orphans))
  <2>1. CASE UNCHANGED docs /\ orphans' = orphans \cup {d}
    BY <1>4, <2>1 DEF TypeOK
  <2>2. CASE /\ \E status \in {"ready", "failed"} :
                    docs' = [docs EXCEPT ![d].status = status, ![d].count = Total(d)]
             /\ UNCHANGED orphans
    <3>1. PICK status \in {"ready", "failed"} :
              docs' = [docs EXCEPT ![d].status = status, ![d].count = Total(d)]
      BY <2>2
    <3>2. Total(d) \in Nat
      BY <1>4, TotalType
    <3>3. d \notin orphans
      BY <1>3 DEF DocumentInv, Owned
    <3>4. QED
      BY <1>4, <2>2, <3>1, <3>2, <3>3 DEF TypeOK, Document, Absent
  <2>3. QED
    BY <2>1, <2>2
<1>6. TypeOK'
  BY <1>2, <1>5 DEF TypeOK, environment
<1>7. Owned(d)'
  BY <1>2, <1>5 DEF Owned
<1>8. Matched(d)'
  BY <1>3 DEF DocumentInv, Matched
<1>9. InOrder(d)' /\ NothingLost(d)'
  BY <1>2, <1>5 DEF InOrder, NothingLost, Idle
<1>10. Others(d)
  BY <1>2, <1>5 DEF Others
<1>11. QED
  BY <1>6, <1>7, <1>8, <1>9, <1>10, OneDocument DEF DocumentInv

\* The goroutine reads the document and deletes what is stored of it.
LEMMA LoadStep ==
    ASSUME IndexInv, NEW d \in DocIds, Load(d), UNCHANGED <<environment, cache, search>>
    PROVE  TypeOK' /\ \A e \in DocIds : DocumentInv(e)'
<1> USE DEF IndexInv
<1>1. DocumentInv(d) /\ job[d].pc = "load" /\ job[d] # Idle
  BY DEF Load, Idle
<1>2. lost[d] = {} /\ counted \subseteq DocIds
  BY <1>1 DEF DocumentInv, NothingLost, TypeOK
<1>3. CASE Total(d) = 0
  <2>1. [pc |-> "finish"] \in Job
    BY DEF Job
  <2>2. QED
    BY <1>1, <1>2, <1>3, <2>1, GoesOn DEF Load
<1>4. CASE Total(d) # 0
  <2>1. [pc |-> "embed"] \in Job /\ At(d, [pc |-> "embed"])
    BY <1>4 DEF Job, Load
  <2>2. /\ job' \in [DocIds -> Job]
        /\ job'[d] = [pc |-> "embed"]
        /\ \A e \in DocIds \ {d} : job'[e] = job[e]
    BY <2>1, JobType
  <2>3. /\ stored' = IF pg THEN [stored EXCEPT ![d] = {}] ELSE stored
        /\ vectors' = IF pg THEN [vectors EXCEPT ![d] = {}] ELSE vectors
        /\ UNCHANGED <<docs, counted, lost, orphans>>
    BY <1>4 DEF Load
  <2>4. /\ stored' \in [DocIds -> SUBSET Nat]
        /\ vectors' \in [DocIds -> SUBSET (Nat \X Nat)]
        /\ \A e \in DocIds \ {d} : stored'[e] = stored[e] /\ vectors'[e] = vectors[e]
        /\ vectors'[d] = {} \/ (stored'[d] = stored[d] /\ vectors'[d] = vectors[d])
    BY <2>3 DEF TypeOK
  <2>5. TypeOK'
    BY <2>2, <2>3, <2>4 DEF TypeOK, environment
  <2>6. Owned(d)'
    BY <1>1, <2>2, <2>3 DEF DocumentInv, Owned, Idle
  <2>7. Matched(d)'
    BY <1>1, <2>3, <2>4 DEF DocumentInv, Matched
  <2>8. InOrder(d)' /\ NothingLost(d)'
    BY <1>2, <2>2, <2>3 DEF InOrder, NothingLost
  <2>9. Others(d)
    BY <2>2, <2>3, <2>4 DEF Others
  <2>10. QED
    BY <2>5, <2>6, <2>7, <2>8, <2>9, OneDocument DEF DocumentInv
<1>5. QED
  BY <1>3, <1>4

\* The chunks are embedded, or are to be stored without.
LEMMA EmbedStep ==
    ASSUME IndexInv, NEW d \in DocIds, Embed(d), UNCHANGED <<environment, cache, search>>
    PROVE  TypeOK' /\ \A e \in DocIds : DocumentInv(e)'
<1> USE DEF IndexInv
<1>1. DocumentInv(d) /\ job[d].pc = "embed" /\ job[d] # Idle
  BY DEF Embed, Idle
<1>2. PICK ok \in {FALSE, pg} :
          At(d, [pc |-> "store", embedded |-> ok, next |-> 1, made |-> <<>>])
  BY DEF Embed
<1> DEFINE new == [pc |-> "store", embedded |-> ok, next |-> 1, made |-> <<>>]
<1>3. new \in Job
  <2>1. ok \in BOOLEAN
    BY IndexAssumption DEF TypeOK
  <2>2. QED
    BY <2>1 DEF Job
<1>4. /\ job' \in [DocIds -> Job]
      /\ job'[d] = new
      /\ \A e \in DocIds \ {d} : job'[e] = job[e]
  BY <1>2, <1>3, JobType
<1>5. UNCHANGED <<docs, counted, stored, vectors, lost, orphans>>
  BY DEF Embed
<1>6. TypeOK'
  BY <1>4, <1>5 DEF TypeOK, environment
<1>7. docs[d] # Absent /\ lost[d] = {}
  BY <1>1, BusyIsProcessing DEF DocumentInv, NothingLost
<1>8. Owned(d)' /\ Matched(d)'
  BY <1>1, <1>4, <1>5 DEF DocumentInv, Owned, Matched, Idle
<1>9. InOrder(d)' /\ NothingLost(d)'
  BY <1>4, <1>5, <1>7 DEF InOrder, NothingLost
<1>10. Others(d)
  BY <1>4, <1>5 DEF Others
<1>11. QED
  BY <1>6, <1>8, <1>9, <1>10, OneDocument DEF DocumentInv

\* The next chunk is inserted: if none was lost before, it is the one whose number
\* follows that of the embeddings used so far.
LEMMA StoreStep ==
    ASSUME IndexInv, NEW d \in DocIds, Store(d), UNCHANGED <<environment, cache, search>>
    PROVE  TypeOK' /\ \A e \in DocIds : DocumentInv(e)'
<1> USE DEF IndexInv
<1>1. DocumentInv(d) /\ job[d].pc = "store" /\ job[d] # Idle
  BY DEF Store, Idle
<1> DEFINE j == job[d]
           new == [j EXCEPT !.next = @ + 1, !.made = Append(@, j.next)]
<1>2. /\ j \in [pc : {"store", "vectors"}, embedded : BOOLEAN, next : Nat, made : Seq(Nat)]
      /\ j.next \in Nat
      /\ j.made \in Seq(Nat)
  BY <1>1, StoringFields
<1>3. /\ At(d, new)
      /\ stored' = [stored EXCEPT ![d] = @ \cup {j.next}]
      /\ UNCHANGED <<docs, counted, vectors, lost, orphans>>
  BY DEF Store
<1>4. /\ new \in [pc : {"store", "vectors"}, embedded : BOOLEAN, next : Nat, made : Seq(Nat)]
      /\ new.pc = "store"
      /\ new.next = j.next + 1
      /\ new.made = Append(j.made, j.next)
  <2>1. Append(j.made, j.next) \in Seq(Nat) /\ j.next + 1 \in Nat
    BY <1>2
  <2>2. QED
    BY <1>1, <1>2, <2>1
<1>5. new \in Job /\ new # Idle
  BY <1>4 DEF Job, Idle
<1>6. /\ job' \in [DocIds -> Job]
      /\ job'[d] = new
      /\ \A e \in DocIds \ {d} : job'[e] = job[e]
  BY <1>3, <1>5, JobType
<1> HIDE DEF new
<1>7. /\ stored' \in [DocIds -> SUBSET Nat]
      /\ stored'[d] = stored[d] \cup {j.next}
      /\ \A e \in DocIds \ {d} : stored'[e] = stored[e]
  BY <1>2, <1>3 DEF TypeOK
<1>8. TypeOK'
  BY <1>3, <1>6, <1>7 DEF TypeOK, environment
<1>9. Owned(d)' /\ Matched(d)'
  BY <1>1, <1>3, <1>5, <1>6, <1>7 DEF DocumentInv, Owned, Matched
<1>10. docs[d] # Absent
  BY <1>1, BusyIsProcessing DEF DocumentInv
<1>11. InOrder(d)'
  <2>1. /\ \A k \in lost[d] : k < j.next /\ k \in Nat
        /\ Len(j.made) + 1 = j.next \/ lost[d] # {}
        /\ \A i \in 1..Len(j.made) :
              /\ j.made[i] \in stored[d]
              /\ j.made[i] = i \/ \E k \in lost[d] : k < j.made[i]
    BY <1>1 DEF DocumentInv, InOrder, TypeOK
  <2>2. /\ Len(new.made) = Len(j.made) + 1
        /\ \A i \in 1..Len(j.made) : new.made[i] = j.made[i]
        /\ new.made[Len(j.made) + 1] = j.next
        /\ Len(j.made) \in Nat
    BY <1>2, <1>4
  <2>3. Len(new.made) + 1 = new.next \/ lost[d] # {}
    BY <1>2, <1>4, <2>1, <2>2
  <2>4. ASSUME NEW i \in 1..Len(new.made)
        PROVE  /\ new.made[i] \in stored'[d]
               /\ new.made[i] = i \/ \E k \in lost[d] : k < new.made[i]
    <3>1. CASE i \in 1..Len(j.made)
      BY <1>7, <2>1, <2>2, <3>1
    <3>2. CASE i = Len(j.made) + 1
      BY <1>7, <2>1, <2>2, <3>2
    <3>3. QED
      BY <2>2, <3>1, <3>2
  <2>5. \A k \in lost[d] : k < new.next
    BY <1>2, <1>4, <2>1
  <2>6. QED
    BY <1>3, <1>6, <2>3, <2>4, <2>5 DEF InOrder
<1>12. NothingLost(d)'
  BY <1>3, <1>4, <1>6, <1>10 DEF NothingLost
<1>13. Others(d)
  BY <1>3, <1>6, <1>7 DEF Others
<1>14. QED
  BY <1>8, <1>9, <1>11, <1>12, <1>13, OneDocument DEF DocumentInv

\* A chunk is lost: from then on the embeddings may belong to other chunks.
LEMMA StoreFailsStep ==
    ASSUME IndexInv, NEW d \in DocIds, StoreFails(d), UNCHANGED <<environment, cache, search>>
    PROVE  TypeOK' /\ \A e \in DocIds : DocumentInv(e)'
<1> USE DEF IndexInv
<1>1. DocumentInv(d) /\ job[d].pc = "store" /\ job[d] # Idle
  BY DEF StoreFails, Idle
<1> DEFINE j == job[d]
           new == [j EXCEPT !.next = @ + 1]
<1>2. /\ j \in [pc : {"store", "vectors"}, embedded : BOOLEAN, next : Nat, made : Seq(Nat)]
      /\ j.next \in Nat
      /\ j.made \in Seq(Nat)
  BY <1>1, StoringFields
<1>3. /\ At(d, new)
      /\ lost' = [lost EXCEPT ![d] = @ \cup {j.next}]
      /\ UNCHANGED <<docs, counted, stored, vectors, orphans>>
  BY DEF StoreFails
<1>4. /\ new \in [pc : {"store", "vectors"}, embedded : BOOLEAN, next : Nat, made : Seq(Nat)]
      /\ new.pc = "store"
      /\ new.next = j.next + 1
      /\ new.made = j.made
  BY <1>1, <1>2
<1>5. new \in Job /\ new # Idle
  BY <1>4 DEF Job, Idle
<1>6. /\ job' \in [DocIds -> Job]
      /\ job'[d] = new
      /\ \A e \in DocIds \ {d} : job'[e] = job[e]
  BY <1>3, <1>5, JobType
<1> HIDE DEF new
<1>7. /\ lost' \in [DocIds -> SUBSET Nat]
      /\ lost'[d] = lost[d] \cup {j.next}
      /\ \A e \in DocIds \ {d} : lost'[e] = lost[e]
  BY <1>2, <1>3 DEF TypeOK
<1>8. TypeOK'
  BY <1>3, <1>6, <1>7 DEF TypeOK, environment
<1>9. Owned(d)' /\ Matched(d)'
  BY <1>1, <1>3, <1>5, <1>6, <1>7 DEF DocumentInv, Owned, Matched
<1>10. docs[d] # Absent
  BY <1>1, BusyIsProcessing DEF DocumentInv
<1>11. InOrder(d)'
  <2>1. /\ \A k \in lost[d] : k < j.next /\ k \in Nat
        /\ \A i \in 1..Len(j.made) :
              /\ j.made[i] \in stored[d]
              /\ j.made[i] = i \/ \E k \in lost[d] : k < j.made[i]
    BY <1>1 DEF DocumentInv, InOrder, TypeOK
  <2>2. \A k \in lost'[d] : k < new.next
    BY <1>2, <1>4, <1>7, <2>1
  <2>3. QED
    BY <1>3, <1>4, <1>6, <1>7, <2>1, <2>2 DEF InOrder
<1>12. NothingLost(d)'
  BY <1>3, <1>4, <1>6, <1>10 DEF NothingLost
<1>13. Others(d)
  BY <1>3, <1>6, <1>7 DEF Others
<1>14. QED
  BY <1>8, <1>9, <1>11, <1>12, <1>13, OneDocument DEF DocumentInv

\* All chunks were tried.
LEMMA StoreEndsStep ==
    ASSUME IndexInv, NEW d \in DocIds, StoreEnds(d), UNCHANGED <<environment, cache, search>>
    PROVE  TypeOK' /\ \A e \in DocIds : DocumentInv(e)'
<1> USE DEF IndexInv
<1>1. DocumentInv(d) /\ job[d].pc = "store" /\ job[d] # Idle
  BY DEF StoreEnds, Idle
<1>2. UNCHANGED <<docs, counted, stored, vectors, lost, orphans>>
  BY DEF StoreEnds
<1>3. CASE ~job[d].embedded
  <2>1. [pc |-> "finish"] \in Job /\ At(d, [pc |-> "finish"])
    BY <1>3 DEF Job, StoreEnds
  <2>2. counted' \subseteq DocIds
    BY <1>2 DEF TypeOK
  <2>3. QED
    BY <1>1, <1>2, <2>1, <2>2, GoesOn
<1>4. CASE job[d].embedded
  <2> DEFINE new == [job[d] EXCEPT !.pc = "vectors"]
  <2>1. /\ new \in [pc : {"store", "vectors"}, embedded : BOOLEAN, next : Nat, made : Seq(Nat)]
        /\ new.pc = "vectors"
        /\ new.next = job[d].next
        /\ new.made = job[d].made
    BY <1>1, StoringFields
  <2>2. new \in Job /\ new # Idle
    BY <2>1 DEF Job, Idle
  <2>3. /\ job' \in [DocIds -> Job]
        /\ job'[d] = new
        /\ \A e \in DocIds \ {d} : job'[e] = job[e]
    BY <1>4, <2>2, JobType DEF StoreEnds
  <2> HIDE DEF new
  <2>4. TypeOK'
    BY <1>2, <2>3 DEF TypeOK, environment
  <2>5. Owned(d)' /\ Matched(d)'
    BY <1>1, <1>2, <2>2, <2>3 DEF DocumentInv, Owned, Matched
  <2>6. docs[d] # Absent
    BY <1>1, BusyIsProcessing DEF DocumentInv
  <2>7. InOrder(d)' /\ NothingLost(d)'
    BY <1>1, <1>2, <2>1, <2>3, <2>6 DEF DocumentInv, InOrder, NothingLost
  <2>8. Others(d)
    BY <1>2, <2>3 DEF Others
  <2>9. QED
    BY <2>4, <2>5, <2>7, <2>8, OneDocument DEF DocumentInv
<1>5. QED
  BY <1>3, <1>4

\* The vectors are written, by the numbers of what was stored.
LEMMA VectorsStep ==
    ASSUME IndexInv, NEW d \in DocIds, Vectors(d), UNCHANGED <<environment, cache, search>>
    PROVE  TypeOK' /\ \A e \in DocIds : DocumentInv(e)'
<1> USE DEF IndexInv
<1>1. DocumentInv(d) /\ job[d].pc = "vectors" /\ job[d] # Idle
  BY DEF Vectors, Idle
<1>2. job[d].made \in Seq(Nat)
  BY <1>1, StoringFields
<1>3. PICK written \in SUBSET Pairs(job[d].made) :
          vectors' = [vectors EXCEPT ![d] = written]
  BY DEF Vectors
<1>4. /\ At(d, [pc |-> "finish"])
      /\ UNCHANGED <<docs, counted, stored, lost, orphans>>
  BY DEF Vectors
<1>5. [pc |-> "finish"] \in Job
  BY DEF Job
<1>6. /\ job' \in [DocIds -> Job]
      /\ job'[d] = [pc |-> "finish"]
      /\ \A e \in DocIds \ {d} : job'[e] = job[e]
  BY <1>4, <1>5, JobType
<1>7. \A v \in written : \E i \in 1..Len(job[d].made) :
          v = <<job[d].made[i], i>> /\ job[d].made[i] \in Nat /\ i \in Nat
  <2>1. /\ DOMAIN job[d].made = 1..Len(job[d].made)
        /\ \A i \in 1..Len(job[d].made) : job[d].made[i] \in Nat /\ i \in Nat
    BY <1>2
  <2>2. QED
    BY <2>1 DEF Pairs
<1>8. written \subseteq Nat \X Nat
  BY <1>7
<1>9. /\ vectors' \in [DocIds -> SUBSET (Nat \X Nat)]
      /\ vectors'[d] = written
      /\ \A e \in DocIds \ {d} : vectors'[e] = vectors[e]
  BY <1>3, <1>8 DEF TypeOK
<1>10. TypeOK'
  BY <1>4, <1>6, <1>9 DEF TypeOK, environment
<1>11. Owned(d)'
  BY <1>1, <1>4, <1>6 DEF DocumentInv, Owned, Idle
<1>12. Matched(d)'
  BY <1>1, <1>4, <1>7, <1>9 DEF DocumentInv, InOrder, Matched
<1>13. docs[d] # Absent
  BY <1>1, BusyIsProcessing DEF DocumentInv
<1>14. InOrder(d)' /\ NothingLost(d)'
  BY <1>4, <1>6, <1>13 DEF InOrder, NothingLost
<1>15. Others(d)
  BY <1>4, <1>6, <1>9 DEF Others
<1>16. QED
  BY <1>10, <1>11, <1>12, <1>14, <1>15, OneDocument DEF DocumentInv

\* A step of the goroutine of d, whatever it does.
LEMMA IndexingStep ==
    ASSUME IndexInv, NEW d \in DocIds, Indexing(d)
    PROVE  TypeOK' /\ \A e \in DocIds : DocumentInv(e)'
<1> USE DEF IndexInv
<1>1. DocumentInv(d) /\ UNCHANGED <<environment, cache, search>>
  BY DEF Indexing
<1>2. [pc |-> "load"] \in Job /\ [pc |-> "fail"] \in Job
  BY DEF Job
<1>3. ASSUME Count(d) PROVE TypeOK' /\ \A e \in DocIds : DocumentInv(e)'
  <2>1. /\ job[d] # Idle
        /\ lost[d] = {}
        /\ counted' \subseteq DocIds
        /\ At(d, [pc |-> "load"])
        /\ UNCHANGED <<docs, stored, vectors, lost, orphans>>
    BY <1>1, <1>3 DEF Count, DocumentInv, NothingLost, TypeOK, Idle
  <2>2. QED
    BY <1>1, <1>2, <2>1, GoesOn
<1>4. ASSUME LoadFails(d) \/ FailLost(d) PROVE TypeOK' /\ \A e \in DocIds : DocumentInv(e)'
  <2>1. /\ job[d] # Idle
        /\ At(d, Idle)
        /\ orphans' = orphans \cup {d}
        /\ UNCHANGED <<docs, counted, stored, vectors, lost>>
    BY <1>4 DEF LoadFails, FailLost, Idle
  <2>2. QED
    BY <1>1, <2>1, Ends
<1>5. ASSUME Finish(d) \/ Fail(d) PROVE TypeOK' /\ \A e \in DocIds : DocumentInv(e)'
  <2>1. /\ job[d] # Idle
        /\ At(d, Idle)
        /\ \E status \in {"ready", "failed"} :
              docs' = [docs EXCEPT ![d].status = status, ![d].count = Total(d)]
        /\ UNCHANGED <<counted, stored, vectors, lost, orphans>>
    BY <1>5 DEF Finish, Fail, Idle
  <2>2. QED
    BY <1>1, <2>1, Ends
<1>6. ASSUME FinishFails(d) PROVE TypeOK' /\ \A e \in DocIds : DocumentInv(e)'
  <2>1. /\ job[d] # Idle
        /\ counted' \subseteq DocIds
        /\ At(d, [pc |-> "fail"])
        /\ UNCHANGED <<docs, counted, stored, vectors, lost, orphans>>
    BY <1>6 DEF FinishFails, Idle, TypeOK
  <2>2. QED
    BY <1>1, <1>2, <2>1, GoesOn
<1>7. QED
  BY <1>1, <1>3, <1>4, <1>5, <1>6, LoadStep, EmbedStep, StoreStep, StoreFailsStep,
     StoreEndsStep, VectorsStep DEF Indexing

-----------------------------------------------------------------------------
(***************************************************************************)
(* Searching.                                                              *)
(***************************************************************************)

\* What is ready stays ready, with the text it has, whatever is uploaded or indexed.
LEMMA ReadyStays ==
    ASSUME IndexInv, NEW d \in DocIds, Uploading(d) \/ Indexing(d), NEW q
    PROVE  WithSomeWord(q) \subseteq WithSomeWord(q)'
<1> USE DEF IndexInv
<1>1. \A e \in DocIds \ {d} : docs'[e] = docs[e]
  BY DEF Uploading, Upload, Indexing, Count, Load, LoadFails, Embed, Store, StoreFails,
         StoreEnds, Vectors, Finish, FinishFails, Fail, FailLost, TypeOK
<1>2. DocumentInv(d)
  OBVIOUS
<1>3. d \notin Ready
  <2>1. CASE Uploading(d)
    BY <2>1 DEF Uploading, Upload, Ready
  <2>2. CASE Indexing(d)
    <3>1. job[d] # Idle
      BY <2>2 DEF Indexing, Count, Load, LoadFails, Embed, Store, StoreFails, StoreEnds,
                  Vectors, Finish, FinishFails, Fail, FailLost, Idle
    <3>2. QED
      BY <1>2, <3>1, BusyIsProcessing DEF DocumentInv, Ready
  <2>3. QED
    BY <2>1, <2>2
<1>4. QED
  BY <1>1, <1>3 DEF WithSomeWord, Ready

\* Indexing leaves the searches and the cache as they are.
LEMMA SearchesGoOn ==
    ASSUME IndexInv, NEW d \in DocIds, Uploading(d) \/ Indexing(d)
    PROVE  SearchesAreSure' /\ CacheHolds'
<1> USE DEF IndexInv
<1>1. UNCHANGED <<cache, search>>
  BY DEF Uploading, Indexing
<1>2. ASSUME NEW s \in Searches PROVE Sure(s)'
  <2>1. Sure(s)
    BY DEF SearchesAreSure
  <2>2. WithSomeWord(search[s].query) \subseteq WithSomeWord(search[s].query)'
    BY <1>1, ReadyStays
  <2>3. QED
    BY <1>1, <2>1, <2>2 DEF Sure
<1>3. QED
  BY <1>1, <1>2 DEF SearchesAreSure, CacheHolds

\* What another step of the environment leaves of the documents.
LEMMA IndexStays ==
    ASSUME IndexInv, UNCHANGED index
    PROVE  /\ \A d \in DocIds : DocumentInv(d)'
           /\ \A q : WithSomeWord(q)' = WithSomeWord(q)
<1>1. \A d \in DocIds : DocumentInv(d)'
  BY DEF IndexInv, DocumentInv, Owned, Matched, InOrder, NothingLost, index
<1>2. \A q : WithSomeWord(q)' = WithSomeWord(q)
  BY DEF WithSomeWord, Ready, index
<1>3. QED
  BY <1>1, <1>2

\* A step of a search is as good as what it makes of its record and of the cache.
LEMMA SearchStep ==
    ASSUME IndexInv, NEW s \in Searches, NEW x \in Search, To(s, x),
           UNCHANGED <<environment, index>>,
           cache' \in [Keys -> (SUBSET DocIds) \cup {None}], CacheHolds',
           x.pc # "idle" => x.sure \subseteq WithSomeWord(x.query),
           x.pc \in {"rank", "cache"} => x.found # {},
           x.pc = "done" /\ x.found = {} => x.sure = {}
    PROVE  IndexInv'
<1>1. /\ search' \in [Searches -> Search]
      /\ search'[s] = x
      /\ \A t \in Searches \ {s} : search'[t] = search[t]
  BY DEF IndexInv, TypeOK, To
<1>2. TypeOK'
  BY <1>1 DEF IndexInv, TypeOK, environment, index
<1>3. /\ \A d \in DocIds : DocumentInv(d)'
      /\ \A q : WithSomeWord(q)' = WithSomeWord(q)
  BY IndexStays
<1>4. ASSUME NEW t \in Searches PROVE Sure(t)'
  <2>1. CASE t = s
    <3>1. x.pc # "idle" => x.sure \subseteq WithSomeWord(x.query)'
      BY <1>3
    <3>2. QED
      BY <1>1, <2>1, <3>1 DEF Sure
  <2>2. CASE t # s
    <3>1. Sure(t) /\ search'[t] = search[t]
      BY <1>1, <2>2 DEF IndexInv, SearchesAreSure
    <3>2. WithSomeWord(search[t].query)' = WithSomeWord(search'[t].query)
      BY <1>3, <3>1
    <3>3. QED
      BY <3>1, <3>2, <1>3 DEF Sure
  <2>3. QED
    BY <2>1, <2>2
<1>5. QED
  BY <1>2, <1>3, <1>4 DEF IndexInv, SearchesAreSure

\* What a search that runs has.
LEMMA SearchFields ==
    ASSUME IndexInv, NEW s \in Searches, search[s].pc # "idle"
    PROVE  /\ search[s] \in [pc : {"vector", "bm25", "tfidf", "rank", "cache", "done"},
                             query : Queries, found : SUBSET DocIds, sure : SUBSET DocIds]
           /\ search[s].query \in Queries
           /\ search[s].found \in SUBSET DocIds
           /\ search[s].sure \subseteq WithSomeWord(search[s].query)
BY DEF IndexInv, TypeOK, SearchesAreSure, Sure, Search, Idle

\* A search ends.
LEMMA SearchEnds ==
    ASSUME IndexInv, NEW s \in Searches, To(s, Idle), UNCHANGED <<environment, index, cache>>
    PROVE  IndexInv'
<1>1. Idle \in Search /\ Idle.pc = "idle"
  BY DEF Search, Idle
<1>2. cache' \in [Keys -> (SUBSET DocIds) \cup {None}] /\ CacheHolds'
  BY DEF IndexInv, TypeOK, CacheHolds
<1>3. QED
  BY <1>1, <1>2, SearchStep

\* A search goes to pc with what it has found.
LEMMA SearchGoes ==
    ASSUME IndexInv, NEW s \in Searches, search[s].pc # "idle",
           NEW pc \in {"vector", "bm25", "tfidf", "rank", "cache", "done"},
           NEW found \in SUBSET DocIds, Searching(s, pc, found),
           UNCHANGED <<environment, index>>,
           cache' \in [Keys -> (SUBSET DocIds) \cup {None}], CacheHolds',
           \/ found # {}
           \/ pc \in {"vector", "bm25", "tfidf"}
           \/ pc = "done" /\ search[s].sure = {}
    PROVE  IndexInv'
<1> DEFINE x == [search[s] EXCEPT !.pc = pc, !.found = found]
<1>1. /\ x \in Search /\ To(s, x)
      /\ x.pc = pc /\ x.found = found
      /\ x.query = search[s].query /\ x.sure = search[s].sure
  BY SearchFields DEF Search, Searching
<1>2. x.sure \subseteq WithSomeWord(x.query)
  BY <1>1, SearchFields
<1> HIDE DEF x
<1>3. QED
  BY <1>1, <1>2, SearchStep

\* A step of a search.
LEMMA AskingStep ==
    ASSUME IndexInv, NEW s \in Searches, Asking(s)
    PROVE  IndexInv'
<1>1. UNCHANGED <<environment, index>>
  BY DEF Asking
<1>2. ASSUME UNCHANGED cache
      PROVE  cache' \in [Keys -> (SUBSET DocIds) \cup {None}] /\ CacheHolds'
  BY <1>2 DEF IndexInv, TypeOK, CacheHolds
<1>3. \A q : WithSomeWord(q) \subseteq DocIds /\ WithAllWords(q) \subseteq DocIds
  BY DEF WithSomeWord, WithAllWords, Ready
<1>4. ASSUME NEW q \in Queries, Hit(s, q) PROVE IndexInv'
  <2> DEFINE x == [pc |-> "done", query |-> q, found |-> cache[Hash[q]],
                   sure |-> WithSomeWord(q)]
  <2>1. To(s, x) /\ UNCHANGED cache /\ cache[Hash[q]] # None /\ Hash[q] \in Keys
    BY <1>4 DEF Hit, Keys
  <2>2. cache[Hash[q]] \in SUBSET DocIds /\ cache[Hash[q]] # {}
    BY <2>1 DEF IndexInv, TypeOK, CacheHolds
  <2>3. x \in Search
    BY <1>3, <2>2 DEF Search
  <2>4. QED
    BY <1>1, <1>2, <2>1, <2>2, <2>3, SearchStep
<1>5. ASSUME NEW q \in Queries, Miss(s, q) PROVE IndexInv'
  <2> DEFINE pc == IF pg THEN "vector" ELSE "tfidf"
             x == [pc |-> pc, query |-> q, found |-> {}, sure |-> WithSomeWord(q)]
  <2>1. To(s, x) /\ UNCHANGED cache
    BY <1>5 DEF Miss
  <2>2. x \in Search /\ x.pc \notin {"idle", "rank", "cache", "done"}
    BY <1>3 DEF Search
  <2>3. QED
    BY <1>1, <1>2, <2>1, <2>2, SearchStep
<1>6. ASSUME VectorSearch(s) PROVE IndexInv'
  <2>1. PICK found \in {{}} \cup Limited(WithVector) : Searching(s, "bm25", found)
    BY <1>6 DEF VectorSearch
  <2>2. found \in SUBSET DocIds /\ search[s].pc # "idle" /\ UNCHANGED cache
    BY <1>6 DEF VectorSearch, Limited, WithVector, Ready
  <2>3. QED
    BY <1>1, <1>2, <2>1, <2>2, SearchGoes
<1>7. ASSUME Bm25Search(s) PROVE IndexInv'
  <2>1. search[s].pc # "idle" /\ UNCHANGED cache
    BY <1>7 DEF Bm25Search
  <2>2. search[s].found \in SUBSET DocIds
    BY <2>1, SearchFields
  <2>3. PICK more \in {{}} \cup Limited(WithAllWords(search[s].query)) :
            Searching(s, IF search[s].found \cup more = {} THEN "tfidf" ELSE "rank",
                      search[s].found \cup more)
    BY <1>7 DEF Bm25Search, RRFusion
  <2>4. search[s].found \cup more \in SUBSET DocIds
    BY <1>3, <2>2 DEF Limited
  <2>5. CASE search[s].found \cup more = {}
    <3>1. Searching(s, "tfidf", search[s].found \cup more)
      BY <2>3, <2>5
    <3>2. QED
      BY <1>1, <1>2, <2>1, <2>4, <3>1, SearchGoes
  <2>6. CASE search[s].found \cup more # {}
    <3>1. Searching(s, "rank", search[s].found \cup more)
      BY <2>3, <2>6
    <3>2. QED
      BY <1>1, <1>2, <2>1, <2>4, <2>6, <3>1, SearchGoes
  <2>7. QED
    BY <2>5, <2>6
<1>8. ASSUME TfidfSearch(s) PROVE IndexInv'
  <2>1. search[s].pc # "idle" /\ UNCHANGED cache
    BY <1>8 DEF TfidfSearch
  <2>2. CASE WithSomeWord(search[s].query) = {}
    <3>1. Searching(s, "done", {}) /\ search[s].sure = {}
      BY <1>8, <2>1, <2>2, SearchFields DEF TfidfSearch
    <3>2. QED
      BY <1>1, <1>2, <2>1, <3>1, SearchGoes
  <2>3. CASE WithSomeWord(search[s].query) # {}
    <3>1. PICK found \in Limited(WithSomeWord(search[s].query)) : Searching(s, "rank", found)
      BY <1>8, <2>3 DEF TfidfSearch
    <3>2. found \in SUBSET DocIds /\ found # {}
      BY <1>3 DEF Limited
    <3>3. QED
      BY <1>1, <1>2, <2>1, <3>1, <3>2, SearchGoes
  <2>4. QED
    BY <2>2, <2>3
<1>9. ASSUME TfidfFails(s) \/ RankPanics(s) \/ Return(s) PROVE IndexInv'
  <2>1. To(s, Idle) /\ UNCHANGED cache
    BY <1>9 DEF TfidfFails, RankPanics, Return
  <2>2. QED
    BY <1>1, <2>1, SearchEnds
<1>10. ASSUME Rank(s) PROVE IndexInv'
  <2>1. search[s].pc # "idle" /\ UNCHANGED cache
    BY <1>10 DEF Rank
  <2>2. PICK found \in Limited(search[s].found) : Searching(s, "cache", found)
    BY <1>10 DEF Rank
  <2>3. found \in SUBSET DocIds /\ found # {}
    BY <2>1, SearchFields DEF Limited
  <2>4. QED
    BY <1>1, <1>2, <2>1, <2>2, <2>3, SearchGoes
<1>11. ASSUME SetCache(s) PROVE IndexInv'
  <2> DEFINE h == Hash[search[s].query]
             found == search[s].found
  <2>1. /\ search[s].pc = "cache"
        /\ cache' \in {cache, [cache EXCEPT ![h] = found]}
        /\ Searching(s, "done", found)
    BY <1>11 DEF SetCache
  <2>2. search[s].query \in Queries /\ found \in SUBSET DocIds /\ found # {}
    BY <2>1, SearchFields DEF IndexInv, SearchesAreSure, Sure
  <2>3. h \in Keys
    BY <2>2 DEF Keys
  <2>4. cache' \in [Keys -> (SUBSET DocIds) \cup {None}] /\ CacheHolds'
    BY <2>1, <2>2, <2>3 DEF IndexInv, TypeOK, CacheHolds
  <2>5. QED
    BY <1>1, <2>1, <2>2, <2>4, SearchGoes
<1>12. QED
  BY <1>4, <1>5, <1>6, <1>7, <1>8, <1>9, <1>10, <1>11 DEF Asking

-----------------------------------------------------------------------------
(***************************************************************************)
(* The other steps and the theorems.                                       *)
(***************************************************************************)

\* An entry of the cache expires.
LEMMA ExpiringStep ==
    ASSUME IndexInv, NEW h \in Keys, Expiring(h)
    PROVE  IndexInv'
<1>1. /\ \A d \in DocIds : DocumentInv(d)'
      /\ \A q : WithSomeWord(q)' = WithSomeWord(q)
  BY IndexStays DEF Expiring
<1>2. TypeOK' /\ CacheHolds'
  BY DEF IndexInv, TypeOK, CacheHolds, Expiring, Expire, environment, index
<1>3. UNCHANGED search
  BY DEF Expiring, Expire
<1>4. ASSUME NEW s \in Searches PROVE Sure(s)'
  BY <1>1, <1>3 DEF IndexInv, SearchesAreSure, Sure
<1>5. QED
  BY <1>1, <1>2, <1>4 DEF IndexInv, SearchesAreSure

\* The process crashes: whoever had a document has none any more, and the document
\* is left behind.
LEMMA CrashStep ==
    ASSUME IndexInv, Crash
    PROVE  IndexInv'
<1>1. TypeOK'
  <2>1. TypeOK /\ Idle \in Job /\ Idle \in Search
    BY DEF IndexInv, Job, Search
  <2>2. job' \in [DocIds -> Job] /\ search' \in [Searches -> Search]
    BY <2>1 DEF Crash
  <2>3. up' \in BOOLEAN /\ orphans' \subseteq DocIds
    BY <2>1, Zenon DEF TypeOK, Crash
  <2>4. crashes' \in Nat
    <3>1. crashes \in Nat /\ crashes' = crashes + 1
      BY <2>1 DEF TypeOK, Crash
    <3>2. QED
      BY <3>1
  <2>5. QED
    BY <2>1, <2>2, <2>3, <2>4 DEF TypeOK, Crash
<1>2. ASSUME NEW d \in DocIds PROVE DocumentInv(d)'
  <2>1. /\ DocumentInv(d) /\ job'[d] = Idle
        /\ (d \in orphans') <=> (d \in orphans \/ job[d] # Idle)
        /\ UNCHANGED <<docs, stored, vectors, lost>>
    BY DEF IndexInv, Crash
  <2>2. QED
    BY <2>1 DEF DocumentInv, Owned, Matched, InOrder, NothingLost, Idle
<1>3. SearchesAreSure' /\ CacheHolds'
  BY DEF IndexInv, SearchesAreSure, Sure, CacheHolds, Crash, Idle
<1>4. QED
  BY <1>1, <1>2, <1>3 DEF IndexInv

\* IndexInv is an inductive invariant.
LEMMA IndexInvariant == Spec => []IndexInv
<1>1. Init => IndexInv
  <2> SUFFICES ASSUME Init PROVE IndexInv
    OBVIOUS
  <2>1. TypeOK
    BY IndexAssumption DEF Init, TypeOK, Job, Search
  <2>2. \A d \in DocIds : DocumentInv(d)
    BY DEF Init, DocumentInv, Owned, Matched, InOrder, NothingLost, Idle
  <2>3. SearchesAreSure /\ CacheHolds
    BY DEF Init, SearchesAreSure, Sure, CacheHolds, Idle
  <2>4. QED
    BY <2>1, <2>2, <2>3 DEF IndexInv
<1>2. IndexInv /\ [Next]_vars => IndexInv'
  <2> SUFFICES ASSUME IndexInv, [Next]_vars PROVE IndexInv'
    OBVIOUS
  <2>1. CASE UNCHANGED vars
    <3>1. UNCHANGED <<environment, index, cache, search>>
      BY <2>1 DEF vars, environment, index
    <3>2. /\ \A d \in DocIds : DocumentInv(d)'
          /\ \A q : WithSomeWord(q)' = WithSomeWord(q)
      BY <3>1, IndexStays
    <3>3. TypeOK' /\ CacheHolds'
      BY <3>1 DEF IndexInv, TypeOK, CacheHolds, environment, index
    <3>4. ASSUME NEW s \in Searches PROVE Sure(s)'
      BY <3>1, <3>2 DEF IndexInv, SearchesAreSure, Sure
    <3>5. QED
      BY <3>2, <3>3, <3>4 DEF IndexInv, SearchesAreSure
  <2>2. ASSUME NEW d \in DocIds, Uploading(d) \/ Indexing(d) PROVE IndexInv'
    BY <2>2, UploadStep, IndexingStep, SearchesGoOn DEF IndexInv
  <2>3. ASSUME Restart PROVE IndexInv'
    <3>1. UNCHANGED <<index, cache, search>>
      BY <2>3 DEF Restart
    <3>2. /\ \A d \in DocIds : DocumentInv(d)'
          /\ \A q : WithSomeWord(q)' = WithSomeWord(q)
      BY <3>1, IndexStays
    <3>3. TypeOK' /\ CacheHolds'
      BY <2>3 DEF IndexInv, TypeOK, CacheHolds, Restart, index
    <3>4. ASSUME NEW s \in Searches PROVE Sure(s)'
      BY <3>1, <3>2 DEF IndexInv, SearchesAreSure, Sure
    <3>5. QED
      BY <3>2, <3>3, <3>4 DEF IndexInv, SearchesAreSure
  <2>4. QED
    BY <2>1, <2>2, <2>3, AskingStep, ExpiringStep, CrashStep DEF Next
<1>3. QED
  BY <1>1, <1>2, PTL DEF Spec

\* The documents, what is stored of them, the goroutines, the cache and the searches
\* have the shapes that rag.go and the document handlers give them.
THEOREM IndexTypes == Spec => []TypeOK
<1>1. IndexInv => TypeOK
  BY DEF IndexInv
<1>2. QED
  BY <1>1, IndexInvariant, PTL

\* A document is processing exactly while the goroutine of its upload has it, or for
\* ever when that one crashed or could not read or write it.
THEOREM IndexOwned == Spec => []ProcessingIsOwned
<1>1. IndexInv => ProcessingIsOwned
  BY DEF IndexInv, DocumentInv, Owned, ProcessingIsOwned
<1>2. QED
  BY <1>1, IndexInvariant, PTL

\* Each vector belongs to the chunk it is of, unless an insert before it failed.
THEOREM IndexVectors == Spec => []VectorsMatch
<1>1. IndexInv => VectorsMatch
  BY DEF IndexInv, DocumentInv, Matched, VectorsMatch
<1>2. QED
  BY <1>1, IndexInvariant, PTL

\* No search is answered with nothing while a document that has been ready since it
\* began has a word of it.
THEOREM IndexNeverBlank == Spec => []NeverBlank
<1>1. IndexInv => NeverBlank
  BY DEF IndexInv, SearchesAreSure, Sure, NeverBlank
<1>2. QED
  BY <1>1, IndexInvariant, PTL

-----------------------------------------------------------------------------
(***************************************************************************)
(* The index is whole.                                                     *)
(***************************************************************************)

\* Before the first insert nothing is stored.  Then the chunks before the next one
\* are stored or lost, in the end all of them, and so it stays.
Whole(d) ==
    /\ docs[d] = Absent \/ job[d].pc \in {"count", "load", "embed"} => stored[d] = {}
    /\ job[d].pc = "store" =>
          /\ job[d].next \in 1..(Total(d) + 1)
          /\ stored[d] \cup lost[d] = 1..(job[d].next - 1)
    /\ job[d].pc \in {"vectors", "finish", "fail"} => stored[d] \cup lost[d] = 1..Total(d)
    /\ docs[d] # Absent /\ docs[d].status = "ready" =>
          /\ docs[d].count = Total(d)
          /\ stored[d] \cup lost[d] = 1..Total(d)

\* A step that leaves the document of d and its goroutine alone.
LEMMA WholeStays ==
    ASSUME NEW d \in DocIds, Whole(d),
           docs'[d] = docs[d], job'[d] = job[d] \/ job'[d] = Idle,
           stored'[d] = stored[d], lost'[d] = lost[d]
    PROVE  Whole(d)'
<1>1. Total(d)' = Total(d)
  BY DEF Total
<1>2. CASE job'[d] = job[d]
  BY <1>1, <1>2 DEF Whole
<1>3. CASE job'[d] = Idle
  BY <1>1, <1>3 DEF Whole, Idle
<1>4. QED
  BY <1>2, <1>3

\* A step of the goroutine of d.
LEMMA WholeStep ==
    ASSUME IndexInv, NEW d \in DocIds, Whole(d), Indexing(d)
    PROVE  Whole(d)'
<1>1. TypeOK /\ DocumentInv(d)
  BY DEF IndexInv
<1>2. job[d] # Idle /\ job[d].pc # "idle"
  BY DEF Indexing, Count, Load, LoadFails, Embed, Store, StoreFails, StoreEnds, Vectors,
         Finish, FinishFails, Fail, FailLost, Idle
<1>3. docs[d] \in Document /\ docs[d].status = "processing" /\ docs[d] # Absent
  BY <1>1, <1>2, BusyIsProcessing DEF DocumentInv
<1>4. Total(d) \in Nat
  BY <1>1, <1>3, TotalType
<1>5. job[d].pc \in {"count", "load", "embed"} => lost[d] = {} /\ stored[d] = {}
  BY <1>1 DEF DocumentInv, NothingLost, Whole
<1>6. ASSUME NEW j, At(d, j) PROVE job'[d] = j
  BY <1>1, <1>6 DEF TypeOK, At
<1>7. UNCHANGED docs => Total(d)' = Total(d) /\ docs'[d].status = "processing" /\ docs'[d] # Absent
  BY <1>3 DEF Total
<1>8. ASSUME Count(d) PROVE Whole(d)'
  <2>1. job'[d].pc = "load" /\ stored'[d] = {} /\ UNCHANGED docs
    BY <1>5, <1>6, <1>8 DEF Count
  <2>2. QED
    BY <1>7, <2>1 DEF Whole
<1>9. ASSUME Load(d) PROVE Whole(d)'
  <2>1. stored'[d] = {} /\ lost'[d] = {} /\ UNCHANGED docs
    BY <1>1, <1>5, <1>9 DEF Load, TypeOK
  <2>2. CASE Total(d) = 0
    <3>1. job'[d].pc = "finish"
      BY <1>6, <1>9, <2>2 DEF Load
    <3>2. 1..Total(d)' = {}
      BY <1>7, <2>1, <2>2
    <3>3. QED
      BY <1>7, <2>1, <3>1, <3>2 DEF Whole
  <2>3. CASE Total(d) # 0
    <3>1. job'[d].pc = "embed"
      BY <1>6, <1>9, <2>3 DEF Load
    <3>2. QED
      BY <1>7, <2>1, <3>1 DEF Whole
  <2>4. QED
    BY <2>2, <2>3
<1>10. ASSUME LoadFails(d) \/ FailLost(d) PROVE Whole(d)'
  <2>1. job'[d] = Idle /\ UNCHANGED <<docs, stored, lost>>
    BY <1>6, <1>10 DEF LoadFails, FailLost
  <2>2. QED
    BY <2>1, WholeStays
<1>11. ASSUME Embed(d) PROVE Whole(d)'
  <2>1. PICK ok \in {FALSE, pg} :
            At(d, [pc |-> "store", embedded |-> ok, next |-> 1, made |-> <<>>])
    BY <1>11 DEF Embed
  <2>2. job'[d].pc = "store" /\ job'[d].next = 1
    BY <1>6, <2>1
  <2>3. stored'[d] \cup lost'[d] = {} /\ UNCHANGED docs
    BY <1>5, <1>11 DEF Embed
  <2>4. 1 \in 1..(Total(d) + 1) /\ 1..(1 - 1) = {}
    BY <1>4
  <2>5. QED
    BY <1>7, <2>2, <2>3, <2>4 DEF Whole
<1>12. ASSUME Store(d) \/ StoreFails(d) PROVE Whole(d)'
  <2> DEFINE n == job[d].next
  <2>1. job[d].pc = "store" /\ n <= Total(d) /\ UNCHANGED docs
    BY <1>12 DEF Store, StoreFails
  <2>2. /\ job[d] \in [pc : {"store", "vectors"}, embedded : BOOLEAN, next : Nat, made : Seq(Nat)]
        /\ n \in Nat
    BY <1>1, <2>1, StoringFields
  <2>3. n \in 1..(Total(d) + 1) /\ stored[d] \cup lost[d] = 1..(n - 1)
    BY <2>1 DEF Whole
  <2>4. job'[d].pc = "store" /\ job'[d].next = n + 1
    <3>1. CASE Store(d)
      <4>1. job'[d] = [job[d] EXCEPT !.next = @ + 1, !.made = Append(@, n)]
        BY <1>6, <3>1 DEF Store
      <4>2. QED
        BY <2>1, <2>2, <4>1
    <3>2. CASE StoreFails(d)
      <4>1. job'[d] = [job[d] EXCEPT !.next = @ + 1]
        BY <1>6, <3>2 DEF StoreFails
      <4>2. QED
        BY <2>1, <2>2, <4>1
    <3>3. QED
      BY <1>12, <3>1, <3>2
  <2>5. stored'[d] \cup lost'[d] = (stored[d] \cup lost[d]) \cup {n}
    BY <1>1, <1>12 DEF Store, StoreFails, TypeOK
  <2> HIDE DEF n
  <2>6. (1..(n - 1)) \cup {n} = 1..((n + 1) - 1) /\ n + 1 \in 1..(Total(d) + 1)
    BY <1>4, <2>1, <2>2, <2>3
  <2>7. QED
    BY <1>7, <2>1, <2>3, <2>4, <2>5, <2>6 DEF Whole
<1>13. ASSUME StoreEnds(d) PROVE Whole(d)'
  <2>1. job[d].pc = "store" /\ job[d].next > Total(d) /\ UNCHANGED <<docs, stored, lost>>
    BY <1>13 DEF StoreEnds
  <2>2. /\ job[d] \in [pc : {"store", "vectors"}, embedded : BOOLEAN, next : Nat, made : Seq(Nat)]
        /\ job[d].next \in Nat
    BY <1>1, <2>1, StoringFields
  <2>3. job'[d].pc \in {"vectors", "finish"}
    <3>1. job'[d] = IF job[d].embedded THEN [job[d] EXCEPT !.pc = "vectors"] ELSE [pc |-> "finish"]
      BY <1>6, <1>13 DEF StoreEnds
    <3>2. [job[d] EXCEPT !.pc = "vectors"].pc = "vectors"
      BY <2>2
    <3>3. QED
      BY <3>1, <3>2
  <2>4. job[d].next = Total(d) + 1 /\ job[d].next - 1 = Total(d)
    <3>1. job[d].next \in 1..(Total(d) + 1)
      BY <2>1 DEF Whole
    <3>2. job[d].next > Total(d)
      BY <2>1
    <3>3. QED
      BY <1>4, <2>2, <3>1, <3>2
  <2>5. stored[d] \cup lost[d] = 1..Total(d)
    BY <2>1, <2>4 DEF Whole
  <2>6. QED
    BY <1>7, <2>1, <2>3, <2>5 DEF Whole
<1>14. ASSUME Vectors(d) \/ FinishFails(d) PROVE Whole(d)'
  <2>1. /\ job[d].pc \in {"vectors", "finish"} /\ job'[d].pc \in {"finish", "fail"}
        /\ UNCHANGED <<docs, stored, lost>>
    BY <1>6, <1>14 DEF Vectors, FinishFails
  <2>2. stored[d] \cup lost[d] = 1..Total(d)
    BY <2>1 DEF Whole
  <2>3. QED
    BY <1>7, <2>1, <2>2 DEF Whole
<1>15. ASSUME Finish(d) \/ Fail(d) PROVE Whole(d)'
  <2>1. PICK status \in {"ready", "failed"} :
            docs' = [docs EXCEPT ![d].status = status, ![d].count = Total(d)]
    BY <1>15 DEF Finish, Fail
  <2>2. job[d].pc \in {"finish", "fail"} /\ job'[d] = Idle /\ UNCHANGED <<stored, lost>>
    BY <1>6, <1>15 DEF Finish, Fail
  <2>3. /\ docs'[d].content = docs[d].content /\ docs'[d].count = Total(d)
        /\ docs'[d].status = status
    BY <1>1, <1>3, <2>1 DEF TypeOK, Document
  <2>4. Total(d)' = Total(d) /\ docs'[d] # Absent
    BY <2>3 DEF Total, Absent
  <2>5. stored[d] \cup lost[d] = 1..Total(d)
    BY <2>2 DEF Whole
  <2>6. QED
    BY <2>2, <2>3, <2>4, <2>5 DEF Whole, Idle
<1>16. QED
  BY <1>8, <1>9, <1>10, <1>11, <1>12, <1>13, <1>14, <1>15 DEF Indexing

\* An upload of d.
LEMMA WholeUpload ==
    ASSUME IndexInv, NEW d \in DocIds, Whole(d), Uploading(d)
    PROVE  Whole(d)'
<1>1. docs[d] = Absent /\ At(d, [pc |-> "count"]) /\ UNCHANGED stored
  BY DEF Uploading, Upload
<1>2. PICK c \in Contents :
          docs' = [docs EXCEPT ![d] = [status |-> "processing", content |-> c, count |-> 0]]
  BY DEF Uploading, Upload
<1>3. stored'[d] = {}
  BY <1>1 DEF Whole
<1>4. job'[d].pc = "count" /\ docs'[d].status = "processing"
  BY <1>1, <1>2 DEF IndexInv, TypeOK, At
<1>5. QED
  BY <1>3, <1>4 DEF Whole

\* What is stored and lost is whole at any time.
LEMMA WholeInvariant == Spec => [](\A d \in DocIds : Whole(d))
<1> DEFINE Inv == \A d \in DocIds : Whole(d)
<1>1. Init => Inv
  BY DEF Init, Whole, Idle, Absent
<1>2. IndexInv /\ Inv /\ [Next]_vars => Inv'
  <2> SUFFICES ASSUME IndexInv, Inv, [Next]_vars, NEW e \in DocIds PROVE Whole(e)'
    OBVIOUS
  <2>1. ASSUME NEW d \in DocIds, Uploading(d) \/ Indexing(d) PROVE Whole(e)'
    <3>1. CASE e = d
      BY <2>1, <3>1, WholeStep, WholeUpload
    <3>2. CASE e # d
      <4>1. /\ docs'[e] = docs[e] /\ job'[e] = job[e]
            /\ stored'[e] = stored[e] /\ lost'[e] = lost[e]
        BY <2>1, <3>2 DEF IndexInv, TypeOK, Uploading, Upload, Indexing, Count, Load, LoadFails,
           Embed, Store, StoreFails, StoreEnds, Vectors, Finish, FinishFails, Fail, FailLost, At
      <4>2. QED
        BY <4>1, WholeStays
    <3>3. QED
      BY <3>1, <3>2
  <2>2. ASSUME UNCHANGED index PROVE Whole(e)'
    BY <2>2, WholeStays DEF index
  <2>3. ASSUME Crash PROVE Whole(e)'
    <3>1. job'[e] = Idle /\ UNCHANGED <<docs, stored, lost>>
      BY <2>3 DEF Crash
    <3>2. QED
      BY <3>1, WholeStays
  <2>4. ASSUME UNCHANGED vars \/ Restart \/ (\E s \in Searches : Asking(s))
                 \/ (\E h \in Keys : Expiring(h))
        PROVE  UNCHANGED index
    BY <2>4 DEF vars, index, Restart, Asking, Expiring
  <2>5. QED
    BY <2>1, <2>2, <2>3, <2>4 DEF Next
<1> HIDE DEF Inv
<1>3. Spec => []Inv
  BY <1>1, <1>2, IndexInvariant, PTL DEF Spec
<1>4. QED
  BY <1>3 DEF Inv

\* A document that is ready is in the index as a whole: every character of it is in a
\* chunk that is stored or whose insert failed, no chunk has more than ChunkSize
\* characters, or one more when it is of several paragraphs, and chunk_count is the
\* number of chunks.
THEOREM IndexReadyIsWhole == Spec => []ReadyIsWhole
<1> DEFINE Inv == \A d \in DocIds : Whole(d)
<1>1. IndexInv /\ Inv => ReadyIsWhole
  <2> SUFFICES ASSUME IndexInv, Inv, NEW d \in Ready
               PROVE  LET text == docs[d].content
                          there == stored[d] \cup lost[d] IN
                      /\ there = 1..docs[d].count
                      /\ \A p \in DOMAIN text : \A x \in 1..text[p].runes :
                            \E k \in there : Holds(Chunks(text)[k], p, x)
                      /\ \A k \in there : Length(Chunks(text)[k]) <= MostChars(Chunks(text)[k])
    BY DEF ReadyIsWhole
  <2> DEFINE text == docs[d].content
             there == stored[d] \cup lost[d]
  <2>1. d \in DocIds /\ docs[d] # Absent /\ docs[d].status = "ready" /\ docs[d] \in Document
    BY DEF Ready, IndexInv, TypeOK
  <2>2. there = 1..docs[d].count /\ there = 1..Len(Chunks(text))
    BY <2>1 DEF Whole, Total
  <2>3. text \in Contents
    BY <2>1 DEF Document
  <2>4. text \in Seq(Paragraphs(Words)) /\ \A p \in DOMAIN text : text[p].runes <= text[p].bytes
    BY <2>3, IndexAssumption
  <2>5. /\ \A k \in 1..Len(Chunks(text)) : Length(Chunks(text)[k]) <= MostChars(Chunks(text)[k])
        /\ \A p \in DOMAIN text : \A x \in 1..text[p].runes :
              \E k \in 1..Len(Chunks(text)) : Holds(Chunks(text)[k], p, x)
    BY <2>4, ChunksHold DEF Chunks
  <2> HIDE DEF text, there
  <2>6. /\ there = 1..docs[d].count
        /\ \A p \in DOMAIN text : \A x \in 1..text[p].runes :
              \E k \in there : Holds(Chunks(text)[k], p, x)
        /\ \A k \in there : Length(Chunks(text)[k]) <= MostChars(Chunks(text)[k])
    BY <2>2, <2>5
  <2>7. QED
    BY <2>6 DEF text, there
<1>2. Spec => []Inv
  BY WholeInvariant
<1> HIDE DEF Inv
<1>3. QED
  BY <1>1, <1>2, IndexInvariant, PTL
=============================================================================
