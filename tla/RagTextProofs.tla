---------------------------- MODULE RagTextProofs ----------------------------
(***************************************************************************)
(* Proofs about RagText, for every document and any windows, batches and   *)
(* rankings.                                                               *)
(***************************************************************************)
EXTENDS RagText, DataFacts

(***************************************************************************)
(* Views.  A paragraph and a section are, to what follows, the same thing: *)
(* a heading, words and the page of each word.  Parsing, merging and       *)
(* grouping all make a list of views longer by one view, or join it to the *)
(* last one when the headings agree (Grown), and so keep what makes such a *)
(* list one of Blocks: its words are those of the text so far, and each    *)
(* view stands on lines of its own, under its heading.                     *)
(***************************************************************************)
BlankIn(d, k) == d.format # "pdf" /\ d.lines[k].words = 0

HeadingIn(d, k) == d.lines[k].large /\ ~BlankIn(d, k) /\ ~(d.format = "pdf" /\ d.lines[k].ocr)

TitleIn(d, k) ==
    LET above == {j \in 1 .. k - 1 : HeadingIn(d, j)}
    IN  IF above = {} THEN NoTitle
        ELSE d.lines[CHOOSE j \in above : \A i \in above : i <= j].title

PageIn(d, k) == d.lines[k].page

Word == Nat \X Nat

View(d) == [heading : {TitleIn(d, k) : k \in Nat}, words : Seq(Word),
            pages : Seq({PageIn(d, k) : k \in Nat})]

\* View v stands on lines a to b of document d.
Block(v, a, b, d) ==
    /\ v \in View(d)
    /\ a \in Nat \ {0} /\ b \in Nat /\ a <= b /\ TitleIn(d, a) = v.heading
    /\ Len(v.pages) = Len(v.words)
    /\ \A i \in 1 .. Len(v.words) :
          /\ v.words[i][1] \in a .. b /\ TitleIn(d, v.words[i][1]) = v.heading
          /\ v.pages[i] = PageIn(d, v.words[i][1])

WordsIn(vs) == [k \in DOMAIN vs |-> vs[k].words]

Placed(vs, lo, hi, m, d) ==
    /\ \A k \in DOMAIN vs : Block(vs[k], lo[k], hi[k], d) /\ hi[k] <= m
    /\ \A j, k \in DOMAIN vs : j < k => hi[j] < lo[k]

Blocks(vs, W, m, d) ==
    /\ vs \in Seq(View(d)) /\ m \in Nat /\ FlattenSeq(WordsIn(vs)) = W
    /\ \E lo, hi : Placed(vs, lo, hi, m, d)

Join(u, v) == [heading |-> u.heading, words |-> u.words \o v.words, pages |-> u.pages \o v.pages]

Grown(vs, v, vt) ==
    \/ vt = Append(vs, v)
    \/ /\ vs # <<>> /\ Last(vs).heading = v.heading
       /\ vt = Append(Front(vs), Join(Last(vs), v))

LEMMA NoBlocks ==
  ASSUME NEW d
  PROVE  Blocks(<<>>, <<>>, 0, d)
<1>1. WordsIn(<<>>) = <<>>
  BY DEF WordsIn
<1>2. Placed(<<>>, <<>>, <<>>, 0, d)
  BY DEF Placed
<1> QED
  BY <1>1, <1>2, FlattenEmpty, EmptySeq DEF Blocks

LEMMA BlocksReach ==
  ASSUME NEW d, NEW vs, NEW W, NEW m, Blocks(vs, W, m, d), NEW n \in Nat, n >= m
  PROVE  Blocks(vs, W, n, d)
<1>1. PICK lo, hi : Placed(vs, lo, hi, m, d)
  BY DEF Blocks
<1>2. Placed(vs, lo, hi, n, d)
  <2>1. m \in Nat
    BY DEF Blocks
  <2>2. \A k \in DOMAIN vs : hi[k] \in Nat /\ hi[k] <= m
    BY <1>1 DEF Placed, Block
  <2> QED
    BY <1>1, <2>1, <2>2 DEF Placed
<1> QED
  BY <1>2 DEF Blocks

LEMMA WordsAppend ==
  ASSUME NEW d, NEW vs \in Seq(View(d)), NEW v \in View(d)
  PROVE  /\ WordsIn(vs) \in Seq(Seq(Word))
         /\ FlattenSeq(WordsIn(vs)) \in Seq(Word)
         /\ FlattenSeq(WordsIn(Append(vs, v))) = FlattenSeq(WordsIn(vs)) \o v.words
<1> DEFINE n == Len(vs)
           vt == Append(vs, v)
<1>1. n \in Nat /\ DOMAIN vs = 1 .. n /\ \A k \in 1 .. n : vs[k] \in View(d)
  BY LenProperties, ElementOfSeq
<1>2. /\ DOMAIN vt = 1 .. n + 1 /\ vt[n + 1] = v /\ \A k \in 1 .. n : vt[k] = vs[k]
      /\ vt \in Seq(View(d))
  BY AppendProperties, LenProperties
<1>3. v.words \in Seq(Word) /\ \A k \in 1 .. n : vs[k].words \in Seq(Word)
  BY <1>1 DEF View
<1> HIDE DEF n, vt
<1>4. WordsIn(vs) = [k \in 1 .. n |-> vs[k].words]
  BY <1>1 DEF WordsIn
<1>5. WordsIn(vs) \in Seq(Seq(Word)) /\ Len(WordsIn(vs)) = n
  BY <1>1, <1>3, <1>4
<1>6. WordsIn(vt) = Append(WordsIn(vs), v.words)
  <2>1. WordsIn(vt) = [k \in 1 .. n + 1 |-> vt[k].words]
    BY <1>2 DEF WordsIn
  <2>2. ASSUME NEW k \in 1 .. n + 1 PROVE vt[k].words \in Seq(Word)
    <3>1. k \in 1 .. n \/ k = n + 1
      BY <1>1
    <3> QED
      BY <1>2, <1>3, <3>1
  <2>3. WordsIn(vt) \in Seq(Seq(Word)) /\ Len(WordsIn(vt)) = n + 1
    BY <1>1, <2>1, <2>2
  <2>4. /\ Append(WordsIn(vs), v.words) \in Seq(Seq(Word))
        /\ Len(Append(WordsIn(vs), v.words)) = n + 1
        /\ \A k \in 1 .. n : Append(WordsIn(vs), v.words)[k] = vs[k].words
        /\ Append(WordsIn(vs), v.words)[n + 1] = v.words
    <3> DEFINE ws == WordsIn(vs)
               w == v.words
    <3>1. ws \in Seq(Seq(Word)) /\ Len(ws) = n /\ w \in Seq(Word)
      BY <1>3, <1>5
    <3>2. \A k \in 1 .. n : ws[k] = vs[k].words
      BY <1>4
    <3> HIDE DEF ws, w
    <3>3. /\ Append(ws, w) \in Seq(Seq(Word)) /\ Len(Append(ws, w)) = n + 1
          /\ \A k \in 1 .. n : Append(ws, w)[k] = ws[k]
          /\ Append(ws, w)[n + 1] = w
      BY <3>1, AppendProperties
    <3> QED
      BY <3>2, <3>3 DEF ws, w
  <2>5. ASSUME NEW k \in 1 .. n + 1
        PROVE  WordsIn(vt)[k] = Append(WordsIn(vs), v.words)[k]
    <3>1. k \in 1 .. n \/ k = n + 1
      BY <1>1
    <3> QED
      BY <1>2, <2>1, <2>4, <3>1
  <2> QED
    BY <2>3, <2>4, <2>5, SeqEqual
<1> QED
  BY <1>3, <1>5, <1>6, FlattenAppend DEF vt

LEMMA BlocksAppend ==
  ASSUME NEW d, NEW vs, NEW W, NEW m, Blocks(vs, W, m, d),
         NEW v, NEW a, NEW b, Block(v, a, b, d), m < a
  PROVE  Blocks(Append(vs, v), W \o v.words, b, d)
<1> DEFINE n == Len(vs)
           vt == Append(vs, v)
<1>1. vs \in Seq(View(d)) /\ v \in View(d) /\ m \in Nat /\ a \in Nat /\ b \in Nat /\ a <= b
      /\ FlattenSeq(WordsIn(vs)) = W
  BY DEF Blocks, Block
<1>2. n \in Nat /\ DOMAIN vs = 1 .. n
  BY <1>1, LenProperties
<1>3. /\ DOMAIN vt = 1 .. n + 1 /\ vt[n + 1] = v /\ \A k \in 1 .. n : vt[k] = vs[k]
      /\ vt \in Seq(View(d))
  BY <1>1, AppendProperties, LenProperties
<1>4. PICK lo, hi : Placed(vs, lo, hi, m, d)
  BY DEF Blocks
<1> DEFINE lot == [k \in 1 .. n + 1 |-> IF k = n + 1 THEN a ELSE lo[k]]
           hit == [k \in 1 .. n + 1 |-> IF k = n + 1 THEN b ELSE hi[k]]
<1> HIDE DEF vt, n
<1>5. ASSUME NEW k \in 1 .. n
      PROVE  /\ lot[k] = lo[k] /\ hit[k] = hi[k] /\ vt[k] = vs[k]
             /\ Block(vs[k], lo[k], hi[k], d) /\ hi[k] \in Nat /\ hi[k] <= m
  <2>1. k \in 1 .. n + 1 /\ k # n + 1
    BY <1>2
  <2>2. Block(vs[k], lo[k], hi[k], d) /\ hi[k] <= m
    BY <1>2, <1>4 DEF Placed
  <2> QED
    BY <1>3, <2>1, <2>2 DEF Block
<1>6. lot[n + 1] = a /\ hit[n + 1] = b /\ vt[n + 1] = v
  BY <1>2, <1>3
<1> HIDE DEF lot, hit
<1>7. \A k \in DOMAIN vt : k \in 1 .. n \/ k = n + 1
  BY <1>2, <1>3
<1>8. \A k \in DOMAIN vt : Block(vt[k], lot[k], hit[k], d) /\ hit[k] <= b
  <2> SUFFICES ASSUME NEW k \in DOMAIN vt PROVE Block(vt[k], lot[k], hit[k], d) /\ hit[k] <= b
    OBVIOUS
  <2>1. CASE k \in 1 .. n
    <3>1. hit[k] \in Nat /\ hit[k] <= m
      BY <1>5, <2>1
    <3>2. hit[k] <= b
      BY <1>1, <3>1
    <3> QED
      BY <1>5, <2>1, <3>2
  <2>2. CASE k = n + 1
    BY <1>1, <1>6, <2>2
  <2> QED
    BY <1>7, <2>1, <2>2
<1>9. ASSUME NEW j \in DOMAIN vt, NEW k \in DOMAIN vt, j < k PROVE hit[j] < lot[k]
  <2>1. j \in 1 .. n
    BY <1>2, <1>3, <1>9
  <2>2. CASE k \in 1 .. n
    BY <1>2, <1>4, <1>5, <1>9, <2>1, <2>2 DEF Placed
  <2>3. CASE k = n + 1
    BY <1>1, <1>5, <1>6, <2>1, <2>3
  <2> QED
    BY <1>7, <2>2, <2>3
<1>10. Placed(vt, lot, hit, b, d)
  BY <1>8, <1>9 DEF Placed
<1>11. FlattenSeq(WordsIn(vt)) = W \o v.words
  BY <1>1, WordsAppend DEF vt
<1>12. Blocks(vt, W \o v.words, b, d)
  BY <1>1, <1>3, <1>10, <1>11 DEF Blocks
<1> QED
  BY <1>12 DEF vt

\* Two views under one heading, the second on later lines, are one view.
LEMMA JoinedBlock ==
  ASSUME NEW d, NEW u, NEW a, NEW h, Block(u, a, h, d),
         NEW v, NEW c, NEW b, Block(v, c, b, d), h < c, u.heading = v.heading
  PROVE  Block(Join(u, v), a, b, d)
<1> DEFINE x == Join(u, v)
           n == Len(u.words)
           k == Len(v.words)
<1>1. /\ u \in View(d) /\ v \in View(d) /\ Len(u.pages) = n /\ Len(v.pages) = k
      /\ a \in Nat \ {0} /\ h \in Nat /\ a <= h /\ c \in Nat /\ b \in Nat /\ c <= b
      /\ TitleIn(d, a) = u.heading
  BY DEF Block
<1>2. /\ u.words \in Seq(Word) /\ v.words \in Seq(Word)
      /\ u.pages \in Seq({PageIn(d, j) : j \in Nat}) /\ v.pages \in Seq({PageIn(d, j) : j \in Nat})
      /\ u.heading \in {TitleIn(d, j) : j \in Nat}
  BY <1>1 DEF View
<1>3. n \in Nat /\ k \in Nat
  BY <1>2, LenProperties
<1>4. x.heading = u.heading /\ x.words = u.words \o v.words /\ x.pages = u.pages \o v.pages
  BY DEF Join
<1>5. /\ x.words \in Seq(Word) /\ Len(x.words) = n + k
      /\ \A i \in 1 .. n + k : x.words[i] = IF i <= n THEN u.words[i] ELSE v.words[i - n]
  <2> DEFINE y == u.words
             z == v.words
  <2>1. y \in Seq(Word) /\ z \in Seq(Word) /\ x.words = y \o z /\ n = Len(y) /\ k = Len(z)
    BY <1>2, <1>4
  <2> HIDE DEF x, n, k, y, z
  <2>2. /\ y \o z \in Seq(Word) /\ Len(y \o z) = n + k
        /\ \A i \in 1 .. n + k : (y \o z)[i] = IF i <= n THEN y[i] ELSE z[i - n]
    BY <2>1, ConcatProperties
  <2> QED
    BY <2>1, <2>2 DEF y, z
<1>6. /\ x.pages \in Seq({PageIn(d, j) : j \in Nat}) /\ Len(x.pages) = n + k
      /\ \A i \in 1 .. n + k : x.pages[i] = IF i <= n THEN u.pages[i] ELSE v.pages[i - n]
  <2> DEFINE y == u.pages
             z == v.pages
             Pages == {PageIn(d, j) : j \in Nat}
  <2>1. y \in Seq(Pages) /\ z \in Seq(Pages) /\ x.pages = y \o z /\ n = Len(y) /\ k = Len(z)
    BY <1>1, <1>2, <1>4
  <2> HIDE DEF x, n, k, y, z, Pages
  <2>2. /\ y \o z \in Seq(Pages) /\ Len(y \o z) = n + k
        /\ \A i \in 1 .. n + k : (y \o z)[i] = IF i <= n THEN y[i] ELSE z[i - n]
    BY <2>1, ConcatProperties
  <2> QED
    BY <2>1, <2>2 DEF y, z, Pages
<1>7. x \in View(d)
  BY <1>2, <1>4, <1>5, <1>6 DEF View, Join
<1> HIDE DEF x, n, k
<1>8. ASSUME NEW i \in 1 .. n + k
      PROVE  /\ x.words[i][1] \in a .. b /\ TitleIn(d, x.words[i][1]) = x.heading
             /\ x.pages[i] = PageIn(d, x.words[i][1])
  <2>1. CASE i <= n
    <3>1. i \in 1 .. n /\ x.words[i] = u.words[i] /\ x.pages[i] = u.pages[i]
      BY <1>3, <1>5, <1>6, <2>1
    <3>2. /\ u.words[i][1] \in a .. h /\ TitleIn(d, u.words[i][1]) = u.heading
          /\ u.pages[i] = PageIn(d, u.words[i][1])
      BY <3>1 DEF Block, n
    <3>3. u.words[i][1] \in a .. b
      BY <1>1, <3>2
    <3> QED
      BY <1>4, <3>1, <3>2, <3>3
  <2>2. CASE ~(i <= n)
    <3>1. i - n \in 1 .. k /\ x.words[i] = v.words[i - n] /\ x.pages[i] = v.pages[i - n]
      BY <1>3, <1>5, <1>6, <2>2
    <3>2. /\ v.words[i - n][1] \in c .. b /\ TitleIn(d, v.words[i - n][1]) = v.heading
          /\ v.pages[i - n] = PageIn(d, v.words[i - n][1])
      BY <3>1 DEF Block, k
    <3>3. v.words[i - n][1] \in a .. b
      BY <1>1, <3>2
    <3> QED
      BY <1>4, <3>1, <3>2, <3>3
  <2> QED
    BY <2>1, <2>2
<1>9. a <= b
  BY <1>1
<1>10. Block(x, a, b, d)
  BY <1>1, <1>4, <1>5, <1>6, <1>7, <1>8, <1>9 DEF Block
<1> QED
  BY <1>10 DEF x

LEMMA BlocksJoin ==
  ASSUME NEW d, NEW vs, NEW W, NEW m, Blocks(vs, W, m, d), vs # <<>>,
         NEW v, NEW a, NEW b, Block(v, a, b, d), m < a, Last(vs).heading = v.heading
  PROVE  Blocks(Append(Front(vs), Join(Last(vs), v)), W \o v.words, b, d)
<1> DEFINE fs == Front(vs)
           l == Last(vs)
           x == Join(l, v)
           vt == Append(fs, x)
           n == Len(fs)
<1>1. vs \in Seq(View(d)) /\ v \in View(d) /\ m \in Nat /\ a \in Nat /\ b \in Nat /\ a <= b
      /\ FlattenSeq(WordsIn(vs)) = W
  BY DEF Blocks, Block
<1>2. fs \in Seq(View(d)) /\ l \in View(d) /\ vs = Append(fs, l)
  BY <1>1, FrontAndLast
<1>3. n \in Nat /\ DOMAIN vs = 1 .. n + 1 /\ vs[n + 1] = l /\ \A k \in 1 .. n : vs[k] = fs[k]
  BY <1>2, AppendProperties, LenProperties
<1>4. PICK lo, hi : Placed(vs, lo, hi, m, d)
  BY DEF Blocks
<1>5. Block(l, lo[n + 1], hi[n + 1], d) /\ hi[n + 1] <= m /\ hi[n + 1] \in Nat
  <2>1. n + 1 \in DOMAIN vs
    BY <1>3
  <2>2. Block(l, lo[n + 1], hi[n + 1], d) /\ hi[n + 1] <= m
    BY <1>3, <1>4, <2>1 DEF Placed
  <2> QED
    BY <2>2 DEF Block
<1>6. Block(x, lo[n + 1], b, d)
  <2>1. hi[n + 1] < a
    BY <1>1, <1>5
  <2> QED
    BY <1>5, <2>1, JoinedBlock
<1>7. x \in View(d)
  BY <1>6 DEF Block
<1>8. /\ vt \in Seq(View(d)) /\ DOMAIN vt = 1 .. n + 1 /\ vt[n + 1] = x
      /\ \A k \in 1 .. n : vt[k] = fs[k]
  BY <1>2, <1>7, AppendProperties, LenProperties
<1> DEFINE hit == [k \in 1 .. n + 1 |-> IF k = n + 1 THEN b ELSE hi[k]]
<1> HIDE DEF vt, n, fs, l, x
<1>9. ASSUME NEW k \in 1 .. n
      PROVE  /\ hit[k] = hi[k] /\ vt[k] = vs[k]
             /\ Block(vs[k], lo[k], hi[k], d) /\ hi[k] \in Nat /\ hi[k] <= m
  <2>1. k \in 1 .. n + 1 /\ k # n + 1
    BY <1>3
  <2>2. Block(vs[k], lo[k], hi[k], d) /\ hi[k] <= m
    BY <1>3, <1>4, <2>1 DEF Placed
  <2> QED
    BY <1>3, <1>8, <2>1, <2>2 DEF Block
<1>10. hit[n + 1] = b
  BY <1>3
<1> HIDE DEF hit
<1>11. \A k \in DOMAIN vt : k \in 1 .. n \/ k = n + 1
  BY <1>3, <1>8
<1>12. ASSUME NEW k \in DOMAIN vt PROVE Block(vt[k], lo[k], hit[k], d) /\ hit[k] <= b
  <2>1. CASE k \in 1 .. n
    <3>1. hit[k] \in Nat /\ hit[k] <= m
      BY <1>9, <2>1
    <3>2. hit[k] <= b
      BY <1>1, <3>1
    <3> QED
      BY <1>9, <2>1, <3>2
  <2>2. CASE k = n + 1
    BY <1>1, <1>6, <1>8, <1>10, <2>2
  <2> QED
    BY <1>11, <2>1, <2>2
<1>13. ASSUME NEW j \in DOMAIN vt, NEW k \in DOMAIN vt, j < k PROVE hit[j] < lo[k]
  <2>1. j \in 1 .. n
    BY <1>3, <1>8, <1>13
  <2>2. hi[j] < lo[k]
    BY <1>3, <1>4, <1>8, <1>13 DEF Placed
  <2> QED
    BY <1>9, <2>1, <2>2
<1>14. Placed(vt, lo, hit, b, d)
  BY <1>12, <1>13 DEF Placed
<1>15. FlattenSeq(WordsIn(vt)) = W \o v.words
  <2> DEFINE F == FlattenSeq(WordsIn(fs))
  <2>1. F \in Seq(Word) /\ FlattenSeq(WordsIn(vs)) = F \o l.words
    BY <1>2, WordsAppend
  <2>2. FlattenSeq(WordsIn(vt)) = F \o x.words
    BY <1>2, <1>7, WordsAppend DEF vt
  <2>3. l.words \in Seq(Word) /\ v.words \in Seq(Word) /\ x.words = l.words \o v.words
    BY <1>1, <1>2 DEF View, Join, x
  <2>4. (F \o l.words) \o v.words = F \o (l.words \o v.words)
    <3> DEFINE y == l.words
               z == v.words
    <3>1. F \in Seq(Word) /\ y \in Seq(Word) /\ z \in Seq(Word)
      BY <2>1, <2>3
    <3> HIDE DEF F, y, z
    <3>2. (F \o y) \o z = F \o (y \o z)
      BY <3>1, ConcatAssociative
    <3> QED
      BY <3>2 DEF y, z
  <2> QED
    BY <1>1, <2>1, <2>2, <2>3, <2>4
<1>16. Blocks(vt, W \o v.words, b, d)
  BY <1>1, <1>8, <1>14, <1>15 DEF Blocks
<1> QED
  BY <1>16 DEF vt, x, fs, l

LEMMA BlocksGrow ==
  ASSUME NEW d, NEW vs, NEW W, NEW m, Blocks(vs, W, m, d),
         NEW v, NEW a, NEW b, Block(v, a, b, d), m < a,
         NEW vt, Grown(vs, v, vt)
  PROVE  Blocks(vt, W \o v.words, b, d)
  BY BlocksAppend, BlocksJoin DEF Grown

\* A list of blocks of which each view in turn is added to what became of those
\* before it.
LEMMA BlocksChain ==
  ASSUME NEW d, NEW vs, NEW W, NEW m, Blocks(vs, W, m, d),
         NEW acc, acc[0] = <<>>,
         \A k \in 0 .. Len(vs) - 1 : Grown(acc[k], vs[k + 1], acc[k + 1])
  PROVE  Blocks(acc[Len(vs)], W, m, d)
<1> DEFINE n == Len(vs)
           ws(k) == FlattenSeq(WordsIn(SubSeq(vs, 1, k)))
<1>1. vs \in Seq(View(d)) /\ m \in Nat /\ n \in Nat /\ DOMAIN vs = 1 .. n /\ FlattenSeq(WordsIn(vs)) = W
  BY LenProperties DEF Blocks
<1>2. PICK lo, hi : Placed(vs, lo, hi, m, d)
  BY DEF Blocks
<1>3. \A k \in 1 .. n : /\ Block(vs[k], lo[k], hi[k], d) /\ hi[k] <= m
                        /\ hi[k] \in Nat /\ lo[k] \in Nat \ {0} /\ lo[k] <= hi[k]
  BY <1>1, <1>2 DEF Placed, Block
<1> DEFINE end(k) == IF k = 0 THEN 0 ELSE hi[k]
           T == {k \in Nat : k <= n => Blocks(acc[k], ws(k), end(k), d)}
<1>4. 0 \in T
  <2>1. SubSeq(vs, 1, 0) = <<>>
    BY SubSeqEmpty
  <2>2. ws(0) = <<>>
    BY <2>1, FlattenEmpty DEF WordsIn
  <2> QED
    BY <2>2, NoBlocks
<1>5. ASSUME NEW k \in Nat, k \in T PROVE k + 1 \in T
  <2> SUFFICES ASSUME k + 1 <= n
               PROVE  Blocks(acc[k + 1], ws(k + 1), end(k + 1), d)
    OBVIOUS
  <2>1. Blocks(acc[k], ws(k), end(k), d)
    BY <1>1, <1>5
  <2>2. /\ SubSeq(vs, 1, k) \in Seq(View(d)) /\ vs[k + 1] \in View(d)
        /\ SubSeq(vs, 1, k + 1) = Append(SubSeq(vs, 1, k), vs[k + 1])
    <3>1. k < Len(vs)
      BY <1>1
    <3> QED
      BY <1>1, <3>1, PrefixAppend
  <2>3. ws(k + 1) = ws(k) \o vs[k + 1].words
    BY <2>2, WordsAppend
  <2>4. Block(vs[k + 1], lo[k + 1], hi[k + 1], d)
    BY <1>1, <1>3
  <2>5. end(k) < lo[k + 1] /\ end(k + 1) = hi[k + 1]
    <3>1. CASE k = 0
      BY <1>1, <1>3, <3>1
    <3>2. CASE k # 0
      <4>1. k \in DOMAIN vs /\ k + 1 \in DOMAIN vs /\ k < k + 1
        BY <1>1, <3>2
      <4> QED
        BY <1>2, <3>2, <4>1 DEF Placed
    <3> QED
      BY <3>1, <3>2
  <2>6. Grown(acc[k], vs[k + 1], acc[k + 1])
    BY <1>1
  <2> HIDE DEF ws, end
  <2> QED
    BY <2>1, <2>3, <2>4, <2>5, <2>6, BlocksGrow
<1>6. \A k \in Nat : k \in T
  <2> HIDE DEF T
  <2> QED
    BY <1>4, <1>5, NatSetInduction
<1>7. Blocks(acc[n], ws(n), end(n), d)
  BY <1>1, <1>6
<1>8. ws(n) = W
  BY <1>1, SubSeqFull
<1>9. end(n) \in Nat /\ end(n) <= m
  BY <1>1, <1>3
<1> HIDE DEF ws, end
<1> QED
  BY <1>1, <1>7, <1>8, <1>9, BlocksReach

\* No two neighbours under one heading: the views have been joined as far as
\* they can be.
Apart(vs) == \A k \in 1 .. Len(vs) - 1 : vs[k].heading # vs[k + 1].heading

LEMMA ApartGrows ==
  ASSUME NEW d, NEW vs \in Seq(View(d)), Apart(vs), NEW v, v \in View(d), NEW vt,
         Grown(vs, v, vt), vt = Append(vs, v) => vs = <<>> \/ Last(vs).heading # v.heading
  PROVE  Apart(vt)
<1>1. CASE vt = Append(vs, v)
  <2>1. /\ Len(vt) = Len(vs) + 1 /\ vt[Len(vs) + 1] = v /\ Len(vs) \in Nat
        /\ \A k \in 1 .. Len(vs) : vt[k] = vs[k]
    BY <1>1, AppendProperties, LenProperties
  <2>2. vs # <<>> => Last(vs) = vs[Len(vs)]
    BY DEF Last
  <2>3. vs = <<>> => Len(vs) = 0
    OBVIOUS
  <2> SUFFICES ASSUME NEW k \in 1 .. Len(vt) - 1 PROVE vt[k].heading # vt[k + 1].heading
    BY DEF Apart
  <2>4. CASE k = Len(vs)
    BY <1>1, <2>1, <2>2, <2>3, <2>4
  <2>5. CASE k # Len(vs)
    <3>1. k \in 1 .. Len(vs) - 1 /\ k \in 1 .. Len(vs) /\ k + 1 \in 1 .. Len(vs)
      BY <2>1, <2>5
    <3> QED
      BY <2>1, <3>1 DEF Apart
  <2> QED
    BY <2>4, <2>5
<1>2. CASE vs # <<>> /\ Last(vs).heading = v.heading /\ vt = Append(Front(vs), Join(Last(vs), v))
  <2> DEFINE fs == Front(vs)
             l == Last(vs)
             n == Len(fs)
             x == Join(l, v)
  <2>1. fs \in Seq(View(d)) /\ l \in View(d) /\ vs = Append(fs, l)
    BY <1>2, FrontAndLast
  <2>2. n \in Nat /\ Len(vs) = n + 1 /\ vs[n + 1] = l /\ \A k \in 1 .. n : vs[k] = fs[k]
    BY <2>1, AppendProperties, LenProperties
  <2>3. Len(vt) = n + 1 /\ vt[n + 1] = x /\ \A k \in 1 .. n : vt[k] = fs[k]
    <3> DEFINE S == View(d) \cup {x}
    <3>1. fs \in Seq(S) /\ x \in S
      BY <2>1, SeqMonotonic
    <3>2. vt = Append(fs, x)
      BY <1>2
    <3> HIDE DEF S, fs, x
    <3> QED
      BY <3>1, <3>2, AppendProperties DEF n
  <2>4. x.heading = l.heading
    BY DEF Join
  <2> HIDE DEF fs, l, n, x
  <2> SUFFICES ASSUME NEW k \in 1 .. Len(vt) - 1 PROVE vt[k].heading # vt[k + 1].heading
    BY DEF Apart
  <2>5. k \in 1 .. n /\ k \in 1 .. Len(vs) - 1 /\ (k + 1 \in 1 .. n \/ k + 1 = n + 1)
    BY <2>2, <2>3
  <2>6. vs[k].heading # vs[k + 1].heading
    BY <2>5 DEF Apart
  <2> QED
    BY <2>2, <2>3, <2>4, <2>5, <2>6
<1> QED
  BY <1>1, <1>2 DEF Grown

-----------------------------------------------------------------------------
(* Parsing.                                                                *)

LineWords(d, k) == [j \in 1 .. d.lines[k].words |-> <<k, j>>]

BodyLine(d, k) == IF HeadingIn(d, k) THEN <<>> ELSE LineWords(d, k)

\* The words of the first m lines.
Body(d, m) == FlattenSeq([k \in 1 .. m |-> BodyLine(d, k)])

LEMMA DocumentTypes ==
  ASSUME NEW d \in Documents
  PROVE  /\ Len(d.lines) \in Nat /\ DOMAIN d.lines = 1 .. Len(d.lines)
         /\ \A k \in 1 .. Len(d.lines) : d.lines[k].words \in Nat
<1> DEFINE L == ToSet(d.lines)
<1>1. d.lines \in Seq(L) /\ \A l \in L : l.words \in Nat
  BY DocumentsAssumption
<1>2. Len(d.lines) \in Nat /\ DOMAIN d.lines = 1 .. Len(d.lines)
  <2> HIDE DEF L
  <2> QED
    BY <1>1, LenProperties
<1>3. \A k \in 1 .. Len(d.lines) : d.lines[k] \in L
  BY <1>2 DEF ToSet
<1> HIDE DEF L
<1> QED
  BY <1>1, <1>2, <1>3

LEMMA LineTypes ==
  ASSUME NEW d \in Documents, NEW k \in 1 .. Len(d.lines)
  PROVE  /\ LineWords(d, k) \in Seq(Word) /\ BodyLine(d, k) \in Seq(Word)
         /\ \A j \in 1 .. Len(LineWords(d, k)) : LineWords(d, k)[j][1] = k
<1> DEFINE n == d.lines[k].words
<1>1. n \in Nat /\ k \in Nat
  BY DocumentTypes
<1> HIDE DEF n
<1>2. \A j \in 1 .. n : <<k, j>> \in Word
  BY <1>1 DEF Word
<1>3. LineWords(d, k) = [j \in 1 .. n |-> <<k, j>>]
  BY DEF LineWords, n
<1>4. LineWords(d, k) \in Seq(Word) /\ Len(LineWords(d, k)) = n
  BY <1>1, <1>2, <1>3
<1>5. <<>> \in Seq(Word)
  BY EmptySeq
<1>6. \A j \in 1 .. n : LineWords(d, k)[j] = <<k, j>>
  BY <1>3
<1> QED
  BY <1>4, <1>5, <1>6 DEF BodyLine

LEMMA BodyStart == ASSUME NEW d PROVE Body(d, 0) = <<>>
<1>1. [k \in 1 .. 0 |-> BodyLine(d, k)] = <<>>
  OBVIOUS
<1> QED
  BY <1>1, FlattenEmpty DEF Body

LEMMA BodyNext ==
  ASSUME NEW d \in Documents, NEW m \in Nat, m + 1 \in 1 .. Len(d.lines)
  PROVE  /\ Body(d, m) \in Seq(Word)
         /\ Body(d, m + 1) = Body(d, m) \o BodyLine(d, m + 1)
<1> DEFINE b(n) == [k \in 1 .. n |-> BodyLine(d, k)]
<1>1. Len(d.lines) \in Nat
  BY DocumentTypes
<1>2. \A k \in 1 .. m + 1 : BodyLine(d, k) \in Seq(Word)
  <2> SUFFICES ASSUME NEW k \in 1 .. m + 1 PROVE BodyLine(d, k) \in Seq(Word)
    OBVIOUS
  <2>1. k \in 1 .. Len(d.lines)
    BY <1>1
  <2> QED
    BY <2>1, LineTypes
<1>3. /\ b(m) \in Seq(Seq(Word)) /\ Len(b(m)) = m /\ b(m + 1) \in Seq(Seq(Word))
      /\ Len(b(m + 1)) = m + 1
  BY <1>2
<1>4. BodyLine(d, m + 1) \in Seq(Word)
  BY <1>2
<1>5. /\ \A k \in 1 .. m : b(m)[k] = BodyLine(d, k)
      /\ \A k \in 1 .. m + 1 : b(m + 1)[k] = BodyLine(d, k)
  OBVIOUS
<1> HIDE DEF b
<1>6. /\ Append(b(m), BodyLine(d, m + 1)) \in Seq(Seq(Word))
      /\ Len(Append(b(m), BodyLine(d, m + 1))) = m + 1
      /\ \A k \in 1 .. m : Append(b(m), BodyLine(d, m + 1))[k] = b(m)[k]
      /\ Append(b(m), BodyLine(d, m + 1))[m + 1] = BodyLine(d, m + 1)
  BY <1>3, <1>4, AppendProperties
<1>7. b(m + 1) = Append(b(m), BodyLine(d, m + 1))
  <2>1. \A k \in 1 .. m + 1 : b(m + 1)[k] = Append(b(m), BodyLine(d, m + 1))[k]
    <3> SUFFICES ASSUME NEW k \in 1 .. m + 1
                 PROVE  b(m + 1)[k] = Append(b(m), BodyLine(d, m + 1))[k]
      OBVIOUS
    <3>1. k \in 1 .. m \/ k = m + 1
      OBVIOUS
    <3> QED
      BY <1>5, <1>6, <3>1
  <2> QED
    BY <1>3, <1>6, <2>1, SeqEqual
<1>8. Body(d, m) = FlattenSeq(b(m)) /\ Body(d, m + 1) = FlattenSeq(b(m + 1))
  BY DEF Body, b
<1> QED
  BY <1>3, <1>4, <1>7, <1>8, FlattenAppend

\* The heading a line stands under changes below a heading only.
LEMMA TitleNext ==
  ASSUME NEW d, NEW k \in Nat \ {0}
  PROVE  TitleIn(d, k + 1) = IF HeadingIn(d, k) THEN d.lines[k].title ELSE TitleIn(d, k)
<1> DEFINE above(n) == {j \in 1 .. n - 1 : HeadingIn(d, j)}
<1>1. (k + 1) - 1 = k
  OBVIOUS
<1>2. CASE HeadingIn(d, k)
  <2>1. k \in above(k + 1) /\ \A i \in above(k + 1) : i <= k
    BY <1>1, <1>2
  <2> DEFINE c == CHOOSE j \in above(k + 1) : \A i \in above(k + 1) : i <= j
  <2>2. c \in above(k + 1) /\ \A i \in above(k + 1) : i <= c
    <3> HIDE DEF above
    <3> QED
      BY <2>1
  <2>3. c \in Int /\ k <= c /\ c <= k
    <3> HIDE DEF c
    <3> QED
      BY <1>1, <2>1, <2>2
  <2>4. c = k
    <3> HIDE DEF c
    <3> QED
      BY <2>3
  <2>5. TitleIn(d, k + 1) = d.lines[c].title
    BY <2>1 DEF TitleIn
  <2> QED
    BY <1>2, <2>4, <2>5
<1>3. CASE ~HeadingIn(d, k)
  <2>1. above(k + 1) = above(k)
    <3>1. \A j \in 1 .. k : j = k \/ j \in 1 .. k - 1
      OBVIOUS
    <3> QED
      BY <1>1, <1>3, <3>1
  <2>2. ASSUME NEW n
        PROVE  TitleIn(d, n) = IF above(n) = {} THEN NoTitle
                 ELSE d.lines[CHOOSE j \in above(n) : \A i \in above(n) : i <= j].title
    BY DEF TitleIn
  <2> HIDE DEF above
  <2> QED
    BY <1>3, <2>1, <2>2
<1> QED
  BY <1>2, <1>3

ParaView(p) == [heading |-> p.heading, words |-> p.words,
                pages |-> [j \in DOMAIN p.words |-> p.page]]

ParaViews(ps) == [k \in DOMAIN ps |-> ParaView(ps[k])]

Paragraph(d) == [page : {PageIn(d, k) : k \in Nat}, heading : {TitleIn(d, k) : k \in Nat},
                 words : Seq(Word)]

LEMMA ParaViewType ==
  ASSUME NEW d, NEW p \in Paragraph(d)
  PROVE  /\ ParaView(p) \in View(d) /\ Len(ParaView(p).pages) = Len(p.words)
         /\ \A i \in 1 .. Len(p.words) : ParaView(p).pages[i] = p.page
<1> DEFINE w == p.words
           g == p.page
           Pages == {PageIn(d, k) : k \in Nat}
           s == [j \in DOMAIN w |-> g]
<1>1. w \in Seq(Word) /\ g \in Pages /\ p.heading \in {TitleIn(d, k) : k \in Nat}
  BY DEF Paragraph
<1>2. ParaView(p) = [heading |-> p.heading, words |-> w, pages |-> s]
  BY DEF ParaView
<1> HIDE DEF w, g, Pages
<1>3. Len(w) \in Nat /\ DOMAIN w = 1 .. Len(w)
  BY <1>1, LenProperties
<1>4. s \in Seq(Pages) /\ Len(s) = Len(w) /\ \A i \in 1 .. Len(w) : s[i] = g
  BY <1>1, <1>3
<1> HIDE DEF s
<1>5. ParaView(p) \in View(d)
  BY <1>1, <1>2, <1>4 DEF View, Pages
<1> QED
  BY <1>2, <1>4, <1>5 DEF w, g

LEMMA ParaViewsAppend ==
  ASSUME NEW d, NEW ps \in Seq(Paragraph(d)), NEW p \in Paragraph(d)
  PROVE  /\ ParaViews(ps) \in Seq(View(d)) /\ Len(ParaViews(ps)) = Len(ps)
         /\ ParaViews(Append(ps, p)) = Append(ParaViews(ps), ParaView(p))
<1> DEFINE F == [x \in Paragraph(d) |-> ParaView(x)]
<1>1. \A x \in Paragraph(d) : F[x] \in View(d)
  BY ParaViewType
<1>2. ASSUME NEW q \in Seq(Paragraph(d)) PROVE ParaViews(q) = Mapped(F, q)
  <2>1. \A k \in DOMAIN q : q[k] \in Paragraph(d)
    BY LenProperties, ElementOfSeq
  <2> QED
    BY <2>1 DEF ParaViews, Mapped
<1>3. F[p] = ParaView(p)
  OBVIOUS
<1> HIDE DEF F
<1>4. /\ Mapped(F, ps) \in Seq({F[v] : v \in Paragraph(d)}) /\ Len(Mapped(F, ps)) = Len(ps)
      /\ Mapped(F, Append(ps, p)) = Append(Mapped(F, ps), F[p])
  BY MappedAppend
<1>6. Mapped(F, ps) \in Seq(View(d))
  <2>1. {F[v] : v \in Paragraph(d)} \subseteq View(d)
    BY <1>1
  <2> QED
    BY <1>4, <2>1, SeqMonotonic
<1>5. Append(ps, p) \in Seq(Paragraph(d))
  BY AppendProperties
<1> QED
  BY <1>2, <1>3, <1>4, <1>5, <1>6

\* What parsing has made of the lines before pos.
ParseInv ==
    /\ doc \in Documents
    /\ pos \in 1 .. Len(doc.lines) + 1
    /\ heading = TitleIn(doc, pos)
    /\ paragraphs \in Seq(Paragraph(doc))
    /\ Blocks(ParaViews(paragraphs), Body(doc, pos - 1), pos - 1, doc)

LEMMA Reading ==
  /\ \A k : IsHeading(k) <=> HeadingIn(doc, k)
  /\ \A k : WordsOf(k) = LineWords(doc, k)
  /\ \A k : TitleOver(k) = TitleIn(doc, k)
<1>1. \A k : IsHeading(k) <=> HeadingIn(doc, k)
  BY DEF IsHeading, IsBlank, HeadingIn, BlankIn
<1>2. \A k : WordsOf(k) = LineWords(doc, k)
  BY DEF WordsOf, LineWords
<1>3. \A k : TitleOver(k) = TitleIn(doc, k)
  BY Zenon DEF TitleOver, TitleIn, IsHeading, IsBlank, HeadingIn, BlankIn
<1> QED
  BY <1>1, <1>2, <1>3

LEMMA ParseInit == ChunkingInit => ParseInv
<1> SUFFICES ASSUME ChunkingInit PROVE ParseInv
  OBVIOUS
<1>1. doc \in Documents /\ pos = 1 /\ heading = NoTitle /\ paragraphs = <<>>
  BY DEF ChunkingInit
<1>2. TitleIn(doc, 1) = NoTitle
  <2>1. \A above : above \subseteq 1 .. 1 - 1 => above = {}
    OBVIOUS
  <2> QED
    BY <2>1 DEF TitleIn
<1>3. pos - 1 = 0 /\ pos \in 1 .. Len(doc.lines) + 1
  BY <1>1, DocumentTypes
<1>4. ParaViews(<<>>) = <<>> /\ <<>> \in Seq(Paragraph(doc))
  BY EmptySeq DEF ParaViews
<1> QED
  BY <1>1, <1>2, <1>3, <1>4, NoBlocks, BodyStart DEF ParseInv

\* The paragraph a line becomes is a block of its own.
LEMMA LineBlock ==
  ASSUME NEW d \in Documents, NEW k \in 1 .. Len(d.lines), NEW p,
         p = [page |-> d.lines[k].page, heading |-> TitleIn(d, k), words |-> LineWords(d, k)]
  PROVE  p \in Paragraph(d) /\ Block(ParaView(p), k, k, d) /\ ParaView(p).words = LineWords(d, k)
<1>1. k \in Nat \ {0} /\ k \in k .. k /\ k <= k
  BY DocumentTypes
<1>2. p \in Paragraph(d)
  BY <1>1, LineTypes DEF Paragraph, PageIn
<1>3. /\ ParaView(p).words = LineWords(d, k) /\ ParaView(p).heading = TitleIn(d, k)
      /\ p.words = LineWords(d, k) /\ p.page = PageIn(d, k)
  BY DEF ParaView, PageIn
<1>4. /\ ParaView(p) \in View(d) /\ Len(ParaView(p).pages) = Len(LineWords(d, k))
      /\ \A i \in 1 .. Len(LineWords(d, k)) : ParaView(p).pages[i] = PageIn(d, k)
  BY <1>2, <1>3, ParaViewType
<1>5. \A i \in 1 .. Len(LineWords(d, k)) : LineWords(d, k)[i][1] = k
  BY LineTypes
<1> QED
  BY <1>1, <1>2, <1>3, <1>4, <1>5 DEF Block

LEMMA ParseStep ==
  ASSUME ParseInv, ParseLine
  PROVE  ParseInv'
<1> DEFINE m == pos - 1
           n == Len(doc.lines)
<1>1. /\ doc \in Documents /\ doc' = doc /\ pos' = pos + 1 /\ heading = TitleIn(doc, pos)
      /\ pos \in 1 .. n + 1 /\ ~(pos > n) /\ paragraphs \in Seq(Paragraph(doc))
      /\ Blocks(ParaViews(paragraphs), Body(doc, m), m, doc)
  BY DEF ParseInv, ParseLine, Parsed
<1>2. n \in Nat
  BY <1>1, DocumentTypes
<1>3. /\ m \in Nat /\ m + 1 = pos /\ pos \in 1 .. n /\ pos' - 1 = pos /\ pos' \in 1 .. n + 1
      /\ pos \in Nat \ {0} /\ m < pos /\ pos >= m
  BY <1>1, <1>2
<1> HIDE DEF m, n
<1>4. Body(doc, m) \in Seq(Word) /\ Body(doc, pos) = Body(doc, m) \o BodyLine(doc, pos)
  BY <1>1, <1>3, BodyNext DEF n
<1>5. heading' = TitleIn(doc, pos')
  BY <1>1, <1>3, TitleNext, Reading DEF ParseLine
<1>6. CASE BodyLine(doc, pos) = <<>> /\ paragraphs' = paragraphs
  <2>1. Body(doc, pos) = Body(doc, m)
    BY <1>4, <1>6, ConcatEmptySeq
  <2>2. Blocks(ParaViews(paragraphs), Body(doc, pos), pos, doc)
    BY <1>1, <1>3, <2>1, BlocksReach
  <2> QED
    BY <1>1, <1>3, <1>5, <1>6, <2>2 DEF ParseInv, n
<1>7. CASE /\ ~IsHeading(pos)
           /\ paragraphs' = Append(paragraphs, [page |-> doc.lines[pos].page, heading |-> heading,
                                                words |-> WordsOf(pos)])
  <2> DEFINE p == [page |-> doc.lines[pos].page, heading |-> TitleIn(doc, pos),
                   words |-> LineWords(doc, pos)]
  <2>1. paragraphs' = Append(paragraphs, p)
    BY <1>1, <1>7, Reading
  <2>2. BodyLine(doc, pos) = LineWords(doc, pos)
    BY <1>7, Reading DEF BodyLine
  <2>3. p \in Paragraph(doc) /\ Block(ParaView(p), pos, pos, doc)
        /\ ParaView(p).words = LineWords(doc, pos)
    BY <1>1, <1>3, LineBlock DEF n
  <2> HIDE DEF p
  <2>4. ParaViews(paragraphs') = Append(ParaViews(paragraphs), ParaView(p))
    BY <1>1, <2>1, <2>3, ParaViewsAppend
  <2>5. Blocks(ParaViews(paragraphs'), Body(doc, m) \o ParaView(p).words, pos, doc)
    BY <1>1, <1>3, <2>3, <2>4, BlocksAppend
  <2>6. Blocks(ParaViews(paragraphs'), Body(doc, pos), pos, doc)
    BY <1>4, <2>2, <2>3, <2>5
  <2>7. paragraphs' \in Seq(Paragraph(doc))
    BY <1>1, <2>1, <2>3, AppendProperties
  <2>8. ParaViews(paragraphs)' = ParaViews(paragraphs')
    BY DEF ParaViews
  <2> QED
    BY <1>1, <1>3, <1>5, <2>6, <2>7, <2>8 DEF ParseInv, n
<1>8. IsHeading(pos) => BodyLine(doc, pos) = <<>> /\ paragraphs' = paragraphs
  BY Reading DEF BodyLine, ParseLine
<1>9. ~IsHeading(pos) /\ IsBlank(pos) => BodyLine(doc, pos) = <<>> /\ paragraphs' = paragraphs
  BY Reading DEF BodyLine, LineWords, IsBlank, ParseLine
<1> QED
  BY <1>6, <1>7, <1>8, <1>9 DEF ParseLine

-----------------------------------------------------------------------------
(* Merging and grouping.                                                   *)

AddLine(merged, p) ==
    IF merged # <<>> /\ Last(merged).page = p.page /\ Last(merged).heading = p.heading
    THEN Append(Front(merged), [Last(merged) EXCEPT !.words = @ \o p.words])
    ELSE Append(merged, p)

AddParagraph(groups, p) ==
    IF groups # <<>> /\ Last(Last(groups)).heading = p.heading
    THEN Append(Front(groups), Append(Last(groups), p))
    ELSE Append(groups, <<p>>)

LEMMA AddLineType ==
  ASSUME NEW d, NEW ms \in Seq(Paragraph(d)), NEW p \in Paragraph(d)
  PROVE  AddLine(ms, p) \in Seq(Paragraph(d))
<1>1. CASE /\ ms # <<>> /\ Last(ms).page = p.page /\ Last(ms).heading = p.heading
  <2> DEFINE l == Last(ms)
             y == l.words
             z == p.words
             x == [l EXCEPT !.words = @ \o p.words]
  <2>1. Front(ms) \in Seq(Paragraph(d)) /\ l \in Paragraph(d)
    BY <1>1, FrontAndLast
  <2>2. y \in Seq(Word) /\ z \in Seq(Word)
    BY <2>1 DEF Paragraph
  <2>3. y \o z \in Seq(Word)
    <3> HIDE DEF y, z
    <3> QED
      BY <2>2, ConcatProperties
  <2>4. x \in Paragraph(d)
    <3> HIDE DEF l
    <3> QED
      BY <2>1, <2>3 DEF Paragraph
  <2>5. AddLine(ms, p) = Append(Front(ms), x)
    BY <1>1 DEF AddLine
  <2> HIDE DEF x
  <2> QED
    BY <2>1, <2>4, <2>5, AppendProperties
<1>2. CASE ~(ms # <<>> /\ Last(ms).page = p.page /\ Last(ms).heading = p.heading)
  <2>1. AddLine(ms, p) = Append(ms, p)
    BY <1>2 DEF AddLine
  <2> QED
    BY <2>1, AppendProperties
<1> QED
  BY <1>1, <1>2

\* Merge takes the lines in turn.
LEMMA MergeChain ==
  ASSUME NEW d, NEW ps \in Seq(Paragraph(d))
  PROVE  \E acc : /\ acc[0] = <<>> /\ acc[Len(ps)] = Merge(ps)
                  /\ \A k \in 0 .. Len(ps) - 1 : acc[k + 1] = AddLine(acc[k], ps[k + 1])
<1> DEFINE V == Seq(Paragraph(d))
           G == [x \in V \X Paragraph(d) |-> AddLine(x[1], x[2])]
           Iterates(f) == f = [s \in SUBSET DOMAIN ps |->
                                 IF s = {} THEN <<>> ELSE AddLine(f[s \ {Max(s)}], ps[Max(s)])]
<1>1. G \in [V \X Paragraph(d) -> V]
  BY AddLineType
<1>2. <<>> \in V
  BY EmptySeq
<1>3. PICK f : Folds(f, ps, <<>>, G) /\ \A s \in SUBSET DOMAIN ps : f[s] \in V
  <2> HIDE DEF G, V
  <2> QED
    BY <1>1, <1>2, FoldDefined DEF V
<1>4. ASSUME NEW s \in SUBSET DOMAIN ps, s # {}
      PROVE  Max(s) \in s /\ ps[Max(s)] \in Paragraph(d) /\ s \ {Max(s)} \in SUBSET DOMAIN ps
  <2>1. DOMAIN ps = 1 .. Len(ps) /\ Len(ps) \in Nat /\ \A i \in 1 .. Len(ps) : ps[i] \in Paragraph(d)
    BY LenProperties, ElementOfSeq
  <2>5. IsFiniteSet(DOMAIN ps)
    BY <2>1, FS_Interval
  <2>2. IsFiniteSet(s)
    BY <2>5, FS_Subset
  <2>3. \A x \in s : x \in Int
    BY <2>1
  <2>4. Max(s) \in s
    BY <1>4, <2>2, <2>3, MaxOfFinite
  <2> QED
    BY <2>1, <2>4
<1>5. ASSUME NEW v \in V, NEW p \in Paragraph(d) PROVE G[<<v, p>>] = AddLine(v, p)
  <2> HIDE DEF V
  <2> QED
    OBVIOUS
<1>6. Iterates(f)
  <2>1. f = [s \in SUBSET DOMAIN ps |-> IF s = {} THEN <<>> ELSE G[<<f[s \ {Max(s)}], ps[Max(s)]>>]]
    BY <1>3 DEF Folds
  <2>2. ASSUME NEW s \in SUBSET DOMAIN ps
        PROVE  f[s] = IF s = {} THEN <<>> ELSE AddLine(f[s \ {Max(s)}], ps[Max(s)])
    <3>1. CASE s = {}
      BY <2>1, <3>1
    <3>2. CASE s # {}
      <4>1. f[s] = G[<<f[s \ {Max(s)}], ps[Max(s)]>>]
        BY <2>1, <3>2
      <4>2. f[s \ {Max(s)}] \in V /\ ps[Max(s)] \in Paragraph(d)
        BY <1>3, <1>4, <3>2
      <4> HIDE DEF G, V
      <4> QED
        BY <1>5, <3>2, <4>1, <4>2
    <3> QED
      BY <3>1, <3>2
  <2> HIDE DEF G, V
  <2> QED
    BY <2>1, <2>2
<1> DEFINE c == CHOOSE iter : Iterates(iter)
<1>7. Iterates(c)
  <2> HIDE DEF Iterates
  <2> QED
    BY <1>6
<1>8. Merge(ps) = c[DOMAIN ps]
  BY DEF Merge, FoldLeft, MapThenFoldSet, AddLine
<1> HIDE DEF c
<1> DEFINE acc == [k \in 0 .. Len(ps) |-> c[1 .. k]]
<1>9. DOMAIN ps = 1 .. Len(ps) /\ Len(ps) \in Nat
  BY LenProperties
<1>10. acc[0] = <<>> /\ acc[Len(ps)] = Merge(ps)
  <2>1. c[{}] = <<>>
    BY <1>7
  <2>2. 1 .. 0 = {}
    OBVIOUS
  <2> QED
    BY <1>8, <1>9, <2>1, <2>2
<1>11. ASSUME NEW k \in 0 .. Len(ps) - 1 PROVE acc[k + 1] = AddLine(acc[k], ps[k + 1])
  <2>0. k \in Nat
    BY <1>9
  <2>1. /\ Max(1 .. k + 1) = k + 1 /\ (1 .. k + 1) \ {k + 1} = 1 .. k /\ 1 .. k + 1 # {}
    BY <2>0, PrefixFacts
  <2>2. 1 .. k + 1 \in SUBSET DOMAIN ps
    BY <1>9
  <2>3. c[1 .. k + 1] = AddLine(c[(1 .. k + 1) \ {Max(1 .. k + 1)}], ps[Max(1 .. k + 1)])
    BY <1>7, <2>1, <2>2
  <2>4. acc[k + 1] = c[1 .. k + 1] /\ acc[k] = c[1 .. k]
    BY <1>9
  <2> QED
    BY <2>1, <2>3, <2>4
<1> HIDE DEF acc
<1> QED
  BY <1>10, <1>11

\* A line that is merged joins the view of the paragraph before it.
LEMMA AddLineGrows ==
  ASSUME NEW d, NEW ms \in Seq(Paragraph(d)), NEW p \in Paragraph(d)
  PROVE  Grown(ParaViews(ms), ParaView(p), ParaViews(AddLine(ms, p)))
<1>1. CASE /\ ms # <<>> /\ Last(ms).page = p.page /\ Last(ms).heading = p.heading
  <2> DEFINE f == Front(ms)
             l == Last(ms)
             y == l.words
             z == p.words
             g == p.page
             x == [l EXCEPT !.words = @ \o p.words]
             mt == Append(f, x)
  <2>1. f \in Seq(Paragraph(d)) /\ l \in Paragraph(d) /\ ms = Append(f, l)
    BY <1>1, FrontAndLast
  <2>2. AddLine(ms, p) = mt
    BY <1>1 DEF AddLine
  <2>3. y \in Seq(Word) /\ z \in Seq(Word) /\ l.page = g /\ l.heading = p.heading
    BY <1>1, <2>1 DEF Paragraph
  <2>4. x.heading = l.heading /\ x.page = g /\ x.words = y \o z
    <3> HIDE DEF l
    <3> QED
      BY <2>1, <2>3 DEF Paragraph
  <2>5. /\ y \o z \in Seq(Word) /\ Len(y \o z) = Len(y) + Len(z)
        /\ Len(y) \in Nat /\ Len(z) \in Nat /\ DOMAIN y = 1 .. Len(y) /\ DOMAIN z = 1 .. Len(z)
        /\ DOMAIN (y \o z) = 1 .. Len(y) + Len(z)
    <3> HIDE DEF y, z
    <3> QED
      BY <2>3, ConcatProperties, LenProperties
  <2>6. x \in Paragraph(d)
    <3> HIDE DEF l
    <3> QED
      BY <2>1, <2>5 DEF Paragraph
  <2> HIDE DEF x, y, z, f, l, g
  <2>7. [j \in DOMAIN (y \o z) |-> g] = [j \in DOMAIN y |-> g] \o [j \in DOMAIN z |-> g]
    <3>1. Repeat(y \o z, g) = Repeat(y, g) \o Repeat(z, g)
      BY <2>3, Repeated
    <3> QED
      BY <3>1 DEF Repeat
  <2>8. ParaView(x) = Join(ParaView(l), ParaView(p))
    <3>1. /\ ParaView(x) = [heading |-> l.heading, words |-> y \o z,
                            pages |-> [j \in DOMAIN (y \o z) |-> g]]
          /\ ParaView(l) = [heading |-> l.heading, words |-> y, pages |-> [j \in DOMAIN y |-> g]]
          /\ ParaView(p) = [heading |-> p.heading, words |-> z, pages |-> [j \in DOMAIN z |-> g]]
      <4>1. l.words = y /\ p.words = z /\ p.page = g
        BY DEF y, z, g
      <4> QED
        BY <2>3, <2>4, <4>1 DEF ParaView
    <3> DEFINE a == [j \in DOMAIN y |-> g]
               b == [j \in DOMAIN z |-> g]
               c == [j \in DOMAIN (y \o z) |-> g]
               yz == y \o z
    <3>2. c = a \o b
      BY <2>7
    <3>3. /\ ParaView(x) = [heading |-> l.heading, words |-> yz, pages |-> c]
          /\ ParaView(l) = [heading |-> l.heading, words |-> y, pages |-> a]
          /\ ParaView(p) = [heading |-> p.heading, words |-> z, pages |-> b]
      BY <3>1
    <3>4. yz = y \o z
      OBVIOUS
    <3> HIDE DEF a, b, c, yz
    <3> QED
      BY <3>2, <3>3, <3>4 DEF Join
  <2>9. ParaViews(ms) = Append(ParaViews(f), ParaView(l))
        /\ ParaViews(mt) = Append(ParaViews(f), ParaView(x))
    BY <2>1, <2>6, ParaViewsAppend
  <2>10. ParaViews(f) \in Seq(View(d)) /\ ParaView(l) \in View(d)
    BY <2>1, ParaViewsAppend, ParaViewType
  <2>11. /\ ParaViews(ms) # <<>> /\ Front(ParaViews(ms)) = ParaViews(f)
         /\ Last(ParaViews(ms)) = ParaView(l)
    <3> DEFINE v == ParaViews(f)
               u == ParaView(l)
    <3>1. v \in Seq(View(d)) /\ u \in View(d) /\ ParaViews(ms) = Append(v, u)
      BY <2>9, <2>10
    <3> HIDE DEF v, u
    <3>2. Append(v, u) # <<>> /\ Front(Append(v, u)) = v /\ Last(Append(v, u)) = u
      BY <3>1, AppendLast
    <3> QED
      BY <3>1, <3>2 DEF v, u
  <2>12. ParaView(l).heading = ParaView(p).heading
    BY <2>3 DEF ParaView
  <2> HIDE DEF mt
  <2> QED
    BY <2>2, <2>8, <2>9, <2>11, <2>12 DEF Grown
<1>2. CASE ~(ms # <<>> /\ Last(ms).page = p.page /\ Last(ms).heading = p.heading)
  <2>1. AddLine(ms, p) = Append(ms, p)
    BY <1>2 DEF AddLine
  <2>2. ParaViews(Append(ms, p)) = Append(ParaViews(ms), ParaView(p))
    BY ParaViewsAppend
  <2> QED
    BY <2>1, <2>2 DEF Grown
<1> QED
  BY <1>1, <1>2

LEMMA ParaViewsLen ==
  ASSUME NEW d, NEW ps \in Seq(Paragraph(d))
  PROVE  /\ Len(ParaViews(ps)) = Len(ps)
         /\ \A k \in 1 .. Len(ps) : ParaViews(ps)[k] = ParaView(ps[k])
<1>1. DOMAIN ps = 1 .. Len(ps)
  BY LenProperties
<1>2. ParaViews(<<>>) = <<>>
  BY DEF ParaViews
<1>3. CASE ps # <<>>
  <2>1. ps[1] \in Paragraph(d)
    BY <1>3, EmptySeq, ElementOfSeq, LenProperties
  <2> QED
    BY <1>1, <2>1, ParaViewsAppend DEF ParaViews
<1> QED
  BY <1>1, <1>2, <1>3, EmptySeq

LEMMA MergeBlocks ==
  ASSUME NEW d, NEW ps \in Seq(Paragraph(d)), NEW W, NEW m, Blocks(ParaViews(ps), W, m, d)
  PROVE  Merge(ps) \in Seq(Paragraph(d)) /\ Blocks(ParaViews(Merge(ps)), W, m, d)
<1> DEFINE n == Len(ps)
<1>1. PICK acc : /\ acc[0] = <<>> /\ acc[n] = Merge(ps)
                 /\ \A k \in 0 .. n - 1 : acc[k + 1] = AddLine(acc[k], ps[k + 1])
  BY MergeChain
<1>2. n \in Nat /\ DOMAIN ps = 1 .. n /\ \A k \in 1 .. n : ps[k] \in Paragraph(d)
  BY LenProperties, ElementOfSeq
<1> DEFINE T == {k \in Nat : k <= n => acc[k] \in Seq(Paragraph(d))}
           va == [k \in 0 .. n |-> ParaViews(acc[k])]
<1> HIDE DEF n
<1>3. 0 \in T
  BY <1>1, EmptySeq
<1>4. ASSUME NEW k \in Nat, k \in T PROVE k + 1 \in T
  <2> SUFFICES ASSUME k + 1 <= n PROVE acc[k + 1] \in Seq(Paragraph(d))
    OBVIOUS
  <2>1. k \in 0 .. n - 1 /\ k <= n /\ k + 1 \in 1 .. n
    BY <1>2
  <2> QED
    BY <1>1, <1>2, <1>4, <2>1, AddLineType
<1>5. \A k \in 0 .. n : acc[k] \in Seq(Paragraph(d))
  <2>1. \A k \in Nat : k \in T
    <3> HIDE DEF T
    <3> QED
      BY <1>3, <1>4, NatSetInduction
  <2> QED
    BY <2>1
<1>6. ParaViews(<<>>) = <<>>
  BY DEF ParaViews
<1>7. va[0] = <<>> /\ va[n] = ParaViews(Merge(ps))
  BY <1>1, <1>2, <1>6
<1>8. Len(ParaViews(ps)) = n /\ \A k \in 1 .. n : ParaViews(ps)[k] = ParaView(ps[k])
  BY <1>2, ParaViewsLen DEF n
<1>9. ASSUME NEW k \in 0 .. n - 1 PROVE Grown(va[k], ParaViews(ps)[k + 1], va[k + 1])
  <2>1. k \in 0 .. n /\ k + 1 \in 0 .. n /\ k + 1 \in 1 .. n
    BY <1>2
  <2>2. acc[k] \in Seq(Paragraph(d)) /\ ps[k + 1] \in Paragraph(d)
    BY <1>2, <1>5, <2>1
  <2>3. Grown(ParaViews(acc[k]), ParaView(ps[k + 1]), ParaViews(AddLine(acc[k], ps[k + 1])))
    BY <2>2, AddLineGrows
  <2>4. va[k] = ParaViews(acc[k]) /\ va[k + 1] = ParaViews(AddLine(acc[k], ps[k + 1]))
    BY <1>1, <2>1
  <2> HIDE DEF va
  <2> QED
    BY <1>8, <2>1, <2>3, <2>4
<1>10. Blocks(va[n], W, m, d)
  <2> HIDE DEF va
  <2> QED
    BY <1>7, <1>8, <1>9, BlocksChain
<1> QED
  BY <1>1, <1>2, <1>5, <1>7, <1>10

SectionView(s) == [heading |-> s[1].heading, words |-> SectionWords(s), pages |-> SectionPages(s)]

SectionViews(ss) == [k \in DOMAIN ss |-> SectionView(ss[k])]

\* A section has the heading of its first paragraph, and of its last.
Section(d) == {s \in Seq(Paragraph(d)) : s # <<>> /\ Last(s).heading = s[1].heading}

LEMMA SectionWordsAppend ==
  ASSUME NEW d, NEW s \in Seq(Paragraph(d)), NEW p \in Paragraph(d)
  PROVE  /\ SectionWords(s) \in Seq(Word)
         /\ SectionWords(Append(s, p)) = SectionWords(s) \o p.words
<1> DEFINE P == Paragraph(d)
           F == [x \in P |-> x.words]
           w == Mapped(F, s)
           r == Append(s, p)
<1>1. ASSUME NEW q \in Seq(P) PROVE SectionWords(q) = FlattenSeq(Mapped(F, q))
  <2>1. \A k \in DOMAIN q : q[k] \in P
    BY LenProperties, ElementOfSeq
  <2>2. [k \in DOMAIN q |-> q[k].words] = Mapped(F, q)
    BY <2>1 DEF Mapped
  <2> QED
    BY <2>2 DEF SectionWords
<1>2. F[p] = p.words
  OBVIOUS
<1>3. {F[v] : v \in P} \subseteq Seq(Word)
  BY DEF Paragraph
<1> HIDE DEF P, F
<1>4. s \in Seq(P) /\ p \in P /\ r \in Seq(P)
  BY AppendProperties DEF P
<1>5. w \in Seq({F[v] : v \in P}) /\ Mapped(F, r) = Append(w, F[p])
  BY <1>4, MappedAppend
<1>6. w \in Seq(Seq(Word)) /\ F[p] \in Seq(Word)
  BY <1>3, <1>4, <1>5, SeqMonotonic
<1> DEFINE x == F[p]
<1> HIDE DEF w, x, r
<1>7. FlattenSeq(w) \in Seq(Word) /\ FlattenSeq(Append(w, x)) = FlattenSeq(w) \o x
  BY <1>6, FlattenAppend DEF x
<1>8. SectionWords(s) = FlattenSeq(w) /\ SectionWords(r) = FlattenSeq(Append(w, x))
  BY <1>1, <1>4, <1>5 DEF w, x
<1> QED
  BY <1>2, <1>7, <1>8 DEF x, r

LEMMA SectionPagesAppend ==
  ASSUME NEW d, NEW s \in Seq(Paragraph(d)), NEW p \in Paragraph(d)
  PROVE  /\ SectionPages(s) \in Seq({PageIn(d, k) : k \in Nat})
         /\ SectionPages(Append(s, p)) = SectionPages(s) \o ParaView(p).pages
<1> DEFINE P == Paragraph(d)
           G == {PageIn(d, k) : k \in Nat}
           F == [x \in P |-> ParaView(x).pages]
           w == Mapped(F, s)
           r == Append(s, p)
<1>1. ASSUME NEW q \in Seq(P) PROVE SectionPages(q) = FlattenSeq(Mapped(F, q))
  <2>1. \A k \in DOMAIN q : q[k] \in P
    BY LenProperties, ElementOfSeq
  <2>2. \A k \in DOMAIN q : [j \in DOMAIN q[k].words |-> q[k].page] = F[q[k]]
    BY <2>1 DEF ParaView
  <2>3. [k \in DOMAIN q |-> [j \in DOMAIN q[k].words |-> q[k].page]] = Mapped(F, q)
    <3> HIDE DEF F
    <3> QED
      BY <2>2 DEF Mapped
  <2> QED
    BY <2>3 DEF SectionPages
<1>2. F[p] = ParaView(p).pages
  OBVIOUS
<1>3. {F[v] : v \in P} \subseteq Seq(G)
  <2>1. \A v \in P : ParaView(v).pages \in Seq(G)
    BY ParaViewType DEF View
  <2> QED
    BY <2>1
<1> HIDE DEF P, F, G
<1>4. s \in Seq(P) /\ p \in P /\ r \in Seq(P)
  BY AppendProperties DEF P
<1>5. w \in Seq({F[v] : v \in P}) /\ Mapped(F, r) = Append(w, F[p])
  BY <1>4, MappedAppend
<1>6. w \in Seq(Seq(G)) /\ F[p] \in Seq(G)
  BY <1>3, <1>4, <1>5, SeqMonotonic
<1> DEFINE x == F[p]
<1> HIDE DEF w, x, r
<1>7. FlattenSeq(w) \in Seq(G) /\ FlattenSeq(Append(w, x)) = FlattenSeq(w) \o x
  BY <1>6, FlattenAppend DEF x
<1>8. SectionPages(s) = FlattenSeq(w) /\ SectionPages(r) = FlattenSeq(Append(w, x))
  BY <1>1, <1>4, <1>5 DEF w, x
<1> QED
  BY <1>2, <1>7, <1>8 DEF x, r, G

LEMMA SectionAppend ==
  ASSUME NEW d, NEW s \in Section(d), NEW p \in Paragraph(d), Last(s).heading = p.heading
  PROVE  /\ Append(s, p) \in Section(d)
         /\ SectionView(Append(s, p)) = Join(SectionView(s), ParaView(p))
<1> DEFINE r == Append(s, p)
<1>1. s \in Seq(Paragraph(d)) /\ s # <<>> /\ Last(s).heading = s[1].heading
  BY DEF Section
<1>2. 1 \in 1 .. Len(s)
  BY <1>1, EmptySeq, LenProperties
<1>3. r \in Seq(Paragraph(d)) /\ r # <<>> /\ Last(r) = p /\ r[1] = s[1]
  BY <1>1, <1>2, AppendProperties, AppendLast
<1>4. r \in Section(d)
  <2> HIDE DEF r
  <2> QED
    BY <1>1, <1>3 DEF Section
<1>5. SectionWords(r) = SectionWords(s) \o p.words
      /\ SectionPages(r) = SectionPages(s) \o ParaView(p).pages
  BY <1>1, SectionWordsAppend, SectionPagesAppend
<1>6. ParaView(p).words = p.words
  BY DEF ParaView
<1>7. SectionView(r) = Join(SectionView(s), ParaView(p))
  <2> DEFINE g == ParaView(p).pages
  <2> HIDE DEF r, g
  <2>1. Join(SectionView(s), ParaView(p))
          = [heading |-> s[1].heading, words |-> SectionWords(s) \o p.words, pages |-> SectionPages(s) \o g]
    BY <1>6 DEF SectionView, Join, g
  <2>2. SectionView(r) = [heading |-> r[1].heading, words |-> SectionWords(r), pages |-> SectionPages(r)]
    BY DEF SectionView
  <2> QED
    BY <1>3, <1>5, <2>1, <2>2 DEF g
<1> QED
  BY <1>4, <1>7

LEMMA SectionStart ==
  ASSUME NEW d, NEW p \in Paragraph(d)
  PROVE  <<p>> \in Section(d) /\ SectionView(<<p>>) = ParaView(p)
<1> DEFINE P == Paragraph(d)
           e == <<>>
<1>1. e \in Seq(P) /\ <<p>> = Append(e, p)
  BY EmptySeq
<1>2. <<p>> \in Seq(P) /\ <<p>> # <<>> /\ Last(<<p>>) = p /\ <<p>>[1] = p
  BY DEF Last
<1>3. <<p>> \in Section(d)
  BY <1>2 DEF Section
<1>4. SectionWords(e) = <<>> /\ SectionPages(e) = <<>>
  <2>1. [k \in DOMAIN e |-> e[k].words] = <<>>
        /\ [k \in DOMAIN e |-> [j \in DOMAIN e[k].words |-> e[k].page]] = <<>>
    OBVIOUS
  <2> QED
    BY <2>1, FlattenEmpty DEF SectionWords, SectionPages
<1> DEFINE y == p.words
           g == ParaView(p).pages
<1>5. y \in Seq(Word) /\ g \in Seq({PageIn(d, k) : k \in Nat})
  BY ParaViewType DEF View, Paragraph
<1>6. SectionWords(<<p>>) = <<>> \o y /\ SectionPages(<<p>>) = <<>> \o g
  <2> HIDE DEF e
  <2>1. SectionWords(Append(e, p)) = SectionWords(e) \o p.words
        /\ SectionPages(Append(e, p)) = SectionPages(e) \o ParaView(p).pages
    BY <1>1, SectionWordsAppend, SectionPagesAppend
  <2> QED
    BY <1>1, <1>4, <2>1
<1>7. <<>> \o y = y /\ <<>> \o g = g
  <2> DEFINE G == {PageIn(d, k) : k \in Nat}
  <2>1. g \in Seq(G)
    BY <1>5
  <2> HIDE DEF y, g, G
  <2> QED
    BY <1>5, <2>1, ConcatEmptySeq
<1>8. ParaView(p) = [heading |-> p.heading, words |-> y, pages |-> g]
  BY DEF ParaView
<1> HIDE DEF y, g
<1> QED
  BY <1>2, <1>3, <1>6, <1>7, <1>8 DEF SectionView

LEMMA SectionViewType ==
  ASSUME NEW d, NEW s \in Section(d)
  PROVE  SectionView(s) \in View(d)
<1>1. s \in Seq(Paragraph(d)) /\ s # <<>>
  BY DEF Section
<1>2. s[1] \in Paragraph(d)
  BY <1>1, EmptySeq, LenProperties, ElementOfSeq
<1>3. SectionWords(s) \in Seq(Word) /\ SectionPages(s) \in Seq({PageIn(d, k) : k \in Nat})
  BY <1>1, <1>2, SectionWordsAppend, SectionPagesAppend
<1>4. s[1].heading \in {TitleIn(d, k) : k \in Nat}
  BY <1>2 DEF Paragraph
<1> QED
  BY <1>3, <1>4 DEF SectionView, View

LEMMA SectionViewsAppend ==
  ASSUME NEW d, NEW ss \in Seq(Section(d)), NEW s \in Section(d)
  PROVE  /\ SectionViews(ss) \in Seq(View(d)) /\ Len(SectionViews(ss)) = Len(ss)
         /\ SectionViews(Append(ss, s)) = Append(SectionViews(ss), SectionView(s))
<1> DEFINE F == [x \in Section(d) |-> SectionView(x)]
<1>1. \A x \in Section(d) : F[x] \in View(d)
  BY SectionViewType
<1>2. ASSUME NEW q \in Seq(Section(d)) PROVE SectionViews(q) = Mapped(F, q)
  <2>1. \A k \in DOMAIN q : q[k] \in Section(d)
    BY LenProperties, ElementOfSeq
  <2> QED
    BY <2>1 DEF SectionViews, Mapped
<1>3. F[s] = SectionView(s)
  OBVIOUS
<1> HIDE DEF F
<1>4. /\ Mapped(F, ss) \in Seq({F[v] : v \in Section(d)}) /\ Len(Mapped(F, ss)) = Len(ss)
      /\ Mapped(F, Append(ss, s)) = Append(Mapped(F, ss), F[s])
  BY MappedAppend
<1>6. Mapped(F, ss) \in Seq(View(d))
  <2>1. {F[v] : v \in Section(d)} \subseteq View(d)
    BY <1>1
  <2> QED
    BY <1>4, <2>1, SeqMonotonic
<1>5. Append(ss, s) \in Seq(Section(d))
  BY AppendProperties
<1> QED
  BY <1>2, <1>3, <1>4, <1>5, <1>6

LEMMA SectionViewsLen ==
  ASSUME NEW d, NEW ss \in Seq(Section(d))
  PROVE  Len(SectionViews(ss)) = Len(ss)
<1>1. SectionViews(<<>>) = <<>>
  BY DEF SectionViews
<1>2. CASE ss # <<>>
  <2>1. ss[1] \in Section(d)
    BY <1>2, EmptySeq, ElementOfSeq, LenProperties
  <2> QED
    BY <2>1, SectionViewsAppend
<1> QED
  BY <1>1, <1>2

\* A paragraph is added to the last section or begins one, and it begins one
\* only under another heading.
LEMMA AddParagraphGrows ==
  ASSUME NEW d, NEW ss \in Seq(Section(d)), NEW p \in Paragraph(d)
  PROVE  /\ AddParagraph(ss, p) \in Seq(Section(d))
         /\ Grown(SectionViews(ss), ParaView(p), SectionViews(AddParagraph(ss, p)))
         /\ Apart(SectionViews(ss)) => Apart(SectionViews(AddParagraph(ss, p)))
<1> DEFINE u == ParaView(p)
           vs == SectionViews(ss)
<1>1. u \in View(d) /\ u.heading = p.heading
  BY ParaViewType DEF ParaView
<1>2. CASE ss # <<>> /\ Last(Last(ss)).heading = p.heading
  <2> DEFINE f == Front(ss)
             l == Last(ss)
             x == Append(l, p)
  <2>1. f \in Seq(Section(d)) /\ l \in Section(d) /\ ss = Append(f, l)
    BY <1>2, FrontAndLast
  <2>2. AddParagraph(ss, p) = Append(f, x)
    BY <1>2 DEF AddParagraph
  <2>3. x \in Section(d) /\ SectionView(x) = Join(SectionView(l), u)
    BY <1>2, <2>1, SectionAppend
  <2> DEFINE fv == SectionViews(f)
             lv == SectionView(l)
  <2>4. SectionViews(Append(f, l)) = Append(fv, lv) /\ fv \in Seq(View(d)) /\ lv \in View(d)
        /\ SectionViews(Append(f, x)) = Append(fv, SectionView(x))
    <3> HIDE DEF x, f, l
    <3> QED
      BY <2>1, <2>3, SectionViewsAppend, SectionViewType
  <2>5. lv.heading = u.heading
    BY <1>1, <1>2, <2>1 DEF SectionView, Section
  <2> HIDE DEF f, l, x, fv, lv, u
  <2>6. vs = Append(fv, lv)
    BY <2>1, <2>4
  <2>7. Append(fv, lv) # <<>> /\ Front(Append(fv, lv)) = fv /\ Last(Append(fv, lv)) = lv
    BY <2>4, AppendLast
  <2> DEFINE vt == SectionViews(Append(f, x))
  <2>8. vt = Append(fv, Join(lv, u)) /\ vs # <<>> /\ Front(vs) = fv /\ Last(vs) = lv
    <3>1. SectionView(x) = Join(lv, u)
      BY <2>3 DEF lv
    <3>2. vt = Append(fv, SectionView(x))
      BY <2>4
    <3> HIDE DEF vs, vt
    <3>3. vs # <<>> /\ Front(vs) = fv /\ Last(vs) = lv
      BY <2>6, <2>7
    <3> QED
      BY <3>1, <3>2, <3>3
  <2>9. vs \in Seq(View(d))
    BY <2>4, <2>6, AppendProperties
  <2>10. Append(f, x) \in Seq(Section(d))
    BY <2>1, <2>3, AppendProperties
  <2> HIDE DEF vs, vt
  <2>11. Grown(vs, u, vt)
    BY <2>5, <2>8 DEF Grown
  <2>12. vt = Append(vs, u) => vs = <<>> \/ Last(vs).heading # u.heading
    <3>1. Len(vt) = Len(fv) + 1 /\ Len(Append(vs, u)) = Len(vs) + 1 /\ Len(vs) = Len(fv) + 1
          /\ Len(fv) \in Nat
      <4>2. /\ Len(Append(vs, u)) = Len(vs) + 1 /\ Len(Append(fv, lv)) = Len(fv) + 1 /\ Len(fv) \in Nat
        BY <1>1, <2>4, <2>9, AppendProperties, LenProperties
      <4>3. Len(vt) = Len(fv) + 1
        <5> DEFINE S == View(d) \cup {Join(lv, u)}
                   j == Join(lv, u)
        <5>1. fv \in Seq(S) /\ j \in S
          BY <2>4, SeqMonotonic
        <5> HIDE DEF S, j
        <5>2. Len(Append(fv, j)) = Len(fv) + 1
          BY <5>1, AppendProperties
        <5> QED
          BY <2>8, <5>2 DEF j
      <4> QED
        BY <2>6, <4>2, <4>3
    <3> QED
      BY <3>1
  <2>13. Apart(vs) => Apart(vt)
    BY <1>1, <2>9, <2>11, <2>12, ApartGrows DEF u
  <2> QED
    BY <2>2, <2>10, <2>11, <2>13 DEF vs, vt, u
<1>3. CASE ~(ss # <<>> /\ Last(Last(ss)).heading = p.heading)
  <2>1. AddParagraph(ss, p) = Append(ss, <<p>>)
    BY <1>3 DEF AddParagraph
  <2> DEFINE x == <<p>>
  <2>2. x \in Section(d) /\ SectionView(x) = u
    BY SectionStart
  <2> HIDE DEF x, u
  <2>3. vs \in Seq(View(d)) /\ SectionViews(Append(ss, x)) = Append(vs, u)
        /\ Append(ss, x) \in Seq(Section(d)) /\ Len(vs) = Len(ss)
    BY <2>2, SectionViewsAppend, AppendProperties
  <2>4. Grown(vs, u, Append(vs, u))
    BY DEF Grown
  <2>5. vs = <<>> \/ Last(vs).heading # u.heading
    <3>1. CASE ss = <<>>
      BY <2>3, <3>1, EmptySeq
    <3>2. CASE ss # <<>>
      <4> DEFINE f == Front(ss)
                 l == Last(ss)
                 fv == SectionViews(f)
                 lv == SectionView(l)
      <4>1. f \in Seq(Section(d)) /\ l \in Section(d) /\ ss = Append(f, l)
        BY <3>2, FrontAndLast
      <4>2. vs = Append(fv, lv) /\ fv \in Seq(View(d)) /\ lv \in View(d)
        <5> HIDE DEF f, l
        <5> QED
          BY <4>1, SectionViewsAppend, SectionViewType
      <4>3. lv.heading # u.heading
        BY <1>1, <1>3, <3>2, <4>1 DEF SectionView, Section
      <4> HIDE DEF fv, lv
      <4> QED
        BY <4>2, <4>3, AppendLast
    <3> QED
      BY <3>1, <3>2
  <2>6. Apart(vs) => Apart(Append(vs, u))
    <3> HIDE DEF vs
    <3> QED
      BY <1>1, <2>3, <2>4, <2>5, ApartGrows DEF u
  <2> QED
    BY <2>1, <2>3, <2>4, <2>6 DEF x, u
<1> QED
  BY <1>2, <1>3

\* GroupBySection takes the paragraphs in turn.
LEMMA GroupChain ==
  ASSUME NEW d, NEW ps \in Seq(Paragraph(d))
  PROVE  \E acc : /\ acc[0] = <<>> /\ acc[Len(ps)] = GroupBySection(ps)
                  /\ \A k \in 0 .. Len(ps) - 1 : acc[k + 1] = AddParagraph(acc[k], ps[k + 1])
<1> DEFINE V == Seq(Section(d))
           G == [x \in V \X Paragraph(d) |-> AddParagraph(x[1], x[2])]
           Iterates(f) == f = [s \in SUBSET DOMAIN ps |->
                                 IF s = {} THEN <<>> ELSE AddParagraph(f[s \ {Max(s)}], ps[Max(s)])]
<1>1. G \in [V \X Paragraph(d) -> V]
  BY AddParagraphGrows
<1>2. <<>> \in V
  BY EmptySeq
<1>3. PICK f : Folds(f, ps, <<>>, G) /\ \A s \in SUBSET DOMAIN ps : f[s] \in V
  <2> HIDE DEF G, V
  <2> QED
    BY <1>1, <1>2, FoldDefined DEF V
<1>4. ASSUME NEW s \in SUBSET DOMAIN ps, s # {}
      PROVE  Max(s) \in s /\ ps[Max(s)] \in Paragraph(d) /\ s \ {Max(s)} \in SUBSET DOMAIN ps
  <2>1. DOMAIN ps = 1 .. Len(ps) /\ Len(ps) \in Nat /\ \A i \in 1 .. Len(ps) : ps[i] \in Paragraph(d)
    BY LenProperties, ElementOfSeq
  <2>5. IsFiniteSet(DOMAIN ps)
    BY <2>1, FS_Interval
  <2>2. IsFiniteSet(s)
    BY <2>5, FS_Subset
  <2>3. \A x \in s : x \in Int
    BY <2>1
  <2>4. Max(s) \in s
    BY <1>4, <2>2, <2>3, MaxOfFinite
  <2> QED
    BY <2>1, <2>4
<1>5. ASSUME NEW v \in V, NEW p \in Paragraph(d) PROVE G[<<v, p>>] = AddParagraph(v, p)
  <2> HIDE DEF V
  <2> QED
    OBVIOUS
<1>6. Iterates(f)
  <2>1. f = [s \in SUBSET DOMAIN ps |-> IF s = {} THEN <<>> ELSE G[<<f[s \ {Max(s)}], ps[Max(s)]>>]]
    BY <1>3 DEF Folds
  <2>2. ASSUME NEW s \in SUBSET DOMAIN ps
        PROVE  f[s] = IF s = {} THEN <<>> ELSE AddParagraph(f[s \ {Max(s)}], ps[Max(s)])
    <3>1. CASE s = {}
      BY <2>1, <3>1
    <3>2. CASE s # {}
      <4>1. f[s] = G[<<f[s \ {Max(s)}], ps[Max(s)]>>]
        BY <2>1, <3>2
      <4>2. f[s \ {Max(s)}] \in V /\ ps[Max(s)] \in Paragraph(d)
        BY <1>3, <1>4, <3>2
      <4> HIDE DEF G, V
      <4> QED
        BY <1>5, <3>2, <4>1, <4>2
    <3> QED
      BY <3>1, <3>2
  <2> HIDE DEF G, V
  <2> QED
    BY <2>1, <2>2
<1> DEFINE c == CHOOSE iter : Iterates(iter)
<1>7. Iterates(c)
  <2> HIDE DEF Iterates
  <2> QED
    BY <1>6
<1>8. GroupBySection(ps) = c[DOMAIN ps]
  BY DEF GroupBySection, FoldLeft, MapThenFoldSet, AddParagraph
<1> HIDE DEF c
<1> DEFINE acc == [k \in 0 .. Len(ps) |-> c[1 .. k]]
<1>9. DOMAIN ps = 1 .. Len(ps) /\ Len(ps) \in Nat
  BY LenProperties
<1>10. acc[0] = <<>> /\ acc[Len(ps)] = GroupBySection(ps)
  <2>1. c[{}] = <<>>
    BY <1>7
  <2>2. 1 .. 0 = {}
    OBVIOUS
  <2> QED
    BY <1>8, <1>9, <2>1, <2>2
<1>11. ASSUME NEW k \in 0 .. Len(ps) - 1 PROVE acc[k + 1] = AddParagraph(acc[k], ps[k + 1])
  <2>0. k \in Nat
    BY <1>9
  <2>1. /\ Max(1 .. k + 1) = k + 1 /\ (1 .. k + 1) \ {k + 1} = 1 .. k /\ 1 .. k + 1 # {}
    BY <2>0, PrefixFacts
  <2>2. 1 .. k + 1 \in SUBSET DOMAIN ps
    BY <1>9
  <2>3. c[1 .. k + 1] = AddParagraph(c[(1 .. k + 1) \ {Max(1 .. k + 1)}], ps[Max(1 .. k + 1)])
    BY <1>7, <2>1, <2>2
  <2>4. acc[k + 1] = c[1 .. k + 1] /\ acc[k] = c[1 .. k]
    BY <1>9
  <2> QED
    BY <2>1, <2>3, <2>4
<1> HIDE DEF acc
<1> QED
  BY <1>10, <1>11

LEMMA GroupBlocks ==
  ASSUME NEW d, NEW ps \in Seq(Paragraph(d)), NEW W, NEW m, Blocks(ParaViews(ps), W, m, d)
  PROVE  /\ GroupBySection(ps) \in Seq(Section(d))
         /\ Blocks(SectionViews(GroupBySection(ps)), W, m, d)
         /\ Apart(SectionViews(GroupBySection(ps)))
<1> DEFINE n == Len(ps)
<1>1. PICK acc : /\ acc[0] = <<>> /\ acc[n] = GroupBySection(ps)
                 /\ \A k \in 0 .. n - 1 : acc[k + 1] = AddParagraph(acc[k], ps[k + 1])
  BY GroupChain
<1>2. n \in Nat /\ DOMAIN ps = 1 .. n /\ \A k \in 1 .. n : ps[k] \in Paragraph(d)
  BY LenProperties, ElementOfSeq
<1> DEFINE Typed(q) == q \in Seq(Section(d)) /\ Apart(SectionViews(q))
           T == {k \in Nat : k <= n => Typed(acc[k])}
           va == [k \in 0 .. n |-> SectionViews(acc[k])]
<1> HIDE DEF n
<1>6. SectionViews(<<>>) = <<>>
  BY DEF SectionViews
<1>3. 0 \in T
  <2>1. Apart(<<>>)
    BY DEF Apart
  <2> QED
    BY <1>1, <1>6, <2>1, EmptySeq
<1>4. ASSUME NEW k \in Nat, k \in T PROVE k + 1 \in T
  <2> SUFFICES ASSUME k + 1 <= n PROVE Typed(acc[k + 1])
    OBVIOUS
  <2>1. k \in 0 .. n - 1 /\ k <= n /\ k + 1 \in 1 .. n
    BY <1>2
  <2>2. Typed(acc[k]) /\ ps[k + 1] \in Paragraph(d)
    BY <1>2, <1>4, <2>1
  <2>3. acc[k + 1] = AddParagraph(acc[k], ps[k + 1])
    BY <1>1, <2>1
  <2> QED
    BY <2>2, <2>3, AddParagraphGrows
<1>5. \A k \in 0 .. n : Typed(acc[k])
  <2>1. \A k \in Nat : k \in T
    <3> HIDE DEF T
    <3> QED
      BY <1>3, <1>4, NatSetInduction
  <2> HIDE DEF Typed
  <2> QED
    BY <2>1
<1>7. va[0] = <<>> /\ va[n] = SectionViews(GroupBySection(ps))
  BY <1>1, <1>2, <1>6
<1>8. Len(ParaViews(ps)) = n /\ \A k \in 1 .. n : ParaViews(ps)[k] = ParaView(ps[k])
  BY <1>2, ParaViewsLen DEF n
<1>9. ASSUME NEW k \in 0 .. n - 1 PROVE Grown(va[k], ParaViews(ps)[k + 1], va[k + 1])
  <2>1. k \in 0 .. n /\ k + 1 \in 0 .. n /\ k + 1 \in 1 .. n
    BY <1>2
  <2>2. acc[k] \in Seq(Section(d)) /\ ps[k + 1] \in Paragraph(d)
    BY <1>2, <1>5, <2>1
  <2>3. Grown(SectionViews(acc[k]), ParaView(ps[k + 1]), SectionViews(AddParagraph(acc[k], ps[k + 1])))
    BY <2>2, AddParagraphGrows
  <2>4. va[k] = SectionViews(acc[k]) /\ va[k + 1] = SectionViews(AddParagraph(acc[k], ps[k + 1]))
    BY <1>1, <2>1
  <2> HIDE DEF va
  <2> QED
    BY <1>8, <2>1, <2>3, <2>4
<1>10. Blocks(va[n], W, m, d)
  <2> HIDE DEF va
  <2> QED
    BY <1>7, <1>8, <1>9, BlocksChain
<1> QED
  BY <1>1, <1>2, <1>5, <1>7, <1>10

-----------------------------------------------------------------------------
(* Windows.                                                                *)

Stop(i, n) == IF i + TargetWords > n THEN n ELSE i + TargetWords - 1

Piece(d) == [ordinal : Nat, page : {PageIn(d, k) : k \in Nat},
             section : {TitleIn(d, k) : k \in Nat}, words : Seq(Word)]

\* Chunk c is the window of view v that starts at word i.
WindowAt(v, i, c) ==
    /\ i \in 1 .. Len(v.words)
    /\ c.page = v.pages[i] /\ c.section = v.heading
    /\ c.words = SubSeq(v.words, i, Stop(i, Len(v.words)))

\* The place the loop goes to after the window at word i of view a.
After(vs, a, i, b, j) ==
    \/ a = b /\ j = i + WindowStep /\ ~IsLastWindow(i, Len(vs[a].words))
    \/ a < b

\* Chunk k is the window at word st[k] of view sec[k].
Cuts(vs, cs, sec, st) ==
    \A k \in DOMAIN cs :
       /\ sec[k] \in DOMAIN vs /\ WindowAt(vs[sec[k]], st[k], cs[k])
       /\ cs[k].ordinal = k - 1

InOrder(vs, cs, sec, st) ==
    \A k \in 1 .. Len(cs) - 1 : After(vs, sec[k], st[k], sec[k + 1], st[k + 1])

\* Every word before word i of view a is in a chunk.
Reached(vs, cs, sec, st, a, i) ==
    \A b \in DOMAIN vs : \A j \in 1 .. Len(vs[b].words) :
       b < a \/ (b = a /\ j < i) =>
          \E k \in DOMAIN cs : sec[k] = b /\ st[k] <= j /\ j <= Stop(st[k], Len(vs[b].words))

Place(vs, a, i) ==
    /\ a \in Nat \ {0} /\ i \in Nat \ {0}
    /\ a \in DOMAIN vs => i = 1 \/ i <= Len(vs[a].words)

Cutting(vs, cs, sec, st, a, i) ==
    /\ Cuts(vs, cs, sec, st) /\ InOrder(vs, cs, sec, st)
    /\ Reached(vs, cs, sec, st, a, i)
    /\ cs # <<>> => After(vs, sec[Len(cs)], st[Len(cs)], a, i)

Windows(vs, cs, a, i) == Place(vs, a, i) /\ \E sec, st : Cutting(vs, cs, sec, st, a, i)

LEMMA NoWindows ==
  ASSUME NEW V, NEW vs \in Seq(V)
  PROVE  Windows(vs, <<>>, 1, 1)
<1>1. Place(vs, 1, 1)
  BY DEF Place
<1>2. Reached(vs, <<>>, <<>>, <<>>, 1, 1)
  <2> SUFFICES ASSUME NEW b \in DOMAIN vs, NEW j \in 1 .. Len(vs[b].words), b < 1 \/ (b = 1 /\ j < 1)
               PROVE  FALSE
    BY DEF Reached
  <2>1. DOMAIN vs = 1 .. Len(vs) /\ Len(vs) \in Nat
    BY LenProperties
  <2> QED
    BY <2>1
<1>3. Cutting(vs, <<>>, <<>>, <<>>, 1, 1)
  BY <1>2 DEF Cutting, Cuts, InOrder
<1> QED
  BY <1>1, <1>3 DEF Windows

LEMMA StepTypes == WindowStep \in Nat \ {0} /\ WindowStep <= TargetWords /\ TargetWords \in Nat \ {0}
BY WindowAssumption DEF WindowStep

LEMMA ViewTypes ==
  ASSUME NEW d, NEW vs \in Seq(View(d))
  PROVE  /\ DOMAIN vs = 1 .. Len(vs) /\ Len(vs) \in Nat
         /\ \A a \in DOMAIN vs : /\ vs[a] \in View(d) /\ vs[a].words \in Seq(Word)
                                /\ Len(vs[a].words) \in Nat
<1>1. DOMAIN vs = 1 .. Len(vs) /\ Len(vs) \in Nat
  BY LenProperties
<1>2. ASSUME NEW a \in DOMAIN vs
      PROVE  vs[a] \in View(d) /\ vs[a].words \in Seq(Word) /\ Len(vs[a].words) \in Nat
  <2>1. vs[a] \in View(d)
    BY <1>1, ElementOfSeq
  <2>2. vs[a].words \in Seq(Word)
    BY <2>1 DEF View
  <2> QED
    BY <2>1, <2>2, LenProperties
<1> QED
  BY <1>1, <1>2

\* A section without words has no window.
LEMMA WindowSkips ==
  ASSUME NEW d, NEW vs \in Seq(View(d)), NEW cs \in Seq(Piece(d)), NEW a, NEW i,
         Windows(vs, cs, a, i), a \in DOMAIN vs, Len(vs[a].words) = 0
  PROVE  Windows(vs, cs, a + 1, 1)
<1>1. PICK sec, st : Cutting(vs, cs, sec, st, a, i)
  BY DEF Windows
<1>2. a \in Nat /\ DOMAIN vs = 1 .. Len(vs) /\ Len(vs) \in Nat
  BY LenProperties DEF Windows, Place
<1>3. Place(vs, a + 1, 1)
  BY <1>2 DEF Place
<1>4. Reached(vs, cs, sec, st, a + 1, 1)
  <2> SUFFICES ASSUME NEW b \in DOMAIN vs, NEW j \in 1 .. Len(vs[b].words),
                      b < a + 1 \/ (b = a + 1 /\ j < 1)
               PROVE  \E k \in DOMAIN cs : sec[k] = b /\ st[k] <= j /\ j <= Stop(st[k], Len(vs[b].words))
    BY DEF Reached
  <2>1. vs[b].words \in Seq(Word)
    BY ViewTypes
  <2>2. Len(vs[b].words) \in Nat
    BY <2>1, LenProperties
  <2>3. b < a
    <3>1. b # a
      OBVIOUS
    <3> QED
      BY <1>2, <2>2, <3>1
  <2> QED
    BY <1>1, <2>3 DEF Cutting, Reached
<1>5. cs # <<>> => After(vs, sec[Len(cs)], st[Len(cs)], a + 1, 1)
  <2> SUFFICES ASSUME cs # <<>> PROVE sec[Len(cs)] < a + 1
    BY DEF After
  <2>1. After(vs, sec[Len(cs)], st[Len(cs)], a, i)
    BY <1>1 DEF Cutting
  <2>2. CASE sec[Len(cs)] = a
    BY <1>2, <2>2
  <2>3. CASE sec[Len(cs)] < a
    <3>1. sec[Len(cs)] \in Int
      <4>1. Len(cs) \in DOMAIN cs
        BY EmptySeq, LenProperties
      <4> QED
        BY <1>1, <1>2, <4>1 DEF Cutting, Cuts
    <3> QED
      BY <1>2, <2>3, <3>1
  <2> QED
    BY <2>1, <2>2, <2>3 DEF After
<1> QED
  BY <1>1, <1>3, <1>4, <1>5 DEF Windows, Cutting

\* The window at the place of the loop is the next chunk.
LEMMA WindowAdds ==
  ASSUME NEW d, NEW vs \in Seq(View(d)), NEW cs \in Seq(Piece(d)), NEW a, NEW i,
         Windows(vs, cs, a, i), a \in DOMAIN vs,
         NEW c \in Piece(d), WindowAt(vs[a], i, c), c.ordinal = Len(cs),
         NEW b, NEW j, IF IsLastWindow(i, Len(vs[a].words)) THEN b = a + 1 /\ j = 1
                       ELSE b = a /\ j = i + WindowStep
  PROVE  Windows(vs, Append(cs, c), b, j)
<1> DEFINE n == Len(cs)
           ct == Append(cs, c)
           z == Len(vs[a].words)
<1>1. PICK sec, st : Cutting(vs, cs, sec, st, a, i)
  BY DEF Windows
<1>2. /\ a \in Nat \ {0} /\ i \in Nat \ {0} /\ DOMAIN vs = 1 .. Len(vs) /\ Len(vs) \in Nat
      /\ vs[a].words \in Seq(Word)
  BY ViewTypes DEF Windows, Place
<1>3. z \in Nat /\ i \in 1 .. z
  BY <1>2, LenProperties DEF WindowAt
<1>4. /\ n \in Nat /\ DOMAIN cs = 1 .. n /\ ct \in Seq(Piece(d)) /\ Len(ct) = n + 1
      /\ DOMAIN ct = 1 .. n + 1 /\ ct[n + 1] = c /\ ct # <<>>
      /\ \A k \in 1 .. n : ct[k] = cs[k]
  BY AppendProperties, LenProperties
<1> DEFINE sect == [k \in 1 .. n + 1 |-> IF k = n + 1 THEN a ELSE sec[k]]
           stt == [k \in 1 .. n + 1 |-> IF k = n + 1 THEN i ELSE st[k]]
<1>5. sect[n + 1] = a /\ stt[n + 1] = i
  BY <1>4
<1>6. \A k \in 1 .. n : sect[k] = sec[k] /\ stt[k] = st[k]
  BY <1>4
<1> HIDE DEF n, ct, sect, stt, z
<1>7. Cuts(vs, ct, sect, stt)
  <2> SUFFICES ASSUME NEW k \in 1 .. n + 1
               PROVE  /\ sect[k] \in DOMAIN vs /\ WindowAt(vs[sect[k]], stt[k], ct[k])
                      /\ ct[k].ordinal = k - 1
    BY <1>4 DEF Cuts
  <2>1. CASE k \in 1 .. n
    BY <1>1, <1>4, <1>6, <2>1 DEF Cutting, Cuts
  <2>2. CASE k = n + 1
    <3>1. k - 1 = n
      BY <1>4, <2>2
    <3> QED
      BY <1>4, <1>5, <2>2, <3>1 DEF n
  <2> QED
    BY <1>4, <2>1, <2>2
<1>8. InOrder(vs, ct, sect, stt)
  <2> SUFFICES ASSUME NEW k \in 1 .. n PROVE After(vs, sect[k], stt[k], sect[k + 1], stt[k + 1])
    BY <1>4 DEF InOrder
  <2>1. CASE k = n
    <3>1. cs # <<>>
      BY <1>4, <2>1
    <3>2. After(vs, sec[n], st[n], a, i)
      BY <1>1, <3>1 DEF Cutting, n
    <3> QED
      BY <1>5, <1>6, <2>1, <3>2
  <2>2. CASE k # n
    <3>1. k \in 1 .. n - 1 /\ k + 1 \in 1 .. n
      BY <1>4, <2>2
    <3>2. After(vs, sec[k], st[k], sec[k + 1], st[k + 1])
      BY <1>1, <3>1 DEF Cutting, InOrder, n
    <3> QED
      BY <1>6, <3>1, <3>2
  <2> QED
    BY <2>1, <2>2
<1>9. WindowStep \in Nat \ {0} /\ WindowStep <= TargetWords /\ TargetWords \in Nat \ {0}
  BY StepTypes
<1>10. Place(vs, b, j) /\ b \in Nat
  <2>1. CASE IsLastWindow(i, z)
    BY <1>2, <2>1 DEF Place, z
  <2>2. CASE ~IsLastWindow(i, z)
    <3>1. i + TargetWords <= z /\ b = a /\ j = i + WindowStep
      BY <1>2, <1>3, <1>9, <2>2 DEF IsLastWindow, z
    <3>2. j \in Nat \ {0} /\ j <= z
      BY <1>2, <1>3, <1>9, <3>1
    <3> QED
      BY <1>2, <3>1, <3>2 DEF Place, z
  <2> QED
    BY <2>1, <2>2
<1>11. Reached(vs, ct, sect, stt, b, j)
  <2> SUFFICES ASSUME NEW e \in DOMAIN vs, NEW x \in 1 .. Len(vs[e].words),
                      e < b \/ (e = b /\ x < j)
               PROVE  \E k \in DOMAIN ct : /\ sect[k] = e /\ stt[k] <= x
                                           /\ x <= Stop(stt[k], Len(vs[e].words))
    BY DEF Reached
  <2>0. e \in Nat /\ x \in Int
    BY <1>2
  <2>1. CASE e < a \/ (e = a /\ x < i)
    <3>1. PICK k \in DOMAIN cs : sec[k] = e /\ st[k] <= x /\ x <= Stop(st[k], Len(vs[e].words))
      BY <1>1, <2>1 DEF Cutting, Reached
    <3>2. k \in DOMAIN ct /\ sect[k] = sec[k] /\ stt[k] = st[k]
      BY <1>4, <1>6
    <3> QED
      BY <3>1, <3>2
  <2>2. CASE ~(e < a \/ (e = a /\ x < i))
    <3>1. e = a /\ i <= x /\ x \in 1 .. z
      <4>1. b = a \/ b = a + 1
        OBVIOUS
      <4>2. e = a
        <5>1. CASE b = a
          BY <1>2, <2>0, <2>2, <5>1
        <5>2. CASE b = a + 1
          <6>1. j = 1
            BY <1>2, <5>2
          <6>2. e < a + 1
            BY <1>2, <2>0, <5>2, <6>1
          <6> QED
            BY <1>2, <2>0, <2>2, <6>2
        <5> QED
          BY <4>1, <5>1, <5>2
      <4> QED
        BY <1>2, <2>0, <2>2, <4>2 DEF z
    <3>2. x <= Stop(i, z)
      <4>1. CASE i + TargetWords > z
        BY <1>3, <3>1, <4>1 DEF Stop
      <4>2. CASE ~(i + TargetWords > z)
        <5>1. b = a /\ j = i + WindowStep
          BY <4>2 DEF IsLastWindow, z
        <5>2. x < i + WindowStep
          BY <1>2, <3>1, <5>1
        <5>3. x <= i + TargetWords - 1
          BY <1>2, <1>9, <2>0, <5>2
        <5> QED
          BY <4>2, <5>3 DEF Stop
      <4> QED
        BY <4>1, <4>2
    <3>3. n + 1 \in DOMAIN ct
      BY <1>4
    <3> QED
      BY <1>5, <3>1, <3>2, <3>3 DEF z
  <2> QED
    BY <2>1, <2>2
<1>12. After(vs, sect[Len(ct)], stt[Len(ct)], b, j)
  <2>1. a < a + 1
    BY <1>2
  <2> QED
    BY <1>4, <1>5, <2>1 DEF After
<1>13. Cutting(vs, ct, sect, stt, b, j)
  BY <1>7, <1>8, <1>11, <1>12 DEF Cutting
<1> QED
  BY <1>10, <1>13 DEF Windows, ct

\* What grouping has made of the paragraphs, and what of it the windows have
\* taken.
SectionInv ==
    /\ sections \in Seq(Section(doc))
    /\ sections # <<>> =>
          /\ Parsed
          /\ Blocks(SectionViews(sections), Body(doc, Len(doc.lines)), Len(doc.lines), doc)
          /\ Apart(SectionViews(sections))
    /\ sections = <<>> => chunks = <<>> /\ at = [section |-> 1, i |-> 1]
    /\ chunks \in Seq(Piece(doc))
    /\ at \in [section : Nat \ {0}, i : Nat \ {0}]
    /\ Windows(SectionViews(sections), chunks, at.section, at.i)

LEMMA SectionInit == ChunkingInit => SectionInv
<1> SUFFICES ASSUME ChunkingInit PROVE SectionInv
  OBVIOUS
<1>1. sections = <<>> /\ chunks = <<>> /\ at = [section |-> 1, i |-> 1]
  BY DEF ChunkingInit
<1>2. <<>> \in Seq(Section(doc)) /\ <<>> \in Seq(Piece(doc)) /\ <<>> \in Seq(View(doc))
  BY EmptySeq
<1>3. SectionViews(<<>>) = <<>>
  BY DEF SectionViews
<1>4. Windows(SectionViews(sections), chunks, at.section, at.i)
  BY <1>1, <1>2, <1>3, NoWindows
<1> QED
  BY <1>1, <1>2, <1>4 DEF SectionInv

LEMMA SectionSame ==
  ASSUME SectionInv, UNCHANGED <<doc, sections, at, chunks>>, sections # <<>> => pos' = pos
  PROVE  SectionInv'
<1>1. doc' = doc /\ sections' = sections /\ at' = at /\ chunks' = chunks
  OBVIOUS
<1>2. SectionViews(sections)' = SectionViews(sections)
  BY <1>1 DEF SectionViews
<1>3. sections # <<>> => (Parsed' <=> Parsed)
  BY <1>1 DEF Parsed
<1> QED
  BY <1>1, <1>2, <1>3 DEF SectionInv

LEMMA ParsedAll ==
  ASSUME ParseInv, Parsed
  PROVE  /\ pos - 1 = Len(doc.lines) /\ Len(doc.lines) \in Nat
         /\ Blocks(ParaViews(paragraphs), Body(doc, Len(doc.lines)), Len(doc.lines), doc)
<1>1. Len(doc.lines) \in Nat
  BY DocumentTypes DEF ParseInv
<1>2. pos - 1 = Len(doc.lines)
  BY <1>1 DEF ParseInv, Parsed
<1> QED
  BY <1>1, <1>2 DEF ParseInv

LEMMA GroupStep ==
  ASSUME ParseInv, SectionInv, Group
  PROVE  ParseInv' /\ SectionInv'
<1> DEFINE m == Len(doc.lines)
           W == Body(doc, m)
           ps == IF doc.format = "pdf" THEN Merge(paragraphs) ELSE paragraphs
<1>1. /\ Parsed /\ sections = <<>> /\ doc' = doc /\ pos' = pos /\ heading' = heading
      /\ paragraphs' = paragraphs /\ at' = at /\ chunks' = chunks
      /\ sections' = GroupBySection(ps)
  BY DEF Group
<1>2. ParseInv'
  <2>1. ParaViews(paragraphs)' = ParaViews(paragraphs)
    BY <1>1 DEF ParaViews
  <2> QED
    BY <1>1, <2>1 DEF ParseInv
<1>3. paragraphs \in Seq(Paragraph(doc)) /\ Blocks(ParaViews(paragraphs), W, m, doc)
  BY <1>1, ParsedAll DEF ParseInv
<1> HIDE DEF m, W
<1>4. ps \in Seq(Paragraph(doc)) /\ Blocks(ParaViews(ps), W, m, doc)
  BY <1>3, MergeBlocks
<1> HIDE DEF ps
<1>5. /\ sections' \in Seq(Section(doc)) /\ Blocks(SectionViews(sections'), W, m, doc)
      /\ Apart(SectionViews(sections'))
  BY <1>1, <1>4, GroupBlocks
<1>6. chunks = <<>> /\ at = [section |-> 1, i |-> 1]
  BY <1>1 DEF SectionInv
<1>7. Windows(SectionViews(sections'), <<>>, 1, 1)
  <2>1. SectionViews(sections') \in Seq(View(doc))
    BY <1>5 DEF Blocks
  <2> QED
    BY <2>1, NoWindows
<1>8. SectionViews(sections)' = SectionViews(sections') /\ Parsed'
  BY <1>1 DEF SectionViews, Parsed
<1> QED
  BY <1>1, <1>2, <1>5, <1>6, <1>7, <1>8, EmptySeq DEF SectionInv, m, W

LEMMA WindowStepInv ==
  ASSUME ParseInv, SectionInv, Window
  PROVE  ParseInv' /\ SectionInv'
<1> DEFINE vs == SectionViews(sections)
           a == at.section
           i == at.i
           s == sections[a]
           v == vs[a]
           n == Len(SectionWords(s))
           stop == IF i + TargetWords > n THEN n ELSE i + TargetWords - 1
           c == [ordinal |-> NextOrdinal, page |-> SectionPages(s)[i],
                 section |-> s[1].heading, words |-> SubSeq(SectionWords(s), i, stop)]
<1>1. /\ sections # <<>> /\ a <= Len(sections)
      /\ doc' = doc /\ pos' = pos /\ heading' = heading /\ paragraphs' = paragraphs
      /\ sections' = sections
      /\ chunks' = IF n = 0 THEN chunks ELSE Append(chunks, c)
      /\ at' = IF n = 0 \/ IsLastWindow(i, n) THEN [section |-> a + 1, i |-> 1]
               ELSE [at EXCEPT !.i = @ + WindowStep]
  BY DEF Window, Chunking
<1>2. ParseInv'
  <2>1. ParaViews(paragraphs)' = ParaViews(paragraphs)
    BY <1>1 DEF ParaViews
  <2> QED
    BY <1>1, <2>1 DEF ParseInv
<1>3. /\ sections \in Seq(Section(doc)) /\ chunks \in Seq(Piece(doc))
      /\ at \in [section : Nat \ {0}, i : Nat \ {0}] /\ a \in Nat \ {0} /\ i \in Nat \ {0}
      /\ Windows(vs, chunks, a, i)
  BY DEF SectionInv
<1>4. DOMAIN sections = 1 .. Len(sections) /\ Len(sections) \in Nat /\ a \in DOMAIN sections
  BY <1>1, <1>3, LenProperties
<1>5. vs \in Seq(View(doc)) /\ \E lo, hi : Placed(vs, lo, hi, Len(doc.lines), doc)
  BY <1>1 DEF SectionInv, Blocks
<1>6. /\ a \in DOMAIN vs /\ v.words = SectionWords(s) /\ v.pages = SectionPages(s)
      /\ v.heading = s[1].heading
  BY <1>4 DEF SectionViews, SectionView
<1>7. v \in View(doc) /\ v.words \in Seq(Word) /\ Len(v.words) \in Nat
  BY <1>5, <1>6, ViewTypes
<1>8. Len(v.pages) = Len(v.words)
  BY <1>5, <1>6 DEF Placed, Block
<1>9. n = Len(v.words) /\ n \in Nat
  BY <1>6, <1>7
<1> HIDE DEF vs, v, a, i, s, n
<1>10. CASE n = 0
  <2>1. Windows(vs, chunks, a + 1, 1)
    <3>1. Len(vs[a].words) = 0
      BY <1>9, <1>10 DEF v
    <3> QED
      BY <1>3, <1>5, <1>6, <3>1, WindowSkips
  <2>2. at' = [section |-> a + 1, i |-> 1] /\ chunks' = chunks
    BY <1>1, <1>10
  <2>3. a + 1 \in Nat \ {0} /\ 1 \in Nat \ {0}
    BY <1>3
  <2>4. vs' = vs /\ (Parsed' <=> Parsed)
    BY <1>1 DEF vs, SectionViews, Parsed
  <2>5. at'.section = a + 1 /\ at'.i = 1 /\ at' \in [section : Nat \ {0}, i : Nat \ {0}]
    BY <2>2, <2>3
  <2> QED
    BY <1>1, <1>2, <2>1, <2>2, <2>4, <2>5 DEF SectionInv, vs
<1>11. CASE n # 0
  <2>1. i \in 1 .. n
    <3>1. i = 1 \/ i <= n
      BY <1>3, <1>6, <1>9 DEF Windows, Place, v
    <3> QED
      BY <1>3, <1>9, <1>11, <3>1
  <2>2. stop = Stop(i, n) /\ stop \in Nat /\ stop <= n
    BY <1>3, <1>9, <2>1, StepTypes DEF Stop
  <2> HIDE DEF stop
  <2>3. SubSeq(v.words, i, stop) \in Seq(Word)
    <3> DEFINE w == v.words
    <3>1. w \in Seq(Word) /\ n = Len(w)
      BY <1>7, <1>9
    <3> HIDE DEF w
    <3>2. \A j \in i .. stop : w[j] \in Word
      <4>1. \A j \in i .. stop : j \in 1 .. Len(w)
        BY <1>9, <2>1, <2>2, <3>1
      <4> QED
        BY <3>1, <4>1, ElementOfSeq
    <3>3. i \in Int /\ stop \in Int
      BY <1>3, <2>2
    <3>4. SubSeq(w, i, stop) \in Seq(Word)
      BY <3>2, <3>3, SubSeqProperties
    <3> QED
      BY <3>4 DEF w
  <2>4. v.pages[i] \in {PageIn(doc, k) : k \in Nat} /\ v.heading \in {TitleIn(doc, k) : k \in Nat}
    <3> DEFINE Pages == {PageIn(doc, k) : k \in Nat}
               p == v.pages
    <3>1. p \in Seq(Pages) /\ v.heading \in {TitleIn(doc, k) : k \in Nat} /\ i \in 1 .. Len(p)
      BY <1>7, <1>8, <1>9, <2>1 DEF View
    <3> HIDE DEF Pages, p
    <3>2. p[i] \in Pages
      BY <3>1, ElementOfSeq
    <3> QED
      BY <3>1, <3>2 DEF p, Pages
  <2>5. c = [ordinal |-> Len(chunks), page |-> v.pages[i], section |-> v.heading,
             words |-> SubSeq(v.words, i, stop)]
    BY <1>6 DEF NextOrdinal
  <2>6. Len(chunks) \in Nat
    BY <1>3, LenProperties
  <2> HIDE DEF c
  <2>7. c \in Piece(doc) /\ c.ordinal = Len(chunks)
    BY <2>3, <2>4, <2>5, <2>6 DEF Piece
  <2>8. WindowAt(v, i, c)
    BY <1>9, <2>1, <2>2, <2>5 DEF WindowAt
  <2>9. chunks' = Append(chunks, c) /\ chunks' \in Seq(Piece(doc))
    BY <1>1, <1>3, <1>11, <2>7, AppendProperties
  <2> DEFINE b == at'.section
             j == at'.i
  <2>10. /\ at' \in [section : Nat \ {0}, i : Nat \ {0}]
         /\ IF IsLastWindow(i, n) THEN b = a + 1 /\ j = 1 ELSE b = a /\ j = i + WindowStep
    <3>1. a + 1 \in Nat \ {0} /\ 1 \in Nat \ {0} /\ i + WindowStep \in Nat \ {0}
      BY <1>3, StepTypes
    <3>2. CASE IsLastWindow(i, n)
      <4>1. at' = [section |-> a + 1, i |-> 1]
        BY <1>1, <3>2
      <4> QED
        BY <3>1, <3>2, <4>1
    <3>3. CASE ~IsLastWindow(i, n)
      <4>1. at' = [at EXCEPT !.i = i + WindowStep]
        BY <1>1, <1>11, <3>3 DEF i
      <4>2. at' = [section |-> a, i |-> i + WindowStep]
        BY <1>3, <4>1 DEF a
      <4> QED
        BY <1>3, <3>1, <3>3, <4>2
    <3> QED
      BY <3>2, <3>3
  <2> HIDE DEF b, j
  <2>11. Windows(vs, chunks', b, j)
    <3>1. WindowAt(vs[a], i, c)
      BY <2>8 DEF v
    <3>2. IF IsLastWindow(i, Len(vs[a].words)) THEN b = a + 1 /\ j = 1 ELSE b = a /\ j = i + WindowStep
      BY <1>9, <2>10 DEF v
    <3> QED
      BY <1>3, <1>5, <1>6, <2>7, <2>9, <3>1, <3>2, WindowAdds
  <2>12. vs' = vs /\ (Parsed' <=> Parsed)
    BY <1>1 DEF vs, SectionViews, Parsed
  <2> QED
    BY <1>1, <1>2, <2>9, <2>10, <2>11, <2>12 DEF SectionInv, vs, b, j
<1> QED
  BY <1>10, <1>11

ChunkInv == ParseInv /\ SectionInv

LEMMA ChunkStart == ChunkingInit => ChunkInv
BY ParseInit, SectionInit DEF ChunkInv

LEMMA ChunkStep ==
  ASSUME ChunkInv, Chunk
  PROVE  ChunkInv'
<1>1. CASE ParseLine
  <2>1. sections = <<>>
    BY <1>1 DEF ChunkInv, SectionInv, ParseLine
  <2>2. UNCHANGED <<doc, sections, at, chunks>>
    BY <1>1 DEF ParseLine
  <2> QED
    BY <1>1, <2>1, <2>2, ParseStep, SectionSame DEF ChunkInv
<1>2. CASE Group
  BY <1>2, GroupStep DEF ChunkInv
<1>3. CASE Window
  BY <1>3, WindowStepInv DEF ChunkInv
<1> QED
  BY <1>1, <1>2, <1>3 DEF Chunk

LEMMA ChunkSame ==
  ASSUME ChunkInv, UNCHANGED chunkVars
  PROVE  ChunkInv'
<1>1. UNCHANGED <<doc, pos, heading, paragraphs, sections, at, chunks>>
  BY DEF chunkVars
<1>2. ParaViews(paragraphs)' = ParaViews(paragraphs)
  BY <1>1 DEF ParaViews
<1>3. ParseInv'
  BY <1>1, <1>2 DEF ChunkInv, ParseInv
<1>4. SectionInv'
  BY <1>1, SectionSame DEF ChunkInv
<1> QED
  BY <1>3, <1>4 DEF ChunkInv

LEMMA ChunkInvariance == Spec => []ChunkInv
<1>1. Init => ChunkInv
  BY ChunkStart DEF Init
<1>2. ASSUME ChunkInv, [Next]_vars PROVE ChunkInv'
  <2>1. UNCHANGED chunkVars \/ Chunk
    BY <1>2 DEF Next, vars, chunkVars, Ingest, Parse, NoText, BeginEmbedding, Requests, EmbedRaises,
                EmbedReturns, InsertChunks, Search, Rerank, KeepOrder
  <2> QED
    BY <1>2, <2>1, ChunkStep, ChunkSame
<1> QED
  BY <1>1, <1>2, PTL DEF Spec

-----------------------------------------------------------------------------
(* What the chunks say of the text.                                        *)

\* List w is a window of the words s, from word i.
WindowOf(s, i, w) ==
    /\ Stop(i, Len(s)) \in i .. Len(s)
    /\ w # <<>> /\ Len(w) = Stop(i, Len(s)) - i + 1 /\ Len(w) <= TargetWords
    /\ \A x \in 1 .. Len(w) : w[x] = s[i + x - 1]
    /\ Head(w) = s[i] /\ Last(w) = s[Stop(i, Len(s))]
    /\ ~IsLastWindow(i, Len(s)) => Len(w) = TargetWords

LEMMA WindowWords ==
  ASSUME NEW V, NEW s \in Seq(V), NEW i \in 1 .. Len(s), NEW w, w = SubSeq(s, i, Stop(i, Len(s)))
  PROVE  w \in Seq(V) /\ WindowOf(s, i, w)
<1> DEFINE z == Len(s)
           e == Stop(i, z)
<1>1. z \in Nat
  BY LenProperties
<1> HIDE DEF z
<1>2. i \in 1 .. z /\ TargetWords \in Nat \ {0}
  BY StepTypes DEF z
<1>3. e \in i .. z /\ e - i + 1 <= TargetWords /\ (~IsLastWindow(i, z) => e - i + 1 = TargetWords)
  BY <1>1, <1>2 DEF Stop, IsLastWindow
<1> HIDE DEF e
<1>4. w \in Seq(V) /\ Len(w) = e - i + 1 /\ \A x \in 1 .. e - i + 1 : w[x] = s[i + x - 1]
  BY <1>1, <1>2, <1>3, Part DEF e, z
<1>5. 1 \in 1 .. Len(w) /\ Len(w) \in 1 .. Len(w) /\ i + 1 - 1 = i /\ i + Len(w) - 1 = e
  BY <1>1, <1>3, <1>4
<1>6. w # <<>>
  BY <1>4, <1>5, EmptySeq
<1>7. Head(w) = w[1] /\ Last(w) = w[Len(w)]
  BY <1>4, <1>6, HeadTailProperties DEF Last
<1>8. Head(w) = s[i] /\ Last(w) = s[e]
  BY <1>4, <1>5, <1>7
<1> QED
  BY <1>3, <1>4, <1>6, <1>8 DEF WindowOf, e, z

\* Chunk k is a window of a view, and the view stands on some lines.
LEMMA ChunkWords ==
  ASSUME NEW d, NEW vs \in Seq(View(d)), NEW lo, NEW hi, NEW m, Placed(vs, lo, hi, m, d),
         NEW cs, NEW sec, NEW st, Cuts(vs, cs, sec, st), NEW k \in DOMAIN cs
  PROVE  LET v == vs[sec[k]]
             s == v.words
             w == cs[k].words
             e == Stop(st[k], Len(s))
         IN  /\ sec[k] \in DOMAIN vs /\ Block(v, lo[sec[k]], hi[sec[k]], d)
             /\ s \in Seq(Word) /\ st[k] \in 1 .. Len(s) /\ e \in st[k] .. Len(s)
             /\ w \in Seq(Word) /\ w # <<>> /\ Len(w) = e - st[k] + 1 /\ Len(w) <= TargetWords
             /\ \A x \in 1 .. Len(w) : w[x] = s[st[k] + x - 1]
             /\ Head(w) = s[st[k]] /\ Last(w) = s[e]
             /\ ~IsLastWindow(st[k], Len(s)) => Len(w) = TargetWords
             /\ cs[k].page = v.pages[st[k]] /\ cs[k].section = v.heading
<1> DEFINE v == vs[sec[k]]
           s == v.words
           w == cs[k].words
           i == st[k]
<1>1. sec[k] \in DOMAIN vs /\ WindowAt(v, i, cs[k])
  BY DEF Cuts
<1>2. s \in Seq(Word) /\ Len(s) \in Nat
  BY <1>1, ViewTypes
<1>3. Block(v, lo[sec[k]], hi[sec[k]], d)
  BY <1>1 DEF Placed
<1>4. i \in 1 .. Len(s) /\ cs[k].page = v.pages[i] /\ cs[k].section = v.heading
      /\ w = SubSeq(s, i, Stop(i, Len(s)))
  BY <1>1 DEF WindowAt
<1> HIDE DEF v, s, w, i
<1>5. w \in Seq(Word) /\ WindowOf(s, i, w)
  BY <1>2, <1>4, WindowWords
<1> QED
  BY <1>1, <1>2, <1>3, <1>4, <1>5 DEF WindowOf, v, s, w, i

\* What ChunkInv says once there are sections.
LEMMA ChunkShape ==
  ASSUME ChunkInv, sections # <<>>
  PROVE  /\ SectionViews(sections) \in Seq(View(doc)) /\ Apart(SectionViews(sections))
         /\ FlattenSeq(WordsIn(SectionViews(sections))) = Body(doc, Len(doc.lines))
         /\ \E lo, hi, sec, st :
               /\ Placed(SectionViews(sections), lo, hi, Len(doc.lines), doc)
               /\ Cutting(SectionViews(sections), chunks, sec, st, at.section, at.i)
<1> DEFINE vs == SectionViews(sections)
           m == Len(doc.lines)
           W == Body(doc, m)
<1> HIDE DEF vs, m, W
<1>1. Blocks(vs, W, m, doc) /\ Apart(vs) /\ Windows(vs, chunks, at.section, at.i)
  BY DEF ChunkInv, SectionInv, vs, m, W
<1>2. vs \in Seq(View(doc)) /\ FlattenSeq(WordsIn(vs)) = W /\ \E lo, hi : Placed(vs, lo, hi, m, doc)
  BY <1>1 DEF Blocks
<1>3. \E sec, st : Cutting(vs, chunks, sec, st, at.section, at.i)
  BY <1>1 DEF Windows
<1> QED
  BY <1>1, <1>2, <1>3 DEF vs, m, W

LEMMA LabelsHold == ChunkInv => ChunksAreLabelled
<1> SUFFICES ASSUME ChunkInv, NEW k \in DOMAIN chunks
             PROVE  /\ chunks[k].page = doc.lines[Head(chunks[k].words)[1]].page
                    /\ \A w \in ToSet(chunks[k].words) : TitleOver(w[1]) = chunks[k].section
  BY DEF ChunksAreLabelled
<1> DEFINE vs == SectionViews(sections)
<1>1. sections # <<>>
  <2>1. chunks # <<>>
    OBVIOUS
  <2> QED
    BY <2>1 DEF ChunkInv, SectionInv
<1>2. PICK lo, hi, sec, st : /\ Placed(vs, lo, hi, Len(doc.lines), doc)
                             /\ Cutting(vs, chunks, sec, st, at.section, at.i)
  BY <1>1, ChunkShape
<1>3. vs \in Seq(View(doc)) /\ Cuts(vs, chunks, sec, st)
  BY <1>1, <1>2, ChunkShape DEF Cutting
<1> HIDE DEF vs
<1> DEFINE v == vs[sec[k]]
           s == v.words
           w == chunks[k].words
           i == st[k]
<1>4. /\ Block(v, lo[sec[k]], hi[sec[k]], doc)
      /\ s \in Seq(Word) /\ i \in 1 .. Len(s)
      /\ w \in Seq(Word) /\ Len(w) = Stop(i, Len(s)) - i + 1 /\ Stop(i, Len(s)) \in i .. Len(s)
      /\ \A x \in 1 .. Len(w) : w[x] = s[i + x - 1]
      /\ Head(w) = s[i] /\ chunks[k].page = v.pages[i] /\ chunks[k].section = v.heading
  BY <1>2, <1>3, ChunkWords
<1> DEFINE e == Stop(i, Len(s))
<1>5. /\ \A x \in 1 .. Len(s) : TitleIn(doc, s[x][1]) = v.heading
      /\ v.pages[i] = PageIn(doc, s[i][1])
  BY <1>4 DEF Block
<1>6. Len(s) \in Nat /\ Len(w) \in Nat /\ DOMAIN w = 1 .. Len(w)
  <2> HIDE DEF s, w
  <2> QED
    BY <1>4, LenProperties
<1>7. e \in i .. Len(s)
  BY <1>4
<1> HIDE DEF v, s, w, i, e
<1>8. ASSUME NEW y \in ToSet(w) PROVE TitleOver(y[1]) = v.heading
  <2>1. PICK x \in 1 .. Len(w) : y = w[x]
    BY <1>6 DEF ToSet
  <2>2. y = s[i + x - 1]
    BY <1>4, <2>1
  <2>3. i + x - 1 \in 1 .. Len(s)
    BY <1>4, <1>6, <1>7, <2>1 DEF e
  <2> QED
    BY <1>5, <2>2, <2>3, Reading
<1> QED
  BY <1>4, <1>5, <1>8 DEF w, PageIn

LEMMA BodyIs == BodyWords = Body(doc, Len(doc.lines)) \/ doc \notin Documents
<1> SUFFICES ASSUME doc \in Documents PROVE BodyWords = Body(doc, Len(doc.lines))
  OBVIOUS
<1>1. DOMAIN doc.lines = 1 .. Len(doc.lines)
  BY DocumentTypes
<1>2. [k \in DOMAIN doc.lines |-> IF IsHeading(k) THEN <<>> ELSE WordsOf(k)]
        = [k \in 1 .. Len(doc.lines) |-> BodyLine(doc, k)]
  BY <1>1, Reading DEF BodyLine
<1> QED
  BY <1>2 DEF BodyWords, Body

LEMMA CoverHolds == ChunkInv => ChunksCoverText
<1> SUFFICES ASSUME ChunkInv, Chunked
             PROVE  /\ UNION {ToSet(chunks[k].words) : k \in DOMAIN chunks} = ToSet(BodyWords)
                    /\ \A k \in DOMAIN chunks :
                          \E i \in DOMAIN BodyWords :
                             chunks[k].words = SubSeq(BodyWords, i, i + Len(chunks[k].words) - 1)
  BY DEF ChunksCoverText
<1> DEFINE m == Len(doc.lines)
<1>1. BodyWords = Body(doc, m) /\ Parsed
  BY BodyIs DEF ChunkInv, ParseInv, Chunked
<1>2. CASE sections = <<>>
  <2>1. paragraphs = <<>> /\ chunks = <<>>
    BY <1>2 DEF Chunked, ChunkInv, SectionInv
  <2>2. Blocks(ParaViews(paragraphs), Body(doc, m), m, doc)
    BY <1>1, ParsedAll DEF ChunkInv
  <2>3. WordsIn(ParaViews(<<>>)) = <<>>
    BY DEF WordsIn, ParaViews
  <2>4. Body(doc, m) = <<>>
    BY <2>1, <2>2, <2>3, FlattenEmpty DEF Blocks
  <2>5. DOMAIN chunks = {} /\ ToSet(BodyWords) = {}
    BY <1>1, <2>1, <2>4 DEF ToSet
  <2> QED
    BY <2>5
<1>3. CASE sections # <<>>
  <2> DEFINE vs == SectionViews(sections)
             ws == WordsIn(vs)
             B == BodyWords
  <2>1. PICK lo, hi, sec, st : /\ Placed(vs, lo, hi, m, doc)
                               /\ Cutting(vs, chunks, sec, st, at.section, at.i)
    BY <1>3, ChunkShape
  <2>2. /\ vs \in Seq(View(doc)) /\ Cuts(vs, chunks, sec, st) /\ FlattenSeq(ws) = B
        /\ Reached(vs, chunks, sec, st, at.section, at.i)
    BY <1>1, <1>3, <2>1, ChunkShape DEF Cutting
  <2>3. at.section > Len(sections) /\ Len(vs) = Len(sections)
    <3>1. sections \in Seq(Section(doc)) /\ at.section \in Nat
      BY DEF ChunkInv, SectionInv
    <3>3. Len(vs) = Len(sections) /\ Len(sections) \in Nat
      BY <3>1, SectionViewsLen, LenProperties
    <3> QED
      BY <1>3, <3>1, <3>3 DEF Chunked, Chunking
  <2> HIDE DEF vs, B, m
  <2>4. DOMAIN vs = 1 .. Len(vs) /\ Len(vs) \in Nat /\ \A a \in DOMAIN vs : vs[a].words \in Seq(Word)
    BY <2>2, ViewTypes
  <2>5. ws \in Seq(Seq(Word)) /\ Len(ws) = Len(vs) /\ DOMAIN ws = DOMAIN vs
        /\ \A a \in DOMAIN vs : ws[a] = vs[a].words
    <3> DEFINE n == Len(vs)
    <3>1. WordsIn(vs) = [a \in 1 .. n |-> vs[a].words] /\ n \in Nat
      BY <2>4 DEF WordsIn
    <3>2. \A a \in 1 .. n : vs[a].words \in Seq(Word)
      BY <2>4
    <3> HIDE DEF n
    <3>3. [a \in 1 .. n |-> vs[a].words] \in Seq(Seq(Word)) /\ Len([a \in 1 .. n |-> vs[a].words]) = n
      BY <3>1, <3>2
    <3> QED
      BY <2>4, <3>1, <3>3 DEF n
  <2> HIDE DEF ws
  <2>6. ASSUME NEW k \in DOMAIN chunks
        PROVE  LET s == vs[sec[k]].words
                   w == chunks[k].words
               IN  /\ sec[k] \in DOMAIN vs /\ st[k] \in 1 .. Len(s) /\ s \in Seq(Word)
                   /\ Stop(st[k], Len(s)) \in st[k] .. Len(s)
                   /\ w \in Seq(Word) /\ Len(w) = Stop(st[k], Len(s)) - st[k] + 1
                   /\ \A x \in 1 .. Len(w) : w[x] = s[st[k] + x - 1]
                   /\ Len(s) \in Nat /\ Len(w) \in Nat /\ DOMAIN w = 1 .. Len(w)
                   /\ DOMAIN s = 1 .. Len(s)
    <3> DEFINE s == vs[sec[k]].words
               w == chunks[k].words
    <3>1. /\ sec[k] \in DOMAIN vs /\ st[k] \in 1 .. Len(s) /\ s \in Seq(Word)
          /\ Stop(st[k], Len(s)) \in st[k] .. Len(s)
          /\ w \in Seq(Word) /\ Len(w) = Stop(st[k], Len(s)) - st[k] + 1
          /\ \A x \in 1 .. Len(w) : w[x] = s[st[k] + x - 1]
      BY <2>1, <2>2, ChunkWords
    <3>2. Len(s) \in Nat /\ Len(w) \in Nat /\ DOMAIN w = 1 .. Len(w) /\ DOMAIN s = 1 .. Len(s)
      <4> HIDE DEF s, w
      <4> QED
        BY <3>1, LenProperties
    <3> QED
      BY <3>1, <3>2
  <2>7. ToSet(B) = UNION {ToSet(ws[a]) : a \in DOMAIN ws}
    BY <2>2, <2>5, FlattenRange
  <2>8. ASSUME NEW k \in DOMAIN chunks PROVE ToSet(chunks[k].words) \subseteq ToSet(B)
    <3> DEFINE s == vs[sec[k]].words
               w == chunks[k].words
               i == st[k]
               e == Stop(st[k], Len(s))
    <3>1. /\ sec[k] \in DOMAIN vs /\ i \in 1 .. Len(s) /\ e \in i .. Len(s) /\ Len(w) = e - i + 1
          /\ \A x \in 1 .. Len(w) : w[x] = s[i + x - 1]
          /\ Len(s) \in Nat /\ Len(w) \in Nat /\ DOMAIN w = 1 .. Len(w) /\ DOMAIN s = 1 .. Len(s)
      BY <2>6
    <3>2. ToSet(s) \subseteq ToSet(B)
      <4>1. sec[k] \in DOMAIN ws /\ ws[sec[k]] = s
        BY <2>5, <3>1
      <4> QED
        BY <2>7, <4>1
    <3> HIDE DEF s, w, i, e
    <3>3. ASSUME NEW x \in 1 .. Len(w) PROVE w[x] \in ToSet(s)
      <4>1. i + x - 1 \in 1 .. Len(s)
        BY <3>1
      <4> QED
        BY <3>1, <4>1 DEF ToSet
    <3>4. ToSet(w) \subseteq ToSet(s)
      BY <3>1, <3>3 DEF ToSet
    <3> QED
      BY <3>2, <3>4 DEF w
  <2>9. ASSUME NEW y \in ToSet(B) PROVE \E k \in DOMAIN chunks : y \in ToSet(chunks[k].words)
    <3>1. PICK a \in DOMAIN vs : y \in ToSet(vs[a].words)
      BY <2>5, <2>7
    <3>2. PICK j \in 1 .. Len(vs[a].words) : y = vs[a].words[j]
      BY <2>2, <3>1, ViewTypes, LenProperties DEF ToSet
    <3>3. a < at.section
      <4>1. at.section \in Nat
        BY DEF ChunkInv, SectionInv
      <4> QED
        BY <2>3, <2>4, <4>1
    <3>4. PICK k \in DOMAIN chunks :
             sec[k] = a /\ st[k] <= j /\ j <= Stop(st[k], Len(vs[a].words))
      BY <2>2, <3>3 DEF Reached
    <3> DEFINE s == vs[sec[k]].words
               w == chunks[k].words
               i == st[k]
               e == Stop(st[k], Len(s))
               x == j - i + 1
    <3>5. /\ i \in 1 .. Len(s) /\ e \in i .. Len(s) /\ Len(w) = e - i + 1
          /\ \A z \in 1 .. Len(w) : w[z] = s[i + z - 1]
          /\ Len(s) \in Nat /\ Len(w) \in Nat /\ DOMAIN w = 1 .. Len(w)
      BY <2>6
    <3>6. s[j] = y /\ i <= j /\ j <= e /\ j \in 1 .. Len(s)
      BY <3>2, <3>4
    <3> HIDE DEF s, w, i, e
    <3>7. x \in 1 .. Len(w) /\ i + x - 1 = j
      BY <3>5, <3>6
    <3>8. w[x] = y
      BY <3>5, <3>6, <3>7
    <3> HIDE DEF x
    <3>9. y \in ToSet(w)
      BY <3>5, <3>7, <3>8 DEF ToSet
    <3> QED
      BY <3>9 DEF w
  <2>10. UNION {ToSet(chunks[k].words) : k \in DOMAIN chunks} = ToSet(B)
    BY <2>8, <2>9
  <2>11. ASSUME NEW k \in DOMAIN chunks
         PROVE  \E i \in DOMAIN B : chunks[k].words = SubSeq(B, i, i + Len(chunks[k].words) - 1)
    <3> DEFINE s == vs[sec[k]].words
               w == chunks[k].words
               i == st[k]
               e == Stop(st[k], Len(s))
               n == Len(w)
    <3>1. /\ sec[k] \in DOMAIN vs /\ i \in 1 .. Len(s) /\ e \in i .. Len(s) /\ n = e - i + 1
          /\ \A x \in 1 .. n : w[x] = s[i + x - 1]
          /\ Len(s) \in Nat /\ n \in Nat /\ w \in Seq(Word)
      BY <2>6
    <3>2. sec[k] \in 1 .. Len(ws) /\ ws[sec[k]] = s
      BY <2>4, <2>5, <3>1
    <3>3. PICK off : Slice(ws, sec[k], off)
      BY <2>5, <3>2, FlattenSlice
    <3>4. /\ off \in Nat /\ off + Len(s) <= Len(B) /\ \A j \in 1 .. Len(s) : B[off + j] = s[j]
      BY <2>2, <3>2, <3>3 DEF Slice
    <3>5. B \in Seq(Word) /\ Len(B) \in Nat /\ DOMAIN B = 1 .. Len(B)
      <4>1. B \in Seq(Word)
        <5>1. ws # <<>> \/ ws = <<>>
          OBVIOUS
        <5> QED
          BY <2>2, <2>5, EmptySeq, FlattenAppend
      <4> QED
        BY <4>1, LenProperties
    <3> HIDE DEF s, w, i, e, n
    <3> DEFINE b == off + i
               r == SubSeq(B, b, b + n - 1)
    <3>6. b \in Int /\ b + n - 1 \in Int /\ b >= 1 /\ b + n - 1 <= Len(B) /\ b + n - 1 >= b - 1
          /\ (b + n - 1) - b + 1 = n /\ b \in DOMAIN B
      BY <3>1, <3>4, <3>5
    <3>7. r \in Seq(Word) /\ Len(r) = n /\ \A x \in 1 .. n : r[x] = B[b + x - 1]
      <4> DEFINE c == b + n - 1
      <4>1. b \in Int /\ c \in Int /\ b >= 1 /\ c <= Len(B) /\ c >= b - 1 /\ c - b + 1 = n
        BY <3>6
      <4> HIDE DEF b, c
      <4>2. /\ SubSeq(B, b, c) \in Seq(Word) /\ Len(SubSeq(B, b, c)) = c - b + 1
            /\ \A x \in 1 .. c - b + 1 : SubSeq(B, b, c)[x] = B[b + x - 1]
        BY <3>5, <4>1, Part
      <4> QED
        BY <4>1, <4>2 DEF c
    <3>8. ASSUME NEW x \in 1 .. n PROVE r[x] = w[x]
      <4>1. i + x - 1 \in 1 .. Len(s) /\ b + x - 1 = off + (i + x - 1)
        BY <3>1, <3>4
      <4>2. B[off + (i + x - 1)] = s[i + x - 1]
        BY <3>4, <4>1
      <4> HIDE DEF r, b
      <4> QED
        BY <3>1, <3>7, <4>1, <4>2
    <3> HIDE DEF r
    <3>9. w = r
      BY <3>1, <3>7, <3>8, SeqEqual DEF n
    <3> QED
      BY <3>6, <3>9 DEF r, w, n
  <2> QED
    BY <2>10, <2>11 DEF B
<1> QED
  BY <1>2, <1>3

\* The chunks of a document that has been read hold every word of its text, and
\* each is a run of it: the windows of chunk_paragraphs lose nothing, for any
\* document, target_words and overlap_words.
THEOREM TextCovered == Spec => []ChunksCoverText
BY ChunkInvariance, CoverHolds, PTL

\* A chunk names the page of its first word and the heading of all its words,
\* whatever merging and grouping did to the lines.
THEOREM LabelsCorrect == Spec => []ChunksAreLabelled
BY ChunkInvariance, LabelsHold, PTL

\* Between two views, another heading stands.
LEMMA HeadingBetween ==
  ASSUME NEW d, NEW vs \in Seq(View(d)), Apart(vs), NEW lo, NEW hi, NEW m, Placed(vs, lo, hi, m, d),
         NEW a \in DOMAIN vs, NEW b \in DOMAIN vs, a < b,
         NEW x \in lo[a] .. hi[a], NEW y \in lo[b] .. hi[b]
  PROVE  \E l \in x .. y : TitleIn(d, l) # vs[a].heading
<1>1. DOMAIN vs = 1 .. Len(vs) /\ Len(vs) \in Nat
  BY ViewTypes
<1>2. a + 1 \in DOMAIN vs /\ a \in 1 .. Len(vs) - 1 /\ a < a + 1 /\ (a + 1 < b \/ a + 1 = b)
  BY <1>1
<1> DEFINE c == a + 1
           l == lo[c]
<1>3. /\ Block(vs[a], lo[a], hi[a], d) /\ Block(vs[b], lo[b], hi[b], d)
      /\ Block(vs[c], lo[c], hi[c], d) /\ hi[a] < l /\ (c < b => hi[c] < lo[b])
  BY <1>2 DEF Placed
<1>4. vs[a].heading # vs[c].heading
  BY <1>2 DEF Apart
<1>5. TitleIn(d, l) = vs[c].heading
  BY <1>3 DEF Block
<1>6. /\ lo[a] \in Nat /\ hi[a] \in Nat /\ lo[b] \in Nat /\ hi[b] \in Nat /\ l \in Nat
      /\ hi[c] \in Nat /\ l <= hi[c]
  BY <1>3 DEF Block
<1>7. l \in x .. y
  <2>1. CASE c < b
    BY <1>3, <1>6, <2>1
  <2>2. CASE c = b
    BY <1>3, <1>6, <2>2
  <2> QED
    BY <1>2, <2>1, <2>2
<1> QED
  BY <1>4, <1>5, <1>7

LEMMA OverlapHolds == ChunkInv /\ OverlapWords < TargetWords => ChunksOverlap
<1> SUFFICES ASSUME ChunkInv, OverlapWords < TargetWords, NEW k \in DOMAIN chunks
             PROVE  /\ Len(chunks[k].words) <= TargetWords
                    /\ k + 1 \in DOMAIN chunks /\ SameSection(k) =>
                         LET here == chunks[k].words
                             next == chunks[k + 1].words
                         IN  /\ Len(here) = TargetWords /\ Len(next) > OverlapWords
                             /\ SubSeq(here, TargetWords - OverlapWords + 1, TargetWords)
                                   = SubSeq(next, 1, OverlapWords)
  BY DEF ChunksOverlap
<1> DEFINE vs == SectionViews(sections)
           m == Len(doc.lines)
<1>1. sections # <<>>
  <2>1. chunks # <<>>
    OBVIOUS
  <2> QED
    BY <2>1 DEF ChunkInv, SectionInv
<1>2. PICK lo, hi, sec, st : /\ Placed(vs, lo, hi, m, doc)
                             /\ Cutting(vs, chunks, sec, st, at.section, at.i)
  BY <1>1, ChunkShape
<1>3. /\ vs \in Seq(View(doc)) /\ Apart(vs) /\ Cuts(vs, chunks, sec, st)
      /\ InOrder(vs, chunks, sec, st)
  BY <1>1, <1>2, ChunkShape DEF Cutting
<1> HIDE DEF vs, m
<1>4. ASSUME NEW n \in DOMAIN chunks
      PROVE  /\ sec[n] \in DOMAIN vs /\ Block(vs[sec[n]], lo[sec[n]], hi[sec[n]], doc)
             /\ vs[sec[n]].words \in Seq(Word) /\ st[n] \in 1 .. Len(vs[sec[n]].words)
             /\ chunks[n].words \in Seq(Word) /\ WindowOf(vs[sec[n]].words, st[n], chunks[n].words)
             /\ chunks[n].section = vs[sec[n]].heading
  BY <1>2, <1>3, ChunkWords DEF WindowOf
<1>5. Len(chunks[k].words) <= TargetWords
  BY <1>4 DEF WindowOf
<1>6. ASSUME k + 1 \in DOMAIN chunks, SameSection(k)
      PROVE  LET here == chunks[k].words
                 next == chunks[k + 1].words
             IN  /\ Len(here) = TargetWords /\ Len(next) > OverlapWords
                 /\ SubSeq(here, TargetWords - OverlapWords + 1, TargetWords)
                       = SubSeq(next, 1, OverlapWords)
  <2>1. k \in 1 .. Len(chunks) - 1
    <3>1. DOMAIN chunks = 1 .. Len(chunks) /\ Len(chunks) \in Nat
      BY LenProperties DEF ChunkInv, SectionInv
    <3> QED
      BY <1>6, <3>1
  <2> DEFINE a == sec[k]
             b == sec[k + 1]
             i == st[k]
             j == st[k + 1]
             here == chunks[k].words
             next == chunks[k + 1].words
             s == vs[a].words
             z == Len(s)
  <2>2. After(vs, a, i, b, j)
    BY <1>3, <2>1 DEF InOrder
  <2>3. /\ a \in DOMAIN vs /\ Block(vs[a], lo[a], hi[a], doc) /\ s \in Seq(Word) /\ i \in 1 .. z
        /\ here \in Seq(Word) /\ WindowOf(s, i, here) /\ chunks[k].section = vs[a].heading
    BY <1>4
  <2>4. /\ b \in DOMAIN vs /\ Block(vs[b], lo[b], hi[b], doc) /\ vs[b].words \in Seq(Word)
        /\ j \in 1 .. Len(vs[b].words)
        /\ next \in Seq(Word) /\ WindowOf(vs[b].words, j, next)
    BY <1>4, <1>6
  <2>5. ~(a < b)
    <3> SUFFICES ASSUME a < b PROVE FALSE
      OBVIOUS
    <3> DEFINE x == Last(here)[1]
               y == Head(next)[1]
    <3>1. x \in lo[a] .. hi[a]
      <4>1. Stop(i, z) \in 1 .. z
        <5>1. z \in Nat
          BY <1>3, <2>3, ViewTypes
        <5> QED
          BY <2>3, <5>1 DEF WindowOf
      <4> QED
        BY <2>3, <4>1 DEF Block, WindowOf
    <3>2. y \in lo[b] .. hi[b]
      BY <2>4 DEF Block, WindowOf
    <3> HIDE DEF x, y
    <3>3. PICK l \in x .. y : TitleIn(doc, l) # vs[a].heading
      BY <1>2, <1>3, <2>3, <2>4, <3>1, <3>2, HeadingBetween
    <3> QED
      BY <1>6, <2>3, <3>3, Reading DEF SameSection, x, y
  <2>6. a = b /\ j = i + WindowStep /\ ~IsLastWindow(i, z)
    BY <2>2, <2>5 DEF After
  <2> HIDE DEF a, b, i, j, here, next, s
  <2>7. j \in 1 .. z /\ WindowOf(s, j, next)
    BY <2>4, <2>6 DEF s
  <2> DEFINE T == TargetWords
             O == OverlapWords
  <2>8. /\ z \in Nat /\ T \in Nat \ {0} /\ O \in Nat /\ O < T /\ WindowStep = T - O
        /\ i + T <= z /\ i \in Nat
    <3>1. z \in Nat
      BY <2>3, LenProperties
    <3>2. T \in Nat \ {0} /\ O \in Nat
      BY WindowAssumption
    <3> QED
      BY <2>3, <2>6, <3>1, <3>2 DEF WindowStep, IsLastWindow
  <2>9. Len(here) = T /\ \A x \in 1 .. T : here[x] = s[i + x - 1]
    BY <2>3, <2>6 DEF WindowOf
  <2>10. /\ Len(next) = Stop(j, z) - j + 1 /\ Stop(j, z) \in j .. z
         /\ \A x \in 1 .. Len(next) : next[x] = s[j + x - 1]
    BY <2>7 DEF WindowOf
  <2> HIDE DEF z
  <2>11. j = i + (T - O) /\ Len(next) > O
    <3>1. j = i + (T - O)
      BY <2>6, <2>8
    <3>2. CASE j + T > z
      <4>1. Stop(j, z) = z
        BY <3>2 DEF Stop
      <4> QED
        BY <2>8, <2>10, <3>1, <4>1
    <3>3. CASE ~(j + T > z)
      <4>1. Stop(j, z) = j + T - 1
        BY <3>3 DEF Stop
      <4> QED
        BY <2>8, <2>10, <3>1, <4>1
    <3> QED
      BY <3>1, <3>2, <3>3
  <2> HIDE DEF T, O
  <2> DEFINE p == SubSeq(here, T - O + 1, T)
             q == SubSeq(next, 1, O)
  <2>12. p \in Seq(Word) /\ Len(p) = O /\ \A x \in 1 .. O : p[x] = here[T - O + x]
    <3> DEFINE u == T - O + 1
    <3>1. u \in Int /\ T \in Int /\ u >= 1 /\ T <= Len(here) /\ T >= u - 1 /\ T - u + 1 = O
      BY <2>8, <2>9
    <3>2. \A x \in 1 .. O : u + x - 1 = T - O + x
      BY <2>8
    <3> HIDE DEF u
    <3>3. /\ SubSeq(here, u, T) \in Seq(Word) /\ Len(SubSeq(here, u, T)) = T - u + 1
          /\ \A x \in 1 .. T - u + 1 : SubSeq(here, u, T)[x] = here[u + x - 1]
      BY <2>3, <3>1, Part
    <3> QED
      BY <3>1, <3>2, <3>3 DEF u
  <2>13. q \in Seq(Word) /\ Len(q) = O /\ \A x \in 1 .. O : q[x] = next[x]
    <3> DEFINE u == 1
    <3>1. u \in Int /\ O \in Int /\ u >= 1 /\ O <= Len(next) /\ O >= u - 1 /\ O - u + 1 = O
      <4>1. Len(next) \in Nat
        BY <2>4, LenProperties
      <4> QED
        BY <2>8, <2>11, <4>1
    <3>2. \A x \in 1 .. O : u + x - 1 = x
      BY <2>8
    <3> HIDE DEF u
    <3>3. /\ SubSeq(next, u, O) \in Seq(Word) /\ Len(SubSeq(next, u, O)) = O - u + 1
          /\ \A x \in 1 .. O - u + 1 : SubSeq(next, u, O)[x] = next[u + x - 1]
      BY <2>4, <3>1, Part
    <3> QED
      BY <3>1, <3>2, <3>3 DEF u
  <2> HIDE DEF p, q
  <2>14. ASSUME NEW x \in 1 .. O PROVE p[x] = q[x]
    <3>1. T - O + x \in 1 .. T /\ i + (T - O + x) - 1 = j + x - 1 /\ x \in 1 .. Len(next)
      <4>1. Len(next) \in Nat
        BY <2>4, LenProperties
      <4> QED
        BY <2>8, <2>11, <4>1
    <3>2. here[T - O + x] = s[i + (T - O + x) - 1] /\ next[x] = s[j + x - 1]
      BY <2>9, <2>10, <3>1
    <3> QED
      BY <2>12, <2>13, <3>1, <3>2
  <2>15. p = q
    BY <2>12, <2>13, <2>14, SeqEqual
  <2> QED
    BY <2>9, <2>11, <2>15 DEF here, next, p, q, T, O
<1> QED
  BY <1>5, <1>6

\* Neighbouring windows of one section share overlap_words words, for every
\* document, when the overlap is shorter than the window.  (A longer one cannot
\* be shared: the code then steps by one word.)
THEOREM OverlapKept == OverlapWords < TargetWords => (Spec => []ChunksOverlap)
<1>1. OverlapWords < TargetWords /\ ChunkInv => ChunksOverlap
  BY OverlapHolds
<1>2. ASSUME OverlapWords < TargetWords PROVE Spec => []ChunksOverlap
  <2>1. ChunkInv => ChunksOverlap
    BY <1>1, <1>2
  <2> QED
    BY <2>1, ChunkInvariance, PTL
<1> QED
  BY <1>2

-----------------------------------------------------------------------------
(* Batches.                                                                *)

TextsIn(n, b) == [k \in 1 .. Min({BatchSize, n - (b - 1) * BatchSize}) |-> (b - 1) * BatchSize + k]

\* Texts are cut into b batches, all of them full but the last.
Split(n, b) ==
    /\ n \in Nat /\ b \in Nat /\ n <= b * BatchSize
    /\ b # 0 => (b - 1) * BatchSize < n

\* How many texts the first b batches have.
UpTo(n, b) == IF b * BatchSize <= n THEN b * BatchSize ELSE n

Prefix(p, t) == Len(p) <= Len(t) /\ \A k \in 1 .. Len(p) : p[k] = t[k]

LEMMA BatchTexts ==
  ASSUME NEW n, NEW B, Split(n, B), NEW m \in 0 .. B - 1
  PROVE  LET t == TextsIn(n, m + 1)
         IN  /\ UpTo(n, m) \in Nat /\ UpTo(n, m + 1) = UpTo(n, m) + Len(t)
             /\ t \in Seq(Nat) /\ Len(t) \in Nat \ {0}
             /\ \A k \in 1 .. Len(t) : t[k] = UpTo(n, m) + k
<1> DEFINE S == BatchSize
           c == m * S
           l == Min({S, n - c})
<1>1. /\ n \in Nat /\ B \in Nat \ {0} /\ m \in Nat /\ m <= B - 1 /\ B - 1 \in Nat
      /\ S \in Nat \ {0} /\ n <= B * S /\ (B - 1) * S < n
  BY BatchAssumption DEF Split
<1> HIDE DEF S
<1>2. c \in Nat /\ c < n /\ (m + 1) * S = c + S
  <2>1. c <= (B - 1) * S /\ (B - 1) * S \in Nat /\ c \in Nat
    BY <1>1, TimesGrows
  <2>2. (m + 1) * S = c + S
    BY <1>1, TimesNext
  <2> HIDE DEF c
  <2> QED
    BY <1>1, <2>1, <2>2
<1>3. TextsIn(n, m + 1) = [k \in 1 .. l |-> c + k]
  <2>1. (m + 1) - 1 = m
    BY <1>1
  <2> QED
    BY <2>1 DEF TextsIn, S
<1>4. UpTo(n, m) = c /\ UpTo(n, m + 1) = IF c + S <= n THEN c + S ELSE n
  <2> HIDE DEF c
  <2>1. m * S = c
    BY DEF c
  <2> QED
    BY <1>1, <1>2, <2>1 DEF UpTo, S
<1> HIDE DEF c
<1>5. l = IF S <= n - c THEN S ELSE n - c
  <2>1. S \in Int /\ n - c \in Int
    BY <1>1, <1>2
  <2> QED
    BY <2>1, MinOfTwo
<1> HIDE DEF l
<1>6. l \in Nat \ {0} /\ UpTo(n, m + 1) = c + l
  BY <1>1, <1>2, <1>4, <1>5
<1>7. [k \in 1 .. l |-> c + k] \in Seq(Nat) /\ Len([k \in 1 .. l |-> c + k]) = l
  BY <1>2, <1>6
<1> QED
  BY <1>2, <1>3, <1>4, <1>6, <1>7

\* The replies together are as long as the texts only if each is complete, and
\* then vector k is that of text k.
LEMMA RepliesPaired ==
  ASSUME NEW n, NEW B, Split(n, B), NEW rp \in [1 .. B -> Seq(Nat)],
         \A b \in 1 .. B : Prefix(rp[b], TextsIn(n, b)), Len(FlattenSeq(rp)) = n
  PROVE  \A k \in 1 .. n : FlattenSeq(rp)[k] = k
<1> DEFINE V(m) == FlattenSeq(SubSeq(rp, 1, m))
           Fits(m) == /\ V(m) \in Seq(Nat) /\ Len(V(m)) <= UpTo(n, m)
                      /\ Len(V(m)) = UpTo(n, m) => \A k \in 1 .. Len(V(m)) : V(m)[k] = k
           T == {m \in Nat : m <= B => Fits(m)}
<1>1. n \in Nat /\ B \in Nat /\ n <= B * BatchSize
  BY DEF Split
<1>2. rp \in Seq(Seq(Nat)) /\ Len(rp) = B
  BY <1>1
<1>3. 0 \in T
  <2>1. V(0) = <<>>
    <3>1. SubSeq(rp, 1, 0) = <<>>
      BY SubSeqEmpty
    <3> QED
      BY <3>1, FlattenEmpty
  <2>2. UpTo(n, 0) = 0
    BY <1>1, BatchAssumption DEF UpTo
  <2>3. V(0) \in Seq(Nat) /\ Len(V(0)) = 0
    BY <2>1, EmptySeq
  <2> HIDE DEF V
  <2>4. Fits(0)
    BY <2>2, <2>3
  <2> HIDE DEF Fits
  <2> QED
    BY <2>4
<1>4. ASSUME NEW m \in Nat, m \in T PROVE m + 1 \in T
  <2> SUFFICES ASSUME m + 1 <= B PROVE Fits(m + 1)
    OBVIOUS
  <2> DEFINE v == V(m)
             r == rp[m + 1]
             t == TextsIn(n, m + 1)
  <2>1. m \in 0 .. B - 1 /\ m + 1 \in 1 .. B /\ m < Len(rp)
    BY <1>1, <1>2
  <2>2. V(m + 1) = v \o r /\ r \in Seq(Nat)
    <3>1. /\ SubSeq(rp, 1, m) \in Seq(Seq(Nat)) /\ r \in Seq(Nat)
          /\ SubSeq(rp, 1, m + 1) = Append(SubSeq(rp, 1, m), r)
      BY <1>2, <2>1, PrefixAppend
    <3> QED
      BY <3>1, FlattenAppend
  <2>3. Fits(m)
    BY <1>1, <1>4
  <2>4. /\ v \in Seq(Nat) /\ Len(v) <= UpTo(n, m)
        /\ Len(v) = UpTo(n, m) => \A k \in 1 .. Len(v) : v[k] = k
    BY <2>3
  <2>5. /\ UpTo(n, m) \in Nat /\ UpTo(n, m + 1) = UpTo(n, m) + Len(t) /\ Len(t) \in Nat
        /\ \A k \in 1 .. Len(t) : t[k] = UpTo(n, m) + k
    BY <2>1, BatchTexts
  <2>6. Len(r) <= Len(t) /\ \A k \in 1 .. Len(r) : r[k] = t[k]
    BY <2>1 DEF Prefix
  <2> DEFINE c == UpTo(n, m)
             l == Len(t)
             vt == v \o r
  <2> HIDE DEF v, r, t
  <2>7. /\ vt \in Seq(Nat) /\ Len(vt) = Len(v) + Len(r) /\ Len(v) \in Nat /\ Len(r) \in Nat
        /\ \A k \in 1 .. Len(v) + Len(r) : vt[k] = IF k <= Len(v) THEN v[k] ELSE r[k - Len(v)]
    BY <2>2, <2>4, ConcatProperties, LenProperties
  <2> HIDE DEF vt, c, l
  <2>8. /\ c \in Nat /\ l \in Nat /\ UpTo(n, m + 1) = c + l /\ Len(v) <= c /\ Len(r) <= l
    BY <2>4, <2>5, <2>6 DEF c, l
  <2>9. Len(vt) <= UpTo(n, m + 1)
    BY <2>7, <2>8
  <2>10. ASSUME Len(vt) = UpTo(n, m + 1), NEW k \in 1 .. Len(vt) PROVE vt[k] = k
    <3>1. Len(v) = c /\ Len(r) = l
      BY <2>7, <2>8, <2>10
    <3>2. CASE k <= Len(v)
      <4>1. k \in 1 .. Len(v)
        BY <2>7, <3>2
      <4> QED
        BY <2>4, <2>7, <3>1, <3>2, <4>1 DEF c
    <3>3. CASE ~(k <= Len(v))
      <4>1. k - Len(v) \in 1 .. l
        BY <2>7, <3>1, <3>3
      <4>2. r[k - Len(v)] = c + (k - Len(v))
        BY <2>5, <2>6, <3>1, <4>1 DEF c, l
      <4> QED
        BY <2>7, <2>8, <3>1, <3>3, <4>2
    <3> QED
      BY <3>2, <3>3
  <2>11. V(m + 1) = vt
    BY <2>2 DEF vt, v, r
  <2> HIDE DEF V
  <2> QED
    BY <2>7, <2>9, <2>10, <2>11
<1>5. \A m \in Nat : m \in T
  <2> HIDE DEF T
  <2> QED
    BY <1>3, <1>4, NatSetInduction
<1>6. Fits(B)
  BY <1>1, <1>5
<1>7. V(B) = FlattenSeq(rp)
  BY <1>2, SubSeqFull
<1>8. UpTo(n, B) = n
  <2> DEFINE c == B * BatchSize
  <2>1. c \in Nat
    BY <1>1, BatchAssumption
  <2>2. UpTo(n, B) = IF c <= n THEN c ELSE n
    BY DEF UpTo
  <2> HIDE DEF c
  <2>3. n <= c
    BY <1>1 DEF c
  <2> QED
    BY <1>1, <2>1, <2>2, <2>3
<1> HIDE DEF V
<1> QED
  BY <1>6, <1>7, <1>8

\* The batches of a call, and what was stored.
EmbedInv ==
    /\ texts \in Nat
    /\ \E B \in Nat :
          /\ Split(texts, B) /\ batch \in [1 .. B -> BatchStatus] /\ reply \in [1 .. B -> Seq(Nat)]
          /\ \A b \in 1 .. B : Prefix(reply[b], TextsIn(texts, b))

StoreInv ==
    /\ EmbedInv /\ stage \in Stages
    /\ stage \in {"embed", "store"} => texts = Len(chunks)
    /\ stage # "done" => stored = {}
    /\ VectorsPaired

LEMMA StoreInit == Init => StoreInv
<1> SUFFICES ASSUME Init PROVE StoreInv
  OBVIOUS
<1>1. texts = 0 /\ batch = <<>> /\ reply = <<>> /\ stage = "parse" /\ stored = {}
  BY DEF Init, EmbeddingInit
<1>2. EmbedInv
  <2>1. Split(0, 0)
    BY BatchAssumption DEF Split
  <2>2. <<>> \in [1 .. 0 -> BatchStatus] /\ <<>> \in [1 .. 0 -> Seq(Nat)]
    OBVIOUS
  <2> QED
    BY <1>1, <2>1, <2>2 DEF EmbedInv
<1> QED
  BY <1>1, <1>2 DEF StoreInv, VectorsPaired, Stages

LEMMA EmbedSame ==
  ASSUME EmbedInv, UNCHANGED embedVars
  PROVE  EmbedInv'
<1>1. texts' = texts /\ batch' = batch /\ reply' = reply
  BY DEF embedVars
<1>2. PICK B \in Nat :
          /\ Split(texts, B) /\ batch \in [1 .. B -> BatchStatus] /\ reply \in [1 .. B -> Seq(Nat)]
          /\ \A b \in 1 .. B : Prefix(reply[b], TextsIn(texts, b))
  BY DEF EmbedInv
<1>3. EmbedInv' <=> /\ texts' \in Nat
                    /\ \E C \in Nat : /\ Split(texts', C) /\ batch' \in [1 .. C -> BatchStatus]
                                      /\ reply' \in [1 .. C -> Seq(Nat)]
                                      /\ \A b \in 1 .. C : Prefix(reply'[b], TextsIn(texts', b))
  BY DEF EmbedInv, Split, Prefix, TextsIn
<1> QED
  BY <1>1, <1>2, <1>3 DEF EmbedInv

LEMMA EmbedCalled ==
  ASSUME NEW n \in Nat \ {0}, Embed(n)
  PROVE  EmbedInv'
<1> DEFINE B == (n + BatchSize - 1) \div BatchSize
<1>1. B \in Nat \ {0} /\ n <= B * BatchSize /\ (B - 1) * BatchSize < n
  BY BatchAssumption, RoundUp
<1>2. /\ texts' = n /\ batch' = [b \in 1 .. B |-> "waiting"] /\ reply' = [b \in 1 .. B |-> <<>>]
  BY DEF Embed
<1> HIDE DEF B
<1>3. Split(n, B)
  BY <1>1 DEF Split
<1>4. <<>> \in Seq(Nat) /\ Len(<<>>) = 0
  BY EmptySeq
<1>5. ASSUME NEW b \in 1 .. B PROVE Prefix(<<>>, TextsIn(n, b))
  <2>1. b - 1 \in 0 .. B - 1 /\ (b - 1) + 1 = b
    BY <1>1
  <2>2. Len(TextsIn(n, (b - 1) + 1)) \in Nat
    BY <1>3, <2>1, BatchTexts
  <2> QED
    BY <1>4, <2>1, <2>2 DEF Prefix
<1>6. batch' \in [1 .. B -> BatchStatus] /\ reply' \in [1 .. B -> Seq(Nat)]
  BY <1>2, <1>4 DEF BatchStatus
<1>7. \A b \in 1 .. B : Prefix(reply'[b], TextsIn(n, b))
  BY <1>2, <1>5
<1>8. EmbedInv' <=> /\ texts' \in Nat
                    /\ \E C \in Nat : /\ Split(texts', C) /\ batch' \in [1 .. C -> BatchStatus]
                                      /\ reply' \in [1 .. C -> Seq(Nat)]
                                      /\ \A b \in 1 .. C : Prefix(reply'[b], TextsIn(texts', b))
  BY DEF EmbedInv, Split, Prefix, TextsIn
<1> QED
  BY <1>1, <1>2, <1>3, <1>6, <1>7, <1>8

LEMMA RequestKeeps ==
  ASSUME EmbedInv, Post \/ \E b \in DOMAIN batch : Reply(b)
  PROVE  EmbedInv' /\ texts' = texts
<1>1. PICK B \in Nat :
          /\ Split(texts, B) /\ batch \in [1 .. B -> BatchStatus] /\ reply \in [1 .. B -> Seq(Nat)]
          /\ \A b \in 1 .. B : Prefix(reply[b], TextsIn(texts, b))
  BY DEF EmbedInv
<1>2. texts' = texts /\ texts \in Nat
  BY DEF EmbedInv, Post, Reply, Answered, Failed
<1>3. batch' \in [1 .. B -> BatchStatus]
  BY <1>1 DEF Post, Reply, Answered, Failed, BatchStatus
<1>4. reply' \in [1 .. B -> Seq(Nat)] /\ \A b \in 1 .. B : Prefix(reply'[b], TextsIn(texts, b))
  <2>1. CASE UNCHANGED reply
    BY <1>1, <2>1
  <2>2. ASSUME NEW b \in DOMAIN batch, Answered(b)
        PROVE  reply' \in [1 .. B -> Seq(Nat)] /\ \A e \in 1 .. B : Prefix(reply'[e], TextsIn(texts, e))
    <3> DEFINE t == TextsIn(texts, b)
    <3>1. TextsOf(b) = t
      BY DEF TextsOf, TextsIn
    <3>2. PICK n \in {Len(t) - 1, Len(t)} : reply' = [reply EXCEPT ![b] = SubSeq(t, 1, n)]
      BY <2>2, <3>1 DEF Answered
    <3>3. t \in Seq(Nat) /\ Len(t) \in Nat \ {0}
      <4>1. b - 1 \in 0 .. B - 1 /\ (b - 1) + 1 = b
        BY <1>1
      <4>2. TextsIn(texts, (b - 1) + 1) \in Seq(Nat) /\ Len(TextsIn(texts, (b - 1) + 1)) \in Nat \ {0}
        BY <1>1, <4>1, BatchTexts
      <4> QED
        BY <4>1, <4>2
    <3> HIDE DEF t
    <3> DEFINE p == SubSeq(t, 1, n)
    <3>4. p \in Seq(Nat) /\ Prefix(p, t)
      <4> DEFINE u == 1
      <4>1. u \in Int /\ n \in Int /\ u >= 1 /\ n <= Len(t) /\ n >= u - 1 /\ n - u + 1 = n
        BY <3>3
      <4>2. \A k \in 1 .. n : u + k - 1 = k
        BY <4>1
      <4> HIDE DEF u
      <4>3. /\ SubSeq(t, u, n) \in Seq(Nat) /\ Len(SubSeq(t, u, n)) = n - u + 1
            /\ \A k \in 1 .. n - u + 1 : SubSeq(t, u, n)[k] = t[u + k - 1]
        BY <3>3, <4>1, Part
      <4> QED
        BY <4>1, <4>2, <4>3 DEF Prefix, u
    <3> HIDE DEF p
    <3>5. reply' = [reply EXCEPT ![b] = p]
      BY <3>2 DEF p
    <3> QED
      BY <1>1, <3>4, <3>5 DEF t
  <2> QED
    BY <2>1, <2>2 DEF Post, Reply, Failed
<1>5. EmbedInv' <=> /\ texts' \in Nat
                    /\ \E C \in Nat : /\ Split(texts', C) /\ batch' \in [1 .. C -> BatchStatus]
                                      /\ reply' \in [1 .. C -> Seq(Nat)]
                                      /\ \A b \in 1 .. C : Prefix(reply'[b], TextsIn(texts', b))
  BY DEF EmbedInv, Split, Prefix, TextsIn
<1> QED
  BY <1>1, <1>2, <1>3, <1>4, <1>5

\* The ordinal of chunk k is k - 1.
LEMMA Ordinals ==
  ASSUME ChunkInv, NEW k \in DOMAIN chunks
  PROVE  chunks[k].ordinal = k - 1 /\ k \in Nat /\ Len(chunks) \in Nat /\ DOMAIN chunks = 1 .. Len(chunks)
<1>1. PICK sec, st : Cuts(SectionViews(sections), chunks, sec, st)
  BY DEF ChunkInv, SectionInv, Windows, Cutting
<1>2. Len(chunks) \in Nat /\ DOMAIN chunks = 1 .. Len(chunks)
  BY LenProperties DEF ChunkInv, SectionInv
<1> QED
  BY <1>1, <1>2 DEF Cuts

LEMMA InsertPairs ==
  ASSUME ChunkInv, StoreInv, InsertChunks
  PROVE  StoreInv'
<1>1. /\ stage = "store" /\ UNCHANGED <<chunks, texts, batch, reply>>
  BY DEF InsertChunks, chunkVars, embedVars
<1>2. EmbedInv'
  BY <1>1, EmbedSame DEF StoreInv, embedVars
<1>3. texts = Len(chunks) /\ stored = {}
  BY <1>1 DEF StoreInv
<1>4. CASE Len(chunks) # Len(Vectors)
  <2>1. stage' = "error" /\ stored' = {}
    BY <1>3, <1>4 DEF InsertChunks
  <2> QED
    BY <1>2, <2>1 DEF StoreInv, VectorsPaired, Stages
<1>5. CASE Len(chunks) = Len(Vectors)
  <2>1. stage' = "done" /\ stored' = {<<chunks[k], Vectors[k]>> : k \in DOMAIN chunks}
    BY <1>5 DEF InsertChunks
  <2>2. {p[1] : p \in stored'} = ToSet(chunks)
    <3>1. ASSUME NEW p \in stored' PROVE p[1] \in ToSet(chunks)
      BY <2>1 DEF ToSet
    <3>2. ASSUME NEW k \in DOMAIN chunks PROVE \E p \in stored' : p[1] = chunks[k]
      <4>1. <<chunks[k], Vectors[k]>> \in stored' /\ <<chunks[k], Vectors[k]>>[1] = chunks[k]
        BY <2>1
      <4> QED
        BY <4>1
    <3>3. ToSet(chunks) \subseteq {p[1] : p \in stored'}
      BY <3>2 DEF ToSet
    <3> QED
      BY <3>1, <3>3
  <2>3. PICK B \in Nat : /\ Split(texts, B) /\ reply \in [1 .. B -> Seq(Nat)]
                         /\ \A b \in 1 .. B : Prefix(reply[b], TextsIn(texts, b))
    BY DEF StoreInv, EmbedInv
  <2>4. \A k \in 1 .. texts : Vectors[k] = k
    BY <1>3, <1>5, <2>3, RepliesPaired DEF Vectors
  <2>5. ASSUME NEW p \in stored' PROVE p[1].ordinal + 1 = p[2]
    <3>1. PICK k \in DOMAIN chunks : p = <<chunks[k], Vectors[k]>>
      BY <2>1
    <3>2. chunks[k].ordinal = k - 1 /\ k \in Nat /\ k \in 1 .. texts
      BY <1>3, Ordinals
    <3> QED
      BY <2>4, <3>1, <3>2
  <2>6. VectorsPaired'
    BY <1>1, <2>2, <2>5 DEF VectorsPaired
  <2> QED
    BY <1>2, <2>1, <2>6 DEF StoreInv, Stages
<1> QED
  BY <1>4, <1>5

LEMMA StoreStep ==
  ASSUME ChunkInv, StoreInv, [Next]_vars
  PROVE  StoreInv'
<1>1. CASE Parse
  <2>1. /\ stage = "parse" /\ UNCHANGED <<texts, batch, reply, stage, stored>>
    BY <1>1 DEF Parse, embedVars
  <2>2. EmbedInv'
    BY <2>1, EmbedSame DEF StoreInv, embedVars
  <2>3. stored = {}
    BY <2>1 DEF StoreInv
  <2> QED
    BY <2>1, <2>2, <2>3 DEF StoreInv, VectorsPaired
<1>2. CASE NoText \/ EmbedRaises
  <2>1. /\ stage # "done" /\ stage' = "error" /\ UNCHANGED <<texts, batch, reply, stored>>
    BY <1>2 DEF NoText, EmbedRaises, embedVars
  <2>2. EmbedInv'
    BY <2>1, EmbedSame DEF StoreInv, embedVars
  <2>3. stored = {}
    BY <2>1 DEF StoreInv
  <2> QED
    BY <2>1, <2>2, <2>3 DEF StoreInv, VectorsPaired, Stages
<1>3. CASE EmbedReturns
  <2>1. /\ stage = "embed" /\ stage' = "store" /\ UNCHANGED <<chunks, texts, batch, reply, stored>>
    BY <1>3 DEF EmbedReturns, embedVars, chunkVars
  <2>2. EmbedInv'
    BY <2>1, EmbedSame DEF StoreInv, embedVars
  <2>3. stored = {} /\ texts = Len(chunks)
    BY <2>1 DEF StoreInv
  <2> QED
    BY <2>1, <2>2, <2>3 DEF StoreInv, VectorsPaired, Stages
<1>4. CASE BeginEmbedding
  <2>1. /\ stage = "parse" /\ stage' = "embed" /\ UNCHANGED <<chunks, stored>> /\ chunks # <<>>
        /\ Embed(Len(chunks))
    BY <1>4 DEF BeginEmbedding, chunkVars
  <2>2. Len(chunks) \in Nat \ {0}
    BY <2>1, EmptySeq, LenProperties DEF ChunkInv, SectionInv
  <2>3. EmbedInv'
    BY <2>1, <2>2, EmbedCalled
  <2>4. texts' = Len(chunks) /\ stored = {}
    BY <2>1 DEF Embed, StoreInv
  <2> QED
    BY <2>1, <2>3, <2>4 DEF StoreInv, VectorsPaired, Stages
<1>5. CASE Requests
  <2>1. UNCHANGED <<chunks, stage, stored>> /\ (Post \/ \E b \in DOMAIN batch : Reply(b))
    BY <1>5 DEF Requests, chunkVars
  <2>2. EmbedInv' /\ texts' = texts
    BY <2>1, RequestKeeps DEF StoreInv
  <2> QED
    BY <2>1, <2>2 DEF StoreInv, VectorsPaired
<1>6. CASE InsertChunks
  BY <1>6, InsertPairs
<1>7. CASE Search \/ Rerank \/ KeepOrder \/ UNCHANGED vars
  <2>1. UNCHANGED <<chunks, texts, batch, reply, stage, stored>>
    BY <1>7 DEF Search, Rerank, KeepOrder, vars, embedVars, chunkVars
  <2>2. EmbedInv'
    BY <2>1, EmbedSame DEF StoreInv, embedVars
  <2> QED
    BY <2>1, <2>2 DEF StoreInv, VectorsPaired
<1> QED
  BY <1>1, <1>2, <1>3, <1>4, <1>5, <1>6, <1>7 DEF Next, Ingest

LEMMA StoreInvariance == Spec => []StoreInv
<1>1. Init => StoreInv
  BY StoreInit
<1>2. ChunkInv /\ StoreInv /\ [Next]_vars => StoreInv'
  BY StoreStep
<1> QED
  BY <1>1, <1>2, ChunkInvariance, PTL DEF Spec

\* Each row is stored with the vector of its own text, for any number of chunks,
\* any size of a batch, replies in any order and replies that are too short.
THEOREM PairingCorrect == Spec => []VectorsPaired
<1>1. StoreInv => VectorsPaired
  BY DEF StoreInv
<1> QED
  BY <1>1, StoreInvariance, PTL

LEMMA TypesHold == ChunkInv /\ StoreInv => TypeOK
<1> SUFFICES ASSUME ChunkInv, StoreInv PROVE TypeOK
  OBVIOUS
<1>1. pos \in 1 .. Len(doc.lines) + 1 /\ at.section \in Nat /\ at.i \in Nat \ {0}
  BY DEF ChunkInv, ParseInv, SectionInv
<1>2. ASSUME NEW p \in ToSet(paragraphs) PROVE p.words \in Seq(Nat \X Nat)
  <2>1. paragraphs \in Seq(Paragraph(doc))
    BY DEF ChunkInv, ParseInv
  <2>2. p \in Paragraph(doc)
    BY <2>1, LenProperties, ElementOfSeq DEF ToSet
  <2> QED
    BY <2>2 DEF Paragraph, Word
<1>3. ASSUME NEW k \in DOMAIN chunks PROVE chunks[k].ordinal = k - 1 /\ chunks[k].words # <<>>
  <2>1. chunks # <<>>
    OBVIOUS
  <2>2. sections # <<>>
    BY <2>1 DEF ChunkInv, SectionInv
  <2> DEFINE vs == SectionViews(sections)
  <2>3. PICK lo, hi, sec, st : /\ Placed(vs, lo, hi, Len(doc.lines), doc)
                               /\ Cutting(vs, chunks, sec, st, at.section, at.i)
    BY <2>2, ChunkShape
  <2>4. vs \in Seq(View(doc)) /\ Cuts(vs, chunks, sec, st)
    BY <2>2, <2>3, ChunkShape DEF Cutting
  <2> HIDE DEF vs
  <2>5. chunks[k].words # <<>>
    BY <2>3, <2>4, ChunkWords
  <2> QED
    BY <2>5, Ordinals
<1>4. EmbeddingTypeOK /\ stage \in Stages
  BY DEF StoreInv, EmbedInv, EmbeddingTypeOK
<1> QED
  BY <1>1, <1>2, <1>3, <1>4 DEF TypeOK, ChunkingTypeOK

\* The variables of a document's ingestion keep their types, its chunks are
\* numbered from 0 and none of them is empty.
THEOREM TypeCorrect == Spec => []TypeOK
BY TypesHold, ChunkInvariance, StoreInvariance, PTL

-----------------------------------------------------------------------------
(* Ranking: sorted has one outcome, because ties are broken by the place    *)
(* of an entry.                                                             *)

\* The order of SortBest.
Precedes(entries, value, a, b) ==
    \/ Greater(value[a], value[b])
    \/ ~Greater(value[b], value[a]) /\ RankIn(entries, a) < RankIn(entries, b)

PrecedesIn(entries, value) ==
    {p \in ToSet(entries) \X ToSet(entries) : Precedes(entries, value, p[1], p[2])}

\* Every entry's value is a fraction.
Fractions(value, S) ==
    \A id \in S : value[id][1] \in Nat /\ value[id][2] \in Nat \ {0}

LEMMA FirstPlace ==
  ASSUME NEW list \in Seq(Nat), NEW id \in ToSet(list)
  PROVE  RankIn(list, id) \in 1 .. Len(list) /\ list[RankIn(list, id)] = id
<1> DEFINE S == {i \in DOMAIN list : list[i] = id}
<1>1. DOMAIN list = 1 .. Len(list) /\ Len(list) \in Nat
  BY LenProperties
<1>2. S \in SUBSET Nat
  BY <1>1
<1>3. S # {}
  BY DEF ToSet
<1> HIDE DEF S
<1>4. Min(S) \in S
  BY <1>2, <1>3, MinOfNats
<1> QED
  BY <1>1, <1>4 DEF S, RankIn

\* Two ids never share both a value and a place.
LEMMA PrecedesIsStrict ==
  ASSUME NEW entries \in Seq(Nat), NEW value, Fractions(value, ToSet(entries))
  PROVE  StrictOrder(ToSet(entries), PrecedesIn(entries, value))
<1> DEFINE X == ToSet(entries)
           R == PrecedesIn(entries, value)
           At(a) == RankIn(entries, a)
           Cross(a, b) == value[a][1] * value[b][2]
<1>1. ASSUME NEW a \in X, NEW b \in X
      PROVE  /\ <<a, b>> \in R <=> \/ Cross(a, b) > Cross(b, a)
                                   \/ ~(Cross(b, a) > Cross(a, b)) /\ At(a) < At(b)
  <2>1. <<a, b>> \in R <=> Precedes(entries, value, a, b)
    BY DEF PrecedesIn
  <2> QED
    BY <2>1 DEF Precedes, Greater
<1>2. ASSUME NEW a \in X, NEW b \in X PROVE Cross(a, b) \in Nat
  BY DEF Fractions
<1>3. ASSUME NEW a \in X PROVE At(a) \in Nat /\ entries[At(a)] = a
  BY FirstPlace, LenProperties
<1>4. ASSUME NEW a \in X, NEW b \in X, NEW c \in X,
             Cross(a, b) >= Cross(b, a), Cross(b, c) >= Cross(c, b)
      PROVE  /\ Cross(a, c) >= Cross(c, a)
             /\ Cross(a, b) > Cross(b, a) \/ Cross(b, c) > Cross(c, b) => Cross(a, c) > Cross(c, a)
  <2> DEFINE an == value[a][1]
             ad == value[a][2]
             bn == value[b][1]
             bd == value[b][2]
             cn == value[c][1]
             cd == value[c][2]
  <2>1. /\ an \in Nat /\ ad \in Nat \ {0} /\ bn \in Nat /\ bd \in Nat \ {0}
        /\ cn \in Nat /\ cd \in Nat \ {0}
    BY DEF Fractions
  <2>2. an * bd >= bn * ad /\ bn * cd >= cn * bd
    BY <1>4
  <2>3. an * cd >= cn * ad /\ (an * bd > bn * ad \/ bn * cd > cn * bd => an * cd > cn * ad)
    <3> HIDE DEF an, ad, bn, bd, cn, cd
    <3> QED
      BY <2>1, <2>2, FractionsOrdered
  <2> QED
    BY <2>3
<1> HIDE DEF Cross, At, X, R
<1>5. \A a \in X : <<a, a>> \notin R
  BY <1>1, <1>2, <1>3
<1>6. \A a, b \in X : a # b => <<a, b>> \in R \/ <<b, a>> \in R
  <2> SUFFICES ASSUME NEW a \in X, NEW b \in X, a # b PROVE <<a, b>> \in R \/ <<b, a>> \in R
    OBVIOUS
  <2>1. At(a) \in Nat /\ At(b) \in Nat /\ At(a) # At(b)
    BY <1>3
  <2>2. Cross(a, b) \in Nat /\ Cross(b, a) \in Nat
    BY <1>2
  <2> QED
    BY <1>1, <2>1, <2>2
<1>7. \A a, b, c \in X : <<a, b>> \in R /\ <<b, c>> \in R => <<a, c>> \in R
  <2> SUFFICES ASSUME NEW a \in X, NEW b \in X, NEW c \in X, <<a, b>> \in R, <<b, c>> \in R
               PROVE  <<a, c>> \in R
    OBVIOUS
  <2>1. /\ Cross(a, b) \in Nat /\ Cross(b, a) \in Nat /\ Cross(b, c) \in Nat
        /\ Cross(c, b) \in Nat /\ Cross(a, c) \in Nat /\ Cross(c, a) \in Nat
    BY <1>2
  <2>2. Cross(a, b) >= Cross(b, a) /\ Cross(b, c) >= Cross(c, b)
    BY <1>1, <2>1
  <2>3. CASE Cross(a, b) > Cross(b, a) \/ Cross(b, c) > Cross(c, b)
    BY <1>1, <1>4, <2>2, <2>3
  <2>4. CASE ~(Cross(a, b) > Cross(b, a)) /\ ~(Cross(b, c) > Cross(c, b))
    <3>1. At(a) < At(b) /\ At(b) < At(c)
      BY <1>1, <2>4
    <3>2. At(a) < At(c)
      BY <1>3, <3>1
    <3>3. ~(Cross(c, a) > Cross(a, c))
      BY <1>4, <2>1, <2>2
    <3> QED
      BY <1>1, <3>2, <3>3
  <2> QED
    BY <2>3, <2>4
<1> QED
  BY <1>5, <1>6, <1>7 DEF StrictOrder, X, R

\* What SortBest returns: every id once, in that order.
LEMMA SortBestSorts ==
  ASSUME NEW entries \in Seq(Nat), NEW value, Fractions(value, ToSet(entries)),
         NEW s, s = SortBest(entries, value)
  PROVE  /\ s \in Seq(ToSet(entries)) /\ ToSet(s) = ToSet(entries)
         /\ Len(s) = Cardinality(ToSet(entries))
         /\ \A i, j \in 1 .. Len(s) : i < j => Precedes(entries, value, s[i], s[j])
<1> DEFINE X == ToSet(entries)
           R == PrecedesIn(entries, value)
           n == Cardinality(X)
           Fits(q) == /\ q \in [1 .. n -> X]
                      /\ \A i, j \in DOMAIN q : i < j => Precedes(entries, value, q[i], q[j])
<1>1. IsFiniteSet(X)
  <2> DEFINE D == 1 .. Len(entries)
  <2>0. Len(entries) \in Nat /\ DOMAIN entries = D /\ entries \in [D -> Nat]
    BY LenProperties
  <2>1. DOMAIN entries = D /\ IsFiniteSet(D) /\ entries \in [D -> Nat]
    <3>1. IsFiniteSet(D)
      BY <2>0, FS_Interval
    <3> QED
      BY <2>0, <3>1
  <2>2. entries \in Surjection(D, X)
    BY <2>1 DEF ToSet, Surjection
  <2> HIDE DEF D, X
  <2> QED
    BY <2>1, <2>2, FS_Surjection
<1>2. StrictOrder(X, R)
  BY PrecedesIsStrict
<1>3. PICK q : Sorted(q, X, R)
  <2> HIDE DEF X, R
  <2> QED
    BY <1>1, <1>2, SortedExists
<1>4. ASSUME NEW p PROVE Fits(p) <=> Sorted(p, X, R)
  <2> SUFFICES ASSUME p \in [1 .. n -> X] PROVE Fits(p) <=> Sorted(p, X, R)
    BY DEF Sorted
  <2>1. \A i, j \in 1 .. n : <<p[i], p[j]>> \in R <=> Precedes(entries, value, p[i], p[j])
    BY DEF PrecedesIn
  <2> QED
    BY <2>1 DEF Sorted
<1>5. s = CHOOSE p \in [1 .. n -> X] :
             \A i, j \in DOMAIN p : i < j => Precedes(entries, value, p[i], p[j])
  BY DEF SortBest, Precedes
<1>6. Fits(s)
  BY <1>3, <1>4, <1>5
<1>7. Sorted(s, X, R)
  BY <1>4, <1>6
<1>8. s \in Seq(X) /\ Len(s) = n /\ ToSet(s) = X
  <2> HIDE DEF X, R
  <2> QED
    BY <1>1, <1>2, <1>7, SortedOnto
<1> QED
  BY <1>6, <1>8

\* A list that a search returned.
Listed(s) == s \in Seq(Nat) /\ Len(s) <= CandidateK

\* What a query has computed so far.
RankInv ==
    /\ query.pc = "none" => query = NoQuery
    /\ query.pc # "none" =>
          /\ Listed(query.vec) /\ Listed(query.fts)
          /\ query.fused = Fuse(query.vec, query.fts)
          /\ query = [pc |-> query.pc, vec |-> query.vec, fts |-> query.fts,
                      fused |-> query.fused, scores |-> query.scores, answer |-> query.answer]
    /\ query.pc = "answered" =>
          /\ query.scores \in [ToSet(query.fused) -> 0 .. 2]
          /\ query.answer = Cut(Reranked(query.fused, query.scores), TopK)

LEMMA RankingsListed ==
  ASSUME ChunkInv, NEW s \in Rankings
  PROVE  Listed(s)
<1>1. DOMAIN chunks \subseteq Nat
  BY LenProperties DEF ChunkInv, SectionInv
<1>2. PICK n \in 0 .. CandidateK : s \in [1 .. n -> DOMAIN chunks]
  BY DEF Rankings
<1>3. n \in Nat /\ n <= CandidateK /\ s \in [1 .. n -> Nat]
  BY <1>1, <1>2, CutAssumption
<1> QED
  BY <1>3 DEF Listed

LEMMA RankStep ==
  ASSUME ChunkInv, RankInv, [Next]_vars
  PROVE  RankInv'
<1>1. CASE Search
  <2>1. PICK vec \in Rankings, fts \in Rankings :
            query' = [NoQuery EXCEPT !.pc = "fused", !.vec = vec, !.fts = fts,
                                     !.fused = Fuse(vec, fts)]
    BY <1>1 DEF Search
  <2>2. Listed(vec) /\ Listed(fts)
    BY RankingsListed
  <2>3. query' = [pc |-> "fused", vec |-> vec, fts |-> fts, fused |-> Fuse(vec, fts),
                  scores |-> <<>>, answer |-> <<>>]
    BY <2>1 DEF NoQuery
  <2> QED
    BY <2>2, <2>3 DEF RankInv
<1>2. CASE Rerank
  <2>1. PICK scores \in [ToSet(query.fused) -> 0 .. 2] :
            query' = [query EXCEPT !.pc = "answered", !.scores = scores,
                                   !.answer = Cut(Reranked(query.fused, scores), TopK)]
    BY <1>2 DEF Rerank
  <2>2. query.pc = "fused"
    BY <1>2 DEF Rerank
  <2>3. query' = [pc |-> "answered", vec |-> query.vec, fts |-> query.fts, fused |-> query.fused,
                  scores |-> scores, answer |-> Cut(Reranked(query.fused, scores), TopK)]
    BY <2>1, <2>2 DEF RankInv
  <2> QED
    BY <2>1, <2>2, <2>3 DEF RankInv
<1>3. CASE KeepOrder
  <2>1. query.pc = "fused" /\ query' = [query EXCEPT !.pc = "kept", !.answer = Cut(query.fused, TopK)]
    BY <1>3 DEF KeepOrder
  <2>2. query' = [pc |-> "kept", vec |-> query.vec, fts |-> query.fts, fused |-> query.fused,
                  scores |-> query.scores, answer |-> Cut(query.fused, TopK)]
    BY <2>1 DEF RankInv
  <2> QED
    BY <2>1, <2>2 DEF RankInv
<1>4. CASE Ingest \/ UNCHANGED vars
  <2>1. UNCHANGED query
    BY <1>4 DEF Ingest, Parse, NoText, BeginEmbedding, Requests, EmbedRaises, EmbedReturns,
                InsertChunks, vars
  <2> QED
    BY <2>1 DEF RankInv
<1> QED
  BY <1>1, <1>2, <1>3, <1>4 DEF Next

LEMMA RankInvariance == Spec => []RankInv
<1>1. Init => RankInv
  BY DEF Init, RankInv, NoQuery
<1>2. ChunkInv /\ RankInv /\ [Next]_vars => RankInv'
  BY RankStep
<1> QED
  BY <1>1, <1>2, ChunkInvariance, PTL DEF Spec

\* c is the first n members of s, or all of them.
IsCut(c, s, n, V) ==
    \E m \in Nat : /\ m = (IF n <= Len(s) THEN n ELSE Len(s)) /\ m <= Len(s)
                   /\ c \in Seq(V) /\ Len(c) = m
                   /\ \A i \in 1 .. m : c[i] = s[i]

LEMMA CutFacts ==
  ASSUME NEW V, NEW s \in Seq(V), NEW n \in Nat
  PROVE  IsCut(Cut(s, n), s, n, V)
<1> DEFINE m == IF n <= Len(s) THEN n ELSE Len(s)
<1>1. Len(s) \in Nat /\ m \in Nat /\ m <= Len(s) /\ m - 1 + 1 = m
  BY LenProperties
<1>2. Min({n, Len(s)}) = m
  BY <1>1, MinOfTwo
<1> HIDE DEF m
<1>3. /\ SubSeq(s, 1, m) \in Seq(V) /\ Len(SubSeq(s, 1, m)) = m - 1 + 1
      /\ \A x \in 1 .. m - 1 + 1 : SubSeq(s, 1, m)[x] = s[1 + x - 1]
  BY <1>1, Part
<1>4. Cut(s, n) = SubSeq(s, 1, m)
  BY <1>2 DEF Cut
<1> QED
  BY <1>1, <1>3, <1>4 DEF m, IsCut

\* The value of an id's score: 1 / x from one list, (p + q) / (p * q) from two.
LEMMA ScoreOf ==
  ASSUME NEW vec, Listed(vec), NEW fts, Listed(fts), NEW id
  PROVE  /\ id \in ToSet(vec) \cap ToSet(fts) =>
                \E p, q \in RrfK + 1 .. RrfK + CandidateK : Score(vec, fts, id) = <<q + p, p * q>>
         /\ id \in (ToSet(vec) \cup ToSet(fts)) \ (ToSet(vec) \cap ToSet(fts)) =>
                \E x \in RrfK + 1 .. RrfK + CandidateK : Score(vec, fts, id) = <<1, x>>
<1>1. ASSUME NEW list, Listed(list), id \in ToSet(list)
      PROVE  \E x \in RrfK + 1 .. RrfK + CandidateK : Share(list, id) = <<1, x>>
  <2>1. list \in Seq(Nat) /\ Len(list) <= CandidateK /\ Len(list) \in Nat
    BY <1>1, LenProperties DEF Listed
  <2>2. RankIn(list, id) \in 1 .. Len(list)
    BY <1>1, <2>1, FirstPlace
  <2>3. RrfK + RankIn(list, id) \in RrfK + 1 .. RrfK + CandidateK
    BY <2>1, <2>2, RrfAssumption, CutAssumption
  <2> QED
    BY <1>1, <2>3 DEF Share
<1>2. ASSUME NEW list, id \notin ToSet(list) PROVE Share(list, id) = <<0, 1>>
  BY <1>2 DEF Share
<1>3. \A x \in RrfK + 1 .. RrfK + CandidateK : x \in Nat
  BY RrfAssumption, CutAssumption
<1>4. CASE id \in ToSet(vec) \cap ToSet(fts)
  <2>1. PICK p \in RrfK + 1 .. RrfK + CandidateK : Share(vec, id) = <<1, p>>
    BY <1>1, <1>4
  <2>2. PICK q \in RrfK + 1 .. RrfK + CandidateK : Share(fts, id) = <<1, q>>
    BY <1>1, <1>4
  <2>3. Score(vec, fts, id) = <<1 * q + 1 * p, p * q>>
    BY <2>1, <2>2 DEF Score, Plus
  <2> QED
    BY <1>3, <1>4, <2>3
<1>5. CASE id \in ToSet(vec) \ ToSet(fts)
  <2>1. PICK x \in RrfK + 1 .. RrfK + CandidateK : Share(vec, id) = <<1, x>>
    BY <1>1, <1>5
  <2>2. Score(vec, fts, id) = <<1 * 1 + 0 * x, x * 1>>
    BY <1>2, <1>5, <2>1 DEF Score, Plus
  <2>3. 1 * 1 + 0 * x = 1 /\ x * 1 = x
    BY <1>3
  <2> QED
    BY <1>5, <2>2, <2>3
<1>6. CASE id \in ToSet(fts) \ ToSet(vec)
  <2>1. PICK x \in RrfK + 1 .. RrfK + CandidateK : Share(fts, id) = <<1, x>>
    BY <1>1, <1>6
  <2>2. Score(vec, fts, id) = <<0 * x + 1 * 1, 1 * x>>
    BY <1>2, <1>6, <2>1 DEF Score, Plus
  <2>3. 0 * x + 1 * 1 = 1 /\ 1 * x = x
    BY <1>3
  <2> QED
    BY <1>6, <2>2, <2>3
<1>7. CASE id \notin ToSet(vec) \cup ToSet(fts)
  BY <1>7
<1> QED
  BY <1>4, <1>5, <1>6, <1>7

\* What the fusion of two lists returns: s, cut.
FusionOf(vec, fts, s, value) ==
    /\ s \in Seq(ToSet(vec) \cup ToSet(fts)) /\ ToSet(s) = ToSet(vec) \cup ToSet(fts)
    /\ Len(s) = Cardinality(ToSet(vec) \cup ToSet(fts))
    /\ value = [id \in ToSet(vec) \cup ToSet(fts) |-> Score(vec, fts, id)]
    /\ \A i, j \in 1 .. Len(s) : i < j => Precedes(vec \o fts, value, s[i], s[j])
    /\ Fuse(vec, fts) = Cut(s, CandidateK)

LEMMA FusionSorts ==
  ASSUME NEW vec, Listed(vec), NEW fts, Listed(fts)
  PROVE  \E s, value : FusionOf(vec, fts, s, value)
<1> DEFINE entries == vec \o fts
           X == ToSet(vec) \cup ToSet(fts)
           value == [id \in X |-> Score(vec, fts, id)]
           s == SortBest(entries, value)
<1>1. vec \in Seq(Nat) /\ fts \in Seq(Nat) /\ entries \in Seq(Nat)
  BY ConcatProperties DEF Listed
<1>2. ToSet(entries) = X
  BY <1>1, ConcatRange
<1>3. Fractions(value, X)
  <2> SUFFICES ASSUME NEW id \in X
               PROVE  Score(vec, fts, id)[1] \in Nat /\ Score(vec, fts, id)[2] \in Nat \ {0}
    BY DEF Fractions
  <2>1. \A x \in RrfK + 1 .. RrfK + CandidateK : x \in Nat \ {0}
    BY RrfAssumption, CutAssumption
  <2>2. CASE id \in ToSet(vec) \cap ToSet(fts)
    <3>1. PICK p, q \in RrfK + 1 .. RrfK + CandidateK : Score(vec, fts, id) = <<q + p, p * q>>
      BY <2>2, ScoreOf
    <3>2. p \in Nat \ {0} /\ q \in Nat \ {0}
      BY <2>1
    <3>3. q + p \in Nat /\ p * q \in Nat \ {0}
      BY <3>2
    <3> QED
      BY <3>1, <3>3
  <2>3. CASE id \in X \ (ToSet(vec) \cap ToSet(fts))
    BY <2>1, <2>3, ScoreOf
  <2> QED
    BY <2>2, <2>3
<1>4. Fuse(vec, fts) = Cut(s, CandidateK)
  BY <1>2 DEF Fuse, ReciprocalRankFusion
<1>5. /\ s \in Seq(X) /\ ToSet(s) = X /\ Len(s) = Cardinality(X)
      /\ \A i, j \in 1 .. Len(s) : i < j => Precedes(entries, value, s[i], s[j])
  <2> HIDE DEF entries, value, X
  <2> QED
    BY <1>1, <1>2, <1>3, SortBestSorts
<1> QED
  BY <1>4, <1>5 DEF FusionOf

\* (p + q) / (p * q) is more than 1 / x when p and q are both below 2 * x.
LEMMA SharesAdd ==
  ASSUME NEW p \in Nat \ {0}, NEW q \in Nat \ {0}, NEW x \in Nat, p < 2 * x, q < 2 * x
  PROVE  (q + p) * x > p * q
<1> DEFINE y == 2 * x
           pq == p * q
           px == p * x
           qx == q * x
<1>1. y \in Nat /\ p + 1 <= y /\ q + 1 <= y
  OBVIOUS
<1>2. pq \in Nat /\ px \in Nat /\ qx \in Nat
  OBVIOUS
<1>3. /\ y * p = 2 * px /\ y * q = 2 * qx /\ (q + 1) * p = pq + p /\ (p + 1) * q = pq + q
      /\ (q + p) * x = qx + px
  OBVIOUS
<1>4. (q + 1) * p <= y * p /\ (p + 1) * q <= y * q
  <2> HIDE DEF y
  <2> QED
    BY <1>1, TimesGrows
<1> HIDE DEF y, pq, px, qx
<1>5. qx + px > pq
  BY <1>2, <1>3, <1>4
<1> QED
  BY <1>3, <1>5 DEF pq

\* A chunk of both lists is never behind a chunk of one list.
LEMMA AgreementFirst ==
  ASSUME CandidateK <= RrfK + 1, NEW vec, Listed(vec), NEW fts, Listed(fts),
         NEW fused, fused = Fuse(vec, fts),
         NEW i \in DOMAIN fused, NEW j \in DOMAIN fused,
         fused[i] \notin ToSet(vec) \cap ToSet(fts), fused[j] \in ToSet(vec) \cap ToSet(fts)
  PROVE  j < i
<1> DEFINE X == ToSet(vec) \cup ToSet(fts)
           a == fused[i]
           b == fused[j]
<1>1. PICK s, value : FusionOf(vec, fts, s, value)
  BY FusionSorts
<1>2. /\ s \in Seq(X) /\ fused = Cut(s, CandidateK)
      /\ value = [id \in X |-> Score(vec, fts, id)]
      /\ \A k, l \in 1 .. Len(s) : k < l => Precedes(vec \o fts, value, s[k], s[l])
  BY <1>1 DEF FusionOf
<1>3. PICK m \in Nat : /\ m <= Len(s) /\ fused \in Seq(X) /\ Len(fused) = m
                       /\ \A k \in 1 .. m : fused[k] = s[k]
  <2>1. s \in Seq(X) /\ fused = Cut(s, CandidateK) /\ CandidateK \in Nat
    BY <1>2, CutAssumption
  <2> HIDE DEF X
  <2>2. IsCut(fused, s, CandidateK, X)
    BY <2>1, CutFacts
  <2> QED
    BY <2>2 DEF IsCut
<1>4. Len(s) \in Nat /\ i \in 1 .. Len(s) /\ j \in 1 .. Len(s) /\ s[i] = a /\ s[j] = b /\ a \in X /\ b \in X
  <2>1. DOMAIN fused = 1 .. m /\ Len(s) \in Nat
    BY <1>2, <1>3, LenProperties
  <2>2. i \in 1 .. m /\ j \in 1 .. m /\ m <= Len(s)
    BY <1>3, <2>1
  <2>3. s[i] \in X /\ s[j] \in X
    BY <1>2, <2>1, <2>2, ElementOfSeq
  <2> QED
    BY <1>3, <2>1, <2>2, <2>3
<1>5. /\ b \in ToSet(vec) \cap ToSet(fts)
      /\ a \in (ToSet(vec) \cup ToSet(fts)) \ (ToSet(vec) \cap ToSet(fts))
  BY <1>4
<1>6. value[a] = Score(vec, fts, a) /\ value[b] = Score(vec, fts, b)
  BY <1>2, <1>4
<1>7. a # b
  BY <1>5
<1> HIDE DEF a, b
<1>8. PICK p, q \in RrfK + 1 .. RrfK + CandidateK : value[b] = <<q + p, p * q>>
  <2>1. \E p, q \in RrfK + 1 .. RrfK + CandidateK : Score(vec, fts, b) = <<q + p, p * q>>
    BY <1>5, ScoreOf
  <2> QED
    BY <1>6, <2>1
<1>9. PICK x \in RrfK + 1 .. RrfK + CandidateK : value[a] = <<1, x>>
  <2>1. \E x \in RrfK + 1 .. RrfK + CandidateK : Score(vec, fts, a) = <<1, x>>
    BY <1>5, ScoreOf
  <2> QED
    BY <1>6, <2>1
<1>10. /\ p \in Nat \ {0} /\ q \in Nat \ {0} /\ x \in Nat /\ p < 2 * x /\ q < 2 * x
  BY RrfAssumption, CutAssumption
<1>11. (q + p) * x > p * q
  BY <1>10, SharesAdd
<1> SUFFICES ASSUME ~(j < i) PROVE FALSE
  OBVIOUS
<1>12. i < j
  BY <1>4, <1>7
<1>13. Precedes(vec \o fts, value, a, b)
  BY <1>2, <1>4, <1>12
<1>14. 1 * (p * q) > (q + p) * x \/ ~((q + p) * x > 1 * (p * q))
  BY <1>8, <1>9, <1>13 DEF Precedes, Greater
<1>15. p * q \in Nat /\ (q + p) * x \in Nat /\ 1 * (p * q) = p * q
  BY <1>10
<1> QED
  BY <1>11, <1>14, <1>15

\* Reciprocal rank fusion puts what both searches found first, at whatever
\* ranks, for every length of the candidate lists up to _RRF_K + 1.
THEOREM AgreementHolds == CandidateK <= RrfK + 1 => (Spec => []AgreementWins)
<1> SUFFICES ASSUME CandidateK <= RrfK + 1 PROVE Spec => []AgreementWins
  OBVIOUS
<1>1. RankInv => AgreementWins
  <2> SUFFICES ASSUME RankInv PROVE AgreementWins
    OBVIOUS
  <2>1. CASE query.pc = "none"
    <3>1. query.fused = <<>>
      BY <2>1 DEF RankInv, NoQuery
    <3>2. DOMAIN query.fused = {}
      BY <3>1
    <3> QED
      BY <3>2 DEF AgreementWins
  <2>2. CASE query.pc # "none"
    <3>1. /\ Listed(query.vec) /\ Listed(query.fts) /\ query.fused = Fuse(query.vec, query.fts)
      BY <2>2 DEF RankInv
    <3> QED
      BY <3>1, AgreementFirst DEF AgreementWins
  <2> QED
    BY <2>1, <2>2
<1> QED
  BY <1>1, RankInvariance, PTL

\* The reranked candidates, cut: what is left out scores no more.
LEMMA BestFirst ==
  ASSUME NEW fused \in Seq(Nat), NEW scores \in [ToSet(fused) -> 0 .. 2],
         NEW answer, answer = Cut(Reranked(fused, scores), TopK),
         NEW c \in ToSet(fused), NEW a \in ToSet(answer), c \notin ToSet(answer)
  PROVE  scores[c] <= scores[a]
<1> DEFINE X == ToSet(fused)
           value == [d \in X |-> <<scores[d], 1>>]
           r == Reranked(fused, scores)
<1>1. Fractions(value, X)
  BY DEF Fractions
<1>2. r = SortBest(fused, value)
  BY DEF Reranked
<1>3. /\ r \in Seq(X) /\ ToSet(r) = X
      /\ \A i, j \in 1 .. Len(r) : i < j => Precedes(fused, value, r[i], r[j])
  <2> HIDE DEF value, r
  <2> QED
    BY <1>1, <1>2, SortBestSorts
<1>4. PICK m \in Nat : /\ m <= Len(r) /\ answer \in Seq(X) /\ Len(answer) = m
                       /\ \A k \in 1 .. m : answer[k] = r[k]
  <2>1. r \in Seq(X) /\ answer = Cut(r, TopK) /\ TopK \in Nat
    BY <1>3, CutAssumption
  <2> HIDE DEF X, r
  <2>2. IsCut(answer, r, TopK, X)
    BY <2>1, CutFacts
  <2> QED
    BY <2>2 DEF IsCut
<1>5. DOMAIN answer = 1 .. m /\ DOMAIN r = 1 .. Len(r) /\ Len(r) \in Nat /\ m <= Len(r)
  <2> HIDE DEF X, r
  <2> QED
    BY <1>3, <1>4, LenProperties
<1>6. PICK i \in 1 .. m : a = r[i]
  <2> HIDE DEF X, r
  <2>1. PICK i \in DOMAIN answer : a = answer[i]
    BY DEF ToSet
  <2> QED
    BY <1>4, <1>5, <2>1
<1>7. PICK j \in 1 .. Len(r) : c = r[j]
  <2>1. c \in ToSet(r)
    BY <1>3
  <2> HIDE DEF X, r
  <2> QED
    BY <1>5, <2>1 DEF ToSet
<1> HIDE DEF r
<1>8. j \notin 1 .. m
  <2> SUFFICES ASSUME j \in 1 .. m PROVE FALSE
    OBVIOUS
  <2>1. c = answer[j] /\ j \in DOMAIN answer
    BY <1>4, <1>5, <1>7
  <2> QED
    BY <2>1 DEF ToSet
<1>9. i \in 1 .. Len(r) /\ i < j
  BY <1>5, <1>8
<1>10. Precedes(fused, value, a, c) /\ a \in X
  <2>1. a \in X
    BY <1>3, <1>5, <1>6, <1>9 DEF ToSet
  <2> QED
    BY <1>3, <1>6, <1>7, <1>9, <2>1
<1>11. scores[a] \in 0 .. 2 /\ scores[c] \in 0 .. 2
  BY <1>10
<1>12. scores[a] * 1 > scores[c] * 1 \/ ~(scores[c] * 1 > scores[a] * 1)
  BY <1>10 DEF Precedes, Greater
<1> QED
  BY <1>11, <1>12

\* No candidate is lost before the reranker when all fit into candidate_k, and
\* no chunk left out of the answer scored more than one in it.
THEOREM AnswerBest == Spec => []AnswerIsBest
<1>1. RankInv => AnswerIsBest
  <2> SUFFICES ASSUME RankInv, query.pc = "answered" PROVE AnswerIsBest
    BY DEF AnswerIsBest
  <2> DEFINE vec == query.vec
             fts == query.fts
             fused == query.fused
             X == ToSet(vec) \cup ToSet(fts)
  <2>1. /\ Listed(vec) /\ Listed(fts) /\ fused = Fuse(vec, fts)
        /\ query.scores \in [ToSet(fused) -> 0 .. 2]
        /\ query.answer = Cut(Reranked(fused, query.scores), TopK)
    BY DEF RankInv
  <2> HIDE DEF vec, fts, fused
  <2>0. PICK s, value : FusionOf(vec, fts, s, value)
    BY <2>1, FusionSorts
  <2>2. s \in Seq(X) /\ ToSet(s) = X /\ Len(s) = Cardinality(X) /\ fused = Cut(s, CandidateK)
    BY <2>0, <2>1 DEF FusionOf
  <2>3. PICK m \in Nat : /\ m = (IF CandidateK <= Len(s) THEN CandidateK ELSE Len(s))
                         /\ fused \in Seq(X) /\ Len(fused) = m
                         /\ \A k \in 1 .. m : fused[k] = s[k]
    <3>1. s \in Seq(X) /\ fused = Cut(s, CandidateK) /\ CandidateK \in Nat
      BY <2>2, CutAssumption
    <3> HIDE DEF X
    <3>2. IsCut(fused, s, CandidateK, X)
      BY <3>1, CutFacts
    <3> QED
      BY <3>2 DEF IsCut
  <2>4. ASSUME Cardinality(X) <= CandidateK PROVE DOMAIN query.scores = X
    <3>1. Len(s) \in Nat /\ CandidateK \in Nat /\ DOMAIN s = 1 .. Len(s) /\ DOMAIN fused = 1 .. m
      BY <2>2, <2>3, LenProperties, CutAssumption
    <3>2. m = Len(s)
      BY <2>2, <2>3, <2>4, <3>1
    <3>3. ToSet(fused) = ToSet(s)
      BY <2>3, <3>1, <3>2 DEF ToSet
    <3> QED
      BY <2>1, <2>2, <3>3
  <2>5. fused \in Seq(Nat)
    <3>1. X \subseteq Nat
      <4>1. \A list \in Seq(Nat) : ToSet(list) \subseteq Nat
        BY LenProperties, ElementOfSeq DEF ToSet
      <4> QED
        BY <2>1, <4>1 DEF Listed
    <3> QED
      BY <2>3, <3>1
  <2>6. ASSUME NEW c \in DOMAIN query.scores, NEW a \in ToSet(query.answer),
               c \notin ToSet(query.answer)
        PROVE  query.scores[c] <= query.scores[a]
    <3>1. c \in ToSet(fused)
      BY <2>1
    <3> QED
      BY <2>1, <2>5, <2>6, <3>1, BestFirst
  <2> QED
    BY <2>4, <2>6 DEF AnswerIsBest, X, vec, fts
<1> QED
  BY <1>1, RankInvariance, PTL
=============================================================================
