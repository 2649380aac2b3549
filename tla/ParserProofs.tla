----------------------------- MODULE ParserProofs -----------------------------
(* Proofs about ResponseParser, for inputs of any length: what a production   *)
(* makes of the bytes that have arrived, and what it makes of them when more  *)
(* have.                                                                      *)
EXTENDS ResponseParser, SequenceTheorems, WellFoundedInduction, TLAPS

\* Induction over numbers, as the least counterexample.
LEMMA LeastNumber ==
  ASSUME NEW T \in SUBSET Nat, T # {}
  PROVE  \E n \in T : \A m \in T : n <= m
<1>1. IsWellFoundedOn({ss \in Nat \X Nat : ss[1] < ss[2]}, Nat)
  BY NatLessThanWellFounded DEF OpToRel
<1>2. \E x \in T : \A y \in T : ~(<<y, x>> \in {ss \in Nat \X Nat : ss[1] < ss[2]})
  BY <1>1, WFMin
<1>3. PICK x \in T : \A y \in T : ~(<<y, x>> \in {ss \in Nat \X Nat : ss[1] < ss[2]})
  BY <1>2
<1>4. \A y \in T : <<y, x>> \in Nat \X Nat /\ <<y, x>>[1] = y /\ <<y, x>>[2] = x
  OBVIOUS
<1>5. \A y \in T : ~(y < x)
  BY <1>3, <1>4
<1> QED BY <1>5

-------------------------------------------------------------------------------
(* Sequences of sequences. *)

\* What the recursion of FlattenSeq defines, on the first n sequences of q.
Flattens(f, q, n) == 
  f = [i \in 1 .. n |-> IF i = 1 THEN q[i] ELSE f[i - 1] \o q[i]]

\* The recursion of FlattenSeq defines a function.
LEMMA FlattenExists ==
  ASSUME NEW S, NEW q \in Seq(Seq(S)), NEW n \in 0 .. Len(q)
  PROVE  \E f \in [1 .. n -> Seq(S)] : Flattens(f, q, n)
<1> DEFINE Bad == {k \in 0 .. Len(q) : ~ \E f \in [1 .. k -> Seq(S)] : Flattens(f, q, k)}
<1>1. SUFFICES ASSUME Bad # {} PROVE FALSE
  OBVIOUS
<1>2. Bad \in SUBSET Nat
  OBVIOUS
<1>3. PICK k \in Bad : \A m \in Bad : k <= m
  BY <1>1, <1>2, LeastNumber
<1>4. k # 0
  <2>1. [i \in 1 .. 0 |-> <<>>] \in [1 .. 0 -> Seq(S)]
    OBVIOUS
  <2>2. Flattens([i \in 1 .. 0 |-> <<>>], q, 0)
    BY DEF Flattens
  <2> QED BY <2>1, <2>2
<1>5. k - 1 \in 0 .. Len(q) /\ k - 1 \notin Bad
  <2>1. k \in Nat /\ k <= Len(q) /\ Len(q) \in Nat
    OBVIOUS
  <2>2. k - 1 \in 0 .. Len(q) /\ ~(k <= k - 1)
    BY <2>1, <1>4
  <2> HIDE DEF Bad
  <2> QED BY <1>3, <2>2
<1>6. PICK f \in [1 .. k - 1 -> Seq(S)] : Flattens(f, q, k - 1)
  BY <1>5
<1> DEFINE g == [i \in 1 .. k |-> IF i = 1 THEN q[i] ELSE f[i - 1] \o q[i]]
<1>7. \A i \in 1 .. k : q[i] \in Seq(S)
  BY <1>3
<1>8. \A i \in 1 .. k : g[i] \in Seq(S)
  <2>1. \A i \in 1 .. k : i # 1 => i - 1 \in 1 .. k - 1
    BY <1>3
  <2>2. \A a, b \in Seq(S) : a \o b \in Seq(S)
    OBVIOUS
  <2> QED BY <2>1, <2>2, <1>7
<1>9. g \in [1 .. k -> Seq(S)]
  BY <1>8
<1>10. \A i \in 1 .. k - 1 : g[i] = f[i]
  <2>1. \A i \in 1 .. k - 1 : f[i] = IF i = 1 THEN q[i] ELSE f[i - 1] \o q[i]
    BY <1>6 DEF Flattens
  <2>2. k \in Nat
    OBVIOUS
  <2>3. \A i \in 1 .. k : g[i] = IF i = 1 THEN q[i] ELSE f[i - 1] \o q[i]
    OBVIOUS
  <2>4. \A i \in 1 .. k - 1 : i \in 1 .. k
    BY <2>2
  <2> HIDE DEF Bad, g
  <2> QED BY <2>1, <2>3, <2>4
<1>11. Flattens(g, q, k)
  <2>1. \A i \in 1 .. k : i # 1 => g[i - 1] = f[i - 1]
    <3>1. k \in Nat
      OBVIOUS
    <3> HIDE DEF Bad, g
    <3> QED BY <1>10, <3>1
  <2>2. g = [i \in 1 .. k |-> IF i = 1 THEN q[i] ELSE g[i - 1] \o q[i]]
    BY <2>1
  <2> QED BY <2>2 DEF Flattens
<1> QED BY <1>3, <1>9, <1>11

\* The first n sequences are the same.
Agree(q, r, n) == \A i \in 1 .. n : q[i] = r[i]

\* The first sequences determine what they flatten to.
LEMMA FlattenUnique ==
  ASSUME NEW q, NEW r, NEW f, NEW g, NEW m \in Nat, NEW n \in Nat, m <= n,
         Flattens(f, q, m), Flattens(g, r, n), Agree(q, r, m)
  PROVE  Agree(f, g, m)
<1> DEFINE Bad == {k \in 1 .. m : f[k] # g[k]}
<1>1. SUFFICES ASSUME Bad # {} PROVE FALSE
  BY DEF Agree
<1>2. Bad \in SUBSET Nat
  OBVIOUS
<1>3. PICK k \in Bad : \A j \in Bad : k <= j
  BY <1>1, <1>2, LeastNumber
<1>4. k \in 1 .. m /\ k \in 1 .. n /\ (k # 1 => k - 1 \in 1 .. m /\ k - 1 \notin Bad)
  BY <1>3
<1>5. f[k] = IF k = 1 THEN q[k] ELSE f[k - 1] \o q[k]
  BY <1>4 DEF Flattens
<1>6. g[k] = IF k = 1 THEN r[k] ELSE g[k - 1] \o r[k]
  BY <1>4 DEF Flattens
<1> QED BY <1>3, <1>4, <1>5, <1>6 DEF Agree

\* FlattenSeq is the last value of that function.
LEMMA FlattenDefined ==
  ASSUME NEW S, NEW q \in Seq(Seq(S)), Len(q) # 0
  PROVE  \E f \in [1 .. Len(q) -> Seq(S)] : Flattens(f, q, Len(q)) /\ FlattenSeq(q) = f[Len(q)]
<1> DEFINE Def(f) == f = [i \in 1 .. Len(q) |-> IF i = 1 THEN q[i] ELSE f[i - 1] \o q[i]]
           c == CHOOSE f : Def(f)
<1>1. PICK f \in [1 .. Len(q) -> Seq(S)] : Flattens(f, q, Len(q))
  BY FlattenExists
<1>2. Def(c)
  BY <1>1 DEF Flattens
<1>3. Flattens(c, q, Len(q))
  BY <1>2 DEF Flattens
<1>4. Agree(q, q, Len(q)) /\ Len(q) \in Nat /\ Len(q) <= Len(q)
  BY DEF Agree
<1>5. c \in [1 .. Len(q) -> Seq(S)]
  <2>1. Agree(f, c, Len(q))
    BY <1>1, <1>3, <1>4, FlattenUnique
  <2> QED BY <1>2, <2>1 DEF Agree
<1>6. FlattenSeq(q) = c[Len(q)]
  BY DEF FlattenSeq
<1> QED BY <1>3, <1>5, <1>6

\* One more sequence joins the flattened ones at the end.
LEMMA FlattenAppend ==
  ASSUME NEW S, NEW q \in Seq(Seq(S)), NEW x \in Seq(S)
  PROVE  FlattenSeq(q) \in Seq(S) /\ FlattenSeq(Append(q, x)) = FlattenSeq(q) \o x
<1> DEFINE r == Append(q, x)
<1>1. /\ r \in Seq(Seq(S)) /\ Len(q) \in Nat /\ Len(r) = Len(q) + 1
      /\ r[Len(q) + 1] = x /\ \A i \in 1 .. Len(q) : r[i] = q[i]
  OBVIOUS
<1> HIDE DEF r
<1>2. PICK g \in [1 .. Len(r) -> Seq(S)] : Flattens(g, r, Len(r)) /\ FlattenSeq(r) = g[Len(r)]
  BY <1>1, FlattenDefined
<1>3. g[Len(r)] = IF Len(r) = 1 THEN r[Len(r)] ELSE g[Len(r) - 1] \o r[Len(r)]
  <2>1. \A i \in 1 .. Len(r) : g[i] = IF i = 1 THEN r[i] ELSE g[i - 1] \o r[i]
    BY <1>2 DEF Flattens
  <2>2. Len(r) \in 1 .. Len(r)
    BY <1>1
  <2> QED BY <2>1, <2>2
<1>4. CASE Len(q) = 0
  <2>1. q = <<>> /\ FlattenSeq(q) = q
    BY <1>4 DEF FlattenSeq
  <2>2. <<>> \in Seq(S) /\ <<>> \o x = x
    BY ConcatEmptySeq
  <2>3. FlattenSeq(r) = x
    BY <1>1, <1>2, <1>3, <1>4
  <2> QED BY <2>1, <2>2, <2>3 DEF r
<1>5. CASE Len(q) # 0
  <2>1. PICK f \in [1 .. Len(q) -> Seq(S)] :
            Flattens(f, q, Len(q)) /\ FlattenSeq(q) = f[Len(q)]
    BY <1>5, FlattenDefined
  <2>2. Len(q) \in 1 .. Len(q) /\ Len(q) <= Len(r) /\ Len(r) \in Nat /\ Len(r) - 1 = Len(q) /\ Len(r) # 1
    BY <1>1, <1>5
  <2>3. Agree(f, g, Len(q))
    <3>1. Agree(q, r, Len(q))
      BY <1>1 DEF Agree
    <3>2. Flattens(f, q, Len(q)) /\ Flattens(g, r, Len(r))
      BY <1>2, <2>1
    <3>3. Len(q) \in Nat /\ Len(r) \in Nat /\ Len(q) <= Len(r)
      BY <1>1, <2>2
    <3> QED BY <3>1, <3>2, <3>3, FlattenUnique
  <2>4. f[Len(q)] = g[Len(q)] /\ f[Len(q)] \in Seq(S)
    BY <2>1, <2>2, <2>3 DEF Agree
  <2> QED BY <1>1, <1>2, <1>3, <2>1, <2>2, <2>4 DEF r
<1> QED BY <1>4, <1>5

-------------------------------------------------------------------------------
(* Texts and parsers. *)

\* The symbols, those of the words that are matched in place by name.
Letters == {"CR", "LF", "A", "B", "D", "E", "H", "I", "K", "L", "N", "O", "P", "R", "T", "U", "Y"}
Symbols == STRING \cup Letters
Texts == Seq(Symbols)
Size(s) == Len(s)

\* The bytes s have arrived, and more of t behind them.
Cut(s, t) ==
  /\ s \in Texts /\ t \in Texts /\ Size(s) \in Nat /\ Size(t) \in Nat /\ Size(s) <= Size(t)
  /\ \A i \in 1 .. Size(s) : s[i] = t[i]

Fields == {"input", "pos", "itemsLeft", "st", "val"}
IsParser(p) == p = [f \in Fields |-> p[f]]

\* p is a parser at work on the text s.
At(s, p) ==
  /\ IsParser(p) /\ p.input = s
  /\ p.pos \in Nat /\ 1 <= p.pos /\ p.pos <= Size(s) + 1
  /\ p.itemsLeft \in Nat

Going == {"Ok", "More"}

\* An error other than that the bytes have ended.
Wrong(p) == p.st \notin {"Ok", "More", "Incomplete"}

Same(p, q) == p.st = q.st /\ p.pos = q.pos /\ p.itemsLeft = q.itemsLeft /\ p.val = q.val

LEMMA AdvanceFacts ==
  ASSUME NEW p, IsParser(p), NEW n
  PROVE  /\ IsParser(Advance(p, n)) /\ Advance(p, n).input = p.input
         /\ Advance(p, n).pos = p.pos + n /\ Advance(p, n).itemsLeft = p.itemsLeft
         /\ Advance(p, n).st = p.st /\ Advance(p, n).val = p.val
BY DEF IsParser, Fields, Advance

LEMMA FailFacts ==
  ASSUME NEW p, IsParser(p), NEW e
  PROVE  /\ IsParser(Fail(p, e)) /\ Fail(p, e).input = p.input
         /\ Fail(p, e).pos = p.pos /\ Fail(p, e).itemsLeft = p.itemsLeft
         /\ Fail(p, e).st = e /\ Fail(p, e).val = p.val
BY DEF IsParser, Fields, Fail

LEMMA YieldFacts ==
  ASSUME NEW p, IsParser(p), NEW v
  PROVE  /\ IsParser(Yield(p, v)) /\ Yield(p, v).input = p.input
         /\ Yield(p, v).pos = p.pos /\ Yield(p, v).itemsLeft = p.itemsLeft
         /\ Yield(p, v).st = p.st /\ Yield(p, v).val = v
BY DEF IsParser, Fields, Yield

LEMMA GoOnFacts ==
  ASSUME NEW p, IsParser(p)
  PROVE  /\ IsParser(GoOn(p)) /\ GoOn(p).input = p.input
         /\ GoOn(p).pos = p.pos /\ GoOn(p).itemsLeft = p.itemsLeft
         /\ GoOn(p).st = "More" /\ GoOn(p).val = p.val
BY DEF IsParser, Fields, GoOn

LEMMA ResumeFacts ==
  ASSUME NEW p, IsParser(p)
  PROVE  /\ IsParser(Resume(p)) /\ Resume(p).input = p.input
         /\ Resume(p).pos = p.pos /\ Resume(p).itemsLeft = p.itemsLeft
         /\ Resume(p).st = "Ok" /\ Resume(p).val = p.val
BY DEF IsParser, Fields, Resume

LEMMA PeekFacts ==
  ASSUME NEW s, NEW p, At(s, p), Size(s) \in Nat
  PROVE  /\ IsEof(p) <=> p.pos = Size(s) + 1
         /\ ~IsEof(p) => p.pos <= Size(s) /\ Peek(p) = s[p.pos]
         /\ IsEof(p) => Peek(p) = "EOF"
BY DEF At, IsEof, Peek, Size

\* Where both have a symbol, it is the same.
LEMMA PeekRel ==
  ASSUME NEW s, NEW t, Cut(s, t), NEW p, NEW q, At(s, p), At(t, q), p.pos = q.pos, ~IsEof(p)
  PROVE  ~IsEof(q) /\ Peek(q) = Peek(p)
<1>1. /\ p.pos <= Size(s) /\ Peek(p) = s[p.pos] /\ p.pos \in 1 .. Size(s)
  BY PeekFacts DEF Cut, At
<1>2. q.pos # Size(t) + 1
  BY <1>1 DEF Cut
<1> QED BY <1>1, <1>2, PeekFacts DEF Cut

\* What lies before the cursor is the same.
LEMMA TakenRel ==
  ASSUME NEW s, NEW t, Cut(s, t), NEW i \in Nat, NEW j \in Nat, 1 <= i, j <= Size(s)
  PROVE  SubSeq(s, i, j) = SubSeq(t, i, j)
<1>1. /\ \A k \in i .. j : k \in 1 .. Size(s) /\ k \in 1 .. Size(t)
      /\ \A k \in 1 .. Size(s) : s[k] \in Symbols
      /\ \A k \in 1 .. Size(t) : t[k] \in Symbols
  BY DEF Cut, Texts, Size
<1>2. \A k \in i .. j : s[k] \in Symbols /\ t[k] \in Symbols /\ s[k] = t[k]
  BY <1>1 DEF Cut
<1>3. /\ SubSeq(s, i, j) \in Seq(Symbols)
      /\ Len(SubSeq(s, i, j)) = IF i <= j THEN j - i + 1 ELSE 0
      /\ \A k \in 1 .. j - i + 1 : SubSeq(s, i, j)[k] = s[i + k - 1]
  BY <1>2, SubSeqProperties
<1>4. /\ SubSeq(t, i, j) \in Seq(Symbols)
      /\ Len(SubSeq(t, i, j)) = IF i <= j THEN j - i + 1 ELSE 0
      /\ \A k \in 1 .. j - i + 1 : SubSeq(t, i, j)[k] = t[i + k - 1]
  BY <1>2, SubSeqProperties
<1>5. \A k \in 1 .. j - i + 1 : i + k - 1 \in i .. j
  OBVIOUS
<1>6. \A k \in 1 .. j - i + 1 : SubSeq(s, i, j)[k] = SubSeq(t, i, j)[k]
  BY <1>2, <1>3, <1>4, <1>5
<1>7. \A k \in 1 .. Len(SubSeq(s, i, j)) : k \in 1 .. j - i + 1
  BY <1>3
<1>8. Len(SubSeq(s, i, j)) = Len(SubSeq(t, i, j))
  BY <1>3, <1>4
<1>9. \A k \in 1 .. Len(SubSeq(s, i, j)) : SubSeq(s, i, j)[k] = SubSeq(t, i, j)[k]
  BY <1>6, <1>7
<1> QED BY <1>3, <1>4, <1>8, <1>9, SeqEqual

-------------------------------------------------------------------------------
(* What a production may do.  a is what it makes of the parser p on s: the     *)
(* cursor never moves back, and a turn of a loop that goes on moves it.        *)
Moves(s, p, a) ==
  /\ At(s, a)
  /\ a.st \in Going => p.pos <= a.pos
  /\ a.st = "More" => p.pos < a.pos

\* Without bytes it waits, or is done with nothing.
Turned(s, p, a) ==
  /\ Moves(s, p, a)
  /\ p.pos = Size(s) + 1 => a.st = "Incomplete" \/ (a.st = "Ok" /\ a.pos = Size(s) + 1)

Sound(s, p, a) == Turned(s, p, a) /\ a.st # "More"

\* Without bytes it waits.
Hungry(s, p, a) == p.pos = Size(s) + 1 => a.st = "Incomplete"

\* b is ahead of the bytes s, unless it has failed.
Ahead(s, b) == b.st \in Going => b.pos > Size(s)

\* a is a result on s, b that on a longer text.  An error stays an error; a result
\* stays what it is unless the bytes ended with it; what waited for more bytes has
\* taken some when it is done.
Loose(s, a, b) ==
  /\ Wrong(a) => Wrong(b)
  /\ a.st \in Going => Same(a, b) \/ (a.pos = Size(s) + 1 /\ Ahead(s, b))
  /\ a.st = "Incomplete" => Ahead(s, b)

\* A result stays what it is even if the bytes ended with it.
Strong(s, a, b) == Loose(s, a, b) /\ (a.st \in Going => Same(a, b))

\* A result with which the bytes ended is not taken back for want of more bytes,
\* and has been charged the same.
Firm(s, a, b) ==
  /\ Loose(s, a, b)
  /\ a.st \in Going => Same(a, b) \/ Wrong(b) \/ (b.st = a.st /\ b.itemsLeft = a.itemsLeft)

\* The parsers p and q are at the same place of s and of the longer text t.
Pair(s, t, p, q) ==
  /\ Cut(s, t) /\ At(s, p) /\ At(t, q) /\ Same(p, q) /\ p.st = "Ok"

LEMMA StrongIsFirm == ASSUME NEW s, NEW a, NEW b, Strong(s, a, b) PROVE Firm(s, a, b)
BY DEF Strong, Firm

LEMMA SameIsStrong == ASSUME NEW s, NEW a, NEW b, Same(a, b), a.st # "Incomplete" PROVE Strong(s, a, b)
BY DEF Strong, Loose, Same, Wrong

\* a, then c from there.
Chain(a, c) == IF a.st = "Ok" THEN c ELSE a

LEMMA ChainTurned ==
  ASSUME NEW s, Size(s) \in Nat, NEW p, NEW a, NEW c, At(s, p), Sound(s, p, a),
         a.st = "Ok" => Turned(s, a, c)
  PROVE  Turned(s, p, Chain(a, c))
BY DEF Moves, Turned, Sound, Chain, At, Going

LEMMA ChainSound ==
  ASSUME NEW s, Size(s) \in Nat, NEW p, NEW a, NEW c, At(s, p), Sound(s, p, a),
         a.st = "Ok" => Sound(s, a, c)
  PROVE  Sound(s, p, Chain(a, c))
BY ChainTurned DEF Sound, Chain

LEMMA ChainMoves ==
  ASSUME NEW s, Size(s) \in Nat, NEW p, NEW a, NEW c, At(s, p), Moves(s, p, a),
         a.st = "Ok" => Moves(s, a, c)
  PROVE  Moves(s, p, Chain(a, c))
BY DEF Moves, Chain, At, Going

LEMMA ChainHungry ==
  ASSUME NEW s, NEW p, NEW a, NEW c, Hungry(s, p, a)
  PROVE  Hungry(s, p, Chain(a, c))
BY DEF Hungry, Chain

LEMMA HungryTurned ==
  ASSUME NEW s, NEW p, NEW a, Hungry(s, p, a), Moves(s, p, a)
  PROVE  Turned(s, p, a)
BY DEF Hungry, Moves, Turned

LEMMA ChainLoose ==
  ASSUME NEW s, NEW t, Cut(s, t), NEW a, NEW b, NEW c, NEW d, Loose(s, a, b), At(s, a), At(t, b),
         a.st # "More", b.st # "More",
         a.st = "Ok" => Turned(s, a, c), b.st = "Ok" => Moves(t, b, d),
         a.st = "Ok" /\ Same(a, b) => Loose(s, c, d)
  PROVE  Loose(s, Chain(a, c), Chain(b, d))
BY DEF Loose, Moves, Turned, Chain, At, Going, Cut, Same, Ahead, Wrong

LEMMA ChainStrong ==
  ASSUME NEW s, NEW t, Cut(s, t), NEW a, NEW b, NEW c, NEW d, Strong(s, a, b), At(t, b),
         a.st # "More", b.st # "More", b.st = "Ok" => Moves(t, b, d),
         a.st = "Ok" /\ Same(a, b) => Strong(s, c, d)
  PROVE  Strong(s, Chain(a, c), Chain(b, d))
BY DEF Strong, Loose, Moves, Chain, At, Going, Cut, Same, Ahead, Wrong

LEMMA ChainFirm ==
  ASSUME NEW s, NEW t, Cut(s, t), NEW a, NEW b, NEW c, NEW d, Strong(s, a, b), At(t, b),
         a.st # "More", b.st # "More", b.st = "Ok" => Moves(t, b, d),
         a.st = "Ok" /\ Same(a, b) => Firm(s, c, d)
  PROVE  Firm(s, Chain(a, c), Chain(b, d))
BY DEF Strong, Firm, Loose, Moves, Chain, At, Going, Cut, Same, Ahead, Wrong

\* What follows waits where the bytes ended: the doubt about a result there is gone.
LEMMA ChainCloses ==
  ASSUME NEW s, NEW t, Cut(s, t), NEW a, NEW b, NEW c, NEW d, Loose(s, a, b), At(s, a), At(t, b),
         a.st # "More", b.st # "More",
         a.st = "Ok" => Hungry(s, a, c), b.st = "Ok" => Moves(t, b, d),
         a.st = "Ok" /\ Same(a, b) => Strong(s, c, d)
  PROVE  Strong(s, Chain(a, c), Chain(b, d))
BY DEF Strong, Loose, Moves, Hungry, Chain, At, Going, Cut, Same, Ahead, Wrong

LEMMA ChainClosesFirm ==
  ASSUME NEW s, NEW t, Cut(s, t), NEW a, NEW b, NEW c, NEW d, Loose(s, a, b), At(s, a), At(t, b),
         a.st # "More", b.st # "More",
         a.st = "Ok" => Hungry(s, a, c), b.st = "Ok" => Moves(t, b, d),
         a.st = "Ok" /\ Same(a, b) => Firm(s, c, d)
  PROVE  Firm(s, Chain(a, c), Chain(b, d))
BY DEF Strong, Firm, Loose, Moves, Hungry, Chain, At, Going, Cut, Same, Ahead, Wrong

\* A value put in the place of another.
Revalued(a, v) == Chain(a, Yield(a, v))

LEMMA RevaluedSound ==
  ASSUME NEW s, NEW p, NEW a, NEW v, Sound(s, p, a)
  PROVE  Sound(s, p, Revalued(a, v)) /\ Revalued(a, v).st = a.st
BY YieldFacts DEF Sound, Turned, Moves, Revalued, Chain, At

LEMMA RevaluedRel ==
  ASSUME NEW s, NEW a, NEW b, NEW v, NEW w, IsParser(a), IsParser(b), a.st # "More", b.st # "More",
         a.st = "Ok" /\ Same(a, b) => v = w
  PROVE  /\ Strong(s, a, b) => Strong(s, Revalued(a, v), Revalued(b, w))
         /\ Firm(s, a, b) => Firm(s, Revalued(a, v), Revalued(b, w))
         /\ Loose(s, a, b) => Loose(s, Revalued(a, v), Revalued(b, w))
<1>1. a.st = "Ok" => /\ Yield(a, v).pos = a.pos /\ Yield(a, v).itemsLeft = a.itemsLeft
                     /\ Yield(a, v).st = a.st /\ Yield(a, v).val = v
  BY YieldFacts
<1>2. b.st = "Ok" => /\ Yield(b, w).pos = b.pos /\ Yield(b, w).itemsLeft = b.itemsLeft
                     /\ Yield(b, w).st = b.st /\ Yield(b, w).val = w
  BY YieldFacts
<1> QED BY <1>1, <1>2 DEF Strong, Firm, Loose, Same, Ahead, Wrong, Going, Revalued, Chain

-------------------------------------------------------------------------------
(* Scans: the first place of W from i on, or the end. *)
Stops(W, i, n, j) ==
  /\ j = n + 1 \/ j \in W
  /\ \A k \in i .. j - 1 : k \notin W

LEMMA StopExists ==
  ASSUME NEW W, NEW n \in Nat, NEW i \in Nat, i <= n + 1
  PROVE  \E j \in i .. n + 1 : Stops(W, i, n, j)
<1> DEFINE T == {j \in Nat : i <= j /\ j <= n + 1 /\ (j = n + 1 \/ j \in W)}
<1>1. n + 1 \in T
  OBVIOUS
<1>2. PICK j \in T : \A m \in T : j <= m
  BY <1>1, LeastNumber
<1>3. \A k \in i .. j - 1 : k \notin W
  BY <1>2
<1> QED BY <1>2, <1>3 DEF Stops

LEMMA StopRel ==
  ASSUME NEW V, NEW W, NEW m \in Nat, NEW n \in Nat, m <= n, NEW i \in Nat, i <= m + 1,
         \A k \in i .. m : k \in V <=> k \in W,
         NEW j \in i .. m + 1, NEW l \in i .. n + 1, Stops(V, i, m, j), Stops(W, i, n, l)
  PROVE  (j <= m => l = j) /\ (j = m + 1 => l >= m + 1)
<1>1. ASSUME j <= m PROVE l = j
  <2>1. j \in V /\ j \in W
    BY <1>1 DEF Stops
  <2>2. ~(j < l)
    BY <2>1 DEF Stops
  <2>3. ~(l < j)
    <3>1. SUFFICES ASSUME l < j PROVE FALSE
      OBVIOUS
    <3>2. l \in W /\ l \in i .. m
      BY <3>1, <1>1 DEF Stops
    <3>3. l \in V /\ l \in i .. j - 1
      BY <3>1, <3>2
    <3> QED BY <3>3 DEF Stops
  <2> QED BY <2>2, <2>3
<1>2. ASSUME j = m + 1 PROVE l >= m + 1
  <2>1. SUFFICES ASSUME l <= m PROVE FALSE
    OBVIOUS
  <2>2. l \in W /\ l \in i .. m /\ l \in i .. j - 1
    BY <1>2, <2>1 DEF Stops
  <2> QED BY <2>2 DEF Stops
<1> QED BY <1>1, <1>2

Places(s, T) == {k \in 1 .. Size(s) : s[k] \in T}

LEMMA ScanFacts ==
  ASSUME NEW s, s \in Texts, NEW p, At(s, p), NEW T
  PROVE  /\ At(s, ScanTo(p, T)) /\ ScanTo(p, T).pos \in p.pos .. Size(s) + 1
         /\ ScanTo(p, T).st = p.st /\ ScanTo(p, T).itemsLeft = p.itemsLeft /\ ScanTo(p, T).val = p.val
         /\ Stops(Places(s, T), p.pos, Size(s), ScanTo(p, T).pos)
<1> DEFINE P(j) == /\ j = Len(p.input) + 1 \/ p.input[j] \in T
                   /\ \A k \in p.pos .. j - 1 : p.input[k] \notin T
           c == CHOOSE j \in p.pos .. Len(p.input) + 1 : P(j)
<1>1. Size(s) \in Nat /\ Size(s) = Len(p.input) /\ p.input = s /\ p.pos \in Nat /\ 1 <= p.pos /\ p.pos <= Size(s) + 1
  BY DEF At, Texts, Size
<1>2. PICK j \in p.pos .. Size(s) + 1 : Stops(Places(s, T), p.pos, Size(s), j)
  BY <1>1, StopExists
<1>3. \A l \in p.pos .. Size(s) + 1 : P(l) <=> Stops(Places(s, T), p.pos, Size(s), l)
  <2> TAKE l \in p.pos .. Size(s) + 1
  <2>1. \A k \in p.pos .. l - 1 : k \in 1 .. Size(s)
    BY <1>1
  <2>2. l # Size(s) + 1 => l \in 1 .. Size(s)
    BY <1>1
  <2> QED BY <1>1, <2>1, <2>2 DEF Stops, Places
<1>4. P(j)
  BY <1>2, <1>3
<1>5. \E l \in p.pos .. Len(p.input) + 1 : P(l)
  BY <1>4, <1>1
<1>6. c \in p.pos .. Len(p.input) + 1 /\ P(c)
  <2> HIDE DEF P
  <2> QED BY <1>5
<1>7. c \in p.pos .. Size(s) + 1 /\ Stops(Places(s, T), p.pos, Size(s), c)
  BY <1>6, <1>3, <1>1
<1>8. ScanTo(p, T) = [p EXCEPT !.pos = c]
  BY DEF ScanTo
<1> HIDE DEF c
<1>9. ScanTo(p, T).pos = c /\ ScanTo(p, T).input = s /\ IsParser(ScanTo(p, T))
      /\ ScanTo(p, T).st = p.st /\ ScanTo(p, T).itemsLeft = p.itemsLeft /\ ScanTo(p, T).val = p.val
  BY <1>8 DEF At, IsParser, Fields
<1>10. c \in Nat /\ 1 <= c /\ c <= Size(s) + 1
  BY <1>7, <1>1
<1>11. At(s, ScanTo(p, T))
  BY <1>9, <1>10 DEF At
<1> QED BY <1>7, <1>9, <1>11

LEMMA ScanRel ==
  ASSUME NEW s, NEW t, NEW p, NEW q, Pair(s, t, p, q), NEW T, NEW U,
         \A k \in 1 .. Size(s) : s[k] \in T <=> s[k] \in U
  PROVE  /\ ScanTo(p, T).pos <= Size(s) => ScanTo(q, U).pos = ScanTo(p, T).pos
         /\ ScanTo(p, T).pos = Size(s) + 1 => ScanTo(q, U).pos >= Size(s) + 1
<1>1. /\ Size(s) \in Nat /\ Size(t) \in Nat /\ Size(s) <= Size(t) /\ p.pos \in Nat /\ p.pos = q.pos
      /\ 1 <= p.pos /\ p.pos <= Size(s) + 1 /\ s \in Texts /\ t \in Texts
  BY DEF Pair, Cut, At, Same
<1>2. /\ ScanTo(p, T).pos \in p.pos .. Size(s) + 1
      /\ Stops(Places(s, T), p.pos, Size(s), ScanTo(p, T).pos)
  BY <1>1, ScanFacts DEF Pair
<1>3. /\ ScanTo(q, U).pos \in p.pos .. Size(t) + 1
      /\ Stops(Places(t, U), p.pos, Size(t), ScanTo(q, U).pos)
  BY <1>1, ScanFacts DEF Pair
<1>4. \A k \in p.pos .. Size(s) : k \in Places(s, T) <=> k \in Places(t, U)
  BY <1>1 DEF Places, Pair, Cut
<1> QED BY <1>1, <1>2, <1>3, <1>4, StopRel

-------------------------------------------------------------------------------
(* Prefixes of what remains. *)

\* The first n symbols of w are at i of s.
Spelt(s, i, w, n) == \A k \in 1 .. n : s[i + k - 1] = w[k]

LEMMA PrefixFacts ==
  ASSUME NEW x \in Texts, NEW y \in Texts
  PROVE  /\ IsPrefix(x, y) <=> Size(x) <= Size(y) /\ \A k \in 1 .. Size(x) : x[k] = y[k]
         /\ IsStrictPrefix(x, y) <=> IsPrefix(x, y) /\ Size(x) < Size(y)
<1>1. Size(x) = Len(x) /\ Size(y) = Len(y) /\ Size(x) \in Nat /\ Size(y) \in Nat
  BY DEF Size, Texts
<1>2. ASSUME Size(x) <= Size(y)
      PROVE SubSeq(x, 1, Len(x)) = SubSeq(y, 1, Len(x)) <=> \A k \in 1 .. Size(x) : x[k] = y[k]
  <2>1. SubSeq(x, 1, Len(x)) = x
    BY SubSeqFull DEF Texts
  <2>2. \A k \in 1 .. Len(x) : y[k] \in Symbols
    BY <1>1, <1>2 DEF Texts
  <2>3. /\ SubSeq(y, 1, Len(x)) \in Seq(Symbols)
        /\ Len(SubSeq(y, 1, Len(x))) = IF 1 <= Len(x) THEN Len(x) - 1 + 1 ELSE 0
        /\ \A k \in 1 .. Len(x) - 1 + 1 : SubSeq(y, 1, Len(x))[k] = y[1 + k - 1]
    BY <1>1, <2>2, SubSeqProperties
  <2>4. Len(SubSeq(y, 1, Len(x))) = Len(x)
    BY <1>1, <2>3
  <2>5. \A k \in 1 .. Len(x) : SubSeq(y, 1, Len(x))[k] = y[k]
    BY <1>1, <2>3
  <2>6. (\A k \in 1 .. Len(x) : x[k] = y[k]) => x = SubSeq(y, 1, Len(x))
    BY <2>3, <2>4, <2>5, SeqEqual DEF Texts
  <2> QED BY <2>1, <2>5, <2>6, <1>1
<1>3. IsPrefix(x, y) <=> Size(x) <= Size(y) /\ \A k \in 1 .. Size(x) : x[k] = y[k]
  BY <1>1, <1>2 DEF IsPrefix
<1>4. IsPrefix(x, y) /\ Size(x) = Size(y) => x = y
  BY <1>1, <1>3, SeqEqual DEF Texts
<1> QED BY <1>1, <1>3, <1>4 DEF IsStrictPrefix

LEMMA RemainingFacts ==
  ASSUME NEW s \in Texts, NEW p, At(s, p)
  PROVE  /\ Remaining(p) \in Texts
         /\ Size(Remaining(p)) = Size(s) - p.pos + 1
         /\ \A k \in 1 .. Size(s) - p.pos + 1 : Remaining(p)[k] = s[p.pos + k - 1]
<1>1. Size(s) = Len(s) /\ Size(s) \in Nat /\ p.pos \in Nat /\ 1 <= p.pos /\ p.pos <= Size(s) + 1
  BY DEF Size, Texts, At
<1>2. Remaining(p) = SubSeq(s, p.pos, Size(s))
  BY DEF Remaining, At, Size
<1>3. \A k \in p.pos .. Size(s) : s[k] \in Symbols
  BY <1>1 DEF Texts
<1>4. /\ SubSeq(s, p.pos, Size(s)) \in Seq(Symbols)
      /\ Len(SubSeq(s, p.pos, Size(s))) = IF p.pos <= Size(s) THEN Size(s) - p.pos + 1 ELSE 0
      /\ \A k \in 1 .. Size(s) - p.pos + 1 : SubSeq(s, p.pos, Size(s))[k] = s[p.pos + k - 1]
  BY <1>1, <1>3, SubSeqProperties
<1> QED BY <1>1, <1>2, <1>4 DEF Size, Texts

LEMMA WordFacts ==
  ASSUME NEW s \in Texts, NEW p, At(s, p), NEW w \in Texts
  PROVE  /\ IsPrefix(w, Remaining(p)) <=> p.pos + Size(w) <= Size(s) + 1 /\ Spelt(s, p.pos, w, Size(w))
         /\ IsStrictPrefix(Remaining(p), w)
              <=> p.pos + Size(w) > Size(s) + 1 /\ Spelt(s, p.pos, w, Size(s) - p.pos + 1)
<1>1. Size(s) \in Nat /\ p.pos \in Nat /\ 1 <= p.pos /\ p.pos <= Size(s) + 1 /\ Size(w) \in Nat
  BY DEF Size, Texts, At
<1>2. /\ Remaining(p) \in Texts
      /\ Size(Remaining(p)) = Size(s) - p.pos + 1
      /\ \A k \in 1 .. Size(s) - p.pos + 1 : Remaining(p)[k] = s[p.pos + k - 1]
  BY RemainingFacts
<1>3. IsPrefix(w, Remaining(p)) <=> p.pos + Size(w) <= Size(s) + 1 /\ Spelt(s, p.pos, w, Size(w))
  <2>1. IsPrefix(w, Remaining(p))
          <=> Size(w) <= Size(s) - p.pos + 1 /\ \A k \in 1 .. Size(w) : w[k] = Remaining(p)[k]
    BY <1>2, PrefixFacts
  <2>2. ASSUME Size(w) <= Size(s) - p.pos + 1, NEW k \in 1 .. Size(w) PROVE Remaining(p)[k] = s[p.pos + k - 1]
    BY <1>1, <1>2, <2>2
  <2> QED BY <1>1, <2>1, <2>2 DEF Spelt
<1>4. IsStrictPrefix(Remaining(p), w)
        <=> p.pos + Size(w) > Size(s) + 1 /\ Spelt(s, p.pos, w, Size(s) - p.pos + 1)
  <2>1. IsPrefix(Remaining(p), w)
          <=> Size(s) - p.pos + 1 <= Size(w) /\ \A k \in 1 .. Size(s) - p.pos + 1 : Remaining(p)[k] = w[k]
    BY <1>2, PrefixFacts
  <2>2. IsStrictPrefix(Remaining(p), w) <=> IsPrefix(Remaining(p), w) /\ Size(s) - p.pos + 1 < Size(w)
    BY <1>2, PrefixFacts
  <2> QED BY <1>1, <1>2, <2>1, <2>2 DEF Spelt
<1> QED BY <1>3, <1>4

\* A word that is there, or is not there, is so whatever follows.
LEMMA WordRel ==
  ASSUME NEW s, NEW t, NEW p, NEW q, Pair(s, t, p, q), NEW w \in Texts
  PROVE  /\ IsPrefix(w, Remaining(p)) => IsPrefix(w, Remaining(q))
         /\ ~IsPrefix(w, Remaining(p)) /\ ~IsStrictPrefix(Remaining(p), w)
              => ~IsPrefix(w, Remaining(q)) /\ ~IsStrictPrefix(Remaining(q), w)
         /\ IsStrictPrefix(Remaining(q), w) => IsStrictPrefix(Remaining(p), w)
         /\ ~(IsPrefix(w, Remaining(p)) /\ IsStrictPrefix(Remaining(p), w))
<1>1. /\ Size(s) \in Nat /\ Size(t) \in Nat /\ Size(s) <= Size(t) /\ p.pos \in Nat /\ p.pos = q.pos
      /\ 1 <= p.pos /\ p.pos <= Size(s) + 1 /\ s \in Texts /\ t \in Texts /\ Size(w) \in Nat
  BY DEF Pair, Cut, At, Same, Size, Texts
<1>2. /\ IsPrefix(w, Remaining(p)) <=> p.pos + Size(w) <= Size(s) + 1 /\ Spelt(s, p.pos, w, Size(w))
      /\ IsStrictPrefix(Remaining(p), w)
           <=> p.pos + Size(w) > Size(s) + 1 /\ Spelt(s, p.pos, w, Size(s) - p.pos + 1)
  BY <1>1, WordFacts DEF Pair
<1>3. /\ IsPrefix(w, Remaining(q)) <=> p.pos + Size(w) <= Size(t) + 1 /\ Spelt(t, p.pos, w, Size(w))
      /\ IsStrictPrefix(Remaining(q), w)
           <=> p.pos + Size(w) > Size(t) + 1 /\ Spelt(t, p.pos, w, Size(t) - p.pos + 1)
  BY <1>1, WordFacts DEF Pair
<1>4. \A k \in 1 .. Size(s) - p.pos + 1 : p.pos + k - 1 \in 1 .. Size(s)
  BY <1>1
<1>5. \A k \in 1 .. Size(s) - p.pos + 1 : s[p.pos + k - 1] = t[p.pos + k - 1]
  BY <1>4 DEF Pair, Cut
<1>6. ASSUME p.pos + Size(w) <= Size(s) + 1 PROVE Spelt(s, p.pos, w, Size(w)) <=> Spelt(t, p.pos, w, Size(w))
  <2>1. \A k \in 1 .. Size(w) : k \in 1 .. Size(s) - p.pos + 1
    BY <1>1, <1>6
  <2> QED BY <2>1, <1>5 DEF Spelt
<1>7. ASSUME p.pos + Size(w) > Size(s) + 1, ~Spelt(s, p.pos, w, Size(s) - p.pos + 1)
      PROVE ~Spelt(t, p.pos, w, Size(w)) /\ ~Spelt(t, p.pos, w, Size(t) - p.pos + 1)
  <2>1. PICK k \in 1 .. Size(s) - p.pos + 1 : s[p.pos + k - 1] # w[k]
    BY <1>7 DEF Spelt
  <2>2. k \in 1 .. Size(w) /\ k \in 1 .. Size(t) - p.pos + 1
    BY <1>1, <1>7
  <2> QED BY <2>1, <2>2, <1>5 DEF Spelt
<1>8. IsPrefix(w, Remaining(p)) => IsPrefix(w, Remaining(q))
  BY <1>1, <1>2, <1>3, <1>6
<1>9. ~IsPrefix(w, Remaining(p)) /\ ~IsStrictPrefix(Remaining(p), w)
              => ~IsPrefix(w, Remaining(q)) /\ ~IsStrictPrefix(Remaining(q), w)
  BY <1>1, <1>2, <1>3, <1>6, <1>7
<1>10. IsStrictPrefix(Remaining(q), w) => IsStrictPrefix(Remaining(p), w)
  BY <1>1, <1>2, <1>3, <1>7
<1> QED BY <1>1, <1>2, <1>8, <1>9, <1>10

-------------------------------------------------------------------------------
(* Single symbols and line ends. *)

LEMMA AdvanceOne ==
  ASSUME NEW s, Size(s) \in Nat, NEW p, At(s, p), ~IsEof(p), p.st = "Ok"
  PROVE  /\ At(s, Advance(p, 1)) /\ Advance(p, 1).pos = p.pos + 1 /\ Advance(p, 1).st = "Ok"
         /\ Advance(p, 1).val = p.val /\ Advance(p, 1).itemsLeft = p.itemsLeft
         /\ Sound(s, p, Advance(p, 1)) /\ Hungry(s, p, Advance(p, 1))
<1>1. p.pos <= Size(s) /\ p.pos \in Nat
  BY PeekFacts DEF At
<1> QED BY <1>1, AdvanceFacts DEF At, Sound, Turned, Moves, Hungry, Going

LEMMA AdvanceRel ==
  ASSUME NEW s, NEW t, NEW p, NEW q, Pair(s, t, p, q), ~IsEof(p)
  PROVE  Pair(s, t, Advance(p, 1), Advance(q, 1))
<1>1. ~IsEof(q)
  BY PeekRel DEF Pair, Same
<1>2. At(s, Advance(p, 1)) /\ At(t, Advance(q, 1))
  BY <1>1, AdvanceOne DEF Pair, Same, Cut
<1>3. IsParser(p) /\ IsParser(q)
  BY DEF Pair, At
<1>4. Same(Advance(p, 1), Advance(q, 1)) /\ Advance(p, 1).st = "Ok"
  <2>1. /\ Advance(p, 1).st = p.st /\ Advance(p, 1).pos = p.pos + 1
        /\ Advance(p, 1).itemsLeft = p.itemsLeft /\ Advance(p, 1).val = p.val
    BY <1>3, AdvanceFacts
  <2>2. /\ Advance(q, 1).st = q.st /\ Advance(q, 1).pos = q.pos + 1
        /\ Advance(q, 1).itemsLeft = q.itemsLeft /\ Advance(q, 1).val = q.val
    BY <1>3, AdvanceFacts
  <2> QED BY <2>1, <2>2 DEF Pair, Same
<1> QED BY <1>2, <1>4 DEF Pair

LEMMA YieldAt ==
  ASSUME NEW s, NEW p, At(s, p), NEW v
  PROVE  At(s, Yield(p, v))
BY YieldFacts DEF At

LEMMA Waits ==
  ASSUME NEW s, NEW p, At(s, p), NEW r
  PROVE  /\ At(s, Fail(p, "Incomplete")) /\ Fail(p, "Incomplete").st = "Incomplete"
         /\ Sound(s, r, Fail(p, "Incomplete")) /\ Hungry(s, r, Fail(p, "Incomplete"))
BY FailFacts DEF At, Moves, Turned, Sound, Hungry, Going

LEMMA Refuses ==
  ASSUME NEW s, NEW p, At(s, p), NEW e, e \notin Going, NEW r
  PROVE  /\ At(s, Fail(p, e)) /\ Fail(p, e).st = e /\ Moves(s, r, Fail(p, e))
         /\ r.pos # Size(s) + 1 => Sound(s, r, Fail(p, e)) /\ Hungry(s, r, Fail(p, e))
BY FailFacts DEF At, Moves, Turned, Sound, Hungry, Going

\* Failures on both texts.
LEMMA FailRel ==
  ASSUME NEW s, NEW a, NEW b, IsParser(a), IsParser(b), NEW e, NEW f, e \notin Going,
         f \notin Going, e # "Incomplete" => f # "Incomplete"
  PROVE  Strong(s, Fail(a, e), Fail(b, f))
BY FailFacts DEF Strong, Loose, Wrong, Ahead, Going

\* What waited on s, and is ahead on t.
LEMMA WaitRel ==
  ASSUME NEW s, NEW t, NEW a, IsParser(a), NEW b, NEW q, q.pos = Size(s) + 1, Size(s) \in Nat, Moves(t, q, b)
  PROVE  Strong(s, Fail(a, "Incomplete"), b)
<1>1. b.st \in Going => b.pos > Size(s)
  BY DEF Moves, At
<1> QED BY <1>1, FailFacts DEF Strong, Loose, Wrong, Ahead, Going

LEMMA ConsumeByteFacts ==
  ASSUME NEW s \in Texts, NEW p, At(s, p), p.st = "Ok", NEW c, c # "EOF"
  PROVE  /\ Sound(s, p, ConsumeByte(p, c)) /\ Hungry(s, p, ConsumeByte(p, c))
         /\ At(s, ConsumeByte(p, c))
         /\ ConsumeByte(p, c).st = "Ok"
              => ~IsEof(p) /\ ConsumeByte(p, c).pos = p.pos + 1 /\ ConsumeByte(p, c).val = p.val
<1>0. Size(s) \in Nat
  BY DEF Texts, Size
<1>1. CASE IsEof(p)
  <2>1. ConsumeByte(p, c) = Fail(p, "Incomplete")
    BY <1>0, <1>1, PeekFacts DEF ConsumeByte
  <2> QED BY <2>1, Waits
<1>2. CASE ~IsEof(p) /\ Peek(p) = c
  <2>1. ConsumeByte(p, c) = Advance(p, 1)
    BY <1>2 DEF ConsumeByte
  <2> QED BY <2>1, <1>0, <1>2, AdvanceOne
<1>3. CASE ~IsEof(p) /\ Peek(p) # c
  <2>1. ConsumeByte(p, c) = Fail(p, "InvalidChar")
    BY <1>3 DEF ConsumeByte
  <2>2. p.pos # Size(s) + 1
    BY <1>0, <1>3, PeekFacts
  <2>3. Fail(p, "InvalidChar").st = "InvalidChar" /\ "InvalidChar" \notin Going
    BY FailFacts DEF Going, At
  <2> QED BY <2>1, <2>2, <2>3, Refuses
<1> QED BY <1>1, <1>2, <1>3

LEMMA ConsumeByteRel ==
  ASSUME NEW s, NEW t, NEW p, NEW q, Pair(s, t, p, q), NEW c, c # "EOF"
  PROVE  Strong(s, ConsumeByte(p, c), ConsumeByte(q, c))
<1>0. /\ Size(s) \in Nat /\ s \in Texts /\ t \in Texts /\ At(s, p) /\ At(t, q) /\ IsParser(p) /\ IsParser(q)
      /\ p.pos = q.pos /\ p.st = "Ok" /\ q.st = "Ok"
  BY DEF Pair, Cut, At, Same
<1>1. CASE IsEof(p)
  <2>1. ConsumeByte(p, c) = Fail(p, "Incomplete")
    BY <1>0, <1>1, PeekFacts DEF ConsumeByte
  <2>2. Moves(t, q, ConsumeByte(q, c)) /\ q.pos = Size(s) + 1
    BY <1>0, <1>1, ConsumeByteFacts, PeekFacts DEF Sound, Turned
  <2> QED BY <1>0, <2>1, <2>2, WaitRel
<1>2. CASE ~IsEof(p)
  <2>1. ~IsEof(q) /\ Peek(q) = Peek(p)
    BY <1>2, PeekRel, <1>0 DEF Pair
  <2>2. CASE Peek(p) = c
    <3>1. ConsumeByte(p, c) = Advance(p, 1) /\ ConsumeByte(q, c) = Advance(q, 1)
      BY <1>2, <2>1, <2>2 DEF ConsumeByte
    <3> QED BY <3>1, <1>2, AdvanceRel, SameIsStrong DEF Pair
  <2>3. CASE Peek(p) # c
    <3>1. ConsumeByte(p, c) = Fail(p, "InvalidChar") /\ ConsumeByte(q, c) = Fail(q, "InvalidChar")
      BY <1>2, <2>1, <2>3 DEF ConsumeByte
    <3> QED BY <3>1, <1>0, FailRel DEF Going
  <2> QED BY <2>2, <2>3
<1> QED BY <1>1, <1>2

LEMMA TryConsumeFacts ==
  ASSUME NEW s \in Texts, NEW p, At(s, p), p.st = "Ok", NEW c, c # "EOF"
  PROVE  /\ Sound(s, p, TryConsumeByte(p, c)) /\ TryConsumeByte(p, c).st = "Ok"
         /\ At(s, TryConsumeByte(p, c)) /\ TryConsumeByte(p, c).itemsLeft = p.itemsLeft
         /\ TryConsumeByte(p, c).pos >= p.pos
         /\ TryConsumeByte(p, c).val = p.val
         /\ TryConsumeByte(p, c).pos > p.pos => Peek(p) = c /\ TryConsumeByte(p, c) = Advance(p, 1)
<1>0. Size(s) \in Nat /\ p.pos \in Nat /\ p.pos <= Size(s) + 1
  BY DEF Texts, Size, At
<1>1. CASE Peek(p) = c
  <2>1. TryConsumeByte(p, c) = Advance(p, 1) /\ ~IsEof(p)
    BY <1>0, <1>1, PeekFacts DEF TryConsumeByte
  <2> QED BY <2>1, <1>0, <1>1, AdvanceOne
<1>2. CASE Peek(p) # c
  <2>1. TryConsumeByte(p, c) = p
    BY <1>2 DEF TryConsumeByte
  <2> QED BY <2>1, <1>0 DEF Sound, Turned, Moves, Going
<1> QED BY <1>1, <1>2

LEMMA TryConsumeRel ==
  ASSUME NEW s, NEW t, NEW p, NEW q, Pair(s, t, p, q), NEW c, c # "EOF"
  PROVE  /\ ~IsEof(p) => Same(TryConsumeByte(p, c), TryConsumeByte(q, c))
         /\ Firm(s, TryConsumeByte(p, c), TryConsumeByte(q, c))
<1>0. /\ Size(s) \in Nat /\ s \in Texts /\ t \in Texts /\ At(s, p) /\ At(t, q) /\ p.pos \in Nat
      /\ p.pos = q.pos /\ p.st = "Ok" /\ q.st = "Ok" /\ p.itemsLeft = q.itemsLeft /\ p.val = q.val
  BY DEF Pair, Cut, At, Same
<1>1. CASE IsEof(p)
  <2>1. TryConsumeByte(p, c) = p
    BY <1>0, <1>1, PeekFacts DEF TryConsumeByte
  <2>2. /\ TryConsumeByte(q, c).st = "Ok" /\ TryConsumeByte(q, c).itemsLeft = q.itemsLeft
        /\ TryConsumeByte(q, c).pos >= q.pos /\ At(t, TryConsumeByte(q, c))
    BY <1>0, TryConsumeFacts
  <2>3. p.pos = Size(s) + 1
    BY <1>0, <1>1, PeekFacts
  <2>4. TryConsumeByte(q, c).pos > Size(s)
    BY <1>0, <2>2, <2>3 DEF At
  <2> QED BY <1>0, <1>1, <2>1, <2>2, <2>3, <2>4 DEF Firm, Loose, Ahead, Wrong, Going
<1>2. CASE ~IsEof(p)
  <2>1. ~IsEof(q) /\ Peek(q) = Peek(p)
    BY <1>2, PeekRel, <1>0 DEF Pair
  <2>2. Same(TryConsumeByte(p, c), TryConsumeByte(q, c)) /\ TryConsumeByte(p, c).st = "Ok"
    BY <1>0, <1>2, <2>1, AdvanceRel, TryConsumeFacts DEF TryConsumeByte, Pair
  <2> QED BY <1>2, <2>2, SameIsStrong, StrongIsFirm
<1> QED BY <1>1, <1>2

CrLf == <<"CR", "LF">>

LEMMA CrLfFacts == CrLf \in Texts /\ Size(CrLf) = 2
<1>1. "CR" \in Symbols /\ "LF" \in Symbols
  BY DEF Symbols, Letters
<1>2. <<"CR", "LF">> \in Seq(Symbols)
  BY <1>1
<1>3. Len(<<"CR", "LF">>) = 2
  OBVIOUS
<1> QED BY <1>2, <1>3 DEF CrLf, Texts, Size

LEMMA AdvanceMoves ==
  ASSUME NEW s, Size(s) \in Nat, NEW p, At(s, p), NEW n \in Nat, p.pos + n <= Size(s) + 1, p.st = "Ok"
  PROVE  /\ At(s, Advance(p, n)) /\ Moves(s, p, Advance(p, n)) /\ Advance(p, n).st = "Ok"
         /\ Advance(p, n).pos = p.pos + n
BY AdvanceFacts DEF At, Moves, Going

LEMMA ConsumeCrlfFacts ==
  ASSUME NEW s \in Texts, NEW p, At(s, p), p.st = "Ok"
  PROVE  /\ Sound(s, p, ConsumeCrlf(p)) /\ Hungry(s, p, ConsumeCrlf(p)) /\ At(s, ConsumeCrlf(p))
         /\ ConsumeCrlf(p).st = "Ok" => ConsumeCrlf(p).pos = p.pos + 2 /\ ConsumeCrlf(p).val = p.val
<1>0. Size(s) \in Nat /\ p.pos \in Nat /\ p.pos <= Size(s) + 1 /\ 1 <= p.pos
  BY DEF Texts, Size, At
<1>a. /\ IsPrefix(CrLf, Remaining(p)) <=> p.pos + 2 <= Size(s) + 1 /\ Spelt(s, p.pos, CrLf, 2)
      /\ IsStrictPrefix(Remaining(p), CrLf)
           <=> p.pos + 2 > Size(s) + 1 /\ Spelt(s, p.pos, CrLf, Size(s) - p.pos + 1)
  BY CrLfFacts, WordFacts
<1>1. CASE IsPrefix(CrLf, Remaining(p))
  <2>1. ConsumeCrlf(p) = Advance(p, 2)
    BY <1>0, <1>1, <1>a DEF ConsumeCrlf, CrLf
  <2>2. p.pos + 2 <= Size(s) + 1
    BY <1>1, <1>a
  <2>3. At(s, Advance(p, 2)) /\ Moves(s, p, Advance(p, 2)) /\ Advance(p, 2).pos = p.pos + 2 /\ Advance(p, 2).st = "Ok"
    BY <1>0, <2>2, AdvanceMoves
  <2>4. Advance(p, 2).val = p.val
    BY AdvanceFacts DEF At
  <2>5. p.pos # Size(s) + 1
    BY <1>0, <2>2
  <2> QED BY <2>1, <2>3, <2>4, <2>5 DEF Sound, Turned, Hungry
<1>2. CASE IsStrictPrefix(Remaining(p), CrLf)
  <2>1. ConsumeCrlf(p) = Fail(p, "Incomplete")
    BY <1>0, <1>2, <1>a DEF ConsumeCrlf, CrLf
  <2> QED BY <2>1, Waits
<1>3. CASE ~IsPrefix(CrLf, Remaining(p)) /\ ~IsStrictPrefix(Remaining(p), CrLf)
  <2>1. ConsumeCrlf(p) = Fail(p, "Malformed")
    BY <1>3 DEF ConsumeCrlf, CrLf
  <2>2. p.pos # Size(s) + 1
    BY <1>0, <1>a, <1>3 DEF Spelt
  <2>3. Fail(p, "Malformed").st = "Malformed" /\ "Malformed" \notin Going
    BY FailFacts DEF Going, At
  <2> QED BY <2>1, <2>2, <2>3, Refuses
<1> QED BY <1>1, <1>2, <1>3

LEMMA WaitsAhead ==
  ASSUME NEW s, NEW a, IsParser(a), NEW b, Ahead(s, b)
  PROVE  Strong(s, Fail(a, "Incomplete"), b)
BY FailFacts DEF Strong, Loose, Wrong, Going

LEMMA ConsumeCrlfRel ==
  ASSUME NEW s, NEW t, NEW p, NEW q, Pair(s, t, p, q)
  PROVE  Strong(s, ConsumeCrlf(p), ConsumeCrlf(q))
<1>0. /\ Size(s) \in Nat /\ Size(t) \in Nat /\ Size(s) <= Size(t) /\ s \in Texts /\ t \in Texts
      /\ At(s, p) /\ At(t, q) /\ IsParser(p) /\ IsParser(q)
      /\ p.pos \in Nat /\ p.pos = q.pos /\ p.st = "Ok" /\ q.st = "Ok"
  BY DEF Pair, Cut, At, Same
<1>a. /\ IsPrefix(CrLf, Remaining(p)) <=> p.pos + 2 <= Size(s) + 1 /\ Spelt(s, p.pos, CrLf, 2)
      /\ IsStrictPrefix(Remaining(p), CrLf)
           <=> p.pos + 2 > Size(s) + 1 /\ Spelt(s, p.pos, CrLf, Size(s) - p.pos + 1)
  BY <1>0, CrLfFacts, WordFacts
<1>1. CASE IsPrefix(CrLf, Remaining(p))
  <2>1. IsPrefix(CrLf, Remaining(q)) /\ ~IsStrictPrefix(Remaining(q), CrLf) /\ ~IsStrictPrefix(Remaining(p), CrLf)
    BY <1>1, CrLfFacts, WordRel
  <2>2. ConsumeCrlf(p) = Advance(p, 2) /\ ConsumeCrlf(q) = Advance(q, 2)
    BY <1>1, <2>1 DEF ConsumeCrlf, CrLf
  <2>3. /\ Advance(p, 2).st = p.st /\ Advance(p, 2).pos = p.pos + 2
        /\ Advance(p, 2).itemsLeft = p.itemsLeft /\ Advance(p, 2).val = p.val
    BY <1>0, AdvanceFacts
  <2>4. /\ Advance(q, 2).st = q.st /\ Advance(q, 2).pos = q.pos + 2
        /\ Advance(q, 2).itemsLeft = q.itemsLeft /\ Advance(q, 2).val = q.val
    BY <1>0, AdvanceFacts
  <2>5. Same(Advance(p, 2), Advance(q, 2)) /\ Advance(p, 2).st # "Incomplete"
    BY <1>0, <2>3, <2>4 DEF Pair, Same
  <2> QED BY <2>2, <2>5, SameIsStrong
<1>2. CASE IsStrictPrefix(Remaining(p), CrLf)
  <2>1. ConsumeCrlf(p) = Fail(p, "Incomplete")
    BY <1>0, <1>2, <1>a DEF ConsumeCrlf, CrLf
  <2>2. p.pos + 2 > Size(s) + 1
    BY <1>2, <1>a
  <2>3. ConsumeCrlf(q).st = "Ok" => ConsumeCrlf(q).pos = q.pos + 2
    BY <1>0, ConsumeCrlfFacts
  <2>4. ConsumeCrlf(q).st # "More"
    BY <1>0, ConsumeCrlfFacts DEF Sound
  <2>5. Ahead(s, ConsumeCrlf(q))
    BY <1>0, <2>2, <2>3, <2>4 DEF Ahead, Going
  <2> QED BY <1>0, <2>1, <2>5, WaitsAhead
<1>3. CASE ~IsPrefix(CrLf, Remaining(p)) /\ ~IsStrictPrefix(Remaining(p), CrLf)
  <2>1. ~IsPrefix(CrLf, Remaining(q)) /\ ~IsStrictPrefix(Remaining(q), CrLf)
    BY <1>3, CrLfFacts, WordRel
  <2>2. ConsumeCrlf(p) = Fail(p, "Malformed") /\ ConsumeCrlf(q) = Fail(q, "Malformed")
    BY <1>3, <2>1 DEF ConsumeCrlf, CrLf
  <2> QED BY <1>0, <2>2, FailRel DEF Going
<1> QED BY <1>1, <1>2, <1>3

-------------------------------------------------------------------------------
(* Text that a scan has taken. *)

LEMMA FromUtf8Facts ==
  ASSUME NEW s, NEW p, At(s, p), p.st = "Ok", NEW x
  PROVE  /\ At(s, FromUtf8(p, x)) /\ FromUtf8(p, x).st \in {"Ok", "Other"} /\ Moves(s, p, FromUtf8(p, x))
         /\ FromUtf8(p, x).pos = p.pos /\ FromUtf8(p, x).itemsLeft = p.itemsLeft
         /\ FromUtf8(p, x).st = "Ok" => FromUtf8(p, x).val = x
BY YieldFacts, FailFacts DEF FromUtf8, At, Moves, Going

LEMMA FromUtf8Rel ==
  ASSUME NEW s, NEW t, NEW p, NEW q, Pair(s, t, p, q), NEW x
  PROVE  Strong(s, FromUtf8(p, x), FromUtf8(q, x))
<1>0. IsParser(p) /\ IsParser(q) /\ p.st = "Ok" /\ Same(p, q)
  BY DEF Pair, At
<1>1. CASE ValidUtf8(x)
  <2>1. FromUtf8(p, x) = Yield(p, x) /\ FromUtf8(q, x) = Yield(q, x)
    BY <1>1 DEF FromUtf8
  <2>2. /\ Yield(p, x).st = p.st /\ Yield(p, x).pos = p.pos
        /\ Yield(p, x).itemsLeft = p.itemsLeft /\ Yield(p, x).val = x
    BY <1>0, YieldFacts
  <2>3. /\ Yield(q, x).st = q.st /\ Yield(q, x).pos = q.pos
        /\ Yield(q, x).itemsLeft = q.itemsLeft /\ Yield(q, x).val = x
    BY <1>0, YieldFacts
  <2>4. Same(Yield(p, x), Yield(q, x)) /\ Yield(p, x).st # "Incomplete"
    BY <1>0, <2>2, <2>3 DEF Same
  <2> QED BY <2>1, <2>4, SameIsStrong
<1>2. CASE ~ValidUtf8(x)
  BY <1>0, <1>2, FailRel DEF FromUtf8, Going
<1> QED BY <1>1, <1>2

LEMMA ScannedFacts ==
  ASSUME NEW s, Size(s) \in Nat, NEW q, At(s, q), q.st = "Ok", NEW r, At(s, r), r.pos <= q.pos, NEW i
  PROVE  /\ Sound(s, r, ScannedText(q, i)) /\ Hungry(s, r, ScannedText(q, i)) /\ At(s, ScannedText(q, i))
         /\ ScannedText(q, i).pos = q.pos /\ ScannedText(q, i).itemsLeft = q.itemsLeft
         /\ ScannedText(q, i).st = "Ok" => ~IsEof(q) /\ ScannedText(q, i).val = Taken(q, i)
<1>1. CASE IsEof(q)
  <2>1. ScannedText(q, i) = Fail(q, "Incomplete")
    BY <1>1 DEF ScannedText
  <2>2. Fail(q, "Incomplete").pos = q.pos /\ Fail(q, "Incomplete").itemsLeft = q.itemsLeft
    BY FailFacts DEF At
  <2> QED BY <2>1, <2>2, Waits
<1>2. CASE ~IsEof(q)
  <2>1. ScannedText(q, i) = FromUtf8(q, Taken(q, i))
    BY <1>2 DEF ScannedText
  <2>2. /\ At(s, FromUtf8(q, Taken(q, i))) /\ FromUtf8(q, Taken(q, i)).st \in {"Ok", "Other"}
        /\ FromUtf8(q, Taken(q, i)).pos = q.pos /\ FromUtf8(q, Taken(q, i)).itemsLeft = q.itemsLeft
        /\ FromUtf8(q, Taken(q, i)).st = "Ok" => FromUtf8(q, Taken(q, i)).val = Taken(q, i)
    BY FromUtf8Facts
  <2>3. q.pos # Size(s) + 1 /\ r.pos # Size(s) + 1
    BY <1>2, PeekFacts DEF At
  <2> QED BY <1>2, <2>1, <2>2, <2>3 DEF Sound, Turned, Moves, Hungry, Going
<1> QED BY <1>1, <1>2

LEMMA TakenSame ==
  ASSUME NEW s, NEW t, NEW p, NEW q, Cut(s, t), At(s, p), At(t, q), p.pos = q.pos, NEW i \in Nat, 1 <= i
  PROVE  Taken(p, i) = Taken(q, i)
<1>1. /\ p.pos - 1 \in Nat /\ p.pos - 1 <= Size(s) /\ p.input = s /\ q.input = t
  BY DEF Cut, At
<1> QED BY <1>1, TakenRel DEF Taken

LEMMA ScannedRel ==
  ASSUME NEW s, NEW t, NEW p, NEW q, Pair(s, t, p, q), NEW T, NEW i \in Nat, 1 <= i
  PROVE  Strong(s, ScannedText(ScanTo(p, T), i), ScannedText(ScanTo(q, T), i))
<1>0. /\ Size(s) \in Nat /\ Size(t) \in Nat /\ s \in Texts /\ t \in Texts /\ Cut(s, t)
      /\ At(s, p) /\ At(t, q) /\ p.st = "Ok" /\ q.st = "Ok" /\ Same(p, q)
  BY DEF Pair, Cut, At, Same
<1>1. /\ ScanTo(p, T).pos <= Size(s) => ScanTo(q, T).pos = ScanTo(p, T).pos
      /\ ScanTo(p, T).pos = Size(s) + 1 => ScanTo(q, T).pos >= Size(s) + 1
  BY ScanRel
<1>2. /\ At(s, ScanTo(p, T)) /\ ScanTo(p, T).st = p.st
      /\ ScanTo(p, T).itemsLeft = p.itemsLeft /\ ScanTo(p, T).val = p.val
  BY <1>0, ScanFacts
<1>3. /\ At(t, ScanTo(q, T)) /\ ScanTo(q, T).st = q.st
      /\ ScanTo(q, T).itemsLeft = q.itemsLeft /\ ScanTo(q, T).val = q.val
  BY <1>0, ScanFacts
<1>4. CASE IsEof(ScanTo(p, T))
  <2>1. ScannedText(ScanTo(p, T), i) = Fail(ScanTo(p, T), "Incomplete")
    BY <1>4 DEF ScannedText
  <2>2. ScanTo(q, T).pos >= Size(s) + 1 /\ ScanTo(q, T).pos \in Nat
    BY <1>0, <1>1, <1>2, <1>3, <1>4, PeekFacts DEF At
  <2>3. ScannedText(ScanTo(q, T), i).pos = ScanTo(q, T).pos
    BY <1>0, <1>3, ScannedFacts DEF At
  <2>4. Ahead(s, ScannedText(ScanTo(q, T), i))
    BY <1>0, <2>2, <2>3 DEF Ahead
  <2> QED BY <1>2, <2>1, <2>4, WaitsAhead DEF At
<1>5. CASE ~IsEof(ScanTo(p, T))
  <2>1. ScanTo(q, T).pos = ScanTo(p, T).pos
    BY <1>0, <1>1, <1>2, <1>5, PeekFacts
  <2>2. Pair(s, t, ScanTo(p, T), ScanTo(q, T))
    BY <1>0, <1>2, <1>3, <2>1 DEF Pair, Same
  <2>3. ~IsEof(ScanTo(q, T))
    BY <2>2, <1>5, PeekRel DEF Pair, Same
  <2>4. Taken(ScanTo(p, T), i) = Taken(ScanTo(q, T), i)
    BY <1>0, <1>2, <1>3, <2>1, TakenSame
  <2> QED BY <1>5, <2>2, <2>3, <2>4, FromUtf8Rel DEF ScannedText
<1> QED BY <1>4, <1>5

LEMMA TokenFacts ==
  ASSUME NEW s \in Texts, NEW p, At(s, p), p.st = "Ok", NEW T
  PROVE  /\ Sound(s, p, Token(p, T)) /\ Hungry(s, p, Token(p, T)) /\ At(s, Token(p, T))
         /\ Token(p, T).st = "Ok"
              => Token(p, T).pos > p.pos /\ Token(p, T).pos <= Size(s) /\ Token(p, T).itemsLeft = p.itemsLeft
<1>0. Size(s) \in Nat /\ p.pos \in Nat /\ p.pos <= Size(s) + 1
  BY DEF Texts, Size, At
<1>1. /\ At(s, ScanTo(p, T)) /\ ScanTo(p, T).pos \in p.pos .. Size(s) + 1 /\ ScanTo(p, T).st = p.st
      /\ ScanTo(p, T).itemsLeft = p.itemsLeft
  BY ScanFacts
<1>2. CASE ScanTo(p, T).pos = p.pos /\ ~IsEof(ScanTo(p, T))
  <2>1. Token(p, T) = Fail(ScanTo(p, T), "Malformed")
    BY <1>2 DEF Token
  <2>2. p.pos # Size(s) + 1
    BY <1>0, <1>1, <1>2, PeekFacts
  <2>3. Fail(ScanTo(p, T), "Malformed").st = "Malformed" /\ "Malformed" \notin Going
    BY <1>1, FailFacts DEF Going, At
  <2> QED BY <1>1, <2>1, <2>2, <2>3, Refuses
<1>3. CASE ~(ScanTo(p, T).pos = p.pos /\ ~IsEof(ScanTo(p, T)))
  <2>1. Token(p, T) = ScannedText(ScanTo(p, T), p.pos)
    BY <1>3 DEF Token
  <2>2. p.pos <= ScanTo(p, T).pos
    BY <1>0, <1>1
  <2>3. ~IsEof(ScanTo(p, T)) => ScanTo(p, T).pos > p.pos /\ ScanTo(p, T).pos <= Size(s)
    BY <1>0, <1>1, <1>3, PeekFacts
  <2> QED BY <1>0, <1>1, <2>1, <2>2, <2>3, ScannedFacts
<1> QED BY <1>2, <1>3

LEMMA TokenRel ==
  ASSUME NEW s, NEW t, NEW p, NEW q, Pair(s, t, p, q), NEW T
  PROVE  Strong(s, Token(p, T), Token(q, T))
<1>0. /\ Size(s) \in Nat /\ Size(t) \in Nat /\ s \in Texts /\ t \in Texts /\ Cut(s, t)
      /\ At(s, p) /\ At(t, q) /\ p.st = "Ok" /\ q.st = "Ok" /\ Same(p, q) /\ p.pos = q.pos
      /\ p.pos \in Nat /\ 1 <= p.pos
  BY DEF Pair, Cut, At, Same
<1>1. /\ ScanTo(p, T).pos <= Size(s) => ScanTo(q, T).pos = ScanTo(p, T).pos
      /\ ScanTo(p, T).pos = Size(s) + 1 => ScanTo(q, T).pos >= Size(s) + 1
  BY ScanRel
<1>2. At(s, ScanTo(p, T)) /\ At(t, ScanTo(q, T)) /\ IsParser(ScanTo(p, T)) /\ IsParser(ScanTo(q, T))
      /\ ScanTo(q, T).st = "Ok"
  BY <1>0, ScanFacts DEF At
<1>3. CASE IsEof(ScanTo(p, T))
  <2>1. Token(p, T) = Fail(ScanTo(p, T), "Incomplete")
    BY <1>3 DEF Token, ScannedText
  <2>2. ScanTo(q, T).pos >= Size(s) + 1 /\ ScanTo(q, T).pos \in Nat
    BY <1>0, <1>1, <1>2, <1>3, PeekFacts DEF At
  <2>3. Token(q, T).pos = ScanTo(q, T).pos
    BY <1>0, <1>2, ScannedFacts, FailFacts DEF Token, At
  <2>4. Ahead(s, Token(q, T))
    BY <1>0, <2>2, <2>3 DEF Ahead
  <2> QED BY <1>2, <2>1, <2>4, WaitsAhead
<1>4. CASE ~IsEof(ScanTo(p, T))
  <2>1. ScanTo(q, T).pos = ScanTo(p, T).pos
    BY <1>0, <1>1, <1>2, <1>4, PeekFacts
  <2>2. ~IsEof(ScanTo(q, T))
    BY <1>0, <1>2, <1>4, <2>1, PeekRel
  <2>3. CASE ScanTo(p, T).pos = p.pos
    <3>1. Token(p, T) = Fail(ScanTo(p, T), "Malformed") /\ Token(q, T) = Fail(ScanTo(q, T), "Malformed")
      BY <1>0, <1>4, <2>1, <2>2, <2>3 DEF Token
    <3> QED BY <1>2, <3>1, FailRel DEF Going
  <2>4. CASE ScanTo(p, T).pos # p.pos
    <3>1. /\ Token(p, T) = ScannedText(ScanTo(p, T), p.pos)
          /\ Token(q, T) = ScannedText(ScanTo(q, T), p.pos)
      BY <1>0, <1>4, <2>1, <2>2, <2>4 DEF Token
    <3> QED BY <1>0, <3>1, ScannedRel
  <2> QED BY <2>3, <2>4
<1> QED BY <1>3, <1>4

LEMMA ParseTextFacts ==
  ASSUME NEW s \in Texts, NEW p, At(s, p), p.st = "Ok"
  PROVE  Sound(s, p, ParseText(p)) /\ Hungry(s, p, ParseText(p)) /\ At(s, ParseText(p))
<1>0. Size(s) \in Nat /\ p.pos \in Nat
  BY DEF Texts, Size, At
<1>1. /\ At(s, ScanTo(p, LineBreak)) /\ ScanTo(p, LineBreak).pos \in p.pos .. Size(s) + 1
      /\ ScanTo(p, LineBreak).st = p.st
  BY ScanFacts
<1>2. p.pos <= ScanTo(p, LineBreak).pos
  BY <1>0, <1>1
<1> QED BY <1>0, <1>1, <1>2, ScannedFacts DEF ParseText

LEMMA ParseTextRel ==
  ASSUME NEW s, NEW t, NEW p, NEW q, Pair(s, t, p, q)
  PROVE  Strong(s, ParseText(p), ParseText(q))
<1>0. p.pos \in Nat /\ 1 <= p.pos /\ p.pos = q.pos
  BY DEF Pair, At, Same
<1> QED BY <1>0, ScannedRel DEF ParseText

LEMMA ReadUntilFacts ==
  ASSUME NEW s \in Texts, NEW p, At(s, p), p.st = "Ok", NEW c
  PROVE  Sound(s, p, ReadUntilByte(p, c)) /\ Hungry(s, p, ReadUntilByte(p, c)) /\ At(s, ReadUntilByte(p, c))
<1> DEFINE r == ScanTo(p, {c} \cup LineBreak)
<1>0. Size(s) \in Nat /\ p.pos \in Nat
  BY DEF Texts, Size, At
<1>1. At(s, r) /\ r.pos \in p.pos .. Size(s) + 1 /\ r.st = p.st
  BY ScanFacts
<1>2. p.pos <= r.pos /\ IsParser(r)
  BY <1>0, <1>1 DEF At
<1>3. ReadUntilByte(p, c) = IF Peek(r) \in LineBreak THEN Fail(r, "Malformed") ELSE ScannedText(r, p.pos)
  BY DEF ReadUntilByte
<1> HIDE DEF r
<1>4. CASE Peek(r) \in LineBreak
  <2>1. ~IsEof(r)
    BY <1>0, <1>1, <1>4, PeekFacts DEF LineBreak
  <2>2. p.pos # Size(s) + 1
    BY <1>0, <1>1, <1>2, <2>1, PeekFacts
  <2>3. "Malformed" \notin Going
    BY DEF Going
  <2> QED BY <1>1, <1>3, <1>4, <2>2, <2>3, Refuses
<1>5. CASE Peek(r) \notin LineBreak
  BY <1>0, <1>1, <1>2, <1>3, <1>5, ScannedFacts
<1> QED BY <1>4, <1>5

LEMMA ReadUntilRel ==
  ASSUME NEW s, NEW t, NEW p, NEW q, Pair(s, t, p, q), NEW c
  PROVE  Strong(s, ReadUntilByte(p, c), ReadUntilByte(q, c))
<1> DEFINE T == {c} \cup LineBreak
<1>0. /\ Size(s) \in Nat /\ Size(t) \in Nat /\ s \in Texts /\ t \in Texts /\ Cut(s, t)
      /\ At(s, p) /\ At(t, q) /\ p.st = "Ok" /\ q.st = "Ok" /\ Same(p, q) /\ p.pos = q.pos
      /\ p.pos \in Nat /\ 1 <= p.pos
  BY DEF Pair, Cut, At, Same
<1>a. /\ ReadUntilByte(p, c) = IF Peek(ScanTo(p, T)) \in LineBreak THEN Fail(ScanTo(p, T), "Malformed")
                               ELSE ScannedText(ScanTo(p, T), p.pos)
      /\ ReadUntilByte(q, c) = IF Peek(ScanTo(q, T)) \in LineBreak THEN Fail(ScanTo(q, T), "Malformed")
                               ELSE ScannedText(ScanTo(q, T), p.pos)
  BY <1>0 DEF ReadUntilByte
<1> HIDE DEF T
<1>1. /\ ScanTo(p, T).pos <= Size(s) => ScanTo(q, T).pos = ScanTo(p, T).pos
      /\ ScanTo(p, T).pos = Size(s) + 1 => ScanTo(q, T).pos >= Size(s) + 1
  BY ScanRel
<1>2. At(s, ScanTo(p, T)) /\ At(t, ScanTo(q, T)) /\ IsParser(ScanTo(p, T)) /\ IsParser(ScanTo(q, T))
      /\ ScanTo(q, T).st = "Ok"
  BY <1>0, ScanFacts DEF At
<1>3. CASE IsEof(ScanTo(p, T))
  <2>1. Peek(ScanTo(p, T)) \notin LineBreak
    BY <1>0, <1>2, <1>3, PeekFacts DEF LineBreak
  <2>2. ReadUntilByte(p, c) = Fail(ScanTo(p, T), "Incomplete")
    BY <1>3, <1>a, <2>1 DEF ScannedText
  <2>3. ScanTo(q, T).pos >= Size(s) + 1 /\ ScanTo(q, T).pos \in Nat
    BY <1>0, <1>1, <1>2, <1>3, PeekFacts DEF At
  <2>4. ReadUntilByte(q, c).pos = ScanTo(q, T).pos
    BY <1>0, <1>2, <1>a, ScannedFacts, FailFacts DEF At
  <2>5. Ahead(s, ReadUntilByte(q, c))
    BY <1>0, <2>3, <2>4 DEF Ahead
  <2> QED BY <1>2, <2>2, <2>5, WaitsAhead
<1>4. CASE ~IsEof(ScanTo(p, T))
  <2>1. ScanTo(q, T).pos = ScanTo(p, T).pos
    BY <1>0, <1>1, <1>2, <1>4, PeekFacts
  <2>2. Peek(ScanTo(q, T)) = Peek(ScanTo(p, T))
    BY <1>0, <1>2, <1>4, <2>1, PeekRel
  <2>3. CASE Peek(ScanTo(p, T)) \in LineBreak
    BY <1>a, <1>2, <2>2, <2>3, FailRel DEF Going
  <2>4. CASE Peek(ScanTo(p, T)) \notin LineBreak
    BY <1>0, <1>a, <2>2, <2>4, ScannedRel
  <2> QED BY <2>3, <2>4
<1> QED BY <1>3, <1>4

-------------------------------------------------------------------------------
(* Numbers.  The value of a text of digits, digit by digit. *)
DigitAt(x, k) == CHOOSE d \in 1 .. 10 : Digits[d] = x[k]
Counts(f, x, n) == f = [k \in 0 .. n |-> IF k = 0 THEN 0 ELSE 10 * f[k - 1] + DigitAt(x, k) - 1]

LEMMA CountsExists ==
  ASSUME NEW x, NEW n \in Nat
  PROVE  \E f : Counts(f, x, n)
<1> DEFINE Bad == {m \in Nat : ~ \E f : Counts(f, x, m)}
<1>1. SUFFICES ASSUME Bad # {} PROVE FALSE
  OBVIOUS
<1>2. PICK m \in Bad : \A l \in Bad : m <= l
  BY <1>1, LeastNumber
<1>3. CASE m = 0
  <2>1. Counts([k \in 0 .. 0 |-> 0], x, 0)
    BY DEF Counts
  <2> QED BY <1>2, <1>3, <2>1
<1>4. CASE m # 0
  <2>1. m - 1 \in Nat /\ m - 1 \notin Bad
    BY <1>2, <1>4
  <2>2. PICK f : Counts(f, x, m - 1)
    BY <2>1
  <2> DEFINE g == [k \in 0 .. m |-> IF k = m THEN 10 * f[m - 1] + DigitAt(x, m) - 1 ELSE f[k]]
  <2>3. \A k \in 0 .. m : g[k] = IF k = 0 THEN 0 ELSE 10 * g[k - 1] + DigitAt(x, k) - 1
    <3> TAKE k \in 0 .. m
    <3>1. CASE k = m
      BY <1>4, <3>1
    <3>2. CASE k # m
      <4>1. k \in 0 .. m - 1
        BY <3>2
      <4>2. f[k] = IF k = 0 THEN 0 ELSE 10 * f[k - 1] + DigitAt(x, k) - 1
        BY <4>1, <2>2 DEF Counts
      <4>3. k # 0 => k - 1 \in 0 .. m /\ k - 1 # m
        BY <4>1
      <4> QED BY <3>2, <4>2, <4>3
    <3> QED BY <3>1, <3>2
  <2>4. g = [k \in 0 .. m |-> g[k]]
    OBVIOUS
  <2>5. Counts(g, x, m)
    <3> HIDE DEF g
    <3> QED BY <2>3, <2>4 DEF Counts
  <2> QED BY <2>5, <1>2
<1> QED BY <1>3, <1>4

LEMMA DecimalFacts ==
  ASSUME NEW x \in Texts
  PROVE  \E f : Counts(f, x, Size(x)) /\ DecimalValue(x) = f[Size(x)]
<1>1. Size(x) \in Nat /\ Size(x) = Len(x)
  BY DEF Texts, Size
<1>2. DecimalValue(x) = (CHOOSE f : Counts(f, x, Len(x)))[Len(x)]
  BY DEF DecimalValue, Counts, DigitAt
<1>3. Counts(CHOOSE f : Counts(f, x, Len(x)), x, Len(x))
  BY <1>1, CountsExists
<1> QED BY <1>1, <1>2, <1>3

\* More digits never make a smaller number.
LEMMA NumberGrows ==
  ASSUME NEW x \in Texts, NEW y \in Texts, Size(x) <= Size(y),
         \A k \in 1 .. Size(x) : x[k] = y[k], \A k \in 1 .. Size(y) : IsDigit(y[k])
  PROVE  DecimalValue(x) \in Nat /\ DecimalValue(y) \in Nat /\ DecimalValue(x) <= DecimalValue(y)
<1>1. Size(x) \in Nat /\ Size(y) \in Nat
  BY DEF Texts, Size
<1>2. PICK f : Counts(f, x, Size(x)) /\ DecimalValue(x) = f[Size(x)]
  BY DecimalFacts
<1>3. PICK g : Counts(g, y, Size(y)) /\ DecimalValue(y) = g[Size(y)]
  BY DecimalFacts
<1>4. \A k \in 0 .. Size(x) : f[k] = IF k = 0 THEN 0 ELSE 10 * f[k - 1] + DigitAt(x, k) - 1
  BY <1>2 DEF Counts
<1>5. \A k \in 0 .. Size(y) : g[k] = IF k = 0 THEN 0 ELSE 10 * g[k - 1] + DigitAt(y, k) - 1
  BY <1>3 DEF Counts
<1>6. \A k \in 1 .. Size(y) : DigitAt(y, k) \in 1 .. 10
  BY DEF IsDigit, DigitAt
<1>7. \A k \in 1 .. Size(x) : DigitAt(x, k) = DigitAt(y, k)
  BY DEF DigitAt
<1>8. \A k \in 0 .. Size(y) : g[k] \in Nat /\ (k <= Size(x) => f[k] = g[k]) /\ (Size(x) <= k => g[Size(x)] <= g[k])
  <2> DEFINE Good(k) == g[k] \in Nat /\ (k <= Size(x) => f[k] = g[k]) /\ (Size(x) <= k => g[Size(x)] <= g[k])
             Bad == {k \in 0 .. Size(y) : ~Good(k)}
  <2>1. SUFFICES ASSUME Bad # {} PROVE FALSE
    OBVIOUS
  <2>2. Bad \in SUBSET Nat
    OBVIOUS
  <2>3. PICK k \in Bad : \A l \in Bad : k <= l
    BY <2>1, <2>2, LeastNumber
  <2>4. k \in 0 .. Size(y) /\ ~Good(k)
    BY <2>3
  <2>5. CASE k = 0
    <3>1. g[0] = 0 /\ f[0] = 0
      BY <1>1, <1>4, <1>5
    <3>2. Size(x) <= 0 => Size(x) = 0
      BY <1>1
    <3> QED BY <2>4, <2>5, <3>1, <3>2, <1>1
  <2>6. CASE k # 0
    <3>1. k - 1 \in 0 .. Size(y) /\ k - 1 \notin Bad /\ k \in 1 .. Size(y)
      BY <1>1, <2>3, <2>6
    <3>2. Good(k - 1)
      BY <3>1
    <3>3. g[k] = 10 * g[k - 1] + DigitAt(y, k) - 1 /\ DigitAt(y, k) \in 1 .. 10
      BY <1>5, <1>6, <2>6, <3>1, <2>4
    <3>4. g[k] \in Nat /\ g[k - 1] <= g[k]
      BY <3>2, <3>3
    <3>5. k <= Size(x) => f[k] = g[k]
      BY <1>1, <1>4, <1>7, <2>6, <3>1, <3>2, <3>3
    <3>6. Size(x) <= k => g[Size(x)] <= g[k]
      <4>1. CASE Size(x) = k
        BY <4>1, <3>4
      <4>2. CASE Size(x) < k
        <5>1. Size(x) <= k - 1 /\ Size(x) \in 0 .. Size(y)
          BY <4>2, <1>1, <3>1
        <5>2. g[Size(x)] <= g[k - 1]
          BY <5>1, <3>2
        <5>3. Size(x) \notin Bad
          BY <4>2, <2>3, <1>1, <3>1
        <5>4. g[Size(x)] \in Nat
          BY <5>1, <5>3
        <5> QED BY <5>2, <5>4, <3>2, <3>4
      <4> QED BY <4>1, <4>2, <1>1, <3>1
    <3> QED BY <2>4, <3>4, <3>5, <3>6
  <2> QED BY <2>5, <2>6
<1>9. Size(x) \in 0 .. Size(y) /\ Size(y) \in 0 .. Size(y)
  BY <1>1
<1> QED BY <1>1, <1>2, <1>3, <1>8, <1>9

LEMMA TakenFacts ==
  ASSUME NEW s \in Texts, NEW r, At(s, r), NEW i \in Nat, 1 <= i, i <= r.pos
  PROVE  /\ Taken(r, i) \in Texts /\ Size(Taken(r, i)) = r.pos - i
         /\ \A k \in 1 .. r.pos - i : Taken(r, i)[k] = s[i + k - 1]
<1>1. Size(s) = Len(s) /\ Size(s) \in Nat /\ r.pos \in Nat /\ r.pos <= Size(s) + 1
  BY DEF Size, Texts, At
<1>2. \A k \in i .. r.pos - 1 : s[k] \in Symbols
  BY <1>1 DEF Texts
<1>3. /\ SubSeq(s, i, r.pos - 1) \in Seq(Symbols)
      /\ Len(SubSeq(s, i, r.pos - 1)) = IF i <= r.pos - 1 THEN r.pos - 1 - i + 1 ELSE 0
      /\ \A k \in 1 .. r.pos - 1 - i + 1 : SubSeq(s, i, r.pos - 1)[k] = s[i + k - 1]
  BY <1>1, <1>2, SubSeqProperties
<1>4. Taken(r, i) = SubSeq(s, i, r.pos - 1)
  BY DEF Taken, At
<1> QED BY <1>1, <1>3, <1>4 DEF Size, Texts

Others(s) == {c \in ToSet(s) : ~IsDigit(c)}

LEMMA OthersFacts ==
  ASSUME NEW s \in Texts, NEW k \in 1 .. Size(s)
  PROVE  s[k] \in Others(s) <=> ~IsDigit(s[k])
<1>1. k \in DOMAIN s
  BY DEF Texts, Size
<1>2. s[k] \in ToSet(s)
  BY <1>1 DEF ToSet
<1> QED BY <1>2 DEF Others

LEMMA ScanDigitsFacts ==
  ASSUME NEW s \in Texts, NEW p, At(s, p)
  PROVE  /\ ScanDigits(p) = ScanTo(p, Others(s))
         /\ At(s, ScanDigits(p)) /\ ScanDigits(p).pos \in p.pos .. Size(s) + 1
         /\ ScanDigits(p).st = p.st /\ ScanDigits(p).itemsLeft = p.itemsLeft /\ ScanDigits(p).val = p.val
         /\ \A k \in p.pos .. ScanDigits(p).pos - 1 : k \in 1 .. Size(s) /\ IsDigit(s[k])
<1>1. ScanDigits(p) = ScanTo(p, Others(s))
  BY DEF ScanDigits, Others, At
<1>2. /\ At(s, ScanTo(p, Others(s))) /\ ScanTo(p, Others(s)).pos \in p.pos .. Size(s) + 1
      /\ ScanTo(p, Others(s)).st = p.st /\ ScanTo(p, Others(s)).itemsLeft = p.itemsLeft
      /\ ScanTo(p, Others(s)).val = p.val
      /\ Stops(Places(s, Others(s)), p.pos, Size(s), ScanTo(p, Others(s)).pos)
  BY ScanFacts
<1>3. Size(s) \in Nat /\ p.pos \in Nat /\ 1 <= p.pos
  BY DEF Size, Texts, At
<1>4. ASSUME NEW k \in p.pos .. ScanTo(p, Others(s)).pos - 1 PROVE k \in 1 .. Size(s) /\ IsDigit(s[k])
  <2>1. k \in 1 .. Size(s)
    BY <1>2, <1>3
  <2>2. k \notin Places(s, Others(s))
    BY <1>2 DEF Stops
  <2> QED BY <2>1, <2>2, OthersFacts DEF Places
<1> QED BY <1>1, <1>2, <1>4

LEMMA ParseNumberFacts ==
  ASSUME NEW s \in Texts, NEW p, At(s, p), p.st = "Ok"
  PROVE  /\ Sound(s, p, ParseNumber(p)) /\ Hungry(s, p, ParseNumber(p)) /\ At(s, ParseNumber(p))
         /\ ParseNumber(p).pos = ScanDigits(p).pos /\ ParseNumber(p).itemsLeft = p.itemsLeft
         /\ ParseNumber(p).st = "Ok" => /\ ParseNumber(p).val = DecimalValue(Taken(ScanDigits(p), p.pos))
                                        /\ ParseNumber(p).pos > p.pos
                                        /\ ParseNumber(p).val \in Nat /\ ParseNumber(p).val <= MaxU32
         /\ ParseNumber(p).st = IF ScanDigits(p).pos = p.pos
                                THEN IF IsEof(ScanDigits(p)) THEN "Incomplete" ELSE "InvalidNumber"
                                ELSE IF DecimalValue(Taken(ScanDigits(p), p.pos)) > MaxU32
                                THEN "InvalidNumber" ELSE "Ok"
<1> DEFINE r == ScanDigits(p)
           n == DecimalValue(Taken(r, p.pos))
<1>0. Size(s) \in Nat /\ p.pos \in Nat /\ 1 <= p.pos /\ p.pos <= Size(s) + 1
  BY DEF Texts, Size, At
<1>1. /\ At(s, r) /\ r.pos \in p.pos .. Size(s) + 1 /\ r.st = p.st /\ r.itemsLeft = p.itemsLeft
      /\ \A k \in p.pos .. r.pos - 1 : k \in 1 .. Size(s) /\ IsDigit(s[k])
  BY ScanDigitsFacts
<1>2. ParseNumber(p) = CASE r.pos = p.pos -> Fail(r, IF IsEof(r) THEN "Incomplete" ELSE "InvalidNumber")
                         [] r.pos > p.pos /\ n > MaxU32 -> Fail(r, "InvalidNumber")
                         [] OTHER -> Yield(r, n)
  BY DEF ParseNumber
<1>3. n \in Nat
  <2>1. /\ Taken(r, p.pos) \in Texts /\ Size(Taken(r, p.pos)) = r.pos - p.pos
        /\ \A k \in 1 .. r.pos - p.pos : Taken(r, p.pos)[k] = s[p.pos + k - 1]
    BY <1>0, <1>1, TakenFacts
  <2>2. \A k \in 1 .. r.pos - p.pos : IsDigit(Taken(r, p.pos)[k])
    <3> TAKE k \in 1 .. r.pos - p.pos
    <3>1. p.pos + k - 1 \in p.pos .. r.pos - 1
      BY <1>0, <1>1
    <3> QED BY <3>1, <1>1, <2>1
  <2>3. Size(Taken(r, p.pos)) <= Size(Taken(r, p.pos))
    BY <1>0, <1>1, <2>1
  <2> QED BY <2>1, <2>2, <2>3, NumberGrows
<1> HIDE DEF r, n
<1>4. CASE r.pos = p.pos
  <2>1. ParseNumber(p) = Fail(r, IF IsEof(r) THEN "Incomplete" ELSE "InvalidNumber")
    BY <1>0, <1>2, <1>4
  <2>2. CASE IsEof(r)
    <3>1. ParseNumber(p) = Fail(r, "Incomplete")
      BY <2>1, <2>2
    <3>2. Fail(r, "Incomplete").pos = r.pos /\ Fail(r, "Incomplete").itemsLeft = r.itemsLeft
      BY <1>1, FailFacts DEF At
    <3>3. /\ Sound(s, p, ParseNumber(p)) /\ Hungry(s, p, ParseNumber(p)) /\ At(s, ParseNumber(p))
          /\ ParseNumber(p).st = "Incomplete"
      BY <1>1, <3>1, Waits
    <3> QED BY <1>1, <1>4, <2>2, <3>1, <3>2, <3>3 DEF r
  <2>3. CASE ~IsEof(r)
    <3>1. ParseNumber(p) = Fail(r, "InvalidNumber")
      BY <2>1, <2>3
    <3>2. Fail(r, "InvalidNumber").pos = r.pos /\ Fail(r, "InvalidNumber").itemsLeft = r.itemsLeft
      BY <1>1, FailFacts DEF At
    <3>3. p.pos # Size(s) + 1 /\ "InvalidNumber" \notin Going
      BY <1>0, <1>1, <1>4, <2>3, PeekFacts DEF Going
    <3> QED BY <1>1, <1>4, <2>3, <3>1, <3>2, <3>3, Refuses DEF r
  <2> QED BY <2>2, <2>3
<1>5. CASE r.pos > p.pos /\ n > MaxU32
  <2>1. ParseNumber(p) = Fail(r, "InvalidNumber")
    BY <1>0, <1>1, <1>2, <1>5
  <2>2. Fail(r, "InvalidNumber").pos = r.pos /\ Fail(r, "InvalidNumber").itemsLeft = r.itemsLeft
    BY <1>1, FailFacts DEF At
  <2>3. p.pos # Size(s) + 1 /\ "InvalidNumber" \notin Going /\ r.pos # p.pos
    BY <1>0, <1>1, <1>5 DEF Going
  <2> QED BY <1>1, <1>5, <2>1, <2>2, <2>3, Refuses DEF r, n
<1>6. CASE r.pos > p.pos /\ ~(n > MaxU32)
  <2>1. ParseNumber(p) = Yield(r, n)
    BY <1>0, <1>1, <1>2, <1>6
  <2>2. /\ IsParser(Yield(r, n)) /\ Yield(r, n).pos = r.pos /\ Yield(r, n).itemsLeft = r.itemsLeft
        /\ Yield(r, n).st = "Ok" /\ Yield(r, n).val = n /\ Yield(r, n).input = s
    BY <1>1, YieldFacts DEF At
  <2>3. p.pos # Size(s) + 1 /\ p.pos <= r.pos /\ n <= MaxU32 /\ r.pos # p.pos
    BY <1>0, <1>1, <1>6, <1>3, LimitsAssumption
  <2>4. At(s, Yield(r, n))
    BY <1>1, YieldAt
  <2>5. Sound(s, p, Yield(r, n)) /\ Hungry(s, p, Yield(r, n))
    BY <2>2, <2>3, <2>4 DEF Sound, Turned, Moves, Hungry, Going
  <2>6. /\ Sound(s, p, ParseNumber(p)) /\ Hungry(s, p, ParseNumber(p)) /\ At(s, ParseNumber(p))
        /\ ParseNumber(p).pos = r.pos /\ ParseNumber(p).itemsLeft = p.itemsLeft
        /\ ParseNumber(p).st = "Ok" /\ ParseNumber(p).val = n /\ n \in Nat /\ n <= MaxU32
        /\ r.pos > p.pos /\ r.pos # p.pos
    BY <1>1, <1>3, <1>6, <2>1, <2>2, <2>3, <2>4, <2>5
  <2> QED BY <1>6, <2>6 DEF r, n
<1> QED BY <1>0, <1>1, <1>4, <1>5, <1>6

LEMMA ParseNumberRel ==
  ASSUME NEW s, NEW t, NEW p, NEW q, Pair(s, t, p, q)
  PROVE  Firm(s, ParseNumber(p), ParseNumber(q))
<1> DEFINE a == ParseNumber(p)
           b == ParseNumber(q)
           r == ScanDigits(p)
           u == ScanDigits(q)
<1>0. /\ Size(s) \in Nat /\ Size(t) \in Nat /\ Size(s) <= Size(t) /\ s \in Texts /\ t \in Texts /\ Cut(s, t)
      /\ At(s, p) /\ At(t, q) /\ p.st = "Ok" /\ q.st = "Ok" /\ Same(p, q) /\ p.pos = q.pos
      /\ p.pos \in Nat /\ 1 <= p.pos /\ p.itemsLeft = q.itemsLeft
  BY DEF Pair, Cut, At, Same
<1>1. \A k \in 1 .. Size(s) : s[k] \in Others(s) <=> s[k] \in Others(t)
  <2> TAKE k \in 1 .. Size(s)
  <2>1. k \in 1 .. Size(t) /\ s[k] = t[k]
    BY <1>0 DEF Cut
  <2> QED BY <1>0, <2>1, OthersFacts
<1>2. /\ At(s, r) /\ r.pos \in p.pos .. Size(s) + 1 /\ r = ScanTo(p, Others(s))
      /\ \A k \in p.pos .. r.pos - 1 : k \in 1 .. Size(s) /\ IsDigit(s[k])
  BY <1>0, ScanDigitsFacts
<1>3. /\ At(t, u) /\ u.pos \in p.pos .. Size(t) + 1 /\ u = ScanTo(q, Others(t))
      /\ \A k \in p.pos .. u.pos - 1 : k \in 1 .. Size(t) /\ IsDigit(t[k])
  BY <1>0, ScanDigitsFacts
<1>4. (r.pos <= Size(s) => u.pos = r.pos) /\ (r.pos = Size(s) + 1 => u.pos >= Size(s) + 1)
  BY <1>1, <1>2, <1>3, ScanRel
<1>5. /\ a.pos = r.pos /\ a.itemsLeft = p.itemsLeft /\ a.st # "More"
      /\ a.st = "Ok" => a.val = DecimalValue(Taken(r, p.pos))
      /\ a.st = IF r.pos = p.pos THEN IF IsEof(r) THEN "Incomplete" ELSE "InvalidNumber"
                ELSE IF DecimalValue(Taken(r, p.pos)) > MaxU32 THEN "InvalidNumber" ELSE "Ok"
  BY <1>0, ParseNumberFacts DEF Sound
<1>6. /\ b.pos = u.pos /\ b.itemsLeft = p.itemsLeft /\ b.st # "More"
      /\ b.st = "Ok" => b.val = DecimalValue(Taken(u, p.pos))
      /\ b.st = IF u.pos = p.pos THEN IF IsEof(u) THEN "Incomplete" ELSE "InvalidNumber"
                ELSE IF DecimalValue(Taken(u, p.pos)) > MaxU32 THEN "InvalidNumber" ELSE "Ok"
  BY <1>0, ParseNumberFacts DEF Sound
<1> HIDE DEF a, b, r, u
<1>7. CASE IsEof(r)
  <2>1. r.pos = Size(s) + 1 /\ u.pos >= Size(s) + 1
    BY <1>0, <1>2, <1>4, <1>7, PeekFacts
  <2>2. Ahead(s, b)
    BY <1>0, <1>3, <1>6, <2>1 DEF Ahead
  <2>3. CASE r.pos = p.pos
    <3>1. a.st = "Incomplete"
      BY <1>5, <1>7, <2>3
    <3> QED BY <3>1, <2>2 DEF Firm, Loose, Wrong, Going, a, b
  <2>4. CASE r.pos # p.pos
    <3>1. /\ Taken(r, p.pos) \in Texts /\ Size(Taken(r, p.pos)) = r.pos - p.pos
          /\ \A k \in 1 .. r.pos - p.pos : Taken(r, p.pos)[k] = s[p.pos + k - 1]
      BY <1>0, <1>2, TakenFacts
    <3>2. /\ Taken(u, p.pos) \in Texts /\ Size(Taken(u, p.pos)) = u.pos - p.pos
          /\ \A k \in 1 .. u.pos - p.pos : Taken(u, p.pos)[k] = t[p.pos + k - 1]
      BY <1>0, <1>3, TakenFacts
    <3>3. \A k \in 1 .. u.pos - p.pos : IsDigit(Taken(u, p.pos)[k])
      <4> TAKE k \in 1 .. u.pos - p.pos
      <4>1. p.pos + k - 1 \in p.pos .. u.pos - 1
        BY <1>0, <1>3
      <4> QED BY <4>1, <1>3, <3>2
    <3>4. \A k \in 1 .. r.pos - p.pos : Taken(r, p.pos)[k] = Taken(u, p.pos)[k]
      <4> TAKE k \in 1 .. r.pos - p.pos
      <4>1. p.pos + k - 1 \in p.pos .. r.pos - 1 /\ k \in 1 .. u.pos - p.pos
        BY <1>0, <1>2, <1>3, <2>1
      <4>2. p.pos + k - 1 \in 1 .. Size(s)
        BY <4>1, <1>2
      <4>3. s[p.pos + k - 1] = t[p.pos + k - 1]
        BY <4>2 DEF Pair, Cut
      <4> QED BY <4>1, <4>3, <3>1, <3>2
    <3>5. Size(Taken(r, p.pos)) <= Size(Taken(u, p.pos))
      BY <1>0, <1>2, <1>3, <2>1, <3>1, <3>2
    <3>6. /\ DecimalValue(Taken(r, p.pos)) \in Nat /\ DecimalValue(Taken(u, p.pos)) \in Nat
          /\ DecimalValue(Taken(r, p.pos)) <= DecimalValue(Taken(u, p.pos))
      BY <3>1, <3>2, <3>3, <3>4, <3>5, NumberGrows
    <3>7. u.pos # p.pos
      BY <1>0, <1>2, <1>3, <2>1, <2>4
    <3>8. CASE DecimalValue(Taken(r, p.pos)) > MaxU32
      <4>1. DecimalValue(Taken(u, p.pos)) > MaxU32
        BY <3>6, <3>8, LimitsAssumption
      <4> QED BY <1>5, <1>6, <2>4, <3>7, <3>8, <4>1 DEF Firm, Loose, Wrong, Going, a, b
    <3>9. CASE ~(DecimalValue(Taken(r, p.pos)) > MaxU32)
      <4>1. a.st = "Ok" /\ a.pos = Size(s) + 1 /\ b.st \in {"Ok", "InvalidNumber"}
        BY <1>5, <1>6, <2>1, <2>4, <3>7, <3>9
      <4> QED BY <1>5, <1>6, <2>2, <4>1 DEF Firm, Loose, Wrong, Going, a, b
    <3> QED BY <3>8, <3>9
  <2> QED BY <2>3, <2>4
<1>8. CASE ~IsEof(r)
  <2>1. r.pos <= Size(s) /\ u.pos = r.pos
    BY <1>0, <1>2, <1>4, <1>8, PeekFacts
  <2>2. ~IsEof(u)
    BY <1>0, <1>2, <1>3, <1>8, <2>1, PeekRel
  <2>3. Taken(r, p.pos) = Taken(u, p.pos)
    BY <1>0, <1>2, <1>3, <2>1, TakenSame
  <2>4. a.st = b.st /\ a.pos = b.pos /\ a.itemsLeft = b.itemsLeft /\ (a.st = "Ok" => a.val = b.val)
    BY <1>5, <1>6, <1>8, <2>1, <2>2, <2>3
  <2>5. a.st \in {"Ok", "InvalidNumber"}
    BY <1>5, <1>8
  <2> QED BY <2>4, <2>5 DEF Firm, Loose, Wrong, Same, Going, a, b
<1> QED BY <1>7, <1>8

-------------------------------------------------------------------------------
(* Words matched in place. *)

LEMMA KeywordFacts ==
  ASSUME NEW s \in Texts, NEW p, At(s, p), NEW w \in Texts, MatchesKeyword(p, w)
  PROVE  /\ IsPrefix(w, Remaining(p)) /\ ~IsStrictPrefix(Remaining(p), w)
         /\ p.pos + Size(w) <= Size(s) + 1
<1>1. Size(s) \in Nat /\ Size(w) \in Nat /\ p.pos \in Nat
  BY DEF Texts, Size, At
<1>2. IsPrefix(w, Remaining(p))
  BY DEF MatchesKeyword
<1> QED BY <1>1, <1>2, WordFacts

\* Where the bytes go beyond the word, it is there or not whatever follows.
LEMMA KeywordRel ==
  ASSUME NEW s, NEW t, NEW p, NEW q, Pair(s, t, p, q), NEW w \in Texts
  PROVE  /\ MatchesKeyword(p, w) /\ p.pos + Size(w) <= Size(s) => MatchesKeyword(q, w)
         /\ MatchesKeyword(q, w) => MatchesKeyword(p, w) \/ IsStrictPrefix(Remaining(p), w)
<1>0. /\ Size(s) \in Nat /\ Size(t) \in Nat /\ Size(s) <= Size(t) /\ s \in Texts /\ t \in Texts /\ Cut(s, t)
      /\ At(s, p) /\ At(t, q) /\ p.st = "Ok" /\ q.st = "Ok" /\ Same(p, q) /\ p.pos = q.pos
      /\ p.pos \in Nat /\ 1 <= p.pos /\ Size(w) \in Nat /\ Size(w) = Len(w)
  BY DEF Pair, Cut, At, Same, Texts, Size
<1> DEFINE a == Advance(p, Size(w))
           b == Advance(q, Size(w))
<1>1. /\ MatchesKeyword(p, w) <=> IsPrefix(w, Remaining(p)) /\ Peek(a) \in {"EOF", "SP", "CR", "LF", "]", ")"}
      /\ MatchesKeyword(q, w) <=> IsPrefix(w, Remaining(q)) /\ Peek(b) \in {"EOF", "SP", "CR", "LF", "]", ")"}
  BY <1>0 DEF MatchesKeyword
<1>2. /\ IsPrefix(w, Remaining(p)) => IsPrefix(w, Remaining(q))
      /\ ~IsPrefix(w, Remaining(p)) /\ ~IsStrictPrefix(Remaining(p), w) => ~IsPrefix(w, Remaining(q))
  BY WordRel
<1>3. IsPrefix(w, Remaining(p)) => p.pos + Size(w) <= Size(s) + 1
  BY <1>0, WordFacts
<1>4. ASSUME p.pos + Size(w) <= Size(s) + 1 PROVE At(s, a) /\ At(t, b) /\ a.pos = p.pos + Size(w) /\ b.pos = p.pos + Size(w)
  <2>1. p.pos + Size(w) <= Size(t) + 1
    BY <1>0, <1>4
  <2> QED BY <1>0, <1>4, <2>1, AdvanceMoves
<1> HIDE DEF a, b
<1>5. ASSUME p.pos + Size(w) <= Size(s) PROVE Peek(a) = Peek(b)
  <2>1. At(s, a) /\ At(t, b) /\ a.pos = p.pos + Size(w) /\ b.pos = p.pos + Size(w)
    BY <1>0, <1>4, <1>5
  <2>2. ~IsEof(a)
    BY <1>0, <1>5, <2>1, PeekFacts
  <2> QED BY <1>0, <2>1, <2>2, PeekRel
<1>6. ASSUME p.pos + Size(w) = Size(s) + 1 PROVE Peek(a) = "EOF"
  <2>1. At(s, a) /\ a.pos = Size(s) + 1
    BY <1>0, <1>4, <1>6
  <2> QED BY <1>0, <2>1, PeekFacts
<1>7. ASSUME MatchesKeyword(q, w), ~IsStrictPrefix(Remaining(p), w) PROVE MatchesKeyword(p, w)
  <2>1. IsPrefix(w, Remaining(p))
    BY <1>1, <1>2, <1>7
  <2>2. p.pos + Size(w) <= Size(s) \/ p.pos + Size(w) = Size(s) + 1
    BY <1>0, <1>3, <2>1
  <2>3. CASE p.pos + Size(w) <= Size(s)
    BY <1>1, <1>5, <1>7, <2>1, <2>3
  <2>4. CASE p.pos + Size(w) = Size(s) + 1
    BY <1>1, <1>6, <2>1, <2>4
  <2> QED BY <2>2, <2>3, <2>4
<1> QED BY <1>1, <1>2, <1>5, <1>7

LEMMA NilFacts == Nil \in Texts /\ Size(Nil) = 3
<1>1. "N" \in Symbols /\ "I" \in Symbols /\ "L" \in Symbols
  BY DEF Symbols, Letters
<1>2. <<"N", "I", "L">> \in Seq(Symbols)
  BY <1>1
<1>3. Len(<<"N", "I", "L">>) = 3
  OBVIOUS
<1> QED BY <1>2, <1>3 DEF Nil, Texts, Size

LEMMA ExpectNilFacts ==
  ASSUME NEW s \in Texts, NEW p, At(s, p), p.st = "Ok"
  PROVE  /\ Sound(s, p, ExpectNil(p)) /\ Hungry(s, p, ExpectNil(p)) /\ At(s, ExpectNil(p))
         /\ ExpectNil(p).st = "Ok" => MatchesKeyword(p, Nil)
         /\ MatchesKeyword(p, Nil) => ExpectNil(p) = Advance(p, 3)
<1>0. Size(s) \in Nat /\ p.pos \in Nat /\ p.pos <= Size(s) + 1 /\ 1 <= p.pos
  BY DEF Texts, Size, At
<1>1. CASE MatchesKeyword(p, Nil)
  <2>1. p.pos + 3 <= Size(s) + 1 /\ ~IsStrictPrefix(Remaining(p), Nil)
    BY <1>1, NilFacts, KeywordFacts
  <2>2. ExpectNil(p) = Advance(p, 3)
    BY <1>1, <2>1 DEF ExpectNil
  <2>3. At(s, Advance(p, 3)) /\ Moves(s, p, Advance(p, 3)) /\ Advance(p, 3).st = "Ok"
    BY <1>0, <2>1, AdvanceMoves
  <2>4. p.pos # Size(s) + 1
    BY <1>0, <2>1
  <2> QED BY <1>1, <2>2, <2>3, <2>4 DEF Sound, Turned, Hungry
<1>2. CASE ~MatchesKeyword(p, Nil) /\ IsStrictPrefix(Remaining(p), Nil)
  <2>1. ExpectNil(p) = Fail(p, "Incomplete")
    BY <1>2 DEF ExpectNil
  <2>2. ExpectNil(p).st = "Incomplete"
    BY <2>1, Waits
  <2> QED BY <1>2, <2>1, <2>2, Waits
<1>3. CASE ~MatchesKeyword(p, Nil) /\ ~IsStrictPrefix(Remaining(p), Nil)
  <2>1. ExpectNil(p) = Fail(p, "Malformed")
    BY <1>3 DEF ExpectNil
  <2>2. p.pos # Size(s) + 1
    <3>1. ~(p.pos + 3 > Size(s) + 1 /\ Spelt(s, p.pos, Nil, Size(s) - p.pos + 1))
      BY <1>3, NilFacts, WordFacts
    <3>2. p.pos = Size(s) + 1 => Spelt(s, p.pos, Nil, Size(s) - p.pos + 1)
      BY <1>0 DEF Spelt
    <3> QED BY <1>0, <3>1, <3>2
  <2>3. "Malformed" \notin Going
    BY DEF Going
  <2>4. ExpectNil(p).st = "Malformed"
    BY <2>1, <2>3, Refuses
  <2> QED BY <1>3, <2>1, <2>2, <2>3, <2>4, Refuses
<1> QED BY <1>1, <1>2, <1>3

LEMMA YieldSame ==
  ASSUME NEW a, NEW b, IsParser(a), IsParser(b), Same(a, b), NEW v
  PROVE  Same(Yield(a, v), Yield(b, v)) /\ Yield(a, v).st = a.st
<1>1. /\ Yield(a, v).st = a.st /\ Yield(a, v).pos = a.pos
      /\ Yield(a, v).itemsLeft = a.itemsLeft /\ Yield(a, v).val = v
  BY YieldFacts
<1>2. /\ Yield(b, v).st = b.st /\ Yield(b, v).pos = b.pos
      /\ Yield(b, v).itemsLeft = b.itemsLeft /\ Yield(b, v).val = v
  BY YieldFacts
<1> QED BY <1>1, <1>2 DEF Same

LEMMA AdvanceSame ==
  ASSUME NEW s, NEW t, NEW p, NEW q, Pair(s, t, p, q), NEW n
  PROVE  Same(Advance(p, n), Advance(q, n)) /\ Advance(p, n).st = "Ok"
<1>1. IsParser(p) /\ IsParser(q)
  BY DEF Pair, At
<1>2. /\ Advance(p, n).st = p.st /\ Advance(p, n).pos = p.pos + n
      /\ Advance(p, n).itemsLeft = p.itemsLeft /\ Advance(p, n).val = p.val
  BY <1>1, AdvanceFacts
<1>3. /\ Advance(q, n).st = q.st /\ Advance(q, n).pos = q.pos + n
      /\ Advance(q, n).itemsLeft = q.itemsLeft /\ Advance(q, n).val = q.val
  BY <1>1, AdvanceFacts
<1> QED BY <1>2, <1>3 DEF Pair, Same

LEMMA ExpectNilRel ==
  ASSUME NEW s, NEW t, NEW p, NEW q, Pair(s, t, p, q)
  PROVE  Firm(s, ExpectNil(p), ExpectNil(q))
<1>0. /\ Size(s) \in Nat /\ Size(t) \in Nat /\ Size(s) <= Size(t) /\ s \in Texts /\ t \in Texts /\ Cut(s, t)
      /\ At(s, p) /\ At(t, q) /\ IsParser(p) /\ IsParser(q) /\ p.st = "Ok" /\ q.st = "Ok" /\ Same(p, q)
      /\ p.pos = q.pos /\ p.pos \in Nat /\ 1 <= p.pos
  BY DEF Pair, Cut, At, Same, Texts, Size
<1>1. CASE MatchesKeyword(p, Nil) /\ MatchesKeyword(q, Nil)
  <2>1. ExpectNil(p) = Advance(p, 3) /\ ExpectNil(q) = Advance(q, 3)
    BY <1>0, <1>1, ExpectNilFacts
  <2> QED BY <2>1, AdvanceSame, SameIsStrong, StrongIsFirm
<1>2. CASE MatchesKeyword(p, Nil) /\ ~MatchesKeyword(q, Nil)
  <2>1. IsPrefix(Nil, Remaining(p)) /\ p.pos + 3 <= Size(s) + 1
    BY <1>0, <1>2, NilFacts, KeywordFacts
  <2>2. p.pos + 3 = Size(s) + 1
    <3>1. ~(p.pos + 3 <= Size(s))
      BY <1>2, NilFacts, KeywordRel
    <3> QED BY <1>0, <2>1, <3>1
  <2>3. ~IsStrictPrefix(Remaining(q), Nil)
    BY <2>1, NilFacts, WordRel
  <2>4. ExpectNil(q) = Fail(q, "Malformed")
    BY <1>2, <2>3 DEF ExpectNil
  <2>5. ExpectNil(q).st = "Malformed"
    BY <1>0, <2>4, FailFacts
  <2>6. ExpectNil(p) = Advance(p, 3)
    BY <1>0, <1>2, ExpectNilFacts
  <2>7. ExpectNil(p).st = "Ok" /\ ExpectNil(p).pos = Size(s) + 1
    BY <1>0, <2>2, <2>6, AdvanceFacts
  <2> QED BY <2>5, <2>7 DEF Firm, Loose, Wrong, Ahead, Going
<1>3. CASE ~MatchesKeyword(p, Nil) /\ IsStrictPrefix(Remaining(p), Nil)
  <2>1. ExpectNil(p) = Fail(p, "Incomplete")
    BY <1>3 DEF ExpectNil
  <2>2. p.pos + 3 > Size(s) + 1
    BY <1>0, <1>3, NilFacts, WordFacts
  <2>3. ExpectNil(q).st = "Ok" => ExpectNil(q) = Advance(q, 3)
    BY <1>0, ExpectNilFacts
  <2>4. ExpectNil(q).st = "Ok" => ExpectNil(q).pos = q.pos + 3
    BY <1>0, <2>3, AdvanceFacts
  <2>5. ExpectNil(q).st # "More"
    BY <1>0, ExpectNilFacts DEF Sound
  <2>6. Ahead(s, ExpectNil(q))
    BY <1>0, <2>2, <2>4, <2>5 DEF Ahead, Going
  <2> QED BY <1>0, <2>1, <2>6, WaitsAhead, StrongIsFirm
<1>4. CASE ~MatchesKeyword(p, Nil) /\ ~IsStrictPrefix(Remaining(p), Nil)
  <2>1. ~MatchesKeyword(q, Nil) /\ ~IsStrictPrefix(Remaining(q), Nil)
    BY <1>4, NilFacts, KeywordRel, WordRel
  <2>2. ExpectNil(p) = Fail(p, "Malformed") /\ ExpectNil(q) = Fail(q, "Malformed")
    BY <1>4, <2>1 DEF ExpectNil
  <2>3. Strong(s, Fail(p, "Malformed"), Fail(q, "Malformed"))
    BY <1>0, FailRel DEF Going
  <2> QED BY <2>2, <2>3, StrongIsFirm
<1> QED BY <1>1, <1>2, <1>3, <1>4

-------------------------------------------------------------------------------
(* Literals. *)

LEMMA LiteralOctetsFacts ==
  ASSUME NEW s \in Texts, NEW p, At(s, p), p.st = "Ok", NEW n \in Nat
  PROVE  /\ Moves(s, p, LiteralOctets(p, n)) /\ LiteralOctets(p, n).st # "More"
         /\ At(s, LiteralOctets(p, n))
         /\ LiteralOctets(p, n).st = "Ok" => LiteralOctets(p, n).pos = p.pos + n
<1>0. Size(s) \in Nat /\ p.pos \in Nat /\ p.input = s /\ Size(s) = Len(p.input)
  BY DEF Texts, Size, At
<1>1. CASE n > MaxLiteral
  <2>1. LiteralOctets(p, n) = Fail(p, "LiteralTooLarge") /\ "LiteralTooLarge" \notin Going
    BY <1>1 DEF LiteralOctets, Going
  <2> QED BY <2>1, Refuses
<1>2. CASE ~(n > MaxLiteral) /\ p.pos + n > Size(s) + 1
  <2>1. LiteralOctets(p, n) = Fail(p, "Incomplete")
    BY <1>0, <1>2 DEF LiteralOctets
  <2>2. Sound(s, p, LiteralOctets(p, n)) /\ At(s, LiteralOctets(p, n)) /\ LiteralOctets(p, n).st = "Incomplete"
    BY <2>1, Waits
  <2> QED BY <2>2 DEF Sound, Turned
<1>3. CASE ~(n > MaxLiteral) /\ ~(p.pos + n > Size(s) + 1)
  <2>1. LiteralOctets(p, n) = Yield(Advance(p, n), SubSeq(s, p.pos, p.pos + n - 1))
    BY <1>0, <1>3 DEF LiteralOctets
  <2>2. At(s, Advance(p, n)) /\ Advance(p, n).st = "Ok" /\ Advance(p, n).pos = p.pos + n
    BY <1>0, <1>3, AdvanceMoves
  <2>3. /\ At(s, LiteralOctets(p, n)) /\ LiteralOctets(p, n).st = "Ok" /\ LiteralOctets(p, n).pos = p.pos + n
    BY <2>1, <2>2, YieldAt, YieldFacts DEF At
  <2> QED BY <1>0, <2>3 DEF Moves
<1> QED BY <1>1, <1>2, <1>3

LEMMA LiteralOctetsRel ==
  ASSUME NEW s, NEW t, NEW p, NEW q, Pair(s, t, p, q), NEW n \in Nat
  PROVE  Strong(s, LiteralOctets(p, n), LiteralOctets(q, n))
<1>0. /\ Size(s) \in Nat /\ Size(t) \in Nat /\ Size(s) <= Size(t) /\ s \in Texts /\ t \in Texts /\ Cut(s, t)
      /\ At(s, p) /\ At(t, q) /\ IsParser(p) /\ IsParser(q) /\ p.st = "Ok" /\ q.st = "Ok" /\ Same(p, q)
      /\ p.pos = q.pos /\ p.pos \in Nat /\ 1 <= p.pos /\ p.input = s /\ q.input = t
      /\ Size(s) = Len(p.input) /\ Size(t) = Len(q.input)
  BY DEF Pair, Cut, At, Same, Texts, Size
<1>1. CASE n > MaxLiteral
  <2>1. LiteralOctets(p, n) = Fail(p, "LiteralTooLarge") /\ LiteralOctets(q, n) = Fail(q, "LiteralTooLarge")
    BY <1>1 DEF LiteralOctets
  <2> QED BY <1>0, <2>1, FailRel DEF Going
<1>2. CASE ~(n > MaxLiteral) /\ p.pos + n > Size(s) + 1
  <2>1. LiteralOctets(p, n) = Fail(p, "Incomplete")
    BY <1>0, <1>2 DEF LiteralOctets
  <2>2. LiteralOctets(q, n).st # "More" /\ (LiteralOctets(q, n).st = "Ok" => LiteralOctets(q, n).pos = q.pos + n)
    BY <1>0, LiteralOctetsFacts
  <2>3. Ahead(s, LiteralOctets(q, n))
    BY <1>0, <1>2, <2>2 DEF Ahead, Going
  <2> QED BY <1>0, <2>1, <2>3, WaitsAhead
<1>3. CASE ~(n > MaxLiteral) /\ ~(p.pos + n > Size(s) + 1)
  <2> DEFINE v == SubSeq(s, p.pos, p.pos + n - 1)
             w == SubSeq(t, p.pos, p.pos + n - 1)
  <2>1. LiteralOctets(p, n) = Yield(Advance(p, n), v) /\ LiteralOctets(q, n) = Yield(Advance(q, n), w)
    <3>1. ~(q.pos + n > Size(t) + 1)
      BY <1>0, <1>3
    <3> QED BY <1>0, <1>3, <3>1 DEF LiteralOctets
  <2>2. v = w
    <3>1. PICK j : j = p.pos + n - 1
      OBVIOUS
    <3>2. j \in Nat /\ j <= Size(s)
      BY <1>0, <1>3, <3>1
    <3>3. PICK i : i = p.pos
      OBVIOUS
    <3>4. Cut(s, t) /\ i \in Nat /\ 1 <= i
      BY <1>0, <3>3
    <3>5. SubSeq(s, i, j) = SubSeq(t, i, j)
      BY <3>2, <3>4, TakenRel
    <3> QED BY <3>1, <3>3, <3>5
  <2> HIDE DEF v, w
  <2>3. Same(Advance(p, n), Advance(q, n)) /\ Advance(p, n).st = "Ok"
    BY AdvanceSame
  <2>4. IsParser(Advance(p, n)) /\ IsParser(Advance(q, n))
    BY <1>0, AdvanceFacts
  <2>5. Same(Yield(Advance(p, n), v), Yield(Advance(q, n), w)) /\ Yield(Advance(p, n), v).st = "Ok"
    BY <2>2, <2>3, <2>4, YieldSame
  <2> QED BY <2>1, <2>5, SameIsStrong
<1> QED BY <1>1, <1>2, <1>3

LEMMA PairNext ==
  ASSUME NEW s, NEW t, NEW a, NEW b, Cut(s, t), At(s, a), At(t, b), a.st = "Ok", Same(a, b)
  PROVE  Pair(s, t, a, b)
BY DEF Pair

LEMMA PairFacts ==
  ASSUME NEW s, NEW t, NEW p, NEW q, Pair(s, t, p, q)
  PROVE  /\ Size(s) \in Nat /\ Size(t) \in Nat /\ Size(s) <= Size(t) /\ s \in Texts /\ t \in Texts /\ Cut(s, t)
         /\ At(s, p) /\ At(t, q) /\ IsParser(p) /\ IsParser(q) /\ p.st = "Ok" /\ q.st = "Ok" /\ Same(p, q)
         /\ p.pos = q.pos /\ p.pos \in Nat /\ 1 <= p.pos /\ p.val = q.val /\ p.itemsLeft = q.itemsLeft
         /\ p.itemsLeft \in Nat /\ p.pos <= Size(s) + 1
BY DEF Pair, Cut, At, Same

\* A production that waits without bytes.
Eats(s, p, a) == Sound(s, p, a) /\ Hungry(s, p, a) /\ At(s, a)

LEMMA ChainEats ==
  ASSUME NEW s, Size(s) \in Nat, NEW p, NEW a, NEW c, At(s, p), Eats(s, p, a),
         a.st = "Ok" => Moves(s, a, c) /\ c.st # "More"
  PROVE  Eats(s, p, Chain(a, c))
<1>1. Moves(s, p, Chain(a, c)) /\ Chain(a, c).st # "More"
  BY ChainMoves DEF Eats, Sound, Turned, Chain
<1>2. Hungry(s, p, Chain(a, c))
  BY ChainHungry DEF Eats
<1>3. At(s, Chain(a, c))
  BY DEF Eats, Moves, Chain
<1> QED BY <1>1, <1>2, <1>3, HungryTurned DEF Eats, Sound

LEMMA EatsFacts ==
  ASSUME NEW s, NEW p, NEW a, Eats(s, p, a)
  PROVE  Sound(s, p, a) /\ Turned(s, p, a) /\ Moves(s, p, a) /\ Hungry(s, p, a) /\ At(s, a) /\ a.st # "More" /\ IsParser(a)
BY DEF Eats, Sound, Turned, At

LEMMA ParseLiteralFacts ==
  ASSUME NEW s \in Texts, NEW p, At(s, p), p.st = "Ok"
  PROVE  Eats(s, p, ParseLiteral(p))
<1> DEFINE k == ConsumeByte(p, "{")
           a == Chain(k, ParseNumber(k))
           m == ConsumeByte(a, "}")
           b == Chain(m, ConsumeCrlf(m))
           c == Chain(b, LiteralOctets(b, a.val))
<1>0. Size(s) \in Nat
  BY DEF Texts, Size
<1>1. ParseLiteral(p) = Chain(a, c)
  BY DEF ParseLiteral, Then, Chain
<1>2. Eats(s, p, k)
  BY ConsumeByteFacts DEF Eats
<1>3. k.st = "Ok" => Eats(s, k, ParseNumber(k))
  BY <1>2, EatsFacts, ParseNumberFacts DEF Eats
<1>4. Eats(s, p, a)
  BY <1>0, <1>2, <1>3, EatsFacts, ChainEats
<1>5. a.st = "Ok" => a.val \in Nat
  BY <1>2, EatsFacts, ParseNumberFacts DEF Chain
<1> HIDE DEF a
<1>6. ASSUME a.st = "Ok" PROVE Eats(s, a, c)
  <2>1. At(s, a)
    BY <1>4, EatsFacts
  <2>2. Eats(s, a, m)
    BY <1>6, <2>1, ConsumeByteFacts DEF Eats
  <2> HIDE DEF m
  <2>3. m.st = "Ok" => Eats(s, m, ConsumeCrlf(m))
    BY <2>2, EatsFacts, ConsumeCrlfFacts DEF Eats
  <2>4. Eats(s, a, b)
    BY <1>0, <2>1, <2>2, <2>3, EatsFacts, ChainEats
  <2> HIDE DEF b
  <2>5. b.st = "Ok" => Moves(s, b, LiteralOctets(b, a.val)) /\ LiteralOctets(b, a.val).st # "More"
    BY <1>5, <1>6, <2>4, EatsFacts, LiteralOctetsFacts
  <2> QED BY <1>0, <2>1, <2>4, <2>5, ChainEats
<1> HIDE DEF c
<1>7. Eats(s, p, Chain(a, c))
  BY <1>0, <1>4, <1>6, EatsFacts, ChainEats
<1> QED BY <1>1, <1>7

LEMMA ParseLiteralRel ==
  ASSUME NEW s, NEW t, NEW p, NEW q, Pair(s, t, p, q)
  PROVE  Strong(s, ParseLiteral(p), ParseLiteral(q))
<1> DEFINE K(x) == ConsumeByte(x, "{")
           A(x) == Chain(K(x), ParseNumber(K(x)))
           M(x) == ConsumeByte(x, "}")
           B(x) == Chain(M(x), ConsumeCrlf(M(x)))
           C(x) == Chain(B(x), LiteralOctets(B(x), x.val))
<1>0. /\ Size(s) \in Nat /\ Size(t) \in Nat /\ s \in Texts /\ t \in Texts /\ Cut(s, t)
      /\ At(s, p) /\ At(t, q) /\ p.st = "Ok" /\ q.st = "Ok"
  BY PairFacts
<1>1. ParseLiteral(p) = Chain(A(p), C(A(p))) /\ ParseLiteral(q) = Chain(A(q), C(A(q)))
  BY DEF ParseLiteral, Then, Chain
<1>2. ASSUME NEW x \in Texts, NEW y, At(x, y), y.st = "Ok"
      PROVE  /\ Eats(x, y, K(y)) /\ Eats(x, y, A(y)) /\ (K(y).st = "Ok" => Eats(x, K(y), ParseNumber(K(y))))
             /\ (A(y).st = "Ok" => A(y).val \in Nat)
  <2>0. Size(x) \in Nat
    BY DEF Texts, Size
  <2>1. Eats(x, y, K(y))
    BY <1>2, ConsumeByteFacts DEF Eats
  <2>2. K(y).st = "Ok" => Eats(x, K(y), ParseNumber(K(y)))
    BY <2>1, EatsFacts, ParseNumberFacts DEF Eats
  <2>3. Eats(x, y, A(y))
    BY <1>2, <2>0, <2>1, <2>2, EatsFacts, ChainEats
  <2>4. A(y).st = "Ok" => A(y).val \in Nat
    BY <2>1, EatsFacts, ParseNumberFacts DEF Chain
  <2> QED BY <2>1, <2>2, <2>3, <2>4
<1>3. ASSUME NEW x \in Texts, NEW y, At(x, y), y.st = "Ok", y.val \in Nat
      PROVE  /\ Eats(x, y, C(y)) /\ Eats(x, y, B(y)) /\ Eats(x, y, M(y))
             /\ (M(y).st = "Ok" => Eats(x, M(y), ConsumeCrlf(M(y))))
             /\ (B(y).st = "Ok" => Moves(x, B(y), LiteralOctets(B(y), y.val)) /\ LiteralOctets(B(y), y.val).st # "More")
  <2>0. Size(x) \in Nat
    BY DEF Texts, Size
  <2>1. Eats(x, y, M(y))
    BY <1>3, ConsumeByteFacts DEF Eats
  <2>2. M(y).st = "Ok" => Eats(x, M(y), ConsumeCrlf(M(y)))
    BY <2>1, EatsFacts, ConsumeCrlfFacts DEF Eats
  <2>3. Eats(x, y, B(y))
    BY <1>3, <2>0, <2>1, <2>2, EatsFacts, ChainEats
  <2>4. B(y).st = "Ok" => Moves(x, B(y), LiteralOctets(B(y), y.val)) /\ LiteralOctets(B(y), y.val).st # "More"
    BY <1>3, <2>3, EatsFacts, LiteralOctetsFacts
  <2>5. Eats(x, y, C(y))
    BY <1>3, <2>0, <2>3, <2>4, ChainEats
  <2> QED BY <2>1, <2>2, <2>3, <2>4, <2>5
<1>4. Firm(s, A(p), A(q))
  <2>1. Strong(s, K(p), K(q))
    BY ConsumeByteRel
  <2>2. Eats(s, p, K(p)) /\ Eats(t, q, K(q)) /\ (K(q).st = "Ok" => Eats(t, K(q), ParseNumber(K(q))))
    BY <1>0, <1>2
  <2> HIDE DEF K
  <2>3. K(p).st = "Ok" /\ Same(K(p), K(q)) => Firm(s, ParseNumber(K(p)), ParseNumber(K(q)))
    BY <1>0, <2>2, EatsFacts, PairNext, ParseNumberRel
  <2> QED BY <1>0, <2>1, <2>2, <2>3, EatsFacts, ChainFirm
<1>5. /\ Eats(s, p, A(p)) /\ Eats(t, q, A(q))
      /\ (A(p).st = "Ok" => A(p).val \in Nat) /\ (A(q).st = "Ok" => A(q).val \in Nat)
  BY <1>0, <1>2
<1> HIDE DEF A
<1>6. ASSUME A(p).st = "Ok", Same(A(p), A(q)) PROVE Strong(s, C(A(p)), C(A(q)))
  <2> DEFINE x == A(p)
             y == A(q)
  <2>1. Pair(s, t, x, y) /\ x.val = y.val /\ x.val \in Nat
    BY <1>0, <1>5, <1>6, EatsFacts, PairNext DEF Same
  <2>2. At(s, x) /\ At(t, y) /\ x.st = "Ok" /\ y.st = "Ok" /\ y.val \in Nat
    BY <2>1, PairFacts
  <2>3. Eats(s, x, B(x)) /\ Eats(s, x, M(x))
    BY <1>0, <1>3, <2>1, <2>2
  <2>4. /\ Eats(t, y, B(y)) /\ Eats(t, y, M(y)) /\ (M(y).st = "Ok" => Eats(t, M(y), ConsumeCrlf(M(y))))
        /\ (B(y).st = "Ok" => Moves(t, B(y), LiteralOctets(B(y), y.val)))
    BY <1>0, <1>3, <2>1, <2>2
  <2>5. Strong(s, M(x), M(y))
    BY <2>1, ConsumeByteRel
  <2> HIDE DEF M, x, y
  <2>6. M(x).st = "Ok" /\ Same(M(x), M(y)) => Strong(s, ConsumeCrlf(M(x)), ConsumeCrlf(M(y)))
    BY <1>0, <2>3, <2>4, EatsFacts, PairNext, ConsumeCrlfRel
  <2>7. Strong(s, B(x), B(y))
    BY <1>0, <2>3, <2>4, <2>5, <2>6, EatsFacts, ChainStrong
  <2> HIDE DEF B
  <2>8. B(x).st = "Ok" /\ Same(B(x), B(y)) => Strong(s, LiteralOctets(B(x), x.val), LiteralOctets(B(y), y.val))
    BY <1>0, <2>1, <2>3, <2>4, EatsFacts, PairNext, LiteralOctetsRel
  <2>9. Strong(s, C(x), C(y))
    BY <1>0, <2>3, <2>4, <2>7, <2>8, EatsFacts, ChainStrong
  <2> QED BY <2>9 DEF x, y
<1>7. A(p).st = "Ok" => Hungry(s, A(p), C(A(p)))
  BY <1>0, <1>3, <1>5, EatsFacts
<1>8. A(q).st = "Ok" => Moves(t, A(q), C(A(q)))
  BY <1>0, <1>3, <1>5, EatsFacts
<1>9. Loose(s, A(p), A(q)) /\ At(s, A(p)) /\ At(t, A(q)) /\ A(p).st # "More" /\ A(q).st # "More"
  BY <1>4, <1>5, EatsFacts DEF Firm
<1> HIDE DEF C
<1> QED BY <1>0, <1>1, <1>6, <1>7, <1>8, <1>9, ChainCloses

-------------------------------------------------------------------------------
(* Flags. *)

LEMMA MovesAhead ==
  ASSUME NEW s, NEW t, Size(s) \in Nat, NEW q, q.pos = Size(s) + 1, NEW b, Moves(t, q, b)
  PROVE  Ahead(s, b)
BY DEF Moves, At, Ahead

LEMMA FlagFacts ==
  ASSUME NEW s \in Texts, NEW p, At(s, p), p.st = "Ok"
  PROVE  /\ Eats(s, p, ParseFlagOrAtom(p))
         /\ Moves(s, TryConsumeByte(p, "BS"), ParseFlagOrAtom(p))
         /\ ParseFlagOrAtom(p).itemsLeft = p.itemsLeft
<1> DEFINE x == TryConsumeByte(p, "BS")
           z == TryConsumeByte(x, "*")
           r == ScanTo(x, AtomSpecials)
           a == ParseFlagOrAtom(p)
<1>0. Size(s) \in Nat /\ p.pos \in Nat /\ p.pos <= Size(s) + 1 /\ 1 <= p.pos
  BY DEF Texts, Size, At
<1>1. At(s, x) /\ x.st = "Ok" /\ x.pos >= p.pos /\ x.itemsLeft = p.itemsLeft
  BY TryConsumeFacts
<1>2. a = IF x.pos > p.pos /\ z.pos > x.pos THEN FromUtf8(z, Taken(z, p.pos))
          ELSE IF r.pos = p.pos /\ ~IsEof(r) THEN Fail(r, "Malformed") ELSE ScannedText(r, p.pos)
  BY DEF ParseFlagOrAtom
<1> HIDE DEF x, a
<1>3. At(s, z) /\ z.st = "Ok" /\ z.pos >= x.pos /\ z.itemsLeft = p.itemsLeft
  BY <1>1, TryConsumeFacts
<1>4. At(s, r) /\ r.st = "Ok" /\ r.pos \in x.pos .. Size(s) + 1 /\ r.itemsLeft = p.itemsLeft
  BY <1>1, ScanFacts
<1> HIDE DEF z, r
<1>5. CASE x.pos > p.pos /\ z.pos > x.pos
  <2>1. a = FromUtf8(z, Taken(z, p.pos))
    BY <1>2, <1>5
  <2>2. At(s, a) /\ a.st \in {"Ok", "Other"} /\ a.pos = z.pos /\ a.itemsLeft = z.itemsLeft
    BY <1>3, <2>1, FromUtf8Facts
  <2>3. x.pos \in Nat /\ z.pos \in Nat /\ p.pos # Size(s) + 1 /\ p.pos <= a.pos /\ x.pos <= a.pos
    BY <1>0, <1>1, <1>3, <1>5, <2>2 DEF At
  <2> QED BY <1>3, <2>2, <2>3 DEF Eats, Sound, Turned, Moves, Hungry, Going, a, x
<1>6. CASE ~(x.pos > p.pos /\ z.pos > x.pos) /\ r.pos = p.pos /\ ~IsEof(r)
  <2>1. a = Fail(r, "Malformed") /\ "Malformed" \notin Going
    BY <1>2, <1>6 DEF Going
  <2>2. p.pos # Size(s) + 1
    BY <1>0, <1>4, <1>6, PeekFacts
  <2>3. a.itemsLeft = p.itemsLeft
    BY <1>4, <2>1, FailFacts DEF At
  <2>4. Sound(s, p, a) /\ Hungry(s, p, a) /\ At(s, a) /\ Moves(s, x, a)
    BY <1>4, <2>1, <2>2, Refuses
  <2> QED BY <2>3, <2>4 DEF Eats, a, x
<1>7. CASE ~(x.pos > p.pos /\ z.pos > x.pos) /\ ~(r.pos = p.pos /\ ~IsEof(r))
  <2>1. a = ScannedText(r, p.pos)
    BY <1>2, <1>7
  <2>2. p.pos <= r.pos /\ x.pos <= r.pos
    BY <1>0, <1>1, <1>4 DEF At
  <2>3. Sound(s, p, a) /\ Hungry(s, p, a) /\ At(s, a) /\ a.itemsLeft = p.itemsLeft
    BY <1>0, <1>4, <2>1, <2>2, ScannedFacts
  <2>4. Sound(s, x, a)
    BY <1>0, <1>1, <1>4, <2>1, <2>2, ScannedFacts
  <2> QED BY <2>3, <2>4 DEF Eats, Sound, Turned, a, x
<1> QED BY <1>5, <1>6, <1>7

LEMMA FlagRel ==
  ASSUME NEW s, NEW t, NEW p, NEW q, Pair(s, t, p, q)
  PROVE  Strong(s, ParseFlagOrAtom(p), ParseFlagOrAtom(q))
<1> DEFINE X(y) == TryConsumeByte(y, "BS")
           Z(y) == TryConsumeByte(X(y), "*")
           R(y) == ScanTo(X(y), AtomSpecials)
           a == ParseFlagOrAtom(p)
           b == ParseFlagOrAtom(q)
<1>0. /\ Size(s) \in Nat /\ Size(t) \in Nat /\ s \in Texts /\ t \in Texts /\ Cut(s, t)
      /\ At(s, p) /\ At(t, q) /\ IsParser(p) /\ IsParser(q) /\ p.st = "Ok" /\ q.st = "Ok" /\ Same(p, q)
      /\ p.pos = q.pos /\ p.pos \in Nat /\ 1 <= p.pos
  BY PairFacts
<1>1. /\ At(s, X(p)) /\ X(p).st = "Ok" /\ X(p).pos >= p.pos /\ IsParser(X(p))
      /\ At(t, X(q)) /\ X(q).st = "Ok" /\ X(q).pos >= p.pos /\ IsParser(X(q))
  BY <1>0, TryConsumeFacts DEF At
<1>2. a = IF X(p).pos > p.pos /\ Z(p).pos > X(p).pos THEN FromUtf8(Z(p), Taken(Z(p), p.pos))
          ELSE IF R(p).pos = p.pos /\ ~IsEof(R(p)) THEN Fail(R(p), "Malformed") ELSE ScannedText(R(p), p.pos)
  BY DEF ParseFlagOrAtom
<1>3. b = IF X(q).pos > p.pos /\ Z(q).pos > X(q).pos THEN FromUtf8(Z(q), Taken(Z(q), p.pos))
          ELSE IF R(q).pos = p.pos /\ ~IsEof(R(q)) THEN Fail(R(q), "Malformed") ELSE ScannedText(R(q), p.pos)
  BY <1>0 DEF ParseFlagOrAtom
<1>4. Moves(t, q, b) /\ Moves(t, X(q), b) /\ Eats(s, p, a)
  BY <1>0, FlagFacts DEF Eats, Sound, Turned
<1>5. ~IsEof(p) => Pair(s, t, X(p), X(q))
  BY <1>0, <1>1, TryConsumeRel, PairNext
<1> HIDE DEF a, b, X
<1>6. CASE IsEof(p)
  <2>1. a.st = "Incomplete" /\ q.pos = Size(s) + 1
    BY <1>0, <1>4, <1>6, PeekFacts DEF Eats, Hungry
  <2>2. Ahead(s, b)
    BY <1>0, <1>4, <2>1, MovesAhead
  <2> QED BY <2>1, <2>2 DEF Strong, Loose, Wrong, Going, a, b
<1>7. CASE ~IsEof(p) /\ IsEof(X(p))
  <2>1. X(p).pos = Size(s) + 1 /\ X(q).pos = Size(s) + 1
    BY <1>0, <1>1, <1>5, <1>7, PeekFacts DEF Pair, Same
  <2>2. Z(p) = X(p)
    BY <1>0, <1>1, <1>7, PeekFacts DEF TryConsumeByte
  <2>3. At(s, R(p)) /\ R(p).pos \in X(p).pos .. Size(s) + 1
    BY <1>0, <1>1, ScanFacts
  <2>4. IsEof(R(p))
    BY <1>0, <2>1, <2>3, PeekFacts
  <2>5. a = Fail(R(p), "Incomplete")
    BY <1>0, <1>1, <1>2, <2>2, <2>4 DEF ScannedText, At
  <2>6. Ahead(s, b)
    BY <1>0, <1>4, <2>1, MovesAhead
  <2> QED BY <2>3, <2>5, <2>6, WaitsAhead DEF a, b, At
<1>8. CASE ~IsEof(p) /\ ~IsEof(X(p))
  <2>1. Pair(s, t, X(p), X(q)) /\ X(q).pos = X(p).pos
    BY <1>5, <1>8 DEF Pair, Same
  <2>2. Same(Z(p), Z(q)) /\ Z(p).pos = Z(q).pos
    BY <1>8, <2>1, TryConsumeRel DEF Same
  <2>3. /\ At(s, Z(p)) /\ At(t, Z(q)) /\ Z(p).st = "Ok"
        /\ At(s, R(p)) /\ At(t, R(q)) /\ IsParser(R(p)) /\ IsParser(R(q))
        /\ R(p).st = "Ok" /\ R(q).st = "Ok"
    BY <1>0, <1>1, TryConsumeFacts, ScanFacts DEF At
  <2>4. /\ R(p).pos <= Size(s) => R(q).pos = R(p).pos
        /\ R(p).pos = Size(s) + 1 => R(q).pos >= Size(s) + 1
    BY <2>1, ScanRel
  <2>5. Strong(s, ScannedText(R(p), p.pos), ScannedText(R(q), p.pos))
    BY <1>0, <2>1, ScannedRel
  <2>6. CASE X(p).pos > p.pos /\ Z(p).pos > X(p).pos
    <3>1. a = FromUtf8(Z(p), Taken(Z(p), p.pos)) /\ b = FromUtf8(Z(q), Taken(Z(q), p.pos))
      BY <1>2, <1>3, <2>1, <2>2, <2>6
    <3>2. Taken(Z(p), p.pos) = Taken(Z(q), p.pos)
      BY <1>0, <2>2, <2>3, TakenSame
    <3>3. Pair(s, t, Z(p), Z(q))
      BY <1>0, <2>2, <2>3, PairNext
    <3> QED BY <3>1, <3>2, <3>3, FromUtf8Rel DEF a, b
  <2>7. CASE ~(X(p).pos > p.pos /\ Z(p).pos > X(p).pos) /\ IsEof(R(p))
    <3>1. a = ScannedText(R(p), p.pos)
      BY <1>2, <2>7
    <3>2. R(q).pos >= Size(s) + 1 /\ a = Fail(R(p), "Incomplete")
      BY <1>0, <2>3, <2>4, <2>7, <3>1, PeekFacts DEF ScannedText
    <3>3. b = Fail(R(q), "Malformed") \/ b = ScannedText(R(q), p.pos)
      BY <1>3, <2>1, <2>2, <2>7
    <3>4. b.pos = R(q).pos
      BY <1>0, <2>3, <3>3, FailFacts, ScannedFacts DEF At
    <3>5. Ahead(s, b)
      BY <1>0, <2>3, <3>2, <3>4 DEF Ahead, At
    <3> QED BY <2>3, <3>2, <3>5, WaitsAhead DEF a, b
  <2>8. CASE ~(X(p).pos > p.pos /\ Z(p).pos > X(p).pos) /\ ~IsEof(R(p))
    <3>1. R(q).pos = R(p).pos
      BY <1>0, <2>3, <2>4, <2>8, PeekFacts
    <3>2. ~IsEof(R(q))
      BY <1>0, <2>3, <2>8, <3>1, PeekRel
    <3>3. CASE R(p).pos = p.pos
      <4>1. a = Fail(R(p), "Malformed") /\ b = Fail(R(q), "Malformed")
        BY <1>2, <1>3, <2>1, <2>2, <2>8, <3>1, <3>2, <3>3
      <4> QED BY <2>3, <4>1, FailRel DEF Going, a, b
    <3>4. CASE R(p).pos # p.pos
      <4>1. a = ScannedText(R(p), p.pos) /\ b = ScannedText(R(q), p.pos)
        BY <1>2, <1>3, <2>1, <2>2, <2>8, <3>1, <3>2, <3>4
      <4> QED BY <2>5, <4>1 DEF a, b
    <3> QED BY <3>3, <3>4
  <2> QED BY <2>6, <2>7, <2>8
<1> QED BY <1>6, <1>7, <1>8

-------------------------------------------------------------------------------
(* Items charged to the budget of the response. *)

LEMMA PushItemFacts ==
  ASSUME NEW s, NEW p, At(s, p), p.st = "Ok", NEW l, NEW v
  PROVE  /\ At(s, PushItem(p, l, v)) /\ PushItem(p, l, v).pos = p.pos /\ Moves(s, p, PushItem(p, l, v))
         /\ PushItem(p, l, v).st = IF p.itemsLeft = 0 THEN "TooManyItems" ELSE "Ok"
         /\ p.itemsLeft # 0 => /\ PushItem(p, l, v).itemsLeft = p.itemsLeft - 1
                               /\ PushItem(p, l, v).val = Append(l, v)
<1>0. IsParser(p) /\ p.itemsLeft \in Nat /\ p.pos \in Nat /\ p.input = s
  BY DEF At
<1>1. CASE p.itemsLeft = 0
  <2>1. PushItem(p, l, v) = Fail(p, "TooManyItems") /\ "TooManyItems" \notin Going
    BY <1>1 DEF PushItem, Going
  <2>2. Fail(p, "TooManyItems").pos = p.pos
    BY <1>0, FailFacts
  <2> QED BY <1>1, <2>1, <2>2, Refuses
<1>2. CASE p.itemsLeft # 0
  <2>1. PushItem(p, l, v) = [p EXCEPT !.itemsLeft = @ - 1, !.val = Append(l, v)]
    BY <1>2 DEF PushItem
  <2>2. /\ PushItem(p, l, v).pos = p.pos /\ PushItem(p, l, v).st = p.st /\ PushItem(p, l, v).input = p.input
        /\ PushItem(p, l, v).itemsLeft = p.itemsLeft - 1 /\ PushItem(p, l, v).val = Append(l, v)
        /\ IsParser(PushItem(p, l, v))
    BY <1>0, <2>1 DEF IsParser, Fields
  <2>3. p.itemsLeft - 1 \in Nat
    BY <1>0, <1>2
  <2>4. At(s, PushItem(p, l, v))
    BY <2>2, <2>3 DEF At
  <2> QED BY <1>0, <1>2, <2>2, <2>4 DEF Moves, Going
<1> QED BY <1>1, <1>2

LEMMA PushItemRel ==
  ASSUME NEW s, NEW t, NEW p, NEW q, Pair(s, t, p, q), NEW l, NEW v
  PROVE  Strong(s, PushItem(p, l, v), PushItem(q, l, v))
<1>0. /\ At(s, p) /\ At(t, q) /\ p.st = "Ok" /\ q.st = "Ok" /\ p.itemsLeft = q.itemsLeft /\ p.pos = q.pos
  BY PairFacts
<1>1. /\ PushItem(p, l, v).pos = p.pos
      /\ PushItem(p, l, v).st = IF p.itemsLeft = 0 THEN "TooManyItems" ELSE "Ok"
      /\ p.itemsLeft # 0 => /\ PushItem(p, l, v).itemsLeft = p.itemsLeft - 1
                            /\ PushItem(p, l, v).val = Append(l, v)
  BY <1>0, PushItemFacts
<1>2. /\ PushItem(q, l, v).pos = p.pos
      /\ PushItem(q, l, v).st = IF p.itemsLeft = 0 THEN "TooManyItems" ELSE "Ok"
      /\ p.itemsLeft # 0 => /\ PushItem(q, l, v).itemsLeft = p.itemsLeft - 1
                            /\ PushItem(q, l, v).val = Append(l, v)
  BY <1>0, PushItemFacts
<1> QED BY <1>1, <1>2 DEF Strong, Loose, Same, Wrong, Going

\* What stands after an item.
ItemEnd(r) ==
  CASE IsEof(r)       -> Fail(r, "Incomplete")
    [] Peek(r) = "SP" -> GoOn(Advance(r, 1))
    [] Peek(r) = ")"  -> Advance(r, 1)
    [] OTHER          -> Fail(r, "Malformed")

LEMMA GoOnAt ==
  ASSUME NEW s, NEW p, At(s, p)
  PROVE  At(s, GoOn(p)) /\ GoOn(p).pos = p.pos /\ GoOn(p).st = "More" /\ GoOn(p).val = p.val
         /\ GoOn(p).itemsLeft = p.itemsLeft
BY GoOnFacts DEF At

LEMMA GoOnSame ==
  ASSUME NEW a, NEW b, IsParser(a), IsParser(b), Same(a, b)
  PROVE  Same(GoOn(a), GoOn(b)) /\ GoOn(a).st = "More"
<1>1. /\ GoOn(a).st = "More" /\ GoOn(a).pos = a.pos /\ GoOn(a).itemsLeft = a.itemsLeft /\ GoOn(a).val = a.val
  BY GoOnFacts
<1>2. /\ GoOn(b).st = "More" /\ GoOn(b).pos = b.pos /\ GoOn(b).itemsLeft = b.itemsLeft /\ GoOn(b).val = b.val
  BY GoOnFacts
<1> QED BY <1>1, <1>2 DEF Same

LEMMA ItemEndFacts ==
  ASSUME NEW s, Size(s) \in Nat, NEW p, At(s, p), p.st = "Ok"
  PROVE  Turned(s, p, ItemEnd(p)) /\ Hungry(s, p, ItemEnd(p)) /\ Moves(s, p, ItemEnd(p))
<1>0. p.pos \in Nat
  BY DEF At
<1>1. CASE IsEof(p)
  <2>1. ItemEnd(p) = Fail(p, "Incomplete")
    BY <1>1, PeekFacts DEF ItemEnd
  <2> QED BY <2>1, Waits DEF Sound, Turned
<1>2. CASE ~IsEof(p) /\ Peek(p) \in {"SP", ")"}
  <2>1. At(s, Advance(p, 1)) /\ Advance(p, 1).pos = p.pos + 1 /\ Advance(p, 1).st = "Ok"
    BY <1>2, AdvanceOne
  <2>2. ItemEnd(p) = IF Peek(p) = "SP" THEN GoOn(Advance(p, 1)) ELSE Advance(p, 1)
    BY <1>2 DEF ItemEnd
  <2>3. At(s, ItemEnd(p)) /\ ItemEnd(p).pos = p.pos + 1 /\ ItemEnd(p).st \in Going
    BY <2>1, <2>2, GoOnAt DEF Going
  <2>4. p.pos # Size(s) + 1
    BY <1>2, PeekFacts
  <2> QED BY <1>0, <2>3, <2>4 DEF Turned, Moves, Hungry
<1>3. CASE ~IsEof(p) /\ Peek(p) \notin {"SP", ")"}
  <2>1. ItemEnd(p) = Fail(p, "Malformed") /\ "Malformed" \notin Going
    BY <1>3 DEF ItemEnd, Going
  <2>2. p.pos # Size(s) + 1
    BY <1>3, PeekFacts
  <2> QED BY <2>1, <2>2, Refuses DEF Sound, Turned
<1> QED BY <1>1, <1>2, <1>3

LEMMA ItemEndRel ==
  ASSUME NEW s, NEW t, NEW p, NEW q, Pair(s, t, p, q)
  PROVE  Strong(s, ItemEnd(p), ItemEnd(q))
<1>0. /\ Size(s) \in Nat /\ Size(t) \in Nat /\ Cut(s, t)
      /\ At(s, p) /\ At(t, q) /\ IsParser(p) /\ IsParser(q) /\ p.st = "Ok" /\ q.st = "Ok" /\ Same(p, q)
      /\ p.pos = q.pos
  BY PairFacts
<1>1. CASE IsEof(p)
  <2>1. ItemEnd(p) = Fail(p, "Incomplete") /\ q.pos = Size(s) + 1
    BY <1>0, <1>1, PeekFacts DEF ItemEnd
  <2>2. Ahead(s, ItemEnd(q))
    BY <1>0, <2>1, ItemEndFacts, MovesAhead
  <2> QED BY <1>0, <2>1, <2>2, WaitsAhead
<1>2. CASE ~IsEof(p)
  <2>1. ~IsEof(q) /\ Peek(q) = Peek(p)
    BY <1>0, <1>2, PeekRel
  <2>2. CASE Peek(p) \in {"SP", ")"}
    <3>1. /\ ItemEnd(p) = IF Peek(p) = "SP" THEN GoOn(Advance(p, 1)) ELSE Advance(p, 1)
          /\ ItemEnd(q) = IF Peek(p) = "SP" THEN GoOn(Advance(q, 1)) ELSE Advance(q, 1)
      BY <1>2, <2>1, <2>2 DEF ItemEnd
    <3>2. Same(Advance(p, 1), Advance(q, 1)) /\ Advance(p, 1).st = "Ok"
      BY AdvanceSame
    <3>3. IsParser(Advance(p, 1)) /\ IsParser(Advance(q, 1))
      BY <1>0, AdvanceFacts
    <3>4. Same(GoOn(Advance(p, 1)), GoOn(Advance(q, 1))) /\ GoOn(Advance(p, 1)).st = "More"
      BY <3>2, <3>3, GoOnSame
    <3> QED BY <3>1, <3>2, <3>4, SameIsStrong
  <2>3. CASE Peek(p) \notin {"SP", ")"}
    <3>1. ItemEnd(p) = Fail(p, "Malformed") /\ ItemEnd(q) = Fail(q, "Malformed")
      BY <1>2, <2>1, <2>3 DEF ItemEnd
    <3> QED BY <1>0, <3>1, FailRel DEF Going
  <2> QED BY <2>2, <2>3
<1> QED BY <1>1, <1>2

LEMMA ItemEndsIs ==
  ASSUME NEW a, NEW l
  PROVE  ItemEnds(a, l) = Chain(a, Chain(PushItem(a, l, a.val), ItemEnd(PushItem(a, l, a.val))))
BY DEF ItemEnds, Then, Chain, ItemEnd

LEMMA ItemEndsFacts ==
  ASSUME NEW s, Size(s) \in Nat, NEW p, At(s, p), NEW a, Eats(s, p, a), NEW l
  PROVE  Turned(s, p, ItemEnds(a, l)) /\ Hungry(s, p, ItemEnds(a, l))
<1> DEFINE b == PushItem(a, l, a.val)
           c == Chain(b, ItemEnd(b))
<1>1. At(s, a) /\ Moves(s, p, a) /\ a.st # "More" /\ Hungry(s, p, a)
  BY EatsFacts
<1>2. a.st = "Ok" => Moves(s, a, c)
  <2> SUFFICES ASSUME a.st = "Ok" PROVE Moves(s, a, c)
    OBVIOUS
  <2>1. At(s, b) /\ Moves(s, a, b)
    BY <1>1, PushItemFacts
  <2> HIDE DEF b
  <2>2. b.st = "Ok" => Moves(s, b, ItemEnd(b))
    BY <2>1, ItemEndFacts
  <2> QED BY <1>1, <2>1, <2>2, ChainMoves
<1>3. ItemEnds(a, l) = Chain(a, c)
  BY ItemEndsIs
<1> HIDE DEF c
<1>4. Moves(s, p, Chain(a, c))
  BY <1>1, <1>2, ChainMoves
<1>5. Hungry(s, p, Chain(a, c))
  BY <1>1, ChainHungry
<1> QED BY <1>3, <1>4, <1>5, HungryTurned

\* An item that is not taken back makes the list wait for what ends it.
LEMMA ItemEndsRel ==
  ASSUME NEW s, NEW t, Cut(s, t), NEW a, NEW b, At(s, a), At(t, b), a.st # "More", b.st # "More",
         Firm(s, a, b), NEW l
  PROVE  Strong(s, ItemEnds(a, l), ItemEnds(b, l))
<1> DEFINE x == PushItem(a, l, a.val)
           y == PushItem(b, l, b.val)
           c == Chain(x, ItemEnd(x))
           d == Chain(y, ItemEnd(y))
<1>0. Size(s) \in Nat /\ Size(t) \in Nat
  BY DEF Cut
<1>1. ItemEnds(a, l) = Chain(a, c) /\ ItemEnds(b, l) = Chain(b, d)
  BY ItemEndsIs
<1>2. a.st = "Ok" => At(s, x) /\ x.pos = a.pos /\ x.st = IF a.itemsLeft = 0 THEN "TooManyItems" ELSE "Ok"
  BY PushItemFacts
<1>3. b.st = "Ok" => At(t, y) /\ y.pos = b.pos /\ Moves(t, b, y) /\ y.st = IF b.itemsLeft = 0 THEN "TooManyItems" ELSE "Ok"
  BY PushItemFacts
<1>4. b.st = "Ok" => Moves(t, b, d)
  <2> SUFFICES ASSUME b.st = "Ok" PROVE Moves(t, b, d)
    OBVIOUS
  <2> HIDE DEF y
  <2>1. y.st = "Ok" => Moves(t, y, ItemEnd(y))
    BY <1>0, <1>3, ItemEndFacts
  <2> QED BY <1>0, <1>3, <2>1, ChainMoves
<1>5. a.st = "Ok" /\ Same(a, b) => Strong(s, c, d)
  <2> SUFFICES ASSUME a.st = "Ok", Same(a, b) PROVE Strong(s, c, d)
    OBVIOUS
  <2>1. Pair(s, t, a, b) /\ a.val = b.val
    BY PairNext DEF Same
  <2>2. Strong(s, x, y)
    BY <2>1, PushItemRel
  <2>3. b.st = "Ok" /\ x.st # "More" /\ y.st # "More"
    BY <1>2, <1>3 DEF Same
  <2> HIDE DEF x, y
  <2>4. x.st = "Ok" /\ Same(x, y) => Strong(s, ItemEnd(x), ItemEnd(y))
    BY <1>2, <1>3, <2>3, PairNext, ItemEndRel
  <2>5. y.st = "Ok" => Moves(t, y, ItemEnd(y))
    BY <1>0, <1>3, <2>3, ItemEndFacts
  <2> QED BY <1>3, <2>2, <2>3, <2>4, <2>5, ChainStrong
<1>6. CASE a.st = "Ok" /\ ~Same(a, b)
  <2>1. a.pos = Size(s) + 1 /\ Ahead(s, b) /\ (Wrong(b) \/ (b.st = "Ok" /\ b.itemsLeft = a.itemsLeft))
    BY <1>6 DEF Firm, Loose, Going
  <2>2. CASE a.itemsLeft = 0
    <3>1. ItemEnds(a, l).st = "TooManyItems"
      BY <1>1, <1>2, <1>6, <2>2 DEF Chain
    <3>2. Wrong(ItemEnds(b, l))
      <4>1. CASE Wrong(b)
        BY <1>1, <4>1 DEF Wrong, Chain
      <4>2. CASE b.st = "Ok" /\ b.itemsLeft = a.itemsLeft
        <5>1. ItemEnds(b, l).st = "TooManyItems"
          BY <1>1, <1>3, <2>2, <4>2 DEF Chain
        <5> QED BY <5>1 DEF Wrong
      <4> QED BY <2>1, <4>1, <4>2
    <3> QED BY <3>1, <3>2 DEF Strong, Loose, Going
  <2>3. CASE a.itemsLeft # 0
    <3>1. x.st = "Ok" /\ x.pos = Size(s) + 1 /\ At(s, x)
      BY <1>2, <1>6, <2>1, <2>3
    <3>2. ItemEnd(x).st = "Incomplete"
      BY <1>0, <3>1, ItemEndFacts DEF Hungry
    <3>3. ItemEnds(a, l).st = "Incomplete"
      BY <1>1, <1>6, <3>1, <3>2 DEF Chain
    <3>4. Ahead(s, ItemEnds(b, l))
      <4> HIDE DEF d
      <4> QED BY <1>0, <1>1, <1>4, <2>1 DEF Chain, Ahead, Moves, At, Going
    <3> QED BY <3>3, <3>4 DEF Strong, Loose, Going, Wrong
  <2> QED BY <2>2, <2>3
<1>7. CASE a.st # "Ok" \/ Same(a, b)
  <2>1. Strong(s, a, b)
    BY <1>7 DEF Firm, Strong, Going
  <2> HIDE DEF c, d
  <2> QED BY <1>1, <1>4, <1>5, <2>1, ChainStrong
<1> QED BY <1>6, <1>7

-------------------------------------------------------------------------------
(* Loops.  Every loop of the parser is one of these turns, again and again; the *)
(* argument i is the place where what the loop reads began.                     *)
LoopTurn(kind, i, p) ==
  CASE kind = "quoted"     -> QuotedTurn(p, i)
    [] kind = "flags"      -> ItemEnds(ParseFlagOrAtom(p), p.val)
    [] kind = "fetch"      -> ItemEnds(ParseOneFetchAtt(p), p.val)
    [] kind = "status"     -> ItemEnds(ParseStatusItem(p), p.val)
    [] kind = "capability" -> CapabilityTurn(p)
    [] kind = "search"     -> SearchTurn(p)
    [] kind = "parens"     -> ParensTurn(p, i)

\* f[k] is the parser after k turns.
LoopStep(kind, i, a) == IF a.st = "More" THEN LoopTurn(kind, i, Resume(a)) ELSE a
Runs(f, kind, i, p, n) ==
  f = [k \in 0 .. n |-> IF k = 0 THEN GoOn(p) ELSE LoopStep(kind, i, f[k - 1])]

LEMMA RunsExists ==
  ASSUME NEW kind, NEW i, NEW p, NEW n \in Nat
  PROVE  \E f : Runs(f, kind, i, p, n)
<1> DEFINE Bad == {m \in Nat : ~ \E f : Runs(f, kind, i, p, m)}
<1>1. SUFFICES ASSUME Bad # {} PROVE FALSE
  OBVIOUS
<1>2. PICK m \in Bad : \A l \in Bad : m <= l
  BY <1>1, LeastNumber
<1>3. CASE m = 0
  <2>1. Runs([k \in 0 .. 0 |-> GoOn(p)], kind, i, p, 0)
    BY DEF Runs
  <2> QED BY <1>2, <1>3, <2>1
<1>4. CASE m # 0
  <2>1. m - 1 \in Nat /\ m - 1 \notin Bad
    BY <1>2, <1>4
  <2>2. PICK f : Runs(f, kind, i, p, m - 1)
    BY <2>1
  <2> DEFINE g == [k \in 0 .. m |-> IF k = m THEN LoopStep(kind, i, f[m - 1]) ELSE f[k]]
  <2>3. \A k \in 0 .. m : g[k] = IF k = 0 THEN GoOn(p) ELSE LoopStep(kind, i, g[k - 1])
    <3> TAKE k \in 0 .. m
    <3>1. CASE k = m
      BY <1>4, <3>1
    <3>2. CASE k # m
      <4>1. k \in 0 .. m - 1
        BY <3>2
      <4>2. f[k] = IF k = 0 THEN GoOn(p) ELSE LoopStep(kind, i, f[k - 1])
        BY <4>1, <2>2 DEF Runs
      <4>3. k # 0 => k - 1 \in 0 .. m /\ k - 1 # m
        BY <4>1
      <4> QED BY <3>2, <4>2, <4>3
    <3> QED BY <3>1, <3>2
  <2>4. g = [k \in 0 .. m |-> g[k]]
    OBVIOUS
  <2>5. Runs(g, kind, i, p, m)
    <3> HIDE DEF g
    <3> QED BY <2>3, <2>4 DEF Runs
  <2> QED BY <2>5, <1>2
<1> QED BY <1>3, <1>4

\* What a run does, turn by turn, on the text s of size n.
Turning(s, r, n) ==
  /\ At(s, r[0]) /\ r[0].st = "More"
  /\ \A k \in 0 .. n - 1 : /\ r[k].st = "More" /\ At(s, r[k]) => Turned(s, r[k], r[k + 1])
                           /\ r[k].st # "More" => r[k + 1] = r[k]

\* Induction along a run.
LEMMA TurningFacts ==
  ASSUME NEW s, Size(s) \in Nat, NEW n \in Nat, NEW r, Turning(s, r, n)
  PROVE  \A k \in 0 .. n : /\ At(s, r[k]) /\ (r[k].st = "More" => r[k].pos >= r[0].pos + k)
                           /\ (r[k].st \in Going => r[k].pos >= r[0].pos)
<1> DEFINE Good(k) == /\ At(s, r[k]) /\ (r[k].st = "More" => r[k].pos >= r[0].pos + k)
                      /\ (r[k].st \in Going => r[k].pos >= r[0].pos)
           Bad == {k \in 0 .. n : ~Good(k)}
<1>1. SUFFICES ASSUME Bad # {} PROVE FALSE
  OBVIOUS
<1>2. Bad \in SUBSET Nat
  OBVIOUS
<1>3. PICK k \in Bad : \A l \in Bad : k <= l
  BY <1>1, <1>2, LeastNumber
<1>4. k # 0
  <2>1. At(s, r[0]) /\ r[0].pos \in Nat
    BY DEF Turning, At
  <2> QED BY <1>3, <2>1
<1>5. PICK m : m = k - 1
  OBVIOUS
<1>6. m \in 0 .. n /\ m \notin Bad /\ m \in 0 .. n - 1 /\ k = m + 1
  BY <1>3, <1>4, <1>5
<1>7. Good(m)
  BY <1>6
<1>8. r[0].pos \in Nat /\ r[m].pos \in Nat
  BY <1>7 DEF Turning, At
<1>9. CASE r[m].st = "More"
  <2>1. Turned(s, r[m], r[k])
    BY <1>6, <1>7, <1>9 DEF Turning
  <2>2. At(s, r[k]) /\ r[k].pos \in Nat /\ (r[k].st \in Going => r[m].pos <= r[k].pos) /\ (r[k].st = "More" => r[m].pos < r[k].pos)
    BY <2>1 DEF Turned, Moves, At
  <2>3. Good(k)
    BY <1>6, <1>7, <1>8, <1>9, <2>2 DEF Going
  <2> QED BY <1>3, <2>3
<1>10. CASE r[m].st # "More"
  <2>1. r[k] = r[m]
    BY <1>6, <1>10 DEF Turning
  <2>2. Good(k)
    BY <1>7, <1>10, <2>1
  <2> QED BY <1>3, <2>2
<1> QED BY <1>9, <1>10

LEMMA TurningEnds ==
  ASSUME NEW s, Size(s) \in Nat, NEW n \in Nat, n > Size(s), NEW r, Turning(s, r, n)
  PROVE  r[n].st # "More"
<1>1. At(s, r[n]) /\ (r[n].st = "More" => r[n].pos >= r[0].pos + n)
  BY TurningFacts
<1>2. r[0].pos \in Nat /\ 1 <= r[0].pos /\ r[n].pos \in Nat /\ r[n].pos <= Size(s) + 1
  BY <1>1 DEF Turning, At
<1> QED BY <1>1, <1>2

\* Without bytes the first turn is the last.
LEMMA TurningAtEnd ==
  ASSUME NEW s, Size(s) \in Nat, NEW n \in Nat, n >= 1, NEW r, Turning(s, r, n), r[0].pos = Size(s) + 1
  PROVE  r[n] = r[1] /\ Turned(s, r[0], r[1])
<1>1. Turned(s, r[0], r[0 + 1]) /\ 0 + 1 = 1
  BY DEF Turning
<1>2. Turned(s, r[0], r[1])
  BY <1>1
<1>3. r[1].st # "More"
  BY <1>2 DEF Turned
<1> DEFINE Bad == {k \in 1 .. n : r[k] # r[1]}
<1>4. SUFFICES ASSUME Bad # {} PROVE FALSE
  BY <1>2
<1>b. Bad \in SUBSET Nat
  OBVIOUS
<1>5. PICK k \in Bad : \A l \in Bad : k <= l
  BY <1>4, <1>b, LeastNumber
<1>6. PICK m : m = k - 1
  OBVIOUS
<1>7. k # 1
  BY <1>5
<1>8. m \in 1 .. n /\ m \notin Bad /\ m \in 0 .. n - 1 /\ k = m + 1
  BY <1>5, <1>6, <1>7
<1>9. r[m] = r[1]
  BY <1>8
<1>10. r[k] = r[m]
  BY <1>3, <1>8, <1>9 DEF Turning
<1> QED BY <1>5, <1>9, <1>10

\* Two runs, on s and on the longer text t: what the turns keep, the run keeps.
LEMMA RunsLoose ==
  ASSUME NEW s, NEW t, Cut(s, t), NEW n \in Nat, NEW r, NEW u, Turning(s, r, n), Turning(t, u, n),
         Same(r[0], u[0]),
         \A k \in 0 .. n - 1 : r[k].st = "More" /\ Same(r[k], u[k]) => Loose(s, r[k + 1], u[k + 1])
  PROVE  Loose(s, r[n], u[n])
<1> DEFINE Bad == {k \in 0 .. n : ~Loose(s, r[k], u[k])}
<1>0. Size(s) \in Nat /\ Size(t) \in Nat
  BY DEF Cut
<1>1. SUFFICES ASSUME Bad # {} PROVE FALSE
  OBVIOUS
<1>2. Bad \in SUBSET Nat
  OBVIOUS
<1>3. PICK k \in Bad : \A l \in Bad : k <= l
  BY <1>1, <1>2, LeastNumber
<1>4. k # 0
  <2>1. Loose(s, r[0], u[0])
    BY DEF Loose, Same, Wrong, Turning
  <2> QED BY <1>3, <2>1
<1>5. PICK m : m = k - 1
  OBVIOUS
<1>6. m \in 0 .. n /\ m \notin Bad /\ m \in 0 .. n - 1 /\ k = m + 1 /\ k \in 0 .. n
  BY <1>3, <1>4, <1>5
<1>7. Loose(s, r[m], u[m])
  BY <1>6
<1>8. At(s, r[m]) /\ At(t, u[m])
  BY <1>0, <1>6, TurningFacts
<1>9. /\ r[m].st = "More" => Turned(s, r[m], r[k])
      /\ r[m].st # "More" => r[k] = r[m]
      /\ u[m].st = "More" => Turned(t, u[m], u[k])
      /\ u[m].st # "More" => u[k] = u[m]
  BY <1>6, <1>8 DEF Turning
<1>10. Ahead(s, u[m]) => Ahead(s, u[k])
  BY <1>0, <1>8, <1>9 DEF Ahead, Turned, Moves, At, Going
<1>11. CASE r[m].st = "More" /\ Same(r[m], u[m])
  BY <1>3, <1>6, <1>11
<1>12. CASE r[m].st = "More" /\ ~Same(r[m], u[m])
  <2>1. r[m].pos = Size(s) + 1 /\ Ahead(s, u[k])
    BY <1>7, <1>10, <1>12 DEF Loose, Going
  <2>2. r[k].st = "Incomplete" \/ (r[k].st = "Ok" /\ r[k].pos = Size(s) + 1)
    BY <1>9, <1>12, <2>1 DEF Turned
  <2>3. Loose(s, r[k], u[k])
    BY <2>1, <2>2 DEF Loose, Wrong, Going
  <2> QED BY <1>3, <2>3
<1>13. CASE r[m].st # "More"
  <2>1. Loose(s, r[k], u[k])
    BY <1>7, <1>9, <1>10, <1>13 DEF Loose, Wrong, Same, Going
  <2> QED BY <1>3, <2>1
<1> QED BY <1>11, <1>12, <1>13

LEMMA RunsStrong ==
  ASSUME NEW s, NEW t, Cut(s, t), NEW n \in Nat, NEW r, NEW u, Turning(s, r, n), Turning(t, u, n),
         Same(r[0], u[0]),
         \A k \in 0 .. n - 1 : r[k].st = "More" /\ Same(r[k], u[k]) => Strong(s, r[k + 1], u[k + 1])
  PROVE  Strong(s, r[n], u[n])
<1> DEFINE Bad == {k \in 0 .. n : ~Strong(s, r[k], u[k])}
<1>0. Size(s) \in Nat /\ Size(t) \in Nat
  BY DEF Cut
<1>1. SUFFICES ASSUME Bad # {} PROVE FALSE
  OBVIOUS
<1>2. Bad \in SUBSET Nat
  OBVIOUS
<1>3. PICK k \in Bad : \A l \in Bad : k <= l
  BY <1>1, <1>2, LeastNumber
<1>4. k # 0
  <2>1. Strong(s, r[0], u[0])
    BY DEF Strong, Loose, Same, Wrong, Turning
  <2> QED BY <1>3, <2>1
<1>5. PICK m : m = k - 1
  OBVIOUS
<1>6. m \in 0 .. n /\ m \notin Bad /\ m \in 0 .. n - 1 /\ k = m + 1 /\ k \in 0 .. n
  BY <1>3, <1>4, <1>5
<1>7. Strong(s, r[m], u[m])
  BY <1>6
<1>8. At(s, r[m]) /\ At(t, u[m])
  BY <1>0, <1>6, TurningFacts
<1>9. /\ r[m].st # "More" => r[k] = r[m]
      /\ u[m].st = "More" => Turned(t, u[m], u[k])
      /\ u[m].st # "More" => u[k] = u[m]
  BY <1>6, <1>8 DEF Turning
<1>10. Ahead(s, u[m]) => Ahead(s, u[k])
  BY <1>0, <1>8, <1>9 DEF Ahead, Turned, Moves, At, Going
<1>11. CASE r[m].st = "More"
  BY <1>3, <1>6, <1>7, <1>11 DEF Strong, Going
<1>12. CASE r[m].st # "More"
  <2>1. Strong(s, r[k], u[k])
    BY <1>7, <1>9, <1>10, <1>12 DEF Strong, Loose, Wrong, Same, Going
  <2> QED BY <1>3, <2>1
<1> QED BY <1>11, <1>12

\* The shorter run, its end repeated.
LEMMA TurningExtended ==
  ASSUME NEW s, Size(s) \in Nat, NEW m \in Nat, NEW n \in Nat, m <= n, NEW r, Turning(s, r, m), r[m].st # "More"
  PROVE  \E x : /\ Turning(s, x, n) /\ x[n] = r[m] /\ \A k \in 0 .. m : x[k] = r[k]
                /\ \A k \in m .. n : x[k] = r[m]
<1> DEFINE x == [k \in 0 .. n |-> IF k <= m THEN r[k] ELSE r[m]]
<1>1. (\A k \in 0 .. m : x[k] = r[k]) /\ (\A k \in m .. n : x[k] = r[m])
  OBVIOUS
<1> HIDE DEF x
<1>2. x[0] = r[0]
  BY <1>1
<1>3. ASSUME NEW k \in 0 .. n - 1
      PROVE  /\ x[k].st = "More" /\ At(s, x[k]) => Turned(s, x[k], x[k + 1])
             /\ x[k].st # "More" => x[k + 1] = x[k]
  <2>1. CASE k < m
    <3>1. k \in 0 .. m - 1 /\ k \in 0 .. m /\ k + 1 \in 0 .. m
      BY <2>1
    <3> QED BY <1>1, <3>1 DEF Turning
  <2>2. CASE k >= m
    <3>1. k \in m .. n /\ k + 1 \in m .. n
      BY <2>2
    <3> QED BY <1>1, <3>1
  <2> QED BY <2>1, <2>2
<1>4. Turning(s, x, n)
  BY <1>2, <1>3 DEF Turning
<1> QED BY <1>1, <1>4

ResumeLike(a, x) == x.pos = a.pos /\ x.itemsLeft = a.itemsLeft /\ x.val = a.val /\ x.st = "Ok"

LEMMA ResumeAt ==
  ASSUME NEW s, NEW a, At(s, a)
  PROVE  At(s, Resume(a)) /\ ResumeLike(a, Resume(a)) /\ Resume(a).st = "Ok"
BY ResumeFacts DEF At, ResumeLike

LEMMA RunTurning ==
  ASSUME NEW s, NEW p, At(s, p), NEW kind, NEW i, NEW n \in Nat, NEW f, Runs(f, kind, i, p, n),
         \A x : At(s, x) /\ x.st = "Ok" => Turned(s, x, LoopTurn(kind, i, x))
  PROVE  Turning(s, f, n) /\ f[0] = GoOn(p)
<1>1. f[0] = GoOn(p)
  BY DEF Runs
<1>2. At(s, f[0]) /\ f[0].st = "More"
  BY <1>1, GoOnAt
<1>3. ASSUME NEW k \in 0 .. n - 1
      PROVE  /\ f[k].st = "More" /\ At(s, f[k]) => Turned(s, f[k], f[k + 1])
             /\ f[k].st # "More" => f[k + 1] = f[k]
  <2>1. PICK m : m = k + 1
    OBVIOUS
  <2>2. m \in 0 .. n /\ m # 0 /\ m - 1 = k
    BY <2>1
  <2>3. f[m] = LoopStep(kind, i, f[k])
    BY <2>2 DEF Runs
  <2>4. ASSUME f[k].st = "More", At(s, f[k]) PROVE Turned(s, f[k], f[m])
    <3>1. At(s, Resume(f[k])) /\ Resume(f[k]).st = "Ok" /\ Resume(f[k]).pos = f[k].pos
      BY <2>4, ResumeAt DEF ResumeLike
    <3>2. f[m] = LoopTurn(kind, i, Resume(f[k]))
      BY <2>3, <2>4 DEF LoopStep
    <3>3. Turned(s, Resume(f[k]), f[m])
      BY <3>1, <3>2
    <3> QED BY <3>1, <3>3 DEF Turned, Moves
  <2>5. f[k].st # "More" => f[m] = f[k]
    BY <2>3 DEF LoopStep
  <2> QED BY <2>1, <2>4, <2>5
<1> QED BY <1>1, <1>2, <1>3 DEF Turning

LEMMA LoopFacts ==
  ASSUME NEW s, Size(s) \in Nat, NEW p, At(s, p), NEW kind, NEW i, NEW n, n = Size(s) + 1,
         NEW f, Runs(f, kind, i, p, n),
         \A x : At(s, x) /\ x.st = "Ok" => Turned(s, x, LoopTurn(kind, i, x))
  PROVE  /\ Sound(s, p, f[n]) /\ At(s, f[n])
         /\ (\A x : At(s, x) /\ x.st = "Ok" => Hungry(s, x, LoopTurn(kind, i, x))) => Hungry(s, p, f[n])
<1>0. n \in Nat /\ n > Size(s) /\ n >= 1 /\ n \in 0 .. n /\ 0 \in 0 .. n
  OBVIOUS
<1>1. Turning(s, f, n) /\ f[0] = GoOn(p)
  BY <1>0, RunTurning
<1>2. f[0].pos = p.pos /\ p.pos \in Nat
  BY <1>1, GoOnAt DEF At
<1>3. At(s, f[n]) /\ (f[n].st \in Going => f[n].pos >= p.pos) /\ f[n].st # "More"
  BY <1>0, <1>1, <1>2, TurningFacts, TurningEnds
<1>4. p.pos = Size(s) + 1 => f[n] = f[1] /\ Turned(s, f[0], f[1])
  BY <1>0, <1>1, <1>2, TurningAtEnd
<1>5. p.pos = Size(s) + 1 => f[n].st = "Incomplete" \/ (f[n].st = "Ok" /\ f[n].pos = Size(s) + 1)
  BY <1>2, <1>4 DEF Turned
<1>6. Sound(s, p, f[n])
  BY <1>2, <1>3, <1>5 DEF Sound, Turned, Moves, At
<1>7. ASSUME \A x : At(s, x) /\ x.st = "Ok" => Hungry(s, x, LoopTurn(kind, i, x)), p.pos = Size(s) + 1
      PROVE f[n].st = "Incomplete"
  <2>1. At(s, Resume(f[0])) /\ Resume(f[0]).st = "Ok" /\ Resume(f[0]).pos = p.pos
    BY <1>1, <1>2, GoOnAt, ResumeAt DEF ResumeLike
  <2>2. 1 \in 0 .. n /\ 1 # 0 /\ 1 - 1 = 0
    BY <1>0
  <2>3. f[1] = LoopStep(kind, i, f[0])
    BY <2>2 DEF Runs
  <2>4. f[1] = LoopTurn(kind, i, Resume(f[0]))
    BY <1>1, <2>3, GoOnAt DEF LoopStep
  <2>5. Hungry(s, Resume(f[0]), f[1])
    BY <1>7, <2>1, <2>4
  <2> QED BY <1>4, <1>7, <2>1, <2>5 DEF Hungry
<1> QED BY <1>3, <1>6, <1>7 DEF Hungry

LEMMA LoopRel ==
  ASSUME NEW s, NEW t, NEW p, NEW q, Pair(s, t, p, q), NEW kind, NEW i,
         NEW m, m = Size(s) + 1, NEW n, n = Size(t) + 1,
         NEW f, Runs(f, kind, i, p, m), NEW g, Runs(g, kind, i, q, n),
         \A x : At(s, x) /\ x.st = "Ok" => Turned(s, x, LoopTurn(kind, i, x)),
         \A x : At(t, x) /\ x.st = "Ok" => Turned(t, x, LoopTurn(kind, i, x)),
         \A x, y : Pair(s, t, x, y) => Loose(s, LoopTurn(kind, i, x), LoopTurn(kind, i, y))
  PROVE  /\ Loose(s, f[m], g[n])
         /\ (\A x, y : Pair(s, t, x, y) => Strong(s, LoopTurn(kind, i, x), LoopTurn(kind, i, y)))
              => Strong(s, f[m], g[n])
<1>0. /\ Size(s) \in Nat /\ Size(t) \in Nat /\ Size(s) <= Size(t) /\ Cut(s, t)
      /\ At(s, p) /\ At(t, q) /\ IsParser(p) /\ IsParser(q) /\ Same(p, q)
  BY PairFacts
<1>1. m \in Nat /\ n \in Nat /\ m <= n /\ m > Size(s)
  BY <1>0
<1>2. Turning(s, f, m) /\ f[0] = GoOn(p) /\ Turning(t, g, n) /\ g[0] = GoOn(q)
  BY <1>0, <1>1, RunTurning
<1>3. f[m].st # "More"
  BY <1>0, <1>1, <1>2, TurningEnds
<1>4. PICK x : /\ Turning(s, x, n) /\ x[n] = f[m] /\ \A k \in 0 .. m : x[k] = f[k]
               /\ \A k \in m .. n : x[k] = f[m]
  BY <1>0, <1>1, <1>2, <1>3, TurningExtended
<1>5. Same(x[0], g[0])
  BY <1>0, <1>1, <1>2, <1>4, GoOnSame
<1>6. ASSUME NEW k \in 0 .. n - 1, x[k].st = "More", Same(x[k], g[k])
      PROVE  \E y, z : /\ Pair(s, t, y, z) /\ x[k + 1] = LoopTurn(kind, i, y)
                       /\ g[k + 1] = LoopTurn(kind, i, z)
  <2>1. k < m
    <3>1. k >= m => k \in m .. n
      BY <1>1
    <3> QED BY <1>1, <1>3, <1>4, <1>6, <3>1
  <2>2. PICK j : j = k + 1
    OBVIOUS
  <2>3. k \in 0 .. m /\ j \in 0 .. m /\ j \in 0 .. n /\ j # 0 /\ j - 1 = k /\ k \in 0 .. n
    BY <1>1, <2>1, <2>2
  <2>4. f[j] = LoopStep(kind, i, f[k]) /\ g[j] = LoopStep(kind, i, g[k])
    BY <2>3 DEF Runs
  <2>5. At(s, f[k]) /\ At(t, g[k])
    BY <1>0, <1>1, <1>2, <2>3, TurningFacts
  <2>6. f[k].st = "More" /\ g[k].st = "More" /\ Same(f[k], g[k]) /\ x[j] = f[j]
    BY <1>4, <1>6, <2>3 DEF Same
  <2>7. f[j] = LoopTurn(kind, i, Resume(f[k])) /\ g[j] = LoopTurn(kind, i, Resume(g[k]))
    BY <2>4, <2>6 DEF LoopStep
  <2>8. /\ At(s, Resume(f[k])) /\ ResumeLike(f[k], Resume(f[k]))
        /\ At(t, Resume(g[k])) /\ ResumeLike(g[k], Resume(g[k]))
    BY <2>5, ResumeAt
  <2>9. Pair(s, t, Resume(f[k]), Resume(g[k]))
    BY <1>0, <2>6, <2>8 DEF Pair, Same, ResumeLike
  <2> QED BY <2>2, <2>6, <2>7, <2>9
<1>7. \A k \in 0 .. n - 1 : x[k].st = "More" /\ Same(x[k], g[k]) => Loose(s, x[k + 1], g[k + 1])
  BY <1>6
<1>8. Loose(s, x[n], g[n])
  BY <1>0, <1>1, <1>2, <1>4, <1>5, <1>7, RunsLoose
<1>9. ASSUME \A y, z : Pair(s, t, y, z) => Strong(s, LoopTurn(kind, i, y), LoopTurn(kind, i, z))
      PROVE  Strong(s, x[n], g[n])
  <2>1. \A k \in 0 .. n - 1 : x[k].st = "More" /\ Same(x[k], g[k]) => Strong(s, x[k + 1], g[k + 1])
    BY <1>6, <1>9
  <2> QED BY <1>0, <1>1, <1>2, <1>4, <1>5, <2>1, RunsStrong
<1> QED BY <1>4, <1>8, <1>9

-------------------------------------------------------------------------------
(* Quoted strings. *)

\* A turn that has moved and is done or goes on.
LEMMA Moved ==
  ASSUME NEW s, Size(s) \in Nat, NEW p, At(s, p), NEW a, At(s, a), a.pos > p.pos
  PROVE  Turned(s, p, a) /\ Hungry(s, p, a) /\ Moves(s, p, a)
<1>1. p.pos \in Nat /\ a.pos \in Nat /\ a.pos <= Size(s) + 1 /\ p.pos # Size(s) + 1 /\ p.pos <= a.pos
  BY DEF At
<1> QED BY <1>1 DEF Turned, Moves, Hungry

LEMMA QuotedTurnFacts ==
  ASSUME NEW s, Size(s) \in Nat, NEW p, At(s, p), p.st = "Ok", NEW i
  PROVE  Turned(s, p, QuotedTurn(p, i)) /\ Hungry(s, p, QuotedTurn(p, i))
<1> DEFINE x == Advance(p, 1)
<1>0. p.pos \in Nat /\ IsParser(p)
  BY DEF At
<1>1. CASE IsEof(p)
  <2>1. QuotedTurn(p, i) = Fail(p, "Incomplete")
    BY <1>1, PeekFacts DEF QuotedTurn, LineBreak
  <2> QED BY <2>1, Waits DEF Sound
<1>2. ASSUME ~IsEof(p)
      PROVE  At(s, x) /\ x.pos = p.pos + 1 /\ x.st = "Ok" /\ p.pos # Size(s) + 1
  BY <1>2, AdvanceOne, PeekFacts
<1>3. CASE ~IsEof(p) /\ Peek(p) = "DQ"
  <2> DEFINE b == FromUtf8(p, Taken(p, i))
  <2>1. QuotedTurn(p, i) = Chain(b, Advance(b, 1))
    BY <1>3 DEF QuotedTurn, Then, Chain, LineBreak
  <2>2. At(s, b) /\ b.st \in {"Ok", "Other"} /\ b.pos = p.pos
    BY FromUtf8Facts
  <2> HIDE DEF b
  <2>3. ~IsEof(b)
    BY <1>3, <2>2, PeekFacts
  <2>4. b.st = "Ok" => At(s, Advance(b, 1)) /\ Advance(b, 1).pos = p.pos + 1
    BY <2>2, <2>3, AdvanceOne
  <2>5. b.st = "Ok" => Turned(s, p, Advance(b, 1)) /\ Hungry(s, p, Advance(b, 1))
    BY <1>0, <2>4, Moved
  <2>6. b.st # "Ok" => Turned(s, p, b) /\ Hungry(s, p, b)
    BY <1>2, <1>3, <2>2 DEF Turned, Moves, Hungry, Going
  <2> QED BY <2>1, <2>5, <2>6 DEF Chain
<1>4. CASE ~IsEof(p) /\ Peek(p) = "BS"
  <2> HIDE DEF x
  <2>1. QuotedTurn(p, i) = CASE IsEof(x) -> Fail(x, "Incomplete")
                             [] Peek(x) \in {"DQ", "BS"} -> GoOn(Advance(x, 1))
                             [] OTHER -> Fail(x, "Malformed")
    BY <1>4 DEF QuotedTurn, LineBreak, x
  <2>2. CASE IsEof(x)
    <3>1. QuotedTurn(p, i) = Fail(x, "Incomplete")
      BY <1>2, <1>4, <2>1, <2>2, PeekFacts
    <3> QED BY <1>2, <1>4, <3>1, Waits DEF Sound
  <2>3. CASE ~IsEof(x) /\ Peek(x) \in {"DQ", "BS"}
    <3>1. QuotedTurn(p, i) = GoOn(Advance(x, 1))
      BY <2>1, <2>3
    <3>2. At(s, Advance(x, 1)) /\ Advance(x, 1).pos = p.pos + 1 + 1
      BY <1>2, <1>4, <2>3, AdvanceOne
    <3>3. At(s, GoOn(Advance(x, 1))) /\ GoOn(Advance(x, 1)).pos > p.pos
      BY <1>0, <3>2, GoOnAt
    <3> QED BY <3>1, <3>3, Moved
  <2>4. CASE ~IsEof(x) /\ Peek(x) \notin {"DQ", "BS"}
    <3>1. QuotedTurn(p, i) = Fail(x, "Malformed") /\ "Malformed" \notin Going
      BY <2>1, <2>4 DEF Going
    <3> QED BY <1>2, <1>4, <3>1, Refuses DEF Sound
  <2> QED BY <2>2, <2>3, <2>4
<1>5. CASE ~IsEof(p) /\ Peek(p) \in LineBreak \cup {"NUL"}
  <2>1. QuotedTurn(p, i) = Fail(p, "Malformed") /\ "Malformed" \notin Going
    BY <1>5 DEF QuotedTurn, LineBreak, Going
  <2> QED BY <1>2, <1>5, <2>1, Refuses DEF Sound
<1>6. CASE ~IsEof(p) /\ Peek(p) \notin LineBreak \cup {"NUL", "DQ", "BS"}
  <2>1. QuotedTurn(p, i) = GoOn(x)
    BY <1>6 DEF QuotedTurn
  <2>2. At(s, GoOn(x)) /\ GoOn(x).pos > p.pos
    BY <1>0, <1>2, <1>6, GoOnAt
  <2> QED BY <2>1, <2>2, Moved
<1> QED BY <1>1, <1>3, <1>4, <1>5, <1>6

LEMMA QuotedTurnRel ==
  ASSUME NEW s, NEW t, NEW p, NEW q, Pair(s, t, p, q), NEW i \in Nat, 1 <= i
  PROVE  Strong(s, QuotedTurn(p, i), QuotedTurn(q, i))
<1> DEFINE x == Advance(p, 1)
           y == Advance(q, 1)
<1>0. /\ Size(s) \in Nat /\ Size(t) \in Nat /\ Size(s) <= Size(t) /\ Cut(s, t)
      /\ At(s, p) /\ At(t, q) /\ IsParser(p) /\ IsParser(q) /\ p.st = "Ok" /\ q.st = "Ok" /\ Same(p, q)
      /\ p.pos = q.pos /\ p.pos \in Nat
  BY PairFacts
<1>1. CASE IsEof(p)
  <2>1. QuotedTurn(p, i) = Fail(p, "Incomplete") /\ q.pos = Size(s) + 1
    BY <1>0, <1>1, PeekFacts DEF QuotedTurn, LineBreak
  <2>2. Ahead(s, QuotedTurn(q, i))
    BY <1>0, <2>1, QuotedTurnFacts, MovesAhead DEF Turned
  <2> QED BY <1>0, <2>1, <2>2, WaitsAhead
<1>2. ASSUME ~IsEof(p) PROVE ~IsEof(q) /\ Peek(q) = Peek(p) /\ Pair(s, t, x, y)
  BY <1>0, <1>2, PeekRel, AdvanceRel
<1>3. CASE ~IsEof(p) /\ Peek(p) = "DQ"
  <2> DEFINE a == FromUtf8(p, Taken(p, i))
             b == FromUtf8(q, Taken(q, i))
  <2>1. QuotedTurn(p, i) = Chain(a, Advance(a, 1)) /\ QuotedTurn(q, i) = Chain(b, Advance(b, 1))
    BY <1>2, <1>3 DEF QuotedTurn, Then, Chain, LineBreak
  <2>2. Taken(p, i) = Taken(q, i)
    BY <1>0, TakenSame
  <2>3. Strong(s, a, b)
    BY <2>2, FromUtf8Rel
  <2>4. At(s, a) /\ At(t, b) /\ a.st \in {"Ok", "Other"} /\ b.st \in {"Ok", "Other"} /\ a.pos = p.pos /\ b.pos = p.pos
    BY <1>0, FromUtf8Facts
  <2> HIDE DEF a, b
  <2>5. a.st = "Ok" /\ Same(a, b) => Strong(s, Advance(a, 1), Advance(b, 1))
    BY <1>0, <2>4, PairNext, AdvanceSame, SameIsStrong
  <2>6. ~IsEof(b)
    BY <1>0, <1>2, <1>3, <2>4, PeekFacts
  <2>7. b.st = "Ok" => Moves(t, b, Advance(b, 1))
    BY <1>0, <2>4, <2>6, AdvanceOne DEF Sound, Turned
  <2> QED BY <1>0, <2>1, <2>3, <2>4, <2>5, <2>7, ChainStrong
<1>4. CASE ~IsEof(p) /\ Peek(p) = "BS"
  <2> HIDE DEF x, y
  <2>1. QuotedTurn(p, i) = CASE IsEof(x) -> Fail(x, "Incomplete")
                             [] Peek(x) \in {"DQ", "BS"} -> GoOn(Advance(x, 1))
                             [] OTHER -> Fail(x, "Malformed")
    BY <1>4 DEF QuotedTurn, LineBreak, x
  <2>2. QuotedTurn(q, i) = CASE IsEof(y) -> Fail(y, "Incomplete")
                             [] Peek(y) \in {"DQ", "BS"} -> GoOn(Advance(y, 1))
                             [] OTHER -> Fail(y, "Malformed")
    BY <1>2, <1>4 DEF QuotedTurn, LineBreak, y
  <2>3. /\ At(s, x) /\ At(t, y) /\ IsParser(x) /\ IsParser(y) /\ x.pos = y.pos /\ x.st = "Ok" /\ y.st = "Ok"
        /\ Pair(s, t, x, y)
    BY <1>2, <1>4, PairFacts
  <2>4. CASE IsEof(x)
    <3>1. QuotedTurn(p, i) = Fail(x, "Incomplete") /\ y.pos = Size(s) + 1
      BY <1>0, <2>1, <2>3, <2>4, PeekFacts
    <3>2. Ahead(s, QuotedTurn(q, i))
      <4>1. CASE IsEof(y)
        <5>1. QuotedTurn(q, i) = Fail(y, "Incomplete")
          BY <1>0, <2>2, <2>3, <4>1, PeekFacts
        <5> QED BY <2>3, <5>1, FailFacts DEF Ahead, Going
      <4>2. CASE ~IsEof(y) /\ Peek(y) \in {"DQ", "BS"}
        <5>1. QuotedTurn(q, i) = GoOn(Advance(y, 1))
          BY <2>2, <4>2
        <5>2. At(t, Advance(y, 1)) /\ Advance(y, 1).pos = y.pos + 1
          BY <1>0, <2>3, <4>2, AdvanceOne
        <5>3. GoOn(Advance(y, 1)).pos = y.pos + 1
          BY <5>2, GoOnAt
        <5> QED BY <1>0, <3>1, <5>1, <5>3 DEF Ahead
      <4>3. CASE ~IsEof(y) /\ Peek(y) \notin {"DQ", "BS"}
        <5>1. QuotedTurn(q, i) = Fail(y, "Malformed")
          BY <2>2, <4>3
        <5> QED BY <2>3, <5>1, FailFacts DEF Ahead, Going
      <4> QED BY <4>1, <4>2, <4>3
    <3> QED BY <2>3, <3>1, <3>2, WaitsAhead
  <2>5. CASE ~IsEof(x)
    <3>1. ~IsEof(y) /\ Peek(y) = Peek(x)
      BY <1>0, <2>3, <2>5, PeekRel
    <3>2. CASE Peek(x) \in {"DQ", "BS"}
      <4>1. QuotedTurn(p, i) = GoOn(Advance(x, 1)) /\ QuotedTurn(q, i) = GoOn(Advance(y, 1))
        BY <2>1, <2>2, <2>5, <3>1, <3>2
      <4>2. Same(Advance(x, 1), Advance(y, 1)) /\ IsParser(Advance(x, 1)) /\ IsParser(Advance(y, 1))
        BY <2>3, AdvanceSame, AdvanceFacts
      <4>3. Same(GoOn(Advance(x, 1)), GoOn(Advance(y, 1))) /\ GoOn(Advance(x, 1)).st = "More"
        BY <4>2, GoOnSame
      <4> QED BY <4>1, <4>3, SameIsStrong
    <3>3. CASE Peek(x) \notin {"DQ", "BS"}
      <4>1. QuotedTurn(p, i) = Fail(x, "Malformed") /\ QuotedTurn(q, i) = Fail(y, "Malformed")
        BY <2>1, <2>2, <2>5, <3>1, <3>3
      <4> QED BY <2>3, <4>1, FailRel DEF Going
    <3> QED BY <3>2, <3>3
  <2> QED BY <2>4, <2>5
<1>5. CASE ~IsEof(p) /\ Peek(p) \in LineBreak \cup {"NUL"}
  <2>1. QuotedTurn(p, i) = Fail(p, "Malformed") /\ QuotedTurn(q, i) = Fail(q, "Malformed")
    BY <1>2, <1>5 DEF QuotedTurn, LineBreak
  <2> QED BY <1>0, <2>1, FailRel DEF Going
<1>6. CASE ~IsEof(p) /\ Peek(p) \notin LineBreak \cup {"NUL", "DQ", "BS"}
  <2>1. QuotedTurn(p, i) = GoOn(x) /\ QuotedTurn(q, i) = GoOn(y)
    BY <1>2, <1>6 DEF QuotedTurn
  <2>2. Same(x, y) /\ IsParser(x) /\ IsParser(y)
    BY <1>2, <1>6, PairFacts
  <2>3. Same(GoOn(x), GoOn(y)) /\ GoOn(x).st = "More"
    BY <2>2, GoOnSame
  <2> QED BY <2>1, <2>3, SameIsStrong
<1> QED BY <1>1, <1>3, <1>4, <1>5, <1>6

QuotedLoop(p, i) == While(p, LAMBDA r : QuotedTurn(r, i))

LEMMA QuotedRuns ==
  ASSUME NEW s, Size(s) \in Nat, NEW p, At(s, p), NEW i
  PROVE  \E f : Runs(f, "quoted", i, p, Size(s) + 1) /\ QuotedLoop(p, i) = f[Size(s) + 1]
<1> DEFINE E(f) == f = [n \in 0 .. Len(p.input) + 1 |->
                          IF n = 0 THEN GoOn(p)
                          ELSE IF f[n - 1].st = "More" THEN QuotedTurn(Resume(f[n - 1]), i) ELSE f[n - 1]]
<1>0. Len(p.input) = Size(s)
  BY DEF At, Size
<1>1. QuotedLoop(p, i) = (CHOOSE f : E(f))[Len(p.input) + 1]
  BY DEF While, QuotedLoop
<1>2. \A f : E(f) <=> Runs(f, "quoted", i, p, Len(p.input) + 1)
  BY DEF Runs, LoopStep, LoopTurn
<1>3. PICK n \in Nat : n = Len(p.input) + 1
  BY <1>0
<1>4. PICK g : Runs(g, "quoted", i, p, n)
  BY RunsExists
<1>5. E(g)
  BY <1>2, <1>3, <1>4
<1> HIDE DEF E
<1>6. E(CHOOSE f : E(f))
  BY <1>5
<1> QED BY <1>0, <1>1, <1>2, <1>6

LEMMA QuotedLoopFacts ==
  ASSUME NEW s \in Texts, NEW p, At(s, p), NEW i
  PROVE  Sound(s, p, QuotedLoop(p, i)) /\ At(s, QuotedLoop(p, i)) /\ Hungry(s, p, QuotedLoop(p, i))
<1>1. Size(s) \in Nat
  BY DEF Texts, Size
<1>2. PICK f : Runs(f, "quoted", i, p, Size(s) + 1) /\ QuotedLoop(p, i) = f[Size(s) + 1]
  BY <1>1, QuotedRuns
<1>3. \A x : LoopTurn("quoted", i, x) = QuotedTurn(x, i)
  BY DEF LoopTurn
<1>4. \A x : At(s, x) /\ x.st = "Ok" => Turned(s, x, LoopTurn("quoted", i, x)) /\ Hungry(s, x, LoopTurn("quoted", i, x))
  BY <1>1, <1>3, QuotedTurnFacts
<1>5. PICK n : n = Size(s) + 1
  OBVIOUS
<1>6. Sound(s, p, f[n]) /\ At(s, f[n]) /\ Hungry(s, p, f[n])
  BY <1>1, <1>2, <1>4, <1>5, LoopFacts
<1> QED BY <1>2, <1>5, <1>6

LEMMA QuotedLoopRel ==
  ASSUME NEW s, NEW t, NEW p, NEW q, Pair(s, t, p, q), NEW i \in Nat, 1 <= i
  PROVE  Strong(s, QuotedLoop(p, i), QuotedLoop(q, i))
<1>1. Size(s) \in Nat /\ Size(t) \in Nat /\ At(s, p) /\ At(t, q) /\ s \in Texts /\ t \in Texts
  BY PairFacts
<1>2. PICK f : Runs(f, "quoted", i, p, Size(s) + 1) /\ QuotedLoop(p, i) = f[Size(s) + 1]
  BY <1>1, QuotedRuns
<1>3. PICK g : Runs(g, "quoted", i, q, Size(t) + 1) /\ QuotedLoop(q, i) = g[Size(t) + 1]
  BY <1>1, QuotedRuns
<1>4. \A x : LoopTurn("quoted", i, x) = QuotedTurn(x, i)
  BY DEF LoopTurn
<1>5. /\ \A x : At(s, x) /\ x.st = "Ok" => Turned(s, x, LoopTurn("quoted", i, x))
      /\ \A x : At(t, x) /\ x.st = "Ok" => Turned(t, x, LoopTurn("quoted", i, x))
  BY <1>1, <1>4, QuotedTurnFacts
<1>6. \A x, y : Pair(s, t, x, y) => Strong(s, LoopTurn("quoted", i, x), LoopTurn("quoted", i, y))
  BY <1>4, QuotedTurnRel
<1>7. \A x, y : Pair(s, t, x, y) => Loose(s, LoopTurn("quoted", i, x), LoopTurn("quoted", i, y))
  BY <1>6 DEF Strong
<1>8. PICK m, n : m = Size(s) + 1 /\ n = Size(t) + 1
  OBVIOUS
<1>9. Strong(s, f[m], g[n])
  BY <1>2, <1>3, <1>5, <1>6, <1>7, <1>8, LoopRel
<1> QED BY <1>2, <1>3, <1>8, <1>9

LEMMA ParseQuotedFacts ==
  ASSUME NEW s \in Texts, NEW p, At(s, p), p.st = "Ok"
  PROVE  Eats(s, p, ParseQuoted(p))
<1> DEFINE k == ConsumeByte(p, "DQ")
<1>0. Size(s) \in Nat
  BY DEF Texts, Size
<1>1. ParseQuoted(p) = Chain(k, QuotedLoop(k, k.pos))
  BY DEF ParseQuoted, Then, Chain, QuotedLoop
<1>2. Eats(s, p, k)
  BY ConsumeByteFacts DEF Eats
<1> HIDE DEF k
<1>3. k.st = "Ok" => Moves(s, k, QuotedLoop(k, k.pos)) /\ QuotedLoop(k, k.pos).st # "More"
  BY <1>2, EatsFacts, QuotedLoopFacts DEF Sound, Turned
<1> QED BY <1>0, <1>1, <1>2, <1>3, ChainEats

LEMMA ParseQuotedRel ==
  ASSUME NEW s, NEW t, NEW p, NEW q, Pair(s, t, p, q)
  PROVE  Strong(s, ParseQuoted(p), ParseQuoted(q))
<1> DEFINE k == ConsumeByte(p, "DQ")
           l == ConsumeByte(q, "DQ")
<1>0. Cut(s, t) /\ s \in Texts /\ t \in Texts /\ At(s, p) /\ At(t, q) /\ p.st = "Ok" /\ q.st = "Ok"
  BY PairFacts
<1>1. ParseQuoted(p) = Chain(k, QuotedLoop(k, k.pos)) /\ ParseQuoted(q) = Chain(l, QuotedLoop(l, l.pos))
  BY DEF ParseQuoted, Then, Chain, QuotedLoop
<1>2. Eats(s, p, k) /\ Eats(t, q, l)
  BY <1>0, ConsumeByteFacts DEF Eats
<1>3. Strong(s, k, l)
  BY ConsumeByteRel
<1> HIDE DEF k, l
<1>4. l.st = "Ok" => Moves(t, l, QuotedLoop(l, l.pos))
  BY <1>0, <1>2, EatsFacts, QuotedLoopFacts DEF Sound, Turned
<1>5. k.st = "Ok" /\ Same(k, l) => Strong(s, QuotedLoop(k, k.pos), QuotedLoop(l, l.pos))
  <2> SUFFICES ASSUME k.st = "Ok", Same(k, l) PROVE Strong(s, QuotedLoop(k, k.pos), QuotedLoop(l, l.pos))
    OBVIOUS
  <2>1. Pair(s, t, k, l)
    BY <1>0, <1>2, EatsFacts, PairNext
  <2>2. k.pos \in Nat /\ 1 <= k.pos /\ l.pos = k.pos
    BY <2>1, PairFacts
  <2> QED BY <2>1, <2>2, QuotedLoopRel
<1> QED BY <1>0, <1>1, <1>2, <1>3, <1>4, <1>5, EatsFacts, ChainStrong

LEMMA ParseAtomFacts ==
  ASSUME NEW s \in Texts, NEW p, At(s, p), p.st = "Ok"
  PROVE  /\ Eats(s, p, ParseAtom(p))
         /\ ParseAtom(p).st = "Ok" => ParseAtom(p).pos > p.pos /\ ParseAtom(p).pos <= Size(s)
BY TokenFacts DEF ParseAtom, Eats

LEMMA ParseAtomRel ==
  ASSUME NEW s, NEW t, NEW p, NEW q, Pair(s, t, p, q)
  PROVE  Strong(s, ParseAtom(p), ParseAtom(q))
BY TokenRel DEF ParseAtom

LEMMA WaitsEats ==
  ASSUME NEW s, NEW p, At(s, p)
  PROVE  Eats(s, p, Fail(p, "Incomplete"))
BY Waits DEF Eats

LEMMA ParseAstringFacts ==
  ASSUME NEW s \in Texts, NEW p, At(s, p), p.st = "Ok"
  PROVE  Eats(s, p, ParseAstring(p))
<1>0. Size(s) \in Nat
  BY DEF Texts, Size
<1>1. CASE IsEof(p)
  <2>1. ParseAstring(p) = Fail(p, "Incomplete")
    BY <1>0, <1>1, PeekFacts DEF ParseAstring
  <2> QED BY <2>1, WaitsEats
<1>2. CASE ~IsEof(p) /\ Peek(p) = "DQ"
  BY <1>2, ParseQuotedFacts DEF ParseAstring
<1>3. CASE ~IsEof(p) /\ Peek(p) = "{"
  <2> DEFINE l == ParseLiteral(p)
  <2>1. ParseAstring(p) = Chain(l, FromUtf8(l, l.val))
    BY <1>3 DEF ParseAstring, Then, Chain
  <2>2. Eats(s, p, l)
    BY ParseLiteralFacts
  <2> HIDE DEF l
  <2>3. l.st = "Ok" => Moves(s, l, FromUtf8(l, l.val)) /\ FromUtf8(l, l.val).st # "More"
    BY <2>2, EatsFacts, FromUtf8Facts
  <2> QED BY <1>0, <2>1, <2>2, <2>3, ChainEats
<1>4. CASE ~IsEof(p) /\ Peek(p) \notin {"DQ", "{"}
  BY <1>4, ParseAtomFacts DEF ParseAstring
<1> QED BY <1>1, <1>2, <1>3, <1>4

LEMMA ParseAstringRel ==
  ASSUME NEW s, NEW t, NEW p, NEW q, Pair(s, t, p, q)
  PROVE  Strong(s, ParseAstring(p), ParseAstring(q))
<1>0. /\ Size(s) \in Nat /\ Size(t) \in Nat /\ Cut(s, t) /\ s \in Texts /\ t \in Texts /\ At(s, p) /\ At(t, q)
      /\ p.st = "Ok" /\ q.st = "Ok" /\ p.pos = q.pos /\ IsParser(p) /\ IsParser(q)
  BY PairFacts
<1>1. CASE IsEof(p)
  <2>1. ParseAstring(p) = Fail(p, "Incomplete") /\ q.pos = Size(s) + 1
    BY <1>0, <1>1, PeekFacts DEF ParseAstring
  <2>2. Ahead(s, ParseAstring(q))
    BY <1>0, <2>1, ParseAstringFacts, EatsFacts, MovesAhead
  <2> QED BY <1>0, <2>1, <2>2, WaitsAhead
<1>2. ASSUME ~IsEof(p) PROVE ~IsEof(q) /\ Peek(q) = Peek(p)
  BY <1>0, <1>2, PeekRel
<1>3. CASE ~IsEof(p) /\ Peek(p) = "DQ"
  <2>1. ParseAstring(p) = ParseQuoted(p) /\ ParseAstring(q) = ParseQuoted(q)
    BY <1>2, <1>3 DEF ParseAstring
  <2> QED BY <2>1, ParseQuotedRel
<1>4. CASE ~IsEof(p) /\ Peek(p) = "{"
  <2> DEFINE l == ParseLiteral(p)
             m == ParseLiteral(q)
  <2>1. ParseAstring(p) = Chain(l, FromUtf8(l, l.val)) /\ ParseAstring(q) = Chain(m, FromUtf8(m, m.val))
    BY <1>2, <1>4 DEF ParseAstring, Then, Chain
  <2>2. Eats(s, p, l) /\ Eats(t, q, m)
    BY <1>0, ParseLiteralFacts
  <2>3. Strong(s, l, m)
    BY ParseLiteralRel
  <2> HIDE DEF l, m
  <2>4. m.st = "Ok" => Moves(t, m, FromUtf8(m, m.val))
    BY <2>2, EatsFacts, FromUtf8Facts
  <2>5. l.st = "Ok" /\ Same(l, m) => Strong(s, FromUtf8(l, l.val), FromUtf8(m, m.val))
    BY <1>0, <2>2, EatsFacts, PairNext, FromUtf8Rel DEF Same
  <2> QED BY <1>0, <2>1, <2>2, <2>3, <2>4, <2>5, EatsFacts, ChainStrong
<1>5. CASE ~IsEof(p) /\ Peek(p) \notin {"DQ", "{"}
  <2>1. ParseAstring(p) = ParseAtom(p) /\ ParseAstring(q) = ParseAtom(q)
    BY <1>2, <1>5 DEF ParseAstring
  <2> QED BY <2>1, ParseAtomRel
<1> QED BY <1>1, <1>3, <1>4, <1>5

LEMMA RevaluedEats ==
  ASSUME NEW s, NEW p, NEW a, NEW v, Eats(s, p, a)
  PROVE  Eats(s, p, Revalued(a, v)) /\ Revalued(a, v).st = a.st /\ (a.st = "Ok" => Revalued(a, v).val = v)
         /\ Revalued(a, v).pos = a.pos /\ Revalued(a, v).itemsLeft = a.itemsLeft
<1>1. Sound(s, p, a) /\ Hungry(s, p, a) /\ At(s, a) /\ IsParser(a)
  BY EatsFacts
<1>2. Sound(s, p, Revalued(a, v)) /\ Revalued(a, v).st = a.st
  BY <1>1, RevaluedSound
<1>3. At(s, Revalued(a, v)) /\ (a.st = "Ok" => Revalued(a, v).val = v)
      /\ Revalued(a, v).pos = a.pos /\ Revalued(a, v).itemsLeft = a.itemsLeft
  BY <1>1, YieldAt, YieldFacts DEF Revalued, Chain
<1> QED BY <1>1, <1>2, <1>3 DEF Eats, Hungry

\* What an optional value is read from.
NstringSource(p) == CASE Peek(p) = "DQ" -> ParseQuoted(p) [] Peek(p) = "{" -> ParseLiteral(p) [] OTHER -> ExpectNil(p)
NstringValue(p, a) == IF Peek(p) \in {"DQ", "{"} THEN <<a.val>> ELSE <<>>

LEMMA NstringBytesIs ==
  ASSUME NEW p, ~IsEof(p)
  PROVE  ParseNstringBytes(p) = Revalued(NstringSource(p), NstringValue(p, NstringSource(p)))
<1>1. CASE Peek(p) = "DQ"
  BY <1>1 DEF ParseNstringBytes, Revalued, Chain, Then, NstringSource, NstringValue
<1>2. CASE Peek(p) = "{"
  BY <1>2 DEF ParseNstringBytes, Revalued, Chain, Then, NstringSource, NstringValue
<1>3. CASE Peek(p) \notin {"DQ", "{"}
  BY <1>3 DEF ParseNstringBytes, Revalued, Chain, Then, NstringSource, NstringValue
<1> QED BY <1>1, <1>2, <1>3

LEMMA NstringBytesFacts ==
  ASSUME NEW s \in Texts, NEW p, At(s, p), p.st = "Ok"
  PROVE  Eats(s, p, ParseNstringBytes(p))
<1>0. Size(s) \in Nat
  BY DEF Texts, Size
<1>1. CASE IsEof(p)
  <2>1. ParseNstringBytes(p) = Fail(p, "Incomplete")
    BY <1>0, <1>1, PeekFacts DEF ParseNstringBytes
  <2> QED BY <2>1, WaitsEats
<1>2. CASE ~IsEof(p)
  <2>1. Eats(s, p, NstringSource(p))
    BY ParseQuotedFacts, ParseLiteralFacts, ExpectNilFacts DEF NstringSource, Eats
  <2> QED BY <1>2, <2>1, NstringBytesIs, RevaluedEats
<1> QED BY <1>1, <1>2

LEMMA NstringBytesRel ==
  ASSUME NEW s, NEW t, NEW p, NEW q, Pair(s, t, p, q)
  PROVE  /\ Firm(s, ParseNstringBytes(p), ParseNstringBytes(q))
         /\ ParseNstringBytes(p).st = "Ok" /\ ~Same(ParseNstringBytes(p), ParseNstringBytes(q))
              => /\ ParseNstringBytes(p).val = <<>>
                 /\ ParseNstringBytes(q).st = "Ok" => ParseNstringBytes(q).val = <<>>
<1>0. /\ Size(s) \in Nat /\ Size(t) \in Nat /\ Cut(s, t) /\ s \in Texts /\ t \in Texts /\ At(s, p) /\ At(t, q)
      /\ p.st = "Ok" /\ q.st = "Ok" /\ p.pos = q.pos /\ IsParser(p) /\ IsParser(q)
  BY PairFacts
<1>1. CASE IsEof(p)
  <2>1. ParseNstringBytes(p) = Fail(p, "Incomplete") /\ q.pos = Size(s) + 1
    BY <1>0, <1>1, PeekFacts DEF ParseNstringBytes
  <2>2. Ahead(s, ParseNstringBytes(q))
    BY <1>0, <2>1, NstringBytesFacts, EatsFacts, MovesAhead
  <2>3. ParseNstringBytes(p).st = "Incomplete"
    BY <1>0, <2>1, FailFacts
  <2> QED BY <1>0, <2>1, <2>2, <2>3, WaitsAhead, StrongIsFirm
<1>2. CASE ~IsEof(p)
  <2> DEFINE a == NstringSource(p)
             b == NstringSource(q)
             v == NstringValue(p, a)
             w == NstringValue(q, b)
  <2>1. ~IsEof(q) /\ Peek(q) = Peek(p)
    BY <1>0, <1>2, PeekRel
  <2>2. ParseNstringBytes(p) = Revalued(a, v) /\ ParseNstringBytes(q) = Revalued(b, w)
    BY <1>2, <2>1, NstringBytesIs
  <2>3. Eats(s, p, a) /\ Eats(t, q, b)
    BY <1>0, ParseQuotedFacts, ParseLiteralFacts, ExpectNilFacts DEF NstringSource, Eats
  <2>4. Firm(s, a, b)
    <3>1. CASE Peek(p) = "DQ"
      BY <2>1, <3>1, ParseQuotedRel, StrongIsFirm DEF NstringSource
    <3>2. CASE Peek(p) = "{"
      BY <2>1, <3>2, ParseLiteralRel, StrongIsFirm DEF NstringSource
    <3>3. CASE Peek(p) \notin {"DQ", "{"}
      BY <2>1, <3>3, ExpectNilRel DEF NstringSource
    <3> QED BY <3>1, <3>2, <3>3
  <2>5. Peek(p) \in {"DQ", "{"} => Strong(s, a, b)
    BY <2>1, ParseQuotedRel, ParseLiteralRel DEF NstringSource
  <2>6. a.st = "Ok" /\ Same(a, b) => v = w
    BY <2>1 DEF Same, NstringValue
  <2>7. Peek(p) \notin {"DQ", "{"} => v = <<>> /\ w = <<>>
    BY <2>1 DEF NstringValue
  <2> HIDE DEF a, b, v, w
  <2>8. /\ IsParser(a) /\ IsParser(b) /\ a.st # "More" /\ b.st # "More"
        /\ Revalued(a, v).st = a.st /\ Revalued(b, w).st = b.st
        /\ (a.st = "Ok" => Revalued(a, v).val = v) /\ (b.st = "Ok" => Revalued(b, w).val = w)
    BY <2>3, EatsFacts, RevaluedEats
  <2>9. Firm(s, Revalued(a, v), Revalued(b, w))
    BY <2>4, <2>6, <2>8, RevaluedRel
  <2>10. Peek(p) \in {"DQ", "{"} => Strong(s, Revalued(a, v), Revalued(b, w))
    BY <2>5, <2>6, <2>8, RevaluedRel
  <2>11. ASSUME Revalued(a, v).st = "Ok", ~Same(Revalued(a, v), Revalued(b, w))
         PROVE  Revalued(a, v).val = <<>> /\ (Revalued(b, w).st = "Ok" => Revalued(b, w).val = <<>>)
    <3>1. Peek(p) \notin {"DQ", "{"}
      BY <2>10, <2>11 DEF Strong, Going
    <3> QED BY <2>7, <2>8, <2>11, <3>1
  <2> QED BY <2>2, <2>9, <2>11
<1> QED BY <1>1, <1>2

\* An nstring as text.
NstringText(a) ==
  IF a.val = <<>> THEN a ELSE Revalued(FromUtf8(a, a.val[1]), <<FromUtf8(a, a.val[1]).val>>)

LEMMA NstringTextFacts ==
  ASSUME NEW s, NEW a, At(s, a), a.st = "Ok"
  PROVE  Moves(s, a, NstringText(a)) /\ NstringText(a).st # "More" /\ At(s, NstringText(a))
<1> DEFINE b == FromUtf8(a, a.val[1])
<1>1. At(s, b) /\ b.st \in {"Ok", "Other"} /\ b.pos = a.pos /\ IsParser(b)
  BY FromUtf8Facts DEF At
<1>2. NstringText(a) = IF a.val = <<>> THEN a ELSE Revalued(b, <<b.val>>)
  BY DEF NstringText
<1>3. a.pos \in Nat
  BY DEF At
<1> HIDE DEF b
<1>4. At(s, Revalued(b, <<b.val>>)) /\ Revalued(b, <<b.val>>).pos = a.pos /\ Revalued(b, <<b.val>>).st = b.st
  BY <1>1, YieldAt, YieldFacts DEF Revalued, Chain
<1> QED BY <1>1, <1>2, <1>3, <1>4 DEF Moves, Going

LEMMA NstringTextRel ==
  ASSUME NEW s, NEW t, NEW a, NEW b, Pair(s, t, a, b)
  PROVE  Strong(s, NstringText(a), NstringText(b))
<1> DEFINE c == FromUtf8(a, a.val[1])
           d == FromUtf8(b, b.val[1])
<1>0. a.val = b.val /\ At(s, a) /\ At(t, b) /\ a.st = "Ok" /\ b.st = "Ok" /\ Same(a, b)
  BY PairFacts
<1>1. CASE a.val = <<>>
  BY <1>0, <1>1, SameIsStrong DEF NstringText
<1>2. CASE a.val # <<>>
  <2>1. NstringText(a) = Revalued(c, <<c.val>>) /\ NstringText(b) = Revalued(d, <<d.val>>)
    BY <1>0, <1>2 DEF NstringText
  <2>2. Strong(s, c, d)
    BY <1>0, FromUtf8Rel
  <2>3. IsParser(c) /\ IsParser(d) /\ c.st # "More" /\ d.st # "More"
    BY <1>0, FromUtf8Facts DEF At
  <2> HIDE DEF c, d
  <2>4. c.st = "Ok" /\ Same(c, d) => <<c.val>> = <<d.val>>
    BY DEF Same
  <2> QED BY <2>1, <2>2, <2>3, <2>4, RevaluedRel
<1> QED BY <1>1, <1>2

LEMMA ParseNstringFacts ==
  ASSUME NEW s \in Texts, NEW p, At(s, p), p.st = "Ok"
  PROVE  Eats(s, p, ParseNstring(p))
<1> DEFINE a == ParseNstringBytes(p)
<1>0. Size(s) \in Nat
  BY DEF Texts, Size
<1>1. ParseNstring(p) = Chain(a, NstringText(a))
  BY DEF ParseNstring, Then, Chain, NstringText, Revalued
<1>2. Eats(s, p, a)
  BY NstringBytesFacts
<1> HIDE DEF a
<1>3. a.st = "Ok" => Moves(s, a, NstringText(a)) /\ NstringText(a).st # "More"
  BY <1>2, EatsFacts, NstringTextFacts
<1> QED BY <1>0, <1>1, <1>2, <1>3, ChainEats

LEMMA ParseNstringRel ==
  ASSUME NEW s, NEW t, NEW p, NEW q, Pair(s, t, p, q)
  PROVE  Loose(s, ParseNstring(p), ParseNstring(q))
<1> DEFINE a == ParseNstringBytes(p)
           b == ParseNstringBytes(q)
<1>0. Cut(s, t) /\ s \in Texts /\ t \in Texts /\ At(s, p) /\ At(t, q) /\ p.st = "Ok" /\ q.st = "Ok"
  BY PairFacts
<1>1. ParseNstring(p) = Chain(a, NstringText(a)) /\ ParseNstring(q) = Chain(b, NstringText(b))
  BY DEF ParseNstring, Then, Chain, NstringText, Revalued
<1>2. Eats(s, p, a) /\ Eats(t, q, b)
  BY <1>0, NstringBytesFacts
<1>3. /\ Firm(s, a, b)
      /\ a.st = "Ok" /\ ~Same(a, b) => a.val = <<>> /\ (b.st = "Ok" => b.val = <<>>)
  BY NstringBytesRel
<1> HIDE DEF a, b
<1>4. CASE a.st = "Ok" /\ ~Same(a, b)
  <2>1. Chain(a, NstringText(a)) = a /\ Chain(b, NstringText(b)) = b
    BY <1>3, <1>4 DEF Chain, NstringText
  <2> QED BY <1>1, <1>3, <2>1 DEF Firm
<1>5. CASE a.st # "Ok" \/ Same(a, b)
  <2>1. Strong(s, a, b)
    BY <1>2, <1>3, <1>5, EatsFacts DEF Firm, Strong, Going
  <2>2. b.st = "Ok" => Moves(t, b, NstringText(b))
    BY <1>2, EatsFacts, NstringTextFacts
  <2>3. a.st = "Ok" /\ Same(a, b) => Strong(s, NstringText(a), NstringText(b))
    BY <1>0, <1>2, EatsFacts, PairNext, NstringTextRel
  <2>4. Strong(s, Chain(a, NstringText(a)), Chain(b, NstringText(b)))
    BY <1>0, <1>2, <2>1, <2>2, <2>3, EatsFacts, ChainStrong
  <2> QED BY <1>1, <2>4 DEF Strong
<1> QED BY <1>4, <1>5

-------------------------------------------------------------------------------
(* Parenthesised lists. *)

ListTail(p, w) == IF Peek(p) = ")" THEN Yield(Advance(p, 1), <<>>) ELSE w

LEMMA ListTailFacts ==
  ASSUME NEW s \in Texts, NEW p, At(s, p), p.st = "Ok", NEW w, Eats(s, Yield(p, <<>>), w)
  PROVE  Eats(s, p, ListTail(p, w))
<1>0. Size(s) \in Nat
  BY DEF Texts, Size
<1>1. CASE Peek(p) = ")"
  <2>1. ~IsEof(p)
    BY <1>0, <1>1, PeekFacts
  <2>2. At(s, Advance(p, 1)) /\ Advance(p, 1).pos = p.pos + 1 /\ Advance(p, 1).st = "Ok"
    BY <1>0, <2>1, AdvanceOne
  <2>3. /\ At(s, Yield(Advance(p, 1), <<>>)) /\ Yield(Advance(p, 1), <<>>).pos = p.pos + 1
        /\ Yield(Advance(p, 1), <<>>).st = "Ok"
    BY <2>2, YieldAt, YieldFacts DEF At
  <2>4. Yield(Advance(p, 1), <<>>).pos > p.pos
    BY <2>3 DEF At
  <2>5. ListTail(p, w) = Yield(Advance(p, 1), <<>>)
    BY <1>1 DEF ListTail
  <2> QED BY <1>0, <2>3, <2>4, <2>5, Moved DEF Eats, Sound
<1>2. CASE Peek(p) # ")"
  <2>1. ListTail(p, w) = w
    BY <1>2 DEF ListTail
  <2>2. Yield(p, <<>>).pos = p.pos
    BY YieldFacts DEF At
  <2> QED BY <2>1, <2>2 DEF Eats, Sound, Turned, Moves, Hungry
<1> QED BY <1>1, <1>2

LEMMA ListTailRel ==
  ASSUME NEW s, NEW t, NEW p, NEW q, Pair(s, t, p, q), NEW w, NEW v,
         Eats(s, Yield(p, <<>>), w), Eats(t, Yield(q, <<>>), v), Strong(s, w, v)
  PROVE  Strong(s, ListTail(p, w), ListTail(q, v))
<1>0. /\ Size(s) \in Nat /\ Size(t) \in Nat /\ Cut(s, t) /\ s \in Texts /\ t \in Texts /\ At(s, p) /\ At(t, q)
      /\ p.st = "Ok" /\ q.st = "Ok" /\ p.pos = q.pos /\ IsParser(p) /\ IsParser(q)
  BY PairFacts
<1>1. CASE IsEof(p)
  <2>1. Peek(p) # ")" /\ q.pos = Size(s) + 1 /\ p.pos = Size(s) + 1
    BY <1>0, <1>1, PeekFacts
  <2>2. ListTail(p, w).st = "Incomplete"
    BY <1>0, <2>1, ListTailFacts DEF Eats, Hungry
  <2>3. Ahead(s, ListTail(q, v))
    BY <1>0, <2>1, ListTailFacts, EatsFacts, MovesAhead
  <2> QED BY <2>2, <2>3 DEF Strong, Loose, Wrong, Going
<1>2. CASE ~IsEof(p) /\ Peek(p) = ")"
  <2>1. Peek(q) = ")"
    BY <1>0, <1>2, PeekRel
  <2>2. ListTail(p, w) = Yield(Advance(p, 1), <<>>) /\ ListTail(q, v) = Yield(Advance(q, 1), <<>>)
    BY <1>2, <2>1 DEF ListTail
  <2>3. Same(Advance(p, 1), Advance(q, 1)) /\ Advance(p, 1).st = "Ok"
    BY AdvanceSame
  <2>4. IsParser(Advance(p, 1)) /\ IsParser(Advance(q, 1))
    BY <1>0, AdvanceFacts
  <2>5. Same(Yield(Advance(p, 1), <<>>), Yield(Advance(q, 1), <<>>)) /\ Yield(Advance(p, 1), <<>>).st = "Ok"
    BY <2>3, <2>4, YieldSame
  <2> QED BY <2>2, <2>5, SameIsStrong
<1>3. CASE ~IsEof(p) /\ Peek(p) # ")"
  <2>1. Peek(q) # ")"
    BY <1>0, <1>3, PeekRel
  <2> QED BY <1>3, <2>1 DEF ListTail
<1> QED BY <1>1, <1>2, <1>3

LEMMA YieldPair ==
  ASSUME NEW s, NEW t, NEW p, NEW q, Pair(s, t, p, q), NEW v
  PROVE  Pair(s, t, Yield(p, v), Yield(q, v))
<1>1. IsParser(p) /\ IsParser(q) /\ At(s, p) /\ At(t, q) /\ Same(p, q) /\ Cut(s, t) /\ p.st = "Ok"
  BY PairFacts
<1>2. At(s, Yield(p, v)) /\ At(t, Yield(q, v))
  BY <1>1, YieldAt
<1>3. Same(Yield(p, v), Yield(q, v)) /\ Yield(p, v).st = "Ok"
  BY <1>1, YieldSame
<1> QED BY <1>1, <1>2, <1>3, PairNext

LEMMA FlagTurnFacts ==
  ASSUME NEW s \in Texts, NEW p, At(s, p), p.st = "Ok"
  PROVE  /\ Turned(s, p, ItemEnds(ParseFlagOrAtom(p), p.val))
         /\ Hungry(s, p, ItemEnds(ParseFlagOrAtom(p), p.val))
<1>0. Size(s) \in Nat
  BY DEF Texts, Size
<1> QED BY <1>0, FlagFacts, ItemEndsFacts

LEMMA FlagTurnRel ==
  ASSUME NEW s, NEW t, NEW p, NEW q, Pair(s, t, p, q)
  PROVE  Strong(s, ItemEnds(ParseFlagOrAtom(p), p.val), ItemEnds(ParseFlagOrAtom(q), q.val))
<1>0. Cut(s, t) /\ s \in Texts /\ t \in Texts /\ At(s, p) /\ At(t, q) /\ p.st = "Ok" /\ q.st = "Ok" /\ p.val = q.val
  BY PairFacts
<1>1. Eats(s, p, ParseFlagOrAtom(p)) /\ Eats(t, q, ParseFlagOrAtom(q))
  BY <1>0, FlagFacts
<1>2. Firm(s, ParseFlagOrAtom(p), ParseFlagOrAtom(q))
  BY FlagRel, StrongIsFirm
<1> QED BY <1>0, <1>1, <1>2, EatsFacts, ItemEndsRel

FlagsLoop(p, i) == While(p, LAMBDA r : ItemEnds(ParseFlagOrAtom(r), r.val))

LEMMA FlagsRuns ==
  ASSUME NEW s, Size(s) \in Nat, NEW p, At(s, p), NEW i
  PROVE  \E f : Runs(f, "flags", i, p, Size(s) + 1) /\ FlagsLoop(p, i) = f[Size(s) + 1]
<1> DEFINE E(f) == f = [n \in 0 .. Len(p.input) + 1 |->
                          IF n = 0 THEN GoOn(p)
                          ELSE IF f[n - 1].st = "More" THEN ItemEnds(ParseFlagOrAtom(Resume(f[n - 1])), Resume(f[n - 1]).val) ELSE f[n - 1]]
<1>0. Len(p.input) = Size(s)
  BY DEF At, Size
<1>1. FlagsLoop(p, i) = (CHOOSE f : E(f))[Len(p.input) + 1]
  BY DEF While, FlagsLoop
<1>2. \A f : E(f) <=> Runs(f, "flags", i, p, Len(p.input) + 1)
  BY DEF Runs, LoopStep, LoopTurn
<1>3. PICK n \in Nat : n = Len(p.input) + 1
  BY <1>0
<1>4. PICK g : Runs(g, "flags", i, p, n)
  BY RunsExists
<1>5. E(g)
  BY <1>2, <1>3, <1>4
<1> HIDE DEF E
<1>6. E(CHOOSE f : E(f))
  BY <1>5
<1> QED BY <1>0, <1>1, <1>2, <1>6

LEMMA FlagsLoopFacts ==
  ASSUME NEW s \in Texts, NEW p, At(s, p), NEW i
  PROVE  Sound(s, p, FlagsLoop(p, i)) /\ At(s, FlagsLoop(p, i)) /\ Hungry(s, p, FlagsLoop(p, i))
<1>1. Size(s) \in Nat
  BY DEF Texts, Size
<1>2. PICK f : Runs(f, "flags", i, p, Size(s) + 1) /\ FlagsLoop(p, i) = f[Size(s) + 1]
  BY <1>1, FlagsRuns
<1>3. \A x : LoopTurn("flags", i, x) = ItemEnds(ParseFlagOrAtom(x), x.val)
  BY DEF LoopTurn
<1>4. \A x : At(s, x) /\ x.st = "Ok" => Turned(s, x, LoopTurn("flags", i, x)) /\ Hungry(s, x, LoopTurn("flags", i, x))
  BY <1>1, <1>3, FlagTurnFacts
<1>5. PICK n : n = Size(s) + 1
  OBVIOUS
<1>6. Sound(s, p, f[n]) /\ At(s, f[n]) /\ Hungry(s, p, f[n])
  BY <1>1, <1>2, <1>4, <1>5, LoopFacts
<1> QED BY <1>2, <1>5, <1>6

LEMMA FlagsLoopRel ==
  ASSUME NEW s, NEW t, NEW p, NEW q, Pair(s, t, p, q), NEW i
  PROVE  Strong(s, FlagsLoop(p, i), FlagsLoop(q, i))
<1>1. Size(s) \in Nat /\ Size(t) \in Nat /\ At(s, p) /\ At(t, q) /\ s \in Texts /\ t \in Texts
  BY PairFacts
<1>2. PICK f : Runs(f, "flags", i, p, Size(s) + 1) /\ FlagsLoop(p, i) = f[Size(s) + 1]
  BY <1>1, FlagsRuns
<1>3. PICK g : Runs(g, "flags", i, q, Size(t) + 1) /\ FlagsLoop(q, i) = g[Size(t) + 1]
  BY <1>1, FlagsRuns
<1>4. \A x : LoopTurn("flags", i, x) = ItemEnds(ParseFlagOrAtom(x), x.val)
  BY DEF LoopTurn
<1>5. /\ \A x : At(s, x) /\ x.st = "Ok" => Turned(s, x, LoopTurn("flags", i, x))
      /\ \A x : At(t, x) /\ x.st = "Ok" => Turned(t, x, LoopTurn("flags", i, x))
  BY <1>1, <1>4, FlagTurnFacts
<1>6. \A x, y : Pair(s, t, x, y) => Strong(s, LoopTurn("flags", i, x), LoopTurn("flags", i, y))
  BY <1>4, FlagTurnRel
<1>7. \A x, y : Pair(s, t, x, y) => Loose(s, LoopTurn("flags", i, x), LoopTurn("flags", i, y))
  BY <1>6 DEF Strong
<1>8. PICK m, n : m = Size(s) + 1 /\ n = Size(t) + 1
  OBVIOUS
<1>9. Strong(s, f[m], g[n])
  BY <1>2, <1>3, <1>5, <1>6, <1>7, <1>8, LoopRel
<1> QED BY <1>2, <1>3, <1>8, <1>9

LEMMA AtomListFacts ==
  ASSUME NEW s \in Texts, NEW p, At(s, p), p.st = "Ok"
  PROVE  Eats(s, p, ParseParenAtomList(p))
<1> DEFINE k == ConsumeByte(p, "(")
           w == FlagsLoop(Yield(k, <<>>), 0)
<1>0. Size(s) \in Nat
  BY DEF Texts, Size
<1>1. ParseParenAtomList(p) = Chain(k, ListTail(k, w))
  BY DEF ParseParenAtomList, ParenList, Then, Chain, ListTail, FlagsLoop
<1>2. Eats(s, p, k)
  BY ConsumeByteFacts DEF Eats
<1> HIDE DEF k
<1>3. k.st = "Ok" => Eats(s, Yield(k, <<>>), w)
  BY <1>2, EatsFacts, YieldAt, FlagsLoopFacts DEF Eats
<1> HIDE DEF w
<1>4. k.st = "Ok" => Eats(s, k, ListTail(k, w))
  BY <1>2, <1>3, EatsFacts, ListTailFacts
<1> QED BY <1>0, <1>1, <1>2, <1>4, EatsFacts, ChainEats

LEMMA AtomListRel ==
  ASSUME NEW s, NEW t, NEW p, NEW q, Pair(s, t, p, q)
  PROVE  Strong(s, ParseParenAtomList(p), ParseParenAtomList(q))
<1> DEFINE k == ConsumeByte(p, "(")
           l == ConsumeByte(q, "(")
           w == FlagsLoop(Yield(k, <<>>), 0)
           v == FlagsLoop(Yield(l, <<>>), 0)
<1>0. Cut(s, t) /\ s \in Texts /\ t \in Texts /\ At(s, p) /\ At(t, q) /\ p.st = "Ok" /\ q.st = "Ok"
  BY PairFacts
<1>1. ParseParenAtomList(p) = Chain(k, ListTail(k, w)) /\ ParseParenAtomList(q) = Chain(l, ListTail(l, v))
  BY DEF ParseParenAtomList, ParenList, Then, Chain, ListTail, FlagsLoop
<1>2. Eats(s, p, k) /\ Eats(t, q, l)
  BY <1>0, ConsumeByteFacts DEF Eats
<1>3. Strong(s, k, l)
  BY ConsumeByteRel
<1> HIDE DEF k, l
<1>4. (k.st = "Ok" => Eats(s, Yield(k, <<>>), w)) /\ (l.st = "Ok" => Eats(t, Yield(l, <<>>), v))
  BY <1>0, <1>2, EatsFacts, YieldAt, FlagsLoopFacts DEF Eats
<1>5. k.st = "Ok" /\ Same(k, l) => Pair(s, t, k, l) /\ Strong(s, w, v) /\ l.st = "Ok"
  BY <1>0, <1>2, EatsFacts, PairNext, YieldPair, FlagsLoopRel DEF Same
<1> HIDE DEF w, v
<1>6. l.st = "Ok" => Moves(t, l, ListTail(l, v))
  BY <1>0, <1>2, <1>4, EatsFacts, ListTailFacts
<1>7. k.st = "Ok" /\ Same(k, l) => Strong(s, ListTail(k, w), ListTail(l, v))
  BY <1>4, <1>5, ListTailRel
<1> QED BY <1>0, <1>1, <1>2, <1>3, <1>6, <1>7, EatsFacts, ChainStrong

-------------------------------------------------------------------------------
(* Balanced parentheses. *)

LEMMA ChainPast ==
  ASSUME NEW s, NEW p, At(s, p), NEW a, NEW c, At(s, a), a.st = "Ok" => a.pos > p.pos /\ Moves(s, a, c), Chain(a, c).st = "Ok"
  PROVE  Chain(a, c).pos > p.pos
BY DEF Chain, Moves, At, Going

LEMMA QuotedPast ==
  ASSUME NEW s \in Texts, NEW p, At(s, p), p.st = "Ok", ParseQuoted(p).st = "Ok"
  PROVE  ParseQuoted(p).pos > p.pos
<1> DEFINE k == ConsumeByte(p, "DQ")
<1>0. Size(s) \in Nat /\ p.pos \in Nat
  BY DEF Texts, Size, At
<1>1. ParseQuoted(p) = Chain(k, QuotedLoop(k, k.pos))
  BY DEF ParseQuoted, Then, Chain, QuotedLoop
<1>2. At(s, k) /\ (k.st = "Ok" => k.pos > p.pos)
  BY <1>0, ConsumeByteFacts
<1> HIDE DEF k
<1>3. k.st = "Ok" => Moves(s, k, QuotedLoop(k, k.pos))
  BY <1>2, QuotedLoopFacts DEF Sound, Turned
<1> QED BY <1>1, <1>2, <1>3, ChainPast

LEMMA LiteralPast ==
  ASSUME NEW s \in Texts, NEW p, At(s, p), p.st = "Ok", ParseLiteral(p).st = "Ok"
  PROVE  ParseLiteral(p).pos > p.pos
<1> DEFINE k == ConsumeByte(p, "{")
           a == Chain(k, ParseNumber(k))
           m == ConsumeByte(a, "}")
           b == Chain(m, ConsumeCrlf(m))
           c == Chain(b, LiteralOctets(b, a.val))
<1>0. Size(s) \in Nat /\ p.pos \in Nat
  BY DEF Texts, Size, At
<1>1. ParseLiteral(p) = Chain(a, c)
  BY DEF ParseLiteral, Then, Chain
<1>2. At(s, k) /\ (k.st = "Ok" => k.pos > p.pos)
  <2>1. "{" # "EOF"
    OBVIOUS
  <2>2. At(s, k)
    BY <2>1, ConsumeByteFacts
  <2>3. k.st = "Ok" => k.pos = p.pos + 1
    BY <2>1, ConsumeByteFacts
  <2> HIDE DEF k
  <2> QED BY <1>0, <2>2, <2>3
<1>3. k.st = "Ok" => Moves(s, k, ParseNumber(k)) /\ At(s, ParseNumber(k)) /\ (ParseNumber(k).st = "Ok" => ParseNumber(k).val \in Nat)
  BY <1>2, ParseNumberFacts DEF Sound, Turned
<1>4. At(s, a) /\ (a.st = "Ok" => a.pos > p.pos /\ a.val \in Nat)
  <2>1. At(s, a)
    BY <1>2, <1>3 DEF Chain
  <2>2. a.st = "Ok" => a.pos > p.pos
    BY <1>2, <1>3, ChainPast
  <2> QED BY <1>2, <1>3, <2>1, <2>2 DEF Chain
<1> HIDE DEF a
<1>5. a.st = "Ok" => Moves(s, a, c)
  <2> SUFFICES ASSUME a.st = "Ok" PROVE Moves(s, a, c)
    OBVIOUS
  <2>1. At(s, m) /\ Moves(s, a, m)
    BY <1>4, ConsumeByteFacts DEF Sound, Turned
  <2> HIDE DEF m
  <2>2. m.st = "Ok" => Moves(s, m, ConsumeCrlf(m)) /\ At(s, ConsumeCrlf(m))
    BY <2>1, ConsumeCrlfFacts DEF Sound, Turned
  <2>3. Moves(s, a, b) /\ At(s, b)
    BY <1>0, <1>4, <2>1, <2>2, ChainMoves DEF Chain
  <2> HIDE DEF b
  <2>4. b.st = "Ok" => Moves(s, b, LiteralOctets(b, a.val))
    BY <1>4, <2>3, LiteralOctetsFacts
  <2> QED BY <1>0, <1>4, <2>3, <2>4, ChainMoves
<1> HIDE DEF c
<1> QED BY <1>1, <1>4, <1>5, ChainPast

Inside(a, d) == GoOn(Yield(a, d))

LEMMA InsideFacts ==
  ASSUME NEW s, NEW a, At(s, a), NEW d
  PROVE  At(s, Inside(a, d)) /\ Inside(a, d).pos = a.pos /\ Inside(a, d).st = "More"
BY YieldAt, YieldFacts, GoOnAt DEF Inside, At

LEMMA InsideSame ==
  ASSUME NEW a, NEW b, IsParser(a), IsParser(b), Same(a, b), NEW d
  PROVE  Same(Inside(a, d), Inside(b, d)) /\ Inside(a, d).st = "More"
<1>1. Same(Yield(a, d), Yield(b, d)) /\ IsParser(Yield(a, d)) /\ IsParser(Yield(b, d))
  BY YieldSame, YieldFacts
<1> QED BY <1>1, GoOnSame DEF Inside

\* A result, and on.
LEMMA InsideChain ==
  ASSUME NEW s, Size(s) \in Nat, NEW p, At(s, p), NEW a, Eats(s, p, a), a.st = "Ok" => a.pos > p.pos, NEW d
  PROVE  Turned(s, p, Chain(a, Inside(a, d)))
<1>1. At(s, a) /\ Turned(s, p, a)
  BY EatsFacts
<1>2. CASE a.st = "Ok"
  <2>1. At(s, Inside(a, d)) /\ Inside(a, d).pos > p.pos
    BY <1>1, <1>2, InsideFacts
  <2> QED BY <1>2, <2>1, Moved DEF Chain
<1>3. CASE a.st # "Ok"
  BY <1>1, <1>3 DEF Chain
<1> QED BY <1>2, <1>3

LEMMA InsideChainRel ==
  ASSUME NEW s, NEW t, Cut(s, t), NEW a, NEW b, At(s, a), At(t, b), a.st # "More", b.st # "More",
         NEW d, NEW e, a.st = "Ok" /\ Same(a, b) => d = e
  PROVE  /\ Strong(s, a, b) => Strong(s, Chain(a, Inside(a, d)), Chain(b, Inside(b, e)))
         /\ Loose(s, a, b) => Loose(s, Chain(a, Inside(a, d)), Chain(b, Inside(b, e)))
<1>0. IsParser(a) /\ IsParser(b) /\ Size(s) \in Nat
  BY DEF At, Cut
<1>1. a.st = "Ok" => Inside(a, d).pos = a.pos /\ Inside(a, d).st = "More"
  BY InsideFacts
<1>2. b.st = "Ok" => Inside(b, e).pos = b.pos /\ Inside(b, e).st = "More"
  BY InsideFacts
<1>3. a.st = "Ok" /\ Same(a, b) => Same(Inside(a, d), Inside(b, e)) /\ b.st = "Ok"
  BY <1>0, InsideSame DEF Same
<1>4. Ahead(s, b) => Ahead(s, Chain(b, Inside(b, e)))
  BY <1>2 DEF Ahead, Chain, Going
<1>5. Wrong(b) => Wrong(Chain(b, Inside(b, e)))
  BY DEF Wrong, Chain
<1>6. CASE a.st = "Ok"
  BY <1>1, <1>3, <1>4, <1>6 DEF Strong, Loose, Wrong, Chain, Going
<1>7. CASE a.st # "Ok"
  BY <1>4, <1>5, <1>7 DEF Strong, Loose, Wrong, Chain, Going
<1> QED BY <1>6, <1>7

\* The depth after the symbol c.
Depth(c, d) == CASE c = "(" -> d + 1 [] c = ")" -> d - 1 [] OTHER -> d

\* A line break or one parenthesis too many ends the loop, with this error.
Blocked(p) == Peek(p) \in LineBreak \/ (Peek(p) = "(" /\ p.val = MaxU32)
BlockedBy(p) == IF Peek(p) \in LineBreak THEN "Malformed" ELSE "Other"

LEMMA ParensTurnIs ==
  ASSUME NEW p, NEW i, p.val # 0, ~IsEof(p)
  PROVE  /\ Peek(p) = "DQ" => ParensTurn(p, i) = Chain(ParseQuoted(p), Inside(ParseQuoted(p), p.val))
         /\ Peek(p) = "{" => ParensTurn(p, i) = Chain(ParseLiteral(p), Inside(ParseLiteral(p), p.val))
         /\ Blocked(p) => ParensTurn(p, i) = Fail(p, BlockedBy(p))
         /\ ~Blocked(p) /\ Peek(p) \notin {"DQ", "{"}
              => ParensTurn(p, i) = Inside(Advance(p, 1), Depth(Peek(p), p.val))
<1>1. Peek(p) = "DQ" => ParensTurn(p, i) = Chain(ParseQuoted(p), Inside(ParseQuoted(p), p.val))
  BY DEF ParensTurn, Inside, Then, Chain, LineBreak
<1>2. Peek(p) = "{" => ParensTurn(p, i) = Chain(ParseLiteral(p), Inside(ParseLiteral(p), p.val))
  BY DEF ParensTurn, Inside, Then, Chain, LineBreak
<1>3. Blocked(p) => ParensTurn(p, i) = Fail(p, BlockedBy(p))
  BY DEF ParensTurn, LineBreak, Blocked, BlockedBy
<1>4. ~Blocked(p) /\ Peek(p) \notin {"DQ", "{"}
              => ParensTurn(p, i) = Inside(Advance(p, 1), Depth(Peek(p), p.val))
  BY DEF ParensTurn, Inside, Depth, Blocked
<1> QED BY <1>1, <1>2, <1>3, <1>4

LEMMA ParensTurnFacts ==
  ASSUME NEW s \in Texts, NEW p, At(s, p), p.st = "Ok", NEW i
  PROVE  Turned(s, p, ParensTurn(p, i))
<1>0. Size(s) \in Nat /\ p.pos \in Nat
  BY DEF Texts, Size, At
<1>1. CASE p.val = 0
  <2>1. ParensTurn(p, i) = Yield(p, Taken(p, i))
    BY <1>1 DEF ParensTurn
  <2>2. At(s, Yield(p, Taken(p, i))) /\ Yield(p, Taken(p, i)).pos = p.pos /\ Yield(p, Taken(p, i)).st = "Ok"
    BY YieldAt, YieldFacts DEF At
  <2> QED BY <1>0, <2>1, <2>2 DEF Turned, Moves
<1>2. CASE p.val # 0 /\ IsEof(p)
  <2>1. ParensTurn(p, i) = Fail(p, "Incomplete")
    BY <1>0, <1>2, PeekFacts DEF ParensTurn, LineBreak
  <2> QED BY <2>1, Waits DEF Sound
<1>3. CASE p.val # 0 /\ ~IsEof(p)
  <2>1. CASE Peek(p) = "DQ"
    <3>1. Turned(s, p, Chain(ParseQuoted(p), Inside(ParseQuoted(p), p.val)))
      BY <1>0, ParseQuotedFacts, QuotedPast, InsideChain
    <3> QED BY <1>3, <2>1, <3>1, ParensTurnIs
  <2>2. CASE Peek(p) = "{"
    <3>1. Turned(s, p, Chain(ParseLiteral(p), Inside(ParseLiteral(p), p.val)))
      BY <1>0, ParseLiteralFacts, LiteralPast, InsideChain
    <3> QED BY <1>3, <2>2, <3>1, ParensTurnIs
  <2>3. CASE Blocked(p)
    <3>1. p.pos # Size(s) + 1 /\ BlockedBy(p) \notin Going
      BY <1>0, <1>3, PeekFacts DEF Going, BlockedBy
    <3>2. ParensTurn(p, i) = Fail(p, BlockedBy(p))
      BY <1>3, <2>3, ParensTurnIs
    <3>3. Sound(s, p, Fail(p, BlockedBy(p)))
      BY <3>1, Refuses
    <3> QED BY <3>2, <3>3 DEF Sound
  <2>4. CASE ~Blocked(p) /\ Peek(p) \notin {"DQ", "{"}
    <3>1. At(s, Advance(p, 1)) /\ Advance(p, 1).pos = p.pos + 1
      BY <1>0, <1>3, AdvanceOne
    <3>2. /\ At(s, Inside(Advance(p, 1), Depth(Peek(p), p.val)))
          /\ Inside(Advance(p, 1), Depth(Peek(p), p.val)).pos > p.pos
      BY <1>0, <3>1, InsideFacts
    <3>3. Turned(s, p, Inside(Advance(p, 1), Depth(Peek(p), p.val)))
      BY <1>0, <3>2, Moved
    <3> QED BY <1>3, <2>4, <3>3, ParensTurnIs
  <2> QED BY <2>1, <2>2, <2>3, <2>4
<1> QED BY <1>1, <1>2, <1>3

LEMMA ParensTurnRel ==
  ASSUME NEW s, NEW t, NEW p, NEW q, Pair(s, t, p, q), NEW i \in Nat, 1 <= i
  PROVE  Strong(s, ParensTurn(p, i), ParensTurn(q, i))
<1>0. /\ Size(s) \in Nat /\ Size(t) \in Nat /\ Cut(s, t) /\ s \in Texts /\ t \in Texts /\ At(s, p) /\ At(t, q)
      /\ p.st = "Ok" /\ q.st = "Ok" /\ p.pos = q.pos /\ IsParser(p) /\ IsParser(q) /\ p.val = q.val /\ Same(p, q)
  BY PairFacts
<1>1. CASE p.val = 0
  <2>1. ParensTurn(p, i) = Yield(p, Taken(p, i)) /\ ParensTurn(q, i) = Yield(q, Taken(q, i))
    BY <1>0, <1>1 DEF ParensTurn
  <2>2. Taken(p, i) = Taken(q, i)
    BY <1>0, TakenSame
  <2> QED BY <1>0, <2>1, <2>2, YieldSame, SameIsStrong
<1>2. CASE p.val # 0 /\ IsEof(p)
  <2>1. ParensTurn(p, i) = Fail(p, "Incomplete") /\ q.pos = Size(s) + 1
    BY <1>0, <1>2, PeekFacts DEF ParensTurn, LineBreak
  <2>2. Ahead(s, ParensTurn(q, i))
    BY <1>0, <2>1, ParensTurnFacts, MovesAhead DEF Turned
  <2> QED BY <1>0, <2>1, <2>2, WaitsAhead
<1>3. CASE p.val # 0 /\ ~IsEof(p)
  <2>0. /\ ~IsEof(q) /\ Peek(q) = Peek(p) /\ q.val # 0
        /\ Blocked(q) = Blocked(p) /\ BlockedBy(q) = BlockedBy(p)
    BY <1>0, <1>3, PeekRel DEF Blocked, BlockedBy
  <2>1. CASE Peek(p) = "DQ"
    <3>1. /\ ParensTurn(p, i) = Chain(ParseQuoted(p), Inside(ParseQuoted(p), p.val))
          /\ ParensTurn(q, i) = Chain(ParseQuoted(q), Inside(ParseQuoted(q), p.val))
      BY <1>0, <1>3, <2>0, <2>1, ParensTurnIs
    <3>2. Strong(s, ParseQuoted(p), ParseQuoted(q)) /\ Eats(s, p, ParseQuoted(p)) /\ Eats(t, q, ParseQuoted(q))
      BY <1>0, ParseQuotedRel, ParseQuotedFacts
    <3> QED BY <1>0, <3>1, <3>2, EatsFacts, InsideChainRel
  <2>2. CASE Peek(p) = "{"
    <3>1. /\ ParensTurn(p, i) = Chain(ParseLiteral(p), Inside(ParseLiteral(p), p.val))
          /\ ParensTurn(q, i) = Chain(ParseLiteral(q), Inside(ParseLiteral(q), p.val))
      BY <1>0, <1>3, <2>0, <2>2, ParensTurnIs
    <3>2. Strong(s, ParseLiteral(p), ParseLiteral(q)) /\ Eats(s, p, ParseLiteral(p)) /\ Eats(t, q, ParseLiteral(q))
      BY <1>0, ParseLiteralRel, ParseLiteralFacts
    <3> QED BY <1>0, <3>1, <3>2, EatsFacts, InsideChainRel
  <2>3. CASE Blocked(p)
    <3>1. ParensTurn(p, i) = Fail(p, BlockedBy(p)) /\ ParensTurn(q, i) = Fail(q, BlockedBy(p))
      BY <1>3, <2>0, <2>3, ParensTurnIs
    <3>2. BlockedBy(p) \notin Going
      BY DEF Going, BlockedBy
    <3> QED BY <1>0, <3>1, <3>2, FailRel
  <2>4. CASE ~Blocked(p) /\ Peek(p) \notin {"DQ", "{"}
    <3> DEFINE d == Depth(Peek(p), p.val)
    <3>1. ParensTurn(p, i) = Inside(Advance(p, 1), d) /\ ParensTurn(q, i) = Inside(Advance(q, 1), d)
      BY <1>0, <1>3, <2>0, <2>4, ParensTurnIs
    <3> HIDE DEF d
    <3>2. Same(Advance(p, 1), Advance(q, 1)) /\ IsParser(Advance(p, 1)) /\ IsParser(Advance(q, 1))
      BY <1>0, AdvanceSame, AdvanceFacts
    <3>3. Same(Inside(Advance(p, 1), d), Inside(Advance(q, 1), d)) /\ Inside(Advance(p, 1), d).st = "More"
      BY <3>2, InsideSame
    <3> QED BY <3>1, <3>3, SameIsStrong
  <2> QED BY <2>1, <2>2, <2>3, <2>4
<1> QED BY <1>1, <1>2, <1>3

ParensLoop(p, i) == While(p, LAMBDA r : ParensTurn(r, i))

LEMMA ParensRuns ==
  ASSUME NEW s, Size(s) \in Nat, NEW p, At(s, p), NEW i
  PROVE  \E f : Runs(f, "parens", i, p, Size(s) + 1) /\ ParensLoop(p, i) = f[Size(s) + 1]
<1> DEFINE E(f) == f = [n \in 0 .. Len(p.input) + 1 |->
                          IF n = 0 THEN GoOn(p)
                          ELSE IF f[n - 1].st = "More" THEN ParensTurn(Resume(f[n - 1]), i) ELSE f[n - 1]]
<1>0. Len(p.input) = Size(s)
  BY DEF At, Size
<1>1. ParensLoop(p, i) = (CHOOSE f : E(f))[Len(p.input) + 1]
  BY DEF While, ParensLoop
<1>2. \A f : E(f) <=> Runs(f, "parens", i, p, Len(p.input) + 1)
  BY DEF Runs, LoopStep, LoopTurn
<1>3. PICK n \in Nat : n = Len(p.input) + 1
  BY <1>0
<1>4. PICK g : Runs(g, "parens", i, p, n)
  BY RunsExists
<1>5. E(g)
  BY <1>2, <1>3, <1>4
<1> HIDE DEF E
<1>6. E(CHOOSE f : E(f))
  BY <1>5
<1> QED BY <1>0, <1>1, <1>2, <1>6

LEMMA ParensLoopFacts ==
  ASSUME NEW s \in Texts, NEW p, At(s, p), NEW i
  PROVE  Sound(s, p, ParensLoop(p, i)) /\ At(s, ParensLoop(p, i))
<1>1. Size(s) \in Nat
  BY DEF Texts, Size
<1>2. PICK f : Runs(f, "parens", i, p, Size(s) + 1) /\ ParensLoop(p, i) = f[Size(s) + 1]
  BY <1>1, ParensRuns
<1>3. \A x : LoopTurn("parens", i, x) = ParensTurn(x, i)
  BY DEF LoopTurn
<1>4. \A x : At(s, x) /\ x.st = "Ok" => Turned(s, x, LoopTurn("parens", i, x))
  BY <1>1, <1>3, ParensTurnFacts
<1>5. PICK n : n = Size(s) + 1
  OBVIOUS
<1>6. Sound(s, p, f[n]) /\ At(s, f[n])
  BY <1>1, <1>2, <1>4, <1>5, LoopFacts
<1> QED BY <1>2, <1>5, <1>6

LEMMA ParensLoopRel ==
  ASSUME NEW s, NEW t, NEW p, NEW q, Pair(s, t, p, q), NEW i \in Nat, 1 <= i
  PROVE  Strong(s, ParensLoop(p, i), ParensLoop(q, i))
<1>1. Size(s) \in Nat /\ Size(t) \in Nat /\ At(s, p) /\ At(t, q) /\ s \in Texts /\ t \in Texts
  BY PairFacts
<1>2. PICK f : Runs(f, "parens", i, p, Size(s) + 1) /\ ParensLoop(p, i) = f[Size(s) + 1]
  BY <1>1, ParensRuns
<1>3. PICK g : Runs(g, "parens", i, q, Size(t) + 1) /\ ParensLoop(q, i) = g[Size(t) + 1]
  BY <1>1, ParensRuns
<1>4. \A x : LoopTurn("parens", i, x) = ParensTurn(x, i)
  BY DEF LoopTurn
<1>5. /\ \A x : At(s, x) /\ x.st = "Ok" => Turned(s, x, LoopTurn("parens", i, x))
      /\ \A x : At(t, x) /\ x.st = "Ok" => Turned(t, x, LoopTurn("parens", i, x))
  BY <1>1, <1>4, ParensTurnFacts
<1>6. \A x, y : Pair(s, t, x, y) => Strong(s, LoopTurn("parens", i, x), LoopTurn("parens", i, y))
  BY <1>4, ParensTurnRel
<1>7. \A x, y : Pair(s, t, x, y) => Loose(s, LoopTurn("parens", i, x), LoopTurn("parens", i, y))
  BY <1>6 DEF Strong
<1>8. PICK m, n : m = Size(s) + 1 /\ n = Size(t) + 1
  OBVIOUS
<1>9. Strong(s, f[m], g[n])
  BY <1>2, <1>3, <1>5, <1>6, <1>7, <1>8, LoopRel
<1> QED BY <1>2, <1>3, <1>8, <1>9

LEMMA ParensFacts ==
  ASSUME NEW s \in Texts, NEW p, At(s, p), p.st = "Ok"
  PROVE  Eats(s, p, ParseBalancedParens(p))
<1> DEFINE k == ConsumeByte(p, "(")
           w == ParensLoop(Yield(k, 1), p.pos)
<1>0. Size(s) \in Nat
  BY DEF Texts, Size
<1>1. ParseBalancedParens(p) = Chain(k, w)
  BY DEF ParseBalancedParens, Then, Chain, ParensLoop
<1>2. Eats(s, p, k)
  BY ConsumeByteFacts DEF Eats
<1> HIDE DEF k
<1>3. k.st = "Ok" => At(s, Yield(k, 1)) /\ Yield(k, 1).pos = k.pos
  BY <1>2, EatsFacts, YieldAt, YieldFacts
<1>4. k.st = "Ok" => Moves(s, k, w) /\ w.st # "More"
  BY <1>3, ParensLoopFacts DEF Sound, Turned, Moves
<1> QED BY <1>0, <1>1, <1>2, <1>4, ChainEats

LEMMA ParensRel ==
  ASSUME NEW s, NEW t, NEW p, NEW q, Pair(s, t, p, q)
  PROVE  Strong(s, ParseBalancedParens(p), ParseBalancedParens(q))
<1> DEFINE k == ConsumeByte(p, "(")
           l == ConsumeByte(q, "(")
           w == ParensLoop(Yield(k, 1), p.pos)
           v == ParensLoop(Yield(l, 1), q.pos)
<1>0. /\ Cut(s, t) /\ s \in Texts /\ t \in Texts /\ At(s, p) /\ At(t, q) /\ p.st = "Ok" /\ q.st = "Ok"
      /\ p.pos \in Nat /\ 1 <= p.pos /\ p.pos = q.pos
  BY PairFacts
<1>1. ParseBalancedParens(p) = Chain(k, w) /\ ParseBalancedParens(q) = Chain(l, v)
  BY DEF ParseBalancedParens, Then, Chain, ParensLoop
<1>2. Eats(s, p, k) /\ Eats(t, q, l)
  BY <1>0, ConsumeByteFacts DEF Eats
<1>3. Strong(s, k, l)
  BY ConsumeByteRel
<1> HIDE DEF k, l
<1>4. l.st = "Ok" => At(t, Yield(l, 1)) /\ Yield(l, 1).pos = l.pos
  BY <1>2, EatsFacts, YieldAt, YieldFacts
<1>5. l.st = "Ok" => Moves(t, l, v)
  BY <1>0, <1>4, ParensLoopFacts DEF Sound, Turned, Moves
<1>6. k.st = "Ok" /\ Same(k, l) => Strong(s, w, v)
  BY <1>0, <1>2, EatsFacts, PairNext, YieldPair, ParensLoopRel
<1> HIDE DEF w, v
<1> QED BY <1>0, <1>1, <1>2, <1>3, <1>5, <1>6, EatsFacts, ChainStrong

-------------------------------------------------------------------------------
(* One production after another. *)

LEMMA NextEats ==
  ASSUME NEW s, Size(s) \in Nat, NEW p, NEW a, NEW c, At(s, p), Eats(s, p, a), a.st = "Ok" => Sound(s, a, c)
  PROVE  Eats(s, p, Chain(a, c))
BY ChainEats DEF Sound, Turned

LEMMA NextStrong ==
  ASSUME NEW s, NEW t, Cut(s, t), NEW p, NEW q, NEW a, NEW b, NEW c, NEW d, Sound(s, p, a), Sound(t, q, b),
         Strong(s, a, b), b.st = "Ok" => Sound(t, b, d), Pair(s, t, a, b) => Strong(s, c, d)
  PROVE  Strong(s, Chain(a, c), Chain(b, d))
<1>1. At(s, a) /\ At(t, b) /\ a.st # "More" /\ b.st # "More" /\ (b.st = "Ok" => Moves(t, b, d))
  BY DEF Sound, Turned, Moves
<1> QED BY <1>1, PairNext, ChainStrong

LEMMA NextFirm ==
  ASSUME NEW s, NEW t, Cut(s, t), NEW p, NEW q, NEW a, NEW b, NEW c, NEW d, Sound(s, p, a), Sound(t, q, b),
         Strong(s, a, b), b.st = "Ok" => Sound(t, b, d), Pair(s, t, a, b) => Firm(s, c, d)
  PROVE  Firm(s, Chain(a, c), Chain(b, d))
<1>1. At(s, a) /\ At(t, b) /\ a.st # "More" /\ b.st # "More" /\ (b.st = "Ok" => Moves(t, b, d))
  BY DEF Sound, Turned, Moves
<1> QED BY <1>1, PairNext, ChainFirm

LEMMA NextLoose ==
  ASSUME NEW s, NEW t, Cut(s, t), NEW p, NEW q, NEW a, NEW b, NEW c, NEW d, Sound(s, p, a), Sound(t, q, b),
         Loose(s, a, b), a.st = "Ok" => Sound(s, a, c), b.st = "Ok" => Sound(t, b, d),
         Pair(s, t, a, b) => Loose(s, c, d)
  PROVE  Loose(s, Chain(a, c), Chain(b, d))
<1>1. /\ At(s, a) /\ At(t, b) /\ a.st # "More" /\ b.st # "More" /\ (b.st = "Ok" => Moves(t, b, d))
      /\ (a.st = "Ok" => Turned(s, a, c))
  BY DEF Sound, Turned, Moves
<1> QED BY <1>1, PairNext, ChainLoose

LEMMA NextCloses ==
  ASSUME NEW s, NEW t, Cut(s, t), NEW p, NEW q, NEW a, NEW b, NEW c, NEW d, Sound(s, p, a), Sound(t, q, b),
         Loose(s, a, b), a.st = "Ok" => Eats(s, a, c), b.st = "Ok" => Sound(t, b, d),
         Pair(s, t, a, b) => Strong(s, c, d)
  PROVE  Strong(s, Chain(a, c), Chain(b, d))
<1>1. /\ At(s, a) /\ At(t, b) /\ a.st # "More" /\ b.st # "More" /\ (b.st = "Ok" => Moves(t, b, d))
      /\ (a.st = "Ok" => Hungry(s, a, c))
  BY DEF Sound, Turned, Moves, Eats
<1> QED BY <1>1, PairNext, ChainCloses

LEMMA NextClosesFirm ==
  ASSUME NEW s, NEW t, Cut(s, t), NEW p, NEW q, NEW a, NEW b, NEW c, NEW d, Sound(s, p, a), Sound(t, q, b),
         Loose(s, a, b), a.st = "Ok" => Eats(s, a, c), b.st = "Ok" => Sound(t, b, d),
         Pair(s, t, a, b) => Firm(s, c, d)
  PROVE  Firm(s, Chain(a, c), Chain(b, d))
<1>1. /\ At(s, a) /\ At(t, b) /\ a.st # "More" /\ b.st # "More" /\ (b.st = "Ok" => Moves(t, b, d))
      /\ (a.st = "Ok" => Hungry(s, a, c))
  BY DEF Sound, Turned, Moves, Eats
<1> QED BY <1>1, PairNext, ChainClosesFirm

\* Where there are bytes, a production that moves on takes some of them.
LEMMA MovesEats ==
  ASSUME NEW s, NEW p, NEW a, p.pos # Size(s) + 1, Moves(s, p, a), a.st # "More"
  PROVE  Eats(s, p, a)
BY DEF Eats, Sound, Turned, Hungry, Moves

LEMMA StayTurned ==
  ASSUME NEW s, NEW p, At(s, p), p.st = "Ok"
  PROVE  Sound(s, p, p) /\ Turned(s, p, p)
BY DEF Sound, Turned, Moves, At

\* At the end of the bytes a production that is done with nothing leaves the longer text open.
LEMMA StayLoose ==
  ASSUME NEW s, NEW t, NEW p, NEW q, Pair(s, t, p, q), IsEof(p), NEW a, At(s, a), a.pos = p.pos,
         a.st = "Ok", NEW b, Moves(t, q, b)
  PROVE  Loose(s, a, b)
<1>1. p.pos = Size(s) + 1 /\ q.pos = Size(s) + 1 /\ Size(s) \in Nat
  BY PairFacts, PeekFacts
<1>2. Ahead(s, b)
  BY <1>1, MovesAhead
<1> QED BY <1>1, <1>2 DEF Loose, Wrong

LEMMA YieldOwn == ASSUME NEW p, IsParser(p) PROVE Yield(p, p.val) = p
BY DEF IsParser, Fields, Yield

-------------------------------------------------------------------------------
(* CAPABILITY and SEARCH: a turn for every SP. *)

CapabilityPush(p) ==
  Chain(ParseAtom(Advance(p, 1)), PushItem(ParseAtom(Advance(p, 1)), p.val, ParseAtom(Advance(p, 1)).val))

LEMMA CapabilityPushFacts ==
  ASSUME NEW s \in Texts, NEW p, At(s, p), p.st = "Ok", ~IsEof(p)
  PROVE  /\ Eats(s, p, CapabilityPush(p))
         /\ CapabilityPush(p).st = "Ok" => CapabilityPush(p).pos > p.pos
<1> DEFINE x == Advance(p, 1)
           a == ParseAtom(x)
           m == PushItem(a, p.val, a.val)
<1>0. Size(s) \in Nat /\ p.pos \in Nat /\ p.pos # Size(s) + 1
  BY PeekFacts DEF Texts, Size, At
<1>1. At(s, x) /\ x.pos = p.pos + 1 /\ x.st = "Ok" /\ Moves(s, p, x)
  BY <1>0, AdvanceOne DEF Sound, Turned
<1> HIDE DEF x
<1>2. Eats(s, x, a) /\ (a.st = "Ok" => a.pos > x.pos)
  BY <1>1, ParseAtomFacts
<1> HIDE DEF a
<1>3. At(s, a) /\ a.pos \in Nat /\ Moves(s, x, a) /\ a.st # "More"
  BY <1>2, EatsFacts DEF At
<1>4. a.st = "Ok" => Moves(s, a, m) /\ m.st # "More" /\ m.pos = a.pos
  BY <1>3, PushItemFacts
<1> HIDE DEF m
<1>5. Moves(s, p, Chain(a, m)) /\ Chain(a, m).st # "More"
  <2>1. Moves(s, x, Chain(a, m))
    BY <1>0, <1>1, <1>3, <1>4, ChainMoves
  <2>2. x.st = "Ok" => Moves(s, x, Chain(a, m))
    BY <2>1
  <2>3. Moves(s, p, Chain(x, Chain(a, m)))
    BY <1>0, <1>1, <2>2, ChainMoves
  <2> QED BY <1>1, <1>3, <1>4, <2>3 DEF Chain
<1>6. Chain(a, m).st = "Ok" => Chain(a, m).pos > p.pos
  BY <1>0, <1>1, <1>2, <1>3, <1>4 DEF Chain
<1>7. CapabilityPush(p) = Chain(a, m)
  BY DEF CapabilityPush, x, a, m
<1> QED BY <1>0, <1>5, <1>6, <1>7, MovesEats

LEMMA CapabilityPushRel ==
  ASSUME NEW s, NEW t, NEW p, NEW q, Pair(s, t, p, q), ~IsEof(p)
  PROVE  Strong(s, CapabilityPush(p), CapabilityPush(q))
<1> DEFINE x == Advance(p, 1)
           y == Advance(q, 1)
           a == ParseAtom(x)
           b == ParseAtom(y)
<1>0. Cut(s, t) /\ s \in Texts /\ t \in Texts /\ p.val = q.val
  BY PairFacts
<1>1. Pair(s, t, x, y)
  BY AdvanceRel
<1> HIDE DEF x, y
<1>2. Strong(s, a, b)
  BY <1>1, ParseAtomRel
<1>3. Eats(s, x, a) /\ Eats(t, y, b)
  BY <1>1, PairFacts, ParseAtomFacts
<1> HIDE DEF a, b
<1>4. Pair(s, t, a, b) => Strong(s, PushItem(a, p.val, a.val), PushItem(b, q.val, b.val))
  BY <1>0, PushItemRel, PairFacts
<1>5. b.st = "Ok" => Moves(t, b, PushItem(b, q.val, b.val))
  BY <1>3, EatsFacts, PushItemFacts
<1>6. Strong(s, Chain(a, PushItem(a, p.val, a.val)), Chain(b, PushItem(b, q.val, b.val)))
  BY <1>0, <1>2, <1>3, <1>4, <1>5, EatsFacts, PairNext, ChainStrong
<1> QED BY <1>6 DEF CapabilityPush, x, y, a, b

LEMMA CapabilityTurnIs ==
  ASSUME NEW s \in Texts, NEW p, At(s, p), p.st = "Ok", Peek(p) = "SP"
  PROVE  ~IsEof(p) /\ CapabilityTurn(p) = Chain(CapabilityPush(p), Inside(CapabilityPush(p), CapabilityPush(p).val))
<1>0. ~IsEof(p)
  BY PeekFacts DEF Texts, Size
<1>1. IsParser(CapabilityPush(p))
  BY <1>0, CapabilityPushFacts, EatsFacts
<1>2. Yield(CapabilityPush(p), CapabilityPush(p).val) = CapabilityPush(p)
  BY <1>1, YieldOwn
<1>3. CapabilityTurn(p) = Chain(CapabilityPush(p), GoOn(CapabilityPush(p)))
  BY DEF CapabilityTurn, CapabilityPush, Then, Chain
<1> QED BY <1>0, <1>2, <1>3 DEF Inside

LEMMA CapabilityTurnFacts ==
  ASSUME NEW s \in Texts, NEW p, At(s, p), p.st = "Ok"
  PROVE  Turned(s, p, CapabilityTurn(p))
<1>1. CASE Peek(p) # "SP"
  <2>1. CapabilityTurn(p) = p
    BY <1>1 DEF CapabilityTurn
  <2> QED BY <2>1, StayTurned
<1>2. CASE Peek(p) = "SP"
  <2>1. ~IsEof(p) /\ Size(s) \in Nat
    BY <1>2, CapabilityTurnIs DEF Texts, Size
  <2>2. Eats(s, p, CapabilityPush(p)) /\ (CapabilityPush(p).st = "Ok" => CapabilityPush(p).pos > p.pos)
    BY <2>1, CapabilityPushFacts
  <2>3. Turned(s, p, Chain(CapabilityPush(p), Inside(CapabilityPush(p), CapabilityPush(p).val)))
    BY <2>1, <2>2, InsideChain
  <2> QED BY <1>2, <2>3, CapabilityTurnIs
<1> QED BY <1>1, <1>2

LEMMA CapabilityTurnRel ==
  ASSUME NEW s, NEW t, NEW p, NEW q, Pair(s, t, p, q)
  PROVE  Loose(s, CapabilityTurn(p), CapabilityTurn(q))
<1>0. /\ Cut(s, t) /\ s \in Texts /\ t \in Texts /\ At(s, p) /\ At(t, q) /\ p.st = "Ok" /\ q.st = "Ok" /\ Same(p, q)
      /\ p.pos = q.pos /\ Size(s) \in Nat
  BY PairFacts
<1>1. CASE IsEof(p)
  <2>1. CapabilityTurn(p) = p
    BY <1>0, <1>1, PeekFacts DEF CapabilityTurn
  <2>2. Moves(t, q, CapabilityTurn(q))
    BY <1>0, CapabilityTurnFacts DEF Turned
  <2> QED BY <1>0, <1>1, <2>1, <2>2, StayLoose
<1>2. CASE ~IsEof(p) /\ Peek(p) # "SP"
  <2>1. CapabilityTurn(p) = p /\ CapabilityTurn(q) = q
    BY <1>0, <1>2, PeekRel DEF CapabilityTurn
  <2> QED BY <1>0, <2>1, SameIsStrong DEF Strong
<1>3. CASE ~IsEof(p) /\ Peek(p) = "SP"
  <2>1. ~IsEof(q) /\ Peek(q) = "SP"
    BY <1>0, <1>3, PeekRel
  <2> DEFINE a == CapabilityPush(p)
             b == CapabilityPush(q)
  <2>2. CapabilityTurn(p) = Chain(a, Inside(a, a.val)) /\ CapabilityTurn(q) = Chain(b, Inside(b, b.val))
    BY <1>0, <1>3, <2>1, CapabilityTurnIs
  <2>3. Eats(s, p, a) /\ Eats(t, q, b) /\ Strong(s, a, b)
    BY <1>0, <1>3, <2>1, CapabilityPushFacts, CapabilityPushRel
  <2> HIDE DEF a, b
  <2>4. a.st = "Ok" /\ Same(a, b) => a.val = b.val
    BY DEF Same
  <2>5. At(s, a) /\ At(t, b) /\ a.st # "More" /\ b.st # "More"
    BY <2>3, EatsFacts
  <2>6. Strong(s, Chain(a, Inside(a, a.val)), Chain(b, Inside(b, b.val)))
    BY <1>0, <2>3, <2>4, <2>5, InsideChainRel
  <2> QED BY <2>2, <2>6 DEF Strong
<1> QED BY <1>1, <1>2, <1>3

LEMMA SearchTurnIs ==
  ASSUME NEW s \in Texts, NEW p, At(s, p), p.st = "Ok", Peek(p) = "SP"
  PROVE  /\ ~IsEof(p)
         /\ SearchTurn(p) = Chain(ParseNumber(Advance(p, 1)),
                                  Inside(ParseNumber(Advance(p, 1)), Append(p.val, ParseNumber(Advance(p, 1)).val)))
<1>0. ~IsEof(p)
  BY PeekFacts DEF Texts, Size
<1> QED BY <1>0 DEF SearchTurn, Then, Chain, Inside

LEMMA SearchNumberFacts ==
  ASSUME NEW s \in Texts, NEW p, At(s, p), p.st = "Ok", ~IsEof(p)
  PROVE  /\ Eats(s, p, ParseNumber(Advance(p, 1)))
         /\ ParseNumber(Advance(p, 1)).st = "Ok" => ParseNumber(Advance(p, 1)).pos > p.pos
<1> DEFINE x == Advance(p, 1)
           a == ParseNumber(x)
<1>0. Size(s) \in Nat /\ p.pos \in Nat /\ p.pos # Size(s) + 1
  BY PeekFacts DEF Texts, Size, At
<1>1. At(s, x) /\ x.pos = p.pos + 1 /\ x.st = "Ok" /\ Moves(s, p, x)
  BY <1>0, AdvanceOne DEF Sound, Turned
<1> HIDE DEF x
<1>2. Sound(s, x, a) /\ At(s, a)
  BY <1>1, ParseNumberFacts
<1>3. a.st = "Ok" => a.pos > x.pos
  BY <1>1, ParseNumberFacts
<1> HIDE DEF a
<1>4. a.pos \in Nat /\ Moves(s, x, a) /\ a.st # "More"
  BY <1>2 DEF At, Sound, Turned
<1>5. Moves(s, p, a)
  <2>1. x.st = "Ok" => Moves(s, x, a)
    BY <1>4
  <2>2. Moves(s, p, Chain(x, a))
    BY <1>0, <1>1, <2>1, ChainMoves
  <2> QED BY <1>1, <2>2 DEF Chain
<1>6. a.st = "Ok" => a.pos > p.pos
  BY <1>0, <1>1, <1>3, <1>4
<1>7. Eats(s, p, a)
  BY <1>0, <1>4, <1>5, MovesEats
<1> QED BY <1>6, <1>7 DEF a, x

LEMMA SearchTurnFacts ==
  ASSUME NEW s \in Texts, NEW p, At(s, p), p.st = "Ok"
  PROVE  Turned(s, p, SearchTurn(p))
<1>1. CASE Peek(p) # "SP"
  <2>1. SearchTurn(p) = p
    BY <1>1 DEF SearchTurn
  <2> QED BY <2>1, StayTurned
<1>2. CASE Peek(p) = "SP"
  <2> DEFINE a == ParseNumber(Advance(p, 1))
  <2>1. ~IsEof(p) /\ Size(s) \in Nat /\ SearchTurn(p) = Chain(a, Inside(a, Append(p.val, a.val)))
    BY <1>2, SearchTurnIs DEF Texts, Size
  <2>2. Eats(s, p, a) /\ (a.st = "Ok" => a.pos > p.pos)
    BY <2>1, SearchNumberFacts
  <2> HIDE DEF a
  <2>3. Turned(s, p, Chain(a, Inside(a, Append(p.val, a.val))))
    BY <2>1, <2>2, InsideChain
  <2> QED BY <2>1, <2>3
<1> QED BY <1>1, <1>2

LEMMA SearchTurnRel ==
  ASSUME NEW s, NEW t, NEW p, NEW q, Pair(s, t, p, q)
  PROVE  Loose(s, SearchTurn(p), SearchTurn(q))
<1>0. /\ Cut(s, t) /\ s \in Texts /\ t \in Texts /\ At(s, p) /\ At(t, q) /\ p.st = "Ok" /\ q.st = "Ok" /\ Same(p, q)
      /\ p.pos = q.pos /\ Size(s) \in Nat /\ p.val = q.val
  BY PairFacts
<1>1. CASE IsEof(p)
  <2>1. SearchTurn(p) = p
    BY <1>0, <1>1, PeekFacts DEF SearchTurn
  <2>2. Moves(t, q, SearchTurn(q))
    BY <1>0, SearchTurnFacts DEF Turned
  <2> QED BY <1>0, <1>1, <2>1, <2>2, StayLoose
<1>2. CASE ~IsEof(p) /\ Peek(p) # "SP"
  <2>1. SearchTurn(p) = p /\ SearchTurn(q) = q
    BY <1>0, <1>2, PeekRel DEF SearchTurn
  <2> QED BY <1>0, <2>1, SameIsStrong DEF Strong
<1>3. CASE ~IsEof(p) /\ Peek(p) = "SP"
  <2>1. ~IsEof(q) /\ Peek(q) = "SP"
    BY <1>0, <1>3, PeekRel
  <2> DEFINE a == ParseNumber(Advance(p, 1))
             b == ParseNumber(Advance(q, 1))
  <2>2. SearchTurn(p) = Chain(a, Inside(a, Append(p.val, a.val))) /\ SearchTurn(q) = Chain(b, Inside(b, Append(q.val, b.val)))
    BY <1>0, <1>3, <2>1, SearchTurnIs
  <2>3. Eats(s, p, a) /\ Eats(t, q, b)
    BY <1>0, <1>3, <2>1, SearchNumberFacts
  <2>4. Pair(s, t, Advance(p, 1), Advance(q, 1))
    BY <1>3, AdvanceRel
  <2>5. Firm(s, a, b)
    BY <2>4, ParseNumberRel
  <2> HIDE DEF a, b
  <2>6. a.st = "Ok" /\ Same(a, b) => Append(p.val, a.val) = Append(q.val, b.val)
    BY <1>0 DEF Same
  <2>7. At(s, a) /\ At(t, b) /\ a.st # "More" /\ b.st # "More"
    BY <2>3, EatsFacts
  <2>8. Loose(s, a, b)
    BY <2>5 DEF Firm
  <2> QED BY <1>0, <2>2, <2>6, <2>7, <2>8, InsideChainRel
<1> QED BY <1>1, <1>2, <1>3

CapabilityLoop(p, i) == While(p, LAMBDA r : CapabilityTurn(r))

LEMMA CapabilityRuns ==
  ASSUME NEW s, Size(s) \in Nat, NEW p, At(s, p), NEW i
  PROVE  \E f : Runs(f, "capability", i, p, Size(s) + 1) /\ CapabilityLoop(p, i) = f[Size(s) + 1]
<1> DEFINE E(f) == f = [n \in 0 .. Len(p.input) + 1 |->
                          IF n = 0 THEN GoOn(p)
                          ELSE IF f[n - 1].st = "More" THEN CapabilityTurn(Resume(f[n - 1])) ELSE f[n - 1]]
<1>0. Len(p.input) = Size(s)
  BY DEF At, Size
<1>1. CapabilityLoop(p, i) = (CHOOSE f : E(f))[Len(p.input) + 1]
  BY DEF While, CapabilityLoop
<1>2. \A f : E(f) <=> Runs(f, "capability", i, p, Len(p.input) + 1)
  BY DEF Runs, LoopStep, LoopTurn
<1>3. PICK n \in Nat : n = Len(p.input) + 1
  BY <1>0
<1>4. PICK g : Runs(g, "capability", i, p, n)
  BY RunsExists
<1>5. E(g)
  BY <1>2, <1>3, <1>4
<1> HIDE DEF E
<1>6. E(CHOOSE f : E(f))
  BY <1>5
<1> QED BY <1>0, <1>1, <1>2, <1>6

LEMMA CapabilityLoopFacts ==
  ASSUME NEW s \in Texts, NEW p, At(s, p), NEW i
  PROVE  Sound(s, p, CapabilityLoop(p, i)) /\ At(s, CapabilityLoop(p, i))
<1>1. Size(s) \in Nat
  BY DEF Texts, Size
<1>2. PICK f : Runs(f, "capability", i, p, Size(s) + 1) /\ CapabilityLoop(p, i) = f[Size(s) + 1]
  BY <1>1, CapabilityRuns
<1>3. \A x : LoopTurn("capability", i, x) = CapabilityTurn(x)
  BY DEF LoopTurn
<1>4. \A x : At(s, x) /\ x.st = "Ok" => Turned(s, x, LoopTurn("capability", i, x))
  BY <1>1, <1>3, CapabilityTurnFacts
<1>5. PICK n : n = Size(s) + 1
  OBVIOUS
<1>6. Sound(s, p, f[n]) /\ At(s, f[n])
  BY <1>1, <1>2, <1>4, <1>5, LoopFacts
<1> QED BY <1>2, <1>5, <1>6

LEMMA CapabilityLoopRel ==
  ASSUME NEW s, NEW t, NEW p, NEW q, Pair(s, t, p, q), NEW i
  PROVE  Loose(s, CapabilityLoop(p, i), CapabilityLoop(q, i))
<1>1. Size(s) \in Nat /\ Size(t) \in Nat /\ At(s, p) /\ At(t, q) /\ s \in Texts /\ t \in Texts
  BY PairFacts
<1>2. PICK f : Runs(f, "capability", i, p, Size(s) + 1) /\ CapabilityLoop(p, i) = f[Size(s) + 1]
  BY <1>1, CapabilityRuns
<1>3. PICK g : Runs(g, "capability", i, q, Size(t) + 1) /\ CapabilityLoop(q, i) = g[Size(t) + 1]
  BY <1>1, CapabilityRuns
<1>4. \A x : LoopTurn("capability", i, x) = CapabilityTurn(x)
  BY DEF LoopTurn
<1>5. /\ \A x : At(s, x) /\ x.st = "Ok" => Turned(s, x, LoopTurn("capability", i, x))
      /\ \A x : At(t, x) /\ x.st = "Ok" => Turned(t, x, LoopTurn("capability", i, x))
  BY <1>1, <1>4, CapabilityTurnFacts
<1>6. \A x, y : Pair(s, t, x, y) => Loose(s, LoopTurn("capability", i, x), LoopTurn("capability", i, y))
  BY <1>4, CapabilityTurnRel
<1>7. \A x, y : Pair(s, t, x, y) => Loose(s, LoopTurn("capability", i, x), LoopTurn("capability", i, y))
  BY <1>6 DEF Strong
<1>8. PICK m, n : m = Size(s) + 1 /\ n = Size(t) + 1
  OBVIOUS
<1>9. Loose(s, f[m], g[n])
  BY <1>2, <1>3, <1>5, <1>6, <1>7, <1>8, LoopRel
<1> QED BY <1>2, <1>3, <1>8, <1>9

SearchLoop(p, i) == While(p, LAMBDA r : SearchTurn(r))

LEMMA SearchRuns ==
  ASSUME NEW s, Size(s) \in Nat, NEW p, At(s, p), NEW i
  PROVE  \E f : Runs(f, "search", i, p, Size(s) + 1) /\ SearchLoop(p, i) = f[Size(s) + 1]
<1> DEFINE E(f) == f = [n \in 0 .. Len(p.input) + 1 |->
                          IF n = 0 THEN GoOn(p)
                          ELSE IF f[n - 1].st = "More" THEN SearchTurn(Resume(f[n - 1])) ELSE f[n - 1]]
<1>0. Len(p.input) = Size(s)
  BY DEF At, Size
<1>1. SearchLoop(p, i) = (CHOOSE f : E(f))[Len(p.input) + 1]
  BY DEF While, SearchLoop
<1>2. \A f : E(f) <=> Runs(f, "search", i, p, Len(p.input) + 1)
  BY DEF Runs, LoopStep, LoopTurn
<1>3. PICK n \in Nat : n = Len(p.input) + 1
  BY <1>0
<1>4. PICK g : Runs(g, "search", i, p, n)
  BY RunsExists
<1>5. E(g)
  BY <1>2, <1>3, <1>4
<1> HIDE DEF E
<1>6. E(CHOOSE f : E(f))
  BY <1>5
<1> QED BY <1>0, <1>1, <1>2, <1>6

LEMMA SearchLoopFacts ==
  ASSUME NEW s \in Texts, NEW p, At(s, p), NEW i
  PROVE  Sound(s, p, SearchLoop(p, i)) /\ At(s, SearchLoop(p, i))
<1>1. Size(s) \in Nat
  BY DEF Texts, Size
<1>2. PICK f : Runs(f, "search", i, p, Size(s) + 1) /\ SearchLoop(p, i) = f[Size(s) + 1]
  BY <1>1, SearchRuns
<1>3. \A x : LoopTurn("search", i, x) = SearchTurn(x)
  BY DEF LoopTurn
<1>4. \A x : At(s, x) /\ x.st = "Ok" => Turned(s, x, LoopTurn("search", i, x))
  BY <1>1, <1>3, SearchTurnFacts
<1>5. PICK n : n = Size(s) + 1
  OBVIOUS
<1>6. Sound(s, p, f[n]) /\ At(s, f[n])
  BY <1>1, <1>2, <1>4, <1>5, LoopFacts
<1> QED BY <1>2, <1>5, <1>6

LEMMA SearchLoopRel ==
  ASSUME NEW s, NEW t, NEW p, NEW q, Pair(s, t, p, q), NEW i
  PROVE  Loose(s, SearchLoop(p, i), SearchLoop(q, i))
<1>1. Size(s) \in Nat /\ Size(t) \in Nat /\ At(s, p) /\ At(t, q) /\ s \in Texts /\ t \in Texts
  BY PairFacts
<1>2. PICK f : Runs(f, "search", i, p, Size(s) + 1) /\ SearchLoop(p, i) = f[Size(s) + 1]
  BY <1>1, SearchRuns
<1>3. PICK g : Runs(g, "search", i, q, Size(t) + 1) /\ SearchLoop(q, i) = g[Size(t) + 1]
  BY <1>1, SearchRuns
<1>4. \A x : LoopTurn("search", i, x) = SearchTurn(x)
  BY DEF LoopTurn
<1>5. /\ \A x : At(s, x) /\ x.st = "Ok" => Turned(s, x, LoopTurn("search", i, x))
      /\ \A x : At(t, x) /\ x.st = "Ok" => Turned(t, x, LoopTurn("search", i, x))
  BY <1>1, <1>4, SearchTurnFacts
<1>6. \A x, y : Pair(s, t, x, y) => Loose(s, LoopTurn("search", i, x), LoopTurn("search", i, y))
  BY <1>4, SearchTurnRel
<1>7. \A x, y : Pair(s, t, x, y) => Loose(s, LoopTurn("search", i, x), LoopTurn("search", i, y))
  BY <1>6 DEF Strong
<1>8. PICK m, n : m = Size(s) + 1 /\ n = Size(t) + 1
  OBVIOUS
<1>9. Loose(s, f[m], g[n])
  BY <1>2, <1>3, <1>5, <1>6, <1>7, <1>8, LoopRel
<1> QED BY <1>2, <1>3, <1>8, <1>9

LEMMA CapabilityAtomsFacts ==
  ASSUME NEW s \in Texts, NEW p, At(s, p), p.st = "Ok"
  PROVE  Sound(s, p, CapabilityAtoms(p))
<1>1. CapabilityAtoms(p) = CapabilityLoop(Yield(p, <<>>), 0)
  BY DEF CapabilityAtoms, CapabilityLoop, While
<1>2. At(s, Yield(p, <<>>)) /\ Yield(p, <<>>).pos = p.pos
  BY YieldAt, YieldFacts DEF At
<1>3. Sound(s, Yield(p, <<>>), CapabilityLoop(Yield(p, <<>>), 0))
  BY <1>2, CapabilityLoopFacts
<1> QED BY <1>1, <1>2, <1>3 DEF Sound, Turned, Moves

LEMMA CapabilityAtomsRel ==
  ASSUME NEW s, NEW t, NEW p, NEW q, Pair(s, t, p, q)
  PROVE  Loose(s, CapabilityAtoms(p), CapabilityAtoms(q))
<1>1. CapabilityAtoms(p) = CapabilityLoop(Yield(p, <<>>), 0) /\ CapabilityAtoms(q) = CapabilityLoop(Yield(q, <<>>), 0)
  BY DEF CapabilityAtoms, CapabilityLoop, While
<1> QED BY <1>1, YieldPair, CapabilityLoopRel

LEMMA SearchNumbersFacts ==
  ASSUME NEW s \in Texts, NEW p, At(s, p), p.st = "Ok"
  PROVE  Sound(s, p, SearchNumbers(p))
<1>1. SearchNumbers(p) = SearchLoop(Yield(p, <<>>), 0)
  BY DEF SearchNumbers, SearchLoop, While
<1>2. At(s, Yield(p, <<>>)) /\ Yield(p, <<>>).pos = p.pos
  BY YieldAt, YieldFacts DEF At
<1>3. Sound(s, Yield(p, <<>>), SearchLoop(Yield(p, <<>>), 0))
  BY <1>2, SearchLoopFacts
<1> QED BY <1>1, <1>2, <1>3 DEF Sound, Turned, Moves

LEMMA SearchNumbersRel ==
  ASSUME NEW s, NEW t, NEW p, NEW q, Pair(s, t, p, q)
  PROVE  Loose(s, SearchNumbers(p), SearchNumbers(q))
<1>1. SearchNumbers(p) = SearchLoop(Yield(p, <<>>), 0) /\ SearchNumbers(q) = SearchLoop(Yield(q, <<>>), 0)
  BY DEF SearchNumbers, SearchLoop, While
<1> QED BY <1>1, YieldPair, SearchLoopRel

-------------------------------------------------------------------------------
(* The items of STATUS. *)

\* SP and what follows it.
Spaced(p, c) == Chain(ConsumeSp(p), c)

LEMMA ConsumeSpFacts ==
  ASSUME NEW s \in Texts, NEW p, At(s, p), p.st = "Ok"
  PROVE  Eats(s, p, ConsumeSp(p))
BY ConsumeByteFacts DEF ConsumeSp, Eats

LEMMA ConsumeSpRel ==
  ASSUME NEW s, NEW t, NEW p, NEW q, Pair(s, t, p, q)
  PROVE  Strong(s, ConsumeSp(p), ConsumeSp(q))
BY ConsumeByteRel DEF ConsumeSp

LEMMA SpacedFacts ==
  ASSUME NEW s \in Texts, NEW p, At(s, p), p.st = "Ok", NEW c,
         ConsumeSp(p).st = "Ok" => Sound(s, ConsumeSp(p), c)
  PROVE  Eats(s, p, Spaced(p, c))
<1>1. Size(s) \in Nat
  BY DEF Texts, Size
<1> QED BY <1>1, ConsumeSpFacts, NextEats DEF Spaced

LEMMA SpacedRel ==
  ASSUME NEW s, NEW t, NEW p, NEW q, Pair(s, t, p, q), NEW c, NEW d,
         ConsumeSp(p).st = "Ok" => Sound(s, ConsumeSp(p), c),
         ConsumeSp(q).st = "Ok" => Sound(t, ConsumeSp(q), d)
  PROVE  /\ (Pair(s, t, ConsumeSp(p), ConsumeSp(q)) => Strong(s, c, d)) => Strong(s, Spaced(p, c), Spaced(q, d))
         /\ (Pair(s, t, ConsumeSp(p), ConsumeSp(q)) => Firm(s, c, d)) => Firm(s, Spaced(p, c), Spaced(q, d))
         /\ (Pair(s, t, ConsumeSp(p), ConsumeSp(q)) => Loose(s, c, d)) => Loose(s, Spaced(p, c), Spaced(q, d))
<1> DEFINE a == ConsumeSp(p)
           b == ConsumeSp(q)
<1>0. Cut(s, t) /\ s \in Texts /\ t \in Texts /\ At(s, p) /\ At(t, q) /\ p.st = "Ok" /\ q.st = "Ok"
  BY PairFacts
<1>1. Sound(s, p, a) /\ Sound(t, q, b) /\ Strong(s, a, b) /\ Loose(s, a, b)
  BY <1>0, ConsumeSpFacts, ConsumeSpRel, EatsFacts DEF Strong
<1>2. Spaced(p, c) = Chain(a, c) /\ Spaced(q, d) = Chain(b, d)
  BY DEF Spaced
<1>3. (a.st = "Ok" => Sound(s, a, c)) /\ (b.st = "Ok" => Sound(t, b, d))
  OBVIOUS
<1> HIDE DEF a, b
<1>4. (Pair(s, t, a, b) => Strong(s, c, d)) => Strong(s, Chain(a, c), Chain(b, d))
  BY <1>0, <1>1, <1>3, NextStrong
<1>5. (Pair(s, t, a, b) => Firm(s, c, d)) => Firm(s, Chain(a, c), Chain(b, d))
  BY <1>0, <1>1, <1>3, NextFirm
<1>6. (Pair(s, t, a, b) => Loose(s, c, d)) => Loose(s, Chain(a, c), Chain(b, d))
  BY <1>0, <1>1, <1>3, NextLoose
<1> QED BY <1>2, <1>4, <1>5, <1>6 DEF a, b

NumberAfterSp(p) == Spaced(p, ParseNumber(ConsumeSp(p)))

LEMMA NumberAfterSpFacts ==
  ASSUME NEW s \in Texts, NEW p, At(s, p), p.st = "Ok"
  PROVE  Eats(s, p, NumberAfterSp(p))
<1>1. ConsumeSp(p).st = "Ok" => Sound(s, ConsumeSp(p), ParseNumber(ConsumeSp(p)))
  BY ConsumeSpFacts, EatsFacts, ParseNumberFacts
<1> QED BY <1>1, SpacedFacts DEF NumberAfterSp

LEMMA NumberAfterSpRel ==
  ASSUME NEW s, NEW t, NEW p, NEW q, Pair(s, t, p, q)
  PROVE  Firm(s, NumberAfterSp(p), NumberAfterSp(q))
<1>1. s \in Texts /\ t \in Texts /\ At(s, p) /\ At(t, q) /\ p.st = "Ok" /\ q.st = "Ok"
  BY PairFacts
<1>2. /\ ConsumeSp(p).st = "Ok" => Sound(s, ConsumeSp(p), ParseNumber(ConsumeSp(p)))
      /\ ConsumeSp(q).st = "Ok" => Sound(t, ConsumeSp(q), ParseNumber(ConsumeSp(q)))
  BY <1>1, ConsumeSpFacts, EatsFacts, ParseNumberFacts
<1>3. Pair(s, t, ConsumeSp(p), ConsumeSp(q)) => Firm(s, ParseNumber(ConsumeSp(p)), ParseNumber(ConsumeSp(q)))
  BY ParseNumberRel
<1> QED BY <1>2, <1>3, SpacedRel DEF NumberAfterSp

LEMMA StatusItemIs ==
  ASSUME NEW p
  PROVE  ParseStatusItem(p)
           = Chain(ParseAtom(p), Revalued(NumberAfterSp(ParseAtom(p)),
                                          [key |-> ParseAtom(p).val, value |-> NumberAfterSp(ParseAtom(p)).val]))
BY DEF ParseStatusItem, Then, Chain, Revalued, NumberAfterSp, Spaced

LEMMA StatusItemFacts ==
  ASSUME NEW s \in Texts, NEW p, At(s, p), p.st = "Ok"
  PROVE  Eats(s, p, ParseStatusItem(p))
<1> DEFINE a == ParseAtom(p)
           n == NumberAfterSp(a)
           v == [key |-> a.val, value |-> n.val]
<1>0. Size(s) \in Nat
  BY DEF Texts, Size
<1>1. Eats(s, p, a)
  BY ParseAtomFacts
<1>2. a.st = "Ok" => Eats(s, a, n)
  BY <1>1, EatsFacts, NumberAfterSpFacts
<1>3. ParseStatusItem(p) = Chain(a, Revalued(n, v))
  BY StatusItemIs
<1> HIDE DEF a, n, v
<1>4. a.st = "Ok" => Sound(s, a, Revalued(n, v))
  BY <1>2, RevaluedEats, EatsFacts
<1> QED BY <1>0, <1>1, <1>3, <1>4, NextEats

LEMMA StatusItemRel ==
  ASSUME NEW s, NEW t, NEW p, NEW q, Pair(s, t, p, q)
  PROVE  Firm(s, ParseStatusItem(p), ParseStatusItem(q))
<1> DEFINE a == ParseAtom(p)
           n == NumberAfterSp(a)
           v == [key |-> a.val, value |-> n.val]
           b == ParseAtom(q)
           m == NumberAfterSp(b)
           w == [key |-> b.val, value |-> m.val]
<1>0. Cut(s, t) /\ s \in Texts /\ t \in Texts /\ At(s, p) /\ At(t, q) /\ p.st = "Ok" /\ q.st = "Ok"
  BY PairFacts
<1>1. Eats(s, p, a) /\ Eats(t, q, b) /\ Strong(s, a, b)
  BY <1>0, ParseAtomFacts, ParseAtomRel
<1>2. (a.st = "Ok" => Eats(s, a, n)) /\ (b.st = "Ok" => Eats(t, b, m)) /\ (Pair(s, t, a, b) => Firm(s, n, m))
  BY <1>0, <1>1, EatsFacts, NumberAfterSpFacts, NumberAfterSpRel
<1>3. ParseStatusItem(p) = Chain(a, Revalued(n, v)) /\ ParseStatusItem(q) = Chain(b, Revalued(m, w))
  BY StatusItemIs
<1>4. Pair(s, t, a, b) /\ n.st = "Ok" /\ Same(n, m) => v = w
  BY PairFacts DEF Same
<1> HIDE DEF a, n, v, b, m, w
<1>5. b.st = "Ok" => Sound(t, b, Revalued(m, w))
  BY <1>2, RevaluedEats, EatsFacts
<1>6. Pair(s, t, a, b) => Firm(s, Revalued(n, v), Revalued(m, w))
  <2> SUFFICES ASSUME Pair(s, t, a, b) PROVE Firm(s, Revalued(n, v), Revalued(m, w))
    OBVIOUS
  <2>1. Eats(s, a, n) /\ Eats(t, b, m) /\ Firm(s, n, m)
    BY <1>2, PairFacts
  <2>2. IsParser(n) /\ IsParser(m) /\ n.st # "More" /\ m.st # "More"
    BY <2>1, EatsFacts
  <2> QED BY <1>4, <2>1, <2>2, RevaluedRel
<1> QED BY <1>0, <1>1, <1>3, <1>5, <1>6, EatsFacts, NextFirm

LEMMA StatusTurnFacts ==
  ASSUME NEW s \in Texts, NEW p, At(s, p), p.st = "Ok"
  PROVE  /\ Turned(s, p, ItemEnds(ParseStatusItem(p), p.val))
         /\ Hungry(s, p, ItemEnds(ParseStatusItem(p), p.val))
<1>1. Size(s) \in Nat
  BY DEF Texts, Size
<1> QED BY <1>1, StatusItemFacts, ItemEndsFacts

LEMMA StatusTurnRel ==
  ASSUME NEW s, NEW t, NEW p, NEW q, Pair(s, t, p, q)
  PROVE  Strong(s, ItemEnds(ParseStatusItem(p), p.val), ItemEnds(ParseStatusItem(q), q.val))
<1>1. Cut(s, t) /\ s \in Texts /\ t \in Texts /\ At(s, p) /\ At(t, q) /\ p.st = "Ok" /\ q.st = "Ok" /\ p.val = q.val
  BY PairFacts
<1>2. /\ At(s, ParseStatusItem(p)) /\ At(t, ParseStatusItem(q))
      /\ ParseStatusItem(p).st # "More" /\ ParseStatusItem(q).st # "More"
  BY <1>1, StatusItemFacts, EatsFacts
<1> QED BY <1>1, <1>2, StatusItemRel, ItemEndsRel

StatusLoop(p, i) == While(p, LAMBDA r : ItemEnds(ParseStatusItem(r), r.val))

LEMMA StatusRuns ==
  ASSUME NEW s, Size(s) \in Nat, NEW p, At(s, p), NEW i
  PROVE  \E f : Runs(f, "status", i, p, Size(s) + 1) /\ StatusLoop(p, i) = f[Size(s) + 1]
<1> DEFINE E(f) == f = [n \in 0 .. Len(p.input) + 1 |->
                          IF n = 0 THEN GoOn(p)
                          ELSE IF f[n - 1].st = "More" THEN ItemEnds(ParseStatusItem(Resume(f[n - 1])), Resume(f[n - 1]).val) ELSE f[n - 1]]
<1>0. Len(p.input) = Size(s)
  BY DEF At, Size
<1>1. StatusLoop(p, i) = (CHOOSE f : E(f))[Len(p.input) + 1]
  BY DEF While, StatusLoop
<1>2. \A f : E(f) <=> Runs(f, "status", i, p, Len(p.input) + 1)
  BY DEF Runs, LoopStep, LoopTurn
<1>3. PICK n \in Nat : n = Len(p.input) + 1
  BY <1>0
<1>4. PICK g : Runs(g, "status", i, p, n)
  BY RunsExists
<1>5. E(g)
  BY <1>2, <1>3, <1>4
<1> HIDE DEF E
<1>6. E(CHOOSE f : E(f))
  BY <1>5
<1> QED BY <1>0, <1>1, <1>2, <1>6

LEMMA StatusLoopFacts ==
  ASSUME NEW s \in Texts, NEW p, At(s, p), NEW i
  PROVE  Sound(s, p, StatusLoop(p, i)) /\ At(s, StatusLoop(p, i)) /\ Hungry(s, p, StatusLoop(p, i))
<1>1. Size(s) \in Nat
  BY DEF Texts, Size
<1>2. PICK f : Runs(f, "status", i, p, Size(s) + 1) /\ StatusLoop(p, i) = f[Size(s) + 1]
  BY <1>1, StatusRuns
<1>3. \A x : LoopTurn("status", i, x) = ItemEnds(ParseStatusItem(x), x.val)
  BY DEF LoopTurn
<1>4. \A x : At(s, x) /\ x.st = "Ok" => Turned(s, x, LoopTurn("status", i, x)) /\ Hungry(s, x, LoopTurn("status", i, x))
  BY <1>1, <1>3, StatusTurnFacts
<1>5. PICK n : n = Size(s) + 1
  OBVIOUS
<1>6. Sound(s, p, f[n]) /\ At(s, f[n]) /\ Hungry(s, p, f[n])
  BY <1>1, <1>2, <1>4, <1>5, LoopFacts
<1> QED BY <1>2, <1>5, <1>6

LEMMA StatusLoopRel ==
  ASSUME NEW s, NEW t, NEW p, NEW q, Pair(s, t, p, q), NEW i
  PROVE  Strong(s, StatusLoop(p, i), StatusLoop(q, i))
<1>1. Size(s) \in Nat /\ Size(t) \in Nat /\ At(s, p) /\ At(t, q) /\ s \in Texts /\ t \in Texts
  BY PairFacts
<1>2. PICK f : Runs(f, "status", i, p, Size(s) + 1) /\ StatusLoop(p, i) = f[Size(s) + 1]
  BY <1>1, StatusRuns
<1>3. PICK g : Runs(g, "status", i, q, Size(t) + 1) /\ StatusLoop(q, i) = g[Size(t) + 1]
  BY <1>1, StatusRuns
<1>4. \A x : LoopTurn("status", i, x) = ItemEnds(ParseStatusItem(x), x.val)
  BY DEF LoopTurn
<1>5. /\ \A x : At(s, x) /\ x.st = "Ok" => Turned(s, x, LoopTurn("status", i, x))
      /\ \A x : At(t, x) /\ x.st = "Ok" => Turned(t, x, LoopTurn("status", i, x))
  BY <1>1, <1>4, StatusTurnFacts
<1>6. \A x, y : Pair(s, t, x, y) => Strong(s, LoopTurn("status", i, x), LoopTurn("status", i, y))
  BY <1>4, StatusTurnRel
<1>7. \A x, y : Pair(s, t, x, y) => Loose(s, LoopTurn("status", i, x), LoopTurn("status", i, y))
  BY <1>6 DEF Strong
<1>8. PICK m, n : m = Size(s) + 1 /\ n = Size(t) + 1
  OBVIOUS
<1>9. Strong(s, f[m], g[n])
  BY <1>2, <1>3, <1>5, <1>6, <1>7, <1>8, LoopRel
<1> QED BY <1>2, <1>3, <1>8, <1>9

LEMMA StatusItemsFacts ==
  ASSUME NEW s \in Texts, NEW p, At(s, p), p.st = "Ok"
  PROVE  Eats(s, p, ParseStatusItems(p))
<1> DEFINE k == ConsumeByte(p, "(")
           w == StatusLoop(Yield(k, <<>>), 0)
<1>0. Size(s) \in Nat
  BY DEF Texts, Size
<1>1. ParseStatusItems(p) = Chain(k, ListTail(k, w))
  BY DEF ParseStatusItems, ParenList, Then, Chain, ListTail, StatusLoop
<1>2. Eats(s, p, k)
  BY ConsumeByteFacts DEF Eats
<1> HIDE DEF k
<1>3. k.st = "Ok" => Eats(s, Yield(k, <<>>), w)
  BY <1>2, EatsFacts, YieldAt, StatusLoopFacts DEF Eats
<1> HIDE DEF w
<1>4. k.st = "Ok" => Eats(s, k, ListTail(k, w))
  BY <1>2, <1>3, EatsFacts, ListTailFacts
<1> QED BY <1>0, <1>1, <1>2, <1>4, EatsFacts, ChainEats

LEMMA StatusItemsRel ==
  ASSUME NEW s, NEW t, NEW p, NEW q, Pair(s, t, p, q)
  PROVE  Strong(s, ParseStatusItems(p), ParseStatusItems(q))
<1> DEFINE k == ConsumeByte(p, "(")
           l == ConsumeByte(q, "(")
           w == StatusLoop(Yield(k, <<>>), 0)
           v == StatusLoop(Yield(l, <<>>), 0)
<1>0. Cut(s, t) /\ s \in Texts /\ t \in Texts /\ At(s, p) /\ At(t, q) /\ p.st = "Ok" /\ q.st = "Ok"
  BY PairFacts
<1>1. ParseStatusItems(p) = Chain(k, ListTail(k, w)) /\ ParseStatusItems(q) = Chain(l, ListTail(l, v))
  BY DEF ParseStatusItems, ParenList, Then, Chain, ListTail, StatusLoop
<1>2. Eats(s, p, k) /\ Eats(t, q, l)
  BY <1>0, ConsumeByteFacts DEF Eats
<1>3. Strong(s, k, l)
  BY ConsumeByteRel
<1> HIDE DEF k, l
<1>4. (k.st = "Ok" => Eats(s, Yield(k, <<>>), w)) /\ (l.st = "Ok" => Eats(t, Yield(l, <<>>), v))
  BY <1>0, <1>2, EatsFacts, YieldAt, StatusLoopFacts DEF Eats
<1>5. k.st = "Ok" /\ Same(k, l) => Pair(s, t, k, l) /\ Strong(s, w, v) /\ l.st = "Ok"
  BY <1>0, <1>2, EatsFacts, PairNext, YieldPair, StatusLoopRel DEF Same
<1> HIDE DEF w, v
<1>6. l.st = "Ok" => Moves(t, l, ListTail(l, v))
  BY <1>0, <1>2, <1>4, EatsFacts, ListTailFacts
<1>7. k.st = "Ok" /\ Same(k, l) => Strong(s, ListTail(k, w), ListTail(l, v))
  BY <1>4, <1>5, ListTailRel
<1> QED BY <1>0, <1>1, <1>2, <1>3, <1>6, <1>7, EatsFacts, ChainStrong

StatusItemsAfterSp(p) == Spaced(p, ParseStatusItems(ConsumeSp(p)))

LEMMA StatusItemsAfterSpFacts ==
  ASSUME NEW s \in Texts, NEW p, At(s, p), p.st = "Ok"
  PROVE  Eats(s, p, StatusItemsAfterSp(p))
<1>1. ConsumeSp(p).st = "Ok" => Sound(s, ConsumeSp(p), ParseStatusItems(ConsumeSp(p)))
  BY ConsumeSpFacts, EatsFacts, StatusItemsFacts
<1> QED BY <1>1, SpacedFacts DEF StatusItemsAfterSp

LEMMA StatusItemsAfterSpRel ==
  ASSUME NEW s, NEW t, NEW p, NEW q, Pair(s, t, p, q)
  PROVE  Strong(s, StatusItemsAfterSp(p), StatusItemsAfterSp(q))
<1>1. s \in Texts /\ t \in Texts /\ At(s, p) /\ At(t, q) /\ p.st = "Ok" /\ q.st = "Ok"
  BY PairFacts
<1>2. /\ ConsumeSp(p).st = "Ok" => Sound(s, ConsumeSp(p), ParseStatusItems(ConsumeSp(p)))
      /\ ConsumeSp(q).st = "Ok" => Sound(t, ConsumeSp(q), ParseStatusItems(ConsumeSp(q)))
  BY <1>1, ConsumeSpFacts, EatsFacts, StatusItemsFacts
<1>3. Pair(s, t, ConsumeSp(p), ConsumeSp(q)) => Strong(s, ParseStatusItems(ConsumeSp(p)), ParseStatusItems(ConsumeSp(q)))
  BY StatusItemsRel
<1> QED BY <1>2, <1>3, SpacedRel DEF StatusItemsAfterSp

LEMMA StatusBodyFacts ==
  ASSUME NEW s \in Texts, NEW p, At(s, p), p.st = "Ok"
  PROVE  Eats(s, p, ParseStatusBody(p))
<1> DEFINE a == ParseAstring(p)
           b == StatusItemsAfterSp(a)
           v == [mailbox |-> a.val, items |-> b.val]
<1>0. Size(s) \in Nat
  BY DEF Texts, Size
<1>1. Eats(s, p, a)
  BY ParseAstringFacts
<1>2. a.st = "Ok" => Eats(s, a, b)
  BY <1>1, EatsFacts, StatusItemsAfterSpFacts
<1>3. ParseStatusBody(p) = Chain(a, Revalued(b, v))
  BY DEF ParseStatusBody, Then, Chain, Revalued, StatusItemsAfterSp, Spaced
<1> HIDE DEF a, b, v
<1>4. a.st = "Ok" => Sound(s, a, Revalued(b, v))
  BY <1>2, RevaluedEats, EatsFacts
<1> QED BY <1>0, <1>1, <1>3, <1>4, NextEats

LEMMA StatusBodyRel ==
  ASSUME NEW s, NEW t, NEW p, NEW q, Pair(s, t, p, q)
  PROVE  Strong(s, ParseStatusBody(p), ParseStatusBody(q))
<1> DEFINE a == ParseAstring(p)
           b == StatusItemsAfterSp(a)
           v == [mailbox |-> a.val, items |-> b.val]
           d == ParseAstring(q)
           e == StatusItemsAfterSp(d)
           w == [mailbox |-> d.val, items |-> e.val]
<1>0. Cut(s, t) /\ s \in Texts /\ t \in Texts /\ At(s, p) /\ At(t, q) /\ p.st = "Ok" /\ q.st = "Ok"
  BY PairFacts
<1>1. Eats(s, p, a) /\ Eats(t, q, d) /\ Strong(s, a, d)
  BY <1>0, ParseAstringFacts, ParseAstringRel
<1>2. (a.st = "Ok" => Eats(s, a, b)) /\ (d.st = "Ok" => Eats(t, d, e)) /\ (Pair(s, t, a, d) => Strong(s, b, e))
  BY <1>0, <1>1, EatsFacts, StatusItemsAfterSpFacts, StatusItemsAfterSpRel
<1>3. ParseStatusBody(p) = Chain(a, Revalued(b, v)) /\ ParseStatusBody(q) = Chain(d, Revalued(e, w))
  BY DEF ParseStatusBody, Then, Chain, Revalued, StatusItemsAfterSp, Spaced
<1>4. Pair(s, t, a, d) /\ b.st = "Ok" /\ Same(b, e) => v = w
  BY PairFacts DEF Same
<1> HIDE DEF a, b, v, d, e, w
<1>5. (a.st = "Ok" => Eats(s, a, Revalued(b, v)) /\ Sound(s, a, Revalued(b, v))) /\ (d.st = "Ok" => Sound(t, d, Revalued(e, w)))
  BY <1>2, RevaluedEats, EatsFacts
<1>6. Pair(s, t, a, d) => Strong(s, Revalued(b, v), Revalued(e, w))
  <2> SUFFICES ASSUME Pair(s, t, a, d) PROVE Strong(s, Revalued(b, v), Revalued(e, w))
    OBVIOUS
  <2>1. Eats(s, a, b) /\ Eats(t, d, e) /\ Strong(s, b, e)
    BY <1>2, PairFacts
  <2>2. IsParser(b) /\ IsParser(e) /\ b.st # "More" /\ e.st # "More"
    BY <2>1, EatsFacts
  <2> QED BY <1>4, <2>1, <2>2, RevaluedRel
<1> QED BY <1>0, <1>1, <1>3, <1>5, <1>6, EatsFacts, NextStrong

-------------------------------------------------------------------------------
(* LIST and LSUB. *)

NstringAfterSp(p) == Spaced(p, ParseNstring(ConsumeSp(p)))

LEMMA NstringAfterSpFacts ==
  ASSUME NEW s \in Texts, NEW p, At(s, p), p.st = "Ok"
  PROVE  Eats(s, p, NstringAfterSp(p))
<1>1. ConsumeSp(p).st = "Ok" => Sound(s, ConsumeSp(p), ParseNstring(ConsumeSp(p)))
  BY ConsumeSpFacts, EatsFacts, ParseNstringFacts
<1> QED BY <1>1, SpacedFacts DEF NstringAfterSp

LEMMA NstringAfterSpRel ==
  ASSUME NEW s, NEW t, NEW p, NEW q, Pair(s, t, p, q)
  PROVE  Loose(s, NstringAfterSp(p), NstringAfterSp(q))
<1>1. s \in Texts /\ t \in Texts /\ At(s, p) /\ At(t, q) /\ p.st = "Ok" /\ q.st = "Ok"
  BY PairFacts
<1>2. /\ ConsumeSp(p).st = "Ok" => Sound(s, ConsumeSp(p), ParseNstring(ConsumeSp(p)))
      /\ ConsumeSp(q).st = "Ok" => Sound(t, ConsumeSp(q), ParseNstring(ConsumeSp(q)))
  BY <1>1, ConsumeSpFacts, EatsFacts, ParseNstringFacts
<1>3. Pair(s, t, ConsumeSp(p), ConsumeSp(q)) => Loose(s, ParseNstring(ConsumeSp(p)), ParseNstring(ConsumeSp(q)))
  BY ParseNstringRel
<1> QED BY <1>2, <1>3, SpacedRel DEF NstringAfterSp

AstringAfterSp(p) == Spaced(p, ParseAstring(ConsumeSp(p)))

LEMMA AstringAfterSpFacts ==
  ASSUME NEW s \in Texts, NEW p, At(s, p), p.st = "Ok"
  PROVE  Eats(s, p, AstringAfterSp(p))
<1>1. ConsumeSp(p).st = "Ok" => Sound(s, ConsumeSp(p), ParseAstring(ConsumeSp(p)))
  BY ConsumeSpFacts, EatsFacts, ParseAstringFacts
<1> QED BY <1>1, SpacedFacts DEF AstringAfterSp

LEMMA AstringAfterSpRel ==
  ASSUME NEW s, NEW t, NEW p, NEW q, Pair(s, t, p, q)
  PROVE  Strong(s, AstringAfterSp(p), AstringAfterSp(q))
<1>1. s \in Texts /\ t \in Texts /\ At(s, p) /\ At(t, q) /\ p.st = "Ok" /\ q.st = "Ok"
  BY PairFacts
<1>2. /\ ConsumeSp(p).st = "Ok" => Sound(s, ConsumeSp(p), ParseAstring(ConsumeSp(p)))
      /\ ConsumeSp(q).st = "Ok" => Sound(t, ConsumeSp(q), ParseAstring(ConsumeSp(q)))
  BY <1>1, ConsumeSpFacts, EatsFacts, ParseAstringFacts
<1>3. Pair(s, t, ConsumeSp(p), ConsumeSp(q)) => Strong(s, ParseAstring(ConsumeSp(p)), ParseAstring(ConsumeSp(q)))
  BY ParseAstringRel
<1> QED BY <1>2, <1>3, SpacedRel DEF AstringAfterSp

LEMMA ListBodyFacts ==
  ASSUME NEW s \in Texts, NEW p, At(s, p), p.st = "Ok"
  PROVE  Eats(s, p, ParseListLsubBody(p))
<1> DEFINE a == ParseParenAtomList(p)
           b == NstringAfterSp(a)
           c == AstringAfterSp(b)
           v == [flags |-> a.val, delimiter |-> b.val, name |-> c.val]
<1>0. Size(s) \in Nat
  BY DEF Texts, Size
<1>1. Eats(s, p, a)
  BY AtomListFacts
<1>2. a.st = "Ok" => Eats(s, a, b)
  BY <1>1, EatsFacts, NstringAfterSpFacts
<1>3. a.st = "Ok" /\ b.st = "Ok" => Eats(s, b, c)
  BY <1>2, EatsFacts, AstringAfterSpFacts
<1>4. ParseListLsubBody(p) = Chain(a, Chain(b, Revalued(c, v)))
  BY DEF ParseListLsubBody, Then, Chain, Revalued, NstringAfterSp, AstringAfterSp, Spaced
<1> HIDE DEF a, b, c, v
<1>5. a.st = "Ok" /\ b.st = "Ok" => Sound(s, b, Revalued(c, v))
  BY <1>3, RevaluedEats, EatsFacts
<1>6. a.st = "Ok" => Sound(s, a, Chain(b, Revalued(c, v)))
  BY <1>0, <1>1, <1>2, <1>5, EatsFacts, NextEats
<1> QED BY <1>0, <1>1, <1>4, <1>6, NextEats

LEMMA ListBodyRel ==
  ASSUME NEW s, NEW t, NEW p, NEW q, Pair(s, t, p, q)
  PROVE  Strong(s, ParseListLsubBody(p), ParseListLsubBody(q))
<1> DEFINE a == ParseParenAtomList(p)
           b == NstringAfterSp(a)
           c == AstringAfterSp(b)
           v == [flags |-> a.val, delimiter |-> b.val, name |-> c.val]
           d == ParseParenAtomList(q)
           e == NstringAfterSp(d)
           f == AstringAfterSp(e)
           w == [flags |-> d.val, delimiter |-> e.val, name |-> f.val]
<1>0. /\ Cut(s, t) /\ s \in Texts /\ t \in Texts /\ At(s, p) /\ At(t, q) /\ p.st = "Ok" /\ q.st = "Ok"
      /\ Size(s) \in Nat /\ Size(t) \in Nat
  BY PairFacts
<1>1. Eats(s, p, a) /\ Eats(t, q, d) /\ Strong(s, a, d)
  BY <1>0, AtomListFacts, AtomListRel
<1>2. (a.st = "Ok" => Eats(s, a, b)) /\ (d.st = "Ok" => Eats(t, d, e)) /\ (Pair(s, t, a, d) => Loose(s, b, e))
  BY <1>0, <1>1, EatsFacts, NstringAfterSpFacts, NstringAfterSpRel
<1>3. /\ a.st = "Ok" /\ b.st = "Ok" => Eats(s, b, c)
      /\ d.st = "Ok" /\ e.st = "Ok" => Eats(t, e, f)
      /\ Pair(s, t, b, e) => Strong(s, c, f)
  BY <1>0, <1>2, EatsFacts, AstringAfterSpFacts, AstringAfterSpRel
<1>4. ParseListLsubBody(p) = Chain(a, Chain(b, Revalued(c, v))) /\ ParseListLsubBody(q) = Chain(d, Chain(e, Revalued(f, w)))
  BY DEF ParseListLsubBody, Then, Chain, Revalued, NstringAfterSp, AstringAfterSp, Spaced
<1>5. Pair(s, t, a, d) /\ Pair(s, t, b, e) /\ c.st = "Ok" /\ Same(c, f) => v = w
  BY PairFacts DEF Same
<1> HIDE DEF a, b, c, v, d, e, f, w
<1>6. /\ a.st = "Ok" /\ b.st = "Ok" => Eats(s, b, Revalued(c, v)) /\ Sound(s, b, Revalued(c, v))
      /\ d.st = "Ok" /\ e.st = "Ok" => Sound(t, e, Revalued(f, w))
  BY <1>3, RevaluedEats, EatsFacts
<1>7. /\ a.st = "Ok" => Eats(s, a, Chain(b, Revalued(c, v))) /\ Sound(s, a, Chain(b, Revalued(c, v)))
      /\ d.st = "Ok" => Sound(t, d, Chain(e, Revalued(f, w)))
  BY <1>0, <1>1, <1>2, <1>6, EatsFacts, NextEats
<1>8. Pair(s, t, a, d) => Strong(s, Chain(b, Revalued(c, v)), Chain(e, Revalued(f, w)))
  <2> SUFFICES ASSUME Pair(s, t, a, d) PROVE Strong(s, Chain(b, Revalued(c, v)), Chain(e, Revalued(f, w)))
    OBVIOUS
  <2>1. a.st = "Ok" /\ d.st = "Ok"
    BY PairFacts
  <2>2. Pair(s, t, b, e) => Strong(s, Revalued(c, v), Revalued(f, w))
    <3> SUFFICES ASSUME Pair(s, t, b, e) PROVE Strong(s, Revalued(c, v), Revalued(f, w))
      OBVIOUS
    <3>1. Eats(s, b, c) /\ Eats(t, e, f) /\ Strong(s, c, f)
      BY <1>3, <2>1, PairFacts
    <3>2. IsParser(c) /\ IsParser(f) /\ c.st # "More" /\ f.st # "More"
      BY <3>1, EatsFacts
    <3>3. c.st = "Ok" /\ Same(c, f) => v = w
      BY <1>5
    <3> QED BY <3>1, <3>2, <3>3, RevaluedRel
  <2>3. Sound(s, a, b) /\ Sound(t, d, e) /\ Loose(s, b, e)
    BY <1>2, <2>1, EatsFacts
  <2> QED BY <1>0, <1>6, <2>1, <2>2, <2>3, NextCloses
<1> QED BY <1>0, <1>1, <1>4, <1>7, <1>8, EatsFacts, NextStrong

-------------------------------------------------------------------------------
(* The section, the origin and the data of BODY. *)

\* What eats after a symbol eats with it.
LEMMA AfterAdvance ==
  ASSUME NEW s \in Texts, NEW p, At(s, p), p.st = "Ok", ~IsEof(p), NEW a, Sound(s, Advance(p, 1), a)
  PROVE  Eats(s, p, a)
<1> DEFINE x == Advance(p, 1)
<1>0. Size(s) \in Nat /\ p.pos \in Nat /\ p.pos # Size(s) + 1
  BY PeekFacts DEF Texts, Size, At
<1>1. At(s, x) /\ x.st = "Ok" /\ Moves(s, p, x)
  BY <1>0, AdvanceOne DEF Sound, Turned
<1>2. Moves(s, x, a) /\ a.st # "More"
  BY DEF Sound, Turned
<1> HIDE DEF x
<1>3. Moves(s, p, Chain(x, a))
  BY <1>0, <1>1, <1>2, ChainMoves
<1>4. Moves(s, p, a)
  BY <1>1, <1>3 DEF Chain
<1> QED BY <1>0, <1>2, <1>4, MovesEats

NumberFirst(p) ==
  Chain(ParseNumber(p), Revalued(ConsumeByte(ParseNumber(p), ">"), <<ParseNumber(p).val>>))

LEMMA NumberEats ==
  ASSUME NEW s \in Texts, NEW p, At(s, p), p.st = "Ok"
  PROVE  Eats(s, p, ParseNumber(p))
BY ParseNumberFacts DEF Eats

LEMMA ConsumeByteEats ==
  ASSUME NEW s \in Texts, NEW p, At(s, p), p.st = "Ok", NEW c, c # "EOF"
  PROVE  Eats(s, p, ConsumeByte(p, c))
BY ConsumeByteFacts DEF Eats

LEMMA NumberFirstFacts ==
  ASSUME NEW s \in Texts, NEW p, At(s, p), p.st = "Ok"
  PROVE  Eats(s, p, NumberFirst(p))
<1> DEFINE a == ParseNumber(p)
           b == ConsumeByte(a, ">")
           v == <<a.val>>
<1>0. Size(s) \in Nat
  BY DEF Texts, Size
<1>1. Eats(s, p, a)
  BY NumberEats
<1>2. a.st = "Ok" => Eats(s, a, b)
  BY <1>1, EatsFacts, ConsumeByteEats
<1>3. NumberFirst(p) = Chain(a, Revalued(b, v))
  BY DEF NumberFirst
<1> HIDE DEF a, b, v
<1>4. a.st = "Ok" => Sound(s, a, Revalued(b, v))
  BY <1>2, RevaluedEats, EatsFacts
<1> QED BY <1>0, <1>1, <1>3, <1>4, NextEats

LEMMA NumberFirstRel ==
  ASSUME NEW s, NEW t, NEW p, NEW q, Pair(s, t, p, q)
  PROVE  Strong(s, NumberFirst(p), NumberFirst(q))
<1> DEFINE a == ParseNumber(p)
           b == ConsumeByte(a, ">")
           v == <<a.val>>
           d == ParseNumber(q)
           e == ConsumeByte(d, ">")
           w == <<d.val>>
<1>0. Cut(s, t) /\ s \in Texts /\ t \in Texts /\ At(s, p) /\ At(t, q) /\ p.st = "Ok" /\ q.st = "Ok"
  BY PairFacts
<1>1. Eats(s, p, a) /\ Eats(t, q, d) /\ Loose(s, a, d)
  BY <1>0, NumberEats, ParseNumberRel DEF Firm
<1>2. (a.st = "Ok" => Eats(s, a, b)) /\ (d.st = "Ok" => Eats(t, d, e)) /\ (Pair(s, t, a, d) => Strong(s, b, e))
  BY <1>0, <1>1, EatsFacts, ConsumeByteEats, ConsumeByteRel
<1>3. NumberFirst(p) = Chain(a, Revalued(b, v)) /\ NumberFirst(q) = Chain(d, Revalued(e, w))
  BY DEF NumberFirst
<1>4. Pair(s, t, a, d) /\ b.st = "Ok" /\ Same(b, e) => v = w
  BY PairFacts DEF Same
<1> HIDE DEF a, b, v, d, e, w
<1>5. (a.st = "Ok" => Eats(s, a, Revalued(b, v)) /\ Sound(s, a, Revalued(b, v))) /\ (d.st = "Ok" => Sound(t, d, Revalued(e, w)))
  BY <1>2, RevaluedEats, EatsFacts
<1>6. Pair(s, t, a, d) => Strong(s, Revalued(b, v), Revalued(e, w))
  <2> SUFFICES ASSUME Pair(s, t, a, d) PROVE Strong(s, Revalued(b, v), Revalued(e, w))
    OBVIOUS
  <2>1. Eats(s, a, b) /\ Eats(t, d, e) /\ Strong(s, b, e)
    BY <1>2, PairFacts
  <2>2. IsParser(b) /\ IsParser(e) /\ b.st # "More" /\ e.st # "More"
    BY <2>1, EatsFacts
  <2> QED BY <1>4, <2>1, <2>2, RevaluedRel
<1> QED BY <1>0, <1>1, <1>3, <1>5, <1>6, EatsFacts, NextCloses

Origin(p) == IF Peek(p) # "<" THEN Yield(p, <<>>) ELSE NumberFirst(Advance(p, 1))

LEMMA OriginFacts ==
  ASSUME NEW s \in Texts, NEW p, At(s, p), p.st = "Ok"
  PROVE  Sound(s, p, Origin(p))
<1>1. CASE Peek(p) # "<"
  <2>1. Origin(p) = Yield(p, <<>>)
    BY <1>1 DEF Origin
  <2>2. At(s, Yield(p, <<>>)) /\ Yield(p, <<>>).pos = p.pos /\ Yield(p, <<>>).st = "Ok"
    BY YieldAt, YieldFacts DEF At
  <2> QED BY <2>1, <2>2 DEF Sound, Turned, Moves, At
<1>2. CASE Peek(p) = "<"
  <2>1. ~IsEof(p) /\ Origin(p) = NumberFirst(Advance(p, 1))
    BY <1>2, PeekFacts DEF Origin, Texts, Size
  <2>2. At(s, Advance(p, 1)) /\ Advance(p, 1).st = "Ok"
    BY <2>1, AdvanceOne DEF Texts, Size
  <2>3. Sound(s, Advance(p, 1), NumberFirst(Advance(p, 1)))
    BY <2>2, NumberFirstFacts, EatsFacts
  <2>4. Eats(s, p, NumberFirst(Advance(p, 1)))
    BY <2>1, <2>3, AfterAdvance
  <2> QED BY <2>1, <2>4, EatsFacts
<1> QED BY <1>1, <1>2

LEMMA OriginRel ==
  ASSUME NEW s, NEW t, NEW p, NEW q, Pair(s, t, p, q)
  PROVE  Loose(s, Origin(p), Origin(q))
<1>0. /\ Cut(s, t) /\ s \in Texts /\ t \in Texts /\ At(s, p) /\ At(t, q) /\ p.st = "Ok" /\ q.st = "Ok" /\ Same(p, q)
      /\ p.pos = q.pos /\ Size(s) \in Nat /\ IsParser(p) /\ IsParser(q)
  BY PairFacts
<1>1. CASE IsEof(p)
  <2>1. Origin(p) = Yield(p, <<>>)
    BY <1>0, <1>1, PeekFacts DEF Origin
  <2>2. At(s, Yield(p, <<>>)) /\ Yield(p, <<>>).pos = p.pos /\ Yield(p, <<>>).st = "Ok"
    BY <1>0, YieldAt, YieldFacts
  <2>3. Moves(t, q, Origin(q))
    BY <1>0, OriginFacts DEF Turned, Sound
  <2> QED BY <1>1, <2>1, <2>2, <2>3, StayLoose
<1>2. CASE ~IsEof(p) /\ Peek(p) # "<"
  <2>1. Origin(p) = Yield(p, <<>>) /\ Origin(q) = Yield(q, <<>>)
    BY <1>0, <1>2, PeekRel DEF Origin
  <2>2. Same(Yield(p, <<>>), Yield(q, <<>>)) /\ Yield(p, <<>>).st = "Ok"
    BY <1>0, YieldSame
  <2> QED BY <2>1, <2>2, SameIsStrong DEF Strong
<1>3. CASE ~IsEof(p) /\ Peek(p) = "<"
  <2>1. Origin(p) = NumberFirst(Advance(p, 1)) /\ Origin(q) = NumberFirst(Advance(q, 1))
    BY <1>0, <1>3, PeekRel DEF Origin
  <2>2. Pair(s, t, Advance(p, 1), Advance(q, 1))
    BY <1>3, AdvanceRel
  <2> QED BY <2>1, <2>2, NumberFirstRel DEF Strong
<1> QED BY <1>1, <1>2, <1>3

Bracket(p) == Chain(ConsumeByte(p, "]"), Origin(ConsumeByte(p, "]")))

LEMMA BracketFacts ==
  ASSUME NEW s \in Texts, NEW p, At(s, p), p.st = "Ok"
  PROVE  Eats(s, p, Bracket(p))
<1> DEFINE a == ConsumeByte(p, "]")
<1>0. Size(s) \in Nat /\ "]" # "EOF"
  BY DEF Texts, Size
<1>1. Eats(s, p, a)
  BY <1>0, ConsumeByteEats
<1>2. Bracket(p) = Chain(a, Origin(a))
  BY DEF Bracket
<1> HIDE DEF a
<1>3. a.st = "Ok" => Sound(s, a, Origin(a))
  BY <1>1, EatsFacts, OriginFacts
<1> QED BY <1>0, <1>1, <1>2, <1>3, NextEats

LEMMA BracketRel ==
  ASSUME NEW s, NEW t, NEW p, NEW q, Pair(s, t, p, q)
  PROVE  Loose(s, Bracket(p), Bracket(q))
<1> DEFINE a == ConsumeByte(p, "]")
           b == ConsumeByte(q, "]")
<1>0. /\ Cut(s, t) /\ s \in Texts /\ t \in Texts /\ At(s, p) /\ At(t, q) /\ p.st = "Ok" /\ q.st = "Ok"
      /\ "]" # "EOF"
  BY PairFacts
<1>1. Eats(s, p, a) /\ Eats(t, q, b)
  BY <1>0, ConsumeByteEats
<1>2. Strong(s, a, b)
  BY <1>0, ConsumeByteRel
<1>3. Bracket(p) = Chain(a, Origin(a)) /\ Bracket(q) = Chain(b, Origin(b))
  BY DEF Bracket
<1> HIDE DEF a, b
<1>4. (a.st = "Ok" => Sound(s, a, Origin(a))) /\ (b.st = "Ok" => Sound(t, b, Origin(b)))
  BY <1>0, <1>1, EatsFacts, OriginFacts
<1>5. Pair(s, t, a, b) => Loose(s, Origin(a), Origin(b))
  BY OriginRel
<1>6. Sound(s, p, a) /\ Sound(t, q, b) /\ Loose(s, a, b)
  BY <1>1, <1>2, EatsFacts DEF Strong
<1> QED BY <1>0, <1>3, <1>4, <1>5, <1>6, NextLoose

LEMMA ReadUntilEats ==
  ASSUME NEW s \in Texts, NEW p, At(s, p), p.st = "Ok", NEW c
  PROVE  Eats(s, p, ReadUntilByte(p, c))
BY ReadUntilFacts DEF Eats

BytesAfterSp(p) == Spaced(p, ParseNstringBytes(ConsumeSp(p)))

LEMMA BytesAfterSpFacts ==
  ASSUME NEW s \in Texts, NEW p, At(s, p), p.st = "Ok"
  PROVE  Eats(s, p, BytesAfterSp(p))
<1>1. ConsumeSp(p).st = "Ok" => Sound(s, ConsumeSp(p), ParseNstringBytes(ConsumeSp(p)))
  BY ConsumeSpFacts, EatsFacts, NstringBytesFacts
<1> QED BY <1>1, SpacedFacts DEF BytesAfterSp

LEMMA BytesAfterSpRel ==
  ASSUME NEW s, NEW t, NEW p, NEW q, Pair(s, t, p, q)
  PROVE  Firm(s, BytesAfterSp(p), BytesAfterSp(q))
<1>1. s \in Texts /\ t \in Texts /\ At(s, p) /\ At(t, q) /\ p.st = "Ok" /\ q.st = "Ok"
  BY PairFacts
<1>2. /\ ConsumeSp(p).st = "Ok" => Sound(s, ConsumeSp(p), ParseNstringBytes(ConsumeSp(p)))
      /\ ConsumeSp(q).st = "Ok" => Sound(t, ConsumeSp(q), ParseNstringBytes(ConsumeSp(q)))
  BY <1>1, ConsumeSpFacts, EatsFacts, NstringBytesFacts
<1>3. Pair(s, t, ConsumeSp(p), ConsumeSp(q)) => Firm(s, ParseNstringBytes(ConsumeSp(p)), ParseNstringBytes(ConsumeSp(q)))
  BY NstringBytesRel
<1> QED BY <1>2, <1>3, SpacedRel DEF BytesAfterSp

LEMMA BodySectionFacts ==
  ASSUME NEW s \in Texts, NEW p, At(s, p), p.st = "Ok"
  PROVE  Eats(s, p, ParseBodySection(p))
<1> DEFINE a == ReadUntilByte(p, "]")
           b == Bracket(a)
           c == BytesAfterSp(b)
           v == [att |-> "BODY[]", section |-> a.val, origin |-> b.val, data |-> c.val]
<1>0. Size(s) \in Nat
  BY DEF Texts, Size
<1>1. Eats(s, p, a)
  BY ReadUntilEats
<1>2. a.st = "Ok" => Eats(s, a, b)
  BY <1>1, EatsFacts, BracketFacts
<1>3. a.st = "Ok" /\ b.st = "Ok" => Eats(s, b, c)
  BY <1>2, EatsFacts, BytesAfterSpFacts
<1>4. ParseBodySection(p) = Chain(a, Chain(b, Revalued(c, v)))
  BY DEF ParseBodySection, Then, Chain, Revalued, Bracket, Origin, NumberFirst, BytesAfterSp, Spaced
<1> HIDE DEF a, b, c, v
<1>5. a.st = "Ok" /\ b.st = "Ok" => Sound(s, b, Revalued(c, v))
  BY <1>3, RevaluedEats, EatsFacts
<1>6. a.st = "Ok" => Sound(s, a, Chain(b, Revalued(c, v)))
  BY <1>0, <1>1, <1>2, <1>5, EatsFacts, NextEats
<1> QED BY <1>0, <1>1, <1>4, <1>6, NextEats

LEMMA BodySectionRel ==
  ASSUME NEW s, NEW t, NEW p, NEW q, Pair(s, t, p, q)
  PROVE  Firm(s, ParseBodySection(p), ParseBodySection(q))
<1> DEFINE a == ReadUntilByte(p, "]")
           b == Bracket(a)
           c == BytesAfterSp(b)
           v == [att |-> "BODY[]", section |-> a.val, origin |-> b.val, data |-> c.val]
           d == ReadUntilByte(q, "]")
           e == Bracket(d)
           f == BytesAfterSp(e)
           w == [att |-> "BODY[]", section |-> d.val, origin |-> e.val, data |-> f.val]
<1>0. /\ Cut(s, t) /\ s \in Texts /\ t \in Texts /\ At(s, p) /\ At(t, q) /\ p.st = "Ok" /\ q.st = "Ok"
      /\ Size(s) \in Nat /\ Size(t) \in Nat
  BY PairFacts
<1>1. Eats(s, p, a) /\ Eats(t, q, d) /\ Strong(s, a, d)
  BY <1>0, ReadUntilEats, ReadUntilRel
<1>2. (a.st = "Ok" => Eats(s, a, b)) /\ (d.st = "Ok" => Eats(t, d, e)) /\ (Pair(s, t, a, d) => Loose(s, b, e))
  BY <1>0, <1>1, EatsFacts, BracketFacts, BracketRel
<1>3. /\ a.st = "Ok" /\ b.st = "Ok" => Eats(s, b, c)
      /\ d.st = "Ok" /\ e.st = "Ok" => Eats(t, e, f)
      /\ Pair(s, t, b, e) => Firm(s, c, f)
  BY <1>0, <1>2, EatsFacts, BytesAfterSpFacts, BytesAfterSpRel
<1>4. ParseBodySection(p) = Chain(a, Chain(b, Revalued(c, v))) /\ ParseBodySection(q) = Chain(d, Chain(e, Revalued(f, w)))
  BY DEF ParseBodySection, Then, Chain, Revalued, Bracket, Origin, NumberFirst, BytesAfterSp, Spaced
<1>5. Pair(s, t, a, d) /\ Pair(s, t, b, e) /\ c.st = "Ok" /\ Same(c, f) => v = w
  BY PairFacts DEF Same
<1> HIDE DEF a, b, c, v, d, e, f, w
<1>6. /\ a.st = "Ok" /\ b.st = "Ok" => Eats(s, b, Revalued(c, v)) /\ Sound(s, b, Revalued(c, v))
      /\ d.st = "Ok" /\ e.st = "Ok" => Sound(t, e, Revalued(f, w))
  BY <1>3, RevaluedEats, EatsFacts
<1>7. /\ a.st = "Ok" => Eats(s, a, Chain(b, Revalued(c, v))) /\ Sound(s, a, Chain(b, Revalued(c, v)))
      /\ d.st = "Ok" => Sound(t, d, Chain(e, Revalued(f, w)))
  BY <1>0, <1>1, <1>2, <1>6, EatsFacts, NextEats
<1>8. Pair(s, t, a, d) => Firm(s, Chain(b, Revalued(c, v)), Chain(e, Revalued(f, w)))
  <2> SUFFICES ASSUME Pair(s, t, a, d) PROVE Firm(s, Chain(b, Revalued(c, v)), Chain(e, Revalued(f, w)))
    OBVIOUS
  <2>1. a.st = "Ok" /\ d.st = "Ok"
    BY PairFacts
  <2>2. Pair(s, t, b, e) => Firm(s, Revalued(c, v), Revalued(f, w))
    <3> SUFFICES ASSUME Pair(s, t, b, e) PROVE Firm(s, Revalued(c, v), Revalued(f, w))
      OBVIOUS
    <3>1. Eats(s, b, c) /\ Eats(t, e, f) /\ Firm(s, c, f)
      BY <1>3, <2>1, PairFacts
    <3>2. IsParser(c) /\ IsParser(f) /\ c.st # "More" /\ f.st # "More"
      BY <3>1, EatsFacts
    <3>3. c.st = "Ok" /\ Same(c, f) => v = w
      BY <1>5
    <3> QED BY <3>1, <3>2, <3>3, RevaluedRel
  <2>3. Sound(s, a, b) /\ Sound(t, d, e) /\ Loose(s, b, e)
    BY <1>2, <2>1, EatsFacts
  <2> QED BY <1>0, <1>6, <2>1, <2>2, <2>3, NextClosesFirm
<1> QED BY <1>0, <1>1, <1>4, <1>7, <1>8, EatsFacts, NextFirm

-------------------------------------------------------------------------------
(* The attributes of FETCH. *)

NumberNames == {"UID", "RFC822.SIZE"}
TextNames == {"RFC822", "RFC822.HEADER", "RFC822.TEXT"}
TreeNames == {"ENVELOPE", "BODYSTRUCTURE", "BODY"}
FetchNames == {"UID", "RFC822.SIZE", "FLAGS", "INTERNALDATE", "RFC822", "RFC822.HEADER", "RFC822.TEXT",
               "ENVELOPE", "BODYSTRUCTURE", "BODY"}

FetchBytes(v) == IF v = <<>> THEN <<>> ELSE v[1]

FetchValue(word, q) ==
  CASE word \in {"UID", "RFC822.SIZE"}       -> ParseNumber(q)
    [] word = "FLAGS"                        -> ParseParenAtomList(q)
    [] word = "INTERNALDATE"                 -> ParseQuoted(q)
    [] word \in {"RFC822", "RFC822.HEADER", "RFC822.TEXT"} ->
         Revalued(ParseNstringBytes(q), FetchBytes(ParseNstringBytes(q).val))
    [] word \in {"ENVELOPE", "BODYSTRUCTURE", "BODY"} -> ParseBalancedParens(q)

LEMMA FetchValueIs ==
  ASSUME NEW q, NEW word
  PROVE  /\ word \in NumberNames => FetchValue(word, q) = ParseNumber(q)
         /\ word = "FLAGS" => FetchValue(word, q) = ParseParenAtomList(q)
         /\ word = "INTERNALDATE" => FetchValue(word, q) = ParseQuoted(q)
         /\ word \in TextNames
              => FetchValue(word, q) = Revalued(ParseNstringBytes(q), FetchBytes(ParseNstringBytes(q).val))
         /\ word \in TreeNames => FetchValue(word, q) = ParseBalancedParens(q)
         /\ word \in FetchNames => word \in NumberNames \cup {"FLAGS", "INTERNALDATE"} \cup TextNames \cup TreeNames
BY DEF FetchValue, NumberNames, TextNames, TreeNames, FetchNames

LEMMA FetchValueFacts ==
  ASSUME NEW s \in Texts, NEW p, At(s, p), p.st = "Ok", NEW word \in FetchNames
  PROVE  Eats(s, p, FetchValue(word, p))
<1>1. CASE word \in NumberNames
  BY <1>1, FetchValueIs, NumberEats
<1>2. CASE word = "FLAGS"
  BY <1>2, FetchValueIs, AtomListFacts
<1>3. CASE word = "INTERNALDATE"
  BY <1>3, FetchValueIs, ParseQuotedFacts
<1>4. CASE word \in TextNames
  <2>1. Eats(s, p, Revalued(ParseNstringBytes(p), FetchBytes(ParseNstringBytes(p).val)))
    BY NstringBytesFacts, RevaluedEats
  <2> QED BY <1>4, <2>1, FetchValueIs
<1>5. CASE word \in TreeNames
  BY <1>5, FetchValueIs, ParensFacts
<1> QED BY <1>1, <1>2, <1>3, <1>4, <1>5, FetchValueIs

LEMMA FetchValueRel ==
  ASSUME NEW s, NEW t, NEW p, NEW q, Pair(s, t, p, q), NEW word \in FetchNames
  PROVE  Firm(s, FetchValue(word, p), FetchValue(word, q))
<1>1. CASE word \in NumberNames
  BY <1>1, FetchValueIs, ParseNumberRel
<1>2. CASE word = "FLAGS"
  BY <1>2, FetchValueIs, AtomListRel, StrongIsFirm
<1>3. CASE word = "INTERNALDATE"
  BY <1>3, FetchValueIs, ParseQuotedRel, StrongIsFirm
<1>4. CASE word \in TextNames
  <2> DEFINE a == ParseNstringBytes(p)
             b == ParseNstringBytes(q)
  <2>1. Firm(s, a, b)
    BY NstringBytesRel
  <2>2. IsParser(a) /\ IsParser(b) /\ a.st # "More" /\ b.st # "More"
    BY PairFacts, NstringBytesFacts, EatsFacts
  <2>3. FetchValue(word, p) = Revalued(a, FetchBytes(a.val)) /\ FetchValue(word, q) = Revalued(b, FetchBytes(b.val))
    BY <1>4, FetchValueIs
  <2> HIDE DEF a, b
  <2>4. a.st = "Ok" /\ Same(a, b) => FetchBytes(a.val) = FetchBytes(b.val)
    BY DEF Same
  <2> QED BY <2>1, <2>2, <2>3, <2>4, RevaluedRel
<1>5. CASE word \in TreeNames
  BY <1>5, FetchValueIs, ParensRel, StrongIsFirm
<1> QED BY <1>1, <1>2, <1>3, <1>4, <1>5, FetchValueIs

\* SP and the value of an attribute, with its name.
FetchNamed(p, word) ==
  Spaced(p, Revalued(FetchValue(word, ConsumeSp(p)), [att |-> word, data |-> FetchValue(word, ConsumeSp(p)).val]))

LEMMA FetchNamedFacts ==
  ASSUME NEW s \in Texts, NEW p, At(s, p), p.st = "Ok", NEW word \in FetchNames
  PROVE  Eats(s, p, FetchNamed(p, word))
<1> DEFINE v == [att |-> word, data |-> FetchValue(word, ConsumeSp(p)).val]
<1>1. ConsumeSp(p).st = "Ok" => Eats(s, ConsumeSp(p), FetchValue(word, ConsumeSp(p)))
  BY ConsumeSpFacts, EatsFacts, FetchValueFacts
<1>2. FetchNamed(p, word) = Spaced(p, Revalued(FetchValue(word, ConsumeSp(p)), v))
  BY DEF FetchNamed
<1> HIDE DEF v
<1>3. ConsumeSp(p).st = "Ok" => Sound(s, ConsumeSp(p), Revalued(FetchValue(word, ConsumeSp(p)), v))
  BY <1>1, RevaluedEats, EatsFacts
<1> QED BY <1>2, <1>3, SpacedFacts

LEMMA FetchNamedRel ==
  ASSUME NEW s, NEW t, NEW p, NEW q, Pair(s, t, p, q), NEW word \in FetchNames
  PROVE  Firm(s, FetchNamed(p, word), FetchNamed(q, word))
<1> DEFINE a == FetchValue(word, ConsumeSp(p))
           b == FetchValue(word, ConsumeSp(q))
           v == [att |-> word, data |-> a.val]
           w == [att |-> word, data |-> b.val]
<1>0. s \in Texts /\ t \in Texts /\ At(s, p) /\ At(t, q) /\ p.st = "Ok" /\ q.st = "Ok"
  BY PairFacts
<1>1. /\ ConsumeSp(p).st = "Ok" => Eats(s, ConsumeSp(p), a)
      /\ ConsumeSp(q).st = "Ok" => Eats(t, ConsumeSp(q), b)
  BY <1>0, ConsumeSpFacts, EatsFacts, FetchValueFacts
<1>2. FetchNamed(p, word) = Spaced(p, Revalued(a, v)) /\ FetchNamed(q, word) = Spaced(q, Revalued(b, w))
  BY DEF FetchNamed
<1>3. Pair(s, t, ConsumeSp(p), ConsumeSp(q)) => Firm(s, a, b)
  BY FetchValueRel
<1>4. a.st = "Ok" /\ Same(a, b) => v = w
  BY DEF Same
<1> HIDE DEF a, b, v, w
<1>5. /\ ConsumeSp(p).st = "Ok" => Sound(s, ConsumeSp(p), Revalued(a, v))
      /\ ConsumeSp(q).st = "Ok" => Sound(t, ConsumeSp(q), Revalued(b, w))
  BY <1>1, RevaluedEats, EatsFacts
<1>6. Pair(s, t, ConsumeSp(p), ConsumeSp(q)) => Firm(s, Revalued(a, v), Revalued(b, w))
  <2> SUFFICES ASSUME Pair(s, t, ConsumeSp(p), ConsumeSp(q)) PROVE Firm(s, Revalued(a, v), Revalued(b, w))
    OBVIOUS
  <2>1. IsParser(a) /\ IsParser(b) /\ a.st # "More" /\ b.st # "More"
    BY <1>1, PairFacts, EatsFacts
  <2> QED BY <1>3, <1>4, <2>1, RevaluedRel
<1> QED BY <1>2, <1>5, <1>6, SpacedRel

FetchTail(a) ==
  IF a.val = <<"BODY">> /\ Peek(a) = "[" THEN ParseBodySection(Advance(a, 1))
  ELSE IF Len(a.val) = 1 /\ a.val[1] \in FetchNames THEN FetchNamed(a, a.val[1])
  ELSE Fail(a, "Malformed")

LEMMA OneFetchIs ==
  ASSUME NEW p
  PROVE  ParseOneFetchAtt(p) = Chain(ParseFetchAttName(p), FetchTail(ParseFetchAttName(p)))
<1> DEFINE a == ParseFetchAttName(p)
           r == ConsumeSp(a)
<1>1. \A word, x : (CASE word \in {"UID", "RFC822.SIZE"}       -> ParseNumber(x)
              [] word = "FLAGS"                        -> ParseParenAtomList(x)
              [] word = "INTERNALDATE"                 -> ParseQuoted(x)
              [] word \in {"RFC822", "RFC822.HEADER", "RFC822.TEXT"} ->
                   Then(ParseNstringBytes(x), LAMBDA u :
                        Yield(u, IF u.val = <<>> THEN <<>> ELSE u.val[1]))
              [] word \in {"ENVELOPE", "BODYSTRUCTURE", "BODY"} -> ParseBalancedParens(x)) = FetchValue(word, x)
  BY DEF FetchValue, Then, Revalued, Chain, FetchBytes
<1>2. CASE a.val = <<"BODY">> /\ Peek(a) = "["
  BY <1>2 DEF ParseOneFetchAtt, Then, Chain, FetchTail
<1>3. CASE ~(a.val = <<"BODY">> /\ Peek(a) = "[") /\ Len(a.val) = 1 /\ a.val[1] \in FetchNames
  <2>1. FetchTail(a) = FetchNamed(a, a.val[1])
    BY <1>3 DEF FetchTail
  <2>2. FetchNamed(a, a.val[1]) = IF r.st = "Ok" THEN IF FetchValue(a.val[1], r).st = "Ok"
                                   THEN Yield(FetchValue(a.val[1], r), [att |-> a.val[1], data |-> FetchValue(a.val[1], r).val])
                                   ELSE FetchValue(a.val[1], r) ELSE r
    BY DEF FetchNamed, Spaced, Chain, Revalued
  <2>3. ParseOneFetchAtt(p) = IF a.st = "Ok" THEN IF r.st = "Ok" THEN IF FetchValue(a.val[1], r).st = "Ok"
                                   THEN Yield(FetchValue(a.val[1], r), [att |-> a.val[1], data |-> FetchValue(a.val[1], r).val])
                                   ELSE FetchValue(a.val[1], r) ELSE r ELSE a
    BY <1>1, <1>3 DEF ParseOneFetchAtt, Then, FetchNames
  <2> QED BY <2>1, <2>2, <2>3 DEF Chain
<1>4. CASE ~(a.val = <<"BODY">> /\ Peek(a) = "[") /\ ~(Len(a.val) = 1 /\ a.val[1] \in FetchNames)
  BY <1>4 DEF ParseOneFetchAtt, Then, Chain, FetchTail, FetchNames
<1> QED BY <1>2, <1>3, <1>4

LEMMA FetchNameFacts ==
  ASSUME NEW s \in Texts, NEW p, At(s, p), p.st = "Ok"
  PROVE  /\ Eats(s, p, ParseFetchAttName(p))
         /\ ParseFetchAttName(p).st = "Ok" => ParseFetchAttName(p).pos <= Size(s)
BY TokenFacts DEF ParseFetchAttName, Eats

LEMMA FetchTailFacts ==
  ASSUME NEW s \in Texts, NEW p, At(s, p), p.st = "Ok", ~IsEof(p)
  PROVE  Eats(s, p, FetchTail(p))
<1>0. Size(s) \in Nat /\ p.pos \in Nat /\ p.pos # Size(s) + 1
  BY PeekFacts DEF Texts, Size, At
<1>1. CASE p.val = <<"BODY">> /\ Peek(p) = "["
  <2>1. At(s, Advance(p, 1)) /\ Advance(p, 1).st = "Ok"
    BY <1>0, AdvanceOne
  <2>2. Sound(s, Advance(p, 1), ParseBodySection(Advance(p, 1)))
    BY <2>1, BodySectionFacts, EatsFacts
  <2>3. Eats(s, p, ParseBodySection(Advance(p, 1)))
    BY <2>2, AfterAdvance
  <2> QED BY <1>1, <2>3 DEF FetchTail
<1>2. CASE ~(p.val = <<"BODY">> /\ Peek(p) = "[") /\ Len(p.val) = 1 /\ p.val[1] \in FetchNames
  <2>1. FetchTail(p) = FetchNamed(p, p.val[1])
    BY <1>2 DEF FetchTail
  <2> QED BY <1>2, <2>1, FetchNamedFacts
<1>3. CASE ~(p.val = <<"BODY">> /\ Peek(p) = "[") /\ ~(Len(p.val) = 1 /\ p.val[1] \in FetchNames)
  <2>1. FetchTail(p) = Fail(p, "Malformed") /\ "Malformed" \notin Going
    BY <1>3 DEF FetchTail, Going
  <2>2. Sound(s, p, Fail(p, "Malformed")) /\ Hungry(s, p, Fail(p, "Malformed")) /\ At(s, Fail(p, "Malformed"))
    BY <1>0, <2>1, Refuses
  <2> QED BY <2>1, <2>2 DEF Eats
<1> QED BY <1>1, <1>2, <1>3

LEMMA FetchTailRel ==
  ASSUME NEW s, NEW t, NEW p, NEW q, Pair(s, t, p, q), ~IsEof(p)
  PROVE  Firm(s, FetchTail(p), FetchTail(q))
<1>0. p.val = q.val /\ IsParser(p) /\ IsParser(q) /\ Peek(q) = Peek(p)
  BY PairFacts, PeekRel
<1>1. CASE p.val = <<"BODY">> /\ Peek(p) = "["
  <2>1. FetchTail(p) = ParseBodySection(Advance(p, 1)) /\ FetchTail(q) = ParseBodySection(Advance(q, 1))
    BY <1>0, <1>1 DEF FetchTail
  <2> QED BY <2>1, AdvanceRel, BodySectionRel
<1>2. CASE ~(p.val = <<"BODY">> /\ Peek(p) = "[") /\ Len(p.val) = 1 /\ p.val[1] \in FetchNames
  <2>1. FetchTail(p) = FetchNamed(p, p.val[1]) /\ FetchTail(q) = FetchNamed(q, p.val[1])
    BY <1>0, <1>2 DEF FetchTail
  <2> QED BY <1>2, <2>1, FetchNamedRel
<1>3. CASE ~(p.val = <<"BODY">> /\ Peek(p) = "[") /\ ~(Len(p.val) = 1 /\ p.val[1] \in FetchNames)
  <2>1. FetchTail(p) = Fail(p, "Malformed") /\ FetchTail(q) = Fail(q, "Malformed") /\ "Malformed" \notin Going
    BY <1>0, <1>3 DEF FetchTail, Going
  <2>2. Strong(s, Fail(p, "Malformed"), Fail(q, "Malformed"))
    BY <1>0, <2>1, FailRel
  <2> QED BY <2>1, <2>2, StrongIsFirm
<1> QED BY <1>1, <1>2, <1>3

LEMMA OneFetchFacts ==
  ASSUME NEW s \in Texts, NEW p, At(s, p), p.st = "Ok"
  PROVE  Eats(s, p, ParseOneFetchAtt(p))
<1> DEFINE a == ParseFetchAttName(p)
<1>0. Size(s) \in Nat
  BY DEF Texts, Size
<1>1. Eats(s, p, a) /\ (a.st = "Ok" => a.pos <= Size(s))
  BY FetchNameFacts
<1>2. ParseOneFetchAtt(p) = Chain(a, FetchTail(a))
  BY OneFetchIs
<1> HIDE DEF a
<1>3. a.st = "Ok" => At(s, a) /\ ~IsEof(a)
  BY <1>0, <1>1, EatsFacts, PeekFacts
<1>4. a.st = "Ok" => Sound(s, a, FetchTail(a))
  BY <1>3, FetchTailFacts, EatsFacts
<1> QED BY <1>0, <1>1, <1>2, <1>4, NextEats

LEMMA OneFetchRel ==
  ASSUME NEW s, NEW t, NEW p, NEW q, Pair(s, t, p, q)
  PROVE  Firm(s, ParseOneFetchAtt(p), ParseOneFetchAtt(q))
<1> DEFINE a == ParseFetchAttName(p)
           b == ParseFetchAttName(q)
<1>0. /\ Cut(s, t) /\ s \in Texts /\ t \in Texts /\ At(s, p) /\ At(t, q) /\ p.st = "Ok" /\ q.st = "Ok"
      /\ Size(s) \in Nat /\ Size(t) \in Nat
  BY PairFacts
<1>1. Eats(s, p, a) /\ (a.st = "Ok" => a.pos <= Size(s)) /\ Eats(t, q, b) /\ (b.st = "Ok" => b.pos <= Size(t))
  BY <1>0, FetchNameFacts
<1>2. ParseOneFetchAtt(p) = Chain(a, FetchTail(a)) /\ ParseOneFetchAtt(q) = Chain(b, FetchTail(b))
  BY OneFetchIs
<1>3. Strong(s, a, b)
  BY TokenRel DEF ParseFetchAttName
<1> HIDE DEF a, b
<1>4. (a.st = "Ok" => ~IsEof(a)) /\ (b.st = "Ok" => At(t, b) /\ ~IsEof(b))
  BY <1>0, <1>1, EatsFacts, PeekFacts
<1>5. b.st = "Ok" => Sound(t, b, FetchTail(b))
  BY <1>0, <1>4, FetchTailFacts, EatsFacts
<1>6. Pair(s, t, a, b) => Firm(s, FetchTail(a), FetchTail(b))
  BY <1>4, PairFacts, FetchTailRel
<1> QED BY <1>0, <1>1, <1>2, <1>3, <1>5, <1>6, EatsFacts, NextFirm

LEMMA FetchTurnFacts ==
  ASSUME NEW s \in Texts, NEW p, At(s, p), p.st = "Ok"
  PROVE  /\ Turned(s, p, ItemEnds(ParseOneFetchAtt(p), p.val))
         /\ Hungry(s, p, ItemEnds(ParseOneFetchAtt(p), p.val))
<1>1. Size(s) \in Nat
  BY DEF Texts, Size
<1> QED BY <1>1, OneFetchFacts, ItemEndsFacts

LEMMA FetchTurnRel ==
  ASSUME NEW s, NEW t, NEW p, NEW q, Pair(s, t, p, q)
  PROVE  Strong(s, ItemEnds(ParseOneFetchAtt(p), p.val), ItemEnds(ParseOneFetchAtt(q), q.val))
<1>1. Cut(s, t) /\ s \in Texts /\ t \in Texts /\ At(s, p) /\ At(t, q) /\ p.st = "Ok" /\ q.st = "Ok" /\ p.val = q.val
  BY PairFacts
<1>2. /\ At(s, ParseOneFetchAtt(p)) /\ At(t, ParseOneFetchAtt(q))
      /\ ParseOneFetchAtt(p).st # "More" /\ ParseOneFetchAtt(q).st # "More"
  BY <1>1, OneFetchFacts, EatsFacts
<1> QED BY <1>1, <1>2, OneFetchRel, ItemEndsRel

FetchLoop(p, i) == While(p, LAMBDA r : ItemEnds(ParseOneFetchAtt(r), r.val))

LEMMA FetchRuns ==
  ASSUME NEW s, Size(s) \in Nat, NEW p, At(s, p), NEW i
  PROVE  \E f : Runs(f, "fetch", i, p, Size(s) + 1) /\ FetchLoop(p, i) = f[Size(s) + 1]
<1> DEFINE E(f) == f = [n \in 0 .. Len(p.input) + 1 |->
                          IF n = 0 THEN GoOn(p)
                          ELSE IF f[n - 1].st = "More" THEN ItemEnds(ParseOneFetchAtt(Resume(f[n - 1])), Resume(f[n - 1]).val) ELSE f[n - 1]]
<1>0. Len(p.input) = Size(s)
  BY DEF At, Size
<1>1. FetchLoop(p, i) = (CHOOSE f : E(f))[Len(p.input) + 1]
  BY DEF While, FetchLoop
<1>2. \A f : E(f) <=> Runs(f, "fetch", i, p, Len(p.input) + 1)
  BY DEF Runs, LoopStep, LoopTurn
<1>3. PICK n \in Nat : n = Len(p.input) + 1
  BY <1>0
<1>4. PICK g : Runs(g, "fetch", i, p, n)
  BY RunsExists
<1>5. E(g)
  BY <1>2, <1>3, <1>4
<1> HIDE DEF E
<1>6. E(CHOOSE f : E(f))
  BY <1>5
<1> QED BY <1>0, <1>1, <1>2, <1>6

LEMMA FetchLoopFacts ==
  ASSUME NEW s \in Texts, NEW p, At(s, p), NEW i
  PROVE  Sound(s, p, FetchLoop(p, i)) /\ At(s, FetchLoop(p, i)) /\ Hungry(s, p, FetchLoop(p, i))
<1>1. Size(s) \in Nat
  BY DEF Texts, Size
<1>2. PICK f : Runs(f, "fetch", i, p, Size(s) + 1) /\ FetchLoop(p, i) = f[Size(s) + 1]
  BY <1>1, FetchRuns
<1>3. \A x : LoopTurn("fetch", i, x) = ItemEnds(ParseOneFetchAtt(x), x.val)
  BY DEF LoopTurn
<1>4. \A x : At(s, x) /\ x.st = "Ok" => Turned(s, x, LoopTurn("fetch", i, x)) /\ Hungry(s, x, LoopTurn("fetch", i, x))
  BY <1>1, <1>3, FetchTurnFacts
<1>5. PICK n : n = Size(s) + 1
  OBVIOUS
<1>6. Sound(s, p, f[n]) /\ At(s, f[n]) /\ Hungry(s, p, f[n])
  BY <1>1, <1>2, <1>4, <1>5, LoopFacts
<1> QED BY <1>2, <1>5, <1>6

LEMMA FetchLoopRel ==
  ASSUME NEW s, NEW t, NEW p, NEW q, Pair(s, t, p, q), NEW i
  PROVE  Strong(s, FetchLoop(p, i), FetchLoop(q, i))
<1>1. Size(s) \in Nat /\ Size(t) \in Nat /\ At(s, p) /\ At(t, q) /\ s \in Texts /\ t \in Texts
  BY PairFacts
<1>2. PICK f : Runs(f, "fetch", i, p, Size(s) + 1) /\ FetchLoop(p, i) = f[Size(s) + 1]
  BY <1>1, FetchRuns
<1>3. PICK g : Runs(g, "fetch", i, q, Size(t) + 1) /\ FetchLoop(q, i) = g[Size(t) + 1]
  BY <1>1, FetchRuns
<1>4. \A x : LoopTurn("fetch", i, x) = ItemEnds(ParseOneFetchAtt(x), x.val)
  BY DEF LoopTurn
<1>5. /\ \A x : At(s, x) /\ x.st = "Ok" => Turned(s, x, LoopTurn("fetch", i, x))
      /\ \A x : At(t, x) /\ x.st = "Ok" => Turned(t, x, LoopTurn("fetch", i, x))
  BY <1>1, <1>4, FetchTurnFacts
<1>6. \A x, y : Pair(s, t, x, y) => Strong(s, LoopTurn("fetch", i, x), LoopTurn("fetch", i, y))
  BY <1>4, FetchTurnRel
<1>7. \A x, y : Pair(s, t, x, y) => Loose(s, LoopTurn("fetch", i, x), LoopTurn("fetch", i, y))
  BY <1>6 DEF Strong
<1>8. PICK m, n : m = Size(s) + 1 /\ n = Size(t) + 1
  OBVIOUS
<1>9. Strong(s, f[m], g[n])
  BY <1>2, <1>3, <1>5, <1>6, <1>7, <1>8, LoopRel
<1> QED BY <1>2, <1>3, <1>8, <1>9

LEMMA FetchMsgAttFacts ==
  ASSUME NEW s \in Texts, NEW p, At(s, p), p.st = "Ok"
  PROVE  Eats(s, p, ParseFetchMsgAtt(p))
<1> DEFINE k == ConsumeByte(p, "(")
           w == FetchLoop(Yield(k, <<>>), 0)
<1>0. Size(s) \in Nat
  BY DEF Texts, Size
<1>1. ParseFetchMsgAtt(p) = Chain(k, ListTail(k, w))
  BY DEF ParseFetchMsgAtt, ParenList, Then, Chain, ListTail, FetchLoop
<1>2. Eats(s, p, k)
  BY ConsumeByteFacts DEF Eats
<1> HIDE DEF k
<1>3. k.st = "Ok" => Eats(s, Yield(k, <<>>), w)
  BY <1>2, EatsFacts, YieldAt, FetchLoopFacts DEF Eats
<1> HIDE DEF w
<1>4. k.st = "Ok" => Eats(s, k, ListTail(k, w))
  BY <1>2, <1>3, EatsFacts, ListTailFacts
<1> QED BY <1>0, <1>1, <1>2, <1>4, EatsFacts, ChainEats

LEMMA FetchMsgAttRel ==
  ASSUME NEW s, NEW t, NEW p, NEW q, Pair(s, t, p, q)
  PROVE  Strong(s, ParseFetchMsgAtt(p), ParseFetchMsgAtt(q))
<1> DEFINE k == ConsumeByte(p, "(")
           l == ConsumeByte(q, "(")
           w == FetchLoop(Yield(k, <<>>), 0)
           v == FetchLoop(Yield(l, <<>>), 0)
<1>0. Cut(s, t) /\ s \in Texts /\ t \in Texts /\ At(s, p) /\ At(t, q) /\ p.st = "Ok" /\ q.st = "Ok"
  BY PairFacts
<1>1. ParseFetchMsgAtt(p) = Chain(k, ListTail(k, w)) /\ ParseFetchMsgAtt(q) = Chain(l, ListTail(l, v))
  BY DEF ParseFetchMsgAtt, ParenList, Then, Chain, ListTail, FetchLoop
<1>2. Eats(s, p, k) /\ Eats(t, q, l)
  BY <1>0, ConsumeByteFacts DEF Eats
<1>3. Strong(s, k, l)
  BY ConsumeByteRel
<1> HIDE DEF k, l
<1>4. (k.st = "Ok" => Eats(s, Yield(k, <<>>), w)) /\ (l.st = "Ok" => Eats(t, Yield(l, <<>>), v))
  BY <1>0, <1>2, EatsFacts, YieldAt, FetchLoopFacts DEF Eats
<1>5. k.st = "Ok" /\ Same(k, l) => Pair(s, t, k, l) /\ Strong(s, w, v) /\ l.st = "Ok"
  BY <1>0, <1>2, EatsFacts, PairNext, YieldPair, FetchLoopRel DEF Same
<1> HIDE DEF w, v
<1>6. l.st = "Ok" => Moves(t, l, ListTail(l, v))
  BY <1>0, <1>2, <1>4, EatsFacts, ListTailFacts
<1>7. k.st = "Ok" /\ Same(k, l) => Strong(s, ListTail(k, w), ListTail(l, v))
  BY <1>4, <1>5, ListTailRel
<1> QED BY <1>0, <1>1, <1>2, <1>3, <1>6, <1>7, EatsFacts, ChainStrong

-------------------------------------------------------------------------------
(* The end of the line settles what came before it. *)

LEMMA EndOfLineIs ==
  ASSUME NEW a, NEW kind
  PROVE  EndOfLine(a, kind) = Chain(a, Revalued(ConsumeCrlf(a), Response(kind, a.val)))
BY DEF EndOfLine, Then, Chain, Revalued

LEMMA CrlfEats ==
  ASSUME NEW s \in Texts, NEW p, At(s, p), p.st = "Ok"
  PROVE  Eats(s, p, ConsumeCrlf(p))
BY ConsumeCrlfFacts DEF Eats

\* What ends a line is two symbols long at least, and waits without bytes.
Done(s, p, a) == Eats(s, p, a) /\ (a.st = "Ok" => a.pos > p.pos + 1)

\* b has taken a symbol behind the bytes s, unless it has failed.
Beyond(s, b) == b.st \in Going => b.pos > Size(s) + 1

\* A line that is not complete ends behind the bytes.
Whole(s, a, b) == Strong(s, a, b) /\ (a.st = "Incomplete" => Beyond(s, b))

LEMMA DoneFacts ==
  ASSUME NEW s, NEW p, NEW a, At(s, p), Done(s, p, a)
  PROVE  /\ Eats(s, p, a) /\ Sound(s, p, a) /\ Moves(s, p, a) /\ Hungry(s, p, a)
         /\ a.st = "Ok" => a.pos > p.pos
<1>1. Eats(s, p, a) /\ Sound(s, p, a) /\ Moves(s, p, a) /\ Hungry(s, p, a)
  BY EatsFacts DEF Done, Eats
<1>2. p.pos \in Nat /\ a.pos \in Nat
  BY <1>1 DEF Moves, At
<1> QED BY <1>1, <1>2 DEF Done

LEMMA NextDone ==
  ASSUME NEW s, Size(s) \in Nat, NEW p, NEW a, NEW c, At(s, p), Eats(s, p, a), a.st = "Ok" => Done(s, a, c)
  PROVE  Done(s, p, Chain(a, c))
<1>1. Eats(s, p, Chain(a, c))
  BY NextEats, EatsFacts DEF Done
<1>2. ASSUME Chain(a, c).st = "Ok" PROVE Chain(a, c).pos > p.pos + 1
  <2>1. a.st = "Ok" /\ Chain(a, c) = c
    BY <1>2 DEF Chain
  <2>2. p.pos <= a.pos /\ p.pos \in Nat /\ a.pos \in Nat
    BY <2>1 DEF Eats, Sound, Turned, Moves, At, Going
  <2>3. c.pos \in Nat /\ c.pos > a.pos + 1
    BY <1>2, <2>1 DEF Done, Eats, At
  <2> QED BY <2>1, <2>2, <2>3
<1> QED BY <1>1, <1>2 DEF Done

LEMMA AheadDone ==
  ASSUME NEW s, Size(s) \in Nat, NEW t, NEW b, NEW d, At(t, b), b.st # "More", Ahead(s, b), b.st = "Ok" => Done(t, b, d)
  PROVE  Beyond(s, Chain(b, d))
<1>1. ASSUME Chain(b, d).st \in Going PROVE Chain(b, d).pos > Size(s) + 1
  <2>1. b.st = "Ok" /\ Chain(b, d) = d
    BY <1>1 DEF Chain, Going
  <2>2. b.pos > Size(s) /\ b.pos \in Nat
    BY <2>1 DEF Ahead, Going, At
  <2>3. d.st = "Ok" /\ d.pos \in Nat
    BY <1>1, <2>1 DEF Done, Eats, Sound, Going, At
  <2>4. d.pos > b.pos + 1
    BY <2>1, <2>3 DEF Done
  <2> QED BY <2>1, <2>2, <2>3, <2>4
<1> QED BY <1>1 DEF Beyond

LEMMA NextEnds ==
  ASSUME NEW s, NEW t, Cut(s, t), NEW p, NEW q, NEW a, NEW b, NEW c, NEW d, Sound(s, p, a), Sound(t, q, b),
         Loose(s, a, b), a.st = "Ok" => Eats(s, a, c), b.st = "Ok" => Done(t, b, d),
         Pair(s, t, a, b) => Whole(s, c, d)
  PROVE  Whole(s, Chain(a, c), Chain(b, d))
<1>0. Size(s) \in Nat /\ At(s, a) /\ At(t, b) /\ a.st # "More" /\ b.st # "More"
  BY DEF Cut, Sound, Turned, Moves
<1>1. Strong(s, Chain(a, c), Chain(b, d))
  BY NextCloses, <1>0, DoneFacts DEF Whole
<1>2. Ahead(s, b) => Beyond(s, Chain(b, d))
  BY <1>0, AheadDone
<1>3. ASSUME Chain(a, c).st = "Incomplete" PROVE Beyond(s, Chain(b, d))
  <2>1. CASE a.st # "Ok"
    <3>1. a.st = "Incomplete"
      BY <1>3, <2>1 DEF Chain
    <3> QED BY <1>2, <3>1 DEF Loose
  <2>2. CASE a.st = "Ok" /\ ~Same(a, b)
    BY <1>2, <2>2 DEF Loose, Going
  <2>3. CASE a.st = "Ok" /\ Same(a, b)
    <3>1. Pair(s, t, a, b) /\ b.st = "Ok"
      BY <1>0, <2>3 DEF Pair, Same
    <3>2. Chain(a, c) = c /\ Chain(b, d) = d
      BY <2>3, <3>1 DEF Chain
    <3> QED BY <1>3, <3>1, <3>2 DEF Whole
  <2> QED BY <2>1, <2>2, <2>3
<1> QED BY <1>1, <1>3 DEF Whole

LEMMA NextWhole ==
  ASSUME NEW s, NEW t, Cut(s, t), NEW p, NEW q, NEW a, NEW b, NEW c, NEW d, Sound(s, p, a), Sound(t, q, b),
         Strong(s, a, b), b.st = "Ok" => Done(t, b, d), Pair(s, t, a, b) => Whole(s, c, d)
  PROVE  Whole(s, Chain(a, c), Chain(b, d))
<1>0. Size(s) \in Nat /\ At(s, a) /\ At(t, b) /\ a.st # "More" /\ b.st # "More"
  BY DEF Cut, Sound, Turned, Moves
<1>1. Strong(s, Chain(a, c), Chain(b, d))
  BY NextStrong, <1>0, DoneFacts DEF Whole
<1>2. ASSUME Chain(a, c).st = "Incomplete" PROVE Beyond(s, Chain(b, d))
  <2>1. CASE a.st # "Ok"
    <3>1. a.st = "Incomplete"
      BY <1>2, <2>1 DEF Chain
    <3> QED BY <1>0, <3>1, AheadDone DEF Strong, Loose
  <2>2. CASE a.st = "Ok"
    <3>1. Pair(s, t, a, b) /\ b.st = "Ok"
      BY <1>0, <2>2 DEF Pair, Strong, Same, Going
    <3>2. Chain(a, c) = c /\ Chain(b, d) = d
      BY <2>2, <3>1 DEF Chain
    <3> QED BY <1>2, <3>1, <3>2 DEF Whole
  <2> QED BY <2>1, <2>2
<1> QED BY <1>1, <1>2 DEF Whole

LEMMA WaitWhole ==
  ASSUME NEW s, Size(s) \in Nat, NEW t, NEW a, NEW b, At(t, b), a.st = "Incomplete", Beyond(s, b)
  PROVE  Whole(s, a, b)
<1>1. Ahead(s, b)
  BY DEF Beyond, Ahead, At
<1> QED BY <1>1 DEF Whole, Strong, Loose, Wrong, Going

LEMMA CrlfWhole ==
  ASSUME NEW s, NEW t, NEW p, NEW q, Pair(s, t, p, q)
  PROVE  Whole(s, ConsumeCrlf(p), ConsumeCrlf(q))
<1>0. /\ Size(s) \in Nat /\ s \in Texts /\ t \in Texts /\ At(s, p) /\ At(t, q) /\ p.pos \in Nat /\ p.pos = q.pos
      /\ p.st = "Ok" /\ q.st = "Ok" /\ IsParser(p)
  BY PairFacts
<1>1. Strong(s, ConsumeCrlf(p), ConsumeCrlf(q))
  BY ConsumeCrlfRel
<1>2. ASSUME ConsumeCrlf(p).st = "Incomplete" PROVE Beyond(s, ConsumeCrlf(q))
  <2>1. IsStrictPrefix(Remaining(p), CrLf)
    BY <1>0, <1>2, AdvanceFacts, FailFacts DEF ConsumeCrlf, CrLf
  <2>2. p.pos + 2 > Size(s) + 1
    BY <1>0, <2>1, CrLfFacts, WordFacts
  <2>3. ConsumeCrlf(q).st = "Ok" => ConsumeCrlf(q).pos = q.pos + 2
    BY <1>0, ConsumeCrlfFacts
  <2>4. ConsumeCrlf(q).st # "More"
    BY <1>0, ConsumeCrlfFacts DEF Sound
  <2> QED BY <1>0, <2>2, <2>3, <2>4 DEF Beyond, Going
<1> QED BY <1>1, <1>2 DEF Whole

LEMMA WholeRevalued ==
  ASSUME NEW s, NEW a, NEW b, NEW v, NEW w, IsParser(a), IsParser(b), a.st # "More", b.st # "More",
         a.st = "Ok" /\ Same(a, b) => v = w, Whole(s, a, b)
  PROVE  Whole(s, Revalued(a, v), Revalued(b, w))
<1>1. Strong(s, Revalued(a, v), Revalued(b, w))
  BY RevaluedRel DEF Whole
<1>2. /\ Revalued(a, v).st = a.st /\ Revalued(b, w).st = b.st /\ Revalued(b, w).pos = b.pos
  BY YieldFacts DEF Revalued, Chain
<1> QED BY <1>1, <1>2 DEF Whole, Beyond

LEMMA EndOfLineFacts ==
  ASSUME NEW s \in Texts, NEW p, At(s, p), NEW a, Sound(s, p, a), NEW kind
  PROVE  Done(s, p, EndOfLine(a, kind))
<1> DEFINE c == ConsumeCrlf(a)
           v == Response(kind, a.val)
           r == Revalued(c, v)
<1>0. Size(s) \in Nat /\ p.pos \in Nat
  BY DEF Texts, Size, At
<1>1. At(s, a) /\ a.st # "More"
  BY DEF Sound, Turned, Moves
<1>2. a.st = "Ok" => Eats(s, a, c) /\ (c.st = "Ok" => c.pos = a.pos + 2)
  BY <1>1, CrlfEats, ConsumeCrlfFacts
<1>3. EndOfLine(a, kind) = Chain(a, r)
  BY EndOfLineIs
<1> HIDE DEF c, v
<1>4. a.st = "Ok" => Eats(s, a, r) /\ r.st = c.st /\ r.pos = c.pos
  BY <1>2, RevaluedEats
<1> HIDE DEF r
<1>5. Sound(s, p, Chain(a, r))
  BY <1>0, <1>4, EatsFacts, ChainSound
<1>6. Hungry(s, p, Chain(a, r))
  BY <1>4 DEF Eats, Hungry, Chain, Sound, Turned
<1>7. Chain(a, r).st = "Ok" => Chain(a, r).pos > p.pos + 1
  <2> SUFFICES ASSUME Chain(a, r).st = "Ok" PROVE Chain(a, r).pos > p.pos + 1
    OBVIOUS
  <2>1. a.st = "Ok" /\ Chain(a, r) = r
    BY DEF Chain
  <2>2. r.pos = a.pos + 2 /\ a.pos \in Nat /\ p.pos <= a.pos
    BY <1>1, <1>2, <1>4, <2>1 DEF Sound, Turned, Moves, At, Going
  <2> QED BY <1>0, <2>1, <2>2
<1>8. At(s, Chain(a, r))
  BY <1>5 DEF Sound, Turned, Moves
<1> QED BY <1>3, <1>5, <1>6, <1>7, <1>8 DEF Eats, Done

LEMMA EndOfLineRel ==
  ASSUME NEW s, NEW t, NEW p, NEW q, Cut(s, t), NEW a, NEW b, Sound(s, p, a), Sound(t, q, b), Loose(s, a, b), NEW kind
  PROVE  Whole(s, EndOfLine(a, kind), EndOfLine(b, kind))
<1> DEFINE c == ConsumeCrlf(a)
           d == ConsumeCrlf(b)
           v == Response(kind, a.val)
           w == Response(kind, b.val)
<1>0. s \in Texts /\ t \in Texts
  BY DEF Cut
<1>1. At(s, a) /\ a.st # "More" /\ At(t, b) /\ b.st # "More"
  BY DEF Sound, Turned, Moves
<1>2. (a.st = "Ok" => Eats(s, a, c)) /\ (b.st = "Ok" => Eats(t, b, d) /\ (d.st = "Ok" => d.pos = b.pos + 2) /\ d.pos \in Nat)
  BY <1>0, <1>1, CrlfEats, ConsumeCrlfFacts DEF At
<1>3. EndOfLine(a, kind) = Chain(a, Revalued(c, v)) /\ EndOfLine(b, kind) = Chain(b, Revalued(d, w))
  BY EndOfLineIs
<1>4. Pair(s, t, a, b) => Whole(s, c, d) /\ v = w
  BY CrlfWhole, PairFacts
<1> HIDE DEF c, d, v, w
<1>5. (a.st = "Ok" => Eats(s, a, Revalued(c, v))) /\ (b.st = "Ok" => Done(t, b, Revalued(d, w)))
  BY <1>1, <1>2, RevaluedEats DEF Done, At
<1>6. Pair(s, t, a, b) => Whole(s, Revalued(c, v), Revalued(d, w))
  <2> SUFFICES ASSUME Pair(s, t, a, b) PROVE Whole(s, Revalued(c, v), Revalued(d, w))
    OBVIOUS
  <2>1. IsParser(c) /\ IsParser(d) /\ c.st # "More" /\ d.st # "More"
    BY <1>2, PairFacts, EatsFacts
  <2> QED BY <1>4, <2>1, WholeRevalued
<1> QED BY <1>3, <1>5, <1>6, NextEnds

\* What waits at the end of the bytes is settled by whatever comes.
LEMMA HungryRel ==
  ASSUME NEW s, NEW t, NEW p, NEW q, Pair(s, t, p, q), IsEof(p), NEW a, Hungry(s, p, a), NEW b, Moves(t, q, b)
  PROVE  Strong(s, a, b)
<1>1. p.pos = Size(s) + 1 /\ q.pos = Size(s) + 1 /\ Size(s) \in Nat
  BY PairFacts, PeekFacts
<1>2. Ahead(s, b) /\ a.st = "Incomplete"
  BY <1>1, MovesAhead DEF Hungry
<1> QED BY <1>2 DEF Strong, Loose, Wrong, Going

LEMMA HungryWhole ==
  ASSUME NEW s, NEW t, NEW p, NEW q, Pair(s, t, p, q), IsEof(p), NEW a, Hungry(s, p, a), NEW b, Done(t, q, b)
  PROVE  Whole(s, a, b)
<1>1. p.pos = Size(s) + 1 /\ q.pos = Size(s) + 1 /\ Size(s) \in Nat /\ At(t, q)
  BY PairFacts, PeekFacts
<1>2. a.st = "Incomplete" /\ At(t, b) /\ b.st # "More" /\ b.pos \in Nat
  BY <1>1, DoneFacts DEF Hungry, Done, Eats, Sound, At
<1>3. Beyond(s, b)
  BY <1>1, <1>2 DEF Beyond, Going, Done
<1> QED BY <1>1, <1>2, <1>3, WaitWhole

-------------------------------------------------------------------------------
(* Response codes. *)

AtomListAfterSp(p) == Spaced(p, ParseParenAtomList(ConsumeSp(p)))

LEMMA AtomListAfterSpFacts ==
  ASSUME NEW s \in Texts, NEW p, At(s, p), p.st = "Ok"
  PROVE  Eats(s, p, AtomListAfterSp(p))
<1>1. ConsumeSp(p).st = "Ok" => Sound(s, ConsumeSp(p), ParseParenAtomList(ConsumeSp(p)))
  BY ConsumeSpFacts, EatsFacts, AtomListFacts
<1> QED BY <1>1, SpacedFacts DEF AtomListAfterSp

LEMMA AtomListAfterSpRel ==
  ASSUME NEW s, NEW t, NEW p, NEW q, Pair(s, t, p, q)
  PROVE  Strong(s, AtomListAfterSp(p), AtomListAfterSp(q))
<1>1. s \in Texts /\ t \in Texts /\ At(s, p) /\ At(t, q) /\ p.st = "Ok" /\ q.st = "Ok"
  BY PairFacts
<1>2. /\ ConsumeSp(p).st = "Ok" => Sound(s, ConsumeSp(p), ParseParenAtomList(ConsumeSp(p)))
      /\ ConsumeSp(q).st = "Ok" => Sound(t, ConsumeSp(q), ParseParenAtomList(ConsumeSp(q)))
  BY <1>1, ConsumeSpFacts, EatsFacts, AtomListFacts
<1>3. Pair(s, t, ConsumeSp(p), ConsumeSp(q)) => Strong(s, ParseParenAtomList(ConsumeSp(p)), ParseParenAtomList(ConsumeSp(q)))
  BY AtomListRel
<1> QED BY <1>2, <1>3, SpacedRel DEF AtomListAfterSp

CharsetList(p) == IF Peek(p) = "SP" THEN ParseParenAtomList(Advance(p, 1)) ELSE Yield(p, <<>>)

LEMMA CharsetListFacts ==
  ASSUME NEW s \in Texts, NEW p, At(s, p), p.st = "Ok", ~IsEof(p)
  PROVE  Sound(s, p, CharsetList(p))
<1>1. CASE Peek(p) # "SP"
  <2>1. CharsetList(p) = Yield(p, <<>>)
    BY <1>1 DEF CharsetList
  <2>2. At(s, Yield(p, <<>>)) /\ Yield(p, <<>>).pos = p.pos /\ Yield(p, <<>>).st = "Ok"
    BY YieldAt, YieldFacts DEF At
  <2> QED BY <2>1, <2>2 DEF Sound, Turned, Moves, At
<1>2. CASE Peek(p) = "SP"
  <2>1. CharsetList(p) = ParseParenAtomList(Advance(p, 1))
    BY <1>2 DEF CharsetList
  <2>2. At(s, Advance(p, 1)) /\ Advance(p, 1).st = "Ok"
    BY AdvanceOne DEF Texts, Size
  <2>3. Sound(s, Advance(p, 1), ParseParenAtomList(Advance(p, 1)))
    BY <2>2, AtomListFacts, EatsFacts
  <2> QED BY <2>1, <2>3, AfterAdvance, EatsFacts
<1> QED BY <1>1, <1>2

LEMMA CharsetListRel ==
  ASSUME NEW s, NEW t, NEW p, NEW q, Pair(s, t, p, q), ~IsEof(p)
  PROVE  Strong(s, CharsetList(p), CharsetList(q))
<1>0. Peek(q) = Peek(p) /\ IsParser(p) /\ IsParser(q) /\ Same(p, q) /\ p.st = "Ok"
  BY PairFacts, PeekRel
<1>1. CASE Peek(p) # "SP"
  <2>1. CharsetList(p) = Yield(p, <<>>) /\ CharsetList(q) = Yield(q, <<>>)
    BY <1>0, <1>1 DEF CharsetList
  <2> QED BY <1>0, <2>1, YieldSame, SameIsStrong
<1>2. CASE Peek(p) = "SP"
  <2>1. CharsetList(p) = ParseParenAtomList(Advance(p, 1)) /\ CharsetList(q) = ParseParenAtomList(Advance(q, 1))
    BY <1>0, <1>2 DEF CharsetList
  <2> QED BY <2>1, AdvanceRel, AtomListRel
<1> QED BY <1>1, <1>2

CodeText(p) == IF Peek(p) = "SP" THEN ReadUntilByte(Advance(p, 1), "]") ELSE Yield(p, <<>>)

LEMMA CodeTextFacts ==
  ASSUME NEW s \in Texts, NEW p, At(s, p), p.st = "Ok", ~IsEof(p)
  PROVE  Sound(s, p, CodeText(p))
<1>1. CASE Peek(p) # "SP"
  <2>1. CodeText(p) = Yield(p, <<>>)
    BY <1>1 DEF CodeText
  <2>2. At(s, Yield(p, <<>>)) /\ Yield(p, <<>>).pos = p.pos /\ Yield(p, <<>>).st = "Ok"
    BY YieldAt, YieldFacts DEF At
  <2> QED BY <2>1, <2>2 DEF Sound, Turned, Moves, At
<1>2. CASE Peek(p) = "SP"
  <2>1. CodeText(p) = ReadUntilByte(Advance(p, 1), "]")
    BY <1>2 DEF CodeText
  <2>2. At(s, Advance(p, 1)) /\ Advance(p, 1).st = "Ok"
    BY AdvanceOne DEF Texts, Size
  <2>3. Sound(s, Advance(p, 1), ReadUntilByte(Advance(p, 1), "]"))
    BY <2>2, ReadUntilEats, EatsFacts
  <2> QED BY <2>1, <2>3, AfterAdvance, EatsFacts
<1> QED BY <1>1, <1>2

LEMMA CodeTextRel ==
  ASSUME NEW s, NEW t, NEW p, NEW q, Pair(s, t, p, q), ~IsEof(p)
  PROVE  Strong(s, CodeText(p), CodeText(q))
<1>0. Peek(q) = Peek(p) /\ IsParser(p) /\ IsParser(q) /\ Same(p, q) /\ p.st = "Ok"
  BY PairFacts, PeekRel
<1>1. CASE Peek(p) # "SP"
  <2>1. CodeText(p) = Yield(p, <<>>) /\ CodeText(q) = Yield(q, <<>>)
    BY <1>0, <1>1 DEF CodeText
  <2> QED BY <1>0, <2>1, YieldSame, SameIsStrong
<1>2. CASE Peek(p) = "SP"
  <2>1. CodeText(p) = ReadUntilByte(Advance(p, 1), "]") /\ CodeText(q) = ReadUntilByte(Advance(q, 1), "]")
    BY <1>0, <1>2 DEF CodeText
  <2> QED BY <2>1, AdvanceRel, ReadUntilRel
<1> QED BY <1>1, <1>2

BareCodes == {"ALERT", "PARSE", "READ-ONLY", "READ-WRITE", "TRYCREATE"}
NumberCodes == {"UIDNEXT", "UIDVALIDITY", "UNSEEN"}

CodeSource(p, word) ==
  CASE word \in {"ALERT", "PARSE", "READ-ONLY", "READ-WRITE", "TRYCREATE"} -> Yield(p, <<>>)
    [] word \in {"UIDNEXT", "UIDVALIDITY", "UNSEEN"} -> NumberAfterSp(p)
    [] word = "CAPABILITY" -> CapabilityAtoms(p)
    [] word = "PERMANENTFLAGS" -> AtomListAfterSp(p)
    [] word = "BADCHARSET" -> CharsetList(p)
    [] OTHER -> CodeText(p)

CodeWord(x) == IF Len(x) = 1 THEN x[1] ELSE "x"

LEMMA CodeSourceIs ==
  ASSUME NEW p, NEW word
  PROVE  /\ word \in BareCodes => CodeSource(p, word) = Yield(p, <<>>)
         /\ word \in NumberCodes => CodeSource(p, word) = NumberAfterSp(p)
         /\ word = "CAPABILITY" => CodeSource(p, word) = CapabilityAtoms(p)
         /\ word = "PERMANENTFLAGS" => CodeSource(p, word) = AtomListAfterSp(p)
         /\ word = "BADCHARSET" => CodeSource(p, word) = CharsetList(p)
         /\ word \notin BareCodes \cup NumberCodes \cup {"CAPABILITY", "PERMANENTFLAGS", "BADCHARSET"}
              => CodeSource(p, word) = CodeText(p)
BY DEF CodeSource, BareCodes, NumberCodes

LEMMA CodeSourceFacts ==
  ASSUME NEW s \in Texts, NEW p, At(s, p), p.st = "Ok", ~IsEof(p), NEW word
  PROVE  Sound(s, p, CodeSource(p, word))
<1>1. CASE word \in BareCodes
  <2>1. At(s, Yield(p, <<>>)) /\ Yield(p, <<>>).pos = p.pos /\ Yield(p, <<>>).st = "Ok"
    BY YieldAt, YieldFacts DEF At
  <2>2. Sound(s, p, Yield(p, <<>>))
    BY <2>1 DEF Sound, Turned, Moves, At
  <2> QED BY <1>1, <2>2, CodeSourceIs
<1>2. CASE word \in NumberCodes
  BY <1>2, CodeSourceIs, NumberAfterSpFacts, EatsFacts
<1>3. CASE word = "CAPABILITY"
  BY <1>3, CodeSourceIs, CapabilityAtomsFacts
<1>4. CASE word = "PERMANENTFLAGS"
  BY <1>4, CodeSourceIs, AtomListAfterSpFacts, EatsFacts
<1>5. CASE word = "BADCHARSET"
  BY <1>5, CodeSourceIs, CharsetListFacts
<1>6. CASE word \notin BareCodes \cup NumberCodes \cup {"CAPABILITY", "PERMANENTFLAGS", "BADCHARSET"}
  BY <1>6, CodeSourceIs, CodeTextFacts
<1> QED BY <1>1, <1>2, <1>3, <1>4, <1>5, <1>6

LEMMA CodeSourceRel ==
  ASSUME NEW s, NEW t, NEW p, NEW q, Pair(s, t, p, q), ~IsEof(p), NEW word
  PROVE  Loose(s, CodeSource(p, word), CodeSource(q, word))
<1>1. CASE word \in BareCodes
  <2>1. Same(Yield(p, <<>>), Yield(q, <<>>)) /\ Yield(p, <<>>).st = "Ok"
    BY PairFacts, YieldSame
  <2>2. Strong(s, Yield(p, <<>>), Yield(q, <<>>))
    BY <2>1, SameIsStrong
  <2> QED BY <1>1, <2>2, CodeSourceIs DEF Strong
<1>2. CASE word \in NumberCodes
  BY <1>2, CodeSourceIs, NumberAfterSpRel DEF Firm
<1>3. CASE word = "CAPABILITY"
  BY <1>3, CodeSourceIs, CapabilityAtomsRel
<1>4. CASE word = "PERMANENTFLAGS"
  BY <1>4, CodeSourceIs, AtomListAfterSpRel DEF Strong
<1>5. CASE word = "BADCHARSET"
  BY <1>5, CodeSourceIs, CharsetListRel DEF Strong
<1>6. CASE word \notin BareCodes \cup NumberCodes \cup {"CAPABILITY", "PERMANENTFLAGS", "BADCHARSET"}
  BY <1>6, CodeSourceIs, CodeTextRel DEF Strong
<1> QED BY <1>1, <1>2, <1>3, <1>4, <1>5, <1>6

LEMMA CodeArgumentIs ==
  ASSUME NEW p, NEW x
  PROVE  CodeArgument(p, x) = Revalued(CodeSource(p, CodeWord(x)),
                                       [code |-> CodeWord(x), arg |-> CodeSource(p, CodeWord(x)).val])
<1> DEFINE word == CodeWord(x)
           Coded(q) == Revalued(q, [code |-> word, arg |-> q.val])
<1>1. word = IF Len(x) = 1 THEN x[1] ELSE "x"
  BY DEF CodeWord
<1> HIDE DEF word
<1>2. CodeArgument(p, x)
        = CASE word \in {"ALERT", "PARSE", "READ-ONLY", "READ-WRITE", "TRYCREATE"} -> Coded(Yield(p, <<>>))
            [] word \in {"UIDNEXT", "UIDVALIDITY", "UNSEEN"} -> Coded(NumberAfterSp(p))
            [] word = "CAPABILITY" -> Coded(CapabilityAtoms(p))
            [] word = "PERMANENTFLAGS" -> Coded(AtomListAfterSp(p))
            [] word = "BADCHARSET" -> Coded(CharsetList(p))
            [] OTHER -> Coded(CodeText(p))
  BY <1>1 DEF CodeArgument, Then, Revalued, Chain, NumberAfterSp, Spaced, AtomListAfterSp, CharsetList, CodeText
<1> HIDE DEF Coded
<1>3. CodeArgument(p, x) = Coded(CodeSource(p, word))
  BY <1>2 DEF CodeSource
<1> QED BY <1>3 DEF Coded, word

LEMMA CodeArgumentFacts ==
  ASSUME NEW s \in Texts, NEW p, At(s, p), p.st = "Ok", ~IsEof(p), NEW x
  PROVE  Sound(s, p, CodeArgument(p, x))
BY CodeArgumentIs, CodeSourceFacts, RevaluedSound

LEMMA CodeArgumentRel ==
  ASSUME NEW s, NEW t, NEW p, NEW q, Pair(s, t, p, q), ~IsEof(p), NEW x
  PROVE  Loose(s, CodeArgument(p, x), CodeArgument(q, x))
<1> DEFINE a == CodeSource(p, CodeWord(x))
           b == CodeSource(q, CodeWord(x))
           v == [code |-> CodeWord(x), arg |-> a.val]
           w == [code |-> CodeWord(x), arg |-> b.val]
<1>0. s \in Texts /\ t \in Texts /\ At(s, p) /\ At(t, q) /\ p.st = "Ok" /\ q.st = "Ok" /\ ~IsEof(q)
  BY PairFacts, PeekRel
<1>1. Loose(s, a, b)
  BY CodeSourceRel
<1>2. Sound(s, p, a) /\ Sound(t, q, b)
  BY <1>0, CodeSourceFacts
<1>3. CodeArgument(p, x) = Revalued(a, v) /\ CodeArgument(q, x) = Revalued(b, w)
  BY CodeArgumentIs
<1>4. a.st = "Ok" /\ Same(a, b) => v = w
  BY DEF Same
<1> HIDE DEF a, b, v, w
<1>5. IsParser(a) /\ IsParser(b) /\ a.st # "More" /\ b.st # "More"
  BY <1>2 DEF Sound, Turned, Moves, At
<1> QED BY <1>1, <1>3, <1>4, <1>5, RevaluedRel

CodeStops == {"]", "SP"} \cup LineBreak

CodeAtom(p) ==
  IF Peek(ScanTo(p, CodeStops)) \in LineBreak \/ (ScanTo(p, CodeStops).pos = p.pos /\ ~IsEof(ScanTo(p, CodeStops)))
  THEN Fail(ScanTo(p, CodeStops), "Malformed")
  ELSE ScannedText(ScanTo(p, CodeStops), p.pos)

LEMMA CodeAtomFacts ==
  ASSUME NEW s \in Texts, NEW p, At(s, p), p.st = "Ok"
  PROVE  Eats(s, p, CodeAtom(p)) /\ (CodeAtom(p).st = "Ok" => ~IsEof(CodeAtom(p)))
<1> DEFINE r == ScanTo(p, CodeStops)
<1>0. Size(s) \in Nat /\ p.pos \in Nat
  BY DEF Texts, Size, At
<1>1. At(s, r) /\ r.pos \in p.pos .. Size(s) + 1 /\ r.st = p.st
  BY ScanFacts
<1>2. p.pos <= r.pos /\ IsParser(r)
  BY <1>0, <1>1 DEF At
<1>3. CodeAtom(p) = IF Peek(r) \in LineBreak \/ (r.pos = p.pos /\ ~IsEof(r))
                    THEN Fail(r, "Malformed") ELSE ScannedText(r, p.pos)
  BY DEF CodeAtom
<1> HIDE DEF r
<1>4. CASE Peek(r) \in LineBreak \/ (r.pos = p.pos /\ ~IsEof(r))
  <2>1. ~IsEof(r)
    BY <1>0, <1>1, <1>4, PeekFacts DEF LineBreak
  <2>2. p.pos # Size(s) + 1
    BY <1>0, <1>1, <1>2, <2>1, PeekFacts
  <2>3. "Malformed" \notin Going
    BY DEF Going
  <2>4. /\ Sound(s, p, Fail(r, "Malformed")) /\ Hungry(s, p, Fail(r, "Malformed")) /\ At(s, Fail(r, "Malformed"))
        /\ Fail(r, "Malformed").st # "Ok"
    BY <1>1, <2>2, <2>3, Refuses
  <2> QED BY <1>3, <1>4, <2>4 DEF Eats
<1>5. CASE ~(Peek(r) \in LineBreak \/ (r.pos = p.pos /\ ~IsEof(r)))
  <2> DEFINE x == ScannedText(r, p.pos)
  <2>1. /\ Sound(s, p, x) /\ Hungry(s, p, x) /\ At(s, x) /\ x.pos = r.pos
        /\ x.st = "Ok" => ~IsEof(r)
    BY <1>0, <1>1, <1>2, ScannedFacts
  <2> HIDE DEF x
  <2>2. x.st = "Ok" => ~IsEof(x)
    BY <1>0, <1>1, <2>1, PeekFacts
  <2> QED BY <1>3, <1>5, <2>1, <2>2 DEF Eats, x
<1> QED BY <1>4, <1>5

LEMMA CodeAtomRel ==
  ASSUME NEW s, NEW t, NEW p, NEW q, Pair(s, t, p, q)
  PROVE  Strong(s, CodeAtom(p), CodeAtom(q))
<1> DEFINE x == ScanTo(p, CodeStops)
           y == ScanTo(q, CodeStops)
           P == Peek(x) \in LineBreak \/ (x.pos = p.pos /\ ~IsEof(x))
           Q == Peek(y) \in LineBreak \/ (y.pos = q.pos /\ ~IsEof(y))
<1>0. /\ Size(s) \in Nat /\ Size(t) \in Nat /\ s \in Texts /\ t \in Texts /\ Cut(s, t)
      /\ At(s, p) /\ At(t, q) /\ p.st = "Ok" /\ q.st = "Ok" /\ p.pos = q.pos
      /\ p.pos \in Nat /\ 1 <= p.pos
  BY PairFacts
<1>a. /\ CodeAtom(p) = IF P THEN Fail(x, "Malformed") ELSE ScannedText(x, p.pos)
      /\ CodeAtom(q) = IF Q THEN Fail(y, "Malformed") ELSE ScannedText(y, p.pos)
  BY <1>0 DEF CodeAtom
<1>1. /\ x.pos <= Size(s) => y.pos = x.pos
      /\ x.pos = Size(s) + 1 => y.pos >= Size(s) + 1
  BY ScanRel
<1>2. At(s, x) /\ At(t, y) /\ IsParser(x) /\ IsParser(y) /\ x.st = "Ok" /\ y.st = "Ok"
  BY <1>0, ScanFacts DEF At
<1>b. Strong(s, ScannedText(x, p.pos), ScannedText(y, p.pos))
  BY <1>0, ScannedRel
<1> HIDE DEF x, y
<1>3. CASE IsEof(x)
  <2>1. ~P
    BY <1>0, <1>2, <1>3, PeekFacts DEF LineBreak
  <2>2. CodeAtom(p) = Fail(x, "Incomplete")
    BY <1>3, <1>a, <2>1 DEF ScannedText
  <2>3. y.pos >= Size(s) + 1 /\ y.pos \in Nat
    BY <1>0, <1>1, <1>2, <1>3, PeekFacts DEF At
  <2>4. CodeAtom(q).pos = y.pos
    <3>0. y.pos <= y.pos
      BY <2>3
    <3>1. ScannedText(y, p.pos).pos = y.pos
      BY <1>0, <1>2, <3>0, ScannedFacts
    <3>2. Fail(y, "Malformed").pos = y.pos
      BY <1>2, FailFacts
    <3> HIDE DEF Q
    <3> QED BY <1>a, <3>1, <3>2
  <2>5. Ahead(s, CodeAtom(q))
    BY <1>0, <2>3, <2>4 DEF Ahead
  <2> QED BY <1>2, <2>2, <2>5, WaitsAhead
<1>4. CASE ~IsEof(x)
  <2>1. y.pos = x.pos
    BY <1>0, <1>1, <1>2, <1>4, PeekFacts
  <2>2. Peek(y) = Peek(x) /\ ~IsEof(y)
    BY <1>0, <1>2, <1>4, <2>1, PeekRel
  <2>3. P <=> Q
    BY <1>0, <1>4, <2>1, <2>2
  <2> HIDE DEF P, Q
  <2>4. CASE P
    <3>1. Strong(s, Fail(x, "Malformed"), Fail(y, "Malformed"))
      BY <1>2, FailRel DEF Going
    <3> QED BY <1>a, <2>3, <2>4, <3>1
  <2>5. CASE ~P
    BY <1>a, <1>b, <2>3, <2>5
  <2> QED BY <2>4, <2>5
<1> QED BY <1>3, <1>4

LEMMA RespTextCodeIs ==
  ASSUME NEW s \in Texts, NEW p, At(s, p), p.st = "Ok"
  PROVE  ParseRespTextCode(p) = Chain(CodeAtom(p), CodeArgument(CodeAtom(p), CodeAtom(p).val))
<1> DEFINE r == ScanTo(p, CodeStops)
           P == Peek(r) \in LineBreak \/ (r.pos = p.pos /\ ~IsEof(r))
<1>0. IsParser(r)
  BY ScanFacts DEF At
<1>1. ParseRespTextCode(p) = IF P THEN Fail(r, "Malformed")
                             ELSE Chain(ScannedText(r, p.pos), CodeArgument(ScannedText(r, p.pos), ScannedText(r, p.pos).val))
  BY DEF ParseRespTextCode, Then, Chain, CodeStops
<1>2. CodeAtom(p) = IF P THEN Fail(r, "Malformed") ELSE ScannedText(r, p.pos)
  BY DEF CodeAtom
<1> HIDE DEF r, P
<1>3. Fail(r, "Malformed").st # "Ok"
  BY <1>0, FailFacts
<1> QED BY <1>1, <1>2, <1>3 DEF Chain

LEMMA RespTextCodeFacts ==
  ASSUME NEW s \in Texts, NEW p, At(s, p), p.st = "Ok"
  PROVE  Eats(s, p, ParseRespTextCode(p))
<1> DEFINE a == CodeAtom(p)
<1>0. Size(s) \in Nat
  BY DEF Texts, Size
<1>1. Eats(s, p, a) /\ (a.st = "Ok" => ~IsEof(a))
  BY CodeAtomFacts
<1>2. ParseRespTextCode(p) = Chain(a, CodeArgument(a, a.val))
  BY RespTextCodeIs
<1> HIDE DEF a
<1>3. a.st = "Ok" => Sound(s, a, CodeArgument(a, a.val))
  BY <1>1, EatsFacts, CodeArgumentFacts
<1> QED BY <1>0, <1>1, <1>2, <1>3, NextEats

LEMMA RespTextCodeRel ==
  ASSUME NEW s, NEW t, NEW p, NEW q, Pair(s, t, p, q)
  PROVE  Loose(s, ParseRespTextCode(p), ParseRespTextCode(q))
<1> DEFINE a == CodeAtom(p)
           b == CodeAtom(q)
<1>0. Cut(s, t) /\ s \in Texts /\ t \in Texts /\ At(s, p) /\ At(t, q) /\ p.st = "Ok" /\ q.st = "Ok"
  BY PairFacts
<1>1. Eats(s, p, a) /\ Eats(t, q, b) /\ (a.st = "Ok" => ~IsEof(a)) /\ (b.st = "Ok" => ~IsEof(b))
  BY <1>0, CodeAtomFacts
<1>2. ParseRespTextCode(p) = Chain(a, CodeArgument(a, a.val)) /\ ParseRespTextCode(q) = Chain(b, CodeArgument(b, b.val))
  BY <1>0, RespTextCodeIs
<1>3. Strong(s, a, b)
  BY CodeAtomRel
<1> HIDE DEF a, b
<1>4. (a.st = "Ok" => Sound(s, a, CodeArgument(a, a.val))) /\ (b.st = "Ok" => Sound(t, b, CodeArgument(b, b.val)))
  BY <1>0, <1>1, EatsFacts, CodeArgumentFacts
<1>5. Pair(s, t, a, b) => Loose(s, CodeArgument(a, a.val), CodeArgument(b, b.val))
  BY <1>1, PairFacts, CodeArgumentRel
<1>6. Sound(s, p, a) /\ Sound(t, q, b) /\ Loose(s, a, b)
  BY <1>1, <1>3, EatsFacts DEF Strong
<1> QED BY <1>0, <1>2, <1>4, <1>5, <1>6, NextLoose

-------------------------------------------------------------------------------
(* The text of a response. *)

TextWith(p, code) == Revalued(ParseText(p), [code |-> code, text |-> ParseText(p).val])

LEMMA TextWithFacts ==
  ASSUME NEW s \in Texts, NEW p, At(s, p), p.st = "Ok", NEW code
  PROVE  Eats(s, p, TextWith(p, code))
<1>1. Eats(s, p, ParseText(p))
  BY ParseTextFacts DEF Eats
<1> QED BY <1>1, RevaluedEats DEF TextWith

LEMMA TextWithRel ==
  ASSUME NEW s, NEW t, NEW p, NEW q, Pair(s, t, p, q), NEW code
  PROVE  Strong(s, TextWith(p, code), TextWith(q, code))
<1> DEFINE a == ParseText(p)
           b == ParseText(q)
           v == [code |-> code, text |-> a.val]
           w == [code |-> code, text |-> b.val]
<1>1. Strong(s, a, b)
  BY ParseTextRel
<1>2. Sound(s, p, a) /\ Sound(t, q, b)
  BY PairFacts, ParseTextFacts
<1>3. TextWith(p, code) = Revalued(a, v) /\ TextWith(q, code) = Revalued(b, w)
  BY DEF TextWith
<1>4. a.st = "Ok" /\ Same(a, b) => v = w
  BY DEF Same
<1> HIDE DEF a, b, v, w
<1>5. IsParser(a) /\ IsParser(b) /\ a.st # "More" /\ b.st # "More"
  BY <1>2 DEF Sound, Turned, Moves, At
<1> QED BY <1>1, <1>3, <1>4, <1>5, RevaluedRel

TextAfter(p, code) == TextWith(TryConsumeByte(p, "SP"), code)

LEMMA TextAfterFacts ==
  ASSUME NEW s \in Texts, NEW p, At(s, p), p.st = "Ok", NEW code
  PROVE  Eats(s, p, TextAfter(p, code))
<1> DEFINE k == TryConsumeByte(p, "SP")
<1>0. Size(s) \in Nat /\ p.pos \in Nat /\ "SP" # "EOF" /\ p.pos <= Size(s) + 1
  BY DEF Texts, Size, At
<1>1. Sound(s, p, k) /\ k.st = "Ok" /\ At(s, k)
  BY <1>0, TryConsumeFacts
<1>2. TextAfter(p, code) = TextWith(k, code)
  BY DEF TextAfter
<1> HIDE DEF k
<1>3. Eats(s, k, TextWith(k, code))
  BY <1>1, TextWithFacts
<1>4. Sound(s, p, Chain(k, TextWith(k, code)))
  BY <1>0, <1>1, <1>3, EatsFacts, ChainSound
<1>5. Sound(s, p, TextWith(k, code))
  BY <1>1, <1>4 DEF Chain
<1>6. Hungry(s, p, TextWith(k, code))
  BY <1>1, <1>3 DEF Hungry, Eats, Sound, Turned
<1>7. At(s, TextWith(k, code))
  BY <1>3, EatsFacts
<1> QED BY <1>2, <1>5, <1>6, <1>7 DEF Eats

LEMMA TextAfterRel ==
  ASSUME NEW s, NEW t, NEW p, NEW q, Pair(s, t, p, q), NEW code
  PROVE  Strong(s, TextAfter(p, code), TextAfter(q, code))
<1>0. s \in Texts /\ t \in Texts /\ Cut(s, t) /\ At(s, p) /\ At(t, q) /\ p.st = "Ok" /\ q.st = "Ok" /\ "SP" # "EOF"
  BY PairFacts
<1>1. CASE IsEof(p)
  <2>1. Hungry(s, p, TextAfter(p, code)) /\ Moves(t, q, TextAfter(q, code))
    BY <1>0, TextAfterFacts, EatsFacts
  <2> QED BY <1>1, <2>1, HungryRel
<1>2. CASE ~IsEof(p)
  <2>1. Same(TryConsumeByte(p, "SP"), TryConsumeByte(q, "SP"))
    BY <1>0, <1>2, TryConsumeRel
  <2>2. At(s, TryConsumeByte(p, "SP")) /\ At(t, TryConsumeByte(q, "SP")) /\ TryConsumeByte(p, "SP").st = "Ok"
    BY <1>0, TryConsumeFacts
  <2>3. Pair(s, t, TryConsumeByte(p, "SP"), TryConsumeByte(q, "SP"))
    BY <1>0, <2>1, <2>2, PairNext
  <2> QED BY <2>3, TextWithRel DEF TextAfter
<1> QED BY <1>1, <1>2

\* The bracket that closes a response code, and the text.
CodeEnd(p) == Chain(ConsumeByte(p, "]"), TextAfter(ConsumeByte(p, "]"), <<p.val>>))

LEMMA CodeEndFacts ==
  ASSUME NEW s \in Texts, NEW p, At(s, p), p.st = "Ok"
  PROVE  Eats(s, p, CodeEnd(p))
<1> DEFINE a == ConsumeByte(p, "]")
<1>0. Size(s) \in Nat /\ "]" # "EOF"
  BY DEF Texts, Size
<1>1. Eats(s, p, a)
  BY <1>0, ConsumeByteEats
<1>2. CodeEnd(p) = Chain(a, TextAfter(a, <<p.val>>))
  BY DEF CodeEnd
<1> HIDE DEF a
<1>3. a.st = "Ok" => Sound(s, a, TextAfter(a, <<p.val>>))
  BY <1>1, EatsFacts, TextAfterFacts
<1> QED BY <1>0, <1>1, <1>2, <1>3, NextEats

LEMMA CodeEndRel ==
  ASSUME NEW s, NEW t, NEW p, NEW q, Pair(s, t, p, q)
  PROVE  Strong(s, CodeEnd(p), CodeEnd(q))
<1> DEFINE a == ConsumeByte(p, "]")
           b == ConsumeByte(q, "]")
<1>0. /\ Cut(s, t) /\ s \in Texts /\ t \in Texts /\ At(s, p) /\ At(t, q) /\ p.st = "Ok" /\ q.st = "Ok"
      /\ "]" # "EOF" /\ p.val = q.val
  BY PairFacts
<1>1. Eats(s, p, a) /\ Eats(t, q, b)
  BY <1>0, ConsumeByteEats
<1>2. Strong(s, a, b)
  BY <1>0, ConsumeByteRel
<1>3. CodeEnd(p) = Chain(a, TextAfter(a, <<p.val>>)) /\ CodeEnd(q) = Chain(b, TextAfter(b, <<p.val>>))
  BY <1>0 DEF CodeEnd
<1> HIDE DEF a, b
<1>4. b.st = "Ok" => Sound(t, b, TextAfter(b, <<p.val>>))
  BY <1>0, <1>1, EatsFacts, TextAfterFacts
<1>5. Pair(s, t, a, b) => Strong(s, TextAfter(a, <<p.val>>), TextAfter(b, <<p.val>>))
  BY TextAfterRel
<1>6. Sound(s, p, a) /\ Sound(t, q, b)
  BY <1>1, EatsFacts
<1> QED BY <1>0, <1>2, <1>3, <1>4, <1>5, <1>6, NextStrong

CodedText(p) == Chain(ParseRespTextCode(p), CodeEnd(ParseRespTextCode(p)))

LEMMA CodedTextFacts ==
  ASSUME NEW s \in Texts, NEW p, At(s, p), p.st = "Ok"
  PROVE  Eats(s, p, CodedText(p))
<1> DEFINE a == ParseRespTextCode(p)
<1>0. Size(s) \in Nat
  BY DEF Texts, Size
<1>1. Eats(s, p, a)
  BY RespTextCodeFacts
<1>2. CodedText(p) = Chain(a, CodeEnd(a))
  BY DEF CodedText
<1> HIDE DEF a
<1>3. a.st = "Ok" => Sound(s, a, CodeEnd(a))
  BY <1>1, EatsFacts, CodeEndFacts
<1> QED BY <1>0, <1>1, <1>2, <1>3, NextEats

LEMMA CodedTextRel ==
  ASSUME NEW s, NEW t, NEW p, NEW q, Pair(s, t, p, q)
  PROVE  Strong(s, CodedText(p), CodedText(q))
<1> DEFINE a == ParseRespTextCode(p)
           b == ParseRespTextCode(q)
<1>0. Cut(s, t) /\ s \in Texts /\ t \in Texts /\ At(s, p) /\ At(t, q) /\ p.st = "Ok" /\ q.st = "Ok"
  BY PairFacts
<1>1. Eats(s, p, a) /\ Eats(t, q, b)
  BY <1>0, RespTextCodeFacts
<1>2. Loose(s, a, b)
  BY <1>0, RespTextCodeRel
<1>3. CodedText(p) = Chain(a, CodeEnd(a)) /\ CodedText(q) = Chain(b, CodeEnd(b))
  BY DEF CodedText
<1> HIDE DEF a, b
<1>4. (a.st = "Ok" => Eats(s, a, CodeEnd(a))) /\ (b.st = "Ok" => Sound(t, b, CodeEnd(b)))
  BY <1>0, <1>1, EatsFacts, CodeEndFacts
<1>5. Pair(s, t, a, b) => Strong(s, CodeEnd(a), CodeEnd(b))
  BY CodeEndRel
<1>6. Sound(s, p, a) /\ Sound(t, q, b)
  BY <1>1, EatsFacts
<1> QED BY <1>0, <1>2, <1>3, <1>4, <1>5, <1>6, NextCloses

LEMMA RespTextIs ==
  ASSUME NEW p
  PROVE  ParseRespText(p) = IF Peek(p) # "[" THEN TextWith(p, <<>>) ELSE CodedText(Advance(p, 1))
BY DEF ParseRespText, Then, TextWith, Revalued, Chain, CodedText, CodeEnd, TextAfter

LEMMA RespTextFacts ==
  ASSUME NEW s \in Texts, NEW p, At(s, p), p.st = "Ok"
  PROVE  Eats(s, p, ParseRespText(p))
<1>1. CASE Peek(p) # "["
  BY <1>1, RespTextIs, TextWithFacts
<1>2. CASE Peek(p) = "["
  <2>1. ~IsEof(p) /\ ParseRespText(p) = CodedText(Advance(p, 1))
    BY <1>2, PeekFacts, RespTextIs DEF Texts, Size
  <2>2. At(s, Advance(p, 1)) /\ Advance(p, 1).st = "Ok"
    BY <2>1, AdvanceOne DEF Texts, Size
  <2>3. Sound(s, Advance(p, 1), CodedText(Advance(p, 1)))
    BY <2>2, CodedTextFacts, EatsFacts
  <2> QED BY <2>1, <2>3, AfterAdvance
<1> QED BY <1>1, <1>2

LEMMA RespTextRel ==
  ASSUME NEW s, NEW t, NEW p, NEW q, Pair(s, t, p, q)
  PROVE  Strong(s, ParseRespText(p), ParseRespText(q))
<1>0. s \in Texts /\ t \in Texts /\ Cut(s, t) /\ At(s, p) /\ At(t, q) /\ p.st = "Ok" /\ q.st = "Ok" /\ p.pos = q.pos
  BY PairFacts
<1>1. CASE IsEof(p)
  <2>1. Hungry(s, p, ParseRespText(p)) /\ Moves(t, q, ParseRespText(q))
    BY <1>0, RespTextFacts, EatsFacts
  <2> QED BY <1>1, <2>1, HungryRel
<1>2. CASE ~IsEof(p) /\ Peek(p) # "["
  <2>1. Peek(q) # "["
    BY <1>0, <1>2, PeekRel
  <2> QED BY <1>2, <2>1, RespTextIs, TextWithRel
<1>3. CASE ~IsEof(p) /\ Peek(p) = "["
  <2>1. Peek(q) = "["
    BY <1>0, <1>3, PeekRel
  <2>2. Pair(s, t, Advance(p, 1), Advance(q, 1))
    BY <1>3, AdvanceRel
  <2> QED BY <1>3, <2>1, <2>2, RespTextIs, CodedTextRel
<1> QED BY <1>1, <1>2, <1>3

NoText == [code |-> <<>>, text |-> <<>>]

LEMMA AfterKeywordFacts ==
  ASSUME NEW s \in Texts, NEW p, At(s, p), p.st = "Ok"
  PROVE  Sound(s, p, ParseRespTextAfterKeyword(p))
<1>1. CASE Peek(p) # "SP"
  <2>1. ParseRespTextAfterKeyword(p) = Yield(p, NoText)
    BY <1>1 DEF ParseRespTextAfterKeyword, NoText
  <2>2. At(s, Yield(p, NoText)) /\ Yield(p, NoText).pos = p.pos /\ Yield(p, NoText).st = "Ok"
    BY YieldAt, YieldFacts DEF At
  <2> QED BY <2>1, <2>2 DEF Sound, Turned, Moves, At
<1>2. CASE Peek(p) = "SP"
  <2>1. ~IsEof(p) /\ ParseRespTextAfterKeyword(p) = ParseRespText(Advance(p, 1))
    BY <1>2, PeekFacts DEF ParseRespTextAfterKeyword, Texts, Size
  <2>2. At(s, Advance(p, 1)) /\ Advance(p, 1).st = "Ok"
    BY <2>1, AdvanceOne DEF Texts, Size
  <2>3. Sound(s, Advance(p, 1), ParseRespText(Advance(p, 1)))
    BY <2>2, RespTextFacts, EatsFacts
  <2> QED BY <2>1, <2>3, AfterAdvance, EatsFacts
<1> QED BY <1>1, <1>2

LEMMA AfterKeywordRel ==
  ASSUME NEW s, NEW t, NEW p, NEW q, Pair(s, t, p, q)
  PROVE  Loose(s, ParseRespTextAfterKeyword(p), ParseRespTextAfterKeyword(q))
<1>0. /\ Cut(s, t) /\ s \in Texts /\ t \in Texts /\ At(s, p) /\ At(t, q) /\ p.st = "Ok" /\ q.st = "Ok" /\ Same(p, q)
      /\ p.pos = q.pos /\ Size(s) \in Nat /\ IsParser(p) /\ IsParser(q)
  BY PairFacts
<1>1. CASE IsEof(p)
  <2>1. ParseRespTextAfterKeyword(p) = Yield(p, NoText)
    BY <1>0, <1>1, PeekFacts DEF ParseRespTextAfterKeyword, NoText
  <2>2. At(s, Yield(p, NoText)) /\ Yield(p, NoText).pos = p.pos /\ Yield(p, NoText).st = "Ok"
    BY <1>0, YieldAt, YieldFacts
  <2>3. Moves(t, q, ParseRespTextAfterKeyword(q))
    BY <1>0, AfterKeywordFacts DEF Turned, Sound
  <2> QED BY <1>1, <2>1, <2>2, <2>3, StayLoose
<1>2. CASE ~IsEof(p) /\ Peek(p) # "SP"
  <2>1. ParseRespTextAfterKeyword(p) = Yield(p, NoText) /\ ParseRespTextAfterKeyword(q) = Yield(q, NoText)
    BY <1>0, <1>2, PeekRel DEF ParseRespTextAfterKeyword, NoText
  <2>2. Same(Yield(p, NoText), Yield(q, NoText)) /\ Yield(p, NoText).st = "Ok"
    BY <1>0, YieldSame
  <2> QED BY <2>1, <2>2, SameIsStrong DEF Strong
<1>3. CASE ~IsEof(p) /\ Peek(p) = "SP"
  <2>1. /\ ParseRespTextAfterKeyword(p) = ParseRespText(Advance(p, 1))
        /\ ParseRespTextAfterKeyword(q) = ParseRespText(Advance(q, 1))
    BY <1>0, <1>3, PeekRel DEF ParseRespTextAfterKeyword
  <2>2. Pair(s, t, Advance(p, 1), Advance(q, 1))
    BY <1>3, AdvanceRel
  <2> QED BY <2>1, <2>2, RespTextRel DEF Strong
<1> QED BY <1>1, <1>2, <1>3

-------------------------------------------------------------------------------
(* Responses that are not told apart: the rest of the line. *)

LEMMA FinishOtherFacts ==
  ASSUME NEW s \in Texts, NEW p, At(s, p), p.st = "Ok", NEW i
  PROVE  Done(s, p, FinishOther(p, i))
<1> DEFINE x == ScanTo(p, {"CR"})
           y == Yield(x, Taken(x, i))
<1>0. Size(s) \in Nat /\ p.pos \in Nat
  BY DEF Texts, Size, At
<1>1. At(s, x) /\ x.pos \in p.pos .. Size(s) + 1 /\ x.st = "Ok"
  BY ScanFacts
<1>2. FinishOther(p, i) = EndOfLine(y, "Other")
  BY DEF FinishOther
<1> HIDE DEF x
<1>3. At(s, y) /\ y.pos = x.pos /\ y.st = "Ok"
  BY <1>1, YieldAt, YieldFacts DEF At
<1> HIDE DEF y
<1>4. Sound(s, p, y)
  BY <1>0, <1>1, <1>3 DEF Sound, Turned, Moves, At
<1> QED BY <1>2, <1>4, EndOfLineFacts

LEMMA FinishOtherRel ==
  ASSUME NEW s, NEW t, NEW p, NEW q, Pair(s, t, p, q), NEW i \in Nat, 1 <= i
  PROVE  Whole(s, FinishOther(p, i), FinishOther(q, i))
<1> DEFINE x == ScanTo(p, {"CR"})
           a == Yield(x, Taken(x, i))
           y == ScanTo(q, {"CR"})
           b == Yield(y, Taken(y, i))
<1>0. /\ Size(s) \in Nat /\ Size(t) \in Nat /\ s \in Texts /\ t \in Texts /\ Cut(s, t)
      /\ At(s, p) /\ At(t, q) /\ p.st = "Ok" /\ q.st = "Ok" /\ p.pos = q.pos
      /\ p.pos \in Nat /\ p.itemsLeft = q.itemsLeft
  BY PairFacts
<1>1. At(s, x) /\ x.pos \in p.pos .. Size(s) + 1 /\ x.st = "Ok" /\ x.itemsLeft = p.itemsLeft
  BY <1>0, ScanFacts
<1>2. At(t, y) /\ y.pos \in q.pos .. Size(t) + 1 /\ y.st = "Ok" /\ y.itemsLeft = q.itemsLeft
  BY <1>0, ScanFacts
<1>3. /\ x.pos <= Size(s) => y.pos = x.pos
      /\ x.pos = Size(s) + 1 => y.pos >= Size(s) + 1
  BY ScanRel
<1>4. FinishOther(p, i) = EndOfLine(a, "Other") /\ FinishOther(q, i) = EndOfLine(b, "Other")
  BY DEF FinishOther
<1> HIDE DEF x, y
<1>5. At(s, a) /\ a.pos = x.pos /\ a.st = "Ok" /\ a.val = Taken(x, i) /\ a.itemsLeft = x.itemsLeft
  BY <1>1, YieldAt, YieldFacts DEF At
<1>6. At(t, b) /\ b.pos = y.pos /\ b.st = "Ok" /\ b.val = Taken(y, i) /\ b.itemsLeft = y.itemsLeft
  BY <1>2, YieldAt, YieldFacts DEF At
<1> HIDE DEF a, b
<1>7. Sound(s, p, a)
  BY <1>0, <1>1, <1>5 DEF Sound, Turned, Moves, At
<1>8. Sound(t, q, b)
  BY <1>0, <1>2, <1>6 DEF Sound, Turned, Moves, At
<1>9. Loose(s, a, b)
  <2>1. CASE x.pos <= Size(s)
    <3>1. Taken(x, i) = Taken(y, i)
      BY <1>0, <1>1, <1>2, <1>3, <2>1, TakenSame
    <3>2. Same(a, b)
      BY <1>0, <1>1, <1>2, <1>3, <1>5, <1>6, <2>1, <3>1 DEF Same
    <3> QED BY <1>5, <3>2, SameIsStrong DEF Strong
  <2>2. CASE x.pos = Size(s) + 1
    <3>1. b.pos > Size(s)
      BY <1>0, <1>2, <1>3, <1>6, <2>2
    <3> QED BY <1>5, <2>2, <3>1 DEF Loose, Ahead, Wrong
  <2> QED BY <1>0, <1>1, <2>1, <2>2
<1> QED BY <1>0, <1>4, <1>7, <1>8, <1>9, EndOfLineRel

\* The last place up to n that is in W, or the first.
LEMMA LastExists ==
  ASSUME NEW n \in Nat, n >= 1, NEW W
  PROVE  \E i \in 1 .. n : (i = 1 \/ i \in W) /\ \A j \in i + 1 .. n : j \notin W
<1> DEFINE T == {m \in Nat : m < n /\ (n - m = 1 \/ n - m \in W)}
<1>1. T \in SUBSET Nat
  OBVIOUS
<1>2. n - 1 \in T
  OBVIOUS
<1>3. PICK m \in T : \A k \in T : m <= k
  BY <1>1, <1>2, LeastNumber
<1>4. m \in Nat /\ m < n /\ (n - m = 1 \/ n - m \in W)
  BY <1>3
<1>5. PICK i \in 1 .. n : i = n - m
  BY <1>4
<1>6. ASSUME NEW j \in i + 1 .. n PROVE j \notin W
  <2> SUFFICES ASSUME j \in W PROVE FALSE
    OBVIOUS
  <2>1. PICK k \in Nat : k = n - j
    BY <1>4, <1>5
  <2>2. n - k = j /\ k < n
    BY <1>4, <1>5, <2>1
  <2>3. k \in T
    BY <2>2
  <2>4. m <= k
    BY <1>3, <2>3
  <2> QED BY <1>4, <1>5, <2>1, <2>4
<1> QED BY <1>4, <1>5, <1>6

Breaks(s) == {j \in Nat : j > 2 /\ SubSeq(s, j - 2, j - 1) = <<"CR", "LF">>}
LineStart(W, n, i) == i \in 1 .. n /\ (i = 1 \/ i \in W) /\ \A j \in i + 1 .. n : j \notin W

LEMMA LineStartFacts ==
  ASSUME NEW s \in Texts, NEW p, At(s, p)
  PROVE  LineStart(Breaks(s), p.pos, FindCurrentLineStart(p))
<1> DEFINE P(i) == LineStart(Breaks(s), p.pos, i)
<1>0. p.pos \in Nat /\ p.pos >= 1 /\ p.input = s
  BY DEF At
<1>1. \A i \in 1 .. p.pos : P(i) <=> /\ i = 1 \/ (i > 2 /\ SubSeq(p.input, i - 2, i - 1) = <<"CR", "LF">>)
                                     /\ \A j \in i + 1 .. p.pos :
                                           ~ (j > 2 /\ SubSeq(p.input, j - 2, j - 1) = <<"CR", "LF">>)
  BY <1>0 DEF LineStart, Breaks
<1>2. \E i \in 1 .. p.pos : P(i)
  <2>1. \E i \in 1 .. p.pos : (i = 1 \/ i \in Breaks(s)) /\ \A j \in i + 1 .. p.pos : j \notin Breaks(s)
    BY <1>0, LastExists
  <2> QED BY <2>1 DEF LineStart
<1> DEFINE Q(i) == /\ i = 1 \/ (i > 2 /\ SubSeq(p.input, i - 2, i - 1) = <<"CR", "LF">>)
                   /\ \A j \in i + 1 .. p.pos :
                         ~ (j > 2 /\ SubSeq(p.input, j - 2, j - 1) = <<"CR", "LF">>)
<1>3. FindCurrentLineStart(p) = CHOOSE i \in 1 .. p.pos : Q(i)
  BY DEF FindCurrentLineStart
<1>4. (\E i \in 1 .. p.pos : Q(i)) /\ \A i \in 1 .. p.pos : Q(i) => P(i)
  BY <1>1, <1>2
<1> HIDE DEF P, Q
<1>5. FindCurrentLineStart(p) \in 1 .. p.pos /\ Q(FindCurrentLineStart(p))
  BY <1>3, <1>4
<1>6. P(FindCurrentLineStart(p))
  BY <1>4, <1>5
<1> QED BY <1>6 DEF P

LEMMA LineStartRel ==
  ASSUME NEW s, NEW t, NEW p, NEW q, Pair(s, t, p, q)
  PROVE  /\ FindCurrentLineStart(p) = FindCurrentLineStart(q)
         /\ FindCurrentLineStart(p) \in Nat /\ 1 <= FindCurrentLineStart(p)
<1>0. /\ Size(s) \in Nat /\ s \in Texts /\ t \in Texts /\ Cut(s, t) /\ At(s, p) /\ At(t, q) /\ p.pos = q.pos
      /\ p.pos \in Nat /\ 1 <= p.pos /\ p.pos <= Size(s) + 1
  BY PairFacts
<1>1. \A j \in 1 .. p.pos : j \in Breaks(s) <=> j \in Breaks(t)
  <2> SUFFICES ASSUME NEW j \in 1 .. p.pos, j > 2 PROVE SubSeq(s, j - 2, j - 1) = SubSeq(t, j - 2, j - 1)
    BY <1>0 DEF Breaks
  <2>1. PICK k \in Nat, l \in Nat : k = j - 2 /\ l = j - 1
    BY <1>0
  <2>2. 1 <= k /\ l <= Size(s)
    BY <1>0, <2>1
  <2> QED BY <1>0, <2>1, <2>2, TakenRel
<1>2. PICK x : x = FindCurrentLineStart(p)
  OBVIOUS
<1>3. PICK y : y = FindCurrentLineStart(q)
  OBVIOUS
<1>4. LineStart(Breaks(s), p.pos, x) /\ LineStart(Breaks(t), p.pos, y)
  BY <1>0, <1>2, <1>3, LineStartFacts
<1>5. x = y
  BY <1>0, <1>1, <1>4 DEF LineStart
<1>6. x \in Nat /\ 1 <= x
  BY <1>0, <1>4 DEF LineStart
<1> QED BY <1>2, <1>3, <1>5, <1>6

-------------------------------------------------------------------------------
(* Data responses that begin with a number. *)

FetchItemsAfterSp(p) == Spaced(p, ParseFetchMsgAtt(ConsumeSp(p)))

LEMMA FetchItemsAfterSpFacts ==
  ASSUME NEW s \in Texts, NEW p, At(s, p), p.st = "Ok"
  PROVE  Eats(s, p, FetchItemsAfterSp(p))
<1>1. ConsumeSp(p).st = "Ok" => Sound(s, ConsumeSp(p), ParseFetchMsgAtt(ConsumeSp(p)))
  BY ConsumeSpFacts, EatsFacts, FetchMsgAttFacts
<1> QED BY <1>1, SpacedFacts DEF FetchItemsAfterSp

LEMMA FetchItemsAfterSpRel ==
  ASSUME NEW s, NEW t, NEW p, NEW q, Pair(s, t, p, q)
  PROVE  Strong(s, FetchItemsAfterSp(p), FetchItemsAfterSp(q))
<1>1. s \in Texts /\ t \in Texts /\ At(s, p) /\ At(t, q) /\ p.st = "Ok" /\ q.st = "Ok"
  BY PairFacts
<1>2. /\ ConsumeSp(p).st = "Ok" => Sound(s, ConsumeSp(p), ParseFetchMsgAtt(ConsumeSp(p)))
      /\ ConsumeSp(q).st = "Ok" => Sound(t, ConsumeSp(q), ParseFetchMsgAtt(ConsumeSp(q)))
  BY <1>1, ConsumeSpFacts, EatsFacts, FetchMsgAttFacts
<1>3. Pair(s, t, ConsumeSp(p), ConsumeSp(q)) => Strong(s, ParseFetchMsgAtt(ConsumeSp(p)), ParseFetchMsgAtt(ConsumeSp(q)))
  BY FetchMsgAttRel
<1> QED BY <1>2, <1>3, SpacedRel DEF FetchItemsAfterSp

AtomAfterSp(p) == Spaced(p, ParseAtom(ConsumeSp(p)))

LEMMA AtomAfterSpFacts ==
  ASSUME NEW s \in Texts, NEW p, At(s, p), p.st = "Ok"
  PROVE  Eats(s, p, AtomAfterSp(p))
<1>1. ConsumeSp(p).st = "Ok" => Sound(s, ConsumeSp(p), ParseAtom(ConsumeSp(p)))
  BY ConsumeSpFacts, EatsFacts, ParseAtomFacts
<1> QED BY <1>1, SpacedFacts DEF AtomAfterSp

LEMMA AtomAfterSpRel ==
  ASSUME NEW s, NEW t, NEW p, NEW q, Pair(s, t, p, q)
  PROVE  Strong(s, AtomAfterSp(p), AtomAfterSp(q))
<1>1. s \in Texts /\ t \in Texts /\ At(s, p) /\ At(t, q) /\ p.st = "Ok" /\ q.st = "Ok"
  BY PairFacts
<1>2. /\ ConsumeSp(p).st = "Ok" => Sound(s, ConsumeSp(p), ParseAtom(ConsumeSp(p)))
      /\ ConsumeSp(q).st = "Ok" => Sound(t, ConsumeSp(q), ParseAtom(ConsumeSp(q)))
  BY <1>1, ConsumeSpFacts, EatsFacts, ParseAtomFacts
<1>3. Pair(s, t, ConsumeSp(p), ConsumeSp(q)) => Strong(s, ParseAtom(ConsumeSp(p)), ParseAtom(ConsumeSp(q)))
  BY ParseAtomRel
<1> QED BY <1>2, <1>3, SpacedRel DEF AtomAfterSp

FetchLine(p, n) == Revalued(FetchItemsAfterSp(p), [seq |-> n, attributes |-> FetchItemsAfterSp(p).val])
CountNames == {<<"EXISTS">>, <<"RECENT">>, <<"EXPUNGE">>}

NumericTail(p, n) ==
  IF p.val \in CountNames THEN EndOfLine(Yield(p, <<n>>), p.val[1])
  ELSE IF p.val = <<"FETCH">> THEN EndOfLine(FetchLine(p, n), "FETCH")
  ELSE FinishOther(p, FindCurrentLineStart(p))

LEMMA YieldSound ==
  ASSUME NEW s, NEW p, At(s, p), p.st = "Ok", NEW v
  PROVE  Sound(s, p, Yield(p, v))
<1>1. At(s, Yield(p, v)) /\ Yield(p, v).pos = p.pos /\ Yield(p, v).st = "Ok"
  BY YieldAt, YieldFacts DEF At
<1> QED BY <1>1 DEF Sound, Turned, Moves, At

LEMMA NumericTailFacts ==
  ASSUME NEW s \in Texts, NEW p, At(s, p), p.st = "Ok", NEW n
  PROVE  Done(s, p, NumericTail(p, n))
<1>1. CASE p.val \in CountNames
  BY <1>1, YieldSound, EndOfLineFacts DEF NumericTail
<1>2. CASE p.val \notin CountNames /\ p.val = <<"FETCH">>
  <2>1. Eats(s, p, FetchLine(p, n))
    BY FetchItemsAfterSpFacts, RevaluedEats DEF FetchLine
  <2>2. Done(s, p, EndOfLine(FetchLine(p, n), "FETCH"))
    BY <2>1, EatsFacts, EndOfLineFacts
  <2> QED BY <1>2, <2>2 DEF NumericTail
<1>3. CASE p.val \notin CountNames /\ p.val # <<"FETCH">>
  BY <1>3, FinishOtherFacts DEF NumericTail
<1> QED BY <1>1, <1>2, <1>3

LEMMA NumericTailRel ==
  ASSUME NEW s, NEW t, NEW p, NEW q, Pair(s, t, p, q), NEW n
  PROVE  Whole(s, NumericTail(p, n), NumericTail(q, n))
<1>0. /\ s \in Texts /\ t \in Texts /\ Cut(s, t) /\ At(s, p) /\ At(t, q) /\ p.st = "Ok" /\ q.st = "Ok" /\ p.val = q.val
      /\ Same(p, q) /\ IsParser(p) /\ IsParser(q)
  BY PairFacts
<1>1. CASE p.val \in CountNames
  <2>1. Same(Yield(p, <<n>>), Yield(q, <<n>>)) /\ Yield(p, <<n>>).st = "Ok"
    BY <1>0, YieldSame
  <2>2. Loose(s, Yield(p, <<n>>), Yield(q, <<n>>))
    BY <2>1, SameIsStrong DEF Strong
  <2>3. Sound(s, p, Yield(p, <<n>>)) /\ Sound(t, q, Yield(q, <<n>>))
    BY <1>0, YieldSound
  <2>4. Whole(s, EndOfLine(Yield(p, <<n>>), p.val[1]), EndOfLine(Yield(q, <<n>>), p.val[1]))
    BY <1>0, <2>2, <2>3, EndOfLineRel
  <2> QED BY <1>0, <1>1, <2>4 DEF NumericTail
<1>2. CASE p.val \notin CountNames /\ p.val = <<"FETCH">>
  <2> DEFINE a == FetchItemsAfterSp(p)
             b == FetchItemsAfterSp(q)
             v == [seq |-> n, attributes |-> a.val]
             w == [seq |-> n, attributes |-> b.val]
  <2>1. Strong(s, a, b) /\ Eats(s, p, a) /\ Eats(t, q, b)
    BY <1>0, FetchItemsAfterSpFacts, FetchItemsAfterSpRel
  <2>2. FetchLine(p, n) = Revalued(a, v) /\ FetchLine(q, n) = Revalued(b, w)
    BY DEF FetchLine
  <2>3. a.st = "Ok" /\ Same(a, b) => v = w
    BY DEF Same
  <2> HIDE DEF a, b, v, w
  <2>4. IsParser(a) /\ IsParser(b) /\ a.st # "More" /\ b.st # "More"
    BY <2>1, EatsFacts
  <2>5. Loose(s, Revalued(a, v), Revalued(b, w))
    BY <2>1, <2>3, <2>4, RevaluedRel DEF Strong
  <2>6. Sound(s, p, Revalued(a, v)) /\ Sound(t, q, Revalued(b, w))
    BY <2>1, EatsFacts, RevaluedSound
  <2>7. Whole(s, EndOfLine(FetchLine(p, n), "FETCH"), EndOfLine(FetchLine(q, n), "FETCH"))
    BY <1>0, <2>2, <2>5, <2>6, EndOfLineRel
  <2> QED BY <1>0, <1>2, <2>7 DEF NumericTail
<1>3. CASE p.val \notin CountNames /\ p.val # <<"FETCH">>
  <2>1. NumericTail(p, n) = FinishOther(p, FindCurrentLineStart(p)) /\ NumericTail(q, n) = FinishOther(q, FindCurrentLineStart(q))
    BY <1>0, <1>3 DEF NumericTail
  <2> QED BY <2>1, LineStartRel, FinishOtherRel
<1> QED BY <1>1, <1>2, <1>3

LEMMA NumericIs ==
  ASSUME NEW p
  PROVE  ParseNumericDataResponse(p)
           = Chain(ParseNumber(p), Chain(AtomAfterSp(ParseNumber(p)),
                   NumericTail(AtomAfterSp(ParseNumber(p)), ParseNumber(p).val)))
<1> DEFINE n == ParseNumber(p)
           q == AtomAfterSp(n)
<1>1. ParseNumericDataResponse(p) = Chain(n, Chain(q,
        IF q.val \in {<<"EXISTS">>, <<"RECENT">>, <<"EXPUNGE">>}
        THEN EndOfLine(Yield(q, <<n.val>>), q.val[1])
        ELSE IF q.val = <<"FETCH">>
        THEN EndOfLine(FetchLine(q, n.val), "FETCH")
        ELSE FinishOther(q, FindCurrentLineStart(q))))
  BY DEF ParseNumericDataResponse, Then, Chain, AtomAfterSp, Spaced, FetchLine, Revalued, FetchItemsAfterSp
<1> QED BY <1>1 DEF NumericTail, CountNames

LEMMA NumericFacts ==
  ASSUME NEW s \in Texts, NEW p, At(s, p), p.st = "Ok"
  PROVE  Done(s, p, ParseNumericDataResponse(p))
<1> DEFINE a == ParseNumber(p)
           b == AtomAfterSp(a)
           c == NumericTail(b, a.val)
<1>0. Size(s) \in Nat
  BY DEF Texts, Size
<1>1. Eats(s, p, a)
  BY NumberEats
<1>2. a.st = "Ok" => Eats(s, a, b)
  BY <1>1, EatsFacts, AtomAfterSpFacts
<1>3. a.st = "Ok" /\ b.st = "Ok" => Done(s, b, c)
  BY <1>2, EatsFacts, NumericTailFacts
<1>4. ParseNumericDataResponse(p) = Chain(a, Chain(b, c))
  BY NumericIs
<1> HIDE DEF a, b, c
<1>5. a.st = "Ok" => Done(s, a, Chain(b, c))
  BY <1>0, <1>1, <1>2, <1>3, EatsFacts, NextDone
<1> QED BY <1>0, <1>1, <1>4, <1>5, NextDone

LEMMA NumericRel ==
  ASSUME NEW s, NEW t, NEW p, NEW q, Pair(s, t, p, q)
  PROVE  Whole(s, ParseNumericDataResponse(p), ParseNumericDataResponse(q))
<1> DEFINE a == ParseNumber(p)
           b == AtomAfterSp(a)
           c == NumericTail(b, a.val)
           d == ParseNumber(q)
           e == AtomAfterSp(d)
           f == NumericTail(e, d.val)
<1>0. /\ Cut(s, t) /\ s \in Texts /\ t \in Texts /\ At(s, p) /\ At(t, q) /\ p.st = "Ok" /\ q.st = "Ok"
      /\ Size(s) \in Nat /\ Size(t) \in Nat
  BY PairFacts
<1>1. Eats(s, p, a) /\ Eats(t, q, d) /\ Loose(s, a, d)
  BY <1>0, NumberEats, ParseNumberRel DEF Firm
<1>2. (a.st = "Ok" => Eats(s, a, b)) /\ (d.st = "Ok" => Eats(t, d, e)) /\ (Pair(s, t, a, d) => Strong(s, b, e))
  BY <1>0, <1>1, EatsFacts, AtomAfterSpFacts, AtomAfterSpRel
<1>3. /\ a.st = "Ok" /\ b.st = "Ok" => Done(s, b, c)
      /\ d.st = "Ok" /\ e.st = "Ok" => Done(t, e, f)
      /\ Pair(s, t, a, d) /\ Pair(s, t, b, e) => Whole(s, c, f)
  BY <1>0, <1>2, EatsFacts, NumericTailFacts, NumericTailRel, PairFacts
<1>4. ParseNumericDataResponse(p) = Chain(a, Chain(b, c)) /\ ParseNumericDataResponse(q) = Chain(d, Chain(e, f))
  BY NumericIs
<1> HIDE DEF a, b, c, d, e, f
<1>5. /\ a.st = "Ok" => Eats(s, a, Chain(b, c))
      /\ d.st = "Ok" => Done(t, d, Chain(e, f))
  BY <1>0, <1>1, <1>2, <1>3, EatsFacts, NextDone, DoneFacts
<1>6. Pair(s, t, a, d) => Whole(s, Chain(b, c), Chain(e, f))
  <2> SUFFICES ASSUME Pair(s, t, a, d) PROVE Whole(s, Chain(b, c), Chain(e, f))
    OBVIOUS
  <2>1. a.st = "Ok" /\ d.st = "Ok"
    BY PairFacts
  <2>2. Sound(s, a, b) /\ Sound(t, d, e) /\ Strong(s, b, e)
    BY <1>2, <2>1, EatsFacts
  <2>3. (e.st = "Ok" => Done(t, e, f)) /\ (Pair(s, t, b, e) => Whole(s, c, f))
    BY <1>3, <2>1, EatsFacts
  <2> QED BY <1>0, <2>2, <2>3, NextWhole
<1>7. Sound(s, p, a) /\ Sound(t, q, d)
  BY <1>1, EatsFacts
<1> QED BY <1>0, <1>1, <1>4, <1>5, <1>6, <1>7, NextEnds

-------------------------------------------------------------------------------
(* Data responses that begin with a word. *)

ListBodyAfterSp(p) == Spaced(p, ParseListLsubBody(ConsumeSp(p)))

LEMMA ListBodyAfterSpFacts ==
  ASSUME NEW s \in Texts, NEW p, At(s, p), p.st = "Ok"
  PROVE  Eats(s, p, ListBodyAfterSp(p))
<1>1. ConsumeSp(p).st = "Ok" => Sound(s, ConsumeSp(p), ParseListLsubBody(ConsumeSp(p)))
  BY ConsumeSpFacts, EatsFacts, ListBodyFacts
<1> QED BY <1>1, SpacedFacts DEF ListBodyAfterSp

LEMMA ListBodyAfterSpRel ==
  ASSUME NEW s, NEW t, NEW p, NEW q, Pair(s, t, p, q)
  PROVE  Strong(s, ListBodyAfterSp(p), ListBodyAfterSp(q))
<1>1. s \in Texts /\ t \in Texts /\ At(s, p) /\ At(t, q) /\ p.st = "Ok" /\ q.st = "Ok"
  BY PairFacts
<1>2. /\ ConsumeSp(p).st = "Ok" => Sound(s, ConsumeSp(p), ParseListLsubBody(ConsumeSp(p)))
      /\ ConsumeSp(q).st = "Ok" => Sound(t, ConsumeSp(q), ParseListLsubBody(ConsumeSp(q)))
  BY <1>1, ConsumeSpFacts, EatsFacts, ListBodyFacts
<1>3. Pair(s, t, ConsumeSp(p), ConsumeSp(q)) => Strong(s, ParseListLsubBody(ConsumeSp(p)), ParseListLsubBody(ConsumeSp(q)))
  BY ListBodyRel
<1> QED BY <1>2, <1>3, SpacedRel DEF ListBodyAfterSp

StatusBodyAfterSp(p) == Spaced(p, ParseStatusBody(ConsumeSp(p)))

LEMMA StatusBodyAfterSpFacts ==
  ASSUME NEW s \in Texts, NEW p, At(s, p), p.st = "Ok"
  PROVE  Eats(s, p, StatusBodyAfterSp(p))
<1>1. ConsumeSp(p).st = "Ok" => Sound(s, ConsumeSp(p), ParseStatusBody(ConsumeSp(p)))
  BY ConsumeSpFacts, EatsFacts, StatusBodyFacts
<1> QED BY <1>1, SpacedFacts DEF StatusBodyAfterSp

LEMMA StatusBodyAfterSpRel ==
  ASSUME NEW s, NEW t, NEW p, NEW q, Pair(s, t, p, q)
  PROVE  Strong(s, StatusBodyAfterSp(p), StatusBodyAfterSp(q))
<1>1. s \in Texts /\ t \in Texts /\ At(s, p) /\ At(t, q) /\ p.st = "Ok" /\ q.st = "Ok"
  BY PairFacts
<1>2. /\ ConsumeSp(p).st = "Ok" => Sound(s, ConsumeSp(p), ParseStatusBody(ConsumeSp(p)))
      /\ ConsumeSp(q).st = "Ok" => Sound(t, ConsumeSp(q), ParseStatusBody(ConsumeSp(q)))
  BY <1>1, ConsumeSpFacts, EatsFacts, StatusBodyFacts
<1>3. Pair(s, t, ConsumeSp(p), ConsumeSp(q)) => Strong(s, ParseStatusBody(ConsumeSp(p)), ParseStatusBody(ConsumeSp(q)))
  BY StatusBodyRel
<1> QED BY <1>2, <1>3, SpacedRel DEF StatusBodyAfterSp

NamedBodies == {"CAPABILITY", "LIST", "LSUB", "STATUS", "SEARCH", "FLAGS"}

NamedBody(p, word) ==
  CASE word = "CAPABILITY" -> CapabilityAtoms(p)
    [] word \in {"LIST", "LSUB"} -> ListBodyAfterSp(p)
    [] word = "STATUS" -> StatusBodyAfterSp(p)
    [] word = "SEARCH" -> SearchNumbers(p)
    [] word = "FLAGS" -> AtomListAfterSp(p)

NamedTail(p, i) ==
  IF CodeWord(p.val) \in NamedBodies THEN EndOfLine(NamedBody(p, CodeWord(p.val)), CodeWord(p.val))
  ELSE FinishOther(p, i)

LEMMA NamedBodyIs ==
  ASSUME NEW p, NEW word
  PROVE  /\ word = "CAPABILITY" => NamedBody(p, word) = CapabilityAtoms(p)
         /\ word \in {"LIST", "LSUB"} => NamedBody(p, word) = ListBodyAfterSp(p)
         /\ word = "STATUS" => NamedBody(p, word) = StatusBodyAfterSp(p)
         /\ word = "SEARCH" => NamedBody(p, word) = SearchNumbers(p)
         /\ word = "FLAGS" => NamedBody(p, word) = AtomListAfterSp(p)
         /\ word \in NamedBodies => word \in {"CAPABILITY", "STATUS", "SEARCH", "FLAGS"} \cup {"LIST", "LSUB"}
BY DEF NamedBody, NamedBodies

LEMMA NamedBodyFacts ==
  ASSUME NEW s \in Texts, NEW p, At(s, p), p.st = "Ok", NEW word \in NamedBodies
  PROVE  Sound(s, p, NamedBody(p, word))
<1>1. CASE word = "CAPABILITY"
  BY <1>1, NamedBodyIs, CapabilityAtomsFacts
<1>2. CASE word \in {"LIST", "LSUB"}
  BY <1>2, NamedBodyIs, ListBodyAfterSpFacts, EatsFacts
<1>3. CASE word = "STATUS"
  BY <1>3, NamedBodyIs, StatusBodyAfterSpFacts, EatsFacts
<1>4. CASE word = "SEARCH"
  BY <1>4, NamedBodyIs, SearchNumbersFacts
<1>5. CASE word = "FLAGS"
  BY <1>5, NamedBodyIs, AtomListAfterSpFacts, EatsFacts
<1> QED BY <1>1, <1>2, <1>3, <1>4, <1>5, NamedBodyIs

LEMMA NamedBodyRel ==
  ASSUME NEW s, NEW t, NEW p, NEW q, Pair(s, t, p, q), NEW word \in NamedBodies
  PROVE  Loose(s, NamedBody(p, word), NamedBody(q, word))
<1>1. CASE word = "CAPABILITY"
  BY <1>1, NamedBodyIs, CapabilityAtomsRel
<1>2. CASE word \in {"LIST", "LSUB"}
  BY <1>2, NamedBodyIs, ListBodyAfterSpRel DEF Strong
<1>3. CASE word = "STATUS"
  BY <1>3, NamedBodyIs, StatusBodyAfterSpRel DEF Strong
<1>4. CASE word = "SEARCH"
  BY <1>4, NamedBodyIs, SearchNumbersRel
<1>5. CASE word = "FLAGS"
  BY <1>5, NamedBodyIs, AtomListAfterSpRel DEF Strong
<1> QED BY <1>1, <1>2, <1>3, <1>4, <1>5, NamedBodyIs

LEMMA NamedTailFacts ==
  ASSUME NEW s \in Texts, NEW p, At(s, p), p.st = "Ok", NEW i
  PROVE  Done(s, p, NamedTail(p, i))
<1>1. CASE CodeWord(p.val) \in NamedBodies
  BY <1>1, NamedBodyFacts, EndOfLineFacts DEF NamedTail
<1>2. CASE CodeWord(p.val) \notin NamedBodies
  BY <1>2, FinishOtherFacts DEF NamedTail
<1> QED BY <1>1, <1>2

LEMMA NamedTailRel ==
  ASSUME NEW s, NEW t, NEW p, NEW q, Pair(s, t, p, q), NEW i \in Nat, 1 <= i
  PROVE  Whole(s, NamedTail(p, i), NamedTail(q, i))
<1>0. /\ s \in Texts /\ t \in Texts /\ Cut(s, t) /\ At(s, p) /\ At(t, q) /\ p.st = "Ok" /\ q.st = "Ok" /\ p.val = q.val
  BY PairFacts
<1>1. PICK word : word = CodeWord(p.val)
  OBVIOUS
<1>2. CASE word \in NamedBodies
  <2>1. Sound(s, p, NamedBody(p, word)) /\ Sound(t, q, NamedBody(q, word)) /\ Loose(s, NamedBody(p, word), NamedBody(q, word))
    BY <1>0, <1>2, NamedBodyFacts, NamedBodyRel
  <2>2. Whole(s, EndOfLine(NamedBody(p, word), word), EndOfLine(NamedBody(q, word), word))
    BY <1>0, <2>1, EndOfLineRel
  <2> QED BY <1>0, <1>1, <1>2, <2>2 DEF NamedTail
<1>3. CASE word \notin NamedBodies
  <2>1. NamedTail(p, i) = FinishOther(p, i) /\ NamedTail(q, i) = FinishOther(q, i)
    BY <1>0, <1>1, <1>3 DEF NamedTail
  <2> QED BY <2>1, FinishOtherRel
<1> QED BY <1>2, <1>3

LEMMA NamedIs ==
  ASSUME NEW p
  PROVE  ParseNamedDataResponse(p) = Chain(ParseAtom(p), NamedTail(ParseAtom(p), p.pos))
<1> DEFINE q == ParseAtom(p)
           word == CodeWord(q.val)
<1>0. word = IF Len(q.val) = 1 THEN q.val[1] ELSE "x"
  BY DEF CodeWord
<1>1. ParseNamedDataResponse(p) = Chain(q,
        CASE word = "CAPABILITY" -> EndOfLine(CapabilityAtoms(q), word)
          [] word \in {"LIST", "LSUB"} -> EndOfLine(ListBodyAfterSp(q), word)
          [] word = "STATUS" -> EndOfLine(StatusBodyAfterSp(q), word)
          [] word = "SEARCH" -> EndOfLine(SearchNumbers(q), word)
          [] word = "FLAGS"  -> EndOfLine(AtomListAfterSp(q), word)
          [] OTHER           -> FinishOther(q, p.pos))
  BY <1>0 DEF ParseNamedDataResponse, Then, Chain, ListBodyAfterSp, StatusBodyAfterSp, AtomListAfterSp, Spaced
<1>2. NamedTail(q, p.pos) = IF word \in NamedBodies THEN EndOfLine(NamedBody(q, word), word) ELSE FinishOther(q, p.pos)
  BY DEF NamedTail
<1> HIDE DEF q, word
<1>3. word \in NamedBodies => ParseNamedDataResponse(p) = Chain(q, NamedTail(q, p.pos))
  BY <1>1, <1>2 DEF NamedBody, NamedBodies
<1>4. word \notin NamedBodies => ParseNamedDataResponse(p) = Chain(q, NamedTail(q, p.pos))
  BY <1>1, <1>2 DEF NamedBodies
<1> QED BY <1>3, <1>4 DEF q

LEMMA NamedFacts ==
  ASSUME NEW s \in Texts, NEW p, At(s, p), p.st = "Ok"
  PROVE  Done(s, p, ParseNamedDataResponse(p))
<1> DEFINE a == ParseAtom(p)
           c == NamedTail(a, p.pos)
<1>0. Size(s) \in Nat
  BY DEF Texts, Size
<1>1. Eats(s, p, a)
  BY ParseAtomFacts
<1>2. a.st = "Ok" => Done(s, a, c)
  BY <1>1, EatsFacts, NamedTailFacts
<1>3. ParseNamedDataResponse(p) = Chain(a, c)
  BY NamedIs
<1> HIDE DEF a, c
<1> QED BY <1>0, <1>1, <1>2, <1>3, NextDone

LEMMA NamedRel ==
  ASSUME NEW s, NEW t, NEW p, NEW q, Pair(s, t, p, q)
  PROVE  Whole(s, ParseNamedDataResponse(p), ParseNamedDataResponse(q))
<1> DEFINE a == ParseAtom(p)
           c == NamedTail(a, p.pos)
           b == ParseAtom(q)
           d == NamedTail(b, p.pos)
<1>0. /\ Cut(s, t) /\ s \in Texts /\ t \in Texts /\ At(s, p) /\ At(t, q) /\ p.st = "Ok" /\ q.st = "Ok"
      /\ p.pos = q.pos /\ p.pos \in Nat /\ 1 <= p.pos
  BY PairFacts
<1>1. Eats(s, p, a) /\ Eats(t, q, b) /\ Strong(s, a, b)
  BY <1>0, ParseAtomFacts, ParseAtomRel
<1>2. b.st = "Ok" => Done(t, b, d)
  BY <1>0, <1>1, EatsFacts, NamedTailFacts
<1>3. Pair(s, t, a, b) => Whole(s, c, d)
  BY <1>0, NamedTailRel
<1>4. ParseNamedDataResponse(p) = Chain(a, c) /\ ParseNamedDataResponse(q) = Chain(b, d)
  BY <1>0, NamedIs
<1> HIDE DEF a, b, c, d
<1>5. Sound(s, p, a) /\ Sound(t, q, b)
  BY <1>1, EatsFacts
<1> QED BY <1>0, <1>1, <1>2, <1>3, <1>4, <1>5, NextWhole

-------------------------------------------------------------------------------
(* Status keywords. *)

Statuses == DOMAIN StatusKeywords

LEMMA KeywordsFacts ==
  ASSUME NEW k \in Statuses
  PROVE  /\ StatusKeywords[k] \in Texts /\ Size(StatusKeywords[k]) \in Nat /\ Size(StatusKeywords[k]) >= 2
         /\ \A i \in 1 .. Size(StatusKeywords[k]) : StatusKeywords[k][i] \in Letters \ LineBreak
<1>1. CASE k = "Ok"
  <2>1. StatusKeywords[k] = <<"O", "K">>
    BY <1>1 DEF StatusKeywords
  <2>2. "O" \in Letters \ LineBreak /\ "K" \in Letters \ LineBreak
    BY DEF Letters, LineBreak
  <2>3. \A i \in 1 .. 2 : <<"O", "K">>[i] \in Letters \ LineBreak
    BY <2>2
  <2>4. <<"O", "K">> \in Texts /\ Size(<<"O", "K">>) = 2
    BY <2>2 DEF Texts, Size, Symbols
  <2> QED BY <2>1, <2>3, <2>4
<1>2. CASE k = "No"
  <2>1. StatusKeywords[k] = <<"N", "O">>
    BY <1>2 DEF StatusKeywords
  <2>2. "N" \in Letters \ LineBreak /\ "O" \in Letters \ LineBreak
    BY DEF Letters, LineBreak
  <2>3. \A i \in 1 .. 2 : <<"N", "O">>[i] \in Letters \ LineBreak
    BY <2>2
  <2>4. <<"N", "O">> \in Texts /\ Size(<<"N", "O">>) = 2
    BY <2>2 DEF Texts, Size, Symbols
  <2> QED BY <2>1, <2>3, <2>4
<1>3. CASE k = "Bad"
  <2>1. StatusKeywords[k] = <<"B", "A", "D">>
    BY <1>3 DEF StatusKeywords
  <2>2. "B" \in Letters \ LineBreak /\ "A" \in Letters \ LineBreak /\ "D" \in Letters \ LineBreak
    BY DEF Letters, LineBreak
  <2>3. \A i \in 1 .. 3 : <<"B", "A", "D">>[i] \in Letters \ LineBreak
    BY <2>2
  <2>4. <<"B", "A", "D">> \in Texts /\ Size(<<"B", "A", "D">>) = 3
    BY <2>2 DEF Texts, Size, Symbols
  <2> QED BY <2>1, <2>3, <2>4
<1>4. CASE k = "Bye"
  <2>1. StatusKeywords[k] = <<"B", "Y", "E">>
    BY <1>4 DEF StatusKeywords
  <2>2. "B" \in Letters \ LineBreak /\ "Y" \in Letters \ LineBreak /\ "E" \in Letters \ LineBreak
    BY DEF Letters, LineBreak
  <2>3. \A i \in 1 .. 3 : <<"B", "Y", "E">>[i] \in Letters \ LineBreak
    BY <2>2
  <2>4. <<"B", "Y", "E">> \in Texts /\ Size(<<"B", "Y", "E">>) = 3
    BY <2>2 DEF Texts, Size, Symbols
  <2> QED BY <2>1, <2>3, <2>4
<1>5. CASE k = "PreAuth"
  <2>1. StatusKeywords[k] = <<"P", "R", "E", "A", "U", "T", "H">>
    BY <1>5 DEF StatusKeywords
  <2>2. /\ "P" \in Letters \ LineBreak /\ "R" \in Letters \ LineBreak /\ "E" \in Letters \ LineBreak
        /\ "A" \in Letters \ LineBreak /\ "U" \in Letters \ LineBreak /\ "T" \in Letters \ LineBreak
        /\ "H" \in Letters \ LineBreak
    BY DEF Letters, LineBreak
  <2>3. \A i \in 1 .. 7 : <<"P", "R", "E", "A", "U", "T", "H">>[i] \in Letters \ LineBreak
    BY <2>2
  <2>4. <<"P", "R", "E", "A", "U", "T", "H">> \in Texts /\ Size(<<"P", "R", "E", "A", "U", "T", "H">>) = 7
    BY <2>2 DEF Texts, Size, Symbols
  <2> QED BY <2>1, <2>3, <2>4
<1> QED BY <1>1, <1>2, <1>3, <1>4, <1>5 DEF Statuses, StatusKeywords

\* Two letters tell the keywords apart.
LEMMA KeywordsDiffer ==
  ASSUME NEW k \in Statuses, NEW l \in Statuses,
         StatusKeywords[k][1] = StatusKeywords[l][1], StatusKeywords[k][2] = StatusKeywords[l][2]
  PROVE  k = l
BY DEF Statuses, StatusKeywords

\* A letter of a keyword neither ends an atom nor is a digit.
LEMMA LettersFacts ==
  ASSUME NEW c \in Letters \ LineBreak
  PROVE  c \notin AtomSpecials /\ ~IsDigit(c)
<1>1. c \notin AtomSpecials
  BY DEF Letters, LineBreak, AtomSpecials
<1>2. ~IsDigit(c)
  <2> SUFFICES ASSUME NEW d \in 1 .. 10, Digits[d] = c PROVE FALSE
    BY DEF IsDigit
  <2>1. Digits[d] \in {"0", "1", "2", "3", "4", "5", "6", "7", "8", "9"}
    BY DEF Digits
  <2> QED BY <2>1 DEF Letters, LineBreak
<1> QED BY <1>1, <1>2

\* The keyword that has arrived, with nothing or a part of t behind it, is the one in t.
LEMMA StatusSame ==
  ASSUME NEW s, NEW t, NEW p, NEW q, Pair(s, t, p, q), NEW k \in Statuses, NEW l \in Statuses,
         MatchesKeyword(p, StatusKeywords[k]), MatchesKeyword(q, StatusKeywords[l])
  PROVE  k = l
<1> DEFINE v == StatusKeywords[k]
           w == StatusKeywords[l]
<1>0. /\ s \in Texts /\ t \in Texts /\ Cut(s, t) /\ At(s, p) /\ At(t, q) /\ p.pos = q.pos /\ p.pos \in Nat /\ 1 <= p.pos
      /\ Size(s) \in Nat /\ Size(t) \in Nat
  BY PairFacts
<1>1. v \in Texts /\ w \in Texts /\ Size(v) \in Nat /\ Size(w) \in Nat /\ Size(v) >= 2 /\ Size(w) >= 2
  BY KeywordsFacts
<1>2. v[1] = w[1] /\ v[2] = w[2] => k = l
  BY KeywordsDiffer
<1>a. MatchesKeyword(p, v) /\ MatchesKeyword(q, w)
  OBVIOUS
<1> HIDE DEF v, w
<1>3. p.pos + Size(v) <= Size(s) + 1 /\ Spelt(s, p.pos, v, Size(v)) /\ Spelt(t, p.pos, w, Size(w))
  BY <1>0, <1>1, <1>a, WordFacts, KeywordFacts
<1>4. s[p.pos] = v[1] /\ s[p.pos + 1] = v[2] /\ t[p.pos] = w[1] /\ t[p.pos + 1] = w[2]
  <2>1. 1 \in 1 .. Size(v) /\ 2 \in 1 .. Size(v) /\ 1 \in 1 .. Size(w) /\ 2 \in 1 .. Size(w)
    BY <1>1
  <2>2. s[p.pos + 1 - 1] = v[1] /\ s[p.pos + 2 - 1] = v[2] /\ t[p.pos + 1 - 1] = w[1] /\ t[p.pos + 2 - 1] = w[2]
    BY <1>3, <2>1 DEF Spelt
  <2>3. p.pos + 1 - 1 = p.pos /\ p.pos + 2 - 1 = p.pos + 1
    BY <1>0
  <2> QED BY <2>2, <2>3
<1>5. s[p.pos] = t[p.pos] /\ s[p.pos + 1] = t[p.pos + 1]
  <2>1. p.pos \in 1 .. Size(s) /\ p.pos + 1 \in 1 .. Size(s)
    BY <1>0, <1>1, <1>3
  <2> QED BY <1>0, <2>1 DEF Cut
<1> QED BY <1>2, <1>4, <1>5

LEMMA PairSelf ==
  ASSUME NEW s \in Texts, NEW p, At(s, p), p.st = "Ok"
  PROVE  Pair(s, s, p, p)
BY DEF Pair, Cut, Same, Texts, Size

StatusLine(x, k, tag) ==
  EndOfLine(Revalued(ParseRespTextAfterKeyword(x),
                     [tag |-> tag, status |-> k, text |-> ParseRespTextAfterKeyword(x).val]), "Status")

LEMMA FinishStatusIs ==
  ASSUME NEW s \in Texts, NEW p, At(s, p), p.st = "Ok", NEW k \in Statuses, MatchesKeyword(p, StatusKeywords[k]), NEW tag
  PROVE  FinishStatus(p, tag) = StatusLine(Advance(p, Size(StatusKeywords[k])), k, tag)
<1>1. \A l \in StatusAt(p) : l = k
  BY PairSelf, StatusSame DEF StatusAt, Statuses
<1>2. k \in StatusAt(p)
  BY DEF StatusAt, Statuses
<1> DEFINE c == CHOOSE l \in StatusAt(p) : TRUE
           Text(l) == ParseRespTextAfterKeyword(Advance(p, Len(StatusKeywords[l])))
           F(l) == EndOfLine(Revalued(Text(l), [tag |-> tag, status |-> l, text |-> Text(l).val]), "Status")
<1>3. c = k
  BY <1>1, <1>2
<1>4. FinishStatus(p, tag) = F(c)
  BY DEF FinishStatus, Then, Revalued, Chain
<1>5. F(k) = StatusLine(Advance(p, Size(StatusKeywords[k])), k, tag)
  BY DEF StatusLine, Size
<1> HIDE DEF F, c
<1> QED BY <1>3, <1>4, <1>5

LEMMA StatusLineFacts ==
  ASSUME NEW s \in Texts, NEW p, At(s, p), p.st = "Ok", NEW k, NEW tag
  PROVE  Done(s, p, StatusLine(p, k, tag))
BY AfterKeywordFacts, RevaluedSound, EndOfLineFacts DEF StatusLine

LEMMA StatusLineRel ==
  ASSUME NEW s, NEW t, NEW p, NEW q, Pair(s, t, p, q), NEW k, NEW tag
  PROVE  Whole(s, StatusLine(p, k, tag), StatusLine(q, k, tag))
<1> DEFINE a == ParseRespTextAfterKeyword(p)
           b == ParseRespTextAfterKeyword(q)
           v == [tag |-> tag, status |-> k, text |-> a.val]
           w == [tag |-> tag, status |-> k, text |-> b.val]
<1>0. Cut(s, t) /\ s \in Texts /\ t \in Texts /\ At(s, p) /\ At(t, q) /\ p.st = "Ok" /\ q.st = "Ok"
  BY PairFacts
<1>1. Sound(s, p, a) /\ Sound(t, q, b) /\ Loose(s, a, b)
  BY <1>0, AfterKeywordFacts, AfterKeywordRel
<1>2. StatusLine(p, k, tag) = EndOfLine(Revalued(a, v), "Status") /\ StatusLine(q, k, tag) = EndOfLine(Revalued(b, w), "Status")
  BY DEF StatusLine
<1>3. a.st = "Ok" /\ Same(a, b) => v = w
  BY DEF Same
<1> HIDE DEF a, b, v, w
<1>4. IsParser(a) /\ IsParser(b) /\ a.st # "More" /\ b.st # "More"
  BY <1>1 DEF Sound, Turned, Moves, At
<1>5. Loose(s, Revalued(a, v), Revalued(b, w))
  BY <1>1, <1>3, <1>4, RevaluedRel
<1>6. Sound(s, p, Revalued(a, v)) /\ Sound(t, q, Revalued(b, w))
  BY <1>1, RevaluedSound
<1> QED BY <1>0, <1>2, <1>5, <1>6, EndOfLineRel

LEMMA FinishStatusFacts ==
  ASSUME NEW s \in Texts, NEW p, At(s, p), p.st = "Ok", NEW k \in Statuses, MatchesKeyword(p, StatusKeywords[k]), NEW tag
  PROVE  /\ Done(s, p, FinishStatus(p, tag))
         /\ At(s, Advance(p, Size(StatusKeywords[k]))) /\ Advance(p, Size(StatusKeywords[k])).st = "Ok"
         /\ Advance(p, Size(StatusKeywords[k])).pos = p.pos + Size(StatusKeywords[k])
         /\ Moves(s, Advance(p, Size(StatusKeywords[k])), FinishStatus(p, tag))
         /\ Hungry(s, Advance(p, Size(StatusKeywords[k])), FinishStatus(p, tag))
<1>0. Size(s) \in Nat /\ p.pos \in Nat
  BY DEF Texts, Size, At
<1>1. PICK n \in Nat : n = Size(StatusKeywords[k])
  BY KeywordsFacts
<1>2. p.pos + n <= Size(s) + 1 /\ n >= 2
  BY <1>1, KeywordsFacts, KeywordFacts
<1> DEFINE x == Advance(p, n)
           r == StatusLine(x, k, tag)
<1>3. At(s, x) /\ Moves(s, p, x) /\ x.st = "Ok" /\ x.pos = p.pos + n
  BY <1>0, <1>2, AdvanceMoves
<1>4. FinishStatus(p, tag) = r
  BY <1>1, FinishStatusIs
<1> HIDE DEF x
<1>5. Done(s, x, r) /\ Eats(s, x, r) /\ (r.st = "Ok" => r.pos > x.pos)
  BY <1>3, StatusLineFacts, DoneFacts
<1> HIDE DEF r
<1>6. Moves(s, x, r) /\ r.st # "More" /\ Hungry(s, x, r) /\ r.pos \in Nat
  BY <1>5, EatsFacts DEF At
<1>7. Moves(s, p, r)
  <2>1. Moves(s, p, Chain(x, r))
    BY <1>0, <1>3, <1>6, ChainMoves
  <2> QED BY <1>3, <2>1 DEF Chain
<1>8. p.pos # Size(s) + 1
  BY <1>0, <1>2
<1>9. Eats(s, p, r)
  BY <1>6, <1>7, <1>8, MovesEats
<1>10. r.st = "Ok" => r.pos > p.pos + 1
  BY <1>0, <1>2, <1>3, <1>5, <1>6
<1> QED BY <1>1, <1>3, <1>4, <1>6, <1>9, <1>10 DEF x, Done

\* A keyword that is there for the longer text but not yet, is cut by the end of the bytes.
LEMMA FinishStatusBeyond ==
  ASSUME NEW s, NEW t, NEW p, NEW q, Pair(s, t, p, q), NEW k \in Statuses,
         MatchesKeyword(q, StatusKeywords[k]), IsStrictPrefix(Remaining(p), StatusKeywords[k]), NEW tag
  PROVE  Beyond(s, FinishStatus(q, tag))
<1> DEFINE w == StatusKeywords[k]
           x == Advance(q, Size(w))
<1>0. /\ s \in Texts /\ t \in Texts /\ At(s, p) /\ At(t, q) /\ p.pos = q.pos /\ p.pos \in Nat /\ q.st = "Ok"
      /\ Size(s) \in Nat /\ Size(t) \in Nat
  BY PairFacts
<1>1. w \in Texts /\ Size(w) \in Nat
  BY KeywordsFacts
<1>2. Moves(t, x, FinishStatus(q, tag)) /\ x.pos = q.pos + Size(w)
  BY <1>0, FinishStatusFacts
<1>3. p.pos + Size(w) > Size(s) + 1
  BY <1>0, <1>1, WordFacts
<1> HIDE DEF x, w
<1>4. FinishStatus(q, tag).st \in Going => FinishStatus(q, tag).pos > Size(s) + 1
  <2> SUFFICES ASSUME FinishStatus(q, tag).st \in Going PROVE FinishStatus(q, tag).pos > Size(s) + 1
    OBVIOUS
  <2>1. x.pos <= FinishStatus(q, tag).pos /\ FinishStatus(q, tag).pos \in Nat
    BY <1>2 DEF Moves, At
  <2> QED BY <1>0, <1>1, <1>2, <1>3, <2>1
<1> QED BY <1>4 DEF Beyond

LEMMA FinishStatusRel ==
  ASSUME NEW s, NEW t, NEW p, NEW q, Pair(s, t, p, q), NEW k \in Statuses, NEW l \in Statuses,
         MatchesKeyword(p, StatusKeywords[k]), MatchesKeyword(q, StatusKeywords[l]), NEW tag
  PROVE  Whole(s, FinishStatus(p, tag), FinishStatus(q, tag))
<1>0. /\ s \in Texts /\ t \in Texts /\ Cut(s, t) /\ At(s, p) /\ At(t, q) /\ p.st = "Ok" /\ q.st = "Ok"
  BY PairFacts
<1>1. k = l
  BY StatusSame
<1> DEFINE w == StatusKeywords[k]
<1>2. /\ FinishStatus(p, tag) = StatusLine(Advance(p, Size(w)), k, tag)
      /\ FinishStatus(q, tag) = StatusLine(Advance(q, Size(w)), k, tag)
  BY <1>0, <1>1, FinishStatusIs
<1>3. At(s, Advance(p, Size(w))) /\ At(t, Advance(q, Size(w)))
  BY <1>0, <1>1, FinishStatusFacts
<1> HIDE DEF w
<1>4. Same(Advance(p, Size(w)), Advance(q, Size(w))) /\ Advance(p, Size(w)).st = "Ok"
  BY AdvanceSame
<1>5. Pair(s, t, Advance(p, Size(w)), Advance(q, Size(w)))
  BY <1>0, <1>3, <1>4, PairNext
<1> QED BY <1>2, <1>5, StatusLineRel

\* A keyword that the longer text takes back ended the bytes.
LEMMA StatusOpen ==
  ASSUME NEW s, NEW t, NEW p, NEW q, Pair(s, t, p, q), NEW k \in Statuses,
         MatchesKeyword(p, StatusKeywords[k]), ~MatchesKeyword(q, StatusKeywords[k]), NEW tag
  PROVE  /\ FinishStatus(p, tag).st = "Incomplete"
         /\ Size(s) - p.pos + 1 = Size(StatusKeywords[k])
         /\ Spelt(s, p.pos, StatusKeywords[k], Size(StatusKeywords[k]))
<1> DEFINE w == StatusKeywords[k]
<1>0. s \in Texts /\ At(s, p) /\ p.st = "Ok" /\ p.pos \in Nat /\ Size(s) \in Nat
  BY PairFacts
<1>1. w \in Texts /\ Size(w) \in Nat
  BY KeywordsFacts
<1>2. p.pos + Size(w) <= Size(s) + 1 /\ Spelt(s, p.pos, w, Size(w)) /\ ~(p.pos + Size(w) <= Size(s))
  BY <1>0, <1>1, KeywordFacts, WordFacts, KeywordRel
<1>3. p.pos + Size(w) = Size(s) + 1
  BY <1>0, <1>1, <1>2
<1>4. FinishStatus(p, tag).st = "Incomplete"
  BY <1>0, <1>3, FinishStatusFacts DEF Hungry
<1>5. Size(s) - p.pos + 1 = Size(w)
  BY <1>0, <1>1, <1>3
<1> QED BY <1>2, <1>4, <1>5

\* Letters of a keyword up to the end of the bytes: an atom reaches beyond them.
LEMMA WordIsAtom ==
  ASSUME NEW s, NEW t, NEW p, NEW q, Pair(s, t, p, q), NEW k \in Statuses,
         Size(s) - p.pos + 1 <= Size(StatusKeywords[k]), Spelt(s, p.pos, StatusKeywords[k], Size(s) - p.pos + 1)
  PROVE  /\ ScanTo(q, AtomSpecials).pos > Size(s)
         /\ ~IsEof(p) => ~IsDigit(Peek(p))
<1> DEFINE w == StatusKeywords[k]
           j == ScanTo(q, AtomSpecials).pos
<1>0. /\ s \in Texts /\ t \in Texts /\ Cut(s, t) /\ At(s, p) /\ At(t, q) /\ p.pos = q.pos /\ p.pos \in Nat /\ 1 <= p.pos
      /\ Size(s) \in Nat /\ Size(t) \in Nat /\ Size(s) <= Size(t) /\ p.pos <= Size(s) + 1
  BY PairFacts
<1>1. Size(w) \in Nat /\ \A i \in 1 .. Size(w) : w[i] \notin AtomSpecials /\ ~IsDigit(w[i])
  BY KeywordsFacts, LettersFacts
<1>2. j \in p.pos .. Size(t) + 1 /\ Stops(Places(t, AtomSpecials), p.pos, Size(t), j)
  BY <1>0, ScanFacts
<1>a. Size(s) - p.pos + 1 <= Size(w) /\ Spelt(s, p.pos, w, Size(s) - p.pos + 1)
  OBVIOUS
<1> HIDE DEF w, j
<1>3. \A i \in p.pos .. Size(s) : s[i] \notin AtomSpecials /\ ~IsDigit(s[i])
  <2> SUFFICES ASSUME NEW i \in p.pos .. Size(s) PROVE s[i] \notin AtomSpecials /\ ~IsDigit(s[i])
    OBVIOUS
  <2>1. PICK m \in Nat : m = i - p.pos + 1
    BY <1>0
  <2>2. m \in 1 .. Size(s) - p.pos + 1 /\ m \in 1 .. Size(w) /\ p.pos + m - 1 = i
    BY <1>0, <1>1, <1>a, <2>1
  <2>3. s[p.pos + m - 1] = w[m]
    BY <1>a, <2>2 DEF Spelt
  <2> QED BY <1>1, <2>2, <2>3
<1>4. j > Size(s)
  <2> SUFFICES ASSUME j <= Size(s) PROVE FALSE
    BY <1>0, <1>2
  <2>1. j \in p.pos .. Size(s) /\ j # Size(t) + 1 /\ j \in 1 .. Size(s)
    BY <1>0, <1>2
  <2>2. t[j] \in AtomSpecials
    BY <1>2, <2>1 DEF Stops, Places
  <2>3. s[j] = t[j]
    BY <1>0, <2>1 DEF Cut
  <2> QED BY <1>3, <2>1, <2>2, <2>3
<1>5. ~IsEof(p) => p.pos \in p.pos .. Size(s) /\ Peek(p) = s[p.pos]
  BY <1>0, PeekFacts
<1> QED BY <1>3, <1>4, <1>5 DEF j

-------------------------------------------------------------------------------
(* The three kinds of line. *)

\* The mark of a continuation request or of an untagged response, and SP.
Opened(p, c) == Chain(ConsumeByte(p, c), ConsumeSp(ConsumeByte(p, c)))

LEMMA OpenedFacts ==
  ASSUME NEW s \in Texts, NEW p, At(s, p), p.st = "Ok", NEW c, c # "EOF"
  PROVE  Eats(s, p, Opened(p, c)) /\ (Opened(p, c).st = "Ok" => Opened(p, c).pos > p.pos)
<1> DEFINE a == ConsumeByte(p, c)
           b == ConsumeSp(a)
<1>0. Size(s) \in Nat /\ p.pos \in Nat
  BY DEF Texts, Size, At
<1>1. Eats(s, p, a)
  BY ConsumeByteEats
<1>2. a.st = "Ok" => a.pos = p.pos + 1
  BY ConsumeByteFacts
<1>3. Opened(p, c) = Chain(a, b)
  BY DEF Opened
<1>4. a.st = "Ok" => Eats(s, a, b)
  BY <1>1, EatsFacts, ConsumeSpFacts
<1> HIDE DEF a, b
<1>5. Eats(s, p, Chain(a, b))
  BY <1>0, <1>1, <1>4, EatsFacts, NextEats
<1>6. a.st = "Ok" => a.pos > p.pos /\ Moves(s, a, b)
  BY <1>0, <1>2, <1>4, EatsFacts
<1>7. Chain(a, b).st = "Ok" => Chain(a, b).pos > p.pos
  BY <1>1, <1>6, EatsFacts, ChainPast
<1> QED BY <1>3, <1>5, <1>7

LEMMA OpenedRel ==
  ASSUME NEW s, NEW t, NEW p, NEW q, Pair(s, t, p, q), NEW c, c # "EOF"
  PROVE  Strong(s, Opened(p, c), Opened(q, c))
<1> DEFINE a == ConsumeByte(p, c)
           b == ConsumeByte(q, c)
<1>0. Cut(s, t) /\ s \in Texts /\ t \in Texts /\ At(s, p) /\ At(t, q) /\ p.st = "Ok" /\ q.st = "Ok"
  BY PairFacts
<1>1. Sound(s, p, a) /\ Sound(t, q, b) /\ At(t, b)
  BY <1>0, ConsumeByteEats, EatsFacts
<1>2. Strong(s, a, b)
  BY ConsumeByteRel
<1>3. Opened(p, c) = Chain(a, ConsumeSp(a)) /\ Opened(q, c) = Chain(b, ConsumeSp(b))
  BY DEF Opened
<1> HIDE DEF a, b
<1>4. (b.st = "Ok" => Sound(t, b, ConsumeSp(b))) /\ (Pair(s, t, a, b) => Strong(s, ConsumeSp(a), ConsumeSp(b)))
  BY <1>0, <1>1, ConsumeSpFacts, EatsFacts, ConsumeSpRel
<1> QED BY <1>0, <1>1, <1>2, <1>3, <1>4, NextStrong

ContinueText(p) == Chain(Opened(p, "+"), ParseRespText(Opened(p, "+")))

LEMMA ContinueIs == ASSUME NEW p PROVE ParseContinueReq(p) = EndOfLine(ContinueText(p), "Continue")
BY DEF ParseContinueReq, ContinueText, Opened, Then, Chain

LEMMA ContinueTextFacts ==
  ASSUME NEW s \in Texts, NEW p, At(s, p), p.st = "Ok"
  PROVE  Sound(s, p, ContinueText(p))
<1> DEFINE a == Opened(p, "+")
<1>0. Size(s) \in Nat /\ "+" # "EOF"
  BY DEF Texts, Size
<1>1. Eats(s, p, a)
  BY <1>0, OpenedFacts
<1>2. ContinueText(p) = Chain(a, ParseRespText(a))
  BY DEF ContinueText
<1> HIDE DEF a
<1>3. a.st = "Ok" => Sound(s, a, ParseRespText(a))
  BY <1>1, EatsFacts, RespTextFacts
<1> QED BY <1>0, <1>1, <1>2, <1>3, NextEats, EatsFacts

LEMMA ContinueFacts ==
  ASSUME NEW s \in Texts, NEW p, At(s, p), p.st = "Ok"
  PROVE  Done(s, p, ParseContinueReq(p))
BY ContinueIs, ContinueTextFacts, EndOfLineFacts

LEMMA ContinueRel ==
  ASSUME NEW s, NEW t, NEW p, NEW q, Pair(s, t, p, q)
  PROVE  Whole(s, ParseContinueReq(p), ParseContinueReq(q))
<1> DEFINE a == Opened(p, "+")
           b == Opened(q, "+")
<1>0. Cut(s, t) /\ s \in Texts /\ t \in Texts /\ At(s, p) /\ At(t, q) /\ p.st = "Ok" /\ q.st = "Ok" /\ "+" # "EOF"
  BY PairFacts
<1>1. Sound(s, p, a) /\ Sound(t, q, b) /\ At(t, b)
  BY <1>0, OpenedFacts, EatsFacts
<1>2. Strong(s, a, b)
  BY <1>0, OpenedRel
<1>3. ContinueText(p) = Chain(a, ParseRespText(a)) /\ ContinueText(q) = Chain(b, ParseRespText(b))
  BY DEF ContinueText
<1> HIDE DEF a, b
<1>4. (b.st = "Ok" => Sound(t, b, ParseRespText(b))) /\ (Pair(s, t, a, b) => Strong(s, ParseRespText(a), ParseRespText(b)))
  BY <1>0, <1>1, RespTextFacts, EatsFacts, RespTextRel
<1>5. Strong(s, ContinueText(p), ContinueText(q))
  BY <1>0, <1>1, <1>2, <1>3, <1>4, NextStrong
<1>6. Sound(s, p, ContinueText(p)) /\ Sound(t, q, ContinueText(q)) /\ Loose(s, ContinueText(p), ContinueText(q))
  BY <1>0, <1>5, ContinueTextFacts DEF Strong
<1> QED BY <1>0, <1>6, ContinueIs, EndOfLineRel

TaggedTail(p, tag) ==
  IF StatusAt(p) # {} THEN FinishStatus(p, tag)
  ELSE IF CouldBeStatusKeywordPrefix(Remaining(p)) THEN Fail(p, "Incomplete")
  ELSE Fail(p, "Malformed")

\* A status at the cursor is a keyword there.
LEMMA StatusAtIs ==
  ASSUME NEW p
  PROVE  /\ StatusAt(p) # {} <=> \E k \in Statuses : MatchesKeyword(p, StatusKeywords[k])
         /\ CouldBeStatusKeywordPrefix(Remaining(p))
              <=> \E k \in Statuses : IsStrictPrefix(Remaining(p), StatusKeywords[k])
BY DEF StatusAt, Statuses, CouldBeStatusKeywordPrefix

\* Nothing is the beginning of any keyword.
LEMMA NothingBegins ==
  ASSUME NEW s \in Texts, NEW p, At(s, p), IsEof(p)
  PROVE  \E k \in Statuses : IsStrictPrefix(Remaining(p), StatusKeywords[k])
<1>1. "Ok" \in Statuses
  BY DEF Statuses, StatusKeywords
<1>2. PICK w : w = StatusKeywords["Ok"]
  OBVIOUS
<1>3. w \in Texts /\ Size(w) \in Nat /\ Size(w) >= 2
  BY <1>1, <1>2, KeywordsFacts
<1>4. Size(s) \in Nat /\ p.pos = Size(s) + 1
  BY PeekFacts DEF Texts, Size
<1>5. p.pos + Size(w) > Size(s) + 1 /\ Spelt(s, p.pos, w, Size(s) - p.pos + 1)
  BY <1>3, <1>4 DEF Spelt
<1>6. IsStrictPrefix(Remaining(p), w)
  BY <1>3, <1>5, WordFacts
<1> QED BY <1>1, <1>2, <1>6

LEMMA WaitsDone ==
  ASSUME NEW s, NEW p, At(s, p)
  PROVE  Done(s, p, Fail(p, "Incomplete"))
<1>1. Fail(p, "Incomplete").st = "Incomplete"
  BY FailFacts DEF At
<1> QED BY <1>1, WaitsEats DEF Done

LEMMA TaggedTailFacts ==
  ASSUME NEW s \in Texts, NEW p, At(s, p), p.st = "Ok", NEW tag
  PROVE  Done(s, p, TaggedTail(p, tag))
<1>1. CASE StatusAt(p) # {}
  <2>1. PICK k \in Statuses : MatchesKeyword(p, StatusKeywords[k])
    BY <1>1, StatusAtIs
  <2>2. Done(s, p, FinishStatus(p, tag))
    BY <2>1, FinishStatusFacts
  <2> QED BY <1>1, <2>2 DEF TaggedTail
<1>2. CASE StatusAt(p) = {} /\ CouldBeStatusKeywordPrefix(Remaining(p))
  BY <1>2, WaitsDone DEF TaggedTail
<1>3. CASE StatusAt(p) = {} /\ ~CouldBeStatusKeywordPrefix(Remaining(p))
  <2>1. ~IsEof(p)
    BY <1>3, StatusAtIs, NothingBegins
  <2>2. p.pos # Size(s) + 1 /\ "Malformed" \notin Going
    BY <2>1, PeekFacts DEF Texts, Size, Going
  <2>3. Sound(s, p, Fail(p, "Malformed")) /\ Hungry(s, p, Fail(p, "Malformed")) /\ At(s, Fail(p, "Malformed"))
    BY <2>2, Refuses
  <2>4. Fail(p, "Malformed").st = "Malformed"
    BY FailFacts DEF At
  <2> QED BY <1>3, <2>3, <2>4 DEF TaggedTail, Eats, Done
<1> QED BY <1>1, <1>2, <1>3

LEMMA TaggedTailRel ==
  ASSUME NEW s, NEW t, NEW p, NEW q, Pair(s, t, p, q), NEW tag
  PROVE  Whole(s, TaggedTail(p, tag), TaggedTail(q, tag))
<1>0. /\ s \in Texts /\ t \in Texts /\ Cut(s, t) /\ At(s, p) /\ At(t, q) /\ p.st = "Ok" /\ q.st = "Ok"
      /\ IsParser(p) /\ IsParser(q) /\ Size(s) \in Nat
  BY PairFacts
<1>a. At(t, TaggedTail(q, tag))
  BY <1>0, TaggedTailFacts DEF Done, Eats
<1>1. CASE StatusAt(p) # {} /\ StatusAt(q) # {}
  <2>1. PICK k \in Statuses : MatchesKeyword(p, StatusKeywords[k])
    BY <1>1, StatusAtIs
  <2>2. PICK l \in Statuses : MatchesKeyword(q, StatusKeywords[l])
    BY <1>1, StatusAtIs
  <2>3. Whole(s, FinishStatus(p, tag), FinishStatus(q, tag))
    BY <2>1, <2>2, FinishStatusRel
  <2> QED BY <1>1, <2>3 DEF TaggedTail
<1>2. CASE StatusAt(p) # {} /\ StatusAt(q) = {}
  <2>1. PICK k \in Statuses : MatchesKeyword(p, StatusKeywords[k])
    BY <1>2, StatusAtIs
  <2>2. ~MatchesKeyword(q, StatusKeywords[k])
    BY <1>2, StatusAtIs
  <2>3. FinishStatus(p, tag).st = "Incomplete"
    BY <2>1, <2>2, StatusOpen
  <2>4. TaggedTail(q, tag).st \in {"Incomplete", "Malformed"}
    BY <1>0, <1>2, FailFacts DEF TaggedTail
  <2>5. Beyond(s, TaggedTail(q, tag))
    BY <2>4 DEF Beyond, Going
  <2>6. TaggedTail(p, tag).st = "Incomplete"
    BY <1>2, <2>3 DEF TaggedTail
  <2> QED BY <1>0, <1>a, <2>5, <2>6, WaitWhole
<1>3. CASE StatusAt(p) = {} /\ CouldBeStatusKeywordPrefix(Remaining(p))
  <2>1. TaggedTail(p, tag).st = "Incomplete"
    BY <1>0, <1>3, FailFacts DEF TaggedTail
  <2>2. Beyond(s, TaggedTail(q, tag))
    <3>1. CASE StatusAt(q) = {}
      <4>1. TaggedTail(q, tag).st \in {"Incomplete", "Malformed"}
        BY <1>0, <3>1, FailFacts DEF TaggedTail
      <4> QED BY <4>1 DEF Beyond, Going
    <3>2. CASE StatusAt(q) # {}
      <4>1. PICK l \in Statuses : MatchesKeyword(q, StatusKeywords[l])
        BY <3>2, StatusAtIs
      <4>2. ~MatchesKeyword(p, StatusKeywords[l])
        BY <1>3, StatusAtIs
      <4>3. IsStrictPrefix(Remaining(p), StatusKeywords[l])
        BY <4>1, <4>2, KeywordsFacts, KeywordRel
      <4>4. Beyond(s, FinishStatus(q, tag))
        BY <4>1, <4>3, FinishStatusBeyond
      <4> QED BY <3>2, <4>4 DEF TaggedTail
    <3> QED BY <3>1, <3>2
  <2> QED BY <1>0, <1>a, <2>1, <2>2, WaitWhole
<1>4. CASE StatusAt(p) = {} /\ ~CouldBeStatusKeywordPrefix(Remaining(p))
  <2>1. StatusAt(q) = {}
    <3> SUFFICES ASSUME StatusAt(q) # {} PROVE FALSE
      OBVIOUS
    <3>1. PICK l \in Statuses : MatchesKeyword(q, StatusKeywords[l])
      BY StatusAtIs
    <3>2. MatchesKeyword(p, StatusKeywords[l]) \/ IsStrictPrefix(Remaining(p), StatusKeywords[l])
      BY <3>1, KeywordsFacts, KeywordRel
    <3> QED BY <1>4, <3>2, StatusAtIs
  <2>2. ~CouldBeStatusKeywordPrefix(Remaining(q))
    <3> SUFFICES ASSUME CouldBeStatusKeywordPrefix(Remaining(q)) PROVE FALSE
      OBVIOUS
    <3>1. PICK l \in Statuses : IsStrictPrefix(Remaining(q), StatusKeywords[l])
      BY StatusAtIs
    <3>2. IsStrictPrefix(Remaining(p), StatusKeywords[l])
      BY <3>1, KeywordsFacts, WordRel
    <3> QED BY <1>4, <3>2, StatusAtIs
  <2>3. TaggedTail(p, tag) = Fail(p, "Malformed") /\ TaggedTail(q, tag) = Fail(q, "Malformed")
    BY <1>4, <2>1, <2>2 DEF TaggedTail
  <2>4. Fail(p, "Malformed").st # "Incomplete" /\ Strong(s, Fail(p, "Malformed"), Fail(q, "Malformed"))
    BY <1>0, FailFacts, FailRel DEF Going
  <2> QED BY <2>3, <2>4 DEF Whole
<1> QED BY <1>1, <1>2, <1>3, <1>4

LEMMA SpacedDone ==
  ASSUME NEW s \in Texts, NEW p, At(s, p), p.st = "Ok", NEW c, ConsumeSp(p).st = "Ok" => Done(s, ConsumeSp(p), c)
  PROVE  Done(s, p, Spaced(p, c))
<1>1. Size(s) \in Nat
  BY DEF Texts, Size
<1> QED BY <1>1, ConsumeSpFacts, NextDone DEF Spaced

LEMMA SpacedWhole ==
  ASSUME NEW s, NEW t, NEW p, NEW q, Pair(s, t, p, q), NEW c, NEW d,
         ConsumeSp(q).st = "Ok" => Done(t, ConsumeSp(q), d),
         Pair(s, t, ConsumeSp(p), ConsumeSp(q)) => Whole(s, c, d)
  PROVE  Whole(s, Spaced(p, c), Spaced(q, d))
<1>0. Cut(s, t) /\ s \in Texts /\ t \in Texts /\ At(s, p) /\ At(t, q) /\ p.st = "Ok" /\ q.st = "Ok"
  BY PairFacts
<1>1. Sound(s, p, ConsumeSp(p)) /\ Sound(t, q, ConsumeSp(q)) /\ Strong(s, ConsumeSp(p), ConsumeSp(q))
  BY <1>0, ConsumeSpFacts, ConsumeSpRel, EatsFacts
<1> QED BY <1>0, <1>1, NextWhole DEF Spaced

TaggedLine(p) == Spaced(p, TaggedTail(ConsumeSp(p), <<p.val>>))

LEMMA TaggedIs == ASSUME NEW p PROVE ParseTagged(p) = Chain(ParseTag(p), TaggedLine(ParseTag(p)))
BY DEF ParseTagged, TaggedLine, Spaced, TaggedTail, Then, Chain

LEMMA TaggedLineFacts ==
  ASSUME NEW s \in Texts, NEW p, At(s, p), p.st = "Ok"
  PROVE  Done(s, p, TaggedLine(p))
<1>1. ConsumeSp(p).st = "Ok" => Done(s, ConsumeSp(p), TaggedTail(ConsumeSp(p), <<p.val>>))
  BY ConsumeSpFacts, EatsFacts, TaggedTailFacts
<1> QED BY <1>1, SpacedDone DEF TaggedLine

LEMMA TaggedLineRel ==
  ASSUME NEW s, NEW t, NEW p, NEW q, Pair(s, t, p, q)
  PROVE  Whole(s, TaggedLine(p), TaggedLine(q))
<1>0. s \in Texts /\ t \in Texts /\ At(s, p) /\ At(t, q) /\ p.st = "Ok" /\ q.st = "Ok" /\ p.val = q.val
  BY PairFacts
<1>1. /\ ConsumeSp(p).st = "Ok" => Done(s, ConsumeSp(p), TaggedTail(ConsumeSp(p), <<p.val>>))
      /\ ConsumeSp(q).st = "Ok" => Done(t, ConsumeSp(q), TaggedTail(ConsumeSp(q), <<q.val>>))
  BY <1>0, ConsumeSpFacts, EatsFacts, TaggedTailFacts
<1>2. Pair(s, t, ConsumeSp(p), ConsumeSp(q))
        => Whole(s, TaggedTail(ConsumeSp(p), <<p.val>>), TaggedTail(ConsumeSp(q), <<q.val>>))
  BY <1>0, TaggedTailRel
<1> QED BY <1>1, <1>2, SpacedWhole DEF TaggedLine

LEMMA TagFacts ==
  ASSUME NEW s \in Texts, NEW p, At(s, p), p.st = "Ok"
  PROVE  Eats(s, p, ParseTag(p)) /\ (ParseTag(p).st = "Ok" => ParseTag(p).pos > p.pos)
BY TokenFacts DEF ParseTag, Eats

LEMMA TaggedFacts ==
  ASSUME NEW s \in Texts, NEW p, At(s, p), p.st = "Ok"
  PROVE  Done(s, p, ParseTagged(p))
<1> DEFINE a == ParseTag(p)
<1>0. Size(s) \in Nat
  BY DEF Texts, Size
<1>1. Eats(s, p, a)
  BY TagFacts
<1>2. ParseTagged(p) = Chain(a, TaggedLine(a))
  BY TaggedIs
<1> HIDE DEF a
<1>3. a.st = "Ok" => Done(s, a, TaggedLine(a))
  BY <1>1, EatsFacts, TaggedLineFacts
<1> QED BY <1>0, <1>1, <1>2, <1>3, NextDone

LEMMA TaggedRel ==
  ASSUME NEW s, NEW t, NEW p, NEW q, Pair(s, t, p, q)
  PROVE  Whole(s, ParseTagged(p), ParseTagged(q))
<1> DEFINE a == ParseTag(p)
           b == ParseTag(q)
<1>0. Cut(s, t) /\ s \in Texts /\ t \in Texts /\ At(s, p) /\ At(t, q) /\ p.st = "Ok" /\ q.st = "Ok"
  BY PairFacts
<1>1. Sound(s, p, a) /\ Sound(t, q, b) /\ At(t, b)
  BY <1>0, TagFacts, EatsFacts
<1>2. Strong(s, a, b)
  BY TokenRel DEF ParseTag
<1>3. ParseTagged(p) = Chain(a, TaggedLine(a)) /\ ParseTagged(q) = Chain(b, TaggedLine(b))
  BY TaggedIs
<1> HIDE DEF a, b
<1>4. (b.st = "Ok" => Done(t, b, TaggedLine(b))) /\ (Pair(s, t, a, b) => Whole(s, TaggedLine(a), TaggedLine(b)))
  BY <1>0, <1>1, TaggedLineFacts, EatsFacts, TaggedLineRel
<1> QED BY <1>0, <1>1, <1>2, <1>3, <1>4, NextWhole

UntaggedTail(p) ==
  IF StatusAt(p) # {} THEN FinishStatus(p, <<>>)
  ELSE IF IsEof(p) THEN Fail(p, "Incomplete")
  ELSE IF IsDigit(Peek(p)) THEN ParseNumericDataResponse(p)
  ELSE ParseNamedDataResponse(p)

LEMMA UntaggedIs ==
  ASSUME NEW p PROVE ParseUntagged(p) = Chain(Opened(p, "*"), UntaggedTail(Opened(p, "*")))
BY DEF ParseUntagged, UntaggedTail, Opened, Then, Chain

LEMMA UntaggedTailFacts ==
  ASSUME NEW s \in Texts, NEW p, At(s, p), p.st = "Ok"
  PROVE  Done(s, p, UntaggedTail(p))
<1>1. CASE StatusAt(p) # {}
  <2>1. PICK k \in Statuses : MatchesKeyword(p, StatusKeywords[k])
    BY <1>1, StatusAtIs
  <2>2. Done(s, p, FinishStatus(p, <<>>))
    BY <2>1, FinishStatusFacts
  <2> QED BY <1>1, <2>2 DEF UntaggedTail
<1>2. CASE StatusAt(p) = {} /\ IsEof(p)
  BY <1>2, WaitsDone DEF UntaggedTail
<1>3. CASE StatusAt(p) = {} /\ ~IsEof(p) /\ IsDigit(Peek(p))
  BY <1>3, NumericFacts DEF UntaggedTail
<1>4. CASE StatusAt(p) = {} /\ ~IsEof(p) /\ ~IsDigit(Peek(p))
  BY <1>4, NamedFacts DEF UntaggedTail
<1> QED BY <1>1, <1>2, <1>3, <1>4

\* Where the scan for an atom ends, the atom does.
LEMMA AtomPos ==
  ASSUME NEW s \in Texts, NEW p, At(s, p), p.st = "Ok"
  PROVE  /\ ParseAtom(p).st = "Ok" => ParseAtom(p).pos = ScanTo(p, AtomSpecials).pos
         /\ ScanTo(p, AtomSpecials).pos = Size(s) + 1 => ParseAtom(p).st = "Incomplete"
<1> DEFINE q == ScanTo(p, AtomSpecials)
<1>0. Size(s) \in Nat
  BY DEF Texts, Size
<1>1. At(s, q) /\ q.st = "Ok" /\ q.pos <= q.pos /\ IsParser(q)
  BY ScanFacts DEF At
<1>2. ParseAtom(p) = IF q.pos = p.pos /\ ~IsEof(q) THEN Fail(q, "Malformed") ELSE ScannedText(q, p.pos)
  BY DEF ParseAtom, Token
<1>3. IsEof(q) <=> q.pos = Size(s) + 1
  BY <1>0, <1>1, PeekFacts
<1> HIDE DEF q
<1>4. ScannedText(q, p.pos).pos = q.pos /\ (IsEof(q) => ScannedText(q, p.pos) = Fail(q, "Incomplete"))
  BY <1>0, <1>1, ScannedFacts DEF ScannedText
<1>5. Fail(q, "Malformed").st = "Malformed" /\ Fail(q, "Incomplete").st = "Incomplete"
  BY <1>1, FailFacts
<1>6. /\ ParseAtom(p).st = "Ok" => ParseAtom(p).pos = q.pos
      /\ q.pos = Size(s) + 1 => ParseAtom(p).st = "Incomplete"
  BY <1>2, <1>3, <1>4, <1>5
<1> QED BY <1>6 DEF q

\* A data response whose name was cut short of a keyword.
LEMMA NamedBeyond ==
  ASSUME NEW s, NEW t, NEW p, NEW q, Pair(s, t, p, q), ScanTo(q, AtomSpecials).pos > Size(s)
  PROVE  Beyond(s, ParseNamedDataResponse(q))
<1> DEFINE b == ParseAtom(q)
           d == NamedTail(b, q.pos)
<1>0. t \in Texts /\ At(t, q) /\ q.st = "Ok" /\ Size(s) \in Nat
  BY PairFacts
<1>1. Eats(t, q, b)
  BY <1>0, ParseAtomFacts
<1>2. b.st = "Ok" => b.pos > Size(s)
  BY <1>0, AtomPos
<1>3. ParseNamedDataResponse(q) = Chain(b, d)
  BY NamedIs
<1>4. b.st = "Ok" => Done(t, b, d)
  BY <1>0, <1>1, NamedTailFacts, EatsFacts
<1> HIDE DEF b, d
<1>5. At(t, b) /\ b.st # "More" /\ Ahead(s, b)
  BY <1>1, <1>2 DEF Eats, Sound, Ahead, Going
<1> QED BY <1>0, <1>2, <1>3, <1>4, <1>5, AheadDone

LEMMA UntaggedTailRel ==
  ASSUME NEW s, NEW t, NEW p, NEW q, Pair(s, t, p, q)
  PROVE  Whole(s, UntaggedTail(p), UntaggedTail(q))
<1>0. /\ s \in Texts /\ t \in Texts /\ Cut(s, t) /\ At(s, p) /\ At(t, q) /\ p.st = "Ok" /\ q.st = "Ok"
      /\ IsParser(p) /\ IsParser(q) /\ Size(s) \in Nat /\ p.pos = q.pos /\ p.pos \in Nat
  BY PairFacts
<1>a. At(t, UntaggedTail(q))
  BY <1>0, UntaggedTailFacts DEF Done, Eats
<1>1. CASE StatusAt(p) # {} /\ StatusAt(q) # {}
  <2>1. PICK k \in Statuses : MatchesKeyword(p, StatusKeywords[k])
    BY <1>1, StatusAtIs
  <2>2. PICK l \in Statuses : MatchesKeyword(q, StatusKeywords[l])
    BY <1>1, StatusAtIs
  <2>3. Whole(s, FinishStatus(p, <<>>), FinishStatus(q, <<>>))
    BY <2>1, <2>2, FinishStatusRel
  <2> QED BY <1>1, <2>3 DEF UntaggedTail
<1>2. CASE StatusAt(p) # {} /\ StatusAt(q) = {}
  <2>1. PICK k \in Statuses : MatchesKeyword(p, StatusKeywords[k])
    BY <1>2, StatusAtIs
  <2>2. ~MatchesKeyword(q, StatusKeywords[k])
    BY <1>2, StatusAtIs
  <2>3. /\ FinishStatus(p, <<>>).st = "Incomplete" /\ Size(s) - p.pos + 1 = Size(StatusKeywords[k])
        /\ Spelt(s, p.pos, StatusKeywords[k], Size(StatusKeywords[k]))
    BY <2>1, <2>2, StatusOpen
  <2>4. Size(StatusKeywords[k]) \in Nat /\ Size(StatusKeywords[k]) >= 2
    BY <2>1, KeywordsFacts
  <2>5. ScanTo(q, AtomSpecials).pos > Size(s) /\ (~IsEof(p) => ~IsDigit(Peek(p)))
    <3>1. Size(s) - p.pos + 1 <= Size(StatusKeywords[k]) /\ Spelt(s, p.pos, StatusKeywords[k], Size(s) - p.pos + 1)
      BY <2>3, <2>4
    <3> QED BY <3>1, WordIsAtom
  <2>6. ~IsEof(p)
    BY <1>0, <2>3, <2>4, PeekFacts
  <2>7. ~IsEof(q) /\ Peek(q) = Peek(p)
    BY <1>0, <2>6, PeekRel
  <2>8. UntaggedTail(q) = ParseNamedDataResponse(q)
    BY <1>2, <2>5, <2>6, <2>7 DEF UntaggedTail
  <2>9. Beyond(s, UntaggedTail(q))
    BY <2>5, <2>8, NamedBeyond
  <2>10. UntaggedTail(p).st = "Incomplete"
    BY <1>2, <2>3 DEF UntaggedTail
  <2> QED BY <1>0, <1>a, <2>9, <2>10, WaitWhole
<1>3. CASE StatusAt(p) = {} /\ IsEof(p)
  <2>1. Done(s, p, UntaggedTail(p)) /\ Done(t, q, UntaggedTail(q))
    BY <1>0, UntaggedTailFacts
  <2> QED BY <1>0, <1>3, <2>1, DoneFacts, HungryWhole
<1>4. CASE StatusAt(p) = {} /\ ~IsEof(p) /\ StatusAt(q) = {}
  <2>1. ~IsEof(q) /\ Peek(q) = Peek(p)
    BY <1>0, <1>4, PeekRel
  <2>2. CASE IsDigit(Peek(p))
    BY <1>4, <2>1, <2>2, NumericRel DEF UntaggedTail
  <2>3. CASE ~IsDigit(Peek(p))
    BY <1>4, <2>1, <2>3, NamedRel DEF UntaggedTail
  <2> QED BY <2>2, <2>3
<1>5. CASE StatusAt(p) = {} /\ ~IsEof(p) /\ StatusAt(q) # {}
  <2>1. PICK l \in Statuses : MatchesKeyword(q, StatusKeywords[l])
    BY <1>5, StatusAtIs
  <2>2. ~MatchesKeyword(p, StatusKeywords[l])
    BY <1>5, StatusAtIs
  <2>3. PICK w \in Texts : w = StatusKeywords[l] /\ Size(w) \in Nat
    BY <2>1, KeywordsFacts
  <2>4. IsStrictPrefix(Remaining(p), w)
    BY <2>1, <2>2, <2>3, KeywordRel
  <2>5. p.pos + Size(w) > Size(s) + 1 /\ Spelt(s, p.pos, w, Size(s) - p.pos + 1)
    BY <1>0, <2>4, WordFacts
  <2>6. Size(s) - p.pos + 1 <= Size(w)
    BY <1>0, <2>3, <2>5
  <2>7. Pair(s, s, p, p)
    BY <1>0, PairSelf
  <2>8. ScanTo(p, AtomSpecials).pos > Size(s) /\ ~IsDigit(Peek(p))
    BY <1>5, <2>3, <2>5, <2>6, <2>7, WordIsAtom
  <2>9. ScanTo(p, AtomSpecials).pos = Size(s) + 1
    BY <1>0, <2>8, ScanFacts
  <2>10. ParseAtom(p).st = "Incomplete"
    BY <1>0, <2>9, AtomPos
  <2>11. UntaggedTail(p) = ParseAtom(p)
    BY <1>5, <2>8, <2>10, NamedIs DEF UntaggedTail, Chain
  <2>12. Beyond(s, UntaggedTail(q))
    BY <1>5, <2>1, <2>3, <2>4, FinishStatusBeyond DEF UntaggedTail
  <2> QED BY <1>0, <1>a, <2>10, <2>11, <2>12, WaitWhole
<1> QED BY <1>1, <1>2, <1>3, <1>4, <1>5

LEMMA UntaggedFacts ==
  ASSUME NEW s \in Texts, NEW p, At(s, p), p.st = "Ok"
  PROVE  Done(s, p, ParseUntagged(p))
<1> DEFINE a == Opened(p, "*")
<1>0. Size(s) \in Nat /\ "*" # "EOF"
  BY DEF Texts, Size
<1>1. Eats(s, p, a)
  BY <1>0, OpenedFacts
<1>2. ParseUntagged(p) = Chain(a, UntaggedTail(a))
  BY UntaggedIs
<1> HIDE DEF a
<1>3. a.st = "Ok" => Done(s, a, UntaggedTail(a))
  BY <1>1, EatsFacts, UntaggedTailFacts
<1> QED BY <1>0, <1>1, <1>2, <1>3, NextDone

LEMMA UntaggedRel ==
  ASSUME NEW s, NEW t, NEW p, NEW q, Pair(s, t, p, q)
  PROVE  Whole(s, ParseUntagged(p), ParseUntagged(q))
<1> DEFINE a == Opened(p, "*")
           b == Opened(q, "*")
<1>0. Cut(s, t) /\ s \in Texts /\ t \in Texts /\ At(s, p) /\ At(t, q) /\ p.st = "Ok" /\ q.st = "Ok" /\ "*" # "EOF"
  BY PairFacts
<1>1. Sound(s, p, a) /\ Sound(t, q, b) /\ At(t, b)
  BY <1>0, OpenedFacts, EatsFacts
<1>2. Strong(s, a, b)
  BY <1>0, OpenedRel
<1>3. ParseUntagged(p) = Chain(a, UntaggedTail(a)) /\ ParseUntagged(q) = Chain(b, UntaggedTail(b))
  BY UntaggedIs
<1> HIDE DEF a, b
<1>4. (b.st = "Ok" => Done(t, b, UntaggedTail(b))) /\ (Pair(s, t, a, b) => Whole(s, UntaggedTail(a), UntaggedTail(b)))
  BY <1>0, <1>1, UntaggedTailFacts, EatsFacts, UntaggedTailRel
<1> QED BY <1>0, <1>1, <1>2, <1>3, <1>4, NextWhole

-------------------------------------------------------------------------------
(* The whole of parse_response. *)
Reply(p) ==
  CASE IsEof(p)      -> Fail(p, "Incomplete")
    [] Peek(p) = "+" -> ParseContinueReq(p)
    [] Peek(p) = "*" -> ParseUntagged(p)
    [] OTHER         -> ParseTagged(p)

LEMMA ReplyIs ==
  ASSUME NEW p
  PROVE  /\ IsEof(p) => Reply(p) = Fail(p, "Incomplete")
         /\ ~IsEof(p) /\ Peek(p) = "+" => Reply(p) = ParseContinueReq(p)
         /\ ~IsEof(p) /\ Peek(p) = "*" => Reply(p) = ParseUntagged(p)
         /\ ~IsEof(p) /\ Peek(p) # "+" /\ Peek(p) # "*" => Reply(p) = ParseTagged(p)
<1>1. IsEof(p) => Peek(p) = "EOF"
  BY DEF Peek
<1>2. "EOF" # "+" /\ "EOF" # "*" /\ "+" # "*"
  OBVIOUS
<1> QED BY <1>1, <1>2 DEF Reply

LEMMA ReplyFacts ==
  ASSUME NEW s \in Texts, NEW p, At(s, p), p.st = "Ok"
  PROVE  Done(s, p, Reply(p))
<1>1. CASE IsEof(p)
  <2>1. Reply(p) = Fail(p, "Incomplete") /\ Fail(p, "Incomplete").st = "Incomplete"
    BY <1>1, ReplyIs, FailFacts DEF At
  <2> QED BY <2>1, WaitsDone
<1>2. CASE ~IsEof(p) /\ Peek(p) = "+"
  BY <1>2, ReplyIs, ContinueFacts
<1>3. CASE ~IsEof(p) /\ Peek(p) = "*"
  BY <1>3, ReplyIs, UntaggedFacts
<1>4. CASE ~IsEof(p) /\ Peek(p) # "+" /\ Peek(p) # "*"
  BY <1>4, ReplyIs, TaggedFacts
<1> QED BY <1>1, <1>2, <1>3, <1>4

LEMMA ReplyRel ==
  ASSUME NEW s, NEW t, NEW p, NEW q, Pair(s, t, p, q)
  PROVE  Whole(s, Reply(p), Reply(q))
<1>0. s \in Texts /\ t \in Texts /\ Cut(s, t) /\ At(s, p) /\ At(t, q) /\ p.st = "Ok" /\ q.st = "Ok" /\ p.pos = q.pos
  BY PairFacts
<1>1. CASE IsEof(p)
  <2>1. Hungry(s, p, Reply(p)) /\ Done(t, q, Reply(q))
    BY <1>0, ReplyFacts, DoneFacts
  <2> QED BY <1>1, <2>1, HungryWhole
<1>2. CASE ~IsEof(p)
  <2>1. ~IsEof(q) /\ Peek(q) = Peek(p)
    BY <1>0, <1>2, PeekRel
  <2>2. CASE Peek(p) = "+"
    BY <1>2, <2>1, <2>2, ReplyIs, ContinueRel
  <2>3. CASE Peek(p) = "*"
    BY <1>2, <2>1, <2>3, ReplyIs, UntaggedRel
  <2>4. CASE Peek(p) # "+" /\ Peek(p) # "*"
    BY <1>2, <2>1, <2>4, ReplyIs, TaggedRel
  <2> QED BY <2>2, <2>3, <2>4
<1> QED BY <1>1, <1>2

\* A new parser is at the first symbol.
LEMMA NewFacts ==
  ASSUME NEW s \in Texts
  PROVE  /\ At(s, New(s)) /\ New(s).st = "Ok" /\ New(s).pos = 1
         /\ New(s).itemsLeft = MaxItems /\ New(s).val = <<>>
<1>1. New(s) = [f \in Fields |-> New(s)[f]]
  BY DEF New, Fields
<1>2. /\ New(s).input = s /\ New(s).pos = 1 /\ New(s).itemsLeft = MaxItems /\ New(s).st = "Ok" /\ New(s).val = <<>>
  BY DEF New
<1>3. Size(s) \in Nat /\ MaxItems \in Nat
  BY LimitsAssumption DEF Texts, Size
<1> QED BY <1>1, <1>2, <1>3 DEF At, IsParser

LEMMA ParseIs ==
  ASSUME NEW s
  PROVE  ParseResponse(s) = IF Reply(New(s)).st = "Ok"
           THEN [st |-> "Ok", used |-> Reply(New(s)).pos - 1, response |-> Reply(New(s)).val]
           ELSE [st |-> Reply(New(s)).st, used |-> 0, response |-> Response("none", <<>>)]
BY DEF ParseResponse, Reply

LEMMA ParseStatus ==
  ASSUME NEW s
  PROVE  /\ ParseResponse(s).st = Reply(New(s)).st
         /\ Reply(New(s)).st = "Ok" => /\ ParseResponse(s).used = Reply(New(s)).pos - 1
                                       /\ ParseResponse(s).response = Reply(New(s)).val
<1> DEFINE r == Reply(New(s))
<1>1. ParseResponse(s) = IF r.st = "Ok" THEN [st |-> "Ok", used |-> r.pos - 1, response |-> r.val]
                         ELSE [st |-> r.st, used |-> 0, response |-> Response("none", <<>>)]
  BY ParseIs
<1> HIDE DEF r
<1>2. /\ ParseResponse(s).st = r.st
      /\ r.st = "Ok" => ParseResponse(s).used = r.pos - 1 /\ ParseResponse(s).response = r.val
  BY <1>1
<1> QED BY <1>2 DEF r

\* A frame is a part of the bytes it was found in, and not empty.
LEMMA FrameFits ==
  ASSUME NEW s \in Texts, ParseResponse(s).st = "Ok"
  PROVE  ParseResponse(s).used \in 1 .. Size(s)
<1> DEFINE r == Reply(New(s))
<1>0. At(s, New(s)) /\ New(s).st = "Ok" /\ New(s).pos = 1 /\ Size(s) \in Nat
  BY NewFacts DEF Texts, Size
<1>1. Eats(s, New(s), r) /\ (r.st = "Ok" => r.pos > 1)
  BY <1>0, ReplyFacts, DoneFacts
<1>2. r.st = "Ok" /\ ParseResponse(s).used = r.pos - 1
  BY ParseStatus
<1> HIDE DEF r
<1>3. r.pos \in Nat /\ r.pos <= Size(s) + 1
  BY <1>1 DEF Eats, At
<1> QED BY <1>0, <1>1, <1>2, <1>3

(***************************************************************************)
(* The framing contract of parse_response (prefix_soundness_tests of       *)
(* parser.rs), for inputs of any length and any limits: s has arrived, and *)
(* t goes on from it.  A complete response is the same with more bytes     *)
(* behind it, an error stays an error, and a response that was not         *)
(* complete ends behind the bytes that were there.                         *)
(***************************************************************************)
THEOREM MoreBytes ==
  ASSUME NEW s, NEW t, Cut(s, t)
  PROVE  /\ ParseResponse(s).st = "Ok" => ParseResponse(t) = ParseResponse(s)
         /\ ParseResponse(s).st \notin {"Ok", "Incomplete"} => ParseResponse(t).st \notin {"Ok", "Incomplete"}
         /\ ParseResponse(s).st = "Incomplete" /\ ParseResponse(t).st = "Ok" => ParseResponse(t).used > Size(s)
<1> DEFINE a == Reply(New(s))
           b == Reply(New(t))
<1>0. s \in Texts /\ t \in Texts /\ Size(s) \in Nat
  BY DEF Cut
<1>1. Pair(s, t, New(s), New(t))
  BY <1>0, NewFacts DEF Pair, Same
<1>2. Strong(s, a, b) /\ Whole(s, a, b)
  BY <1>1, ReplyRel DEF Whole
<1>3. At(s, New(s)) /\ At(t, New(t)) /\ New(s).st = "Ok" /\ New(t).st = "Ok"
  BY <1>0, NewFacts
<1>4. Eats(s, New(s), a) /\ Eats(t, New(t), b)
  BY <1>0, <1>3, ReplyFacts, DoneFacts
<1>5. /\ ParseResponse(s) = IF a.st = "Ok" THEN [st |-> "Ok", used |-> a.pos - 1, response |-> a.val]
                            ELSE [st |-> a.st, used |-> 0, response |-> Response("none", <<>>)]
      /\ ParseResponse(t) = IF b.st = "Ok" THEN [st |-> "Ok", used |-> b.pos - 1, response |-> b.val]
                            ELSE [st |-> b.st, used |-> 0, response |-> Response("none", <<>>)]
  BY ParseIs
<1>6. /\ ParseResponse(s).st = a.st /\ ParseResponse(t).st = b.st
      /\ b.st = "Ok" => ParseResponse(t).used = b.pos - 1
  BY ParseStatus
<1> HIDE DEF a, b
<1>7. a.st # "More" /\ b.st # "More" /\ b.pos \in Nat
  BY <1>4 DEF Eats, Sound, At
<1>8. a.st = "Ok" => b.st = "Ok" /\ b.pos = a.pos /\ b.val = a.val
  BY <1>2 DEF Strong, Same, Going
<1>9. a.st \notin {"Ok", "Incomplete"} => b.st \notin {"Ok", "Incomplete"}
  BY <1>2, <1>7 DEF Strong, Loose, Wrong
<1>10. a.st = "Incomplete" /\ b.st = "Ok" => b.pos > Size(s) + 1
  BY <1>2 DEF Whole, Beyond, Going
<1>11. a.st = "Ok" => ParseResponse(t) = ParseResponse(s)
  BY <1>5, <1>8
<1>12. a.st = "Incomplete" /\ b.st = "Ok" => ParseResponse(t).used > Size(s)
  BY <1>0, <1>6, <1>7, <1>10
<1> QED BY <1>6, <1>9, <1>11, <1>12

\* The first n symbols of a text.
LEMMA PrefixCut ==
  ASSUME NEW t \in Texts, NEW n \in 0 .. Size(t)
  PROVE  Cut(SubSeq(t, 1, n), t) /\ Size(SubSeq(t, 1, n)) = n
<1>1. Size(t) \in Nat /\ \A k \in 1 .. Size(t) : t[k] \in Symbols
  BY DEF Texts, Size
<1>2. n \in Nat /\ n <= Size(t) /\ \A k \in 1 .. n : t[k] \in Symbols
  BY <1>1
<1>3. /\ SubSeq(t, 1, n) \in Seq(Symbols)
      /\ Len(SubSeq(t, 1, n)) = IF 1 <= n THEN n - 1 + 1 ELSE 0
      /\ \A k \in 1 .. n - 1 + 1 : SubSeq(t, 1, n)[k] = t[1 + k - 1]
  BY <1>2, SubSeqProperties
<1>4. SubSeq(t, 1, n) \in Texts /\ Size(SubSeq(t, 1, n)) = n
  BY <1>2, <1>3 DEF Texts, Size
<1>5. \A k \in 1 .. n : SubSeq(t, 1, n)[k] = t[k]
  <2>1. \A k \in 1 .. n : k \in 1 .. n - 1 + 1 /\ 1 + k - 1 = k
    BY <1>2
  <2> QED BY <1>3, <2>1
<1> QED BY <1>1, <1>2, <1>4, <1>5 DEF Cut

(***************************************************************************)
(* A frame is found as soon as its last byte is there and not before       *)
(* (every_strict_prefix_returns_incomplete in parser.rs), and the frame by   *)
(* itself, as the read loop hands it on (client.rs), is the same response. *)
(***************************************************************************)
THEOREM FrameStandsAlone ==
  ASSUME NEW t \in Texts, ParseResponse(t).st = "Ok"
  PROVE  /\ ParseResponse(SubSeq(t, 1, ParseResponse(t).used)) = ParseResponse(t)
         /\ \A n \in 0 .. ParseResponse(t).used - 1 : ParseResponse(SubSeq(t, 1, n)).st = "Incomplete"
<1>1. PICK u \in 1 .. Size(t) : u = ParseResponse(t).used
  BY FrameFits
<1>2. Size(t) \in Nat
  BY DEF Texts, Size
<1>3. ASSUME NEW n \in 0 .. u - 1 PROVE ParseResponse(SubSeq(t, 1, n)).st = "Incomplete"
  <2> DEFINE s == SubSeq(t, 1, n)
  <2>1. n \in 0 .. Size(t) /\ ~(u \in 1 .. n)
    BY <1>1, <1>2
  <2>2. Cut(s, t) /\ s \in Texts /\ Size(s) = n
    BY <2>1, PrefixCut DEF Cut
  <2> HIDE DEF s
  <2>3. ParseResponse(s).st # "Ok"
    <3> SUFFICES ASSUME ParseResponse(s).st = "Ok" PROVE FALSE
      OBVIOUS
    <3>1. ParseResponse(t) = ParseResponse(s) /\ ParseResponse(s).used \in 1 .. n
      BY <2>2, MoreBytes, FrameFits
    <3> QED BY <1>1, <2>1, <3>1
  <2>4. ParseResponse(s).st \in {"Ok", "Incomplete"}
    BY <2>2, MoreBytes
  <2>5. ParseResponse(s).st = "Incomplete"
    BY <2>3, <2>4
  <2> QED BY <2>5 DEF s
<1>4. ParseResponse(SubSeq(t, 1, u)) = ParseResponse(t)
  <2> DEFINE s == SubSeq(t, 1, u)
  <2>1. u \in 0 .. Size(t) /\ ~(u > u)
    BY <1>1, <1>2
  <2>2. Cut(s, t) /\ Size(s) = u
    BY <2>1, PrefixCut
  <2> HIDE DEF s
  <2>3. ParseResponse(s).st # "Incomplete"
    BY <1>1, <2>1, <2>2, MoreBytes
  <2>4. ParseResponse(s).st = "Ok"
    BY <2>2, <2>3, MoreBytes
  <2>5. ParseResponse(s) = ParseResponse(t)
    BY <2>2, <2>4, MoreBytes
  <2> QED BY <2>5 DEF s
<1> QED BY <1>1, <1>3, <1>4

-------------------------------------------------------------------------------
(* What a production yields, and what it has been charged for it. *)

\* What a loop holds on to.
Held(a) == <<a.itemsLeft, a.val>>

\* A turn that goes on keeps to S, and one that ends the loop gives a member of R.
Keeps(s, kind, i, S, R) ==
  \A x : At(s, x) /\ x.st = "Ok" /\ Held(x) \in S =>
           /\ LoopTurn(kind, i, x).st = "More" => Held(LoopTurn(kind, i, x)) \in S
           /\ LoopTurn(kind, i, x).st = "Ok" => Held(LoopTurn(kind, i, x)) \in R

LEMMA LoopValues ==
  ASSUME NEW s, Size(s) \in Nat, NEW p, At(s, p), NEW kind, NEW i, NEW n, n = Size(s) + 1,
         NEW f, Runs(f, kind, i, p, n),
         \A x : At(s, x) /\ x.st = "Ok" => Turned(s, x, LoopTurn(kind, i, x)),
         NEW S, NEW R, Held(p) \in S, Keeps(s, kind, i, S, R)
  PROVE  f[n].st = "Ok" => Held(f[n]) \in R
<1> DEFINE Good(k) == (f[k].st = "More" => Held(f[k]) \in S) /\ (f[k].st = "Ok" => Held(f[k]) \in R)
           Bad == {k \in 0 .. n : ~Good(k)}
<1>0. n \in Nat /\ n \in 0 .. n
  OBVIOUS
<1>1. SUFFICES ASSUME Bad # {} PROVE FALSE
  BY <1>0
<1>2. Bad \in SUBSET Nat
  OBVIOUS
<1>3. PICK k \in Bad : \A l \in Bad : k <= l
  BY <1>1, <1>2, LeastNumber
<1>4. Turning(s, f, n) /\ f[0] = GoOn(p)
  BY <1>0, RunTurning
<1>5. \A l \in 0 .. n : At(s, f[l])
  BY <1>0, <1>4, TurningFacts
<1>6. k # 0
  <2>1. f[0].st = "More" /\ Held(f[0]) = Held(p)
    BY <1>4, GoOnAt DEF Held
  <2> QED BY <1>3, <2>1
<1>7. PICK m : m = k - 1
  OBVIOUS
<1>8. m \in 0 .. n /\ m \notin Bad /\ k \in 0 .. n /\ k - 1 = m
  BY <1>3, <1>6, <1>7
<1>9. Good(m) /\ f[k] = LoopStep(kind, i, f[m])
  BY <1>6, <1>8 DEF Runs
<1>10. CASE f[m].st = "More"
  <2>1. At(s, Resume(f[m])) /\ Resume(f[m]).st = "Ok" /\ Held(Resume(f[m])) = Held(f[m])
    BY <1>5, <1>8, ResumeAt DEF ResumeLike, Held
  <2>2. f[k] = LoopTurn(kind, i, Resume(f[m]))
    BY <1>9, <1>10 DEF LoopStep
  <2>3. Held(Resume(f[m])) \in S
    BY <1>9, <1>10, <2>1
  <2>4. Good(k)
    BY <2>1, <2>2, <2>3 DEF Keeps
  <2> QED BY <1>3, <2>4
<1>11. CASE f[m].st # "More"
  <2>1. f[k] = f[m]
    BY <1>9, <1>11 DEF LoopStep
  <2>2. Good(k)
    BY <1>9, <2>1
  <2> QED BY <1>3, <2>2
<1> QED BY <1>10, <1>11

LEMMA ChainOk ==
  ASSUME NEW a, NEW c, Chain(a, c).st = "Ok"
  PROVE  a.st = "Ok" /\ Chain(a, c) = c /\ c.st = "Ok"
BY DEF Chain

LEMMA RevaluedOk ==
  ASSUME NEW s, NEW a, At(s, a), NEW v, Revalued(a, v).st = "Ok"
  PROVE  /\ a.st = "Ok" /\ Revalued(a, v).val = v /\ Revalued(a, v).pos = a.pos
         /\ Revalued(a, v).itemsLeft = a.itemsLeft /\ At(s, Revalued(a, v))
<1>1. a.st = "Ok" /\ Revalued(a, v) = Yield(a, v)
  BY DEF Revalued, Chain
<1> QED BY <1>1, YieldFacts, YieldAt DEF At

LEMMA ConsumeByteKeeps ==
  ASSUME NEW s, NEW p, At(s, p), NEW c
  PROVE  ConsumeByte(p, c).itemsLeft = p.itemsLeft
BY AdvanceFacts, FailFacts DEF ConsumeByte, At

LEMMA ConsumeCrlfKeeps ==
  ASSUME NEW s, NEW p, At(s, p)
  PROVE  ConsumeCrlf(p).itemsLeft = p.itemsLeft
BY AdvanceFacts, FailFacts DEF ConsumeCrlf, At

\* The symbols of a text, and what is made of them.
Parts(s) == Seq({s[k] : k \in 1 .. Size(s)})

LEMMA TakenValue ==
  ASSUME NEW s \in Texts, NEW r, At(s, r), NEW i \in Nat, 1 <= i
  PROVE  Taken(r, i) \in Texts /\ Taken(r, i) \in Parts(s)
<1>0. CASE i > r.pos
  <2>1. r.pos - 1 \in Int /\ r.pos - 1 < i
    BY <1>0 DEF At
  <2>2. Taken(r, i) = <<>>
    BY <2>1, SubSeqEmpty DEF Taken
  <2> QED BY <2>2 DEF Texts, Parts
<1>a. SUFFICES ASSUME i <= r.pos PROVE Taken(r, i) \in Texts /\ Taken(r, i) \in Parts(s)
  BY <1>0 DEF At
<1>1. /\ Taken(r, i) \in Texts /\ Size(Taken(r, i)) = r.pos - i
      /\ \A k \in 1 .. r.pos - i : Taken(r, i)[k] = s[i + k - 1]
  BY <1>a, TakenFacts
<1>2. r.pos \in Nat /\ r.pos <= Size(s) + 1 /\ Size(s) \in Nat
  BY DEF At, Texts, Size
<1>3. \A k \in 1 .. r.pos - i : i + k - 1 \in 1 .. Size(s)
  BY <1>2
<1>4. \A k \in 1 .. Len(Taken(r, i)) : Taken(r, i)[k] \in {s[l] : l \in 1 .. Size(s)}
  BY <1>1, <1>3 DEF Size
<1> QED BY <1>1, <1>4 DEF Texts, Parts

LEMMA ScannedValue ==
  ASSUME NEW s \in Texts, NEW p, At(s, p), p.st = "Ok", NEW T, ScannedText(ScanTo(p, T), p.pos).st = "Ok"
  PROVE  /\ ScannedText(ScanTo(p, T), p.pos).val \in Texts /\ ScannedText(ScanTo(p, T), p.pos).val \in Parts(s)
         /\ ScannedText(ScanTo(p, T), p.pos).itemsLeft = p.itemsLeft
<1> DEFINE r == ScanTo(p, T)
<1>0. Size(s) \in Nat /\ p.pos \in Nat /\ 1 <= p.pos
  BY DEF Texts, Size, At
<1>1. At(s, r) /\ r.pos \in p.pos .. Size(s) + 1 /\ r.st = "Ok" /\ r.itemsLeft = p.itemsLeft
  BY ScanFacts
<1> HIDE DEF r
<1>2. p.pos <= r.pos
  BY <1>0, <1>1
<1>3. ScannedText(r, p.pos).itemsLeft = r.itemsLeft /\ (ScannedText(r, p.pos).st = "Ok" => ScannedText(r, p.pos).val = Taken(r, p.pos))
  BY <1>0, <1>1, <1>2, ScannedFacts
<1> QED BY <1>0, <1>1, <1>2, <1>3, TakenValue DEF r

LEMMA TokenValue ==
  ASSUME NEW s \in Texts, NEW p, At(s, p), p.st = "Ok", NEW T, Token(p, T).st = "Ok"
  PROVE  Token(p, T).val \in Texts /\ Token(p, T).itemsLeft = p.itemsLeft
<1>1. IsParser(ScanTo(p, T))
  BY ScanFacts DEF At
<1>2. Token(p, T) = ScannedText(ScanTo(p, T), p.pos)
  BY <1>1, FailFacts DEF Token
<1> QED BY <1>2, ScannedValue

LEMMA TextValue ==
  ASSUME NEW s \in Texts, NEW p, At(s, p), p.st = "Ok", ParseText(p).st = "Ok"
  PROVE  ParseText(p).val \in Texts /\ ParseText(p).val \in Parts(s) /\ ParseText(p).itemsLeft = p.itemsLeft
BY ScannedValue DEF ParseText

LEMMA ReadUntilValue ==
  ASSUME NEW s \in Texts, NEW p, At(s, p), p.st = "Ok", NEW c, ReadUntilByte(p, c).st = "Ok"
  PROVE  ReadUntilByte(p, c).val \in Texts /\ ReadUntilByte(p, c).itemsLeft = p.itemsLeft
<1>1. IsParser(ScanTo(p, {c} \cup LineBreak))
  BY ScanFacts DEF At
<1>2. ReadUntilByte(p, c) = ScannedText(ScanTo(p, {c} \cup LineBreak), p.pos)
  BY <1>1, FailFacts DEF ReadUntilByte
<1> QED BY <1>2, ScannedValue

LEMMA QuotedTurnValue ==
  ASSUME NEW s \in Texts, NEW p, At(s, p), p.st = "Ok", NEW i \in Nat, 1 <= i
  PROVE  /\ QuotedTurn(p, i).st = "More" => Held(QuotedTurn(p, i)) = Held(p)
         /\ QuotedTurn(p, i).st = "Ok" => QuotedTurn(p, i).itemsLeft = p.itemsLeft /\ QuotedTurn(p, i).val \in Texts
<1> DEFINE r == FromUtf8(p, Taken(p, i))
           q == Advance(p, 1)
<1>0. IsParser(p) /\ IsParser(q) /\ q.itemsLeft = p.itemsLeft /\ q.val = p.val /\ q.st = "Ok"
  BY AdvanceFacts DEF At
<1>1. CASE Peek(p) = "DQ" /\ ~IsEof(p)
  <2>1. QuotedTurn(p, i) = Chain(r, Advance(r, 1))
    BY <1>1 DEF QuotedTurn, Then, Chain, LineBreak
  <2>2. At(s, r) /\ r.st \in {"Ok", "Other"} /\ r.itemsLeft = p.itemsLeft /\ (r.st = "Ok" => r.val = Taken(p, i))
    BY FromUtf8Facts
  <2>3. IsParser(r) /\ Taken(p, i) \in Texts
    BY <2>2, TakenValue DEF At
  <2> HIDE DEF r
  <2> QED BY <2>1, <2>2, <2>3, AdvanceFacts DEF Chain
<1>2. CASE ~(Peek(p) = "DQ" /\ ~IsEof(p))
  <2> HIDE DEF q
  <2>1. IsParser(Advance(q, 1)) /\ Held(Advance(q, 1)) = Held(p) /\ Held(q) = Held(p)
    BY <1>0, AdvanceFacts DEF Held
  <2>2. /\ GoOn(q).st = "More" /\ Held(GoOn(q)) = Held(p) /\ GoOn(Advance(q, 1)).st = "More"
        /\ Held(GoOn(Advance(q, 1))) = Held(p)
    BY <1>0, <2>1, GoOnFacts DEF Held
  <2>3. \A e : Fail(p, e).st = e /\ Fail(q, e).st = e
    BY <1>0, FailFacts
  <2>4. \/ QuotedTurn(p, i) = GoOn(q) \/ QuotedTurn(p, i) = GoOn(Advance(q, 1))
        \/ QuotedTurn(p, i) = Fail(p, "Incomplete") \/ QuotedTurn(p, i) = Fail(q, "Incomplete")
        \/ QuotedTurn(p, i) = Fail(p, "Malformed") \/ QuotedTurn(p, i) = Fail(q, "Malformed")
    <3>1. CASE IsEof(p)
      <4>1. Peek(p) = "EOF"
        BY <3>1 DEF Peek
      <4> QED BY <3>1, <4>1 DEF QuotedTurn, LineBreak
    <3>2. CASE ~IsEof(p) /\ Peek(p) = "BS"
      <4>1. \/ QuotedTurn(p, i) = Fail(q, "Incomplete") \/ QuotedTurn(p, i) = GoOn(Advance(q, 1))
            \/ QuotedTurn(p, i) = Fail(q, "Malformed")
        BY <3>2 DEF QuotedTurn, LineBreak, q, Peek
      <4> QED BY <4>1
    <3>3. CASE ~IsEof(p) /\ Peek(p) \notin {"DQ", "BS"}
      BY <3>3 DEF QuotedTurn, q
    <3> QED BY <1>2, <3>1, <3>2, <3>3
  <2> QED BY <2>2, <2>3, <2>4
<1> QED BY <1>1, <1>2

LEMMA QuotedLoopValue ==
  ASSUME NEW s \in Texts, NEW p, At(s, p), NEW i \in Nat, 1 <= i, QuotedLoop(p, i).st = "Ok"
  PROVE  QuotedLoop(p, i).val \in Texts /\ QuotedLoop(p, i).itemsLeft = p.itemsLeft
<1>1. Size(s) \in Nat
  BY DEF Texts, Size
<1>2. PICK f : Runs(f, "quoted", i, p, Size(s) + 1) /\ QuotedLoop(p, i) = f[Size(s) + 1]
  BY <1>1, QuotedRuns
<1>3. \A x : LoopTurn("quoted", i, x) = QuotedTurn(x, i)
  BY DEF LoopTurn
<1>4. \A x : At(s, x) /\ x.st = "Ok" => Turned(s, x, LoopTurn("quoted", i, x))
  BY <1>1, <1>3, QuotedTurnFacts
<1>5. PICK n : n = Size(s) + 1
  OBVIOUS
<1> DEFINE S == {Held(p)}
           R == {p.itemsLeft} \X Texts
<1>6. Keeps(s, "quoted", i, S, R)
  <2> SUFFICES ASSUME NEW x, At(s, x), x.st = "Ok", Held(x) \in S
               PROVE  /\ LoopTurn("quoted", i, x).st = "More" => Held(LoopTurn("quoted", i, x)) \in S
                      /\ LoopTurn("quoted", i, x).st = "Ok" => Held(LoopTurn("quoted", i, x)) \in R
    BY DEF Keeps
  <2>1. x.itemsLeft = p.itemsLeft /\ Held(x) = Held(p)
    BY DEF Held
  <2> QED BY <1>3, <2>1, QuotedTurnValue DEF Held
<1>7. Held(p) \in S
  OBVIOUS
<1> HIDE DEF S, R
<1>8. f[n].st = "Ok" => Held(f[n]) \in R
  BY <1>1, <1>2, <1>4, <1>5, <1>6, <1>7, LoopValues
<1> QED BY <1>2, <1>5, <1>8 DEF R, Held

LEMMA QuotedValue ==
  ASSUME NEW s \in Texts, NEW p, At(s, p), p.st = "Ok", ParseQuoted(p).st = "Ok"
  PROVE  ParseQuoted(p).val \in Texts /\ ParseQuoted(p).itemsLeft = p.itemsLeft
<1> DEFINE k == ConsumeByte(p, "DQ")
<1>1. ParseQuoted(p) = Chain(k, QuotedLoop(k, k.pos))
  BY DEF ParseQuoted, Then, Chain, QuotedLoop
<1>2. At(s, k) /\ k.itemsLeft = p.itemsLeft
  BY ConsumeByteFacts, ConsumeByteKeeps
<1> HIDE DEF k
<1>3. k.pos \in Nat /\ 1 <= k.pos
  BY <1>2 DEF At
<1>4. QuotedLoop(k, k.pos).st = "Ok" /\ ParseQuoted(p) = QuotedLoop(k, k.pos)
  BY <1>1, ChainOk
<1> QED BY <1>2, <1>3, <1>4, QuotedLoopValue

LEMMA OctetsValue ==
  ASSUME NEW s \in Texts, NEW p, At(s, p), p.st = "Ok", NEW n \in Nat, LiteralOctets(p, n).st = "Ok"
  PROVE  LiteralOctets(p, n).val \in Texts /\ LiteralOctets(p, n).itemsLeft = p.itemsLeft
<1> DEFINE r == Advance(p, n)
<1>0. IsParser(p) /\ p.pos \in Nat /\ 1 <= p.pos /\ p.input = s /\ Size(s) = Len(s) /\ Size(s) \in Nat
  BY DEF At, Texts, Size
<1>1. \A e : Fail(p, e).st = e
  BY <1>0, FailFacts
<1>2. /\ ~(p.pos + n > Len(p.input) + 1)
      /\ LiteralOctets(p, n) = Yield(Advance(p, n), SubSeq(p.input, p.pos, p.pos + n - 1))
  BY <1>1 DEF LiteralOctets
<1>3. At(s, r) /\ r.pos = p.pos + n /\ r.itemsLeft = p.itemsLeft /\ IsParser(r) /\ r.input = s
  <2>1. p.pos + n <= Size(s) + 1
    BY <1>0, <1>2
  <2> QED BY <1>0, <2>1, AdvanceMoves, AdvanceFacts
<1>4. LiteralOctets(p, n) = Yield(r, Taken(r, p.pos))
  BY <1>0, <1>2, <1>3 DEF Taken
<1> HIDE DEF r
<1> QED BY <1>0, <1>3, <1>4, YieldFacts, TakenValue

LEMMA LiteralValue ==
  ASSUME NEW s \in Texts, NEW p, At(s, p), p.st = "Ok", ParseLiteral(p).st = "Ok"
  PROVE  ParseLiteral(p).val \in Texts /\ ParseLiteral(p).itemsLeft = p.itemsLeft
<1> DEFINE k == ConsumeByte(p, "{")
           a == Chain(k, ParseNumber(k))
           m == ConsumeByte(a, "}")
           b == Chain(m, ConsumeCrlf(m))
           c == Chain(b, LiteralOctets(b, a.val))
<1>0. "{" # "EOF" /\ "}" # "EOF"
  OBVIOUS
<1>1. ParseLiteral(p) = Chain(a, c)
  BY DEF ParseLiteral, Then, Chain
<1>2. At(s, k) /\ k.itemsLeft = p.itemsLeft
  BY <1>0, ConsumeByteFacts, ConsumeByteKeeps
<1>3. a.st = "Ok" /\ c.st = "Ok" /\ ParseLiteral(p) = c
  <2> HIDE DEF a, c
  <2> QED BY <1>1, ChainOk
<1>4. b.st = "Ok" /\ c = LiteralOctets(b, a.val)
  BY <1>3, ChainOk
<1>5. m.st = "Ok" /\ b = ConsumeCrlf(m)
  BY <1>4, ChainOk
<1>6. k.st = "Ok" /\ a = ParseNumber(k)
  BY <1>3, ChainOk
<1> HIDE DEF k
<1>7. At(s, a) /\ a.itemsLeft = p.itemsLeft /\ a.val \in Nat
  BY <1>2, <1>3, <1>6, ParseNumberFacts
<1> HIDE DEF a
<1>8. At(s, m) /\ m.itemsLeft = p.itemsLeft
  BY <1>0, <1>3, <1>7, ConsumeByteFacts, ConsumeByteKeeps
<1> HIDE DEF m
<1>9. At(s, b) /\ b.itemsLeft = p.itemsLeft
  BY <1>5, <1>8, ConsumeCrlfFacts, ConsumeCrlfKeeps
<1> HIDE DEF b
<1> QED BY <1>3, <1>4, <1>7, <1>9, OctetsValue

\* None, or some bytes.
Options == {<<>>} \cup {<<x>> : x \in Texts}

LEMMA NstringBytesValue ==
  ASSUME NEW s \in Texts, NEW p, At(s, p), p.st = "Ok", ParseNstringBytes(p).st = "Ok"
  PROVE  ParseNstringBytes(p).val \in Options /\ ParseNstringBytes(p).itemsLeft = p.itemsLeft
<1> DEFINE a == NstringSource(p)
           v == NstringValue(p, a)
<1>0. IsParser(p) /\ Size(s) \in Nat
  BY DEF At, Texts, Size
<1>1. ~IsEof(p)
  <2> SUFFICES ASSUME IsEof(p) PROVE FALSE
    OBVIOUS
  <2>1. ParseNstringBytes(p) = Fail(p, "Incomplete")
    BY <1>0, PeekFacts DEF ParseNstringBytes
  <2> QED BY <1>0, <2>1, FailFacts
<1>2. ParseNstringBytes(p) = Revalued(a, v)
  BY <1>1, NstringBytesIs
<1>3. At(s, a)
  BY ParseQuotedFacts, ParseLiteralFacts, ExpectNilFacts, EatsFacts DEF NstringSource
<1>4. a.st = "Ok" /\ Revalued(a, v).val = v /\ Revalued(a, v).itemsLeft = a.itemsLeft
  <2> HIDE DEF a, v
  <2> QED BY <1>2, <1>3, RevaluedOk
<1>5. CASE Peek(p) = "DQ"
  <2>1. a = ParseQuoted(p) /\ v = <<a.val>>
    BY <1>5 DEF NstringSource, NstringValue
  <2> HIDE DEF a, v
  <2>2. a.val \in Texts /\ a.itemsLeft = p.itemsLeft
    BY <1>4, <2>1, QuotedValue
  <2> QED BY <1>2, <1>4, <2>1, <2>2 DEF Options
<1>6. CASE Peek(p) = "{"
  <2>1. a = ParseLiteral(p) /\ v = <<a.val>>
    BY <1>6 DEF NstringSource, NstringValue
  <2> HIDE DEF a, v
  <2>2. a.val \in Texts /\ a.itemsLeft = p.itemsLeft
    BY <1>4, <2>1, LiteralValue
  <2> QED BY <1>2, <1>4, <2>1, <2>2 DEF Options
<1>7. CASE Peek(p) \notin {"DQ", "{"}
  <2>1. a = ExpectNil(p) /\ v = <<>>
    BY <1>7 DEF NstringSource, NstringValue
  <2>2. a = Advance(p, 3)
    BY <1>4, <2>1, ExpectNilFacts
  <2> HIDE DEF a, v
  <2>3. a.itemsLeft = p.itemsLeft
    BY <1>0, <2>2, AdvanceFacts
  <2> QED BY <1>2, <1>4, <2>1, <2>3 DEF Options
<1> QED BY <1>5, <1>6, <1>7

LEMMA AtomValue ==
  ASSUME NEW s \in Texts, NEW p, At(s, p), p.st = "Ok", ParseAtom(p).st = "Ok"
  PROVE  ParseAtom(p).val \in Texts /\ ParseAtom(p).itemsLeft = p.itemsLeft
BY TokenValue DEF ParseAtom

LEMMA InsideHeld ==
  ASSUME NEW a, IsParser(a), NEW d
  PROVE  Inside(a, d).st = "More" /\ Inside(a, d).itemsLeft = a.itemsLeft /\ Inside(a, d).val = d
<1>1. IsParser(Yield(a, d)) /\ Yield(a, d).itemsLeft = a.itemsLeft /\ Yield(a, d).val = d
  BY YieldFacts
<1> QED BY <1>1, GoOnFacts DEF Inside

LEMMA ParensTurnValue ==
  ASSUME NEW s \in Texts, NEW p, At(s, p), p.st = "Ok", NEW i \in Nat, 1 <= i, p.val \in Nat
  PROVE  /\ ParensTurn(p, i).st = "More" => ParensTurn(p, i).itemsLeft = p.itemsLeft /\ ParensTurn(p, i).val \in Nat
         /\ ParensTurn(p, i).st = "Ok" => ParensTurn(p, i).itemsLeft = p.itemsLeft /\ ParensTurn(p, i).val \in Texts
<1>0. IsParser(p) /\ Size(s) \in Nat
  BY DEF At, Texts, Size
<1>1. CASE p.val = 0
  <2>1. ParensTurn(p, i) = Yield(p, Taken(p, i))
    BY <1>1 DEF ParensTurn
  <2> QED BY <1>0, <2>1, YieldFacts, TakenValue
<1>2. CASE p.val # 0 /\ IsEof(p)
  <2>1. ParensTurn(p, i) = Fail(p, "Incomplete")
    BY <1>0, <1>2, PeekFacts DEF ParensTurn, LineBreak
  <2> QED BY <1>0, <2>1, FailFacts
<1>3. CASE p.val # 0 /\ ~IsEof(p) /\ Blocked(p)
  <2>1. ParensTurn(p, i) = Fail(p, BlockedBy(p)) /\ BlockedBy(p) \notin {"Ok", "More"}
    BY <1>3, ParensTurnIs DEF BlockedBy
  <2> QED BY <1>0, <2>1, FailFacts
<1>4. ASSUME NEW a, ParensTurn(p, i) = Chain(a, Inside(a, p.val)), At(s, a), a.st = "Ok" => a.itemsLeft = p.itemsLeft,
             a.st # "More"
      PROVE  /\ ParensTurn(p, i).st = "More" => ParensTurn(p, i).itemsLeft = p.itemsLeft /\ ParensTurn(p, i).val \in Nat
             /\ ParensTurn(p, i).st # "Ok"
  <2>1. Inside(a, p.val).st = "More" /\ Inside(a, p.val).itemsLeft = a.itemsLeft /\ Inside(a, p.val).val = p.val
    BY <1>4, InsideHeld DEF At
  <2> QED BY <1>4, <2>1 DEF Chain
<1>5. CASE p.val # 0 /\ ~IsEof(p) /\ Peek(p) = "DQ"
  BY <1>4, <1>5, ParensTurnIs, ParseQuotedFacts, EatsFacts, QuotedValue
<1>6. CASE p.val # 0 /\ ~IsEof(p) /\ Peek(p) = "{"
  BY <1>4, <1>6, ParensTurnIs, ParseLiteralFacts, EatsFacts, LiteralValue
<1>7. CASE p.val # 0 /\ ~IsEof(p) /\ ~Blocked(p) /\ Peek(p) \notin {"DQ", "{"}
  <2> DEFINE d == Depth(Peek(p), p.val)
  <2>1. d \in Nat
    <3>1. ASSUME NEW v \in Nat, v # 0 PROVE v - 1 \in Nat /\ v + 1 \in Nat
      BY <3>1
    <3>3. p.val - 1 \in Nat /\ p.val + 1 \in Nat
      BY <1>7, <3>1
    <3>2. d \in {p.val, p.val - 1, p.val + 1}
      BY DEF Depth
    <3> QED BY <3>2, <3>3
  <2>2. ParensTurn(p, i) = Inside(Advance(p, 1), d)
    BY <1>7, ParensTurnIs
  <2>3. IsParser(Advance(p, 1)) /\ Advance(p, 1).itemsLeft = p.itemsLeft
    BY <1>0, AdvanceFacts
  <2> HIDE DEF d
  <2> QED BY <2>1, <2>2, <2>3, InsideHeld
<1> QED BY <1>1, <1>2, <1>3, <1>5, <1>6, <1>7

LEMMA ParensLoopValue ==
  ASSUME NEW s \in Texts, NEW p, At(s, p), NEW i \in Nat, 1 <= i, p.val \in Nat, ParensLoop(p, i).st = "Ok"
  PROVE  ParensLoop(p, i).val \in Texts /\ ParensLoop(p, i).itemsLeft = p.itemsLeft
<1>1. Size(s) \in Nat
  BY DEF Texts, Size
<1>2. PICK f : Runs(f, "parens", i, p, Size(s) + 1) /\ ParensLoop(p, i) = f[Size(s) + 1]
  BY <1>1, ParensRuns
<1>3. \A x : LoopTurn("parens", i, x) = ParensTurn(x, i)
  BY DEF LoopTurn
<1>4. \A x : At(s, x) /\ x.st = "Ok" => Turned(s, x, LoopTurn("parens", i, x))
  BY <1>1, <1>3, ParensTurnFacts
<1>5. PICK n : n = Size(s) + 1
  OBVIOUS
<1> DEFINE S == {p.itemsLeft} \X Nat
           R == {p.itemsLeft} \X Texts
<1>6. Keeps(s, "parens", i, S, R)
  <2> SUFFICES ASSUME NEW x, At(s, x), x.st = "Ok", Held(x) \in S
               PROVE  /\ LoopTurn("parens", i, x).st = "More" => Held(LoopTurn("parens", i, x)) \in S
                      /\ LoopTurn("parens", i, x).st = "Ok" => Held(LoopTurn("parens", i, x)) \in R
    BY DEF Keeps
  <2>1. x.itemsLeft = p.itemsLeft /\ x.val \in Nat
    BY DEF Held
  <2> QED BY <1>3, <2>1, ParensTurnValue DEF Held
<1>7. Held(p) \in S
  BY DEF Held
<1> HIDE DEF S, R
<1>8. Runs(f, "parens", i, p, n)
  BY <1>2, <1>5
<1>9. f[n].st = "Ok" => Held(f[n]) \in R
  BY <1>1, <1>4, <1>5, <1>6, <1>7, <1>8, LoopValues
<1> QED BY <1>2, <1>5, <1>9 DEF R, Held

LEMMA ParensValue ==
  ASSUME NEW s \in Texts, NEW p, At(s, p), p.st = "Ok", ParseBalancedParens(p).st = "Ok"
  PROVE  ParseBalancedParens(p).val \in Texts /\ ParseBalancedParens(p).itemsLeft = p.itemsLeft
<1> DEFINE k == ConsumeByte(p, "(")
           w == ParensLoop(Yield(k, 1), p.pos)
<1>0. "(" # "EOF" /\ p.pos \in Nat /\ 1 <= p.pos
  BY DEF At
<1>1. ParseBalancedParens(p) = Chain(k, w)
  BY DEF ParseBalancedParens, Then, Chain, ParensLoop
<1>2. At(s, k) /\ k.itemsLeft = p.itemsLeft
  BY <1>0, ConsumeByteFacts, ConsumeByteKeeps
<1> HIDE DEF k
<1>3. At(s, Yield(k, 1)) /\ Yield(k, 1).itemsLeft = p.itemsLeft /\ Yield(k, 1).val \in Nat
  BY <1>2, YieldAt, YieldFacts DEF At
<1>4. w.st = "Ok" /\ ParseBalancedParens(p) = w
  <2> HIDE DEF w
  <2> QED BY <1>1, ChainOk
<1> QED BY <1>0, <1>3, <1>4, ParensLoopValue

LEMMA FlagValue ==
  ASSUME NEW s \in Texts, NEW p, At(s, p), p.st = "Ok", ParseFlagOrAtom(p).st = "Ok"
  PROVE  ParseFlagOrAtom(p).val \in Texts /\ ParseFlagOrAtom(p).itemsLeft = p.itemsLeft
<1> DEFINE x == TryConsumeByte(p, "BS")
           z == TryConsumeByte(x, "*")
           r == ScanTo(x, AtomSpecials)
           a == ParseFlagOrAtom(p)
<1>0. Size(s) \in Nat /\ p.pos \in Nat /\ p.pos <= Size(s) + 1 /\ 1 <= p.pos
  BY DEF Texts, Size, At
<1>1. At(s, x) /\ x.st = "Ok" /\ x.pos >= p.pos /\ x.pos \in Nat
  BY TryConsumeFacts DEF At
<1>2. a = IF x.pos > p.pos /\ z.pos > x.pos THEN FromUtf8(z, Taken(z, p.pos))
          ELSE IF r.pos = p.pos /\ ~IsEof(r) THEN Fail(r, "Malformed") ELSE ScannedText(r, p.pos)
  BY DEF ParseFlagOrAtom
<1> HIDE DEF x, a
<1>3. At(s, z) /\ z.st = "Ok"
  BY <1>1, TryConsumeFacts
<1>4. At(s, r) /\ r.st = "Ok" /\ r.pos \in x.pos .. Size(s) + 1 /\ IsParser(r)
  BY <1>1, ScanFacts DEF At
<1> HIDE DEF z, r
<1>5. p.pos <= r.pos /\ a.st = "Ok"
  BY <1>0, <1>1, <1>4 DEF a
<1>6. Taken(z, p.pos) \in Texts /\ Taken(r, p.pos) \in Texts
  BY <1>0, <1>3, <1>4, TakenValue
<1>7. a.val \in {Taken(z, p.pos), Taken(r, p.pos)}
  <2>1. CASE x.pos > p.pos /\ z.pos > x.pos
    BY <1>2, <1>3, <1>5, <2>1, FromUtf8Facts
  <2>2. CASE ~(x.pos > p.pos /\ z.pos > x.pos)
    <3>1. Fail(r, "Malformed").st # "Ok"
      BY <1>4, FailFacts
    <3>2. a = ScannedText(r, p.pos)
      BY <1>2, <1>5, <2>2, <3>1
    <3> QED BY <1>0, <1>4, <1>5, <3>2, ScannedFacts
  <2> QED BY <2>1, <2>2
<1> QED BY <1>6, <1>7, FlagFacts DEF a

\* An item joins its list and is charged.
LEMMA PushValue ==
  ASSUME NEW s, NEW a, At(s, a), a.st = "Ok", NEW l, NEW v, PushItem(a, l, v).st = "Ok"
  PROVE  /\ At(s, PushItem(a, l, v)) /\ PushItem(a, l, v).itemsLeft + 1 = a.itemsLeft
         /\ PushItem(a, l, v).val = Append(l, v)
<1>1. a.itemsLeft \in Nat /\ a.itemsLeft # 0
  BY PushItemFacts DEF At
<1> QED BY <1>1, PushItemFacts

LEMMA ItemEndValue ==
  ASSUME NEW s, NEW b, At(s, b), b.st = "Ok"
  PROVE  ItemEnd(b).st \in Going => ItemEnd(b).itemsLeft = b.itemsLeft /\ ItemEnd(b).val = b.val
<1>1. IsParser(b) /\ IsParser(Advance(b, 1)) /\ Advance(b, 1).itemsLeft = b.itemsLeft /\ Advance(b, 1).val = b.val
  BY AdvanceFacts DEF At
<1>2. ItemEnd(b) \in {Fail(b, "Incomplete"), Fail(b, "Malformed"), GoOn(Advance(b, 1)), Advance(b, 1)}
  BY DEF ItemEnd
<1>3. Fail(b, "Incomplete").st \notin Going /\ Fail(b, "Malformed").st \notin Going
  BY <1>1, FailFacts DEF Going
<1>4. GoOn(Advance(b, 1)).itemsLeft = b.itemsLeft /\ GoOn(Advance(b, 1)).val = b.val
  BY <1>1, GoOnFacts
<1> QED BY <1>1, <1>2, <1>3, <1>4

LEMMA ItemEndsValue ==
  ASSUME NEW s, NEW a, At(s, a), a.st # "More", NEW l, ItemEnds(a, l).st \in Going
  PROVE  a.st = "Ok" /\ ItemEnds(a, l).itemsLeft + 1 = a.itemsLeft /\ ItemEnds(a, l).val = Append(l, a.val)
<1> DEFINE b == PushItem(a, l, a.val)
<1>1. ItemEnds(a, l) = Chain(a, Chain(b, ItemEnd(b)))
  BY ItemEndsIs
<1>2. a.st = "Ok"
  BY <1>1 DEF Chain, Going
<1>3. b.st \in {"Ok", "TooManyItems"}
  BY <1>2, PushItemFacts
<1>4. b.st = "Ok"
  BY <1>1, <1>2, <1>3 DEF Chain, Going
<1>5. At(s, b) /\ b.itemsLeft + 1 = a.itemsLeft /\ b.val = Append(l, a.val)
  BY <1>2, <1>4, PushValue
<1>6. ItemEnds(a, l) = ItemEnd(b)
  BY <1>1, <1>2, <1>4 DEF Chain
<1> HIDE DEF b
<1> QED BY <1>2, <1>4, <1>5, <1>6, ItemEndValue

\* g is the charge of the first items of a list: one for each, and its own weight.
Charge(g, l, w) ==
  /\ g \in [0 .. Len(l) -> Nat] /\ g[0] = 0
  /\ \A k \in 1 .. Len(l) : g[k] = g[k - 1] + 1 + w[l[k]]

LEMMA ChargeGrows ==
  ASSUME NEW V, NEW w \in [V -> Nat], NEW l \in Seq(V), NEW g, Charge(g, l, w), NEW v \in V
  PROVE  \E h : Charge(h, Append(l, v), w) /\ h[Len(Append(l, v))] = g[Len(l)] + 1 + w[v]
<1> DEFINE m == Append(l, v)
           h == [k \in 0 .. Len(m) |-> IF k <= Len(l) THEN g[k] ELSE g[Len(l)] + 1 + w[v]]
<1>1. Len(l) \in Nat /\ m \in Seq(V) /\ Len(m) = Len(l) + 1 /\ m[Len(m)] = v /\ \A k \in 1 .. Len(l) : m[k] = l[k]
  OBVIOUS
<1>2. w[v] \in Nat /\ g[Len(l)] \in Nat /\ g \in [0 .. Len(l) -> Nat] /\ g[0] = 0
  BY <1>1 DEF Charge
<1> HIDE DEF m
<1>3. h \in [0 .. Len(m) -> Nat] /\ h[0] = 0
  BY <1>1, <1>2
<1>4. ASSUME NEW k \in 1 .. Len(m) PROVE h[k] = h[k - 1] + 1 + w[m[k]]
  <2>1. CASE k <= Len(l)
    <3>1. k \in 1 .. Len(l) /\ k - 1 \in 0 .. Len(m) /\ k \in 0 .. Len(m) /\ k - 1 <= Len(l)
      BY <1>1, <1>4, <2>1
    <3>2. h[k] = g[k] /\ h[k - 1] = g[k - 1] /\ m[k] = l[k]
      BY <1>1, <2>1, <3>1
    <3>3. g[k] = g[k - 1] + 1 + w[l[k]]
      BY <3>1 DEF Charge
    <3> QED BY <3>2, <3>3
  <2>2. CASE k = Len(m)
    <3>1. ~(k <= Len(l)) /\ k - 1 = Len(l) /\ k \in 0 .. Len(m) /\ k - 1 \in 0 .. Len(m)
      BY <1>1, <2>2
    <3>2. h[k] = g[Len(l)] + 1 + w[v] /\ h[k - 1] = g[Len(l)]
      BY <1>1, <3>1
    <3> QED BY <1>1, <2>2, <3>2
  <2> QED BY <1>1, <1>4, <2>1, <2>2
<1>5. h[Len(m)] = g[Len(l)] + 1 + w[v]
  BY <1>1
<1> HIDE DEF h
<1>6. Charge(h, m, w)
  BY <1>3, <1>4 DEF Charge
<1> QED BY <1>5, <1>6 DEF m

\* A turn reads an item of V, which is charged its weight.
Lists(s, kind, i, V, w) ==
  \A x : At(s, x) /\ x.st = "Ok" =>
    \E a : /\ At(s, a) /\ a.st # "More" /\ LoopTurn(kind, i, x) = ItemEnds(a, x.val)
           /\ a.st = "Ok" => a.val \in V /\ a.itemsLeft + w[a.val] <= x.itemsLeft

\* What is left of a budget of b once a list of V has been charged to it.
Spent(V, w, b) ==
  {h \in Nat \X Seq(V) :
     /\ h[1] + Len(h[2]) <= b
     /\ \E g : Charge(g, h[2], w) /\ g[Len(h[2])] + h[1] <= b}

LEMMA NothingSpent ==
  ASSUME NEW V, NEW w \in [V -> Nat], NEW b \in Nat
  PROVE  <<b, <<>>>> \in Spent(V, w, b)
<1> DEFINE g == [k \in 0 .. 0 |-> 0]
<1>1. <<>> \in Seq(V) /\ Len(<<>>) = 0
  OBVIOUS
<1>2. Charge(g, <<>>, w) /\ g[0] = 0
  BY <1>1 DEF Charge
<1>3. g[Len(<<>>)] + b <= b /\ b + Len(<<>>) <= b
  BY <1>1, <1>2
<1> HIDE DEF g
<1>4. PICK e : e = <<>>
  OBVIOUS
<1>5. <<b, e>> \in Nat \X Seq(V) /\ b + Len(e) <= b /\ Charge(g, e, w) /\ g[Len(e)] + b <= b
  BY <1>1, <1>2, <1>3, <1>4
<1>6. <<b, e>> \in Spent(V, w, b)
  BY <1>5 DEF Spent
<1> QED BY <1>4, <1>6

LEMMA SpentMore ==
  ASSUME NEW V, NEW w \in [V -> Nat], NEW b \in Nat, NEW c, NEW l, <<c, l>> \in Spent(V, w, b),
         NEW v \in V, NEW d \in Nat, d + 1 + w[v] <= c
  PROVE  <<d, Append(l, v)>> \in Spent(V, w, b)
<1>1. c \in Nat /\ l \in Seq(V) /\ c + Len(l) <= b
  BY DEF Spent
<1>2. PICK g : Charge(g, l, w) /\ g[Len(l)] + c <= b
  BY DEF Spent
<1>3. PICK h : Charge(h, Append(l, v), w) /\ h[Len(Append(l, v))] = g[Len(l)] + 1 + w[v]
  BY <1>1, <1>2, ChargeGrows
<1>4. PICK m : m = Append(l, v)
  OBVIOUS
<1>a. Len(l) \in 0 .. Len(l) /\ Len(l) \in Nat
  BY <1>1
<1>b. g[Len(l)] \in Nat
  BY <1>2, <1>a DEF Charge
<1>5. m \in Seq(V) /\ Len(m) = Len(l) + 1 /\ Len(l) \in Nat /\ w[v] \in Nat /\ g[Len(l)] \in Nat
  BY <1>1, <1>4, <1>a, <1>b
<1>6. d + Len(m) <= b /\ h[Len(m)] + d <= b
  <2>1. PICK u, k, x : u = g[Len(l)] /\ k = Len(l) /\ x = w[v]
    OBVIOUS
  <2>2. u \in Nat /\ k \in Nat /\ x \in Nat /\ u + c <= b /\ c + k <= b /\ d + 1 + x <= c
    BY <1>1, <1>2, <1>5, <2>1
  <2>3. Len(m) = k + 1 /\ h[Len(m)] = u + 1 + x
    BY <1>3, <1>4, <1>5, <2>1
  <2> QED BY <1>1, <2>2, <2>3
<1> QED BY <1>3, <1>4, <1>5, <1>6 DEF Spent

LEMMA ListLoopValue ==
  ASSUME NEW s \in Texts, NEW p, At(s, p), NEW kind, NEW i, NEW n, n = Size(s) + 1,
         NEW f, Runs(f, kind, i, p, n), p.val = <<>>, NEW V, NEW w \in [V -> Nat],
         \A x : At(s, x) /\ x.st = "Ok" => Turned(s, x, LoopTurn(kind, i, x)),
         Lists(s, kind, i, V, w)
  PROVE  f[n].st = "Ok" => Held(f[n]) \in Spent(V, w, p.itemsLeft)
<1>0. Size(s) \in Nat /\ p.itemsLeft \in Nat
  BY DEF Texts, Size, At
<1>1. PICK S : S = Spent(V, w, p.itemsLeft)
  OBVIOUS
<1>2. Held(p) \in S
  BY <1>0, <1>1, NothingSpent DEF Held
<1>3. ASSUME NEW x, At(s, x), x.st = "Ok", Held(x) \in S, LoopTurn(kind, i, x).st \in Going
      PROVE  Held(LoopTurn(kind, i, x)) \in S
  <2>1. PICK a : /\ At(s, a) /\ a.st # "More" /\ LoopTurn(kind, i, x) = ItemEnds(a, x.val)
                 /\ a.st = "Ok" => a.val \in V /\ a.itemsLeft + w[a.val] <= x.itemsLeft
    BY <1>3 DEF Lists
  <2>2. PICK y : y = ItemEnds(a, x.val)
    OBVIOUS
  <2>3. a.st = "Ok" /\ y.itemsLeft + 1 = a.itemsLeft /\ y.val = Append(x.val, a.val)
    BY <1>3, <2>1, <2>2, ItemEndsValue
  <2>4. At(s, y)
    BY <1>3, <2>1, <2>2 DEF Turned, Moves
  <2>5. y.itemsLeft \in Nat /\ a.itemsLeft \in Nat /\ x.itemsLeft \in Nat /\ a.val \in V /\ w[a.val] \in Nat
    BY <1>3, <2>1, <2>3, <2>4 DEF At
  <2>6. y.itemsLeft + 1 + w[a.val] <= x.itemsLeft
    BY <2>1, <2>3, <2>5
  <2>7. <<x.itemsLeft, x.val>> \in Spent(V, w, p.itemsLeft)
    BY <1>1, <1>3 DEF Held
  <2>8. <<y.itemsLeft, Append(x.val, a.val)>> \in Spent(V, w, p.itemsLeft)
    BY <1>0, <2>5, <2>6, <2>7, SpentMore
  <2> QED BY <1>1, <2>1, <2>2, <2>3, <2>8 DEF Held
<1>4. Keeps(s, kind, i, S, S)
  BY <1>3 DEF Keeps, Going
<1>5. f[n].st = "Ok" => Held(f[n]) \in S
  BY <1>0, <1>2, <1>4, LoopValues
<1> QED BY <1>1, <1>5

LEMMA ListTailValue ==
  ASSUME NEW s \in Texts, NEW k, At(s, k), k.st = "Ok", NEW V, NEW w \in [V -> Nat], NEW a,
         a.st = "Ok" => Held(a) \in Spent(V, w, k.itemsLeft), ListTail(k, a).st = "Ok"
  PROVE  Held(ListTail(k, a)) \in Spent(V, w, k.itemsLeft)
<1>1. IsParser(k) /\ k.itemsLeft \in Nat
  BY DEF At
<1>2. CASE Peek(k) = ")"
  <2>1. ListTail(k, a) = Yield(Advance(k, 1), <<>>)
    BY <1>2 DEF ListTail
  <2>2. Held(ListTail(k, a)) = <<k.itemsLeft, <<>>>>
    BY <1>1, <2>1, AdvanceFacts, YieldFacts DEF Held
  <2> QED BY <1>1, <2>2, NothingSpent
<1>3. CASE Peek(k) # ")"
  BY <1>3 DEF ListTail
<1> QED BY <1>2, <1>3

\* A list that is charged for its items only.
Light(V) == [v \in V |-> 0]

LEMMA LightSpent ==
  ASSUME NEW V, NEW b, NEW h, h \in Spent(V, Light(V), b)
  PROVE  h[1] \in Nat /\ h[2] \in Seq(V) /\ h[1] + Len(h[2]) <= b
BY DEF Spent

LEMMA FlagsLoopValue ==
  ASSUME NEW s \in Texts, NEW p, At(s, p), p.val = <<>>, NEW i, FlagsLoop(p, i).st = "Ok"
  PROVE  Held(FlagsLoop(p, i)) \in Spent(Texts, Light(Texts), p.itemsLeft)
<1>1. Size(s) \in Nat
  BY DEF Texts, Size
<1>2. PICK f : Runs(f, "flags", i, p, Size(s) + 1) /\ FlagsLoop(p, i) = f[Size(s) + 1]
  BY <1>1, FlagsRuns
<1>3. \A x : LoopTurn("flags", i, x) = ItemEnds(ParseFlagOrAtom(x), x.val)
  BY DEF LoopTurn
<1>4. \A x : At(s, x) /\ x.st = "Ok" => Turned(s, x, LoopTurn("flags", i, x))
  BY <1>1, <1>3, FlagTurnFacts
<1>5. PICK n : n = Size(s) + 1
  OBVIOUS
<1>6. PICK w : w = Light(Texts)
  OBVIOUS
<1>7. w \in [Texts -> Nat] /\ \A v \in Texts : w[v] = 0
  BY <1>6 DEF Light
<1>8. Lists(s, "flags", i, Texts, w)
  <2> SUFFICES ASSUME NEW x, At(s, x), x.st = "Ok"
               PROVE  \E a : /\ At(s, a) /\ a.st # "More" /\ LoopTurn("flags", i, x) = ItemEnds(a, x.val)
                             /\ a.st = "Ok" => a.val \in Texts /\ a.itemsLeft + w[a.val] <= x.itemsLeft
    BY DEF Lists
  <2>1. PICK a : a = ParseFlagOrAtom(x)
    OBVIOUS
  <2>2. At(s, a) /\ a.st # "More" /\ x.itemsLeft \in Nat
    BY <2>1, FlagFacts, EatsFacts DEF At
  <2>3. a.st = "Ok" => a.val \in Texts /\ a.itemsLeft = x.itemsLeft
    BY <2>1, FlagValue
  <2> QED BY <1>3, <1>7, <2>1, <2>2, <2>3
<1>9. f[n].st = "Ok" => Held(f[n]) \in Spent(Texts, w, p.itemsLeft)
  BY <1>2, <1>4, <1>5, <1>7, <1>8, ListLoopValue
<1> QED BY <1>2, <1>5, <1>6, <1>9

LEMMA AtomListValue ==
  ASSUME NEW s \in Texts, NEW p, At(s, p), p.st = "Ok", ParseParenAtomList(p).st = "Ok"
  PROVE  /\ ParseParenAtomList(p).val \in Seq(Texts) /\ ParseParenAtomList(p).itemsLeft \in Nat
         /\ ParseParenAtomList(p).itemsLeft + Len(ParseParenAtomList(p).val) <= p.itemsLeft
<1> DEFINE k == ConsumeByte(p, "(")
           w == FlagsLoop(Yield(k, <<>>), 0)
<1>0. "(" # "EOF"
  OBVIOUS
<1>1. ParseParenAtomList(p) = Chain(k, ListTail(k, w))
  BY DEF ParseParenAtomList, ParenList, Then, Chain, ListTail, FlagsLoop
<1>2. At(s, k) /\ k.itemsLeft = p.itemsLeft
  BY <1>0, ConsumeByteFacts, ConsumeByteKeeps
<1> HIDE DEF k
<1>3. k.st = "Ok" /\ ListTail(k, w).st = "Ok" /\ ParseParenAtomList(p) = ListTail(k, w)
  <2> HIDE DEF w
  <2> QED BY <1>1, ChainOk
<1>4. At(s, Yield(k, <<>>)) /\ Yield(k, <<>>).itemsLeft = k.itemsLeft /\ Yield(k, <<>>).val = <<>>
  BY <1>2, YieldAt, YieldFacts DEF At
<1>5. w.st = "Ok" => Held(w) \in Spent(Texts, Light(Texts), k.itemsLeft)
  BY <1>4, FlagsLoopValue
<1> HIDE DEF w
<1>6. Light(Texts) \in [Texts -> Nat]
  BY DEF Light
<1>7. Held(ListTail(k, w)) \in Spent(Texts, Light(Texts), k.itemsLeft)
  BY <1>2, <1>3, <1>5, <1>6, ListTailValue
<1> QED BY <1>2, <1>3, <1>7, LightSpent DEF Held

LEMMA SpacedOk ==
  ASSUME NEW s \in Texts, NEW p, At(s, p), NEW c, Spaced(p, c).st = "Ok", p.st = "Ok"
  PROVE  /\ Spaced(p, c) = c /\ c.st = "Ok" /\ At(s, ConsumeSp(p)) /\ ConsumeSp(p).st = "Ok"
         /\ ConsumeSp(p).itemsLeft = p.itemsLeft
<1>1. At(s, ConsumeSp(p)) /\ ConsumeSp(p).itemsLeft = p.itemsLeft
  BY ConsumeSpFacts, EatsFacts, ConsumeByteKeeps DEF ConsumeSp
<1> QED BY <1>1, ChainOk DEF Spaced

\* None, or a number.
Origins == {<<>>} \cup {<<n>> : n \in Nat}

LEMMA OriginValue ==
  ASSUME NEW s \in Texts, NEW p, At(s, p), p.st = "Ok", Origin(p).st = "Ok"
  PROVE  Origin(p).val \in Origins /\ Origin(p).itemsLeft = p.itemsLeft
<1> DEFINE x == Advance(p, 1)
           a == ParseNumber(x)
           c == ConsumeByte(a, ">")
           v == <<a.val>>
<1>0. Size(s) \in Nat /\ IsParser(p) /\ ">" # "EOF"
  BY DEF Texts, Size, At
<1>1. CASE Peek(p) # "<"
  <2>1. Origin(p) = Yield(p, <<>>)
    BY <1>1 DEF Origin
  <2> QED BY <1>0, <2>1, YieldFacts DEF Origins
<1>2. CASE Peek(p) = "<"
  <2>1. Origin(p) = Chain(a, Revalued(c, v))
    BY <1>2 DEF Origin, NumberFirst
  <2>2. ~IsEof(p)
    BY <1>0, <1>2, PeekFacts
  <2>3. At(s, x) /\ x.st = "Ok" /\ x.itemsLeft = p.itemsLeft
    BY <1>0, <2>2, AdvanceOne
  <2> HIDE DEF x
  <2>4. At(s, a) /\ a.itemsLeft = p.itemsLeft /\ (a.st = "Ok" => a.val \in Nat)
    BY <2>3, ParseNumberFacts
  <2>5. a.st = "Ok" /\ Revalued(c, v).st = "Ok" /\ Origin(p) = Revalued(c, v)
    <3> HIDE DEF a, c, v
    <3> QED BY <2>1, ChainOk
  <2> HIDE DEF a
  <2>6. At(s, c) /\ c.itemsLeft = p.itemsLeft
    BY <1>0, <2>4, <2>5, ConsumeByteFacts, ConsumeByteKeeps
  <2>7. v \in Origins
    BY <2>4, <2>5 DEF Origins
  <2> HIDE DEF c, v
  <2> QED BY <2>5, <2>6, <2>7, RevaluedOk
<1> QED BY <1>1, <1>2

LEMMA BracketValue ==
  ASSUME NEW s \in Texts, NEW p, At(s, p), p.st = "Ok", Bracket(p).st = "Ok"
  PROVE  Bracket(p).val \in Origins /\ Bracket(p).itemsLeft = p.itemsLeft
<1> DEFINE c == ConsumeByte(p, "]")
<1>0. "]" # "EOF"
  OBVIOUS
<1>1. At(s, c) /\ c.itemsLeft = p.itemsLeft
  BY <1>0, ConsumeByteFacts, ConsumeByteKeeps
<1>2. c.st = "Ok" /\ Bracket(p) = Origin(c) /\ Origin(c).st = "Ok"
  BY ChainOk DEF Bracket
<1> QED BY <1>1, <1>2, OriginValue

LEMMA BytesAfterSpValue ==
  ASSUME NEW s \in Texts, NEW p, At(s, p), p.st = "Ok", BytesAfterSp(p).st = "Ok"
  PROVE  BytesAfterSp(p).val \in Options /\ BytesAfterSp(p).itemsLeft = p.itemsLeft
<1>1. /\ BytesAfterSp(p) = ParseNstringBytes(ConsumeSp(p)) /\ BytesAfterSp(p).st = "Ok"
      /\ At(s, ConsumeSp(p)) /\ ConsumeSp(p).st = "Ok" /\ ConsumeSp(p).itemsLeft = p.itemsLeft
  BY SpacedOk DEF BytesAfterSp
<1> QED BY <1>1, NstringBytesValue

\* The attributes of FETCH: a section of the message, or a name and its value.
SectionItems == [att : {"BODY[]"}, section : Texts, origin : Origins, data : Options]
FetchData(word) == IF word \in NumberNames THEN Nat ELSE IF word = "FLAGS" THEN Seq(Texts) ELSE Texts
NamedItems == UNION {[att : {word}, data : FetchData(word)] : word \in FetchNames}
FetchItems == SectionItems \cup NamedItems

\* The flags of an attribute are charged to the budget as well.
FetchWeight == [a \in FetchItems |-> IF a.att = "FLAGS" THEN Len(a.data) ELSE 0]

LEMMA FetchItemKinds ==
  /\ \A a \in SectionItems : a.att = "BODY[]" /\ a \in FetchItems /\ FetchWeight[a] = 0
  /\ \A word \in FetchNames : \A d \in FetchData(word) :
       /\ [att |-> word, data |-> d] \in FetchItems
       /\ FetchWeight[[att |-> word, data |-> d]] = IF word = "FLAGS" THEN Len(d) ELSE 0
  /\ FetchWeight \in [FetchItems -> Nat]
<1>1. ASSUME NEW a \in SectionItems PROVE a.att = "BODY[]" /\ a \in FetchItems /\ FetchWeight[a] = 0
  BY DEF SectionItems, FetchItems, FetchWeight
<1>2. ASSUME NEW word \in FetchNames, NEW d \in FetchData(word)
      PROVE  /\ [att |-> word, data |-> d] \in FetchItems
             /\ FetchWeight[[att |-> word, data |-> d]] = IF word = "FLAGS" THEN Len(d) ELSE 0
  <2>1. [att |-> word, data |-> d] \in [att : {word}, data : FetchData(word)]
    OBVIOUS
  <2>2. [att |-> word, data |-> d] \in FetchItems
    BY <2>1 DEF NamedItems, FetchItems
  <2> QED BY <2>2 DEF FetchWeight
<1>3. ASSUME NEW a \in FetchItems PROVE (IF a.att = "FLAGS" THEN Len(a.data) ELSE 0) \in Nat
  <2>1. CASE a \in SectionItems
    <3>1. a.att # "FLAGS"
      BY <1>1, <2>1
    <3> QED BY <3>1
  <2>2. CASE a \in NamedItems
    <3>1. PICK word \in FetchNames : a \in [att : {word}, data : FetchData(word)]
      BY <2>2 DEF NamedItems
    <3>2. a.att = "FLAGS" => a.data \in Seq(Texts)
      BY <3>1 DEF FetchData, NumberNames
    <3> QED BY <3>2
  <2> QED BY <2>1, <2>2 DEF FetchItems
<1>4. FetchWeight \in [FetchItems -> Nat]
  BY <1>3 DEF FetchWeight
<1> QED BY <1>1, <1>2, <1>4

LEMMA BodySectionValue ==
  ASSUME NEW s \in Texts, NEW p, At(s, p), p.st = "Ok", ParseBodySection(p).st = "Ok"
  PROVE  ParseBodySection(p).val \in SectionItems /\ ParseBodySection(p).itemsLeft = p.itemsLeft
<1> DEFINE a == ReadUntilByte(p, "]")
           b == Bracket(a)
           c == BytesAfterSp(b)
           v == [att |-> "BODY[]", section |-> a.val, origin |-> b.val, data |-> c.val]
<1>1. Eats(s, p, a) /\ (a.st = "Ok" => a.val \in Texts /\ a.itemsLeft = p.itemsLeft)
  BY ReadUntilEats, ReadUntilValue
<1>2. a.st = "Ok" => Eats(s, a, b) /\ (b.st = "Ok" => b.val \in Origins /\ b.itemsLeft = a.itemsLeft)
  BY <1>1, EatsFacts, BracketFacts, BracketValue
<1>3. a.st = "Ok" /\ b.st = "Ok" => Eats(s, b, c) /\ (c.st = "Ok" => c.val \in Options /\ c.itemsLeft = b.itemsLeft)
  BY <1>2, EatsFacts, BytesAfterSpFacts, BytesAfterSpValue
<1>4. ParseBodySection(p) = Chain(a, Chain(b, Revalued(c, v)))
  BY DEF ParseBodySection, Then, Chain, Revalued, Bracket, Origin, NumberFirst, BytesAfterSp, Spaced
<1> HIDE DEF a, b, c
<1>5. a.val \in Texts /\ b.val \in Origins /\ c.val \in Options => v \in SectionItems
  BY DEF SectionItems
<1> HIDE DEF v
<1>6. a.st = "Ok" /\ b.st = "Ok" /\ Revalued(c, v).st = "Ok" /\ ParseBodySection(p) = Revalued(c, v)
  BY <1>4, ChainOk
<1>7. At(s, c)
  BY <1>3, <1>6, EatsFacts
<1> QED BY <1>1, <1>2, <1>3, <1>5, <1>6, <1>7, RevaluedOk

LEMMA FetchBytesValue ==
  ASSUME NEW v \in Options PROVE FetchBytes(v) \in Texts
BY DEF FetchBytes, Options, Texts

LEMMA FetchValueValue ==
  ASSUME NEW s \in Texts, NEW p, At(s, p), p.st = "Ok", NEW word \in FetchNames, FetchValue(word, p).st = "Ok"
  PROVE  /\ FetchValue(word, p).val \in FetchData(word)
         /\ word # "FLAGS" => FetchValue(word, p).itemsLeft = p.itemsLeft
         /\ word = "FLAGS" => FetchValue(word, p).itemsLeft + Len(FetchValue(word, p).val) <= p.itemsLeft
<1>0. p.itemsLeft \in Nat
  BY DEF At
<1>1. CASE word \in NumberNames
  <2>1. word # "FLAGS" /\ FetchData(word) = Nat
    BY <1>1 DEF NumberNames, FetchData
  <2> QED BY <1>1, <2>1, FetchValueIs, ParseNumberFacts
<1>2. CASE word = "FLAGS"
  <2>1. FetchData(word) = Seq(Texts)
    BY <1>2 DEF NumberNames, FetchData
  <2> QED BY <1>2, <2>1, FetchValueIs, AtomListValue
<1>3. CASE word = "INTERNALDATE"
  <2>1. word # "FLAGS" /\ FetchData(word) = Texts
    BY <1>3 DEF NumberNames, FetchData
  <2> QED BY <1>3, <2>1, FetchValueIs, QuotedValue
<1>4. CASE word \in TextNames
  <2>1. word # "FLAGS" /\ FetchData(word) = Texts
    BY <1>4 DEF NumberNames, TextNames, FetchData
  <2>2. PICK a, v : a = ParseNstringBytes(p) /\ v = FetchBytes(a.val)
    OBVIOUS
  <2>3. FetchValue(word, p) = Revalued(a, v)
    BY <1>4, <2>2, FetchValueIs
  <2>4. At(s, a)
    BY <2>2, NstringBytesFacts, EatsFacts
  <2>5. a.st = "Ok" /\ Revalued(a, v).val = v /\ Revalued(a, v).itemsLeft = a.itemsLeft
    BY <2>3, <2>4, RevaluedOk
  <2>6. a.val \in Options /\ a.itemsLeft = p.itemsLeft
    BY <2>2, <2>5, NstringBytesValue
  <2> QED BY <2>1, <2>2, <2>3, <2>5, <2>6, FetchBytesValue
<1>5. CASE word \in TreeNames
  <2>1. word # "FLAGS" /\ FetchData(word) = Texts
    BY <1>5 DEF NumberNames, TreeNames, FetchData
  <2> QED BY <1>5, <2>1, FetchValueIs, ParensValue
<1> QED BY <1>1, <1>2, <1>3, <1>4, <1>5, FetchValueIs

LEMMA FetchNamedValue ==
  ASSUME NEW s \in Texts, NEW p, At(s, p), p.st = "Ok", NEW word \in FetchNames, FetchNamed(p, word).st = "Ok"
  PROVE  /\ FetchNamed(p, word).val \in FetchItems
         /\ FetchNamed(p, word).itemsLeft + FetchWeight[FetchNamed(p, word).val] <= p.itemsLeft
<1> DEFINE a == FetchValue(word, ConsumeSp(p))
           v == [att |-> word, data |-> a.val]
<1>1. FetchNamed(p, word) = Spaced(p, Revalued(a, v))
  BY DEF FetchNamed
<1>2. /\ FetchNamed(p, word) = Revalued(a, v) /\ Revalued(a, v).st = "Ok"
      /\ At(s, ConsumeSp(p)) /\ ConsumeSp(p).st = "Ok" /\ ConsumeSp(p).itemsLeft = p.itemsLeft
  <2> HIDE DEF a, v
  <2> QED BY <1>1, SpacedOk
<1>3. At(s, a)
  BY <1>2, FetchValueFacts, EatsFacts
<1>4. a.st = "Ok" => /\ a.val \in FetchData(word)
                     /\ word # "FLAGS" => a.itemsLeft = p.itemsLeft
                     /\ word = "FLAGS" => a.itemsLeft + Len(a.val) <= p.itemsLeft
  BY <1>2, FetchValueValue
<1> HIDE DEF a
<1>5. a.val \in FetchData(word) => v \in FetchItems /\ FetchWeight[v] = IF word = "FLAGS" THEN Len(a.val) ELSE 0
  BY FetchItemKinds
<1> HIDE DEF v
<1>6. a.st = "Ok" /\ Revalued(a, v).val = v /\ Revalued(a, v).itemsLeft = a.itemsLeft
  BY <1>2, <1>3, RevaluedOk
<1>7. p.itemsLeft \in Nat
  BY DEF At
<1> QED BY <1>2, <1>4, <1>5, <1>6, <1>7

LEMMA OneFetchValue ==
  ASSUME NEW s \in Texts, NEW p, At(s, p), p.st = "Ok", ParseOneFetchAtt(p).st = "Ok"
  PROVE  /\ ParseOneFetchAtt(p).val \in FetchItems
         /\ ParseOneFetchAtt(p).itemsLeft + FetchWeight[ParseOneFetchAtt(p).val] <= p.itemsLeft
<1> DEFINE a == ParseFetchAttName(p)
<1>1. ParseOneFetchAtt(p) = Chain(a, FetchTail(a))
  BY OneFetchIs
<1>2. Eats(s, p, a) /\ (a.st = "Ok" => a.itemsLeft = p.itemsLeft /\ a.pos <= Size(s))
  BY FetchNameFacts, TokenValue DEF ParseFetchAttName
<1> HIDE DEF a
<1>3. a.st = "Ok" /\ FetchTail(a).st = "Ok" /\ ParseOneFetchAtt(p) = FetchTail(a)
  BY <1>1, ChainOk
<1>4. At(s, a) /\ a.itemsLeft = p.itemsLeft /\ p.itemsLeft \in Nat /\ IsParser(a) /\ Size(s) \in Nat
  BY <1>2, <1>3, EatsFacts DEF At, Texts, Size
<1>5. CASE a.val = <<"BODY">> /\ Peek(a) = "["
  <2>1. ~IsEof(a) /\ FetchTail(a) = ParseBodySection(Advance(a, 1))
    BY <1>4, <1>5, PeekFacts DEF FetchTail
  <2>2. At(s, Advance(a, 1)) /\ Advance(a, 1).st = "Ok" /\ Advance(a, 1).itemsLeft = a.itemsLeft
    BY <1>3, <1>4, <2>1, AdvanceOne
  <2>3. FetchTail(a).val \in SectionItems /\ FetchTail(a).itemsLeft = a.itemsLeft
    BY <1>3, <2>1, <2>2, BodySectionValue
  <2> QED BY <1>3, <1>4, <2>3, FetchItemKinds
<1>6. CASE ~(a.val = <<"BODY">> /\ Peek(a) = "[") /\ Len(a.val) = 1 /\ a.val[1] \in FetchNames
  <2>1. FetchTail(a) = FetchNamed(a, a.val[1])
    BY <1>6 DEF FetchTail
  <2> QED BY <1>3, <1>4, <1>6, <2>1, FetchNamedValue
<1>7. CASE ~(a.val = <<"BODY">> /\ Peek(a) = "[") /\ ~(Len(a.val) = 1 /\ a.val[1] \in FetchNames)
  <2>1. FetchTail(a) = Fail(a, "Malformed")
    BY <1>7 DEF FetchTail
  <2> QED BY <1>3, <1>4, <2>1, FailFacts
<1> QED BY <1>5, <1>6, <1>7

LEMMA FetchLoopValue ==
  ASSUME NEW s \in Texts, NEW p, At(s, p), p.val = <<>>, NEW i, FetchLoop(p, i).st = "Ok"
  PROVE  Held(FetchLoop(p, i)) \in Spent(FetchItems, FetchWeight, p.itemsLeft)
<1>1. Size(s) \in Nat
  BY DEF Texts, Size
<1>2. PICK f : Runs(f, "fetch", i, p, Size(s) + 1) /\ FetchLoop(p, i) = f[Size(s) + 1]
  BY <1>1, FetchRuns
<1>3. \A x : LoopTurn("fetch", i, x) = ItemEnds(ParseOneFetchAtt(x), x.val)
  BY DEF LoopTurn
<1>4. \A x : At(s, x) /\ x.st = "Ok" => Turned(s, x, LoopTurn("fetch", i, x))
  BY <1>1, <1>3, FetchTurnFacts
<1>5. PICK n : n = Size(s) + 1
  OBVIOUS
<1>6. Lists(s, "fetch", i, FetchItems, FetchWeight)
  <2> SUFFICES ASSUME NEW x, At(s, x), x.st = "Ok"
               PROVE  \E a : /\ At(s, a) /\ a.st # "More" /\ LoopTurn("fetch", i, x) = ItemEnds(a, x.val)
                             /\ a.st = "Ok" => a.val \in FetchItems /\ a.itemsLeft + FetchWeight[a.val] <= x.itemsLeft
    BY DEF Lists
  <2>1. PICK a : a = ParseOneFetchAtt(x)
    OBVIOUS
  <2>2. At(s, a) /\ a.st # "More"
    BY <2>1, OneFetchFacts, EatsFacts
  <2>3. a.st = "Ok" => a.val \in FetchItems /\ a.itemsLeft + FetchWeight[a.val] <= x.itemsLeft
    BY <2>1, OneFetchValue
  <2> QED BY <1>3, <2>1, <2>2, <2>3
<1>7. FetchWeight \in [FetchItems -> Nat]
  BY FetchItemKinds
<1>8. f[n].st = "Ok" => Held(f[n]) \in Spent(FetchItems, FetchWeight, p.itemsLeft)
  BY <1>2, <1>4, <1>5, <1>6, <1>7, ListLoopValue
<1> QED BY <1>2, <1>5, <1>8

LEMMA FetchMsgAttValue ==
  ASSUME NEW s \in Texts, NEW p, At(s, p), p.st = "Ok", ParseFetchMsgAtt(p).st = "Ok"
  PROVE  Held(ParseFetchMsgAtt(p)) \in Spent(FetchItems, FetchWeight, p.itemsLeft)
<1> DEFINE k == ConsumeByte(p, "(")
           w == FetchLoop(Yield(k, <<>>), 0)
<1>0. "(" # "EOF"
  OBVIOUS
<1>1. ParseFetchMsgAtt(p) = Chain(k, ListTail(k, w))
  BY DEF ParseFetchMsgAtt, ParenList, Then, Chain, ListTail, FetchLoop
<1>2. At(s, k) /\ k.itemsLeft = p.itemsLeft
  BY <1>0, ConsumeByteFacts, ConsumeByteKeeps
<1> HIDE DEF k
<1>3. k.st = "Ok" /\ ListTail(k, w).st = "Ok" /\ ParseFetchMsgAtt(p) = ListTail(k, w)
  <2> HIDE DEF w
  <2> QED BY <1>1, ChainOk
<1>4. At(s, Yield(k, <<>>)) /\ Yield(k, <<>>).itemsLeft = k.itemsLeft /\ Yield(k, <<>>).val = <<>>
  BY <1>2, YieldAt, YieldFacts DEF At
<1>5. w.st = "Ok" => Held(w) \in Spent(FetchItems, FetchWeight, k.itemsLeft)
  BY <1>4, FetchLoopValue
<1> HIDE DEF w
<1>6. FetchWeight \in [FetchItems -> Nat]
  BY FetchItemKinds
<1>7. Held(ListTail(k, w)) \in Spent(FetchItems, FetchWeight, k.itemsLeft)
  BY <1>2, <1>3, <1>5, <1>6, ListTailValue
<1> QED BY <1>2, <1>3, <1>7

-------------------------------------------------------------------------------
(* Where the data of a response comes from. *)

\* d is the data of a response of a kind, read by a production with the whole budget.
Shape(s, kind, d) ==
  \/ kind \in {"EXISTS", "RECENT", "EXPUNGE", "Other"}
  \/ \E p : /\ At(s, p) /\ p.st = "Ok" /\ p.itemsLeft = MaxItems
            /\ \/ kind = "Continue" /\ ParseRespText(p).st = "Ok" /\ d = ParseRespText(p).val
               \/ /\ kind = "Status" /\ ParseRespTextAfterKeyword(p).st = "Ok"
                  /\ d.text = ParseRespTextAfterKeyword(p).val
               \/ kind = "FETCH" /\ ParseFetchMsgAtt(p).st = "Ok" /\ d.attributes = ParseFetchMsgAtt(p).val
               \/ kind \in NamedBodies /\ NamedBody(p, kind).st = "Ok" /\ d = NamedBody(p, kind).val

Shaped(s, a) == a.st = "Ok" => Shape(s, a.val.kind, a.val.data)

LEMMA EndShaped ==
  ASSUME NEW s \in Texts, NEW a, At(s, a), NEW kind, a.st = "Ok" => Shape(s, kind, a.val)
  PROVE  Shaped(s, EndOfLine(a, kind))
<1> SUFFICES ASSUME EndOfLine(a, kind).st = "Ok" PROVE Shape(s, EndOfLine(a, kind).val.kind, EndOfLine(a, kind).val.data)
  BY DEF Shaped
<1>1. PICK c, v : c = ConsumeCrlf(a) /\ v = Response(kind, a.val)
  OBVIOUS
<1>2. EndOfLine(a, kind) = Chain(a, Revalued(c, v))
  BY <1>1, EndOfLineIs
<1>3. a.st = "Ok" /\ Revalued(c, v).st = "Ok" /\ EndOfLine(a, kind) = Revalued(c, v)
  BY <1>2, ChainOk
<1>4. At(s, c)
  BY <1>1, <1>3, CrlfEats, EatsFacts
<1>5. EndOfLine(a, kind).val = v
  BY <1>3, <1>4, RevaluedOk
<1>6. v.kind = kind /\ v.data = a.val
  BY <1>1 DEF Response
<1> QED BY <1>3, <1>5, <1>6

LEMMA ChainShaped ==
  ASSUME NEW s, NEW a, NEW c, a.st = "Ok" => Shaped(s, c)
  PROVE  Shaped(s, Chain(a, c))
BY DEF Shaped, Chain

LEMMA FailShaped ==
  ASSUME NEW s, NEW p, At(s, p), NEW e, e # "Ok"
  PROVE  Shaped(s, Fail(p, e))
BY FailFacts DEF Shaped, At

LEMMA OtherShaped ==
  ASSUME NEW s \in Texts, NEW p, At(s, p), p.st = "Ok", NEW i
  PROVE  Shaped(s, FinishOther(p, i))
<1>1. PICK q, a : q = ScanTo(p, {"CR"}) /\ a = Yield(q, Taken(q, i))
  OBVIOUS
<1>2. At(s, a)
  BY <1>1, ScanFacts, YieldAt
<1>3. FinishOther(p, i) = EndOfLine(a, "Other")
  BY <1>1 DEF FinishOther
<1>4. Shape(s, "Other", a.val)
  BY DEF Shape
<1> QED BY <1>2, <1>3, <1>4, EndShaped

LEMMA NumericTailShaped ==
  ASSUME NEW s \in Texts, NEW p, At(s, p), p.st = "Ok", p.itemsLeft = MaxItems, NEW n
  PROVE  Shaped(s, NumericTail(p, n))
<1>1. CASE p.val \in CountNames
  <2>1. NumericTail(p, n) = EndOfLine(Yield(p, <<n>>), p.val[1])
    BY <1>1 DEF NumericTail
  <2>2. p.val[1] \in {"EXISTS", "RECENT", "EXPUNGE", "Other"}
    BY <1>1 DEF CountNames
  <2>3. Shape(s, p.val[1], Yield(p, <<n>>).val)
    BY <2>2 DEF Shape
  <2> QED BY <2>1, <2>3, YieldAt, EndShaped
<1>2. CASE p.val \notin CountNames /\ p.val = <<"FETCH">>
  <2>1. PICK a, v : a = FetchItemsAfterSp(p) /\ v = [seq |-> n, attributes |-> a.val]
    OBVIOUS
  <2>2. NumericTail(p, n) = EndOfLine(Revalued(a, v), "FETCH")
    BY <1>2, <2>1 DEF NumericTail, FetchLine
  <2>3. Eats(s, p, a)
    BY <2>1, FetchItemsAfterSpFacts
  <2>4. At(s, a) /\ At(s, Revalued(a, v))
    BY <2>3, EatsFacts, RevaluedEats
  <2>5. ASSUME Revalued(a, v).st = "Ok" PROVE Shape(s, "FETCH", Revalued(a, v).val)
    <3>1. a.st = "Ok" /\ Revalued(a, v).val = v /\ v.attributes = a.val
      BY <2>1, <2>4, <2>5, RevaluedOk
    <3>2. /\ a = ParseFetchMsgAtt(ConsumeSp(p)) /\ a.st = "Ok" /\ At(s, ConsumeSp(p)) /\ ConsumeSp(p).st = "Ok"
          /\ ConsumeSp(p).itemsLeft = MaxItems
      BY <2>1, <3>1, SpacedOk DEF FetchItemsAfterSp
    <3> QED BY <3>1, <3>2 DEF Shape
  <2> QED BY <2>2, <2>4, <2>5, EndShaped
<1>3. CASE p.val \notin CountNames /\ p.val # <<"FETCH">>
  BY <1>3, OtherShaped DEF NumericTail
<1> QED BY <1>1, <1>2, <1>3

LEMMA NamedTailShaped ==
  ASSUME NEW s \in Texts, NEW p, At(s, p), p.st = "Ok", p.itemsLeft = MaxItems, NEW i
  PROVE  Shaped(s, NamedTail(p, i))
<1>1. CASE CodeWord(p.val) \in NamedBodies
  <2>1. PICK word, a : word = CodeWord(p.val) /\ a = NamedBody(p, word)
    OBVIOUS
  <2>2. NamedTail(p, i) = EndOfLine(a, word)
    BY <1>1, <2>1 DEF NamedTail
  <2>3. At(s, a)
    BY <1>1, <2>1, NamedBodyFacts DEF Sound, Turned, Moves
  <2>4. a.st = "Ok" => Shape(s, word, a.val)
    BY <1>1, <2>1 DEF Shape
  <2> QED BY <2>2, <2>3, <2>4, EndShaped
<1>2. CASE CodeWord(p.val) \notin NamedBodies
  BY <1>2, OtherShaped DEF NamedTail
<1> QED BY <1>1, <1>2

LEMMA FinishStatusShaped ==
  ASSUME NEW s \in Texts, NEW p, At(s, p), p.st = "Ok", p.itemsLeft = MaxItems, StatusAt(p) # {}, NEW tag
  PROVE  Shaped(s, FinishStatus(p, tag))
<1>1. PICK k \in Statuses : MatchesKeyword(p, StatusKeywords[k])
  BY StatusAtIs
<1>2. PICK x, a, v : /\ x = Advance(p, Size(StatusKeywords[k])) /\ a = ParseRespTextAfterKeyword(x)
                     /\ v = [tag |-> tag, status |-> k, text |-> a.val]
  OBVIOUS
<1>3. FinishStatus(p, tag) = EndOfLine(Revalued(a, v), "Status")
  BY <1>1, <1>2, FinishStatusIs DEF StatusLine
<1>4. At(s, x) /\ x.st = "Ok" /\ x.itemsLeft = MaxItems
  BY <1>1, <1>2, FinishStatusFacts, AdvanceFacts DEF At
<1>5. At(s, a) /\ At(s, Revalued(a, v))
  BY <1>2, <1>4, AfterKeywordFacts, RevaluedSound DEF Sound, Turned, Moves
<1>6. ASSUME Revalued(a, v).st = "Ok" PROVE Shape(s, "Status", Revalued(a, v).val)
  <2>1. a.st = "Ok" /\ Revalued(a, v).val = v /\ v.text = a.val
    BY <1>2, <1>5, <1>6, RevaluedOk
  <2> QED BY <1>2, <1>4, <2>1 DEF Shape
<1> QED BY <1>3, <1>5, <1>6, EndShaped

LEMMA TaggedTailShaped ==
  ASSUME NEW s \in Texts, NEW p, At(s, p), p.st = "Ok", p.itemsLeft = MaxItems, NEW tag
  PROVE  Shaped(s, TaggedTail(p, tag))
<1>1. CASE StatusAt(p) # {}
  BY <1>1, FinishStatusShaped DEF TaggedTail
<1>2. CASE StatusAt(p) = {}
  <2>1. Shaped(s, Fail(p, "Incomplete")) /\ Shaped(s, Fail(p, "Malformed"))
    BY FailShaped
  <2> QED BY <1>2, <2>1 DEF TaggedTail
<1> QED BY <1>1, <1>2

LEMMA TaggedShaped ==
  ASSUME NEW s \in Texts, NEW p, At(s, p), p.st = "Ok", p.itemsLeft = MaxItems
  PROVE  Shaped(s, ParseTagged(p))
<1>1. PICK a : a = ParseTag(p)
  OBVIOUS
<1>2. At(s, a) /\ (a.st = "Ok" => a.itemsLeft = MaxItems)
  BY <1>1, TagFacts, EatsFacts, TokenValue DEF ParseTag
<1>3. PICK c : c = ConsumeSp(a)
  OBVIOUS
<1>4. a.st = "Ok" => At(s, c) /\ c.itemsLeft = MaxItems
  BY <1>2, <1>3, ConsumeSpFacts, EatsFacts, ConsumeByteKeeps DEF ConsumeSp
<1>5. a.st = "Ok" /\ c.st = "Ok" => Shaped(s, TaggedTail(c, <<a.val>>))
  BY <1>4, TaggedTailShaped
<1>6. ParseTagged(p) = Chain(a, Chain(c, TaggedTail(c, <<a.val>>)))
  BY <1>1, <1>3, TaggedIs DEF TaggedLine, Spaced
<1> QED BY <1>5, <1>6, ChainShaped

LEMMA OpenedKeeps ==
  ASSUME NEW s \in Texts, NEW p, At(s, p), p.st = "Ok", NEW c, c # "EOF"
  PROVE  At(s, Opened(p, c)) /\ (Opened(p, c).st = "Ok" => Opened(p, c).itemsLeft = p.itemsLeft)
<1>1. PICK a, b : a = ConsumeByte(p, c) /\ b = ConsumeSp(a)
  OBVIOUS
<1>2. At(s, a) /\ a.itemsLeft = p.itemsLeft
  BY <1>1, ConsumeByteEats, EatsFacts, ConsumeByteKeeps
<1>3. b.itemsLeft = a.itemsLeft
  BY <1>1, <1>2, ConsumeByteKeeps DEF ConsumeSp
<1>4. Opened(p, c) = Chain(a, b)
  BY <1>1 DEF Opened
<1> QED BY <1>2, <1>3, <1>4, OpenedFacts, EatsFacts, ChainOk

LEMMA ContinueShaped ==
  ASSUME NEW s \in Texts, NEW p, At(s, p), p.st = "Ok", p.itemsLeft = MaxItems
  PROVE  Shaped(s, ParseContinueReq(p))
<1>1. PICK a, b : a = Opened(p, "+") /\ b = ContinueText(p)
  OBVIOUS
<1>2. At(s, a) /\ (a.st = "Ok" => a.itemsLeft = MaxItems)
  BY <1>1, OpenedKeeps
<1>3. At(s, b)
  BY <1>1, ContinueTextFacts DEF Sound, Turned, Moves
<1>4. b = Chain(a, ParseRespText(a))
  BY <1>1 DEF ContinueText
<1>5. b.st = "Ok" => Shape(s, "Continue", b.val)
  BY <1>2, <1>4, ChainOk DEF Shape
<1> QED BY <1>1, <1>3, <1>5, ContinueIs, EndShaped

LEMMA NumericShaped ==
  ASSUME NEW s \in Texts, NEW p, At(s, p), p.st = "Ok", p.itemsLeft = MaxItems
  PROVE  Shaped(s, ParseNumericDataResponse(p))
<1>1. PICK n, a : n = ParseNumber(p) /\ a = AtomAfterSp(n)
  OBVIOUS
<1>2. At(s, n) /\ n.itemsLeft = MaxItems
  BY <1>1, ParseNumberFacts
<1>3. n.st = "Ok" => At(s, a)
  BY <1>1, <1>2, AtomAfterSpFacts, EatsFacts
<1>4. n.st = "Ok" /\ a.st = "Ok" => a.itemsLeft = MaxItems
  BY <1>1, <1>2, SpacedOk, AtomValue DEF AtomAfterSp
<1>5. n.st = "Ok" /\ a.st = "Ok" => Shaped(s, NumericTail(a, n.val))
  BY <1>3, <1>4, NumericTailShaped
<1>6. ParseNumericDataResponse(p) = Chain(n, Chain(a, NumericTail(a, n.val)))
  BY <1>1, NumericIs
<1> QED BY <1>5, <1>6, ChainShaped

LEMMA NamedShaped ==
  ASSUME NEW s \in Texts, NEW p, At(s, p), p.st = "Ok", p.itemsLeft = MaxItems
  PROVE  Shaped(s, ParseNamedDataResponse(p))
<1>1. PICK a : a = ParseAtom(p)
  OBVIOUS
<1>2. At(s, a) /\ (a.st = "Ok" => a.itemsLeft = MaxItems)
  BY <1>1, ParseAtomFacts, EatsFacts, AtomValue
<1>3. a.st = "Ok" => Shaped(s, NamedTail(a, p.pos))
  BY <1>2, NamedTailShaped
<1>4. ParseNamedDataResponse(p) = Chain(a, NamedTail(a, p.pos))
  BY <1>1, NamedIs
<1> QED BY <1>3, <1>4, ChainShaped

LEMMA UntaggedShaped ==
  ASSUME NEW s \in Texts, NEW p, At(s, p), p.st = "Ok", p.itemsLeft = MaxItems
  PROVE  Shaped(s, ParseUntagged(p))
<1>1. PICK a : a = Opened(p, "*")
  OBVIOUS
<1>2. At(s, a) /\ (a.st = "Ok" => a.itemsLeft = MaxItems)
  BY <1>1, OpenedKeeps
<1>3. ASSUME a.st = "Ok" PROVE Shaped(s, UntaggedTail(a))
  <2>1. /\ StatusAt(a) # {} => Shaped(s, FinishStatus(a, <<>>))
        /\ Shaped(s, Fail(a, "Incomplete"))
        /\ Shaped(s, ParseNumericDataResponse(a)) /\ Shaped(s, ParseNamedDataResponse(a))
    BY <1>2, <1>3, FinishStatusShaped, FailShaped, NumericShaped, NamedShaped
  <2> QED BY <2>1 DEF UntaggedTail
<1>4. ParseUntagged(p) = Chain(a, UntaggedTail(a))
  BY <1>1, UntaggedIs
<1> QED BY <1>3, <1>4, ChainShaped

\* The data of every response was read by the production of its kind.
LEMMA ResponseShape ==
  ASSUME NEW s \in Texts, ParseResponse(s).st = "Ok"
  PROVE  Shape(s, ParseResponse(s).response.kind, ParseResponse(s).response.data)
<1>1. PICK p, r : p = New(s) /\ r = Reply(p)
  OBVIOUS
<1>2. At(s, p) /\ p.st = "Ok" /\ p.itemsLeft = MaxItems
  BY <1>1, NewFacts
<1>3. /\ Shaped(s, Fail(p, "Incomplete")) /\ Shaped(s, ParseContinueReq(p))
      /\ Shaped(s, ParseUntagged(p)) /\ Shaped(s, ParseTagged(p))
  BY <1>2, FailShaped, ContinueShaped, UntaggedShaped, TaggedShaped
<1>4. Shaped(s, r)
  BY <1>1, <1>3, ReplyIs
<1>5. r.st = "Ok" /\ ParseResponse(s).response = r.val
  BY <1>1, ParseStatus
<1> QED BY <1>4, <1>5 DEF Shaped

-------------------------------------------------------------------------------
(* The text of a response, and the code in front of it. *)

LEMMA TextWithValue ==
  ASSUME NEW s \in Texts, NEW p, At(s, p), p.st = "Ok", NEW code, TextWith(p, code).st = "Ok"
  PROVE  TextWith(p, code).val.code = code /\ TextWith(p, code).val.text \in Parts(s)
<1>1. PICK a, v : a = ParseText(p) /\ v = [code |-> code, text |-> a.val]
  OBVIOUS
<1>2. TextWith(p, code) = Revalued(a, v) /\ At(s, a)
  BY <1>1, ParseTextFacts DEF TextWith
<1>3. a.st = "Ok" /\ Revalued(a, v).val = v
  BY <1>2, RevaluedOk
<1>4. a.val \in Parts(s)
  BY <1>1, <1>3, TextValue
<1>5. v.code = code /\ v.text = a.val
  BY <1>1
<1> QED BY <1>2, <1>3, <1>4, <1>5

\* The attributes of a FETCH response.
LEMMA FetchAttributes ==
  ASSUME NEW s \in Texts, ParseResponse(s).st = "Ok", ParseResponse(s).response.kind = "FETCH"
  PROVE  ParseResponse(s).response.data.attributes \in Seq(FetchItems)
<1>1. PICK d : d = ParseResponse(s).response.data
  OBVIOUS
<1>2. Shape(s, "FETCH", d)
  BY <1>1, ResponseShape
<1>3. PICK p : /\ At(s, p) /\ p.st = "Ok" /\ ParseFetchMsgAtt(p).st = "Ok"
               /\ d.attributes = ParseFetchMsgAtt(p).val
  BY <1>2 DEF Shape, NamedBodies
<1>4. Held(ParseFetchMsgAtt(p)) \in Spent(FetchItems, FetchWeight, p.itemsLeft)
  BY <1>3, FetchMsgAttValue
<1> QED BY <1>1, <1>3, <1>4 DEF Spent, Held
===============================================================================
