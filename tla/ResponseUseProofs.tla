--------------------------- MODULE ResponseUseProofs ---------------------------
(* Proofs about ResponseUse: what a session makes of the responses to its      *)
(* command, for any buffers, any number of frames and any limits.              *)
EXTENDS ResponseUse, ParserProofs

-------------------------------------------------------------------------------
(* Sequences that are joined. *)

LEMMA FlattenNothing == FlattenSeq(<<>>) = <<>>
BY DEF FlattenSeq

\* Something is left when something was joined.
LEMMA FlattenSome ==
  ASSUME NEW S, NEW q \in Seq(Seq(S))
  PROVE  FlattenSeq(q) # <<>> <=> \E k \in 1 .. Len(q) : q[k] # <<>>
<1>1. CASE Len(q) = 0
  <2>1. q = <<>> /\ FlattenSeq(q) = <<>>
    BY <1>1, FlattenNothing
  <2> QED BY <1>1, <2>1
<1>2. CASE Len(q) # 0
  <2>0. Len(q) \in Nat /\ Len(q) \in 1 .. Len(q) /\ \A i \in 1 .. Len(q) : q[i] \in Seq(S)
    BY <1>2
  <2>1. PICK f \in [1 .. Len(q) -> Seq(S)] : Flattens(f, q, Len(q)) /\ FlattenSeq(q) = f[Len(q)]
    BY <1>2, FlattenDefined
  <2>3. PICK n : n = Len(q)
    OBVIOUS
  <2>4. f \in [1 .. n -> Seq(S)] /\ f[1] = q[1] /\ \A i \in 2 .. n : f[i] = f[i - 1] \o q[i]
    <3>1. \A i \in 1 .. n : f[i] = IF i = 1 THEN q[i] ELSE f[i - 1] \o q[i]
      BY <2>1, <2>3 DEF Flattens
    <3>2. \A i \in 2 .. n : i \in 1 .. n /\ i # 1
      BY <2>0, <2>3
    <3>3. 1 \in 1 .. n
      BY <2>0, <2>3
    <3>4. f[1] = q[1]
      BY <3>1, <3>3
    <3>5. \A i \in 2 .. n : f[i] = f[i - 1] \o q[i]
      BY <3>1, <3>2
    <3> QED BY <2>1, <2>3, <3>4, <3>5
  <2>5. \A x, y \in Seq(S) : x \o y # <<>> <=> x # <<>> \/ y # <<>>
    <3> SUFFICES ASSUME NEW x \in Seq(S), NEW y \in Seq(S)
                 PROVE  x \o y # <<>> <=> x # <<>> \/ y # <<>>
      OBVIOUS
    <3>1. /\ x \o y \in Seq(S) /\ Len(x \o y) = Len(x) + Len(y) /\ Len(x) \in Nat /\ Len(y) \in Nat
      OBVIOUS
    <3>2. \A z \in Seq(S) : z = <<>> <=> Len(z) = 0
      OBVIOUS
    <3> QED BY <3>1, <3>2
  <2> DEFINE Right(m) == f[m] # <<>> <=> \E k \in 1 .. m : q[k] # <<>>
             Bad == {m \in 1 .. n : ~Right(m)}
  <2>6. Bad = {}
    <3>1. SUFFICES ASSUME Bad # {} PROVE FALSE
      OBVIOUS
    <3>2. Bad \in SUBSET Nat
      BY <2>0, <2>3
    <3>3. PICK m \in Bad : \A j \in Bad : m <= j
      BY <3>1, <3>2, LeastNumber
    <3>4. m \in 1 .. n /\ ~Right(m)
      OBVIOUS
    <3>5. m # 1
      BY <2>4, <3>4
    <3>a. n \in Nat /\ m \in 1 .. n
      BY <2>0, <2>3, <3>4
    <3>6. m \in 2 .. n /\ m - 1 \in 1 .. n /\ ~(m <= m - 1) /\ n \in Nat
      <4> HIDE DEF Bad, Right
      <4> QED BY <3>5, <3>a
    <3>7. Right(m - 1)
      BY <3>3, <3>6
    <3>8. f[m] = f[m - 1] \o q[m] /\ f[m - 1] \in Seq(S) /\ q[m] \in Seq(S)
      BY <2>0, <2>3, <2>4, <3>4, <3>6
    <3>9. f[m] # <<>> <=> f[m - 1] # <<>> \/ q[m] # <<>>
      BY <2>5, <3>8
    <3>10. \A k : k \in 1 .. m <=> k \in 1 .. m - 1 \/ k = m
      BY <3>6
    <3> QED BY <3>4, <3>7, <3>9, <3>10
  <2>7. Right(n)
    BY <2>0, <2>3, <2>6
  <2> QED BY <2>1, <2>3, <2>7
<1> QED BY <1>1, <1>2

LastOf(found) == IF found = <<>> THEN <<>> ELSE <<Last(found)>>

\* The last of what is joined is the last of the last that is not empty.
LEMMA LastJoined ==
  ASSUME NEW S, NEW x \in Seq(S), NEW y \in Seq(S)
  PROVE  LastOf(x \o y) = IF y = <<>> THEN LastOf(x) ELSE LastOf(y)
<1>1. /\ x \o y \in Seq(S) /\ Len(x \o y) = Len(x) + Len(y) /\ Len(x) \in Nat /\ Len(y) \in Nat
      /\ \A i \in 1 .. Len(y) : (x \o y)[Len(x) + i] = y[i]
  <2>1. \A i \in 1 .. Len(x) + Len(y) : (x \o y)[i] = IF i <= Len(x) THEN x[i] ELSE y[i - Len(x)]
    BY ConcatProperties
  <2>2. \A i \in 1 .. Len(y) : /\ Len(x) + i \in 1 .. Len(x) + Len(y)
                              /\ ~(Len(x) + i <= Len(x)) /\ (Len(x) + i) - Len(x) = i
    OBVIOUS
  <2> QED BY <2>1, <2>2
<1>2. CASE y = <<>>
  BY <1>2
<1>3. CASE y # <<>>
  <2>1. Len(y) \in 1 .. Len(y) /\ x \o y # <<>>
    BY <1>1, <1>3
  <2>2. (x \o y)[Len(x \o y)] = y[Len(y)]
    BY <1>1, <2>1
  <2> QED BY <1>3, <2>1, <2>2 DEF LastOf, Last
<1> QED BY <1>2, <1>3

LEMMA FlattenLast ==
  ASSUME NEW S, NEW q \in Seq(Seq(S)), NEW k \in 1 .. Len(q), q[k] # <<>>,
         \A j \in 1 .. Len(q) : q[j] # <<>> => j <= k
  PROVE  LastOf(FlattenSeq(q)) = LastOf(q[k])
<1>0. Len(q) \in Nat /\ Len(q) # 0 /\ Len(q) \in 1 .. Len(q) /\ \A i \in 1 .. Len(q) : q[i] \in Seq(S)
  OBVIOUS
<1>1. PICK f \in [1 .. Len(q) -> Seq(S)] : Flattens(f, q, Len(q)) /\ FlattenSeq(q) = f[Len(q)]
  BY <1>0, FlattenDefined
<1>2. PICK n : n = Len(q)
  OBVIOUS
<1>3. /\ n \in Nat /\ n \in 1 .. n /\ f \in [1 .. n -> Seq(S)] /\ k \in 1 .. n
      /\ \A i \in 1 .. n : q[i] \in Seq(S)
  BY <1>0, <1>1, <1>2
<1>4. f[1] = q[1] /\ \A i \in 2 .. n : f[i] = f[i - 1] \o q[i]
  <2>1. \A i \in 1 .. n : f[i] = IF i = 1 THEN q[i] ELSE f[i - 1] \o q[i]
    BY <1>1, <1>2 DEF Flattens
  <2>2. (\A i \in 2 .. n : i \in 1 .. n /\ i # 1) /\ 1 \in 1 .. n
    BY <1>3
  <2>3. f[1] = q[1]
    BY <2>1, <2>2
  <2>4. \A i \in 2 .. n : f[i] = f[i - 1] \o q[i]
    BY <2>1, <2>2
  <2> QED BY <2>3, <2>4
<1> DEFINE Bad == {m \in k .. n : LastOf(f[m]) # LastOf(q[k])}
<1>5. Bad = {}
  <2>1. SUFFICES ASSUME Bad # {} PROVE FALSE
    OBVIOUS
  <2>2. Bad \in SUBSET Nat
    BY <1>3
  <2>3. PICK m \in Bad : \A j \in Bad : m <= j
    BY <2>1, <2>2, LeastNumber
  <2>4. m \in k .. n /\ LastOf(f[m]) # LastOf(q[k])
    OBVIOUS
  <2>5. m \in 1 .. n
    BY <1>3, <2>4
  <2>6. CASE m = 1
    <3>1. k = 1
      BY <1>3, <2>4, <2>6
    <3> QED BY <1>4, <2>4, <2>6, <3>1
  <2>7. CASE m # 1
    <3>1. m \in 2 .. n /\ m - 1 \in 1 .. n /\ ~(m <= m - 1)
      BY <1>3, <2>5, <2>7
    <3>2. f[m] = f[m - 1] \o q[m] /\ f[m - 1] \in Seq(S) /\ q[m] \in Seq(S)
      BY <1>3, <1>4, <2>5, <3>1
    <3>3. LastOf(f[m]) = IF q[m] = <<>> THEN LastOf(f[m - 1]) ELSE LastOf(q[m])
      BY <3>2, LastJoined
    <3>4. CASE m = k
      BY <2>4, <3>3, <3>4
    <3>5. CASE m # k
      <4>1. m - 1 \in k .. n /\ ~(m <= k)
        BY <1>3, <2>4, <3>1, <3>5
      <4>2. q[m] = <<>>
        BY <1>2, <2>5, <4>1
      <4>3. LastOf(f[m - 1]) = LastOf(q[k])
        BY <2>3, <3>1, <4>1
      <4> HIDE DEF Bad
      <4> QED BY <2>4, <3>3, <4>2, <4>3
    <3> QED BY <3>4, <3>5
  <2> QED BY <2>6, <2>7
<1>6. n \in k .. n
  BY <1>3
<1>7. LastOf(f[n]) = LastOf(q[k])
  BY <1>5, <1>6
<1> QED BY <1>1, <1>2, <1>7

-------------------------------------------------------------------------------
(* The characters of a text. *)

\* What the recursion of Chars defines, on the first n symbols of x.
Spells(f, x, n) ==
  f = [k \in 0 .. n |-> IF k = 0 THEN <<>> ELSE IF x[k] = "U2" THEN f[k - 1] ELSE Append(f[k - 1], x[k])]

LEMMA SpellsExists ==
  ASSUME NEW S, NEW x \in Seq(S), NEW n \in 0 .. Len(x)
  PROVE  \E f : Spells(f, x, n)
<1> DEFINE Bad == {k \in 0 .. Len(x) : ~\E f : Spells(f, x, k)}
<1>0. Len(x) \in Nat
  OBVIOUS
<1>1. SUFFICES ASSUME Bad # {} PROVE FALSE
  OBVIOUS
<1>2. Bad \in SUBSET Nat
  BY <1>0
<1>3. PICK k \in Bad : \A m \in Bad : k <= m
  BY <1>1, <1>2, LeastNumber
<1>4. k \in 0 .. Len(x) /\ ~\E f : Spells(f, x, k)
  OBVIOUS
<1>5. CASE k = 0
  <2>1. PICK f : f = [i \in 0 .. 0 |-> <<>>]
    OBVIOUS
  <2>2. Spells(f, x, 0)
    BY <2>1 DEF Spells
  <2> QED BY <1>4, <1>5, <2>2
<1>6. CASE k # 0
  <2>1. PICK j : j = k - 1
    OBVIOUS
  <2>2. j \in 0 .. Len(x) /\ ~(k <= j) /\ k = j + 1 /\ j \in Nat /\ k \in Nat
    BY <1>0, <1>4, <1>6, <2>1
  <2>3. PICK f : Spells(f, x, j)
    BY <1>3, <2>2
  <2> HIDE DEF Bad
  <2> DEFINE Put(h, i) == IF i = 0 THEN <<>> ELSE IF x[i] = "U2" THEN h[i - 1] ELSE Append(h[i - 1], x[i])
             g == [i \in 0 .. k |-> Put(f, i)]
  <2>4. \A i \in 0 .. j : f[i] = Put(f, i)
    BY <2>3 DEF Spells
  <2>5. \A i \in 0 .. k : g[i] = Put(f, i)
    OBVIOUS
  <2>6. \A i \in 0 .. j : i \in 0 .. k
    BY <2>2
  <2>7. \A i \in 0 .. j : g[i] = f[i]
    <3> HIDE DEF g, Put
    <3> QED BY <2>4, <2>5, <2>6
  <2>8. \A i \in 0 .. k : i # 0 => i - 1 \in 0 .. j
    BY <2>2
  <2> HIDE DEF g
  <2>9. \A i \in 0 .. k : Put(f, i) = Put(g, i)
    BY <2>7, <2>8
  <2>10. g = [i \in 0 .. k |-> Put(g, i)]
    <3>1. g = [i \in 0 .. k |-> Put(f, i)]
      BY DEF g
    <3> HIDE DEF Put
    <3> QED BY <2>9, <3>1
  <2>11. Spells(g, x, k)
    BY <2>10 DEF Spells
  <2> QED BY <1>4, <2>11
<1> QED BY <1>5, <1>6

LEMMA CharsFacts ==
  ASSUME NEW S, NEW x \in Seq(S)
  PROVE  Chars(x) \in Seq(S)
<1> DEFINE n == Len(x)
           Up(h) == h = [k \in 0 .. n |-> IF k = 0 THEN <<>> ELSE IF x[k] = "U2" THEN h[k - 1] ELSE Append(h[k - 1], x[k])]
           c == CHOOSE h : Up(h)
<1>0. n \in Nat /\ n \in 0 .. n /\ \A k \in 1 .. n : x[k] \in S
  OBVIOUS
<1>1. Chars(x) = c[n]
  BY DEF Chars
<1>2. \E h : Up(h)
  BY <1>0, SpellsExists DEF Spells
<1>3. Up(c)
  BY <1>2
<1> HIDE DEF c, n
<1>4. \A k \in 0 .. n : c[k] = IF k = 0 THEN <<>> ELSE IF x[k] = "U2" THEN c[k - 1] ELSE Append(c[k - 1], x[k])
  BY <1>3
<1> DEFINE Bad == {k \in 0 .. n : c[k] \notin Seq(S)}
<1>5. Bad = {}
  <2>1. SUFFICES ASSUME Bad # {} PROVE FALSE
    OBVIOUS
  <2>2. Bad \in SUBSET Nat
    BY <1>0
  <2>3. PICK k \in Bad : \A m \in Bad : k <= m
    BY <2>1, <2>2, LeastNumber
  <2>4. k \in 0 .. n /\ c[k] \notin Seq(S)
    OBVIOUS
  <2>5. k # 0
    <3>1. <<>> \in Seq(S)
      OBVIOUS
    <3> HIDE DEF Bad
    <3> QED BY <1>4, <2>4, <3>1
  <2>6. k - 1 \in 0 .. n /\ ~(k <= k - 1) /\ k \in 1 .. n
    BY <1>0, <2>4, <2>5
  <2>7. c[k - 1] \in Seq(S)
    BY <2>3, <2>6
  <2>8. x[k] \in S
    BY <1>0, <2>6
  <2>9. Append(c[k - 1], x[k]) \in Seq(S)
    BY <2>7, <2>8
  <2> HIDE DEF Bad
  <2> QED BY <1>4, <2>4, <2>5, <2>7, <2>9
<1>6. c[n] \in Seq(S)
  BY <1>0, <1>5
<1> QED BY <1>1, <1>6

-------------------------------------------------------------------------------
(* What is printed of a text. *)

\* What the error says of a text of these characters.
Safe(said, shown) ==
  /\ \A k \in DOMAIN shown : ~IsUnsafeToDisplay(shown[k])
  /\ Len(shown) = IF Len(said) > MaxText THEN MaxText + 1 ELSE Len(said)
  /\ Len(said) > MaxText => Last(shown) = "..."
  /\ \A k \in DOMAIN said : k <= MaxText /\ ~IsUnsafeToDisplay(said[k]) => shown[k] = said[k]

LEMMA MarksAreSafe == ~IsUnsafeToDisplay("...") /\ ~IsUnsafeToDisplay("FFFD")
BY DEF IsUnsafeToDisplay

LEMMA FailedIsSafe ==
  ASSUME NEW S, NEW x \in Seq(S)
  PROVE  Safe(Chars(x), CommandFailed(x))
<1>1. PICK said : said = Chars(x)
  OBVIOUS
<1>2. said \in Seq(S) /\ Len(said) \in Nat /\ MaxText \in Nat /\ DOMAIN said = 1 .. Len(said)
  BY <1>1, CharsFacts, UseAssumption
<1>3. PICK n : n = IF Len(said) < MaxText THEN Len(said) ELSE MaxText
  OBVIOUS
<1>4. n \in Nat /\ n <= Len(said) /\ n <= MaxText
  BY <1>2, <1>3
<1>5. PICK kept : kept = SubSeq(said, 1, n)
  OBVIOUS
<1>6. \A k \in 1 .. n : said[k] \in S
  BY <1>2, <1>4
<1>7. /\ kept \in Seq(S) /\ Len(kept) = n /\ \A k \in 1 .. n : kept[k] = said[k]
  <2>1. /\ kept \in Seq(S) /\ Len(kept) = IF 1 <= n THEN n - 1 + 1 ELSE 0
        /\ \A k \in 1 .. n - 1 + 1 : kept[k] = said[1 + k - 1]
    BY <1>2, <1>4, <1>5, <1>6, SubSeqProperties
  <2> QED BY <1>4, <2>1
<1>8. PICK safe : safe = [k \in DOMAIN kept |-> IF IsUnsafeToDisplay(kept[k]) THEN "FFFD" ELSE kept[k]]
  OBVIOUS
<1>9. DOMAIN kept = 1 .. n
  BY <1>7
<1>10. safe \in [1 .. n -> S \cup {"FFFD"}]
  BY <1>7, <1>8, <1>9
<1>11. safe \in Seq(S \cup {"FFFD"}) /\ Len(safe) = n
  BY <1>4, <1>10
<1>12. \A k \in 1 .. n : /\ ~IsUnsafeToDisplay(safe[k])
                         /\ ~IsUnsafeToDisplay(said[k]) => safe[k] = said[k]
  BY <1>7, <1>8, <1>9, MarksAreSafe
<1>13. CommandFailed(x) = IF Len(said) > MaxText THEN Append(safe, "...") ELSE safe
  BY <1>1, <1>3, <1>5, <1>8 DEF CommandFailed
<1>14. CASE Len(said) > MaxText
  <2>1. PICK shown : shown = Append(safe, "...")
    OBVIOUS
  <2>a. ~(Len(said) < MaxText)
    BY <1>2, <1>14
  <2>2. n = MaxText
    BY <1>3, <2>a
  <2>3. /\ shown \in Seq(S \cup {"FFFD", "..."}) /\ Len(shown) = n + 1 /\ shown[n + 1] = "..."
        /\ \A k \in 1 .. n : shown[k] = safe[k]
    BY <1>11, <2>1
  <2>4. DOMAIN shown = 1 .. n + 1 /\ Last(shown) = "..."
    BY <2>3 DEF Last
  <2>5. \A k \in 1 .. n + 1 : k \in 1 .. n \/ k = n + 1
    BY <1>4
  <2>6. \A k \in DOMAIN shown : ~IsUnsafeToDisplay(shown[k])
    BY <1>12, <2>3, <2>4, <2>5, MarksAreSafe
  <2>7. \A k \in DOMAIN said : k <= MaxText => k \in 1 .. n
    BY <1>2, <2>2
  <2>8. CommandFailed(x) = shown
    BY <1>13, <1>14, <2>1
  <2>9. \A k \in DOMAIN said : k <= MaxText /\ ~IsUnsafeToDisplay(said[k]) => shown[k] = said[k]
    BY <1>12, <2>3, <2>7
  <2> QED BY <1>1, <1>14, <2>2, <2>3, <2>4, <2>6, <2>8, <2>9 DEF Safe
<1>15. CASE ~(Len(said) > MaxText)
  <2>a. Len(said) < MaxText \/ Len(said) = MaxText
    <3>1. \A i, j \in Nat : ~(i > j) => i < j \/ i = j
      OBVIOUS
    <3> QED BY <1>2, <1>15, <3>1
  <2>1. n = Len(said)
    BY <1>3, <2>a
  <2>2. CommandFailed(x) = safe /\ DOMAIN safe = 1 .. n
    BY <1>10, <1>13, <1>15
  <2> QED BY <1>1, <1>2, <1>11, <1>12, <1>15, <2>1, <2>2 DEF Safe
<1> QED BY <1>14, <1>15

-------------------------------------------------------------------------------
(* What is kept of a FETCH response. *)

\* f is what the caller gets for the response r.
Kept(f, r) ==
  /\ f.seq = r.data.seq
  /\ HoldsLast(f.uid, Atts(r, {"UID"}), r)
  /\ Atts(r, {"BODY"}) = {} => HoldsLast(f.body, Contents(r), r)

BodyOf(a) == CASE a.att = "BODY[]"             -> a.data
               [] a.att \in {"BODY", "RFC822"} -> <<a.data>>
               [] OTHER                        -> <<>>
UidOf(a) == IF a.att = "UID" THEN <<a.data>> ELSE <<>>
Bodies(r) == [k \in DOMAIN r.data.attributes |-> BodyOf(r.data.attributes[k])]
Uids(r) == [k \in DOMAIN r.data.attributes |-> UidOf(r.data.attributes[k])]
Result(r) == [seq |-> r.data.seq, uid |-> LastOf(FlattenSeq(Uids(r))), body |-> LastOf(FlattenSeq(Bodies(r)))]

LEMMA FetchResultIs == ASSUME NEW r PROVE FetchResult(r) = <<Result(r)>>
BY DEF FetchResult, Result, LastOf, Uids, UidOf, Bodies, BodyOf

LEMMA BodyKinds ==
  ASSUME NEW a \in FetchItems
  PROVE  /\ BodyOf(a) \in Seq(Texts) /\ UidOf(a) \in Seq(Nat)
         /\ BodyOf(a) # <<>> <=> a.att \in {"BODY[]", "BODY", "RFC822"} /\ (a.att = "BODY[]" => a.data # <<>>)
         /\ UidOf(a) # <<>> <=> a.att = "UID"
<1>0. <<>> \in Seq(Texts) /\ <<>> \in Seq(Nat)
  OBVIOUS
<1>1. CASE a \in SectionItems
  <2>1. a.att = "BODY[]" /\ a.data \in Options
    BY <1>1 DEF SectionItems
  <2>2. BodyOf(a) = a.data /\ UidOf(a) = <<>>
    BY <2>1 DEF BodyOf, UidOf
  <2>3. a.data \in Seq(Texts)
    <3>1. \A x \in Texts : <<x>> \in Seq(Texts)
      OBVIOUS
    <3> QED BY <1>0, <2>1, <3>1 DEF Options
  <2> QED BY <1>0, <2>1, <2>2, <2>3
<1>2. CASE a \in NamedItems
  <2>1. PICK word \in FetchNames : a \in [att : {word}, data : FetchData(word)]
    BY <1>2 DEF NamedItems
  <2>2. a.att = word /\ a.data \in FetchData(word) /\ word # "BODY[]"
    BY <2>1 DEF FetchNames
  <2>3. CASE word \in {"BODY", "RFC822"}
    <3>1. a.data \in Texts
      BY <2>2, <2>3 DEF FetchData, NumberNames
    <3>2. BodyOf(a) = <<a.data>> /\ UidOf(a) = <<>>
      BY <2>2, <2>3 DEF BodyOf, UidOf
    <3>3. <<a.data>> \in Seq(Texts) /\ <<a.data>> # <<>>
      BY <3>1
    <3> QED BY <1>0, <2>2, <2>3, <3>2, <3>3
  <2>4. CASE word = "UID"
    <3>1. a.data \in Nat
      BY <2>2, <2>4 DEF FetchData, NumberNames
    <3>2. BodyOf(a) = <<>> /\ UidOf(a) = <<a.data>>
      BY <2>2, <2>4 DEF BodyOf, UidOf
    <3>3. <<a.data>> \in Seq(Nat) /\ <<a.data>> # <<>>
      BY <3>1
    <3> QED BY <1>0, <2>2, <2>4, <3>2, <3>3
  <2>5. CASE word \notin {"BODY", "RFC822", "UID"}
    <3>1. BodyOf(a) = <<>> /\ UidOf(a) = <<>>
      BY <2>2, <2>5 DEF BodyOf, UidOf
    <3> QED BY <1>0, <2>2, <2>5, <3>1
  <2> QED BY <2>3, <2>4, <2>5
<1> QED BY <1>1, <1>2 DEF FetchItems

\* Each item has at most one of either.
LEMMA BodyOptions ==
  ASSUME NEW a \in FetchItems
  PROVE  LastOf(BodyOf(a)) = BodyOf(a) /\ LastOf(UidOf(a)) = UidOf(a)
<1>1. LastOf(<<>>) = <<>> /\ \A x : LastOf(<<x>>) = <<x>>
  <2>1. \A x : Last(<<x>>) = x /\ <<x>> # <<>>
    BY DEF Last
  <2> QED BY <2>1 DEF LastOf
<1>2. UidOf(a) = <<>> \/ UidOf(a) = <<a.data>>
  BY DEF UidOf
<1>3. CASE a \in SectionItems
  <2>1. a.att = "BODY[]" /\ a.data \in Options
    BY <1>3 DEF SectionItems
  <2>2. a.data = <<>> \/ \E x : a.data = <<x>>
    BY <2>1 DEF Options
  <2>3. BodyOf(a) = a.data
    BY <2>1 DEF BodyOf
  <2> QED BY <1>1, <1>2, <2>2, <2>3
<1>4. CASE a \in NamedItems
  <2>1. PICK word \in FetchNames : a \in [att : {word}, data : FetchData(word)]
    BY <1>4 DEF NamedItems
  <2>2. a.att # "BODY[]"
    BY <2>1 DEF FetchNames
  <2>3. BodyOf(a) = <<>> \/ BodyOf(a) = <<a.data>>
    BY <2>2 DEF BodyOf
  <2> QED BY <1>1, <1>2, <2>3
<1> QED BY <1>3, <1>4 DEF FetchItems

LEMMA LastOfSome == ASSUME NEW x PROVE LastOf(x) # <<>> <=> x # <<>>
BY DEF LastOf

LEMMA ListFacts ==
  ASSUME NEW S, NEW n \in Nat, NEW f \in [1 .. n -> S]
  PROVE  f \in Seq(S) /\ Len(f) = n
<1>1. f \in Seq(S) /\ DOMAIN f = 1 .. n
  OBVIOUS
<1> QED BY <1>1

LEMMA ResultKept ==
  ASSUME NEW r, r.data.attributes \in Seq(FetchItems)
  PROVE  Kept(Result(r), r)
<1>1. PICK l : l = r.data.attributes
  OBVIOUS
<1>2. l \in Seq(FetchItems) /\ DOMAIN l = 1 .. Len(l) /\ Len(l) \in Nat /\ \A k \in 1 .. Len(l) : l[k] \in FetchItems
  BY <1>1
<1>3. PICK u, b : u = Uids(r) /\ b = Bodies(r)
  OBVIOUS
<1>4. u \in [1 .. Len(l) -> Seq(Nat)] /\ b \in [1 .. Len(l) -> Seq(Texts)]
  BY <1>1, <1>2, <1>3, BodyKinds DEF Uids, Bodies
<1>5. u \in Seq(Seq(Nat)) /\ Len(u) = Len(l) /\ b \in Seq(Seq(Texts)) /\ Len(b) = Len(l)
  BY <1>2, <1>4, ListFacts
<1>6. /\ \A k \in 1 .. Len(l) : u[k] # <<>> <=> l[k].att = "UID"
      /\ \A k \in 1 .. Len(l) : b[k] # <<>> <=> /\ l[k].att \in {"BODY[]", "BODY", "RFC822"}
                                                /\ l[k].att = "BODY[]" => l[k].data # <<>>
  BY <1>1, <1>2, <1>3, BodyKinds DEF Uids, Bodies
<1>7. Result(r).seq = r.data.seq /\ Result(r).uid = LastOf(FlattenSeq(u)) /\ Result(r).body = LastOf(FlattenSeq(b))
  BY <1>3 DEF Result
<1>8. Result(r).uid # <<>> <=> \E k \in 1 .. Len(l) : u[k] # <<>>
  BY <1>5, <1>7, LastOfSome, FlattenSome
<1>9. Result(r).body # <<>> <=> \E k \in 1 .. Len(l) : b[k] # <<>>
  BY <1>5, <1>7, LastOfSome, FlattenSome
<1>10. \A k \in 1 .. Len(l) : LastOf(u[k]) = UidOf(l[k]) /\ LastOf(b[k]) = BodyOf(l[k])
  BY <1>1, <1>2, <1>3, BodyOptions DEF Uids, Bodies
<1> HIDE DEF Result
<1>11. HoldsLast(Result(r).uid, Atts(r, {"UID"}), r)
  <2>1. \A k : k \in Atts(r, {"UID"}) <=> k \in 1 .. Len(l) /\ u[k] # <<>>
    BY <1>1, <1>2, <1>6 DEF Atts
  <2>2. (Result(r).uid = <<>>) = (Atts(r, {"UID"}) = {})
    BY <1>8, <2>1
  <2>3. ASSUME NEW k \in Atts(r, {"UID"}), \A j \in Atts(r, {"UID"}) : j <= k
        PROVE  Result(r).uid = <<l[k].data>> /\ l[k].att = "UID"
    <3>1. k \in 1 .. Len(l) /\ u[k] # <<>> /\ \A j \in 1 .. Len(l) : u[j] # <<>> => j <= k
      BY <2>1, <2>3
    <3>2. LastOf(FlattenSeq(u)) = LastOf(u[k])
      BY <1>5, <3>1, FlattenLast
    <3>3. l[k].att = "UID"
      BY <1>6, <3>1
    <3> QED BY <1>7, <1>10, <3>1, <3>2, <3>3 DEF UidOf
  <2> QED BY <1>1, <2>2, <2>3 DEF HoldsLast
<1>12. ASSUME Atts(r, {"BODY"}) = {} PROVE HoldsLast(Result(r).body, Contents(r), r)
  <2>1. \A k \in 1 .. Len(l) : l[k].att # "BODY"
    BY <1>1, <1>2, <1>12 DEF Atts
  <2>2. \A k : k \in Contents(r) <=> k \in 1 .. Len(l) /\ b[k] # <<>>
    BY <1>1, <1>2, <1>6, <2>1 DEF Atts, Contents
  <2>3. (Result(r).body = <<>>) = (Contents(r) = {})
    BY <1>9, <2>2
  <2>4. ASSUME NEW k \in Contents(r), \A j \in Contents(r) : j <= k
        PROVE  Result(r).body = IF l[k].att = "BODY[]" THEN l[k].data ELSE <<l[k].data>>
    <3>1. k \in 1 .. Len(l) /\ b[k] # <<>> /\ \A j \in 1 .. Len(l) : b[j] # <<>> => j <= k
      BY <2>2, <2>4
    <3>2. LastOf(FlattenSeq(b)) = LastOf(b[k])
      BY <1>5, <3>1, FlattenLast
    <3>3. l[k].att \in {"BODY[]", "RFC822"}
      BY <1>6, <2>1, <3>1
    <3>4. BodyOf(l[k]) = IF l[k].att = "BODY[]" THEN l[k].data ELSE <<l[k].data>>
      BY <3>3 DEF BodyOf
    <3> QED BY <1>7, <1>10, <3>1, <3>2, <3>4
  <2> QED BY <1>1, <2>3, <2>4 DEF HoldsLast
<1> QED BY <1>7, <1>11, <1>12 DEF Kept

-------------------------------------------------------------------------------
(* What only the session asks of the productions. *)

LEMMA SearchTurnValue ==
  ASSUME NEW s \in Texts, NEW p, At(s, p), p.st = "Ok", p.val \in Seq(Nat), SearchTurn(p).st \in Going
  PROVE  SearchTurn(p).itemsLeft = p.itemsLeft /\ SearchTurn(p).val \in Seq(Nat)
<1> DEFINE x == Advance(p, 1)
           a == ParseNumber(x)
           l == Append(p.val, a.val)
<1>0. Size(s) \in Nat
  BY DEF Texts, Size
<1>1. CASE Peek(p) # "SP"
  BY <1>1 DEF SearchTurn
<1>2. CASE Peek(p) = "SP"
  <2>1. ~IsEof(p) /\ SearchTurn(p) = Chain(a, Inside(a, l))
    BY <1>2, SearchTurnIs
  <2>2. At(s, x) /\ x.st = "Ok" /\ x.itemsLeft = p.itemsLeft
    BY <1>0, <2>1, AdvanceOne
  <2> HIDE DEF x
  <2>3. At(s, a) /\ a.st # "More" /\ a.itemsLeft = x.itemsLeft /\ (a.st = "Ok" => a.val \in Nat)
    BY <2>2, ParseNumberFacts DEF Sound
  <2> HIDE DEF a
  <2>4. a.st = "Ok" /\ SearchTurn(p) = Inside(a, l)
    BY <2>1, <2>3 DEF Chain, Going
  <2>5. l \in Seq(Nat)
    BY <2>3, <2>4
  <2> HIDE DEF l
  <2> QED BY <2>2, <2>3, <2>4, <2>5, InsideHeld DEF At
<1> QED BY <1>1, <1>2

LEMMA SearchNumbersValue ==
  ASSUME NEW s \in Texts, NEW p, At(s, p), p.st = "Ok", SearchNumbers(p).st = "Ok"
  PROVE  SearchNumbers(p).val \in Seq(Nat)
<1>0. Size(s) \in Nat
  BY DEF Texts, Size
<1>1. PICK q : q = Yield(p, <<>>)
  OBVIOUS
<1>2. SearchNumbers(p) = SearchLoop(q, 0)
  BY <1>1 DEF SearchNumbers, SearchLoop, While
<1>3. At(s, q) /\ q.itemsLeft = p.itemsLeft /\ q.val = <<>>
  BY <1>1, YieldAt, YieldFacts DEF At
<1>4. PICK f : Runs(f, "search", 0, q, Size(s) + 1) /\ SearchLoop(q, 0) = f[Size(s) + 1]
  BY <1>0, <1>3, SearchRuns
<1>5. \A x : LoopTurn("search", 0, x) = SearchTurn(x)
  BY DEF LoopTurn
<1>6. \A x : At(s, x) /\ x.st = "Ok" => Turned(s, x, LoopTurn("search", 0, x))
  BY <1>5, SearchTurnFacts
<1>7. PICK n : n = Size(s) + 1
  OBVIOUS
<1> DEFINE S == {p.itemsLeft} \X Seq(Nat)
<1>8. Keeps(s, "search", 0, S, S)
  <2> SUFFICES ASSUME NEW x, At(s, x), x.st = "Ok", Held(x) \in S, SearchTurn(x).st \in Going
               PROVE  Held(SearchTurn(x)) \in S
    BY <1>5 DEF Keeps, Going
  <2>1. x.itemsLeft = p.itemsLeft /\ x.val \in Seq(Nat)
    BY DEF Held
  <2> QED BY <2>1, SearchTurnValue DEF Held
<1>9. Held(q) \in S
  <2>1. q.val \in Seq(Nat) /\ q.itemsLeft \in {p.itemsLeft}
    BY <1>3
  <2>2. Held(q) = <<q.itemsLeft, q.val>>
    BY DEF Held
  <2> QED BY <2>1, <2>2
<1> HIDE DEF S
<1>10. Runs(f, "search", 0, q, n) /\ SearchNumbers(p) = f[n]
  BY <1>2, <1>4, <1>7
<1>11. f[n].st = "Ok" => Held(f[n]) \in S
  BY <1>0, <1>3, <1>6, <1>7, <1>8, <1>9, <1>10, LoopValues
<1> QED BY <1>10, <1>11 DEF Held, S

\* The text of a response is made of the bytes that have arrived.
LEMMA RespTextValue ==
  ASSUME NEW s \in Texts, NEW p, At(s, p), p.st = "Ok", ParseRespText(p).st = "Ok"
  PROVE  ParseRespText(p).val.text \in Parts(s)
<1>1. CASE Peek(p) # "["
  BY <1>1, RespTextIs, TextWithValue
<1>2. CASE Peek(p) = "["
  <2>1. PICK q, b : q = Advance(p, 1) /\ b = ParseRespTextCode(q)
    OBVIOUS
  <2>2. ~IsEof(p) /\ ParseRespText(p) = CodedText(q)
    BY <1>2, <2>1, PeekFacts, RespTextIs DEF Texts, Size
  <2>3. At(s, q) /\ q.st = "Ok"
    BY <2>1, <2>2, AdvanceOne DEF Texts, Size
  <2>4. At(s, b) /\ CodedText(q) = Chain(b, CodeEnd(b))
    BY <2>1, <2>3, RespTextCodeFacts, EatsFacts DEF CodedText
  <2>5. b.st = "Ok" /\ CodedText(q) = CodeEnd(b) /\ CodeEnd(b).st = "Ok"
    BY <2>2, <2>4, ChainOk
  <2>6. PICK c, d : c = ConsumeByte(b, "]") /\ d = TryConsumeByte(c, "SP")
    OBVIOUS
  <2>7. CodeEnd(b) = Chain(c, TextAfter(c, <<b.val>>)) /\ "]" # "EOF" /\ "SP" # "EOF"
    BY <2>6 DEF CodeEnd
  <2>8. c.st = "Ok" /\ CodeEnd(b) = TextAfter(c, <<b.val>>) /\ At(s, c)
    BY <2>4, <2>5, <2>6, <2>7, ChainOk, ConsumeByteFacts
  <2>9. At(s, d) /\ d.st = "Ok"
    BY <2>6, <2>7, <2>8, TryConsumeFacts
  <2>10. ParseRespText(p) = TextWith(d, <<b.val>>)
    BY <2>2, <2>5, <2>6, <2>8 DEF TextAfter
  <2> QED BY <2>9, <2>10, TextWithValue
<1> QED BY <1>1, <1>2

LEMMA AfterKeywordValue ==
  ASSUME NEW s \in Texts, NEW p, At(s, p), p.st = "Ok", ParseRespTextAfterKeyword(p).st = "Ok"
  PROVE  ParseRespTextAfterKeyword(p).val.text \in Parts(s)
<1>1. CASE Peek(p) # "SP"
  <2>1. ParseRespTextAfterKeyword(p) = Yield(p, NoText)
    BY <1>1 DEF ParseRespTextAfterKeyword, NoText
  <2>2. Yield(p, NoText).val = NoText /\ NoText.text = <<>>
    BY YieldFacts DEF At, NoText
  <2> QED BY <2>1, <2>2 DEF Parts
<1>2. CASE Peek(p) = "SP"
  <2>1. PICK q : q = Advance(p, 1)
    OBVIOUS
  <2>2. ~IsEof(p) /\ ParseRespTextAfterKeyword(p) = ParseRespText(q)
    BY <1>2, <2>1, PeekFacts DEF ParseRespTextAfterKeyword, Texts, Size
  <2>3. At(s, q) /\ q.st = "Ok"
    BY <2>1, <2>2, AdvanceOne DEF Texts, Size
  <2> QED BY <2>2, <2>3, RespTextValue
<1> QED BY <1>1, <1>2

-------------------------------------------------------------------------------
(* The responses of the server. *)

Answers == {ParseResponse(b).response : b \in {c \in Buffers : ParseResponse(c).st = "Ok"}}

LEMMA BufferTexts == ASSUME NEW b \in Buffers PROVE b \in Texts
<1>1. b \in Seq(STRING)
  BY UseAssumption
<1>2. \A k \in 1 .. Len(b) : b[k] \in Symbols
  BY <1>1 DEF Symbols
<1> QED BY <1>1, <1>2 DEF Texts

\* A FETCH response has attributes, a SEARCH response numbers.
LEMMA AnswerKinds ==
  ASSUME NEW r \in Answers
  PROVE  /\ r.kind = "FETCH" => r.data.attributes \in Seq(FetchItems)
         /\ r.kind = "SEARCH" => r.data \in Seq(Nat)
         /\ r.kind = "Status" => \E S : r.data.text.text \in Seq(S)
<1>1. PICK b \in Buffers : ParseResponse(b).st = "Ok" /\ r = ParseResponse(b).response
  BY DEF Answers
<1>2. b \in Texts
  BY BufferTexts
<1>3. Shape(b, r.kind, r.data)
  BY <1>1, <1>2, ResponseShape
<1>4. r.kind = "FETCH" => r.data.attributes \in Seq(FetchItems)
  BY <1>1, <1>2, FetchAttributes
<1>5. ASSUME r.kind = "SEARCH" PROVE r.data \in Seq(Nat)
  <2>1. PICK p : /\ At(b, p) /\ p.st = "Ok" /\ NamedBody(p, "SEARCH").st = "Ok"
                 /\ r.data = NamedBody(p, "SEARCH").val
    BY <1>3, <1>5 DEF Shape, NamedBodies
  <2> QED BY <1>2, <2>1, NamedBodyIs, SearchNumbersValue
<1>6. ASSUME r.kind = "Status" PROVE \E S : r.data.text.text \in Seq(S)
  <2>1. PICK p : /\ At(b, p) /\ p.st = "Ok" /\ ParseRespTextAfterKeyword(p).st = "Ok"
                 /\ r.data.text = ParseRespTextAfterKeyword(p).val
    BY <1>3, <1>6 DEF Shape, NamedBodies
  <2>2. r.data.text.text \in Parts(b)
    BY <1>2, <2>1, AfterKeywordValue
  <2> QED BY <2>2 DEF Parts
<1> QED BY <1>4, <1>5, <1>6

\* The closure finds in the frame what the read loop found in the buffer.
LEMMA SameAgain ==
  ASSUME NEW b \in Buffers
  PROVE  /\ Verdict[b] = ParseResponse(b)
         /\ ParseResponse(b).st = "Ok" => Verdict[SubSeq(b, 1, ParseResponse(b).used)] = ParseResponse(b)
<1>1. b \in Texts /\ Len(b) \in Nat
  BY BufferTexts DEF Texts
<1>2. \A n \in 0 .. Len(b) : Verdict[SubSeq(b, 1, n)] = ParseResponse(SubSeq(b, 1, n))
  <2> SUFFICES ASSUME NEW n \in 0 .. Len(b) PROVE Verdict[SubSeq(b, 1, n)] = ParseResponse(SubSeq(b, 1, n))
    OBVIOUS
  <2>1. SubSeq(b, 1, n) \in Prefixes(b)
    BY DEF Prefixes
  <2>2. SubSeq(b, 1, n) \in UNION {Prefixes(c) : c \in Buffers}
    BY <2>1
  <2> QED BY <2>2 DEF Verdict
<1>3. SubSeq(b, 1, Len(b)) = b
  BY <1>1 DEF Texts
<1>4. Verdict[b] = ParseResponse(b)
  <2>1. Len(b) \in 0 .. Len(b)
    BY <1>1
  <2> QED BY <1>2, <1>3, <2>1
<1>5. ASSUME ParseResponse(b).st = "Ok"
      PROVE  Verdict[SubSeq(b, 1, ParseResponse(b).used)] = ParseResponse(b)
  <2>1. ParseResponse(b).used \in 0 .. Len(b)
    BY <1>1, <1>5, FrameFits DEF Size
  <2> QED BY <1>1, <1>2, <1>5, <2>1, FrameStandsAlone
<1> QED BY <1>4, <1>5

-------------------------------------------------------------------------------
(* The invariant. *)

\* The data of the responses that were routed.
Lots(q) == [k \in DOMAIN q |-> q[k].data]

Fetched == {Result(r) : r \in Answers}

\* What was kept of the responses routed to the command, and of the last error.
RoutedInv == routed \in Seq(Answers) /\ (command = "none" => routed = <<>> /\ results = <<>> /\ ids = <<>>)
FetchInv == command = "FETCH" =>
  /\ results \in Seq(Fetched) /\ Len(results) = Len(routed)
  /\ \A k \in 1 .. Len(routed) : Kept(results[k], routed[k])
SearchInv == command = "SEARCH" => Lots(routed) \in Seq(Seq(Nat)) /\ ids = FlattenSeq(Lots(routed))
FailedInv == Safe(failed.said, failed.shown)

UseInv == RoutedInv /\ FetchInv /\ SearchInv /\ CapabilitiesAreOfNewestList /\ FailedInv

LEMMA NoErrorSafe == Safe(NoError.said, NoError.shown)
<1>1. NoError.said = <<>> /\ NoError.shown = <<>>
  BY DEF NoError
<1>2. Len(<<>>) = 0 /\ DOMAIN <<>> = {} /\ ~(0 > MaxText)
  BY UseAssumption
<1>3. Safe(<<>>, <<>>)
  BY <1>2 DEF Safe
<1> QED BY <1>1, <1>3

LEMMA NoLots == Lots(<<>>) = <<>>
BY DEF Lots

LEMMA UseInit == Init => UseInv
<1> SUFFICES ASSUME Init PROVE UseInv
  OBVIOUS
<1>1. command = "none" /\ routed = <<>> /\ results = <<>> /\ ids = <<>> /\ failed = NoError
  BY DEF Init
<1>2. RoutedInv
  BY <1>1 DEF RoutedInv
<1>3. FetchInv /\ SearchInv /\ CapabilitiesAreOfNewestList
  BY <1>1 DEF FetchInv, SearchInv, CapabilitiesAreOfNewestList
<1> QED BY <1>1, <1>2, <1>3, NoErrorSafe DEF UseInv, FailedInv

LEMMA IssueKeeps ==
  ASSUME UseInv, NEW cmd \in {"CAPABILITY", "FETCH", "SEARCH"}, Issue(cmd)
  PROVE  UseInv'
<1>1. /\ command = "none" /\ command' = cmd /\ failed' = NoError
      /\ routed' = routed /\ results' = results /\ ids' = ids /\ caps' = caps
  BY DEF Issue
<1>2. routed = <<>> /\ results = <<>> /\ ids = <<>> /\ routed \in Seq(Answers)
  BY <1>1 DEF UseInv, RoutedInv
<1>3. RoutedInv'
  BY <1>1, <1>2 DEF RoutedInv
<1>4. FetchInv'
  <2>1. <<>> \in Seq(Fetched) /\ Len(<<>>) = 0 /\ 1 .. 0 = {}
    OBVIOUS
  <2> QED BY <1>1, <1>2, <2>1 DEF FetchInv
<1>5. SearchInv'
  <2>1. <<>> \in Seq(Seq(Nat))
    OBVIOUS
  <2>2. routed' = <<>> /\ ids' = <<>>
    BY <1>1, <1>2
  <2> QED BY <2>1, <2>2, NoLots, FlattenNothing DEF SearchInv
<1>6. CapabilitiesAreOfNewestList'
  BY <1>1, <1>2 DEF CapabilitiesAreOfNewestList
<1>7. FailedInv'
  BY <1>1, NoErrorSafe DEF FailedInv
<1> QED BY <1>3, <1>4, <1>5, <1>6, <1>7 DEF UseInv

\* The responses routed so far, with one more.
LEMMA OneMore ==
  ASSUME NEW S, NEW q \in Seq(S), NEW r \in S
  PROVE  /\ Append(q, r) \in Seq(S) /\ Len(Append(q, r)) = Len(q) + 1 /\ Len(q) \in Nat
         /\ Append(q, r)[Len(q) + 1] = r /\ \A k \in 1 .. Len(q) : Append(q, r)[k] = q[k]
         /\ Append(q, r) # <<>> /\ Last(Append(q, r)) = r
         /\ \A k \in 1 .. Len(q) + 1 : k \in 1 .. Len(q) \/ k = Len(q) + 1
<1>1. /\ Append(q, r) \in Seq(S) /\ Len(Append(q, r)) = Len(q) + 1 /\ Len(q) \in Nat
      /\ Append(q, r)[Len(q) + 1] = r /\ \A k \in 1 .. Len(q) : Append(q, r)[k] = q[k]
  OBVIOUS
<1>2. Append(q, r) # <<>> /\ Last(Append(q, r)) = r
  BY <1>1 DEF Last
<1>3. \A k \in 1 .. Len(q) + 1 : k \in 1 .. Len(q) \/ k = Len(q) + 1
  BY <1>1
<1> QED BY <1>1, <1>2, <1>3

LEMMA OneMoreLot ==
  ASSUME NEW q \in Seq(Answers), NEW r \in Answers, Lots(q) \in Seq(Seq(Nat)), r.data \in Seq(Nat)
  PROVE  Lots(Append(q, r)) = Append(Lots(q), r.data)
<1>1. PICK t : t = Append(q, r)
  OBVIOUS
<1>2. /\ t \in Seq(Answers) /\ Len(t) = Len(q) + 1 /\ Len(q) \in Nat
      /\ t[Len(q) + 1] = r /\ \A k \in 1 .. Len(q) : t[k] = q[k]
      /\ \A k \in 1 .. Len(q) + 1 : k \in 1 .. Len(q) \/ k = Len(q) + 1
  BY <1>1, OneMore
<1>3. DOMAIN q = 1 .. Len(q) /\ DOMAIN t = 1 .. Len(q) + 1
  BY <1>2
<1>4. PICK m, d, n : m = Lots(q) /\ d = r.data /\ n = Len(q)
  OBVIOUS
<1>5. m \in Seq(Seq(Nat)) /\ d \in Seq(Nat) /\ n \in Nat /\ DOMAIN m = 1 .. n /\ \A k \in 1 .. n : m[k] = q[k].data
  BY <1>2, <1>3, <1>4 DEF Lots
<1>6. Len(m) = n
  BY <1>5
<1>7. PICK a : a = Append(m, d)
  OBVIOUS
<1>8. /\ a \in Seq(Seq(Nat)) /\ Len(a) = n + 1 /\ a[n + 1] = d /\ \A k \in 1 .. n : a[k] = m[k]
  BY <1>5, <1>6, <1>7, OneMore
<1>9. DOMAIN a = 1 .. n + 1 /\ a = [k \in 1 .. n + 1 |-> a[k]]
  BY <1>8
<1>10. Lots(t) = [k \in 1 .. n + 1 |-> t[k].data]
  BY <1>3, <1>4 DEF Lots
<1>11. \A k \in 1 .. n + 1 : a[k] = t[k].data
  BY <1>2, <1>4, <1>5, <1>8
<1>12. Lots(t) = a
  BY <1>9, <1>10, <1>11
<1> QED BY <1>1, <1>4, <1>7, <1>12

LEMMA FrameKeeps ==
  ASSUME UseInv, NEW b \in Buffers, NEW v, NEW again, v = Verdict[b], again = Verdict[SubSeq(b, 1, v.used)],
         Frame(v, again)
  PROVE  UseInv'
<1>1. v = ParseResponse(b) /\ v.st = "Ok"
  BY SameAgain DEF Frame
<1>2. again = v
  BY <1>1, SameAgain
<1>3. PICK r : r = v.response
  OBVIOUS
<1>4. r \in Answers
  BY <1>1, <1>3 DEF Answers
<1>5. /\ command # "none" /\ Wants(r) /\ routed' = Append(routed, r) /\ command' = command /\ failed' = failed
      /\ caps' = IF command = "CAPABILITY" THEN TryUpdateFrom(caps, r) ELSE caps
      /\ results' = IF command = "FETCH" THEN results \o FetchResult(r) ELSE results
      /\ ids' = IF command = "SEARCH" THEN ids \o r.data ELSE ids
  BY <1>1, <1>2, <1>3 DEF Frame
<1>6. routed \in Seq(Answers)
  BY DEF UseInv, RoutedInv
<1>7. /\ routed' \in Seq(Answers) /\ Len(routed') = Len(routed) + 1 /\ Len(routed) \in Nat
      /\ routed'[Len(routed) + 1] = r /\ \A k \in 1 .. Len(routed) : routed'[k] = routed[k]
      /\ routed' # <<>> /\ Last(routed') = r
      /\ \A k \in 1 .. Len(routed) + 1 : k \in 1 .. Len(routed) \/ k = Len(routed) + 1
  BY <1>4, <1>5, <1>6, OneMore
<1>8. RoutedInv'
  BY <1>5, <1>7 DEF RoutedInv
<1>9. FetchInv'
  <2> SUFFICES ASSUME command = "FETCH"
               PROVE  /\ results' \in Seq(Fetched) /\ Len(results') = Len(routed')
                      /\ \A k \in 1 .. Len(routed') : Kept(results'[k], routed'[k])
    BY <1>5 DEF FetchInv
  <2>1. PICK f : f = Result(r)
    OBVIOUS
  <2>2. r.kind = "FETCH"
    BY <1>5 DEF Wants, IsFetch
  <2>3. f \in Fetched /\ Kept(f, r)
    BY <1>4, <2>1, <2>2, AnswerKinds, ResultKept DEF Fetched
  <2>4. /\ results \in Seq(Fetched) /\ Len(results) = Len(routed)
        /\ \A k \in 1 .. Len(routed) : Kept(results[k], routed[k])
    BY DEF UseInv, FetchInv
  <2>5. results' = Append(results, f)
    BY <1>5, <2>1, <2>3, <2>4, FetchResultIs, AppendIsConcat
  <2>6. /\ results' \in Seq(Fetched) /\ Len(results') = Len(routed) + 1
        /\ results'[Len(routed) + 1] = f /\ \A k \in 1 .. Len(routed) : results'[k] = results[k]
    BY <2>3, <2>4, <2>5, OneMore
  <2> QED BY <1>7, <2>3, <2>4, <2>6
<1>10. SearchInv'
  <2> SUFFICES ASSUME command = "SEARCH"
               PROVE  Lots(routed') \in Seq(Seq(Nat)) /\ ids' = FlattenSeq(Lots(routed'))
    BY <1>5 DEF SearchInv
  <2>1. r.kind = "SEARCH"
    BY <1>5 DEF Wants, IsSearch
  <2>2. r.data \in Seq(Nat)
    BY <1>4, <2>1, AnswerKinds
  <2>3. Lots(routed) \in Seq(Seq(Nat)) /\ ids = FlattenSeq(Lots(routed))
    BY DEF UseInv, SearchInv
  <2>4. Lots(routed') = Append(Lots(routed), r.data)
    BY <1>4, <1>5, <1>6, <2>2, <2>3, OneMoreLot
  <2>5. Append(Lots(routed), r.data) \in Seq(Seq(Nat))
    BY <2>2, <2>3
  <2>6. FlattenSeq(Append(Lots(routed), r.data)) = ids \o r.data
    BY <2>2, <2>3, FlattenAppend
  <2> QED BY <1>5, <2>4, <2>5, <2>6
<1>11. CapabilitiesAreOfNewestList'
  <2> SUFFICES ASSUME command = "CAPABILITY"
               PROVE  caps' = {w \in KnownAtoms :
                                 <<w>> \in Range(IF r.kind = "Status" THEN CodeOf(r)[1].arg ELSE r.data)}
    BY <1>5, <1>7 DEF CapabilitiesAreOfNewestList
  <2>1. IsCapabilityResponse(r) /\ caps' = TryUpdateFrom(caps, r)
    BY <1>5 DEF Wants
  <2>2. \A l : FromAtoms(l) = {w \in KnownAtoms : <<w>> \in Range(l)}
    BY DEF FromAtoms, Range
  <2>3. CASE r.kind = "CAPABILITY"
    BY <2>1, <2>2, <2>3 DEF TryUpdateFrom
  <2>4. CASE r.kind # "CAPABILITY"
    <3>1. r.kind = "Status" /\ CodeOf(r) # <<>> /\ CodeOf(r)[1].code = "CAPABILITY"
      BY <2>1, <2>4 DEF IsCapabilityResponse
    <3>2. caps' = FromAtoms(CodeOf(r)[1].arg)
      BY <2>1, <2>4, <3>1 DEF TryUpdateFrom
    <3> QED BY <2>2, <3>1, <3>2
  <2> QED BY <2>3, <2>4
<1>12. FailedInv'
  BY <1>5 DEF UseInv, FailedInv
<1> QED BY <1>8, <1>9, <1>10, <1>11, <1>12 DEF UseInv

LEMMA CompleteKeeps ==
  ASSUME UseInv, NEW b \in Buffers, NEW v, v = Verdict[b], Complete(v)
  PROVE  UseInv'
<1>1. v = ParseResponse(b) /\ v.st = "Ok"
  BY SameAgain DEF Complete
<1>2. PICK r : r = v.response
  OBVIOUS
<1>3. r \in Answers /\ r.kind = "Status"
  BY <1>1, <1>2 DEF Answers, Complete
<1>4. PICK x, S : x = r.data.text.text /\ x \in Seq(S)
  BY <1>3, AnswerKinds
<1>5. /\ command' = "none" /\ routed' = <<>> /\ results' = <<>> /\ ids' = <<>>
      /\ \/ failed' = NoError
         \/ failed' = [said |-> Chars(x), shown |-> CommandFailed(x)]
  BY <1>2, <1>4 DEF Complete
<1>6. RoutedInv' /\ FetchInv' /\ SearchInv' /\ CapabilitiesAreOfNewestList'
  BY <1>5 DEF RoutedInv, FetchInv, SearchInv, CapabilitiesAreOfNewestList
<1>7. FailedInv'
  <2>1. CASE failed' = NoError
    BY <2>1, NoErrorSafe DEF FailedInv
  <2>2. CASE failed' = [said |-> Chars(x), shown |-> CommandFailed(x)]
    <3>1. failed'.said = Chars(x) /\ failed'.shown = CommandFailed(x)
      BY <2>2
    <3> QED BY <1>4, <3>1, FailedIsSafe DEF FailedInv
  <2> QED BY <1>5, <2>1, <2>2
<1> QED BY <1>6, <1>7 DEF UseInv

LEMMA UseNext == UseInv /\ [Next]_vars => UseInv'
<1> SUFFICES ASSUME UseInv, [Next]_vars PROVE UseInv'
  OBVIOUS
<1>1. CASE UNCHANGED vars
  BY <1>1 DEF UseInv, RoutedInv, FetchInv, SearchInv, CapabilitiesAreOfNewestList, FailedInv, vars
<1>2. CASE \E cmd \in {"CAPABILITY", "FETCH", "SEARCH"} : Issue(cmd)
  BY <1>2, IssueKeeps
<1>3. CASE \E buffer \in Buffers : \E v \in {Verdict[buffer]} :
              \/ \E again \in {Verdict[SubSeq(buffer, 1, v.used)]} : Frame(v, again)
              \/ Complete(v)
  BY <1>3, FrameKeeps, CompleteKeeps
<1> QED BY <1>1, <1>2, <1>3 DEF Next

(***************************************************************************)
(* For any responses of the server and any number of them, the closure     *)
(* that parses a frame again (session.rs) finds the response the read loop *)
(* found in its buffer (client.rs), every FETCH response gives one result, *)
(* in order, with the values of that response's last UID and last content  *)
(* (fetch_result), and every number of every SEARCH response is returned.  *)
(***************************************************************************)
THEOREM ResultsAreOfTheirFrames == Spec => []ResultsHoldTheirFrames
<1>1. UseInv => ResultsHoldTheirFrames
  <2> SUFFICES ASSUME UseInv PROVE ResultsHoldTheirFrames
    OBVIOUS
  <2>1. DOMAIN routed = 1 .. Len(routed)
    BY DEF UseInv, RoutedInv
  <2>2. ASSUME command = "FETCH"
        PROVE  Len(results) = Len(routed) /\ \A k \in DOMAIN routed : Kept(results[k], routed[k])
    BY <2>1, <2>2 DEF UseInv, FetchInv
  <2>3. command = "SEARCH" => ids = FlattenSeq([k \in DOMAIN routed |-> routed[k].data])
    BY DEF UseInv, SearchInv, Lots
  <2> QED BY <2>2, <2>3 DEF ResultsHoldTheirFrames, Kept
<1> QED BY <1>1, UseInit, UseNext, PTL DEF Spec

(***************************************************************************)
(* After a CAPABILITY command the session knows what the newest list says, *)
(* and nothing of an earlier one (try_update_from, capabilities.rs).       *)
(***************************************************************************)
THEOREM NewestListCounts == Spec => []CapabilitiesAreOfNewestList
<1>1. UseInv => CapabilitiesAreOfNewestList
  BY DEF UseInv
<1> QED BY <1>1, UseInit, UseNext, PTL DEF Spec

(***************************************************************************)
(* Whatever text the server sends with NO or BAD, the error that shows it  *)
(* (command_failed, error.rs) is safe to print, no longer than             *)
(* MAX_SERVER_TEXT_CHARS and a mark, and marked when it was cut.           *)
(***************************************************************************)
THEOREM ErrorsAreSafe == Spec => []ErrorTextIsSafe
<1>1. UseInv => ErrorTextIsSafe
  BY DEF UseInv, FailedInv, Safe, ErrorTextIsSafe
<1> QED BY <1>1, UseInit, UseNext, PTL DEF Spec
===============================================================================
