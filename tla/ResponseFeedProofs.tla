-------------------------- MODULE ResponseFeedProofs --------------------------
(* Proofs about ResponseFeed, for any feeds, any limits of the parser and any  *)
(* number of symbols received.                                                 *)
EXTENDS ResponseFeed, ParserProofs

-------------------------------------------------------------------------------
(* The buffer. *)

\* The buffer is a text, and the verdict is the parser's on it.
FeedInv ==
  /\ input \in Texts
  /\ alphabet \subseteq Symbols
  /\ verdict = ParseResponse(input)

LEMMA FeedInit == Init => FeedInv
<1> SUFFICES ASSUME Init PROVE FeedInv
  OBVIOUS
<1>1. PICK feed \in Feeds : input = feed.opening /\ alphabet = feed.alphabet
  BY DEF Init
<1>2. feed.opening \in Seq(STRING) /\ feed.alphabet \in SUBSET STRING
  BY FeedAssumption
<1>3. alphabet \subseteq Symbols
  BY <1>1, <1>2 DEF Symbols
<1>4. input \in Seq(STRING) /\ \A i \in 1 .. Len(input) : input[i] \in Symbols
  BY <1>1, <1>2 DEF Symbols
<1> QED BY <1>3, <1>4 DEF FeedInv, Init, Texts

\* A text goes on with a symbol.
LEMMA Longer ==
  ASSUME NEW s \in Texts, NEW c \in Symbols
  PROVE  Append(s, c) \in Texts /\ Cut(s, Append(s, c))
<1>1. /\ Append(s, c) \in Seq(Symbols) /\ Len(Append(s, c)) = Len(s) + 1 /\ Len(s) \in Nat
      /\ \A i \in 1 .. Len(s) : Append(s, c)[i] = s[i]
  BY DEF Texts
<1> QED BY <1>1 DEF Texts, Cut, Size

LEMMA FeedNext == FeedInv /\ [Next]_vars => FeedInv' /\ (input' = input \/ Cut(input, input'))
<1> SUFFICES ASSUME FeedInv, [Next]_vars PROVE FeedInv' /\ (input' = input \/ Cut(input, input'))
  OBVIOUS
<1>1. CASE UNCHANGED vars
  BY <1>1 DEF FeedInv, vars
<1>2. CASE Next
  <2>1. PICK symbol \in alphabet : Receive(symbol)
    BY <1>2 DEF Next
  <2>2. /\ symbol \in Symbols /\ alphabet' = alphabet /\ input' = Append(input, symbol)
        /\ verdict' = ParseResponse(input')
    BY <2>1 DEF FeedInv, Receive
  <2> QED BY <2>2, Longer DEF FeedInv
<1> QED BY <1>1, <1>2

(***************************************************************************)
(* The framing contract as the read loop sees it: bytes that arrive later  *)
(* change neither a complete response nor its length, and an error stays   *)
(* an error (parse_response, parser.rs).                                   *)
(***************************************************************************)
THEOREM VerdictStands == Spec => VerdictIsFinal
<1>1. ASSUME FeedInv, FeedInv', [Next]_vars
      PROVE [/\ verdict.st = "Ok" => verdict' = verdict
             /\ verdict.st \notin {"Ok", "Incomplete"} => verdict'.st \notin {"Ok", "Incomplete"}]_vars
  <2>1. verdict = ParseResponse(input) /\ verdict' = ParseResponse(input')
    BY <1>1 DEF FeedInv
  <2>2. input' = input \/ Cut(input, input')
    BY <1>1, FeedNext
  <2> QED BY <2>1, <2>2, MoreBytes
<1> QED BY <1>1, FeedInit, FeedNext, PTL DEF Spec, VerdictIsFinal

-------------------------------------------------------------------------------
(* What only the budget asks of the productions. *)

LEMMA AstringKeeps ==
  ASSUME NEW s \in Texts, NEW p, At(s, p), p.st = "Ok", ParseAstring(p).st = "Ok"
  PROVE  ParseAstring(p).itemsLeft = p.itemsLeft
<1>0. IsParser(p) /\ Size(s) \in Nat
  BY DEF At, Texts, Size
<1>1. CASE IsEof(p)
  <2>1. ParseAstring(p) = Fail(p, "Incomplete")
    BY <1>0, <1>1, PeekFacts DEF ParseAstring
  <2> QED BY <1>0, <2>1, FailFacts
<1>2. CASE ~IsEof(p) /\ Peek(p) = "DQ"
  <2>1. ParseAstring(p) = ParseQuoted(p)
    BY <1>2 DEF ParseAstring
  <2> QED BY <2>1, QuotedValue
<1>3. CASE ~IsEof(p) /\ Peek(p) = "{"
  <2> DEFINE l == ParseLiteral(p)
  <2>1. ParseAstring(p) = Chain(l, FromUtf8(l, l.val))
    BY <1>3 DEF ParseAstring, Then, Chain
  <2>2. At(s, l)
    BY ParseLiteralFacts, EatsFacts
  <2>3. l.st = "Ok" => l.itemsLeft = p.itemsLeft
    BY LiteralValue
  <2> HIDE DEF l
  <2>4. l.st = "Ok" /\ ParseAstring(p) = FromUtf8(l, l.val)
    BY <2>1, ChainOk
  <2> QED BY <2>2, <2>3, <2>4, FromUtf8Facts
<1>4. CASE ~IsEof(p) /\ Peek(p) \notin {"DQ", "{"}
  <2>1. ParseAstring(p) = Token(p, AtomSpecials)
    BY <1>4 DEF ParseAstring, ParseAtom
  <2> QED BY <2>1, TokenValue
<1> QED BY <1>1, <1>2, <1>3, <1>4

LEMMA NumberAfterSpValue ==
  ASSUME NEW s \in Texts, NEW p, At(s, p), p.st = "Ok", NumberAfterSp(p).st = "Ok"
  PROVE  NumberAfterSp(p).val \in Nat /\ NumberAfterSp(p).itemsLeft = p.itemsLeft /\ At(s, NumberAfterSp(p))
<1>1. /\ NumberAfterSp(p) = ParseNumber(ConsumeSp(p)) /\ NumberAfterSp(p).st = "Ok"
      /\ At(s, ConsumeSp(p)) /\ ConsumeSp(p).st = "Ok" /\ ConsumeSp(p).itemsLeft = p.itemsLeft
  BY SpacedOk DEF NumberAfterSp
<1> QED BY <1>1, ParseNumberFacts

\* A key and a number of a STATUS response.
Counted == [key : Texts, value : Nat]

LEMMA StatusItemValue ==
  ASSUME NEW s \in Texts, NEW p, At(s, p), p.st = "Ok", ParseStatusItem(p).st = "Ok"
  PROVE  ParseStatusItem(p).val \in Counted /\ ParseStatusItem(p).itemsLeft = p.itemsLeft
<1> DEFINE a == ParseAtom(p)
           n == NumberAfterSp(a)
           v == [key |-> a.val, value |-> n.val]
<1>1. ParseStatusItem(p) = Chain(a, Revalued(n, v))
  BY StatusItemIs
<1>2. Eats(s, p, a)
  BY ParseAtomFacts
<1>3. a.st = "Ok" => a.val \in Texts /\ a.itemsLeft = p.itemsLeft
  BY AtomValue
<1> HIDE DEF a
<1>4. At(s, a)
  BY <1>2, EatsFacts
<1>5. a.st = "Ok" /\ Revalued(n, v).st = "Ok" /\ ParseStatusItem(p) = Revalued(n, v)
  <2> HIDE DEF n, v
  <2> QED BY <1>1, ChainOk
<1>6. n.st = "Ok"
  BY <1>5, ChainOk DEF Revalued
<1>7. n.val \in Nat /\ n.itemsLeft = p.itemsLeft /\ At(s, n)
  BY <1>3, <1>4, <1>5, <1>6, NumberAfterSpValue
<1>8. v \in Counted
  BY <1>3, <1>5, <1>7 DEF Counted
<1> HIDE DEF n, v
<1> QED BY <1>5, <1>7, <1>8, RevaluedOk

LEMMA StatusLoopValue ==
  ASSUME NEW s \in Texts, NEW p, At(s, p), p.val = <<>>, NEW i, StatusLoop(p, i).st = "Ok"
  PROVE  Held(StatusLoop(p, i)) \in Spent(Counted, Light(Counted), p.itemsLeft)
<1>1. Size(s) \in Nat
  BY DEF Texts, Size
<1>2. PICK f : Runs(f, "status", i, p, Size(s) + 1) /\ StatusLoop(p, i) = f[Size(s) + 1]
  BY <1>1, StatusRuns
<1>3. \A x : LoopTurn("status", i, x) = ItemEnds(ParseStatusItem(x), x.val)
  BY DEF LoopTurn
<1>4. \A x : At(s, x) /\ x.st = "Ok" => Turned(s, x, LoopTurn("status", i, x))
  BY <1>1, <1>3, StatusTurnFacts
<1>5. PICK n : n = Size(s) + 1
  OBVIOUS
<1>6. PICK w : w = Light(Counted)
  OBVIOUS
<1>7. w \in [Counted -> Nat] /\ \A v \in Counted : w[v] = 0
  BY <1>6 DEF Light
<1>8. Lists(s, "status", i, Counted, w)
  <2> SUFFICES ASSUME NEW x, At(s, x), x.st = "Ok"
               PROVE  \E a : /\ At(s, a) /\ a.st # "More" /\ LoopTurn("status", i, x) = ItemEnds(a, x.val)
                             /\ a.st = "Ok" => a.val \in Counted /\ a.itemsLeft + w[a.val] <= x.itemsLeft
    BY DEF Lists
  <2>1. PICK a : a = ParseStatusItem(x)
    OBVIOUS
  <2>2. At(s, a) /\ a.st # "More" /\ x.itemsLeft \in Nat
    BY <2>1, StatusItemFacts, EatsFacts DEF At
  <2>3. a.st = "Ok" => a.val \in Counted /\ a.itemsLeft = x.itemsLeft
    BY <2>1, StatusItemValue
  <2> QED BY <1>3, <1>7, <2>1, <2>2, <2>3
<1>9. f[n].st = "Ok" => Held(f[n]) \in Spent(Counted, w, p.itemsLeft)
  BY <1>2, <1>4, <1>5, <1>7, <1>8, ListLoopValue
<1> QED BY <1>2, <1>5, <1>6, <1>9

LEMMA StatusItemsValue ==
  ASSUME NEW s \in Texts, NEW p, At(s, p), p.st = "Ok", ParseStatusItems(p).st = "Ok"
  PROVE  /\ ParseStatusItems(p).val \in Seq(Counted) /\ ParseStatusItems(p).itemsLeft \in Nat
         /\ ParseStatusItems(p).itemsLeft + Len(ParseStatusItems(p).val) <= p.itemsLeft
<1> DEFINE k == ConsumeByte(p, "(")
           w == StatusLoop(Yield(k, <<>>), 0)
<1>0. "(" # "EOF"
  OBVIOUS
<1>1. ParseStatusItems(p) = Chain(k, ListTail(k, w))
  BY DEF ParseStatusItems, ParenList, Then, Chain, ListTail, StatusLoop
<1>2. At(s, k) /\ k.itemsLeft = p.itemsLeft
  BY <1>0, ConsumeByteFacts, ConsumeByteKeeps
<1> HIDE DEF k
<1>3. k.st = "Ok" /\ ListTail(k, w).st = "Ok" /\ ParseStatusItems(p) = ListTail(k, w)
  <2> HIDE DEF w
  <2> QED BY <1>1, ChainOk
<1>4. At(s, Yield(k, <<>>)) /\ Yield(k, <<>>).itemsLeft = k.itemsLeft /\ Yield(k, <<>>).val = <<>>
  BY <1>2, YieldAt, YieldFacts DEF At
<1>5. w.st = "Ok" => Held(w) \in Spent(Counted, Light(Counted), k.itemsLeft)
  BY <1>4, StatusLoopValue
<1> HIDE DEF w
<1>6. Light(Counted) \in [Counted -> Nat]
  BY DEF Light
<1>7. Held(ListTail(k, w)) \in Spent(Counted, Light(Counted), k.itemsLeft)
  BY <1>2, <1>3, <1>5, <1>6, ListTailValue
<1> QED BY <1>2, <1>3, <1>7, LightSpent DEF Held

LEMMA CapabilityTurnValue ==
  ASSUME NEW s \in Texts, NEW p, At(s, p), p.st = "Ok", NEW b \in Nat, Held(p) \in Spent(Texts, Light(Texts), b),
         CapabilityTurn(p).st \in Going
  PROVE  Held(CapabilityTurn(p)) \in Spent(Texts, Light(Texts), b)
<1> DEFINE x == Advance(p, 1)
           a == ParseAtom(x)
           m == PushItem(a, p.val, a.val)
           c == CapabilityPush(p)
<1>0. Size(s) \in Nat
  BY DEF Texts, Size
<1>1. CASE Peek(p) # "SP"
  BY <1>1 DEF CapabilityTurn
<1>2. CASE Peek(p) = "SP"
  <2>1. ~IsEof(p) /\ CapabilityTurn(p) = Chain(c, Inside(c, c.val))
    BY <1>2, CapabilityTurnIs
  <2>2. At(s, c) /\ c.st # "More"
    BY <2>1, CapabilityPushFacts, EatsFacts
  <2>3. c = Chain(a, m)
    BY DEF CapabilityPush
  <2>4. At(s, x) /\ x.st = "Ok" /\ x.itemsLeft = p.itemsLeft
    BY <1>0, <2>1, AdvanceOne
  <2> HIDE DEF c, x
  <2>5. At(s, a) /\ (a.st = "Ok" => a.val \in Texts /\ a.itemsLeft = x.itemsLeft)
    BY <2>4, ParseAtomFacts, EatsFacts, AtomValue
  <2> HIDE DEF a
  <2>6. c.st = "Ok" /\ CapabilityTurn(p) = Inside(c, c.val)
    BY <2>1, <2>2 DEF Chain, Going
  <2>7. a.st = "Ok" /\ m.st = "Ok" /\ c = m
    <3> HIDE DEF m
    <3> QED BY <2>3, <2>6, ChainOk
  <2>8. m.itemsLeft + 1 = a.itemsLeft /\ m.val = Append(p.val, a.val) /\ At(s, m)
    BY <2>5, <2>7, PushValue
  <2> HIDE DEF m
  <2>9. PICK w : w = Light(Texts) /\ w \in [Texts -> Nat] /\ \A v \in Texts : w[v] = 0
    BY DEF Light
  <2>10. m.itemsLeft \in Nat /\ m.itemsLeft + 1 + w[a.val] <= p.itemsLeft /\ p.itemsLeft \in Nat
    BY <2>4, <2>5, <2>7, <2>8, <2>9 DEF At
  <2>11. <<m.itemsLeft, Append(p.val, a.val)>> \in Spent(Texts, w, b)
    BY <2>5, <2>7, <2>9, <2>10, SpentMore DEF Held
  <2>12. Held(Inside(c, c.val)) = <<m.itemsLeft, m.val>>
    BY <2>2, <2>7, InsideHeld DEF Held, At
  <2> QED BY <2>6, <2>8, <2>9, <2>11, <2>12
<1> QED BY <1>1, <1>2

LEMMA CapabilityAtomsValue ==
  ASSUME NEW s \in Texts, NEW p, At(s, p), p.st = "Ok", CapabilityAtoms(p).st = "Ok"
  PROVE  /\ CapabilityAtoms(p).val \in Seq(Texts) /\ CapabilityAtoms(p).itemsLeft \in Nat
         /\ CapabilityAtoms(p).itemsLeft + Len(CapabilityAtoms(p).val) <= p.itemsLeft
<1>0. Size(s) \in Nat /\ p.itemsLeft \in Nat
  BY DEF Texts, Size, At
<1>1. PICK q : q = Yield(p, <<>>)
  OBVIOUS
<1>2. CapabilityAtoms(p) = CapabilityLoop(q, 0)
  BY <1>1 DEF CapabilityAtoms, CapabilityLoop, While
<1>3. At(s, q) /\ q.itemsLeft = p.itemsLeft /\ q.val = <<>>
  BY <1>1, YieldAt, YieldFacts DEF At
<1>4. PICK f : Runs(f, "capability", 0, q, Size(s) + 1) /\ CapabilityLoop(q, 0) = f[Size(s) + 1]
  BY <1>0, <1>3, CapabilityRuns
<1>5. \A x : LoopTurn("capability", 0, x) = CapabilityTurn(x)
  BY DEF LoopTurn
<1>6. \A x : At(s, x) /\ x.st = "Ok" => Turned(s, x, LoopTurn("capability", 0, x))
  BY <1>5, CapabilityTurnFacts
<1>7. PICK n, S : n = Size(s) + 1 /\ S = Spent(Texts, Light(Texts), p.itemsLeft)
  OBVIOUS
<1>8. Keeps(s, "capability", 0, S, S)
  BY <1>0, <1>5, <1>7, CapabilityTurnValue DEF Keeps, Going
<1>9. Held(q) \in S
  BY <1>0, <1>3, <1>7, NothingSpent DEF Held, Light
<1>10. Runs(f, "capability", 0, q, n) /\ CapabilityAtoms(p) = f[n]
  BY <1>2, <1>4, <1>7
<1>11. f[n].st = "Ok" => Held(f[n]) \in S
  BY <1>0, <1>3, <1>6, <1>7, <1>8, <1>9, <1>10, LoopValues
<1> QED BY <1>7, <1>10, <1>11, LightSpent DEF Held

-------------------------------------------------------------------------------
(* The text of a response, and the code in front of it. *)

\* v is the text of a response read from p, with the code that was in front of it.
SpokenAt(s, p, v) ==
  /\ v.text \in Parts(s)
  /\ \/ v.code = <<>>
     \/ \E a, word : /\ At(s, a) /\ a.st = "Ok" /\ a.itemsLeft = p.itemsLeft /\ CodeSource(a, word).st = "Ok"
                     /\ v.code = <<[code |-> word, arg |-> CodeSource(a, word).val]>>

LEMMA CodeAtomKeeps ==
  ASSUME NEW s \in Texts, NEW p, At(s, p), p.st = "Ok", CodeAtom(p).st = "Ok"
  PROVE  CodeAtom(p).itemsLeft = p.itemsLeft
<1>1. PICK r : r = ScanTo(p, CodeStops)
  OBVIOUS
<1>2. IsParser(r)
  BY <1>1, ScanFacts DEF At
<1>3. CodeAtom(p) = ScannedText(r, p.pos)
  BY <1>1, <1>2, FailFacts DEF CodeAtom
<1> QED BY <1>1, <1>3, ScannedValue

LEMMA RespTextSpoken ==
  ASSUME NEW s \in Texts, NEW p, At(s, p), p.st = "Ok", ParseRespText(p).st = "Ok"
  PROVE  SpokenAt(s, p, ParseRespText(p).val)
<1>1. CASE Peek(p) # "["
  <2>1. ParseRespText(p) = TextWith(p, <<>>)
    BY <1>1, RespTextIs
  <2> QED BY <2>1, TextWithValue DEF SpokenAt
<1>2. CASE Peek(p) = "["
  <2>1. PICK q, a, b, c : /\ q = Advance(p, 1) /\ a = CodeAtom(q) /\ b = CodeArgument(a, a.val)
                          /\ c = ConsumeByte(b, "]")
    OBVIOUS
  <2>2. ~IsEof(p) /\ ParseRespText(p) = CodedText(q)
    BY <1>2, <2>1, PeekFacts, RespTextIs DEF Texts, Size
  <2>3. At(s, q) /\ q.st = "Ok" /\ q.itemsLeft = p.itemsLeft
    BY <2>1, <2>2, AdvanceOne, AdvanceFacts DEF Texts, Size, At
  <2>4. CodedText(q) = Chain(Chain(a, b), CodeEnd(Chain(a, b)))
    BY <2>1, <2>3, RespTextCodeIs DEF CodedText
  <2>5. a.st = "Ok" /\ b.st = "Ok" /\ Chain(a, b) = b /\ CodedText(q) = CodeEnd(b) /\ CodeEnd(b).st = "Ok"
    BY <2>2, <2>4, ChainOk
  <2>6. At(s, a) /\ ~IsEof(a) /\ a.itemsLeft = p.itemsLeft
    BY <2>1, <2>3, <2>5, CodeAtomFacts, CodeAtomKeeps, EatsFacts
  <2>7. At(s, b)
    BY <2>1, <2>3, <2>5, <2>6, CodeArgumentFacts DEF Sound, Turned, Moves
  <2>8. CodeEnd(b) = Chain(c, TextAfter(c, <<b.val>>)) /\ "]" # "EOF" /\ "SP" # "EOF"
    BY <2>1 DEF CodeEnd
  <2>9. c.st = "Ok" /\ CodeEnd(b) = TextAfter(c, <<b.val>>) /\ At(s, c)
    BY <2>1, <2>5, <2>7, <2>8, ChainOk, ConsumeByteFacts
  <2>10. PICK d : d = TryConsumeByte(c, "SP")
    OBVIOUS
  <2>11. At(s, d) /\ d.st = "Ok"
    BY <2>8, <2>9, <2>10, TryConsumeFacts
  <2>12. ParseRespText(p) = TextWith(d, <<b.val>>)
    BY <2>2, <2>5, <2>9, <2>10 DEF TextAfter
  <2>13. ParseRespText(p).val.code = <<b.val>> /\ ParseRespText(p).val.text \in Parts(s)
    BY <2>11, <2>12, TextWithValue
  <2>14. PICK word, e, v : word = CodeWord(a.val) /\ e = CodeSource(a, word) /\ v = [code |-> word, arg |-> e.val]
    OBVIOUS
  <2>15. b = Revalued(e, v) /\ At(s, e)
    BY <2>1, <2>5, <2>6, <2>14, CodeArgumentIs, CodeSourceFacts DEF Sound, Turned, Moves
  <2>16. e.st = "Ok" /\ b.val = v
    BY <2>5, <2>15, RevaluedOk
  <2> QED BY <2>5, <2>6, <2>13, <2>14, <2>16 DEF SpokenAt
<1> QED BY <1>1, <1>2

LEMMA AfterKeywordSpoken ==
  ASSUME NEW s \in Texts, NEW p, At(s, p), p.st = "Ok", ParseRespTextAfterKeyword(p).st = "Ok"
  PROVE  SpokenAt(s, p, ParseRespTextAfterKeyword(p).val)
<1>1. CASE Peek(p) # "SP"
  <2>1. ParseRespTextAfterKeyword(p) = Yield(p, NoText)
    BY <1>1 DEF ParseRespTextAfterKeyword, NoText
  <2>2. Yield(p, NoText).val = NoText /\ NoText.code = <<>> /\ NoText.text = <<>>
    BY YieldFacts DEF At, NoText
  <2>3. <<>> \in Parts(s)
    BY DEF Parts
  <2> QED BY <2>1, <2>2, <2>3 DEF SpokenAt
<1>2. CASE Peek(p) = "SP"
  <2>1. PICK q : q = Advance(p, 1)
    OBVIOUS
  <2>2. ~IsEof(p) /\ ParseRespTextAfterKeyword(p) = ParseRespText(q)
    BY <1>2, <2>1, PeekFacts DEF ParseRespTextAfterKeyword, Texts, Size
  <2>3. At(s, q) /\ q.st = "Ok" /\ q.itemsLeft = p.itemsLeft
    BY <2>1, <2>2, AdvanceOne, AdvanceFacts DEF Texts, Size, At
  <2> QED BY <2>2, <2>3, RespTextSpoken DEF SpokenAt
<1> QED BY <1>1, <1>2

-------------------------------------------------------------------------------
(* The item budget. *)

LEMMA AtomListWithin ==
  ASSUME NEW s \in Texts, NEW p, At(s, p), p.st = "Ok", ParseParenAtomList(p).st = "Ok"
  PROVE  Len(ParseParenAtomList(p).val) \in Nat /\ Len(ParseParenAtomList(p).val) <= p.itemsLeft
<1>1. PICK l, n, m : l = ParseParenAtomList(p).val /\ n = ParseParenAtomList(p).itemsLeft /\ m = p.itemsLeft
  OBVIOUS
<1>2. l \in Seq(Texts) /\ n \in Nat /\ n + Len(l) <= m /\ m \in Nat
  BY <1>1, AtomListValue DEF At
<1>3. Len(l) \in Nat
  BY <1>2
<1> QED BY <1>1, <1>2, <1>3

LEMMA CapabilityWithin ==
  ASSUME NEW s \in Texts, NEW p, At(s, p), p.st = "Ok", CapabilityAtoms(p).st = "Ok"
  PROVE  Len(CapabilityAtoms(p).val) \in Nat /\ Len(CapabilityAtoms(p).val) <= p.itemsLeft
<1>1. PICK l, n, m : l = CapabilityAtoms(p).val /\ n = CapabilityAtoms(p).itemsLeft /\ m = p.itemsLeft
  OBVIOUS
<1>2. l \in Seq(Texts) /\ n \in Nat /\ n + Len(l) <= m /\ m \in Nat
  BY <1>1, CapabilityAtomsValue DEF At
<1>3. Len(l) \in Nat
  BY <1>2
<1> QED BY <1>1, <1>2, <1>3

LEMMA StatusItemsWithin ==
  ASSUME NEW s \in Texts, NEW p, At(s, p), p.st = "Ok", ParseStatusItems(p).st = "Ok"
  PROVE  Len(ParseStatusItems(p).val) <= p.itemsLeft
<1>1. PICK l, n, m : l = ParseStatusItems(p).val /\ n = ParseStatusItems(p).itemsLeft /\ m = p.itemsLeft
  OBVIOUS
<1>2. l \in Seq(Counted) /\ n \in Nat /\ n + Len(l) <= m /\ m \in Nat
  BY <1>1, StatusItemsValue DEF At
<1>3. Len(l) \in Nat
  BY <1>2
<1> QED BY <1>1, <1>2, <1>3

LEMMA AtomListAfterSpWithin ==
  ASSUME NEW s \in Texts, NEW p, At(s, p), p.st = "Ok", AtomListAfterSp(p).st = "Ok"
  PROVE  Len(AtomListAfterSp(p).val) <= p.itemsLeft
<1>1. /\ AtomListAfterSp(p) = ParseParenAtomList(ConsumeSp(p)) /\ At(s, ConsumeSp(p)) /\ ConsumeSp(p).st = "Ok"
      /\ ConsumeSp(p).itemsLeft = p.itemsLeft
  BY SpacedOk DEF AtomListAfterSp
<1> QED BY <1>1, AtomListWithin

LEMMA ListBodyWithin ==
  ASSUME NEW s \in Texts, NEW p, At(s, p), p.st = "Ok", ListBodyAfterSp(p).st = "Ok"
  PROVE  Len(ListBodyAfterSp(p).val.flags) <= p.itemsLeft
<1>1. PICK q : q = ConsumeSp(p)
  OBVIOUS
<1>2. /\ ListBodyAfterSp(p) = ParseListLsubBody(q) /\ At(s, q) /\ q.st = "Ok" /\ q.itemsLeft = p.itemsLeft
  BY <1>1, SpacedOk DEF ListBodyAfterSp
<1>3. PICK a, b, c, v : /\ a = ParseParenAtomList(q) /\ b = NstringAfterSp(a) /\ c = AstringAfterSp(b)
                        /\ v = [flags |-> a.val, delimiter |-> b.val, name |-> c.val]
  OBVIOUS
<1>4. ParseListLsubBody(q) = Chain(a, Chain(b, Revalued(c, v)))
  BY <1>3 DEF ParseListLsubBody, Then, Chain, Revalued, NstringAfterSp, AstringAfterSp, Spaced
<1>5. a.st = "Ok" /\ b.st = "Ok" /\ Revalued(c, v).st = "Ok" /\ ParseListLsubBody(q) = Revalued(c, v)
  BY <1>2, <1>4, ChainOk
<1>6. At(s, a) /\ At(s, b) /\ At(s, c)
  <2>1. At(s, a)
    BY <1>2, <1>3, AtomListFacts, EatsFacts DEF Sound, Turned, Moves
  <2>2. At(s, b)
    BY <1>3, <1>5, <2>1, NstringAfterSpFacts, EatsFacts
  <2> QED BY <1>3, <1>5, <2>1, <2>2, AstringAfterSpFacts, EatsFacts
<1>7. Revalued(c, v).val = v /\ v.flags = a.val
  BY <1>3, <1>5, <1>6, RevaluedOk
<1> QED BY <1>2, <1>3, <1>5, <1>7, AtomListWithin

LEMMA StatusBodyWithin ==
  ASSUME NEW s \in Texts, NEW p, At(s, p), p.st = "Ok", StatusBodyAfterSp(p).st = "Ok"
  PROVE  Len(StatusBodyAfterSp(p).val.items) <= p.itemsLeft
<1>1. PICK q : q = ConsumeSp(p)
  OBVIOUS
<1>2. /\ StatusBodyAfterSp(p) = ParseStatusBody(q) /\ At(s, q) /\ q.st = "Ok" /\ q.itemsLeft = p.itemsLeft
  BY <1>1, SpacedOk DEF StatusBodyAfterSp
<1>3. PICK a, b, v : /\ a = ParseAstring(q) /\ b = StatusItemsAfterSp(a)
                     /\ v = [mailbox |-> a.val, items |-> b.val]
  OBVIOUS
<1>4. ParseStatusBody(q) = Chain(a, Revalued(b, v))
  BY <1>3 DEF ParseStatusBody, Then, Chain, Revalued, StatusItemsAfterSp, Spaced
<1>5. a.st = "Ok" /\ Revalued(b, v).st = "Ok" /\ ParseStatusBody(q) = Revalued(b, v)
  BY <1>2, <1>4, ChainOk
<1>6. At(s, a) /\ a.itemsLeft = p.itemsLeft
  BY <1>2, <1>3, <1>5, ParseAstringFacts, EatsFacts, AstringKeeps
<1>7. At(s, b)
  BY <1>3, <1>5, <1>6, StatusItemsAfterSpFacts, EatsFacts
<1>8. b.st = "Ok" /\ Revalued(b, v).val = v /\ v.items = b.val
  BY <1>3, <1>5, <1>7, RevaluedOk
<1>9. /\ b = ParseStatusItems(ConsumeSp(a)) /\ At(s, ConsumeSp(a)) /\ ConsumeSp(a).st = "Ok"
      /\ ConsumeSp(a).itemsLeft = p.itemsLeft
  BY <1>3, <1>5, <1>6, <1>8, SpacedOk DEF StatusItemsAfterSp
<1> QED BY <1>2, <1>5, <1>8, <1>9, StatusItemsWithin

\* The codes that hold a list.
ListCodes == {"CAPABILITY", "PERMANENTFLAGS", "BADCHARSET"}

LEMMA CodeWithin ==
  ASSUME NEW s \in Texts, NEW p, At(s, p), p.st = "Ok", NEW word \in ListCodes, CodeSource(p, word).st = "Ok"
  PROVE  Len(CodeSource(p, word).val) <= p.itemsLeft
<1>1. CASE word = "CAPABILITY"
  BY <1>1, CodeSourceIs, CapabilityWithin
<1>2. CASE word = "PERMANENTFLAGS"
  BY <1>2, CodeSourceIs, AtomListAfterSpWithin
<1>3. CASE word = "BADCHARSET"
  <2>1. CodeSource(p, word) = CharsetList(p)
    BY <1>3, CodeSourceIs
  <2>2. CASE Peek(p) = "SP"
    <3>1. ~IsEof(p) /\ CharsetList(p) = ParseParenAtomList(Advance(p, 1))
      BY <2>2, PeekFacts DEF CharsetList, Texts, Size
    <3>2. At(s, Advance(p, 1)) /\ Advance(p, 1).st = "Ok" /\ Advance(p, 1).itemsLeft = p.itemsLeft
      BY <3>1, AdvanceOne DEF Texts, Size
    <3> QED BY <2>1, <3>1, <3>2, AtomListWithin
  <2>3. CASE Peek(p) # "SP"
    <3>1. CharsetList(p) = Yield(p, <<>>) /\ Yield(p, <<>>).val = <<>>
      BY <2>3, YieldFacts DEF CharsetList, At
    <3>2. Len(<<>>) = 0 /\ p.itemsLeft \in Nat
      BY DEF At
    <3>3. 0 <= p.itemsLeft
      BY <3>2
    <3> QED BY <2>1, <3>1, <3>2, <3>3
  <2> QED BY <2>2, <2>3
<1> QED BY <1>1, <1>2, <1>3 DEF ListCodes

LEMMA SpokenWithin ==
  ASSUME NEW s \in Texts, NEW p, At(s, p), p.itemsLeft = MaxItems, NEW v, SpokenAt(s, p, v)
  PROVE  CodeElements(v) <= MaxItems
<1>1. 0 <= MaxItems
  BY LimitsAssumption
<1>2. CASE v.code # <<>> /\ v.code[1].code \in ListCodes
  <2>1. PICK a, word : /\ At(s, a) /\ a.st = "Ok" /\ a.itemsLeft = p.itemsLeft /\ CodeSource(a, word).st = "Ok"
                       /\ v.code = <<[code |-> word, arg |-> CodeSource(a, word).val]>>
    BY <1>2 DEF SpokenAt
  <2>2. v.code[1].code = word /\ v.code[1].arg = CodeSource(a, word).val
    BY <2>1
  <2> QED BY <1>2, <2>1, <2>2, CodeWithin DEF CodeElements, ListCodes
<1>3. CASE ~(v.code # <<>> /\ v.code[1].code \in ListCodes)
  <2>1. CodeElements(v) = 0
    BY <1>3 DEF CodeElements, ListCodes
  <2> QED BY <1>1, <2>1
<1> QED BY <1>2, <1>3

\* The elements of a list of attributes are what the budget was charged.
LEMMA ElementsCharged ==
  ASSUME NEW l \in Seq(FetchItems), NEW g, Charge(g, l, FetchWeight)
  PROVE  Elements(l) = g[Len(l)]
<1> DEFINE n == Len(l)
           W(k) == IF l[k].att = "FLAGS" THEN Len(l[k].data) ELSE 0
           Up(f) == f = [k \in 0 .. n |-> IF k = 0 THEN 0 ELSE f[k - 1] + 1 + W(k)]
           f == CHOOSE h : Up(h)
<1>1. n \in Nat /\ \A k \in 1 .. n : l[k] \in FetchItems
  OBVIOUS
<1>2. Elements(l) = f[n]
  BY DEF Elements
<1>3. \A k \in 1 .. n : FetchWeight[l[k]] = W(k)
  BY <1>1 DEF FetchWeight
<1>4. g \in [0 .. n -> Nat] /\ g[0] = 0 /\ \A k \in 1 .. n : g[k] = g[k - 1] + 1 + W(k)
  BY <1>3 DEF Charge
<1> HIDE DEF n, W
<1>5. Up(g)
  <2>1. \A k \in 0 .. n : k # 0 => k \in 1 .. n
    BY <1>1
  <2>2. \A k \in 0 .. n : g[k] = IF k = 0 THEN 0 ELSE g[k - 1] + 1 + W(k)
    BY <1>4, <2>1
  <2> QED BY <1>4, <2>2
<1>6. Up(f)
  BY <1>5
<1> HIDE DEF f
<1>7. \A k \in 0 .. n : f[k] = IF k = 0 THEN 0 ELSE f[k - 1] + 1 + W(k)
  BY <1>6
<1>8. \A k \in 0 .. n : f[k] = g[k]
  <2> SUFFICES ASSUME NEW j \in 0 .. n, f[j] # g[j] PROVE FALSE
    OBVIOUS
  <2> DEFINE Bad == {k \in 0 .. n : f[k] # g[k]}
  <2>1. Bad \in SUBSET Nat /\ Bad # {}
    BY <1>1
  <2>2. PICK k \in Bad : \A m \in Bad : k <= m
    BY <2>1, LeastNumber
  <2>3. k \in 0 .. n /\ f[k] # g[k]
    OBVIOUS
  <2>4. k # 0
    BY <1>1, <1>4, <1>7, <2>3
  <2>5. k \in 1 .. n /\ k - 1 \in 0 .. n /\ ~(k <= k - 1)
    BY <1>1, <2>3, <2>4
  <2>6. f[k - 1] = g[k - 1]
    BY <2>2, <2>5
  <2>7. f[k] = f[k - 1] + 1 + W(k) /\ g[k] = g[k - 1] + 1 + W(k)
    BY <1>4, <1>7, <2>3, <2>4, <2>5
  <2> QED BY <2>3, <2>6, <2>7
<1>9. f[n] = g[n]
  BY <1>1, <1>8
<1> QED BY <1>2, <1>9 DEF n

LEMMA FetchWithin ==
  ASSUME NEW s \in Texts, NEW p, At(s, p), p.st = "Ok", p.itemsLeft = MaxItems, ParseFetchMsgAtt(p).st = "Ok"
  PROVE  Elements(ParseFetchMsgAtt(p).val) <= MaxItems
<1>1. PICK l, n : l = ParseFetchMsgAtt(p).val /\ n = ParseFetchMsgAtt(p).itemsLeft
  OBVIOUS
<1>2. <<n, l>> \in Spent(FetchItems, FetchWeight, MaxItems)
  BY <1>1, FetchMsgAttValue DEF Held
<1>3. n \in Nat /\ l \in Seq(FetchItems) /\ MaxItems \in Nat
  BY <1>2, LimitsAssumption DEF Spent
<1>4. PICK g : Charge(g, l, FetchWeight) /\ g[Len(l)] + n <= MaxItems
  BY <1>2 DEF Spent
<1>5. Elements(l) = g[Len(l)]
  BY <1>3, <1>4, ElementsCharged
<1>6. Len(l) \in 0 .. Len(l)
  BY <1>3
<1>7. g[Len(l)] \in Nat
  BY <1>4, <1>6 DEF Charge
<1>8. PICK u : u = g[Len(l)]
  OBVIOUS
<1>9. u \in Nat /\ u + n <= MaxItems
  BY <1>4, <1>7, <1>8
<1>10. u <= MaxItems
  BY <1>3, <1>9
<1> QED BY <1>1, <1>5, <1>8, <1>10

LEMMA FeedBudget == FeedInv => BudgetIsShared
<1> SUFFICES ASSUME FeedInv PROVE ListItems <= MaxItems
  BY DEF BudgetIsShared
<1>0. MaxItems \in Nat /\ 0 <= MaxItems
  BY LimitsAssumption
<1>1. CASE verdict.st # "Ok"
  <2>1. ListItems = 0
    BY <1>1 DEF ListItems, Is
  <2> QED BY <1>0, <2>1
<1>2. CASE verdict.st = "Ok"
  <2>1. PICK kind, d : kind = verdict.response.kind /\ d = verdict.response.data
    OBVIOUS
  <2>2. input \in Texts /\ Shape(input, kind, d)
    BY <1>2, <2>1, ResponseShape DEF FeedInv
  <2>3. /\ kind \in {"CAPABILITY", "FLAGS"} => ListItems = Len(d)
        /\ kind \in {"LIST", "LSUB"} => ListItems = Len(d.flags)
        /\ kind = "STATUS" => ListItems = Len(d.items)
        /\ kind = "FETCH" => ListItems = Elements(d.attributes)
        /\ kind = "Status" => ListItems = CodeElements(d.text)
        /\ kind = "Continue" => ListItems = CodeElements(d)
        /\ kind \in {"EXISTS", "RECENT", "EXPUNGE", "Other", "SEARCH"} => ListItems = 0
    BY <1>2, <2>1 DEF ListItems, Is, Data
  <2>4. CASE kind \in {"EXISTS", "RECENT", "EXPUNGE", "Other"}
    BY <1>0, <2>3, <2>4
  <2>5. CASE kind \notin {"EXISTS", "RECENT", "EXPUNGE", "Other"}
    <3>1. PICK p : /\ At(input, p) /\ p.st = "Ok" /\ p.itemsLeft = MaxItems
                   /\ \/ kind = "Continue" /\ ParseRespText(p).st = "Ok" /\ d = ParseRespText(p).val
                      \/ /\ kind = "Status" /\ ParseRespTextAfterKeyword(p).st = "Ok"
                         /\ d.text = ParseRespTextAfterKeyword(p).val
                      \/ kind = "FETCH" /\ ParseFetchMsgAtt(p).st = "Ok" /\ d.attributes = ParseFetchMsgAtt(p).val
                      \/ kind \in NamedBodies /\ NamedBody(p, kind).st = "Ok" /\ d = NamedBody(p, kind).val
      BY <2>2, <2>5 DEF Shape
    <3>2. CASE kind = "Continue" /\ ParseRespText(p).st = "Ok" /\ d = ParseRespText(p).val
      BY <2>2, <2>3, <3>1, <3>2, RespTextSpoken, SpokenWithin
    <3>3. CASE /\ kind = "Status" /\ ParseRespTextAfterKeyword(p).st = "Ok"
               /\ d.text = ParseRespTextAfterKeyword(p).val
      BY <2>2, <2>3, <3>1, <3>3, AfterKeywordSpoken, SpokenWithin
    <3>4. CASE kind = "FETCH" /\ ParseFetchMsgAtt(p).st = "Ok" /\ d.attributes = ParseFetchMsgAtt(p).val
      BY <2>2, <2>3, <3>1, <3>4, FetchWithin
    <3>5. CASE kind \in NamedBodies /\ NamedBody(p, kind).st = "Ok" /\ d = NamedBody(p, kind).val
      <4>1. CASE kind = "CAPABILITY"
        BY <2>2, <2>3, <3>1, <3>5, <4>1, NamedBodyIs, CapabilityWithin
      <4>2. CASE kind = "FLAGS"
        BY <2>2, <2>3, <3>1, <3>5, <4>2, NamedBodyIs, AtomListAfterSpWithin
      <4>3. CASE kind \in {"LIST", "LSUB"}
        BY <2>2, <2>3, <3>1, <3>5, <4>3, NamedBodyIs, ListBodyWithin
      <4>4. CASE kind = "STATUS"
        BY <2>2, <2>3, <3>1, <3>5, <4>4, NamedBodyIs, StatusBodyWithin
      <4>5. CASE kind = "SEARCH"
        BY <1>0, <2>3, <4>5
      <4> QED BY <3>5, <4>1, <4>2, <4>3, <4>4, <4>5 DEF NamedBodies
    <3> QED BY <3>1, <3>2, <3>3, <3>4, <3>5
  <2> QED BY <2>4, <2>5
<1> QED BY <1>1, <1>2

(***************************************************************************)
(* No response that is accepted holds more than MAX_ITEMS_PER_RESPONSE     *)
(* list elements (push_item, parser.rs), whichever of its lists they are   *)
(* in: the flags inside a FETCH attribute and the attributes themselves    *)
(* are charged to one budget.                                              *)
(***************************************************************************)
THEOREM BudgetHolds == Spec => []BudgetIsShared
<1>1. FeedInv /\ [Next]_vars => FeedInv'
  BY FeedNext
<1> QED BY <1>1, FeedInit, FeedBudget, PTL DEF Spec

-------------------------------------------------------------------------------
(* What is printed of a response. *)

\* Octets and their blot have the same length.
LEMMA BlotLength ==
  ASSUME NEW x \in Texts
  PROVE  Len([k \in DOMAIN x |-> "?"]) = Len(x)
<1>1. Len(x) \in Nat /\ DOMAIN x = 1 .. Len(x)
  BY DEF Texts
<1>2. PICK n : n = Len(x)
  OBVIOUS
<1>3. PICK f : f = [k \in 1 .. n |-> "?"]
  OBVIOUS
<1>4. f \in [1 .. n -> {"?"}] /\ n \in Nat
  BY <1>1, <1>2, <1>3
<1>5. f \in Seq({"?"}) /\ DOMAIN f = 1 .. n
  BY <1>4
<1>6. Len(f) = n
  BY <1>4, <1>5
<1> QED BY <1>1, <1>2, <1>3, <1>6

LEMMA AttributeHides ==
  ASSUME NEW a \in FetchItems
  PROVE  DebugAttribute(a) = DebugAttribute(Blotted(a))
<1>1. CASE a.att \in {"FLAGS", "INTERNALDATE", "RFC822.SIZE", "UID"}
  BY <1>1 DEF Blotted
<1>2. CASE a \in SectionItems
  <2>1. a.att = "BODY[]" /\ a.data \in Options
    BY <1>2 DEF SectionItems
  <2>2. PICK b : b = Blotted(a)
    OBVIOUS
  <2>3. b = [a EXCEPT !.data = [k \in DOMAIN a.data |-> [j \in DOMAIN a.data[k] |-> "?"]]]
    BY <2>1, <2>2 DEF Blotted
  <2>4. /\ b.att = "BODY[]" /\ b.section = a.section /\ b.origin = a.origin
        /\ b.data = [k \in DOMAIN a.data |-> [j \in DOMAIN a.data[k] |-> "?"]]
    BY <1>2, <2>1, <2>3 DEF SectionItems
  <2>5. CASE a.data = <<>>
    <3>1. b.data = <<>>
      BY <2>4, <2>5
    <3> QED BY <2>1, <2>2, <2>4, <2>5, <3>1 DEF DebugAttribute
  <2>6. CASE a.data # <<>>
    <3>1. PICK x \in Texts : a.data = <<x>>
      BY <2>1, <2>6 DEF Options
    <3>2. a.data[1] = x /\ DOMAIN a.data = {1}
      BY <3>1
    <3>3. b.data # <<>> /\ b.data[1] = [j \in DOMAIN x |-> "?"]
      BY <2>4, <3>2
    <3>4. ByteCount(b.data[1]) = ByteCount(a.data[1])
      BY <3>2, <3>3, BlotLength DEF ByteCount
    <3> QED BY <2>1, <2>2, <2>4, <2>6, <3>3, <3>4 DEF DebugAttribute
  <2> QED BY <2>5, <2>6
<1>3. CASE a \in NamedItems /\ a.att \notin {"FLAGS", "INTERNALDATE", "RFC822.SIZE", "UID"}
  <2>1. PICK word \in FetchNames : a \in [att : {word}, data : FetchData(word)]
    BY <1>3 DEF NamedItems
  <2>2. a.att = word /\ a.att # "BODY[]" /\ a.data \in Texts
    BY <1>3, <2>1 DEF FetchNames, FetchData, NumberNames
  <2>3. PICK b : b = Blotted(a)
    OBVIOUS
  <2>4. b = [a EXCEPT !.data = [j \in DOMAIN a.data |-> "?"]]
    BY <1>3, <2>2, <2>3 DEF Blotted
  <2>5. b.att = a.att /\ b.data = [j \in DOMAIN a.data |-> "?"]
    BY <2>1, <2>4
  <2>6. ByteCount(b.data) = ByteCount(a.data)
    BY <2>2, <2>5, BlotLength DEF ByteCount
  <2> QED BY <1>3, <2>2, <2>3, <2>5, <2>6 DEF DebugAttribute
<1> QED BY <1>1, <1>2, <1>3 DEF FetchItems

(***************************************************************************)
(* What `Debug` prints of a FETCH response (ast.rs) does not depend on any *)
(* octet of a body, a header, an envelope or a structure.                  *)
(***************************************************************************)
THEOREM DebugIsSafe == Spec => []DebugHidesContent
<1>1. FeedInv => DebugHidesContent
  <2> SUFFICES ASSUME FeedInv, Is({"FETCH"}), NEW k \in DOMAIN Data.attributes
               PROVE  DebugAttribute(Data.attributes[k]) = DebugAttribute(Blotted(Data.attributes[k]))
    BY DEF DebugHidesContent
  <2>1. /\ input \in Texts /\ verdict = ParseResponse(input)
        /\ ParseResponse(input).st = "Ok" /\ ParseResponse(input).response.kind = "FETCH"
    BY DEF FeedInv, Is
  <2>2. Data.attributes \in Seq(FetchItems)
    BY <2>1, FetchAttributes DEF Data
  <2>3. Data.attributes[k] \in FetchItems
    BY <2>2
  <2> QED BY <2>3, AttributeHides
<1>2. FeedInv /\ [Next]_vars => FeedInv'
  BY FeedNext
<1> QED BY <1>1, <1>2, FeedInit, PTL DEF Spec

-------------------------------------------------------------------------------
(* Lines.  HeaderAt, InLiteral and InFetchName (ResponseFeed), of any text. *)

HeaderIn(s, k, n) ==
  /\ k > 1 /\ s[k] = "LF" /\ s[k - 1] = "CR"
  /\ \E j \in 1 .. k - 4 :
       /\ s[j] = "{" /\ s[k - 2] = "}"
       /\ \A i \in j + 1 .. k - 3 : IsDigit(s[i])
       /\ DecimalValue(SubSeq(s, j + 1, k - 3)) = n

LiteralIn(s, k) == \E n \in 0 .. MaxLiteral :
  HeaderIn(s, k, n) \/ \E h \in 1 .. k - 1 : HeaderIn(s, h, n) /\ k - 1 <= h + n

FirstIn(s, j) ==
  LET number == ParseNumber(Advance(New(s), 2))
  IN  /\ Size(s) > 1 /\ s[1] = "*" /\ s[2] = "SP"
      /\ number.st = "Ok" /\ j = number.pos + 4
      /\ s[j - 4] = "SP" /\ s[j - 3] = "FETCH" /\ s[j - 2] = "SP" /\ s[j - 1] = "("

NextIn(s, h, j) == \E left \in 0 .. MaxItems :
  LET attribute == ParseOneFetchAtt([New(s) EXCEPT !.pos = h, !.itemsLeft = left])
  IN  attribute.st = "Ok" /\ attribute.pos = j - 1 /\ s[j - 1] = "SP"

\* Places where names of FETCH attributes begin, one behind another.
NamesIn(s) ==
  {names \in SUBSET {j \in 2 .. Size(s) + 1 : s[j - 1] \in {"SP", "("}} :
     \A j \in names : FirstIn(s, j) \/ \E h \in names : h < j /\ NextIn(s, h, j)}

NameIn(s) == \E names \in NamesIn(s) :
  \E j \in names : \A k \in j .. Size(s) : s[k] \notin {"SP", "[", ")"}

\* From i up to j no line ends: every CR belongs to a literal.
Free(s, i, j) == \A k \in i .. j - 1 : s[k] = "CR" => LiteralIn(s, k + 1)

\* A line has come in: it ends in a CRLF outside a literal and outside the name of a FETCH attribute.
LineIsIn(s) ==
  /\ Size(s) > 1 /\ s[Size(s)] = "LF" /\ s[Size(s) - 1] = "CR"
  /\ ~LiteralIn(s, Size(s)) /\ ~NameIn(s)

\* The production from p to a stays on its line, and it is decided if the line has come in.
OnLine(s, p, a) ==
  /\ At(s, a)
  /\ a.st \in Going => Free(s, p.pos, a.pos)
  /\ LineIsIn(s) /\ p.pos < Size(s) => a.st # "Incomplete"

LEMMA FreeNone ==
  ASSUME NEW s, NEW i \in Nat
  PROVE  Free(s, i, i)
BY DEF Free

LEMMA FreeOne ==
  ASSUME NEW s, NEW i \in Nat, s[i] # "CR"
  PROVE  Free(s, i, i + 1)
BY DEF Free

LEMMA FreeJoin ==
  ASSUME NEW s, NEW i \in Nat, NEW j \in Nat, NEW l \in Nat, Free(s, i, j), Free(s, j, l)
  PROVE  Free(s, i, l)
<1> SUFFICES ASSUME NEW k \in i .. l - 1, s[k] = "CR" PROVE LiteralIn(s, k + 1)
  BY DEF Free
<1>1. k \in i .. j - 1 \/ k \in j .. l - 1
  OBVIOUS
<1> QED BY <1>1 DEF Free

\* What stays on the line stops before its CRLF.
LEMMA FreeInside ==
  ASSUME NEW s, Size(s) \in Nat, LineIsIn(s), NEW i \in Nat, i < Size(s), NEW j \in Nat, Free(s, i, j)
  PROVE  j < Size(s)
<1> SUFFICES ASSUME j >= Size(s) PROVE FALSE
  OBVIOUS
<1>1. Size(s) - 1 \in i .. j - 1 /\ Size(s) - 1 + 1 = Size(s)
  OBVIOUS
<1> QED BY <1>1 DEF Free, LineIsIn

\* One production after another.
LEMMA JoinOnLine ==
  ASSUME NEW s, Size(s) \in Nat, NEW p, At(s, p), NEW a, OnLine(s, p, a), a.st \in Going, NEW b, b.pos = a.pos,
         NEW c, OnLine(s, b, c)
  PROVE  OnLine(s, p, c)
<1>1. p.pos \in Nat /\ a.pos \in Nat /\ c.pos \in Nat
  BY DEF OnLine, At
<1>2. Free(s, p.pos, a.pos)
  BY DEF OnLine
<1>3. c.st \in Going => Free(s, p.pos, c.pos)
  BY <1>1, <1>2, FreeJoin DEF OnLine
<1>4. LineIsIn(s) /\ p.pos < Size(s) => a.pos < Size(s)
  BY <1>1, <1>2, FreeInside
<1> QED BY <1>3, <1>4 DEF OnLine

LEMMA ChainOnLine ==
  ASSUME NEW s, Size(s) \in Nat, NEW p, At(s, p), NEW a, OnLine(s, p, a), NEW c, a.st = "Ok" => OnLine(s, a, c)
  PROVE  OnLine(s, p, Chain(a, c))
<1>1. CASE a.st = "Ok"
  BY <1>1, JoinOnLine DEF Chain, Going
<1>2. CASE a.st # "Ok"
  BY <1>2 DEF Chain
<1> QED BY <1>1, <1>2

LEMMA StayOnLine ==
  ASSUME NEW s, NEW p, At(s, p), NEW a, At(s, a), a.pos = p.pos, a.st # "Incomplete"
  PROVE  OnLine(s, p, a)
<1>1. p.pos \in Nat
  BY DEF At
<1> QED BY <1>1, FreeNone DEF OnLine

LEMMA YieldOnLine ==
  ASSUME NEW s, NEW p, At(s, p), p.st = "Ok", NEW v
  PROVE  OnLine(s, p, Yield(p, v)) /\ OnLine(s, p, p)
<1>1. At(s, Yield(p, v)) /\ Yield(p, v).pos = p.pos /\ Yield(p, v).st = "Ok"
  BY YieldAt, YieldFacts DEF At
<1> QED BY <1>1, StayOnLine

LEMMA RevaluedOnLine ==
  ASSUME NEW s, Size(s) \in Nat, NEW p, At(s, p), NEW a, OnLine(s, p, a), NEW v
  PROVE  OnLine(s, p, Revalued(a, v))
<1>1. At(s, a)
  BY DEF OnLine
<1> QED BY <1>1, YieldOnLine, ChainOnLine DEF Revalued

LEMMA InsideOnLine ==
  ASSUME NEW s, NEW p, NEW a, OnLine(s, p, a), a.st \in Going, NEW d
  PROVE  OnLine(s, p, Inside(a, d)) /\ OnLine(s, p, GoOn(a))
<1>1. At(s, a)
  BY DEF OnLine
<1>2. At(s, Inside(a, d)) /\ Inside(a, d).pos = a.pos /\ Inside(a, d).st = "More"
  BY <1>1, InsideFacts
<1>3. At(s, GoOn(a)) /\ GoOn(a).pos = a.pos /\ GoOn(a).st = "More"
  BY <1>1, GoOnAt
<1> QED BY <1>2, <1>3 DEF OnLine

LEMMA FailOnLine ==
  ASSUME NEW s, NEW p, NEW q, At(s, q), NEW e, e \notin Going, e # "Incomplete" \/ ~(LineIsIn(s) /\ p.pos < Size(s))
  PROVE  OnLine(s, p, Fail(q, e))
BY Refuses DEF OnLine

LEMMA StepOnLine ==
  ASSUME NEW s, Size(s) \in Nat, NEW p, At(s, p), p.st = "Ok", ~IsEof(p), Peek(p) # "CR"
  PROVE  OnLine(s, p, Advance(p, 1))
<1>1. At(s, Advance(p, 1)) /\ Advance(p, 1).pos = p.pos + 1 /\ Advance(p, 1).st = "Ok"
  BY AdvanceOne
<1>2. p.pos \in Nat /\ s[p.pos] # "CR"
  BY PeekFacts DEF At
<1> QED BY <1>1, <1>2, FreeOne DEF OnLine

\* A production that begins with a symbol.
LEMMA AfterStep ==
  ASSUME NEW s, Size(s) \in Nat, NEW p, At(s, p), p.st = "Ok", ~IsEof(p), Peek(p) # "CR",
         NEW a, OnLine(s, Advance(p, 1), a)
  PROVE  OnLine(s, p, a)
<1>1. OnLine(s, p, Advance(p, 1)) /\ Advance(p, 1).st = "Ok"
  BY StepOnLine, AdvanceOne
<1> QED BY <1>1, JoinOnLine DEF Going

\* At the end of the text nothing has come in.
LEMMA EndOnLine ==
  ASSUME NEW s, Size(s) \in Nat, NEW p, At(s, p), IsEof(p), NEW q, At(s, q)
  PROVE  OnLine(s, p, Fail(q, "Incomplete"))
<1>1. ~(p.pos < Size(s)) /\ "Incomplete" \notin Going
  BY PeekFacts DEF At, Going
<1> QED BY <1>1, FailOnLine

-------------------------------------------------------------------------------
(* Tokens stay on their line. *)

LEMMA ScanOnLine ==
  ASSUME NEW s \in Texts, NEW p, At(s, p), p.st = "Ok", NEW T, "CR" \in T
  PROVE  /\ OnLine(s, p, ScanTo(p, T)) /\ ScanTo(p, T).st = "Ok"
         /\ LineIsIn(s) /\ p.pos < Size(s) => ~IsEof(ScanTo(p, T))
<1>0. Size(s) \in Nat /\ p.pos \in Nat /\ 1 <= p.pos
  BY DEF Texts, Size, At
<1>1. PICK q : q = ScanTo(p, T)
  OBVIOUS
<1>2. At(s, q) /\ q.pos \in p.pos .. Size(s) + 1 /\ q.st = "Ok" /\ Stops(Places(s, T), p.pos, Size(s), q.pos)
  BY <1>1, ScanFacts
<1>3. Free(s, p.pos, q.pos)
  <2> SUFFICES ASSUME NEW k \in p.pos .. q.pos - 1 PROVE s[k] # "CR"
    BY DEF Free
  <2>1. k \in 1 .. Size(s) /\ k \notin Places(s, T)
    BY <1>0, <1>2 DEF Stops
  <2> QED BY <2>1 DEF Places
<1>4. LineIsIn(s) /\ p.pos < Size(s) => q.pos < Size(s)
  BY <1>0, <1>2, <1>3, FreeInside
<1>5. LineIsIn(s) /\ p.pos < Size(s) => ~IsEof(q)
  BY <1>0, <1>2, <1>4, PeekFacts
<1> QED BY <1>1, <1>2, <1>3, <1>5 DEF OnLine

LEMMA Utf8OnLine ==
  ASSUME NEW s, NEW p, At(s, p), p.st = "Ok", NEW x
  PROVE  OnLine(s, p, FromUtf8(p, x))
BY FromUtf8Facts, StayOnLine

LEMMA ScannedOnLine ==
  ASSUME NEW s \in Texts, NEW p, At(s, p), p.st = "Ok", NEW T, "CR" \in T, NEW i
  PROVE  OnLine(s, p, ScannedText(ScanTo(p, T), i))
<1>0. Size(s) \in Nat
  BY DEF Texts, Size
<1>1. PICK q : q = ScanTo(p, T)
  OBVIOUS
<1>2. /\ OnLine(s, p, q) /\ q.st = "Ok" /\ At(s, q)
      /\ LineIsIn(s) /\ p.pos < Size(s) => ~IsEof(q)
  BY <1>1, ScanOnLine, ScanFacts
<1>3. CASE IsEof(q)
  <2>1. ScannedText(q, i) = Fail(q, "Incomplete") /\ "Incomplete" \notin Going
    BY <1>3 DEF ScannedText, Going
  <2> QED BY <1>1, <1>2, <1>3, <2>1, FailOnLine
<1>4. CASE ~IsEof(q)
  <2>1. ScannedText(q, i) = FromUtf8(q, Taken(q, i))
    BY <1>4 DEF ScannedText
  <2> QED BY <1>0, <1>1, <1>2, <2>1, Utf8OnLine, JoinOnLine DEF Going
<1> QED BY <1>3, <1>4

LEMMA TokenOnLine ==
  ASSUME NEW s \in Texts, NEW p, At(s, p), p.st = "Ok", NEW T, "CR" \in T
  PROVE  OnLine(s, p, Token(p, T))
<1>1. PICK q : q = ScanTo(p, T)
  OBVIOUS
<1>2. At(s, q)
  BY <1>1, ScanFacts
<1>3. CASE q.pos = p.pos /\ ~IsEof(q)
  <2>1. Token(p, T) = Fail(q, "Malformed") /\ "Malformed" \notin Going
    BY <1>1, <1>3 DEF Token, Going
  <2> QED BY <1>2, <2>1, FailOnLine
<1>4. CASE ~(q.pos = p.pos /\ ~IsEof(q))
  <2>1. Token(p, T) = ScannedText(ScanTo(p, T), p.pos)
    BY <1>1, <1>4 DEF Token
  <2> QED BY <2>1, ScannedOnLine
<1> QED BY <1>3, <1>4

LEMMA AtomOnLine ==
  ASSUME NEW s \in Texts, NEW p, At(s, p), p.st = "Ok"
  PROVE  OnLine(s, p, ParseAtom(p)) /\ OnLine(s, p, ParseTag(p))
<1>1. "CR" \in AtomSpecials /\ "CR" \in {"SP"} \cup LineBreak
  BY DEF AtomSpecials, LineBreak
<1> QED BY <1>1, TokenOnLine DEF ParseAtom, ParseTag

LEMMA TextOnLine ==
  ASSUME NEW s \in Texts, NEW p, At(s, p), p.st = "Ok"
  PROVE  OnLine(s, p, ParseText(p))
<1>1. "CR" \in LineBreak
  BY DEF LineBreak
<1> QED BY <1>1, ScannedOnLine DEF ParseText

LEMMA ReadUntilOnLine ==
  ASSUME NEW s \in Texts, NEW p, At(s, p), p.st = "Ok", NEW c
  PROVE  OnLine(s, p, ReadUntilByte(p, c))
<1>1. PICK T : T = {c} \cup LineBreak
  OBVIOUS
<1>2. "CR" \in T
  BY <1>1 DEF LineBreak
<1>3. At(s, ScanTo(p, T)) /\ "Malformed" \notin Going
  BY ScanFacts DEF Going
<1>4. ReadUntilByte(p, c) = IF Peek(ScanTo(p, T)) \in LineBreak THEN Fail(ScanTo(p, T), "Malformed")
                            ELSE ScannedText(ScanTo(p, T), p.pos)
  BY <1>1 DEF ReadUntilByte
<1>5. OnLine(s, p, Fail(ScanTo(p, T), "Malformed"))
  BY <1>3, FailOnLine
<1> QED BY <1>2, <1>4, <1>5, ScannedOnLine

LEMMA CodeAtomOnLine ==
  ASSUME NEW s \in Texts, NEW p, At(s, p), p.st = "Ok"
  PROVE  OnLine(s, p, CodeAtom(p))
<1>1. "CR" \in CodeStops
  BY DEF CodeStops, LineBreak
<1>2. At(s, ScanTo(p, CodeStops)) /\ "Malformed" \notin Going
  BY ScanFacts DEF Going
<1>3. OnLine(s, p, Fail(ScanTo(p, CodeStops), "Malformed"))
  BY <1>2, FailOnLine
<1> QED BY <1>1, <1>3, ScannedOnLine DEF CodeAtom

LEMMA NumberOnLine ==
  ASSUME NEW s \in Texts, NEW p, At(s, p), p.st = "Ok"
  PROVE  OnLine(s, p, ParseNumber(p))
<1>0. Size(s) \in Nat /\ p.pos \in Nat /\ 1 <= p.pos
  BY DEF Texts, Size, At
<1>1. PICK a, q : a = ParseNumber(p) /\ q = ScanDigits(p)
  OBVIOUS
<1>2. At(s, a) /\ a.pos = q.pos /\ (a.st = "Incomplete" => q.pos = p.pos /\ IsEof(q))
  BY <1>1, ParseNumberFacts
<1>3. At(s, q) /\ \A k \in p.pos .. q.pos - 1 : IsDigit(s[k])
  BY <1>1, ScanDigitsFacts
<1>4. ~IsDigit("CR")
  BY DEF IsDigit, Digits
<1>5. Free(s, p.pos, a.pos)
  BY <1>2, <1>3, <1>4 DEF Free
<1>6. a.st = "Incomplete" => ~(p.pos < Size(s))
  BY <1>0, <1>2, <1>3, PeekFacts
<1> QED BY <1>1, <1>2, <1>5, <1>6 DEF OnLine

LEMMA ByteOnLine ==
  ASSUME NEW s \in Texts, NEW p, At(s, p), p.st = "Ok", NEW c, c # "EOF", c # "CR"
  PROVE  OnLine(s, p, ConsumeByte(p, c))
<1>0. Size(s) \in Nat
  BY DEF Texts, Size
<1>1. CASE IsEof(p)
  <2>1. ConsumeByte(p, c) = Fail(p, "Incomplete")
    BY <1>0, <1>1, PeekFacts DEF ConsumeByte
  <2> QED BY <1>0, <1>1, <2>1, EndOnLine
<1>2. CASE ~IsEof(p) /\ Peek(p) = c
  <2>1. ConsumeByte(p, c) = Advance(p, 1)
    BY <1>2 DEF ConsumeByte
  <2> QED BY <1>0, <1>2, <2>1, StepOnLine
<1>3. CASE ~IsEof(p) /\ Peek(p) # c
  <2>1. ConsumeByte(p, c) = Fail(p, "InvalidChar") /\ "InvalidChar" \notin Going
    BY <1>3 DEF ConsumeByte, Going
  <2> QED BY <2>1, FailOnLine
<1> QED BY <1>1, <1>2, <1>3

\* The symbol that was consumed.
LEMMA ByteSeen ==
  ASSUME NEW s \in Texts, NEW p, At(s, p), NEW c, c # "EOF", ConsumeByte(p, c).st = "Ok"
  PROVE  s[p.pos] = c /\ ~IsEof(p) /\ ConsumeByte(p, c) = Advance(p, 1)
<1>0. Size(s) \in Nat /\ IsParser(p)
  BY DEF Texts, Size, At
<1>1. Fail(p, "Incomplete").st # "Ok" /\ Fail(p, "InvalidChar").st # "Ok"
  BY <1>0, FailFacts
<1>2. ~IsEof(p) /\ Peek(p) = c /\ ConsumeByte(p, c) = Advance(p, 1)
  <2>1. CASE IsEof(p) /\ Peek(p) # c
    BY <1>1, <2>1 DEF ConsumeByte
  <2>2. CASE ~IsEof(p) /\ Peek(p) # c
    BY <1>1, <2>2 DEF ConsumeByte
  <2>3. CASE IsEof(p) /\ Peek(p) = c
    BY <1>0, <2>3, PeekFacts
  <2>4. CASE ~IsEof(p) /\ Peek(p) = c
    BY <2>4 DEF ConsumeByte
  <2> QED BY <2>1, <2>2, <2>3, <2>4
<1> QED BY <1>0, <1>2, PeekFacts

LEMMA TryOnLine ==
  ASSUME NEW s \in Texts, NEW p, At(s, p), p.st = "Ok", NEW c, c # "EOF", c # "CR"
  PROVE  OnLine(s, p, TryConsumeByte(p, c)) /\ TryConsumeByte(p, c).st = "Ok"
<1>0. Size(s) \in Nat
  BY DEF Texts, Size
<1>1. CASE Peek(p) = c
  <2>1. TryConsumeByte(p, c) = Advance(p, 1) /\ ~IsEof(p)
    BY <1>0, <1>1, PeekFacts DEF TryConsumeByte
  <2> QED BY <1>0, <1>1, <2>1, StepOnLine, AdvanceOne
<1>2. CASE Peek(p) # c
  BY <1>2, YieldOnLine DEF TryConsumeByte
<1> QED BY <1>1, <1>2

\* A word that is spelt out, and what it cannot be a beginning of.
LEMMA WordOnLine ==
  ASSUME NEW s \in Texts, NEW p, At(s, p), p.st = "Ok", NEW w \in Texts, \A k \in 1 .. Size(w) : w[k] \notin LineBreak
  PROVE  /\ MatchesKeyword(p, w) => OnLine(s, p, Advance(p, Size(w))) /\ Advance(p, Size(w)).st = "Ok"
         /\ LineIsIn(s) /\ p.pos < Size(s) => ~IsStrictPrefix(Remaining(p), w)
<1>0. Size(s) \in Nat /\ Size(w) \in Nat /\ p.pos \in Nat /\ 1 <= p.pos /\ p.pos <= Size(s) + 1
  BY DEF Texts, Size, At
<1>1. PICK m, n : m = Size(w) /\ n = Size(s)
  OBVIOUS
<1>2. ASSUME MatchesKeyword(p, w)
      PROVE  OnLine(s, p, Advance(p, m)) /\ Advance(p, m).st = "Ok"
  <2>1. p.pos + m <= n + 1 /\ Spelt(s, p.pos, w, m)
    BY <1>1, <1>2, KeywordFacts, WordFacts
  <2>2. At(s, Advance(p, m)) /\ Advance(p, m).st = "Ok" /\ Advance(p, m).pos = p.pos + m
    BY <1>0, <1>1, <2>1, AdvanceMoves
  <2>3. Free(s, p.pos, p.pos + m)
    <3>0. PICK j : j = p.pos + m
      OBVIOUS
    <3> SUFFICES ASSUME NEW k \in p.pos .. j - 1 PROVE s[k] # "CR"
      BY <3>0 DEF Free
    <3>1. PICK i : i = k - p.pos + 1
      OBVIOUS
    <3>2. i \in 1 .. m /\ p.pos + i - 1 = k
      BY <1>0, <1>1, <3>0, <3>1
    <3>3. s[k] = w[i]
      BY <2>1, <3>2 DEF Spelt
    <3> QED BY <1>1, <3>2, <3>3 DEF LineBreak
  <2> QED BY <2>2, <2>3 DEF OnLine
<1>3. ASSUME LineIsIn(s), p.pos < n, IsStrictPrefix(Remaining(p), w)
      PROVE  FALSE
  <2>1. p.pos + m > n + 1 /\ Spelt(s, p.pos, w, n - p.pos + 1)
    BY <1>1, <1>3, WordFacts
  <2>2. PICK i : i = n - p.pos + 1
    OBVIOUS
  <2>3. i \in 1 .. m /\ i \in 1 .. n - p.pos + 1 /\ p.pos + i - 1 = n
    BY <1>0, <1>1, <1>3, <2>1, <2>2
  <2>4. s[n] = w[i]
    BY <2>1, <2>3 DEF Spelt
  <2>5. s[n] \in LineBreak
    BY <1>1, <1>3 DEF LineIsIn, LineBreak
  <2> QED BY <1>1, <2>3, <2>4, <2>5
<1> QED BY <1>1, <1>2, <1>3

LEMMA NilOnLine ==
  ASSUME NEW s \in Texts, NEW p, At(s, p), p.st = "Ok"
  PROVE  OnLine(s, p, ExpectNil(p))
<1>1. \A k \in 1 .. Size(Nil) : Nil[k] \notin LineBreak
  <2>1. \A k \in 1 .. 3 : k = 1 \/ k = 2 \/ k = 3
    OBVIOUS
  <2>2. Nil[1] = "N" /\ Nil[2] = "I" /\ Nil[3] = "L"
    BY DEF Nil
  <2> QED BY <2>1, <2>2, NilFacts DEF LineBreak
<1>2. /\ MatchesKeyword(p, Nil) => OnLine(s, p, Advance(p, 3))
      /\ LineIsIn(s) /\ p.pos < Size(s) => ~IsStrictPrefix(Remaining(p), Nil)
  BY <1>1, NilFacts, WordOnLine
<1>3. CASE MatchesKeyword(p, Nil)
  BY <1>2, <1>3, ExpectNilFacts
<1>4. CASE ~MatchesKeyword(p, Nil) /\ IsStrictPrefix(Remaining(p), Nil)
  <2>1. ExpectNil(p) = Fail(p, "Incomplete") /\ "Incomplete" \notin Going
    BY <1>4 DEF ExpectNil, Going
  <2> QED BY <1>2, <1>4, <2>1, FailOnLine
<1>5. CASE ~MatchesKeyword(p, Nil) /\ ~IsStrictPrefix(Remaining(p), Nil)
  <2>1. ExpectNil(p) = Fail(p, "Malformed") /\ "Malformed" \notin Going
    BY <1>5 DEF ExpectNil, Going
  <2> QED BY <2>1, FailOnLine
<1> QED BY <1>3, <1>4, <1>5

\* The end of a line.
LEMMA CrlfEnds ==
  ASSUME NEW s \in Texts, NEW p, At(s, p), p.st = "Ok"
  PROVE  /\ ConsumeCrlf(p).st = "Ok" => s[p.pos] = "CR" /\ s[p.pos + 1] = "LF" /\ ConsumeCrlf(p).pos = p.pos + 2
         /\ LineIsIn(s) /\ p.pos < Size(s) => ConsumeCrlf(p).st # "Incomplete"
<1>0. Size(s) \in Nat /\ p.pos \in Nat /\ p.pos <= Size(s) + 1 /\ 1 <= p.pos
  BY DEF Texts, Size, At
<1>1. /\ IsPrefix(CrLf, Remaining(p)) <=> p.pos + 2 <= Size(s) + 1 /\ Spelt(s, p.pos, CrLf, 2)
      /\ IsStrictPrefix(Remaining(p), CrLf)
           <=> p.pos + 2 > Size(s) + 1 /\ Spelt(s, p.pos, CrLf, Size(s) - p.pos + 1)
  BY CrLfFacts, WordFacts
<1>2. CASE IsPrefix(CrLf, Remaining(p))
  <2>1. Spelt(s, p.pos, CrLf, 2)
    BY <1>1, <1>2
  <2>2. 1 \in 1 .. 2 /\ 2 \in 1 .. 2 /\ p.pos + 1 - 1 = p.pos /\ p.pos + 2 - 1 = p.pos + 1
    BY <1>0
  <2>3. s[p.pos] = CrLf[1] /\ s[p.pos + 1] = CrLf[2]
    BY <2>1, <2>2 DEF Spelt
  <2>4. CrLf[1] = "CR" /\ CrLf[2] = "LF"
    BY DEF CrLf
  <2>5. ConsumeCrlf(p) = Advance(p, 2)
    BY <1>0, <1>1, <1>2 DEF ConsumeCrlf, CrLf
  <2>6. ConsumeCrlf(p).st = "Ok"
    BY <2>5, AdvanceFacts DEF At
  <2> QED BY <2>3, <2>4, <2>6, ConsumeCrlfFacts
<1>3. CASE ~IsPrefix(CrLf, Remaining(p)) /\ IsStrictPrefix(Remaining(p), CrLf)
  <2>1. ConsumeCrlf(p) = Fail(p, "Incomplete")
    BY <1>3 DEF ConsumeCrlf, CrLf
  <2>2. ConsumeCrlf(p).st = "Incomplete"
    BY <2>1, FailFacts DEF At
  <2>3. p.pos + 2 > Size(s) + 1
    BY <1>1, <1>3
  <2>4. ~(p.pos < Size(s))
    BY <1>0, <2>3
  <2> QED BY <2>2, <2>4
<1>4. CASE ~IsPrefix(CrLf, Remaining(p)) /\ ~IsStrictPrefix(Remaining(p), CrLf)
  <2>1. ConsumeCrlf(p) = Fail(p, "Malformed")
    BY <1>4 DEF ConsumeCrlf, CrLf
  <2>2. ConsumeCrlf(p).st = "Malformed"
    BY <2>1, FailFacts DEF At
  <2> QED BY <2>2
<1> QED BY <1>2, <1>3, <1>4

-------------------------------------------------------------------------------
(* A literal's header and octets. *)

\* The octets from r on belong to the literal whose header ends before r.
LEMMA OctetsIn ==
  ASSUME NEW s, NEW r \in Nat, r > 1, NEW n \in Nat, n <= MaxLiteral, HeaderIn(s, r - 1, n),
         NEW k \in Nat, r - 1 <= k, k <= r + n
  PROVE  LiteralIn(s, k)
<1>1. n \in 0 .. MaxLiteral
  BY LimitsAssumption
<1>2. CASE k = r - 1
  BY <1>1, <1>2 DEF LiteralIn
<1>3. CASE k # r - 1
  <2>1. r - 1 \in 1 .. k - 1 /\ k - 1 <= r - 1 + n
    BY <1>3
  <2> QED BY <1>1, <2>1 DEF LiteralIn
<1> QED BY <1>2, <1>3

\* The line break of a header and the octets behind it.
LEMMA OctetsOnLine ==
  ASSUME NEW s \in Texts, NEW p, At(s, p), p.st = "Ok", NEW n \in Nat,
         ConsumeCrlf(p).st = "Ok" => HeaderIn(s, p.pos + 1, n)
  PROVE  OnLine(s, p, Chain(ConsumeCrlf(p), LiteralOctets(ConsumeCrlf(p), n)))
<1>0. Size(s) \in Nat /\ p.pos \in Nat /\ p.pos <= Size(s) + 1 /\ 1 <= p.pos
  BY DEF Texts, Size, At
<1>1. PICK r, a : r = ConsumeCrlf(p) /\ a = LiteralOctets(r, n)
  OBVIOUS
<1>2. /\ At(s, r) /\ r.st # "More"
      /\ r.st = "Ok" => s[p.pos] = "CR" /\ s[p.pos + 1] = "LF" /\ r.pos = p.pos + 2
      /\ LineIsIn(s) /\ p.pos < Size(s) => r.st # "Incomplete"
  BY <1>1, CrlfEnds, ConsumeCrlfFacts DEF Sound
<1>3. CASE r.st # "Ok"
  BY <1>1, <1>2, <1>3 DEF Chain, OnLine, Going
<1>4. CASE r.st = "Ok"
  <2>0. Chain(r, a) = a /\ r.pos \in Nat /\ r.pos > 1 /\ r.pos - 1 = p.pos + 1 /\ IsParser(r)
    BY <1>0, <1>2, <1>4 DEF Chain, At
  <2>1. HeaderIn(s, r.pos - 1, n)
    BY <1>1, <1>4, <2>0
  <2>2. CASE n > MaxLiteral
    <3>1. a = Fail(r, "LiteralTooLarge") /\ "LiteralTooLarge" \notin Going
      BY <1>1, <2>2 DEF LiteralOctets, Going
    <3> QED BY <1>1, <1>2, <2>0, <3>1, FailOnLine
  <2>3. CASE ~(n > MaxLiteral) /\ r.pos + n > Len(r.input) + 1
    <3>1. a = Fail(r, "Incomplete") /\ "Incomplete" \notin Going
      BY <1>1, <2>3 DEF LiteralOctets, Going
    <3>2. Len(r.input) = Size(s) /\ n <= MaxLiteral
      BY <1>2, <2>3, LimitsAssumption DEF At, Size
    <3>3. r.pos - 1 <= Size(s) /\ Size(s) <= r.pos + n
      BY <1>0, <1>2, <2>0, <2>3, <3>2 DEF At
    <3>4. LiteralIn(s, Size(s))
      BY <1>0, <2>0, <2>1, <3>2, <3>3, OctetsIn
    <3>5. ~LineIsIn(s)
      BY <3>4 DEF LineIsIn
    <3> QED BY <1>1, <1>2, <2>0, <3>1, <3>5, FailOnLine
  <2>4. CASE ~(n > MaxLiteral) /\ ~(r.pos + n > Len(r.input) + 1)
    <3>1. n <= MaxLiteral
      BY <2>4, LimitsAssumption
    <3>2. a.st = "Ok" /\ At(s, a) /\ a.pos = r.pos + n
      <4>1. a = Yield(Advance(r, n), SubSeq(r.input, r.pos, r.pos + n - 1))
        BY <1>1, <2>4 DEF LiteralOctets
      <4>2. IsParser(Advance(r, n)) /\ Advance(r, n).st = "Ok"
        BY <1>4, <2>0, AdvanceFacts
      <4>3. a.st = "Ok"
        BY <4>1, <4>2, YieldFacts
      <4> QED BY <1>1, <1>2, <1>4, <4>3, LiteralOctetsFacts
    <3>3. PICK j : j = r.pos + n
      OBVIOUS
    <3>4. Free(s, p.pos, j)
      <4> SUFFICES ASSUME NEW k \in p.pos .. j - 1 PROVE LiteralIn(s, k + 1)
        BY DEF Free
      <4>1. k + 1 \in Nat /\ r.pos - 1 <= k + 1 /\ k + 1 <= r.pos + n
        BY <1>0, <2>0, <3>3
      <4> QED BY <2>0, <2>1, <3>1, <4>1, OctetsIn
    <3> QED BY <1>1, <2>0, <3>2, <3>3, <3>4 DEF OnLine
  <2> QED BY <2>2, <2>3, <2>4
<1> QED BY <1>3, <1>4

LEMMA LiteralOnLine ==
  ASSUME NEW s \in Texts, NEW p, At(s, p), p.st = "Ok"
  PROVE  OnLine(s, p, ParseLiteral(p))
<1>0. Size(s) \in Nat /\ p.pos \in Nat /\ 1 <= p.pos
  BY DEF Texts, Size, At
<1>1. PICK k, a, m, o : /\ k = ConsumeByte(p, "{") /\ a = ParseNumber(k) /\ m = ConsumeByte(a, "}")
                        /\ o = Chain(ConsumeCrlf(m), LiteralOctets(ConsumeCrlf(m), a.val))
  OBVIOUS
<1>2. ParseLiteral(p) = Chain(k, Chain(a, Chain(m, o)))
  BY <1>1 DEF ParseLiteral, Then, Chain
<1>3. "{" # "EOF" /\ "{" # "CR" /\ "}" # "EOF" /\ "}" # "CR"
  OBVIOUS
<1>4. /\ OnLine(s, p, k) /\ At(s, k)
      /\ k.st = "Ok" => ~IsEof(p) /\ k.pos = p.pos + 1
  BY <1>1, <1>3, ByteOnLine, ConsumeByteFacts
<1>5. ASSUME k.st = "Ok" PROVE OnLine(s, k, Chain(a, Chain(m, o)))
  <2>1. OnLine(s, k, a) /\ At(s, a)
    BY <1>1, <1>4, <1>5, NumberOnLine, ParseNumberFacts
  <2>2. ASSUME a.st = "Ok" PROVE OnLine(s, a, Chain(m, o))
    <3>1. /\ OnLine(s, a, m) /\ At(s, m)
          /\ m.st = "Ok" => ~IsEof(a) /\ m.pos = a.pos + 1
      BY <1>1, <1>3, <2>1, <2>2, ByteOnLine, ConsumeByteFacts
    <3>2. ASSUME m.st = "Ok" PROVE OnLine(s, m, o)
      <4>1. a.val \in Nat /\ a.pos > k.pos /\ a.pos = ScanDigits(k).pos /\ a.val = DecimalValue(Taken(ScanDigits(k), k.pos))
        BY <1>1, <1>4, <1>5, <2>2, ParseNumberFacts
      <4>2. /\ At(s, ScanDigits(k))
            /\ \A i \in k.pos .. ScanDigits(k).pos - 1 : IsDigit(s[i])
        BY <1>4, ScanDigitsFacts
      <4>3. s[p.pos] = "{" /\ s[a.pos] = "}"
        BY <1>1, <1>3, <1>5, <2>1, <3>2, ByteSeen
      <4>4. PICK x, y : x = p.pos /\ y = a.pos
        OBVIOUS
      <4>5. /\ x \in Nat /\ 1 <= x /\ y \in Nat /\ k.pos = x + 1 /\ m.pos = y + 1 /\ y > x + 1
            /\ s[x] = "{" /\ s[y] = "}" /\ \A i \in x + 1 .. y - 1 : IsDigit(s[i])
            /\ a.val = DecimalValue(SubSeq(s, x + 1, y - 1))
        BY <1>0, <1>4, <1>5, <2>1, <3>1, <3>2, <4>1, <4>2, <4>3, <4>4 DEF At, Taken
      <4>6. ASSUME ConsumeCrlf(m).st = "Ok" PROVE HeaderIn(s, m.pos + 1, a.val)
        <5>1. s[m.pos] = "CR" /\ s[m.pos + 1] = "LF"
          BY <3>1, <3>2, <4>6, CrlfEnds
        <5>2. PICK h : h = y + 2
          OBVIOUS
        <5>3. h > 1 /\ h - 1 = y + 1 /\ h - 2 = y /\ h - 3 = y - 1 /\ x \in 1 .. h - 4 /\ m.pos + 1 = h /\ m.pos = h - 1
          <6>1. x \in Nat /\ 1 <= x /\ y \in Nat /\ m.pos = y + 1 /\ y > x + 1
            BY <4>5
          <6> QED BY <5>2, <6>1
        <5> QED BY <4>5, <5>1, <5>3 DEF HeaderIn
      <4> QED BY <1>1, <3>1, <3>2, <4>1, <4>6, OctetsOnLine
    <3> QED BY <1>0, <2>1, <3>1, <3>2, ChainOnLine
  <2> QED BY <1>0, <1>4, <2>1, <2>2, ChainOnLine
<1> QED BY <1>0, <1>2, <1>4, <1>5, ChainOnLine

-------------------------------------------------------------------------------
(* Loops stay on their line. *)

\* Where a parser is and what is left of its budget.
Spot(x) == <<x.pos, x.itemsLeft>>

Anywhere == Nat \X Nat

LEMMA SpotAnywhere ==
  ASSUME NEW s, NEW x, At(s, x)
  PROVE  Spot(x) \in Anywhere
BY DEF Spot, Anywhere, At

\* A turn that begins at a spot of S stays on its line and goes on at a spot of S.
TurnsOnLine(s, kind, i, S) ==
  \A x : At(s, x) /\ x.st = "Ok" /\ Spot(x) \in S =>
           /\ OnLine(s, x, LoopTurn(kind, i, x))
           /\ LoopTurn(kind, i, x).st = "More" => Spot(LoopTurn(kind, i, x)) \in S

LEMMA LoopOnLine ==
  ASSUME NEW s, Size(s) \in Nat, NEW p, At(s, p), NEW kind, NEW i, NEW n, n = Size(s) + 1,
         NEW f, Runs(f, kind, i, p, n), NEW S, Spot(p) \in S, TurnsOnLine(s, kind, i, S)
  PROVE  OnLine(s, p, f[n])
<1> DEFINE Good(k) == OnLine(s, p, f[k]) /\ (f[k].st = "More" => Spot(f[k]) \in S)
           Bad == {k \in 0 .. n : ~Good(k)}
<1>0. n \in Nat /\ n \in 0 .. n
  OBVIOUS
<1>1. SUFFICES ASSUME Bad # {} PROVE FALSE
  BY <1>0
<1>2. Bad \in SUBSET Nat
  OBVIOUS
<1>3. PICK k \in Bad : \A l \in Bad : k <= l
  BY <1>1, <1>2, LeastNumber
<1>4. k # 0
  <2>1. f[0] = GoOn(p)
    BY <1>0 DEF Runs
  <2>2. At(s, f[0]) /\ f[0].pos = p.pos /\ f[0].st = "More" /\ Spot(f[0]) = Spot(p)
    BY <2>1, GoOnAt DEF Spot
  <2> QED BY <1>3, <2>2, StayOnLine
<1>5. PICK m : m = k - 1
  OBVIOUS
<1>6. m \in 0 .. n /\ m \notin Bad /\ k \in 0 .. n /\ k - 1 = m
  BY <1>3, <1>4, <1>5
<1>7. Good(m) /\ f[k] = LoopStep(kind, i, f[m])
  BY <1>4, <1>6 DEF Runs
<1>8. CASE f[m].st = "More"
  <2>1. PICK x : x = Resume(f[m])
    OBVIOUS
  <2>2. At(s, x) /\ x.st = "Ok" /\ x.pos = f[m].pos /\ Spot(x) = Spot(f[m])
    BY <1>7, <2>1, ResumeAt DEF ResumeLike, OnLine, Spot
  <2>3. f[k] = LoopTurn(kind, i, x)
    BY <1>7, <1>8, <2>1 DEF LoopStep
  <2>4. Spot(x) \in S
    BY <1>7, <1>8, <2>2
  <2>5. OnLine(s, x, f[k]) /\ (f[k].st = "More" => Spot(f[k]) \in S)
    BY <2>2, <2>3, <2>4 DEF TurnsOnLine
  <2>6. OnLine(s, p, f[m]) /\ f[m].st \in Going
    BY <1>7, <1>8 DEF Going
  <2>7. OnLine(s, p, f[k])
    BY <2>2, <2>5, <2>6, JoinOnLine
  <2> QED BY <1>3, <2>5, <2>7
<1>9. CASE f[m].st # "More"
  <2>1. f[k] = f[m]
    BY <1>7, <1>9 DEF LoopStep
  <2> QED BY <1>3, <1>7, <2>1
<1> QED BY <1>8, <1>9

LEMMA QuotedTurnOnLine ==
  ASSUME NEW s \in Texts, NEW p, At(s, p), p.st = "Ok", NEW i
  PROVE  OnLine(s, p, QuotedTurn(p, i))
<1>0. Size(s) \in Nat /\ p.pos \in Nat /\ IsParser(p)
  BY DEF Texts, Size, At
<1>1. CASE IsEof(p)
  <2>1. QuotedTurn(p, i) = Fail(p, "Incomplete")
    BY <1>0, <1>1, PeekFacts DEF QuotedTurn, LineBreak
  <2> QED BY <1>0, <1>1, <2>1, EndOnLine
<1>2. PICK x : x = Advance(p, 1)
  OBVIOUS
<1>3. CASE ~IsEof(p) /\ Peek(p) = "DQ"
  <2>1. PICK b : b = FromUtf8(p, Taken(p, i))
    OBVIOUS
  <2>2. QuotedTurn(p, i) = Chain(b, Advance(b, 1))
    BY <1>3, <2>1 DEF QuotedTurn, Then, Chain, LineBreak
  <2>3. At(s, b) /\ b.pos = p.pos /\ OnLine(s, p, b)
    BY <2>1, FromUtf8Facts, Utf8OnLine
  <2>4. ~IsEof(b) /\ Peek(b) # "CR"
    BY <1>0, <1>3, <2>3, PeekFacts
  <2>5. b.st = "Ok" => OnLine(s, b, Advance(b, 1))
    BY <1>0, <2>3, <2>4, StepOnLine
  <2> QED BY <1>0, <2>2, <2>3, <2>5, ChainOnLine
<1>4. CASE ~IsEof(p) /\ Peek(p) = "BS"
  <2>0. At(s, x) /\ x.pos = p.pos + 1 /\ x.st = "Ok" /\ OnLine(s, p, x)
    BY <1>0, <1>2, <1>4, AdvanceOne, StepOnLine
  <2>1. QuotedTurn(p, i) = CASE IsEof(x) -> Fail(x, "Incomplete")
                             [] Peek(x) \in {"DQ", "BS"} -> GoOn(Advance(x, 1))
                             [] OTHER -> Fail(x, "Malformed")
    BY <1>2, <1>4 DEF QuotedTurn, LineBreak
  <2>2. OnLine(s, x, QuotedTurn(p, i))
    <3>1. CASE IsEof(x)
      <4>1. QuotedTurn(p, i) = Fail(x, "Incomplete")
        BY <1>0, <2>0, <2>1, <3>1, PeekFacts
      <4> QED BY <1>0, <2>0, <3>1, <4>1, EndOnLine
    <3>2. CASE ~IsEof(x) /\ Peek(x) \in {"DQ", "BS"}
      <4>1. QuotedTurn(p, i) = GoOn(Advance(x, 1)) /\ Peek(x) # "CR"
        BY <2>1, <3>2
      <4>2. OnLine(s, x, Advance(x, 1)) /\ Advance(x, 1).st \in Going
        BY <1>0, <2>0, <3>2, <4>1, StepOnLine, AdvanceOne DEF Going
      <4> QED BY <4>1, <4>2, InsideOnLine
    <3>3. CASE ~IsEof(x) /\ Peek(x) \notin {"DQ", "BS"}
      <4>1. QuotedTurn(p, i) = Fail(x, "Malformed") /\ "Malformed" \notin Going
        BY <2>1, <3>3 DEF Going
      <4> QED BY <2>0, <4>1, FailOnLine
    <3> QED BY <3>1, <3>2, <3>3
  <2> QED BY <1>0, <2>0, <2>2, JoinOnLine DEF Going
<1>5. CASE ~IsEof(p) /\ Peek(p) \in LineBreak \cup {"NUL"}
  <2>1. QuotedTurn(p, i) = Fail(p, "Malformed") /\ "Malformed" \notin Going
    BY <1>5 DEF QuotedTurn, LineBreak, Going
  <2> QED BY <2>1, FailOnLine
<1>6. CASE ~IsEof(p) /\ Peek(p) \notin LineBreak \cup {"NUL", "DQ", "BS"}
  <2>1. QuotedTurn(p, i) = GoOn(x) /\ Peek(p) # "CR"
    BY <1>2, <1>6 DEF QuotedTurn, LineBreak
  <2>2. OnLine(s, p, x) /\ x.st \in Going
    BY <1>0, <1>2, <1>6, <2>1, StepOnLine, AdvanceOne DEF Going
  <2> QED BY <2>1, <2>2, InsideOnLine
<1> QED BY <1>1, <1>3, <1>4, <1>5, <1>6

LEMMA QuotedOnLine ==
  ASSUME NEW s \in Texts, NEW p, At(s, p), p.st = "Ok"
  PROVE  OnLine(s, p, ParseQuoted(p))
<1>0. Size(s) \in Nat /\ "DQ" # "EOF" /\ "DQ" # "CR"
  BY DEF Texts, Size
<1>1. PICK k, i : k = ConsumeByte(p, "DQ") /\ i = k.pos
  OBVIOUS
<1>2. ParseQuoted(p) = Chain(k, QuotedLoop(k, i))
  BY <1>1 DEF ParseQuoted, Then, Chain, QuotedLoop
<1>3. OnLine(s, p, k) /\ At(s, k) /\ k.pos \in Nat
  BY <1>0, <1>1, ByteOnLine, ConsumeByteFacts DEF At
<1>4. PICK f : Runs(f, "quoted", i, k, Size(s) + 1) /\ QuotedLoop(k, i) = f[Size(s) + 1]
  BY <1>0, <1>3, QuotedRuns
<1>5. \A x : LoopTurn("quoted", i, x) = QuotedTurn(x, i)
  BY DEF LoopTurn
<1>6. TurnsOnLine(s, "quoted", i, Anywhere)
  <2> SUFFICES ASSUME NEW x, At(s, x), x.st = "Ok"
               PROVE  OnLine(s, x, LoopTurn("quoted", i, x)) /\ Spot(LoopTurn("quoted", i, x)) \in Anywhere
    BY DEF TurnsOnLine
  <2> QED BY <1>5, QuotedTurnOnLine, SpotAnywhere DEF OnLine
<1>7. PICK n : n = Size(s) + 1
  OBVIOUS
<1>8. OnLine(s, k, f[n])
  BY <1>0, <1>3, <1>4, <1>6, <1>7, SpotAnywhere, LoopOnLine
<1> QED BY <1>0, <1>2, <1>3, <1>4, <1>7, <1>8, ChainOnLine

LEMMA TurnsAnywhere ==
  ASSUME NEW s, NEW kind, NEW i, \A x : At(s, x) /\ x.st = "Ok" => OnLine(s, x, LoopTurn(kind, i, x))
  PROVE  TurnsOnLine(s, kind, i, Anywhere)
<1> SUFFICES ASSUME NEW x, At(s, x), x.st = "Ok"
             PROVE  OnLine(s, x, LoopTurn(kind, i, x)) /\ Spot(LoopTurn(kind, i, x)) \in Anywhere
  BY DEF TurnsOnLine
<1>1. OnLine(s, x, LoopTurn(kind, i, x))
  OBVIOUS
<1> QED BY <1>1, SpotAnywhere DEF OnLine

LEMMA InsideChainOnLine ==
  ASSUME NEW s, Size(s) \in Nat, NEW p, At(s, p), NEW a, OnLine(s, p, a), NEW d
  PROVE  OnLine(s, p, Chain(a, Inside(a, d)))
<1>1. At(s, a)
  BY DEF OnLine
<1>2. ASSUME a.st = "Ok" PROVE OnLine(s, a, Inside(a, d))
  <2>1. OnLine(s, a, a) /\ a.st \in Going
    BY <1>1, <1>2, YieldOnLine DEF Going
  <2> QED BY <2>1, InsideOnLine
<1> QED BY <1>2, ChainOnLine

LEMMA ParensTurnOnLine ==
  ASSUME NEW s \in Texts, NEW p, At(s, p), p.st = "Ok", NEW i
  PROVE  OnLine(s, p, ParensTurn(p, i))
<1>0. Size(s) \in Nat /\ p.pos \in Nat
  BY DEF Texts, Size, At
<1>1. CASE p.val = 0
  <2>1. ParensTurn(p, i) = Yield(p, Taken(p, i))
    BY <1>1 DEF ParensTurn
  <2> QED BY <2>1, YieldOnLine
<1>2. CASE p.val # 0 /\ IsEof(p)
  <2>1. ParensTurn(p, i) = Fail(p, "Incomplete")
    BY <1>0, <1>2, PeekFacts DEF ParensTurn, LineBreak
  <2> QED BY <1>0, <1>2, <2>1, EndOnLine
<1>3. CASE p.val # 0 /\ ~IsEof(p)
  <2>1. CASE Peek(p) = "DQ"
    <3>1. OnLine(s, p, Chain(ParseQuoted(p), Inside(ParseQuoted(p), p.val)))
      BY <1>0, QuotedOnLine, InsideChainOnLine
    <3> QED BY <1>3, <2>1, <3>1, ParensTurnIs
  <2>2. CASE Peek(p) = "{"
    <3>1. OnLine(s, p, Chain(ParseLiteral(p), Inside(ParseLiteral(p), p.val)))
      BY <1>0, LiteralOnLine, InsideChainOnLine
    <3> QED BY <1>3, <2>2, <3>1, ParensTurnIs
  <2>3. CASE Blocked(p)
    <3>1. BlockedBy(p) \notin Going /\ BlockedBy(p) # "Incomplete"
      BY DEF Going, BlockedBy
    <3>2. ParensTurn(p, i) = Fail(p, BlockedBy(p))
      BY <1>3, <2>3, ParensTurnIs
    <3> QED BY <3>1, <3>2, FailOnLine
  <2>4. CASE ~Blocked(p) /\ Peek(p) \notin {"DQ", "{"}
    <3>1. ParensTurn(p, i) = Inside(Advance(p, 1), Depth(Peek(p), p.val))
      BY <1>3, <2>4, ParensTurnIs
    <3>2. Peek(p) # "CR"
      BY <2>4 DEF Blocked, LineBreak
    <3>3. OnLine(s, p, Advance(p, 1)) /\ Advance(p, 1).st \in Going
      BY <1>0, <1>3, <3>2, StepOnLine, AdvanceOne DEF Going
    <3> QED BY <3>1, <3>3, InsideOnLine
  <2> QED BY <2>1, <2>2, <2>3, <2>4
<1> QED BY <1>1, <1>2, <1>3

\* A loop that begins where p is.
LEMMA FromOnLine ==
  ASSUME NEW s, Size(s) \in Nat, NEW p, At(s, p), p.st = "Ok", NEW v, NEW a, OnLine(s, Yield(p, v), a)
  PROVE  OnLine(s, p, a)
<1>1. OnLine(s, p, p) /\ p.st \in Going /\ Yield(p, v).pos = p.pos
  BY YieldOnLine, YieldFacts DEF At, Going
<1> QED BY <1>1, JoinOnLine

LEMMA ParensOnLine ==
  ASSUME NEW s \in Texts, NEW p, At(s, p), p.st = "Ok"
  PROVE  OnLine(s, p, ParseBalancedParens(p))
<1>0. Size(s) \in Nat /\ "(" # "EOF" /\ "(" # "CR"
  BY DEF Texts, Size
<1>1. PICK k, i, y : k = ConsumeByte(p, "(") /\ i = p.pos /\ y = Yield(k, 1)
  OBVIOUS
<1>2. ParseBalancedParens(p) = Chain(k, ParensLoop(y, i))
  BY <1>1 DEF ParseBalancedParens, Then, Chain, ParensLoop
<1>3. OnLine(s, p, k) /\ At(s, k) /\ At(s, y) /\ y.pos \in Nat
  BY <1>0, <1>1, ByteOnLine, ConsumeByteFacts, YieldAt DEF At
<1>4. PICK f : Runs(f, "parens", i, y, Size(s) + 1) /\ ParensLoop(y, i) = f[Size(s) + 1]
  BY <1>0, <1>3, ParensRuns
<1>5. \A x : LoopTurn("parens", i, x) = ParensTurn(x, i)
  BY DEF LoopTurn
<1>6. TurnsOnLine(s, "parens", i, Anywhere)
  BY <1>5, ParensTurnOnLine, TurnsAnywhere
<1>7. PICK n : n = Size(s) + 1
  OBVIOUS
<1>8. OnLine(s, y, f[n])
  BY <1>0, <1>3, <1>4, <1>6, <1>7, SpotAnywhere, LoopOnLine
<1>9. k.st = "Ok" => OnLine(s, k, f[n])
  BY <1>0, <1>1, <1>3, <1>8, FromOnLine
<1> QED BY <1>0, <1>2, <1>3, <1>4, <1>7, <1>9, ChainOnLine

LEMMA FlagOnLine ==
  ASSUME NEW s \in Texts, NEW p, At(s, p), p.st = "Ok"
  PROVE  OnLine(s, p, ParseFlagOrAtom(p))
<1>0. /\ Size(s) \in Nat
      /\ "BS" # "EOF" /\ "BS" # "CR" /\ "*" # "EOF" /\ "*" # "CR"
  BY DEF Texts, Size
<1>1. PICK x, z, r, a : /\ x = TryConsumeByte(p, "BS") /\ z = TryConsumeByte(x, "*")
                        /\ r = ScanTo(x, AtomSpecials) /\ a = ParseFlagOrAtom(p)
  OBVIOUS
<1>2. a = IF x.pos > p.pos /\ z.pos > x.pos THEN FromUtf8(z, Taken(z, p.pos))
          ELSE IF r.pos = p.pos /\ ~IsEof(r) THEN Fail(r, "Malformed") ELSE ScannedText(r, p.pos)
  BY <1>1 DEF ParseFlagOrAtom
<1>3. At(s, x) /\ x.st = "Ok" /\ OnLine(s, p, x)
  BY <1>0, <1>1, TryOnLine DEF OnLine
<1>4. OnLine(s, x, FromUtf8(z, Taken(z, p.pos)))
  <2>1. At(s, z) /\ z.st = "Ok" /\ OnLine(s, x, z)
    BY <1>0, <1>1, <1>3, TryOnLine DEF OnLine
  <2>2. OnLine(s, z, FromUtf8(z, Taken(z, p.pos)))
    BY <2>1, Utf8OnLine
  <2> QED BY <1>0, <1>3, <2>1, <2>2, JoinOnLine DEF Going
<1>5. OnLine(s, x, Fail(r, "Malformed"))
  <2>1. At(s, r) /\ "Malformed" \notin Going
    BY <1>1, <1>3, ScanFacts DEF Going
  <2> QED BY <2>1, FailOnLine
<1>6. OnLine(s, x, ScannedText(r, p.pos))
  <2>1. "CR" \in AtomSpecials
    BY DEF AtomSpecials, LineBreak
  <2> QED BY <1>1, <1>3, <2>1, ScannedOnLine
<1>7. OnLine(s, x, a)
  BY <1>2, <1>4, <1>5, <1>6
<1> QED BY <1>0, <1>1, <1>3, <1>7, JoinOnLine DEF Going

-------------------------------------------------------------------------------
(* Lists stay on their line. *)

LEMMA ItemEndOnLine ==
  ASSUME NEW s, Size(s) \in Nat, NEW p, At(s, p), p.st = "Ok"
  PROVE  /\ OnLine(s, p, ItemEnd(p))
         /\ ItemEnd(p).st = "More" => ItemEnd(p).pos = p.pos + 1 /\ s[p.pos] = "SP"
<1>1. CASE IsEof(p)
  <2>1. ItemEnd(p) = Fail(p, "Incomplete")
    BY <1>1, PeekFacts DEF ItemEnd
  <2>2. Fail(p, "Incomplete").st # "More"
    BY Waits
  <2> QED BY <1>1, <2>1, <2>2, EndOnLine
<1>2. CASE ~IsEof(p) /\ Peek(p) = "SP"
  <2>1. ItemEnd(p) = GoOn(Advance(p, 1)) /\ Peek(p) # "CR"
    BY <1>2 DEF ItemEnd
  <2>2. OnLine(s, p, Advance(p, 1)) /\ Advance(p, 1).st \in Going /\ At(s, Advance(p, 1)) /\ Advance(p, 1).pos = p.pos + 1
    BY <1>2, <2>1, StepOnLine, AdvanceOne DEF Going
  <2>3. GoOn(Advance(p, 1)).pos = p.pos + 1
    BY <2>2, GoOnAt
  <2>4. s[p.pos] = "SP"
    BY <1>2, PeekFacts
  <2> QED BY <2>1, <2>2, <2>3, <2>4, InsideOnLine
<1>3. CASE ~IsEof(p) /\ Peek(p) = ")"
  <2>1. ItemEnd(p) = Advance(p, 1) /\ Peek(p) # "CR"
    BY <1>3 DEF ItemEnd
  <2>2. Advance(p, 1).st = "Ok"
    BY <1>3, AdvanceOne
  <2> QED BY <1>3, <2>1, <2>2, StepOnLine
<1>4. CASE ~IsEof(p) /\ Peek(p) \notin {"SP", ")"}
  <2>1. ItemEnd(p) = Fail(p, "Malformed") /\ "Malformed" \notin Going
    BY <1>4 DEF ItemEnd, Going
  <2>2. Fail(p, "Malformed").st # "More"
    BY FailFacts DEF At
  <2> QED BY <2>1, <2>2, FailOnLine
<1> QED BY <1>1, <1>2, <1>3, <1>4

LEMMA ItemEndsOnLine ==
  ASSUME NEW s, Size(s) \in Nat, NEW p, At(s, p), NEW a, OnLine(s, p, a), a.st # "More", NEW l
  PROVE  /\ OnLine(s, p, ItemEnds(a, l))
         /\ ItemEnds(a, l).st = "More" => ItemEnds(a, l).pos = a.pos + 1 /\ s[a.pos] = "SP"
<1>1. PICK m, e : m = PushItem(a, l, a.val) /\ e = ItemEnd(m)
  OBVIOUS
<1>2. ItemEnds(a, l) = Chain(a, Chain(m, e))
  BY <1>1, ItemEndsIs
<1>3. CASE a.st # "Ok"
  BY <1>2, <1>3 DEF Chain
<1>4. CASE a.st = "Ok"
  <2>1. At(s, a)
    BY DEF OnLine
  <2>2. At(s, m) /\ m.pos = a.pos /\ m.st \in {"TooManyItems", "Ok"}
    BY <1>1, <1>4, <2>1, PushItemFacts
  <2>3. OnLine(s, a, m)
    BY <2>1, <2>2, StayOnLine
  <2>4. m.st = "Ok" => OnLine(s, m, e) /\ (e.st = "More" => e.pos = m.pos + 1 /\ s[m.pos] = "SP")
    BY <1>1, <2>2, ItemEndOnLine
  <2>5. OnLine(s, a, Chain(m, e))
    BY <2>1, <2>3, <2>4, ChainOnLine
  <2>6. Chain(m, e).st = "More" => Chain(m, e).pos = a.pos + 1 /\ s[a.pos] = "SP"
    BY <2>2, <2>4 DEF Chain
  <2> QED BY <1>2, <1>4, <2>5, <2>6, ChainOnLine DEF Chain
<1> QED BY <1>3, <1>4

LEMMA ListTailOnLine ==
  ASSUME NEW s, Size(s) \in Nat, NEW p, At(s, p), p.st = "Ok", NEW w, OnLine(s, Yield(p, <<>>), w)
  PROVE  OnLine(s, p, ListTail(p, w))
<1>1. CASE Peek(p) = ")"
  <2>1. ListTail(p, w) = Yield(Advance(p, 1), <<>>)
    BY <1>1 DEF ListTail
  <2>2. ~IsEof(p) /\ Peek(p) # "CR"
    BY <1>1, PeekFacts
  <2>3. OnLine(s, p, Advance(p, 1)) /\ At(s, Advance(p, 1)) /\ Advance(p, 1).st = "Ok"
    BY <2>2, StepOnLine, AdvanceOne
  <2>4. OnLine(s, Advance(p, 1), Yield(Advance(p, 1), <<>>))
    BY <2>3, YieldOnLine
  <2> QED BY <2>1, <2>2, <2>4, AfterStep
<1>2. CASE Peek(p) # ")"
  BY <1>2, FromOnLine DEF ListTail
<1> QED BY <1>1, <1>2

LEMMA AtomListOnLine ==
  ASSUME NEW s \in Texts, NEW p, At(s, p), p.st = "Ok"
  PROVE  OnLine(s, p, ParseParenAtomList(p))
<1>0. Size(s) \in Nat /\ "(" # "EOF" /\ "(" # "CR"
  BY DEF Texts, Size
<1>1. PICK k, y : k = ConsumeByte(p, "(") /\ y = Yield(k, <<>>)
  OBVIOUS
<1>2. ParseParenAtomList(p) = Chain(k, ListTail(k, FlagsLoop(y, 0)))
  BY <1>1 DEF ParseParenAtomList, ParenList, Then, Chain, ListTail, FlagsLoop
<1>3. OnLine(s, p, k) /\ At(s, k) /\ At(s, y) /\ y.pos \in Nat
  BY <1>0, <1>1, ByteOnLine, ConsumeByteFacts, YieldAt DEF At
<1>4. PICK f : Runs(f, "flags", 0, y, Size(s) + 1) /\ FlagsLoop(y, 0) = f[Size(s) + 1]
  BY <1>0, <1>3, FlagsRuns
<1>5. \A x : LoopTurn("flags", 0, x) = ItemEnds(ParseFlagOrAtom(x), x.val)
  BY DEF LoopTurn
<1>6. TurnsOnLine(s, "flags", 0, Anywhere)
  <2>1. ASSUME NEW x, At(s, x), x.st = "Ok" PROVE OnLine(s, x, ItemEnds(ParseFlagOrAtom(x), x.val))
    <3>1. OnLine(s, x, ParseFlagOrAtom(x)) /\ ParseFlagOrAtom(x).st # "More"
      BY <2>1, FlagOnLine, FlagFacts, EatsFacts
    <3> QED BY <1>0, <2>1, <3>1, ItemEndsOnLine
  <2> QED BY <1>5, <2>1, TurnsAnywhere
<1>7. PICK n : n = Size(s) + 1
  OBVIOUS
<1>8. OnLine(s, y, f[n])
  BY <1>0, <1>3, <1>4, <1>6, <1>7, SpotAnywhere, LoopOnLine
<1>9. k.st = "Ok" => OnLine(s, k, ListTail(k, f[n]))
  BY <1>0, <1>1, <1>3, <1>8, ListTailOnLine
<1> QED BY <1>0, <1>2, <1>3, <1>4, <1>7, <1>9, ChainOnLine

LEMMA AstringOnLine ==
  ASSUME NEW s \in Texts, NEW p, At(s, p), p.st = "Ok"
  PROVE  OnLine(s, p, ParseAstring(p))
<1>0. Size(s) \in Nat
  BY DEF Texts, Size
<1>1. CASE IsEof(p)
  <2>1. ParseAstring(p) = Fail(p, "Incomplete")
    BY <1>0, <1>1, PeekFacts DEF ParseAstring
  <2> QED BY <1>0, <1>1, <2>1, EndOnLine
<1>2. CASE ~IsEof(p) /\ Peek(p) = "DQ"
  BY <1>2, QuotedOnLine DEF ParseAstring
<1>3. CASE ~IsEof(p) /\ Peek(p) = "{"
  <2>1. PICK l : l = ParseLiteral(p)
    OBVIOUS
  <2>2. ParseAstring(p) = Chain(l, FromUtf8(l, l.val))
    BY <1>3, <2>1 DEF ParseAstring, Then, Chain
  <2>3. OnLine(s, p, l) /\ At(s, l)
    BY <2>1, LiteralOnLine DEF OnLine
  <2> QED BY <1>0, <2>2, <2>3, Utf8OnLine, ChainOnLine
<1>4. CASE ~IsEof(p) /\ Peek(p) \notin {"DQ", "{"}
  BY <1>4, AtomOnLine DEF ParseAstring
<1> QED BY <1>1, <1>2, <1>3, <1>4

LEMMA NstringBytesOnLine ==
  ASSUME NEW s \in Texts, NEW p, At(s, p), p.st = "Ok"
  PROVE  OnLine(s, p, ParseNstringBytes(p))
<1>0. Size(s) \in Nat
  BY DEF Texts, Size
<1>1. CASE IsEof(p)
  <2>1. ParseNstringBytes(p) = Fail(p, "Incomplete")
    BY <1>0, <1>1, PeekFacts DEF ParseNstringBytes
  <2> QED BY <1>0, <1>1, <2>1, EndOnLine
<1>2. CASE ~IsEof(p)
  <2>1. OnLine(s, p, NstringSource(p))
    BY QuotedOnLine, LiteralOnLine, NilOnLine DEF NstringSource
  <2> QED BY <1>0, <1>2, <2>1, NstringBytesIs, RevaluedOnLine
<1> QED BY <1>1, <1>2

LEMMA NstringOnLine ==
  ASSUME NEW s \in Texts, NEW p, At(s, p), p.st = "Ok"
  PROVE  OnLine(s, p, ParseNstring(p))
<1>0. Size(s) \in Nat
  BY DEF Texts, Size
<1>1. PICK a : a = ParseNstringBytes(p)
  OBVIOUS
<1>2. ParseNstring(p) = Chain(a, NstringText(a))
  BY <1>1 DEF ParseNstring, Then, Chain, NstringText, Revalued
<1>3. OnLine(s, p, a) /\ At(s, a)
  BY <1>1, NstringBytesOnLine DEF OnLine
<1>4. ASSUME a.st = "Ok" PROVE OnLine(s, a, NstringText(a))
  <2>1. OnLine(s, a, a)
    BY <1>3, <1>4, YieldOnLine
  <2>2. OnLine(s, a, Revalued(FromUtf8(a, a.val[1]), <<FromUtf8(a, a.val[1]).val>>))
    BY <1>0, <1>3, <1>4, Utf8OnLine, RevaluedOnLine
  <2> QED BY <2>1, <2>2 DEF NstringText
<1> QED BY <1>0, <1>2, <1>3, <1>4, ChainOnLine

-------------------------------------------------------------------------------
(* The loops of CAPABILITY and SEARCH. *)

LEMMA CapabilityTurnOnLine ==
  ASSUME NEW s \in Texts, NEW p, At(s, p), p.st = "Ok"
  PROVE  OnLine(s, p, CapabilityTurn(p))
<1>0. Size(s) \in Nat
  BY DEF Texts, Size
<1>1. CASE Peek(p) # "SP"
  BY <1>1, YieldOnLine DEF CapabilityTurn
<1>2. CASE Peek(p) = "SP"
  <2>1. PICK x, a, m, c : /\ x = Advance(p, 1) /\ a = ParseAtom(x) /\ m = PushItem(a, p.val, a.val)
                          /\ c = CapabilityPush(p)
    OBVIOUS
  <2>2. ~IsEof(p) /\ Peek(p) # "CR" /\ CapabilityTurn(p) = Chain(c, Inside(c, c.val))
    BY <1>2, <2>1, CapabilityTurnIs
  <2>3. At(s, x) /\ x.st = "Ok"
    BY <1>0, <2>1, <2>2, AdvanceOne
  <2>4. OnLine(s, x, a) /\ At(s, a)
    BY <2>1, <2>3, AtomOnLine DEF OnLine
  <2>5. ASSUME a.st = "Ok" PROVE OnLine(s, a, m)
    <3>1. At(s, m) /\ m.pos = a.pos /\ m.st \in {"TooManyItems", "Ok"}
      BY <2>1, <2>4, <2>5, PushItemFacts
    <3> QED BY <2>4, <3>1, StayOnLine
  <2>6. c = Chain(a, m)
    BY <2>1 DEF CapabilityPush
  <2>7. OnLine(s, x, c)
    BY <1>0, <2>3, <2>4, <2>5, <2>6, ChainOnLine
  <2>8. OnLine(s, p, c)
    BY <1>0, <2>1, <2>2, <2>7, AfterStep
  <2> QED BY <1>0, <2>2, <2>8, InsideChainOnLine
<1> QED BY <1>1, <1>2

LEMMA CapabilityAtomsOnLine ==
  ASSUME NEW s \in Texts, NEW p, At(s, p), p.st = "Ok"
  PROVE  OnLine(s, p, CapabilityAtoms(p))
<1>0. Size(s) \in Nat
  BY DEF Texts, Size
<1>1. PICK y : y = Yield(p, <<>>)
  OBVIOUS
<1>2. CapabilityAtoms(p) = CapabilityLoop(y, 0)
  BY <1>1 DEF CapabilityAtoms, CapabilityLoop, While
<1>3. At(s, y) /\ y.pos \in Nat
  BY <1>1, YieldAt DEF At
<1>4. PICK f : Runs(f, "capability", 0, y, Size(s) + 1) /\ CapabilityLoop(y, 0) = f[Size(s) + 1]
  BY <1>0, <1>3, CapabilityRuns
<1>5. \A x : LoopTurn("capability", 0, x) = CapabilityTurn(x)
  BY DEF LoopTurn
<1>6. TurnsOnLine(s, "capability", 0, Anywhere)
  BY <1>5, CapabilityTurnOnLine, TurnsAnywhere
<1>7. PICK n : n = Size(s) + 1
  OBVIOUS
<1>8. OnLine(s, y, f[n])
  BY <1>0, <1>3, <1>4, <1>6, <1>7, SpotAnywhere, LoopOnLine
<1> QED BY <1>0, <1>1, <1>2, <1>4, <1>7, <1>8, FromOnLine

LEMMA SearchTurnOnLine ==
  ASSUME NEW s \in Texts, NEW p, At(s, p), p.st = "Ok"
  PROVE  OnLine(s, p, SearchTurn(p))
<1>0. Size(s) \in Nat
  BY DEF Texts, Size
<1>1. CASE Peek(p) # "SP"
  BY <1>1, YieldOnLine DEF SearchTurn
<1>2. CASE Peek(p) = "SP"
  <2>1. PICK x, a, d : x = Advance(p, 1) /\ a = ParseNumber(x) /\ d = Append(p.val, a.val)
    OBVIOUS
  <2>2. ~IsEof(p) /\ Peek(p) # "CR" /\ SearchTurn(p) = Chain(a, Inside(a, d))
    BY <1>2, <2>1, SearchTurnIs
  <2>3. At(s, x) /\ x.st = "Ok"
    BY <1>0, <2>1, <2>2, AdvanceOne
  <2>4. OnLine(s, x, a)
    BY <2>1, <2>3, NumberOnLine
  <2>5. OnLine(s, p, a)
    BY <1>0, <2>1, <2>2, <2>4, AfterStep
  <2> QED BY <1>0, <2>2, <2>5, InsideChainOnLine
<1> QED BY <1>1, <1>2

LEMMA SearchNumbersOnLine ==
  ASSUME NEW s \in Texts, NEW p, At(s, p), p.st = "Ok"
  PROVE  OnLine(s, p, SearchNumbers(p))
<1>0. Size(s) \in Nat
  BY DEF Texts, Size
<1>1. PICK y : y = Yield(p, <<>>)
  OBVIOUS
<1>2. SearchNumbers(p) = SearchLoop(y, 0)
  BY <1>1 DEF SearchNumbers, SearchLoop, While
<1>3. At(s, y) /\ y.pos \in Nat
  BY <1>1, YieldAt DEF At
<1>4. PICK f : Runs(f, "search", 0, y, Size(s) + 1) /\ SearchLoop(y, 0) = f[Size(s) + 1]
  BY <1>0, <1>3, SearchRuns
<1>5. \A x : LoopTurn("search", 0, x) = SearchTurn(x)
  BY DEF LoopTurn
<1>6. TurnsOnLine(s, "search", 0, Anywhere)
  BY <1>5, SearchTurnOnLine, TurnsAnywhere
<1>7. PICK n : n = Size(s) + 1
  OBVIOUS
<1>8. OnLine(s, y, f[n])
  BY <1>0, <1>3, <1>4, <1>6, <1>7, SpotAnywhere, LoopOnLine
<1> QED BY <1>0, <1>1, <1>2, <1>4, <1>7, <1>8, FromOnLine

-------------------------------------------------------------------------------
(* What follows a space. *)

LEMMA SpOnLine ==
  ASSUME NEW s \in Texts, NEW p, At(s, p), p.st = "Ok"
  PROVE  OnLine(s, p, ConsumeSp(p)) /\ At(s, ConsumeSp(p))
<1>1. "SP" # "EOF" /\ "SP" # "CR"
  OBVIOUS
<1> QED BY <1>1, ByteOnLine DEF ConsumeSp, OnLine

LEMMA SpacedOnLine ==
  ASSUME NEW s \in Texts, NEW p, At(s, p), p.st = "Ok", NEW c, ConsumeSp(p).st = "Ok" => OnLine(s, ConsumeSp(p), c)
  PROVE  OnLine(s, p, Spaced(p, c))
<1>0. Size(s) \in Nat
  BY DEF Texts, Size
<1> QED BY <1>0, SpOnLine, ChainOnLine DEF Spaced

LEMMA AfterSpOnLine ==
  ASSUME NEW s \in Texts, NEW p, At(s, p), p.st = "Ok"
  PROVE  /\ OnLine(s, p, NumberAfterSp(p)) /\ OnLine(s, p, NstringAfterSp(p)) /\ OnLine(s, p, AstringAfterSp(p))
         /\ OnLine(s, p, BytesAfterSp(p)) /\ OnLine(s, p, AtomAfterSp(p)) /\ OnLine(s, p, AtomListAfterSp(p))
<1>1. PICK k : k = ConsumeSp(p)
  OBVIOUS
<1>2. At(s, k)
  BY <1>1, SpOnLine
<1>3. OnLine(s, p, NumberAfterSp(p))
  BY <1>1, <1>2, NumberOnLine, SpacedOnLine DEF NumberAfterSp
<1>4. OnLine(s, p, NstringAfterSp(p))
  BY <1>1, <1>2, NstringOnLine, SpacedOnLine DEF NstringAfterSp
<1>5. OnLine(s, p, AstringAfterSp(p))
  BY <1>1, <1>2, AstringOnLine, SpacedOnLine DEF AstringAfterSp
<1>6. OnLine(s, p, BytesAfterSp(p))
  BY <1>1, <1>2, NstringBytesOnLine, SpacedOnLine DEF BytesAfterSp
<1>7. OnLine(s, p, AtomAfterSp(p))
  BY <1>1, <1>2, AtomOnLine, SpacedOnLine DEF AtomAfterSp
<1>8. OnLine(s, p, AtomListAfterSp(p))
  BY <1>1, <1>2, AtomListOnLine, SpacedOnLine DEF AtomListAfterSp
<1> QED BY <1>3, <1>4, <1>5, <1>6, <1>7, <1>8

LEMMA StatusItemOnLine ==
  ASSUME NEW s \in Texts, NEW p, At(s, p), p.st = "Ok"
  PROVE  OnLine(s, p, ParseStatusItem(p))
<1>0. Size(s) \in Nat
  BY DEF Texts, Size
<1>1. PICK a, b, v : a = ParseAtom(p) /\ b = NumberAfterSp(a) /\ v = [key |-> a.val, value |-> b.val]
  OBVIOUS
<1>2. ParseStatusItem(p) = Chain(a, Revalued(b, v))
  BY <1>1, StatusItemIs
<1>3. OnLine(s, p, a) /\ At(s, a)
  BY <1>1, AtomOnLine DEF OnLine
<1>4. a.st = "Ok" => OnLine(s, a, Revalued(b, v))
  BY <1>0, <1>1, <1>3, AfterSpOnLine, RevaluedOnLine
<1> QED BY <1>0, <1>2, <1>3, <1>4, ChainOnLine

LEMMA StatusItemsOnLine ==
  ASSUME NEW s \in Texts, NEW p, At(s, p), p.st = "Ok"
  PROVE  OnLine(s, p, ParseStatusItems(p))
<1>0. Size(s) \in Nat /\ "(" # "EOF" /\ "(" # "CR"
  BY DEF Texts, Size
<1>1. PICK k, y : k = ConsumeByte(p, "(") /\ y = Yield(k, <<>>)
  OBVIOUS
<1>2. ParseStatusItems(p) = Chain(k, ListTail(k, StatusLoop(y, 0)))
  BY <1>1 DEF ParseStatusItems, ParenList, Then, Chain, ListTail, StatusLoop
<1>3. OnLine(s, p, k) /\ At(s, k) /\ At(s, y) /\ y.pos \in Nat
  BY <1>0, <1>1, ByteOnLine, ConsumeByteFacts, YieldAt DEF At
<1>4. PICK f : Runs(f, "status", 0, y, Size(s) + 1) /\ StatusLoop(y, 0) = f[Size(s) + 1]
  BY <1>0, <1>3, StatusRuns
<1>5. \A x : LoopTurn("status", 0, x) = ItemEnds(ParseStatusItem(x), x.val)
  BY DEF LoopTurn
<1>6. TurnsOnLine(s, "status", 0, Anywhere)
  <2>1. ASSUME NEW x, At(s, x), x.st = "Ok" PROVE OnLine(s, x, ItemEnds(ParseStatusItem(x), x.val))
    <3>1. OnLine(s, x, ParseStatusItem(x)) /\ ParseStatusItem(x).st # "More"
      BY <2>1, StatusItemOnLine, StatusItemFacts, EatsFacts
    <3> QED BY <1>0, <2>1, <3>1, ItemEndsOnLine
  <2> QED BY <1>5, <2>1, TurnsAnywhere
<1>7. PICK n : n = Size(s) + 1
  OBVIOUS
<1>8. OnLine(s, y, f[n])
  BY <1>0, <1>3, <1>4, <1>6, <1>7, SpotAnywhere, LoopOnLine
<1>9. k.st = "Ok" => OnLine(s, k, ListTail(k, f[n]))
  BY <1>0, <1>1, <1>3, <1>8, ListTailOnLine
<1> QED BY <1>0, <1>2, <1>3, <1>4, <1>7, <1>9, ChainOnLine

LEMMA BodiesOnLine ==
  ASSUME NEW s \in Texts, NEW p, At(s, p), p.st = "Ok"
  PROVE  OnLine(s, p, StatusBodyAfterSp(p)) /\ OnLine(s, p, ListBodyAfterSp(p))
<1>0. Size(s) \in Nat
  BY DEF Texts, Size
<1>1. ASSUME NEW q, At(s, q), q.st = "Ok" PROVE OnLine(s, q, ParseStatusBody(q))
  <2>1. PICK a, b, v : a = ParseAstring(q) /\ b = StatusItemsAfterSp(a) /\ v = [mailbox |-> a.val, items |-> b.val]
    OBVIOUS
  <2>2. ParseStatusBody(q) = Chain(a, Revalued(b, v))
    BY <2>1 DEF ParseStatusBody, Then, Chain, Revalued, StatusItemsAfterSp, Spaced
  <2>3. OnLine(s, q, a) /\ At(s, a)
    BY <1>1, <2>1, AstringOnLine DEF OnLine
  <2>4. a.st = "Ok" => OnLine(s, a, b)
    BY <2>1, <2>3, SpOnLine, StatusItemsOnLine, SpacedOnLine DEF StatusItemsAfterSp
  <2>5. a.st = "Ok" => OnLine(s, a, Revalued(b, v))
    BY <1>0, <2>3, <2>4, RevaluedOnLine
  <2> QED BY <1>0, <1>1, <2>2, <2>3, <2>5, ChainOnLine
<1>2. ASSUME NEW q, At(s, q), q.st = "Ok" PROVE OnLine(s, q, ParseListLsubBody(q))
  <2>1. PICK a, b, c, v : /\ a = ParseParenAtomList(q) /\ b = NstringAfterSp(a) /\ c = AstringAfterSp(b)
                          /\ v = [flags |-> a.val, delimiter |-> b.val, name |-> c.val]
    OBVIOUS
  <2>2. ParseListLsubBody(q) = Chain(a, Chain(b, Revalued(c, v)))
    BY <2>1 DEF ParseListLsubBody, Then, Chain, Revalued, NstringAfterSp, AstringAfterSp, Spaced
  <2>3. OnLine(s, q, a) /\ At(s, a)
    BY <1>2, <2>1, AtomListOnLine DEF OnLine
  <2>4. ASSUME a.st = "Ok" PROVE OnLine(s, a, Chain(b, Revalued(c, v)))
    <3>1. OnLine(s, a, b) /\ At(s, b)
      BY <2>1, <2>3, <2>4, AfterSpOnLine DEF OnLine
    <3>2. b.st = "Ok" => OnLine(s, b, Revalued(c, v))
      BY <1>0, <2>1, <3>1, AfterSpOnLine, RevaluedOnLine
    <3> QED BY <1>0, <2>3, <3>1, <3>2, ChainOnLine
  <2> QED BY <1>0, <1>2, <2>2, <2>3, <2>4, ChainOnLine
<1> QED BY <1>1, <1>2, SpOnLine, SpacedOnLine DEF StatusBodyAfterSp, ListBodyAfterSp

-------------------------------------------------------------------------------
(* FETCH: a name is read through line breaks, but a name that is known has none. *)

\* A token of one symbol.
LEMMA TokenOne ==
  ASSUME NEW s \in Texts, NEW p, At(s, p), p.st = "Ok", NEW T, Token(p, T).st = "Ok", Len(Token(p, T).val) = 1
  PROVE  Token(p, T).pos = p.pos + 1 /\ s[p.pos] = Token(p, T).val[1]
<1>0. Size(s) \in Nat /\ p.pos \in Nat /\ 1 <= p.pos /\ p.pos <= Size(s) + 1
  BY DEF Texts, Size, At
<1>1. PICK q, a : q = ScanTo(p, T) /\ a = Token(p, T)
  OBVIOUS
<1>2. At(s, q) /\ q.st = "Ok" /\ q.pos \in p.pos .. Size(s) + 1
  BY <1>1, ScanFacts
<1>3. a = ScannedText(q, p.pos)
  <2>1. Fail(q, "Malformed").st # "Ok"
    BY <1>2, FailFacts DEF At
  <2> QED BY <1>1, <2>1 DEF Token
<1>4. a.pos = q.pos /\ a.val = Taken(q, p.pos)
  BY <1>0, <1>1, <1>2, <1>3, ScannedFacts
<1>5. /\ Size(Taken(q, p.pos)) = q.pos - p.pos
      /\ \A k \in 1 .. q.pos - p.pos : Taken(q, p.pos)[k] = s[p.pos + k - 1]
  BY <1>0, <1>2, TakenFacts
<1>6. q.pos - p.pos = 1
  BY <1>1, <1>4, <1>5 DEF Size
<1>7. q.pos = p.pos + 1 /\ 1 \in 1 .. q.pos - p.pos /\ p.pos + 1 - 1 = p.pos
  BY <1>0, <1>2, <1>6
<1>8. a.val[1] = s[p.pos]
  BY <1>4, <1>5, <1>7
<1> QED BY <1>1, <1>4, <1>7, <1>8

\* A name of a FETCH attribute begins at i.
Begins(s, i) == \E names \in NamesIn(s) : i \in names

LEMMA BeginsInside ==
  ASSUME NEW s, NEW i, Begins(s, i)
  PROVE  i \in 2 .. Size(s) + 1
BY DEF Begins, NamesIn

LEMMA FirstBegins ==
  ASSUME NEW s, NEW j \in 2 .. Size(s) + 1, FirstIn(s, j)
  PROVE  Begins(s, j)
<1>1. s[j - 1] \in {"SP", "("}
  BY DEF FirstIn
<1>2. {j} \in NamesIn(s)
  BY <1>1 DEF NamesIn
<1> QED BY <1>2 DEF Begins

LEMMA NextBegins ==
  ASSUME NEW s, NEW h, Begins(s, h), NEW j \in 2 .. Size(s) + 1, h < j, NextIn(s, h, j)
  PROVE  Begins(s, j)
<1>1. PICK names \in NamesIn(s) : h \in names
  BY DEF Begins
<1>2. s[j - 1] \in {"SP", "("}
  BY DEF NextIn
<1>3. names \cup {j} \in NamesIn(s)
  BY <1>1, <1>2 DEF NamesIn
<1> QED BY <1>3 DEF Begins

LEMMA NameUnended ==
  ASSUME NEW s \in Texts, NEW p, At(s, p), p.st = "Ok", Begins(s, p.pos), ParseFetchAttName(p).st = "Incomplete"
  PROVE  ~LineIsIn(s)
<1>0. Size(s) \in Nat /\ p.pos \in Nat /\ 1 <= p.pos /\ p.pos <= Size(s) + 1
  BY DEF Texts, Size, At
<1>1. PICK T : T = {"SP", "[", ")"}
  OBVIOUS
<1>2. PICK q : q = ScanTo(p, T)
  OBVIOUS
<1>3. At(s, q) /\ q.st = "Ok" /\ q.pos \in p.pos .. Size(s) + 1 /\ Stops(Places(s, T), p.pos, Size(s), q.pos)
  BY <1>2, ScanFacts
<1>4. IsEof(q)
  <2> SUFFICES ASSUME ~IsEof(q) PROVE FALSE
    OBVIOUS
  <2>1. Token(p, T) = Fail(q, "Malformed") \/ Token(p, T) = FromUtf8(q, Taken(q, p.pos))
    BY <1>2 DEF Token, ScannedText
  <2>2. Fail(q, "Malformed").st = "Malformed"
    BY <1>3, FailFacts DEF At
  <2>3. FromUtf8(q, Taken(q, p.pos)).st \in {"Ok", "Other"}
    BY <1>3, FromUtf8Facts
  <2>4. Token(p, T).st = "Incomplete"
    BY <1>1 DEF ParseFetchAttName
  <2> QED BY <2>1, <2>2, <2>3, <2>4
<1>5. q.pos = Size(s) + 1
  BY <1>0, <1>3, <1>4, PeekFacts
<1>6. PICK names \in NamesIn(s) : p.pos \in names
  BY DEF Begins
<1>7. ASSUME NEW k \in p.pos .. Size(s) PROVE s[k] \notin {"SP", "[", ")"}
  <2>1. k \in p.pos .. q.pos - 1 /\ k \in 1 .. Size(s)
    BY <1>0, <1>5
  <2>2. k \notin Places(s, T)
    BY <1>3, <2>1 DEF Stops
  <2> QED BY <1>1, <2>1, <2>2 DEF Places
<1>8. NameIn(s)
  BY <1>6, <1>7 DEF NameIn
<1> QED BY <1>8 DEF LineIsIn

LEMMA NameOnLine ==
  ASSUME NEW s \in Texts, NEW p, At(s, p), p.st = "Ok", ParseFetchAttName(p).st = "Ok",
         Len(ParseFetchAttName(p).val) = 1, ParseFetchAttName(p).val[1] \in FetchNames
  PROVE  OnLine(s, p, ParseFetchAttName(p))
<1>0. Size(s) \in Nat /\ p.pos \in Nat
  BY DEF Texts, Size, At
<1>1. PICK a : a = ParseFetchAttName(p)
  OBVIOUS
<1>2. a.pos = p.pos + 1 /\ s[p.pos] = a.val[1] /\ At(s, a)
  BY <1>1, TokenOne, TokenFacts DEF ParseFetchAttName
<1>3. s[p.pos] # "CR"
  BY <1>1, <1>2 DEF FetchNames
<1>4. Free(s, p.pos, a.pos)
  BY <1>0, <1>2, <1>3, FreeOne
<1> QED BY <1>1, <1>2, <1>4 DEF OnLine

LEMMA OriginOnLine ==
  ASSUME NEW s \in Texts, NEW p, At(s, p), p.st = "Ok"
  PROVE  OnLine(s, p, Origin(p))
<1>0. Size(s) \in Nat /\ ">" # "EOF" /\ ">" # "CR"
  BY DEF Texts, Size
<1>1. CASE Peek(p) # "<"
  BY <1>1, YieldOnLine DEF Origin
<1>2. CASE Peek(p) = "<"
  <2>1. PICK x, a, b, v : /\ x = Advance(p, 1) /\ a = ParseNumber(x) /\ b = ConsumeByte(a, ">") /\ v = <<a.val>>
    OBVIOUS
  <2>2. ~IsEof(p) /\ Peek(p) # "CR"
    BY <1>0, <1>2, PeekFacts
  <2>3. At(s, x) /\ x.st = "Ok"
    BY <1>0, <2>1, <2>2, AdvanceOne
  <2>4. OnLine(s, x, a) /\ At(s, a)
    BY <2>1, <2>3, NumberOnLine DEF OnLine
  <2>5. a.st = "Ok" => OnLine(s, a, Revalued(b, v))
    BY <1>0, <2>1, <2>4, ByteOnLine, RevaluedOnLine
  <2>6. OnLine(s, x, Chain(a, Revalued(b, v)))
    BY <1>0, <2>3, <2>4, <2>5, ChainOnLine
  <2>7. Origin(p) = Chain(a, Revalued(b, v))
    BY <1>2, <2>1 DEF Origin, NumberFirst
  <2> QED BY <1>0, <2>1, <2>2, <2>6, <2>7, AfterStep
<1> QED BY <1>1, <1>2

LEMMA BodySectionOnLine ==
  ASSUME NEW s \in Texts, NEW p, At(s, p), p.st = "Ok"
  PROVE  OnLine(s, p, ParseBodySection(p))
<1>0. Size(s) \in Nat /\ "]" # "EOF" /\ "]" # "CR"
  BY DEF Texts, Size
<1>1. PICK a, b, c, v : /\ a = ReadUntilByte(p, "]") /\ b = Bracket(a) /\ c = BytesAfterSp(b)
                        /\ v = [att |-> "BODY[]", section |-> a.val, origin |-> b.val, data |-> c.val]
  OBVIOUS
<1>2. ParseBodySection(p) = Chain(a, Chain(b, Revalued(c, v)))
  BY <1>1 DEF ParseBodySection, Then, Chain, Revalued, Bracket, Origin, NumberFirst, BytesAfterSp, Spaced
<1>3. OnLine(s, p, a) /\ At(s, a)
  BY <1>1, ReadUntilOnLine DEF OnLine
<1>4. ASSUME a.st = "Ok" PROVE OnLine(s, a, Chain(b, Revalued(c, v)))
  <2>1. PICK k : k = ConsumeByte(a, "]")
    OBVIOUS
  <2>2. OnLine(s, a, k) /\ At(s, k)
    BY <1>0, <1>3, <1>4, <2>1, ByteOnLine DEF OnLine
  <2>3. OnLine(s, a, Chain(k, Origin(k)))
    BY <1>0, <1>3, <2>2, OriginOnLine, ChainOnLine
  <2>4. OnLine(s, a, b) /\ At(s, b)
    BY <1>1, <2>1, <2>3 DEF Bracket, OnLine
  <2>5. b.st = "Ok" => OnLine(s, b, Revalued(c, v))
    BY <1>0, <1>1, <2>4, AfterSpOnLine, RevaluedOnLine
  <2> QED BY <1>0, <1>3, <2>4, <2>5, ChainOnLine
<1> QED BY <1>0, <1>2, <1>3, <1>4, ChainOnLine

LEMMA FetchNamedOnLine ==
  ASSUME NEW s \in Texts, NEW p, At(s, p), p.st = "Ok", NEW word \in FetchNames
  PROVE  OnLine(s, p, FetchNamed(p, word))
<1>0. Size(s) \in Nat
  BY DEF Texts, Size
<1>1. ASSUME NEW q, At(s, q), q.st = "Ok" PROVE OnLine(s, q, FetchValue(word, q))
  <2>1. word \in NumberNames => OnLine(s, q, FetchValue(word, q))
    BY <1>1, FetchValueIs, NumberOnLine
  <2>2. word = "FLAGS" => OnLine(s, q, FetchValue(word, q))
    BY <1>1, FetchValueIs, AtomListOnLine
  <2>3. word = "INTERNALDATE" => OnLine(s, q, FetchValue(word, q))
    BY <1>1, FetchValueIs, QuotedOnLine
  <2>4. word \in TextNames => OnLine(s, q, FetchValue(word, q))
    BY <1>0, <1>1, FetchValueIs, NstringBytesOnLine, RevaluedOnLine
  <2>5. word \in TreeNames => OnLine(s, q, FetchValue(word, q))
    BY <1>1, FetchValueIs, ParensOnLine
  <2> QED BY <2>1, <2>2, <2>3, <2>4, <2>5, FetchValueIs
<1>2. PICK k, a, v : k = ConsumeSp(p) /\ a = FetchValue(word, k) /\ v = [att |-> word, data |-> a.val]
  OBVIOUS
<1>3. FetchNamed(p, word) = Spaced(p, Revalued(a, v))
  BY <1>2 DEF FetchNamed
<1>4. At(s, k)
  BY <1>2, SpOnLine
<1>5. k.st = "Ok" => OnLine(s, k, Revalued(a, v))
  BY <1>0, <1>1, <1>2, <1>4, RevaluedOnLine
<1> QED BY <1>2, <1>3, <1>5, SpacedOnLine

LEMMA OneFetchOnLine ==
  ASSUME NEW s \in Texts, NEW p, At(s, p), p.st = "Ok", Begins(s, p.pos)
  PROVE  OnLine(s, p, ParseOneFetchAtt(p))
<1>0. Size(s) \in Nat /\ "Malformed" \notin Going
  BY DEF Texts, Size, Going
<1>1. PICK a : a = ParseFetchAttName(p)
  OBVIOUS
<1>2. ParseOneFetchAtt(p) = Chain(a, FetchTail(a))
  BY <1>1, OneFetchIs
<1>3. At(s, a) /\ a.st # "More"
  BY <1>1, FetchNameFacts, EatsFacts
<1>4. CASE a.st # "Ok"
  <2>1. OnLine(s, p, a)
    BY <1>1, <1>3, <1>4, NameUnended DEF OnLine, Going
  <2> QED BY <1>2, <1>4, <2>1 DEF Chain
<1>5. CASE a.st = "Ok" /\ Len(a.val) = 1 /\ a.val[1] \in FetchNames
  <2>1. OnLine(s, p, a)
    BY <1>1, <1>5, NameOnLine
  <2>2. CASE a.val = <<"BODY">> /\ Peek(a) = "["
    <3>1. FetchTail(a) = ParseBodySection(Advance(a, 1))
      BY <2>2 DEF FetchTail
    <3>2. ~IsEof(a) /\ Peek(a) # "CR"
      BY <1>0, <1>3, <2>2, PeekFacts
    <3>3. At(s, Advance(a, 1)) /\ Advance(a, 1).st = "Ok"
      BY <1>0, <1>3, <1>5, <3>2, AdvanceOne
    <3>4. OnLine(s, Advance(a, 1), FetchTail(a))
      BY <3>1, <3>3, BodySectionOnLine
    <3>5. OnLine(s, a, FetchTail(a))
      BY <1>0, <1>3, <1>5, <3>2, <3>4, AfterStep
    <3> QED BY <1>0, <1>2, <2>1, <3>5, ChainOnLine
  <2>3. CASE ~(a.val = <<"BODY">> /\ Peek(a) = "[")
    <3>1. FetchTail(a) = FetchNamed(a, a.val[1])
      BY <1>5, <2>3 DEF FetchTail
    <3>2. OnLine(s, a, FetchTail(a))
      BY <1>3, <1>5, <3>1, FetchNamedOnLine
    <3> QED BY <1>0, <1>2, <2>1, <3>2, ChainOnLine
  <2> QED BY <2>2, <2>3
<1>6. CASE a.st = "Ok" /\ ~(Len(a.val) = 1 /\ a.val[1] \in FetchNames)
  <2>1. a.val # <<"BODY">>
    <3>1. Len(<<"BODY">>) = 1 /\ <<"BODY">>[1] \in FetchNames
      BY DEF FetchNames
    <3> QED BY <1>6, <3>1
  <2>2. FetchTail(a) = Fail(a, "Malformed")
    BY <1>6, <2>1 DEF FetchTail
  <2>3. OnLine(s, p, Fail(a, "Malformed"))
    BY <1>0, <1>3, FailOnLine
  <2> QED BY <1>2, <1>6, <2>2, <2>3 DEF Chain
<1> QED BY <1>4, <1>5, <1>6

LEMMA SameParser ==
  ASSUME NEW s, NEW a, NEW b, At(s, a), At(s, b), Same(a, b)
  PROVE  a = b
<1>1. \A f \in Fields : a[f] = b[f]
  BY DEF Fields, At, Same
<1>2. [f \in Fields |-> a[f]] = [f \in Fields |-> b[f]]
  BY <1>1
<1> QED BY <1>2 DEF At, IsParser

\* The parser that the name at x is read with, whatever was read before it.
Renewed(s, x) == [New(s) EXCEPT !.pos = x.pos, !.itemsLeft = x.itemsLeft]

LEMMA RenewedFacts ==
  ASSUME NEW s \in Texts, NEW x, At(s, x)
  PROVE  At(s, Renewed(s, x)) /\ Renewed(s, x).st = "Ok" /\ Renewed(s, x).pos = x.pos /\ Renewed(s, x).itemsLeft = x.itemsLeft
<1>1. Renewed(s, x) = [f \in Fields |-> Renewed(s, x)[f]]
  BY DEF Renewed, New, Fields
<1>2. /\ Renewed(s, x).input = s /\ Renewed(s, x).pos = x.pos /\ Renewed(s, x).itemsLeft = x.itemsLeft
      /\ Renewed(s, x).st = "Ok"
  BY DEF Renewed, New
<1> QED BY <1>1, <1>2 DEF At, IsParser

LEMMA NameRenewed ==
  ASSUME NEW s \in Texts, NEW x, At(s, x), x.st = "Ok", ParseFetchAttName(x).st = "Ok"
  PROVE  ParseFetchAttName(x) = ParseFetchAttName(Renewed(s, x))
<1>0. Size(s) \in Nat /\ x.pos \in Nat /\ 1 <= x.pos /\ x.pos <= Size(s) + 1
  BY DEF Texts, Size, At
<1>1. PICK y, T : y = Renewed(s, x) /\ T = {"SP", "[", ")"}
  OBVIOUS
<1>2. At(s, y) /\ y.st = "Ok" /\ y.pos = x.pos /\ y.itemsLeft = x.itemsLeft
  BY <1>1, RenewedFacts
<1>3. PICK q, r : q = ScanTo(x, T) /\ r = ScanTo(y, T)
  OBVIOUS
<1>4. /\ At(s, q) /\ q.st = "Ok" /\ q.itemsLeft = x.itemsLeft /\ q.pos \in x.pos .. Size(s) + 1
      /\ At(s, r) /\ r.st = "Ok" /\ r.itemsLeft = x.itemsLeft /\ r.pos \in x.pos .. Size(s) + 1
      /\ Stops(Places(s, T), x.pos, Size(s), q.pos) /\ Stops(Places(s, T), x.pos, Size(s), r.pos)
  BY <1>2, <1>3, ScanFacts
<1>5. q.pos = r.pos
  BY <1>0, <1>4 DEF Stops
<1>6. PICK v : v = Taken(q, x.pos)
  OBVIOUS
<1>7. Taken(r, x.pos) = v /\ (IsEof(q) <=> IsEof(r))
  BY <1>4, <1>5, <1>6 DEF Taken, IsEof, At
<1>8. Token(x, T).st = "Ok"
  BY <1>1 DEF ParseFetchAttName
<1>9. ~IsEof(q) /\ q.pos # x.pos
  <2>1. IsEof(q) => Token(x, T) = Fail(q, "Incomplete")
    BY <1>3 DEF Token, ScannedText
  <2>2. ~IsEof(q) /\ q.pos = x.pos => Token(x, T) = Fail(q, "Malformed")
    BY <1>3 DEF Token
  <2>3. Fail(q, "Incomplete").st = "Incomplete" /\ Fail(q, "Malformed").st = "Malformed"
    BY <1>4, FailFacts DEF At
  <2> QED BY <1>8, <2>1, <2>2, <2>3
<1>10. Token(x, T) = FromUtf8(q, v) /\ Token(y, T) = FromUtf8(r, v)
  BY <1>2, <1>3, <1>5, <1>6, <1>7, <1>9 DEF Token, ScannedText
<1>11. FromUtf8(q, v) = Yield(q, v) /\ FromUtf8(r, v) = Yield(r, v)
  <2>1. Fail(q, "Other").st = "Other"
    BY <1>4, FailFacts DEF At
  <2> QED BY <1>8, <1>10, <2>1 DEF FromUtf8
<1>12. At(s, Yield(q, v)) /\ At(s, Yield(r, v)) /\ Same(Yield(q, v), Yield(r, v))
  BY <1>4, <1>5, YieldAt, YieldFacts DEF Same, At
<1>13. Token(x, T) = Token(y, T)
  BY <1>10, <1>11, <1>12, SameParser
<1> QED BY <1>1, <1>13 DEF ParseFetchAttName

LEMMA FetchTurnOnLine ==
  ASSUME NEW s \in Texts, NEW x, At(s, x), x.st = "Ok", Begins(s, x.pos), x.itemsLeft <= MaxItems
  PROVE  /\ OnLine(s, x, ItemEnds(ParseOneFetchAtt(x), x.val))
         /\ ItemEnds(ParseOneFetchAtt(x), x.val).st = "More" =>
              /\ Begins(s, ItemEnds(ParseOneFetchAtt(x), x.val).pos)
              /\ ItemEnds(ParseOneFetchAtt(x), x.val).itemsLeft <= MaxItems
<1>0. Size(s) \in Nat /\ x.pos \in Nat /\ x.itemsLeft \in Nat /\ MaxItems \in Nat
  BY LimitsAssumption DEF Texts, Size, At
<1>1. PICK a, e : a = ParseOneFetchAtt(x) /\ e = ItemEnds(a, x.val)
  OBVIOUS
<1>2. At(s, a) /\ a.st # "More" /\ Moves(s, x, a) /\ Hungry(s, x, a)
  BY <1>1, OneFetchFacts, EatsFacts
<1>3. OnLine(s, x, a)
  BY <1>1, OneFetchOnLine
<1>4. OnLine(s, x, e) /\ (e.st = "More" => e.pos = a.pos + 1 /\ s[a.pos] = "SP")
  BY <1>0, <1>1, <1>2, <1>3, ItemEndsOnLine
<1>5. ASSUME e.st = "More" PROVE Begins(s, e.pos) /\ e.itemsLeft <= MaxItems
  <2>1. a.st = "Ok"
    BY <1>1, <1>2, <1>5, ItemEndsIs DEF Chain
  <2>2. a.pos \in Nat /\ x.pos <= a.pos /\ 1 <= a.pos
    BY <1>2, <2>1 DEF Moves, Going, At
  <2>3. At(s, e) /\ e.pos = a.pos + 1 /\ s[a.pos] = "SP"
    BY <1>4, <1>5 DEF OnLine
  <2>4. e.pos \in 2 .. Size(s) + 1 /\ e.pos - 1 = a.pos /\ x.pos < e.pos
    BY <1>0, <2>2, <2>3 DEF At
  <2>5. a = ParseOneFetchAtt(Renewed(s, x))
    <3>1. PICK m : m = ParseFetchAttName(x)
      OBVIOUS
    <3>2. m.st = "Ok" /\ a = Chain(m, FetchTail(m))
      BY <1>1, <2>1, <3>1, OneFetchIs, ChainOk
    <3>3. m = ParseFetchAttName(Renewed(s, x))
      BY <3>1, <3>2, NameRenewed
    <3> QED BY <3>2, <3>3, OneFetchIs
  <2>6. x.itemsLeft \in 0 .. MaxItems
    BY <1>0
  <2>7. NextIn(s, x.pos, e.pos)
    BY <2>1, <2>3, <2>4, <2>5, <2>6 DEF NextIn, Renewed
  <2>8. Begins(s, e.pos)
    BY <2>4, <2>7, NextBegins
  <2>9. e.itemsLeft <= a.itemsLeft
    <3>1. PICK m : m = PushItem(a, x.val, a.val)
      OBVIOUS
    <3>2. e = Chain(m, ItemEnd(m))
      BY <1>1, <2>1, <3>1, ItemEndsIs DEF Chain
    <3>3. At(s, m) /\ m.st = (IF a.itemsLeft = 0 THEN "TooManyItems" ELSE "Ok")
          /\ (a.itemsLeft # 0 => m.itemsLeft = a.itemsLeft - 1)
      BY <1>2, <2>1, <3>1, PushItemFacts
    <3>4. m.st = "Ok" /\ a.itemsLeft # 0 /\ e = ItemEnd(m)
      BY <1>5, <3>2, <3>3 DEF Chain
    <3>5. e.itemsLeft = m.itemsLeft
      <4>1. IsParser(m) /\ IsParser(Advance(m, 1)) /\ Advance(m, 1).itemsLeft = m.itemsLeft
        BY <3>3, AdvanceFacts DEF At
      <4>2. ItemEnd(m) \in {Fail(m, "Incomplete"), GoOn(Advance(m, 1)), Advance(m, 1), Fail(m, "Malformed")}
        BY DEF ItemEnd
      <4> QED BY <3>4, <4>1, <4>2, FailFacts, GoOnFacts
    <3> QED BY <1>2, <3>3, <3>4, <3>5 DEF At
  <2>10. a.itemsLeft <= x.itemsLeft
    <3>1. a.val \in FetchItems /\ a.itemsLeft + FetchWeight[a.val] <= x.itemsLeft
      BY <1>1, <2>1, OneFetchValue
    <3>2. FetchWeight[a.val] \in Nat
      BY <3>1, FetchItemKinds
    <3> QED BY <1>0, <1>2, <3>1, <3>2 DEF At
  <2>11. e.itemsLeft <= MaxItems
    BY <1>0, <1>2, <2>3, <2>9, <2>10 DEF At
  <2> QED BY <2>8, <2>11
<1> QED BY <1>1, <1>4, <1>5

\* FETCH is at i, behind the "*" and the number.
FetchAt(s, i) ==
  LET number == ParseNumber(Advance(New(s), 2))
  IN  /\ Size(s) > 1 /\ s[1] = "*" /\ s[2] = "SP"
      /\ number.st = "Ok" /\ number.pos \in Nat /\ i = number.pos + 1
      /\ s[number.pos] = "SP" /\ s[i] = "FETCH"

LEMMA FetchMsgAttOnLine ==
  ASSUME NEW s \in Texts, NEW p, At(s, p), p.st = "Ok", p.itemsLeft <= MaxItems,
         FetchAt(s, p.pos - 2), s[p.pos - 1] = "SP"
  PROVE  OnLine(s, p, ParseFetchMsgAtt(p))
<1>0. Size(s) \in Nat /\ p.pos \in Nat /\ 1 <= p.pos /\ "(" # "EOF" /\ "(" # "CR" /\ MaxItems \in Nat
  BY LimitsAssumption DEF Texts, Size, At
<1>1. PICK k, y : k = ConsumeByte(p, "(") /\ y = Yield(k, <<>>)
  OBVIOUS
<1>2. ParseFetchMsgAtt(p) = Chain(k, ListTail(k, FetchLoop(y, 0)))
  BY <1>1 DEF ParseFetchMsgAtt, ParenList, Then, Chain, ListTail, FetchLoop
<1>3. OnLine(s, p, k) /\ At(s, k) /\ At(s, y) /\ Spot(y) = Spot(k) /\ k.itemsLeft = p.itemsLeft
  BY <1>0, <1>1, ByteOnLine, ConsumeByteFacts, ConsumeByteKeeps, YieldAt, YieldFacts DEF At, Spot
<1>4. ASSUME k.st = "Ok" PROVE OnLine(s, k, ListTail(k, FetchLoop(y, 0)))
  <2>1. PICK f : Runs(f, "fetch", 0, y, Size(s) + 1) /\ FetchLoop(y, 0) = f[Size(s) + 1]
    BY <1>0, <1>3, FetchRuns
  <2>2. \A x : LoopTurn("fetch", 0, x) = ItemEnds(ParseOneFetchAtt(x), x.val)
    BY DEF LoopTurn
  <2>3. PICK S : S = {i \in Nat : Begins(s, i)} \X (0 .. MaxItems)
    OBVIOUS
  <2>4. ASSUME NEW x, At(s, x)
        PROVE  Spot(x) \in S <=> Begins(s, x.pos) /\ x.itemsLeft <= MaxItems
    BY <1>0, <2>3, <2>4 DEF Spot, At
  <2>5. TurnsOnLine(s, "fetch", 0, S)
    <3> SUFFICES ASSUME NEW x, At(s, x), x.st = "Ok", Spot(x) \in S
                 PROVE  /\ OnLine(s, x, LoopTurn("fetch", 0, x))
                        /\ LoopTurn("fetch", 0, x).st = "More" => Spot(LoopTurn("fetch", 0, x)) \in S
      BY DEF TurnsOnLine
    <3>1. PICK e : e = LoopTurn("fetch", 0, x)
      OBVIOUS
    <3>2. OnLine(s, x, e) /\ (e.st = "More" => Begins(s, e.pos) /\ e.itemsLeft <= MaxItems)
      BY <2>2, <2>4, <3>1, FetchTurnOnLine
    <3>3. At(s, e)
      BY <3>2 DEF OnLine
    <3> QED BY <2>4, <3>1, <3>2, <3>3
  <2>6. s[p.pos] = "(" /\ k.pos = p.pos + 1
    BY <1>0, <1>1, <1>4, ByteSeen, ConsumeByteFacts
  <2>7. PICK number : number = ParseNumber(Advance(New(s), 2))
    OBVIOUS
  <2>8. /\ Size(s) > 1 /\ s[1] = "*" /\ s[2] = "SP" /\ number.st = "Ok" /\ number.pos \in Nat
        /\ p.pos - 2 = number.pos + 1 /\ s[number.pos] = "SP" /\ s[p.pos - 2] = "FETCH"
    BY <2>7 DEF FetchAt
  <2>9. PICK j : j = k.pos
    OBVIOUS
  <2>10. j = number.pos + 4 /\ j - 4 = number.pos /\ j - 3 = p.pos - 2 /\ j - 2 = p.pos - 1 /\ j - 1 = p.pos
    BY <1>0, <2>6, <2>8, <2>9
  <2>11. FirstIn(s, j)
    BY <2>6, <2>7, <2>8, <2>10 DEF FirstIn
  <2>12. j \in 2 .. Size(s) + 1
    BY <1>0, <1>3, <2>6, <2>9 DEF At
  <2>13. Spot(y) \in S
    BY <1>3, <2>4, <2>9, <2>11, <2>12, FirstBegins
  <2>14. PICK n : n = Size(s) + 1
    OBVIOUS
  <2>15. OnLine(s, y, f[n])
    BY <1>0, <1>3, <2>1, <2>5, <2>13, <2>14, LoopOnLine
  <2> QED BY <1>0, <1>1, <1>3, <1>4, <2>1, <2>14, <2>15, ListTailOnLine
<1> QED BY <1>0, <1>2, <1>3, <1>4, ChainOnLine

LEMMA FetchItemsOnLine ==
  ASSUME NEW s \in Texts, NEW p, At(s, p), p.st = "Ok", p.itemsLeft <= MaxItems, FetchAt(s, p.pos - 1)
  PROVE  OnLine(s, p, FetchItemsAfterSp(p))
<1>1. PICK k : k = ConsumeSp(p)
  OBVIOUS
<1>2. At(s, k) /\ p.pos \in Nat /\ k.pos \in Nat /\ k.itemsLeft = p.itemsLeft
  BY <1>1, SpOnLine, ConsumeByteKeeps DEF At, ConsumeSp
<1>3. k.st = "Ok" => k.pos = p.pos + 1 /\ s[p.pos] = "SP"
  BY <1>1, ConsumeByteFacts, ByteSeen DEF ConsumeSp
<1>4. k.st = "Ok" => k.pos - 2 = p.pos - 1 /\ k.pos - 1 = p.pos
  BY <1>2, <1>3
<1>5. k.st = "Ok" => OnLine(s, k, ParseFetchMsgAtt(k))
  BY <1>2, <1>3, <1>4, FetchMsgAttOnLine
<1> QED BY <1>1, <1>5, SpacedOnLine DEF FetchItemsAfterSp

-------------------------------------------------------------------------------
(* The text of a status response. *)

LEMMA CodeSourceOnLine ==
  ASSUME NEW s \in Texts, NEW p, At(s, p), p.st = "Ok", NEW word
  PROVE  OnLine(s, p, CodeSource(p, word))
<1>0. Size(s) \in Nat
  BY DEF Texts, Size
<1>1. ASSUME Peek(p) = "SP"
      PROVE  OnLine(s, p, ParseParenAtomList(Advance(p, 1))) /\ OnLine(s, p, ReadUntilByte(Advance(p, 1), "]"))
  <2>1. PICK x : x = Advance(p, 1)
    OBVIOUS
  <2>2. ~IsEof(p) /\ Peek(p) # "CR"
    BY <1>0, <1>1, PeekFacts
  <2>3. At(s, x) /\ x.st = "Ok"
    BY <1>0, <2>1, <2>2, AdvanceOne
  <2>4. OnLine(s, x, ParseParenAtomList(x)) /\ OnLine(s, x, ReadUntilByte(x, "]"))
    BY <2>3, AtomListOnLine, ReadUntilOnLine
  <2> QED BY <1>0, <2>1, <2>2, <2>4, AfterStep
<1>2. OnLine(s, p, Yield(p, <<>>))
  BY YieldOnLine
<1>3. OnLine(s, p, CharsetList(p)) /\ OnLine(s, p, CodeText(p))
  BY <1>1, <1>2 DEF CharsetList, CodeText
<1>4. word \in BareCodes => OnLine(s, p, CodeSource(p, word))
  BY <1>2, CodeSourceIs
<1>5. word \in NumberCodes => OnLine(s, p, CodeSource(p, word))
  BY CodeSourceIs, AfterSpOnLine
<1>6. word = "CAPABILITY" => OnLine(s, p, CodeSource(p, word))
  BY CodeSourceIs, CapabilityAtomsOnLine
<1>7. word = "PERMANENTFLAGS" => OnLine(s, p, CodeSource(p, word))
  BY CodeSourceIs, AfterSpOnLine
<1>8. word = "BADCHARSET" => OnLine(s, p, CodeSource(p, word))
  BY <1>3, CodeSourceIs
<1>9. word \notin BareCodes \cup NumberCodes \cup {"CAPABILITY", "PERMANENTFLAGS", "BADCHARSET"}
        => OnLine(s, p, CodeSource(p, word))
  BY <1>3, CodeSourceIs
<1> QED BY <1>4, <1>5, <1>6, <1>7, <1>8, <1>9

LEMMA RespTextCodeOnLine ==
  ASSUME NEW s \in Texts, NEW p, At(s, p), p.st = "Ok"
  PROVE  OnLine(s, p, ParseRespTextCode(p))
<1>0. Size(s) \in Nat
  BY DEF Texts, Size
<1>1. PICK a, b : a = CodeAtom(p) /\ b = CodeArgument(a, a.val)
  OBVIOUS
<1>2. ParseRespTextCode(p) = Chain(a, b)
  BY <1>1, RespTextCodeIs
<1>3. OnLine(s, p, a) /\ At(s, a)
  BY <1>1, CodeAtomOnLine DEF OnLine
<1>4. a.st = "Ok" => OnLine(s, a, b)
  BY <1>0, <1>1, <1>3, CodeArgumentIs, CodeSourceOnLine, RevaluedOnLine
<1> QED BY <1>0, <1>2, <1>3, <1>4, ChainOnLine

LEMMA TextWithOnLine ==
  ASSUME NEW s \in Texts, NEW p, At(s, p), p.st = "Ok", NEW code
  PROVE  OnLine(s, p, TextWith(p, code))
<1>0. Size(s) \in Nat
  BY DEF Texts, Size
<1> QED BY <1>0, TextOnLine, RevaluedOnLine DEF TextWith

LEMMA CodeEndOnLine ==
  ASSUME NEW s \in Texts, NEW p, At(s, p), p.st = "Ok"
  PROVE  OnLine(s, p, CodeEnd(p))
<1>0. Size(s) \in Nat /\ "]" # "EOF" /\ "]" # "CR" /\ "SP" # "EOF" /\ "SP" # "CR"
  BY DEF Texts, Size
<1>1. PICK k, x, c : k = ConsumeByte(p, "]") /\ x = TryConsumeByte(k, "SP") /\ c = <<p.val>>
  OBVIOUS
<1>2. OnLine(s, p, k) /\ At(s, k)
  BY <1>0, <1>1, ByteOnLine DEF OnLine
<1>3. ASSUME k.st = "Ok" PROVE OnLine(s, k, TextAfter(k, c))
  <2>1. OnLine(s, k, x) /\ x.st = "Ok" /\ At(s, x)
    BY <1>0, <1>1, <1>2, <1>3, TryOnLine DEF OnLine
  <2>2. OnLine(s, x, TextWith(x, c))
    BY <2>1, TextWithOnLine
  <2>3. OnLine(s, k, TextWith(x, c))
    BY <1>0, <1>2, <2>1, <2>2, JoinOnLine DEF Going
  <2> QED BY <1>1, <2>3 DEF TextAfter
<1>4. CodeEnd(p) = Chain(k, TextAfter(k, c))
  BY <1>1 DEF CodeEnd
<1> QED BY <1>0, <1>2, <1>3, <1>4, ChainOnLine

LEMMA RespTextOnLine ==
  ASSUME NEW s \in Texts, NEW p, At(s, p), p.st = "Ok"
  PROVE  OnLine(s, p, ParseRespText(p))
<1>0. Size(s) \in Nat
  BY DEF Texts, Size
<1>1. CASE Peek(p) # "["
  BY <1>1, RespTextIs, TextWithOnLine
<1>2. CASE Peek(p) = "["
  <2>1. PICK x, a : x = Advance(p, 1) /\ a = ParseRespTextCode(x)
    OBVIOUS
  <2>2. ~IsEof(p) /\ Peek(p) # "CR"
    BY <1>0, <1>2, PeekFacts
  <2>3. At(s, x) /\ x.st = "Ok"
    BY <1>0, <2>1, <2>2, AdvanceOne
  <2>4. OnLine(s, x, a) /\ At(s, a)
    BY <2>1, <2>3, RespTextCodeOnLine DEF OnLine
  <2>5. OnLine(s, x, Chain(a, CodeEnd(a)))
    BY <1>0, <2>3, <2>4, CodeEndOnLine, ChainOnLine
  <2>6. ParseRespText(p) = Chain(a, CodeEnd(a))
    BY <1>2, <2>1, RespTextIs DEF CodedText
  <2> QED BY <1>0, <2>1, <2>2, <2>5, <2>6, AfterStep
<1> QED BY <1>1, <1>2

LEMMA AfterKeywordOnLine ==
  ASSUME NEW s \in Texts, NEW p, At(s, p), p.st = "Ok"
  PROVE  OnLine(s, p, ParseRespTextAfterKeyword(p))
<1>0. Size(s) \in Nat
  BY DEF Texts, Size
<1>1. CASE Peek(p) # "SP"
  BY <1>1, YieldOnLine DEF ParseRespTextAfterKeyword
<1>2. CASE Peek(p) = "SP"
  <2>1. PICK x : x = Advance(p, 1)
    OBVIOUS
  <2>2. ~IsEof(p) /\ Peek(p) # "CR"
    BY <1>0, <1>2, PeekFacts
  <2>3. At(s, x) /\ x.st = "Ok"
    BY <1>0, <2>1, <2>2, AdvanceOne
  <2>4. OnLine(s, x, ParseRespText(x))
    BY <2>3, RespTextOnLine
  <2>5. ParseRespTextAfterKeyword(p) = ParseRespText(x)
    BY <1>2, <2>1 DEF ParseRespTextAfterKeyword
  <2> QED BY <1>0, <2>1, <2>2, <2>4, <2>5, AfterStep
<1> QED BY <1>1, <1>2

-------------------------------------------------------------------------------
(* Whole lines. *)

\* The response from p to a is the rest of one line, and it is decided if the line has come in.
Ended(s, p, a) ==
  /\ a.st = "Ok" => /\ a.pos \in Nat /\ a.pos > 2 /\ s[a.pos - 2] = "CR" /\ s[a.pos - 1] = "LF"
                    /\ Free(s, p.pos, a.pos - 2)
  /\ LineIsIn(s) /\ p.pos < Size(s) => a.st # "Incomplete"

LEMMA ChainEnded ==
  ASSUME NEW s, Size(s) \in Nat, NEW p, At(s, p), NEW a, OnLine(s, p, a), NEW c, a.st = "Ok" => Ended(s, a, c)
  PROVE  Ended(s, p, Chain(a, c))
<1>1. CASE a.st # "Ok"
  BY <1>1 DEF Chain, Ended, OnLine
<1>2. CASE a.st = "Ok"
  <2>1. p.pos \in Nat /\ a.pos \in Nat /\ Free(s, p.pos, a.pos) /\ Chain(a, c) = c
    BY <1>2 DEF OnLine, At, Going, Chain
  <2>2. LineIsIn(s) /\ p.pos < Size(s) => a.pos < Size(s)
    BY <2>1, FreeInside
  <2>3. ASSUME c.st = "Ok" PROVE Free(s, p.pos, c.pos - 2)
    <3>1. c.pos - 2 \in Nat /\ Free(s, a.pos, c.pos - 2)
      BY <1>2, <2>3 DEF Ended
    <3> QED BY <2>1, <3>1, FreeJoin
  <2> QED BY <1>2, <2>1, <2>2, <2>3 DEF Ended
<1> QED BY <1>1, <1>2

LEMMA EndOfLineEnded ==
  ASSUME NEW s \in Texts, NEW p, At(s, p), NEW a, OnLine(s, p, a), NEW kind
  PROVE  Ended(s, p, EndOfLine(a, kind))
<1>0. Size(s) \in Nat /\ At(s, a)
  BY DEF Texts, Size, OnLine
<1>1. PICK r, v, c : r = ConsumeCrlf(a) /\ v = Response(kind, a.val) /\ c = Revalued(r, v)
  OBVIOUS
<1>2. EndOfLine(a, kind) = Chain(a, c)
  BY <1>1, EndOfLineIs
<1>3. ASSUME a.st = "Ok" PROVE Ended(s, a, c)
  <2>1. At(s, r)
    BY <1>0, <1>1, <1>3, ConsumeCrlfFacts
  <2>2. /\ r.st = "Ok" => s[a.pos] = "CR" /\ s[a.pos + 1] = "LF" /\ r.pos = a.pos + 2
        /\ LineIsIn(s) /\ a.pos < Size(s) => r.st # "Incomplete"
    BY <1>0, <1>1, <1>3, CrlfEnds
  <2>3. CASE r.st # "Ok"
    <3>1. c = r
      BY <1>1, <2>3 DEF Revalued, Chain
    <3> QED BY <2>2, <2>3, <3>1 DEF Ended
  <2>4. CASE r.st = "Ok"
    <3>1. c.pos = r.pos /\ c.st = "Ok"
      BY <1>1, <2>1, <2>4, YieldFacts DEF Revalued, Chain, At
    <3>2. a.pos \in Nat /\ 1 <= a.pos
      BY <1>0 DEF At
    <3>3. c.pos \in Nat /\ c.pos > 2 /\ c.pos - 2 = a.pos /\ c.pos - 1 = a.pos + 1
      BY <2>2, <2>4, <3>1, <3>2
    <3>4. Free(s, a.pos, c.pos - 2)
      BY <3>2, <3>3, FreeNone
    <3> QED BY <2>2, <2>4, <3>1, <3>3, <3>4 DEF Ended
  <2> QED BY <2>3, <2>4
<1> QED BY <1>0, <1>2, <1>3, ChainEnded

LEMMA FinishOtherEnded ==
  ASSUME NEW s \in Texts, NEW p, At(s, p), p.st = "Ok", NEW i
  PROVE  Ended(s, p, FinishOther(p, i))
<1>0. Size(s) \in Nat /\ "CR" \in {"CR"}
  BY DEF Texts, Size
<1>1. PICK q : q = ScanTo(p, {"CR"})
  OBVIOUS
<1>2. OnLine(s, p, q) /\ q.st = "Ok" /\ At(s, q)
  BY <1>0, <1>1, ScanOnLine DEF OnLine
<1>3. OnLine(s, q, Yield(q, Taken(q, i)))
  BY <1>2, YieldOnLine
<1>4. OnLine(s, p, Yield(q, Taken(q, i)))
  BY <1>0, <1>2, <1>3, JoinOnLine DEF Going
<1>5. FinishOther(p, i) = EndOfLine(Yield(q, Taken(q, i)), "Other")
  BY <1>1 DEF FinishOther
<1> QED BY <1>4, <1>5, EndOfLineEnded

LEMMA NumericTailEnded ==
  ASSUME NEW s \in Texts, NEW p, At(s, p), p.st = "Ok", p.itemsLeft <= MaxItems,
         p.val = <<"FETCH">> => FetchAt(s, p.pos - 1), NEW n
  PROVE  Ended(s, p, NumericTail(p, n))
<1>0. Size(s) \in Nat
  BY DEF Texts, Size
<1>1. CASE p.val \in CountNames
  <2>1. NumericTail(p, n) = EndOfLine(Yield(p, <<n>>), p.val[1])
    BY <1>1 DEF NumericTail
  <2>2. OnLine(s, p, Yield(p, <<n>>))
    BY YieldOnLine
  <2> QED BY <2>1, <2>2, EndOfLineEnded
<1>2. CASE p.val \notin CountNames /\ p.val = <<"FETCH">>
  <2>1. NumericTail(p, n) = EndOfLine(FetchLine(p, n), "FETCH")
    BY <1>2 DEF NumericTail
  <2>2. OnLine(s, p, FetchLine(p, n))
    BY <1>0, <1>2, FetchItemsOnLine, RevaluedOnLine DEF FetchLine
  <2> QED BY <2>1, <2>2, EndOfLineEnded
<1>3. CASE p.val \notin CountNames /\ p.val # <<"FETCH">>
  BY <1>3, FinishOtherEnded DEF NumericTail
<1> QED BY <1>1, <1>2, <1>3

LEMMA NumericEnded ==
  ASSUME NEW s \in Texts, NEW p, At(s, p), p.st = "Ok",
         p = Advance(New(s), 2), Size(s) > 1, s[1] = "*", s[2] = "SP"
  PROVE  Ended(s, p, ParseNumericDataResponse(p))
<1>0. Size(s) \in Nat /\ p.itemsLeft = MaxItems /\ MaxItems \in Nat
  BY LimitsAssumption, NewFacts, AdvanceFacts DEF Texts, Size, At
<1>1. PICK a, k, b, c : /\ a = ParseNumber(p) /\ k = ConsumeSp(a) /\ b = AtomAfterSp(a) /\ c = NumericTail(b, a.val)
  OBVIOUS
<1>2. ParseNumericDataResponse(p) = Chain(a, Chain(b, c))
  BY <1>1, NumericIs
<1>3. OnLine(s, p, a) /\ At(s, a) /\ a.itemsLeft = MaxItems
  BY <1>0, <1>1, NumberOnLine, ParseNumberFacts DEF OnLine
<1>4. ASSUME a.st = "Ok" PROVE Ended(s, a, Chain(b, c))
  <2>1. OnLine(s, a, b) /\ At(s, b) /\ At(s, k)
    BY <1>1, <1>3, <1>4, AfterSpOnLine, SpOnLine DEF OnLine
  <2>2. ASSUME b.st = "Ok"
        PROVE  b = ParseAtom(k) /\ k.st = "Ok" /\ b.itemsLeft = MaxItems /\ k.pos = a.pos + 1 /\ s[a.pos] = "SP"
    <3>1. b = ParseAtom(k) /\ k.st = "Ok" /\ k.itemsLeft = a.itemsLeft
      BY <1>1, <1>3, <1>4, <2>2, SpacedOk DEF AtomAfterSp
    <3>2. b.itemsLeft = k.itemsLeft
      BY <2>1, <2>2, <3>1, AtomValue
    <3>3. k.pos = a.pos + 1 /\ s[a.pos] = "SP"
      BY <1>1, <1>3, <1>4, <3>1, ConsumeByteFacts, ByteSeen DEF ConsumeSp
    <3> QED BY <1>3, <3>1, <3>2, <3>3
  <2>3. ASSUME b.st = "Ok", b.val = <<"FETCH">> PROVE FetchAt(s, b.pos - 1)
    <3>1. Len(b.val) = 1 /\ b.val[1] = "FETCH"
      BY <2>3
    <3>2. b.pos = k.pos + 1 /\ s[k.pos] = b.val[1]
      BY <2>1, <2>2, <2>3, <3>1, TokenOne DEF ParseAtom
    <3>3. a.pos \in Nat /\ b.pos - 1 = a.pos + 1
      BY <1>3, <2>2, <2>3, <3>2 DEF At
    <3> QED BY <1>1, <1>4, <2>2, <2>3, <3>1, <3>2, <3>3 DEF FetchAt
  <2>4. b.st = "Ok" => Ended(s, b, c)
    BY <1>0, <1>1, <2>1, <2>2, <2>3, NumericTailEnded
  <2> QED BY <1>0, <1>3, <2>1, <2>4, ChainEnded
<1> QED BY <1>0, <1>2, <1>3, <1>4, ChainEnded

LEMMA NamedEnded ==
  ASSUME NEW s \in Texts, NEW p, At(s, p), p.st = "Ok"
  PROVE  Ended(s, p, ParseNamedDataResponse(p))
<1>0. Size(s) \in Nat
  BY DEF Texts, Size
<1>1. PICK a, w, i : a = ParseAtom(p) /\ w = CodeWord(a.val) /\ i = p.pos
  OBVIOUS
<1>2. ParseNamedDataResponse(p) = Chain(a, NamedTail(a, i))
  BY <1>1, NamedIs
<1>3. OnLine(s, p, a) /\ At(s, a)
  BY <1>1, AtomOnLine DEF OnLine
<1>4. ASSUME a.st = "Ok" PROVE Ended(s, a, NamedTail(a, i))
  <2>1. CASE w \in NamedBodies
    <3>1. w = "CAPABILITY" => OnLine(s, a, NamedBody(a, w))
      BY <1>3, <1>4, NamedBodyIs, CapabilityAtomsOnLine
    <3>2. w \in {"LIST", "LSUB"} => OnLine(s, a, NamedBody(a, w))
      BY <1>3, <1>4, NamedBodyIs, BodiesOnLine
    <3>3. w = "STATUS" => OnLine(s, a, NamedBody(a, w))
      BY <1>3, <1>4, NamedBodyIs, BodiesOnLine
    <3>4. w = "SEARCH" => OnLine(s, a, NamedBody(a, w))
      BY <1>3, <1>4, NamedBodyIs, SearchNumbersOnLine
    <3>5. w = "FLAGS" => OnLine(s, a, NamedBody(a, w))
      BY <1>3, <1>4, NamedBodyIs, AfterSpOnLine
    <3>6. OnLine(s, a, NamedBody(a, w))
      BY <2>1, <3>1, <3>2, <3>3, <3>4, <3>5, NamedBodyIs
    <3>7. NamedTail(a, i) = EndOfLine(NamedBody(a, w), w)
      BY <1>1, <2>1 DEF NamedTail
    <3> QED BY <1>3, <3>6, <3>7, EndOfLineEnded
  <2>2. CASE w \notin NamedBodies
    BY <1>1, <1>3, <1>4, <2>2, FinishOtherEnded DEF NamedTail
  <2> QED BY <2>1, <2>2
<1> QED BY <1>0, <1>2, <1>3, <1>4, ChainEnded

LEMMA FinishStatusEnded ==
  ASSUME NEW s \in Texts, NEW p, At(s, p), p.st = "Ok", StatusAt(p) # {}, NEW tag
  PROVE  Ended(s, p, FinishStatus(p, tag))
<1>0. Size(s) \in Nat
  BY DEF Texts, Size
<1>1. PICK k \in Statuses : MatchesKeyword(p, StatusKeywords[k])
  BY StatusAtIs
<1>2. PICK w, x, a, v : /\ w = StatusKeywords[k] /\ x = Advance(p, Size(w)) /\ a = ParseRespTextAfterKeyword(x)
                        /\ v = [tag |-> tag, status |-> k, text |-> a.val]
  OBVIOUS
<1>3. w \in Texts /\ \A i \in 1 .. Size(w) : w[i] \notin LineBreak
  BY <1>2, KeywordsFacts
<1>4. OnLine(s, p, x) /\ x.st = "Ok" /\ At(s, x)
  BY <1>1, <1>2, <1>3, WordOnLine DEF OnLine
<1>5. OnLine(s, x, Revalued(a, v))
  BY <1>0, <1>2, <1>4, AfterKeywordOnLine, RevaluedOnLine
<1>6. Ended(s, x, EndOfLine(Revalued(a, v), "Status"))
  BY <1>4, <1>5, EndOfLineEnded
<1>7. FinishStatus(p, tag) = EndOfLine(Revalued(a, v), "Status")
  BY <1>1, <1>2, FinishStatusIs DEF StatusLine
<1>8. Ended(s, p, Chain(x, FinishStatus(p, tag)))
  BY <1>0, <1>4, <1>6, <1>7, ChainEnded
<1> QED BY <1>4, <1>8 DEF Chain

LEMMA FailEnded ==
  ASSUME NEW s, NEW p, At(s, p), NEW e, e # "Ok", e # "Incomplete" \/ ~(LineIsIn(s) /\ p.pos < Size(s))
  PROVE  Ended(s, p, Fail(p, e))
<1>1. Fail(p, e).st = e
  BY FailFacts DEF At
<1> QED BY <1>1 DEF Ended

LEMMA TaggedTailEnded ==
  ASSUME NEW s \in Texts, NEW p, At(s, p), p.st = "Ok", NEW tag
  PROVE  Ended(s, p, TaggedTail(p, tag))
<1>1. CASE StatusAt(p) # {}
  BY <1>1, FinishStatusEnded DEF TaggedTail
<1>2. CASE StatusAt(p) = {} /\ CouldBeStatusKeywordPrefix(Remaining(p))
  <2>1. PICK k \in Statuses : IsStrictPrefix(Remaining(p), StatusKeywords[k])
    BY <1>2, StatusAtIs
  <2>2. StatusKeywords[k] \in Texts /\ \A i \in 1 .. Size(StatusKeywords[k]) : StatusKeywords[k][i] \notin LineBreak
    BY KeywordsFacts
  <2>3. ~(LineIsIn(s) /\ p.pos < Size(s))
    BY <2>1, <2>2, WordOnLine
  <2>4. TaggedTail(p, tag) = Fail(p, "Incomplete")
    BY <1>2 DEF TaggedTail
  <2> QED BY <2>3, <2>4, FailEnded
<1>3. CASE StatusAt(p) = {} /\ ~CouldBeStatusKeywordPrefix(Remaining(p))
  <2>1. TaggedTail(p, tag) = Fail(p, "Malformed")
    BY <1>3 DEF TaggedTail
  <2> QED BY <2>1, FailEnded
<1> QED BY <1>1, <1>2, <1>3

LEMMA TaggedEnded ==
  ASSUME NEW s \in Texts, NEW p, At(s, p), p.st = "Ok"
  PROVE  Ended(s, p, ParseTagged(p))
<1>0. Size(s) \in Nat
  BY DEF Texts, Size
<1>1. PICK a, k, c : a = ParseTag(p) /\ k = ConsumeSp(a) /\ c = TaggedTail(k, <<a.val>>)
  OBVIOUS
<1>2. ParseTagged(p) = Chain(a, Chain(k, c))
  BY <1>1, TaggedIs DEF TaggedLine, Spaced
<1>3. OnLine(s, p, a) /\ At(s, a)
  BY <1>1, AtomOnLine DEF OnLine
<1>4. ASSUME a.st = "Ok" PROVE Ended(s, a, Chain(k, c))
  <2>1. OnLine(s, a, k) /\ At(s, k)
    BY <1>1, <1>3, <1>4, SpOnLine
  <2>2. k.st = "Ok" => Ended(s, k, c)
    BY <1>1, <2>1, TaggedTailEnded
  <2> QED BY <1>0, <1>3, <2>1, <2>2, ChainEnded
<1> QED BY <1>0, <1>2, <1>3, <1>4, ChainEnded

LEMMA OpenedOnLine ==
  ASSUME NEW s \in Texts, NEW p, At(s, p), p.st = "Ok", NEW c, c # "EOF", c # "CR"
  PROVE  OnLine(s, p, Opened(p, c)) /\ At(s, Opened(p, c))
<1>0. Size(s) \in Nat
  BY DEF Texts, Size
<1>1. PICK k : k = ConsumeByte(p, c)
  OBVIOUS
<1>2. OnLine(s, p, k) /\ At(s, k)
  BY <1>1, ByteOnLine DEF OnLine
<1>3. OnLine(s, p, Chain(k, ConsumeSp(k)))
  BY <1>0, <1>2, SpOnLine, ChainOnLine
<1> QED BY <1>1, <1>3 DEF Opened, OnLine

LEMMA ContinueEnded ==
  ASSUME NEW s \in Texts, NEW p, At(s, p), p.st = "Ok"
  PROVE  Ended(s, p, ParseContinueReq(p))
<1>0. Size(s) \in Nat /\ "+" # "EOF" /\ "+" # "CR"
  BY DEF Texts, Size
<1>1. PICK a : a = Opened(p, "+")
  OBVIOUS
<1>2. OnLine(s, p, a) /\ At(s, a)
  BY <1>0, <1>1, OpenedOnLine
<1>3. OnLine(s, p, Chain(a, ParseRespText(a)))
  BY <1>0, <1>2, RespTextOnLine, ChainOnLine
<1>4. OnLine(s, p, ContinueText(p))
  BY <1>1, <1>3 DEF ContinueText
<1> QED BY <1>4, ContinueIs, EndOfLineEnded

LEMMA StarOpened ==
  ASSUME NEW s \in Texts, Opened(New(s), "*").st = "Ok"
  PROVE  Opened(New(s), "*") = Advance(New(s), 2) /\ Size(s) > 1 /\ s[1] = "*" /\ s[2] = "SP"
<1>1. PICK p, a, b : p = New(s) /\ a = ConsumeByte(p, "*") /\ b = ConsumeSp(a)
  OBVIOUS
<1>2. At(s, p) /\ p.st = "Ok" /\ p.pos = 1 /\ Size(s) \in Nat /\ IsParser(p)
  BY <1>1, NewFacts DEF At, Texts, Size
<1>3. a.st = "Ok" /\ b.st = "Ok" /\ Opened(p, "*") = b
  BY <1>1, ChainOk DEF Opened
<1>4. a = Advance(p, 1) /\ s[p.pos] = "*" /\ At(s, a)
  BY <1>1, <1>2, <1>3, ByteSeen, ConsumeByteFacts
<1>5. b = Advance(a, 1) /\ s[a.pos] = "SP" /\ ~IsEof(a)
  BY <1>1, <1>3, <1>4, ByteSeen DEF ConsumeSp
<1>6. a.pos = 2 /\ a.st = p.st /\ a.itemsLeft = p.itemsLeft /\ a.val = p.val /\ a.input = s
  BY <1>2, <1>4, AdvanceFacts DEF At
<1>7. Size(s) > 1
  BY <1>2, <1>4, <1>5, <1>6, PeekFacts DEF At
<1>8. At(s, b) /\ Same(b, Advance(p, 2)) /\ At(s, Advance(p, 2))
  <2>1. b.pos = 3 /\ b.st = p.st /\ b.itemsLeft = p.itemsLeft /\ b.val = p.val /\ b.input = s /\ IsParser(b)
    BY <1>4, <1>5, <1>6, AdvanceFacts DEF At
  <2>2. /\ Advance(p, 2).pos = 3 /\ Advance(p, 2).st = p.st /\ Advance(p, 2).itemsLeft = p.itemsLeft
        /\ Advance(p, 2).val = p.val /\ Advance(p, 2).input = s /\ IsParser(Advance(p, 2))
    BY <1>2, AdvanceFacts DEF At
  <2> QED BY <1>2, <1>7, <2>1, <2>2 DEF At, Same
<1> QED BY <1>1, <1>2, <1>3, <1>4, <1>5, <1>6, <1>7, <1>8, SameParser

LEMMA UntaggedEnded ==
  ASSUME NEW s \in Texts, NEW p, At(s, p), p.st = "Ok", p = New(s)
  PROVE  Ended(s, p, ParseUntagged(p))
<1>0. Size(s) \in Nat /\ "*" # "EOF" /\ "*" # "CR"
  BY DEF Texts, Size
<1>1. PICK a : a = Opened(p, "*")
  OBVIOUS
<1>2. OnLine(s, p, a) /\ At(s, a)
  BY <1>0, <1>1, OpenedOnLine
<1>3. ASSUME a.st = "Ok" PROVE Ended(s, a, UntaggedTail(a))
  <2>1. CASE StatusAt(a) # {}
    BY <1>2, <1>3, <2>1, FinishStatusEnded DEF UntaggedTail
  <2>2. CASE StatusAt(a) = {} /\ IsEof(a)
    <3>1. UntaggedTail(a) = Fail(a, "Incomplete")
      BY <2>2 DEF UntaggedTail
    <3>2. ~(a.pos < Size(s))
      BY <1>0, <1>2, <2>2, PeekFacts DEF At
    <3> QED BY <1>2, <3>1, <3>2, FailEnded
  <2>3. CASE StatusAt(a) = {} /\ ~IsEof(a)
    <3>1. a = Advance(New(s), 2) /\ Size(s) > 1 /\ s[1] = "*" /\ s[2] = "SP"
      BY <1>1, <1>3, StarOpened
    <3> QED BY <1>2, <1>3, <2>3, <3>1, NumericEnded, NamedEnded DEF UntaggedTail
  <2> QED BY <2>1, <2>2, <2>3
<1> QED BY <1>0, <1>1, <1>2, <1>3, UntaggedIs, ChainEnded

LEMMA ReplyEnded ==
  ASSUME NEW s \in Texts, NEW p, At(s, p), p.st = "Ok", p = New(s)
  PROVE  Ended(s, p, Reply(p))
<1>0. Size(s) \in Nat
  BY DEF Texts, Size
<1>1. CASE IsEof(p)
  <2>1. ~(p.pos < Size(s))
    BY <1>0, <1>1, PeekFacts DEF At
  <2> QED BY <1>1, <2>1, ReplyIs, FailEnded
<1>2. CASE ~IsEof(p)
  BY <1>2, ReplyIs, ContinueEnded, UntaggedEnded, TaggedEnded
<1> QED BY <1>1, <1>2

-------------------------------------------------------------------------------
(* A frame and its line. *)

(***************************************************************************)
(* Of any text: a complete response ends in a CRLF and every CR before it  *)
(* belongs to a literal; and a text that ends in a CRLF outside a literal  *)
(* and outside the name of a FETCH attribute is decided (parse_response,   *)
(* parser.rs).                                                             *)
(***************************************************************************)
THEOREM LinesAndFrames ==
  ASSUME NEW s \in Texts
  PROVE  /\ ParseResponse(s).st = "Ok" =>
              /\ ParseResponse(s).used > 1
              /\ s[ParseResponse(s).used] = "LF" /\ s[ParseResponse(s).used - 1] = "CR"
              /\ \A k \in 1 .. ParseResponse(s).used - 2 : s[k] = "CR" => LiteralIn(s, k + 1)
         /\ LineIsIn(s) => ParseResponse(s).st # "Incomplete"
<1>1. PICK p, a, r : p = New(s) /\ a = Reply(p) /\ r = ParseResponse(s)
  OBVIOUS
<1>2. At(s, p) /\ p.st = "Ok" /\ p.pos = 1
  BY <1>1, NewFacts
<1>3. Ended(s, p, a)
  BY <1>1, <1>2, ReplyEnded
<1>4. r.st = a.st /\ (a.st = "Ok" => r.used = a.pos - 1)
  BY <1>1, ParseStatus
<1>5. LineIsIn(s) => r.st # "Incomplete"
  BY <1>2, <1>3, <1>4 DEF Ended, LineIsIn
<1>6. ASSUME r.st = "Ok"
      PROVE  /\ r.used > 1 /\ s[r.used] = "LF" /\ s[r.used - 1] = "CR"
             /\ \A k \in 1 .. r.used - 2 : s[k] = "CR" => LiteralIn(s, k + 1)
  <2>1. /\ a.pos \in Nat /\ a.pos > 2 /\ s[a.pos - 2] = "CR" /\ s[a.pos - 1] = "LF"
        /\ Free(s, 1, a.pos - 2)
    BY <1>2, <1>3, <1>4, <1>6 DEF Ended
  <2>2. r.used = a.pos - 1 /\ r.used > 1 /\ r.used - 1 = a.pos - 2 /\ r.used - 2 = a.pos - 2 - 1
    BY <1>4, <1>6, <2>1
  <2>3. \A k \in 1 .. r.used - 2 : s[k] = "CR" => LiteralIn(s, k + 1)
    BY <2>1, <2>2 DEF Free
  <2> QED BY <2>1, <2>2, <2>3
<1> QED BY <1>1, <1>5, <1>6

LEMMA InputLines ==
  /\ \A k \in Nat : \A n : HeaderAt(k, n) <=> HeaderIn(input, k, n)
  /\ \A k \in Nat : InLiteral(k) <=> LiteralIn(input, k)
  /\ InFetchName <=> NameIn(input)
<1>1. \A k \in Nat : \A n : HeaderAt(k, n) <=> HeaderIn(input, k, n)
  BY DEF HeaderAt, HeaderIn, CrlfAt
<1>2. \A k \in Nat : InLiteral(k) <=> LiteralIn(input, k)
  BY <1>1 DEF InLiteral, LiteralIn
<1>3. InFetchName <=> NameIn(input)
  <2>1. \A j : FirstName(j) <=> FirstIn(input, j)
    BY DEF FirstName, FirstIn, Size
  <2>2. \A h, j : NextName(h, j) <=> NextIn(input, h, j)
    BY DEF NextName, NextIn
  <2> QED BY <2>1, <2>2 DEF InFetchName, NameIn, NamesIn, Size
<1> QED BY <1>1, <1>2, <1>3

(***************************************************************************)
(* A frame is one line: it ends in CRLF, and every earlier CRLF in it      *)
(* belongs to the header or the octets of a literal (parse_response,       *)
(* parser.rs).                                                             *)
(***************************************************************************)
THEOREM FramesAreLines == Spec => []FrameIsOneLine
<1>1. FeedInv => FrameIsOneLine
  <2> SUFFICES ASSUME FeedInv, verdict.st = "Ok"
               PROVE  CrlfAt(verdict.used) /\ \A k \in 2 .. verdict.used - 1 : CrlfAt(k) => InLiteral(k)
    BY DEF FrameIsOneLine
  <2>1. PICK u : u = verdict.used
    OBVIOUS
  <2>2. /\ u > 1 /\ input[u] = "LF" /\ input[u - 1] = "CR"
        /\ \A k \in 1 .. u - 2 : input[k] = "CR" => LiteralIn(input, k + 1)
    BY <2>1, LinesAndFrames DEF FeedInv
  <2>3. u \in Nat
    BY <2>1, FrameFits DEF FeedInv
  <2>4. ASSUME NEW k \in 2 .. u - 1, CrlfAt(k) PROVE InLiteral(k)
    <3>1. PICK i : i = k - 1
      OBVIOUS
    <3>2. i \in 1 .. u - 2 /\ i + 1 = k /\ k \in Nat
      BY <2>3, <3>1
    <3>3. input[i] = "CR"
      BY <2>4, <3>1 DEF CrlfAt
    <3>4. LiteralIn(input, k)
      BY <2>2, <3>2, <3>3
    <3> QED BY <3>2, <3>4, InputLines
  <2> QED BY <2>1, <2>2, <2>4 DEF CrlfAt
<1>2. FeedInv /\ [Next]_vars => FeedInv'
  BY FeedNext
<1> QED BY <1>1, <1>2, FeedInit, PTL DEF Spec

(***************************************************************************)
(* A line gets its verdict when its CRLF arrives: the parser asks for more *)
(* behind a CRLF only inside a literal or inside the name of a FETCH       *)
(* attribute (parse_fetch_att_name scans through line breaks, parser.rs).  *)
(***************************************************************************)
THEOREM LinesAreDecided == Spec => []LineIsDecided
<1>1. FeedInv => LineIsDecided
  <2> SUFFICES ASSUME FeedInv, verdict.st = "Incomplete", CrlfAt(Len(input)), ~InLiteral(Len(input)), ~InFetchName
               PROVE  FALSE
    BY DEF LineIsDecided
  <2>1. input \in Texts /\ Len(input) \in Nat /\ Size(input) = Len(input) /\ verdict = ParseResponse(input)
    BY DEF FeedInv, Texts, Size
  <2>2. ~LiteralIn(input, Len(input)) /\ ~NameIn(input)
    BY <2>1, InputLines
  <2>3. LineIsIn(input)
    BY <2>1, <2>2 DEF LineIsIn, CrlfAt
  <2> QED BY <2>1, <2>3, LinesAndFrames
<1>2. FeedInv /\ [Next]_vars => FeedInv'
  BY FeedNext
<1> QED BY <1>1, <1>2, FeedInit, PTL DEF Spec
===============================================================================
