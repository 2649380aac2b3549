----------------------------- MODULE FramingProofs -----------------------------
(* Proofs about Framing, for any streams and any sizes of reads and frames.     *)
EXTENDS Framing, ParserProofs

\* Nothing is not a response yet.
LEMMA NothingWaits == ParseResponse(<<>>).st = "Incomplete"
<1>0. <<>> \in Texts /\ Size(<<>>) = 0
  BY DEF Texts, Size
<1>1. At(<<>>, New(<<>>)) /\ New(<<>>).st = "Ok" /\ New(<<>>).pos = Size(<<>>) + 1
  BY <1>0, NewFacts
<1>2. Eats(<<>>, New(<<>>), Reply(New(<<>>)))
  BY <1>0, <1>1, ReplyFacts, DoneFacts
<1> QED BY <1>1, <1>2, ParseStatus DEF Eats, Hungry

LEMMA CutBetween ==
  ASSUME NEW a, NEW b, NEW t, Cut(a, t), Cut(b, t), Size(a) <= Size(b)
  PROVE  Cut(a, b)
<1>1. \A i \in 1 .. Size(a) : i \in 1 .. Size(b)
  BY DEF Cut
<1> QED BY <1>1 DEF Cut

\* Pieces of texts.  Most steps need no more of them than the lemmas below say, and
\* leave the definitions folded.
\* What s has behind place a, up to place b.
Piece(s, a, b) == SubSeq(s, a + 1, b)
Join(s, t) == s \o t

\* A text has a size.
LEMMA SizeFacts == ASSUME NEW s \in Texts PROVE Size(s) \in Nat
BY DEF Texts, Size

\* The symbols of a piece.
LEMMA PieceElements ==
  ASSUME NEW s \in Texts, NEW a \in Nat, NEW b \in Nat, a <= b, b <= Size(s)
  PROVE  /\ Piece(s, a, b) \in Seq(Symbols) /\ Len(Piece(s, a, b)) = b - a
         /\ \A i \in 1 .. b - a : Piece(s, a, b)[i] = s[a + i]
<1>1. Len(s) \in Nat /\ \A i \in 1 .. Len(s) : s[i] \in Symbols
  BY DEF Texts
<1>2. a + 1 \in Int /\ b \in Int /\ \A i \in a + 1 .. b : s[i] \in Symbols
  BY <1>1 DEF Size
<1>3. /\ Piece(s, a, b) \in Seq(Symbols)
      /\ Len(Piece(s, a, b)) = IF a + 1 <= b THEN b - (a + 1) + 1 ELSE 0
      /\ \A i \in 1 .. b - (a + 1) + 1 : Piece(s, a, b)[i] = s[(a + 1) + i - 1]
  BY <1>2, SubSeqProperties DEF Piece
<1>4. b - (a + 1) + 1 = b - a /\ \A i \in 1 .. b - a : (a + 1) + i - 1 = a + i
  OBVIOUS
<1>5. \A i \in 1 .. b - a : Piece(s, a, b)[i] = s[a + i]
  BY <1>3, <1>4
<1> QED BY <1>3, <1>5

\* The size of a piece.
LEMMA PieceFacts ==
  ASSUME NEW s \in Texts, NEW a \in Nat, NEW b \in Nat, a <= b, b <= Size(s)
  PROVE  Piece(s, a, b) \in Texts /\ Size(Piece(s, a, b)) = b - a
BY PieceElements DEF Texts, Size

\* A piece of a piece is a piece of the whole.
LEMMA PieceOfPiece ==
  ASSUME NEW s \in Texts, NEW a \in Nat, NEW b \in Nat, a <= b, b <= Size(s),
         NEW c \in Nat, NEW d \in Nat, c <= d, d <= b - a
  PROVE  Piece(Piece(s, a, b), c, d) = Piece(s, a + c, a + d)
<1> DEFINE t == Piece(s, a, b)
           p == a + c
           e == a + d
<1>1. t \in Texts /\ Size(t) = b - a /\ \A i \in 1 .. b - a : t[i] = s[a + i]
  BY PieceElements, PieceFacts
<1>2. Size(s) \in Nat
  BY SizeFacts
<1>3. p \in Nat /\ e \in Nat /\ p <= e /\ e <= Size(s) /\ e - p = d - c
  BY <1>2
<1>4. \A i \in 1 .. d - c : c + i \in 1 .. b - a /\ a + (c + i) = p + i
  OBVIOUS
<1> HIDE DEF t, p, e
<1>5. /\ Piece(t, c, d) \in Seq(Symbols) /\ Len(Piece(t, c, d)) = d - c
      /\ \A i \in 1 .. d - c : Piece(t, c, d)[i] = t[c + i]
  BY <1>1, PieceElements
<1>6. /\ Piece(s, p, e) \in Seq(Symbols) /\ Len(Piece(s, p, e)) = d - c
      /\ \A i \in 1 .. d - c : Piece(s, p, e)[i] = s[p + i]
  <2>1. /\ Piece(s, p, e) \in Seq(Symbols) /\ Len(Piece(s, p, e)) = e - p
        /\ \A i \in 1 .. e - p : Piece(s, p, e)[i] = s[p + i]
    BY <1>3, PieceElements
  <2> QED BY <1>3, <2>1
<1>7. \A i \in 1 .. d - c : Piece(t, c, d)[i] = Piece(s, p, e)[i]
  <2> TAKE i \in 1 .. d - c
  <2>1. PICK j : j = c + i
    OBVIOUS
  <2>2. j \in 1 .. b - a /\ a + j = p + i
    BY <1>4, <2>1
  <2>3. t[j] = s[a + j]
    BY <1>1, <2>2
  <2> QED BY <1>5, <1>6, <2>1, <2>2, <2>3
<1>8. Piece(t, c, d) = Piece(s, p, e)
  BY <1>5, <1>6, <1>7, SeqEqual
<1> QED BY <1>8 DEF t, p, e

\* Adjacent pieces are one piece.
LEMMA JoinedPieces ==
  ASSUME NEW s \in Texts, NEW a \in Nat, NEW b \in Nat, a <= b,
         NEW c \in Nat, b <= c, c <= Size(s)
  PROVE  Join(Piece(s, a, b), Piece(s, b, c)) = Piece(s, a, c)
<1>1. a + 1 \in 1 .. Len(s) + 1 /\ b \in (a + 1) - 1 .. Len(s) /\ c \in b .. Len(s)
  BY SizeFacts DEF Size
<1> QED BY <1>1, ConcatAdjacentSubSeq DEF Piece, Texts, Join

\* The beginning and the whole.
LEMMA FirstPiece ==
  ASSUME NEW s \in Texts
  PROVE  /\ \A b : SubSeq(s, 1, b) = Piece(s, 0, b)
         /\ Piece(s, 0, Size(s)) = s /\ Piece(s, 0, 0) = <<>>
<1>1. 0 + 1 = 1
  OBVIOUS
<1>2. SubSeq(s, 1, Len(s)) = s
  BY SubSeqFull DEF Texts
<1>3. SubSeq(s, 1, 0) = <<>>
  BY SubSeqEmpty
<1> QED BY <1>1, <1>2, <1>3 DEF Piece, Size

\* A frame joins the frames.
LEMMA FramesJoin ==
  ASSUME NEW q \in Seq(Texts), NEW x \in Texts
  PROVE  /\ Append(q, x) \in Seq(Texts)
         /\ FlattenSeq(Append(q, x)) = Join(FlattenSeq(q), x)
BY FlattenAppend, AppendProperties DEF Texts, Join

\* Nothing received yet.
LEMMA NoFrames == <<>> \in Texts /\ Size(<<>>) = 0 /\ <<>> \in Seq(Texts) /\ FlattenSeq(<<>>) = <<>>
BY DEF Texts, Size, FlattenSeq

\* What a server may send is a text.
LEMMA StreamsAreTexts == ASSUME NEW t \in Streams PROVE t \in Texts
<1>1. t \in Seq(STRING)
  BY FramingAssumption
<1>2. \A i \in 1 .. Len(t) : t[i] \in Symbols
  BY <1>1 DEF Symbols
<1> QED BY <1>1, <1>2 DEF Texts

-------------------------------------------------------------------------------
(* The bytes. *)

Loops == {"read", "split", "ConnectionClosed", "FrameTooLarge", "Parse"}

\* Where the buffer begins in the stream.
Offset == arrived - Size(buffer)

\* What the frames have left of the stream.
Rest == Piece(stream, Offset, Size(stream))

\* The buffer is what the frames have left of the bytes received, and what
\* follows the frames is a text.
BytesInv ==
  /\ stream \in Streams
  /\ arrived \in Nat /\ arrived <= Size(stream)
  /\ buffer \in Texts /\ Size(buffer) <= arrived
  /\ buffer = Piece(stream, Offset, arrived)
  /\ Rest \in Texts
  /\ frames \in Seq(Texts)
  /\ FlattenSeq(frames) = Piece(stream, 0, Offset)
  /\ loop \in Loops

\* A response found in what has been read stays what it is when more is read.
LEMMA Verdicts ==
  ASSUME NEW t \in Texts, NEW n \in 0 .. Size(t), ParseResponse(Piece(t, 0, n)).st = "Ok"
  PROVE  /\ ParseResponse(Piece(t, 0, n)).used \in 1 .. n
         /\ \A m \in n .. Size(t) : ParseResponse(Piece(t, 0, m)) = ParseResponse(Piece(t, 0, n))
<1>0. Size(t) \in Nat
  BY SizeFacts
<1>1. \A k \in 0 .. Size(t) : Cut(Piece(t, 0, k), t) /\ Size(Piece(t, 0, k)) = k
  BY PrefixCut DEF Piece
<1>2. Piece(t, 0, n) \in Texts /\ Size(Piece(t, 0, n)) = n
  BY <1>1 DEF Cut
<1>3. ParseResponse(Piece(t, 0, n)).used \in 1 .. n
  BY <1>2, FrameFits
<1>4. ASSUME NEW m \in n .. Size(t) PROVE ParseResponse(Piece(t, 0, m)) = ParseResponse(Piece(t, 0, n))
  <2>1. m \in 0 .. Size(t) /\ n <= m /\ n \in 0 .. Size(t)
    BY <1>0
  <2>2. /\ Cut(Piece(t, 0, n), t) /\ Size(Piece(t, 0, n)) = n
        /\ Cut(Piece(t, 0, m), t) /\ Size(Piece(t, 0, m)) = m
    BY <1>1, <2>1
  <2>3. Cut(Piece(t, 0, n), Piece(t, 0, m))
    BY <2>1, <2>2, CutBetween
  <2> QED BY <2>3, MoreBytes
<1> QED BY <1>3, <1>4

\* The numbers of BytesInv, and the buffer as the beginning of Rest.
LEMMA BytesFacts ==
  ASSUME BytesInv
  PROVE  /\ stream \in Texts /\ Size(stream) \in Nat /\ arrived \in Nat
         /\ arrived <= Size(stream) /\ Size(buffer) \in Nat
         /\ Offset \in Nat /\ Offset + Size(buffer) = arrived
         /\ Rest \in Texts /\ Size(Rest) = Size(stream) - Offset
         /\ Size(buffer) \in 0 .. Size(Rest) /\ buffer = Piece(Rest, 0, Size(buffer))
<1>1. /\ stream \in Texts /\ Rest \in Texts /\ buffer \in Texts
      /\ arrived \in Nat /\ Size(buffer) <= arrived /\ arrived <= Size(stream)
  BY StreamsAreTexts DEF BytesInv
<1>2. Size(stream) \in Nat /\ Size(buffer) \in Nat
  BY <1>1, SizeFacts
<1>3. Offset \in Nat /\ Offset + Size(buffer) = arrived /\ Offset <= Size(stream)
  BY <1>1, <1>2 DEF Offset
<1>4. Size(Rest) = Size(stream) - Offset
  BY <1>1, <1>2, <1>3, PieceFacts DEF Rest
<1>5. Size(buffer) \in 0 .. Size(Rest)
  BY <1>1, <1>2, <1>3, <1>4
<1>6. buffer = Piece(Rest, 0, Size(buffer))
  <2>1. 0 \in Nat /\ 0 <= Size(buffer) /\ Size(buffer) <= Size(stream) - Offset /\ Offset + 0 = Offset
    BY <1>2, <1>3, <1>4, <1>5
  <2>2. Piece(Piece(stream, Offset, Size(stream)), 0, Size(buffer)) = Piece(stream, Offset + 0, Offset + Size(buffer))
    BY <1>1, <1>2, <1>3, <2>1, PieceOfPiece
  <2> QED BY <1>3, <2>1, <2>2 DEF BytesInv, Rest
<1> QED BY <1>1, <1>2, <1>3, <1>4, <1>5, <1>6

\* Before the first read.
LEMMA BytesInit == Init => BytesInv
<1> SUFFICES ASSUME Init PROVE BytesInv
  OBVIOUS
<1>1. /\ stream \in Streams /\ arrived = 0 /\ loop = "read" /\ stream \in Texts
      /\ buffer = <<>> /\ frames = <<>>
  BY StreamsAreTexts DEF Init
<1>2. Size(stream) \in Nat /\ Size(buffer) = 0
  BY <1>1, SizeFacts, NoFrames
<1>3. Offset = 0
  BY <1>1, <1>2 DEF Offset
<1>4. Rest = stream
  BY <1>1, <1>3, FirstPiece DEF Rest
<1>5. Piece(stream, 0, 0) = <<>>
  BY <1>1, FirstPiece
<1> QED BY <1>1, <1>2, <1>3, <1>4, <1>5, NoFrames DEF BytesInv, Loops

\* A read extends the buffer; the frames keep their place.
LEMMA ReadBytes ==
  ASSUME BytesInv, NEW n \in 1 .. MaxRead, Read(n)
  PROVE  BytesInv' /\ Offset' = Offset /\ Size(buffer') = Size(buffer) + n
<1>1. /\ arrived + n <= Size(stream) /\ arrived' = arrived + n /\ loop' = "split"
      /\ buffer' = Join(buffer, Piece(stream, arrived, arrived + n))
      /\ stream' = stream /\ frames' = frames
  BY DEF Read, Piece, Size, Join
<1>2. PICK e : e = arrived + n
  OBVIOUS
<1>3. /\ n \in Nat /\ e \in Nat /\ arrived <= e /\ e <= Size(stream)
      /\ Offset \in Nat /\ Offset <= arrived /\ Offset <= e /\ e - Offset = Size(buffer) + n
      /\ e - (e - Offset) = Offset /\ e - Offset <= e
  <2>1. n \in Nat /\ 1 <= n
    BY FramingAssumption
  <2>2. /\ arrived \in Nat /\ Size(stream) \in Nat /\ Size(buffer) \in Nat /\ Offset \in Nat
        /\ Offset + Size(buffer) = arrived
    BY BytesFacts
  <2> QED BY <1>1, <1>2, <2>1, <2>2
<1>4. buffer = Piece(stream, Offset, arrived) /\ buffer' = Join(buffer, Piece(stream, arrived, e))
  BY <1>1, <1>2 DEF BytesInv
<1>5. buffer' = Piece(stream, Offset, e)
  BY <1>3, <1>4, BytesFacts, JoinedPieces
<1>6. buffer' \in Texts /\ Size(buffer') = e - Offset
  BY <1>3, <1>5, BytesFacts, PieceFacts
<1>7. Offset' = Offset
  <2>1. Offset' = e - Size(buffer')
    BY <1>1, <1>2 DEF Offset
  <2> QED BY <1>3, <1>6, <2>1
<1>8. Rest' = Rest
  BY <1>1, <1>7 DEF Rest
<1>9. arrived' = e
  BY <1>1, <1>2
<1> QED BY <1>1, <1>3, <1>5, <1>6, <1>7, <1>8, <1>9 DEF BytesInv, Loops

\* A frame moves from the buffer to the frames, and a stream is behind it again.
LEMMA SplitBytes ==
  ASSUME BytesInv, NEW verdict, verdict = ParseResponse(buffer), SplitFrame(verdict),
         UNCHANGED <<stream, arrived>>
  PROVE  /\ BytesInv' /\ verdict.used \in 1 .. Size(buffer)
         /\ Offset' = Offset + verdict.used /\ Size(buffer') = Size(buffer) - verdict.used
         /\ SubSeq(buffer, 1, verdict.used) = Piece(Rest, 0, verdict.used)
<1> DEFINE u == verdict.used
<1>0. buffer = Piece(stream, Offset, arrived) /\ buffer \in Texts /\ frames \in Seq(Texts)
  BY DEF BytesInv
<1>1. /\ frames' = Append(frames, Piece(buffer, 0, u)) /\ loop' = loop
      /\ buffer' = Piece(buffer, u, Size(buffer)) /\ verdict.st = "Ok"
      /\ SubSeq(buffer, 1, u) = Piece(buffer, 0, u)
  <2>1. SubSeq(buffer, 1, u) = Piece(buffer, 0, u)
    BY <1>0, FirstPiece
  <2> QED BY <2>1 DEF SplitFrame, Piece, Size
<1>2. u \in 1 .. Size(buffer) /\ Piece(Rest, u, Size(Rest)) \in Texts
  <2>1. Rest \in Texts
    BY DEF BytesInv
  <2>2. verdict = ParseResponse(Piece(Rest, 0, Size(buffer)))
    BY BytesFacts
  <2>3. u \in 1 .. Size(buffer)
    BY <1>1, <2>1, <2>2, BytesFacts, Verdicts
  <2>4. PICK v : v = u
    OBVIOUS
  <2>5. /\ Size(Rest) \in Nat /\ v \in Nat /\ v <= Size(Rest) /\ Size(Rest) <= Size(Rest)
    BY <2>3, <2>4, BytesFacts
  <2>6. Piece(Rest, v, Size(Rest)) \in Texts
    BY <2>1, <2>5, PieceFacts
  <2> QED BY <2>3, <2>4, <2>6
<1> HIDE DEF u
<1>3. /\ u \in Nat /\ u <= Size(buffer) /\ Offset + u \in Nat /\ Offset + u <= arrived
      /\ Offset <= Offset + u /\ Offset <= arrived /\ Size(buffer) <= arrived - Offset /\ 0 <= u
      /\ u <= arrived - Offset /\ 0 \in Nat /\ Offset + 0 = Offset /\ Offset + u <= Size(stream) /\ 0 <= Offset
  BY <1>2, BytesFacts
<1>4. Piece(Piece(stream, Offset, arrived), u, Size(buffer)) = Piece(stream, Offset + u, Offset + Size(buffer))
  BY <1>3, BytesFacts, PieceOfPiece
<1>5. buffer' = Piece(stream, Offset + u, arrived)
  BY <1>0, <1>1, <1>4, BytesFacts
<1>6. buffer' \in Texts /\ Size(buffer') = arrived - (Offset + u)
  BY <1>3, <1>5, BytesFacts, PieceFacts
<1>7. Offset' = Offset + u /\ Size(buffer') = Size(buffer) - u /\ Size(buffer') <= arrived
  <2>1. Offset' = arrived' - Size(buffer')
    BY DEF Offset
  <2> QED BY <1>3, <1>6, <2>1, BytesFacts
<1>8. Piece(Piece(stream, Offset, arrived), 0, u) = Piece(stream, Offset + 0, Offset + u)
  BY <1>3, BytesFacts, PieceOfPiece
<1>9. Piece(buffer, 0, u) = Piece(stream, Offset, Offset + u)
  BY <1>0, <1>3, <1>8
<1>10. Piece(stream, Offset, Offset + u) \in Texts
  BY <1>3, BytesFacts, PieceFacts
<1>11. frames' \in Seq(Texts) /\ FlattenSeq(frames') = Piece(stream, 0, Offset + u)
  <2>1. frames' \in Seq(Texts) /\ FlattenSeq(frames') = Join(FlattenSeq(frames), Piece(stream, Offset, Offset + u))
    BY <1>0, <1>1, <1>9, <1>10, FramesJoin
  <2>2. FlattenSeq(frames) = Piece(stream, 0, Offset)
    BY DEF BytesInv
  <2>3. Join(Piece(stream, 0, Offset), Piece(stream, Offset, Offset + u)) = Piece(stream, 0, Offset + u)
    <3>1. PICK e : e = Offset + u
      OBVIOUS
    <3>2. e \in Nat /\ Offset <= e /\ e <= Size(stream)
      BY <1>3, <3>1
    <3>3. Join(Piece(stream, 0, Offset), Piece(stream, Offset, e)) = Piece(stream, 0, e)
      BY <1>3, <3>2, BytesFacts, JoinedPieces
    <3> QED BY <3>1, <3>3
  <2> QED BY <2>1, <2>2, <2>3
<1>12. Rest' \in Texts /\ Piece(Rest, 0, u) = Piece(stream, Offset, Offset + u)
  <2>1. /\ u <= Size(Rest) /\ Size(Rest) \in Nat /\ Size(Rest) <= Size(stream) - Offset
        /\ u <= Size(stream) - Offset
        /\ Offset <= Size(stream) /\ Size(stream) <= Size(stream) /\ Offset + Size(Rest) = Size(stream)
    BY <1>3, BytesFacts
  <2>2. Piece(Piece(stream, Offset, Size(stream)), u, Size(Rest)) = Piece(stream, Offset + u, Offset + Size(Rest))
    BY <1>3, <2>1, BytesFacts, PieceOfPiece
  <2>3. Piece(Piece(stream, Offset, Size(stream)), 0, u) = Piece(stream, Offset + 0, Offset + u)
    BY <1>3, <2>1, BytesFacts, PieceOfPiece
  <2> QED BY <1>2, <1>3, <1>7, <2>1, <2>2, <2>3 DEF Rest
<1>13. BytesInv'
  BY <1>1, <1>3, <1>5, <1>6, <1>7, <1>11, <1>12 DEF BytesInv
<1> QED BY <1>1, <1>2, <1>7, <1>9, <1>12, <1>13 DEF u

\* Steps that move no byte.
LEMMA SameBytes ==
  ASSUME BytesInv, UNCHANGED <<stream, arrived, buffer, frames>>, loop' \in Loops
  PROVE  BytesInv' /\ Offset' = Offset
BY DEF BytesInv, Offset, Rest

\* Every step keeps BytesInv.
LEMMA BytesNext == BytesInv /\ [Next]_vars => BytesInv'
<1> SUFFICES ASSUME BytesInv, [Next]_vars PROVE BytesInv'
  OBVIOUS
<1>1. loop \in Loops
  BY DEF BytesInv
<1>2. CASE \E n \in 1 .. MaxRead : Read(n)
  BY <1>2, ReadBytes
<1>3. CASE ReadEof \/ ReadFails
  BY <1>3, SameBytes DEF ReadEof, ReadFails, Loops
<1>4. CASE Split
  <2>1. PICK verdict : /\ verdict = ParseResponse(buffer)
                       /\ SplitFrame(verdict) \/ StopSplitting(verdict) \/ BadFrame(verdict)
    BY <1>4 DEF Split
  <2>2. UNCHANGED <<stream, arrived>>
    BY <1>4 DEF Split
  <2>3. CASE SplitFrame(verdict)
    BY <2>1, <2>2, <2>3, SplitBytes
  <2>4. CASE StopSplitting(verdict)
    BY <2>2, <2>4, SameBytes DEF StopSplitting, Loops
  <2>5. CASE BadFrame(verdict)
    BY <2>2, <2>5, SameBytes DEF BadFrame, Loops
  <2> QED BY <2>1, <2>3, <2>4, <2>5
<1>5. CASE UNCHANGED vars
  BY <1>1, <1>5, SameBytes DEF vars
<1> QED BY <1>2, <1>3, <1>4, <1>5 DEF Next

\* BytesInv holds in every reachable state.
LEMMA BytesAlways == Spec => []BytesInv
BY BytesInit, BytesNext, PTL DEF Spec

\* Every byte read_buf returned is in exactly one frame split off by the read loop
\* or still in the buffer, in order, after a failure of the loop too.
THEOREM BytesAreConserved == Spec => []BytesConserved
<1>1. ASSUME BytesInv PROVE BytesConserved
  <2>1. 0 \in Nat /\ 0 <= Offset /\ Offset <= arrived
    BY <1>1, BytesFacts
  <2>2. Join(Piece(stream, 0, Offset), Piece(stream, Offset, arrived)) = Piece(stream, 0, arrived)
    BY <1>1, <2>1, BytesFacts, JoinedPieces
  <2>3. Join(FlattenSeq(frames), buffer) = Piece(stream, 0, arrived)
    BY <1>1, <2>2 DEF BytesInv
  <2>4. Piece(stream, 0, arrived) = SubSeq(stream, 1, arrived)
    BY <1>1, BytesFacts, FirstPiece
  <2> QED BY <2>3, <2>4 DEF BytesConserved, Received, Join
<1> QED BY <1>1, BytesAlways, PTL

-------------------------------------------------------------------------------
(* The ceiling. *)

\* The loop only reads on with a buffer under the ceiling, and gives up only with
\* one above it.
BoundInv ==
  /\ loop = "read" => Size(buffer) <= MaxFrame
  /\ loop = "FrameTooLarge" => Size(buffer) > MaxFrame
  /\ Size(buffer) <= MaxFrame + MaxRead

\* An empty buffer is under the ceiling.
LEMMA BoundInit == Init => BoundInv
<1> SUFFICES ASSUME Init PROVE BoundInv
  OBVIOUS
<1>1. Size(buffer) = 0
  BY NoFrames DEF Init
<1>2. loop = "read"
  BY DEF Init
<1> QED BY <1>1, <1>2, FramingAssumption DEF BoundInv

\* A read adds MaxRead at most, and only to a buffer under the ceiling.
LEMMA BoundNext == BytesInv /\ BoundInv /\ [Next]_vars => BoundInv'
<1> SUFFICES ASSUME BytesInv, BoundInv, [Next]_vars PROVE BoundInv'
  OBVIOUS
<1>1. Size(buffer) \in Nat /\ MaxFrame \in Nat /\ MaxRead \in Nat
  BY BytesFacts, FramingAssumption
<1>2. ASSUME NEW n \in 1 .. MaxRead, Read(n) PROVE BoundInv'
  <2>1. Size(buffer') = Size(buffer) + n /\ loop = "read" /\ loop' = "split"
    BY <1>2, ReadBytes DEF Read
  <2> QED BY <1>1, <2>1 DEF BoundInv
<1>3. CASE ReadEof \/ ReadFails
  BY <1>3 DEF ReadEof, ReadFails, BoundInv
<1>4. CASE Split
  <2>1. PICK verdict : /\ verdict = ParseResponse(buffer)
                       /\ SplitFrame(verdict) \/ StopSplitting(verdict) \/ BadFrame(verdict)
    BY <1>4 DEF Split
  <2>2. UNCHANGED <<stream, arrived>> /\ loop = "split"
    BY <1>4 DEF Split
  <2>3. CASE SplitFrame(verdict)
    <3>1. verdict.used \in 1 .. Size(buffer) /\ Size(buffer') = Size(buffer) - verdict.used
      BY <2>1, <2>2, <2>3, SplitBytes
    <3>2. loop' = "split"
      BY <2>2, <2>3 DEF SplitFrame
    <3> QED BY <1>1, <3>1, <3>2 DEF BoundInv
  <2>4. CASE StopSplitting(verdict)
    <3>1. /\ buffer' = buffer /\ (loop' = "read" => ~(Size(buffer) > MaxFrame))
          /\ loop' = "FrameTooLarge" => Size(buffer) > MaxFrame
      BY <2>4 DEF StopSplitting, Size
    <3> QED BY <1>1, <3>1 DEF BoundInv
  <2>5. CASE BadFrame(verdict)
    BY <2>5 DEF BadFrame, BoundInv
  <2> QED BY <2>1, <2>3, <2>4, <2>5
<1>5. CASE UNCHANGED vars
  BY <1>5 DEF vars, BoundInv
<1> QED BY <1>2, <1>3, <1>4, <1>5 DEF Next

\* BoundInv holds in every reachable state.
LEMMA BoundAlways == Spec => []BoundInv
BY BytesAlways, BoundInit, BoundNext, PTL DEF Spec

\* The read loop compares what is left of a read with MAX_FRAME_SIZE, so the buffer
\* never exceeds the ceiling by more than one read.
THEOREM BufferStaysBounded == Spec => []BufferIsBounded
<1>1. BoundInv => BufferIsBounded
  BY DEF BoundInv, BufferIsBounded, Size
<1> QED BY <1>1, BoundAlways, PTL

-------------------------------------------------------------------------------
(* The cuts. *)

\* Where frame k + 1 of q begins.
Start(q, k) == Size(FlattenSeq(SubSeq(q, 1, k)))

\* Behind all the frames of q.
LEMMA LastStart == ASSUME NEW q \in Seq(Texts) PROVE Start(q, Len(q)) = Size(FlattenSeq(q))
BY SubSeqFull DEF Start

\* The next frame begins where the buffer does.
LEMMA CutIsLastStart == ASSUME BytesInv PROVE Start(frames, Len(frames)) = Offset
<1>1. FlattenSeq(frames) = Piece(stream, 0, Offset) /\ frames \in Seq(Texts)
  BY DEF BytesInv
<1>2. 0 \in Nat /\ 0 <= Offset /\ Offset <= Size(stream) /\ Offset - 0 = Offset
  BY BytesFacts
<1>3. Size(Piece(stream, 0, Offset)) = Offset - 0
  BY <1>2, BytesFacts, PieceFacts
<1> QED BY <1>1, <1>2, <1>3, LastStart

\* One more frame leaves the beginnings of the others.
LEMMA SameStart ==
  ASSUME NEW q \in Seq(Texts), NEW x \in Texts, NEW k \in 0 .. Len(q)
  PROVE  Start(Append(q, x), k) = Start(q, k)
<1> DEFINE r == Append(q, x)
<1>1. /\ r \in Seq(Texts) /\ Len(q) \in Nat /\ Len(r) = Len(q) + 1
      /\ \A i \in 1 .. Len(q) : r[i] = q[i]
  BY AppendProperties
<1> HIDE DEF r
<1>2. /\ \A i \in 1 .. k : i \in 1 .. Len(q) /\ q[i] \in Texts /\ r[i] \in Texts
      /\ 1 \in Int /\ k \in Int /\ k - 1 + 1 = k
      /\ \A i \in 1 .. k : 1 + i - 1 = i
  BY <1>1
<1>3. /\ SubSeq(q, 1, k) \in Seq(Texts)
      /\ Len(SubSeq(q, 1, k)) = IF 1 <= k THEN k - 1 + 1 ELSE 0
      /\ \A i \in 1 .. k - 1 + 1 : SubSeq(q, 1, k)[i] = q[1 + i - 1]
  BY <1>2, SubSeqProperties
<1>4. /\ SubSeq(r, 1, k) \in Seq(Texts)
      /\ Len(SubSeq(r, 1, k)) = IF 1 <= k THEN k - 1 + 1 ELSE 0
      /\ \A i \in 1 .. k - 1 + 1 : SubSeq(r, 1, k)[i] = r[1 + i - 1]
  BY <1>2, SubSeqProperties
<1>5. Len(SubSeq(q, 1, k)) = k /\ Len(SubSeq(r, 1, k)) = k
  BY <1>2, <1>3, <1>4
<1>6. \A i \in 1 .. k : SubSeq(r, 1, k)[i] = SubSeq(q, 1, k)[i]
  BY <1>1, <1>2, <1>3, <1>4
<1>7. SubSeq(r, 1, k) = SubSeq(q, 1, k)
  BY <1>3, <1>4, <1>5, <1>6, SeqEqual
<1> QED BY <1>7 DEF Start, r

\* Frame f was split off at place o, when the text t had been read up to place e
\* at most.
Found(t, e, o, f) == \E d \in Nat :
  /\ o <= d /\ d <= e
  /\ ParseResponse(Piece(t, o, d)).st = "Ok"
  /\ f = Piece(t, o, o + ParseResponse(Piece(t, o, d)).used)

\* A frame may begin at place o of the text t, up to place c.
Begins(t, c, o) == o \in Nat /\ o <= c /\ Piece(t, o, Size(t)) \in Texts

\* Each frame was the parser's verdict on the bytes received by then, and the
\* loop has left the inner loop with the verdict on the buffer.
CutsInv ==
  /\ \A k \in 0 .. Len(frames) : Begins(stream, Offset, Start(frames, k))
  /\ \A k \in 0 .. Len(frames) :
        k < Len(frames) => Found(stream, arrived, Start(frames, k), frames[k + 1])
  /\ loop \in {"read", "ConnectionClosed", "FrameTooLarge"} => ParseResponse(buffer).st = "Incomplete"
  /\ loop = "Parse" => ParseResponse(buffer).st \notin {"Ok", "Incomplete"}

\* The buffer is empty, which is Incomplete to the parser.
LEMMA CutsInit == Init => CutsInv
<1> SUFFICES ASSUME Init PROVE CutsInv
  OBVIOUS
<1>1. BytesInv
  BY BytesInit
<1>2. frames = <<>> /\ buffer = <<>> /\ loop = "read" /\ arrived = 0 /\ stream \in Texts
  BY StreamsAreTexts DEF Init
<1>3. Start(<<>>, 0) = 0
  <2>1. SubSeq(<<>>, 1, 0) = <<>>
    BY SubSeqEmpty
  <2> QED BY <2>1, NoFrames DEF Start
<1>4. Begins(stream, Offset, 0)
  <2>1. Piece(stream, 0, Size(stream)) = stream
    BY <1>2, FirstPiece
  <2> QED BY <1>1, <2>1, BytesFacts DEF Begins, Init
<1>5. ParseResponse(buffer).st = "Incomplete"
  BY <1>2, NothingWaits
<1>6. 0 .. Len(frames) = {0} /\ ~(0 < Len(frames))
  BY <1>2
<1> QED BY <1>2, <1>3, <1>4, <1>5, <1>6 DEF CutsInv

\* More bytes, or none, and no frame.
LEMMA SameCuts ==
  ASSUME CutsInv, UNCHANGED <<stream, frames>>, Offset' = Offset,
         arrived \in Nat, arrived' \in Nat, arrived <= arrived',
         loop' \in {"read", "ConnectionClosed", "FrameTooLarge"} => ParseResponse(buffer').st = "Incomplete",
         loop' = "Parse" => ParseResponse(buffer').st \notin {"Ok", "Incomplete"}
  PROVE  CutsInv'
<1>1. \A o, f : Found(stream, arrived, o, f) => Found(stream, arrived', o, f)
  <2> SUFFICES ASSUME NEW o, NEW f, Found(stream, arrived, o, f)
               PROVE  Found(stream, arrived', o, f)
    OBVIOUS
  <2>1. PICK d \in Nat : /\ o <= d /\ d <= arrived
                         /\ ParseResponse(Piece(stream, o, d)).st = "Ok"
                         /\ f = Piece(stream, o, o + ParseResponse(Piece(stream, o, d)).used)
    BY DEF Found
  <2>2. d <= arrived'
    BY <2>1
  <2> QED BY <2>1, <2>2 DEF Found
<1>2. \A k \in 0 .. Len(frames') : Begins(stream', Offset', Start(frames', k))
  BY DEF CutsInv
<1>3. \A k \in 0 .. Len(frames') :
        k < Len(frames') => Found(stream', arrived', Start(frames', k), frames'[k + 1])
  BY <1>1 DEF CutsInv
<1> QED BY <1>2, <1>3 DEF CutsInv

\* A frame is split off the buffer.
LEMMA SplitCuts ==
  ASSUME BytesInv, CutsInv, NEW verdict, verdict = ParseResponse(buffer), SplitFrame(verdict),
         UNCHANGED <<stream, arrived>>, loop = "split"
  PROVE  CutsInv'
<1> DEFINE x == SubSeq(buffer, 1, verdict.used)
<1>1. /\ frames' = Append(frames, x) /\ loop' = "split" /\ verdict.st = "Ok"
  BY DEF SplitFrame
<1>2. /\ BytesInv' /\ verdict.used \in 1 .. Size(buffer)
      /\ Offset' = Offset + verdict.used /\ x = Piece(Rest, 0, verdict.used)
  BY SplitBytes
<1>3. x \in Texts /\ x = Piece(stream, Offset, Offset + verdict.used)
  <2> PICK u : u = verdict.used
    OBVIOUS
  <2>1. /\ u \in Nat /\ 0 \in Nat /\ 0 <= u /\ u <= Size(Rest) /\ Offset + 0 = Offset
        /\ u <= Size(stream) - Offset /\ Offset <= Size(stream) /\ Size(stream) <= Size(stream)
    BY <1>2, BytesFacts
  <2>2. Piece(Rest, 0, u) \in Texts
    BY <2>1, BytesFacts, PieceFacts
  <2>3. Piece(Piece(stream, Offset, Size(stream)), 0, u) = Piece(stream, Offset + 0, Offset + u)
    BY <2>1, BytesFacts, PieceOfPiece
  <2> QED BY <1>2, <2>1, <2>2, <2>3 DEF Rest
<1> HIDE DEF x
<1>4. /\ frames \in Seq(Texts) /\ frames' \in Seq(Texts) /\ Len(frames) \in Nat
      /\ Len(frames') = Len(frames) + 1 /\ frames'[Len(frames) + 1] = x
      /\ \A i \in 1 .. Len(frames) : frames'[i] = frames[i]
  <2>1. frames \in Seq(Texts) /\ Len(frames) \in Nat
    BY DEF BytesInv
  <2> QED BY <1>1, <1>3, <2>1, AppendProperties
<1>5. \A k \in 0 .. Len(frames) : Start(frames', k) = Start(frames, k)
  BY <1>1, <1>3, <1>4, SameStart
<1>6. Start(frames, Len(frames)) = Offset
  BY CutIsLastStart
<1>7. Start(frames', Len(frames')) = Offset'
  <2>1. FlattenSeq(frames') = Piece(stream, 0, Offset')
    BY <1>2 DEF BytesInv
  <2>2. 0 \in Nat /\ 0 <= Offset' /\ Offset' <= Size(stream) /\ Offset' - 0 = Offset' /\ Offset' \in Nat
    BY <1>2, BytesFacts
  <2>3. Size(Piece(stream, 0, Offset')) = Offset' - 0
    BY <2>2, BytesFacts, PieceFacts
  <2> QED BY <1>4, <2>1, <2>2, <2>3, LastStart
<1>8. Offset \in Nat /\ Offset' \in Nat /\ Offset <= Offset'
  BY <1>2, BytesFacts
<1>9. \A k \in 0 .. Len(frames') : k \in 0 .. Len(frames) \/ k = Len(frames')
  BY <1>4
<1>10. \A o : Begins(stream, Offset, o) => Begins(stream', Offset', o)
  BY <1>8 DEF Begins
<1>11. Begins(stream', Offset', Offset')
  BY <1>2, <1>8 DEF Begins, BytesInv, Rest
<1>12. \A k \in 0 .. Len(frames') : Begins(stream', Offset', Start(frames', k))
  BY <1>5, <1>7, <1>9, <1>10, <1>11 DEF CutsInv
<1>13. Found(stream, arrived, Offset, x)
  <2>1. arrived \in Nat /\ Offset <= arrived /\ arrived <= arrived
    BY BytesFacts
  <2>2. verdict = ParseResponse(Piece(stream, Offset, arrived))
    BY DEF BytesInv
  <2> QED BY <1>1, <1>3, <2>1, <2>2 DEF Found
<1>14. ASSUME NEW k \in 0 .. Len(frames'), k < Len(frames')
       PROVE  Found(stream', arrived', Start(frames', k), frames'[k + 1])
  <2>1. CASE k = Len(frames)
    BY <1>4, <1>5, <1>6, <1>13, <2>1
  <2>2. CASE k # Len(frames)
    <3>1. k \in 0 .. Len(frames) /\ k < Len(frames) /\ k + 1 \in 1 .. Len(frames)
      BY <1>4, <1>14, <2>2
    <3> QED BY <1>4, <1>5, <3>1 DEF CutsInv
  <2> QED BY <2>1, <2>2
<1> QED BY <1>1, <1>12, <1>14 DEF CutsInv

\* Every step keeps CutsInv.
LEMMA CutsNext == BytesInv /\ CutsInv /\ [Next]_vars => CutsInv'
<1> SUFFICES ASSUME BytesInv, CutsInv, [Next]_vars PROVE CutsInv'
  OBVIOUS
<1>1. arrived \in Nat /\ arrived <= arrived
  BY BytesFacts
<1>2. ASSUME NEW n \in 1 .. MaxRead, Read(n) PROVE CutsInv'
  <2>1. BytesInv' /\ Offset' = Offset
    BY <1>2, ReadBytes
  <2>2. n \in Nat
    BY FramingAssumption
  <2>3. arrived' \in Nat /\ arrived <= arrived'
    BY <1>1, <1>2, <2>2 DEF Read
  <2> QED BY <1>1, <1>2, <2>1, <2>3, SameCuts DEF Read
<1>3. CASE ReadEof \/ ReadFails
  <2>1. Offset' = Offset
    BY <1>3 DEF ReadEof, ReadFails, Offset
  <2>2. ParseResponse(buffer).st = "Incomplete"
    BY <1>3 DEF ReadEof, ReadFails, CutsInv
  <2> QED BY <1>1, <1>3, <2>1, <2>2, SameCuts DEF ReadEof, ReadFails
<1>4. CASE Split
  <2>1. PICK verdict : /\ verdict = ParseResponse(buffer)
                       /\ SplitFrame(verdict) \/ StopSplitting(verdict) \/ BadFrame(verdict)
    BY <1>4 DEF Split
  <2>2. UNCHANGED <<stream, arrived>> /\ loop = "split"
    BY <1>4 DEF Split
  <2>3. CASE SplitFrame(verdict)
    BY <2>1, <2>2, <2>3, SplitCuts
  <2>4. CASE StopSplitting(verdict)
    <3>1. Offset' = Offset
      BY <2>2, <2>4 DEF StopSplitting, Offset
    <3> QED BY <1>1, <2>1, <2>2, <2>4, <3>1, SameCuts DEF StopSplitting
  <2>5. CASE BadFrame(verdict)
    <3>1. Offset' = Offset
      BY <2>2, <2>5 DEF BadFrame, Offset
    <3> QED BY <1>1, <2>1, <2>2, <2>5, <3>1, SameCuts DEF BadFrame
  <2> QED BY <2>1, <2>3, <2>4, <2>5
<1>5. CASE UNCHANGED vars
  <2>1. UNCHANGED <<stream, arrived, buffer, loop, frames>>
    BY <1>5 DEF vars
  <2>2. Offset' = Offset
    BY <2>1 DEF Offset
  <2> QED BY <1>1, <2>1, <2>2, SameCuts DEF CutsInv
<1> QED BY <1>2, <1>3, <1>4, <1>5 DEF Next

\* CutsInv holds in every reachable state.
LEMMA CutsAlways == Spec => [](BytesInv /\ CutsInv)
BY BytesInit, BytesNext, CutsInit, CutsNext, PTL DEF Spec

\* What lies behind the first k frames, as a beginning of a stream.
LEMMA BehindFrames ==
  ASSUME BytesInv, CutsInv, NEW k \in 0 .. Len(frames)
  PROVE  Behind(k) = Piece(stream, Start(frames, k), arrived)
<1> PICK o : o = Start(frames, k)
  OBVIOUS
<1>1. o \in Nat /\ o <= Offset
  BY DEF CutsInv, Begins
<1>2. /\ 0 \in Nat /\ 0 <= arrived /\ o <= arrived /\ arrived <= arrived - 0
      /\ 0 + o = o /\ 0 + arrived = arrived /\ arrived \in Nat
  BY <1>1, BytesFacts
<1>3. Received = Piece(stream, 0, arrived)
  BY BytesFacts, FirstPiece DEF Received
<1>4. Size(Received) = arrived
  BY <1>2, <1>3, BytesFacts, PieceFacts
<1>5. Behind(k) = Piece(Received, o, arrived)
  BY <1>4 DEF Behind, Start, Size, Piece
<1>6. Piece(Piece(stream, 0, arrived), o, arrived) = Piece(stream, 0 + o, 0 + arrived)
  BY <1>1, <1>2, BytesFacts, PieceOfPiece
<1> QED BY <1>2, <1>3, <1>5, <1>6

\* A frame found when part of the bytes had come is the one found in all of them.
LEMMA FoundInAll ==
  ASSUME BytesInv, NEW o, Begins(stream, Offset, o), NEW f, Found(stream, arrived, o, f),
         NEW whole, whole = ParseResponse(Piece(stream, o, arrived))
  PROVE  whole.st = "Ok" /\ f = SubSeq(Piece(stream, o, arrived), 1, whole.used)
<1> DEFINE t == Piece(stream, o, Size(stream))
<1>1. o \in Nat /\ o <= Offset /\ t \in Texts
  BY DEF Begins
<1>2. PICK d \in Nat : /\ o <= d /\ d <= arrived
                       /\ ParseResponse(Piece(stream, o, d)).st = "Ok"
                       /\ f = Piece(stream, o, o + ParseResponse(Piece(stream, o, d)).used)
  BY DEF Found
<1>3. /\ o <= arrived /\ o <= Size(stream) /\ o + 0 = o /\ 0 \in Nat
      /\ Size(stream) <= Size(stream)
  BY <1>1, BytesFacts
<1>4. PICK n \in Nat, m \in Nat :
        n <= m /\ m <= Size(stream) - o /\ o + n = d /\ o + m = arrived /\ 0 <= n /\ 0 <= m
  <2>1. d - o \in Nat /\ arrived - o \in Nat
    BY <1>1, <1>2, <1>3, BytesFacts
  <2>2. /\ d - o <= arrived - o /\ arrived - o <= Size(stream) - o
        /\ o + (d - o) = d /\ o + (arrived - o) = arrived
    BY <1>1, <1>2, BytesFacts
  <2> QED BY <2>1, <2>2
<1>5. t \in Texts /\ Size(t) = Size(stream) - o
  BY <1>1, <1>3, BytesFacts, PieceFacts
<1>6. n \in 0 .. Size(t) /\ m \in n .. Size(t) /\ n <= Size(stream) - o
  BY <1>1, <1>4, <1>5, BytesFacts
<1>7. Piece(t, 0, n) = Piece(stream, o, d) /\ Piece(t, 0, m) = Piece(stream, o, arrived)
  <2>1. Piece(t, 0, n) = Piece(stream, o + 0, o + n)
    BY <1>1, <1>3, <1>4, <1>6, BytesFacts, PieceOfPiece
  <2>2. Piece(t, 0, m) = Piece(stream, o + 0, o + m)
    BY <1>1, <1>3, <1>4, BytesFacts, PieceOfPiece
  <2> QED BY <1>3, <1>4, <2>1, <2>2
<1> HIDE DEF t
<1>8. whole.st = "Ok" /\ whole.used = ParseResponse(Piece(stream, o, d)).used /\ whole.used \in 1 .. n
  <2>1. /\ ParseResponse(Piece(t, 0, n)).st = "Ok"
        /\ whole = ParseResponse(Piece(t, 0, m))
    BY <1>2, <1>7
  <2>2. /\ ParseResponse(Piece(t, 0, n)).used \in 1 .. n
        /\ ParseResponse(Piece(t, 0, m)).st = ParseResponse(Piece(t, 0, n)).st
        /\ ParseResponse(Piece(t, 0, m)).used = ParseResponse(Piece(t, 0, n)).used
    BY <1>1, <1>6, <2>1, Verdicts
  <2> QED BY <1>7, <2>1, <2>2
<1>9. PICK u : u = whole.used
  OBVIOUS
<1>10. u \in Nat /\ 0 <= u /\ u <= arrived - o
  BY <1>1, <1>4, <1>8, <1>9
<1>11. Piece(Piece(stream, o, arrived), 0, u) = Piece(stream, o + 0, o + u)
  BY <1>1, <1>3, <1>10, BytesFacts, PieceOfPiece
<1>12. SubSeq(Piece(stream, o, arrived), 1, u) = Piece(Piece(stream, o, arrived), 0, u)
  <2>1. Piece(stream, o, arrived) \in Texts
    BY <1>1, <1>3, BytesFacts, PieceFacts
  <2> QED BY <2>1, FirstPiece
<1> QED BY <1>2, <1>3, <1>8, <1>9, <1>11, <1>12

\* However the bytes are cut into reads, the frames the read loop has split off are
\* those found in all the bytes at once, and it ends with a parse error exactly when
\* all the bytes have one behind those frames.
THEOREM CutsNeverMatter == Spec => []CutsDoNotMatter
<1>1. ASSUME BytesInv, CutsInv PROVE CutsDoNotMatter
  <2> SUFFICES ASSUME loop # "split", NEW k \in 0 .. Len(frames),
                      NEW whole, whole = ParseResponse(Behind(k))
               PROVE  IF k < Len(frames)
                      THEN whole.st = "Ok" /\ frames[k + 1] = SubSeq(Behind(k), 1, whole.used)
                      ELSE whole.st # "Ok" /\ (loop = "Parse" <=> whole.st # "Incomplete")
    BY DEF CutsDoNotMatter
  <2>1. Behind(k) = Piece(stream, Start(frames, k), arrived)
    BY <1>1, BehindFrames
  <2>2. CASE k < Len(frames)
    <3>1. /\ Begins(stream, Offset, Start(frames, k))
          /\ Found(stream, arrived, Start(frames, k), frames[k + 1])
      BY <1>1, <2>2 DEF CutsInv
    <3>2. whole = ParseResponse(Piece(stream, Start(frames, k), arrived))
      BY <2>1
    <3>3. whole.st = "Ok"
          /\ frames[k + 1] = SubSeq(Piece(stream, Start(frames, k), arrived), 1, whole.used)
      BY <1>1, <3>1, <3>2, FoundInAll
    <3> QED BY <2>1, <2>2, <3>3
  <2>3. CASE ~(k < Len(frames))
    <3>1. k = Len(frames) /\ frames \in Seq(Texts)
      BY <1>1, <2>3 DEF BytesInv
    <3>2. Start(frames, Len(frames)) = Offset
      BY <1>1, <3>1, CutIsLastStart
    <3>3. Behind(k) = buffer
      BY <1>1, <2>1, <3>1, <3>2 DEF BytesInv
    <3>4. loop \in Loops
      BY <1>1 DEF BytesInv
    <3> QED BY <1>1, <2>3, <3>3, <3>4 DEF CutsInv, Loops
  <2> QED BY <2>2, <2>3
<1> QED BY <1>1, CutsAlways, PTL

\* When the read loop gives up with FrameTooLarge, the response it was waiting for is
\* larger than MAX_FRAME_SIZE in the whole of what the server sends: the buffer that
\* was too large was Incomplete, and a response that is not complete ends behind the
\* bytes that are there.
THEOREM OnlyLargeFramesAreRefused == Spec => []RefusedFramesAreTooLarge
<1>1. ASSUME BytesInv, CutsInv, BoundInv PROVE RefusedFramesAreTooLarge
  <2> SUFFICES ASSUME loop = "FrameTooLarge", NEW whole, whole = ParseResponse(Unframed), whole.st = "Ok"
               PROVE  whole.used > MaxFrame
    BY DEF RefusedFramesAreTooLarge
  <2>1. Size(FlattenSeq(frames)) = Offset
    <3>1. frames \in Seq(Texts)
      BY <1>1 DEF BytesInv
    <3> QED BY <1>1, <3>1, CutIsLastStart, LastStart
  <2>2. Unframed = Rest
    BY <2>1 DEF Unframed, Rest, Piece, Size
  <2>3. Cut(buffer, Rest)
    <3>1. Rest \in Texts /\ Size(buffer) \in 0 .. Size(Rest) /\ buffer = Piece(Rest, 0, Size(buffer))
      BY <1>1, BytesFacts
    <3>2. \A k \in 0 .. Size(Rest) : Cut(Piece(Rest, 0, k), Rest)
      BY <3>1, PrefixCut DEF Piece
    <3> QED BY <3>1, <3>2
  <2>4. ParseResponse(buffer).st = "Incomplete"
    BY <1>1 DEF CutsInv
  <2>5. whole.used > Size(buffer) /\ whole.used \in Nat
    <3>1. Rest \in Texts
      BY <1>1, BytesFacts
    <3> QED BY <2>2, <2>3, <2>4, <3>1, MoreBytes, FrameFits
  <2>6. Size(buffer) > MaxFrame /\ Size(buffer) \in Nat /\ MaxFrame \in Nat
    BY <1>1, BytesFacts, FramingAssumption DEF BoundInv
  <2> QED BY <2>5, <2>6
<1> QED BY <1>1, CutsAlways, BoundAlways, PTL
================================================================================
