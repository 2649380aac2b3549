---------------------------- MODULE ResponseParser ----------------------------
(***************************************************************************)
(* The recursive-descent parser of imap-core (parser.rs), as operators on  *)
(* a parser record: the input, the cursor, the list elements the response  *)
(* may still allocate, the status and the value of the last production.    *)
(*                                                                         *)
(* The input is a sequence of symbols.  A symbol is one byte, named by the *)
(* character or by CR, LF, SP, DQ (double quote), BS (backslash), NUL, CTL *)
(* (any other control); U1 and U2 are the two bytes of a UTF-8             *)
(* character.  A word the parser recognises only after scanning a whole    *)
(* token (EXISTS, FETCH, UIDNEXT ...) is one symbol, and so is any other   *)
(* word ("x"): a scan treats its letters alike.  The words that are        *)
(* matched in place, byte by byte (OK, NO, BAD, BYE, PREAUTH, NIL), are    *)
(* spelt out, so that the input can be cut inside them.  Upper and lower   *)
(* case are one symbol.                                                    *)
(***************************************************************************)
EXTENDS Integers, Sequences, SequencesExt

CONSTANTS
    MaxLiteral,     \* MAX_LITERAL_SIZE
    MaxItems,       \* MAX_ITEMS_PER_RESPONSE
    MaxU32          \* u32::MAX

ASSUME LimitsAssumption ==
    MaxLiteral \in Nat /\ MaxItems \in Nat /\ MaxU32 \in Nat

Digits == <<"0", "1", "2", "3", "4", "5", "6", "7", "8", "9">>

IsDigit(c) == \E d \in 1..10 : Digits[d] = c

LineBreak == {"CR", "LF"}

(* The complement of is_atom_char.  U1 and U2 are above 0x7F: atom chars. *)
AtomSpecials ==
    LineBreak \cup {"NUL", "CTL", "SP", "(", ")", "{", "%", "*", "DQ", "BS", "]"}

(***************************************************************************)
(* The parser record and its cursor.                                       *)
(***************************************************************************)
New(input) == [input |-> input, pos |-> 1, itemsLeft |-> MaxItems,
               st |-> "Ok", val |-> <<>>]

Fail(p, error) == [p EXCEPT !.st = error]

Yield(p, value) == [p EXCEPT !.val = value]

Advance(p, n) == [p EXCEPT !.pos = @ + n]

(* The `?` of the code: the first error ends the production. *)
Then(p, Continue(_)) == IF p.st = "Ok" THEN Continue(p) ELSE p

(* A loop of the code: a turn goes on (GoOn) or ends the loop.  One that   *)
(* goes on has consumed a symbol, so Len + 1 turns are all there can be.   *)
GoOn(p) == [p EXCEPT !.st = "More"]

Resume(p) == [p EXCEPT !.st = "Ok"]

While(p, Turn(_)) ==
    LET run[n \in 0 .. Len(p.input) + 1] ==
            IF n = 0 THEN GoOn(p)
            ELSE LET q == run[n - 1]
                 IN  IF q.st = "More" THEN Turn(Resume(q)) ELSE q
    IN  run[Len(p.input) + 1]

IsEof(p) == p.pos > Len(p.input)

(* peek: the symbol at the cursor, "EOF" where peek has none. *)
Peek(p) == IF IsEof(p) THEN "EOF" ELSE p.input[p.pos]

Remaining(p) == SubSeq(p.input, p.pos, Len(p.input))

Taken(p, start) == SubSeq(p.input, start, p.pos - 1)

(* Move the cursor to the first symbol of stop, or to the end. *)
ScanTo(p, stop) ==
    [p EXCEPT !.pos = CHOOSE j \in p.pos .. Len(p.input) + 1 :
        /\ j = Len(p.input) + 1 \/ p.input[j] \in stop
        /\ \A k \in p.pos .. j - 1 : p.input[k] \notin stop]

ScanDigits(p) == ScanTo(p, {c \in ToSet(p.input) : ~ IsDigit(c)})

(* core::str::from_utf8, on the two-byte characters of this alphabet. *)
ValidUtf8(text) == \A k \in 1 .. Len(text) :
    /\ text[k] = "U1" => k < Len(text) /\ text[k + 1] = "U2"
    /\ text[k] = "U2" => k > 1 /\ text[k - 1] = "U1"

FromUtf8(p, text) == IF ValidUtf8(text) THEN Yield(p, text) ELSE Fail(p, "Other")

ScannedText(p, start) ==
    IF IsEof(p) THEN Fail(p, "Incomplete") ELSE FromUtf8(p, Taken(p, start))

PushItem(p, list, item) ==
    IF p.itemsLeft = 0
    THEN Fail(p, "TooManyItems")
    ELSE [p EXCEPT !.itemsLeft = @ - 1, !.val = Append(list, item)]

ConsumeByte(p, b) ==
    CASE IsEof(p)    -> Fail(p, "Incomplete")
      [] Peek(p) = b -> Advance(p, 1)
      [] OTHER       -> Fail(p, "InvalidChar")

TryConsumeByte(p, b) == IF Peek(p) = b THEN Advance(p, 1) ELSE p

ConsumeSp(p) == ConsumeByte(p, "SP")

(* Mutant: a bare LF ends the line too. *)
ConsumeCrlfLoose(p) ==
    LET rest == Remaining(p)
    IN  CASE IsPrefix(<<"LF">>, rest)             -> Advance(p, 1)
          [] IsPrefix(<<"CR", "LF">>, rest)       -> Advance(p, 2)
          [] IsStrictPrefix(rest, <<"CR", "LF">>) -> Fail(p, "Incomplete")
          [] OTHER                                -> Fail(p, "Malformed")

ConsumeCrlf(p) ==
    LET rest == Remaining(p)
    IN  CASE IsPrefix(<<"CR", "LF">>, rest)       -> Advance(p, 2)
          [] IsStrictPrefix(rest, <<"CR", "LF">>) -> Fail(p, "Incomplete")
          [] OTHER                                -> Fail(p, "Malformed")

(* The word is at the cursor and ends at a token boundary or at the end    *)
(* of the input.                                                           *)
MatchesKeyword(p, word) ==
    /\ IsPrefix(word, Remaining(p))
    /\ Peek(Advance(p, Len(word))) \in {"EOF", "SP", "CR", "LF", "]", ")"}

(***************************************************************************)
(* Tokens.                                                                 *)
(***************************************************************************)
Nil == <<"N", "I", "L">>

(* Mutant: a NIL cut short is not an nstring. *)
ExpectNilWhole(p) ==
    IF MatchesKeyword(p, Nil) THEN Advance(p, 3)
    ELSE Fail(p, IF IsEof(p) THEN "Incomplete" ELSE "Malformed")

ExpectNil(p) ==
    CASE MatchesKeyword(p, Nil)             -> Advance(p, 3)
      [] IsStrictPrefix(Remaining(p), Nil)  -> Fail(p, "Incomplete")
      [] OTHER                              -> Fail(p, "Malformed")

DecimalValue(text) ==
    LET value[k \in 0 .. Len(text)] ==
            IF k = 0 THEN 0
            ELSE 10 * value[k - 1] + (CHOOSE d \in 1..10 : Digits[d] = text[k]) - 1
    IN  value[Len(text)]

ParseNumber(p) ==
    LET q == ScanDigits(p)
        n == DecimalValue(Taken(q, p.pos))
    IN  CASE q.pos = p.pos -> Fail(q, IF IsEof(q) THEN "Incomplete"
                                                  ELSE "InvalidNumber")
          [] q.pos > p.pos /\ n > MaxU32  -> Fail(q, "InvalidNumber")
          [] OTHER         -> Yield(q, n)

(* A token up to the first symbol of stop, not empty. *)
Token(p, stop) ==
    LET q == ScanTo(p, stop)
    IN  IF q.pos = p.pos /\ ~ IsEof(q)
        THEN Fail(q, "Malformed")
        ELSE ScannedText(q, p.pos)

ParseAtom(p) == Token(p, AtomSpecials)

ParseTag(p) == Token(p, {"SP"} \cup LineBreak)

ParseText(p) == LET q == ScanTo(p, LineBreak) IN ScannedText(q, p.pos)

(* One symbol of a quoted string that begins at start, or an escaped one. *)
QuotedTurn(p, start) ==
    LET q == Advance(p, 1)
    IN  CASE IsEof(p)       -> Fail(p, "Incomplete")
          [] Peek(p) = "DQ" -> Then(FromUtf8(p, Taken(p, start)), LAMBDA r : Advance(r, 1))
          [] Peek(p) = "BS" ->
               CASE IsEof(q)                  -> Fail(q, "Incomplete")
                 [] Peek(q) \in {"DQ", "BS"}  -> GoOn(Advance(q, 1))
                 [] OTHER                     -> Fail(q, "Malformed")
          [] Peek(p) \in LineBreak \cup {"NUL"} -> Fail(p, "Malformed")
          [] OTHER          -> GoOn(q)

ParseQuoted(p) ==
    Then(ConsumeByte(p, "DQ"), LAMBDA q :
        While(q, LAMBDA r : QuotedTurn(r, q.pos)))

(* The octets of a literal whose length has been read: the cap comes first. *)
LiteralOctets(p, n) ==
    IF n > MaxLiteral THEN Fail(p, "LiteralTooLarge")
    ELSE IF p.pos + n > Len(p.input) + 1 THEN Fail(p, "Incomplete")
    ELSE Yield(Advance(p, n), SubSeq(p.input, p.pos, p.pos + n - 1))

ParseLiteral(p) ==
    Then(Then(ConsumeByte(p, "{"), ParseNumber), LAMBDA q :
    Then(Then(ConsumeByte(q, "}"), ConsumeCrlf), LAMBDA r :
    LiteralOctets(r, q.val)))

ParseAstring(p) ==
    CASE IsEof(p)       -> Fail(p, "Incomplete")
      [] Peek(p) = "DQ" -> ParseQuoted(p)
      [] Peek(p) = "{"  -> Then(ParseLiteral(p), LAMBDA q : FromUtf8(q, q.val))
      [] OTHER          -> ParseAtom(p)

(* An optional value is a sequence of length zero (None) or one (Some). *)
ParseNstringBytes(p) ==
    LET Some(q) == Yield(q, <<q.val>>)
        None(q) == Yield(q, <<>>)
    IN  CASE IsEof(p)       -> Fail(p, "Incomplete")
          [] Peek(p) = "DQ" -> Then(ParseQuoted(p), Some)
          [] Peek(p) = "{"  -> Then(ParseLiteral(p), Some)
          [] OTHER          -> Then(ExpectNil(p), None)

ParseNstring(p) ==
    Then(ParseNstringBytes(p), LAMBDA q :
        IF q.val = <<>> THEN q
        ELSE Then(FromUtf8(q, q.val[1]), LAMBDA r : Yield(r, <<r.val>>)))

(* `\*`, or an atom with an optional backslash (which may stand alone). *)
ParseFlagOrAtom(p) ==
    LET q    == TryConsumeByte(p, "BS")
        star == TryConsumeByte(q, "*")
        r    == ScanTo(q, AtomSpecials)
    IN  IF q.pos > p.pos /\ star.pos > q.pos
        THEN FromUtf8(star, Taken(star, p.pos))
        ELSE IF r.pos = p.pos /\ ~ IsEof(r)
        THEN Fail(r, "Malformed")
        ELSE ScannedText(r, p.pos)

(* The loop common to the parenthesised lists: "(" ")" or items separated  *)
(* by SP, each charged to the budget of the response.  ItemEnds is what    *)
(* follows an item, put on the list read so far.                           *)
ItemEnds(p, list) ==
    Then(p, LAMBDA q :
    Then(PushItem(q, list, q.val), LAMBDA r :
        CASE IsEof(r)       -> Fail(r, "Incomplete")
          [] Peek(r) = "SP" -> GoOn(Advance(r, 1))
          [] Peek(r) = ")"  -> Advance(r, 1)
          [] OTHER          -> Fail(r, "Malformed")))

ParenList(p, Item(_)) ==
    Then(ConsumeByte(p, "("), LAMBDA q :
        IF Peek(q) = ")" THEN Yield(Advance(q, 1), <<>>)
        ELSE While(Yield(q, <<>>), LAMBDA r : ItemEnds(Item(r), r.val)))

(* Mutant: a nested list has a budget of its own. *)
ParseParenAtomListFree(p) ==
    [ParenList(p, ParseFlagOrAtom) EXCEPT !.itemsLeft = p.itemsLeft]

ParseParenAtomList(p) == ParenList(p, ParseFlagOrAtom)

(* The CAPABILITY loop: one atom after every SP. *)
CapabilityTurn(p) ==
    IF Peek(p) # "SP" THEN p
    ELSE Then(ParseAtom(Advance(p, 1)), LAMBDA q :
         Then(PushItem(q, p.val, q.val), GoOn))

CapabilityAtoms(p) == While(Yield(p, <<>>), CapabilityTurn)

(* The SEARCH loop: numbers are not charged to the budget. *)
SearchTurn(p) ==
    IF Peek(p) # "SP" THEN p
    ELSE Then(ParseNumber(Advance(p, 1)), LAMBDA q : GoOn(Yield(q, Append(p.val, q.val))))

SearchNumbers(p) == While(Yield(p, <<>>), SearchTurn)

(* The value is the depth until the parentheses that begin at start close. *)
ParensTurn(p, start) ==
    LET Inside(q, depth) == GoOn(Yield(q, depth))
    IN  IF p.val = 0 THEN Yield(p, Taken(p, start))
        ELSE CASE IsEof(p)   -> Fail(p, "Incomplete")
          [] Peek(p) = "("   -> IF p.val = MaxU32 THEN Fail(p, "Other")
                                ELSE Inside(Advance(p, 1), p.val + 1)
          [] Peek(p) = ")"   -> Inside(Advance(p, 1), p.val - 1)
          [] Peek(p) = "DQ"  -> Then(ParseQuoted(p), LAMBDA q : Inside(q, p.val))
          [] Peek(p) = "{"   -> Then(ParseLiteral(p), LAMBDA q : Inside(q, p.val))
          [] Peek(p) \in LineBreak -> Fail(p, "Malformed")
          [] OTHER           -> Inside(Advance(p, 1), p.val)

ParseBalancedParens(p) ==
    Then(ConsumeByte(p, "("), LAMBDA q :
        While(Yield(q, 1), LAMBDA r : ParensTurn(r, p.pos)))

(* Mutant: line breaks before the terminator are kept. *)
ReadUntilByteLoose(p, terminator) == ScannedText(ScanTo(p, {terminator}), p.pos)

(* Up to the terminator, which is not consumed; no line break before it. *)
ReadUntilByte(p, terminator) ==
    LET q == ScanTo(p, {terminator} \cup LineBreak)
    IN  IF Peek(q) \in LineBreak THEN Fail(q, "Malformed") ELSE ScannedText(q, p.pos)

(***************************************************************************)
(* Status responses, continuation requests and response codes.             *)
(***************************************************************************)
StatusKeywords ==
    [Ok |-> <<"O", "K">>, No |-> <<"N", "O">>, Bad |-> <<"B", "A", "D">>,
     Bye |-> <<"B", "Y", "E">>,
     PreAuth |-> <<"P", "R", "E", "A", "U", "T", "H">>]

(* The statuses whose keyword is at the cursor: at most one. *)
StatusAt(p) ==
    {s \in DOMAIN StatusKeywords : MatchesKeyword(p, StatusKeywords[s])}

CouldBeStatusKeywordPrefix(rest) ==
    \E s \in DOMAIN StatusKeywords : IsStrictPrefix(rest, StatusKeywords[s])

(* What follows the atom of a response code, up to the closing bracket. *)
CodeArgument(p, atom) ==
    LET word     == IF Len(atom) = 1 THEN atom[1] ELSE "x"
        Coded(q) == Then(q, LAMBDA r : Yield(r, [code |-> word, arg |-> r.val]))
        None     == Yield(p, <<>>)
    IN  CASE word \in {"ALERT", "PARSE", "READ-ONLY", "READ-WRITE", "TRYCREATE"} ->
               Coded(None)
          [] word \in {"UIDNEXT", "UIDVALIDITY", "UNSEEN"} ->
               Coded(Then(ConsumeSp(p), ParseNumber))
          [] word = "CAPABILITY" ->
               Coded(CapabilityAtoms(p))
          [] word = "PERMANENTFLAGS" ->
               Coded(Then(ConsumeSp(p), ParseParenAtomList))
          [] word = "BADCHARSET" ->
               Coded(IF Peek(p) = "SP" THEN ParseParenAtomList(Advance(p, 1)) ELSE None)
          [] OTHER ->
               Coded(IF Peek(p) = "SP" THEN ReadUntilByte(Advance(p, 1), "]") ELSE None)

ParseRespTextCode(p) ==
    LET q == ScanTo(p, {"]", "SP"} \cup LineBreak)
    IN  IF Peek(q) \in LineBreak \/ (q.pos = p.pos /\ ~ IsEof(q))
        THEN Fail(q, "Malformed")
        ELSE Then(ScannedText(q, p.pos), LAMBDA r : CodeArgument(r, r.val))

ParseRespText(p) ==
    LET Text(q, code) == Then(ParseText(q), LAMBDA r :
                              Yield(r, [code |-> code, text |-> r.val]))
    IN  IF Peek(p) # "[" THEN Text(p, <<>>)
        ELSE Then(ParseRespTextCode(Advance(p, 1)), LAMBDA q :
             Then(ConsumeByte(q, "]"), LAMBDA r :
             Text(TryConsumeByte(r, "SP"), <<q.val>>)))

(* A missing SP is an empty text; ConsumeCrlf then judges what follows. *)
ParseRespTextAfterKeyword(p) ==
    IF Peek(p) = "SP" THEN ParseRespText(Advance(p, 1))
    ELSE Yield(p, [code |-> <<>>, text |-> <<>>])

Response(kind, data) == [kind |-> kind, data |-> data]

EndOfLine(p, kind) ==
    Then(p, LAMBDA q : Then(ConsumeCrlf(q), LAMBDA r : Yield(r, Response(kind, q.val))))

(* The status keyword at the cursor, its text and the end of the line. *)
FinishStatus(p, tag) ==
    LET s == CHOOSE s \in StatusAt(p) : TRUE
        q == ParseRespTextAfterKeyword(Advance(p, Len(StatusKeywords[s])))
    IN  EndOfLine(Then(q, LAMBDA r : Yield(r, [tag |-> tag, status |-> s, text |-> r.val])),
                  "Status")

ParseContinueReq(p) ==
    EndOfLine(Then(Then(ConsumeByte(p, "+"), ConsumeSp), ParseRespText), "Continue")

ParseTagged(p) ==
    Then(ParseTag(p), LAMBDA q :
    Then(ConsumeSp(q), LAMBDA r :
        IF StatusAt(r) # {} THEN FinishStatus(r, <<q.val>>)
        ELSE IF CouldBeStatusKeywordPrefix(Remaining(r)) THEN Fail(r, "Incomplete")
        ELSE Fail(r, "Malformed")))

(***************************************************************************)
(* FETCH attributes.                                                       *)
(***************************************************************************)
(* Up to SP, an opening bracket or a closing parenthesis: the scan runs    *)
(* through line breaks.                                                    *)
ParseFetchAttName(p) == Token(p, {"SP", "[", ")"})

(* The section in brackets, an optional origin and the data. *)
ParseBodySection(p) ==
    LET Origin(q) == IF Peek(q) # "<" THEN Yield(q, <<>>)
                     ELSE Then(ParseNumber(Advance(q, 1)), LAMBDA r :
                          Then(ConsumeByte(r, ">"), LAMBDA t : Yield(t, <<r.val>>)))
    IN  Then(ReadUntilByte(p, "]"), LAMBDA section :
        Then(Then(ConsumeByte(section, "]"), Origin), LAMBDA origin :
        Then(Then(ConsumeSp(origin), ParseNstringBytes), LAMBDA data :
        Yield(data, [att |-> "BODY[]", section |-> section.val,
                     origin |-> origin.val, data |-> data.val]))))

ParseOneFetchAtt(p) ==
    LET Value(word, q) ==
            CASE word \in {"UID", "RFC822.SIZE"}       -> ParseNumber(q)
              [] word = "FLAGS"                        -> ParseParenAtomList(q)
              [] word = "INTERNALDATE"                 -> ParseQuoted(q)
              [] word \in {"RFC822", "RFC822.HEADER", "RFC822.TEXT"} ->
                   Then(ParseNstringBytes(q), LAMBDA r :
                        Yield(r, IF r.val = <<>> THEN <<>> ELSE r.val[1]))
              [] word \in {"ENVELOPE", "BODYSTRUCTURE", "BODY"} -> ParseBalancedParens(q)
        Known == {"UID", "RFC822.SIZE", "FLAGS", "INTERNALDATE", "RFC822",
                  "RFC822.HEADER", "RFC822.TEXT", "ENVELOPE", "BODYSTRUCTURE", "BODY"}
    IN  Then(ParseFetchAttName(p), LAMBDA q :
            IF q.val = <<"BODY">> /\ Peek(q) = "["
            THEN ParseBodySection(Advance(q, 1))
            ELSE IF Len(q.val) = 1 /\ q.val[1] \in Known
            THEN Then(ConsumeSp(q), LAMBDA r :
                 Then(Value(q.val[1], r), LAMBDA t :
                      Yield(t, [att |-> q.val[1], data |-> t.val])))
            ELSE Fail(q, "Malformed"))

ParseFetchMsgAtt(p) == ParenList(p, ParseOneFetchAtt)

(***************************************************************************)
(* Data responses and the top-level dispatch.                              *)
(***************************************************************************)
ParseListLsubBody(p) ==
    Then(ParseParenAtomList(p), LAMBDA flags :
    Then(Then(ConsumeSp(flags), ParseNstring), LAMBDA delimiter :
    Then(Then(ConsumeSp(delimiter), ParseAstring), LAMBDA name :
    Yield(name, [flags |-> flags.val, delimiter |-> delimiter.val, name |-> name.val]))))

ParseStatusItem(p) ==
    Then(ParseAtom(p), LAMBDA key :
    Then(Then(ConsumeSp(key), ParseNumber), LAMBDA value :
    Yield(value, [key |-> key.val, value |-> value.val])))

ParseStatusItems(p) == ParenList(p, ParseStatusItem)

ParseStatusBody(p) ==
    Then(ParseAstring(p), LAMBDA mailbox :
    Then(Then(ConsumeSp(mailbox), ParseStatusItems), LAMBDA items :
    Yield(items, [mailbox |-> mailbox.val, items |-> items.val])))

(* The rest of the line up to CR (an LF does not end it), kept from start. *)
FinishOther(p, start) ==
    LET q == ScanTo(p, {"CR"}) IN EndOfLine(Yield(q, Taken(q, start)), "Other")

(* The start of the line the cursor is on, looking back for CR LF. *)
FindCurrentLineStart(p) ==
    CHOOSE i \in 1 .. p.pos :
        /\ i = 1 \/ (i > 2 /\ SubSeq(p.input, i - 2, i - 1) = <<"CR", "LF">>)
        /\ \A j \in i + 1 .. p.pos :
              ~ (j > 2 /\ SubSeq(p.input, j - 2, j - 1) = <<"CR", "LF">>)

ParseNumericDataResponse(p) ==
    Then(ParseNumber(p), LAMBDA n :
    Then(Then(ConsumeSp(n), ParseAtom), LAMBDA q :
        IF q.val \in {<<"EXISTS">>, <<"RECENT">>, <<"EXPUNGE">>}
        THEN EndOfLine(Yield(q, <<n.val>>), q.val[1])
        ELSE IF q.val = <<"FETCH">>
        THEN EndOfLine(Then(Then(ConsumeSp(q), ParseFetchMsgAtt), LAMBDA r :
                            Yield(r, [seq |-> n.val, attributes |-> r.val])), "FETCH")
        ELSE FinishOther(q, FindCurrentLineStart(q))))

ParseNamedDataResponse(p) ==
    Then(ParseAtom(p), LAMBDA q :
        LET word == IF Len(q.val) = 1 THEN q.val[1] ELSE "x"
        IN  CASE word = "CAPABILITY" -> EndOfLine(CapabilityAtoms(q), word)
              [] word \in {"LIST", "LSUB"} ->
                   EndOfLine(Then(ConsumeSp(q), ParseListLsubBody), word)
              [] word = "STATUS" -> EndOfLine(Then(ConsumeSp(q), ParseStatusBody), word)
              [] word = "SEARCH" -> EndOfLine(SearchNumbers(q), word)
              [] word = "FLAGS"  -> EndOfLine(Then(ConsumeSp(q), ParseParenAtomList), word)
              [] OTHER           -> FinishOther(q, p.pos))

ParseUntagged(p) ==
    Then(Then(ConsumeByte(p, "*"), ConsumeSp), LAMBDA q :
        IF StatusAt(q) # {} THEN FinishStatus(q, <<>>)
        ELSE IF IsEof(q) THEN Fail(q, "Incomplete")
        ELSE IF IsDigit(Peek(q)) THEN ParseNumericDataResponse(q)
        ELSE ParseNamedDataResponse(q))

(* parse_response: the verdict on a buffer; used is the length of the      *)
(* frame.                                                                  *)
ParseResponse(input) ==
    LET p == New(input)
        r == CASE IsEof(p)      -> Fail(p, "Incomplete")
               [] Peek(p) = "+" -> ParseContinueReq(p)
               [] Peek(p) = "*" -> ParseUntagged(p)
               [] OTHER         -> ParseTagged(p)
    IN  IF r.st = "Ok"
        THEN [st |-> "Ok", used |-> r.pos - 1, response |-> r.val]
        ELSE [st |-> r.st, used |-> 0, response |-> Response("none", <<>>)]

(***************************************************************************)
(* What `Debug` prints of a FETCH attribute: message content is replaced   *)
(* by its length (ByteCount), the rest is printed.                         *)
(***************************************************************************)
ByteCount(bytes) == Len(bytes)

(* Mutant: the octets of a section are printed. *)
DebugAttributeVerbose(a) ==
    IF a.att = "BODY[]" THEN <<a.section, a.origin, a.data>> ELSE <<a.att>>

DebugAttribute(a) ==
    CASE a.att \in {"FLAGS", "INTERNALDATE", "RFC822.SIZE", "UID"} -> <<a.att, a.data>>
      [] a.att = "BODY[]" ->
           <<a.section, a.origin,
             IF a.data = <<>> THEN <<>> ELSE <<ByteCount(a.data[1])>> >>
      [] OTHER -> <<a.att, ByteCount(a.data)>>
===============================================================================
