----------------------------- MODULE ResponseFeed -----------------------------
(***************************************************************************)
(* A server writes one symbol after another and the parser judges the      *)
(* buffer after every one of them: this is every way of cutting every      *)
(* input into reads, since the read loop (client.rs) calls parse_response  *)
(* on whatever has arrived.  A feed is what the server has written at      *)
(* first and the alphabet it goes on with.                                 *)
(***************************************************************************)
EXTENDS ResponseParser

CONSTANTS
    Feeds,          \* records of an opening and an alphabet
    MaxReceived,    \* bound: symbols after the opening
    MaxTail         \* bound: symbols after the verdict is final

ASSUME FeedAssumption ==
    /\ Feeds \subseteq [opening : Seq(STRING), alphabet : SUBSET STRING]
    /\ MaxReceived \in Nat /\ MaxTail \in Nat

VARIABLES
    alphabet,       \* the symbols the server writes
    input,          \* the buffer
    verdict,        \* what parse_response says of it
    received,       \* symbols received after the opening
    tail            \* of these, symbols since the verdict is not Incomplete

vars == <<alphabet, input, verdict, received, tail>>

Init ==
    /\ \E feed \in Feeds : input = feed.opening /\ alphabet = feed.alphabet
    /\ verdict = ParseResponse(input)
    /\ received = 0
    /\ tail = 0

Receive(symbol) ==
    /\ received < MaxReceived
    /\ tail < MaxTail
    /\ input' = Append(input, symbol)
    /\ verdict' = ParseResponse(input')
    /\ received' = received + 1
    /\ tail' = IF verdict.st = "Incomplete" THEN 0 ELSE tail + 1
    /\ UNCHANGED alphabet

Next == \E symbol \in alphabet : Receive(symbol)

Spec == Init /\ [][Next]_vars

-------------------------------------------------------------------------------
(* The data of the current response, of the kinds named. *)
Is(kinds) == verdict.st = "Ok" /\ verdict.response.kind \in kinds

Data == verdict.response.data

(***************************************************************************)
(* The framing contract the read loop relies on (prefix_soundness_tests of *)
(* parser.rs): a verdict other than Incomplete is final.  Bytes that       *)
(* arrive later change neither a complete response nor its length, and an  *)
(* error stays an error; equivalently every strict prefix of a complete    *)
(* response is Incomplete.  Which error it is may change: a value that     *)
(* ends the bytes may go on in the next read, and the budget is charged    *)
(* before that is known.                                                   *)
(***************************************************************************)
VerdictIsFinal == [][
    /\ verdict.st = "Ok" => verdict' = verdict
    /\ verdict.st \notin {"Ok", "Incomplete"} => verdict'.st \notin {"Ok", "Incomplete"}]_vars

(* A literal read off the input itself: its header {n} ends at LF k. *)
CrlfAt(k) == k > 1 /\ input[k] = "LF" /\ input[k - 1] = "CR"

HeaderAt(k, n) ==
    /\ CrlfAt(k)
    /\ \E j \in 1 .. k - 4 :
        /\ input[j] = "{" /\ input[k - 2] = "}"
        /\ \A i \in j + 1 .. k - 3 : IsDigit(input[i])
        /\ DecimalValue(SubSeq(input, j + 1, k - 3)) = n

InLiteral(k) == \E n \in 0 .. MaxLiteral :
    HeaderAt(k, n) \/ \E h \in 1 .. k - 1 : HeaderAt(h, n) /\ k - 1 <= h + n

(***************************************************************************)
(* A frame is one line: it ends in CRLF, and every earlier CRLF in it      *)
(* belongs to a literal's header or octets.  Otherwise the bytes of the    *)
(* next response would be taken as part of this one.                       *)
(***************************************************************************)
FrameIsOneLine == verdict.st = "Ok" =>
    /\ CrlfAt(verdict.used)
    /\ \A k \in 2 .. verdict.used - 1 : CrlfAt(k) => InLiteral(k)

(* The name of the first FETCH attribute begins at j: behind "* n FETCH (". *)
FirstName(j) ==
    LET number == ParseNumber(Advance(New(input), 2))
    IN  /\ Len(input) > 1 /\ input[1] = "*" /\ input[2] = "SP"
        /\ number.st = "Ok" /\ j = number.pos + 4
        /\ input[j - 4] = "SP" /\ input[j - 3] = "FETCH"
        /\ input[j - 2] = "SP" /\ input[j - 1] = "("

(* An attribute whose name begins at h has been read whole, and behind it  *)
(* and a space another name begins at j.                                   *)
NextName(h, j) == \E left \in 0 .. MaxItems :
    LET attribute == ParseOneFetchAtt([New(input) EXCEPT !.pos = h, !.itemsLeft = left])
    IN  attribute.st = "Ok" /\ attribute.pos = j - 1 /\ input[j - 1] = "SP"

(* The cursor is inside the name of a FETCH attribute: one begins, and     *)
(* nothing that parse_fetch_att_name stops at has come since.              *)
InFetchName ==
    \E names \in SUBSET {j \in 2 .. Len(input) + 1 : input[j - 1] \in {"SP", "("}} :
        /\ \A j \in names : FirstName(j) \/ \E h \in names : h < j /\ NextName(h, j)
        /\ \E j \in names : \A k \in j .. Len(input) : input[k] \notin {"SP", "[", ")"}

(***************************************************************************)
(* A line gets its verdict when its CRLF arrives: a CRLF outside a literal *)
(* leaves the parser waiting only where it reads the name of a FETCH       *)
(* attribute, which parse_fetch_att_name scans through line breaks; not    *)
(* in a quoted or parenthesised value, a section, a list or a text.        *)
(* Otherwise a malformed line would hold back every response behind it.    *)
(***************************************************************************)
LineIsDecided ==
    verdict.st = "Incomplete" /\ input # <<>> /\ CrlfAt(Len(input)) =>
        InLiteral(Len(input)) \/ InFetchName

(* The elements of a list of FETCH attributes, with the flags inside them. *)
Elements(attributes) ==
    LET upTo[k \in 0 .. Len(attributes)] ==
            IF k = 0 THEN 0
            ELSE upTo[k - 1] + 1 + (IF attributes[k].att = "FLAGS"
                                    THEN Len(attributes[k].data) ELSE 0)
    IN  upTo[Len(attributes)]

(* The elements of the list in a response code. *)
CodeElements(text) ==
    IF /\ text.code # <<>>
       /\ text.code[1].code \in {"CAPABILITY", "PERMANENTFLAGS", "BADCHARSET"}
    THEN Len(text.code[1].arg) ELSE 0

(* The list elements of the current response, nested lists included. *)
ListItems ==
    CASE Is({"CAPABILITY", "FLAGS"}) -> Len(Data)
      [] Is({"LIST", "LSUB"}) -> Len(Data.flags)
      [] Is({"STATUS"})       -> Len(Data.items)
      [] Is({"FETCH"})        -> Elements(Data.attributes)
      [] Is({"Status"})       -> CodeElements(Data.text)
      [] Is({"Continue"})     -> CodeElements(Data)
      [] OTHER                -> 0

(***************************************************************************)
(* The item budget is one for the whole response: no accepted response     *)
(* holds more than MAX_ITEMS_PER_RESPONSE list elements, the flags inside  *)
(* a FETCH attribute and the attributes themselves counted together.       *)
(***************************************************************************)
BudgetIsShared == ListItems <= MaxItems

(* The attribute with every symbol of its message content blotted out. *)
Blotted(a) ==
    LET Blot(bytes) == [k \in DOMAIN bytes |-> "?"]
    IN  CASE a.att \in {"FLAGS", "INTERNALDATE", "RFC822.SIZE", "UID"} -> a
          [] a.att = "BODY[]" -> [a EXCEPT !.data = [k \in DOMAIN @ |-> Blot(@[k])]]
          [] OTHER -> [a EXCEPT !.data = Blot(@)]

(***************************************************************************)
(* Printing a response for debugging never depends on message content:     *)
(* bodies, headers, envelopes and structures show by their length only     *)
(* (Debug of FetchAttribute in ast.rs), whatever the attribute list.       *)
(***************************************************************************)
DebugHidesContent == Is({"FETCH"}) => \A k \in DOMAIN Data.attributes :
    DebugAttribute(Data.attributes[k]) = DebugAttribute(Blotted(Data.attributes[k]))

-------------------------------------------------------------------------------
(***************************************************************************)
(* The module comment of parser.rs: "anything after a recognized response  *)
(* that still ends in CRLF is consumed and the response is returned".  If  *)
(* the first k symbols and a CRLF are a response, so they are with more    *)
(* symbols of the same line in between.                                    *)
(***************************************************************************)
TrailingTextIsTolerated ==
    input # <<>> /\ CrlfAt(Len(input)) =>
        \A k \in 1 .. Len(input) - 2 :
            /\ \A i \in k + 1 .. Len(input) - 2 : input[i] \notin LineBreak
            /\ ParseResponse(SubSeq(input, 1, k) \o <<"CR", "LF">>).st = "Ok"
            => verdict.st = "Ok"

(***************************************************************************)
(* The comment of DataResponse::Other in ast.rs: an unrecognised data      *)
(* response is "the raw line bytes (without CRLF)".                        *)
(***************************************************************************)
OtherIsRawLine == Is({"Other"}) => Data = SubSeq(input, 1, verdict.used - 2)

(***************************************************************************)
(* CONTEXT.md: the dispatcher "Identifies {n}\r\n lengths to wait for      *)
(* complete data blocks".  A data response is not complete at the header   *)
(* of a literal that is one of its words.                                  *)
(***************************************************************************)
LiteralsAreAwaited ==
    verdict.st = "Ok" /\ ~ Is({"Status", "Continue"}) =>
        ~ \E j \in 2 .. verdict.used - 4 :
            /\ input[j - 1] = "SP" /\ input[j] = "{"
            /\ \A i \in j + 1 .. verdict.used - 3 : IsDigit(input[i])
            /\ input[verdict.used - 2] = "}"
===============================================================================
