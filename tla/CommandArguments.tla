--------------------------- MODULE CommandArguments ---------------------------
(***************************************************************************)
(* From the arguments of a Session call to the line on the wire: the       *)
(* validators and the quoting of wire.rs and credentials.rs, the flags of  *)
(* flags.rs, the criteria of search.rs and the commands session.rs formats *)
(* from them.  Text is a sequence of the symbols of ResponseParser, plus   *)
(* "EIGHT", a character outside ASCII.  The server reads a line with the   *)
(* productions IMAP shares between commands and responses (an astring, a   *)
(* parenthesised list), for which ResponseParser serves.                   *)
(***************************************************************************)
EXTENDS ResponseParser

CONSTANTS
    FetchArgs,      \* pairs of a sequence set and FETCH items
    StoreArgs,      \* pairs of a sequence set and a list of flags
    MoveArgs,       \* pairs of a sequence set and a mailbox
    ArgTexts,       \* strings: mailboxes, user names, passwords
    Keys            \* search keys

VARIABLES
    call,           \* the operation and its arguments
    outcome,        \* "idle", "sent", or the error returned without sending
    line            \* the line sent for this call

vars == <<call, outcome, line>>

-------------------------------------------------------------------------------
(* wire.rs *)
IsPrintableAscii(c) == c \notin {"CR", "LF", "NUL", "CTL", "EIGHT"}

WireAtomChar(c) ==
    IsPrintableAscii(c) /\ c \notin {"SP", "(", ")", "{", "%", "*", "DQ", "BS", "]"}

(* Mutant: only what ends the line for a C string is refused. *)
RejectNul(cmd) == "NUL" \in Range(cmd)

RejectLineBreaks(cmd) == Range(cmd) \cap {"CR", "LF", "NUL"} # {}

Split(text, separator) ==
    LET RECURSIVE Parts(_)
        Parts(t) ==
            IF separator \notin Range(t) THEN <<t>>
            ELSE LET k == CHOOSE k \in DOMAIN t :
                            t[k] = separator /\ \A i \in 1 .. k - 1 : t[i] # separator
                 IN  <<SubSeq(t, 1, k - 1)>> \o Parts(SubSeq(t, k + 1, Len(t)))
    IN  Parts(text)

(* Mutant: the 32-bit limit is exclusive. *)
IsSeqNumberBelow(number) ==
    \/ number = <<"*">>
    \/ /\ number # <<>> /\ number[1] # "0"
       /\ \A k \in DOMAIN number : IsDigit(number[k])
       /\ DecimalValue(number) < MaxU32

IsSeqNumber(number) ==
    \/ number = <<"*">>
    \/ /\ number # <<>> /\ number[1] # "0"
       /\ \A k \in DOMAIN number : IsDigit(number[k])
       /\ DecimalValue(number) <= MaxU32

IsSeqRange(range) ==
    LET ends == Split(range, ":")
    IN  Len(ends) <= 2 /\ \A k \in DOMAIN ends : IsSeqNumber(ends[k])

IsSequenceSet(set) ==
    LET ranges == Split(set, ",")
    IN  set # <<>> /\ \A k \in DOMAIN ranges : IsSeqRange(ranges[k])

Closes == ")" :> "(" @@ "]" :> "["

(* A stack of open brackets; the stack <<"!">> stands for the early return. *)
HasBalancedBrackets(text) ==
    LET Step(open, c) ==
            CASE open = <<"!">>         -> open
              [] open # <<"!">> /\ c \in Range(Closes) -> Append(open, c)
              [] open # <<"!">> /\ c \in DOMAIN Closes ->
                   IF open # <<>> /\ Last(open) = Closes[c] THEN Front(open) ELSE <<"!">>
              [] OTHER                  -> open
    IN  FoldLeft(Step, <<>>, text) = <<>>

IsFetchItems(items) ==
    /\ items # <<>>
    /\ \A k \in DOMAIN items : IsPrintableAscii(items[k]) /\ items[k] # "{"
    /\ HasBalancedBrackets(items)

IsFlagKeyword(keyword) ==
    LET atom == IF keyword # <<>> /\ keyword[1] = "BS" THEN Tail(keyword) ELSE keyword
    IN  atom # <<>> /\ \A k \in DOMAIN atom : WireAtomChar(atom[k])

(* Mutant: backslashes are not escaped. *)
QuoteQuotes(text) ==
    <<"DQ">> \o FlattenSeq([k \in DOMAIN text |->
        IF text[k] = "DQ" THEN <<"BS", text[k]>> ELSE <<text[k]>>]) \o <<"DQ">>

Quote(text) ==
    <<"DQ">> \o FlattenSeq([k \in DOMAIN text |->
        IF text[k] \in {"DQ", "BS"} THEN <<"BS", text[k]>> ELSE <<text[k]>>]) \o <<"DQ">>

(* Mutant: only quotes are counted among the escapes. *)
QuoteCapacityQuotes(text) == Len(text) + Len(SelectSeq(text, LAMBDA c : c = "DQ")) + 2

(* The size quote() reserves. *)
QuoteCapacity(text) ==
    Len(text) + Len(SelectSeq(text, LAMBDA c : c \in {"DQ", "BS"})) + 2

(* credentials.rs, imap_quoted: what can be sent as a quoted string. *)
Quotable(text) == Range(text) \cap {"CR", "LF", "NUL", "EIGHT"} = {}

-------------------------------------------------------------------------------
(* flags.rs: a system flag is a constant, a custom flag is the caller's text. *)
FlagText(f) == IF f.custom THEN f.text ELSE <<"BS">> \o f.text

(* wire::flag *)
IsFlag(f) == f.custom => IsFlagKeyword(f.text)

ToImapPrefix(action, silent) ==
    LET item == [Add |-> "+FLAGS", Remove |-> "-FLAGS", Set |-> "FLAGS"][action]
    IN  IF silent THEN <<item, ".SILENT">> ELSE <<item>>

(* join(" "): the texts with an SP between them. *)
Join(texts) ==
    IF texts = <<>> THEN <<>>
    ELSE Tail(FlattenSeq([k \in DOMAIN texts |-> <<"SP">> \o texts[k]]))

-------------------------------------------------------------------------------
(* search.rs *)
TextKeys == {"FROM", "TO", "SUBJECT", "BODY", "TEXT"}

FlagKeys == {"ALL", "ANSWERED", "DELETED", "DRAFT", "FLAGGED", "RECENT", "SEEN",
             "UNANSWERED", "UNDELETED", "UNDRAFT", "UNFLAGGED", "UNSEEN"}

RECURSIVE ToImapString(_)
(* Mutant: compound keys are not parenthesised under OR and NOT. *)
ToImapStringBare(key) ==
    CASE key.op \in TextKeys -> <<key.op, "SP">> \o Quote(key.text)
      [] key.op \in FlagKeys -> <<key.op>>
      [] key.op = "And" ->
           Join([k \in DOMAIN key.keys |-> ToImapString(key.keys[k])])
      [] key.op = "Or"  -> <<"OR", "SP">> \o ToImapString(key.left)
                             \o <<"SP">> \o ToImapString(key.right)
      [] key.op = "Not" -> <<"NOT", "SP">> \o ToImapString(key.key)

ToImapString(key) ==
    CASE key.op \in TextKeys -> <<key.op, "SP">> \o Quote(key.text)
      [] key.op \in FlagKeys -> <<key.op>>
      [] key.op = "And" ->
           Join([k \in DOMAIN key.keys |-> ToImapString(key.keys[k])])
      [] key.op = "Or"  -> <<"OR", "SP", "(">> \o ToImapString(key.left)
                             \o <<")", "SP", "(">> \o ToImapString(key.right) \o <<")">>
      [] key.op = "Not" -> <<"NOT", "SP", "(">> \o ToImapString(key.key) \o <<")">>

-------------------------------------------------------------------------------
(* session.rs: the command of each call, and client.rs: the line it becomes. *)
CommandLine(cmd) == <<"A0001", "SP">> \o cmd \o <<"CR", "LF">>

(* The sizes login_command and command_line reserve. *)
LoginCapacity(userQ, passQ) == Len(<<"LOGIN", "SP">>) + Len(userQ) + 1 + Len(passQ)

LineCapacity(cmd) == Len(<<"A0001">>) + 1 + Len(cmd) + Len(<<"CR", "LF">>)

Refuse(request, error) ==
    /\ call' = request
    /\ outcome' = error
    /\ line' = <<>>

(* execute_command: the last check every command passes. *)
Execute(request, cmd) ==
    /\ call' = request
    /\ outcome' = IF RejectLineBreaks(cmd) THEN "InvalidArgument" ELSE "sent"
    /\ line' = IF RejectLineBreaks(cmd) THEN <<>> ELSE CommandLine(cmd)

Fetch(set, items) ==
    LET request == [op |-> "FETCH", set |-> set, items |-> items]
    IN  IF IsSequenceSet(set) /\ IsFetchItems(items)
        THEN Execute(request, <<"FETCH", "SP">> \o set \o <<"SP">> \o items)
        ELSE Refuse(request, "InvalidArgument")

(* store and uid_store; the verb UID STORE is one symbol. *)
Store(verb, set, action, flags) ==
    LET request == [op |-> verb, set |-> set, action |-> action, flags |-> flags]
        texts   == [k \in DOMAIN flags |-> FlagText(flags[k])]
    IN  IF (\A k \in DOMAIN flags : IsFlag(flags[k])) /\ IsSequenceSet(set)
        THEN Execute(request, <<verb, "SP">> \o set \o <<"SP">>
                 \o ToImapPrefix(action, FALSE) \o <<"SP", "(">> \o Join(texts) \o <<")">>)
        ELSE Refuse(request, "InvalidArgument")

(* move_messages, on a server that advertised MOVE (Session has the guard). *)
Move(set, mailbox) ==
    LET request == [op |-> "MOVE", set |-> set, mailbox |-> mailbox]
    IN  IF ~ IsSequenceSet(set) THEN Refuse(request, "InvalidArgument")
        ELSE IF ~ Quotable(mailbox) THEN Refuse(request, "CommandFailed")
        ELSE Execute(request, <<"MOVE", "SP">> \o set \o <<"SP">> \o Quote(mailbox))

(* select and examine take one string; list and login (login_command) two. *)
Select(verb, mailbox) ==
    LET request == [op |-> verb, args |-> <<mailbox>>]
    IN  IF Quotable(mailbox) THEN Execute(request, <<verb, "SP">> \o Quote(mailbox))
        ELSE Refuse(request, "CommandFailed")

QuotedPair(verb, first, second) ==
    LET request == [op |-> verb, args |-> <<first, second>>]
    IN  IF Quotable(first) /\ Quotable(second)
        THEN Execute(request, <<verb, "SP">> \o Quote(first) \o <<"SP">> \o Quote(second))
        ELSE Refuse(request, "CommandFailed")

Login(user, pass) == QuotedPair("LOGIN", user, pass)

List(reference, mask) == QuotedPair("LIST", reference, mask)

(* search and uid_search, through run_search *)
Search(verb, key) ==
    Execute([op |-> verb, key |-> key], <<verb, "SP">> \o ToImapString(key))

(* The call returned; the caller makes another. *)
Return ==
    /\ outcome # "idle"
    /\ call' = [op |-> "none"]
    /\ outcome' = "idle"
    /\ line' = <<>>

Init == call = [op |-> "none"] /\ outcome = "idle" /\ line = <<>>

(* One call at a time. *)
Call ==
    /\ outcome = "idle"
    /\ \/ \E a \in FetchArgs : Fetch(a[1], a[2])
       \/ \E a \in StoreArgs, action \in {"Add", "Remove", "Set"} :
             \E verb \in {"STORE", "UID STORE"} : Store(verb, a[1], action, a[2])
       \/ \E a \in MoveArgs : Move(a[1], a[2])
       \/ \E mailbox \in ArgTexts, verb \in {"SELECT", "EXAMINE"} : Select(verb, mailbox)
       \/ \E user, pass \in ArgTexts : Login(user, pass)
       \/ \E reference, mask \in ArgTexts : List(reference, mask)
       \/ \E key \in Keys, verb \in {"SEARCH", "UID SEARCH"} : Search(verb, key)

Next == Call \/ Return

Spec == Init /\ [][Next]_vars

-------------------------------------------------------------------------------
Sent(ops) == outcome = "sent" /\ call.op \in ops

(***************************************************************************)
(* One call is one command: whatever text a caller passes, the line sent   *)
(* has its only CR, LF or NUL in the final CRLF and does not announce a    *)
(* literal, so the server never takes the caller's text for more input     *)
(* (reject_line_breaks and the validators of wire.rs together).            *)
(***************************************************************************)
OneCommandPerCall == outcome = "sent" =>
    /\ SubSeq(line, Len(line) - 1, Len(line)) = <<"CR", "LF">>
    /\ Range(Front(Front(line))) \cap {"CR", "LF", "NUL"} = {}
    /\ ~ \E j \in 1 .. Len(line) - 3 :
            /\ line[j] = "{" /\ line[Len(line) - 2] = "}"
            /\ \A k \in j + 1 .. Len(line) - 3 : IsDigit(line[k])

(* The server's reading, past the tag and the name of the command. *)
Arguments == [New(Front(Front(line)) \o <<"CR", "LF">>) EXCEPT !.pos = 5]

Unescape(text) ==
    LET RECURSIVE Rest(_)
        Rest(t) == IF t = <<>> THEN <<>>
                   ELSE IF t[1] = "BS" THEN <<t[2]>> \o Rest(SubSeq(t, 3, Len(t)))
                   ELSE <<t[1]>> \o Rest(Tail(t))
    IN  Rest(text)

AtEnd(p) == p.st = "Ok" /\ Remaining(p) = <<"CR", "LF">>

(* Past a sequence set and its SP. *)
AfterSet(p) == Then(Token(p, {"SP"}), ConsumeSp)

(***************************************************************************)
(* Arguments arrive as they were passed: the server reads the very strings *)
(* of LOGIN, LIST, SELECT and MOVE, and the very flags of STORE; no        *)
(* argument runs into the next, closes a list or adds an element to it.    *)
(***************************************************************************)
ArgumentsArriveIntact ==
    /\ Sent({"SELECT", "EXAMINE", "LOGIN", "LIST"}) =>
        LET a == ParseQuoted(Arguments)
            b == ParseQuoted(ConsumeSp(a))
        IN  /\ a.st = "Ok" /\ Unescape(a.val) = call.args[1]
            /\ Len(call.args) = 1 => AtEnd(a)
            /\ Len(call.args) = 2 => AtEnd(b) /\ Unescape(b.val) = call.args[2]
    /\ Sent({"MOVE"}) =>
        LET m == ParseQuoted(AfterSet(Arguments))
        IN  AtEnd(m) /\ Unescape(m.val) = call.mailbox
    /\ Sent({"STORE", "UID STORE"}) =>
        LET f == ParseParenAtomList([AfterSet(AfterSet(Arguments)) EXCEPT
                                       !.itemsLeft = Len(call.flags)])
        IN  AtEnd(f) /\ f.val = [k \in DOMAIN call.flags |-> FlagText(call.flags[k])]

(***************************************************************************)
(* Formatting a password leaves no copy in freed memory: each buffer on    *)
(* the way of a LOGIN (quote, login_command, command_line) is filled to    *)
(* exactly what was reserved for it, so none is reallocated.               *)
(***************************************************************************)
LoginBuffersFit == Sent({"LOGIN"}) =>
    LET userQ == Quote(call.args[1])
        passQ == Quote(call.args[2])
        cmd   == SubSeq(line, 3, Len(line) - 2)
    IN  /\ Len(passQ) = QuoteCapacity(call.args[2])
        /\ Len(cmd) = LoginCapacity(userQ, passQ)
        /\ Len(line) = LineCapacity(cmd)

(* The numbers a 32-bit sequence number can be, written out. *)
Decimal(n) == IF n < 10 THEN <<Digits[n + 1]>>
              ELSE <<Digits[(n \div 10) + 1], Digits[(n % 10) + 1]>>

SeqNumbers == {Decimal(n) : n \in 1 .. MaxU32} \cup {<<"*">>}

SeqRanges == SeqNumbers \cup {a \o <<":">> \o b : a, b \in SeqNumbers}

GrammarSet(set) ==
    LET RECURSIVE Elements(_)
        Elements(t) == \/ t \in SeqRanges
                       \/ \E k \in DOMAIN t :
                            /\ t[k] = "," /\ SubSeq(t, 1, k - 1) \in SeqRanges
                            /\ Elements(SubSeq(t, k + 1, Len(t)))
    IN  Elements(set)

(* Brackets that nest, by the grammar rather than with a stack. *)
Nested(text) ==
    LET RECURSIVE N(_)
        N(t) == \/ t = <<>>
                \/ /\ t[1] \notin {"(", ")", "[", "]"}
                   /\ N(Tail(t))
                \/ \E k \in 2 .. Len(t) :
                    /\ <<t[1], t[k]>> \in {<<"(", ")">>, <<"[", "]">>}
                    /\ N(SubSeq(t, 2, k - 1)) /\ N(SubSeq(t, k + 1, Len(t)))
    IN  N(text)

(***************************************************************************)
(* A call with a sequence set is sent exactly when the set is one by the   *)
(* grammar of RFC 9051 (numbers from 1 to u32::MAX without leading zeros,  *)
(* ranges, lists) and, for FETCH, the brackets of the items nest: nothing  *)
(* malformed goes out and nothing valid is refused.                        *)
(***************************************************************************)
SentIffGrammatical ==
    /\ call.op = "MOVE" /\ Quotable(call.mailbox) =>
        (outcome = "sent" <=> GrammarSet(call.set))
    /\ call.op \in {"STORE", "UID STORE"} /\ (\A k \in DOMAIN call.flags : IsFlag(call.flags[k])) =>
        (outcome = "sent" <=> GrammarSet(call.set))
    /\ call.op = "FETCH" =>
        (outcome = "sent" <=>
            /\ GrammarSet(call.set) /\ call.items # <<>> /\ Nested(call.items)
            /\ Range(call.items) \cap {"{", "CR", "LF", "NUL", "CTL", "EIGHT"} = {})

(***************************************************************************)
(* A search-program as a server reads it (RFC 9051): keys joined by SP are *)
(* a conjunction, a parenthesised list is one key.                         *)
(***************************************************************************)
RECURSIVE ReadKey(_)
ReadKeys(p) ==
    LET RECURSIVE More(_, _)
        More(q, keys) ==
            Then(ReadKey(q), LAMBDA r :
                LET all == Append(keys, r.val)
                IN  IF Peek(r) = "SP" THEN More(Advance(r, 1), all)
                    ELSE Yield(r, [op |-> "And", keys |-> all]))
    IN  More(p, <<>>)

ReadKey(p) ==
    LET rest == ConsumeSp(Advance(p, 1))
    IN  CASE Peek(p) \in FlagKeys -> Yield(Advance(p, 1), [op |-> Peek(p)])
          [] Peek(p) \in TextKeys ->
               Then(Then(rest, ParseQuoted), LAMBDA q :
                    Yield(q, [op |-> Peek(p), text |-> Unescape(q.val)]))
          [] Peek(p) = "("   ->
               Then(ReadKeys(Advance(p, 1)), LAMBDA q :
               Then(ConsumeByte(q, ")"), LAMBDA r : Yield(r, q.val)))
          [] Peek(p) = "NOT" ->
               Then(Then(rest, ReadKey), LAMBDA q : Yield(q, [op |-> "Not", key |-> q.val]))
          [] Peek(p) = "OR"  ->
               Then(Then(rest, ReadKey), LAMBDA a :
               Then(Then(ConsumeSp(a), ReadKey), LAMBDA b :
               Yield(b, [op |-> "Or", left |-> a.val, right |-> b.val])))
          [] OTHER           -> Fail(p, "BAD")

(* The conditions a key tests, and whether it holds when just those in c do. *)
RECURSIVE Conditions(_)
Conditions(key) ==
    CASE key.op = "And" -> UNION {Conditions(key.keys[k]) : k \in DOMAIN key.keys}
      [] key.op = "Or"  -> Conditions(key.left) \cup Conditions(key.right)
      [] key.op = "Not" -> Conditions(key.key)
      [] OTHER          -> {key}

RECURSIVE Holds(_, _)
Holds(key, c) ==
    CASE key.op = "And" -> \A k \in DOMAIN key.keys : Holds(key.keys[k], c)
      [] key.op = "Or"  -> Holds(key.left, c) \/ Holds(key.right, c)
      [] key.op = "Not" -> ~ Holds(key.key, c)
      [] OTHER          -> key \in c

(***************************************************************************)
(* A search means on the server what it means in the program: the criteria *)
(* rendered by to_imap_string, read back by the search grammar, select the *)
(* same messages as the SearchKey, however And, Or and Not are nested and  *)
(* whatever text they carry.  An And of no keys is left out of its run: it *)
(* renders to nothing and the line is no command (SearchIsGrammatical).    *)
(***************************************************************************)
SearchMeansTheSame == Sent({"SEARCH", "UID SEARCH"}) =>
    LET read == ReadKeys(Arguments)
    IN  /\ AtEnd(read)
        /\ \A c \in SUBSET Conditions(call.key) : Holds(read.val, c) = Holds(call.key, c)

(***************************************************************************)
(* The comment of to_imap_string in search.rs: the result is "an IMAP      *)
(* search-key string suitable for a SEARCH command".                       *)
(***************************************************************************)
SearchIsGrammatical == Sent({"SEARCH", "UID SEARCH"}) => AtEnd(ReadKeys(Arguments))

(***************************************************************************)
(* The comment of Session::login: credentials that "cannot be represented  *)
(* as quoted strings (8-bit, control bytes, CR, LF)" are refused.          *)
(***************************************************************************)
ControlBytesAreRefused == Sent({"LOGIN"}) =>
    \A k \in DOMAIN call.args : Range(call.args[k])
        \cap {"CR", "LF", "NUL", "CTL", "EIGHT"} = {}
===============================================================================
