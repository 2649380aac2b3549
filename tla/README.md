# A verification model of imap-rs

imap-rs is an asynchronous IMAP client library in Rust, on tokio. This directory
holds TLA+ modules that model its concurrent core, TLC configurations that check
them on small instances, and TLAPS proofs of what matters most for every instance.
Besides the concurrent core it covers the sequential code under it: the response
parser, the framing of the byte stream, and the way from a caller's arguments to the
line on the wire.

## 1. The system

| part | source | state | operations |
|---|---|---|---|
| dispatcher | `imap-client/src/client.rs` | tag counter, write queue, `Pending` table (reply senders, stream collectors), one bounded stream per streaming command, event broadcast, read buffer | `execute_command`, `execute_streaming`, `send_command_async`, `send_command_streaming`, `next_frame`, `into_reply`, `send_raw`, `writer`; the write loop; the read loop |
| session | `imap-client/src/session.rs` | type-level state and transport, cached capabilities | one method per IMAP command; login and AUTHENTICATE PLAIN refresh the capabilities |
| IDLE | `imap-client/src/idle.rs` | a handle: a clone of the write queue's sender and the reply receiver | `idle()`, `stop()` |
| connection set-up | `imap-tls/src/lib.rs` | the pre-TLS buffer, deadlines | `connect_tls`, `connect_starttls`, the upgrade, the first capabilities |
| parser | `imap-core/src/parser.rs`, `ast.rs` | none | `parse_response`: a frame and the rest, `Incomplete`, or an error |
| framing | `client.rs` (`read_loop`) | the read buffer | read, split off a frame, stop at a bad or too large one, at end of file or a failed read |
| arguments | `imap-client/src/wire.rs`, `search.rs`, `flags.rs`, `base64.rs`, `credentials.rs` | buffers that hold a secret | validation, quoting, rendering, encoding |
| errors | `imap-client/src/error.rs` | none | server text is cleaned and cut |
| capabilities | `imap-client/src/capabilities.rs` | a set of flags | replaced as a whole by each list |

How they interact. A `Session` owns a `RawClient`. Its calls put requests into a
bounded queue that the write loop empties; the write loop registers the command in
the `Pending` table and then writes it. The read loop cuts frames out of what it
reads, asks the table (under a lock, released at once) where a frame goes, and
delivers it: a tagged status to the waiter's oneshot, an untagged frame to the oldest
open stream whose filter accepts it, anything else to the broadcast. A full stream
blocks the read loop. Callers time out, drop futures, close streams early, and drop
the client. The loops share no failure path: each ends on its own.

What is hard here: the order of registration, write and reply; routes chosen under
the lock and used after it; a stream closed while the read loop is sending to it;
late answers to commands nobody waits for; one loop ending before the other; bytes
cut anywhere, so that a frame must not depend on the cuts; limits met exactly; text
of a caller that must not become protocol, and text of a server that must not reach a
terminal; full
channels; timeouts that do not cover a wait; in set-up, cleartext racing the
upgrade and the greeting racing the subscription; in the session, agreement with the
server's state across failed calls. `PROJECT.json` lists these hazards line by
line with the properties that address them.

## 2. Modules

| module | models |
|---|---|
| `CommandChannel` | abstract: a command is opened, answered once at a place on the wire, delivers frames that precede the answer, and ends with an outcome that agrees with the answer |
| `Dispatcher` | `client.rs`: callers, both loops, table, channels, and a server |
| `MCDispatcher` | the root module of the dispatcher's runs |
| `DispatcherProofs` | `TypeCorrect`, `OutcomeCorrect`, `StreamsInOrder`, `FirstReplyFindsWaiter`, `Implementation` (the refinement), `FramesConserved`, `OwnersGetTheirs`, `StrangersAreAbandoned` |
| `StartTls`, `MCStartTls` | `imap-tls/src/lib.rs` |
| `StartTlsProofs` | `TypeCorrect`, `UpgradeIsClean`, `CapabilitiesAreNewest` |
| `Session`, `MCSession` | `session.rs`, `idle.rs` |
| `SessionProofs` | a theorem for each invariant of Session |
| `ResponseParser` | `parser.rs` and the redacting `Debug` of `ast.rs`, as operators |
| `ParserProofs` | `MoreBytes`, `FrameStandsAlone`, and what every production of the parser does with its cursor, its budget and its value |
| `ResponseFeed`, `MCResponseFeed` | the parser fed symbol by symbol: every input with every cut |
| `ResponseFeedProofs` | `VerdictStands`, `BudgetHolds`, `DebugIsSafe`, `LinesAndFrames`, `FramesAreLines`, `LinesAreDecided`, and where every production stands with respect to the end of its line |
| `Framing`, `MCFraming` | `read_loop` over the parser |
| `FramingProofs` | `BytesAreConserved`, `BufferStaysBounded`, `OnlyLargeFramesAreRefused`, `CutsNeverMatter` |
| `CommandArguments`, `MCCommandArguments` | `wire.rs`, `credentials.rs` (quoting), `flags.rs`, `search.rs` and the session calls that format a command from them |
| `Base64`, `SaslPlain`, `MCSaslPlain` | `base64.rs` and `authenticate_plain`'s secret on its way to the socket |
| `SaslPlainProofs` | `Base64RoundTrip`, `CredentialsArrive`, `NoCopyLeft` |
| `ResponseUse`, `MCResponseUse` | what a session keeps of the frames routed to it, `capabilities.rs`, `error.rs` |
| `ResponseUseProofs` | `ResultsAreOfTheirFrames`, `NewestListCounts`, `ErrorsAreSafe` |

### Dispatcher

A command is its tag; a frame is its position in `sent`, the log of what the server
wrote, so wire order is the order of numbers. Each Rust task is a set of actions that
interleave at its await points:

* callers: `next_tag`, `enqueue_command` (waits for room), `next_frame`,
  `into_reply` + `drain`, `await_reply`, `timeout`, `cancel`. Mode `"exec"` is
  `execute_command` and `execute_streaming` (the future holds the client to the end),
  `"async"` is `send_command_*` (the caller does what it likes with the receivers);
* the write loop: `write_loop_recv` takes a request and registers it, `write_all` and
  `write_error` finish it, `write_loop_end` is the end of the queue;
* the read loop: `route_for` takes a frame and chooses its route,
  `dispatch_tagged`, `dispatch_broadcast`, `dispatch_reserve` and `dispatch_push`
  deliver it, `read_loop_end` fails all waiters;
* the server (external): answers commands in order, with any frames before the tagged
  status; unsolicited frames, repeated statuses, and an end of the stream (end of
  file, malformed, too large) at any time.

tokio is external and modelled from its use: `mpsc::Sender::send` takes a permit and
then pushes, two steps, since the library runs on a multi-threaded runtime as well;
dropping a receiver discards what it buffers; dropping the last sender ends the
stream. Two variables are history only: `discarded` (frames lost with a receiver) and
`events` (everything broadcast; a subscriber's own lag is not modelled).

Frames are whole. A command rejected by `reject_line_breaks` changes nothing and is
left out. The tag counter does not wrap within reach of any run.

### StartTls

The cleartext is a sequence of units; a response is units `"part"` closed by one
that says what it is, so that a read may cut a response anywhere and a response may
fill the buffer. Before TLS the server may send anything at any time. `stray`
records that cleartext followed the accepted OK, whether it was already buffered,
still in the socket, or sent afterwards. The handshake is external: it succeeds only
if rustls finds no cleartext where it expects a record. Inside TLS the server
conforms; capability lists are numbered, so "newest" is a comparison. The dispatcher
appears as `dispatch_event` and `exchange`.

### Session

One session, one IDLE handle at a time, and a conforming server that may refuse
anything. `start(op)` and `reject(op)` are the methods up to their first await; the
tables `AnyStateOps` ... `SelectedOps`, `by_value`, `transition_state` and
`supported` are the method signatures and capability checks. Since a method borrows or
consumes the session, only one call is in progress, but a call that gave up leaves
its command on the wire. The dispatcher is reduced to what follows from that: only
the call in progress has an open stream. Two simplifications: a second handle
replaces the first, and FETCH or SEARCH data is left out (its routing is
Dispatcher's subject).

Two limits. `Init` takes `Session::new` and `new_tls` at their word, "a fresh,
unauthenticated session": the server begins unauthenticated. `imap-tls` does not check
that; it builds a `Session<Unauthenticated>` whatever the greeting was, a `PREAUTH`
greeting included (`imap-tls/src/lib.rs:194` and `:251`), and with one `StatesAgree`
would be false from the start. And `LegalCommands` is about commands the server receives
while it does not idle: the handle does not borrow the session, so the API lets a caller
send a command between `idle()` and `stop()`. The model has these steps
(`server_ignores`, `server_line`); the property does not judge them.

### ResponseParser and ResponseFeed

The parser is a record (input, cursor, item budget, status, value); each method of
`Parser` is an operator of the same name from record to record, and `Then` is the `?`
of the code. A loop of the code is `While(p, Turn)`: a turn either ends the loop or has
moved the cursor, so one turn more than there are symbols is enough for any input, and
the loop is a recursive function over the number of turns. The input is a sequence of symbols. A symbol is one byte where the parser
looks at single bytes: line breaks, quotes, brackets, digits, the two bytes of a
UTF-8 character, and the letters of the words it matches in place (`OK`, `NO`, `BAD`,
`BYE`, `PREAUTH`, `NIL`). A word it recognises only after a scan over the whole token
is one symbol, because no cut inside it is told from a cut inside another word.
Letter case is left out. Values keep their shape; the variants of `StatusItem`, which
have the same payload, are the key as read.

`ResponseFeed` appends one symbol at a time and asks for the verdict again, which is
every cut of every input over its alphabet. `VerdictIsFinal` says that a response and
its length do not change and that an error stays an error. It does not say that the
error stays the same one: at the end of `* STATUS x (UIDNEXT 1` the item is charged to
the budget before it is known whether the number goes on, so what is `TooManyItems` now
may be `InvalidNumber` with the next digit. The read loop gives up on either.

### Framing

`Read(n)` returns any number of symbols up to `MaxRead` (the real buffer's room),
`Split` is one turn of the inner loop, and the loop ends in one of three errors:
`ReadEof` and `ReadFails` are the two arms that end it between reads, `StopSplitting` is
the check of the ceiling once no complete frame is left. `RefusedFramesAreTooLarge` is
the other side of the bound: the ceiling ends the connection only if the response that
begins the buffer, read to its end in all the server sends, is longer than it. What the
event broadcast keeps for a receiver that lags is tokio's and not modelled.
There is no liveness here: `read_loop` owes nothing until bytes arrive, its progress
with commands in flight is in `dispatcher_live`, and ENABLED over the parser is too
costly for TLC.

The parser is `ParseResponse` of `ResponseParser`, in the runs and in the proofs.

### CommandArguments

One call at a time: its arguments are validated, quoted and formatted, and the line is
sent or the call refused, with the error the code returns. A text is a sequence of the
parser's symbols and of `EIGHT`, any character outside ASCII. The server's reading of
the line is not in the repository: it uses the productions that commands share with
responses, and `ReadKeys`, `GrammarSet`, `Nested` follow RFC 9051 as reference
definitions, written differently from the code on purpose.

### SaslPlain and Base64

A buffer is a record of its reserve, its data, and whether it has ever had to grow.
The encoder works on bytes and sextets; `Decode` follows RFC 4648 and `Authcid`,
`Passwd` RFC 4616. The waits of the call are `Continue` and `GiveUp`; who else may
answer them is the subject of `Session`. No RECURSIVE operator is used.

### ResponseUse

A frame is parsed twice in the code: in the read loop, with whatever follows it in the
buffer, to choose its route, and by itself in the closure of the command. `Frame` takes
both results, from `Verdict`, the parser tabulated over the buffers and their prefixes.
`ResultsHoldTheirFrames` says what a result is, item by item: the last UID and the last
content of its own frame, where a NIL section hides nothing. Of several sections only the
last is kept, which is what the code does; a `BODY` structure taken for the body is
section 5. Known capability atoms are kept as the set of names. `fetch_body` (the first
result, decoded lossily) and `Capabilities::parse` add no state and are left out.

## 3. Runs

| run | bounds | shows |
|---|---|---|
| `dispatcher_streams` | 2 commands, streams and queue of capacity 1, one class | no frame is duplicated, and `into_reply` loses one at most (`FrameConservation`); wire order, and nothing after the reply (`StreamBeforeReply`); a listening caller misses none of its own frames (`OwnFramesArrive`); a foreign frame comes only from an older, closed stream (`ForeignFramesWereAbandoned`); a first reply always finds its waiter (`FirstReplyClaimed`); channels within capacity (`TypeOK`) |
| `dispatcher_channel` | 2 commands, NO answers, a repeated tag, two endings, one raw write | outcomes agree with the wire; refinement of `CommandChannel` |
| `dispatcher_live` | 2 commands made with `execute_*`, fairness, writes that may hang | an `execute_*` whose command is queued returns, and every one does if writes do (`ExecReturns`); backpressure ends; a failure reaches every waiter registered before it |
| `starttls` | buffer of 3 units, 2 units in the socket | bounded buffer, clean upgrade, newest capabilities, set-up ends |
| `session` | all 17 methods, 5 commands | type and server agree; only legal commands are received; capabilities are of this phase; credentials and handles are invited by `+` |
| `parser` | 5 symbols behind each of 36 openings, alphabets of 7 to 14 symbols, item budget 2, literals up to 3 octets, `u32::MAX` as 29 | a verdict is final (`VerdictIsFinal`), comes with the line's CRLF (`LineIsDecided`), covers that line only (`FrameIsOneLine`); one budget for all lists (`BudgetIsShared`); `Debug` shows no content (`DebugHidesContent`) |
| `framing` | up to three pieces out of frames, a literal, a bad line, an unended and an oversized line, or up to five short frames; ceiling 20, reads up to 9 | the frames do not depend on the cuts, no byte is lost, the buffer stays within the ceiling and one read (`BufferIsBounded`); the ceiling refuses only a response that is longer (`RefusedFramesAreTooLarge`) |
| `arguments` | sets: all texts of up to 5 out of `0 1 2 : , *`, `u32::MAX` as 12; FETCH items of up to 5 symbols, strings and flags of up to 2 out of 12 and 8; search keys of two levels | sent exactly when grammatical; one call is one line; arguments arrive; LOGIN's buffers fit; searches keep their meaning |
| `sasl_plain` | names up to 3 bytes, passwords up to 4, with NUL and bytes that fill the sextets | credentials arrive, no buffer grows |
| `response_use` | 2 frames per command, 1 or 2 attributes per FETCH, text limit 3 | a result holds what its own frame says (`ResultsHoldTheirFrames`), capabilities are the newest list's, error text is safe |
| `abandoned_stream`, `stale_continuation` | smallest that show it | disagreements of code and documentation, section 5 |

Why the bounds are enough to be interesting: two streams of one class at capacity one
already have every relation of order (older/younger, open/closed, full/empty) that
`collector_for` distinguishes, and each race is between one frame in the read loop's
hand and one stream. A queue of one with two commands fills up. In `starttls` a
response can fill the buffer, be cut at each unit, and be followed by another in the
same read. In `session` five commands suffice for LOGIN, its CAPABILITY, SELECT and two
IDLE, or for an abandoned CAPABILITY before a login. The parser runs start behind
openings that put the cursor just before or inside each production, so that five more
symbols reach its end, its errors and the line's end; a budget of two and
literals of at most three octets are met exactly and exceeded. Two digits reach and
pass the stand-in for `u32::MAX`. In `framing` the longest piece exceeds the ceiling
within one read and over several.

Deadlock is not checked: callers may stop, and connections end.

### Fairness

`WedgedSpec` of Dispatcher: the runtime polls every ready task (each step of a caller
that follows its await, both loops) and timers fire (`timeout`). Nothing is assumed of the server, and no
caller is obliged to cancel, to call `into_reply` early or to drop the client.
A caller that holds a stream from
`send_command_streaming` and neither reads nor drops it blocks the read loop, as the
documentation of that method says; liveness is therefore stated for `execute_*` calls.
Writes may never return: TCP lets a peer stop reading for ever. Only the second half of
`ExecReturns` assumes that a write finishes or fails (`TransportFairness`), since the wait
for room in the queue has no timeout of its own; `FairSpec` is `WedgedSpec` with that assumption.
`FairSpec` of StartTls: the caller's task and the read loop run, and the deadline of
each phase fires; the server owes nothing.

## 4. Proofs

`DispatcherProofs!TypeCorrect`: `Spec => []TypeOK`, for every number of commands, all
capacities and all uses. `TypeOK` is not inductive: that a push keeps the stream
within capacity needs that a permit, once taken, stays good although the caller acts
in between. `ReaderKnows` says so (`PermitGood`: only the read loop pushes, everyone
else only shortens a stream), together with `HandKnown` and `TagsKnown`.

`DispatcherProofs!OutcomeCorrect`: `Spec => []OutcomeIsAnswer`, that is, no caller is
told Ok or CommandFailed other than by the first tagged status with its tag. The
inductive invariant is `AnswerInv`: a tag is fresh until taken; on its way a command
is in one place only (`NotYetQueued`, `QueuedOnce`, `ReceivedOnce`); `answered` is the
first status in the log (`AnsweredIsFirst`); a command still in the table has had no
status dispatched (`WaitersFresh`), which is why the status in the read loop's hand is
the first when it finds a waiter; and then `ReplyIsAnswer` and the outcome. The proof has
a lemma per process (caller, handle, writer, reader, server), a step per action, and
lemmas on sequences (`JoinQueue`, `LeaveQueue`, `WithoutRange`).

`DispatcherProofs!StreamsInOrder`: `Spec => []StreamBeforeReply`. The property speaks of
what callers received; `StreamInv` adds the frames still in a stream and the one the
read loop is about to push (`StreamOrdered`, `HandBeforeAnswer`): all of them are data,
in wire order, before the command's status. What a caller does to its stream is one of
three shapes (`CallerStream`: nothing, take the oldest, drop them all).

`DispatcherProofs!FirstReplyFindsWaiter`: `Spec => []FirstReplyClaimed`. The inductive
invariant `ClaimInv` says that a command the server may answer has its waiter in the
table until a status for it has been dispatched or the read loop is gone (`Waiting`):
registration before the write is what makes it true, and dropping a receiver does not
take the sender out of the table.

`DispatcherProofs!Implementation`: `Spec => ImplementsChannel`. Initial states map to
initial states (`ChannelInit`), and each action to a step of `CommandChannel` or to a
stutter (`ChannelStep`, by `BeginStep`, `DeliverStep`, `FinishStep`, `AnswerStep`). It
needs the three invariants above: delivery in order before the answer, and outcomes
that agree with it.

`DispatcherProofs!FramesConserved`: `Spec => []FrameConservation`. For `InOnePlace`, in
`PlaceInv` a
dispatched frame is in at most one place (`Isolated`), a data frame in at least one
(`Placed`). Every step moves no frame or exactly one of six ways (`PlaceCast`,
`PlacePush`, `PlaceLose`, `PlaceSkip`, `PlaceDrain`, `PlaceAbandon`). Its second half,
`LosesAtMostOne`, is by `LossInv` (`DrainLosesAtMostOne`): nothing of a stream is lost
before its caller closes it or gives it up, and a permit is granted only while it is open,
so that at most the one permit taken before the close is left; once that is used the read
loop has none for this stream again.

`DispatcherProofs!OwnersGetTheirs` and `StrangersAreAbandoned`: `Spec =>
[]OwnFramesArrive` and `Spec => []ForeignFramesWereAbandoned`. Nothing in a frame says
whose it is; `collector_for` takes the oldest open collector of the class. That this is
the right one is an argument about order, `TagInv`: a caller holds the client from the
moment it takes a tag until its request is queued (`HoldsClient`), hence queue, inbox
and collectors are all in tag order (`QueueOrder`, `ServerOrder`, `CollectorOrder`),
and a streaming command collects until its status is dispatched (`Collecting`). `OwnInv`
then follows the frame in the read loop's hand: while its owner listens it goes there
(`HandToOwner`), otherwise only to a younger command (`HandToStranger`).

Assumptions: only the named ASSUMEs of `Dispatcher` (natural numbers, capacities at
least one, `NoClass` not a class, the uses within their ranges). The server is the one
of the model: it answers commands in the order it received them.

`StartTlsProofs!TypeCorrect`: `Spec => []TypeOK`, which holds the bound on the cleartext
buffer, for every ceiling. `UpgradeIsClean`: `Spec => []CleanUpgrade`, by `UpgradeInv`:
before the handshake no cleartext has followed the accepted OK unseen, and at the
handshake whatever did follow is still in the socket, where rustls meets it.
`CapabilitiesAreNewest`: `Spec => []NewestCapabilities`, by `CapsInv`: before CAPABILITY
is sent only greetings are queued, and once it is answered the newest list is in the
status, in the frame before it, or taken (`AnswerQueued`). Assumptions:
`SizesAssumption`, `EntriesAssumption`.

`SessionProofs`: `TypeCorrect`, `StatesAlwaysAgree`, `CommandsAreLegal`,
`CapabilitiesAreOfThisPhase`, `CredentialsAreInvited` and `HandlesAreInvited` prove the
six invariants of Session for any methods, capabilities and number of commands. The
lemma `Steps` shows once that each action is one of sixteen shapes (`Step`: a call
starts, ends, goes on; a line or a frame joins or leaves; the server refuses, accepts,
concludes ...); the invariants are then carried over shapes rather than actions.
`StatesAgree` alone is far from inductive, because calls that gave up leave commands on
the wire. `OrderInv` orders those commands by tag. `StateInv` says that a command that
changes the state is the last line on its way, and so is one that ends in a secret,
since the method that sent it consumed the session (`ChangeLast`, `SecretLast`); that
every command under way is legal where it will be received (`AllLegal`); and what the
call may conclude from its reply (`ChangeDone`, `ChangePending`). `CapsInv` places every
list the session may still take behind the point where the server was authenticated.
These three need each other and are proved together (`SessionInvariant`).
`CredentialsInv` and `IdleInv` follow the `+` from the server to the call; `IdleInv`
keeps that a `+` for an older IDLE exists only after that IDLE was given up, which is
the exception in `IdleHandleInvited` and the finding `stale_continuation`. Assumptions:
`OpsAssumption`, `CapsAssumption`, `BoundAssumption`.

`ParserProofs!MoreBytes`: if the bytes `s` have arrived and `t` goes on from them
(`Cut`), a complete response found in `s` is the response found in `t`, an error in `s`
is an error in `t`, and a response that `s` leaves incomplete ends behind `s`. This is
the contract that `prefix_soundness_tests` of `parser.rs` samples, for inputs of any
length and any limits. `FrameStandsAlone` follows: the bytes of a frame by themselves
are the same response, and every strict prefix of them is Incomplete.
Each production has a lemma of each of two kinds. The first (`...Facts`) is about one
input: the cursor never moves back, a turn of a loop that goes on has moved it, and
without bytes a production waits (`Turned`, `Sound`, `Eats`). The second (`...Rel`) is
about two parsers at the same place of `s` and of `t` (`Pair`), and is of three
strengths: an error stays an error, what waited has gone beyond `s`, and a result either
stays or ended exactly where the bytes end (`Loose`); a number or an atom is no better
than that, since it may go on. `Firm` adds that a result so replaced is charged the
same, and `Strong` that a result stays in any case: a quoted string, a literal, a list.
`Then` and `While` compose such relations (`NextStrong`, `NextLoose`, `LoopRel` ...), and
the CRLF at the end of every response makes the whole of it `Strong`. Induction over
the turns of a loop is by the least counterexample (`LeastNumber`, from the
well-foundedness of the natural numbers); the seven loops are named by `LoopTurn`, so
that one set of lemmas covers them. The last part of the module is about values: what
type of value each production yields and what it has been charged for it (`Held`,
`Spent`), up to `ResponseShape`, which says of every kind of response which productions
its data came from. Assumption: `LimitsAssumption` (the limits are natural numbers).

`ResponseFeedProofs`: `VerdictStands`, `BudgetHolds`, `DebugIsSafe`, `FramesAreLines` and
`LinesAreDecided` prove `VerdictIsFinal`, `BudgetIsShared`, `DebugHidesContent`,
`FrameIsOneLine` and `LineIsDecided`, every property of the run, for any feeds. The invariant
`FeedInv` is that the buffer is a text and the verdict the parser's on it; the rest is
about `ParseResponse`. For the budget: every list of a response is `Spent` from the
budget, that is, the elements read plus what is left of the budget is at most what
there was, where a FETCH attribute weighs one plus the flags inside it (`FetchWeight`,
`Charge`), and `Elements`, the count of the property, is that charge
(`ElementsCharged`). For the lines, the constant-level theorem is `LinesAndFrames`: it
relates the parser to a reading of the bytes that is independent of it, in which a CRLF
belongs to a literal because a `{n}` stands before it (`LiteralIn`), with one exception,
`NameIn`: the parser has begun the name of a FETCH attribute and nothing that ends a name
has come since. Names begin behind `* n FETCH (` and behind each attribute read whole and
its space (`FirstIn`, `NextIn`), nowhere else, so a CRLF in a quoted or parenthesised
value is decided. Every production stays `OnLine`: every
CR it passes over is a literal's (`Free`), and when the line has ended (`LineIsIn`) it
does not ask for more. For loops this is the least counterexample again, over their turns
(`TurnsOnLine`); the loop over FETCH attributes keeps that its place is such a beginning
(`Begins`) and that its budget is one a parser can have. The FETCH attribute name is the
one production that can run over a line's end, and then `NameIn` holds, while a name that is known is a symbol and no CR. A whole
response is `Ended` by its CRLF. Assumption: `FeedAssumption`.

`ResponseUseProofs`: `ResultsAreOfTheirFrames`, `NewestListCounts` and `ErrorsAreSafe` prove the
three invariants of ResponseUse for any buffers, any number of frames and any limit of
the text. That the closure finds what the read loop found is `SameAgain`, from
`FrameStandsAlone`. `UseInv` adds to the properties that everything routed to a command
is of its class and an answer of the parser (`RoutedInv`) and what was kept of the frames
so far, frame by frame (`FetchInv`, `SearchInv`). Assumption: `UseAssumption`.

`FramingProofs`: `BytesAreConserved`, `BufferStaysBounded`, `OnlyLargeFramesAreRefused`
and `CutsNeverMatter` prove the four invariants of Framing for any streams, any ceiling
and any size of a read. `BytesInv` places the buffer in the stream: the frames, joined,
are the stream up to `Offset`, and the buffer is the stream from there up to what has
arrived. `BoundInv` adds that the loop only reads on under the ceiling. That a refused
response is too large follows from `MoreBytes`: the buffer was past the ceiling and still
Incomplete, so whatever completes it ends behind it. `CutsDoNotMatter` speaks of the verdicts on all the bytes, which change with
every read; the inductive `CutsInv` remembers instead that each frame was the verdict
on what had arrived by some earlier time (`Found`), and `FoundInAll` carries that verdict
to all the bytes by `MoreBytes`. What `FlattenSeq` computes for frames of any number
is proved by `LeastNumber`. Assumption: `FramingAssumption`.

`SaslPlainProofs!Base64RoundTrip`: for every message, `Decode(EncodeInto(m)) = m`. By
the group lemma (`GroupRoundTrip`: three bytes come back from four sextets), the shape
of the output (`EncodeShape`, `EncodedLength`) and the padding of the last group
(`QuantumDecodes`), index by index.

`SaslPlainProofs!CredentialsArrive`: `Spec => []CredentialsArriveIntact`, for names
and passwords of every length. The inductive invariant `IInv` adds to the types that
past the checks user and password are free of NUL, that the queued line is
`SaslPlainLine(user, pass)` and that this is what is on the wire once sent; the
property then follows from the round trip and from `MessageReads`: in a message of two
NUL-free parts the second NUL is the one between them.

`SaslPlainProofs!NoCopyLeft`: `Spec => []NoCopyLeftBehind`, from `LineFits`: the
rounded-up quotient that `encoded_len` computes is the number of groups `encode_into`
writes. Assumption: `TextAssumption` (names and passwords are sequences of bytes).

Only model-checked: the liveness properties (fairness is out of the prover's reach) and
the five invariants of CommandArguments, whose `ToImapString`, `ReadKeys` and `Holds` are
recursive over search keys, that is, over trees: they are RECURSIVE operators, and a module
that reaches one has no proofs.

## 5. Where code and documentation disagree

Two runs expect a violation; `PROJECT.json` quotes the lines and says what each shows.

| run | the code | the documentation |
|---|---|---|
| `abandoned_stream` | frames of a dropped stream go to the next stream with the same filter before they go to the broadcast | "Frames a dropped stream would have received are broadcast instead" (`client.rs:27`) |
| `stale_continuation` | after a timed-out `idle()` the late `+` is taken by the next | waits "for the `+` continuation request of a command" (`session.rs:557`) |

The others are kept as configurations beside the runs; TLC finds each one's only
property violated (`tlc -config <configuration> <module>`).

| configuration, module | the code | the documentation |
|---|---|---|
| `DrainRace.cfg`, `MCDispatcher` | `into_reply` can lose the frame whose send holds a permit | "the drain below is complete" (`client.rs:175`) |
| `LateStream.cfg`, `MCDispatcher` | a command registered after the read loop has ended is never failed | `next_frame` returns `None` once "the connection has failed" (`client.rs:163`) |
| `WedgedWriter.cfg`, `MCDispatcher` | the wait for room in the write queue is outside every timeout | "The whole exchange runs under [`default_timeout`]" (`client.rs:270`) |
| `UnknownLiteral.cfg`, `MCResponseFeed` | an unknown response ends at the header of its literal, the octets are parsed as responses | "Identifies `{n}\r\n` lengths to wait for complete data blocks" (`CONTEXT.md:26`) |
| `TrailingText.cfg`, `MCResponseFeed` | text behind a recognised data response is malformed and ends the connection | "anything after a recognized response that still ends in CRLF is consumed" (`parser.rs:5`) |
| `OversizedFrame.cfg`, `MCFraming` | a frame that ends in the read that crosses the ceiling is dispatched | "each frame may be up to [`MAX_FRAME_SIZE`]" (`client.rs:58`) |
| `FetchBody.cfg`, `MCResponseUse` | the structure of a `BODY` item is returned as the body | "The fetched body bytes (e.g. from `BODY[]`)" (`session.rs:78`) |
| `EmptySearch.cfg`, `MCCommandArguments` | `And` of no keys renders to nothing | "an IMAP search-key string suitable for a `SEARCH` command" (`search.rs:54`) |
| `RawLine.cfg`, `MCResponseFeed` | `Other` of a named response lacks the `* ` that a numeric one keeps | "the raw line bytes (without CRLF)" (`ast.rs:130`) |
| `ControlBytes.cfg`, `MCCommandArguments` | LOGIN sends control bytes other than CR, LF and NUL | "control bytes" are refused (`session.rs:195`) |

Where the code does this, the properties of the passing runs say how far it goes.
`FrameConservation` bounds the loss of `DrainRace.cfg` to one frame.
`FailureReachesWaiters` is about waiters registered before the failure, and the first half of
`ExecReturns` holds for the `execute_*` calls registered after it; only the receivers of
`send_command_*` are left to `LateStream.cfg`. That half holds behind a wedged write as well,
so `WedgedWriter.cfg` is about the wait for the queue alone. `IdleHandleInvited` excepts an earlier IDLE that was given up.
`FrameIsOneLine` keeps a cut from running into the next response; that it may come too
early, at the literal of an unknown response, or not at all, behind trailing text, is
`UnknownLiteral.cfg` and `TrailingText.cfg`. `LateStream.cfg` is checked under `FairSpec`,
`WedgedWriter.cfg` under `WedgedSpec`.

## 6. Not modelled

Wiping memory (only that no buffer is reallocated), `OAuthToken` (no operation uses
it), `Password`'s storage and its `Debug`, TLS itself and certificate verification,
letter case, `Capabilities::parse` on a raw string, lossy decoding in `fetch_body`,
wording of errors, a `PREAUTH` greeting (section 2, Session), what the event broadcast
drops for a receiver that lags (tokio's own accounting), the umbrella crate's re-exports, the fuzz target, benchmarks and
examples.

## 7. Plan

Every invariant of Dispatcher, StartTls, Session, ResponseFeed, Framing, SaslPlain and
ResponseUse is proved, the refinement of CommandChannel, and the framing contract of the
parser. What is left are the invariants of CommandArguments and the liveness properties.
