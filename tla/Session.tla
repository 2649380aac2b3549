------------------------------ MODULE Session ------------------------------
(***************************************************************************)
(* The type-state session: imap-client/src/session.rs and idle.rs.          *)
(*                                                                          *)
(* A Session is Unauthenticated, Authenticated or Selected; a method exists *)
(* in some states only, and one that takes self by value consumes the       *)
(* session unless it returns the next one.  Here a session talks, over a    *)
(* connection that keeps order and may fail, to a server that conforms to   *)
(* RFC 3501 and RFC 2177: it may refuse anything, may end an exchange it    *)
(* has invited a line for, and answers a line in its own time, so that      *)
(* calls give up before their answer comes.                                 *)
(*                                                                          *)
(* The dispatcher is Dispatcher.tla's, reduced to what one session sees of  *)
(* it: a tagged reply goes to the waiter that holds the tag, an untagged    *)
(* frame to the call in progress if its filter takes it, else to nobody.    *)
(* Message data does not matter here and is left out.                       *)
(***************************************************************************)
EXTENDS Naturals, Sequences

CONSTANTS
  Ops,         \* methods the caller uses
  PreCaps,     \* gated extensions the server lists before authentication
  PostCaps,    \* the sets of them it may list after it
  MaxCommands  \* commands sent in a session (bound)

Gated == {"UNSELECT", "IDLE", "MOVE"}

AnyStateOps == {"CAPABILITY", "NOOP", "LOGOUT"}
UnauthenticatedOps == {"LOGIN", "AUTHENTICATE"}
AuthenticatedOps == {"SELECT", "EXAMINE", "LIST"}
SelectedOps == {"FETCH", "SEARCH", "STORE", "EXPUNGE", "CLOSE", "UNSELECT", "CHECK",
                "IDLE", "MOVE"}
AllOps == AnyStateOps \cup UnauthenticatedOps \cup AuthenticatedOps \cup SelectedOps

ASSUME OpsAssumption == Ops \subseteq AllOps
ASSUME CapsAssumption == PreCaps \subseteq Gated /\ PostCaps \subseteq SUBSET Gated
ASSUME BoundAssumption == MaxCommands \in Nat

VARIABLES
  st,        \* the state the session's type says, or "gone"
  transport, \* "PlainText" or "Tls"
  caps,      \* Session::capabilities: which list they come from
  call,      \* the method in progress
  handle,    \* the IdleHandle: its tag (0: none) and whether stop() waits
  hreply,    \* its reply channel
  tag,       \* commands sent so far; the last one's tag
  lines,     \* sent and not received by the server
  frames,    \* sent and not dispatched by the client
  up,        \* the connection stands
  server,    \* the server's state
  invited,   \* history: tags the server has sent "+" for
  asking,    \* the server's command in progress that awaits a line, 0 for none
  offer,     \* gated extensions the server lists after authentication
  givenUp    \* history: IDLE commands given up before their "+"

sessionVars == <<st, transport, caps, call, handle, hreply, tag, givenUp>>
serverVars == <<server, invited, asking, offer>>
vars == <<sessionVars, lines, frames, up, serverVars>>

States == {"Unauthenticated", "Authenticated", "Selected"}
Phases == {"pre", "post"}      \* lists sent before and after authentication
NoReply == [status |-> "none", code |-> "none"]
Closed == [status |-> "closed", code |-> "none"]
NoCall == [op |-> "none", stage |-> "none", tag |-> 0, inbox |-> <<>>, reply |-> NoReply]
NoHandle == [tag |-> 0, stopping |-> FALSE]

\* A session as Session::new and new_tls document it: "fresh, unauthenticated".
\* imap-tls builds one whatever the greeting says; a server that opens with
\* PREAUTH is not among these states.
Init ==
  /\ st = "Unauthenticated" /\ transport \in {"PlainText", "Tls"}
  /\ caps \in {"default", "pre"}
  /\ call = NoCall /\ handle = NoHandle /\ hreply = NoReply
  /\ tag = 0 /\ lines = <<>> /\ frames = <<>> /\ up = TRUE
  /\ server = "Unauthenticated" /\ invited = {} /\ asking = 0
  /\ offer \in PostCaps /\ givenUp = {}

Listed(c) == CASE c = "pre" -> PreCaps
               [] c = "post" -> offer
               [] OTHER -> {}

-----------------------------------------------------------------------------
(* Calling a method. *)

\* Which methods a session of this type has.
callable(op) ==
  /\ st \in States
  /\ op \in UnauthenticatedOps => st = "Unauthenticated" /\ transport = "Tls"
  /\ op \in AuthenticatedOps => st = "Authenticated"
  /\ op \in SelectedOps => st = "Selected"

\* Methods that take self by value.
by_value(op) == op \in UnauthenticatedOps \cup {"LOGOUT", "SELECT", "EXAMINE", "CLOSE", "UNSELECT"}

\* What becomes of the session when a method returns an error.
after_error(op) == IF by_value(op) THEN "gone" ELSE st

\* transition_state: what it becomes when the method succeeds.
transition_state(op) ==
  CASE op \in UnauthenticatedOps \cup {"CLOSE", "UNSELECT"} -> "Authenticated"
    [] op \in {"SELECT", "EXAMINE"} -> "Selected"
    [] op = "LOGOUT" -> "gone"
    [] OTHER -> st

\* The command goes out and the call waits for it at `stage`.
Send(op, stage) ==
  /\ tag < MaxCommands /\ tag' = tag + 1
  /\ lines' = IF up THEN Append(lines, [kind |-> "command", op |-> op, tag |-> tag + 1])
                    ELSE lines
  /\ call' = [op |-> op, stage |-> stage, tag |-> tag + 1, inbox |-> <<>>, reply |-> NoReply]

\* Broken: UNSELECT is sent whatever the server has listed.
supported_SkipsUnselect(op) == op \in Gated \ {"UNSELECT"} => op \in Listed(caps)

\* UNSELECT, IDLE and MOVE need their capability.
supported(op) == op \in Gated => op \in Listed(caps)

\* The method gets past its checks and sends its command.
start(op) ==
  /\ call = NoCall /\ callable(op) /\ supported(op)
  /\ Send(op, CASE op \in {"IDLE", "AUTHENTICATE"} -> "continuation" [] OTHER -> "reply")
  /\ UNCHANGED <<st, transport, caps, handle, hreply, frames, up, serverVars, givenUp>>

\* It returns before it sends anything: an argument that cannot go on the wire,
\* or a capability the server has not listed.
reject(op) ==
  /\ call = NoCall /\ callable(op)
  /\ \/ ~supported(op)
     \/ op \in AllOps \ (AnyStateOps \cup {"EXPUNGE", "CLOSE", "UNSELECT", "CHECK", "IDLE"})
  /\ st' = after_error(op)
  /\ UNCHANGED <<transport, caps, call, handle, hreply, tag, lines, frames, up, serverVars,
                 givenUp>>

-----------------------------------------------------------------------------
(* The call in progress. *)

Return(s) == st' = s /\ call' = NoCall

\* refresh_capabilities: a list the stream delivers is used at once.
next_capabilities ==
  /\ call.op = "CAPABILITY" \/ call.stage = "refresh"
  /\ call.inbox # <<>>
  /\ caps' = Head(call.inbox)
  /\ call' = [call EXCEPT !.inbox = Tail(@)]
  /\ UNCHANGED <<st, transport, handle, hreply, tag, lines, frames, up, serverVars, givenUp>>

\* Broken: the error of the reply is dropped.
reply_IgnoresError ==
  /\ call.stage = "reply" /\ call.reply # NoReply /\ call.inbox = <<>>
  /\ call.op # "LOGIN"
  /\ Return(transition_state(call.op))
  /\ UNCHANGED <<transport, caps, handle, hreply, tag, lines, frames, up, serverVars, givenUp>>

\* The tagged reply of a plain command.  logout takes a closed connection for
\* success; the session is gone either way.
reply ==
  /\ call.stage = "reply" /\ call.reply # NoReply /\ call.inbox = <<>>
  /\ call.op # "LOGIN" \/ call.reply.status # "ok"
  /\ Return(IF call.reply.status = "ok" THEN transition_state(call.op) ELSE after_error(call.op))
  /\ UNCHANGED <<transport, caps, handle, hreply, tag, lines, frames, up, serverVars, givenUp>>

\* Broken: authentication keeps the capabilities of before.
refresh_capabilities_from_frame_Skipped ==
  /\ \/ call.op = "LOGIN" /\ call.stage = "reply"
     \/ call.op = "AUTHENTICATE" /\ call.stage = "secret"
  /\ call.reply.status = "ok"
  /\ Return("Authenticated")
  /\ UNCHANGED <<transport, caps, handle, hreply, tag, lines, frames, up, serverVars, givenUp>>

\* login and authenticate_plain, once accepted: use the list in the reply's code,
\* or ask for one.
refresh_capabilities_from_frame ==
  /\ \/ call.op = "LOGIN" /\ call.stage = "reply"
     \/ call.op = "AUTHENTICATE" /\ call.stage = "secret"
  /\ call.reply.status = "ok"
  /\ IF call.reply.code # "none"
     THEN /\ caps' = call.reply.code
          /\ Return("Authenticated")
          /\ UNCHANGED <<tag, lines>>
     ELSE /\ tag < MaxCommands /\ tag' = tag + 1
          /\ lines' = IF up THEN Append(lines, [kind |-> "command", op |-> "CAPABILITY",
                                                tag |-> tag + 1])
                            ELSE lines
          /\ call' = [call EXCEPT !.stage = "refresh", !.tag = tag + 1, !.reply = NoReply]
          /\ UNCHANGED <<st, caps>>
  /\ UNCHANGED <<transport, handle, hreply, frames, up, serverVars, givenUp>>

\* The CAPABILITY command behind an authentication ends.  If it fails the session
\* is lost, though the server has accepted the credentials.
refreshed ==
  /\ call.stage = "refresh" /\ call.reply # NoReply /\ call.inbox = <<>>
  /\ Return(IF call.reply.status = "ok" THEN "Authenticated" ELSE "gone")
  /\ UNCHANGED <<transport, caps, handle, hreply, tag, lines, frames, up, serverVars, givenUp>>

\* Broken: a stream that ends is taken for a continuation.
await_continuation_TakesEnd ==
  /\ call.stage = "continuation" /\ (call.inbox # <<>> \/ call.reply # NoReply)
  /\ IF call.op = "IDLE"
     THEN /\ handle' = [NoHandle EXCEPT !.tag = call.tag] /\ hreply' = call.reply
          /\ Return(st) /\ UNCHANGED lines
     ELSE /\ lines' = IF up THEN Append(lines, [kind |-> "secret", op |-> "AUTHENTICATE",
                                                tag |-> call.tag])
                            ELSE lines
          /\ call' = [call EXCEPT !.stage = "secret", !.inbox = <<>>]
          /\ UNCHANGED <<st, handle, hreply>>
  /\ UNCHANGED <<transport, caps, tag, frames, up, serverVars, givenUp>>

\* The "+" is there: idle() returns its handle with the reply channel, and
\* authenticate_plain sends the credentials and waits on.  A handle still held
\* from an earlier idle() may be there; it is dropped for the new one.
await_continuation ==
  /\ call.stage = "continuation" /\ call.inbox # <<>>
  /\ IF call.op = "IDLE"
     THEN /\ handle' = [NoHandle EXCEPT !.tag = call.tag] /\ hreply' = call.reply
          /\ Return(st) /\ UNCHANGED lines
     ELSE /\ lines' = IF up THEN Append(lines, [kind |-> "secret", op |-> "AUTHENTICATE",
                                                tag |-> call.tag])
                            ELSE lines
          /\ call' = [call EXCEPT !.stage = "secret", !.inbox = <<>>]
          /\ UNCHANGED <<st, handle, hreply>>
  /\ UNCHANGED <<transport, caps, tag, frames, up, serverVars, givenUp>>

\* The command ends without "+": an error, even if the server said OK.
no_continuation ==
  /\ call.stage = "continuation" /\ call.inbox = <<>> /\ call.reply # NoReply
  /\ Return(after_error(call.op))
  /\ UNCHANGED <<transport, caps, handle, hreply, tag, lines, frames, up, serverVars, givenUp>>

\* The reply to the credentials is an error.
secret_refused ==
  /\ call.stage = "secret" /\ call.reply.status \notin {"none", "ok"}
  /\ Return("gone")
  /\ UNCHANGED <<transport, caps, handle, hreply, tag, lines, frames, up, serverVars, givenUp>>

\* default_timeout passes, or the caller drops the future.  Nobody waits for the
\* command any more; by value, the session goes with it.
give_up ==
  /\ call # NoCall
  /\ Return(after_error(call.op))
  /\ givenUp' = IF call.op = "IDLE" THEN givenUp \cup {call.tag} ELSE givenUp
  /\ UNCHANGED <<transport, caps, handle, hreply, tag, lines, frames, up, serverVars>>

\* The caller drops the session, which ends the connection once no handle is left
\* (see fail).
drop_session ==
  /\ call = NoCall /\ st \in States
  /\ st' = "gone"
  /\ UNCHANGED <<transport, caps, call, handle, hreply, tag, lines, frames, up, serverVars,
                 givenUp>>

\* IdleHandle::stop: DONE, then the reply.
stop ==
  /\ handle.tag # 0 /\ ~handle.stopping
  /\ handle' = [handle EXCEPT !.stopping = TRUE]
  /\ lines' = IF up THEN Append(lines, [kind |-> "done", op |-> "IDLE", tag |-> handle.tag])
                    ELSE lines
  /\ UNCHANGED <<st, transport, caps, call, hreply, tag, frames, up, serverVars, givenUp>>

\* stop() returns with the reply, or done_timeout passes, or the handle is dropped.
stopped ==
  /\ handle.tag # 0
  /\ handle' = NoHandle /\ hreply' = NoReply
  /\ UNCHANGED <<st, transport, caps, call, tag, lines, frames, up, serverVars, givenUp>>

-----------------------------------------------------------------------------
(* The dispatcher, as one session sees it. *)

\* Broken: the stream takes every untagged frame.
takes_Anything(f) == call # NoCall

\* What the stream of the call in progress takes.
takes(f) ==
  \/ f.kind = "+" /\ call.stage = "continuation"
  \/ f.kind = "list" /\ (call.op = "CAPABILITY" \/ call.stage = "refresh")

dispatch ==
  /\ frames # <<>>
  /\ frames' = Tail(frames)
  /\ LET f == Head(frames)
         r == [status |-> f.status, code |-> f.code] IN
       /\ call' = CASE f.kind = "tagged" /\ call.tag = f.tag /\ call.reply = NoReply ->
                         [call EXCEPT !.reply = r]
                    [] f.kind # "tagged" /\ call.reply = NoReply /\ takes(f) ->
                         [call EXCEPT !.inbox =
                            Append(@, IF f.kind = "+" THEN "+" ELSE f.code)]
                    [] OTHER -> call
       /\ hreply' = IF f.kind = "tagged" /\ handle.tag = f.tag THEN r ELSE hreply
  /\ UNCHANGED <<st, transport, caps, handle, tag, lines, up, serverVars, givenUp>>

\* The connection fails and every waiter is told.
fail ==
  /\ up /\ up' = FALSE
  /\ lines' = <<>> /\ frames' = <<>>
  /\ call' = IF call # NoCall /\ call.reply = NoReply THEN [call EXCEPT !.reply = Closed] ELSE call
  /\ hreply' = IF handle.tag # 0 /\ hreply = NoReply THEN Closed ELSE hreply
  /\ UNCHANGED <<st, transport, caps, handle, tag, serverVars, givenUp>>

-----------------------------------------------------------------------------
(* The server, conforming. *)

Tagged(t, s, c) == [kind |-> "tagged", tag |-> t, status |-> s, code |-> c]
List(c) == [kind |-> "list", tag |-> 0, status |-> "none", code |-> c]
Invite == [kind |-> "+", tag |-> 0, status |-> "none", code |-> "none"]

Permitted(op) ==
  CASE op \in AnyStateOps -> TRUE
    [] op \in UnauthenticatedOps -> server = "Unauthenticated"
    [] op \in AuthenticatedOps -> server \in {"Authenticated", "Selected"}
    [] OTHER -> server = "Selected"

\* A command it may take: right for its state, and of an extension it lists.
Legal(op) == Permitted(op) /\ (op \in Gated => op \in offer)

Phase == IF server = "Unauthenticated" THEN "pre" ELSE "post"

Receive == up /\ lines # <<>> /\ lines' = Tail(lines)

\* A refused SELECT leaves no mailbox selected.
server_refuses ==
  /\ Receive /\ asking = 0 /\ Head(lines).kind = "command"
  /\ frames' = Append(frames, Tagged(Head(lines).tag, "no", "none"))
  /\ server' = IF Head(lines).op \in {"SELECT", "EXAMINE"} /\ server = "Selected"
               THEN "Authenticated" ELSE server
  /\ UNCHANGED <<sessionVars, up, invited, asking, offer>>

server_accepts ==
  /\ Receive /\ asking = 0 /\ Head(lines).kind = "command"
  /\ LET op == Head(lines).op
         t == Head(lines).tag IN
       /\ Legal(op)
       /\ IF op \in {"IDLE", "AUTHENTICATE"}
          THEN /\ asking' = t /\ invited' = invited \cup {t}
               /\ frames' = Append(frames, Invite)
               /\ UNCHANGED server
          ELSE /\ \E c \in IF op = "LOGIN" THEN {"none", "post"} ELSE {"none"} :
                    frames' = (IF op = "CAPABILITY" THEN Append(frames, List(Phase)) ELSE frames)
                                \o <<Tagged(t, "ok", c)>>
               /\ server' = CASE op \in {"LOGIN", "CLOSE", "UNSELECT"} -> "Authenticated"
                              [] op \in {"SELECT", "EXAMINE"} -> "Selected"
                              [] OTHER -> server
               /\ UNCHANGED <<asking, invited>>
  /\ UNCHANGED <<sessionVars, up, offer>>

\* The line it asked for, or another in its place, which ends the command with BAD
\* and is lost.
server_line ==
  /\ Receive /\ asking # 0
  /\ asking' = 0
  /\ \/ /\ Head(lines).kind = "done" /\ server = "Selected"
        /\ frames' = Append(frames, Tagged(asking, "ok", "none"))
        /\ UNCHANGED server
     \/ /\ Head(lines).kind = "secret" /\ server = "Unauthenticated"
        /\ \E c \in {"none", "post"} : frames' = Append(frames, Tagged(asking, "ok", c))
        /\ server' = "Authenticated"
     \/ /\ Head(lines).kind # "done"
        /\ frames' = Append(frames, Tagged(asking, "no", "none"))
        /\ UNCHANGED server
  /\ UNCHANGED <<sessionVars, up, invited, offer>>

\* A line nobody asked for.
server_ignores ==
  /\ Receive /\ asking = 0 /\ Head(lines).kind # "command"
  /\ UNCHANGED <<sessionVars, frames, up, serverVars>>

\* The server ends what it has asked a line for.
server_ends ==
  /\ up /\ asking # 0 /\ asking' = 0
  /\ frames' = Append(frames, Tagged(asking, "no", "none"))
  /\ UNCHANGED <<sessionVars, lines, up, server, invited, offer>>

-----------------------------------------------------------------------------
Caller ==
  \/ \E op \in Ops : start(op) \/ reject(op)
  \/ next_capabilities \/ reply \/ refresh_capabilities_from_frame \/ refreshed
  \/ await_continuation \/ no_continuation \/ secret_refused \/ give_up
  \/ drop_session \/ stop \/ stopped

Server == server_refuses \/ server_accepts \/ server_line \/ server_ignores \/ server_ends

Next == Caller \/ dispatch \/ fail \/ Server

Spec == Init /\ [][Next]_vars

-----------------------------------------------------------------------------
(* Properties *)

Lines == [kind : {"command", "secret", "done"}, op : AllOps, tag : 1 .. MaxCommands]
FrameSet == [kind : {"tagged", "list", "+"}, tag : 0 .. MaxCommands,
             status : {"none", "ok", "no"}, code : {"none"} \cup Phases]
Replies == [status : {"none", "ok", "no", "closed"}, code : {"none"} \cup Phases]

\* Types; what waits in a call's stream is what its filter selects.
TypeOK ==
  /\ st \in States \cup {"gone"} /\ transport \in {"PlainText", "Tls"}
  /\ caps \in {"default"} \cup Phases
  /\ call.op \in AllOps \cup {"none"} /\ call.tag \in 0 .. tag /\ call.reply \in Replies
  /\ call.stage \in {"none", "reply", "refresh", "continuation", "secret"}
  /\ call.inbox \in Seq(IF call.stage = "continuation" THEN {"+"} ELSE Phases)
  /\ handle \in [tag : 0 .. tag, stopping : BOOLEAN] /\ hreply \in Replies
  /\ tag \in 0 .. MaxCommands
  /\ lines \in Seq(Lines) /\ frames \in Seq(FrameSet) /\ up \in BOOLEAN
  /\ server \in States /\ invited \subseteq 1 .. tag /\ asking \in 0 .. tag
  /\ offer \in PostCaps /\ givenUp \subseteq 1 .. tag

\* Between calls the server is in the state the session's type claims, whatever
\* was refused, timed out, was cancelled or failed on the way (session.rs: methods
\* that change the state take self and return the new session only on OK).  Init
\* assumes that the connection began unauthenticated; after a PREAUTH greeting,
\* which imap-tls does not look at, the two would differ from the start.
StatesAgree == call = NoCall /\ st \in States => server = st

\* The server never receives a command it may not take in its state or for want
\* of an advertised extension (session.rs: type-state, capability checks).  Of
\* commands that arrive while the server idles it says nothing: the handle idle()
\* returns does not borrow the session, so the caller may send one before stop().
LegalCommands ==
  asking = 0 /\ lines # <<>> /\ Head(lines).kind = "command" => Legal(Head(lines).op)

\* An authenticated session's capabilities were listed after the authentication,
\* even if an answer to an earlier CAPABILITY comes late
\* (session.rs, refresh_capabilities_from_frame).
CapabilitiesOfThisPhase == st \in {"Authenticated", "Selected"} => caps = "post"

\* The credentials of AUTHENTICATE PLAIN are sent only once the server has asked
\* for them (session.rs, await_continuation).
CredentialsInvited ==
  \A i \in DOMAIN lines : lines[i].kind = "secret" => lines[i].tag \in invited

\* A handle that idle() returns stands for an IDLE the server has accepted, except
\* behind an earlier IDLE that was given up before its "+" came.
IdleHandleInvited ==
  handle.tag # 0 /\ handle.tag \notin invited => \E t \in givenUp : t < handle.tag

\* The same without the exception: await_continuation waits for the "+" "of a
\* command sent with an is_continuation stream" (session.rs, await_continuation).
ContinuationIsOwn == handle.tag # 0 => handle.tag \in invited
=============================================================================
