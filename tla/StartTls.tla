------------------------------ MODULE StartTls ------------------------------
(***************************************************************************)
(* Opening a connection: imap-tls/src/lib.rs.  Direct TLS (connect_tls) or  *)
(* a cleartext exchange that ends in an upgrade (connect_starttls), the     *)
(* TLS handshake, and finalize_session_after_handshake, which learns the    *)
(* capabilities inside the channel and makes the Session.                   *)
(*                                                                          *)
(* Cleartext is a stream of units.  A response is some units "part" closed  *)
(* by one unit that says what the response is, so that a response can be    *)
(* cut anywhere by a read and can fill the buffer.  The cleartext server    *)
(* may send anything at any time.  Inside TLS the server conforms: it sends *)
(* capabilities in its greeting or in answer to CAPABILITY.                 *)
(***************************************************************************)
EXTENDS Naturals, Sequences

CONSTANTS
  MAX_PRE_TLS_FRAME,  \* lib.rs: 64 KiB; here in units
  MaxClear,           \* cleartext units on the wire (bound)
  Entries             \* entry points used: "connect_tls", "connect_starttls"

ASSUME SizesAssumption == MAX_PRE_TLS_FRAME \in Nat \ {0} /\ MaxClear \in Nat
ASSUME EntriesAssumption == Entries \subseteq {"connect_tls", "connect_starttls"}

\* How a cleartext response closes: a capability list with or without STARTTLS,
\* the tagged status of T0001 or T0002, any other well-formed response, or bytes
\* that parse_response rejects.
Closers == {"caps_starttls", "caps_other", "ok1", "no1", "ok2", "no2", "other", "bad"}
Units == Closers \cup {"part"}

\* What the server sends inside TLS; v numbers the capability lists it has sent,
\* 0 if the frame carries none.
Frames == [kind : {"greeting", "data", "ok", "no"}, v : Nat]

VARIABLES
  entry,    \* entry point called
  pc,       \* where the caller is
  clear,    \* cleartext units sent and not read
  buf,      \* starttls_steps: units read and not consumed
  starttls, \* starttls_steps: the last capability list had STARTTLS
  stray,    \* history: cleartext followed the accepted T0002 OK
  tls,      \* frames sent inside TLS and not dispatched
  greeted,  \* the server has greeted inside TLS
  asked,    \* the server has CAPABILITY to answer
  listed,   \* capability lists sent so far
  event,    \* frames waiting in the event subscription
  caps      \* capabilities: number of the list they come from, 0 for default

vars == <<entry, pc, clear, buf, starttls, stray, tls, greeted, asked, listed,
          event, caps>>
clearVars == <<clear, buf, starttls, stray>>
tlsVars == <<tls, greeted, asked, listed, event, caps>>

Cleartext == {"greeting", "capability", "starttls"}
Inside == {"subscribe", "first", "send", "exchange"}
Ended == {"session", "failed"}

Init ==
  /\ entry \in Entries
  /\ pc = "connect"
  /\ clear = <<>> /\ buf = <<>> /\ starttls = FALSE /\ stray = FALSE
  /\ tls = <<>> /\ greeted = FALSE /\ asked = FALSE /\ listed = 0
  /\ event = <<>> /\ caps = 0

Goto(p) == pc' = p /\ UNCHANGED entry

-----------------------------------------------------------------------------
connect_tcp ==
  /\ pc = "connect"
  /\ Goto(IF entry = "connect_tls" THEN "handshake" ELSE "greeting")
  /\ UNCHANGED <<clearVars, tlsVars>>

\* An I/O error, a closed peer, or the deadline of the phase.  The cleartext
\* deadline covers the whole exchange, not one read.
fail ==
  /\ pc \in Cleartext \cup {"connect", "handshake", "exchange"}
  /\ Goto("failed")
  /\ UNCHANGED <<clearVars, tlsVars>>

\* buf holds a whole response of n units.
Complete(n) ==
  /\ n \in DOMAIN buf /\ buf[n] # "part"
  /\ \A i \in 1 .. (n - 1) : buf[i] = "part"

\* Broken: the deadline is per read, so a response in time starts it anew.
deadline_PerRead ==
  /\ \/ pc \in {"connect", "handshake", "exchange"}
     \/ pc \in Cleartext /\ clear = <<>> /\ \A n \in DOMAIN buf : ~Complete(n)
  /\ fail

\* The deadline of the phase passes: connect_timeout, pre_tls_timeout,
\* handshake_timeout, or the default_timeout of the CAPABILITY command.
deadline == fail

\* Broken: the read is not limited to the room left.
read_more_Unlimited ==
  /\ pc \in Cleartext /\ \A n \in DOMAIN buf : ~Complete(n)
  /\ Len(buf) < MAX_PRE_TLS_FRAME
  /\ \E n \in 1 .. Len(clear) :
       /\ buf' = buf \o SubSeq(clear, 1, n)
       /\ clear' = SubSeq(clear, n + 1, Len(clear))
  /\ UNCHANGED <<entry, pc, starttls, stray, tlsVars>>

\* read_one_frame: nothing whole is buffered, and there is room.
read_more ==
  /\ pc \in Cleartext /\ \A n \in DOMAIN buf : ~Complete(n)
  /\ \E n \in 1 .. Len(clear) :
       /\ Len(buf) + n <= MAX_PRE_TLS_FRAME
       /\ buf' = buf \o SubSeq(clear, 1, n)
       /\ clear' = SubSeq(clear, n + 1, Len(clear))
  /\ UNCHANGED <<entry, pc, starttls, stray, tlsVars>>

\* read_one_frame: FrameTooLarge.
frame_too_large ==
  /\ pc \in Cleartext /\ \A n \in DOMAIN buf : ~Complete(n)
  /\ Len(buf) = MAX_PRE_TLS_FRAME
  /\ Goto("failed")
  /\ UNCHANGED <<clearVars, tlsVars>>

Split(n) == buf' = SubSeq(buf, n + 1, Len(buf))

\* The greeting is read and forgotten; T0001 CAPABILITY is written.
take_greeting(n) ==
  /\ pc = "greeting" /\ Complete(n)
  /\ Split(n)
  /\ Goto(IF buf[n] = "bad" THEN "failed" ELSE "capability")
  /\ UNCHANGED <<clear, starttls, stray, tlsVars>>

\* The CAPABILITY loop: the last list counts, and the tagged OK ends it.
take_capability(n) ==
  /\ pc = "capability" /\ Complete(n)
  /\ Split(n)
  /\ starttls' = CASE buf[n] = "caps_starttls" -> TRUE
                   [] buf[n] = "caps_other"    -> FALSE
                   [] OTHER                    -> starttls
  /\ Goto(CASE buf[n] \in {"bad", "no1"} -> "failed"
            [] buf[n] = "ok1" -> IF starttls THEN "starttls" ELSE "failed"
            [] OTHER -> "capability")
  /\ UNCHANGED <<clear, stray, tlsVars>>

\* Broken: what is buffered behind the OK is not looked at.
take_starttls_NoLeftoverCheck(n) ==
  /\ pc = "starttls" /\ Complete(n)
  /\ Split(n)
  /\ stray' = (buf[n] = "ok2" /\ (buf' # <<>> \/ clear # <<>>))
  /\ Goto(CASE buf[n] \in {"bad", "no2"} -> "failed"
            [] buf[n] = "ok2" -> "handshake"
            [] OTHER -> "starttls")
  /\ UNCHANGED <<clear, starttls, tlsVars>>

\* The STARTTLS loop: nothing may be buffered behind the tagged OK.
take_starttls(n) ==
  /\ pc = "starttls" /\ Complete(n)
  /\ Split(n)
  /\ stray' = (buf[n] = "ok2" /\ (buf' # <<>> \/ clear # <<>>))
  /\ Goto(CASE buf[n] \in {"bad", "no2"} -> "failed"
            [] buf[n] = "ok2" -> IF buf' = <<>> THEN "handshake" ELSE "failed"
            [] OTHER -> "starttls")
  /\ UNCHANGED <<clear, starttls, tlsVars>>

\* rustls reads the socket from here on: cleartext where it expects a record is
\* an error, so the handshake succeeds only if there is none.
handshake ==
  /\ pc = "handshake" /\ clear = <<>>
  /\ Goto("subscribe")
  /\ UNCHANGED <<clearVars, tlsVars>>

-----------------------------------------------------------------------------
(* finalize_session_after_handshake.  The read loop runs from RawClient::new  *)
(* on: a frame dispatched before events() subscribes is seen by nobody.       *)

Capabilities(f) == IF f.v # 0 THEN caps' = f.v ELSE UNCHANGED caps

subscribe ==
  /\ pc = "subscribe"
  /\ Goto("first")
  /\ UNCHANGED <<clearVars, tlsVars>>

\* The read loop takes a frame: it goes to the subscription, or to nobody while
\* there is none or nobody reads it any more.
dispatch_event ==
  /\ pc \in {"subscribe", "first", "send"} /\ tls # <<>>
  /\ tls' = Tail(tls)
  /\ event' = IF pc = "first" THEN Append(event, Head(tls)) ELSE event
  /\ UNCHANGED <<entry, pc, clearVars, greeted, asked, listed, caps>>

\* The first event, within 250 ms: its capabilities are used if it has any.
first_event ==
  /\ pc = "first" /\ event # <<>>
  /\ event' = Tail(event)
  /\ Capabilities(Head(event))
  /\ Goto(IF Head(event).v # 0 THEN "session" ELSE "send")
  /\ UNCHANGED <<clearVars, tls, greeted, asked, listed>>

no_event ==
  /\ pc = "first"
  /\ Goto("send")
  /\ UNCHANGED <<clearVars, tlsVars>>

\* CAPABILITY is registered, then written.
send_capability ==
  /\ pc = "send"
  /\ asked' = TRUE
  /\ Goto("exchange")
  /\ UNCHANGED <<clearVars, tls, greeted, listed, event, caps>>

\* Broken: a code on the tagged OK is not read.
exchange_IgnoresCode ==
  /\ pc = "exchange" /\ tls # <<>>
  /\ tls' = Tail(tls)
  /\ IF Head(tls).kind = "ok" THEN UNCHANGED caps ELSE Capabilities(Head(tls))
  /\ Goto(CASE Head(tls).kind = "ok" -> "session"
            [] Head(tls).kind = "no" -> "failed"
            [] OTHER -> "exchange")
  /\ UNCHANGED <<clearVars, greeted, asked, listed, event>>

\* A frame of the exchange: the stream's filter takes every untagged capability
\* list, the late greeting's too; a code on the tagged OK is the latest.
exchange ==
  /\ pc = "exchange" /\ tls # <<>>
  /\ tls' = Tail(tls)
  /\ IF Head(tls).kind = "no" THEN UNCHANGED caps ELSE Capabilities(Head(tls))
  /\ Goto(CASE Head(tls).kind = "ok" -> "session"
            [] Head(tls).kind = "no" -> "failed"
            [] OTHER -> "exchange")
  /\ UNCHANGED <<clearVars, greeted, asked, listed, event>>

-----------------------------------------------------------------------------
(* The server. *)

server_clear(u) ==
  /\ entry = "connect_starttls" /\ pc \in Cleartext \cup {"handshake"}
  /\ Len(clear) < MaxClear
  /\ clear' = Append(clear, u)
  /\ stray' = (stray \/ pc = "handshake")
  /\ UNCHANGED <<entry, pc, buf, starttls, tlsVars>>

Say(f) == tls' = Append(tls, f) /\ listed' = (IF f.v # 0 THEN f.v ELSE listed)

\* Only a direct TLS server greets inside the channel, once.
server_greeting(v) ==
  /\ entry = "connect_tls" /\ pc \in Inside
  /\ ~greeted /\ greeted' = TRUE
  /\ Say([kind |-> "greeting", v |-> v])
  /\ UNCHANGED <<entry, pc, clearVars, asked, event, caps>>

\* The answer to CAPABILITY: a list, then the tagged status, with or without the
\* list in its code.
server_answer ==
  /\ asked /\ asked' = FALSE
  /\ entry = "connect_tls" => greeted
  /\ \E v \in {0, listed + 2}, k \in {"ok", "no"} :
       /\ tls' = tls \o << [kind |-> "data", v |-> listed + 1], [kind |-> k, v |-> v] >>
       /\ listed' = IF v # 0 THEN v ELSE listed + 1
  /\ UNCHANGED <<entry, pc, clearVars, greeted, event, caps>>

-----------------------------------------------------------------------------
Caller ==
  \/ connect_tcp \/ read_more \/ frame_too_large
  \/ \E n \in 1 .. MAX_PRE_TLS_FRAME :
       take_greeting(n) \/ take_capability(n) \/ take_starttls(n)
  \/ handshake \/ subscribe \/ first_event \/ no_event \/ send_capability

ReadLoop == dispatch_event \/ exchange

Server == \/ \E u \in Units : server_clear(u)
          \/ \E v \in {0, 1} : server_greeting(v)
          \/ server_answer

Next == Caller \/ ReadLoop \/ fail \/ Server

Spec == Init /\ [][Next]_vars

\* The caller's task and the read loop are scheduled and timers fire; the server
\* owes nothing.
FairSpec == Spec /\ WF_vars(Caller) /\ WF_vars(ReadLoop) /\ WF_vars(deadline)

-----------------------------------------------------------------------------
(* Properties *)

\* Types; the cleartext buffer never grows past its ceiling (lib.rs,
\* read_one_frame takes at most the room left).
TypeOK ==
  /\ entry \in Entries
  /\ pc \in {"connect", "handshake"} \cup Cleartext \cup Inside \cup Ended
  /\ clear \in Seq(Units) /\ buf \in Seq(Units) /\ Len(buf) <= MAX_PRE_TLS_FRAME
  /\ starttls \in BOOLEAN /\ stray \in BOOLEAN
  /\ tls \in Seq(Frames) /\ event \in Seq(Frames)
  /\ greeted \in BOOLEAN /\ asked \in BOOLEAN
  /\ listed \in Nat /\ caps \in Nat

\* Cleartext that follows the server's OK to STARTTLS never precedes a session,
\* whether a read took it together with the OK or left it in the socket
\* (lib.rs, "nothing may follow the OK").
CleanUpgrade == pc \in Inside \cup {"session"} => ~stray

\* The capabilities a session starts with are the newest list the server sent
\* inside TLS, however the greeting races with the subscription, the 250 ms wait
\* and the CAPABILITY command; never the default and never a cleartext one.
NewestCapabilities == pc = "session" => caps = listed /\ caps # 0

\* Opening a connection ends, even if the server trickles responses for ever
\* (lib.rs, "a server cannot keep it open by trickling untagged lines").
ConnectEnds == <>(pc \in Ended)
=============================================================================
