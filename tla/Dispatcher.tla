----------------------------- MODULE Dispatcher -----------------------------
(***************************************************************************)
(* The dispatcher of imap-client/src/client.rs: a RawClient, its callers,  *)
(* the write loop and the read loop it spawns, the Pending table the two   *)
(* loops share, the bounded channels between them, and a server that       *)
(* answers commands in the order it receives them.                         *)
(*                                                                         *)
(* A command is named by its tag, a number in Cmds.  A frame is named by   *)
(* its position in `sent', the log of everything the server wrote: wire    *)
(* order is the order of the numbers.  Frames are whole here; how the      *)
(* read loop finds their ends in the bytes it reads is another module.     *)
(*                                                                         *)
(* tokio's channels are modelled from how client.rs uses them.  The        *)
(* runtime may be the multi-threaded one, so `mpsc::Sender::send' is two   *)
(* steps: a permit is taken (refused once the receiver is closed), then    *)
(* the value is pushed.  Likewise `into_reply' closes and then drains.     *)
(***************************************************************************)
EXTENDS Naturals, Sequences, Functions

CONSTANTS
  NCmds,               \* commands issued in one run (bound)
  Classes,             \* kinds of untagged frame a FrameFilter can select
  NoClass,             \* a frame no filter selects; "no filter" of a plain command
  STREAM_CHANNEL_CAP,  \* client.rs: 32
  WRITE_CHANNEL_CAP,   \* client.rs: 32
  MaxRaw,              \* WriterHandles made in one run (bound)
  MaxSent,             \* length of the server's log (bound)
  (* what callers and the server do in this instance *)
  Modes,               \* call styles used: "exec", "async"
  Filters,             \* filters used, NoClass for plain commands
  Noise,               \* classes of the unsolicited frames
  Statuses,            \* tagged statuses sent
  Repeats,             \* commands whose tagged status may be sent again
  Ends                 \* ways the inbound stream may end

ASSUME NCmdsAssumption == NCmds \in Nat
ASSUME NoClassAssumption == NoClass \notin Classes
ASSUME CapsAssumption == /\ STREAM_CHANNEL_CAP \in Nat \ {0}
                         /\ WRITE_CHANNEL_CAP \in Nat \ {0}
ASSUME BoundsAssumption == MaxRaw \in Nat /\ MaxSent \in Nat

Cmds == 1 .. NCmds

\* What a tagged status can be.  "no" stands for NO, BAD and PREAUTH, which
\* dispatch_frame treats alike.
Status == {"ok", "no", "bye"}
\* How the inbound stream ends for the read loop: end of file or a read error,
\* a malformed frame, an incomplete frame past MAX_FRAME_SIZE.
Endings == {"eof", "bad", "huge"}

ASSUME UsesAssumption ==
  /\ Modes \subseteq {"exec", "async"}
  /\ Filters \subseteq Classes \cup {NoClass}
  /\ Noise \subseteq Classes \cup {NoClass}
  /\ Statuses \subseteq Status /\ Ends \subseteq Endings
  /\ Repeats \subseteq Cmds

Frames == [kind : Status \cup Endings \cup {"data"},
           tag  : Cmds \cup {0},              \* 0: untagged
           cls  : Classes \cup {NoClass},
           own  : Cmds \cup {0}]              \* command it answers; 0: unsolicited

Results == {"Ok", "CommandFailed", "ConnectionClosed", "Parse", "FrameTooLarge"}

\* The Result a tagged status becomes before it is handed to the caller.
result_of(status) ==
  IF status = "ok" THEN "Ok"
  ELSE IF status = "no" THEN "CommandFailed" ELSE "ConnectionClosed"

\* Broken: end of file counts as success.
EofIsOk == "Ok"

\* The ClientError every waiter gets when the read loop gives up: at the end of
\* the stream, at a frame that does not parse, at one past the ceiling.
EofError == "ConnectionClosed"
FrameError == "Parse"
CeilingError == "FrameTooLarge"

make_err(ending) ==
  CASE ending = "eof" -> EofError
    [] ending = "bad" -> FrameError
    [] OTHER -> CeilingError

VARIABLES
  (* callers and the RawClient value *)
  tag_counter,  \* next tag
  client,       \* the RawClient has not been dropped
  borrow,       \* command whose future holds `&mut RawClient', 0 if none
  mode,         \* per command: "exec" (execute_*) or "async" (send_command_*)
  wants,        \* per command: its FrameFilter, NoClass for a plain command
  pc,           \* per command: where its caller is
  outcome,      \* per command: what the caller was given
  delivered,    \* per command: frames next_frame returned, oldest first
  raw,          \* a WriterHandle: "idle" (none) or "held"
  raws,         \* WriterHandles made so far
  (* channels *)
  write_rx,     \* queue of write requests: a command, or 0 for Raw
  reply,        \* per command: value in its oneshot, "none" before it is sent
  frames,       \* per command: frames buffered in its stream
  listening,    \* per command: its stream's receiver is open
  events,       \* every frame broadcast so far, in order
  discarded,    \* per command: frames dropped unseen with its stream's receiver
  (* the Pending table *)
  replies,      \* tags with a reply sender
  collectors,   \* streaming commands in write order
  (* the two loops *)
  wpc, writing, \* write loop: "recv" | "write" | "stopped", and what it writes
  rpc,          \* read loop: "read" | "dispatch" | "push" | "stopped"
  rpos,         \* frames the read loop has taken off the wire
  route,        \* command the frame in hand is streamed to, 0 if none
  (* the server *)
  inbox,        \* commands received and not yet answered
  answered,     \* per command: position in `sent' of its tagged status, 0 before
  sent          \* everything written to the client

callerVars == <<tag_counter, client, borrow, mode, wants, pc, outcome,
                delivered, raw, raws>>
channelVars == <<write_rx, reply, frames, listening, events, discarded>>
pendingVars == <<replies, collectors>>
writerVars == <<wpc, writing>>
readerVars == <<rpc, rpos, route>>
serverVars == <<inbox, answered, sent>>
vars == <<callerVars, channelVars, pendingVars, writerVars, readerVars,
          serverVars>>

Init ==
  /\ tag_counter = 1 /\ client = TRUE /\ borrow = 0
  /\ mode = [c \in Cmds |-> "none"]
  /\ wants = [c \in Cmds |-> NoClass]
  /\ pc = [c \in Cmds |-> "new"]
  /\ outcome = [c \in Cmds |-> "none"]
  /\ delivered = [c \in Cmds |-> <<>>]
  /\ raw = "idle" /\ raws = 0
  /\ write_rx = <<>>
  /\ reply = [c \in Cmds |-> "none"]
  /\ frames = [c \in Cmds |-> <<>>]
  /\ listening = [c \in Cmds |-> FALSE]
  /\ events = <<>>
  /\ discarded = [c \in Cmds |-> {}]
  /\ replies = {} /\ collectors = <<>>
  /\ wpc = "recv" /\ writing = 0
  /\ rpc = "read" /\ rpos = 0 /\ route = 0
  /\ inbox = <<>>
  /\ answered = [c \in Cmds |-> 0]
  /\ sent = <<>>

-----------------------------------------------------------------------------
(* Callers.  "exec" is execute_command and execute_streaming: the future    *)
(* holds the client until it has a result, reads its stream to the end and  *)
(* runs under a timeout once the command is queued.  "async" is             *)
(* send_command_async and send_command_streaming: the client is free again  *)
(* once the command is queued, and what the caller does with the receivers  *)
(* is its own affair.                                                       *)

\* A command that passes reject_line_breaks takes the next tag; one that does
\* not returns InvalidArgument and changes nothing.
next_tag(c, m, w) ==
  /\ client /\ borrow = 0 /\ c = tag_counter
  /\ tag_counter' = tag_counter + 1
  /\ borrow' = c
  /\ mode' = [mode EXCEPT ![c] = m]
  /\ wants' = [wants EXCEPT ![c] = w]
  /\ pc' = [pc EXCEPT ![c] = "enqueue"]
  /\ UNCHANGED <<client, outcome, delivered, raw, raws, channelVars,
                 pendingVars, writerVars, readerVars, serverVars>>

\* The queue has room and its receiver lives: the request is in the queue.
enqueue_command(c) ==
  /\ pc[c] = "enqueue" /\ wpc # "stopped"
  /\ Len(write_rx) < WRITE_CHANNEL_CAP
  /\ write_rx' = Append(write_rx, c)
  /\ pc' = [pc EXCEPT ![c] = IF wants[c] = NoClass THEN "wait" ELSE "stream"]
  /\ listening' = [listening EXCEPT ![c] = wants[c] # NoClass]
  /\ borrow' = IF mode[c] = "exec" THEN c ELSE 0
  /\ UNCHANGED <<tag_counter, client, mode, wants, outcome, delivered, raw, raws,
                 reply, frames, events, discarded,
                 pendingVars, writerVars, readerVars, serverVars>>

\* The caller of c has its result; an execute_* future releases the client.
Finish(c, result) ==
  /\ pc' = [pc EXCEPT ![c] = "done"]
  /\ outcome' = [outcome EXCEPT ![c] = result]
  /\ borrow' = IF borrow = c THEN 0 ELSE borrow

\* The write loop has ended: sending on the queue fails.
enqueue_closed(c) ==
  /\ pc[c] = "enqueue" /\ wpc = "stopped"
  /\ Finish(c, "ConnectionClosed")
  /\ UNCHANGED <<tag_counter, client, mode, wants, delivered, raw, raws,
                 channelVars, pendingVars, writerVars, readerVars, serverVars>>

\* A sender of c's stream is alive: in a queued request, in the table, or
\* cloned into the route of the frame the read loop holds.
StreamSender(c) ==
  \/ c \in Range(write_rx)
  \/ c \in Range(collectors)
  \/ rpc \in {"dispatch", "push"} /\ route = c

next_frame(c) ==
  /\ pc[c] = "stream" /\ frames[c] # <<>>
  /\ delivered' = [delivered EXCEPT ![c] = Append(@, Head(frames[c]))]
  /\ frames' = [frames EXCEPT ![c] = Tail(@)]
  /\ UNCHANGED <<tag_counter, client, borrow, mode, wants, pc, outcome, raw, raws,
                 write_rx, reply, listening, events, discarded,
                 pendingVars, writerVars, readerVars, serverVars>>

\* next_frame would return None.
StreamEnded(c) == frames[c] = <<>> /\ ~StreamSender(c)

\* Broken: the receiver is drained without being closed first.
into_reply_LeavesOpen(c) ==
  /\ pc[c] = "stream"
  /\ mode[c] = "async" \/ StreamEnded(c)
  /\ pc' = [pc EXCEPT ![c] = "drain"]
  /\ UNCHANGED <<tag_counter, client, borrow, mode, wants, outcome, delivered,
                 raw, raws, channelVars,
                 pendingVars, writerVars, readerVars, serverVars>>

\* into_reply, first half: close the receiver.  execute_streaming calls it when
\* the stream has ended, other callers whenever they like.
into_reply(c) ==
  /\ pc[c] = "stream"
  /\ mode[c] = "async" \/ StreamEnded(c)
  /\ listening' = [listening EXCEPT ![c] = FALSE]
  /\ pc' = [pc EXCEPT ![c] = "drain"]
  /\ UNCHANGED <<tag_counter, client, borrow, mode, wants, outcome, delivered,
                 raw, raws, write_rx, reply, frames, events, discarded,
                 pendingVars, writerVars, readerVars, serverVars>>

\* into_reply, second half: broadcast what is buffered, until try_recv finds
\* nothing.
drain(c) ==
  /\ pc[c] = "drain"
  /\ IF frames[c] # <<>>
       THEN /\ events' = Append(events, Head(frames[c]))
            /\ frames' = [frames EXCEPT ![c] = Tail(@)]
            /\ pc' = pc
       ELSE /\ pc' = [pc EXCEPT ![c] = "wait"]
            /\ UNCHANGED <<events, frames>>
  /\ UNCHANGED <<tag_counter, client, borrow, mode, wants, outcome, delivered,
                 raw, raws, write_rx, reply, listening, discarded,
                 pendingVars, writerVars, readerVars, serverVars>>

await_reply(c) ==
  /\ pc[c] = "wait" /\ reply[c] # "none"
  /\ Finish(c, reply[c])
  /\ UNCHANGED <<tag_counter, client, mode, wants, delivered, raw, raws,
                 channelVars, pendingVars, writerVars, readerVars, serverVars>>

\* The oneshot's sender was dropped unsent.
ReplySenderGone(c) ==
  reply[c] = "none" /\ c \notin replies /\ c \notin Range(write_rx)

reply_closed(c) ==
  /\ pc[c] = "wait" /\ ReplySenderGone(c)
  /\ Finish(c, "ConnectionClosed")
  /\ UNCHANGED <<tag_counter, client, mode, wants, delivered, raw, raws,
                 channelVars, pendingVars, writerVars, readerVars, serverVars>>

\* Broken: the abandoned stream stays open and full.
Abandon_StreamStaysOpen(c, result) ==
  /\ Finish(c, result)
  /\ UNCHANGED <<tag_counter, client, mode, wants, delivered, raw, raws,
                 channelVars, pendingVars, writerVars, readerVars, serverVars>>

\* Broken: the abandoned command's reply sender is taken out of the table.
Abandon_Unregisters(c, result) ==
  /\ Finish(c, result)
  /\ listening' = [listening EXCEPT ![c] = FALSE]
  /\ frames' = [frames EXCEPT ![c] = <<>>]
  /\ discarded' = [discarded EXCEPT ![c] = @ \cup Range(frames[c])]
  /\ replies' = replies \ {c}
  /\ UNCHANGED <<tag_counter, client, mode, wants, delivered, raw, raws,
                 write_rx, reply, events, collectors,
                 writerVars, readerVars, serverVars>>

\* The future, and with it any receiver it owns, is dropped: the stream is
\* closed and what it buffered is gone.
Abandon(c, result) ==
  /\ Finish(c, result)
  /\ listening' = [listening EXCEPT ![c] = FALSE]
  /\ frames' = [frames EXCEPT ![c] = <<>>]
  /\ discarded' = [discarded EXCEPT ![c] = @ \cup Range(frames[c])]
  /\ UNCHANGED <<tag_counter, client, mode, wants, delivered, raw, raws,
                 write_rx, reply, events,
                 pendingVars, writerVars, readerVars, serverVars>>

\* Broken: only the wait for the tagged reply is timed, not the stream.
timeout_ReplyOnly(c) ==
  /\ mode[c] = "exec" /\ pc[c] = "wait"
  /\ Abandon(c, "Timeout")

\* tokio::time::timeout around the exchange; the wait for room in the queue is
\* outside it.
timeout(c) ==
  /\ mode[c] = "exec" /\ pc[c] \in {"stream", "wait"}
  /\ Abandon(c, "Timeout")

\* The caller drops the future or the receivers it was given.
cancel(c) ==
  /\ pc[c] \in {"enqueue", "stream", "wait"}
  /\ Abandon(c, "Dropped")

\* A clone of the queue's sender, held by one more task (an IdleHandle).
writer ==
  /\ raw = "idle" /\ raws < MaxRaw /\ client
  /\ raw' = "held" /\ raws' = raws + 1
  /\ UNCHANGED <<tag_counter, client, borrow, mode, wants, pc, outcome,
                 delivered, channelVars, pendingVars, writerVars, readerVars,
                 serverVars>>

\* WriterHandle::send_raw, after which the handle is dropped; it waits for room
\* in the queue and fails when the write loop has ended.
send_raw ==
  /\ raw = "held"
  /\ \/ /\ wpc # "stopped" /\ Len(write_rx) < WRITE_CHANNEL_CAP
        /\ write_rx' = Append(write_rx, 0)
     \/ /\ wpc = "stopped"
        /\ UNCHANGED write_rx
  /\ raw' = "idle"
  /\ UNCHANGED <<tag_counter, client, borrow, mode, wants, pc, outcome,
                 delivered, raws, reply, frames, listening, events, discarded,
                 pendingVars, writerVars, readerVars, serverVars>>

drop_client ==
  /\ client /\ borrow = 0
  /\ client' = FALSE
  /\ UNCHANGED <<tag_counter, borrow, mode, wants, pc, outcome, delivered, raw,
                 raws, channelVars, pendingVars, writerVars, readerVars,
                 serverVars>>

-----------------------------------------------------------------------------
(* The write loop. *)

\* Broken: push_front instead of push_back.
register_Front(c) ==
  /\ collectors' = IF wants[c] # NoClass THEN <<c>> \o collectors
                                         ELSE collectors
  /\ replies' = replies \cup {c}

\* The collector, then the reply sender, under the table's lock.
register(c) ==
  /\ collectors' = IF wants[c] # NoClass THEN Append(collectors, c)
                                         ELSE collectors
  /\ replies' = replies \cup {c}

write_loop_recv ==
  /\ wpc = "recv" /\ write_rx # <<>>
  /\ write_rx' = Tail(write_rx)
  /\ wpc' = "write" /\ writing' = Head(write_rx)
  /\ IF Head(write_rx) = 0 THEN UNCHANGED pendingVars
                           ELSE register(Head(write_rx))
  /\ UNCHANGED <<callerVars, reply, frames, listening, events, discarded,
                 readerVars, serverVars>>

\* The bytes are out: the server has the command.
write_all ==
  /\ wpc = "write"
  /\ wpc' = "recv"
  /\ inbox' = IF writing = 0 THEN inbox ELSE Append(inbox, writing)
  /\ UNCHANGED <<callerVars, channelVars, pendingVars, writing, readerVars,
                 answered, sent>>

\* The loop returns, dropping the queue with what is in it; the table goes with
\* the last of the two loops.
WriterStops ==
  /\ wpc' = "stopped"
  /\ write_rx' = <<>>
  /\ IF rpc = "stopped" THEN replies' = {} /\ collectors' = <<>>
                        ELSE UNCHANGED pendingVars
  /\ UNCHANGED <<callerVars, reply, frames, listening, events, discarded,
                 writing, readerVars, serverVars>>

write_error == wpc = "write" /\ WriterStops

\* Every sender of the queue is gone.
write_loop_end ==
  /\ wpc = "recv" /\ write_rx = <<>>
  /\ ~client /\ raw = "idle"
  /\ WriterStops

-----------------------------------------------------------------------------
(* The read loop. *)

\* An open collector of the table that wants frames of class k; collector_for
\* takes the first.
Accepts(i, k) == listening[collectors[i]] /\ wants[collectors[i]] = k

\* Broken: the youngest collector is preferred.
collector_for_Youngest(f) ==
  \/ \E i \in DOMAIN collectors :
       /\ Accepts(i, f.cls)
       /\ \A j \in (i + 1) .. Len(collectors) : ~Accepts(j, f.cls)
       /\ route' = collectors[i]
  \/ /\ \A i \in DOMAIN collectors : ~Accepts(i, f.cls)
     /\ route' = 0

\* The route of the untagged frame f is chosen under the lock and kept.
collector_for(f) ==
  \/ \E i \in DOMAIN collectors :
       /\ Accepts(i, f.cls)
       /\ \A j \in 1 .. (i - 1) : ~Accepts(j, f.cls)
       /\ route' = collectors[i]
  \/ /\ \A i \in DOMAIN collectors : ~Accepts(i, f.cls)
     /\ route' = 0

\* parse_response yields a frame and route_for says where it goes.
route_for ==
  /\ rpc = "read" /\ rpos < Len(sent)
  /\ LET f == sent[rpos + 1] IN
       \/ f.kind \in Status /\ route' = 0
       \/ f.kind = "data" /\ collector_for(f)
  /\ rpos' = rpos + 1
  /\ rpc' = "dispatch"
  /\ UNCHANGED <<callerVars, channelVars, pendingVars, writerVars, serverVars>>

\* `collectors' with command c's entry removed; a command has at most one.
Without(s, c) ==
  IF \E i \in DOMAIN s : s[i] = c
  THEN LET i == CHOOSE i \in DOMAIN s : s[i] = c
       IN  [j \in 1 .. (Len(s) - 1) |-> IF j < i THEN s[j] ELSE s[j + 1]]
  ELSE s

\* Broken: the stream is not ended.
complete_KeepsStream(c) ==
  /\ UNCHANGED collectors
  /\ replies' = replies \ {c}

\* Pending::complete: end c's stream and take its reply sender.
complete(c) ==
  /\ collectors' = Without(collectors, c)
  /\ replies' = replies \ {c}

\* Broken: NO, BAD and BYE are handed over as Ok.
dispatch_tagged_AlwaysOk ==
  /\ rpc = "dispatch" /\ sent[rpos].kind \in Status
  /\ LET t == sent[rpos].tag IN
       /\ complete(t)
       /\ IF t \in replies
            THEN /\ reply' = [reply EXCEPT ![t] = "Ok"]
                 /\ UNCHANGED events
            ELSE /\ events' = Append(events, rpos)
                 /\ UNCHANGED reply
  /\ rpc' = "read"
  /\ UNCHANGED <<callerVars, write_rx, frames, listening, discarded, writerVars,
                 rpos, route, serverVars>>

\* A tagged status goes to its waiter, or to the broadcast if there is none.
dispatch_tagged ==
  /\ rpc = "dispatch" /\ sent[rpos].kind \in Status
  /\ LET t == sent[rpos].tag IN
       /\ complete(t)
       /\ IF t \in replies
            THEN /\ reply' = [reply EXCEPT ![t] = result_of(sent[rpos].kind)]
                 /\ UNCHANGED events
            ELSE /\ events' = Append(events, rpos)
                 /\ UNCHANGED reply
  /\ rpc' = "read"
  /\ UNCHANGED <<callerVars, write_rx, frames, listening, discarded, writerVars,
                 rpos, route, serverVars>>

\* No stream wants the frame, or the one it was routed to has closed since.
dispatch_broadcast ==
  /\ rpc = "dispatch" /\ sent[rpos].kind = "data"
  /\ route # 0 => ~listening[route]
  /\ events' = Append(events, rpos)
  /\ rpc' = "read" /\ route' = 0
  /\ UNCHANGED <<callerVars, write_rx, reply, frames, listening, discarded,
                 pendingVars, writerVars, rpos, serverVars>>

\* Broken: an unbounded send.
dispatch_reserve_Unbounded ==
  /\ rpc = "dispatch" /\ sent[rpos].kind = "data"
  /\ route # 0 /\ listening[route]
  /\ rpc' = "push"
  /\ UNCHANGED <<callerVars, channelVars, pendingVars, writerVars, rpos, route,
                 serverVars>>

\* tx.send: the read loop waits for room in the stream, then has a permit.
dispatch_reserve ==
  /\ rpc = "dispatch" /\ sent[rpos].kind = "data"
  /\ route # 0 /\ listening[route]
  /\ Len(frames[route]) < STREAM_CHANNEL_CAP
  /\ rpc' = "push"
  /\ UNCHANGED <<callerVars, channelVars, pendingVars, writerVars, rpos, route,
                 serverVars>>

\* Broken: a streamed frame is broadcast as well.
dispatch_push_AlsoBroadcasts ==
  /\ rpc = "push"
  /\ frames' = IF pc[route] \in {"stream", "drain"}
               THEN [frames EXCEPT ![route] = Append(@, rpos)] ELSE frames
  /\ events' = Append(events, rpos)
  /\ rpc' = "read" /\ route' = 0
  /\ UNCHANGED <<callerVars, write_rx, reply, listening, discarded,
                 pendingVars, writerVars, rpos, serverVars>>

\* tx.send: the value is pushed.  The receiver may have closed meanwhile: while
\* it still drains it finds the frame, once it is gone the frame is too.
dispatch_push ==
  /\ rpc = "push"
  /\ IF pc[route] \in {"stream", "drain"}
       THEN /\ frames' = [frames EXCEPT ![route] = Append(@, rpos)]
            /\ UNCHANGED discarded
       ELSE /\ discarded' = [discarded EXCEPT ![route] = @ \cup {rpos}]
            /\ UNCHANGED frames
  /\ rpc' = "read" /\ route' = 0
  /\ UNCHANGED <<callerVars, write_rx, reply, listening, events,
                 pendingVars, writerVars, rpos, serverVars>>

\* Broken: streams are ended but waiters are left in the table.
fail_all_pending_StreamsOnly(err) ==
  /\ collectors' = <<>>
  /\ UNCHANGED <<replies, reply>>

\* End every stream and give every waiter the error.
fail_all_pending(err) ==
  /\ collectors' = <<>>
  /\ replies' = {}
  /\ reply' = [c \in Cmds |-> IF c \in replies THEN err ELSE reply[c]]

read_loop_end ==
  /\ rpc = "read" /\ rpos < Len(sent)
  /\ sent[rpos + 1].kind \in Endings
  /\ fail_all_pending(make_err(sent[rpos + 1].kind))
  /\ rpc' = "stopped" /\ rpos' = rpos + 1
  /\ UNCHANGED <<callerVars, write_rx, frames, listening, events, discarded,
                 writerVars, route, serverVars>>

-----------------------------------------------------------------------------
(* The server answers commands in the order received; each answer is any    *)
(* number of untagged frames and a tagged status.  It may also send         *)
(* unsolicited frames, repeat a tagged status, and end the connection.      *)

Online == Len(sent) < MaxSent /\ \A i \in DOMAIN sent : sent[i].kind \notin Endings

Emit(f) == Online /\ sent' = Append(sent, f)

server_data ==
  /\ inbox # <<>>
  /\ Emit([kind |-> "data", tag |-> 0, cls |-> wants[Head(inbox)],
           own |-> Head(inbox)])
  /\ UNCHANGED <<callerVars, channelVars, pendingVars, writerVars, readerVars,
                 inbox, answered>>

server_unsolicited(k) ==
  /\ Emit([kind |-> "data", tag |-> 0, cls |-> k, own |-> 0])
  /\ UNCHANGED <<callerVars, channelVars, pendingVars, writerVars, readerVars,
                 inbox, answered>>

server_status(s) ==
  /\ inbox # <<>>
  /\ Emit([kind |-> s, tag |-> Head(inbox), cls |-> NoClass, own |-> Head(inbox)])
  /\ answered' = [answered EXCEPT ![Head(inbox)] = Len(sent) + 1]
  /\ inbox' = Tail(inbox)
  /\ UNCHANGED <<callerVars, channelVars, pendingVars, writerVars, readerVars>>

server_repeats(c, s) ==
  /\ answered[c] # 0
  /\ Emit([kind |-> s, tag |-> c, cls |-> NoClass, own |-> c])
  /\ UNCHANGED <<callerVars, channelVars, pendingVars, writerVars, readerVars,
                 inbox, answered>>

server_ends(e) ==
  /\ Emit([kind |-> e, tag |-> 0, cls |-> NoClass, own |-> 0])
  /\ UNCHANGED <<callerVars, channelVars, pendingVars, writerVars, readerVars,
                 inbox, answered>>

-----------------------------------------------------------------------------
Caller(c) ==
  \/ \E m \in Modes, w \in Filters : next_tag(c, m, w)
  \/ enqueue_command(c) \/ enqueue_closed(c)
  \/ next_frame(c) \/ into_reply(c) \/ drain(c)
  \/ await_reply(c) \/ reply_closed(c)
  \/ timeout(c) \/ cancel(c)

Writer == write_loop_recv \/ write_all \/ write_error \/ write_loop_end

Reader == \/ route_for \/ dispatch_tagged \/ dispatch_broadcast
          \/ dispatch_reserve \/ dispatch_push \/ read_loop_end

Server == \/ server_data
          \/ \E k \in Noise : server_unsolicited(k)
          \/ \E s \in Statuses : server_status(s)
          \/ \E c \in Repeats, s \in Statuses : server_repeats(c, s)
          \/ \E e \in Ends : server_ends(e)

Next == \/ \E c \in Cmds : Caller(c)
        \/ writer \/ send_raw \/ drop_client
        \/ Writer \/ Reader \/ Server

Spec == Init /\ [][Next]_vars

\* The runtime polls every ready task and timers fire.  The server owes nothing, and
\* no caller is obliged to cancel, to call into_reply early, or to drop the client.
ClientFairness ==
  /\ \A c \in Cmds :
       /\ WF_vars(enqueue_command(c) \/ enqueue_closed(c))
       /\ WF_vars(next_frame(c))
       /\ WF_vars(into_reply(c) /\ StreamEnded(c))
       /\ WF_vars(drain(c))
       /\ WF_vars(await_reply(c) \/ reply_closed(c))
       /\ WF_vars(timeout(c))
  /\ WF_vars(write_loop_recv) /\ WF_vars(write_loop_end)
  /\ WF_vars(Reader)

\* The transport takes the bytes of a write or reports an error.
TransportFairness == WF_vars(write_all \/ write_error)

FairSpec == Spec /\ ClientFairness /\ TransportFairness

\* The peer may stop reading for ever: a write need never return.
WedgedSpec == Spec /\ ClientFairness

-----------------------------------------------------------------------------
(* Properties *)

CallerOK ==
  /\ tag_counter \in Nat \ {0} /\ client \in BOOLEAN /\ borrow \in Cmds \cup {0}
  /\ mode \in [Cmds -> {"none", "exec", "async"}]
  /\ wants \in [Cmds -> Classes \cup {NoClass}]
  /\ pc \in [Cmds -> {"new", "enqueue", "stream", "drain", "wait", "done"}]
  /\ outcome \in [Cmds -> Results \cup {"none", "Timeout", "Dropped"}]
  /\ delivered \in [Cmds -> Seq(Nat)]
  /\ raw \in {"idle", "held"} /\ raws \in Nat

QueueOK ==
  /\ write_rx \in Seq(Cmds \cup {0})
  /\ Len(write_rx) <= WRITE_CHANNEL_CAP

StreamOK ==
  /\ frames \in [Cmds -> Seq(Nat)]
  /\ \A c \in Cmds : Len(frames[c]) <= STREAM_CHANNEL_CAP
  /\ listening \in [Cmds -> BOOLEAN]
  /\ events \in Seq(Nat)
  /\ discarded \in [Cmds -> SUBSET Nat]

PendingOK ==
  /\ reply \in [Cmds -> Results \cup {"none"}]
  /\ replies \in SUBSET Cmds
  /\ collectors \in Seq(Cmds)

LoopsOK ==
  /\ wpc \in {"recv", "write", "stopped"} /\ writing \in Cmds \cup {0}
  /\ rpc \in {"read", "dispatch", "push", "stopped"}
  /\ rpos \in Nat /\ rpos <= Len(sent)
  /\ route \in Cmds \cup {0}

ServerOK ==
  /\ inbox \in Seq(Cmds)
  /\ answered \in [Cmds -> Nat]
  /\ sent \in Seq(Frames)

\* Every variable has its type; in particular neither bounded channel ever holds
\* more than its capacity (client.rs, STREAM_CHANNEL_CAP and WRITE_CHANNEL_CAP).
TypeOK == CallerOK /\ QueueOK /\ StreamOK /\ PendingOK /\ LoopsOK /\ ServerOK

InHand == rpc \in {"dispatch", "push"}
\* What the read loop knows of the frame in its hand: it is there, its permit is
\* still good (only this loop pushes), and a status frame names a command.
HandKnown == InHand => rpos > 0
PermitGood == rpc = "push" => route # 0 /\ Len(frames[route]) < STREAM_CHANNEL_CAP
TagsKnown == \A i \in DOMAIN sent : sent[i].kind \in Status => sent[i].tag \in Cmds
ReaderKnows == HandKnown /\ PermitGood /\ TagsKnown

\* Frames the read loop has finished with.
Dispatched == {i \in 1 .. rpos : ~(InHand /\ i = rpos)}
\* Frames that reached command c's stream.
Streamed(c) == delivered[c] \o frames[c]

\* Every untagged frame the read loop is done with is in one place.
InOnePlace ==
  \A i \in Dispatched : sent[i].kind = "data" =>
    LET streams == {c \in Cmds : i \in Range(Streamed(c))}
        lost    == {c \in Cmds : i \in discarded[c]}
        casts   == {j \in DOMAIN events : events[j] = i}
    IN  \/ \E c \in Cmds : streams = {c} /\ lost = {} /\ casts = {}
        \/ \E c \in Cmds : streams = {} /\ lost = {c} /\ casts = {}
        \/ \E j \in DOMAIN events : streams = {} /\ lost = {} /\ casts = {j}

\* A caller that has not given up loses one frame at the most, the one the read
\* loop had a permit for when into_reply closed the stream.
LosesAtMostOne ==
  \A c \in Cmds : pc[c] \in {"wait", "done"} =>
    /\ frames[c] = <<>>
    /\ outcome[c] \notin {"Timeout", "Dropped"} =>
         \A i, j \in discarded[c] : i = j

\* Every untagged frame the read loop is done with is in exactly one place: a
\* stream, the broadcast, or lost with the receiver that held it (client.rs,
\* dispatch_frame and into_reply).  Nothing is duplicated by the race between a
\* closing stream and the frame in the read loop's hand.  A frame that is sent
\* into a stream into_reply has drained is lost (IntoReplyLosesNothing is
\* violated), but never more than one: "Closing first stops new sends", so that
\* no second permit is granted, and nothing that was buffered is left behind.
FrameConservation == InOnePlace /\ LosesAtMostOne

\* A stream's frames come in wire order and all precede the command's tagged
\* reply (client.rs, next_frame and send_command_streaming).
StreamBeforeReply ==
  \A c \in Cmds :
    /\ \A i, j \in DOMAIN Streamed(c) : i < j => Streamed(c)[i] < Streamed(c)[j]
    /\ \A i \in Dispatched, j \in DOMAIN Streamed(c) :
         sent[i].kind \in Status /\ sent[i].tag = c => Streamed(c)[j] < i

\* While a caller listens, every frame the server sent in answer to its command
\* has reached its stream, whatever older or younger streams of the same class
\* there are (client.rs, collector_for picks the oldest).
OwnFramesArrive ==
  \A c \in Cmds, i \in Dispatched :
    pc[c] = "stream" /\ sent[i].kind = "data" /\ sent[i].own = c
      => i \in Range(Streamed(c))

\* A stream receives a frame that answers another command only if that command
\* is older and its stream was closed early.
ForeignFramesWereAbandoned ==
  \A c \in Cmds : \A i \in Range(Streamed(c)) :
    LET d == sent[i].own IN
      d \in {0, c} \/ (d < c /\ ~listening[d] /\ i \notin Range(Streamed(d)))

\* The first tagged status for a command finds its waiter: it is never broadcast
\* as unclaimed, however fast the server answers and whatever the caller dropped
\* (client.rs, register before write_all).
FirstReplyClaimed ==
  \A i \in DOMAIN events :
    sent[events[i]].kind \in Status =>
      \E j \in 1 .. (events[i] - 1) :
        sent[j].kind \in Status /\ sent[j].tag = sent[events[i]].tag

\* A caller is told Ok or CommandFailed only if that is what the first tagged
\* status with its tag says; repeats of a tag, dropped receivers and the failure
\* of the connection never turn one outcome into the other (client.rs,
\* dispatch_frame and fail_all_pending).
OutcomeIsAnswer ==
  \A c \in Cmds :
    outcome[c] \in {"Ok", "CommandFailed"} =>
      answered[c] # 0 /\ outcome[c] = result_of(sent[answered[c]].kind)

\* What module docs say of cancellation (client.rs, "Frames a dropped stream
\* would have received are broadcast instead").
DroppedStreamFramesBroadcast ==
  \A c \in Cmds : \A i \in Range(Streamed(c)) : sent[i].own \in {0, c}

\* What into_reply's comment says ("the drain below is complete"): frames are
\* lost only with a stream that was dropped without into_reply.
IntoReplyLosesNothing ==
  \A c \in Cmds : discarded[c] # {} => outcome[c] \in {"Timeout", "Dropped"}

\* Once its command is in the write queue an execute_* call returns whatever the
\* transport and the server do: behind a write that never returns, and with a
\* command that is registered when nobody is left to fail it (client.rs, the
\* timeout of execute_command and execute_streaming).  It returns from the start
\* if writes do; WholeExchangeTimed asks for that when they do not.
ExecReturns ==
  /\ \A c \in Cmds : (pc[c] \in {"stream", "drain", "wait"} /\ mode[c] = "exec") ~> (pc[c] = "done")
  /\ TransportFairness =>
       \A c \in Cmds : (pc[c] = "enqueue" /\ mode[c] = "exec") ~> (pc[c] = "done")

\* What execute_streaming's documentation says ("The whole exchange runs under
\* default_timeout"): it returns whatever the transport does.
WholeExchangeTimed ==
  \A c \in Cmds : (pc[c] = "enqueue" /\ mode[c] = "exec" /\ wants[c] # NoClass) ~> (pc[c] = "done")

\* Backpressure is temporary: the read loop gets rid of every frame.
ReaderResumes == (rpc = "dispatch") ~> (rpc \in {"read", "stopped"})

\* A waiter registered before the connection failed is told so or answered; one
\* registered after it is the subject of StreamEndsOnFailure.
FailureReachesWaiters ==
  \A c \in Cmds :
    (c \in replies /\ rpc # "stopped" /\ \E i \in DOMAIN sent : sent[i].kind \in Endings)
      ~> (reply[c] # "none")

\* What next_frame's documentation says: it returns None once the connection
\* has failed.
StreamEndsOnFailure ==
  \A c \in Cmds : (rpc = "stopped" /\ pc[c] = "stream") ~> (pc[c] # "stream")

-----------------------------------------------------------------------------
(* The inductive invariant behind OutcomeIsAnswer, on which the proofs about *)
(* streams and the refinement build.                                         *)

Distinct(s) == \A i, j \in DOMAIN s : s[i] = s[j] /\ s[i] # 0 => i = j

StatusFor(i, c) == sent[i].kind \in Status /\ sent[i].tag = c

\* On its way to the server a command is in one place only, and the server has
\* not answered it.
BeingWritten(c) == wpc = "write" /\ writing = c
FreshTags == \A c \in Cmds : c >= tag_counter => pc[c] = "new"
NotYetQueued ==
  \A c \in Cmds : pc[c] \in {"new", "enqueue"} =>
    /\ c \notin Range(write_rx) /\ ~BeingWritten(c) /\ c \notin Range(inbox)
    /\ answered[c] = 0 /\ c \notin Range(collectors)
QueuedOnce ==
  /\ Distinct(write_rx)
  /\ \A c \in Cmds : c \in Range(write_rx) =>
       /\ ~BeingWritten(c) /\ c \notin Range(inbox)
       /\ answered[c] = 0 /\ c \notin Range(collectors)
ReceivedOnce ==
  /\ Distinct(inbox)
  /\ \A c \in Cmds : BeingWritten(c) => answered[c] = 0 /\ c \notin Range(inbox)
  /\ \A c \in Cmds : c \in Range(inbox) => answered[c] = 0

\* `answered' is the place of the first status for a command.
AnsweredIsFirst ==
  \A c \in Cmds :
    /\ answered[c] = 0 => \A i \in DOMAIN sent : ~StatusFor(i, c)
    /\ answered[c] # 0 => /\ answered[c] \in DOMAIN sent
                          /\ StatusFor(answered[c], c)
                          /\ \A i \in 1 .. (answered[c] - 1) : ~StatusFor(i, c)

\* What is pushed to a stream is data; a command still in the table has had no
\* status dispatched.
PushesData == rpc = "push" => sent[rpos].kind = "data"
WaitersFresh ==
  /\ Distinct(collectors)
  /\ \A c \in Cmds, i \in Dispatched :
       c \in replies \/ c \in Range(collectors) => ~StatusFor(i, c)

ReplyIsAnswer ==
  \A c \in Cmds :
    reply[c] \in {"Ok", "CommandFailed"} =>
      answered[c] # 0 /\ reply[c] = result_of(sent[answered[c]].kind)

AnswerInv == /\ FreshTags /\ NotYetQueued /\ QueuedOnce /\ ReceivedOnce
             /\ AnsweredIsFirst /\ PushesData /\ WaitersFresh
             /\ ReplyIsAnswer /\ OutcomeIsAnswer

-----------------------------------------------------------------------------
(* The dispatcher implements the command channel: each command is answered  *)
(* at most once on the wire and resolved at most once, in agreement.        *)
Channel == INSTANCE CommandChannel WITH
  Places   <- 1 .. MaxSent,
  state    <- [c \in Cmds |-> IF pc[c] \in {"new", "done"} THEN pc[c] ELSE "open"],
  answer   <- [c \in Cmds |-> IF answered[c] = 0 THEN "none"
                              ELSE result_of(sent[answered[c]].kind)],
  answerAt <- answered,
  got      <- delivered

\* Every behaviour of the dispatcher is one of CommandChannel: outcomes agree
\* with the wire, and a stream delivers in wire order, nothing after the reply.
ImplementsChannel == Channel!Spec

=============================================================================
