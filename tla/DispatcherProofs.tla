-------------------------- MODULE DispatcherProofs --------------------------
(***************************************************************************)
(* Proofs about Dispatcher, for any number of commands, any classes, any   *)
(* capacities and any length of the server's log: types, the outcomes that *)
(* callers are given, the order of streams and the refinement of           *)
(* CommandChannel, and where untagged frames go.                           *)
(***************************************************************************)
EXTENDS Dispatcher, SequenceTheorems, TLAPS

USE DEF Cmds

\* What a status or an ending becomes is a Result.
LEMMA ResultTypes ==
  /\ \A s \in Status : result_of(s) \in Results
  /\ \A e \in Endings : make_err(e) \in Results
  BY DEF Status, Endings, Results, result_of, make_err, EofError, FrameError, CeilingError

\* Removing a command from the collectors leaves a sequence of commands.
LEMMA WithoutType ==
  ASSUME NEW s \in Seq(Cmds), NEW c
  PROVE  Without(s, c) \in Seq(Cmds)
<1>1. CASE ~ \E i \in DOMAIN s : s[i] = c
  BY <1>1 DEF Without
<1>2. CASE \E i \in DOMAIN s : s[i] = c
  <2> DEFINE k == CHOOSE i \in DOMAIN s : s[i] = c
             w == [j \in 1 .. (Len(s) - 1) |-> IF j < k THEN s[j] ELSE s[j + 1]]
  <2>1. k \in DOMAIN s /\ s[k] = c
    BY <1>2
  <2>2. Len(s) \in Nat /\ DOMAIN s = 1 .. Len(s) /\ \A j \in 1 .. Len(s) : s[j] \in Cmds
    BY LenProperties, ElementOfSeq
  <2>3. Len(s) - 1 \in Nat
    BY <2>1, <2>2
  <2>4. \A j \in 1 .. (Len(s) - 1) : w[j] \in Cmds
    BY <2>1, <2>2
  <2>5. w \in [1 .. (Len(s) - 1) -> Cmds]
    BY <2>4
  <2>6. w \in Seq(Cmds)
    BY <2>3, <2>5, IsASeq
  <2> QED BY <1>2, <2>6 DEF Without
<1> QED BY <1>1, <1>2

\* Taking the oldest element of a channel.
LEMMA TakeOldest ==
  ASSUME NEW s \in Seq(Nat), s # <<>>
  PROVE  /\ Head(s) \in Nat /\ Tail(s) \in Seq(Nat)
         /\ Len(s) > 0 /\ Len(Tail(s)) = Len(s) - 1 /\ Len(Tail(s)) <= Len(s)
<1>1. Len(s) \in Nat /\ Len(s) > 0
  BY LenProperties, EmptySeq
<1>2. Head(s) \in Nat /\ Tail(s) \in Seq(Nat) /\ Len(Tail(s)) = Len(s) - 1
  BY HeadTailProperties
<1> QED BY <1>1, <1>2

-----------------------------------------------------------------------------
(* Types.  TypeOK is inductive together with what the read loop knows of   *)
(* the frame in its hand.                                                   *)

TypeInv == TypeOK /\ ReaderKnows

\* The initial state has its types.
LEMMA TypeInit == Init => TypeInv
  BY NCmdsAssumption, CapsAssumption
     DEF Init, TypeInv, TypeOK, CallerOK, QueueOK, StreamOK, PendingOK, LoopsOK,
         ServerOK, ReaderKnows, HandKnown, PermitGood, TagsKnown, InHand

\* No step but a caller's touches the callers' state.
LEMMA CallersAlone ==
  Writer \/ Reader \/ Server \/ UNCHANGED vars => UNCHANGED callerVars
  BY DEF Writer, Reader, Server, vars, write_loop_recv, write_all, write_error,
         write_loop_end, WriterStops, route_for, dispatch_tagged,
         dispatch_broadcast, dispatch_reserve, dispatch_push, read_loop_end,
         server_data, server_unsolicited, server_status, server_repeats,
         server_ends

LEMMA CallerNext == TypeInv /\ [Next]_vars => CallerOK'
<1> SUFFICES ASSUME TypeInv, [Next]_vars PROVE CallerOK'
  OBVIOUS
<1> USE DEF TypeInv, TypeOK, CallerOK
<1>1. ASSUME NEW c \in Cmds, NEW m \in Modes, NEW w \in Filters, next_tag(c, m, w)
      PROVE  CallerOK'
  BY <1>1, UsesAssumption, NCmdsAssumption DEF next_tag
<1>2. ASSUME NEW c \in Cmds, enqueue_command(c) PROVE CallerOK'
  BY <1>2 DEF enqueue_command
<1>3. ASSUME NEW c \in Cmds, enqueue_closed(c) \/ reply_closed(c) PROVE CallerOK'
  BY <1>3 DEF enqueue_closed, reply_closed, Finish, Results
<1>4. ASSUME NEW c \in Cmds, next_frame(c) PROVE CallerOK'
  <2>1. Head(frames[c]) \in Nat
    BY <1>4, HeadTailProperties DEF next_frame, StreamOK
  <2>2. Append(delivered[c], Head(frames[c])) \in Seq(Nat)
    BY <2>1, AppendProperties
  <2> QED BY <1>4, <2>2 DEF next_frame
<1>5. ASSUME NEW c \in Cmds, into_reply(c) PROVE CallerOK'
  BY <1>5 DEF into_reply
<1>6. ASSUME NEW c \in Cmds, drain(c) PROVE CallerOK'
  BY <1>6 DEF drain
<1>7. ASSUME NEW c \in Cmds, await_reply(c) PROVE CallerOK'
  BY <1>7 DEF await_reply, Finish, PendingOK
<1>8. ASSUME NEW c \in Cmds, timeout(c) \/ cancel(c) PROVE CallerOK'
  BY <1>8 DEF timeout, cancel, Abandon, Finish
<1>9. CASE writer \/ send_raw
  BY <1>9 DEF writer, send_raw
<1>11. CASE drop_client
  BY <1>11 DEF drop_client
<1>10. CASE UNCHANGED callerVars
  BY <1>10 DEF callerVars
<1> QED
  BY <1>1, <1>2, <1>3, <1>4, <1>5, <1>6, <1>7, <1>8, <1>9, <1>10, <1>11,
     CallersAlone
     DEF Next, Caller

LEMMA QueueNext == TypeInv /\ [Next]_vars => QueueOK'
<1> SUFFICES ASSUME TypeInv, [Next]_vars PROVE QueueOK'
  OBVIOUS
<1> USE CapsAssumption DEF TypeInv, TypeOK, QueueOK
<1>1. ASSUME NEW c \in Cmds, enqueue_command(c) PROVE QueueOK'
  BY <1>1, AppendProperties DEF enqueue_command
<1>2. CASE send_raw
  BY <1>2, AppendProperties DEF send_raw
<1>3. CASE write_loop_recv
  BY <1>3, HeadTailProperties DEF write_loop_recv
<1>4. CASE WriterStops
  BY <1>4 DEF WriterStops
<1>5. CASE UNCHANGED write_rx
  BY <1>5
<1>6. ASSUME NEW c \in Cmds, Caller(c), ~enqueue_command(c)
      PROVE  UNCHANGED write_rx
  BY <1>6 DEF Caller, next_tag, enqueue_closed, next_frame, into_reply, drain,
     await_reply, reply_closed, timeout, cancel, Abandon, channelVars
<1>7. writer \/ drop_client \/ write_all \/ Reader \/ Server \/ UNCHANGED vars
        => UNCHANGED write_rx
  BY DEF writer, drop_client, write_all, Reader, Server, route_for,
     dispatch_tagged, dispatch_broadcast, dispatch_reserve, dispatch_push,
     read_loop_end, server_data, server_unsolicited, server_status,
     server_repeats, server_ends, vars, channelVars
<1> QED
  BY <1>1, <1>2, <1>3, <1>4, <1>5, <1>6, <1>7
     DEF Next, Writer, write_error, write_loop_end

LEMMA PendingNext == TypeInv /\ [Next]_vars => PendingOK'
<1> SUFFICES ASSUME TypeInv, [Next]_vars PROVE PendingOK'
  OBVIOUS
<1> USE DEF TypeInv, TypeOK, PendingOK
<1>1. CASE write_loop_recv
  <2>1. Head(write_rx) \in Cmds \cup {0}
    BY <1>1, HeadTailProperties DEF write_loop_recv, QueueOK
  <2>2. UNCHANGED reply
    BY <1>1 DEF write_loop_recv
  <2>3. CASE Head(write_rx) = 0
    BY <1>1, <2>2, <2>3 DEF write_loop_recv, pendingVars
  <2>4. CASE Head(write_rx) # 0
    <3>1. Append(collectors, Head(write_rx)) \in Seq(Cmds)
      BY <2>1, <2>4, AppendProperties
    <3>2. register(Head(write_rx))
      BY <1>1, <2>4 DEF write_loop_recv
    <3>3. collectors' \in Seq(Cmds) /\ replies' \in SUBSET Cmds
      BY <2>1, <2>4, <3>1, <3>2 DEF register
    <3> QED BY <2>2, <3>3
  <2> QED BY <2>3, <2>4
<1>2. CASE WriterStops
  <2>1. UNCHANGED reply
    BY <1>2 DEF WriterStops
  <2>2. CASE rpc = "stopped"
    <3>1. replies' = {} /\ collectors' = <<>>
      BY <1>2, <2>2 DEF WriterStops
    <3> QED BY <2>1, <3>1
  <2>3. CASE rpc # "stopped"
    BY <1>2, <2>1, <2>3 DEF WriterStops, pendingVars
  <2> QED BY <2>2, <2>3
<1>3. CASE dispatch_tagged
  <2>1. sent[rpos].tag \in Cmds
    BY <1>3, ElementOfSeq
       DEF dispatch_tagged, ReaderKnows, HandKnown, TagsKnown, InHand, LoopsOK, ServerOK
  <2>2. Without(collectors, sent[rpos].tag) \in Seq(Cmds)
    BY WithoutType
  <2>3. result_of(sent[rpos].kind) \in Results
    BY <1>3, ResultTypes DEF dispatch_tagged
  <2> QED BY <1>3, <2>1, <2>2, <2>3 DEF dispatch_tagged, complete
<1>4. CASE read_loop_end
  BY <1>4, ResultTypes DEF read_loop_end, fail_all_pending
<1>5. CASE UNCHANGED <<reply, replies, collectors>>
  BY <1>5
<1>6. ASSUME NEW c \in Cmds, Caller(c)
      PROVE  UNCHANGED <<reply, replies, collectors>>
  BY <1>6 DEF Caller, next_tag, enqueue_command, enqueue_closed, next_frame,
     into_reply, drain, await_reply, reply_closed, timeout, cancel, Abandon,
     channelVars, pendingVars
<1>7. writer \/ send_raw \/ drop_client \/ write_all \/ route_for
        \/ dispatch_broadcast \/ dispatch_reserve \/ dispatch_push \/ Server
        \/ UNCHANGED vars => UNCHANGED <<reply, replies, collectors>>
  BY DEF writer, send_raw, drop_client, write_all, route_for,
     dispatch_broadcast, dispatch_reserve, dispatch_push, Server,
     server_data, server_unsolicited, server_status,
     server_repeats, server_ends, vars, channelVars, pendingVars
<1> QED
  BY <1>1, <1>2, <1>3, <1>4, <1>5, <1>6, <1>7
     DEF Next, Writer, Reader, write_error, write_loop_end


\* A caller's step takes frames out of streams and puts none in.
LEMMA CallersOnlyConsume ==
  ASSUME TypeInv, NEW c \in Cmds, Caller(c)
  PROVE  /\ StreamOK'
         /\ \A d \in Cmds : Len(frames'[d]) <= Len(frames[d])
<1> USE CapsAssumption DEF TypeInv, TypeOK, StreamOK
<1>1. CASE next_frame(c)
  <2>1. Tail(frames[c]) \in Seq(Nat) /\ Len(Tail(frames[c])) <= Len(frames[c])
    BY <1>1, TakeOldest DEF next_frame
  <2> QED BY <1>1, <2>1, LenProperties DEF next_frame
<1>2. CASE drain(c)
  <2>0. UNCHANGED <<listening, discarded>>
    BY <1>2 DEF drain
  <2>1. CASE frames[c] = <<>>
    <3>1. UNCHANGED <<frames, events>>
      BY <1>2, <2>1 DEF drain
    <3> QED BY <2>0, <3>1, LenProperties
  <2>2. CASE frames[c] # <<>>
    <3>1. /\ Head(frames[c]) \in Nat /\ Tail(frames[c]) \in Seq(Nat)
          /\ Len(Tail(frames[c])) <= Len(frames[c])
      BY <2>2, TakeOldest
    <3>2. Append(events, Head(frames[c])) \in Seq(Nat)
      BY <3>1, AppendProperties
    <3>3. /\ events' = Append(events, Head(frames[c]))
          /\ frames' = [frames EXCEPT ![c] = Tail(@)]
      BY <1>2, <2>2 DEF drain
    <3> QED BY <2>0, <3>1, <3>2, <3>3, LenProperties
  <2> QED BY <2>1, <2>2
<1>3. CASE timeout(c) \/ cancel(c)
  <2>1. /\ listening' = [listening EXCEPT ![c] = FALSE]
        /\ frames' = [frames EXCEPT ![c] = <<>>]
        /\ discarded' = [discarded EXCEPT ![c] = @ \cup Range(frames[c])]
        /\ UNCHANGED events
    BY <1>3 DEF timeout, cancel, Abandon
  <2>2. Range(frames[c]) \in SUBSET Nat
    BY ElementOfSeq, SMTT(30) DEF Range
  <2>3. discarded' \in [Cmds -> SUBSET Nat] /\ listening' \in [Cmds -> BOOLEAN]
    BY <2>1, <2>2
  <2>4. /\ frames' \in [Cmds -> Seq(Nat)]
        /\ \A d \in Cmds : Len(frames'[d]) <= Len(frames[d])
    BY <2>1, EmptySeq, LenProperties
  <2> QED BY <2>1, <2>3, <2>4, LenProperties
<1>4. CASE enqueue_command(c) \/ into_reply(c)
  <2>1. UNCHANGED <<frames, events, discarded>>
    BY <1>4 DEF enqueue_command, into_reply
  <2>2. listening' \in [Cmds -> BOOLEAN]
    BY <1>4 DEF enqueue_command, into_reply
  <2> QED BY <2>1, <2>2
<1>5. CASE UNCHANGED channelVars
  BY <1>5 DEF channelVars
<1> QED
  BY <1>1, <1>2, <1>3, <1>4, <1>5
     DEF Caller, next_tag, enqueue_closed, await_reply, reply_closed


LEMMA StreamNext == TypeInv /\ [Next]_vars => StreamOK'
<1> SUFFICES ASSUME TypeInv, [Next]_vars PROVE StreamOK'
  OBVIOUS
<1> USE DEF TypeInv, TypeOK, StreamOK
<1>1. ASSUME NEW c \in Cmds, Caller(c) PROVE StreamOK'
  BY <1>1, CallersOnlyConsume
<1>2. CASE dispatch_tagged
  <2>1. UNCHANGED <<frames, listening, discarded>>
    BY <1>2 DEF dispatch_tagged
  <2>2. events' = events \/ events' = Append(events, rpos)
    BY <1>2 DEF dispatch_tagged
  <2>3. events' \in Seq(Nat)
    BY <2>2, AppendProperties, SMTT(30) DEF LoopsOK
  <2> QED BY <2>1, <2>3
<1>3. CASE dispatch_broadcast
  <2>1. Append(events, rpos) \in Seq(Nat)
    BY AppendProperties DEF LoopsOK
  <2> QED BY <1>3, <2>1 DEF dispatch_broadcast
<1>4. CASE dispatch_push
  <2>1. route \in Cmds /\ Len(frames[route]) < STREAM_CHANNEL_CAP
    BY <1>4 DEF dispatch_push, ReaderKnows, PermitGood, LoopsOK
  <2>2. UNCHANGED <<listening, events>>
    BY <1>4 DEF dispatch_push
  <2>3. CASE pc[route] \in {"stream", "drain"}
    <3>1. frames' = [frames EXCEPT ![route] = Append(@, rpos)] /\ UNCHANGED discarded
      BY <1>4, <2>3 DEF dispatch_push
    <3>2. /\ Append(frames[route], rpos) \in Seq(Nat)
          /\ Len(Append(frames[route], rpos)) = Len(frames[route]) + 1
      BY <2>1, AppendProperties DEF LoopsOK
    <3>3. Len(Append(frames[route], rpos)) <= STREAM_CHANNEL_CAP
      BY <2>1, <3>2, LenProperties, CapsAssumption
    <3> QED BY <2>1, <2>2, <3>1, <3>2, <3>3
  <2>4. CASE pc[route] \notin {"stream", "drain"}
    <3>1. discarded' = [discarded EXCEPT ![route] = @ \cup {rpos}] /\ UNCHANGED frames
      BY <1>4, <2>4 DEF dispatch_push
    <3> QED BY <2>1, <2>2, <3>1 DEF LoopsOK
  <2> QED BY <2>3, <2>4
<1>5. CASE UNCHANGED <<frames, listening, events, discarded>>
  BY <1>5
<1>6. \/ writer \/ send_raw \/ drop_client \/ Writer \/ route_for
      \/ dispatch_reserve \/ read_loop_end \/ Server \/ UNCHANGED vars
      => UNCHANGED <<frames, listening, events, discarded>>
  BY DEF writer, send_raw, drop_client, Writer, write_loop_recv, write_all,
     write_error, write_loop_end, WriterStops, route_for, dispatch_reserve,
     read_loop_end, Server, server_data, server_unsolicited, server_status,
     server_repeats, server_ends, vars, channelVars
<1> QED
  BY <1>1, <1>2, <1>3, <1>4, <1>5, <1>6 DEF Next, Reader

LEMMA LoopsNext == TypeInv /\ [Next]_vars => LoopsOK' /\ HandKnown' /\ PermitGood'
<1> SUFFICES ASSUME TypeInv, [Next]_vars
             PROVE  LoopsOK' /\ HandKnown' /\ PermitGood'
  OBVIOUS
<1> USE DEF TypeInv, TypeOK, ReaderKnows, LoopsOK, HandKnown, PermitGood, InHand
<1>0. Len(sent) \in Nat /\ DOMAIN sent = 1 .. Len(sent)
  BY LenProperties DEF ServerOK
<1>1. ASSUME NEW c \in Cmds, Caller(c) PROVE LoopsOK' /\ HandKnown' /\ PermitGood'
  <2>1. UNCHANGED <<wpc, writing, rpc, rpos, route, sent>>
    BY <1>1 DEF Caller, next_tag, enqueue_command, enqueue_closed, next_frame,
       into_reply, drain, await_reply, reply_closed, timeout, cancel, Abandon,
       writerVars, readerVars, serverVars
  <2>2. \A d \in Cmds : Len(frames'[d]) <= Len(frames[d])
    BY <1>1, CallersOnlyConsume
  <2>3. \A d \in Cmds : Len(frames'[d]) \in Nat /\ Len(frames[d]) \in Nat
    BY <1>1, CallersOnlyConsume, LenProperties DEF StreamOK
  <2> QED BY <2>1, <2>2, <2>3, CapsAssumption
<1>2. CASE writer \/ send_raw \/ drop_client \/ UNCHANGED vars
  <2>1. UNCHANGED <<wpc, writing, rpc, rpos, route, sent, frames>>
    BY <1>2 DEF writer, send_raw, drop_client, vars, channelVars, writerVars,
       readerVars, serverVars
  <2> QED BY <2>1
<1>3. CASE Writer
  <2>1. UNCHANGED <<rpc, rpos, route, sent, frames>>
    BY <1>3 DEF Writer, write_loop_recv, write_all, write_error, write_loop_end,
       WriterStops, channelVars, readerVars, serverVars
  <2>2. wpc' \in {"recv", "write", "stopped"}
    BY <1>3 DEF Writer, write_loop_recv, write_all, write_error, write_loop_end,
       WriterStops
  <2>3. writing' = writing \/ (write_rx # <<>> /\ writing' = Head(write_rx))
    BY <1>3 DEF Writer, write_loop_recv, write_all, write_error, write_loop_end,
       WriterStops
  <2>4. writing' \in Cmds \cup {0}
    BY <2>3, HeadTailProperties DEF QueueOK
  <2> QED BY <2>1, <2>2, <2>4
<1>4. CASE route_for
  <2>1. /\ rpc' = "dispatch" /\ rpos' = rpos + 1 /\ rpos < Len(sent)
        /\ UNCHANGED <<wpc, writing, sent, frames>>
    BY <1>4 DEF route_for, channelVars, writerVars, serverVars
  <2>2. route' = 0 \/ \E i \in DOMAIN collectors : route' = collectors[i]
    BY <1>4 DEF route_for, collector_for
  <2>3. route' \in Cmds \cup {0}
    BY <2>2, ElementOfSeq, LenProperties DEF PendingOK
  <2> QED BY <1>0, <2>1, <2>3
<1>5. CASE dispatch_tagged \/ dispatch_broadcast \/ dispatch_push
  <2>1. /\ rpc' = "read" /\ route' \in {route, 0}
        /\ UNCHANGED <<wpc, writing, sent, rpos>>
    BY <1>5 DEF dispatch_tagged, dispatch_broadcast, dispatch_push, writerVars, serverVars
  <2> QED BY <2>1
<1>6. CASE dispatch_reserve
  <2>1. /\ rpc = "dispatch" /\ rpc' = "push" /\ route # 0
        /\ Len(frames[route]) < STREAM_CHANNEL_CAP
        /\ UNCHANGED <<wpc, writing, sent, rpos, route, frames>>
    BY <1>6 DEF dispatch_reserve, channelVars, writerVars, serverVars
  <2> QED BY <2>1
<1>7. CASE read_loop_end
  <2>1. /\ rpc' = "stopped" /\ rpos' = rpos + 1 /\ rpos < Len(sent)
        /\ UNCHANGED <<wpc, writing, sent, route>>
    BY <1>7 DEF read_loop_end, writerVars, serverVars
  <2> QED BY <1>0, <2>1
<1>8. CASE Server
  <2>1. UNCHANGED <<wpc, writing, rpc, rpos, route, frames>>
    BY <1>8 DEF Server, server_data, server_unsolicited, server_status,
       server_repeats, server_ends, channelVars, writerVars, readerVars
  <2>2. \E f : sent' = Append(sent, f)
    BY <1>8 DEF Server, server_data, server_unsolicited, server_status,
       server_repeats, server_ends, Emit
  <2>3. Len(sent') = Len(sent) + 1
    BY <2>2 DEF ServerOK
  <2> QED BY <1>0, <2>1, <2>3
<1> QED
  BY <1>1, <1>2, <1>3, <1>4, <1>5, <1>6, <1>7, <1>8 DEF Next, Reader


\* The server appends a well-formed frame, whose tag is a command's if it is a
\* status.
LEMMA ServerEmits ==
  ASSUME TypeInv, Server
  PROVE  \E f \in Frames : /\ sent' = Append(sent, f)
                           /\ f.kind \in Status => f.tag \in Cmds
<1> USE DEF Frames, Emit, Status, Endings
<1>0. inbox # <<>> => Head(inbox) \in Cmds
  BY HeadTailProperties DEF TypeInv, TypeOK, ServerOK
<1>1. CASE server_data
  <2>1. wants[Head(inbox)] \in Classes \cup {NoClass}
    BY <1>0, <1>1 DEF server_data, TypeInv, TypeOK, CallerOK
  <2> QED BY <1>0, <1>1, <2>1 DEF server_data
<1>2. ASSUME NEW k \in Noise, server_unsolicited(k)
      PROVE  \E f \in Frames : /\ sent' = Append(sent, f)
                               /\ f.kind \in Status => f.tag \in Cmds
  BY <1>2, UsesAssumption DEF server_unsolicited
<1>3. ASSUME NEW s \in Statuses, server_status(s)
      PROVE  \E f \in Frames : /\ sent' = Append(sent, f)
                               /\ f.kind \in Status => f.tag \in Cmds
  BY <1>0, <1>3, UsesAssumption DEF server_status
<1>4. ASSUME NEW c \in Repeats, NEW s \in Statuses, server_repeats(c, s)
      PROVE  \E f \in Frames : /\ sent' = Append(sent, f)
                               /\ f.kind \in Status => f.tag \in Cmds
  BY <1>4, UsesAssumption DEF server_repeats
<1>5. ASSUME NEW e \in Ends, server_ends(e)
      PROVE  \E f \in Frames : /\ sent' = Append(sent, f)
                               /\ f.kind \in Status => f.tag \in Cmds
  BY <1>5, UsesAssumption DEF server_ends
<1> QED BY <1>1, <1>2, <1>3, <1>4, <1>5 DEF Server

LEMMA ServerNext == TypeInv /\ [Next]_vars => ServerOK' /\ TagsKnown'
<1> SUFFICES ASSUME TypeInv, [Next]_vars PROVE ServerOK' /\ TagsKnown'
  OBVIOUS
<1> USE DEF TypeInv, TypeOK, ReaderKnows, ServerOK, TagsKnown
<1>1. CASE Server
  <2>1. PICK f \in Frames : /\ sent' = Append(sent, f)
                            /\ f.kind \in Status => f.tag \in Cmds
    BY <1>1, ServerEmits
  <2>2. sent' \in Seq(Frames)
    BY <2>1, AppendProperties
  <2>3. TagsKnown'
    BY <2>1, AppendProperties, LenProperties
  <2>4. answered' \in [Cmds -> Nat] /\ inbox' \in Seq(Cmds)
    <3>1. CASE \E s \in Statuses : server_status(s)
      <4>1. /\ inbox # <<>> /\ inbox' = Tail(inbox)
            /\ answered' = [answered EXCEPT ![Head(inbox)] = Len(sent) + 1]
        BY <3>1 DEF server_status
      <4>2. Head(inbox) \in Cmds /\ Tail(inbox) \in Seq(Cmds)
        BY <4>1, HeadTailProperties
      <4>3. Len(sent) + 1 \in Nat
        BY LenProperties
      <4> QED BY <4>1, <4>2, <4>3
    <3>2. CASE UNCHANGED <<inbox, answered>>
      BY <3>2
    <3> QED BY <1>1, <3>1, <3>2
            DEF Server, server_data, server_unsolicited, server_repeats, server_ends
  <2> QED BY <2>2, <2>3, <2>4
<1>2. CASE write_all
  <2>1. UNCHANGED <<answered, sent>>
    BY <1>2 DEF write_all
  <2>2. inbox' = inbox \/ (writing # 0 /\ inbox' = Append(inbox, writing))
    BY <1>2 DEF write_all
  <2>3. inbox' \in Seq(Cmds)
    <3>1. writing # 0 => writing \in Cmds
      BY DEF LoopsOK
    <3>2. writing # 0 => Append(inbox, writing) \in Seq(Cmds)
      BY <3>1, AppendProperties
    <3> QED BY <2>2, <3>2
  <2> QED BY <2>1, <2>3
<1>3. CASE UNCHANGED serverVars
  BY <1>3 DEF serverVars
<1>4. ASSUME NEW c \in Cmds, Caller(c) PROVE UNCHANGED serverVars
  BY <1>4 DEF Caller, next_tag, enqueue_command, enqueue_closed, next_frame,
     into_reply, drain, await_reply, reply_closed, timeout, cancel, Abandon
<1>5. writer \/ send_raw \/ drop_client \/ (Writer /\ ~write_all) \/ Reader
        \/ UNCHANGED vars => UNCHANGED serverVars
  BY DEF writer, send_raw, drop_client, Writer, write_loop_recv, write_error,
     write_loop_end, WriterStops, Reader, route_for, dispatch_tagged,
     dispatch_broadcast, dispatch_reserve, dispatch_push, read_loop_end, vars
<1> QED
  BY <1>1, <1>2, <1>3, <1>4, <1>5 DEF Next

\* Every step keeps the types.
LEMMA TypeNext == TypeInv /\ [Next]_vars => TypeInv'
  BY CallerNext, QueueNext, PendingNext, StreamNext, LoopsNext, ServerNext
     DEF TypeInv, TypeOK, ReaderKnows

\* The dispatcher's variables keep their types and neither bounded channel ever
\* overflows: the read loop's permit stays good until it pushes (client.rs,
\* dispatch_frame), whatever the callers do in between.
THEOREM TypeCorrect == Spec => []TypeOK
<1>1. Spec => []TypeInv
  BY TypeInit, TypeNext, PTL DEF Spec
<1>2. TypeInv => TypeOK
  BY DEF TypeInv
<1> QED BY <1>1, <1>2, PTL

-----------------------------------------------------------------------------
(* The outcomes callers are given agree with the wire. *)

\* Elements of a queue after an element joins it.
LEMMA JoinQueue ==
  ASSUME NEW S, NEW s \in Seq(S), NEW x \in S
  PROVE  /\ Append(s, x) \in Seq(S)
         /\ Range(Append(s, x)) = Range(s) \cup {x}
         /\ Distinct(s) /\ (x = 0 \/ x \notin Range(s)) => Distinct(Append(s, x))
<1>1. /\ Append(s, x) \in Seq(S) /\ Len(Append(s, x)) = Len(s) + 1
      /\ \A i \in 1 .. Len(s) : Append(s, x)[i] = s[i]
      /\ Append(s, x)[Len(s) + 1] = x
  BY AppendProperties
<1>2. Len(s) \in Nat /\ DOMAIN s = 1 .. Len(s) /\ DOMAIN Append(s, x) = 1 .. (Len(s) + 1)
  BY <1>1, LenProperties
<1>3. Range(Append(s, x)) = Range(s) \cup {x}
  BY <1>1, <1>2 DEF Range
<1>4. Distinct(s) /\ (x = 0 \/ x \notin Range(s)) => Distinct(Append(s, x))
  BY <1>1, <1>2 DEF Distinct, Range
<1> QED BY <1>1, <1>3, <1>4

\* Elements of a queue after its first element left it.
LEMMA LeaveQueue ==
  ASSUME NEW S, NEW s \in Seq(S), s # <<>>
  PROVE  /\ Head(s) \in S /\ Head(s) \in Range(s) /\ Tail(s) \in Seq(S)
         /\ Range(Tail(s)) \subseteq Range(s)
         /\ Distinct(s) => Distinct(Tail(s))
         /\ Distinct(s) /\ Head(s) # 0 => Head(s) \notin Range(Tail(s))
<1>1. /\ Head(s) \in S /\ Tail(s) \in Seq(S) /\ Len(Tail(s)) = Len(s) - 1
      /\ \A i \in 1 .. Len(Tail(s)) : Tail(s)[i] = s[i + 1]
  BY HeadTailProperties
<1>2. /\ Len(s) \in Nat /\ Len(s) > 0
      /\ DOMAIN s = 1 .. Len(s) /\ DOMAIN Tail(s) = 1 .. (Len(s) - 1)
  BY <1>1, LenProperties, EmptySeq
<1>3. Head(s) = s[1]
  OBVIOUS
<1>4. Head(s) \in Range(s)
  BY <1>2, <1>3 DEF Range
<1>5. Range(Tail(s)) \subseteq Range(s)
  BY <1>1, <1>2 DEF Range
<1>6. Distinct(s) => Distinct(Tail(s))
  BY <1>1, <1>2 DEF Distinct
<1>7. Distinct(s) /\ Head(s) # 0 => Head(s) \notin Range(Tail(s))
  <2> SUFFICES ASSUME Distinct(s), Head(s) # 0, NEW i \in DOMAIN Tail(s),
                      Tail(s)[i] = Head(s)
               PROVE  FALSE
    BY DEF Range
  <2>1. i + 1 \in DOMAIN s /\ 1 \in DOMAIN s /\ s[i + 1] = s[1] /\ s[1] # 0
    BY <1>1, <1>2, <1>3
  <2>2. i + 1 = 1
    BY <2>1 DEF Distinct
  <2> QED BY <1>2, <2>2
<1> QED BY <1>1, <1>4, <1>5, <1>6, <1>7

\* Pending::complete takes a command out of the collectors and nothing else.
LEMMA WithoutRange ==
  ASSUME NEW s \in Seq(Cmds), NEW c \in Cmds, Distinct(s)
  PROVE  /\ Range(Without(s, c)) \subseteq Range(s) \ {c}
         /\ Distinct(Without(s, c))
<1>0. Len(s) \in Nat /\ DOMAIN s = 1 .. Len(s) /\ \A j \in 1 .. Len(s) : s[j] \in Cmds
  BY LenProperties, ElementOfSeq
<1>1. CASE ~ \E i \in DOMAIN s : s[i] = c
  <2>1. Without(s, c) = s
    BY <1>1 DEF Without
  <2> QED BY <1>1, <2>1 DEF Range
<1>2. CASE \E i \in DOMAIN s : s[i] = c
  <2> DEFINE k == CHOOSE i \in DOMAIN s : s[i] = c
             w == [j \in 1 .. (Len(s) - 1) |-> IF j < k THEN s[j] ELSE s[j + 1]]
  <2>1. k \in 1 .. Len(s) /\ s[k] = c
    BY <1>0, <1>2
  <2>2. Without(s, c) = w
    BY <1>2 DEF Without
  <2> HIDE DEF k
  <2>3. DOMAIN w = 1 .. (Len(s) - 1)
    OBVIOUS
  <2>4. \A j \in DOMAIN w : w[j] = IF j < k THEN s[j] ELSE s[j + 1]
    OBVIOUS
  <2> HIDE DEF w
  <2>5. \A i \in DOMAIN s : s[i] = c => i = k
    <3>1. c # 0
      BY NCmdsAssumption
    <3>2. k \in DOMAIN s
      BY <1>0, <2>1
    <3> QED BY <2>1, <3>1, <3>2 DEF Distinct
  <2>6. ASSUME NEW j \in DOMAIN w PROVE w[j] \in Range(s) \ {c}
    <3>1. j \in Nat /\ j \in DOMAIN s /\ j + 1 \in DOMAIN s
      BY <1>0, <2>3
    <3>2. CASE j < k
      BY <2>1, <2>4, <2>5, <3>1, <3>2 DEF Range
    <3>3. CASE ~(j < k)
      <4>1. j + 1 # k
        BY <2>1, <3>1, <3>3
      <4> QED BY <2>4, <2>5, <3>1, <3>3, <4>1 DEF Range
    <3> QED BY <3>2, <3>3
  <2>7. Range(w) \subseteq Range(s) \ {c}
    BY <2>6 DEF Range
  <2>8. ASSUME NEW i \in DOMAIN w, NEW j \in DOMAIN w, w[i] = w[j], w[i] # 0
        PROVE  i = j
    <3>1. i \in Nat /\ j \in Nat /\ i <= Len(s) - 1 /\ j <= Len(s) - 1 /\ i > 0 /\ j > 0
      BY <1>0, <2>3
    <3> DEFINE p == IF i < k THEN i ELSE i + 1
               q == IF j < k THEN j ELSE j + 1
    <3>2. p \in DOMAIN s /\ q \in DOMAIN s
      BY <1>0, <3>1
    <3>3. w[i] = s[p] /\ w[j] = s[q]
      BY <2>4
    <3>4. p = q
      BY <2>8, <3>2, <3>3 DEF Distinct
    <3> QED BY <2>1, <3>1, <3>4
  <2> QED BY <2>2, <2>7, <2>8 DEF Distinct
<1> QED BY <1>1, <1>2

-----------------------------------------------------------------------------
(* AnswerInv. *)

LEMMA AnswerInit == Init => AnswerInv
<1> SUFFICES ASSUME Init PROVE AnswerInv
  OBVIOUS
<1>1. /\ write_rx = <<>> /\ inbox = <<>> /\ collectors = <<>> /\ sent = <<>>
      /\ wpc = "recv" /\ rpc = "read" /\ rpos = 0 /\ replies = {}
      /\ \A c \in Cmds : pc[c] = "new" /\ answered[c] = 0 /\ reply[c] = "none"
                         /\ outcome[c] = "none"
  BY DEF Init
<1>2. Range(write_rx) = {} /\ Range(inbox) = {} /\ Range(collectors) = {}
  BY <1>1 DEF Range
<1>3. FreshTags /\ NotYetQueued /\ QueuedOnce /\ ReceivedOnce
  BY <1>1, <1>2 DEF FreshTags, NotYetQueued, QueuedOnce, ReceivedOnce, Distinct,
     BeingWritten
<1>4. AnsweredIsFirst /\ PushesData /\ WaitersFresh
  BY <1>1, <1>2 DEF AnsweredIsFirst, PushesData, WaitersFresh, Distinct
<1>5. ReplyIsAnswer /\ OutcomeIsAnswer
  BY <1>1 DEF ReplyIsAnswer, OutcomeIsAnswer
<1> QED BY <1>3, <1>4, <1>5 DEF AnswerInv

\* A step of a caller past the queue: it may leave "enqueue" and learn an outcome.
LEMMA AnswerQuiet ==
  ASSUME AnswerInv,
         UNCHANGED <<tag_counter, write_rx, reply, replies, collectors, wpc,
                     writing, rpc, rpos, inbox, answered, sent>>,
         \A c \in Cmds : /\ pc'[c] \in {"new", "enqueue"} => pc[c] \in {"new", "enqueue"}
                         /\ pc[c] = "new" => pc'[c] = "new",
         OutcomeIsAnswer'
  PROVE  AnswerInv'
<1>1. FreshTags' /\ NotYetQueued'
  BY DEF AnswerInv, FreshTags, NotYetQueued, BeingWritten
<1>2. QueuedOnce' /\ ReceivedOnce'
  BY DEF AnswerInv, QueuedOnce, ReceivedOnce, BeingWritten
<1>3. AnsweredIsFirst' /\ PushesData' /\ WaitersFresh' /\ ReplyIsAnswer'
  BY DEF AnswerInv, AnsweredIsFirst, PushesData, WaitersFresh, ReplyIsAnswer,
     StatusFor, Dispatched, InHand
<1> QED BY <1>1, <1>2, <1>3 DEF AnswerInv

LEMMA AnswerCaller ==
  ASSUME TypeInv, AnswerInv, NEW c \in Cmds, Caller(c)
  PROVE  AnswerInv'
<1> USE DEF TypeInv, TypeOK, CallerOK
<1>1. CASE next_frame(c) \/ into_reply(c) \/ drain(c)
  <2>1. /\ UNCHANGED <<tag_counter, write_rx, reply, replies, collectors, wpc,
                       writing, rpc, rpos, inbox, answered, sent, outcome>>
        /\ pc' = pc \/ (pc[c] \in {"stream", "drain"}
                          /\ \E q \in {"drain", "wait"} : pc' = [pc EXCEPT ![c] = q])
    BY <1>1 DEF next_frame, into_reply, drain, pendingVars, writerVars, readerVars,
       serverVars
  <2>2. OutcomeIsAnswer'
    BY <2>1 DEF AnswerInv, OutcomeIsAnswer
  <2>3. \A d \in Cmds : /\ pc'[d] \in {"new", "enqueue"} => pc[d] \in {"new", "enqueue"}
                        /\ pc[d] = "new" => pc'[d] = "new"
    BY <2>1
  <2> QED BY <2>1, <2>2, <2>3, AnswerQuiet
<1>2. CASE enqueue_closed(c) \/ await_reply(c) \/ reply_closed(c) \/ timeout(c) \/ cancel(c)
  <2>1. /\ UNCHANGED <<tag_counter, write_rx, reply, replies, collectors, wpc,
                       writing, rpc, rpos, inbox, answered, sent>>
        /\ pc[c] # "new" /\ pc' = [pc EXCEPT ![c] = "done"]
    BY <1>2 DEF enqueue_closed, await_reply, reply_closed, timeout, cancel, Abandon,
       Finish, channelVars, pendingVars, writerVars, readerVars, serverVars
  <2>2. \E r : /\ outcome' = [outcome EXCEPT ![c] = r]
               /\ r \in {"Ok", "CommandFailed"} => r = reply[c]
    BY <1>2 DEF enqueue_closed, await_reply, reply_closed, timeout, cancel, Abandon,
       Finish
  <2>3. OutcomeIsAnswer'
    BY <2>1, <2>2 DEF AnswerInv, OutcomeIsAnswer, ReplyIsAnswer
  <2>4. \A d \in Cmds : /\ pc'[d] \in {"new", "enqueue"} => pc[d] \in {"new", "enqueue"}
                        /\ pc[d] = "new" => pc'[d] = "new"
    BY <2>1
  <2> QED BY <2>1, <2>3, <2>4, AnswerQuiet
<1>3. ASSUME NEW m \in Modes, NEW w \in Filters, next_tag(c, m, w)
      PROVE  AnswerInv'
  <2>1. /\ UNCHANGED <<write_rx, reply, replies, collectors, wpc, writing, rpc,
                       rpos, inbox, answered, sent, outcome>>
        /\ c = tag_counter /\ tag_counter' = tag_counter + 1
        /\ pc' = [pc EXCEPT ![c] = "enqueue"]
    BY <1>3 DEF next_tag, channelVars, pendingVars, writerVars, readerVars, serverVars
  <2>2. pc[c] = "new"
    BY <2>1, NCmdsAssumption DEF AnswerInv, FreshTags
  <2>3. FreshTags'
    BY <2>1, NCmdsAssumption DEF AnswerInv, FreshTags
  <2>4. NotYetQueued'
    BY <2>1, <2>2 DEF AnswerInv, NotYetQueued, BeingWritten
  <2>5. QueuedOnce' /\ ReceivedOnce'
    BY <2>1 DEF AnswerInv, QueuedOnce, ReceivedOnce, BeingWritten
  <2>6. AnsweredIsFirst' /\ PushesData' /\ WaitersFresh' /\ ReplyIsAnswer'
        /\ OutcomeIsAnswer'
    BY <2>1 DEF AnswerInv, AnsweredIsFirst, PushesData, WaitersFresh, ReplyIsAnswer,
       OutcomeIsAnswer, StatusFor, Dispatched, InHand
  <2> QED BY <2>3, <2>4, <2>5, <2>6 DEF AnswerInv
<1>4. CASE enqueue_command(c)
  <2>1. /\ UNCHANGED <<tag_counter, reply, replies, collectors, wpc, writing, rpc,
                       rpos, inbox, answered, sent, outcome>>
        /\ pc[c] = "enqueue" /\ write_rx' = Append(write_rx, c)
        /\ \E q \in {"wait", "stream"} : pc' = [pc EXCEPT ![c] = q]
    BY <1>4 DEF enqueue_command, pendingVars, writerVars, readerVars, serverVars
  <2>2. /\ c \notin Range(write_rx) /\ ~BeingWritten(c) /\ c \notin Range(inbox)
        /\ answered[c] = 0 /\ c \notin Range(collectors)
    BY <2>1 DEF AnswerInv, NotYetQueued
  <2>3. Range(write_rx') = Range(write_rx) \cup {c} /\ Distinct(write_rx')
    BY <2>1, <2>2, JoinQueue, SMTT(30) DEF QueueOK, AnswerInv, QueuedOnce
  <2>4. FreshTags'
    BY <2>1 DEF AnswerInv, FreshTags
  <2>5. NotYetQueued'
    BY <2>1, <2>3 DEF AnswerInv, NotYetQueued, BeingWritten
  <2>6. QueuedOnce' /\ ReceivedOnce'
    BY <2>1, <2>2, <2>3 DEF AnswerInv, QueuedOnce, ReceivedOnce, BeingWritten
  <2>7. AnsweredIsFirst' /\ PushesData' /\ WaitersFresh' /\ ReplyIsAnswer'
        /\ OutcomeIsAnswer'
    BY <2>1 DEF AnswerInv, AnsweredIsFirst, PushesData, WaitersFresh, ReplyIsAnswer,
       OutcomeIsAnswer, StatusFor, Dispatched, InHand
  <2> QED BY <2>4, <2>5, <2>6, <2>7 DEF AnswerInv
<1> QED BY <1>1, <1>2, <1>3, <1>4 DEF Caller


LEMMA AnswerHandle ==
  ASSUME TypeInv, AnswerInv, writer \/ send_raw \/ drop_client
  PROVE  AnswerInv'
<1> USE DEF TypeInv, TypeOK
<1>1. UNCHANGED <<tag_counter, pc, reply, replies, collectors, wpc, writing, rpc,
                  rpos, inbox, answered, sent, outcome>>
  BY DEF writer, send_raw, drop_client, channelVars, pendingVars, writerVars,
     readerVars, serverVars
<1>2. write_rx' = write_rx \/ write_rx' = Append(write_rx, 0)
  BY DEF writer, send_raw, drop_client, channelVars
<1>3. (\A c \in Cmds : c \in Range(write_rx') => c \in Range(write_rx)) /\ Distinct(write_rx')
  <2>1. CASE write_rx' = write_rx
    BY <2>1 DEF AnswerInv, QueuedOnce
  <2>2. CASE write_rx' = Append(write_rx, 0)
    <3>1. Range(write_rx') = Range(write_rx) \cup {0} /\ Distinct(write_rx')
      BY <2>2, JoinQueue DEF QueueOK, AnswerInv, QueuedOnce
    <3> QED BY <3>1, NCmdsAssumption
  <2> QED BY <1>2, <2>1, <2>2
<1>4. FreshTags' /\ NotYetQueued'
  BY <1>1, <1>3 DEF AnswerInv, FreshTags, NotYetQueued, BeingWritten
<1>5. QueuedOnce' /\ ReceivedOnce'
  BY <1>1, <1>3 DEF AnswerInv, QueuedOnce, ReceivedOnce, BeingWritten
<1>6. AnsweredIsFirst' /\ PushesData' /\ WaitersFresh' /\ ReplyIsAnswer' /\ OutcomeIsAnswer'
  BY <1>1 DEF AnswerInv, AnsweredIsFirst, PushesData, WaitersFresh, ReplyIsAnswer,
     OutcomeIsAnswer, StatusFor, Dispatched, InHand
<1> QED BY <1>4, <1>5, <1>6 DEF AnswerInv

LEMMA AnswerWriter ==
  ASSUME TypeInv, AnswerInv, Writer
  PROVE  AnswerInv'
<1> USE DEF TypeInv, TypeOK
<1>1. UNCHANGED <<tag_counter, pc, reply, rpc, rpos, answered, sent, outcome>>
  BY DEF Writer, write_loop_recv, write_all, write_error, write_loop_end,
     WriterStops, callerVars, channelVars, readerVars, serverVars
<1>2. FreshTags' /\ AnsweredIsFirst' /\ PushesData' /\ ReplyIsAnswer' /\ OutcomeIsAnswer'
  BY <1>1 DEF AnswerInv, FreshTags, AnsweredIsFirst, PushesData, ReplyIsAnswer,
     OutcomeIsAnswer, StatusFor
<1>3. CASE write_loop_recv
  <2> DEFINE h == Head(write_rx)
  <2>1. /\ wpc' = "write" /\ writing' = h /\ write_rx # <<>> /\ write_rx' = Tail(write_rx)
        /\ UNCHANGED inbox
    BY <1>3 DEF write_loop_recv, serverVars
  <2>2. /\ h \in Range(write_rx) /\ h \in Cmds \cup {0}
        /\ Range(write_rx') \subseteq Range(write_rx) /\ Distinct(write_rx')
        /\ h # 0 => h \notin Range(write_rx')
    BY <2>1, LeaveQueue DEF QueueOK, AnswerInv, QueuedOnce
  <2>3. h \in Cmds => ~BeingWritten(h) /\ h \notin Range(inbox)
                      /\ answered[h] = 0 /\ h \notin Range(collectors)
    BY <2>2 DEF AnswerInv, QueuedOnce
  <2>4. h \notin Cmds => collectors' = collectors /\ replies' = replies
    BY <1>3, <2>2 DEF write_loop_recv, pendingVars
  <2>5. h \in Cmds => /\ collectors' = collectors \/ collectors' = Append(collectors, h)
                      /\ replies' = replies \cup {h}
    BY <1>3, NCmdsAssumption DEF write_loop_recv, register
  <2>6. /\ Distinct(collectors')
        /\ \A c \in Cmds : c \in Range(collectors') => c \in Range(collectors) \/ c = h
    <3>1. CASE collectors' = collectors
      BY <3>1 DEF AnswerInv, WaitersFresh
    <3>2. CASE h \in Cmds /\ collectors' = Append(collectors, h)
      <4>1. Range(collectors') = Range(collectors) \cup {h} /\ Distinct(collectors')
        <5>1. collectors \in Seq(Cmds) /\ h \in Cmds /\ h \notin Range(collectors)
              /\ Distinct(collectors)
          BY <2>3, <3>2 DEF PendingOK, AnswerInv, WaitersFresh
        <5> HIDE DEF h, Cmds
        <5> QED BY <3>2, <5>1, JoinQueue
      <4> QED BY <4>1
    <3> QED BY <2>4, <2>5, <3>1, <3>2
  <2> HIDE DEF h
  <2>7. NotYetQueued'
    BY <1>1, <2>1, <2>2, <2>6 DEF AnswerInv, NotYetQueued, BeingWritten
  <2>8. QueuedOnce'
    BY <1>1, <2>1, <2>2, <2>6, NCmdsAssumption DEF AnswerInv, QueuedOnce, BeingWritten
  <2>9. ReceivedOnce'
    BY <1>1, <2>1, <2>3 DEF AnswerInv, ReceivedOnce, BeingWritten
  <2>10. WaitersFresh'
    <3>1. Dispatched' = Dispatched /\ Dispatched \subseteq DOMAIN sent
      BY <1>1, LenProperties DEF Dispatched, InHand, LoopsOK, ServerOK
    <3>2. h \in Cmds => \A i \in DOMAIN sent : ~StatusFor(i, h)
      BY <2>3 DEF AnswerInv, AnsweredIsFirst
    <3>3. ASSUME NEW c \in Cmds, NEW i \in Dispatched,
                 c \in replies' \/ c \in Range(collectors')
          PROVE  ~StatusFor(i, c)
      <4>1. c = h \/ c \in replies \/ c \in Range(collectors)
        BY <2>4, <2>5, <2>6, <3>3
      <4> QED BY <3>1, <3>2, <4>1 DEF AnswerInv, WaitersFresh
    <3> QED BY <1>1, <2>6, <3>1, <3>3 DEF WaitersFresh, StatusFor
  <2> QED BY <1>2, <2>7, <2>8, <2>9, <2>10 DEF AnswerInv
<1>4. CASE write_all
  <2>1. /\ UNCHANGED <<write_rx, replies, collectors, writing>>
        /\ wpc = "write" /\ wpc' = "recv"
        /\ inbox' = inbox \/ (writing # 0 /\ inbox' = Append(inbox, writing))
    BY <1>4 DEF write_all, channelVars, pendingVars
  <2>2. writing # 0 => writing \in Cmds /\ BeingWritten(writing)
                       /\ answered[writing] = 0 /\ writing \notin Range(inbox)
    BY <2>1 DEF AnswerInv, ReceivedOnce, BeingWritten, LoopsOK
  <2>3. /\ Distinct(inbox')
        /\ \A c \in Cmds : c \in Range(inbox') => c \in Range(inbox) \/ BeingWritten(c)
    <3>1. CASE inbox' = inbox
      BY <3>1 DEF AnswerInv, ReceivedOnce
    <3>2. CASE writing # 0 /\ inbox' = Append(inbox, writing)
      <4>1. Range(inbox') = Range(inbox) \cup {writing} /\ Distinct(inbox')
        <5>1. inbox \in Seq(Cmds) /\ writing \in Cmds /\ writing \notin Range(inbox)
              /\ Distinct(inbox)
          BY <2>2, <3>2 DEF ServerOK, AnswerInv, ReceivedOnce
        <5> HIDE DEF Cmds
        <5> QED BY <3>2, <5>1, JoinQueue
      <4> QED BY <2>2, <3>2, <4>1
    <3> QED BY <2>1, <3>1, <3>2
  <2>4. \A c \in Cmds : ~BeingWritten(c)'
    BY <2>1 DEF BeingWritten
  <2>5. NotYetQueued'
    BY <1>1, <2>1, <2>3, <2>4 DEF AnswerInv, NotYetQueued
  <2>6. QueuedOnce'
    BY <1>1, <2>1, <2>3, <2>4 DEF AnswerInv, QueuedOnce
  <2>7. ReceivedOnce'
    BY <1>1, <2>3, <2>4 DEF AnswerInv, ReceivedOnce
  <2>8. WaitersFresh'
    BY <1>1, <2>1 DEF AnswerInv, WaitersFresh, StatusFor, Dispatched, InHand
  <2> QED BY <1>2, <2>5, <2>6, <2>7, <2>8 DEF AnswerInv
<1>5. CASE WriterStops
  <2>1. /\ wpc' = "stopped" /\ write_rx' = <<>> /\ UNCHANGED inbox
        /\ \/ UNCHANGED <<replies, collectors>>
           \/ replies' = {} /\ collectors' = <<>>
    BY <1>5 DEF WriterStops, pendingVars, serverVars
  <2>2. /\ Range(write_rx') = {} /\ Distinct(write_rx')
        /\ Range(collectors') \subseteq Range(collectors) /\ Distinct(collectors')
        /\ replies' \subseteq replies
    BY <2>1 DEF Range, Distinct, AnswerInv, WaitersFresh
  <2>3. \A c \in Cmds : ~BeingWritten(c)'
    BY <2>1 DEF BeingWritten
  <2>4. NotYetQueued'
    BY <1>1, <2>1, <2>2, <2>3 DEF AnswerInv, NotYetQueued
  <2>5. QueuedOnce' /\ ReceivedOnce'
    BY <1>1, <2>1, <2>2, <2>3 DEF AnswerInv, QueuedOnce, ReceivedOnce
  <2>6. WaitersFresh'
    BY <1>1, <2>2 DEF AnswerInv, WaitersFresh, StatusFor, Dispatched, InHand
  <2> QED BY <1>2, <2>4, <2>5, <2>6 DEF AnswerInv
<1> QED BY <1>3, <1>4, <1>5 DEF Writer, write_error, write_loop_end

LEMMA AnswerReader ==
  ASSUME TypeInv, AnswerInv, Reader
  PROVE  AnswerInv'
<1> USE DEF TypeInv, TypeOK, ReaderKnows
<1>0. /\ Len(sent) \in Nat /\ DOMAIN sent = 1 .. Len(sent) /\ rpos \in Nat
      /\ rpos <= Len(sent)
  BY LenProperties DEF ServerOK, LoopsOK
<1>1. UNCHANGED <<tag_counter, pc, write_rx, wpc, writing, inbox, answered, sent, outcome>>
  BY DEF Reader, route_for, dispatch_tagged, dispatch_broadcast, dispatch_reserve,
     dispatch_push, read_loop_end, callerVars, channelVars, writerVars, serverVars
<1>2. FreshTags' /\ ReceivedOnce' /\ AnsweredIsFirst' /\ OutcomeIsAnswer'
  BY <1>1 DEF AnswerInv, FreshTags, ReceivedOnce, AnsweredIsFirst, OutcomeIsAnswer,
     StatusFor, BeingWritten
<1>3. ASSUME Range(collectors') \subseteq Range(collectors)
      PROVE  NotYetQueued' /\ QueuedOnce'
  BY <1>1, <1>3 DEF AnswerInv, NotYetQueued, QueuedOnce, BeingWritten
<1>4. CASE route_for \/ dispatch_reserve
  <2>1. /\ UNCHANGED <<reply, replies, collectors>>
        /\ \/ rpc = "read" /\ rpc' = "dispatch" /\ rpos' = rpos + 1
           \/ /\ rpc = "dispatch" /\ rpc' = "push" /\ rpos' = rpos
              /\ sent[rpos].kind = "data"
    BY <1>4 DEF route_for, dispatch_reserve, channelVars, pendingVars
  <2>2. Dispatched' = Dispatched
    BY <1>0, <2>1 DEF Dispatched, InHand
  <2>3. NotYetQueued' /\ QueuedOnce'
    BY <1>3, <2>1
  <2>4. PushesData' /\ WaitersFresh' /\ ReplyIsAnswer'
    BY <1>1, <2>1, <2>2 DEF AnswerInv, PushesData, WaitersFresh, ReplyIsAnswer, StatusFor
  <2> QED BY <1>2, <2>3, <2>4 DEF AnswerInv
<1>5. CASE dispatch_broadcast \/ dispatch_push
  <2>1. /\ UNCHANGED <<reply, replies, collectors, rpos>>
        /\ InHand /\ rpc' = "read"
    BY <1>5 DEF dispatch_broadcast, dispatch_push, pendingVars, InHand
  <2>2. sent[rpos].kind \notin Status
    BY <1>5 DEF dispatch_broadcast, dispatch_push, AnswerInv, PushesData, Status
  <2>3. Dispatched' \subseteq Dispatched \cup {rpos}
    BY <1>0, <2>1 DEF Dispatched, InHand
  <2>4. NotYetQueued' /\ QueuedOnce'
    BY <1>3, <2>1
  <2>5. PushesData' /\ WaitersFresh' /\ ReplyIsAnswer'
    BY <1>1, <2>1, <2>2, <2>3 DEF AnswerInv, PushesData, WaitersFresh, ReplyIsAnswer,
       StatusFor
  <2> QED BY <1>2, <2>4, <2>5 DEF AnswerInv
<1>6. CASE dispatch_tagged
  <2> DEFINE t == sent[rpos].tag
  <2>1. /\ rpc = "dispatch" /\ rpc' = "read" /\ UNCHANGED rpos
        /\ sent[rpos].kind \in Status
        /\ collectors' = Without(collectors, t) /\ replies' = replies \ {t}
        /\ \/ UNCHANGED reply
           \/ t \in replies /\ reply' = [reply EXCEPT ![t] = result_of(sent[rpos].kind)]
    BY <1>6 DEF dispatch_tagged, complete
  <2>2. rpos \in DOMAIN sent /\ t \in Cmds /\ StatusFor(rpos, t)
    BY <1>0, <2>1 DEF HandKnown, TagsKnown, InHand, StatusFor
  <2>3. Range(collectors') \subseteq Range(collectors) \ {t} /\ Distinct(collectors')
    BY <2>1, <2>2, WithoutRange DEF PendingOK, AnswerInv, WaitersFresh
  <2>4. Dispatched' \subseteq Dispatched \cup {rpos}
    BY <1>0, <2>1 DEF Dispatched, InHand
  <2>5. NotYetQueued' /\ QueuedOnce'
    BY <1>3, <2>3
  <2>6. PushesData' /\ WaitersFresh'
    <3>1. ASSUME NEW c \in Cmds, c \in replies' \/ c \in Range(collectors')
          PROVE  c # t /\ (c \in replies \/ c \in Range(collectors))
      BY <2>1, <2>3, <3>1
    <3>2. \A c \in Cmds : c # t => ~StatusFor(rpos, c)
      BY DEF StatusFor
    <3>3. PushesData'
      BY <2>1 DEF PushesData
    <3> QED BY <1>1, <2>3, <2>4, <3>1, <3>2, <3>3 DEF AnswerInv, WaitersFresh, StatusFor
  <2>7. t \in replies => answered[t] = rpos
    <3>1. t \in replies => \A i \in 1 .. (rpos - 1) : ~StatusFor(i, t)
      BY <1>0, <2>2 DEF AnswerInv, WaitersFresh, Dispatched
    <3>2. answered[t] # 0 /\ answered[t] \in DOMAIN sent /\ StatusFor(answered[t], t)
          /\ \A i \in 1 .. (answered[t] - 1) : ~StatusFor(i, t)
      BY <2>2 DEF AnswerInv, AnsweredIsFirst
    <3> QED BY <1>0, <2>2, <3>1, <3>2
  <2>8. ReplyIsAnswer'
    <3>1. answered[t] = rpos => answered[t] # 0
      BY <1>0, <2>2
    <3> QED BY <1>1, <2>1, <2>2, <2>7, <3>1 DEF AnswerInv, ReplyIsAnswer, PendingOK
  <2> QED BY <1>2, <2>5, <2>6, <2>8 DEF AnswerInv
<1>7. CASE read_loop_end
  <2>1. /\ collectors' = <<>> /\ replies' = {} /\ rpc' = "stopped"
        /\ reply' = [c \in Cmds |-> IF c \in replies
                                    THEN make_err(sent[rpos + 1].kind) ELSE reply[c]]
    BY <1>7 DEF read_loop_end, fail_all_pending
  <2>2. Range(collectors') = {} /\ Distinct(collectors')
    BY <2>1 DEF Range, Distinct
  <2>3. make_err(sent[rpos + 1].kind) \notin {"Ok", "CommandFailed"}
    BY DEF make_err, EofError, FrameError, CeilingError
  <2>4. NotYetQueued' /\ QueuedOnce'
    BY <1>3, <2>2
  <2>5. PushesData' /\ WaitersFresh'
    BY <2>1, <2>2 DEF PushesData, WaitersFresh
  <2>6. ReplyIsAnswer'
    BY <1>1, <2>1, <2>3 DEF AnswerInv, ReplyIsAnswer
  <2> QED BY <1>2, <2>4, <2>5, <2>6 DEF AnswerInv
<1> QED BY <1>4, <1>5, <1>6, <1>7 DEF Reader


\* What the server's step does to the log: one frame more.
LEMMA LogGrows ==
  ASSUME TypeInv, NEW f \in Frames, sent' = Append(sent, f)
  PROVE  /\ Len(sent) \in Nat /\ DOMAIN sent = 1 .. Len(sent)
         /\ DOMAIN sent' = 1 .. (Len(sent) + 1)
         /\ \A i \in DOMAIN sent : sent'[i] = sent[i]
         /\ sent'[Len(sent) + 1] = f
  BY AppendProperties, LenProperties DEF TypeInv, TypeOK, ServerOK

LEMMA AnswerServer ==
  ASSUME TypeInv, AnswerInv, Server
  PROVE  AnswerInv'
<1> USE DEF TypeInv, TypeOK, ReaderKnows
<1>1. UNCHANGED <<tag_counter, pc, outcome, write_rx, reply, replies, collectors,
                  wpc, writing, rpc, rpos>>
  BY DEF Server, server_data, server_unsolicited, server_status, server_repeats,
     server_ends, callerVars, channelVars, pendingVars, writerVars, readerVars
<1>2. PICK f \in Frames : /\ sent' = Append(sent, f)
                          /\ f.kind \in Status => f.tag \in Cmds
  BY ServerEmits
<1>0. PICK n : n = Len(sent) + 1
  OBVIOUS
<1>3. /\ Len(sent) \in Nat /\ DOMAIN sent = 1 .. Len(sent) /\ DOMAIN sent' = 1 .. n
      /\ (\A i \in DOMAIN sent : sent'[i] = sent[i]) /\ sent'[n] = f
  BY <1>0, <1>2, LogGrows
<1>4. rpos \in Nat /\ rpos <= Len(sent)
  BY DEF LoopsOK
<1>5. \A i \in DOMAIN sent, c \in Cmds : StatusFor(i, c)' <=> StatusFor(i, c)
  BY <1>3 DEF StatusFor
<1>6. Dispatched' = Dispatched /\ Dispatched \subseteq DOMAIN sent
  BY <1>1, <1>3, <1>4 DEF Dispatched, InHand
<1>7. FreshTags' /\ PushesData' /\ WaitersFresh'
  <2>1. FreshTags'
    BY <1>1 DEF AnswerInv, FreshTags
  <2>2. PushesData'
    BY <1>1, <1>3, <1>4 DEF AnswerInv, PushesData, HandKnown, InHand
  <2>3. WaitersFresh'
    BY <1>1, <1>5, <1>6 DEF AnswerInv, WaitersFresh
  <2> QED BY <2>1, <2>2, <2>3
<1>8. CASE \E s \in Statuses : server_status(s)
  <2>0. PICK h : h = Head(inbox)
    OBVIOUS
  <2>1. PICK s \in Statuses : server_status(s)
    BY <1>8
  <2>2. /\ inbox # <<>> /\ inbox' = Tail(inbox)
        /\ answered' = [answered EXCEPT ![h] = n]
        /\ sent'[n].kind = s /\ sent'[n].tag = h
    <3>1. sent' = Append(sent, [kind |-> s, tag |-> h, cls |-> NoClass, own |-> h])
      BY <2>0, <2>1 DEF server_status, Emit
    <3>2. sent'[n] = [kind |-> s, tag |-> h, cls |-> NoClass, own |-> h]
      BY <1>0, <3>1 DEF ServerOK
    <3> QED BY <1>0, <2>0, <2>1, <3>2 DEF server_status
  <2>3. /\ h \in Cmds /\ h \in Range(inbox) /\ Range(inbox') \subseteq Range(inbox)
        /\ Distinct(inbox') /\ h \notin Range(inbox')
    <3>1. inbox \in Seq(Cmds) /\ Distinct(inbox) /\ inbox # <<>>
      BY <2>2 DEF ServerOK, AnswerInv, ReceivedOnce
    <3>2. /\ h \in Cmds /\ h \in Range(inbox) /\ Range(Tail(inbox)) \subseteq Range(inbox)
          /\ Distinct(Tail(inbox)) /\ (h # 0 => h \notin Range(Tail(inbox)))
      BY <2>0, <3>1, LeaveQueue
    <3> QED BY <2>2, <3>2, NCmdsAssumption
  <2>4. answered[h] = 0 /\ h \notin Range(write_rx) /\ ~BeingWritten(h)
        /\ pc[h] \notin {"new", "enqueue"}
    BY <2>3 DEF AnswerInv, ReceivedOnce, QueuedOnce, NotYetQueued
  <2>5. /\ answered'[h] = n
        /\ \A c \in Cmds : c # h => answered'[c] = answered[c]
    BY <2>2, <2>3 DEF ServerOK
  <2>6. NotYetQueued' /\ QueuedOnce'
    BY <1>1, <2>3, <2>4, <2>5 DEF AnswerInv, NotYetQueued, QueuedOnce, BeingWritten
  <2>7. ReceivedOnce'
    BY <1>1, <2>3, <2>4, <2>5 DEF AnswerInv, ReceivedOnce, BeingWritten
  <2>8. AnsweredIsFirst'
    <3>1. StatusFor(n, h)' /\ \A c \in Cmds : c # h => ~StatusFor(n, c)'
      BY <2>2, UsesAssumption DEF StatusFor
    <3>2. \A i \in DOMAIN sent : ~StatusFor(i, h)'
      BY <1>5, <2>3, <2>4 DEF AnswerInv, AnsweredIsFirst
    <3>3. n \in DOMAIN sent' /\ n # 0 /\ 1 .. (n - 1) = DOMAIN sent
      BY <1>0, <1>3
    <3>4. ASSUME NEW c \in Cmds, c # h
          PROVE  /\ answered'[c] = 0 => \A i \in DOMAIN sent' : ~StatusFor(i, c)'
                 /\ answered'[c] # 0 =>
                      /\ answered'[c] \in DOMAIN sent' /\ StatusFor(answered[c], c)'
                      /\ \A i \in 1 .. (answered'[c] - 1) : ~StatusFor(i, c)'
      <4>1. answered'[c] = answered[c]
        BY <2>5, <3>4
      <4>2. CASE answered[c] = 0
        <5>1. \A i \in DOMAIN sent : ~StatusFor(i, c)
          BY <4>2 DEF AnswerInv, AnsweredIsFirst
        <5>2. \A i \in DOMAIN sent' : i \in DOMAIN sent \/ i = n
          BY <1>0, <1>3
        <5> QED BY <1>5, <3>1, <3>4, <4>1, <4>2, <5>1, <5>2
      <4>3. CASE answered[c] # 0
        <5>1. /\ answered[c] \in DOMAIN sent /\ StatusFor(answered[c], c)
              /\ \A i \in 1 .. (answered[c] - 1) : ~StatusFor(i, c)
          BY <4>3 DEF AnswerInv, AnsweredIsFirst
        <5>2. \A i \in 1 .. (answered[c] - 1) : i \in DOMAIN sent
          BY <1>3, <5>1
        <5>3. StatusFor(answered[c], c)'
          BY <1>3, <4>1, <5>1 DEF StatusFor
        <5>4. \A i \in 1 .. (answered[c] - 1) : ~StatusFor(i, c)'
          BY <1>5, <5>1, <5>2
        <5> QED BY <1>0, <1>3, <4>1, <4>3, <5>1, <5>3, <5>4
      <4> QED BY <4>2, <4>3
    <3>5. /\ answered'[h] # 0 /\ answered'[h] \in DOMAIN sent' /\ StatusFor(answered[h], h)'
          /\ \A i \in 1 .. (answered'[h] - 1) : ~StatusFor(i, h)'
      BY <2>5, <3>1, <3>2, <3>3 DEF StatusFor
    <3> QED BY <3>4, <3>5 DEF AnsweredIsFirst
  <2>9. ReplyIsAnswer' /\ OutcomeIsAnswer'
    <3>1. \A c \in Cmds : answered[c] # 0 =>
            answered'[c] = answered[c] /\ sent'[answered[c]] = sent[answered[c]]
      BY <1>3, <2>4, <2>5 DEF AnswerInv, AnsweredIsFirst
    <3> QED BY <1>1, <3>1 DEF AnswerInv, ReplyIsAnswer, OutcomeIsAnswer
  <2> QED BY <1>7, <2>6, <2>7, <2>8, <2>9 DEF AnswerInv
<1>9. CASE \/ server_data \/ \E k \in Noise : server_unsolicited(k)
           \/ \E c \in Repeats, s \in Statuses : server_repeats(c, s)
           \/ \E e \in Ends : server_ends(e)
  <2>1. UNCHANGED <<inbox, answered>>
    BY <1>9 DEF server_data, server_unsolicited, server_repeats, server_ends
  <2>2. \A c \in Cmds : StatusFor(n, c)' => answered[c] # 0
    <3>1. \/ f.kind \notin Status
          \/ f.tag \in Cmds /\ answered[f.tag] # 0
      <4> USE DEF Emit, Status, Endings
      <4>1. CASE server_data
        <5>1. \E g : g.kind = "data" /\ sent' = Append(sent, g)
          BY <4>1 DEF server_data
        <5> QED BY <1>0, <1>3, <5>1 DEF ServerOK
      <4>2. CASE \E k \in Noise : server_unsolicited(k)
        <5>1. \E g : g.kind = "data" /\ sent' = Append(sent, g)
          BY <4>2 DEF server_unsolicited
        <5> QED BY <1>0, <1>3, <5>1 DEF ServerOK
      <4>3. CASE \E e \in Ends : server_ends(e)
        <5>1. \E g : g.kind \in Endings /\ sent' = Append(sent, g)
          BY <4>3, UsesAssumption DEF server_ends
        <5> QED BY <1>0, <1>3, <5>1 DEF ServerOK
      <4>4. CASE \E c \in Repeats, s \in Statuses : server_repeats(c, s)
        <5>1. \E g : g.tag \in Cmds /\ answered[g.tag] # 0 /\ sent' = Append(sent, g)
          BY <4>4, UsesAssumption DEF server_repeats
        <5> QED BY <1>0, <1>3, <5>1 DEF ServerOK
      <4> QED BY <1>9, <4>1, <4>2, <4>3, <4>4
    <3> QED BY <1>3, <3>1 DEF StatusFor
  <2>3. NotYetQueued' /\ QueuedOnce' /\ ReceivedOnce'
    BY <1>1, <2>1 DEF AnswerInv, NotYetQueued, QueuedOnce, ReceivedOnce, BeingWritten
  <2>4. AnsweredIsFirst'
    <3>1. ASSUME NEW c \in Cmds, answered[c] = 0
          PROVE  \A i \in DOMAIN sent' : ~StatusFor(i, c)'
      <4>1. \A i \in DOMAIN sent' : i \in DOMAIN sent \/ i = n
        BY <1>0, <1>3
      <4> QED BY <1>5, <2>2, <3>1, <4>1 DEF AnswerInv, AnsweredIsFirst
    <3>2. ASSUME NEW c \in Cmds, answered[c] # 0
          PROVE  /\ answered[c] \in DOMAIN sent' /\ StatusFor(answered[c], c)'
                 /\ \A i \in 1 .. (answered[c] - 1) : ~StatusFor(i, c)'
      <4>1. /\ answered[c] \in DOMAIN sent /\ StatusFor(answered[c], c)
            /\ \A i \in 1 .. (answered[c] - 1) : ~StatusFor(i, c)
        BY <3>2 DEF AnswerInv, AnsweredIsFirst
      <4>2. \A i \in 1 .. (answered[c] - 1) : i \in DOMAIN sent
        BY <1>3, <4>1
      <4>3. StatusFor(answered[c], c)'
        BY <1>3, <2>1, <4>1 DEF StatusFor
      <4>4. \A i \in 1 .. (answered[c] - 1) : ~StatusFor(i, c)'
        BY <1>5, <4>1, <4>2
      <4> QED BY <1>0, <1>3, <4>1, <4>3, <4>4
    <3> QED BY <2>1, <3>1, <3>2 DEF AnsweredIsFirst
  <2>5. ReplyIsAnswer' /\ OutcomeIsAnswer'
    <3>1. \A c \in Cmds : answered[c] # 0 => sent'[answered[c]] = sent[answered[c]]
      BY <1>3 DEF AnswerInv, AnsweredIsFirst
    <3> QED BY <1>1, <2>1, <3>1 DEF AnswerInv, ReplyIsAnswer, OutcomeIsAnswer
  <2> QED BY <1>7, <2>3, <2>4, <2>5 DEF AnswerInv
<1> QED BY <1>8, <1>9 DEF Server

LEMMA AnswerNext == TypeInv /\ AnswerInv /\ [Next]_vars => AnswerInv'
<1> SUFFICES ASSUME TypeInv, AnswerInv, [Next]_vars PROVE AnswerInv'
  OBVIOUS
<1>1. CASE UNCHANGED vars
  <2>1. UNCHANGED <<tag_counter, pc, outcome, write_rx, reply, replies, collectors,
                    wpc, writing, rpc, rpos, inbox, answered, sent>>
    BY <1>1 DEF vars, callerVars, channelVars, pendingVars, writerVars, readerVars,
       serverVars
  <2>2. OutcomeIsAnswer'
    BY <2>1 DEF AnswerInv, OutcomeIsAnswer
  <2> QED BY <2>1, <2>2, AnswerQuiet
<1> QED BY <1>1, AnswerCaller, AnswerHandle, AnswerWriter, AnswerReader, AnswerServer
        DEF Next

\* Ok and CommandFailed are the server's word.  Whatever the interleaving of
\* callers, loops and server, with timeouts, dropped receivers, repeated statuses
\* and a failing connection, a caller is told Ok or CommandFailed only if the
\* first tagged status carrying its tag says so (client.rs, dispatch_frame).
THEOREM OutcomeCorrect == Spec => []OutcomeIsAnswer
<1>1. Init => TypeInv /\ AnswerInv
  BY TypeInit, AnswerInit
<1>2. TypeInv /\ AnswerInv /\ [Next]_vars => TypeInv' /\ AnswerInv'
  BY TypeNext, AnswerNext
<1>3. AnswerInv => OutcomeIsAnswer
  BY DEF AnswerInv
<1> QED BY <1>1, <1>2, <1>3, PTL DEF Spec

-----------------------------------------------------------------------------
(* A stream comes in wire order and before its reply, the first reply is   *)
(* claimed, and the dispatcher implements CommandChannel.                  *)

HIDE DEF Cmds

Increasing(s) == \A i, j \in DOMAIN s : i < j => s[i] < s[j]

LEMMA JoinRange ==
  \A s \in Seq(Nat), x \in Nat : Range(Append(s, x)) = Range(s) \cup {x}
  BY JoinQueue

\* A larger element joins an increasing queue.
LEMMA IncreasingJoin ==
  ASSUME NEW s \in Seq(Nat), NEW x \in Nat, Increasing(s), \A y \in Range(s) : y < x
  PROVE  Increasing(Append(s, x))
<1>1. /\ Len(s) \in Nat /\ DOMAIN s = 1 .. Len(s) /\ DOMAIN Append(s, x) = 1 .. (Len(s) + 1)
      /\ \A i \in 1 .. Len(s) : Append(s, x)[i] = s[i] /\ s[i] \in Range(s)
      /\ Append(s, x)[Len(s) + 1] = x
  BY AppendProperties, LenProperties DEF Range
<1>2. ASSUME NEW i \in DOMAIN Append(s, x), NEW j \in DOMAIN Append(s, x), i < j
      PROVE  Append(s, x)[i] < Append(s, x)[j]
  <2>1. i \in 1 .. Len(s)
    BY <1>1, <1>2
  <2>2. CASE j \in 1 .. Len(s)
    BY <1>1, <1>2, <2>1, <2>2 DEF Increasing
  <2>3. CASE j = Len(s) + 1
    BY <1>1, <2>1, <2>3
  <2> QED BY <1>1, <2>2, <2>3
<1> QED BY <1>2 DEF Increasing

\* The first element of an increasing queue leaves it.
LEMMA IncreasingLeave ==
  ASSUME NEW s \in Seq(Nat), s # <<>>, Increasing(s)
  PROVE  /\ Head(s) \in Nat /\ Tail(s) \in Seq(Nat) /\ Increasing(Tail(s))
         /\ Range(s) = {Head(s)} \cup Range(Tail(s))
         /\ \A y \in Range(Tail(s)) : Head(s) < y
<1>1. /\ Head(s) \in Nat /\ Tail(s) \in Seq(Nat) /\ Len(Tail(s)) = Len(s) - 1
      /\ \A i \in 1 .. Len(Tail(s)) : Tail(s)[i] = s[i + 1]
  BY HeadTailProperties
<1>2. /\ Len(s) \in Nat /\ Len(s) > 0
      /\ DOMAIN s = 1 .. Len(s) /\ DOMAIN Tail(s) = 1 .. (Len(s) - 1)
  BY <1>1, LenProperties, EmptySeq
<1>3. Head(s) = s[1]
  OBVIOUS
<1>4. \A i \in DOMAIN Tail(s) : Tail(s)[i] = s[i + 1] /\ i + 1 \in DOMAIN s /\ 1 < i + 1
  BY <1>1, <1>2
<1>5. Increasing(Tail(s))
  <2>1. \A i, j \in DOMAIN Tail(s) : i < j => i + 1 < j + 1
    BY <1>2
  <2> QED BY <1>4, <2>1 DEF Increasing
<1>6. \A y \in Range(Tail(s)) : Head(s) < y
  BY <1>2, <1>3, <1>4 DEF Increasing, Range
<1>7. Range(s) = {Head(s)} \cup Range(Tail(s))
  <2>1. \A i \in DOMAIN s : i = 1 \/ (i - 1 \in DOMAIN Tail(s) /\ Tail(s)[i - 1] = s[i])
    BY <1>1, <1>2
  <2>2. Range(s) \subseteq {Head(s)} \cup Range(Tail(s))
    BY <1>3, <2>1 DEF Range
  <2>3. {Head(s)} \cup Range(Tail(s)) \subseteq Range(s)
    BY <1>2, <1>3, <1>4 DEF Range
  <2> QED BY <2>2, <2>3
<1> QED BY <1>1, <1>5, <1>6, <1>7

\* Two increasing sequences, one below the other, make one.
LEMMA IncreasingConcat ==
  ASSUME NEW s \in Seq(Nat), NEW t \in Seq(Nat), Increasing(s), Increasing(t),
         \A x \in Range(s), y \in Range(t) : x < y
  PROVE  Increasing(s \o t) /\ Range(s \o t) = Range(s) \cup Range(t)
<1>1. PICK m \in Nat, n \in Nat : m = Len(s) /\ n = Len(t)
  BY LenProperties
<1>2. PICK u : u = s \o t
  OBVIOUS
<1>3. DOMAIN s = 1 .. m /\ DOMAIN t = 1 .. n /\ DOMAIN u = 1 .. (m + n)
  BY <1>1, <1>2, ConcatProperties, LenProperties
<1>4. /\ \A i \in 1 .. m : u[i] = s[i] /\ s[i] \in Range(s)
      /\ \A i \in (m + 1) .. (m + n) : u[i] = t[i - m] /\ i - m \in 1 .. n
                                       /\ t[i - m] \in Range(t)
  <2>1. \A i \in 1 .. (m + n) : u[i] = IF i <= m THEN s[i] ELSE t[i - m]
    <3>1. \A i \in 1 .. (Len(s) + Len(t)) :
            (s \o t)[i] = IF i <= Len(s) THEN s[i] ELSE t[i - Len(s)]
      BY ConcatProperties
    <3> QED BY <1>1, <1>2, <3>1, Zenon
  <2>2. \A i \in (m + 1) .. (m + n) : i \in 1 .. (m + n) /\ ~(i <= m) /\ i - m \in 1 .. n
    OBVIOUS
  <2>3. \A i \in 1 .. m : i \in 1 .. (m + n) /\ i <= m
    OBVIOUS
  <2> QED BY <1>3, <2>1, <2>2, <2>3 DEF Range
<1>5. ASSUME NEW i \in 1 .. (m + n), NEW j \in 1 .. (m + n), i < j
      PROVE  u[i] < u[j]
  <2>1. CASE j \in 1 .. m
    <3>1. i \in 1 .. m /\ u[i] = s[i] /\ u[j] = s[j]
      BY <1>4, <1>5, <2>1
    <3>2. s[i] < s[j]
      BY <1>3, <1>5, <2>1, <3>1 DEF Increasing
    <3> QED BY <3>1, <3>2
  <2>2. CASE i \in (m + 1) .. (m + n)
    <3>1. i - m < j - m /\ j \in (m + 1) .. (m + n)
      BY <1>5, <2>2
    <3> QED BY <1>3, <1>4, <2>2, <3>1 DEF Increasing
  <2>3. CASE i \in 1 .. m /\ j \in (m + 1) .. (m + n)
    <3>1. u[i] = s[i] /\ s[i] \in Range(s) /\ u[j] = t[j - m] /\ t[j - m] \in Range(t)
      BY <1>4, <2>3
    <3> QED BY <3>1, Zenon
  <2> QED BY <1>5, <2>1, <2>2, <2>3
<1>6. Range(u) = Range(s) \cup Range(t)
  <2>1. \A i \in 1 .. (m + n) : i \in 1 .. m \/ i \in (m + 1) .. (m + n)
    OBVIOUS
  <2>2. Range(u) \subseteq Range(s) \cup Range(t)
    BY <1>3, <1>4, <2>1 DEF Range
  <2>3. \A i \in 1 .. n : i + m \in (m + 1) .. (m + n) /\ (i + m) - m = i /\ i + m \in 1 .. (m + n)
    OBVIOUS
  <2>4. Range(t) \subseteq Range(u)
    <3>1. \A i \in 1 .. n : u[i + m] = t[i]
      BY <1>4, <2>3
    <3> QED BY <1>3, <2>3, <3>1 DEF Range
  <2>5. \A i \in 1 .. m : i \in 1 .. (m + n)
    OBVIOUS
  <2>6. Range(s) \subseteq Range(u)
    BY <1>3, <1>4, <2>5 DEF Range
  <2> QED BY <2>2, <2>4, <2>6
<1> QED BY <1>2, <1>3, <1>5, <1>6 DEF Increasing

-----------------------------------------------------------------------------
(* The order of a stream. *)

\* Frames that reached c's stream, as a set.
InStream(c) == Range(delivered[c]) \cup Range(frames[c])

\* Frames of c's stream, and the one the read loop is about to put there, are
\* data and come before c's status on the wire; the older ones come first.
BeforeAnswer(n, c) == answered[c] # 0 => n < answered[c]
HandBeforeAnswer == InHand /\ route # 0 => BeforeAnswer(rpos, route)
StreamOrdered(c) ==
  /\ Increasing(delivered[c]) /\ Increasing(frames[c])
  /\ \A x \in Range(delivered[c]), y \in Range(frames[c]) : x < y
  /\ \A x \in InStream(c) :
       x \in Dispatched /\ sent[x].kind = "data" /\ BeforeAnswer(x, c)
StreamInv == HandBeforeAnswer /\ \A c \in Cmds : StreamOrdered(c)

\* What is dispatched is on the wire and behind the read loop.
LEMMA DispatchedPlaces ==
  ASSUME TypeInv
  PROVE  /\ Len(sent) \in Nat /\ DOMAIN sent = 1 .. Len(sent)
         /\ rpos \in Nat /\ rpos <= Len(sent)
         /\ Dispatched \subseteq DOMAIN sent
         /\ \A i \in Dispatched : i \in Nat /\ i > 0 /\ i <= rpos /\ (InHand => i < rpos)
         /\ InHand => rpos \in DOMAIN sent /\ rpos \notin Dispatched
  BY LenProperties DEF TypeInv, TypeOK, ServerOK, LoopsOK, Dispatched, ReaderKnows, HandKnown

LEMMA StreamInit == Init => StreamInv
<1> SUFFICES ASSUME Init PROVE StreamInv
  OBVIOUS
<1>1. rpc = "read" /\ \A c \in Cmds : delivered[c] = <<>> /\ frames[c] = <<>>
  BY DEF Init
<1>2. \A c \in Cmds : Range(delivered[c]) = {} /\ Range(frames[c]) = {}
  BY <1>1 DEF Range
<1>3. HandBeforeAnswer
  BY <1>1 DEF HandBeforeAnswer, InHand
<1> QED BY <1>1, <1>2, <1>3 DEF StreamInv, StreamOrdered, InStream, Increasing

\* A step that moves no frame.
LEMMA StreamQuiet ==
  ASSUME StreamInv, UNCHANGED <<delivered, frames, answered>>, HandBeforeAnswer',
         Dispatched \subseteq Dispatched', \A i \in Dispatched : sent'[i] = sent[i]
  PROVE  StreamInv'
  BY DEF StreamInv, StreamOrdered, InStream, BeforeAnswer

\* What a caller does to its stream: nothing, take the oldest frame for itself or
\* for the broadcast, or drop them all.
LEMMA CallerStream ==
  ASSUME NEW c \in Cmds, Caller(c)
  PROVE  /\ UNCHANGED <<rpc, rpos, route, answered, sent>>
         /\ \/ UNCHANGED <<delivered, frames>>
            \/ /\ frames[c] # <<>> /\ frames' = [frames EXCEPT ![c] = Tail(@)]
               /\ \/ UNCHANGED delivered
                  \/ delivered' = [delivered EXCEPT ![c] = Append(@, Head(frames[c]))]
            \/ UNCHANGED delivered /\ frames' = [frames EXCEPT ![c] = <<>>]
<1>1. CASE next_frame(c)
  BY <1>1 DEF next_frame, readerVars, serverVars
<1>2. CASE drain(c)
  BY <1>2 DEF drain, readerVars, serverVars
<1>3. CASE timeout(c) \/ cancel(c)
  BY <1>3 DEF timeout, cancel, Abandon, readerVars, serverVars
<1>4. CASE (\E m \in Modes, w \in Filters : next_tag(c, m, w)) \/ enqueue_command(c)
           \/ enqueue_closed(c)
  BY <1>4 DEF next_tag, enqueue_command, enqueue_closed, channelVars, readerVars, serverVars
<1>5. CASE into_reply(c) \/ await_reply(c) \/ reply_closed(c)
  BY <1>5 DEF into_reply, await_reply, reply_closed, channelVars, readerVars, serverVars
<1> QED BY <1>1, <1>2, <1>3, <1>4, <1>5 DEF Caller

LEMMA StreamCaller ==
  ASSUME TypeInv, StreamInv, NEW c \in Cmds, Caller(c)
  PROVE  StreamInv'
<1> USE DEF TypeInv, TypeOK, CallerOK, StreamOK
<1>1. UNCHANGED <<rpc, rpos, route, answered, sent>> /\ Dispatched' = Dispatched
  BY CallerStream DEF Dispatched, InHand
<1>2. HandBeforeAnswer'
  BY <1>1 DEF StreamInv, HandBeforeAnswer, BeforeAnswer, InHand
<1>3. CASE UNCHANGED <<delivered, frames>>
  BY <1>1, <1>2, <1>3, StreamQuiet
<1>4. ASSUME StreamOrdered(c)', \A d \in Cmds : d # c => delivered'[d] = delivered[d]
                                                        /\ frames'[d] = frames[d]
      PROVE  StreamInv'
  <2>1. \A d \in Cmds : d # c => StreamOrdered(d)'
    BY <1>1, <1>4 DEF StreamInv, StreamOrdered, InStream, BeforeAnswer
  <2> QED BY <1>2, <1>4, <2>1 DEF StreamInv
<1>5. StreamOrdered(c) /\ delivered[c] \in Seq(Nat) /\ frames[c] \in Seq(Nat)
  BY DEF StreamInv
<1>6. CASE frames[c] # <<>> /\ frames' = [frames EXCEPT ![c] = Tail(@)]
  <2>0. PICK h, r : h = Head(frames[c]) /\ r = Tail(frames[c])
    OBVIOUS
  <2>1. /\ h \in Nat /\ r \in Seq(Nat) /\ Increasing(r)
        /\ Range(frames[c]) = {h} \cup Range(r)
        /\ \A y \in Range(r) : h < y
    BY <1>5, <1>6, <2>0, IncreasingLeave DEF StreamOrdered
  <2>2. frames'[c] = r /\ \A d \in Cmds : d # c => frames'[d] = frames[d]
    BY <1>6, <2>0
  <2>3. CASE UNCHANGED delivered
    <3>1. StreamOrdered(c)'
      BY <1>1, <1>5, <2>1, <2>2, <2>3 DEF StreamOrdered, InStream, BeforeAnswer
    <3> QED BY <1>4, <2>2, <2>3, <3>1
  <2>4. CASE delivered' = [delivered EXCEPT ![c] = Append(@, Head(frames[c]))]
    <3>0. /\ delivered'[c] = Append(delivered[c], h)
          /\ \A d \in Cmds : d # c => delivered'[d] = delivered[d]
      BY <2>0, <2>4
    <3>1. \A x \in Range(delivered[c]) : x < h
      BY <1>5, <2>1 DEF StreamOrdered
    <3>2. Increasing(delivered'[c])
      BY <1>5, <2>1, <3>0, <3>1, IncreasingJoin DEF StreamOrdered
    <3>3. Range(delivered'[c]) = Range(delivered[c]) \cup {h}
      BY <1>5, <2>1, <3>0, JoinRange
    <3>4. InStream(c)' = InStream(c)
      BY <2>1, <2>2, <3>3 DEF InStream
    <3>5. \A x \in Range(delivered'[c]), y \in Range(frames'[c]) : x < y
      BY <1>5, <2>1, <2>2, <3>3 DEF StreamOrdered
    <3>6. StreamOrdered(c)'
      BY <1>1, <1>5, <2>1, <2>2, <3>2, <3>4, <3>5 DEF StreamOrdered, BeforeAnswer
    <3> QED BY <1>4, <2>2, <3>0, <3>6
  <2> QED BY <1>6, <2>3, <2>4, CallerStream
<1>7. CASE UNCHANGED delivered /\ frames' = [frames EXCEPT ![c] = <<>>]
  <2>1. frames'[c] = <<>> /\ \A d \in Cmds : d # c => frames'[d] = frames[d]
    BY <1>7
  <2>2. Range(frames'[c]) = {} /\ Increasing(frames'[c])
    BY <2>1 DEF Range, Increasing
  <2>3. StreamOrdered(c)'
    BY <1>1, <1>5, <1>7, <2>2 DEF StreamOrdered, InStream, BeforeAnswer
  <2> QED BY <1>4, <1>7, <2>1, <2>3
<1> QED BY <1>3, <1>6, <1>7, CallerStream

LEMMA StreamReader ==
  ASSUME TypeInv, AnswerInv, StreamInv, Reader
  PROVE  StreamInv'
<1> USE DEF TypeInv, TypeOK, CallerOK, StreamOK
<1>0. /\ Len(sent) \in Nat /\ DOMAIN sent = 1 .. Len(sent)
      /\ rpos \in Nat /\ rpos <= Len(sent)
      /\ \A i \in Dispatched : i \in Nat /\ i > 0 /\ i <= rpos /\ (InHand => i < rpos)
  BY DispatchedPlaces
<1>1. UNCHANGED <<pc, answered, sent, delivered>>
  BY DEF Reader, route_for, dispatch_tagged, dispatch_broadcast, dispatch_reserve,
     dispatch_push, read_loop_end, callerVars, serverVars
<1>2. CASE route_for
  <2>1. /\ rpc = "read" /\ rpos' = rpos + 1 /\ rpos < Len(sent) /\ UNCHANGED frames
        /\ rpc' = "dispatch"
    BY <1>2 DEF route_for, channelVars
  <2>2. Dispatched' = 1 .. rpos /\ Dispatched = 1 .. rpos
    BY <1>0, <2>1 DEF Dispatched, InHand
  <2>3. HandBeforeAnswer'
    <3> SUFFICES ASSUME route' # 0, answered[route'] # 0 PROVE rpos' < answered[route']
      BY <1>1 DEF HandBeforeAnswer, BeforeAnswer
    <3>1. sent[rpos + 1].kind = "data" /\ route' \in Range(collectors)
      BY <1>2 DEF route_for, collector_for, Range
    <3>2. route' \in Cmds
      BY <3>1, ElementOfSeq, LenProperties DEF PendingOK, Range
    <3>3. answered[route'] \in DOMAIN sent /\ StatusFor(answered[route'], route')
      BY <3>2 DEF AnswerInv, AnsweredIsFirst
    <3>4. answered[route'] \notin 1 .. rpos
      BY <2>2, <3>1, <3>2, <3>3 DEF AnswerInv, WaitersFresh
    <3>5. answered[route'] # rpos + 1
      BY <3>1, <3>3 DEF StatusFor, Status
    <3> QED BY <1>0, <2>1, <3>3, <3>4, <3>5
  <2> QED BY <1>1, <2>1, <2>2, <2>3, StreamQuiet
<1>3. CASE dispatch_tagged \/ dispatch_broadcast \/ read_loop_end \/ dispatch_reserve
  <2>1. UNCHANGED frames /\ rpos' \in {rpos, rpos + 1}
    BY <1>3 DEF dispatch_tagged, dispatch_broadcast, read_loop_end, dispatch_reserve,
       channelVars
  <2>2. Dispatched \subseteq Dispatched' /\ HandBeforeAnswer'
    <3>1. CASE dispatch_reserve
      BY <1>1, <3>1 DEF dispatch_reserve, Dispatched, InHand, StreamInv,
         HandBeforeAnswer, BeforeAnswer
    <3>2. CASE dispatch_tagged \/ dispatch_broadcast \/ read_loop_end
      <4>1. ~InHand'
        BY <3>2 DEF dispatch_tagged, dispatch_broadcast, read_loop_end, InHand
      <4> QED BY <1>0, <2>1, <4>1 DEF Dispatched, HandBeforeAnswer
    <3> QED BY <1>3, <3>1, <3>2
  <2> QED BY <1>1, <2>1, <2>2, StreamQuiet
<1>4. CASE dispatch_push
  <2>1. /\ rpc = "push" /\ rpc' = "read" /\ rpos' = rpos /\ InHand /\ ~InHand'
        /\ route \in Cmds /\ route # 0 /\ rpos > 0
    BY <1>4 DEF dispatch_push, ReaderKnows, PermitGood, HandKnown, LoopsOK, InHand
  <2>2. Dispatched \subseteq Dispatched' /\ rpos \in Dispatched' /\ HandBeforeAnswer'
    BY <1>0, <2>1 DEF Dispatched, HandBeforeAnswer
  <2>3. CASE UNCHANGED frames
    BY <1>1, <2>2, <2>3, StreamQuiet
  <2>4. CASE frames' = [frames EXCEPT ![route] = Append(@, rpos)]
    <3>1. /\ frames'[route] = Append(frames[route], rpos)
          /\ \A d \in Cmds : d # route => frames'[d] = frames[d]
      BY <2>1, <2>4
    <3>2. \A d \in Cmds : d # route => StreamOrdered(d)'
      BY <1>1, <2>2, <3>1 DEF StreamInv, StreamOrdered, InStream, BeforeAnswer
    <3>3. StreamOrdered(route) /\ frames[route] \in Seq(Nat)
      BY <2>1 DEF StreamInv
    <3>4. \A x \in InStream(route) : x < rpos
      BY <1>0, <2>1, <3>3 DEF StreamOrdered
    <3>5. Increasing(frames'[route])
      BY <1>0, <3>1, <3>3, <3>4, IncreasingJoin DEF StreamOrdered, InStream
    <3>6. Range(frames'[route]) = Range(frames[route]) \cup {rpos}
      BY <1>0, <3>1, <3>3, JoinRange
    <3>7. \A x \in Range(delivered[route]), y \in Range(frames'[route]) : x < y
      BY <3>3, <3>4, <3>6 DEF StreamOrdered, InStream
    <3>8. sent[rpos].kind = "data" /\ BeforeAnswer(rpos, route)
      BY <2>1 DEF AnswerInv, PushesData, StreamInv, HandBeforeAnswer
    <3>9. \A r \in Cmds : r = route => StreamOrdered(r)'
      BY <1>1, <2>2, <3>3, <3>5, <3>6, <3>7, <3>8 DEF StreamOrdered, InStream, BeforeAnswer
    <3> QED BY <2>2, <3>2, <3>9 DEF StreamInv
  <2> QED BY <1>4, <2>3, <2>4 DEF dispatch_push
<1> QED BY <1>2, <1>3, <1>4 DEF Reader

LEMMA StreamServer ==
  ASSUME TypeInv, StreamInv, Server
  PROVE  StreamInv'
<1>0. /\ Len(sent) \in Nat /\ DOMAIN sent = 1 .. Len(sent)
      /\ rpos \in Nat /\ rpos <= Len(sent) /\ Dispatched \subseteq DOMAIN sent
      /\ \A i \in Dispatched : i \in Nat /\ i > 0 /\ i <= rpos
  BY DispatchedPlaces
<1>1. UNCHANGED <<delivered, frames, rpc, rpos, route>>
  BY DEF Server, server_data, server_unsolicited, server_status, server_repeats,
     server_ends, callerVars, channelVars, readerVars
<1>2. Dispatched' = Dispatched
  BY <1>1 DEF Dispatched, InHand
<1>3. \A i \in Dispatched : sent'[i] = sent[i]
  <2>1. PICK f \in Frames : sent' = Append(sent, f)
    BY ServerEmits
  <2> QED BY <1>0, <2>1, LogGrows
<1>4. CASE UNCHANGED answered
  <2>1. HandBeforeAnswer'
    BY <1>1, <1>4 DEF StreamInv, HandBeforeAnswer, BeforeAnswer, InHand
  <2> QED BY <1>1, <1>2, <1>3, <1>4, <2>1, StreamQuiet
<1>5. CASE \E s \in Statuses : server_status(s)
  <2>1. \E h : answered' = [answered EXCEPT ![h] = Len(sent) + 1]
    BY <1>5 DEF server_status
  <2>2. \A c \in Cmds : answered'[c] = answered[c] \/ answered'[c] = Len(sent) + 1
    BY <2>1 DEF TypeInv, TypeOK, ServerOK
  <2>3. HandBeforeAnswer'
    <3>1. route # 0 => route \in Cmds
      BY DEF TypeInv, TypeOK, LoopsOK
    <3> QED BY <1>0, <1>1, <2>2, <3>1 DEF StreamInv, HandBeforeAnswer, BeforeAnswer, InHand
  <2>4. \A c \in Cmds, x \in Dispatched : BeforeAnswer(x, c) => BeforeAnswer(x, c)'
    BY <1>0, <2>2 DEF BeforeAnswer
  <2>5. \A c \in Cmds : StreamOrdered(c)'
    BY <1>1, <1>2, <1>3, <2>4 DEF StreamInv, StreamOrdered, InStream
  <2> QED BY <2>3, <2>5 DEF StreamInv
<1> QED BY <1>4, <1>5 DEF Server, server_data, server_unsolicited, server_repeats, server_ends

LEMMA StreamNextStep == TypeInv /\ AnswerInv /\ StreamInv /\ [Next]_vars => StreamInv'
<1> SUFFICES ASSUME TypeInv, AnswerInv, StreamInv, [Next]_vars PROVE StreamInv'
  OBVIOUS
<1>1. CASE writer \/ send_raw \/ drop_client \/ Writer \/ UNCHANGED vars
  <2>1. UNCHANGED <<delivered, frames, answered, rpc, rpos, route, sent>>
    BY <1>1 DEF writer, send_raw, drop_client, Writer, write_loop_recv, write_all,
       write_error, write_loop_end, WriterStops, vars, callerVars, channelVars, readerVars,
       serverVars
  <2>2. HandBeforeAnswer' /\ Dispatched' = Dispatched
    BY <2>1 DEF StreamInv, HandBeforeAnswer, BeforeAnswer, InHand, Dispatched
  <2> QED BY <2>1, <2>2, StreamQuiet
<1> QED BY <1>1, StreamCaller, StreamReader, StreamServer DEF Next

LEMMA StreamAlways == Spec => [](TypeInv /\ AnswerInv /\ StreamInv)
<1>1. Init => TypeInv /\ AnswerInv /\ StreamInv
  BY TypeInit, AnswerInit, StreamInit
<1>2. TypeInv /\ AnswerInv /\ StreamInv /\ [Next]_vars => (TypeInv /\ AnswerInv /\ StreamInv)'
  BY TypeNext, AnswerNext, StreamNextStep
<1> QED BY <1>1, <1>2, PTL DEF Spec

\* A stream's frames are delivered in wire order and all precede the command's
\* tagged reply, for any number of streams and any capacities (client.rs,
\* next_frame and send_command_streaming).
THEOREM StreamsInOrder == Spec => []StreamBeforeReply
<1>1. ASSUME TypeInv, AnswerInv, StreamInv PROVE StreamBeforeReply
  <2> SUFFICES ASSUME NEW c \in Cmds
               PROVE  /\ Increasing(Streamed(c))
                      /\ \A i \in Dispatched, x \in Range(Streamed(c)) :
                           StatusFor(i, c) => x < i
    BY DEF StreamBeforeReply, Increasing, StatusFor, Range
  <2>1. delivered[c] \in Seq(Nat) /\ frames[c] \in Seq(Nat)
    BY <1>1 DEF TypeInv, TypeOK, CallerOK, StreamOK
  <2>2. StreamOrdered(c)
    BY <1>1 DEF StreamInv
  <2>3. Increasing(Streamed(c)) /\ Range(Streamed(c)) = InStream(c)
    BY <2>1, <2>2, IncreasingConcat DEF StreamOrdered, Streamed, InStream
  <2>4. ASSUME NEW i \in Dispatched, NEW x \in InStream(c), StatusFor(i, c)
        PROVE  x < i
    <3>1. i \in DOMAIN sent /\ i \in Nat /\ DOMAIN sent = 1 .. Len(sent) /\ x \in Nat
      BY <1>1, <2>2, DispatchedPlaces DEF StreamOrdered
    <3>2. answered[c] # 0 /\ answered[c] \in DOMAIN sent /\ i \notin 1 .. (answered[c] - 1)
      BY <1>1, <2>4, <3>1 DEF AnswerInv, AnsweredIsFirst
    <3>3. x < answered[c]
      BY <2>2, <3>2 DEF StreamOrdered, BeforeAnswer
    <3> QED BY <1>1, <3>1, <3>2, <3>3, DispatchedPlaces
  <2> QED BY <2>3, <2>4
<1> QED BY <1>1, StreamAlways, PTL

-----------------------------------------------------------------------------
(* The first reply. *)

\* A command the server may answer has its waiter in the table until a status
\* for it has been dispatched or the read loop is gone.
Reached(c) == BeingWritten(c) \/ c \in Range(inbox) \/ answered[c] # 0
Waiting == \A c \in Cmds : Reached(c) /\ rpc # "stopped" =>
             c \in replies \/ \E i \in Dispatched : StatusFor(i, c)
\* What is broadcast has been dispatched.
CastsDispatched == \A i \in DOMAIN events : events[i] \in Dispatched
ClaimInv == Waiting /\ CastsDispatched /\ FirstReplyClaimed

LEMMA ClaimInit == Init => ClaimInv
<1> SUFFICES ASSUME Init PROVE ClaimInv
  OBVIOUS
<1>1. /\ DOMAIN events = {} /\ wpc = "recv" /\ inbox = <<>>
      /\ \A c \in Cmds : answered[c] = 0
  BY DEF Init
<1>2. Range(inbox) = {}
  BY <1>1 DEF Range
<1>3. \A c \in Cmds : ~Reached(c)
  BY <1>1, <1>2 DEF Reached, BeingWritten
<1> QED BY <1>1, <1>3 DEF ClaimInv, Waiting, CastsDispatched, FirstReplyClaimed

\* A step that dispatches nothing more to the broadcast than data or a status
\* that is not the first.
LEMMA CastsKept ==
  ASSUME TypeInv, CastsDispatched, FirstReplyClaimed,
         Dispatched \subseteq Dispatched', \A i \in DOMAIN sent : sent'[i] = sent[i],
         \/ UNCHANGED events
         \/ \E x \in Nat : /\ events' = Append(events, x) /\ x \in Dispatched'
                           /\ x \in DOMAIN sent
                           /\ \/ sent[x].kind \notin Status
                              \/ \E j \in 1 .. (x - 1) : StatusFor(j, sent[x].tag)
  PROVE  CastsDispatched' /\ FirstReplyClaimed'
<1>0. /\ DOMAIN sent = 1 .. Len(sent) /\ Len(sent) \in Nat /\ Dispatched \subseteq DOMAIN sent
      /\ events \in Seq(Nat)
  BY DispatchedPlaces DEF TypeInv, TypeOK, StreamOK
<1>1. ASSUME NEW i \in DOMAIN events
      PROVE  /\ events[i] \in Dispatched'
             /\ sent'[events[i]].kind \in Status =>
                  \E j \in 1 .. (events[i] - 1) :
                    sent'[j].kind \in Status /\ sent'[j].tag = sent'[events[i]].tag
  <2>1. events[i] \in Dispatched /\ events[i] \in DOMAIN sent
    BY <1>0 DEF CastsDispatched
  <2>2. sent'[events[i]] = sent[events[i]]
    BY <2>1
  <2>3. \A j \in 1 .. (events[i] - 1) : j \in DOMAIN sent
    BY <1>0, <2>1
  <2> QED BY <2>1, <2>2, <2>3 DEF FirstReplyClaimed
<1>2. CASE UNCHANGED events
  BY <1>1, <1>2 DEF CastsDispatched, FirstReplyClaimed
<1>3. ASSUME NEW x \in Nat, events' = Append(events, x), x \in Dispatched', x \in DOMAIN sent,
             \/ sent[x].kind \notin Status
             \/ \E j \in 1 .. (x - 1) : StatusFor(j, sent[x].tag)
      PROVE  CastsDispatched' /\ FirstReplyClaimed'
  <2>1. /\ Len(events) \in Nat /\ DOMAIN events = 1 .. Len(events)
        /\ DOMAIN events' = 1 .. (Len(events) + 1)
        /\ \A i \in 1 .. Len(events) : events'[i] = events[i]
        /\ events'[Len(events) + 1] = x
    BY <1>0, <1>3, AppendProperties, LenProperties
  <2>2. \A i \in DOMAIN events' : \/ i \in DOMAIN events /\ events'[i] = events[i]
                                  \/ events'[i] = x
    BY <2>1
  <2>3. sent'[x].kind \in Status =>
          \E j \in 1 .. (x - 1) : sent'[j].kind \in Status /\ sent'[j].tag = sent'[x].tag
    <3>1. sent'[x] = sent[x] /\ \A j \in 1 .. (x - 1) : j \in DOMAIN sent
      BY <1>0, <1>3
    <3> QED BY <1>3, <3>1 DEF StatusFor
  <2>4. CastsDispatched'
    BY <1>1, <1>3, <2>2 DEF CastsDispatched
  <2>5. FirstReplyClaimed'
    BY <1>1, <2>2, <2>3 DEF FirstReplyClaimed
  <2> QED BY <2>4, <2>5
<1> QED BY <1>2, <1>3

\* A step after which no more commands can be answered than before, and every
\* waiter is where it was.
LEMMA WaitingKept ==
  ASSUME TypeInv, Waiting, Dispatched \subseteq Dispatched',
         \A i \in DOMAIN sent : sent'[i] = sent[i],
         rpc = "stopped" => rpc' = "stopped",
         \A c \in Cmds : Reached(c)' => Reached(c) \/ c \in replies',
         rpc' = "stopped" \/ replies \subseteq replies'
  PROVE  Waiting'
<1>1. \A i \in Dispatched, c \in Cmds : StatusFor(i, c) => i \in Dispatched' /\ StatusFor(i, c)'
  BY DispatchedPlaces DEF StatusFor
<1> QED BY <1>1 DEF Waiting

LEMMA ClaimCaller ==
  ASSUME TypeInv, StreamInv, ClaimInv, NEW c \in Cmds, Caller(c)
  PROVE  ClaimInv'
<1>1. /\ UNCHANGED <<rpc, rpos, answered, sent>> /\ Dispatched' = Dispatched
  BY CallerStream DEF Dispatched, InHand
<1>2. UNCHANGED <<wpc, writing, inbox, replies>>
  BY DEF Caller, next_tag, enqueue_command, enqueue_closed, next_frame,
     into_reply, drain, await_reply, reply_closed, timeout, cancel, Abandon,
     pendingVars, writerVars, serverVars
<1>3. Waiting'
  BY <1>1, <1>2 DEF ClaimInv, Waiting, Reached, BeingWritten, StatusFor
<1>4. CASE UNCHANGED events
  BY <1>1, <1>3, <1>4, CastsKept DEF ClaimInv
<1>5. CASE drain(c) /\ frames[c] # <<>>
  <2>1. events' = Append(events, Head(frames[c]))
    BY <1>5 DEF drain
  <2>2. Head(frames[c]) \in Range(frames[c]) /\ Head(frames[c]) \in Nat
    BY <1>5, LeaveQueue DEF TypeInv, TypeOK, StreamOK
  <2>3. Head(frames[c]) \in Dispatched /\ sent[Head(frames[c])].kind = "data"
    BY <2>2 DEF StreamInv, StreamOrdered, InStream
  <2>4. Head(frames[c]) \in DOMAIN sent
    BY <2>3, DispatchedPlaces
  <2>5. "data" \notin Status
    BY DEF Status
  <2> QED BY <1>1, <1>3, <2>1, <2>2, <2>3, <2>4, <2>5, CastsKept DEF ClaimInv
<1> QED
  BY <1>4, <1>5
     DEF Caller, next_tag, enqueue_command, enqueue_closed, next_frame, into_reply, drain,
         await_reply, reply_closed, timeout, cancel, Abandon, channelVars

LEMMA ClaimReader ==
  ASSUME TypeInv, AnswerInv, ClaimInv, Reader
  PROVE  ClaimInv'
<1>0. /\ Len(sent) \in Nat /\ DOMAIN sent = 1 .. Len(sent)
      /\ rpos \in Nat /\ rpos <= Len(sent) /\ Dispatched \subseteq DOMAIN sent
      /\ \A i \in Dispatched : i \in Nat /\ i > 0 /\ i <= rpos /\ (InHand => i < rpos)
      /\ InHand => rpos \in DOMAIN sent
  BY DispatchedPlaces
<1>1. UNCHANGED <<answered, sent, inbox, wpc, writing>>
  BY DEF Reader, route_for, dispatch_tagged, dispatch_broadcast, dispatch_reserve,
     dispatch_push, read_loop_end, writerVars, serverVars
<1>2. \A c \in Cmds : Reached(c)' => Reached(c)
  BY <1>1 DEF Reached, BeingWritten
<1>3. CASE route_for \/ dispatch_reserve \/ dispatch_push \/ read_loop_end
  <2>1. /\ UNCHANGED events /\ rpc # "stopped"
        /\ rpc' = "stopped" \/ UNCHANGED replies
        /\ \/ rpc = "read" /\ rpos' = rpos + 1
           \/ rpc = "dispatch" /\ rpc' = "push" /\ rpos' = rpos
           \/ rpc = "push" /\ rpc' = "read" /\ rpos' = rpos
    BY <1>3 DEF route_for, dispatch_reserve, dispatch_push, read_loop_end, channelVars,
       pendingVars
  <2>2. Dispatched \subseteq Dispatched'
    BY <1>0, <2>1 DEF Dispatched, InHand
  <2>3. Waiting'
    BY <1>1, <1>2, <2>1, <2>2, WaitingKept DEF ClaimInv
  <2> QED BY <1>1, <2>1, <2>2, <2>3, CastsKept DEF ClaimInv
<1>4. CASE dispatch_broadcast
  <2>1. /\ rpc = "dispatch" /\ rpc' = "read" /\ rpos' = rpos /\ UNCHANGED replies
        /\ events' = Append(events, rpos) /\ sent[rpos].kind = "data"
    BY <1>4 DEF dispatch_broadcast, pendingVars
  <2>2. Dispatched \subseteq Dispatched' /\ rpos \in Dispatched' /\ rpos \in DOMAIN sent
    BY <1>0, <2>1 DEF Dispatched, InHand
  <2>3. Waiting'
    BY <1>1, <1>2, <2>1, <2>2, WaitingKept DEF ClaimInv
  <2>4. sent[rpos].kind \notin Status
    BY <2>1 DEF Status
  <2> QED BY <1>0, <1>1, <2>1, <2>2, <2>3, <2>4, CastsKept DEF ClaimInv
<1>5. CASE dispatch_tagged
  <2>0. PICK t : t = sent[rpos].tag
    OBVIOUS
  <2>1. /\ rpc = "dispatch" /\ rpc' = "read" /\ rpos' = rpos /\ replies' = replies \ {t}
        /\ sent[rpos].kind \in Status
        /\ IF t \in replies THEN UNCHANGED events ELSE events' = Append(events, rpos)
    BY <1>5, <2>0 DEF dispatch_tagged, complete
  <2>2. Dispatched \subseteq Dispatched' /\ rpos \in Dispatched' /\ rpos \in DOMAIN sent
    BY <1>0, <2>1 DEF Dispatched, InHand
  <2>3. t \in Cmds /\ StatusFor(rpos, t)
    BY <2>0, <2>1, <2>2 DEF StatusFor, TypeInv, ReaderKnows, TagsKnown
  <2>4. Waiting'
    <3>1. \A i \in Dispatched \cup {rpos}, c \in Cmds :
            StatusFor(i, c) => i \in Dispatched' /\ StatusFor(i, c)'
      BY <1>1, <2>2 DEF StatusFor
    <3> QED BY <1>2, <2>1, <2>3, <3>1 DEF ClaimInv, Waiting
  <2>5. t \notin replies => \E j \in 1 .. (rpos - 1) : StatusFor(j, t)
    <3>1. Reached(t) /\ rpc # "stopped"
      BY <2>1, <2>2, <2>3 DEF AnswerInv, AnsweredIsFirst, Reached
    <3>2. t \notin replies => \E j \in Dispatched : StatusFor(j, t)
      BY <2>3, <3>1 DEF ClaimInv, Waiting
    <3> QED BY <1>0, <2>1, <3>2 DEF InHand
  <2> QED BY <1>0, <1>1, <2>0, <2>1, <2>2, <2>4, <2>5, CastsKept DEF ClaimInv
<1> QED BY <1>3, <1>4, <1>5 DEF Reader

\* What the server wrote stays written.
LEMMA LogKept ==
  ASSUME TypeInv, writer \/ send_raw \/ drop_client \/ Writer \/ Server \/ UNCHANGED vars
  PROVE  \A i \in DOMAIN sent : sent'[i] = sent[i]
<1>1. CASE Server
  <2>1. PICK f \in Frames : sent' = Append(sent, f)
    BY <1>1, ServerEmits
  <2> QED BY <2>1, LogGrows
<1>2. CASE UNCHANGED sent
  BY <1>2
<1> QED BY <1>1, <1>2 DEF writer, send_raw, drop_client, Writer, write_loop_recv,
           write_all, write_error, write_loop_end, WriterStops, vars, serverVars

LEMMA ClaimRest ==
  ASSUME TypeInv, ClaimInv,
         writer \/ send_raw \/ drop_client \/ Writer \/ Server \/ UNCHANGED vars
  PROVE  ClaimInv'
<1>1. UNCHANGED <<rpc, rpos, events>> /\ Dispatched' = Dispatched
  BY DEF writer, send_raw, drop_client, Writer, write_loop_recv, write_all,
     write_error, write_loop_end, WriterStops, Server, server_data, server_unsolicited,
     server_status, server_repeats, server_ends, vars, channelVars, readerVars, Dispatched,
     InHand
<1>2. \A i \in DOMAIN sent : sent'[i] = sent[i]
  BY LogKept
<1>3. CastsDispatched' /\ FirstReplyClaimed'
  BY <1>1, <1>2, CastsKept DEF ClaimInv
<1>4. rpc' = "stopped" \/ replies \subseteq replies'
  BY <1>1 DEF writer, send_raw, drop_client, Writer, write_loop_recv, register, write_all,
     write_error, write_loop_end, WriterStops, Server, server_data, server_unsolicited,
     server_status, server_repeats, server_ends, vars, pendingVars
<1>5. \A c \in Cmds : Reached(c)' => Reached(c) \/ c \in replies'
  <2>1. CASE write_loop_recv
    <3>1. UNCHANGED <<answered, inbox>> /\ writing' = Head(write_rx)
      BY <2>1 DEF write_loop_recv, serverVars
    <3>2. Head(write_rx) # 0 => Head(write_rx) \in replies'
      BY <2>1 DEF write_loop_recv, register
    <3>3. \A c \in Cmds : c # 0
      BY NCmdsAssumption DEF Cmds
    <3> QED BY <3>1, <3>2, <3>3 DEF Reached, BeingWritten
  <2>2. CASE write_all
    <3>1. /\ UNCHANGED answered /\ wpc = "write" /\ wpc' = "recv"
          /\ inbox' = inbox \/ (writing # 0 /\ inbox' = Append(inbox, writing))
      BY <2>2 DEF write_all
    <3>2. inbox' = inbox \/ Range(inbox') = Range(inbox) \cup {writing}
      <4>1. inbox \in Seq(Cmds \cup {0}) /\ writing \in Cmds \cup {0}
        BY SeqMonotonic DEF TypeInv, TypeOK, ServerOK, LoopsOK
      <4>2. Range(Append(inbox, writing)) = Range(inbox) \cup {writing}
        BY <4>1, JoinQueue
      <4> QED BY <3>1, <4>2
    <3> QED BY <3>1, <3>2 DEF Reached, BeingWritten
  <2>3. CASE \E s \in Statuses : server_status(s)
    <3>1. /\ UNCHANGED <<wpc, writing>> /\ inbox # <<>> /\ inbox' = Tail(inbox)
          /\ answered' = [answered EXCEPT ![Head(inbox)] = Len(sent) + 1]
      BY <2>3 DEF server_status, writerVars
    <3>2. Head(inbox) \in Range(inbox) /\ Range(inbox') \subseteq Range(inbox)
      BY <3>1, LeaveQueue DEF TypeInv, TypeOK, ServerOK
    <3> QED BY <3>1, <3>2 DEF Reached, BeingWritten, TypeInv, TypeOK, ServerOK
  <2>4. CASE WriterStops
    BY <2>4 DEF WriterStops, serverVars, Reached, BeingWritten
  <2>5. CASE UNCHANGED <<wpc, writing, inbox, answered>>
    BY <2>5 DEF Reached, BeingWritten
  <2> QED
    BY <2>1, <2>2, <2>3, <2>4, <2>5
       DEF writer, send_raw, drop_client, Writer, write_error, write_loop_end, Server,
           server_data, server_unsolicited, server_repeats, server_ends, vars, writerVars,
           serverVars
<1>6. Waiting'
  BY <1>1, <1>2, <1>4, <1>5, WaitingKept DEF ClaimInv
<1> QED BY <1>3, <1>6 DEF ClaimInv

LEMMA ClaimAlways == Spec => [](TypeInv /\ AnswerInv /\ StreamInv /\ ClaimInv)
<1>1. TypeInv /\ AnswerInv /\ StreamInv /\ ClaimInv /\ [Next]_vars => ClaimInv'
  BY ClaimCaller, ClaimReader, ClaimRest DEF Next
<1> QED BY <1>1, ClaimInit, StreamAlways, PTL DEF Spec

\* The first tagged status for a command is never broadcast as unclaimed: the
\* waiter is registered before the command is written and stays until its status
\* is dispatched, whatever its caller dropped (client.rs, write_loop and
\* dispatch_frame).
THEOREM FirstReplyFindsWaiter == Spec => []FirstReplyClaimed
<1>1. ClaimInv => FirstReplyClaimed
  BY DEF ClaimInv
<1> QED BY <1>1, ClaimAlways, PTL

-----------------------------------------------------------------------------
(* The refinement. *)

\* CommandChannel's view of a command.
StateOf(c) == IF pc[c] \in {"new", "done"} THEN pc[c] ELSE "open"
AnswerOf(c) == IF answered[c] = 0 THEN "none" ELSE result_of(sent[answered[c]].kind)
States == [c \in Cmds |-> StateOf(c)]
Answers == [c \in Cmds |-> AnswerOf(c)]

LEMMA ChannelView ==
  /\ Channel!vars = <<States, Answers, answered, delivered, outcome>>
  /\ Channel!vars' = <<States', Answers', answered', delivered', outcome'>>
  BY DEF Channel!vars, States, Answers, StateOf, AnswerOf

LEMMA ChannelInit == Init => Channel!Init
<1> SUFFICES ASSUME Init PROVE Channel!Init
  OBVIOUS
<1>1. /\ pc = [c \in Cmds |-> "new"] /\ answered = [c \in Cmds |-> 0]
      /\ delivered = [c \in Cmds |-> <<>>] /\ outcome = [c \in Cmds |-> "none"]
  BY DEF Init
<1> QED BY <1>1 DEF Channel!Init

\* A caller that takes a tag opens its command.
LEMMA BeginStep ==
  ASSUME TypeInv, NEW c \in Cmds, pc[c] = "new", pc' = [pc EXCEPT ![c] = "enqueue"],
         UNCHANGED <<answered, sent, delivered, outcome>>
  PROVE  Channel!Begin(c)
<1>1. States' = [States EXCEPT ![c] = "open"] /\ States[c] = "new" /\ Answers' = Answers
  BY DEF States, StateOf, Answers, AnswerOf, TypeInv, TypeOK, CallerOK
<1> QED BY <1>1 DEF Channel!Begin, States, StateOf, Answers, AnswerOf

\* A command whose caller is told r is finished with r.
LEMMA FinishStep ==
  ASSUME TypeInv, AnswerInv, NEW c \in Cmds, pc[c] \notin {"new", "done"},
         pc' = [pc EXCEPT ![c] = "done"],
         NEW r, outcome' = [outcome EXCEPT ![c] = r],
         r \in {"Ok", "CommandFailed"} => r = reply[c],
         UNCHANGED <<answered, sent, delivered>>
  PROVE  Channel!Finish(c, r)
<1>1. /\ States' = [States EXCEPT ![c] = "done"] /\ States[c] = "open" /\ Answers' = Answers
  BY DEF States, StateOf, Answers, AnswerOf, TypeInv, TypeOK, CallerOK
<1>2. r \in {"Ok", "CommandFailed"} => Answers[c] = r
  BY DEF Answers, AnswerOf, AnswerInv, ReplyIsAnswer
<1> QED BY <1>1, <1>2 DEF Channel!Finish, Channel!Verdicts, States, StateOf, Answers, AnswerOf

\* next_frame delivers the next frame on the wire.
LEMMA DeliverStep ==
  ASSUME TypeInv, AnswerInv, StreamInv, NEW c \in Cmds, next_frame(c)
  PROVE  Channel!Deliver(c, Head(frames[c])) /\ Head(frames[c]) \in Dispatched
<1>1. /\ pc[c] = "stream" /\ frames[c] # <<>>
      /\ delivered' = [delivered EXCEPT ![c] = Append(@, Head(frames[c]))]
      /\ UNCHANGED <<pc, outcome, answered, sent>>
  BY DEF next_frame, serverVars
<1>2. Head(frames[c]) \in Range(frames[c])
  BY <1>1, LeaveQueue DEF TypeInv, TypeOK, StreamOK
<1>3. /\ \A i \in DOMAIN delivered[c] : delivered[c][i] < Head(frames[c])
      /\ answered[c] # 0 => Head(frames[c]) < answered[c]
      /\ Head(frames[c]) \in Dispatched
  BY <1>2 DEF StreamInv, StreamOrdered, InStream, BeforeAnswer, Range
<1>4. States' = States /\ Answers' = Answers /\ States[c] = "open"
  BY <1>1 DEF States, StateOf, Answers, AnswerOf
<1> QED BY <1>1, <1>3, <1>4 DEF Channel!Deliver, States, StateOf, Answers, AnswerOf

\* The server's first status for a command is its answer.
LEMMA AnswerStep ==
  ASSUME TypeInv, AnswerInv, NEW s \in Statuses, server_status(s)
  PROVE  \E h \in Cmds, n \in 1 .. MaxSent : Channel!Answer(h, result_of(s), n)
<1>0. PICK h, n : h = Head(inbox) /\ n = Len(sent) + 1
  OBVIOUS
<1>1. /\ inbox # <<>> /\ answered' = [answered EXCEPT ![h] = n]
      /\ sent' = Append(sent, [kind |-> s, tag |-> h, cls |-> NoClass, own |-> h])
      /\ Len(sent) < MaxSent
      /\ UNCHANGED <<pc, outcome, delivered>>
  BY <1>0 DEF server_status, Emit, Online, callerVars
<1>2. h \in Cmds /\ h \in Range(inbox)
  BY <1>0, <1>1, LeaveQueue DEF TypeInv, TypeOK, ServerOK
<1>3. answered[h] = 0 /\ pc[h] # "new"
  BY <1>2 DEF AnswerInv, ReceivedOnce, NotYetQueued
<1>4. n \in 1 .. MaxSent /\ n > 0
  BY <1>0, <1>1, LenProperties, BoundsAssumption DEF TypeInv, TypeOK, ServerOK
<1>5. sent'[n].kind = s /\ \A i \in DOMAIN sent : sent'[i] = sent[i]
  BY <1>0, <1>1 DEF TypeInv, TypeOK, ServerOK
<1>6. /\ answered'[h] = n /\ \A c \in Cmds : c # h => answered'[c] = answered[c]
  BY <1>1, <1>2 DEF TypeInv, TypeOK, ServerOK
<1>7. \A c \in Cmds : c # h /\ answered[c] # 0 => sent'[answered'[c]] = sent[answered[c]]
  BY <1>5, <1>6 DEF AnswerInv, AnsweredIsFirst
<1>8. Answers' = [Answers EXCEPT ![h] = result_of(s)]
  <2>1. \A c \in Cmds : AnswerOf(c)' = IF c = h THEN result_of(s) ELSE AnswerOf(c)
    BY <1>4, <1>5, <1>6, <1>7 DEF AnswerOf
  <2> QED BY <2>1 DEF Answers
<1>9. States' = States /\ States[h] # "new"
  BY <1>1, <1>2, <1>3 DEF States, StateOf
<1>10. Channel!Answer(h, result_of(s), n)
  BY <1>1, <1>3, <1>4, <1>8, <1>9 DEF Channel!Answer, States, StateOf, Answers, AnswerOf
<1> QED BY <1>2, <1>4, <1>10

\* The server's log grows, or nothing a caller or the server shows changes.
LEMMA ChannelStutter ==
  ASSUME TypeInv, AnswerInv, UNCHANGED <<answered, delivered, outcome>>,
         \A i \in DOMAIN sent : sent'[i] = sent[i],
         \A c \in Cmds : StateOf(c)' = StateOf(c)
  PROVE  UNCHANGED Channel!vars
<1>1. \A c \in Cmds : answered[c] # 0 => sent'[answered[c]] = sent[answered[c]]
  BY DEF AnswerInv, AnsweredIsFirst
<1>2. States' = States /\ Answers' = Answers
  BY <1>1 DEF States, Answers, AnswerOf
<1> QED BY <1>2, ChannelView

LEMMA ChannelCaller ==
  ASSUME TypeInv, AnswerInv, StreamInv, Len(sent) <= MaxSent, NEW c \in Cmds, Caller(c)
  PROVE  [Channel!Next]_(Channel!vars)
<1>0. UNCHANGED <<answered, sent>>
  BY CallerStream
<1>1. ASSUME NEW m \in Modes, NEW w \in Filters, next_tag(c, m, w)
      PROVE  Channel!Next
  <2>1. /\ pc' = [pc EXCEPT ![c] = "enqueue"] /\ c = tag_counter
        /\ UNCHANGED <<delivered, outcome>>
    BY <1>1 DEF next_tag
  <2>2. pc[c] = "new"
    BY <2>1, NCmdsAssumption DEF AnswerInv, FreshTags, TypeInv, TypeOK, CallerOK, Cmds
  <2>3. Channel!Begin(c)
    BY <1>0, <2>1, <2>2, BeginStep
  <2> QED BY <2>3 DEF Channel!Next
<1>2. CASE next_frame(c)
  <2>1. Channel!Deliver(c, Head(frames[c])) /\ Head(frames[c]) \in Dispatched
    BY <1>2, DeliverStep
  <2>2. Head(frames[c]) \in 1 .. MaxSent
    BY <2>1, DispatchedPlaces, BoundsAssumption
  <2> QED BY <2>1, <2>2 DEF Channel!Next
<1>3. CASE enqueue_closed(c) \/ await_reply(c) \/ reply_closed(c) \/ timeout(c) \/ cancel(c)
  <2>1. /\ pc[c] \notin {"new", "done"} /\ pc' = [pc EXCEPT ![c] = "done"]
        /\ UNCHANGED delivered
    BY <1>3 DEF enqueue_closed, await_reply, reply_closed, timeout, cancel, Abandon, Finish
  <2>2. \E r \in Results \cup {"Timeout", "Dropped"} :
          /\ outcome' = [outcome EXCEPT ![c] = r]
          /\ r \in {"Ok", "CommandFailed"} => r = reply[c]
    <3>1. CASE await_reply(c)
      <4>1. reply[c] \in Results /\ outcome' = [outcome EXCEPT ![c] = reply[c]]
        BY <3>1 DEF await_reply, Finish, TypeInv, TypeOK, PendingOK
      <4> QED BY <4>1
    <3>2. CASE enqueue_closed(c) \/ reply_closed(c)
      BY <3>2 DEF enqueue_closed, reply_closed, Finish, Results
    <3>3. CASE timeout(c) \/ cancel(c)
      BY <3>3, ZenonT(30) DEF timeout, cancel, Abandon, Finish
    <3> QED BY <1>3, <3>1, <3>2, <3>3
  <2>3. PICK r \in Results \cup {"Timeout", "Dropped"} :
          /\ outcome' = [outcome EXCEPT ![c] = r]
          /\ r \in {"Ok", "CommandFailed"} => r = reply[c]
    BY <2>2
  <2>4. Channel!Finish(c, r)
    BY <1>0, <2>1, <2>3, FinishStep
  <2>5. r \in Channel!Verdicts \cup Channel!Failures
    BY DEF Results, Channel!Verdicts, Channel!Failures
  <2> QED BY <2>4, <2>5 DEF Channel!Next
<1>4. CASE enqueue_command(c) \/ into_reply(c) \/ drain(c)
  <2>1. /\ UNCHANGED <<delivered, outcome>> /\ pc[c] \notin {"new", "done"}
        /\ pc' = pc \/ \E q \in {"wait", "stream", "drain"} : pc' = [pc EXCEPT ![c] = q]
    BY <1>4 DEF enqueue_command, into_reply, drain
  <2>2. \A d \in Cmds : StateOf(d)' = StateOf(d)
    BY <2>1 DEF StateOf, TypeInv, TypeOK, CallerOK
  <2> QED BY <1>0, <2>1, <2>2, ChannelStutter
<1> QED BY <1>1, <1>2, <1>3, <1>4 DEF Caller

LEMMA ChannelStep ==
  ASSUME TypeInv, AnswerInv, StreamInv, Len(sent) <= MaxSent, [Next]_vars
  PROVE  [Channel!Next]_(Channel!vars)
<1>1. CASE \E s \in Statuses : server_status(s)
  <2>1. PICK s \in Statuses : server_status(s)
    BY <1>1
  <2>2. result_of(s) \in Channel!Verdicts \cup {"ConnectionClosed"}
    BY DEF result_of, Channel!Verdicts
  <2>3. PICK h \in Cmds, n \in 1 .. MaxSent : Channel!Answer(h, result_of(s), n)
    BY <2>1, AnswerStep
  <2> QED BY <2>2, <2>3 DEF Channel!Next
<1>2. CASE Server /\ ~ \E s \in Statuses : server_status(s)
  <2>1. UNCHANGED <<pc, answered, delivered, outcome>>
    BY <1>2 DEF Server, server_data, server_unsolicited, server_repeats, server_ends, callerVars
  <2>2. PICK f \in Frames : sent' = Append(sent, f)
    BY <1>2, ServerEmits
  <2>3. \A i \in DOMAIN sent : sent'[i] = sent[i]
    BY <2>2, LogGrows
  <2>4. \A c \in Cmds : StateOf(c)' = StateOf(c)
    BY <2>1 DEF StateOf
  <2> QED BY <2>1, <2>3, <2>4, ChannelStutter
<1>3. CASE writer \/ send_raw \/ drop_client \/ Writer \/ Reader \/ UNCHANGED vars
  <2>1. UNCHANGED <<pc, answered, delivered, outcome, sent>>
    BY <1>3 DEF writer, send_raw, drop_client, Writer, write_loop_recv, write_all,
       write_error, write_loop_end, WriterStops, Reader, route_for, dispatch_tagged,
       dispatch_broadcast, dispatch_reserve, dispatch_push, read_loop_end, vars,
       callerVars, serverVars
  <2>2. \A c \in Cmds : StateOf(c)' = StateOf(c)
    BY <2>1 DEF StateOf
  <2> QED BY <2>1, <2>2, ChannelStutter
<1> QED BY <1>1, <1>2, <1>3, ChannelCaller DEF Next

LEMMA LogBounded == Spec => [](Len(sent) <= MaxSent)
<1>1. Init => Len(sent) <= MaxSent
  BY BoundsAssumption DEF Init
<1>2. TypeInv /\ Len(sent) <= MaxSent /\ [Next]_vars => (Len(sent) <= MaxSent)'
  <2> SUFFICES ASSUME TypeInv, Len(sent) <= MaxSent, [Next]_vars PROVE Len(sent') <= MaxSent
    OBVIOUS
  <2>1. CASE Server
    <3>1. Len(sent) < MaxSent /\ \E f : sent' = Append(sent, f)
      BY <2>1 DEF Server, server_data, server_unsolicited, server_status, server_repeats,
         server_ends, Emit, Online
    <3>2. Len(sent') = Len(sent) + 1 /\ Len(sent) \in Nat
      BY <3>1, LenProperties DEF TypeInv, TypeOK, ServerOK
    <3> QED BY <3>1, <3>2, BoundsAssumption
  <2>2. CASE UNCHANGED sent
    BY <2>2
  <2>3. ASSUME NEW c \in Cmds, Caller(c) PROVE UNCHANGED sent
    BY <2>3, CallerStream
  <2> QED
    BY <2>1, <2>2, <2>3
       DEF Next, writer, send_raw, drop_client, Writer, write_loop_recv, write_all,
           write_error, write_loop_end, WriterStops, Reader, route_for, dispatch_tagged,
           dispatch_broadcast, dispatch_reserve, dispatch_push, read_loop_end, vars, serverVars
<1> QED BY <1>1, <1>2, StreamAlways, PTL DEF Spec

\* The dispatcher implements CommandChannel: a command is answered at most once
\* on the wire and resolved once, in agreement with the answer, and its frames
\* are delivered in wire order and before it (client.rs).
THEOREM Implementation == Spec => ImplementsChannel
<1>1. [](Len(sent) <= MaxSent) /\ [](TypeInv /\ AnswerInv /\ StreamInv) /\ [][Next]_vars
        => [][Channel!Next]_(Channel!vars)
  BY ChannelStep, PTL
<1> QED BY <1>1, ChannelInit, LogBounded, StreamAlways, PTL
        DEF Spec, ImplementsChannel, Channel!Spec

-----------------------------------------------------------------------------
(* Where untagged frames go: none is lost or doubled, a listening caller   *)
(* gets all of its own, and a stranger's frame only when its owner stopped *)
(* listening.                                                              *)

-----------------------------------------------------------------------------
(* Conservation. *)

\* A dispatched frame is in one place at most, a data frame in one at least.
Isolated(x) ==
  \A c, d \in Cmds :
    /\ x \in InStream(c) => /\ x \notin Range(events) /\ x \notin discarded[d]
                            /\ x \in InStream(d) => c = d
    /\ x \in discarded[c] => /\ x \notin Range(events)
                             /\ x \in discarded[d] => c = d
Placed(x) ==
  (\E c \in Cmds : x \in InStream(c) \/ x \in discarded[c]) \/ x \in Range(events)
PlaceInv ==
  /\ \A c \in Cmds : discarded[c] \subseteq Dispatched
  /\ Distinct(events)
  /\ \A x \in Dispatched : Isolated(x) /\ (sent[x].kind = "data" => Placed(x))

\* What the read loop has not dispatched is nowhere.
Nowhere(x) == /\ x \notin Range(events)
              /\ \A c \in Cmds : x \notin InStream(c) /\ x \notin discarded[c]

LEMMA UndispatchedNowhere ==
  ASSUME StreamInv, ClaimInv, PlaceInv, NEW x, x \notin Dispatched
  PROVE  Nowhere(x)
  BY DEF Nowhere, StreamInv, StreamOrdered, ClaimInv, CastsDispatched, PlaceInv, Range

LEMMA PlaceInit == Init => PlaceInv
<1> SUFFICES ASSUME Init PROVE PlaceInv
  OBVIOUS
<1>1. /\ events = <<>> /\ rpos = 0 /\ \A c \in Cmds : discarded[c] = {}
  BY DEF Init
<1>2. Dispatched = {} /\ Distinct(events)
  BY <1>1 DEF Dispatched, Distinct
<1> QED BY <1>1, <1>2 DEF PlaceInv

\* A step that moves no frame.
LEMMA PlaceQuiet ==
  ASSUME PlaceInv, UNCHANGED <<events, discarded>>,
         \A c \in Cmds : InStream(c)' = InStream(c),
         Dispatched' = Dispatched, \A i \in Dispatched : sent'[i] = sent[i]
  PROVE  PlaceInv'
<1>1. ASSUME NEW x \in Dispatched
      PROVE  Isolated(x)' /\ (sent'[x].kind = "data" => Placed(x)')
  <2>1. Isolated(x) /\ (sent[x].kind = "data" => Placed(x)) /\ sent'[x] = sent[x]
    BY DEF PlaceInv
  <2>2. Isolated(x)'
    BY <2>1 DEF Isolated
  <2>3. Placed(x) => Placed(x)'
    BY DEF Placed
  <2> QED BY <2>1, <2>2, <2>3
<1> QED BY <1>1 DEF PlaceInv

\* The frame taken off the wire, n, is broadcast.
LEMMA PlaceCast ==
  ASSUME TypeInv, StreamInv, ClaimInv, PlaceInv, NEW n \in Nat, n \notin Dispatched,
         Dispatched' = Dispatched \cup {n}, UNCHANGED <<discarded, sent>>,
         \A c \in Cmds : InStream(c)' = InStream(c), events' = Append(events, n)
  PROVE  PlaceInv'
<1>1. Nowhere(n)
  BY UndispatchedNowhere
<1>2. Range(events') = Range(events) \cup {n} /\ Distinct(events')
  BY <1>1, JoinQueue DEF Nowhere, PlaceInv, TypeInv, TypeOK, StreamOK
<1>3. ASSUME NEW x \in Dispatched'
      PROVE  Isolated(x)' /\ (sent'[x].kind = "data" => Placed(x)')
  <2>1. CASE x = n
    BY <1>1, <1>2, <2>1 DEF Nowhere, Isolated, Placed
  <2>2. CASE x \in Dispatched /\ x # n
    BY <1>2, <2>2 DEF PlaceInv, Isolated, Placed
  <2> QED BY <2>1, <2>2
<1> QED BY <1>2, <1>3 DEF PlaceInv

\* It goes to command r's stream.
LEMMA PlacePush ==
  ASSUME StreamInv, ClaimInv, PlaceInv, NEW n \in Nat, n \notin Dispatched,
         Dispatched' = Dispatched \cup {n}, UNCHANGED <<discarded, sent, events>>,
         NEW r \in Cmds,
         \A c \in Cmds : InStream(c)' = IF c = r THEN InStream(c) \cup {n} ELSE InStream(c)
  PROVE  PlaceInv'
<1>1. Nowhere(n)
  BY UndispatchedNowhere
<1>2. ASSUME NEW x \in Dispatched'
      PROVE  Isolated(x)' /\ (sent'[x].kind = "data" => Placed(x)')
  <2>1. CASE x = n
    BY <1>1, <2>1 DEF Nowhere, Isolated, Placed
  <2>2. CASE x \in Dispatched /\ x # n
    BY <2>2 DEF PlaceInv, Isolated, Placed
  <2> QED BY <2>1, <2>2
<1> QED BY <1>2 DEF PlaceInv

\* Or it is lost with command r's receiver.
LEMMA PlaceLose ==
  ASSUME TypeInv, StreamInv, ClaimInv, PlaceInv, NEW n \in Nat, n \notin Dispatched,
         Dispatched' = Dispatched \cup {n}, UNCHANGED <<events, sent>>,
         NEW r \in Cmds, discarded' = [discarded EXCEPT ![r] = @ \cup {n}],
         \A c \in Cmds : InStream(c)' = InStream(c)
  PROVE  PlaceInv'
<1>1. Nowhere(n)
  BY UndispatchedNowhere
<1>2. \A c \in Cmds : discarded'[c] = IF c = r THEN discarded[c] \cup {n} ELSE discarded[c]
  BY DEF TypeInv, TypeOK, StreamOK
<1>3. ASSUME NEW x \in Dispatched'
      PROVE  Isolated(x)' /\ (sent'[x].kind = "data" => Placed(x)')
  <2>1. CASE x = n
    BY <1>1, <1>2, <2>1 DEF Nowhere, Isolated, Placed
  <2>2. CASE x \in Dispatched /\ x # n
    BY <1>2, <2>2 DEF PlaceInv, Isolated, Placed
  <2> QED BY <2>1, <2>2
<1>4. \A c \in Cmds : discarded'[c] \subseteq Dispatched'
  BY <1>2 DEF PlaceInv
<1> QED BY <1>3, <1>4 DEF PlaceInv

\* It is no data frame, and goes nowhere.
LEMMA PlaceSkip ==
  ASSUME StreamInv, ClaimInv, PlaceInv, NEW n, n \notin Dispatched, sent[n].kind # "data",
         Dispatched' = Dispatched \cup {n}, UNCHANGED <<events, discarded, sent>>,
         \A c \in Cmds : InStream(c)' = InStream(c)
  PROVE  PlaceInv'
<1>1. Nowhere(n)
  BY UndispatchedNowhere
<1>2. ASSUME NEW x \in Dispatched'
      PROVE  Isolated(x)' /\ (sent'[x].kind = "data" => Placed(x)')
  <2>1. CASE x = n
    BY <1>1, <2>1 DEF Nowhere, Isolated
  <2>2. CASE x \in Dispatched /\ x # n
    BY <2>2 DEF PlaceInv, Isolated, Placed
  <2> QED BY <2>1, <2>2
<1> QED BY <1>2 DEF PlaceInv

\* The oldest frame h of command c's stream is broadcast by its caller.
LEMMA PlaceDrain ==
  ASSUME TypeInv, StreamInv, PlaceInv, NEW c \in Cmds, NEW h \in InStream(c), h \in Nat,
         Dispatched' = Dispatched, UNCHANGED <<discarded, sent>>,
         \A d \in Cmds : InStream(d)' = IF d = c THEN InStream(d) \ {h} ELSE InStream(d),
         events' = Append(events, h)
  PROVE  PlaceInv'
<1>1. h \in Dispatched /\ Isolated(h)
  BY DEF StreamInv, StreamOrdered, PlaceInv
<1>2. Range(events') = Range(events) \cup {h} /\ Distinct(events')
  BY <1>1, JoinQueue DEF Isolated, PlaceInv, TypeInv, TypeOK, StreamOK
<1>3. ASSUME NEW x \in Dispatched
      PROVE  Isolated(x)' /\ (sent'[x].kind = "data" => Placed(x)')
  <2>1. CASE x = h
    BY <1>1, <1>2, <2>1 DEF Isolated, Placed
  <2>2. CASE x # h
    BY <1>2, <2>2 DEF PlaceInv, Isolated, Placed
  <2> QED BY <2>1, <2>2
<1> QED BY <1>2, <1>3 DEF PlaceInv

\* The frames F of command c's stream go with its receiver.
LEMMA PlaceAbandon ==
  ASSUME TypeInv, StreamInv, PlaceInv, NEW c \in Cmds, NEW F, F \subseteq InStream(c),
         Dispatched' = Dispatched, UNCHANGED <<events, sent>>,
         discarded' = [discarded EXCEPT ![c] = @ \cup F],
         \A d \in Cmds : InStream(d)' = IF d = c THEN InStream(d) \ F ELSE InStream(d)
  PROVE  PlaceInv'
<1>1. \A x \in F : x \in Dispatched /\ Isolated(x)
  BY DEF StreamInv, StreamOrdered, PlaceInv
<1>2. \A d \in Cmds : discarded'[d] = IF d = c THEN discarded[d] \cup F ELSE discarded[d]
  BY DEF TypeInv, TypeOK, StreamOK
<1>3. ASSUME NEW x \in Dispatched
      PROVE  Isolated(x)' /\ (sent'[x].kind = "data" => Placed(x)')
  <2>1. CASE x \in F
    <3>1. /\ x \in InStream(c) /\ x \notin Range(events)
          /\ \A d \in Cmds : x \notin discarded[d] /\ (x \in InStream(d) => c = d)
      BY <1>1, <2>1 DEF Isolated
    <3>2. \A d \in Cmds : x \notin InStream(d)'
      BY <2>1, <3>1
    <3>3. \A d \in Cmds : x \in discarded'[d] <=> d = c
      BY <1>2, <2>1, <3>1
    <3> QED BY <3>1, <3>2, <3>3 DEF Isolated, Placed
  <2>2. CASE x \notin F
    BY <1>2, <2>2 DEF PlaceInv, Isolated, Placed
  <2> QED BY <2>1, <2>2
<1>4. \A d \in Cmds : discarded'[d] \subseteq Dispatched
  BY <1>1, <1>2 DEF PlaceInv
<1> QED BY <1>3, <1>4 DEF PlaceInv

LEMMA PlaceCaller ==
  ASSUME TypeInv, StreamInv, PlaceInv, NEW c \in Cmds, Caller(c)
  PROVE  PlaceInv'
<1> USE DEF TypeInv, TypeOK, CallerOK, StreamOK
<1>1. UNCHANGED sent /\ Dispatched' = Dispatched
  BY CallerStream DEF Dispatched, InHand
<1>2. CASE UNCHANGED <<delivered, frames, events, discarded>>
  <2>1. \A d \in Cmds : InStream(d)' = InStream(d)
    BY <1>2 DEF InStream
  <2> QED BY <1>1, <1>2, <2>1, PlaceQuiet
<1>3. CASE next_frame(c) \/ (drain(c) /\ frames[c] # <<>>)
  <2>0. PICK h, r : h = Head(frames[c]) /\ r = Tail(frames[c])
    OBVIOUS
  <2>1. /\ h \in Nat /\ r \in Seq(Nat) /\ Range(frames[c]) = {h} \cup Range(r)
        /\ \A y \in Range(r) : h < y
    BY <1>3, <2>0, IncreasingLeave DEF StreamInv, StreamOrdered, next_frame
  <2>2. frames'[c] = r /\ \A d \in Cmds : d # c => frames'[d] = frames[d]
    BY <1>3, <2>0 DEF next_frame, drain
  <2>3. CASE next_frame(c)
    <3>1. /\ delivered'[c] = Append(delivered[c], h)
          /\ \A d \in Cmds : d # c => delivered'[d] = delivered[d]
          /\ UNCHANGED <<events, discarded>>
      BY <2>0, <2>3 DEF next_frame
    <3>2. Range(delivered'[c]) = Range(delivered[c]) \cup {h}
      BY <2>1, <3>1, JoinRange
    <3>3. \A d \in Cmds : InStream(d)' = InStream(d)
      BY <2>1, <2>2, <3>1, <3>2 DEF InStream
    <3> QED BY <1>1, <3>1, <3>3, PlaceQuiet
  <2>4. CASE drain(c) /\ frames[c] # <<>>
    <3>1. UNCHANGED <<delivered, discarded>> /\ events' = Append(events, h)
      BY <2>0, <2>4 DEF drain
    <3>2. h \notin Range(r) /\ h \notin Range(delivered[c]) /\ h \in InStream(c)
      <4>1. h \notin Range(r)
        BY <2>1
      <4>2. \A x \in Range(delivered[c]) : x < h
        BY <2>1 DEF StreamInv, StreamOrdered
      <4> QED BY <2>1, <4>1, <4>2 DEF InStream
    <3>3. \A d \in Cmds : InStream(d)' = IF d = c THEN InStream(d) \ {h} ELSE InStream(d)
      BY <2>1, <2>2, <3>1, <3>2 DEF InStream
    <3> QED BY <1>1, <2>1, <3>1, <3>2, <3>3, PlaceDrain
  <2> QED BY <1>3, <2>3, <2>4
<1>4. CASE timeout(c) \/ cancel(c)
  <2>0. PICK F : F = Range(frames[c])
    OBVIOUS
  <2>1. /\ frames' = [frames EXCEPT ![c] = <<>>] /\ UNCHANGED <<delivered, events>>
        /\ discarded' = [discarded EXCEPT ![c] = @ \cup F]
    BY <1>4, <2>0 DEF timeout, cancel, Abandon
  <2>2. Range(frames'[c]) = {} /\ \A d \in Cmds : d # c => frames'[d] = frames[d]
    BY <2>1 DEF Range
  <2>3. F \subseteq InStream(c) /\ \A x \in F : x \notin Range(delivered[c])
    <3>1. \A x \in Range(delivered[c]), y \in F : x < y
      BY <2>0 DEF StreamInv, StreamOrdered
    <3>2. \A x \in F : x \in Nat
      BY <2>0, ElementOfSeq DEF Range
    <3> QED BY <2>0, <3>1, <3>2 DEF InStream
  <2>4. \A d \in Cmds : InStream(d)' = IF d = c THEN InStream(d) \ F ELSE InStream(d)
    BY <2>0, <2>1, <2>2, <2>3 DEF InStream
  <2> QED BY <1>1, <2>1, <2>3, <2>4, PlaceAbandon
<1> QED
  BY <1>2, <1>3, <1>4
     DEF Caller, next_tag, enqueue_command, enqueue_closed, into_reply, drain,
         await_reply, reply_closed, channelVars

LEMMA PlaceReader ==
  ASSUME TypeInv, AnswerInv, StreamInv, ClaimInv, PlaceInv, Reader
  PROVE  PlaceInv'
<1>0. rpos \in Nat /\ (InHand => rpos \notin Dispatched)
  BY DispatchedPlaces
<1>1. UNCHANGED <<sent, delivered>>
  BY DEF Reader, route_for, dispatch_tagged, dispatch_broadcast, dispatch_reserve,
     dispatch_push, read_loop_end, callerVars, serverVars
<1>2. CASE route_for \/ dispatch_reserve
  <2>1. /\ UNCHANGED <<frames, events, discarded>>
        /\ \/ rpc = "read" /\ rpc' = "dispatch" /\ rpos' = rpos + 1
           \/ rpc = "dispatch" /\ rpc' = "push" /\ rpos' = rpos
    BY <1>2 DEF route_for, dispatch_reserve, channelVars
  <2>2. Dispatched' = Dispatched
    BY <1>0, <2>1 DEF Dispatched, InHand
  <2>3. \A c \in Cmds : InStream(c)' = InStream(c)
    BY <1>1, <2>1 DEF InStream
  <2> QED BY <1>1, <2>1, <2>2, <2>3, PlaceQuiet
<1>3. CASE dispatch_tagged \/ dispatch_broadcast
  <2>1. /\ UNCHANGED <<frames, discarded>> /\ rpc = "dispatch" /\ rpc' = "read" /\ rpos' = rpos
        /\ \/ events' = Append(events, rpos)
           \/ UNCHANGED events /\ sent[rpos].kind \in Status
    BY <1>3 DEF dispatch_tagged, dispatch_broadcast
  <2>2. Dispatched' = Dispatched \cup {rpos} /\ rpos \notin Dispatched
    BY <1>0, <2>1, DispatchedPlaces DEF Dispatched, InHand
  <2>3. \A c \in Cmds : InStream(c)' = InStream(c)
    BY <1>1, <2>1 DEF InStream
  <2>4. CASE events' = Append(events, rpos)
    BY <1>0, <1>1, <2>1, <2>2, <2>3, <2>4, PlaceCast
  <2>5. CASE UNCHANGED events /\ sent[rpos].kind \in Status
    <3>1. sent[rpos].kind # "data"
      BY <2>5 DEF Status
    <3> QED BY <1>1, <2>1, <2>2, <2>3, <2>5, <3>1, PlaceSkip
  <2> QED BY <2>1, <2>4, <2>5
<1>4. CASE read_loop_end
  <2>1. /\ UNCHANGED <<frames, events, discarded>> /\ rpc = "read" /\ rpc' = "stopped"
        /\ rpos' = rpos + 1 /\ sent[rpos + 1].kind \in Endings
    BY <1>4 DEF read_loop_end
  <2>2. Dispatched' = Dispatched \cup {rpos + 1} /\ rpos + 1 \notin Dispatched
    BY <1>0, <2>1 DEF Dispatched, InHand
  <2>3. sent[rpos + 1].kind # "data"
    BY <2>1 DEF Endings
  <2>4. \A c \in Cmds : InStream(c)' = InStream(c)
    BY <1>1, <2>1 DEF InStream
  <2> QED BY <1>0, <1>1, <2>1, <2>2, <2>3, <2>4, PlaceSkip
<1>5. CASE dispatch_push
  <2>1. /\ UNCHANGED events /\ rpc = "push" /\ rpc' = "read" /\ rpos' = rpos
        /\ \/ /\ frames' = [frames EXCEPT ![route] = Append(@, rpos)]
              /\ UNCHANGED discarded
           \/ /\ discarded' = [discarded EXCEPT ![route] = @ \cup {rpos}]
              /\ UNCHANGED frames
    BY <1>5 DEF dispatch_push
  <2>2. Dispatched' = Dispatched \cup {rpos} /\ rpos \notin Dispatched
    BY <1>0, <2>1, DispatchedPlaces DEF Dispatched, InHand
  <2>3. route \in Cmds
    BY <2>1 DEF TypeInv, TypeOK, ReaderKnows, PermitGood, LoopsOK
  <2>4. CASE frames' = [frames EXCEPT ![route] = Append(@, rpos)] /\ UNCHANGED discarded
    <3>1. \A c \in Cmds : Range(frames'[c]) = IF c = route THEN Range(frames[c]) \cup {rpos}
                                                          ELSE Range(frames[c])
      BY <1>0, <2>3, <2>4, JoinRange DEF TypeInv, TypeOK, StreamOK
    <3>2. \A c \in Cmds : InStream(c)' = IF c = route THEN InStream(c) \cup {rpos}
                                                      ELSE InStream(c)
      BY <1>1, <3>1 DEF InStream
    <3> QED BY <1>0, <1>1, <2>1, <2>2, <2>3, <2>4, <3>2, PlacePush
  <2>5. CASE discarded' = [discarded EXCEPT ![route] = @ \cup {rpos}] /\ UNCHANGED frames
    <3>1. \A c \in Cmds : InStream(c)' = InStream(c)
      BY <1>1, <2>5 DEF InStream
    <3> QED BY <1>0, <1>1, <2>1, <2>2, <2>3, <2>5, <3>1, PlaceLose
  <2> QED BY <2>1, <2>4, <2>5
<1> QED BY <1>2, <1>3, <1>4, <1>5 DEF Reader

LEMMA PlaceRest ==
  ASSUME TypeInv, PlaceInv,
         writer \/ send_raw \/ drop_client \/ Writer \/ Server \/ UNCHANGED vars
  PROVE  PlaceInv'
<1>1. /\ UNCHANGED <<rpc, rpos, events, delivered, frames, discarded>>
  BY DEF writer, send_raw, drop_client, Writer, write_loop_recv, write_all,
     write_error, write_loop_end, WriterStops, Server, server_data, server_unsolicited,
     server_status, server_repeats, server_ends, vars, callerVars, channelVars, readerVars
<1>2. Dispatched' = Dispatched /\ \A c \in Cmds : InStream(c)' = InStream(c)
  BY <1>1 DEF Dispatched, InHand, InStream
<1>3. \A i \in DOMAIN sent : sent'[i] = sent[i]
  BY LogKept
<1> QED BY <1>1, <1>2, <1>3, PlaceQuiet, DispatchedPlaces

LEMMA PlaceAlways == Spec => [](TypeInv /\ AnswerInv /\ StreamInv /\ ClaimInv /\ PlaceInv)
<1>1. TypeInv /\ AnswerInv /\ StreamInv /\ ClaimInv /\ PlaceInv /\ [Next]_vars => PlaceInv'
  BY PlaceCaller, PlaceReader, PlaceRest DEF Next
<1> QED BY <1>1, PlaceInit, ClaimAlways, PTL DEF Spec

\* A stream's contents as a set.
LEMMA StreamedSet ==
  ASSUME TypeInv, StreamInv, NEW c \in Cmds
  PROVE  Range(Streamed(c)) = InStream(c)
  BY IncreasingConcat DEF TypeInv, TypeOK, CallerOK, StreamOK, StreamInv, StreamOrdered,
     Streamed, InStream

\* Every untagged frame the read loop is done with is in exactly one place.
LEMMA FramesInOnePlace == Spec => []InOnePlace
<1>1. ASSUME TypeInv, StreamInv, ClaimInv, PlaceInv PROVE InOnePlace
  <2> SUFFICES ASSUME NEW i \in Dispatched, sent[i].kind = "data"
               PROVE
                 \/ \E c \in Cmds : /\ {d \in Cmds : i \in Range(Streamed(d))} = {c}
                                    /\ {d \in Cmds : i \in discarded[d]} = {}
                                    /\ {j \in DOMAIN events : events[j] = i} = {}
                 \/ \E c \in Cmds : /\ {d \in Cmds : i \in Range(Streamed(d))} = {}
                                    /\ {d \in Cmds : i \in discarded[d]} = {c}
                                    /\ {j \in DOMAIN events : events[j] = i} = {}
                 \/ \E k \in DOMAIN events : /\ {d \in Cmds : i \in Range(Streamed(d))} = {}
                                             /\ {d \in Cmds : i \in discarded[d]} = {}
                                             /\ {j \in DOMAIN events : events[j] = i} = {k}
    BY DEF InOnePlace
  <2>1. Isolated(i) /\ Placed(i) /\ i # 0
    BY <1>1, DispatchedPlaces DEF PlaceInv
  <2>2. \A d \in Cmds : Range(Streamed(d)) = InStream(d)
    BY <1>1, StreamedSet
  <2>3. ASSUME NEW c \in Cmds, i \in InStream(c)
        PROVE  /\ {d \in Cmds : i \in Range(Streamed(d))} = {c}
               /\ {d \in Cmds : i \in discarded[d]} = {}
               /\ {j \in DOMAIN events : events[j] = i} = {}
    BY <2>1, <2>2, <2>3 DEF Isolated, Range
  <2>4. ASSUME NEW c \in Cmds, i \in discarded[c]
        PROVE  /\ {d \in Cmds : i \in Range(Streamed(d))} = {}
               /\ {d \in Cmds : i \in discarded[d]} = {c}
               /\ {j \in DOMAIN events : events[j] = i} = {}
    BY <2>1, <2>2, <2>4 DEF Isolated, Range
  <2>5. ASSUME NEW k \in DOMAIN events, events[k] = i
        PROVE  /\ {d \in Cmds : i \in Range(Streamed(d))} = {}
               /\ {d \in Cmds : i \in discarded[d]} = {}
               /\ {j \in DOMAIN events : events[j] = i} = {k}
    BY <1>1, <2>1, <2>2, <2>5 DEF Isolated, Range, PlaceInv, Distinct
  <2> QED BY <2>1, <2>3, <2>4, <2>5 DEF Placed, Range
<1> QED BY <1>1, PlaceAlways, PTL

-----------------------------------------------------------------------------
(* What into_reply loses.  A permit is granted only while the receiver is    *)
(* open, so the close leaves at most one behind, and before the caller has   *)
(* closed its stream or given it up nothing of it is lost.                   *)

\* into_reply is over, or there was no stream; the caller has not given up.
Settled(c) == \/ pc[c] = "wait"
              \/ pc[c] = "done" /\ outcome[c] \notin {"Timeout", "Dropped"}
LossOK(c) ==
  /\ listening[c] => pc[c] = "stream"
  /\ pc[c] \notin {"stream", "drain"} => frames[c] = <<>>
  /\ pc[c] \notin {"wait", "done"} => discarded[c] = {}
  /\ Settled(c) => /\ \A i, j \in discarded[c] : i = j
                   /\ rpc = "push" /\ route = c => discarded[c] = {}
LossInv ==
  /\ rpc = "push" => pc[route] \notin {"new", "enqueue"}
  /\ \A c \in Cmds : LossOK(c)

LEMMA LossInit == Init => LossInv
  BY DEF Init, LossInv, LossOK, Settled

\* Commands other than the one that acts.
LEMMA LossOther ==
  ASSUME NEW d \in Cmds, LossOK(d), UNCHANGED <<rpc, route>>,
         pc'[d] = pc[d], outcome'[d] = outcome[d], listening'[d] = listening[d],
         frames'[d] = frames[d], discarded'[d] = discarded[d]
  PROVE  LossOK(d)'
  BY DEF LossOK, Settled

LEMMA LossCaller ==
  ASSUME TypeInv, AnswerInv, LossInv, NEW c \in Cmds, Caller(c)
  PROVE  LossInv'
<1> USE DEF TypeInv, TypeOK, CallerOK, StreamOK
<1>1. UNCHANGED <<rpc, route>>
  BY DEF Caller, next_tag, enqueue_command, enqueue_closed, next_frame,
     into_reply, drain, await_reply, reply_closed, timeout, cancel, Abandon, readerVars
<1>2. \A d \in Cmds : d # c =>
        /\ pc'[d] = pc[d] /\ outcome'[d] = outcome[d] /\ listening'[d] = listening[d]
        /\ frames'[d] = frames[d] /\ discarded'[d] = discarded[d]
  BY DEF Caller, next_tag, enqueue_command, enqueue_closed, next_frame,
     into_reply, drain, await_reply, reply_closed, timeout, cancel, Abandon, Finish,
     channelVars
<1>3. LossOK(c)
  BY DEF LossInv
<1> DEFINE Moves == LossOK(c)' /\ (pc[c] \notin {"new", "enqueue"} => pc'[c] \notin {"new", "enqueue"})
<1>4. ASSUME Moves PROVE LossInv'
  <2>1. ASSUME NEW d \in Cmds, d # c PROVE LossOK(d)'
    <3>1. LossOK(d)
      BY DEF LossInv
    <3> QED BY <1>1, <1>2, <2>1, <3>1, LossOther
  <2>2. rpc = "push" => route \in Cmds /\ pc[route] \notin {"new", "enqueue"}
    BY DEF ReaderKnows, PermitGood, LoopsOK, LossInv
  <2>3. rpc' = "push" => pc'[route'] \notin {"new", "enqueue"}
    BY <1>1, <1>2, <1>4, <2>2
  <2>4. \A d \in Cmds : LossOK(d)'
    BY <1>4, <2>1
  <2> QED BY <2>3, <2>4 DEF LossInv
<1>5. ASSUME NEW m, NEW w, next_tag(c, m, w) PROVE Moves
  <2>1. pc[c] = "new"
    BY <1>5 DEF next_tag, AnswerInv, FreshTags, Cmds
  <2> QED BY <1>3, <1>5, <2>1 DEF next_tag, LossOK, Settled, channelVars
<1>6. CASE enqueue_command(c) \/ enqueue_closed(c)
  <2>1. Moves
    BY <1>3, <1>6 DEF enqueue_command, enqueue_closed, Finish, LossOK, Settled, channelVars
  <2> QED BY <1>4, <2>1
<1>7. CASE next_frame(c) \/ into_reply(c) \/ drain(c)
  <2>1. Moves
    BY <1>3, <1>7 DEF next_frame, into_reply, drain, LossOK, Settled
  <2> QED BY <1>4, <2>1
<1>8. CASE await_reply(c) \/ reply_closed(c)
  <2>1. Moves
    BY <1>1, <1>3, <1>8 DEF await_reply, reply_closed, Finish, LossOK, Settled, channelVars
  <2> QED BY <1>4, <2>1
<1>9. CASE timeout(c) \/ cancel(c)
  <2>1. Moves
    BY <1>3, <1>9 DEF timeout, cancel, Abandon, Finish, LossOK, Settled
  <2> QED BY <1>4, <2>1
<1> HIDE DEF Moves
<1> QED BY <1>4, <1>5, <1>6, <1>7, <1>8, <1>9 DEF Caller

LEMMA LossReader == TypeInv /\ LossInv /\ Reader => LossInv'
<1> SUFFICES ASSUME TypeInv, LossInv, Reader PROVE LossInv'
  OBVIOUS
<1> USE DEF TypeInv, TypeOK, CallerOK, StreamOK, LoopsOK
<1>1. UNCHANGED <<pc, outcome, listening>>
  BY DEF Reader, route_for, dispatch_tagged, dispatch_broadcast, dispatch_reserve,
     dispatch_push, read_loop_end, callerVars, channelVars
<1>2. CASE dispatch_push
  <2>1. rpc = "push" /\ rpc' # "push" /\ route \in Cmds
    BY <1>2 DEF dispatch_push, ReaderKnows, PermitGood
  <2>2. ASSUME NEW d \in Cmds, d # route PROVE LossOK(d)'
    BY <1>1, <1>2, <2>1, <2>2 DEF dispatch_push, LossInv, LossOK, Settled
  <2>3. LossOK(route) /\ pc[route] \notin {"new", "enqueue"}
    BY <2>1 DEF LossInv
  <2>4. CASE pc[route] \in {"stream", "drain"}
    <3>1. discarded' = discarded
      BY <1>2, <2>4 DEF dispatch_push
    <3>2. (pc'[route] \in {"stream", "drain"}) /\ discarded'[route] = {} /\ listening'[route] = listening[route]
      BY <1>1, <2>3, <2>4, <3>1 DEF LossOK
    <3>3. ASSUME NEW d \in Cmds, d = route PROVE LossOK(d)'
      <4>1. LossOK(d) /\ pc'[d] \in {"stream", "drain"} /\ pc'[d] = pc[d]
            /\ discarded'[d] = {} /\ listening'[d] = listening[d]
        BY <1>1, <2>3, <3>2, <3>3
      <4>2. ~Settled(d)'
        BY <4>1 DEF Settled
      <4> QED BY <4>1, <4>2 DEF LossOK
    <3> QED BY <2>1, <2>2, <3>3 DEF LossInv
  <2>5. CASE pc[route] \in {"wait", "done"}
    <3>1. frames' = frames /\ discarded'[route] = discarded[route] \cup {rpos}
      BY <1>2, <2>1, <2>5 DEF dispatch_push
    <3>2. Settled(route) => discarded[route] = {}
      BY <2>1, <2>3 DEF LossOK
    <3>3. ASSUME NEW d \in Cmds, d = route PROVE LossOK(d)'
      <4>1. /\ LossOK(d) /\ pc[d] \in {"wait", "done"} /\ frames'[d] = frames[d]
            /\ pc'[d] = pc[d] /\ listening'[d] = listening[d] /\ Settled(d)' = Settled(d)
            /\ discarded'[d] = discarded[d] \cup {rpos}
        BY <1>1, <2>3, <2>5, <3>1, <3>3 DEF Settled
      <4>2. Settled(d)' => discarded'[d] = {rpos}
        BY <3>2, <3>3, <4>1
      <4> QED BY <2>1, <4>1, <4>2 DEF LossOK
    <3> QED BY <2>1, <2>2, <3>3 DEF LossInv
  <2> QED BY <2>1, <2>3, <2>4, <2>5
<1>3. CASE dispatch_reserve
  <2>1. /\ route \in Cmds /\ listening[route] /\ UNCHANGED <<route, frames, discarded>>
    BY <1>3 DEF dispatch_reserve, channelVars
  <2>2. pc[route] = "stream"
    BY <2>1 DEF LossInv, LossOK
  <2>3. ~Settled(route)
    BY <2>2 DEF Settled
  <2> QED BY <1>1, <2>1, <2>2, <2>3 DEF LossInv, LossOK, Settled
<1>4. CASE route_for \/ dispatch_tagged \/ dispatch_broadcast \/ read_loop_end
  <2>1. rpc' # "push" /\ UNCHANGED <<frames, discarded>>
    BY <1>4 DEF route_for, dispatch_tagged, dispatch_broadcast, read_loop_end, channelVars
  <2> QED BY <1>1, <2>1 DEF LossInv, LossOK, Settled
<1> QED BY <1>2, <1>3, <1>4 DEF Reader

LEMMA LossNext == TypeInv /\ AnswerInv /\ LossInv /\ [Next]_vars => LossInv'
<1> SUFFICES ASSUME TypeInv, AnswerInv, LossInv, [Next]_vars PROVE LossInv'
  OBVIOUS
<1>1. CASE writer \/ send_raw \/ drop_client \/ Writer \/ Server \/ UNCHANGED vars
  <2>1. UNCHANGED <<pc, outcome, listening, frames, discarded, rpc, route>>
    BY <1>1 DEF writer, send_raw, drop_client, Writer, write_loop_recv, write_all,
       write_error, write_loop_end, WriterStops, Server, server_data,
       server_unsolicited, server_status, server_repeats, server_ends, vars,
       callerVars, channelVars, readerVars
  <2> QED BY <2>1 DEF LossInv, LossOK, Settled
<1> QED BY <1>1, LossCaller, LossReader DEF Next

\* Whatever the capacity and the interleaving, into_reply loses one frame at the
\* most and leaves none in the stream.
LEMMA DrainLosesAtMostOne == Spec => []LosesAtMostOne
<1>1. Init => TypeInv /\ AnswerInv /\ LossInv
  BY TypeInit, AnswerInit, LossInit
<1>2. TypeInv /\ AnswerInv /\ LossInv /\ [Next]_vars => TypeInv' /\ AnswerInv' /\ LossInv'
  BY TypeNext, AnswerNext, LossNext
<1>3. LossInv => LosesAtMostOne
  BY DEF LossInv, LossOK, Settled, LosesAtMostOne
<1> QED BY <1>1, <1>2, <1>3, PTL DEF Spec

\* Every untagged frame the read loop is done with is in exactly one place: one
\* stream, the broadcast once, or lost with one receiver; for any number of
\* streams that close, drain or are dropped while the loop holds a frame.  What a
\* caller that has not given up can lose is one frame, the one the read loop had
\* a permit for when into_reply closed the stream (client.rs, dispatch_frame and
\* into_reply).
THEOREM FramesConserved == Spec => []FrameConservation
<1>1. InOnePlace /\ LosesAtMostOne => FrameConservation
  BY DEF FrameConservation
<1> QED BY <1>1, FramesInOnePlace, DrainLosesAtMostOne, PTL

-----------------------------------------------------------------------------
(* The order of tags.  A caller holds the client from the moment it takes a  *)
(* tag until its request is queued, so requests are queued, registered,      *)
(* written and answered in the order of their tags.                          *)

Ordered(s) == \A i, j \in DOMAIN s : i < j /\ s[i] # 0 /\ s[j] # 0 => s[i] < s[j]

LEMMA JoinRequests ==
  \A s \in Seq(Cmds \cup {0}), x \in Cmds \cup {0} :
    Range(Append(s, x)) = Range(s) \cup {x}
  BY JoinQueue

LEMMA HeadTailRange ==
  ASSUME NEW S, NEW s \in Seq(S), s # <<>>
  PROVE  \A x \in Range(s) : x = Head(s) \/ x \in Range(Tail(s))
<1>1. /\ Tail(s) \in Seq(S) /\ Len(Tail(s)) = Len(s) - 1 /\ Head(s) = s[1]
      /\ \A i \in 1 .. Len(Tail(s)) : Tail(s)[i] = s[i + 1]
  BY HeadTailProperties
<1>2. /\ Len(s) \in Nat /\ Len(s) > 0
      /\ DOMAIN s = 1 .. Len(s) /\ DOMAIN Tail(s) = 1 .. (Len(s) - 1)
  BY <1>1, LenProperties, EmptySeq
<1>3. ASSUME NEW i \in DOMAIN s, i # 1 PROVE s[i] \in Range(Tail(s))
  <2>1. i - 1 \in DOMAIN Tail(s) /\ i - 1 \in 1 .. Len(Tail(s)) /\ (i - 1) + 1 = i
    BY <1>1, <1>2, <1>3
  <2>2. Tail(s)[i - 1] = s[i]
    BY <1>1, <2>1
  <2> QED BY <2>1, <2>2 DEF Range
<1> QED BY <1>1, <1>3 DEF Range

LEMMA OrderedJoin ==
  ASSUME NEW S, NEW s \in Seq(S), NEW x \in S, Ordered(s),
         x = 0 \/ \A y \in Range(s) : y # 0 => y < x
  PROVE  Ordered(Append(s, x))
<1>1. /\ Len(s) \in Nat /\ DOMAIN s = 1 .. Len(s) /\ DOMAIN Append(s, x) = 1 .. (Len(s) + 1)
      /\ \A i \in 1 .. Len(s) : Append(s, x)[i] = s[i] /\ s[i] \in Range(s)
      /\ Append(s, x)[Len(s) + 1] = x
  BY AppendProperties, LenProperties DEF Range
<1>2. ASSUME NEW i \in DOMAIN Append(s, x), NEW j \in DOMAIN Append(s, x), i < j,
             Append(s, x)[i] # 0, Append(s, x)[j] # 0
      PROVE  Append(s, x)[i] < Append(s, x)[j]
  <2>1. i \in 1 .. Len(s)
    BY <1>1, <1>2
  <2>2. CASE j \in 1 .. Len(s)
    BY <1>1, <1>2, <2>1, <2>2 DEF Ordered
  <2>3. CASE j = Len(s) + 1
    BY <1>1, <1>2, <2>1, <2>3
  <2> QED BY <1>1, <2>2, <2>3
<1> QED BY <1>2 DEF Ordered

LEMMA OrderedLeave ==
  ASSUME NEW S, NEW s \in Seq(S), s # <<>>, Ordered(s)
  PROVE  /\ Ordered(Tail(s))
         /\ \A y \in Range(Tail(s)) : Head(s) # 0 /\ y # 0 => Head(s) < y
<1>1. /\ Tail(s) \in Seq(S) /\ Len(Tail(s)) = Len(s) - 1
      /\ \A i \in 1 .. Len(Tail(s)) : Tail(s)[i] = s[i + 1]
  BY HeadTailProperties
<1>2. /\ Len(s) \in Nat /\ Len(s) > 0
      /\ DOMAIN s = 1 .. Len(s) /\ DOMAIN Tail(s) = 1 .. (Len(s) - 1)
  BY <1>1, LenProperties, EmptySeq
<1>3. Head(s) = s[1]
  OBVIOUS
<1>4. \A i \in DOMAIN Tail(s) : /\ Tail(s)[i] = s[i + 1] /\ i + 1 \in DOMAIN s /\ 1 < i + 1
                                /\ i \in Nat /\ 1 \in DOMAIN s
  BY <1>1, <1>2
<1>5. Ordered(Tail(s))
  BY <1>4 DEF Ordered
<1>6. \A y \in Range(Tail(s)) : Head(s) # 0 /\ y # 0 => Head(s) < y
  BY <1>3, <1>4 DEF Ordered, Range
<1> QED BY <1>5, <1>6

LEMMA OrderedWithout ==
  ASSUME NEW s \in Seq(Cmds), NEW c \in Cmds, Ordered(s)
  PROVE  Ordered(Without(s, c)) /\ \A d \in Range(s) : d # c => d \in Range(Without(s, c))
<1>0. Len(s) \in Nat /\ DOMAIN s = 1 .. Len(s)
  BY LenProperties
<1>1. CASE ~ \E i \in DOMAIN s : s[i] = c
  BY <1>1 DEF Without
<1>2. CASE \E i \in DOMAIN s : s[i] = c
  <2> DEFINE k == CHOOSE i \in DOMAIN s : s[i] = c
             w == [j \in 1 .. (Len(s) - 1) |-> IF j < k THEN s[j] ELSE s[j + 1]]
  <2>1. k \in 1 .. Len(s) /\ s[k] = c
    BY <1>0, <1>2
  <2>2. Without(s, c) = w
    BY <1>2 DEF Without
  <2> HIDE DEF k
  <2>3. DOMAIN w = 1 .. (Len(s) - 1)
    OBVIOUS
  <2>4. \A j \in DOMAIN w : w[j] = IF j < k THEN s[j] ELSE s[j + 1]
    OBVIOUS
  <2> HIDE DEF w
  <2>5. ASSUME NEW i \in DOMAIN w, NEW j \in DOMAIN w, i < j, w[i] # 0, w[j] # 0
        PROVE  w[i] < w[j]
    <3> DEFINE p == IF i < k THEN i ELSE i + 1
               q == IF j < k THEN j ELSE j + 1
    <3>1. p \in DOMAIN s /\ q \in DOMAIN s /\ p < q
      BY <1>0, <2>1, <2>3, <2>5
    <3>2. w[i] = s[p] /\ w[j] = s[q]
      BY <2>4
    <3> QED BY <2>5, <3>1, <3>2 DEF Ordered
  <2>6. ASSUME NEW i \in DOMAIN s, s[i] # c PROVE \E j \in DOMAIN w : w[j] = s[i]
    <3>1. i # k /\ i \in 1 .. Len(s)
      BY <1>0, <2>1, <2>6
    <3>2. CASE i < k
      <4>1. i \in DOMAIN w
        BY <1>0, <2>1, <2>3, <3>1, <3>2
      <4> QED BY <2>4, <3>2, <4>1
    <3>3. CASE i > k
      <4>1. i - 1 \in DOMAIN w /\ ~(i - 1 < k) /\ (i - 1) + 1 = i
        BY <1>0, <2>1, <2>3, <3>1, <3>3
      <4>2. w[i - 1] = s[i]
        BY <2>4, <4>1
      <4> QED BY <4>1, <4>2
    <3> QED BY <1>0, <2>1, <3>1, <3>2, <3>3
  <2> QED BY <2>2, <2>5, <2>6 DEF Ordered, Range
<1> QED BY <1>1, <1>2

Arrived(c) == c \in Range(inbox) \/ answered[c] # 0

HoldsClient == \A c \in Cmds : pc[c] = "enqueue" => borrow = c /\ c + 1 = tag_counter
QueueOrder ==
  /\ Ordered(write_rx)
  /\ \A c, d \in Cmds : c \in Range(write_rx) /\ (Reached(d) \/ d \in Range(collectors))
       => d < c
ServerOrder ==
  /\ Ordered(inbox)
  /\ \A c, d \in Cmds : BeingWritten(c) /\ Arrived(d) => d < c
  /\ \A c, d \in Cmds : c \in Range(inbox) /\ answered[d] # 0 => d < c
\* A collector belongs to a command that reached the server, or to the last one,
\* whose write failed.
CollectorOrder ==
  /\ Ordered(collectors)
  /\ \A d \in Cmds : d \in Range(collectors) =>
       /\ wants[d] # NoClass
       /\ Reached(d) \/ (wpc = "stopped" /\ \A c \in Cmds : Arrived(c) => c < d)
\* A streaming command has its collector until its status is dispatched.
Collecting ==
  \A c \in Cmds : Reached(c) /\ rpc # "stopped" /\ wants[c] # NoClass =>
    c \in Range(collectors) \/ \E i \in Dispatched : StatusFor(i, c)
TagInv == HoldsClient /\ QueueOrder /\ ServerOrder /\ CollectorOrder /\ Collecting

LEMMA TagInit == Init => TagInv
<1> SUFFICES ASSUME Init PROVE TagInv
  OBVIOUS
<1>1. /\ write_rx = <<>> /\ inbox = <<>> /\ collectors = <<>> /\ wpc = "recv"
      /\ \A c \in Cmds : pc[c] = "new" /\ answered[c] = 0
  BY DEF Init
<1>2. Range(write_rx) = {} /\ Range(inbox) = {} /\ Range(collectors) = {}
  BY <1>1 DEF Range
<1>3. \A c \in Cmds : ~Reached(c) /\ ~Arrived(c) /\ ~BeingWritten(c)
  BY <1>1, <1>2 DEF Reached, Arrived, BeingWritten
<1>4. Ordered(write_rx) /\ Ordered(inbox) /\ Ordered(collectors)
  BY <1>1 DEF Ordered
<1> QED BY <1>1, <1>2, <1>3, <1>4
        DEF TagInv, HoldsClient, QueueOrder, ServerOrder, CollectorOrder, Collecting

\* A step that leaves the queue and the server's inbox alone and adds no collector.
LEMMA TagQuiet ==
  ASSUME TagInv, UNCHANGED <<write_rx, wpc, writing, inbox, answered>>,
         Ordered(collectors'), Range(collectors') \subseteq Range(collectors),
         \A d \in Cmds : Reached(d) \/ d \in Range(collectors) => wants'[d] = wants[d],
         HoldsClient', Collecting'
  PROVE  TagInv'
<1>1. \A d \in Cmds : /\ Reached(d)' <=> Reached(d)
                      /\ Arrived(d)' <=> Arrived(d)
                      /\ BeingWritten(d)' <=> BeingWritten(d)
  BY DEF Reached, Arrived, BeingWritten
<1>2. QueueOrder' /\ ServerOrder'
  BY <1>1 DEF TagInv, QueueOrder, ServerOrder
<1>3. CollectorOrder'
  BY <1>1 DEF TagInv, CollectorOrder
<1> QED BY <1>2, <1>3 DEF TagInv

\* Collectors are kept until the read loop stops, and no more commands are reached.
LEMMA CollectingKept ==
  ASSUME TypeInv, Collecting, Dispatched \subseteq Dispatched',
         \A i \in DOMAIN sent : sent'[i] = sent[i],
         rpc = "stopped" => rpc' = "stopped",
         \A c \in Cmds : Reached(c)' /\ wants'[c] # NoClass =>
           (Reached(c) /\ wants[c] # NoClass) \/ c \in Range(collectors)',
         rpc' = "stopped" \/ Range(collectors) \subseteq Range(collectors)'
  PROVE  Collecting'
<1>1. \A i \in Dispatched, c \in Cmds : StatusFor(i, c) => i \in Dispatched' /\ StatusFor(i, c)'
  BY DispatchedPlaces DEF StatusFor
<1> QED BY <1>1 DEF Collecting

\* A command that is on its way, or collects, has left "enqueue" and is older
\* than the next tag.
LEMMA UnderWay ==
  ASSUME TypeInv, AnswerInv, NEW d \in Cmds,
         d \in Range(write_rx) \/ Reached(d) \/ d \in Range(collectors)
  PROVE  pc[d] \notin {"new", "enqueue"} /\ d < tag_counter
<1>1. pc[d] \notin {"new", "enqueue"}
  BY DEF AnswerInv, NotYetQueued, Reached
<1>2. ~(d >= tag_counter)
  BY <1>1 DEF AnswerInv, FreshTags
<1> QED BY <1>1, <1>2, NCmdsAssumption DEF TypeInv, TypeOK, CallerOK, Cmds

LEMMA TagCaller ==
  ASSUME TypeInv, AnswerInv, TagInv, NEW c \in Cmds, Caller(c)
  PROVE  TagInv'
<1> USE DEF TypeInv, TypeOK, CallerOK
<1>0. /\ UNCHANGED <<rpc, rpos, answered, sent, wpc, writing, inbox, collectors>>
      /\ Dispatched' = Dispatched
  BY CallerStream DEF Dispatched, InHand, Caller, next_tag, enqueue_command, enqueue_closed,
     next_frame, into_reply, drain, await_reply, reply_closed, timeout, cancel, Abandon,
     pendingVars, writerVars, serverVars
<1>1. \A d \in Cmds : Reached(d)' <=> Reached(d)
  BY <1>0 DEF Reached, BeingWritten
<1>2. ASSUME NEW m \in Modes, NEW w \in Filters, next_tag(c, m, w) PROVE TagInv'
  <2>1. /\ UNCHANGED write_rx /\ borrow = 0 /\ borrow' = c /\ c = tag_counter
        /\ tag_counter' = tag_counter + 1 /\ pc' = [pc EXCEPT ![c] = "enqueue"]
        /\ wants' = [wants EXCEPT ![c] = w]
    BY <1>2 DEF next_tag, channelVars
  <2>2. pc[c] = "new"
    BY <2>1, NCmdsAssumption DEF AnswerInv, FreshTags, Cmds
  <2>3. \A d \in Cmds : pc[d] # "enqueue"
    BY <2>1, NCmdsAssumption DEF TagInv, HoldsClient, Cmds
  <2>4. HoldsClient'
    BY <2>1, <2>3 DEF HoldsClient
  <2>5. \A d \in Cmds : Reached(d) \/ d \in Range(collectors) => wants'[d] = wants[d]
    BY <2>1, <2>2, UnderWay
  <2>6. Collecting'
    BY <1>0, <1>1, <2>5, CollectingKept DEF TagInv
  <2> QED BY <1>0, <2>1, <2>4, <2>5, <2>6, TagQuiet DEF TagInv, CollectorOrder
<1>3. CASE enqueue_command(c)
  <2>1. /\ UNCHANGED <<wants, tag_counter>> /\ pc[c] = "enqueue"
        /\ write_rx' = Append(write_rx, c)
        /\ \E q \in {"wait", "stream"} : pc' = [pc EXCEPT ![c] = q]
    BY <1>3 DEF enqueue_command
  <2>2. c + 1 = tag_counter /\ borrow = c
    BY <2>1 DEF TagInv, HoldsClient
  <2>3. HoldsClient'
    BY <2>1, <2>2, NCmdsAssumption DEF TagInv, HoldsClient, Cmds
  <2>4. \A d \in Cmds : d \in Range(write_rx) \/ Reached(d) \/ d \in Range(collectors) => d < c
    <3>1. ASSUME NEW d \in Cmds, d \in Range(write_rx) \/ Reached(d) \/ d \in Range(collectors)
          PROVE  d < c
      <4>1. pc[d] \notin {"new", "enqueue"} /\ d < tag_counter
        BY <3>1, UnderWay
      <4>2. d # c /\ d \in Nat /\ c \in Nat
        BY <2>1, <4>1, NCmdsAssumption DEF Cmds
      <4> QED BY <2>2, <4>1, <4>2
    <3> QED BY <3>1
  <2>5. Ordered(write_rx') /\ Range(write_rx') = Range(write_rx) \cup {c}
    <3>1. \A y \in Range(write_rx) : y # 0 => y < c
      BY <2>4, ElementOfSeq DEF Range, QueueOK
    <3>2. write_rx \in Seq(Cmds \cup {0}) /\ Ordered(write_rx)
      BY DEF QueueOK, TagInv, QueueOrder
    <3>3. Ordered(Append(write_rx, c))
      BY <3>1, <3>2, OrderedJoin
    <3>4. Range(Append(write_rx, c)) = Range(write_rx) \cup {c}
      BY <3>2, JoinRequests
    <3> QED BY <2>1, <3>3, <3>4
  <2>6. QueueOrder'
    BY <1>0, <1>1, <2>4, <2>5 DEF TagInv, QueueOrder
  <2>7. ServerOrder' /\ CollectorOrder'
    BY <1>0, <1>1, <2>1 DEF TagInv, ServerOrder, CollectorOrder, Arrived, BeingWritten
  <2>8. Collecting'
    BY <1>0, <1>1, <2>1, CollectingKept DEF TagInv
  <2> QED BY <2>3, <2>6, <2>7, <2>8 DEF TagInv
<1>4. CASE /\ UNCHANGED <<write_rx, wants, tag_counter>> /\ pc[c] # "new"
           /\ pc' = pc \/ \E q \in {"drain", "wait", "done"} : pc' = [pc EXCEPT ![c] = q]
           /\ UNCHANGED borrow \/ (borrow = c /\ pc'[c] = "done")
  <2>1. HoldsClient'
    BY <1>4 DEF TagInv, HoldsClient
  <2>2. Collecting'
    BY <1>0, <1>1, <1>4, CollectingKept DEF TagInv
  <2> QED BY <1>0, <1>4, <2>1, <2>2, TagQuiet DEF TagInv, CollectorOrder
<1>5. enqueue_closed(c) \/ await_reply(c) \/ reply_closed(c) \/ timeout(c) \/ cancel(c)
        => /\ UNCHANGED <<write_rx, wants, tag_counter>> /\ pc[c] # "new"
           /\ pc' = [pc EXCEPT ![c] = "done"]
           /\ UNCHANGED borrow \/ (borrow = c /\ pc'[c] = "done")
  BY DEF enqueue_closed, await_reply, reply_closed, timeout, cancel, Abandon, Finish,
     channelVars
<1>6. next_frame(c) \/ into_reply(c) \/ drain(c)
        => /\ UNCHANGED <<write_rx, wants, tag_counter, borrow>> /\ pc[c] # "new"
           /\ pc' = pc \/ \E q \in {"drain", "wait"} : pc' = [pc EXCEPT ![c] = q]
  BY DEF next_frame, into_reply, drain
<1> QED BY <1>2, <1>3, <1>4, <1>5, <1>6 DEF Caller

\* Outside the callers, nobody touches what they hold.
LEMMA TagHeld ==
  ASSUME HoldsClient,
         writer \/ send_raw \/ drop_client \/ Writer \/ Reader \/ Server \/ UNCHANGED vars
  PROVE  HoldsClient' /\ UNCHANGED <<wants, pc>>
<1>1. UNCHANGED <<borrow, tag_counter, pc, wants>>
  BY CallersAlone DEF writer, send_raw, drop_client, callerVars
<1> QED BY <1>1 DEF HoldsClient

LEMMA TagReader ==
  ASSUME TypeInv, AnswerInv, TagInv, Reader
  PROVE  TagInv'
<1>0. HoldsClient' /\ UNCHANGED wants
  BY TagHeld DEF TagInv
<1>1. UNCHANGED <<write_rx, wpc, writing, inbox, answered, sent>>
  BY DEF Reader, route_for, dispatch_tagged, dispatch_broadcast, dispatch_reserve,
     dispatch_push, read_loop_end, channelVars, writerVars, serverVars
<1>2. \A c \in Cmds : Reached(c)' <=> Reached(c)
  BY <1>1 DEF Reached, BeingWritten
<1>3. CASE route_for \/ dispatch_reserve \/ dispatch_push \/ dispatch_broadcast
  <2>1. /\ UNCHANGED collectors /\ rpc # "stopped"
        /\ \/ rpc = "read" /\ rpos' = rpos + 1
           \/ rpc = "dispatch" /\ rpc' \in {"push", "read"} /\ rpos' = rpos
           \/ rpc = "push" /\ rpc' = "read" /\ rpos' = rpos
    BY <1>3 DEF route_for, dispatch_reserve, dispatch_push, dispatch_broadcast, pendingVars
  <2>2. Dispatched \subseteq Dispatched'
    BY <2>1, DispatchedPlaces DEF Dispatched, InHand
  <2>3. Collecting'
    BY <1>0, <1>1, <1>2, <2>1, <2>2, CollectingKept DEF TagInv
  <2> QED BY <1>0, <1>1, <2>1, <2>3, TagQuiet DEF TagInv, CollectorOrder
<1>4. CASE read_loop_end
  <2>1. collectors' = <<>> /\ rpc' = "stopped"
    BY <1>4 DEF read_loop_end, fail_all_pending
  <2>2. Ordered(collectors') /\ Range(collectors') = {} /\ Collecting'
    BY <2>1 DEF Ordered, Range, Collecting
  <2> QED BY <1>0, <1>1, <2>2, TagQuiet
<1>5. CASE dispatch_tagged
  <2>0. PICK t : t = sent[rpos].tag
    OBVIOUS
  <2>1. /\ rpc = "dispatch" /\ rpc' = "read" /\ rpos' = rpos /\ sent[rpos].kind \in Status
        /\ collectors' = Without(collectors, t)
    BY <1>5, <2>0 DEF dispatch_tagged, complete
  <2>2. Dispatched' = Dispatched \cup {rpos} /\ rpos \in DOMAIN sent
    BY <2>1, DispatchedPlaces DEF Dispatched, InHand
  <2>3. t \in Cmds /\ StatusFor(rpos, t)
    BY <2>0, <2>1, <2>2 DEF StatusFor, TypeInv, ReaderKnows, TagsKnown
  <2>4. collectors \in Seq(Cmds) /\ Ordered(collectors) /\ Distinct(collectors)
    BY DEF TypeInv, TypeOK, PendingOK, TagInv, CollectorOrder, AnswerInv, WaitersFresh
  <2>5. Ordered(collectors') /\ \A d \in Range(collectors) : d # t => d \in Range(collectors')
    BY <2>1, <2>3, <2>4, OrderedWithout
  <2>6. Range(collectors') \subseteq Range(collectors)
    BY <2>1, <2>3, <2>4, WithoutRange
  <2>7. Collecting'
    <3>1. \A i \in Dispatched \cup {rpos}, c \in Cmds :
            StatusFor(i, c) => i \in Dispatched' /\ StatusFor(i, c)'
      BY <1>1, <2>2 DEF StatusFor
    <3> QED BY <1>0, <1>2, <2>1, <2>3, <2>5, <3>1 DEF TagInv, Collecting
  <2> QED BY <1>0, <1>1, <2>5, <2>6, <2>7, TagQuiet
<1> QED BY <1>3, <1>4, <1>5 DEF Reader

LEMMA TagServer ==
  ASSUME TypeInv, AnswerInv, TagInv, Server
  PROVE  TagInv'
<1>0. HoldsClient' /\ UNCHANGED wants
  BY TagHeld DEF TagInv
<1>1. UNCHANGED <<rpc, rpos, write_rx, wpc, writing, collectors>> /\ Dispatched' = Dispatched
  BY DEF Server, server_data, server_unsolicited, server_status, server_repeats, server_ends,
     channelVars, pendingVars, writerVars, readerVars, Dispatched, InHand
<1>2. \A i \in DOMAIN sent : sent'[i] = sent[i]
  BY LogKept
<1>3. CASE UNCHANGED <<inbox, answered>>
  <2>1. \A c \in Cmds : Reached(c)' <=> Reached(c)
    BY <1>1, <1>3 DEF Reached, BeingWritten
  <2>2. Collecting'
    BY <1>0, <1>1, <1>2, <2>1, CollectingKept DEF TagInv
  <2> QED BY <1>0, <1>1, <1>3, <2>2, TagQuiet DEF TagInv, CollectorOrder
<1>4. CASE \E s \in Statuses : server_status(s)
  <2>0. PICK h : h = Head(inbox)
    OBVIOUS
  <2>1. /\ inbox # <<>> /\ inbox' = Tail(inbox)
        /\ answered' = [answered EXCEPT ![h] = Len(sent) + 1]
    BY <1>4, <2>0 DEF server_status
  <2>2. inbox \in Seq(Cmds) /\ Ordered(inbox) /\ Len(sent) + 1 # 0
    BY DispatchedPlaces DEF TypeInv, TypeOK, ServerOK, TagInv, ServerOrder
  <2>3. /\ h \in Cmds /\ h \in Range(inbox) /\ Range(inbox') \subseteq Range(inbox)
        /\ Range(inbox) = Range(inbox') \cup {h}
    <3>1. h \in Cmds /\ h \in Range(inbox) /\ Range(inbox') \subseteq Range(inbox)
      BY <2>0, <2>1, <2>2, LeaveQueue
    <3>2. \A x \in Range(inbox) : x = h \/ x \in Range(inbox')
      BY <2>0, <2>1, <2>2, HeadTailRange
    <3> QED BY <3>1, <3>2
  <2>4. Ordered(inbox') /\ \A y \in Range(inbox') : h # 0 /\ y # 0 => h < y
    BY <2>0, <2>1, <2>2, OrderedLeave
  <2>5. \A d \in Cmds : answered'[d] # 0 <=> answered[d] # 0 \/ d = h
    BY <2>1, <2>2, <2>3 DEF TypeInv, TypeOK, ServerOK
  <2>6. \A c \in Cmds : /\ Reached(c)' <=> Reached(c)
                        /\ Arrived(c)' <=> Arrived(c)
                        /\ BeingWritten(c)' <=> BeingWritten(c)
    BY <1>1, <2>3, <2>5 DEF Reached, Arrived, BeingWritten
  <2>7. QueueOrder' /\ CollectorOrder'
    BY <1>0, <1>1, <2>6 DEF TagInv, QueueOrder, CollectorOrder
  <2>8. ServerOrder'
    <3>1. \A c \in Cmds : c # 0
      BY NCmdsAssumption DEF Cmds
    <3> QED BY <2>3, <2>4, <2>5, <2>6, <3>1 DEF TagInv, ServerOrder
  <2>9. Collecting'
    BY <1>0, <1>1, <1>2, <2>6, CollectingKept DEF TagInv
  <2> QED BY <1>0, <2>7, <2>8, <2>9 DEF TagInv
<1> QED BY <1>3, <1>4 DEF Server, server_data, server_unsolicited, server_repeats, server_ends

LEMMA TagWriter ==
  ASSUME TypeInv, AnswerInv, TagInv, Writer
  PROVE  TagInv'
<1>0. HoldsClient' /\ UNCHANGED wants
  BY TagHeld DEF TagInv
<1>1. UNCHANGED <<rpc, rpos, answered, sent>> /\ Dispatched' = Dispatched
  BY DEF Writer, write_loop_recv, write_all, write_error, write_loop_end, WriterStops,
     readerVars, serverVars, Dispatched, InHand
<1>2. \A c \in Cmds : c # 0 /\ c \in Nat
  BY NCmdsAssumption DEF Cmds
<1>3. /\ write_rx \in Seq(Cmds \cup {0}) /\ collectors \in Seq(Cmds) /\ inbox \in Seq(Cmds)
      /\ writing \in Cmds \cup {0}
  BY DEF TypeInv, TypeOK, QueueOK, PendingOK, ServerOK, LoopsOK
<1>4. CASE write_loop_recv
  <2>0. PICK h, r : h = Head(write_rx) /\ r = Tail(write_rx)
    OBVIOUS
  <2>1. /\ write_rx # <<>> /\ write_rx' = r /\ wpc = "recv" /\ wpc' = "write" /\ writing' = h
        /\ UNCHANGED inbox
        /\ IF h = 0 THEN UNCHANGED collectors
           ELSE collectors' = IF wants[h] # NoClass THEN Append(collectors, h) ELSE collectors
    BY <1>4, <2>0 DEF write_loop_recv, register, pendingVars, serverVars
  <2>2. /\ h \in Cmds \cup {0} /\ h \in Range(write_rx) /\ Range(r) \subseteq Range(write_rx)
    BY <1>3, <2>0, <2>1, LeaveQueue
  <2>3. Ordered(r) /\ \A y \in Range(r) : h # 0 /\ y # 0 => h < y
    BY <1>3, <2>0, <2>1, OrderedLeave DEF TagInv, QueueOrder
  <2>4. \A d \in Cmds : /\ ~BeingWritten(d) /\ (BeingWritten(d)' <=> d = h)
                        /\ Arrived(d)' <=> Arrived(d)
                        /\ Reached(d) <=> Arrived(d)
                        /\ Reached(d)' <=> Arrived(d) \/ d = h
    BY <1>1, <2>1 DEF BeingWritten, Arrived, Reached
  <2>5. CASE h = 0
    <3>1. UNCHANGED collectors /\ \A d \in Cmds : ~BeingWritten(d)' /\ (Reached(d)' <=> Reached(d))
      BY <1>2, <2>1, <2>4, <2>5
    <3>2. QueueOrder'
      BY <2>1, <2>2, <2>3, <3>1 DEF TagInv, QueueOrder
    <3>3. ServerOrder'
      BY <1>1, <2>1, <2>4, <3>1 DEF TagInv, ServerOrder
    <3>4. CollectorOrder'
      BY <1>0, <2>1, <3>1 DEF TagInv, CollectorOrder
    <3>5. Collecting'
      BY <1>0, <1>1, <3>1, CollectingKept DEF TagInv
    <3> QED BY <1>0, <3>2, <3>3, <3>4, <3>5 DEF TagInv
  <2>6. CASE h \in Cmds
    <3>0. \A d \in Cmds : Reached(d) \/ d \in Range(collectors) => d < h
      BY <2>2, <2>6 DEF TagInv, QueueOrder
    <3>1. /\ Range(collectors) \subseteq Range(collectors')
          /\ Range(collectors') \subseteq Range(collectors) \cup {h}
          /\ h \in Range(collectors') <=> wants[h] # NoClass
          /\ Ordered(collectors')
      <4>1. Range(Append(collectors, h)) = Range(collectors) \cup {h}
        BY <1>3, <2>6, JoinQueue
      <4>2. \A y \in Range(collectors) : y \in Cmds /\ y < h
        BY <1>3, <3>0, ElementOfSeq DEF Range
      <4>3. Ordered(collectors) /\ Ordered(Append(collectors, h))
        BY <1>3, <2>6, <4>2, OrderedJoin DEF TagInv, CollectorOrder
      <4>4. h # 0 /\ h \notin Range(collectors)
        BY <1>2, <2>6, <4>2
      <4> QED BY <2>1, <4>1, <4>3, <4>4
    <3>2. QueueOrder'
      <4>1. \A c \in Cmds : c \in Range(r) => h < c
        BY <1>2, <2>3, <2>6
      <4> QED BY <2>1, <2>2, <2>3, <2>4, <3>1, <4>1 DEF TagInv, QueueOrder
    <3>3. ServerOrder'
      BY <1>1, <2>1, <2>4, <3>0 DEF TagInv, ServerOrder
    <3>4. CollectorOrder'
      BY <1>0, <2>1, <2>4, <3>1 DEF TagInv, CollectorOrder
    <3>5. Collecting'
      BY <1>0, <1>1, <2>4, <3>1, CollectingKept DEF TagInv
    <3> QED BY <1>0, <3>2, <3>3, <3>4, <3>5 DEF TagInv
  <2> QED BY <2>2, <2>5, <2>6
<1>5. CASE write_all
  <2>1. /\ UNCHANGED <<write_rx, collectors>> /\ wpc = "write" /\ wpc' = "recv"
        /\ inbox' = IF writing = 0 THEN inbox ELSE Append(inbox, writing)
    BY <1>5 DEF write_all, channelVars, pendingVars
  <2>2. /\ Ordered(inbox')
        /\ \A d \in Cmds : d \in Range(inbox') <=> d \in Range(inbox) \/ d = writing
    <3>1. CASE writing = 0
      BY <1>2, <2>1, <3>1 DEF TagInv, ServerOrder
    <3>2. CASE writing \in Cmds
      <4>1. inbox' = Append(inbox, writing) /\ BeingWritten(writing)
        BY <1>2, <2>1, <3>2 DEF BeingWritten
      <4>2. Range(Append(inbox, writing)) = Range(inbox) \cup {writing}
        BY <1>3, <3>2, JoinQueue
      <4>3. \A y \in Range(inbox) : y < writing
        BY <1>3, <3>2, <4>1, ElementOfSeq DEF Range, TagInv, ServerOrder, Arrived
      <4>4. Ordered(Append(inbox, writing))
        BY <1>3, <3>2, <4>3, OrderedJoin DEF TagInv, ServerOrder
      <4> QED BY <4>1, <4>2, <4>4
    <3> QED BY <1>3, <3>1, <3>2
  <2>3. \A d \in Cmds : /\ BeingWritten(d) <=> d = writing
                        /\ ~BeingWritten(d)' /\ (Reached(d)' <=> Reached(d))
    BY <1>1, <2>1, <2>2 DEF BeingWritten, Reached
  <2>4. QueueOrder' /\ CollectorOrder'
    BY <1>0, <2>1, <2>3 DEF TagInv, QueueOrder, CollectorOrder
  <2>5. ServerOrder'
    BY <1>1, <2>2, <2>3 DEF TagInv, ServerOrder, Arrived
  <2>6. Collecting'
    BY <1>0, <1>1, <2>1, <2>3, CollectingKept DEF TagInv
  <2> QED BY <1>0, <2>4, <2>5, <2>6 DEF TagInv
<1>6. CASE wpc # "stopped" /\ WriterStops
  <2>1. /\ wpc # "stopped" /\ wpc' = "stopped" /\ write_rx' = <<>> /\ UNCHANGED <<writing, inbox>>
        /\ IF rpc = "stopped" THEN collectors' = <<>> ELSE UNCHANGED collectors
    BY <1>6 DEF WriterStops, pendingVars, serverVars
  <2>2. Range(write_rx') = {} /\ Ordered(write_rx')
    BY <2>1 DEF Range, Ordered
  <2>3. Ordered(collectors') /\ Range(collectors') \subseteq Range(collectors)
    BY <2>1 DEF Range, Ordered, TagInv, CollectorOrder
  <2>4. \A d \in Cmds : /\ ~BeingWritten(d)' /\ (Arrived(d)' <=> Arrived(d))
                        /\ Reached(d)' <=> Arrived(d)
                        /\ Reached(d) <=> Arrived(d) \/ BeingWritten(d)
    BY <1>1, <2>1 DEF BeingWritten, Arrived, Reached
  <2>5. QueueOrder' /\ ServerOrder'
    BY <1>1, <2>1, <2>2, <2>4 DEF TagInv, QueueOrder, ServerOrder
  <2>6. CollectorOrder'
    BY <1>0, <2>1, <2>3, <2>4 DEF TagInv, CollectorOrder, ServerOrder
  <2>7. Collecting'
    BY <1>0, <1>1, <2>1, <2>4, CollectingKept DEF TagInv
  <2> QED BY <1>0, <2>5, <2>6, <2>7 DEF TagInv
<1> QED BY <1>4, <1>5, <1>6 DEF Writer, write_error, write_loop_end

LEMMA TagRest ==
  ASSUME TypeInv, AnswerInv, TagInv, writer \/ send_raw \/ drop_client \/ UNCHANGED vars
  PROVE  TagInv'
<1>0. HoldsClient' /\ UNCHANGED wants
  BY TagHeld DEF TagInv
<1>1. /\ UNCHANGED <<rpc, rpos, answered, sent, wpc, writing, inbox, collectors>>
      /\ Dispatched' = Dispatched
  BY DEF writer, send_raw, drop_client, vars, channelVars, pendingVars, writerVars,
     readerVars, serverVars, Dispatched, InHand
<1>2. \A d \in Cmds : Reached(d)' <=> Reached(d)
  BY <1>1 DEF Reached, BeingWritten
<1>3. Collecting'
  BY <1>0, <1>1, <1>2, CollectingKept DEF TagInv
<1>4. CASE UNCHANGED write_rx
  BY <1>0, <1>1, <1>3, <1>4, TagQuiet DEF TagInv, CollectorOrder
<1>5. CASE write_rx' = Append(write_rx, 0)
  <2>1. write_rx \in Seq(Cmds \cup {0}) /\ Ordered(write_rx) /\ 0 \in Cmds \cup {0}
    BY DEF TypeInv, TypeOK, QueueOK, TagInv, QueueOrder
  <2>2. Ordered(Append(write_rx, 0))
    BY <2>1, OrderedJoin
  <2>3. Range(Append(write_rx, 0)) = Range(write_rx) \cup {0}
    BY <2>1, JoinRequests
  <2>4. \A c \in Cmds : c \in Range(write_rx') => c \in Range(write_rx)
    BY <1>5, <2>3, NCmdsAssumption DEF Cmds
  <2>5. QueueOrder'
    BY <1>1, <1>2, <1>5, <2>2, <2>4 DEF TagInv, QueueOrder
  <2>6. ServerOrder' /\ CollectorOrder'
    BY <1>0, <1>1, <1>2 DEF TagInv, ServerOrder, CollectorOrder, Arrived, BeingWritten
  <2> QED BY <1>0, <1>3, <2>5, <2>6 DEF TagInv
<1> QED BY <1>4, <1>5 DEF writer, send_raw, drop_client, vars, channelVars

LEMMA TagAlways ==
  Spec => [](TypeInv /\ AnswerInv /\ StreamInv /\ ClaimInv /\ PlaceInv /\ TagInv)
<1>1. TypeInv /\ AnswerInv /\ TagInv /\ [Next]_vars => TagInv'
  BY TagCaller, TagWriter, TagReader, TagServer, TagRest DEF Next
<1> QED BY <1>1, TagInit, PlaceAlways, PTL DEF Spec

-----------------------------------------------------------------------------
(* Ownership. *)

\* A frame that answers a command has the command's class and comes before its
\* status, and after the status of every older command still collecting.
OwnerKnown == \A i \in DOMAIN sent : sent[i].kind = "data" /\ sent[i].own # 0 =>
  /\ sent[i].cls = wants[sent[i].own]
  /\ sent[i].own \in Range(inbox) \/ i < answered[sent[i].own]
  /\ \A d \in Cmds : d \in Range(collectors) /\ d < sent[i].own =>
       answered[d] # 0 /\ answered[d] < i
Listeners == \A c \in Cmds : listening[c] <=> pc[c] = "stream"
Streamers == \A c \in Cmds : pc[c] = "stream" => wants[c] # NoClass
\* The frame in hand goes to its owner while that one listens.
HandToOwner == InHand /\ sent[rpos].kind = "data" =>
  \A c \in Cmds : sent[rpos].own = c /\ pc[c] = "stream" => route = c
\* It goes to another command only if that one is younger and the owner does not
\* listen.
Abandoned(d, c) == d \in {0, c} \/ (d < c /\ ~listening[d])
HandToStranger ==
  InHand /\ route # 0 => sent[rpos].kind = "data" /\ Abandoned(sent[rpos].own, route)
OwnArrived == \A c \in Cmds, i \in Dispatched :
  pc[c] = "stream" /\ sent[i].kind = "data" /\ sent[i].own = c => i \in InStream(c)
Strangers == \A c \in Cmds : \A i \in InStream(c) : Abandoned(sent[i].own, c)
OwnInv == /\ OwnerKnown /\ Listeners /\ Streamers /\ HandToOwner /\ HandToStranger
          /\ OwnArrived /\ Strangers

LEMMA OwnInit == Init => OwnInv
<1> SUFFICES ASSUME Init PROVE OwnInv
  OBVIOUS
<1>1. /\ sent = <<>> /\ rpc = "read" /\ rpos = 0
      /\ \A c \in Cmds : pc[c] = "new" /\ listening[c] = FALSE /\ delivered[c] = <<>>
                         /\ frames[c] = <<>>
  BY DEF Init
<1>2. \A c \in Cmds : InStream(c) = {}
  BY <1>1 DEF InStream, Range
<1>3. OwnerKnown /\ HandToOwner /\ HandToStranger
  BY <1>1 DEF OwnerKnown, HandToOwner, HandToStranger, InHand
<1> QED BY <1>1, <1>2, <1>3 DEF OwnInv, Listeners, Streamers, OwnArrived, Strangers

\* The owner of a data frame is a command the server has received, and the frame
\* comes before its status.
LEMMA OwnerReached ==
  ASSUME TypeInv, AnswerInv, OwnerKnown, NEW i \in DOMAIN sent,
         sent[i].kind = "data", sent[i].own # 0
  PROVE  /\ sent[i].own \in Cmds /\ Reached(sent[i].own)
         /\ answered[sent[i].own] # 0 => i < answered[sent[i].own]
<1>1. sent[i] \in Frames /\ i \in Nat /\ i > 0
  BY ElementOfSeq, LenProperties DEF TypeInv, TypeOK, ServerOK
<1>2. PICK c : c = sent[i].own
  OBVIOUS
<1>3. c \in Cmds
  BY <1>1, <1>2 DEF Frames
<1>4. c \in Range(inbox) \/ i < answered[c]
  BY <1>2 DEF OwnerKnown
<1>5. c \in Range(inbox) => answered[c] = 0
  BY <1>3 DEF AnswerInv, ReceivedOnce
<1>6. i < answered[c] => answered[c] # 0
  BY <1>1
<1> QED BY <1>2, <1>3, <1>4, <1>5, <1>6 DEF Reached

\* A step that leaves the frame in the read loop's hand there.
LEMMA OwnQuiet ==
  ASSUME TypeInv, AnswerInv, OwnInv, OwnerKnown', Listeners', Streamers',
         UNCHANGED <<rpc, rpos, route>>, \A i \in DOMAIN sent : sent'[i] = sent[i],
         \A d \in Cmds : /\ Reached(d) /\ pc'[d] = "stream" => pc[d] = "stream"
                         /\ InStream(d)' \subseteq InStream(d)
                         /\ pc'[d] = "stream" => InStream(d)' = InStream(d),
         StreamInv
  PROVE  OwnInv'
<1>0. /\ Dispatched' = Dispatched /\ InHand' = InHand /\ Dispatched \subseteq DOMAIN sent
      /\ InHand => rpos \in DOMAIN sent
  BY DispatchedPlaces DEF Dispatched, InHand
<1>1. \A d \in Cmds : Reached(d) /\ listening'[d] => listening[d]
  BY DEF OwnInv, Listeners
<1>2. ASSUME NEW i \in DOMAIN sent, sent[i].kind = "data", NEW c \in Cmds, Abandoned(sent[i].own, c)
      PROVE  Abandoned(sent[i].own, c)'
  <2>1. CASE sent[i].own = 0
    BY <1>2, <2>1 DEF Abandoned
  <2>2. CASE sent[i].own # 0
    <3>1. sent[i].own \in Cmds /\ Reached(sent[i].own)
      BY <1>2, <2>2, OwnerReached DEF OwnInv
    <3> QED BY <1>1, <1>2, <3>1 DEF Abandoned
  <2> QED BY <2>1, <2>2
<1>3. ASSUME NEW i \in DOMAIN sent, sent[i].kind = "data", NEW c \in Cmds, sent[i].own = c,
             pc'[c] = "stream"
      PROVE  pc[c] = "stream"
  <2>1. sent[i].own # 0
    BY <1>3, NCmdsAssumption DEF Cmds
  <2> QED BY <1>3, <2>1, OwnerReached DEF OwnInv
<1>4. HandToOwner'
  BY <1>0, <1>3 DEF OwnInv, HandToOwner
<1>5. HandToStranger'
  <2>1. ASSUME InHand, route # 0
        PROVE  sent[rpos].kind = "data" /\ Abandoned(sent[rpos].own, route)'
    BY <1>0, <1>2, <2>1 DEF OwnInv, HandToStranger, TypeInv, TypeOK, LoopsOK
  <2> QED BY <1>0, <2>1 DEF HandToStranger
<1>6. OwnArrived'
  BY <1>0, <1>3 DEF OwnInv, OwnArrived
<1>7. Strangers'
  <2>1. \A c \in Cmds : \A i \in InStream(c) : i \in DOMAIN sent /\ sent[i].kind = "data"
    BY <1>0 DEF StreamInv, StreamOrdered
  <2> QED BY <1>2, <2>1 DEF OwnInv, Strangers
<1> QED BY <1>4, <1>5, <1>6, <1>7 DEF OwnInv

\* Nothing new is sent, no status is, and a new collector is the youngest.
LEMMA OwnerQuiet ==
  ASSUME TypeInv, AnswerInv, OwnerKnown, UNCHANGED <<sent, answered>>,
         \A d \in Cmds : Reached(d) => wants'[d] = wants[d],
         Range(inbox) \subseteq Range(inbox'),
         \A d \in Cmds : d \in Range(collectors') /\ d \notin Range(collectors) =>
           \A c \in Cmds : Reached(c) => c < d
  PROVE  OwnerKnown'
<1> SUFFICES ASSUME NEW i \in DOMAIN sent, sent[i].kind = "data", sent[i].own # 0
             PROVE  /\ sent[i].cls = wants'[sent[i].own]
                    /\ sent[i].own \in Range(inbox') \/ i < answered[sent[i].own]
                    /\ \A d \in Cmds : d \in Range(collectors') /\ d < sent[i].own =>
                         answered[d] # 0 /\ answered[d] < i
  BY DEF OwnerKnown
<1>1. sent[i].own \in Cmds /\ Reached(sent[i].own)
  BY OwnerReached
<1>2. \A d \in Cmds : sent[i].own < d => ~(d < sent[i].own)
  BY <1>1, NCmdsAssumption DEF Cmds
<1> QED BY <1>1, <1>2 DEF OwnerKnown

LEMMA OwnCaller ==
  ASSUME TypeInv, AnswerInv, StreamInv, OwnInv, NEW c \in Cmds, Caller(c)
  PROVE  OwnInv'
<1> USE DEF TypeInv, TypeOK, CallerOK, StreamOK
<1>0. UNCHANGED <<rpc, rpos, route, answered, sent, inbox, collectors>>
  BY CallerStream DEF Caller, next_tag, enqueue_command, enqueue_closed,
     next_frame, into_reply, drain, await_reply, reply_closed, timeout, cancel, Abandon,
     pendingVars, serverVars
<1>1. ASSUME NEW m \in Modes, NEW w \in Filters, next_tag(c, m, w) PROVE OwnInv'
  <2>1. /\ UNCHANGED <<delivered, frames, listening>> /\ c = tag_counter
        /\ pc' = [pc EXCEPT ![c] = "enqueue"] /\ wants' = [wants EXCEPT ![c] = w]
    BY <1>1 DEF next_tag, channelVars
  <2>2. pc[c] = "new"
    BY <2>1, NCmdsAssumption DEF AnswerInv, FreshTags, Cmds
  <2>3. \A d \in Cmds : Reached(d) => wants'[d] = wants[d]
    BY <2>1, <2>2, UnderWay
  <2>4. OwnerKnown'
    BY <1>0, <2>3, OwnerQuiet DEF OwnInv
  <2>5. Listeners' /\ Streamers'
    BY <2>1, <2>2 DEF OwnInv, Listeners, Streamers
  <2>6. \A d \in Cmds : InStream(d)' = InStream(d)
    BY <2>1 DEF InStream
  <2> QED BY <1>0, <2>1, <2>4, <2>5, <2>6, OwnQuiet
<1>2. CASE enqueue_command(c)
  <2>1. /\ UNCHANGED <<delivered, frames, wants>> /\ pc[c] = "enqueue"
        /\ pc' = [pc EXCEPT ![c] = IF wants[c] = NoClass THEN "wait" ELSE "stream"]
        /\ listening' = [listening EXCEPT ![c] = wants[c] # NoClass]
    BY <1>2 DEF enqueue_command
  <2>2. ~Reached(c)
    BY <2>1, UnderWay
  <2>3. OwnerKnown'
    BY <1>0, <2>1, OwnerQuiet DEF OwnInv
  <2>4. \A d \in Cmds : d # c => pc'[d] = pc[d] /\ listening'[d] = listening[d]
    BY <2>1
  <2>5. listening'[c] <=> wants[c] # NoClass
    BY <2>1
  <2>6. pc'[c] = "stream" <=> wants[c] # NoClass
    BY <2>1
  <2>7. Listeners' /\ Streamers'
    BY <2>1, <2>4, <2>5, <2>6 DEF OwnInv, Listeners, Streamers
  <2>8. \A d \in Cmds : InStream(d)' = InStream(d)
    BY <2>1 DEF InStream
  <2> QED BY <1>0, <2>2, <2>3, <2>4, <2>7, <2>8, OwnQuiet
<1>3. ASSUME UNCHANGED wants, Listeners',
             pc' = pc \/ \E q \in {"drain", "wait", "done"} : pc' = [pc EXCEPT ![c] = q],
             \A d \in Cmds : /\ InStream(d)' \subseteq InStream(d)
                             /\ pc'[d] = "stream" => InStream(d)' = InStream(d)
      PROVE  OwnInv'
  <2>1. OwnerKnown'
    BY <1>0, <1>3, OwnerQuiet DEF OwnInv
  <2>2. \A d \in Cmds : pc'[d] = "stream" => pc[d] = "stream"
    BY <1>3
  <2>3. Streamers'
    BY <1>3, <2>2 DEF OwnInv, Streamers
  <2> QED BY <1>0, <1>3, <2>1, <2>2, <2>3, OwnQuiet
<1>4. CASE next_frame(c)
  <2>0. PICK h, r : h = Head(frames[c]) /\ r = Tail(frames[c])
    OBVIOUS
  <2>1. /\ UNCHANGED <<wants, pc, listening>> /\ frames[c] # <<>>
        /\ delivered' = [delivered EXCEPT ![c] = Append(@, h)]
        /\ frames' = [frames EXCEPT ![c] = r]
    BY <1>4, <2>0 DEF next_frame
  <2>2. h \in Nat /\ Range(frames[c]) = {h} \cup Range(r)
    BY <2>0, <2>1, IncreasingLeave DEF StreamInv, StreamOrdered
  <2>3. Range(delivered'[c]) = Range(delivered[c]) \cup {h}
    BY <2>1, <2>2, JoinRange
  <2>4. \A d \in Cmds : InStream(d)' = InStream(d)
    BY <2>1, <2>2, <2>3 DEF InStream
  <2>5. Listeners'
    BY <2>1 DEF OwnInv, Listeners
  <2> QED BY <1>3, <2>1, <2>4, <2>5
<1>5. CASE drain(c)
  <2>1. /\ UNCHANGED <<wants, delivered, listening>> /\ pc[c] = "drain"
        /\ pc' = pc \/ pc' = [pc EXCEPT ![c] = "wait"]
        /\ frames' = frames \/ (frames[c] # <<>> /\ frames' = [frames EXCEPT ![c] = Tail(@)])
    BY <1>5 DEF drain
  <2>2. \A d \in Cmds : Range(frames'[d]) \subseteq Range(frames[d])
    <3>1. frames[c] # <<>> => Range(Tail(frames[c])) \subseteq Range(frames[c])
      BY LeaveQueue
    <3> QED BY <2>1, <3>1
  <2>3. \A d \in Cmds : d # c => Range(frames'[d]) = Range(frames[d])
    BY <2>1
  <2>4. \A d \in Cmds : /\ InStream(d)' \subseteq InStream(d)
                        /\ pc'[d] = "stream" => InStream(d)' = InStream(d)
    BY <2>1, <2>2, <2>3 DEF InStream
  <2>5. Listeners'
    BY <2>1 DEF OwnInv, Listeners
  <2> QED BY <1>3, <2>1, <2>4, <2>5
<1>6. CASE timeout(c) \/ cancel(c)
  <2>1. /\ UNCHANGED <<wants, delivered>> /\ pc' = [pc EXCEPT ![c] = "done"]
        /\ listening' = [listening EXCEPT ![c] = FALSE]
        /\ frames' = [frames EXCEPT ![c] = <<>>]
    BY <1>6 DEF timeout, cancel, Abandon, Finish
  <2>2. Range(frames'[c]) = {} /\ \A d \in Cmds : d # c => frames'[d] = frames[d]
    BY <2>1 DEF Range
  <2>3. \A d \in Cmds : /\ InStream(d)' \subseteq InStream(d)
                        /\ pc'[d] = "stream" => InStream(d)' = InStream(d)
    BY <2>1, <2>2 DEF InStream
  <2>4. Listeners'
    BY <2>1 DEF OwnInv, Listeners
  <2> QED BY <1>3, <2>1, <2>3, <2>4
<1>7. CASE into_reply(c) \/ enqueue_closed(c) \/ await_reply(c) \/ reply_closed(c)
  <2>1. /\ UNCHANGED <<wants, delivered, frames>>
        /\ \E q \in {"drain", "wait", "done"} : pc' = [pc EXCEPT ![c] = q]
        /\ \/ listening' = [listening EXCEPT ![c] = FALSE]
           \/ UNCHANGED listening /\ pc[c] # "stream"
    BY <1>7 DEF into_reply, enqueue_closed, await_reply, reply_closed, Finish, channelVars
  <2>2. \A d \in Cmds : InStream(d)' = InStream(d)
    BY <2>1 DEF InStream
  <2>3. Listeners'
    BY <2>1 DEF OwnInv, Listeners
  <2> QED BY <1>3, <2>1, <2>2, <2>3
<1> QED BY <1>1, <1>2, <1>4, <1>5, <1>6, <1>7 DEF Caller

\* A command whose status the read loop has yet to dispatch still collects, and
\* no older one does when it comes to a frame of this one.
LEMMA OldestCollector ==
  ASSUME TypeInv, AnswerInv, TagInv, OwnInv, rpc = "read", rpos < Len(sent),
         NEW n, n = rpos + 1, sent[n].kind = "data", NEW c \in Cmds, sent[n].own = c
  PROVE  /\ wants[c] # NoClass => c \in Range(collectors)
         /\ \A d \in Cmds : d \in Range(collectors) => ~(d < c)
<1>0. /\ Len(sent) \in Nat /\ DOMAIN sent = 1 .. Len(sent) /\ rpos \in Nat
      /\ n \in DOMAIN sent /\ Dispatched = 1 .. rpos /\ c # 0
  BY DispatchedPlaces, NCmdsAssumption DEF Cmds, Dispatched, InHand
<1>1. /\ Reached(c) /\ (answered[c] # 0 => n < answered[c])
      /\ \A d \in Cmds : d \in Range(collectors) /\ d < c => answered[d] # 0 /\ answered[d] < n
  BY <1>0, OwnerReached DEF OwnInv, OwnerKnown
<1>2. \A i \in Dispatched : ~StatusFor(i, c)
  <2> SUFFICES ASSUME NEW i \in Dispatched, StatusFor(i, c) PROVE FALSE
    OBVIOUS
  <2>1. i \in DOMAIN sent /\ i \in Nat /\ i > 0 /\ i < n
    BY <1>0
  <2>2. answered[c] # 0 /\ ~(i \in 1 .. (answered[c] - 1))
    BY <2>1 DEF AnswerInv, AnsweredIsFirst
  <2>3. n < answered[c] /\ answered[c] \in Nat
    BY <1>1, <2>2 DEF TypeInv, TypeOK, ServerOK
  <2> QED BY <1>0, <2>1, <2>2, <2>3
<1>3. wants[c] # NoClass => c \in Range(collectors)
  BY <1>1, <1>2 DEF TagInv, Collecting
<1>4. ASSUME NEW d \in Cmds, d \in Range(collectors), d < c PROVE FALSE
  <2>1. answered[d] # 0 /\ answered[d] < n /\ answered[d] \in Nat
    BY <1>1, <1>4 DEF TypeInv, TypeOK, ServerOK
  <2>2. answered[d] \in Dispatched
    BY <1>0, <2>1
  <2>3. StatusFor(answered[d], d)
    BY <2>1 DEF AnswerInv, AnsweredIsFirst
  <2> QED BY <1>4, <2>2, <2>3 DEF AnswerInv, WaitersFresh
<1> QED BY <1>3, <1>4

\* The collector a data frame is routed to is its owner's while that one listens;
\* otherwise it is a younger command's.
LEMMA RouteChosen ==
  ASSUME TypeInv, AnswerInv, TagInv, OwnInv, rpc = "read", rpos < Len(sent),
         NEW n, n = rpos + 1, sent[n].kind = "data", collector_for(sent[n])
  PROVE  /\ \A c \in Cmds : sent[n].own = c /\ pc[c] = "stream" => route' = c
         /\ route' # 0 => Abandoned(sent[n].own, route')
<1>0. /\ Len(sent) \in Nat /\ DOMAIN sent = 1 .. Len(sent) /\ rpos \in Nat /\ n \in DOMAIN sent
      /\ sent[n] \in Frames
  BY DispatchedPlaces, ElementOfSeq DEF TypeInv, TypeOK, ServerOK
<1>1. /\ Len(collectors) \in Nat /\ DOMAIN collectors = 1 .. Len(collectors)
      /\ \A i \in DOMAIN collectors : collectors[i] \in Cmds /\ collectors[i] \in Range(collectors)
      /\ \A i \in DOMAIN collectors : collectors[i] # 0 /\ collectors[i] \in Nat
  BY LenProperties, ElementOfSeq, NCmdsAssumption DEF TypeInv, TypeOK, PendingOK, Range, Cmds
<1>2. ASSUME NEW c \in Cmds, sent[n].own = c, pc[c] = "stream" PROVE route' = c
  <2>1. wants[c] # NoClass /\ listening[c] /\ sent[n].cls = wants[c]
    <3>1. c # 0
      BY NCmdsAssumption DEF Cmds
    <3> QED BY <1>0, <1>2, <3>1 DEF OwnInv, Streamers, Listeners, OwnerKnown
  <2>2. /\ c \in Range(collectors)
        /\ \A d \in Cmds : d \in Range(collectors) => ~(d < c)
    BY <1>2, <2>1, OldestCollector
  <2>3. PICK k \in DOMAIN collectors : collectors[k] = c
    BY <2>2 DEF Range
  <2>4. Accepts(k, sent[n].cls)
    BY <2>1, <2>3 DEF Accepts
  <2>5. PICK i \in DOMAIN collectors : /\ \A j \in 1 .. (i - 1) : ~Accepts(j, sent[n].cls)
                                       /\ route' = collectors[i]
    BY <2>4 DEF collector_for
  <2>6. ~(i < k)
    BY <1>1, <2>2, <2>3 DEF TagInv, CollectorOrder, Ordered
  <2>7. ~(k < i)
    BY <1>1, <2>4, <2>5
  <2>8. i = k
    BY <1>1, <2>6, <2>7
  <2> QED BY <2>3, <2>5, <2>8
<1>3. ASSUME route' # 0 PROVE Abandoned(sent[n].own, route')
  <2>0. PICK r : r = route'
    OBVIOUS
  <2>1. r \in Cmds /\ r \in Range(collectors)
    BY <1>1, <1>3, <2>0 DEF collector_for
  <2>2. CASE sent[n].own = 0
    BY <2>2 DEF Abandoned
  <2>3. CASE sent[n].own # 0
    <3>0. PICK c : c = sent[n].own
      OBVIOUS
    <3>1. c \in Cmds
      BY <1>0, <2>3, <3>0 DEF Frames
    <3>2. ~(r < c)
      BY <2>1, <3>0, <3>1, OldestCollector
    <3>3. c # r => ~listening[c]
      BY <1>2, <2>0, <3>0, <3>1 DEF OwnInv, Listeners
    <3>4. c = r \/ c < r
      BY <2>1, <3>1, <3>2, NCmdsAssumption DEF Cmds
    <3> QED BY <2>0, <3>0, <3>3, <3>4 DEF Abandoned
  <2> QED BY <2>2, <2>3
<1> QED BY <1>2, <1>3

\* The read loop is done with frame n: a data frame has gone to its owner if that
\* one listens.
LEMMA OwnDispatch ==
  ASSUME TypeInv, OwnInv, OwnerKnown', UNCHANGED <<sent, pc, listening, wants>>, ~InHand',
         NEW n, Dispatched' \subseteq Dispatched \cup {n},
         \A d \in Cmds : InStream(d) \subseteq InStream(d)',
         \A d \in Cmds : \A i \in InStream(d)' :
           i \in InStream(d) \/ Abandoned(sent[i].own, d),
         \A c \in Cmds : sent[n].kind = "data" /\ sent[n].own = c /\ pc[c] = "stream"
           => n \in InStream(c)'
  PROVE  OwnInv'
<1>1. Listeners' /\ Streamers' /\ HandToOwner' /\ HandToStranger'
  BY DEF OwnInv, Listeners, Streamers, HandToOwner, HandToStranger
<1>2. OwnArrived'
  BY DEF OwnInv, OwnArrived
<1>3. \A d \in Cmds : \A i \in InStream(d)' : Abandoned(sent[i].own, d)
  BY DEF OwnInv, Strangers
<1>4. Strangers'
  BY <1>3 DEF Strangers, Abandoned
<1> QED BY <1>1, <1>2, <1>4 DEF OwnInv

LEMMA OwnReader ==
  ASSUME TypeInv, AnswerInv, TagInv, OwnInv, Reader
  PROVE  OwnInv'
<1>0. UNCHANGED <<sent, answered, inbox, pc, listening, wants, delivered>>
  BY DEF Reader, route_for, dispatch_tagged, dispatch_broadcast, dispatch_reserve,
     dispatch_push, read_loop_end, callerVars, channelVars, serverVars
<1>1. OwnerKnown'
  <2>1. Range(collectors') \subseteq Range(collectors)
    <3>1. CASE dispatch_tagged
      <4>0. PICK t : t = sent[rpos].tag
        OBVIOUS
      <4>1. collectors' = Without(collectors, t) /\ sent[rpos].kind \in Status /\ InHand
        BY <3>1, <4>0 DEF dispatch_tagged, complete, InHand
      <4>2. t \in Cmds
        BY <4>0, <4>1, DispatchedPlaces DEF TypeInv, ReaderKnows, TagsKnown
      <4> QED BY <4>1, <4>2, WithoutRange
              DEF TypeInv, TypeOK, PendingOK, AnswerInv, WaitersFresh
    <3>2. CASE collectors' = <<>> \/ collectors' = collectors
      BY <3>2 DEF Range
    <3> QED BY <3>1, <3>2 DEF Reader, route_for, dispatch_broadcast, dispatch_reserve,
               dispatch_push, read_loop_end, fail_all_pending, pendingVars
  <2> QED BY <1>0, <2>1, OwnerQuiet DEF OwnInv
<1>2. CASE route_for
  <2>0. PICK n : n = rpos + 1
    OBVIOUS
  <2>1. /\ rpc = "read" /\ rpc' = "dispatch" /\ rpos' = n /\ rpos < Len(sent) /\ UNCHANGED frames
        /\ \/ sent[n].kind \in Status /\ route' = 0
           \/ sent[n].kind = "data" /\ collector_for(sent[n])
    BY <1>2, <2>0 DEF route_for, channelVars
  <2>2. Dispatched' = Dispatched /\ \A d \in Cmds : InStream(d)' = InStream(d)
    BY <1>0, <2>0, <2>1, DispatchedPlaces DEF Dispatched, InHand, InStream
  <2>3. Listeners' /\ Streamers' /\ OwnArrived'
    BY <1>0, <2>2 DEF OwnInv, Listeners, Streamers, OwnArrived
  <2>4. Strangers'
    BY <1>0, <2>2 DEF OwnInv, Strangers, Abandoned
  <2>5. sent[n].kind = "data" =>
          /\ \A c \in Cmds : sent[n].own = c /\ pc[c] = "stream" => route' = c
          /\ route' # 0 => Abandoned(sent[n].own, route')
    BY <2>0, <2>1, RouteChosen DEF Status
  <2>6. route' # 0 => sent[n].kind = "data"
    BY <2>1
  <2>7. HandToOwner'
    BY <1>0, <2>1, <2>5 DEF HandToOwner
  <2>8. HandToStranger'
    BY <1>0, <2>1, <2>5, <2>6 DEF HandToStranger, Abandoned
  <2> QED BY <1>1, <2>3, <2>4, <2>7, <2>8 DEF OwnInv
<1>3. CASE dispatch_reserve
  <2>1. UNCHANGED <<rpos, route, frames>> /\ rpc = "dispatch" /\ rpc' = "push"
    BY <1>3 DEF dispatch_reserve, channelVars
  <2>2. /\ Dispatched' = Dispatched /\ InHand /\ InHand'
        /\ \A d \in Cmds : InStream(d)' = InStream(d)
    BY <1>0, <2>1 DEF Dispatched, InHand, InStream
  <2>3. Listeners' /\ Streamers' /\ OwnArrived' /\ HandToOwner'
    BY <1>0, <2>1, <2>2 DEF OwnInv, Listeners, Streamers, OwnArrived, HandToOwner
  <2>4. Strangers' /\ HandToStranger'
    BY <1>0, <2>1, <2>2 DEF OwnInv, Strangers, HandToStranger, Abandoned
  <2> QED BY <1>1, <2>3, <2>4 DEF OwnInv
<1>4. CASE dispatch_tagged \/ dispatch_broadcast \/ read_loop_end
  <2>0. PICK n : n = IF rpc = "read" THEN rpos + 1 ELSE rpos
    OBVIOUS
  <2>1. /\ UNCHANGED frames /\ rpos' = n /\ rpc' \in {"read", "stopped"}
        /\ rpc \in {"read", "dispatch"}
    BY <1>4, <2>0 DEF dispatch_tagged, dispatch_broadcast, read_loop_end
  <2>2. ~InHand' /\ Dispatched' \subseteq Dispatched \cup {n}
    BY <2>0, <2>1, DispatchedPlaces DEF Dispatched, InHand
  <2>3. \A d \in Cmds : InStream(d)' = InStream(d)
    BY <1>0, <2>1 DEF InStream
  <2>4. sent[n].kind = "data" => \A c \in Cmds : ~(sent[n].own = c /\ pc[c] = "stream")
    <3>1. CASE dispatch_broadcast
      <4>1. InHand /\ n = rpos /\ (route # 0 => ~listening[route])
        BY <2>0, <3>1 DEF dispatch_broadcast, InHand
      <4>2. \A c \in Cmds : c # 0
        BY NCmdsAssumption DEF Cmds
      <4> QED BY <4>1, <4>2 DEF OwnInv, HandToOwner, Listeners
    <3>2. CASE dispatch_tagged \/ read_loop_end
      <4>1. sent[n].kind \in Status \cup Endings
        BY <2>0, <3>2 DEF dispatch_tagged, read_loop_end
      <4> QED BY <4>1 DEF Status, Endings
    <3> QED BY <1>4, <3>1, <3>2
  <2> QED BY <1>0, <1>1, <2>2, <2>3, <2>4, OwnDispatch
<1>5. CASE dispatch_push
  <2>1. /\ rpc = "push" /\ rpc' = "read" /\ rpos' = rpos
        /\ frames' = IF pc[route] \in {"stream", "drain"}
                     THEN [frames EXCEPT ![route] = Append(@, rpos)] ELSE frames
    BY <1>5 DEF dispatch_push
  <2>2. ~InHand' /\ InHand /\ Dispatched' \subseteq Dispatched \cup {rpos}
    BY <2>1, DispatchedPlaces DEF Dispatched, InHand
  <2>3. route \in Cmds /\ route # 0 /\ rpos \in Nat
    BY <2>1, DispatchedPlaces DEF TypeInv, TypeOK, ReaderKnows, PermitGood, LoopsOK
  <2>4. Range(Append(frames[route], rpos)) = Range(frames[route]) \cup {rpos}
    BY <2>3, JoinRange DEF TypeInv, TypeOK, StreamOK
  <2>5. \A d \in Cmds : InStream(d)' = IF d = route /\ pc[route] \in {"stream", "drain"}
                                       THEN InStream(d) \cup {rpos} ELSE InStream(d)
    BY <1>0, <2>1, <2>3, <2>4 DEF InStream, TypeInv, TypeOK, StreamOK
  <2>6. Abandoned(sent[rpos].own, route)
    BY <2>2, <2>3 DEF OwnInv, HandToStranger
  <2>7. \A c \in Cmds : sent[rpos].kind = "data" /\ sent[rpos].own = c /\ pc[c] = "stream"
          => rpos \in InStream(c)'
    BY <2>2, <2>5 DEF OwnInv, HandToOwner
  <2>8. \A d \in Cmds : \A i \in InStream(d)' :
          i \in InStream(d) \/ Abandoned(sent[i].own, d)
    BY <2>5, <2>6
  <2>9. \A d \in Cmds : InStream(d) \subseteq InStream(d)'
    BY <2>5
  <2> QED BY <1>0, <1>1, <2>2, <2>7, <2>8, <2>9, OwnDispatch
<1> QED BY <1>2, <1>3, <1>4, <1>5 DEF Reader

\* The server adds a frame: data it owes the oldest command it has received, or
\* data it owes nobody, or no data.
LEMMA OwnerServer ==
  ASSUME TypeInv, AnswerInv, TagInv, OwnerKnown, Server
  PROVE  OwnerKnown'
<1>0. /\ Len(sent) \in Nat /\ DOMAIN sent = 1 .. Len(sent)
      /\ UNCHANGED <<wants, collectors, wpc, writing>>
  BY DispatchedPlaces DEF Server, server_data, server_unsolicited, server_status,
     server_repeats, server_ends, callerVars, pendingVars, writerVars
<1>1. PICK f \in Frames : sent' = Append(sent, f)
  BY ServerEmits
<1>2. PICK n : n = Len(sent) + 1
  OBVIOUS
<1>3. /\ DOMAIN sent' = DOMAIN sent \cup {n} /\ sent'[n] = f
      /\ \A i \in DOMAIN sent : sent'[i] = sent[i] /\ i \in Nat /\ i > 0 /\ i < n
  BY <1>0, <1>1, <1>2, AppendProperties, LenProperties DEF TypeInv, TypeOK, ServerOK
<1>4. \A d \in Cmds : answered[d] # 0 => answered[d] \in Nat /\ answered[d] < n
  BY <1>3 DEF AnswerInv, AnsweredIsFirst
<1>5. inbox \in Seq(Cmds) /\ answered \in [Cmds -> Nat]
  BY DEF TypeInv, TypeOK, ServerOK
<1>6. PICK h : h = Head(inbox)
  OBVIOUS
<1>7. inbox # <<>> =>
        /\ h \in Cmds /\ h \in Range(inbox)
        /\ \A x \in Range(inbox) : x = h \/ x \in Range(Tail(inbox))
  BY <1>5, <1>6, LeaveQueue, HeadTailRange
<1>8. CASE server_data
  <2>1. /\ inbox # <<>> /\ UNCHANGED <<inbox, answered>>
        /\ sent' = Append(sent, [kind |-> "data", tag |-> 0, cls |-> wants[h], own |-> h])
    BY <1>6, <1>8 DEF server_data, Emit
  <2>2. sent'[n] = [kind |-> "data", tag |-> 0, cls |-> wants[h], own |-> h]
    BY <1>0, <1>2, <2>1, AppendProperties, <1>5 DEF TypeInv, TypeOK, ServerOK
  <2>3. ASSUME NEW d \in Cmds, d \in Range(collectors), d < h
        PROVE  answered[d] # 0 /\ answered[d] < n
    <3>1. h \in Nat /\ d \in Nat /\ h # 0 /\ d # 0 /\ ~(h < d) /\ d # h
      BY <1>7, <2>1, <2>3, NCmdsAssumption DEF Cmds
    <3>2. Arrived(h)
      BY <1>7, <2>1 DEF Arrived
    <3>3. d \notin Range(inbox)
      <4>1. Ordered(inbox)
        BY DEF TagInv, ServerOrder
      <4>2. \A y \in Range(Tail(inbox)) : h # 0 /\ y # 0 => h < y
        BY <1>5, <1>6, <2>1, <4>1, OrderedLeave
      <4> QED BY <1>7, <2>1, <3>1, <4>2
    <3>4. ~BeingWritten(d)
      BY <1>7, <2>1, <3>1, <3>2 DEF TagInv, ServerOrder
    <3>5. Reached(d)
      BY <1>7, <2>1, <2>3, <3>1, <3>2 DEF TagInv, CollectorOrder
    <3> QED BY <1>4, <3>3, <3>4, <3>5 DEF Reached
  <2>4. ASSUME NEW i \in DOMAIN sent', sent'[i].kind = "data", sent'[i].own # 0
        PROVE  /\ sent'[i].cls = wants[sent'[i].own]
               /\ sent'[i].own \in Range(inbox) \/ i < answered[sent'[i].own]
               /\ \A d \in Cmds : d \in Range(collectors) /\ d < sent'[i].own =>
                    answered[d] # 0 /\ answered[d] < i
    <3>1. CASE i = n
      BY <1>7, <2>1, <2>2, <2>3, <3>1
    <3>2. CASE i \in DOMAIN sent
      BY <1>3, <2>4, <3>2 DEF OwnerKnown
    <3> QED BY <1>3, <3>1, <3>2
  <2> QED BY <1>0, <2>1, <2>4 DEF OwnerKnown
<1>9. CASE sent'[n].kind # "data" \/ sent'[n].own = 0
  <2>1. ASSUME NEW i \in DOMAIN sent, sent[i].kind = "data", sent[i].own # 0
        PROVE  /\ sent[i].cls = wants[sent[i].own]
               /\ sent[i].own \in Range(inbox') \/ i < answered'[sent[i].own]
               /\ \A d \in Cmds : d \in Range(collectors) /\ d < sent[i].own =>
                    answered'[d] # 0 /\ answered'[d] < i
    <3>0. PICK o : o = sent[i].own
      OBVIOUS
    <3>1. o \in Cmds
      BY <2>1, <3>0, OwnerReached
    <3>2. /\ sent[i].cls = wants[o] /\ (o \in Range(inbox) \/ i < answered[o])
          /\ \A d \in Cmds : d \in Range(collectors) /\ d < o => answered[d] # 0 /\ answered[d] < i
      BY <2>1, <3>0 DEF OwnerKnown
    <3>3. CASE UNCHANGED <<inbox, answered>>
      BY <3>0, <3>2, <3>3
    <3>4. CASE \E s \in Statuses : server_status(s)
      <4>1. /\ inbox # <<>> /\ inbox' = Tail(inbox)
            /\ answered' = [answered EXCEPT ![h] = n]
        BY <1>2, <1>6, <3>4 DEF server_status
      <4>2. h \in Cmds /\ answered[h] = 0 /\ answered'[h] = n
            /\ \A d \in Cmds : d # h => answered'[d] = answered[d]
        BY <1>5, <1>7, <4>1 DEF AnswerInv, ReceivedOnce
      <4>3. o \in Range(inbox') \/ i < answered'[o]
        BY <1>3, <1>7, <3>1, <3>2, <4>1, <4>2
      <4>4. \A d \in Cmds : d \in Range(collectors) /\ d < o => answered'[d] # 0 /\ answered'[d] < i
        BY <3>2, <4>2
      <4> QED BY <3>0, <3>2, <4>3, <4>4
    <3> QED BY <3>3, <3>4 DEF Server, server_data, server_unsolicited, server_repeats, server_ends
  <2> QED BY <1>0, <1>3, <1>9, <2>1 DEF OwnerKnown
<1>10. CASE ~server_data
  <2>1. ASSUME NEW g, sent' = Append(sent, g) PROVE sent'[n] = g
    <3>1. sent \in Seq(Frames \cup {g})
      BY SeqMonotonic DEF TypeInv, TypeOK, ServerOK
    <3> QED BY <1>2, <2>1, <3>1, AppendProperties
  <2>2. PICK k, t, o, w : /\ sent' = Append(sent, [kind |-> k, tag |-> t, cls |-> w, own |-> o])
                          /\ k # "data" \/ o = 0
    BY <1>10, UsesAssumption
       DEF Server, server_unsolicited, server_status, server_repeats, server_ends, Emit,
           Status, Endings
  <2>3. sent'[n] = [kind |-> k, tag |-> t, cls |-> w, own |-> o]
    BY <2>1, <2>2
  <2>4. sent'[n].kind # "data" \/ sent'[n].own = 0
    <3>1. sent'[n].kind = k
      BY <2>3
    <3>2. sent'[n].own = o
      BY <2>3
    <3> QED BY <2>2, <3>1, <3>2
  <2> QED BY <1>9, <2>4
<1> QED BY <1>8, <1>10

LEMMA OwnRest ==
  ASSUME TypeInv, AnswerInv, StreamInv, TagInv, OwnInv,
         writer \/ send_raw \/ drop_client \/ Writer \/ Server \/ UNCHANGED vars
  PROVE  OwnInv'
<1>1. /\ UNCHANGED <<rpc, rpos, route, pc, wants, listening, delivered, frames>>
      /\ \A i \in DOMAIN sent : sent'[i] = sent[i]
  BY LogKept DEF writer, send_raw, drop_client, Writer, write_loop_recv, write_all,
     write_error, write_loop_end, WriterStops, Server, server_data, server_unsolicited,
     server_status, server_repeats, server_ends, vars, callerVars, channelVars, readerVars
<1>2. OwnerKnown'
  <2>1. CASE Server
    BY <2>1, OwnerServer DEF OwnInv
  <2>2. CASE write_loop_recv
    <3>0. PICK h : h = Head(write_rx)
      OBVIOUS
    <3>1. /\ UNCHANGED <<sent, answered, inbox>> /\ write_rx # <<>>
          /\ \/ UNCHANGED collectors
             \/ h # 0 /\ collectors' = Append(collectors, h)
      BY <2>2, <3>0 DEF write_loop_recv, register, pendingVars, serverVars
    <3>2. h \in Range(write_rx) /\ h \in Cmds \cup {0}
      BY <3>0, <3>1, LeaveQueue DEF TypeInv, TypeOK, QueueOK
    <3>3. h # 0 => \A c \in Cmds : Reached(c) => c < h
      BY <3>2 DEF TagInv, QueueOrder
    <3>4. h # 0 => Range(Append(collectors, h)) = Range(collectors) \cup {h}
      BY <3>2, JoinQueue DEF TypeInv, TypeOK, PendingOK
    <3>5. \A d \in Cmds : d \in Range(collectors') /\ d \notin Range(collectors) =>
            \A c \in Cmds : Reached(c) => c < d
      <4>1. CASE UNCHANGED collectors
        BY <4>1
      <4>2. CASE h # 0 /\ collectors' = Append(collectors, h)
        <5>1. Range(collectors') = Range(collectors) \cup {h}
          BY <3>4, <4>2
        <5> QED BY <3>3, <4>2, <5>1
      <4> QED BY <3>1, <4>1, <4>2
    <3> QED BY <1>1, <3>1, <3>5, OwnerQuiet DEF OwnInv
  <2>3. CASE write_all
    <3>1. /\ UNCHANGED <<sent, answered, collectors>>
          /\ inbox' = inbox \/ (writing # 0 /\ inbox' = Append(inbox, writing))
      BY <2>3 DEF write_all, pendingVars
    <3>2. writing # 0 => Range(Append(inbox, writing)) = Range(inbox) \cup {writing}
      <4>1. writing # 0 => writing \in Cmds
        BY DEF TypeInv, TypeOK, LoopsOK
      <4> QED BY <4>1, JoinQueue DEF TypeInv, TypeOK, ServerOK
    <3>3. Range(inbox) \subseteq Range(inbox')
      BY <3>1, <3>2
    <3> QED BY <1>1, <3>1, <3>3, OwnerQuiet DEF OwnInv
  <2>4. CASE WriterStops \/ writer \/ send_raw \/ drop_client \/ UNCHANGED vars
    <3>1. UNCHANGED <<sent, answered, inbox>> /\ (collectors' = <<>> \/ UNCHANGED collectors)
      BY <2>4 DEF WriterStops, writer, send_raw, drop_client, vars, pendingVars, serverVars
    <3>2. Range(collectors') \subseteq Range(collectors)
      BY <3>1 DEF Range
    <3> QED BY <1>1, <3>1, <3>2, OwnerQuiet DEF OwnInv
  <2> QED BY <2>1, <2>2, <2>3, <2>4 DEF Writer, write_error, write_loop_end
<1>3. Listeners' /\ Streamers' /\ \A d \in Cmds : InStream(d)' = InStream(d)
  BY <1>1 DEF OwnInv, Listeners, Streamers, InStream
<1> QED BY <1>1, <1>2, <1>3, OwnQuiet

LEMMA OwnAlways ==
  Spec => [](TypeInv /\ StreamInv /\ PlaceInv /\ OwnInv)
<1>1. TypeInv /\ AnswerInv /\ StreamInv /\ TagInv /\ OwnInv /\ [Next]_vars => OwnInv'
  BY OwnCaller, OwnReader, OwnRest DEF Next
<1> QED BY <1>1, OwnInit, TagAlways, PTL DEF Spec

\* A caller that still listens has, in its stream, every frame the server sent in
\* answer to its command that the read loop is done with, whatever other streams
\* of the same class are open: collector_for picks the oldest collector, and
\* collectors, writes and answers are all in tag order (client.rs, collector_for
\* and write_loop).
THEOREM OwnersGetTheirs == Spec => []OwnFramesArrive
<1>1. TypeInv /\ StreamInv /\ OwnInv => OwnFramesArrive
  BY StreamedSet DEF OwnInv, OwnArrived, OwnFramesArrive
<1> QED BY <1>1, OwnAlways, PTL

\* A stream holds a frame that answers another command only if that command is
\* older, no longer listens, and does not hold the frame itself (client.rs,
\* collector_for skips closed collectors).
THEOREM StrangersAreAbandoned == Spec => []ForeignFramesWereAbandoned
<1>1. ASSUME TypeInv, StreamInv, PlaceInv, OwnInv, NEW c \in Cmds, NEW i \in Range(Streamed(c))
      PROVE  LET d == sent[i].own IN
               d \in {0, c} \/ (d < c /\ ~listening[d] /\ i \notin Range(Streamed(d)))
  <2>0. PICK d : d = sent[i].own
    OBVIOUS
  <2>1. i \in InStream(c) /\ i \in Dispatched /\ Isolated(i)
    BY <1>1, StreamedSet DEF StreamInv, StreamOrdered, PlaceInv
  <2>2. d \in Cmds \cup {0}
    <3>1. sent[i] \in Frames
      BY <1>1, <2>1, DispatchedPlaces, ElementOfSeq DEF TypeInv, TypeOK, ServerOK
    <3> QED BY <2>0, <3>1 DEF Frames
  <2>3. Abandoned(d, c)
    BY <1>1, <2>0, <2>1 DEF OwnInv, Strangers
  <2>4. d \in Cmds /\ d # c => i \notin Range(Streamed(d))
    BY <1>1, <2>1, StreamedSet DEF Isolated
  <2> QED BY <2>0, <2>2, <2>3, <2>4 DEF Abandoned
<1>2. TypeInv /\ StreamInv /\ PlaceInv /\ OwnInv => ForeignFramesWereAbandoned
  BY <1>1 DEF ForeignFramesWereAbandoned
<1> QED BY <1>2, OwnAlways, PTL
=============================================================================
