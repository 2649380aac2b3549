---------------------------- MODULE SessionProofs ----------------------------
(* Proofs about Session, for any methods used, any extensions listed and any  *)
(* number of commands.                                                        *)
EXTENDS Session, SequenceTheorems, TLAPS

Command(l) == l.kind = "command"
Changing == UnauthenticatedOps \cup {"SELECT", "EXAMINE", "CLOSE", "UNSELECT"}
\* The state a changing command is sent in, and the one it leads to.
Left(op) == IF op \in UnauthenticatedOps THEN "Unauthenticated"
            ELSE IF op \in {"SELECT", "EXAMINE"} THEN "Authenticated" ELSE "Selected"
Entered(op) == IF op \in {"SELECT", "EXAMINE"} THEN "Selected" ELSE "Authenticated"

\* What joining and leaving a queue does to its places.
Grown(s, t, x) ==
  /\ \A i \in DOMAIN s : i \in DOMAIN t /\ t[i] = s[i] /\ i \in Nat
  /\ \A i \in DOMAIN t : i \notin DOMAIN s =>
       t[i] = x /\ i \in Nat /\ \A j \in DOMAIN t : j = i \/ (j \in DOMAIN s /\ j < i)
Shrunk(s, t) ==
  /\ 1 \in DOMAIN s
  /\ \A i \in DOMAIN t : i + 1 \in DOMAIN s /\ t[i] = s[i + 1] /\ i \in Nat /\ i > 0
  /\ \A i \in DOMAIN s : i \in Nat /\ i > 0 /\ (i # 1 => i - 1 \in DOMAIN t /\ t[i - 1] = s[i])

LEMMA GrownAppend ==
  ASSUME NEW S, NEW s \in Seq(S), NEW x \in S
  PROVE  Grown(s, Append(s, x), x) /\ Append(s, x) \in Seq(S)
<1>1. /\ Append(s, x) \in Seq(S) /\ Len(Append(s, x)) = Len(s) + 1
      /\ \A i \in 1 .. Len(s) : Append(s, x)[i] = s[i]
      /\ Append(s, x)[Len(s) + 1] = x
  BY AppendProperties
<1>2. Len(s) \in Nat /\ DOMAIN s = 1 .. Len(s) /\ DOMAIN Append(s, x) = 1 .. (Len(s) + 1)
  BY <1>1, LenProperties
<1> QED BY <1>1, <1>2 DEF Grown

LEMMA ShrunkTail ==
  ASSUME NEW S, NEW s \in Seq(S), s # <<>>
  PROVE  Shrunk(s, Tail(s)) /\ Head(s) = s[1] /\ Head(s) \in S /\ Tail(s) \in Seq(S)
<1>1. /\ Tail(s) \in Seq(S) /\ Len(Tail(s)) = Len(s) - 1 /\ Head(s) = s[1] /\ Head(s) \in S
      /\ \A i \in 1 .. Len(Tail(s)) : Tail(s)[i] = s[i + 1]
  BY HeadTailProperties
<1>2. /\ Len(s) \in Nat /\ Len(s) > 0
      /\ DOMAIN s = 1 .. Len(s) /\ DOMAIN Tail(s) = 1 .. (Len(s) - 1)
  BY <1>1, LenProperties, EmptySeq
<1>3. \A i \in DOMAIN Tail(s) : i + 1 \in DOMAIN s /\ Tail(s)[i] = s[i + 1] /\ i \in Nat /\ i > 0
  BY <1>1, <1>2
<1>4. ASSUME NEW i \in DOMAIN s, i # 1 PROVE i - 1 \in DOMAIN Tail(s) /\ Tail(s)[i - 1] = s[i]
  <2>1. i - 1 \in 1 .. Len(Tail(s)) /\ (i - 1) + 1 = i
    BY <1>1, <1>2, <1>4
  <2>2. Tail(s)[i - 1] = s[i]
    BY <1>1, <2>1
  <2> QED BY <1>1, <1>2, <2>1, <2>2
<1>5. 1 \in DOMAIN s /\ \A i \in DOMAIN s : i \in Nat /\ i > 0
  BY <1>2
<1> QED BY <1>1, <1>3, <1>4, <1>5 DEF Shrunk

-----------------------------------------------------------------------------
(* Types. *)

Stages == {"none", "reply", "refresh", "continuation", "secret"}
CallOK ==
  /\ call \in [op : AllOps \cup {"none"}, stage : Stages, tag : Nat,
               inbox : Seq({"+"} \cup Phases), reply : Replies]
  /\ call.op = "none" => call = NoCall
  /\ call.op # "none" => st \in States /\ call.tag = tag /\ tag # 0
  /\ call.op = "IDLE" => st = "Selected"
  /\ call.stage = "none" => call.op = "none"
  /\ call.stage = "continuation" => call.op \in {"IDLE", "AUTHENTICATE"}
  /\ call.stage = "secret" => call.op = "AUTHENTICATE"
  /\ call.stage = "refresh" => call.op \in UnauthenticatedOps
  /\ call.stage = "reply" => call.op \notin {"none", "IDLE", "AUTHENTICATE"}
  /\ call.op \in UnauthenticatedOps /\ call.stage \in {"reply", "secret"} => call.inbox = <<>>
  /\ call.reply.code \in {"none", "post"}
WireOK ==
  /\ \A i \in DOMAIN lines : lines[i].tag \in 1 .. tag
  /\ \A i \in DOMAIN frames :
       /\ frames[i].kind = "tagged" => /\ frames[i].tag \in 1 .. tag
                                       /\ frames[i].status \in {"ok", "no"}
                                       /\ frames[i].code \in {"none", "post"}
       /\ frames[i].kind = "list" => frames[i].code \in Phases
TypeInv == TypeOK /\ CallOK /\ WireOK

LEMMA TypeInit == Init => TypeInv
<1> SUFFICES ASSUME Init PROVE TypeInv
  OBVIOUS
<1>1. NoReply \in Replies /\ NoCall.op = "none" /\ NoCall.inbox = <<>> /\ NoCall.reply = NoReply
      /\ NoCall.stage = "none" /\ NoCall.tag = 0
  BY DEF NoReply, Replies, NoCall
<1>2. TypeOK
  BY <1>1, BoundAssumption DEF Init, TypeOK, States, Phases, NoHandle
<1>3. CallOK
  BY <1>1 DEF Init, CallOK, NoCall, NoReply, Stages, UnauthenticatedOps
<1>4. WireOK
  BY DEF Init, WireOK
<1> QED BY <1>2, <1>3, <1>4 DEF TypeInv

-----------------------------------------------------------------------------
(* What the steps do, as the invariants see it. *)

ServerKeeps == UNCHANGED <<server, invited, asking, offer>>
CallKeeps == call'.op = call.op /\ call'.stage = call.stage /\ call'.tag = call.tag
Gains(l) == lines' = lines \/ Grown(lines, lines', l)
Line(k, op, t) == [kind |-> k, op |-> op, tag |-> t]
Idling == call.op = "IDLE" /\ call.stage = "continuation"

Starts(op) ==
  /\ call.op = "none" /\ op \in AllOps /\ callable(op) /\ supported(op)
  /\ tag' = tag + 1 /\ Gains(Line("command", op, tag + 1))
  /\ call'.op = op /\ call'.tag = tag + 1 /\ call'.inbox = <<>> /\ call'.reply = NoReply
  /\ call'.stage = IF op \in {"IDLE", "AUTHENTICATE"} THEN "continuation" ELSE "reply"
  /\ ServerKeeps /\ UNCHANGED <<st, caps, handle, frames, givenUp>>
Succeeds ==
  /\ call.op \in Changing /\ st' = Entered(call.op)
  /\ call.stage = "refresh" \/ call.reply.status = "ok"
  /\ \/ call.op \in UnauthenticatedOps /\ caps' = "post"
     \/ caps' = caps /\ (call.op \in UnauthenticatedOps => 
          call.stage = "refresh" /\ call.reply.status = "ok" /\ call.inbox = <<>>)
\* A method returns, or the session is dropped.
Ends ==
  /\ call' = NoCall /\ ServerKeeps /\ UNCHANGED <<lines, frames, tag>>
  /\ \/ st' = "gone"
     \/ st' = st /\ call.op \notin Changing /\ caps' = caps
     \/ Succeeds
  /\ \/ handle' = handle
     \/ Idling /\ call.inbox # <<>> /\ handle'.tag = call.tag
  /\ givenUp' = givenUp \/ (Idling /\ givenUp' = givenUp \cup {call.tag})
  /\ Idling => givenUp' # {} \/ call.inbox # <<>> \/ call.reply # NoReply
Refreshes ==
  /\ call.op \in UnauthenticatedOps /\ call.stage \in {"reply", "secret"}
  /\ call.reply.status = "ok"
  /\ tag' = tag + 1 /\ Gains(Line("command", "CAPABILITY", tag + 1))
  /\ call'.op = call.op /\ call'.tag = tag + 1 /\ call'.inbox = <<>> /\ call'.reply = NoReply
  /\ call'.stage = "refresh"
  /\ ServerKeeps /\ UNCHANGED <<st, caps, handle, frames, givenUp>>
Confides ==
  /\ call.op = "AUTHENTICATE" /\ call.stage = "continuation" /\ call.inbox # <<>>
  /\ Gains(Line("secret", "AUTHENTICATE", call.tag))
  /\ call'.op = call.op /\ call'.tag = call.tag /\ call'.inbox = <<>>
  /\ call'.reply = call.reply /\ call'.stage = "secret"
  /\ ServerKeeps /\ UNCHANGED <<st, caps, handle, tag, frames, givenUp>>
Learns ==
  /\ call.op = "CAPABILITY" \/ call.stage = "refresh"
  /\ call.stage # "continuation" /\ 1 \in DOMAIN call.inbox /\ caps' = call.inbox[1]
  /\ CallKeeps /\ call'.reply = call.reply /\ Shrunk(call.inbox, call'.inbox)
  /\ ServerKeeps /\ UNCHANGED <<st, handle, tag, lines, frames, givenUp>>
Stops ==
  /\ handle'.tag = 0 \/ handle'.tag = handle.tag
  /\ Gains(Line("done", "IDLE", handle.tag))
  /\ ServerKeeps /\ UNCHANGED <<st, caps, call, tag, frames, givenUp>>

\* The dispatcher.
Sorts ==
  /\ Shrunk(frames, frames')
  /\ CallKeeps /\ ServerKeeps /\ UNCHANGED <<st, caps, handle, tag, lines, givenUp>>
Settles(f) ==
  /\ f.kind = "tagged" /\ call.op # "none" /\ call.tag = f.tag /\ call.reply = NoReply
  /\ call'.reply = [status |-> f.status, code |-> f.code] /\ call'.inbox = call.inbox
Streams(f) ==
  /\ call.reply = NoReply /\ call'.reply = NoReply
  /\ \/ f.kind = "+" /\ call.stage = "continuation" /\ Grown(call.inbox, call'.inbox, "+")
     \/ /\ f.kind = "list" /\ (call.op = "CAPABILITY" \/ call.stage = "refresh")
        /\ call.stage # "continuation" /\ Grown(call.inbox, call'.inbox, f.code)
  /\ call'.inbox # <<>>
Skips(f) ==
  /\ call' = call
  /\ f.kind = "tagged" /\ call.op # "none" /\ f.tag = tag => call.reply # NoReply
  /\ f.kind = "+" /\ call.stage = "continuation" => call.reply # NoReply
  /\ f.kind = "list" /\ call.stage = "refresh" => call.reply # NoReply
Dispatches == Sorts /\ (Settles(frames[1]) \/ Streams(frames[1]) \/ Skips(frames[1]))
Breaks ==
  /\ lines' = <<>> /\ frames' = <<>>
  /\ CallKeeps /\ call'.inbox = call.inbox
  /\ call'.reply = call.reply \/ (call.reply = NoReply /\ call'.reply = Closed)
  /\ ServerKeeps /\ UNCHANGED <<st, caps, handle, tag, givenUp>>

\* The server.
ClientKeeps == UNCHANGED <<st, caps, call, handle, tag, givenUp, offer>>
Emits(f) == Grown(frames, frames', f)
Takes == asking = 0 /\ Shrunk(lines, lines') /\ Command(lines[1])
Refuses ==
  /\ Takes /\ ClientKeeps /\ UNCHANGED <<invited, asking>>
  /\ Emits(Tagged(lines[1].tag, "no", "none"))
  /\ server' = IF lines[1].op \in {"SELECT", "EXAMINE"} /\ server = "Selected"
               THEN "Authenticated" ELSE server
Invites ==
  /\ Takes /\ ClientKeeps /\ Legal(lines[1].op) /\ lines[1].op \in {"IDLE", "AUTHENTICATE"}
  /\ asking' = lines[1].tag /\ invited' = invited \cup {lines[1].tag}
  /\ Emits(Invite) /\ server' = server
Accepts ==
  /\ Takes /\ ClientKeeps /\ Legal(lines[1].op) /\ lines[1].op \notin {"IDLE", "AUTHENTICATE"}
  /\ UNCHANGED <<invited, asking>>
  /\ lines[1].op # "CAPABILITY"
  /\ \E c \in {"none", "post"} : Emits(Tagged(lines[1].tag, "ok", c))
  /\ server' = IF lines[1].op \in Changing THEN Entered(lines[1].op) ELSE server
Enumerates ==
  /\ Takes /\ ClientKeeps /\ lines[1].op = "CAPABILITY"
  /\ UNCHANGED <<invited, asking, server>>
  /\ \E mid : /\ Grown(frames, mid, List(Phase))
              /\ Grown(mid, frames', Tagged(lines[1].tag, "ok", "none"))
              /\ \E k \in DOMAIN mid : mid[k] = List(Phase)
\* The exchange it asked a line for ends.
Concludes(s, c) ==
  /\ asking # 0 /\ asking' = 0 /\ ClientKeeps /\ UNCHANGED invited
  /\ lines' = lines \/ Shrunk(lines, lines')
  /\ Emits(Tagged(asking, s, c))
Closes ==
  \/ Concludes("no", "none") /\ server' = server
  \/ /\ Concludes("ok", "none") /\ server' = server /\ server = "Selected"
     /\ Shrunk(lines, lines') /\ lines[1].kind = "done"
Admits ==
  /\ \E c \in {"none", "post"} : Concludes("ok", c)
  /\ Shrunk(lines, lines') /\ lines[1].kind = "secret"
  /\ server = "Unauthenticated" /\ server' = "Authenticated"
Ignores ==
  /\ asking = 0 /\ Shrunk(lines, lines') /\ ~Command(lines[1])
  /\ ClientKeeps /\ UNCHANGED <<frames, server, invited, asking>>
Stutters == ClientKeeps /\ ServerKeeps /\ UNCHANGED <<lines, frames>>

Step == \/ \E op \in AllOps : Starts(op)
        \/ Ends \/ Refreshes \/ Confides \/ Learns \/ Stops \/ Dispatches \/ Breaks
        \/ Refuses \/ Invites \/ Accepts \/ Enumerates \/ Closes \/ Admits \/ Ignores
        \/ Stutters

LEMMA ConstantFacts ==
  /\ NoCall = [op |-> "none", stage |-> "none", tag |-> 0, inbox |-> <<>>, reply |-> NoReply]
  /\ NoReply \in Replies /\ Closed \in Replies /\ NoReply.status = "none"
  /\ NoReply.code = "none" /\ Closed.status = "closed" /\ Closed.code = "none"
  /\ "none" \notin AllOps /\ UnauthenticatedOps \subseteq AllOps /\ "CAPABILITY" \in AllOps
BY DEF NoCall, NoReply, Closed, Replies, AllOps, AnyStateOps, UnauthenticatedOps,
       AuthenticatedOps, SelectedOps

LEMMA StartStep ==
  ASSUME TypeInv, NEW op \in Ops, start(op)
  PROVE  TypeInv' /\ Starts(op)
<1>1. op \in AllOps /\ call.op = "none" /\ st \in States
  BY OpsAssumption, ConstantFacts DEF start, callable
<1> DEFINE sg == IF op \in {"IDLE", "AUTHENTICATE"} THEN "continuation" ELSE "reply"
           l == Line("command", op, tag + 1)
<1>2. call' = [op |-> op, stage |-> sg, tag |-> tag + 1, inbox |-> <<>>, reply |-> NoReply]
  BY DEF start, Send
<1>3. /\ call'.op = op /\ call'.stage = sg /\ call'.tag = tag + 1 /\ call'.inbox = <<>>
      /\ call'.reply = NoReply
  BY <1>2
<1> HIDE DEF sg
<1>4. tag < MaxCommands /\ tag' = tag + 1 /\ tag \in Nat /\ tag \in 0 .. MaxCommands
  BY BoundAssumption DEF start, Send, TypeInv, TypeOK
<1>5. l \in Lines /\ lines \in Seq(Lines) /\ lines' = IF up THEN Append(lines, l) ELSE lines
  <2>1. tag + 1 \in 1 .. MaxCommands
    BY <1>4, BoundAssumption
  <2> QED BY <1>1, <2>1 DEF start, Send, Line, Lines, TypeInv, TypeOK
<1>6. Gains(l) /\ lines' \in Seq(Lines)
  BY <1>5, GrownAppend DEF Gains
<1>7. UNCHANGED <<st, transport, caps, handle, hreply, frames, up, serverVars, givenUp>>
  BY DEF start
<1>8. Starts(op)
  BY <1>1, <1>3, <1>4, <1>6, <1>7 DEF Starts, ServerKeeps, serverVars, start, sg
<1>9. TypeOK'
  <2>1. 0 .. tag \subseteq 0 .. tag' /\ 1 .. tag \subseteq 1 .. tag' /\ tag' \in 0 .. MaxCommands
        /\ tag' \in 0 .. tag'
    BY <1>4, BoundAssumption
  <2>2. /\ call'.op \in AllOps \cup {"none"} /\ call'.tag \in 0 .. tag' /\ call'.reply \in Replies
        /\ call'.stage \in {"none", "reply", "refresh", "continuation", "secret"}
        /\ call'.inbox \in Seq(IF call'.stage = "continuation" THEN {"+"} ELSE Phases)
    BY <1>1, <1>3, <1>4, <2>1, ConstantFacts DEF sg
  <2>3. handle' \in [tag : 0 .. tag', stopping : BOOLEAN]
    BY <1>7, <2>1 DEF TypeInv, TypeOK
  <2> QED BY <1>6, <1>7, <2>1, <2>2, <2>3 DEF TypeInv, TypeOK, serverVars
<1>10. CallOK'
  <2>1. call' \in [op : AllOps \cup {"none"}, stage : Stages, tag : Nat,
                   inbox : Seq({"+"} \cup Phases), reply : Replies]
    BY <1>1, <1>2, <1>4, ConstantFacts DEF Stages, sg
  <2>2. op # "none" /\ tag + 1 # 0 /\ (op = "IDLE" => st = "Selected")
    BY <1>1, <1>4, ConstantFacts DEF start, callable, SelectedOps
  <2> QED BY <1>1, <1>3, <1>4, <1>7, <2>1, <2>2, ConstantFacts DEF CallOK, sg
<1>11. WireOK'
  <2>1. \A i \in DOMAIN lines : lines[i].tag \in 1 .. tag'
    BY <1>4 DEF TypeInv, WireOK
  <2>2. \A i \in DOMAIN lines' : lines'[i].tag \in 1 .. tag'
    <3>1. l.tag = tag + 1 /\ tag + 1 \in 1 .. tag'
      BY <1>4 DEF Line
    <3> HIDE DEF l
    <3> QED BY <1>6, <2>1, <3>1 DEF Gains, Grown
  <2>3. \A x \in 1 .. tag : x \in 1 .. tag'
    BY <1>4
  <2> QED BY <1>7, <2>2, <2>3 DEF TypeInv, WireOK
<1> QED BY <1>8, <1>9, <1>10, <1>11 DEF TypeInv

\* A call that returns, whatever it returns.
LEMMA ReturnTypes ==
  ASSUME TypeInv, call' = NoCall, UNCHANGED <<transport, tag, lines, frames, up, serverVars>>,
         st' \in States \cup {"gone"}, caps' \in {"default"} \cup Phases,
         handle' \in [tag : 0 .. tag, stopping : BOOLEAN], hreply' \in Replies,
         givenUp' \subseteq 1 .. tag
  PROVE  TypeInv'
<1>1. /\ call'.op = "none" /\ call'.stage = "none" /\ call'.tag = 0 /\ call'.inbox = <<>>
      /\ call'.reply = NoReply
  BY ConstantFacts
<1>2. 0 \in 0 .. tag
  BY BoundAssumption DEF TypeInv, TypeOK
<1>3. TypeOK'
  BY <1>1, <1>2, ConstantFacts DEF TypeInv, TypeOK, serverVars
<1>4. call' \in [op : AllOps \cup {"none"}, stage : Stages, tag : Nat,
                 inbox : Seq({"+"} \cup Phases), reply : Replies]
  BY ConstantFacts DEF Stages
<1>5. CallOK'
  BY <1>1, <1>4, ConstantFacts DEF CallOK
<1>6. WireOK'
  BY DEF TypeInv, WireOK
<1> QED BY <1>3, <1>5, <1>6 DEF TypeInv

LEMMA ReturnStep ==
  ASSUME TypeInv, call.op # "none",
         reply \/ refreshed \/ no_continuation \/ secret_refused
  PROVE  TypeInv' /\ Ends
<1>1. call' = NoCall
  BY DEF reply, refreshed, no_continuation, secret_refused, Return
<1>2. UNCHANGED <<transport, caps, handle, hreply, tag, lines, frames, up, serverVars, givenUp>>
  BY DEF reply, refreshed, no_continuation, secret_refused
<1>3. st \in States /\ call.op \in AllOps
  BY DEF TypeInv, CallOK, TypeOK
<1> DEFINE stays == st' = st /\ call.op \notin Changing
           comes == /\ call.op \in Changing /\ st' = Entered(call.op)
                    /\ call.stage = "refresh" \/ call.reply.status = "ok"
                    /\ call.op \in UnauthenticatedOps =>
                         call.stage = "refresh" /\ call.reply.status = "ok" /\ call.inbox = <<>>
<1>4. st' = "gone" \/ stays \/ comes
  <2>1. after_error(call.op) = "gone" \/ (after_error(call.op) = st /\ call.op \notin Changing)
    BY DEF after_error, by_value, Changing
  <2>2. CASE reply
    <3>1. CASE call.reply.status # "ok"
      BY <2>1, <2>2, <3>1 DEF reply, Return
    <3>2. CASE call.reply.status = "ok"
      <4>1. st' = transition_state(call.op) /\ call.stage = "reply" /\ call.op # "LOGIN"
        BY <2>2, <3>2 DEF reply, Return
      <4>2. call.op \notin UnauthenticatedOps
        BY <4>1 DEF TypeInv, CallOK, UnauthenticatedOps
      <4>3. CASE call.op \in {"CLOSE", "UNSELECT"}
        BY <3>2, <4>1, <4>2, <4>3 DEF transition_state, Changing, Entered
      <4>4. CASE call.op \in {"SELECT", "EXAMINE"}
        BY <3>2, <4>1, <4>2, <4>4 DEF transition_state, Changing, Entered, UnauthenticatedOps
      <4>5. CASE call.op = "LOGOUT"
        BY <3>2, <4>1, <4>2, <4>5 DEF transition_state, UnauthenticatedOps
      <4>6. CASE call.op \notin {"CLOSE", "UNSELECT", "SELECT", "EXAMINE", "LOGOUT"}
        BY <3>2, <4>1, <4>2, <4>6 DEF transition_state, Changing
      <4> QED BY <4>3, <4>4, <4>5, <4>6
    <3> QED BY <3>1, <3>2
  <2>3. CASE refreshed
    <3>1. call.op \in UnauthenticatedOps /\ call.stage = "refresh" /\ call.inbox = <<>>
      BY <2>3 DEF refreshed, TypeInv, CallOK
    <3>2. Entered(call.op) = "Authenticated" /\ call.op \in Changing
      BY <3>1 DEF Entered, UnauthenticatedOps, Changing
    <3> QED BY <2>3, <3>1, <3>2 DEF refreshed, Return
  <2>4. CASE no_continuation
    BY <2>1, <2>4 DEF no_continuation, Return
  <2>5. CASE secret_refused
    BY <2>5 DEF secret_refused, Return
  <2> QED BY <2>2, <2>3, <2>4, <2>5
<1>5. st' \in States \cup {"gone"}
  BY <1>3, <1>4 DEF Entered, States
<1>6. TypeInv'
  BY <1>1, <1>2, <1>5, ReturnTypes DEF TypeInv, TypeOK
<1>7. Idling => call.inbox # <<>> \/ call.reply # NoReply
  <2>1. CASE reply
    BY <2>1 DEF reply, Idling
  <2>2. CASE refreshed
    BY <2>2 DEF refreshed, Idling
  <2>3. CASE no_continuation
    BY <2>3 DEF no_continuation, Idling
  <2>4. CASE secret_refused
    BY <2>4 DEF secret_refused, Idling
  <2> QED BY <2>1, <2>2, <2>3, <2>4
<1>8. st' = "gone" \/ (st' = st /\ call.op \notin Changing /\ caps' = caps) \/ Succeeds
  BY <1>2, <1>4 DEF Succeeds
<1>9. Ends
  BY <1>1, <1>2, <1>7, <1>8 DEF Ends, ServerKeeps, serverVars
<1> QED BY <1>6, <1>9

LEMMA GiveUpStep ==
  ASSUME TypeInv, give_up
  PROVE  TypeInv' /\ Ends
<1>1. /\ call # NoCall /\ call' = NoCall /\ st' = after_error(call.op)
      /\ givenUp' = IF call.op = "IDLE" THEN givenUp \cup {call.tag} ELSE givenUp
      /\ UNCHANGED <<transport, caps, handle, hreply, tag, lines, frames, up, serverVars>>
  BY DEF give_up, Return
<1>2. call.op # "none" /\ st \in States /\ call.tag = tag /\ tag # 0
  BY <1>1 DEF TypeInv, CallOK
<1>3. (st' = st /\ call.op \notin Changing) \/ st' = "gone"
  BY <1>1 DEF after_error, by_value, Changing
<1>4. tag \in Nat /\ givenUp \subseteq 1 .. tag
  BY BoundAssumption DEF TypeInv, TypeOK
<1>5. tag \in 1 .. tag
  BY <1>2, <1>4
<1>6. givenUp' \subseteq 1 .. tag
  BY <1>1, <1>2, <1>4, <1>5
<1>7. TypeInv'
  BY <1>1, <1>2, <1>3, <1>6, ReturnTypes DEF TypeInv, TypeOK
<1>8. call.op = "IDLE" => call.stage = "continuation"
  BY DEF TypeInv, CallOK, Stages, UnauthenticatedOps
<1>9. Ends
  BY <1>1, <1>3, <1>8 DEF Ends, Idling, ServerKeeps, serverVars
<1> QED BY <1>7, <1>9

LEMMA LeaveStep ==
  ASSUME TypeInv, drop_session \/ \E op \in Ops : reject(op)
  PROVE  TypeInv' /\ Ends
<1>1. /\ call = NoCall /\ call' = NoCall
      /\ st' = "gone" \/ st' = st
      /\ UNCHANGED <<transport, caps, handle, hreply, tag, lines, frames, up, serverVars, givenUp>>
  BY DEF drop_session, reject, after_error
<1>2. st' \in States \cup {"gone"}
  BY <1>1 DEF TypeInv, TypeOK
<1>3. TypeInv'
  BY <1>1, <1>2, ReturnTypes DEF TypeInv, TypeOK
<1>4. call.op = "none" /\ "none" \notin Changing
  BY <1>1, ConstantFacts DEF Changing, UnauthenticatedOps
<1>5. Ends
  BY <1>1, <1>4 DEF Ends, Idling, ServerKeeps, serverVars
<1> QED BY <1>3, <1>5

\* A call that goes on with the same command: what its new fields must be.
LEMMA CallTypes ==
  ASSUME TypeInv, UNCHANGED <<st, transport, handle, tag, up, server, invited, offer, givenUp>>,
         caps' \in {"default"} \cup Phases, hreply' \in Replies, asking' \in 0 .. tag,
         lines' \in Seq(Lines), frames' \in Seq(FrameSet), WireOK',
         NEW sg \in Stages, NEW ib, NEW r \in Replies,
         call' = [call EXCEPT !.stage = sg, !.inbox = ib, !.reply = r],
         call = NoCall => sg = "none" /\ ib = <<>> /\ r = NoReply,
         ib \in Seq(IF sg = "continuation" THEN {"+"} ELSE Phases),
         sg = call.stage \/ (sg = "secret" /\ call.op = "AUTHENTICATE"),
         call.op \in UnauthenticatedOps /\ sg \in {"reply", "secret"} => ib = <<>>,
         r.code \in {"none", "post"}
  PROVE  /\ TypeInv' /\ call'.op = call.op /\ call'.stage = sg /\ call'.tag = call.tag
         /\ call'.inbox = ib /\ call'.reply = r
<1>0. call \in [op : AllOps \cup {"none"}, stage : Stages, tag : Nat,
                inbox : Seq({"+"} \cup Phases), reply : Replies]
  BY DEF TypeInv, CallOK
<1>1. /\ call'.op = call.op /\ call'.stage = sg /\ call'.tag = call.tag /\ call'.inbox = ib
      /\ call'.reply = r
  BY <1>0
<1>2. TypeOK'
  BY <1>1 DEF TypeInv, TypeOK, Stages
<1>3. ib \in Seq({"+"} \cup Phases)
  <2>1. Seq({"+"}) \subseteq Seq({"+"} \cup Phases) /\ Seq(Phases) \subseteq Seq({"+"} \cup Phases)
    OBVIOUS
  <2> QED BY <2>1
<1>4. call' \in [op : AllOps \cup {"none"}, stage : Stages, tag : Nat,
                 inbox : Seq({"+"} \cup Phases), reply : Replies]
  BY <1>0, <1>3
<1>5. call'.op = "none" => call' = NoCall
  <2>1. SUFFICES ASSUME call.op = "none" PROVE call' = NoCall
    BY <1>1
  <2>2. call = NoCall
    BY <2>1 DEF TypeInv, CallOK
  <2>3. call' = [op |-> call'.op, stage |-> call'.stage, tag |-> call'.tag,
                 inbox |-> call'.inbox, reply |-> call'.reply]
    BY <1>4
  <2>4. /\ call'.op = "none" /\ call'.stage = "none" /\ call'.tag = 0 /\ call'.inbox = <<>>
        /\ call'.reply = NoReply
    BY <1>1, <2>2, ConstantFacts
  <2> QED BY <2>3, <2>4, ConstantFacts
<1>6. CallOK'
  <2>1. sg = "none" => call.op = "none"
    BY DEF TypeInv, CallOK
  <2>2. sg = "continuation" => call.op \in {"IDLE", "AUTHENTICATE"}
    BY DEF TypeInv, CallOK
  <2>3. sg = "secret" => call.op = "AUTHENTICATE"
    BY DEF TypeInv, CallOK
  <2>4. sg = "refresh" => call.op \in UnauthenticatedOps
    BY DEF TypeInv, CallOK
  <2>5. sg = "reply" => call.op \notin {"none", "IDLE", "AUTHENTICATE"}
    BY DEF TypeInv, CallOK
  <2>6. call.op # "none" => st \in States /\ call.tag = tag /\ tag # 0
    BY DEF TypeInv, CallOK
  <2>7. call.op = "IDLE" => st = "Selected"
    BY DEF TypeInv, CallOK
  <2> QED BY <1>1, <1>4, <1>5, <2>1, <2>2, <2>3, <2>4, <2>5, <2>6, <2>7 DEF CallOK
<1> QED BY <1>1, <1>2, <1>6 DEF TypeInv

\* Lines that join, frames that do not change.
LEMMA GainTypes ==
  ASSUME TypeInv, NEW l \in Lines, l.tag \in 1 .. tag, UNCHANGED <<tag, frames>>,
         lines' = IF up THEN Append(lines, l) ELSE lines
  PROVE  Gains(l) /\ lines' \in Seq(Lines) /\ WireOK'
<1>1. lines \in Seq(Lines)
  BY DEF TypeInv, TypeOK
<1>2. Gains(l) /\ lines' \in Seq(Lines)
  BY <1>1, GrownAppend DEF Gains
<1>3. \A i \in DOMAIN lines' : lines'[i].tag \in 1 .. tag
  BY <1>2 DEF Gains, Grown, TypeInv, WireOK
<1> QED BY <1>2, <1>3 DEF WireOK, TypeInv

LEMMA ContinueStep ==
  ASSUME TypeInv, await_continuation
  PROVE  TypeInv' /\ (Ends \/ Confides)
<1>1. /\ call.stage = "continuation" /\ call.inbox # <<>>
      /\ UNCHANGED <<transport, caps, tag, frames, up, serverVars, givenUp>>
  BY DEF await_continuation
<1>2. /\ call.op \in {"IDLE", "AUTHENTICATE"} /\ st \in States /\ call.tag = tag /\ tag # 0
      /\ call.op # "none"
  BY <1>1 DEF TypeInv, CallOK
<1>3. tag \in Nat /\ tag \in 0 .. MaxCommands /\ tag \in 0 .. tag /\ tag \in 1 .. tag
      /\ tag \in 1 .. MaxCommands
  <2>1. tag \in Nat /\ tag \in 0 .. MaxCommands
    BY BoundAssumption DEF TypeInv, TypeOK
  <2> QED BY <1>2, <2>1, BoundAssumption
<1>4. CASE call.op = "IDLE"
  <2>1. /\ handle' = [NoHandle EXCEPT !.tag = call.tag] /\ hreply' = call.reply /\ st' = st
        /\ call' = NoCall /\ lines' = lines
    BY <1>4 DEF await_continuation, Return
  <2>2. handle' = [tag |-> tag, stopping |-> FALSE] /\ handle'.tag = call.tag
    BY <1>2, <2>1 DEF NoHandle
  <2>3. handle' \in [tag : 0 .. tag, stopping : BOOLEAN]
    BY <1>3, <2>2
  <2>4. hreply' \in Replies /\ st' \in States \cup {"gone"}
    BY <1>2, <2>1 DEF TypeInv, TypeOK
  <2>5. TypeInv'
    BY <1>1, <2>1, <2>3, <2>4, ReturnTypes DEF TypeInv, TypeOK
  <2>6. call.op \notin Changing /\ Idling
    BY <1>1, <1>4 DEF Changing, UnauthenticatedOps, Idling
  <2>7. Ends
    BY <1>1, <2>1, <2>2, <2>6 DEF Ends, ServerKeeps, serverVars
  <2> QED BY <2>5, <2>7
<1>5. CASE call.op = "AUTHENTICATE"
  <2> DEFINE l == Line("secret", "AUTHENTICATE", call.tag)
  <2>1. /\ call' = [call EXCEPT !.stage = "secret", !.inbox = <<>>]
        /\ lines' = IF up THEN Append(lines, l) ELSE lines
        /\ UNCHANGED <<st, handle, hreply>>
    BY <1>5 DEF await_continuation, Line
  <2>2. l \in Lines /\ l.tag \in 1 .. tag
    BY <1>2, <1>3, ConstantFacts DEF Line, Lines, UnauthenticatedOps
  <2>3. Gains(l) /\ lines' \in Seq(Lines) /\ WireOK'
    BY <1>1, <2>1, <2>2, GainTypes
  <2>4. call' = [call EXCEPT !.stage = "secret", !.inbox = <<>>, !.reply = call.reply]
    BY <2>1 DEF TypeInv, CallOK
  <2>5. /\ call.reply \in Replies /\ call # NoCall /\ "secret" \in Stages
        /\ <<>> \in Seq(IF "secret" = "continuation" THEN {"+"} ELSE Phases)
        /\ call.reply.code \in {"none", "post"}
    BY <1>2, ConstantFacts DEF TypeInv, CallOK, Stages
  <2>6. /\ TypeInv' /\ call'.op = call.op /\ call'.stage = "secret" /\ call'.tag = call.tag
        /\ call'.inbox = <<>> /\ call'.reply = call.reply
    <3>1. /\ UNCHANGED <<st, transport, handle, tag, up, server, invited, offer, givenUp>>
          /\ caps' \in {"default"} \cup Phases /\ hreply' \in Replies /\ asking' \in 0 .. tag
          /\ frames' \in Seq(FrameSet)
      BY <1>1, <2>1 DEF TypeInv, TypeOK, serverVars
    <3> QED BY <1>5, <2>3, <2>4, <2>5, <3>1, CallTypes
  <2>7. Confides
    BY <1>1, <1>5, <2>1, <2>3, <2>6 DEF Confides, ServerKeeps, serverVars
  <2> QED BY <2>6, <2>7
<1> QED BY <1>2, <1>4, <1>5

LEMMA RefreshStep ==
  ASSUME TypeInv, refresh_capabilities_from_frame
  PROVE  TypeInv' /\ (Ends \/ Refreshes)
<1>1. /\ \/ call.op = "LOGIN" /\ call.stage = "reply"
         \/ call.op = "AUTHENTICATE" /\ call.stage = "secret"
      /\ call.reply.status = "ok"
      /\ UNCHANGED <<transport, handle, hreply, frames, up, serverVars, givenUp>>
  BY DEF refresh_capabilities_from_frame
<1>2. /\ call.op \in UnauthenticatedOps /\ call.op \in Changing /\ Entered(call.op) = "Authenticated"
      /\ call.stage \in {"reply", "secret"} /\ call.op # "none" /\ ~Idling
  BY <1>1 DEF UnauthenticatedOps, Changing, Entered, Idling
<1>3. /\ call \in [op : AllOps \cup {"none"}, stage : Stages, tag : Nat,
                   inbox : Seq({"+"} \cup Phases), reply : Replies]
      /\ st \in States /\ call.tag = tag /\ tag # 0 /\ call.inbox = <<>>
      /\ call.reply.code \in {"none", "post"}
  BY <1>2 DEF TypeInv, CallOK
<1>4. CASE call.reply.code # "none"
  <2>1. caps' = call.reply.code /\ st' = "Authenticated" /\ call' = NoCall /\ UNCHANGED <<tag, lines>>
    BY <1>4 DEF refresh_capabilities_from_frame, Return
  <2>2. caps' = "post" /\ st' \in States \cup {"gone"} /\ caps' \in {"default"} \cup Phases
    BY <1>3, <1>4, <2>1 DEF States, Phases
  <2>3. TypeInv'
    BY <1>1, <2>1, <2>2, ReturnTypes DEF TypeInv, TypeOK
  <2>4. Ends
    BY <1>1, <1>2, <2>1, <2>2 DEF Ends, Succeeds, ServerKeeps, serverVars
  <2> QED BY <2>3, <2>4
<1>5. CASE call.reply.code = "none"
  <2> DEFINE l == Line("command", "CAPABILITY", tag + 1)
  <2>1. /\ tag < MaxCommands /\ tag' = tag + 1
        /\ lines' = IF up THEN Append(lines, l) ELSE lines
        /\ call' = [call EXCEPT !.stage = "refresh", !.tag = tag + 1, !.reply = NoReply]
        /\ UNCHANGED <<st, caps>>
    BY <1>5 DEF refresh_capabilities_from_frame, Line
  <2>2. /\ call'.op = call.op /\ call'.stage = "refresh" /\ call'.tag = tag + 1
        /\ call'.inbox = <<>> /\ call'.reply = NoReply
    BY <1>3, <2>1
  <2>3. tag \in Nat /\ tag \in 0 .. MaxCommands
    BY BoundAssumption DEF TypeInv, TypeOK
  <2>4. /\ 0 .. tag \subseteq 0 .. tag' /\ 1 .. tag \subseteq 1 .. tag' /\ tag' \in 0 .. MaxCommands
        /\ tag' \in 0 .. tag' /\ tag' \in 1 .. tag' /\ tag' \in 1 .. MaxCommands /\ tag' # 0
        /\ tag' \in Nat
    BY <2>1, <2>3, BoundAssumption
  <2>5. l \in Lines /\ l.tag = tag' /\ lines \in Seq(Lines)
    BY <2>1, <2>4, ConstantFacts DEF Line, Lines, TypeInv, TypeOK
  <2>6. Gains(l) /\ lines' \in Seq(Lines)
    BY <2>1, <2>5, GrownAppend DEF Gains
  <2>7. Refreshes
    BY <1>1, <1>2, <2>1, <2>2, <2>6 DEF Refreshes, ServerKeeps, serverVars
  <2>8. TypeOK'
    <3>1. /\ call'.op \in AllOps \cup {"none"} /\ call'.tag \in 0 .. tag' /\ call'.reply \in Replies
          /\ call'.stage \in {"none", "reply", "refresh", "continuation", "secret"}
          /\ call'.inbox \in Seq(IF call'.stage = "continuation" THEN {"+"} ELSE Phases)
      BY <1>3, <2>1, <2>2, <2>4, ConstantFacts
    <3>2. handle' \in [tag : 0 .. tag', stopping : BOOLEAN]
      BY <1>1, <2>4 DEF TypeInv, TypeOK
    <3> QED BY <1>1, <2>1, <2>4, <2>6, <3>1, <3>2 DEF TypeInv, TypeOK, serverVars
  <2>9. CallOK'
    <3>1. call' \in [op : AllOps \cup {"none"}, stage : Stages, tag : Nat,
                     inbox : Seq({"+"} \cup Phases), reply : Replies]
      BY <1>3, <2>1, <2>4, ConstantFacts DEF Stages
    <3>2. call'.op \notin {"none", "IDLE"}
      BY <1>1, <2>2
    <3>3. call'.reply.code \in {"none", "post"}
      BY <2>2, ConstantFacts
    <3>4. call'.tag = tag' /\ tag' # 0 /\ st' \in States
      BY <1>3, <2>1, <2>2, <2>4
    <3> QED BY <1>2, <2>2, <3>1, <3>2, <3>3, <3>4 DEF CallOK
  <2>10. WireOK'
    <3>1. \A i \in DOMAIN lines : lines[i].tag \in 1 .. tag'
      BY <2>4 DEF TypeInv, WireOK
    <3> HIDE DEF l
    <3>2. \A i \in DOMAIN lines' : lines'[i].tag \in 1 .. tag'
      BY <2>4, <2>5, <2>6, <3>1 DEF Gains, Grown
    <3> QED BY <1>1, <2>4, <3>2 DEF TypeInv, WireOK
  <2> QED BY <2>7, <2>8, <2>9, <2>10 DEF TypeInv
<1> QED BY <1>4, <1>5

LEMMA LearnStep ==
  ASSUME TypeInv, next_capabilities
  PROVE  TypeInv' /\ Learns
<1>1. /\ call.op = "CAPABILITY" \/ call.stage = "refresh"
      /\ call.inbox # <<>> /\ caps' = Head(call.inbox)
      /\ call' = [call EXCEPT !.inbox = Tail(@)]
      /\ UNCHANGED <<st, transport, handle, hreply, tag, lines, frames, up, serverVars, givenUp>>
  BY DEF next_capabilities
<1>2. /\ call \in [op : AllOps \cup {"none"}, stage : Stages, tag : Nat,
                   inbox : Seq({"+"} \cup Phases), reply : Replies]
      /\ call.stage # "continuation" /\ call.op # "none" /\ call # NoCall
  BY <1>1, ConstantFacts DEF TypeInv, CallOK, UnauthenticatedOps
<1>3. call.inbox \in Seq(Phases)
  BY <1>2 DEF TypeInv, TypeOK
<1>4. /\ Shrunk(call.inbox, Tail(call.inbox)) /\ Head(call.inbox) = call.inbox[1]
      /\ Head(call.inbox) \in Phases /\ Tail(call.inbox) \in Seq(Phases)
  BY <1>1, <1>3, ShrunkTail
<1>5. call' = [call EXCEPT !.stage = call.stage, !.inbox = Tail(call.inbox), !.reply = call.reply]
  BY <1>1, <1>2
<1>6. ~(call.op \in UnauthenticatedOps /\ call.stage \in {"reply", "secret"})
  BY <1>1 DEF UnauthenticatedOps
<1>7. /\ TypeInv' /\ call'.op = call.op /\ call'.stage = call.stage /\ call'.tag = call.tag
      /\ call'.inbox = Tail(call.inbox) /\ call'.reply = call.reply
  <2>1. /\ UNCHANGED <<st, transport, handle, tag, up, server, invited, offer, givenUp>>
        /\ caps' \in {"default"} \cup Phases /\ hreply' \in Replies /\ asking' \in 0 .. tag
        /\ lines' \in Seq(Lines) /\ frames' \in Seq(FrameSet)
    BY <1>1, <1>4 DEF TypeInv, TypeOK, serverVars
  <2>2. WireOK'
    BY <1>1 DEF TypeInv, WireOK
  <2>3. call.reply \in Replies /\ call.stage \in Stages /\ call.reply.code \in {"none", "post"}
    BY DEF TypeInv, CallOK
  <2>4. Tail(call.inbox) \in Seq(IF call.stage = "continuation" THEN {"+"} ELSE Phases)
    BY <1>2, <1>4
  <2> QED BY <1>2, <1>5, <1>6, <2>1, <2>2, <2>3, <2>4, CallTypes
<1>8. 1 \in DOMAIN call.inbox
  BY <1>4 DEF Shrunk
<1> QED BY <1>1, <1>2, <1>4, <1>7, <1>8 DEF Learns, CallKeeps, ServerKeeps, serverVars

LEMMA StopStep ==
  ASSUME TypeInv, stop \/ stopped
  PROVE  TypeInv' /\ Stops
<1>1. /\ handle.tag # 0 
      /\ UNCHANGED <<st, transport, caps, call, tag, frames, up, serverVars, givenUp>>
  BY DEF stop, stopped
<1>2. handle \in [tag : 0 .. tag, stopping : BOOLEAN] /\ tag \in Nat /\ tag \in 0 .. MaxCommands
  BY BoundAssumption DEF TypeInv, TypeOK
<1>3. handle.tag \in 1 .. tag /\ handle.tag \in 1 .. MaxCommands
  <2>1. handle.tag \in 0 .. tag
    BY <1>2
  <2> QED BY <1>1, <1>2, <2>1, BoundAssumption
<1> DEFINE l == Line("done", "IDLE", handle.tag)
<1>4. l \in Lines /\ l.tag \in 1 .. tag
  BY <1>3 DEF Line, Lines, AllOps, SelectedOps
<1>5. /\ handle'.tag \in {0, handle.tag} /\ handle' \in [tag : 0 .. tag, stopping : BOOLEAN]
      /\ hreply' \in Replies /\ Gains(l) /\ lines' \in Seq(Lines) /\ WireOK'
  <2>1. CASE stop
    <3>1. lines' = IF up THEN Append(lines, l) ELSE lines
      BY <2>1 DEF stop, Line
    <3>2. Gains(l) /\ lines' \in Seq(Lines) /\ WireOK'
      BY <1>1, <1>4, <3>1, GainTypes
    <3>3. handle' = [handle EXCEPT !.stopping = TRUE] /\ hreply' \in Replies
      BY <2>1 DEF stop, TypeInv, TypeOK
    <3> QED BY <1>2, <3>2, <3>3
  <2>2. CASE stopped
    <3>1. handle' = [tag |-> 0, stopping |-> FALSE] /\ hreply' \in Replies /\ lines' = lines
      BY <2>2, ConstantFacts DEF stopped, NoHandle
    <3>2. 0 \in 0 .. tag
      BY <1>2
    <3>3. lines' \in Seq(Lines) /\ WireOK'
      BY <1>1, <3>1 DEF TypeInv, TypeOK, WireOK
    <3> QED BY <3>1, <3>2, <3>3 DEF Gains
  <2> QED BY <2>1, <2>2
<1>6. TypeOK'
  BY <1>1, <1>5 DEF TypeInv, TypeOK, serverVars
<1>7. CallOK'
  BY <1>1 DEF TypeInv, CallOK
<1>8. Stops
  BY <1>1, <1>5 DEF Stops, ServerKeeps, serverVars
<1> QED BY <1>5, <1>6, <1>7, <1>8 DEF TypeInv

LEMMA DispatchStep ==
  ASSUME TypeInv, dispatch
  PROVE  TypeInv' /\ Dispatches
<1>0. frames # <<>> /\ frames \in Seq(FrameSet)
  BY DEF dispatch, TypeInv, TypeOK
<1>1. PICK f : f = Head(frames)
  OBVIOUS
<1>2. /\ Shrunk(frames, Tail(frames)) /\ f = frames[1] /\ f \in FrameSet
      /\ Tail(frames) \in Seq(FrameSet)
  BY <1>0, <1>1, ShrunkTail
<1>3. PICK r : r = [status |-> f.status, code |-> f.code]
  OBVIOUS
<1>4. /\ frames' = Tail(frames)
      /\ call' = CASE f.kind = "tagged" /\ call.tag = f.tag /\ call.reply = NoReply ->
                        [call EXCEPT !.reply = r]
                   [] f.kind # "tagged" /\ call.reply = NoReply /\ takes(f) ->
                        [call EXCEPT !.inbox = Append(@, IF f.kind = "+" THEN "+" ELSE f.code)]
                   [] OTHER -> call
      /\ hreply' = IF f.kind = "tagged" /\ handle.tag = f.tag THEN r ELSE hreply
      /\ UNCHANGED <<st, transport, caps, handle, tag, lines, up, serverVars, givenUp>>
  BY <1>1, <1>3 DEF dispatch
<1>5. f.kind \in {"tagged", "list", "+"} /\ f.status \in {"none", "ok", "no"}
      /\ f.code \in {"none"} \cup Phases
  BY <1>2 DEF FrameSet
<1>6. 1 \in DOMAIN frames
  BY <1>2 DEF Shrunk
<1>7. /\ f.kind = "tagged" => /\ f.tag \in 1 .. tag /\ f.status \in {"ok", "no"}
                              /\ f.code \in {"none", "post"}
      /\ f.kind = "list" => f.code \in Phases
  BY <1>2, <1>6 DEF TypeInv, WireOK
<1>8. r \in Replies /\ r.code = f.code /\ r.status = f.status
  BY <1>3, <1>5 DEF Replies
<1>9. call \in [op : AllOps \cup {"none"}, stage : Stages, tag : Nat,
                inbox : Seq({"+"} \cup Phases), reply : Replies]
  BY DEF TypeInv, CallOK
<1>10. /\ UNCHANGED <<st, transport, handle, tag, up, server, invited, offer, givenUp>>
       /\ caps' \in {"default"} \cup Phases /\ hreply' \in Replies /\ asking' \in 0 .. tag
       /\ lines' \in Seq(Lines) /\ frames' \in Seq(FrameSet)
  <2>1. hreply' \in Replies
    BY <1>4, <1>8 DEF TypeInv, TypeOK
  <2> QED BY <1>2, <1>4, <2>1 DEF TypeInv, TypeOK, serverVars
<1>11. WireOK'
  <2>1. \A i \in DOMAIN frames' : i + 1 \in DOMAIN frames /\ frames'[i] = frames[i + 1]
    BY <1>2, <1>4 DEF Shrunk
  <2> QED BY <1>4, <2>1 DEF TypeInv, WireOK
<1>12. /\ call.stage \in Stages /\ call.reply \in Replies /\ call.reply.code \in {"none", "post"}
       /\ call.inbox \in Seq(IF call.stage = "continuation" THEN {"+"} ELSE Phases)
       /\ call.op \in UnauthenticatedOps /\ call.stage \in {"reply", "secret"} => call.inbox = <<>>
  BY DEF TypeInv, CallOK, TypeOK
<1>13. ServerKeeps /\ UNCHANGED <<st, caps, handle, tag, lines, givenUp>> /\ Shrunk(frames, frames')
  BY <1>2, <1>4 DEF ServerKeeps, serverVars
<1>14. CASE f.kind = "tagged" /\ call.tag = f.tag /\ call.reply = NoReply
  <2>1. call' = [call EXCEPT !.reply = r]
    BY <1>4, <1>14
  <2>2. call' = [call EXCEPT !.stage = call.stage, !.inbox = call.inbox, !.reply = r]
    BY <1>9, <2>1
  <2>3. call.tag # 0
    BY <1>7, <1>14 
  <2>4. call # NoCall /\ call.op # "none"
    BY <2>3, ConstantFacts DEF TypeInv, CallOK
  <2>5. /\ TypeInv' /\ call'.op = call.op /\ call'.stage = call.stage /\ call'.tag = call.tag
        /\ call'.inbox = call.inbox /\ call'.reply = r
    <3>1. r.code \in {"none", "post"}
      BY <1>7, <1>8, <1>14
    <3> QED BY <1>8, <1>10, <1>11, <1>12, <2>2, <2>4, <3>1, CallTypes
  <2>6. Settles(f)
    BY <1>3, <1>14, <2>4, <2>5 DEF Settles
  <2> QED BY <1>2, <1>13, <2>5, <2>6 DEF Dispatches, Sorts, CallKeeps
<1>15. CASE f.kind # "tagged" /\ call.reply = NoReply /\ takes(f)
  <2> DEFINE x == IF f.kind = "+" THEN "+" ELSE f.code
  <2>1. call' = [call EXCEPT !.inbox = Append(call.inbox, x)]
    BY <1>4, <1>9, <1>15
  <2>2. call' = [call EXCEPT !.stage = call.stage, !.inbox = Append(call.inbox, x),
                             !.reply = call.reply]
    BY <1>9, <2>1
  <2>3. \/ f.kind = "+" /\ call.stage = "continuation"
        \/ /\ f.kind = "list" /\ (call.op = "CAPABILITY" \/ call.stage = "refresh")
           /\ call.stage # "continuation"
    <3>1. call.op = "CAPABILITY" => call.stage # "continuation"
      BY DEF TypeInv, CallOK
    <3> QED BY <1>15, <3>1 DEF takes
  <2>4. call # NoCall /\ call.op # "none"
    <3>1. NoCall.stage = "none" /\ NoCall.op = "none"
      BY ConstantFacts
    <3>2. call.op # "none"
      BY <2>3, <3>1 DEF TypeInv, CallOK
    <3> QED BY <3>1, <3>2
  <2>5. x \in IF call.stage = "continuation" THEN {"+"} ELSE Phases
    BY <1>7, <2>3
  <2>6. /\ Grown(call.inbox, Append(call.inbox, x), x)
        /\ Append(call.inbox, x) \in Seq(IF call.stage = "continuation" THEN {"+"} ELSE Phases)
    <3> HIDE DEF x
    <3> QED BY <1>12, <2>5, GrownAppend
  <2>7. ~(call.op \in UnauthenticatedOps /\ call.stage \in {"reply", "secret"})
    BY <2>3 DEF UnauthenticatedOps
  <2>8. /\ TypeInv' /\ call'.op = call.op /\ call'.stage = call.stage /\ call'.tag = call.tag
        /\ call'.inbox = Append(call.inbox, x) /\ call'.reply = call.reply
    <3>1. PICK ib : ib = Append(call.inbox, x)
      OBVIOUS
    <3>2. /\ call' = [call EXCEPT !.stage = call.stage, !.inbox = ib, !.reply = call.reply]
          /\ ib \in Seq(IF call.stage = "continuation" THEN {"+"} ELSE Phases)
      BY <2>2, <2>6, <3>1
    <3>3. /\ TypeInv' /\ call'.op = call.op /\ call'.stage = call.stage /\ call'.tag = call.tag
          /\ call'.inbox = ib /\ call'.reply = call.reply
      BY <1>10, <1>11, <1>12, <2>4, <2>7, <3>2, CallTypes
    <3> QED BY <3>1, <3>3
  <2>9. Append(call.inbox, x) # <<>>
    BY <1>12, <2>5, AppendProperties, EmptySeq
  <2>10. Streams(f)
    BY <1>15, <2>3, <2>6, <2>8, <2>9 DEF Streams
  <2> QED BY <1>2, <1>13, <2>8, <2>10 DEF Dispatches, Sorts, CallKeeps
<1>16. CASE /\ ~(f.kind = "tagged" /\ call.tag = f.tag /\ call.reply = NoReply)
            /\ ~(f.kind # "tagged" /\ call.reply = NoReply /\ takes(f))
  <2>1. call' = call
    BY <1>4, <1>16
  <2>2. CallOK' /\ TypeOK'
    BY <1>4, <1>10, <2>1, SMTT(30) DEF TypeInv, CallOK, TypeOK
  <2>3. Skips(f)
    <3>1. call.op # "none" => call.tag = tag
      BY DEF TypeInv, CallOK
    <3> QED BY <1>16, <2>1, <3>1 DEF Skips, takes
  <2> QED BY <1>2, <1>11, <1>13, <2>1, <2>2, <2>3 DEF Dispatches, Sorts, CallKeeps, TypeInv
<1> QED BY <1>14, <1>15, <1>16

LEMMA FailStep ==
  ASSUME TypeInv, fail
  PROVE  TypeInv' /\ Breaks
<1>1. /\ up' = FALSE /\ lines' = <<>> /\ frames' = <<>>
      /\ call' = IF call # NoCall /\ call.reply = NoReply THEN [call EXCEPT !.reply = Closed] ELSE call
      /\ hreply' = IF handle.tag # 0 /\ hreply = NoReply THEN Closed ELSE hreply
      /\ UNCHANGED <<st, transport, caps, handle, tag, serverVars, givenUp>>
  BY DEF fail
<1>2. call \in [op : AllOps \cup {"none"}, stage : Stages, tag : Nat,
                inbox : Seq({"+"} \cup Phases), reply : Replies]
  BY DEF TypeInv, CallOK
<1>3. PICK r : r = IF call # NoCall /\ call.reply = NoReply THEN Closed ELSE call.reply
  OBVIOUS
<1>4. call' = [call EXCEPT !.reply = r]
  BY <1>1, <1>2, <1>3
<1>5. /\ r \in Replies /\ (r = call.reply \/ (call.reply = NoReply /\ r = Closed))
      /\ (call = NoCall => r = NoReply)
  BY <1>2, <1>3, ConstantFacts
<1>6. /\ lines' \in Seq(Lines) /\ frames' \in Seq(FrameSet) /\ hreply' \in Replies
      /\ up' \in BOOLEAN
  <2>1. hreply' \in Replies
    BY <1>1, ConstantFacts DEF TypeInv, TypeOK
  <2>2. lines' \in Seq(Lines) /\ frames' \in Seq(FrameSet)
    BY <1>1
  <2> QED BY <1>1, <2>1, <2>2
<1>7. WireOK'
  BY <1>1 DEF WireOK
<1>8. /\ call'.op = call.op /\ call'.stage = call.stage /\ call'.tag = call.tag
      /\ call'.inbox = call.inbox /\ call'.reply = r
  BY <1>2, <1>4
<1>9. TypeOK'
  BY <1>1, <1>5, <1>6, <1>8 DEF TypeInv, TypeOK, serverVars
<1>10. call' \in [op : AllOps \cup {"none"}, stage : Stages, tag : Nat,
                  inbox : Seq({"+"} \cup Phases), reply : Replies]
  BY <1>2, <1>4, <1>5
<1>11. call.op = "none" => call' = NoCall
  <2>1. SUFFICES ASSUME call.op = "none" PROVE call' = NoCall
    OBVIOUS
  <2>2. call = NoCall
    BY <2>1 DEF TypeInv, CallOK
  <2> QED BY <1>1, <2>2
<1>12. r.code \in {"none", "post"}
  BY <1>5, ConstantFacts DEF TypeInv, CallOK
<1>13. CallOK'
  BY <1>1, <1>8, <1>10, <1>11, <1>12 DEF TypeInv, CallOK
<1>14. Breaks
  BY <1>1, <1>5, <1>8 DEF Breaks, CallKeeps, ServerKeeps, serverVars
<1> QED BY <1>7, <1>9, <1>13, <1>14 DEF TypeInv

\* A frame the server may send.
FrameOK(f) ==
  /\ f \in FrameSet
  /\ f.kind = "tagged" => f.tag \in 1 .. tag /\ f.status \in {"ok", "no"} /\ f.code \in {"none", "post"}
  /\ f.kind = "list" => f.code \in Phases
SentOK(s) == s \in Seq(FrameSet) /\ \A i \in DOMAIN s : FrameOK(s[i])

LEMMA EmitTypes ==
  ASSUME NEW s, SentOK(s), NEW f, FrameOK(f)
  PROVE  Grown(s, Append(s, f), f) /\ SentOK(Append(s, f))
<1>1. s \in Seq(FrameSet) /\ f \in FrameSet
  BY DEF SentOK, FrameOK
<1>2. Grown(s, Append(s, f), f) /\ Append(s, f) \in Seq(FrameSet)
  BY <1>1, GrownAppend
<1>3. \A i \in DOMAIN Append(s, f) : FrameOK(Append(s, f)[i])
  BY <1>2 DEF Grown, SentOK
<1> QED BY <1>2, <1>3 DEF SentOK

LEMMA ServerTypes ==
  ASSUME TypeInv, UNCHANGED <<sessionVars, up, offer>>, server' \in States,
         invited' \subseteq 1 .. tag, asking' \in 0 .. tag, SentOK(frames'),
         lines' = lines \/ (lines # <<>> /\ lines' = Tail(lines))
  PROVE  TypeInv' /\ ClientKeeps /\ (lines' = lines \/ Shrunk(lines, lines'))
<1>1. UNCHANGED <<st, transport, caps, call, handle, hreply, tag, givenUp, up, offer>>
  BY DEF sessionVars
<1>2. lines \in Seq(Lines)
  BY DEF TypeInv, TypeOK
<1>3. lines' \in Seq(Lines) /\ (lines' = lines \/ Shrunk(lines, lines'))
  BY <1>2, ShrunkTail
<1>4. \A i \in DOMAIN lines' : lines'[i].tag \in 1 .. tag
  BY <1>3 DEF Shrunk, TypeInv, WireOK
<1>5. WireOK'
  BY <1>1, <1>4 DEF WireOK, SentOK, FrameOK
<1>6. CallOK'
  BY <1>1 DEF TypeInv, CallOK
<1>7. TypeOK'
  BY <1>1, <1>3 DEF TypeInv, TypeOK, SentOK
<1> QED BY <1>1, <1>3, <1>5, <1>6, <1>7 DEF TypeInv, ClientKeeps

\* The line the server receives.
LEMMA ReceiveFacts ==
  ASSUME TypeInv, Receive
  PROVE  /\ Head(lines) = lines[1] /\ Shrunk(lines, lines') /\ lines # <<>>
         /\ lines' = Tail(lines) /\ lines[1].op \in AllOps /\ lines[1].tag \in 1 .. tag
         /\ lines[1].kind \in {"command", "secret", "done"}
<1>1. lines # <<>> /\ lines' = Tail(lines) /\ lines \in Seq(Lines)
  BY DEF Receive, TypeInv, TypeOK
<1>2. /\ Head(lines) = lines[1] /\ Shrunk(lines, lines') /\ lines[1] \in Lines
  BY <1>1, ShrunkTail
<1>3. 1 \in DOMAIN lines
  BY <1>2 DEF Shrunk
<1> QED BY <1>1, <1>2, <1>3 DEF Lines, TypeInv, WireOK

LEMMA FrameTypes ==
  ASSUME TypeInv
  PROVE  /\ SentOK(frames) /\ tag \in Nat /\ server \in States /\ invited \subseteq 1 .. tag
         /\ asking \in 0 .. tag /\ 1 .. tag \subseteq 0 .. tag
         /\ \A t \in 1 .. tag, s \in {"ok", "no"}, c \in {"none", "post"} : FrameOK(Tagged(t, s, c))
         /\ \A c \in Phases : FrameOK(List(c))
         /\ FrameOK(Invite)
<1>1. /\ tag \in Nat /\ tag \in 0 .. MaxCommands /\ frames \in Seq(FrameSet)
      /\ server \in States /\ invited \subseteq 1 .. tag /\ asking \in 0 .. tag
  BY BoundAssumption DEF TypeInv, TypeOK
<1>2. 1 .. tag \subseteq 0 .. MaxCommands /\ 0 \in 0 .. MaxCommands /\ 1 .. tag \subseteq 0 .. tag
  BY <1>1, BoundAssumption
<1>3. \A t \in 1 .. tag, s \in {"ok", "no"}, c \in {"none", "post"} : FrameOK(Tagged(t, s, c))
  BY <1>2 DEF FrameOK, Tagged, FrameSet, Phases
<1>4. \A c \in Phases : FrameOK(List(c))
  BY <1>2 DEF FrameOK, List, FrameSet
<1>5. FrameOK(Invite)
  BY <1>2 DEF FrameOK, Invite, FrameSet
<1>6. \A i \in DOMAIN frames : frames[i] \in FrameSet
  BY <1>1, ElementOfSeq, LenProperties
<1>7. SentOK(frames)
  BY <1>1, <1>6 DEF SentOK, FrameOK, TypeInv, WireOK
<1> QED BY <1>1, <1>2, <1>3, <1>4, <1>5, <1>7

LEMMA RefuseStep ==
  ASSUME TypeInv, server_refuses
  PROVE  TypeInv' /\ Refuses
<1>1. /\ Receive /\ asking = 0 /\ Head(lines).kind = "command"
      /\ frames' = Append(frames, Tagged(Head(lines).tag, "no", "none"))
      /\ server' = IF Head(lines).op \in {"SELECT", "EXAMINE"} /\ server = "Selected"
                   THEN "Authenticated" ELSE server
      /\ UNCHANGED <<sessionVars, up, invited, asking, offer>>
  BY DEF server_refuses
<1>2. /\ Head(lines) = lines[1] /\ Shrunk(lines, lines') /\ lines # <<>> /\ lines' = Tail(lines)
      /\ lines[1].tag \in 1 .. tag
  BY <1>1, ReceiveFacts
<1>3. Grown(frames, frames', Tagged(lines[1].tag, "no", "none")) /\ SentOK(frames')
  BY <1>1, <1>2, FrameTypes, EmitTypes
<1>4. server' \in States
  BY <1>1, FrameTypes DEF States
<1>5. TypeInv' /\ ClientKeeps
  BY <1>1, <1>2, <1>3, <1>4, FrameTypes, ServerTypes
<1> QED BY <1>1, <1>2, <1>3, <1>5 DEF Refuses, Takes, Command, Emits

LEMMA AcceptStep ==
  ASSUME TypeInv, server_accepts
  PROVE  TypeInv' /\ (Invites \/ Accepts \/ Enumerates)
<1>1. PICK op, t : op = Head(lines).op /\ t = Head(lines).tag
  OBVIOUS
<1>2. /\ Receive /\ asking = 0 /\ Head(lines).kind = "command" /\ Legal(op)
      /\ IF op \in {"IDLE", "AUTHENTICATE"}
         THEN /\ asking' = t /\ invited' = invited \cup {t}
              /\ frames' = Append(frames, Invite)
              /\ UNCHANGED server
         ELSE /\ \E c \in IF op = "LOGIN" THEN {"none", "post"} ELSE {"none"} :
                   frames' = (IF op = "CAPABILITY" THEN Append(frames, List(Phase)) ELSE frames)
                               \o <<Tagged(t, "ok", c)>>
              /\ server' = CASE op \in {"LOGIN", "CLOSE", "UNSELECT"} -> "Authenticated"
                             [] op \in {"SELECT", "EXAMINE"} -> "Selected"
                             [] OTHER -> server
              /\ UNCHANGED <<asking, invited>>
      /\ UNCHANGED <<sessionVars, up, offer>>
  BY <1>1 DEF server_accepts
<1>3. /\ Head(lines) = lines[1] /\ Shrunk(lines, lines') /\ lines # <<>> /\ lines' = Tail(lines)
      /\ t \in 1 .. tag /\ op = lines[1].op /\ t = lines[1].tag /\ op \in AllOps
  BY <1>1, <1>2, ReceiveFacts
<1>4. Takes
  BY <1>2, <1>3 DEF Takes, Command
<1>5. CASE op \in {"IDLE", "AUTHENTICATE"}
  <2>1. Grown(frames, frames', Invite) /\ SentOK(frames')
    BY <1>2, <1>5, FrameTypes, EmitTypes
  <2>2. asking' \in 0 .. tag /\ invited' \subseteq 1 .. tag /\ server' \in States
    BY <1>2, <1>3, <1>5, FrameTypes
  <2>3. TypeInv' /\ ClientKeeps
    BY <1>2, <1>3, <2>1, <2>2, ServerTypes
  <2>4. Invites
    BY <1>2, <1>3, <1>4, <1>5, <2>1, <2>3 DEF Invites, Emits
  <2> QED BY <2>3, <2>4
<1>6. CASE op \notin {"IDLE", "AUTHENTICATE"}
  <2>1. UNCHANGED <<asking, invited>>
    BY <1>2, <1>6
  <2>2. server' = IF op \in Changing THEN Entered(op) ELSE server
    <3>1. server' = CASE op \in {"LOGIN", "CLOSE", "UNSELECT"} -> "Authenticated"
                      [] op \in {"SELECT", "EXAMINE"} -> "Selected"
                      [] OTHER -> server
      BY <1>2, <1>6
    <3>2. CASE op \in {"LOGIN", "CLOSE", "UNSELECT"}
      <4>1. server' = "Authenticated"
        BY <3>1, <3>2
      <4> QED BY <4>1, <3>2 DEF Changing, Entered, UnauthenticatedOps
    <3>3. CASE op \in {"SELECT", "EXAMINE"}
      <4>1. server' = "Selected"
        BY <3>1, <3>3
      <4> QED BY <4>1, <3>3 DEF Changing, Entered
    <3>4. CASE op \notin {"LOGIN", "CLOSE", "UNSELECT", "SELECT", "EXAMINE"}
      <4>1. server' = server
        BY <3>1, <3>4
      <4> QED BY <4>1, <3>4, <1>6 DEF Changing, UnauthenticatedOps
    <3> QED BY <3>2, <3>3, <3>4
  <2>3. server' \in States
    BY <2>2, FrameTypes DEF Entered, States
  <2>4. PICK c \in {"none", "post"} :
          /\ c = "none" \/ op = "LOGIN"
          /\ frames' = (IF op = "CAPABILITY" THEN Append(frames, List(Phase)) ELSE frames)
                         \o <<Tagged(t, "ok", c)>>
    BY <1>2, <1>6
  <2>5. FrameOK(Tagged(t, "ok", c)) /\ SentOK(frames)
    BY <1>3, FrameTypes
  <2>6. \A s : SentOK(s) => s \o <<Tagged(t, "ok", c)>> = Append(s, Tagged(t, "ok", c))
    <3>1. Tagged(t, "ok", c) \in FrameSet
      BY <2>5 DEF FrameOK
    <3> QED BY <3>1, AppendIsConcat DEF SentOK
  <2>7. CASE op # "CAPABILITY"
    <3>1. frames' = Append(frames, Tagged(t, "ok", c))
      BY <2>4, <2>5, <2>6, <2>7
    <3>2. Grown(frames, frames', Tagged(t, "ok", c)) /\ SentOK(frames')
      BY <2>5, <3>1, EmitTypes
    <3>3. TypeInv' /\ ClientKeeps
      BY <1>2, <1>3, <2>1, <2>3, <3>2, FrameTypes, ServerTypes
    <3>4. Accepts
      BY <1>2, <1>3, <1>4, <1>6, <2>1, <2>2, <2>7, <3>2, <3>3 DEF Accepts, Emits
    <3> QED BY <3>3, <3>4
  <2>8. CASE op = "CAPABILITY"
    <3>1. PICK mid : mid = Append(frames, List(Phase))
      OBVIOUS
    <3>2. FrameOK(List(Phase))
      BY FrameTypes DEF Phase, Phases
    <3>3. Grown(frames, mid, List(Phase)) /\ SentOK(mid)
      BY <2>5, <3>1, <3>2, EmitTypes
    <3>4. frames' = Append(mid, Tagged(t, "ok", "none")) /\ FrameOK(Tagged(t, "ok", "none"))
      BY <2>4, <2>5, <2>6, <2>8, <3>1, <3>3
    <3>5. Grown(mid, frames', Tagged(t, "ok", "none")) /\ SentOK(frames')
      BY <3>3, <3>4, EmitTypes
    <3>6. TypeInv' /\ ClientKeeps
      BY <1>2, <1>3, <2>1, <2>3, <3>5, FrameTypes, ServerTypes
    <3>7. server' = server
      BY <2>2, <2>8 DEF Changing, UnauthenticatedOps
    <3>8. \E k \in DOMAIN mid : mid[k] = List(Phase)
      <4>1. frames \in Seq(FrameSet) /\ List(Phase) \in FrameSet
        BY <2>5, <3>2 DEF SentOK, FrameOK
      <4>2. mid \in Seq(FrameSet) /\ Len(mid) = Len(frames) + 1 /\ mid[Len(frames) + 1] = List(Phase)
        BY <3>1, <4>1, AppendProperties
      <4>3. Len(frames) + 1 \in DOMAIN mid
        BY <4>1, <4>2, LenProperties
      <4> QED BY <4>2, <4>3
    <3>9. Enumerates
      BY <1>3, <1>4, <2>1, <2>8, <3>3, <3>5, <3>6, <3>7, <3>8 DEF Enumerates
    <3> QED BY <3>6, <3>9
  <2> QED BY <2>7, <2>8
<1> QED BY <1>5, <1>6

LEMMA LineStep ==
  ASSUME TypeInv, server_line \/ server_ends
  PROVE  TypeInv' /\ (Closes \/ Admits)
<1>1. /\ asking # 0 /\ asking' = 0 /\ UNCHANGED <<sessionVars, up, invited, offer>>
      /\ Receive \/ lines' = lines
  BY DEF server_line, server_ends
<1>2. asking \in 1 .. tag /\ 0 \in 0 .. tag
  BY <1>1, FrameTypes
<1>3. ASSUME NEW s \in {"ok", "no"}, NEW c \in {"none", "post"},
             frames' = Append(frames, Tagged(asking, s, c)), server' \in States
      PROVE  TypeInv' /\ Concludes(s, c)
  <2>1. Grown(frames, frames', Tagged(asking, s, c)) /\ SentOK(frames')
    BY <1>2, <1>3, FrameTypes, EmitTypes
  <2>2. lines' = lines \/ (lines # <<>> /\ lines' = Tail(lines))
    BY <1>1, ReceiveFacts
  <2>3. TypeInv' /\ ClientKeeps /\ (lines' = lines \/ Shrunk(lines, lines'))
    BY <1>1, <1>2, <1>3, <2>1, <2>2, FrameTypes, ServerTypes
  <2> QED BY <1>1, <2>1, <2>3 DEF Concludes, Emits
<1>4. CASE /\ Receive /\ Head(lines).kind = "done" /\ server = "Selected"
           /\ frames' = Append(frames, Tagged(asking, "ok", "none"))
           /\ UNCHANGED server
  BY <1>3, <1>4, FrameTypes, ReceiveFacts DEF Closes
<1>5. CASE /\ Receive /\ Head(lines).kind = "secret" /\ server = "Unauthenticated"
           /\ \E c \in {"none", "post"} : frames' = Append(frames, Tagged(asking, "ok", c))
           /\ server' = "Authenticated"
  <2>1. server' \in States
    BY <1>5 DEF States
  <2>2. PICK c \in {"none", "post"} : frames' = Append(frames, Tagged(asking, "ok", c))
    BY <1>5
  <2>3. TypeInv' /\ Concludes("ok", c)
    BY <1>3, <2>1, <2>2
  <2> QED BY <1>5, <2>3, ReceiveFacts DEF Admits
<1>6. CASE /\ frames' = Append(frames, Tagged(asking, "no", "none"))
           /\ UNCHANGED server
  BY <1>3, <1>6, FrameTypes DEF Closes
<1> QED BY <1>4, <1>5, <1>6 DEF server_line, server_ends

LEMMA IgnoreStep ==
  ASSUME TypeInv, server_ignores
  PROVE  TypeInv' /\ Ignores
<1>1. /\ Receive /\ asking = 0 /\ Head(lines).kind # "command"
      /\ UNCHANGED <<sessionVars, frames, up, server, invited, asking, offer>>
  BY DEF server_ignores, serverVars
<1>2. /\ Head(lines) = lines[1] /\ Shrunk(lines, lines') /\ lines # <<>> /\ lines' = Tail(lines)
  BY <1>1, ReceiveFacts
<1>3. TypeInv' /\ ClientKeeps
  BY <1>1, <1>2, FrameTypes, ServerTypes
<1> QED BY <1>1, <1>2, <1>3 DEF Ignores, Command

LEMMA Steps == TypeInv /\ [Next]_vars => TypeInv' /\ Step
<1> SUFFICES ASSUME TypeInv, [Next]_vars PROVE TypeInv' /\ Step
  OBVIOUS
<1> USE DEF Step
<1>1. ASSUME NEW op \in Ops, start(op) PROVE TypeInv' /\ Step
  BY <1>1, StartStep, OpsAssumption
<1>2. CASE drop_session \/ \E op \in Ops : reject(op)
  BY <1>2, LeaveStep
<1>3. CASE next_capabilities
  BY <1>3, LearnStep
<1>4. CASE reply \/ refreshed \/ no_continuation \/ secret_refused
  <2>1. call.stage \in {"reply", "refresh", "continuation", "secret"}
    BY <1>4 DEF reply, refreshed, no_continuation, secret_refused
  <2>2. call.op # "none"
    <3>1. NoCall.stage = "none"
      BY ConstantFacts
    <3> QED BY <2>1, <3>1 DEF TypeInv, CallOK
  <2> QED BY <1>4, <2>2, ReturnStep
<1>5. CASE refresh_capabilities_from_frame
  BY <1>5, RefreshStep
<1>6. CASE await_continuation
  BY <1>6, ContinueStep
<1>7. CASE give_up
  BY <1>7, GiveUpStep
<1>8. CASE stop \/ stopped
  BY <1>8, StopStep
<1>9. CASE dispatch
  BY <1>9, DispatchStep
<1>10. CASE fail
  BY <1>10, FailStep
<1>11. CASE Server
  <2>1. CASE server_refuses
    BY <2>1, RefuseStep
  <2>2. CASE server_accepts
    BY <2>2, AcceptStep
  <2>3. CASE server_line \/ server_ends
    BY <2>3, LineStep
  <2>4. CASE server_ignores
    BY <2>4, IgnoreStep
  <2> QED BY <1>11, <2>1, <2>2, <2>3, <2>4 DEF Server
<1>12. CASE UNCHANGED vars
  <2>1. /\ UNCHANGED <<st, transport, caps, call, handle, hreply, tag, givenUp>>
        /\ UNCHANGED <<lines, frames, up, server, invited, asking, offer>>
    BY <1>12 DEF vars, sessionVars, serverVars
  <2>2. TypeOK' /\ CallOK' /\ WireOK'
    BY <2>1 DEF TypeInv, TypeOK, CallOK, WireOK
  <2> QED BY <2>1, <2>2 DEF TypeInv, Stutters, ClientKeeps, ServerKeeps
<1> QED BY <1>1, <1>2, <1>3, <1>4, <1>5, <1>6, <1>7, <1>8, <1>9, <1>10, <1>11, <1>12
        DEF Next, Caller

\* Every variable of the session and of its connection keeps its type; what waits in a
\* call's stream is what its filter selects (session.rs, await_continuation and
\* refresh_capabilities).
THEOREM TypeCorrect == Spec => []TypeOK
<1>1. Spec => []TypeInv
  BY TypeInit, Steps, PTL DEF Spec
<1>2. TypeInv => TypeOK
  BY DEF TypeInv
<1> QED BY <1>1, <1>2, PTL

-----------------------------------------------------------------------------
(* Order. *)

Answer(i) == frames[i].kind = "tagged" /\ frames[i].tag = tag
NoCommands == \A i \in DOMAIN lines : ~Command(lines[i])
\* Commands come in the order of their tags; when the newest has been received,
\* none is left.
LineOrder == \A i, j \in DOMAIN lines :
  i < j /\ Command(lines[i]) /\ Command(lines[j]) => lines[i].tag < lines[j].tag
NewestTaken == \/ asking # 0 /\ asking = tag
               \/ \E i \in DOMAIN frames : Answer(i)
               \/ call.reply # NoReply
TakenInv == NewestTaken => NoCommands
\* The newest command is the call's.
NewestIsCall == \A i \in DOMAIN lines :
  Command(lines[i]) /\ lines[i].tag = tag /\ call.op # "none" =>
    lines[i].op = IF call.stage = "refresh" THEN "CAPABILITY" ELSE call.op
AskingIsCall == asking # 0 /\ asking = tag /\ call.op # "none" =>
  call.op \in {"IDLE", "AUTHENTICATE"} /\ call.stage # "refresh"
OrderInv == LineOrder /\ TakenInv /\ NewestIsCall /\ AskingIsCall

LEMMA TypeFacts ==
  ASSUME TypeInv
  PROVE  /\ tag \in Nat /\ asking \in Nat /\ asking <= tag
         /\ \A i \in DOMAIN lines : /\ i \in Nat /\ lines[i].tag \in Nat /\ lines[i].tag <= tag
                                    /\ lines[i].tag # 0 /\ lines[i].op \in AllOps
                                    /\ lines[i].kind \in {"command", "secret", "done"}
         /\ \A i \in DOMAIN frames : /\ i \in Nat /\ frames[i].kind \in {"tagged", "list", "+"}
                                     /\ frames[i].kind = "tagged" => 
                                          /\ frames[i].tag \in Nat /\ frames[i].tag <= tag
                                          /\ frames[i].tag # 0
         /\ call.op # "none" => call.tag = tag
<1>1. /\ tag \in 0 .. MaxCommands /\ asking \in 0 .. tag /\ lines \in Seq(Lines)
      /\ frames \in Seq(FrameSet) /\ (call.op # "none" => call.tag = tag)
      /\ \A i \in DOMAIN lines : lines[i].tag \in 1 .. tag
      /\ \A i \in DOMAIN frames : frames[i].kind = "tagged" => frames[i].tag \in 1 .. tag
  BY DEF TypeInv, TypeOK, WireOK, CallOK
<1>2. tag \in Nat /\ asking \in Nat /\ asking <= tag
  BY <1>1, BoundAssumption
<1>3. \A i \in DOMAIN lines : i \in Nat /\ lines[i] \in Lines
  BY <1>1, ElementOfSeq, LenProperties
<1>4. \A i \in DOMAIN frames : i \in Nat /\ frames[i] \in FrameSet
  BY <1>1, ElementOfSeq, LenProperties
<1>5. \A l \in Lines : l.op \in AllOps /\ l.kind \in {"command", "secret", "done"}
  BY DEF Lines
<1>6. \A f \in FrameSet : f.kind \in {"tagged", "list", "+"}
  BY DEF FrameSet
<1>7. \A x \in 1 .. tag : x \in Nat /\ x <= tag /\ x # 0
  BY <1>2
<1> QED BY <1>1, <1>2, <1>3, <1>4, <1>5, <1>6, <1>7

\* A new command is newer than all.
LEMMA NewCommandOrder ==
  ASSUME TypeInv, OrderInv, NEW op, tag' = tag + 1, Gains(Line("command", op, tag + 1)),
         UNCHANGED <<frames, asking>>, call'.reply = NoReply,
         op = IF call'.stage = "refresh" THEN "CAPABILITY" ELSE call'.op
  PROVE  OrderInv' /\ ~NewestTaken'
<1>1. PICK l : l = Line("command", op, tag + 1)
  OBVIOUS
<1>2. l.kind = "command" /\ l.op = op /\ l.tag = tag + 1
  BY <1>1 DEF Line
<1>3. lines' = lines \/ Grown(lines, lines', l)
  BY <1>1 DEF Gains
<1>4. \A i \in DOMAIN lines' :
        \/ i \in DOMAIN lines /\ lines'[i] = lines[i]
        \/ lines'[i] = l /\ i \in Nat /\ \A j \in DOMAIN lines' : j = i \/ (j \in DOMAIN lines /\ j < i)
  BY <1>3 DEF Grown
<1>5. LineOrder'
  <2> SUFFICES ASSUME NEW i \in DOMAIN lines', NEW j \in DOMAIN lines', i < j,
                      Command(lines'[i]), Command(lines'[j])
               PROVE  lines'[i].tag < lines'[j].tag
    BY DEF LineOrder, Command
  <2>1. CASE i \in DOMAIN lines /\ j \in DOMAIN lines
    <3>1. lines'[i] = lines[i] /\ lines'[j] = lines[j]
      BY <1>3, <2>1 DEF Grown
    <3> QED BY <2>1, <3>1 DEF OrderInv, LineOrder
  <2>2. CASE j \notin DOMAIN lines
    <3>1. lines'[j] = l /\ i # j
      BY <1>4, <2>2, TypeFacts, <1>3 DEF Grown
    <3>2. i \in DOMAIN lines /\ lines'[i] = lines[i]
      BY <1>3, <1>4, <2>2, <3>1 DEF Grown
    <3> QED BY <1>2, <3>1, <3>2, TypeFacts
  <2>3. CASE i \notin DOMAIN lines
    <3>1. i \in Nat /\ (j = i \/ (j \in Nat /\ j < i))
      BY <1>4, <2>3, TypeFacts
    <3> QED BY <3>1
  <2> QED BY <2>1, <2>2, <2>3
<1>6. ~NewestTaken' /\ AskingIsCall'
  <2>1. asking' # tag'
    BY TypeFacts
  <2>2. \A i \in DOMAIN frames' : ~(frames'[i].kind = "tagged" /\ frames'[i].tag = tag')
    BY TypeFacts
  <2> QED BY <2>1, <2>2 DEF NewestTaken, Answer, AskingIsCall
<1>7. NewestIsCall'
  <2> SUFFICES ASSUME NEW i \in DOMAIN lines', Command(lines'[i]), lines'[i].tag = tag'
               PROVE  lines'[i].op = op
    BY DEF NewestIsCall, Command
  <2>1. i \in DOMAIN lines /\ lines'[i] = lines[i] => lines'[i].tag # tag + 1
    BY TypeFacts
  <2> QED BY <1>2, <1>4, <2>1
<1> QED BY <1>5, <1>6, <1>7 DEF OrderInv, TakenInv

\* The server receives the oldest command.
LEMMA TakeOrder ==
  ASSUME TypeInv, OrderInv, Takes, UNCHANGED <<tag, call>>
  PROVE  /\ ~NewestTaken /\ LineOrder' /\ NewestIsCall'
         /\ lines[1].tag = tag => NoCommands'
<1>1. /\ 1 \in DOMAIN lines /\ Command(lines[1])
      /\ \A i \in DOMAIN lines' : i + 1 \in DOMAIN lines /\ lines'[i] = lines[i + 1] /\ i \in Nat /\ i > 0
  BY DEF Takes, Shrunk
<1>2. ~NewestTaken
  BY <1>1 DEF OrderInv, TakenInv, NoCommands
<1>3. LineOrder'
  BY <1>1 DEF OrderInv, LineOrder, Command
<1>4. NewestIsCall'
  BY <1>1 DEF OrderInv, NewestIsCall, Command
<1>5. ASSUME lines[1].tag = tag PROVE NoCommands'
  <2> SUFFICES ASSUME NEW i \in DOMAIN lines', Command(lines'[i]) PROVE FALSE
    BY DEF NoCommands, Command
  <2>1. i + 1 \in DOMAIN lines /\ lines'[i] = lines[i + 1] /\ 1 < i + 1
    BY <1>1
  <2>2. lines[1].tag < lines[i + 1].tag
    BY <1>1, <2>1 DEF OrderInv, LineOrder
  <2> QED BY <1>5, <2>1, <2>2, TypeFacts
<1> QED BY <1>2, <1>3, <1>4, <1>5

\* Lines that are no commands, and lines the server has received, do not matter.
LEMMA SameCommands ==
  ASSUME TypeInv, OrderInv, UNCHANGED tag,
         \/ lines' = lines \/ Shrunk(lines, lines')
         \/ \E l : Grown(lines, lines', l) /\ ~Command(l),
         NewestTaken' => NewestTaken,
         call'.op # "none" => call'.op = call.op /\ (call'.stage = "refresh" <=> call.stage = "refresh"),
         asking' \in {0, asking}
  PROVE  OrderInv'
<1>1. CASE lines' = lines
  <2>1. LineOrder' /\ TakenInv' /\ NewestIsCall'
    BY <1>1 DEF OrderInv, LineOrder, TakenInv, NoCommands, NewestIsCall
  <2>2. AskingIsCall'
    BY DEF OrderInv, AskingIsCall
  <2> QED BY <2>1, <2>2 DEF OrderInv
<1>2. CASE Shrunk(lines, lines')
  <2>1. \A i \in DOMAIN lines' : i + 1 \in DOMAIN lines /\ lines'[i] = lines[i + 1] /\ i \in Nat
    BY <1>2 DEF Shrunk
  <2>2. LineOrder' /\ TakenInv' /\ NewestIsCall'
    BY <2>1 DEF OrderInv, LineOrder, TakenInv, NoCommands, NewestIsCall, Command
  <2>3. AskingIsCall'
    BY DEF OrderInv, AskingIsCall
  <2> QED BY <2>2, <2>3 DEF OrderInv
<1>3. ASSUME NEW l, Grown(lines, lines', l), ~Command(l) PROVE OrderInv'
  <2>1. \A i \in DOMAIN lines' : Command(lines'[i]) => i \in DOMAIN lines /\ lines'[i] = lines[i]
    BY <1>3 DEF Grown
  <2>2. LineOrder' /\ TakenInv' /\ NewestIsCall'
    BY <2>1 DEF OrderInv, LineOrder, TakenInv, NoCommands, NewestIsCall, Command
  <2>3. AskingIsCall'
    BY DEF OrderInv, AskingIsCall
  <2> QED BY <2>2, <2>3 DEF OrderInv
<1> QED BY <1>1, <1>2, <1>3

LEMMA OrderInit == Init => OrderInv
BY DEF Init, OrderInv, LineOrder, TakenInv, NoCommands, NewestIsCall, AskingIsCall

LEMMA OrderStep == TypeInv /\ OrderInv /\ Step => OrderInv'
<1> SUFFICES ASSUME TypeInv, OrderInv, Step PROVE OrderInv'
  OBVIOUS
<1>1. ASSUME NEW op \in AllOps, Starts(op) PROVE OrderInv'
  <2>1. /\ tag' = tag + 1 /\ Gains(Line("command", op, tag + 1)) /\ UNCHANGED <<frames, asking>>
        /\ call'.reply = NoReply /\ op = IF call'.stage = "refresh" THEN "CAPABILITY" ELSE call'.op
    BY <1>1 DEF Starts, ServerKeeps
  <2> QED BY <2>1, NewCommandOrder
<1>2. CASE Ends
  <2>1. call'.op = "none" /\ call'.reply = NoReply
    BY <1>2, ConstantFacts DEF Ends
  <2>2. NewestTaken' => NewestTaken
    BY <1>2, <2>1 DEF Ends, ServerKeeps, NewestTaken, Answer
  <2>3. UNCHANGED <<tag, lines, asking>>
    BY <1>2 DEF Ends, ServerKeeps
  <2> QED BY <2>1, <2>2, <2>3, SameCommands
<1>3. CASE Refreshes
  <2>1. /\ tag' = tag + 1 /\ Gains(Line("command", "CAPABILITY", tag + 1))
        /\ UNCHANGED <<frames, asking>> /\ call'.reply = NoReply
        /\ "CAPABILITY" = IF call'.stage = "refresh" THEN "CAPABILITY" ELSE call'.op
    BY <1>3 DEF Refreshes, ServerKeeps
  <2> QED BY <2>1, NewCommandOrder
<1>4. CASE Confides
  <2>1. /\ UNCHANGED <<tag, asking, frames>> /\ call'.reply = call.reply /\ call'.op = call.op
        /\ call'.stage = "secret" /\ call.stage = "continuation"
    BY <1>4 DEF Confides, ServerKeeps
  <2>2. NewestTaken' => NewestTaken
    BY <2>1 DEF NewestTaken, Answer
  <2>3. ~Command(Line("secret", "AUTHENTICATE", call.tag))
    BY DEF Command, Line
  <2>4. lines' = lines \/ \E l : Grown(lines, lines', l) /\ ~Command(l)
    BY <1>4, <2>3 DEF Confides, Gains
  <2> QED BY <2>1, <2>2, <2>4, SameCommands
<1>5. CASE Learns
  <2>1. /\ UNCHANGED <<tag, asking, frames, lines>> /\ call'.reply = call.reply /\ CallKeeps
    BY <1>5 DEF Learns, ServerKeeps
  <2>2. NewestTaken' => NewestTaken
    BY <2>1 DEF NewestTaken, Answer
  <2> QED BY <2>1, <2>2, SameCommands DEF CallKeeps
<1>6. CASE Stops
  <2>1. UNCHANGED <<tag, asking, frames, call>>
    BY <1>6 DEF Stops, ServerKeeps
  <2>2. NewestTaken' => NewestTaken
    BY <2>1 DEF NewestTaken, Answer
  <2>3. ~Command(Line("done", "IDLE", handle.tag))
    BY DEF Command, Line
  <2>4. lines' = lines \/ \E l : Grown(lines, lines', l) /\ ~Command(l)
    BY <1>6, <2>3 DEF Stops, Gains
  <2> QED BY <2>1, <2>2, <2>4, SameCommands
<1>7. CASE Dispatches
  <2>1. UNCHANGED <<tag, asking, lines>> /\ CallKeeps /\ Shrunk(frames, frames')
    BY <1>7 DEF Dispatches, Sorts, ServerKeeps
  <2>2. \A i \in DOMAIN frames' : i + 1 \in DOMAIN frames /\ frames'[i] = frames[i + 1]
    BY <2>1 DEF Shrunk
  <2>3. CASE Settles(frames[1])
    <3>1. 1 \in DOMAIN frames /\ Answer(1)
      BY <2>1, <2>3, TypeFacts DEF Settles, Shrunk, Answer
    <3>2. NewestTaken
      BY <3>1 DEF NewestTaken
    <3> QED BY <2>1, <3>2, SameCommands DEF CallKeeps
  <2>4. CASE call'.reply = call.reply
    <3>1. NewestTaken' => NewestTaken
      BY <2>1, <2>2, <2>4 DEF NewestTaken, Answer
    <3> QED BY <2>1, <3>1, SameCommands DEF CallKeeps
  <2> QED BY <1>7, <2>3, <2>4 DEF Dispatches, Streams, Skips
<1>8. CASE Breaks
  BY <1>8 DEF Breaks, CallKeeps, ServerKeeps, OrderInv, LineOrder, TakenInv, NoCommands,
              NewestIsCall, AskingIsCall
<1>9. CASE Refuses \/ Accepts \/ Enumerates
  <2>1. Takes /\ UNCHANGED <<tag, call, asking>> /\ asking = 0
    BY <1>9 DEF Refuses, Accepts, Enumerates, ClientKeeps, Takes
  <2>2. ASSUME NEW i \in DOMAIN frames', frames'[i].kind = "tagged", frames'[i].tag = tag
        PROVE  lines[1].tag = tag \/ \E j \in DOMAIN frames : Answer(j)
    <3>1. ASSUME NEW s, NEW c, Emits(Tagged(lines[1].tag, s, c)) 
          PROVE  lines[1].tag = tag \/ \E j \in DOMAIN frames : Answer(j)
      <4>1. Tagged(lines[1].tag, s, c).tag = lines[1].tag
        BY DEF Tagged
      <4>2. (i \in DOMAIN frames /\ frames'[i] = frames[i]) \/ frames'[i].tag = lines[1].tag
        BY <3>1, <4>1 DEF Emits, Grown
      <4> QED BY <2>2, <4>2 DEF Answer
    <3>2. CASE Enumerates
      <4>1. PICK mid : /\ Grown(frames, mid, List(Phase))
                       /\ Grown(mid, frames', Tagged(lines[1].tag, "ok", "none"))
        BY <3>2 DEF Enumerates
      <4>2. Tagged(lines[1].tag, "ok", "none").tag = lines[1].tag /\ List(Phase).kind = "list"
        BY DEF Tagged, List
      <4>3. \A k \in DOMAIN frames' : k \in DOMAIN mid \/ frames'[k].tag = lines[1].tag
        BY <4>1, <4>2 DEF Grown
      <4>4. \A k \in DOMAIN mid : frames'[k] = mid[k]
        BY <4>1 DEF Grown
      <4>5. \A k \in DOMAIN mid : mid[k].kind = "tagged" => k \in DOMAIN frames /\ mid[k] = frames[k]
        BY <4>1, <4>2 DEF Grown
      <4> QED BY <2>2, <4>3, <4>4, <4>5 DEF Answer
    <3> QED BY <1>9, <3>1, <3>2 DEF Refuses, Accepts
  <2>3. NewestTaken' => NewestTaken \/ lines[1].tag = tag
    BY <2>1, <2>2 DEF NewestTaken, Answer
  <2>4. LineOrder' /\ NewestIsCall' /\ TakenInv'
    BY <2>1, <2>3, TakeOrder DEF TakenInv
  <2>5. AskingIsCall'
    BY <2>1 DEF AskingIsCall
  <2> QED BY <2>4, <2>5 DEF OrderInv
<1>10. CASE Invites
  <2>1. Takes /\ UNCHANGED <<tag, call>> /\ asking' = lines[1].tag /\ Grown(frames, frames', Invite)
        /\ lines[1].op \in {"IDLE", "AUTHENTICATE"}
    BY <1>10 DEF Invites, ClientKeeps, Emits
  <2>2. Invite.kind = "+"
    BY DEF Invite
  <2>3. \A i \in DOMAIN frames' : frames'[i].kind = "tagged" => i \in DOMAIN frames /\ frames'[i] = frames[i]
    BY <2>1, <2>2 DEF Grown
  <2>4. NewestTaken' => NewestTaken \/ lines[1].tag = tag
    BY <2>1, <2>3 DEF NewestTaken, Answer
  <2>5. LineOrder' /\ NewestIsCall' /\ TakenInv'
    BY <2>1, <2>4, TakeOrder DEF TakenInv
  <2>6. AskingIsCall'
    <3>1. 1 \in DOMAIN lines /\ Command(lines[1])
      BY <2>1 DEF Takes, Shrunk
    <3> QED BY <2>1, <3>1 DEF OrderInv, NewestIsCall, AskingIsCall
  <2> QED BY <2>5, <2>6 DEF OrderInv
<1>11. CASE Closes \/ Admits
  <2>1. PICK s, c : Concludes(s, c)
    BY <1>11 DEF Closes, Admits
  <2>2. /\ asking # 0 /\ asking' = 0 /\ UNCHANGED <<tag, call>>
        /\ lines' = lines \/ Shrunk(lines, lines')
        /\ Grown(frames, frames', Tagged(asking, s, c))
    BY <2>1 DEF Concludes, ClientKeeps, Emits
  <2>3. Tagged(asking, s, c).tag = asking
    BY DEF Tagged
  <2>4. NewestTaken' => NewestTaken
    BY <2>2, <2>3 DEF NewestTaken, Answer, Grown
  <2> QED BY <2>2, <2>4, SameCommands
<1>12. CASE Ignores
  <2>1. UNCHANGED <<tag, call, asking, frames>> /\ Shrunk(lines, lines')
    BY <1>12 DEF Ignores, ClientKeeps
  <2>2. NewestTaken' => NewestTaken
    BY <2>1 DEF NewestTaken, Answer
  <2> QED BY <2>1, <2>2, SameCommands
<1>13. CASE Stutters
  <2>1. UNCHANGED <<tag, call, asking, frames, lines>>
    BY <1>13 DEF Stutters, ClientKeeps, ServerKeeps
  <2>2. NewestTaken' => NewestTaken
    BY <2>1 DEF NewestTaken, Answer
  <2> QED BY <2>1, <2>2, SameCommands
<1> QED BY <1>1, <1>2, <1>3, <1>4, <1>5, <1>6, <1>7, <1>8, <1>9, <1>10, <1>11, <1>12, <1>13
        DEF Step

-----------------------------------------------------------------------------
(* Agreement. *)

Quiet == st \in States /\ call.op \notin Changing => server = st
ChangeKnown == call.op \in Changing =>
  st = Left(call.op) /\ server \in {st, Entered(call.op)}
Accepted == \/ call.stage = "refresh" \/ call.reply.status = "ok"
            \/ \E i \in DOMAIN frames : Answer(i) /\ frames[i].status = "ok"
ChangeDone == call.op \in Changing /\ Accepted => server = Entered(call.op)
ChangePending == \A i \in DOMAIN lines :
  st \in States /\ Command(lines[i]) /\ lines[i].op \in Changing =>
    lines[i].tag = tag /\ call.op = lines[i].op /\ server = st
\* A changing command is the last one, and so is one that ends in a secret.
ChangeLast == \A i, j \in DOMAIN lines : i < j /\ Command(lines[j]) =>
  ~(Command(lines[i]) /\ lines[i].op \in Changing)
SecretLast == \A i, j \in DOMAIN lines :
  i < j /\ Command(lines[j]) /\ server = "Unauthenticated" => lines[i].kind # "secret"
SecretOwned == \A i \in DOMAIN lines :
  lines[i].kind = "secret" /\ st = "Unauthenticated" => call.op = "AUTHENTICATE"
AllLegal == \A i \in DOMAIN lines : Command(lines[i]) => Legal(lines[i].op)
StateInv == /\ Quiet /\ ChangeKnown /\ ChangeDone /\ ChangePending /\ ChangeLast
            /\ SecretLast /\ SecretOwned /\ AllLegal

LEMMA Changes ==
  /\ "none" \notin Changing /\ "CAPABILITY" \notin Changing /\ UnauthenticatedOps \subseteq Changing
  /\ "AUTHENTICATE" \in UnauthenticatedOps /\ "IDLE" \notin Changing
  /\ Changing \subseteq AllOps
  /\ \A op \in Changing : /\ Left(op) \in States /\ Entered(op) \in {"Authenticated", "Selected"}
                          /\ Left(op) = "Unauthenticated" <=> op \in UnauthenticatedOps
                          /\ op \in UnauthenticatedOps => Entered(op) = "Authenticated"
  /\ \A op \in {"SELECT", "EXAMINE"} : op \in Changing /\ Left(op) = "Authenticated"
BY DEF Changing, UnauthenticatedOps, Left, Entered, States, AllOps, AuthenticatedOps, SelectedOps

\* What is left of the lines, in the same order, with at most one more that is no
\* command behind them.
Kept(d) == \A i \in DOMAIN lines' :
  \/ i + d \in DOMAIN lines /\ lines'[i] = lines[i + d] /\ i \in Nat
  \/ /\ ~Command(lines'[i]) /\ (lines'[i].kind = "secret" => call.op = "AUTHENTICATE")
     /\ i \in Nat /\ \A j \in DOMAIN lines' : i = j \/ (j < i /\ j \in Nat)
FewerLines == \E d \in {0, 1} : Kept(d)

LEMMA FewerCases ==
  ASSUME TypeInv,
         \/ lines' = lines \/ Shrunk(lines, lines') \/ lines' = <<>>
         \/ \E l : Grown(lines, lines', l) /\ ~Command(l) /\ (l.kind = "secret" => call.op = "AUTHENTICATE")
  PROVE  FewerLines
<1>1. CASE lines' = lines
  <2>1. Kept(0)
    BY <1>1, TypeFacts DEF Kept
  <2> QED BY <2>1 DEF FewerLines
<1>2. CASE Shrunk(lines, lines')
  <2>1. Kept(1)
    BY <1>2 DEF Kept, Shrunk
  <2> QED BY <2>1 DEF FewerLines
<1>3. CASE lines' = <<>>
  <2>1. Kept(0)
    BY <1>3 DEF Kept
  <2> QED BY <2>1 DEF FewerLines
<1>4. ASSUME NEW l, Grown(lines, lines', l), ~Command(l), l.kind = "secret" => call.op = "AUTHENTICATE"
      PROVE FewerLines
  <2>1. Kept(0)
    <3> SUFFICES ASSUME NEW i \in DOMAIN lines', i \notin DOMAIN lines
                 PROVE  /\ lines'[i] = l /\ i \in Nat
                        /\ \A j \in DOMAIN lines' : i = j \/ (j < i /\ j \in Nat)
      BY <1>4, TypeFacts DEF Kept, Grown
    <3> QED BY <1>4, TypeFacts DEF Grown
  <2> QED BY <2>1 DEF FewerLines
<1> QED BY <1>1, <1>2, <1>3, <1>4

\* Steps that neither end a call, nor send a command, nor change the server's state.
LEMMA SameState ==
  ASSUME TypeInv, StateInv, UNCHANGED <<st, server, offer, tag>>, call'.op = call.op,
         FewerLines, call.op \in Changing /\ Accepted' => Accepted
  PROVE  StateInv'
<1>1. PICK d \in {0, 1} : Kept(d)
  BY DEF FewerLines
<1>2. Quiet' /\ ChangeKnown' /\ ChangeDone'
  BY DEF StateInv, Quiet, ChangeKnown, ChangeDone
<1>3. \A i \in DOMAIN lines' : Command(lines'[i]) => i + d \in DOMAIN lines /\ lines'[i] = lines[i + d]
  BY <1>1 DEF Kept
<1>4. ChangePending'
  BY <1>3 DEF StateInv, ChangePending, Command
<1>5. AllLegal'
  BY <1>3 DEF StateInv, AllLegal, Command, Legal, Permitted
<1>6. \A i, j \in DOMAIN lines' : i < j /\ Command(lines'[j]) =>
        /\ i + d \in DOMAIN lines /\ lines'[i] = lines[i + d]
        /\ j + d \in DOMAIN lines /\ lines'[j] = lines[j + d] /\ i + d < j + d
  BY <1>1 DEF Kept
<1>7. ChangeLast'
  BY <1>6 DEF StateInv, ChangeLast, Command
<1>8. SecretLast'
  BY <1>6 DEF StateInv, SecretLast, Command
<1>9. SecretOwned'
  BY <1>1 DEF Kept, StateInv, SecretOwned
<1> QED BY <1>2, <1>4, <1>5, <1>7, <1>8, <1>9 DEF StateInv

LEMMA StateInit == Init => StateInv
<1> SUFFICES ASSUME Init PROVE StateInv
  OBVIOUS
<1>1. call.op = "none" /\ st = server /\ lines = <<>>
  BY ConstantFacts DEF Init
<1> QED BY <1>1, Changes DEF StateInv, Quiet, ChangeKnown, ChangeDone, ChangePending, ChangeLast,
                            SecretLast, SecretOwned, AllLegal

LEMMA AnyPermitted == \A op \in AnyStateOps : Permitted(op)
<1> SUFFICES ASSUME NEW op \in AnyStateOps PROVE Permitted(op)
  OBVIOUS
<1>1. op \notin UnauthenticatedOps /\ op \notin AuthenticatedOps
  BY DEF AnyStateOps, UnauthenticatedOps, AuthenticatedOps
<1> QED BY <1>1 DEF Permitted

LEMMA StartState ==
  ASSUME TypeInv, OrderInv, StateInv, CapabilitiesOfThisPhase, NEW op \in AllOps, Starts(op)
  PROVE  StateInv'
<1>1. /\ call.op = "none" /\ callable(op) /\ supported(op) /\ tag' = tag + 1
      /\ call'.op = op /\ call'.reply = NoReply /\ call'.stage # "refresh"
      /\ UNCHANGED <<st, frames, server, offer>>
  BY DEF Starts, ServerKeeps
<1>2. st \in States /\ server = st
  BY <1>1, Changes DEF callable, StateInv, Quiet
<1>3. op \in Changing => st = Left(op)
  BY <1>1 DEF callable, Changing, Left, UnauthenticatedOps, AuthenticatedOps, SelectedOps
<1>4. \A i \in DOMAIN lines : ~(Command(lines[i]) /\ lines[i].op \in Changing)
  BY <1>1, <1>2, Changes DEF StateInv, ChangePending
<1>5. PICK l : l = Line("command", op, tag + 1)
  OBVIOUS
<1>6. l.kind = "command" /\ l.op = op /\ l.tag = tag + 1
  BY <1>5 DEF Line
<1>7. lines' = lines \/ Grown(lines, lines', l)
  BY <1>5 DEF Starts, Gains
<1>8. \A i \in DOMAIN lines' : (i \in DOMAIN lines /\ lines'[i] = lines[i]) \/ lines'[i] = l
  BY <1>7 DEF Grown
<1>9. \A i, j \in DOMAIN lines' : i < j => i \in DOMAIN lines /\ lines'[i] = lines[i]
  BY <1>7, TypeFacts DEF Grown
<1>10. Quiet' /\ ChangeKnown'
  BY <1>1, <1>2, <1>3 DEF Quiet, ChangeKnown
<1>11. ~Accepted'
  <2>1. \A i \in DOMAIN frames' : ~(frames'[i].kind = "tagged" /\ frames'[i].tag = tag')
    BY <1>1, TypeFacts
  <2> QED BY <1>1, <2>1, ConstantFacts DEF Accepted, Answer
<1>12. ChangeDone'
  BY <1>11 DEF ChangeDone
<1>13. ChangePending'
  BY <1>1, <1>2, <1>4, <1>6, <1>8 DEF ChangePending, Command
<1>14. ChangeLast'
  BY <1>4, <1>9 DEF ChangeLast, Command
<1>15. st = "Unauthenticated" => \A i \in DOMAIN lines : lines[i].kind # "secret"
  BY <1>1 DEF StateInv, SecretOwned
<1>16. SecretLast'
  BY <1>1, <1>2, <1>9, <1>15 DEF SecretLast, Command
<1>17. SecretOwned'
  BY <1>1, <1>6, <1>8, <1>15 DEF SecretOwned
<1>18. Legal(op)
  <2>1. op \in Gated => op \in SelectedOps
    BY DEF Gated, SelectedOps
  <2>2. op \in Gated => op \in offer
    <3> SUFFICES ASSUME op \in Gated PROVE op \in offer
      OBVIOUS
    <3>1. st = "Selected"
      BY <1>1, <2>1 DEF callable
    <3>2. caps = "post"
      BY <3>1 DEF CapabilitiesOfThisPhase
    <3>3. Listed(caps) = offer
      BY <3>2 DEF Listed
    <3> QED BY <1>1, <3>3 DEF supported
  <2>3. Permitted(op)
    <3>1. CASE op \in AnyStateOps
      BY <3>1, AnyPermitted
    <3>2. CASE op \in UnauthenticatedOps
      <4>1. server = "Unauthenticated" /\ op \notin AnyStateOps /\ op \notin AuthenticatedOps
        BY <1>1, <1>2, <3>2 DEF callable, UnauthenticatedOps, AnyStateOps, AuthenticatedOps
      <4> QED BY <3>2, <4>1 DEF Permitted
    <3>3. CASE op \in AuthenticatedOps
      <4>1. server = "Authenticated" /\ op \notin AnyStateOps /\ op \notin UnauthenticatedOps
        BY <1>1, <1>2, <3>3 DEF callable, UnauthenticatedOps, AnyStateOps, AuthenticatedOps
      <4> QED BY <3>3, <4>1 DEF Permitted
    <3>4. CASE op \in SelectedOps
      <4>1. /\ server = "Selected" /\ op \notin AnyStateOps /\ op \notin UnauthenticatedOps
            /\ op \notin AuthenticatedOps
        BY <1>1, <1>2, <3>4 DEF callable, UnauthenticatedOps, AnyStateOps, AuthenticatedOps, SelectedOps
      <4> QED BY <4>1 DEF Permitted
    <3> QED BY <3>1, <3>2, <3>3, <3>4 DEF AllOps
  <2> QED BY <2>2, <2>3 DEF Legal
<1>19. AllLegal'
  BY <1>1, <1>6, <1>8, <1>18 DEF StateInv, AllLegal, Command, Legal, Permitted
<1> QED BY <1>10, <1>12, <1>13, <1>14, <1>16, <1>17, <1>19 DEF StateInv

LEMMA EndState ==
  ASSUME TypeInv, OrderInv, StateInv, Ends
  PROVE  StateInv'
<1>1. /\ call'.op = "none" /\ UNCHANGED <<lines, frames, tag, server, offer>>
      /\ st' = "gone" \/ (st' = st /\ call.op \notin Changing) \/ Succeeds
  BY ConstantFacts DEF Ends, ServerKeeps
<1>2. "gone" \notin States
  BY DEF States
<1>3. Succeeds => /\ call.op \in Changing /\ st' = Entered(call.op) /\ server = Entered(call.op)
                  /\ st \in States /\ \A i \in DOMAIN lines : ~(Command(lines[i]) /\ lines[i].op \in Changing)
  <2> SUFFICES ASSUME Succeeds
               PROVE  /\ call.op \in Changing /\ st' = Entered(call.op) /\ server = Entered(call.op)
                      /\ st \in States
                      /\ \A i \in DOMAIN lines : ~(Command(lines[i]) /\ lines[i].op \in Changing)
    OBVIOUS
  <2>1. /\ call.op \in Changing /\ st' = Entered(call.op)
        /\ call.stage = "refresh" \/ call.reply.status = "ok"
    BY DEF Succeeds
  <2>2. server = Entered(call.op) /\ st \in States
    BY <2>1, Changes DEF StateInv, ChangeDone, Accepted, ChangeKnown
  <2>3. ASSUME NEW i \in DOMAIN lines, Command(lines[i]), lines[i].op \in Changing PROVE FALSE
    <3>1. lines[i].tag = tag
      BY <2>2, <2>3 DEF StateInv, ChangePending
    <3>2. call.stage # "refresh"
      BY <2>1, <2>3, <3>1, Changes DEF OrderInv, NewestIsCall
    <3>3. call.reply # NoReply
      BY <2>1, <3>2, ConstantFacts
    <3> QED BY <2>3, <3>3 DEF OrderInv, TakenInv, NewestTaken, NoCommands
  <2> QED BY <2>1, <2>2, <2>3
<1>4. Quiet'
  BY <1>1, <1>2, <1>3 DEF StateInv, Quiet
<1>5. ChangeKnown' /\ ChangeDone'
  BY <1>1, Changes DEF ChangeKnown, ChangeDone
<1>6. ChangePending'
  BY <1>1, <1>2, <1>3 DEF StateInv, ChangePending
<1>7. ChangeLast' /\ SecretLast' /\ AllLegal'
  BY <1>1 DEF StateInv, ChangeLast, SecretLast, AllLegal, Legal, Permitted
<1>8. SecretOwned'
  <2>1. st' = "Unauthenticated" => st' = st /\ call.op \notin Changing
    BY <1>1, <1>3, Changes
  <2> QED BY <1>1, <2>1, Changes DEF StateInv, SecretOwned
<1> QED BY <1>4, <1>5, <1>6, <1>7, <1>8 DEF StateInv

LEMMA RefreshState ==
  ASSUME TypeInv, OrderInv, StateInv, Refreshes
  PROVE  StateInv'
<1>1. /\ call.op \in UnauthenticatedOps /\ call.reply.status = "ok" /\ tag' = tag + 1
      /\ call'.op = call.op /\ UNCHANGED <<st, server, offer>>
  BY DEF Refreshes, ServerKeeps
<1>2. call.op \in Changing /\ st = Left(call.op) /\ server = Entered(call.op)
      /\ server = "Authenticated"
  BY <1>1, Changes DEF StateInv, ChangeKnown, ChangeDone, Accepted
<1>3. \A i \in DOMAIN lines : ~Command(lines[i])
  BY <1>1, ConstantFacts DEF OrderInv, TakenInv, NewestTaken, NoCommands
<1>4. PICK l : l = Line("command", "CAPABILITY", tag + 1)
  OBVIOUS
<1>5. l.kind = "command" /\ l.op = "CAPABILITY"
  BY <1>4 DEF Line
<1>6. lines' = lines \/ Grown(lines, lines', l)
  BY <1>4 DEF Refreshes, Gains
<1>7. \A i \in DOMAIN lines' : (i \in DOMAIN lines /\ lines'[i] = lines[i]) \/ lines'[i] = l
  BY <1>6 DEF Grown
<1>8. \A i, j \in DOMAIN lines' : i < j => i \in DOMAIN lines /\ lines'[i] = lines[i]
  BY <1>6, TypeFacts DEF Grown
<1>9. Quiet' /\ ChangeKnown' /\ ChangeDone'
  BY <1>1, <1>2 DEF Quiet, ChangeKnown, ChangeDone
<1>10. ChangePending' /\ ChangeLast'
  BY <1>3, <1>5, <1>7, <1>8, Changes DEF ChangePending, ChangeLast, Command
<1>11. SecretLast' /\ SecretOwned'
  BY <1>1, <1>2, <1>5, <1>7 DEF StateInv, SecretLast, SecretOwned
<1>12. "CAPABILITY" \in AnyStateOps /\ "CAPABILITY" \notin Gated
  BY DEF AnyStateOps, Gated
<1>13. Legal("CAPABILITY")
  BY <1>12, AnyPermitted DEF Legal
<1>14. Legal("CAPABILITY")'
  BY <1>1, <1>13 DEF Legal, Permitted
<1>15. AllLegal'
  BY <1>3, <1>5, <1>7, <1>14 DEF AllLegal, Command
<1> QED BY <1>9, <1>10, <1>11, <1>15 DEF StateInv

\* The command the server receives, and what is behind it.
LEMMA TakenCommand ==
  ASSUME TypeInv, OrderInv, StateInv, Takes
  PROVE  /\ 1 \in DOMAIN lines /\ Command(lines[1]) /\ FewerLines
         /\ lines[1].op \in Changing => NoCommands'
         /\ lines[1].op \in Changing /\ st \in States =>
              lines[1].tag = tag /\ call.op = lines[1].op /\ server = st
<1>1. /\ 1 \in DOMAIN lines /\ Command(lines[1]) /\ Shrunk(lines, lines')
      /\ \A i \in DOMAIN lines' : i + 1 \in DOMAIN lines /\ lines'[i] = lines[i + 1] /\ 1 < i + 1
  BY DEF Takes, Shrunk
<1>2. FewerLines
  BY <1>1, FewerCases
<1>3. lines[1].op \in Changing => NoCommands'
  BY <1>1 DEF NoCommands, StateInv, ChangeLast, Command
<1> QED BY <1>1, <1>2, <1>3 DEF StateInv, ChangePending

\* The server's state moves with the last command, or the last secret, received.
LEMMA MovedState ==
  ASSUME TypeInv, StateInv, UNCHANGED <<st, tag, call>>, NoCommands', FewerLines,
         st \in States => call.op \in Changing /\ server' = Entered(call.op)
  PROVE  StateInv'
<1>1. ChangePending' /\ ChangeLast' /\ SecretLast' /\ AllLegal'
  BY DEF NoCommands, ChangePending, ChangeLast, SecretLast, AllLegal, Command
<1>2. Quiet'
  BY DEF Quiet
<1>3. ChangeKnown' /\ ChangeDone'
  BY Changes DEF StateInv, ChangeKnown, ChangeDone
<1>4. SecretOwned'
  BY DEF FewerLines, Kept, StateInv, SecretOwned
<1> QED BY <1>1, <1>2, <1>3, <1>4 DEF StateInv

LEMMA DispatchState ==
  ASSUME TypeInv, StateInv, Dispatches
  PROVE  StateInv'
<1>1. /\ UNCHANGED <<st, server, offer, tag, lines>> /\ CallKeeps /\ 1 \in DOMAIN frames
      /\ \A i \in DOMAIN frames' : i + 1 \in DOMAIN frames /\ frames'[i] = frames[i + 1]
  BY DEF Dispatches, Sorts, ServerKeeps, Shrunk
<1>2. Accepted' => Accepted
  <2>1. CASE Settles(frames[1])
    <3>1. call'.reply.status = frames[1].status /\ Answer(1)
      BY <2>1, TypeFacts DEF Settles, Answer
    <3> QED BY <1>1, <3>1 DEF Accepted, Answer, CallKeeps
  <2>2. CASE call'.reply = call.reply
    BY <1>1, <2>2 DEF Accepted, Answer, CallKeeps
  <2> QED BY <2>1, <2>2 DEF Dispatches, Streams, Skips
<1>3. FewerLines
  BY <1>1, FewerCases
<1> QED BY <1>1, <1>2, <1>3, SameState DEF CallKeeps

LEMMA RefuseState ==
  ASSUME TypeInv, OrderInv, StateInv, Refuses
  PROVE  StateInv'
<1>1. /\ Takes /\ UNCHANGED <<st, call, tag, offer>>
      /\ server' = IF lines[1].op \in {"SELECT", "EXAMINE"} /\ server = "Selected"
                   THEN "Authenticated" ELSE server
      /\ Grown(frames, frames', Tagged(lines[1].tag, "no", "none"))
  BY DEF Refuses, ClientKeeps, Emits
<1>2. Tagged(lines[1].tag, "no", "none").status = "no"
  BY DEF Tagged
<1>3. Accepted' => Accepted
  BY <1>1, <1>2 DEF Accepted, Answer, Grown
<1>4. CASE server' = server
  BY <1>1, <1>3, <1>4, TakenCommand, SameState
<1>5. CASE server' # server
  <2>1. lines[1].op \in {"SELECT", "EXAMINE"} /\ server = "Selected"
    BY <1>1, <1>5
  <2>2. st \notin States
    <3> SUFFICES ASSUME st \in States PROVE FALSE
      OBVIOUS
    <3>1. call.op = lines[1].op /\ server = st
      BY <1>1, <2>1, TakenCommand, Changes
    <3>2. st = Left(call.op) /\ Left(call.op) = "Authenticated"
      BY <2>1, <3>1, Changes DEF StateInv, ChangeKnown
    <3> QED BY <2>1, <3>1, <3>2
  <2> QED BY <1>1, <2>1, <2>2, Changes, TakenCommand, MovedState
<1> QED BY <1>4, <1>5

LEMMA AcceptState ==
  ASSUME TypeInv, OrderInv, StateInv, Accepts
  PROVE  StateInv'
<1>1. /\ Takes /\ UNCHANGED <<st, call, tag, offer>> /\ lines[1].op # "CAPABILITY"
      /\ server' = IF lines[1].op \in Changing THEN Entered(lines[1].op) ELSE server
  BY DEF Accepts, ClientKeeps
<1>2. CASE lines[1].op \in Changing
  BY <1>1, <1>2, TakenCommand, MovedState
<1>3. CASE lines[1].op \notin Changing
  <2>1. PICK c : Grown(frames, frames', Tagged(lines[1].tag, "ok", c))
    BY DEF Accepts, Emits
  <2>2. Tagged(lines[1].tag, "ok", c).tag = lines[1].tag
    BY DEF Tagged
  <2>3. Accepted' => Accepted \/ lines[1].tag = tag
    BY <1>1, <2>1, <2>2 DEF Accepted, Answer, Grown
  <2>4. lines[1].tag = tag => call.op \notin Changing
    BY <1>1, <1>3, TakenCommand, Changes DEF OrderInv, NewestIsCall
  <2>5. server' = server
    BY <1>1, <1>3
  <2> QED BY <1>1, <2>3, <2>4, <2>5, TakenCommand, SameState
<1> QED BY <1>2, <1>3

LEMMA EnumerateState ==
  ASSUME TypeInv, OrderInv, StateInv, Enumerates
  PROVE  StateInv'
<1>1. /\ Takes /\ UNCHANGED <<st, call, tag, offer, server>> /\ lines[1].op = "CAPABILITY"
  BY DEF Enumerates, ClientKeeps
<1>2. PICK mid : /\ Grown(frames, mid, List(Phase))
                 /\ Grown(mid, frames', Tagged(lines[1].tag, "ok", "none"))
  BY DEF Enumerates
<1>3. Tagged(lines[1].tag, "ok", "none").tag = lines[1].tag /\ List(Phase).kind = "list"
  BY DEF Tagged, List
<1>4. \A i \in DOMAIN frames' : 
        (i \in DOMAIN mid /\ frames'[i] = mid[i]) \/ frames'[i].tag = lines[1].tag
  BY <1>2, <1>3 DEF Grown
<1>5. \A i \in DOMAIN mid : mid[i].kind = "tagged" => i \in DOMAIN frames /\ mid[i] = frames[i]
  BY <1>2, <1>3 DEF Grown
<1>6. Accepted' => Accepted \/ lines[1].tag = tag
  BY <1>1, <1>4, <1>5 DEF Accepted, Answer
<1>7. lines[1].tag = tag /\ call.op \in Changing => call.stage = "refresh"
  BY <1>1, TakenCommand, Changes DEF OrderInv, NewestIsCall
<1>8. call.op \in Changing /\ Accepted' => Accepted
  BY <1>6, <1>7 DEF Accepted
<1> QED BY <1>1, <1>8, TakenCommand, SameState

LEMMA ConcludeState ==
  ASSUME TypeInv, OrderInv, StateInv, Closes \/ Admits
  PROVE  StateInv'
<1>1. PICK s, c : Concludes(s, c)
  BY DEF Closes, Admits
<1>2. UNCHANGED <<st, call, tag, offer>> /\ (lines' = lines \/ Shrunk(lines, lines')) /\ asking # 0
  BY <1>1 DEF Concludes, ClientKeeps
<1>3. FewerLines
  BY <1>2, FewerCases
<1>4. CASE Concludes("no", "none") /\ server' = server
  <2>1. Grown(frames, frames', Tagged(asking, "no", "none"))
    BY <1>4 DEF Concludes, Emits
  <2>2. Tagged(asking, "no", "none").status = "no"
    BY DEF Tagged
  <2>3. Accepted' => Accepted
    BY <1>2, <2>1, <2>2 DEF Accepted, Answer, Grown
  <2> QED BY <1>2, <1>3, <1>4, <2>3, SameState
<1>5. CASE Concludes("ok", "none") /\ server' = server /\ server = "Selected"
  <2>1. Grown(frames, frames', Tagged(asking, "ok", "none"))
    BY <1>5 DEF Concludes, Emits
  <2>2. Tagged(asking, "ok", "none").tag = asking
    BY DEF Tagged
  <2>3. Accepted' => Accepted \/ asking = tag
    BY <1>2, <2>1, <2>2 DEF Accepted, Answer, Grown
  <2>4. asking = tag => call.op \notin Changing
    <3> SUFFICES ASSUME asking = tag, call.op \in Changing PROVE FALSE
      OBVIOUS
    <3>1. call.op = "AUTHENTICATE"
      BY <1>2, Changes DEF OrderInv, AskingIsCall
    <3>2. server \in {"Unauthenticated", "Authenticated"}
      BY <3>1, Changes DEF StateInv, ChangeKnown
    <3> QED BY <1>5, <3>2
  <2> QED BY <1>2, <1>3, <1>5, <2>3, <2>4, SameState
<1>6. CASE Admits
  <2>1. /\ Shrunk(lines, lines') /\ lines[1].kind = "secret"
        /\ server = "Unauthenticated" /\ server' = "Authenticated"
    BY <1>6 DEF Admits
  <2>2. /\ 1 \in DOMAIN lines
        /\ \A i \in DOMAIN lines' : i + 1 \in DOMAIN lines /\ lines'[i] = lines[i + 1] /\ 1 < i + 1
    BY <2>1 DEF Shrunk
  <2>3. NoCommands'
    BY <2>1, <2>2 DEF NoCommands, StateInv, SecretLast, Command
  <2>4. ASSUME st \in States PROVE call.op \in Changing /\ server' = Entered(call.op)
    <3>1. CASE call.op \notin Changing
      <4>1. st = "Unauthenticated"
        BY <2>1, <2>4, <3>1 DEF StateInv, Quiet
      <4>2. call.op = "AUTHENTICATE"
        BY <2>1, <2>2, <4>1 DEF StateInv, SecretOwned
      <4> QED BY <3>1, <4>2, Changes
    <3>2. CASE call.op \in Changing
      <4>1. st = Left(call.op) /\ st = "Unauthenticated"
        BY <2>1, <3>2, Changes DEF StateInv, ChangeKnown
      <4> QED BY <2>1, <3>2, <4>1, Changes
    <3> QED BY <3>1, <3>2
  <2> QED BY <1>2, <1>3, <2>3, <2>4, MovedState
<1> QED BY <1>4, <1>5, <1>6 DEF Closes

LEMMA StateStep == TypeInv /\ OrderInv /\ StateInv /\ CapabilitiesOfThisPhase /\ Step => StateInv'
<1> SUFFICES ASSUME TypeInv, OrderInv, StateInv, CapabilitiesOfThisPhase, Step PROVE StateInv'
  OBVIOUS
<1>1. ASSUME NEW op \in AllOps, Starts(op) PROVE StateInv'
  BY <1>1, StartState
<1>2. CASE Ends
  BY <1>2, EndState
<1>3. CASE Refreshes
  BY <1>3, RefreshState
<1>4. CASE Confides
  <2>1. /\ UNCHANGED <<st, server, offer, tag, frames>> /\ call'.op = call.op
        /\ call'.reply = call.reply /\ call'.stage = "secret" /\ call.op = "AUTHENTICATE"
    BY <1>4 DEF Confides, ServerKeeps
  <2>2. Accepted' => Accepted
    BY <2>1 DEF Accepted, Answer
  <2>3. ~Command(Line("secret", "AUTHENTICATE", call.tag))
    BY DEF Command, Line
  <2>4. FewerLines
    BY <1>4, <2>1, <2>3, FewerCases DEF Confides, Gains
  <2> QED BY <2>1, <2>2, <2>4, SameState
<1>5. CASE Learns \/ Breaks
  <2>1. /\ UNCHANGED <<st, server, offer, tag>> /\ CallKeeps
        /\ call'.reply = call.reply \/ call'.reply = Closed
        /\ frames' = frames \/ frames' = <<>>
        /\ lines' = lines \/ lines' = <<>>
    BY <1>5 DEF Learns, Breaks, ServerKeeps
  <2>2. Accepted' => Accepted
    BY <2>1, ConstantFacts DEF Accepted, Answer, CallKeeps
  <2>3. FewerLines
    BY <2>1, FewerCases
  <2> QED BY <2>1, <2>2, <2>3, SameState DEF CallKeeps
<1>6. CASE Stops
  <2>1. UNCHANGED <<st, server, offer, tag, frames, call>>
    BY <1>6 DEF Stops, ServerKeeps
  <2>2. Accepted' => Accepted
    BY <2>1 DEF Accepted, Answer
  <2>3. ~Command(Line("done", "IDLE", handle.tag)) /\ Line("done", "IDLE", handle.tag).kind # "secret"
    BY DEF Command, Line
  <2>4. FewerLines
    BY <1>6, <2>3, FewerCases DEF Stops, Gains
  <2> QED BY <2>1, <2>2, <2>4, SameState
<1>7. CASE Dispatches
  BY <1>7, DispatchState
<1>8. CASE Refuses
  BY <1>8, RefuseState
<1>9. CASE Accepts
  BY <1>9, AcceptState
<1>10. CASE Enumerates
  BY <1>10, EnumerateState
<1>11. CASE Invites
  <2>1. Takes /\ UNCHANGED <<st, server, offer, tag, call>> /\ Grown(frames, frames', Invite)
    BY <1>11 DEF Invites, ClientKeeps, Emits
  <2>2. Invite.kind = "+"
    BY DEF Invite
  <2>3. Accepted' => Accepted
    BY <2>1, <2>2 DEF Accepted, Answer, Grown
  <2> QED BY <2>1, <2>3, TakenCommand, SameState
<1>12. CASE Closes \/ Admits
  BY <1>12, ConcludeState
<1>13. CASE Ignores \/ Stutters
  <2>1. /\ UNCHANGED <<st, server, offer, tag, call, frames>>
        /\ lines' = lines \/ Shrunk(lines, lines')
    BY <1>13 DEF Ignores, Stutters, ClientKeeps, ServerKeeps
  <2>2. Accepted' => Accepted
    BY <2>1 DEF Accepted, Answer
  <2>3. FewerLines
    BY <2>1, FewerCases
  <2> QED BY <2>1, <2>2, <2>3, SameState
<1> QED BY <1>1, <1>2, <1>3, <1>4, <1>5, <1>6, <1>7, <1>8, <1>9, <1>10, <1>11, <1>12, <1>13
        DEF Step

-----------------------------------------------------------------------------
(* Capabilities. *)

PreList(f) == f.kind = "list" /\ f.code = "pre"
Early(f) == f.kind = "+" \/ PreList(f)
Inside == st \in {"Authenticated", "Selected"}
ListsAfter == Inside \/ call.stage = "refresh" =>
  /\ \A i \in DOMAIN frames : ~PreList(frames[i])
  /\ call.stage # "continuation" => \A i \in DOMAIN call.inbox : call.inbox[i] = "post"
LoginDone == call.op \in UnauthenticatedOps /\ (call.stage = "refresh" \/ call.reply.status = "ok")
  => \A i \in DOMAIN frames : ~Early(frames[i])
LoginAnswer == call.op \in UnauthenticatedOps => \A i, j \in DOMAIN frames :
  Answer(i) /\ frames[i].status = "ok" /\ i < j => ~Early(frames[j])
ListSeen == caps = "post" \/ call.inbox # <<>>
RefreshAnswer == call.stage = "refresh" /\ call.reply = NoReply => \A i \in DOMAIN frames :
  Answer(i) /\ frames[i].status = "ok" =>
    ListSeen \/ \E j \in DOMAIN frames : j < i /\ frames[j].kind = "list"
RefreshDone == call.stage = "refresh" /\ call.reply.status = "ok" => ListSeen
CapsInv == /\ ListsAfter /\ LoginDone /\ LoginAnswer /\ RefreshAnswer /\ RefreshDone
           /\ CapabilitiesOfThisPhase

LEMMA CapsInit == Init => CapsInv
<1> SUFFICES ASSUME Init PROVE CapsInv
  OBVIOUS
<1>1. /\ call.op = "none" /\ call.stage = "none" /\ call.inbox = <<>> /\ st = "Unauthenticated"
      /\ frames = <<>>
  BY ConstantFacts DEF Init
<1> QED BY <1>1 DEF CapsInv, ListsAfter, LoginDone, LoginAnswer, RefreshAnswer, RefreshDone, Inside,
                    CapabilitiesOfThisPhase

\* Inside, and once the credentials are accepted, the server is past authentication.
LEMMA ServerInside ==
  ASSUME TypeInv, StateInv
  PROVE  /\ Inside \/ call.stage = "refresh" => server # "Unauthenticated"
         /\ call.op \in UnauthenticatedOps /\ Accepted => server = "Authenticated"
<1>1. call.op \in UnauthenticatedOps /\ Accepted => server = "Authenticated"
  BY Changes DEF StateInv, ChangeDone
<1>2. call.stage = "refresh" => server = "Authenticated"
  BY <1>1 DEF TypeInv, CallOK, Accepted
<1>3. ASSUME Inside PROVE server # "Unauthenticated"
  <2>1. CASE call.op \in Changing
    BY <1>3, <2>1, Changes DEF Inside, StateInv, ChangeKnown
  <2>2. CASE call.op \notin Changing
    BY <1>3, <2>2 DEF Inside, StateInv, Quiet, States
  <2> QED BY <2>1, <2>2
<1> QED BY <1>1, <1>2, <1>3

\* What the server may add to the frames.
Added(i) ==
  LET f == frames'[i] IN
  /\ i \in Nat /\ \A j \in DOMAIN frames : j < i
  /\ Early(f) => ~(call.op \in UnauthenticatedOps /\ Accepted)
  /\ PreList(f) => ~(Inside \/ call.stage = "refresh")
  /\ f.kind = "tagged" /\ f.tag = tag /\ f.status = "ok" =>
       /\ \A j \in DOMAIN frames' : ~(i < j)
       /\ call.stage = "refresh" =>
            \E j \in DOMAIN frames' : j < i /\ frames'[j].kind = "list"

LEMMA ServerCaps ==
  ASSUME TypeInv, CapsInv, ClientKeeps,
         \A i \in DOMAIN frames : i \in DOMAIN frames' /\ frames'[i] = frames[i],
         \A i \in DOMAIN frames' : i \notin DOMAIN frames => Added(i)
  PROVE  CapsInv'
<1>1. UNCHANGED <<st, caps, call, tag>>
  BY DEF ClientKeeps
<1>2. CapabilitiesOfThisPhase' /\ RefreshDone'
  BY <1>1 DEF CapsInv, CapabilitiesOfThisPhase, RefreshDone, ListSeen
<1>3. ListsAfter'
  <2>1. (Inside \/ call.stage = "refresh")' => \A i \in DOMAIN frames' : ~PreList(frames'[i])
    BY <1>1 DEF CapsInv, ListsAfter, Added, Inside
  <2> QED BY <1>1, <2>1 DEF CapsInv, ListsAfter, PreList, Inside
<1>4. LoginDone'
  <2> SUFFICES ASSUME call.op \in UnauthenticatedOps, call.stage = "refresh" \/ call.reply.status = "ok",
                      NEW i \in DOMAIN frames'
               PROVE  ~Early(frames'[i])
    BY <1>1 DEF LoginDone, Early, PreList
  <2> QED BY DEF CapsInv, LoginDone, Added, Accepted
<1>5. LoginAnswer'
  <2> SUFFICES ASSUME call.op \in UnauthenticatedOps, NEW i \in DOMAIN frames', NEW j \in DOMAIN frames',
                      frames'[i].kind = "tagged", frames'[i].tag = tag, frames'[i].status = "ok", i < j
               PROVE  ~Early(frames'[j])
    BY <1>1 DEF LoginAnswer, Answer, Early, PreList
  <2>1. i \in DOMAIN frames
    BY DEF Added
  <2>2. Answer(i) /\ frames[i].status = "ok" /\ Accepted
    BY <2>1 DEF Answer, Accepted
  <2>3. CASE j \in DOMAIN frames
    BY <2>1, <2>2, <2>3 DEF CapsInv, LoginAnswer
  <2>4. CASE j \notin DOMAIN frames
    BY <2>2, <2>4 DEF Added
  <2> QED BY <2>3, <2>4
<1>6. RefreshAnswer'
  <2> SUFFICES ASSUME call.stage = "refresh", call.reply = NoReply, NEW i \in DOMAIN frames',
                      frames'[i].kind = "tagged", frames'[i].tag = tag, frames'[i].status = "ok"
               PROVE  ListSeen \/ \E j \in DOMAIN frames' : j < i /\ frames'[j].kind = "list"
    BY <1>1 DEF RefreshAnswer, Answer, ListSeen
  <2>1. CASE i \in DOMAIN frames
    <3>1. Answer(i) /\ frames[i].status = "ok"
      BY <2>1 DEF Answer
    <3> QED BY <2>1, <3>1 DEF CapsInv, RefreshAnswer
  <2>2. CASE i \notin DOMAIN frames
    BY <2>2 DEF Added
  <2> QED BY <2>1, <2>2
<1> QED BY <1>2, <1>3, <1>4, <1>5, <1>6 DEF CapsInv

\* One more frame, not early, that answers no refresh.
LEMMA AnswerCaps ==
  ASSUME TypeInv, CapsInv, ClientKeeps, NEW t, NEW s, NEW c, Emits(Tagged(t, s, c)),
         t = tag /\ s = "ok" => call.stage # "refresh"
  PROVE  CapsInv'
<1>1. PICK f : f = Tagged(t, s, c)
  OBVIOUS
<1>2. f.kind = "tagged" /\ f.tag = t /\ f.status = s
  BY <1>1 DEF Tagged
<1>3. Grown(frames, frames', f)
  BY <1>1 DEF Emits
<1>4. \A i \in DOMAIN frames : i \in DOMAIN frames' /\ frames'[i] = frames[i] /\ i \in Nat
  BY <1>3 DEF Grown
<1>5. ASSUME NEW i \in DOMAIN frames', i \notin DOMAIN frames PROVE Added(i)
  <2>1. /\ frames'[i] = f /\ i \in Nat
        /\ \A j \in DOMAIN frames' : j = i \/ (j \in DOMAIN frames /\ j < i)
    BY <1>3, <1>5 DEF Grown
  <2>2. \A j \in DOMAIN frames : j < i
    BY <1>4, <1>5, <2>1
  <2>3. \A j \in DOMAIN frames' : ~(i < j)
    BY <1>4, <2>1
  <2> QED BY <1>2, <2>1, <2>2, <2>3 DEF Added, Early, PreList
<1> QED BY <1>4, <1>5, ServerCaps

LEMMA InviteCaps ==
  ASSUME TypeInv, OrderInv, StateInv, CapsInv, Invites
  PROVE  CapsInv'
<1>1. /\ ClientKeeps /\ Grown(frames, frames', Invite) /\ lines[1].op \in {"IDLE", "AUTHENTICATE"}
      /\ Legal(lines[1].op)
  BY DEF Invites, Emits
<1>2. Invite.kind = "+"
  BY DEF Invite
<1>3. server # "Authenticated"
  <2>1. CASE lines[1].op = "IDLE"
    <3>1. /\ "IDLE" \notin AnyStateOps /\ "IDLE" \notin UnauthenticatedOps
          /\ "IDLE" \notin AuthenticatedOps
      BY DEF AnyStateOps, UnauthenticatedOps, AuthenticatedOps
    <3> QED BY <1>1, <2>1, <3>1 DEF Legal, Permitted
  <2>2. CASE lines[1].op = "AUTHENTICATE"
    <3>1. /\ "AUTHENTICATE" \notin AnyStateOps /\ "AUTHENTICATE" \in UnauthenticatedOps
          /\ "AUTHENTICATE" \notin AuthenticatedOps
      BY DEF AnyStateOps, UnauthenticatedOps, AuthenticatedOps
    <3> QED BY <1>1, <2>2, <3>1 DEF Legal, Permitted
  <2> QED BY <1>1, <2>1, <2>2
<1>4. ~(call.op \in UnauthenticatedOps /\ Accepted)
  BY <1>3, ServerInside
<1>5. \A i \in DOMAIN frames : i \in DOMAIN frames' /\ frames'[i] = frames[i] /\ i \in Nat
  BY <1>1 DEF Grown
<1>6. ASSUME NEW i \in DOMAIN frames', i \notin DOMAIN frames PROVE Added(i)
  <2>1. /\ frames'[i] = Invite /\ i \in Nat
        /\ \A j \in DOMAIN frames' : j = i \/ (j \in DOMAIN frames /\ j < i)
    BY <1>1, <1>6 DEF Grown
  <2>2. \A j \in DOMAIN frames : j < i
    BY <1>5, <1>6, <2>1
  <2> QED BY <1>2, <1>4, <2>1, <2>2 DEF Added, Early, PreList
<1> QED BY <1>1, <1>5, <1>6, ServerCaps

LEMMA EnumerateCaps ==
  ASSUME TypeInv, OrderInv, StateInv, CapsInv, Enumerates
  PROVE  CapsInv'
<1>1. PICK mid : /\ Grown(frames, mid, List(Phase))
                 /\ Grown(mid, frames', Tagged(lines[1].tag, "ok", "none"))
                 /\ \E k \in DOMAIN mid : mid[k] = List(Phase)
  BY DEF Enumerates
<1>2. PICK l : l = List(Phase)
  OBVIOUS
<1>3. PICK a : a = Tagged(lines[1].tag, "ok", "none")
  OBVIOUS
<1>4. l.kind = "list" /\ l.code = Phase /\ a.kind = "tagged"
  BY <1>2, <1>3 DEF List, Tagged
<1>5. /\ PreList(l) => ~(Inside \/ call.stage = "refresh")
      /\ Early(l) => ~(call.op \in UnauthenticatedOps /\ Accepted)
  BY <1>4, ServerInside DEF PreList, Early, Phase
<1>6. \A i \in DOMAIN frames : i \in DOMAIN mid /\ mid[i] = frames[i] /\ i \in Nat
  BY <1>1 DEF Grown
<1>7. \A i \in DOMAIN mid : i \in DOMAIN frames' /\ frames'[i] = mid[i] /\ i \in Nat
  BY <1>1 DEF Grown
<1>8. \A i \in DOMAIN mid : i \notin DOMAIN frames =>
        mid[i] = l /\ i \in Nat /\ \A j \in DOMAIN mid : j = i \/ (j \in DOMAIN frames /\ j < i)
  BY <1>1, <1>2 DEF Grown
<1>9. \A i \in DOMAIN frames' : i \notin DOMAIN mid =>
        frames'[i] = a /\ i \in Nat /\ \A j \in DOMAIN frames' : j = i \/ (j \in DOMAIN mid /\ j < i)
  BY <1>1, <1>3 DEF Grown
<1>10. \A i \in DOMAIN frames : i \in DOMAIN frames' /\ frames'[i] = frames[i]
  BY <1>6, <1>7
<1>11. ASSUME NEW i \in DOMAIN mid, i \notin DOMAIN frames PROVE Added(i)
  <2>1. frames'[i] = l /\ i \in Nat /\ \A j \in DOMAIN frames : j < i
    BY <1>6, <1>7, <1>8, <1>11
  <2> QED BY <1>4, <1>5, <2>1 DEF Added
<1>12. ASSUME NEW i \in DOMAIN frames', i \notin DOMAIN mid PROVE Added(i)
  <2>1. /\ frames'[i] = a /\ i \in Nat
        /\ \A j \in DOMAIN frames' : j = i \/ (j \in DOMAIN mid /\ j < i)
    BY <1>9, <1>12
  <2>2. \A j \in DOMAIN mid : j < i /\ j \in Nat /\ j \in DOMAIN frames'
    BY <1>7, <1>12, <2>1
  <2>3. \A j \in DOMAIN frames : j < i
    BY <1>6, <2>2
  <2>4. \A j \in DOMAIN frames' : ~(i < j)
    BY <2>1, <2>2
  <2>5. \E j \in DOMAIN frames' : j < i /\ frames'[j].kind = "list"
    BY <1>1, <1>2, <1>4, <1>7, <2>2
  <2>6. ~Early(frames'[i]) /\ ~PreList(frames'[i])
    BY <1>4, <2>1 DEF Early, PreList
  <2> QED BY <2>1, <2>3, <2>4, <2>5, <2>6 DEF Added
<1>13. ClientKeeps
  BY DEF Enumerates
<1> QED BY <1>10, <1>11, <1>12, <1>13, ServerCaps

LEMMA DispatchCaps ==
  ASSUME TypeInv, CapsInv, Dispatches
  PROVE  CapsInv'
<1>1. /\ UNCHANGED <<st, caps, tag>> /\ 1 \in DOMAIN frames
      /\ call'.op = call.op /\ call'.stage = call.stage /\ call'.tag = call.tag
      /\ \A i \in DOMAIN frames' : i + 1 \in DOMAIN frames /\ frames'[i] = frames[i + 1] /\ i \in Nat /\ i > 0
      /\ \A i \in DOMAIN frames : i \in Nat /\ i > 0 /\ (i # 1 => i - 1 \in DOMAIN frames' /\ frames'[i - 1] = frames[i])
  BY DEF Dispatches, Sorts, Shrunk, CallKeeps
<1>2. CapabilitiesOfThisPhase'
  BY <1>1 DEF CapsInv, CapabilitiesOfThisPhase
<1>3. \A i \in DOMAIN frames' : \A j \in DOMAIN frames' : i < j => i + 1 < j + 1
  BY <1>1
<1>4. LoginAnswer'
  <2> SUFFICES ASSUME call.op \in UnauthenticatedOps, NEW i \in DOMAIN frames', NEW j \in DOMAIN frames',
                      frames'[i].kind = "tagged", frames'[i].tag = tag, frames'[i].status = "ok", i < j
               PROVE  ~Early(frames'[j])
    BY <1>1 DEF LoginAnswer, Answer, Early, PreList
  <2>1. Answer(i + 1) /\ frames[i + 1].status = "ok"
    BY <1>1 DEF Answer
  <2> QED BY <1>1, <1>3, <2>1 DEF CapsInv, LoginAnswer
<1>5. (Inside \/ call.stage = "refresh") => \A i \in DOMAIN frames' : ~PreList(frames'[i])
  BY <1>1 DEF CapsInv, ListsAfter
<1>6. CASE Settles(frames[1])
  <2>1. /\ Answer(1) /\ call.reply = NoReply /\ call'.inbox = call.inbox
        /\ call'.reply.status = frames[1].status
    BY <1>6, TypeFacts DEF Settles, Answer
  <2>2. frames[1].status \in {"ok", "no"}
    BY <1>1, <1>6 DEF Settles, TypeInv, WireOK
  <2>3. ListsAfter'
    BY <1>1, <1>5, <2>1 DEF CapsInv, ListsAfter, Inside, PreList
  <2>4. LoginDone'
    <3> SUFFICES ASSUME call.op \in UnauthenticatedOps,
                        call.stage = "refresh" \/ frames[1].status = "ok", NEW i \in DOMAIN frames'
                 PROVE  ~Early(frames'[i])
      BY <1>1, <2>1 DEF LoginDone, Early, PreList
    <3>1. CASE call.stage = "refresh"
      BY <1>1, <3>1 DEF CapsInv, LoginDone
    <3>2. CASE frames[1].status = "ok"
      <4>1. 1 < i + 1
        BY <1>1
      <4> QED BY <1>1, <2>1, <3>2, <4>1 DEF CapsInv, LoginAnswer
    <3> QED BY <3>1, <3>2
  <2>5. RefreshAnswer'
    BY <2>1, <2>2, ConstantFacts DEF RefreshAnswer
  <2>6. RefreshDone'
    <3> SUFFICES ASSUME call.stage = "refresh", frames[1].status = "ok" PROVE ListSeen
      BY <1>1, <2>1 DEF RefreshDone, ListSeen
    <3>1. \A j \in DOMAIN frames : ~(j < 1)
      BY <1>1
    <3> QED BY <1>1, <2>1, <3>1 DEF CapsInv, RefreshAnswer
  <2> QED BY <1>2, <1>4, <2>3, <2>4, <2>5, <2>6 DEF CapsInv
<1>7. CASE Streams(frames[1])
  <2>1. call.reply = NoReply /\ call'.reply = NoReply /\ call'.inbox # <<>>
    BY <1>7 DEF Streams
  <2>2. LoginDone'
    BY <1>1, <2>1, ConstantFacts DEF CapsInv, LoginDone, Early, PreList
  <2>3. RefreshAnswer' /\ RefreshDone'
    BY <2>1 DEF RefreshAnswer, RefreshDone, ListSeen
  <2>4. ListsAfter'
    <3> SUFFICES ASSUME Inside \/ call.stage = "refresh", call.stage # "continuation",
                        NEW i \in DOMAIN call'.inbox
                 PROVE  call'.inbox[i] = "post"
      BY <1>1, <1>5 DEF ListsAfter, Inside, PreList
    <3>1. frames[1].kind = "list" /\ Grown(call.inbox, call'.inbox, frames[1].code)
      BY <1>7 DEF Streams
    <3>2. frames[1].code = "post"
      BY <1>1, <3>1 DEF CapsInv, ListsAfter, PreList, TypeInv, WireOK, Phases
    <3> QED BY <3>1, <3>2 DEF Grown, CapsInv, ListsAfter
  <2> QED BY <1>2, <1>4, <2>2, <2>3, <2>4 DEF CapsInv
<1>8. CASE Skips(frames[1])
  <2>1. call' = call /\ (frames[1].kind = "list" /\ call.stage = "refresh" => call.reply # NoReply)
    BY <1>8 DEF Skips
  <2>2. ListsAfter' /\ LoginDone'
    BY <1>1, <1>5, <2>1 DEF CapsInv, ListsAfter, LoginDone, Inside, Early, PreList
  <2>3. RefreshDone'
    BY <1>1, <2>1 DEF CapsInv, RefreshDone, ListSeen
  <2>4. RefreshAnswer'
    <3> SUFFICES ASSUME call.stage = "refresh", call.reply = NoReply, NEW i \in DOMAIN frames',
                        frames'[i].kind = "tagged", frames'[i].tag = tag, frames'[i].status = "ok"
                 PROVE  ListSeen \/ \E j \in DOMAIN frames' : j < i /\ frames'[j].kind = "list"
      BY <1>1, <2>1 DEF RefreshAnswer, Answer, ListSeen
    <3>1. Answer(i + 1) /\ frames[i + 1].status = "ok" /\ i + 1 \in DOMAIN frames /\ i \in Nat
      BY <1>1 DEF Answer
    <3>2. ListSeen \/ \E j \in DOMAIN frames : j < i + 1 /\ frames[j].kind = "list"
      BY <3>1 DEF CapsInv, RefreshAnswer
    <3>3. ASSUME NEW j \in DOMAIN frames, j < i + 1, frames[j].kind = "list"
          PROVE  j - 1 \in DOMAIN frames' /\ j - 1 < i /\ frames'[j - 1].kind = "list"
      <4>1. j # 1
        BY <2>1, <3>3
      <4>2. j - 1 \in DOMAIN frames' /\ frames'[j - 1] = frames[j] /\ j \in Nat
        BY <1>1, <4>1
      <4>3. j - 1 < i
        BY <3>1, <3>3, <4>2
      <4> QED BY <3>3, <4>2, <4>3
    <3> QED BY <3>2, <3>3
  <2> QED BY <1>2, <1>4, <2>2, <2>3, <2>4 DEF CapsInv
<1> QED BY <1>6, <1>7, <1>8 DEF Dispatches

LEMMA EndCaps ==
  ASSUME TypeInv, StateInv, CapsInv, Ends
  PROVE  CapsInv'
<1>1. /\ call'.op = "none" /\ call'.stage = "none" /\ call'.inbox = <<>> /\ UNCHANGED frames
      /\ st' = "gone" \/ (st' = st /\ caps' = caps) \/ Succeeds
  BY ConstantFacts DEF Ends
<1>2. "none" \notin UnauthenticatedOps
  BY ConstantFacts
<1>3. LoginDone' /\ LoginAnswer' /\ RefreshAnswer' /\ RefreshDone'
  BY <1>1, <1>2 DEF LoginDone, LoginAnswer, RefreshAnswer, RefreshDone
<1>4. ASSUME Inside' PROVE caps' = "post" /\ \A i \in DOMAIN frames : ~PreList(frames[i])
  <2>1. CASE st' = st /\ caps' = caps
    BY <1>4, <2>1 DEF Inside, CapsInv, ListsAfter, CapabilitiesOfThisPhase
  <2>2. CASE Succeeds
    <3>1. CASE call.op \in UnauthenticatedOps
      <4>1. \A i \in DOMAIN frames : ~PreList(frames[i])
        BY <2>2, <3>1 DEF Succeeds, CapsInv, LoginDone, Early
      <4>2. caps' = "post"
        BY <2>2, <3>1 DEF Succeeds, CapsInv, RefreshDone, ListSeen
      <4> QED BY <4>1, <4>2
    <3>2. CASE call.op \notin UnauthenticatedOps
      <4>1. call.op \in Changing /\ caps' = caps
        BY <2>2, <3>2 DEF Succeeds
      <4>2. st \in {"Authenticated", "Selected"}
        BY <3>2, <4>1, Changes DEF StateInv, ChangeKnown, States
      <4> QED BY <4>1, <4>2 DEF CapsInv, ListsAfter, CapabilitiesOfThisPhase, Inside
    <3> QED BY <3>1, <3>2
  <2>3. st' # "gone"
    BY <1>4 DEF Inside
  <2> QED BY <1>1, <2>1, <2>2, <2>3
<1>5. ListsAfter' /\ CapabilitiesOfThisPhase'
  BY <1>1, <1>4 DEF ListsAfter, CapabilitiesOfThisPhase, Inside, PreList
<1> QED BY <1>3, <1>5 DEF CapsInv

LEMMA CapsStep == TypeInv /\ OrderInv /\ StateInv /\ CapsInv /\ Step => CapsInv'
<1> SUFFICES ASSUME TypeInv, OrderInv, StateInv, CapsInv, Step PROVE CapsInv'
  OBVIOUS
<1>1. ASSUME NEW op \in AllOps, Starts(op) PROVE CapsInv'
  <2>1. /\ UNCHANGED <<st, caps, frames>> /\ tag' = tag + 1 /\ call'.stage # "refresh"
        /\ call'.inbox = <<>> /\ call'.reply.status = "none"
    BY <1>1, ConstantFacts DEF Starts
  <2>2. \A i \in DOMAIN frames' : ~(frames'[i].kind = "tagged" /\ frames'[i].tag = tag')
    BY <2>1, TypeFacts
  <2>3. ListsAfter' /\ CapabilitiesOfThisPhase'
    BY <2>1 DEF CapsInv, ListsAfter, CapabilitiesOfThisPhase, Inside, PreList
  <2> QED BY <2>1, <2>2, <2>3 DEF CapsInv, LoginDone, LoginAnswer, RefreshAnswer, RefreshDone, Answer
<1>2. CASE Ends
  BY <1>2, EndCaps
<1>3. CASE Refreshes
  <2>1. /\ UNCHANGED <<st, caps, frames>> /\ tag' = tag + 1 /\ call.op \in UnauthenticatedOps
        /\ call.reply.status = "ok" /\ call'.inbox = <<>> /\ call'.reply.status = "none"
    BY <1>3, ConstantFacts DEF Refreshes
  <2>2. \A i \in DOMAIN frames' : ~(frames'[i].kind = "tagged" /\ frames'[i].tag = tag')
    BY <2>1, TypeFacts
  <2>3. \A i \in DOMAIN frames' : ~Early(frames'[i])
    BY <2>1 DEF CapsInv, LoginDone
  <2>4. ListsAfter' /\ CapabilitiesOfThisPhase' /\ LoginDone'
    BY <2>1, <2>3 DEF CapsInv, ListsAfter, CapabilitiesOfThisPhase, Inside, PreList, Early, LoginDone
  <2> QED BY <2>1, <2>2, <2>4 DEF CapsInv, LoginAnswer, RefreshAnswer, RefreshDone, Answer
<1>4. CASE Confides
  <2>1. /\ UNCHANGED <<st, caps, frames, tag>> /\ call'.op = call.op /\ call'.stage = "secret"
        /\ call'.inbox = <<>> /\ call'.reply = call.reply
    BY <1>4 DEF Confides
  <2> QED BY <2>1 DEF CapsInv, ListsAfter, CapabilitiesOfThisPhase, Inside, PreList, Early, LoginDone,
                      LoginAnswer, RefreshAnswer, RefreshDone, Answer
<1>5. CASE Learns
  <2>1. /\ UNCHANGED <<st, frames, tag>> /\ call'.op = call.op /\ call'.stage = call.stage
        /\ call'.reply = call.reply /\ caps' = call.inbox[1] /\ 1 \in DOMAIN call.inbox
        /\ call.stage # "continuation"
        /\ \A i \in DOMAIN call'.inbox : i + 1 \in DOMAIN call.inbox /\ call'.inbox[i] = call.inbox[i + 1]
    BY <1>5 DEF Learns, CallKeeps, Shrunk
  <2>2. Inside \/ call.stage = "refresh" => caps' = "post"
    BY <2>1 DEF CapsInv, ListsAfter
  <2>3. ListsAfter' /\ CapabilitiesOfThisPhase'
    BY <2>1, <2>2 DEF CapsInv, ListsAfter, CapabilitiesOfThisPhase, Inside, PreList
  <2>4. LoginDone' /\ LoginAnswer'
    BY <2>1 DEF CapsInv, LoginDone, LoginAnswer, Answer, Early, PreList
  <2>5. RefreshAnswer' /\ RefreshDone'
    BY <2>1, <2>2 DEF RefreshAnswer, RefreshDone, ListSeen
  <2> QED BY <2>3, <2>4, <2>5 DEF CapsInv
<1>6. CASE Stops \/ Stutters \/ Ignores
  <2>1. UNCHANGED <<st, caps, call, frames, tag>>
    BY <1>6 DEF Stops, Stutters, Ignores, ClientKeeps
  <2> QED BY <2>1 DEF CapsInv, ListsAfter, CapabilitiesOfThisPhase, Inside, PreList, Early, LoginDone,
                      LoginAnswer, RefreshAnswer, RefreshDone, Answer, ListSeen
<1>7. CASE Dispatches
  BY <1>7, DispatchCaps
<1>8. CASE Breaks
  <2>1. /\ UNCHANGED <<st, caps, tag>> /\ frames' = <<>> /\ call'.op = call.op
        /\ call'.stage = call.stage /\ call'.inbox = call.inbox
        /\ call'.reply = call.reply \/ call'.reply.status = "closed"
    BY <1>8, ConstantFacts DEF Breaks, CallKeeps
  <2> QED BY <2>1 DEF CapsInv, ListsAfter, CapabilitiesOfThisPhase, Inside, LoginDone,
                      LoginAnswer, RefreshAnswer, RefreshDone, ListSeen
<1>9. CASE Refuses
  BY <1>9, AnswerCaps DEF Refuses
<1>10. CASE Accepts
  <2>1. ClientKeeps /\ \E c : Emits(Tagged(lines[1].tag, "ok", c))
    BY <1>10 DEF Accepts
  <2>2. lines[1].tag = tag => call.stage # "refresh"
    <3>1. 1 \in DOMAIN lines /\ Command(lines[1]) /\ lines[1].op # "CAPABILITY"
      BY <1>10 DEF Accepts, Takes, Shrunk
    <3>2. call.stage = "refresh" => call.op # "none"
      BY ConstantFacts DEF TypeInv, CallOK, UnauthenticatedOps
    <3> QED BY <3>1, <3>2 DEF OrderInv, NewestIsCall
  <2> QED BY <2>1, <2>2, AnswerCaps
<1>11. CASE Enumerates
  BY <1>11, EnumerateCaps
<1>12. CASE Invites
  BY <1>12, InviteCaps
<1>13. CASE Closes \/ Admits
  <2>1. PICK s, c : Concludes(s, c)
    BY <1>13 DEF Closes, Admits
  <2>2. ClientKeeps /\ asking # 0 /\ Emits(Tagged(asking, s, c))
    BY <2>1 DEF Concludes
  <2>3. asking = tag => call.stage # "refresh"
    <3>1. call.stage = "refresh" => call.op # "none"
      BY ConstantFacts DEF TypeInv, CallOK, UnauthenticatedOps
    <3> QED BY <2>2, <3>1 DEF OrderInv, AskingIsCall
  <2> QED BY <2>2, <2>3, AnswerCaps
<1> QED BY <1>1, <1>2, <1>3, <1>4, <1>5, <1>6, <1>7, <1>8, <1>9, <1>10, <1>11, <1>12, <1>13
        DEF Step

LEMMA SessionInvariant == Spec => [](TypeInv /\ OrderInv /\ StateInv /\ CapsInv)
<1> DEFINE I == TypeInv /\ OrderInv /\ StateInv /\ CapsInv
<1>1. Init => I
  BY TypeInit, OrderInit, StateInit, CapsInit
<1>2. CapsInv => CapabilitiesOfThisPhase
  BY DEF CapsInv
<1>3. I /\ [Next]_vars => I'
  BY <1>2, Steps, OrderStep, StateStep, CapsStep
<1> QED BY <1>1, <1>3, PTL DEF Spec

\* Between calls the server is in the state the session's type claims, whatever was
\* refused, timed out, was cancelled or failed on the way (session.rs: a method that
\* changes the state takes the session and returns the next one only on OK).
THEOREM StatesAlwaysAgree == Spec => []StatesAgree
<1>1. TypeInv /\ StateInv => StatesAgree
  BY ConstantFacts, Changes DEF StateInv, Quiet, StatesAgree
<1> QED BY <1>1, SessionInvariant, PTL

\* Whatever the caller does, the server never receives a command it may not take in its
\* state or whose extension it has not listed (session.rs: type-state, capability checks).
THEOREM CommandsAreLegal == Spec => []LegalCommands
<1>1. TypeInv /\ StateInv => LegalCommands
  <2> SUFFICES ASSUME TypeInv, StateInv, lines # <<>>, Head(lines).kind = "command"
               PROVE  Legal(Head(lines).op)
    BY DEF LegalCommands
  <2>1. Head(lines) = lines[1] /\ 1 \in DOMAIN lines
    BY ShrunkTail DEF TypeInv, TypeOK, Shrunk
  <2> QED BY <2>1 DEF StateInv, AllLegal, Command
<1> QED BY <1>1, SessionInvariant, PTL

\* An authenticated session never works from capabilities listed before authentication,
\* even when the answer to an earlier CAPABILITY comes late (session.rs,
\* refresh_capabilities_from_frame).
THEOREM CapabilitiesAreOfThisPhase == Spec => []CapabilitiesOfThisPhase
<1>1. CapsInv => CapabilitiesOfThisPhase
  BY DEF CapsInv
<1> QED BY <1>1, SessionInvariant, PTL

-----------------------------------------------------------------------------
(* Continuations. *)

Plus(i) == frames[i].kind = "+"
LoginPlus == \A i \in DOMAIN frames : Plus(i) /\ st = "Unauthenticated" =>
  call.op = "AUTHENTICATE" /\ (call.stage = "continuation" => call.tag \in invited)
PlusTaken == call.op = "AUTHENTICATE" /\ call.stage = "continuation" /\ call.inbox # <<>>
  => call.tag \in invited
CredentialsInv == LoginPlus /\ PlusTaken /\ CredentialsInvited

LEMMA CredentialsInit == Init => CredentialsInv
<1> SUFFICES ASSUME Init PROVE CredentialsInv
  OBVIOUS
<1>1. call.inbox = <<>> /\ lines = <<>> /\ frames = <<>>
  BY ConstantFacts DEF Init
<1> QED BY <1>1 DEF CredentialsInv, LoginPlus, PlusTaken, CredentialsInvited

\* The server invites only for the command it received, in a state that permits it.
LEMMA InviteState ==
  ASSUME TypeInv, OrderInv, StateInv, Invites
  PROVE  /\ lines[1].op = "IDLE" => server = "Selected"
         /\ lines[1].op = "AUTHENTICATE" => server = "Unauthenticated"
         /\ st = "Unauthenticated" => call.op = "AUTHENTICATE" /\ call.tag = lines[1].tag
<1>1. /\ Takes /\ lines[1].op \in {"IDLE", "AUTHENTICATE"} /\ Legal(lines[1].op)
  BY DEF Invites
<1>2. lines[1].op = "IDLE" => server = "Selected"
  <2>1. /\ "IDLE" \notin AnyStateOps /\ "IDLE" \notin UnauthenticatedOps
        /\ "IDLE" \notin AuthenticatedOps
    BY DEF AnyStateOps, UnauthenticatedOps, AuthenticatedOps
  <2> QED BY <1>1, <2>1 DEF Legal, Permitted
<1>3. lines[1].op = "AUTHENTICATE" => server = "Unauthenticated"
  <2>1. /\ "AUTHENTICATE" \notin AnyStateOps /\ "AUTHENTICATE" \in UnauthenticatedOps
        /\ "AUTHENTICATE" \notin AuthenticatedOps
    BY DEF AnyStateOps, UnauthenticatedOps, AuthenticatedOps
  <2> QED BY <1>1, <2>1 DEF Legal, Permitted
<1>4. ASSUME st = "Unauthenticated" PROVE call.op = "AUTHENTICATE" /\ call.tag = lines[1].tag
  <2>1. st \in States
    BY <1>4 DEF States
  <2>2. server # "Selected"
    <3>1. CASE call.op \in Changing
      BY <1>4, <3>1, Changes DEF StateInv, ChangeKnown
    <3>2. CASE call.op \notin Changing
      BY <1>4, <2>1, <3>2 DEF StateInv, Quiet
    <3> QED BY <3>1, <3>2
  <2>3. lines[1].op = "AUTHENTICATE"
    BY <1>1, <1>2, <2>2
  <2>4. lines[1].tag = tag /\ call.op = lines[1].op
    BY <1>1, <2>1, <2>3, TakenCommand, Changes
  <2> QED BY <2>3, <2>4, TypeFacts
<1> QED BY <1>2, <1>3, <1>4

\* Steps that add no invitation, and no line but an invited secret.
LEMMA SameCredentials ==
  ASSUME TypeInv, CredentialsInv, UNCHANGED invited,
         \A i \in DOMAIN frames' : frames'[i].kind = "+" => \E j \in DOMAIN frames : Plus(j),
         \A i \in DOMAIN lines' : lines'[i].kind = "secret" =>
           \/ \E j \in DOMAIN lines : lines'[i] = lines[j]
           \/ lines'[i].tag \in invited,
         st' = "Unauthenticated" => st = "Unauthenticated" /\ (call'.op = call.op \/ call.op # "AUTHENTICATE"),
         call'.stage = "continuation" /\ call'.op = "AUTHENTICATE" /\
           (call'.inbox # <<>> \/ \E j \in DOMAIN frames : Plus(j)) =>
           call.tag = call'.tag /\ call.tag \in invited
  PROVE  CredentialsInv'
<1>1. LoginPlus'
  <2> SUFFICES ASSUME NEW i \in DOMAIN frames', frames'[i].kind = "+", st' = "Unauthenticated"
               PROVE  /\ call'.op = "AUTHENTICATE"
                      /\ call'.stage = "continuation" => call'.tag \in invited
    BY DEF LoginPlus, Plus
  <2>1. PICK j \in DOMAIN frames : Plus(j)
    OBVIOUS
  <2>2. call.op = "AUTHENTICATE"
    BY <2>1 DEF CredentialsInv, LoginPlus
  <2>3. call'.op = "AUTHENTICATE"
    BY <2>2
  <2> QED BY <2>1, <2>3
<1>2. PlusTaken'
  BY DEF PlusTaken
<1>3. CredentialsInvited'
  BY DEF CredentialsInv, CredentialsInvited
<1> QED BY <1>1, <1>2, <1>3 DEF CredentialsInv

\* Only an invitation adds a "+".
LEMMA NoNewPlus ==
  ASSUME frames' = frames \/ Enumerates \/ \E x, s, c : Emits(Tagged(x, s, c))
  PROVE  \A i \in DOMAIN frames' : frames'[i].kind = "+" => i \in DOMAIN frames /\ frames'[i] = frames[i]
<1>1. CASE Enumerates
  <2>1. PICK mid : /\ Grown(frames, mid, List(Phase))
                   /\ Grown(mid, frames', Tagged(lines[1].tag, "ok", "none"))
    BY <1>1 DEF Enumerates
  <2>2. Tagged(lines[1].tag, "ok", "none").kind = "tagged" /\ List(Phase).kind = "list"
    BY DEF Tagged, List
  <2>3. \A i \in DOMAIN frames' : frames'[i].kind = "+" => i \in DOMAIN mid /\ frames'[i] = mid[i]
    BY <2>1, <2>2 DEF Grown
  <2>4. \A i \in DOMAIN mid : mid[i].kind = "+" => i \in DOMAIN frames /\ mid[i] = frames[i]
    BY <2>1, <2>2 DEF Grown
  <2> QED BY <2>3, <2>4
<1>2. ASSUME NEW x, NEW s, NEW c, Emits(Tagged(x, s, c))
      PROVE  \A i \in DOMAIN frames' : frames'[i].kind = "+" => i \in DOMAIN frames /\ frames'[i] = frames[i]
  <2>1. Tagged(x, s, c).kind = "tagged"
    BY DEF Tagged
  <2> QED BY <1>2, <2>1 DEF Emits, Grown
<1> QED BY <1>1, <1>2

LEMMA CredentialsStep ==
  TypeInv /\ OrderInv /\ StateInv /\ CredentialsInv /\ Step => CredentialsInv'
<1> SUFFICES ASSUME TypeInv, OrderInv, StateInv, CredentialsInv, Step PROVE CredentialsInv'
  OBVIOUS
<1>0. call.stage = "continuation" /\ call.op = "AUTHENTICATE" /\
        (call.inbox # <<>> \/ \E j \in DOMAIN frames : Plus(j)) => call.tag \in invited
  <2>1. call.op = "AUTHENTICATE" => st = "Unauthenticated"
    BY Changes DEF StateInv, ChangeKnown
  <2> QED BY <2>1 DEF CredentialsInv, LoginPlus, PlusTaken
<1>1. ASSUME NEW op \in AllOps, Starts(op) PROVE CredentialsInv'
  <2>1. /\ UNCHANGED <<st, frames, invited>> /\ call.op = "none" /\ call'.inbox = <<>>
        /\ Gains(Line("command", op, tag + 1))
    BY <1>1 DEF Starts, ServerKeeps
  <2>2. Line("command", op, tag + 1).kind # "secret"
    BY DEF Line
  <2>3. \A i \in DOMAIN lines' : lines'[i].kind = "secret" => i \in DOMAIN lines /\ lines'[i] = lines[i]
    BY <2>1, <2>2 DEF Gains, Grown
  <2>4. LoginPlus' /\ PlusTaken'
    BY <2>1 DEF CredentialsInv, LoginPlus, PlusTaken, Plus
  <2> QED BY <2>1, <2>3, <2>4 DEF CredentialsInv, CredentialsInvited
<1>2. CASE Ends
  <2>1. call'.op = "none" /\ UNCHANGED <<frames, lines, invited>>
    BY <1>2, ConstantFacts DEF Ends, ServerKeeps
  <2>2. st' = "Unauthenticated" => st' = st /\ call.op \notin Changing
    BY <1>2, Changes DEF Ends, Succeeds
  <2>3. \A i \in DOMAIN frames' : frames'[i].kind = "+" => \E j \in DOMAIN frames : Plus(j)
    BY <2>1 DEF Plus
  <2> QED BY <2>1, <2>2, <2>3, Changes, SameCredentials
<1>3. CASE Refreshes
  <2>1. /\ UNCHANGED <<st, frames, invited>> /\ call'.op = call.op /\ call'.stage = "refresh"
        /\ Gains(Line("command", "CAPABILITY", tag + 1))
    BY <1>3 DEF Refreshes, ServerKeeps
  <2>2. Line("command", "CAPABILITY", tag + 1).kind # "secret"
    BY DEF Line
  <2>3. \A i \in DOMAIN lines' : lines'[i].kind = "secret" => \E j \in DOMAIN lines : lines'[i] = lines[j]
    BY <2>1, <2>2 DEF Gains, Grown
  <2>4. \A i \in DOMAIN frames' : frames'[i].kind = "+" => \E j \in DOMAIN frames : Plus(j)
    BY <2>1 DEF Plus
  <2> QED BY <2>1, <2>3, <2>4, SameCredentials
<1>4. CASE Confides
  <2>1. /\ UNCHANGED <<st, frames, invited>> /\ call'.op = call.op /\ call'.stage = "secret"
        /\ Gains(Line("secret", "AUTHENTICATE", call.tag))
        /\ call.op = "AUTHENTICATE" /\ call.stage = "continuation" /\ call.inbox # <<>>
    BY <1>4 DEF Confides, ServerKeeps
  <2>2. Line("secret", "AUTHENTICATE", call.tag).tag = call.tag /\ call.tag \in invited
    BY <1>0, <2>1 DEF Line
  <2>3. \A i \in DOMAIN lines' :
          (\E j \in DOMAIN lines : lines'[i] = lines[j]) \/ lines'[i].tag \in invited
    BY <2>1, <2>2 DEF Gains, Grown
  <2>4. \A i \in DOMAIN frames' : frames'[i].kind = "+" => \E j \in DOMAIN frames : Plus(j)
    BY <2>1 DEF Plus
  <2> QED BY <2>1, <2>3, <2>4, SameCredentials
<1>5. CASE Learns
  <2>1. UNCHANGED <<st, frames, invited, lines>> /\ CallKeeps /\ call.stage # "continuation"
    BY <1>5 DEF Learns, ServerKeeps
  <2>2. \A i \in DOMAIN frames' : frames'[i].kind = "+" => \E j \in DOMAIN frames : Plus(j)
    BY <2>1 DEF Plus
  <2> QED BY <2>1, <2>2, SameCredentials DEF CallKeeps
<1>6. CASE Stops
  <2>1. UNCHANGED <<st, frames, invited, call>> /\ Gains(Line("done", "IDLE", handle.tag))
    BY <1>6 DEF Stops, ServerKeeps
  <2>2. Line("done", "IDLE", handle.tag).kind # "secret"
    BY DEF Line
  <2>3. \A i \in DOMAIN lines' : lines'[i].kind = "secret" => \E j \in DOMAIN lines : lines'[i] = lines[j]
    BY <2>1, <2>2 DEF Gains, Grown
  <2>4. \A i \in DOMAIN frames' : frames'[i].kind = "+" => \E j \in DOMAIN frames : Plus(j)
    BY <2>1 DEF Plus
  <2> QED BY <1>0, <2>1, <2>3, <2>4, SameCredentials
<1>7. CASE Dispatches
  <2>1. /\ UNCHANGED <<st, lines, invited>> /\ CallKeeps /\ 1 \in DOMAIN frames
        /\ \A i \in DOMAIN frames' : i + 1 \in DOMAIN frames /\ frames'[i] = frames[i + 1]
    BY <1>7 DEF Dispatches, Sorts, Shrunk, ServerKeeps
  <2>2. \A i \in DOMAIN frames' : frames'[i].kind = "+" => \E j \in DOMAIN frames : Plus(j)
    BY <2>1 DEF Plus
  <2>3. call'.stage = "continuation" /\ call'.inbox # <<>> =>
          call.inbox # <<>> \/ \E j \in DOMAIN frames : Plus(j)
    BY <1>7, <2>1 DEF Dispatches, Settles, Streams, Skips, CallKeeps, Plus
  <2> QED BY <1>0, <2>1, <2>2, <2>3, SameCredentials DEF CallKeeps
<1>8. CASE Breaks
  <2>1. /\ UNCHANGED <<st, invited>> /\ CallKeeps /\ call'.inbox = call.inbox /\ frames' = <<>>
        /\ lines' = <<>>
    BY <1>8 DEF Breaks, ServerKeeps
  <2> QED BY <1>0, <2>1, SameCredentials DEF CallKeeps
<1>9. CASE Refuses \/ Accepts \/ Enumerates \/ Closes \/ Admits \/ Ignores \/ Stutters
  <2>1. UNCHANGED <<st, call, invited>>
    BY <1>9 DEF Refuses, Accepts, Enumerates, Closes, Admits, Concludes, Ignores, Stutters,
                ClientKeeps, ServerKeeps
  <2>2. lines' = lines \/ Shrunk(lines, lines')
    BY <1>9 DEF Refuses, Accepts, Enumerates, Closes, Admits, Concludes, Ignores, Stutters, Takes
  <2>3. \A i \in DOMAIN lines' : lines'[i].kind = "secret" => \E j \in DOMAIN lines : lines'[i] = lines[j]
    BY <2>2 DEF Shrunk
  <2>4. \A i \in DOMAIN frames' : frames'[i].kind = "+" => \E j \in DOMAIN frames : Plus(j)
    <3>1. frames' = frames \/ Enumerates \/ \E x, s, c : Emits(Tagged(x, s, c))
      BY <1>9 DEF Refuses, Accepts, Closes, Admits, Concludes, Ignores, Stutters
    <3> QED BY <3>1, NoNewPlus DEF Plus
  <2> QED BY <1>0, <2>1, <2>3, <2>4, SameCredentials
<1>10. CASE Invites
  <2>1. /\ UNCHANGED <<st, call>> /\ invited' = invited \cup {lines[1].tag} /\ Shrunk(lines, lines')
    BY <1>10 DEF Invites, ClientKeeps, Takes
  <2>2. LoginPlus'
    BY <1>10, <2>1, InviteState DEF LoginPlus
  <2>3. PlusTaken' /\ CredentialsInvited'
    BY <2>1 DEF CredentialsInv, PlusTaken, CredentialsInvited, Shrunk
  <2> QED BY <2>2, <2>3 DEF CredentialsInv
<1> QED BY <1>1, <1>2, <1>3, <1>4, <1>5, <1>6, <1>7, <1>8, <1>9, <1>10 DEF Step

\* The credentials of AUTHENTICATE PLAIN are never on the wire before the server has
\* asked for them (session.rs, await_continuation).
THEOREM CredentialsAreInvited == Spec => []CredentialsInvited
<1>1. CredentialsInv => CredentialsInvited
  BY DEF CredentialsInv
<1>2. Spec => []CredentialsInv
  <2>1. [](TypeInv /\ OrderInv /\ StateInv) /\ Init /\ [][Next]_vars => []CredentialsInv
    BY CredentialsInit, Steps, CredentialsStep, PTL
  <2> QED BY <2>1, SessionInvariant, PTL DEF Spec
<1> QED BY <1>1, <1>2, PTL

OlderGivenUp == call.op # "none" => \A t \in givenUp : t < call.tag
IdlePlus == Inside /\ givenUp = {} => \A i \in DOMAIN frames : Plus(i) =>
  /\ Idling /\ call.tag \in invited /\ call.inbox = <<>> /\ call.reply = NoReply
  /\ \A j \in DOMAIN frames : (Plus(j) => i = j) /\ (Answer(j) => i < j)
IdleSent == Inside /\ givenUp = {} => \A i \in DOMAIN lines :
  Command(lines[i]) /\ lines[i].op = "IDLE" =>
    /\ Idling /\ lines[i].tag = call.tag /\ call.inbox = <<>>
    /\ \A j \in DOMAIN frames : ~Plus(j)
IdlePlusTaken == Idling /\ call.inbox # <<>> =>
  call.tag \in invited \/ \E t \in givenUp : t < call.tag
IdleInv == OlderGivenUp /\ IdlePlus /\ IdleSent /\ IdlePlusTaken /\ IdleHandleInvited

\* Whatever else the server sends joins behind.
LEMMA Behind ==
  ASSUME TypeInv, frames' = frames \/ Enumerates \/ \E x, s, c : Emits(Tagged(x, s, c))
  PROVE  /\ \A i \in DOMAIN frames : i \in DOMAIN frames' /\ frames'[i] = frames[i]
         /\ \A i \in DOMAIN frames : \A j \in DOMAIN frames' : j \notin DOMAIN frames => i < j
<1>1. CASE frames' = frames
  BY <1>1
<1>2. CASE Enumerates
  <2>1. PICK mid : /\ Grown(frames, mid, List(Phase))
                   /\ Grown(mid, frames', Tagged(lines[1].tag, "ok", "none"))
    BY <1>2 DEF Enumerates
  <2>2. \A i \in DOMAIN frames : i \in DOMAIN mid /\ mid[i] = frames[i] /\ i \in Nat
    BY <2>1 DEF Grown
  <2>3. \A i \in DOMAIN mid : i \in DOMAIN frames' /\ frames'[i] = mid[i]
    BY <2>1 DEF Grown
  <2>4. \A i \in DOMAIN frames : \A j \in DOMAIN mid : j \notin DOMAIN frames => i < j
    BY <2>1, <2>2 DEF Grown
  <2>5. \A i \in DOMAIN mid : \A j \in DOMAIN frames' : j \notin DOMAIN mid => i < j
    BY <2>1, <2>3 DEF Grown
  <2> QED BY <2>2, <2>3, <2>4, <2>5
<1>3. ASSUME NEW f, Grown(frames, frames', f)
      PROVE  /\ \A i \in DOMAIN frames : i \in DOMAIN frames' /\ frames'[i] = frames[i]
             /\ \A i \in DOMAIN frames : \A j \in DOMAIN frames' : j \notin DOMAIN frames => i < j
  BY <1>3 DEF Grown
<1> QED BY <1>1, <1>2, <1>3 DEF Emits

LEMMA IdlePermitted == Permitted("IDLE") => server = "Selected"
<1>1. /\ "IDLE" \notin AnyStateOps /\ "IDLE" \notin UnauthenticatedOps
      /\ "IDLE" \notin AuthenticatedOps
  BY DEF AnyStateOps, UnauthenticatedOps, AuthenticatedOps
<1> QED BY <1>1 DEF Permitted

LEMMA IdleInit == Init => IdleInv
<1> SUFFICES ASSUME Init PROVE IdleInv
  OBVIOUS
<1>1. call.op = "none" /\ lines = <<>> /\ frames = <<>> /\ handle.tag = 0
  BY ConstantFacts DEF Init, NoHandle
<1> QED BY <1>1 DEF IdleInv, OlderGivenUp, IdlePlus, IdleSent, IdlePlusTaken, IdleHandleInvited, Idling

LEMMA GivenUpTags ==
  ASSUME TypeInv
  PROVE  \A t \in givenUp : t \in Nat /\ t <= tag
<1>1. givenUp \subseteq 1 .. tag
  BY DEF TypeInv, TypeOK
<1>2. tag \in Nat
  BY TypeFacts
<1>3. \A t \in 1 .. tag : t \in Nat /\ t <= tag
  BY <1>2
<1> QED BY <1>1, <1>3

LEMMA StartIdle ==
  ASSUME TypeInv, StateInv, IdleInv, NEW op \in AllOps, Starts(op)
  PROVE  IdleInv'
<1>1. /\ UNCHANGED <<st, frames, invited, givenUp, handle>> /\ call.op = "none" /\ tag' = tag + 1
      /\ call'.op = op /\ call'.tag = tag + 1 /\ call'.inbox = <<>>
      /\ op = "IDLE" => call'.stage = "continuation"
  BY DEF Starts, ServerKeeps
<1>2. PICK l : l = Line("command", op, tag + 1)
  OBVIOUS
<1>3. l.op = op /\ l.tag = tag + 1
  BY <1>2 DEF Line
<1>4. \A i \in DOMAIN lines' : (i \in DOMAIN lines /\ lines'[i] = lines[i]) \/ lines'[i] = l
  BY <1>2 DEF Starts, Gains, Grown
<1>5. OlderGivenUp'
  <2>1. \A t \in givenUp : t < tag + 1
    BY GivenUpTags, TypeFacts
  <2> QED BY <1>1, <2>1 DEF OlderGivenUp
<1>6. Inside /\ givenUp = {} =>
        /\ \A i \in DOMAIN frames : ~Plus(i)
        /\ \A i \in DOMAIN lines : ~(Command(lines[i]) /\ lines[i].op = "IDLE")
  BY <1>1 DEF IdleInv, IdlePlus, IdleSent, Idling
<1>7. IdlePlus'
  BY <1>1, <1>6 DEF IdlePlus, Plus, Inside
<1>8. IdleSent'
  BY <1>1, <1>3, <1>4, <1>6 DEF IdleSent, Plus, Inside, Command, Idling
<1>9. IdlePlusTaken' /\ IdleHandleInvited'
  BY <1>1 DEF IdleInv, IdlePlusTaken, IdleHandleInvited
<1> QED BY <1>5, <1>7, <1>8, <1>9 DEF IdleInv

LEMMA EndIdle ==
  ASSUME TypeInv, OrderInv, StateInv, CapsInv, IdleInv, Ends
  PROVE  IdleInv'
<1>1. /\ call'.op = "none" /\ UNCHANGED <<frames, lines, invited>>
      /\ givenUp \subseteq givenUp'
      /\ handle' = handle \/ (Idling /\ call.inbox # <<>> /\ handle'.tag = call.tag)
      /\ Idling => givenUp' # {} \/ call.inbox # <<>> \/ call.reply # NoReply
  BY ConstantFacts DEF Ends, ServerKeeps
<1>2. OlderGivenUp' /\ IdlePlusTaken'
  BY <1>1 DEF OlderGivenUp, IdlePlusTaken, Idling
<1>3. IdleHandleInvited'
  BY <1>1 DEF IdleInv, IdleHandleInvited, IdlePlusTaken
<1>4. ASSUME Inside', givenUp' = {}
      PROVE  /\ \A i \in DOMAIN frames : ~Plus(i)
             /\ \A i \in DOMAIN lines : ~(Command(lines[i]) /\ lines[i].op = "IDLE")
  <2>1. givenUp = {}
    BY <1>1, <1>4
  <2>2. CASE Inside
    <3>1. \A i \in DOMAIN frames : ~Plus(i)
      BY <1>1, <1>4, <2>1, <2>2 DEF IdleInv, IdlePlus
    <3>2. ASSUME NEW i \in DOMAIN lines, Command(lines[i]), lines[i].op = "IDLE" PROVE FALSE
      <4>1. Idling /\ call.inbox = <<>>
        BY <2>1, <2>2, <3>2 DEF IdleInv, IdleSent
      <4>2. call.reply # NoReply
        BY <1>1, <1>4, <4>1
      <4> QED BY <3>2, <4>2 DEF OrderInv, TakenInv, NewestTaken, NoCommands
    <3> QED BY <3>1, <3>2
  <2>3. CASE ~Inside
    <3>1. Succeeds
      BY <1>4, <2>3 DEF Ends, Inside
    <3>2. call.op \in UnauthenticatedOps
      <4>1. call.op \in Changing
        BY <3>1 DEF Succeeds
      <4> QED BY <2>3, <4>1, Changes DEF StateInv, ChangeKnown, Inside, States
    <3>3. \A i \in DOMAIN frames : ~Plus(i)
      BY <3>1, <3>2 DEF Succeeds, CapsInv, LoginDone, Early, Plus
    <3>4. server = "Authenticated"
      BY <3>1, <3>2, ServerInside DEF Succeeds, Accepted
    <3>5. \A i \in DOMAIN lines : ~(Command(lines[i]) /\ lines[i].op = "IDLE")
      BY <3>4, IdlePermitted DEF StateInv, AllLegal, Legal
    <3> QED BY <3>3, <3>5
  <2> QED BY <2>2, <2>3
<1>5. IdlePlus' /\ IdleSent'
  BY <1>1, <1>4 DEF IdlePlus, IdleSent, Plus, Inside, Command
<1> QED BY <1>2, <1>3, <1>5 DEF IdleInv

LEMMA DispatchIdle ==
  ASSUME TypeInv, OrderInv, IdleInv, Dispatches
  PROVE  IdleInv'
<1>1. /\ UNCHANGED <<st, lines, invited, givenUp, handle, tag>> /\ 1 \in DOMAIN frames
      /\ call'.op = call.op /\ call'.stage = call.stage /\ call'.tag = call.tag
      /\ \A i \in DOMAIN frames' : i + 1 \in DOMAIN frames /\ frames'[i] = frames[i + 1] /\ i \in Nat /\ i > 0
  BY DEF Dispatches, Sorts, Shrunk, ServerKeeps, CallKeeps
<1>2. OlderGivenUp' /\ IdleHandleInvited'
  BY <1>1 DEF IdleInv, OlderGivenUp, IdleHandleInvited
<1>3. CASE Settles(frames[1])
  <2>1. Answer(1) /\ call'.inbox = call.inbox
    BY <1>3, TypeFacts DEF Settles, Answer
  <2>2. IdlePlusTaken'
    BY <1>1, <2>1 DEF IdleInv, IdlePlusTaken, Idling
  <2>3. ASSUME Inside, givenUp = {}, NEW i \in DOMAIN frames', Plus(i + 1) PROVE FALSE
    <3>1. i + 1 < 1 /\ i \in Nat
      BY <1>1, <2>1, <2>3 DEF IdleInv, IdlePlus
    <3> QED BY <3>1
  <2>4. IdlePlus'
    BY <1>1, <2>3 DEF IdlePlus, Plus, Inside
  <2>5. NoCommands
    BY <1>1, <2>1 DEF OrderInv, TakenInv, NewestTaken
  <2>6. IdleSent'
    BY <1>1, <2>5 DEF IdleSent, NoCommands, Command
  <2> QED BY <1>2, <2>2, <2>4, <2>6 DEF IdleInv
<1>4. CASE Streams(frames[1]) /\ frames[1].kind = "+"
  <2>1. Plus(1) /\ call.stage = "continuation"
    BY <1>4 DEF Streams, Plus
  <2>2. ASSUME Inside, givenUp = {}, NEW i \in DOMAIN frames', Plus(i + 1) PROVE FALSE
    <3>1. i + 1 = 1 /\ i \in Nat /\ i > 0
      BY <1>1, <2>1, <2>2 DEF IdleInv, IdlePlus
    <3> QED BY <3>1
  <2>3. IdlePlus'
    BY <1>1, <2>2 DEF IdlePlus, Plus, Inside
  <2>4. IdleSent'
    BY <1>1, <2>1 DEF IdleInv, IdleSent, Inside, Command
  <2>5. IdlePlusTaken'
    <3> SUFFICES ASSUME Idling PROVE call.tag \in invited \/ \E t \in givenUp : t < call.tag
      BY <1>1 DEF IdlePlusTaken, Idling
    <3>1. Inside /\ call.op # "none"
      BY DEF TypeInv, CallOK, Idling, Inside
    <3>2. CASE givenUp = {}
      BY <1>1, <2>1, <3>1, <3>2 DEF IdleInv, IdlePlus
    <3>3. CASE givenUp # {}
      BY <3>1, <3>3 DEF IdleInv, OlderGivenUp
    <3> QED BY <3>2, <3>3
  <2> QED BY <1>2, <2>3, <2>4, <2>5 DEF IdleInv
<1>5. CASE Streams(frames[1]) /\ frames[1].kind # "+"
  <2>1. call.stage # "continuation"
    BY <1>5 DEF Streams
  <2>2. IdlePlus' /\ IdleSent' /\ IdlePlusTaken'
    BY <1>1, <2>1 DEF IdleInv, IdlePlus, IdleSent, IdlePlusTaken, Inside, Idling, Plus, Command
  <2> QED BY <1>2, <2>2 DEF IdleInv
<1>6. CASE Skips(frames[1])
  <2>1. call' = call
    BY <1>6 DEF Skips
  <2>2. IdleSent' /\ IdlePlusTaken'
    BY <1>1, <2>1 DEF IdleInv, IdleSent, IdlePlusTaken, Inside, Idling, Plus, Command
  <2>3. IdlePlus'
    <3> SUFFICES ASSUME Inside, givenUp = {}, NEW i \in DOMAIN frames', Plus(i + 1)
                 PROVE  /\ Idling /\ call.tag \in invited /\ call.inbox = <<>> /\ call.reply = NoReply
                        /\ \A j \in DOMAIN frames' :
                             (Plus(j + 1) => i = j) /\ (Answer(j + 1) => i < j)
      BY <1>1, <2>1 DEF IdlePlus, Inside, Plus, Answer, Idling
    <3>1. /\ Idling /\ call.tag \in invited /\ call.inbox = <<>> /\ call.reply = NoReply
          /\ \A j \in DOMAIN frames' : (Plus(j + 1) => i + 1 = j + 1) /\ (Answer(j + 1) => i + 1 < j + 1)
      BY <1>1 DEF IdleInv, IdlePlus
    <3>2. \A j \in DOMAIN frames' : (i + 1 = j + 1 => i = j) /\ (i + 1 < j + 1 => i < j)
      BY <1>1
    <3> QED BY <3>1, <3>2
  <2> QED BY <1>2, <2>2, <2>3 DEF IdleInv
<1> QED BY <1>3, <1>4, <1>5, <1>6 DEF Dispatches

\* Frames and lines that say nothing new about IDLE.
LEMMA ServerIdle ==
  ASSUME TypeInv, IdleInv, ClientKeeps, UNCHANGED invited,
         lines' = lines \/ Shrunk(lines, lines'),
         frames' = frames \/ Enumerates \/ \E x, s, c : Emits(Tagged(x, s, c))
  PROVE  IdleInv'
<1>1. UNCHANGED <<st, call, handle, tag, givenUp>>
  BY DEF ClientKeeps
<1>2. \A i \in DOMAIN frames' : frames'[i].kind = "+" => i \in DOMAIN frames /\ frames'[i] = frames[i]
  BY NoNewPlus
<1>3. \A i \in DOMAIN frames : \A j \in DOMAIN frames' : j \notin DOMAIN frames => i < j
  BY Behind
<1>4. \A i \in DOMAIN frames : i \in DOMAIN frames' /\ frames'[i] = frames[i]
  BY Behind
<1>5. \A i \in DOMAIN lines' : \E j \in DOMAIN lines : lines'[i] = lines[j]
  BY DEF Shrunk
<1>6. OlderGivenUp' /\ IdlePlusTaken' /\ IdleHandleInvited'
  BY <1>1 DEF IdleInv, OlderGivenUp, IdlePlusTaken, IdleHandleInvited, Idling
<1>7. IdleSent'
  BY <1>1, <1>2, <1>5 DEF IdleInv, IdleSent, Inside, Plus, Command, Idling
<1>8. IdlePlus'
  <2> SUFFICES ASSUME Inside, givenUp = {}, NEW i \in DOMAIN frames', frames'[i].kind = "+"
               PROVE  /\ Idling /\ call.tag \in invited /\ call.inbox = <<>> /\ call.reply = NoReply
                      /\ \A j \in DOMAIN frames' :
                           /\ frames'[j].kind = "+" => i = j
                           /\ frames'[j].kind = "tagged" /\ frames'[j].tag = tag => i < j
    BY <1>1 DEF IdlePlus, Inside, Plus, Answer, Idling
  <2>1. i \in DOMAIN frames /\ Plus(i)
    BY <1>2 DEF Plus
  <2>2. /\ Idling /\ call.tag \in invited /\ call.inbox = <<>> /\ call.reply = NoReply
        /\ \A j \in DOMAIN frames : (Plus(j) => i = j) /\ (Answer(j) => i < j)
    BY <2>1 DEF IdleInv, IdlePlus
  <2>3. ASSUME NEW j \in DOMAIN frames', frames'[j].kind = "+" PROVE i = j
    BY <1>2, <2>2, <2>3 DEF Plus
  <2>4. ASSUME NEW j \in DOMAIN frames', frames'[j].kind = "tagged", frames'[j].tag = tag PROVE i < j
    BY <1>3, <1>4, <2>1, <2>2, <2>4 DEF Answer
  <2> QED BY <2>2, <2>3, <2>4
<1> QED BY <1>6, <1>7, <1>8 DEF IdleInv

LEMMA InviteIdle ==
  ASSUME TypeInv, OrderInv, StateInv, IdleInv, Invites
  PROVE  IdleInv'
<1>1. /\ UNCHANGED <<st, call, handle, tag, givenUp>> /\ Takes /\ Grown(frames, frames', Invite)
      /\ invited' = invited \cup {lines[1].tag} /\ lines[1].op \in {"IDLE", "AUTHENTICATE"}
  BY DEF Invites, ClientKeeps, Emits
<1>2. OlderGivenUp' /\ IdlePlusTaken' /\ IdleHandleInvited'
  BY <1>1 DEF IdleInv, OlderGivenUp, IdlePlusTaken, IdleHandleInvited, Idling
<1>3. ASSUME Inside, givenUp = {}
      PROVE  /\ Idling /\ lines[1].tag = call.tag /\ call.inbox = <<>> /\ call.reply = NoReply
             /\ \A i \in DOMAIN frames : ~Plus(i) /\ ~Answer(i)
             /\ NoCommands'
  <2>1. 1 \in DOMAIN lines /\ Command(lines[1])
    BY <1>1 DEF Takes, Shrunk
  <2>2. lines[1].op = "IDLE"
    BY <1>1, <1>3, InviteState, ServerInside
  <2>3. /\ Idling /\ lines[1].tag = call.tag /\ call.inbox = <<>>
        /\ \A i \in DOMAIN frames : ~Plus(i)
    BY <1>3, <2>1, <2>2 DEF IdleInv, IdleSent
  <2>4. ~NewestTaken /\ (lines[1].tag = tag => NoCommands')
    BY <1>1, TakeOrder
  <2>5. call.reply = NoReply /\ \A i \in DOMAIN frames : ~Answer(i)
    BY <2>4 DEF NewestTaken
  <2>6. lines[1].tag = tag
    BY <2>3, TypeFacts DEF Idling
  <2> QED BY <2>3, <2>4, <2>5, <2>6
<1>4. IdleSent'
  BY <1>1, <1>3 DEF IdleSent, NoCommands, Inside, Command
<1>5. IdlePlus'
  <2> SUFFICES ASSUME Inside, givenUp = {}, NEW i \in DOMAIN frames', frames'[i].kind = "+"
               PROVE  /\ Idling /\ call.tag \in invited' /\ call.inbox = <<>> /\ call.reply = NoReply
                      /\ \A j \in DOMAIN frames' :
                           /\ frames'[j].kind = "+" => i = j
                           /\ frames'[j].kind = "tagged" /\ frames'[j].tag = tag => i < j
    BY <1>1 DEF IdlePlus, Inside, Plus, Answer, Idling
  <2>1. i \notin DOMAIN frames
    BY <1>1, <1>3 DEF Grown, Plus
  <2>2. \A j \in DOMAIN frames' : j = i \/ (j \in DOMAIN frames /\ frames'[j] = frames[j])
    BY <1>1, <2>1 DEF Grown
  <2>3. ASSUME NEW j \in DOMAIN frames', frames'[j].kind = "+" PROVE i = j
    BY <1>3, <2>2, <2>3 DEF Plus
  <2>4. ASSUME NEW j \in DOMAIN frames', frames'[j].kind = "tagged", frames'[j].tag = tag PROVE FALSE
    BY <1>3, <2>2, <2>4 DEF Answer
  <2> QED BY <1>1, <1>3, <2>3, <2>4
<1> QED BY <1>2, <1>4, <1>5 DEF IdleInv

LEMMA IdleStep ==
  TypeInv /\ OrderInv /\ StateInv /\ CapsInv /\ IdleInv /\ Step => IdleInv'
<1> SUFFICES ASSUME TypeInv, OrderInv, StateInv, CapsInv, IdleInv, Step PROVE IdleInv'
  OBVIOUS
<1>1. ASSUME NEW op \in AllOps, Starts(op) PROVE IdleInv'
  BY <1>1, StartIdle
<1>2. CASE Ends
  BY <1>2, EndIdle
<1>3. CASE Refreshes
  <2>1. /\ UNCHANGED <<st, invited, givenUp, handle>> /\ call.op \in UnauthenticatedOps
        /\ tag' = tag + 1 /\ call'.op = call.op /\ call'.tag = tag + 1
    BY <1>3 DEF Refreshes, ServerKeeps
  <2>2. st = "Unauthenticated" /\ call.op # "IDLE"
    BY <2>1, Changes DEF StateInv, ChangeKnown
  <2>3. OlderGivenUp'
    <3>1. \A t \in givenUp : t < tag + 1
      BY GivenUpTags, TypeFacts
    <3> QED BY <2>1, <3>1 DEF OlderGivenUp
  <2>4. IdlePlus' /\ IdleSent' /\ IdlePlusTaken' /\ IdleHandleInvited'
    BY <2>1, <2>2 DEF IdleInv, IdlePlus, IdleSent, IdlePlusTaken, IdleHandleInvited, Inside, Idling
  <2> QED BY <2>3, <2>4 DEF IdleInv
<1>4. CASE Confides
  <2>1. /\ UNCHANGED <<st, invited, givenUp, handle>> /\ call.op = "AUTHENTICATE"
        /\ call'.op = call.op /\ call'.tag = call.tag
    BY <1>4 DEF Confides, ServerKeeps
  <2>2. st = "Unauthenticated"
    BY <2>1, Changes DEF StateInv, ChangeKnown
  <2> QED BY <2>1, <2>2 DEF IdleInv, OlderGivenUp, IdlePlus, IdleSent, IdlePlusTaken,
                            IdleHandleInvited, Inside, Idling
<1>5. CASE Learns
  <2>1. /\ UNCHANGED <<st, invited, givenUp, handle, lines, frames>> /\ call.stage # "continuation"
        /\ call'.op = call.op /\ call'.tag = call.tag /\ call'.stage = call.stage
    BY <1>5 DEF Learns, ServerKeeps, CallKeeps
  <2> QED BY <2>1 DEF IdleInv, OlderGivenUp, IdlePlus, IdleSent, IdlePlusTaken,
                      IdleHandleInvited, Inside, Idling, Plus, Command
<1>6. CASE Stops
  <2>1. /\ UNCHANGED <<st, caps, call, tag, invited, givenUp, frames>>
        /\ handle'.tag = 0 \/ handle'.tag = handle.tag
        /\ Gains(Line("done", "IDLE", handle.tag))
    BY <1>6 DEF Stops, ServerKeeps
  <2>2. ~Command(Line("done", "IDLE", handle.tag))
    BY DEF Command, Line
  <2>3. \A i \in DOMAIN lines' : Command(lines'[i]) => i \in DOMAIN lines /\ lines'[i] = lines[i]
    BY <2>1, <2>2 DEF Gains, Grown
  <2>4. IdleSent'
    BY <2>1, <2>3 DEF IdleInv, IdleSent, Inside, Command, Plus, Idling
  <2>5. OlderGivenUp' /\ IdlePlus' /\ IdlePlusTaken'
    BY <2>1 DEF IdleInv, OlderGivenUp, IdlePlus, IdlePlusTaken, Inside, Idling, Plus, Answer
  <2>6. IdleHandleInvited'
    BY <2>1 DEF IdleInv, IdleHandleInvited
  <2> QED BY <2>4, <2>5, <2>6 DEF IdleInv
<1>7. CASE Dispatches
  BY <1>7, DispatchIdle
<1>8. CASE Breaks
  <2>1. /\ UNCHANGED <<st, invited, givenUp, handle>> /\ frames' = <<>> /\ lines' = <<>>
        /\ call'.op = call.op /\ call'.tag = call.tag /\ call'.stage = call.stage
        /\ call'.inbox = call.inbox
    BY <1>8 DEF Breaks, ServerKeeps, CallKeeps
  <2> QED BY <2>1 DEF IdleInv, OlderGivenUp, IdlePlus, IdleSent, IdlePlusTaken,
                      IdleHandleInvited, Inside, Idling
<1>9. CASE Refuses \/ Accepts \/ Enumerates \/ Closes \/ Admits \/ Ignores \/ Stutters
  <2>1. ClientKeeps /\ UNCHANGED invited
    BY <1>9 DEF Refuses, Accepts, Enumerates, Closes, Admits, Concludes, Ignores, Stutters, ServerKeeps
  <2>2. lines' = lines \/ Shrunk(lines, lines')
    BY <1>9 DEF Refuses, Accepts, Enumerates, Closes, Admits, Concludes, Ignores, Stutters, Takes
  <2>3. frames' = frames \/ Enumerates \/ \E x, s, c : Emits(Tagged(x, s, c))
    BY <1>9 DEF Refuses, Accepts, Closes, Admits, Concludes, Ignores, Stutters
  <2> QED BY <2>1, <2>2, <2>3, ServerIdle
<1>10. CASE Invites
  BY <1>10, InviteIdle
<1> QED BY <1>1, <1>2, <1>3, <1>4, <1>5, <1>6, <1>7, <1>8, <1>9, <1>10 DEF Step

\* Every handle that idle() returns stands for an IDLE the server has accepted, unless an
\* earlier IDLE was given up before its "+" came (session.rs, idle and
\* await_continuation): the given-up IDLE is the only way to a handle that stands for
\* nothing.
THEOREM HandlesAreInvited == Spec => []IdleHandleInvited
<1>1. IdleInv => IdleHandleInvited
  BY DEF IdleInv
<1>2. Spec => []IdleInv
  <2>1. [](TypeInv /\ OrderInv /\ StateInv /\ CapsInv) /\ Init /\ [][Next]_vars => []IdleInv
    BY IdleInit, Steps, IdleStep, PTL
  <2> QED BY <2>1, SessionInvariant, PTL DEF Spec
<1> QED BY <1>1, <1>2, PTL

=============================================================================
