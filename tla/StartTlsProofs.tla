--------------------------- MODULE StartTlsProofs ---------------------------
(* Proofs about StartTls, for a buffer of any size and any amount of        *)
(* cleartext.                                                               *)
EXTENDS StartTls, SequenceTheorems, TLAPS

\* Taking the first element of a queue.
LEMMA TakeFirst ==
  ASSUME NEW S, NEW s \in Seq(S), s # <<>>
  PROVE  /\ Len(s) \in Nat /\ Len(s) > 0 /\ 1 \in DOMAIN s
         /\ Head(s) \in S /\ Head(s) = s[1]
         /\ Tail(s) \in Seq(S) /\ Len(Tail(s)) = Len(s) - 1
         /\ \A i \in 1 .. (Len(s) - 1) : Tail(s)[i] = s[i + 1]
<1>1. Len(s) \in Nat /\ Len(s) > 0 /\ DOMAIN s = 1 .. Len(s)
  BY LenProperties, EmptySeq
<1>2. /\ Head(s) \in S /\ Tail(s) \in Seq(S) /\ Len(Tail(s)) = Len(s) - 1
      /\ \A i \in 1 .. Len(Tail(s)) : Tail(s)[i] = s[i + 1]
  BY HeadTailProperties
<1>3. Head(s) = s[1]
  OBVIOUS
<1> QED BY <1>1, <1>2, <1>3

\* Cutting a queue in two.
LEMMA CutQueue ==
  ASSUME NEW S, NEW s \in Seq(S), NEW n \in 1 .. Len(s)
  PROVE  /\ SubSeq(s, 1, n) \in Seq(S) /\ Len(SubSeq(s, 1, n)) = n
         /\ SubSeq(s, n + 1, Len(s)) \in Seq(S)
         /\ Len(SubSeq(s, n + 1, Len(s))) = Len(s) - n
<1>1. Len(s) \in Nat /\ DOMAIN s = 1 .. Len(s) /\ \A i \in 1 .. Len(s) : s[i] \in S
  BY LenProperties, ElementOfSeq
<1>2. SubSeq(s, 1, n) \in Seq(S) /\ Len(SubSeq(s, 1, n)) = n
  BY <1>1, SubSeqProperties
<1>3. /\ SubSeq(s, n + 1, Len(s)) \in Seq(S)
      /\ Len(SubSeq(s, n + 1, Len(s))) = Len(s) - n
  <2>1. n + 1 \in Int /\ Len(s) \in Int /\ \A i \in (n + 1) .. Len(s) : s[i] \in S
    BY <1>1
  <2>2. /\ SubSeq(s, n + 1, Len(s)) \in Seq(S)
        /\ Len(SubSeq(s, n + 1, Len(s))) =
             IF n + 1 <= Len(s) THEN Len(s) - (n + 1) + 1 ELSE 0
    BY <2>1, SubSeqProperties
  <2>3. (IF n + 1 <= Len(s) THEN Len(s) - (n + 1) + 1 ELSE 0) = Len(s) - n
    <3>1. \A m \in Nat : \A k \in 1 .. m :
            (IF k + 1 <= m THEN m - (k + 1) + 1 ELSE 0) = m - k
      OBVIOUS
    <3> QED BY <1>1, <3>1
  <2> QED BY <2>2, <2>3
<1> QED BY <1>2, <1>3

-----------------------------------------------------------------------------
(* Types. *)

\* The bound on the cleartext buffer is kept by the reads and the splits.
LEMMA ClearNext ==
  ASSUME TypeOK, [Next]_vars
  PROVE  /\ clear' \in Seq(Units) /\ buf' \in Seq(Units)
         /\ Len(buf') <= MAX_PRE_TLS_FRAME
         /\ starttls' \in BOOLEAN /\ stray' \in BOOLEAN
<1> USE SizesAssumption DEF TypeOK
<1>0. Len(buf) \in Nat /\ Len(clear) \in Nat
  BY LenProperties
<1>1. CASE read_more
  <2>1. PICK n \in 1 .. Len(clear) :
          /\ Len(buf) + n <= MAX_PRE_TLS_FRAME
          /\ buf' = buf \o SubSeq(clear, 1, n)
          /\ clear' = SubSeq(clear, n + 1, Len(clear))
    BY <1>1 DEF read_more
  <2>2. /\ SubSeq(clear, 1, n) \in Seq(Units) /\ Len(SubSeq(clear, 1, n)) = n
        /\ clear' \in Seq(Units)
    BY <2>1, CutQueue
  <2>3. buf' \in Seq(Units) /\ Len(buf') = Len(buf) + n
    BY <2>1, <2>2, ConcatProperties
  <2> QED BY <1>1, <2>1, <2>2, <2>3 DEF read_more
<1>2. ASSUME NEW n \in 1 .. MAX_PRE_TLS_FRAME,
             take_greeting(n) \/ take_capability(n) \/ take_starttls(n)
      PROVE  /\ clear' \in Seq(Units) /\ buf' \in Seq(Units)
             /\ Len(buf') <= MAX_PRE_TLS_FRAME
             /\ starttls' \in BOOLEAN /\ stray' \in BOOLEAN
  <2>1. Complete(n) /\ Split(n) /\ UNCHANGED clear
    BY <1>2 DEF take_greeting, take_capability, take_starttls
  <2>2. n \in 1 .. Len(buf)
    BY <2>1, LenProperties DEF Complete
  <2>3. buf' \in Seq(Units) /\ Len(buf') = Len(buf) - n
    BY <2>1, <2>2, CutQueue DEF Split
  <2>4. starttls' \in BOOLEAN
    BY <1>2 DEF take_greeting, take_capability, take_starttls
  <2>5. stray' \in BOOLEAN
    BY <1>2 DEF take_greeting, take_capability, take_starttls
  <2> QED BY <1>0, <2>1, <2>2, <2>3, <2>4, <2>5
<1>3. ASSUME NEW u \in Units, server_clear(u)
      PROVE  /\ clear' \in Seq(Units) /\ buf' \in Seq(Units)
             /\ Len(buf') <= MAX_PRE_TLS_FRAME
             /\ starttls' \in BOOLEAN /\ stray' \in BOOLEAN
  <2>1. Append(clear, u) \in Seq(Units)
    BY AppendProperties
  <2> QED BY <1>3, <2>1 DEF server_clear
<1>4. CASE UNCHANGED clearVars
  BY <1>4 DEF clearVars
<1> QED
  BY <1>1, <1>2, <1>3, <1>4
     DEF Next, Caller, ReadLoop, Server, vars, clearVars, connect_tcp, frame_too_large, handshake,
         subscribe, first_event, no_event, send_capability, dispatch_event, exchange,
         fail, server_greeting, server_answer

LEMMA TlsNext ==
  ASSUME TypeOK, [Next]_vars
  PROVE  /\ tls' \in Seq(Frames) /\ event' \in Seq(Frames)
         /\ greeted' \in BOOLEAN /\ asked' \in BOOLEAN
         /\ listed' \in Nat /\ caps' \in Nat
<1> DEFINE Goal == /\ tls' \in Seq(Frames) /\ event' \in Seq(Frames)
                   /\ greeted' \in BOOLEAN /\ asked' \in BOOLEAN
                   /\ listed' \in Nat /\ caps' \in Nat
<1> USE DEF TypeOK
<1>1. CASE dispatch_event
  <2>1. Head(tls) \in Frames /\ Tail(tls) \in Seq(Frames)
    BY <1>1, TakeFirst DEF dispatch_event
  <2>2. Append(event, Head(tls)) \in Seq(Frames)
    BY <2>1, AppendProperties
  <2> QED BY <1>1, <2>1, <2>2 DEF dispatch_event
<1>2. CASE first_event
  <2>1. Head(event) \in Frames /\ Tail(event) \in Seq(Frames)
    BY <1>2, TakeFirst DEF first_event
  <2>2. Head(event).v \in Nat
    BY <2>1 DEF Frames
  <2> QED BY <1>2, <2>1, <2>2 DEF first_event, Capabilities
<1>3. CASE exchange
  <2>1. Head(tls) \in Frames /\ Tail(tls) \in Seq(Frames)
    BY <1>3, TakeFirst DEF exchange
  <2>2. Head(tls).v \in Nat
    BY <2>1 DEF Frames
  <2> QED BY <1>3, <2>1, <2>2 DEF exchange, Capabilities
<1>4. ASSUME NEW v \in {0, 1}, server_greeting(v) PROVE Goal
  <2>1. [kind |-> "greeting", v |-> v] \in Frames
    BY DEF Frames
  <2>2. Append(tls, [kind |-> "greeting", v |-> v]) \in Seq(Frames)
    BY <2>1, AppendProperties
  <2> QED BY <1>4, <2>2 DEF server_greeting, Say
<1>5. CASE server_answer
  <2>1. PICK v \in {0, listed + 2}, k \in {"ok", "no"} :
       /\ tls' = tls \o << [kind |-> "data", v |-> listed + 1], [kind |-> k, v |-> v] >>
       /\ listed' = IF v # 0 THEN v ELSE listed + 1
    BY <1>5 DEF server_answer
  <2>2. << [kind |-> "data", v |-> listed + 1], [kind |-> k, v |-> v] >> \in Seq(Frames)
    BY DEF Frames
  <2>3. tls' \in Seq(Frames)
    BY <2>1, <2>2, ConcatProperties
  <2>4. listed' \in Nat
    BY <2>1
  <2>5. asked' = FALSE /\ UNCHANGED <<event, greeted, caps>>
    BY <1>5 DEF server_answer
  <2> QED BY <2>3, <2>4, <2>5
<1>6. CASE send_capability
  BY <1>6 DEF send_capability
<1>7. CASE UNCHANGED tlsVars
  BY <1>7 DEF tlsVars
<1> QED
  BY <1>1, <1>2, <1>3, <1>4, <1>5, <1>6, <1>7
     DEF Next, Caller, ReadLoop, Server, vars, tlsVars, connect_tcp, read_more, frame_too_large,
         take_greeting, take_capability, take_starttls, handshake, subscribe,
         no_event, fail, server_clear

LEMMA PlaceNext ==
  ASSUME TypeOK, [Next]_vars
  PROVE  /\ entry' \in Entries
         /\ pc' \in {"connect", "handshake"} \cup Cleartext \cup Inside \cup Ended
<1> USE DEF TypeOK, Goto
<1>1. CASE Caller
  <2>1. ASSUME NEW n \in 1 .. MAX_PRE_TLS_FRAME,
               take_greeting(n) \/ take_capability(n) \/ take_starttls(n)
        PROVE  entry' = entry /\ pc' \in {"handshake"} \cup Cleartext \cup Ended
    BY <2>1 DEF take_greeting, take_capability, take_starttls, Cleartext, Ended
  <2>2. ASSUME connect_tcp \/ read_more \/ frame_too_large \/ handshake \/ subscribe
                 \/ first_event \/ no_event \/ send_capability
        PROVE  /\ entry' = entry
               /\ pc' \in {pc, "handshake"} \cup Cleartext \cup Inside \cup Ended
    BY <2>2 DEF connect_tcp, read_more, frame_too_large, handshake, subscribe,
       first_event, no_event, send_capability, Cleartext, Inside, Ended
  <2> QED BY <1>1, <2>1, <2>2 DEF Caller
<1>2. CASE ReadLoop \/ fail
  BY <1>2 DEF ReadLoop, dispatch_event, exchange, fail, Inside, Ended
<1>3. CASE Server \/ UNCHANGED vars
  BY <1>3 DEF Server, server_clear, server_greeting, server_answer, vars
<1> QED BY <1>1, <1>2, <1>3 DEF Next

LEMMA TypeInit == Init => TypeOK
<1> SUFFICES ASSUME Init PROVE TypeOK
  OBVIOUS
<1>1. \A S : <<>> \in Seq(S)
  BY EmptySeq
<1>2. Len(buf) = 0
  BY DEF Init
<1>3. pc \in {"connect", "handshake"} \cup Cleartext \cup Inside \cup Ended
  BY DEF Init
<1>4. Len(buf) <= MAX_PRE_TLS_FRAME
  BY <1>2, SizesAssumption
<1>5. clear \in Seq(Units) /\ buf \in Seq(Units) /\ tls \in Seq(Frames) /\ event \in Seq(Frames)
  BY <1>1 DEF Init
<1>6. entry \in Entries /\ listed \in Nat /\ caps \in Nat
  BY DEF Init
<1>7. starttls \in BOOLEAN /\ stray \in BOOLEAN /\ greeted \in BOOLEAN /\ asked \in BOOLEAN
  BY DEF Init
<1> QED BY <1>3, <1>4, <1>5, <1>6, <1>7 DEF TypeOK

LEMMA TypeNext == TypeOK /\ [Next]_vars => TypeOK'
<1> SUFFICES ASSUME TypeOK, [Next]_vars PROVE TypeOK'
  OBVIOUS
<1> QED BY ClearNext, TlsNext, PlaceNext DEF TypeOK

\* The cleartext buffer never exceeds MAX_PRE_TLS_FRAME, however the server cuts
\* its responses, for every size of the ceiling (lib.rs, read_one_frame).
THEOREM TypeCorrect == Spec => []TypeOK
  BY TypeInit, TypeNext, PTL DEF Spec

-----------------------------------------------------------------------------
(* The upgrade. *)

\* Cleartext behind the accepted OK is still in the socket where rustls will
\* read it, or the attempt is over.
UpgradeInv ==
  /\ pc \in {"connect"} \cup Cleartext => ~stray
  /\ pc = "handshake" => (stray => clear # <<>>)
  /\ CleanUpgrade

LEMMA UpgradeNext == TypeOK /\ UpgradeInv /\ [Next]_vars => UpgradeInv'
<1> SUFFICES ASSUME TypeOK, UpgradeInv, [Next]_vars PROVE UpgradeInv'
  OBVIOUS
<1> USE DEF UpgradeInv, CleanUpgrade, Cleartext, Inside, Goto
<1>1. CASE Caller
  <2>1. CASE connect_tcp \/ handshake \/ frame_too_large \/ read_more
    BY <2>1 DEF connect_tcp, handshake, frame_too_large, read_more, clearVars
  <2>2. CASE subscribe \/ first_event \/ no_event \/ send_capability
    BY <2>2 DEF subscribe, first_event, no_event, send_capability, clearVars
  <2>3. ASSUME NEW n \in 1 .. MAX_PRE_TLS_FRAME, take_greeting(n) \/ take_capability(n)
        PROVE  UpgradeInv'
    <3>1. /\ pc \in Cleartext /\ stray' = stray
          /\ pc' \in {"capability", "starttls", "failed"}
      BY <2>3 DEF take_greeting, take_capability
    <3> QED BY <3>1
  <2>4. ASSUME NEW n \in 1 .. MAX_PRE_TLS_FRAME, take_starttls(n)
        PROVE  UpgradeInv'
    <3>1. /\ stray' = (buf[n] = "ok2" /\ (buf' # <<>> \/ clear # <<>>))
          /\ clear' = clear
      BY <2>4 DEF take_starttls
    <3>2. CASE buf[n] = "ok2" /\ buf' = <<>>
      <4>1. pc' = "handshake"
        BY <2>4, <3>2 DEF take_starttls
      <4> QED BY <3>1, <3>2, <4>1
    <3>3. CASE buf[n] = "ok2" /\ buf' # <<>>
      <4>1. pc' = "failed"
        BY <2>4, <3>3 DEF take_starttls
      <4> QED BY <4>1
    <3>4. CASE buf[n] # "ok2"
      <4>1. pc' \in {"failed", "starttls"} /\ ~stray'
        BY <2>4, <3>1, <3>4 DEF take_starttls
      <4> QED BY <4>1
    <3> QED BY <3>2, <3>3, <3>4
  <2> QED BY <1>1, <2>1, <2>2, <2>3, <2>4 DEF Caller
<1>2. CASE ReadLoop \/ fail
  BY <1>2 DEF ReadLoop, dispatch_event, exchange, fail, clearVars
<1>3. ASSUME NEW u \in Units, server_clear(u)
      PROVE  UpgradeInv'
  <2>1. clear' # <<>>
    <3>1. clear' = Append(clear, u) /\ clear \in Seq(Units)
      BY <1>3 DEF server_clear, TypeOK
    <3>2. Len(clear') = Len(clear) + 1 /\ Len(clear) \in Nat
      BY <3>1, AppendProperties, LenProperties
    <3> QED BY <3>2
  <2> QED BY <1>3, <2>1 DEF server_clear
<1>4. CASE (\E v \in {0, 1} : server_greeting(v)) \/ server_answer \/ UNCHANGED vars
  BY <1>4 DEF server_greeting, server_answer, vars, clearVars
<1> QED BY <1>1, <1>2, <1>3, <1>4 DEF Next, Server

\* No session is made, and nothing is said inside TLS, after cleartext that
\* followed the server's OK to STARTTLS, whatever the reads cut and however much
\* of it there is (lib.rs, starttls_steps).
THEOREM UpgradeIsClean == Spec => []CleanUpgrade
<1>1. Init => UpgradeInv
  BY DEF Init, UpgradeInv, CleanUpgrade, Inside, Cleartext
<1> QED BY <1>1, TypeCorrect, UpgradeNext, PTL DEF Spec, UpgradeInv

-----------------------------------------------------------------------------
(* The capabilities. *)

\* Greetings alone, and any list they carry is the newest one.
GreetingsOnly(s) == \A i \in 1 .. Len(s) :
  s[i].kind = "greeting" /\ (s[i].v # 0 => s[i].v = listed)

\* The tagged status is the last frame, and the newest list is in its code, in
\* the frame before it, or already taken when that frame is gone.
AnsweredAt(n) ==
  /\ n > 0 /\ tls[n].kind \in {"ok", "no"}
  /\ \A i \in 1 .. (n - 1) : tls[i].kind \notin {"ok", "no"}
  /\ listed # 0
  /\ tls[n].v # 0 => tls[n].v = listed
  /\ tls[n].v = 0 => IF n = 1 THEN caps = listed ELSE tls[n - 1].v = listed

AnswerQueued == AnsweredAt(Len(tls))

Outside == {"connect", "handshake"} \cup Cleartext
BeforeSend == {"subscribe", "first", "send"}

CapsInv ==
  /\ pc \in Outside => /\ tls = <<>> /\ event = <<>> /\ listed = 0
                       /\ ~asked /\ ~greeted
  /\ pc \in Inside /\ entry = "connect_tls" /\ ~greeted =>
       tls = <<>> /\ event = <<>> /\ listed = 0
  /\ pc \in BeforeSend => ~asked /\ GreetingsOnly(tls) /\ GreetingsOnly(event)
  /\ pc = "exchange" /\ asked => GreetingsOnly(tls)
  /\ pc = "exchange" /\ ~asked => (entry = "connect_tls" => greeted) /\ AnswerQueued
  /\ pc = "session" => ~asked /\ caps = listed /\ caps # 0

LEMMA CapsInit == Init => CapsInv
  BY DEF Init, CapsInv, Outside, BeforeSend, Inside, Cleartext

\* What a step of the caller before the handshake ends leaves alone.
LEMMA CapsOutside ==
  ASSUME TypeOK, CapsInv, pc \in Outside, UNCHANGED <<entry, tlsVars>>,
         pc' \in Outside \cup {"subscribe", "failed"}
  PROVE  CapsInv'
<1>1. /\ tls' = <<>> /\ event' = <<>> /\ listed' = 0 /\ ~asked' /\ ~greeted'
  BY DEF CapsInv, tlsVars
<1>2. Len(tls') = 0 /\ Len(event') = 0
  BY <1>1
<1>3. GreetingsOnly(tls)' /\ GreetingsOnly(event)'
  BY <1>2 DEF GreetingsOnly
<1> QED BY <1>1, <1>3 DEF CapsInv, Outside, Cleartext, Inside

\* The read loop's and the caller's steps after the handshake.
LEMMA CapsInside ==
  ASSUME TypeOK, CapsInv,
         subscribe \/ dispatch_event \/ first_event \/ no_event \/ send_capability
  PROVE  CapsInv'
<1> USE DEF TypeOK, Outside, BeforeSend, Cleartext, Inside, Goto
<1>1. CASE subscribe \/ no_event \/ send_capability
  <2>1. UNCHANGED <<entry, tls, event, listed, greeted, caps>>
    BY <1>1 DEF subscribe, no_event, send_capability, tlsVars
  <2>2. pc \in BeforeSend /\ pc' \in {"first", "send", "exchange"}
    BY <1>1 DEF subscribe, no_event, send_capability
  <2>3. IF pc' = "exchange" THEN asked' = TRUE ELSE asked' = asked
    BY <1>1 DEF subscribe, no_event, send_capability, tlsVars
  <2>4. GreetingsOnly(tls)' /\ GreetingsOnly(event)'
    BY <2>1, <2>2 DEF CapsInv, GreetingsOnly
  <2> QED BY <2>1, <2>2, <2>3, <2>4 DEF CapsInv
<1>2. CASE dispatch_event
  <2>1. /\ pc \in BeforeSend /\ tls # <<>> /\ tls' = Tail(tls)
        /\ UNCHANGED <<entry, pc, greeted, asked, listed, caps>>
    BY <1>2 DEF dispatch_event
  <2>2. ~asked /\ GreetingsOnly(tls) /\ GreetingsOnly(event)
    BY <2>1 DEF CapsInv
  <2>3. ~(entry = "connect_tls" /\ ~greeted)
    BY <2>1 DEF CapsInv
  <2>4. GreetingsOnly(tls)'
    <3>1. /\ Len(tls) \in Nat /\ Len(tls') = Len(tls) - 1
          /\ \A i \in 1 .. (Len(tls) - 1) : tls'[i] = tls[i + 1]
      BY <2>1, TakeFirst
    <3> QED BY <2>1, <2>2, <3>1 DEF GreetingsOnly
  <2>5. GreetingsOnly(event)'
    <3>1. CASE event' = event
      BY <2>1, <2>2, <3>1 DEF GreetingsOnly
    <3>2. CASE event' = Append(event, Head(tls))
      <4>1. /\ Len(tls) \in Nat /\ Len(tls) > 0 /\ Head(tls) = tls[1] /\ Head(tls) \in Frames
        BY <2>1, TakeFirst
      <4>2. /\ Len(event) \in Nat /\ Len(event') = Len(event) + 1
            /\ \A i \in 1 .. Len(event) : event'[i] = event[i]
            /\ event'[Len(event) + 1] = Head(tls)
        BY <3>2, <4>1, AppendProperties, LenProperties
      <4>3. /\ Head(tls).kind = "greeting" /\ (Head(tls).v # 0 => Head(tls).v = listed)
        BY <2>2, <4>1 DEF GreetingsOnly
      <4>4. \A i \in 1 .. Len(event') : i \in 1 .. Len(event) \/ i = Len(event) + 1
        BY <4>2
      <4>5. \A i \in 1 .. Len(event') :
              event'[i].kind = "greeting" /\ (event'[i].v # 0 => event'[i].v = listed)
        BY <2>2, <4>2, <4>3, <4>4 DEF GreetingsOnly
      <4> QED BY <2>1, <4>5 DEF GreetingsOnly
    <3> QED BY <1>2, <3>1, <3>2 DEF dispatch_event
  <2> QED BY <2>1, <2>2, <2>3, <2>4, <2>5 DEF CapsInv
<1>3. CASE first_event
  <2>1. /\ pc = "first" /\ event # <<>> /\ event' = Tail(event)
        /\ UNCHANGED <<entry, tls, greeted, asked, listed>>
    BY <1>3 DEF first_event
  <2>2. ~asked /\ GreetingsOnly(tls) /\ GreetingsOnly(event)
    BY <2>1 DEF CapsInv
  <2>3. ~(entry = "connect_tls" /\ ~greeted)
    BY <2>1 DEF CapsInv
  <2>4. /\ Len(event) \in Nat /\ Len(event) > 0 /\ Head(event) = event[1]
        /\ Len(event') = Len(event) - 1
        /\ \A i \in 1 .. (Len(event) - 1) : event'[i] = event[i + 1]
    BY <2>1, TakeFirst
  <2>5. GreetingsOnly(tls)'
    BY <2>1, <2>2 DEF GreetingsOnly
  <2>6. GreetingsOnly(event)'
    BY <2>1, <2>2, <2>4 DEF GreetingsOnly
  <2>7. Head(event).v # 0 => Head(event).v = listed
    BY <2>2, <2>4 DEF GreetingsOnly
  <2>8. CASE Head(event).v # 0
    <3>1. pc' = "session" /\ caps' = Head(event).v
      BY <1>3, <2>8 DEF first_event, Capabilities
    <3> QED BY <2>1, <2>2, <2>7, <2>8, <3>1 DEF CapsInv
  <2>9. CASE Head(event).v = 0
    <3>1. pc' = "send" /\ caps' = caps
      BY <1>3, <2>9 DEF first_event, Capabilities
    <3> QED BY <2>1, <2>2, <2>3, <2>5, <2>6, <3>1 DEF CapsInv
  <2> QED BY <2>8, <2>9
<1> QED BY <1>1, <1>2, <1>3

\* The exchange: a frame before the status keeps the newest list in sight, and
\* the status finds it.
LEMMA CapsExchange ==
  ASSUME TypeOK, CapsInv, exchange
  PROVE  CapsInv'
<1> USE DEF TypeOK, Outside, BeforeSend, Cleartext, Inside, Goto
<1>1. /\ pc = "exchange" /\ tls # <<>> /\ tls' = Tail(tls)
      /\ UNCHANGED <<entry, greeted, asked, listed, event>>
  BY DEF exchange
<1>2. /\ Len(tls) \in Nat /\ Len(tls) > 0 /\ Head(tls) = tls[1] /\ Head(tls) \in Frames
      /\ tls' \in Seq(Frames) /\ Len(tls') = Len(tls) - 1
      /\ \A i \in 1 .. (Len(tls) - 1) : tls'[i] = tls[i + 1]
  BY <1>1, TakeFirst
<1>3. ~(entry = "connect_tls" /\ ~greeted)
  BY <1>1 DEF CapsInv
<1>4. CASE asked
  <2>1. GreetingsOnly(tls)
    BY <1>1, <1>4 DEF CapsInv
  <2>2. Head(tls).kind = "greeting"
    BY <1>2, <2>1 DEF GreetingsOnly
  <2>3. pc' = "exchange"
    BY <2>2 DEF exchange
  <2>4. GreetingsOnly(tls)'
    BY <1>1, <1>2, <2>1 DEF GreetingsOnly
  <2> QED BY <1>1, <1>3, <1>4, <2>3, <2>4 DEF CapsInv
<1>5. CASE ~asked
  <2>1. AnswerQueued
    BY <1>1, <1>5 DEF CapsInv
  <2>2. PICK n \in Nat : n = Len(tls)
    BY <1>2
  <2>3. /\ tls[n].kind \in {"ok", "no"}
        /\ \A i \in 1 .. (n - 1) : tls[i].kind \notin {"ok", "no"}
        /\ listed # 0
        /\ tls[n].v # 0 => tls[n].v = listed
        /\ tls[n].v = 0 => IF n = 1 THEN caps = listed ELSE tls[n - 1].v = listed
    BY <2>1, <2>2 DEF AnswerQueued, AnsweredAt
  <2>4. CASE n = 1
    <3>1. CASE Head(tls).kind = "ok"
      <4>1. pc' = "session" /\ Capabilities(Head(tls))
        BY <3>1 DEF exchange
      <4>2. caps' = listed
        BY <1>2, <2>3, <2>4, <4>1 DEF Capabilities
      <4> QED BY <1>1, <1>5, <2>3, <4>1, <4>2 DEF CapsInv
    <3>2. CASE Head(tls).kind = "no"
      <4>1. pc' = "failed"
        BY <3>2 DEF exchange
      <4> QED BY <4>1 DEF CapsInv
    <3> QED BY <1>2, <2>3, <2>4, <3>1, <3>2
  <2>5. CASE n > 1
    <3>1. Head(tls).kind \notin {"ok", "no"}
      BY <1>2, <2>3, <2>5
    <3>2. pc' = "exchange" /\ Capabilities(Head(tls))
      BY <3>1 DEF exchange
    <3>3. Len(tls') = n - 1 /\ tls'[n - 1] = tls[n]
      BY <1>2, <2>2, <2>5
    <3>4. \A i \in 1 .. (n - 1 - 1) : tls'[i].kind \notin {"ok", "no"}
      BY <1>2, <2>2, <2>3, SMTT(30)
    <3>5. tls[n].v = 0 => IF n - 1 = 1 THEN caps' = listed ELSE tls'[n - 1 - 1].v = listed
      <4>1. CASE n = 2
        BY <1>2, <2>3, <3>2, <4>1 DEF Capabilities
      <4>2. CASE n > 2
        <5>1. n - 1 - 1 \in 1 .. (n - 1) /\ (n - 1 - 1) + 1 = n - 1 /\ n - 1 # 1
          BY <4>2
        <5>2. tls'[n - 1 - 1] = tls[n - 1]
          BY <1>2, <2>2, <5>1
        <5> QED BY <2>3, <2>5, <5>1, <5>2
      <4> QED BY <2>5, <4>1, <4>2
    <3>6. AnswerQueued'
      <4>1. PICK p \in Nat : p = n - 1
        BY <2>5
      <4>2. /\ p > 0 /\ tls'[p] = tls[n] /\ listed' = listed
            /\ \A i \in 1 .. (p - 1) : tls'[i].kind \notin {"ok", "no"}
            /\ tls[n].v = 0 => IF p = 1 THEN caps' = listed' ELSE tls'[p - 1].v = listed'
        BY <1>1, <2>5, <3>3, <3>4, <3>5, <4>1
      <4>3. AnsweredAt(p)'
        BY <2>3, <4>2 DEF AnsweredAt
      <4>4. Len(tls') = p
        BY <3>3, <4>1
      <4> QED BY <4>3, <4>4 DEF AnswerQueued
    <3> QED BY <1>1, <1>3, <1>5, <3>2, <3>6 DEF CapsInv
  <2> QED BY <1>2, <2>2, <2>4, <2>5
<1> QED BY <1>4, <1>5

LEMMA CapsGreeting ==
  ASSUME TypeOK, CapsInv, NEW v \in {0, 1}, server_greeting(v)
  PROVE  CapsInv'
<1> USE DEF TypeOK, Outside, BeforeSend, Cleartext, Inside, Goto
<1>1. /\ entry = "connect_tls" /\ pc \in Inside /\ ~greeted /\ greeted' = TRUE
      /\ UNCHANGED <<entry, pc, asked, event, caps>>
  BY DEF server_greeting
<1>2. tls = <<>> /\ event = <<>> /\ listed = 0
  BY <1>1 DEF CapsInv
<1>3. tls' = << [kind |-> "greeting", v |-> v] >> /\ listed' = v
  BY <1>2 DEF server_greeting, Say
<1>4. GreetingsOnly(tls)'
  BY <1>3 DEF GreetingsOnly
<1>5. GreetingsOnly(event)'
  BY <1>1, <1>2 DEF GreetingsOnly
<1>6. pc = "exchange" => asked
  BY <1>1 DEF CapsInv
<1>7. pc \in BeforeSend => ~asked
  BY DEF CapsInv
<1> QED BY <1>1, <1>4, <1>5, <1>6, <1>7 DEF CapsInv

LEMMA CapsAnswer ==
  ASSUME TypeOK, CapsInv, server_answer
  PROVE  CapsInv'
<1> USE DEF TypeOK, Outside, BeforeSend, Cleartext, Inside, Goto
<1>1. /\ asked /\ ~asked' /\ (entry = "connect_tls" => greeted)
      /\ UNCHANGED <<entry, pc, greeted, event, caps>>
  BY DEF server_answer
<1>2. pc \in {"exchange", "failed"}
  BY <1>1 DEF CapsInv, Ended
<1>3. PICK v \in {0, listed + 2}, k \in {"ok", "no"} :
        /\ tls' = tls \o << [kind |-> "data", v |-> listed + 1], [kind |-> k, v |-> v] >>
        /\ listed' = IF v # 0 THEN v ELSE listed + 1
  BY DEF server_answer
<1>4. CASE pc = "exchange"
  <2>1. GreetingsOnly(tls)
    BY <1>1, <1>4 DEF CapsInv
  <2>2. << [kind |-> "data", v |-> listed + 1], [kind |-> k, v |-> v] >> \in Seq(Frames)
    BY DEF Frames
  <2>3. PICK m \in Nat : m = Len(tls)
    BY LenProperties
  <2>4. /\ Len(tls') = m + 2
        /\ \A i \in 1 .. m : tls'[i] = tls[i]
        /\ tls'[m + 1] = [kind |-> "data", v |-> listed + 1]
        /\ tls'[m + 2] = [kind |-> k, v |-> v]
    BY <1>3, <2>2, <2>3, ConcatProperties
  <2>5. \A i \in 1 .. (m + 2 - 1) : tls'[i].kind \notin {"ok", "no"}
    <3> SUFFICES ASSUME NEW i \in 1 .. (m + 2 - 1) PROVE tls'[i].kind \notin {"ok", "no"}
      OBVIOUS
    <3>1. i \in 1 .. m \/ i = m + 1
      OBVIOUS
    <3> QED BY <2>1, <2>3, <2>4, <3>1 DEF GreetingsOnly
  <2>6. AnswerQueued'
    <3>1. PICK p \in Nat : p = m + 2
      OBVIOUS
    <3>2. /\ p > 1 /\ p # 1 /\ p - 1 = m + 1 /\ p - 1 = m + 2 - 1
      BY <3>1
    <3>3. /\ tls'[p] = [kind |-> k, v |-> v] /\ tls'[p - 1] = [kind |-> "data", v |-> listed + 1]
          /\ \A i \in 1 .. (p - 1) : tls'[i].kind \notin {"ok", "no"}
      BY <2>4, <2>5, <3>1, <3>2
    <3>4. listed' # 0 /\ (v # 0 => listed' = v) /\ (v = 0 => listed' = listed + 1)
      BY <1>3
    <3>5. AnsweredAt(p)'
      BY <3>2, <3>3, <3>4 DEF AnsweredAt
    <3> QED BY <2>4, <3>1, <3>5 DEF AnswerQueued
  <2> QED BY <1>1, <1>4, <2>6 DEF CapsInv
<1>5. CASE pc = "failed"
  BY <1>1, <1>5 DEF CapsInv
<1> QED BY <1>2, <1>4, <1>5

LEMMA CapsNext == TypeOK /\ CapsInv /\ [Next]_vars => CapsInv'
<1> SUFFICES ASSUME TypeOK, CapsInv, [Next]_vars PROVE CapsInv'
  OBVIOUS
<1>1. CASE connect_tcp \/ read_more \/ frame_too_large \/ handshake
  <2>1. pc \in Outside /\ UNCHANGED <<entry, tlsVars>>
    BY <1>1 DEF connect_tcp, read_more, frame_too_large, handshake, Outside, Cleartext, Goto
  <2>2. pc' \in Outside \cup {"subscribe", "failed"}
    BY <1>1 DEF connect_tcp, read_more, frame_too_large, handshake, Outside, Cleartext, Goto
  <2> QED BY <2>1, <2>2, CapsOutside
<1>2. ASSUME NEW n \in 1 .. MAX_PRE_TLS_FRAME,
             take_greeting(n) \/ take_capability(n) \/ take_starttls(n)
      PROVE  CapsInv'
  <2>1. pc \in Outside /\ UNCHANGED <<entry, tlsVars>>
    BY <1>2 DEF take_greeting, take_capability, take_starttls, Outside, Cleartext, Goto
  <2>2. pc' \in Outside \cup {"subscribe", "failed"}
    BY <1>2 DEF take_greeting, take_capability, take_starttls, Outside, Cleartext, Goto
  <2> QED BY <2>1, <2>2, CapsOutside
<1>3. CASE fail
  <2>1. pc' = "failed"
    BY <1>3 DEF fail, Goto
  <2> QED BY <2>1 DEF CapsInv, Outside, Cleartext, Inside, BeforeSend
<1>4. ASSUME NEW u \in Units, server_clear(u) PROVE CapsInv'
  <2>1. pc \in Outside /\ UNCHANGED <<entry, pc, tlsVars>>
    BY <1>4 DEF server_clear, Outside, Cleartext
  <2> QED BY <2>1, CapsOutside
<1>5. CASE UNCHANGED vars
  BY <1>5 DEF vars, CapsInv, GreetingsOnly, AnswerQueued, AnsweredAt
<1> QED
  BY <1>1, <1>2, <1>3, <1>4, <1>5, CapsInside, CapsExchange, CapsGreeting, CapsAnswer
     DEF Next, Caller, ReadLoop, Server

\* A session starts with the newest capability list the server sent inside TLS,
\* wherever the greeting falls between the subscription, the 250 ms wait and the
\* CAPABILITY command (lib.rs, finalize_session_after_handshake).
THEOREM CapabilitiesAreNewest == Spec => []NewestCapabilities
<1>1. CapsInv => NewestCapabilities
  BY DEF CapsInv, NewestCapabilities
<1> QED BY <1>1, CapsInit, TypeCorrect, CapsNext, PTL DEF Spec

=============================================================================
