------------------------------- MODULE SaslPlain -------------------------------
(***************************************************************************)
(* The credentials of authenticate_plain on their way to the wire          *)
(* (session.rs): the checks, the SASL PLAIN message, its encoding, and the *)
(* buffers they are built in.  The session's states are in Session; the    *)
(* call here waits for the server's continuation request and then sends.   *)
(***************************************************************************)
EXTENDS Base64

CONSTANTS Names, Passwords      \* what callers pass, as sequences of bytes

ASSUME TextAssumption == Names \subseteq Seq(Byte) /\ Passwords \subseteq Seq(Byte)

VARIABLES
    user, pass,     \* the arguments of the call in progress
    stage,          \* "idle", "asked", "queued", "sent", "refused", "failed"
    line,           \* the buffer queued for the writer
    wire,           \* the bytes written to the socket for this call
    grown           \* has a buffer holding the secret been reallocated?

vars == <<user, pass, stage, line, wire, grown>>

NulFree(text) == \A k \in DOMAIN text : text[k] # 0

(* A Vec: what was reserved and what it holds.  Extending past the reserve  *)
(* moves the contents and frees the old memory without wiping it.           *)
WithCapacity(n) == [cap |-> n, data |-> <<>>, grown |-> FALSE]

Extend(vec, bytes) ==
    [cap   |-> vec.cap,
     data  |-> vec.data \o bytes,
     grown |-> vec.grown \/ Len(vec.data) + Len(bytes) > vec.cap]

(* \0<authcid>\0<password>, with an empty authzid. *)
SaslMessage(u, p) ==
    Extend(WithCapacity(2 + Len(u) + Len(p)), (<<0>> \o u) \o (<<0>> \o p))

CRLF == <<65, 66>>              \* outside the alphabet and PAD

(* sasl_plain_line *)
SaslPlainLine(u, p) ==
    LET sasl == SaslMessage(u, p).data
    IN  Extend(Extend(WithCapacity(EncodedLen(Len(sasl)) + Len(CRLF)), EncodeInto(sasl)), CRLF)

Init ==
    /\ user = <<>> /\ pass = <<>> /\ stage = "idle"
    /\ line = WithCapacity(0) /\ wire = <<>> /\ grown = FALSE

(* Mutant: the user name may hold a NUL. *)
AuthenticateUnchecked(u, p) ==
    /\ stage = "idle"
    /\ user' = u /\ pass' = p
    /\ stage' = IF NulFree(p) THEN "asked" ELSE "refused"
    /\ UNCHANGED <<line, wire, grown>>

(* authenticate_plain up to its first await: a NUL is refused unsent. *)
Authenticate(u, p) ==
    /\ stage = "idle"
    /\ user' = u /\ pass' = p
    /\ stage' = IF NulFree(u) /\ NulFree(p) THEN "asked" ELSE "refused"
    /\ UNCHANGED <<line, wire, grown>>

(* The continuation request arrived: the line is built and queued. *)
Continue ==
    /\ stage = "asked"
    /\ line' = SaslPlainLine(user, pass)
    /\ grown' = (SaslMessage(user, pass).grown \/ SaslPlainLine(user, pass).grown)
    /\ stage' = "queued"
    /\ UNCHANGED <<user, pass, wire>>

(* write_loop wrote the request and dropped it, which wipes it. *)
Write ==
    /\ stage = "queued"
    /\ wire' = line.data
    /\ line' = WithCapacity(0)
    /\ stage' = "sent"
    /\ UNCHANGED <<user, pass, grown>>

(* A tagged refusal, a timeout or the end of the connection comes first. *)
GiveUp ==
    /\ stage = "asked"
    /\ stage' = "failed"
    /\ UNCHANGED <<user, pass, line, wire, grown>>

(* The writer is gone: the queued request is dropped unsent, and wiped. *)
Lose ==
    /\ stage = "queued"
    /\ line' = WithCapacity(0)
    /\ stage' = "failed"
    /\ UNCHANGED <<user, pass, wire, grown>>

Return ==
    /\ stage \in {"sent", "refused", "failed"}
    /\ user' = <<>> /\ pass' = <<>> /\ stage' = "idle" /\ wire' = <<>>
    /\ UNCHANGED <<line, grown>>

Next ==
    \/ \E u \in Names, p \in Passwords : Authenticate(u, p)
    \/ Continue \/ Write \/ GiveUp \/ Lose \/ Return

Spec == Init /\ [][Next]_vars

-------------------------------------------------------------------------------
(* The server's reading of a PLAIN message (RFC 4616). *)
SecondNul(message) ==
    CHOOSE k \in 2 .. Len(message) :
        message[k] = 0 /\ \A j \in 2 .. k - 1 : message[j] # 0

Authcid(message) == SubSeq(message, 2, SecondNul(message) - 1)

Passwd(message) == SubSeq(message, SecondNul(message) + 1, Len(message))

(***************************************************************************)
(* The server that decodes the line finds the very user name and password  *)
(* the caller passed, whatever their bytes and lengths: no padding error,  *)
(* and no NUL of one shifts the boundary to the other (the NUL checks of   *)
(* authenticate_plain, sasl_plain_line, encode_into).                      *)
(***************************************************************************)
CredentialsArriveIntact == stage = "sent" =>
    LET message == Decode(SubSeq(wire, 1, Len(wire) - 2))
    IN  /\ SubSeq(wire, Len(wire) - 1, Len(wire)) = CRLF
        /\ message # <<>> /\ message[1] = 0
        /\ Authcid(message) = user /\ Passwd(message) = pass

(***************************************************************************)
(* No buffer that holds the secret ever grows: what sasl_plain_line        *)
(* reserves, encoded_len included, is what is written, so no un-wiped copy *)
(* is left in freed memory ("so neither the plaintext nor its encoding is  *)
(* left in freed memory").                                                 *)
(***************************************************************************)
NoCopyLeftBehind == ~ grown
===============================================================================
