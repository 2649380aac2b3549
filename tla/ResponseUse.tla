------------------------------ MODULE ResponseUse ------------------------------
(***************************************************************************)
(* What a session makes of the responses to its command: the filter that   *)
(* routes a frame to the command (FrameFilter, client.rs), the closure     *)
(* that parses the frame again and keeps what it needs (session.rs,        *)
(* capabilities.rs), and the text of a tagged NO or BAD (error.rs).  The   *)
(* order of frames and replies is the subject of Dispatcher.               *)
(***************************************************************************)
EXTENDS ResponseParser

CONSTANTS
    Buffers,        \* what may be in the read buffer when a frame is split off
    MaxFrames,      \* bound: frames routed to one command
    MaxText         \* MAX_SERVER_TEXT_CHARS

ASSUME UseAssumption ==
    Buffers \subseteq Seq(STRING) /\ MaxFrames \in Nat /\ MaxText \in Nat

VARIABLES
    command,        \* "none", "CAPABILITY", "FETCH" or "SEARCH"
    routed,         \* the responses the filter sent to the command
    caps,           \* Session::capabilities
    results,        \* FETCH: the results kept so far
    ids,            \* SEARCH: the numbers kept so far
    failed          \* the last error: the characters the server sent, and those shown

NoError == [said |-> <<>>, shown |-> <<>>]

vars == <<command, routed, caps, results, ids, failed>>

-------------------------------------------------------------------------------
(* The fields of Capabilities, by their atoms. *)
KnownAtoms == {"IMAP4REV1", "IMAP4REV2", "STARTTLS", "LOGINDISABLED", "IDLE",
    "UNSELECT", "CONDSTORE", "QRESYNC", "MOVE", "UIDPLUS", "LITERAL+", "LITERAL-",
    "ENABLE", "AUTH=PLAIN", "AUTH=LOGIN", "AUTH=XOAUTH2", "AUTH=OAUTHBEARER"}

(* set_from_atom: a whole atom sets its field, any other is ignored. *)
FromAtoms(atoms) ==
    {word \in KnownAtoms : \E k \in DOMAIN atoms : atoms[k] = <<word>>}

CodeOf(response) == response.data.text.code

IsCapabilityResponse(response) ==
    \/ response.kind = "CAPABILITY"
    \/ /\ response.kind = "Status"
       /\ CodeOf(response) # <<>> /\ CodeOf(response)[1].code = "CAPABILITY"

(* Mutant: atoms of an earlier list are kept. *)
TryUpdateMerging(old, response) ==
    IF response.kind = "CAPABILITY" THEN old \cup FromAtoms(response.data)
    ELSE IF response.kind = "Status" /\ CodeOf(response) # <<>>
            /\ CodeOf(response)[1].code = "CAPABILITY"
    THEN old \cup FromAtoms(CodeOf(response)[1].arg)
    ELSE old

TryUpdateFrom(old, response) ==
    IF response.kind = "CAPABILITY" THEN FromAtoms(response.data)
    ELSE IF response.kind = "Status" /\ CodeOf(response) # <<>>
            /\ CodeOf(response)[1].code = "CAPABILITY"
    THEN FromAtoms(CodeOf(response)[1].arg)
    ELSE old

IsFetch(response) == response.kind = "FETCH"

IsSearch(response) == response.kind = "SEARCH"

(* The filter a command is sent with. *)
Wants(response) ==
    \/ command = "CAPABILITY" /\ IsCapabilityResponse(response)
    \/ command = "FETCH" /\ IsFetch(response)
    \/ command = "SEARCH" /\ IsSearch(response)

(* Mutant: a section that is NIL takes away the body found before it. *)
FetchResultErasing(response) ==
    LET atts == response.data.attributes
        Bodies(a) == CASE a.att = "BODY[]"             -> <<a.data>>
                       [] a.att \in {"BODY", "RFC822"} -> << <<a.data>> >>
                       [] OTHER                        -> <<>>
        Uids(a) == IF a.att = "UID" THEN << <<a.data>> >> ELSE <<>>
        LastOf(found) == IF found = <<>> THEN <<>> ELSE Last(found)
    IN  << [seq  |-> response.data.seq,
            uid  |-> LastOf(FlattenSeq([k \in DOMAIN atts |-> Uids(atts[k])])),
            body |-> LastOf(FlattenSeq([k \in DOMAIN atts |-> Bodies(atts[k])]))] >>

(* fetch_result: the last UID and the last body of the attributes. *)
FetchResult(response) ==
    LET atts == response.data.attributes
        Bodies(a) == CASE a.att = "BODY[]"             -> a.data
                       [] a.att \in {"BODY", "RFC822"} -> <<a.data>>
                       [] OTHER                        -> <<>>
        Uids(a) == IF a.att = "UID" THEN <<a.data>> ELSE <<>>
        LastOf(found) == IF found = <<>> THEN <<>> ELSE <<Last(found)>>
    IN  << [seq  |-> response.data.seq,
            uid  |-> LastOf(FlattenSeq([k \in DOMAIN atts |-> Uids(atts[k])])),
            body |-> LastOf(FlattenSeq([k \in DOMAIN atts |-> Bodies(atts[k])]))] >>

-------------------------------------------------------------------------------
(* The characters of a text: U1 and U2 together are one. *)
Chars(text) ==
    LET upTo[k \in 0 .. Len(text)] ==
            IF k = 0 THEN <<>>
            ELSE IF text[k] = "U2" THEN upTo[k - 1] ELSE Append(upTo[k - 1], text[k])
    IN  upTo[Len(text)]

IsUnsafeToDisplay(c) == c \in {"CTL", "NUL", "BIDI"}

(* Mutant: a text of just the greatest length is marked as cut. *)
CommandFailedShort(text) ==
    LET kept == SubSeq(Chars(text), 1, IF Len(Chars(text)) < MaxText
                                       THEN Len(Chars(text)) ELSE MaxText)
        safe == [k \in DOMAIN kept |-> IF IsUnsafeToDisplay(kept[k]) THEN "FFFD" ELSE kept[k]]
    IN  IF Len(Chars(text)) >= MaxText THEN Append(safe, "...") ELSE safe

CommandFailed(text) ==
    LET kept == SubSeq(Chars(text), 1, IF Len(Chars(text)) < MaxText
                                       THEN Len(Chars(text)) ELSE MaxText)
        safe == [k \in DOMAIN kept |-> IF IsUnsafeToDisplay(kept[k]) THEN "FFFD" ELSE kept[k]]
    IN  IF Len(Chars(text)) > MaxText THEN Append(safe, "...") ELSE safe

-------------------------------------------------------------------------------
(* What the parser says of a buffer, and of a frame split off one. *)
Verdict == [text \in UNION {Prefixes(b) : b \in Buffers} |-> ParseResponse(text)]

Init ==
    /\ command = "none" /\ routed = <<>>
    /\ caps = {} /\ results = <<>> /\ ids = <<>> /\ failed = NoError

Issue(cmd) ==
    /\ command = "none"
    /\ command' = cmd
    /\ failed' = NoError
    /\ UNCHANGED <<routed, caps, results, ids>>

(* A frame is split off the buffer and the filter wants it: the frame goes *)
(* to the command, whose closure parses it by itself.  v is what the read  *)
(* loop found in the buffer, again what the closure finds in the frame.    *)
Frame(v, again) ==
    /\ command # "none" /\ Len(routed) < MaxFrames
    /\ v.st = "Ok" /\ Wants(v.response)
    /\ routed' = Append(routed, v.response)
    /\ IF again.st # "Ok" THEN UNCHANGED <<caps, results, ids>>
       ELSE /\ caps' = IF command = "CAPABILITY"
                       THEN TryUpdateFrom(caps, again.response) ELSE caps
            /\ results' = IF command = "FETCH"
                          THEN results \o FetchResult(again.response) ELSE results
            /\ ids' = IF command = "SEARCH" THEN ids \o again.response.data ELSE ids
    /\ UNCHANGED <<command, failed>>

(* The tagged response: the call returns what it kept on OK, an error with *)
(* the server's text on NO, BAD or PREAUTH, ConnectionClosed on BYE.       *)
Complete(v) ==
    /\ command # "none"
    /\ v.st = "Ok" /\ v.response.kind = "Status" /\ v.response.data.tag # <<>>
    /\ failed' = IF v.response.data.status \in {"Ok", "Bye"} THEN NoError
                 ELSE LET text == v.response.data.text.text
                      IN  [said |-> Chars(text), shown |-> CommandFailed(text)]
    /\ command' = "none"
    /\ routed' = <<>> /\ results' = <<>> /\ ids' = <<>>
    /\ UNCHANGED caps

Next ==
    \/ \E cmd \in {"CAPABILITY", "FETCH", "SEARCH"} : Issue(cmd)
    \/ \E buffer \in Buffers : \E v \in {Verdict[buffer]} :
          \/ \E again \in {Verdict[SubSeq(buffer, 1, v.used)]} : Frame(v, again)
          \/ Complete(v)

Spec == Init /\ [][Next]_vars

-------------------------------------------------------------------------------
(* The places of the FETCH items with these names. *)
Atts(response, names) ==
    {k \in DOMAIN response.data.attributes : response.data.attributes[k].att \in names}

(* The places of the items with message content: a section that is not NIL, *)
(* or RFC822.                                                                *)
Contents(response) == {k \in Atts(response, {"BODY[]", "RFC822"}) :
    response.data.attributes[k].att = "BODY[]" => response.data.attributes[k].data # <<>>}

(* The option holds the data of the last of the items at these places, and   *)
(* nothing when there are none.                                              *)
HoldsLast(option, places, response) ==
    /\ (option = <<>>) = (places = {})
    /\ \A k \in places : (\A j \in places : j <= k) =>
          LET item == response.data.attributes[k]
          IN  option = IF item.att = "BODY[]" THEN item.data ELSE <<item.data>>

(***************************************************************************)
(* The caller of fetch gets one result for each FETCH frame routed to it,  *)
(* in order, with that frame's number, the value of its last UID item, and *)
(* the content of its last section or RFC822 item: a NIL section does not  *)
(* hide content before it, and nothing of the frame before or of what lies *)
(* behind the frame in the read buffer gets into it.  The caller of search *)
(* gets every number of every SEARCH frame, in order.  Of several sections *)
(* in one frame only the last is kept; a frame with a BODY structure item  *)
(* is the subject of BodyIsContent.                                        *)
(***************************************************************************)
ResultsHoldTheirFrames ==
    /\ command = "FETCH" =>
        /\ Len(results) = Len(routed)
        /\ \A k \in DOMAIN routed :
            /\ results[k].seq = routed[k].data.seq
            /\ HoldsLast(results[k].uid, Atts(routed[k], {"UID"}), routed[k])
            /\ Atts(routed[k], {"BODY"}) = {} =>
                HoldsLast(results[k].body, Contents(routed[k]), routed[k])
    /\ command = "SEARCH" =>
        ids = FlattenSeq([k \in DOMAIN routed |-> routed[k].data])

(***************************************************************************)
(* After a CAPABILITY command the session knows exactly what the newest    *)
(* list says, wherever the server put it (data or response code): no atom  *)
(* of an earlier list survives, no longer atom is taken for a known one.   *)
(***************************************************************************)
CapabilitiesAreOfNewestList ==
    command = "CAPABILITY" /\ routed # <<>> =>
        LET last == Last(routed)
            list == IF last.kind = "Status" THEN CodeOf(last)[1].arg ELSE last.data
        IN  caps = {w \in KnownAtoms : <<w>> \in Range(list)}

(***************************************************************************)
(* The text of an error is safe to print and says when it was cut: no      *)
(* character that could drive a terminal, at most MAX_SERVER_TEXT_CHARS of *)
(* the server's, one more exactly when some were dropped, which is then    *)
(* the mark, and the others unchanged.                                     *)
(***************************************************************************)
ErrorTextIsSafe ==
    LET cut == Len(failed.said) > MaxText
    IN  /\ \A k \in DOMAIN failed.shown : ~ IsUnsafeToDisplay(failed.shown[k])
        /\ Len(failed.shown) = IF cut THEN MaxText + 1 ELSE Len(failed.said)
        /\ cut => Last(failed.shown) = "..."
        /\ \A k \in DOMAIN failed.said : k <= MaxText /\ ~ IsUnsafeToDisplay(failed.said[k])
                => failed.shown[k] = failed.said[k]

(***************************************************************************)
(* The comment of FetchResult::body: "The fetched body bytes (e.g. from    *)
(* BODY[])", where FetchAttribute::Body is the "non-extensible body        *)
(* structure": the body is the data of some section or of RFC822.          *)
(***************************************************************************)
BodyIsContent == \A k \in DOMAIN results :
    results[k].body # <<>> =>
        \E a \in Atts(routed[k], {"BODY[]", "RFC822"}) :
            LET att == routed[k].data.attributes[a]
            IN  results[k].body = IF att.att = "RFC822" THEN <<att.data>> ELSE att.data
================================================================================
