----------------------------- MODULE MCResponseUse -----------------------------
(* What the server writes in the runs of ResponseUse: each frame with and   *)
(* without the beginning of the next one behind it.                         *)
EXTENDS ResponseUse

Line(text) == text \o <<"CR", "LF">>
Untagged(text) == Line(<<"*", "SP">> \o text)

Lists == {<<>>, <<"SP", "IDLE">>, <<"SP", "MOVE", "SP", "IDLE">>, <<"SP", "IDLE", "x">>,
          <<"SP", "STARTTLS", "SP", "x">>}
CapabilityFrames ==
    {Untagged(<<"CAPABILITY">> \o list) : list \in Lists}
    \cup {Untagged(<<"O", "K", "SP", "[", "CAPABILITY">> \o list \o <<"]">>) : list \in Lists}

Attributes == {<<"UID", "SP", "7">>, <<"UID", "SP", "4">>, <<"RFC822.SIZE", "SP", "2">>,
    <<"FLAGS", "SP", "(", "x", ")">>,
    <<"BODY", "[", "]", "SP", "{", "2", "}", "CR", "LF", "CR", "LF">>,
    <<"BODY", "[", "x", "]", "<", "1", ">", "SP", "N", "I", "L">>,
    <<"BODY", "SP", "(", "DQ", "x", "DQ", ")">>, <<"RFC822", "SP", "DQ", "DQ">>}
FetchFrames ==
    {Untagged(<<"1", "SP", "FETCH", "SP", "(">> \o a \o <<")">>) : a \in Attributes}
    \cup {Untagged(<<"2", "SP", "FETCH", "SP", "(">> \o a \o <<"SP">> \o b \o <<")">>) :
            a, b \in Attributes}

SearchFrames == {Untagged(<<"SEARCH">> \o numbers) :
    numbers \in {<<>>, <<"SP", "4">>, <<"SP", "2", "9", "SP", "4">>}}

TextSymbols == {"x", "CTL", "BIDI"}
Texts == UNION {[1 .. n -> TextSymbols] : n \in 0 .. 4}
         \cup {<<"U1", "U2">>, <<"U1", "U2", "x", "U1", "U2">>, <<"x", "x", "x", "U1", "U2">>}
Replies == {Line(<<"A0001", "SP", "N", "O", "SP">> \o text) : text \in Texts}
           \cup {Line(<<"A0001", "SP", "O", "K">>), Line(<<"A0001", "SP", "B", "Y", "E", "SP", "x">>)}

Frames == CapabilityFrames \cup FetchFrames \cup SearchFrames
AllBuffers == Replies \cup {f \o rest : f \in Frames, rest \in {<<>>, <<"*", "SP">>}}
OtherBuffers == {Untagged(<<"1", "SP", "EXISTS">>), Untagged(<<"O", "K", "SP", "[", "ALERT", "]">>)}
ServerBuffers == AllBuffers \cup OtherBuffers
================================================================================
