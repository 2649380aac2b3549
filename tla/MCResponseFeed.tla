---------------------------- MODULE MCResponseFeed ----------------------------
(* The feeds for the model-checking runs of ResponseFeed: openings that put   *)
(* the cursor before or inside each production, and the symbols it tells      *)
(* apart.                                                                     *)
EXTENDS ResponseFeed

Untagged == <<"*", "SP">>

FeedsOf(openings, symbols) == {[opening |-> o, alphabet |-> symbols] : o \in openings}

StatusFeeds == FeedsOf(
    {<<>>, Untagged, Untagged \o <<"P", "R", "E", "A", "U", "T">>, <<"x", "SP">>},
    {"SP", "CR", "LF", "O", "K", "[", "1", "x", "U1", "U2"})

TextFeeds == FeedsOf(
    {Untagged \o <<"O", "K", "SP", "[">>,
     Untagged \o <<"O", "K", "SP", "[", "CAPABILITY", "SP", "x", "SP", "x">>,
     <<"x", "SP", "N", "O", "SP">>, <<"+", "SP">>},
    {"SP", "CR", "LF", "[", "]", "UIDNEXT", "1", "x", "U1", "U2"})

ListFeeds == FeedsOf(
    {Untagged \o o : o \in {
        <<"LIST", "SP", "(">>, <<"FLAGS", "SP", "(", "x", "SP", "x">>,
        <<"STATUS", "SP", "x", "SP", "(">>, <<"SEARCH">>, <<"CAPABILITY">>, <<"x">>,
        <<"O", "K", "SP", "[", "PERMANENTFLAGS", "SP">>,
        <<"O", "K", "SP", "[", "BADCHARSET">>}},
    {"SP", "CR", "LF", "(", ")", "]", "BS", "*", "1", "x"})

StringFeeds == FeedsOf(
    {Untagged \o o : o \in {
        <<"LIST", "SP", "(", ")", "SP">>, <<"LIST", "SP", "(", ")", "SP", "N", "I">>,
        <<"LIST", "SP", "(", ")", "SP", "N", "I", "L", "SP">>}},
    {"SP", "CR", "LF", "DQ", "BS", "{", "}", "1", "N", "I", "L", "x"})

(* Inside a quoted string, and inside the octets of a literal. *)
QuotedFeeds == FeedsOf(
    {Untagged \o o : o \in {
        <<"LIST", "SP", "(", "x", ")", "SP", "DQ", "x">>,
        <<"LIST", "SP", "(", ")", "SP", "DQ", "DQ", "SP", "DQ">>,
        <<"LSUB", "SP", "(", ")", "SP", "N", "I", "L", "SP", "{", "2", "}", "CR", "LF">>}},
    {"SP", "CR", "LF", "DQ", "BS", "NUL", "x"})

FetchOpening == Untagged \o <<"1", "SP", "FETCH", "SP", "(">>
FetchFeeds == FeedsOf(
    {FetchOpening \o o : o \in {
        <<>>, <<"FLAGS", "SP", "(", "x", "SP">>, <<"BODY", "[">>,
        <<"BODY", "[", "]", "SP">>, <<"RFC822", "SP">>,
        <<"BODY", "[", "]", "SP", "{", "2", "}", "CR", "LF">>}},
    {"SP", "CR", "LF", "(", ")", "[", "]", ">", "DQ", "{", "}", "1", "FLAGS", "x"})

NestedFeeds == FeedsOf(
    {FetchOpening \o o : o \in {
        <<"BODY", "SP">>, <<"ENVELOPE", "SP", "(", "x", "CR">>,
        <<"BODYSTRUCTURE", "SP", "(", "{">>}},
    {"SP", "CR", "LF", "(", ")", "DQ", "{", "}", "1", "x"})

ScalarFeeds == FeedsOf(
    {FetchOpening \o o : o \in {
        <<"UID", "SP", "1">>, <<"RFC822.SIZE", "SP">>, <<"INTERNALDATE", "SP">>,
        <<"BODY", "[", "]", "<">>, <<"RFC822.TEXT", "SP", "N", "I", "L">>,
        <<"UID", "SP", "1", "SP", "UID", "SP", "1", "SP", "RFC822", "SP", "N", "I">>}},
    {"SP", "CR", "LF", ")", ">", "DQ", "1", "L", "x"})

AllFeeds ==
    UNION {StatusFeeds, TextFeeds, ListFeeds, StringFeeds, QuotedFeeds,
           FetchFeeds, NestedFeeds, ScalarFeeds}

DataFeeds == FeedsOf(
    {Untagged, Untagged \o <<"1", "SP", "EXISTS">>, Untagged \o <<"1", "SP", "x">>},
    {"SP", "CR", "LF", "{", "}", "1", "x"})
===============================================================================
