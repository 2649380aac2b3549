------------------------------- MODULE MCFraming -------------------------------
(* Streams for the model-checking runs of Framing: up to three pieces, each a  *)
(* frame, a bad line, or a line that is never ended.                           *)
EXTENDS Framing

Eol == <<"CR", "LF">>

Pieces == {
    <<"*", "SP", "x">> \o Eol,
    <<"x", "SP", "O", "K">> \o Eol,
    <<"*", "SP", "1", "SP", "FETCH", "SP", "(", "RFC822", "SP", "{", "2", "}">> \o Eol
        \o Eol \o <<")">> \o Eol,
    <<"*", "SP", "(">> \o Eol,
    [k \in 1 .. 24 |-> "x"],
    <<"+", "SP">> \o [k \in 1 .. 18 |-> "x"] \o Eol}

PieceStreams == {FlattenSeq(<<a, b, c>>) : a, b, c \in Pieces \cup {<<>>}}

(* Many short frames, more than the ceiling in all, a bad line at the end. *)
ShortStreams == {FlattenSeq([k \in 1 .. n |-> <<"+", "SP">> \o Eol]) \o end :
                   n \in 0 .. 6, end \in {<<>>, <<"*", "CR">>}}

AllStreams == PieceStreams \cup ShortStreams
================================================================================
