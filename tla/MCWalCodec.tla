----------------------------- MODULE MCWalCodec -----------------------------
(* Pages of two bytes and lengths up to six; the long span, of seven bytes,   *)
(* does not fit its length field.  No span, every kind of one span, and two   *)
(* spans: both in the page, the first or the second past it, one overlong.    *)
EXTENDS WalCodec

MCImages == {<<1, 0>>}

Span(off, data) == [off |-> off, data |-> data]
Long == [i \in 1 .. MaxU16 + 1 |-> 1]

OneSpan  == {<<Span(off, data)>> : off \in {0, 1, MaxU16}, data \in {<< >>, <<1>>, <<1, 0>>, Long}}
TwoSpans == {<<Span(0, <<1>>), Span(1, <<0>>)>>, <<Span(2, << >>), Span(0, <<1, 0>>)>>,
             <<Span(MaxU16, <<1>>), Span(0, <<1>>)>>, <<Span(0, <<2>>), Span(2, <<1>>)>>,
             <<Span(0, <<1>>), Span(0, Long)>>}
MCSpanLists == {<< >>} \union OneSpan \union TwoSpans
=============================================================================
