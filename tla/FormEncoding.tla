---------------------------- MODULE FormEncoding -----------------------------
(***************************************************************************)
(* Go's url.QueryEscape and url.Values.Encode, with which login builds the *)
(* authorization URL and tokenClient its request, and how a provider reads *)
(* what it is sent.  A text is a sequence of characters here, since the    *)
(* question is whether texts survive the encoding.                         *)
(***************************************************************************)
EXTENDS Integers, Sequences

\* Pieces of text put together, with a text between each and the next.
Joined(pieces, between) ==
    LET joined[n \in 0 .. Len(pieces)] ==
            IF n = 0 THEN <<>>
            ELSE joined[n - 1] \o (IF n = 1 THEN <<>> ELSE between) \o pieces[n]
    IN  joined[Len(pieces)]

-----------------------------------------------------------------------------
(* Writing.                                                                *)

\* Characters that QueryEscape escapes, with their codes; every other
\* character of a text stands for an unreserved one.
Code == [c \in {":", "%", "+", "&", "=", "?", "#"} |->
           CASE c = ":" -> "3A" [] c = "%" -> "25" [] c = "+" -> "2B"
             [] c = "&" -> "26" [] c = "=" -> "3D" [] c = "?" -> "3F"
             [] c = "#" -> "23"]

\* One character; a space becomes a plus sign.
Escape(c) ==
    IF c = " " THEN <<"+">>
    ELSE IF c \in DOMAIN Code THEN <<"%", Code[c]>>
    ELSE <<c>>

QueryEscape(text) == Joined([i \in DOMAIN text |-> Escape(text[i])], <<>>)

\* Fault: a value is written as it is.
PairVerbatim(pair) == <<pair[1], "=">> \o pair[2]

Pair(pair) == <<pair[1], "=">> \o QueryEscape(pair[2])

\* url.Values is a sequence of names, each one character here, with one
\* value each, in the order of Encode.
Encode(values) == Joined([i \in DOMAIN values |-> Pair(values[i])], <<"&">>)

-----------------------------------------------------------------------------
(* Reading.                                                                *)

\* Where c is first, or just behind the text.
Position(c, text) ==
    CHOOSE i \in 1 .. Len(text) + 1 :
        /\ i = Len(text) + 1 \/ text[i] = c
        /\ \A j \in 1 .. i - 1 : text[j] # c

Before(c, text) == SubSeq(text, 1, Position(c, text) - 1)
After(c, text) == SubSeq(text, Position(c, text) + 1, Len(text))

\* The parts of a text between separators.
Parts(c, text) ==
    {Before(c, SubSeq(text, i, Len(text))) :
        i \in {j \in 1 .. Len(text) + 1 : j = 1 \/ text[j - 1] = c}}

\* Decoding a form value (RFC 6749 appendix B), one character on: the text
\* so far, whether an escape has begun, whether all escapes were good.
Read(state, c) ==
    IF state.escape
    THEN IF \E d \in DOMAIN Code : Code[d] = c
         THEN [state EXCEPT !.escape = FALSE,
                            !.text = Append(@, CHOOSE d \in DOMAIN Code :
                                                  Code[d] = c)]
         ELSE [state EXCEPT !.valid = FALSE]
    ELSE IF c = "%" THEN [state EXCEPT !.escape = TRUE]
    ELSE [state EXCEPT !.text = Append(@, IF c = "+" THEN " " ELSE c)]

Unread == [text |-> <<>>, escape |-> FALSE, valid |-> TRUE]

Reading(wire) ==
    LET read[n \in 0 .. Len(wire)] ==
            IF n = 0 THEN Unread ELSE Read(read[n - 1], wire[n])
    IN  read[Len(wire)]

FormDecode(wire) ==
    LET last == Reading(wire)
    IN  IF last.valid /\ ~last.escape THEN last.text ELSE <<"malformed">>

ReadPair(part) ==
    <<FormDecode(Before("=", part)), FormDecode(After("=", part))>>

ReadForm(text) == {ReadPair(part) : part \in Parts("&", text)}

\* A query starts at the first question mark.
ReadQuery(url) ==
    IF Position("?", url) > Len(url) THEN {} ELSE ReadForm(After("?", url))
=============================================================================
