---------------------------- MODULE HTTPResponse ----------------------------
(***************************************************************************)
(* How 3700Crawler reads an answer of a web server                         *)
(* (3700Crawler/networks/http_response.py).                                *)
(*                                                                         *)
(* The bytes of an answer are records [is, n].  One byte stands for a      *)
(* word of the status line, for the text of a header line, or for a piece  *)
(* of the body; line ends, spaces and characters of two bytes are spelled  *)
(* out, since an answer may be cut between any two of its bytes.           *)
(***************************************************************************)
EXTENDS Integers, Sequences, FiniteSetsExt, SequencesExt

Byte(kind, n) == [is |-> kind, n |-> n]

CR      == Byte("cr", 0)
LF      == Byte("lf", 0)
SPACE   == Byte("space", 0)
VERSION == Byte("version", 0)
TEXT    == Byte("text", 0)
LEAD    == Byte("lead", 0)    \* the two bytes of a character that is not ASCII
TRAIL   == Byte("trail", 0)
Missing == Byte("none", 0)    \* what a header has not

LINE_ENDING == <<CR, LF>>
LOGIN_COOKIE_KEY == {"csrftoken", "sessionid"}     \* the cookies of SET-COOKIE
HEADER_CONTENT_LENGTH_KEY == {"length"}

(* bytes.decode: a character cut in two raises; the length of the text is  *)
(* counted in characters.                                                  *)
Decodes(bytes) == bytes # <<>> => Head(bytes) # TRAIL /\ Last(bytes) # LEAD
Chars(bytes) == Cardinality({i \in DOMAIN bytes : bytes[i] # TRAIL})

(* str.partition(LINE_ENDING).                                             *)
LineEnds(text) == {i \in 1 .. Len(text) - 1 : SubSeq(text, i, i + 1) = LINE_ENDING}
Line(text) == IF LineEnds(text) = {} THEN text
              ELSE SubSeq(text, 1, Min(LineEnds(text)) - 1)
AfterLine(text) == IF LineEnds(text) = {} THEN <<>>
                   ELSE SubSeq(text, Min(LineEnds(text)) + 2, Len(text))

-----------------------------------------------------------------------------
(* The status line is split at its spaces; without one, unpacking it       *)
(* raises.  Its second word is the code, 0 standing for one that is no     *)
(* number.                                                                 *)
Spaces(line) == {i \in DOMAIN line : line[i] = SPACE}
HasStatus(line) == Spaces(line) # {}
ResponseCode(line) ==
    LET first == Min(Spaces(line))
        word  == SubSeq(line, first + 1,
                        Min({i \in Spaces(line) : i > first} \cup {Len(line) + 1}) - 1)
    IN  IF Len(word) = 1 /\ word[1].is = "code" THEN word[1].n ELSE 0

(* The loop over the header lines stops at an empty line, which it does    *)
(* not consume, or at a line whose end has not been read.                  *)
LineStarts(text) == {1} \cup {i + 2 : i \in LineEnds(text)}
HeaderEnd(text) ==
    Min({i \in LineStarts(text) : i \in LineEnds(text) \cup {Len(text) + 1}
                                  \/ \A j \in LineEnds(text) : j < i})

(* Of the lines before that it keeps all, but for a first line with        *)
(* nothing after it: what remains is then the same as before, ''.          *)
HeaderLines(text) ==
    IF LineEnds(text) = {Len(text) - 1} THEN {}
    ELSE {i \in LineStarts(text) : i < HeaderEnd(text)}

(* Mutated form: the first of several lines with one key counts.           *)
FirstValue(text, keys) ==
    LET lines == {i \in HeaderLines(text) : text[i].is \in keys}
    IN  IF lines = {} THEN Missing ELSE text[Min(lines)]

(* The dictionary of the header keeps the last line of a key.              *)
Value(text, keys) ==
    LET lines == {i \in HeaderLines(text) : text[i].is \in keys}
    IN  IF lines = {} THEN Missing ELSE text[Max(lines)]

(* deserialize_header, of the bytes that the first recv has returned.      *)
Header(bytes) ==
    LET text == AfterLine(bytes)
    IN  [code   |-> ResponseCode(Line(bytes)),
         cookie |-> Value(text, LOGIN_COOKIE_KEY),
         length |-> Value(text, HEADER_CONTENT_LENGTH_KEY),
         rest   |-> SubSeq(text, HeaderEnd(text), Len(text))]

NoHeader == [code |-> 0, cookie |-> Missing, length |-> Missing, rest |-> <<>>]

(* Mutated form: what has been read of the body is read again.             *)
WholeContentSize(header) == header.length.n

(* What deserialize_response still asks for: nothing if not positive.      *)
RemainingContentSize(header) ==
    IF header.length = Missing THEN 0
    ELSE header.length.n - Chars(header.rest)
=============================================================================
