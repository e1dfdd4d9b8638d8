---------------------------- MODULE MCYamlScalar -----------------------------
(* Short files of every encoding, cut anywhere. *)
EXTENDS YamlScalar

\* A few characters of each width, with their octets in UTF-8 and UTF-16BE.
Wide == {[char |-> 233,    utf8 |-> <<195, 169>>,           utf16 |-> <<0, 233>>],
         [char |-> 133,    utf8 |-> <<194, 133>>,           utf16 |-> <<0, 133>>],
         [char |-> 8232,   utf8 |-> <<226, 128, 168>>,      utf16 |-> <<32, 40>>],
         [char |-> 128512, utf8 |-> <<240, 159, 152, 128>>,
                           utf16 |-> <<216, 61, 222, 0>>]}
Swapped(octets) == [i \in DOMAIN octets |-> IF i % 2 = 1 THEN octets[i + 1] ELSE octets[i - 1]]

ASSUME \A w \in Wide : Utf8(w.char) = w.utf8

OctetsOf(char, enc) ==
    LET wide == {w \in Wide : w.char = char} IN
    IF wide = {}
    THEN CASE enc = "UTF-8" -> <<char>> [] enc = "UTF-16BE" -> <<0, char>>
           [] OTHER -> <<char, 0>>
    ELSE LET w == CHOOSE w \in wide : TRUE IN
         CASE enc = "UTF-8" -> w.utf8 [] enc = "UTF-16BE" -> w.utf16
           [] OTHER -> Swapped(w.utf16)

Mark(enc) == CASE enc = "UTF-8" -> <<239, 187, 191>> [] enc = "UTF-16BE" -> <<254, 255>>
               [] OTHER -> <<255, 254>>
Encoded(text, enc) == FlattenSeq([i \in DOMAIN text |-> OctetsOf(text[i], enc)])

Whole(text, enc, mark) ==
    [octets |-> (IF mark THEN Mark(enc) ELSE <<>>) \o Encoded(text, enc),
     encoding |-> enc, text |-> text, whole |-> TRUE]
\* The text is followed by octets that are no character.
Broken(text, enc, octets) ==
    [octets |-> Mark(enc) \o Encoded(text, enc) \o octets,
     encoding |-> enc, text |-> text, whole |-> FALSE]

Tests == {
    <<>>, <<34>>, <<34, 34>>, <<97, 34>>,
    <<34, 233, 32, 9, 128512, 34>>,
    <<34, 97, 32, 13, 10, 32, 97, 34>>,                 \* a CR LF, folded
    <<34, 97, 10, 13, 10, 8232, 34>>,
    <<34, 133, 8232, 10, 97, 34>>,
    <<34, 8232, 10, 34>>,
    <<34, 32, 92, 13, 10, 9, 10, 34>>, <<34, 92, 13, 10, 34>>, \* escaped breaks
    <<34, 97, 92, 13, 10, 34>>, <<34, 97, 97, 97, 97, 92, 13, 10, 32, 34>>,
    <<34, 92, 133, 97, 34>>,
    <<34, 92, 120, 52, 49, 92, 117, 50, 48, 50, 56, 34>>,   \* \x41\u2028
    <<34, 92, 85, 48, 48, 48, 49, 102, 54, 48, 48, 34>>,
    <<34, 92, 85, 48, 48, 49, 49, 48, 48, 48, 48, 34>>, \* \U00110000
    <<34, 92, 120, 52>>, <<34, 92, 113, 34>>, <<34, 92>>,
    <<34, 92, 76, 92, 34, 92, 48, 34, 97>>,             \* \L\"\0
    <<34, 10, 45, 45, 45, 32, 34>>, <<34, 10, 46, 46, 46, 97, 34>>,
    <<39, 39, 39, 97, 39>>, <<39, 92, 10, 10, 39>>, <<39, 97, 10, 32>>,
    <<97, 37, 67, 51, 37, 65, 57, 47>>,                 \* a%C3%A9/
    <<37, 52, 49, 37, 67, 51, 97>>, <<37, 56, 48>>, <<37, 52>>, <<33, 32>>}

\* Tags whose escapes fill the string, or do not: n plain characters, then m times
\* %41, then more.
Escaped(n, m, more) ==
    [i \in 1..n |-> 97] \o FlattenSeq([i \in 1..m |-> <<37, 52, 49>>]) \o more
Tags == {Escaped(0, 15, <<97>>), Escaped(0, 16, <<97>>), Escaped(0, 17, <<>>),
         Escaped(10, 5, <<>>), Escaped(11, 5, <<>>), Escaped(11, 6, <<>>),
         Escaped(12, 6, <<>>)}

\* Quoted scalars that come to the end of the string with an escape, blanks, or a
\* character of four octets.
Long == {<<34>> \o [i \in 1..n |-> 97] \o <<92, 76, 32, 9, 128512, 34>> : n \in 6..14}

MCFiles ==
    {Whole(t, "UTF-8", FALSE) : t \in Tags \cup Long}
    \cup {Whole(t, "UTF-8", m) : t \in Tests, m \in BOOLEAN}
    \cup {Whole(t, e, TRUE) : t \in Tests, e \in {"UTF-16LE", "UTF-16BE"}}
    \cup {Broken(<<34, 97>>, "UTF-8", o) :
            o \in {<<128>>, <<195>>, <<226, 128>>, <<226, 128, 34>>, <<193, 161>>,
                   <<237, 160, 128>>, <<244, 144, 128, 128>>, <<248>>, <<7>>}}
    \cup {Broken(<<34>>, "UTF-16LE", o) :
            o \in {<<34>>, <<0, 220>>, <<61, 216>>, <<61, 216, 0>>, <<61, 216, 97, 0>>,
                   <<254, 255>>}}
    \cup {Whole(<<34>> \o [i \in 1..40 |-> 8232] \o <<34>>, "UTF-8", FALSE)}

=============================================================================
