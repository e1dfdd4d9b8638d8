----------------------------- MODULE YamlScalar ------------------------------
(***************************************************************************)
(* The functions of libyaml's scanner that turn characters into the value  *)
(* of a token: yaml_parser_scan_flow_scalar for a text between quotes, and *)
(* yaml_parser_scan_tag_uri for the name of a tag.  They run on the reader, *)
(* and have to ask it (CACHE) for every character that they look at.       *)
(***************************************************************************)
EXTENDS YamlReader

CONSTANT InitialStringSize      \* INITIAL_STRING_SIZE

\* The eight digits of \U are the most that is asked for.
ASSUME YamlScalarAssumption == MaxLength >= 8 /\ InitialStringSize \in Nat \ {0}

VARIABLES
    kind,               \* "double", "single": the quotes; "uri": a tag
    at,                 \* the place in the function
    string, whitespaces, leading_break, trailing_breaks, leading_blanks,
    string_size,        \* string.end - string.start; what is not written is 0
    column,             \* mark.column = 0 or not, as 0 or 1
    code_length,        \* of \x, \u and \U
    width,              \* the octets that yaml_parser_scan_uri_escapes is to see
    behind              \* history: it has looked behind the text

strings    == <<string, string_size, whitespaces, leading_break, trailing_breaks>>
scalarVars == <<kind, at, strings, leading_blanks, column, code_length, width, behind>>
vars       == <<readerVars, scalarVars>>

Kinds == {"double", "single", "uri"}

Init ==
    /\ ReaderInit
    /\ kind \in Kinds
    /\ at = IF kind = "uri" THEN "uri" ELSE "start"
    /\ string = <<>> /\ string_size = InitialStringSize /\ whitespaces = <<>>
    /\ leading_break = <<>> /\ trailing_breaks = <<>> /\ leading_blanks = FALSE
    /\ column = 1 /\ code_length = 0 /\ width = 0 /\ behind = FALSE

-----------------------------------------------------------------------------
(* The macros of yaml_private.h.                                           *)

Tab        == 9
LineFeed   == 10
Return     == 13
Space      == 32
Quote      == 34
Percent    == 37
Apostrophe == 39
Minus      == 45
Dot        == 46
Backslash  == 92
NextLine == <<194, 133>>
Separators == {<<226, 128, 168>>, <<226, 128, 169>>}

Here(k, octets) == \A i \in DOMAIN octets : Octet(k + i - 1) = octets[i]

IsZ(k)     == Octet(k) = NUL
IsBlank(k) == Octet(k) \in {Space, Tab}
IsBreak(k) ==
    \/ Octet(k) \in {Return, LineFeed}
    \/ \E break \in {NextLine} \cup Separators : Here(k, break)
IsCRLF(k)   == Here(k, <<Return, LineFeed>>)
IsBlankZ(k) == IsBlank(k) \/ IsBreak(k) \/ IsZ(k)
IsDigit(k)  == Octet(k) \in 48..57
IsHex(k)    == IsDigit(k) \/ Octet(k) \in 65..70 \cup 97..102
AsHex(k)    ==
    CASE IsDigit(k)           -> Octet(k) - 48
      [] Octet(k) \in 65..70  -> Octet(k) - 55
      [] OTHER                -> Octet(k) - 87
IsAlpha(k)  == IsDigit(k) \/ Octet(k) \in 65..90 \cup 97..122 \cup {95, 45}

\* ; / ? : @ & = + $ , . ! ~ * ' ( ) [ ] %
IsUri(k) ==
    \/ IsAlpha(k)
    \/ Octet(k) \in {59, 47, 63, 58, 64, 38, 61, 43, 36, 44, 46, 33, 126, 42, 39,
                     40, 41, 91, 93, 37}

\* STRING_EXTEND: more than five octets are free afterwards.
Extended == IF Len(string) + 5 < string_size THEN string_size ELSE 2 * string_size

\* JOIN: as often doubled as it takes for n more octets and one that is free.
Joined(n) ==
    LET Doubled[size \in Nat] == IF size - Len(string) > n THEN size ELSE Doubled[2 * size]
    IN  IF n = 0 THEN string_size ELSE Doubled[string_size]

\* SKIP and READ: one character; the octets of it.
Skip == Take(Width(Octet(0)), 1) /\ column' = 1

\* SKIP_LINE: a line break, which CR and LF are together.
SkipLine(k) ==
    /\ IF IsCRLF(k) THEN Take(k + 2, k + 2)
       ELSE Take(k + Width(Octet(k)), k + 1)
    /\ column' = 0

\* READ_LINE: what of a line break goes into a string.
Line == IF \E separator \in Separators : Here(0, separator) THEN Copy
        ELSE <<LineFeed>>

-----------------------------------------------------------------------------
\* The place where the function is, with the characters it has asked for.
At(place, n) == doing = "scan" /\ error = "none" /\ at = place /\ Cached(n)

ScannerError ==
    /\ error' = "scanner"
    /\ UNCHANGED <<file, handler, rawVars, encoding, bufferVars, length, first,
                   doing, scalarVars>>

Goto(place) ==
    /\ at' = place
    /\ UNCHANGED <<kind, leading_blanks, code_length, width, behind>>

\* yaml_parser_fetch_next_token: another token than a scalar.
Start ==
    /\ At("start", 4)
    /\ IF Octet(0) = (IF kind = "single" THEN Apostrophe ELSE Quote)
       THEN Skip /\ Goto("line")
       ELSE Goto("other") /\ UNCHANGED <<readerVars, column>>
    /\ UNCHANGED strings

DocumentIndicator ==
    /\ column = 0
    /\ \E c \in {Minus, Dot} : Here(0, <<c, c, c>>)
    /\ IsBlankZ(3)

\* The head of the outer loop.
AtLine ==
    /\ At("line", 4)
    /\ IF DocumentIndicator \/ IsZ(0) THEN ScannerError
       ELSE /\ at' = "chars" /\ leading_blanks' = FALSE
            /\ UNCHANGED <<readerVars, kind, strings, column, code_length, width,
                           behind>>

RightQuote == Octet(0) = (IF kind = "single" THEN Apostrophe ELSE Quote)
Escape     == kind = "double" /\ Octet(0) = Backslash

\* The inner loop: until a blank, a line break or the end of the text.
EscapedQuote == kind = "single" /\ Here(0, <<Apostrophe, Apostrophe>>)

ReadEscapedQuote ==
    /\ At("chars", 2) /\ EscapedQuote
    /\ Take(2, 2) /\ column' = 1
    /\ string' = Append(string, Apostrophe) /\ string_size' = Extended
    /\ Goto("chars") /\ UNCHANGED <<whitespaces, leading_break, trailing_breaks>>

ReadRightQuote ==
    /\ At("chars", 2) /\ RightQuote /\ ~ EscapedQuote
    /\ Skip /\ Goto("done") /\ UNCHANGED strings

\* Mutant: only the line break's first character is asked for.
SkipEscapedBreakEarly ==
    /\ At("chars", 2) /\ Escape /\ IsBreak(1)
    /\ SkipLine(1)
    /\ at' = "end" /\ leading_blanks' = TRUE
    /\ UNCHANGED <<kind, strings, code_length, width, behind>>

SkipEscapedBreak ==
    /\ At("chars", 2) /\ Escape /\ IsBreak(1) /\ Cached(3)
    /\ SkipLine(1)
    /\ at' = "end" /\ leading_blanks' = TRUE
    /\ UNCHANGED <<kind, strings, code_length, width, behind>>

\* Behind the escaped line break the quote is looked for, but not asked for.
EndQuote ==
    /\ At("end", 0)
    /\ IF buffer = <<>>
       THEN /\ behind' = TRUE /\ at' \in {"done", "blanks"}
            /\ UNCHANGED <<readerVars, kind, leading_blanks, column, code_length,
                           width>>
       ELSE IF RightQuote THEN Skip /\ Goto("done")
       ELSE Goto("blanks") /\ UNCHANGED <<readerVars, column>>
    /\ UNCHANGED strings

\* The escapes of one character: 0 a b t TAB n v f r e SPACE " ' \ N _ L P.
Escapes == {<<48, <<0>>>>, <<97, <<7>>>>, <<98, <<8>>>>, <<116, <<9>>>>,
            <<9, <<9>>>>, <<110, <<10>>>>, <<118, <<11>>>>, <<102, <<12>>>>,
            <<114, <<13>>>>, <<101, <<27>>>>, <<32, <<32>>>>, <<34, <<34>>>>,
            <<39, <<39>>>>, <<92, <<92>>>>, <<78, <<194, 133>>>>,
            <<95, <<194, 160>>>>, <<76, <<226, 128, 168>>>>,
            <<80, <<226, 128, 169>>>>}
\* x u U and their digits
Codes == {<<120, 2>>, <<117, 4>>, <<85, 8>>}

ReadEscape ==
    /\ At("chars", 2) /\ Escape /\ ~ IsBreak(1)
    /\ \/ \E escape \in Escapes :
            /\ Octet(1) = escape[1]
            /\ string' = string \o escape[2] /\ string_size' = Extended
            /\ Take(2, 2) /\ column' = 1
            /\ Goto("chars") /\ UNCHANGED <<whitespaces, leading_break, trailing_breaks>>
       \/ \E code \in Codes :
            /\ Octet(1) = code[1]
            /\ code_length' = code[2]
            /\ Take(2, 2) /\ column' = 1
            /\ at' = "code" /\ string_size' = Extended
            /\ UNCHANGED <<kind, string, whitespaces, leading_break,
                           trailing_breaks, leading_blanks, width, behind>>
       \/ /\ \A escape \in Escapes \cup Codes : Octet(1) # escape[1]
          /\ ScannerError

HexValue ==
    FoldLeft(LAMBDA value, digit : value * 16 + digit, 0,
             [k \in 1..code_length |-> AsHex(k - 1)])

\* Numbers that are no characters; a number of 8 digits may be any of 32 bits.
NoCharacter(value) == value \in Surrogates \/ value > MaxChar

ReadCode ==
    /\ At("code", code_length)
    /\ IF (\E k \in 0..(code_length - 1) : ~ IsHex(k)) \/ NoCharacter(HexValue)
       THEN ScannerError
       ELSE /\ Take(code_length, code_length) /\ column' = 1
            /\ string' = string \o Utf8(HexValue)
            /\ at' = "chars" /\ code_length' = 0
            /\ UNCHANGED <<kind, string_size, whitespaces, leading_break,
                           trailing_breaks, leading_blanks, width, behind>>

ReadChar ==
    /\ At("chars", 2) /\ ~ IsBlankZ(0) /\ ~ RightQuote /\ ~ Escape
    /\ Skip /\ string' = string \o Copy /\ string_size' = Extended
    /\ Goto("chars") /\ UNCHANGED <<whitespaces, leading_break, trailing_breaks>>

LeaveChars ==
    /\ At("chars", 2) /\ IsBlankZ(0)
    /\ Goto("blanks") /\ UNCHANGED <<readerVars, strings, column>>

\* The blanks and line breaks behind.
ReadBlank ==
    /\ At("blanks", 1) /\ IsBlank(0)
    /\ Skip
    /\ whitespaces' = IF leading_blanks THEN whitespaces ELSE whitespaces \o Copy
    /\ Goto("blanks")
    /\ UNCHANGED <<string, string_size, leading_break, trailing_breaks>>

ReadBreak ==
    /\ At("blanks", 1) /\ ~ IsBlank(0) /\ IsBreak(0) /\ Cached(2)
    /\ SkipLine(0)
    /\ IF leading_blanks
       THEN trailing_breaks' = trailing_breaks \o Line
            /\ UNCHANGED <<whitespaces, leading_break>>
       ELSE leading_break' = Line /\ whitespaces' = <<>>
            /\ UNCHANGED trailing_breaks
    /\ leading_blanks' = TRUE
    /\ UNCHANGED <<kind, at, string, string_size, code_length, width, behind>>

\* What the blanks and line breaks are in the value of the scalar.
Folded ==
    IF ~ leading_blanks THEN whitespaces
    ELSE IF leading_break = <<LineFeed>>
    THEN IF trailing_breaks = <<>> THEN <<Space>> ELSE trailing_breaks
    ELSE leading_break \o trailing_breaks

JoinOrFold ==
    /\ At("blanks", 1) /\ ~ IsBlank(0) /\ ~ IsBreak(0)
    /\ string' = string \o Folded
    /\ string_size' = IF leading_blanks /\ Folded = <<Space>> THEN Extended
                      ELSE Joined(Len(Folded))
    /\ whitespaces' = <<>> /\ leading_break' = <<>> /\ trailing_breaks' = <<>>
    /\ Goto("line") /\ UNCHANGED <<readerVars, column>>

-----------------------------------------------------------------------------
(* yaml_parser_scan_tag_uri                                                *)

ReadUri ==
    /\ At("uri", 1) /\ IsUri(0) /\ Octet(0) # Percent
    /\ Skip /\ string' = string \o Copy /\ string_size' = Extended
    /\ Goto("uri") /\ UNCHANGED <<whitespaces, leading_break, trailing_breaks>>

UriEscape ==
    /\ At("uri", 1) /\ Octet(0) = Percent
    /\ Goto("octet") /\ UNCHANGED <<readerVars, strings, column>>

\* A value without the 0 that ends it is read on behind its memory.
UriEnds ==
    /\ At("uri", 1) /\ ~ IsUri(0)
    /\ IF string = <<>> THEN ScannerError
       ELSE /\ Goto(IF Len(string) < string_size THEN "done" ELSE "overrun")
            /\ UNCHANGED <<readerVars, strings, column>>

\* yaml_parser_scan_uri_escapes: the octets of one character, one by one, and
\* without STRING_EXTEND.  What follows a write behind the memory is undefined:
\* the model stops there.
ReadUriEscape ==
    LET octet == AsHex(1) * 16 + AsHex(2)
        left  == IF width = 0 THEN Width(octet) - 1 ELSE width - 1
    IN  /\ At("octet", 3)
        /\ IF \/ ~ (Octet(0) = Percent /\ IsHex(1) /\ IsHex(2))
              \/ width = 0 /\ Width(octet) = 0
              \/ width # 0 /\ ~ Trailing(octet)
           THEN ScannerError
           ELSE IF Len(string) >= string_size
           THEN Goto("overrun") /\ UNCHANGED <<readerVars, strings, column>>
           ELSE /\ Take(3, 3) /\ column' = 1
                /\ string' = Append(string, octet)
                /\ width' = left
                /\ at' = IF left = 0 THEN "uri" ELSE "octet"
                /\ UNCHANGED <<kind, string_size, whitespaces, leading_break,
                               trailing_breaks, leading_blanks, code_length, behind>>

-----------------------------------------------------------------------------
\* CACHE: how many characters are asked for at this place.
Asked ==
    CASE at \in {"start", "line"} -> 4
      [] at = "chars" -> IF Cached(2) /\ Escape /\ IsBreak(1) THEN 3 ELSE 2
      [] at = "code" -> code_length
      [] at = "blanks" -> IF Cached(1) /\ IsBreak(0) THEN 2 ELSE 1
      [] at = "uri" -> 1
      [] at = "octet" -> 3
      [] OTHER -> 0

Cache == UpdateBuffer(Asked) /\ UNCHANGED scalarVars

ScanFlowScalar ==
    \/ Start \/ AtLine \/ ReadEscapedQuote \/ ReadRightQuote \/ SkipEscapedBreak
    \/ EndQuote \/ ReadEscape \/ ReadCode \/ ReadChar \/ LeaveChars
    \/ ReadBlank \/ ReadBreak \/ JoinOrFold

ScanTagUri == ReadUri \/ UriEscape \/ UriEnds \/ ReadUriEscape

Next ==
    \/ ReaderStep /\ UNCHANGED scalarVars
    \/ Cache
    \/ ScanFlowScalar
    \/ ScanTagUri

Spec == Init /\ [][Next]_vars /\ WF_vars(Next)

-----------------------------------------------------------------------------
(* Properties.                                                             *)

\* Wherever the handler cuts the file, the reader has taken its octets one
\* after the other, under the encoding that its mark says, and decoded its
\* text; the buffer holds what the scanner has not taken yet, counts its
\* characters right, and ends with the NUL that no look-ahead goes beyond.
TextFaithful ==
    /\ encoding \in {"any", file.encoding}
    /\ raw = SubSeq(file.octets, offset + 1, input)
    /\ IsPrefix(decoded, file.text)
    /\ \E taken \in 0..Len(decoded), nul \in {<<>>, <<NUL>>} :
          /\ buffer = FlattenSeq([i \in 1..(Len(decoded) - taken) |->
                                    Utf8(decoded[taken + i])]) \o nul
          /\ unread = Len(decoded) - taken + Len(nul)
          /\ eof /\ doing = "scan" /\ error \in {"none", "scanner"} =>
                nul # <<>> /\ file.whole /\ decoded = file.text
    /\ error = "reader" => ~ file.whole /\ decoded = file.text

\* What the raw buffer decodes to always fits behind what is left.
BufferFits == start + Len(buffer) <= BufferSize

-----------------------------------------------------------------------------
(* The value that the text means, as a whole.                              *)

NoMeaning == <<-1>>
Then(value, rest) == IF rest = NoMeaning THEN NoMeaning ELSE value \o rest

Chr(i) == IF i \in DOMAIN file.text THEN file.text[i] ELSE NUL

Breaks == {LineFeed, Return, 133, 8232, 8233}
Blanks == {Space, Tab}
Hex    == 48..57 \cup 65..70 \cup 97..102
HexDigit(c) == CASE c \in 48..57 -> c - 48 [] c \in 65..70 -> c - 55 [] OTHER -> c - 87

\* The first character from i on that is neither blank nor break.
NoWhite(i) ==
    CHOOSE j \in i..(Len(file.text) + 1) :
        Chr(j) \notin Blanks \cup Breaks /\ \A k \in i..(j - 1) : Chr(k) \in Blanks \cup Breaks

\* The line breaks from i to before j, each as one character.
BreaksIn(i, j) ==
    LET ends == {k \in i..(j - 1) : Chr(k) \in Breaks
                                    /\ ~ (k > i /\ Chr(k) = LineFeed /\ Chr(k - 1) = Return)}
    IN  [n \in 1..Cardinality(ends) |->
            LET k == CHOOSE e \in ends : Cardinality({f \in ends : f < e}) = n - 1
            IN  IF Chr(k) \in {8232, 8233} THEN Chr(k) ELSE LineFeed]

\* One line break is a space, more are one less; a separator stays.
Fold(i, j) ==
    LET breaks == BreaksIn(i, j) IN
    IF breaks = <<>> THEN SubSeq(file.text, i, j - 1)
    ELSE IF breaks = <<LineFeed>> THEN <<Space>>
    ELSE IF breaks[1] = LineFeed THEN Tail(breaks)
    ELSE breaks

\* "---" or "..." at the beginning of a line ends the document.
EndsDocument(i) ==
    /\ Chr(i - 1) \in Breaks
    /\ \E c \in {Minus, Dot} : Chr(i) = c /\ Chr(i + 1) = c /\ Chr(i + 2) = c
    /\ Chr(i + 3) \in Blanks \cup Breaks \cup {NUL}

EscapeMeans(c) ==
    LET escape == {e \in {<<48, 0>>, <<97, 7>>, <<98, 8>>, <<116, 9>>, <<9, 9>>,
                          <<110, 10>>, <<118, 11>>, <<102, 12>>, <<114, 13>>,
                          <<101, 27>>, <<32, 32>>, <<34, 34>>, <<39, 39>>,
                          <<92, 92>>, <<78, 133>>, <<95, 160>>, <<76, 8232>>,
                          <<80, 8233>>} : e[1] = c}
    IN  {e[2] : e \in escape}

\* The number of the digits from i to before j.
Number(i, j) ==
    SumSet({HexDigit(Chr(k)) * 16 ^ (j - 1 - k) : k \in i..(j - 1)})

DigitsOf(c) == CASE c = 120 -> 2 [] c = 117 -> 4 [] c = 85 -> 8 [] OTHER -> 0

\* The value of a quoted scalar, from its i-th character on.
Quoted ==
    LET quote == IF kind = "single" THEN Apostrophe ELSE Quote
        Value[i \in 1..(Len(file.text) + 1)] ==
          LET c == Chr(i)
              n == Chr(i + 1)
              broken == IF n = Return /\ Chr(i + 2) = LineFeed THEN i + 3 ELSE i + 2
              digits == DigitsOf(n)
              Onwards(j) == IF EndsDocument(j) THEN NoMeaning ELSE Value[j]
              escape ==
                IF n \in Breaks
                THEN Then(BreaksIn(broken, NoWhite(broken)), Onwards(NoWhite(broken)))
                ELSE IF digits > 0
                THEN IF /\ i + 1 + digits \in DOMAIN file.text
                        /\ \A k \in (i + 2)..(i + 1 + digits) : Chr(k) \in Hex
                        /\ ~ NoCharacter(Number(i + 2, i + 2 + digits))
                     THEN Then(<<Number(i + 2, i + 2 + digits)>>, Value[i + 2 + digits])
                     ELSE NoMeaning
                ELSE IF EscapeMeans(n) = {} THEN NoMeaning
                ELSE Then(<<CHOOSE e \in EscapeMeans(n) : TRUE>>, Value[i + 2])
          IN  CASE c = NUL -> NoMeaning
                [] c = quote ->
                      IF kind = "single" /\ n = quote THEN Then(<<quote>>, Value[i + 2])
                      ELSE <<>>
                [] c \in Blanks \cup Breaks ->
                      Then(Fold(i, NoWhite(i)), Onwards(NoWhite(i)))
                [] c = Backslash /\ kind = "double" -> escape
                [] OTHER -> Then(<<c>>, Value[i + 1])
    IN  IF Chr(1) # quote THEN NoMeaning ELSE Value[2]

\* The octets of a tag's name: "%" and two digits are one, and those of one
\* character go together.
TagUri ==
    LET escape(i) == Chr(i) = Percent /\ Chr(i + 1) \in Hex /\ Chr(i + 2) \in Hex
        octet(i)  == HexDigit(Chr(i + 1)) * 16 + HexDigit(Chr(i + 2))
        plain     == (33..126) \ {34, 35, 60, 62, 92, 94, 96, 123, 124, 125, Percent}
        Name[i \in 1..(Len(file.text) + 1)] ==
          LET n == IF escape(i) THEN Width(octet(i)) ELSE 0 IN
          IF Chr(i) \in plain THEN Then(<<Chr(i)>>, Name[i + 1])
          ELSE IF Chr(i) # Percent THEN <<>>
          ELSE IF n > 0 /\ \A k \in 1..(n - 1) :
                             escape(i + 3 * k) /\ Trailing(octet(i + 3 * k))
          THEN Then([k \in 1..n |-> octet(i + 3 * (k - 1))], Name[i + 3 * n])
          ELSE NoMeaning
    IN  IF Name[1] = <<>> THEN NoMeaning ELSE Name[1]

Meaning ==
    IF kind = "uri" THEN TagUri
    ELSE IF Quoted = NoMeaning THEN NoMeaning
    ELSE FlattenSeq([i \in DOMAIN Quoted |-> Utf8(Quoted[i])])

\* Five escapes one after the other, which take the octets that READ leaves.
FiveEscapes ==
    \E i \in DOMAIN decoded : \A k \in 0..4 :
        i + 3 * k \in DOMAIN decoded /\ decoded[i + 3 * k] = Percent

\* However the file was cut, a token's value is what the whole text means, fits
\* into its memory with the 0 behind it, and only a text without a meaning is
\* refused.  There are two exceptions: where a piece ends with an escaped CR LF,
\* the octet behind the text decides; and five escapes of a tag's name, or more,
\* may go beyond the memory, which quoted scalars and other names never do.
ScannedAsMeant ==
    /\ at = "overrun" => kind = "uri" /\ FiveEscapes
    /\ ~ behind =>
        /\ at = "done" => string = Meaning /\ Len(string) < string_size
        /\ error = "scanner" \/ at = "other" => Meaning = NoMeaning
    /\ behind => \E i \in 1..(Len(decoded) - 2) :
          SubSeq(decoded, i, i + 2) = <<Backslash, Return, LineFeed>>

\* The scanner comes to the end of the token or to an error: it does not ask
\* for characters, or read the file, for ever.  (Behind an overrun nothing is
\* said.)
ScanEnds == <>(at \in {"done", "other", "overrun"} \/ error # "none")

=============================================================================
