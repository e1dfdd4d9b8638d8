----------------------------- MODULE YamlReader ------------------------------
(***************************************************************************)
(* libyaml's reader (config/yaml/reader.c): it takes octets from a file,   *)
(* as many at a time as the read handler happens to give, decodes them,    *)
(* and keeps the characters for the scanner in a buffer of UTF-8 octets.   *)
(***************************************************************************)
EXTENDS Integers, SequencesExt

CONSTANTS Files,        \* the files: their octets, and the text that they are
          RawSize,      \* INPUT_RAW_BUFFER_SIZE
          BufferSize,   \* INPUT_BUFFER_SIZE
          MaxLength     \* the most characters that the scanner asks for

Octets    == 0..255
MaxChar   == 1114111    \* 0x10FFFF
Encodings == {"UTF-8", "UTF-16LE", "UTF-16BE"}

\* What a file of this encoding is as a text; "whole" says that the text ends
\* with the file and not at octets that are no character.
FileType == [octets : Seq(Octets), encoding : Encodings,
             text : Seq(0..MaxChar), whole : BOOLEAN]

\* The length that is asked for is "significantly less" than the buffer's: the
\* rest must take what the raw buffer decodes to, 3 octets for 2 at most, and
\* the NUL.
ASSUME YamlReaderAssumption ==
    /\ Files \subseteq FileType
    /\ RawSize \in Nat /\ RawSize >= 4
    /\ MaxLength \in Nat \ {0}
    /\ BufferSize \in Nat
    /\ 2 * BufferSize >= 8 * (MaxLength - 1) + 3 * RawSize + 2

VARIABLES
    file,
    handler,            \* which read handler was set
    input,              \* how many octets the handler has given
    raw, raw_start,     \* the raw buffer from its pointer on, and what is before
    eof, encoding, offset,
    buffer, start,      \* the buffer from its pointer on, and what is before
    unread,             \* the characters in it
    length, first,      \* the argument and the local of yaml_parser_update_buffer
    doing,              \* where it is, or "scan" when it is not called
    error,
    decoded             \* history: the characters so far

rawVars    == <<input, raw, raw_start, eof, offset>>
bufferVars == <<buffer, start, unread, decoded>>
readerVars == <<file, handler, rawVars, encoding, bufferVars, length, first,
                doing, error>>

\* yaml_parser_set_input_string, _file and yaml_parser_set_input
Handlers == {"string", "file", "generic"}

ReaderInit ==
    /\ file \in Files /\ handler \in Handlers
    /\ input = 0 /\ raw = <<>> /\ raw_start = 0
    /\ eof = FALSE /\ encoding = "any" /\ offset = 0
    /\ buffer = <<>> /\ start = 0 /\ unread = 0
    /\ length = 0 /\ first = FALSE /\ doing = "scan" /\ error = "none"
    /\ decoded = <<>>

Drop(seq, n) == SubSeq(seq, n + 1, Len(seq))

\* The reader sets its error, and the loader deletes the parser.
ReaderError(kind) ==
    /\ error' = kind /\ doing' = "scan"
    /\ UNCHANGED <<file, handler, rawVars, encoding, bufferVars, length, first>>

-----------------------------------------------------------------------------
(* Characters.                                                             *)

\* The length of a UTF-8 sequence by its first octet.
Width(octet) ==
    CASE octet \in 0..127   -> 1
      [] octet \in 192..223 -> 2
      [] octet \in 224..239 -> 3
      [] octet \in 240..247 -> 4
      [] OTHER -> 0

Trailing(octet) == octet \in 128..191

Char(width, value) == [fault |-> "none", width |-> width, value |-> value]
Fault(fault)       == [fault |-> fault, width |-> 0, value |-> 0]

\* The first octet's bits, and six of each other one.
Utf8Value(octets) ==
    LET more(k) == octets[k] % 64
    IN  CASE Len(octets) = 1 -> octets[1]
          [] Len(octets) = 2 -> (octets[1] % 32) * 64 + more(2)
          [] Len(octets) = 3 -> ((octets[1] % 16) * 64 + more(2)) * 64 + more(3)
          [] OTHER ->
                (((octets[1] % 8) * 64 + more(2)) * 64 + more(3)) * 64 + more(4)

\* No characters: UTF-16 has the higher ones in two of them.
Surrogates == 55296..57343      \* 0xD800..0xDFFF

\* The least value that a sequence of this length is for.
Least(width) == <<0, 128, 2048, 65536>>[width]

Utf8Char(octets) ==
    LET width == Width(octets[1])
        value == Utf8Value(SubSeq(octets, 1, width))
    IN  IF width = 0 THEN Fault("wrong")
        ELSE IF width > Len(octets) THEN Fault("incomplete")
        ELSE IF \/ \E k \in 2..width : ~ Trailing(octets[k])
                \/ value < Least(width) \/ value \in Surrogates \/ value > MaxChar
        THEN Fault("wrong")
        ELSE Char(width, value)

LowSurrogates  == 56320..57343  \* 0xDC00..0xDFFF
HighSurrogates == 55296..56319  \* 0xD800..0xDBFF

Unit(low, high)   == low + high * 256
Pair(unit, unit2) == 65536 + (unit % 1024) * 1024 + (unit2 % 1024)

Utf16Char(octets, low, high) ==
    LET unit  == Unit(octets[1 + low], octets[1 + high])
        unit2 == Unit(octets[3 + low], octets[3 + high])
    IN  IF Len(octets) < 2 THEN Fault("incomplete")
        ELSE IF unit \in LowSurrogates THEN Fault("wrong")
        ELSE IF unit \notin HighSurrogates THEN Char(2, unit)
        ELSE IF Len(octets) < 4 THEN Fault("incomplete")
        ELSE IF unit2 \notin LowSurrogates THEN Fault("wrong")
        ELSE Char(4, Pair(unit, unit2))

\* The characters that a YAML text may have.
Allowed(value) ==
    \/ value \in {9, 10, 13, 133} \/ value \in 32..126
    \/ 160 <= value /\ value < 55296
    \/ 57344 <= value /\ value < 65534
    \/ 65536 <= value /\ value <= MaxChar

\* The next character in the raw buffer.
NextChar ==
    LET char == CASE encoding = "UTF-8"    -> Utf8Char(raw)
                  [] encoding = "UTF-16LE" -> Utf16Char(raw, 0, 1)
                  [] OTHER                 -> Utf16Char(raw, 1, 0)
    IN  CASE char.fault = "incomplete" /\ eof -> Fault("wrong")
          [] char.fault = "none" /\ ~ Allowed(char.value) -> Fault("wrong")
          [] OTHER -> char

\* A character as it is put into the buffer.
Utf8(value) ==
    IF value <= 127 THEN <<value>>
    ELSE IF value <= 2047 THEN <<192 + value \div 64, 128 + (value % 64)>>
    ELSE IF value <= 65535
    THEN <<224 + value \div 4096, 128 + ((value \div 64) % 64), 128 + (value % 64)>>
    ELSE <<240 + value \div 262144, 128 + ((value \div 4096) % 64),
           128 + ((value \div 64) % 64), 128 + (value % 64)>>

NUL == 0

-----------------------------------------------------------------------------
(* yaml_parser_update_raw_buffer                                           *)

Left == Len(file.octets) - input

\* A string and a file fill the room, unless they end before.
StringReadHandler(size) == {Min({size, Left})}
FileReadHandler(size)   == {Min({size, Left})}
ReadHandler(size) ==
    CASE handler = "string" -> StringReadHandler(size)
      [] handler = "file"   -> FileReadHandler(size)
      [] OTHER -> IF Left = 0 THEN {0} ELSE 1..Min({size, Left})

\* Mutant: the end of the file is not noted.
ReadRawForEver ==
    \E size \in ReadHandler(RawSize - Len(raw)) :
        /\ raw' = raw \o SubSeq(file.octets, input + 1, input + size)
        /\ raw_start' = 0
        /\ input' = input + size
        /\ UNCHANGED <<eof, offset>>

\* The octets that are left move to the beginning, and others come behind.
ReadRaw ==
    \E size \in ReadHandler(RawSize - Len(raw)) :
        /\ raw' = raw \o SubSeq(file.octets, input + 1, input + size)
        /\ raw_start' = 0
        /\ input' = input + size
        /\ eof' = (size = 0)
        /\ UNCHANGED offset

RawFull == raw_start = 0 /\ Len(raw) = RawSize

UpdateRaw == IF RawFull \/ eof THEN UNCHANGED rawVars ELSE ReadRaw

\* Only a string cannot fail to be read.
InputError ==
    /\ handler # "string" /\ ~ RawFull /\ ~ eof
    /\ ReaderError("input")

-----------------------------------------------------------------------------
(* yaml_parser_update_buffer                                               *)

\* It has nothing to do.
Cached(n) == unread >= n \/ (eof /\ raw = <<>>)

\* Mutant: the characters that are left stay where they are.
LeaveUnread == UNCHANGED start

\* The characters that are left move to the beginning.
MoveUnread == start' = 0

UpdateBuffer(n) ==
    /\ doing = "scan" /\ error = "none" /\ ~ Cached(n)
    /\ length' = n /\ first' = TRUE
    /\ doing' = IF encoding = "any" THEN "encoding" ELSE "fill"
    /\ MoveUnread
    /\ UNCHANGED <<file, handler, rawVars, encoding, buffer, unread, decoded, error>>

\* yaml_parser_determine_encoding: three octets tell.
ReadMark ==
    /\ doing = "encoding" /\ ~ eof /\ Len(raw) < 3
    /\ \/ /\ UpdateRaw
          /\ UNCHANGED <<file, handler, encoding, bufferVars, length, first,
                         doing, error>>
       \/ InputError

\* Mutant: a mark is looked for in what there is.
DetermineEncodingEarly ==
    LET mark == CASE IsPrefix(<<255, 254>>, raw)      -> <<"UTF-16LE", 2>>
                  [] IsPrefix(<<254, 255>>, raw)      -> <<"UTF-16BE", 2>>
                  [] IsPrefix(<<239, 187, 191>>, raw) -> <<"UTF-8", 3>>
                  [] OTHER                            -> <<"UTF-8", 0>>
    IN  /\ doing = "encoding" /\ (eof \/ Len(raw) >= 1)
        /\ encoding' = mark[1]
        /\ raw' = Drop(raw, mark[2])
        /\ raw_start' = raw_start + mark[2]
        /\ offset' = offset + mark[2]
        /\ doing' = "fill"
        /\ UNCHANGED <<file, handler, input, eof, bufferVars, length, first, error>>

DetermineEncoding ==
    LET mark == CASE IsPrefix(<<255, 254>>, raw)      -> <<"UTF-16LE", 2>>
                  [] IsPrefix(<<254, 255>>, raw)      -> <<"UTF-16BE", 2>>
                  [] IsPrefix(<<239, 187, 191>>, raw) -> <<"UTF-8", 3>>
                  [] OTHER                            -> <<"UTF-8", 0>>
    IN  /\ doing = "encoding" /\ (eof \/ Len(raw) >= 3)
        /\ encoding' = mark[1]
        /\ raw' = Drop(raw, mark[2])
        /\ raw_start' = raw_start + mark[2]
        /\ offset' = offset + mark[2]
        /\ doing' = "fill"
        /\ UNCHANGED <<file, handler, input, eof, bufferVars, length, first, error>>

\* Into the outer loop once more.
Fill ==
    /\ doing = "fill" /\ unread < length
    /\ \/ /\ IF ~ first \/ raw = <<>> THEN UpdateRaw ELSE UNCHANGED rawVars
          /\ first' = FALSE /\ doing' = "decode"
          /\ UNCHANGED <<file, handler, encoding, bufferVars, length, error>>
       \/ (~ first \/ raw = <<>>) /\ InputError

Decode ==
    /\ doing = "decode" /\ raw # <<>> /\ NextChar.fault = "none"
    /\ raw' = Drop(raw, NextChar.width)
    /\ raw_start' = raw_start + NextChar.width
    /\ offset' = offset + NextChar.width
    /\ buffer' = buffer \o Utf8(NextChar.value)
    /\ unread' = unread + 1
    /\ decoded' = Append(decoded, NextChar.value)
    /\ UNCHANGED <<file, handler, input, eof, encoding, start, length, first,
                   doing, error>>

DecodeFails ==
    /\ doing = "decode" /\ raw # <<>> /\ NextChar.fault = "wrong"
    /\ ReaderError("reader")

\* Out of the inner loop; at the end of the file the buffer ends with a NUL.
Decoded ==
    /\ doing = "decode" /\ (raw # <<>> => NextChar.fault = "incomplete")
    /\ IF eof THEN buffer' = Append(buffer, NUL) /\ unread' = unread + 1
       ELSE UNCHANGED <<buffer, unread>>
    /\ doing' = IF eof THEN "scan" ELSE "fill"
    /\ UNCHANGED <<file, handler, rawVars, encoding, start, length, first,
                   error, decoded>>

Filled ==
    /\ doing = "fill" /\ unread >= length
    /\ doing' = "scan"
    /\ UNCHANGED <<file, handler, rawVars, encoding, bufferVars, length, first, error>>

ReaderStep ==
    \/ ReadMark \/ DetermineEncoding \/ Fill \/ Decode \/ DecodeFails
    \/ Decoded \/ Filled

-----------------------------------------------------------------------------
(* What the scanner uses.  It sees octets, and takes characters.           *)

\* An octet behind the text would be whatever the memory holds.
Behind == -1
Octet(k) == IF k < Len(buffer) THEN buffer[k + 1] ELSE Behind

\* This many octets, which are this many characters, are taken.
Take(octets, characters) ==
    /\ buffer' = Drop(buffer, octets)
    /\ start' = start + octets
    /\ unread' = unread - characters
    /\ UNCHANGED <<file, handler, rawVars, encoding, length, first, doing, error,
                   decoded>>

\* COPY: the octets of the next character.
Copy == SubSeq(buffer, 1, Width(Octet(0)))

=============================================================================
