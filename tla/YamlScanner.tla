----------------------------- MODULE YamlScanner -----------------------------
(***************************************************************************)
(* The scanner of the vendored libyaml (config/yaml/scanner.c), which      *)
(* turns the text of conf.yaml into a queue of tokens for the parser.  The *)
(* text is read lexeme by lexeme; a column is its rank among the columns   *)
(* that the text uses, because the scanner only compares columns.          *)
(***************************************************************************)
EXTENDS Integers, SequencesExt

CONSTANT Texts      \* bound: the kinds of text

Lexemes == {"%", "---", "[", "]", ",", "-", "?", ":", "&", "!", "|",
            "scalar"}

\* The highest column that a text uses, how deep its flow collections nest,
\* how many tokens fit into the 1024 characters of a key, and its lexemes.
ASSUME YamlScannerAssumption ==
    Texts \subseteq [columns : Nat, flows : Nat, key : Nat, lexemes : SUBSET Lexemes]

VARIABLES text,         \* the kind of text that is read
          scanner       \* the scanner's fields of yaml_parser_t

KeyStarts  == {"FLOW-SEQUENCE-START", "FLOW-MAPPING-START", "ALIAS", "ANCHOR",
               "TAG", "NAMED-TAG", "SCALAR"}
Directives == {"VERSION", "OTHER-VERSION", "TAG-DIRECTIVE"}
TokenTypes == KeyStarts \cup Directives \cup
    {"STREAM-START", "STREAM-END", "DOCUMENT-START", "DOCUMENT-END",
     "BLOCK-SEQUENCE-START", "BLOCK-MAPPING-START", "BLOCK-END", "BLOCK-ENTRY",
     "FLOW-SEQUENCE-END", "FLOW-MAPPING-END", "FLOW-ENTRY", "KEY", "VALUE"}

\* The indicators that end a plain scalar, in a flow collection and in a block.
EndsPlain(s) == IF Len(s.keys) > 1 THEN {",", ":", "?", "[", "]"} ELSE {":"}

-----------------------------------------------------------------------------
Columns      == 0..text.columns
FlowLevel(s) == Len(s.keys) - 1
Indent(s)    == IF s.indents = <<>> THEN -1 ELSE Last(s.indents)
Enqueue(s, token) == [s EXCEPT !.tokens = Append(@, token)]
Require(s, holds, error) ==
    IF holds \/ s.error # "none" THEN s ELSE [s EXCEPT !.error = error]

\* A possible simple key: the position of its token in the queue
\* (token_number - tokens_parsed), its column, and whether a ":" must follow.
NoKey == [possible |-> FALSE, required |-> FALSE, pos |-> 0, column |-> 0]
PossibleKey(required, pos, column) ==
    [possible |-> TRUE, required |-> required, pos |-> pos, column |-> column]

\* The keys of the first n levels are on an older line, or too far back.
StaleSimpleKeys(s, n) ==
    [Require(s, \A i \in 1..n : ~ s.keys[i].required, "scanner")
        EXCEPT !.keys = [i \in DOMAIN s.keys |->
                            IF i <= n THEN NoKey ELSE s.keys[i]]]

RemoveSimpleKey(s) ==
    [Require(s, ~ Last(s.keys).required, "scanner")
        EXCEPT !.keys = Append(Front(s.keys), NoKey)]

SaveSimpleKey(s) ==
    LET required == FlowLevel(s) = 0 /\ Indent(s) = s.column
        t == RemoveSimpleKey(s)
        key == PossibleKey(required, Len(s.tokens),
                           IF FlowLevel(s) = 0 THEN s.column ELSE 0)
    IN  IF s.simple_key_allowed
        THEN [t EXCEPT !.keys = Append(Front(t.keys), key)]
        ELSE Require(s, ~ required, "assert")

IncreaseFlowLevel(s) == [s EXCEPT !.keys = Append(@, NoKey)]
DecreaseFlowLevel(s) ==
    IF FlowLevel(s) = 0 THEN s ELSE [s EXCEPT !.keys = Front(@)]

\* A token further to the right than the block it is in opens a new block,
\* whose start token goes to position pos of the queue.
RollIndent(s, column, pos, type) ==
    IF FlowLevel(s) > 0 \/ Indent(s) >= column THEN s
    ELSE [s EXCEPT !.indents = Append(@, column),
                   !.tokens  = InsertAt(@, pos + 1, type)]

\* A token further to the left closes every block it is not in, from the
\* innermost one to the first that is not further to the right.
UnrollIndent(s, column) ==
    LET kept == Max({0} \cup {i \in DOMAIN s.indents : s.indents[i] <= column})
    IN  IF FlowLevel(s) > 0 \/ Indent(s) <= column THEN s
        ELSE [s EXCEPT !.indents = SubSeq(@, 1, kept),
                       !.tokens  = @ \o [i \in 1..(Len(s.indents) - kept)
                                            |-> "BLOCK-END"]]

-----------------------------------------------------------------------------
(* From the end of a lexeme to the next one: blanks, comments, new lines.  *)

\* The levels whose key no longer fits into 1024 characters.  How far the
\* text has come since is up to the text, but text.key tokens are too many.
TooFar(s) ==
    {n \in 0..Len(s.keys) :
        \A i \in (n + 1)..Len(s.keys) :
            s.keys[i].possible => Len(s.tokens) - s.keys[i].pos < text.key}

\* On the same line, where in a flow collection the columns do not matter.
\* Left of its block a plain scalar is over, and anything may stand.
FurtherOn(s) == IF FlowLevel(s) > 0 THEN {s.column} ELSE {c \in Columns : c >= s.column}
FurtherAt(s, n, c) ==
    [StaleSimpleKeys(s, n) EXCEPT
        !.column = c, !.plain = @ /\ (FlowLevel(s) > 0 \/ c > Indent(s))]
SameLine(s) == {FurtherAt(s, n, c) : n \in TooFar(s), c \in FurtherOn(s)}

\* On a new line, which in a block may begin with a simple key.
NewLine(s) ==
    {[StaleSimpleKeys(s, Len(s.keys)) EXCEPT
        !.column = c,
        !.simple_key_allowed = @ \/ FlowLevel(s) = 0,
        !.inside = FlowLevel(s) > 0,
        !.plain = FALSE] : c \in Columns}

ScanToNextToken(s) == SameLine(s) \cup NewLine(s)

\* What can stand where the text is at: a plain scalar goes on until there is
\* something that ends it.
MayStand(s, lexeme) ==
    /\ lexeme \in text.lexemes \cup {"end"}
    /\ s.ended => lexeme = "end"
    /\ s.plain => lexeme \in EndsPlain(s) \cup {"end", "---"}

\* Behind the lexeme, on the same line.
Behind(s) ==
    [s EXCEPT !.column = IF FlowLevel(s) > 0 /\ @ > 0 THEN @ ELSE @ + 1,
              !.plain = FALSE]

\* The text between two quotes, escapes included, may be 1024 characters long;
\* then no key, not even the scalar itself, fits any more.
QuotedOnLine(s) == {StaleSimpleKeys(Behind(s), n) : n \in 0..Len(s.keys)}

\* With a line break in the text the keys are on an older line.
QuotedOverLines(s) ==
    {[StaleSimpleKeys(s, Len(s.keys)) EXCEPT
        !.column = c, !.inside = TRUE, !.plain = FALSE] : c \in Columns \ {0}}

ScanFlowScalar(s) == QuotedOnLine(s) \cup QuotedOverLines(s)

\* A plain scalar runs to an indicator on this line,
PlainOnLine(s) == {StaleSimpleKeys(Behind(s), n) : n \in 0..Len(s.keys)}

\* or on a later line of its block, or to a line break, after which a simple
\* key may follow.
PlainOverLines(s) ==
    LET broken == [StaleSimpleKeys(s, Len(s.keys)) EXCEPT !.inside = TRUE] IN
    {[broken EXCEPT !.column = c] :
        c \in {k \in Columns \ {0} : FlowLevel(s) > 0 \/ k > Indent(s)}}
    \cup {[broken EXCEPT !.column = c,
                         !.inside = FlowLevel(s) > 0,
                         !.simple_key_allowed = TRUE] : c \in Columns}

ScanPlainScalar(s) ==
    {[t EXCEPT !.plain = TRUE] : t \in PlainOnLine(s) \cup PlainOverLines(s)}

\* A block scalar ends before a line that is further to the left.
BlockScalarBreaks(s) == {[s EXCEPT !.column = c] : c \in Columns}
ScanBlockScalar(s) ==
    {[t EXCEPT !.inside = FALSE, !.plain = FALSE] : t \in BlockScalarBreaks(s)}

\* %YAML 1.1 or another version, %TAG; no other name is a directive.
VersionDirective == {"VERSION", "OTHER-VERSION"}
TagDirective     == {"TAG-DIRECTIVE"}

\* A tag's handle is one that every document knows, or one with a name.
ScanTagHandle == {"TAG", "NAMED-TAG"}
ScanTag       == {"TAG"} \cup ScanTagHandle     \* verbatim or with a handle
ScanAnchor    == {"ALIAS", "ANCHOR"}

\* A directive goes on to the end of its line.
ScanDirective(s) ==
    [StaleSimpleKeys(s, Len(s.keys)) EXCEPT
        !.column = 0, !.inside = FlowLevel(s) > 0, !.plain = FALSE]

-----------------------------------------------------------------------------
(* The fetchers: one for each kind of lexeme.  s is the scanner before the *)
(* lexeme, with the blocks closed that it is not in.                       *)

NoScanner ==
    [tokens |-> <<>>, indents |-> <<>>, keys |-> <<>>,
     simple_key_allowed |-> FALSE, column |-> 0,
     inside |-> FALSE,      \* this line began inside of a lexeme
     plain |-> FALSE,       \* the last lexeme was a plain scalar
     ended |-> FALSE, error |-> "none"]

\* A scanner that fails is not read from again, and the loader deletes it.
Failed(s, error) == [NoScanner EXCEPT !.error = error, !.inside = s.inside]
Becomes(s) == scanner' = IF s.error = "none" THEN s ELSE Failed(s, s.error)

Init == text \in Texts /\ scanner = NoScanner

FetchStreamStart ==
    /\ scanner.keys = <<>>
    /\ Becomes(Enqueue([scanner EXCEPT !.keys = <<NoKey>>,
                                       !.simple_key_allowed = TRUE], "STREAM-START"))

\* Directives, document indicators and the end of the text close all blocks.
Reset(s) ==
    [RemoveSimpleKey(UnrollIndent(s, -1)) EXCEPT !.simple_key_allowed = FALSE]

FetchStreamEnd(s) ==
    LET t == [Reset(s) EXCEPT !.column = 0, !.ended = TRUE, !.plain = FALSE]
    IN  /\ MayStand(s, "end")
        /\ Becomes(StaleSimpleKeys(Enqueue(t, "STREAM-END"), Len(s.keys)))

FetchDirective(s) ==
    /\ s.column = 0 /\ MayStand(s, "%")
    /\ \E type \in VersionDirective \cup TagDirective :
          Becomes(ScanDirective(Enqueue(Reset(s), type)))

FetchDocumentIndicator(s) ==
    /\ s.column = 0 /\ MayStand(s, "---")
    /\ \E type \in {"DOCUMENT-START", "DOCUMENT-END"} :
          Becomes(Behind(Enqueue(Reset(s), type)))

FetchFlowCollectionStart(s) ==
    LET t == IncreaseFlowLevel(Behind(SaveSimpleKey(s))) IN
    /\ FlowLevel(s) < text.flows
    /\ MayStand(s, "[")
    /\ \E type \in {"FLOW-SEQUENCE-START", "FLOW-MAPPING-START"} :
          Becomes(Enqueue([t EXCEPT !.simple_key_allowed = TRUE], type))

FetchFlowCollectionEnd(s) ==
    LET t == DecreaseFlowLevel(Behind(RemoveSimpleKey(s))) IN
    /\ MayStand(s, "]")
    /\ \E type \in {"FLOW-SEQUENCE-END", "FLOW-MAPPING-END"} :
          Becomes(Enqueue([t EXCEPT !.simple_key_allowed = FALSE], type))

FetchFlowEntry(s) ==
    LET t == [Behind(RemoveSimpleKey(s)) EXCEPT !.simple_key_allowed = TRUE] IN
    /\ MayStand(s, ",")
    /\ Becomes(Enqueue(t, "FLOW-ENTRY"))

\* In a block, "-", "?" and ":" may stand only where a simple key may.
Allowed(s) == Require(s, FlowLevel(s) > 0 \/ s.simple_key_allowed, "scanner")

FetchBlockEntry(s) ==
    LET rolled == RollIndent(Allowed(s), s.column, Len(s.tokens),
                             "BLOCK-SEQUENCE-START")
        t == [Behind(RemoveSimpleKey(rolled)) EXCEPT !.simple_key_allowed = TRUE]
    IN  /\ MayStand(s, "-")
        /\ Becomes(Enqueue(t, "BLOCK-ENTRY"))

FetchKey(s) ==
    LET rolled == RollIndent(Allowed(s), s.column, Len(s.tokens),
                             "BLOCK-MAPPING-START")
        t == [Behind(RemoveSimpleKey(rolled)) EXCEPT
                !.simple_key_allowed = FlowLevel(s) = 0]
    IN  /\ MayStand(s, "?")
        /\ Becomes(Enqueue(t, "KEY"))

\* A ":" behind a simple key: the KEY token goes before the key, and before
\* that the start of the mapping.
SimpleValue(s) ==
    LET key      == Last(s.keys)
        inserted == [s EXCEPT !.tokens = InsertAt(@, key.pos + 1, "KEY")]
        rolled   == RollIndent(inserted, key.column, key.pos,
                               "BLOCK-MAPPING-START")
    IN  [rolled EXCEPT !.keys = Append(Front(s.keys), NoKey),
                       !.simple_key_allowed = FALSE]

ComplexValue(s) ==
    [RollIndent(Allowed(s), s.column, Len(s.tokens), "BLOCK-MAPPING-START")
        EXCEPT !.simple_key_allowed = FlowLevel(s) = 0]

FetchValue(s) ==
    LET t == IF Last(s.keys).possible THEN SimpleValue(s) ELSE ComplexValue(s) IN
    /\ MayStand(s, ":")
    /\ Becomes(Enqueue(Behind(t), "VALUE"))

\* An alias or an anchor, or a tag: may begin a simple key, as all nodes.
KeyStart(s) == [Behind(SaveSimpleKey(s)) EXCEPT !.simple_key_allowed = FALSE]

FetchAnchor(s) ==
    MayStand(s, "&") /\ \E type \in ScanAnchor : Becomes(Enqueue(KeyStart(s), type))

FetchTag(s) ==
    MayStand(s, "!") /\ \E type \in ScanTag : Becomes(Enqueue(KeyStart(s), type))

FetchBlockScalar(s) ==
    LET t == [RemoveSimpleKey(s) EXCEPT !.simple_key_allowed = TRUE] IN
    /\ FlowLevel(s) = 0 /\ MayStand(s, "|")
    /\ \E u \in ScanBlockScalar(Enqueue(t, "SCALAR")) : Becomes(u)

FetchScalar(s) ==
    LET t == [SaveSimpleKey(s) EXCEPT !.simple_key_allowed = FALSE]
        u == Enqueue(t, "SCALAR")
    IN  /\ MayStand(s, "scalar")
        /\ \E v \in IF u.error = "none"
                   THEN ScanFlowScalar(u) \cup ScanPlainScalar(u) ELSE {u} : Becomes(v)

\* Text that is no lexeme, or that the reader cannot decode.
ScanFails ==
    /\ ~ scanner.ended
    /\ scanner' = Failed(scanner, "scanner")

FetchNextToken ==
    \/ FetchStreamStart
    \/ scanner.keys # <<>> /\ \E at \in ScanToNextToken(scanner) :
         LET s == UnrollIndent(at, at.column) IN
         \/ FetchStreamEnd(s) \/ FetchDirective(s) \/ FetchDocumentIndicator(s)
         \/ FetchFlowCollectionStart(s) \/ FetchFlowCollectionEnd(s)
         \/ FetchFlowEntry(s) \/ FetchBlockEntry(s) \/ FetchKey(s)
         \/ FetchValue(s) \/ FetchAnchor(s) \/ FetchTag(s)
         \/ FetchBlockScalar(s) \/ FetchScalar(s)
    \/ ScanFails

-----------------------------------------------------------------------------
(* What the parser uses.                                                   *)

\* Mutant: only the innermost key keeps its token back.
NeedMoreForInnermost(s) ==
    \/ s.tokens = <<>>
    \/ \E i \in {Len(s.keys)} \ {0} : s.keys[i].possible /\ s.keys[i].pos = 0

\* A token that may still turn out to be a simple key is not given out.
NeedMoreTokens(s) ==
    \/ s.tokens = <<>>
    \/ \E i \in DOMAIN s.keys : s.keys[i].possible /\ s.keys[i].pos = 0

Available == scanner.error = "none" /\ ~ NeedMoreTokens(scanner)

FetchMoreTokens ==
    /\ scanner.error = "none"
    /\ NeedMoreTokens(scanner)
    /\ FetchNextToken

Token == Head(scanner.tokens)

\* A key is where it was, in a queue with one token less.
MovedUp(key) == IF key.possible THEN [key EXCEPT !.pos = @ - 1] ELSE key

SkipToken ==
    scanner' = [scanner EXCEPT
        !.tokens = Tail(@),
        !.keys = [i \in DOMAIN @ |-> MovedUp(@[i])]]

=============================================================================
