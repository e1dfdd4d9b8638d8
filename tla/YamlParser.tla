----------------------------- MODULE YamlParser ------------------------------
(***************************************************************************)
(* libyaml's parser (config/yaml/parser.c) on top of its scanner: each     *)
(* call of yaml_parser_parse turns some tokens into one event for the YAML *)
(* loader.  Where the parser looks at the next token and the queue cannot  *)
(* give one out, the scanner goes on first.                                *)
(***************************************************************************)
EXTENDS YamlScanner

CONSTANT MaxStates  \* bound: on a larger stack no flow collection starts

VARIABLES
    state, states,      \* the production the parser is in, and those around it
    marks,              \* the stack of start marks
    pc,                 \* where the call is that runs now, or "idle"
    node,               \* parse_node's arguments, and the properties it has read
    tag_directives,     \* the kinds of tag handles that are declared
    event               \* the last event

parserVars == <<state, states, marks, pc, node, tag_directives, event>>
vars == <<text, scanner, parserVars>>

NoNode == [block |-> FALSE, indentless |-> FALSE, anchor |-> FALSE, tag |-> "none"]

ParserInit ==
    /\ Init
    /\ state = "STREAM-START" /\ states = <<>> /\ marks = <<>>
    /\ pc = "idle" /\ node = NoNode
    /\ tag_directives = {}
    /\ event = "none"

-----------------------------------------------------------------------------
(* Steps that the functions share.                                         *)

\* The function of one of these states looks at a token of these types.
At(where, ins, types) ==
    /\ Available /\ pc \in where /\ state \in ins /\ Token \in types

AllBut(types) == TokenTypes \ types

Keep    == UNCHANGED scanner
Goto(s) == state' = s /\ UNCHANGED states
Pop     == state' = Last(states) /\ states' = Front(states)
Emit(e) == event' = e /\ pc' = "idle" /\ node' = NoNode

\* The function needs the token after this one.
SkipAndSee(where) ==
    /\ SkipToken
    /\ pc' = where
    /\ UNCHANGED <<state, states, node, event>>

ParserError ==
    /\ scanner' = Failed(scanner, "parser")
    /\ UNCHANGED parserVars

\* The arguments of parse_node.
EnterNode(block, indentless) ==
    /\ pc' = "node"
    /\ node' = [NoNode EXCEPT !.block = block, !.indentless = indentless]
    /\ Keep /\ UNCHANGED <<state, marks, tag_directives, event>>

\* A node, after which the parser goes on in the state next.
ParseNode(next, block, indentless) ==
    EnterNode(block, indentless) /\ states' = Append(states, next)

ProcessEmptyScalar(next) ==
    /\ Goto(next) /\ Emit("SCALAR")
    /\ UNCHANGED <<marks, tag_directives>>

\* The end token of a collection.
CloseCollection(e) ==
    /\ Pop /\ SkipToken /\ Emit(e)
    /\ marks' = Front(marks)
    /\ UNCHANGED tag_directives

\* yaml_parser_parse and the dispatch of yaml_parser_state_machine.  After an
\* error or the end of the stream it returns without an event.
Parse ==
    /\ pc = "idle" /\ scanner.error = "none" /\ state # "END"
    /\ IF state = "BLOCK-NODE"
       THEN pc' = "node" /\ node' = [NoNode EXCEPT !.block = TRUE]
       ELSE pc' = "state" /\ UNCHANGED node
    /\ event' = "none"
    /\ Keep /\ UNCHANGED <<state, states, marks, tag_directives>>

-----------------------------------------------------------------------------
(* Streams and documents.                                                  *)

ParseStreamStart ==
    /\ At({"state"}, {"STREAM-START"}, {"STREAM-START"})
    /\ Goto("IMPLICIT-DOCUMENT-START") /\ Emit("STREAM-START") /\ SkipToken
    /\ UNCHANGED <<marks, tag_directives>>

Starting == {"IMPLICIT-DOCUMENT-START", "DOCUMENT-START"}

StartDocument(next) ==
    /\ states' = Append(states, "DOCUMENT-END") /\ state' = next
    /\ tag_directives' = tag_directives \cup {"default"}
    /\ Emit("DOCUMENT-START")
    /\ UNCHANGED marks

ImplicitDocument ==
    /\ At({"state"}, {"IMPLICIT-DOCUMENT-START"},
          AllBut(Directives \cup {"DOCUMENT-START", "STREAM-END"}))
    /\ StartDocument("BLOCK-NODE") /\ Keep

ExplicitDocument ==
    /\ At({"state", "directives", "versioned"}, Starting, {"DOCUMENT-START"})
    /\ StartDocument("DOCUMENT-CONTENT") /\ SkipToken

\* process_directives: at most one %YAML, of version 1.1, and no %TAG twice.
ProcessDirective ==
    /\ At({"state", "directives", "versioned"}, Starting, Directives)
    /\ CASE Token = "VERSION" /\ pc # "versioned" ->
              SkipAndSee("versioned") /\ UNCHANGED <<marks, tag_directives>>
         [] Token = "TAG-DIRECTIVE" /\ "named" \notin tag_directives ->
              /\ SkipAndSee(IF pc = "versioned" THEN pc ELSE "directives")
              /\ tag_directives' = tag_directives \cup {"named"}
              /\ UNCHANGED marks
         [] OTHER -> ParserError

\* Further "..." before an explicit document.
SkipDocumentEnd ==
    /\ At({"state"}, {"DOCUMENT-START"}, {"DOCUMENT-END"})
    /\ SkipAndSee("state") /\ UNCHANGED <<marks, tag_directives>>

\* Mutant: directives at the end of the text are not noticed.
NoDocumentButEnd ==
    /\ At({"directives", "versioned"}, Starting,
          AllBut(Directives \cup {"DOCUMENT-START", "STREAM-END"}))
    /\ ParserError

NoDocument ==
    /\ \/ At({"directives", "versioned"}, Starting,
             AllBut(Directives \cup {"DOCUMENT-START"}))
       \/ At({"state"}, {"DOCUMENT-START"},
             AllBut(Directives \cup {"DOCUMENT-START", "DOCUMENT-END", "STREAM-END"}))
    /\ ParserError

StreamEnd ==
    /\ At({"state"}, Starting, {"STREAM-END"})
    /\ Goto("END") /\ Emit("STREAM-END") /\ SkipToken
    /\ UNCHANGED <<marks, tag_directives>>

Outside == Directives \cup {"DOCUMENT-START", "DOCUMENT-END", "STREAM-END"}

ParseDocumentContent ==
    \/ /\ At({"state"}, {"DOCUMENT-CONTENT"}, Outside)
       /\ Pop /\ Emit("SCALAR") /\ Keep
       /\ UNCHANGED <<marks, tag_directives>>
    \/ /\ At({"state"}, {"DOCUMENT-CONTENT"}, AllBut(Outside))
       /\ EnterNode(TRUE, FALSE) /\ UNCHANGED states

ParseDocumentEnd ==
    /\ At({"state"}, {"DOCUMENT-END"}, TokenTypes)
    /\ IF Token = "DOCUMENT-END" THEN SkipToken ELSE Keep
    /\ tag_directives' = {}
    /\ Goto("DOCUMENT-START") /\ Emit("DOCUMENT-END")
    /\ UNCHANGED marks

-----------------------------------------------------------------------------
(* parse_node                                                              *)

TagOf(token) == IF token = "TAG" THEN "default" ELSE "named"
Bare == ~ node.anchor /\ node.tag = "none"

\* A property that this node may still have.
IsProperty(token) ==
    \/ token = "ANCHOR" /\ ~ node.anchor
    \/ token \in {"TAG", "NAMED-TAG"} /\ node.tag = "none"

AtNode(types) == Available /\ pc = "node" /\ Token \in types

NodeAlias ==
    /\ AtNode({"ALIAS"}) /\ Bare
    /\ Pop /\ SkipToken /\ Emit("ALIAS")
    /\ UNCHANGED <<marks, tag_directives>>

NodeProperty ==
    /\ AtNode({"ANCHOR", "TAG", "NAMED-TAG"}) /\ IsProperty(Token)
    /\ node' = IF Token = "ANCHOR" THEN [node EXCEPT !.anchor = TRUE]
               ELSE [node EXCEPT !.tag = TagOf(Token)]
    /\ SkipToken
    /\ UNCHANGED <<state, states, marks, pc, tag_directives, event>>

\* The properties are read, and the handle of the tag is known.
Content(types) ==
    /\ AtNode(types) /\ ~ IsProperty(Token) /\ ~ (Token = "ALIAS" /\ Bare)
    /\ node.tag \in tag_directives \cup {"none"}

NodeScalar ==
    /\ Content({"SCALAR"})
    /\ Pop /\ SkipToken /\ Emit("SCALAR")
    /\ UNCHANGED <<marks, tag_directives>>

\* A collection: its first token stays in the queue, but for the sequence
\* without indentation, which has none.
StartsHere ==
    {<<"FLOW-SEQUENCE-START", "FLOW-SEQUENCE-FIRST-ENTRY", "SEQUENCE-START">>,
     <<"FLOW-MAPPING-START", "FLOW-MAPPING-FIRST-KEY", "MAPPING-START">>}
    \cup IF ~ node.block THEN {} ELSE
    {<<"BLOCK-SEQUENCE-START", "BLOCK-SEQUENCE-FIRST-ENTRY", "SEQUENCE-START">>,
     <<"BLOCK-MAPPING-START", "BLOCK-MAPPING-FIRST-KEY", "MAPPING-START">>}
    \cup IF ~ node.indentless THEN {} ELSE
    {<<"BLOCK-ENTRY", "INDENTLESS-SEQUENCE-ENTRY", "SEQUENCE-START">>}

NodeCollection ==
    \E start \in StartsHere :
        /\ Content({start[1]})
        /\ Goto(start[2]) /\ Emit(start[3]) /\ Keep
        /\ UNCHANGED <<marks, tag_directives>>

\* Anything else is an empty node, if the properties say that there is one.
NodeOther ==
    /\ Content(AllBut({"SCALAR"} \cup {start[1] : start \in StartsHere}))
    /\ IF Bare THEN ParserError
       ELSE Pop /\ Emit("SCALAR") /\ Keep /\ UNCHANGED <<marks, tag_directives>>

UndefinedTag ==
    /\ AtNode(TokenTypes) /\ ~ IsProperty(Token)
    /\ node.tag \notin tag_directives \cup {"none"}
    /\ ParserError

-----------------------------------------------------------------------------
(* The collections.  The first call skips the start token, at which the    *)
(* collection's mark is taken; here the mark is the depth of nesting.      *)

First == {"BLOCK-SEQUENCE-FIRST-ENTRY", "BLOCK-MAPPING-FIRST-KEY",
          "FLOW-SEQUENCE-FIRST-ENTRY", "FLOW-MAPPING-FIRST-KEY"}

\* Mutant: the mark of a flow mapping is forgotten.
FirstEntryNoMark ==
    /\ At({"state"}, First, TokenTypes)
    /\ marks' = IF state = "FLOW-MAPPING-FIRST-KEY" THEN marks
                ELSE Append(marks, Len(states) + 1)
    /\ SkipAndSee("entry") /\ UNCHANGED tag_directives

FirstEntry ==
    /\ At({"state"}, First, TokenTypes)
    /\ marks' = Append(marks, Len(states) + 1)
    /\ SkipAndSee("entry") /\ UNCHANGED tag_directives

\* At an entry: in a later call, or in the first one behind the start token.
AtEntry(first, later, types) ==
    At({"entry"}, {first}, types) \/ At({"state"}, {later}, types)

\* The node of an entry, or an empty scalar if one of ends is there instead.
Item(ins, ends, next, block, indentless) ==
    \/ At({"item"}, ins, AllBut(ends)) /\ ParseNode(next, block, indentless)
    \/ At({"item"}, ins, ends) /\ ProcessEmptyScalar(next) /\ Keep

SkipIndicator(where) == SkipAndSee(where) /\ UNCHANGED <<marks, tag_directives>>

ParseBlockSequenceEntry ==
    LET first == "BLOCK-SEQUENCE-FIRST-ENTRY"
        later == "BLOCK-SEQUENCE-ENTRY"
    IN  \/ AtEntry(first, later, {"BLOCK-ENTRY"}) /\ SkipIndicator("item")
        \/ Item({first, later}, {"BLOCK-ENTRY", "BLOCK-END"}, later, TRUE, FALSE)
        \/ AtEntry(first, later, {"BLOCK-END"}) /\ CloseCollection("SEQUENCE-END")
        \/ AtEntry(first, later, AllBut({"BLOCK-ENTRY", "BLOCK-END"})) /\ ParserError

\* Mutant: it takes the end of the mapping along.
IndentlessTakesEnd ==
    LET here == "INDENTLESS-SEQUENCE-ENTRY" IN
    \/ At({"state"}, {here}, {"BLOCK-ENTRY"}) /\ SkipIndicator("item")
    \/ Item({here}, {"BLOCK-ENTRY", "KEY", "VALUE", "BLOCK-END"}, here, TRUE, FALSE)
    \/ /\ At({"state"}, {here}, AllBut({"BLOCK-ENTRY"}))
       /\ Pop /\ Emit("SEQUENCE-END")
       /\ IF Token = "BLOCK-END" THEN SkipToken ELSE Keep
       /\ UNCHANGED <<marks, tag_directives>>

\* This one ends before any other token, and has no mark.
ParseIndentlessSequenceEntry ==
    LET here == "INDENTLESS-SEQUENCE-ENTRY" IN
    \/ At({"state"}, {here}, {"BLOCK-ENTRY"}) /\ SkipIndicator("item")
    \/ Item({here}, {"BLOCK-ENTRY", "KEY", "VALUE", "BLOCK-END"}, here, TRUE, FALSE)
    \/ /\ At({"state"}, {here}, AllBut({"BLOCK-ENTRY"}))
       /\ Pop /\ Emit("SEQUENCE-END") /\ Keep
       /\ UNCHANGED <<marks, tag_directives>>

ParseBlockMappingKey ==
    LET first == "BLOCK-MAPPING-FIRST-KEY"
        later == "BLOCK-MAPPING-KEY"
    IN  \/ AtEntry(first, later, {"KEY"}) /\ SkipIndicator("item")
        \/ Item({first, later}, {"KEY", "VALUE", "BLOCK-END"},
                "BLOCK-MAPPING-VALUE", TRUE, TRUE)
        \/ AtEntry(first, later, {"BLOCK-END"}) /\ CloseCollection("MAPPING-END")
        \/ AtEntry(first, later, AllBut({"KEY", "BLOCK-END"})) /\ ParserError

ParseBlockMappingValue ==
    LET here == "BLOCK-MAPPING-VALUE" IN
    \/ At({"state"}, {here}, {"VALUE"}) /\ SkipIndicator("item")
    \/ Item({here}, {"KEY", "VALUE", "BLOCK-END"}, "BLOCK-MAPPING-KEY", TRUE, TRUE)
    \/ /\ At({"state"}, {here}, AllBut({"VALUE"}))
       /\ ProcessEmptyScalar("BLOCK-MAPPING-KEY") /\ Keep

\* Behind the "," there may be another entry, or the end.
ParseFlowSequenceEntry ==
    LET first == "FLOW-SEQUENCE-FIRST-ENTRY"
        later == "FLOW-SEQUENCE-ENTRY"
        end   == "FLOW-SEQUENCE-END"
        both  == {first, later}
    IN  \/ At({"state"}, {later}, {"FLOW-ENTRY"}) /\ SkipIndicator("entry")
        \/ At({"state"}, {later}, AllBut({"FLOW-ENTRY", end})) /\ ParserError
        \/ /\ At({"entry"}, both, {"KEY"})
           /\ Goto("FLOW-SEQUENCE-ENTRY-MAPPING-KEY") /\ Emit("MAPPING-START")
           /\ SkipToken /\ UNCHANGED <<marks, tag_directives>>
        \/ At({"entry"}, both, AllBut({"KEY", end})) /\ ParseNode(later, FALSE, FALSE)
        \/ /\ At({"entry"}, both, {end}) \/ At({"state"}, {later}, {end})
           /\ CloseCollection("SEQUENCE-END")

\* A single pair in a flow sequence.  An empty key takes the token behind
\* it along.
ParsePairKey ==
    LET here == "FLOW-SEQUENCE-ENTRY-MAPPING-KEY"
        next == "FLOW-SEQUENCE-ENTRY-MAPPING-VALUE"
        ends == {"VALUE", "FLOW-ENTRY", "FLOW-SEQUENCE-END"}
    IN  \/ At({"state"}, {here}, AllBut(ends)) /\ ParseNode(next, FALSE, FALSE)
        \/ At({"state"}, {here}, ends) /\ ProcessEmptyScalar(next) /\ SkipToken

ParsePairValue ==
    LET here == "FLOW-SEQUENCE-ENTRY-MAPPING-VALUE"
        next == "FLOW-SEQUENCE-ENTRY-MAPPING-END"
    IN  \/ At({"state"}, {here}, {"VALUE"}) /\ SkipIndicator("item")
        \/ Item({here}, {"FLOW-ENTRY", "FLOW-SEQUENCE-END"}, next, FALSE, FALSE)
        \/ At({"state"}, {here}, AllBut({"VALUE"})) /\ ProcessEmptyScalar(next) /\ Keep

\* Mutant: a single pair has no end event.
ParsePairEndSilent ==
    /\ At({"state"}, {"FLOW-SEQUENCE-ENTRY-MAPPING-END"}, TokenTypes)
    /\ Goto("FLOW-SEQUENCE-ENTRY") /\ Keep
    /\ UNCHANGED <<marks, pc, node, tag_directives, event>>

ParsePairEnd ==
    /\ At({"state"}, {"FLOW-SEQUENCE-ENTRY-MAPPING-END"}, TokenTypes)
    /\ Goto("FLOW-SEQUENCE-ENTRY") /\ Emit("MAPPING-END") /\ Keep
    /\ UNCHANGED <<marks, tag_directives>>

ParseFlowMappingKey ==
    LET first == "FLOW-MAPPING-FIRST-KEY"
        later == "FLOW-MAPPING-KEY"
        end   == "FLOW-MAPPING-END"
        both  == {first, later}
    IN  \/ At({"state"}, {later}, {"FLOW-ENTRY"}) /\ SkipIndicator("entry")
        \/ At({"state"}, {later}, AllBut({"FLOW-ENTRY", end})) /\ ParserError
        \/ At({"entry"}, both, {"KEY"}) /\ SkipIndicator("item")
        \/ Item(both, {"VALUE", "FLOW-ENTRY", end}, "FLOW-MAPPING-VALUE", FALSE, FALSE)
        \/ /\ At({"entry"}, both, AllBut({"KEY", end}))
           /\ ParseNode("FLOW-MAPPING-EMPTY-VALUE", FALSE, FALSE)
        \/ /\ At({"entry"}, both, {end}) \/ At({"state"}, {later}, {end})
           /\ CloseCollection("MAPPING-END")

ParseFlowMappingValue ==
    LET here == "FLOW-MAPPING-VALUE"
        next == "FLOW-MAPPING-KEY"
    IN  \/ At({"state"}, {here}, {"VALUE"}) /\ SkipIndicator("item")
        \/ Item({here}, {"FLOW-ENTRY", "FLOW-MAPPING-END"}, next, FALSE, FALSE)
        \/ /\ \/ At({"state"}, {here}, AllBut({"VALUE"}))
              \/ At({"state"}, {"FLOW-MAPPING-EMPTY-VALUE"}, TokenTypes)
           /\ ProcessEmptyScalar(next) /\ Keep

-----------------------------------------------------------------------------
ParserStep ==
    \/ Parse \/ ParseStreamStart
    \/ ImplicitDocument \/ ExplicitDocument \/ ProcessDirective
    \/ SkipDocumentEnd \/ NoDocument \/ StreamEnd
    \/ ParseDocumentContent \/ ParseDocumentEnd
    \/ NodeAlias \/ NodeProperty \/ NodeScalar \/ NodeCollection \/ NodeOther
    \/ UndefinedTag
    \/ FirstEntry \/ ParseBlockSequenceEntry \/ ParseIndentlessSequenceEntry
    \/ ParseBlockMappingKey \/ ParseBlockMappingValue
    \/ ParseFlowSequenceEntry \/ ParsePairKey \/ ParsePairValue \/ ParsePairEnd
    \/ ParseFlowMappingKey \/ ParseFlowMappingValue

\* A function that looks at the next token has the scanner fetch it.
ScannerStep ==
    /\ pc # "idle" /\ FetchMoreTokens /\ UNCHANGED parserVars
    /\ Len(states) < MaxStates \/ Len(scanner'.keys) <= Len(scanner.keys)

Next == (ScannerStep \/ ParserStep) /\ UNCHANGED text
Spec == ParserInit /\ [][Next]_vars /\ WF_vars(Next)

-----------------------------------------------------------------------------
(* Properties.                                                             *)

\* parse_node has the state that follows it on the stack already, but for the
\* root node of a document.
InNode == pc = "node" /\ state \notin {"BLOCK-NODE", "DOCUMENT-CONTENT"}
Stack  == IF InNode THEN states ELSE Append(states, state)

\* A possible simple key is in the queue and is a token that can be one, and
\* an outer key is before an inner one: fetch_value inserts KEY at the place
\* token_number - tokens_parsed, which nothing checks.
KeysPointAtStarts ==
    LET keys == scanner.keys IN
    \A i \in DOMAIN keys : keys[i].possible =>
        /\ keys[i].pos \in 0..(Len(scanner.tokens) - 1)
        /\ scanner.tokens[keys[i].pos + 1] \in KeyStarts
        /\ \A j \in 1..(i - 1) : keys[j].possible => keys[j].pos < keys[i].pos

Count(seq, types) == Cardinality({i \in DOMAIN seq : seq[i] \in types})

\* The scanner's indents are the block collections that the parser is in, and
\* those that start in the queue but do not end there.
BlocksAgree ==
    LET open == Count(Stack, {"BLOCK-SEQUENCE-ENTRY", "BLOCK-MAPPING-KEY",
                              "BLOCK-MAPPING-VALUE"})
        first == IF /\ state \in {"BLOCK-SEQUENCE-FIRST-ENTRY",
                                  "BLOCK-MAPPING-FIRST-KEY"}
                    /\ pc \in {"entry", "item"} THEN 1 ELSE 0
        starts == Count(scanner.tokens, {"BLOCK-SEQUENCE-START",
                                         "BLOCK-MAPPING-START"})
        ends == Count(scanner.tokens, {"BLOCK-END"})
    IN  scanner.error = "none" =>
            Len(scanner.indents) = open + first + starts - ends

\* The states of a collection that has a mark.
HasMark == {"BLOCK-SEQUENCE-ENTRY", "BLOCK-MAPPING-KEY", "BLOCK-MAPPING-VALUE",
            "FLOW-SEQUENCE-ENTRY", "FLOW-SEQUENCE-ENTRY-MAPPING-KEY",
            "FLOW-SEQUENCE-ENTRY-MAPPING-VALUE", "FLOW-SEQUENCE-ENTRY-MAPPING-END",
            "FLOW-MAPPING-KEY", "FLOW-MAPPING-VALUE", "FLOW-MAPPING-EMPTY-VALUE"}

Marked(i) ==
    Stack[i] \in HasMark \/ (Stack[i] \in First /\ pc \in {"entry", "item"})

\* The stack of marks has exactly one mark for each collection that has begun
\* and needs one, in their order: no end of a collection pops the mark of
\* another one or an empty stack, although one kind of sequence has no mark.
MarksFollowStates ==
    /\ \A i, j \in DOMAIN marks : i < j => marks[i] < marks[j]
    /\ {marks[i] : i \in DOMAIN marks} = {i \in DOMAIN Stack : Marked(i)}

\* What the comments at the assertion of yaml_parser_save_simple_key say,
\* "Therefore it is always allowed" and "Impossible": it never fails.
AssertionHolds == scanner.error # "assert"

\* Where it fails: only on a line that began inside of a scalar or a flow
\* collection.
AssertOnlyInside == ~AssertionHolds => scanner.inside

\* What the events have told so far: the constructs that are open.
Frames(s) ==
    CASE s = "STREAM-START" -> <<>>
      [] s = "END" -> <<"ENDED">>
      [] s \in Starting -> <<"STREAM">>
      [] s = "DOCUMENT-END" -> <<"STREAM", "FULL">>
      [] s \in {"BLOCK-SEQUENCE-FIRST-ENTRY", "BLOCK-SEQUENCE-ENTRY",
                "INDENTLESS-SEQUENCE-ENTRY", "FLOW-SEQUENCE-FIRST-ENTRY",
                "FLOW-SEQUENCE-ENTRY"} -> <<"SEQUENCE">>
      [] s \in {"FLOW-SEQUENCE-ENTRY-MAPPING-KEY",
                "FLOW-SEQUENCE-ENTRY-MAPPING-END"} -> <<"SEQUENCE", "KEY">>
      [] s = "FLOW-SEQUENCE-ENTRY-MAPPING-VALUE" -> <<"SEQUENCE", "VALUE">>
      [] s \in {"BLOCK-MAPPING-VALUE", "FLOW-MAPPING-VALUE",
                "FLOW-MAPPING-EMPTY-VALUE"} -> <<"VALUE">>
      [] OTHER -> <<"KEY">>

\* parse_node has not returned an event yet: its caller is still at this node.
Open ==
    IF state \in {"BLOCK-NODE", "DOCUMENT-CONTENT"} THEN <<"STREAM", "DOCUMENT">>
    ELSE FlattenSeq([i \in 1..Len(states) |->
                        Frames(IF InNode /\ i = Len(states) THEN state
                               ELSE states[i])])
         \o (IF InNode THEN <<>> ELSE Frames(state))

\* The events of any text are a stream of documents with one tree each.
Events == INSTANCE YamlEvents WITH open <- Open
ImplementsEvents == Events!Spec

\* When the text is at its end the parser comes to the end of the stream or
\* to an error, and does not wait for a token or read one for ever.
Finishes == scanner.ended ~> (state = "END" \/ scanner.error # "none")

=============================================================================
