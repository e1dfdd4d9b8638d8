----------------------------- MODULE YamlEvents ------------------------------
(***************************************************************************)
(* What a caller of yaml_parser_parse may rely on: the grammar of events   *)
(* that yaml.h and the head of parser.c state.  A stream holds documents,  *)
(* a document holds one node, and a mapping holds pairs of nodes.          *)
(***************************************************************************)
EXTENDS SequencesExt

VARIABLES open,     \* the constructs that are open, the innermost last
          event     \* the event of the last call, or "none" during a call

Expecting == {"DOCUMENT", "SEQUENCE", "KEY", "VALUE"}
AtNode    == open # <<>> /\ Last(open) \in Expecting

\* One more node in the innermost construct.
Filled ==
    LET next == [DOCUMENT |-> "FULL", SEQUENCE |-> "SEQUENCE",
                 KEY |-> "VALUE", VALUE |-> "KEY"]
    IN  Append(Front(open), next[Last(open)])

Init == open = <<>> /\ event = "none"

StreamStart   == open = <<>> /\ open' = <<"STREAM">> /\ event' = "STREAM-START"
StreamEnd     == open = <<"STREAM">> /\ open' = <<"ENDED">> /\ event' = "STREAM-END"
DocumentStart ==
    open = <<"STREAM">> /\ open' = <<"STREAM", "DOCUMENT">> /\ event' = "DOCUMENT-START"
DocumentEnd   ==
    open = <<"STREAM", "FULL">> /\ open' = <<"STREAM">> /\ event' = "DOCUMENT-END"
Leaf          == AtNode /\ open' = Filled /\ event' \in {"SCALAR", "ALIAS"}
SequenceStart ==
    AtNode /\ open' = Append(Filled, "SEQUENCE") /\ event' = "SEQUENCE-START"
MappingStart  == AtNode /\ open' = Append(Filled, "KEY") /\ event' = "MAPPING-START"
SequenceEnd   ==
    AtNode /\ Last(open) = "SEQUENCE" /\ open' = Front(open) /\ event' = "SEQUENCE-END"
MappingEnd    ==
    AtNode /\ Last(open) = "KEY" /\ open' = Front(open) /\ event' = "MAPPING-END"
Call          == event' = "none" /\ UNCHANGED open

Next ==
    \/ StreamStart \/ StreamEnd \/ DocumentStart \/ DocumentEnd
    \/ Leaf \/ SequenceStart \/ MappingStart \/ SequenceEnd \/ MappingEnd
    \/ Call

Spec == Init /\ [][Next]_<<open, event>>

=============================================================================
