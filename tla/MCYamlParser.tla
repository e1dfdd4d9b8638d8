---------------------------- MODULE MCYamlParser -----------------------------
EXTENDS YamlParser

Text(columns, flows, key, lexemes) ==
    [columns |-> columns, flows |-> flows, key |-> key, lexemes |-> lexemes]

Flow == {"[", "]", ",", ":", "scalar"}

MCTexts ==
    {Text(1, 0, 3, Lexemes),                    \* blocks, documents, properties
     Text(2, 0, 2, {"-", ":", "?", "scalar"}),  \* blocks three deep
     Text(1, 1, 3, Flow \cup {"-"}),            \* flow collections in blocks
     Text(0, 1, 2, Flow \cup {"&", "!"}),            \* properties in flow collections
     Text(0, 1, 3, Flow \cup {"?"}),            \* explicit keys in them
     Text(0, 2, 3, Flow)}                       \* flow collections in each other

=============================================================================
