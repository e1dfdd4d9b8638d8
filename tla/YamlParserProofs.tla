--------------------------- MODULE YamlParserProofs ---------------------------
(***************************************************************************)
(* Proofs about YamlParser for any text and any depth of nesting.  The     *)
(* second part is about the scanner that it calls: where the simple keys   *)
(* are in the queue, where the text is when the assertion of               *)
(* yaml_parser_save_simple_key fails, and that the columns on its stack of *)
(* indents are the block collections that the parser is in.                *)
(***************************************************************************)
EXTENDS YamlParser, SequenceTheorems, FiniteSetTheorems, WellFoundedInduction, TLAPS

\* The states in which no collection and no document is open, and the others.
Outer == {"STREAM-START", "DOCUMENT-END", "END"} \cup Starting
Pushed == {"DOCUMENT-END", "INDENTLESS-SEQUENCE-ENTRY"} \cup HasMark
Inner == {"BLOCK-NODE", "DOCUMENT-CONTENT"} \cup First \cup (Pushed \ {"DOCUMENT-END"})
PCs   == {"idle", "state", "directives", "versioned", "node", "entry", "item"}

ParserTypes ==
    /\ state \in Outer \cup Inner
    /\ states \in Seq(Pushed)
    /\ marks \in Seq(Nat)
    /\ pc \in PCs

\* The outermost state that waits is the one behind the document.
Nesting ==
    /\ state \in Outer <=> states = <<>>
    /\ \A i \in 1..Len(states) : states[i] = "DOCUMENT-END" <=> i = 1
    /\ pc = "node" => state \in Inner

Rising(seq) == \A i, j \in 1..Len(seq) : i < j => seq[i] < seq[j]
Elements(seq) == {seq[i] : i \in 1..Len(seq)}

\* The levels below the current one that have a mark, and the current one.
Around(stack) == {i \in 1..Len(stack) : stack[i] \in HasMark}
Own ==
    /\ ~ InNode
    /\ state \in HasMark \/ (state \in First /\ pc \in {"entry", "item"})
OwnLevel == IF Own THEN {Len(states) + 1} ELSE {}

MarksInv == Rising(marks) /\ Elements(marks) = Around(states) \cup OwnLevel

ParserInv == ParserTypes /\ Nesting /\ MarksInv

-----------------------------------------------------------------------------
(* The two stacks.                                                         *)

LEMMA FrontFacts ==
  ASSUME NEW S, NEW seq \in Seq(S), seq # <<>>
  PROVE  /\ Len(seq) \in Nat \ {0}
         /\ Front(seq) \in Seq(S) /\ Len(Front(seq)) = Len(seq) - 1
         /\ \A i \in 1..(Len(seq) - 1) : Front(seq)[i] = seq[i]
         /\ Last(seq) = seq[Len(seq)] /\ Last(seq) \in S
<1>1. Len(seq) \in Nat \ {0} /\ \A i \in 1..Len(seq) : seq[i] \in S
  BY EmptySeq, ElementOfSeq
<1>2. /\ Front(seq) \in Seq(S) /\ Len(Front(seq)) = Len(seq) - 1
      /\ \A i \in 1..(Len(seq) - 1) : Front(seq)[i] = seq[i]
  <2> DEFINE n == Len(seq) - 1
  <2>1. n \in Int /\ 1 \in Int /\ \A i \in 1..n : seq[i] \in S
    BY <1>1
  <2>2. /\ SubSeq(seq, 1, n) \in Seq(S)
        /\ Len(SubSeq(seq, 1, n)) = IF 1 <= n THEN n - 1 + 1 ELSE 0
        /\ \A i \in 1 .. n - 1 + 1 : SubSeq(seq, 1, n)[i] = seq[1 + i - 1]
    BY <2>1, SubSeqProperties
  <2>3. Front(seq) = SubSeq(seq, 1, n)
    BY DEF Front
  <2>4. n \in Nat
    BY <1>1
  <2> HIDE DEF n
  <2>5. n - 1 + 1 = n /\ (IF 1 <= n THEN n - 1 + 1 ELSE 0) = n
        /\ \A i \in 1..n : 1 + i - 1 = i
    BY <2>4
  <2>6. /\ Front(seq) \in Seq(S) /\ Len(Front(seq)) = n
        /\ \A i \in 1..n : Front(seq)[i] = seq[i]
    BY <2>2, <2>3, <2>5, Zenon
  <2> QED
    BY <2>6 DEF n
<1> QED
  BY <1>1, <1>2 DEF Last

\* A state that is pushed is one level more.
LEMMA PushState ==
  ASSUME NEW stack \in Seq(Pushed), NEW next \in Pushed
  PROVE  /\ Append(stack, next) \in Seq(Pushed)
         /\ Len(Append(stack, next)) = Len(stack) + 1
         /\ Around(Append(stack, next)) =
                Around(stack) \cup IF next \in HasMark THEN {Len(stack) + 1} ELSE {}
BY SMTT(30) DEF Around

\* A state that is popped is one level less.
LEMMA PopState ==
  ASSUME NEW stack \in Seq(Pushed), stack # <<>>
  PROVE  /\ Front(stack) \in Seq(Pushed) /\ Last(stack) \in Pushed
         /\ Len(Front(stack)) + 1 = Len(stack)
         /\ \A i \in 1..Len(Front(stack)) : Front(stack)[i] = stack[i]
         /\ Around(stack) = Around(Front(stack)) \cup
                IF Last(stack) \in HasMark THEN {Len(stack)} ELSE {}
BY FrontFacts, ElementOfSeq, SMTT(30) DEF Around, Last

\* A mark above all the others keeps them in order.
LEMMA PushMark ==
  ASSUME NEW seq \in Seq(Nat), Rising(seq), NEW n \in Nat,
         \A x \in Elements(seq) : x < n
  PROVE  /\ Append(seq, n) \in Seq(Nat) /\ Rising(Append(seq, n))
         /\ Elements(Append(seq, n)) = Elements(seq) \cup {n}
BY SMTT(30) DEF Rising, Elements

\* The last mark is the highest.
LEMMA PopMark ==
  ASSUME NEW seq \in Seq(Nat), Rising(seq), NEW A \in SUBSET Nat, NEW n \in Nat,
         Elements(seq) = A \cup {n}, \A x \in A : x < n
  PROVE  /\ Front(seq) \in Seq(Nat) /\ Rising(Front(seq))
         /\ Elements(Front(seq)) = A
<1>1. PICK k \in 1..Len(seq) : seq[k] = n
  BY DEF Elements
<1>2. k = Len(seq)
  <2>1. SUFFICES ASSUME k < Len(seq) PROVE FALSE
    OBVIOUS
  <2>2. seq[Len(seq)] > n /\ seq[Len(seq)] \in A \cup {n}
    BY <1>1, <2>1 DEF Rising, Elements
  <2> QED
    BY <2>2
<1>3. /\ Front(seq) \in Seq(Nat) /\ Len(Front(seq)) = Len(seq) - 1
      /\ \A i \in 1..(Len(seq) - 1) : Front(seq)[i] = seq[i]
  <2>1. seq # <<>>
    BY <1>1, EmptySeq
  <2> QED
    BY <2>1, FrontFacts
<1>4. \A i \in 1..(Len(seq) - 1) : seq[i] < n
  BY <1>1, <1>2 DEF Rising
<1>5. Rising(Front(seq))
  <2>1. \A i \in 1..Len(Front(seq)) : i \in 1..Len(seq) /\ Front(seq)[i] = seq[i]
    BY <1>1, <1>3
  <2> QED
    BY <2>1 DEF Rising
<1>6. Elements(Front(seq)) \subseteq A
  <2>1. SUFFICES ASSUME NEW i \in 1..(Len(seq) - 1) PROVE seq[i] \in A
    BY <1>3, Zenon DEF Elements
  <2>2. seq[i] \in A \cup {n} /\ seq[i] < n
    BY <1>1, <1>4 DEF Elements
  <2> QED
    BY <2>2
<1>7. A \subseteq Elements(Front(seq))
  <2>1. SUFFICES ASSUME NEW x \in A PROVE x \in Elements(Front(seq))
    OBVIOUS
  <2>2. PICK i \in 1..Len(seq) : seq[i] = x
    BY DEF Elements
  <2>3. i \in 1..(Len(seq) - 1)
    BY <1>1, <1>2, <2>2
  <2> QED
    BY <1>3, <2>2, <2>3 DEF Elements
<1> QED
  BY <1>3, <1>5, <1>6, <1>7

-----------------------------------------------------------------------------
(* Flattening.  It is a recursive function; a least counterexample takes    *)
(* the place of an induction along the sequence.                            *)

LEMMA Least ==
  ASSUME NEW T \in SUBSET Nat, T # {} PROVE \E x \in T : \A y \in T : x <= y
<1> DEFINE R == OpToRel(<, Nat)
<1>1. IsWellFoundedOn(R, Nat)
  BY NatLessThanWellFounded
<1>2. R = {ss \in Nat \X Nat : ss[1] < ss[2]}
  BY DEF OpToRel
<1> HIDE DEF R
<1>3. PICK x \in T : \A y \in T : ~ (<<y, x>> \in R)
  BY <1>1, WFMin
<1>4. ASSUME NEW y \in T PROVE x <= y
  <2>1. x \in Nat /\ y \in Nat
    OBVIOUS
  <2>2. y < x => <<y, x>> \in R
    BY <1>2, <2>1
  <2> QED
    BY <1>3, <2>1, <2>2
<1> QED
  BY <1>4

\* f joins the first n sequences of seqs, one after the other.
Joins(seqs, n, f) ==
    f = [i \in 1..n |-> IF i = 1 THEN seqs[i] ELSE f[i - 1] \o seqs[i]]

LEMMA JoinsSteps ==
  ASSUME NEW seqs, NEW n \in Nat, NEW f, Joins(seqs, n, f)
  PROVE  /\ 1 <= n => f[1] = seqs[1]
         /\ \A i \in 2..n : f[i] = f[i - 1] \o seqs[i]
<1> DEFINE h == [i \in 1..n |-> IF i = 1 THEN seqs[i] ELSE f[i - 1] \o seqs[i]]
<1>1. f = h
  BY DEF Joins
<1>2. \A i \in 1..n : h[i] = IF i = 1 THEN seqs[i] ELSE f[i - 1] \o seqs[i]
  OBVIOUS
<1> HIDE DEF h
<1>3. \A i \in 1..n : f[i] = IF i = 1 THEN seqs[i] ELSE f[i - 1] \o seqs[i]
  BY <1>1, <1>2
<1>4. 1 <= n => 1 \in 1..n
  OBVIOUS
<1>5. \A i \in 2..n : i \in 1..n /\ i # 1
  OBVIOUS
<1> QED
  BY <1>3, <1>4, <1>5, Zenon

LEMMA JoinsExist == ASSUME NEW seqs, NEW n \in Nat PROVE \E f : Joins(seqs, n, f)
<1> DEFINE T == {m \in Nat : ~ \E f : Joins(seqs, m, f)}
<1>1. SUFFICES ASSUME T # {} PROVE FALSE
  OBVIOUS
<1>2. PICK m \in T : \A j \in T : m <= j
  BY <1>1, Least
<1>3. CASE m = 0
  <2> DEFINE f == [i \in 1..0 |-> <<>>]
             h == [i \in 1..0 |-> IF i = 1 THEN seqs[i] ELSE f[i - 1] \o seqs[i]]
  <2>1. f = h
    OBVIOUS
  <2>2. Joins(seqs, 0, f)
    BY <2>1 DEF Joins
  <2> QED
    BY <1>2, <1>3, <2>2
<1>4. CASE m # 0
  <2>1. m \in Nat /\ m - 1 \in Nat /\ m - 1 \notin T
    BY <1>2, <1>4
  <2>2. PICK f : Joins(seqs, m - 1, f)
    BY <2>1
  <2> DEFINE last == IF m = 1 THEN seqs[m] ELSE f[m - 1] \o seqs[m]
             g == [i \in 1..m |-> IF i = m THEN last ELSE f[i]]
             h == [i \in 1..m |-> IF i = 1 THEN seqs[i] ELSE g[i - 1] \o seqs[i]]
  <2>3. /\ 1 <= m - 1 => f[1] = seqs[1]
        /\ \A i \in 2..(m - 1) : f[i] = f[i - 1] \o seqs[i]
    BY <2>1, <2>2, JoinsSteps
  <2>4. \A i \in 1..m : g[i] = IF i = m THEN last ELSE f[i]
    OBVIOUS
  <2>5. \A i \in 1..m : h[i] = IF i = 1 THEN seqs[i] ELSE g[i - 1] \o seqs[i]
    OBVIOUS
  <2>6. last = IF m = 1 THEN seqs[m] ELSE f[m - 1] \o seqs[m]
    OBVIOUS
  <2>7. DOMAIN g = 1..m /\ DOMAIN h = 1..m
    OBVIOUS
  <2>8. Joins(seqs, m, g) <=> g = h
    BY DEF Joins
  <2>9. g = [i \in 1..m |-> g[i]] /\ h = [i \in 1..m |-> h[i]]
    OBVIOUS
  <2> HIDE DEF g, h, last
  <2>10. \A i \in 1..m : g[i] = h[i]
    <3> TAKE i \in 1..m
    <3>1. CASE i = 1
      BY <2>1, <2>3, <2>4, <2>5, <2>6, <3>1
    <3>2. CASE i # 1
      <4>1. i \in 2..m /\ i - 1 \in 1..(m - 1) /\ i - 1 \in 1..m
        BY <2>1, <3>2
      <4>2. g[i - 1] = f[i - 1] /\ h[i] = f[i - 1] \o seqs[i]
        <5>1. i - 1 # m
          BY <2>1, <4>1
        <5>2. g[i - 1] = f[i - 1]
          BY <2>4, <4>1, <5>1, Zenon
        <5>3. h[i] = g[i - 1] \o seqs[i]
          BY <2>5, <3>2, Zenon
        <5> QED
          BY <5>2, <5>3, Zenon
      <4>3. CASE i = m
        <5>1. g[i] = last /\ last = f[i - 1] \o seqs[i]
          BY <2>4, <2>6, <3>2, <4>3, Zenon
        <5> QED
          BY <4>2, <5>1, Zenon
      <4>4. CASE i # m
        <5>1. i \in 2..(m - 1) /\ i \in 1..m
          BY <2>1, <4>1, <4>4
        <5>2. g[i] = f[i] /\ f[i] = f[i - 1] \o seqs[i]
          BY <2>3, <2>4, <4>4, <5>1, Zenon
        <5> QED
          BY <4>2, <5>2, Zenon
      <4> QED
        BY <4>3, <4>4
    <3> QED
      BY <3>1, <3>2
  <2>11. g = h
    BY <2>9, <2>10, Zenon
  <2> QED
    BY <1>2, <2>8, <2>11
<1> QED
  BY <1>3, <1>4

\* Two joins of the same sequences are the same, as far as both go.
Agree(f, g, n) == \A i \in 1..n : f[i] = g[i]

LEMMA JoinsAgree ==
  ASSUME NEW seqs, NEW other, NEW n \in Nat, NEW m \in Nat, m <= n,
         NEW f, NEW g, Joins(seqs, n, f), Joins(other, m, g),
         Agree(seqs, other, m)
  PROVE  Agree(f, g, m)
<1> DEFINE T == {k \in 1..m : f[k] # g[k]}
<1>1. SUFFICES ASSUME T # {} PROVE FALSE
  BY DEF Agree
<1>2. PICK k \in T : \A j \in T : k <= j
  <2>1. T \in SUBSET Nat
    OBVIOUS
  <2> HIDE DEF T
  <2> QED
    BY <1>1, <2>1, Least
<1>3. /\ 1 <= n => f[1] = seqs[1]
      /\ \A i \in 2..n : f[i] = f[i - 1] \o seqs[i]
  BY JoinsSteps
<1>4. /\ 1 <= m => g[1] = other[1]
      /\ \A i \in 2..m : g[i] = g[i - 1] \o other[i]
  BY JoinsSteps
<1>5. k \in 1..m /\ f[k] # g[k] /\ k # 1
  BY <1>2, <1>3, <1>4 DEF Agree
<1>6. k - 1 \in 1..m /\ k - 1 \notin T /\ k \in 2..m /\ k \in 2..n
  BY <1>2, <1>5
<1>7. f[k - 1] = g[k - 1] /\ seqs[k] = other[k]
  BY <1>5, <1>6 DEF Agree
<1>8. f[k] = f[k - 1] \o seqs[k] /\ g[k] = g[k - 1] \o other[k]
  BY <1>3, <1>4, <1>6
<1> QED
  BY <1>5, <1>7, <1>8

LEMMA FlattenIs ==
  ASSUME NEW seqs, NEW n \in Nat, n # 0, Len(seqs) = n, NEW f, Joins(seqs, n, f)
  PROVE  FlattenSeq(seqs) = f[n]
<1> DEFINE g == CHOOSE g : Joins(seqs, n, g)
<1>1. Joins(seqs, n, g)
  BY JoinsExist
<1>2. FlattenSeq(seqs) = g[n]
  BY DEF FlattenSeq, Joins
<1> HIDE DEF g
<1>3. Agree(seqs, seqs, n)
  BY DEF Agree
<1>4. Agree(f, g, n)
  BY ONLY n \in Nat, Joins(seqs, n, f), <1>1, <1>3, JoinsAgree
<1> QED
  BY <1>2, <1>4 DEF Agree

\* One more sequence is joined to the end.
LEMMA FlattenAppend ==
  ASSUME NEW S, NEW seqs \in Seq(Seq(S)), NEW e \in Seq(S)
  PROVE  FlattenSeq(Append(seqs, e)) =
             IF seqs = <<>> THEN e ELSE FlattenSeq(seqs) \o e
<1>1. PICK n \in Nat : n = Len(seqs)
  OBVIOUS
<1>2. PICK t : t = Append(seqs, e)
  OBVIOUS
<1>3. /\ Len(t) = n + 1 /\ t[n + 1] = e /\ n + 1 \in Nat /\ n + 1 # 0
      /\ \A i \in 1..n : t[i] = seqs[i]
  BY <1>1, <1>2, AppendProperties
<1>4. PICK k \in Nat : k = n + 1
  BY <1>3
<1>5. PICK f : Joins(t, k, f)
  BY JoinsExist
<1>6. FlattenSeq(t) = f[k]
  BY <1>3, <1>4, <1>5, FlattenIs
<1>7. (1 <= k => f[1] = t[1]) /\ \A i \in 2..k : f[i] = f[i - 1] \o t[i]
  BY <1>5, JoinsSteps
<1>8. CASE n = 0
  <2>1. f[1] = t[1] /\ k = 1
    BY <1>4, <1>7, <1>8
  <2> QED
    BY <1>1, <1>2, <1>3, <1>6, <1>8, <2>1, EmptySeq
<1>9. CASE n # 0
  <2>1. PICK g : Joins(seqs, n, g)
    BY JoinsExist
  <2>2. FlattenSeq(seqs) = g[n]
    BY <1>1, <1>9, <2>1, FlattenIs
  <2>3. n <= k /\ n \in 1..n /\ k \in 2..k /\ k - 1 = n
    BY <1>4, <1>9
  <2>4. Agree(f, g, n)
    <3>1. Agree(t, seqs, n)
      BY <1>3 DEF Agree
    <3> QED
      BY <1>5, <2>1, <2>3, <3>1, JoinsAgree
  <2>5. f[k] = f[n] \o t[k] /\ f[n] = g[n]
    BY <1>7, <2>3, <2>4 DEF Agree
  <2>6. seqs # <<>>
    BY <1>1, <1>9, EmptySeq
  <2> QED
    BY <1>2, <1>3, <1>4, <1>6, <2>2, <2>5, <2>6
<1> QED
  BY <1>8, <1>9

LEMMA FlattenType ==
  ASSUME NEW S, NEW seqs \in Seq(Seq(S)) PROVE FlattenSeq(seqs) \in Seq(S)
<1>1. PICK n \in Nat : n = Len(seqs)
  OBVIOUS
<1>2. CASE n = 0
  BY <1>1, <1>2, EmptySeq DEF FlattenSeq
<1>3. CASE n # 0
  <2>1. PICK f : Joins(seqs, n, f)
    BY JoinsExist
  <2>2. FlattenSeq(seqs) = f[n]
    BY <1>1, <1>3, <2>1, FlattenIs
  <2>3. /\ 1 <= n => f[1] = seqs[1]
        /\ \A i \in 2..n : f[i] = f[i - 1] \o seqs[i]
    BY <2>1, JoinsSteps
  <2>4. \A i \in 1..n : seqs[i] \in Seq(S)
    BY <1>1, ElementOfSeq
  <2>5. \A i \in 1..n : f[i] \in Seq(S)
    <3> DEFINE T == {k \in 1..n : f[k] \notin Seq(S)}
    <3>1. SUFFICES ASSUME T # {} PROVE FALSE
      OBVIOUS
    <3>2. PICK k \in T : \A j \in T : k <= j
      <4>1. T \in SUBSET Nat
        OBVIOUS
      <4> HIDE DEF T
      <4> QED
        BY <3>1, <4>1, Least
    <3>3. k \in 1..n /\ k # 1
      BY <2>3, <2>4, <3>2
    <3>4. k - 1 \in 1..n /\ k - 1 \notin T /\ k \in 2..n
      BY <3>2, <3>3
    <3>5. f[k - 1] \in Seq(S) /\ seqs[k] \in Seq(S) /\ f[k] = f[k - 1] \o seqs[k]
      BY <2>3, <2>4, <3>3, <3>4
    <3>6. f[k] \in Seq(S)
      BY <3>5, ConcatProperties
    <3> QED
      BY <3>2, <3>6
  <2> QED
    BY <1>3, <2>2, <2>5
<1> QED
  BY <1>2, <1>3

-----------------------------------------------------------------------------
(* What a step can do to the two stacks.                                   *)

LEMMA StacksKept ==
  ASSUME ParserInv,
         states' = states, marks' = marks, Own' <=> Own,
         state' \in Outer \cup Inner, state' \in Outer <=> state \in Outer,
         pc' \in PCs, pc' = "node" => state' \in Inner
  PROVE  ParserInv'
BY DEF ParserInv, ParserTypes, Nesting, MarksInv, OwnLevel

LEMMA StackPushed ==
  ASSUME ParserInv, NEW next \in Pushed \ {"DOCUMENT-END"},
         states' = Append(states, next), marks' = marks,
         state' = state, state \in Inner \ {"BLOCK-NODE", "DOCUMENT-CONTENT"},
         pc' = "node", Own <=> next \in HasMark
  PROVE  ParserInv'
<1>1. states # <<>> /\ states \in Seq(Pushed) /\ Len(states) \in Nat \ {0}
  BY EmptySeq DEF ParserInv, ParserTypes, Nesting, Outer, Inner, Pushed, HasMark, First, Starting
<1>2. ParserTypes'
  BY PushState DEF ParserInv, ParserTypes, PCs
<1>3. Nesting'
  BY <1>1 DEF ParserInv, Nesting, Outer, Inner, Pushed, HasMark, First, Starting
<1>4. ~ Own' /\ OwnLevel' = {}
  BY DEF Own, OwnLevel, InNode
<1>5. Around(states)' = Around(states) \cup OwnLevel
  BY <1>1, PushState DEF OwnLevel
<1> QED
  BY <1>2, <1>3, <1>4, <1>5 DEF ParserInv, MarksInv

LEMMA StackPopped ==
  ASSUME ParserInv, state \in Inner, Pop, pc' = "idle", marks' \in Seq(Nat)
  PROVE  /\ ParserTypes' /\ Nesting'
         /\ Around(states)' \cup OwnLevel' = Around(states)
<1> DEFINE n == Len(states)
<1>1. states # <<>> /\ states \in Seq(Pushed)
  BY DEF ParserInv, ParserTypes, Nesting, Outer, Inner, Pushed, HasMark, First, Starting
<1>2. /\ n \in Nat \ {0} /\ states' \in Seq(Pushed) /\ Len(states') = n - 1
      /\ \A i \in 1..(n - 1) : states'[i] = states[i]
      /\ state' = states[n] /\ state' \in Pushed
  BY <1>1, FrontFacts DEF Pop
<1>3. ParserTypes'
  BY <1>2 DEF ParserTypes, PCs, Outer, Inner
<1>4. state' = "DOCUMENT-END" <=> n = 1
  BY <1>2 DEF ParserInv, Nesting
<1>5. states' = <<>> <=> n = 1
  BY <1>2, EmptySeq
<1>6. state' \in Outer <=> state' = "DOCUMENT-END"
  BY <1>2 DEF Outer, Pushed, HasMark, Starting
<1>7. \A i \in 1..Len(states') : states'[i] = "DOCUMENT-END" <=> i = 1
  BY <1>2 DEF ParserInv, Nesting
<1>8. Nesting'
  BY <1>4, <1>5, <1>6, <1>7 DEF Nesting
<1>9. Own' <=> state' \in HasMark
  BY DEF Own, InNode
<1>10. Around(states)' \cup OwnLevel' = Around(states)
  BY <1>1, <1>2, <1>9, PopState DEF OwnLevel, Pop
<1> QED
  BY <1>3, <1>8, <1>10

\* Without a mark of its own.
LEMMA NodePopped ==
  ASSUME ParserInv, state \in Inner, Pop, pc' = "idle", marks' = marks, ~ Own
  PROVE  ParserInv'
BY StackPopped DEF ParserInv, ParserTypes, MarksInv, OwnLevel

\* With its mark.
LEMMA CollectionPopped ==
  ASSUME ParserInv, state \in Inner, Pop, pc' = "idle", marks' = Front(marks), Own
  PROVE  ParserInv'
<1>1. Len(states) \in Nat /\ marks \in Seq(Nat) /\ Rising(marks)
      /\ Elements(marks) = Around(states) \cup {Len(states) + 1}
      /\ Around(states) \in SUBSET Nat
      /\ \A x \in Around(states) : x < Len(states) + 1
  BY DEF ParserInv, ParserTypes, MarksInv, OwnLevel, Around
<1>2. Len(states) + 1 \in Nat
  BY <1>1
<1>3. /\ Front(marks) \in Seq(Nat) /\ Rising(Front(marks))
      /\ Elements(Front(marks)) = Around(states)
  BY <1>1, <1>2, PopMark, Zenon
<1> QED
  BY <1>3, StackPopped DEF ParserInv, MarksInv

\* The first call in a collection takes its mark.
LEMMA MarkTaken ==
  ASSUME ParserInv, ~ Own, Own', pc' \in PCs \ {"node"}, UNCHANGED <<state, states>>,
         marks' = Append(marks, Len(states) + 1)
  PROVE  ParserInv'
<1>1. Len(states) \in Nat /\ marks \in Seq(Nat) /\ Rising(marks)
      /\ Elements(marks) = Around(states)
      /\ \A x \in Elements(marks) : x < Len(states) + 1
  BY DEF ParserInv, ParserTypes, MarksInv, OwnLevel, Around
<1>2. /\ marks' \in Seq(Nat) /\ Rising(marks)'
      /\ Elements(marks)' = Around(states) \cup {Len(states) + 1}
  BY <1>1, PushMark
<1> QED
  BY <1>2 DEF ParserInv, ParserTypes, Nesting, MarksInv, OwnLevel

-----------------------------------------------------------------------------
(* The productions.                                                        *)

\* The names of the states, and the helpers of the actions.
USE DEF Outer, Inner, Pushed, HasMark, First, Starting, PCs,
        At, AtEntry, AtNode, Goto, Emit, Keep

LEMMA ParseKeeps == ASSUME ParserInv, Parse PROVE ParserInv'
BY StacksKept DEF Parse, Own, InNode, ParserInv, ParserTypes, Nesting

LEMMA StreamsKeep ==
  ASSUME ParserInv, ParseStreamStart \/ StreamEnd \/ SkipDocumentEnd \/ ParseDocumentEnd
  PROVE  ParserInv'
BY StacksKept DEF ParseStreamStart, StreamEnd, SkipDocumentEnd, ParseDocumentEnd,
     SkipAndSee, Own, InNode, ParserInv, ParserTypes, Nesting

LEMMA DirectiveKeeps == ASSUME ParserInv, ProcessDirective PROVE ParserInv'
BY StacksKept DEF ProcessDirective, SkipAndSee, ParserError, parserVars, Own, InNode, ParserInv, ParserTypes, Nesting

\* The state behind the document goes to the bottom of the stack.
LEMMA DocumentKeeps ==
  ASSUME ParserInv, ImplicitDocument \/ ExplicitDocument PROVE ParserInv'
<1>1. /\ state \in Starting /\ pc # "node" /\ pc' = "idle" /\ marks' = marks
      /\ states' = Append(states, "DOCUMENT-END")
      /\ state' \in {"BLOCK-NODE", "DOCUMENT-CONTENT"}
  BY DEF ImplicitDocument, ExplicitDocument, StartDocument
<1>2. states = <<>> /\ states' = <<"DOCUMENT-END">>
  <2>1. states = <<>>
    BY <1>1 DEF ParserInv, Nesting
  <2>2. Append(<<>>, "DOCUMENT-END") = <<"DOCUMENT-END">>
    BY SMT
  <2> QED
    BY <1>1, <2>1, <2>2
<1>3. /\ ~ Own /\ ~ Own'
      /\ Around(states) = {} /\ Around(states)' = {}
  BY <1>1, <1>2 DEF Own, Around
<1>4. ParserTypes'
  BY <1>1, <1>2 DEF ParserInv, ParserTypes
<1>5. Nesting'
  BY <1>1, <1>2 DEF ParserInv, Nesting
<1> QED
  BY <1>1, <1>3, <1>4, <1>5 DEF ParserInv, MarksInv, OwnLevel

LEMMA ContentKeeps == ASSUME ParserInv, ParseDocumentContent PROVE ParserInv'
<1>1. CASE Token \in Outside
  <2>1. Pop /\ state \in Inner /\ pc' = "idle" /\ marks' = marks /\ ~ Own
    BY <1>1 DEF ParseDocumentContent, AllBut, Own
  <2> QED
    BY <2>1, NodePopped
<1>2. CASE Token \notin Outside
  BY <1>2, StacksKept DEF ParseDocumentContent, EnterNode, Own, InNode, ParserInv, ParserTypes, Nesting
<1> QED
  BY <1>1, <1>2

\* In parse_node the level of the node has no mark of its own.
LEMMA NodesKeep ==
  ASSUME ParserInv,
         NodeAlias \/ NodeProperty \/ NodeScalar \/ NodeCollection \/ NodeOther
  PROVE  ParserInv'
<1>1. pc = "node" /\ state \in Inner /\ ~ Own
  BY DEF NodeAlias, NodeProperty, NodeScalar, NodeCollection, NodeOther, Content,
         Own, InNode, ParserInv, ParserTypes, Nesting
<1>2. CASE NodeAlias \/ NodeScalar
  BY <1>1, <1>2, NodePopped DEF NodeAlias, NodeScalar
<1>3. CASE NodeProperty
  BY <1>1, <1>3, StacksKept DEF NodeProperty, Own, InNode, ParserInv, ParserTypes, Nesting
<1>4. CASE NodeCollection
  <2>1. /\ state' \in First \cup {"INDENTLESS-SEQUENCE-ENTRY"}
        /\ states' = states /\ marks' = marks /\ pc' = "idle"
    BY <1>4 DEF NodeCollection, StartsHere
  <2> QED
    BY <1>1, <2>1, StacksKept DEF Own
<1>5. CASE NodeOther
  <2>1. CASE Bare
    BY <1>1, <1>5, <2>1, StacksKept DEF NodeOther, ParserError, parserVars, Own, InNode, ParserInv, ParserTypes, Nesting
  <2>2. CASE ~ Bare
    BY <1>1, <1>5, <2>2, NodePopped DEF NodeOther
  <2> QED
    BY <2>1, <2>2
<1> QED
  BY <1>2, <1>3, <1>4, <1>5

LEMMA ErrorKeeps ==
  ASSUME ParserInv, UNCHANGED parserVars PROVE ParserInv'
BY DEF parserVars, ParserInv, ParserTypes, Nesting, MarksInv, OwnLevel, Own, InNode

LEMMA FirstKeeps == ASSUME ParserInv, FirstEntry PROVE ParserInv'
BY MarkTaken DEF FirstEntry, SkipAndSee, Own, InNode

\* What a collection's function can do.  Behind an indicator it is still in
\* its state.
AtIndicator ==
    /\ pc # "node" /\ (state \in First => pc = "entry")
    /\ UNCHANGED <<state, states, marks>> /\ pc' \in {"entry", "item"}

\* The node of an entry is one level more, an empty one is none.
EntersNode ==
    /\ pc # "node" /\ marks' = marks
    /\ state \in Inner \ {"BLOCK-NODE", "DOCUMENT-CONTENT"}
    /\ \E next \in Pushed \ {"DOCUMENT-END"} :
          /\ Own <=> next \in HasMark
          /\ \/ UNCHANGED state /\ states' = Append(states, next) /\ pc' = "node"
             \/ UNCHANGED states /\ state' = next /\ pc' = "idle"

\* At the end of the collection its state is popped, and its mark.
Ends ==
    /\ pc # "node" /\ (state \in First => pc = "entry")
    /\ Pop /\ pc' = "idle"
    /\ \/ state \in First \cup HasMark /\ marks' = Front(marks)
       \/ state = "INDENTLESS-SEQUENCE-ENTRY" /\ marks' = marks

CollectionStep == AtIndicator \/ EntersNode \/ Ends \/ UNCHANGED parserVars

LEMMA CollectionKeeps == ASSUME ParserInv, CollectionStep PROVE ParserInv'
<1>1. CASE AtIndicator
  BY <1>1, StacksKept DEF AtIndicator, Own, InNode, ParserInv, ParserTypes, Nesting
<1>2. CASE EntersNode
  <2>1. PICK next \in Pushed \ {"DOCUMENT-END"} :
          /\ Own <=> next \in HasMark
          /\ \/ UNCHANGED state /\ states' = Append(states, next) /\ pc' = "node"
             \/ UNCHANGED states /\ state' = next /\ pc' = "idle"
    BY <1>2 DEF EntersNode
  <2>2. CASE UNCHANGED state /\ states' = Append(states, next) /\ pc' = "node"
    BY <1>2, <2>1, <2>2, StackPushed DEF EntersNode
  <2>3. CASE UNCHANGED states /\ state' = next /\ pc' = "idle"
    BY <1>2, <2>1, <2>3, StacksKept
    DEF EntersNode, Own, InNode, ParserInv, ParserTypes, Nesting
  <2> QED
    BY <2>1, <2>2, <2>3
<1>3. CASE Ends
  <2>1. CASE marks' = marks /\ state = "INDENTLESS-SEQUENCE-ENTRY"
    BY <1>3, <2>1, NodePopped DEF Ends, Own
  <2>2. CASE marks' = Front(marks) /\ state \in First \cup HasMark
    BY <1>3, <2>2, CollectionPopped DEF Ends, Own, InNode
  <2> QED
    BY <1>3, <2>1, <2>2 DEF Ends
<1>4. CASE UNCHANGED parserVars
  BY <1>4, ErrorKeeps
<1> QED
  BY <1>1, <1>2, <1>3, <1>4 DEF CollectionStep

LEMMA CollectionSteps ==
  /\ ParseBlockSequenceEntry => CollectionStep
  /\ ParseIndentlessSequenceEntry => CollectionStep
  /\ ParseBlockMappingKey => CollectionStep
  /\ ParseBlockMappingValue => CollectionStep
  /\ ParseFlowSequenceEntry => CollectionStep
  /\ ParsePairKey => CollectionStep
  /\ ParsePairValue => CollectionStep
  /\ ParsePairEnd => CollectionStep
  /\ ParseFlowMappingKey => CollectionStep
  /\ ParseFlowMappingValue => CollectionStep
<1> USE DEF CollectionStep, AtIndicator, EntersNode, Ends, Own, InNode, ParserError,
            SkipIndicator, SkipAndSee, Item, ParseNode, EnterNode,
            ProcessEmptyScalar, CloseCollection
<1>1. ParseBlockSequenceEntry => CollectionStep
  BY DEF ParseBlockSequenceEntry
<1>2. ParseIndentlessSequenceEntry => CollectionStep
  BY DEF ParseIndentlessSequenceEntry
<1>3. ParseBlockMappingKey => CollectionStep
  BY DEF ParseBlockMappingKey
<1>4. ParseBlockMappingValue => CollectionStep
  BY DEF ParseBlockMappingValue
<1>5. ParseFlowSequenceEntry => CollectionStep
  BY DEF ParseFlowSequenceEntry
<1>6. ParsePairKey => CollectionStep
  BY DEF ParsePairKey
<1>7. ParsePairValue => CollectionStep
  BY DEF ParsePairValue
<1>8. ParsePairEnd => CollectionStep
  BY DEF ParsePairEnd
<1>9. ParseFlowMappingKey => CollectionStep
  BY DEF ParseFlowMappingKey
<1>10. ParseFlowMappingValue => CollectionStep
  BY DEF ParseFlowMappingValue
<1> QED
  BY <1>1, <1>2, <1>3, <1>4, <1>5, <1>6, <1>7, <1>8, <1>9, <1>10

-----------------------------------------------------------------------------
LEMMA ParserInvInit == ParserInit => ParserInv
BY DEF ParserInit, ParserInv, ParserTypes, Nesting, MarksInv, OwnLevel, Own, InNode,
       Rising, Elements, Around

LEMMA ParserInvStep == ASSUME ParserInv, [Next]_vars PROVE ParserInv'
<1>1. CASE UNCHANGED parserVars
  BY <1>1, ErrorKeeps
<1>2. CASE ParserStep
  <2>1. CASE Parse
    BY <2>1, ParseKeeps
  <2>2. CASE ParseStreamStart \/ StreamEnd \/ SkipDocumentEnd \/ ParseDocumentEnd
    BY <2>2, StreamsKeep
  <2>3. CASE ProcessDirective
    BY <2>3, DirectiveKeeps
  <2>4. CASE ImplicitDocument \/ ExplicitDocument
    BY <2>4, DocumentKeeps
  <2>5. CASE ParseDocumentContent
    BY <2>5, ContentKeeps
  <2>6. CASE NodeAlias \/ NodeProperty \/ NodeScalar \/ NodeCollection \/ NodeOther
    BY <2>6, NodesKeep
  <2>7. CASE FirstEntry
    BY <2>7, FirstKeeps
  <2>8. CASE NoDocument \/ UndefinedTag
    BY <2>8, ErrorKeeps DEF NoDocument, UndefinedTag, ParserError
  <2>9. CASE \/ ParseBlockSequenceEntry \/ ParseIndentlessSequenceEntry
            \/ ParseBlockMappingKey \/ ParseBlockMappingValue
            \/ ParseFlowSequenceEntry \/ ParsePairKey \/ ParsePairValue
            \/ ParsePairEnd \/ ParseFlowMappingKey \/ ParseFlowMappingValue
    BY <2>9, CollectionSteps, CollectionKeeps
  <2> QED
    BY <1>2, <2>1, <2>2, <2>3, <2>4, <2>5, <2>6, <2>7, <2>8, <2>9 DEF ParserStep
<1> QED
  BY <1>1, <1>2 DEF Next, ScannerStep, vars, parserVars

LEMMA ParserInvariant == Spec => []ParserInv
<1>1. ParserInit => ParserInv
  BY ParserInvInit
<1>2. ParserInv /\ [Next]_vars => ParserInv'
  BY ParserInvStep
<1> QED
  BY <1>1, <1>2, PTL DEF Spec

\* The parser's stacks have their types for any text, and no function pops an
\* empty stack: a state waits whenever a node or a collection is open.
THEOREM StacksInStep == Spec => [](ParserTypes /\ Nesting)
<1>1. ParserInv => ParserTypes /\ Nesting
  BY DEF ParserInv
<1> QED
  BY <1>1, ParserInvariant, PTL

\* For any text, and nesting to any depth: the marks are those of the
\* collections that need one.
THEOREM MarksAgree == Spec => []MarksFollowStates
<1>1. ParserInv => MarksFollowStates
  <2> SUFFICES ASSUME ParserInv PROVE MarksFollowStates
    OBVIOUS
  <2>1. /\ marks \in Seq(Nat) /\ states \in Seq(Pushed)
        /\ DOMAIN marks = 1..Len(marks) /\ DOMAIN states = 1..Len(states)
    BY LenProperties DEF ParserInv, ParserTypes
  <2>2. {i \in DOMAIN Stack : Marked(i)} = Around(states) \cup OwnLevel
    <3>1. CASE InNode
      <4>1. Stack = states /\ OwnLevel = {} /\ \A i \in 1..Len(states) : states[i] \notin First
        BY <3>1, <2>1 DEF Stack, OwnLevel, Own
      <4> QED
        BY <2>1, <4>1 DEF Marked, Around
    <3>2. CASE ~ InNode
      <4>1. /\ Stack = Append(states, state) /\ DOMAIN Stack = 1..(Len(states) + 1)
            /\ Stack[Len(states) + 1] = state
            /\ \A i \in 1..Len(states) : Stack[i] = states[i] /\ states[i] \notin First
        BY <3>2, <2>1 DEF Stack
      <4>2. Marked(Len(states) + 1) <=> Own
        BY <3>2, <4>1 DEF Marked, Own
      <4>3. \A i \in 1..Len(states) : Marked(i) <=> states[i] \in HasMark
        BY <4>1 DEF Marked
      <4>4. Len(states) \in Nat
        BY <2>1
      <4> QED
        BY <4>1, <4>2, <4>3, <4>4 DEF Around, OwnLevel
    <3> QED
      BY <3>1, <3>2
  <2> QED
    BY <2>1, <2>2 DEF ParserInv, MarksInv, MarksFollowStates, Rising, Elements
<1> QED
  BY <1>1, ParserInvariant, PTL

-----------------------------------------------------------------------------
(* What the events have told.                                               *)


Constructs == {"STREAM", "ENDED", "DOCUMENT", "FULL", "SEQUENCE", "KEY", "VALUE"}
Root == {"BLOCK-NODE", "DOCUMENT-CONTENT"}

\* The constructs of the states of a stack, from the outermost to the innermost.
Told(stack) == FlattenSeq([i \in 1..Len(stack) |-> Frames(stack[i])])

\* The levels around the state that the parser works for.
Below == IF InNode THEN Front(states) ELSE states

\* One more node in the innermost of these constructs.
FillIn(frames) ==
    LET next == [DOCUMENT |-> "FULL", SEQUENCE |-> "SEQUENCE",
                 KEY |-> "VALUE", VALUE |-> "KEY"]
    IN  Append(Front(frames), next[Last(frames)])

\* The root node is behind the document, and every other one behind its entry.
NodeReturns ==
    /\ state \in Root => states = <<"DOCUMENT-END">>
    /\ InNode => Frames(Last(states)) = FillIn(Frames(state))

EventInv == ParserInv /\ NodeReturns

LEMMA Tuples ==
  ASSUME NEW S, NEW a \in S, NEW b \in S
  PROVE  /\ <<>> \in Seq(S) /\ <<a>> \in Seq(S) /\ <<a, b>> \in Seq(S)
         /\ Len(<<a>>) = 1 /\ <<a>> = Append(<<>>, a)
         /\ Len(<<a, b>>) = 2 /\ <<a, b>> = Append(<<a>>, b)
OBVIOUS

LEMMA FramesType == ASSUME NEW s PROVE Frames(s) \in Seq(Constructs)
BY Tuples DEF Frames, Constructs

LEMMA LastOfAppend ==
  ASSUME NEW S, NEW seq \in Seq(S), NEW e \in S
  PROVE  Last(Append(seq, e)) = e /\ Front(Append(seq, e)) = seq
<1>1. PICK t : t = Append(seq, e)
  OBVIOUS
<1>2. PICK n \in Nat : n = Len(seq)
  OBVIOUS
<1>3. /\ t \in Seq(S) /\ t # <<>> /\ Len(t) = n + 1 /\ t[n + 1] = e
      /\ \A i \in 1..n : t[i] = seq[i]
  BY <1>1, <1>2, AppendProperties
<1>4. /\ Front(t) \in Seq(S) /\ Len(Front(t)) = Len(t) - 1
      /\ \A i \in 1..(Len(t) - 1) : Front(t)[i] = t[i]
      /\ Last(t) = t[Len(t)]
  BY <1>3, FrontFacts
<1>5. Len(Front(t)) = Len(seq) /\ \A i \in 1..Len(Front(t)) : Front(t)[i] = seq[i]
  BY <1>2, <1>3, <1>4
<1>6. Front(t) = seq
  BY <1>4, <1>5, SeqEqual
<1> QED
  BY <1>1, <1>3, <1>4, <1>6

\* A sequence that is not empty, by its front and last.
LEMMA AppendFront ==
  ASSUME NEW S, NEW seq \in Seq(S), seq # <<>>
  PROVE  seq = Append(Front(seq), Last(seq))
<1>1. PICK t : t = Append(Front(seq), Last(seq))
  OBVIOUS
<1>2. /\ Len(seq) \in Nat \ {0}
      /\ Front(seq) \in Seq(S) /\ Len(Front(seq)) = Len(seq) - 1
      /\ \A i \in 1..(Len(seq) - 1) : Front(seq)[i] = seq[i]
      /\ Last(seq) = seq[Len(seq)] /\ Last(seq) \in S
  BY FrontFacts
<1>3. /\ t \in Seq(S) /\ Len(t) = Len(Front(seq)) + 1
      /\ \A i \in 1..Len(Front(seq)) : t[i] = Front(seq)[i]
      /\ t[Len(Front(seq)) + 1] = Last(seq)
  BY <1>1, <1>2, AppendProperties
<1>4. Len(t) = Len(seq) /\ \A i \in 1..Len(seq) : seq[i] = t[i]
  BY <1>2, <1>3
<1>5. seq = t
  BY <1>3, <1>4, SeqEqual
<1> QED
  BY <1>1, <1>5

\* The end of a concatenation.
LEMMA ConcatAppend ==
  ASSUME NEW S, NEW x \in Seq(S), NEW y \in Seq(S), NEW e \in S
  PROVE  x \o Append(y, e) = Append(x \o y, e)
<1>1. Append(y, e) = y \o <<e>> /\ <<e>> \in Seq(S)
  BY AppendIsConcat, Tuples
<1>2. x \o y \in Seq(S)
  BY ConcatProperties
<1>3. Append(x \o y, e) = (x \o y) \o <<e>>
  BY <1>2, AppendIsConcat
<1>4. (x \o y) \o <<e>> = x \o (y \o <<e>>)
  BY <1>1, ConcatAssociative
<1> QED
  BY <1>1, <1>3, <1>4

LEMMA FramesSeq ==
  ASSUME NEW stack, NEW n \in Nat, NEW seqs, seqs = [i \in 1..n |-> Frames(stack[i])]
  PROVE  seqs \in Seq(Seq(Constructs)) /\ Len(seqs) = n
<1>1. seqs \in [1..n -> Seq(Constructs)]
  BY FramesType
<1>2. seqs \in Seq(Seq(Constructs))
  <2>1. PICK T : T = Seq(Constructs)
    OBVIOUS
  <2>2. seqs \in [1..n -> T]
    BY <1>1, <2>1
  <2>3. seqs \in Seq(T)
    BY <2>2, SMT
  <2> QED
    BY <2>1, <2>3
<1>3. DOMAIN seqs = 1..n /\ DOMAIN seqs = 1..Len(seqs) /\ Len(seqs) \in Nat
  BY <1>1, <1>2, LenProperties
<1>4. Len(seqs) = n
  BY <1>3
<1> QED
  BY <1>2, <1>4

LEMMA ToldType ==
  ASSUME NEW S, NEW stack \in Seq(S) PROVE Told(stack) \in Seq(Constructs)
<1>1. PICK n \in Nat : n = Len(stack)
  OBVIOUS
<1>2. PICK seqs : seqs = [i \in 1..n |-> Frames(stack[i])]
  OBVIOUS
<1>3. seqs \in Seq(Seq(Constructs))
  BY <1>2, FramesSeq
<1>4. FlattenSeq(seqs) \in Seq(Constructs)
  BY <1>3, FlattenType
<1> QED
  BY <1>1, <1>2, <1>4 DEF Told

LEMMA ToldEmpty == Told(<<>>) = <<>>
<1>1. FlattenSeq(<<>>) = <<>>
  BY DEF FlattenSeq
<1>2. [i \in 1..Len(<<>>) |-> Frames(<<>>[i])] = <<>>
  OBVIOUS
<1> QED
  BY <1>1, <1>2 DEF Told

LEMMA ToldAppend ==
  ASSUME NEW S, NEW stack \in Seq(S), NEW s \in S
  PROVE  Told(Append(stack, s)) = Told(stack) \o Frames(s)
<1>1. PICK n \in Nat : n = Len(stack)
  OBVIOUS
<1>2. PICK t : t = Append(stack, s)
  OBVIOUS
<1>3. t \in Seq(S) /\ Len(t) = n + 1 /\ t[n + 1] = s /\ \A i \in 1..n : t[i] = stack[i]
  BY <1>1, <1>2, AppendProperties
<1>4. PICK below : below = [i \in 1..n |-> Frames(stack[i])]
  OBVIOUS
<1>5. PICK m \in Nat : m = n + 1
  OBVIOUS
<1>6. PICK all : all = [i \in 1..m |-> Frames(t[i])]
  OBVIOUS
<1>7. below \in Seq(Seq(Constructs)) /\ Len(below) = n
  BY <1>4, FramesSeq
<1>8. all \in Seq(Seq(Constructs)) /\ Len(all) = m
  BY <1>6, FramesSeq
<1>9. Frames(s) \in Seq(Constructs)
  BY FramesType
<1>10. PICK more : more = Append(below, Frames(s))
  OBVIOUS
<1>11. /\ more \in Seq(Seq(Constructs)) /\ Len(more) = m
       /\ more[m] = Frames(s) /\ \A i \in 1..n : more[i] = below[i]
  BY <1>5, <1>7, <1>9, <1>10, AppendProperties
<1>12. \A i \in 1..m : all[i] = more[i]
  <2> TAKE i \in 1..m
  <2>1. CASE i = m
    BY <1>3, <1>5, <1>6, <1>11, <2>1
  <2>2. CASE i # m
    <3>1. i \in 1..n
      BY <1>5, <2>2
    <3> QED
      BY <1>3, <1>4, <1>6, <1>11, <3>1
  <2> QED
    BY <2>1, <2>2
<1>13. all = more
  BY <1>8, <1>11, <1>12, SeqEqual
<1>14. FlattenSeq(more) = IF below = <<>> THEN Frames(s) ELSE FlattenSeq(below) \o Frames(s)
  BY <1>7, <1>9, <1>10, FlattenAppend
<1>15. below = <<>> => FlattenSeq(below) = <<>>
  BY DEF FlattenSeq
<1>16. <<>> \o Frames(s) = Frames(s)
  BY <1>9, ConcatEmptySeq
<1>17. Told(t) = FlattenSeq(all) /\ Told(stack) = FlattenSeq(below)
  <2>1. Len(t) = m
    BY <1>3, <1>5
  <2> QED
    BY <1>1, <1>4, <1>6, <2>1 DEF Told
<1> QED
  BY <1>2, <1>13, <1>14, <1>15, <1>16, <1>17

Level == Inner \ Root

LEMMA TupleEnds ==
  ASSUME NEW a, NEW b
  PROVE  /\ Last(<<a>>) = a /\ Front(<<a>>) = <<>>
         /\ Last(<<b, a>>) = a /\ Front(<<b, a>>) = <<b>>
         /\ <<a>> # <<>> /\ <<b, a>> # <<>>
<1>1. PICK S : S = {a, b}
  OBVIOUS
<1>2. a \in S /\ b \in S
  BY <1>1
<1>3. /\ <<>> \in Seq(S) /\ <<b>> \in Seq(S)
      /\ <<a>> = Append(<<>>, a) /\ <<b, a>> = Append(<<b>>, a)
  BY <1>2, Tuples
<1>4. Last(Append(<<>>, a)) = a /\ Front(Append(<<>>, a)) = <<>>
  BY <1>2, <1>3, LastOfAppend
<1>5. Last(Append(<<b>>, a)) = a /\ Front(Append(<<b>>, a)) = <<b>>
  BY <1>2, <1>3, LastOfAppend
<1> QED
  BY <1>3, <1>4, <1>5

LEMMA FillTuple ==
  ASSUME NEW a \in {"DOCUMENT", "SEQUENCE", "KEY", "VALUE"}, NEW b \in Constructs
  PROVE  LET next == [DOCUMENT |-> "FULL", SEQUENCE |-> "SEQUENCE",
                      KEY |-> "VALUE", VALUE |-> "KEY"]
         IN  FillIn(<<a>>) = <<next[a]>> /\ FillIn(<<b, a>>) = <<b, next[a]>>
<1> DEFINE next == [DOCUMENT |-> "FULL", SEQUENCE |-> "SEQUENCE",
                    KEY |-> "VALUE", VALUE |-> "KEY"]
<1>1. next[a] \in Constructs /\ a \in Constructs
  BY DEF Constructs
<1>2. /\ FillIn(<<a>>) = Append(Front(<<a>>), next[Last(<<a>>)])
      /\ FillIn(<<b, a>>) = Append(Front(<<b, a>>), next[Last(<<b, a>>)])
  BY DEF FillIn
<1> HIDE DEF next
<1>3. /\ FillIn(<<a>>) = Append(<<>>, next[a])
      /\ FillIn(<<b, a>>) = Append(<<b>>, next[a])
  <2>1. /\ Last(<<a>>) = a /\ Front(<<a>>) = <<>>
        /\ Last(<<b, a>>) = a /\ Front(<<b, a>>) = <<b>>
    BY <1>1, TupleEnds
  <2> QED
    BY <1>2, <2>1
<1>4. <<next[a]>> = Append(<<>>, next[a]) /\ <<b, next[a]>> = Append(<<b>>, next[a])
  BY <1>1, Tuples
<1> QED
  BY <1>3, <1>4 DEF next

LEMMA FillTuples ==
  /\ FillIn(<<"STREAM", "DOCUMENT">>) = <<"STREAM", "FULL">>
  /\ FillIn(<<"SEQUENCE">>) = <<"SEQUENCE">>
  /\ FillIn(<<"KEY">>) = <<"VALUE">>
  /\ FillIn(<<"VALUE">>) = <<"KEY">>
  /\ FillIn(<<"SEQUENCE", "KEY">>) = <<"SEQUENCE", "VALUE">>
  /\ FillIn(<<"SEQUENCE", "VALUE">>) = <<"SEQUENCE", "KEY">>
<1>1. "STREAM" \in Constructs /\ "SEQUENCE" \in Constructs
  BY DEF Constructs
<1>2. FillIn(<<"STREAM", "DOCUMENT">>) = <<"STREAM", "FULL">>
  BY <1>1, FillTuple
<1>3. FillIn(<<"SEQUENCE">>) = <<"SEQUENCE">>
  BY <1>1, FillTuple
<1>4. FillIn(<<"KEY">>) = <<"VALUE">> /\ FillIn(<<"SEQUENCE", "KEY">>) = <<"SEQUENCE", "VALUE">>
  BY <1>1, FillTuple
<1>5. FillIn(<<"VALUE">>) = <<"KEY">> /\ FillIn(<<"SEQUENCE", "VALUE">>) = <<"SEQUENCE", "KEY">>
  BY <1>1, FillTuple
<1> QED
  BY <1>2, <1>3, <1>4, <1>5

\* The frames of a state inside a document.
LevelFrames ==
    {<<"SEQUENCE">>, <<"KEY">>, <<"VALUE">>, <<"SEQUENCE", "KEY">>,
     <<"SEQUENCE", "VALUE">>}

LEMMA FramesOfLevel == ASSUME NEW s \in Level PROVE Frames(s) \in LevelFrames
BY DEF Frames, Level, Root, LevelFrames

LEMMA LevelFramesFacts ==
  ASSUME NEW f \in LevelFrames
  PROVE  /\ f \in Seq(Constructs) /\ f # <<>>
         /\ Last(f) \in {"SEQUENCE", "KEY", "VALUE"}
         /\ FillIn(f) \in LevelFrames
         /\ FillIn(f) = Append(Front(f), Last(FillIn(f)))
         /\ Last(FillIn(f)) \in Constructs
         /\ Front(f) \in Seq(Constructs)
<1>1. \A a \in Constructs :
         /\ Last(<<a>>) = a /\ Front(<<a>>) = <<>> /\ <<a>> # <<>>
         /\ <<a>> \in Seq(Constructs) /\ <<a>> = Append(<<>>, a)
         /\ Last(<<"SEQUENCE", a>>) = a /\ Front(<<"SEQUENCE", a>>) = <<"SEQUENCE">>
         /\ <<"SEQUENCE", a>> # <<>> /\ <<"SEQUENCE", a>> \in Seq(Constructs)
         /\ <<"SEQUENCE", a>> = Append(<<"SEQUENCE">>, a)
  <2> TAKE a \in Constructs
  <2>1. "SEQUENCE" \in Constructs
    BY DEF Constructs
  <2> QED
    BY <2>1, Tuples, TupleEnds
<1>2. /\ <<>> \in Seq(Constructs) /\ <<"SEQUENCE">> \in Seq(Constructs)
      /\ {"SEQUENCE", "KEY", "VALUE"} \subseteq Constructs
  BY <1>1 DEF Constructs
<1> HIDE DEF Constructs
<1>3. CASE f = <<"SEQUENCE">>
  BY <1>1, <1>2, <1>3, FillTuples, Zenon DEF LevelFrames
<1>4. CASE f = <<"KEY">>
  BY <1>1, <1>2, <1>4, FillTuples, Zenon DEF LevelFrames
<1>5. CASE f = <<"VALUE">>
  BY <1>1, <1>2, <1>5, FillTuples, Zenon DEF LevelFrames
<1>6. CASE f = <<"SEQUENCE", "KEY">>
  BY <1>1, <1>2, <1>6, FillTuples, Zenon DEF LevelFrames
<1>7. CASE f = <<"SEQUENCE", "VALUE">>
  BY <1>1, <1>2, <1>7, FillTuples, Zenon DEF LevelFrames
<1> QED
  BY <1>3, <1>4, <1>5, <1>6, <1>7 DEF LevelFrames

\* What is at the end of a concatenation.
LEMMA ConcatEnds ==
  ASSUME NEW S, NEW x \in Seq(S), NEW f \in Seq(S), f # <<>>
  PROVE  /\ x \o f \in Seq(S) /\ x \o f # <<>>
         /\ Last(x \o f) = Last(f) /\ Front(x \o f) = x \o Front(f)
<1>1. /\ Front(f) \in Seq(S) /\ Last(f) \in S
  BY FrontFacts
<1>2. f = Append(Front(f), Last(f))
  BY AppendFront
<1>3. PICK y \in Seq(S) : y = x \o Front(f)
  BY <1>1, ConcatProperties
<1>4. x \o f = Append(y, Last(f))
  BY <1>1, <1>2, <1>3, ConcatAppend
<1>5. Append(y, Last(f)) \in Seq(S) /\ Append(y, Last(f)) # <<>>
  BY <1>1, AppendProperties
<1>6. Last(Append(y, Last(f))) = Last(f) /\ Front(Append(y, Last(f))) = y
  BY <1>1, LastOfAppend
<1> QED
  BY <1>3, <1>4, <1>5, <1>6

\* A node fills the innermost construct, which is the state's.
LEMMA FillConcat ==
  ASSUME NEW x \in Seq(Constructs), NEW f \in LevelFrames
  PROVE  FillIn(x \o f) = x \o FillIn(f)
<1> DEFINE next == [DOCUMENT |-> "FULL", SEQUENCE |-> "SEQUENCE",
                    KEY |-> "VALUE", VALUE |-> "KEY"]
<1>1. /\ f \in Seq(Constructs) /\ f # <<>>
      /\ Front(f) \in Seq(Constructs)
      /\ FillIn(f) = Append(Front(f), Last(FillIn(f)))
      /\ Last(FillIn(f)) \in Constructs
      /\ Last(f) \in {"SEQUENCE", "KEY", "VALUE"}
  BY LevelFramesFacts
<1>2. Last(x \o f) = Last(f) /\ Front(x \o f) = x \o Front(f)
  BY <1>1, ConcatEnds
<1>3. FillIn(f) = Append(Front(f), next[Last(f)]) /\ next[Last(f)] \in Constructs
  BY <1>1 DEF FillIn, Constructs
<1>4. FillIn(x \o f) = Append(x \o Front(f), next[Last(f)])
  BY <1>2 DEF FillIn
<1> HIDE DEF next
<1>5. x \o Append(Front(f), next[Last(f)]) = Append(x \o Front(f), next[Last(f)])
  BY <1>1, <1>3, ConcatAppend
<1> QED
  BY <1>3, <1>4, <1>5

-----------------------------------------------------------------------------
(* The refinement mapping.                                                  *)

LEMMA OpenAtRoot == state \in Root => Open = <<"STREAM", "DOCUMENT">>
BY DEF Open, Root

LEMMA OpenOutside ==
  ~ InNode /\ state \notin Root /\ states \in Seq(Pushed)
      => Open = Told(states) \o Frames(state)
<1> SUFFICES ASSUME ~ InNode, state \notin Root, states \in Seq(Pushed)
             PROVE  Open = Told(states) \o Frames(state)
  OBVIOUS
<1>1. [i \in 1..Len(states) |->
          Frames(IF InNode /\ i = Len(states) THEN state ELSE states[i])]
      = [i \in 1..Len(states) |-> Frames(states[i])]
  OBVIOUS
<1> QED
  BY <1>1 DEF Open, Root, Told

LEMMA OpenInside ==
  InNode /\ states \in Seq(Pushed) /\ states # <<>>
      => Open = Told(Front(states)) \o Frames(state)
<1> SUFFICES ASSUME InNode, states \in Seq(Pushed), states # <<>>
             PROVE  Open = Told(Front(states)) \o Frames(state)
  OBVIOUS
<1>1. PICK n \in Nat : n = Len(states)
  OBVIOUS
<1>2. PICK P : P = Pushed \cup {state}
  OBVIOUS
<1>3. /\ Front(states) \in Seq(Pushed) /\ Len(Front(states)) = n - 1 /\ n # 0
      /\ \A i \in 1..(n - 1) : Front(states)[i] = states[i]
  BY <1>1, FrontFacts
<1>4. Front(states) \in Seq(P) /\ state \in P
  BY <1>2, <1>3, SeqMonotonic
<1>5. PICK t : t = Append(Front(states), state)
  OBVIOUS
<1>6. Len(t) = n /\ t[n] = state /\ \A i \in 1..(n - 1) : t[i] = states[i]
  BY <1>3, <1>4, <1>5, AppendProperties
<1>7. Told(t) = Told(Front(states)) \o Frames(state)
  BY <1>4, <1>5, ToldAppend
<1>8. \A i \in 1..n : (IF InNode /\ i = n THEN state ELSE states[i]) = t[i]
  BY <1>6
<1>9. [i \in 1..n |-> Frames(IF InNode /\ i = n THEN state ELSE states[i])]
      = [i \in 1..n |-> Frames(t[i])]
  BY <1>8, Zenon
<1>10. Open = Told(t) \o <<>>
  BY <1>1, <1>6, <1>9 DEF Open, Told, InNode
<1>11. Told(t) \in Seq(Constructs)
  BY <1>4, <1>5, AppendProperties, ToldType
<1>12. Told(t) \o <<>> = Told(t)
  BY <1>11, ConcatEmptySeq
<1> QED
  BY <1>7, <1>10, <1>12

LEMMA OpenAtRootNext == (state \in Root => Open = <<"STREAM", "DOCUMENT">>)'
BY OpenAtRoot, PTL

LEMMA OpenOutsideNext ==
  (~ InNode /\ state \notin Root /\ states \in Seq(Pushed)
      => Open = Told(states) \o Frames(state))'
BY OpenOutside, PTL

LEMMA OpenInsideNext ==
  (InNode /\ states \in Seq(Pushed) /\ states # <<>>
      => Open = Told(Front(states)) \o Frames(state))'
BY OpenInside, PTL

LEMMA StatesAround ==
  ASSUME ParserInv, state \in Inner
  PROVE  /\ states \in Seq(Pushed) /\ states # <<>>
         /\ Front(states) \in Seq(Pushed) /\ Last(states) \in Pushed
         /\ states = Append(Front(states), Last(states))
         /\ Told(states) \in Seq(Constructs)
         /\ Told(Front(states)) \in Seq(Constructs)
         /\ Told(states) = Told(Front(states)) \o Frames(Last(states))
<1>1. states \in Seq(Pushed) /\ states # <<>>
  BY DEF ParserInv, ParserTypes, Nesting
<1>2. /\ Front(states) \in Seq(Pushed) /\ Last(states) \in Pushed
      /\ states = Append(Front(states), Last(states))
  BY <1>1, FrontFacts, AppendFront
<1>3. Told(states) \in Seq(Constructs) /\ Told(Front(states)) \in Seq(Constructs)
  BY <1>1, <1>2, ToldType
<1>4. Told(Append(Front(states), Last(states))) = Told(Front(states)) \o Frames(Last(states))
  BY <1>2, ToldAppend
<1> QED
  BY <1>1, <1>2, <1>3, <1>4

\* What is open inside a document: the levels around the state, and its own.
LEMMA OpenIs ==
  ASSUME ParserInv, state \in Level
  PROVE  /\ Below \in Seq(Pushed) /\ Told(Below) \in Seq(Constructs)
         /\ Open = Told(Below) \o Frames(state)
<1>1. state \in Inner /\ state \notin Root
  BY DEF Level
<1>2. /\ states \in Seq(Pushed) /\ states # <<>> /\ Front(states) \in Seq(Pushed)
      /\ Told(states) \in Seq(Constructs) /\ Told(Front(states)) \in Seq(Constructs)
  BY <1>1, StatesAround
<1>3. CASE InNode
  BY <1>2, <1>3, OpenInside DEF Below
<1>4. CASE ~ InNode
  BY <1>1, <1>2, <1>4, OpenOutside DEF Below
<1> QED
  BY <1>3, <1>4

\* At a node the specification of the events is at one too.
LEMMA OpenAtNode ==
  ASSUME ParserInv, state \in Inner
  PROVE  /\ Events!AtNode /\ Events!Filled = FillIn(Open)
         /\ state \in Level => Last(Open) = Last(Frames(state))
<1>1. Events!Filled = FillIn(Open)
  BY DEF Events!Filled, FillIn, Events!Front, Events!Last, Front, Last
<1>2. CASE state \in Root
  <2>1. Open = <<"STREAM", "DOCUMENT">> /\ state \notin Level
    BY <1>2, OpenAtRoot DEF Level
  <2>2. "STREAM" \in Constructs /\ "DOCUMENT" \in Constructs
    BY DEF Constructs
  <2>3. Last(Open) = "DOCUMENT" /\ Open # <<>>
    BY <2>1, <2>2, TupleEnds
  <2> QED
    BY <1>1, <2>1, <2>3 DEF Events!AtNode, Events!Expecting, Events!Last, Last
<1>3. CASE state \in Level
  <2>1. Frames(state) \in LevelFrames
    BY <1>3, FramesOfLevel
  <2>2. /\ Frames(state) \in Seq(Constructs) /\ Frames(state) # <<>>
        /\ Last(Frames(state)) \in {"SEQUENCE", "KEY", "VALUE"}
    BY <2>1, LevelFramesFacts
  <2>3. Told(Below) \in Seq(Constructs) /\ Open = Told(Below) \o Frames(state)
    BY <1>3, OpenIs
  <2>4. Open # <<>> /\ Last(Open) = Last(Frames(state))
    BY <2>2, <2>3, ConcatEnds
  <2> QED
    BY <1>1, <2>2, <2>4 DEF Events!AtNode, Events!Expecting, Events!Last, Last
<1> QED
  BY <1>2, <1>3 DEF Level

\* A node that ends in its own function fills the construct it is in.
LEMMA PopReturns ==
  ASSUME EventInv, InNode \/ state \in Root, state \in Inner, Pop, pc' = "idle"
  PROVE  Open' = FillIn(Open) /\ NodeReturns'
<1>1. /\ states \in Seq(Pushed) /\ states # <<>>
      /\ Front(states) \in Seq(Pushed) /\ Last(states) \in Pushed
  BY StatesAround DEF EventInv
<1>2. ~ InNode' /\ state' = Last(states) /\ states' = Front(states)
  BY DEF InNode, Pop
<1>3. state' \notin Root /\ states' \in Seq(Pushed)
  BY <1>1, <1>2 DEF Root
<1>4. Open' = Told(Front(states)) \o Frames(Last(states))
  BY <1>2, <1>3, OpenOutsideNext
<1>5. NodeReturns'
  BY <1>2, <1>3 DEF NodeReturns
<1>6. CASE state \in Root
  <2>1. states = <<"DOCUMENT-END">> /\ Open = <<"STREAM", "DOCUMENT">>
    BY <1>6, OpenAtRoot DEF EventInv, NodeReturns
  <2>2. Last(states) = "DOCUMENT-END" /\ Front(states) = <<>>
    BY <2>1, TupleEnds
  <2>3. Frames("DOCUMENT-END") = <<"STREAM", "FULL">>
    BY DEF Frames
  <2>4. Open' = <<>> \o <<"STREAM", "FULL">>
    BY <1>4, <2>2, <2>3, ToldEmpty
  <2>5. <<"STREAM", "FULL">> \in Seq(Constructs)
    BY Tuples DEF Constructs
  <2>6. <<>> \o <<"STREAM", "FULL">> = <<"STREAM", "FULL">>
    BY <2>5, ConcatEmptySeq
  <2> QED
    BY <1>5, <2>1, <2>4, <2>6, FillTuples
<1>7. CASE state \notin Root
  <2>1. InNode /\ state \in Level
    BY <1>7 DEF Level
  <2>2. Frames(Last(states)) = FillIn(Frames(state))
    BY <2>1 DEF EventInv, NodeReturns
  <2>3. /\ Told(Front(states)) \in Seq(Constructs)
        /\ Open = Told(Front(states)) \o Frames(state)
    BY <2>1, OpenIs DEF EventInv, Below
  <2>4. Frames(state) \in LevelFrames
    BY <2>1, FramesOfLevel
  <2>5. FillIn(Open) = Told(Front(states)) \o FillIn(Frames(state))
    BY <2>3, <2>4, FillConcat
  <2> QED
    BY <1>4, <1>5, <2>2, <2>5
<1> QED
  BY <1>6, <1>7

\* An empty node fills it in the function of the collection.
LEMMA EmptyReturns ==
  ASSUME EventInv, pc # "node", pc' = "idle", state \in Level,
         UNCHANGED states, state' \in Level, Frames(state') = FillIn(Frames(state))
  PROVE  Open' = FillIn(Open) /\ NodeReturns'
<1>1. /\ Told(states) \in Seq(Constructs)
      /\ Open = Told(states) \o Frames(state)
  BY OpenIs DEF EventInv, Below, InNode
<1>2. Frames(state) \in LevelFrames
  BY FramesOfLevel
<1>3. FillIn(Open) = Told(states) \o FillIn(Frames(state))
  BY <1>1, <1>2, FillConcat
<1>4. ~ InNode' /\ state' \notin Root
  BY DEF InNode, Level
<1>5. states' \in Seq(Pushed)
  BY DEF EventInv, ParserInv, ParserTypes
<1>6. Open' = Told(states) \o Frames(state')
  BY <1>4, <1>5, OpenOutsideNext
<1> QED
  BY <1>3, <1>4, <1>6 DEF NodeReturns

\* A collection that starts in parse_node.
LEMMA CollectionBegins ==
  ASSUME EventInv, InNode \/ state \in Root, state \in Inner,
         UNCHANGED states, pc' = "idle", state' \in Level,
         NEW c \in Constructs, Frames(state') = <<c>>
  PROVE  Open' = Append(FillIn(Open), c) /\ NodeReturns'
<1>1. /\ states \in Seq(Pushed) /\ states # <<>>
      /\ Told(states) \in Seq(Constructs)
      /\ Told(Front(states)) \in Seq(Constructs)
      /\ Told(states) = Told(Front(states)) \o Frames(Last(states))
  BY StatesAround DEF EventInv
<1>2. ~ InNode' /\ state' \notin Root
  BY DEF InNode, Level
<1>3. Open' = Told(states) \o <<c>>
  BY <1>1, <1>2, OpenOutsideNext
<1>4. Open' = Append(Told(states), c)
  BY <1>1, <1>3, AppendIsConcat
<1>5. Told(states) = FillIn(Open)
  <2>1. CASE state \in Root
    <3>1. states = <<"DOCUMENT-END">> /\ Open = <<"STREAM", "DOCUMENT">>
      BY <2>1, OpenAtRoot DEF EventInv, NodeReturns
    <3>2. Last(states) = "DOCUMENT-END" /\ Front(states) = <<>>
      BY <3>1, TupleEnds
    <3>3. Frames("DOCUMENT-END") = <<"STREAM", "FULL">>
      BY DEF Frames
    <3>4. <<"STREAM", "FULL">> \in Seq(Constructs)
      BY Tuples DEF Constructs
    <3>5. <<>> \o <<"STREAM", "FULL">> = <<"STREAM", "FULL">>
      BY <3>4, ConcatEmptySeq
    <3> QED
      BY <1>1, <3>1, <3>2, <3>3, <3>5, ToldEmpty, FillTuples
  <2>2. CASE state \notin Root
    <3>1. InNode /\ state \in Level
      BY <2>2 DEF Level
    <3>2. Frames(Last(states)) = FillIn(Frames(state))
      BY <3>1 DEF EventInv, NodeReturns
    <3>3. Open = Told(Front(states)) \o Frames(state)
      BY <3>1, OpenIs DEF EventInv, Below
    <3>4. Frames(state) \in LevelFrames
      BY <3>1, FramesOfLevel
    <3>5. FillIn(Open) = Told(Front(states)) \o FillIn(Frames(state))
      BY <1>1, <3>3, <3>4, FillConcat
    <3> QED
      BY <1>1, <3>2, <3>5
  <2> QED
    BY <2>1, <2>2
<1> QED
  BY <1>2, <1>4, <1>5 DEF NodeReturns

\* A collection that ends: its construct was full of nodes already.
LEMMA CollectionEnds ==
  ASSUME EventInv, pc # "node", state \in Level, Pop, pc' = "idle",
         NEW c \in Constructs, Frames(state) = <<c>>
  PROVE  Open' = Front(Open) /\ NodeReturns'
<1>1. /\ states \in Seq(Pushed) /\ states # <<>>
      /\ Front(states) \in Seq(Pushed) /\ Last(states) \in Pushed
      /\ Told(states) \in Seq(Constructs)
      /\ Told(states) = Told(Front(states)) \o Frames(Last(states))
  BY StatesAround DEF EventInv, Level
<1>2. ~ InNode' /\ state' = Last(states) /\ states' = Front(states) /\ state' \notin Root
  BY <1>1 DEF InNode, Pop, Root
<1>3. Open' = Told(states)
  BY <1>1, <1>2, OpenOutsideNext
<1>4. Open = Told(states) \o <<c>>
  BY OpenIs DEF EventInv, Below, InNode
<1>5. Open = Append(Told(states), c)
  BY <1>1, <1>4, AppendIsConcat
<1>6. Front(Open) = Told(states)
  BY <1>1, <1>5, LastOfAppend
<1> QED
  BY <1>2, <1>3, <1>6 DEF NodeReturns

\* The node of an entry: nothing is told yet.
LEMMA NodeEntered ==
  ASSUME EventInv, pc # "node", state \in Level, UNCHANGED state, pc' = "node",
         NEW next \in Pushed, states' = Append(states, next),
         Frames(next) = FillIn(Frames(state))
  PROVE  Open' = Open /\ NodeReturns'
<1>1. /\ states \in Seq(Pushed) /\ Open = Told(states) \o Frames(state)
  BY OpenIs DEF EventInv, Below, InNode
<1>2. PICK st : st = states'
  OBVIOUS
<1>3. /\ st \in Seq(Pushed) /\ st # <<>>
      /\ Front(st) = states /\ Last(st) = next
  BY <1>1, <1>2, AppendProperties, LastOfAppend
<1>4. InNode' /\ state' \notin Root
  BY DEF InNode, Level, Root
<1>5. Open' = Told(states) \o Frames(state)
  BY <1>2, <1>3, <1>4, OpenInsideNext
<1> QED
  BY <1>1, <1>2, <1>3, <1>4, <1>5 DEF NodeReturns

\* A pair in a flow sequence is a mapping without a level of its own.
LEMMA PairBegins ==
  ASSUME EventInv, pc # "node", state \in Level, UNCHANGED states, pc' = "idle",
         Frames(state) = <<"SEQUENCE">>, state' \in Level,
         Frames(state') = <<"SEQUENCE", "KEY">>
  PROVE  Open' = Append(FillIn(Open), "KEY") /\ NodeReturns'
<1>1. /\ states \in Seq(Pushed) /\ Told(states) \in Seq(Constructs)
      /\ Open = Told(states) \o <<"SEQUENCE">>
  BY OpenIs DEF EventInv, Below, InNode
<1>2. ~ InNode' /\ state' \notin Root
  BY DEF InNode, Level
<1>3. Open' = Told(states) \o <<"SEQUENCE", "KEY">>
  BY <1>1, <1>2, OpenOutsideNext
<1>4. "SEQUENCE" \in Constructs /\ "KEY" \in Constructs
  BY DEF Constructs
<1>5. <<"SEQUENCE">> \in Seq(Constructs) /\ <<"SEQUENCE", "KEY">> = Append(<<"SEQUENCE">>, "KEY")
  BY <1>4, Tuples
<1>6. Open' = Append(Open, "KEY")
  BY <1>1, <1>3, <1>4, <1>5, ConcatAppend
<1>7. <<"SEQUENCE">> \in LevelFrames
  BY DEF LevelFrames
<1>8. FillIn(Open) = Open
  BY <1>1, <1>7, FillConcat, FillTuples
<1> QED
  BY <1>2, <1>6, <1>8 DEF NodeReturns

LEMMA PairEnds ==
  ASSUME EventInv, pc # "node", state \in Level, UNCHANGED states, pc' = "idle",
         Frames(state) = <<"SEQUENCE", "KEY">>, state' \in Level,
         Frames(state') = <<"SEQUENCE">>
  PROVE  Open' = Front(Open) /\ NodeReturns'
<1>1. /\ states \in Seq(Pushed) /\ Told(states) \in Seq(Constructs)
      /\ Open = Told(states) \o <<"SEQUENCE", "KEY">>
  BY OpenIs DEF EventInv, Below, InNode
<1>2. ~ InNode' /\ state' \notin Root
  BY DEF InNode, Level
<1>3. Open' = Told(states) \o <<"SEQUENCE">>
  BY <1>1, <1>2, OpenOutsideNext
<1>4. "SEQUENCE" \in Constructs /\ "KEY" \in Constructs
  BY DEF Constructs
<1>5. /\ <<"SEQUENCE", "KEY">> \in Seq(Constructs) /\ <<"SEQUENCE", "KEY">> # <<>>
      /\ Front(<<"SEQUENCE", "KEY">>) = <<"SEQUENCE">>
  BY <1>4, Tuples, TupleEnds
<1>6. PICK f : f = <<"SEQUENCE", "KEY">>
  OBVIOUS
<1>7. Front(Told(states) \o f) = Told(states) \o Front(f)
  BY <1>1, <1>5, <1>6, ConcatEnds
<1>8. Front(Open) = Told(states) \o <<"SEQUENCE">>
  BY <1>1, <1>5, <1>6, <1>7
<1> QED
  BY <1>2, <1>3, <1>8 DEF NodeReturns

\* The events of the abstract specification, by what is open.
LEMMA LeafTold ==
  ASSUME ParserInv, state \in Inner, Open' = FillIn(Open), event' \in {"SCALAR", "ALIAS"}
  PROVE  Events!Next
BY OpenAtNode DEF Events!Next, Events!Leaf

LEMMA StartTold ==
  ASSUME ParserInv, state \in Inner,
         \/ Open' = Append(FillIn(Open), "SEQUENCE") /\ event' = "SEQUENCE-START"
         \/ Open' = Append(FillIn(Open), "KEY") /\ event' = "MAPPING-START"
  PROVE  Events!Next
BY OpenAtNode DEF Events!Next, Events!SequenceStart, Events!MappingStart

LEMMA EndTold ==
  ASSUME ParserInv, state \in Level, Open' = Front(Open),
         \/ Last(Frames(state)) = "SEQUENCE" /\ event' = "SEQUENCE-END"
         \/ Last(Frames(state)) = "KEY" /\ event' = "MAPPING-END"
  PROVE  Events!Next
<1>1. Events!AtNode /\ Last(Open) = Last(Frames(state))
  BY OpenAtNode DEF Level
<1> QED
  BY <1>1 DEF Events!Next, Events!SequenceEnd, Events!MappingEnd,
     Events!Front, Events!Last, Front, Last

LEMMA NothingTold ==
  ASSUME EventInv, UNCHANGED <<state, states>>, (pc = "node") <=> (pc' = "node")
  PROVE  Open' = Open /\ NodeReturns'
<1>1. InNode' <=> InNode
  BY DEF InNode
<1>2. NodeReturns'
  BY <1>1 DEF EventInv, NodeReturns
<1>3. [i \in 1..Len(states') |->
          Frames(IF InNode' /\ i = Len(states') THEN state' ELSE states'[i])]
      = [i \in 1..Len(states) |->
          Frames(IF InNode /\ i = Len(states) THEN state ELSE states[i])]
  BY <1>1, Zenon
<1>4. Open' = Open
  BY <1>1, <1>3 DEF Open
<1> QED
  BY <1>2, <1>4

-----------------------------------------------------------------------------
(* The functions of the collections.                                        *)

Waits == pc # "node" /\ pc' # "node" /\ UNCHANGED <<state, states, event>>

Enters ==
    /\ pc # "node" /\ pc' = "node" /\ state \in Level /\ UNCHANGED <<state, event>>
    /\ \E next \in Pushed :
          states' = Append(states, next) /\ Frames(next) = FillIn(Frames(state))

Skips ==
    /\ pc # "node" /\ pc' = "idle" /\ state \in Level /\ UNCHANGED states
    /\ state' \in Level /\ Frames(state') = FillIn(Frames(state))
    /\ event' = "SCALAR"

Closes ==
    /\ pc # "node" /\ pc' = "idle" /\ state \in Level /\ Pop
    /\ \/ Frames(state) = <<"SEQUENCE">> /\ event' = "SEQUENCE-END"
       \/ Frames(state) = <<"KEY">> /\ event' = "MAPPING-END"

OpensPair ==
    /\ pc # "node" /\ pc' = "idle" /\ state \in Level /\ UNCHANGED states
    /\ Frames(state) = <<"SEQUENCE">> /\ state' \in Level
    /\ Frames(state') = <<"SEQUENCE", "KEY">> /\ event' = "MAPPING-START"

ClosesPair ==
    /\ pc # "node" /\ pc' = "idle" /\ state \in Level /\ UNCHANGED states
    /\ Frames(state) = <<"SEQUENCE", "KEY">> /\ state' \in Level
    /\ Frames(state') = <<"SEQUENCE">> /\ event' = "MAPPING-END"

Tells == \/ Waits \/ Enters \/ Skips \/ Closes \/ OpensPair \/ ClosesPair
         \/ UNCHANGED parserVars

EventStep == NodeReturns' /\ [Events!Next]_<<Open, event>>

LEMMA TellsStep == ASSUME EventInv, Tells PROVE EventStep
<1>0. ParserInv /\ \A s \in Level : s \in Inner
  BY DEF EventInv, Level
<1>1. CASE Waits
  BY <1>1, NothingTold DEF Waits, EventStep
<1>2. CASE Enters
  <2>1. PICK next \in Pushed :
          states' = Append(states, next) /\ Frames(next) = FillIn(Frames(state))
    BY <1>2 DEF Enters
  <2>2. Open' = Open /\ NodeReturns'
    BY <1>2, <2>1, NodeEntered DEF Enters
  <2> QED
    BY <1>2, <2>2 DEF Enters, EventStep
<1>3. CASE Skips
  <2>1. Open' = FillIn(Open) /\ NodeReturns'
    BY <1>3, EmptyReturns DEF Skips
  <2> QED
    BY <1>0, <1>3, <2>1, LeafTold DEF Skips, EventStep
<1>4. CASE Closes
  <2>1. PICK c \in {"SEQUENCE", "KEY"} : Frames(state) = <<c>>
          /\ (c = "SEQUENCE" => event' = "SEQUENCE-END")
          /\ (c = "KEY" => event' = "MAPPING-END")
    BY <1>4 DEF Closes
  <2>2. c \in Constructs /\ Last(Frames(state)) = c
    BY <2>1, TupleEnds DEF Constructs
  <2>3. Open' = Front(Open) /\ NodeReturns'
    BY <1>4, <2>1, <2>2, CollectionEnds DEF Closes
  <2> QED
    BY <1>0, <1>4, <2>1, <2>2, <2>3, EndTold DEF Closes, EventStep
<1>5. CASE OpensPair
  <2>1. Open' = Append(FillIn(Open), "KEY") /\ NodeReturns'
    BY <1>5, PairBegins DEF OpensPair
  <2> QED
    BY <1>0, <1>5, <2>1, StartTold DEF OpensPair, EventStep
<1>6. CASE ClosesPair
  <2>1. Open' = Front(Open) /\ NodeReturns'
    BY <1>6, PairEnds DEF ClosesPair
  <2>2. Last(Frames(state)) = "KEY"
    BY <1>6, TupleEnds DEF ClosesPair
  <2> QED
    BY <1>0, <1>6, <2>1, <2>2, EndTold DEF ClosesPair, EventStep
<1>7. CASE UNCHANGED parserVars
  BY <1>7, NothingTold DEF parserVars, EventStep
<1> QED
  BY <1>1, <1>2, <1>3, <1>4, <1>5, <1>6, <1>7 DEF Tells

LEMMA FramesTable ==
  /\ Frames("BLOCK-SEQUENCE-FIRST-ENTRY") = <<"SEQUENCE">>
  /\ Frames("BLOCK-SEQUENCE-ENTRY") = <<"SEQUENCE">>
  /\ Frames("INDENTLESS-SEQUENCE-ENTRY") = <<"SEQUENCE">>
  /\ Frames("FLOW-SEQUENCE-FIRST-ENTRY") = <<"SEQUENCE">>
  /\ Frames("FLOW-SEQUENCE-ENTRY") = <<"SEQUENCE">>
  /\ Frames("BLOCK-MAPPING-FIRST-KEY") = <<"KEY">>
  /\ Frames("BLOCK-MAPPING-KEY") = <<"KEY">>
  /\ Frames("BLOCK-MAPPING-VALUE") = <<"VALUE">>
  /\ Frames("FLOW-MAPPING-FIRST-KEY") = <<"KEY">>
  /\ Frames("FLOW-MAPPING-KEY") = <<"KEY">>
  /\ Frames("FLOW-MAPPING-VALUE") = <<"VALUE">>
  /\ Frames("FLOW-MAPPING-EMPTY-VALUE") = <<"VALUE">>
  /\ Frames("FLOW-SEQUENCE-ENTRY-MAPPING-KEY") = <<"SEQUENCE", "KEY">>
  /\ Frames("FLOW-SEQUENCE-ENTRY-MAPPING-VALUE") = <<"SEQUENCE", "VALUE">>
  /\ Frames("FLOW-SEQUENCE-ENTRY-MAPPING-END") = <<"SEQUENCE", "KEY">>
BY DEF Frames

LEMMA CollectionTells ==
  /\ ParseBlockSequenceEntry => Tells
  /\ ParseIndentlessSequenceEntry => Tells
  /\ ParseBlockMappingKey => Tells
  /\ ParseBlockMappingValue => Tells
  /\ ParseFlowSequenceEntry => Tells
  /\ ParsePairKey => Tells
  /\ ParsePairValue => Tells
  /\ ParsePairEnd => Tells
  /\ ParseFlowMappingKey => Tells
  /\ ParseFlowMappingValue => Tells
<1> USE FramesTable, FillTuples
    DEF Tells, Waits, Enters, Skips, Closes, OpensPair, ClosesPair, Level, Root,
            ParserError, SkipIndicator, SkipAndSee, Item, ParseNode, EnterNode,
            ProcessEmptyScalar, CloseCollection
<1>1. ParseBlockSequenceEntry => Tells
  BY DEF ParseBlockSequenceEntry
<1>2. ParseIndentlessSequenceEntry => Tells
  BY DEF ParseIndentlessSequenceEntry
<1>3. ParseBlockMappingKey => Tells
  BY DEF ParseBlockMappingKey
<1>4. ParseBlockMappingValue => Tells
  BY DEF ParseBlockMappingValue
<1>5. ParseFlowSequenceEntry => Tells
  BY DEF ParseFlowSequenceEntry
<1>6. ParsePairKey => Tells
  BY DEF ParsePairKey
<1>7. ParsePairValue => Tells
  BY DEF ParsePairValue
<1>8. ParsePairEnd => Tells
  BY DEF ParsePairEnd
<1>9. ParseFlowMappingKey => Tells
  BY DEF ParseFlowMappingKey
<1>10. ParseFlowMappingValue => Tells
  BY DEF ParseFlowMappingValue
<1> QED
  BY <1>1, <1>2, <1>3, <1>4, <1>5, <1>6, <1>7, <1>8, <1>9, <1>10

-----------------------------------------------------------------------------
(* Streams, documents and nodes.                                            *)

LEMMA ParseTells == ASSUME EventInv, Parse PROVE EventStep
<1>1. /\ UNCHANGED <<state, states>> /\ event' = "none" /\ pc = "idle"
      /\ pc' = "node" => state = "BLOCK-NODE"
  BY DEF Parse
<1>2. CASE state = "BLOCK-NODE"
  <2>1. Open = <<"STREAM", "DOCUMENT">> /\ Open' = <<"STREAM", "DOCUMENT">>
    BY <1>1, <1>2, OpenAtRoot, OpenAtRootNext DEF Root
  <2>2. NodeReturns'
    BY <1>1, <1>2 DEF EventInv, NodeReturns, InNode, Root
  <2> QED
    BY <1>1, <2>1, <2>2 DEF EventStep, Events!Next, Events!Call
<1>3. CASE state # "BLOCK-NODE"
  <2>1. Open' = Open /\ NodeReturns'
    BY <1>1, <1>3, NothingTold
  <2> QED
    BY <1>1, <2>1 DEF EventStep, Events!Next, Events!Call
<1> QED
  BY <1>2, <1>3

\* Outside of a document no state waits.
LEMMA OpenIsOuter ==
  ParserInv /\ state \in Outer => states = <<>> /\ Open = Frames(state)
<1> SUFFICES ASSUME ParserInv, state \in Outer
             PROVE  states = <<>> /\ Open = Frames(state)
  OBVIOUS
<1>1. states = <<>> /\ states \in Seq(Pushed)
  BY DEF ParserInv, ParserTypes, Nesting
<1>2. ~ InNode /\ state \notin Root
  BY DEF ParserInv, Nesting, InNode, Root
<1>3. Open = <<>> \o Frames(state)
  BY <1>1, <1>2, OpenOutside, ToldEmpty
<1>4. Frames(state) \in Seq(Constructs)
  BY FramesType
<1> QED
  BY <1>1, <1>3, <1>4, ConcatEmptySeq

LEMMA OpenIsOuterNext ==
  (ParserInv /\ state \in Outer => states = <<>> /\ Open = Frames(state))'
BY OpenIsOuter, PTL

LEMMA OuterFrames ==
  /\ Frames("STREAM-START") = <<>> /\ Frames("END") = <<"ENDED">>
  /\ \A s \in Starting : Frames(s) = <<"STREAM">>
  /\ Frames("DOCUMENT-END") = <<"STREAM", "FULL">>
BY DEF Frames

LEMMA StreamsTell ==
  ASSUME EventInv, ParserInv',
         ParseStreamStart \/ StreamEnd \/ SkipDocumentEnd \/ ParseDocumentEnd
  PROVE  EventStep
<1>1. state \in Outer /\ state' \in Outer /\ pc # "node" /\ pc' # "node"
  BY DEF ParseStreamStart, StreamEnd, SkipDocumentEnd, ParseDocumentEnd, SkipAndSee
<1>2. Open = Frames(state) /\ Open' = Frames(state')
  BY <1>1, OpenIsOuter, OpenIsOuterNext DEF EventInv
<1>3. NodeReturns'
  BY <1>1 DEF NodeReturns, InNode, Root
<1>4. CASE ParseStreamStart
  BY <1>2, <1>3, <1>4, OuterFrames
  DEF ParseStreamStart, EventStep, Events!Next, Events!StreamStart
<1>5. CASE StreamEnd
  BY <1>2, <1>3, <1>5, OuterFrames
  DEF StreamEnd, EventStep, Events!Next, Events!StreamEnd
<1>6. CASE SkipDocumentEnd
  BY <1>2, <1>3, <1>6 DEF SkipDocumentEnd, SkipAndSee, EventStep
<1>7. CASE ParseDocumentEnd
  BY <1>2, <1>3, <1>7, OuterFrames
  DEF ParseDocumentEnd, EventStep, Events!Next, Events!DocumentEnd
<1> QED
  BY <1>4, <1>5, <1>6, <1>7

LEMMA DocumentTells ==
  ASSUME EventInv, ImplicitDocument \/ ExplicitDocument PROVE EventStep
<1>1. /\ state \in Starting /\ pc' = "idle" /\ event' = "DOCUMENT-START"
      /\ states' = Append(states, "DOCUMENT-END") /\ state' \in Root
  BY DEF ImplicitDocument, ExplicitDocument, StartDocument, Root
<1>2. Open = <<"STREAM">> /\ states = <<>>
  BY <1>1, OpenIsOuter, OuterFrames DEF EventInv
<1>3. Open' = <<"STREAM", "DOCUMENT">>
  BY <1>1, OpenAtRootNext
<1>4. states' = <<"DOCUMENT-END">>
  BY <1>1, <1>2, Tuples
<1>5. NodeReturns'
  BY <1>1, <1>4 DEF NodeReturns, InNode
<1> QED
  BY <1>1, <1>2, <1>3, <1>5 DEF EventStep, Events!Next, Events!DocumentStart

LEMMA DirectiveTells == ASSUME EventInv, ProcessDirective PROVE EventStep
<1>1. UNCHANGED <<state, states, event>> /\ pc # "node" /\ pc' # "node"
  BY DEF ProcessDirective, SkipAndSee, ParserError, parserVars
<1> QED
  BY <1>1, NothingTold DEF EventStep

LEMMA ErrorTells == ASSUME EventInv, UNCHANGED parserVars PROVE EventStep
BY TellsStep DEF Tells

LEMMA FirstTells == ASSUME EventInv, FirstEntry PROVE EventStep
<1>1. Tells
  BY DEF FirstEntry, SkipAndSee, Tells, Waits
<1> QED
  BY <1>1, TellsStep

LEMMA ContentTells == ASSUME EventInv, ParseDocumentContent PROVE EventStep
<1>1. state \in Root /\ state \in Inner /\ state = "DOCUMENT-CONTENT"
  BY DEF ParseDocumentContent, Root
<1>2. CASE Token \in Outside
  <2>1. Pop /\ pc' = "idle" /\ event' = "SCALAR"
    BY <1>2 DEF ParseDocumentContent, AllBut
  <2>2. Open' = FillIn(Open) /\ NodeReturns'
    BY <1>1, <2>1, PopReturns
  <2> QED
    BY <1>1, <2>1, <2>2, LeafTold DEF EventStep, EventInv
<1>3. CASE Token \notin Outside
  <2>1. UNCHANGED <<state, states, event>>
    BY <1>3 DEF ParseDocumentContent, EnterNode
  <2>2. Open' = Open
    BY <1>1, <2>1, OpenAtRoot, OpenAtRootNext
  <2>3. NodeReturns'
    BY <1>1, <2>1 DEF EventInv, NodeReturns, InNode, Root
  <2> QED
    BY <2>1, <2>2, <2>3 DEF EventStep
<1> QED
  BY <1>2, <1>3

LEMMA NodesTell ==
  ASSUME EventInv,
         NodeAlias \/ NodeProperty \/ NodeScalar \/ NodeCollection \/ NodeOther
  PROVE  EventStep
<1>1. pc = "node" /\ state \in Inner /\ ParserInv /\ (InNode \/ state \in Root)
  BY DEF NodeAlias, NodeProperty, NodeScalar, NodeCollection, NodeOther, Content,
         EventInv, ParserInv, Nesting, InNode, Root
<1>2. ASSUME Pop, pc' = "idle", event' \in {"SCALAR", "ALIAS"} PROVE EventStep
  <2>1. Open' = FillIn(Open) /\ NodeReturns'
    BY <1>1, <1>2, PopReturns
  <2> QED
    BY <1>1, <1>2, <2>1, LeafTold DEF EventStep
<1>3. CASE NodeAlias \/ NodeScalar
  BY <1>2, <1>3 DEF NodeAlias, NodeScalar
<1>4. CASE NodeProperty
  <2>1. UNCHANGED <<state, states, pc, event>>
    BY <1>4 DEF NodeProperty
  <2> QED
    BY <2>1, NothingTold DEF EventStep
<1>5. CASE NodeCollection
  <2>1. PICK c \in {"SEQUENCE", "KEY"} :
          /\ states' = states /\ pc' = "idle" /\ state' \in Level
          /\ Frames(state') = <<c>>
          /\ event' = IF c = "SEQUENCE" THEN "SEQUENCE-START" ELSE "MAPPING-START"
    BY <1>5, FramesTable DEF NodeCollection, StartsHere, Level, Root
  <2>2. c \in Constructs
    BY DEF Constructs
  <2>3. Open' = Append(FillIn(Open), c) /\ NodeReturns'
    BY <1>1, <2>1, <2>2, CollectionBegins
  <2> QED
    BY <1>1, <2>1, <2>3, StartTold DEF EventStep
<1>6. CASE NodeOther
  <2>1. CASE Bare
    BY <1>6, <2>1, ErrorTells DEF NodeOther, ParserError
  <2>2. CASE ~ Bare
    BY <1>2, <1>6, <2>2 DEF NodeOther
  <2> QED
    BY <2>1, <2>2
<1> QED
  BY <1>3, <1>4, <1>5, <1>6

-----------------------------------------------------------------------------
LEMMA EventInit == ParserInit => EventInv /\ Events!Init
<1> SUFFICES ASSUME ParserInit PROVE EventInv /\ Events!Init
  OBVIOUS
<1>1. ParserInv
  BY ParserInvInit
<1>2. Open = <<>>
  BY <1>1, OpenIsOuter, OuterFrames DEF ParserInit
<1>3. NodeReturns
  BY DEF ParserInit, NodeReturns, InNode, Root
<1> QED
  BY <1>1, <1>2, <1>3 DEF EventInv, Events!Init, ParserInit

LEMMA EventNext ==
  ASSUME EventInv, [Next]_vars
  PROVE  EventInv' /\ [Events!Next]_<<Open, event>>
<1>0. ParserInv'
  BY ParserInvStep DEF EventInv
<1>1. CASE UNCHANGED parserVars
  BY <1>0, <1>1, ErrorTells DEF EventInv, EventStep
<1>2. CASE ParserStep
  <2> SUFFICES EventStep
    BY <1>0 DEF EventInv, EventStep
  <2>1. CASE Parse
    BY <2>1, ParseTells
  <2>2. CASE ParseStreamStart \/ StreamEnd \/ SkipDocumentEnd \/ ParseDocumentEnd
    BY <1>0, <2>2, StreamsTell
  <2>3. CASE ProcessDirective
    BY <2>3, DirectiveTells
  <2>4. CASE ImplicitDocument \/ ExplicitDocument
    BY <2>4, DocumentTells
  <2>5. CASE ParseDocumentContent
    BY <2>5, ContentTells
  <2>6. CASE NodeAlias \/ NodeProperty \/ NodeScalar \/ NodeCollection \/ NodeOther
    BY <2>6, NodesTell
  <2>7. CASE FirstEntry
    BY <2>7, FirstTells
  <2>8. CASE NoDocument \/ UndefinedTag
    BY <2>8, ErrorTells DEF NoDocument, UndefinedTag, ParserError
  <2>9. CASE \/ ParseBlockSequenceEntry \/ ParseIndentlessSequenceEntry
            \/ ParseBlockMappingKey \/ ParseBlockMappingValue
            \/ ParseFlowSequenceEntry \/ ParsePairKey \/ ParsePairValue
            \/ ParsePairEnd \/ ParseFlowMappingKey \/ ParseFlowMappingValue
    BY <2>9, CollectionTells, TellsStep
  <2> QED
    BY <1>2, <2>1, <2>2, <2>3, <2>4, <2>5, <2>6, <2>7, <2>8, <2>9 DEF ParserStep
<1> QED
  BY <1>1, <1>2 DEF Next, ScannerStep, vars, parserVars

\* For any text, and nesting to any depth: the events that the parser returns
\* are a stream of documents with one tree each, and a mapping has pairs.  The
\* functions of parser.c only keep the state to go on in, and some have no
\* level of their own.
THEOREM EventsWellFormed == Spec => ImplementsEvents
<1>1. ParserInit => EventInv /\ Events!Init
  BY EventInit
<1>2. EventInv /\ [Next]_vars => EventInv' /\ [Events!Next]_<<Open, event>>
  BY EventNext
<1> QED
  BY <1>1, <1>2, PTL DEF Spec, ImplementsEvents, Events!Spec

-----------------------------------------------------------------------------
(* The scanner.                                                            *)

Errors  == {"none", "scanner", "parser", "assert"}
KeyType == [possible : BOOLEAN, required : BOOLEAN, pos : Int, column : Nat]
ScannerType ==
    [tokens : Seq(TokenTypes), indents : Seq(Nat), keys : Seq(KeyType),
     simple_key_allowed : BOOLEAN, column : Nat, inside : BOOLEAN,
     plain : BOOLEAN, ended : BOOLEAN, error : Errors]

\* The possible keys are in the queue, before their levels' inner ones, and
\* not to the right of the text.
InPlace(s) ==
    \A i \in 1..Len(s.keys) : s.keys[i].possible =>
        /\ s.keys[i].pos \in 0..(Len(s.tokens) - 1)
        /\ s.tokens[s.keys[i].pos + 1] \in KeyStarts
        /\ s.keys[i].column <= s.column
        /\ \A j \in 1..(i - 1) : s.keys[j].possible => s.keys[j].pos < s.keys[i].pos

\* The text is to the right of its block, unless a simple key may start here.
Ahead(s) ==
    s.keys # <<>> /\ ~ s.ended /\ ~ s.inside /\ (Len(s.keys) > 1 \/ ~ s.simple_key_allowed)
        => Indent(s) < s.column

Good(s) == /\ s \in ScannerType /\ InPlace(s) /\ Ahead(s)
           /\ s.error = "assert" => s.inside

\* At a lexeme: the blocks are closed that it is not in.
Ready(s) == /\ Good(s) /\ s.keys # <<>> /\ s.error # "assert"
            /\ Len(s.keys) = 1 => Indent(s) <= s.column

Flags(s) == <<s.simple_key_allowed, s.inside, s.ended>>

ScannerInv == text \in Texts /\ Good(scanner)

-----------------------------------------------------------------------------
(* Where the keys are when the queue changes.                              *)

LEMMA StillInPlace ==
  ASSUME NEW s \in ScannerType, NEW t \in ScannerType, InPlace(s),
         s.column <= t.column, Len(s.tokens) <= Len(t.tokens),
         \A i \in 1..Len(s.tokens) : t.tokens[i] = s.tokens[i],
         \A i \in 1..Len(t.keys) : t.keys[i].possible =>
             i <= Len(s.keys) /\ t.keys[i] = s.keys[i]
  PROVE  InPlace(t)
<1> SUFFICES ASSUME NEW i \in 1..Len(t.keys), t.keys[i].possible
             PROVE  /\ t.keys[i].pos \in 0..(Len(t.tokens) - 1)
                    /\ t.tokens[t.keys[i].pos + 1] \in KeyStarts
                    /\ t.keys[i].column <= t.column
                    /\ \A j \in 1..(i - 1) : t.keys[j].possible => t.keys[j].pos < t.keys[i].pos
  BY DEF InPlace
<1>1. /\ Len(s.tokens) \in Nat /\ Len(t.tokens) \in Nat /\ Len(s.keys) \in Nat
      /\ Len(t.keys) \in Nat /\ s.column \in Nat /\ t.column \in Nat
  BY DEF ScannerType
<1>2. i \in 1..Len(s.keys) /\ t.keys[i] = s.keys[i] /\ s.keys[i] \in KeyType
  BY <1>1, ElementOfSeq DEF ScannerType
<1>3. /\ s.keys[i].pos \in 0..(Len(s.tokens) - 1)
      /\ s.tokens[s.keys[i].pos + 1] \in KeyStarts
      /\ s.keys[i].column <= s.column
      /\ \A j \in 1..(i - 1) : s.keys[j].possible => s.keys[j].pos < s.keys[i].pos
  BY <1>2 DEF InPlace
<1>4. /\ t.keys[i].pos \in 0..(Len(t.tokens) - 1)
      /\ t.tokens[t.keys[i].pos + 1] \in KeyStarts
  <2> DEFINE q == s.keys[i].pos
             p == q + 1
  <2>1. p \in 1..Len(s.tokens) /\ p - 1 \in 0..(Len(t.tokens) - 1)
    <3>1. q \in 0..(Len(s.tokens) - 1)
      BY <1>3
    <3> HIDE DEF q
    <3> QED
      BY <1>1, <3>1
  <2>2. s.tokens[p] \in KeyStarts /\ t.keys[i].pos + 1 = p /\ t.keys[i].pos = p - 1
    BY <1>2, <1>3, <2>1
  <2> HIDE DEF p
  <2> QED
    BY <2>1, <2>2
<1>5. t.keys[i].column <= t.column
  BY <1>1, <1>2, <1>3 DEF KeyType
<1>6. \A j \in 1..(i - 1) : t.keys[j].possible => t.keys[j].pos < t.keys[i].pos
  <2> TAKE j \in 1..(i - 1)
  <2>1. j \in 1..Len(t.keys)
    BY <1>1
  <2>2. t.keys[j].possible => t.keys[j] = s.keys[j]
    BY <2>1
  <2>3. s.keys[j].possible => s.keys[j].pos < s.keys[i].pos
    BY <1>3
  <2> QED
    BY <1>2, <2>2, <2>3, Zenon
<1> QED
  BY <1>4, <1>5, <1>6

\* The token of a key that was saved for the innermost level.
LEMMA NowInPlace ==
  ASSUME NEW s \in ScannerType, NEW t \in ScannerType, InPlace(s),
         NEW type \in KeyStarts, t.tokens = Append(s.tokens, type),
         s.column <= t.column, Len(s.keys) <= Len(t.keys),
         \A i \in 1..Len(t.keys) : t.keys[i].possible =>
             \/ i <= Len(s.keys) /\ t.keys[i] = s.keys[i]
             \/ /\ i = Len(s.keys) /\ t.keys[i].pos = Len(s.tokens)
                /\ t.keys[i].column <= t.column
  PROVE  InPlace(t)
<1> SUFFICES ASSUME NEW i \in 1..Len(t.keys), t.keys[i].possible
             PROVE  /\ t.keys[i].pos \in 0..(Len(t.tokens) - 1)
                    /\ t.tokens[t.keys[i].pos + 1] \in KeyStarts
                    /\ t.keys[i].column <= t.column
                    /\ \A j \in 1..(i - 1) : t.keys[j].possible => t.keys[j].pos < t.keys[i].pos
  BY DEF InPlace
<1>1. /\ Len(s.tokens) \in Nat /\ Len(s.keys) \in Nat
      /\ Len(t.keys) \in Nat /\ s.column \in Nat /\ t.column \in Nat
      /\ s.tokens \in Seq(TokenTypes) /\ type \in TokenTypes
  BY DEF ScannerType, TokenTypes
<1>2. /\ Len(t.tokens) = Len(s.tokens) + 1
      /\ \A j \in 1..Len(s.tokens) : t.tokens[j] = s.tokens[j]
      /\ t.tokens[Len(s.tokens) + 1] = type
  BY <1>1, AppendProperties
<1>3. \A j \in 1..Len(s.keys) : s.keys[j].possible =>
        /\ s.keys[j].pos \in 0..(Len(s.tokens) - 1)
        /\ s.tokens[s.keys[j].pos + 1] \in KeyStarts
        /\ s.keys[j].column \in Nat
        /\ s.keys[j].column <= s.column
        /\ \A k \in 1..(j - 1) : s.keys[k].possible => s.keys[k].pos < s.keys[j].pos
  <2> TAKE j \in 1..Len(s.keys)
  <2>1. s.keys[j] \in KeyType
    BY ElementOfSeq DEF ScannerType
  <2> QED
    BY <2>1 DEF InPlace, KeyType
<1>4. CASE i <= Len(s.keys) /\ t.keys[i] = s.keys[i]
  <2>1. i \in 1..Len(s.keys) /\ s.keys[i].possible
    BY <1>1, <1>4
  <2>2. /\ t.keys[i].pos \in 0..(Len(t.tokens) - 1)
        /\ t.tokens[t.keys[i].pos + 1] \in KeyStarts
        /\ t.keys[i].column <= t.column
    <3> DEFINE q == s.keys[i].pos
               p == q + 1
    <3>1. p \in 1..Len(s.tokens) /\ p - 1 \in 0..Len(s.tokens)
      <4>1. q \in 0..(Len(s.tokens) - 1)
        BY <1>3, <2>1
      <4> HIDE DEF q
      <4> QED
        BY <1>1, <4>1
    <3>2. /\ s.tokens[p] \in KeyStarts /\ t.keys[i].pos + 1 = p /\ t.keys[i].pos = p - 1
          /\ t.keys[i].column \in Nat /\ t.keys[i].column <= s.column
      BY <1>3, <1>4, <2>1, <3>1
    <3> HIDE DEF p
    <3>3. t.keys[i].column <= t.column
      BY <1>1, <3>2
    <3> QED
      BY <1>2, <1>1, <3>1, <3>2, <3>3
  <2>3. \A j \in 1..(i - 1) : t.keys[j].possible => t.keys[j].pos < t.keys[i].pos
    <3> TAKE j \in 1..(i - 1)
    <3>1. j \in 1..Len(t.keys) /\ j # Len(s.keys) /\ j < i
      BY <1>1, <2>1
    <3> QED
      BY <1>3, <1>4, <2>1, <3>1
  <2> QED
    BY <2>2, <2>3
<1>5. CASE /\ i = Len(s.keys) /\ t.keys[i].pos = Len(s.tokens)
           /\ t.keys[i].column <= t.column
  <2>1. \A j \in 1..(i - 1) : t.keys[j].possible => t.keys[j].pos < t.keys[i].pos
    <3> TAKE j \in 1..(i - 1)
    <3>1. j \in 1..Len(t.keys) /\ j # Len(s.keys) /\ j < i /\ j \in 1..Len(s.keys)
      BY <1>1, <1>5
    <3>2. t.keys[j].possible => t.keys[j] = s.keys[j]
      BY <3>1
    <3>3. s.keys[j].possible => s.keys[j].pos \in 0..(Len(s.tokens) - 1)
      BY <1>3, <3>1
    <3>4. s.keys[j].possible => s.keys[j].pos < Len(s.tokens)
      BY <1>1, <3>3
    <3> QED
      BY <1>5, <3>2, <3>4, Zenon
  <2>2. t.keys[i].pos \in 0..(Len(t.tokens) - 1) /\ t.tokens[t.keys[i].pos + 1] \in KeyStarts
    BY <1>1, <1>2, <1>5
  <2> QED
    BY <1>5, <2>1, <2>2
<1> QED
  BY <1>4, <1>5

LEMMA InsertIs ==
  ASSUME NEW seq, NEW i, NEW elt
  PROVE  InsertAt(seq, i, elt) = SubSeq(seq, 1, i - 1) \o <<elt>> \o SubSeq(seq, i, Len(seq))
BY DEF InsertAt

\* An element goes between the first p elements and the others.
LEMMA InsertFacts ==
  ASSUME NEW S, NEW seq \in Seq(S), NEW elt \in S, NEW p \in 0..Len(seq),
         NEW k, k = p + 1
  PROVE  /\ InsertAt(seq, k, elt) \in Seq(S)
         /\ Len(InsertAt(seq, k, elt)) = Len(seq) + 1
         /\ \A i \in 1..p : InsertAt(seq, k, elt)[i] = seq[i]
<1> DEFINE n == Len(seq)
           a == SubSeq(seq, 1, p)
           b == SubSeq(seq, p + 1, n)
           ae == a \o <<elt>>
<1>1. n \in Nat /\ \A i \in 1..n : seq[i] \in S
  BY ElementOfSeq
<1>2. InsertAt(seq, k, elt) = ae \o b
  <2>1. k - 1 = p
    BY <1>1
  <2>2. InsertAt(seq, k, elt) = SubSeq(seq, 1, k - 1) \o <<elt>> \o SubSeq(seq, k, Len(seq))
    BY InsertIs, Zenon
  <2> QED
    BY <2>1, <2>2, Zenon
<1>3. /\ a \in Seq(S) /\ Len(a) = p
      /\ \A i \in 1..p : a[i] = seq[i]
  <2>1. p \in Int /\ 1 \in Int /\ \A i \in 1..p : seq[i] \in S
    BY <1>1
  <2>2. /\ a \in Seq(S)
        /\ Len(a) = IF 1 <= p THEN p - 1 + 1 ELSE 0
        /\ \A i \in 1 .. p - 1 + 1 : a[i] = seq[1 + i - 1]
    BY <2>1, SubSeqProperties
  <2>3. p - 1 + 1 = p /\ (IF 1 <= p THEN p - 1 + 1 ELSE 0) = p
        /\ \A i \in 1..p : 1 + i - 1 = i
    BY <1>1
  <2> HIDE DEF a
  <2> QED
    BY <2>2, <2>3, Zenon
<1>4. b \in Seq(S) /\ Len(b) = n - p
  <2>1. p + 1 \in Int /\ n \in Int /\ \A i \in (p + 1)..n : seq[i] \in S
    BY <1>1
  <2>2. b \in Seq(S) /\ Len(b) = IF p + 1 <= n THEN n - (p + 1) + 1 ELSE 0
    BY <2>1, SubSeqProperties
  <2>3. (IF p + 1 <= n THEN n - (p + 1) + 1 ELSE 0) = n - p
    BY <1>1
  <2> HIDE DEF b
  <2> QED
    BY <2>2, <2>3
<1> HIDE DEF a, b, n
<1>5. <<elt>> \in Seq(S) /\ Len(<<elt>>) = 1
  OBVIOUS
<1>6. /\ ae \in Seq(S) /\ Len(ae) = p + 1
      /\ \A i \in 1..p : ae[i] = seq[i]
  <2>1. /\ ae \in Seq(S) /\ Len(ae) = p + 1
        /\ \A i \in 1..(p + 1) : ae[i] = IF i <= p THEN a[i] ELSE <<elt>>[i - p]
    BY <1>3, <1>5, ConcatProperties
  <2> HIDE DEF ae
  <2> QED
    BY <1>1, <1>3, <2>1
<1> HIDE DEF ae
<1>7. /\ ae \o b \in Seq(S) /\ Len(ae \o b) = n + 1
      /\ \A i \in 1..(n + 1) : (ae \o b)[i] = IF i <= p + 1 THEN ae[i] ELSE b[i - Len(ae)]
  <2>1. /\ ae \o b \in Seq(S) /\ Len(ae \o b) = Len(ae) + Len(b)
        /\ \A i \in 1..(Len(ae) + Len(b)) :
               (ae \o b)[i] = IF i <= Len(ae) THEN ae[i] ELSE b[i - Len(ae)]
    BY <1>4, <1>6, ConcatProperties, Zenon
  <2>2. Len(ae) + Len(b) = n + 1
    BY <1>1, <1>4, <1>6 DEF n
  <2> QED
    BY <1>6, <2>1, <2>2
<1>8. \A i \in 1..p : i \in 1..(n + 1) /\ i <= p + 1
  BY <1>1 DEF n
<1>9. \A i \in 1..p : (ae \o b)[i] = seq[i]
  BY <1>6, <1>7, <1>8
<1> QED
  BY <1>2, <1>7, <1>8, <1>9 DEF n

LEMMA InsertInPlace ==
  ASSUME NEW s \in ScannerType, NEW t \in ScannerType, InPlace(s),
         NEW p \in 0..Len(s.tokens), NEW type \in TokenTypes,
         t.tokens = InsertAt(s.tokens, p + 1, type), s.column <= t.column,
         \A i \in 1..Len(t.keys) : t.keys[i].possible =>
             i <= Len(s.keys) /\ t.keys[i] = s.keys[i] /\ t.keys[i].pos < p
  PROVE  InPlace(t)
<1> SUFFICES ASSUME NEW i \in 1..Len(t.keys), t.keys[i].possible
             PROVE  /\ t.keys[i].pos \in 0..(Len(t.tokens) - 1)
                    /\ t.tokens[t.keys[i].pos + 1] \in KeyStarts
                    /\ t.keys[i].column <= t.column
                    /\ \A j \in 1..(i - 1) : t.keys[j].possible => t.keys[j].pos < t.keys[i].pos
  BY DEF InPlace
<1> DEFINE q == t.keys[i].pos
<1>1. /\ Len(s.tokens) \in Nat /\ s.tokens \in Seq(TokenTypes) /\ Len(s.keys) \in Nat
      /\ Len(t.keys) \in Nat /\ s.column \in Nat /\ t.column \in Nat
  BY DEF ScannerType
<1>2. i \in 1..Len(s.keys) /\ t.keys[i] = s.keys[i] /\ s.keys[i] \in KeyType /\ q < p
  BY <1>1, ElementOfSeq DEF ScannerType
<1>3. /\ q \in 0..(Len(s.tokens) - 1)
      /\ s.tokens[q + 1] \in KeyStarts
      /\ s.keys[i].column <= s.column
      /\ \A j \in 1..(i - 1) : s.keys[j].possible => s.keys[j].pos < q
  BY <1>2 DEF InPlace
<1>4. /\ Len(t.tokens) = Len(s.tokens) + 1
      /\ \A j \in 1..p : t.tokens[j] = s.tokens[j]
  <2> DEFINE k == p + 1
             v == s.tokens
  <2>1. v \in Seq(TokenTypes) /\ p \in 0..Len(v) /\ t.tokens = InsertAt(v, k, type)
    BY <1>1
  <2>2. k = p + 1
    OBVIOUS
  <2> HIDE DEF k, v
  <2>3. Len(t.tokens) = Len(v) + 1 /\ \A j \in 1..p : t.tokens[j] = v[j]
    BY <2>1, <2>2, InsertFacts
  <2> QED
    BY <2>3 DEF v
<1>5. t.keys[i].column <= t.column
  BY <1>1, <1>2, <1>3 DEF KeyType
<1>6. \A j \in 1..(i - 1) : t.keys[j].possible => t.keys[j].pos < q
  <2> TAKE j \in 1..(i - 1)
  <2>1. j \in 1..Len(t.keys)
    BY <1>1
  <2>2. t.keys[j].possible => t.keys[j] = s.keys[j]
    BY <2>1
  <2> QED
    BY <1>3, <2>2, Zenon
<1>7. q < p
  BY <1>2
<1> HIDE DEF q
<1>8. q + 1 \in 1..p /\ q \in 0..(Len(t.tokens) - 1)
  BY <1>1, <1>3, <1>4, <1>7
<1>9. t.tokens[q + 1] \in KeyStarts
  BY <1>3, <1>4, <1>8
<1> QED
  BY <1>5, <1>6, <1>8, <1>9 DEF q

-----------------------------------------------------------------------------
(* What the scanner's helpers do to its fields.                            *)

Requires(s, t, error, holds) ==
    /\ t \in ScannerType
    /\ t.tokens = s.tokens /\ t.indents = s.indents /\ t.keys = s.keys
    /\ t.column = s.column /\ Flags(t) = Flags(s)
    /\ t.error = s.error \/ (t.error = error /\ ~ holds)

LEMMA RequireIs ==
  ASSUME NEW s \in ScannerType, NEW holds, NEW error \in Errors
  PROVE  Requires(s, Require(s, holds, error), error, holds)
BY DEF Require, Requires, ScannerType, Flags

LEMMA NoKeyType == NoKey \in KeyType /\ ~ NoKey.possible
BY DEF NoKey, KeyType

LEMMA StaleIs ==
  ASSUME NEW s \in ScannerType, NEW n \in 0..Len(s.keys), NEW t, t = StaleSimpleKeys(s, n)
  PROVE  /\ t \in ScannerType
         /\ t.tokens = s.tokens /\ t.indents = s.indents
         /\ t.column = s.column /\ Flags(t) = Flags(s)
         /\ t.error \in {s.error, "scanner"}
         /\ Len(t.keys) = Len(s.keys)
         /\ \A i \in 1..Len(t.keys) : t.keys[i] = IF i <= n THEN NoKey ELSE s.keys[i]
<1> DEFINE r == Require(s, \A i \in 1..n : ~ s.keys[i].required, "scanner")
           k == [i \in DOMAIN s.keys |-> IF i <= n THEN NoKey ELSE s.keys[i]]
<1>1. /\ r \in ScannerType
      /\ r.tokens = s.tokens /\ r.indents = s.indents /\ r.keys = s.keys
      /\ r.column = s.column /\ Flags(r) = Flags(s)
      /\ r.error \in {s.error, "scanner"}
  <2>1. Requires(s, r, "scanner", \A i \in 1..n : ~ s.keys[i].required)
    BY RequireIs DEF Errors
  <2> HIDE DEF r
  <2> QED
    BY <2>1 DEF Requires
<1>2. s.keys \in Seq(KeyType) /\ DOMAIN s.keys = 1..Len(s.keys) /\ Len(s.keys) \in Nat
  BY LenProperties DEF ScannerType
<1>3. /\ k \in Seq(KeyType) /\ Len(k) = Len(s.keys)
      /\ \A i \in 1..Len(k) : k[i] = IF i <= n THEN NoKey ELSE s.keys[i]
  <2>1. k \in [1..Len(s.keys) -> KeyType]
    BY <1>2, NoKeyType, ElementOfSeq
  <2>2. k \in Seq(KeyType)
    BY <1>2, <2>1, IsASeq
  <2>3. Len(k) = Len(s.keys)
    BY <1>2, <2>1, <2>2, LenProperties
  <2> QED
    BY <1>2, <2>2, <2>3
<1>4. t = [r EXCEPT !.keys = [i \in DOMAIN s.keys |-> IF i <= n THEN NoKey ELSE s.keys[i]]]
  BY DEF StaleSimpleKeys
<1>5. t = [r EXCEPT !.keys = k]
  BY <1>4
<1> HIDE DEF r, k
<1>6. t \in ScannerType
  BY <1>1, <1>3, <1>5 DEF ScannerType
<1>7. /\ t.tokens = r.tokens /\ t.indents = r.indents /\ t.column = r.column
      /\ t.error = r.error /\ t.keys = k
      /\ t.simple_key_allowed = r.simple_key_allowed /\ t.inside = r.inside
      /\ t.plain = r.plain /\ t.ended = r.ended
  BY <1>1, <1>5 DEF ScannerType
<1>8. Flags(t) = Flags(r)
  BY <1>7 DEF Flags
<1> QED
  BY <1>1, <1>3, <1>6, <1>7, <1>8

LEMMA RemoveIs ==
  ASSUME NEW s \in ScannerType, s.keys # <<>>, NEW t, t = RemoveSimpleKey(s)
  PROVE  /\ t \in ScannerType
         /\ t.tokens = s.tokens /\ t.indents = s.indents
         /\ t.column = s.column /\ Flags(t) = Flags(s)
         /\ t.error \in {s.error, "scanner"}
         /\ t.keys = Append(Front(s.keys), NoKey)
         /\ Len(t.keys) = Len(s.keys) /\ Len(s.keys) \in Nat \ {0}
         /\ t.keys[Len(s.keys)] = NoKey
         /\ \A i \in 1..(Len(s.keys) - 1) : t.keys[i] = s.keys[i]
<1> DEFINE r == Require(s, ~ Last(s.keys).required, "scanner")
           k == Append(Front(s.keys), NoKey)
<1>1. Last(s.keys).required \in BOOLEAN
  <2>1. Last(s.keys) \in KeyType
    BY FrontFacts DEF ScannerType
  <2> QED
    BY <2>1 DEF KeyType
<1>2. /\ r \in ScannerType
      /\ r.tokens = s.tokens /\ r.indents = s.indents /\ r.keys = s.keys
      /\ r.column = s.column /\ Flags(r) = Flags(s)
      /\ r.error \in {s.error, "scanner"}
  <2>1. Requires(s, r, "scanner", ~ Last(s.keys).required)
    BY RequireIs DEF Errors
  <2> HIDE DEF r
  <2> QED
    BY <2>1 DEF Requires
<1>3. /\ Front(s.keys) \in Seq(KeyType) /\ Len(Front(s.keys)) = Len(s.keys) - 1
      /\ Len(s.keys) \in Nat \ {0}
      /\ \A i \in 1..(Len(s.keys) - 1) : Front(s.keys)[i] = s.keys[i]
  BY FrontFacts DEF ScannerType
<1>4. /\ k \in Seq(KeyType) /\ Len(k) = Len(s.keys) /\ k[Len(s.keys)] = NoKey
      /\ \A i \in 1..(Len(s.keys) - 1) : k[i] = s.keys[i]
  BY <1>3, NoKeyType, AppendProperties
<1>5. t = [r EXCEPT !.keys = k]
  BY DEF RemoveSimpleKey
<1> HIDE DEF r
<1>6. t.keys = k
  BY <1>2, <1>5 DEF ScannerType
<1> HIDE DEF k
<1>7. /\ t \in ScannerType
      /\ t.tokens = s.tokens /\ t.indents = s.indents
      /\ t.column = s.column /\ Flags(t) = Flags(s)
      /\ t.error \in {s.error, "scanner"}
  BY <1>2, <1>4, <1>5 DEF ScannerType, Flags
<1> QED
  BY <1>3, <1>4, <1>6, <1>7 DEF k

LEMMA SaveIs ==
  ASSUME NEW s \in ScannerType, s.keys # <<>>, NEW t, t = SaveSimpleKey(s)
  PROVE  /\ t \in ScannerType
         /\ t.tokens = s.tokens /\ t.indents = s.indents
         /\ t.column = s.column /\ Flags(t) = Flags(s)
         /\ t.error = "assert" => \/ s.error = "assert"
                                 \/ /\ Len(s.keys) = 1 /\ Indent(s) = s.column
                                    /\ ~ s.simple_key_allowed
         /\ Len(t.keys) = Len(s.keys) /\ Len(s.keys) \in Nat \ {0}
         /\ \A i \in 1..Len(s.keys) :
               \/ t.keys[i] = s.keys[i]
               \/ /\ i = Len(s.keys) /\ t.keys[i].pos = Len(s.tokens)
                  /\ t.keys[i].column <= t.column
<1> DEFINE required == FlowLevel(s) = 0 /\ Indent(s) = s.column
           u == RemoveSimpleKey(s)
           column == IF FlowLevel(s) = 0 THEN s.column ELSE 0
           key == PossibleKey(required, Len(s.tokens), column)
           k == Append(Front(u.keys), key)
<1>1. s.column \in Nat /\ s.keys \in Seq(KeyType) /\ s.tokens \in Seq(TokenTypes)
      /\ Len(s.keys) \in Nat \ {0}
  BY EmptySeq DEF ScannerType
<1>2. CASE ~ s.simple_key_allowed
  <2>1. t = Require(s, ~ required, "assert")
    BY <1>2 DEF SaveSimpleKey
  <2>2. Requires(s, t, "assert", ~ required)
    BY <2>1, RequireIs DEF Errors
  <2> QED
    BY <1>1, <1>2, <2>2 DEF Requires, FlowLevel
<1>3. CASE s.simple_key_allowed
  <2>1. /\ u \in ScannerType
        /\ u.tokens = s.tokens /\ u.indents = s.indents
        /\ u.column = s.column /\ Flags(u) = Flags(s)
        /\ u.error \in {s.error, "scanner"}
        /\ Len(u.keys) = Len(s.keys)
        /\ \A i \in 1..(Len(s.keys) - 1) : u.keys[i] = s.keys[i]
    BY RemoveIs
  <2>2. t = [u EXCEPT !.keys = k]
    BY <1>3 DEF SaveSimpleKey
  <2>3. /\ key \in KeyType /\ key.pos = Len(s.tokens) /\ key.column <= s.column
    BY <1>1 DEF PossibleKey, KeyType
  <2> HIDE DEF u, key
  <2>4. u.keys \in Seq(KeyType) /\ u.keys # <<>>
    BY <1>1, <2>1, EmptySeq DEF ScannerType
  <2>5. /\ Front(u.keys) \in Seq(KeyType) /\ Len(Front(u.keys)) = Len(s.keys) - 1
        /\ \A i \in 1..(Len(s.keys) - 1) : Front(u.keys)[i] = s.keys[i]
    <3> DEFINE q == u.keys
    <3>1. q \in Seq(KeyType) /\ q # <<>>
      BY <2>4
    <3>2. /\ Len(q) = Len(s.keys)
          /\ \A i \in 1..(Len(s.keys) - 1) : q[i] = s.keys[i]
      BY <2>1
    <3> HIDE DEF q
    <3>3. /\ Front(q) \in Seq(KeyType) /\ Len(Front(q)) = Len(q) - 1
          /\ \A i \in 1..(Len(q) - 1) : Front(q)[i] = q[i]
      BY <3>1, FrontFacts
    <3>4. /\ Front(q) \in Seq(KeyType) /\ Len(Front(q)) = Len(s.keys) - 1
          /\ \A i \in 1..(Len(s.keys) - 1) : Front(q)[i] = s.keys[i]
      BY <3>2, <3>3
    <3> QED
      BY <3>4 DEF q
  <2>6. /\ k \in Seq(KeyType) /\ Len(k) = Len(s.keys) /\ k[Len(s.keys)] = key
        /\ \A i \in 1..(Len(s.keys) - 1) : k[i] = s.keys[i]
    BY <1>1, <2>3, <2>5, AppendProperties
  <2> HIDE DEF k
  <2>7. /\ t \in ScannerType
        /\ t.tokens = s.tokens /\ t.indents = s.indents
        /\ t.column = s.column /\ Flags(t) = Flags(s)
        /\ t.error \in {s.error, "scanner"} /\ t.keys = k
    BY <2>1, <2>2, <2>6 DEF ScannerType, Flags
  <2> QED
    BY <1>1, <2>3, <2>6, <2>7
<1> QED
  BY <1>1, <1>2, <1>3 DEF ScannerType

LEMMA MaxIs ==
  ASSUME NEW n \in Nat, NEW T \in SUBSET (0..n), T # {}
  PROVE  Max(T) \in T
<1> DEFINE D == {n - x : x \in T}
<1>1. D \in SUBSET Nat /\ D # {}
  <2>1. \A x \in T : x \in 0..n /\ n - x \in Nat
    OBVIOUS
  <2>2. PICK x \in T : TRUE
    OBVIOUS
  <2>3. n - x \in D
    OBVIOUS
  <2> QED
    BY <2>1, <2>3
<1>2. PICK d \in D : \A e \in D : d <= e
  BY <1>1, Least
<1>3. PICK x \in T : d = n - x
  BY <1>2
<1>4. \A y \in T : x >= y
  <2> TAKE y \in T
  <2>1. n - y \in D
    OBVIOUS
  <2>2. d <= n - y
    BY <1>2, <2>1
  <2>3. x \in Nat /\ y \in Nat
    OBVIOUS
  <2> QED
    BY <1>3, <2>2, <2>3
<1> QED
  BY <1>4 DEF Max

LEMMA IndentIs ==
  ASSUME NEW s \in ScannerType
  PROVE  /\ Indent(s) \in Int /\ Indent(s) >= -1
         /\ Indent(s) = IF s.indents = <<>> THEN -1 ELSE s.indents[Len(s.indents)]
<1>1. s.indents # <<>> => Last(s.indents) \in Nat /\ Last(s.indents) = s.indents[Len(s.indents)]
  BY FrontFacts DEF ScannerType
<1> QED
  BY <1>1 DEF Indent

LEMMA UnrollIs ==
  ASSUME NEW s \in ScannerType, NEW c \in Int, c >= -1, NEW t, t = UnrollIndent(s, c)
  PROVE  /\ t \in ScannerType /\ t.keys = s.keys
         /\ t.column = s.column /\ Flags(t) = Flags(s) /\ t.error = s.error
         /\ Len(s.tokens) <= Len(t.tokens)
         /\ \A i \in 1..Len(s.tokens) : t.tokens[i] = s.tokens[i]
         /\ Indent(t) <= Indent(s)
         /\ Len(s.keys) = 1 => Indent(t) <= c
<1> DEFINE n == Len(s.indents)
           low == {i \in DOMAIN s.indents : s.indents[i] <= c}
           kept == Max({0} \cup low)
           d == SubSeq(s.indents, 1, kept)
           e == [i \in 1..(n - kept) |-> "BLOCK-END"]
<1>1. /\ s.indents \in Seq(Nat) /\ n \in Nat /\ DOMAIN s.indents = 1..n
      /\ s.tokens \in Seq(TokenTypes) /\ Len(s.tokens) \in Nat
      /\ Len(s.keys) \in Nat
  BY LenProperties DEF ScannerType
<1>2. CASE FlowLevel(s) > 0 \/ Indent(s) <= c
  <2>1. t = s
    BY <1>2, Zenon DEF UnrollIndent
  <2>2. Len(s.keys) = 1 => Indent(s) <= c
    BY <1>1, <1>2 DEF FlowLevel
  <2> QED
    BY <1>1, <2>1, <2>2, IndentIs
<1>3. CASE ~ (FlowLevel(s) > 0 \/ Indent(s) <= c)
  <2>1. kept \in 0..n /\ (kept # 0 => s.indents[kept] <= c)
    <3>1. {0} \cup low \in SUBSET (0..n) /\ {0} \cup low # {}
      BY <1>1
    <3>2. kept \in {0} \cup low
      BY <1>1, <3>1, MaxIs
    <3> HIDE DEF kept
    <3> QED
      BY <1>1, <3>2
  <2>2. t = [s EXCEPT !.indents = d, !.tokens = @ \o e]
    BY <1>3 DEF UnrollIndent
  <2> HIDE DEF kept, low
  <2>3. d \in Seq(Nat) /\ Len(d) = kept /\ \A i \in 1..kept : d[i] = s.indents[i]
    <3>1. kept \in Int /\ 1 \in Int /\ \A i \in 1..kept : s.indents[i] \in Nat
      BY <1>1, <2>1, ElementOfSeq
    <3>2. /\ d \in Seq(Nat)
          /\ Len(d) = IF 1 <= kept THEN kept - 1 + 1 ELSE 0
          /\ \A i \in 1 .. kept - 1 + 1 : d[i] = s.indents[1 + i - 1]
      BY <3>1, SubSeqProperties
    <3>3. kept - 1 + 1 = kept /\ (IF 1 <= kept THEN kept - 1 + 1 ELSE 0) = kept
          /\ \A i \in 1..kept : 1 + i - 1 = i
      BY <2>1
    <3> HIDE DEF d
    <3> QED
      BY <3>2, <3>3, Zenon
  <2>4. e \in Seq(TokenTypes)
    <3>1. "BLOCK-END" \in TokenTypes /\ n - kept \in Nat
      BY <1>1, <2>1 DEF TokenTypes
    <3>2. e \in [1..(n - kept) -> TokenTypes]
      BY <3>1
    <3> QED
      BY <3>1, <3>2, IsASeq
  <2> HIDE DEF d, e
  <2> DEFINE w == s.tokens \o e
  <2>5. /\ w \in Seq(TokenTypes) /\ Len(s.tokens) <= Len(w)
        /\ \A i \in 1..Len(s.tokens) : w[i] = s.tokens[i]
    <3>1. /\ w \in Seq(TokenTypes) /\ Len(w) = Len(s.tokens) + Len(e)
          /\ \A i \in 1..(Len(s.tokens) + Len(e)) :
                w[i] = IF i <= Len(s.tokens) THEN s.tokens[i] ELSE e[i - Len(s.tokens)]
      <4> DEFINE v == s.tokens
      <4>1. v \in Seq(TokenTypes) /\ w = v \o e
        BY <1>1
      <4> HIDE DEF v, w
      <4>2. /\ w \in Seq(TokenTypes) /\ Len(w) = Len(v) + Len(e)
            /\ \A i \in 1..(Len(v) + Len(e)) :
                  w[i] = IF i <= Len(v) THEN v[i] ELSE e[i - Len(v)]
        BY <2>4, <4>1, ConcatProperties
      <4> QED
        BY <4>2, Zenon DEF v
    <3> HIDE DEF w
    <3> DEFINE m == Len(s.tokens)
    <3>2. Len(e) \in Nat /\ m \in Nat
      BY <1>1, <2>4
    <3>3. Len(w) = m + Len(e)
          /\ \A i \in 1..(m + Len(e)) : w[i] = IF i <= m THEN s.tokens[i] ELSE e[i - m]
      BY <3>1
    <3> HIDE DEF m
    <3>4. m <= Len(w) /\ \A i \in 1..m : w[i] = s.tokens[i]
      BY <3>2, <3>3
    <3> QED
      BY <3>1, <3>4 DEF m
  <2>6. t = [s EXCEPT !.indents = d, !.tokens = w]
    BY <2>2
  <2> HIDE DEF w
  <2>7. /\ t \in ScannerType /\ t.keys = s.keys /\ t.indents = d /\ t.tokens = w
        /\ t.column = s.column /\ Flags(t) = Flags(s) /\ t.error = s.error
    <3>1. /\ t.keys = s.keys /\ t.indents = d /\ t.tokens = w
          /\ t.column = s.column /\ t.error = s.error
      BY <2>6 DEF ScannerType
    <3>2. Flags(t) = Flags(s)
      BY <2>6 DEF ScannerType, Flags
    <3>3. d \in Seq(Nat) /\ w \in Seq(TokenTypes)
      BY <2>3, <2>5
    <3>4. t \in ScannerType
      BY <2>6, <3>3, Zenon DEF ScannerType
    <3> QED
      BY <3>1, <3>2, <3>4
  <2>8. Indent(t) <= c
    <3>1. CASE kept = 0
      <4>1. d = <<>>
        BY <2>3, <3>1, EmptySeq
      <4> QED
        BY <2>7, <4>1, IndentIs
    <3>2. CASE kept # 0
      <4>1. d # <<>> /\ d[Len(d)] = s.indents[kept]
        BY <2>1, <2>3, <3>2, EmptySeq
      <4> QED
        BY <2>1, <2>7, <3>2, <4>1, IndentIs
    <3> QED
      BY <3>1, <3>2
  <2>9. Indent(t) <= Indent(s)
    BY <1>3, <2>7, <2>8, IndentIs
  <2> QED
    BY <2>5, <2>7, <2>8, <2>9
<1> QED
  BY <1>2, <1>3

\* The tokens stay where they are, and no key becomes possible.
Keeps(s, t) ==
    /\ s \in ScannerType /\ t \in ScannerType
    /\ s.column <= t.column /\ Len(s.tokens) <= Len(t.tokens)
    /\ \A i \in 1..Len(s.tokens) : t.tokens[i] = s.tokens[i]
    /\ \A i \in 1..Len(t.keys) : t.keys[i].possible =>
           i <= Len(s.keys) /\ t.keys[i] = s.keys[i]

LEMMA KeepsInPlace == ASSUME NEW s, NEW t, Keeps(s, t), InPlace(s) PROVE InPlace(t)
BY StillInPlace DEF Keeps

LEMMA KeepsOn ==
  ASSUME NEW s, NEW t, NEW u, Keeps(s, t), Keeps(t, u) PROVE Keeps(s, u)
<1>1. /\ s.column \in Nat /\ t.column \in Nat /\ u.column \in Nat
      /\ Len(s.tokens) \in Nat /\ Len(t.tokens) \in Nat /\ Len(u.tokens) \in Nat
      /\ Len(s.keys) \in Nat /\ Len(t.keys) \in Nat /\ Len(u.keys) \in Nat
  BY DEF Keeps, ScannerType
<1>2. s.column <= u.column /\ Len(s.tokens) <= Len(u.tokens)
  BY <1>1 DEF Keeps
<1>3. ASSUME NEW i \in 1..Len(s.tokens) PROVE u.tokens[i] = s.tokens[i]
  <2>1. i \in 1..Len(t.tokens)
    BY <1>1 DEF Keeps
  <2> QED
    BY <2>1 DEF Keeps
<1>4. ASSUME NEW i \in 1..Len(u.keys), u.keys[i].possible
      PROVE  i <= Len(s.keys) /\ u.keys[i] = s.keys[i]
  <2>1. i \in 1..Len(t.keys) /\ u.keys[i] = t.keys[i]
    BY <1>1, <1>4 DEF Keeps
  <2> QED
    BY <1>4, <2>1 DEF Keeps
<1> QED
  BY <1>2, <1>3, <1>4 DEF Keeps

LEMMA RemoveKeeps ==
  ASSUME NEW s \in ScannerType, s.keys # <<>> PROVE Keeps(s, RemoveSimpleKey(s))
<1> DEFINE t == RemoveSimpleKey(s)
<1>1. /\ t \in ScannerType /\ t.tokens = s.tokens /\ t.column = s.column
      /\ Len(t.keys) = Len(s.keys) /\ Len(s.keys) \in Nat \ {0}
      /\ t.keys[Len(s.keys)] = NoKey
      /\ \A i \in 1..(Len(s.keys) - 1) : t.keys[i] = s.keys[i]
  BY RemoveIs
<1>2. s.column \in Nat /\ Len(s.tokens) \in Nat
  BY DEF ScannerType
<1> HIDE DEF t
<1>3. ASSUME NEW i \in 1..Len(t.keys), t.keys[i].possible
      PROVE  i <= Len(s.keys) /\ t.keys[i] = s.keys[i]
  <2>1. i # Len(s.keys)
    BY <1>1, <1>3, NoKeyType
  <2> QED
    BY <1>1, <2>1
<1>4. Keeps(s, t)
  BY <1>1, <1>2, <1>3 DEF Keeps
<1> QED
  BY <1>4 DEF t

LEMMA StaleKeeps ==
  ASSUME NEW s \in ScannerType, NEW n \in 0..Len(s.keys)
  PROVE  Keeps(s, StaleSimpleKeys(s, n))
<1> DEFINE t == StaleSimpleKeys(s, n)
<1>1. /\ t \in ScannerType /\ t.tokens = s.tokens /\ t.column = s.column
      /\ Len(t.keys) = Len(s.keys)
      /\ \A i \in 1..Len(t.keys) : t.keys[i] = IF i <= n THEN NoKey ELSE s.keys[i]
  BY StaleIs
<1>2. s.column \in Nat /\ Len(s.tokens) \in Nat
  BY DEF ScannerType
<1> HIDE DEF t
<1>3. ASSUME NEW i \in 1..Len(t.keys), t.keys[i].possible
      PROVE  i <= Len(s.keys) /\ t.keys[i] = s.keys[i]
  BY <1>1, <1>3, NoKeyType
<1>4. Keeps(s, t)
  BY <1>1, <1>2, <1>3 DEF Keeps
<1> QED
  BY <1>4 DEF t

LEMMA UnrollKeeps ==
  ASSUME NEW s \in ScannerType, NEW c \in Int, c >= -1 PROVE Keeps(s, UnrollIndent(s, c))
<1>1. s.column \in Nat /\ Len(s.keys) \in Nat
  BY DEF ScannerType
<1> QED
  BY <1>1, UnrollIs DEF Keeps

LEMMA EnqueueIs ==
  ASSUME NEW s \in ScannerType, NEW type \in TokenTypes, NEW t, t = Enqueue(s, type)
  PROVE  /\ Keeps(s, t)
         /\ t.tokens = Append(s.tokens, type)
         /\ t.indents = s.indents /\ t.keys = s.keys /\ t.column = s.column
         /\ Flags(t) = Flags(s) /\ t.error = s.error
<1> DEFINE w == Append(s.tokens, type)
<1>1. s.tokens \in Seq(TokenTypes) /\ Len(s.tokens) \in Nat /\ s.column \in Nat
      /\ Len(s.keys) \in Nat
  BY DEF ScannerType
<1>2. /\ w \in Seq(TokenTypes) /\ Len(w) = Len(s.tokens) + 1
      /\ \A i \in 1..Len(s.tokens) : w[i] = s.tokens[i]
  BY <1>1, AppendProperties
<1>3. t = [s EXCEPT !.tokens = w]
  BY DEF Enqueue
<1>4. t.tokens = w
  BY <1>3 DEF ScannerType
<1> HIDE DEF w
<1>5. /\ t.indents = s.indents /\ t.keys = s.keys /\ t.column = s.column
      /\ Flags(t) = Flags(s) /\ t.error = s.error
  BY <1>3 DEF ScannerType, Flags
<1>6. t \in ScannerType
  BY <1>2, <1>3, Zenon DEF ScannerType
<1>7. Keeps(s, t)
  BY <1>1, <1>2, <1>4, <1>5, <1>6 DEF Keeps
<1> QED
  BY <1>4, <1>5, <1>7 DEF w

LEMMA BehindIs ==
  ASSUME NEW s \in ScannerType, NEW t, t = Behind(s)
  PROVE  /\ Keeps(s, t)
         /\ t.tokens = s.tokens /\ t.indents = s.indents /\ t.keys = s.keys
         /\ Len(s.keys) = 1 => t.column = s.column + 1
         /\ Flags(t) = Flags(s) /\ t.error = s.error
<1> DEFINE c == IF FlowLevel(s) > 0 /\ s.column > 0 THEN s.column ELSE s.column + 1
<1>1. s.column \in Nat /\ Len(s.keys) \in Nat /\ Len(s.tokens) \in Nat
  BY DEF ScannerType
<1>2. c \in Nat /\ s.column <= c /\ (Len(s.keys) = 1 => c = s.column + 1)
  <2>1. CASE FlowLevel(s) > 0 /\ s.column > 0
    <3>1. c = s.column
      BY <2>1
    <3>2. Len(s.keys) = 1 => FlowLevel(s) = 0
      BY DEF FlowLevel
    <3>3. Len(s.keys) # 1
      BY <2>1, <3>2
    <3> HIDE DEF c
    <3> QED
      BY <1>1, <3>1, <3>3
  <2>2. CASE ~ (FlowLevel(s) > 0 /\ s.column > 0)
    <3>1. c = s.column + 1
      BY <2>2
    <3> QED
      BY <1>1, <3>1
  <2> QED
    BY <2>1, <2>2
<1>3. t = [s EXCEPT !.column = c, !.plain = FALSE]
  BY DEF Behind
<1> HIDE DEF c
<1>4. /\ t.tokens = s.tokens /\ t.indents = s.indents /\ t.keys = s.keys
      /\ t.column = c /\ Flags(t) = Flags(s) /\ t.error = s.error
  BY <1>3 DEF ScannerType, Flags
<1>5. t \in ScannerType
  BY <1>2, <1>3 DEF ScannerType
<1> QED
  BY <1>1, <1>2, <1>4, <1>5 DEF Keeps

LEMMA AllowedIs == ASSUME NEW s \in ScannerType, NEW allowed \in BOOLEAN,
                          NEW t, t = [s EXCEPT !.simple_key_allowed = allowed]
  PROVE  /\ Keeps(s, t)
         /\ t.tokens = s.tokens /\ t.indents = s.indents /\ t.keys = s.keys
         /\ t.column = s.column /\ t.error = s.error
         /\ Flags(t) = <<allowed, s.inside, s.ended>>
<1>1. s.column \in Nat /\ Len(s.keys) \in Nat /\ Len(s.tokens) \in Nat
  BY DEF ScannerType
<1>2. /\ t.tokens = s.tokens /\ t.indents = s.indents /\ t.keys = s.keys
      /\ t.column = s.column /\ t.error = s.error
      /\ Flags(t) = <<allowed, s.inside, s.ended>>
  BY DEF ScannerType, Flags
<1>3. t \in ScannerType
  BY DEF ScannerType
<1> QED
  BY <1>1, <1>2, <1>3 DEF Keeps

LEMMA RollIs ==
  ASSUME NEW s \in ScannerType, NEW c \in Nat, NEW pos \in 0..Len(s.tokens),
         NEW type \in TokenTypes, NEW t, t = RollIndent(s, c, pos, type),
         NEW k, k = pos + 1
  PROVE  /\ t \in ScannerType /\ t.keys = s.keys
         /\ t.column = s.column /\ Flags(t) = Flags(s) /\ t.error = s.error
         /\ t.tokens = s.tokens \/ t.tokens = InsertAt(s.tokens, k, type)
         /\ Indent(t) \in {Indent(s), c}
         /\ Len(s.keys) > 1 => t.indents = s.indents
<1>1. CASE FlowLevel(s) > 0 \/ Indent(s) >= c
  <2>1. t = s
    BY <1>1, Zenon DEF RollIndent
  <2> QED
    BY <2>1
<1>2. CASE ~ (FlowLevel(s) > 0 \/ Indent(s) >= c)
  <2> DEFINE d == Append(s.indents, c)
             w == InsertAt(s.tokens, k, type)
             v == s.tokens
  <2>1. t = [s EXCEPT !.indents = d, !.tokens = w]
    BY <1>2 DEF RollIndent
  <2>2. v \in Seq(TokenTypes) /\ pos \in 0..Len(v) /\ w = InsertAt(v, k, type) /\ k = pos + 1
    BY DEF ScannerType
  <2>3. d \in Seq(Nat) /\ d # <<>> /\ d[Len(d)] = c
    <3>1. s.indents \in Seq(Nat)
      BY DEF ScannerType
    <3>2. /\ d \in Seq(Nat) /\ d # <<>> /\ Len(d) = Len(s.indents) + 1
          /\ d[Len(s.indents) + 1] = c
      <4> DEFINE i == s.indents
      <4>1. i \in Seq(Nat)
        BY <3>1
      <4> HIDE DEF i
      <4>2. /\ Append(i, c) \in Seq(Nat) /\ Append(i, c) # <<>>
            /\ Len(Append(i, c)) = Len(i) + 1
            /\ Append(i, c)[Len(i) + 1] = c
        BY <4>1, AppendProperties
      <4> QED
        BY <4>2, Zenon DEF i
    <3> HIDE DEF d
    <3> QED
      BY <3>2, Zenon
  <2> HIDE DEF v, w, d
  <2>4. w \in Seq(TokenTypes)
    BY <2>2, InsertFacts
  <2>5. /\ t.keys = s.keys /\ t.indents = d /\ t.tokens = w
        /\ t.column = s.column /\ Flags(t) = Flags(s) /\ t.error = s.error
    BY <2>1 DEF ScannerType, Flags
  <2>6. t \in ScannerType
    BY <2>1, <2>3, <2>4, Zenon DEF ScannerType
  <2>7. Indent(t) = c
    BY <2>3, <2>5, <2>6, IndentIs
  <2>8. ~ Len(s.keys) > 1
    <3>1. Len(s.keys) \in Nat
      BY DEF ScannerType
    <3> QED
      BY <1>2, <3>1 DEF FlowLevel
  <2> QED
    BY <2>5, <2>6, <2>7, <2>8 DEF w
<1> QED
  BY <1>1, <1>2

\* At the end of the queue.
LEMMA InsertLast ==
  ASSUME NEW S, NEW seq \in Seq(S), NEW elt \in S,
         NEW k, k = Len(seq) + 1, NEW w, w = InsertAt(seq, k, elt)
  PROVE  Len(w) = Len(seq) + 1 /\ \A i \in 1..Len(seq) : w[i] = seq[i]
<1>1. PICK p : p = Len(seq)
  OBVIOUS
<1>2. p \in 0..Len(seq) /\ k = p + 1
  BY <1>1
<1>3. /\ Len(InsertAt(seq, k, elt)) = Len(seq) + 1
      /\ \A i \in 1..p : InsertAt(seq, k, elt)[i] = seq[i]
  <2>1. \A q \in 0..Len(seq) : \A j : j = q + 1 =>
           /\ Len(InsertAt(seq, j, elt)) = Len(seq) + 1
           /\ \A i \in 1..q : InsertAt(seq, j, elt)[i] = seq[i]
    BY InsertFacts
  <2> QED
    BY <1>2, <2>1, Zenon
<1> QED
  BY <1>1, <1>3

LEMMA RollKeeps ==
  ASSUME NEW s \in ScannerType, NEW c \in Nat, NEW type \in TokenTypes,
         NEW t, t = RollIndent(s, c, Len(s.tokens), type)
  PROVE  Keeps(s, t)
<1> DEFINE v == s.tokens
<1>1. /\ s.column \in Nat /\ Len(s.keys) \in Nat /\ Len(v) \in Nat
      /\ Len(v) \in 0..Len(v) /\ v \in Seq(TokenTypes)
  BY DEF ScannerType
<1>2. PICK k : k = Len(v) + 1
  OBVIOUS
<1> DEFINE w == InsertAt(v, k, type)
<1>3. t \in ScannerType /\ t.keys = s.keys /\ t.column = s.column /\ t.tokens \in {v, w}
  <2> DEFINE pos == Len(s.tokens)
  <2>1. pos \in 0..Len(s.tokens) /\ k = pos + 1 /\ t = RollIndent(s, c, pos, type)
    BY <1>1, <1>2
  <2> HIDE DEF pos
  <2>2. /\ t \in ScannerType /\ t.keys = s.keys /\ t.column = s.column
        /\ t.tokens = s.tokens \/ t.tokens = InsertAt(s.tokens, k, type)
    BY <2>1, RollIs
  <2> QED
    BY <2>2, Zenon
<1>4. w = InsertAt(v, k, type) /\ v = s.tokens
  OBVIOUS
<1> HIDE DEF w, v
<1>5. Len(w) = Len(v) + 1 /\ \A i \in 1..Len(v) : w[i] = v[i]
  BY <1>1, <1>2, <1>4, InsertLast
<1>6. Len(v) <= Len(t.tokens) /\ \A i \in 1..Len(v) : t.tokens[i] = v[i]
  BY <1>1, <1>3, <1>5
<1> QED
  BY <1>1, <1>3, <1>6 DEF Keeps, v

-----------------------------------------------------------------------------
(* The fetchers.                                                           *)

\* To the right of its lexeme the text is to the right of its block.
LEMMA AheadBehind ==
  ASSUME NEW s, Ready(s), NEW t \in ScannerType, t.indents = s.indents,
         t.inside = s.inside, t.ended = s.ended, t.column >= s.column,
         Len(s.keys) = 1 => t.column = s.column + 1
  PROVE  Ahead(t)
<1>1. s \in ScannerType /\ s.keys # <<>> /\ s.column \in Nat /\ t.column \in Nat
  BY DEF Ready, Good, ScannerType
<1>2. Len(s.keys) \in Nat \ {0} /\ Indent(s) \in Int /\ Indent(t) = Indent(s)
  BY <1>1, IndentIs, EmptySeq DEF ScannerType
<1>3. CASE Len(s.keys) = 1
  <2>1. Indent(s) <= s.column
    BY <1>3 DEF Ready
  <2>2. Indent(t) < t.column
    BY <1>1, <1>2, <1>3, <2>1
  <2> QED
    BY <2>2 DEF Ahead
<1>4. CASE Len(s.keys) # 1
  <2>1. Len(s.keys) > 1
    <3> DEFINE n == Len(s.keys)
    <3>1. n \in Nat \ {0} /\ n # 1
      BY <1>2, <1>4
    <3> HIDE DEF n
    <3>2. n > 1
      BY <3>1
    <3> QED
      BY <3>2, Zenon DEF n
  <2>2. ~ s.ended /\ ~ s.inside => Indent(s) < s.column
    BY <1>1, <2>1 DEF Ready, Good, Ahead
  <2>3. ~ t.ended /\ ~ t.inside => Indent(t) < t.column
    BY <1>1, <1>2, <2>2
  <2> QED
    BY <2>3 DEF Ahead
<1> QED
  BY <1>3, <1>4

LEMMA ReadyFacts ==
  ASSUME NEW s, Ready(s)
  PROVE  /\ s \in ScannerType /\ s.keys # <<>> /\ InPlace(s)
         /\ Len(s.keys) \in Nat \ {0} /\ Len(s.tokens) \in Nat /\ s.column \in Nat
         /\ s.error # "assert"
BY EmptySeq DEF Ready, Good, ScannerType

LEMMA KeepsReady ==
  ASSUME NEW s, Ready(s), NEW t, Keeps(s, t), Ahead(t), t.error # "assert"
  PROVE  Good(t)
BY KeepsInPlace, ReadyFacts DEF Good, Keeps

\* A token behind which no key is possible on its level.
LEMMA FlowEntryGood ==
  ASSUME NEW s, Ready(s), NEW type \in TokenTypes, NEW allowed \in BOOLEAN
  PROVE  Good(Enqueue([Behind(RemoveSimpleKey(s)) EXCEPT !.simple_key_allowed = allowed], type))
<1> DEFINE a == RemoveSimpleKey(s)
           b == Behind(a)
           c == [b EXCEPT !.simple_key_allowed = allowed]
           d == Enqueue(c, type)
<1>1. s \in ScannerType /\ s.keys # <<>> /\ s.error # "assert" /\ s.column \in Nat
  BY ReadyFacts
<1>2. /\ a \in ScannerType /\ a.indents = s.indents /\ a.column = s.column
      /\ Flags(a) = Flags(s) /\ Len(a.keys) = Len(s.keys) /\ a.error # "assert"
      /\ Keeps(s, a)
  BY <1>1, RemoveIs, RemoveKeeps
<1> HIDE DEF a
<1>3. /\ Keeps(a, b) /\ b.indents = a.indents /\ Flags(b) = Flags(a) /\ b.error = a.error
      /\ Len(a.keys) = 1 => b.column = a.column + 1
  BY <1>2, BehindIs
<1> HIDE DEF b
<1>4. /\ Keeps(b, c) /\ c.indents = b.indents /\ c.column = b.column
      /\ Flags(c) = <<allowed, b.inside, b.ended>> /\ c.error = b.error
  BY <1>3, AllowedIs DEF Keeps
<1> HIDE DEF c
<1>5. /\ Keeps(c, d) /\ d.indents = c.indents /\ d.column = c.column
      /\ Flags(d) = Flags(c) /\ d.error = c.error
  BY <1>4, EnqueueIs DEF Keeps
<1> HIDE DEF d
<1>6. Keeps(s, d)
  BY <1>2, <1>3, <1>4, <1>5, KeepsOn
<1>7. /\ d \in ScannerType /\ d.column >= s.column
      /\ d.indents = s.indents /\ d.inside = s.inside /\ d.ended = s.ended
      /\ Len(s.keys) = 1 => d.column = s.column + 1
  BY <1>1, <1>2, <1>3, <1>4, <1>5, <1>6 DEF Keeps, Flags, ScannerType
<1>8. Ahead(d)
  BY <1>7, AheadBehind
<1>9. Good(d)
  BY <1>2, <1>3, <1>4, <1>5, <1>6, <1>8, KeepsReady
<1> QED
  BY <1>9 DEF d, c, b, a

LEMMA FlowEndGood ==
  ASSUME NEW s, Ready(s), NEW type \in TokenTypes
  PROVE  Good(Enqueue([DecreaseFlowLevel(Behind(RemoveSimpleKey(s)))
                          EXCEPT !.simple_key_allowed = FALSE], type))
<1> DEFINE a == RemoveSimpleKey(s)
           b == Behind(a)
           f == DecreaseFlowLevel(b)
           c == [f EXCEPT !.simple_key_allowed = FALSE]
           d == Enqueue(c, type)
<1>1. s \in ScannerType /\ s.keys # <<>> /\ s.error # "assert" /\ s.column \in Nat
      /\ Len(s.keys) \in Nat \ {0}
  BY ReadyFacts
<1>2. /\ a \in ScannerType /\ a.indents = s.indents /\ a.column = s.column
      /\ Flags(a) = Flags(s) /\ Len(a.keys) = Len(s.keys) /\ a.error # "assert"
      /\ Keeps(s, a)
  BY <1>1, RemoveIs, RemoveKeeps
<1> HIDE DEF a
<1>3. /\ Keeps(a, b) /\ b.indents = a.indents /\ Flags(b) = Flags(a) /\ b.error = a.error
      /\ b.keys = a.keys
      /\ Len(a.keys) = 1 => b.column = a.column + 1
  BY <1>2, BehindIs
<1> HIDE DEF b
<1>4. /\ Keeps(b, f) /\ f.indents = b.indents /\ f.column = b.column
      /\ Flags(f) = Flags(b) /\ f.error = b.error
  <2>1. /\ b \in ScannerType /\ b.keys \in Seq(KeyType) /\ b.keys # <<>>
        /\ b.column \in Nat /\ Len(b.tokens) \in Nat /\ Len(b.keys) \in Nat
    BY <1>1, <1>2, <1>3, EmptySeq DEF Keeps, ScannerType
  <2>2. CASE FlowLevel(b) = 0
    <3>1. f = b
      BY <2>2 DEF DecreaseFlowLevel
    <3> QED
      BY <2>1, <3>1 DEF Keeps
  <2>3. CASE FlowLevel(b) # 0
    <3> DEFINE k == Front(b.keys)
    <3>1. f = [b EXCEPT !.keys = k]
      BY <2>3 DEF DecreaseFlowLevel
    <3>2. /\ k \in Seq(KeyType) /\ Len(k) = Len(b.keys) - 1
          /\ \A i \in 1..(Len(b.keys) - 1) : k[i] = b.keys[i]
      BY <2>1, FrontFacts
    <3> HIDE DEF k, f
    <3>3. /\ f.indents = b.indents /\ f.column = b.column /\ f.tokens = b.tokens
          /\ Flags(f) = Flags(b) /\ f.error = b.error /\ f.keys = k
      BY <2>1, <3>1 DEF ScannerType, Flags
    <3>4. f \in ScannerType
      BY <2>1, <3>1, <3>2 DEF ScannerType
    <3> QED
      BY <2>1, <3>2, <3>3, <3>4 DEF Keeps
  <2> QED
    BY <2>2, <2>3
<1> HIDE DEF f
<1>5. /\ Keeps(f, c) /\ c.indents = f.indents /\ c.column = f.column
      /\ Flags(c) = <<FALSE, f.inside, f.ended>> /\ c.error = f.error
  BY <1>4, AllowedIs DEF Keeps
<1> HIDE DEF c
<1>6. /\ Keeps(c, d) /\ d.indents = c.indents /\ d.column = c.column
      /\ Flags(d) = Flags(c) /\ d.error = c.error
  <2>1. c \in ScannerType
    BY <1>5 DEF Keeps
  <2> QED
    BY <2>1, EnqueueIs
<1> HIDE DEF d
<1>7. Keeps(s, d)
  BY <1>2, <1>3, <1>4, <1>5, <1>6, KeepsOn
<1>8. /\ d \in ScannerType /\ d.column >= s.column
      /\ d.indents = s.indents /\ d.inside = s.inside /\ d.ended = s.ended
      /\ Len(s.keys) = 1 => d.column = s.column + 1
  BY <1>1, <1>2, <1>3, <1>4, <1>5, <1>6, <1>7 DEF Keeps, Flags, ScannerType
<1>9. Ahead(d)
  BY <1>8, AheadBehind
<1>10. Good(d)
  BY <1>2, <1>3, <1>4, <1>5, <1>6, <1>7, <1>9, KeepsReady
<1> QED
  BY <1>10 DEF d, c, b, a, f

\* A new block may start here, where in a block a simple key may follow.
LEMMA AheadRolled ==
  ASSUME NEW s, Ready(s), NEW t, Keeps(s, t), Len(t.keys) = Len(s.keys),
         t.inside = s.inside, t.ended = s.ended,
         Len(s.keys) > 1 => t.indents = s.indents,
         Len(s.keys) = 1 => t.simple_key_allowed
  PROVE  Ahead(t)
<1> DEFINE n == Len(s.keys)
<1>1. s \in ScannerType /\ n \in Nat \ {0} /\ Len(t.keys) = n
  BY ReadyFacts
<1> HIDE DEF n
<1>2. n = 1 \/ n > 1
  BY <1>1
<1>3. CASE n = 1
  BY <1>1, <1>3 DEF Ahead, n
<1>4. CASE n > 1
  <2>1. /\ t.indents = s.indents /\ t \in ScannerType /\ s.column <= t.column
        /\ s.column \in Nat /\ t.column \in Nat
    BY <1>4 DEF Keeps, ScannerType, n
  <2>2. Indent(t) = Indent(s) /\ Indent(s) \in Int
    BY <1>1, <2>1, IndentIs
  <2>3. ~ s.ended /\ ~ s.inside => Indent(s) < s.column
    BY <1>4 DEF Ready, Good, Ahead, n
  <2>4. ~ t.ended /\ ~ t.inside => Indent(t) < t.column
    BY <2>1, <2>2, <2>3
  <2> QED
    BY <2>4 DEF Ahead
<1> QED
  BY <1>2, <1>3, <1>4

LEMMA RolledIs ==
  ASSUME NEW s, Ready(s), NEW type \in TokenTypes,
         NEW t, t = RollIndent(Allowed(s), s.column, Len(s.tokens), type)
  PROVE  /\ Keeps(s, t) /\ t.keys = s.keys
         /\ t.column = s.column /\ Flags(t) = Flags(s) /\ t.error # "assert"
         /\ Len(s.keys) > 1 => t.indents = s.indents
<1> DEFINE a == Allowed(s)
<1>1. /\ s \in ScannerType /\ s.column \in Nat /\ s.error # "assert"
      /\ Len(s.tokens) \in 0..Len(s.tokens) /\ Len(s.keys) \in Nat
      /\ Len(s.tokens) \in Nat
  BY ReadyFacts
<1>2. /\ a \in ScannerType /\ a.tokens = s.tokens /\ a.indents = s.indents
      /\ a.keys = s.keys /\ a.column = s.column /\ Flags(a) = Flags(s)
      /\ a.error # "assert"
  <2>1. Requires(s, a, "scanner", FlowLevel(s) > 0 \/ s.simple_key_allowed)
    BY <1>1, RequireIs DEF Allowed, Errors
  <2> HIDE DEF a
  <2> QED
    BY <1>1, <2>1 DEF Requires
<1> HIDE DEF a
<1>3. Len(s.tokens) = Len(a.tokens) /\ t = RollIndent(a, s.column, Len(a.tokens), type)
  BY <1>2 DEF a
<1>4. Keeps(a, t)
  BY <1>1, <1>2, <1>3, RollKeeps
<1>5. PICK k : k = Len(s.tokens) + 1
  OBVIOUS
<1>6. /\ t.keys = a.keys /\ t.column = a.column /\ Flags(t) = Flags(a) /\ t.error = a.error
      /\ Len(a.keys) > 1 => t.indents = a.indents
  <2> DEFINE pos == Len(a.tokens)
  <2>1. pos \in 0..Len(a.tokens) /\ k = pos + 1 /\ t = RollIndent(a, s.column, pos, type)
    BY <1>1, <1>2, <1>3, <1>5
  <2> HIDE DEF pos
  <2> QED
    BY <1>1, <1>2, <2>1, RollIs
<1>7. Keeps(s, a)
  BY <1>1, <1>2 DEF Keeps
<1> QED
  BY <1>2, <1>4, <1>6, <1>7, KeepsOn

LEMMA BlockEntryGood ==
  ASSUME NEW s, Ready(s), NEW start \in TokenTypes, NEW type \in TokenTypes,
         NEW allowed \in BOOLEAN, Len(s.keys) = 1 => allowed
  PROVE  Good(Enqueue([Behind(RemoveSimpleKey(RollIndent(Allowed(s), s.column, Len(s.tokens), start)))
                          EXCEPT !.simple_key_allowed = allowed], type))
<1> DEFINE r == RollIndent(Allowed(s), s.column, Len(s.tokens), start)
           a == RemoveSimpleKey(r)
           b == Behind(a)
           c == [b EXCEPT !.simple_key_allowed = allowed]
           d == Enqueue(c, type)
<1>1. s \in ScannerType /\ s.keys # <<>>
  BY ReadyFacts
<1>2. /\ Keeps(s, r) /\ r.keys = s.keys /\ Flags(r) = Flags(s) /\ r.error # "assert"
      /\ Len(s.keys) > 1 => r.indents = s.indents
  BY RolledIs
<1> HIDE DEF r
<1>3. /\ Keeps(r, a) /\ a.indents = r.indents /\ Flags(a) = Flags(r)
      /\ Len(a.keys) = Len(r.keys) /\ a.error # "assert"
  <2>1. r \in ScannerType /\ r.keys # <<>>
    BY <1>1, <1>2 DEF Keeps
  <2> QED
    BY <1>2, <2>1, RemoveIs, RemoveKeeps
<1> HIDE DEF a
<1>4. /\ Keeps(a, b) /\ b.indents = a.indents /\ Flags(b) = Flags(a) /\ b.error = a.error
      /\ b.keys = a.keys
  <2>1. a \in ScannerType
    BY <1>3 DEF Keeps
  <2> QED
    BY <2>1, BehindIs
<1> HIDE DEF b
<1>5. /\ Keeps(b, c) /\ c.indents = b.indents /\ c.keys = b.keys
      /\ Flags(c) = <<allowed, b.inside, b.ended>> /\ c.error = b.error
  <2>1. b \in ScannerType
    BY <1>4 DEF Keeps
  <2> QED
    BY <2>1, AllowedIs
<1> HIDE DEF c
<1>6. /\ Keeps(c, d) /\ d.indents = c.indents /\ d.keys = c.keys
      /\ Flags(d) = Flags(c) /\ d.error = c.error
  <2>1. c \in ScannerType
    BY <1>5 DEF Keeps
  <2> QED
    BY <2>1, EnqueueIs
<1> HIDE DEF d
<1>7. Keeps(s, d)
  BY <1>2, <1>3, <1>4, <1>5, <1>6, KeepsOn
<1>8. /\ Len(d.keys) = Len(s.keys) /\ d.inside = s.inside /\ d.ended = s.ended
      /\ Len(s.keys) > 1 => d.indents = s.indents
      /\ d.simple_key_allowed = allowed /\ d.error # "assert"
  BY <1>2, <1>3, <1>4, <1>5, <1>6 DEF Flags
<1>9. Ahead(d)
  BY <1>7, <1>8, AheadRolled
<1>10. Good(d)
  BY <1>7, <1>8, <1>9, KeepsReady
<1> QED
  BY <1>10 DEF d, c, b, a, r

LEMMA ComplexGood ==
  ASSUME NEW s, Ready(s)
  PROVE  Good(Enqueue(Behind(ComplexValue(s)), "VALUE"))
<1> DEFINE r == RollIndent(Allowed(s), s.column, Len(s.tokens), "BLOCK-MAPPING-START")
           allowed == FlowLevel(s) = 0
           c == [r EXCEPT !.simple_key_allowed = allowed]
           b == Behind(c)
           d == Enqueue(b, "VALUE")
<1>1. s \in ScannerType /\ s.keys # <<>> /\ allowed \in BOOLEAN
      /\ (Len(s.keys) = 1 => allowed)
  BY ReadyFacts DEF FlowLevel
<1>2. /\ Keeps(s, r) /\ r.keys = s.keys /\ Flags(r) = Flags(s) /\ r.error # "assert"
      /\ Len(s.keys) > 1 => r.indents = s.indents
  BY RolledIs DEF TokenTypes
<1>3. c = ComplexValue(s)
  BY DEF ComplexValue
<1> HIDE DEF r, allowed
<1>4. /\ Keeps(r, c) /\ c.indents = r.indents /\ c.keys = r.keys
      /\ Flags(c) = <<allowed, r.inside, r.ended>> /\ c.error = r.error
  <2>1. r \in ScannerType
    BY <1>2 DEF Keeps
  <2> QED
    BY <1>1, <2>1, AllowedIs
<1> HIDE DEF c
<1>5. /\ Keeps(c, b) /\ b.indents = c.indents /\ Flags(b) = Flags(c) /\ b.error = c.error
      /\ b.keys = c.keys
  <2>1. c \in ScannerType
    BY <1>4 DEF Keeps
  <2> QED
    BY <2>1, BehindIs
<1> HIDE DEF b
<1>6. /\ Keeps(b, d) /\ d.indents = b.indents /\ d.keys = b.keys
      /\ Flags(d) = Flags(b) /\ d.error = b.error
  <2>1. b \in ScannerType /\ "VALUE" \in TokenTypes
    BY <1>5 DEF Keeps, TokenTypes
  <2> QED
    BY <2>1, EnqueueIs
<1> HIDE DEF d
<1>7. Keeps(s, d)
  BY <1>2, <1>4, <1>5, <1>6, KeepsOn
<1>8. /\ Len(d.keys) = Len(s.keys) /\ d.inside = s.inside /\ d.ended = s.ended
      /\ Len(s.keys) > 1 => d.indents = s.indents
      /\ d.simple_key_allowed = allowed /\ d.error # "assert"
  BY <1>2, <1>4, <1>5, <1>6 DEF Flags
<1>9. Ahead(d)
  BY <1>1, <1>7, <1>8, AheadRolled
<1>10. Good(d)
  BY <1>7, <1>8, <1>9, KeepsReady
<1> QED
  BY <1>3, <1>10 DEF d, b

\* The assertion can fail only inside, because elsewhere the text is to the
\* right of its block.
LEMMA SavedIs ==
  ASSUME NEW s, Ready(s), ~ s.ended, NEW a, a = SaveSimpleKey(s)
  PROVE  /\ a \in ScannerType
         /\ a.tokens = s.tokens /\ a.indents = s.indents
         /\ a.column = s.column /\ Flags(a) = Flags(s)
         /\ a.error = "assert" => s.inside
         /\ Len(a.keys) = Len(s.keys)
         /\ \A i \in 1..Len(s.keys) :
               \/ a.keys[i] = s.keys[i]
               \/ /\ i = Len(s.keys) /\ a.keys[i].pos = Len(s.tokens)
                  /\ a.keys[i].column <= a.column
<1>1. s \in ScannerType /\ s.keys # <<>> /\ s.error # "assert" /\ s.column \in Nat
  BY ReadyFacts
<1>2. /\ a \in ScannerType
      /\ a.tokens = s.tokens /\ a.indents = s.indents
      /\ a.column = s.column /\ Flags(a) = Flags(s)
      /\ a.error = "assert" => \/ s.error = "assert"
                              \/ /\ Len(s.keys) = 1 /\ Indent(s) = s.column
                                 /\ ~ s.simple_key_allowed
      /\ Len(a.keys) = Len(s.keys)
      /\ \A i \in 1..Len(s.keys) :
            \/ a.keys[i] = s.keys[i]
            \/ /\ i = Len(s.keys) /\ a.keys[i].pos = Len(s.tokens)
               /\ a.keys[i].column <= a.column
  BY <1>1, SaveIs
<1>3. Indent(s) < s.column => Indent(s) # s.column
  BY <1>1, IndentIs
<1>4. a.error = "assert" => s.inside
  BY <1>1, <1>2, <1>3 DEF Ready, Good, Ahead
<1> QED
  BY <1>2, <1>4

\* The token of a key that was saved comes into the queue.
LEMMA SavedInPlace ==
  ASSUME NEW s, Ready(s), ~ s.ended, NEW type \in KeyStarts, NEW d \in ScannerType,
         d.tokens = Append(s.tokens, type), s.column <= d.column,
         NEW a, a = SaveSimpleKey(s), Len(a.keys) <= Len(d.keys),
         \A i \in 1..Len(d.keys) : d.keys[i].possible =>
             i <= Len(a.keys) /\ d.keys[i] = a.keys[i]
  PROVE  InPlace(d)
<1>1. /\ s \in ScannerType /\ InPlace(s) /\ s.column \in Nat /\ d.column \in Nat
      /\ Len(s.keys) \in Nat /\ Len(d.keys) \in Nat
  BY ReadyFacts DEF ScannerType
<1>2. /\ a \in ScannerType /\ a.column = s.column /\ Len(a.keys) = Len(s.keys)
      /\ \A i \in 1..Len(s.keys) :
            \/ a.keys[i] = s.keys[i]
            \/ /\ i = Len(s.keys) /\ a.keys[i].pos = Len(s.tokens)
               /\ a.keys[i].column <= a.column
  BY SavedIs
<1>3. ASSUME NEW i \in 1..Len(d.keys), d.keys[i].possible
      PROVE  \/ i <= Len(s.keys) /\ d.keys[i] = s.keys[i]
             \/ /\ i = Len(s.keys) /\ d.keys[i].pos = Len(s.tokens)
                /\ d.keys[i].column <= d.column
  <2>1. i <= Len(s.keys) /\ d.keys[i] = a.keys[i] /\ i \in 1..Len(s.keys)
    BY <1>1, <1>2, <1>3
  <2>2. CASE a.keys[i] = s.keys[i]
    BY <2>1, <2>2
  <2>3. CASE /\ i = Len(s.keys) /\ a.keys[i].pos = Len(s.tokens)
             /\ a.keys[i].column <= a.column
    <3>1. a.keys[i] \in KeyType
      BY <1>2, <2>1, ElementOfSeq DEF ScannerType
    <3>2. a.keys[i].column \in Nat
      BY <3>1 DEF KeyType
    <3>3. d.keys[i].column <= d.column
      BY <1>1, <1>2, <2>1, <2>3, <3>2
    <3> QED
      BY <2>1, <2>3, <3>3
  <2> QED
    BY <1>2, <2>1, <2>2, <2>3
<1> QED
  BY <1>1, <1>2, <1>3, NowInPlace

LEMMA KeyStartGood ==
  ASSUME NEW s, Ready(s), ~ s.ended, NEW type \in KeyStarts
  PROVE  Good(Enqueue(KeyStart(s), type))
<1> DEFINE a == SaveSimpleKey(s)
           b == Behind(a)
           c == [b EXCEPT !.simple_key_allowed = FALSE]
           d == Enqueue(c, type)
<1>1. s \in ScannerType /\ s.keys # <<>> /\ s.column \in Nat /\ type \in TokenTypes
  BY ReadyFacts DEF TokenTypes
<1>2. /\ a \in ScannerType /\ a.indents = s.indents /\ a.column = s.column
      /\ Flags(a) = Flags(s) /\ Len(a.keys) = Len(s.keys) /\ a.tokens = s.tokens
      /\ a.error = "assert" => s.inside
  BY SavedIs
<1>3. a = SaveSimpleKey(s) /\ c = KeyStart(s)
  BY DEF KeyStart
<1> HIDE DEF a
<1>4. /\ Keeps(a, b) /\ b.indents = a.indents /\ Flags(b) = Flags(a) /\ b.error = a.error
      /\ b.keys = a.keys /\ b.tokens = a.tokens
      /\ Len(a.keys) = 1 => b.column = a.column + 1
  BY <1>2, BehindIs
<1> HIDE DEF b
<1>5. /\ Keeps(b, c) /\ c.indents = b.indents /\ c.column = b.column
      /\ c.keys = b.keys /\ c.tokens = b.tokens
      /\ Flags(c) = <<FALSE, b.inside, b.ended>> /\ c.error = b.error
  BY <1>4, AllowedIs DEF Keeps
<1> HIDE DEF c
<1>6. /\ Keeps(c, d) /\ d.indents = c.indents /\ d.column = c.column
      /\ d.keys = c.keys /\ d.tokens = Append(c.tokens, type)
      /\ Flags(d) = Flags(c) /\ d.error = c.error
  <2>1. c \in ScannerType
    BY <1>5 DEF Keeps
  <2> QED
    BY <1>1, <2>1, EnqueueIs
<1> HIDE DEF d
<1>7. /\ d \in ScannerType /\ d.column >= s.column
      /\ d.indents = s.indents /\ d.inside = s.inside /\ d.ended = s.ended
      /\ Len(s.keys) = 1 => d.column = s.column + 1
      /\ d.keys = a.keys /\ d.tokens = Append(s.tokens, type)
      /\ d.error = "assert" => d.inside
  BY <1>1, <1>2, <1>4, <1>5, <1>6 DEF Keeps, Flags, ScannerType
<1>8. Ahead(d)
  BY <1>7, AheadBehind
<1>9. InPlace(d)
  <2>1. /\ Len(a.keys) <= Len(d.keys) /\ s.column <= d.column
        /\ \A i \in 1..Len(d.keys) : i <= Len(a.keys) /\ d.keys[i] = a.keys[i]
    BY <1>1, <1>2, <1>7 DEF ScannerType
  <2> QED
    BY <1>3, <1>7, <2>1, SavedInPlace
<1>10. Good(d)
  BY <1>7, <1>8, <1>9 DEF Good
<1> QED
  BY <1>3, <1>10 DEF d

LEMMA FlowStartGood ==
  ASSUME NEW s, Ready(s), ~ s.ended, NEW type \in KeyStarts
  PROVE  Good(Enqueue([IncreaseFlowLevel(Behind(SaveSimpleKey(s)))
                          EXCEPT !.simple_key_allowed = TRUE], type))
<1> DEFINE a == SaveSimpleKey(s)
           b == Behind(a)
           f == IncreaseFlowLevel(b)
           k == Append(b.keys, NoKey)
           c == [f EXCEPT !.simple_key_allowed = TRUE]
           d == Enqueue(c, type)
<1>1. s \in ScannerType /\ s.keys # <<>> /\ s.column \in Nat /\ type \in TokenTypes
  BY ReadyFacts DEF TokenTypes
<1>2. /\ a \in ScannerType /\ a.indents = s.indents /\ a.column = s.column
      /\ Flags(a) = Flags(s) /\ Len(a.keys) = Len(s.keys) /\ a.tokens = s.tokens
      /\ a.error = "assert" => s.inside
  BY SavedIs
<1>3. a = SaveSimpleKey(s)
  OBVIOUS
<1> HIDE DEF a
<1>4. /\ Keeps(a, b) /\ b.indents = a.indents /\ Flags(b) = Flags(a) /\ b.error = a.error
      /\ b.keys = a.keys /\ b.tokens = a.tokens
      /\ Len(a.keys) = 1 => b.column = a.column + 1
  BY <1>2, BehindIs
<1>5. f = [b EXCEPT !.keys = k]
  BY DEF IncreaseFlowLevel
<1> HIDE DEF b, f
<1>6. /\ k \in Seq(KeyType) /\ Len(k) = Len(b.keys) + 1 /\ k[Len(b.keys) + 1] = NoKey
      /\ \A i \in 1..Len(b.keys) : k[i] = b.keys[i]
  <2>1. b.keys \in Seq(KeyType)
    BY <1>4 DEF Keeps, ScannerType
  <2> QED
    BY <2>1, NoKeyType, AppendProperties
<1> HIDE DEF k
<1>7. /\ f \in ScannerType /\ f.indents = b.indents /\ f.column = b.column
      /\ f.tokens = b.tokens /\ f.keys = k /\ Flags(f) = Flags(b) /\ f.error = b.error
  <2>1. b \in ScannerType
    BY <1>4 DEF Keeps
  <2>2. /\ f.indents = b.indents /\ f.column = b.column
        /\ f.tokens = b.tokens /\ f.keys = k /\ Flags(f) = Flags(b) /\ f.error = b.error
    BY <1>5, <2>1 DEF ScannerType, Flags
  <2>3. f \in ScannerType
    BY <1>5, <1>6, <2>1 DEF ScannerType
  <2> QED
    BY <2>2, <2>3
<1>8. /\ Keeps(f, c) /\ c.indents = f.indents /\ c.column = f.column
      /\ c.keys = f.keys /\ c.tokens = f.tokens
      /\ Flags(c) = <<TRUE, f.inside, f.ended>> /\ c.error = f.error
  BY <1>7, AllowedIs
<1> HIDE DEF c
<1>9. /\ Keeps(c, d) /\ d.indents = c.indents /\ d.column = c.column
      /\ d.keys = c.keys /\ d.tokens = Append(c.tokens, type)
      /\ Flags(d) = Flags(c) /\ d.error = c.error
  <2>1. c \in ScannerType
    BY <1>8 DEF Keeps
  <2> QED
    BY <1>1, <2>1, EnqueueIs
<1> HIDE DEF d
<1>10. /\ d \in ScannerType /\ d.column >= s.column
       /\ d.indents = s.indents /\ d.inside = s.inside /\ d.ended = s.ended
       /\ Len(s.keys) = 1 => d.column = s.column + 1
       /\ d.keys = k /\ d.tokens = Append(s.tokens, type)
       /\ d.error = "assert" => d.inside
  BY <1>1, <1>2, <1>4, <1>7, <1>8, <1>9 DEF Keeps, Flags, ScannerType
<1>11. Ahead(d)
  BY <1>10, AheadBehind
<1>12. InPlace(d)
  <2>1. Len(a.keys) \in Nat /\ Len(d.keys) = Len(a.keys) + 1
    BY <1>2, <1>4, <1>6, <1>10 DEF ScannerType
  <2>2. ASSUME NEW i \in 1..Len(d.keys), d.keys[i].possible
        PROVE  i <= Len(a.keys) /\ d.keys[i] = a.keys[i]
    <3>1. i # Len(a.keys) + 1
      BY <1>4, <1>6, <1>10, <2>2, NoKeyType
    <3> QED
      BY <1>4, <1>6, <1>10, <2>1, <3>1
  <2>3. Len(a.keys) <= Len(d.keys) /\ s.column <= d.column
    BY <1>1, <1>10, <2>1 DEF ScannerType
  <2> QED
    BY <1>3, <1>10, <2>2, <2>3, SavedInPlace
<1>13. Good(d)
  BY <1>10, <1>11, <1>12 DEF Good
<1> QED
  BY <1>13 DEF d, c, f, b, a

\* The outer keys are before the key, at whose place both tokens go in.
LEMMA SimpleGood ==
  ASSUME NEW s, Ready(s), Last(s.keys).possible
  PROVE  Good(Enqueue(Behind(SimpleValue(s)), "VALUE"))
<1> DEFINE n == Len(s.keys)
           key == Last(s.keys)
           p == key.pos
           m == Append(Front(s.keys), NoKey)
           w == InsertAt(s.tokens, p + 1, "KEY")
           i == [s EXCEPT !.tokens = w]
           r == RollIndent(i, key.column, p, "BLOCK-MAPPING-START")
           t == [s EXCEPT !.tokens = w, !.keys = m]
           v == [r EXCEPT !.keys = m, !.simple_key_allowed = FALSE]
           b == Behind(v)
           d == Enqueue(b, "VALUE")
<1>1. /\ s \in ScannerType /\ s.keys # <<>> /\ InPlace(s) /\ s.error # "assert"
      /\ n \in Nat \ {0} /\ Len(s.tokens) \in Nat /\ s.column \in Nat
      /\ s.tokens \in Seq(TokenTypes) /\ s.keys \in Seq(KeyType)
  BY ReadyFacts DEF ScannerType
<1>2. v = SimpleValue(s)
  BY DEF SimpleValue
<1>3. /\ key = s.keys[n] /\ key \in KeyType /\ key.possible
      /\ p \in 0..(Len(s.tokens) - 1) /\ key.column <= s.column
      /\ \A j \in 1..(n - 1) : s.keys[j].possible => s.keys[j].pos < p
  <2>1. key = s.keys[n] /\ key \in KeyType /\ key.possible
    BY <1>1, FrontFacts
  <2>2. n \in 1..Len(s.keys)
    BY <1>1
  <2> QED
    BY <1>1, <2>1, <2>2 DEF InPlace
<1>4. key.column \in Nat /\ p \in 0..Len(s.tokens)
  <2>1. p \in 0..(Len(s.tokens) - 1)
    BY <1>3
  <2> HIDE DEF p
  <2> QED
    BY <1>1, <1>3, <2>1 DEF KeyType
<1>5. /\ m \in Seq(KeyType) /\ Len(m) = n /\ m[n] = NoKey
      /\ \A j \in 1..(n - 1) : m[j] = s.keys[j]
  <2>1. PICK a : a = RemoveSimpleKey(s)
    OBVIOUS
  <2>2. /\ a \in ScannerType /\ a.keys = m /\ Len(a.keys) = n
        /\ a.keys[n] = NoKey
        /\ \A j \in 1..(n - 1) : a.keys[j] = s.keys[j]
    <3> HIDE DEF key, p, w, i, r, t, v, b, d
    <3>1. s \in ScannerType /\ s.keys # <<>>
      BY <1>1
    <3>2. /\ a \in ScannerType /\ a.keys = Append(Front(s.keys), NoKey)
          /\ Len(a.keys) = Len(s.keys) /\ a.keys[Len(s.keys)] = NoKey
          /\ \A j \in 1..(Len(s.keys) - 1) : a.keys[j] = s.keys[j]
      <4> HIDE DEF m, n
      <4> QED
        BY <2>1, <3>1, RemoveIs
    <3> QED
      BY <3>2, Zenon
  <2>3. a.keys \in Seq(KeyType)
    BY <2>2 DEF ScannerType
  <2> HIDE DEF m, n
  <2> QED
    BY <2>2, <2>3
<1> DEFINE column == key.column
<1>6. PICK k : k = p + 1
  OBVIOUS
<1>7. w = InsertAt(s.tokens, k, "KEY") /\ w = InsertAt(s.tokens, p + 1, "KEY")
  BY <1>6
<1>8. \A j \in 1..n : m[j].possible =>
           j <= Len(s.keys) /\ m[j] = s.keys[j] /\ m[j].pos < p
  <2> HIDE DEF m, p, key
  <2> TAKE j \in 1..n
  <2>1. j = n \/ j \in 1..(n - 1)
    BY <1>1
  <2> QED
    BY <1>1, <1>3, <1>5, <2>1, NoKeyType
<1>9. r = RollIndent(i, column, p, "BLOCK-MAPPING-START")
  OBVIOUS
<1>10. /\ i \in ScannerType /\ i.indents = s.indents /\ i.keys = s.keys /\ i.tokens = w
       /\ i.column = s.column /\ Flags(i) = Flags(s) /\ i.error = s.error
       /\ t \in ScannerType /\ t.indents = s.indents /\ t.keys = m /\ t.tokens = w
       /\ t.column = s.column
       /\ w \in Seq(TokenTypes) /\ Len(w) = Len(s.tokens) + 1
  <2> HIDE DEF p, key, m
  <2>1. "KEY" \in TokenTypes
    BY DEF TokenTypes
  <2> DEFINE q == s.tokens
  <2>2. q \in Seq(TokenTypes) /\ p \in 0..Len(q) /\ k = p + 1 /\ w = InsertAt(q, k, "KEY")
    BY <1>1, <1>4, <1>6, <1>7
  <2> HIDE DEF q, w
  <2>3. w \in Seq(TokenTypes) /\ Len(w) = Len(q) + 1
    <3>1. \A x \in 0..Len(q) : \A j : j = x + 1 =>
             InsertAt(q, j, "KEY") \in Seq(TokenTypes) /\ Len(InsertAt(q, j, "KEY")) = Len(q) + 1
      BY <2>1, <2>2, InsertFacts
    <3> QED
      BY <2>2, <3>1, Zenon
  <2> USE DEF q
  <2> HIDE DEF w
  <2>4. i \in ScannerType /\ t \in ScannerType
    BY <1>1, <1>5, <2>3 DEF ScannerType
  <2>5. /\ i.indents = s.indents /\ i.keys = s.keys /\ i.tokens = w
        /\ i.column = s.column /\ Flags(i) = Flags(s) /\ i.error = s.error
    BY <1>1 DEF ScannerType, Flags
  <2>6. /\ t.indents = s.indents /\ t.keys = m /\ t.tokens = w /\ t.column = s.column
    BY <1>1 DEF ScannerType
  <2> QED
    BY <2>3, <2>4, <2>5, <2>6
<1> HIDE DEF n, p, key, m, w, i, r, t, column
<1>11. InPlace(t)
  <2>1. \A j \in 1..Len(t.keys) : t.keys[j].possible =>
           j <= Len(s.keys) /\ t.keys[j] = s.keys[j] /\ t.keys[j].pos < p
    BY <1>5, <1>8, <1>10
  <2>2. "KEY" \in TokenTypes /\ t.tokens = InsertAt(s.tokens, p + 1, "KEY") /\ s.column <= t.column
    BY <1>1, <1>7, <1>10 DEF TokenTypes
  <2> QED
    BY <1>1, <1>4, <1>10, <2>1, <2>2, InsertInPlace
<1>12. /\ r \in ScannerType /\ r.column = s.column /\ Flags(r) = Flags(s)
       /\ r.error = s.error
       /\ r.tokens = t.tokens \/ r.tokens = InsertAt(t.tokens, k, "BLOCK-MAPPING-START")
       /\ Indent(r) \in {Indent(s), column}
       /\ n > 1 => r.indents = s.indents
  <2>1. /\ "BLOCK-MAPPING-START" \in TokenTypes /\ column \in Nat
        /\ p \in 0..Len(i.tokens)
    <3>1. p \in 0..(Len(s.tokens) + 1)
      BY <1>1, <1>4
    <3> QED
      BY <1>4, <1>10, <3>1 DEF TokenTypes, column
  <2>2. /\ r \in ScannerType /\ r.column = i.column /\ Flags(r) = Flags(i)
        /\ r.error = i.error
        /\ r.tokens = i.tokens \/ r.tokens = InsertAt(i.tokens, k, "BLOCK-MAPPING-START")
        /\ Indent(r) \in {Indent(i), column}
        /\ Len(i.keys) > 1 => r.indents = i.indents
    <3>1. i \in ScannerType
      BY <1>10
    <3> QED
      BY <1>6, <1>9, <2>1, <3>1, RollIs
  <2>3. Indent(i) = Indent(s)
    BY <1>1, <1>10, IndentIs
  <2> QED
    BY <1>10, <2>2, <2>3 DEF n
<1>13. /\ v \in ScannerType /\ v.column = s.column /\ v.indents = r.indents
       /\ v.keys = m /\ v.tokens = r.tokens /\ v.error = s.error
       /\ v.inside = s.inside /\ v.ended = s.ended
  <2>1. /\ v.column = s.column /\ v.indents = r.indents
        /\ v.keys = m /\ v.tokens = r.tokens /\ v.error = s.error
        /\ v.inside = s.inside /\ v.ended = s.ended
    BY <1>1, <1>12 DEF ScannerType, Flags
  <2>2. v \in ScannerType
    BY <1>5, <1>12 DEF ScannerType
  <2> QED
    BY <2>1, <2>2
<1> HIDE DEF v
<1>14. InPlace(v)
  <2>1. \A j \in 1..Len(v.keys) : v.keys[j].possible =>
           j <= Len(t.keys) /\ v.keys[j] = t.keys[j] /\ v.keys[j].pos < p
    BY <1>1, <1>5, <1>8, <1>10, <1>13 DEF n
  <2>2. CASE v.tokens = t.tokens
    <3>1. Keeps(t, v)
      BY <1>1, <1>10, <1>13, <2>1, <2>2 DEF Keeps
    <3> QED
      BY <1>11, <3>1, KeepsInPlace
  <2>3. CASE v.tokens = InsertAt(t.tokens, k, "BLOCK-MAPPING-START")
    <3>1. /\ v.tokens = InsertAt(t.tokens, p + 1, "BLOCK-MAPPING-START")
          /\ "BLOCK-MAPPING-START" \in TokenTypes /\ t.column <= v.column
          /\ p \in 0..Len(t.tokens)
      BY <1>1, <1>4, <1>6, <1>10, <1>13, <2>3 DEF TokenTypes
    <3> QED
      BY <1>10, <1>11, <1>13, <2>1, <3>1, InsertInPlace
  <2> QED
    BY <1>12, <1>13, <2>2, <2>3
<1>15. /\ Keeps(v, b) /\ b.indents = v.indents /\ Flags(b) = Flags(v) /\ b.error = v.error
       /\ Len(v.keys) = 1 => b.column = v.column + 1
  BY <1>13, BehindIs
<1> HIDE DEF b
<1>16. /\ Keeps(b, d) /\ d.indents = b.indents /\ d.column = b.column
       /\ Flags(d) = Flags(b) /\ d.error = b.error
  <2>1. b \in ScannerType /\ "VALUE" \in TokenTypes
    BY <1>15 DEF Keeps, TokenTypes
  <2> QED
    BY <2>1, EnqueueIs
<1> HIDE DEF d
<1>17. /\ d \in ScannerType /\ d.column >= s.column /\ d.column \in Nat
       /\ d.indents = r.indents /\ d.inside = s.inside /\ d.ended = s.ended
       /\ n = 1 => d.column = s.column + 1
       /\ d.error = s.error
  BY <1>1, <1>5, <1>13, <1>15, <1>16 DEF Keeps, Flags, ScannerType
<1>18. Ahead(d)
  <2>1. CASE n = 1
    <3>1. Indent(d) = Indent(r) /\ Indent(s) \in Int /\ Indent(s) <= s.column
      BY <1>1, <1>12, <1>17, <2>1, IndentIs DEF n, Ready
    <3>2. column \in Nat /\ column <= s.column
      BY <1>3, <1>4 DEF column
    <3>3. Indent(d) < d.column
      BY <1>1, <1>12, <1>17, <2>1, <3>1, <3>2
    <3> QED
      BY <3>3 DEF Ahead
  <2>2. CASE n > 1
    <3>1. d.indents = s.indents /\ n # 1
      BY <1>1, <1>12, <1>17, <2>2
    <3>2. Len(s.keys) # 1
      BY <3>1, Zenon DEF n
    <3> QED
      BY <1>17, <3>1, <3>2, AheadBehind
  <2> QED
    BY <1>1, <2>1, <2>2
<1>19. InPlace(d)
  BY <1>14, <1>15, <1>16, KeepsInPlace
<1>20. Good(d)
  BY <1>1, <1>17, <1>18, <1>19 DEF Good
<1> QED
  BY <1>2, <1>20 DEF d, b

\* What the queue, the keys and the block are when a scalar's token is in.
Saved(s, u) ==
    /\ u \in ScannerType /\ InPlace(u)
    /\ u.indents = s.indents /\ u.column = s.column
    /\ Len(u.keys) = Len(s.keys) /\ u.inside = s.inside /\ u.ended = s.ended
    /\ u.error = "assert" => u.inside

LEMMA ScalarSaved ==
  ASSUME NEW s, Ready(s), ~ s.ended
  PROVE  Saved(s, Enqueue([SaveSimpleKey(s) EXCEPT !.simple_key_allowed = FALSE], "SCALAR"))
<1> DEFINE a == SaveSimpleKey(s)
           c == [a EXCEPT !.simple_key_allowed = FALSE]
           d == Enqueue(c, "SCALAR")
<1>1. s \in ScannerType /\ s.column \in Nat /\ "SCALAR" \in TokenTypes
      /\ "SCALAR" \in KeyStarts
  BY ReadyFacts DEF TokenTypes, KeyStarts
<1>2. /\ a \in ScannerType /\ a.indents = s.indents /\ a.column = s.column
      /\ Flags(a) = Flags(s) /\ Len(a.keys) = Len(s.keys) /\ a.tokens = s.tokens
      /\ a.error = "assert" => s.inside
  BY SavedIs
<1>3. a = SaveSimpleKey(s)
  OBVIOUS
<1> HIDE DEF a
<1>4. /\ Keeps(a, c) /\ c.indents = a.indents /\ c.column = a.column
      /\ c.keys = a.keys /\ c.tokens = a.tokens
      /\ Flags(c) = <<FALSE, a.inside, a.ended>> /\ c.error = a.error
  BY <1>2, AllowedIs
<1> HIDE DEF c
<1>5. /\ Keeps(c, d) /\ d.indents = c.indents /\ d.column = c.column
      /\ d.keys = c.keys /\ d.tokens = Append(c.tokens, "SCALAR")
      /\ Flags(d) = Flags(c) /\ d.error = c.error
  <2>1. c \in ScannerType
    BY <1>4 DEF Keeps
  <2> QED
    BY <1>1, <2>1, EnqueueIs
<1> HIDE DEF d
<1>6. /\ d \in ScannerType /\ d.column = s.column
      /\ d.indents = s.indents /\ d.inside = s.inside /\ d.ended = s.ended
      /\ d.keys = a.keys /\ d.tokens = Append(s.tokens, "SCALAR")
      /\ d.error = "assert" => d.inside
  BY <1>2, <1>4, <1>5 DEF Keeps, Flags
<1>7. InPlace(d)
  <2>1. /\ Len(a.keys) <= Len(d.keys) /\ s.column <= d.column
        /\ \A i \in 1..Len(d.keys) : i <= Len(a.keys) /\ d.keys[i] = a.keys[i]
    BY <1>1, <1>2, <1>6 DEF ScannerType
  <2> QED
    BY <1>1, <1>3, <1>6, <2>1, SavedInPlace
<1>8. Saved(s, d)
  BY <1>2, <1>6, <1>7 DEF Saved
<1> QED
  BY <1>8 DEF d, c, a

\* A scalar that ends on the line on which it starts.
LEMMA OnLineGood ==
  ASSUME NEW s, Ready(s), NEW u, Saved(s, u), NEW n \in 0..Len(u.keys), NEW plain \in BOOLEAN
  PROVE  /\ Good(StaleSimpleKeys(Behind(u), n))
         /\ Good([StaleSimpleKeys(Behind(u), n) EXCEPT !.plain = plain])
<1> DEFINE b == Behind(u)
           t == StaleSimpleKeys(b, n)
           v == [t EXCEPT !.plain = plain]
<1>1. u \in ScannerType /\ InPlace(u) /\ s.column \in Nat
  BY ReadyFacts DEF Saved
<1>2. /\ Keeps(u, b) /\ b.indents = u.indents /\ b.keys = u.keys
      /\ Len(u.keys) = 1 => b.column = u.column + 1
      /\ Flags(b) = Flags(u) /\ b.error = u.error
  BY <1>1, BehindIs
<1> HIDE DEF b
<1>3. /\ Keeps(b, t) /\ t.indents = b.indents
      /\ t.column = b.column /\ Flags(t) = Flags(b)
      /\ t.error \in {b.error, "scanner"}
  <2>1. b \in ScannerType /\ n \in 0..Len(b.keys)
    BY <1>2 DEF Keeps
  <2> QED
    BY <2>1, StaleIs, StaleKeeps
<1> HIDE DEF t
<1>4. /\ t \in ScannerType /\ t.indents = s.indents /\ t.inside = s.inside /\ t.ended = s.ended
      /\ t.column >= s.column
      /\ Len(s.keys) = 1 => t.column = s.column + 1
      /\ t.error = "assert" => t.inside
  BY <1>1, <1>2, <1>3 DEF Saved, Keeps, Flags, ScannerType
<1>5. InPlace(t)
  BY <1>1, <1>2, <1>3, KeepsInPlace
<1>6. Good(t)
  BY <1>4, <1>5, AheadBehind DEF Good
<1>7. Keeps(t, v) /\ Flags(v) = Flags(t) /\ v.indents = t.indents /\ v.error = t.error
      /\ v.column = t.column
  <2>1. /\ Flags(v) = Flags(t) /\ v.indents = t.indents /\ v.error = t.error
        /\ v.column = t.column /\ v.keys = t.keys /\ v.tokens = t.tokens
    BY <1>4 DEF ScannerType, Flags
  <2>2. v \in ScannerType
    BY <1>4 DEF ScannerType
  <2>3. t.column \in Nat /\ Len(t.tokens) \in Nat
    BY <1>4 DEF ScannerType
  <2> HIDE DEF v
  <2> QED
    BY <1>4, <2>1, <2>2, <2>3 DEF Keeps
<1> HIDE DEF v
<1>8. InPlace(v)
  BY <1>5, <1>7, KeepsInPlace
<1>9. /\ v \in ScannerType /\ v.indents = s.indents /\ v.inside = s.inside /\ v.ended = s.ended
      /\ v.column >= s.column
      /\ Len(s.keys) = 1 => v.column = s.column + 1
      /\ v.error = "assert" => v.inside
  BY <1>4, <1>7 DEF Keeps, Flags
<1>10. Good(v)
  BY <1>8, <1>9, AheadBehind DEF Good
<1> QED
  BY <1>6, <1>10 DEF v, t, b

\* On a later line no key is possible, and the text is inside of something,
\* or a simple key may follow in the block.
LEMMA NewLineGood ==
  ASSUME NEW s \in ScannerType, s.keys # <<>>, s.error # "assert", NEW t,
         NEW c \in Nat, NEW inside \in BOOLEAN, NEW allowed \in BOOLEAN, NEW plain \in BOOLEAN,
         inside \/ (allowed /\ Len(s.keys) = 1) \/ Indent(s) < c,
         t = [StaleSimpleKeys(s, Len(s.keys)) EXCEPT
                !.column = c, !.inside = inside, !.simple_key_allowed = allowed, !.plain = plain]
  PROVE  /\ Good(t) /\ t.error # "assert" /\ Len(t.keys) = Len(s.keys)
         /\ t.indents = s.indents /\ t.column = c
<1> DEFINE a == StaleSimpleKeys(s, Len(s.keys))
<1>1. /\ a \in ScannerType /\ a.indents = s.indents /\ a.error \in {s.error, "scanner"}
      /\ Len(a.keys) = Len(s.keys)
      /\ \A i \in 1..Len(a.keys) : a.keys[i] = NoKey
  <2>1. Len(s.keys) \in Nat /\ Len(s.keys) \in 0..Len(s.keys)
    BY DEF ScannerType
  <2>2. /\ a \in ScannerType /\ a.indents = s.indents /\ a.error \in {s.error, "scanner"}
        /\ Len(a.keys) = Len(s.keys)
        /\ \A i \in 1..Len(a.keys) : a.keys[i] = IF i <= Len(s.keys) THEN NoKey ELSE s.keys[i]
    BY <2>1, StaleIs
  <2> HIDE DEF a
  <2> QED
    BY <2>1, <2>2
<1>2. t = [a EXCEPT !.column = c, !.inside = inside, !.simple_key_allowed = allowed,
                    !.plain = plain]
  OBVIOUS
<1> HIDE DEF a
<1>3. /\ t.indents = a.indents /\ t.keys = a.keys /\ t.error = a.error /\ t.column = c
      /\ t.inside = inside /\ t.simple_key_allowed = allowed
  BY <1>1, <1>2 DEF ScannerType
<1>4. t \in ScannerType
  BY <1>1, <1>2, Zenon DEF ScannerType
<1>5. InPlace(t)
  BY <1>1, <1>3, NoKeyType DEF InPlace
<1>6. Ahead(t)
  <2>1. CASE Indent(s) < c
    <3>1. Indent(t) = Indent(s)
      BY <1>1, <1>3 DEF Indent
    <3>2. Indent(t) < t.column
      BY <1>3, <2>1, <3>1
    <3> QED
      BY <3>2 DEF Ahead
  <2>2. CASE inside \/ (allowed /\ Len(s.keys) = 1)
    <3>1. ~ t.inside => t.simple_key_allowed /\ Len(t.keys) = 1
      BY <1>1, <1>3, <2>2
    <3>2. ~ (1 > 1)
      OBVIOUS
    <3> QED
      BY <3>1, <3>2, Zenon DEF Ahead
  <2> QED
    BY <2>1, <2>2
<1> QED
  BY <1>1, <1>3, <1>4, <1>5, <1>6 DEF Good

LEMMA ScalarGood ==
  ASSUME text.columns \in Nat, NEW s, Ready(s), NEW u, Saved(s, u), u.error = "none",
         NEW v \in ScanFlowScalar(u) \cup ScanPlainScalar(u)
  PROVE  Good(v)
<1> DEFINE a == StaleSimpleKeys(u, Len(u.keys))
<1>1. /\ u \in ScannerType /\ u.keys # <<>> /\ u.error # "assert" /\ Columns \subseteq Nat
      /\ Len(u.keys) \in Nat
  BY ReadyFacts, EmptySeq DEF Saved, ScannerType, Columns
<1>2. /\ u.simple_key_allowed \in BOOLEAN /\ u.inside \in BOOLEAN
  BY <1>1 DEF ScannerType
<1>3. a \in ScannerType
  <2>1. Len(u.keys) \in 0..Len(u.keys)
    BY <1>1
  <2> QED
    BY <1>1, <2>1, StaleIs
<1>4. Flags(a) = Flags(u)
  <2>1. Len(u.keys) \in 0..Len(u.keys)
    BY <1>1
  <2> QED
    BY <1>1, <2>1, StaleIs
<1>5. ASSUME NEW n \in 0..Len(u.keys), NEW t, t = StaleSimpleKeys(Behind(u), n)
      PROVE  Good(t) /\ Good([t EXCEPT !.plain = TRUE])
  BY <1>5, OnLineGood
<1>6. ASSUME NEW c \in Nat, NEW inside \in BOOLEAN, NEW allowed \in BOOLEAN,
             NEW plain \in BOOLEAN, inside \/ (allowed /\ Len(u.keys) = 1),
             NEW t, t = [a EXCEPT !.column = c, !.inside = inside,
                                  !.simple_key_allowed = allowed, !.plain = plain]
      PROVE  Good(t)
  BY <1>1, <1>6, NewLineGood
<1>7. CASE v \in QuotedOnLine(u)
  BY <1>5, <1>7 DEF QuotedOnLine
<1>8. CASE v \in QuotedOverLines(u)
  <2>1. PICK c \in Columns \ {0} :
          v = [a EXCEPT !.column = c, !.inside = TRUE, !.plain = FALSE]
    BY <1>8 DEF QuotedOverLines
  <2> HIDE DEF a
  <2>2. v = [a EXCEPT !.column = c, !.inside = TRUE,
                      !.simple_key_allowed = u.simple_key_allowed, !.plain = FALSE]
    BY <1>3, <1>4, <2>1 DEF ScannerType, Flags
  <2> QED
    BY <1>1, <1>2, <1>6, <2>2
<1>9. CASE v \in ScanPlainScalar(u)
  <2>1. PICK t \in PlainOnLine(u) \cup PlainOverLines(u) : v = [t EXCEPT !.plain = TRUE]
    BY <1>9 DEF ScanPlainScalar
  <2>2. CASE t \in PlainOnLine(u)
    BY <1>5, <2>1, <2>2 DEF PlainOnLine
  <2>3. CASE t \in PlainOverLines(u)
    <3> DEFINE broken == [a EXCEPT !.inside = TRUE]
    <3>1. \/ \E c \in Columns \ {0} : t = [broken EXCEPT !.column = c]
          \/ \E c \in Columns : t = [broken EXCEPT !.column = c,
                      !.inside = FlowLevel(u) > 0, !.simple_key_allowed = TRUE]
      BY <2>3 DEF PlainOverLines
    <3> HIDE DEF a
    <3>2. CASE \E c \in Columns \ {0} : t = [broken EXCEPT !.column = c]
      <4>1. PICK c \in Columns \ {0} : t = [broken EXCEPT !.column = c]
        BY <3>2
      <4>2. v = [a EXCEPT !.column = c, !.inside = TRUE,
                          !.simple_key_allowed = u.simple_key_allowed, !.plain = TRUE]
        BY <1>3, <1>4, <2>1, <4>1 DEF ScannerType, Flags
      <4> QED
        BY <1>1, <1>2, <1>6, <4>2
    <3>3. CASE \E c \in Columns : t = [broken EXCEPT !.column = c,
                      !.inside = FlowLevel(u) > 0, !.simple_key_allowed = TRUE]
      <4> DEFINE inside == FlowLevel(u) > 0
      <4>1. PICK c \in Columns : t = [broken EXCEPT !.column = c,
                      !.inside = inside, !.simple_key_allowed = TRUE]
        BY <3>3
      <4>2. inside \in BOOLEAN /\ (inside \/ Len(u.keys) = 1)
        <5> DEFINE n == Len(u.keys)
        <5>1. n \in Nat /\ n # 0 /\ (inside <=> n - 1 > 0)
          BY <1>1, EmptySeq DEF FlowLevel, ScannerType
        <5> HIDE DEF n, inside
        <5>2. inside <=> n # 1
          BY <5>1
        <5> QED
          BY <5>2 DEF n, inside
      <4> HIDE DEF inside
      <4>3. v = [a EXCEPT !.column = c, !.inside = inside,
                          !.simple_key_allowed = TRUE, !.plain = TRUE]
        BY <1>3, <2>1, <4>1 DEF ScannerType
      <4> QED
        BY <1>1, <1>6, <4>2, <4>3
    <3> QED
      BY <3>1, <3>2, <3>3
  <2> QED
    BY <2>1, <2>2, <2>3
<1> QED
  BY <1>7, <1>8, <1>9 DEF ScanFlowScalar

LEMMA BlockScalarGood ==
  ASSUME text.columns \in Nat, NEW s, Ready(s), FlowLevel(s) = 0,
         NEW v \in ScanBlockScalar(Enqueue([RemoveSimpleKey(s)
                                              EXCEPT !.simple_key_allowed = TRUE], "SCALAR"))
  PROVE  Good(v)
<1> DEFINE a == RemoveSimpleKey(s)
           c == [a EXCEPT !.simple_key_allowed = TRUE]
           d == Enqueue(c, "SCALAR")
<1>1. /\ s \in ScannerType /\ s.keys # <<>> /\ s.error # "assert" /\ Columns \subseteq Nat
      /\ Len(s.keys) \in Nat \ {0} /\ "SCALAR" \in TokenTypes
  <2>1. Columns \subseteq Nat
    BY DEF Columns
  <2>2. "SCALAR" \in TokenTypes
    BY DEF TokenTypes, KeyStarts
  <2> QED
    BY <2>1, <2>2, ReadyFacts
<1>2. Len(s.keys) = 1
  BY <1>1 DEF FlowLevel
<1>3. /\ a \in ScannerType /\ a.error \in {s.error, "scanner"} /\ Len(a.keys) = 1
      /\ a.keys[1] = NoKey
  BY <1>1, <1>2, RemoveIs
<1> HIDE DEF a
<1>4. /\ Keeps(a, c) /\ c.keys = a.keys /\ c.error = a.error
      /\ Flags(c) = <<TRUE, a.inside, a.ended>>
  BY <1>3, AllowedIs
<1> HIDE DEF c
<1>5. /\ Keeps(c, d) /\ d.keys = c.keys /\ d.error = c.error /\ Flags(d) = Flags(c)
  <2>1. c \in ScannerType
    BY <1>4 DEF Keeps
  <2> QED
    BY <1>1, <2>1, EnqueueIs
<1>6. PICK k \in Columns : v = [[d EXCEPT !.column = k] EXCEPT !.inside = FALSE, !.plain = FALSE]
  <2>1. v \in ScanBlockScalar(d)
    BY DEF d, c, a
  <2> HIDE DEF d
  <2>2. PICK t \in BlockScalarBreaks(d) : v = [t EXCEPT !.inside = FALSE, !.plain = FALSE]
    BY <2>1 DEF ScanBlockScalar
  <2>3. PICK k \in Columns : t = [d EXCEPT !.column = k]
    BY <2>2 DEF BlockScalarBreaks
  <2> QED
    BY <2>2, <2>3
<1> HIDE DEF d
<1>7. d \in ScannerType /\ d.keys = a.keys /\ d.simple_key_allowed /\ d.error # "assert"
  BY <1>1, <1>3, <1>4, <1>5 DEF Keeps, Flags
<1>8. /\ v \in ScannerType /\ v.keys = a.keys /\ v.simple_key_allowed /\ v.error # "assert"
  <2>1. v.keys = a.keys /\ v.simple_key_allowed /\ v.error # "assert"
    BY <1>6, <1>7 DEF ScannerType
  <2>2. k \in Nat
    BY <1>1
  <2>3. v \in ScannerType
    BY <1>6, <1>7, <2>2 DEF ScannerType
  <2> QED
    BY <2>1, <2>3
<1>9. InPlace(v)
  BY <1>3, <1>8, NoKeyType DEF InPlace
<1>10. Ahead(v)
  <2>1. ~ (1 > 1) /\ Len(v.keys) = 1
    BY <1>3, <1>8
  <2> QED
    BY <1>8, <2>1, Zenon DEF Ahead
<1> QED
  BY <1>8, <1>9, <1>10 DEF Good

LEMMA ResetIs ==
  ASSUME NEW s, Ready(s), NEW r, r = Reset(s)
  PROVE  /\ Keeps(s, r) /\ Len(r.keys) = Len(s.keys)
         /\ r.column = s.column /\ Flags(r) = <<FALSE, s.inside, s.ended>>
         /\ Indent(r) <= Indent(s) /\ (Len(s.keys) = 1 => Indent(r) <= -1)
         /\ r.error # "assert"
<1> DEFINE t == UnrollIndent(s, -1)
           a == RemoveSimpleKey(t)
<1>1. s \in ScannerType /\ s.keys # <<>> /\ s.error # "assert"
  BY ReadyFacts
<1>2. /\ t \in ScannerType /\ t.keys = s.keys
      /\ t.column = s.column /\ Flags(t) = Flags(s) /\ t.error = s.error
      /\ Indent(t) <= Indent(s)
      /\ Len(s.keys) = 1 => Indent(t) <= -1
      /\ Keeps(s, t)
  <2>1. -1 \in Int /\ -1 >= -1
    OBVIOUS
  <2> QED
    BY <1>1, <2>1, UnrollIs, UnrollKeeps
<1> HIDE DEF t
<1>3. /\ a \in ScannerType /\ a.indents = t.indents /\ a.column = t.column
      /\ Flags(a) = Flags(t) /\ Len(a.keys) = Len(t.keys)
      /\ a.error \in {t.error, "scanner"} /\ Keeps(t, a)
  BY <1>1, <1>2, RemoveIs, RemoveKeeps
<1>4. r = [a EXCEPT !.simple_key_allowed = FALSE]
  BY DEF Reset, t
<1> HIDE DEF a
<1>5. /\ Keeps(a, r) /\ r.indents = a.indents /\ r.column = a.column
      /\ r.keys = a.keys
      /\ Flags(r) = <<FALSE, a.inside, a.ended>> /\ r.error = a.error
  BY <1>3, <1>4, AllowedIs
<1>6. Keeps(s, r)
  BY <1>2, <1>3, <1>5, KeepsOn
<1>7. Indent(r) = Indent(t)
  BY <1>2, <1>3, <1>5, IndentIs DEF Keeps
<1> QED
  BY <1>1, <1>2, <1>3, <1>5, <1>6, <1>7 DEF Flags

LEMMA DocumentIndicatorGood ==
  ASSUME NEW s, Ready(s), NEW type \in TokenTypes
  PROVE  Good(Behind(Enqueue(Reset(s), type)))
<1> DEFINE r == Reset(s)
           e == Enqueue(r, type)
           d == Behind(e)
<1>1. s \in ScannerType /\ s.column \in Nat /\ Len(s.keys) \in Nat \ {0}
  BY ReadyFacts
<1>2. /\ Keeps(s, r) /\ Len(r.keys) = Len(s.keys)
      /\ r.column = s.column /\ Flags(r) = <<FALSE, s.inside, s.ended>>
      /\ Indent(r) <= Indent(s) /\ (Len(s.keys) = 1 => Indent(r) <= -1)
      /\ r.error # "assert"
  BY ResetIs
<1> HIDE DEF r
<1>3. /\ Keeps(r, e) /\ e.indents = r.indents /\ e.column = r.column /\ e.keys = r.keys
      /\ Flags(e) = Flags(r) /\ e.error = r.error
  <2>1. r \in ScannerType
    BY <1>2 DEF Keeps
  <2> QED
    BY <2>1, EnqueueIs
<1> HIDE DEF e
<1>4. /\ Keeps(e, d) /\ d.indents = e.indents /\ d.keys = e.keys
      /\ Flags(d) = Flags(e) /\ d.error = e.error
  BY <1>3, BehindIs DEF Keeps
<1> HIDE DEF d
<1>5. Keeps(s, d)
  BY <1>2, <1>3, <1>4, KeepsOn
<1>6. /\ d.column \in Nat /\ s.column <= d.column
      /\ d.inside = s.inside /\ d.ended = s.ended /\ d.error # "assert"
  BY <1>2, <1>3, <1>4, <1>5 DEF Keeps, Flags, ScannerType
<1>7. Indent(d) = Indent(r) /\ Indent(r) \in Int /\ Indent(s) \in Int
  <2>1. r \in ScannerType
    BY <1>2 DEF Keeps
  <2>2. d.indents = r.indents
    BY <1>3, <1>4
  <2>3. Indent(d) = Indent(r)
    BY <2>2 DEF Indent
  <2> QED
    BY <1>1, <2>1, <2>3, IndentIs
<1>8. Ahead(d)
  <2>1. CASE Len(s.keys) = 1
    <3>1. Indent(d) < d.column
      BY <1>2, <1>6, <1>7, <2>1
    <3> QED
      BY <3>1 DEF Ahead
  <2>2. CASE Len(s.keys) # 1
    <3> DEFINE n == Len(s.keys)
    <3>1. n \in Nat \ {0} /\ n # 1
      BY <1>1, <2>2
    <3> HIDE DEF n
    <3>2. n > 1
      BY <3>1
    <3>3. ~ s.ended /\ ~ s.inside => Indent(s) < s.column
      BY <3>2 DEF n, Ready, Good, Ahead
    <3>4. ~ d.ended /\ ~ d.inside => Indent(d) < d.column
      BY <1>1, <1>2, <1>6, <1>7, <3>3
    <3> QED
      BY <3>4 DEF Ahead
  <2> QED
    BY <2>1, <2>2
<1>9. Good(d)
  BY <1>5, <1>6, <1>8, KeepsReady
<1> QED
  BY <1>9 DEF d, e, r

LEMMA DirectiveGood ==
  ASSUME NEW s, Ready(s), NEW type \in TokenTypes
  PROVE  Good(ScanDirective(Enqueue(Reset(s), type)))
<1> DEFINE r == Reset(s)
           e == Enqueue(r, type)
           inside == FlowLevel(e) > 0
           d == ScanDirective(e)
<1>1. s \in ScannerType /\ Len(s.keys) \in Nat \ {0} /\ s.keys # <<>>
  BY ReadyFacts
<1>2. /\ Keeps(s, r) /\ Len(r.keys) = Len(s.keys)
      /\ (Len(s.keys) = 1 => Indent(r) <= -1) /\ r.error # "assert"
  BY ResetIs
<1> HIDE DEF r
<1>3. /\ Keeps(r, e) /\ e.indents = r.indents /\ e.keys = r.keys /\ e.error = r.error
  <2>1. r \in ScannerType
    BY <1>2 DEF Keeps
  <2> QED
    BY <2>1, EnqueueIs
<1> HIDE DEF e
<1>4. /\ e \in ScannerType /\ e.error # "assert" /\ Len(e.keys) = Len(s.keys)
      /\ e.simple_key_allowed \in BOOLEAN /\ e.keys # <<>>
  <2>1. e \in ScannerType /\ e.error # "assert" /\ Len(e.keys) = Len(s.keys)
    BY <1>2, <1>3 DEF Keeps
  <2> QED
    BY <1>1, <2>1, EmptySeq DEF ScannerType
<1>5. Indent(e) \in Int /\ Indent(e) = Indent(r)
  BY <1>3, <1>4, IndentIs DEF Indent
<1>6. inside \/ Indent(e) < 0
  <2> DEFINE n == Len(s.keys)
  <2>1. inside <=> n - 1 > 0
    BY <1>4 DEF FlowLevel
  <2>2. n \in Nat \ {0} /\ (n = 1 => Indent(r) <= -1)
    BY <1>1, <1>2
  <2> HIDE DEF n, inside
  <2> QED
    BY <1>5, <2>1, <2>2
<1>7. d = [StaleSimpleKeys(e, Len(e.keys)) EXCEPT
             !.column = 0, !.inside = inside,
             !.simple_key_allowed = e.simple_key_allowed, !.plain = FALSE]
  <2> DEFINE a == StaleSimpleKeys(e, Len(e.keys))
  <2>1. Len(e.keys) \in 0..Len(e.keys)
    BY <1>1, <1>4
  <2>2. a \in ScannerType /\ Flags(a) = Flags(e)
    BY <1>4, <2>1, StaleIs
  <2>3. a.simple_key_allowed = e.simple_key_allowed
    BY <2>2 DEF Flags
  <2>4. d = [a EXCEPT !.column = 0, !.inside = inside, !.plain = FALSE]
    BY DEF ScanDirective
  <2> HIDE DEF a, d, inside
  <2>5. d = [a EXCEPT !.column = 0, !.inside = inside,
                      !.simple_key_allowed = e.simple_key_allowed, !.plain = FALSE]
    BY <2>2, <2>3, <2>4 DEF ScannerType
  <2> QED
    BY <2>5 DEF a
<1>8. inside \in BOOLEAN
  OBVIOUS
<1> HIDE DEF inside, d
<1>9. Good(d)
  BY <1>4, <1>6, <1>7, <1>8, NewLineGood
<1> QED
  BY <1>9 DEF d, e, r

\* When the text is at its end no key is possible.
LEMMA EndedIs ==
  ASSUME NEW r \in ScannerType,
         NEW t, t = [r EXCEPT !.column = 0, !.ended = TRUE, !.plain = FALSE]
  PROVE  t \in ScannerType /\ t.ended /\ t.keys = r.keys /\ t.error = r.error
<1>1. t.ended /\ t.keys = r.keys /\ t.error = r.error
  BY DEF ScannerType
<1>2. 0 \in Nat /\ TRUE \in BOOLEAN /\ FALSE \in BOOLEAN
  OBVIOUS
<1>3. t \in ScannerType
  BY <1>2, Zenon DEF ScannerType
<1> QED
  BY <1>1, <1>3

LEMMA StreamEndGood ==
  ASSUME NEW n \in Nat, NEW t \in ScannerType, t.ended, Len(t.keys) = n, t.error # "assert"
  PROVE  Good(StaleSimpleKeys(Enqueue(t, "STREAM-END"), n))
<1> DEFINE e == Enqueue(t, "STREAM-END")
           d == StaleSimpleKeys(e, n)
<1>1. /\ e \in ScannerType /\ e.keys = t.keys /\ Flags(e) = Flags(t) /\ e.error = t.error
  <2>1. "STREAM-END" \in TokenTypes
    BY DEF TokenTypes
  <2>2. Keeps(t, e) /\ e.keys = t.keys /\ Flags(e) = Flags(t) /\ e.error = t.error
    BY <2>1, EnqueueIs
  <2> QED
    BY <2>2 DEF Keeps
<1> HIDE DEF e
<1>2. /\ d \in ScannerType /\ Flags(d) = Flags(e) /\ d.error \in {e.error, "scanner"}
      /\ \A i \in 1..Len(d.keys) : d.keys[i] = NoKey
  <2>1. n \in 0..Len(e.keys) /\ Len(e.keys) = n
    BY <1>1
  <2>2. /\ d \in ScannerType /\ Flags(d) = Flags(e) /\ d.error \in {e.error, "scanner"}
        /\ Len(d.keys) = Len(e.keys)
        /\ \A i \in 1..Len(d.keys) : d.keys[i] = IF i <= n THEN NoKey ELSE e.keys[i]
    BY <1>1, <2>1, StaleIs
  <2> HIDE DEF d
  <2> QED
    BY <2>1, <2>2
<1> HIDE DEF d
<1>3. d.ended /\ d.error # "assert"
  BY <1>1, <1>2 DEF Flags
<1>4. InPlace(d)
  BY <1>2, NoKeyType DEF InPlace
<1>5. Ahead(d)
  BY <1>3 DEF Ahead
<1>6. Good(d)
  BY <1>2, <1>3, <1>4, <1>5 DEF Good
<1> QED
  BY <1>6 DEF d, e

LEMMA NoScannerGood == Good(NoScanner) /\ NoScanner.keys = <<>> /\ NoScanner.error = "none"
<1>1. NoScanner \in ScannerType
  BY DEF NoScanner, ScannerType, Errors
<1>2. NoScanner.keys = <<>> /\ NoScanner.error = "none"
  BY DEF NoScanner
<1>3. Len(NoScanner.keys) = 0
  BY <1>2, EmptySeq
<1>4. InPlace(NoScanner)
  BY <1>3 DEF InPlace
<1>5. Ahead(NoScanner)
  BY <1>2 DEF Ahead
<1> QED
  BY <1>1, <1>2, <1>4, <1>5 DEF Good

LEMMA FailedGood ==
  ASSUME NEW s, s.inside \in BOOLEAN, NEW error \in Errors,
         error = "assert" => s.inside
  PROVE  Good(Failed(s, error))
<1> DEFINE f == Failed(s, error)
<1>1. f = [NoScanner EXCEPT !.error = error, !.inside = s.inside]
  BY DEF Failed
<1>2. NoScanner \in ScannerType /\ NoScanner.keys = <<>>
  BY NoScannerGood DEF Good
<1> HIDE DEF f
<1>3. f.keys = <<>> /\ f.error = error /\ f.inside = s.inside
  BY <1>1, <1>2 DEF ScannerType
<1>4. f \in ScannerType
  BY <1>1, <1>2 DEF ScannerType
<1>5. Len(f.keys) = 0
  BY <1>3, EmptySeq
<1>6. InPlace(f) /\ Ahead(f)
  BY <1>3, <1>5 DEF InPlace, Ahead
<1>7. Good(f)
  BY <1>3, <1>4, <1>6 DEF Good
<1> QED
  BY <1>7 DEF f

LEMMA BecomesGood ==
  ASSUME NEW t, Good(t), NEW u, u = IF t.error = "none" THEN t ELSE Failed(t, t.error)
  PROVE  Good(u)
<1>1. t \in ScannerType /\ t.inside \in BOOLEAN /\ t.error \in Errors
  BY DEF Good, ScannerType
<1>2. t.error = "assert" => t.inside
  BY DEF Good
<1>3. Good(Failed(t, t.error))
  BY <1>1, <1>2, FailedGood
<1> QED
  BY <1>3

LEMMA StartedIs ==
  ASSUME NEW s \in ScannerType, s.error # "assert",
         NEW t, t = [s EXCEPT !.keys = <<NoKey>>, !.simple_key_allowed = TRUE]
  PROVE  /\ t \in ScannerType /\ t.simple_key_allowed /\ t.error # "assert"
         /\ Len(t.keys) = 1 /\ t.keys[1] = NoKey
<1> DEFINE k == <<NoKey>>
<1>1. k \in Seq(KeyType) /\ Len(k) = 1 /\ k[1] = NoKey
  BY NoKeyType
<1>2. t = [s EXCEPT !.keys = k, !.simple_key_allowed = TRUE]
  OBVIOUS
<1> HIDE DEF k
<1>3. t.keys = k /\ t.simple_key_allowed /\ t.error = s.error
  BY <1>2 DEF ScannerType
<1>4. t \in ScannerType
  BY <1>1, <1>2, Zenon DEF ScannerType
<1> QED
  BY <1>1, <1>3, <1>4

LEMMA StreamStartGood ==
  ASSUME NEW t \in ScannerType, t.simple_key_allowed, t.error # "assert",
         Len(t.keys) = 1, t.keys[1] = NoKey
  PROVE  Good(Enqueue(t, "STREAM-START"))
<1> DEFINE e == Enqueue(t, "STREAM-START")
<1>1. e \in ScannerType /\ e.keys = t.keys /\ Flags(e) = Flags(t) /\ e.error = t.error
  <2>1. "STREAM-START" \in TokenTypes
    BY DEF TokenTypes
  <2>2. Keeps(t, e) /\ e.keys = t.keys /\ Flags(e) = Flags(t) /\ e.error = t.error
    BY <2>1, EnqueueIs
  <2> QED
    BY <2>2 DEF Keeps
<1> HIDE DEF e
<1>2. e.simple_key_allowed /\ e.error # "assert" /\ Len(e.keys) = 1 /\ e.keys[1] = NoKey
  BY <1>1 DEF Flags
<1>3. InPlace(e)
  BY <1>2, NoKeyType DEF InPlace
<1>4. Ahead(e)
  <2>1. ~ (1 > 1)
    OBVIOUS
  <2> QED
    BY <1>2, <2>1, Zenon DEF Ahead
<1>5. Good(e)
  BY <1>1, <1>2, <1>3, <1>4 DEF Good
<1> QED
  BY <1>5 DEF e

-----------------------------------------------------------------------------
(* From one lexeme to the next.                                            *)

LEMMA UnrolledReady ==
  ASSUME NEW s, Good(s), s.keys # <<>>, s.error # "assert"
  PROVE  Ready(UnrollIndent(s, s.column))
<1> DEFINE u == UnrollIndent(s, s.column)
<1>1. s \in ScannerType /\ s.column \in Nat /\ InPlace(s) /\ Ahead(s)
  BY DEF Good, ScannerType
<1>2. /\ u \in ScannerType /\ u.keys = s.keys
      /\ u.column = s.column /\ Flags(u) = Flags(s) /\ u.error = s.error
      /\ Indent(u) <= Indent(s)
      /\ Len(s.keys) = 1 => Indent(u) <= s.column
      /\ Keeps(s, u)
  <2>1. s.column \in Int /\ s.column >= -1
    BY <1>1
  <2> QED
    BY <1>1, <2>1, UnrollIs, UnrollKeeps
<1> HIDE DEF u
<1>3. InPlace(u)
  BY <1>1, <1>2, KeepsInPlace
<1>4. Indent(u) \in Int /\ Indent(s) \in Int
  BY <1>1, <1>2, IndentIs
<1>5. Ahead(u)
  <2>1. /\ u.inside = s.inside /\ u.ended = s.ended
        /\ u.simple_key_allowed = s.simple_key_allowed
    BY <1>2 DEF Flags
  <2>2. SUFFICES ASSUME ~ u.ended, ~ u.inside, Len(u.keys) > 1 \/ ~ u.simple_key_allowed
                 PROVE  Indent(u) < u.column
    BY DEF Ahead
  <2>3. Len(s.keys) > 1 \/ ~ s.simple_key_allowed
    BY <1>2, <2>1, <2>2, Zenon
  <2>4. Indent(s) < s.column
    BY <1>1, <2>1, <2>2, <2>3, Zenon DEF Ahead
  <2> QED
    BY <1>1, <1>2, <1>4, <2>4
<1>6. Ready(u)
  BY <1>2, <1>3, <1>5 DEF Good, Ready
<1> QED
  BY <1>6 DEF u

LEMMA SameLineGood ==
  ASSUME NEW s, Good(s), s.error # "assert", NEW n \in 0..Len(s.keys),
         NEW c \in Nat, c >= s.column, NEW t, t = FurtherAt(s, n, c)
  PROVE  Good(t) /\ Len(t.keys) = Len(s.keys) /\ t.error # "assert"
<1> DEFINE a == StaleSimpleKeys(s, n)
           plain == a.plain /\ (FlowLevel(s) > 0 \/ c > Indent(s))
<1>1. s \in ScannerType /\ s.column \in Nat /\ InPlace(s) /\ Ahead(s) /\ Len(s.keys) \in Nat
  BY DEF Good, ScannerType
<1>2. /\ Keeps(s, a) /\ a.indents = s.indents /\ a.column = s.column /\ Flags(a) = Flags(s)
      /\ a.error \in {s.error, "scanner"} /\ Len(a.keys) = Len(s.keys)
  BY <1>1, StaleIs, StaleKeeps
<1>3. t = [a EXCEPT !.column = c, !.plain = plain] /\ plain \in BOOLEAN
  BY DEF FurtherAt
<1> HIDE DEF a, plain
<1>4. a \in ScannerType
  BY <1>2 DEF Keeps
<1>5. /\ t.indents = a.indents /\ t.column = c /\ Flags(t) = Flags(a)
      /\ t.error = a.error /\ t.keys = a.keys /\ t.tokens = a.tokens
  BY <1>3, <1>4 DEF ScannerType, Flags
<1>6. t \in ScannerType
  BY <1>3, <1>4, Zenon DEF ScannerType
<1>7. Keeps(a, t)
  <2>1. a.column <= t.column /\ Len(a.tokens) \in Nat
    BY <1>1, <1>2, <1>4, <1>5 DEF ScannerType
  <2> QED
    BY <1>4, <1>5, <1>6, <2>1 DEF Keeps
<1>8. InPlace(t)
  BY <1>1, <1>2, <1>7, KeepsInPlace
<1>9. Ahead(t)
  <2>1. /\ t.inside = s.inside /\ t.ended = s.ended
        /\ t.simple_key_allowed = s.simple_key_allowed
    BY <1>2, <1>5 DEF Flags
  <2>2. SUFFICES ASSUME t.keys # <<>>, ~ t.ended, ~ t.inside,
                        Len(t.keys) > 1 \/ ~ t.simple_key_allowed
                 PROVE  Indent(t) < t.column
    BY DEF Ahead
  <2>3. Len(s.keys) > 1 \/ ~ s.simple_key_allowed
    BY <1>2, <1>5, <2>1, <2>2, Zenon
  <2>4. s.keys # <<>>
    BY <1>1, <1>2, <1>4, <1>5, <2>2, EmptySeq DEF ScannerType
  <2>5. Indent(s) < s.column /\ Indent(t) = Indent(s) /\ Indent(s) \in Int
    BY <1>1, <1>2, <1>5, <2>1, <2>2, <2>3, <2>4, IndentIs DEF Ahead, Indent
  <2> QED
    BY <1>1, <1>5, <2>5
<1> QED
  BY <1>2, <1>5, <1>6, <1>8, <1>9 DEF Good

LEMMA ScanReady ==
  ASSUME text.columns \in Nat, NEW s, Good(s), s.keys # <<>>, s.error # "assert",
         NEW at \in ScanToNextToken(s)
  PROVE  Ready(UnrollIndent(at, at.column))
<1>1. s \in ScannerType /\ s.column \in Nat /\ Columns \subseteq Nat /\ Len(s.keys) \in Nat \ {0}
      /\ s.plain \in BOOLEAN /\ s.simple_key_allowed \in BOOLEAN
  <2>1. Columns \subseteq Nat
    BY DEF Columns
  <2>2. s \in ScannerType
    BY DEF Good
  <2> QED
    BY <2>1, <2>2, EmptySeq DEF ScannerType
<1>2. Good(at) /\ at.keys # <<>> /\ at.error # "assert"
  <2>1. CASE at \in SameLine(s)
    <3>1. PICK n \in TooFar(s), c \in FurtherOn(s) : at = FurtherAt(s, n, c)
      BY <2>1 DEF SameLine
    <3>2. n \in 0..Len(s.keys) /\ c \in Nat /\ c >= s.column
      <4>1. n \in 0..Len(s.keys)
        BY <3>1 DEF TooFar
      <4>2. CASE FlowLevel(s) > 0
        BY <1>1, <3>1, <4>1, <4>2 DEF FurtherOn
      <4>3. CASE ~ (FlowLevel(s) > 0)
        <5>1. FurtherOn(s) = {k \in Columns : k >= s.column}
          BY <4>3 DEF FurtherOn
        <5> QED
          BY <1>1, <3>1, <4>1, <5>1
      <4> QED
        BY <4>2, <4>3
    <3>3. Good(at) /\ Len(at.keys) = Len(s.keys) /\ at.error # "assert"
      BY <3>1, <3>2, SameLineGood
    <3> QED
      BY <1>1, <3>3, EmptySeq
  <2>2. CASE at \in NewLine(s)
    <3> DEFINE a == StaleSimpleKeys(s, Len(s.keys))
               inside == FlowLevel(s) > 0
               allowed == a.simple_key_allowed \/ FlowLevel(s) = 0
    <3>1. PICK c \in Columns :
            at = [StaleSimpleKeys(s, Len(s.keys)) EXCEPT !.column = c,
                    !.simple_key_allowed = @ \/ FlowLevel(s) = 0,
                    !.inside = FlowLevel(s) > 0, !.plain = FALSE]
      BY <2>2 DEF NewLine
    <3>2. at = [StaleSimpleKeys(s, Len(s.keys)) EXCEPT !.column = c,
                  !.inside = inside, !.simple_key_allowed = allowed, !.plain = FALSE]
      <4>1. Len(s.keys) \in 0..Len(s.keys)
        BY <1>1
      <4>2. a \in ScannerType
        BY <1>1, <4>1, StaleIs
      <4>3. at = [a EXCEPT !.column = c, !.simple_key_allowed = allowed,
                           !.inside = inside, !.plain = FALSE]
        BY <3>1
      <4> HIDE DEF a, inside, allowed
      <4>4. at = [a EXCEPT !.column = c, !.inside = inside,
                           !.simple_key_allowed = allowed, !.plain = FALSE]
        BY <4>2, <4>3 DEF ScannerType
      <4> QED
        BY <4>4 DEF a
    <3>3. inside \in BOOLEAN /\ allowed \in BOOLEAN
      OBVIOUS
    <3>4. inside \/ (allowed /\ Len(s.keys) = 1)
      <4> DEFINE m == Len(s.keys)
      <4>1. (inside <=> m - 1 > 0) /\ (m - 1 = 0 => allowed)
        BY DEF FlowLevel
      <4>2. m \in Nat \ {0}
        BY <1>1
      <4> HIDE DEF m, inside, allowed
      <4>3. inside \/ (allowed /\ m = 1)
        BY <4>1, <4>2
      <4> QED
        BY <4>3 DEF m
    <3> HIDE DEF inside, allowed
    <3>5. c \in Nat /\ FALSE \in BOOLEAN /\ s \in ScannerType
      BY <1>1, <3>1
    <3>6. Good(at) /\ at.error # "assert" /\ Len(at.keys) = Len(s.keys)
      BY <3>2, <3>3, <3>4, <3>5, NewLineGood, ZenonT(40)
    <3> QED
      BY <1>1, <3>6, EmptySeq
  <2> QED
    BY <2>1, <2>2 DEF ScanToNextToken
<1> QED
  BY <1>2, UnrolledReady

\* A token is given out: no key points at it, and the others move up.
LEMMA SkipGood ==
  ASSUME NEW s, Good(s), ~ NeedMoreTokens(s),
         NEW k, k = [i \in DOMAIN s.keys |-> MovedUp(s.keys[i])],
         NEW w, w = Tail(s.tokens), NEW t, t = [s EXCEPT !.tokens = w, !.keys = k]
  PROVE  Good(t)
<1> DEFINE n == Len(s.keys)
           m == Len(s.tokens)
<1>1. /\ s \in ScannerType /\ s.tokens # <<>> /\ s.keys \in Seq(KeyType)
      /\ s.tokens \in Seq(TokenTypes) /\ n \in Nat /\ m \in Nat \ {0} /\ DOMAIN s.keys = 1..n
  <2>1. s \in ScannerType /\ s.tokens # <<>>
    BY DEF Good, NeedMoreTokens
  <2> QED
    BY <2>1, EmptySeq, LenProperties DEF ScannerType
<1>2. \A i \in 1..n : s.keys[i] \in KeyType
  BY <1>1, ElementOfSeq
<1>3. \A key \in KeyType : /\ MovedUp(key) \in KeyType
                           /\ MovedUp(key).possible = key.possible
                           /\ MovedUp(key).column = key.column
                           /\ key.possible => MovedUp(key).pos = key.pos - 1
  BY DEF KeyType, MovedUp
<1>4. /\ k \in Seq(KeyType) /\ Len(k) = n
      /\ \A i \in 1..n : k[i] = MovedUp(s.keys[i])
  <2>1. k = [i \in 1..n |-> MovedUp(s.keys[i])]
    BY <1>1
  <2>2. k \in [1..n -> KeyType]
    BY <1>2, <1>3, <2>1
  <2>3. k \in Seq(KeyType)
    BY <1>1, <2>2, IsASeq
  <2> QED
    BY <1>1, <2>1, <2>2, <2>3, LenProperties
<1>5. /\ w \in Seq(TokenTypes) /\ Len(w) = m - 1
      /\ \A i \in 1..(m - 1) : w[i] = s.tokens[i + 1]
  BY <1>1, HeadTailProperties
<1>6. /\ t.tokens = w /\ t.keys = k /\ t.indents = s.indents /\ t.column = s.column
      /\ Flags(t) = Flags(s) /\ t.error = s.error
  BY <1>1 DEF ScannerType, Flags
<1>7. t \in ScannerType
  BY <1>1, <1>4, <1>5, Zenon DEF ScannerType
<1>8. ASSUME NEW i \in 1..n, s.keys[i].possible
      PROVE  /\ s.keys[i].pos \in 1..(m - 1)
             /\ s.tokens[s.keys[i].pos + 1] \in KeyStarts
             /\ s.keys[i].column <= s.column
             /\ \A j \in 1..(i - 1) : s.keys[j].possible => s.keys[j].pos < s.keys[i].pos
  <2>1. i \in DOMAIN s.keys
    BY <1>1
  <2>2. s.keys[i].pos # 0
    BY <1>8, <2>1 DEF NeedMoreTokens
  <2>3. /\ s.keys[i].pos \in 0..(m - 1)
        /\ s.tokens[s.keys[i].pos + 1] \in KeyStarts
        /\ s.keys[i].column <= s.column
        /\ \A j \in 1..(i - 1) : s.keys[j].possible => s.keys[j].pos < s.keys[i].pos
    BY <1>8 DEF Good, InPlace
  <2> QED
    BY <1>1, <2>2, <2>3
<1>9. InPlace(t)
  <2> HIDE DEF n, m
  <2> SUFFICES ASSUME NEW i \in 1..n, k[i].possible
               PROVE  /\ k[i].pos \in 0..(m - 2)
                      /\ w[k[i].pos + 1] \in KeyStarts
                      /\ k[i].column <= s.column
                      /\ \A j \in 1..(i - 1) : k[j].possible => k[j].pos < k[i].pos
    <3>1. Len(t.tokens) - 1 = m - 2
      BY <1>1, <1>5, <1>6
    <3> QED
      BY <1>4, <1>6, <3>1 DEF InPlace
  <2>1. ASSUME NEW j \in 1..n, k[j].possible
        PROVE  /\ s.keys[j] \in KeyType /\ s.keys[j].possible
               /\ k[j].pos = s.keys[j].pos - 1 /\ k[j].column = s.keys[j].column
    <3>1. k[j] = MovedUp(s.keys[j]) /\ s.keys[j] \in KeyType
      BY <1>2, <1>4
    <3> QED
      BY <1>3, <2>1, <3>1
  <2> DEFINE p == s.keys[i].pos
  <2>2. /\ p \in 1..(m - 1) /\ k[i].pos = p - 1 /\ s.tokens[p + 1] \in KeyStarts
        /\ k[i].column <= s.column
    BY <1>8, <2>1
  <2> HIDE DEF p
  <2>3. k[i].pos \in 0..(m - 2) /\ w[k[i].pos + 1] \in KeyStarts
    BY <1>1, <1>5, <2>2, SMTT(30)
  <2>4. ASSUME NEW j \in 1..(i - 1), k[j].possible PROVE k[j].pos < k[i].pos
    <3>1. j \in 1..n
      BY <1>1
    <3>2. k[j].pos = s.keys[j].pos - 1 /\ s.keys[j].possible /\ s.keys[j].pos \in Int
      BY <2>1, <2>4, <3>1 DEF KeyType
    <3>3. s.keys[j].pos < p
      BY <1>8, <2>1, <3>2 DEF p
    <3> QED
      BY <1>1, <2>2, <3>2, <3>3
  <2> QED
    BY <2>2, <2>3, <2>4
<1>10. Ahead(t)
  <2>1. /\ t.inside = s.inside /\ t.ended = s.ended
        /\ t.simple_key_allowed = s.simple_key_allowed
    BY <1>6 DEF Flags
  <2>2. Len(t.keys) = Len(s.keys) /\ (t.keys # <<>> => s.keys # <<>>)
    BY <1>1, <1>4, <1>6, EmptySeq
  <2>3. Indent(t) = Indent(s)
    BY <1>6 DEF Indent
  <2>4. SUFFICES ASSUME t.keys # <<>>, ~ t.ended, ~ t.inside,
                        Len(t.keys) > 1 \/ ~ t.simple_key_allowed
                 PROVE  Indent(t) < t.column
    BY DEF Ahead
  <2>5. Len(s.keys) > 1 \/ ~ s.simple_key_allowed
    BY <2>1, <2>2, <2>4, Zenon
  <2>6. Indent(s) < s.column
    BY <2>1, <2>2, <2>4, <2>5, Zenon DEF Ahead, Good
  <2> QED
    BY <1>6, <2>3, <2>6
<1> QED
  <2>1. t.inside = s.inside
    BY <1>6 DEF Flags
  <2> QED
    BY <1>6, <1>7, <1>9, <1>10, <2>1 DEF Good

-----------------------------------------------------------------------------
(* The steps.                                                              *)

\* The parser takes a token that the queue gives out, or fails, or leaves the
\* scanner alone.
ParserUse ==
    \/ UNCHANGED scanner
    \/ Available /\ SkipToken
    \/ scanner' = Failed(scanner, "parser")

LEMMA ParserUses == ASSUME ParserStep PROVE ParserUse
<1> USE DEF ParserUse
<1>1. CASE Parse
  BY <1>1 DEF Parse, Keep
<1>2. CASE ParseStreamStart
  BY <1>2 DEF ParseStreamStart, At
<1>3. CASE ImplicitDocument
  BY <1>3 DEF ImplicitDocument, Keep
<1>4. CASE ExplicitDocument
  BY <1>4 DEF ExplicitDocument, At
<1>5. CASE ProcessDirective
  BY <1>5 DEF ProcessDirective, At, SkipAndSee, ParserError
<1>6. CASE SkipDocumentEnd
  BY <1>6 DEF SkipDocumentEnd, At, SkipAndSee
<1>7. CASE NoDocument
  BY <1>7 DEF NoDocument, ParserError
<1>8. CASE StreamEnd
  BY <1>8 DEF StreamEnd, At
<1>9. CASE ParseDocumentContent
  BY <1>9 DEF ParseDocumentContent, EnterNode, Keep
<1>10. CASE ParseDocumentEnd
  BY <1>10 DEF ParseDocumentEnd, At, Keep
<1>11. CASE NodeAlias
  BY <1>11 DEF NodeAlias, AtNode
<1>12. CASE NodeProperty
  BY <1>12 DEF NodeProperty, AtNode
<1>13. CASE NodeScalar
  BY <1>13 DEF NodeScalar, Content, AtNode
<1>14. CASE NodeCollection
  BY <1>14 DEF NodeCollection, Keep
<1>15. CASE NodeOther
  BY <1>15 DEF NodeOther, ParserError, Keep
<1>16. CASE UndefinedTag
  BY <1>16 DEF UndefinedTag, ParserError
<1>17. CASE FirstEntry
  BY <1>17 DEF FirstEntry, At, SkipAndSee
<1>18. CASE ParseBlockSequenceEntry
  BY <1>18 DEF ParseBlockSequenceEntry, AtEntry, At, SkipIndicator, SkipAndSee, Item,
               ParseNode, EnterNode, Keep, CloseCollection, ParserError
<1>19. CASE ParseIndentlessSequenceEntry
  BY <1>19 DEF ParseIndentlessSequenceEntry, At, SkipIndicator, SkipAndSee, Item,
               ParseNode, EnterNode, Keep
<1>20. CASE ParseBlockMappingKey
  BY <1>20 DEF ParseBlockMappingKey, AtEntry, At, SkipIndicator, SkipAndSee, Item,
               ParseNode, EnterNode, Keep, CloseCollection, ParserError
<1>21. CASE ParseBlockMappingValue
  BY <1>21 DEF ParseBlockMappingValue, At, SkipIndicator, SkipAndSee, Item,
               ParseNode, EnterNode, Keep
<1>22. CASE ParseFlowSequenceEntry
  BY <1>22 DEF ParseFlowSequenceEntry, At, SkipIndicator, SkipAndSee,
               ParseNode, EnterNode, Keep, CloseCollection, ParserError
<1>23. CASE ParsePairKey
  BY <1>23 DEF ParsePairKey, At, ParseNode, EnterNode, Keep
<1>24. CASE ParsePairValue
  BY <1>24 DEF ParsePairValue, At, SkipIndicator, SkipAndSee, Item, ParseNode, EnterNode, Keep
<1>25. CASE ParsePairEnd
  BY <1>25 DEF ParsePairEnd, Keep
<1>26. CASE ParseFlowMappingKey
  BY <1>26 DEF ParseFlowMappingKey, At, SkipIndicator, SkipAndSee, Item,
               ParseNode, EnterNode, Keep, CloseCollection, ParserError
<1>27. CASE ParseFlowMappingValue
  BY <1>27 DEF ParseFlowMappingValue, At, SkipIndicator, SkipAndSee, Item,
               ParseNode, EnterNode, Keep
<1> QED
  BY <1>1, <1>2, <1>3, <1>4, <1>5, <1>6, <1>7, <1>8, <1>9, <1>10, <1>11, <1>12, <1>13,
     <1>14, <1>15, <1>16, <1>17, <1>18, <1>19, <1>20, <1>21, <1>22, <1>23, <1>24,
     <1>25, <1>26, <1>27 DEF ParserStep

LEMMA ParserKeepsGood == ASSUME Good(scanner), ParserUse PROVE Good(scanner')
<1>1. CASE UNCHANGED scanner
  BY <1>1
<1>2. CASE Available /\ SkipToken
  <2> DEFINE k == [i \in DOMAIN scanner.keys |-> MovedUp(scanner.keys[i])]
             w == Tail(scanner.tokens)
  <2>1. ~ NeedMoreTokens(scanner)
    BY <1>2 DEF Available
  <2>2. scanner' = [scanner EXCEPT !.tokens = w, !.keys = k]
    BY <1>2 DEF SkipToken
  <2> QED
    BY <2>1, <2>2, SkipGood
<1>3. CASE scanner' = Failed(scanner, "parser")
  <2>1. scanner.inside \in BOOLEAN /\ "parser" \in Errors
    BY DEF Good, ScannerType, Errors
  <2> QED
    BY <1>3, <2>1, FailedGood
<1> QED
  BY <1>1, <1>2, <1>3 DEF ParserUse

\* A lexeme at which the blocks are closed that it is not in.
Fetch(s) ==
    \/ FetchStreamEnd(s) \/ FetchDirective(s) \/ FetchDocumentIndicator(s)
    \/ FetchFlowCollectionStart(s) \/ FetchFlowCollectionEnd(s)
    \/ FetchFlowEntry(s) \/ FetchBlockEntry(s) \/ FetchKey(s)
    \/ FetchValue(s) \/ FetchAnchor(s) \/ FetchTag(s)
    \/ FetchBlockScalar(s) \/ FetchScalar(s)

LEMMA FetchGood ==
  ASSUME text.columns \in Nat, NEW s, Ready(s), Fetch(s) PROVE Good(scanner')
<1>1. /\ s \in ScannerType /\ s.keys # <<>> /\ Len(s.keys) \in Nat \ {0}
      /\ FlowLevel(s) = 0 => Len(s.keys) = 1
      /\ Len(s.keys) = 1 => FlowLevel(s) = 0
  BY ReadyFacts DEF FlowLevel
<1>2. CASE FetchStreamEnd(s)
  <2> DEFINE r == Reset(s)
             t == [r EXCEPT !.column = 0, !.ended = TRUE, !.plain = FALSE]
             d == StaleSimpleKeys(Enqueue(t, "STREAM-END"), Len(s.keys))
  <2>1. Becomes(d)
    BY <1>2 DEF FetchStreamEnd
  <2>2. Keeps(s, r) /\ Len(r.keys) = Len(s.keys) /\ r.error # "assert"
    BY ResetIs
  <2> HIDE DEF r
  <2>3. r \in ScannerType
    BY <2>2 DEF Keeps
  <2>4. t \in ScannerType /\ t.ended /\ t.keys = r.keys /\ t.error = r.error
    BY <2>3, EndedIs
  <2> HIDE DEF t
  <2>5. Good(d)
    BY <1>1, <2>2, <2>4, StreamEndGood
  <2> HIDE DEF d
  <2> QED
    BY <2>1, <2>5, BecomesGood DEF Becomes
<1>3. CASE FetchDirective(s)
  <2>1. PICK type \in VersionDirective \cup TagDirective :
          Becomes(ScanDirective(Enqueue(Reset(s), type)))
    BY <1>3 DEF FetchDirective
  <2>2. type \in TokenTypes
    BY DEF VersionDirective, TagDirective, TokenTypes, Directives
  <2> DEFINE d == ScanDirective(Enqueue(Reset(s), type))
  <2>3. Good(d)
    BY <2>2, DirectiveGood
  <2>4. Becomes(d)
    BY <2>1
  <2> HIDE DEF d
  <2> QED
    BY <2>3, <2>4, BecomesGood DEF Becomes
<1>4. CASE FetchDocumentIndicator(s)
  <2>1. PICK type \in {"DOCUMENT-START", "DOCUMENT-END"} :
          Becomes(Behind(Enqueue(Reset(s), type)))
    BY <1>4 DEF FetchDocumentIndicator
  <2>2. type \in TokenTypes
    BY DEF TokenTypes
  <2> DEFINE d == Behind(Enqueue(Reset(s), type))
  <2>3. Good(d)
    BY <2>2, DocumentIndicatorGood
  <2>4. Becomes(d)
    BY <2>1
  <2> HIDE DEF d
  <2> QED
    BY <2>3, <2>4, BecomesGood DEF Becomes
<1>5. CASE FetchFlowCollectionStart(s)
  <2>1. PICK type \in {"FLOW-SEQUENCE-START", "FLOW-MAPPING-START"} :
          Becomes(Enqueue([IncreaseFlowLevel(Behind(SaveSimpleKey(s)))
                            EXCEPT !.simple_key_allowed = TRUE], type))
    BY <1>5 DEF FetchFlowCollectionStart
  <2>2. type \in KeyStarts /\ ~ s.ended
    BY <1>5 DEF FetchFlowCollectionStart, MayStand, KeyStarts
  <2> DEFINE d == Enqueue([IncreaseFlowLevel(Behind(SaveSimpleKey(s)))
                            EXCEPT !.simple_key_allowed = TRUE], type)
  <2>3. Good(d)
    BY <2>2, FlowStartGood
  <2>4. Becomes(d)
    BY <2>1
  <2> HIDE DEF d
  <2> QED
    BY <2>3, <2>4, BecomesGood DEF Becomes
<1>6. CASE FetchFlowCollectionEnd(s)
  <2>1. PICK type \in {"FLOW-SEQUENCE-END", "FLOW-MAPPING-END"} :
          Becomes(Enqueue([DecreaseFlowLevel(Behind(RemoveSimpleKey(s)))
                            EXCEPT !.simple_key_allowed = FALSE], type))
    BY <1>6 DEF FetchFlowCollectionEnd
  <2>2. type \in TokenTypes
    BY DEF TokenTypes
  <2> DEFINE d == Enqueue([DecreaseFlowLevel(Behind(RemoveSimpleKey(s)))
                            EXCEPT !.simple_key_allowed = FALSE], type)
  <2>3. Good(d)
    BY <2>2, FlowEndGood
  <2>4. Becomes(d)
    BY <2>1
  <2> HIDE DEF d
  <2> QED
    BY <2>3, <2>4, BecomesGood DEF Becomes
<1>7. CASE FetchFlowEntry(s)
  <2> DEFINE d == Enqueue([Behind(RemoveSimpleKey(s)) EXCEPT !.simple_key_allowed = TRUE],
                          "FLOW-ENTRY")
  <2>1. Becomes(d)
    BY <1>7 DEF FetchFlowEntry
  <2>2. "FLOW-ENTRY" \in TokenTypes /\ TRUE \in BOOLEAN
    BY DEF TokenTypes
  <2>3. Good(d)
    BY <2>2, FlowEntryGood
  <2> HIDE DEF d
  <2> QED
    BY <2>1, <2>3, BecomesGood DEF Becomes
<1>8. CASE FetchBlockEntry(s)
  <2> DEFINE rolled == RollIndent(Allowed(s), s.column, Len(s.tokens), "BLOCK-SEQUENCE-START")
             d == Enqueue([Behind(RemoveSimpleKey(rolled)) EXCEPT !.simple_key_allowed = TRUE],
                          "BLOCK-ENTRY")
  <2>1. Becomes(d)
    BY <1>8 DEF FetchBlockEntry
  <2>2. /\ "BLOCK-SEQUENCE-START" \in TokenTypes /\ "BLOCK-ENTRY" \in TokenTypes
        /\ TRUE \in BOOLEAN
    BY DEF TokenTypes
  <2>3. Good(d)
    BY <2>2, BlockEntryGood
  <2> HIDE DEF d
  <2> QED
    BY <2>1, <2>3, BecomesGood DEF Becomes
<1>9. CASE FetchKey(s)
  <2> DEFINE rolled == RollIndent(Allowed(s), s.column, Len(s.tokens), "BLOCK-MAPPING-START")
             allowed == FlowLevel(s) = 0
             d == Enqueue([Behind(RemoveSimpleKey(rolled)) EXCEPT !.simple_key_allowed = allowed],
                          "KEY")
  <2>1. Becomes(d)
    BY <1>9 DEF FetchKey
  <2>2. "BLOCK-MAPPING-START" \in TokenTypes /\ "KEY" \in TokenTypes
    BY DEF TokenTypes
  <2>3. allowed \in BOOLEAN /\ (Len(s.keys) = 1 => allowed)
    BY <1>1
  <2> HIDE DEF allowed
  <2>4. Good(d)
    BY <2>2, <2>3, BlockEntryGood
  <2> HIDE DEF d
  <2> QED
    BY <2>1, <2>4, BecomesGood DEF Becomes
<1>10. CASE FetchValue(s)
  <2> DEFINE t == IF Last(s.keys).possible THEN SimpleValue(s) ELSE ComplexValue(s)
             d == Enqueue(Behind(t), "VALUE")
  <2>1. Becomes(d)
    BY <1>10 DEF FetchValue
  <2>2. Good(d)
    BY SimpleGood, ComplexGood
  <2> HIDE DEF d
  <2> QED
    BY <2>1, <2>2, BecomesGood DEF Becomes
<1>11. CASE FetchAnchor(s)
  <2>1. PICK type \in ScanAnchor :
          Becomes(Enqueue(KeyStart(s), type))
    BY <1>11 DEF FetchAnchor
  <2>2. type \in KeyStarts /\ ~ s.ended
    BY <1>11 DEF FetchAnchor, MayStand, KeyStarts, ScanAnchor
  <2> DEFINE d == Enqueue(KeyStart(s), type)
  <2>3. Good(d)
    BY <2>2, KeyStartGood
  <2>4. Becomes(d)
    BY <2>1
  <2> HIDE DEF d
  <2> QED
    BY <2>3, <2>4, BecomesGood DEF Becomes
<1>12. CASE FetchTag(s)
  <2>1. PICK type \in ScanTag :
          Becomes(Enqueue(KeyStart(s), type))
    BY <1>12 DEF FetchTag
  <2>2. type \in KeyStarts /\ ~ s.ended
    BY <1>12 DEF FetchTag, MayStand, KeyStarts, ScanTag, ScanTagHandle
  <2> DEFINE d == Enqueue(KeyStart(s), type)
  <2>3. Good(d)
    BY <2>2, KeyStartGood
  <2>4. Becomes(d)
    BY <2>1
  <2> HIDE DEF d
  <2> QED
    BY <2>3, <2>4, BecomesGood DEF Becomes
<1>13. CASE FetchBlockScalar(s)
  <2> DEFINE t == Enqueue([RemoveSimpleKey(s) EXCEPT !.simple_key_allowed = TRUE], "SCALAR")
  <2>1. PICK u \in ScanBlockScalar(t) : Becomes(u)
    BY <1>13 DEF FetchBlockScalar
  <2>2. FlowLevel(s) = 0
    BY <1>13 DEF FetchBlockScalar
  <2>3. Good(u)
    BY <2>2, BlockScalarGood
  <2> QED
    BY <2>1, <2>3, BecomesGood DEF Becomes
<1>14. CASE FetchScalar(s)
  <2> DEFINE u == Enqueue([SaveSimpleKey(s) EXCEPT !.simple_key_allowed = FALSE], "SCALAR")
  <2>1. ~ s.ended
    BY <1>14 DEF FetchScalar, MayStand
  <2>2. PICK v \in IF u.error = "none" THEN ScanFlowScalar(u) \cup ScanPlainScalar(u) ELSE {u} :
          Becomes(v)
    BY <1>14 DEF FetchScalar
  <2>3. Saved(s, u)
    BY <2>1, ScalarSaved
  <2> HIDE DEF u
  <2>4. CASE u.error = "none"
    <3>1. Good(v)
      BY <2>2, <2>3, <2>4, ScalarGood
    <3> QED
      BY <2>2, <3>1, BecomesGood DEF Becomes
  <2>5. CASE u.error # "none"
    <3>1. v = u /\ u.inside \in BOOLEAN /\ u.error \in Errors
          /\ (u.error = "assert" => u.inside)
      BY <2>2, <2>3, <2>5 DEF Saved, ScannerType
    <3>2. scanner' = Failed(u, u.error)
      BY <2>2, <2>5, <3>1 DEF Becomes
    <3> QED
      BY <3>1, <3>2, FailedGood
  <2> QED
    BY <2>4, <2>5
<1> QED
  BY <1>2, <1>3, <1>4, <1>5, <1>6, <1>7, <1>8, <1>9, <1>10, <1>11, <1>12, <1>13, <1>14 DEF Fetch

LEMMA FetchKeepsGood ==
  ASSUME text \in Texts, Good(scanner), FetchMoreTokens PROVE Good(scanner')
<1>1. scanner.error = "none" /\ FetchNextToken
  BY DEF FetchMoreTokens
<1>2. text.columns \in Nat /\ scanner \in ScannerType
  BY YamlScannerAssumption DEF Good
<1>3. CASE FetchStreamStart
  <2> DEFINE t == [scanner EXCEPT !.keys = <<NoKey>>, !.simple_key_allowed = TRUE]
             d == Enqueue(t, "STREAM-START")
  <2>1. Becomes(d)
    BY <1>3 DEF FetchStreamStart
  <2>2. scanner.error # "assert"
    BY <1>1
  <2>3. /\ t \in ScannerType /\ t.simple_key_allowed /\ t.error # "assert"
        /\ Len(t.keys) = 1 /\ t.keys[1] = NoKey
    BY <1>2, <2>2, StartedIs
  <2> HIDE DEF t
  <2>4. Good(d)
    BY <2>3, StreamStartGood
  <2> HIDE DEF d
  <2> QED
    BY <2>1, <2>4, BecomesGood DEF Becomes
<1>4. CASE ScanFails
  <2>1. scanner.inside \in BOOLEAN /\ "scanner" \in Errors
    BY <1>2 DEF ScannerType, Errors
  <2> QED
    BY <1>4, <2>1, FailedGood DEF ScanFails
<1>5. CASE scanner.keys # <<>> /\ \E at \in ScanToNextToken(scanner) :
               Fetch(UnrollIndent(at, at.column))
  <2>1. PICK at \in ScanToNextToken(scanner) : Fetch(UnrollIndent(at, at.column))
    BY <1>5
  <2> DEFINE s == UnrollIndent(at, at.column)
  <2>2. Ready(s)
    BY <1>1, <1>2, <1>5, ScanReady
  <2>3. Fetch(s)
    BY <2>1
  <2> HIDE DEF s
  <2> QED
    BY <1>2, <2>2, <2>3, FetchGood
<1> QED
  BY <1>1, <1>3, <1>4, <1>5 DEF FetchNextToken, Fetch

-----------------------------------------------------------------------------
(* The theorems.                                                           *)

LEMMA ScannerInvInit == ASSUME ParserInit PROVE ScannerInv
<1>1. text \in Texts /\ scanner = NoScanner
  BY DEF ParserInit, Init
<1> QED
  BY <1>1, NoScannerGood DEF ScannerInv

LEMMA ScannerInvNext == ASSUME ScannerInv, [Next]_vars PROVE ScannerInv'
<1>1. CASE ScannerStep /\ UNCHANGED text
  <2>1. FetchMoreTokens
    BY <1>1 DEF ScannerStep
  <2>2. Good(scanner')
    BY <2>1, FetchKeepsGood DEF ScannerInv
  <2> QED
    BY <1>1, <2>2 DEF ScannerInv
<1>2. CASE ParserStep /\ UNCHANGED text
  <2>1. Good(scanner')
    BY <1>2, ParserUses, ParserKeepsGood DEF ScannerInv
  <2> QED
    BY <1>2, <2>1 DEF ScannerInv
<1>3. CASE UNCHANGED vars
  BY <1>3 DEF vars, ScannerInv
<1> QED
  BY <1>1, <1>2, <1>3 DEF Next

LEMMA ScannerInvAlways == Spec => []ScannerInv
<1>1. ParserInit => ScannerInv
  BY ScannerInvInit
<1>2. ScannerInv /\ [Next]_vars => ScannerInv'
  BY ScannerInvNext
<1> QED
  BY <1>1, <1>2, PTL DEF Spec

\* For any text, however wide and deeply nested, a possible simple key is in
\* the queue, points at a token that can be one, and the key of an outer level
\* is before that of an inner one: the place where yaml_parser_fetch_value
\* inserts a KEY token is always right, although nothing in the code checks it.
THEOREM KeysInPlace == Spec => []KeysPointAtStarts
<1>1. ScannerInv => KeysPointAtStarts
  <2> SUFFICES ASSUME Good(scanner),
                      NEW i \in DOMAIN scanner.keys, scanner.keys[i].possible
               PROVE  /\ scanner.keys[i].pos \in 0..(Len(scanner.tokens) - 1)
                      /\ scanner.tokens[scanner.keys[i].pos + 1] \in KeyStarts
                      /\ \A j \in 1..(i - 1) : scanner.keys[j].possible =>
                             scanner.keys[j].pos < scanner.keys[i].pos
    BY DEF ScannerInv, KeysPointAtStarts
  <2>1. i \in 1..Len(scanner.keys)
    BY LenProperties DEF Good, ScannerType
  <2> QED
    BY <2>1 DEF Good, InPlace
<1> QED
  BY <1>1, ScannerInvAlways, PTL

\* The assertion of yaml_parser_save_simple_key can fail only on a line that
\* began inside of a scalar or of a flow collection: everywhere else the comment
\* above it is right that a simple key is required only where one is allowed.
THEOREM AssertAccounted == Spec => []AssertOnlyInside
<1>1. ScannerInv => AssertOnlyInside
  BY DEF ScannerInv, Good, AssertOnlyInside, AssertionHolds
<1> QED
  BY <1>1, ScannerInvAlways, PTL

-----------------------------------------------------------------------------
(* Counting the elements of a sequence that are of some types.             *)

Places(seq, types) == {i \in 1..Len(seq) : seq[i] \in types}

LEMMA CountIs ==
  ASSUME NEW S, NEW seq \in Seq(S), NEW types, NEW T, T = Places(seq, types)
  PROVE  /\ IsFiniteSet(T) /\ Cardinality(T) \in Nat
         /\ Count(seq, types) = Cardinality(T)
<1>1. Len(seq) \in Nat /\ DOMAIN seq = 1..Len(seq)
  BY LenProperties
<1>2. IsFiniteSet(1..Len(seq)) /\ T \in SUBSET (1..Len(seq))
  BY <1>1, FS_Interval DEF Places
<1>3. IsFiniteSet(T)
  BY <1>2, FS_Subset
<1> QED
  BY <1>1, <1>3, FS_CardinalityType DEF Count, Places

LEMMA CountNat == ASSUME NEW S, NEW seq \in Seq(S), NEW types PROVE Count(seq, types) \in Nat
<1>1. PICK T : T = Places(seq, types)
  OBVIOUS
<1> QED
  BY <1>1, CountIs

\* All of them, and none.
LEMMA CountAll ==
  ASSUME NEW S, NEW seq \in Seq(S), NEW types, \A i \in 1..Len(seq) : seq[i] \in types
  PROVE  Count(seq, types) = Len(seq)
<1>1. PICK T : T = Places(seq, types)
  OBVIOUS
<1>2. PICK n \in Nat : n = Len(seq)
  OBVIOUS
<1>3. T = 1..n
  BY <1>1, <1>2 DEF Places
<1>4. Cardinality(1..n) = n
  BY FS_Interval
<1>5. Count(seq, types) = Cardinality(T)
  BY ONLY seq \in Seq(S), <1>1, CountIs
<1> QED
  BY <1>2, <1>3, <1>4, <1>5

LEMMA CountNone ==
  ASSUME NEW S, NEW seq \in Seq(S), NEW types, \A i \in 1..Len(seq) : seq[i] \notin types
  PROVE  Count(seq, types) = 0
<1>1. PICK T : T = Places(seq, types)
  OBVIOUS
<1>2. T = {}
  BY <1>1 DEF Places
<1> QED
  BY <1>1, <1>2, CountIs, FS_EmptySet

LEMMA CountOne ==
  ASSUME NEW S, NEW e \in S, NEW types
  PROVE  Count(<<e>>, types) = IF e \in types THEN 1 ELSE 0
<1>1. PICK seq : seq = <<e>>
  OBVIOUS
<1>2. seq \in Seq(S) /\ Len(seq) = 1 /\ \A i \in 1..Len(seq) : seq[i] = e
  BY <1>1
<1>3. CASE e \in types
  BY <1>1, <1>2, <1>3, CountAll
<1>4. CASE e \notin types
  BY <1>1, <1>2, <1>4, CountNone
<1> QED
  BY <1>3, <1>4

\* The elements of two sequences, one behind the other.
LEMMA CountBoth ==
  ASSUME NEW S, NEW a \in Seq(S), NEW b \in Seq(S), NEW types
  PROVE  Count(a \o b, types) = Count(a, types) + Count(b, types)
<1> DEFINE w == a \o b
<1>1. PICK m \in Nat, n \in Nat : m = Len(a) /\ n = Len(b)
  OBVIOUS
<1>2. /\ w \in Seq(S) /\ Len(w) = m + n
      /\ \A i \in 1..(m + n) : w[i] = IF i <= m THEN a[i] ELSE b[i - m]
  BY <1>1, ConcatProperties
<1>3. w = a \o b
  OBVIOUS
<1> HIDE DEF w
<1>4. PICK A : A = Places(a, types)
  OBVIOUS
<1>5. PICK B : B = Places(b, types)
  OBVIOUS
<1>6. PICK W : W = Places(w, types)
  OBVIOUS
<1>7. /\ A = {i \in 1..m : a[i] \in types}
       /\ B = {i \in 1..n : b[i] \in types}
       /\ W = {i \in 1..(m + n) : w[i] \in types}
  BY <1>1, <1>2, <1>4, <1>5, <1>6 DEF Places
<1> DEFINE D == {m + i : i \in B}
           f == [i \in B |-> m + i]
<1>8. /\ IsFiniteSet(A) /\ Count(a, types) = Cardinality(A) /\ Cardinality(A) \in Nat
      /\ IsFiniteSet(B) /\ Count(b, types) = Cardinality(B) /\ Cardinality(B) \in Nat
  <2>1. IsFiniteSet(A) /\ Count(a, types) = Cardinality(A) /\ Cardinality(A) \in Nat
    BY ONLY a \in Seq(S), <1>4, CountIs
  <2>2. IsFiniteSet(B) /\ Count(b, types) = Cardinality(B) /\ Cardinality(B) \in Nat
    BY ONLY b \in Seq(S), <1>5, CountIs
  <2> QED
    BY <2>1, <2>2
<1>9. Count(w, types) = Cardinality(W)
  <2>1. w \in Seq(S)
    BY <1>2
  <2> QED
    BY ONLY <1>6, <2>1, CountIs
<1>10. f \in Bijection(B, D)
  <2>1. f \in [B -> D] /\ \A i \in B : f[i] = m + i
    OBVIOUS
  <2>2. \A i, j \in B : f[i] = f[j] => i = j
    BY <1>7, <2>1
  <2>3. \A d \in D : \E i \in B : f[i] = d
    OBVIOUS
  <2> QED
    BY <2>1, <2>2, <2>3 DEF Bijection, Injection, Surjection, IsInjective
<1>11. IsFiniteSet(D) /\ Cardinality(D) = Cardinality(B)
  <2> HIDE DEF D, f
  <2> QED
    BY <1>8, <1>10, FS_Bijection DEF ExistsBijection
<1>12. A \cap D = {}
  BY <1>7
<1>13. W = A \cup D
  <2>1. A \subseteq W
    BY <1>2, <1>7
  <2>2. D \subseteq W
    <3> SUFFICES ASSUME NEW i \in B PROVE m + i \in W
      OBVIOUS
    <3>1. i \in 1..n /\ b[i] \in types
      BY <1>7
    <3>2. m + i \in 1..(m + n) /\ ~ (m + i <= m) /\ (m + i) - m = i
      BY <3>1
    <3>3. w[m + i] = b[i]
      BY <1>2, <3>2
    <3> QED
      BY <1>7, <3>1, <3>2, <3>3
  <2>3. W \subseteq A \cup D
    <3> SUFFICES ASSUME NEW i \in W, i \notin A PROVE i \in D
      OBVIOUS
    <3>1. i \in 1..(m + n) /\ w[i] \in types
      BY <1>7
    <3>2. ~ (i <= m)
      BY <1>2, <1>7, <3>1
    <3>3. i - m \in 1..n /\ w[i] = b[i - m] /\ i = m + (i - m)
      BY <1>2, <3>1, <3>2
    <3>4. i - m \in B
      BY <1>7, <3>1, <3>3
    <3> QED
      BY <3>3, <3>4
  <2> QED
    BY <2>1, <2>2, <2>3
<1>14. Cardinality(A \cap D) = 0
  BY <1>12, FS_EmptySet
<1>15. Cardinality(W) = Cardinality(A) + Cardinality(D) - Cardinality(A \cap D)
  <2> HIDE DEF D
  <2> QED
    BY <1>8, <1>11, <1>13, FS_Union
<1> HIDE DEF D
<1> QED
  BY <1>8, <1>9, <1>11, <1>14, <1>15, <1>3

BlockStarts == {"BLOCK-SEQUENCE-START", "BLOCK-MAPPING-START"}

\* How many more blocks start than end with a token, and in a queue.
Weight(type) == IF type \in BlockStarts THEN 1 ELSE IF type = "BLOCK-END" THEN -1 ELSE 0
Surplus(tokens) == Count(tokens, BlockStarts) - Count(tokens, {"BLOCK-END"})

LEMMA SurplusBoth ==
  ASSUME NEW a \in Seq(TokenTypes), NEW b \in Seq(TokenTypes), NEW w, w = a \o b
  PROVE  /\ w \in Seq(TokenTypes)
         /\ Surplus(a) \in Int /\ Surplus(b) \in Int
         /\ Surplus(w) = Surplus(a) + Surplus(b)
<1>1. ASSUME NEW types
      PROVE  /\ w \in Seq(TokenTypes)
             /\ Count(a, types) \in Nat /\ Count(b, types) \in Nat
             /\ Count(w, types) = Count(a, types) + Count(b, types)
  <2>1. Count(a, types) \in Nat /\ Count(b, types) \in Nat
    BY CountNat
  <2>2. Count(w, types) = Count(a, types) + Count(b, types)
    BY CountBoth
  <2>3. w \in Seq(TokenTypes)
    BY ConcatProperties
  <2> QED
    BY <2>1, <2>2, <2>3
<1> QED
  BY <1>1 DEF Surplus

LEMMA SurplusOne ==
  ASSUME NEW type \in TokenTypes
  PROVE  <<type>> \in Seq(TokenTypes) /\ Surplus(<<type>>) = Weight(type)
<1>1. Count(<<type>>, BlockStarts) = IF type \in BlockStarts THEN 1 ELSE 0
  BY CountOne
<1>2. Count(<<type>>, {"BLOCK-END"}) = IF type \in {"BLOCK-END"} THEN 1 ELSE 0
  BY CountOne
<1> QED
  BY <1>1, <1>2 DEF Surplus, Weight, BlockStarts

LEMMA SurplusAppend ==
  ASSUME NEW seq \in Seq(TokenTypes), NEW type \in TokenTypes, NEW w, w = Append(seq, type)
  PROVE  Surplus(seq) \in Int /\ Surplus(w) = Surplus(seq) + Weight(type)
<1>1. PICK one : one = <<type>>
  OBVIOUS
<1>2. one \in Seq(TokenTypes) /\ Surplus(one) = Weight(type)
  BY <1>1, SurplusOne
<1>3. w = seq \o one
  BY <1>1, AppendIsConcat
<1>4. Surplus(seq) \in Int /\ Surplus(w) = Surplus(seq) + Surplus(one)
  BY ONLY seq \in Seq(TokenTypes), <1>2, <1>3, SurplusBoth
<1> QED
  BY <1>2, <1>4

\* Where in the queue a token goes does not matter.
LEMMA SurplusInsert ==
  ASSUME NEW seq \in Seq(TokenTypes), NEW type \in TokenTypes, NEW p \in 0..Len(seq),
         NEW k, k = p + 1, NEW w, w = InsertAt(seq, k, type)
  PROVE  Surplus(seq) \in Int /\ Surplus(w) = Surplus(seq) + Weight(type)
<1>1. PICK n \in Nat : n = Len(seq)
  OBVIOUS
<1>2. PICK a, b, one, ae :
        /\ a = SubSeq(seq, 1, p) /\ b = SubSeq(seq, p + 1, n)
        /\ one = <<type>> /\ ae = a \o one
  OBVIOUS
<1>3. p \in 0..n /\ \A i \in 1..n : seq[i] \in TokenTypes
  BY <1>1, ElementOfSeq
<1>4. a \in Seq(TokenTypes)
  <2>1. p \in Int /\ 1 \in Int /\ \A i \in 1..p : seq[i] \in TokenTypes
    BY <1>3
  <2> QED
    BY <1>2, <2>1, SubSeqProperties
<1>5. b \in Seq(TokenTypes)
  <2>1. PICK q : q = p + 1
    OBVIOUS
  <2>2. q \in Int /\ n \in Int /\ \A i \in q..n : seq[i] \in TokenTypes
    BY <1>3, <2>1
  <2> QED
    BY <1>2, <2>1, <2>2, SubSeqProperties
<1>6. a \o b = seq
  <2>1. SubSeq(seq, 1, p) \o SubSeq(seq, p + 1, n) = SubSeq(seq, 1, n)
    <3>1. 1 \in 1..(Len(seq) + 1) /\ p \in 1 - 1 .. Len(seq) /\ n \in p..Len(seq)
      BY <1>1, <1>3
    <3> QED
      BY <3>1, ConcatAdjacentSubSeq
  <2>2. SubSeq(seq, 1, n) = seq
    BY <1>1, SubSeqFull
  <2> QED
    BY <1>2, <2>1, <2>2
<1>7. w = ae \o b
  <2>1. k - 1 = p
    BY <1>3
  <2> QED
    BY <1>1, <1>2, <2>1 DEF InsertAt
<1>8. one \in Seq(TokenTypes) /\ Surplus(one) = Weight(type)
  BY <1>2, SurplusOne
<1>9. /\ ae \in Seq(TokenTypes) /\ Surplus(a) \in Int /\ Surplus(one) \in Int
      /\ Surplus(ae) = Surplus(a) + Surplus(one)
  BY <1>2, <1>4, <1>8, SurplusBoth
<1>10. Surplus(b) \in Int /\ Surplus(w) = Surplus(ae) + Surplus(b)
  BY <1>5, <1>7, <1>9, SurplusBoth
<1>11. Surplus(seq) = Surplus(a) + Surplus(b)
  BY <1>4, <1>5, <1>6, SurplusBoth
<1> QED
  BY <1>8, <1>9, <1>10, <1>11

LEMMA SurplusTail ==
  ASSUME NEW seq \in Seq(TokenTypes), seq # <<>>, NEW w, w = Tail(seq), NEW type, type = Head(seq)
  PROVE  Surplus(w) \in Int /\ Surplus(seq) = Weight(type) + Surplus(w)
<1>1. PICK one : one = <<type>>
  OBVIOUS
<1>2. type \in TokenTypes /\ w \in Seq(TokenTypes)
  BY HeadTailProperties
<1>3. seq = one \o w
  <2>1. PICK n \in Nat \ {0} : n = Len(seq)
    BY EmptySeq
  <2>2. SubSeq(seq, 1, n) = <<seq[1]>> \o SubSeq(seq, 1 + 1, n)
    <3>1. 1 \in 1..Len(seq) /\ n \in 1..Len(seq)
      BY <2>1
    <3> QED
      BY <3>1, SubSeqRecursiveFirst
  <2>3. SubSeq(seq, 1, n) = seq
    BY <2>1, SubSeqFull
  <2>4. w = SubSeq(seq, 1 + 1, n)
    BY <2>1, TailIsSubSeq
  <2>5. type = seq[1]
    OBVIOUS
  <2> QED
    BY <1>1, <2>2, <2>3, <2>4, <2>5
<1>4. one \in Seq(TokenTypes) /\ Surplus(one) = Weight(type)
  BY <1>1, <1>2, SurplusOne
<1> QED
  BY <1>2, <1>3, <1>4, SurplusBoth

LEMMA SurplusEnds ==
  ASSUME NEW n \in Nat, NEW e, e = [i \in 1..n |-> "BLOCK-END"]
  PROVE  e \in Seq(TokenTypes) /\ Surplus(e) = 0 - n
<1>1. e \in [1..n -> TokenTypes]
  BY DEF TokenTypes
<1>2. e \in Seq(TokenTypes)
  BY <1>1, IsASeq
<1>3. Len(e) = n /\ \A i \in 1..Len(e) : e[i] = "BLOCK-END"
  BY <1>2, LenProperties
<1>4. Count(e, {"BLOCK-END"}) = n
  <2>1. \A i \in 1..Len(e) : e[i] \in {"BLOCK-END"}
    BY <1>3
  <2> QED
    BY <1>2, <1>3, <2>1, CountAll
<1>5. Count(e, BlockStarts) = 0
  <2>1. \A i \in 1..Len(e) : e[i] \notin BlockStarts
    BY <1>3 DEF BlockStarts
  <2> QED
    BY <1>2, <2>1, CountNone
<1> QED
  BY <1>2, <1>4, <1>5 DEF Surplus

-----------------------------------------------------------------------------
(* The blocks that the scanner is in and that the queue does not start.    *)

Balance(s) == Len(s.indents) - Surplus(s.tokens)
Even(s, t) == t \in ScannerType /\ Balance(t) = Balance(s)

\* The tokens that neither start nor end a block.
Neutral == TokenTypes \ (BlockStarts \cup {"BLOCK-END"})

LEMMA EvenOn == ASSUME NEW s, NEW t, NEW u, Even(s, t), Even(t, u) PROVE Even(s, u)
BY DEF Even

LEMMA SameEven ==
  ASSUME NEW s, NEW t \in ScannerType, t.tokens = s.tokens, t.indents = s.indents
  PROVE  Even(s, t)
BY DEF Even, Balance

LEMMA RemoveEven ==
  ASSUME NEW s \in ScannerType, s.keys # <<>>, NEW t, t = RemoveSimpleKey(s)
  PROVE  Even(s, t) /\ t.keys # <<>> /\ Len(t.keys) = Len(s.keys)
<1>1. /\ t \in ScannerType /\ t.tokens = s.tokens /\ t.indents = s.indents
      /\ Len(t.keys) = Len(s.keys) /\ Len(s.keys) \in Nat \ {0}
  BY RemoveIs
<1>2. t.keys # <<>>
  BY <1>1, EmptySeq
<1> QED
  BY <1>1, <1>2, SameEven

LEMMA SaveEven ==
  ASSUME NEW s \in ScannerType, s.keys # <<>>, NEW t, t = SaveSimpleKey(s)
  PROVE  Even(s, t) /\ Len(t.keys) = Len(s.keys)
<1>1. /\ t \in ScannerType /\ t.tokens = s.tokens /\ t.indents = s.indents
      /\ Len(t.keys) = Len(s.keys)
  BY SaveIs
<1> QED
  BY <1>1, SameEven

LEMMA StaleEven ==
  ASSUME NEW s \in ScannerType, NEW n \in 0..Len(s.keys), NEW t, t = StaleSimpleKeys(s, n)
  PROVE  Even(s, t) /\ Len(t.keys) = Len(s.keys)
<1>1. /\ t \in ScannerType /\ t.tokens = s.tokens /\ t.indents = s.indents
      /\ Len(t.keys) = Len(s.keys)
  BY StaleIs
<1> QED
  BY <1>1, SameEven

LEMMA BehindEven ==
  ASSUME NEW s \in ScannerType, NEW t, t = Behind(s) PROVE Even(s, t) /\ t.keys = s.keys
<1>1. t \in ScannerType /\ t.tokens = s.tokens /\ t.indents = s.indents /\ t.keys = s.keys
  BY BehindIs DEF Keeps
<1> QED
  BY <1>1, SameEven

LEMMA AllowedEven ==
  ASSUME NEW s \in ScannerType, NEW allowed \in BOOLEAN,
         NEW t, t = [s EXCEPT !.simple_key_allowed = allowed]
  PROVE  Even(s, t) /\ t.keys = s.keys
<1>1. t \in ScannerType /\ t.tokens = s.tokens /\ t.indents = s.indents /\ t.keys = s.keys
  BY DEF ScannerType
<1> QED
  BY <1>1, SameEven

LEMMA MovedEven ==
  ASSUME NEW s \in ScannerType, NEW c \in Nat, NEW allowed \in BOOLEAN, NEW inside \in BOOLEAN,
         NEW plain \in BOOLEAN, NEW ended \in BOOLEAN,
         NEW t, t = [s EXCEPT !.column = c, !.simple_key_allowed = allowed,
                              !.inside = inside, !.plain = plain, !.ended = ended]
  PROVE  Even(s, t)
<1>1. t \in ScannerType /\ t.tokens = s.tokens /\ t.indents = s.indents
  BY DEF ScannerType
<1> QED
  BY <1>1, SameEven

LEMMA EnqueueEven ==
  ASSUME NEW s \in ScannerType, NEW type \in Neutral, NEW t, t = Enqueue(s, type)
  PROVE  Even(s, t) /\ t.error = s.error /\ t.keys = s.keys
<1>1. type \in TokenTypes /\ Weight(type) = 0
  BY DEF Neutral, Weight
<1>2. /\ t \in ScannerType /\ t.tokens = Append(s.tokens, type) /\ t.indents = s.indents
      /\ t.error = s.error /\ t.keys = s.keys
  BY <1>1, EnqueueIs DEF Keeps
<1>3. s.tokens \in Seq(TokenTypes)
  BY DEF ScannerType
<1>4. PICK w : w = Append(s.tokens, type)
  OBVIOUS
<1>5. Surplus(s.tokens) \in Int /\ Surplus(w) = Surplus(s.tokens) + Weight(type)
  BY <1>1, <1>3, <1>4, SurplusAppend
<1>6. Surplus(t.tokens) = Surplus(s.tokens)
  BY <1>1, <1>2, <1>4, <1>5
<1> QED
  BY <1>2, <1>6 DEF Even, Balance

\* A block more, and its start token somewhere in the queue.
LEMMA RollEven ==
  ASSUME NEW s \in ScannerType, NEW c \in Nat, NEW pos \in 0..Len(s.tokens),
         NEW type \in BlockStarts, NEW t, t = RollIndent(s, c, pos, type)
  PROVE  Even(s, t) /\ t.keys = s.keys /\ t.column = s.column
<1>1. CASE FlowLevel(s) > 0 \/ Indent(s) >= c
  <2>1. t = s
    BY <1>1, Zenon DEF RollIndent
  <2> QED
    BY <2>1, SameEven
<1>2. CASE ~ (FlowLevel(s) > 0 \/ Indent(s) >= c)
  <2>1. PICK k : k = pos + 1
    OBVIOUS
  <2>2. PICK d, w : d = Append(s.indents, c) /\ w = InsertAt(s.tokens, k, type)
    OBVIOUS
  <2>3. t = [s EXCEPT !.indents = d, !.tokens = w]
    BY <1>2, <2>1, <2>2 DEF RollIndent
  <2>4. type \in TokenTypes /\ Weight(type) = 1
    BY DEF TokenTypes, Weight, BlockStarts
  <2>5. t \in ScannerType /\ t.keys = s.keys /\ t.column = s.column
    BY <2>1, <2>4, RollIs
  <2>6. t.indents = d /\ t.tokens = w
    BY <2>3 DEF ScannerType
  <2>7. s.indents \in Seq(Nat) /\ s.tokens \in Seq(TokenTypes)
    BY DEF ScannerType
  <2>8. Len(d) = Len(s.indents) + 1 /\ Len(s.indents) \in Nat
    BY <2>2, <2>7, AppendProperties
  <2>9. Surplus(s.tokens) \in Int /\ Surplus(w) = Surplus(s.tokens) + 1
    BY <2>1, <2>2, <2>4, <2>7, SurplusInsert
  <2>10. Len(t.indents) - Surplus(t.tokens) = Len(s.indents) - Surplus(s.tokens)
    BY <2>6, <2>8, <2>9
  <2> QED
    BY <2>5, <2>10 DEF Even, Balance
<1> QED
  BY <1>1, <1>2

\* As many blocks less as tokens that end one.
LEMMA UnrollEven ==
  ASSUME NEW s \in ScannerType, NEW c \in Int, c >= -1, NEW t, t = UnrollIndent(s, c)
  PROVE  Even(s, t) /\ t.keys = s.keys /\ t.column = s.column
<1>1. CASE FlowLevel(s) > 0 \/ Indent(s) <= c
  <2>1. t = s
    BY <1>1, Zenon DEF UnrollIndent
  <2> QED
    BY <2>1, SameEven
<1>2. CASE ~ (FlowLevel(s) > 0 \/ Indent(s) <= c)
  <2>1. PICK n \in Nat : n = Len(s.indents) /\ DOMAIN s.indents = 1..n
    BY LenProperties DEF ScannerType
  <2>2. PICK low : low = {0} \cup {i \in DOMAIN s.indents : s.indents[i] <= c}
    OBVIOUS
  <2>3. PICK kept : kept = Max(low)
    OBVIOUS
  <2>4. kept \in 0..n
    <3>1. low \in SUBSET (0..n) /\ low # {}
      BY <2>1, <2>2
    <3>2. kept \in low
      BY <2>3, <3>1, MaxIs
    <3> QED
      BY <3>1, <3>2
  <2>5. PICK m \in Nat : m = n - kept
    BY <2>4
  <2>6. PICK e : e = [i \in 1..m |-> "BLOCK-END"]
    OBVIOUS
  <2>7. PICK d, w : d = SubSeq(s.indents, 1, kept) /\ w = s.tokens \o e
    OBVIOUS
  <2>8. t = [s EXCEPT !.indents = d, !.tokens = w]
    BY <1>2, <2>1, <2>2, <2>3, <2>5, <2>6, <2>7 DEF UnrollIndent
  <2>9. t \in ScannerType /\ t.keys = s.keys /\ t.column = s.column
    BY UnrollIs
  <2>10. t.indents = d /\ t.tokens = w
    BY <2>8 DEF ScannerType
  <2>11. Len(d) = kept
    <3>1. \A i \in 1..n : s.indents[i] \in Nat
      BY <2>1, ElementOfSeq DEF ScannerType
    <3>2. kept \in Int /\ 1 \in Int /\ \A i \in 1..kept : s.indents[i] \in Nat
      BY <2>4, <3>1
    <3>3. Len(d) = IF 1 <= kept THEN kept - 1 + 1 ELSE 0
      BY <2>7, <3>2, SubSeqProperties
    <3> QED
      BY <2>4, <3>3
  <2>12. e \in Seq(TokenTypes) /\ Surplus(e) = 0 - m
    BY <2>6, SurplusEnds
  <2>13. s.tokens \in Seq(TokenTypes)
    BY DEF ScannerType
  <2>14. Surplus(s.tokens) \in Int /\ Surplus(w) = Surplus(s.tokens) + Surplus(e)
    BY <2>7, <2>12, <2>13, SurplusBoth
  <2>15. Len(t.indents) - Surplus(t.tokens) = Len(s.indents) - Surplus(s.tokens)
    BY <2>1, <2>4, <2>5, <2>10, <2>11, <2>12, <2>14
  <2> QED
    BY <2>9, <2>15 DEF Even, Balance
<1> QED
  BY <1>1, <1>2

\* The key of ":" goes to its place, and before it its mapping's start.
LEMMA KeyEven ==
  ASSUME NEW s \in ScannerType, NEW p \in 0..Len(s.tokens), NEW k, k = p + 1,
         NEW w, w = InsertAt(s.tokens, k, "KEY"), NEW t, t = [s EXCEPT !.tokens = w]
  PROVE  Even(s, t) /\ Len(t.tokens) = Len(s.tokens) + 1
<1>1. s.tokens \in Seq(TokenTypes) /\ "KEY" \in TokenTypes /\ Weight("KEY") = 0
  BY DEF ScannerType, TokenTypes, Weight, BlockStarts
<1>2. Surplus(s.tokens) \in Int /\ Surplus(w) = Surplus(s.tokens)
  BY <1>1, SurplusInsert
<1>3. PICK v : v = s.tokens
  OBVIOUS
<1>4. v \in Seq(TokenTypes) /\ p \in 0..Len(v) /\ w = InsertAt(v, k, "KEY")
  BY <1>1, <1>3
<1>5. w \in Seq(TokenTypes) /\ Len(w) = Len(v) + 1
  BY <1>1, <1>4, InsertFacts
<1>6. t \in ScannerType /\ t.tokens = w /\ t.indents = s.indents
  BY <1>5 DEF ScannerType
<1> QED
  BY <1>2, <1>3, <1>5, <1>6 DEF Even, Balance

LEMMA RequireEven ==
  ASSUME NEW s \in ScannerType, NEW holds, NEW error \in Errors, NEW t, t = Require(s, holds, error)
  PROVE  /\ Even(s, t) /\ t.keys = s.keys /\ t.column = s.column
         /\ t.tokens = s.tokens /\ t.indents = s.indents
<1>1. Requires(s, t, error, holds)
  BY RequireIs
<1>2. /\ t \in ScannerType /\ t.tokens = s.tokens /\ t.indents = s.indents
      /\ t.keys = s.keys /\ t.column = s.column
  BY <1>1 DEF Requires
<1> QED
  BY <1>2, SameEven

\* A token behind which no key is possible on its level.
LEMMA FlowEntryEven ==
  ASSUME NEW s \in ScannerType, s.keys # <<>>, NEW type \in Neutral, NEW allowed \in BOOLEAN,
         NEW t, t = Enqueue([Behind(RemoveSimpleKey(s)) EXCEPT !.simple_key_allowed = allowed], type)
  PROVE  Even(s, t)
<1>1. PICK a : a = RemoveSimpleKey(s)
  OBVIOUS
<1>2. PICK b : b = Behind(a)
  OBVIOUS
<1>3. PICK c : c = [b EXCEPT !.simple_key_allowed = allowed]
  OBVIOUS
<1>4. t = Enqueue(c, type)
  BY <1>1, <1>2, <1>3
<1>5. Even(s, a) /\ a \in ScannerType
  BY <1>1, RemoveEven DEF Even
<1>6. Even(a, b) /\ b \in ScannerType
  BY <1>2, <1>5, BehindEven DEF Even
<1>7. Even(b, c) /\ c \in ScannerType
  BY <1>3, <1>6, AllowedEven DEF Even
<1>8. Even(c, t)
  BY <1>4, <1>7, EnqueueEven
<1> QED
  BY <1>5, <1>6, <1>7, <1>8, EvenOn

LEMMA FlowEndEven ==
  ASSUME NEW s \in ScannerType, s.keys # <<>>, NEW type \in Neutral,
         NEW t, t = Enqueue([DecreaseFlowLevel(Behind(RemoveSimpleKey(s)))
                                EXCEPT !.simple_key_allowed = FALSE], type)
  PROVE  Even(s, t)
<1>1. PICK a : a = RemoveSimpleKey(s)
  OBVIOUS
<1>2. PICK b : b = Behind(a)
  OBVIOUS
<1>3. PICK f : f = DecreaseFlowLevel(b)
  OBVIOUS
<1>4. PICK c : c = [f EXCEPT !.simple_key_allowed = FALSE]
  OBVIOUS
<1>5. t = Enqueue(c, type)
  BY <1>1, <1>2, <1>3, <1>4
<1>6. Even(s, a) /\ a \in ScannerType /\ a.keys # <<>>
  BY <1>1, RemoveEven DEF Even
<1>7. Even(a, b) /\ b \in ScannerType /\ b.keys # <<>>
  BY <1>2, <1>6, BehindEven DEF Even
<1>8. Even(b, f) /\ f \in ScannerType
  <2>1. CASE FlowLevel(b) = 0
    <3>1. f = b
      BY <1>3, <2>1 DEF DecreaseFlowLevel
    <3> QED
      BY <1>7, <3>1, SameEven
  <2>2. CASE FlowLevel(b) # 0
    <3>1. PICK k : k = Front(b.keys)
      OBVIOUS
    <3>2. f = [b EXCEPT !.keys = k]
      BY <1>3, <2>2, <3>1 DEF DecreaseFlowLevel
    <3>3. b.keys \in Seq(KeyType)
      BY <1>7 DEF ScannerType
    <3>4. k \in Seq(KeyType)
      BY <1>7, <3>1, <3>3, FrontFacts
    <3>5. f \in ScannerType /\ f.tokens = b.tokens /\ f.indents = b.indents
      BY <1>7, <3>2, <3>4 DEF ScannerType
    <3> QED
      BY <1>7, <3>5, SameEven
  <2> QED
    BY <2>1, <2>2
<1>9. Even(f, c) /\ c \in ScannerType
  BY <1>4, <1>8, AllowedEven DEF Even
<1>10. Even(c, t)
  BY <1>5, <1>9, EnqueueEven
<1> QED
  BY <1>6, <1>7, <1>8, <1>9, <1>10, EvenOn

LEMMA RolledEven ==
  ASSUME NEW s \in ScannerType, NEW type \in BlockStarts,
         NEW t, t = RollIndent(Allowed(s), s.column, Len(s.tokens), type)
  PROVE  Even(s, t) /\ t.keys = s.keys /\ t.column = s.column
<1>1. PICK a : a = Allowed(s)
  OBVIOUS
<1>2. /\ Even(s, a) /\ a.keys = s.keys /\ a.column = s.column /\ a.tokens = s.tokens
      /\ a \in ScannerType
  <2>1. PICK holds : holds = (FlowLevel(s) > 0 \/ s.simple_key_allowed)
    OBVIOUS
  <2>2. a = Require(s, holds, "scanner")
    BY <1>1, <2>1 DEF Allowed
  <2>3. "scanner" \in Errors
    BY DEF Errors
  <2> QED
    BY <2>2, <2>3, RequireEven DEF Even
<1>3. PICK pos : pos = Len(s.tokens)
  OBVIOUS
<1>4. s.column \in Nat /\ pos \in 0..Len(a.tokens) /\ t = RollIndent(a, s.column, pos, type)
  <2>1. s.column \in Nat /\ Len(s.tokens) \in Nat
    BY DEF ScannerType
  <2> QED
    BY <1>1, <1>2, <1>3, <2>1
<1>5. Even(a, t) /\ t.keys = a.keys /\ t.column = a.column
  BY <1>2, <1>4, RollEven
<1> QED
  BY <1>2, <1>5, EvenOn

LEMMA BlockEntryEven ==
  ASSUME NEW s \in ScannerType, s.keys # <<>>, NEW start \in BlockStarts, NEW type \in Neutral,
         NEW allowed \in BOOLEAN,
         NEW t, t = Enqueue([Behind(RemoveSimpleKey(RollIndent(Allowed(s), s.column, Len(s.tokens), start)))
                                EXCEPT !.simple_key_allowed = allowed], type)
  PROVE  Even(s, t)
<1>1. PICK r : r = RollIndent(Allowed(s), s.column, Len(s.tokens), start)
  OBVIOUS
<1>2. Even(s, r) /\ r.keys = s.keys /\ r \in ScannerType
  BY <1>1, RolledEven DEF Even
<1>3. t = Enqueue([Behind(RemoveSimpleKey(r)) EXCEPT !.simple_key_allowed = allowed], type)
  BY <1>1
<1>4. Even(r, t)
  BY <1>2, <1>3, FlowEntryEven
<1> QED
  BY <1>2, <1>4, EvenOn

LEMMA ComplexEven ==
  ASSUME NEW s \in ScannerType, NEW t, t = Enqueue(Behind(ComplexValue(s)), "VALUE")
  PROVE  Even(s, t)
<1>1. PICK r : r = RollIndent(Allowed(s), s.column, Len(s.tokens), "BLOCK-MAPPING-START")
  OBVIOUS
<1>2. PICK allowed \in BOOLEAN : allowed = (FlowLevel(s) = 0)
  OBVIOUS
<1>3. PICK c : c = [r EXCEPT !.simple_key_allowed = allowed]
  OBVIOUS
<1>4. PICK b : b = Behind(c)
  OBVIOUS
<1>5. t = Enqueue(b, "VALUE")
  BY <1>1, <1>2, <1>3, <1>4 DEF ComplexValue
<1>6. Even(s, r) /\ r \in ScannerType
  BY <1>1, RolledEven DEF Even, BlockStarts
<1>7. Even(r, c) /\ c \in ScannerType
  BY <1>3, <1>6, AllowedEven DEF Even
<1>8. Even(c, b) /\ b \in ScannerType
  BY <1>4, <1>7, BehindEven DEF Even
<1>9. Even(b, t)
  BY <1>5, <1>8, EnqueueEven DEF Neutral, TokenTypes, BlockStarts
<1> QED
  BY <1>6, <1>7, <1>8, <1>9, EvenOn

LEMMA SimpleEven ==
  ASSUME NEW s \in ScannerType, InPlace(s), s.keys # <<>>, Last(s.keys).possible,
         NEW t, t = Enqueue(Behind(SimpleValue(s)), "VALUE")
  PROVE  Even(s, t)
<1>1. PICK n \in Nat \ {0} : n = Len(s.keys)
  BY EmptySeq DEF ScannerType
<1>2. PICK key : key = Last(s.keys)
  OBVIOUS
<1>3. PICK p : p = key.pos
  OBVIOUS
<1>4. PICK k : k = p + 1
  OBVIOUS
<1>5. PICK m, w : m = Append(Front(s.keys), NoKey) /\ w = InsertAt(s.tokens, k, "KEY")
  OBVIOUS
<1>6. PICK i : i = [s EXCEPT !.tokens = w]
  OBVIOUS
<1>7. PICK r : r = RollIndent(i, key.column, p, "BLOCK-MAPPING-START")
  OBVIOUS
<1>8. PICK v : v = [r EXCEPT !.keys = m, !.simple_key_allowed = FALSE]
  OBVIOUS
<1>9. PICK b : b = Behind(v)
  OBVIOUS
<1>10. v = SimpleValue(s)
  BY <1>2, <1>3, <1>4, <1>5, <1>6, <1>7, <1>8 DEF SimpleValue
<1>11. t = Enqueue(b, "VALUE")
  BY <1>9, <1>10
<1>12. s.keys \in Seq(KeyType) /\ Len(s.tokens) \in Nat
  BY DEF ScannerType
<1>13. key.column \in Nat /\ p \in 0..(Len(s.tokens) - 1)
  <2>1. key = s.keys[n] /\ key \in KeyType /\ key.possible
    BY <1>1, <1>2, <1>12, FrontFacts
  <2>2. n \in 1..Len(s.keys)
    BY <1>1
  <2> QED
    BY <1>3, <2>1, <2>2 DEF InPlace, KeyType
<1>14. p \in 0..Len(s.tokens)
  BY <1>12, <1>13
<1>15. Even(s, i) /\ Len(i.tokens) = Len(s.tokens) + 1 /\ i \in ScannerType
  BY <1>4, <1>5, <1>6, <1>14, KeyEven DEF Even
<1>16. p \in 0..Len(i.tokens)
  BY <1>12, <1>13, <1>15
<1>17. Even(i, r) /\ r \in ScannerType
  BY <1>7, <1>13, <1>15, <1>16, RollEven DEF BlockStarts, Even
<1>18. m \in Seq(KeyType)
  <2>1. PICK a : a = RemoveSimpleKey(s)
    OBVIOUS
  <2>2. a \in ScannerType /\ a.keys = Append(Front(s.keys), NoKey)
    BY <2>1, RemoveIs
  <2> QED
    BY <1>5, <2>2 DEF ScannerType
<1>19. Even(r, v) /\ v \in ScannerType
  <2>1. v \in ScannerType /\ v.tokens = r.tokens /\ v.indents = r.indents
    BY <1>8, <1>17, <1>18 DEF ScannerType
  <2> QED
    BY <1>17, <2>1, SameEven
<1>20. Even(v, b) /\ b \in ScannerType
  BY <1>9, <1>19, BehindEven DEF Even
<1>21. Even(b, t)
  BY <1>11, <1>20, EnqueueEven DEF Neutral, TokenTypes, BlockStarts
<1> QED
  BY <1>15, <1>17, <1>19, <1>20, <1>21, EvenOn

LEMMA KeyStartEven ==
  ASSUME NEW s \in ScannerType, s.keys # <<>>, NEW type \in Neutral,
         NEW t, t = Enqueue(KeyStart(s), type)
  PROVE  Even(s, t)
<1>1. PICK a : a = SaveSimpleKey(s)
  OBVIOUS
<1>2. PICK b : b = Behind(a)
  OBVIOUS
<1>3. PICK c : c = [b EXCEPT !.simple_key_allowed = FALSE]
  OBVIOUS
<1>4. t = Enqueue(c, type)
  BY <1>1, <1>2, <1>3 DEF KeyStart
<1>5. Even(s, a) /\ a \in ScannerType
  BY <1>1, SaveEven DEF Even
<1>6. Even(a, b) /\ b \in ScannerType
  BY <1>2, <1>5, BehindEven DEF Even
<1>7. Even(b, c) /\ c \in ScannerType
  BY <1>3, <1>6, AllowedEven DEF Even
<1>8. Even(c, t)
  BY <1>4, <1>7, EnqueueEven
<1> QED
  BY <1>5, <1>6, <1>7, <1>8, EvenOn

LEMMA FlowStartEven ==
  ASSUME NEW s \in ScannerType, s.keys # <<>>, NEW type \in Neutral,
         NEW t, t = Enqueue([IncreaseFlowLevel(Behind(SaveSimpleKey(s)))
                                EXCEPT !.simple_key_allowed = TRUE], type)
  PROVE  Even(s, t)
<1>1. PICK a : a = SaveSimpleKey(s)
  OBVIOUS
<1>2. PICK b : b = Behind(a)
  OBVIOUS
<1>3. PICK k : k = Append(b.keys, NoKey)
  OBVIOUS
<1>4. PICK f : f = [b EXCEPT !.keys = k]
  OBVIOUS
<1>5. PICK c : c = [f EXCEPT !.simple_key_allowed = TRUE]
  OBVIOUS
<1>6. t = Enqueue(c, type)
  BY <1>1, <1>2, <1>3, <1>4, <1>5 DEF IncreaseFlowLevel
<1>7. Even(s, a) /\ a \in ScannerType
  BY <1>1, SaveEven DEF Even
<1>8. Even(a, b) /\ b \in ScannerType
  BY <1>2, <1>7, BehindEven DEF Even
<1>9. Even(b, f) /\ f \in ScannerType
  <2>1. b.keys \in Seq(KeyType)
    BY <1>8 DEF ScannerType
  <2>2. k \in Seq(KeyType)
    BY <1>3, <2>1, NoKeyType, AppendProperties
  <2>3. f \in ScannerType /\ f.tokens = b.tokens /\ f.indents = b.indents
    BY <1>4, <1>8, <2>2 DEF ScannerType
  <2> QED
    BY <1>8, <2>3, SameEven
<1>10. Even(f, c) /\ c \in ScannerType
  BY <1>5, <1>9, AllowedEven DEF Even
<1>11. Even(c, t)
  BY <1>6, <1>10, EnqueueEven
<1> QED
  BY <1>7, <1>8, <1>9, <1>10, <1>11, EvenOn

LEMMA ResetEven ==
  ASSUME NEW s \in ScannerType, s.keys # <<>>, NEW t, t = Reset(s)
  PROVE  Even(s, t) /\ Len(t.keys) = Len(s.keys)
<1>1. PICK u : u = UnrollIndent(s, -1)
  OBVIOUS
<1>2. PICK a : a = RemoveSimpleKey(u)
  OBVIOUS
<1>3. t = [a EXCEPT !.simple_key_allowed = FALSE]
  BY <1>1, <1>2 DEF Reset
<1>4. Even(s, u) /\ u \in ScannerType /\ u.keys = s.keys
  <2>1. -1 \in Int /\ -1 >= -1
    OBVIOUS
  <2> QED
    BY <1>1, <2>1, UnrollEven DEF Even
<1>5. Even(u, a) /\ a \in ScannerType /\ Len(a.keys) = Len(u.keys)
  BY <1>2, <1>4, RemoveEven DEF Even
<1>6. Even(a, t) /\ t.keys = a.keys
  BY <1>3, <1>5, AllowedEven
<1> QED
  BY <1>4, <1>5, <1>6, EvenOn

LEMMA DocumentIndicatorEven ==
  ASSUME NEW s \in ScannerType, s.keys # <<>>, NEW type \in Neutral,
         NEW t, t = Behind(Enqueue(Reset(s), type))
  PROVE  Even(s, t)
<1>1. PICK r : r = Reset(s)
  OBVIOUS
<1>2. PICK e : e = Enqueue(r, type)
  OBVIOUS
<1>3. Even(s, r) /\ r \in ScannerType
  BY <1>1, ResetEven DEF Even
<1>4. Even(r, e) /\ e \in ScannerType
  BY <1>2, <1>3, EnqueueEven DEF Even
<1>5. Even(e, t)
  BY <1>1, <1>2, <1>4, BehindEven
<1> QED
  BY <1>3, <1>4, <1>5, EvenOn

\* The text goes on somewhere else, where no key, or not every one, is possible.
LEMMA ElsewhereEven ==
  ASSUME NEW s \in ScannerType, NEW n \in 0..Len(s.keys), NEW a, a = StaleSimpleKeys(s, n),
         NEW t, t.tokens = a.tokens, t.indents = a.indents, t \in ScannerType
  PROVE  Even(s, t)
<1>1. Even(s, a) /\ a \in ScannerType
  BY StaleEven DEF Even
<1>2. Even(a, t)
  BY <1>1, SameEven
<1> QED
  BY <1>1, <1>2, EvenOn

LEMMA DirectiveEven ==
  ASSUME NEW s \in ScannerType, s.keys # <<>>, NEW type \in Neutral,
         NEW t, t = ScanDirective(Enqueue(Reset(s), type))
  PROVE  Even(s, t)
<1>1. PICK r : r = Reset(s)
  OBVIOUS
<1>2. PICK e : e = Enqueue(r, type)
  OBVIOUS
<1>3. Even(s, r) /\ r \in ScannerType
  BY <1>1, ResetEven DEF Even
<1>4. Even(r, e) /\ e \in ScannerType
  BY <1>2, <1>3, EnqueueEven DEF Even
<1>5. PICK n : n = Len(e.keys)
  OBVIOUS
<1>6. n \in 0..Len(e.keys)
  BY <1>4, <1>5 DEF ScannerType
<1>7. PICK a : a = StaleSimpleKeys(e, n)
  OBVIOUS
<1>8. a \in ScannerType
  BY <1>4, <1>6, <1>7, StaleIs
<1>9. PICK inside : inside \in BOOLEAN /\ inside = (FlowLevel(e) > 0)
  <2>1. (FlowLevel(e) > 0) \in BOOLEAN
    OBVIOUS
  <2> QED
    BY <2>1, Zenon
<1>10. t = [a EXCEPT !.column = 0, !.inside = inside, !.plain = FALSE]
  BY <1>1, <1>2, <1>5, <1>7, <1>9 DEF ScanDirective
<1>11. t \in ScannerType /\ t.tokens = a.tokens /\ t.indents = a.indents
  <2>1. t.tokens = a.tokens /\ t.indents = a.indents
    BY <1>8, <1>10 DEF ScannerType
  <2>2. 0 \in Nat /\ inside \in BOOLEAN /\ FALSE \in BOOLEAN
    BY <1>9
  <2>3. t \in ScannerType
    BY <1>8, <1>10, <2>2, Zenon DEF ScannerType
  <2> QED
    BY <2>1, <2>3
<1>12. Even(e, t)
  BY <1>4, <1>6, <1>7, <1>11, ElsewhereEven
<1> QED
  BY <1>3, <1>4, <1>12, EvenOn

LEMMA StreamEndEven ==
  ASSUME NEW s \in ScannerType, s.keys # <<>>, NEW n, n = Len(s.keys), NEW r, r = Reset(s),
         NEW u, u = [r EXCEPT !.column = 0, !.ended = TRUE, !.plain = FALSE],
         NEW t, t = StaleSimpleKeys(Enqueue(u, "STREAM-END"), n)
  PROVE  Even(s, t)
<1>1. PICK e : e = Enqueue(u, "STREAM-END")
  OBVIOUS
<1>2. Even(s, r) /\ r \in ScannerType /\ Len(r.keys) = n
  BY ResetEven DEF Even
<1>3. Even(r, u) /\ u \in ScannerType /\ u.keys = r.keys
  <2>1. u \in ScannerType /\ u.keys = r.keys
    BY <1>2, EndedIs
  <2>2. u.tokens = r.tokens /\ u.indents = r.indents
    BY <1>2 DEF ScannerType
  <2> QED
    BY <1>2, <2>1, <2>2, SameEven
<1>4. Even(u, e) /\ e \in ScannerType /\ e.keys = u.keys
  <2>1. "STREAM-END" \in Neutral
    BY DEF Neutral, TokenTypes, BlockStarts
  <2> QED
    BY ZenonT(60), <1>1, <1>3, <2>1, EnqueueEven DEF Even
<1>5. n \in 0..Len(e.keys)
  <2>1. Len(s.keys) \in Nat
    BY DEF ScannerType
  <2> QED
    BY <1>2, <1>3, <1>4, <2>1
<1>6. Even(e, t)
  BY <1>1, <1>4, <1>5, StaleEven
<1> QED
  BY <1>2, <1>3, <1>4, <1>6, EvenOn

LEMMA ScalarEven ==
  ASSUME text.columns \in Nat, NEW u \in ScannerType,
         NEW v \in ScanFlowScalar(u) \cup ScanPlainScalar(u)
  PROVE  Even(u, v)
<1>1. PICK m : m = Len(u.keys)
  OBVIOUS
<1>2. m \in 0..Len(u.keys)
  BY <1>1 DEF ScannerType
<1>3. PICK a : a = StaleSimpleKeys(u, m)
  OBVIOUS
<1>4. a \in ScannerType /\ Columns \subseteq Nat
  BY <1>2, <1>3, StaleIs DEF Columns
<1>5. ASSUME NEW t \in ScannerType, t.tokens = a.tokens, t.indents = a.indents PROVE Even(u, t)
  BY <1>2, <1>3, <1>5, ElsewhereEven
<1>6. ASSUME NEW n \in 0..Len(u.keys), NEW t, t = StaleSimpleKeys(Behind(u), n),
             NEW w, w = t \/ w = [t EXCEPT !.plain = TRUE]
      PROVE  Even(u, w)
  <2>1. PICK b : b = Behind(u)
    OBVIOUS
  <2>2. Even(u, b) /\ b.keys = u.keys /\ b \in ScannerType
    BY <2>1, BehindEven DEF Even
  <2>3. n \in 0..Len(b.keys) /\ t = StaleSimpleKeys(b, n)
    BY <1>6, <2>1, <2>2
  <2>4. t \in ScannerType
    BY <2>2, <2>3, StaleIs
  <2>5. w \in ScannerType /\ w.tokens = t.tokens /\ w.indents = t.indents
    BY <1>6, <2>4 DEF ScannerType
  <2>6. Even(b, w)
    BY <2>2, <2>3, <2>5, ElsewhereEven
  <2> QED
    BY <2>2, <2>6, EvenOn
<1>7. CASE v \in QuotedOnLine(u)
  BY <1>6, <1>7 DEF QuotedOnLine
<1>8. CASE v \in QuotedOverLines(u)
  <2>1. PICK c \in Columns \ {0} :
          v = [a EXCEPT !.column = c, !.inside = TRUE, !.plain = FALSE]
    BY <1>1, <1>3, <1>8 DEF QuotedOverLines
  <2>2. v \in ScannerType /\ v.tokens = a.tokens /\ v.indents = a.indents
    BY <1>4, <2>1 DEF ScannerType
  <2> QED
    BY <1>5, <2>2
<1>9. CASE v \in ScanPlainScalar(u)
  <2>1. PICK t \in PlainOnLine(u) \cup PlainOverLines(u) : v = [t EXCEPT !.plain = TRUE]
    BY <1>9 DEF ScanPlainScalar
  <2>2. CASE t \in PlainOnLine(u)
    BY <1>6, <2>1, <2>2 DEF PlainOnLine
  <2>3. CASE t \in PlainOverLines(u)
    <3>1. PICK inside : inside \in BOOLEAN /\ inside = (FlowLevel(u) > 0)
      <4>1. (FlowLevel(u) > 0) \in BOOLEAN
        OBVIOUS
      <4> QED
        BY <4>1, Zenon
    <3>2. PICK broken : broken = [a EXCEPT !.inside = TRUE]
      OBVIOUS
    <3>3. \/ \E c \in Columns \ {0} : t = [broken EXCEPT !.column = c]
          \/ \E c \in Columns : t = [broken EXCEPT !.column = c,
                      !.inside = inside, !.simple_key_allowed = TRUE]
      BY <1>1, <1>3, <2>3, <3>1, <3>2 DEF PlainOverLines
    <3>4. PICK c \in Nat :
            \/ t = [broken EXCEPT !.column = c]
            \/ t = [broken EXCEPT !.column = c, !.inside = inside, !.simple_key_allowed = TRUE]
      BY <1>4, <3>3
    <3>5. /\ broken \in ScannerType /\ broken.tokens = a.tokens /\ broken.indents = a.indents
      BY <1>4, <3>2 DEF ScannerType
    <3>6. t \in ScannerType /\ t.tokens = broken.tokens /\ t.indents = broken.indents
      BY <3>1, <3>4, <3>5 DEF ScannerType
    <3>7. v \in ScannerType /\ v.tokens = t.tokens /\ v.indents = t.indents
      BY <2>1, <3>6 DEF ScannerType
    <3> QED
      BY <1>5, <3>5, <3>6, <3>7
  <2> QED
    BY <2>1, <2>2, <2>3
<1> QED
  BY <1>7, <1>8, <1>9 DEF ScanFlowScalar

LEMMA ScalarSavedEven ==
  ASSUME NEW s \in ScannerType, s.keys # <<>>,
         NEW t, t = Enqueue([SaveSimpleKey(s) EXCEPT !.simple_key_allowed = FALSE], "SCALAR")
  PROVE  Even(s, t)
<1>1. PICK a : a = SaveSimpleKey(s)
  OBVIOUS
<1>2. PICK c : c = [a EXCEPT !.simple_key_allowed = FALSE]
  OBVIOUS
<1>3. t = Enqueue(c, "SCALAR")
  BY <1>1, <1>2
<1>4. Even(s, a) /\ a \in ScannerType
  BY <1>1, SaveEven DEF Even
<1>5. Even(a, c) /\ c \in ScannerType
  BY <1>2, <1>4, AllowedEven DEF Even
<1>6. Even(c, t)
  <2>1. "SCALAR" \in Neutral
    BY DEF Neutral, TokenTypes, KeyStarts, BlockStarts
  <2> QED
    BY <1>3, <1>5, <2>1, EnqueueEven
<1> QED
  BY <1>4, <1>5, <1>6, EvenOn

LEMMA BlockScalarEven ==
  ASSUME text.columns \in Nat, NEW s \in ScannerType, s.keys # <<>>,
         NEW v \in ScanBlockScalar(Enqueue([RemoveSimpleKey(s)
                                              EXCEPT !.simple_key_allowed = TRUE], "SCALAR"))
  PROVE  Even(s, v)
<1>1. PICK a : a = RemoveSimpleKey(s)
  OBVIOUS
<1>2. PICK c : c = [a EXCEPT !.simple_key_allowed = TRUE]
  OBVIOUS
<1>3. PICK d : d = Enqueue(c, "SCALAR")
  OBVIOUS
<1>4. v \in ScanBlockScalar(d)
  BY <1>1, <1>2, <1>3
<1>5. Even(s, a) /\ a \in ScannerType
  BY <1>1, RemoveEven DEF Even
<1>6. Even(a, c) /\ c \in ScannerType
  BY <1>2, <1>5, AllowedEven DEF Even
<1>7. Even(c, d) /\ d \in ScannerType
  <2>1. "SCALAR" \in Neutral
    BY DEF Neutral, TokenTypes, KeyStarts, BlockStarts
  <2> QED
    BY <1>3, <1>6, <2>1, EnqueueEven DEF Even
<1>8. Even(d, v)
  <2>1. PICK t \in BlockScalarBreaks(d) : v = [t EXCEPT !.inside = FALSE, !.plain = FALSE]
    BY <1>4 DEF ScanBlockScalar
  <2>2. PICK k \in Columns : t = [d EXCEPT !.column = k]
    BY <2>1 DEF BlockScalarBreaks
  <2>3. k \in Nat
    BY <2>2 DEF Columns
  <2>4. t \in ScannerType /\ t.tokens = d.tokens /\ t.indents = d.indents
    BY <1>7, <2>2, <2>3 DEF ScannerType
  <2>5. v \in ScannerType /\ v.tokens = t.tokens /\ v.indents = t.indents
    BY <2>1, <2>4 DEF ScannerType
  <2> QED
    BY <1>7, <2>4, <2>5, SameEven
<1> QED
  BY <1>5, <1>6, <1>7, <1>8, EvenOn

LEMMA ScanEven ==
  ASSUME text.columns \in Nat, NEW s \in ScannerType, NEW t \in ScanToNextToken(s)
  PROVE  Even(s, t)
<1>1. s.column \in Nat /\ Columns \subseteq Nat /\ Len(s.keys) \in Nat
  BY DEF Columns, ScannerType
<1>2. CASE t \in SameLine(s)
  <2>1. PICK n \in TooFar(s), c \in FurtherOn(s) : t = FurtherAt(s, n, c)
    BY <1>2 DEF SameLine
  <2>2. n \in 0..Len(s.keys) /\ c \in Nat
    <3>1. n \in 0..Len(s.keys)
      BY <2>1 DEF TooFar
    <3>2. CASE FlowLevel(s) > 0
      BY <1>1, <2>1, <3>1, <3>2 DEF FurtherOn
    <3>3. CASE ~ (FlowLevel(s) > 0)
      BY <1>1, <2>1, <3>1, <3>3 DEF FurtherOn
    <3> QED
      BY <3>2, <3>3
  <2>3. PICK a : a = StaleSimpleKeys(s, n)
    OBVIOUS
  <2>4. a \in ScannerType
    BY <2>2, <2>3, StaleIs
  <2>5. PICK plain \in BOOLEAN : plain = (a.plain /\ (FlowLevel(s) > 0 \/ c > Indent(s)))
    OBVIOUS
  <2>6. t = [a EXCEPT !.column = c, !.plain = plain]
    BY <2>1, <2>3, <2>5 DEF FurtherAt
  <2>7. t \in ScannerType /\ t.tokens = a.tokens /\ t.indents = a.indents
    BY <2>2, <2>4, <2>6 DEF ScannerType
  <2> QED
    BY <2>2, <2>3, <2>7, ElsewhereEven
<1>3. CASE t \in NewLine(s)
  <2>1. PICK n : n = Len(s.keys)
    OBVIOUS
  <2>2. n \in 0..Len(s.keys)
    BY <1>1, <2>1
  <2>3. PICK a : a = StaleSimpleKeys(s, n)
    OBVIOUS
  <2>4. a \in ScannerType
    BY <2>2, <2>3, StaleIs
  <2>5. PICK inside, allowed :
          /\ inside \in BOOLEAN /\ inside = (FlowLevel(s) > 0)
          /\ allowed \in BOOLEAN /\ allowed = (a.simple_key_allowed \/ FlowLevel(s) = 0)
    <3>1. /\ (FlowLevel(s) > 0) \in BOOLEAN
          /\ (a.simple_key_allowed \/ FlowLevel(s) = 0) \in BOOLEAN
      OBVIOUS
    <3> QED
      BY <3>1, Zenon
  <2>6. PICK c \in Columns : t = [a EXCEPT !.column = c, !.simple_key_allowed = allowed,
                                           !.inside = inside, !.plain = FALSE]
    BY <1>3, <2>1, <2>3, <2>5 DEF NewLine
  <2>7. t \in ScannerType /\ t.tokens = a.tokens /\ t.indents = a.indents
    BY <1>1, <2>4, <2>5, <2>6 DEF ScannerType
  <2> QED
    BY <2>2, <2>3, <2>7, ElsewhereEven
<1> QED
  BY <1>2, <1>3 DEF ScanToNextToken

LEMMA FailedError == ASSUME NEW s, NEW error PROVE Failed(s, error).error = error
<1>1. NoScanner \in ScannerType
  BY NoScannerGood DEF Good
<1> QED
  BY <1>1 DEF Failed, ScannerType

LEMMA BecomesEven ==
  ASSUME NEW s, NEW t, Even(s, t), Becomes(t), scanner'.error = "none" PROVE Even(s, scanner')
<1>1. CASE t.error = "none"
  BY <1>1 DEF Becomes
<1>2. CASE t.error # "none"
  <2>1. scanner' = Failed(t, t.error)
    BY <1>2 DEF Becomes
  <2>2. scanner'.error = t.error
    BY <2>1, FailedError
  <2> QED
    BY <1>2, <2>2
<1> QED
  BY <1>1, <1>2

LEMMA FetchEven ==
  ASSUME text.columns \in Nat, NEW s, Ready(s), Fetch(s), scanner'.error = "none"
  PROVE  Even(s, scanner')
<1>1. s \in ScannerType /\ s.keys # <<>> /\ InPlace(s)
  BY ReadyFacts
<1>2. CASE FetchStreamEnd(s)
  <2>1. PICK n, r : n = Len(s.keys) /\ r = Reset(s)
    OBVIOUS
  <2>2. PICK u : u = [r EXCEPT !.column = 0, !.ended = TRUE, !.plain = FALSE]
    OBVIOUS
  <2>3. PICK t : t = StaleSimpleKeys(Enqueue(u, "STREAM-END"), n)
    OBVIOUS
  <2>4. Becomes(t)
    BY <1>2, <2>1, <2>2, <2>3 DEF FetchStreamEnd
  <2>5. Even(s, t)
    BY <1>1, <2>1, <2>2, <2>3, StreamEndEven
  <2> QED
    BY <2>4, <2>5, BecomesEven
<1>3. CASE FetchDirective(s)
  <2>1. PICK type \in VersionDirective \cup TagDirective :
          Becomes(ScanDirective(Enqueue(Reset(s), type)))
    BY <1>3 DEF FetchDirective
  <2>2. type \in Neutral
    BY DEF VersionDirective, TagDirective, Neutral, TokenTypes, Directives, BlockStarts
  <2>3. PICK t : t = ScanDirective(Enqueue(Reset(s), type))
    OBVIOUS
  <2>4. Even(s, t)
    BY <1>1, <2>2, <2>3, DirectiveEven
  <2> QED
    BY <2>1, <2>3, <2>4, BecomesEven
<1>4. CASE FetchDocumentIndicator(s)
  <2>1. PICK type \in {"DOCUMENT-START", "DOCUMENT-END"} :
          Becomes(Behind(Enqueue(Reset(s), type)))
    BY <1>4 DEF FetchDocumentIndicator
  <2>2. type \in Neutral
    BY DEF Neutral, TokenTypes, BlockStarts
  <2>3. PICK t : t = Behind(Enqueue(Reset(s), type))
    OBVIOUS
  <2>4. Even(s, t)
    BY <1>1, <2>2, <2>3, DocumentIndicatorEven
  <2> QED
    BY <2>1, <2>3, <2>4, BecomesEven
<1>5. CASE FetchFlowCollectionStart(s)
  <2>1. PICK type \in {"FLOW-SEQUENCE-START", "FLOW-MAPPING-START"} :
          Becomes(Enqueue([IncreaseFlowLevel(Behind(SaveSimpleKey(s)))
                            EXCEPT !.simple_key_allowed = TRUE], type))
    BY <1>5 DEF FetchFlowCollectionStart
  <2>2. type \in Neutral
    BY DEF Neutral, TokenTypes, KeyStarts, BlockStarts
  <2>3. PICK t : t = Enqueue([IncreaseFlowLevel(Behind(SaveSimpleKey(s)))
                               EXCEPT !.simple_key_allowed = TRUE], type)
    OBVIOUS
  <2>4. Even(s, t)
    BY <1>1, <2>2, <2>3, FlowStartEven
  <2> QED
    BY <2>1, <2>3, <2>4, BecomesEven
<1>6. CASE FetchFlowCollectionEnd(s)
  <2>1. PICK type \in {"FLOW-SEQUENCE-END", "FLOW-MAPPING-END"} :
          Becomes(Enqueue([DecreaseFlowLevel(Behind(RemoveSimpleKey(s)))
                            EXCEPT !.simple_key_allowed = FALSE], type))
    BY <1>6 DEF FetchFlowCollectionEnd
  <2>2. type \in Neutral
    BY DEF Neutral, TokenTypes, BlockStarts
  <2>3. PICK t : t = Enqueue([DecreaseFlowLevel(Behind(RemoveSimpleKey(s)))
                               EXCEPT !.simple_key_allowed = FALSE], type)
    OBVIOUS
  <2>4. Even(s, t)
    BY <1>1, <2>2, <2>3, FlowEndEven
  <2> QED
    BY <2>1, <2>3, <2>4, BecomesEven
<1>7. CASE FetchFlowEntry(s)
  <2>1. PICK t : t = Enqueue([Behind(RemoveSimpleKey(s)) EXCEPT !.simple_key_allowed = TRUE],
                             "FLOW-ENTRY")
    OBVIOUS
  <2>2. Becomes(t)
    BY <1>7, <2>1 DEF FetchFlowEntry
  <2>3. "FLOW-ENTRY" \in Neutral /\ TRUE \in BOOLEAN
    BY DEF Neutral, TokenTypes, BlockStarts
  <2>4. Even(s, t)
    BY <1>1, <2>1, <2>3, FlowEntryEven
  <2> QED
    BY <2>2, <2>4, BecomesEven
<1>8. CASE FetchBlockEntry(s)
  <2>1. PICK t : t = Enqueue([Behind(RemoveSimpleKey(RollIndent(Allowed(s), s.column, Len(s.tokens),
                                                                "BLOCK-SEQUENCE-START")))
                               EXCEPT !.simple_key_allowed = TRUE], "BLOCK-ENTRY")
    OBVIOUS
  <2>2. Becomes(t)
    BY <1>8, <2>1 DEF FetchBlockEntry
  <2>3. "BLOCK-SEQUENCE-START" \in BlockStarts /\ "BLOCK-ENTRY" \in Neutral /\ TRUE \in BOOLEAN
    BY DEF Neutral, TokenTypes, BlockStarts
  <2>4. Even(s, t)
    BY <1>1, <2>1, <2>3, BlockEntryEven
  <2> QED
    BY <2>2, <2>4, BecomesEven
<1>9. CASE FetchKey(s)
  <2>1. PICK allowed \in BOOLEAN : allowed = (FlowLevel(s) = 0)
    OBVIOUS
  <2>2. PICK t : t = Enqueue([Behind(RemoveSimpleKey(RollIndent(Allowed(s), s.column, Len(s.tokens),
                                                                "BLOCK-MAPPING-START")))
                               EXCEPT !.simple_key_allowed = allowed], "KEY")
    OBVIOUS
  <2>3. Becomes(t)
    BY <1>9, <2>1, <2>2 DEF FetchKey
  <2>4. "BLOCK-MAPPING-START" \in BlockStarts /\ "KEY" \in Neutral
    BY DEF Neutral, TokenTypes, BlockStarts
  <2>5. Even(s, t)
    BY <1>1, <2>1, <2>2, <2>4, BlockEntryEven
  <2> QED
    BY <2>3, <2>5, BecomesEven
<1>10. CASE FetchValue(s)
  <2>1. PICK t : t = IF Last(s.keys).possible THEN SimpleValue(s) ELSE ComplexValue(s)
    OBVIOUS
  <2>2. PICK d : d = Enqueue(Behind(t), "VALUE")
    OBVIOUS
  <2>3. Becomes(d)
    BY <1>10, <2>1, <2>2 DEF FetchValue
  <2>4. Even(s, d)
    BY <1>1, <2>1, <2>2, SimpleEven, ComplexEven
  <2> QED
    BY <2>3, <2>4, BecomesEven
<1>11. CASE FetchAnchor(s) \/ FetchTag(s)
  <2>1. PICK type \in ScanAnchor \cup ScanTag : Becomes(Enqueue(KeyStart(s), type))
    BY <1>11 DEF FetchAnchor, FetchTag
  <2>2. type \in Neutral
    BY DEF ScanAnchor, ScanTag, ScanTagHandle, Neutral, TokenTypes, KeyStarts, BlockStarts
  <2>3. PICK t : t = Enqueue(KeyStart(s), type)
    OBVIOUS
  <2>4. Even(s, t)
    BY <1>1, <2>2, <2>3, KeyStartEven
  <2> QED
    BY <2>1, <2>3, <2>4, BecomesEven
<1>12. CASE FetchBlockScalar(s)
  <2>1. PICK t \in ScanBlockScalar(Enqueue([RemoveSimpleKey(s)
                                              EXCEPT !.simple_key_allowed = TRUE], "SCALAR")) :
          Becomes(t)
    BY <1>12 DEF FetchBlockScalar
  <2>2. Even(s, t)
    BY <1>1, <2>1, BlockScalarEven
  <2> QED
    BY <2>1, <2>2, BecomesEven
<1>13. CASE FetchScalar(s)
  <2>1. PICK u : u = Enqueue([SaveSimpleKey(s) EXCEPT !.simple_key_allowed = FALSE], "SCALAR")
    OBVIOUS
  <2>2. PICK v \in IF u.error = "none" THEN ScanFlowScalar(u) \cup ScanPlainScalar(u) ELSE {u} :
          Becomes(v)
    BY <1>13, <2>1 DEF FetchScalar
  <2>3. Even(s, u) /\ u \in ScannerType
    BY <1>1, <2>1, ScalarSavedEven DEF Even
  <2>4. Even(u, v)
    <3>1. CASE u.error = "none"
      BY <2>2, <2>3, <3>1, ScalarEven
    <3>2. CASE u.error # "none"
      BY <2>2, <2>3, <3>2, SameEven
    <3> QED
      BY <3>1, <3>2
  <2> QED
    BY <2>2, <2>3, <2>4, EvenOn, BecomesEven
<1> QED
  BY <1>2, <1>3, <1>4, <1>5, <1>6, <1>7, <1>8, <1>9, <1>10, <1>11, <1>12, <1>13 DEF Fetch

\* Whatever the scanner fetches, its blocks and those of the queue stay even.
LEMMA FetchMoreEven ==
  ASSUME text \in Texts, Good(scanner), FetchMoreTokens, scanner'.error = "none"
  PROVE  Even(scanner, scanner')
<1>1. scanner.error = "none" /\ FetchNextToken
  BY DEF FetchMoreTokens
<1>2. text.columns \in Nat /\ scanner \in ScannerType
  BY YamlScannerAssumption DEF Good
<1>3. CASE FetchStreamStart
  <2>1. PICK k : k = <<NoKey>>
    OBVIOUS
  <2>2. PICK t : t = [scanner EXCEPT !.keys = k, !.simple_key_allowed = TRUE]
    OBVIOUS
  <2>3. PICK d : d = Enqueue(t, "STREAM-START")
    OBVIOUS
  <2>4. Becomes(d)
    BY <1>3, <2>1, <2>2, <2>3 DEF FetchStreamStart
  <2>5. k \in Seq(KeyType)
    BY <2>1, NoKeyType
  <2>6. t.tokens = scanner.tokens /\ t.indents = scanner.indents
    BY <1>2, <2>2 DEF ScannerType
  <2>7. t \in ScannerType
    BY <1>2, <2>2, <2>5, Zenon DEF ScannerType
  <2>8. Even(scanner, t)
    BY <1>2, <2>6, <2>7, SameEven
  <2>9. "STREAM-START" \in Neutral
    BY DEF Neutral, TokenTypes, BlockStarts
  <2>10. Even(t, d)
    BY <2>3, <2>7, <2>9, EnqueueEven
  <2> QED
    BY <2>4, <2>8, <2>10, EvenOn, BecomesEven
<1>4. CASE ScanFails
  BY <1>4, FailedError DEF ScanFails
<1>5. CASE scanner.keys # <<>> /\ \E at \in ScanToNextToken(scanner) :
               Fetch(UnrollIndent(at, at.column))
  <2>1. PICK at \in ScanToNextToken(scanner) : Fetch(UnrollIndent(at, at.column))
    BY <1>5
  <2>2. PICK s : s = UnrollIndent(at, at.column)
    OBVIOUS
  <2>3. Ready(s)
    BY <1>1, <1>2, <1>5, <2>2, ScanReady
  <2>4. Even(scanner, at) /\ at \in ScannerType
    BY <1>2, <2>1, ScanEven DEF Even
  <2>5. PICK c : c = at.column
    OBVIOUS
  <2>6. c \in Int /\ c >= -1
    BY <2>4, <2>5 DEF ScannerType
  <2>7. Even(at, s)
    BY <2>2, <2>4, <2>5, <2>6, UnrollEven
  <2>8. Even(s, scanner')
    BY <1>2, <2>1, <2>2, <2>3, FetchEven
  <2> QED
    BY <2>4, <2>7, <2>8, EvenOn
<1> QED
  BY <1>1, <1>3, <1>4, <1>5 DEF FetchNextToken, Fetch

Blocks     == {"BLOCK-SEQUENCE-ENTRY", "BLOCK-MAPPING-KEY", "BLOCK-MAPPING-VALUE"}
BlockFirst == {"BLOCK-SEQUENCE-FIRST-ENTRY", "BLOCK-MAPPING-FIRST-KEY"}

\* The block collections that the parser is in: those around, and its own.
OwnBlock ==
    /\ ~ InNode
    /\ state \in Blocks \/ (state \in BlockFirst /\ pc \in {"entry", "item"})
Depth == Count(states, Blocks) + (IF OwnBlock THEN 1 ELSE 0)

\* The first call in a collection is the one that takes its start token.
StartAhead ==
    state \in First /\ pc \in {"idle", "state"} =>
        /\ ~ NeedMoreTokens(scanner)
        /\ Weight(Token) = IF state \in BlockFirst THEN 1 ELSE 0

BlocksInv == scanner.error = "none" => Balance(scanner) = Depth /\ StartAhead

-----------------------------------------------------------------------------
(* What a step of the parser does to the blocks it is in.                  *)

Takes(types) == Available /\ SkipToken /\ Token \in types

\* It takes no token, or one that neither starts nor ends a block, and the
\* collection that it is in stays the same,
Calm   == UNCHANGED scanner \/ Takes(Neutral)
Begun  == state' \in First => pc' \notin {"idle", "state"}
Rests  == Calm /\ Begun /\ UNCHANGED states /\ OwnBlock' = OwnBlock

\* or waits on the stack for a node, or, without a block of its own, returns;
Nested == /\ Calm /\ Begun /\ ~ OwnBlock'
          /\ \E next \in Pushed :
                states' = Append(states, next) /\ (OwnBlock <=> next \in Blocks)
Leaves == state \in Inner /\ Pop /\ pc' = "idle"
Returns == Calm /\ ~ OwnBlock /\ Leaves

\* or it takes the end of its block and leaves it.
Ended == Takes({"BLOCK-END"}) /\ OwnBlock /\ Leaves

QuietStep == scanner' = Failed(scanner, "parser") \/ Rests \/ Nested \/ Returns \/ Ended

USE DEF Outer, Inner, Pushed, HasMark, First, Starting, PCs,
        At, AtEntry, AtNode, Goto, Emit, Keep

LEMMA QuietCollections ==
  ASSUME ParserInv
  PROVE  /\ ParseBlockSequenceEntry => QuietStep
         /\ ParseIndentlessSequenceEntry => QuietStep
         /\ ParseBlockMappingKey => QuietStep
         /\ ParseBlockMappingValue => QuietStep
         /\ ParseFlowSequenceEntry => QuietStep
         /\ ParsePairKey => QuietStep
         /\ ParsePairValue => QuietStep
         /\ ParsePairEnd => QuietStep
         /\ ParseFlowMappingKey => QuietStep
         /\ ParseFlowMappingValue => QuietStep
<1>1. {"BLOCK-ENTRY", "KEY", "VALUE", "FLOW-ENTRY", "FLOW-SEQUENCE-END", "FLOW-MAPPING-END"}
        \subseteq Neutral
  BY DEF Neutral, TokenTypes, BlockStarts
<1> USE <1>1 DEF QuietStep, Calm, Begun, Rests, Nested, Leaves, Returns, Ended, Takes,
            OwnBlock, InNode, Blocks, BlockFirst, ParserError,
            SkipIndicator, SkipAndSee, Item, ParseNode, EnterNode,
            ProcessEmptyScalar, CloseCollection
<1>2. ParseBlockSequenceEntry => QuietStep
  BY DEF ParseBlockSequenceEntry
<1>3. ParseIndentlessSequenceEntry => QuietStep
  BY DEF ParseIndentlessSequenceEntry
<1>4. ParseBlockMappingKey => QuietStep
  BY DEF ParseBlockMappingKey
<1>5. ParseBlockMappingValue => QuietStep
  BY DEF ParseBlockMappingValue
<1>6. ParseFlowSequenceEntry => QuietStep
  BY DEF ParseFlowSequenceEntry
<1>7. ParsePairKey => QuietStep
  BY DEF ParsePairKey
<1>8. ParsePairValue => QuietStep
  BY DEF ParsePairValue
<1>9. ParsePairEnd => QuietStep
  BY DEF ParsePairEnd
<1>10. ParseFlowMappingKey => QuietStep
  BY DEF ParseFlowMappingKey
<1>11. ParseFlowMappingValue => QuietStep
  BY DEF ParseFlowMappingValue
<1> QED
  BY <1>2, <1>3, <1>4, <1>5, <1>6, <1>7, <1>8, <1>9, <1>10, <1>11

LEMMA QuietOutside ==
  ASSUME ParserInv
  PROVE  /\ ParseStreamStart => QuietStep
         /\ ImplicitDocument => QuietStep
         /\ ExplicitDocument => QuietStep
         /\ ProcessDirective => QuietStep
         /\ SkipDocumentEnd => QuietStep
         /\ NoDocument => QuietStep
         /\ StreamEnd => QuietStep
         /\ ParseDocumentContent => QuietStep
         /\ ParseDocumentEnd => QuietStep
<1>1. Directives \cup {"STREAM-START", "STREAM-END", "DOCUMENT-START", "DOCUMENT-END"}
        \subseteq Neutral
  BY DEF Neutral, TokenTypes, Directives, BlockStarts
<1> USE <1>1 DEF QuietStep, Calm, Begun, Rests, Nested, Leaves, Returns, Ended, Takes,
            OwnBlock, InNode, Blocks, BlockFirst, ParserError, SkipAndSee,
            EnterNode, StartDocument
<1>2. ParseStreamStart => QuietStep
  BY DEF ParseStreamStart
<1>3. ImplicitDocument => QuietStep
  BY DEF ImplicitDocument
<1>4. ExplicitDocument => QuietStep
  BY DEF ExplicitDocument
<1>5. ProcessDirective => QuietStep
  BY DEF ProcessDirective
<1>6. SkipDocumentEnd => QuietStep
  BY DEF SkipDocumentEnd
<1>7. NoDocument => QuietStep
  BY DEF NoDocument
<1>8. StreamEnd => QuietStep
  BY DEF StreamEnd
<1>9. ParseDocumentContent => QuietStep
  BY DEF ParseDocumentContent
<1>10. ParseDocumentEnd => QuietStep
  BY DEF ParseDocumentEnd
<1> QED
  BY <1>2, <1>3, <1>4, <1>5, <1>6, <1>7, <1>8, <1>9, <1>10

LEMMA QuietNodes ==
  ASSUME ParserInv
  PROVE  /\ NodeAlias => QuietStep
         /\ NodeProperty => QuietStep
         /\ NodeScalar => QuietStep
         /\ NodeOther => QuietStep
         /\ UndefinedTag => QuietStep
<1>1. {"ALIAS", "ANCHOR", "TAG", "NAMED-TAG", "SCALAR"} \subseteq Neutral
  BY DEF Neutral, TokenTypes, KeyStarts, BlockStarts
<1>2. pc = "node" => ~ OwnBlock /\ state \in Inner
  BY DEF OwnBlock, InNode, Blocks, BlockFirst, ParserInv, Nesting
<1> USE <1>1, <1>2 DEF QuietStep, Calm, Begun, Rests, Nested, Leaves, Returns, Ended, Takes,
            ParserError, Content
<1>3. NodeAlias => QuietStep
  BY DEF NodeAlias
<1>4. NodeProperty => QuietStep
  BY DEF NodeProperty, OwnBlock, InNode
<1>5. NodeScalar => QuietStep
  BY DEF NodeScalar
<1>6. NodeOther => QuietStep
  BY DEF NodeOther
<1>7. UndefinedTag => QuietStep
  BY DEF UndefinedTag
<1> QED
  BY <1>3, <1>4, <1>5, <1>6, <1>7

LEMMA SkipBalance ==
  ASSUME scanner \in ScannerType, Available, SkipToken
  PROVE  /\ Balance(scanner) \in Int /\ Token \in TokenTypes
         /\ Balance(scanner') = Balance(scanner) + Weight(Token)
<1>1. PICK seq, w, type : seq = scanner.tokens /\ w = Tail(seq) /\ type = Head(seq)
  OBVIOUS
<1>2. PICK k : k = [i \in DOMAIN scanner.keys |-> MovedUp(scanner.keys[i])]
  OBVIOUS
<1>3. scanner' = [scanner EXCEPT !.tokens = w, !.keys = k]
  BY <1>1, <1>2 DEF SkipToken
<1>4. PICK t : t = scanner'
  OBVIOUS
<1>5. t.tokens = w /\ t.indents = scanner.indents
  BY <1>3, <1>4 DEF ScannerType
<1>6. seq \in Seq(TokenTypes) /\ seq # <<>>
  BY <1>1 DEF ScannerType, Available, NeedMoreTokens
<1>7. type \in TokenTypes /\ type = Token
  BY <1>1, <1>6, HeadTailProperties DEF Token
<1>8. Surplus(w) \in Int /\ Surplus(seq) = Weight(type) + Surplus(w)
  BY <1>1, <1>6, SurplusTail
<1>9. Weight(type) \in Int /\ Len(scanner.indents) \in Nat
  BY DEF Weight, ScannerType
<1>10. Balance(scanner) = Len(scanner.indents) - Surplus(seq)
  BY <1>1 DEF Balance
<1>11. Balance(t) = Len(scanner.indents) - Surplus(w)
  BY <1>5 DEF Balance
<1>12. Balance(scanner) \in Int /\ Balance(t) = Balance(scanner) + Weight(type)
  BY <1>8, <1>9, <1>10, <1>11
<1> QED
  BY <1>4, <1>7, <1>12

LEMMA StatesPushed ==
  ASSUME NEW S, NEW seq \in Seq(S), NEW next \in S
  PROVE  /\ Count(seq, Blocks) \in Nat
         /\ Count(Append(seq, next), Blocks) =
                Count(seq, Blocks) + IF next \in Blocks THEN 1 ELSE 0
<1>1. PICK one : one = <<next>>
  OBVIOUS
<1>2. one \in Seq(S) /\ Append(seq, next) = seq \o one
  BY <1>1, AppendIsConcat
<1>3. Count(seq \o one, Blocks) = Count(seq, Blocks) + Count(one, Blocks)
  BY <1>2, CountBoth
<1>4. Count(one, Blocks) = IF next \in Blocks THEN 1 ELSE 0
  BY <1>1, CountOne
<1> QED
  BY <1>2, <1>3, <1>4, CountNat

LEMMA StatesPopped ==
  ASSUME NEW seq \in Seq(Pushed), seq # <<>>, NEW rest, rest = Front(seq), NEW top, top = Last(seq)
  PROVE  /\ Count(rest, Blocks) \in Nat
         /\ Count(seq, Blocks) = Count(rest, Blocks) + IF top \in Blocks THEN 1 ELSE 0
<1>1. rest \in Seq(Pushed) /\ top \in Pushed
  BY FrontFacts
<1>2. seq = Append(rest, top)
  BY AppendFront
<1> QED
  BY <1>1, <1>2, StatesPushed

\* The state that waits on the stack is counted there, as it was before.
LEMMA DepthPopped ==
  ASSUME ParserInv, Leaves
  PROVE  /\ Depth \in Nat /\ state' \notin First
         /\ Depth' = Depth - IF OwnBlock THEN 1 ELSE 0
<1>1. PICK seq, rest, top : seq = states /\ rest = Front(states) /\ top = Last(states)
  OBVIOUS
<1>2. seq \in Seq(Pushed) /\ seq # <<>>
  BY <1>1 DEF Leaves, ParserInv, ParserTypes, Nesting
<1>3. top \in Pushed
  BY <1>1, <1>2, FrontFacts
<1>4. /\ Count(rest, Blocks) \in Nat
      /\ Count(seq, Blocks) = Count(rest, Blocks) + IF top \in Blocks THEN 1 ELSE 0
  BY <1>1, <1>2, StatesPopped
<1>5. state' = top /\ states' = rest
  BY <1>1 DEF Leaves, Pop
<1>6. OwnBlock' <=> top \in Blocks
  BY <1>3, <1>5 DEF Leaves, OwnBlock, InNode, Blocks, BlockFirst
<1>7. Depth' = Count(seq, Blocks)
  <2>1. CASE top \in Blocks
    BY <1>4, <1>5, <1>6, <2>1 DEF Depth
  <2>2. CASE top \notin Blocks
    BY <1>4, <1>5, <1>6, <2>2 DEF Depth
  <2> QED
    BY <2>1, <2>2
<1>8. Count(seq, Blocks) \in Nat
  BY <1>4
<1>9. Depth = Count(seq, Blocks) + IF OwnBlock THEN 1 ELSE 0
  BY <1>1 DEF Depth
<1>10. state' \notin First
  BY <1>3, <1>5
<1>11. Depth \in Nat /\ Depth' = Depth - IF OwnBlock THEN 1 ELSE 0
  BY <1>7, <1>8, <1>9
<1> QED
  BY <1>10, <1>11

LEMMA DepthPushed ==
  ASSUME ParserInv, NEW next \in Pushed, states' = Append(states, next),
         OwnBlock <=> next \in Blocks, ~ OwnBlock'
  PROVE  Depth' = Depth
<1>1. PICK seq, more : seq = states /\ more = Append(states, next)
  OBVIOUS
<1>2. seq \in Seq(Pushed)
  BY <1>1 DEF ParserInv, ParserTypes
<1>3. /\ Count(seq, Blocks) \in Nat
      /\ Count(more, Blocks) = Count(seq, Blocks) + IF next \in Blocks THEN 1 ELSE 0
  BY <1>1, <1>2, StatesPushed
<1>4. Depth' = Count(more, Blocks)
  <2>1. Depth' = Count(more, Blocks) + 0
    BY <1>1 DEF Depth
  <2>2. Count(more, Blocks) \in Nat
    BY <1>3
  <2> QED
    BY <2>1, <2>2
<1>5. Depth = Count(seq, Blocks) + IF next \in Blocks THEN 1 ELSE 0
  BY <1>1 DEF Depth
<1> QED
  BY <1>3, <1>4, <1>5

\* The queue that a step leaves behind is as even as the one before.
LEMMA NeutralBalance ==
  ASSUME scanner \in ScannerType, Calm, scanner'.error = "none"
  PROVE  scanner.error = "none" /\ Balance(scanner') = Balance(scanner)
<1>1. CASE UNCHANGED scanner
  BY <1>1
<1>2. CASE Takes(Neutral)
  <2>1. Available /\ SkipToken /\ Token \in Neutral
    BY <1>2 DEF Takes
  <2>2. Weight(Token) = 0
    BY <2>1 DEF Weight, Neutral
  <2>3. Balance(scanner) \in Int /\ Balance(scanner') = Balance(scanner) + Weight(Token)
    BY <2>1, SkipBalance
  <2> QED
    BY <2>1, <2>2, <2>3 DEF Available
<1> QED
  BY <1>1, <1>2 DEF Calm

LEMMA QuietKeeps ==
  ASSUME ParserInv, scanner \in ScannerType, BlocksInv, QuietStep PROVE BlocksInv'
<1> SUFFICES ASSUME scanner'.error = "none" PROVE Balance(scanner') = Depth' /\ StartAhead'
  BY DEF BlocksInv
<1>1. scanner' # Failed(scanner, "parser")
  BY FailedError
<1>2. Calm => Balance(scanner') = Depth
  BY NeutralBalance DEF BlocksInv
<1>3. CASE Rests
  <2>1. Depth' = Depth
    BY <1>3 DEF Rests, Depth
  <2> QED
    BY <1>2, <1>3, <2>1 DEF Rests, Begun, StartAhead
<1>4. CASE Nested
  <2>1. PICK next \in Pushed : states' = Append(states, next) /\ (OwnBlock <=> next \in Blocks)
    BY <1>4 DEF Nested
  <2>2. Depth' = Depth
    BY <1>4, <2>1, DepthPushed DEF Nested
  <2> QED
    BY <1>2, <1>4, <2>2 DEF Nested, Begun, StartAhead
<1>5. CASE Returns
  <2>1. Depth \in Nat /\ state' \notin First /\ Depth' = Depth - 0
    BY <1>5, DepthPopped DEF Returns
  <2>2. Depth' = Depth
    BY <2>1
  <2> QED
    BY <1>2, <1>5, <2>1, <2>2 DEF Returns, StartAhead
<1>6. CASE Ended
  <2>1. Depth \in Nat /\ state' \notin First /\ Depth' = Depth - 1
    BY <1>6, DepthPopped DEF Ended
  <2>2. Available /\ SkipToken /\ Token = "BLOCK-END"
    BY <1>6 DEF Ended, Takes
  <2>3. Balance(scanner) \in Int /\ Balance(scanner') = Balance(scanner) + Weight(Token)
    BY <2>2, SkipBalance
  <2>4. Weight(Token) = -1
    BY <2>2 DEF Weight, BlockStarts
  <2>5. Balance(scanner) = Depth
    BY <2>2 DEF BlocksInv, Available
  <2>6. Balance(scanner') = Depth'
    BY <2>1, <2>3, <2>4, <2>5
  <2> QED
    BY <2>1, <2>6 DEF StartAhead
<1> QED
  BY <1>1, <1>3, <1>4, <1>5, <1>6 DEF QuietStep

\* A call: if it is the first one in a collection its start token is still ahead.
LEMMA ParseStarts ==
  ASSUME ParserInv, scanner \in ScannerType, BlocksInv, Parse PROVE BlocksInv'
<1>1. scanner' = scanner /\ states' = states /\ state' = state /\ pc = "idle"
      /\ pc' \in {"state", "node"} /\ (pc' = "node" => state = "BLOCK-NODE")
  BY DEF Parse
<1>2. OwnBlock' <=> OwnBlock
  BY <1>1 DEF OwnBlock, InNode, Blocks, BlockFirst
<1>3. Depth' = Depth
  <2>1. CASE OwnBlock
    BY <1>1, <1>2, <2>1 DEF Depth
  <2>2. CASE ~ OwnBlock
    BY <1>1, <1>2, <2>2 DEF Depth
  <2> QED
    BY <2>1, <2>2
<1>4. Token' = Token
  BY <1>1 DEF Token
<1>5. StartAhead => StartAhead'
  BY <1>1, <1>4 DEF StartAhead
<1> QED
  BY <1>1, <1>3, <1>5 DEF BlocksInv

\* The start token of a collection stays in the queue.
LEMMA CollectionStarts ==
  ASSUME ParserInv, scanner \in ScannerType, BlocksInv, NodeCollection PROVE BlocksInv'
<1>1. PICK start \in StartsHere :
        /\ Content({start[1]})
        /\ Goto(start[2]) /\ Emit(start[3]) /\ Keep
  BY DEF NodeCollection
<1>2. Available /\ pc = "node" /\ Token = start[1]
  BY <1>1 DEF Content
<1>3. /\ state' \in First \cup {"INDENTLESS-SEQUENCE-ENTRY"}
      /\ state' \in First => Weight(Token) = IF state' \in BlockFirst THEN 1 ELSE 0
  BY <1>1, <1>2 DEF StartsHere, Weight, BlockStarts, BlockFirst
<1>4. scanner' = scanner /\ states' = states /\ pc' = "idle"
  BY <1>1
<1>5. ~ OwnBlock /\ ~ OwnBlock'
  BY <1>2, <1>3, <1>4 DEF OwnBlock, InNode, Blocks, BlockFirst
<1>6. Depth' = Depth
  BY <1>4, <1>5 DEF Depth
<1>7. Token' = Token
  BY <1>4 DEF Token
<1>8. StartAhead'
  BY <1>2, <1>3, <1>4, <1>7 DEF StartAhead, Available
<1> QED
  BY <1>4, <1>6, <1>8 DEF BlocksInv

\* The first call takes it, and is in the block from then on.
LEMMA StartTaken ==
  ASSUME ParserInv, scanner \in ScannerType, BlocksInv, FirstEntry PROVE BlocksInv'
<1>1. /\ Available /\ SkipToken /\ state \in First /\ pc = "state" /\ pc' = "entry"
      /\ states' = states /\ state' = state
  BY DEF FirstEntry, SkipAndSee
<1>2. Balance(scanner) = Depth /\ Weight(Token) = IF state \in BlockFirst THEN 1 ELSE 0
  BY <1>1 DEF BlocksInv, StartAhead, Available
<1>3. Balance(scanner) \in Int /\ Balance(scanner') = Balance(scanner) + Weight(Token)
  BY <1>1, SkipBalance
<1>4. ~ OwnBlock /\ (OwnBlock' <=> state \in BlockFirst)
  BY <1>1 DEF OwnBlock, InNode, Blocks, BlockFirst
<1>5. PICK n : n = Count(states, Blocks)
  OBVIOUS
<1>6. Depth = n + 0 /\ n \in Nat
  <2>1. states \in Seq(Pushed)
    BY DEF ParserInv, ParserTypes
  <2> QED
    BY <1>4, <1>5, <2>1, CountNat DEF Depth
<1>7. Depth' = n + IF state \in BlockFirst THEN 1 ELSE 0
  <2>1. CASE state \in BlockFirst
    BY <1>1, <1>4, <1>5, <2>1 DEF Depth
  <2>2. CASE state \notin BlockFirst
    BY <1>1, <1>4, <1>5, <2>2 DEF Depth
  <2> QED
    BY <2>1, <2>2
<1>8. Balance(scanner') = Depth'
  BY <1>2, <1>3, <1>6, <1>7
<1> QED
  BY <1>1, <1>8 DEF BlocksInv, StartAhead

LEMMA ScannerStaysEven ==
  ASSUME ParserInv, ScannerInv, BlocksInv, ScannerStep PROVE BlocksInv'
<1>1. FetchMoreTokens /\ pc # "idle" /\ UNCHANGED parserVars
  BY DEF ScannerStep
<1>2. scanner.error = "none" /\ NeedMoreTokens(scanner)
  BY <1>1 DEF FetchMoreTokens
<1>3. Balance(scanner) = Depth /\ ~ (state \in First /\ pc \in {"idle", "state"})
  BY <1>2 DEF BlocksInv, StartAhead
<1>4. scanner'.error = "none" => Balance(scanner') = Balance(scanner)
  BY <1>1, FetchMoreEven DEF ScannerInv, Even
<1>5. state' = state /\ states' = states /\ pc' = pc
  BY <1>1 DEF parserVars
<1>6. Depth' = Depth /\ StartAhead'
  BY <1>3, <1>5 DEF Depth, OwnBlock, InNode, StartAhead
<1> QED
  BY <1>3, <1>4, <1>6 DEF BlocksInv

-----------------------------------------------------------------------------
LEMMA BlocksInvInit == ASSUME ParserInit PROVE BlocksInv
<1>1. scanner = NoScanner /\ states = <<>> /\ state = "STREAM-START"
  BY DEF ParserInit, Init
<1>2. PICK none : none = <<>>
  OBVIOUS
<1>3. scanner.tokens = none /\ Len(scanner.indents) = 0 /\ states = none
  BY <1>1, <1>2 DEF NoScanner
<1>4. ASSUME NEW types PROVE Count(none, types) = 0
  <2>1. none \in Seq(Pushed) /\ Len(none) = 0
    BY <1>2
  <2>2. \A i \in 1..Len(none) : none[i] \notin types
    BY <2>1
  <2> QED
    BY <2>1, <2>2, CountNone
<1>5. Balance(scanner) = 0
  BY <1>3, <1>4 DEF Balance, Surplus
<1>6. ~ OwnBlock
  BY <1>1 DEF OwnBlock, Blocks, BlockFirst
<1>7. Depth = 0
  BY <1>3, <1>4, <1>6 DEF Depth
<1> QED
  BY <1>1, <1>5, <1>7 DEF BlocksInv, StartAhead

LEMMA BlocksInvNext == ASSUME ParserInv, ScannerInv, BlocksInv, [Next]_vars PROVE BlocksInv'
<1>1. scanner \in ScannerType
  BY DEF ScannerInv, Good
<1>2. CASE ScannerStep
  BY <1>2, ScannerStaysEven
<1>3. CASE ParserStep
  <2>1. CASE Parse
    BY <1>1, <2>1, ParseStarts
  <2>2. CASE NodeCollection
    BY <1>1, <2>2, CollectionStarts
  <2>3. CASE FirstEntry
    BY <1>1, <2>3, StartTaken
  <2>4. CASE QuietStep
    BY <1>1, <2>4, QuietKeeps
  <2> QED
    BY <1>3, <2>1, <2>2, <2>3, <2>4, QuietCollections, QuietOutside, QuietNodes DEF ParserStep
<1>4. CASE UNCHANGED vars
  BY <1>4 DEF vars, parserVars, BlocksInv, StartAhead, Depth, OwnBlock, InNode, Token
<1> QED
  BY <1>2, <1>3, <1>4 DEF Next

\* What BlocksAgree says of the parser's own collection.
LEMMA StackDepth ==
  ASSUME ParserInv
  PROVE  Depth = Count(Stack, Blocks)
                   + IF state \in BlockFirst /\ pc \in {"entry", "item"} THEN 1 ELSE 0
<1>1. PICK seq : seq = states
  OBVIOUS
<1>2. seq \in Seq(Pushed)
  BY <1>1 DEF ParserInv, ParserTypes
<1>3. Count(seq, Blocks) \in Nat
  BY <1>2, CountNat
<1>4. CASE InNode
  <2>1. Stack = seq /\ ~ OwnBlock /\ pc = "node"
    BY <1>1, <1>4 DEF Stack, OwnBlock, InNode
  <2> QED
    BY <1>1, <1>3, <2>1 DEF Depth
<1>5. CASE ~ InNode
  <2>1. Stack = Append(seq, state)
    BY <1>1, <1>5 DEF Stack
  <2>2. Count(Append(seq, state), Blocks) = Count(seq, Blocks) + IF state \in Blocks THEN 1 ELSE 0
    <3>1. seq \in Seq(Outer \cup Inner) /\ state \in Outer \cup Inner
      BY <1>2 DEF ParserInv, ParserTypes
    <3> QED
      BY <3>1, StatesPushed
  <2>3. OwnBlock <=> state \in Blocks \/ (state \in BlockFirst /\ pc \in {"entry", "item"})
    BY <1>5 DEF OwnBlock
  <2>4. state \in Blocks => state \notin BlockFirst
    BY DEF Blocks, BlockFirst
  <2>5. Depth = Count(seq, Blocks) + IF OwnBlock THEN 1 ELSE 0
    BY <1>1 DEF Depth
  <2>6. CASE state \in Blocks
    BY <1>3, <2>1, <2>2, <2>3, <2>4, <2>5, <2>6
  <2>7. CASE state \notin Blocks
    BY <1>3, <2>1, <2>2, <2>3, <2>5, <2>7
  <2> QED
    BY <2>6, <2>7
<1> QED
  BY <1>4, <1>5

\* For any text: the scanner, which ends blocks by their columns and runs ahead
\* of the parser, and the parser, which counts them in its states, never differ
\* on how many are open. yaml_parser_unroll_indent and yaml_parser_roll_indent
\* push and pop a column with each block token that they put in the queue, and
\* every state function takes exactly the tokens of the blocks it opens and
\* closes.
THEOREM BlocksInStep == Spec => []BlocksAgree
<1>1. ParserInv /\ ScannerInv /\ BlocksInv => BlocksAgree
  <2> SUFFICES ASSUME ParserInv, ScannerInv, BlocksInv, scanner.error = "none"
               PROVE  Len(scanner.indents) =
                          Count(Stack, Blocks)
                          + (IF state \in BlockFirst /\ pc \in {"entry", "item"} THEN 1 ELSE 0)
                          + Count(scanner.tokens, BlockStarts) - Count(scanner.tokens, {"BLOCK-END"})
    BY DEF BlocksAgree, Blocks, BlockFirst, BlockStarts
  <2>1. scanner \in ScannerType
    BY DEF ScannerInv, Good
  <2>2. /\ Len(scanner.indents) \in Nat
        /\ Count(scanner.tokens, BlockStarts) \in Nat
        /\ Count(scanner.tokens, {"BLOCK-END"}) \in Nat
    BY <2>1, CountNat DEF ScannerType
  <2>3. PICK depth : depth = Count(Stack, Blocks)
                   + IF state \in BlockFirst /\ pc \in {"entry", "item"} THEN 1 ELSE 0
    OBVIOUS
  <2>4. Balance(scanner) = depth
    BY <2>3, StackDepth DEF BlocksInv
  <2>5. Len(scanner.indents)
          = depth + Count(scanner.tokens, BlockStarts) - Count(scanner.tokens, {"BLOCK-END"})
    BY <2>2, <2>4 DEF Balance, Surplus
  <2> QED
    BY <2>3, <2>5
<1>2. ParserInit => ParserInv /\ ScannerInv /\ BlocksInv
  BY ParserInvInit, ScannerInvInit, BlocksInvInit
<1>3. ParserInv /\ ScannerInv /\ BlocksInv /\ [Next]_vars => (ParserInv /\ ScannerInv /\ BlocksInv)'
  BY ParserInvStep, ScannerInvNext, BlocksInvNext
<1> QED
  BY <1>1, <1>2, <1>3, PTL DEF Spec
=============================================================================
