-------------------------- MODULE YamlScalarProofs ----------------------------
(***************************************************************************)
(* Proofs about YamlScalar, for any files, cut anywhere, and any sizes of  *)
(* the buffers that YamlReaderAssumption allows: the buffer has whole      *)
(* characters, as many as the reader counts, and never more octets than    *)
(* there is room for; and the raw buffer loses no octet of the file.       *)
(***************************************************************************)
EXTENDS YamlScalar, SequenceTheorems, TLAPS

\* The octets b are u characters; the i-th ends where c says.
Characters(b, u, c) ==
    /\ c \in [0..u -> Nat] /\ c[0] = 0 /\ c[u] = Len(b)
    /\ \A i \in 0..u : \A j \in i..u : c[i] + (j - i) <= c[j] /\ c[j] <= c[i] + 4 * (j - i)
    /\ \A i \in 0..(u - 1) : Width(b[c[i] + 1]) = c[i + 1] - c[i]

\* The reader counts what it holds right.
CharsWhole == unread \in Nat /\ \E c : Characters(buffer, unread, c)

\* The last character is the NUL behind the text.
EndsWithNul(b, u, c) == u >= 1 /\ c[u - 1] = Len(b) - 1 /\ b[Len(b)] = NUL

-----------------------------------------------------------------------------
(* Sequences of octets.                                                    *)

LEMMA DropFacts ==
  ASSUME NEW S, NEW s \in Seq(S), NEW n \in 0..Len(s)
  PROVE  /\ Drop(s, n) \in Seq(S) /\ Len(Drop(s, n)) = Len(s) - n
         /\ \A i \in 1..(Len(s) - n) : Drop(s, n)[i] = s[n + i]
<1>1. Len(s) \in Nat /\ n + 1 \in 1..(Len(s) + 1)  OBVIOUS
<1> QED  BY <1>1 DEF Drop

LEMMA MinIs ==
  ASSUME NEW a \in Nat, NEW b \in Nat
  PROVE  Min({a, b}) \in Nat /\ Min({a, b}) <= a /\ Min({a, b}) <= b
<1>1. PICK S : S = {a, b}  OBVIOUS
<1>2. PICK m \in S : \A y \in S : m <= y
  <2>1. CASE a <= b  BY <1>1, <2>1
  <2>2. CASE b <= a  BY <1>1, <2>2
  <2> QED  BY <2>1, <2>2
<1>3. PICK x : x = Min(S)  OBVIOUS
<1>4. x \in S /\ \A y \in S : x <= y  BY <1>2, <1>3 DEF Min
<1> QED  BY <1>1, <1>3, <1>4

-----------------------------------------------------------------------------
(* Characters                                                              *)

LEMMA Between ==
  ASSUME NEW b, NEW u \in Nat, NEW c, Characters(b, u, c), NEW i \in 0..u, NEW j \in i..u
  PROVE  /\ c[i] \in Nat /\ c[j] \in Nat /\ j \in 0..u
         /\ c[i] + (j - i) <= c[j] /\ c[j] <= c[i] + 4 * (j - i)
<1>1. j \in 0..u  OBVIOUS
<1>2. c[i] \in Nat /\ c[j] \in Nat  BY <1>1 DEF Characters
<1>3. c[i] + (j - i) <= c[j] /\ c[j] <= c[i] + 4 * (j - i)  BY DEF Characters
<1> QED  BY <1>1, <1>2, <1>3

LEMMA NoCharacters == Characters(<<>>, 0, [i \in 0..0 |-> 0])
<1>1. PICK c : c = [i \in 0..0 |-> 0]  OBVIOUS
<1>2. \A i \in 0..0 : i = 0  OBVIOUS
<1>3. c \in [0..0 -> Nat] /\ c[0] = 0  BY <1>1
<1>4. \A i \in 0..(0 - 1) : FALSE  OBVIOUS
<1>5. \A i \in 0..0 : \A j \in i..0 : i = 0 /\ j = 0  OBVIOUS
<1>6. \A i \in 0..0 : \A j \in i..0 : c[i] + (j - i) <= c[j] /\ c[j] <= c[i] + 4 * (j - i)
  BY <1>3, <1>5
<1>7. Characters(<<>>, 0, c)  BY <1>3, <1>4, <1>6 DEF Characters
<1> QED  BY <1>1, <1>7

\* A character has at most four octets.
LEMMA AtMostFour ==
  ASSUME NEW b, NEW u \in Nat, NEW c, Characters(b, u, c)
  PROVE  u <= Len(b) /\ Len(b) <= 4 * u /\ Len(b) \in Nat
<1>1. 0 \in 0..u /\ u \in 0..u  OBVIOUS
<1>2. c[0] = 0 /\ c[u] = Len(b)  BY DEF Characters
<1>3. c[u] \in Nat /\ c[0] + (u - 0) <= c[u] /\ c[u] <= c[0] + 4 * (u - 0)
  BY <1>1, Between
<1> QED  BY <1>2, <1>3

\* One more character.
LEMMA OneMore ==
  ASSUME NEW b \in Seq(Octets), NEW u \in Nat, NEW c, Characters(b, u, c),
         NEW x \in Seq(Octets), Len(x) \in 1..4, Width(x[1]) = Len(x)
  PROVE  \E c2 : Characters(b \o x, u + 1, c2) /\ c2[u] = Len(b)
<1>1. PICK c2, t, n, w : /\ c2 = [i \in 0..(u + 1) |-> IF i <= u THEN c[i] ELSE Len(b) + Len(x)]
                         /\ t = b \o x /\ n = Len(b) /\ w = Len(x)
  OBVIOUS
<1>2. n \in Nat /\ u <= n /\ n <= 4 * u /\ c[u] = n /\ w \in 1..4
  BY <1>1, AtMostFour DEF Characters
<1>3. /\ \A i \in 0..u : c2[i] = c[i]
      /\ c2[u + 1] = n + w
  <2>1. \A i \in 0..u : i \in 0..(u + 1) /\ i <= u  OBVIOUS
  <2>2. u + 1 \in 0..(u + 1) /\ ~ (u + 1 <= u)  OBVIOUS
  <2> QED  BY <1>1, <2>1, <2>2
<1>4. /\ Len(t) = n + w /\ t[n + 1] = x[1]
      /\ \A i \in 1..n : t[i] = b[i]
  BY <1>1, <1>2
<1>5. \A i \in 0..(u + 1) : c2[i] \in Nat
  <2>1. \A i \in 0..u : c[i] \in Nat  BY DEF Characters
  <2>2. \A i \in 0..(u + 1) : i \in 0..u \/ i = u + 1  OBVIOUS
  <2> QED  BY <1>2, <1>3, <2>1, <2>2
<1>6. ASSUME NEW i \in 0..(u + 1), NEW j \in i..(u + 1)
      PROVE  c2[i] + (j - i) <= c2[j] /\ c2[j] <= c2[i] + 4 * (j - i)
  <2>1. CASE j <= u
    <3>1. i \in 0..u /\ j \in i..u /\ j \in 0..u  BY <2>1
    <3> QED  BY <1>3, <3>1, Between
  <2>2. CASE i = u + 1
    <3>1. j = i /\ c2[i] \in Nat  BY <1>5, <2>2
    <3> QED  BY <3>1
  <2>3. CASE i <= u /\ j = u + 1
    <3>1. i \in 0..u /\ u \in i..u  BY <2>3
    <3>2. c[i] \in Nat /\ c[i] + (u - i) <= c[u] /\ c[u] <= c[i] + 4 * (u - i)
      BY <3>1, Between
    <3>3. c2[i] = c[i] /\ c2[j] = n + w  BY <1>3, <2>3, <3>1
    <3> QED  BY SMTT(60), <1>2, <2>3, <3>1, <3>2, <3>3
  <2>4. j = u + 1 \/ j <= u  OBVIOUS
  <2> QED  BY <2>1, <2>2, <2>3, <2>4
<1>7. ASSUME NEW i \in 0..u PROVE Width(t[c2[i] + 1]) = c2[i + 1] - c2[i]
  <2>1. CASE i = u
    <3>1. c2[i] = n /\ c2[i + 1] = n + w  BY <1>2, <1>3, <2>1
    <3>2. t[c2[i] + 1] = x[1] /\ c2[i + 1] - c2[i] = w  BY <1>2, <1>4, <3>1
    <3> QED  BY <1>1, <3>2
  <2>2. CASE i < u
    <3>1. u \in i..u /\ i \in 0..(u - 1) /\ i + 1 \in 0..u  BY <2>2
    <3>2. c[i] \in Nat /\ c[i] + (u - i) <= c[u]  BY <3>1, Between
    <3>3. c[i] + 1 \in 1..n  BY <1>2, <2>2, <3>2
    <3>4. Width(b[c[i] + 1]) = c[i + 1] - c[i]  BY <3>1 DEF Characters
    <3>5. c2[i] = c[i] /\ c2[i + 1] = c[i + 1]  BY <1>3, <3>1
    <3> QED  BY <1>4, <3>3, <3>4, <3>5
  <2> QED  BY <2>1, <2>2
<1>8. c2[0] = 0 /\ c2[u + 1] = Len(t) /\ c2[u] = n
  <2>1. 0 \in 0..u /\ u \in 0..u /\ c[0] = 0  BY DEF Characters
  <2> QED  BY <1>2, <1>3, <1>4, <2>1
<1>9. Characters(t, u + 1, c2)
  <2>1. (u + 1) - 1 = u  OBVIOUS
  <2>2. c2 \in [0..(u + 1) -> Nat]  BY <1>1, <1>5
  <2> QED  BY <1>6, <1>7, <1>8, <2>1, <2>2 DEF Characters
<1>10. Characters(b \o x, u + 1, c2) /\ c2[u] = Len(b)  BY ONLY <1>1, <1>8, <1>9
<1> QED  BY ONLY <1>10

\* Some characters fewer.
LEMMA SomeTaken ==
  ASSUME NEW b \in Seq(Octets), NEW u \in Nat, NEW c, Characters(b, u, c), NEW m \in 0..u
  PROVE  LET c2 == [i \in 0..(u - m) |-> c[i + m] - c[m]]
         IN  Characters(Drop(b, c[m]), u - m, c2) /\ c[m] \in 0..Len(b)
<1>1. PICK c2, n : c2 = [i \in 0..(u - m) |-> c[i + m] - c[m]] /\ n = c[m]  OBVIOUS
<1>2. n \in Nat /\ n + (u - m) <= c[u] /\ c[u] = Len(b) /\ Len(b) \in Nat
  <2>1. u \in m..u  OBVIOUS
  <2>2. c[u] = Len(b)  BY DEF Characters
  <2> QED  BY <1>1, <2>1, <2>2, Between
<1>3. n \in 0..Len(b)  BY <1>2
<1>4. PICK t : t = Drop(b, n)  OBVIOUS
<1>5. Len(t) = Len(b) - n /\ \A i \in 1..(Len(b) - n) : t[i] = b[n + i]
  BY <1>3, <1>4, DropFacts
<1>6. ASSUME NEW i \in 0..(u - m)
      PROVE  /\ i + m \in 0..u /\ c[i + m] \in Nat /\ c2[i] = c[i + m] - n
             /\ n <= c[i + m] /\ c2[i] \in Nat
  <2>1. i + m \in m..u /\ i + m \in 0..u  OBVIOUS
  <2>2. c[m] + ((i + m) - m) <= c[i + m] /\ c[i + m] \in Nat  BY <2>1, Between
  <2>3. c2[i] = c[i + m] - n  BY <1>1
  <2>4. PICK x \in Nat : x = c[i + m]  BY <2>2
  <2>5. n <= x  BY ONLY i \in 0..(u - m), m \in 0..u, u \in Nat, <1>1, <1>2, <2>2, <2>4
  <2> QED  BY <1>2, <2>1, <2>3, <2>4, <2>5
<1>7. c2 \in [0..(u - m) -> Nat]
  <2>1. \A i \in 0..(u - m) : c2[i] \in Nat  BY <1>6
  <2> QED  BY <1>1, <2>1
<1>8. ASSUME NEW i \in 0..(u - m), NEW j \in i..(u - m)
      PROVE  c2[i] + (j - i) <= c2[j] /\ c2[j] <= c2[i] + 4 * (j - i)
  <2>1. i + m \in 0..u /\ j + m \in (i + m)..u /\ j \in 0..(u - m)  OBVIOUS
  <2>2. /\ c[i + m] + ((j + m) - (i + m)) <= c[j + m]
        /\ c[j + m] <= c[i + m] + 4 * ((j + m) - (i + m))
        /\ c[i + m] \in Nat /\ c[j + m] \in Nat
    BY <2>1, Between
  <2>3. c2[i] = c[i + m] - n /\ c2[j] = c[j + m] - n  BY <1>6, <2>1
  <2>4. (j + m) - (i + m) = j - i /\ j - i \in Nat  OBVIOUS
  <2>5. PICK x \in Nat, y \in Nat, d \in Nat : x = c[i + m] /\ y = c[j + m] /\ d = j - i
    BY <2>2, <2>4
  <2>6. x + d <= y /\ y <= x + 4 * d  BY <2>2, <2>4, <2>5
  <2>7. (x - n) + d <= y - n /\ y - n <= (x - n) + 4 * d
    BY ONLY <1>2, <2>6, x \in Nat, y \in Nat, d \in Nat
  <2> QED  BY <2>3, <2>5, <2>7
<1>9. ASSUME NEW i \in 0..((u - m) - 1) PROVE Width(t[c2[i] + 1]) = c2[i + 1] - c2[i]
  <2>1. /\ i \in 0..(u - m) /\ i + 1 \in 0..(u - m) /\ i + m \in 0..(u - 1)
        /\ (i + 1) + m = (i + m) + 1 /\ u \in (i + m)..u /\ i + m \in 0..u
    OBVIOUS
  <2>2. Width(b[c[i + m] + 1]) = c[(i + m) + 1] - c[i + m]  BY <2>1 DEF Characters
  <2>3. c[i + m] + (u - (i + m)) <= c[u] /\ c[i + m] \in Nat  BY <2>1, Between
  <2>4. c2[i] = c[i + m] - n /\ n <= c[i + m] /\ c2[i + 1] = c[(i + m) + 1] - n
        /\ c[(i + m) + 1] \in Nat
    <3>1. c2[i + 1] = c[(i + 1) + m] - n /\ c[(i + 1) + m] \in Nat  BY <1>6, <2>1
    <3> QED  BY <1>6, <2>1, <3>1
  <2>5. c2[i] + 1 \in 1..(Len(b) - n) /\ n + (c2[i] + 1) = c[i + m] + 1
    <3>1. u - (i + m) >= 1 /\ i + m \in Nat  BY <2>1
    <3>2. PICK x \in Nat, v \in Nat : x = c[i + m] /\ v = i + m  BY <2>3, <3>1
    <3>3. n <= x /\ x + (u - v) <= Len(b) /\ u - v >= 1 /\ c2[i] = x - n
      BY <1>2, <2>3, <2>4, <3>1, <3>2
    <3>4. (x - n) + 1 \in 1..(Len(b) - n) /\ n + ((x - n) + 1) = x + 1
      BY ONLY <1>2, <3>3, x \in Nat, v \in Nat, u \in Nat
    <3> QED  BY <3>2, <3>3, <3>4
  <2>6. t[c2[i] + 1] = b[c[i + m] + 1]  BY <1>5, <2>5
  <2> QED  BY SMTT(60), <1>2, <2>2, <2>3, <2>4, <2>6
<1>10. c2[0] = 0 /\ c2[u - m] = Len(t)
  <2>1. 0 \in 0..(u - m) /\ u - m \in 0..(u - m) /\ 0 + m = m /\ (u - m) + m = u  OBVIOUS
  <2>2. c2[0] = c[0 + m] - n /\ c2[u - m] = c[(u - m) + m] - n  BY <1>6, <2>1
  <2> QED  BY SMTT(60), <1>1, <1>2, <1>5, <2>1, <2>2
<1> QED  BY <1>1, <1>3, <1>4, <1>7, <1>8, <1>9, <1>10 DEF Characters

\* The NUL is not among those taken when the last of them is no NUL.
LEMMA NulLeft ==
  ASSUME NEW b \in Seq(Octets), NEW u \in Nat, NEW c, Characters(b, u, c),
         EndsWithNul(b, u, c), NEW m \in 1..u, b[c[m - 1] + 1] # NUL,
         NEW c2, c2 = [i \in 0..(u - m) |-> c[i + m] - c[m]]
  PROVE  EndsWithNul(Drop(b, c[m]), u - m, c2)
<1>1. m < u
  <2>1. m = u => b[c[m - 1] + 1] = NUL
    <3>1. Len(b) \in Nat /\ c[u - 1] + 1 = Len(b)  BY DEF EndsWithNul
    <3> QED  BY <3>1 DEF EndsWithNul
  <2> QED  BY <2>1
<1>2. /\ c[m] \in Nat /\ c[u] = Len(b) /\ c[u - 1] = Len(b) - 1 /\ Len(b) \in Nat
      /\ c[m] + (u - m) <= c[u]
  <2>1. m \in 0..u /\ u \in m..u  OBVIOUS
  <2>2. c[u] = Len(b) /\ c[u - 1] = Len(b) - 1 /\ Len(b) \in Nat  BY DEF Characters, EndsWithNul
  <2> QED  BY <2>1, <2>2, Between
<1>3. PICK t, n : t = Drop(b, n) /\ n = c[m]
  <2>1. \E n : n = c[m]  OBVIOUS
  <2> QED  BY <2>1
<1>4. n \in 0..Len(b) /\ Len(b) - n >= 1  BY <1>1, <1>2, <1>3
<1>5. /\ Len(t) = Len(b) - n /\ Len(b) - n \in 1..(Len(b) - n)
      /\ \A i \in 1..(Len(b) - n) : t[i] = b[n + i]
  <2>1. Len(t) = Len(b) - n /\ \A i \in 1..(Len(b) - n) : t[i] = b[n + i]
    <3>1. n \in 0..Len(b)  BY <1>4
    <3>2. Len(Drop(b, n)) = Len(b) - n /\ \A i \in 1..(Len(b) - n) : Drop(b, n)[i] = b[n + i]
      BY ONLY <3>1, b \in Seq(Octets), DropFacts
    <3> QED  BY <1>3, <3>2
  <2>2. Len(b) - n \in 1..(Len(b) - n)  BY <1>2, <1>3, <1>4
  <2> QED  BY <2>1, <2>2
<1>6. t[Len(t)] = NUL
  <2>1. n + (Len(b) - n) = Len(b)  BY <1>2, <1>4
  <2>2. b[Len(b)] = NUL  BY DEF EndsWithNul
  <2> QED  BY <1>5, <2>1, <2>2
<1>7. c2[(u - m) - 1] = Len(t) - 1
  <2>1. (u - m) - 1 \in 0..(u - m) /\ ((u - m) - 1) + m = u - 1  BY <1>1
  <2>2. c2[(u - m) - 1] = c[u - 1] - n  BY <1>3, <2>1
  <2> QED  BY <1>2, <1>4, <1>5, <2>2
<1> QED  BY <1>1, <1>3, <1>6, <1>7 DEF EndsWithNul

-----------------------------------------------------------------------------
(* Decoding                                                                *)

LEMMA WidthIs ==
  ASSUME NEW o \in Nat
  PROVE  /\ o <= 127 => Width(o) = 1
         /\ 192 <= o /\ o <= 223 => Width(o) = 2
         /\ 224 <= o /\ o <= 239 => Width(o) = 3
         /\ 240 <= o /\ o <= 247 => Width(o) = 4
         /\ Width(o) = 1 => o <= 127
         /\ Width(o) \in 0..4
BY DEF Width

LEMMA IsOctet == \A o : o \in Octets <=> o \in Nat /\ o <= 255
<1>1. \A o, n : n \in Nat => (o \in 0..n <=> o \in Nat /\ o <= n)  OBVIOUS
<1>2. 255 \in Nat  OBVIOUS
<1> QED  BY ZenonT(30), <1>1, <1>2 DEF Octets

\* The octets of a character.
LEMMA Encodes ==
  ASSUME NEW v \in Nat, v <= 1114111
  PROVE  /\ Utf8(v) \in Seq(Octets) /\ Len(Utf8(v)) \in 1..4
         /\ Width(Utf8(v)[1]) = Len(Utf8(v))
         /\ v <= 127 => Len(Utf8(v)) = 1
         /\ v <= 65535 => Len(Utf8(v)) <= 3
<1>2. CASE v <= 127
  <2>1. Utf8(v) = <<v>>  BY <1>2 DEF Utf8
  <2>2. v \in Octets /\ Width(v) = 1
    <3>1. v <= 255  BY <1>2
    <3> QED  BY <1>2, <3>1, IsOctet, WidthIs
  <2>3. <<v>> \in Seq(Octets) /\ Len(<<v>>) = 1 /\ <<v>>[1] = v  BY <2>2
  <2> QED  BY <2>1, <2>2, <2>3
<1>3. CASE v > 127 /\ v <= 2047
  <2>1. PICK a, b : a = 192 + v \div 64 /\ b = 128 + (v % 64)  OBVIOUS
  <2>2. Utf8(v) = <<a, b>>  BY <1>3, <2>1 DEF Utf8
  <2>3. a \in Nat /\ 192 <= a /\ a <= 223 /\ b \in Nat /\ b <= 255  BY <1>3, <2>1
  <2>4. a \in Octets /\ b \in Octets /\ Width(a) = 2
    <3>1. a <= 255  BY <2>3
    <3> QED  BY <2>3, <3>1, IsOctet, WidthIs
  <2>5. <<a, b>> \in Seq(Octets) /\ Len(<<a, b>>) = 2 /\ <<a, b>>[1] = a  BY <2>4
  <2> QED  BY <1>3, <2>2, <2>4, <2>5
<1>4. CASE v > 2047 /\ v <= 65535
  <2>1. PICK a, b, d : /\ a = 224 + v \div 4096 /\ b = 128 + ((v \div 64) % 64)
                       /\ d = 128 + (v % 64)
    OBVIOUS
  <2>2. Utf8(v) = <<a, b, d>>  BY <1>4, <2>1 DEF Utf8
  <2>3. /\ a \in Nat /\ 224 <= a /\ a <= 239
        /\ b \in Nat /\ b <= 255 /\ d \in Nat /\ d <= 255
    BY <1>4, <2>1
  <2>4. a \in Octets /\ b \in Octets /\ d \in Octets /\ Width(a) = 3
    <3>1. a <= 255  BY <2>3
    <3> QED  BY <2>3, <3>1, IsOctet, WidthIs
  <2>5. <<a, b, d>> \in Seq(Octets) /\ Len(<<a, b, d>>) = 3 /\ <<a, b, d>>[1] = a  BY <2>4
  <2> QED  BY <1>4, <2>2, <2>4, <2>5
<1>5. CASE v > 65535
  <2>1. PICK a, b, d, e : /\ a = 240 + v \div 262144 /\ b = 128 + ((v \div 4096) % 64)
                          /\ d = 128 + ((v \div 64) % 64) /\ e = 128 + (v % 64)
    OBVIOUS
  <2>2. Utf8(v) = <<a, b, d, e>>  BY <1>5, <2>1 DEF Utf8
  <2>3. /\ a \in Nat /\ 240 <= a /\ a <= 247
        /\ b \in Nat /\ b <= 255 /\ d \in Nat /\ d <= 255 /\ e \in Nat /\ e <= 255
    BY <1>5, <2>1
  <2>4. a \in Octets /\ b \in Octets /\ d \in Octets /\ e \in Octets /\ Width(a) = 4
    <3>1. a <= 255  BY <2>3
    <3> QED  BY <2>3, <3>1, IsOctet, WidthIs
  <2>5. <<a, b, d, e>> \in Seq(Octets) /\ Len(<<a, b, d, e>>) = 4 /\ <<a, b, d, e>>[1] = a
    BY <2>4
  <2> QED  BY <1>5, <2>2, <2>4, <2>5
<1> QED  BY <1>2, <1>3, <1>4, <1>5

\* What UTF-8 and UTF-16 give: a character of this width is not too large for it.
Fitting(char, n) ==
    char.fault = "none" =>
        /\ char.width \in 1..n /\ char.value \in Nat
        /\ char.width = 1 => char.value <= 127
        /\ char.width = 2 => char.value <= 65535

LEMMA Utf8Fits ==
  ASSUME NEW s \in Seq(Octets), s # <<>> PROVE Fitting(Utf8Char(s), Len(s))
<1>1. PICK w : w = Width(s[1])  BY Zenon
<1>2. /\ \A i \in 1..Len(s) : s[i] \in Nat
      /\ Len(s) \in Nat /\ 1 \in 1..Len(s)
  <2>1. \A i \in 1..Len(s) : s[i] \in Octets  OBVIOUS
  <2>2. Len(s) \in Nat /\ 1 \in 1..Len(s)  OBVIOUS
  <2> QED  BY <2>1, <2>2, IsOctet
<1>3. w \in 0..4 /\ (w = 1 => s[1] <= 127)  BY <1>1, <1>2, WidthIs
<1>4. PICK t, v : t = SubSeq(s, 1, w) /\ v = Utf8Value(t)  BY Zenon
<1>5. Utf8Char(s).fault = "none" =>
        /\ w # 0 /\ ~ (w > Len(s)) /\ Utf8Char(s).width = w /\ Utf8Char(s).value = v
  <2>1. Utf8Char(s) =
          IF w = 0 THEN Fault("wrong")
          ELSE IF w > Len(s) THEN Fault("incomplete")
          ELSE IF \/ \E k \in 2..w : ~ Trailing(s[k])
                  \/ v < Least(w) \/ v \in Surrogates \/ v > MaxChar
          THEN Fault("wrong")
          ELSE Char(w, v)
    BY Zenon, <1>1, <1>4 DEF Utf8Char
  <2>2. Fault("wrong").fault # "none" /\ Fault("incomplete").fault # "none"
    BY DEF Fault
  <2>3. Char(w, v).width = w /\ Char(w, v).value = v  BY DEF Char
  <2> QED  BY <2>1, <2>2, <2>3
<1>6. ASSUME w # 0, w <= Len(s)
      PROVE  v \in Nat /\ (w = 1 => v <= 127) /\ (w = 2 => v <= 65535)
  <2>1. Len(t) = w /\ \A i \in 1..w : t[i] = s[i]
    BY <1>2, <1>3, <1>4, <1>6
  <2>2. CASE w = 1
    <3>1. t[1] = s[1] /\ Len(t) = 1  BY <2>1, <2>2
    <3>2. Len(t) = 1 => Utf8Value(t) = t[1]
      <4>1. t[1] \in Nat  BY <1>2, <3>1
      <4> QED  BY ONLY <4>1 DEF Utf8Value
    <3>3. v = t[1]  BY <1>4, <3>1, <3>2
    <3> QED  BY <1>2, <1>3, <2>2, <3>1, <3>3
  <2>3. CASE w = 2
    <3>1. PICK a \in Nat, b \in Nat : a = t[1] /\ b = t[2]
      BY <1>2, <1>6, <2>1, <2>3
    <3>2. v = (a % 32) * 64 + (b % 64)  BY <1>4, <2>1, <2>3, <3>1 DEF Utf8Value
    <3>3. a % 32 \in Nat /\ a % 32 <= 31 /\ b % 64 \in Nat /\ b % 64 <= 63  OBVIOUS
    <3>4. v \in Nat /\ v <= 65535  BY <3>2, <3>3
    <3> QED  BY <2>3, <3>4
  <2>4. CASE w = 3
    <3>1. PICK a \in Nat, b \in Nat, c \in Nat : a = t[1] /\ b = t[2] /\ c = t[3]
      BY <1>2, <1>6, <2>1, <2>4
    <3>2. v = ((a % 16) * 64 + (b % 64)) * 64 + (c % 64)
      BY <1>4, <2>1, <2>4, <3>1 DEF Utf8Value
    <3>3. a % 16 \in Nat /\ b % 64 \in Nat /\ c % 64 \in Nat  OBVIOUS
    <3>4. v \in Nat  BY <3>2, <3>3
    <3> QED  BY <2>4, <3>4
  <2>5. CASE w = 4
    <3>1. PICK a \in Nat, b \in Nat, c \in Nat, d \in Nat :
            a = t[1] /\ b = t[2] /\ c = t[3] /\ d = t[4]
      BY <1>2, <1>6, <2>1, <2>5
    <3>2. v = (((a % 8) * 64 + (b % 64)) * 64 + (c % 64)) * 64 + (d % 64)
      BY <1>4, <2>1, <2>5, <3>1 DEF Utf8Value
    <3>3. a % 8 \in Nat /\ b % 64 \in Nat /\ c % 64 \in Nat /\ d % 64 \in Nat  OBVIOUS
    <3>4. v \in Nat  BY <3>2, <3>3
    <3> QED  BY <2>5, <3>4
  <2> QED  BY <1>3, <1>6, <2>2, <2>3, <2>4, <2>5
<1>7. PICK char : char = Utf8Char(s)  BY Zenon
<1>8. char.fault = "none" => /\ char.width = w /\ char.value = v /\ w \in 1..Len(s)
                             /\ v \in Nat /\ (w = 1 => v <= 127) /\ (w = 2 => v <= 65535)
  <2>1. w # 0 /\ ~ (w > Len(s)) => w <= Len(s) /\ w \in 1..Len(s)  BY <1>2, <1>3
  <2> QED  BY <1>5, <1>6, <1>7, <2>1
<1> QED  BY <1>7, <1>8 DEF Fitting

LEMMA Utf16Fits ==
  ASSUME NEW s \in Seq(Octets), s # <<>>, NEW l \in {0, 1}, NEW h \in {0, 1}
  PROVE  Fitting(Utf16Char(s, l, h), Len(s))
<1>1. Len(s) \in Nat  OBVIOUS
<1>2. PICK char, n : char = Utf16Char(s, l, h) /\ n = Len(s)  BY Zenon
<1>3. PICK u1, u2 : u1 = Unit(s[1 + l], s[1 + h]) /\ u2 = Unit(s[3 + l], s[3 + h])
  BY Zenon
<1>4. char = IF n < 2 THEN Fault("incomplete")
             ELSE IF u1 \in LowSurrogates THEN Fault("wrong")
             ELSE IF u1 \notin HighSurrogates THEN Char(2, u1)
             ELSE IF n < 4 THEN Fault("incomplete")
             ELSE IF u2 \notin LowSurrogates THEN Fault("wrong")
             ELSE Char(4, Pair(u1, u2))
  BY Zenon, <1>2, <1>3 DEF Utf16Char
<1>5. PICK v : v = Pair(u1, u2)  BY Zenon
<1>6. /\ Fault("wrong").fault # "none" /\ Fault("incomplete").fault # "none"
      /\ Char(2, u1).width = 2 /\ Char(2, u1).value = u1
      /\ Char(4, v).width = 4 /\ Char(4, v).value = v
  BY DEF Fault, Char
<1>7. char.fault = "none" => \/ char.width = 2 /\ char.value = u1 /\ ~ (n < 2)
                             \/ char.width = 4 /\ char.value = v /\ ~ (n < 2) /\ ~ (n < 4)
  BY <1>4, <1>5, <1>6
<1>8. ASSUME ~ (n < 2) PROVE u1 \in Nat /\ u1 <= 65535
  <2>1. PICK a, b : a = s[1 + l] /\ b = s[1 + h]  BY Zenon
  <2>2. a \in Octets /\ b \in Octets
    <3>1. 1 + l \in 1..n /\ 1 + h \in 1..n  BY <1>1, <1>2, <1>8
    <3> QED  BY <1>2, <2>1, <3>1
  <2>3. a \in Nat /\ b \in Nat /\ a <= 255 /\ b <= 255  BY <2>2, IsOctet
  <2>4. u1 = Unit(a, b)  BY <1>3, <2>1
  <2>5. u1 = a + b * 256  BY Zenon, <2>4 DEF Unit
  <2> QED  BY ONLY <2>3, <2>5
<1>9. ASSUME ~ (n < 4), u1 \in Nat PROVE v \in Nat
  <2>1. PICK a, b : a = s[3 + l] /\ b = s[3 + h]  BY Zenon
  <2>2. a \in Octets /\ b \in Octets
    <3>1. 3 + l \in 1..n /\ 3 + h \in 1..n  BY <1>1, <1>2, <1>9
    <3> QED  BY <1>2, <2>1, <3>1
  <2>3. a \in Nat /\ b \in Nat  BY <2>2, IsOctet
  <2>4. u2 \in Nat
    <3>1. u2 = Unit(a, b)  BY <1>3, <2>1
    <3>2. u2 = a + b * 256  BY Zenon, <3>1 DEF Unit
    <3> QED  BY ONLY <2>3, <3>2
  <2>5. PICK a1 \in Nat, a2 \in Nat : a1 = u1 % 1024 /\ a2 = u2 % 1024  BY <1>9, <2>4
  <2>6. v = 65536 + a1 * 1024 + a2  BY <1>5, <2>5 DEF Pair
  <2> QED  BY <2>6
<1>10. char.fault = "none" =>
         /\ char.width \in 1..n /\ char.value \in Nat
         /\ char.width # 1 /\ (char.width = 2 => char.value <= 65535)
  BY <1>1, <1>2, <1>7, <1>8, <1>9
<1> QED  BY <1>2, <1>10 DEF Fitting

\* The next character: of two octets no more than three are made.
LEMMA NextFits ==
  ASSUME raw \in Seq(Octets), raw # <<>>, NextChar.fault = "none"
  PROVE  /\ NextChar.width \in 1..Len(raw)
         /\ NextChar.value \in Nat /\ NextChar.value <= 1114111
         /\ 2 * Len(Utf8(NextChar.value)) <= 3 * NextChar.width
<1>1. PICK char : /\ char = CASE encoding = "UTF-8"    -> Utf8Char(raw)
                              [] encoding = "UTF-16LE" -> Utf16Char(raw, 0, 1)
                              [] OTHER                 -> Utf16Char(raw, 1, 0)
  BY Zenon
<1>2. Fitting(char, Len(raw))
  <2>1. Fitting(Utf8Char(raw), Len(raw))  BY Utf8Fits
  <2>2. Fitting(Utf16Char(raw, 0, 1), Len(raw)) /\ Fitting(Utf16Char(raw, 1, 0), Len(raw))
    BY Utf16Fits
  <2> QED  BY <1>1, <2>1, <2>2
<1>3. NextChar = CASE char.fault = "incomplete" /\ eof -> Fault("wrong")
                   [] char.fault = "none" /\ ~ Allowed(char.value) -> Fault("wrong")
                   [] OTHER -> char
  BY Zenon, <1>1 DEF NextChar
<1>4. NextChar = char /\ Allowed(char.value) /\ char.fault = "none"
  <2>1. Fault("wrong").fault # "none"  BY DEF Fault
  <2> QED  BY <1>3, <2>1
<1>5. PICK w, v, n : w = char.width /\ v = char.value /\ n = Len(Utf8(v))  BY Zenon
<1>6. /\ w \in 1..Len(raw) /\ v \in Nat /\ (w = 1 => v <= 127) /\ (w = 2 => v <= 65535)
  BY <1>2, <1>4, <1>5 DEF Fitting
<1>7. v <= 1114111
  <2>1. Allowed(v)  BY <1>4, <1>5
  <2> QED  BY <1>6, <2>1 DEF Allowed, MaxChar
<1>8. n \in 1..4 /\ (v <= 127 => n = 1) /\ (v <= 65535 => n <= 3)
  BY <1>5, <1>6, <1>7, Encodes
<1>9. 2 * n <= 3 * w
  <2>1. Len(raw) \in Nat  OBVIOUS
  <2> QED  BY ONLY <1>6, <1>8, <2>1
<1> QED  BY <1>4, <1>5, <1>6, <1>7, <1>9

-----------------------------------------------------------------------------
(* The reader                                                              *)

ReaderTypes ==
    /\ file \in Files /\ input \in 0..Len(file.octets)
    /\ raw \in Seq(Octets) /\ Len(raw) <= RawSize
    /\ eof \in BOOLEAN /\ first \in BOOLEAN
    /\ buffer \in Seq(Octets) /\ start \in Nat /\ unread \in Nat
    /\ length \in 0..MaxLength

\* What may still come before the buffer is full, and where the reader is.
Filling ==
    /\ doing # "scan" => start = 0
    /\ doing = "encoding" => first
    /\ doing \in {"encoding", "fill"} /\ first => unread < length
    /\ doing = "fill" /\ ~ first =>
          ~ eof /\ 2 * Len(buffer) <= 8 * (length - 1) + 3 * RawSize
    /\ doing = "decode" =>
          ~ first /\ 2 * Len(buffer) + 3 * Len(raw) <= 8 * (length - 1) + 3 * RawSize

\* At the end of the text the scanner has the NUL before it.
NulIsThere(c) ==
    doing = "scan" /\ error = "none" /\ eof /\ raw = <<>> =>
        EndsWithNul(buffer, unread, c)

BufferInv ==
    /\ ReaderTypes /\ Filling /\ BufferFits
    /\ \E c : Characters(buffer, unread, c) /\ NulIsThere(c)

LEMMA Sizes ==
  /\ RawSize \in Nat /\ MaxLength \in Nat /\ BufferSize \in Nat
  /\ MaxLength >= 8 /\ RawSize >= 4
  /\ 2 * BufferSize >= 8 * (MaxLength - 1) + 3 * RawSize + 2
BY YamlReaderAssumption, YamlScalarAssumption

LEMMA BufferStart == Init => BufferInv
<1> SUFFICES ASSUME Init PROVE BufferInv  OBVIOUS
<1>1. /\ file \in Files /\ input = 0 /\ raw = <<>> /\ eof = FALSE /\ first = FALSE
      /\ buffer = <<>> /\ start = 0 /\ unread = 0 /\ length = 0 /\ doing = "scan"
  BY DEF Init, ReaderInit
<1>2. Len(file.octets) \in Nat  BY <1>1, YamlReaderAssumption DEF FileType
<1>3. ReaderTypes
  <2>1. <<>> \in Seq(Octets) /\ Len(<<>>) = 0  OBVIOUS
  <2>2. 0 \in 0..Len(file.octets) /\ 0 \in 0..MaxLength  BY <1>2, Sizes
  <2>3. Len(raw) <= RawSize
    <3>1. Len(raw) = 0  BY <1>1, <2>1
    <3> QED  BY <3>1, Sizes
  <2> QED  BY <1>1, <2>1, <2>2, <2>3 DEF ReaderTypes
<1>4. Filling  BY <1>1 DEF Filling
<1>5. BufferFits  BY <1>1, Sizes DEF BufferFits
<1>6. PICK c : c = [i \in 0..0 |-> 0]  OBVIOUS
<1>7. Characters(buffer, unread, c) /\ NulIsThere(c)
  BY <1>1, <1>6, NoCharacters DEF NulIsThere
<1> QED  BY <1>3, <1>4, <1>5, <1>7 DEF BufferInv

\* What changes no buffer, within the scanner, or ends in an error.
LEMMA BufferStays ==
  ASSUME BufferInv, file' = file, rawVars' = rawVars, bufferVars' = bufferVars,
         length' = length, first' = first,
         \/ doing' = doing /\ error' = error
         \/ doing' = "scan" /\ error' # "none"
  PROVE  BufferInv'
<1>1. /\ input' = input /\ raw' = raw /\ raw_start' = raw_start /\ eof' = eof
      /\ buffer' = buffer /\ start' = start /\ unread' = unread
  BY DEF rawVars, bufferVars
<1>2. ReaderTypes' /\ BufferFits'
  BY <1>1 DEF BufferInv, ReaderTypes, BufferFits
<1>3. Filling'  BY <1>1 DEF BufferInv, Filling
<1>4. PICK c : Characters(buffer, unread, c) /\ NulIsThere(c)  BY DEF BufferInv
<1>5. Characters(buffer, unread, c)' /\ NulIsThere(c)'  BY <1>1, <1>4 DEF NulIsThere
<1> QED  BY <1>2, <1>3, <1>5 DEF BufferInv

LEMMA ReaderFails == ASSUME BufferInv, NEW e, e # "none", ReaderError(e) PROVE BufferInv'
<1>1. /\ file' = file /\ rawVars' = rawVars /\ bufferVars' = bufferVars
      /\ length' = length /\ first' = first /\ doing' = "scan" /\ error' # "none"
  BY DEF ReaderError
<1> QED  BY <1>1, BufferStays

\* Reading puts no more into the raw buffer than there is room for, and no more
\* than the file has left.
LEMMA ReadSize ==
  ASSUME ReaderTypes, NEW size \in ReadHandler(RawSize - Len(raw))
  PROVE  /\ size \in Nat /\ input \in Nat /\ Len(file.octets) \in Nat /\ Len(raw) \in Nat
         /\ input + size <= Len(file.octets) /\ Len(raw) + size <= RawSize
<1>1. PICK n \in Nat, i \in Nat, r \in Nat :
        n = Len(file.octets) /\ i = input /\ r = Len(raw) /\ i <= n /\ r <= RawSize
  <2>1. Len(file.octets) \in Nat  BY YamlReaderAssumption DEF ReaderTypes, FileType
  <2>2. Len(raw) \in Nat /\ Len(raw) <= RawSize
    <3>1. raw \in Seq(Octets)  BY DEF ReaderTypes
    <3>2. Len(raw) \in Nat  BY ONLY <3>1
    <3> QED  BY <3>2 DEF ReaderTypes
  <2>3. PICK n \in Nat : n = Len(file.octets)  BY <2>1
  <2>4. input \in Nat /\ input <= n  BY <2>3 DEF ReaderTypes
  <2> QED  BY <2>2, <2>3, <2>4
<1>2. PICK room \in Nat, left \in Nat : room = RawSize - Len(raw) /\ left = Left
  <2>1. Left = n - i /\ RawSize - Len(raw) = RawSize - r  BY Zenon, <1>1 DEF Left
  <2>2. n - i \in Nat /\ RawSize - r \in Nat  BY <1>1, Sizes
  <2> QED  BY <2>1, <2>2
<1>3. PICK m : m = Min({room, left})  BY Zenon
<1>4. m \in Nat /\ m <= room /\ m <= left  BY <1>3, MinIs
<1>5. size \in {m} \/ size \in {0} \/ size \in 1..m
  BY <1>2, <1>3 DEF ReadHandler, StringReadHandler, FileReadHandler
<1>6. size \in Nat /\ size <= room /\ size <= left
  BY ONLY <1>4, <1>5, room \in Nat, left \in Nat
<1>7. i + size <= n /\ r + size <= RawSize
  BY <1>1, <1>2, <1>6, Sizes DEF Left
<1> QED  BY <1>1, <1>6, <1>7

LEMMA UpdateRawFits ==
  ASSUME ReaderTypes, UpdateRaw
  PROVE  /\ input' \in 0..Len(file.octets) /\ raw' \in Seq(Octets)
         /\ Len(raw') <= RawSize /\ eof' \in BOOLEAN
<1>1. CASE RawFull \/ eof
  <2>1. input' = input /\ raw' = raw /\ eof' = eof  BY <1>1 DEF UpdateRaw, rawVars
  <2> QED  BY <2>1 DEF ReaderTypes
<1>2. CASE ReadRaw
  <2>1. PICK size \in ReadHandler(RawSize - Len(raw)) :
          /\ raw' = raw \o SubSeq(file.octets, input + 1, input + size)
          /\ input' = input + size /\ eof' = (size = 0)
    BY <1>2 DEF ReadRaw
  <2>2. PICK n \in Nat, i \in Nat, r \in Nat :
          n = Len(file.octets) /\ i = input /\ r = Len(raw)
    BY <2>1, ReadSize
  <2>3. size \in Nat  BY <2>1, ReadSize
  <2>4. i + size <= n /\ r + size <= RawSize  BY <2>1, <2>2, ReadSize
  <2>5. PICK s : s = SubSeq(file.octets, i + 1, i + size)  BY Zenon
  <2>6. s \in Seq(Octets) /\ Len(s) = size
    <3>1. PICK f \in Seq(Octets) : f = file.octets /\ Len(f) = n
      BY <2>2, YamlReaderAssumption DEF ReaderTypes, FileType
    <3>2. s = SubSeq(f, i + 1, i + size)  BY <2>5, <3>1
    <3>3. \A k \in (i + 1)..(i + size) : f[k] \in Octets
      <4>1. \A k \in (i + 1)..(i + size) : k \in 1..Len(f)
        BY ONLY <2>3, <2>4, <3>1, i \in Nat, n \in Nat
      <4> QED  BY <4>1
    <3>4. (i + size) - (i + 1) + 1 = size  BY <2>3
    <3> QED  BY <2>3, <2>4, <3>1, <3>2, <3>3, <3>4, SubSeqProperties
  <2>7. raw' = raw \o s  BY <2>1, <2>2, <2>5
  <2>8. raw' \in Seq(Octets) /\ Len(raw') = r + size
    <3>1. PICK w \in Seq(Octets) : w = raw /\ Len(w) = r  BY <2>2 DEF ReaderTypes
    <3>2. w \o s \in Seq(Octets) /\ Len(w \o s) = r + size
      BY ONLY <2>6, <3>1, w \in Seq(Octets)
    <3> QED  BY <2>7, <3>1, <3>2
  <2>9. input' \in 0..Len(file.octets)  BY <2>1, <2>2, <2>3, <2>4
  <2>10. Len(raw') <= RawSize  BY <2>4, <2>8
  <2> QED  BY <2>1, <2>8, <2>9, <2>10
<1> QED  BY <1>1, <1>2 DEF UpdateRaw

LEMMA BufferFacts ==
  ASSUME BufferInv
  PROVE  /\ ReaderTypes /\ Filling /\ BufferFits
         /\ Len(buffer) \in Nat /\ Len(raw) \in Nat /\ start \in Nat /\ unread \in Nat
         /\ Len(raw) <= RawSize /\ length \in Nat /\ length <= MaxLength
         /\ eof \in BOOLEAN /\ first \in BOOLEAN
         /\ start + Len(buffer) <= BufferSize /\ Len(buffer) <= 4 * unread
         /\ buffer \in Seq(Octets) /\ raw \in Seq(Octets)
<1>1. /\ ReaderTypes /\ Filling /\ BufferFits
      /\ \E c : Characters(buffer, unread, c)
  BY DEF BufferInv
<1>2. /\ start \in Nat /\ unread \in Nat /\ buffer \in Seq(Octets) /\ raw \in Seq(Octets)
      /\ Len(raw) <= RawSize /\ length \in 0..MaxLength
      /\ eof \in BOOLEAN /\ first \in BOOLEAN
  BY <1>1 DEF ReaderTypes
<1>3. Len(buffer) \in Nat /\ Len(raw) \in Nat  BY <1>2
<1>4. Len(buffer) <= 4 * unread  BY <1>1, <1>2, AtMostFour
<1>5. start + Len(buffer) <= BufferSize  BY <1>1 DEF BufferFits
<1>6. length \in Nat /\ length <= MaxLength  BY <1>2, Sizes
<1> QED  BY <1>1, <1>2, <1>3, <1>4, <1>5, <1>6

\* The raw buffer is read into, or given back from; the buffer stays.
LEMMA RawChanges ==
  ASSUME BufferInv, doing # "scan", file' = file, bufferVars' = bufferVars,
         length' = length, doing' # "scan", first' \in BOOLEAN,
         input' \in 0..Len(file.octets), raw' \in Seq(Octets), Len(raw') <= RawSize,
         eof' \in BOOLEAN, Filling'
  PROVE  BufferInv'
<1>1. buffer' = buffer /\ start' = start /\ unread' = unread  BY DEF bufferVars
<1>2. ReaderTypes'  BY <1>1 DEF BufferInv, ReaderTypes
<1>3. BufferFits'  BY <1>1 DEF BufferInv, BufferFits
<1>4. PICK c : Characters(buffer, unread, c)  BY DEF BufferInv
<1>5. Characters(buffer, unread, c)' /\ NulIsThere(c)'  BY <1>1, <1>4 DEF NulIsThere
<1> QED  BY <1>2, <1>3, <1>5 DEF BufferInv

LEMMA ReadMarkFits == ASSUME BufferInv, ReadMark PROVE BufferInv'
<1>1. CASE InputError
  <2>1. ReaderError("input")  BY <1>1 DEF InputError
  <2> QED  BY <2>1, ReaderFails
<1>2. CASE /\ UpdateRaw /\ file' = file /\ bufferVars' = bufferVars /\ length' = length
           /\ first' = first /\ doing' = doing /\ doing = "encoding"
  <2>1. ReaderTypes /\ Filling  BY DEF BufferInv
  <2>2. /\ input' \in 0..Len(file.octets) /\ raw' \in Seq(Octets)
        /\ Len(raw') <= RawSize /\ eof' \in BOOLEAN
    BY <1>2, <2>1, UpdateRawFits
  <2>3. buffer' = buffer /\ start' = start /\ unread' = unread  BY <1>2 DEF bufferVars
  <2>4. Filling'  BY <1>2, <2>1, <2>3 DEF Filling
  <2>5. first' \in BOOLEAN  BY <1>2, <2>1 DEF ReaderTypes
  <2> QED  BY <1>2, <2>2, <2>4, <2>5, RawChanges
<1> QED  BY <1>1, <1>2 DEF ReadMark

LEMMA DetermineFits == ASSUME BufferInv, DetermineEncoding PROVE BufferInv'
<1>1. ReaderTypes /\ Filling /\ raw \in Seq(Octets) /\ Len(raw) \in Nat /\ Len(raw) <= RawSize
  BY BufferFacts
<1>2. PICK n : /\ raw' = Drop(raw, n) /\ n \in Nat /\ n <= Len(raw)
  <2>1. PICK mark : /\ raw' = Drop(raw, mark[2])
                    /\ mark = CASE IsPrefix(<<255, 254>>, raw)      -> <<"UTF-16LE", 2>>
                                [] IsPrefix(<<254, 255>>, raw)      -> <<"UTF-16BE", 2>>
                                [] IsPrefix(<<239, 187, 191>>, raw) -> <<"UTF-8", 3>>
                                [] OTHER                            -> <<"UTF-8", 0>>
    BY Zenon DEF DetermineEncoding
  <2>2. IsPrefix(<<255, 254>>, raw) => 2 <= Len(raw)  BY <1>1 DEF IsPrefix
  <2>3. IsPrefix(<<254, 255>>, raw) => 2 <= Len(raw)  BY <1>1 DEF IsPrefix
  <2>4. IsPrefix(<<239, 187, 191>>, raw) => 3 <= Len(raw)  BY <1>1 DEF IsPrefix
  <2>5. mark[2] \in Nat /\ mark[2] <= Len(raw)  BY <1>1, <2>1, <2>2, <2>3, <2>4
  <2> QED  BY <2>1, <2>5
<1>3. raw' \in Seq(Octets) /\ Len(raw') <= RawSize
  <2>1. n \in 0..Len(raw)  BY <1>1, <1>2
  <2>2. Drop(raw, n) \in Seq(Octets) /\ Len(Drop(raw, n)) = Len(raw) - n
    BY <1>1, <2>1, DropFacts
  <2> QED  BY <1>1, <1>2, <2>2, Sizes
<1>4. /\ doing = "encoding" /\ doing' = "fill" /\ input' = input /\ eof' = eof
      /\ bufferVars' = bufferVars /\ file' = file /\ length' = length /\ first' = first
  BY DEF DetermineEncoding
<1>5. buffer' = buffer /\ start' = start /\ unread' = unread  BY <1>4 DEF bufferVars
<1>6. Filling'  BY <1>1, <1>4, <1>5 DEF Filling
<1>7. input' \in 0..Len(file.octets) /\ eof' \in BOOLEAN /\ first' \in BOOLEAN
  BY <1>1, <1>4 DEF ReaderTypes
<1> QED  BY <1>3, <1>4, <1>6, <1>7, RawChanges

LEMMA FillFits == ASSUME BufferInv, Fill PROVE BufferInv'
<1>1. CASE InputError
  <2>1. ReaderError("input")  BY <1>1 DEF InputError
  <2> QED  BY <2>1, ReaderFails
<1>2. CASE ~ InputError
  <2>1. /\ doing = "fill" /\ unread < length /\ doing' = "decode" /\ first' = FALSE
        /\ file' = file /\ bufferVars' = bufferVars /\ length' = length
        /\ UpdateRaw \/ rawVars' = rawVars
    BY <1>2 DEF Fill
  <2>2. ReaderTypes /\ Filling  BY BufferFacts
  <2>3. /\ input' \in 0..Len(file.octets) /\ raw' \in Seq(Octets)
        /\ Len(raw') <= RawSize /\ eof' \in BOOLEAN
    <3>1. CASE UpdateRaw  BY <2>2, <3>1, UpdateRawFits
    <3>2. CASE rawVars' = rawVars
      <4>1. input' = input /\ raw' = raw /\ eof' = eof  BY <3>2 DEF rawVars
      <4> QED  BY <2>2, <4>1 DEF ReaderTypes
    <3> QED  BY <2>1, <3>1, <3>2
  <2>4. buffer' = buffer /\ start' = start /\ unread' = unread  BY <2>1 DEF bufferVars
  <2>5. 2 * Len(buffer) + 3 * Len(raw') <= 8 * (length - 1) + 3 * RawSize
    <3>1. Len(buffer) <= 4 * unread /\ unread <= length - 1
      BY <2>1, BufferFacts
    <3>2. Len(raw') \in Nat  BY <2>3
    <3> QED  BY SMTT(60), <2>3, <3>1, <3>2, BufferFacts, Sizes
  <2>6. Filling'  BY <2>1, <2>2, <2>4, <2>5 DEF Filling
  <2> QED  BY <2>1, <2>3, <2>6, RawChanges
<1> QED  BY <1>1, <1>2

LEMMA UpdateFits ==
  ASSUME BufferInv, NEW n \in Nat, n <= MaxLength, UpdateBuffer(n) PROVE BufferInv'
<1>1. /\ doing = "scan" /\ ~ Cached(n) /\ length' = n /\ first' = TRUE /\ start' = 0
      /\ doing' \in {"encoding", "fill"} /\ file' = file /\ rawVars' = rawVars
      /\ buffer' = buffer /\ unread' = unread
  BY DEF UpdateBuffer, MoveUnread
<1>2. input' = input /\ raw' = raw /\ eof' = eof  BY <1>1 DEF rawVars
<1>3. unread < n  BY <1>1, BufferFacts DEF Cached
<1>4. ReaderTypes'
  <2>1. n \in 0..MaxLength  BY Sizes
  <2> QED  BY <1>1, <1>2, <2>1 DEF BufferInv, ReaderTypes
<1>5. Filling'  BY <1>1, <1>3 DEF Filling
<1>6. BufferFits'  BY <1>1, BufferFacts, Sizes DEF BufferFits
<1>7. PICK c : Characters(buffer, unread, c)  BY DEF BufferInv
<1>8. Characters(buffer, unread, c)' /\ NulIsThere(c)'  BY <1>1, <1>7 DEF NulIsThere
<1> QED  BY <1>4, <1>5, <1>6, <1>8 DEF BufferInv

LEMMA FilledFits == ASSUME BufferInv, Filled PROVE BufferInv'
<1>1. /\ doing = "fill" /\ unread >= length /\ doing' = "scan" /\ file' = file
      /\ rawVars' = rawVars /\ bufferVars' = bufferVars /\ length' = length /\ first' = first
  BY DEF Filled
<1>2. /\ input' = input /\ raw' = raw /\ eof' = eof
      /\ buffer' = buffer /\ start' = start /\ unread' = unread
  BY <1>1 DEF rawVars, bufferVars
<1>3. ~ eof
  <2>1. ~ (unread < length)  BY <1>1, BufferFacts
  <2> QED  BY <1>1, <2>1, BufferFacts DEF Filling
<1>4. ReaderTypes' /\ BufferFits'  BY <1>1, <1>2 DEF BufferInv, ReaderTypes, BufferFits
<1>5. Filling'  BY <1>1 DEF Filling
<1>6. PICK c : Characters(buffer, unread, c)  BY DEF BufferInv
<1>7. Characters(buffer, unread, c)' /\ NulIsThere(c)'  BY <1>2, <1>3, <1>6 DEF NulIsThere
<1> QED  BY <1>4, <1>5, <1>7 DEF BufferInv

\* A character goes from the raw buffer into the buffer: the bound stays.
LEMMA DecodeFits == ASSUME BufferInv, Decode PROVE BufferInv'
<1>1. /\ doing = "decode" /\ raw # <<>> /\ NextChar.fault = "none" /\ doing' = "decode"
      /\ raw' = Drop(raw, NextChar.width) /\ buffer' = buffer \o Utf8(NextChar.value)
      /\ unread' = unread + 1 /\ start' = start /\ length' = length /\ first' = first
      /\ file' = file /\ input' = input /\ eof' = eof
  BY DEF Decode
<1>2. PICK w, v, x : w = NextChar.width /\ v = NextChar.value /\ x = Utf8(v)  BY Zenon
<1>3. /\ raw \in Seq(Octets) /\ buffer \in Seq(Octets) /\ Len(raw) \in Nat
      /\ Len(buffer) \in Nat /\ unread \in Nat /\ ReaderTypes /\ Filling
      /\ Len(raw) <= RawSize /\ length \in Nat /\ length <= MaxLength
  BY BufferFacts
<1>4. w \in 1..Len(raw) /\ v \in Nat /\ v <= 1114111 /\ 2 * Len(x) <= 3 * w
  BY <1>1, <1>2, <1>3, NextFits
<1>5. x \in Seq(Octets) /\ Len(x) \in 1..4 /\ Width(x[1]) = Len(x)
  BY <1>2, <1>4, Encodes
<1>6. raw' \in Seq(Octets) /\ Len(raw') = Len(raw) - w
  <2>1. w \in 0..Len(raw)  BY <1>3, <1>4
  <2>2. Drop(raw, w) \in Seq(Octets) /\ Len(Drop(raw, w)) = Len(raw) - w
    BY <1>3, <2>1, DropFacts
  <2> QED  BY <1>1, <1>2, <2>2
<1>7. buffer' \in Seq(Octets) /\ Len(buffer') = Len(buffer) + Len(x)
  <2>1. buffer' = buffer \o x  BY <1>1, <1>2
  <2>2. buffer \o x \in Seq(Octets) /\ Len(buffer \o x) = Len(buffer) + Len(x)
    BY ONLY <1>3, <1>5
  <2> QED  BY <2>1, <2>2
<1>8. 2 * Len(buffer') + 3 * Len(raw') <= 8 * (length - 1) + 3 * RawSize
  <2>1. 2 * Len(buffer) + 3 * Len(raw) <= 8 * (length - 1) + 3 * RawSize
    BY <1>1, <1>3 DEF Filling
  <2>2. Len(x) \in Nat /\ w \in Nat  BY <1>3, <1>4, <1>5
  <2> QED  BY <1>3, <1>4, <1>6, <1>7, <2>1, <2>2, Sizes
<1>9. Filling'  BY <1>1, <1>3, <1>8 DEF Filling
<1>10. ReaderTypes'
  <2>1. Len(raw') <= RawSize  BY <1>3, <1>4, <1>6, Sizes
  <2>2. unread' \in Nat  BY <1>1, <1>3
  <2> QED  BY <1>1, <1>3, <1>6, <1>7, <2>1, <2>2 DEF ReaderTypes
<1>11. BufferFits'
  <2>1. start' = 0  BY <1>1, <1>3 DEF Filling
  <2>2. Len(buffer') \in Nat /\ Len(raw') \in Nat  BY <1>6, <1>7
  <2>3. 0 + Len(buffer') <= BufferSize  BY <1>3, <1>8, <2>2, Sizes
  <2> QED  BY <2>1, <2>3 DEF BufferFits
<1>12. PICK c : Characters(buffer, unread, c)  BY DEF BufferInv
<1>13. \E c2 : Characters(buffer', unread', c2)
  <2>1. \E c2 : Characters(buffer \o x, unread + 1, c2)
    BY ONLY <1>3, <1>5, <1>12, OneMore
  <2> QED  BY <1>1, <1>2, <2>1
<1>14. \E c2 : Characters(buffer, unread, c2)' /\ NulIsThere(c2)'  BY <1>1, <1>13 DEF NulIsThere
<1> QED  BY <1>9, <1>10, <1>11, <1>14 DEF BufferInv

LEMMA DecodedFits == ASSUME BufferInv, Decoded PROVE BufferInv'
<1>1. /\ doing = "decode" /\ start' = start /\ length' = length /\ first' = first
      /\ file' = file /\ rawVars' = rawVars
      /\ doing' = IF eof THEN "scan" ELSE "fill"
  BY DEF Decoded
<1>2. input' = input /\ raw' = raw /\ eof' = eof  BY <1>1 DEF rawVars
<1>3. /\ buffer \in Seq(Octets) /\ Len(buffer) \in Nat /\ Len(raw) \in Nat
      /\ unread \in Nat /\ ReaderTypes /\ Filling /\ BufferFits
      /\ length \in Nat /\ length <= MaxLength
  BY BufferFacts
<1>4. /\ start = 0 /\ ~ first
      /\ 2 * Len(buffer) + 3 * Len(raw) <= 8 * (length - 1) + 3 * RawSize
  BY <1>1, <1>3 DEF Filling
<1>5. PICK c : Characters(buffer, unread, c)  BY DEF BufferInv
<1>6. CASE eof
  <2>1. buffer' = Append(buffer, NUL) /\ unread' = unread + 1 /\ doing' = "scan"
    BY <1>1, <1>6 DEF Decoded
  <2>2. PICK x : x = <<NUL>>  BY Zenon
  <2>3. x \in Seq(Octets) /\ Len(x) = 1 /\ x[1] = NUL
    <3>1. NUL \in Octets  BY DEF NUL, Octets
    <3> QED  BY <2>2, <3>1
  <2>4. Width(x[1]) = Len(x) /\ Len(x) \in 1..4
    <3>1. Width(0) = 1  BY WidthIs
    <3> QED  BY <2>3, <3>1 DEF NUL
  <2>5. buffer' = buffer \o x  BY <1>3, <2>1, <2>2
  <2>6. PICK c2 : Characters(buffer \o x, unread + 1, c2) /\ c2[unread] = Len(buffer)
    BY ONLY <1>3, <1>5, <2>3, <2>4, OneMore
  <2>7. buffer' \in Seq(Octets) /\ Len(buffer') = Len(buffer) + 1
        /\ buffer'[Len(buffer) + 1] = NUL
    <3>1. /\ buffer \o x \in Seq(Octets) /\ Len(buffer \o x) = Len(buffer) + 1
          /\ (buffer \o x)[Len(buffer) + 1] = x[1]
      <4>1. PICK b \in Seq(Octets), n \in Nat : b = buffer /\ n = Len(b)  BY <1>3
      <4>2. b \o x \in Seq(Octets) /\ Len(b \o x) = n + 1
            /\ (b \o x)[n + 1] = x[1]
        <5>1. PICK y : y = b \o x  BY Zenon
        <5>2. /\ y \in Seq(Octets) /\ Len(y) = Len(b) + Len(x)
              /\ \A i \in 1..(Len(b) + Len(x)) : y[i] = IF i <= Len(b) THEN b[i] ELSE x[i - Len(b)]
          BY <2>3, <5>1, ConcatProperties
        <5>3. n + 1 \in 1..(n + 1) /\ ~ (n + 1 <= n) /\ (n + 1) - n = 1  BY n \in Nat
        <5>4. y[n + 1] = x[1]  BY ONLY <2>3, <4>1, <5>2, <5>3
        <5> QED  BY <2>3, <4>1, <5>1, <5>2, <5>4
      <4> QED  BY <4>1, <4>2
    <3> QED  BY <2>3, <2>5, <3>1
  <2>8. EndsWithNul(buffer', unread', c2)
    <3>1. unread' >= 1 /\ unread' - 1 = unread /\ Len(buffer') - 1 = Len(buffer)
      BY <1>3, <2>1, <2>7
    <3> QED  BY <2>6, <2>7, <3>1 DEF EndsWithNul
  <2>9. BufferFits'
    <3>1. 0 + Len(buffer') <= BufferSize  BY <1>3, <1>4, <2>7, Sizes
    <3> QED  BY <1>1, <1>4, <3>1 DEF BufferFits
  <2>10. ReaderTypes'  BY <1>1, <1>2, <1>3, <2>1, <2>7 DEF ReaderTypes
  <2>11. Filling'  BY <2>1 DEF Filling
  <2>12. Characters(buffer, unread, c2)' /\ NulIsThere(c2)'
    BY <2>1, <2>5, <2>6, <2>8 DEF NulIsThere
  <2> QED  BY <2>9, <2>10, <2>11, <2>12 DEF BufferInv
<1>7. CASE ~ eof
  <2>1. buffer' = buffer /\ unread' = unread /\ doing' = "fill"
    BY <1>1, <1>7 DEF Decoded
  <2>2. 2 * Len(buffer) <= 8 * (length - 1) + 3 * RawSize
    BY <1>3, <1>4, Sizes
  <2>3. Filling'  BY <1>1, <1>2, <1>4, <1>7, <2>1, <2>2 DEF Filling
  <2>4. ReaderTypes' /\ BufferFits'
    BY <1>1, <1>2, <1>3, <2>1 DEF ReaderTypes, BufferFits
  <2>5. Characters(buffer, unread, c)' /\ NulIsThere(c)'  BY <1>5, <2>1 DEF NulIsThere
  <2> QED  BY <2>3, <2>4, <2>5 DEF BufferInv
<1> QED  BY <1>6, <1>7

LEMMA ReaderStepFits == ASSUME BufferInv, ReaderStep PROVE BufferInv'
<1>1. CASE DecodeFails  BY <1>1, ReaderFails DEF DecodeFails
<1>2. CASE ReadMark \/ DetermineEncoding \/ Fill  BY <1>2, ReadMarkFits, DetermineFits, FillFits
<1>3. CASE Decode \/ Decoded \/ Filled  BY <1>3, DecodeFits, DecodedFits, FilledFits
<1> QED  BY <1>1, <1>2, <1>3 DEF ReaderStep

-----------------------------------------------------------------------------
(* The scanner                                                             *)

\* It looks at the buffer, whose characters end where c says.
Scanning(c) ==
    /\ BufferInv /\ doing = "scan" /\ error = "none"
    /\ Characters(buffer, unread, c) /\ NulIsThere(c)

LEMMA ScanningFacts ==
  ASSUME NEW c, Scanning(c)
  PROVE  /\ buffer \in Seq(Octets) /\ Len(buffer) \in Nat /\ unread \in Nat
         /\ start \in Nat /\ start + Len(buffer) <= BufferSize /\ BufferSize \in Nat
         /\ Characters(buffer, unread, c) /\ c[0] = 0 /\ c[unread] = Len(buffer)
<1>1. BufferInv /\ Characters(buffer, unread, c)  BY DEF Scanning
<1> QED  BY <1>1, BufferFacts, Sizes DEF Characters

\* Whole characters are taken, up to one that is not the NUL.
LEMMA TakeKeeps ==
  ASSUME NEW c, Scanning(c), NEW m \in 1..unread, Octet(c[m - 1]) # NUL, Take(c[m], m)
  PROVE  BufferInv'
<1>1. /\ buffer' = Drop(buffer, c[m]) /\ start' = start + c[m] /\ unread' = unread - m
      /\ file' = file /\ rawVars' = rawVars /\ length' = length /\ first' = first
      /\ doing' = doing /\ error' = error
  BY DEF Take
<1>2. input' = input /\ raw' = raw /\ eof' = eof  BY <1>1 DEF rawVars
<1>3. /\ buffer \in Seq(Octets) /\ Len(buffer) \in Nat /\ unread \in Nat
      /\ start \in Nat /\ start + Len(buffer) <= BufferSize /\ BufferSize \in Nat
      /\ Characters(buffer, unread, c)
  BY ScanningFacts
<1>4. PICK c2 : c2 = [i \in 0..(unread - m) |-> c[i + m] - c[m]]  BY Zenon
<1>5. m \in 0..unread /\ m - 1 \in 0..unread /\ m \in (m - 1)..unread /\ m \in Nat
      /\ unread \in m..unread
  BY <1>3
<1>6. Characters(buffer', unread', c2) /\ c[m] \in 0..Len(buffer)
  BY <1>1, <1>3, <1>4, <1>5, SomeTaken
<1>7. buffer[c[m - 1] + 1] # NUL
  <2>1. c[m - 1] \in Nat /\ c[m] \in Nat /\ c[m - 1] + (m - (m - 1)) <= c[m]
    BY <1>3, <1>5, Between
  <2>2. c[m - 1] < Len(buffer)  BY <1>3, <1>5, <1>6, <2>1
  <2> QED  BY <2>2 DEF Octet
<1>8. NulIsThere(c2)'
  <2> SUFFICES ASSUME eof, raw = <<>>  PROVE EndsWithNul(buffer', unread', c2)
    BY <1>2 DEF NulIsThere
  <2>1. EndsWithNul(buffer, unread, c)  BY DEF Scanning, NulIsThere
  <2> QED  BY <1>1, <1>3, <1>4, <1>7, <2>1, NulLeft
<1>9. buffer' \in Seq(Octets) /\ Len(buffer') = Len(buffer) - c[m]
  BY <1>1, <1>3, <1>6, DropFacts
<1>10. c[m] \in Nat /\ c[m] <= Len(buffer)  BY <1>3, <1>6
<1>11. BufferFits'
  <2>1. (start + c[m]) + (Len(buffer) - c[m]) <= BufferSize  BY <1>3, <1>10
  <2> QED  BY <1>1, <1>9, <2>1 DEF BufferFits
<1>12. ReaderTypes'
  <2>1. ReaderTypes  BY DEF Scanning, BufferInv
  <2>2. start' \in Nat /\ unread' \in Nat  BY <1>1, <1>3, <1>10, m \in 1..unread
  <2> QED  BY <1>1, <1>2, <1>9, <2>1, <2>2 DEF ReaderTypes
<1>13. Filling'  BY <1>1 DEF Filling, Scanning
<1> QED  BY <1>6, <1>8, <1>11, <1>12, <1>13 DEF BufferInv

\* Where there is an octet, there is a character of its width.
LEMMA NextOne ==
  ASSUME NEW c, Scanning(c), NEW k \in 0..unread, Octet(c[k]) # Behind
  PROVE  k + 1 \in 1..unread /\ c[k + 1] = c[k] + Width(Octet(c[k]))
<1>1. /\ buffer \in Seq(Octets) /\ Len(buffer) \in Nat /\ unread \in Nat
      /\ Characters(buffer, unread, c) /\ c[unread] = Len(buffer)
  BY ScanningFacts
<1>2. c[k] < Len(buffer) /\ Octet(c[k]) = buffer[c[k] + 1]  BY DEF Octet
<1>3. k # unread  BY <1>1, <1>2
<1>4. k \in Nat /\ k + 1 \in 1..unread /\ k + 1 \in k..unread /\ k \in 0..(unread - 1)
  BY <1>1, <1>3
<1>5. c[k] \in Nat /\ c[k + 1] \in Nat  BY <1>1, <1>4, Between
<1>6. Width(buffer[c[k] + 1]) = c[k + 1] - c[k]  BY <1>1, <1>4 DEF Characters
<1> QED  BY <1>2, <1>4, <1>5, <1>6

Ascii(o) == o \in Nat /\ 1 <= o /\ o <= 127

LEMMA OneAscii ==
  ASSUME NEW c, Scanning(c), NEW k \in 0..unread, c[k] = k, Ascii(Octet(k))
  PROVE  k + 1 \in 1..unread /\ k + 1 \in 0..unread /\ c[k + 1] = k + 1 /\ Octet(c[k]) # NUL
<1>1. Octet(c[k]) \in Nat /\ Octet(c[k]) # Behind /\ Octet(c[k]) # NUL /\ Octet(c[k]) <= 127
  BY DEF Ascii, Behind, NUL
<1>2. k + 1 \in 1..unread /\ c[k + 1] = c[k] + Width(Octet(c[k]))  BY <1>1, NextOne
<1>3. Width(Octet(c[k])) = 1  BY <1>1, WidthIs
<1>4. unread \in Nat  BY ScanningFacts
<1> QED  BY <1>1, <1>2, <1>3, <1>4

LEMMA Zero == ASSUME NEW c, Scanning(c) PROVE 0 \in 0..unread /\ c[0] = 0
BY ScanningFacts

LEMMA TakeOne ==
  ASSUME NEW c, Scanning(c), Octet(0) # Behind, Octet(0) # NUL, Take(Width(Octet(0)), 1)
  PROVE  BufferInv'
<1>1. 0 \in 0..unread /\ c[0] = 0  BY Zero
<1>2. 1 \in 1..unread /\ c[1] = Width(Octet(0))
  <2>1. 0 + 1 \in 1..unread /\ c[0 + 1] = c[0] + Width(Octet(c[0]))  BY <1>1, NextOne
  <2>2. Width(Octet(0)) \in Int
    BY DEF Width
  <2> QED  BY <1>1, <2>1, <2>2
<1>3. Octet(c[1 - 1]) # NUL  BY <1>1
<1> QED  BY <1>2, <1>3, TakeKeeps

LEMMA TakeTwo ==
  ASSUME NEW c, Scanning(c), Ascii(Octet(0)), Ascii(Octet(1)), Take(2, 2)
  PROVE  BufferInv'
<1>1. 0 \in 0..unread /\ c[0] = 0  BY Zero
<1>2. 1 \in 0..unread /\ c[1] = 1
  <2>1. 0 + 1 \in 0..unread /\ c[0 + 1] = 0 + 1  BY <1>1, OneAscii
  <2> QED  BY <2>1
<1>3. 2 \in 1..unread /\ c[2] = 2 /\ Octet(c[2 - 1]) # NUL
  <2>1. 1 + 1 \in 1..unread /\ c[1 + 1] = 1 + 1 /\ Octet(c[1]) # NUL  BY <1>2, OneAscii
  <2> QED  BY <2>1
<1> QED  BY <1>3, TakeKeeps

LEMMA TakeThree ==
  ASSUME NEW c, Scanning(c), Ascii(Octet(0)), Ascii(Octet(1)), Ascii(Octet(2)), Take(3, 3)
  PROVE  BufferInv'
<1>1. 0 \in 0..unread /\ c[0] = 0  BY Zero
<1>2. 1 \in 0..unread /\ c[1] = 1
  <2>1. 0 + 1 \in 0..unread /\ c[0 + 1] = 0 + 1  BY <1>1, OneAscii
  <2> QED  BY <2>1
<1>3. 2 \in 0..unread /\ c[2] = 2
  <2>1. 1 + 1 \in 0..unread /\ c[1 + 1] = 1 + 1  BY <1>2, OneAscii
  <2> QED  BY <2>1
<1>4. 3 \in 1..unread /\ c[3] = 3 /\ Octet(c[3 - 1]) # NUL
  <2>1. 2 + 1 \in 1..unread /\ c[2 + 1] = 2 + 1 /\ Octet(c[2]) # NUL  BY <1>3, OneAscii
  <2> QED  BY <2>1
<1> QED  BY <1>4, TakeKeeps

\* The digits of an escape.
LEMMA TakeDigits ==
  ASSUME NEW c, Scanning(c), NEW n \in {2, 4, 8}, \A k \in 0..(n - 1) : Ascii(Octet(k)),
         Take(n, n)
  PROVE  BufferInv'
<1>1. 0 \in 0..unread /\ c[0] = 0  BY Zero
<1>2. \A k \in 0..unread : c[k] = k /\ k \in 0..(n - 1) =>
          k + 1 \in 1..unread /\ k + 1 \in 0..unread /\ c[k + 1] = k + 1
  BY OneAscii
<1>3. 1 \in 1..unread /\ 1 \in 0..unread /\ c[1] = 1
  <2>1. 0 + 1 \in 1..unread /\ 0 + 1 \in 0..unread /\ c[0 + 1] = 0 + 1  BY <1>1, <1>2
  <2> QED  BY <2>1
<1>4. 2 \in 1..unread /\ 2 \in 0..unread /\ c[2] = 2
  <2>1. 1 + 1 \in 1..unread /\ 1 + 1 \in 0..unread /\ c[1 + 1] = 1 + 1  BY <1>2, <1>3
  <2> QED  BY <2>1
<1>5. n # 2 => 3 \in 1..unread /\ 3 \in 0..unread /\ c[3] = 3
  <2>1. n # 2 => 2 + 1 \in 1..unread /\ 2 + 1 \in 0..unread /\ c[2 + 1] = 2 + 1  BY <1>2, <1>4
  <2> QED  BY <2>1
<1>6. n # 2 => 4 \in 1..unread /\ 4 \in 0..unread /\ c[4] = 4
  <2>1. n # 2 => 3 + 1 \in 1..unread /\ 3 + 1 \in 0..unread /\ c[3 + 1] = 3 + 1  BY <1>2, <1>5
  <2> QED  BY <2>1
<1>7. n = 8 => 5 \in 1..unread /\ 5 \in 0..unread /\ c[5] = 5
  <2>1. n = 8 => 4 + 1 \in 1..unread /\ 4 + 1 \in 0..unread /\ c[4 + 1] = 4 + 1  BY <1>2, <1>6
  <2> QED  BY <2>1
<1>8. n = 8 => 6 \in 1..unread /\ 6 \in 0..unread /\ c[6] = 6
  <2>1. n = 8 => 5 + 1 \in 1..unread /\ 5 + 1 \in 0..unread /\ c[5 + 1] = 5 + 1  BY <1>2, <1>7
  <2> QED  BY <2>1
<1>9. n = 8 => 7 \in 1..unread /\ 7 \in 0..unread /\ c[7] = 7
  <2>1. n = 8 => 6 + 1 \in 1..unread /\ 6 + 1 \in 0..unread /\ c[6 + 1] = 6 + 1  BY <1>2, <1>8
  <2> QED  BY <2>1
<1>10. n = 8 => 8 \in 1..unread /\ c[8] = 8
  <2>1. n = 8 => 7 + 1 \in 1..unread /\ c[7 + 1] = 7 + 1  BY <1>2, <1>9
  <2> QED  BY <2>1
<1>11. n \in 1..unread /\ c[n] = n /\ c[n - 1] = n - 1 /\ n - 1 \in 0..(n - 1)
  BY <1>3, <1>4, <1>5, <1>6, <1>9, <1>10
<1>12. Octet(c[n - 1]) # NUL  BY <1>11 DEF Ascii, NUL
<1> QED  BY <1>11, <1>12, TakeKeeps

\* The scanner reports an error or looks at the characters without taking any.
LEMMA Looks ==
  ASSUME BufferInv, doing = "scan", readerVars' = readerVars \/ ScannerError
  PROVE  BufferInv'
<1>1. CASE readerVars' = readerVars
  <2>1. /\ file' = file /\ rawVars' = rawVars /\ bufferVars' = bufferVars
        /\ length' = length /\ first' = first /\ doing' = doing /\ error' = error
    BY <1>1 DEF readerVars
  <2> QED  BY <2>1, BufferStays
<1>2. CASE ScannerError
  <2>1. /\ file' = file /\ rawVars' = rawVars /\ bufferVars' = bufferVars
        /\ length' = length /\ first' = first /\ doing' = "scan" /\ error' # "none"
    BY <1>2 DEF ScannerError
  <2> QED  BY <2>1, BufferStays
<1> QED  BY <1>1, <1>2

LEMMA BreakIs == ASSUME NEW k \in Nat, IsBreak(k) PROVE Octet(k) \in {10, 13, 194, 226}
<1>1. CASE Octet(k) \in {Return, LineFeed}  BY <1>1 DEF Return, LineFeed
<1>2. CASE \E break \in {NextLine} \cup Separators : Here(k, break)
  <2>1. PICK break \in {NextLine} \cup Separators : Here(k, break)  BY <1>2
  <2>2. 1 \in DOMAIN break /\ break[1] \in {194, 226}  BY DEF NextLine, Separators
  <2>3. Octet(k + 1 - 1) = break[1]  BY <2>1, <2>2 DEF Here
  <2>4. k + 1 - 1 = k  OBVIOUS
  <2> QED  BY <2>2, <2>3, <2>4
<1> QED  BY <1>1, <1>2 DEF IsBreak

LEMMA CRLFIs ==
  ASSUME NEW k \in Nat, IsCRLF(k) PROVE Octet(k) = 13 /\ Octet(k + 1) = 10
<1>1. PICK crlf : crlf = <<Return, LineFeed>>  BY Zenon
<1>2. 1 \in DOMAIN crlf /\ 2 \in DOMAIN crlf /\ crlf[1] = 13 /\ crlf[2] = 10
  BY <1>1 DEF Return, LineFeed
<1>3. Octet(k + 1 - 1) = crlf[1] /\ Octet(k + 2 - 1) = crlf[2]
  BY <1>1, <1>2 DEF IsCRLF, Here
<1>4. k + 1 - 1 = k /\ k + 2 - 1 = k + 1  OBVIOUS
<1> QED  BY <1>2, <1>3, <1>4

LEMMA TakeLine ==
  ASSUME NEW c, Scanning(c), IsBreak(0), SkipLine(0) PROVE BufferInv'
<1>1. CASE IsCRLF(0)
  <2>1. Octet(0) = 13 /\ Octet(0 + 1) = 10  BY <1>1, CRLFIs
  <2>2. Take(2, 2)
    <3>1. Take(0 + 2, 0 + 2)  BY <1>1 DEF SkipLine
    <3> QED  BY <3>1
  <2> QED  BY <2>1, <2>2, TakeTwo DEF Ascii
<1>2. CASE ~ IsCRLF(0)
  <2>1. Octet(0) \in {10, 13, 194, 226}  BY BreakIs
  <2>2. Take(Width(Octet(0)), 1)
    <3>1. Take(0 + Width(Octet(0)), 0 + 1)  BY <1>2 DEF SkipLine
    <3>2. Width(Octet(0)) \in Int  BY DEF Width
    <3>3. 0 + Width(Octet(0)) = Width(Octet(0)) /\ 0 + 1 = 1  BY <3>2
    <3> QED  BY <3>1, <3>3
  <2> QED  BY <2>1, <2>2, TakeOne DEF Behind, NUL
<1> QED  BY <1>1, <1>2

\* "\" and the line break behind it.
LEMMA TakeEscapedLine ==
  ASSUME NEW c, Scanning(c), Ascii(Octet(0)), IsBreak(1), SkipLine(1) PROVE BufferInv'
<1>1. CASE IsCRLF(1)
  <2>1. Octet(1) = 13 /\ Octet(1 + 1) = 10  BY <1>1, CRLFIs
  <2>2. Take(3, 3)
    <3>1. Take(1 + 2, 1 + 2)  BY <1>1 DEF SkipLine
    <3> QED  BY <3>1
  <2> QED  BY <2>1, <2>2, TakeThree DEF Ascii
<1>2. CASE ~ IsCRLF(1)
  <2>1. Octet(1) \in {10, 13, 194, 226}  BY BreakIs
  <2>2. Take(1 + Width(Octet(1)), 2)
    <3>1. Take(1 + Width(Octet(1)), 1 + 1)  BY <1>2 DEF SkipLine
    <3> QED  BY <3>1
  <2>3. 0 \in 0..unread /\ c[0] = 0  BY Zero
  <2>4. 1 \in 0..unread /\ c[1] = 1
    <3>1. 0 + 1 \in 0..unread /\ c[0 + 1] = 0 + 1  BY <2>3, OneAscii
    <3> QED  BY <3>1
  <2>5. Octet(c[1]) # Behind /\ Octet(c[2 - 1]) # NUL  BY <2>1, <2>4 DEF Behind, NUL
  <2>6. 2 \in 1..unread /\ c[2] = 1 + Width(Octet(1))
    <3>1. 1 + 1 \in 1..unread /\ c[1 + 1] = c[1] + Width(Octet(c[1]))  BY <2>4, <2>5, NextOne
    <3> QED  BY <2>4, <3>1
  <2> QED  BY <2>2, <2>5, <2>6, TakeKeeps
<1> QED  BY <1>1, <1>2

\* Where a character was asked for, there is one, if only the NUL.
LEMMA SomethingThere ==
  ASSUME NEW c, Scanning(c), NEW n \in Nat, n >= 1, Cached(n) PROVE Octet(0) # Behind
<1>1. /\ buffer \in Seq(Octets) /\ Len(buffer) \in Nat /\ unread \in Nat
      /\ Characters(buffer, unread, c)
  BY ScanningFacts
<1>2. unread >= 1
  <2>1. CASE unread >= n  BY <1>1, <2>1
  <2>2. CASE eof /\ raw = <<>>
    <3>1. EndsWithNul(buffer, unread, c)  BY <2>2 DEF Scanning, NulIsThere
    <3> QED  BY <3>1 DEF EndsWithNul
  <2> QED  BY <2>1, <2>2 DEF Cached
<1>3. unread <= Len(buffer)  BY <1>1, AtMostFour
<1>4. 0 < Len(buffer) /\ 1 \in 1..Len(buffer)  BY <1>1, <1>2, <1>3
<1>5. Octet(0) = buffer[1]  BY <1>4 DEF Octet
<1>6. buffer[1] \in Octets  BY <1>1, <1>4
<1> QED  BY <1>5, <1>6 DEF Behind, Octets

LEMMA HexIs == ASSUME NEW k, IsHex(k) PROVE Ascii(Octet(k))
BY DEF IsHex, IsDigit, Ascii

LEMMA UriIs == ASSUME NEW k, IsUri(k) PROVE Ascii(Octet(k))
BY DEF IsUri, IsAlpha, IsDigit, Ascii

LEMMA AsciiIs == ASSUME NEW k, Ascii(Octet(k)) PROVE Octet(k) # Behind /\ Octet(k) # NUL
BY DEF Ascii, Behind, NUL

LEMMA BlankIs == ASSUME NEW k, IsBlank(k) PROVE Ascii(Octet(k))
BY DEF IsBlank, Space, Tab, Ascii

LEMMA QuoteIs == ASSUME RightQuote PROVE Ascii(Octet(0))
BY DEF RightQuote, Apostrophe, Quote, Ascii

LEMMA EscapeIs == ASSUME Escape PROVE Ascii(Octet(0))
BY DEF Escape, Backslash, Ascii

\* How many digits an escape has; it is asked for as many characters.
CodeKnown == code_length \in {0, 2, 4, 8} /\ (at = "code" => code_length # 0)

ScalarInv == BufferInv /\ CodeKnown

LEMMA ScalarStart == Init => ScalarInv
<1> SUFFICES ASSUME Init PROVE ScalarInv  OBVIOUS
<1>1. code_length = 0 /\ at \in {"uri", "start"}  BY DEF Init
<1>2. CodeKnown  BY <1>1 DEF CodeKnown
<1> QED  BY <1>2, BufferStart DEF ScalarInv

LEMMA CodeStays ==
  ASSUME CodeKnown,
         \/ scalarVars' = scalarVars
         \/ at' # "code" /\ code_length' = code_length
  PROVE  CodeKnown'
BY DEF CodeKnown, scalarVars

LEMMA CacheStep == ASSUME ScalarInv, Cache PROVE ScalarInv'
<1>1. PICK n : n = Asked /\ UpdateBuffer(n) /\ scalarVars' = scalarVars
  BY Zenon DEF Cache
<1>2. n \in Nat /\ n <= 8
  <2>1. code_length \in {0, 2, 4, 8}  BY DEF ScalarInv, CodeKnown
  <2> QED  BY <1>1, <2>1 DEF Asked
<1>3. n <= MaxLength  BY <1>2, Sizes
<1>4. BufferInv'  BY <1>1, <1>2, <1>3, UpdateFits DEF ScalarInv
<1> QED  BY <1>1, <1>4, CodeStays DEF ScalarInv

\* What the actions of the scanner start from.
LEMMA AtIs ==
  ASSUME ScalarInv, NEW place, NEW n, At(place, n)
  PROVE  /\ doing = "scan" /\ BufferInv /\ CodeKnown /\ at = place /\ Cached(n)
         /\ \E c : Scanning(c)
<1>1. doing = "scan" /\ error = "none" /\ BufferInv /\ CodeKnown /\ at = place /\ Cached(n)
  BY DEF At, ScalarInv
<1>2. PICK c : Characters(buffer, unread, c) /\ NulIsThere(c)  BY <1>1 DEF BufferInv
<1>3. Scanning(c)  BY <1>1, <1>2 DEF Scanning
<1> QED  BY <1>1, <1>3

\* A character is taken or the buffer stays, and at no "code" comes next.
LEMMA ErrorStep ==
  ASSUME ScalarInv, doing = "scan", ScannerError PROVE ScalarInv'
<1>1. BufferInv'  BY Looks DEF ScalarInv
<1>2. CodeKnown'  BY CodeStays DEF ScannerError, ScalarInv
<1> QED  BY <1>1, <1>2 DEF ScalarInv

LEMMA LookStep ==
  ASSUME ScalarInv, doing = "scan", readerVars' = readerVars,
         at' # "code", code_length' = code_length
  PROVE  ScalarInv'
<1>1. BufferInv'  BY Looks DEF ScalarInv
<1>2. CodeKnown'  BY CodeStays DEF ScalarInv
<1> QED  BY <1>1, <1>2 DEF ScalarInv

LEMMA SkipStep ==
  ASSUME ScalarInv, NEW c, Scanning(c), Octet(0) # Behind, Octet(0) # NUL, Skip,
         at' # "code", code_length' = code_length
  PROVE  ScalarInv'
<1>1. BufferInv'  BY TakeOne DEF Skip
<1>2. CodeKnown'  BY CodeStays DEF ScalarInv
<1> QED  BY <1>1, <1>2 DEF ScalarInv

-----------------------------------------------------------------------------
(* yaml_parser_scan_flow_scalar                                            *)

LEMMA StartStep == ASSUME ScalarInv, Start PROVE ScalarInv'
<1>1. At("start", 4)  BY DEF Start
<1>2. PICK c : Scanning(c)  BY <1>1, AtIs
<1>3. doing = "scan"  BY <1>1, AtIs
<1>4. CASE Octet(0) = (IF kind = "single" THEN Apostrophe ELSE Quote)
  <2>1. Skip /\ at' = "line" /\ code_length' = code_length  BY <1>4 DEF Start, Goto
  <2>2. Octet(0) # Behind /\ Octet(0) # NUL
    BY <1>4 DEF Apostrophe, Quote, Behind, NUL
  <2> QED  BY <1>2, <2>1, <2>2, SkipStep
<1>5. CASE Octet(0) # (IF kind = "single" THEN Apostrophe ELSE Quote)
  <2>1. readerVars' = readerVars /\ at' = "other" /\ code_length' = code_length
    BY <1>5 DEF Start, Goto
  <2> QED  BY <1>3, <2>1, LookStep
<1> QED  BY <1>4, <1>5

LEMMA AtLineStep == ASSUME ScalarInv, AtLine PROVE ScalarInv'
<1>1. doing = "scan"  BY DEF AtLine, At
<1>2. CASE ScannerError  BY <1>1, <1>2, ErrorStep
<1>3. CASE ~ ScannerError
  <2>1. readerVars' = readerVars /\ at' = "chars" /\ code_length' = code_length
    BY <1>3 DEF AtLine
  <2> QED  BY <1>1, <2>1, LookStep
<1> QED  BY <1>2, <1>3

LEMMA EscapedQuoteStep == ASSUME ScalarInv, ReadEscapedQuote PROVE ScalarInv'
<1>1. At("chars", 2) /\ EscapedQuote /\ Take(2, 2) /\ at' = "chars"
      /\ code_length' = code_length
  BY DEF ReadEscapedQuote, Goto
<1>2. PICK c : Scanning(c)  BY <1>1, AtIs
<1>3. PICK two : two = <<Apostrophe, Apostrophe>> /\ Here(0, two)
  BY <1>1, Zenon DEF EscapedQuote
<1>4. 1 \in DOMAIN two /\ 2 \in DOMAIN two /\ two[1] = 39 /\ two[2] = 39
  BY <1>3 DEF Apostrophe
<1>5. Octet(0 + 1 - 1) = 39 /\ Octet(0 + 2 - 1) = 39  BY <1>3, <1>4 DEF Here
<1>6. Octet(0) = 39 /\ Octet(1) = 39
  <2>1. 0 + 1 - 1 = 0 /\ 0 + 2 - 1 = 1  OBVIOUS
  <2> QED  BY <1>5, <2>1
<1>7. BufferInv'  BY <1>1, <1>2, <1>6, TakeTwo DEF Ascii
<1>8. CodeKnown'  BY <1>1, CodeStays DEF ScalarInv
<1> QED  BY <1>7, <1>8 DEF ScalarInv

LEMMA RightQuoteStep == ASSUME ScalarInv, ReadRightQuote PROVE ScalarInv'
<1>1. At("chars", 2) /\ RightQuote /\ Skip /\ at' = "done" /\ code_length' = code_length
  BY DEF ReadRightQuote, Goto
<1>2. PICK c : Scanning(c)  BY <1>1, AtIs
<1>3. Octet(0) # Behind /\ Octet(0) # NUL  BY <1>1, QuoteIs, AsciiIs
<1> QED  BY <1>1, <1>2, <1>3, SkipStep

LEMMA EscapedBreakStep == ASSUME ScalarInv, SkipEscapedBreak PROVE ScalarInv'
<1>1. At("chars", 2) /\ Escape /\ IsBreak(1) /\ SkipLine(1) /\ at' = "end"
      /\ code_length' = code_length
  BY DEF SkipEscapedBreak
<1>2. PICK c : Scanning(c)  BY <1>1, AtIs
<1>3. BufferInv'  BY <1>1, <1>2, EscapeIs, TakeEscapedLine
<1>4. CodeKnown'  BY <1>1, CodeStays DEF ScalarInv
<1> QED  BY <1>3, <1>4 DEF ScalarInv

LEMMA EndQuoteStep == ASSUME ScalarInv, EndQuote PROVE ScalarInv'
<1>1. At("end", 0)  BY DEF EndQuote
<1>2. PICK c : Scanning(c)  BY <1>1, AtIs
<1>3. doing = "scan"  BY <1>1, AtIs
<1>4. CASE buffer = <<>> \/ ~ RightQuote
  <2>1. readerVars' = readerVars /\ at' \in {"done", "blanks"} /\ code_length' = code_length
    BY <1>4 DEF EndQuote, Goto
  <2>2. at' # "code"  BY <2>1
  <2> QED  BY <1>3, <2>1, <2>2, LookStep
<1>5. CASE buffer # <<>> /\ RightQuote
  <2>1. Skip /\ at' = "done" /\ code_length' = code_length
    BY <1>5 DEF EndQuote, Goto
  <2>2. Octet(0) # Behind /\ Octet(0) # NUL  BY <1>5, QuoteIs, AsciiIs
  <2> QED  BY <1>2, <2>1, <2>2, SkipStep
<1> QED  BY <1>4, <1>5

LEMMA EscapeStep == ASSUME ScalarInv, ReadEscape PROVE ScalarInv'
<1>1. At("chars", 2) /\ Escape  BY DEF ReadEscape
<1>2. PICK c : Scanning(c)  BY <1>1, AtIs
<1>3. doing = "scan"  BY <1>1, AtIs
<1>4. CASE \E escape \in Escapes :
              /\ Octet(1) = escape[1] /\ Take(2, 2) /\ at' = "chars"
              /\ code_length' = code_length
  <2>1. PICK escape \in Escapes :
              /\ Octet(1) = escape[1] /\ Take(2, 2) /\ at' = "chars"
              /\ code_length' = code_length
    BY <1>4
  <2>2. Ascii(escape[1])  BY DEF Escapes, Ascii
  <2>3. BufferInv'  BY <1>1, <1>2, <2>1, <2>2, EscapeIs, TakeTwo
  <2>4. CodeKnown'  BY <2>1, CodeStays DEF ScalarInv
  <2> QED  BY <2>3, <2>4 DEF ScalarInv
<1>5. CASE \E code \in Codes :
              Octet(1) = code[1] /\ code_length' = code[2] /\ Take(2, 2)
  <2>1. PICK code \in Codes :
              Octet(1) = code[1] /\ code_length' = code[2] /\ Take(2, 2)
    BY <1>5
  <2>2. Ascii(code[1]) /\ code[2] \in {2, 4, 8}  BY DEF Codes, Ascii
  <2>3. BufferInv'  BY <1>1, <1>2, <2>1, <2>2, EscapeIs, TakeTwo
  <2>4. CodeKnown'  BY <2>1, <2>2 DEF CodeKnown
  <2> QED  BY <2>3, <2>4 DEF ScalarInv
<1>6. CASE ScannerError  BY <1>3, <1>6, ErrorStep
<1> QED  BY <1>4, <1>5, <1>6 DEF ReadEscape, Goto

LEMMA CodeStep == ASSUME ScalarInv, ReadCode PROVE ScalarInv'
<1>1. At("code", code_length)  BY DEF ReadCode
<1>2. PICK c : Scanning(c)  BY <1>1, AtIs
<1>3. doing = "scan" /\ CodeKnown /\ at = "code"  BY <1>1, AtIs
<1>4. CASE ScannerError  BY <1>3, <1>4, ErrorStep
<1>5. CASE ~ ScannerError
  <2>1. /\ \A k \in 0..(code_length - 1) : IsHex(k)
        /\ Take(code_length, code_length) /\ at' = "chars" /\ code_length' = 0
    BY <1>5 DEF ReadCode
  <2>2. PICK n \in {2, 4, 8} : n = code_length  BY <1>3 DEF CodeKnown
  <2>3. \A k \in 0..(n - 1) : Ascii(Octet(k))  BY <2>1, <2>2, HexIs
  <2>4. Take(n, n)  BY <2>1, <2>2
  <2>5. BufferInv'  BY <1>2, <2>3, <2>4, TakeDigits
  <2>6. CodeKnown'  BY <2>1 DEF CodeKnown
  <2> QED  BY <2>5, <2>6 DEF ScalarInv
<1> QED  BY <1>4, <1>5

LEMMA CharStep == ASSUME ScalarInv, ReadChar PROVE ScalarInv'
<1>1. At("chars", 2) /\ ~ IsBlankZ(0) /\ Skip /\ at' = "chars" /\ code_length' = code_length
  BY DEF ReadChar, Goto
<1>2. PICK c : Scanning(c)  BY <1>1, AtIs
<1>3. Cached(2)  BY <1>1, AtIs
<1>4. Octet(0) # Behind  BY <1>2, <1>3, SomethingThere
<1>5. Octet(0) # NUL  BY <1>1 DEF IsBlankZ, IsZ
<1> QED  BY <1>1, <1>2, <1>4, <1>5, SkipStep

LEMMA BlankStep == ASSUME ScalarInv, ReadBlank PROVE ScalarInv'
<1>1. At("blanks", 1) /\ IsBlank(0) /\ Skip /\ at' = "blanks" /\ code_length' = code_length
  BY DEF ReadBlank, Goto
<1>2. PICK c : Scanning(c)  BY <1>1, AtIs
<1>3. Octet(0) # Behind /\ Octet(0) # NUL  BY <1>1, BlankIs, AsciiIs
<1> QED  BY <1>1, <1>2, <1>3, SkipStep

LEMMA BreakStep == ASSUME ScalarInv, ReadBreak PROVE ScalarInv'
<1>1. At("blanks", 1) /\ IsBreak(0) /\ SkipLine(0) /\ at' = at /\ code_length' = code_length
  BY DEF ReadBreak
<1>2. PICK c : Scanning(c)  BY <1>1, AtIs
<1>3. at' # "code"  BY <1>1, AtIs
<1>4. BufferInv'  BY <1>1, <1>2, TakeLine
<1>5. CodeKnown'  BY <1>1, <1>3, CodeStays DEF ScalarInv
<1> QED  BY <1>4, <1>5 DEF ScalarInv

-----------------------------------------------------------------------------
(* yaml_parser_scan_tag_uri                                                *)

LEMMA UriStep == ASSUME ScalarInv, ReadUri PROVE ScalarInv'
<1>1. At("uri", 1) /\ IsUri(0) /\ Skip /\ at' = "uri" /\ code_length' = code_length
  BY DEF ReadUri, Goto
<1>2. PICK c : Scanning(c)  BY <1>1, AtIs
<1>3. Octet(0) # Behind /\ Octet(0) # NUL  BY <1>1, UriIs, AsciiIs
<1> QED  BY <1>1, <1>2, <1>3, SkipStep

LEMMA UriEscapeStep == ASSUME ScalarInv, ReadUriEscape PROVE ScalarInv'
<1>1. At("octet", 3)  BY DEF ReadUriEscape
<1>2. PICK c : Scanning(c)  BY <1>1, AtIs
<1>3. doing = "scan"  BY <1>1, AtIs
<1>4. CASE ScannerError  BY <1>3, <1>4, ErrorStep
<1>5. CASE readerVars' = readerVars /\ at' = "overrun" /\ code_length' = code_length
  BY <1>3, <1>5, LookStep
<1>6. CASE Take(3, 3) /\ ~ ScannerError
  <2>1. /\ Octet(0) = Percent /\ IsHex(1) /\ IsHex(2) /\ Take(3, 3)
        /\ at' \in {"uri", "octet", "overrun"} /\ code_length' = code_length
    BY <1>6 DEF ReadUriEscape, Goto
  <2>2. Ascii(Octet(0))  BY <2>1 DEF Ascii, Percent
  <2>3. BufferInv'  BY <1>2, <2>1, <2>2, HexIs, TakeThree
  <2>4. at' # "code"  BY <2>1
  <2>5. CodeKnown'  BY <2>1, <2>4, CodeStays DEF ScalarInv
  <2> QED  BY <2>3, <2>5 DEF ScalarInv
<1> QED  BY <1>4, <1>5, <1>6 DEF ReadUriEscape, Goto

\* The steps that take nothing.
LEMMA PlainLooks ==
  ASSUME ScalarInv, LeaveChars \/ JoinOrFold \/ UriEscape PROVE ScalarInv'
<1>1. /\ doing = "scan" /\ readerVars' = readerVars /\ code_length' = code_length
      /\ at' \in {"blanks", "line", "octet"}
  BY DEF LeaveChars, JoinOrFold, UriEscape, At, Goto
<1>2. at' # "code"  BY <1>1
<1> QED  BY <1>1, <1>2, LookStep

LEMMA UriEndsStep == ASSUME ScalarInv, UriEnds PROVE ScalarInv'
<1>1. doing = "scan"  BY DEF UriEnds, At
<1>2. CASE ScannerError  BY <1>1, <1>2, ErrorStep
<1>3. CASE ~ ScannerError
  <2>1. /\ readerVars' = readerVars /\ code_length' = code_length
        /\ at' \in {"done", "overrun"}
    BY <1>3 DEF UriEnds, Goto
  <2>2. at' # "code"  BY <2>1
  <2> QED  BY <1>1, <2>1, <2>2, LookStep
<1> QED  BY <1>2, <1>3

-----------------------------------------------------------------------------
LEMMA ScalarStep == ASSUME ScalarInv, Next PROVE ScalarInv'
<1>1. CASE ReaderStep /\ scalarVars' = scalarVars
  BY <1>1, ReaderStepFits, CodeStays DEF ScalarInv
<1>2. CASE Cache  BY <1>2, CacheStep
<1>3. CASE ScanFlowScalar
  BY <1>3, StartStep, AtLineStep, EscapedQuoteStep, RightQuoteStep, EscapedBreakStep,
     EndQuoteStep, EscapeStep, CodeStep, CharStep, PlainLooks, BlankStep, BreakStep
     DEF ScanFlowScalar
<1>4. CASE ScanTagUri
  BY <1>4, UriStep, PlainLooks, UriEndsStep, UriEscapeStep DEF ScanTagUri
<1> QED  BY <1>1, <1>2, <1>3, <1>4 DEF Next

LEMMA ScalarStutter == ASSUME ScalarInv, vars' = vars PROVE ScalarInv'
<1>1. /\ file' = file /\ rawVars' = rawVars /\ bufferVars' = bufferVars
      /\ length' = length /\ first' = first /\ doing' = doing /\ error' = error
      /\ scalarVars' = scalarVars
  BY DEF vars, readerVars
<1>2. BufferInv'  BY <1>1, BufferStays DEF ScalarInv
<1>3. CodeKnown'  BY <1>1, CodeStays DEF ScalarInv
<1> QED  BY <1>2, <1>3 DEF ScalarInv

\* The reader never writes behind its buffer (reader.c, "There should be enough
\* space in the buffer").
THEOREM BufferNeverOverrun == Spec => []BufferFits
<1>1. ScalarInv /\ [Next]_vars => ScalarInv'  BY ScalarStep, ScalarStutter
<1>2. ScalarInv => BufferFits  BY DEF ScalarInv, BufferInv
<1> QED  BY <1>1, <1>2, ScalarStart, PTL DEF Spec

-----------------------------------------------------------------------------
(* The octets of the raw buffer                                            *)

\* The octets of o from behind the a-th to the b-th.
LEMMA PieceFacts ==
  ASSUME NEW S, NEW o \in Seq(S), NEW a \in Nat, NEW b \in Nat, a <= b, b <= Len(o)
  PROVE  /\ SubSeq(o, a + 1, b) \in Seq(S) /\ Len(SubSeq(o, a + 1, b)) = b - a
         /\ \A i \in 1..(b - a) : SubSeq(o, a + 1, b)[i] = o[a + i]
<1>1. \A k \in (a + 1)..b : o[k] \in S
  <2>1. \A k \in (a + 1)..b : k \in 1..Len(o)  OBVIOUS
  <2> QED  BY <2>1
<1>2. b - (a + 1) + 1 = b - a  OBVIOUS
<1>3. /\ SubSeq(o, a + 1, b) \in Seq(S) /\ Len(SubSeq(o, a + 1, b)) = b - a
      /\ \A i \in 1..(b - a) : SubSeq(o, a + 1, b)[i] = o[(a + 1) + i - 1]
  BY <1>1, <1>2, SubSeqProperties
<1>4. \A i \in 1..(b - a) : (a + 1) + i - 1 = a + i  OBVIOUS
<1> QED  BY <1>3, <1>4

\* Two pieces that follow each other.
LEMMA TwoPieces ==
  ASSUME NEW S, NEW o \in Seq(S), NEW a \in Nat, NEW b \in Nat, NEW d \in Nat,
         a <= b, b <= d, d <= Len(o)
  PROVE  SubSeq(o, a + 1, b) \o SubSeq(o, b + 1, d) = SubSeq(o, a + 1, d)
<1>1. b <= Len(o) /\ a <= d  OBVIOUS
<1>2. PICK s, t, r : s = SubSeq(o, a + 1, b) /\ t = SubSeq(o, b + 1, d) /\ r = SubSeq(o, a + 1, d)
  BY Zenon
<1>3. s \in Seq(S) /\ Len(s) = b - a /\ \A i \in 1..(b - a) : s[i] = o[a + i]
  BY <1>1, <1>2, PieceFacts
<1>4. t \in Seq(S) /\ Len(t) = d - b /\ \A i \in 1..(d - b) : t[i] = o[b + i]
  BY <1>1, <1>2, PieceFacts
<1>5. r \in Seq(S) /\ Len(r) = d - a /\ \A i \in 1..(d - a) : r[i] = o[a + i]
  BY <1>1, <1>2, PieceFacts
<1>6. /\ s \o t \in Seq(S) /\ Len(s \o t) = (b - a) + (d - b)
      /\ \A i \in 1..((b - a) + (d - b)) : (s \o t)[i] = IF i <= b - a THEN s[i] ELSE t[i - (b - a)]
  <2>1. /\ s \o t \in Seq(S) /\ Len(s \o t) = Len(s) + Len(t)
        /\ \A i \in 1..(Len(s) + Len(t)) : (s \o t)[i] = IF i <= Len(s) THEN s[i] ELSE t[i - Len(s)]
    BY <1>3, <1>4, ConcatProperties
  <2>2. Len(s) = b - a /\ Len(t) = d - b  BY <1>3, <1>4
  <2> QED  BY ONLY <2>1, <2>2
<1>7. Len(s \o t) = Len(r)  BY <1>5, <1>6
<1>8. ASSUME NEW i \in 1..Len(r) PROVE (s \o t)[i] = r[i]
  <2>1. i \in Nat /\ 1 <= i /\ i <= d - a /\ i \in 1..((b - a) + (d - b)) /\ i \in 1..(d - a)
    BY <1>5
  <2>2. CASE i <= b - a
    <3>1. i \in 1..(b - a)  BY <2>1, <2>2
    <3> QED  BY <1>3, <1>5, <1>6, <2>1, <2>2, <3>1
  <2>3. CASE ~ (i <= b - a)
    <3>1. i - (b - a) \in 1..(d - b) /\ b + (i - (b - a)) = a + i  BY <2>1, <2>3
    <3> QED  BY <1>4, <1>5, <1>6, <2>1, <2>3, <3>1
  <2> QED  BY <2>2, <2>3
<1> QED  BY <1>2, <1>5, <1>6, <1>7, <1>8, SeqEqual

LEMMA PieceLeft ==
  ASSUME NEW S, NEW o \in Seq(S), NEW a \in Nat, NEW b \in Nat, a <= b, b <= Len(o),
         NEW n \in 0..(b - a)
  PROVE  Drop(SubSeq(o, a + 1, b), n) = SubSeq(o, (a + n) + 1, b)
<1>1. PICK s, r : s = SubSeq(o, a + 1, b) /\ r = SubSeq(o, (a + n) + 1, b)  BY Zenon
<1>2. s \in Seq(S) /\ Len(s) = b - a /\ \A i \in 1..(b - a) : s[i] = o[a + i]
  BY <1>1, PieceFacts
<1>3. r \in Seq(S) /\ Len(r) = b - (a + n) /\ \A i \in 1..(b - (a + n)) : r[i] = o[(a + n) + i]
  <2>1. a + n \in Nat /\ a + n <= b  OBVIOUS
  <2> QED  BY <1>1, <2>1, PieceFacts
<1>4. /\ Drop(s, n) \in Seq(S) /\ Len(Drop(s, n)) = (b - a) - n
      /\ \A i \in 1..((b - a) - n) : Drop(s, n)[i] = s[n + i]
  BY <1>2, DropFacts
<1>5. Len(Drop(s, n)) = Len(r)  BY <1>3, <1>4
<1>6. ASSUME NEW i \in 1..Len(r) PROVE Drop(s, n)[i] = r[i]
  <2>1. /\ i \in 1..((b - a) - n) /\ i \in 1..(b - (a + n)) /\ n + i \in 1..(b - a)
        /\ a + (n + i) = (a + n) + i
    BY <1>3
  <2> QED  BY <1>2, <1>3, <1>4, <2>1
<1> QED  BY <1>1, <1>3, <1>4, <1>5, <1>6, SeqEqual

\* The raw buffer holds the file's octets from offset to input.
RawInv ==
    /\ offset \in Nat /\ offset <= input
    /\ raw = SubSeq(file.octets, offset + 1, input)

LEMMA RawFacts ==
  ASSUME ReaderTypes, RawInv
  PROVE  /\ file.octets \in Seq(Octets) /\ offset \in Nat /\ input \in Nat
         /\ offset <= input /\ input <= Len(file.octets) /\ Len(file.octets) \in Nat
         /\ Len(raw) = input - offset /\ raw = SubSeq(file.octets, offset + 1, input)
<1>1. file.octets \in Seq(Octets)  BY YamlReaderAssumption DEF ReaderTypes, FileType
<1>2. Len(file.octets) \in Nat  BY <1>1
<1>3. PICK n \in Nat : n = Len(file.octets)  BY <1>2
<1>4. input \in Nat /\ input <= n  BY <1>3 DEF ReaderTypes
<1>5. offset \in Nat /\ offset <= input /\ raw = SubSeq(file.octets, offset + 1, input)
  BY DEF RawInv
<1>6. Len(SubSeq(file.octets, offset + 1, input)) = input - offset
  BY <1>1, <1>3, <1>4, <1>5, PieceFacts
<1> QED  BY <1>1, <1>3, <1>4, <1>5, <1>6

LEMMA UpdateRawKeeps ==
  ASSUME ReaderTypes, RawInv, file' = file, UpdateRaw \/ rawVars' = rawVars PROVE RawInv'
<1>1. CASE rawVars' = rawVars
  <2>1. input' = input /\ raw' = raw /\ offset' = offset  BY <1>1 DEF rawVars
  <2> QED  BY <2>1 DEF RawInv
<1>2. CASE ReadRaw
  <2>1. PICK size \in ReadHandler(RawSize - Len(raw)) :
          /\ raw' = raw \o SubSeq(file.octets, input + 1, input + size)
          /\ input' = input + size /\ offset' = offset
    BY <1>2 DEF ReadRaw
  <2>2. size \in Nat /\ input + size <= Len(file.octets)  BY <2>1, ReadSize
  <2>3. /\ file.octets \in Seq(Octets) /\ offset \in Nat /\ input \in Nat
        /\ offset <= input /\ raw = SubSeq(file.octets, offset + 1, input)
    BY RawFacts
  <2>4. input + size \in Nat /\ input <= input + size /\ offset <= input + size  BY <2>2, <2>3
  <2>5. SubSeq(file.octets, offset + 1, input) \o SubSeq(file.octets, input + 1, input + size)
          = SubSeq(file.octets, offset + 1, input + size)
    BY <2>2, <2>3, <2>4, TwoPieces
  <2> QED  BY <2>1, <2>3, <2>4, <2>5 DEF RawInv
<1> QED  BY <1>1, <1>2 DEF UpdateRaw

\* Octets that the reader has done with.
LEMMA OctetsDone ==
  ASSUME ReaderTypes, RawInv, file' = file, input' = input, NEW n \in Nat, n <= Len(raw),
         raw' = Drop(raw, n), offset' = offset + n
  PROVE  RawInv'
<1>1. /\ file.octets \in Seq(Octets) /\ offset \in Nat /\ input \in Nat
      /\ offset <= input /\ input <= Len(file.octets)
      /\ Len(raw) = input - offset /\ raw = SubSeq(file.octets, offset + 1, input)
  BY RawFacts
<1>2. n \in 0..(input - offset)  BY <1>1
<1>3. Drop(SubSeq(file.octets, offset + 1, input), n) = SubSeq(file.octets, (offset + n) + 1, input)
  BY <1>1, <1>2, PieceLeft
<1>4. offset + n \in Nat /\ offset + n <= input  BY <1>1, <1>2
<1> QED  BY <1>1, <1>3, <1>4 DEF RawInv

LEMMA MarkDone == ASSUME BufferInv, RawInv, DetermineEncoding PROVE RawInv'
<1>1. ReaderTypes /\ raw \in Seq(Octets) /\ Len(raw) \in Nat  BY BufferFacts
<1>2. PICK mark : /\ raw' = Drop(raw, mark[2]) /\ offset' = offset + mark[2]
                  /\ mark = CASE IsPrefix(<<255, 254>>, raw)      -> <<"UTF-16LE", 2>>
                              [] IsPrefix(<<254, 255>>, raw)      -> <<"UTF-16BE", 2>>
                              [] IsPrefix(<<239, 187, 191>>, raw) -> <<"UTF-8", 3>>
                              [] OTHER                            -> <<"UTF-8", 0>>
  BY Zenon DEF DetermineEncoding
<1>3. IsPrefix(<<255, 254>>, raw) => 2 <= Len(raw)  BY <1>1 DEF IsPrefix
<1>4. IsPrefix(<<254, 255>>, raw) => 2 <= Len(raw)  BY <1>1 DEF IsPrefix
<1>5. IsPrefix(<<239, 187, 191>>, raw) => 3 <= Len(raw)  BY <1>1 DEF IsPrefix
<1>6. mark[2] \in Nat /\ mark[2] <= Len(raw)  BY <1>1, <1>2, <1>3, <1>4, <1>5
<1>7. file' = file /\ input' = input  BY DEF DetermineEncoding
<1> QED  BY <1>1, <1>2, <1>6, <1>7, OctetsDone

LEMMA CharDone == ASSUME BufferInv, RawInv, Decode PROVE RawInv'
<1>1. /\ raw # <<>> /\ NextChar.fault = "none" /\ file' = file /\ input' = input
      /\ raw' = Drop(raw, NextChar.width) /\ offset' = offset + NextChar.width
  BY DEF Decode
<1>2. ReaderTypes /\ raw \in Seq(Octets) /\ Len(raw) \in Nat  BY BufferFacts
<1>3. NextChar.width \in 1..Len(raw)  BY <1>1, <1>2, NextFits
<1>4. PICK w : w = NextChar.width  BY Zenon
<1>5. w \in Nat /\ w <= Len(raw) /\ raw' = Drop(raw, w) /\ offset' = offset + w
  BY <1>1, <1>2, <1>3, <1>4
<1> QED  BY <1>1, <1>2, <1>5, OctetsDone

\* The steps that leave the raw buffer alone.
LEMMA RawStays ==
  ASSUME RawInv, file' = file, rawVars' = rawVars PROVE RawInv'
BY DEF RawInv, rawVars

LEMMA TokenStays ==
  ASSUME Cache \/ ScanFlowScalar \/ ScanTagUri PROVE file' = file /\ rawVars' = rawVars
<1>1. ASSUME NEW n, NEW m, Take(n, m) PROVE file' = file /\ rawVars' = rawVars
  BY <1>1 DEF Take
<1>2. ScannerError => file' = file /\ rawVars' = rawVars  BY DEF ScannerError
<1>3. readerVars' = readerVars => file' = file /\ rawVars' = rawVars  BY DEF readerVars
<1>4. Skip => file' = file /\ rawVars' = rawVars  BY <1>1 DEF Skip
<1>5. \A k : SkipLine(k) => file' = file /\ rawVars' = rawVars  BY <1>1 DEF SkipLine
<1>6. CASE Cache  BY <1>6 DEF Cache, UpdateBuffer
<1>7. CASE Start  BY <1>3, <1>4, <1>7 DEF Start
<1>8. CASE AtLine  BY <1>2, <1>3, <1>8 DEF AtLine
<1>9. CASE ReadEscapedQuote  BY <1>1, <1>9 DEF ReadEscapedQuote
<1>10. CASE ReadRightQuote \/ ReadChar \/ ReadBlank \/ ReadUri
  BY <1>4, <1>10 DEF ReadRightQuote, ReadChar, ReadBlank, ReadUri
<1>11. CASE SkipEscapedBreak \/ ReadBreak  BY <1>5, <1>11 DEF SkipEscapedBreak, ReadBreak
<1>12. CASE EndQuote  BY <1>3, <1>4, <1>12 DEF EndQuote
<1>13. CASE ReadEscape  BY <1>1, <1>2, <1>13 DEF ReadEscape
<1>14. CASE ReadCode  BY <1>1, <1>2, <1>14 DEF ReadCode
<1>15. CASE LeaveChars \/ JoinOrFold \/ UriEscape
  BY <1>3, <1>15 DEF LeaveChars, JoinOrFold, UriEscape
<1>16. CASE UriEnds  BY <1>2, <1>3, <1>16 DEF UriEnds
<1>17. CASE ReadUriEscape  BY <1>1, <1>2, <1>3, <1>17 DEF ReadUriEscape
<1> QED
  BY <1>6, <1>7, <1>8, <1>9, <1>10, <1>11, <1>12, <1>13, <1>14, <1>15, <1>16, <1>17
     DEF ScanFlowScalar, ScanTagUri

LEMMA RawStep == ASSUME ScalarInv, RawInv, [Next]_vars PROVE RawInv'
<1>1. BufferInv /\ ReaderTypes  BY BufferFacts DEF ScalarInv
<1>2. CASE ReadMark \/ Fill
  <2>1. /\ file' = file
        /\ UpdateRaw \/ rawVars' = rawVars
    BY <1>2 DEF ReadMark, Fill, InputError, ReaderError
  <2> QED  BY <1>1, <2>1, UpdateRawKeeps
<1>3. CASE DetermineEncoding  BY <1>1, <1>3, MarkDone
<1>4. CASE Decode  BY <1>1, <1>4, CharDone
<1>5. CASE DecodeFails \/ Decoded \/ Filled
  <2>1. file' = file /\ rawVars' = rawVars
    BY <1>5 DEF DecodeFails, Decoded, Filled, ReaderError
  <2> QED  BY <2>1, RawStays
<1>6. CASE Cache \/ ScanFlowScalar \/ ScanTagUri  BY <1>6, TokenStays, RawStays
<1>7. CASE vars' = vars
  <2>1. file' = file /\ rawVars' = rawVars  BY <1>7 DEF vars, readerVars
  <2> QED  BY <2>1, RawStays
<1> QED  BY <1>2, <1>3, <1>4, <1>5, <1>6, <1>7 DEF Next, ReaderStep

\* However the read handler cuts the file, the octets that are not decoded yet
\* are the file's next ones: none is lost, and none comes twice.
THEOREM RawInOrder == Spec => [](raw = SubSeq(file.octets, offset + 1, input))
<1>1. Init => RawInv
  <2> SUFFICES ASSUME Init PROVE RawInv  OBVIOUS
  <2>1. offset = 0 /\ input = 0 /\ raw = <<>>  BY DEF Init, ReaderInit
  <2>2. SubSeq(file.octets, 0 + 1, 0) = <<>>  BY SubSeqEmpty
  <2> QED  BY <2>1, <2>2 DEF RawInv
<1>2. ScalarInv /\ [Next]_vars => ScalarInv'  BY ScalarStep, ScalarStutter
<1>3. ScalarInv /\ RawInv /\ [Next]_vars => RawInv'  BY RawStep
<1>4. RawInv => raw = SubSeq(file.octets, offset + 1, input)  BY DEF RawInv
<1> QED  BY <1>1, <1>2, <1>3, <1>4, ScalarStart, PTL DEF Spec

\* The buffer holds whole characters, and unread is how many: the scanner never
\* takes part of one, nor more of them than there are.
THEOREM CharactersCounted == Spec => []CharsWhole
<1>1. ScalarInv /\ [Next]_vars => ScalarInv'  BY ScalarStep, ScalarStutter
<1>2. ScalarInv => CharsWhole
  BY BufferFacts DEF ScalarInv, BufferInv, CharsWhole
<1> QED  BY <1>1, <1>2, ScalarStart, PTL DEF Spec

=============================================================================
