-------------------------- MODULE ArchiveContextProofs --------------------------
(***************************************************************************)
(* Proofs about ArchiveContext, for texts of any length: what the parsers  *)
(* of ChannelUri and PropertiesReader find, and that a channel which is    *)
(* printed is read back as it was.  They go by induction over the text.    *)
(***************************************************************************)
EXTENDS ArchiveContext, WellFoundedInduction, SequenceTheorems, FiniteSetTheorems, TLAPS

\* Every string is a symbol.  (The provers do not know that a literal is a string.)
Symbol ==
    STRING \cup {ChannelUri!SpyPrefix, ChannelUri!AeronPrefix, "?", "=", "|",
                 "session-id", "term-length", "mtu", "sparse", "0", "1"}
Text == Seq(Symbol)

-----------------------------------------------------------------------------
(***************************************************************************)
(* Induction, and what follows from it.                                    *)
(***************************************************************************)
\* Induction over numbers, for the numbers of a set.
LEMMA Induction ==
    ASSUME NEW T, 0 \in T, \A n \in Nat : n \in T => n + 1 \in T
    PROVE  \A n \in Nat : n \in T
<1> DEFINE R == { p \in Nat \X Nat : p[1] < p[2] }
           U == { n \in Nat : n \notin T }
<1>1. IsWellFoundedOn(R, Nat)
  BY NatLessThanWellFounded DEF OpToRel
<1> SUFFICES ASSUME U # {} PROVE FALSE
  OBVIOUS
<1>2. PICK n \in U : \A m \in U : <<m, n>> \notin R
  <2> HIDE DEF R
  <2> QED BY <1>1, WFMin, Zenon
<1>3. n \in Nat /\ n \notin T /\ n # 0
  OBVIOUS
<1>4. n - 1 \in Nat
  BY <1>3
<1>5. n - 1 \in U
  <2>1. n - 1 \in T => (n - 1) + 1 \in T
    BY <1>4
  <2>2. (n - 1) + 1 = n
    BY <1>3
  <2>3. QED
    BY <2>1, <2>2, <1>3, <1>4
<1>6. <<n - 1, n>> \in R
  BY <1>3, <1>4
<1>7. QED
  <2> HIDE DEF R, U
  <2> QED BY <1>2, <1>5, <1>6

\* A set of numbers up to n that is not empty has a greatest one.
LEMMA MaxExists ==
    ASSUME NEW n \in Nat, NEW A, A \subseteq 0..n, A # {}
    PROVE  \E m \in A : \A k \in A : m >= k
<1> DEFINE T == { b \in Nat : \A B \in SUBSET (0..b) : B # {} => \E m \in B : \A k \in B : m >= k }
<1>1. 0 \in T
  <2>1. ASSUME NEW B \in SUBSET (0..0), B # {}
        PROVE  \E m \in B : \A k \in B : m >= k
    <3>1. \A k \in B : k = 0
      OBVIOUS
    <3>2. 0 \in B
      BY <3>1, <2>1
    <3>3. QED
      BY <3>1, <3>2
  <2>2. QED
    BY <2>1
<1>2. ASSUME NEW b \in Nat, b \in T
      PROVE  b + 1 \in T
  <2>1. ASSUME NEW B \in SUBSET (0..(b + 1)), B # {}
        PROVE  \E m \in B : \A k \in B : m >= k
    <3>1. CASE b + 1 \in B
      BY <3>1
    <3>2. CASE b + 1 \notin B
      <4>1. B \in SUBSET (0..b)
        BY <3>2
      <4>2. QED
        BY <4>1, <2>1, <1>2
    <3>3. QED
      BY <3>1, <3>2
  <2>2. QED
    BY <2>1
<1>3. n \in T
  <2> HIDE DEF T
  <2> QED BY <1>1, <1>2, Induction
<1>4. QED
  BY <1>3

\* CHOOSE finds the greatest one.
LEMMA MaxIsGreatest ==
    ASSUME NEW n \in Nat, NEW A, A \subseteq 0..n, A # {}
    PROVE  /\ ChannelUri!Max(A) \in A
           /\ \A k \in A : ChannelUri!Max(A) >= k
  BY MaxExists DEF ChannelUri!Max

\* The numbers 1 to n are n.
LEMMA IntervalSize ==
    ASSUME NEW n \in Nat
    PROVE  IsFiniteSet(1..n) /\ Cardinality(1..n) = n
<1>1. 1 \in Int /\ n \in Int
  OBVIOUS
<1>2. IsFiniteSet(1..n) /\ Cardinality(1..n) = IF 1 > n THEN 0 ELSE n - 1 + 1
  BY <1>1, FS_Interval
<1>3. QED
  BY <1>2

\* Two texts in a row are a text.
LEMMA Texts2 ==
    ASSUME NEW a \in Text, NEW b \in Text
    PROVE  a \o b \in Text
  BY ConcatProperties DEF Text

\* It does not matter which of three texts are joined first.
LEMMA Texts3 ==
    ASSUME NEW a \in Text, NEW b \in Text, NEW c \in Text
    PROVE  (a \o b) \o c = a \o (b \o c)
  BY ConcatAssociative DEF Text

\* Appending is joining a sequence of one element.
LEMMA OneElement ==
    ASSUME NEW S, NEW a \in Seq(S), NEW x \in S
    PROVE  <<x>> \in Seq(S) /\ Append(a, x) = a \o <<x>>
<1>1. <<x>> \in Seq(S)
  OBVIOUS
<1>2. Append(a, x) = a \o <<x>>
  BY AppendIsConcat
<1>3. QED
  BY <1>1, <1>2

\* The same for a text and a symbol.
LEMMA OneSymbol ==
    ASSUME NEW a \in Text, NEW x \in Symbol
    PROVE  <<x>> \in Text /\ a \o <<x>> \in Text /\ Append(a, x) = a \o <<x>>
<1>1. <<x>> \in Text /\ Append(a, x) = a \o <<x>>
  BY OneElement, Zenon DEF Text
<1>2. QED
  BY <1>1, Texts2

\* A first symbol is taken off a text again.
LEMMA HeadTailOfOne ==
    ASSUME NEW x, NEW a \in Text
    PROVE  Head(<<x>> \o a) = x /\ Tail(<<x>> \o a) = a /\ <<x>> \o a # <<>>
  BY DEF Text

\* A piece of a text grows by the symbol that follows it.
LEMMA SubSeqAppend ==
    ASSUME NEW text \in Text, NEW from \in Nat \ {0}, NEW k \in Nat,
           from <= k + 1, k + 1 <= Len(text)
    PROVE  Append(SubSeq(text, from, k), text[k + 1]) = SubSeq(text, from, k + 1)
<1>1. /\ from \in 1..Len(text) /\ k + 1 \in from..Len(text)
  OBVIOUS
<1>2. SubSeq(text, from, k + 1) = SubSeq(text, from, (k + 1) - 1) \o <<text[k + 1]>>
  BY <1>1, SubSeqRecursiveSecond DEF Text
<1>3. (k + 1) - 1 = k
  OBVIOUS
<1>4. SubSeq(text, from, k) \in Text /\ text[k + 1] \in Symbol
  <2>1. \A i \in from..k : text[i] \in Symbol
    BY ElementOfSeq DEF Text
  <2>2. QED
    BY <2>1, <1>1, SubSeqProperties, ElementOfSeq DEF Text
<1>5. QED
  BY <1>2, <1>3, <1>4, AppendIsConcat DEF Text

-----------------------------------------------------------------------------
(***************************************************************************)
(* ChannelUri: the parser, symbol by symbol.                               *)
(***************************************************************************)
Run(body) == ChannelUri!After(body)
ParseNext(body, s, k) == IF k = 0 THEN ChannelUri!Start ELSE ChannelUri!ParseSymbol(s[k - 1], body[k])

\* What the parser knows is given by its recursive definition: the function exists.
LEMMA AfterDef ==
    ASSUME NEW body \in Text
    PROVE  Run(body) = [k \in 0..Len(body) |-> ParseNext(body, Run(body), k)]
<1> DEFINE Follows(n, f) == f = [k \in 0..n |-> ParseNext(body, f, k)]
           T == { n \in Nat : \E f : Follows(n, f) }
<1>0. Len(body) \in Nat
  BY DEF Text
<1>1. 0 \in T
  <2>1. Follows(0, [k \in 0..0 |-> ChannelUri!Start])
    BY DEF ParseNext
  <2>2. QED
    BY <2>1
<1>2. ASSUME NEW n \in Nat, n \in T
      PROVE  n + 1 \in T
  <2>1. PICK f : Follows(n, f)
    BY <1>2
  <2> DEFINE g == [k \in 0..(n + 1) |-> ParseNext(body, f, k)]
  <2>2. \A k \in 0..n : g[k] = f[k]
    BY <2>1
  <2>3. \A k \in 0..(n + 1) : ParseNext(body, g, k) = ParseNext(body, f, k)
    <3> TAKE k \in 0..(n + 1)
    <3>1. CASE k = 0
      BY <3>1 DEF ParseNext
    <3>2. CASE k # 0
      <4>1. k - 1 \in 0..n
        BY <3>2
      <4>2. g[k - 1] = f[k - 1]
        BY <4>1, <2>2
      <4> HIDE DEF g
      <4>3. QED
        BY <3>2, <4>2 DEF ParseNext
    <3>3. QED
      BY <3>1, <3>2
  <2>4. Follows(n + 1, g)
    BY <2>3
  <2>5. QED
    <3> HIDE DEF Follows
    <3> QED BY <2>4
<1>3. \E f : Follows(Len(body), f)
  <2>1. Len(body) \in T
    <3> HIDE DEF T
    <3> QED BY <1>0, <1>1, <1>2, Induction
  <2>2. QED
    BY <2>1, Zenon
<1>4. Run(body) = CHOOSE f : Follows(Len(body), f)
  BY DEF Run, ChannelUri!After, ParseNext
<1>5. QED
  <2> HIDE DEF Follows
  <2>1. Follows(Len(body), CHOOSE f : Follows(Len(body), f))
    BY <1>3, Zenon
  <2>2. Follows(Len(body), Run(body))
    BY <2>1, <1>4, Zenon
  <2>3. QED
    BY <2>2 DEF Follows

\* What it knows at the start,
LEMMA AfterFirst ==
    ASSUME NEW body \in Text
    PROVE  Run(body)[0] = ChannelUri!Start
<1>1. 0 \in 0..Len(body)
  BY DEF Text
<1>2. QED
  BY <1>1, AfterDef DEF ParseNext

\* and what it knows after one more symbol.
LEMMA AfterNext ==
    ASSUME NEW body \in Text, NEW k \in Nat, k + 1 <= Len(body)
    PROVE  Run(body)[k + 1] = ChannelUri!ParseSymbol(Run(body)[k], body[k + 1])
<1>1. Len(body) \in Nat /\ k + 1 \in 0..Len(body) /\ k + 1 # 0 /\ (k + 1) - 1 = k
  BY DEF Text
<1>2. Run(body)[k + 1] = ParseNext(body, Run(body), k + 1)
  <2> DEFINE run == Run(body)
  <2>1. run = [j \in 0..Len(body) |-> ParseNext(body, run, j)]
    BY AfterDef
  <2> HIDE DEF run
  <2>2. QED
    BY <1>1, <2>1
<1>3. QED
  BY <1>1, <1>2 DEF ParseNext

\* Parameters: texts under keys that are texts.
Params == UNION { [keys -> Text] : keys \in SUBSET Text }

ParserState ==
    [state : {"MEDIA", "PARAMS_KEY", "PARAMS_VALUE", "THROWN"},
     media : Text, key : Text, buffer : Text, params : Params]

\* Parameters stay parameters when one is put,
LEMMA PutType ==
    ASSUME NEW params \in Params, NEW key \in Text, NEW value \in Text
    PROVE  ChannelUri!Put(params, key, value) \in Params
<1>1. PICK keys \in SUBSET Text : params \in [keys -> Text]
  BY DEF Params
<1>2. ChannelUri!Put(params, key, value) \in [keys \cup {key} -> Text]
  BY <1>1 DEF ChannelUri!Put
<1>3. QED
  BY <1>2 DEF Params

\* and the parser's state has its type after every symbol,
LEMMA ParseSymbolType ==
    ASSUME NEW s \in ParserState, NEW c \in Symbol
    PROVE  ChannelUri!ParseSymbol(s, c) \in ParserState
<1>1. <<>> \in Text /\ Append(s.buffer, c) \in Text
  BY AppendProperties, EmptySeq DEF ParserState, Text
<1>2. ChannelUri!Put(s.params, s.key, s.buffer) \in Params
  BY PutType DEF ParserState
<1>3. /\ ChannelUri!EndMedia(s) \in ParserState /\ ChannelUri!EndKey(s) \in ParserState
      /\ ChannelUri!EndValue(s) \in ParserState /\ ChannelUri!Buffer(s, c) \in ParserState
      /\ [s EXCEPT !.state = "THROWN"] \in ParserState
  <2> DEFINE put == ChannelUri!Put(s.params, s.key, s.buffer)
             buffer == Append(s.buffer, c)
  <2>1. put \in Params /\ buffer \in Text
    BY <1>1, <1>2
  <2> HIDE DEF put, buffer
  <2>2. QED
    BY <1>1, <2>1 DEF ParserState, ChannelUri!EndMedia, ChannelUri!EndKey, ChannelUri!EndValue,
         ChannelUri!Buffer, put, buffer
<1>4. QED
  <2> HIDE DEF ParserState
  <2> QED BY <1>3 DEF ChannelUri!ParseSymbol

\* of a body of any length.
LEMMA AfterType ==
    ASSUME NEW body \in Text
    PROVE  \A k \in 0..Len(body) : Run(body)[k] \in ParserState
<1> DEFINE T == { k \in Nat : k <= Len(body) => Run(body)[k] \in ParserState }
<1>0. Len(body) \in Nat
  BY DEF Text
<1>1. 0 \in T
  <2>1. <<>> \in Text /\ <<>> \in Params
    <3>1. <<>> \in [{} -> Text]
      OBVIOUS
    <3>2. QED
      BY <3>1, EmptySeq DEF Text, Params
  <2>2. ChannelUri!Start \in ParserState
    BY <2>1 DEF ChannelUri!Start, ParserState
  <2>3. QED
    BY <2>2, AfterFirst
<1>2. ASSUME NEW k \in Nat, k \in T
      PROVE  k + 1 \in T
  <2>1. CASE k + 1 <= Len(body)
    <3>1. body[k + 1] \in Symbol /\ k <= Len(body)
      BY <2>1, <1>0 DEF Text
    <3>2. Run(body)[k] \in ParserState
      BY <3>1, <1>2
    <3>3. Run(body)[k + 1] = ChannelUri!ParseSymbol(Run(body)[k], body[k + 1])
      BY <2>1, AfterNext
    <3>4. Run(body)[k + 1] \in ParserState
      BY <3>1, <3>2, <3>3, ParseSymbolType
    <3>5. QED
      BY <3>4
  <2>2. QED
    BY <2>1
<1>3. \A k \in Nat : k \in T
  <2> HIDE DEF T
  <2> QED BY <1>1, <1>2, Induction
<1>4. QED
  BY <1>3, <1>0

-----------------------------------------------------------------------------
(***************************************************************************)
(* A body that can be cut is parsed as it is cut.                          *)
(***************************************************************************)
\* The places where a body may be cut.
Places(body) == { i \in DOMAIN body : body[i] \in {"?", "=", "|"} }

\* The separators of a body are finitely many places in it.
LEMMA PlacesShape ==
    ASSUME NEW body \in Text
    PROVE  /\ Places(body) \subseteq 1..Len(body) /\ Len(body) \in Nat
           /\ IsFiniteSet(Places(body))
           /\ Cardinality(Places(body)) \in 0..Len(body)
           /\ ChannelUri!Cardinality(Places(body)) = Cardinality(Places(body))
<1>1. Places(body) \subseteq 1..Len(body) /\ Len(body) \in Nat
  BY DEF Text, Places
<1>2. IsFiniteSet(1..Len(body)) /\ Cardinality(1..Len(body)) = Len(body)
  BY <1>1, IntervalSize
<1>3. IsFiniteSet(Places(body)) /\ Cardinality(Places(body)) <= Len(body)
  BY <1>1, <1>2, FS_Subset
<1>4. Cardinality(Places(body)) \in Nat
  BY <1>3, FS_CardinalityType
<1>5. ChannelUri!Cardinality(Places(body)) = Cardinality(Places(body))
  BY DEF ChannelUri!Cardinality, Cardinality
<1>6. QED
  BY <1>1, <1>3, <1>4, <1>5

\* The ways to cut a body, without the LET.
LEMMA CutsDef ==
    ASSUME NEW body \in Text
    PROVE  ChannelUri!Cuts(body)
             = UNION { { c \in [1..n -> Places(body)] : \A m \in 2..n : c[m - 1] < c[m] } :
                         n \in 0..Cardinality(Places(body)) }
  BY PlacesShape, Zenon DEF ChannelUri!Cuts, Places

\* A way to cut a body is a rising sequence of places in it.
LEMMA CutShape ==
    ASSUME NEW body \in Text, NEW c \in ChannelUri!Cuts(body)
    PROVE  /\ Len(c) \in 0..Len(body) /\ c \in Seq(1..Len(body)) /\ DOMAIN c = 1..Len(c)
           /\ \A m \in DOMAIN c : c[m] \in 1..Len(body)
           /\ \A m \in 2..Len(c) : c[m - 1] < c[m]
<1>1. PICK n \in 0..Cardinality(Places(body)) :
         c \in { d \in [1..n -> Places(body)] : \A m \in 2..n : d[m - 1] < d[m] }
  BY CutsDef
<1>2. /\ Places(body) \subseteq 1..Len(body) /\ Len(body) \in Nat
      /\ Cardinality(Places(body)) \in 0..Len(body)
  BY PlacesShape
<1>3. c \in [1..n -> 1..Len(body)] /\ n \in 0..Len(body)
  BY <1>1, <1>2
<1>4. c \in Seq(1..Len(body)) /\ Len(c) = n
  BY <1>3, SeqDef
<1>5. QED
  BY <1>1, <1>3, <1>4

From(c, n) == IF n = 0 THEN 1 ELSE c[n] + 1
To(body, c, n) == IF n = Len(c) THEN Len(body) ELSE c[n + 1] - 1

\* Where the pieces are.
LEMMA PieceShape ==
    ASSUME NEW body \in Text, NEW c \in ChannelUri!Cuts(body), NEW n \in 0..Len(c)
    PROVE  /\ From(c, n) \in 1..(Len(body) + 1) /\ To(body, c, n) \in 0..Len(body)
           /\ From(c, n) <= To(body, c, n) + 1
           /\ ChannelUri!Piece(body, c, n) = SubSeq(body, From(c, n), To(body, c, n))
           /\ ChannelUri!Piece(body, c, n) \in Text
           /\ Len(ChannelUri!Piece(body, c, n)) = To(body, c, n) - From(c, n) + 1
           /\ \A i \in From(c, n)..To(body, c, n) :
                /\ i - From(c, n) + 1 \in DOMAIN ChannelUri!Piece(body, c, n)
                /\ ChannelUri!Piece(body, c, n)[i - From(c, n) + 1] = body[i]
<1>0. Len(body) \in Nat
  BY DEF Text
<1>1. /\ From(c, n) \in 1..(Len(body) + 1) /\ To(body, c, n) \in 0..Len(body)
      /\ From(c, n) <= To(body, c, n) + 1
  <2>1. CASE n = 0 /\ n = Len(c)
    BY <1>0, <2>1 DEF From, To
  <2>2. CASE n = 0 /\ n # Len(c)
    <3>1. 1 \in DOMAIN c
      BY <2>2, CutShape
    <3>2. QED
      BY <1>0, <2>2, <3>1, CutShape DEF From, To
  <2>3. CASE n # 0 /\ n = Len(c)
    <3>1. n \in DOMAIN c
      BY <2>3, CutShape
    <3>2. QED
      BY <1>0, <2>3, <3>1, CutShape DEF From, To
  <2>4. CASE n # 0 /\ n # Len(c)
    <3>1. n \in DOMAIN c /\ n + 1 \in DOMAIN c /\ n + 1 \in 2..Len(c) /\ (n + 1) - 1 = n
      BY <2>4, CutShape
    <3>2. c[n] < c[n + 1] /\ c[n] \in 1..Len(body) /\ c[n + 1] \in 1..Len(body)
      BY <3>1, CutShape
    <3>3. QED
      BY <1>0, <2>4, <3>2 DEF From, To
  <2>5. QED
    BY <2>1, <2>2, <2>3, <2>4
<1> DEFINE a == From(c, n)
           z == To(body, c, n)
           piece == ChannelUri!Piece(body, c, n)
<1>2. piece = SubSeq(body, a, z)
  BY DEF ChannelUri!Piece, From, To
<1>3. a \in Nat \ {0} /\ z \in Nat /\ z <= Len(body) /\ a <= z + 1
  BY <1>0, <1>1
<1> HIDE DEF a, z
<1>4. \A i \in a..z : body[i] \in Symbol
  BY <1>0, <1>3, ElementOfSeq DEF Text
<1>5. /\ SubSeq(body, a, z) \in Text /\ Len(SubSeq(body, a, z)) = IF a <= z THEN z - a + 1 ELSE 0
      /\ \A i \in 1..(z - a + 1) : SubSeq(body, a, z)[i] = body[a + i - 1]
  BY <1>3, <1>4, SubSeqProperties DEF Text
<1>6. Len(piece) = z - a + 1 /\ piece \in Text
  BY <1>2, <1>3, <1>5
<1>7. ASSUME NEW i \in a..z
      PROVE  i - a + 1 \in DOMAIN piece /\ piece[i - a + 1] = body[i]
  <2>1. i - a + 1 \in 1..(z - a + 1) /\ a + (i - a + 1) - 1 = i
    BY <1>3
  <2>2. DOMAIN piece = 1..(z - a + 1)
    BY <1>6 DEF Text
  <2>3. QED
    BY <1>2, <1>5, <2>1, <2>2
<1>8. QED
  BY <1>1, <1>2, <1>6, <1>7 DEF a, z

\* The pairs of a key and a value that are over at the n-th cut.
Pairs(c, n) == { m \in DOMAIN c : m % 2 = 1 /\ m + 1 < n }

AreParams(params, body, c, n) ==
    /\ params = [key \in { ChannelUri!Piece(body, c, m) : m \in Pairs(c, n) } |-> params[key]]
    /\ \A m \in Pairs(c, n) :
         (\A l \in Pairs(c, n) : ChannelUri!Piece(body, c, l) = ChannelUri!Piece(body, c, m) => l <= m)
            => params[ChannelUri!Piece(body, c, m)] = ChannelUri!Piece(body, c, m + 1)

\* EndValue puts the pair that has just been read: a key that was there is overwritten.
LEMMA PutPair ==
    ASSUME NEW body, NEW c \in Seq(Nat), NEW n \in Nat \ {0}, n <= Len(c), n % 2 = 0,
           NEW params, AreParams(params, body, c, n)
    PROVE  AreParams(ChannelUri!Put(params, ChannelUri!Piece(body, c, n - 1), ChannelUri!Piece(body, c, n)),
                     body, c, n + 1)
<1> DEFINE P(m) == ChannelUri!Piece(body, c, m)
           put == ChannelUri!Put(params, P(n - 1), P(n))
<1>0. n - 1 \in DOMAIN c /\ (n - 1) % 2 = 1 /\ (n - 1) + 1 = n
  OBVIOUS
<1>1. Pairs(c, n + 1) = Pairs(c, n) \cup {n - 1}
  <2>1. ASSUME NEW m \in DOMAIN c, m % 2 = 1, m + 1 < n + 1, m # n - 1
        PROVE  m + 1 < n
    BY <2>1
  <2>2. QED
    BY <2>1, <1>0 DEF Pairs
<1>2. \A m \in Pairs(c, n) : m < n - 1 /\ m \in Nat
  BY DEF Pairs
<1>3. DOMAIN params = { P(m) : m \in Pairs(c, n) }
  BY DEF AreParams
<1> HIDE DEF P
<1>4. put = [key \in { P(m) : m \in Pairs(c, n + 1) } |-> IF key = P(n - 1) THEN P(n) ELSE params[key]]
  <2>1. DOMAIN params \cup {P(n - 1)} = { P(m) : m \in Pairs(c, n + 1) }
    BY <1>1, <1>3
  <2>2. QED
    BY <2>1 DEF ChannelUri!Put
<1>5. ASSUME NEW m \in Pairs(c, n + 1), \A l \in Pairs(c, n + 1) : P(l) = P(m) => l <= m
      PROVE  put[P(m)] = P(m + 1)
  <2>1. CASE m = n - 1
    BY <1>4, <2>1, <1>0
  <2>2. CASE m # n - 1
    <3>1. m \in Pairs(c, n) /\ m < n - 1
      BY <2>2, <1>1, <1>2
    <3>2. P(m) # P(n - 1)
      BY <1>1, <1>5, <3>1, <1>0, <1>2
    <3>3. params[P(m)] = P(m + 1)
      BY <3>1, <1>1, <1>5 DEF AreParams, P
    <3>4. QED
      BY <1>4, <3>2, <3>3
  <2>3. QED
    BY <2>1, <2>2
<1>6. put = [key \in { P(m) : m \in Pairs(c, n + 1) } |-> put[key]]
  BY <1>4
<1>7. QED
  BY <1>5, <1>6 DEF AreParams, P

\* What ends a piece does not occur in it.
LEMMA NoTerminator ==
    ASSUME NEW body \in Text, NEW c \in ChannelUri!Cuts(body), ChannelUri!IsCut(body, c),
           NEW n \in 0..Len(c), NEW i \in From(c, n)..To(body, c, n)
    PROVE  /\ n = 0 => body[i] # "?" /\ ~ChannelUri!HasColon(body[i])
           /\ n % 2 = 1 => body[i] # "="
           /\ (n # 0 /\ n % 2 = 0) => body[i] # "|"
<1> DEFINE piece == ChannelUri!Piece(body, c, n)
<1>1. PICK j \in DOMAIN piece : piece[j] = body[i]
  BY PieceShape
<1>2. CASE n = 0
  <2>1. ~ChannelUri!Has(piece, "?") /\ \A l \in DOMAIN piece : ~ChannelUri!HasColon(piece[l])
    BY <1>2 DEF ChannelUri!IsCut
  <2>2. QED
    BY <1>1, <1>2, <2>1 DEF ChannelUri!Has
<1>3. CASE n # 0
  <2>1. n \in DOMAIN c
    BY <1>3, CutShape
  <2>2. ~ChannelUri!Has(piece, IF n % 2 = 0 THEN "|" ELSE "=")
    BY <2>1 DEF ChannelUri!IsCut
  <2>3. QED
    BY <1>1, <1>3, <2>2 DEF ChannelUri!Has
<1>4. QED
  BY <1>2, <1>3

\* What the parser knows when it has passed the n-th cut and not the next.
Knows(s, body, c, k, n) ==
    /\ s.buffer = SubSeq(body, From(c, n), k)
    /\ n = 0 => s.state = "MEDIA" /\ s.params = <<>>
    /\ n # 0 => s.media = ChannelUri!Piece(body, c, 0) /\ AreParams(s.params, body, c, n)
    /\ n % 2 = 1 => s.state = "PARAMS_KEY"
    /\ (n # 0 /\ n % 2 = 0) => s.state = "PARAMS_VALUE" /\ s.key = ChannelUri!Piece(body, c, n - 1)

IsPast(c, k, n) == (n = 0 \/ c[n] <= k) /\ (n = Len(c) \/ k < c[n + 1])

\* At the start the parser is in the first piece.
LEMMA KnowsStart ==
    ASSUME NEW body \in Text, NEW c \in ChannelUri!Cuts(body)
    PROVE  IsPast(c, 0, 0) /\ Knows(Run(body)[0], body, c, 0, 0)
<1>1. 0 = Len(c) \/ 1 \in DOMAIN c
  BY CutShape
<1>2. IsPast(c, 0, 0)
  BY <1>1, CutShape DEF IsPast
<1>3. SubSeq(body, 1, 0) = <<>>
  BY SubSeqEmpty
<1>4. /\ Run(body)[0].buffer = <<>> /\ Run(body)[0].state = "MEDIA"
      /\ Run(body)[0].params = <<>>
  BY AfterFirst DEF ChannelUri!Start
<1>5. QED
  BY <1>2, <1>3, <1>4 DEF Knows, From

\* At a separator of a cut the parser goes on to the next piece,
LEMMA KnowsCut ==
    ASSUME NEW body \in Text, NEW c \in ChannelUri!Cuts(body), ChannelUri!IsCut(body, c),
           NEW k \in Nat, k + 1 <= Len(body), NEW n \in 0..Len(c), n # Len(c), c[n + 1] = k + 1,
           Knows(Run(body)[k], body, c, k, n)
    PROVE  IsPast(c, k + 1, n + 1) /\ Knows(Run(body)[k + 1], body, c, k + 1, n + 1)
<1> DEFINE s == Run(body)[k]
           t == Run(body)[k + 1]
           P(m) == ChannelUri!Piece(body, c, m)
<1>0. Len(body) \in Nat /\ Len(c) \in Nat /\ n + 1 \in DOMAIN c /\ n \in Nat
  BY CutShape DEF Text
<1>1. s \in ParserState
  BY <1>0, AfterType
<1>2. body[k + 1] = ChannelUri!Cutter(n + 1)
  BY <1>0 DEF ChannelUri!IsCut
<1>3. t = ChannelUri!ParseSymbol(s, ChannelUri!Cutter(n + 1))
  BY <1>2, AfterNext
<1>4. s.buffer = P(n)
  <2>1. To(body, c, n) = k
    BY <1>0 DEF To
  <2>2. QED
    BY <2>1, PieceShape DEF Knows
<1>5. IsPast(c, k + 1, n + 1)
  <2>1. c[n + 1] <= k + 1
    OBVIOUS
  <2>2. n + 1 # Len(c) => k + 1 < c[(n + 1) + 1]
    <3>1. SUFFICES ASSUME n + 1 # Len(c) PROVE k + 1 < c[n + 2]
      BY <1>0
    <3>2. n + 2 \in 2..Len(c) /\ (n + 2) - 1 = n + 1
      BY <3>1, <1>0
    <3>3. c[n + 1] < c[n + 2]
      BY <3>2, CutShape
    <3>4. QED
      BY <3>3
  <2>3. QED
    BY <2>1, <2>2 DEF IsPast
<1>6. SubSeq(body, From(c, n + 1), k + 1) = <<>>
  <2>1. From(c, n + 1) = k + 2
    BY <1>0 DEF From
  <2>2. QED
    BY <2>1, SubSeqEmpty
<1>7. CASE n = 0
  <2>1. s.state = "MEDIA" /\ s.params = <<>>
    BY <1>7 DEF Knows
  <2>2. t = ChannelUri!EndMedia(s)
    <3>1. ChannelUri!Cutter(n + 1) = "?"
      BY <1>7 DEF ChannelUri!Cutter
    <3>2. t = ChannelUri!ParseSymbol(s, "?")
      BY <1>3, <3>1
    <3> HIDE DEF s, t
    <3>3. QED
      BY <3>2, <2>1 DEF ChannelUri!ParseSymbol, ChannelUri!HasColon, ChannelUri!SpyPrefix,
           ChannelUri!AeronPrefix
  <2>3. t.state = "PARAMS_KEY" /\ t.media = P(0) /\ t.buffer = <<>> /\ t.params = <<>>
    BY <1>1, <1>4, <1>7, <2>1, <2>2 DEF ChannelUri!EndMedia, ParserState
  <2>4. AreParams(<<>>, body, c, 1)
    <3>1. Pairs(c, 1) = {}
      <4>1. DOMAIN c \subseteq Nat
        BY CutShape
      <4>2. QED
        BY <4>1, CutShape DEF Pairs
    <3>2. QED
      BY <3>1 DEF AreParams
  <2>5. n + 1 = 1 /\ n + 1 # 0 /\ (n + 1) % 2 = 1 /\ AreParams(t.params, body, c, n + 1)
    BY <1>7, <2>3, <2>4
  <2>6. Knows(t, body, c, k + 1, n + 1)
    <3> HIDE DEF t, P
    <3> QED BY <1>6, <2>3, <2>5 DEF Knows, P
  <2>7. QED
    BY <1>5, <2>6
<1>8. CASE n % 2 = 1
  <2>1. s.state = "PARAMS_KEY" /\ s.media = P(0) /\ AreParams(s.params, body, c, n)
    BY <1>8 DEF Knows
  <2>2. (n + 1) % 2 = 0 /\ n + 1 # 1
    BY <1>0, <1>8
  <2>3. t = ChannelUri!EndKey(s)
    BY <1>3, <2>1, <2>2 DEF ChannelUri!ParseSymbol, ChannelUri!Cutter
  <2>4. /\ t.state = "PARAMS_VALUE" /\ t.media = P(0) /\ t.buffer = <<>> /\ t.params = s.params
        /\ t.key = P(n)
    BY <1>1, <1>4, <2>1, <2>3 DEF ChannelUri!EndKey, ParserState
  <2>5. AreParams(s.params, body, c, n + 1)
    <3>1. Pairs(c, n + 1) = Pairs(c, n)
      <4>1. ASSUME NEW m \in DOMAIN c, m % 2 = 1
            PROVE  m + 1 < n + 1 <=> m + 1 < n
        <5>1. m \in Nat
          BY CutShape
        <5>2. m # n - 1
          BY <1>0, <1>8, <4>1, <5>1
        <5>3. QED
          BY <1>0, <5>1, <5>2
      <4>2. QED
        BY <4>1 DEF Pairs
    <3>2. QED
      BY <3>1, <2>1 DEF AreParams
  <2>6. Knows(t, body, c, k + 1, n + 1)
    <3>1. (n + 1) - 1 = n /\ n + 1 # 0 /\ (n + 1) % 2 # 1
      BY <1>0, <2>2
    <3> HIDE DEF t, P
    <3> QED BY <1>6, <2>2, <2>4, <2>5, <3>1 DEF Knows, P
  <2>7. QED
    BY <1>5, <2>6
<1>9. CASE n # 0 /\ n % 2 = 0
  <2>1. /\ s.state = "PARAMS_VALUE" /\ s.media = P(0) /\ AreParams(s.params, body, c, n)
        /\ s.key = P(n - 1)
    BY <1>9 DEF Knows
  <2>2. (n + 1) % 2 = 1 /\ n + 1 # 1
    BY <1>0, <1>9
  <2>3. t = ChannelUri!EndValue(s)
    BY <1>3, <2>1, <2>2 DEF ChannelUri!ParseSymbol, ChannelUri!Cutter
  <2>4. /\ t.state = "PARAMS_KEY" /\ t.media = P(0) /\ t.buffer = <<>>
        /\ t.params = ChannelUri!Put(s.params, P(n - 1), P(n))
    BY <1>1, <1>4, <2>1, <2>3 DEF ChannelUri!EndValue, ParserState
  <2>5. AreParams(t.params, body, c, n + 1)
    <3>1. c \in Seq(Nat) /\ n \in Nat \ {0} /\ n <= Len(c)
      <4>1. c \in Seq(1..Len(body)) /\ 1..Len(body) \subseteq Nat
        BY CutShape
      <4>2. QED
        BY <4>1, <1>9, SeqMonotonic
    <3>2. QED
      BY <3>1, <1>9, <2>1, <2>4, PutPair
  <2>6. Knows(t, body, c, k + 1, n + 1)
    <3>1. n + 1 # 0 /\ (n + 1) % 2 # 0
      BY <1>0, <2>2
    <3> HIDE DEF t, P
    <3> QED BY <1>6, <2>2, <2>4, <2>5, <3>1 DEF Knows, P
  <2>7. QED
    BY <1>5, <2>6
<1>10. QED
  BY <1>0, <1>7, <1>8, <1>9

\* at any other symbol it stays in the piece that it reads,
LEMMA KnowsSymbol ==
    ASSUME NEW body \in Text, NEW c \in ChannelUri!Cuts(body), ChannelUri!IsCut(body, c),
           NEW k \in Nat, k + 1 <= Len(body), NEW n \in 0..Len(c), IsPast(c, k, n),
           n = Len(c) \/ c[n + 1] # k + 1,
           Knows(Run(body)[k], body, c, k, n)
    PROVE  IsPast(c, k + 1, n) /\ Knows(Run(body)[k + 1], body, c, k + 1, n)
<1> DEFINE s == Run(body)[k]
           t == Run(body)[k + 1]
           x == body[k + 1]
<1>0. Len(body) \in Nat /\ Len(c) \in Nat /\ n \in Nat /\ (n # Len(c) => n + 1 \in DOMAIN c)
      /\ (n # 0 => n \in DOMAIN c) /\ \A m \in DOMAIN c : c[m] \in Nat
  BY CutShape DEF Text
<1>1. s \in ParserState
  BY <1>0, AfterType
<1>2. k + 1 \in From(c, n)..To(body, c, n)
  BY <1>0 DEF IsPast, From, To
<1>3. IsPast(c, k + 1, n)
  BY <1>0 DEF IsPast
<1>4. /\ n = 0 => x # "?" /\ ~ChannelUri!HasColon(x)
      /\ n % 2 = 1 => x # "="
      /\ (n # 0 /\ n % 2 = 0) => x # "|"
  BY <1>2, NoTerminator
<1>5. t = ChannelUri!Buffer(s, x)
  <2>1. t = ChannelUri!ParseSymbol(s, x)
    BY AfterNext
  <2>2. CASE n = 0
    BY <1>4, <2>1, <2>2 DEF ChannelUri!ParseSymbol, Knows
  <2>3. CASE n % 2 = 1
    BY <1>4, <2>1, <2>3 DEF ChannelUri!ParseSymbol, Knows
  <2>4. CASE n # 0 /\ n % 2 = 0
    BY <1>4, <2>1, <2>4 DEF ChannelUri!ParseSymbol, Knows
  <2>5. QED
    BY <1>0, <2>2, <2>3, <2>4
<1>6. /\ t.state = s.state /\ t.media = s.media /\ t.key = s.key /\ t.params = s.params
      /\ t.buffer = Append(s.buffer, x)
  BY <1>1, <1>5 DEF ChannelUri!Buffer, ParserState
<1>7. t.buffer = SubSeq(body, From(c, n), k + 1)
  <2>0. From(c, n) \in 1..(Len(body) + 1)
    BY PieceShape
  <2>1. From(c, n) \in Nat \ {0} /\ From(c, n) <= k + 1
    BY <1>0, <1>2, <2>0
  <2>2. s.buffer = SubSeq(body, From(c, n), k)
    BY DEF Knows
  <2>3. QED
    BY <1>6, <2>1, <2>2, SubSeqAppend
<1>8. QED
  BY <1>3, <1>6, <1>7 DEF Knows

\* so that it is in the last piece at the end.
LEMMA KnowsAll ==
    ASSUME NEW body \in Text, NEW c \in ChannelUri!Cuts(body), ChannelUri!IsCut(body, c)
    PROVE  Knows(Run(body)[Len(body)], body, c, Len(body), Len(c))
<1> DEFINE T == { k \in Nat : k <= Len(body) =>
                     \E n \in 0..Len(c) : IsPast(c, k, n) /\ Knows(Run(body)[k], body, c, k, n) }
<1>0. Len(body) \in Nat /\ Len(c) \in Nat
  BY CutShape DEF Text
<1>1. 0 \in T
  BY <1>0, KnowsStart
<1>2. ASSUME NEW k \in Nat, k \in T
      PROVE  k + 1 \in T
  <2>1. CASE k + 1 <= Len(body)
    <3>1. PICK n \in 0..Len(c) : IsPast(c, k, n) /\ Knows(Run(body)[k], body, c, k, n)
      BY <1>2, <2>1, <1>0
    <3>2. CASE n # Len(c) /\ c[n + 1] = k + 1
      <4>1. IsPast(c, k + 1, n + 1) /\ Knows(Run(body)[k + 1], body, c, k + 1, n + 1)
        BY <2>1, <3>1, <3>2, KnowsCut
      <4>2. n + 1 \in 0..Len(c)
        BY <1>0, <3>2
      <4>3. QED
        BY <4>1, <4>2
    <3>3. CASE n = Len(c) \/ c[n + 1] # k + 1
      <4>1. IsPast(c, k + 1, n) /\ Knows(Run(body)[k + 1], body, c, k + 1, n)
        BY <2>1, <3>1, <3>3, KnowsSymbol
      <4>2. QED
        BY <4>1
    <3>4. QED
      BY <3>2, <3>3
  <2>2. QED
    BY <2>1
<1>3. Len(body) \in T
  <2> HIDE DEF T
  <2> QED BY <1>0, <1>1, <1>2, Induction
<1>4. PICK n \in 0..Len(c) : /\ IsPast(c, Len(body), n)
                             /\ Knows(Run(body)[Len(body)], body, c, Len(body), n)
  BY <1>0, <1>3
<1>5. n = Len(c)
  <2>1. ASSUME n # Len(c) PROVE FALSE
    <3>1. n + 1 \in DOMAIN c
      BY <2>1, <1>0, CutShape
    <3>2. c[n + 1] \in 1..Len(body)
      BY <3>1, CutShape
    <3>3. QED
      BY <1>0, <1>4, <2>1, <3>2 DEF IsPast
  <2>2. QED
    BY <2>1
<1>6. QED
  BY <1>4, <1>5

\* All pairs together are the parameters of the cut.
LEMMA ParamsOfCut ==
    ASSUME NEW body \in Text, NEW c \in ChannelUri!Cuts(body), NEW spy, NEW params,
           AreParams(params, body, c, Len(c) + 1), Len(c) % 2 = 0
    PROVE  ChannelUri!UriOfCut(spy, body, c) = ChannelUri!Uri(spy, ChannelUri!Piece(body, c, 0), params)
<1> DEFINE pairs == { n \in DOMAIN c : n % 2 = 1 }
           P(m) == ChannelUri!Piece(body, c, m)
           last(key) == ChannelUri!Max({ n \in pairs : P(n) = key })
<1>0. Len(c) \in Nat /\ DOMAIN c = 1..Len(c)
  BY CutShape
<1>1. pairs = Pairs(c, Len(c) + 1)
  <2>1. ASSUME NEW n \in DOMAIN c, n % 2 = 1
        PROVE  n + 1 < Len(c) + 1
    <3>1. n # Len(c)
      BY <2>1
    <3>2. QED
      BY <1>0, <3>1
  <2>2. QED
    BY <2>1 DEF Pairs
<1> HIDE DEF P
<1>2. ASSUME NEW key \in { P(n) : n \in pairs }
      PROVE  params[key] = P(last(key) + 1)
  <2> DEFINE A == { n \in pairs : P(n) = key }
  <2>1. A \subseteq 0..Len(c) /\ A # {}
    BY <1>0, <1>2
  <2>2. ChannelUri!Max(A) \in A /\ \A n \in A : ChannelUri!Max(A) >= n
    <3> HIDE DEF A
    <3> QED BY <1>0, <2>1, MaxIsGreatest
  <2>3. last(key) = ChannelUri!Max(A)
    OBVIOUS
  <2> DEFINE m == ChannelUri!Max(A)
  <2>4. m \in pairs /\ P(m) = key /\ m \in Nat
    BY <2>2, <1>0
  <2>5. \A l \in pairs : P(l) = P(m) => l <= m
    <3> TAKE l \in pairs
    <3>1. SUFFICES ASSUME P(l) = P(m) PROVE l <= m
      OBVIOUS
    <3>2. l \in A
      BY <2>4, <3>1
    <3>3. m >= l
      BY <2>2, <3>2
    <3> HIDE DEF A
    <3>4. l \in Nat
      BY <1>0
    <3>5. QED
      BY <2>4, <3>3, <3>4
  <2>6. params[P(m)] = P(m + 1)
    <3> HIDE DEF m
    <3> QED BY <1>1, <2>4, <2>5 DEF AreParams, P
  <2>7. QED
    BY <2>3, <2>4, <2>6
<1>3. params = [key \in { P(n) : n \in pairs } |-> params[key]]
  BY <1>1 DEF AreParams, P
<1>4. params = [key \in { P(n) : n \in pairs } |-> P(last(key) + 1)]
  BY <1>2, <1>3
<1>5. QED
  BY <1>4 DEF ChannelUri!UriOfCut, P

\* Where there is a cut, the parser ends with the channel of that cut.
LEMMA CutIsParsed ==
    ASSUME NEW body \in Text, NEW c \in ChannelUri!Cuts(body), ChannelUri!IsCut(body, c), NEW spy
    PROVE  LET end == Run(body)[Len(body)] IN
           \/ end.state = "MEDIA"
              /\ ChannelUri!UriOfCut(spy, body, c) = ChannelUri!Uri(spy, end.buffer, end.params)
           \/ end.state = "PARAMS_VALUE"
              /\ ChannelUri!UriOfCut(spy, body, c)
                   = ChannelUri!Uri(spy, end.media, ChannelUri!EndValue(end).params)
<1> DEFINE end == Run(body)[Len(body)]
           P(m) == ChannelUri!Piece(body, c, m)
<1>0. Len(c) \in Nat /\ Len(c) % 2 = 0 /\ Len(body) \in Nat /\ DOMAIN c = 1..Len(c)
  BY CutShape DEF ChannelUri!IsCut, Text
<1>1. end \in ParserState
  BY <1>0, AfterType
<1>2. Knows(end, body, c, Len(body), Len(c))
  BY KnowsAll
<1>3. end.buffer = P(Len(c))
  <2>1. To(body, c, Len(c)) = Len(body)
    BY DEF To
  <2>2. QED
    <3>1. Len(c) \in 0..Len(c)
      BY <1>0
    <3>2. P(Len(c)) = SubSeq(body, From(c, Len(c)), Len(body))
      BY <3>1, <2>1, PieceShape
    <3>3. end.buffer = SubSeq(body, From(c, Len(c)), Len(body))
      BY <1>2 DEF Knows
    <3>4. QED
      BY <3>2, <3>3
<1>4. CASE Len(c) = 0
  <2>1. end.state = "MEDIA" /\ end.params = <<>>
    BY <1>2, <1>4 DEF Knows
  <2>2. AreParams(<<>>, body, c, Len(c) + 1)
    <3>1. Pairs(c, Len(c) + 1) = {}
      BY <1>0, <1>4 DEF Pairs
    <3>2. QED
      BY <3>1 DEF AreParams
  <2>3. QED
    BY <1>0, <1>3, <1>4, <2>1, <2>2, ParamsOfCut
<1>5. CASE Len(c) # 0
  <2>1. /\ end.state = "PARAMS_VALUE" /\ end.media = P(0) /\ AreParams(end.params, body, c, Len(c))
        /\ end.key = P(Len(c) - 1)
    BY <1>0, <1>2, <1>5 DEF Knows
  <2>2. ChannelUri!EndValue(end).params = ChannelUri!Put(end.params, P(Len(c) - 1), P(Len(c)))
    BY <1>1, <1>3, <2>1 DEF ChannelUri!EndValue, ParserState
  <2>3. AreParams(ChannelUri!EndValue(end).params, body, c, Len(c) + 1)
    <3>1. c \in Seq(Nat) /\ Len(c) \in Nat \ {0} /\ Len(c) <= Len(c)
      <4>1. c \in Seq(1..Len(body)) /\ 1..Len(body) \subseteq Nat
        BY CutShape
      <4>2. QED
        BY <4>1, <1>0, <1>5, SeqMonotonic
    <3>2. QED
      BY <1>0, <2>1, <2>2, <3>1, PutPair
  <2>4. QED
    BY <1>0, <2>1, <2>3, ParamsOfCut
<1>6. QED
  BY <1>4, <1>5

-----------------------------------------------------------------------------
(***************************************************************************)
(* And a body that is parsed can be cut.                                   *)
(***************************************************************************)
IsInside(x, n) ==
    /\ n = 0 => x # "?" /\ ~ChannelUri!HasColon(x)
    /\ n % 2 = 1 => x # "="
    /\ (n # 0 /\ n % 2 = 0) => x # "|"

\* The first k symbols are cut at c.
IsCutUpTo(body, c, k) ==
    /\ c \in Seq(1..k) /\ Len(c) <= k
    /\ \A m \in 2..Len(c) : c[m - 1] < c[m]
    /\ \A n \in 1..Len(c) : body[c[n]] = ChannelUri!Cutter(n)
    /\ \A n \in 0..Len(c) : \A i \in From(c, n)..(IF n = Len(c) THEN k ELSE c[n + 1] - 1) :
         IsInside(body[i], n)

Is(state, n) ==
    /\ n = 0 <=> state = "MEDIA"
    /\ n % 2 = 1 <=> state = "PARAMS_KEY"
    /\ (n # 0 /\ n % 2 = 0) <=> state = "PARAMS_VALUE"

\* A separator that the parser goes by is one more cut,
LEMMA CutOn ==
    ASSUME NEW body \in Text, NEW k \in Nat, k + 1 <= Len(body), NEW c, IsCutUpTo(body, c, k),
           body[k + 1] = ChannelUri!Cutter(Len(c) + 1)
    PROVE  IsCutUpTo(body, Append(c, k + 1), k + 1)
<1> DEFINE d == Append(c, k + 1)
<1>0. Len(c) \in Nat /\ c \in Seq(1..(k + 1)) /\ k + 1 \in 1..(k + 1)
      /\ \A n \in 1..Len(c) : c[n] \in 1..k
  <2>1. c \in Seq(1..k) /\ 1..k \subseteq 1..(k + 1)
    BY DEF IsCutUpTo
  <2>2. QED
    BY <2>1, SeqMonotonic
<1>1. /\ d \in Seq(1..(k + 1)) /\ Len(d) = Len(c) + 1
      /\ \A n \in 1..Len(c) : d[n] = c[n]
      /\ d[Len(c) + 1] = k + 1
  BY <1>0, AppendProperties
<1> HIDE DEF d
<1>2. \A m \in 2..Len(d) : d[m - 1] < d[m]
  <2> TAKE m \in 2..Len(d)
  <2>1. CASE m = Len(c) + 1
    <3>1. m - 1 \in 1..Len(c) /\ m - 1 = Len(c)
      BY <2>1, <1>0, <1>1
    <3>2. d[m - 1] \in 1..k
      BY <3>1, <1>0, <1>1
    <3>3. d[m] = k + 1
      BY <2>1, <1>1
    <3>4. QED
      BY <3>2, <3>3
  <2>2. CASE m # Len(c) + 1
    <3>1. m \in 2..Len(c) /\ m - 1 \in 1..Len(c) /\ m \in 1..Len(c)
      BY <2>2, <1>0, <1>1
    <3>2. QED
      BY <3>1, <1>1 DEF IsCutUpTo
  <2>3. QED
    BY <2>1, <2>2
<1>3. \A n \in 1..Len(d) : body[d[n]] = ChannelUri!Cutter(n)
  <2> TAKE n \in 1..Len(d)
  <2>1. CASE n = Len(c) + 1
    BY <2>1, <1>1
  <2>2. CASE n # Len(c) + 1
    <3>1. n \in 1..Len(c)
      BY <2>2, <1>0, <1>1
    <3>2. QED
      BY <3>1, <1>1 DEF IsCutUpTo
  <2>3. QED
    BY <2>1, <2>2
<1>4. ASSUME NEW n \in 0..Len(d), NEW i \in From(d, n)..(IF n = Len(d) THEN k + 1 ELSE d[n + 1] - 1)
      PROVE  IsInside(body[i], n)
  <2>1. n # Len(d)
    <3>1. SUFFICES ASSUME n = Len(d) PROVE FALSE
      OBVIOUS
    <3>2. From(d, n) = k + 2
      BY <3>1, <1>0, <1>1 DEF From
    <3>3. QED
      BY <3>1, <3>2
  <2>2. n \in 0..Len(c) /\ n + 1 \in 1..Len(d)
    BY <2>1, <1>0, <1>1
  <2>3. From(d, n) = From(c, n)
    BY <2>2, <1>1 DEF From
  <2>4. d[n + 1] - 1 = IF n = Len(c) THEN k ELSE c[n + 1] - 1
    <3>1. CASE n = Len(c)
      BY <3>1, <1>1
    <3>2. CASE n # Len(c)
      <4>1. n + 1 \in 1..Len(c)
        BY <2>2, <3>2, <1>0
      <4>2. QED
        BY <4>1, <3>2, <1>1
    <3>3. QED
      BY <3>1, <3>2
  <2>5. i \in From(c, n)..(IF n = Len(c) THEN k ELSE c[n + 1] - 1)
    BY <2>1, <2>3, <2>4
  <2>6. QED
    BY <2>2, <2>5 DEF IsCutUpTo
<1>5. Len(d) <= k + 1
  BY <1>0, <1>1 DEF IsCutUpTo
<1>6. QED
  BY <1>1, <1>2, <1>3, <1>4, <1>5 DEF IsCutUpTo, d

\* a symbol that it collects is none.
LEMMA NoCutOn ==
    ASSUME NEW body \in Text, NEW k \in Nat, k + 1 <= Len(body), NEW c, IsCutUpTo(body, c, k),
           IsInside(body[k + 1], Len(c))
    PROVE  IsCutUpTo(body, c, k + 1)
<1>0. c \in Seq(1..(k + 1)) /\ Len(c) \in Nat /\ \A n \in 1..Len(c) : c[n] \in 1..k
  <2>1. c \in Seq(1..k) /\ 1..k \subseteq 1..(k + 1)
    BY DEF IsCutUpTo
  <2>2. QED
    BY <2>1, SeqMonotonic
<1>1. ASSUME NEW n \in 0..Len(c), NEW i \in From(c, n)..(IF n = Len(c) THEN k + 1 ELSE c[n + 1] - 1)
      PROVE  IsInside(body[i], n)
  <2>1. CASE n = Len(c) /\ i = k + 1
    BY <2>1
  <2>2. CASE ~(n = Len(c) /\ i = k + 1)
    <3>1. i \in From(c, n)..(IF n = Len(c) THEN k ELSE c[n + 1] - 1)
      BY <2>2
    <3>2. QED
      BY <3>1 DEF IsCutUpTo
  <2>3. QED
    BY <2>1, <2>2
<1>2. QED
  BY <1>0, <1>1 DEF IsCutUpTo

\* Whatever a parser that has not thrown has read is cut,
LEMMA CutStep ==
    ASSUME NEW body \in Text, NEW k \in Nat, k + 1 <= Len(body), NEW c, IsCutUpTo(body, c, k),
           Is(Run(body)[k].state, Len(c))
    PROVE  \/ Run(body)[k + 1].state = "THROWN"
           \/ \E d : IsCutUpTo(body, d, k + 1) /\ Is(Run(body)[k + 1].state, Len(d))
<1> DEFINE s == Run(body)[k]
           t == Run(body)[k + 1]
           x == body[k + 1]
           n == Len(c)
<1>0. n \in Nat /\ s \in ParserState /\ Len(body) \in Nat
  <2>1. k \in 0..Len(body)
    BY DEF Text
  <2>2. QED
    BY <2>1, AfterType DEF IsCutUpTo, Text
<1>1. t = ChannelUri!ParseSymbol(s, x)
  BY AfterNext
<1> HIDE DEF s, t, x
<1>2. CASE n = 0 /\ ChannelUri!HasColon(x)
  <2>1. t.state = "THROWN"
    <3>1. s.state = "MEDIA" /\ x # "?"
      BY <1>2 DEF Is, ChannelUri!HasColon, ChannelUri!SpyPrefix, ChannelUri!AeronPrefix, s
    <3>2. t = [s EXCEPT !.state = "THROWN"]
      BY <1>1, <1>2, <3>1 DEF ChannelUri!ParseSymbol
    <3>3. QED
      BY <1>0, <3>2 DEF ParserState
  <2>2. QED
    BY <2>1 DEF t
<1>3. CASE IsInside(x, n)
  <2>1. t = ChannelUri!Buffer(s, x)
    <3>1. n % 2 \in {0, 1}
      BY <1>0
    <3>2. Is(s.state, n)
      BY DEF s
    <3>3. CASE n = 0
      BY <1>1, <1>3, <3>2, <3>3 DEF Is, IsInside, ChannelUri!ParseSymbol
    <3>4. CASE n % 2 = 1
      BY <1>1, <1>3, <3>2, <3>4 DEF Is, IsInside, ChannelUri!ParseSymbol
    <3>5. CASE n # 0 /\ n % 2 = 0
      BY <1>1, <1>3, <3>2, <3>5 DEF Is, IsInside, ChannelUri!ParseSymbol
    <3>6. QED
      BY <3>1, <3>3, <3>4, <3>5
  <2>2. t.state = s.state
    BY <1>0, <2>1 DEF ChannelUri!Buffer, ParserState
  <2>3. IsCutUpTo(body, c, k + 1)
    BY <1>3, NoCutOn DEF x
  <2>4. QED
    BY <2>2, <2>3 DEF s, t
<1>4. CASE ~IsInside(x, n) /\ ~(n = 0 /\ ChannelUri!HasColon(x))
  <2>0. Is(s.state, n) /\ n % 2 \in {0, 1}
    BY <1>0 DEF s
  <2>1. x = ChannelUri!Cutter(n + 1)
    <3>1. n # 0 => n + 1 # 1
      BY <1>0
    <3>2. n % 2 = 1 => (n + 1) % 2 = 0
      BY <1>0
    <3>3. n % 2 = 0 => (n + 1) % 2 = 1
      BY <1>0
    <3>4. QED
      BY <1>4, <2>0, <3>1, <3>2, <3>3 DEF IsInside, ChannelUri!Cutter
  <2>2. Is(t.state, n + 1)
    <3>1. CASE n = 0
      <4>1. x = "?" /\ s.state = "MEDIA"
        BY <2>0, <2>1, <3>1 DEF ChannelUri!Cutter, Is
      <4>2. t = ChannelUri!EndMedia(s)
        BY <1>1, <4>1 DEF ChannelUri!ParseSymbol, ChannelUri!HasColon, ChannelUri!SpyPrefix,
             ChannelUri!AeronPrefix
      <4>3. t.state = "PARAMS_KEY"
        BY <1>0, <4>2 DEF ChannelUri!EndMedia, ParserState
      <4>4. QED
        BY <3>1, <4>3 DEF Is
    <3>2. CASE n % 2 = 1
      <4>1. (n + 1) % 2 = 0 /\ n + 1 # 1 /\ n + 1 # 0 /\ s.state = "PARAMS_KEY"
        BY <1>0, <2>0, <3>2 DEF Is
      <4>2. x = "="
        BY <2>1, <4>1 DEF ChannelUri!Cutter
      <4>3. t = ChannelUri!EndKey(s)
        BY <1>1, <4>1, <4>2 DEF ChannelUri!ParseSymbol
      <4>4. t.state = "PARAMS_VALUE"
        BY <1>0, <4>3 DEF ChannelUri!EndKey, ParserState
      <4>5. QED
        BY <4>1, <4>4 DEF Is
    <3>3. CASE n # 0 /\ n % 2 = 0
      <4>1. (n + 1) % 2 = 1 /\ n + 1 # 1 /\ n + 1 # 0 /\ s.state = "PARAMS_VALUE"
        BY <1>0, <2>0, <3>3 DEF Is
      <4>2. x = "|"
        BY <2>1, <4>1 DEF ChannelUri!Cutter
      <4>3. t = ChannelUri!EndValue(s)
        BY <1>1, <4>1, <4>2 DEF ChannelUri!ParseSymbol
      <4>4. t.state = "PARAMS_KEY"
        BY <1>0, <4>3 DEF ChannelUri!EndValue, ParserState
      <4>5. QED
        BY <4>1, <4>4 DEF Is
    <3>4. QED
      BY <2>0, <3>1, <3>2, <3>3
  <2>3. IsCutUpTo(body, Append(c, k + 1), k + 1)
    BY <2>1, CutOn DEF x
  <2>4. Len(Append(c, k + 1)) = n + 1
    <3>1. c \in Seq(1..k)
      BY DEF IsCutUpTo
    <3>2. QED
      BY <3>1
  <2>5. QED
    BY <2>2, <2>3, <2>4 DEF t
<1>5. QED
  BY <1>2, <1>3, <1>4

\* and so is the whole body at the end.
LEMMA AllCut ==
    ASSUME NEW body \in Text
    PROVE  \/ Run(body)[Len(body)].state = "THROWN"
           \/ \E c : IsCutUpTo(body, c, Len(body)) /\ Is(Run(body)[Len(body)].state, Len(c))
<1> DEFINE Holds(k) == \/ Run(body)[k].state = "THROWN"
                       \/ \E c : IsCutUpTo(body, c, k) /\ Is(Run(body)[k].state, Len(c))
           T == { k \in Nat : k <= Len(body) => Holds(k) }
<1>0. Len(body) \in Nat
  BY DEF Text
<1>1. 0 \in T
  <2>1. IsCutUpTo(body, <<>>, 0)
    <3>1. \A i \in 1..0 : FALSE
      OBVIOUS
    <3>2. QED
      BY <3>1 DEF IsCutUpTo, From
  <2>2. Is(Run(body)[0].state, Len(<<>>))
    BY AfterFirst DEF Is, ChannelUri!Start
  <2>3. QED
    BY <2>1, <2>2
<1>2. ASSUME NEW k \in Nat, k \in T
      PROVE  k + 1 \in T
  <2>1. ASSUME k + 1 <= Len(body)
        PROVE  Holds(k + 1)
    <3>1. Holds(k)
      BY <1>2, <2>1, <1>0
    <3>2. CASE Run(body)[k].state = "THROWN"
      <4>1. Run(body)[k + 1] = Run(body)[k]
        BY <2>1, <3>2, AfterNext DEF ChannelUri!ParseSymbol
      <4>2. QED
        BY <4>1, <3>2
    <3>3. CASE \E c : IsCutUpTo(body, c, k) /\ Is(Run(body)[k].state, Len(c))
      BY <2>1, <3>3, CutStep
    <3>4. QED
      BY <3>1, <3>2, <3>3
  <2> HIDE DEF Holds
  <2>2. QED
    BY <2>1
<1>3. Len(body) \in T
  <2> HIDE DEF T
  <2> QED BY <1>0, <1>1, <1>2, Induction
<1>4. QED
  BY <1>0, <1>3

\* With an even number of cuts, that is a cut as the reference has it.
LEMMA UpToIsCut ==
    ASSUME NEW body \in Text, NEW c, IsCutUpTo(body, c, Len(body)), Len(c) % 2 = 0
    PROVE  c \in ChannelUri!Cuts(body) /\ ChannelUri!IsCut(body, c)
<1>0. /\ Len(body) \in Nat /\ DOMAIN body = 1..Len(body) /\ Len(c) \in Nat /\ Len(c) <= Len(body)
      /\ c \in [1..Len(c) -> 1..Len(body)] /\ DOMAIN c = 1..Len(c)
  BY LenProperties DEF Text, IsCutUpTo
<1>1. c \in ChannelUri!Cuts(body)
  <2> DEFINE T == { n \in Nat : n \in 1..Len(c) => \A m \in 1..(n - 1) : c[m] < c[n] }
  <2>1. \A m \in 2..Len(c) : c[m - 1] < c[m]
    BY DEF IsCutUpTo
  <2>2. 0 \in T
    OBVIOUS
  <2>3. ASSUME NEW n \in Nat, n \in T
        PROVE  n + 1 \in T
    <3>1. SUFFICES ASSUME n + 1 \in 1..Len(c), NEW m \in 1..n
                   PROVE  c[m] < c[n + 1]
      OBVIOUS
    <3>2. n \in 1..Len(c) /\ n + 1 \in 2..Len(c) /\ m \in 1..Len(c)
      BY <1>0, <3>1
    <3>3. c[m] \in Nat /\ c[n] \in Nat /\ c[n + 1] \in Nat
      BY <1>0, <3>1, <3>2
    <3>4. c[n] < c[n + 1]
      BY <2>1, <3>2
    <3>5. m = n \/ c[m] < c[n]
      BY <2>3, <3>2
    <3>6. QED
      BY <3>3, <3>4, <3>5
  <2>4. \A n \in Nat : n \in T
    <3> HIDE DEF T
    <3> QED BY <2>2, <2>3, Induction
  <2>5. \A n \in 1..Len(c) : c[n] \in Places(body)
    BY <1>0 DEF IsCutUpTo, ChannelUri!Cutter, Places
  <2>6. c \in [1..Len(c) -> Places(body)]
    BY <1>0, <2>5
  <2>7. \A m, n \in 1..Len(c) : c[m] = c[n] => m = n
    <3> TAKE m, n \in 1..Len(c)
    <3>1. m < n => c[m] < c[n]
      BY <1>0, <2>4
    <3>2. n < m => c[n] < c[m]
      BY <1>0, <2>4
    <3>3. c[m] \in Nat /\ c[n] \in Nat
      BY <1>0
    <3>4. QED
      BY <1>0, <3>1, <3>2, <3>3
  <2>8. c \in Injection(1..Len(c), Places(body))
    BY <2>6, <2>7 DEF Injection, IsInjective
  <2>9. Len(c) <= Cardinality(Places(body))
    <3>1. Cardinality(1..Len(c)) = Len(c)
      BY <1>0, IntervalSize
    <3>2. Cardinality(1..Len(c)) <= Cardinality(Places(body))
      BY <2>8, PlacesShape, FS_Injection
    <3>3. QED
      BY <3>1, <3>2
  <2>10. Len(c) \in 0..Cardinality(Places(body))
    BY <1>0, <2>9, PlacesShape
  <2>11. c \in { d \in [1..Len(c) -> Places(body)] : \A m \in 2..Len(c) : d[m - 1] < d[m] }
    BY <2>1, <2>6
  <2>12. QED
    BY <2>10, <2>11, CutsDef
<1>2. ASSUME NEW n \in 0..Len(c), NEW j \in DOMAIN ChannelUri!Piece(body, c, n)
      PROVE  IsInside(ChannelUri!Piece(body, c, n)[j], n)
  <2>1. /\ ChannelUri!Piece(body, c, n) \in Text
        /\ Len(ChannelUri!Piece(body, c, n)) = To(body, c, n) - From(c, n) + 1
        /\ From(c, n) \in Nat /\ To(body, c, n) \in Nat
    BY <1>1, PieceShape
  <2>2. j \in 1..(To(body, c, n) - From(c, n) + 1)
    BY <2>1 DEF Text
  <2> DEFINE i == From(c, n) + j - 1
  <2>3. i \in From(c, n)..To(body, c, n) /\ i - From(c, n) + 1 = j
    BY <2>1, <2>2
  <2>4. ChannelUri!Piece(body, c, n)[j] = body[i]
    <3> HIDE DEF i
    <3> QED BY <1>1, <2>3, PieceShape
  <2>5. To(body, c, n) = IF n = Len(c) THEN Len(body) ELSE c[n + 1] - 1
    BY DEF To
  <2>6. IsInside(body[i], n)
    <3> HIDE DEF i
    <3> QED BY <2>3, <2>5 DEF IsCutUpTo
  <2>7. QED
    BY <2>4, <2>6
<1>3. \A n \in DOMAIN c : body[c[n]] = ChannelUri!Cutter(n)
  BY <1>0 DEF IsCutUpTo
<1>4. /\ ~ChannelUri!Has(ChannelUri!Piece(body, c, 0), "?")
      /\ \A i \in DOMAIN ChannelUri!Piece(body, c, 0) :
           ~ChannelUri!HasColon(ChannelUri!Piece(body, c, 0)[i])
  <2>1. 0 \in 0..Len(c)
    BY <1>0
  <2>2. QED
    BY <1>2, <2>1 DEF ChannelUri!Has, IsInside
<1>5. \A n \in DOMAIN c : ~ChannelUri!Has(ChannelUri!Piece(body, c, n), IF n % 2 = 0 THEN "|" ELSE "=")
  <2> TAKE n \in DOMAIN c
  <2>1. n \in 0..Len(c) /\ n # 0 /\ n % 2 \in {0, 1}
    BY <1>0
  <2>2. QED
    BY <1>2, <2>1 DEF ChannelUri!Has, IsInside
<1>6. QED
  BY <1>1, <1>3, <1>4, <1>5 DEF ChannelUri!IsCut

-----------------------------------------------------------------------------
\* ChannelUri::parse accepts a text if and only if it can be cut, and finds what
\* the cut gives.
LEMMA ParseIsCut ==
    ASSUME NEW text \in Text
    PROVE  LET uri == ChannelUri!Parse(text) IN
           ChannelUri!UrisByCutting(text) = IF uri.isValid THEN {uri} ELSE {}
<1> DEFINE uri == ChannelUri!Parse(text)
           spy == ChannelUri!StartsWith(text, ChannelUri!SpyPrefix)
           rest == IF spy THEN Tail(text) ELSE text
           body == Tail(rest)
           end == Run(body)[Len(body)]
<1>1. CASE ~ChannelUri!StartsWith(rest, ChannelUri!AeronPrefix)
  <2>1. uri.isValid = FALSE
    BY <1>1 DEF ChannelUri!Parse, ChannelUri!Invalid
  <2>2. ChannelUri!Behind(text) = {}
    BY <1>1 DEF ChannelUri!Behind
  <2>3. ChannelUri!UrisByCutting(text) = {}
    BY <2>2 DEF ChannelUri!UrisByCutting
  <2>4. QED
    BY <2>1, <2>3
<1>2. CASE ChannelUri!StartsWith(rest, ChannelUri!AeronPrefix)
  <2>1. body \in Text
    <3>1. rest \in Text
      BY HeadTailProperties DEF Text, ChannelUri!StartsWith
    <3>2. rest # <<>>
      BY <1>2 DEF ChannelUri!StartsWith
    <3> HIDE DEF rest
    <3>3. QED
      BY <3>1, <3>2, HeadTailProperties DEF Text
  <2>2. ChannelUri!Behind(text) = {body}
    BY <1>2 DEF ChannelUri!Behind
  <2>3. uri = CASE end.state = "MEDIA" -> ChannelUri!Uri(spy, end.buffer, end.params)
                [] end.state = "PARAMS_VALUE" ->
                     ChannelUri!Uri(spy, end.media, ChannelUri!EndValue(end).params)
                [] OTHER -> ChannelUri!Invalid
    BY <1>2 DEF ChannelUri!Parse, Run
  <2> DEFINE cuts == { c \in ChannelUri!Cuts(body) : ChannelUri!IsCut(body, c) }
  <2>4. ChannelUri!UrisByCutting(text) = { ChannelUri!UriOfCut(spy, body, c) : c \in cuts }
    <3> HIDE DEF body, cuts, spy
    <3>1. ChannelUri!UrisByCutting(text) =
             UNION { { ChannelUri!UriOfCut(spy, x, c) :
                         c \in { d \in ChannelUri!Cuts(x) : ChannelUri!IsCut(x, d) } } : x \in {body} }
      BY <2>2 DEF ChannelUri!UrisByCutting, spy
    <3>2. QED
      BY <3>1 DEF cuts
  <2> HIDE DEF body, uri, spy
  <2>5. ASSUME NEW c \in cuts
        PROVE  uri = ChannelUri!UriOfCut(spy, body, c) /\ uri.isValid
    <3>1. \/ end.state = "MEDIA"
             /\ ChannelUri!UriOfCut(spy, body, c) = ChannelUri!Uri(spy, end.buffer, end.params)
          \/ end.state = "PARAMS_VALUE"
             /\ ChannelUri!UriOfCut(spy, body, c)
                  = ChannelUri!Uri(spy, end.media, ChannelUri!EndValue(end).params)
      BY <2>1, CutIsParsed
    <3>2. uri = ChannelUri!UriOfCut(spy, body, c)
      BY <2>3, <3>1
    <3>3. ChannelUri!UriOfCut(spy, body, c).isValid
      BY <3>1 DEF ChannelUri!Uri
    <3>4. QED
      BY <3>2, <3>3
  <2>6. ASSUME uri.isValid
        PROVE  cuts # {}
    <3>1. end.state \in {"MEDIA", "PARAMS_VALUE"}
      BY <2>3, <2>6 DEF ChannelUri!Invalid
    <3>2. PICK c : IsCutUpTo(body, c, Len(body)) /\ Is(end.state, Len(c))
      BY <2>1, <3>1, AllCut
    <3>3. Len(c) % 2 = 0
      BY <3>1, <3>2 DEF Is, IsCutUpTo
    <3>4. c \in cuts
      BY <2>1, <3>2, <3>3, UpToIsCut
    <3>5. QED
      BY <3>4
  <2>7. uri.isValid \in BOOLEAN
    BY <2>3 DEF ChannelUri!Uri, ChannelUri!Invalid
  <2>8. QED
    <3> HIDE DEF cuts
    <3>1. CASE cuts = {}
      BY <2>4, <2>6, <3>1 DEF uri
    <3>2. CASE cuts # {}
      <4>1. { ChannelUri!UriOfCut(spy, body, c) : c \in cuts } = {uri}
        BY <2>5, <3>2
      <4>2. uri.isValid
        BY <2>5, <3>2
      <4>3. QED
        BY <2>4, <4>1, <4>2 DEF uri
    <3>3. QED
      BY <3>1, <3>2
<1>3. QED
  BY <1>1, <1>2

-----------------------------------------------------------------------------
(***************************************************************************)
(* A channel that is printed is read back as it was.                       *)
(***************************************************************************)
\* What no parameter and no media may contain.
Lacks(text, x) == \A i \in DOMAIN text : text[i] # x

IsUri(uri) ==
    /\ uri = ChannelUri!Uri(uri.spy, uri.media, uri.params) /\ uri.spy \in BOOLEAN
    /\ uri.media \in Text /\ \A i \in DOMAIN uri.media : IsInside(uri.media[i], 0)
    /\ uri.params \in [DOMAIN uri.params -> Text] /\ DOMAIN uri.params \in SUBSET Text
    /\ IsFiniteSet(DOMAIN uri.params)
    /\ \A key \in DOMAIN uri.params : Lacks(key, "=") /\ Lacks(uri.params[key], "|")

\* What is cut out can be printed so that it is read again: no key holds an "=", no value a "|".
LEMMA CutIsUri ==
    ASSUME NEW body \in Text, NEW c \in ChannelUri!Cuts(body), ChannelUri!IsCut(body, c),
           NEW spy \in BOOLEAN
    PROVE  IsUri(ChannelUri!UriOfCut(spy, body, c))
<1> DEFINE pairs == { n \in DOMAIN c : n % 2 = 1 }
           P(m) == ChannelUri!Piece(body, c, m)
           keys == { P(n) : n \in pairs }
           last(key) == ChannelUri!Max({ n \in pairs : P(n) = key })
           params == [key \in keys |-> P(last(key) + 1)]
           uri == ChannelUri!UriOfCut(spy, body, c)
<1>0. /\ Len(c) \in Nat /\ DOMAIN c = 1..Len(c) /\ Len(c) % 2 = 0
      /\ \A n \in 0..Len(c) : P(n) \in Text
      /\ ~ChannelUri!Has(P(0), "?") /\ \A i \in DOMAIN P(0) : ~ChannelUri!HasColon(P(0)[i])
      /\ \A n \in DOMAIN c : ~ChannelUri!Has(P(n), IF n % 2 = 0 THEN "|" ELSE "=")
  BY CutShape, PieceShape DEF ChannelUri!IsCut
<1>1. uri = ChannelUri!Uri(spy, P(0), params)
  BY DEF ChannelUri!UriOfCut
<1> HIDE DEF P
<1>2. ASSUME NEW n \in pairs
      PROVE  P(n) \in Text /\ Lacks(P(n), "=")
  BY <1>0 DEF Lacks, ChannelUri!Has
<1>3. ASSUME NEW key \in keys
      PROVE  last(key) + 1 \in DOMAIN c /\ (last(key) + 1) % 2 = 0
  <2> DEFINE A == { n \in pairs : P(n) = key }
             m == ChannelUri!Max(A)
  <2>1. A \subseteq 0..Len(c) /\ A # {}
    BY <1>0, <1>3
  <2>2. m \in A
    <3> HIDE DEF A
    <3> QED BY <1>0, <2>1, MaxIsGreatest
  <2>3. m \in pairs /\ last(key) = m
    BY <2>2
  <2> HIDE DEF A, m
  <2>4. m \in 1..Len(c) /\ m % 2 = 1 /\ m # Len(c)
    BY <1>0, <2>3
  <2>5. m + 1 \in 1..Len(c) /\ (m + 1) % 2 = 0
    <3>1. m + 1 \in 1..Len(c)
      <4>1. Len(c) \in Nat
        BY <1>0
      <4>2. QED
        BY <4>1, <2>4
    <3>2. (m + 1) % 2 = 0
      BY <2>4
    <3>3. QED
      BY <3>1, <3>2
  <2>6. QED
    BY <1>0, <2>3, <2>5
<1>4. ASSUME NEW key \in keys
      PROVE  params[key] \in Text /\ Lacks(params[key], "|")
  <2>1. params[key] = P(last(key) + 1)
    OBVIOUS
  <2> DEFINE m == last(key) + 1
  <2>2. m \in DOMAIN c /\ m % 2 = 0
    BY <1>3
  <2> HIDE DEF m
  <2>3. P(m) \in Text /\ Lacks(P(m), "|")
    BY <1>0, <2>2 DEF Lacks, ChannelUri!Has
  <2>4. QED
    BY <2>1, <2>3 DEF m
<1>5. IsFiniteSet(keys)
  <2> DEFINE f == [n \in pairs |-> P(n)]
  <2>1. IsFiniteSet(pairs)
    <3>1. IsFiniteSet(1..Len(c))
      <4>1. 1 \in Int /\ Len(c) \in Int
        BY <1>0
      <4>2. QED
        BY <4>1, FS_Interval
    <3>2. QED
      BY <1>0, <3>1, FS_Subset
  <2>2. f \in Surjection(pairs, keys)
    BY DEF Surjection
  <2> HIDE DEF f, pairs, keys
  <2>3. QED
    BY <2>1, <2>2, FS_Surjection
<1>6. P(0) \in Text /\ \A i \in DOMAIN P(0) : IsInside(P(0)[i], 0)
  BY <1>0 DEF IsInside, ChannelUri!Has
<1>7. DOMAIN params = keys /\ params \in [keys -> Text] /\ keys \in SUBSET Text
  BY <1>2, <1>4
<1>8. uri.spy = spy /\ uri.media = P(0) /\ uri.params = params
  BY <1>1 DEF ChannelUri!Uri
<1>9. \A key \in keys : Lacks(key, "=") /\ Lacks(params[key], "|")
  BY <1>2, <1>4
<1> HIDE DEF uri, params, keys
<1>10. QED
  BY <1>1, <1>5, <1>6, <1>7, <1>8, <1>9 DEF IsUri, uri

\* What is parsed can be printed so that it is read again.
LEMMA ParseIsUri ==
    ASSUME NEW text \in Text, ChannelUri!Parse(text).isValid
    PROVE  IsUri(ChannelUri!Parse(text))
<1>1. ChannelUri!Parse(text) \in ChannelUri!UrisByCutting(text)
  BY ParseIsCut
<1> DEFINE spy == ChannelUri!StartsWith(text, ChannelUri!SpyPrefix)
<1>2. PICK body \in ChannelUri!Behind(text) :
         \E c \in ChannelUri!Cuts(body) : ChannelUri!IsCut(body, c)
              /\ ChannelUri!Parse(text) = ChannelUri!UriOfCut(spy, body, c)
  BY <1>1 DEF ChannelUri!UrisByCutting
<1>3. body \in Text
  <2> DEFINE rest == IF spy THEN Tail(text) ELSE text
  <2>1. body = Tail(rest) /\ rest # <<>>
    BY <1>2 DEF ChannelUri!Behind, ChannelUri!StartsWith
  <2>2. rest \in Text
    BY HeadTailProperties DEF Text, ChannelUri!StartsWith
  <2> HIDE DEF rest
  <2>3. QED
    BY <2>1, <2>2, HeadTailProperties DEF Text
<1>4. spy \in BOOLEAN
  BY DEF ChannelUri!StartsWith
<1>5. QED
  BY <1>2, <1>3, <1>4, CutIsUri

-----------------------------------------------------------------------------
\* The parser at the end of a text.
Parsed(text) == Run(text)[Len(text)]

\* Reading on: what is known after one more symbol only takes what was known before.
LEMMA ParsedAppend ==
    ASSUME NEW text \in Text, NEW x \in Symbol
    PROVE  Parsed(Append(text, x)) = ChannelUri!ParseSymbol(Parsed(text), x)
<1> DEFINE longer == Append(text, x)
           T == { k \in Nat : k <= Len(text) => Run(longer)[k] = Run(text)[k] }
<1>0. /\ Len(text) \in Nat /\ longer \in Text /\ Len(longer) = Len(text) + 1
      /\ longer[Len(text) + 1] = x /\ \A k \in 1..Len(text) : longer[k] = text[k]
  <2>1. text \in Seq(Symbol)
    BY DEF Text
  <2>2. Len(text) \in Nat
    BY <2>1
  <2>3. longer \in Seq(Symbol) /\ Len(longer) = Len(text) + 1
    BY <2>1, AppendProperties, Zenon
  <2>4. longer[Len(text) + 1] = x
    BY <2>1, AppendProperties, Zenon
  <2>5. \A k \in 1..Len(text) : longer[k] = text[k]
    BY <2>1
  <2> HIDE DEF longer
  <2>6. QED
    BY <2>2, <2>3, <2>4, <2>5 DEF Text
<1> HIDE DEF longer
<1>1. 0 \in T
  BY <1>0, AfterFirst
<1>2. ASSUME NEW k \in Nat, k \in T
      PROVE  k + 1 \in T
  <2>1. ASSUME k + 1 <= Len(text)
        PROVE  Run(longer)[k + 1] = Run(text)[k + 1]
    <3>1. Run(longer)[k] = Run(text)[k]
      BY <1>0, <1>2, <2>1
    <3>2. longer[k + 1] = text[k + 1] /\ k + 1 <= Len(longer)
      BY <1>0, <2>1
    <3>3. QED
      BY <1>0, <2>1, <3>1, <3>2, AfterNext
  <2>2. QED
    BY <2>1
<1>3. Len(text) \in T
  <2> HIDE DEF T
  <2> QED BY <1>0, <1>1, <1>2, Induction
<1>4. Run(longer)[Len(text)] = Run(text)[Len(text)]
  BY <1>0, <1>3
<1>5. Run(longer)[Len(text) + 1] = ChannelUri!ParseSymbol(Run(longer)[Len(text)], x)
  <2>1. Len(text) + 1 <= Len(longer)
    BY <1>0
  <2>2. Run(longer)[Len(text) + 1] = ChannelUri!ParseSymbol(Run(longer)[Len(text)], longer[Len(text) + 1])
    BY <1>0, <2>1, AfterNext
  <2>3. QED
    BY <1>0, <2>2
<1>6. QED
  BY <1>0, <1>4, <1>5 DEF Parsed, longer

\* What is known after a text has its type.
LEMMA ParsedType ==
    ASSUME NEW text \in Text
    PROVE  Parsed(text) \in ParserState
<1>1. Len(text) \in 0..Len(text)
  BY DEF Text
<1>2. QED
  BY <1>1, AfterType DEF Parsed

\* What a parser reads without an end of its piece goes to the buffer.
LEMMA ParsedPiece ==
    ASSUME NEW text \in Text, NEW piece \in Text, NEW n \in Nat, Is(Parsed(text).state, n),
           \A i \in DOMAIN piece : IsInside(piece[i], n)
    PROVE  Parsed(text \o piece) = [Parsed(text) EXCEPT !.buffer = @ \o piece]
<1> DEFINE s == Parsed(text)
           part(k) == SubSeq(piece, 1, k)
           Holds(k) == Parsed(text \o part(k)) = [s EXCEPT !.buffer = s.buffer \o part(k)]
           T == { k \in Nat : k <= Len(piece) => Holds(k) }
<1>0. Len(piece) \in Nat /\ s \in ParserState /\ s.buffer \in Text /\ DOMAIN piece = 1..Len(piece)
  <2>1. s \in ParserState
    BY ParsedType
  <2>2. QED
    BY <2>1 DEF Text, ParserState
<1>1. \A k \in Nat : k <= Len(piece) => part(k) \in Text
  <2> TAKE k \in Nat
  <2>1. SUFFICES ASSUME k <= Len(piece) PROVE part(k) \in Text
    OBVIOUS
  <2>2. \A i \in 1..k : piece[i] \in Symbol
    BY <1>0, <2>1, ElementOfSeq DEF Text
  <2>3. QED
    BY <2>2, SubSeqProperties DEF Text
<1>2. part(0) = <<>>
  BY SubSeqEmpty
<1>3. 0 \in T
  <2>1. text \o <<>> = text /\ s.buffer \o <<>> = s.buffer
    BY <1>0, ConcatEmptySeq DEF Text
  <2>2. s = [s EXCEPT !.buffer = s.buffer]
    BY <1>0 DEF ParserState
  <2>3. Holds(0)
    <3> HIDE DEF s, part
    <3> QED BY <1>2, <2>1, <2>2 DEF s
  <2>4. QED
    BY <2>3
<1>4. ASSUME NEW k \in Nat, k \in T
      PROVE  k + 1 \in T
  <2>1. ASSUME k + 1 <= Len(piece)
        PROVE  Holds(k + 1)
    <3> DEFINE x == piece[k + 1]
               t == [s EXCEPT !.buffer = s.buffer \o part(k)]
    <3>1. Parsed(text \o part(k)) = t
      BY <1>0, <1>4, <2>1
    <3>2. part(k) \in Text /\ x \in Symbol /\ IsInside(x, n) /\ text \o part(k) \in Text
      <4>1. k + 1 \in DOMAIN piece
        BY <1>0, <2>1
      <4>2. part(k) \in Text
        BY <1>0, <1>1, <2>1
      <4> HIDE DEF part
      <4>3. QED
        BY <1>0, <4>1, <4>2, ElementOfSeq, ConcatProperties DEF Text
    <3>3. part(k + 1) = Append(part(k), x)
      BY <1>0, <2>1, SubSeqAppend
    <3>4. /\ text \o part(k + 1) = Append(text \o part(k), x)
          /\ s.buffer \o part(k + 1) = Append(s.buffer \o part(k), x)
      <4> HIDE DEF part, s, x
      <4>1. ASSUME NEW a \in Text
            PROVE  a \o Append(part(k), x) = Append(a \o part(k), x)
        <5>1. <<x>> \in Text /\ a \o part(k) \in Text
          BY <3>2, OneSymbol, Texts2
        <5>2. (a \o part(k)) \o <<x>> = a \o (part(k) \o <<x>>)
          BY <3>2, <5>1, Texts3
        <5>3. QED
          BY <3>2, <5>1, <5>2, OneSymbol
      <4>2. QED
        BY <1>0, <3>3, <4>1
    <3>5. Parsed(Append(text \o part(k), x)) = ChannelUri!ParseSymbol(t, x)
      <4> HIDE DEF part, s, x, t
      <4> QED BY <3>1, <3>2, ParsedAppend
    <3>6. t.state = s.state /\ t.buffer = s.buffer \o part(k) /\ t \in [DOMAIN s -> {s[f] : f \in DOMAIN s} \cup {t.buffer}]
      <4> HIDE DEF part, s
      <4> QED BY <1>0 DEF ParserState
    <3>7. ChannelUri!ParseSymbol(t, x) = ChannelUri!Buffer(t, x)
      <4>1. Is(t.state, n) /\ n % 2 \in {0, 1}
        BY <3>6
      <4> HIDE DEF part, s, x, t
      <4>2. CASE n = 0
        BY <3>2, <4>1, <4>2 DEF Is, IsInside, ChannelUri!ParseSymbol
      <4>3. CASE n % 2 = 1
        BY <3>2, <4>1, <4>3 DEF Is, IsInside, ChannelUri!ParseSymbol
      <4>4. CASE n # 0 /\ n % 2 = 0
        BY <3>2, <4>1, <4>4 DEF Is, IsInside, ChannelUri!ParseSymbol
      <4>5. QED
        BY <4>1, <4>2, <4>3, <4>4
    <3>8. ChannelUri!Buffer(t, x) = [s EXCEPT !.buffer = Append(s.buffer \o part(k), x)]
      <4> HIDE DEF part, s, x
      <4> QED BY <1>0 DEF ChannelUri!Buffer, ParserState
    <3>9. QED
      <4> HIDE DEF part, s, x, t
      <4> QED BY <3>4, <3>5, <3>7, <3>8
  <2> HIDE DEF Holds
  <2>2. QED
    BY <2>1
<1>5. Len(piece) \in T
  <2> HIDE DEF T
  <2> QED BY <1>0, <1>3, <1>4, Induction
<1>6. part(Len(piece)) = piece
  BY SubSeqFull DEF Text
<1>7. Holds(Len(piece))
  BY <1>0, <1>5
<1>8. QED
  <2> HIDE DEF part, s
  <2> QED BY <1>6, <1>7 DEF s

-----------------------------------------------------------------------------
(***************************************************************************)
(* ChannelUri: what is printed.                                            *)
(***************************************************************************)
PrintNext(params, order, f, n) ==
    IF n = 0 THEN <<>>
    ELSE f[n - 1] \o (IF n = 1 THEN <<"?">> ELSE <<"|">>)
           \o order[n] \o <<"=">> \o params[order[n]]

Printed(params, order) == CHOOSE f : f = [n \in 0..Len(order) |-> PrintNext(params, order, f, n)]

\* What is printed is given by its recursive definition: the function exists.
LEMMA PrintedDef ==
    ASSUME NEW params, NEW order, Len(order) \in Nat
    PROVE  /\ Printed(params, order)
                = [n \in 0..Len(order) |-> PrintNext(params, order, Printed(params, order), n)]
           /\ ChannelUri!PrintParams(params, order) = Printed(params, order)[Len(order)]
<1> DEFINE Follows(n, f) == f = [k \in 0..n |-> PrintNext(params, order, f, k)]
           T == { n \in Nat : \E f : Follows(n, f) }
<1>1. 0 \in T
  <2>1. Follows(0, [k \in 0..0 |-> <<>>])
    BY DEF PrintNext
  <2>2. QED
    BY <2>1
<1>2. ASSUME NEW n \in Nat, n \in T
      PROVE  n + 1 \in T
  <2>1. PICK f : Follows(n, f)
    BY <1>2
  <2> DEFINE g == [k \in 0..(n + 1) |-> PrintNext(params, order, f, k)]
  <2>2. \A k \in 0..n : g[k] = f[k]
    BY <2>1
  <2>3. \A k \in 0..(n + 1) : PrintNext(params, order, g, k) = PrintNext(params, order, f, k)
    <3> TAKE k \in 0..(n + 1)
    <3>1. CASE k = 0
      BY <3>1 DEF PrintNext
    <3>2. CASE k # 0
      <4>1. k - 1 \in 0..n
        BY <3>2
      <4>2. g[k - 1] = f[k - 1]
        BY <4>1, <2>2
      <4> HIDE DEF g
      <4>3. QED
        BY <3>2, <4>2 DEF PrintNext
    <3>3. QED
      BY <3>1, <3>2
  <2>4. Follows(n + 1, g)
    BY <2>3
  <2>5. QED
    <3> HIDE DEF Follows
    <3> QED BY <2>4
<1>3. \E f : Follows(Len(order), f)
  <2>1. Len(order) \in T
    <3> HIDE DEF T
    <3> QED BY <1>1, <1>2, Induction
  <2>2. QED
    BY <2>1, Zenon
<1>4. Printed(params, order) = CHOOSE f : Follows(Len(order), f)
  BY DEF Printed
<1>5. ChannelUri!PrintParams(params, order) = Printed(params, order)[Len(order)]
  BY DEF ChannelUri!PrintParams, Printed, PrintNext
<1>6. QED
  <2> HIDE DEF Follows
  <2>1. Follows(Len(order), CHOOSE f : Follows(Len(order), f))
    BY <1>3, Zenon
  <2>2. Follows(Len(order), Printed(params, order))
    BY <2>1, <1>4, Zenon
  <2>3. QED
    BY <2>2, <1>5 DEF Follows

\* An order of a finite set names each member of it once.
LEMMA OrderShape ==
    ASSUME NEW S, IsFiniteSet(S), NEW order \in ChannelUri!SetToSeqs(S)
    PROVE  /\ Len(order) \in Nat /\ order \in [1..Len(order) -> S]
           /\ S = { order[m] : m \in 1..Len(order) }
<1> DEFINE n == Cardinality(S)
<1>1. n \in Nat
  BY FS_CardinalityType
<1>2. order \in [1..n -> S] /\ \A i, j \in 1..n : i # j => order[i] # order[j]
  <2>1. ChannelUri!Cardinality(S) = n
    BY DEF ChannelUri!Cardinality, Cardinality
  <2> HIDE DEF n
  <2>2. QED
    BY <2>1 DEF ChannelUri!SetToSeqs
<1>3. Len(order) = n
  BY <1>1, <1>2
<1>4. order \in Injection(1..n, S)
  <2>1. \A i, j \in 1..n : order[i] = order[j] => i = j
    BY <1>2
  <2> HIDE DEF n
  <2>2. QED
    BY <1>2, <2>1 DEF Injection, IsInjective
<1>5. Cardinality(1..n) = n
  BY <1>1, FS_Interval
<1>6. order \in Surjection(1..n, S)
  BY <1>4, <1>5, FS_Injection
<1>7. QED
  <2> HIDE DEF n
  <2> QED BY <1>1, <1>2, <1>3, <1>6 DEF Surjection

\* ParsedAppend for a text and a symbol that are joined.
LEMMA ParsedSymbol ==
    ASSUME NEW text \in Text, NEW x \in Symbol
    PROVE  /\ text \o <<x>> \in Text
           /\ Parsed(text \o <<x>>) = ChannelUri!ParseSymbol(Parsed(text), x)
  BY OneSymbol, ParsedAppend

\* The parser in the value of a parameter.
PairRead(s, key, value) == [s EXCEPT !.state = "PARAMS_VALUE", !.key = key, !.buffer = value]

\* A printed pair is read as that pair.
LEMMA ParsedPair ==
    ASSUME NEW text \in Text, NEW key \in Text, NEW value \in Text,
           Lacks(key, "="), Lacks(value, "|"),
           Parsed(text).state = "PARAMS_KEY", Parsed(text).buffer = <<>>
    PROVE  /\ ((text \o key) \o <<"=">>) \o value \in Text
           /\ Parsed(((text \o key) \o <<"=">>) \o value)
                = PairRead(Parsed(text), key, value)
<1> DEFINE s == Parsed(text)
           withKey == text \o key
           withSign == withKey \o <<"=">>
           u == [s EXCEPT !.buffer = key]
           v == [s EXCEPT !.state = "PARAMS_VALUE", !.key = key, !.buffer = <<>>]
<1>0. s \in ParserState /\ withKey \in Text
  BY ParsedType, Texts2
<1>1. Parsed(withKey) = u
  <2>1. Is(s.state, 1)
    BY DEF Is
  <2>2. \A i \in DOMAIN key : IsInside(key[i], 1)
    BY DEF Lacks, IsInside
  <2>3. Parsed(withKey) = [s EXCEPT !.buffer = s.buffer \o key]
    BY <2>1, <2>2, ParsedPiece
  <2>4. s.buffer \o key = key
    BY ConcatEmptySeq DEF Text
  <2>5. QED
    <3> HIDE DEF s, withKey
    <3> QED BY <2>3, <2>4
<1>2. withSign \in Text /\ Parsed(withSign) = v
  <2>1. "=" \in Symbol
    BY DEF Symbol
  <2>2. withSign \in Text /\ Parsed(withSign) = ChannelUri!ParseSymbol(Parsed(withKey), "=")
    BY <1>0, <2>1, ParsedSymbol, Zenon
  <2>3. u \in ParserState /\ u.state = "PARAMS_KEY" /\ u.buffer = key
    <3> HIDE DEF s
    <3> QED BY <1>0 DEF ParserState, s
  <2>4. ChannelUri!ParseSymbol(u, "=") = ChannelUri!EndKey(u)
    <3> HIDE DEF u
    <3> QED BY <2>3 DEF ChannelUri!ParseSymbol
  <2>5. ChannelUri!EndKey(u) = v
    <3> HIDE DEF s
    <3> QED BY <1>0 DEF ChannelUri!EndKey, ParserState
  <2>6. QED
    <3> HIDE DEF u, v, withSign, withKey
    <3> QED BY <1>1, <2>2, <2>4, <2>5
<1>3. withSign \o value \in Text
  <2> HIDE DEF withSign
  <2> QED BY <1>2, Texts2
<1>4. Parsed(withSign \o value) = [v EXCEPT !.buffer = <<>> \o value]
  <2>1. Is(v.state, 2) /\ v.buffer = <<>>
    <3> HIDE DEF s
    <3> QED BY <1>0 DEF Is, ParserState
  <2>2. \A i \in DOMAIN value : IsInside(value[i], 2)
    BY DEF Lacks, IsInside
  <2>3. Parsed(withSign \o value) = [Parsed(withSign) EXCEPT !.buffer = @ \o value]
    <3> HIDE DEF withSign, v
    <3> QED BY <1>2, <2>1, <2>2, ParsedPiece
  <2>4. QED
    <3> HIDE DEF withSign, v
    <3> QED BY <1>2, <2>1, <2>3
<1>5. <<>> \o value = value
  BY ConcatEmptySeq DEF Text
<1>6. [v EXCEPT !.buffer = value] = PairRead(s, key, value)
  <2> HIDE DEF s
  <2> QED BY <1>0 DEF ParserState, PairRead
<1>7. QED
  <2> HIDE DEF v, s
  <2> QED BY <1>3, <1>4, <1>5, <1>6 DEF s

\* The parser behind the media and the first n parameters that are printed.
IsPrinted(s, uri, order, n) ==
    /\ s \in ParserState
    /\ n = 0 => s.state = "MEDIA" /\ s.buffer = uri.media /\ s.params = <<>>
    /\ n # 0 => /\ s.state = "PARAMS_VALUE" /\ s.media = uri.media
                /\ ChannelUri!Put(s.params, s.key, s.buffer)
                     = [key \in { order[m] : m \in 1..n } |-> uri.params[key]]

\* After the separator that is printed, the parser expects a key,
LEMMA PrintedSeparator ==
    ASSUME NEW uri, IsUri(uri), NEW order \in ChannelUri!SetToSeqs(DOMAIN uri.params),
           NEW n \in Nat, n + 1 <= Len(order), NEW text \in Text,
           IsPrinted(Parsed(text), uri, order, n)
    PROVE  LET next == text \o (IF n = 0 THEN <<"?">> ELSE <<"|">>) IN
           /\ next \in Text
           /\ Parsed(next).state = "PARAMS_KEY" /\ Parsed(next).buffer = <<>>
           /\ Parsed(next).media = uri.media
           /\ Parsed(next).params = [key \in { order[m] : m \in 1..n } |-> uri.params[key]]
<1> DEFINE x == IF n = 0 THEN "?" ELSE "|"
           s == Parsed(text)
           next == text \o <<x>>
<1>1. next = text \o (IF n = 0 THEN <<"?">> ELSE <<"|">>)
  OBVIOUS
<1>2. next \in Text /\ Parsed(next) = ChannelUri!ParseSymbol(s, x)
  <2>1. x \in Symbol
    BY DEF Symbol
  <2> HIDE DEF x
  <2>2. QED
    BY <2>1, ParsedSymbol
<1>3. s \in ParserState
  BY ParsedType
<1>4. CASE n = 0
  <2>1. s.state = "MEDIA" /\ s.buffer = uri.media /\ s.params = <<>> /\ x = "?"
    BY <1>4 DEF IsPrinted
  <2> HIDE DEF s, x
  <2>2. ChannelUri!ParseSymbol(s, x) = ChannelUri!EndMedia(s)
    BY <2>1 
       DEF ChannelUri!ParseSymbol, ChannelUri!HasColon, ChannelUri!SpyPrefix, ChannelUri!AeronPrefix
  <2>3. [key \in { order[m] : m \in 1..n } |-> uri.params[key]] = <<>>
    <3>1. { order[m] : m \in 1..n } = {}
      BY <1>4
    <3> DEFINE f == [key \in {} |-> uri.params[key]]
    <3>2. f = <<>>
      OBVIOUS
    <3>3. QED
      BY <3>1, <3>2
  <2>4. LET t == ChannelUri!EndMedia(s) IN
        t.state = "PARAMS_KEY" /\ t.buffer = <<>> /\ t.media = uri.media /\ t.params = <<>>
    BY <1>3, <2>1 DEF ChannelUri!EndMedia, ParserState
  <2> HIDE DEF next
  <2>5. QED
    BY <1>1, <1>2, <2>2, <2>3, <2>4
<1>5. CASE n # 0
  <2>1. /\ s.state = "PARAMS_VALUE" /\ s.media = uri.media /\ x = "|"
        /\ ChannelUri!Put(s.params, s.key, s.buffer)
             = [key \in { order[m] : m \in 1..n } |-> uri.params[key]]
    BY <1>5 DEF IsPrinted
  <2> HIDE DEF s, x
  <2>2. ChannelUri!ParseSymbol(s, x) = ChannelUri!EndValue(s)
    BY <2>1 DEF ChannelUri!ParseSymbol
  <2>3. LET t == ChannelUri!EndValue(s) IN
        /\ t.state = "PARAMS_KEY" /\ t.buffer = <<>> /\ t.media = uri.media
        /\ t.params = ChannelUri!Put(s.params, s.key, s.buffer)
    BY <1>3, <2>1 DEF ChannelUri!EndValue, ParserState
  <2> HIDE DEF next
  <2>4. QED
    BY <1>1, <1>2, <2>1, <2>2, <2>3
<1>6. QED
  BY <1>4, <1>5

\* and after the pair it has read as many parameters as were printed.
LEMMA PrintedPair ==
    ASSUME NEW uri, IsUri(uri), NEW order \in ChannelUri!SetToSeqs(DOMAIN uri.params),
           NEW n \in Nat, n + 1 <= Len(order), NEW text \in Text,
           IsPrinted(Parsed(text), uri, order, n)
    PROVE  LET next == (((text \o (IF n = 0 THEN <<"?">> ELSE <<"|">>)) \o order[n + 1]) \o <<"=">>)
                         \o uri.params[order[n + 1]]
           IN next \in Text /\ IsPrinted(Parsed(next), uri, order, n + 1)
<1> DEFINE key == order[n + 1]
           value == uri.params[key]
           before == text \o (IF n = 0 THEN <<"?">> ELSE <<"|">>)
           next == ((before \o key) \o <<"=">>) \o value
           s == Parsed(before)
           t == [s EXCEPT !.state = "PARAMS_VALUE", !.key = key, !.buffer = value]
           first == [k \in { order[m] : m \in 1..n } |-> uri.params[k]]
<1>1. key \in DOMAIN uri.params
  BY OrderShape DEF IsUri
<1>2. /\ key \in Text /\ value \in Text /\ Lacks(key, "=") /\ Lacks(value, "|")
  <2> HIDE DEF key
  <2> QED BY <1>1 DEF IsUri
<1>3. /\ before \in Text /\ s.state = "PARAMS_KEY" /\ s.buffer = <<>> /\ s.media = uri.media
      /\ s.params = first
  BY PrintedSeparator
<1>4. s \in ParserState
  BY <1>3, ParsedType
<1>5. next \in Text /\ Parsed(next) = t
  <2> HIDE DEF key, value, before
  <2>1. Parsed(before).state = "PARAMS_KEY" /\ Parsed(before).buffer = <<>>
    BY <1>3
  <2>2. before \in Text /\ key \in Text /\ value \in Text
    BY <1>2, <1>3
  <2>3. Lacks(key, "=") /\ Lacks(value, "|")
    BY <1>2
  <2> HIDE DEF s, t, next, first
  <2>4. /\ ((before \o key) \o <<"=">>) \o value \in Text
        /\ Parsed(((before \o key) \o <<"=">>) \o value)
             = PairRead(Parsed(before), key, value)
    BY <2>1, <2>2, <2>3, ParsedPair
  <2>5. QED
    BY <2>4 DEF next, t, s, PairRead
<1>6. /\ t.state = "PARAMS_VALUE" /\ t.media = uri.media /\ t.key = key /\ t.buffer = value
      /\ t.params = first /\ t \in ParserState
  <2> HIDE DEF s, key, value, first
  <2> QED BY <1>2, <1>3, <1>4 DEF ParserState
<1>7. ChannelUri!Put(first, key, value) = [k \in { order[m] : m \in 1..(n + 1) } |-> uri.params[k]]
  <2>1. { order[m] : m \in 1..(n + 1) } = { order[m] : m \in 1..n } \cup {key}
    OBVIOUS
  <2>2. QED
    <3> HIDE DEF key
    <3> QED BY <2>1 DEF ChannelUri!Put
<1>8. QED
  <2> HIDE DEF s, t, key, value, first, before
  <2>1. IsPrinted(Parsed(next), uri, order, n + 1)
    <3> HIDE DEF next
    <3> QED BY <1>5, <1>6, <1>7 DEF IsPrinted
  <2>2. QED
    BY <1>5, <2>1 DEF before, key, value

\* It does not matter which of three texts are joined first,
LEMMA Texts4 ==
    ASSUME NEW m \in Text, NEW a \in Text, NEW b \in Text
    PROVE  m \o (a \o b) = (m \o a) \o b
  BY Texts3

\* (Under another name, because the provers know too much of sequences.)
Join(a, b) == a \o b

Joined(a, b, c, d, e) == Join(Join(Join(Join(a, b), c), d), e)

LEMMA JoinIsText ==
    \A a, b \in Text : Join(a, b) \in Text
  BY Texts2 DEF Join

LEMMA JoinIsAssociative ==
    \A a, b, c \in Text : Join(a, Join(b, c)) = Join(Join(a, b), c)
  BY Texts4 DEF Join

\* or which of six.
LEMMA Texts6 ==
    ASSUME NEW m \in Text, NEW a \in Text, NEW b \in Text, NEW c \in Text, NEW d \in Text,
           NEW e \in Text
    PROVE  /\ Joined(a, b, c, d, e) \in Text
           /\ Join(m, Joined(a, b, c, d, e)) = Joined(Join(m, a), b, c, d, e)
<1>1. ASSUME NEW x \in Text, NEW y \in Text, NEW z \in Text
      PROVE  Join(x, y) \in Text /\ Join(x, Join(y, z)) = Join(Join(x, y), z)
  BY JoinIsText, JoinIsAssociative
<1> DEFINE ab == Join(a, b)
           abc == Join(ab, c)
           abcd == Join(abc, d)
<1>2. ab \in Text /\ Join(m, ab) = Join(Join(m, a), b)
  BY <1>1
<1>3. abc \in Text /\ Join(m, abc) = Join(Join(m, ab), c)
  <2> HIDE DEF ab
  <2> QED BY <1>1, <1>2
<1>4. abcd \in Text /\ Join(m, abcd) = Join(Join(m, abc), d)
  <2> HIDE DEF abc
  <2> QED BY <1>1, <1>3
<1>5. Join(abcd, e) \in Text /\ Join(m, Join(abcd, e)) = Join(Join(m, abcd), e)
  <2> HIDE DEF abcd
  <2> QED BY <1>1, <1>4
<1>6. Join(m, Join(abcd, e)) = Join(Join(Join(Join(Join(m, a), b), c), d), e)
  <2> HIDE DEF ab, abc, abcd
  <2> QED BY <1>2, <1>3, <1>4, <1>5
<1>7. QED
  BY <1>5, <1>6 DEF Joined

\* A printed medium is read as the medium.
LEMMA PrintedFirst ==
    ASSUME NEW uri, IsUri(uri), NEW order
    PROVE  uri.media \o <<>> \in Text /\ IsPrinted(Parsed(uri.media \o <<>>), uri, order, 0)
<1> DEFINE media == uri.media
<1>1. media \in Text /\ <<>> \in Text /\ \A i \in DOMAIN media : IsInside(media[i], 0)
  BY EmptySeq DEF IsUri, Text
<1>2. media \o <<>> = media /\ <<>> \o media = media
  <2> HIDE DEF media
  <2> QED BY <1>1, ConcatEmptySeq DEF Text
<1>3. Parsed(<<>>) = ChannelUri!Start
  BY <1>1, AfterFirst DEF Parsed
<1>4. Is(Parsed(<<>>).state, 0) /\ Parsed(<<>>).buffer = <<>> /\ Parsed(<<>>).params = <<>>
  BY <1>3 DEF Is, ChannelUri!Start
<1>5. Parsed(<<>> \o media) = [Parsed(<<>>) EXCEPT !.buffer = @ \o media]
  <2> HIDE DEF media
  <2> QED BY <1>1, <1>4, ParsedPiece
<1>6. Parsed(media) = [ChannelUri!Start EXCEPT !.buffer = media]
  <2> HIDE DEF media
  <2> QED BY <1>2, <1>3, <1>4, <1>5
<1>7. Parsed(media) \in ParserState
  BY <1>1, ParsedType
<1>8. Parsed(media).state = "MEDIA" /\ Parsed(media).buffer = media /\ Parsed(media).params = <<>>
  <2> HIDE DEF media
  <2> QED BY <1>6 DEF ChannelUri!Start
<1>9. QED
  <2> HIDE DEF media
  <2>1. IsPrinted(Parsed(media), uri, order, 0)
    BY <1>7, <1>8 DEF IsPrinted, media
  <2>2. QED
    BY <1>1, <1>2, <2>1 DEF media

\* All that is printed is read as it was, in whatever order the map is walked.
LEMMA PrintedAll ==
    ASSUME NEW uri, IsUri(uri), NEW order \in ChannelUri!SetToSeqs(DOMAIN uri.params)
    PROVE  LET printed == ChannelUri!PrintParams(uri.params, order) IN
           /\ printed \in Text /\ uri.media \o printed \in Text
           /\ IsPrinted(Parsed(uri.media \o printed), uri, order, Len(order))
<1> DEFINE run == Printed(uri.params, order)
           body(n) == uri.media \o run[n]
           T == { n \in Nat : n <= Len(order) =>
                    run[n] \in Text /\ body(n) \in Text /\ IsPrinted(Parsed(body(n)), uri, order, n) }
<1>0. Len(order) \in Nat
  BY OrderShape DEF IsUri
<1>1. /\ \A n \in 0..Len(order) : run[n] = PrintNext(uri.params, order, run, n)
      /\ ChannelUri!PrintParams(uri.params, order) = run[Len(order)]
  <2>1. run = [n \in 0..Len(order) |-> PrintNext(uri.params, order, run, n)]
    BY <1>0, PrintedDef
  <2>2. ChannelUri!PrintParams(uri.params, order) = run[Len(order)]
    BY <1>0, PrintedDef
  <2> HIDE DEF run
  <2>3. QED
    BY <2>1, <2>2
<1> HIDE DEF run
<1>2. 0 \in T
  <2>1. run[0] = <<>>
    BY <1>0, <1>1 DEF PrintNext
  <2>2. <<>> \in Text
    BY EmptySeq DEF Text
  <2>3. QED
    BY <2>1, <2>2, PrintedFirst
<1>3. ASSUME NEW n \in Nat, n \in T
      PROVE  n + 1 \in T
  <2> SUFFICES ASSUME n + 1 <= Len(order)
               PROVE  /\ run[n + 1] \in Text /\ body(n + 1) \in Text
                      /\ IsPrinted(Parsed(body(n + 1)), uri, order, n + 1)
    OBVIOUS
  <2> DEFINE sep == IF n = 0 THEN <<"?">> ELSE <<"|">>
             sign == <<"=">>
             key == order[n + 1]
             value == uri.params[key]
             text == body(n)
             media == uri.media
  <2>1. /\ run[n] \in Text /\ text \in Text /\ IsPrinted(Parsed(text), uri, order, n)
    BY <1>0, <1>3
  <2>2. run[n + 1] = (((run[n] \o sep) \o key) \o sign) \o value
    <3>1. n + 1 \in 0..Len(order) /\ n + 1 # 0 /\ (n + 1) - 1 = n /\ (n + 1 = 1 <=> n = 0)
      BY <1>0
    <3>2. run[n + 1] = PrintNext(uri.params, order, run, n + 1)
      BY <1>1, <3>1
    <3>3. QED
      BY <3>1, <3>2 DEF PrintNext
  <2>3. /\ sep \in Text /\ sign \in Text /\ key \in Text /\ value \in Text /\ media \in Text
    <3>1. "?" \in Symbol /\ "=" \in Symbol /\ "|" \in Symbol
      BY DEF Symbol
    <3>2. <<"?">> \in Text /\ <<"|">> \in Text /\ <<"=">> \in Text
      BY <2>1, <3>1, OneSymbol
    <3>3. key \in DOMAIN uri.params
      BY OrderShape DEF IsUri
    <3> HIDE DEF key
    <3>4. key \in Text /\ value \in Text /\ media \in Text
      BY <3>3 DEF IsUri
    <3>5. QED
      BY <3>2, <3>4
  <2> DEFINE next == (((text \o sep) \o key) \o sign) \o value
  <2>4. next \in Text /\ IsPrinted(Parsed(next), uri, order, n + 1)
    <3> HIDE DEF text
    <3> QED BY <2>1, PrintedPair
  <2>5. run[n + 1] \in Text /\ media \o run[n + 1] = next
    <3>1. text = media \o run[n]
      OBVIOUS
    <3> DEFINE printed == run[n]
    <3> HIDE DEF sep, key, sign, value, media, text, printed
    <3>2. printed \in Text
      BY <2>1 DEF printed
    <3>3. /\ Joined(printed, sep, key, sign, value) \in Text
          /\ Join(media, Joined(printed, sep, key, sign, value))
               = Joined(Join(media, printed), sep, key, sign, value)
      BY <2>3, <3>2, Texts6
    <3>4. /\ run[n + 1] = Joined(printed, sep, key, sign, value)
          /\ next = Joined(Join(media, printed), sep, key, sign, value)
      BY <2>2, <3>1 DEF printed, Joined, Join
    <3>5. QED
      <4>1. media \o run[n + 1] = Join(media, run[n + 1])
        BY DEF Join
      <4> HIDE DEF next
      <4>2. QED
        BY <3>3, <3>4, <4>1
  <2>6. QED
    <3> HIDE DEF next, text, sep, key, sign, value
    <3> QED BY <2>4, <2>5
<1>4. Len(order) \in T
  <2> HIDE DEF T
  <2> QED BY <1>0, <1>2, <1>3, Induction
<1>5. QED
  BY <1>0, <1>1, <1>4

\* A channel that is printed is read back as it was, in any order of its parameters.
LEMMA PrintedIsParsed ==
    ASSUME NEW uri, IsUri(uri), NEW text \in ChannelUri!ToStrings(uri)
    PROVE  text \in Text /\ ChannelUri!Parse(text) = uri
<1> DEFINE spy == IF uri.spy THEN <<ChannelUri!SpyPrefix>> ELSE <<>>
           aeron0 == <<ChannelUri!AeronPrefix>>
           media == uri.media
<1>1. PICK order \in ChannelUri!SetToSeqs(DOMAIN uri.params) :
         text = ((spy \o aeron0) \o media) \o ChannelUri!PrintParams(uri.params, order)
  BY DEF ChannelUri!ToStrings
<1> DEFINE printed == ChannelUri!PrintParams(uri.params, order)
           body == media \o printed
           end == Parsed(body)
           N == Len(order)
<1>2. printed \in Text /\ body \in Text /\ IsPrinted(end, uri, order, N)
  BY PrintedAll
<1>3. /\ N \in Nat /\ DOMAIN uri.params = { order[m] : m \in 1..N }
      /\ order \in [1..N -> DOMAIN uri.params]
  <2> HIDE DEF N
  <2> QED BY OrderShape DEF IsUri, N
<1>4. /\ spy \in Text /\ aeron0 \in Text /\ media \in Text /\ spy \o aeron0 \in Text
  <2>1. <<>> \in Text /\ media \in Text
    BY EmptySeq DEF IsUri, Text
  <2>2. ChannelUri!SpyPrefix \in Symbol /\ ChannelUri!AeronPrefix \in Symbol
    BY DEF Symbol
  <2>3. <<ChannelUri!SpyPrefix>> \in Text /\ <<ChannelUri!AeronPrefix>> \in Text
    BY <2>1, <2>2, OneSymbol
  <2>4. QED
    BY <2>1, <2>3, Texts2
<1> DEFINE aeron1 == aeron0 \o body
<1>5. text = spy \o aeron1 /\ aeron1 \in Text /\ text \in Text
  <2> HIDE DEF spy, aeron0, media, printed
  <2> DEFINE prefix == spy \o aeron0
  <2>1. text = prefix \o body
    <3>1. text = (prefix \o media) \o printed /\ prefix \in Text
      BY <1>1, <1>4 DEF printed
    <3> HIDE DEF prefix
    <3>2. Join(Join(prefix, media), printed) = Join(prefix, Join(media, printed))
      BY <1>2, <1>4, <3>1, JoinIsAssociative
    <3>3. QED
      BY <3>1, <3>2 DEF Join
  <2> HIDE DEF body
  <2>2. (spy \o aeron0) \o body = spy \o aeron1
    <3>1. Join(Join(spy, aeron0), body) = Join(spy, Join(aeron0, body))
      BY <1>2, <1>4, JoinIsAssociative
    <3>2. QED
      BY <3>1 DEF Join
  <2>3. aeron1 \in Text /\ spy \o aeron1 \in Text
    BY <1>2, <1>4, Texts2
  <2>4. QED
    BY <2>1, <2>2, <2>3
<1>6. Head(aeron1) = ChannelUri!AeronPrefix /\ Tail(aeron1) = body /\ aeron1 # <<>>
  <2> HIDE DEF body
  <2> QED BY <1>2, HeadTailOfOne
<1>7. /\ ChannelUri!StartsWith(text, ChannelUri!SpyPrefix) = uri.spy
      /\ uri.spy => Tail(text) = aeron1
      /\ ~uri.spy => text = aeron1
  <2> HIDE DEF aeron1
  <2>1. uri.spy \in BOOLEAN /\ ChannelUri!SpyPrefix # ChannelUri!AeronPrefix
    BY DEF IsUri, ChannelUri!SpyPrefix, ChannelUri!AeronPrefix
  <2>2. CASE uri.spy
    <3>1. text = <<ChannelUri!SpyPrefix>> \o aeron1
      BY <1>5, <2>2
    <3>2. Head(text) = ChannelUri!SpyPrefix /\ Tail(text) = aeron1 /\ text # <<>>
      BY <1>5, <3>1, HeadTailOfOne
    <3>3. QED
      BY <2>1, <2>2, <3>2 DEF ChannelUri!StartsWith
  <2>3. CASE ~uri.spy
    <3>1. text = aeron1
      BY <1>5, <2>3, ConcatEmptySeq DEF Text
    <3>2. QED
      BY <1>6, <2>1, <2>3, <3>1 DEF ChannelUri!StartsWith
  <2>4. QED
    BY <2>1, <2>2, <2>3
<1>8. ChannelUri!Parse(text) =
        CASE end.state = "MEDIA" -> ChannelUri!Uri(uri.spy, end.buffer, end.params)
          [] end.state = "PARAMS_VALUE" ->
                ChannelUri!Uri(uri.spy, end.media, ChannelUri!EndValue(end).params)
          [] OTHER -> ChannelUri!Invalid
  <2>1. end = ChannelUri!After(body)[Len(body)]
    BY DEF Parsed, Run
  <2> HIDE DEF aeron1, body, end
  <2>2. ChannelUri!StartsWith(aeron1, ChannelUri!AeronPrefix)
    BY <1>6 DEF ChannelUri!StartsWith
  <2> DEFINE aeron2 == IF ChannelUri!StartsWith(text, ChannelUri!SpyPrefix) THEN Tail(text) ELSE text
  <2>3. aeron2 = aeron1
    BY <1>7
  <2>4. QED
    BY <1>6, <1>7, <2>1, <2>2, <2>3 DEF ChannelUri!Parse
<1>9. uri = ChannelUri!Uri(uri.spy, uri.media, uri.params)
  BY DEF IsUri
<1>10. CASE N = 0
  <2> HIDE DEF end, N
  <2>1. end.state = "MEDIA" /\ end.buffer = uri.media /\ end.params = <<>>
    BY <1>2, <1>10 DEF IsPrinted
  <2>2. uri.params = <<>>
    <3>1. DOMAIN uri.params = {}
      BY <1>3, <1>10
    <3>2. uri.params = [key \in {} |-> uri.params[key]]
      BY <3>1 DEF IsUri
    <3> DEFINE f == [key \in {} |-> uri.params[key]]
    <3>3. f = <<>>
      OBVIOUS
    <3>4. QED
      BY <3>2, <3>3
  <2>3. ChannelUri!Parse(text) = ChannelUri!Uri(uri.spy, end.buffer, end.params)
    BY <1>8, <2>1
  <2>4. QED
    BY <1>5, <1>9, <2>1, <2>2, <2>3
<1>11. CASE N # 0
  <2> HIDE DEF end, N
  <2>1. /\ end.state = "PARAMS_VALUE" /\ end.media = uri.media /\ end \in ParserState
        /\ ChannelUri!Put(end.params, end.key, end.buffer)
             = [key \in { order[m] : m \in 1..N } |-> uri.params[key]]
    BY <1>2, <1>11 DEF IsPrinted
  <2>2. uri.params = [key \in { order[m] : m \in 1..N } |-> uri.params[key]]
    BY <1>3 DEF IsUri
  <2>3. ChannelUri!EndValue(end).params = ChannelUri!Put(end.params, end.key, end.buffer)
    BY <2>1 DEF ChannelUri!EndValue, ParserState
  <2>4. ChannelUri!Parse(text) = ChannelUri!Uri(uri.spy, end.media, ChannelUri!EndValue(end).params)
    BY <1>8, <2>1
  <2>5. QED
    BY <1>5, <1>9, <2>1, <2>2, <2>3, <2>4
<1>12. QED
  BY <1>10, <1>11

-----------------------------------------------------------------------------
(***************************************************************************)
(* PropertiesReader: places, and the pieces between them.                  *)
(***************************************************************************)
LEMMA GreatestIsIn ==
    ASSUME NEW n \in Nat, NEW A, A \subseteq 0..n, A # {}
    PROVE  PropertiesReader!Max(A) \in A
  BY MaxExists DEF PropertiesReader!Max

\* A set of numbers that is not empty has a least one.
LEMMA MinExists ==
    ASSUME NEW A, A \subseteq Nat, A # {}
    PROVE  \E m \in A : \A k \in A : m <= k
<1> DEFINE R == { p \in Nat \X Nat : p[1] < p[2] }
<1>1. IsWellFoundedOn(R, Nat)
  BY NatLessThanWellFounded DEF OpToRel
<1>2. PICK m \in A : \A k \in A : <<k, m>> \notin R
  <2> HIDE DEF R
  <2> QED BY <1>1, WFMin, Zenon
<1>3. \A k \in A : ~(k < m)
  BY <1>2
<1>4. QED
  BY <1>3

\* CHOOSE finds the least one,
LEMMA MinIsLeast ==
    ASSUME NEW A, A \subseteq Nat, A # {}
    PROVE  /\ PropertiesReader!Min(A) \in A
           /\ \A k \in A : PropertiesReader!Min(A) <= k
  BY MinExists DEF PropertiesReader!Min

\* also of two.
LEMMA MinOfTwo ==
    ASSUME NEW m \in Nat, NEW n \in Nat
    PROVE  PropertiesReader!Min({m, n}) = IF m <= n THEN m ELSE n
<1> DEFINE A == {m, n}
<1>1. A \subseteq Nat /\ A # {}
  OBVIOUS
<1>2. PropertiesReader!Min(A) \in A /\ \A k \in A : PropertiesReader!Min(A) <= k
  <2> HIDE DEF A
  <2> QED BY <1>1, MinIsLeast
<1>3. QED
  BY <1>2

\* A piece of a text is a text, of that length and those symbols.
LEMMA SubSeqOfText ==
    ASSUME NEW text \in Text, NEW m \in Nat \ {0}, NEW n \in Nat, n <= Len(text)
    PROVE  /\ SubSeq(text, m, n) \in Text
           /\ Len(SubSeq(text, m, n)) = IF m <= n THEN n - m + 1 ELSE 0
           /\ \A i \in 1..(n - m + 1) : SubSeq(text, m, n)[i] = text[m + i - 1]
<1>1. \A i \in m..n : text[i] \in Symbol
  <2> TAKE i \in m..n
  <2>1. i \in 1..Len(text)
    OBVIOUS
  <2>2. QED
    BY <2>1, ElementOfSeq DEF Text
<1>2. m \in Int /\ n \in Int
  OBVIOUS
<1>3. QED
  BY <1>1, <1>2, SubSeqProperties DEF Text

\* std::string::substr is SubSeq, up to the end of the line at the most.
LEMMA SubstringIsSubSeq ==
    ASSUME NEW line \in Text, NEW pos \in Nat, NEW count \in Nat
    PROVE  LET upTo == IF pos + count <= Len(line) THEN pos + count ELSE Len(line) IN
           /\ PropertiesReader!Substring(line, pos, count) = SubSeq(line, pos + 1, upTo)
           /\ upTo \in Nat /\ upTo <= Len(line)
<1>1. Len(line) \in Nat /\ pos + count \in Nat
  BY DEF Text
<1>2. QED
  BY <1>1, MinOfTwo DEF PropertiesReader!Substring

\* A part of a line is a text.
LEMMA SubstringType ==
    ASSUME NEW line \in Text, NEW pos \in Nat, NEW count \in Nat
    PROVE  PropertiesReader!Substring(line, pos, count) \in Text
<1> DEFINE upTo == IF pos + count <= Len(line) THEN pos + count ELSE Len(line)
<1>1. pos + 1 \in Nat \ {0}
  OBVIOUS
<1>2. /\ PropertiesReader!Substring(line, pos, count) = SubSeq(line, pos + 1, upTo)
      /\ upTo \in Nat /\ upTo <= Len(line)
  BY SubstringIsSubSeq
<1> HIDE DEF upTo
<1>3. SubSeq(line, pos + 1, upTo) \in Text
  BY <1>1, <1>2, SubSeqOfText
<1>4. QED
  BY <1>2, <1>3

\* The symbols that are no blanks are places in the text.
LEMMA WordsShape ==
    ASSUME NEW text \in Text
    PROVE  PropertiesReader!Words(text) \subseteq 1..Len(text) /\ Len(text) \in Nat
  BY LenProperties DEF PropertiesReader!Words, Text

\* A trimmed text is a text.
LEMMA RightTrimType ==
    ASSUME NEW text \in Text
    PROVE  PropertiesReader!RightTrim(text) \in Text
<1> DEFINE A == PropertiesReader!Words(text) \cup {0}
           n == PropertiesReader!Max(A)
<1>1. A \subseteq 0..Len(text) /\ A # {} /\ Len(text) \in Nat
  BY WordsShape
<1>2. n \in A
  <2> HIDE DEF A
  <2> QED BY <1>1, GreatestIsIn
<1>3. n \in Nat /\ n <= Len(text)
  <2> HIDE DEF A, n
  <2> QED BY <1>1, <1>2
<1>4. PropertiesReader!RightTrim(text) = SubSeq(text, 1, n)
  BY DEF PropertiesReader!RightTrim
<1>5. QED
  <2> HIDE DEF n
  <2> QED BY <1>3, <1>4, SubSeqOfText

\* Where there is no blank in front, trimming only takes blanks off the end.
LEMMA TrimType ==
    ASSUME NEW text \in Text
    PROVE  /\ PropertiesReader!Trim(text) \in Text
           /\ (text # <<>> /\ text[1] # " ")
                => PropertiesReader!Trim(text) = PropertiesReader!RightTrim(text)
<1> DEFINE A == PropertiesReader!Words(text) \cup {Len(text) + 1}
           m == PropertiesReader!Min(A)
           right == PropertiesReader!RightTrim(text)
<1>1. A \subseteq 1..(Len(text) + 1) /\ A \subseteq Nat /\ A # {} /\ Len(text) \in Nat
  BY WordsShape
<1>2. m \in A /\ \A k \in A : m <= k
  <2> HIDE DEF A
  <2> QED BY <1>1, MinIsLeast
<1>3. m \in Nat \ {0}
  <2> HIDE DEF A, m
  <2> QED BY <1>1, <1>2
<1>4. PropertiesReader!Trim(text) = SubSeq(right, m, Len(right))
  BY DEF PropertiesReader!Trim
<1>5. right \in Text
  BY RightTrimType
<1>6. PropertiesReader!Trim(text) \in Text
  <2> HIDE DEF m, right
  <2>1. Len(right) \in Nat
    BY <1>5 DEF Text
  <2>2. QED
    BY <1>3, <1>4, <1>5, <2>1, SubSeqOfText
<1>7. ASSUME text # <<>>, text[1] # " "
      PROVE  PropertiesReader!Trim(text) = right
  <2>1. 1 \in DOMAIN text
    <3>1. Len(text) \in Nat \ {0}
      BY <1>7, EmptySeq DEF Text
    <3>2. DOMAIN text = 1..Len(text)
      BY LenProperties DEF Text
    <3>3. QED
      BY <3>1, <3>2
  <2>2. 1 \in A
    BY <1>7, <2>1 DEF PropertiesReader!Words
  <2>3. m = 1
    <3> HIDE DEF A, m
    <3> QED BY <1>2, <1>3, <2>2
  <2>4. SubSeq(right, 1, Len(right)) = right
    <3> HIDE DEF right
    <3> QED BY <1>5, SubSeqFull DEF Text
  <2>5. QED
    <3> HIDE DEF m, right
    <3> QED BY <1>4, <2>3, <2>4
<1>8. QED
  BY <1>6, <1>7

-----------------------------------------------------------------------------
(***************************************************************************)
(* PropertiesReader: a line, symbol by symbol.                             *)
(***************************************************************************)
LineRun(line) == PropertiesReader!After(line)
LineNext(line, f, k) ==
    IF k = 0 THEN PropertiesReader!StartOfLine
    ELSE PropertiesReader!ParseSymbol(line, f[k - 1], line[k])

\* What the parser knows of a line is given by its recursive definition.
LEMMA LineRunDef ==
    ASSUME NEW line \in Text
    PROVE  LineRun(line) = [k \in 0..Len(line) |-> LineNext(line, LineRun(line), k)]
<1> DEFINE Follows(n, f) == f = [k \in 0..n |-> LineNext(line, f, k)]
           T == { n \in Nat : \E f : Follows(n, f) }
<1>0. Len(line) \in Nat
  BY DEF Text
<1>1. 0 \in T
  <2>1. Follows(0, [k \in 0..0 |-> PropertiesReader!StartOfLine])
    BY DEF LineNext
  <2>2. QED
    BY <2>1
<1>2. ASSUME NEW n \in Nat, n \in T
      PROVE  n + 1 \in T
  <2>1. PICK f : Follows(n, f)
    BY <1>2
  <2> DEFINE g == [k \in 0..(n + 1) |-> LineNext(line, f, k)]
  <2>2. \A k \in 0..n : g[k] = f[k]
    BY <2>1
  <2>3. \A k \in 0..(n + 1) : LineNext(line, g, k) = LineNext(line, f, k)
    <3> TAKE k \in 0..(n + 1)
    <3>1. CASE k = 0
      BY <3>1 DEF LineNext
    <3>2. CASE k # 0
      <4>1. k - 1 \in 0..n
        BY <3>2
      <4>2. g[k - 1] = f[k - 1]
        BY <4>1, <2>2
      <4> HIDE DEF g
      <4>3. QED
        BY <3>2, <4>2 DEF LineNext
    <3>3. QED
      BY <3>1, <3>2
  <2>4. Follows(n + 1, g)
    BY <2>3
  <2>5. QED
    <3> HIDE DEF Follows
    <3> QED BY <2>4
<1>3. \E f : Follows(Len(line), f)
  <2>1. Len(line) \in T
    <3> HIDE DEF T
    <3> QED BY <1>0, <1>1, <1>2, Induction
  <2>2. QED
    BY <2>1, Zenon
<1>4. LineRun(line) = CHOOSE f : Follows(Len(line), f)
  BY DEF LineRun, PropertiesReader!After, LineNext
<1>5. QED
  <2> HIDE DEF Follows
  <2>1. Follows(Len(line), CHOOSE f : Follows(Len(line), f))
    BY <1>3, Zenon
  <2>2. Follows(Len(line), LineRun(line))
    BY <2>1, <1>4, Zenon
  <2>3. QED
    BY <2>2 DEF Follows

\* What it knows at the start and after one more symbol.
LEMMA LineSteps ==
    ASSUME NEW line \in Text
    PROVE  /\ Len(line) \in Nat
           /\ LineRun(line)[0] = PropertiesReader!StartOfLine
           /\ \A k \in Nat : k + 1 <= Len(line) =>
                LineRun(line)[k + 1]
                  = PropertiesReader!ParseSymbol(line, LineRun(line)[k], line[k + 1])
<1> DEFINE run == LineRun(line)
<1>1. Len(line) \in Nat
  BY DEF Text
<1>2. run = [k \in 0..Len(line) |-> LineNext(line, run, k)]
  BY LineRunDef
<1> HIDE DEF run
<1>3. run[0] = PropertiesReader!StartOfLine
  BY <1>1, <1>2 DEF LineNext
<1>4. ASSUME NEW k \in Nat, k + 1 <= Len(line)
      PROVE  run[k + 1] = PropertiesReader!ParseSymbol(line, run[k], line[k + 1])
  <2>1. k + 1 \in 0..Len(line) /\ k + 1 # 0 /\ (k + 1) - 1 = k
    BY <1>1, <1>4
  <2>2. run[k + 1] = LineNext(line, run, k + 1)
    BY <1>2, <2>1
  <2>3. QED
    BY <2>1, <2>2 DEF LineNext
<1>5. QED
  BY <1>1, <1>3, <1>4 DEF run

LineState ==
    [state : {"START", "KEY", "VALUE"}, i : Nat, pos : Nat, key : Text, isOver : BOOLEAN]

\* The parser's state has its type after every symbol,
LEMMA LineSymbolType ==
    ASSUME NEW line \in Text, NEW s \in LineState, NEW c
    PROVE  PropertiesReader!ParseSymbol(line, s, c) \in LineState
<1> DEFINE key == PropertiesReader!RightTrim(PropertiesReader!Substring(line, s.pos, s.i))
<1>1. key \in Text
  <2>1. s.pos \in Nat /\ s.i \in Nat
    BY DEF LineState
  <2>2. PropertiesReader!Substring(line, s.pos, s.i) \in Text
    BY <2>1, SubstringType
  <2>3. QED
    BY <2>2, RightTrimType
<1>2. \A t \in LineState : PropertiesReader!Advance(t) \in LineState
  BY DEF LineState, PropertiesReader!Advance
<1>3. [s EXCEPT !.isOver = TRUE] \in LineState
  BY DEF LineState
<1>4. [s EXCEPT !.state = "KEY", !.pos = s.i] \in LineState
  BY DEF LineState
<1>5. PropertiesReader!EndKey(line, s) \in LineState
  <2>1. PropertiesReader!EndKey(line, s) = [s EXCEPT !.state = "VALUE", !.pos = s.i + 1, !.key = key]
    BY DEF PropertiesReader!EndKey
  <2>2. s.i + 1 \in Nat
    BY DEF LineState
  <2> HIDE DEF key
  <2>3. QED
    BY <1>1, <2>1, <2>2 DEF LineState
<1>6. QED
  <2> HIDE DEF LineState
  <2> QED BY <1>2, <1>3, <1>4, <1>5 DEF PropertiesReader!ParseSymbol

\* of a line of any length.
LEMMA LineRunType ==
    ASSUME NEW line \in Text
    PROVE  \A k \in 0..Len(line) : LineRun(line)[k] \in LineState
<1> DEFINE T == { k \in Nat : k <= Len(line) => LineRun(line)[k] \in LineState }
<1>1. 0 \in T
  <2>1. <<>> \in Text
    BY EmptySeq DEF Text
  <2>2. PropertiesReader!StartOfLine \in LineState
    BY <2>1 DEF PropertiesReader!StartOfLine, LineState
  <2>3. QED
    BY <2>2, LineSteps
<1>2. ASSUME NEW k \in Nat, k \in T
      PROVE  k + 1 \in T
  <2>1. CASE k + 1 <= Len(line)
    <3>1. LineRun(line)[k] \in LineState
      BY <1>2, <2>1, LineSteps
    <3>2. LineRun(line)[k + 1]
            = PropertiesReader!ParseSymbol(line, LineRun(line)[k], line[k + 1])
      BY <2>1, LineSteps
    <3>3. LineRun(line)[k + 1] \in LineState
      BY <3>1, <3>2, LineSymbolType
    <3>4. QED
      BY <3>3
  <2>2. QED
    BY <2>1
<1>3. \A k \in Nat : k \in T
  <2> HIDE DEF T
  <2> QED BY <1>1, <1>2, Induction
<1>4. QED
  BY <1>3, LineSteps

\* A line gives a key and a value that are texts, or throws.
LEMMA ParseLineType ==
    ASSUME NEW line \in Text
    PROVE  LET pair == PropertiesReader!ParseLine(line) IN
           pair.throws \in BOOLEAN /\ pair.key \in Text /\ pair.value \in Text
<1> DEFINE end == LineRun(line)[Len(line)]
           value == PropertiesReader!Substring(line, end.pos, end.i)
<1>1. end \in LineState
  BY LineSteps, LineRunType
<1>2. PropertiesReader!ParseLine(line) =
        [throws |-> end.state = "KEY", key |-> end.key,
         value |-> IF end.state = "VALUE" THEN PropertiesReader!Trim(value) ELSE <<>>]
  BY DEF PropertiesReader!ParseLine, LineRun
<1>3. PropertiesReader!Trim(value) \in Text /\ <<>> \in Text
  <2>1. end.pos \in Nat /\ end.i \in Nat
    BY <1>1 DEF LineState
  <2> HIDE DEF end
  <2>2. value \in Text
    BY <2>1, SubstringType
  <2> HIDE DEF value
  <2>3. QED
    BY <2>2, TrimType, EmptySeq DEF Text
<1>4. end.key \in Text
  BY <1>1 DEF LineState
<1>5. QED
  <2> HIDE DEF end, value
  <2> QED BY <1>2, <1>3, <1>4

-----------------------------------------------------------------------------
(***************************************************************************)
(* PropertiesReader: plain lines.                                          *)
(***************************************************************************)
NoSign(line, k) == \A j \in 1..k : line[j] # "="
IsFirstSign(line, p) == line[p] = "=" /\ NoSign(line, p - 1)

\* The parser behind the first k symbols of a plain line.
IsPlainRun(line, s, k) ==
    /\ s \in LineState /\ ~s.isOver /\ s.i = k
    /\ NoSign(line, k) => s.state = "KEY" /\ s.pos = 0
    /\ \A p \in 1..k : IsFirstSign(line, p) =>
         /\ s.state = "VALUE" /\ s.pos = p
         /\ s.key = PropertiesReader!RightTrim(PropertiesReader!Substring(line, 0, p - 1))

\* Where there is an "=", there is a first one,
LEMMA FirstSignExists ==
    ASSUME NEW line, NEW k \in Nat, ~NoSign(line, k)
    PROVE  \E p \in 1..k : IsFirstSign(line, p)
<1> DEFINE A == { p \in 1..k : line[p] = "=" }
<1>1. A \subseteq Nat /\ A # {}
  BY DEF NoSign
<1>2. PICK p \in A : \A q \in A : p <= q
  <2> HIDE DEF A
  <2> QED BY <1>1, MinExists
<1>3. p \in 1..k /\ line[p] = "="
  OBVIOUS
<1>4. NoSign(line, p - 1)
  <2>1. ASSUME NEW j \in 1..(p - 1), line[j] = "="
        PROVE  FALSE
    <3>1. j \in A
      BY <1>3, <2>1
    <3>2. p <= j
      BY <1>2, <3>1
    <3> HIDE DEF A
    <3>3. QED
      BY <1>3, <3>2
  <2>2. QED
    BY <2>1 DEF NoSign
<1>5. QED
  BY <1>3, <1>4 DEF IsFirstSign

\* and only one.
LEMMA FirstSignIsOne ==
    ASSUME NEW line, NEW p \in Nat \ {0}, NEW q \in Nat \ {0},
           IsFirstSign(line, p), IsFirstSign(line, q)
    PROVE  p = q
<1>1. ~(p < q)
  <2>1. p < q => p \in 1..(q - 1)
    OBVIOUS
  <2>2. QED
    BY <2>1 DEF IsFirstSign, NoSign
<1>2. ~(q < p)
  <2>1. q < p => q \in 1..(p - 1)
    OBVIOUS
  <2>2. QED
    BY <2>1 DEF IsFirstSign, NoSign
<1>3. QED
  BY <1>1, <1>2

\* A plain line begins with its key and has no comment.
LEMMA PlainLine ==
    ASSUME NEW line \in Text, IsPlain(line)
    PROVE  /\ Len(line) \in Nat \ {0} /\ DOMAIN line = 1..Len(line)
           /\ line[1] \notin {" ", "#", "="} /\ \A k \in 1..Len(line) : line[k] # "#"
<1>1. Len(line) \in Nat \ {0}
  BY EmptySeq DEF IsPlain, Text
<1>2. DOMAIN line = 1..Len(line)
  BY LenProperties DEF Text
<1>3. QED
  BY <1>1, <1>2 DEF IsPlain

\* A plain line is not empty.
LEMMA PlainLength ==
    ASSUME NEW line \in Text, IsPlain(line)
    PROVE  Len(line) \in Nat \ {0} /\ DOMAIN line = 1..Len(line)
  BY PlainLine

\* The first symbol of a plain line begins the key,
LEMMA PlainRunFirst ==
    ASSUME NEW line \in Text, IsPlain(line)
    PROVE  IsPlainRun(line, LineRun(line)[1], 1)
<1> DEFINE s == LineRun(line)[1]
           start == PropertiesReader!StartOfLine
<1>0. Len(line) \in Nat \ {0}
  BY PlainLength
<1>1. line[1] \notin {" ", "#", "="}
  BY PlainLine
<1>2. s = PropertiesReader!ParseSymbol(line, start, line[1])
  <2>1. 0 \in Nat /\ 0 + 1 <= Len(line) /\ 0 + 1 = 1
    BY <1>0
  <2>2. LineRun(line)[0 + 1] = PropertiesReader!ParseSymbol(line, LineRun(line)[0], line[0 + 1])
    BY <2>1, LineSteps
  <2>3. LineRun(line)[0] = start
    BY LineSteps
  <2>4. QED
    BY <2>1, <2>2, <2>3
<1>3. ~start.isOver /\ start.state = "START" /\ start.i = 0
  BY DEF PropertiesReader!StartOfLine
<1>4. s = PropertiesReader!Advance([start EXCEPT !.state = "KEY", !.pos = start.i])
  <2> HIDE DEF start, s
  <2> QED BY <1>1, <1>2, <1>3 DEF PropertiesReader!ParseSymbol
<1>5. s.state = "KEY" /\ s.pos = 0 /\ s.i = 1 /\ ~s.isOver
  <2> HIDE DEF s
  <2> QED BY <1>4 DEF PropertiesReader!Advance, PropertiesReader!StartOfLine
<1>6. s \in LineState
  <2>1. 1 \in 0..Len(line)
    BY <1>0
  <2>2. QED
    BY <2>1, LineRunType
<1>7. \A p \in 1..1 : ~IsFirstSign(line, p)
  <2>1. ~IsFirstSign(line, 1)
    BY <1>1 DEF IsFirstSign
  <2>2. \A p \in 1..1 : p = 1
    OBVIOUS
  <2>3. QED
    BY <2>1, <2>2
<1>8. QED
  <2> HIDE DEF s
  <2>1. IsPlainRun(line, s, 1)
    BY <1>5, <1>6, <1>7 DEF IsPlainRun
  <2>2. QED
    BY <2>1 DEF s

\* the key goes on up to the first "=" and the value begins after it,
LEMMA PlainRunNext ==
    ASSUME NEW line \in Text, NEW k \in Nat \ {0}, k + 1 <= Len(line), line[k + 1] # "#",
           NEW s, IsPlainRun(line, s, k)
    PROVE  IsPlainRun(line, PropertiesReader!ParseSymbol(line, s, line[k + 1]), k + 1)
<1> DEFINE t == PropertiesReader!ParseSymbol(line, s, line[k + 1])
<1>1. s \in LineState /\ ~s.isOver /\ s.i = k
  BY DEF IsPlainRun
<1>2. t \in LineState
  BY <1>1, LineSymbolType
<1>3. CASE NoSign(line, k) /\ line[k + 1] = "="
  <2>1. s.state = "KEY" /\ s.pos = 0
    BY <1>3 DEF IsPlainRun
  <2> DEFINE key == PropertiesReader!RightTrim(PropertiesReader!Substring(line, 0, k))
  <2>2. t = PropertiesReader!Advance(PropertiesReader!EndKey(line, s))
    BY <1>1, <1>3, <2>1 DEF PropertiesReader!ParseSymbol
  <2>3. PropertiesReader!EndKey(line, s) = [s EXCEPT !.state = "VALUE", !.pos = k + 1, !.key = key]
    BY <1>1, <2>1 DEF PropertiesReader!EndKey
  <2> HIDE DEF key, t
  <2>4. /\ t.state = "VALUE" /\ t.pos = k + 1 /\ t.key = key /\ ~t.isOver /\ t.i = k + 1
    BY <1>1, <2>2, <2>3 DEF PropertiesReader!Advance, LineState
  <2>5. ~NoSign(line, k + 1)
    BY <1>3 DEF NoSign
  <2>6. \A p \in 1..(k + 1) : IsFirstSign(line, p) => p = k + 1
    BY <1>3 DEF NoSign, IsFirstSign
  <2>7. (k + 1) - 1 = k
    OBVIOUS
  <2>8. QED
    BY <1>2, <2>4, <2>5, <2>6, <2>7 DEF IsPlainRun, key, t
<1>4. CASE NoSign(line, k) /\ line[k + 1] # "="
  <2>1. s.state = "KEY" /\ s.pos = 0
    BY <1>4 DEF IsPlainRun
  <2>2. t = PropertiesReader!Advance(s)
    BY <1>1, <1>4, <2>1 DEF PropertiesReader!ParseSymbol
  <2> HIDE DEF t
  <2>3. t.state = "KEY" /\ t.pos = 0 /\ ~t.isOver /\ t.i = k + 1
    BY <1>1, <2>1, <2>2 DEF PropertiesReader!Advance, LineState
  <2>4. \A p \in 1..(k + 1) : ~IsFirstSign(line, p)
    BY <1>4 DEF NoSign, IsFirstSign
  <2>5. QED
    BY <1>2, <2>3, <2>4 DEF IsPlainRun, t
<1>5. CASE ~NoSign(line, k)
  <2>1. PICK p \in 1..k : IsFirstSign(line, p)
    BY <1>5, FirstSignExists
  <2>2. /\ s.state = "VALUE" /\ s.pos = p
        /\ s.key = PropertiesReader!RightTrim(PropertiesReader!Substring(line, 0, p - 1))
    BY <2>1 DEF IsPlainRun
  <2>3. t = PropertiesReader!Advance(s)
    BY <1>1, <2>2 DEF PropertiesReader!ParseSymbol
  <2> HIDE DEF t
  <2>4. t.state = "VALUE" /\ t.pos = p /\ t.key = s.key /\ ~t.isOver /\ t.i = k + 1
    BY <1>1, <2>2, <2>3 DEF PropertiesReader!Advance, LineState
  <2>5. ~NoSign(line, k + 1)
    BY <2>1 DEF NoSign, IsFirstSign
  <2>6. \A q \in 1..(k + 1) : IsFirstSign(line, q) => q = p
    <3> TAKE q \in 1..(k + 1)
    <3>1. SUFFICES ASSUME IsFirstSign(line, q) PROVE q = p
      OBVIOUS
    <3>2. QED
      BY <2>1, <3>1, FirstSignIsOne
  <2>7. QED
    BY <1>2, <2>2, <2>4, <2>5, <2>6 DEF IsPlainRun, t
<1>6. QED
  BY <1>3, <1>4, <1>5

\* so that the parser knows at the end where the key ended.
LEMMA PlainRun ==
    ASSUME NEW line \in Text, IsPlain(line)
    PROVE  IsPlainRun(line, LineRun(line)[Len(line)], Len(line))
<1> DEFINE T == { k \in Nat : k + 1 <= Len(line) =>
                    IsPlainRun(line, LineRun(line)[k + 1], k + 1) }
<1>1. /\ Len(line) \in Nat \ {0} /\ \A k \in 1..Len(line) : line[k] # "#"
  BY PlainLine
<1>2. 0 \in T
  BY PlainRunFirst
<1>3. ASSUME NEW k \in Nat, k \in T
      PROVE  k + 1 \in T
  <2> DEFINE n == k + 1
  <2>1. ASSUME n + 1 <= Len(line)
        PROVE  IsPlainRun(line, LineRun(line)[n + 1], n + 1)
    <3>1. n \in Nat \ {0} /\ n + 1 \in 1..Len(line) /\ n <= Len(line)
      BY <1>1, <2>1
    <3>2. IsPlainRun(line, LineRun(line)[n], n)
      BY <1>1, <1>3, <2>1
    <3> HIDE DEF n
    <3>3. line[n + 1] # "#"
      BY <1>1, <3>1
    <3>4. LineRun(line)[n + 1]
            = PropertiesReader!ParseSymbol(line, LineRun(line)[n], line[n + 1])
      BY <2>1, <3>1, LineSteps
    <3>5. IsPlainRun(line, PropertiesReader!ParseSymbol(line, LineRun(line)[n], line[n + 1]), n + 1)
      BY <2>1, <3>1, <3>2, <3>3, PlainRunNext
    <3>6. QED
      BY <3>4, <3>5
  <2>2. QED
    BY <2>1
<1>4. Len(line) - 1 \in T
  <2>1. Len(line) - 1 \in Nat
    BY <1>1
  <2> HIDE DEF T
  <2>2. QED
    BY <1>2, <1>3, <2>1, Induction
<1>5. (Len(line) - 1) + 1 = Len(line)
  BY <1>1
<1>6. QED
  BY <1>1, <1>4, <1>5

\* A plain line is read as it looks.
LEMMA PlainLineIsRead ==
    ASSUME NEW line \in Text, IsPlain(line), NEW setting
    PROVE  LET pair == PropertiesReader!ParseLine(line) IN
           SaysOf(line, setting)
             = IF ~pair.throws /\ pair.key = <<setting>> THEN {pair.value} ELSE {}
<1> DEFINE end == LineRun(line)[Len(line)]
           n == Len(line)
           pair == PropertiesReader!ParseLine(line)
           signs == { i \in DOMAIN line : line[i] = "=" /\ \A j \in 1..(i - 1) : line[j] # "=" }
           Key(i) == PropertiesReader!Trim(SubSeq(line, 1, i - 1))
           Value(i) == PropertiesReader!Trim(SubSeq(line, i + 1, Len(line)))
<1>0. line[1] \notin {" ", "#", "="}
  BY PlainLine
<1>1. n \in Nat \ {0} /\ DOMAIN line = 1..n
  BY PlainLength
<1>2. IsPlainRun(line, end, n)
  BY PlainRun
<1>3. pair = [throws |-> end.state = "KEY", key |-> end.key,
              value |-> IF end.state = "VALUE"
                        THEN PropertiesReader!Trim(PropertiesReader!Substring(line, end.pos, end.i))
                        ELSE <<>>]
  BY DEF PropertiesReader!ParseLine, LineRun
<1>4. signs = { i \in 1..n : IsFirstSign(line, i) }
  BY <1>1 DEF IsFirstSign, NoSign
<1>5. SaysOf(line, setting) = { Value(i) : i \in { j \in signs : Key(j) = <<setting>> } }
  BY DEF SaysOf
<1>6. CASE NoSign(line, n)
  <2>1. signs = {}
    BY <1>1, <1>4, <1>6 DEF IsFirstSign, NoSign
  <2>2. end.state = "KEY"
    BY <1>2, <1>6 DEF IsPlainRun
  <2>3. pair.throws
    <3> HIDE DEF end, pair
    <3> QED BY <1>3, <2>2
  <2>4. QED
    <3> HIDE DEF signs, pair, Value, Key
    <3> QED BY <1>5, <2>1, <2>3 DEF pair
<1>7. CASE ~NoSign(line, n)
  <2>1. PICK p \in 1..n : IsFirstSign(line, p)
    BY <1>1, <1>7, FirstSignExists
  <2>2. \A q \in 1..n : IsFirstSign(line, q) => q = p
    <3> TAKE q \in 1..n
    <3>1. SUFFICES ASSUME IsFirstSign(line, q) PROVE q = p
      OBVIOUS
    <3>2. QED
      BY <1>1, <2>1, <3>1, FirstSignIsOne
  <2>3. signs = {p}
    <3> HIDE DEF n, signs
    <3> QED BY <1>4, <2>1, <2>2
  <2>4. /\ end.state = "VALUE" /\ end.pos = p /\ end.i = n
        /\ end.key = PropertiesReader!RightTrim(PropertiesReader!Substring(line, 0, p - 1))
    BY <1>2, <2>1 DEF IsPlainRun
  <2>5. p \in 2..n /\ p - 1 \in Nat \ {0} /\ p \in Nat
    <3>1. p # 1
      BY <1>0, <2>1 DEF IsFirstSign
    <3>2. QED
      BY <1>1, <3>1
  <2>6. PropertiesReader!Substring(line, 0, p - 1) = SubSeq(line, 1, p - 1)
    <3>1. 0 \in Nat /\ 0 + 1 = 1 /\ 0 + (p - 1) = p - 1 /\ p - 1 <= Len(line) /\ p - 1 \in Nat
      BY <1>1, <2>5
    <3>2. PropertiesReader!Substring(line, 0, p - 1)
            = SubSeq(line, 0 + 1, IF 0 + (p - 1) <= Len(line) THEN 0 + (p - 1) ELSE Len(line))
      BY <3>1, SubstringIsSubSeq
    <3>3. QED
      BY <3>1, <3>2
  <2>7. PropertiesReader!Substring(line, p, n) = SubSeq(line, p + 1, n)
    <3>1. ~(p + n <= Len(line)) /\ n \in Nat
      BY <1>1, <2>5
    <3>2. PropertiesReader!Substring(line, p, n)
            = SubSeq(line, p + 1, IF p + n <= Len(line) THEN p + n ELSE Len(line))
      BY <2>5, <3>1, SubstringIsSubSeq
    <3>3. QED
      BY <3>1, <3>2
  <2>8. end.key = Key(p)
    <3> DEFINE text == SubSeq(line, 1, p - 1)
    <3>1. text \in Text /\ Len(text) = p - 1 /\ text[1] = line[1]
      <4>1. 1 \in Nat \ {0} /\ p - 1 \in Nat /\ p - 1 <= Len(line) /\ 1 <= p - 1
        BY <1>1, <2>5
      <4>2. /\ text \in Text /\ Len(text) = IF 1 <= p - 1 THEN (p - 1) - 1 + 1 ELSE 0
            /\ \A i \in 1..((p - 1) - 1 + 1) : text[i] = line[1 + i - 1]
        BY <4>1, SubSeqOfText
      <4> HIDE DEF text
      <4>3. QED
        BY <2>5, <4>1, <4>2
    <3>2. text # <<>>
      <4> HIDE DEF text
      <4> QED BY <2>5, <3>1, EmptySeq
    <3>3. PropertiesReader!Trim(text) = PropertiesReader!RightTrim(text)
      <4> HIDE DEF text
      <4> QED BY <1>0, <3>1, <3>2, TrimType
    <3>4. QED
      <4> HIDE DEF end
      <4> QED BY <2>4, <2>6, <3>3
  <2>9. ~pair.throws /\ pair.key = Key(p) /\ pair.value = Value(p)
    <3> HIDE DEF end, pair, Key
    <3> QED BY <1>3, <2>4, <2>7, <2>8
  <2>10. SaysOf(line, setting) = IF Key(p) = <<setting>> THEN {Value(p)} ELSE {}
    <3> HIDE DEF signs, Key, Value
    <3> QED BY <1>5, <2>3
  <2>11. QED
    <3> HIDE DEF pair, Key, Value
    <3> QED BY <2>9, <2>10 DEF pair
<1>8. QED
  BY <1>6, <1>7

\* The first symbol of a text that is no blank, and the blanks a silent line begins with.
IsFirstWord(text, m) ==
    /\ m <= Len(text)
    /\ text[m] # " "
    /\ \A i \in 1..(m - 1) : text[i] = " "

IsBlankUpTo(line, n) ==
    /\ n <= Len(line)
    /\ \A i \in 1..n : line[i] = " "
    /\ n = Len(line) \/ line[n + 1] = "#"

LEMMA SilentIsBlankUpTo ==
    ASSUME NEW line, Len(line) \in Nat, IsSilent(line)
    PROVE  \E n \in Nat : n <= Len(line) /\ IsBlankUpTo(line, n)
<1>1. \A n \in 0..Len(line) : n \in Nat /\ n <= Len(line)
  OBVIOUS
<1>2. QED
  BY <1>1, Zenon DEF IsSilent, IsBlankUpTo

LEMMA BlankAt ==
    ASSUME NEW line, NEW n, IsBlankUpTo(line, n), NEW i \in 1..n
    PROVE  line[i] = " "
  BY Zenon DEF IsBlankUpTo

LEMMA BlankEnd ==
    ASSUME NEW line, NEW n, IsBlankUpTo(line, n), n # Len(line)
    PROVE  line[n + 1] = "#"
  BY Zenon DEF IsBlankUpTo

\* A trimmed text begins with the first symbol that is no blank.
LEMMA TrimFirst ==
    ASSUME NEW text \in Text, NEW m \in Nat \ {0}, IsFirstWord(text, m)
    PROVE  PropertiesReader!Trim(text) = <<>> \/ PropertiesReader!Trim(text)[1] = text[m]
<1> DEFINE A == PropertiesReader!Words(text) \cup {0}
           B == PropertiesReader!Words(text) \cup {Len(text) + 1}
           n == PropertiesReader!Max(A)
           right == SubSeq(text, 1, n)
<1>1. /\ A \subseteq 0..Len(text) /\ A # {} /\ B \subseteq Nat /\ B # {} /\ Len(text) \in Nat
      /\ DOMAIN text = 1..Len(text)
  BY WordsShape, LenProperties DEF Text
<1>2. n \in A
  <2> HIDE DEF A
  <2> QED BY <1>1, GreatestIsIn
<1>3. n \in Nat /\ n <= Len(text)
  <2> HIDE DEF A, n
  <2> QED BY <1>1, <1>2
<1>4. PropertiesReader!RightTrim(text) = right
  BY DEF PropertiesReader!RightTrim
<1> HIDE DEF A, n
<1>0. m \in Nat /\ m <= Len(text)
  BY DEF IsFirstWord
<1>5. PropertiesReader!Min(B) = m
  <2>1. m \in B
    <3>1. m \in DOMAIN text
      BY <1>1, <1>0
    <3>2. QED
      BY <3>1, Zenon DEF PropertiesReader!Words, IsFirstWord
  <2>2. \A k \in B : m <= k
    <3> SUFFICES ASSUME NEW k \in B, k < m
                 PROVE  FALSE
      BY <1>1, <1>0
    <3>1. k \in PropertiesReader!Words(text) /\ k \in Nat
      BY <1>1, <1>0
    <3>2. k \in 1..(m - 1)
      BY <3>1, <1>0, WordsShape
    <3>3. QED
      BY <3>1, <3>2, Zenon DEF PropertiesReader!Words, IsFirstWord
  <2>3. PropertiesReader!Min(B) \in B /\ \A k \in B : PropertiesReader!Min(B) <= k
    <3> HIDE DEF B
    <3> QED BY <1>1, MinIsLeast
  <2>4. m \in Nat /\ PropertiesReader!Min(B) \in Nat
    BY <1>1, <2>3
  <2> HIDE DEF B
  <2>5. m <= PropertiesReader!Min(B) /\ PropertiesReader!Min(B) <= m
    BY <2>1, <2>2, <2>3
  <2>6. QED
    BY <2>4, <2>5
<1>6. PropertiesReader!Trim(text) = SubSeq(right, m, Len(right))
  BY <1>4, <1>5 DEF PropertiesReader!Trim
<1>7. /\ right \in Text /\ Len(right) = n /\ \A i \in 1..n : right[i] = text[i]
  <2>1. /\ right \in Text /\ Len(right) = IF 1 <= n THEN n - 1 + 1 ELSE 0
        /\ \A i \in 1..(n - 1 + 1) : right[i] = text[1 + i - 1]
    BY <1>3, SubSeqOfText
  <2> HIDE DEF right
  <2>2. QED
    BY <1>3, <2>1
<1> HIDE DEF right
<1>8. /\ SubSeq(right, m, n) \in Text /\ m \in Nat \ {0}
      /\ Len(SubSeq(right, m, n)) = IF m <= n THEN n - m + 1 ELSE 0
      /\ \A i \in 1..(n - m + 1) : SubSeq(right, m, n)[i] = right[m + i - 1]
  BY <1>3, <1>7, SubSeqOfText
<1>9. CASE m <= n
  <2>1. 1 \in 1..(n - m + 1) /\ m + 1 - 1 = m /\ m \in 1..n
    BY <1>0, <1>3, <1>9
  <2>2. SubSeq(right, m, n)[1] = text[m]
    BY <1>7, <1>8, <2>1
  <2>3. QED
    BY <1>6, <1>7, <2>2
<1>10. CASE ~(m <= n)
  <2>1. SubSeq(right, m, n) = <<>>
    BY <1>8, <1>10, EmptySeq DEF Text
  <2>2. QED
    BY <1>6, <1>7, <2>1
<1>11. QED
  BY <1>9, <1>10

\* The parser of a silent line never begins a key.
LEMMA SilentRun ==
    ASSUME NEW line \in Text, IsSilent(line)
    PROVE  LineRun(line)[Len(line)].state = "START" /\ LineRun(line)[Len(line)].key = <<>>
<1> DEFINE run == LineRun(line)
<1>1. Len(line) \in Nat
  BY LineSteps
<1>2. PICK n \in Nat : n <= Len(line) /\ IsBlankUpTo(line, n)
  BY <1>1, SilentIsBlankUpTo
<1> DEFINE Waits(k) == /\ run[k] \in LineState /\ run[k].state = "START" /\ run[k].key = <<>>
                       /\ k > n => run[k].isOver
           T == { k \in Nat : k <= Len(line) => Waits(k) }
<1>3. 0 \in T
  <2>1. run[0] = PropertiesReader!StartOfLine
    BY LineSteps
  <2>2. 0 \in 0..Len(line) /\ run[0] \in LineState
    BY <1>1, LineRunType
  <2> HIDE DEF run
  <2>3. run[0].state = "START" /\ run[0].key = <<>>
    BY <2>1 DEF PropertiesReader!StartOfLine
  <2>4. QED
    BY <1>2, <2>2, <2>3
<1>4. ASSUME NEW k \in Nat, k \in T
      PROVE  k + 1 \in T
  <2>1. ASSUME k + 1 <= Len(line)
        PROVE  Waits(k + 1)
    <3>1. Waits(k)
      BY <1>1, <1>4, <2>1
    <3>2. run[k + 1] = PropertiesReader!ParseSymbol(line, run[k], line[k + 1])
      BY <2>1, LineSteps
    <3>3. run[k + 1] \in LineState
      BY <1>1, <2>1, LineRunType
    <3> HIDE DEF run
    <3>4. CASE run[k].isOver
      <4>1. run[k + 1] = run[k]
        BY <3>2, <3>4 DEF PropertiesReader!ParseSymbol
      <4>2. QED
        BY <3>1, <3>4, <4>1
    <3>5. CASE ~run[k].isOver /\ k = n
      <4>1. line[k + 1] = "#"
        BY <1>1, <1>2, <2>1, <3>5, BlankEnd
      <4>2. run[k + 1] = [run[k] EXCEPT !.isOver = TRUE]
        BY <3>2, <3>5, <4>1 DEF PropertiesReader!ParseSymbol
      <4>3. QED
        BY <3>1, <3>3, <4>2 DEF LineState
    <3>6. CASE ~run[k].isOver /\ k < n
      <4>1. line[k + 1] = " "
        <5>1. k + 1 \in 1..n
          BY <1>2, <3>6
        <5>2. QED
          BY <1>2, <5>1, BlankAt
      <4>2. run[k + 1] = PropertiesReader!Advance(run[k])
        BY <3>1, <3>2, <3>6, <4>1 DEF PropertiesReader!ParseSymbol
      <4>3. ~(k + 1 > n)
        BY <1>2, <3>6
      <4>4. QED
        BY <3>1, <3>3, <4>2, <4>3 DEF LineState, PropertiesReader!Advance
    <3>7. run[k].isOver \/ k <= n
      BY <1>2, <3>1
    <3>8. QED
      BY <1>2, <3>4, <3>5, <3>6, <3>7
  <2>2. QED
    BY <2>1
<1>5. Len(line) \in T
  <2> HIDE DEF T
  <2> QED BY <1>1, <1>3, <1>4, Induction
<1>6. QED
  BY <1>1, <1>5

\* A silent line says nothing of a setting, and gives the pair of two empty texts.
LEMMA SilentLineIsRead ==
    ASSUME NEW line \in Text, IsSilent(line), NEW setting, setting # "#"
    PROVE  LET pair == PropertiesReader!ParseLine(line) IN
           SaysOf(line, setting)
             = IF ~pair.throws /\ pair.key = <<setting>> THEN {pair.value} ELSE {}
<1> DEFINE end == LineRun(line)[Len(line)]
           pair == PropertiesReader!ParseLine(line)
<1>1. pair.key = end.key
  BY DEF PropertiesReader!ParseLine, LineRun
<1>2. pair.key = <<>>
  BY <1>1, SilentRun
<1>3. Len(line) \in Nat /\ DOMAIN line = 1..Len(line)
  BY LenProperties DEF Text
<1>4. PICK n \in Nat : n <= Len(line) /\ IsBlankUpTo(line, n)
  BY <1>3, SilentIsBlankUpTo
<1>5. ASSUME NEW j \in DOMAIN line, line[j] = "="
      PROVE  PropertiesReader!Trim(SubSeq(line, 1, j - 1)) # <<setting>>
  <2> DEFINE text == SubSeq(line, 1, j - 1)
             m == n + 1
  <2>1. j \in Nat /\ j - 1 \in Nat /\ j - 1 <= Len(line) /\ j > n /\ n # Len(line)
    <3>1. j \in Nat /\ j - 1 \in Nat /\ j - 1 <= Len(line) /\ 1 <= j /\ j <= Len(line)
      BY <1>3
    <3>2. j \notin 1..n
      BY <1>4, <1>5, BlankAt
    <3>3. j > n
      BY <3>1, <3>2
    <3>4. QED
      BY <1>4, <3>1, <3>3
  <2>2. line[m] = "#" /\ m \in Nat \ {0} /\ m <= j - 1
    <3>1. line[n + 1] = "#"
      BY <1>4, <2>1, BlankEnd
    <3>2. n + 1 # j
      BY <1>5, <3>1
    <3>3. QED
      BY <1>4, <2>1, <3>1, <3>2
  <2>3. /\ text \in Text /\ Len(text) = j - 1 /\ \A i \in 1..(j - 1) : text[i] = line[i]
    <3>1. /\ text \in Text /\ Len(text) = IF 1 <= j - 1 THEN (j - 1) - 1 + 1 ELSE 0
          /\ \A i \in 1..((j - 1) - 1 + 1) : text[i] = line[1 + i - 1]
      BY <2>1, SubSeqOfText
    <3> HIDE DEF text
    <3>2. QED
      BY <2>1, <2>2, <3>1
  <2> HIDE DEF text
  <2>4. m \in Nat \ {0} /\ text[m] = "#" /\ IsFirstWord(text, m)
    <3>1. m \in 1..(j - 1) /\ m - 1 = n /\ n \in Nat
      BY <2>1, <2>2
    <3>2. text[m] = "#" /\ m <= Len(text)
      BY <2>2, <2>3, <3>1
    <3>3. \A i \in 1..(m - 1) : text[i] = " "
      <4>1. SUFFICES ASSUME NEW i \in 1..n PROVE text[i] = " "
        BY <3>1
      <4>2. i \in 1..(j - 1)
        BY <2>1, <3>1
      <4>3. line[i] = " "
        BY <1>4, BlankAt
      <4>4. QED
        BY <2>3, <4>2, <4>3
    <3> HIDE DEF m
    <3>4. QED
      BY <2>2, <3>2, <3>3 DEF IsFirstWord
  <2> HIDE DEF m
  <2>5. PropertiesReader!Trim(text) = <<>> \/ PropertiesReader!Trim(text)[1] = "#"
    BY <2>3, <2>4, TrimFirst
  <2>6. QED
    BY <2>5 DEF text
<1>6. SaysOf(line, setting) = {}
  BY <1>5 DEF SaysOf
<1> HIDE DEF pair
<1>7. QED
  BY <1>2, <1>6 DEF pair

\* A line that is plain or silent is read as it looks.
LEMMA RegularLineIsRead ==
    ASSUME NEW line \in Text, IsRegular(line), NEW setting, setting # "#"
    PROVE  LET pair == PropertiesReader!ParseLine(line) IN
           SaysOf(line, setting)
             = IF ~pair.throws /\ pair.key = <<setting>> THEN {pair.value} ELSE {}
<1>1. CASE IsPlain(line)
  BY <1>1, PlainLineIsRead
<1>2. CASE IsSilent(line)
  BY <1>2, SilentLineIsRead
<1>3. QED
  BY <1>1, <1>2 DEF IsRegular

-----------------------------------------------------------------------------
(***************************************************************************)
(* PropertiesReader: a file, line by line.                                 *)
(***************************************************************************)
FileRun(file) == PropertiesReader!Read(file)
FileNext(file, f, n) ==
    IF n = 0 THEN <<>>
    ELSE LET pair == PropertiesReader!ParseLine(file[n]) IN
         IF pair.throws THEN f[n - 1] ELSE PropertiesReader!Emplace(f[n - 1], pair)

\* What is known of a file is given by its recursive definition.
LEMMA FileRunDef ==
    ASSUME NEW file, Len(file) \in Nat
    PROVE  FileRun(file) = [n \in 0..Len(file) |-> FileNext(file, FileRun(file), n)]
<1> DEFINE Follows(n, f) == f = [k \in 0..n |-> FileNext(file, f, k)]
           T == { n \in Nat : \E f : Follows(n, f) }
<1>1. 0 \in T
  <2>1. Follows(0, [k \in 0..0 |-> <<>>])
    BY DEF FileNext
  <2>2. QED
    BY <2>1
<1>2. ASSUME NEW n \in Nat, n \in T
      PROVE  n + 1 \in T
  <2>1. PICK f : Follows(n, f)
    BY <1>2
  <2> DEFINE g == [k \in 0..(n + 1) |-> FileNext(file, f, k)]
  <2>2. \A k \in 0..n : g[k] = f[k]
    BY <2>1
  <2>3. \A k \in 0..(n + 1) : FileNext(file, g, k) = FileNext(file, f, k)
    <3> TAKE k \in 0..(n + 1)
    <3>1. CASE k = 0
      BY <3>1 DEF FileNext
    <3>2. CASE k # 0
      <4>1. k - 1 \in 0..n
        BY <3>2
      <4>2. g[k - 1] = f[k - 1]
        BY <4>1, <2>2
      <4> HIDE DEF g
      <4>3. QED
        BY <3>2, <4>2 DEF FileNext
    <3>3. QED
      BY <3>1, <3>2
  <2>4. Follows(n + 1, g)
    BY <2>3
  <2>5. QED
    <3> HIDE DEF Follows
    <3> QED BY <2>4
<1>3. \E f : Follows(Len(file), f)
  <2>1. Len(file) \in T
    <3> HIDE DEF T
    <3> QED BY <1>1, <1>2, Induction
  <2>2. QED
    BY <2>1, Zenon
<1>4. FileRun(file) = CHOOSE f : Follows(Len(file), f)
  BY DEF FileRun, PropertiesReader!Read, FileNext
<1>5. QED
  <2> HIDE DEF Follows
  <2>1. Follows(Len(file), CHOOSE f : Follows(Len(file), f))
    BY <1>3, Zenon
  <2>2. Follows(Len(file), FileRun(file))
    BY <2>1, <1>4, Zenon
  <2>3. QED
    BY <2>2 DEF Follows

\* What is known at the start and after one more line.
LEMMA FileSteps ==
    ASSUME NEW file \in Seq(Text)
    PROVE  /\ Len(file) \in Nat
           /\ FileRun(file)[0] = <<>>
           /\ \A n \in Nat : n + 1 <= Len(file) =>
                /\ file[n + 1] \in Text
                /\ LET pair == PropertiesReader!ParseLine(file[n + 1]) IN
                   FileRun(file)[n + 1]
                     = IF pair.throws THEN FileRun(file)[n]
                       ELSE PropertiesReader!Emplace(FileRun(file)[n], pair)
<1> DEFINE run == FileRun(file)
<1>1. Len(file) \in Nat
  OBVIOUS
<1>2. run = [n \in 0..Len(file) |-> FileNext(file, run, n)]
  BY <1>1, FileRunDef
<1> HIDE DEF run
<1>3. run[0] = <<>>
  BY <1>1, <1>2 DEF FileNext
<1>4. ASSUME NEW n \in Nat, n + 1 <= Len(file)
      PROVE  run[n + 1] = LET pair == PropertiesReader!ParseLine(file[n + 1]) IN
                          IF pair.throws THEN run[n] ELSE PropertiesReader!Emplace(run[n], pair)
  <2>1. n + 1 \in 0..Len(file) /\ n + 1 # 0 /\ (n + 1) - 1 = n
    BY <1>1, <1>4
  <2>2. run[n + 1] = FileNext(file, run, n + 1)
    BY <1>2, <2>1
  <2>3. QED
    BY <2>1, <2>2 DEF FileNext
<1>5. ASSUME NEW n \in Nat, n + 1 <= Len(file)
      PROVE  file[n + 1] \in Text
  BY <1>1, <1>5, ElementOfSeq
<1>6. QED
  BY <1>1, <1>3, <1>4, <1>5 DEF run

\* emplace adds what is not there and changes nothing that is.
LEMMA EmplaceDef ==
    ASSUME NEW properties \in Params, NEW pair
    PROVE  /\ DOMAIN PropertiesReader!Emplace(properties, pair) = DOMAIN properties \cup {pair.key}
           /\ \A key \in DOMAIN properties :
                PropertiesReader!Emplace(properties, pair)[key] = properties[key]
           /\ pair.key \notin DOMAIN properties =>
                PropertiesReader!Emplace(properties, pair)[pair.key] = pair.value
           /\ (pair.key \in Text /\ pair.value \in Text)
                => PropertiesReader!Emplace(properties, pair) \in Params
<1> DEFINE after == [key \in DOMAIN properties \cup {pair.key} |->
                       IF key \in DOMAIN properties THEN properties[key] ELSE pair.value]
<1>1. PropertiesReader!Emplace(properties, pair) = after
  BY DEF PropertiesReader!Emplace
<1>2. PICK keys \in SUBSET Text : properties \in [keys -> Text]
  BY DEF Params
<1>3. (pair.key \in Text /\ pair.value \in Text) => after \in [keys \cup {pair.key} -> Text]
  BY <1>2
<1>4. (pair.key \in Text /\ pair.value \in Text) => after \in Params
  <2> HIDE DEF after
  <2> QED BY <1>3 DEF Params
<1>5. QED
  BY <1>1, <1>4

\* The properties have their type after every line.
LEMMA FileRunType ==
    ASSUME NEW file \in Seq(Text)
    PROVE  \A n \in 0..Len(file) : FileRun(file)[n] \in Params
<1> DEFINE T == { n \in Nat : n <= Len(file) => FileRun(file)[n] \in Params }
<1>1. 0 \in T
  <2>1. <<>> \in [{} -> Text]
    OBVIOUS
  <2>2. <<>> \in Params
    BY <2>1 DEF Params
  <2>3. QED
    BY <2>2, FileSteps
<1>2. ASSUME NEW n \in Nat, n \in T
      PROVE  n + 1 \in T
  <2>1. ASSUME n + 1 <= Len(file)
        PROVE  FileRun(file)[n + 1] \in Params
    <3> DEFINE pair == PropertiesReader!ParseLine(file[n + 1])
               run == FileRun(file)
    <3>1. run[n] \in Params
      BY <1>2, <2>1, FileSteps
    <3>2. file[n + 1] \in Text
      BY <2>1, FileSteps
    <3>3. pair.key \in Text /\ pair.value \in Text
      BY <3>2, ParseLineType
    <3>4. run[n + 1] = IF pair.throws THEN run[n] ELSE PropertiesReader!Emplace(run[n], pair)
      BY <2>1, FileSteps
    <3>5. PropertiesReader!Emplace(run[n], pair) \in Params
      <4> HIDE DEF pair, run
      <4> QED BY <3>1, <3>3, EmplaceDef
    <3>6. run[n + 1] \in Params
      <4> HIDE DEF pair, run
      <4> QED BY <3>1, <3>4, <3>5
    <3>7. QED
      BY <3>6
  <2>2. QED
    BY <2>1
<1>3. \A n \in Nat : n \in T
  <2> HIDE DEF T
  <2> QED BY <1>1, <1>2, Induction
<1>4. QED
  BY <1>3, FileSteps

\* The lines up to the n-th that say something of a setting.
About(file, setting, n) == { m \in 1..n : SaysOf(file[m], setting) # {} }

\* What is known of a setting after n regular lines.
IsPlainFileRun(properties, file, setting, n) ==
    /\ <<setting>> \in DOMAIN properties <=> About(file, setting, n) # {}
    /\ \A m \in About(file, setting, n) :
         (\A l \in About(file, setting, n) : m <= l)
            => properties[<<setting>>] \in SaysOf(file[m], setting)

\* A line decides about a setting if no line before it has.
LEMMA PlainFileNext ==
    ASSUME NEW file, NEW n \in Nat, NEW setting, setting # "#",
           file[n + 1] \in Text, IsRegular(file[n + 1]),
           NEW properties \in Params, IsPlainFileRun(properties, file, setting, n)
    PROVE  LET pair == PropertiesReader!ParseLine(file[n + 1]) IN
           IsPlainFileRun(IF pair.throws THEN properties
                          ELSE PropertiesReader!Emplace(properties, pair), file, setting, n + 1)
<1> DEFINE pair == PropertiesReader!ParseLine(file[n + 1])
           says == SaysOf(file[n + 1], setting)
           before == About(file, setting, n)
           next == About(file, setting, n + 1)
           after == IF pair.throws THEN properties ELSE PropertiesReader!Emplace(properties, pair)
<1>1. says = IF ~pair.throws /\ pair.key = <<setting>> THEN {pair.value} ELSE {}
  BY RegularLineIsRead
<1>2. /\ <<setting>> \in DOMAIN properties <=> before # {}
      /\ \A m \in before : (\A l \in before : m <= l)
                              => properties[<<setting>>] \in SaysOf(file[m], setting)
  BY DEF IsPlainFileRun
<1>3. next = IF says = {} THEN before ELSE before \cup {n + 1}
  BY DEF About
<1>4. before \subseteq 1..n
  BY DEF About
<1> HIDE DEF pair, says, before, next
<1>5. /\ <<setting>> \in DOMAIN after
           <=> (<<setting>> \in DOMAIN properties \/ (~pair.throws /\ pair.key = <<setting>>))
      /\ <<setting>> \in DOMAIN properties => after[<<setting>>] = properties[<<setting>>]
      /\ (~pair.throws /\ pair.key = <<setting>> /\ <<setting>> \notin DOMAIN properties)
            => after[<<setting>>] = pair.value
  <2> DEFINE longer == PropertiesReader!Emplace(properties, pair)
             key == <<setting>>
  <2>1. /\ DOMAIN longer = DOMAIN properties \cup {pair.key}
        /\ \A k \in DOMAIN properties : longer[k] = properties[k]
        /\ pair.key \notin DOMAIN properties => longer[pair.key] = pair.value
    BY EmplaceDef
  <2> HIDE DEF longer, key
  <2>2. CASE pair.throws
    BY <2>2 DEF key
  <2>3. CASE ~pair.throws
    <3>1. after = longer
      BY <2>3 DEF longer
    <3> HIDE DEF after
    <3>2. QED
      BY <2>1, <2>3, <3>1 DEF key
  <2>4. QED
    BY <2>2, <2>3
<1> HIDE DEF after
<1>6. <<setting>> \in DOMAIN after <=> next # {}
  BY <1>1, <1>2, <1>3, <1>5
<1>7. ASSUME NEW m \in next, \A l \in next : m <= l
      PROVE  after[<<setting>>] \in SaysOf(file[m], setting)
  <2>1. CASE before = {}
    <3>1. m = n + 1 /\ says # {}
      BY <1>3, <1>7, <2>1
    <3>2. after[<<setting>>] \in says
      BY <1>1, <1>2, <1>5, <2>1, <3>1
    <3>3. QED
      BY <3>1, <3>2 DEF says
  <2>2. CASE before # {}
    <3>1. before \subseteq next
      BY <1>3
    <3>2. m \in before
      <4>1. PICK l \in before : TRUE
        BY <2>2
      <4>2. m <= l /\ l \in 1..n
        BY <1>4, <1>7, <3>1, <4>1
      <4>3. m \in before \cup {n + 1}
        BY <1>3, <1>7
      <4>4. QED
        BY <4>2, <4>3
    <3>3. \A l \in before : m <= l
      BY <1>7, <3>1
    <3>4. after[<<setting>>] = properties[<<setting>>]
      BY <1>2, <1>5, <2>2
    <3>5. QED
      BY <1>2, <3>2, <3>3, <3>4
  <2>3. QED
    BY <2>1, <2>2
<1>8. QED
  BY <1>6, <1>7 DEF IsPlainFileRun, next, after, pair

\* A setting is read from the first of the lines that say something of it.
LEMMA PlainFileIsReadAsItLooks ==
    ASSUME NEW file \in Seq(Text), \A n \in DOMAIN file : IsRegular(file[n]),
           NEW setting, setting # "#"
    PROVE  IsPlainFileRun(PropertiesReader!Properties(file), file, setting, Len(file))
<1> DEFINE run == FileRun(file)
           T == { n \in Nat : n <= Len(file) => IsPlainFileRun(run[n], file, setting, n) }
<1>0. Len(file) \in Nat /\ DOMAIN file = 1..Len(file)
  OBVIOUS
<1>1. 0 \in T
  <2>1. About(file, setting, 0) = {}
    BY DEF About
  <2>2. run[0] = <<>>
    BY FileSteps
  <2>3. IsPlainFileRun(<<>>, file, setting, 0)
    BY <2>1 DEF IsPlainFileRun
  <2> HIDE DEF run
  <2>4. QED
    BY <2>2, <2>3
<1>2. ASSUME NEW n \in Nat, n \in T
      PROVE  n + 1 \in T
  <2>1. ASSUME n + 1 <= Len(file)
        PROVE  IsPlainFileRun(run[n + 1], file, setting, n + 1)
    <3> DEFINE pair == PropertiesReader!ParseLine(file[n + 1])
    <3>1. IsPlainFileRun(run[n], file, setting, n) /\ n \in 0..Len(file)
      BY <1>0, <1>2, <2>1
    <3>2. run[n] \in Params
      BY <3>1, FileRunType
    <3>3. file[n + 1] \in Text
      BY <2>1, FileSteps
    <3>4. IsRegular(file[n + 1])
      BY <1>0, <2>1
    <3>5. run[n + 1] = IF pair.throws THEN run[n] ELSE PropertiesReader!Emplace(run[n], pair)
      BY <2>1, FileSteps
    <3>6. IsPlainFileRun(IF pair.throws THEN run[n] ELSE PropertiesReader!Emplace(run[n], pair),
                         file, setting, n + 1)
      <4> HIDE DEF run
      <4> QED BY <3>1, <3>2, <3>3, <3>4, PlainFileNext
    <3>7. QED
      <4> HIDE DEF run, pair
      <4> QED BY <3>5, <3>6
  <2>2. QED
    BY <2>1
<1>3. Len(file) \in T
  <2> HIDE DEF T
  <2> QED BY <1>0, <1>1, <1>2, Induction
<1>4. PropertiesReader!Properties(file) = run[Len(file)]
  BY DEF PropertiesReader!Properties, FileRun
<1>5. QED
  <2> HIDE DEF run
  <2> QED BY <1>0, <1>3, <1>4

-----------------------------------------------------------------------------
(***************************************************************************)
(* The values of the settings, and the parameters made of them.            *)
(***************************************************************************)
Allowed(setting) ==
    IF setting \in ChannelSettings THEN Text
    ELSE IF setting \in NumberSettings THEN Numbers ELSE BOOLEAN

AreSettings(c) == c = [s \in Settings |-> c[s]] /\ \A s \in Settings : c[s] \in Allowed(s)

\* The texts and the values of the assumptions are those of the proofs.
LEMMA StringsAreTexts ==
    /\ Seq(STRING) \subseteq Text
    /\ \A file \in Seq(Seq(STRING)) : file \in Seq(Text)
    /\ \A s \in Settings : Values(s) \subseteq Allowed(s)
<1>1. STRING \subseteq Symbol
  BY DEF Symbol
<1>2. \A text \in Seq(STRING) : text \in Seq(Symbol)
  BY <1>1, SeqMonotonic
<1>3. Seq(STRING) \subseteq Text
  BY <1>2 DEF Text
<1>4. \A file \in Seq(Seq(STRING)) : file \in Seq(Text)
  BY <1>3, SeqMonotonic
<1>5. \A s \in Settings : Values(s) \subseteq Allowed(s)
  BY <1>3 DEF Values, Allowed
<1>6. QED
  BY <1>3, <1>4, <1>5

\* The defaults are settings.
LEMMA DefaultsAreSettings == AreSettings(Defaults)
<1>1. \A s \in Settings : Defaults[s] \in Allowed(s)
  BY SettingAssumption, StringsAreTexts
<1>2. Defaults = [s \in Settings |-> Defaults[s]]
  BY SettingAssumption
<1>3. QED
  BY <1>1, <1>2 DEF AreSettings

\* A printed number holds no separator,
LEMMA NumeralType ==
    ASSUME NEW n \in Numbers \cup {SessionId}
    PROVE  Numeral(n) \in Text /\ Lacks(Numeral(n), "|")
<1>1. ToString(n) \in Symbol /\ ToString(n) # "|"
  BY NumeralAssumption DEF Symbol
<1>2. <<ToString(n)>> \in Text
  <2>1. <<>> \in Text
    BY EmptySeq DEF Text
  <2>2. QED
    BY <1>1, <2>1, OneSymbol
<1>3. Lacks(<<ToString(n)>>, "|")
  BY <1>1 DEF Lacks
<1>4. QED
  BY <1>2, <1>3 DEF Numeral

\* nor does a printed truth value.
LEMMA FlagType ==
    ASSUME NEW b \in BOOLEAN
    PROVE  Flag(b) \in Text /\ Lacks(Flag(b), "|")
<1>1. <<>> \in Text
  BY EmptySeq DEF Text
<1>2. "0" \in Symbol /\ "1" \in Symbol
  BY DEF Symbol
<1>3. <<"0">> \in Text /\ <<"1">> \in Text
  BY <1>1, <1>2, OneSymbol
<1>4. Lacks(<<"0">>, "|") /\ Lacks(<<"1">>, "|")
  BY DEF Lacks
<1>5. CASE b
  BY <1>3, <1>4, <1>5 DEF Flag
<1>6. CASE ~b
  BY <1>3, <1>4, <1>6 DEF Flag
<1>7. QED
  BY <1>5, <1>6

\* The names of the parameters can be read again,
LEMMA KeyType ==
    ASSUME NEW name \in {"session-id", "term-length", "mtu", "sparse"}
    PROVE  <<name>> \in Text /\ Lacks(<<name>>, "=")
<1>1. <<>> \in Text
  BY EmptySeq DEF Text
<1>2. name \in Symbol /\ name # "="
  BY DEF Symbol
<1>3. <<name>> \in Text
  BY <1>1, <1>2, OneSymbol
<1>4. QED
  BY <1>2, <1>3 DEF Lacks

\* and so can what the client puts there.
LEMMA ControlParamType ==
    ASSUME NEW c, AreSettings(c), NEW name \in DOMAIN ControlParams
    PROVE  ControlParam(c, name) \in Text /\ Lacks(ControlParam(c, name), "|")
<1>1. name \in {"term-length", "mtu", "sparse"}
  BY DEF ControlParams
<1>2. CASE name = "sparse"
  <2>1. ControlParams[name] = "controlTermBufferSparse"
    BY <1>2 DEF ControlParams
  <2>2. /\ "controlTermBufferSparse" \in Settings
        /\ "controlTermBufferSparse" \notin ChannelSettings \cup NumberSettings
    BY DEF Settings, ChannelSettings, NumberSettings
  <2>3. c["controlTermBufferSparse"] \in BOOLEAN
    BY <2>2 DEF AreSettings, Allowed
  <2>4. ControlParam(c, name) = Flag(c["controlTermBufferSparse"])
    BY <1>2, <2>1 DEF ControlParam
  <2>5. QED
    BY <2>3, <2>4, FlagType
<1>3. CASE name # "sparse"
  <2>1. ControlParams[name] \in {"controlTermBufferLength", "controlMtuLength"}
    BY <1>1, <1>3 DEF ControlParams
  <2>2. ControlParams[name] \in Settings /\ ControlParams[name] \in NumberSettings
        /\ ControlParams[name] \notin ChannelSettings
    BY <2>1 DEF Settings, ChannelSettings, NumberSettings
  <2>3. c[ControlParams[name]] \in Numbers
    BY <2>2 DEF AreSettings, Allowed
  <2>4. ControlParam(c, name) = Numeral(c[ControlParams[name]])
    BY <1>3 DEF ControlParam
  <2>5. QED
    BY <2>3, <2>4, NumeralType
<1>4. QED
  BY <1>2, <1>3

\* A channel with its parameters changed.
LEMMA UriWith ==
    ASSUME NEW uri, IsUri(uri), NEW keys, IsFiniteSet(keys), keys \subseteq Text,
           NEW params, params = [key \in keys |-> params[key]],
           \A key \in keys : params[key] \in Text /\ Lacks(key, "=") /\ Lacks(params[key], "|")
    PROVE  LET with == ChannelUri!Uri(uri.spy, uri.media, params) IN
           /\ IsUri(with) /\ with.isValid /\ with.spy = uri.spy /\ with.media = uri.media
           /\ with.params = params
<1> DEFINE with == ChannelUri!Uri(uri.spy, uri.media, params)
<1>1. with.isValid /\ with.spy = uri.spy /\ with.media = uri.media /\ with.params = params
  BY DEF ChannelUri!Uri
<1>2. DOMAIN params = keys /\ params \in [keys -> Text]
  OBVIOUS
<1>3. with = ChannelUri!Uri(with.spy, with.media, with.params)
  <2>1. with = ChannelUri!Uri(uri.spy, uri.media, params)
    OBVIOUS
  <2> HIDE DEF with
  <2>2. QED
    BY <1>1, <2>1
<1>4. IsUri(with)
  <2> HIDE DEF with
  <2> QED BY <1>1, <1>2, <1>3 DEF IsUri
<1>5. QED
  BY <1>1, <1>4

\* The channel that is connected to: one more parameter, or another value.
LEMMA UriWithSessionId ==
    ASSUME NEW uri, IsUri(uri)
    PROVE  LET with == ChannelUri!Uri(uri.spy, uri.media,
                          ChannelUri!Put(uri.params, ChannelUri!SessionIdParamName, Numeral(SessionId)))
           IN IsUri(with) /\ with.isValid /\ with.spy = uri.spy /\ with.media = uri.media
              /\ with.params = ChannelUri!Put(uri.params, <<"session-id">>, Numeral(SessionId))
<1> DEFINE key == <<"session-id">>
           value == Numeral(SessionId)
           params == ChannelUri!Put(uri.params, key, value)
           keys == DOMAIN uri.params \cup {key}
<1>1. key \in Text /\ Lacks(key, "=") /\ value \in Text /\ Lacks(value, "|")
  BY KeyType, NumeralType
<1>2. IsFiniteSet(keys) /\ keys \subseteq Text
  <2> HIDE DEF key
  <2> QED BY <1>1, FS_AddElement DEF IsUri
<1>3. params = [k \in keys |-> params[k]]
  BY DEF ChannelUri!Put
<1>4. \A k \in keys : params[k] \in Text /\ Lacks(k, "=") /\ Lacks(params[k], "|")
  <2> HIDE DEF key, value
  <2> QED BY <1>1 DEF ChannelUri!Put, IsUri
<1>5. key = ChannelUri!SessionIdParamName
  BY DEF ChannelUri!SessionIdParamName
<1>6. ChannelUri!Put(uri.params, ChannelUri!SessionIdParamName, Numeral(SessionId)) = params
  BY <1>5
<1>7. LET with == ChannelUri!Uri(uri.spy, uri.media, params) IN
      IsUri(with) /\ with.isValid /\ with.spy = uri.spy /\ with.media = uri.media
      /\ with.params = params
  <2> HIDE DEF params, keys
  <2> QED BY <1>2, <1>3, <1>4, UriWith
<1>8. QED
  <2> HIDE DEF params, keys
  <2> QED BY <1>6, <1>7 DEF params

\* The parameters of the request channel are three.
LEMMA ControlKeysShape ==
    /\ ControlKeys = {<<"term-length">>, <<"mtu">>, <<"sparse">>}
    /\ IsFiniteSet(ControlKeys) /\ ControlKeys \subseteq Text
    /\ \A key \in ControlKeys : Lacks(key, "=") /\ key[1] \in DOMAIN ControlParams
    /\ \A name \in DOMAIN ControlParams : <<name>> \in ControlKeys
<1>1. DOMAIN ControlParams = {"term-length", "mtu", "sparse"}
  BY DEF ControlParams
<1>2. ControlKeys = {<<"term-length">>, <<"mtu">>, <<"sparse">>}
  BY <1>1 DEF ControlKeys
<1>3. IsFiniteSet(ControlKeys)
  <2>1. IsFiniteSet({<<"term-length">>})
    BY FS_Singleton
  <2>2. IsFiniteSet({<<"term-length">>} \cup {<<"mtu">>})
    BY <2>1, FS_AddElement
  <2>3. IsFiniteSet(({<<"term-length">>} \cup {<<"mtu">>}) \cup {<<"sparse">>})
    BY <2>2, FS_AddElement
  <2>4. ControlKeys = ({<<"term-length">>} \cup {<<"mtu">>}) \cup {<<"sparse">>}
    BY <1>2
  <2>5. QED
    BY <2>3, <2>4
<1>4. \A name \in DOMAIN ControlParams : <<name>> \in Text /\ Lacks(<<name>>, "=")
  BY <1>1, KeyType
<1>5. ASSUME NEW key \in ControlKeys
      PROVE  key \in Text /\ Lacks(key, "=") /\ key[1] \in DOMAIN ControlParams
  <2>1. PICK name \in DOMAIN ControlParams : key = <<name>>
    BY DEF ControlKeys
  <2>2. QED
    BY <1>4, <2>1
<1>6. \A name \in DOMAIN ControlParams : <<name>> \in ControlKeys
  BY DEF ControlKeys
<1>7. QED
  BY <1>2, <1>3, <1>5, <1>6

\* The request channel has the settings where the channel gave none, and what it gave.
LEMMA UriWithControlParams ==
    ASSUME NEW uri, IsUri(uri), NEW c, AreSettings(c)
    PROVE  LET with == WithControlParams(uri, c) IN
           /\ IsUri(with) /\ with.isValid /\ with.spy = uri.spy /\ with.media = uri.media
           /\ \A name \in DOMAIN ControlParams : with.params[<<name>>] = ControlParam(c, name)
           /\ \A key \in DOMAIN uri.params \ ControlKeys : with.params[key] = uri.params[key]
<1> DEFINE keys == DOMAIN uri.params \cup ControlKeys
           params == [key \in keys |-> IF key \in ControlKeys THEN ControlParam(c, key[1])
                                                               ELSE uri.params[key]]
<1>1. IsFiniteSet(keys) /\ keys \subseteq Text
  BY ControlKeysShape, FS_Union DEF IsUri
<1>2. \A key \in keys : params[key] \in Text /\ Lacks(key, "=") /\ Lacks(params[key], "|")
  <2> TAKE key \in keys
  <2>1. CASE key \in ControlKeys
    <3>1. Lacks(key, "=") /\ key[1] \in DOMAIN ControlParams /\ params[key] = ControlParam(c, key[1])
      BY <2>1, ControlKeysShape
    <3>2. QED
      BY <3>1, ControlParamType
  <2>2. CASE key \notin ControlKeys
    BY <2>2 DEF IsUri
  <2>3. QED
    BY <2>1, <2>2
<1>3. params = [key \in keys |-> params[key]]
  OBVIOUS
<1>4. WithControlParams(uri, c) = ChannelUri!Uri(uri.spy, uri.media, params)
  BY DEF WithControlParams
<1>5. /\ \A name \in DOMAIN ControlParams : params[<<name>>] = ControlParam(c, name)
      /\ \A key \in DOMAIN uri.params \ ControlKeys : params[key] = uri.params[key]
  <2>1. ASSUME NEW name \in DOMAIN ControlParams
        PROVE  params[<<name>>] = ControlParam(c, name)
    <3>1. <<name>> \in ControlKeys /\ <<name>>[1] = name
      BY ControlKeysShape
    <3>2. QED
      BY <3>1
  <2>2. QED
    BY <2>1
<1>6. LET with == ChannelUri!Uri(uri.spy, uri.media, params) IN
      IsUri(with) /\ with.isValid /\ with.spy = uri.spy /\ with.media = uri.media
      /\ with.params = params
  <2> HIDE DEF params, keys
  <2> QED BY <1>1, <1>2, <1>3, UriWith
<1>7. QED
  <2> HIDE DEF params, keys
  <2> QED BY <1>4, <1>5, <1>6

-----------------------------------------------------------------------------
(***************************************************************************)
(* The specification.                                                      *)
(***************************************************************************)
TextsAreTexts ==
    /\ lines \in Seq(Text) /\ given \in Text
    /\ AreSettings(cfg) /\ AreSettings(givenWith)

AddedIsMeant ==
    phase = "added" =>
        LET uri == ChannelUri!Parse(given) IN
        /\ uri.isValid
        /\ ChannelUri!Parse(added) =
             ChannelUri!Uri(uri.spy, uri.media,
                 ChannelUri!Put(uri.params, ChannelUri!SessionIdParamName, Numeral(SessionId)))

RequestChannelIsMeant ==
    phase \in {"context", "connected"} =>
        LET uri == ChannelUri!Parse(given) IN
        /\ uri.isValid
        /\ ChannelUri!Parse(controlRequestChannel) = WithControlParams(uri, givenWith)

FileIsMeant == (phase = "new" => lines = <<>>) /\ PlainFileIsRead

SettingsInv == TextsAreTexts /\ AddedIsMeant /\ RequestChannelIsMeant /\ FileIsMeant

\* The first settings are settings.
LEMMA InitSettings == Init => SettingsInv
<1>1. SUFFICES ASSUME Init PROVE SettingsInv
  OBVIOUS
<1>2. <<>> \in Text /\ <<>> \in Seq(Text)
  BY EmptySeq DEF Text
<1>3. TextsAreTexts
  BY <1>1, <1>2, DefaultsAreSettings DEF Init, TextsAreTexts
<1>4. phase = "new" /\ lines = <<>>
  BY <1>1 DEF Init
<1>5. QED
  BY <1>3, <1>4 DEF SettingsInv, AddedIsMeant, RequestChannelIsMeant, FileIsMeant, PlainFileIsRead

\* What the constructors of Configuration leave.
LEMMA ConfigureType ==
    ASSUME NEW found, \A s \in DOMAIN found : found[s] \subseteq Allowed(s),
           AreSettings(cfg), Configure(found)
    PROVE  /\ AreSettings(cfg')
           /\ phase' = "thrown" \/
                (/\ phase' = "configured" /\ \A s \in DOMAIN found : found[s] # {}
                 /\ \A s \in Settings : cfg'[s] = IF s \in DOMAIN found THEN CHOOSE v \in found[s] : TRUE
                                                                        ELSE Defaults[s])
<1>1. CASE \E s \in DOMAIN found : found[s] = {}
  <2>1. phase' = "thrown" /\ cfg' = cfg
    BY <1>1 DEF Configure
  <2>2. QED
    BY <2>1 DEF AreSettings
<1>2. CASE ~\E s \in DOMAIN found : found[s] = {}
  <2> DEFINE value(s) == IF s \in DOMAIN found THEN CHOOSE v \in found[s] : TRUE ELSE Defaults[s]
             new == [s \in Settings |-> value(s)]
  <2>1. phase' = "configured" /\ cfg' = new
    BY <1>2 DEF Configure
  <2>2. \A s \in Settings : value(s) \in Allowed(s)
    <3> TAKE s \in Settings
    <3>1. CASE s \in DOMAIN found
      <4>1. found[s] # {} /\ found[s] \subseteq Allowed(s)
        BY <1>2, <3>1
      <4>2. (CHOOSE v \in found[s] : TRUE) \in found[s]
        BY <4>1
      <4>3. QED
        BY <3>1, <4>1, <4>2
    <3>2. CASE s \notin DOMAIN found
      BY <3>2, DefaultsAreSettings DEF AreSettings
    <3>3. QED
      BY <3>1, <3>2
  <2> HIDE DEF value
  <2>3. AreSettings(cfg')
    <3>1. new = [s \in Settings |-> new[s]] /\ \A s \in Settings : new[s] \in Allowed(s)
      BY <2>2
    <3> HIDE DEF new
    <3>2. QED
      BY <2>1, <3>1 DEF AreSettings
  <2>4. \A s \in Settings : cfg'[s] = value(s)
    BY <2>1
  <2>5. QED
    BY <1>2, <2>1, <2>3, <2>4 DEF value
<1>3. QED
  BY <1>1, <1>2

\* What is read for a setting is a value of it.
LEMMA LexicalCastType ==
    ASSUME NEW s \in Settings, NEW text \in Text
    PROVE  LexicalCast(s, text) \subseteq Allowed(s) /\ ParseValue(s, text) \subseteq Allowed(s)
<1>1. CASE s \in ChannelSettings
  <2>1. s \notin NumberSettings
    BY <1>1 DEF ChannelSettings, NumberSettings
  <2>2. LexicalCast(s, text) = {text} /\ ParseValue(s, text) = {text}
    BY <1>1, <2>1 DEF LexicalCast, ParseValue
  <2>3. QED
    BY <1>1, <2>2 DEF Allowed
<1>2. CASE s \notin ChannelSettings /\ s \in NumberSettings
  <2>1. LexicalCast(s, text) \subseteq Numbers
    BY <1>2 DEF LexicalCast
  <2>2. ParseValue(s, text) = LexicalCast(s, text)
    BY <1>2 DEF ParseValue
  <2>3. QED
    BY <1>2, <2>1, <2>2 DEF Allowed
<1>3. CASE s \notin ChannelSettings /\ s \notin NumberSettings
  BY <1>3 DEF LexicalCast, ParseValue, Allowed
<1>4. QED
  BY <1>1, <1>2, <1>3

\* Reading the environment keeps the invariant,
LEMMA ReadEnvironmentKeeps ==
    ASSUME SettingsInv, ReadEnvironment
    PROVE  SettingsInv'
<1>1. PICK environment \in Environments :
         Configure([s \in DOMAIN environment |-> LexicalCast(s, environment[s])])
  BY DEF ReadEnvironment
<1> DEFINE found == [s \in DOMAIN environment |-> LexicalCast(s, environment[s])]
<1>2. \A s \in DOMAIN environment : s \in Settings /\ environment[s] \in Text
  BY SettingAssumption, StringsAreTexts
<1>3. \A s \in DOMAIN found : found[s] \subseteq Allowed(s)
  BY <1>2, LexicalCastType
<1>4. AreSettings(cfg') /\ phase' \in {"thrown", "configured"}
  <2> HIDE DEF found
  <2>1. AreSettings(cfg) /\ Configure(found)
    BY <1>1 DEF SettingsInv, TextsAreTexts, found
  <2>2. QED
    BY <1>3, <2>1, ConfigureType
<1>5. lines' = <<>> /\ lines = <<>> /\ given' = given /\ givenWith' = givenWith
  BY DEF ReadEnvironment, SettingsInv, FileIsMeant
<1>6. TextsAreTexts'
  BY <1>4, <1>5 DEF SettingsInv, TextsAreTexts, AreSettings
<1>7. QED
  BY <1>4, <1>5, <1>6
     DEF SettingsInv, AddedIsMeant, RequestChannelIsMeant, FileIsMeant, PlainFileIsRead

\* so does reading a file,
LEMMA ReadFileKeeps ==
    ASSUME SettingsInv, ReadFile
    PROVE  SettingsInv'
<1>1. PICK file \in Files :
         LET properties == PropertiesReader!Properties(file)
             settings == { s \in Settings : <<s>> \in DOMAIN properties }
         IN lines' = file /\ Configure([s \in settings |-> ParseValue(s, properties[<<s>>])])
  BY DEF ReadFile
<1> DEFINE properties == PropertiesReader!Properties(file)
           settings == { s \in Settings : <<s>> \in DOMAIN properties }
           found == [s \in settings |-> ParseValue(s, properties[<<s>>])]
<1>2. file \in Seq(Text)
  BY TextAssumption, StringsAreTexts
<1>3. \A s \in settings : properties[<<s>>] \in Text
  <2>1. Len(file) \in Nat
    BY <1>2
  <2>2. FileRun(file)[Len(file)] \in Params
    BY <1>2, <2>1, FileRunType
  <2>3. properties \in Params
    BY <2>2 DEF PropertiesReader!Properties, FileRun
  <2> HIDE DEF properties
  <2>4. \A key \in DOMAIN properties : properties[key] \in Text
    BY <2>3 DEF Params
  <2>5. QED
    BY <2>4
<1> HIDE DEF properties
<1>4. \A s \in DOMAIN found : found[s] \subseteq Allowed(s)
  BY <1>3, LexicalCastType
<1>5. /\ AreSettings(cfg')
      /\ phase' = "thrown" \/
           (/\ phase' = "configured" /\ \A s \in DOMAIN found : found[s] # {}
            /\ \A s \in Settings : cfg'[s] = IF s \in DOMAIN found THEN CHOOSE v \in found[s] : TRUE
                                                                   ELSE Defaults[s])
  <2>1. AreSettings(cfg) /\ Configure(found)
    BY <1>1 DEF SettingsInv, TextsAreTexts, properties
  <2> HIDE DEF found
  <2>2. QED
    BY <1>4, <2>1, ConfigureType
<1>6. lines' = file /\ given' = given /\ givenWith' = givenWith
  BY <1>1 DEF ReadFile
<1>7. TextsAreTexts'
  BY <1>2, <1>5, <1>6 DEF SettingsInv, TextsAreTexts, AreSettings
<1>8. PlainFileIsRead'
  <2>1. SUFFICES ASSUME phase' = "configured", \A n \in DOMAIN file : IsRegular(file[n]),
                        NEW s \in Settings
                 PROVE  LET about == { n \in DOMAIN file : SaysOf(file[n], s) # {} } IN
                        IF about = {} THEN cfg'[s] = Defaults[s]
                        ELSE \E n \in about :
                                /\ \A m \in about : n <= m
                                /\ \E text \in SaysOf(file[n], s) : cfg'[s] \in ParseValue(s, text)
    BY <1>6 DEF PlainFileIsRead
  <2> DEFINE about == { n \in DOMAIN file : SaysOf(file[n], s) # {} }
  <2>2. about = About(file, s, Len(file)) /\ about \subseteq Nat
    BY <1>2 DEF About
  <2>3. IsPlainFileRun(properties, file, s, Len(file))
    <3>1. s # "#"
      BY <2>1 DEF Settings, ChannelSettings, NumberSettings
    <3>2. QED
      BY <1>2, <2>1, <3>1, PlainFileIsReadAsItLooks DEF properties
  <2>4. /\ s \in DOMAIN found <=> about # {}
        /\ \A n \in about : (\A m \in about : n <= m) => properties[<<s>>] \in SaysOf(file[n], s)
    <3>1. s \in DOMAIN found <=> <<s>> \in DOMAIN properties
      OBVIOUS
    <3> HIDE DEF about, found
    <3>2. QED
      BY <2>2, <2>3, <3>1 DEF IsPlainFileRun
  <2>5. CASE about = {}
    <3>1. cfg'[s] = Defaults[s]
      <4> HIDE DEF about, found
      <4> QED BY <1>5, <2>1, <2>4, <2>5
    <3>2. QED
      BY <2>5, <3>1
  <2>6. CASE about # {}
    <3>1. s \in DOMAIN found /\ s \in settings
      BY <2>4, <2>6
    <3>2. PICK n \in about : \A m \in about : n <= m
      <4> HIDE DEF about
      <4> QED BY <2>2, <2>6, MinExists
    <3>3. properties[<<s>>] \in SaysOf(file[n], s)
      <4> HIDE DEF about
      <4> QED BY <2>4, <3>2
    <3>4. found[s] = ParseValue(s, properties[<<s>>])
      BY <3>1
    <3>5. cfg'[s] \in found[s]
      <4> HIDE DEF found
      <4>1. found[s] # {} /\ cfg'[s] = CHOOSE v \in found[s] : TRUE
        BY <1>5, <2>1, <3>1
      <4>2. QED
        BY <4>1
    <3>6. \E text \in SaysOf(file[n], s) : cfg'[s] \in ParseValue(s, text)
      <4> HIDE DEF found
      <4> QED BY <3>3, <3>4, <3>5
    <3>7. QED
      <4> HIDE DEF about
      <4> QED BY <2>6, <3>2, <3>6 DEF about
  <2>7. QED
    BY <2>5, <2>6
<1>9. phase' \in {"thrown", "configured"}
  BY <1>5
<1>10. QED
  BY <1>7, <1>8, <1>9 DEF SettingsInv, AddedIsMeant, RequestChannelIsMeant, FileIsMeant

\* What a request channel that is built is.
LEMMA BuildKeeps ==
    ASSUME SettingsInv, NEW value \in Text, BuildRequestChannel(value)
    PROVE  /\ given' \in Text /\ AreSettings(givenWith')
           /\ ChannelUri!Parse(given').isValid
           /\ ChannelUri!Parse(controlRequestChannel')
                = WithControlParams(ChannelUri!Parse(given'), givenWith')
<1> DEFINE uri == ChannelUri!Parse(value)
           with == WithControlParams(uri, cfg)
<1>1. /\ uri.isValid /\ controlRequestChannel' \in ChannelUri!ToStrings(with)
      /\ given' = value /\ givenWith' = cfg
  BY DEF BuildRequestChannel
<1>2. AreSettings(cfg)
  BY DEF SettingsInv, TextsAreTexts
<1>3. IsUri(uri)
  BY <1>1, ParseIsUri
<1>4. IsUri(with)
  <2> HIDE DEF uri
  <2> QED BY <1>2, <1>3, UriWithControlParams
<1>5. ChannelUri!Parse(controlRequestChannel') = with
  <2> HIDE DEF uri, with
  <2> QED BY <1>1, <1>4, PrintedIsParsed
<1>6. AreSettings(givenWith')
  BY <1>1, <1>2 DEF AreSettings
<1>7. QED
  BY <1>1, <1>5, <1>6

\* building the request channel from the defaults,
LEMMA ConstructKeeps ==
    ASSUME SettingsInv, Construct
    PROVE  SettingsInv'
<1>1. /\ cfg' = cfg /\ lines' = <<>>
  BY DEF Construct
<1>2. AreSettings(cfg')
  BY <1>1 DEF SettingsInv, TextsAreTexts, AreSettings
<1>3. <<>> \in Seq(Text)
  BY EmptySeq
<1>4. CASE phase' = "context" /\ BuildRequestChannel(cfg.controlChannel)
  <2>1. cfg.controlChannel \in Text
    <3>1. "controlChannel" \in Settings /\ "controlChannel" \in ChannelSettings
      BY DEF Settings, ChannelSettings
    <3>2. cfg["controlChannel"] \in Text
      BY <3>1 DEF SettingsInv, TextsAreTexts, AreSettings, Allowed
    <3>3. QED
      BY <3>2
  <2>2. /\ given' \in Text /\ AreSettings(givenWith')
        /\ ChannelUri!Parse(given').isValid
        /\ ChannelUri!Parse(controlRequestChannel')
             = WithControlParams(ChannelUri!Parse(given'), givenWith')
    BY <1>4, <2>1, BuildKeeps
  <2>3. TextsAreTexts'
    BY <1>1, <1>2, <1>3, <2>2 DEF TextsAreTexts, AreSettings
  <2>4. RequestChannelIsMeant'
    BY <2>2 DEF RequestChannelIsMeant
  <2>5. QED
    BY <1>1, <1>4, <2>3, <2>4 DEF SettingsInv, AddedIsMeant, FileIsMeant, PlainFileIsRead
<1>5. CASE phase' = "thrown" /\ UNCHANGED <<controlRequestChannel, given, givenWith>>
  <2>1. TextsAreTexts'
    BY <1>1, <1>2, <1>3, <1>5 DEF SettingsInv, TextsAreTexts, AreSettings
  <2>2. QED
    BY <1>5, <2>1
       DEF SettingsInv, AddedIsMeant, RequestChannelIsMeant, FileIsMeant, PlainFileIsRead
<1>6. QED
  BY <1>4, <1>5 DEF Construct

\* building it from a channel that is given,
LEMMA SetControlRequestChannelKeeps ==
    ASSUME SettingsInv, SetControlRequestChannel
    PROVE  SettingsInv'
<1>1. PICK value \in Channels : BuildRequestChannel(value)
  BY DEF SetControlRequestChannel
<1>2. value \in Text
  BY TextAssumption, StringsAreTexts
<1>3. phase = "context" /\ phase' = "context" /\ cfg' = cfg /\ lines' = lines
  BY DEF SetControlRequestChannel
<1>4. /\ given' \in Text /\ AreSettings(givenWith')
      /\ ChannelUri!Parse(given').isValid
      /\ ChannelUri!Parse(controlRequestChannel')
           = WithControlParams(ChannelUri!Parse(given'), givenWith')
  BY <1>1, <1>2, BuildKeeps
<1>5. TextsAreTexts'
  BY <1>3, <1>4 DEF SettingsInv, TextsAreTexts, AreSettings
<1>6. RequestChannelIsMeant'
  BY <1>4 DEF RequestChannelIsMeant
<1>7. QED
  BY <1>3, <1>5, <1>6 DEF SettingsInv, AddedIsMeant, FileIsMeant, PlainFileIsRead

\* setting anything else,
LEMMA SetKeeps ==
    ASSUME SettingsInv, Set
    PROVE  SettingsInv'
<1>1. PICK call \in SetterCalls : cfg' = [cfg EXCEPT ![call[1]] = call[2]]
  BY DEF Set
<1>2. call[1] \in Settings /\ call[2] \in Allowed(call[1])
  BY SettingAssumption, StringsAreTexts
<1>3. AreSettings(cfg')
  <2>1. cfg = [s \in Settings |-> cfg[s]] /\ \A s \in Settings : cfg[s] \in Allowed(s)
    BY DEF SettingsInv, TextsAreTexts, AreSettings
  <2>2. cfg' = [s \in Settings |-> IF s = call[1] THEN call[2] ELSE cfg[s]]
    BY <1>1, <2>1
  <2>3. cfg' = [s \in Settings |-> cfg'[s]]
    BY <2>2
  <2>4. \A s \in Settings : cfg'[s] \in Allowed(s)
    BY <1>2, <2>1, <2>2
  <2>5. QED
    BY <2>3, <2>4 DEF AreSettings
<1>4. /\ phase = "context" /\ phase' = phase /\ lines' = lines /\ given' = given
      /\ givenWith' = givenWith /\ controlRequestChannel' = controlRequestChannel
  BY DEF Set
<1>5. TextsAreTexts'
  BY <1>3, <1>4 DEF SettingsInv, TextsAreTexts, AreSettings
<1>6. QED
  BY <1>4, <1>5
     DEF SettingsInv, AddedIsMeant, RequestChannelIsMeant, FileIsMeant, PlainFileIsRead

\* The steps that leave the settings and the channels alone.
LEMMA ConnectKeeps ==
    ASSUME SettingsInv,
           UNCHANGED <<lines, cfg, controlRequestChannel, given, givenWith, added>>,
           phase' = phase \/ (phase = "context" /\ phase' \in {"connected", "thrown"})
    PROVE  SettingsInv'
<1>1. TextsAreTexts'
  BY DEF SettingsInv, TextsAreTexts, AreSettings
<1>2. AddedIsMeant' /\ RequestChannelIsMeant'
  BY DEF SettingsInv, AddedIsMeant, RequestChannelIsMeant
<1>3. FileIsMeant'
  BY DEF SettingsInv, FileIsMeant, PlainFileIsRead
<1>4. QED
  BY <1>1, <1>2, <1>3 DEF SettingsInv

\* and adding the session to a channel.
LEMMA AddSessionIdKeeps ==
    ASSUME SettingsInv, AddSessionId
    PROVE  SettingsInv'
<1>1. PICK text \in Texts :
         /\ given' = text
         /\ \/ phase' = "added" /\ added' \in ChannelUri!AddSessionId(text, Numeral(SessionId))
            \/ phase' = "thrown"
  BY DEF AddSessionId
<1>2. text \in Text
  BY TextAssumption, StringsAreTexts
<1>3. lines' = lines /\ cfg' = cfg /\ givenWith' = givenWith
  BY DEF AddSessionId
<1>4. TextsAreTexts'
  BY <1>1, <1>2, <1>3 DEF SettingsInv, TextsAreTexts, AreSettings
<1>5. AddedIsMeant'
  <2>1. SUFFICES ASSUME phase' = "added" PROVE AddedIsMeant'
    BY DEF AddedIsMeant
  <2>2. added' \in ChannelUri!AddSessionId(text, Numeral(SessionId))
    BY <1>1, <2>1
  <2> DEFINE uri == ChannelUri!Parse(text)
             with == ChannelUri!Uri(uri.spy, uri.media,
                       ChannelUri!Put(uri.params, ChannelUri!SessionIdParamName, Numeral(SessionId)))
  <2>3. uri.isValid /\ added' \in ChannelUri!ToStrings(with)
    BY <2>2 DEF ChannelUri!AddSessionId
  <2>4. IsUri(uri)
    BY <1>2, <2>3, ParseIsUri
  <2>5. IsUri(with)
    <3> HIDE DEF uri
    <3> QED BY <2>4, UriWithSessionId
  <2>6. ChannelUri!Parse(added') = with
    <3> HIDE DEF uri, with
    <3> QED BY <2>3, <2>5, PrintedIsParsed
  <2>7. QED
    BY <1>1, <2>3, <2>6 DEF AddedIsMeant
<1>6. phase' \in {"added", "thrown"}
  BY <1>1
<1>7. QED
  BY <1>4, <1>5, <1>6 DEF SettingsInv, RequestChannelIsMeant, FileIsMeant, PlainFileIsRead

\* No step breaks the invariant.
LEMMA NextKeepsSettings == SettingsInv /\ [Next]_vars => SettingsInv'
<1> SUFFICES ASSUME SettingsInv, [Next]_vars PROVE SettingsInv'
  OBVIOUS
<1>1. CASE ReadEnvironment
  BY <1>1, ReadEnvironmentKeeps
<1>2. CASE ReadFile
  BY <1>2, ReadFileKeeps
<1>3. CASE Construct
  BY <1>3, ConstructKeeps
<1>4. CASE SetControlRequestChannel
  BY <1>4, SetControlRequestChannelKeeps
<1>5. CASE Set
  BY <1>5, SetKeeps
<1>6. CASE SetAeronDirectoryName \/ SetAeron \/ Connect
  BY <1>6, ConnectKeeps DEF SetAeronDirectoryName, SetAeron, Connect
<1>7. CASE AddSessionId
  BY <1>7, AddSessionIdKeeps
<1>8. CASE UNCHANGED vars
  BY <1>8, ConnectKeeps DEF vars
<1>9. QED
  BY <1>1, <1>2, <1>3, <1>4, <1>5, <1>6, <1>7, <1>8 DEF Next

\* The inductive invariant: what was given are texts, and what is kept of them
\* is what they mean.
THEOREM SettingsInvariant == Spec => []SettingsInv
  BY InitSettings, NextKeepsSettings, PTL DEF Spec

\* ChannelUri::parse accepts exactly the texts that can be cut, for texts of any
\* length.
THEOREM ParsesAsCutAlways == Spec => []ParsesAsCut
<1>1. SettingsInv => ParsesAsCut
  BY ParseIsCut DEF SettingsInv, TextsAreTexts, ParsesAsCut
<1>2. QED
  BY <1>1, SettingsInvariant, PTL

\* addSessionId changes the session id of a channel and nothing else.
THEOREM SessionIdIsAddedAlways == Spec => []SessionIdIsAdded
<1>1. SettingsInv => SessionIdIsAdded
  <2>1. SUFFICES ASSUME SettingsInv, phase = "added" PROVE SessionIdIsAdded
    BY DEF SessionIdIsAdded
  <2> DEFINE before == ChannelUri!Parse(given)
             after == ChannelUri!Parse(added)
             key == <<"session-id">>
             value == Numeral(SessionId)
  <2>2. /\ before.isValid
        /\ after = ChannelUri!Uri(before.spy, before.media,
                     ChannelUri!Put(before.params, ChannelUri!SessionIdParamName, value))
    BY <2>1 DEF SettingsInv, AddedIsMeant
  <2>3. IsUri(before)
    BY <2>1, <2>2, ParseIsUri DEF SettingsInv, TextsAreTexts
  <2>4. /\ after.isValid /\ after.spy = before.spy /\ after.media = before.media
        /\ after.params = ChannelUri!Put(before.params, key, value)
    <3> HIDE DEF before, after
    <3> QED BY <2>2, <2>3, UriWithSessionId
  <2>5. /\ DOMAIN after.params = DOMAIN before.params \cup {key}
        /\ \A k \in DOMAIN after.params :
             after.params[k] = IF k = key THEN value ELSE before.params[k]
    <3> HIDE DEF before, after, key, value
    <3> QED BY <2>4 DEF ChannelUri!Put
  <2>6. QED
    BY <2>4, <2>5 DEF SessionIdIsAdded
<1>2. QED
  BY <1>1, SettingsInvariant, PTL

\* The request channel is the one that was given last, with the settings of that
\* moment.
THEOREM RequestChannelIsAsGivenAlways == Spec => []RequestChannelIsAsGiven
<1>1. SettingsInv => RequestChannelIsAsGiven
  <2>1. SUFFICES ASSUME SettingsInv, phase \in {"context", "connected"} PROVE RequestChannelIsAsGiven
    BY DEF RequestChannelIsAsGiven
  <2> DEFINE text == ChannelUri!Parse(given)
             uri == ChannelUri!Parse(controlRequestChannel)
  <2>2. text.isValid /\ uri = WithControlParams(text, givenWith)
    BY <2>1 DEF SettingsInv, RequestChannelIsMeant
  <2>3. IsUri(text) /\ AreSettings(givenWith)
    BY <2>1, <2>2, ParseIsUri DEF SettingsInv, TextsAreTexts
  <2>4. /\ uri.isValid /\ uri.spy = text.spy /\ uri.media = text.media
        /\ \A name \in DOMAIN ControlParams : uri.params[<<name>>] = ControlParam(givenWith, name)
        /\ \A key \in DOMAIN text.params \ ControlKeys : uri.params[key] = text.params[key]
    <3> HIDE DEF text, uri
    <3> QED BY <2>2, <2>3, UriWithControlParams
  <2>5. QED
    BY <2>4 DEF RequestChannelIsAsGiven
<1>2. QED
  BY <1>1, SettingsInvariant, PTL

\* A file of plain and silent lines gives each setting the value that its first
\* line says.
THEOREM PlainFileIsReadAlways == Spec => []PlainFileIsRead
<1>1. SettingsInv => PlainFileIsRead
  BY DEF SettingsInv, FileIsMeant
<1>2. QED
  BY <1>1, SettingsInvariant, PTL
=============================================================================
